\* Every failure and every crash between the system calls of a save.
SPECIFICATION Spec
CONSTANTS
    Values = {m1, m2, m3}
    Zero = Zero
    Torn = Torn
    NoSave = NoSave
    NoFile = NoFile
PROPERTY Atomic
