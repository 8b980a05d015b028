SPECIFICATION Spec
CONSTANTS
    c1 = c1  c2 = c2  w1 = w1  w2 = w2
    NoWorker = NoWorker  NoPath = NoPath  NoMeta = NoMeta
    Clients = {c1}
    Workers = {w1}
    Gids = {0, 1}
    MaxTemplates = 2
    Stages = 1
    OperationIds = {1}
    Users = {1}
    AuthIds = {1, 2, 3, 4}
    MaxChallenge = 1
    Ops = {"enroll", "authenticate", "remove", "set_active_group", "close"}
    Faults = {"create", "sensor"}
INVARIANTS
    IdDescribesGallery
    TokenNamesUser
    MemoryIsDisk
