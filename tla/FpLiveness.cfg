SPECIFICATION FairSpec
CONSTANTS
    c1 = c1  c2 = c2  w1 = w1  w2 = w2
    NoWorker = NoWorker  NoPath = NoPath  NoMeta = NoMeta
    Clients = {c1, c2}
    Workers = {w1}
    Gids = {0}
    MaxTemplates = 1
    Stages = 1
    OperationIds = {1}
    Users = {1}
    AuthIds = {1, 2, 3}
    MaxChallenge = 1
    Ops = {"enroll", "authenticate", "cancel", "enumerate", "remove", "set_active_group", "close"}
    Faults = {}
PROPERTIES
    CallReturns
    EnrollEnds
