CONSTANTS
    Lists = {inbox, other}
    Inbox = inbox
    Tasks = {1, 2}
    Handlers = {h1, h2}
    NoList = NoList
    NoTask = NoTask
    Null = Null
    Retention = 1
    PurgeLimit = 1
SPECIFICATION Spec
CHECK_DEADLOCK FALSE
SYMMETRY HandlerSymmetry
INVARIANTS TypeOK TasksHaveHomes LastReorderStands CreatedLast ExportConsistent
PROPERTY PurgeOnlyExpired
