CONSTANTS
    Lists = {inbox, other}
    Inbox = inbox
    Tasks = {1, 2}
    Handlers = {h1}
    NoList = NoList
    NoTask = NoTask
    Null = Null
    Retention = 1
    PurgeLimit = 1
SPECIFICATION FairSpec
CHECK_DEADLOCK FALSE
PROPERTY ExpiredPurged
