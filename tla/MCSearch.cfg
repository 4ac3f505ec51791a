CONSTANTS
    Tasks = {1, 2, 3}
    CreatedAt <- MCCreatedAt
    Titled = {1, 2}
    MaxNow = 2
    NoDue = NoDue
    Dues = {0, NoDue}
    Day <- MCDay
    Limit = 1
    Statuses = {"completed"}
    Buckets = {}
    Views = {"today", "all"}
    Slots = {1, 2}
    MaxActs = 3
    MaxChanges = 1
SPECIFICATION Spec
CHECK_DEADLOCK FALSE
INVARIANTS TypeOK DueViewsPartition PagesExact AnswersLatest
