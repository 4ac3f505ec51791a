CONSTANTS
    Tasks = {1, 2, 3}
    Stocked = {1, 2}
    Slots = {1, 2}
    Window = 1
    Fields = {"title", "priority"}
    MaxActs = 2
    MaxLost = 1
SPECIFICATION OneArrangement
INVARIANTS TypeOK ShownIsStored NothingLeftWaiting WindowNotRestarted
