CONSTANTS
    Lists = {1, 2, 3}
    Inbox = 1
    Stocked = {1, 2}
    Names = {"plain", "new", ""}
    Plain = "plain"
    Narrow = TRUE
    Slots = {1, 2}
    MaxActs = 3
    MaxLost = 1
SPECIFICATION Spec
INVARIANTS TypeOK LastMoveStands SidebarFollows SaysWhatIsSo
