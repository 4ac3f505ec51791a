CONSTANTS
    Themes = {"light", "dark"}
    Zones = {"UTC", "Oslo", "Mars"}
    Names = {"", "Ann"}
    Refused = {"Mars"}
    First <- NoZoneYet
    Detected = "Oslo"
    Slots = {1, 2}
    MaxActs = 4
    MaxLost = 1
SPECIFICATION Spec
CHECK_DEADLOCK FALSE
PROPERTY ConfirmationStays
