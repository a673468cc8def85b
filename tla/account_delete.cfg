SPECIFICATION Spec
CONSTANTS
    Names = {"admin", "ann"}
    MaxIds = 2
    MaxHeld = 1
PROPERTY ListedUserIsDeleted
CHECK_DEADLOCK FALSE
