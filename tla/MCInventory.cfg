SPECIFICATION InventorySpec
CONSTANTS
    Schema <- Migrations
    Start <- InitialRows
    MaxChanges = 2
    Ids = {1, 2}
INVARIANTS
    InventoryTypeOK
    OneClaimEach
    SubnetsFollowSupernet
PROPERTIES
    RowsGoOneByOne
    DecidedIsFinal
CHECK_DEADLOCK FALSE
