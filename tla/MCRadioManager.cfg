SPECIFICATION FairSpec
CONSTANTS
    Users = {radio}
    Clients = {c1, c2}
    Unlimited = {c1}
    RadioUser = radio
    RequestQueue = 1
    ControlQueue = 3
    MaxRequests = 3
INVARIANTS
    LeaseIsReal
    GrantHasAnEnd
PROPERTY
    ManagerRests
CHECK_DEADLOCK FALSE
