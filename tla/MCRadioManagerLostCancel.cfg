SPECIFICATION Spec
CONSTANTS
    Users = {radio}
    Clients = {timeSync}
    Unlimited = {}
    RadioUser = radio
    RequestQueue = 1
    ControlQueue = 2
    MaxRequests = 3
INVARIANT
    GrantHasAnEnd
CHECK_DEADLOCK FALSE
