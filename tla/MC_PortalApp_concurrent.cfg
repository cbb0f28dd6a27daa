CONSTANTS
    d1 = d1
    d2 = d2
    d3 = d3
    DevIds <- MCDevIds
    InitialStore <- MCInitialStore
    MaxRequests = 4
    \* The user clicks again before the first answer arrives.
    MaxInflight = 2
SPECIFICATION Spec
INVARIANTS
    ShowsServerState
