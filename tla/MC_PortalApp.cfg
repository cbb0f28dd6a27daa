CONSTANTS
    d1 = d1
    d2 = d2
    d3 = d3
    DevIds <- MCDevIds
    InitialStore <- MCInitialStore
    MaxRequests = 4
    \* The user waits for each answer before the next click.
    MaxInflight = 1
SPECIFICATION Spec
INVARIANTS
    TypeOK
    ShowsServerState
