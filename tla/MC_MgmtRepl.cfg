CONSTANTS
    c1 = c1
    c2 = c2
    Calls <- MCCalls
SPECIFICATION Spec
INVARIANTS
    TypeOK
PROPERTIES
    ExitEndsProcess
    CommandSettles
\* A process with nothing left to run waits: that is a stop, not an error;
\* whether it ends is what ExitEndsProcess checks.
CHECK_DEADLOCK FALSE
