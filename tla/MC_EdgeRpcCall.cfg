CONSTANTS
    c1 = c1
    c2 = c2
    Calls <- MCCalls
SPECIFICATION Spec
INVARIANTS
    TypeOK
    OutcomeFaithful
    NoTimerOutlivesCall
PROPERTIES
    AbsSpec
\* The REPL waits for the next command once its calls are settled: stopping is normal.
CHECK_DEADLOCK FALSE
