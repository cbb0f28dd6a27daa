------------------------- MODULE EdgeRpcCallAbstract -------------------------
(***************************************************************************)
(* What an outbound call promises its caller (spec section 4.1, call):    *)
(* each call, once made, settles exactly once, and never settles again:   *)
(* with the peer's result, with the peer's error, or with a timeout.  A   *)
(* call with no answer still settles.                                     *)
(***************************************************************************)
CONSTANTS
    Calls

VARIABLES
    result,     \* result[c]: "idle", "pending" or the settled outcome
    answer      \* answer[c]: what the peer has answered so far

absVars == <<result, answer>>

Init ==
    /\ result = [c \in Calls |-> "idle"]
    /\ answer = [c \in Calls |-> "none"]

Call(c) ==
    /\ result[c] = "idle"
    /\ result' = [result EXCEPT ![c] = "pending"]
    /\ UNCHANGED answer

Answer(c) ==
    /\ result[c] # "idle"
    /\ answer[c] = "none"
    /\ answer' \in {[answer EXCEPT ![c] = a] : a \in {"ok", "error"}}
    /\ UNCHANGED result

\* The settled value is the peer's answer, if there is one, or a timeout.
Resolve(c) ==
    /\ result[c] = "pending"
    /\ result' \in {[result EXCEPT ![c] = v] :
                      v \in {"timeout"}
                            \cup (IF answer[c] = "ok" THEN {"ok"} ELSE {})
                            \cup (IF answer[c] = "error" THEN {"remote_error"} ELSE {})}
    /\ UNCHANGED answer

Next == \E c \in Calls : Call(c) \/ Answer(c) \/ Resolve(c)

Spec == Init /\ [][Next]_absVars /\ \A c \in Calls : WF_absVars(Resolve(c))

=============================================================================
