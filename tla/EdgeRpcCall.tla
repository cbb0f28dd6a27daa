---------------------------- MODULE EdgeRpcCall ----------------------------
(***************************************************************************)
(* The outbound JSON-RPC call with a timeout, the pattern every RPC method *)
(* of the example clients repeats (e.g. EdgeMgmtExample.prototype.devices *)
(* in simple-mgmt-example.js):                                            *)
(*                                                                         *)
(*   return new Promise((resolve, reject) => {                             *)
(*     let timeout = setTimeout(() => reject('Timeout'), TIMEOUT);         *)
(*     self.client.send(method, params, function(error, response) {       *)
(*       clearTimeout(timeout);                                            *)
(*       if (!error) resolve(response); else reject(error); });  });      *)
(*                                                                         *)
(* Several calls may be in flight at once: the management REPL starts a  *)
(* call per command and does not await it.  The peer (Edge Core) is the   *)
(* environment: it answers a request with a result or an error, or never *)
(* answers.  A JavaScript promise settles at most once; resolve or reject *)
(* on a settled promise does nothing (Settle below).                      *)
(***************************************************************************)
CONSTANTS
    Calls           \* the calls the client makes, one promise each

VARIABLES
    promise,        \* promise[c]: "idle" (not made), "pending", or the settled outcome
    timer,          \* timer[c]: the setTimeout of the call
    reply,          \* reply[c]: what the peer did with the request
    delivered       \* delivered[c]: the send callback has run

rpcVars == <<promise, timer, reply, delivered>>

\* "exception": the promise executor threw, which rejects the promise.
Outcomes == {"ok", "remote_error", "timeout", "exception"}

TypeOK ==
    /\ promise \in [Calls -> {"idle", "pending"} \cup Outcomes]
    /\ timer \in [Calls -> {"none", "armed", "fired", "cleared"}]
    /\ reply \in [Calls -> {"none", "inflight", "ok", "error", "lost"}]
    /\ delivered \in [Calls -> BOOLEAN]

Init ==
    /\ promise = [c \in Calls |-> "idle"]
    /\ timer = [c \in Calls |-> "none"]
    /\ reply = [c \in Calls |-> "none"]
    /\ delivered = [c \in Calls |-> FALSE]

\* resolve(v) / reject(v): only the first one changes the promise.
Settle(c, v) ==
    promise' = IF promise[c] = "pending"
               THEN [promise EXCEPT ![c] = v]
               ELSE promise

\* Mutant: the promise executor without its setTimeout.
IssueNoTimer(c) ==
    /\ promise[c] = "idle"
    /\ promise' = [promise EXCEPT ![c] = "pending"]
    /\ reply' = [reply EXCEPT ![c] = "inflight"]
    /\ UNCHANGED <<timer, delivered>>

\* The method is called: the promise executor arms the timer and sends
\* the request.
Issue(c) ==
    /\ promise[c] = "idle"
    /\ promise' = [promise EXCEPT ![c] = "pending"]
    /\ timer' = [timer EXCEPT ![c] = "armed"]
    /\ reply' = [reply EXCEPT ![c] = "inflight"]
    /\ UNCHANGED delivered

\* The executor throws after setTimeout and before client.send (it converts
\* a value that is undefined): the Promise constructor rejects the promise
\* with the exception, the request is never sent and the timer stays armed.
IssueThrows(c) ==
    /\ promise[c] = "idle"
    /\ promise' = [promise EXCEPT ![c] = "exception"]
    /\ timer' = [timer EXCEPT ![c] = "armed"]
    /\ UNCHANGED <<reply, delivered>>

\* The peer answers the request with a result or a JSON-RPC error ...
PeerAnswer(c) ==
    /\ reply[c] = "inflight"
    /\ \E r \in {"ok", "error"} : reply' = [reply EXCEPT ![c] = r]
    /\ UNCHANGED <<promise, timer, delivered>>

\* ... or never answers it.
PeerDrop(c) ==
    /\ reply[c] = "inflight"
    /\ reply' = [reply EXCEPT ![c] = "lost"]
    /\ UNCHANGED <<promise, timer, delivered>>

\* Mutant: the send callback without clearTimeout.
ClearTimerMissing(c) == timer' = timer

\* clearTimeout(timeout): a timer that already fired stays fired.
ClearTimer(c) ==
    timer' = IF timer[c] = "armed" THEN [timer EXCEPT ![c] = "cleared"] ELSE timer

\* Mutant: the callback settles with whatever came back, error or not
\* (resolve(error || response)).
SendCallbackPassesError(c) ==
    /\ reply[c] \in {"ok", "error"}
    /\ ~delivered[c]
    /\ delivered' = [delivered EXCEPT ![c] = TRUE]
    /\ ClearTimer(c)
    /\ Settle(c, reply[c])
    /\ UNCHANGED reply

\* Mutant: the callback's test inverted (if (error) resolve ...).
SendCallbackInverted(c) ==
    /\ reply[c] \in {"ok", "error"}
    /\ ~delivered[c]
    /\ delivered' = [delivered EXCEPT ![c] = TRUE]
    /\ ClearTimer(c)
    /\ Settle(c, IF reply[c] = "ok" THEN "remote_error" ELSE "ok")
    /\ UNCHANGED reply

\* The send callback runs with the answer: clear the timer, then resolve
\* or reject.  After a timeout both do nothing.
SendCallback(c) ==
    /\ reply[c] \in {"ok", "error"}
    /\ ~delivered[c]
    /\ delivered' = [delivered EXCEPT ![c] = TRUE]
    /\ ClearTimer(c)
    /\ Settle(c, IF reply[c] = "ok" THEN "ok" ELSE "remote_error")
    /\ UNCHANGED reply

\* The timer expires: reject('Timeout').
TimerFires(c) ==
    /\ timer[c] = "armed"
    /\ timer' = [timer EXCEPT ![c] = "fired"]
    /\ Settle(c, "timeout")
    /\ UNCHANGED <<reply, delivered>>

Next ==
    \E c \in Calls :
        \/ Issue(c)
        \/ PeerAnswer(c)
        \/ PeerDrop(c)
        \/ SendCallback(c)
        \/ TimerFires(c)

\* Node's event loop runs every due timer and every received callback;
\* the peer and the caller promise nothing.
Fairness ==
    \A c \in Calls : WF_rpcVars(TimerFires(c)) /\ WF_rpcVars(SendCallback(c))

Spec == Init /\ [][Next]_rpcVars /\ Fairness

-----------------------------------------------------------------------------
(* Properties *)

\* The outcome the caller sees is the one that happened: "ok" only for a
\* success answer the callback delivered, "remote_error" only for an error
\* answer, "timeout" only when the call's own timer expired (a timer that
\* expires after the answer was delivered must not have been the cause).
OutcomeFaithful ==
    \A c \in Calls :
        /\ promise[c] = "ok" => delivered[c] /\ reply[c] = "ok"
        /\ promise[c] = "remote_error" => delivered[c] /\ reply[c] = "error"
        /\ promise[c] = "timeout" => timer[c] = "fired"
        /\ promise[c] = "exception" => reply[c] = "none"

\* No timer outlives its call (spec 4.1: the call must not leak the timer):
\* once the promise has settled, by the answer or by the timer, the
\* callback's clearTimeout or the expiry itself has disarmed the timer.
NoTimerOutlivesCall ==
    \A c \in Calls : promise[c] \notin {"idle", "pending"} => timer[c] # "armed"

-----------------------------------------------------------------------------
(* Refinement: the timer and callback mechanism implements the abstract  *)
(* call.  The peer's answer is visible once it is on its way back.       *)

PeerAnswerSoFar ==
    [c \in Calls |-> IF reply[c] \in {"ok", "error"} THEN reply[c] ELSE "none"]

Abs == INSTANCE EdgeRpcCallAbstract WITH result <- promise, answer <- PeerAnswerSoFar

\* Every call settles exactly once, to the peer's answer or to a timeout,
\* and a call the peer never answers still settles.
AbsSpec == Abs!Spec

=============================================================================
