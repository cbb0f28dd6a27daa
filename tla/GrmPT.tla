-------------------------------- MODULE GrmPT --------------------------------
(***************************************************************************)
(* simple-grm-example.js: a gateway resource manager that registers with  *)
(* Edge Core, adds the resources /33001/0/0 and /33001/0/1 and writes a   *)
(* new value, one step per key press, while Edge Core may call the "write" *)
(* handler it exposed.  SIGINT disconnects and exits; any failure of the  *)
(* main flow is caught, disconnects and exits.                            *)
(***************************************************************************)
EXTENDS Naturals, Sequences, FiniteSets

CONSTANTS
    Inbound,    \* the "write" requests Edge Core may send
    Req         \* Req[i]: whether request i carries a value and a uri

WriteReq == [value : BOOLEAN, uri : BOOLEAN]

ASSUME \A i \in Inbound : i \in DOMAIN Req /\ Req[i] \in WriteReq

\* The main flow's calls, in program order (lines 257-265).
MainCalls == <<"gw_resource_manager_register", "add_resource", "write_resource_value">>

AllCalls == {MainCalls[k] : k \in 1..Len(MainCalls)}

VARIABLES
    promise, timer, reply, delivered,   \* the outbound calls (EdgeRpcCall)
    pc,         \* the main async function: where it waits
    step,       \* the index in MainCalls of its next or current call
    proc,       \* "running", "exited" (process.exit) or "crashed" (uncaught exception)
    disc,       \* an edge.disconnect() is pending
    sigint,     \* SIGINT has been received
    exposed,    \* the "write" handler is exposed
    inb,        \* inb[i]: "none", "sent" by Edge Core, or "handled"
    replies     \* replies[i]: the responses the handler sent for request i

R == INSTANCE EdgeRpcCall WITH Calls <- AllCalls

rpcVars == <<promise, timer, reply, delivered>>
procVars == <<proc, disc, sigint>>
inVars == <<exposed, inb, replies>>
vars == <<rpcVars, pc, step, procVars, inVars>>

TypeOK ==
    /\ R!TypeOK
    /\ pc \in {"hold_connect", "connecting", "hold", "calling", "idle", "catch"}
    /\ step \in 1..Len(MainCalls)
    /\ proc \in {"running", "exited", "crashed"}
    /\ disc \in BOOLEAN /\ sigint \in BOOLEAN
    /\ exposed \in BOOLEAN
    /\ inb \in [Inbound -> {"none", "sent", "handled"}]
    /\ replies \in [Inbound -> 0..2]

Init ==
    /\ R!Init
    /\ pc = "hold_connect" /\ step = 1
    /\ proc = "running" /\ disc = FALSE /\ sigint = FALSE
    /\ exposed = FALSE
    /\ inb = [i \in Inbound |-> "none"]
    /\ replies = [i \in Inbound |-> 0]

Running == proc = "running"

\* Where the main flow waits in holdProgress, with stdin in raw mode.
Prompts == {"hold_connect", "hold"}

\* Mutant: the catch block logs but never calls edge.disconnect().
FailNoDisconnect ==
    /\ pc' = "catch" /\ step' = step
    /\ UNCHANGED disc

\* The catch block (lines 269-278): log, then edge.disconnect().
Fail ==
    /\ pc' = "catch" /\ step' = step
    /\ disc' = TRUE

\* Mutant: off by one at the last call (step <= steps).
AdvanceOffByOne ==
    /\ IF step <= Len(MainCalls)
       THEN pc' = "hold" /\ step' = step + 1
       ELSE pc' = "idle" /\ step' = step
    /\ UNCHANGED disc

\* The main flow continues with the next holdProgress, or with "Kill the
\* example with Ctrl+C" after the last call.
Advance ==
    /\ IF step < Len(MainCalls)
       THEN pc' = "hold" /\ step' = step + 1
       ELSE pc' = "idle" /\ step' = step
    /\ UNCHANGED disc

-----------------------------------------------------------------------------
(* The main flow, lines 235-279 *)

\* A key press ends holdProgress("Press any key to connect Edge.") and
\* edge.connect() calls client.connect.
KeyConnect ==
    /\ Running /\ pc = "hold_connect"
    /\ pc' = "connecting"
    /\ UNCHANGED <<rpcVars, step, procVars, inVars>>

\* The connect callback resolves, or rejects into the catch block.
ConnectCallback ==
    /\ Running /\ pc = "connecting"
    /\ \/ pc' = "hold" /\ UNCHANGED disc
       \/ Fail
    /\ UNCHANGED <<rpcVars, step, proc, sigint, inVars>>

\* A key press ends holdProgress and the next method is called; the main
\* flow awaits its promise.
KeyNext ==
    /\ Running /\ pc = "hold"
    /\ R!Issue(MainCalls[step])
    /\ pc' = "calling"
    /\ UNCHANGED <<step, procVars, inVars>>

\* What runs when call c settles in this step: the main flow goes on after
\* a resolved promise and enters the catch block after a rejected one.
Resume(c) ==
    IF promise[c] = "pending" /\ promise'[c] # "pending"
    THEN IF promise'[c] = "ok" THEN Advance ELSE Fail
    ELSE UNCHANGED <<pc, step, disc>>

\* Mutant: the registration callback resolves without exposing "write".
RpcCallbackNoExpose(c) ==
    /\ Running
    /\ R!SendCallback(c)
    /\ exposed' = exposed
    /\ Resume(c)
    /\ UNCHANGED <<proc, sigint, inb, replies>>

\* The send callback of call c.  The registration callback exposes "write"
\* on a success answer, whether or not the promise already timed out
\* (lines 87-97).
RpcCallback(c) ==
    /\ Running
    /\ R!SendCallback(c)
    /\ exposed' = (exposed \/ (c = MainCalls[1] /\ reply[c] = "ok"))
    /\ Resume(c)
    /\ UNCHANGED <<proc, sigint, inb, replies>>

\* The timer of call c expires and rejects its promise with 'Timeout'.
RpcTimeout(c) ==
    /\ Running
    /\ R!TimerFires(c)
    /\ Resume(c)
    /\ UNCHANGED <<proc, sigint, inVars>>

\* Edge Core answers, or loses, an outbound request.
RpcPeer(c) ==
    /\ Running
    /\ R!PeerAnswer(c) \/ R!PeerDrop(c)
    /\ UNCHANGED <<pc, step, procVars, inVars>>

-----------------------------------------------------------------------------
(* The "write" handler, and process termination *)

\* Edge Core sends write request i, for a resource this manager added; it
\* does so only after accepting the registration and the resources.
EdgeSends(i) ==
    /\ Running /\ inb[i] = "none"
    /\ reply[MainCalls[1]] = "ok" /\ reply[MainCalls[2]] = "ok"
    /\ inb' = [inb EXCEPT ![i] = "sent"]
    /\ UNCHANGED <<rpcVars, pc, step, procVars, exposed, replies>>

\* The "write" handler (lines 190-224): Buffer.from(params.value, 'base64')
\* throws on a missing value and params.uri.objectId on a missing uri; the
\* exception escapes the handler, the request is never answered and the
\* uncaught exception may end the process.  Otherwise the handler logs
\* the write, whatever its operation, and responds 'ok'.
HandleWrite(i) ==
    /\ Running /\ exposed /\ inb[i] = "sent"
    /\ inb' = [inb EXCEPT ![i] = "handled"]
    /\ IF Req[i].value /\ Req[i].uri
       THEN /\ replies' = [replies EXCEPT ![i] = @ + 1]
            /\ UNCHANGED proc
       ELSE /\ proc' \in {"running", "crashed"}
            /\ UNCHANGED replies
    /\ UNCHANGED <<rpcVars, pc, step, disc, sigint, exposed>>

\* SIGINT: quitImmediately is never set, so the handler awaits
\* edge.disconnect() (lines 242-248).
\* At a "Press any key" prompt stdin is in raw mode (holdProgress, lines
\* 226-233): Ctrl+C is read as a key press there, not delivered as SIGINT.
Sigint ==
    /\ Running /\ pc \notin Prompts
    /\ sigint' = TRUE
    /\ disc' = TRUE
    /\ UNCHANGED <<rpcVars, pc, step, proc, inVars>>

\* The disconnect callback settles edge.disconnect(); whether it resolves
\* or rejects, the awaiting code (the SIGINT handler or the catch block)
\* calls process.exit(1).
DisconnectDone ==
    /\ Running /\ disc
    /\ disc' = FALSE
    /\ proc' = "exited"
    /\ UNCHANGED <<rpcVars, pc, step, sigint, inVars>>

\* After process.exit or a crash nothing happens any more.
Terminated ==
    /\ ~Running
    /\ UNCHANGED vars

Next ==
    \/ KeyConnect \/ ConnectCallback \/ KeyNext
    \/ \E c \in AllCalls : RpcCallback(c) \/ RpcTimeout(c) \/ RpcPeer(c)
    \/ \E i \in Inbound : EdgeSends(i) \/ HandleWrite(i)
    \/ Sigint \/ DisconnectDone
    \/ Terminated

\* Node runs every due timer, every callback and every received message; the
\* transport calls back connect and disconnect.  The operator (key presses,
\* SIGINT) and Edge Core promise nothing.
Fairness ==
    /\ WF_vars(ConnectCallback) /\ WF_vars(DisconnectDone)
    /\ \A c \in AllCalls : WF_vars(RpcCallback(c)) /\ WF_vars(RpcTimeout(c))
    /\ \A i \in Inbound : WF_vars(HandleWrite(i))

Spec == Init /\ [][Next]_vars /\ Fairness

-----------------------------------------------------------------------------
(* Properties *)

\* Every well-formed write Edge Core sends is eventually answered, unless
\* the process ends first: Edge Core sends only after accepting the
\* registration, and its callback must have exposed "write" by then, even
\* when the answer came after the timeout.
WellFormedWriteAnswered ==
    \A i \in Inbound :
        Req[i].value /\ Req[i].uri => (inb[i] = "sent" ~> (replies[i] > 0 \/ ~Running))

\* The main flow as MainFlow sees it: where it waits, and how many of its
\* calls resolved.
FlowPhase ==
    CASE pc \in {"hold_connect", "connecting"} -> "connect"
      [] pc = "hold" -> "prompt"
      [] pc = "calling" -> "busy"
      [] pc = "idle" -> "done"
      [] pc = "catch" -> "failed"

FlowDone == Cardinality({k \in 1..Len(MainCalls) : promise[MainCalls[k]] = "ok"})

MF == INSTANCE MainFlow WITH NCalls <- Len(MainCalls), phase <- FlowPhase,
                             done <- FlowDone, alive <- Running

\* The main flow implements MainFlow: one call at a time, in order, each
\* settling; a rejected call or connect enters the catch block, which
\* ends the process whether the disconnect resolves or rejects (spec
\* section 7).  The write handler and late answers run beside it.
MainFlowRefined == MF!Spec

\* Every write that reaches the handler is answered exactly once, whatever
\* its parameters: spec section 4.1 (expose) requires that no code path,
\* exceptions inside the handler included, leaves an inbound call
\* unanswered.  The handler decodes params.value and reads params.uri
\* before its response().
EveryHandledAnswered ==
    \A i \in Inbound : inb[i] = "handled" => replies[i] = 1

=============================================================================
