------------------------------- MODULE CryptoPT -------------------------------
(***************************************************************************)
(* pt-crypto-api-example.js: a protocol translator that registers with    *)
(* Edge Core and then makes eight certificate and crypto calls, one per   *)
(* key press, while Edge Core may call the two handlers it exposed:       *)
(* "certificate_renewal_result" and "crypto_get_certificate_result".      *)
(* SIGINT disconnects and exits; any failure of the main flow is caught,  *)
(* disconnects and exits.                                                 *)
(*                                                                         *)
(* Two calls take an argument from an earlier answer: the verify call the *)
(* signature_data of the sign answer, the ECDH call the key_data of the   *)
(* public-key answer.  Each converts it with toString('base64') inside    *)
(* its promise executor, after setTimeout and before client.send.         *)
(***************************************************************************)
EXTENDS Naturals, Sequences, FiniteSets

CONSTANTS
    Inbound,    \* the requests Edge Core may send to the exposed handlers
    Req         \* Req[i]: the method request i calls

Handlers == {"certificate_renewal_result", "crypto_get_certificate_result"}

ASSUME \A i \in Inbound : i \in DOMAIN Req /\ Req[i] \in Handlers

\* The main flow's calls, in program order (lines 329-365).
MainCalls == <<"protocol_translator_register", "crypto_get_certificate",
               "crypto_get_public_key", "certificate_renewal_list_set",
               "renew_certificate", "crypto_generate_random",
               "crypto_asymmetric_sign", "crypto_asymmetric_verify",
               "crypto_ecdh_key_agreement">>

AllCalls == {MainCalls[k] : k \in 1..Len(MainCalls)}

\* The call whose answer carries the argument of a later call: signatureData
\* (line 358) and peerPublicKey (line 340).
Consumes == [crypto_asymmetric_verify |-> "crypto_asymmetric_sign",
             crypto_ecdh_key_agreement |-> "crypto_get_public_key"]

Producers == {Consumes[c] : c \in DOMAIN Consumes}

VARIABLES
    promise, timer, reply, delivered,   \* the outbound calls (EdgeRpcCall)
    pc,         \* the main async function: where it waits
    step,       \* the index in MainCalls of its next or current call
    proc,       \* "running" or "exited" (process.exit)
    disc,       \* an edge.disconnect() is pending
    discTried,  \* edge.disconnect() has been called at least once
    sigint,     \* SIGINT has been received
    exposed,    \* the two handlers are exposed
    inb,        \* inb[i]: "none", "sent" by Edge Core, or "handled"
    replies,    \* replies[i]: the responses the handler sent for request i
    field       \* field[p]: the field read from the answer of p, "unset" before

R == INSTANCE EdgeRpcCall WITH Calls <- AllCalls

rpcVars == <<promise, timer, reply, delivered>>
procVars == <<proc, disc, discTried, sigint>>
inVars == <<exposed, inb, replies>>
vars == <<rpcVars, pc, step, procVars, inVars, field>>

TypeOK ==
    /\ R!TypeOK
    /\ pc \in {"hold_connect", "connecting", "hold", "calling", "idle", "catch"}
    /\ step \in 1..Len(MainCalls)
    /\ proc \in {"running", "exited"}
    /\ disc \in BOOLEAN /\ discTried \in BOOLEAN /\ sigint \in BOOLEAN
    /\ exposed \in BOOLEAN
    /\ inb \in [Inbound -> {"none", "sent", "handled"}]
    /\ replies \in [Inbound -> 0..2]
    /\ field \in [Producers -> {"unset", "present", "undefined"}]

Init ==
    /\ R!Init
    /\ pc = "hold_connect" /\ step = 1
    /\ proc = "running" /\ disc = FALSE /\ discTried = FALSE /\ sigint = FALSE
    /\ exposed = FALSE
    /\ inb = [i \in Inbound |-> "none"]
    /\ replies = [i \in Inbound |-> 0]
    /\ field = [p \in Producers |-> "unset"]

Running == proc = "running"

\* Where the main flow waits in holdProgress, with stdin in raw mode.
Prompts == {"hold_connect", "hold"}

\* edge.disconnect(): client.disconnect with a callback.
StartDisconnect ==
    /\ disc' = TRUE
    /\ discTried' = TRUE

\* Mutant: off by one at the last call (step <= steps).
AdvanceOffByOne ==
    /\ IF step <= Len(MainCalls)
       THEN pc' = "hold" /\ step' = step + 1
       ELSE pc' = "idle" /\ step' = step
    /\ UNCHANGED <<disc, discTried>>

\* The main flow continues with the next holdProgress, or with "Kill the
\* example with Ctrl+C" after the last call.
Advance ==
    /\ IF step < Len(MainCalls)
       THEN pc' = "hold" /\ step' = step + 1
       ELSE pc' = "idle" /\ step' = step
    /\ UNCHANGED <<disc, discTried>>

\* The catch block (lines 369-378): log, then edge.disconnect().
Fail ==
    /\ pc' = "catch" /\ step' = step
    /\ StartDisconnect

-----------------------------------------------------------------------------
(* The main flow, lines 307-379 *)

\* A key press ends holdProgress("Press any key to connect Edge.") and
\* edge.connect() calls client.connect.
KeyConnect ==
    /\ Running /\ pc = "hold_connect"
    /\ pc' = "connecting"
    /\ UNCHANGED <<rpcVars, step, procVars, inVars, field>>

\* The connect callback resolves, or rejects into the catch block.
ConnectCallback ==
    /\ Running /\ pc = "connecting"
    /\ \/ pc' = "hold" /\ UNCHANGED <<disc, discTried>>
       \/ Fail
    /\ UNCHANGED <<rpcVars, step, proc, sigint, inVars, field>>

\* The argument call c converts in its executor is undefined: the answer of
\* the call it takes it from had no such field.
ArgUndefined(c) ==
    c \in DOMAIN Consumes /\ field[Consumes[c]] = "undefined"

\* Mutant: the executor without its setTimeout.
KeyNextNoTimer ==
    /\ Running /\ pc = "hold"
    /\ LET c == MainCalls[step] IN
       IF ArgUndefined(c)
       THEN R!IssueThrows(c) /\ Fail
       ELSE /\ R!IssueNoTimer(c)
            /\ pc' = "calling"
            /\ UNCHANGED <<step, disc, discTried>>
    /\ UNCHANGED <<proc, sigint, inVars, field>>

\* A key press ends holdProgress and the next method is called; the main
\* flow awaits its promise.  When the executor throws on an undefined
\* argument (lines 254, 275) the promise is already rejected and the await
\* resumes at once in the catch block.
KeyNext ==
    /\ Running /\ pc = "hold"
    /\ LET c == MainCalls[step] IN
       IF ArgUndefined(c)
       THEN R!IssueThrows(c) /\ Fail
       ELSE /\ R!Issue(c)
            /\ pc' = "calling"
            /\ UNCHANGED <<step, disc, discTried>>
    /\ UNCHANGED <<proc, sigint, inVars, field>>

\* The main flow resumes when the promise of call c settles.  After the
\* public-key and the sign calls it reads a field of the answer: it may be
\* missing (undefined is stored) or the answer may be null (reading it
\* throws a TypeError into the catch block).
MainResume(c, outcome) ==
    \/ /\ outcome = "ok" /\ c \in Producers
       /\ \E f \in {"present", "undefined"} : field' = [field EXCEPT ![c] = f]
       /\ Advance
    \/ /\ outcome = "ok" /\ c \in Producers
       /\ Fail /\ UNCHANGED field
    \/ /\ outcome = "ok" /\ c \notin Producers
       /\ Advance /\ UNCHANGED field
    \/ /\ outcome # "ok"
       /\ Fail /\ UNCHANGED field

\* What runs when call c settles in this step.
Resume(c) ==
    IF promise[c] = "pending" /\ promise'[c] # "pending"
    THEN MainResume(c, promise'[c])
    ELSE UNCHANGED <<pc, step, disc, discTried, field>>

\* Mutant: the registration callback resolves without exposing the handlers.
RpcCallbackNoExpose(c) ==
    /\ Running
    /\ R!SendCallback(c)
    /\ exposed' = exposed
    /\ Resume(c)
    /\ UNCHANGED <<proc, sigint, inb, replies>>

\* The send callback of call c.  The registration callback exposes both
\* handlers on a success answer, whether or not the promise already timed
\* out (lines 89-100).
RpcCallback(c) ==
    /\ Running
    /\ R!SendCallback(c)
    /\ exposed' = (exposed \/ (c = MainCalls[1] /\ reply[c] = "ok"))
    /\ Resume(c)
    /\ UNCHANGED <<proc, sigint, inb, replies>>

\* The timer of call c expires and rejects its promise with 'Timeout'.
RpcTimeout(c) ==
    /\ Running
    /\ R!TimerFires(c)
    /\ Resume(c)
    /\ UNCHANGED <<proc, sigint, inVars>>

\* Edge Core answers, or loses, an outbound request.
RpcPeer(c) ==
    /\ Running
    /\ R!PeerAnswer(c) \/ R!PeerDrop(c)
    /\ UNCHANGED <<pc, step, procVars, inVars, field>>

-----------------------------------------------------------------------------
(* The handlers Edge Core calls, and process termination *)

\* Edge Core sends request i; it calls a protocol translator only after it
\* has accepted its registration.
EdgeSends(i) ==
    /\ Running /\ inb[i] = "none"
    /\ reply[MainCalls[1]] = "ok"
    /\ inb' = [inb EXCEPT ![i] = "sent"]
    /\ UNCHANGED <<rpcVars, pc, step, procVars, exposed, replies, field>>

\* The handler responds 'ok' to request i.
Respond(i) ==
    /\ inb' = [inb EXCEPT ![i] = "handled"]
    /\ replies' = [replies EXCEPT ![i] = @ + 1]
    /\ UNCHANGED <<rpcVars, pc, step, procVars, exposed, field>>

\* The "certificate_renewal_result" handler (lines 152-162): log, respond 'ok'.
HandleRenewalResult(i) ==
    /\ Running /\ exposed /\ inb[i] = "sent"
    /\ Req[i] = "certificate_renewal_result"
    /\ Respond(i)

\* The "crypto_get_certificate_result" handler (lines 289-296): log,
\* respond 'ok'.
HandleCertResult(i) ==
    /\ Running /\ exposed /\ inb[i] = "sent"
    /\ Req[i] = "crypto_get_certificate_result"
    /\ Respond(i)

\* SIGINT: quitImmediately is never set, so the handler awaits
\* edge.disconnect() (lines 314-320).
\* At a "Press any key" prompt stdin is in raw mode (holdProgress, lines
\* 298-305): Ctrl+C is read as a key press there, not delivered as SIGINT.
Sigint ==
    /\ Running /\ pc \notin Prompts
    /\ sigint' = TRUE
    /\ StartDisconnect
    /\ UNCHANGED <<rpcVars, pc, step, proc, inVars, field>>

\* The disconnect callback settles edge.disconnect(); whether it resolves
\* or rejects, the awaiting code (the SIGINT handler or the catch block)
\* calls process.exit(1).
DisconnectDone ==
    /\ Running /\ disc
    /\ disc' = FALSE
    /\ proc' = "exited"
    /\ UNCHANGED <<rpcVars, pc, step, discTried, sigint, inVars, field>>

\* After process.exit nothing happens any more.
Terminated ==
    /\ ~Running
    /\ UNCHANGED vars

Next ==
    \/ KeyConnect \/ ConnectCallback \/ KeyNext
    \/ \E c \in AllCalls : RpcCallback(c) \/ RpcTimeout(c) \/ RpcPeer(c)
    \/ \E i \in Inbound : EdgeSends(i) \/ HandleRenewalResult(i) \/ HandleCertResult(i)
    \/ Sigint \/ DisconnectDone
    \/ Terminated

\* Node runs every due timer, every callback and every received message; the
\* transport calls back connect and disconnect.  The operator (key presses,
\* SIGINT) and Edge Core promise nothing.
Fairness ==
    /\ WF_vars(ConnectCallback) /\ WF_vars(DisconnectDone)
    /\ \A c \in AllCalls : WF_vars(RpcCallback(c)) /\ WF_vars(RpcTimeout(c))
    /\ \A i \in Inbound : WF_vars(HandleRenewalResult(i)) /\ WF_vars(HandleCertResult(i))

Spec == Init /\ [][Next]_vars /\ Fairness

-----------------------------------------------------------------------------
(* Properties *)

\* Every request Edge Core sends to this translator is eventually answered,
\* unless the process ends first: Edge Core sends only after accepting the
\* registration, and the registration callback must have exposed the
\* handlers by then, even when the answer came after the timeout.
InboundEventuallyAnswered ==
    \A i \in Inbound : inb[i] = "sent" ~> (replies[i] > 0 \/ ~Running)

\* The main flow as MainFlow sees it: where it waits, and how many of its
\* calls resolved.
FlowPhase ==
    CASE pc \in {"hold_connect", "connecting"} -> "connect"
      [] pc = "hold" -> "prompt"
      [] pc = "calling" -> "busy"
      [] pc = "idle" -> "done"
      [] pc = "catch" -> "failed"

FlowDone == Cardinality({k \in 1..Len(MainCalls) : promise[MainCalls[k]] = "ok"})

MF == INSTANCE MainFlow WITH NCalls <- Len(MainCalls), phase <- FlowPhase,
                             done <- FlowDone, alive <- Running

\* The main flow implements MainFlow: one call at a time, in order, each
\* settling, even when Edge Core never answers, its executor throws or
\* using its answer fails; the first failure enters the catch block, which
\* ends the process.  The two handlers and late answers run beside it.
MainFlowRefined == MF!Spec

\* No timer outlives its call (spec 4.1), for every call the main flow
\* makes, including the ones whose executor throws.
NoTimerOutlivesCall == R!NoTimerOutlivesCall

=============================================================================
