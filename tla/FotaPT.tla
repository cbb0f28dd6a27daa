------------------------------- MODULE FotaPT -------------------------------
(***************************************************************************)
(* simple-fota-example.js: a protocol translator that registers with Edge *)
(* Core, registers a device, updates and unregisters it, one step per key *)
(* press, while Edge Core may at any time call the handlers it exposed:   *)
(* "write" and "manifest_meta_data".  A valid manifest starts a firmware  *)
(* update chain of callbacks (download_asset, device_unregister, a 5 s    *)
(* "reboot" timer, a write of the new version) that runs concurrently     *)
(* with the main flow.  SIGINT disconnects and exits.                     *)
(*                                                                         *)
(* Every outbound call of the program object is the call-with-timeout of  *)
(* EdgeRpcCall; download_asset is sent directly, with a timer of its own. *)
(* A JavaScript callback runs to completion together with the promise     *)
(* reactions it triggers, so the two are one step here.                   *)
(***************************************************************************)
EXTENDS Naturals, Sequences, FiniteSets

CONSTANTS
    Inbound,    \* the requests Edge Core may send to the exposed handlers
    Req         \* Req[i]: what request i carries (see WriteReq, ManifestReq)

\* A "write": the byte length of its base64 value (0: no value) and whether
\* it has a uri.  A "manifest_meta_data": whether it has a uri, whether all
\* its fields are present, and whether its vendor and class IDs equal
\* VENDORID and CLASSID.
WriteReq == [kind : {"write"}, bytes : 0..16, uri : BOOLEAN]
ManifestReq == [kind : {"manifest"}, uri : BOOLEAN, complete : BOOLEAN,
                vendorOk : BOOLEAN, classOk : BOOLEAN]

\* The resources of the example device that Edge Core may write or execute
\* (operations with WRITE or EXECUTE in _createDeviceParams), by type.
WritableResources ==
    {[path |-> <<3308, 0, 5900>>, type |-> "float"],
     [path |-> <<10252, 0, 1>>, type |-> "string"],
     [path |-> <<10252, 0, 2>>, type |-> "int"],
     [path |-> <<10252, 0, 3>>, type |-> "int"],
     [path |-> <<10255, 0, 0>>, type |-> "int"],
     [path |-> <<10255, 0, 1>>, type |-> "string"],
     [path |-> <<10255, 0, 2>>, type |-> "string"],
     [path |-> <<10255, 0, 3>>, type |-> "string"],
     [path |-> <<10255, 0, 4>>, type |-> "string"]}

\* The bytes of the value a resource is registered with (lines 150-173):
\* writeDoubleBE, writeInt32BE, the 16-byte VENDORID and CLASSID, and the
\* one-character string "0" of the other writable strings.
ValueBytes(r) ==
    CASE r.type = "float" -> 8
      [] r.type = "int" -> 4
      [] r.path \in {<<10255, 0, 3>>, <<10255, 0, 4>>} -> 16
      [] OTHER -> 1

\* The write Edge Core sends when resource r is written with a value of
\* the registered length.
WriteTo(r) == [kind |-> "write", bytes |-> ValueBytes(r), uri |-> TRUE]

ASSUME \A i \in Inbound : i \in DOMAIN Req /\ Req[i] \in WriteReq \cup ManifestReq

Manifests == {i \in Inbound : Req[i].kind = "manifest"}

\* The main flow's calls, in program order (lines 505-520).
MainCalls == <<<<"protocol_translator_register", "main">>,
               <<"device_register", "main">>,
               <<"write", "main">>,
               <<"device_unregister", "main">>>>

\* The calls of the update chain started by manifest m (lines 449, 452).
FotaCalls == {<<op, m>> : op \in {"device_unregister", "write"}, m \in Manifests}

AllCalls == {MainCalls[k] : k \in 1..Len(MainCalls)} \cup FotaCalls

VARIABLES
    promise, timer, reply, delivered,   \* the outbound calls (EdgeRpcCall)
    pc,         \* the main async function: where it waits
    step,       \* the index in MainCalls of its next or current call
    proc,       \* "running", "exited" (process.exit) or "crashed" (uncaught exception)
    disc,       \* an edge.disconnect() is pending
    discTried,  \* edge.disconnect() has been called at least once
    sigint,     \* SIGINT has been received
    exposed,    \* the "write" and "manifest_meta_data" handlers are exposed
    inb,        \* inb[i]: "none", "sent" by Edge Core, or "handled"
    replies,    \* replies[i]: the responses the handler sent for request i
    dl,         \* dl[m]: the download_asset request of manifest m
    dlTimer,    \* dlTimer[m]: its TIMEOUT_FOR_FOTA timer
    fota        \* fota[m]: where the update chain of manifest m is

R == INSTANCE EdgeRpcCall WITH Calls <- AllCalls

rpcVars == <<promise, timer, reply, delivered>>
mainVars == <<pc, step>>
procVars == <<proc, disc, discTried, sigint>>
inVars == <<exposed, inb, replies>>
fotaVars == <<dl, dlTimer, fota>>
vars == <<rpcVars, mainVars, procVars, inVars, fotaVars>>

TypeOK ==
    /\ R!TypeOK
    /\ pc \in {"hold_connect", "connecting", "hold", "calling", "idle", "catch"}
    /\ step \in 1..Len(MainCalls)
    /\ proc \in {"running", "exited", "crashed"}
    /\ disc \in BOOLEAN /\ discTried \in BOOLEAN /\ sigint \in BOOLEAN
    /\ exposed \in BOOLEAN
    /\ inb \in [Inbound -> {"none", "sent", "handled"}]
    /\ replies \in [Inbound -> 0..1]
    /\ dl \in [Manifests -> {"none", "inflight", "ok", "error", "lost", "done"}]
    /\ dlTimer \in [Manifests -> {"none", "armed", "fired", "cleared"}]
    /\ fota \in [Manifests -> {"none", "downloading", "unregistering",
                               "rebooting", "writing", "done", "failed"}]

Init ==
    /\ R!Init
    /\ pc = "hold_connect" /\ step = 1
    /\ proc = "running" /\ disc = FALSE /\ discTried = FALSE /\ sigint = FALSE
    /\ exposed = FALSE
    /\ inb = [i \in Inbound |-> "none"]
    /\ replies = [i \in Inbound |-> 0]
    /\ dl = [m \in Manifests |-> "none"]
    /\ dlTimer = [m \in Manifests |-> "none"]
    /\ fota = [m \in Manifests |-> "none"]

Running == proc = "running"

\* Where the main flow waits in holdProgress, with stdin in raw mode.
Prompts == {"hold_connect", "hold"}

\* edge.disconnect(): client.disconnect with a callback.
StartDisconnect ==
    /\ disc' = TRUE
    /\ discTried' = TRUE

-----------------------------------------------------------------------------
(* The main flow, lines 483-534 *)

\* A key press ends holdProgress("Press any key to connect Edge.") and
\* edge.connect() calls client.connect.
KeyConnect ==
    /\ Running /\ pc = "hold_connect"
    /\ pc' = "connecting"
    /\ UNCHANGED <<rpcVars, step, procVars, inVars, fotaVars>>

\* The connect callback: resolve, or reject into the catch block, which
\* logs and calls edge.disconnect().
ConnectCallback ==
    /\ Running /\ pc = "connecting"
    /\ \/ pc' = "hold" /\ UNCHANGED <<disc, discTried>>
       \/ pc' = "catch" /\ StartDisconnect
    /\ UNCHANGED <<rpcVars, step, proc, sigint, inVars, fotaVars>>

\* Mutant: the call is not awaited; the flow moves on at once.
KeyNextNoAwait ==
    /\ Running /\ pc = "hold"
    /\ R!Issue(MainCalls[step])
    /\ IF step < Len(MainCalls)
       THEN pc' = "hold" /\ step' = step + 1
       ELSE pc' = "idle" /\ step' = step
    /\ UNCHANGED <<procVars, inVars, fotaVars>>

\* A key press ends holdProgress and the next method is called; the main
\* flow awaits its promise.
KeyNext ==
    /\ Running /\ pc = "hold"
    /\ R!Issue(MainCalls[step])
    /\ pc' = "calling"
    /\ UNCHANGED <<step, procVars, inVars, fotaVars>>

\* Mutant: off by one at the last call (step <= steps).
MainResumeOffByOne(outcome) ==
    IF outcome = "ok"
    THEN /\ IF step <= Len(MainCalls)
            THEN pc' = "hold" /\ step' = step + 1
            ELSE pc' = "idle" /\ step' = step
         /\ UNCHANGED <<disc, discTried>>
    ELSE pc' = "catch" /\ step' = step /\ StartDisconnect

\* The main flow resumes when its awaited promise settles: with the next
\* holdProgress, with "Kill the example with Ctrl+C" after the last call,
\* or in the catch block with edge.disconnect().
MainResume(outcome) ==
    IF outcome = "ok"
    THEN /\ IF step < Len(MainCalls)
            THEN pc' = "hold" /\ step' = step + 1
            ELSE pc' = "idle" /\ step' = step
         /\ UNCHANGED <<disc, discTried>>
    ELSE pc' = "catch" /\ step' = step /\ StartDisconnect

-----------------------------------------------------------------------------
(* The firmware update chain of manifest m, lines 441-466 *)

\* The chain resumes when one of its own calls settles: after the device is
\* unregistered a 5 s "reboot" timer starts; after the version write the
\* update is done.  A rejection is caught and logged.
FotaResume(c, outcome) ==
    LET m == c[2] IN
    fota' = [fota EXCEPT ![m] =
                IF outcome # "ok" THEN "failed"
                ELSE IF c[1] = "device_unregister" THEN "rebooting" ELSE "done"]

\* What runs when outbound call c settles in this step.
Resume(c) ==
    IF promise[c] = "pending" /\ promise'[c] # "pending"
    THEN IF c[2] = "main"
         THEN MainResume(promise'[c]) /\ UNCHANGED fota
         ELSE FotaResume(c, promise'[c]) /\ UNCHANGED <<pc, step, disc, discTried>>
    ELSE UNCHANGED <<pc, step, disc, discTried, fota>>

\* The send callback of call c.  The registration callback exposes the
\* handlers on a success answer, whether or not the promise already
\* timed out (lines 128-135).
RpcCallback(c) ==
    /\ Running
    /\ R!SendCallback(c)
    /\ exposed' = (exposed \/ (c = MainCalls[1] /\ reply[c] = "ok"))
    /\ Resume(c)
    /\ UNCHANGED <<proc, sigint, inb, replies, dl, dlTimer>>

\* The timer of call c expires and rejects its promise with 'Timeout'.
RpcTimeout(c) ==
    /\ Running
    /\ R!TimerFires(c)
    /\ Resume(c)
    /\ UNCHANGED <<proc, sigint, inVars, dl, dlTimer>>

\* Edge Core answers, or loses, an outbound request.
RpcPeer(c) ==
    /\ Running
    /\ R!PeerAnswer(c) \/ R!PeerDrop(c)
    /\ UNCHANGED <<mainVars, procVars, inVars, fotaVars>>

\* Edge Core answers download_asset, or never does.
DownloadPeer(m) ==
    /\ Running /\ dl[m] = "inflight"
    /\ dl' \in {[dl EXCEPT ![m] = r] : r \in {"ok", "error", "lost"}}
    /\ UNCHANGED <<rpcVars, mainVars, procVars, inVars, dlTimer, fota>>

\* The download_asset callback: clearTimeout, then on success unregister
\* the device (DEVICE_ID) to "reboot" it; an error is only logged.
DownloadCallback(m) ==
    /\ Running /\ dl[m] \in {"ok", "error"}
    /\ dl' = [dl EXCEPT ![m] = "done"]
    /\ dlTimer' = [dlTimer EXCEPT ![m] = IF @ = "armed" THEN "cleared" ELSE @]
    /\ IF dl[m] = "ok"
       THEN /\ R!Issue(<<"device_unregister", m>>)
            /\ fota' = [fota EXCEPT ![m] = "unregistering"]
       ELSE /\ fota' = [fota EXCEPT ![m] = "failed"]
            /\ UNCHANGED rpcVars
    /\ UNCHANGED <<mainVars, procVars, inVars>>

\* The TIMEOUT_FOR_FOTA timer expires.  Its callback calls reject, which is
\* not defined in exposeVendorandClass: the ReferenceError is uncaught and
\* ends the process (line 442).
DownloadTimerFires(m) ==
    /\ Running /\ dlTimer[m] = "armed"
    /\ dlTimer' = [dlTimer EXCEPT ![m] = "fired"]
    /\ proc' = "crashed"
    /\ UNCHANGED <<rpcVars, mainVars, disc, discTried, sigint, inVars, dl, fota>>

\* The 5 s "reboot" timer: write the manifest resources with the new
\* firmware version (lines 451-458).
RebootTimer(m) ==
    /\ Running /\ fota[m] = "rebooting"
    /\ R!Issue(<<"write", m>>)
    /\ fota' = [fota EXCEPT ![m] = "writing"]
    /\ UNCHANGED <<mainVars, procVars, inVars, dl, dlTimer>>

-----------------------------------------------------------------------------
(* The handlers Edge Core calls, and process termination *)

\* Edge Core sends request i; it calls a protocol translator only after it
\* has accepted its registration.
EdgeSends(i) ==
    /\ Running /\ inb[i] = "none"
    /\ reply[MainCalls[1]] = "ok"
    /\ inb' = [inb EXCEPT ![i] = "sent"]
    /\ UNCHANGED <<rpcVars, mainVars, procVars, exposed, replies, fotaVars>>

\* An exception escapes a handler before it responds: the request is never
\* answered, and the uncaught exception may end the process.
HandlerThrows(i) ==
    /\ inb' = [inb EXCEPT ![i] = "handled"]
    /\ proc' \in {"running", "crashed"}
    /\ UNCHANGED <<rpcVars, mainVars, disc, discTried, sigint, exposed, replies, fotaVars>>

\* The "write" handler (lines 84-115): Buffer.from(params.value, 'base64')
\* .readDoubleBE() throws on a missing value or one shorter than 8 bytes,
\* params.uri.objectId on a missing uri; otherwise it responds 'ok'.
HandleWrite(i) ==
    /\ Running /\ exposed /\ inb[i] = "sent" /\ Req[i].kind = "write"
    /\ IF Req[i].bytes < 8 \/ ~Req[i].uri
       THEN HandlerThrows(i)
       ELSE /\ inb' = [inb EXCEPT ![i] = "handled"]
            /\ replies' = [replies EXCEPT ![i] = @ + 1]
            /\ UNCHANGED <<rpcVars, mainVars, procVars, exposed, fotaVars>>

\* The "manifest_meta_data" handler (lines 407-469): a missing field gets a
\* -32602 error and returns; IDs that differ from VENDORID and CLASSID get
\* a -32602 error; otherwise it responds 'ok', arms TIMEOUT_FOR_FOTA and
\* sends download_asset.  params.uri.deviceId throws on a missing uri.
HandleManifest(i) ==
    /\ Running /\ exposed /\ inb[i] = "sent" /\ Req[i].kind = "manifest"
    /\ IF ~Req[i].uri
       THEN HandlerThrows(i)
       ELSE /\ inb' = [inb EXCEPT ![i] = "handled"]
            /\ replies' = [replies EXCEPT ![i] = @ + 1]
            /\ IF Req[i].complete /\ (Req[i].vendorOk \/ Req[i].classOk)
               THEN /\ dl' = [dl EXCEPT ![i] = "inflight"]
                    /\ dlTimer' = [dlTimer EXCEPT ![i] = "armed"]
                    /\ fota' = [fota EXCEPT ![i] = "downloading"]
               ELSE UNCHANGED fotaVars
            /\ UNCHANGED <<rpcVars, mainVars, procVars, exposed>>

\* SIGINT: quitImmediately is never set, so the handler awaits
\* edge.disconnect() (lines 489-498).  At a "Press any key" prompt stdin
\* is in raw mode (holdProgress, lines 471-480): Ctrl+C is read as a key
\* press there, not delivered as SIGINT.
Sigint ==
    /\ Running /\ pc \notin Prompts
    /\ sigint' = TRUE
    /\ StartDisconnect
    /\ UNCHANGED <<rpcVars, mainVars, proc, inVars, fotaVars>>

\* Mutant: only a resolved disconnect reaches process.exit(1); a rejected
\* one escapes the handler as an unhandled rejection.
DisconnectDoneNoCatch ==
    /\ Running /\ disc
    /\ disc' = FALSE
    /\ proc' \in {"exited", "running"}
    /\ UNCHANGED <<rpcVars, mainVars, discTried, sigint, inVars, fotaVars>>

\* The disconnect callback settles edge.disconnect(); whether it resolves
\* or rejects, the awaiting code (the SIGINT handler or the catch block)
\* calls process.exit(1).
DisconnectDone ==
    /\ Running /\ disc
    /\ disc' = FALSE
    /\ proc' = "exited"
    /\ UNCHANGED <<rpcVars, mainVars, discTried, sigint, inVars, fotaVars>>

\* After process.exit or a crash nothing happens any more.
Terminated ==
    /\ ~Running
    /\ UNCHANGED vars

Next ==
    \/ KeyConnect \/ ConnectCallback \/ KeyNext
    \/ \E c \in AllCalls : RpcCallback(c) \/ RpcTimeout(c) \/ RpcPeer(c)
    \/ \E m \in Manifests :
          DownloadPeer(m) \/ DownloadCallback(m) \/ DownloadTimerFires(m) \/ RebootTimer(m)
    \/ \E i \in Inbound : EdgeSends(i) \/ HandleWrite(i) \/ HandleManifest(i)
    \/ Sigint \/ DisconnectDone
    \/ Terminated

\* Node runs every due timer and every callback and received message; the
\* transport calls back connect and disconnect.  The operator (key presses,
\* SIGINT) and Edge Core promise nothing.
Fairness ==
    /\ WF_vars(ConnectCallback) /\ WF_vars(DisconnectDone)
    /\ \A c \in AllCalls : WF_vars(RpcCallback(c)) /\ WF_vars(RpcTimeout(c))
    /\ \A m \in Manifests : WF_vars(DownloadCallback(m)) /\ WF_vars(DownloadTimerFires(m))
                            /\ WF_vars(RebootTimer(m))
    /\ \A i \in Inbound : WF_vars(HandleWrite(i)) /\ WF_vars(HandleManifest(i))

Spec == Init /\ [][Next]_vars /\ Fairness

-----------------------------------------------------------------------------
(* Properties *)

\* The main flow as MainFlow sees it: where it waits, and how many of its
\* calls resolved.
FlowPhase ==
    CASE pc \in {"hold_connect", "connecting"} -> "connect"
      [] pc = "hold" -> "prompt"
      [] pc = "calling" -> "busy"
      [] pc = "idle" -> "done"
      [] pc = "catch" -> "failed"

FlowDone == Cardinality({k \in 1..Len(MainCalls) : promise[MainCalls[k]] = "ok"})

MF == INSTANCE MainFlow WITH NCalls <- Len(MainCalls), phase <- FlowPhase,
                             done <- FlowDone, alive <- Running

\* The main flow implements MainFlow: one call at a time, in order, each
\* settling; the first rejection stops it and ends the process.  The update
\* chain's calls, a late answer to a timed-out call and the handlers run
\* beside it and must leave it alone.
MainFlowRefined == MF!Spec

\* Ctrl+C ends the process: the SIGINT handler reaches process.exit(1)
\* whether the disconnect succeeds or fails.
SigintEndsProcess ==
    sigint ~> ~Running

\* Every request that reaches a handler is answered exactly once, whatever
\* its parameters (spec section 8): the peer's call must never hang.
EveryHandledAnswered ==
    \A i \in Inbound : inb[i] = "handled" => replies[i] = 1

\* download_asset is requested only for a manifest whose vendor ID and class
\* ID are both the expected ones (the comment at line 431 and the error
\* "wrong vendor or class ID").
DownloadOnlyForMatchingIds ==
    \A m \in Manifests : dl[m] # "none" => Req[m].vendorOk /\ Req[m].classOk

\* The process ends only through the cleanup path: any failure is caught,
\* edge.disconnect() is attempted, then the process exits (spec section 7).
EndsOnlyAfterDisconnect ==
    ~Running => discTried

=============================================================================
