------------------------------- MODULE MgmtRepl -------------------------------
(***************************************************************************)
(* simple-mgmt-example.js: a REPL over the management API.  Its commands  *)
(* connect(), devices(), readResource() and writeResource() each start a  *)
(* promise and return without awaiting it; exit(), or the REPL's own      *)
(* 'exit' event, resolves runPrompt's promise, after which the main       *)
(* function awaits edge.disconnect() and calls process.exit(1).  Nothing  *)
(* closes the REPL on exit(): commands typed while the disconnect is      *)
(* pending still run.                                                     *)
(*                                                                         *)
(* A command may run before connect() has completed.  What json-rpc-ws    *)
(* does with a send on a client that is not connected is not in this      *)
(* repository: the executor may throw (after setTimeout), or the request  *)
(* is never answered.  Both are allowed.                                  *)
(***************************************************************************)
EXTENDS Naturals

CONSTANTS
    Calls       \* the devices/readResource/writeResource commands typed, one call each

VARIABLES
    promise, timer, reply, delivered,   \* the commands' calls (EdgeRpcCall)
    conn,       \* the client's connection: "none", "connecting", "connected", "failed"
    prompt,     \* runPrompt's promise: "open" or "resolved"
    replOpen,   \* the REPL still reads commands
    disc,       \* edge.disconnect(): "none", "pending" or "done"
    proc,       \* "running" or "exited"
    unsent      \* the calls issued while the client was not connected

R == INSTANCE EdgeRpcCall

rpcVars == <<promise, timer, reply, delivered>>
replVars == <<conn, prompt, replOpen, disc, proc>>
vars == <<rpcVars, replVars, unsent>>

TypeOK ==
    /\ R!TypeOK
    /\ conn \in {"none", "connecting", "connected", "failed"}
    /\ prompt \in {"open", "resolved"}
    /\ replOpen \in BOOLEAN
    /\ disc \in {"none", "pending", "done"}
    /\ proc \in {"running", "exited"}
    /\ unsent \subseteq Calls

Init ==
    /\ R!Init
    /\ conn = "none" /\ prompt = "open" /\ replOpen = TRUE
    /\ disc = "none" /\ proc = "running"
    /\ unsent = {}

Running == proc = "running"

\* A command can be typed.
Typing == Running /\ replOpen

-----------------------------------------------------------------------------
(* The REPL's commands, lines 159-216 *)

\* connect(apiPath, socketPath): edge.connect() is started and not awaited.
CmdConnect ==
    /\ Typing
    /\ conn' = "connecting"
    /\ UNCHANGED <<rpcVars, prompt, replOpen, disc, proc, unsent>>

\* The connect callback resolves or rejects; the .then handlers only log.
ConnectCallback ==
    /\ Running /\ conn = "connecting"
    /\ conn' \in {"connected", "failed"}
    /\ UNCHANGED <<rpcVars, prompt, replOpen, disc, proc, unsent>>

\* Mutant: the method's executor without its setTimeout.
CmdCallNoTimer(c) ==
    /\ Typing
    /\ \/ conn = "connected" /\ R!IssueNoTimer(c) /\ UNCHANGED unsent
       \/ conn # "connected" /\ R!IssueNoTimer(c) /\ unsent' = unsent \cup {c}
       \/ conn # "connected" /\ R!IssueThrows(c) /\ UNCHANGED unsent
    /\ UNCHANGED replVars

\* devices(), readResource(...) or writeResource(...): the method's promise
\* executor runs and the command returns at once.  On a client that is not
\* connected the executor throws after setTimeout, or the request goes
\* nowhere.
CmdCall(c) ==
    /\ Typing
    /\ \/ conn = "connected" /\ R!Issue(c) /\ UNCHANGED unsent
       \/ conn # "connected" /\ R!Issue(c) /\ unsent' = unsent \cup {c}
       \/ conn # "connected" /\ R!IssueThrows(c) /\ UNCHANGED unsent
    /\ UNCHANGED replVars

\* Mutant: the callback settles with whatever came back, error or not.
RpcCallbackPassesError(c) ==
    /\ Running
    /\ R!SendCallbackPassesError(c)
    /\ UNCHANGED <<replVars, unsent>>

\* The send callback of call c; the .then handlers only log.
RpcCallback(c) ==
    /\ Running
    /\ R!SendCallback(c)
    /\ UNCHANGED <<replVars, unsent>>

\* The timer of call c expires and rejects its promise with 'Timeout'.
RpcTimeout(c) ==
    /\ Running
    /\ R!TimerFires(c)
    /\ UNCHANGED <<replVars, unsent>>

\* Edge Core answers, or loses, a request; one sent while the client was
\* not connected never reaches it.
RpcPeer(c) ==
    /\ Running
    /\ \/ c \notin unsent /\ R!PeerAnswer(c)
       \/ R!PeerDrop(c)
    /\ UNCHANGED <<replVars, unsent>>

\* resolve() of runPrompt's promise.  Only the first one settles it; the
\* main function then resumes (lines 221-225), logs "Exiting..." and calls
\* edge.disconnect().
ResolvePrompt ==
    IF prompt = "open"
    THEN /\ prompt' = "resolved"
         /\ disc' = "pending"
    ELSE UNCHANGED <<prompt, disc>>

\* exit(): resolve() and return 'ok'; the REPL keeps reading commands.
CmdExit ==
    /\ Typing
    /\ ResolvePrompt
    /\ UNCHANGED <<rpcVars, conn, replOpen, proc, unsent>>

\* The REPL's 'exit' event (.exit, Ctrl+D, Ctrl+C twice): the REPL closes
\* and its handler calls resolve().
ReplExit ==
    /\ Typing
    /\ replOpen' = FALSE
    /\ ResolvePrompt
    /\ UNCHANGED <<rpcVars, conn, proc, unsent>>

\* Mutant: a rejected disconnect escapes the main function instead of being
\* caught; only a resolved one reaches process.exit(1).
DisconnectDoneNoCatch ==
    /\ Running /\ disc = "pending"
    /\ disc' = "done"
    /\ proc' \in {"exited", "running"}
    /\ UNCHANGED <<rpcVars, conn, prompt, replOpen, unsent>>

\* The disconnect callback settles edge.disconnect(); the rejection is
\* caught and ignored, and process.exit(1) follows either way (226-227).
DisconnectDone ==
    /\ Running /\ disc = "pending"
    /\ disc' = "done"
    /\ proc' = "exited"
    /\ UNCHANGED <<rpcVars, conn, prompt, replOpen, unsent>>

\* After process.exit nothing happens any more.
Terminated ==
    /\ ~Running
    /\ UNCHANGED vars

Next ==
    \/ CmdConnect \/ ConnectCallback
    \/ \E c \in Calls : CmdCall(c) \/ RpcCallback(c) \/ RpcTimeout(c) \/ RpcPeer(c)
    \/ CmdExit \/ ReplExit \/ DisconnectDone
    \/ Terminated

\* Node runs every due timer and every callback; the transport calls back
\* connect and disconnect.  The user and Edge Core promise nothing.
Fairness ==
    /\ WF_vars(ConnectCallback) /\ WF_vars(DisconnectDone)
    /\ \A c \in Calls : WF_vars(RpcCallback(c)) /\ WF_vars(RpcTimeout(c))

Spec == Init /\ [][Next]_vars /\ Fairness

-----------------------------------------------------------------------------
(* Properties *)

\* Every command's call settles while the process runs: its .then or its
\* error handler logs, even for a call typed before connect() completed,
\* whose request goes nowhere, and whatever Edge Core answers or loses
\* (spec section 7: exactly one of success, error or timeout is observed).
CommandSettles ==
    \A c \in Calls : promise[c] = "pending" ~> (promise[c] # "pending" \/ ~Running)

\* Leaving the REPL ends the process, whatever commands are still pending
\* or typed afterwards and whether the disconnect succeeds or fails.
ExitEndsProcess ==
    prompt = "resolved" ~> ~Running

=============================================================================
