------------------------------- MODULE MainFlow -------------------------------
(***************************************************************************)
(* What the key-press main flow of a protocol translator example promises *)
(* (spec sections 4 and 7): after connecting it makes NCalls calls, one    *)
(* per key press and one at a time; a call in flight settles; the first    *)
(* failure (of connect, of a call, or of using a call's answer) stops the *)
(* flow, and a stopped flow ends the process.  The process may also end   *)
(* at any time for reasons outside the flow (Ctrl+C, an uncaught error).  *)
(***************************************************************************)
EXTENDS Naturals

CONSTANTS
    NCalls      \* the number of calls the flow makes

VARIABLES
    phase,      \* "connect", "prompt", "busy", "done" or "failed"
    done,       \* the calls that resolved
    alive       \* the process is running

mfVars == <<phase, done, alive>>

Init ==
    /\ phase = "connect" /\ done = 0 /\ alive = TRUE

\* The connection is made, or it fails.
Connect ==
    /\ alive /\ phase = "connect"
    /\ phase' \in {"prompt", "failed"}
    /\ UNCHANGED <<done, alive>>

\* A key press starts the next call; it may fail before it is sent.
Call ==
    /\ alive /\ phase = "prompt"
    /\ phase' \in {"busy", "failed"}
    /\ UNCHANGED <<done, alive>>

\* The call in flight resolves, and the flow goes on to the next prompt or
\* is done; or it resolves and using its answer fails; or it rejects.
Settle ==
    /\ alive /\ phase = "busy"
    /\ \/ /\ done' = done + 1
          /\ phase' = IF done + 1 = NCalls THEN "done" ELSE "prompt"
       \/ done' = done + 1 /\ phase' = "failed"
       \/ done' = done /\ phase' = "failed"
    /\ UNCHANGED alive

\* A failed flow ends the process.
ExitAfterFailure ==
    /\ alive /\ phase = "failed"
    /\ alive' = FALSE
    /\ UNCHANGED <<phase, done>>

\* The process ends for a reason of its own.
Exit ==
    /\ alive
    /\ alive' = FALSE
    /\ UNCHANGED <<phase, done>>

Next == Connect \/ Call \/ Settle \/ ExitAfterFailure \/ Exit

Spec == Init /\ [][Next]_mfVars /\ WF_mfVars(Settle) /\ WF_mfVars(ExitAfterFailure)

=============================================================================
