--------------------------- MODULE MCAndroidCalls ---------------------------
(* AndroidServer for TLC, with one thread that makes its calls one after the
   other, and the history of its waits. *)
EXTENDS AndroidServer

(* Whether a wait of a caller has run out, and its thread lives on unobserved. *)
VARIABLE late

RunsOut(c) ==
    \/ pc[c] = "waiting" /\ pc'[c] = "givingUp"
    \/ pc[c] = "stopping" /\ pc'[c] = "clear" /\ thread[server[c]] # "finished"

CallsNext == AndroidNext /\ late' = (late \/ \E c \in Controllers : RunsOut(c))

CallsSpec ==
    /\ AndroidInit /\ late = FALSE
    /\ [][CallsNext]_<<vars, late>>
    /\ \A c \in Callers : WF_vars(CallContinues(c))

(* While every wait was long enough, a server thread of a sequential app has
   gone through run() on its own backends when it finishes: each start re-arms
   the latch of the run before. *)
EachRunIsTorn == late \/ TornBeforeFinished
=============================================================================
