----------------------------- MODULE ProcessExit -----------------------------
(***************************************************************************)
(* How the desktop server leaves on Ctrl-C (lib.rs run_server and          *)
(* shutdown_signal, main.rs, shutdown.rs) while requests are under way on  *)
(* backends that are built on demand (backends/lazy.rs).                   *)
(*                                                                         *)
(* Linux and macOS: the first Ctrl-C makes the accept loop drain and starts*)
(* a task that bounds the drain; both end in shutdown::run.  On Linux the  *)
(* process ends when main() returns; on macOS the server is on a thread of *)
(* its own and main() pumps a run loop for ever.  Windows: a console       *)
(* handler calls shutdown::run and exits, the server serves on.            *)
(*                                                                         *)
(* Abstracted: a backend is one actor thread with at most one session; a   *)
(* request connects a camera, or streams without end.  The grace timer and *)
(* the bounded wait for a slow backend expire at any time.  Windows runs   *)
(* one console handler at a time (external).                               *)
(***************************************************************************)
EXTENDS FiniteSets, Naturals

CONSTANTS
    Backends,       \* the lazily built backends
    Requests,       \* requests that may be under way at the same time
    Platform,       \* "linux", "macos" or "windows"
    Slow,           \* those that may answer late, or never
    None

ASSUME ExitAssumption ==
    /\ None \notin Backends
    /\ Platform \in {"linux", "macos", "windows"}
    /\ Slow \subseteq Backends

(* Who calls shutdown::run. *)
Runners == IF Platform = "windows" THEN {"handler"} ELSE {"main", "grace"}

VARIABLES
    conn,       \* conn[r]: request r's connection is open
    call,       \* call[r]: the backend its blocking task works on
    step,       \* step[r]: where that task is in resolve() and the call
    life,       \* life[b]: what there is of backend b
    asked,      \* asked[b]: how often b was sent PrepareExit
    ran,        \* shutdown::RAN
    at,         \* at[p]: where runner p is
    todo,       \* todo[p]: backends p has not shut down yet
    waitsFor,   \* waitsFor[p]: the backend whose ack p awaits
    exited      \* who ended the process

requestVars == <<conn, call, step>>
runnerVars == <<ran, at, todo, waitsFor>>
vars == <<requestVars, life, asked, runnerVars, exited>>

Steps == {"idle", "peek", "scan", "lock", "build", "use"}
Lives == {"absent", "building", "ready", "session", "down"}
Points == {"off", "armed", "swap", "sweep", "ack", "leaving", "dropping", "gone"}

ExitTypeOK ==
    /\ conn \in [Requests -> BOOLEAN]
    /\ call \in [Requests -> Backends \cup {None}]
    /\ step \in [Requests -> Steps]
    /\ life \in [Backends -> Lives]
    /\ asked \in [Backends -> Nat]
    /\ ran \in BOOLEAN
    /\ at \in [Runners -> Points]
    /\ todo \in [Runners -> SUBSET Backends]
    /\ waitsFor \in [Runners -> Backends \cup {None}]
    /\ exited \in Runners \cup {None}
    /\ \A r \in Requests : (call[r] = None) <=> (step[r] = "idle")
    /\ \A b \in Backends :
        life[b] = "building" => \E r \in Requests : call[r] = b /\ step[r] = "build"

ExitInit ==
    /\ conn = [r \in Requests |-> FALSE]
    /\ call = [r \in Requests |-> None]
    /\ step = [r \in Requests |-> "idle"]
    /\ life = [b \in Backends |-> "absent"]
    /\ asked = [b \in Backends |-> 0]
    /\ ran = FALSE
    /\ at = [p \in Runners |-> "off"]
    /\ todo = [p \in Runners |-> {}]
    /\ waitsFor = [p \in Runners |-> None]
    /\ exited = None

Alive == exited = None

(* The accept loop takes requests until the first Ctrl-C, on Windows until the
   process is gone. *)
Serving == Alive /\ ("main" \in Runners => at["main"] = "off")

-----------------------------------------------------------------------------
(* Requests. *)

Idle(r) == ~conn[r] /\ call[r] = None

OpenStream(r) ==
    /\ Serving /\ Idle(r)
    /\ conn' = [conn EXCEPT ![r] = TRUE]
    /\ UNCHANGED <<call, step, life, asked, runnerVars, exited>>

(* connect: a blocking task asks LazyBackend for the backend. *)
ConnectCamera(r, b) ==
    /\ Serving /\ Idle(r)
    /\ conn' = [conn EXCEPT ![r] = TRUE]
    /\ call' = [call EXCEPT ![r] = b]
    /\ step' = [step EXCEPT ![r] = "peek"]
    /\ UNCHANGED <<life, asked, runnerVars, exited>>

(* The client goes away; its blocking task does not. *)
ClientLeaves(r) ==
    /\ Alive /\ conn[r]
    /\ conn' = [conn EXCEPT ![r] = FALSE]
    /\ UNCHANGED <<call, step, life, asked, runnerVars, exited>>

TaskEnds(r) ==
    /\ conn' = [conn EXCEPT ![r] = FALSE]
    /\ call' = [call EXCEPT ![r] = None]
    /\ step' = [step EXCEPT ![r] = "idle"]

TaskGoto(r, s) == step' = [step EXCEPT ![r] = s] /\ UNCHANGED <<conn, call>>

(* Nobody holds LazyBackend's lock: a factory call does, and so does a
   shutdown() that awaits its ack. *)
Unlocked(b) == life[b] # "building" /\ \A p \in Runners : waitsFor[p] # b

(* The fast path: a backend that is built is used, otherwise the bus is
   scanned. *)
TaskPeeks(r) ==
    /\ Alive /\ step[r] = "peek" /\ Unlocked(call[r])
    /\ TaskGoto(r, IF life[call[r]] = "absent" THEN "scan" ELSE "use")
    /\ UNCHANGED <<life, asked, runnerVars, exited>>

(* usb_vendor_present: no such device, or go on. *)
TaskScans(r) ==
    /\ Alive /\ step[r] = "scan"
    /\ TaskEnds(r) \/ TaskGoto(r, "lock")
    /\ UNCHANGED <<life, asked, runnerVars, exited>>

(* Re-check under the lock; the factory runs with the lock held. *)
TaskLocks(r) ==
    /\ Alive /\ step[r] = "lock" /\ Unlocked(call[r])
    /\ IF life[call[r]] = "absent"
       THEN /\ life' = [life EXCEPT ![call[r]] = "building"]
            /\ TaskGoto(r, "build")
       ELSE TaskGoto(r, "use") /\ UNCHANGED life
    /\ UNCHANGED <<asked, runnerVars, exited>>

(* The SDK is initialised, or cannot be. *)
TaskBuilds(r) ==
    /\ Alive /\ step[r] = "build"
    /\ \/ life' = [life EXCEPT ![call[r]] = "ready"] /\ TaskGoto(r, "use")
       \/ life' = [life EXCEPT ![call[r]] = "absent"] /\ TaskEnds(r)
    /\ UNCHANGED <<asked, runnerVars, exited>>

(* The actor opens the session, or fails to; one that is down answers nothing
   (its channel is closed). *)
TaskConnects(r) ==
    /\ Alive /\ step[r] = "use"
    /\ life' \in {life} \cup
         (IF life[call[r]] = "down" THEN {} ELSE {[life EXCEPT ![call[r]] = "session"]})
    /\ TaskEnds(r)
    /\ UNCHANGED <<asked, runnerVars, exited>>

-----------------------------------------------------------------------------
(* Ctrl-C. *)

RunnerGoto(p, x) == at' = [at EXCEPT ![p] = x]

(* The first Ctrl-C.  Unix: shutdown_signal resolves and spawns the task that
   bounds the drain.  Windows: the console handler is called. *)
CtrlC ==
    /\ Alive /\ \A p \in Runners : at[p] = "off"
    /\ at' = [p \in Runners |-> IF p = "handler" THEN "swap" ELSE "armed"]
    /\ UNCHANGED <<requestVars, life, asked, ran, todo, waitsFor, exited>>

(* Every connection is closed: serve_with_shutdown returns. *)
Drained ==
    /\ Alive /\ "main" \in Runners /\ at["main"] = "armed"
    /\ \A r \in Requests : ~conn[r]
    /\ RunnerGoto("main", "swap")
    /\ UNCHANGED <<requestVars, life, asked, ran, todo, waitsFor, exited>>

\* Faulty variant for ProcessLeaves: the wait for connections is not bounded.
GraceNever == FALSE /\ UNCHANGED vars

(* A second Ctrl-C, or the grace period is over. *)
GraceFires ==
    /\ Alive /\ "grace" \in Runners /\ at["grace"] = "armed"
    /\ RunnerGoto("grace", "swap")
    /\ UNCHANGED <<requestVars, life, asked, ran, todo, waitsFor, exited>>

-----------------------------------------------------------------------------
(* shutdown::run, by runner p. *)

\* Faulty variant for AskedOnce: run() is not latched.
RunAlways(p) ==
    /\ Alive /\ at[p] = "swap"
    /\ ran' = TRUE
    /\ RunnerGoto(p, "sweep") /\ todo' = [todo EXCEPT ![p] = Backends]
    /\ UNCHANGED <<requestVars, life, asked, waitsFor, exited>>

(* RAN.swap: whoever comes second returns at once. *)
RunSwap(p) ==
    /\ Alive /\ at[p] = "swap"
    /\ ran' = TRUE
    /\ IF ran THEN RunnerGoto(p, "leaving") /\ UNCHANGED todo
              ELSE RunnerGoto(p, "sweep") /\ todo' = [todo EXCEPT ![p] = Backends]
    /\ UNCHANGED <<requestVars, life, asked, waitsFor, exited>>

(* LazyBackend::shutdown, with its lock: nothing for a backend that was never
   built, otherwise PrepareExit is sent. *)
ShutdownBackend(p, b) ==
    /\ Alive /\ at[p] = "sweep" /\ b \in todo[p] /\ Unlocked(b)
    /\ todo' = [todo EXCEPT ![p] = @ \ {b}]
    /\ IF life[b] = "absent"
       THEN UNCHANGED <<at, asked, waitsFor>>
       ELSE /\ asked' = [asked EXCEPT ![b] = @ + 1]
            /\ waitsFor' = [waitsFor EXCEPT ![p] = b]
            /\ RunnerGoto(p, "ack")
    /\ UNCHANGED <<requestVars, life, ran, exited>>

(* The actor thread gets to PrepareExit: it closes its session and ends. *)
ActorCloses(b) ==
    /\ Alive /\ asked[b] > 0 /\ life[b] \in {"ready", "session"}
    /\ life' = [life EXCEPT ![b] = "down"]
    /\ UNCHANGED <<requestVars, asked, runnerVars, exited>>

\* Faulty variant for ToldAreDown: PrepareExit is sent and not waited for.
NoWait(p) ==
    /\ Alive /\ at[p] = "ack"
    /\ waitsFor' = [waitsFor EXCEPT ![p] = None]
    /\ RunnerGoto(p, "sweep")
    /\ UNCHANGED <<requestVars, life, asked, ran, todo, exited>>

\* Faulty variant for ProcessLeaves: recv() instead of recv_timeout().
WaitForAck(p) ==
    /\ Alive /\ at[p] = "ack" /\ life[waitsFor[p]] = "down"
    /\ waitsFor' = [waitsFor EXCEPT ![p] = None]
    /\ RunnerGoto(p, "sweep")
    /\ UNCHANGED <<requestVars, life, asked, ran, todo, exited>>

(* recv_timeout: acknowledged, or time is up. *)
WaitEnds(p) ==
    /\ Alive /\ at[p] = "ack"
    /\ waitsFor[p] \in Slow \/ life[waitsFor[p]] = "down"
    /\ waitsFor' = [waitsFor EXCEPT ![p] = None]
    /\ RunnerGoto(p, "sweep")
    /\ UNCHANGED <<requestVars, life, asked, ran, todo, exited>>

RunDone(p) ==
    /\ Alive /\ at[p] = "sweep" /\ todo[p] = {}
    /\ RunnerGoto(p, "leaving")
    /\ UNCHANGED <<requestVars, life, asked, ran, todo, waitsFor, exited>>

(* The grace task and the console handler call process::exit. *)
Exits(p) ==
    /\ Alive /\ at[p] = "leaving" /\ p # "main"
    /\ RunnerGoto(p, "gone") /\ exited' = p
    /\ UNCHANGED <<requestVars, life, asked, ran, todo, waitsFor>>

(* run_server returns and the runtime is dropped, which cancels the grace task
   at its await; one that is inside run() goes on. *)
RuntimeDrops ==
    /\ Alive /\ "main" \in Runners /\ at["main"] = "leaving"
    /\ at' = [at EXCEPT !["main"] = "dropping",
                       !["grace"] = IF @ = "armed" THEN "gone" ELSE @]
    /\ UNCHANGED <<requestVars, life, asked, ran, todo, waitsFor, exited>>

(* The drop then waits for the blocking tasks, however long they take, and
   main() returns, which ends the process on Linux. *)
MainReturns ==
    /\ Alive /\ "main" \in Runners /\ at["main"] = "dropping"
    /\ at["grace"] = "gone" /\ \A r \in Requests : call[r] = None
    /\ RunnerGoto("main", "gone")
    /\ exited' = IF Platform = "macos" THEN None ELSE "main"
    /\ UNCHANGED <<requestVars, life, asked, ran, todo, waitsFor>>

-----------------------------------------------------------------------------
TaskStep(r) ==
    TaskPeeks(r) \/ TaskScans(r) \/ TaskLocks(r) \/ TaskBuilds(r) \/ TaskConnects(r)

RunnerStep(p) ==
    \/ RunSwap(p)
    \/ \E b \in Backends : ShutdownBackend(p, b)
    \/ WaitEnds(p) \/ RunDone(p) \/ Exits(p)

ExitNext ==
    \/ \E r \in Requests :
        \/ OpenStream(r) \/ ClientLeaves(r) \/ TaskStep(r)
        \/ \E b \in Backends : ConnectCamera(r, b)
    \/ CtrlC \/ Drained \/ GraceFires \/ RuntimeDrops \/ MainReturns
    \/ \E p \in Runners : RunnerStep(p)
    \/ \E b \in Backends : ActorCloses(b)

ExitSafety == ExitInit /\ [][ExitNext]_vars

(* The actor of a slow backend may never answer: callers wait for it without a
   bound (canon/mod.rs:400, nikon_zs2/mod.rs:683). *)
Hangs(r) == step[r] = "use" /\ call[r] \in Slow

(* Other blocking calls end, the timers run and so do the runners; a lock that
   is released again and again is got.  Nothing is assumed of the clients, nor
   of the actor thread of a slow backend, whatever it is asked. *)
ExitSpec ==
    /\ ExitSafety
    /\ \A r \in Requests : WF_vars(~Hangs(r) /\ TaskStep(r))
    /\ WF_vars(Drained) /\ WF_vars(GraceFires)
    /\ WF_vars(RuntimeDrops) /\ WF_vars(MainReturns)
    /\ \A p \in Runners : WF_vars(RunnerStep(p))
    /\ \A p \in Runners, b \in Backends : SF_vars(ShutdownBackend(p, b))
    /\ \A b \in Backends \ Slow : WF_vars(ActorCloses(b))

-----------------------------------------------------------------------------
(* "Ensures the teardown runs at most once, however many times run is called"
   (shutdown.rs:26-27): no SDK is asked twice, whoever gets there first. *)
AskedOnce == \A b \in Backends : asked[b] <= 1

(* Unless the process exits in the middle of a teardown, every backend that was
   told and answers in time has closed its session by then: a connect that was
   under way does not reopen one behind the runner's back. *)
ToldAreDown ==
    exited # None /\ (\A p \in Runners : at[p] \notin {"sweep", "ack"}) =>
        \A b \in Backends \ Slow : asked[b] > 0 => life[b] = "down"

(* The runtime is dropped, and with it the task that would have exited, while
   a call whose client has left waits for a backend that never answers. *)
OutlivedByCall ==
    "main" \in Runners /\ at["main"] = "dropping" /\ \E r \in Requests : Hangs(r)

(* shutdown_signal "guarantees the process actually leaves" (lib.rs:459):
   after Ctrl-C the process ends, although a live view never does and a
   backend may not answer, but for a drain that ends by itself and leaves a
   call behind that never does.  On macOS the process stays after any drain
   that ends by itself: it ends the server's thread, and with it the task that
   would exit. *)
ProcessLeaves ==
    <>(\E p \in Runners : at[p] # "off")
        => <>(exited # None) \/ <>[]OutlivedByCall

-----------------------------------------------------------------------------
(* What comments of the code say of it, and that does not hold. *)

(* "shutdown::run is idempotent, so the normal path calling it again after
   serve returns is harmless" (lib.rs:468-469): nobody ends the process in
   the middle of the teardown.  When the drain ends just before the grace
   period, the grace task's run() returns at once and exits. *)
NoExitMidTeardown ==
    exited # None => \A p \in Runners : at[p] \notin {"sweep", "ack"}
=============================================================================
