---------------------------- MODULE AndroidServer ----------------------------
(***************************************************************************)
(* The server that an Android app starts and stops in its own process      *)
(* (lib.rs, module android_jni): the JNI calls startServer, stopServer and *)
(* setToken, which any thread may make, the server threads they start, and *)
(* the process-wide shutdown module those threads go through.              *)
(*                                                                         *)
(* A "server" is one run: its thread, its token (an Arc), its registry of  *)
(* backends and, when published, its record in RUNNING.                    *)
(*                                                                         *)
(* Abstracted: ports and the expose flag (one configuration value),        *)
(* LAST_ERROR and the status report, logging.  The clock behind the two    *)
(* bounded waits is a choice: they may expire when the constants say so.   *)
(* axum's accept loop does not end by itself.                              *)
(***************************************************************************)
CONSTANTS
    Controllers,    \* threads that call startServer and stopServer
    Setters,        \* threads that call setToken
    Servers,        \* server runs that exist at the same time
    Tokens,         \* tokens the app passes
    Random,         \* the token generated when there is no other
    Configs,        \* values of (port, expose)
    None,           \* no server, no token (the empty string)
    StartMayTimeOut, StopMayTimeOut

ASSUME AndroidAssumption ==
    /\ None \notin Servers /\ None \notin Tokens /\ Random # None
    /\ None \notin Controllers \cup Setters /\ None \notin Configs
    /\ StartMayTimeOut \in BOOLEAN /\ StopMayTimeOut \in BOOLEAN

Callers == Controllers \cup Setters

VARIABLES
    pc,             \* pc[c]: where thread c is in a JNI call
    wanted,         \* wanted[c]: the token of its call
    config,         \* config[c]: the configuration of its start
    server,         \* server[c]: the run it starts or stops
    holder,         \* the thread that holds RUNNING's mutex across steps
    running,        \* RUNNING: the published run
    boundConfig,    \* the configuration running was started with
    androidToken,   \* ANDROID_TOKEN: the pending token
    activeToken,    \* ACTIVE_TOKEN: the run whose token setToken writes
    token,          \* token[n]: what the auth middleware of run n accepts
    thread,         \* thread[n]: where the server thread is
    stopAsked,      \* stopAsked[n]: shutdown was sent, or its sender dropped
    abandoned,      \* abandoned[n]: nobody receives the bind report any more
    slot,           \* shutdown::BACKENDS: a run's registry
    ran,            \* shutdown::RAN
    target,         \* target[n]: the registry run() read on thread n
    torn,           \* torn[n]: shutdown() was called on run n's backends
    claimed         \* claimed[n]: run n's backends hold the camera

callVars == <<pc, wanted, config, server>>
tokenVars == <<androidToken, activeToken, token>>
runVars == <<holder, running, boundConfig>>
threadVars == <<thread, stopAsked, abandoned>>
shutdownVars == <<slot, ran, target, torn>>
vars == <<callVars, tokenVars, runVars, threadVars, shutdownVars, claimed>>

CallPoints == {"idle", "compare", "mirror", "stopping", "clear", "pick", "publish",
               "activate", "waiting", "givingUp", "setLive"}
Reported == {"serving", "swap", "read", "release", "leaving", "finished"}
ThreadPoints == {"unused", "building", "rearming", "binding", "dead"} \cup Reported

AndroidTypeOK ==
    /\ pc \in [Callers -> CallPoints]
    /\ wanted \in [Callers -> Tokens \cup {Random, None}]
    /\ config \in [Callers -> Configs \cup {None}]
    /\ server \in [Callers -> Servers \cup {None}]
    /\ holder \in Callers \cup {None}
    /\ running \in Servers \cup {None} /\ boundConfig \in Configs \cup {None}
    /\ androidToken \in Tokens \cup {Random, None}
    /\ activeToken \in Servers \cup {None}
    /\ token \in [Servers -> Tokens \cup {Random, None}]
    /\ thread \in [Servers -> ThreadPoints]
    /\ stopAsked \in [Servers -> BOOLEAN] /\ abandoned \in [Servers -> BOOLEAN]
    /\ slot \in Servers \cup {None} /\ ran \in BOOLEAN
    /\ target \in [Servers -> Servers \cup {None}]
    /\ torn \in [Servers -> BOOLEAN] /\ claimed \in [Servers -> BOOLEAN]
    /\ \A c \in Callers : pc[c] \in {"stopping", "waiting", "givingUp"} => server[c] # None

AndroidInit ==
    /\ pc = [c \in Callers |-> "idle"]
    /\ wanted = [c \in Callers |-> None]
    /\ config = [c \in Callers |-> None]
    /\ server = [c \in Callers |-> None]
    /\ holder = None /\ running = None /\ boundConfig = None
    /\ androidToken = None /\ activeToken = None
    /\ token = [n \in Servers |-> None]
    /\ thread = [n \in Servers |-> "unused"]
    /\ stopAsked = [n \in Servers |-> FALSE]
    /\ abandoned = [n \in Servers |-> FALSE]
    /\ slot = None /\ ran = FALSE
    /\ target = [n \in Servers |-> None]
    /\ torn = [n \in Servers |-> FALSE] /\ claimed = [n \in Servers |-> FALSE]

Ended(n) == thread[n] \in {"unused", "finished", "dead"}

(* Who holds an Arc of run n's backends: the shutdown module, the Running
   record (in RUNNING or in the hands of stop_running), the server thread and
   its tasks, a run() that cloned the registry. *)
Referenced(n) ==
    \/ slot = n \/ running = n \/ ~Ended(n)
    \/ \E c \in Callers : server[c] = n
    \/ \E m \in Servers : target[m] = n

(* An identifier can name a new run when nothing is left of the old one. *)
Unused(n) == ~Referenced(n) /\ activeToken # n /\ ~claimed[n]

Goto(c, p) == pc' = [pc EXCEPT ![c] = p]
ThreadGoto(n, p) == thread' = [thread EXCEPT ![n] = p]

-----------------------------------------------------------------------------
(* startServer: everything from StartEnter until the lock is released happens
   with RUNNING locked. *)

(* Lock RUNNING; a non-empty token that differs is applied in place.  (The
   bound on runs: a start begins only if there is an identifier for its run.) *)
StartEnter(c, t, f) ==
    /\ pc[c] = "idle" /\ holder = None
    /\ \E n \in Servers : Unused(n)
    /\ holder' = c
    /\ wanted' = [wanted EXCEPT ![c] = t]
    /\ config' = [config EXCEPT ![c] = f]
    /\ IF running = None THEN Goto(c, "pick") /\ UNCHANGED token
       ELSE IF t \notin {None, token[running]}
            THEN /\ token' = [token EXCEPT ![running] = t]
                 /\ Goto(c, "mirror")
            ELSE Goto(c, "compare") /\ UNCHANGED token
    /\ UNCHANGED <<server, running, boundConfig, androidToken, activeToken,
                   threadVars, shutdownVars, claimed>>

\* Faulty variant for TokensAgree: the pending token is left as it was.
SkipMirror(c) ==
    /\ pc[c] = "mirror"
    /\ Goto(c, "compare")
    /\ UNCHANGED <<wanted, config, server, tokenVars, runVars, threadVars,
                   shutdownVars, claimed>>

(* ... and remembered for the next start. *)
MirrorToken(c) ==
    /\ pc[c] = "mirror"
    /\ androidToken' = wanted[c]
    /\ Goto(c, "compare")
    /\ UNCHANGED <<wanted, config, server, activeToken, token, runVars, threadVars,
                   shutdownVars, claimed>>

Return(c) ==
    /\ pc' = [pc EXCEPT ![c] = "idle"]
    /\ wanted' = [wanted EXCEPT ![c] = None]
    /\ config' = [config EXCEPT ![c] = None]
    /\ server' = [server EXCEPT ![c] = None]

(* Already running as asked: nothing to do. *)
AlreadyRunning(c) ==
    /\ pc[c] = "compare" /\ config[c] = boundConfig
    /\ Return(c) /\ holder' = None
    /\ UNCHANGED <<tokenVars, running, boundConfig, threadVars, shutdownVars, claimed>>

(* stop_running, up to its wait: Running is out of RUNNING, the thread is told. *)
AskToStop(c) ==
    /\ running' = None /\ boundConfig' = None
    /\ stopAsked' = [stopAsked EXCEPT ![running] = TRUE]
    /\ server' = [server EXCEPT ![c] = running]
    /\ Goto(c, "stopping")
    /\ UNCHANGED <<wanted, config, holder, tokenVars, thread, abandoned, shutdownVars,
                   claimed>>

(* Another configuration: stop the running server, still under the lock. *)
Rebind(c) ==
    /\ pc[c] = "compare" /\ config[c] # boundConfig
    /\ AskToStop(c)

(* The token of a new run: the caller's, else the pending one, else a random
   one. *)
FirstToken(t, pending) ==
    IF t # None THEN t ELSE IF pending # None THEN pending ELSE Random

PickToken(c) ==
    /\ pc[c] = "pick"
    /\ wanted' = [wanted EXCEPT ![c] = FirstToken(wanted[c], androidToken)]
    /\ Goto(c, "publish")
    /\ UNCHANGED <<config, server, tokenVars, runVars, threadVars, shutdownVars, claimed>>

PublishPending(c) ==
    /\ pc[c] = "publish"
    /\ androidToken' = wanted[c]
    /\ Goto(c, "activate")
    /\ UNCHANGED <<wanted, config, server, activeToken, token, runVars, threadVars,
                   shutdownVars, claimed>>

(* The token becomes the live one and the server thread is spawned. *)
Activate(c, n) ==
    /\ pc[c] = "activate" /\ Unused(n)
    /\ token' = [token EXCEPT ![n] = wanted[c]]
    /\ activeToken' = n
    /\ server' = [server EXCEPT ![c] = n]
    /\ ThreadGoto(n, "building")
    /\ stopAsked' = [stopAsked EXCEPT ![n] = FALSE]
    /\ abandoned' = [abandoned EXCEPT ![n] = FALSE]
    /\ torn' = [torn EXCEPT ![n] = FALSE]
    /\ Goto(c, "waiting")
    /\ UNCHANGED <<wanted, config, androidToken, runVars, slot, ran, target, claimed>>

\* Faulty variant for RunningIsServing: success is assumed without the report.
StartOptimistic(c) ==
    /\ pc[c] = "waiting"
    /\ running' = server[c] /\ boundConfig' = config[c]
    /\ Return(c) /\ holder' = None
    /\ UNCHANGED <<tokenVars, threadVars, shutdownVars, claimed>>

(* The thread reported that it is bound: publish the run. *)
StartSucceeds(c) ==
    /\ pc[c] = "waiting" /\ thread[server[c]] \in Reported
    /\ running' = server[c] /\ boundConfig' = config[c]
    /\ Return(c) /\ holder' = None
    /\ UNCHANGED <<tokenVars, threadVars, shutdownVars, claimed>>

(* It reported an error, or died. *)
StartFails(c) ==
    /\ pc[c] = "waiting" /\ thread[server[c]] = "dead"
    /\ activeToken' = None
    /\ Return(c) /\ holder' = None
    /\ UNCHANGED <<androidToken, token, running, boundConfig, threadVars, shutdownVars,
                   claimed>>

(* START_TIMEOUT passed without a report ... *)
StartTimesOut(c) ==
    /\ StartMayTimeOut
    /\ pc[c] = "waiting" /\ thread[server[c]] \notin Reported \cup {"dead"}
    /\ Goto(c, "givingUp")
    /\ UNCHANGED <<wanted, config, server, tokenVars, runVars, threadVars, shutdownVars,
                   claimed>>

\* Faulty variant for NoOrphanServer: the late thread is not told to stop.
GiveUpQuietly(c) ==
    /\ pc[c] = "givingUp"
    /\ activeToken' = None
    /\ Return(c) /\ holder' = None
    /\ UNCHANGED <<androidToken, token, running, boundConfig, threadVars,
                   shutdownVars, claimed>>

(* ... the run is cut loose: told to stop, its report no longer received.  A
   thread that reported in between finds its report accepted. *)
GiveUp(c) ==
    /\ pc[c] = "givingUp"
    /\ stopAsked' = [stopAsked EXCEPT ![server[c]] = TRUE]
    /\ abandoned' = [abandoned EXCEPT ![server[c]] = TRUE]
    /\ activeToken' = None
    /\ Return(c) /\ holder' = None
    /\ UNCHANGED <<androidToken, token, running, boundConfig, thread, shutdownVars, claimed>>

-----------------------------------------------------------------------------
(* stopServer, and the wait it shares with a rebinding start. *)

(* RUNNING is locked only to take the record out. *)
StopEnter(c) ==
    /\ pc[c] = "idle" /\ holder = None /\ running # None
    /\ AskToStop(c)

StopConfirmed(c) ==
    /\ pc[c] = "stopping" /\ thread[server[c]] = "finished"
    /\ Goto(c, "clear")
    /\ UNCHANGED <<wanted, config, server, tokenVars, runVars, threadVars, shutdownVars,
                   claimed>>

\* Faulty variant for CallsReturn: recv() instead of recv_timeout().
StopNeverTimesOut(c) == FALSE /\ UNCHANGED vars

(* STOP_TIMEOUT passed: go on without the thread. *)
StopTimesOut(c) ==
    /\ StopMayTimeOut
    /\ pc[c] = "stopping" /\ thread[server[c]] # "finished"
    /\ Goto(c, "clear")
    /\ UNCHANGED <<wanted, config, server, tokenVars, runVars, threadVars, shutdownVars,
                   claimed>>

(* ACTIVE_TOKEN = None, whatever it holds by now; a start goes on. *)
ClearActive(c) ==
    /\ pc[c] = "clear"
    /\ activeToken' = None
    /\ IF holder = c
       THEN /\ Goto(c, "pick") /\ server' = [server EXCEPT ![c] = None]
            /\ UNCHANGED <<wanted, config>>
       ELSE Return(c)
    /\ UNCHANGED <<androidToken, token, runVars, threadVars, shutdownVars, claimed>>

-----------------------------------------------------------------------------
(* setToken (an empty token is refused): the pending token, then the live one. *)

SetPending(c, t) ==
    /\ pc[c] = "idle"
    /\ androidToken' = t
    /\ wanted' = [wanted EXCEPT ![c] = t]
    /\ Goto(c, "setLive")
    /\ UNCHANGED <<config, server, activeToken, token, runVars, threadVars, shutdownVars,
                   claimed>>

SetLive(c) ==
    /\ pc[c] = "setLive"
    /\ IF activeToken = None THEN UNCHANGED token
       ELSE token' = [token EXCEPT ![activeToken] = wanted[c]]
    /\ Return(c)
    /\ UNCHANGED <<androidToken, activeToken, runVars, threadVars, shutdownVars, claimed>>

-----------------------------------------------------------------------------
(* The server thread. *)

ThreadUnchanged == UNCHANGED <<callVars, tokenVars, runVars, stopAsked, abandoned>>

(* shutdown::set_backends: replace the registry ... *)
RegisterBackends(n) ==
    /\ thread[n] = "building"
    /\ slot' = n
    /\ ThreadGoto(n, "rearming")
    /\ ThreadUnchanged /\ UNCHANGED <<ran, target, torn, claimed>>

\* Faulty variant for EachRunIsTorn: the latch is set once per process.
RearmNever(n) ==
    /\ thread[n] = "rearming"
    /\ ThreadGoto(n, "binding")
    /\ ThreadUnchanged /\ UNCHANGED <<shutdownVars, claimed>>

(* ... and re-arm run(). *)
Rearm(n) ==
    /\ thread[n] = "rearming"
    /\ ran' = FALSE
    /\ ThreadGoto(n, "binding")
    /\ ThreadUnchanged /\ UNCHANGED <<slot, target, torn, claimed>>

(* No runtime, no port, or a panic: the thread is gone, run() is not called. *)
BindFails(n) ==
    /\ thread[n] \in {"building", "rearming", "binding"}
    /\ ThreadGoto(n, "dead")
    /\ ThreadUnchanged /\ UNCHANGED <<shutdownVars, claimed>>

(* Bound: report, and serve only if someone took the report. *)
BindReports(n) ==
    /\ thread[n] = "binding"
    /\ ThreadGoto(n, IF abandoned[n] THEN "swap" ELSE "serving")
    /\ ThreadUnchanged /\ UNCHANGED <<shutdownVars, claimed>>

(* A client connects the camera, which has one owner at a time. *)
ClientConnectsCamera(n) ==
    /\ thread[n] = "serving"
    /\ \A m \in Servers : ~claimed[m]
    /\ claimed' = [claimed EXCEPT ![n] = TRUE]
    /\ UNCHANGED thread /\ ThreadUnchanged /\ UNCHANGED shutdownVars

\* Faulty variant for StopIsObeyed: connections are drained before leaving.
SeesStopDrained(n) ==
    /\ thread[n] = "serving" /\ stopAsked[n] /\ ~claimed[n]
    /\ ThreadGoto(n, "swap")
    /\ ThreadUnchanged /\ UNCHANGED <<shutdownVars, claimed>>

(* The accept loop is cancelled, whatever connections are open. *)
SeesStop(n) ==
    /\ thread[n] = "serving" /\ stopAsked[n]
    /\ ThreadGoto(n, "swap")
    /\ ThreadUnchanged /\ UNCHANGED <<shutdownVars, claimed>>

(* shutdown::run: return at once if it already ran ... *)
RunSwap(n) ==
    /\ thread[n] = "swap"
    /\ ran' = TRUE
    /\ ThreadGoto(n, IF ran THEN "leaving" ELSE "read")
    /\ ThreadUnchanged /\ UNCHANGED <<slot, target, torn, claimed>>

(* ... otherwise clone whatever registry is there ... *)
RunReads(n) ==
    /\ thread[n] = "read"
    /\ target' = [target EXCEPT ![n] = slot]
    /\ ThreadGoto(n, "release")
    /\ ThreadUnchanged /\ UNCHANGED <<slot, ran, torn, claimed>>

\* Faulty variant for LeftoverSessionsClose: the cloned registry is kept.
RunKeepsClone(n) ==
    /\ thread[n] = "release"
    /\ torn' = [torn EXCEPT ![target[n]] = TRUE]
    /\ ThreadGoto(n, "leaving")
    /\ ThreadUnchanged /\ UNCHANGED <<slot, ran, target, claimed>>

(* ... and call shutdown() on its backends.  The backends of an Android build
   (camera2-android and remote) have the trait's default one, which does
   nothing: no session is closed here. *)
RunReleases(n) ==
    /\ thread[n] = "release"
    /\ torn' = [torn EXCEPT ![target[n]] = TRUE]
    /\ target' = [target EXCEPT ![n] = None]
    /\ ThreadGoto(n, "leaving")
    /\ ThreadUnchanged /\ UNCHANGED <<slot, ran, claimed>>

(* The runtime is shut down and the thread says it is finished. *)
ThreadLeaves(n) ==
    /\ thread[n] = "leaving"
    /\ ThreadGoto(n, "finished")
    /\ ThreadUnchanged /\ UNCHANGED <<shutdownVars, claimed>>

(* The last Arc of a registry is dropped: the backends' Drop ends their actor
   threads, which closes their sessions. *)
DropRegistry(n) ==
    /\ claimed[n] /\ ~Referenced(n)
    /\ claimed' = [claimed EXCEPT ![n] = FALSE]
    /\ UNCHANGED <<callVars, tokenVars, runVars, threadVars, shutdownVars>>

-----------------------------------------------------------------------------
(* A call that has begun goes on, whatever the server threads do. *)
CallContinues(c) ==
    \/ MirrorToken(c) \/ AlreadyRunning(c) \/ Rebind(c)
    \/ PickToken(c) \/ PublishPending(c)
    \/ \E n \in Servers : Activate(c, n)
    \/ StartSucceeds(c) \/ StartFails(c) \/ StartTimesOut(c) \/ GiveUp(c)
    \/ StopConfirmed(c) \/ StopTimesOut(c) \/ ClearActive(c)
    \/ SetLive(c)

CallStep(c) ==
    \/ /\ c \in Controllers
       /\ \/ \E t \in Tokens \cup {None}, f \in Configs : StartEnter(c, t, f)
          \/ StopEnter(c)
    \/ c \in Setters /\ \E t \in Tokens : SetPending(c, t)
    \/ CallContinues(c)

ThreadStep(n) ==
    \/ RegisterBackends(n) \/ Rearm(n) \/ BindFails(n) \/ BindReports(n)
    \/ SeesStop(n) \/ RunSwap(n) \/ RunReads(n) \/ RunReleases(n) \/ ThreadLeaves(n)

AndroidNext ==
    \/ \E c \in Callers : CallStep(c)
    \/ \E n \in Servers : ThreadStep(n) \/ ClientConnectsCamera(n) \/ DropRegistry(n)

AndroidSafety == AndroidInit /\ [][AndroidNext]_vars

(* The calling threads run; nothing is assumed of the server threads. *)
AndroidSpec == AndroidSafety /\ \A c \in Callers : WF_vars(CallContinues(c))

(* The server threads run too, and so does what disposes of a registry. *)
ThreadsRun == \A n \in Servers : WF_vars(ThreadStep(n)) /\ WF_vars(DropRegistry(n))

-----------------------------------------------------------------------------
(* Safety, for any number of calling threads. *)

(* isServerRunning() is "the real state of the native server": what RUNNING
   publishes is a thread that serves and was not told to stop. *)
RunningIsServing ==
    running # None => thread[running] = "serving" /\ ~stopAsked[running]

(* "Do not serve orphaned" (lib.rs): a server that serves and was not told to
   stop is the published one, or its start is about to publish it or to tell
   it to stop.  No interleaving of timeouts, reports and stops leaves behind a
   server that no stopServer() reaches. *)
NoOrphanServer ==
    \A n \in Servers :
        thread[n] = "serving" /\ ~stopAsked[n] =>
            \/ running = n
            \/ \E c \in Callers : pc[c] \in {"waiting", "givingUp"} /\ server[c] = n

-----------------------------------------------------------------------------
(* Safety, when the app makes its calls one after the other. *)

Quiet == \A c \in Callers : pc[c] = "idle"

(* Between calls ACTIVE_TOKEN is the running server's token, or empty when
   there is none, and that token is the one the next start would use: setToken()
   is "effective immediately on a running server" and never writes to a dead
   run's token, whatever starts failed, timed out or rebound before, and no path
   through startServer and setToken updates only one of the two. *)
TokensAgree ==
    Quiet => /\ activeToken = running
             /\ running # None => token[running] = androidToken

(* A server thread that has finished went through run() on its own backends:
   the latch is re-armed for every run. *)
TornBeforeFinished == \A n \in Servers : thread[n] = "finished" => torn[n]

-----------------------------------------------------------------------------
(* Liveness. *)

(* Every JNI call returns, and releases RUNNING's lock, even when a server
   thread hangs: both waits are bounded. *)
CallsReturn == \A c \in Callers : pc[c] # "idle" ~> pc[c] = "idle"

(* A server that was told to stop winds down. *)
StopIsObeyed == ThreadsRun => \A n \in Servers : stopAsked[n] ~> Ended(n)

(* The sessions of a finished server are closed once its registry has been
   replaced. *)
LeftoverSessionsClose ==
    ThreadsRun =>
        \A n \in Servers : claimed[n] /\ Ended(n) ~> ~claimed[n] \/ slot = n

=============================================================================
