------------------------ MODULE AndroidServerProofs ------------------------
(***************************************************************************)
(* Theorems about AndroidServer, for any number of calling threads and of  *)
(* server runs, with or without timeouts.                                  *)
(***************************************************************************)
EXTENDS MCAndroidCalls, TLAPS

-----------------------------------------------------------------------------
(* No server is left behind: the inductive invariant. *)

StartPoints == {"compare", "mirror", "pick", "publish", "activate", "waiting", "givingUp"}
Alive == {"building", "rearming", "binding", "serving"}

(* A start holds RUNNING's lock from its first step to its last, so there is
   one at a time; it has found, or made, RUNNING empty before it starts a run. *)
StartsExclude ==
    /\ \A c \in Callers : pc[c] \in StartPoints => holder = c
    /\ \A c \in Callers : holder = c /\ pc[c] \in StartPoints \ {"compare", "mirror"}
                            => running = None
    /\ \A c \in Callers : holder = c /\ pc[c] \in {"stopping", "clear"} => running = None
    /\ \A c \in Callers : pc[c] \in {"compare", "mirror"} => running # None
    /\ \A c \in Callers : pc[c] \in {"waiting", "givingUp"} => ~stopAsked[server[c]]

(* A thread leaves its accept loop, or skips it, only when told to. *)
LeavesWhenTold ==
    \A n \in Servers : /\ thread[n] \in Reported \ {"serving"} => stopAsked[n]
                       /\ abandoned[n] => stopAsked[n]

(* Every run that is not told to stop is published or waited for, from the
   moment its thread exists. *)
RunsAreHeld ==
    \A n \in Servers :
        thread[n] \in Alive /\ ~stopAsked[n] =>
            \/ running = n
            \/ \E c \in Callers : pc[c] \in {"waiting", "givingUp"} /\ server[c] = n

RunInv == /\ AndroidTypeOK /\ RunningIsServing /\ StartsExclude /\ LeavesWhenTold
          /\ RunsAreHeld

-----------------------------------------------------------------------------
(* Type correctness of each step. *)

(* The calls keep the types; a rebinding start stops a run that exists because
   nobody takes it out of RUNNING meanwhile. *)
LEMMA CallTypeStep ==
    ASSUME AndroidTypeOK, StartsExclude, NEW c \in Callers, CallStep(c)
    PROVE  AndroidTypeOK'
<1> USE AndroidAssumption DEF AndroidTypeOK, Goto, ThreadGoto, CallPoints, tokenVars,
        runVars, threadVars, shutdownVars
<1>1. ASSUME NEW t \in Tokens \cup {None}, NEW f \in Configs, StartEnter(c, t, f)
      PROVE  AndroidTypeOK'
  BY <1>1 DEF StartEnter
<1>2. CASE StopEnter(c)
  BY <1>2 DEF StopEnter, AskToStop
<1>3. ASSUME NEW t \in Tokens, SetPending(c, t) PROVE AndroidTypeOK'
  BY <1>3 DEF SetPending
<1>4. CASE MirrorToken(c)
  BY <1>4 DEF MirrorToken
<1>5. CASE AlreadyRunning(c)
  BY <1>5 DEF AlreadyRunning, Return
<1>6. CASE Rebind(c)
  BY <1>6 DEF Rebind, AskToStop, StartsExclude
<1>7. CASE PickToken(c)
  BY <1>7 DEF PickToken, FirstToken
<1>8. CASE PublishPending(c)
  BY <1>8 DEF PublishPending
<1>9. ASSUME NEW n \in Servers, Activate(c, n) PROVE AndroidTypeOK'
  BY <1>9 DEF Activate, ThreadPoints
<1>10. CASE StartSucceeds(c)
  BY <1>10 DEF StartSucceeds, Return
<1>11. CASE StartFails(c)
  BY <1>11 DEF StartFails, Return
<1>12. CASE StartTimesOut(c)
  BY <1>12 DEF StartTimesOut
<1>13. CASE GiveUp(c)
  BY <1>13 DEF GiveUp, Return
<1>14. CASE StopConfirmed(c)
  BY <1>14 DEF StopConfirmed
<1>15. CASE StopTimesOut(c)
  BY <1>15 DEF StopTimesOut
<1>16. CASE ClearActive(c)
  BY <1>16 DEF ClearActive, Return
<1>17. CASE SetLive(c)
  BY <1>17 DEF SetLive, Return
<1> QED
  BY <1>1, <1>2, <1>3, <1>4, <1>5, <1>6, <1>7, <1>8, <1>9, <1>10, <1>11, <1>12, <1>13,
     <1>14, <1>15, <1>16, <1>17
  DEF CallStep, CallContinues

(* The server threads keep the types. *)
LEMMA ThreadTypeStep ==
    ASSUME AndroidTypeOK, NEW n \in Servers,
           ThreadStep(n) \/ ClientConnectsCamera(n) \/ DropRegistry(n)
    PROVE  AndroidTypeOK'
<1> USE DEF AndroidTypeOK, ThreadGoto, ThreadPoints, Reported, ThreadUnchanged, callVars,
        tokenVars, runVars, threadVars, shutdownVars
<1>1. CASE RegisterBackends(n)
  BY <1>1 DEF RegisterBackends
<1>2. CASE Rearm(n)
  BY <1>2 DEF Rearm
<1>3. CASE BindFails(n)
  BY <1>3 DEF BindFails
<1>4. CASE BindReports(n)
  BY <1>4 DEF BindReports
<1>5. CASE SeesStop(n)
  BY <1>5 DEF SeesStop
<1>6. CASE RunSwap(n)
  BY <1>6 DEF RunSwap
<1>7. CASE RunReads(n)
  BY <1>7 DEF RunReads
<1>8. CASE RunReleases(n)
  BY <1>8 DEF RunReleases
<1>9. CASE ThreadLeaves(n)
  BY <1>9 DEF ThreadLeaves
<1>10. CASE ClientConnectsCamera(n)
  BY <1>10 DEF ClientConnectsCamera
<1>11. CASE DropRegistry(n)
  BY <1>11 DEF DropRegistry
<1> QED
  BY <1>1, <1>2, <1>3, <1>4, <1>5, <1>6, <1>7, <1>8, <1>9, <1>10, <1>11 DEF ThreadStep

-----------------------------------------------------------------------------
(* The steps of the calls and of the threads keep the rest of RunInv. *)

(* Steps of a call that change only the caller's own state, tokens and where
   the call is, between points with the same obligations. *)
LEMMA RunCallStep ==
    ASSUME RunInv, NEW c \in Callers, CallStep(c), AndroidTypeOK'
    PROVE  RunInv'
<1> USE AndroidAssumption DEF RunInv, RunningIsServing, StartsExclude, LeavesWhenTold,
        RunsAreHeld, StartPoints, Alive, Reported, Goto, ThreadGoto, CallPoints,
        runVars, threadVars, shutdownVars, tokenVars
<1> AndroidTypeOK /\ None \notin Callers
  BY DEF Callers
<1> USE DEF AndroidTypeOK
<1>1. ASSUME NEW t \in Tokens \cup {None}, NEW f \in Configs, StartEnter(c, t, f)
      PROVE  RunInv'
  <2>1. RunningIsServing' BY <1>1 DEF StartEnter
  <2>2. StartsExclude' BY <1>1 DEF StartEnter
  <2>3. LeavesWhenTold' BY <1>1 DEF StartEnter
  <2>4. RunsAreHeld' BY <1>1 DEF StartEnter
  <2> QED BY <2>1, <2>2, <2>3, <2>4
<1>2. CASE StopEnter(c)
  <2>1. RunningIsServing' BY <1>2 DEF StopEnter, AskToStop
  <2>2. StartsExclude' BY <1>2 DEF StopEnter, AskToStop
  <2>3. LeavesWhenTold' BY <1>2 DEF StopEnter, AskToStop
  <2>4. RunsAreHeld' BY <1>2 DEF StopEnter, AskToStop
  <2> QED BY <2>1, <2>2, <2>3, <2>4
<1>3. ASSUME NEW t \in Tokens, SetPending(c, t) PROVE RunInv'
  BY <1>3 DEF SetPending
<1>4. CASE MirrorToken(c)
  BY <1>4 DEF MirrorToken
<1>5. CASE AlreadyRunning(c)
  <2>1. RunningIsServing' BY <1>5 DEF AlreadyRunning, Return
  <2>2. StartsExclude' BY <1>5 DEF AlreadyRunning, Return
  <2>3. LeavesWhenTold' BY <1>5 DEF AlreadyRunning, Return
  <2>4. RunsAreHeld' BY <1>5 DEF AlreadyRunning, Return
  <2> QED BY <2>1, <2>2, <2>3, <2>4
<1>6. CASE Rebind(c)
  BY <1>6 DEF Rebind, AskToStop
<1>7. CASE PickToken(c)
  BY <1>7 DEF PickToken
<1>8. CASE PublishPending(c)
  BY <1>8 DEF PublishPending
<1>9. ASSUME NEW n \in Servers, Activate(c, n) PROVE RunInv'
  BY <1>9 DEF Activate, Unused, Referenced, Ended
<1>10. CASE StartSucceeds(c)
  <2>1. RunningIsServing' BY <1>10 DEF StartSucceeds, Return
  <2>2. StartsExclude' BY <1>10 DEF StartSucceeds, Return
  <2>3. LeavesWhenTold' BY <1>10 DEF StartSucceeds, Return
  <2>4. RunsAreHeld' BY <1>10 DEF StartSucceeds, Return
  <2> QED BY <2>1, <2>2, <2>3, <2>4
<1>11. CASE StartFails(c)
  BY <1>11 DEF StartFails, Return
<1>12. CASE StartTimesOut(c)
  BY <1>12 DEF StartTimesOut
<1>13. CASE GiveUp(c)
  BY <1>13 DEF GiveUp, Return
<1>14. CASE StopConfirmed(c)
  BY <1>14 DEF StopConfirmed
<1>15. CASE StopTimesOut(c)
  BY <1>15 DEF StopTimesOut
<1>16. CASE ClearActive(c)
  BY <1>16 DEF ClearActive, Return
<1>17. CASE SetLive(c)
  BY <1>17 DEF SetLive, Return
<1> QED
  BY <1>1, <1>2, <1>3, <1>4, <1>5, <1>6, <1>7, <1>8, <1>9, <1>10, <1>11, <1>12, <1>13,
     <1>14, <1>15, <1>16, <1>17
  DEF CallStep, CallContinues

(* A thread leaves the accept loop only when told, and does not change who
   publishes it or waits for it. *)
LEMMA RunThreadStep ==
    ASSUME RunInv, NEW n \in Servers, AndroidTypeOK',
           ThreadStep(n) \/ ClientConnectsCamera(n) \/ DropRegistry(n)
    PROVE  RunInv'
<1> USE DEF RunInv, RunningIsServing, StartsExclude, LeavesWhenTold,
        RunsAreHeld, StartPoints, Alive, Reported, ThreadGoto, ThreadUnchanged, callVars,
        runVars, threadVars
<1> AndroidTypeOK
  OBVIOUS
<1> USE DEF AndroidTypeOK
<1>1. CASE RegisterBackends(n)
  BY <1>1 DEF RegisterBackends
<1>2. CASE Rearm(n)
  BY <1>2 DEF Rearm
<1>3. CASE BindFails(n)
  BY <1>3 DEF BindFails
<1>4. CASE BindReports(n)
  BY <1>4 DEF BindReports
<1>5. CASE SeesStop(n)
  BY <1>5 DEF SeesStop
<1>6. CASE RunSwap(n)
  BY <1>6 DEF RunSwap
<1>7. CASE RunReads(n)
  BY <1>7 DEF RunReads
<1>8. CASE RunReleases(n)
  BY <1>8 DEF RunReleases
<1>9. CASE ThreadLeaves(n)
  BY <1>9 DEF ThreadLeaves
<1>10. CASE ClientConnectsCamera(n)
  BY <1>10 DEF ClientConnectsCamera
<1>11. CASE DropRegistry(n)
  BY <1>11 DEF DropRegistry
<1> QED
  BY <1>1, <1>2, <1>3, <1>4, <1>5, <1>6, <1>7, <1>8, <1>9, <1>10, <1>11 DEF ThreadStep

-----------------------------------------------------------------------------
(* The theorems. *)

(* The inductive invariant: in every behaviour of any number of calling
   threads, starts exclude each other and every run that is alive and not told
   to stop is published or waited for. *)
THEOREM RunInvHolds == AndroidSafety => []RunInv
<1>1. AndroidInit => RunInv
  BY AndroidAssumption
  DEF AndroidInit, RunInv, AndroidTypeOK, RunningIsServing, StartsExclude, LeavesWhenTold,
      RunsAreHeld, StartPoints, Alive, Reported, CallPoints, ThreadPoints
<1>2. RunInv /\ [AndroidNext]_vars => RunInv'
  <2> SUFFICES ASSUME RunInv, [AndroidNext]_vars PROVE RunInv'
    OBVIOUS
  <2>1. ASSUME NEW c \in Callers, CallStep(c) PROVE RunInv'
    BY <2>1, CallTypeStep, RunCallStep DEF RunInv
  <2>2. ASSUME NEW n \in Servers,
               ThreadStep(n) \/ ClientConnectsCamera(n) \/ DropRegistry(n)
        PROVE  RunInv'
    BY <2>2, ThreadTypeStep, RunThreadStep DEF RunInv
  <2>3. CASE UNCHANGED vars
    BY <2>3 DEF RunInv, AndroidTypeOK, RunningIsServing, StartsExclude, LeavesWhenTold,
        RunsAreHeld, vars, callVars, tokenVars, runVars, threadVars, shutdownVars
  <2> QED BY <2>1, <2>2, <2>3 DEF AndroidNext
<1> QED BY <1>1, <1>2, PTL DEF AndroidSafety

(* Type correctness, with the calls that wait naming the run they wait for. *)
THEOREM AndroidTypeCorrect == AndroidSafety => []AndroidTypeOK
<1>1. RunInv => AndroidTypeOK BY DEF RunInv
<1> QED BY <1>1, RunInvHolds, PTL

(* What isServerRunning() reports is a server that serves and was not told to
   stop, whatever the starts, stops, rebinds and timeouts of other threads. *)
THEOREM RunningAlwaysServes == AndroidSafety => []RunningIsServing
<1>1. RunInv => RunningIsServing BY DEF RunInv
<1> QED BY <1>1, RunInvHolds, PTL

(* No interleaving leaves behind a server that serves and that no stopServer()
   reaches. *)
THEOREM NoServerOrphaned == AndroidSafety => []NoOrphanServer
<1>1. RunInv => NoOrphanServer BY DEF RunInv, RunsAreHeld, NoOrphanServer, Alive
<1> QED BY <1>1, RunInvHolds, PTL

-----------------------------------------------------------------------------
(* An app that makes its calls one after the other. *)

(* Where the tokens stand at each point of the one caller's call: a start that
   applies a token in place has yet to remember it, a new run's token is the
   one the next start would use from before its thread exists, and what a stop
   leaves in ACTIVE_TOKEN is cleared before it returns. *)
TokenInv(c) ==
    /\ pc[c] \in {"idle", "compare", "mirror", "setLive"} => activeToken = running
    /\ pc[c] \in {"idle", "compare"} /\ running # None => token[running] = androidToken
    /\ pc[c] = "mirror" => token[running] = wanted[c]
    /\ pc[c] \in {"stopping", "clear", "givingUp"} => running = None
    /\ pc[c] \in {"pick", "publish"} => running = None /\ activeToken = None
    /\ pc[c] \in {"activate", "setLive"} => androidToken = wanted[c]
    /\ pc[c] = "waiting" =>
        running = None /\ activeToken = server[c] /\ token[server[c]] = androidToken

LEMMA TokenStep ==
    ASSUME NEW c, Callers = {c}, RunInv, TokenInv(c), CallStep(c)
    PROVE  TokenInv(c)'
<1> USE AndroidAssumption DEF TokenInv, Goto, Return
<1>0. AndroidTypeOK /\ c \in Callers
  BY DEF RunInv
<1> USE <1>0 DEF AndroidTypeOK
<1>1. ASSUME NEW t \in Tokens \cup {None}, NEW f \in Configs, StartEnter(c, t, f)
      PROVE  TokenInv(c)'
  BY <1>1 DEF StartEnter
<1>2. CASE StopEnter(c)
  BY <1>2 DEF StopEnter, AskToStop
<1>3. ASSUME NEW t \in Tokens, SetPending(c, t) PROVE TokenInv(c)'
  BY <1>3 DEF SetPending, runVars
<1>4. CASE MirrorToken(c) \/ PublishPending(c)
  BY <1>4 DEF MirrorToken, PublishPending, runVars
<1>5. CASE AlreadyRunning(c)
  BY <1>5 DEF AlreadyRunning, tokenVars
<1>6. CASE Rebind(c)
  BY <1>6 DEF Rebind, AskToStop
<1>7. CASE PickToken(c)
  BY <1>7 DEF PickToken, tokenVars, runVars
<1>8. ASSUME NEW n \in Servers, Activate(c, n) PROVE TokenInv(c)'
  <2>1. running = None
    BY <1>8 DEF Activate, RunInv, StartsExclude, StartPoints
  <2> QED BY <1>8, <2>1 DEF Activate, runVars
<1>9. CASE StartSucceeds(c)
  BY <1>9 DEF StartSucceeds, tokenVars
<1>10. CASE StartFails(c)
  BY <1>10 DEF StartFails
<1>11. CASE StartTimesOut(c) \/ StopConfirmed(c) \/ StopTimesOut(c)
  BY <1>11 DEF StartTimesOut, StopConfirmed, StopTimesOut, runVars
<1>12. CASE GiveUp(c)
  BY <1>12 DEF GiveUp
<1>13. CASE ClearActive(c)
  BY <1>13 DEF ClearActive, runVars
<1>14. CASE SetLive(c)
  BY <1>14 DEF SetLive, runVars
<1> QED
  BY <1>1, <1>2, <1>3, <1>4, <1>5, <1>6, <1>7, <1>8, <1>9, <1>10, <1>11, <1>12, <1>13, <1>14
  DEF CallStep, CallContinues

LEMMA OneCallersTokens ==
    ASSUME NEW c, Callers = {c}
    PROVE  AndroidSafety => []TokenInv(c)
<1>1. AndroidInit => TokenInv(c)
  BY DEF AndroidInit, TokenInv
<1>2. RunInv /\ TokenInv(c) /\ [AndroidNext]_vars => TokenInv(c)'
  <2> SUFFICES ASSUME RunInv, TokenInv(c), [AndroidNext]_vars PROVE TokenInv(c)'
    OBVIOUS
  <2>1. ASSUME NEW n \in Servers,
               ThreadStep(n) \/ ClientConnectsCamera(n) \/ DropRegistry(n)
        PROVE  UNCHANGED <<callVars, tokenVars, runVars>>
    BY <2>1 DEF ThreadStep, RegisterBackends, Rearm, BindFails, BindReports, SeesStop, RunSwap,
       RunReads, RunReleases, ThreadLeaves, ClientConnectsCamera, DropRegistry, ThreadUnchanged
  <2>2. CASE UNCHANGED <<callVars, tokenVars, runVars>>
    BY <2>2 DEF TokenInv, callVars, tokenVars, runVars
  <2> QED BY <2>1, <2>2, TokenStep DEF AndroidNext, vars
<1> QED BY <1>1, <1>2, RunInvHolds, PTL DEF AndroidSafety

(* Between the calls of an app that makes one at a time, ACTIVE_TOKEN is the
   running server's and the token the next start would use, whatever starts
   failed, timed out or rebound before. *)
THEOREM OneCallersTokensAgree ==
    ASSUME NEW c, Callers = {c}
    PROVE  AndroidSafety => []TokensAgree
<1>1. TokenInv(c) => TokensAgree
  BY DEF TokenInv, TokensAgree, Quiet
<1> QED BY <1>1, OneCallersTokens, PTL

(* With waits that are long enough there is one server thread at a time: the
   published one, or the one that the call waits for.  So the registry in
   shutdown.rs is its own and the latch is armed until its own run(). *)
LiveIsKnown(c) ==
    /\ pc[c] # "givingUp"
    /\ \A n \in Servers : ~abandoned[n]
    /\ \A n \in Servers :
        ~Ended(n) => running = n \/ (pc[c] \in {"waiting", "stopping"} /\ server[c] = n)

LatchIsOwn ==
    \A n \in Servers :
        /\ thread[n] \notin {"unused", "building", "finished", "dead"} => slot = n
        /\ thread[n] \in {"binding", "serving", "swap"} => ~ran
        /\ thread[n] = "release" => target[n] = n
        /\ thread[n] \in {"leaving", "finished"} => torn[n]

TornInv(c) == LiveIsKnown(c) /\ LatchIsOwn

LEMMA OneLiveThread ==
    ASSUME NEW c, Callers = {c}, RunInv, TokenInv(c), TornInv(c),
           NEW m \in Servers, NEW n \in Servers, ~Ended(m), ~Ended(n)
    PROVE  m = n
<1>1. pc[c] \in {"waiting", "stopping"} => running = None
  BY DEF TokenInv
<1> QED BY <1>1, AndroidAssumption DEF TornInv, LiveIsKnown

LEMMA TornCallStep ==
    ASSUME NEW c, Callers = {c}, RunInv, TokenInv(c), TornInv(c), CallStep(c), ~RunsOut(c)
    PROVE  TornInv(c)'
<1> USE AndroidAssumption DEF TornInv, LiveIsKnown, LatchIsOwn, Ended, Goto, Return, runVars,
        threadVars, shutdownVars
<1>0. AndroidTypeOK /\ c \in Callers
  BY DEF RunInv
<1> USE <1>0 DEF AndroidTypeOK
<1>1. ASSUME NEW t \in Tokens \cup {None}, NEW f \in Configs, StartEnter(c, t, f)
      PROVE  TornInv(c)'
  BY <1>1 DEF StartEnter
<1>2. CASE StopEnter(c)
  BY <1>2 DEF StopEnter, AskToStop
<1>3. ASSUME NEW t \in Tokens, SetPending(c, t) PROVE TornInv(c)'
  <2>1. LiveIsKnown(c)' BY <1>3 DEF SetPending
  <2>2. LatchIsOwn' BY <1>3 DEF SetPending
  <2> QED BY <2>1, <2>2
<1>4. CASE MirrorToken(c) \/ PickToken(c) \/ PublishPending(c)
  BY <1>4 DEF MirrorToken, PickToken, PublishPending
<1>5. CASE AlreadyRunning(c) \/ SetLive(c)
  BY <1>5 DEF AlreadyRunning, SetLive
<1>6. CASE Rebind(c)
  BY <1>6 DEF Rebind, AskToStop
<1>7. ASSUME NEW n \in Servers, Activate(c, n) PROVE TornInv(c)'
  <2>1. running = None
    BY <1>7 DEF Activate, RunInv, StartsExclude, StartPoints
  <2>2. \A m \in Servers : Ended(m)
    BY <1>7, <2>1 DEF Activate
  <2>3. LiveIsKnown(c)' BY <1>7, <2>1, <2>2 DEF Activate, ThreadGoto
  <2>4. LatchIsOwn' BY <1>7, <2>2 DEF Activate, ThreadGoto
  <2> QED BY <2>3, <2>4
<1>8. CASE StartSucceeds(c)
  <2>1. running = None
    BY <1>8 DEF StartSucceeds, TokenInv
  <2> QED BY <1>8, <2>1 DEF StartSucceeds
<1>9. CASE StartFails(c)
  <2>1. LiveIsKnown(c)' BY <1>9 DEF StartFails
  <2>2. LatchIsOwn' BY <1>9 DEF StartFails
  <2> QED BY <2>1, <2>2
<1>10. CASE StopConfirmed(c)
  BY <1>10 DEF StopConfirmed
<1>11. CASE ClearActive(c)
  BY <1>11 DEF ClearActive
<1>12. ~StartTimesOut(c) /\ ~GiveUp(c) /\ ~StopTimesOut(c)
  BY DEF StartTimesOut, GiveUp, StopTimesOut, RunsOut
<1> QED
  BY <1>1, <1>2, <1>3, <1>4, <1>5, <1>6, <1>7, <1>8, <1>9, <1>10, <1>11, <1>12
  DEF CallStep, CallContinues

LEMMA TornThreadStep ==
    ASSUME NEW c, Callers = {c}, RunInv, TokenInv(c), TornInv(c), NEW n \in Servers,
           ThreadStep(n) \/ ClientConnectsCamera(n) \/ DropRegistry(n)
    PROVE  TornInv(c)'
<1> AndroidTypeOK
  BY DEF RunInv
<1>0. ~Ended(n) => \A m \in Servers : m # n => Ended(m)
  BY OneLiveThread
<1> USE DEF AndroidTypeOK, TornInv, LiveIsKnown, LatchIsOwn, Ended, ThreadGoto, ThreadUnchanged,
        callVars, runVars, threadVars, shutdownVars
<1>1. CASE RegisterBackends(n)
  BY <1>0, <1>1 DEF RegisterBackends
<1>2. CASE Rearm(n)
  BY <1>0, <1>2 DEF Rearm
<1>3. CASE BindFails(n) \/ BindReports(n) \/ SeesStop(n)
  BY <1>0, <1>3 DEF BindFails, BindReports, SeesStop
<1>4. CASE RunSwap(n)
  BY <1>0, <1>4 DEF RunSwap
<1>5. CASE RunReads(n)
  BY <1>0, <1>5 DEF RunReads
<1>6. CASE RunReleases(n)
  BY <1>0, <1>6 DEF RunReleases
<1>7. CASE ThreadLeaves(n)
  BY <1>0, <1>7 DEF ThreadLeaves
<1>8. CASE ClientConnectsCamera(n) \/ DropRegistry(n)
  BY <1>8 DEF ClientConnectsCamera, DropRegistry
<1> QED BY <1>1, <1>2, <1>3, <1>4, <1>5, <1>6, <1>7, <1>8 DEF ThreadStep

(* While every wait of an app that makes one call at a time was long enough, a
   server thread has gone through run() on its own backends when it finishes:
   each start arms the latch again, and no two runs share it. *)
THEOREM OneCallersRunsAreTorn ==
    ASSUME NEW c, Controllers = {c}, Setters \subseteq {c}
    PROVE  CallsSpec => []EachRunIsTorn
<1>0. Callers = {c}
  BY DEF Callers
<1>1. AndroidInit => TornInv(c)
  BY <1>0 DEF AndroidInit, TornInv, LiveIsKnown, LatchIsOwn, Ended
<1>2. RunInv /\ TokenInv(c) /\ (late \/ TornInv(c)) /\ [CallsNext]_<<vars, late>>
        => (late \/ TornInv(c))'
  <2> SUFFICES ASSUME RunInv, TokenInv(c), late \/ TornInv(c), [CallsNext]_<<vars, late>>,
                      ~late'
               PROVE  TornInv(c)'
    OBVIOUS
  <2>1. CASE UNCHANGED <<vars, late>>
    BY <2>1 DEF vars, callVars, runVars, threadVars, shutdownVars, TornInv, LiveIsKnown,
       LatchIsOwn, Ended
  <2>2. CASE CallsNext
    <3>1. AndroidNext /\ TornInv(c) /\ ~RunsOut(c)
      BY <2>2 DEF CallsNext
    <3> QED BY <1>0, <3>1, TornCallStep, TornThreadStep DEF AndroidNext
  <2> QED BY <2>1, <2>2
<1>3. TornInv(c) => TornBeforeFinished
  BY DEF TornInv, LatchIsOwn, TornBeforeFinished
<1>4. [CallsNext]_<<vars, late>> => [AndroidNext]_vars
  BY DEF CallsNext
<1>5. CallsSpec => AndroidSafety
  BY <1>4, PTL DEF CallsSpec, AndroidSafety
<1>6. CallsSpec => [](late \/ TornInv(c))
  BY <1>0, <1>1, <1>2, <1>5, OneCallersTokens, RunInvHolds, PTL DEF CallsSpec
<1>7. late \/ TornInv(c) => EachRunIsTorn
  BY <1>3 DEF EachRunIsTorn
<1> QED BY <1>6, <1>7, PTL
=============================================================================
