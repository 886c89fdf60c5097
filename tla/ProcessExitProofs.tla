-------------------------- MODULE ProcessExitProofs --------------------------
(***************************************************************************)
(* Theorems about ProcessExit, for every platform and any number of        *)
(* backends and requests.                                                  *)
(***************************************************************************)
EXTENDS ProcessExit, TLAPS

Sweeping(p) == at[p] \in {"sweep", "ack"}

(* Before the latch is set nobody tears anything down; afterwards at most one
   runner does, and what it has left to do was not asked yet. *)
LatchInv ==
    /\ ~ran => \A p \in Runners : at[p] \in {"off", "armed", "swap"}
    /\ ~ran => \A b \in Backends : asked[b] = 0
    /\ \A p, q \in Runners : Sweeping(p) /\ Sweeping(q) => p = q
    /\ \A p \in Runners : ~Sweeping(p) => todo[p] = {}
    /\ \A p \in Runners : \A b \in todo[p] : asked[b] = 0
    /\ AskedOnce

(* A backend that was asked is down or awaited, unless it is slow; only the
   task that builds a backend takes it out of "building". *)
AskedInv ==
    /\ \A r \in Requests : step[r] = "build" => life[call[r]] = "building"
    /\ \A r \in Requests : step[r] = "use" => life[call[r]] \in {"ready", "session", "down"}
    /\ \A q, r \in Requests :
        step[q] = "build" /\ step[r] = "build" /\ call[q] = call[r] => q = r
    /\ \A b \in Backends : asked[b] > 0 => life[b] \in {"ready", "session", "down"}
    /\ \A p \in Runners : at[p] = "ack" => waitsFor[p] # None
    /\ \A b \in Backends :
        asked[b] > 0 /\ b \notin Slow =>
            life[b] = "down" \/ \E p \in Runners : at[p] = "ack" /\ waitsFor[p] = b

ExitInv == ExitTypeOK /\ LatchInv /\ AskedInv

-----------------------------------------------------------------------------
(* The steps of the requests: they build and use backends and leave the
   teardown alone. *)
LEMMA RequestStep ==
    ASSUME ExitInv, NEW r \in Requests,
           OpenStream(r) \/ ClientLeaves(r) \/ TaskStep(r)
             \/ \E b \in Backends : ConnectCamera(r, b)
    PROVE  ExitInv'
<1> USE ExitAssumption DEF ExitInv, ExitTypeOK, LatchInv, AskedInv, AskedOnce, Sweeping,
        Lives, Steps, runnerVars, TaskGoto, TaskEnds
<1>1. CASE OpenStream(r)
  BY <1>1 DEF OpenStream, Idle
<1>2. CASE ClientLeaves(r)
  BY <1>2 DEF ClientLeaves
<1>3. CASE TaskPeeks(r)
  <2>1. ExitTypeOK' BY <1>3 DEF TaskPeeks, Unlocked
  <2>2. LatchInv' BY <1>3 DEF TaskPeeks
  <2>3. AskedInv' BY <1>3 DEF TaskPeeks, Unlocked
  <2> QED BY <2>1, <2>2, <2>3
<1>4. CASE TaskScans(r)
  <2>1. CASE TaskEnds(r)
    BY <1>4, <2>1 DEF TaskScans
  <2>2. CASE TaskGoto(r, "lock")
    BY <1>4, <2>2 DEF TaskScans
  <2> QED BY <1>4, <2>1, <2>2 DEF TaskScans
<1>5. CASE TaskLocks(r)
  BY <1>5 DEF TaskLocks, Unlocked
<1>6. CASE TaskBuilds(r)
  <2>1. CASE life' = [life EXCEPT ![call[r]] = "ready"] /\ TaskGoto(r, "use")
    BY <1>6, <2>1 DEF TaskBuilds
  <2>2. CASE life' = [life EXCEPT ![call[r]] = "absent"] /\ TaskEnds(r)
    BY <1>6, <2>2 DEF TaskBuilds
  <2> QED BY <1>6, <2>1, <2>2 DEF TaskBuilds
<1>7. CASE TaskConnects(r)
  <2>1. CASE life' = life
    BY <1>7, <2>1 DEF TaskConnects
  <2>2. CASE life[call[r]] # "down" /\ life' = [life EXCEPT ![call[r]] = "session"]
    BY <1>7, <2>2 DEF TaskConnects
  <2> QED BY <1>7, <2>1, <2>2 DEF TaskConnects
<1>8. ASSUME NEW b \in Backends, ConnectCamera(r, b) PROVE ExitInv'
  BY <1>8 DEF ConnectCamera, Idle
<1> QED BY <1>1, <1>2, <1>3, <1>4, <1>5, <1>6, <1>7, <1>8 DEF TaskStep

(* The steps of a runner: the latch makes it the only one to tear down. *)
LEMMA RunnerStepKeeps ==
    ASSUME ExitInv, NEW p \in Runners, RunnerStep(p)
    PROVE  ExitInv'
<1> USE ExitAssumption DEF ExitInv, ExitTypeOK, LatchInv, AskedInv, AskedOnce, Sweeping,
        Points, requestVars, RunnerGoto
<1>1. CASE RunSwap(p)
  BY <1>1 DEF RunSwap
<1>2. ASSUME NEW b \in Backends, ShutdownBackend(p, b) PROVE ExitInv'
  <2>1. ExitTypeOK' BY <1>2 DEF ShutdownBackend, Unlocked
  <2>2. LatchInv'
    <3>1. Sweeping(p) /\ ran /\ asked[b] = 0 BY <1>2 DEF ShutdownBackend
    <3>2. \A q \in Runners : q # p => ~Sweeping(q) /\ todo[q] = {} BY <3>1
    <3>3. /\ ran' = ran /\ \A q \in Runners : Sweeping(q)' = Sweeping(q)
          /\ todo' = [todo EXCEPT ![p] = @ \ {b}]
          /\ asked' \in {asked, [asked EXCEPT ![b] = 1]}
      BY <1>2, <3>1 DEF ShutdownBackend
    <3>4. \A c \in Backends : asked'[c] \in {asked[c], 1} /\ (c # b => asked'[c] = asked[c])
      BY <3>3
    <3> QED BY <3>1, <3>2, <3>3, <3>4
  <2>3. AskedInv' BY <1>2 DEF ShutdownBackend, Unlocked, Lives
  <2> QED BY <2>1, <2>2, <2>3
<1>3. CASE WaitEnds(p)
  BY <1>3 DEF WaitEnds
<1>4. CASE RunDone(p)
  BY <1>4 DEF RunDone
<1>5. CASE Exits(p)
  BY <1>5 DEF Exits
<1> QED BY <1>1, <1>2, <1>3, <1>4, <1>5 DEF RunnerStep

(* Signals, the end of the drain, the grace timer and the end of main: the
   steps that start a teardown or end the process. *)
LEMMA SignalStep ==
    ASSUME ExitInv, CtrlC \/ Drained \/ GraceFires \/ RuntimeDrops \/ MainReturns
    PROVE  ExitInv'
<1> USE ExitAssumption DEF ExitInv, ExitTypeOK, LatchInv, AskedInv, AskedOnce, Sweeping,
        Points, requestVars, RunnerGoto
<1>1. CASE CtrlC
  BY <1>1 DEF CtrlC
<1>2. CASE Drained
  BY <1>2 DEF Drained
<1>3. CASE GraceFires
  BY <1>3 DEF GraceFires
<1>4. CASE RuntimeDrops
  BY <1>4 DEF RuntimeDrops, Runners
<1>5. CASE MainReturns
  BY <1>5 DEF MainReturns, Runners
<1> QED BY <1>1, <1>2, <1>3, <1>4, <1>5

(* A backend's actor closes its session on its own, and only its own. *)
LEMMA ActorStep ==
    ASSUME ExitInv, NEW b \in Backends, ActorCloses(b)
    PROVE  ExitInv'
BY DEF ActorCloses, ExitInv, ExitTypeOK, LatchInv, AskedInv, AskedOnce, Sweeping, Lives,
       requestVars, runnerVars

-----------------------------------------------------------------------------
(* The inductive invariant holds: the teardown has one owner at a time. *)
THEOREM ExitInvHolds == ExitSafety => []ExitInv
<1>1. ExitInit => ExitInv
  <2> SUFFICES ASSUME ExitInit PROVE ExitInv
    OBVIOUS
  <2>1. ExitTypeOK BY ExitAssumption DEF ExitInit, ExitTypeOK, Points, Lives, Steps
  <2>2. LatchInv BY DEF ExitInit, LatchInv, AskedOnce, Sweeping
  <2>3. AskedInv BY DEF ExitInit, AskedInv
  <2> QED BY <2>1, <2>2, <2>3 DEF ExitInv
<1>2. ExitInv /\ [ExitNext]_vars => ExitInv'
  <2> SUFFICES ASSUME ExitInv, [ExitNext]_vars PROVE ExitInv'
    OBVIOUS
  <2>1. CASE ExitNext
    BY <2>1, RequestStep, RunnerStepKeeps, SignalStep, ActorStep DEF ExitNext
  <2>2. CASE UNCHANGED vars
    BY <2>2 DEF vars, requestVars, runnerVars, ExitInv, ExitTypeOK, LatchInv, AskedInv,
        AskedOnce, Sweeping
  <2> QED BY <2>1, <2>2
<1> QED BY <1>1, <1>2, PTL DEF ExitSafety

(* No backend is told to shut down twice, however many paths call run(). *)
THEOREM TeardownAtMostOnce == ExitSafety => []AskedOnce
<1>1. ExitInv => AskedOnce BY DEF ExitInv, LatchInv
<1> QED BY <1>1, ExitInvHolds, PTL

(* A process that does not exit in the middle of its teardown leaves every
   backend it told, and that answers in time, with its session closed, whatever
   connects were under way. *)
THEOREM TeardownCloses == ExitSafety => []ToldAreDown
<1>1. ExitInv => ToldAreDown
  BY DEF ExitInv, AskedInv, ToldAreDown
<1> QED BY <1>1, ExitInvHolds, PTL
=============================================================================
