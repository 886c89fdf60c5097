--------------------------- MODULE LiveViewProofs ---------------------------
(***************************************************************************)
(* Theorems about LiveView and the CaptureGuard it extends, for any number *)
(* of clients, senders, loops, requests and any thresholds.                *)
(***************************************************************************)
EXTENDS LiveView, TLAPS

-----------------------------------------------------------------------------
(* The capturing set. *)

CaptureInv == CaptureTypeOK /\ NeverWedged

(* No step of a photo request breaks the type or strands a mark. *)
LEMMA CaptureStep == CaptureInv /\ CaptureNext => CaptureInv'
<1> SUFFICES ASSUME CaptureInv, CaptureNext PROVE CaptureInv'
  OBVIOUS
<1> USE NoneAssumption DEF CaptureInv, CaptureTypeOK, NeverWedged
<1>1. PICK k \in Requests : \/ \E i \in Ids : CaptureBegin(k, i)
                            \/ BurstEnds(k)
                            \/ CaptureReturns(k)
                            \/ CaptureAborted(k)
  BY DEF CaptureNext
<1>2. ASSUME NEW i \in Ids, CaptureBegin(k, i) PROVE CaptureInv'
  <2>1. CaptureTypeOK'
    BY <1>2 DEF CaptureBegin
  <2>2. ASSUME NEW j \in capturing' PROVE \E q \in Requests : handler'[q] = j
    <3>1. CASE j = i
      BY <1>2, <3>1 DEF CaptureBegin
    <3>2. CASE j # i
      <4>1. PICK q \in Requests : handler[q] = j
        BY <1>2, <2>2, <3>2 DEF CaptureBegin
      <4>2. q # k
        BY <1>2, <2>2, <3>2, <4>1 DEF CaptureBegin
      <4> QED BY <1>2, <4>1, <4>2 DEF CaptureBegin
    <3> QED BY <3>1, <3>2
  <2> QED BY <2>1, <2>2
<1>3. CASE BurstEnds(k)
  BY <1>3 DEF BurstEnds
<1>4. ASSUME DropGuard(k), handler[k] # None PROVE CaptureInv'
  <2>1. CaptureTypeOK'
    BY <1>4 DEF DropGuard
  <2>2. ASSUME NEW j \in capturing' PROVE \E q \in Requests : handler'[q] = j
    <3>1. j \in capturing /\ j # handler[k]
      BY <1>4, <2>2 DEF DropGuard
    <3>2. PICK q \in Requests : handler[q] = j
      BY <3>1
    <3> QED BY <1>4, <3>1, <3>2 DEF DropGuard
  <2> QED BY <2>1, <2>2
<1> QED BY <1>1, <1>2, <1>3, <1>4 DEF CaptureReturns, CaptureAborted

(* In every behaviour of the photo requests, aborted ones included, a device
   marked as capturing has a request whose guard will remove the mark. *)
THEOREM CaptureNeverWedged == CaptureSpec => []NeverWedged
<1>1. CaptureInit => CaptureInv
  BY DEF CaptureInit, CaptureInv, CaptureTypeOK, NeverWedged
<1>2. CaptureInv /\ UNCHANGED captureVars => CaptureInv'
  BY DEF CaptureInv, CaptureTypeOK, NeverWedged, captureVars
<1> QED BY <1>1, <1>2, CaptureStep, PTL DEF CaptureSpec, CaptureInv

-----------------------------------------------------------------------------
(* The type invariant of the live view. *)

(* Counting a miss stays below the horizon. *)
LEMMA BumpRange ==
    ASSUME NEW m \in 0 .. Horizon - 1
    PROVE  Bump(m) \in 0 .. Horizon - 1
<1>1. Horizon \in Nat /\ Horizon >= DEVICE_CHECK_EVERY /\ DEVICE_CHECK_EVERY \in Nat \ {0}
  BY LiveViewAssumption DEF Horizon
<1> QED BY <1>1 DEF Bump

(* A step of a client, or of the device and its routes, keeps the type. *)
LEMMA ClientTypeStep ==
    ASSUME LiveViewTypeOK, NEW c \in Clients,
           \/ Preflight(c)
           \/ \E s \in Senders : Subscribe(c, s)
           \/ Leave(c)
           \/ StreamEnds(c)
    PROVE  LiveViewTypeOK'
<1> USE LiveViewAssumption DEF LiveViewTypeOK, CaptureTypeOK, captureVars,
        clientVars, streamVars, loopVars, deviceVars, Stages, Pictures, Phases
<1>1. CASE Preflight(c)
  BY <1>1 DEF Preflight
<1>2. ASSUME NEW s \in Senders, Subscribe(c, s) PROVE LiveViewTypeOK'
  <2>1. CASE UNCHANGED loopVars
    BY <1>2, <2>1 DEF Subscribe
  <2>2. ASSUME NEW l \in Loops, SpawnLoop(l, s) PROVE LiveViewTypeOK'
    BY <1>2, <2>2 DEF Subscribe, SpawnLoop, Polling
  <2> QED BY <1>2, <2>1, <2>2 DEF Subscribe
<1>3. CASE Detach(c)
  BY <1>3 DEF Detach
<1> QED BY <1>1, <1>2, <1>3 DEF Leave, StreamEnds

(* Connecting, disconnecting, plugging and unplugging keep the type. *)
LEMMA DeviceTypeStep ==
    ASSUME LiveViewTypeOK,
           \/ \E x \in Disconnects : DisconnectRemovesSender(x) \/ DisconnectBackend(x)
           \/ Connect \/ Unplug \/ Plug
    PROVE  LiveViewTypeOK'
  BY DEF LiveViewTypeOK, CaptureTypeOK, captureVars, clientVars, loopVars,
         DisconnectRemovesSender, DisconnectBackend, Connect, Unplug, Plug

(* Sending a picture, or leaving the loop because nobody is there. *)
LEMMA SendOrBreakType ==
    ASSUME LiveViewTypeOK, NEW l \in Loops, NEW p \in Pictures, NEW next \in Phases,
           SendOrBreak(l, p, next)
    PROVE  /\ phase' \in [Loops -> Phases]
           /\ pic' \in [Clients -> Pictures]
           /\ closed' \in [Clients -> BOOLEAN]
<1>1. CASE Receivers(tx[l]) = {}
  BY <1>1 DEF SendOrBreak, LiveViewTypeOK, Goto, streamVars, Phases, Exiting
<1>2. CASE Receivers(tx[l]) # {}
  BY <1>2 DEF SendOrBreak, LiveViewTypeOK, Goto, Show
<1> QED BY <1>1, <1>2

(* A step of a capture loop keeps the type. *)
LEMMA LoopTypeStep ==
    ASSUME LiveViewTypeOK, NEW l \in Loops, LoopStep(l)
    PROVE  LiveViewTypeOK'
<1> USE LiveViewAssumption
    DEF LiveViewTypeOK, CaptureTypeOK, captureVars, clientVars, streamVars, loopVars,
        deviceVars, LoopUnchanged, Goto, Phases, Polling, Exiting
<1>1. CASE LoopTop(l)
  BY <1>1 DEF LoopTop
<1>2. ASSUME NEW r \in PollResults, PollReturns(l, r) PROVE LiveViewTypeOK'
  BY <1>2 DEF PollReturns
<1>3. 0 \in 0 .. Horizon - 1
  BY DEF Horizon
<1>4. CASE HandleFresh(l)
  <2>1. SendOrBreak(l, "frame", "top")
    BY <1>4 DEF HandleFresh
  <2>2. "frame" \in Pictures /\ "top" \in Phases
    BY DEF Pictures
  <2> QED BY <1>3, <1>4, <2>1, <2>2, SendOrBreakType DEF HandleFresh, Handling, GotFrame
<1>5. ASSUME NEW due \in BOOLEAN, HandleSame(l, due) PROVE LiveViewTypeOK'
  <2>1. CASE SendOrBreak(l, "frame", "top")
    <3>1. "frame" \in Pictures /\ "top" \in Phases
      BY DEF Pictures
    <3> QED BY <1>3, <1>5, <2>1, <3>1, SendOrBreakType DEF HandleSame, Handling, GotFrame
  <2>2. CASE Goto(l, "top") /\ UNCHANGED streamVars
    BY <1>3, <1>5, <2>2 DEF HandleSame, Handling, GotFrame
  <2> QED BY <1>5, <2>1, <2>2 DEF HandleSame
<1>6. ASSUME NEW due \in BOOLEAN, HandleMiss(l, due) PROVE LiveViewTypeOK'
  <2> DEFINE m == Bump(misses[l])
             next == IF CheckDue(m) THEN "listing" ELSE "top"
             p == IF hadSignal[l] THEN "frame" ELSE "nosignal"
  <2>1. m \in 0 .. Horizon - 1
    BY BumpRange
  <2>2. next \in Phases /\ p \in Pictures
    BY DEF Pictures
  <2>3. /\ Handling(l, "miss")
        /\ misses' = [misses EXCEPT ![l] = m]
        /\ UNCHANGED hadSignal
        /\ \/ SendOrBreak(l, p, next)
           \/ Goto(l, next) /\ UNCHANGED streamVars
    BY <1>6 DEF HandleMiss
  <2> HIDE DEF m, next, p
  <2>4. CASE SendOrBreak(l, p, next)
    BY <2>1, <2>2, <2>3, <2>4, SendOrBreakType DEF Handling
  <2>5. CASE Goto(l, next) /\ UNCHANGED streamVars
    BY <2>1, <2>2, <2>3, <2>5 DEF Handling
  <2> QED BY <2>3, <2>4, <2>5
<1>7. CASE HandleMissCapturing(l)
  BY <1>3, <1>7 DEF HandleMissCapturing, Handling
<1>8. CASE HandlePanic(l)
  BY <1>8 DEF HandlePanic, Handling
<1>9. ASSUME NEW ok \in BOOLEAN, ListReturns(l, ok) PROVE LiveViewTypeOK'
  BY <1>9 DEF ListReturns
<1>10. CASE CheckOrphaned(l)
  BY <1>10 DEF CheckOrphaned
<1>11. CASE SendTerminal(l)
  <2> DEFINE p == IF hadSignal[l] THEN "endofstream" ELSE "nosignal"
  <2>1. p \in Pictures
    BY DEF Pictures
  <2>2. /\ UNCHANGED <<misses, hadSignal, polled>>
        /\ \/ Goto(l, "unregister") /\ UNCHANGED streamVars
           \/ Goto(l, "closing") /\ Show(tx[l], p)
    BY <1>11 DEF SendTerminal
  <2>3. LoopUnchanged
    BY <1>11 DEF SendTerminal
  <2> HIDE DEF p
  <2> QED BY <2>1, <2>2, <2>3 DEF Show
<1>12. CASE SendClosing(l)
  BY <1>12 DEF SendClosing
<1>13. CASE Unregister(l)
  BY <1>3, <1>13 DEF Unregister
<1> QED
  BY <1>1, <1>2, <1>4, <1>5, <1>6, <1>7, <1>8, <1>9, <1>10, <1>11, <1>12, <1>13
  DEF LoopStep

(* Every step keeps the type, a step of a photo request included. *)
LEMMA TypeStep == LiveViewTypeOK /\ [LiveViewNext]_vars => LiveViewTypeOK'
<1> SUFFICES ASSUME LiveViewTypeOK, [LiveViewNext]_vars PROVE LiveViewTypeOK'
  OBVIOUS
<1>1. CASE LiveViewStep
  BY <1>1, ClientTypeStep, DeviceTypeStep, LoopTypeStep DEF LiveViewStep
<1>2. CASE CaptureNext /\ UNCHANGED lvVars
  BY <1>2, NoneAssumption
  DEF LiveViewTypeOK, CaptureTypeOK, lvVars, CaptureNext, CaptureBegin, BurstEnds,
      CaptureReturns, CaptureAborted, DropGuard
<1>3. CASE UNCHANGED vars
  BY <1>3 DEF vars, lvVars, captureVars, LiveViewTypeOK, CaptureTypeOK
<1> QED BY <1>1, <1>2, <1>3 DEF LiveViewNext

(* The server starts, with no stream, in a state of the type. *)
LEMMA LiveViewInitType == LiveViewInit => LiveViewTypeOK
<1>1. 0 \in 0 .. Horizon - 1
  BY LiveViewAssumption DEF Horizon
<1> SUFFICES ASSUME LiveViewInit PROVE LiveViewTypeOK
  OBVIOUS
<1>2. CaptureTypeOK /\ sender \in Senders \cup {None} /\ disconnecting \subseteq Disconnects
  BY DEF LiveViewInit, CaptureInit, CaptureTypeOK
<1>3. /\ stage \in [Clients -> Stages] /\ rx \in [Clients -> Senders \cup {None}]
      /\ pic \in [Clients -> Pictures]
  BY DEF LiveViewInit, Stages, Pictures
<1>4. /\ phase \in [Loops -> Phases] /\ tx \in [Loops -> Senders \cup {None}]
      /\ misses \in [Loops -> 0 .. Horizon - 1] /\ polled \in [Loops -> PollResults \cup {None}]
  BY <1>1 DEF LiveViewInit, Phases
<1>5. /\ closed \in [Clients -> BOOLEAN] /\ hadSignal \in [Loops -> BOOLEAN]
      /\ connected \in BOOLEAN /\ listed \in BOOLEAN
  BY DEF LiveViewInit
<1> QED BY <1>2, <1>3, <1>4, <1>5 DEF LiveViewTypeOK

(* Type correctness of the live view and the photo requests: in particular the
   miss counter of a capture loop stays below the horizon of its checks. *)
THEOREM LiveViewTypeCorrect == LiveViewSpec => []LiveViewTypeOK
<1> QED BY LiveViewInitType, TypeStep, PTL
       DEF LiveViewSpec, LiveViewScheduled, LiveViewSafety

-----------------------------------------------------------------------------
(* No subscriber is left behind: the inductive invariant. *)

(* Every loop that has not finished holds a sender, every subscriber has one. *)
Attached ==
    /\ \A l \in Loops : phase[l] = "free" <=> tx[l] = None
    /\ \A c \in Clients : On(c) <=> rx[c] # None
    /\ \A c \in Clients : ~On(c) => pic[c] = "nothing"

(* Who looks at a live frame has a loop that has not decided yet whether to
   send a terminal picture ... *)
FrameIsServed ==
    \A c \in Clients : pic[c] = "frame" =>
        \E l \in Loops : tx[l] = rx[c] /\ phase[l] \in Polling \cup {"terminal"}

(* ... and who looks at a placeholder, one that can still send the boundary. *)
PlaceholderIsServed ==
    \A c \in Clients : pic[c] \in {"nosignal", "endofstream"} /\ ~closed[c] =>
        \E l \in Loops : /\ tx[l] = rx[c]
                         /\ phase[l] \in Polling \cup {"terminal", "closing"}

StreamInv == /\ LiveViewTypeOK /\ Attached /\ RegisteredSenderIsFed
             /\ FrameIsServed /\ PlaceholderIsServed

(* What a step of a loop does to the loops and the streams, whatever made it:
   go on silently or leave the loop, broadcast a picture and stay in it, send
   the terminal picture or skip it, send the boundary. *)
Moves(l) ==
    /\ phase[l] \in Polling /\ UNCHANGED streamVars
    /\ \E p \in Polling \cup {"terminal"} : Goto(l, p)

Broadcasts(l) ==
    /\ phase[l] \in Polling
    /\ \E p \in Polling : Goto(l, p)
    /\ Show(tx[l], "frame") \/ Show(tx[l], "nosignal")

EndsUnseen(l) ==
    /\ phase[l] = "terminal" /\ Receivers(tx[l]) = {}
    /\ Goto(l, "unregister") /\ UNCHANGED streamVars

EndsSeen(l) ==
    /\ phase[l] = "terminal" /\ Goto(l, "closing")
    /\ Show(tx[l], "endofstream") \/ Show(tx[l], "nosignal")

(* What a step of a capture loop can do to the streams, in six kinds: move on
   silently, broadcast, end, or take its sender out of the map. *)
LEMMA LoopStepKinds ==
    ASSUME LiveViewTypeOK, NEW l \in Loops, LoopStep(l)
    PROVE  \/ /\ UNCHANGED <<sender, stage, rx, tx>>
              /\ \/ Moves(l) \/ Broadcasts(l) \/ EndsUnseen(l) \/ EndsSeen(l)
                 \/ SendClosing(l)
           \/ Unregister(l)
<1> DEFINE Same == UNCHANGED <<sender, stage, rx, tx>>
<1>0. ASSUME NEW p \in {"frame", "nosignal"}, NEW next \in Polling,
             phase[l] \in Polling, SendOrBreak(l, p, next)
      PROVE  Moves(l) \/ Broadcasts(l)
  BY <1>0 DEF SendOrBreak, Moves, Broadcasts
<1>1. CASE LoopTop(l)
  BY <1>1 DEF LoopTop, LoopUnchanged, Moves, Polling
<1>2. ASSUME NEW r \in PollResults, PollReturns(l, r) PROVE Same /\ Moves(l)
  BY <1>2 DEF PollReturns, LoopUnchanged, Moves, Polling
<1>3. CASE HandleFresh(l)
  <2>1. Same /\ phase[l] \in Polling /\ SendOrBreak(l, "frame", "top")
    BY <1>3 DEF HandleFresh, Handling, LoopUnchanged, Polling
  <2> QED BY <2>1, <1>0 DEF Polling
<1>4. ASSUME NEW due \in BOOLEAN, HandleSame(l, due)
      PROVE  Same /\ (Moves(l) \/ Broadcasts(l))
  <2>1. /\ Same /\ phase[l] \in Polling /\ "top" \in Polling
        /\ \/ SendOrBreak(l, "frame", "top")
           \/ Goto(l, "top") /\ UNCHANGED streamVars
    BY <1>4 DEF HandleSame, Handling, LoopUnchanged, Polling
  <2>2. CASE SendOrBreak(l, "frame", "top")
    BY <2>1, <2>2, <1>0
  <2>3. CASE Goto(l, "top") /\ UNCHANGED streamVars
    BY <2>1, <2>3 DEF Moves
  <2> QED BY <2>1, <2>2, <2>3
<1>5. ASSUME NEW due \in BOOLEAN, HandleMiss(l, due)
      PROVE  Same /\ (Moves(l) \/ Broadcasts(l))
  <2> DEFINE next == IF CheckDue(Bump(misses[l])) THEN "listing" ELSE "top"
             p == IF hadSignal[l] THEN "frame" ELSE "nosignal"
  <2>1. next \in Polling /\ p \in {"frame", "nosignal"}
    BY DEF Polling
  <2>2. /\ Same /\ phase[l] \in Polling
        /\ \/ SendOrBreak(l, p, next)
           \/ Goto(l, next) /\ UNCHANGED streamVars
    BY <1>5 DEF HandleMiss, Handling, LoopUnchanged, Polling
  <2> HIDE DEF next, p
  <2>3. CASE SendOrBreak(l, p, next)
    BY <2>1, <2>2, <2>3, <1>0
  <2>4. CASE Goto(l, next) /\ UNCHANGED streamVars
    BY <2>1, <2>2, <2>4 DEF Moves
  <2> QED BY <2>2, <2>3, <2>4
<1>6. CASE HandleMissCapturing(l)
  BY <1>6 DEF HandleMissCapturing, Handling, LoopUnchanged, Moves, Polling
<1>7. CASE HandlePanic(l)
  BY <1>7 DEF HandlePanic, Handling, LoopUnchanged, Moves, Polling
<1>8. ASSUME NEW ok \in BOOLEAN, ListReturns(l, ok) PROVE Same /\ Moves(l)
  BY <1>8 DEF ListReturns, LoopUnchanged, Moves, Polling
<1>9. CASE CheckOrphaned(l)
  BY <1>9 DEF CheckOrphaned, LoopUnchanged, Moves, Polling
<1>10. CASE SendTerminal(l)
  <2>1. Same /\ phase[l] = "terminal"
    BY <1>10 DEF SendTerminal, LoopUnchanged
  <2>2. CASE Receivers(tx[l]) = {}
    BY <1>10, <2>1, <2>2 DEF SendTerminal, EndsUnseen
  <2>3. CASE Receivers(tx[l]) # {}
    BY <1>10, <2>1, <2>3 DEF SendTerminal, EndsSeen
  <2> QED BY <2>1, <2>2, <2>3
<1>11. CASE SendClosing(l)
  BY <1>11 DEF SendClosing, LoopUnchanged
<1> QED
  BY <1>1, <1>2, <1>3, <1>4, <1>5, <1>6, <1>7, <1>8, <1>9, <1>10, <1>11 DEF LoopStep

(* A broadcast reaches the receivers of its sender and nobody else. *)
LEMMA ShowEffect ==
    ASSUME NEW s, NEW p, Show(s, p)
    PROVE  \A c \in Clients : /\ rx[c] = s => pic'[c] = p
                              /\ rx[c] # s => pic'[c] = pic[c] /\ closed'[c] = closed[c]
<1> TAKE c \in Clients
<1>1. pic'[c] = (IF rx[c] = s THEN p ELSE pic[c])
  BY DEF Show
<1>2. closed'[c] = (IF rx[c] = s THEN FALSE ELSE closed[c])
  BY DEF Show
<1> QED BY <1>1, <1>2

(* A loop's step keeps the invariant. *)
LEMMA LoopKeepsStreamInv ==
    ASSUME StreamInv, LiveViewTypeOK', NEW l \in Loops, LoopStep(l)
    PROVE  StreamInv'
<1> USE DEF StreamInv, Attached, RegisteredSenderIsFed, FrameIsServed,
            PlaceholderIsServed, On
<1>0. LiveViewTypeOK /\ "free" \notin Polling \cup Exiting
  BY DEF Polling, Exiting
<1>1. ASSUME UNCHANGED <<sender, stage, rx, tx>>, Moves(l) PROVE StreamInv'
  BY <1>0, <1>1 DEF Moves, Goto, streamVars, LiveViewTypeOK, Exiting
<1>2. ASSUME UNCHANGED <<sender, stage, rx, tx>>, Broadcasts(l) PROVE StreamInv'
  <2>1. tx[l] # None /\ phase'[l] \in Polling
    BY <1>0, <1>2 DEF Broadcasts, Goto, LiveViewTypeOK
  <2>2. \A c \in Clients : rx[c] # tx[l] => pic'[c] = pic[c] /\ closed'[c] = closed[c]
    BY <1>2, ShowEffect DEF Broadcasts
  <2>3. Attached' /\ RegisteredSenderIsFed'
    BY <1>0, <1>2, <2>1, <2>2 DEF Broadcasts, Goto, LiveViewTypeOK
  <2>4. FrameIsServed' /\ PlaceholderIsServed'
    BY <1>0, <1>2, <2>1, <2>2 DEF Broadcasts, Goto, LiveViewTypeOK
  <2> QED BY <2>3, <2>4
<1>3. ASSUME UNCHANGED <<sender, stage, rx, tx>>, EndsUnseen(l) PROVE StreamInv'
  <2>1. \A c \in Clients : rx[c] # tx[l]
    BY <1>3 DEF EndsUnseen, Receivers
  <2> QED BY <1>0, <1>3, <2>1 DEF EndsUnseen, Goto, streamVars, LiveViewTypeOK, Exiting
<1>4. ASSUME UNCHANGED <<sender, stage, rx, tx>>, EndsSeen(l) PROVE StreamInv'
  <2>1. tx[l] # None /\ phase'[l] = "closing"
    BY <1>0, <1>4 DEF EndsSeen, Goto, LiveViewTypeOK
  <2>2. \A c \in Clients : /\ rx[c] # tx[l] => pic'[c] = pic[c] /\ closed'[c] = closed[c]
                           /\ rx[c] = tx[l] => pic'[c] # "frame"
    BY <1>4, ShowEffect DEF EndsSeen
  <2>3. Attached' /\ RegisteredSenderIsFed'
    BY <1>0, <1>4, <2>1, <2>2 DEF EndsSeen, Goto, LiveViewTypeOK, Exiting
  <2>4. FrameIsServed' /\ PlaceholderIsServed'
    BY <1>0, <1>4, <2>1, <2>2 DEF EndsSeen, Goto, LiveViewTypeOK
  <2> QED BY <2>3, <2>4
<1>5. ASSUME UNCHANGED <<sender, stage, rx, tx>>, SendClosing(l) PROVE StreamInv'
  <2>1. tx[l] # None /\ phase[l] = "closing" /\ phase' = [phase EXCEPT ![l] = "unregister"]
    BY <1>0, <1>5 DEF SendClosing, Goto
  <2>2. Attached' /\ RegisteredSenderIsFed' /\ FrameIsServed'
    BY <1>0, <1>5, <2>1 DEF SendClosing, LiveViewTypeOK, Polling
  <2>3. \A c \in Clients : closed'[c] <=> closed[c] \/ rx[c] = tx[l]
    BY <1>5 DEF SendClosing
  <2>4. PlaceholderIsServed'
    BY <1>0, <1>5, <2>1, <2>3 DEF SendClosing, LiveViewTypeOK
  <2> QED BY <2>2, <2>4
<1>6. CASE Unregister(l)
  <2>1. /\ phase[l] = "unregister" /\ phase' = [phase EXCEPT ![l] = "free"]
        /\ tx' = [tx EXCEPT ![l] = None] /\ UNCHANGED clientVars
    BY <1>6 DEF Unregister, Goto
  <2>2. Attached'
    BY <1>0, <2>1 DEF LiveViewTypeOK, clientVars
  <2>3. RegisteredSenderIsFed'
    BY <1>0, <1>6, <2>1 DEF Unregister, LiveViewTypeOK
  <2>4. "unregister" \notin Polling \cup {"terminal", "closing"}
    BY DEF Polling
  <2>5. FrameIsServed' /\ PlaceholderIsServed'
    BY <1>0, <2>1, <2>4 DEF LiveViewTypeOK, clientVars
  <2> QED BY <2>2, <2>3, <2>5
<1> QED BY <1>0, <1>1, <1>2, <1>3, <1>4, <1>5, <1>6, LoopStepKinds

(* A client's step keeps the invariant. *)
LEMMA ClientKeepsStreamInv ==
    ASSUME StreamInv, LiveViewTypeOK', NEW c \in Clients,
           \/ Preflight(c)
           \/ \E s \in Senders : Subscribe(c, s)
           \/ Leave(c)
           \/ StreamEnds(c)
    PROVE  StreamInv'
<1> USE DEF StreamInv, Attached, RegisteredSenderIsFed, FrameIsServed,
            PlaceholderIsServed, On
<1>1. CASE Preflight(c)
  BY <1>1 DEF Preflight, LiveViewTypeOK, streamVars, loopVars
<1>2. CASE Detach(c)
  <2>1. \A d \in Clients : d # c => /\ rx'[d] = rx[d] /\ stage'[d] = stage[d]
                                    /\ pic'[d] = pic[d] /\ closed'[d] = closed[d]
    BY <1>2 DEF Detach, LiveViewTypeOK
  <2>2. rx'[c] = None /\ stage'[c] = "out" /\ pic'[c] = "nothing"
    BY <1>2 DEF Detach, LiveViewTypeOK
  <2>3. UNCHANGED <<sender, phase, tx>>
    BY <1>2 DEF Detach, loopVars
  <2> QED BY <2>1, <2>2, <2>3
<1>3. ASSUME NEW s \in Senders, Subscribe(c, s) PROVE StreamInv'
  <2>1. /\ sender' = s /\ UNCHANGED streamVars
        /\ rx' = [rx EXCEPT ![c] = s] /\ stage' = [stage EXCEPT ![c] = "on"]
        /\ s # None /\ pic[c] = "nothing"
    BY <1>3, LiveViewAssumption DEF Subscribe
  <2>2. CASE Receivers(s) = {}
    <3>1. PICK l \in Loops : SpawnLoop(l, s)
      BY <1>3, <2>2 DEF Subscribe
    <3>2. /\ phase[l] = "free" /\ phase' = [phase EXCEPT ![l] = "top"]
          /\ tx' = [tx EXCEPT ![l] = s] /\ tx[l] = None
      BY <3>1 DEF SpawnLoop
    <3>3. \A m \in Loops : m # l => phase'[m] = phase[m] /\ tx'[m] = tx[m]
      BY <3>2 DEF LiveViewTypeOK
    <3>4. phase'[l] = "top" /\ tx'[l] = s
      BY <3>2 DEF LiveViewTypeOK
    <3>5. "free" \notin Polling \cup {"terminal", "closing"}
      BY DEF Polling
    <3> QED BY <2>1, <3>2, <3>3, <3>4, <3>5 DEF LiveViewTypeOK, streamVars
  <2>3. CASE Receivers(s) # {}
    <3>1. UNCHANGED <<phase, tx>>
      BY <1>3, <2>3 DEF Subscribe, loopVars
    <3>2. s = sender
      BY <1>3, <2>3 DEF Subscribe, Fresh
    <3> QED BY <2>1, <3>1, <3>2 DEF LiveViewTypeOK, streamVars
  <2> QED BY <2>2, <2>3
<1> QED BY <1>1, <1>2, <1>3 DEF Leave, StreamEnds

(* The steps of the device, of its routes and of the photo requests too. *)
LEMMA DeviceKeepsStreamInv ==
    ASSUME StreamInv, LiveViewTypeOK',
           \/ \E x \in Disconnects : DisconnectRemovesSender(x) \/ DisconnectBackend(x)
           \/ Connect \/ Unplug \/ Plug
           \/ UNCHANGED lvVars
    PROVE  StreamInv'
<1>1. UNCHANGED <<stage, rx, pic, closed, phase, tx>> /\ sender' \in {sender, None}
  BY DEF DisconnectRemovesSender, DisconnectBackend, Connect, Unplug, Plug, clientVars,
         loopVars, lvVars
<1> QED BY <1>1 DEF StreamInv, Attached, RegisteredSenderIsFed, FrameIsServed,
                    PlaceholderIsServed, On

(* The inductive invariant of the streams holds in every behaviour. *)
THEOREM StreamInvHolds == LiveViewSpec => []StreamInv
<1>1. LiveViewInit => StreamInv
  <2> SUFFICES ASSUME LiveViewInit PROVE StreamInv
    OBVIOUS
  <2>1. LiveViewTypeOK
    BY LiveViewInitType
  <2> QED BY <2>1 DEF LiveViewInit, StreamInv, Attached, RegisteredSenderIsFed,
                      FrameIsServed, PlaceholderIsServed, On
<1>2. StreamInv /\ [LiveViewNext]_vars => StreamInv'
  <2> SUFFICES ASSUME StreamInv, [LiveViewNext]_vars PROVE StreamInv'
    OBVIOUS
  <2>1. LiveViewTypeOK'
    BY TypeStep DEF StreamInv
  <2>2. CASE LiveViewStep
    BY <2>1, <2>2, ClientKeepsStreamInv, DeviceKeepsStreamInv, LoopKeepsStreamInv
    DEF LiveViewStep
  <2>3. CASE UNCHANGED lvVars
    BY <2>1, <2>3, DeviceKeepsStreamInv
  <2> QED BY <2>2, <2>3 DEF LiveViewNext, vars
<1> QED BY <1>1, <1>2, PTL DEF LiveViewSpec, LiveViewScheduled, LiveViewSafety

(* A sender that new subscribers find in the map has a capture loop that feeds
   it: nobody is attached to a stream that nothing serves. *)
THEOREM RegisteredSenderAlwaysFed == LiveViewSpec => []RegisteredSenderIsFed
<1>1. StreamInv => RegisteredSenderIsFed
  BY DEF StreamInv
<1> QED BY <1>1, StreamInvHolds, PTL

(* No stream ends on a frozen live frame: the last picture is a terminal one,
   and the boundary that makes browsers paint it was sent. *)
THEOREM StreamNeverEndsFrozen == LiveViewSpec => []NoFrozenEnd
<1>1. ASSUME StreamInv PROVE NoFrozenEnd
  <2> SUFFICES ASSUME NEW c \in Clients, On(c), ~Open(rx[c]), pic[c] # "nothing"
               PROVE  pic[c] \in {"nosignal", "endofstream"} /\ closed[c]
    BY DEF NoFrozenEnd
  <2>1. \A l \in Loops : tx[l] = rx[c] => phase[l] = "free"
    BY DEF Open
  <2>2. "free" \notin Polling \cup {"terminal", "closing"}
    BY DEF Polling
  <2>3. pic[c] \in Pictures
    BY <1>1 DEF StreamInv, LiveViewTypeOK
  <2>4. pic[c] # "frame"
    BY <1>1, <2>1, <2>2 DEF StreamInv, FrameIsServed
  <2>5. pic[c] \in {"nosignal", "endofstream"}
    BY <2>3, <2>4 DEF Pictures
  <2>6. closed[c]
    BY <1>1, <2>1, <2>2, <2>5 DEF StreamInv, PlaceholderIsServed
  <2> QED BY <2>5, <2>6
<1> QED BY <1>1, StreamInvHolds, PTL
=============================================================================
