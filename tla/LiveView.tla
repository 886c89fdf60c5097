------------------------------ MODULE LiveView ------------------------------
(***************************************************************************)
(* The live view of one camera (routes/cameras.rs, live_view and           *)
(* disconnect_camera): HTTP clients subscribe to a broadcast sender kept   *)
(* in a registry, and capture loops poll the backend and broadcast what    *)
(* they get.                                                               *)
(*                                                                         *)
(* One device id is modelled.  Different ids share only the registry's     *)
(* mutex, held for a lookup and never across an await.                     *)
(*                                                                         *)
(* Abstracted: JPEG bytes (a poll returns a frame that is "fresh" or the   *)
(* "same" as the previous one), the clock behind HEARTBEAT (a heartbeat is *)
(* due or not), and the ring of four items of tokio's broadcast channel: a *)
(* subscriber is modelled by what it was sent last, which the ring, which  *)
(* drops only its oldest items, always delivers.                           *)
(***************************************************************************)
EXTENDS CaptureGuard, Naturals

CONSTANTS
    Id,         \* the device of this live view
    Clients,    \* HTTP connections that may ask for the stream
    Senders,    \* Arc<broadcast::Sender> allocations alive at the same time
    Loops,      \* capture loop tasks alive at the same time
    Disconnects,\* disconnect requests that may be under way at the same time
    NOSIGNAL_GRACE_MISSES, STALL_MISSES, DEVICE_CHECK_EVERY

ASSUME LiveViewAssumption ==
    /\ Id \in Ids
    /\ None \notin Senders
    /\ NOSIGNAL_GRACE_MISSES \in Nat /\ STALL_MISSES \in Nat
    /\ DEVICE_CHECK_EVERY \in Nat \ {0}

VARIABLES
    sender,         \* live_views[Id]: the registered sender
    stage,          \* stage[c]: where client c's request stands
    rx,             \* rx[c]: the sender client c is subscribed to
    pic,            \* pic[c]: the last picture broadcast to c
    closed,         \* closed[c]: was it followed by the closing boundary?
    phase,          \* phase[l]: where capture loop l is
    tx,             \* tx[l]: the sender it broadcasts on
    misses,         \* misses[l]: consecutive_misses
    hadSignal,      \* hadSignal[l]: has the camera ever delivered a frame?
    polled,         \* polled[l]: the result of the poll it awaited
    connected,      \* the backend holds a session on the device
    listed,         \* the backend enumerates the device
    disconnecting   \* the disconnect requests between their two steps

clientVars == <<stage, rx, pic, closed>>
streamVars == <<pic, closed>>
loopVars == <<phase, tx, misses, hadSignal, polled>>
deviceVars == <<connected, listed, disconnecting>>
lvVars == <<sender, stage, rx, pic, closed, phase, tx, misses, hadSignal,
            polled, connected, listed, disconnecting>>
vars == <<lvVars, captureVars>>

Stages == {"out", "checked", "on"}
Pictures == {"nothing", "frame", "nosignal", "endofstream"}
Polling == {"top", "polling", "polled", "listing", "orphan"}
Exiting == {"terminal", "closing", "unregister"}
Phases == {"free"} \cup Polling \cup Exiting
PollResults == {"fresh", "same", "miss", "panic"}

(* consecutive_misses is only compared with the two thresholds and, past
   STALL_MISSES, taken modulo DEVICE_CHECK_EVERY: counting on from Horizon is
   the same as counting on from DEVICE_CHECK_EVERY less.  (The code's u32
   would overflow after four years of misses.) *)
Horizon ==
    (IF STALL_MISSES > NOSIGNAL_GRACE_MISSES
     THEN STALL_MISSES ELSE NOSIGNAL_GRACE_MISSES) + DEVICE_CHECK_EVERY

Bump(m) == IF m + 1 = Horizon THEN m + 1 - DEVICE_CHECK_EVERY ELSE m + 1

\* Faulty variant for StreamsEnd: the device is looked for once per stall.
CheckDueOnce(m) == m = STALL_MISSES

CheckDue(m) ==
    m >= STALL_MISSES /\ (m - STALL_MISSES) % DEVICE_CHECK_EVERY = 0

Receivers(s) == {c \in Clients : rx[c] = s}

(* Some Arc keeps the channel open: the registry's or a loop's. *)
Open(s) == sender = s \/ \E l \in Loops : phase[l] # "free" /\ tx[l] = s

(* A freed allocation may be used again, as ptr_eq allows: no one who could
   compare it with the new one is left. *)
Fresh(s) == ~Open(s) /\ Receivers(s) = {}

LiveViewTypeOK ==
    /\ CaptureTypeOK
    /\ sender \in Senders \cup {None}
    /\ stage \in [Clients -> Stages]
    /\ rx \in [Clients -> Senders \cup {None}]
    /\ pic \in [Clients -> Pictures]
    /\ closed \in [Clients -> BOOLEAN]
    /\ phase \in [Loops -> Phases]
    /\ tx \in [Loops -> Senders \cup {None}]
    /\ misses \in [Loops -> 0 .. Horizon - 1]
    /\ hadSignal \in [Loops -> BOOLEAN]
    /\ polled \in [Loops -> PollResults \cup {None}]
    /\ connected \in BOOLEAN /\ listed \in BOOLEAN
    /\ disconnecting \subseteq Disconnects

LiveViewInit ==
    /\ CaptureInit
    /\ sender = None
    /\ stage = [c \in Clients |-> "out"]
    /\ rx = [c \in Clients |-> None]
    /\ pic = [c \in Clients |-> "nothing"]
    /\ closed = [c \in Clients |-> FALSE]
    /\ phase = [l \in Loops |-> "free"]
    /\ tx = [l \in Loops |-> None]
    /\ misses = [l \in Loops |-> 0]
    /\ hadSignal = [l \in Loops |-> FALSE]
    /\ polled = [l \in Loops |-> None]
    /\ connected = FALSE /\ listed = TRUE /\ disconnecting = {}

-----------------------------------------------------------------------------
(* The HTTP side: clients of GET /cameras/{id}/liveview. *)

(* The pre-flight check; a request it rejects (409) changes nothing. *)
Preflight(c) ==
    /\ stage[c] = "out" /\ connected
    /\ stage' = [stage EXCEPT ![c] = "checked"]
    /\ UNCHANGED <<sender, rx, streamVars, loopVars, deviceVars, captureVars>>

SpawnLoop(l, s) ==
    /\ phase[l] = "free"
    /\ phase' = [phase EXCEPT ![l] = "top"]
    /\ tx' = [tx EXCEPT ![l] = s]
    /\ UNCHANGED <<misses, hadSignal, polled>>

(* Under the registry's lock: find or insert the sender, subscribe, and start
   a capture loop when receiver_count() == 1, that is when there was no other
   receiver. *)
Subscribe(c, s) ==
    /\ stage[c] = "checked"
    /\ IF sender = None THEN Fresh(s) ELSE s = sender
    /\ sender' = s
    /\ stage' = [stage EXCEPT ![c] = "on"]
    /\ rx' = [rx EXCEPT ![c] = s]
    /\ IF Receivers(s) = {} THEN \E l \in Loops : SpawnLoop(l, s)
                            ELSE UNCHANGED loopVars
    /\ UNCHANGED <<streamVars, deviceVars, captureVars>>

Detach(c) ==
    /\ stage' = [stage EXCEPT ![c] = "out"]
    /\ rx' = [rx EXCEPT ![c] = None]
    /\ pic' = [pic EXCEPT ![c] = "nothing"]
    /\ closed' = [closed EXCEPT ![c] = FALSE]
    /\ UNCHANGED <<sender, loopVars, deviceVars, captureVars>>

(* The client goes away, whether its request is answered yet or not. *)
Leave(c) == stage[c] # "out" /\ Detach(c)

(* All senders of the channel are dropped: the client reads what is buffered
   and its response ends. *)
StreamEnds(c) == stage[c] = "on" /\ ~Open(rx[c]) /\ Detach(c)

(* POST /cameras/{id}/disconnect, first step: remove the sender, "so the
   capture loop stops and the next connection always starts with a fresh
   sender". *)
DisconnectRemovesSender(x) ==
    /\ x \notin disconnecting
    /\ sender' = None
    /\ disconnecting' = disconnecting \cup {x}
    /\ UNCHANGED <<clientVars, loopVars, connected, listed, captureVars>>

(* ... second step: the backend closes the session. *)
DisconnectBackend(x) ==
    /\ x \in disconnecting
    /\ disconnecting' = disconnecting \ {x}
    /\ connected' = FALSE
    /\ UNCHANGED <<sender, clientVars, loopVars, listed, captureVars>>

(* POST /cameras/{id}/connect, on a device the backend can find. *)
Connect ==
    /\ listed /\ ~connected
    /\ connected' = TRUE
    /\ UNCHANGED <<sender, clientVars, loopVars, listed, disconnecting, captureVars>>

-----------------------------------------------------------------------------
(* The device.  A backend may or may not notice by itself that the session of
   a camera that was unplugged is dead. *)

Unplug ==
    /\ listed
    /\ listed' = FALSE
    /\ connected' \in {connected, FALSE}
    /\ UNCHANGED <<sender, clientVars, loopVars, disconnecting, captureVars>>

Plug ==
    /\ ~listed
    /\ listed' = TRUE
    /\ UNCHANGED <<sender, clientVars, loopVars, connected, disconnecting, captureVars>>

-----------------------------------------------------------------------------
(* The capture loop. *)

Goto(l, p) == phase' = [phase EXCEPT ![l] = p]

(* Every subscriber of the channel gets the picture p. *)
Show(s, p) ==
    /\ pic' = [c \in Clients |-> IF rx[c] = s THEN p ELSE pic[c]]
    /\ closed' = [c \in Clients |-> IF rx[c] = s THEN FALSE ELSE closed[c]]

(* tx.send(p), whose error "no receivers" leaves the loop. *)
SendOrBreak(l, p, next) ==
    IF Receivers(tx[l]) = {}
    THEN Goto(l, "terminal") /\ UNCHANGED streamVars
    ELSE Goto(l, next) /\ Show(tx[l], p)

LoopUnchanged == UNCHANGED <<sender, stage, rx, tx, deviceVars, captureVars>>

\* Faulty variant for NoLeakedLoop: without subscribers the loop only pauses.
LoopTopIdles(l) ==
    /\ phase[l] = "top"
    /\ Goto(l, IF Receivers(tx[l]) = {} THEN "top" ELSE "polling")
    /\ LoopUnchanged /\ UNCHANGED <<streamVars, misses, hadSignal, polled>>

(* Top of the loop: stop when there are no subscribers left, otherwise hand
   get_live_view_frame to a blocking thread. *)
LoopTop(l) ==
    /\ phase[l] = "top"
    /\ Goto(l, IF Receivers(tx[l]) = {} THEN "terminal" ELSE "polling")
    /\ LoopUnchanged /\ UNCHANGED <<streamVars, misses, hadSignal, polled>>

(* The backend answers what it likes.  A frame says nothing about the device
   or its session: a relay (remote/mod.rs:230) and a DirectShow graph
   (webcam_windows/mod.rs:2382) go on giving the last one they have, and a
   poll starts a relay of a camera that is not connected.  A frame can equal
   the last one of this loop only if there was one. *)
PollReturns(l, r) ==
    /\ phase[l] = "polling"
    /\ r = "same" => hadSignal[l]
    /\ Goto(l, "polled")
    /\ polled' = [polled EXCEPT ![l] = r]
    /\ LoopUnchanged /\ UNCHANGED <<streamVars, misses, hadSignal>>

Handling(l, r) ==
    /\ phase[l] = "polled" /\ polled[l] = r
    /\ polled' = [polled EXCEPT ![l] = None]
    /\ LoopUnchanged

GotFrame(l) ==
    /\ misses' = [misses EXCEPT ![l] = 0]
    /\ hadSignal' = [hadSignal EXCEPT ![l] = TRUE]

(* A new frame is broadcast. *)
HandleFresh(l) ==
    /\ Handling(l, "fresh") /\ GotFrame(l)
    /\ SendOrBreak(l, "frame", "top")

\* Faulty variant for SubscriberIsFed: an unchanged frame is never sent again.
HandleSameMuted(l, due) ==
    /\ Handling(l, "same") /\ GotFrame(l)
    /\ Goto(l, "top") /\ UNCHANGED streamVars

(* An unchanged frame is broadcast again only when the heartbeat is due. *)
HandleSame(l, due) ==
    /\ Handling(l, "same") /\ GotFrame(l)
    /\ IF due THEN SendOrBreak(l, "frame", "top")
              ELSE Goto(l, "top") /\ UNCHANGED streamVars

(* A miss while a capture holds the camera is expected. *)
HandleMissCapturing(l) ==
    /\ Handling(l, "miss")
    /\ Id \in capturing
    /\ misses' = [misses EXCEPT ![l] = 0]
    /\ Goto(l, "top") /\ UNCHANGED <<streamVars, hadSignal>>

(* Any other miss is counted.  When the heartbeat is due the last real frame
   is repeated or, past the grace period of a camera that never gave one, the
   "no signal" placeholder is shown.  A sustained stall leads to the check
   whether the device is still there. *)
HandleMiss(l, due) ==
    LET m == Bump(misses[l])
        next == IF CheckDue(m) THEN "listing" ELSE "top"
    IN /\ Handling(l, "miss")
       /\ Id \notin capturing
       /\ misses' = [misses EXCEPT ![l] = m]
       /\ UNCHANGED hadSignal
       /\ IF due /\ (hadSignal[l] \/ m >= NOSIGNAL_GRACE_MISSES)
          THEN SendOrBreak(l, IF hadSignal[l] THEN "frame" ELSE "nosignal", next)
          ELSE Goto(l, next) /\ UNCHANGED streamVars

(* The blocking task panicked. *)
HandlePanic(l) ==
    /\ Handling(l, "panic")
    /\ Goto(l, "terminal") /\ UNCHANGED <<streamVars, misses, hadSignal>>

(* device_vanished: list_devices succeeded without the device.  Its failure
   (ok = FALSE) does not count as gone. *)
ListReturns(l, ok) ==
    /\ phase[l] = "listing"
    /\ Goto(l, IF ok /\ ~listed THEN "terminal" ELSE "orphan")
    /\ LoopUnchanged /\ UNCHANGED <<streamVars, misses, hadSignal, polled>>

(* Still listed: stop if this loop's sender is no longer the registered one. *)
CheckOrphaned(l) ==
    /\ phase[l] = "orphan"
    /\ Goto(l, IF sender # tx[l] THEN "terminal" ELSE "top")
    /\ LoopUnchanged /\ UNCHANGED <<streamVars, misses, hadSignal, polled>>

\* Faulty variant for NoFrozenEnd: the loop just stops.
SkipTerminal(l) ==
    /\ phase[l] = "terminal"
    /\ Goto(l, "unregister") /\ UNCHANGED streamVars
    /\ LoopUnchanged /\ UNCHANGED <<misses, hadSignal, polled>>

(* After the loop: the terminal placeholder, if someone is there to see it. *)
SendTerminal(l) ==
    /\ phase[l] = "terminal"
    /\ IF Receivers(tx[l]) = {}
       THEN Goto(l, "unregister") /\ UNCHANGED streamVars
       ELSE /\ Goto(l, "closing")
            /\ Show(tx[l], IF hadSignal[l] THEN "endofstream" ELSE "nosignal")
    /\ LoopUnchanged /\ UNCHANGED <<misses, hadSignal, polled>>

(* ... followed by the closing boundary, without which a browser never renders
   the terminal picture. *)
SendClosing(l) ==
    /\ phase[l] = "closing"
    /\ Goto(l, "unregister")
    /\ closed' = [c \in Clients |-> closed[c] \/ rx[c] = tx[l]]
    /\ LoopUnchanged /\ UNCHANGED <<pic, misses, hadSignal, polled>>

\* Faulty variant for RegisteredSenderIsFed: the loop leaves its sender behind.
LeaveSender(l) ==
    /\ phase[l] = "unregister"
    /\ Goto(l, "free")
    /\ tx' = [tx EXCEPT ![l] = None]
    /\ misses' = [misses EXCEPT ![l] = 0]
    /\ hadSignal' = [hadSignal EXCEPT ![l] = FALSE]
    /\ UNCHANGED <<sender, clientVars, polled, deviceVars, captureVars>>

(* Remove the sender only if it is still ours, and drop tx. *)
Unregister(l) ==
    /\ phase[l] = "unregister"
    /\ sender' = IF sender = tx[l] THEN None ELSE sender
    /\ Goto(l, "free")
    /\ tx' = [tx EXCEPT ![l] = None]
    /\ misses' = [misses EXCEPT ![l] = 0]
    /\ hadSignal' = [hadSignal EXCEPT ![l] = FALSE]
    /\ UNCHANGED <<clientVars, polled, deviceVars, captureVars>>

LoopStep(l) ==
    \/ LoopTop(l)
    \/ \E r \in PollResults : PollReturns(l, r)
    \/ HandleFresh(l)
    \/ \E due \in BOOLEAN : HandleSame(l, due) \/ HandleMiss(l, due)
    \/ HandleMissCapturing(l)
    \/ HandlePanic(l)
    \/ \E ok \in BOOLEAN : ListReturns(l, ok)
    \/ CheckOrphaned(l)
    \/ SendTerminal(l)
    \/ SendClosing(l)
    \/ Unregister(l)

LiveViewStep ==
    \/ \E c \in Clients :
        \/ Preflight(c)
        \/ \E s \in Senders : Subscribe(c, s)
        \/ Leave(c)
        \/ StreamEnds(c)
    \/ \E x \in Disconnects : DisconnectRemovesSender(x) \/ DisconnectBackend(x)
    \/ Connect \/ Unplug \/ Plug
    \/ \E l \in Loops : LoopStep(l)

LiveViewNext ==
    \/ LiveViewStep
    \/ CaptureNext /\ UNCHANGED lvVars

(* The tokio runtime runs every task that can go on, backends answer, and a
   closed channel ends its responses. *)
Scheduling ==
    /\ \A l \in Loops : WF_vars(LoopStep(l))
    /\ \A c \in Clients : WF_vars(StreamEnds(c))
    /\ \A k \in Requests : WF_vars(BurstEnds(k) /\ UNCHANGED lvVars)
                          /\ WF_vars(CaptureReturns(k) /\ UNCHANGED lvVars)

(* The heartbeat's clock runs: a loop that keeps handling unchanged frames, or
   misses, finds it due again and again.  A backend that is asked again and
   again whether the device is still there does not fail for ever. *)
Clock ==
    \A l \in Loops : /\ SF_vars(HandleSame(l, TRUE))
                     /\ SF_vars(HandleMiss(l, TRUE))
                     /\ SF_vars(ListReturns(l, TRUE))

LiveViewSafety == LiveViewInit /\ [][LiveViewNext]_vars
LiveViewScheduled == LiveViewSafety /\ Scheduling
LiveViewSpec == LiveViewScheduled /\ Clock

-----------------------------------------------------------------------------
(* Safety. *)

On(c) == stage[c] = "on"

(* A sender that is found in the registry always has a capture loop behind it
   that has not finished, so nobody subscribes to a channel that stays open
   and that nobody feeds: the cleanup of a loop on its way out and the rule
   "the first receiver starts a loop" leave no gap. *)
RegisteredSenderIsFed ==
    sender # None => \E l \in Loops : phase[l] # "free" /\ tx[l] = sender

(* A stream that has ended never leaves a client with a live frame on screen:
   whatever loops shared its channel, the last picture is a terminal one and
   its closing boundary followed.  (A client that subscribes between the
   terminal picture and the removal of the sender is sent none at all.) *)
NoFrozenEnd ==
    \A c \in Clients :
        On(c) /\ ~Open(rx[c]) /\ pic[c] # "nothing"
            => pic[c] \in {"nosignal", "endofstream"} /\ closed[c]

-----------------------------------------------------------------------------
(* Liveness. *)

(* A loop whose last subscriber left, and that gets no other, ends. *)
NoLeakedLoop ==
    \A l \in Loops :
        phase[l] # "free" ~> phase[l] = "free" \/ Receivers(tx[l]) # {}

(* A subscriber gets a picture even when the camera keeps giving the same
   frame: "the heartbeat [...] feeds late subscribers" (cameras.rs:514-522).
   Nothing is promised while a capture is marked. *)
SubscriberIsFed ==
    \A c \in Clients :
        On(c) /\ pic[c] = "nothing"
            ~> pic[c] # "nothing" \/ ~On(c) \/ Id \in capturing

(* The camera stalls: no poll gives a frame, and no capture explains that. *)
Stalled ==
    /\ Id \notin capturing
    /\ \A l \in Loops : polled[l] \notin {"fresh", "same"}

(* A stall ends streams when it must: that of a device that is gone for good,
   whenever in the stall it disappears, and that of a client whose sender was
   taken out of the registry.  Without a stall neither is promised: a backend
   that goes on giving the last frame of a device that is gone keeps its stream
   open, although "the device disappearing from the backend's device list" is
   to end it (cameras.rs:541), because the misses that lead to the check are
   not counted. *)
StreamsEnd ==
    \A c \in Clients :
        /\ <>[](~listed /\ Stalled) => []<>(~On(c))
        /\ <>[]Stalled => []<>(~On(c) \/ rx[c] = sender)
=============================================================================
