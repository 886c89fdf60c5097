------------------------------- MODULE MCSdk -------------------------------
(***************************************************************************)
(* The vendor backends for TLC: the first state chooses one of them and a   *)
(* script, the commands and devices that its callers use.                  *)
(***************************************************************************)
EXTENDS SdkThread

CONSTANTS c1, c2, d1, d2, StallLimit, MaxPosts

ASSUME NikonAssumption == StallLimit \in Nat \ {0} /\ MaxPosts \in Nat

VARIABLES
  script, \* [backend, ops, devs, callers]
  swept,  \* the devices off the bus at the scans that the queued UsbGone tell of
  \* of CanonActor
  lost, pending, zoom, evfZoom, zoomCache, zoomShown,
  \* of NikonActor
  sdk, ready, warming, cached, listing, lvRunning, lvPushed, stall, frame, files, path,
  \* of SonyActor
  gone, shown, enumList, borrowers, dangling, sessions, download, confirmed

Canon == INSTANCE CanonActor
Nikon == INSTANCE NikonActor
Sony == INSTANCE SonyActor

(* "Not asked yet" is no level of magnification. *)
ASSUME ZoomAssumption == None \notin Canon!Zooms

canonVars == <<lost, pending, zoom, evfZoom, zoomCache, zoomShown>>
nikonVars ==
  <<sdk, ready, warming, cached, listing, lvRunning, lvPushed, stall, frame, files, path>>
sonyVars ==
  <<gone, shown, enumList, borrowers, dangling, sessions, download, confirmed>>
vars == <<sdkVars, script, swept, canonVars, nikonVars, sonyVars>>

Script(backend, ops, devs, callers) ==
  [backend |-> backend, ops |-> ops, devs |-> devs, callers |-> callers]

Exits == {"PrepareExit", "Shutdown"}

CanonScripts ==
  { Script("canon", {"Connect", "CapturePhoto"}, {d1, d2}, {c1}),
    Script("canon", {"Connect", "Disconnect", "SetZoom", "GetParameters"}, {d1}, {c1}),
    Script("canon", {"Connect", "Read", "GetLiveViewFrame"} \cup Exits, {d1}, {c1, c2}),
    Script("canon", {"Connect", "CapturePhoto"} \cup Exits, {d1}, {c1}) }

NikonScripts ==
  { Script("nikon", {"Connect", "Disconnect", "GetLiveViewFrame"}, {d1, d2}, {c1}),
    Script("nikon", {"Connect", "CapturePhoto"} \cup Exits, {d1}, {c1}),
    Script("nikon", {"Connect", "Read", "ListDevices", "Warmup", "UsbGone"}, {d1}, {c1, c2}) }

SonyScripts ==
  { Script("sony", {"Connect", "CapturePhoto"}, {d1}, {c1}),
    Script("sony", {"Connect", "Disconnect", "IsConnected"}, {d1, d2}, {c1}),
    Script("sony", {"Connect", "Read", "GetLiveViewFrame"} \cup Exits, {d1}, {c1, c2}) }

Scripts == CanonScripts \cup NikonScripts \cup SonyScripts

(* The script holds: of what is sent, and of what is plugged in. *)
Kept ==
  /\ present' \subseteq script.devs
  /\ Len(inbox') > Len(inbox) =>
       LET m == inbox'[Len(inbox')]
       IN  /\ m.op \in script.ops
           /\ m.dev \in script.devs \cup {None}
           /\ m.from \in script.callers \cup {None}

Init ==
  /\ SdkInit /\ Canon!CanonInit /\ Nikon!NikonInit /\ Sony!SonyInit
  /\ script \in Scripts
  /\ present \subseteq script.devs
  /\ swept = {}
  /\ script.backend # "sony" => enumList = {}

(* Commands that say that a scan found no Nikon on the bus. *)
ToldOfGone(queue) == \E i \in DOMAIN queue : queue[i].op = "UsbGone"

(* One more of them is sent, one is left in the queue, or none. *)
RecordSweep ==
  swept' = IF Len(inbox') > Len(inbox) /\ inbox'[Len(inbox')].op = "UsbGone"
           THEN swept \cup (Devices \ present)
           ELSE IF ToldOfGone(inbox') THEN swept ELSE {}

Recorded(A) == A /\ Kept /\ RecordSweep /\ UNCHANGED script

Canons(A) == script.backend = "canon" /\ Recorded(A) /\ UNCHANGED <<nikonVars, sonyVars>>
Nikons(A) == script.backend = "nikon" /\ Recorded(A) /\ UNCHANGED <<canonVars, sonyVars>>
Sonys(A) == script.backend = "sony" /\ Recorded(A) /\ UNCHANGED <<canonVars, nikonVars>>

Next == Canons(Canon!CanonNext) \/ Nikons(Nikon!NikonNext) \/ Sonys(Sony!SonyNext)

(* What the thread of the backend does, and what its SDK does in time. *)
Thread ==
  \/ Canons(Canon!sdk_thread)
  \/ Nikons(Nikon!sdk_thread)
  \/ Sonys(Sony!actor_thread)

(* The EDSDK tells of a body that is gone, a frame grows old, and whoever   *)
(* watches a Nikon goes on asking for frames.                              *)
Fairness ==
  /\ WF_vars(Thread)
  /\ WF_vars(Nikons(Nikon!FrameAges))
  /\ \A d \in {d1, d2} : /\ WF_vars(Canons(Canon!TellsOfGone(d)))
                         /\ SF_vars(Nikons(Nikon!Poll(c1, d)))

Spec == Init /\ [][Next]_vars /\ Fairness

-----------------------------------------------------------------------------

(* Every variable keeps its type. *)
TypeOK ==
  /\ script.backend = "canon" => Canon!CanonTypeOK
  /\ script.backend = "nikon" => Nikon!NikonTypeOK
  /\ script.backend = "sony" => Sony!SonyTypeOK

(* Nobody holds what is gone, for Canon and for Sony; the Nikon SDK does on   *)
(* purpose, until the next connect.                                        *)
NoLeak ==
  /\ script.backend = "canon" => Canon!NoLeak
  /\ script.backend = "sony" => Sony!NoLeak

(* What a client is shown is true: of the zoom of a Canon body, although the *)
(* frames it is read from lag behind; and what list_devices() of Sony says of *)
(* a listed body agrees with the table of sessions.                        *)
ShownIsTrue ==
  /\ Canon!ZoomIsTrue
  /\ script.backend = "sony" /\ thread = "runs" =>
       \A d \in Devices : shown[d] # "absent" => (shown[d] = "connected" <=> d \in open)

Commanded(op, d) == inbox # <<>> /\ Head(inbox).op = op /\ Head(inbox).dev = d

(* A session ends for a reason only: it was asked to or the backend ended;  *)
(* on Canon the body is lost, or a connect of the connected body replaces    *)
(* the session and fails; on Sony the SDK has ended it; on Nikon the live    *)
(* view stalled too long, or the thread is told of a scan at which the body  *)
(* was off the bus.  That scan may be older than the session it ends: a body *)
(* that was back and connected before the thread is told loses the new one  *)
(* too, as in the code; no scan of a body on the bus ever ends a session.   *)
SessionsEndForAReason ==
  [][\A d \in open \ open' :
       \/ thread' = "ended" \/ Commanded("Disconnect", d)
       \/ script.backend = "canon" /\ (d \in lost \/ Commanded("Connect", d))
       \/ script.backend = "sony" /\ d \in gone
       \/ /\ script.backend = "nikon"
          /\ stall + 1 = StallLimit \/ (Commanded("UsbGone", None) /\ d \in swept)]_vars

(* Every call of a method returns. *)
CallsReturn == \A c \in Callers : (c \in waiting) ~> (c \notin waiting)

(* A body that left loses its session, or is back; that of a Nikon that     *)
(* does not stream is found out by the next listing only.                  *)
GoneIsDropped ==
  \A d \in Devices :
    /\ script.backend = "canon" => ((d \in open \ present) ~> (d \notin open \ present))
    /\ script.backend = "nikon" => ((d \in open \ present /\ lvRunning)
                                       ~> (d \notin open \ present \/ ~lvRunning))

=============================================================================
