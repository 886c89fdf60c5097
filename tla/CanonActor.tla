----------------------------- MODULE CanonActor -----------------------------
(***************************************************************************)
(* The canon-sdk thread: sessions of the EDSDK, the events it pumps between *)
(* commands and during a capture, the one slot for an image that a body     *)
(* wants to transfer, and the cached zoom of the live view.                 *)
(***************************************************************************)
EXTENDS SdkThread

VARIABLES
  lost,      \* SHUTDOWN_CAMERA_REFS: bodies that reported their end
  pending,   \* PENDING_DIR_ITEM: which exposure the announced image is
  zoom,      \* the magnification a body is really at
  evfZoom,   \* the one that the frames of its live view show, which lags behind
  zoomCache, \* EVF_ZOOM_CACHE
  zoomShown  \* the zoom in the answer of the last command

canonVars == <<lost, pending, zoom, evfZoom, zoomCache, zoomShown>>

Fit == "fit"
Zooms == {Fit, "5x", "10x"}

(* "Read" stands for ListDevices, IsConnected, SetIsoManual and             *)
(* SetEvfZoomAxis, which keep nothing in the thread.                       *)
CanonCalls ==
  {"Read", "Connect", "Disconnect", "GetParameters", "GetLiveViewFrame",
   "SetZoom", "CapturePhoto"}
CanonOps == CanonCalls \cup {"PrepareExit", "Shutdown"}

CanonTypeOK ==
  /\ SdkTypeOK(CanonOps)
  /\ lost \subseteq Devices
  /\ pending \in Shots \cup {None}
  /\ zoom \in [Devices -> Zooms]
  /\ evfZoom \in [Devices -> Zooms]
  /\ zoomCache \in [Devices -> Zooms \cup {None}]
  /\ zoomShown \in [dev : Devices, level : Zooms] \cup {None}

CanonInit ==
  /\ lost = {}
  /\ pending = None
  /\ zoom = [d \in Devices |-> Fit]
  /\ evfZoom = [d \in Devices |-> Fit]
  /\ zoomCache = [d \in Devices |-> None]
  /\ zoomShown = None

-----------------------------------------------------------------------------
(* Events of the SDK, which run on this thread while it pumps: between two  *)
(* commands and while a capture waits.                                     *)

(* A body asks to transfer an image.  There is one slot for all bodies.    *)
object_event_callback(d) ==
  /\ thread = "runs"
  /\ d \in held
  /\ \E shot \in Shots : Announces(d, shot) /\ pending' = shot
  /\ UNCHANGED <<present, open, held, inbox, waiting, work, thread, photo, asked>>
  /\ UNCHANGED <<lost, zoom, evfZoom, zoomCache, zoomShown>>

(* A body goes, or says that it will. *)
state_event_callback(d) ==
  /\ thread = "runs"
  /\ d \in held \ lost
  /\ lost' = lost \cup {d}
  /\ UNCHANGED <<sdkVars, pending, zoom, evfZoom, zoomCache, zoomShown>>

(* The live view shows the magnification at last. *)
LiveViewFollows(d) ==
  /\ d \in held
  /\ evfZoom[d] # zoom[d]
  /\ evfZoom' = [evfZoom EXCEPT ![d] = zoom[d]]
  /\ zoomShown' = None
  /\ UNCHANGED <<sdkVars, lost, pending, zoom, zoomCache>>

(* A body falls back to Fit without a word, as some do when a position is   *)
(* out of range.                                                           *)
FallsToFit(d) ==
  /\ d \in held
  /\ zoom[d] # Fit
  /\ zoom' = [zoom EXCEPT ![d] = Fit]
  /\ zoomShown' = None
  /\ UNCHANGED <<sdkVars, lost, pending, evfZoom, zoomCache>>

(* Mutant of DropLost: the table forgets a body that the SDK keeps open. *)
DropLostUnclosed ==
  /\ Ready
  /\ lost # {}
  /\ open' = open \ lost
  /\ lost' = {}
  /\ photo' = None
  /\ zoomShown' = None
  /\ UNCHANGED <<present, held, inbox, waiting, work, thread, album, asked>>
  /\ UNCHANGED <<pending, zoom, evfZoom, zoomCache>>

(* The loop forgets the sessions of the bodies that went before it receives *)
(* the next command.  The caches of those bodies stay.                     *)
DropLost ==
  /\ Ready
  /\ lost # {}
  /\ open' = open \ lost
  /\ held' = held \ lost
  /\ lost' = {}
  /\ photo' = None
  /\ zoomShown' = None
  /\ UNCHANGED <<present, inbox, waiting, work, thread, album, asked>>
  /\ UNCHANGED <<pending, zoom, evfZoom, zoomCache>>

Receive(m, ops) == lost = {} /\ Takes(m, ops)

-----------------------------------------------------------------------------
(* Commands. *)

Read(m) ==
  /\ Receive(m, {"Read"})
  /\ Reply(m)
  /\ photo' = None
  /\ zoomShown' = None
  /\ SessionsStay /\ UNCHANGED <<lost, pending, zoom, evfZoom, zoomCache>>

(* Mutant of OpenSession: a session that fails after it opened stays open. *)
OpenSessionLeaks(d) ==
  /\ held' = held \cup {d}
  /\ \/ open' = open \cup {d}
     \/ open' = open \ {d}
  /\ UNCHANGED <<zoom, evfZoom>>

(* EdsOpenSession, and the live view sent to the host: the first may fail,  *)
(* and the second, which closes what the first opened.  A session starts   *)
(* unmagnified, its live view with it.                                     *)
OpenSession(d) ==
  \/ /\ d \in present
     /\ open' = open \cup {d}
     /\ held' = held \cup {d}
     /\ zoom' = [zoom EXCEPT ![d] = Fit]
     /\ evfZoom' = [evfZoom EXCEPT ![d] = Fit]
  \/ /\ open' = open \ {d}
     /\ held' = held \ {d}
     /\ UNCHANGED <<zoom, evfZoom>>

(* The session there was is closed first, whether or not a new one opens. *)
connect_impl(m) ==
  /\ Receive(m, {"Connect"})
  /\ OpenSession(m.dev)
  /\ Reply(m)
  /\ photo' = None
  /\ zoomShown' = None
  /\ ThreadStays /\ UNCHANGED <<lost, pending, zoomCache>>

(* The caches go with the session, and only here. *)
disconnect_impl(m) ==
  /\ Receive(m, {"Disconnect"})
  /\ open' = open \ {m.dev}
  /\ held' = held \ {m.dev}
  /\ zoomCache' = [zoomCache EXCEPT ![m.dev] = IF m.dev \in open THEN None ELSE @]
  /\ Reply(m)
  /\ photo' = None
  /\ zoomShown' = None
  /\ ThreadStays /\ UNCHANGED <<lost, pending, zoom, evfZoom>>

get_live_view_frame_impl(m) ==
  /\ Receive(m, {"GetLiveViewFrame"})
  /\ \/ m.dev \in open /\ photo' = [dev |-> m.dev, shot |-> "own"]
     \/ photo' = None
  /\ Reply(m)
  /\ zoomShown' = None
  /\ SessionsStay /\ UNCHANGED <<lost, pending, zoom, evfZoom, zoomCache>>

(* Mutant of SetZoom: the level is cached when a frame shows it only. *)
SetZoomUncached(d, z) ==
  /\ zoom' = [zoom EXCEPT ![d] = z]
  /\ \/ evfZoom' = [evfZoom EXCEPT ![d] = z] /\ zoomCache' = [zoomCache EXCEPT ![d] = z]
     \/ UNCHANGED <<evfZoom, zoomCache>>

(* The level is cached as soon as the body took it.  Frames are read until   *)
(* one shows it, for 500 ms; the live view may still lag behind then.       *)
SetZoom(d, z) ==
  /\ zoom' = [zoom EXCEPT ![d] = z]
  /\ zoomCache' = [zoomCache EXCEPT ![d] = z]
  /\ \E v \in {z, evfZoom[d]} : evfZoom' = [evfZoom EXCEPT ![d] = v]

set_parameter_impl(m) ==
  /\ Receive(m, {"SetZoom"})
  /\ \/ m.dev \in open /\ \E z \in Zooms : SetZoom(m.dev, z)
     \/ UNCHANGED <<zoom, evfZoom, zoomCache>>
  /\ Reply(m)
  /\ photo' = None
  /\ zoomShown' = None
  /\ SessionsStay /\ UNCHANGED <<lost, pending>>

(* The zoom as read from a frame, if one is ready: a frame that says Fit is *)
(* taken for an old one while the cache says otherwise, and without a frame *)
(* and a cached level Fit is assumed.                                      *)
ZoomOf(d, frame) ==
  LET cached == IF zoomCache[d] = None THEN Fit ELSE zoomCache[d]
  IN  IF frame # None /\ (frame # Fit \/ cached = Fit) THEN frame ELSE cached

get_parameters_impl(m) ==
  /\ Receive(m, {"GetParameters"})
  /\ zoomShown' \in IF m.dev \in open
                    THEN {[dev |-> m.dev, level |-> ZoomOf(m.dev, frame)] :
                            frame \in {None, evfZoom[m.dev]}}
                    ELSE {None}
  /\ Reply(m)
  /\ photo' = None
  /\ SessionsStay /\ UNCHANGED <<lost, pending, zoom, evfZoom, zoomCache>>

(* Mutant of capture_photo_impl: the slot is not emptied. *)
CaptureKeepsSlot(m) ==
  /\ Receive(m, {"CapturePhoto"})
  /\ \/ m.dev \in open /\ Exposes(m)
     \/ Reply(m) /\ UNCHANGED <<work, album>>
  /\ photo' = None
  /\ zoomShown' = None
  /\ UNCHANGED <<present, open, held, thread, asked, lost, pending, zoom, evfZoom, zoomCache>>

(* The slot is emptied and the shutter pressed; either press may be refused. *)
capture_photo_impl(m) ==
  /\ Receive(m, {"CapturePhoto"})
  /\ pending' = IF m.dev \in open THEN None ELSE pending
  /\ \/ m.dev \in open /\ Exposes(m)
     \/ Reply(m) /\ UNCHANGED <<work, album>>
  /\ photo' = None
  /\ zoomShown' = None
  /\ UNCHANGED <<present, open, held, thread, asked, lost, zoom, evfZoom, zoomCache>>

(* An image came: whichever it is, it is downloaded and answered. *)
download_dir_item ==
  /\ work # None
  /\ pending # None
  /\ pending' = None
  /\ photo' \in {None, [dev |-> work.dev, shot |-> pending]}
  /\ EndCapture
  /\ UNCHANGED <<lost, zoom, evfZoom, zoomCache, zoomShown>>

(* Mutant of CaptureTimesOut: the wait has no limit. *)
CaptureNeverTimesOut == FALSE /\ UNCHANGED <<sdkVars, canonVars>>

(* None came in CAPTURE_TIMEOUT. *)
CaptureTimesOut ==
  /\ work # None
  /\ pending = None
  /\ photo' = None
  /\ EndCapture
  /\ UNCHANGED canonVars

(* PrepareExit, or Shutdown: every session is closed and the SDK ended. *)
Teardown(m) ==
  /\ lost = {}
  /\ Returns(m, {"PrepareExit", "Shutdown"})
  /\ zoomShown' = None
  /\ UNCHANGED <<lost, pending, zoom, evfZoom, zoomCache>>

-----------------------------------------------------------------------------
(* The loop of the thread, and what goes on around it. *)
sdk_thread ==
  \/ \E m \in Heads :
       \/ Read(m) \/ connect_impl(m) \/ disconnect_impl(m)
       \/ get_live_view_frame_impl(m) \/ set_parameter_impl(m)
       \/ get_parameters_impl(m) \/ capture_photo_impl(m) \/ Teardown(m)
  \/ DropLost
  \/ download_dir_item
  \/ CaptureTimesOut

CanonAround ==
  /\ \/ \E c \in Callers, op \in CanonCalls, d \in Devices : Call(c, op, d)
     \/ CallShutdown
     \/ DropBackend
     \/ \E d \in Devices : PlugIn(d) \/ PullOut(d)
  /\ UNCHANGED canonVars

CanonEvents ==
  \E d \in Devices :
    \/ object_event_callback(d) \/ state_event_callback(d)
    \/ LiveViewFollows(d) \/ FallsToFit(d)

CanonNext == sdk_thread \/ CanonAround \/ CanonEvents

CanonSpec == SdkInit /\ CanonInit /\ [][CanonNext]_<<sdkVars, canonVars>>

(* The SDK tells of a body that is gone. *)
TellsOfGone(d) == d \notin present /\ state_event_callback(d)

(* No body is held open for a session that nobody can name any more. *)
NoLeak == held \subseteq open

(* What an answer says of the zoom, from a frame that may be old or from the *)
(* cache.  Fit is never reported of a body that magnifies: the user would    *)
(* judge the focus of a whole picture by a part of it.  And the level is the *)
(* true one once the live view shows it, of a body that is where it was last *)
(* asked to be.  (A body that fell back to Fit, or a session opened after    *)
(* one that was lost while it magnified, is reported at the cached level.)  *)
ZoomIsTrue ==
  zoomShown # None =>
    LET d == zoomShown.dev
    IN  /\ zoomShown.level = Fit => zoom[d] = Fit
        /\ evfZoom[d] = zoom[d] /\ zoomCache[d] \in {None, zoom[d]} =>
             zoomShown.level = zoom[d]
=============================================================================
