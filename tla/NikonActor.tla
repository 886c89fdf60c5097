----------------------------- MODULE NikonActor -----------------------------
(***************************************************************************)
(* The nikon-sdk thread and the methods that feed it: an SDK that drives    *)
(* one body, is initialised late and may fail to, pushes live view frames   *)
(* from threads of its own, and keeps a body open that left the bus.       *)
(***************************************************************************)
EXTENDS SdkThread

CONSTANTS
  StallLimit, \* LV_STALL_LIMIT
  MaxPosts    \* bound: fire-and-forget commands sent while others wait

VARIABLES
  sdk,       \* the SDK is loaded and initialised
  ready,     \* what list_devices knows of that
  warming,   \* a background warm-up was sent
  cached,    \* the bodies of the last enumeration
  listing,   \* the bodies in the answer of the last command
  lvRunning, \* live_view_running of the session
  lvPushed,  \* the SDK delivers frames of the body it holds
  stall,     \* lv_stall of the session
  frame,     \* LATEST_LV_FRAME: of which body, and whether it is recent
  files,     \* the exposures in the capture directory, oldest first
  path       \* LAST_SAVED_PATH: which exposure it names

nikonVars ==
  <<sdk, ready, warming, cached, listing, lvRunning, lvPushed, stall, frame, files, path>>
lvVars == <<lvRunning, lvPushed, stall, frame>>
listVars == <<warming, cached>>

(* "Read" stands for IsConnected, GetParameters and SetParameter. *)
NikonCalls ==
  {"Read", "Connect", "Disconnect", "GetLiveViewFrame", "CapturePhoto"}
NikonOps ==
  NikonCalls \cup {"ListDevices", "Warmup", "UsbGone", "PrepareExit", "Shutdown"}

NikonTypeOK ==
  /\ SdkTypeOK(NikonOps)
  /\ {sdk, ready, warming, lvRunning, lvPushed} \subseteq BOOLEAN
  /\ cached \subseteq Devices
  /\ listing \in (SUBSET Devices) \cup {None}
  /\ stall \in 0..StallLimit
  /\ frame \in [from : Devices, recent : BOOLEAN] \cup {None}
  /\ files \in Seq(Shots)
  /\ path \in Shots \cup {None}

NikonInit ==
  /\ sdk = FALSE
  /\ ready = FALSE
  /\ warming = FALSE
  /\ cached = {}
  /\ listing = None
  /\ lvRunning = FALSE
  /\ lvPushed = FALSE
  /\ stall = 0
  /\ frame = None
  /\ files = <<>>
  /\ path = None

-----------------------------------------------------------------------------
(* Callbacks of the SDK, on its threads. *)

(* Mutant of live_view_data_proc: every delivery counts as a new frame. *)
RepeatsAreFresh(d) ==
  /\ d \in held
  /\ lvPushed
  /\ frame' = [from |-> d, recent |-> TRUE]
  /\ UNCHANGED <<sdkVars, sdk, ready, listVars, listing, lvRunning, lvPushed, stall, files, path>>

(* A body that left has its last buffer delivered again and again, which is *)
(* recent only for a slot that has been emptied since.                     *)
live_view_data_proc(d) ==
  /\ d \in held
  /\ lvPushed
  /\ d \in present \/ frame = None
  /\ frame' = [from |-> d, recent |-> TRUE]
  /\ UNCHANGED <<sdkVars, sdk, ready, listVars, listing, lvRunning, lvPushed, stall, files, path>>

(* The newest frame is young enough to be shown. *)
Recent == frame # None /\ frame.recent

(* LV_FRAME_STALE_AFTER has passed. *)
FrameAges ==
  /\ Recent
  /\ frame' = [frame EXCEPT !.recent = FALSE]
  /\ UNCHANGED <<sdkVars, sdk, ready, listVars, listing, lvRunning, lvPushed, stall, files, path>>

(* An image is saved; Windows does not say where. *)
event_proc(d) ==
  /\ d \in held
  /\ \E shot \in Shots :
       /\ Announces(d, shot)
       /\ files' = Append(files, shot)
       /\ path' \in {path, shot}
  /\ UNCHANGED <<present, open, held, inbox, waiting, work, thread, photo, asked>>
  /\ UNCHANGED <<sdk, ready, listVars, listing, lvVars>>

-----------------------------------------------------------------------------
(* The methods. *)

(* Mutant of nikon_usb_present: a scan that failed found none. *)
FailedScanIsEmpty(answer) == answer \in {present # {}, FALSE}

(* A Nikon is on the bus, or the scan failed. *)
nikon_usb_present(answer) == answer \in {present # {}, TRUE}

Posts(op) ==
  /\ Len(inbox) < MaxPosts
  /\ Post(op)
  /\ UNCHANGED <<present, open, held, waiting, work, thread, photo, album, asked>>

list_devices(c) ==
  /\ c \notin waiting
  /\ asked # "drop"
  /\ \E answer \in BOOLEAN :
       /\ nikon_usb_present(answer)
       /\ \/ ~answer /\ Posts("UsbGone") /\ UNCHANGED warming
          \/ /\ answer /\ ~ready /\ ~warming
             /\ warming' = TRUE
             /\ Posts("Warmup")
          \/ answer /\ ready /\ Call(c, "ListDevices", None) /\ UNCHANGED warming
  /\ UNCHANGED <<sdk, ready, cached, listing, lvVars, files, path>>

-----------------------------------------------------------------------------
(* The thread. *)

(* No session any more, and nothing said to the SDK. *)
reset_session_state ==
  /\ open' = {}
  /\ frame' = None
  /\ stall' = 0
  /\ lvRunning' = FALSE

(* The SDK is asked for and cannot be initialised: the command fails. *)
sdk_fails(m) ==
  /\ ~sdk
  /\ Takes(m, NikonCalls \cup {"ListDevices"})
  /\ Reply(m)
  /\ photo' = None
  /\ listing' = None
  /\ SessionsStay
  /\ UNCHANGED <<sdk, ready, listVars, lvVars, files, path>>

ensure_sdk(m, ops) ==
  /\ Takes(m, ops)
  /\ sdk' = TRUE
  /\ ready' = TRUE
  /\ UNCHANGED warming

(* The bus is probed only while no session is open, and then if the last    *)
(* answer is empty or older than 15 s.                                     *)
ListDevices(m) ==
  /\ ensure_sdk(m, {"ListDevices"})
  /\ \/ open = {} /\ cached' = present /\ listing' = cached'
     \/ open = {} /\ listing' = None /\ UNCHANGED cached
     \/ (open # {} \/ cached # {}) /\ listing' = cached /\ UNCHANGED cached
  /\ Reply(m)
  /\ photo' = None
  /\ SessionsStay
  /\ UNCHANGED <<lvVars, files, path>>

Read(m) ==
  /\ Takes(m, {"Read"})
  /\ sdk' \in {sdk, TRUE}
  /\ ready' = sdk'
  /\ Reply(m)
  /\ photo' = None
  /\ listing' = None
  /\ SessionsStay
  /\ UNCHANGED <<listVars, lvVars, files, path>>

(* The body that is open is open already, and another one is refused. *)
connect_impl(m) ==
  /\ ensure_sdk(m, {"Connect"})
  /\ \/ /\ open = {}
        /\ m.dev \in present
        /\ open' = {m.dev}
        /\ held' = {m.dev}
        /\ lvRunning' = FALSE
        /\ stall' = 0
     \/ UNCHANGED <<open, held, lvRunning, stall>>
  /\ Reply(m)
  /\ photo' = None
  /\ listing' = None
  /\ ThreadStays
  /\ UNCHANGED <<cached, lvPushed, frame, files, path>>

(* The session ends even if DisconnectDevice fails, and the next listing    *)
(* probes even if there was none.                                          *)
disconnect_impl(m) ==
  /\ ensure_sdk(m, {"Disconnect"})
  /\ \/ /\ m.dev \in open
        /\ reset_session_state
        /\ held' \in {held, {}}
        /\ lvPushed' = FALSE
     \/ m.dev \notin open /\ UNCHANGED <<open, held, lvVars>>
  /\ cached' = {}
  /\ Reply(m)
  /\ photo' = None
  /\ listing' = None
  /\ ThreadStays
  /\ UNCHANGED <<files, path>>

(* A body that is there accepts, after some retries, or does not. *)
start_live_view(d) ==
  /\ d \in present \/ lvRunning
  /\ lvRunning' = TRUE
  /\ lvPushed' = TRUE

(* A recent frame, or one poll more without: too many of those in a row and *)
(* the body is taken for gone.                                             *)
get_live_view_frame_impl(m) ==
  /\ ensure_sdk(m, {"GetLiveViewFrame"})
  /\ \/ /\ m.dev \in open
        /\ Recent
        /\ start_live_view(m.dev)
        /\ stall' = 0
        /\ photo' = [dev |-> m.dev, shot |-> IF frame.from = m.dev THEN "own" ELSE "late"]
        /\ UNCHANGED <<open, frame>>
     \/ /\ m.dev \in open
        /\ ~Recent
        /\ start_live_view(m.dev)
        /\ stall + 1 < StallLimit
        /\ stall' = stall + 1
        /\ photo' = None
        /\ UNCHANGED <<open, frame>>
     \/ /\ m.dev \in open
        /\ ~Recent
        /\ m.dev \in present \/ lvRunning
        /\ stall + 1 >= StallLimit
        /\ reset_session_state
        /\ lvPushed' = TRUE
        /\ photo' = None
     \/ /\ m.dev \notin open \/ ~lvRunning
        /\ photo' = None
        /\ UNCHANGED <<open, lvVars>>
  /\ Reply(m)
  /\ listing' = None
  /\ ThreadStays
  /\ UNCHANGED <<held, cached, files, path>>

(* The directory and the path are emptied before the release. *)
capture_photo_impl(m) ==
  /\ ensure_sdk(m, {"CapturePhoto"})
  /\ \/ /\ m.dev \in open
        /\ files' = <<>>
        /\ path' = None
        /\ Exposes(m)
     \/ /\ files' = IF m.dev \in open THEN <<>> ELSE files
        /\ path' = IF m.dev \in open THEN None ELSE path
        /\ Reply(m)
        /\ UNCHANGED <<work, album>>
  /\ photo' = None
  /\ listing' = None
  /\ UNCHANGED <<present, open, held, thread, asked, cached, lvVars>>

Saved == {files[i] : i \in DOMAIN files}

(* Which file it is: the one that ImageSaved named, or the newest. *)
resolve_capture_file ==
  IF path \in Saved THEN {i \in DOMAIN files : files[i] = path} ELSE {Len(files)}

(* The file is read and removed; it may turn out to be no JPEG. *)
CaptureEnds ==
  /\ work # None
  /\ files # <<>>
  /\ \E i \in resolve_capture_file :
       /\ files' = SubSeq(files, 1, i - 1) \o SubSeq(files, i + 1, Len(files))
       /\ photo' \in {None, [dev |-> work.dev, shot |-> files[i]]}
  /\ EndCapture
  /\ UNCHANGED <<sdk, ready, listVars, listing, lvVars, path>>

CaptureTimesOut ==
  /\ work # None
  /\ files = <<>>
  /\ photo' = None
  /\ EndCapture
  /\ UNCHANGED nikonVars

Warmup(m) ==
  /\ Takes(m, {"Warmup"})
  /\ sdk' \in {sdk, TRUE}
  /\ ready' = sdk'
  /\ photo' = None
  /\ listing' = None
  /\ SessionsStay
  /\ UNCHANGED <<waiting, listVars, lvVars, files, path>>

(* The session is dropped, the SDK not told: it goes on holding the body. *)
UsbGone(m) ==
  /\ Takes(m, {"UsbGone"})
  /\ \/ open # {} /\ reset_session_state /\ cached' = {}
     \/ open = {} /\ UNCHANGED <<open, cached, lvRunning, stall, frame>>
  /\ ready' = sdk
  /\ photo' = None
  /\ listing' = None
  /\ ThreadStays
  /\ UNCHANGED <<held, waiting, sdk, warming, lvPushed, files, path>>

teardown_sdk(m) ==
  /\ Returns(m, {"PrepareExit", "Shutdown"})
  /\ sdk' = FALSE
  /\ lvPushed' = FALSE
  /\ listing' = None
  /\ UNCHANGED <<ready, listVars, lvRunning, stall, frame, files, path>>

-----------------------------------------------------------------------------
sdk_thread ==
  \/ \E m \in Heads :
       \/ sdk_fails(m) \/ ListDevices(m) \/ Read(m) \/ connect_impl(m)
       \/ disconnect_impl(m) \/ get_live_view_frame_impl(m)
       \/ capture_photo_impl(m) \/ Warmup(m) \/ UsbGone(m) \/ teardown_sdk(m)
  \/ CaptureEnds
  \/ CaptureTimesOut

(* A live view asks again and again. *)
Poll(c, d) == Call(c, "GetLiveViewFrame", d) /\ UNCHANGED nikonVars

NikonAround ==
  \/ /\ \/ \E c \in Callers, op \in NikonCalls, d \in Devices : Call(c, op, d)
        \/ CallShutdown
        \/ DropBackend
        \/ \E d \in Devices : PlugIn(d) \/ PullOut(d)
     /\ UNCHANGED nikonVars
  \/ \E c \in Callers : list_devices(c)

NikonEvents ==
  \/ \E d \in Devices : live_view_data_proc(d) \/ event_proc(d)
  \/ FrameAges

NikonNext == sdk_thread \/ NikonAround \/ NikonEvents

NikonSpec == SdkInit /\ NikonInit /\ [][NikonNext]_<<sdkVars, nikonVars>>

=============================================================================
