------------------------------ MODULE MCBackends ------------------------------
(***************************************************************************)
(* The backends without a vendor's SDK for TLC: the first state chooses one, *)
(* or one question about it; the variables of the others stay as they begin. *)
(***************************************************************************)
EXTENDS RemoteBackend, PixelMaps

CONSTANTS
  u, c1, k1, t1,                           \* of the remote backend
  Pictures, MaxParts, MaxChunk,            \* of MjpegStream
  Sizes, Orientations, Phones, MaxShots,   \* of Camera2Actor
  Callers, MaxHandles,                     \* of GPhotoSessions
  Best, Fallback, MaxReads,          \* of WebcamLinux
  Native, MaxSinks                         \* of WebcamWindows

VARIABLES
  backend,
  \* of MjpegStream
  wire, buf, sent, got,
  \* of Camera2Actor
  phone, device, actor, session, preview, slot, busy, shots, job, out, refused, lost,
  \* of GPhotoSessions
  plugged, drives, entry, opened, handles, pinging, verdict, slipped,
  \* of WebcamLinux
  driver, webcam, connects, reading, frame, failed, overlapped,
  \* of WebcamWindows
  thread, attached, mf, reader, ds, sink, answer

MCPeerOf == [c \in Cameras |-> u]

(* The large size of a phone is oblong, the small one square. *)
MCSizes == <<<<4, 3>>, <<3, 3>>>>

BackOf(hal) == [sensor |-> 90, front |-> FALSE, jpeg |-> TRUE, hal |-> hal]

MCPhones ==
  {BackOf("turns"), BackOf("tags"), BackOf("ignores"),
   [sensor |-> 270, front |-> TRUE, jpeg |-> FALSE, hal |-> "tags"]}

(* The largest size is not compressed, the small one in two ways. *)
MCNative ==
  {[res |-> 2, codec |-> "yuy2"], [res |-> 1, codec |-> "mjpeg"],
   [res |-> 1, codec |-> "nv12"]}

(* An empty picture, one of a byte, and one that looks like an empty line. *)
MCPictures ==
  {<<>>, <<<<"byte", 0>>>>, <<<<"CR", 0>>, <<"LF", 0>>, <<"CR", 0>>, <<"LF", 0>>>>}

Stream == INSTANCE MjpegStream WITH Bodies <- Pictures
Camera2 == INSTANCE Camera2Actor WITH Bodies <- Phones, body <- phone
GPhoto == INSTANCE GPhotoSessions WITH call <- handles
Linux == INSTANCE WebcamLinux WITH device <- webcam, call <- connects
Windows == INSTANCE WebcamWindows WITH plugged <- attached

(* The peer that a server has added, and its token. *)
ASSUME PeerIsKnown == u \in Urls /\ t1 \in Tokens /\ MaxPeers >= 1

(* A camera is mounted at a quarter turn; what it does with an angle. *)
Backs ==
  [sensor : Camera2!QuarterTurns, front : BOOLEAN, jpeg : BOOLEAN,
   hal : {"turns", "tags", "ignores"}]

ASSUME PhoneAssumption ==
  /\ Phones \subseteq Backs
  /\ 1 \in DOMAIN Sizes
  /\ MaxShots \in Nat
  /\ None \notin Camera2!Exposures

(* A picture is a sequence of bytes, whatever they are. *)
Bytes == UNION {{p[i] : i \in DOMAIN p} : p \in Pictures}

ASSUME StreamAssumption ==
  Pictures \subseteq Seq(Bytes) /\ MaxParts \in Nat /\ MaxChunk \in Nat

ASSUME GPhotoAssumption == MaxHandles \in Nat

(* A caller is not the table of sessions, and "nothing" is neither. *)
ASSUME LinuxAssumption ==
  /\ MaxReads \in Nat
  /\ "table" \notin Callers
  /\ None \notin Callers \cup {"table"} \cup Linux!Session

(* The device offers a format that can be read. *)
ASSUME WindowsAssumption ==
  Windows!select_best_format \in Windows!enumerate_video_formats /\ MaxSinks \in Nat

streamVars == <<wire, buf, sent, got>>
camera2Vars ==
  <<phone, device, actor, session, preview, slot, busy, shots, job, out, refused, lost>>
gphotoVars == <<plugged, drives, entry, opened, handles, pinging, verdict, slipped>>
linuxVars == <<driver, webcam, connects, reading, frame, failed, overlapped>>
windowsVars == <<thread, attached, mf, reader, ds, sink, answer>>
vars ==
  <<backend, remoteVars, pixelVars, streamVars, camera2Vars, gphotoVars, linuxVars,
    windowsVars>>

-----------------------------------------------------------------------------
(* The registry of a server that has added its peer. *)
Registered ==
  /\ peers = <<[id |-> 1, url |-> u, token |-> t1]>>
  /\ lastId = 1
  /\ adding = [a \in Adders |-> Idle]
  /\ wants = [url \in Urls \cup {Self} |-> t1]
  /\ accepted = {<<u, t1>>}

Init ==
  /\ backend \in {"peers", "calls", "relays", "stream", "pixels", "camera2", "gphoto2",
                 "linux", "windows"}
  /\ IF backend = "peers" THEN PeersInit ELSE Registered
  /\ RemoteInit /\ PixelsInit
  /\ backend # "pixels" => pixel = [row |-> 0, col |-> 0, w |-> 1, h |-> 1]
  /\ Stream!StreamInit
  /\ Camera2!Camera2Init
  /\ backend # "camera2" => phone = BackOf("turns")
  /\ GPhoto!GPhotoInit
  /\ backend # "gphoto2" => drives
  /\ Linux!WebcamInit
  /\ Windows!WindowsInit
  /\ backend # "windows" => attached = {}

Remotes(A) ==
  A /\ UNCHANGED <<backend, pixelVars, streamVars, camera2Vars, gphotoVars, linuxVars, windowsVars>>

TurnsOf(A) ==
  A /\ UNCHANGED <<backend, remoteVars, streamVars, camera2Vars, gphotoVars, linuxVars, windowsVars>>

Streams(A) ==
  A /\ UNCHANGED <<backend, remoteVars, pixelVars, camera2Vars, gphotoVars, linuxVars, windowsVars>>

Camera2s(A) ==
  A /\ UNCHANGED <<backend, remoteVars, pixelVars, streamVars, gphotoVars, linuxVars, windowsVars>>

GPhotos(A) ==
  A /\ UNCHANGED <<backend, remoteVars, pixelVars, streamVars, camera2Vars, linuxVars, windowsVars>>

Linuxes(A) ==
  A /\ UNCHANGED <<backend, remoteVars, pixelVars, streamVars, camera2Vars, gphotoVars, windowsVars>>

Windowses(A) ==
  A /\ UNCHANGED <<backend, remoteVars, pixelVars, streamVars, camera2Vars, gphotoVars, linuxVars>>

(* Two clients connect and disconnect, without a live view. *)
Calls ==
  /\ RemoteNext
  /\ relay' = relay /\ lastId' = lastId /\ adding' = adding

(* One client, whose answers come in time, whoever polls, and a peer that     *)
(* keeps its token and the cameras it has connected.                        *)
Polls ==
  /\ RemoteNext
  /\ \A k \in Clients \ {k1} : call'[k] = call[k]
  /\ strays' = strays /\ crossed' = crossed
  /\ lastId' = lastId /\ adding' = adding /\ wants' = wants

Next ==
  \/ backend = "peers" /\ Remotes(PeersNext /\ UNCHANGED remoteOnly)
  \/ backend = "calls" /\ Remotes(Calls)
  \/ backend = "relays" /\ Remotes(Polls)
  \/ backend = "stream" /\ Streams(Stream!StreamNext)
  \/ backend = "pixels" /\ TurnsOf(PixelsNext)
  \/ backend = "camera2" /\ Camera2s(Camera2!Camera2Next)
  \/ backend = "gphoto2" /\ GPhotos(GPhoto!GPhotoNext)
  \/ backend = "linux" /\ Linuxes(Linux!WebcamNext)
  \/ backend = "windows" /\ Windowses(Windows!WindowsNext)

(* The task of a relay is scheduled, whatever its upstream does; the calls of *)
(* gphoto2 return, those of its keep-alive thread too.                      *)
Fairness ==
  /\ \A r \in 1..MaxRelays : WF_vars(r \in Relays /\ Remotes(RelayStep(r)))
  /\ WF_vars(GPhotos(GPhoto!Pinged))
  /\ \A c \in Callers : WF_vars(GPhotos(GPhoto!CallStep(c)))

Spec == Init /\ [][Next]_vars /\ Fairness

-----------------------------------------------------------------------------

(* Every variable keeps its type. *)
BackendsTypeOK ==
  /\ RemoteTypeOK
  /\ Stream!StreamTypeOK
  /\ Camera2!Camera2TypeOK
  /\ GPhoto!GPhotoTypeOK
  /\ Linux!WebcamTypeOK
  /\ Windows!WindowsTypeOK

(* The pictures cut out of the stream of a peer are the pictures it sent. *)
PicturesAsSent == Stream!PicturesAsSent

(* A picture of a phone is turned once, whether the camera turned it, wrote *)
(* a tag or ignored the request, and its pixels go where the turn says.     *)
PicturesAreUpright == Camera2!TurnedOnce /\ PixelsTurn

(* What a client is given is what it asked for: the photo of its own shot,  *)
(* exposed as the list shows, which the live view follows as far as it may;   *)
(* frames in the format the driver sends; of a body the focus it has, unless  *)
(* it slipped; and a camera that Media Foundation found dead is no longer     *)
(* connected, which nothing finds out of a DirectShow one.                  *)
AnswersAreTrue ==
  /\ Camera2!OwnPhoto /\ Camera2!ShownIsRunning
  /\ Linux!FramesAreWhole
  /\ Windows!ReadAsSent /\ Windows!DeadIsDropped
  /\ GPhoto!FocusIsNotLost

(* What interrupts a live view, a photo or another format, puts it back or    *)
(* has failed; and what a session held of the camera goes with the session.  *)
LiveViewComesBack ==
  /\ Camera2!LiveViewSurvives
  /\ Linux!StreamsUnlessFailed /\ Linux!BuffersComeBack
  /\ Windows!ConvertersEnd

(* What nobody uses is given back: the upstream of a relay that is not polled, *)
(* if the peer answers, sends or breaks off, and a body that was disconnected  *)
(* while handles of it were out.                                           *)
IdleIsReleased == IdleRelayEnds /\ GPhoto!BodyIsReleased

=============================================================================
