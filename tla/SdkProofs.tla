------------------------------- MODULE SdkProofs -------------------------------
(***************************************************************************)
(* Theorems about the threads of the vendors' SDKs and about MCSdk, for any  *)
(* number of bodies and callers, any limits and any commands in flight.     *)
(***************************************************************************)
EXTENDS MCSdk, FiniteSetTheorems, SequenceTheorems, TLAPS

(* A step of the contract, or none of its variables moves. *)
Keeps == [Contract!ContractNext /\ thread = "runs"]_Contract!contractVars

USE DEF Contract!ContractNext, Contract!Connects, Contract!Loses, Contract!Serves,
    Contract!Ends, Contract!contractVars

-----------------------------------------------------------------------------
(* The thread of Canon. *)

(* What is sent: the calls are about a body, the rest about none. *)
CanonSent ==
    [op : Canon!CanonCalls, dev : Devices, from : Callers]
      \cup [op : {"PrepareExit", "Shutdown"}, dev : {None}, from : {None}]

(* A capture under way is of an open session, which nothing can end before
   the capture is answered; the slot was emptied when it began. *)
CanonCaptureInv ==
    work # None => thread = "runs" /\ work.dev \in open /\ (pending = None \/ pending # "stale")

CanonInv ==
    /\ inbox \in Seq(CanonSent)
    /\ open \subseteq Devices
    /\ album \in [Devices -> SUBSET {"own", "late"}]
    /\ Canon!NoLeak
    /\ CanonCaptureInv
    /\ NoStalePhoto

canonState == <<Canon!sdkVars, Canon!canonVars>>

-----------------------------------------------------------------------------
(* A command that calls for an operation of the backend names its body. *)
LEMMA CanonHeadIsSent ==
    ASSUME CanonInv, NEW m \in Canon!Heads
    PROVE  /\ m \in CanonSent
           /\ Tail(inbox) \in Seq(CanonSent)
           /\ m.op \in Canon!CanonCalls => m.dev \in Devices
<1>1. inbox # <<>> /\ m = Head(inbox)
  BY DEF Canon!Heads
<1>2. m \in CanonSent /\ Tail(inbox) \in Seq(CanonSent)
  BY <1>1 DEF CanonInv
<1> QED BY <1>2 DEF CanonSent, Canon!CanonCalls

(* Callers and the exits of the process: the queue grows. *)
LEMMA CanonAroundStep ==
    ASSUME CanonInv, Canon!CanonAround
    PROVE  CanonInv' /\ Keeps
<1>1. ASSUME NEW c \in Callers, NEW op \in Canon!CanonCalls, NEW d \in Devices, Canon!Call(c, op, d)
      PROVE  inbox' \in Seq(CanonSent)
  BY <1>1 DEF CanonInv, Canon!Call, CanonSent
<1>2. ASSUME NEW op \in {"PrepareExit", "Shutdown"}, Canon!Post(op)
      PROVE  inbox' \in Seq(CanonSent)
  BY <1>2 DEF CanonInv, Canon!Post, CanonSent
<1>3. inbox' \in Seq(CanonSent)
  BY <1>1, <1>2 DEF Canon!CanonAround, Canon!CallShutdown, Canon!DropBackend, Canon!PlugIn,
     Canon!PullOut, CanonInv
<1>4. UNCHANGED <<open, held, work, thread, photo, album, pending>>
  BY DEF Canon!CanonAround, Canon!Call, Canon!CallShutdown, Canon!DropBackend, Canon!PlugIn,
     Canon!PullOut, Canon!canonVars
<1> QED
  BY <1>3, <1>4 DEF CanonInv, Canon!NoLeak, CanonCaptureInv, NoStalePhoto, Keeps

(* Events: a capture that waits is told of its own exposure or of an earlier
   one, never of an image announced before. *)
LEMMA CanonEventStep ==
    ASSUME CanonInv, Canon!CanonEvents
    PROVE  CanonInv' /\ Keeps
<1>1. ASSUME NEW d \in Devices, Canon!object_event_callback(d)
      PROVE  CanonInv' /\ Keeps
  <2>1. PICK shot \in Canon!Shots : Canon!Announces(d, shot) /\ pending' = shot
    BY <1>1 DEF Canon!object_event_callback
  <2>2. album' \in [Devices -> SUBSET {"own", "late"}]
    BY <2>1 DEF Canon!Announces, CanonInv
  <2>3. work # None => pending' # "stale"
    BY <2>1 DEF Canon!Announces, CanonInv
  <2> QED
    BY <1>1, <2>2, <2>3 DEF Canon!object_event_callback, CanonInv, Canon!NoLeak, CanonCaptureInv,
       NoStalePhoto, Keeps
<1>2. ASSUME NEW d \in Devices,
             Canon!state_event_callback(d) \/ Canon!LiveViewFollows(d) \/ Canon!FallsToFit(d)
      PROVE  CanonInv' /\ Keeps
  BY <1>2 DEF Canon!state_event_callback, Canon!LiveViewFollows, Canon!FallsToFit, Canon!sdkVars,
     CanonInv, Canon!NoLeak, CanonCaptureInv, NoStalePhoto, Keeps
<1> QED BY <1>1, <1>2 DEF Canon!CanonEvents

(* Commands: each is a step of the contract. *)
LEMMA CanonCommandStep ==
    ASSUME CanonInv, NEW m \in Canon!Heads,
           \/ Canon!Read(m) \/ Canon!connect_impl(m) \/ Canon!disconnect_impl(m)
           \/ Canon!get_live_view_frame_impl(m) \/ Canon!set_parameter_impl(m)
           \/ Canon!get_parameters_impl(m) \/ Canon!capture_photo_impl(m) \/ Canon!Teardown(m)
    PROVE  CanonInv' /\ Keeps
<1> USE CanonHeadIsSent DEF CanonInv, Canon!NoLeak, CanonCaptureInv, NoStalePhoto, Keeps,
    Canon!Receive, Canon!Takes, Canon!Ready, Canon!ThreadStays, Canon!SessionsStay,
    Canon!CanonCalls
<1>1. CASE Canon!Read(m)
  BY <1>1 DEF Canon!Read
<1>2. CASE Canon!connect_impl(m)
  <2>1. m.dev \in Devices /\ inbox' \in Seq(CanonSent)
    BY <1>2 DEF Canon!connect_impl
  <2>2. CASE open' = open \cup {m.dev} /\ held' = held \cup {m.dev}
    BY <1>2, <2>1, <2>2 DEF Canon!connect_impl
  <2>3. CASE open' = open \ {m.dev} /\ held' = held \ {m.dev}
    BY <1>2, <2>1, <2>3 DEF Canon!connect_impl
  <2> QED BY <1>2, <2>2, <2>3 DEF Canon!connect_impl, Canon!OpenSession
<1>3. CASE Canon!disconnect_impl(m)
  BY <1>3 DEF Canon!disconnect_impl
<1>4. CASE Canon!get_live_view_frame_impl(m)
  <2>1. m.dev \in Devices /\ inbox' \in Seq(CanonSent)
    BY <1>4 DEF Canon!get_live_view_frame_impl
  <2>2. CASE photo' = None
    BY <1>4, <2>1, <2>2 DEF Canon!get_live_view_frame_impl
  <2>3. CASE photo' # None
    BY <1>4, <2>1, <2>3 DEF Canon!get_live_view_frame_impl
  <2> QED BY <2>2, <2>3
<1>5. CASE Canon!set_parameter_impl(m)
  BY <1>5 DEF Canon!set_parameter_impl
<1>6. CASE Canon!get_parameters_impl(m)
  BY <1>6 DEF Canon!get_parameters_impl
<1>7. CASE Canon!capture_photo_impl(m)
  <2>1. m.dev \in Devices /\ inbox' \in Seq(CanonSent)
    BY <1>7 DEF Canon!capture_photo_impl
  <2>2. CASE m.dev \in open /\ Canon!Exposes(m)
    BY <1>7, <2>1, <2>2 DEF Canon!capture_photo_impl, Canon!Exposes
  <2>3. CASE UNCHANGED <<work, album>>
    BY <1>7, <2>1, <2>3 DEF Canon!capture_photo_impl
  <2> QED BY <1>7, <2>2, <2>3 DEF Canon!capture_photo_impl
<1>8. CASE Canon!Teardown(m)
  <2>1. inbox' \in Seq(CanonSent)
    BY <1>8 DEF Canon!Teardown, Canon!Returns
  <2> QED
    BY <1>8, <2>1 DEF Canon!Teardown, Canon!Returns
<1> QED BY <1>1, <1>2, <1>3, <1>4, <1>5, <1>6, <1>7, <1>8

(* What the thread does by itself: it forgets lost bodies, and answers the
   capture it is in the middle of. *)
LEMMA CanonLoopStep ==
    ASSUME CanonInv, Canon!DropLost \/ Canon!download_dir_item \/ Canon!CaptureTimesOut
    PROVE  CanonInv' /\ Keeps
<1> USE DEF CanonInv, Canon!NoLeak, CanonCaptureInv, NoStalePhoto, Keeps, Canon!Ready,
    Canon!EndCapture, Canon!Reply
<1>1. CASE Canon!DropLost
  BY <1>1 DEF Canon!DropLost
<1>2. CASE Canon!download_dir_item
  <2>1. album' \in [Devices -> SUBSET {"own", "late"}]
    BY <1>2 DEF Canon!download_dir_item
  <2>2. CASE photo' = None
    BY <1>2, <2>1, <2>2 DEF Canon!download_dir_item
  <2>3. CASE photo' # None
    BY <1>2, <2>1, <2>3 DEF Canon!download_dir_item
  <2> QED BY <2>2, <2>3
<1>3. CASE Canon!CaptureTimesOut
  <2>1. album' \in [Devices -> SUBSET {"own", "late"}]
    BY <1>3 DEF Canon!CaptureTimesOut
  <2> QED BY <1>3, <2>1 DEF Canon!CaptureTimesOut, Canon!canonVars
<1> QED BY <1>1, <1>2, <1>3

LEMMA CanonStep ==
    ASSUME CanonInv, [Canon!CanonNext]_canonState
    PROVE  CanonInv' /\ Keeps
<1>1. CASE Canon!CanonNext
  BY <1>1, CanonAroundStep, CanonEventStep, CanonCommandStep, CanonLoopStep DEF Canon!CanonNext,
     Canon!sdk_thread
<1>2. CASE UNCHANGED canonState
  BY <1>2 DEF canonState, Canon!sdkVars, Canon!canonVars, CanonInv, Canon!NoLeak, CanonCaptureInv,
     NoStalePhoto, Keeps
<1> QED BY <1>1, <1>2

LEMMA CanonStarts ==
    ASSUME Canon!SdkInit, Canon!CanonInit
    PROVE  CanonInv /\ Contract!ContractInit
<1>1. inbox \in Seq(CanonSent)
  BY DEF Canon!SdkInit
<1> QED
  BY <1>1 DEF Canon!SdkInit, Canon!CanonInit, CanonInv, Canon!NoLeak, CanonCaptureInv, NoStalePhoto,
     Contract!ContractInit

-----------------------------------------------------------------------------
LEMMA CanonInvariant == Canon!CanonSpec => []CanonInv
<1>1. Canon!CanonSpec => CanonInv
  BY CanonStarts DEF Canon!CanonSpec
<1>2. CanonInv /\ [Canon!CanonNext]_canonState => CanonInv'
  BY CanonStep
<1> QED BY <1>1, <1>2, PTL DEF Canon!CanonSpec, canonState

(* The thread of the Canon SDK implements the contract of the backends:
   sessions open one at a time and on a body that is really open, a picture is
   of an open session, and an ended thread changes nothing. *)
THEOREM CanonKeepsContract == Canon!CanonSpec => ContractSpec
<1>1. Canon!CanonSpec => Contract!ContractInit
  BY CanonStarts DEF Canon!CanonSpec
<1>2. CanonInv /\ [Canon!CanonNext]_canonState => Keeps
  BY CanonStep
<1> QED
  BY <1>1, <1>2, CanonInvariant, PTL DEF Canon!CanonSpec, canonState, Keeps, ContractSpec,
     Contract!ContractSpec

(* A capture is never answered with an image that was announced before it
   began, however late the images of earlier captures come. *)
THEOREM CanonPhotoIsNotStale == Canon!CanonSpec => []NoStalePhoto
<1>1. CanonInv => NoStalePhoto
  BY DEF CanonInv
<1> QED BY <1>1, CanonInvariant, PTL

(* Every body the SDK holds open has an entry in the table: a connect that
   fails half-way and a body that leaves close what they opened. *)
THEOREM CanonHoldsWhatIsOpen == Canon!CanonSpec => []Canon!NoLeak
<1>1. CanonInv => Canon!NoLeak
  BY DEF CanonInv
<1> QED BY <1>1, CanonInvariant, PTL

(* A session starts unmagnified and the cache follows what clients set, so
   "no level" or Fit in the cache of an open body is the truth, whatever the
   live view shows. *)
ZoomInv ==
    /\ \A d \in open : zoomCache[d] \in {None, Canon!Fit} => zoom[d] = Canon!Fit
    /\ Canon!ZoomIsTrue

-----------------------------------------------------------------------------
(* What is sent is a command of the thread. *)
LEMMA SentIsCommand ==
    ASSUME inbox \in Seq(CanonSent)
    PROVE  inbox \in Seq(Canon!Command(Canon!CanonOps))
<1>1. CanonSent \subseteq Canon!Command(Canon!CanonOps)
  BY DEF CanonSent, Canon!Command, Canon!CanonOps
<1> QED BY <1>1

(* The parts of the type that the invariant does not hold already. *)
CanonRest ==
    /\ present \subseteq Devices
    /\ waiting \subseteq Callers
    /\ work \in Canon!Command(Canon!CanonOps) \cup {None}
    /\ thread \in {"runs", "ended"}
    /\ photo \in Canon!Picture \cup {None}
    /\ asked \in {"no", "exit", "drop"}
    /\ lost \subseteq Devices
    /\ pending \in Canon!Shots \cup {None}
    /\ zoom \in [Devices -> Canon!Zooms]
    /\ evfZoom \in [Devices -> Canon!Zooms]
    /\ zoomCache \in [Devices -> Canon!Zooms \cup {None}]
    /\ zoomShown \in [dev : Devices, level : Canon!Zooms] \cup {None}

LEMMA CanonTypesAre == CanonInv => (Canon!CanonTypeOK <=> CanonRest)
BY SentIsCommand DEF CanonInv, Canon!NoLeak, Canon!CanonTypeOK, Canon!SdkTypeOK, CanonRest

LEMMA CanonAroundTypes ==
    ASSUME CanonInv, CanonRest, ZoomInv, Canon!CanonAround
    PROVE  CanonRest' /\ ZoomInv'
<1> USE DEF CanonRest, ZoomInv, Canon!ZoomIsTrue
<1>1. CASE \E c \in Callers, op \in Canon!CanonCalls, d \in Devices : Canon!Call(c, op, d)
  BY <1>1 DEF Canon!CanonAround, Canon!Call, Canon!canonVars
<1>2. CASE Canon!CallShutdown \/ Canon!DropBackend
  BY <1>2 DEF Canon!CanonAround, Canon!CallShutdown, Canon!DropBackend, Canon!canonVars
<1>3. CASE \E d \in Devices : Canon!PlugIn(d) \/ Canon!PullOut(d)
  BY <1>3 DEF Canon!CanonAround, Canon!PlugIn, Canon!PullOut, Canon!canonVars
<1> QED BY <1>1, <1>2, <1>3 DEF Canon!CanonAround

LEMMA CanonEventTypes ==
    ASSUME CanonInv, CanonRest, ZoomInv, Canon!CanonEvents
    PROVE  CanonRest' /\ ZoomInv'
<1> USE DEF CanonRest, ZoomInv, Canon!ZoomIsTrue, Canon!Zooms
<1>1. ASSUME NEW d \in Devices, Canon!object_event_callback(d) \/ Canon!state_event_callback(d)
      PROVE  CanonRest' /\ ZoomInv'
  BY <1>1 DEF Canon!object_event_callback, Canon!state_event_callback, Canon!sdkVars
<1>2. ASSUME NEW d \in Devices, Canon!LiveViewFollows(d) \/ Canon!FallsToFit(d)
      PROVE  CanonRest' /\ ZoomInv'
  <2>1. open \subseteq Devices
    BY DEF CanonInv
  <2> QED BY <1>2, <2>1 DEF Canon!LiveViewFollows, Canon!FallsToFit, Canon!sdkVars
<1> QED BY <1>1, <1>2 DEF Canon!CanonEvents

LEMMA LevelsAre ==
    ASSUME CanonRest, NEW d \in Devices
    PROVE  /\ zoom[d] \in Canon!Zooms /\ evfZoom[d] \in Canon!Zooms /\ Canon!Fit \in Canon!Zooms
           /\ zoomCache[d] \in Canon!Zooms \cup {None}
BY DEF CanonRest, Canon!Zooms

LEMMA CanonCommandTypes ==
    ASSUME CanonInv, CanonRest, ZoomInv, NEW m \in Canon!Heads,
           \/ Canon!Read(m) \/ Canon!connect_impl(m) \/ Canon!disconnect_impl(m)
           \/ Canon!get_live_view_frame_impl(m) \/ Canon!set_parameter_impl(m)
           \/ Canon!get_parameters_impl(m) \/ Canon!capture_photo_impl(m) \/ Canon!Teardown(m)
    PROVE  CanonRest' /\ ZoomInv'
<1>1. /\ m \in Canon!Command(Canon!CanonOps)
      /\ m.op \in Canon!CanonCalls => m.dev \in Devices
      /\ open \subseteq Devices
  BY CanonHeadIsSent DEF CanonSent, Canon!Command, Canon!CanonOps, CanonInv
<1> USE <1>1 DEF CanonRest, ZoomInv, Canon!ZoomIsTrue, Canon!Receive, Canon!Takes, Canon!Ready, Canon!Reply,
    Canon!ThreadStays, Canon!SessionsStay, Canon!CanonCalls
<1>2. CASE Canon!Read(m)
  BY <1>2 DEF Canon!Read
<1>3. CASE Canon!connect_impl(m)
  BY <1>3 DEF Canon!connect_impl, Canon!OpenSession, Canon!Zooms
<1>4. CASE Canon!disconnect_impl(m)
  BY <1>4 DEF Canon!disconnect_impl
<1>5. CASE Canon!get_live_view_frame_impl(m)
  BY <1>5 DEF Canon!get_live_view_frame_impl, Canon!Picture, Canon!Shots
<1>6. CASE Canon!set_parameter_impl(m)
  <2>1. UNCHANGED <<present, open, work, thread, asked, lost, pending>>
        /\ photo' = None /\ zoomShown' = None /\ waiting' \subseteq Callers
    BY <1>6 DEF Canon!set_parameter_impl
  <2>2. CASE UNCHANGED <<zoom, evfZoom, zoomCache>>
    BY <2>1, <2>2
  <2>3. ASSUME NEW z \in Canon!Zooms, m.dev \in open, Canon!SetZoom(m.dev, z)
        PROVE  CanonRest' /\ ZoomInv'
    <3>1. /\ zoom' = [zoom EXCEPT ![m.dev] = z] /\ zoom' \in [Devices -> Canon!Zooms]
          /\ zoomCache' = [zoomCache EXCEPT ![m.dev] = z]
          /\ zoomCache' \in [Devices -> Canon!Zooms \cup {None}]
          /\ evfZoom' \in [Devices -> Canon!Zooms]
      <4>1. evfZoom[m.dev] \in Canon!Zooms
        BY <1>1, <2>3, LevelsAre
      <4> QED BY <1>1, <2>3, <4>1 DEF Canon!SetZoom
    <3>2. \A d \in open : zoomCache'[d] \in {None, Canon!Fit} => zoom'[d] = Canon!Fit
      BY <1>1, <2>3, <3>1, ZoomAssumption
    <3> QED BY <2>1, <3>1, <3>2
  <2> QED BY <1>6, <2>2, <2>3 DEF Canon!set_parameter_impl
<1>7. CASE Canon!get_parameters_impl(m)
  <2>1. CASE m.dev \in open
    <3>1. PICK seen \in {None, evfZoom[m.dev]} :
            zoomShown' = [dev |-> m.dev, level |-> Canon!ZoomOf(m.dev, seen)]
      BY <1>7, <2>1 DEF Canon!get_parameters_impl
    <3>2. /\ zoom[m.dev] \in Canon!Zooms /\ evfZoom[m.dev] \in Canon!Zooms
          /\ Canon!Fit \in Canon!Zooms /\ zoomCache[m.dev] \in Canon!Zooms \cup {None}
      BY <2>1, <1>1, LevelsAre
    <3>3. Canon!ZoomOf(m.dev, seen) \in Canon!Zooms
      BY <3>1, <3>2 DEF Canon!ZoomOf
    <3>4. Canon!ZoomOf(m.dev, seen) = Canon!Fit => zoom[m.dev] = Canon!Fit
      BY <2>1, <3>1, <3>2 DEF Canon!ZoomOf
    <3>5. evfZoom[m.dev] = zoom[m.dev] /\ zoomCache[m.dev] \in {None, zoom[m.dev]} =>
            Canon!ZoomOf(m.dev, seen) = zoom[m.dev]
      BY <2>1, <3>1, <3>2 DEF Canon!ZoomOf
    <3> QED BY <1>7, <3>1, <3>3, <3>4, <3>5 DEF Canon!get_parameters_impl
  <2>2. CASE m.dev \notin open
    BY <1>7, <2>2 DEF Canon!get_parameters_impl
  <2> QED BY <2>1, <2>2
<1>8. CASE Canon!capture_photo_impl(m)
  BY <1>8 DEF Canon!capture_photo_impl, Canon!Exposes
<1>9. CASE Canon!Teardown(m)
  BY <1>9 DEF Canon!Teardown, Canon!Returns
<1> QED BY <1>2, <1>3, <1>4, <1>5, <1>6, <1>7, <1>8, <1>9

LEMMA CanonLoopTypes ==
    ASSUME CanonInv, CanonRest, ZoomInv, Canon!DropLost \/ Canon!download_dir_item \/ Canon!CaptureTimesOut
    PROVE  CanonRest' /\ ZoomInv'
<1> USE DEF CanonRest, ZoomInv, Canon!ZoomIsTrue, Canon!Ready, Canon!EndCapture, Canon!Reply
<1>1. CASE Canon!DropLost
  BY <1>1 DEF Canon!DropLost
<1>2. CASE Canon!download_dir_item
  <2>1. work.dev \in Devices
    BY <1>2 DEF Canon!download_dir_item, CanonInv, CanonCaptureInv
  <2> QED BY <1>2, <2>1 DEF Canon!download_dir_item, Canon!Picture
<1>3. CASE Canon!CaptureTimesOut
  BY <1>3 DEF Canon!CaptureTimesOut, Canon!canonVars
<1> QED BY <1>1, <1>2, <1>3

(* All that holds of the thread of the Canon SDK. *)
CanonAll == CanonInv /\ Canon!CanonTypeOK /\ ZoomInv

LEMMA CanonAllBegins ==
    ASSUME Canon!SdkInit, Canon!CanonInit
    PROVE  CanonAll /\ Contract!ContractInit
<1>1. CanonInv /\ Contract!ContractInit
  BY CanonStarts
<1>2. CanonRest /\ ZoomInv
  BY DEF Canon!SdkInit, Canon!CanonInit, CanonRest, ZoomInv, Canon!ZoomIsTrue, Canon!Zooms
<1> QED BY <1>1, <1>2, CanonTypesAre DEF CanonAll

LEMMA CanonAllStep ==
    ASSUME CanonAll, [Canon!CanonNext]_canonState
    PROVE  CanonAll' /\ Keeps
<1>1. CanonInv' /\ Keeps
  BY CanonStep DEF CanonAll
<1>2. CanonInv /\ CanonRest /\ ZoomInv
  BY CanonTypesAre DEF CanonAll
<1>3. CanonRest' /\ ZoomInv'
  <2>1. CASE Canon!CanonNext
    BY <1>2, <2>1, CanonAroundTypes, CanonEventTypes, CanonCommandTypes, CanonLoopTypes
       DEF Canon!CanonNext, Canon!sdk_thread
  <2>2. CASE UNCHANGED canonState
    BY <1>2, <2>2 DEF canonState, Canon!sdkVars, Canon!canonVars, CanonRest, ZoomInv,
       Canon!ZoomIsTrue
  <2> QED BY <2>1, <2>2
<1>4. Canon!CanonTypeOK'
  BY <1>1, <1>3, CanonTypesAre, PTL
<1> QED BY <1>1, <1>3, <1>4 DEF CanonAll

(* A session of the table ends when it was asked to, when the connect that
   replaces it fails, when the body is lost, or with the thread. *)
LEMMA CanonEndings ==
    ASSUME CanonInv, [Canon!CanonNext]_canonState, NEW d \in open \ open'
    PROVE  \/ thread' = "ended" \/ d \in lost
           \/ /\ inbox # <<>> /\ Head(inbox).dev = d
              /\ Head(inbox).op \in {"Disconnect", "Connect"}
<1>1. CASE Canon!CanonAround \/ Canon!CanonEvents \/ UNCHANGED canonState
  BY <1>1 DEF Canon!CanonAround, Canon!CanonEvents, Canon!Call, Canon!CallShutdown,
     Canon!DropBackend, Canon!PlugIn, Canon!PullOut, Canon!object_event_callback,
     Canon!state_event_callback, Canon!LiveViewFollows, Canon!FallsToFit, Canon!sdkVars, canonState
<1>2. ASSUME NEW m \in Canon!Heads,
             \/ Canon!Read(m) \/ Canon!connect_impl(m) \/ Canon!disconnect_impl(m)
             \/ Canon!get_live_view_frame_impl(m) \/ Canon!set_parameter_impl(m)
             \/ Canon!get_parameters_impl(m) \/ Canon!capture_photo_impl(m) \/ Canon!Teardown(m)
      PROVE  \/ thread' = "ended"
             \/ inbox # <<>> /\ Head(inbox).dev = d /\ Head(inbox).op \in {"Disconnect", "Connect"}
  <2>1. inbox # <<>> /\ m = Head(inbox)
    BY DEF Canon!Heads
  <2> QED
    BY <1>2, <2>1 DEF Canon!Read, Canon!connect_impl, Canon!OpenSession, Canon!disconnect_impl,
       Canon!get_live_view_frame_impl, Canon!set_parameter_impl, Canon!get_parameters_impl,
       Canon!capture_photo_impl, Canon!Teardown, Canon!Returns, Canon!SessionsStay, Canon!Receive,
       Canon!Takes
<1>3. CASE Canon!DropLost
  BY <1>3 DEF Canon!DropLost
<1>4. CASE Canon!download_dir_item \/ Canon!CaptureTimesOut
  BY <1>4 DEF Canon!download_dir_item, Canon!CaptureTimesOut, Canon!EndCapture
<1> QED BY <1>1, <1>2, <1>3, <1>4 DEF Canon!CanonNext, Canon!sdk_thread

-----------------------------------------------------------------------------
(* The thread of Nikon. *)

(* What is sent: the calls are about a body, the rest about none. *)
NikonSent ==
    [op : Nikon!NikonCalls, dev : Devices, from : Callers]
      \cup [op : {"ListDevices", "Warmup", "UsbGone", "PrepareExit", "Shutdown"},
            dev : {None}, from : Callers \cup {None}]

(* A capture under way is of an open session, which nothing can end before
   the capture is answered; since it began, only images of captures came. *)
NikonCaptureInv ==
    work # None =>
        /\ thread = "runs"
        /\ work.dev \in open
        /\ files \in Seq({"own", "late"})

NikonInv ==
    /\ inbox \in Seq(NikonSent)
    /\ open \subseteq Devices
    /\ album \in [Devices -> SUBSET {"own", "late"}]
    /\ NikonCaptureInv
    /\ NoStalePhoto

nikonState == <<Nikon!sdkVars, Nikon!nikonVars>>

-----------------------------------------------------------------------------
(* A command that calls for an operation of the backend names its body. *)
LEMMA NikonHeadIsSent ==
    ASSUME NikonInv, NEW m \in Nikon!Heads
    PROVE  /\ m \in NikonSent
           /\ Tail(inbox) \in Seq(NikonSent)
           /\ m.op \in Nikon!NikonCalls => m.dev \in Devices
<1>1. inbox # <<>> /\ m = Head(inbox)
  BY DEF Nikon!Heads
<1>2. m \in NikonSent /\ Tail(inbox) \in Seq(NikonSent)
  BY <1>1 DEF NikonInv
<1> QED BY <1>2 DEF NikonSent, Nikon!NikonCalls

(* Callers, the exits of the process and the commands nobody waits for: the
   queue grows. *)
LEMMA NikonAroundStep ==
    ASSUME NikonInv, Nikon!NikonAround
    PROVE  NikonInv' /\ Keeps
<1>1. ASSUME NEW c \in Callers, NEW op \in Nikon!NikonCalls, NEW d \in Devices, Nikon!Call(c, op, d)
      PROVE  inbox' \in Seq(NikonSent)
  BY <1>1 DEF NikonInv, Nikon!Call, NikonSent
<1>2. ASSUME NEW op \in {"Warmup", "UsbGone", "PrepareExit", "Shutdown"}, Nikon!Post(op)
      PROVE  inbox' \in Seq(NikonSent)
  BY <1>2 DEF NikonInv, Nikon!Post, NikonSent
<1>3. ASSUME NEW c \in Callers, Nikon!list_devices(c)
      PROVE  inbox' \in Seq(NikonSent)
  <2>1. CASE Nikon!Call(c, "ListDevices", None)
    BY <2>1 DEF NikonInv, Nikon!Call, NikonSent
  <2> QED BY <1>2, <1>3, <2>1 DEF Nikon!list_devices, Nikon!Posts
<1>4. inbox' \in Seq(NikonSent)
  BY <1>1, <1>2, <1>3 DEF Nikon!NikonAround, Nikon!CallShutdown, Nikon!DropBackend, Nikon!PlugIn,
     Nikon!PullOut, NikonInv
<1>5. UNCHANGED <<open, held, work, thread, photo, album, files>>
  BY DEF Nikon!NikonAround, Nikon!list_devices, Nikon!Posts, Nikon!Call, Nikon!CallShutdown,
     Nikon!DropBackend, Nikon!PlugIn, Nikon!PullOut, Nikon!nikonVars
<1> QED BY <1>4, <1>5 DEF NikonInv, NikonCaptureInv, NoStalePhoto, Keeps

(* Callbacks: the files of a capture that waits are of captures. *)
LEMMA NikonEventStep ==
    ASSUME NikonInv, Nikon!NikonEvents
    PROVE  NikonInv' /\ Keeps
<1> USE DEF NikonInv, NikonCaptureInv, NoStalePhoto, Keeps
<1>1. ASSUME NEW d \in Devices, Nikon!event_proc(d)
      PROVE  NikonInv' /\ Keeps
  <2>1. PICK shot \in Nikon!Shots : Nikon!Announces(d, shot) /\ files' = Append(files, shot)
    BY <1>1 DEF Nikon!event_proc
  <2>2. album' \in [Devices -> SUBSET {"own", "late"}]
    BY <2>1 DEF Nikon!Announces
  <2>3. work # None => shot \in {"own", "late"}
    BY <2>1 DEF Nikon!Announces
  <2>4. work # None => files' \in Seq({"own", "late"})
    BY <2>1, <2>3
  <2> QED BY <1>1, <2>2, <2>4 DEF Nikon!event_proc
<1>2. CASE Nikon!FrameAges \/ \E d \in Devices : Nikon!live_view_data_proc(d)
  BY <1>2 DEF Nikon!FrameAges, Nikon!live_view_data_proc, Nikon!sdkVars
<1> QED BY <1>1, <1>2 DEF Nikon!NikonEvents

(* Commands: each is a step of the contract. *)
LEMMA NikonCommandStep ==
    ASSUME NikonInv, NEW m \in Nikon!Heads,
           \/ Nikon!sdk_fails(m) \/ Nikon!ListDevices(m) \/ Nikon!Read(m) \/ Nikon!connect_impl(m)
           \/ Nikon!disconnect_impl(m) \/ Nikon!get_live_view_frame_impl(m)
           \/ Nikon!capture_photo_impl(m) \/ Nikon!Warmup(m) \/ Nikon!UsbGone(m) \/ Nikon!teardown_sdk(m)
    PROVE  NikonInv' /\ Keeps
<1> USE NikonHeadIsSent DEF NikonInv, NikonCaptureInv, NoStalePhoto, Keeps, Nikon!Takes,
    Nikon!Ready, Nikon!ThreadStays, Nikon!SessionsStay, Nikon!NikonCalls, Nikon!ensure_sdk,
    Nikon!lvVars
<1>1. CASE Nikon!sdk_fails(m) \/ Nikon!ListDevices(m) \/ Nikon!Read(m) \/ Nikon!Warmup(m)
  BY <1>1 DEF Nikon!sdk_fails, Nikon!ListDevices, Nikon!Read, Nikon!Warmup
<1>2. CASE Nikon!connect_impl(m)
  <2>1. m.dev \in Devices /\ inbox' \in Seq(NikonSent)
    BY <1>2 DEF Nikon!connect_impl
  <2>2. CASE open = {} /\ open' = {m.dev} /\ held' = {m.dev}
    BY <1>2, <2>1, <2>2 DEF Nikon!connect_impl
  <2>3. CASE UNCHANGED <<open, held>>
    BY <1>2, <2>1, <2>3 DEF Nikon!connect_impl
  <2> QED BY <1>2, <2>2, <2>3 DEF Nikon!connect_impl
<1>3. CASE Nikon!disconnect_impl(m)
  BY <1>3 DEF Nikon!disconnect_impl, Nikon!reset_session_state
<1>4. CASE Nikon!get_live_view_frame_impl(m)
  <2>1. m.dev \in Devices /\ inbox' \in Seq(NikonSent)
    BY <1>4 DEF Nikon!get_live_view_frame_impl
  <2>2. CASE photo' = None
    BY <1>4, <2>1, <2>2 DEF Nikon!get_live_view_frame_impl, Nikon!reset_session_state
  <2>3. CASE photo' # None
    BY <1>4, <2>1, <2>3 DEF Nikon!get_live_view_frame_impl
  <2> QED BY <2>2, <2>3
<1>5. CASE Nikon!capture_photo_impl(m)
  <2>1. m.dev \in Devices /\ inbox' \in Seq(NikonSent)
    BY <1>5 DEF Nikon!capture_photo_impl
  <2>2. CASE m.dev \in open /\ files' = <<>> /\ Nikon!Exposes(m)
    BY <1>5, <2>1, <2>2 DEF Nikon!capture_photo_impl, Nikon!Exposes
  <2>3. CASE UNCHANGED <<work, album>>
    BY <1>5, <2>1, <2>3 DEF Nikon!capture_photo_impl
  <2> QED BY <1>5, <2>2, <2>3 DEF Nikon!capture_photo_impl
<1>6. CASE Nikon!UsbGone(m)
  BY <1>6 DEF Nikon!UsbGone, Nikon!reset_session_state
<1>7. CASE Nikon!teardown_sdk(m)
  <2>1. inbox' \in Seq(NikonSent)
    BY <1>7 DEF Nikon!teardown_sdk, Nikon!Returns
  <2> QED BY <1>7, <2>1 DEF Nikon!teardown_sdk, Nikon!Returns
<1> QED BY <1>1, <1>2, <1>3, <1>4, <1>5, <1>6, <1>7

(* The answer of the capture the thread is in the middle of: the file that
   was named, if it is there, or the newest, and both are of a capture. *)
LEMMA CaptureStep ==
    ASSUME NikonInv, Nikon!CaptureEnds \/ Nikon!CaptureTimesOut
    PROVE  NikonInv' /\ Keeps
<1> USE DEF NikonInv, NikonCaptureInv, NoStalePhoto, Nikon!EndCapture
<1>1. work # None /\ Nikon!EndCapture
  BY DEF Nikon!CaptureEnds, Nikon!CaptureTimesOut
<1>2. album' \in [Devices -> SUBSET {"own", "late"}] /\ work.dev \in Devices
  BY <1>1
<1>3. CASE photo' = None
  BY <1>1, <1>2, <1>3 DEF Keeps
<1>4. CASE photo' # None
  <2>1. PICK i \in Nikon!resolve_capture_file :
          files # <<>> /\ photo' = [dev |-> work.dev, shot |-> files[i]]
    BY <1>4 DEF Nikon!CaptureEnds, Nikon!CaptureTimesOut
  <2>2. i \in 1..Len(files)
    BY <1>1, <2>1 DEF Nikon!resolve_capture_file
  <2>3. files[i] # "stale"
    BY <1>1, <2>2
  <2> QED BY <1>1, <1>2, <1>4, <2>1, <2>3 DEF Keeps
<1> QED BY <1>3, <1>4

LEMMA NikonStep ==
    ASSUME NikonInv, [Nikon!NikonNext]_nikonState
    PROVE  NikonInv' /\ Keeps
<1>1. CASE Nikon!NikonNext
  BY <1>1, NikonAroundStep, NikonEventStep, NikonCommandStep, CaptureStep DEF Nikon!NikonNext,
     Nikon!sdk_thread
<1>2. CASE UNCHANGED nikonState
  BY <1>2 DEF nikonState, Nikon!sdkVars, Nikon!nikonVars, NikonInv, NikonCaptureInv, NoStalePhoto,
     Keeps
<1> QED BY <1>1, <1>2

LEMMA NikonStarts ==
    ASSUME Nikon!SdkInit, Nikon!NikonInit
    PROVE  NikonInv /\ Contract!ContractInit
<1>1. inbox \in Seq(NikonSent)
  BY DEF Nikon!SdkInit
<1> QED
  BY <1>1 DEF Nikon!SdkInit, Nikon!NikonInit, NikonInv, NikonCaptureInv, NoStalePhoto,
     Contract!ContractInit

-----------------------------------------------------------------------------
LEMMA NikonInvariant == Nikon!NikonSpec => []NikonInv
<1>1. Nikon!NikonSpec => NikonInv
  BY NikonStarts DEF Nikon!NikonSpec
<1>2. NikonInv /\ [Nikon!NikonNext]_nikonState => NikonInv'
  BY NikonStep
<1> QED BY <1>1, <1>2, PTL DEF Nikon!NikonSpec, nikonState

(* The thread of the Nikon SDK implements the contract of the backends: one
   session at a time, on a body that is really open, lost by a stalled live
   view or an empty bus, a picture is of an open session, and an ended thread
   changes nothing. *)
THEOREM NikonKeepsContract == Nikon!NikonSpec => ContractSpec
<1>1. Nikon!NikonSpec => Contract!ContractInit
  BY NikonStarts DEF Nikon!NikonSpec
<1>2. NikonInv /\ [Nikon!NikonNext]_nikonState => Keeps
  BY NikonStep
<1> QED
  BY <1>1, <1>2, NikonInvariant, PTL DEF Nikon!NikonSpec, nikonState, Keeps, ContractSpec,
     Contract!ContractSpec

(* A capture is never answered with a file that was saved before it began,
   whether or not the SDK named the file. *)
THEOREM NikonPhotoIsNotStale == Nikon!NikonSpec => []NoStalePhoto
<1>1. NikonInv => NoStalePhoto
  BY DEF NikonInv
<1> QED BY <1>1, NikonInvariant, PTL

(* The parts of the type that the invariant does not hold already; the stalled
   polls stay below the limit and one body at most has a session. *)
NikonThreadRest ==
    /\ present \subseteq Devices
    /\ held \subseteq Devices
    /\ waiting \subseteq Callers
    /\ work \in Nikon!Command(Nikon!NikonOps) \cup {None}
    /\ thread \in {"runs", "ended"}
    /\ photo \in Nikon!Picture \cup {None}
    /\ asked \in {"no", "exit", "drop"}
    /\ \A x, y \in open : x = y

NikonListRest ==
    /\ sdk \in BOOLEAN /\ ready \in BOOLEAN /\ warming \in BOOLEAN
    /\ cached \subseteq Devices
    /\ listing \in (SUBSET Devices) \cup {None}

Stalls == 0..(StallLimit - 1)

ViewRest ==
    /\ lvRunning \in BOOLEAN /\ lvPushed \in BOOLEAN
    /\ stall \in Stalls
    /\ frame \in [from : Devices, recent : BOOLEAN] \cup {None}

FileRest == files \in Seq(Nikon!Shots) /\ path \in Nikon!Shots \cup {None}

NikonRest == NikonThreadRest /\ NikonListRest /\ ViewRest /\ FileRest

LEMMA StallsAre ==
    /\ 0 \in Stalls
    /\ \A n \in Stalls : n + 1 < StallLimit => n + 1 \in Stalls
    /\ \A n \in Stalls : n + 1 >= StallLimit => n + 1 = StallLimit
    /\ Stalls \subseteq 0..StallLimit
BY NikonAssumption DEF Stalls

LEMMA NikonTypesAre == NikonInv /\ NikonRest => Nikon!NikonTypeOK
<1>1. NikonSent \subseteq Nikon!Command(Nikon!NikonOps)
  BY DEF NikonSent, Nikon!Command, Nikon!NikonOps
<1>2. inbox \in Seq(NikonSent) => inbox \in Seq(Nikon!Command(Nikon!NikonOps))
  BY <1>1
<1>3. stall \in Stalls => stall \in 0..StallLimit
  BY StallsAre
<1> QED BY <1>2, <1>3 DEF NikonInv, Nikon!NikonTypeOK, Nikon!SdkTypeOK, NikonRest,
    NikonThreadRest, NikonListRest, ViewRest, FileRest

LEMMA NikonAroundTypes ==
    ASSUME NikonInv, NikonRest, Nikon!NikonAround
    PROVE  NikonRest'
<1> USE DEF NikonRest, NikonThreadRest, NikonListRest, ViewRest, FileRest
<1>1. CASE \E c \in Callers, op \in Nikon!NikonCalls, d \in Devices : Nikon!Call(c, op, d) /\ UNCHANGED Nikon!nikonVars
  BY <1>1 DEF Nikon!Call, Nikon!nikonVars
<1>2. CASE (Nikon!CallShutdown \/ Nikon!DropBackend) /\ UNCHANGED Nikon!nikonVars
  BY <1>2 DEF Nikon!CallShutdown, Nikon!DropBackend, Nikon!nikonVars
<1>3. CASE (\E d \in Devices : Nikon!PlugIn(d) \/ Nikon!PullOut(d)) /\ UNCHANGED Nikon!nikonVars
  BY <1>3 DEF Nikon!PlugIn, Nikon!PullOut, Nikon!nikonVars
<1>4. ASSUME NEW c \in Callers, Nikon!list_devices(c)
      PROVE  NikonRest'
  <2>1. /\ UNCHANGED <<sdk, ready, cached, listing, Nikon!lvVars, files, path>>
        /\ UNCHANGED <<present, open, held, work, thread, photo, asked>>
        /\ waiting' = waiting \/ waiting' = waiting \cup {c}
        /\ warming' = warming \/ warming' = TRUE
    BY <1>4 DEF Nikon!list_devices, Nikon!Posts, Nikon!Call, Nikon!Post
  <2>2. NikonThreadRest'
    BY <2>1
  <2>3. NikonListRest'
    BY <2>1
  <2>4. ViewRest' /\ FileRest'
    BY <2>1 DEF Nikon!lvVars
  <2> QED BY <2>2, <2>3, <2>4
<1> QED BY <1>1, <1>2, <1>3, <1>4 DEF Nikon!NikonAround

LEMMA NikonEventTypes ==
    ASSUME NikonInv, NikonRest, Nikon!NikonEvents
    PROVE  NikonRest'
<1> USE DEF NikonRest, NikonThreadRest, NikonListRest, ViewRest, FileRest
<1>1. ASSUME NEW d \in Devices, Nikon!live_view_data_proc(d)
      PROVE  NikonRest'
  BY <1>1 DEF Nikon!live_view_data_proc, Nikon!sdkVars, Nikon!listVars
<1>2. ASSUME NEW d \in Devices, Nikon!event_proc(d)
      PROVE  NikonRest'
  <2>1. PICK shot \in Nikon!Shots : files' = Append(files, shot) /\ path' \in {path, shot}
    BY <1>2 DEF Nikon!event_proc
  <2>2. files' \in Seq(Nikon!Shots)
    BY <2>1
  <2> QED BY <1>2, <2>1, <2>2 DEF Nikon!event_proc, Nikon!listVars, Nikon!lvVars
<1>3. CASE Nikon!FrameAges
  <2>1. frame \in [from : Devices, recent : BOOLEAN] /\ frame' = [frame EXCEPT !.recent = FALSE]
    BY <1>3 DEF Nikon!FrameAges, Nikon!Recent
  <2>2. frame' \in [from : Devices, recent : BOOLEAN]
    BY <2>1
  <2>3. NikonThreadRest' /\ NikonListRest' /\ FileRest'
    BY <1>3 DEF Nikon!FrameAges, Nikon!sdkVars, Nikon!listVars
  <2>4. ViewRest'
    BY <1>3, <2>2 DEF Nikon!FrameAges
  <2> QED BY <2>3, <2>4
<1> QED BY <1>1, <1>2, <1>3 DEF Nikon!NikonEvents

LEMMA NikonCommandTypes ==
    ASSUME NikonInv, NikonRest, NEW m \in Nikon!Heads,
           \/ Nikon!sdk_fails(m) \/ Nikon!ListDevices(m) \/ Nikon!Read(m) \/ Nikon!connect_impl(m)
           \/ Nikon!disconnect_impl(m) \/ Nikon!get_live_view_frame_impl(m)
           \/ Nikon!capture_photo_impl(m) \/ Nikon!Warmup(m) \/ Nikon!UsbGone(m) \/ Nikon!teardown_sdk(m)
    PROVE  NikonRest'
<1>1. /\ m \in Nikon!Command(Nikon!NikonOps)
      /\ m.op \in Nikon!NikonCalls => m.dev \in Devices
      /\ open \subseteq Devices
  BY NikonHeadIsSent DEF NikonSent, Nikon!Command, Nikon!NikonOps, NikonInv
<1> USE <1>1 DEF NikonRest, Nikon!Takes, Nikon!Ready, Nikon!Reply, Nikon!ThreadStays,
    Nikon!SessionsStay, Nikon!NikonCalls, Nikon!ensure_sdk, Nikon!lvVars, Nikon!listVars
<1>2. CASE Nikon!sdk_fails(m)
  <2>1. NikonThreadRest'
    BY <1>2 DEF Nikon!sdk_fails, NikonThreadRest
  <2>2. NikonListRest'
    BY <1>2 DEF Nikon!sdk_fails, NikonListRest, NikonThreadRest
  <2>3. ViewRest'
    BY <1>2, StallsAre DEF Nikon!sdk_fails, ViewRest
  <2>4. FileRest'
    BY <1>2 DEF Nikon!sdk_fails, FileRest
  <2> QED BY <2>1, <2>2, <2>3, <2>4
<1>3. CASE Nikon!ListDevices(m)
  <2>1. NikonThreadRest'
    BY <1>3 DEF Nikon!ListDevices, NikonThreadRest
  <2>2. NikonListRest'
    BY <1>3 DEF Nikon!ListDevices, NikonListRest, NikonThreadRest
  <2>3. ViewRest'
    BY <1>3, StallsAre DEF Nikon!ListDevices, ViewRest
  <2>4. FileRest'
    BY <1>3 DEF Nikon!ListDevices, FileRest
  <2> QED BY <2>1, <2>2, <2>3, <2>4
<1>4. CASE Nikon!Read(m)
  <2>1. NikonThreadRest'
    BY <1>4 DEF Nikon!Read, NikonThreadRest
  <2>2. NikonListRest'
    BY <1>4 DEF Nikon!Read, NikonListRest, NikonThreadRest
  <2>3. ViewRest'
    BY <1>4, StallsAre DEF Nikon!Read, ViewRest
  <2>4. FileRest'
    BY <1>4 DEF Nikon!Read, FileRest
  <2> QED BY <2>1, <2>2, <2>3, <2>4
<1>5. CASE Nikon!connect_impl(m)
  <2>1. NikonThreadRest'
    BY <1>5 DEF Nikon!connect_impl, NikonThreadRest
  <2>2. NikonListRest'
    BY <1>5 DEF Nikon!connect_impl, NikonListRest, NikonThreadRest
  <2>3. ViewRest'
    BY <1>5, StallsAre DEF Nikon!connect_impl, ViewRest
  <2>4. FileRest'
    BY <1>5 DEF Nikon!connect_impl, FileRest
  <2> QED BY <2>1, <2>2, <2>3, <2>4
<1>6. CASE Nikon!disconnect_impl(m)
  <2>1. NikonThreadRest'
    BY <1>6 DEF Nikon!disconnect_impl, NikonThreadRest, Nikon!reset_session_state
  <2>2. NikonListRest'
    BY <1>6 DEF Nikon!disconnect_impl, NikonListRest, NikonThreadRest
  <2>3. ViewRest'
    BY <1>6, StallsAre DEF Nikon!disconnect_impl, ViewRest, Nikon!reset_session_state
  <2>4. FileRest'
    BY <1>6 DEF Nikon!disconnect_impl, FileRest
  <2> QED BY <2>1, <2>2, <2>3, <2>4
<1>7. CASE Nikon!get_live_view_frame_impl(m)
  <2>1. NikonThreadRest'
    BY <1>7 DEF Nikon!get_live_view_frame_impl, NikonThreadRest, Nikon!reset_session_state,
       Nikon!Picture, Nikon!Shots
  <2>2. NikonListRest'
    BY <1>7 DEF Nikon!get_live_view_frame_impl, NikonListRest, NikonThreadRest
  <2>3. ViewRest'
    BY <1>7, StallsAre DEF Nikon!get_live_view_frame_impl, ViewRest, Nikon!reset_session_state,
       Nikon!start_live_view
  <2>4. FileRest'
    BY <1>7 DEF Nikon!get_live_view_frame_impl, FileRest
  <2> QED BY <2>1, <2>2, <2>3, <2>4
<1>8. CASE Nikon!capture_photo_impl(m)
  <2>1. NikonThreadRest'
    BY <1>8 DEF Nikon!capture_photo_impl, NikonThreadRest, Nikon!Exposes
  <2>2. NikonListRest'
    BY <1>8 DEF Nikon!capture_photo_impl, NikonListRest, NikonThreadRest
  <2>3. ViewRest'
    BY <1>8, StallsAre DEF Nikon!capture_photo_impl, ViewRest
  <2>4. FileRest'
    <3>1. <<>> \in Seq(Nikon!Shots)
      OBVIOUS
    <3>2. files' = files \/ files' = <<>>
      BY <1>8 DEF Nikon!capture_photo_impl
    <3>3. path' = path \/ path' = None
      BY <1>8 DEF Nikon!capture_photo_impl
    <3> QED BY <3>1, <3>2, <3>3 DEF FileRest
  <2> QED BY <2>1, <2>2, <2>3, <2>4
<1>9. CASE Nikon!Warmup(m)
  <2>1. NikonThreadRest'
    BY <1>9 DEF Nikon!Warmup, NikonThreadRest
  <2>2. NikonListRest'
    BY <1>9 DEF Nikon!Warmup, NikonListRest, NikonThreadRest
  <2>3. ViewRest'
    BY <1>9, StallsAre DEF Nikon!Warmup, ViewRest
  <2>4. FileRest'
    BY <1>9 DEF Nikon!Warmup, FileRest
  <2> QED BY <2>1, <2>2, <2>3, <2>4
<1>10. CASE Nikon!UsbGone(m)
  <2>1. NikonThreadRest'
    BY <1>10 DEF Nikon!UsbGone, NikonThreadRest, Nikon!reset_session_state
  <2>2. NikonListRest'
    BY <1>10 DEF Nikon!UsbGone, NikonListRest, NikonThreadRest
  <2>3. ViewRest'
    BY <1>10, StallsAre DEF Nikon!UsbGone, ViewRest, Nikon!reset_session_state
  <2>4. FileRest'
    BY <1>10 DEF Nikon!UsbGone, FileRest
  <2> QED BY <2>1, <2>2, <2>3, <2>4
<1>11. CASE Nikon!teardown_sdk(m)
  <2>1. NikonThreadRest'
    BY <1>11 DEF Nikon!teardown_sdk, NikonThreadRest, Nikon!Returns
  <2>2. NikonListRest'
    BY <1>11 DEF Nikon!teardown_sdk, NikonListRest, NikonThreadRest
  <2>3. ViewRest'
    BY <1>11, StallsAre DEF Nikon!teardown_sdk, ViewRest
  <2>4. FileRest'
    BY <1>11 DEF Nikon!teardown_sdk, FileRest
  <2> QED BY <2>1, <2>2, <2>3, <2>4
<1> QED BY <1>2, <1>3, <1>4, <1>5, <1>6, <1>7, <1>8, <1>9, <1>10, <1>11

(* One file goes from the directory. *)
LEMMA FileGoes ==
    ASSUME NEW s \in Seq(Nikon!Shots), NEW i \in 1..Len(s)
    PROVE  SubSeq(s, 1, i - 1) \o SubSeq(s, i + 1, Len(s)) \in Seq(Nikon!Shots)
<1>1. SubSeq(s, 1, i - 1) \in Seq(Nikon!Shots)
  <2>1. \A j \in 1..(i - 1) : s[j] \in Nikon!Shots
    BY ElementOfSeq
  <2> QED BY <2>1, SubSeqProperties
<1>2. SubSeq(s, i + 1, Len(s)) \in Seq(Nikon!Shots)
  <2>1. \A j \in (i + 1)..Len(s) : s[j] \in Nikon!Shots
    BY ElementOfSeq
  <2> QED BY <2>1, SubSeqProperties
<1> QED BY <1>1, <1>2, ConcatProperties

LEMMA CaptureTypes ==
    ASSUME NikonInv, NikonRest, Nikon!CaptureEnds \/ Nikon!CaptureTimesOut
    PROVE  NikonRest'
<1> USE DEF NikonRest, NikonThreadRest, NikonListRest, ViewRest, FileRest, Nikon!EndCapture,
    Nikon!Reply
<1>1. CASE Nikon!CaptureEnds
  <2>1. work.dev \in Devices
    BY <1>1 DEF Nikon!CaptureEnds, NikonInv, NikonCaptureInv
  <2>2. PICK i \in Nikon!resolve_capture_file :
          /\ files' = SubSeq(files, 1, i - 1) \o SubSeq(files, i + 1, Len(files))
          /\ photo' \in {None, [dev |-> work.dev, shot |-> files[i]]}
    BY <1>1 DEF Nikon!CaptureEnds
  <2>3. i \in 1..Len(files)
    <3>1. files \in Seq(Nikon!Shots) /\ files # <<>>
      BY <1>1 DEF Nikon!CaptureEnds
    <3>2. DOMAIN files = 1..Len(files) /\ Len(files) \in 1..Len(files)
      BY <3>1
    <3> QED BY <2>2, <3>2 DEF Nikon!resolve_capture_file
  <2>4. files' \in Seq(Nikon!Shots)
    BY <2>2, <2>3, FileGoes
  <2>5. photo' \in Nikon!Picture \cup {None}
    BY <2>1, <2>2, <2>3 DEF Nikon!Picture
  <2> QED BY <1>1, <2>4, <2>5 DEF Nikon!CaptureEnds, Nikon!listVars, Nikon!lvVars
<1>2. CASE Nikon!CaptureTimesOut
  BY <1>2 DEF Nikon!CaptureTimesOut, Nikon!nikonVars
<1> QED BY <1>1, <1>2

(* All that holds of the thread of the Nikon SDK. *)
NikonAll == NikonInv /\ NikonRest

LEMMA NikonAllBegins ==
    ASSUME Nikon!SdkInit, Nikon!NikonInit
    PROVE  NikonAll /\ Contract!ContractInit
<1>1. NikonInv /\ Contract!ContractInit
  BY NikonStarts
<1>2. NikonRest
  <2>1. NikonThreadRest
    BY DEF Nikon!SdkInit, NikonThreadRest
  <2>2. NikonListRest
    BY DEF Nikon!NikonInit, NikonListRest
  <2>3. ViewRest
    BY StallsAre DEF Nikon!NikonInit, ViewRest
  <2>4. <<>> \in Seq(Nikon!Shots)
    OBVIOUS
  <2>5. FileRest
    BY <2>4 DEF Nikon!NikonInit, FileRest
  <2> QED BY <2>1, <2>2, <2>3, <2>5 DEF NikonRest
<1> QED BY <1>1, <1>2 DEF NikonAll

LEMMA NikonAllStep ==
    ASSUME NikonAll, [Nikon!NikonNext]_nikonState
    PROVE  NikonAll' /\ Keeps
<1>1. NikonInv' /\ Keeps
  BY NikonStep DEF NikonAll
<1>2. NikonInv /\ NikonRest
  BY DEF NikonAll
<1>3. NikonRest'
  <2>1. CASE Nikon!NikonNext
    BY <1>2, <2>1, NikonAroundTypes, NikonEventTypes, NikonCommandTypes, CaptureTypes
       DEF Nikon!NikonNext, Nikon!sdk_thread
  <2>2. CASE UNCHANGED nikonState
    BY <1>2, <2>2 DEF nikonState, Nikon!sdkVars, Nikon!nikonVars, NikonRest, NikonThreadRest,
       NikonListRest, ViewRest, FileRest
  <2> QED BY <2>1, <2>2
<1> QED BY <1>1, <1>3 DEF NikonAll

(* The one session of the table ends when it was asked to, when nothing was
   on the bus, when the live view stalls too long, or with the thread. *)
LEMMA NikonEndings ==
    ASSUME NikonAll, [Nikon!NikonNext]_nikonState, NEW d \in open \ open'
    PROVE  \/ thread' = "ended" \/ stall + 1 = StallLimit
           \/ /\ inbox # <<>>
              /\ \/ Head(inbox).op = "Disconnect" /\ Head(inbox).dev = d
                 \/ Head(inbox).op = "UsbGone" /\ Head(inbox).dev = None
<1>1. CASE Nikon!NikonAround \/ Nikon!NikonEvents \/ UNCHANGED nikonState
  BY <1>1 DEF Nikon!NikonAround, Nikon!NikonEvents, Nikon!list_devices, Nikon!Posts, Nikon!Call,
     Nikon!CallShutdown, Nikon!DropBackend, Nikon!PlugIn, Nikon!PullOut,
     Nikon!live_view_data_proc, Nikon!event_proc, Nikon!FrameAges, Nikon!sdkVars, nikonState
<1>2. ASSUME NEW m \in Nikon!Heads,
             \/ Nikon!sdk_fails(m) \/ Nikon!ListDevices(m) \/ Nikon!Read(m) \/ Nikon!connect_impl(m)
             \/ Nikon!disconnect_impl(m) \/ Nikon!get_live_view_frame_impl(m)
             \/ Nikon!capture_photo_impl(m) \/ Nikon!Warmup(m) \/ Nikon!UsbGone(m) \/ Nikon!teardown_sdk(m)
      PROVE  \/ thread' = "ended" \/ stall + 1 = StallLimit
             \/ /\ inbox # <<>>
                /\ \/ Head(inbox).op = "Disconnect" /\ Head(inbox).dev = d
                   \/ Head(inbox).op = "UsbGone" /\ Head(inbox).dev = None
  <2>1. inbox # <<>> /\ m = Head(inbox)
    BY DEF Nikon!Heads
  <2>2. CASE Nikon!sdk_fails(m) \/ Nikon!ListDevices(m) \/ Nikon!Read(m) \/ Nikon!connect_impl(m) \/ Nikon!capture_photo_impl(m)
             \/ Nikon!Warmup(m)
    BY <2>2 DEF Nikon!sdk_fails, Nikon!ListDevices, Nikon!Read, Nikon!connect_impl,
       Nikon!capture_photo_impl, Nikon!Warmup, Nikon!SessionsStay
  <2>3. CASE Nikon!disconnect_impl(m)
    <3>1. m.op = "Disconnect" /\ m.dev \in open
      BY <2>3 DEF Nikon!disconnect_impl, Nikon!ensure_sdk, Nikon!Takes
    <3>2. d = m.dev
      BY <3>1 DEF NikonAll, NikonRest, NikonThreadRest
    <3> QED BY <2>1, <3>1, <3>2
  <2>4. CASE Nikon!get_live_view_frame_impl(m)
    <3>1. stall \in Stalls
      BY DEF NikonAll, NikonRest, ViewRest
    <3>2. stall + 1 >= StallLimit
      BY <2>4 DEF Nikon!get_live_view_frame_impl
    <3> QED BY <3>1, <3>2, StallsAre
  <2>5. CASE Nikon!UsbGone(m)
    <3>1. m.op = "UsbGone" /\ m \in NikonSent
      BY <2>5, NikonHeadIsSent DEF Nikon!UsbGone, Nikon!Takes, NikonAll
    <3>2. m.dev = None
      BY <3>1 DEF NikonSent, Nikon!NikonCalls
    <3> QED BY <2>1, <3>1, <3>2
  <2>6. CASE Nikon!teardown_sdk(m)
    BY <2>6 DEF Nikon!teardown_sdk, Nikon!Returns
  <2> QED BY <1>2, <2>2, <2>3, <2>4, <2>5, <2>6
<1>3. CASE Nikon!CaptureEnds \/ Nikon!CaptureTimesOut
  BY <1>3 DEF Nikon!CaptureEnds, Nikon!CaptureTimesOut, Nikon!EndCapture
<1> QED BY <1>1, <1>2, <1>3 DEF Nikon!NikonNext, Nikon!sdk_thread

(* The message that a scan found an empty bus is sent. *)
SendsGone == Len(inbox') > Len(inbox) /\ inbox'[Len(inbox')].op = "UsbGone"

(* The thread is told of an empty bus only if a scan has found one: now, or
   when the message was sent that is still in the queue. *)
Posted == IF SendsGone THEN present = {} ELSE ToldOfGone(inbox)

LEMMA NikonPosts ==
    ASSUME NikonInv, [Nikon!NikonNext]_nikonState, ToldOfGone(inbox')
    PROVE  Posted
<1>1. inbox \in Seq(NikonSent) /\ inbox' \in Seq(NikonSent)
  BY NikonStep DEF NikonInv
<1>a. PICK i \in 1..Len(inbox') : inbox'[i].op = "UsbGone"
  BY <1>1 DEF ToldOfGone
<1>2. CASE inbox' = inbox
  BY <1>1, <1>2 DEF Posted, SendsGone
<1>3. CASE inbox' = <<>>
  BY <1>3, <1>a
<1>4. CASE inbox # <<>> /\ inbox' = Tail(inbox)
  <2>1. i + 1 \in 1..Len(inbox) /\ inbox'[i] = inbox[i + 1] /\ Len(inbox') = Len(inbox) - 1
    BY <1>1, <1>4, <1>a
  <2>2. ToldOfGone(inbox)
    BY <1>1, <1>a, <2>1 DEF ToldOfGone
  <2> QED BY <1>1, <2>1, <2>2 DEF Posted, SendsGone
<1>5. ASSUME NEW msg, inbox' = Append(inbox, msg), msg.op = "UsbGone" => present = {}
      PROVE  Posted
  <2>1. Len(inbox') = Len(inbox) + 1 /\ inbox'[Len(inbox')] = msg
    BY <1>1, <1>5
  <2>2. CASE msg.op = "UsbGone"
    BY <1>1, <1>5, <2>1, <2>2 DEF Posted, SendsGone
  <2>3. CASE msg.op # "UsbGone"
    <3>1. i \in 1..Len(inbox) /\ inbox'[i] = inbox[i]
      BY <1>1, <1>5, <1>a, <2>1, <2>3
    <3>2. ToldOfGone(inbox)
      BY <1>1, <1>a, <3>1 DEF ToldOfGone
    <3> QED BY <2>1, <2>3, <3>2 DEF Posted, SendsGone
  <2> QED BY <2>2, <2>3
<1>6. CASE Nikon!NikonAround
  <2>1. ASSUME NEW c, NEW op, NEW d, Nikon!Call(c, op, d), op # "UsbGone"
        PROVE  Posted
    BY <1>5, <2>1 DEF Nikon!Call
  <2>2. ASSUME NEW op, Nikon!Post(op), op = "UsbGone" => present = {}
        PROVE  Posted
    BY <1>5, <2>2 DEF Nikon!Post
  <2>3. CASE \E c \in Callers, op \in Nikon!NikonCalls, d \in Devices : Nikon!Call(c, op, d)
    BY <2>1, <2>3 DEF Nikon!NikonCalls
  <2>4. CASE Nikon!CallShutdown \/ Nikon!DropBackend
    BY <2>2, <2>4 DEF Nikon!CallShutdown, Nikon!DropBackend
  <2>5. CASE \E d \in Devices : Nikon!PlugIn(d) \/ Nikon!PullOut(d)
    BY <1>2, <2>5 DEF Nikon!PlugIn, Nikon!PullOut
  <2>6. ASSUME NEW c \in Callers, Nikon!list_devices(c)
        PROVE  Posted
    <3>1. PICK found \in BOOLEAN :
            /\ found \in {present # {}, TRUE}
            /\ \/ ~found /\ Nikon!Post("UsbGone")
               \/ Nikon!Post("Warmup")
               \/ Nikon!Call(c, "ListDevices", None)
      BY <2>6 DEF Nikon!list_devices, Nikon!nikon_usb_present, Nikon!Posts
    <3>2. CASE ~found /\ Nikon!Post("UsbGone")
      BY <2>2, <3>1, <3>2
    <3>3. CASE Nikon!Post("Warmup")
      BY <2>2, <3>3
    <3>4. CASE Nikon!Call(c, "ListDevices", None)
      BY <2>1, <3>4
    <3> QED BY <3>1, <3>2, <3>3, <3>4
  <2> QED BY <1>6, <2>3, <2>4, <2>5, <2>6 DEF Nikon!NikonAround
<1>7. CASE Nikon!NikonEvents \/ UNCHANGED nikonState \/ Nikon!CaptureEnds \/ Nikon!CaptureTimesOut
  BY <1>2, <1>7 DEF Nikon!NikonEvents, Nikon!live_view_data_proc, Nikon!event_proc,
     Nikon!FrameAges, Nikon!sdkVars, nikonState, Nikon!CaptureEnds, Nikon!CaptureTimesOut,
     Nikon!EndCapture
<1>8. ASSUME NEW m \in Nikon!Heads,
             \/ Nikon!sdk_fails(m) \/ Nikon!ListDevices(m) \/ Nikon!Read(m) \/ Nikon!connect_impl(m)
             \/ Nikon!disconnect_impl(m) \/ Nikon!get_live_view_frame_impl(m)
             \/ Nikon!capture_photo_impl(m) \/ Nikon!Warmup(m) \/ Nikon!UsbGone(m) \/ Nikon!teardown_sdk(m)
      PROVE  Posted
  <2>1. inbox # <<>>
    BY DEF Nikon!Heads
  <2>2. inbox' = Tail(inbox) \/ inbox' = <<>>
    BY <1>8 DEF Nikon!sdk_fails, Nikon!ListDevices, Nikon!Read, Nikon!connect_impl,
       Nikon!disconnect_impl, Nikon!get_live_view_frame_impl, Nikon!capture_photo_impl,
       Nikon!Warmup, Nikon!UsbGone, Nikon!teardown_sdk, Nikon!Returns, Nikon!ensure_sdk,
       Nikon!Takes
  <2> QED BY <1>3, <1>4, <2>1, <2>2
<1> QED BY <1>6, <1>7, <1>8 DEF Nikon!NikonNext, Nikon!sdk_thread

-----------------------------------------------------------------------------
(* The thread of Sony. *)

(* What is sent: the calls are about a body, the rest about none. *)
SonySent ==
    [op : Sony!SonyCalls, dev : Devices, from : Callers]
      \cup [op : {"PrepareExit", "Shutdown"}, dev : {None}, from : {None}]

(* A capture under way is of an open session, which nothing can end before
   the capture is answered; what was downloaded was forgotten when it began. *)
SonyCaptureInv ==
    work # None =>
        /\ thread = "runs"
        /\ work.dev \in open
        /\ download[work.dev] = None \/ download[work.dev] # "stale"

(* The bridge counts the sessions of the table, and only they borrow. *)
BorrowInv ==
    /\ IsFiniteSet(open)
    /\ sessions = Cardinality(open)
    /\ gone \subseteq open
    /\ borrowers \subseteq open

SonyInv ==
    /\ inbox \in Seq(SonySent)
    /\ open \subseteq Devices
    /\ album \in [Devices -> SUBSET {"own", "late"}]
    /\ download \in [Devices -> Sony!Shots \cup {None}]
    /\ BorrowInv
    /\ Sony!NoLeak
    /\ SonyCaptureInv
    /\ NoStalePhoto

sonyState == <<Sony!sdkVars, Sony!sonyVars>>

-----------------------------------------------------------------------------
(* A command that calls for an operation of the backend names its body. *)
LEMMA SonyHeadIsSent ==
    ASSUME SonyInv, NEW m \in Sony!Heads
    PROVE  /\ m \in SonySent
           /\ Tail(inbox) \in Seq(SonySent)
           /\ m.op \in Sony!SonyCalls => m.dev \in Devices
<1>1. inbox # <<>> /\ m = Head(inbox)
  BY DEF Sony!Heads
<1>2. m \in SonySent /\ Tail(inbox) \in Seq(SonySent)
  BY <1>1 DEF SonyInv
<1> QED BY <1>2 DEF SonySent, Sony!SonyCalls

(* A scan releases the last enumeration only when nobody can borrow of it. *)
LEMMA ScanKeepsBorrowed ==
    ASSUME SonyInv, NEW found, Sony!sn_list_devices(found)
    PROVE  UNCHANGED sessions /\ borrowers' \subseteq open /\ dangling' = {}
<1>1. CASE sessions = 0
  <2>1. open = {}
    BY <1>1, FS_EmptySet DEF SonyInv, BorrowInv
  <2> QED BY <2>1 DEF Sony!sn_list_devices, Sony!bridgeVars, SonyInv, BorrowInv, Sony!NoLeak
<1>2. CASE sessions # 0
  BY <1>2 DEF Sony!sn_list_devices, Sony!bridgeVars, SonyInv, BorrowInv, Sony!NoLeak
<1> QED BY <1>1, <1>2

(* A session more, and one less, in the table and in the bridge. *)
LEMMA SessionOpens ==
    ASSUME SonyInv, NEW d \in Devices, d \notin open, Sony!sn_connect(d),
           open' = open \cup {d}, UNCHANGED gone
    PROVE  BorrowInv' /\ Sony!NoLeak' /\ d \in held' /\ held' \subseteq held \cup {d}
<1>1. IsFiniteSet(open') /\ Cardinality(open') = Cardinality(open) + 1
  BY FS_AddElement DEF SonyInv, BorrowInv
<1> QED BY <1>1 DEF SonyInv, BorrowInv, Sony!NoLeak, Sony!sn_connect

LEMMA SessionGoes ==
    ASSUME SonyInv, NEW d \in open, Sony!RemoveSession(d)
    PROVE  BorrowInv' /\ Sony!NoLeak' /\ open' \subseteq open /\ held' \subseteq held
<1>1. /\ IsFiniteSet(open') /\ Cardinality(open') = Cardinality(open) - 1
      /\ Cardinality(open) \in Nat
  BY FS_RemoveElement, FS_CardinalityType DEF SonyInv, BorrowInv, Sony!RemoveSession
<1>2. Cardinality(open) # 0
  BY FS_EmptySet DEF SonyInv, BorrowInv
<1> QED BY <1>1, <1>2 DEF SonyInv, BorrowInv, Sony!NoLeak, Sony!RemoveSession, Sony!sn_disconnect

-----------------------------------------------------------------------------
(* Callers and the exits of the process: the queue grows. *)
LEMMA SonyAroundStep ==
    ASSUME SonyInv, Sony!SonyAround
    PROVE  SonyInv' /\ Keeps
<1>1. ASSUME NEW c \in Callers, NEW op \in Sony!SonyCalls, NEW d \in Devices, Sony!Call(c, op, d)
      PROVE  inbox' \in Seq(SonySent)
  BY <1>1 DEF SonyInv, Sony!Call, SonySent
<1>2. ASSUME NEW op \in {"PrepareExit", "Shutdown"}, Sony!Post(op)
      PROVE  inbox' \in Seq(SonySent)
  BY <1>2 DEF SonyInv, Sony!Post, SonySent
<1>3. inbox' \in Seq(SonySent)
  BY <1>1, <1>2 DEF Sony!SonyAround, Sony!CallShutdown, Sony!DropBackend, Sony!PlugIn,
     Sony!PullOut, SonyInv
<1>4. UNCHANGED <<open, held, work, thread, photo, album, Sony!sonyVars>>
  BY DEF Sony!SonyAround, Sony!Call, Sony!CallShutdown, Sony!DropBackend, Sony!PlugIn, Sony!PullOut
<1> QED
  BY <1>3, <1>4 DEF SonyInv, BorrowInv, Sony!NoLeak, SonyCaptureInv, NoStalePhoto, Keeps,
     Sony!sonyVars

(* Callbacks: a capture that waits is told of its own exposure or of an
   earlier one, never of an image announced before. *)
LEMMA SonyEventStep ==
    ASSUME SonyInv, Sony!SonyEvents
    PROVE  SonyInv' /\ Keeps
<1> USE DEF SonyInv, BorrowInv, Sony!NoLeak, SonyCaptureInv, NoStalePhoto, Keeps, Sony!bridgeVars
<1>1. ASSUME NEW d \in Devices, Sony!OnDisconnected(d)
      PROVE  SonyInv' /\ Keeps
  BY <1>1 DEF Sony!OnDisconnected, Sony!sdkVars
<1>2. ASSUME NEW d \in Devices, Sony!OnCompleteDownload(d)
      PROVE  SonyInv' /\ Keeps
  <2>1. PICK shot \in Sony!Shots :
          Sony!Announces(d, shot) /\ download' = [download EXCEPT ![d] = shot]
    BY <1>2 DEF Sony!OnCompleteDownload
  <2>2. /\ album' \in [Devices -> SUBSET {"own", "late"}]
        /\ download' \in [Devices -> Sony!Shots \cup {None}]
    BY <2>1 DEF Sony!Announces
  <2>3. work # None => shot # "stale"
    BY <2>1 DEF Sony!Announces
  <2>4. SonyCaptureInv'
    BY <1>2, <2>1, <2>3 DEF Sony!OnCompleteDownload
  <2> QED BY <1>2, <2>2, <2>4 DEF Sony!OnCompleteDownload
<1> QED BY <1>1, <1>2 DEF Sony!SonyEvents

(* Commands: each is a step of the contract. *)
LEMMA SonyCommandStep ==
    ASSUME SonyInv, NEW m \in Sony!Heads,
           \/ Sony!Read(m) \/ Sony!prune_dead_session(m) \/ Sony!connect_impl(m) \/ Sony!disconnect_impl(m)
           \/ Sony!get_live_view_impl(m) \/ Sony!sn_capture(m) \/ Sony!sn_release(m)
    PROVE  SonyInv' /\ Keeps
<1> USE SonyHeadIsSent DEF SonyInv, SonyCaptureInv, NoStalePhoto, Keeps, Sony!Takes, Sony!Ready,
    Sony!ThreadStays, Sony!SessionsStay, Sony!SonyCalls, Sony!bridgeVars
<1>1. CASE Sony!Read(m)
  BY <1>1 DEF Sony!Read, BorrowInv, Sony!NoLeak
<1>2. CASE Sony!prune_dead_session(m)
  <2>1. CASE m.dev \in gone /\ Sony!RemoveSession(m.dev)
    <3>1. BorrowInv' /\ Sony!NoLeak' /\ open' \subseteq open /\ held' \subseteq held
      BY <2>1, SessionGoes DEF BorrowInv
    <3> QED BY <1>2, <3>1 DEF Sony!prune_dead_session
  <2>2. CASE UNCHANGED <<open, held, gone, shown, Sony!bridgeVars>>
    BY <1>2, <2>2 DEF Sony!prune_dead_session, BorrowInv, Sony!NoLeak
  <2> QED BY <1>2, <2>1, <2>2 DEF Sony!prune_dead_session
<1>3. CASE Sony!connect_impl(m)
  <2>1. m.dev \in Devices /\ inbox' \in Seq(SonySent)
    BY <1>3 DEF Sony!connect_impl
  <2>2. CASE UNCHANGED <<open, held, gone, Sony!bridgeVars, download>>
    BY <1>3, <2>1, <2>2 DEF Sony!connect_impl, BorrowInv, Sony!NoLeak
  <2>3. CASE /\ m.dev \notin open /\ Sony!sn_connect(m.dev)
             /\ open' = open \cup {m.dev}
             /\ download' = [download EXCEPT ![m.dev] = None]
             /\ UNCHANGED gone
    <3>1. BorrowInv' /\ Sony!NoLeak' /\ m.dev \in held' /\ held' \subseteq held \cup {m.dev}
      BY <2>1, <2>3, SessionOpens
    <3> QED BY <1>3, <2>1, <2>3, <3>1 DEF Sony!connect_impl
  <2> QED BY <1>3, <2>2, <2>3 DEF Sony!connect_impl
<1>4. CASE Sony!disconnect_impl(m)
  <2>1. CASE m.dev \in open /\ Sony!RemoveSession(m.dev)
    <3>1. BorrowInv' /\ Sony!NoLeak' /\ open' \subseteq open /\ held' \subseteq held
      BY <2>1, SessionGoes
    <3> QED BY <1>4, <3>1 DEF Sony!disconnect_impl
  <2>2. CASE UNCHANGED <<open, held, gone, shown, Sony!bridgeVars>>
    BY <1>4, <2>2 DEF Sony!disconnect_impl, BorrowInv, Sony!NoLeak
  <2> QED BY <1>4, <2>1, <2>2 DEF Sony!disconnect_impl
<1>5. CASE Sony!get_live_view_impl(m)
  <2>1. m.dev \in Devices /\ inbox' \in Seq(SonySent)
    BY <1>5 DEF Sony!get_live_view_impl
  <2>2. CASE photo' = None
    BY <1>5, <2>1, <2>2 DEF Sony!get_live_view_impl, BorrowInv, Sony!NoLeak
  <2>3. CASE photo' # None
    BY <1>5, <2>1, <2>3 DEF Sony!get_live_view_impl, BorrowInv, Sony!NoLeak
  <2> QED BY <2>2, <2>3
<1>6. CASE Sony!sn_capture(m)
  <2>1. m.dev \in Devices /\ inbox' \in Seq(SonySent)
    BY <1>6 DEF Sony!sn_capture
  <2>2. download' \in [Devices -> Sony!Shots \cup {None}]
    BY <1>6, <2>1 DEF Sony!sn_capture
  <2>3. CASE m.dev \in open \ gone /\ Sony!Exposes(m)
    <3>1. download'[m.dev] = None
      BY <1>6, <2>1, <2>3 DEF Sony!sn_capture
    <3>2. album' \in [Devices -> SUBSET {"own", "late"}] /\ work' = m
      BY <2>1, <2>3 DEF Sony!Exposes
    <3> QED BY <1>6, <2>1, <2>2, <2>3, <3>1, <3>2 DEF Sony!sn_capture, BorrowInv, Sony!NoLeak
  <2>4. CASE UNCHANGED <<work, album>>
    BY <1>6, <2>1, <2>2, <2>4 DEF Sony!sn_capture, BorrowInv, Sony!NoLeak
  <2> QED BY <1>6, <2>3, <2>4 DEF Sony!sn_capture
<1>7. CASE Sony!sn_release(m)
  <2>1. inbox' \in Seq(SonySent)
    BY <1>7 DEF Sony!sn_release, Sony!Returns
  <2>2. BorrowInv' /\ Sony!NoLeak'
    BY <1>7, FS_EmptySet DEF Sony!sn_release, Sony!Returns, BorrowInv, Sony!NoLeak
  <2> QED BY <1>7, <2>1, <2>2 DEF Sony!sn_release, Sony!Returns
<1> QED BY <1>1, <1>2, <1>3, <1>4, <1>5, <1>6, <1>7

(* What the thread does by itself: it scans for devices, and answers the
   capture it is in the middle of. *)
LEMMA SonyLoopStep ==
    ASSUME SonyInv, Sony!refresh_cache \/ Sony!CaptureEnds \/ Sony!CaptureTimesOut
    PROVE  SonyInv' /\ Keeps
<1>1. CASE Sony!refresh_cache
  <2>1. UNCHANGED sessions /\ borrowers' \subseteq open /\ dangling' = {}
    BY <1>1, ScanKeepsBorrowed DEF Sony!refresh_cache
  <2> QED
    BY <1>1, <2>1 DEF Sony!refresh_cache, Sony!sdkVars, SonyInv, BorrowInv, Sony!NoLeak,
       SonyCaptureInv, NoStalePhoto, Keeps
<1>2. CASE Sony!CaptureEnds \/ Sony!CaptureTimesOut
  <2> USE DEF SonyInv, SonyCaptureInv, NoStalePhoto, Sony!EndCapture, Sony!sonyVars
  <2>1. /\ Sony!EndCapture /\ UNCHANGED Sony!sonyVars
        /\ photo' \in {None, [dev |-> work.dev, shot |-> download[work.dev]]}
        /\ photo' # None => download[work.dev] # None
        /\ work # None
    BY <1>2 DEF Sony!CaptureEnds, Sony!CaptureTimesOut
  <2>2. album' \in [Devices -> SUBSET {"own", "late"}] /\ work.dev \in Devices
    BY <2>1
  <2>3. BorrowInv' /\ Sony!NoLeak'
    BY <2>1 DEF BorrowInv, Sony!NoLeak
  <2>4. CASE photo' = None
    BY <2>1, <2>2, <2>3, <2>4 DEF Keeps
  <2>5. CASE photo' # None
    BY <2>1, <2>2, <2>3, <2>5 DEF Keeps
  <2> QED BY <2>4, <2>5
<1> QED BY <1>1, <1>2

LEMMA SonyStep ==
    ASSUME SonyInv, [Sony!SonyNext]_sonyState
    PROVE  SonyInv' /\ Keeps
<1>1. CASE Sony!SonyNext
  BY <1>1, SonyAroundStep, SonyEventStep, SonyCommandStep, SonyLoopStep DEF Sony!SonyNext,
     Sony!actor_thread
<1>2. CASE UNCHANGED sonyState
  BY <1>2 DEF sonyState, Sony!sdkVars, Sony!sonyVars, SonyInv, BorrowInv, Sony!NoLeak,
     SonyCaptureInv, NoStalePhoto, Keeps
<1> QED BY <1>1, <1>2

LEMMA SonyStarts ==
    ASSUME Sony!SdkInit, Sony!SonyInit
    PROVE  SonyInv /\ Contract!ContractInit
<1>1. inbox \in Seq(SonySent)
  BY DEF Sony!SdkInit
<1>2. BorrowInv
  BY FS_EmptySet DEF Sony!SdkInit, Sony!SonyInit, BorrowInv
<1> QED
  BY <1>1, <1>2 DEF Sony!SdkInit, Sony!SonyInit, SonyInv, Sony!NoLeak, SonyCaptureInv, NoStalePhoto,
     Contract!ContractInit

-----------------------------------------------------------------------------
LEMMA SonyInvariant == Sony!SonySpec => []SonyInv
<1>1. Sony!SonySpec => SonyInv
  BY SonyStarts DEF Sony!SonySpec
<1>2. SonyInv /\ [Sony!SonyNext]_sonyState => SonyInv'
  BY SonyStep
<1> QED BY <1>1, <1>2, PTL DEF Sony!SonySpec, sonyState

(* The thread of the Sony SDK implements the contract of the backends:
   sessions open one at a time and on a body that is really open, a picture is
   of an open session, and an ended thread changes nothing. *)
THEOREM SonyKeepsContract == Sony!SonySpec => ContractSpec
<1>1. Sony!SonySpec => Contract!ContractInit
  BY SonyStarts DEF Sony!SonySpec
<1>2. SonyInv /\ [Sony!SonyNext]_sonyState => Keeps
  BY SonyStep
<1> QED
  BY <1>1, <1>2, SonyInvariant, PTL DEF Sony!SonySpec, sonyState, Keeps, ContractSpec,
     Contract!ContractSpec

(* A capture is never answered with an image that was downloaded before it
   began, however late the images of earlier captures come. *)
THEOREM SonyPhotoIsNotStale == Sony!SonySpec => []NoStalePhoto
<1>1. SonyInv => NoStalePhoto
  BY DEF SonyInv
<1> QED BY <1>1, SonyInvariant, PTL

(* Every body the SDK holds open has an entry in the table, and no session
   uses an entry of an enumeration that was released: the count of sessions
   that guards it is exact. *)
THEOREM SonyBorrowsWhatLives == Sony!SonySpec => []Sony!NoLeak
<1>1. SonyInv => Sony!NoLeak
  BY DEF SonyInv
<1> QED BY <1>1, SonyInvariant, PTL

States == {"absent", "idle", "connected"}

SonyThreadRest ==
    /\ present \subseteq Devices
    /\ waiting \subseteq Callers
    /\ work \in Sony!Command(Sony!SonyOps) \cup {None}
    /\ thread \in {"runs", "ended"}
    /\ photo \in Sony!Picture \cup {None}
    /\ asked \in {"no", "exit", "drop"}

SonyListRest ==
    /\ shown \in [Devices -> States]
    /\ enumList \subseteq Devices
    /\ confirmed \in Devices \cup {None}

(* What is listed is what the table says. *)
ShownInv ==
    thread = "runs" => \A d \in Devices : shown[d] # "absent" => (shown[d] = "connected" <=> d \in open)

SonyRest == SonyThreadRest /\ SonyListRest /\ ShownInv

LEMMA SonyTypesAre == SonyInv /\ SonyRest => Sony!SonyTypeOK
<1>1. SonySent \subseteq Sony!Command(Sony!SonyOps)
  BY DEF SonySent, Sony!Command, Sony!SonyOps
<1>2. inbox \in Seq(SonySent) => inbox \in Seq(Sony!Command(Sony!SonyOps))
  BY <1>1
<1>3. IsFiniteSet(open) => Cardinality(open) \in Nat
  BY FS_CardinalityType
<1> QED
  BY <1>2, <1>3 DEF SonyInv, BorrowInv, Sony!NoLeak, Sony!SonyTypeOK, Sony!SdkTypeOK, SonyRest,
     SonyThreadRest, SonyListRest, States

LEMMA SonyAroundTypes ==
    ASSUME SonyInv, SonyRest, Sony!SonyAround
    PROVE  SonyRest'
<1>1. SonyThreadRest'
  BY DEF Sony!SonyAround, Sony!Call, Sony!CallShutdown, Sony!DropBackend, Sony!PlugIn,
     Sony!PullOut, SonyRest, SonyThreadRest
<1>2. UNCHANGED <<thread, open, shown, enumList, confirmed>>
  BY DEF Sony!SonyAround, Sony!Call, Sony!CallShutdown, Sony!DropBackend, Sony!PlugIn,
     Sony!PullOut, Sony!sonyVars
<1> QED BY <1>1, <1>2 DEF SonyRest, SonyListRest, ShownInv

LEMMA SonyEventTypes ==
    ASSUME SonyInv, SonyRest, Sony!SonyEvents
    PROVE  SonyRest'
<1>1. UNCHANGED <<present, waiting, work, thread, photo, asked, open, shown, enumList, confirmed>>
  BY DEF Sony!SonyEvents, Sony!OnDisconnected, Sony!OnCompleteDownload, Sony!sdkVars,
     Sony!bridgeVars
<1> QED BY <1>1 DEF SonyRest, SonyThreadRest, SonyListRest, ShownInv

(* The list after one entry of it has been set. *)
LEMMA OneIsShown ==
    ASSUME shown \in [Devices -> States], NEW d, NEW state \in {"idle", "connected"},
           Sony!set_cached_connected(d, state)
    PROVE  /\ shown' \in [Devices -> States]
           /\ \A e \in Devices : e # d => shown'[e] = shown[e]
           /\ \A e \in Devices : e = d => shown'[e] = IF shown[e] = "absent" THEN "absent" ELSE state
BY DEF Sony!set_cached_connected, States

LEMMA SessionIsGone ==
    ASSUME SonyInv, SonyRest, NEW d \in Devices, Sony!RemoveSession(d)
    PROVE  /\ shown' \in [Devices -> States] /\ (thread' = thread => ShownInv')
           /\ enumList' = enumList /\ open' = open \ {d}
<1>1. Sony!set_cached_connected(d, "idle") /\ open' = open \ {d} /\ enumList' = enumList
  BY DEF Sony!RemoveSession, Sony!sn_disconnect
<1>2. shown \in [Devices -> States]
  BY DEF SonyRest, SonyListRest
<1>3. /\ shown' \in [Devices -> States]
      /\ \A e \in Devices : e # d => shown'[e] = shown[e]
      /\ \A e \in Devices : e = d => shown'[e] = IF shown[e] = "absent" THEN "absent" ELSE "idle"
  BY <1>1, <1>2, OneIsShown
<1> QED BY <1>1, <1>3 DEF SonyRest, ShownInv

LEMMA SonyCommandTypes ==
    ASSUME SonyInv, SonyRest, NEW m \in Sony!Heads,
           \/ Sony!Read(m) \/ Sony!prune_dead_session(m) \/ Sony!connect_impl(m) \/ Sony!disconnect_impl(m)
           \/ Sony!get_live_view_impl(m) \/ Sony!sn_capture(m) \/ Sony!sn_release(m)
    PROVE  SonyRest'
<1>1. /\ m \in Sony!Command(Sony!SonyOps)
      /\ m.op \in Sony!SonyCalls => m.dev \in Devices
      /\ open \subseteq Devices /\ gone \subseteq open
  BY SonyHeadIsSent DEF SonySent, Sony!Command, Sony!SonyOps, SonyInv, BorrowInv
<1> USE <1>1 DEF Sony!Takes, Sony!Ready, Sony!Reply, Sony!ThreadStays, Sony!SessionsStay,
    Sony!SonyCalls
<1>2. CASE Sony!Read(m)
  <2>1. SonyThreadRest'
    BY <1>2 DEF Sony!Read, SonyRest, SonyThreadRest
  <2>2. SonyListRest' /\ ShownInv'
    BY <1>2 DEF Sony!Read, SonyRest, SonyListRest, ShownInv, Sony!bridgeVars
  <2> QED BY <2>1, <2>2 DEF SonyRest
<1>3. CASE Sony!prune_dead_session(m)
  <2>1. SonyThreadRest'
    BY <1>3 DEF Sony!prune_dead_session, SonyRest, SonyThreadRest
  <2>2. CASE m.dev \in gone /\ Sony!RemoveSession(m.dev)
    BY <1>3, <2>1, <2>2, SessionIsGone DEF Sony!prune_dead_session, SonyRest, SonyListRest
  <2>3. CASE UNCHANGED <<open, held, gone, shown, Sony!bridgeVars>>
    BY <1>3, <2>1, <2>3 DEF Sony!prune_dead_session, SonyRest, SonyListRest, ShownInv,
       Sony!bridgeVars
  <2> QED BY <1>3, <2>2, <2>3 DEF Sony!prune_dead_session
<1>4. CASE Sony!connect_impl(m)
  <2>1. SonyThreadRest'
    BY <1>4 DEF Sony!connect_impl, SonyRest, SonyThreadRest
  <2>2. m.dev \in Devices /\ UNCHANGED thread /\ shown \in [Devices -> States]
    BY <1>4 DEF Sony!connect_impl, SonyRest, SonyListRest
  <2>3. CASE UNCHANGED shown /\ confirmed' = None /\ UNCHANGED <<open, Sony!bridgeVars>>
    BY <2>1, <2>2, <2>3 DEF SonyRest, SonyListRest, ShownInv, Sony!bridgeVars
  <2>4. CASE /\ Sony!set_cached_connected(m.dev, "connected") /\ confirmed' = m.dev
             /\ open' = open \cup {m.dev} /\ enumList' = enumList
    <3>1. /\ shown' \in [Devices -> States]
          /\ \A e \in Devices : e # m.dev => shown'[e] = shown[e]
          /\ \A e \in Devices : e = m.dev =>
               shown'[e] = IF shown[e] = "absent" THEN "absent" ELSE "connected"
      BY <2>2, <2>4, OneIsShown
    <3>2. SonyListRest'
      BY <2>2, <2>4, <3>1 DEF SonyRest, SonyListRest
    <3>3. ShownInv'
      BY <2>2, <2>4, <3>1 DEF SonyRest, ShownInv
    <3> QED BY <2>1, <3>2, <3>3 DEF SonyRest
  <2> QED BY <1>4, <2>3, <2>4 DEF Sony!connect_impl, Sony!sn_connect, Sony!bridgeVars
<1>5. CASE Sony!disconnect_impl(m)
  <2>1. SonyThreadRest'
    BY <1>5 DEF Sony!disconnect_impl, SonyRest, SonyThreadRest
  <2>2. CASE m.dev \in open /\ Sony!RemoveSession(m.dev)
    BY <1>5, <2>1, <2>2, SessionIsGone DEF Sony!disconnect_impl, SonyRest, SonyListRest
  <2>3. CASE UNCHANGED <<open, held, gone, shown, Sony!bridgeVars>>
    BY <1>5, <2>1, <2>3 DEF Sony!disconnect_impl, SonyRest, SonyListRest, ShownInv, Sony!bridgeVars
  <2> QED BY <1>5, <2>2, <2>3 DEF Sony!disconnect_impl
<1>6. CASE Sony!get_live_view_impl(m)
  <2>1. SonyThreadRest'
    BY <1>6 DEF Sony!get_live_view_impl, SonyRest, SonyThreadRest, Sony!Picture, Sony!Shots
  <2>2. SonyListRest' /\ ShownInv'
    BY <1>6 DEF Sony!get_live_view_impl, SonyRest, SonyListRest, ShownInv, Sony!bridgeVars
  <2> QED BY <2>1, <2>2 DEF SonyRest
<1>7. CASE Sony!sn_capture(m)
  <2>1. SonyThreadRest'
    BY <1>7 DEF Sony!sn_capture, SonyRest, SonyThreadRest, Sony!Exposes
  <2>2. SonyListRest' /\ ShownInv'
    BY <1>7 DEF Sony!sn_capture, SonyRest, SonyListRest, ShownInv, Sony!bridgeVars
  <2> QED BY <2>1, <2>2 DEF SonyRest
<1>8. CASE Sony!sn_release(m)
  <2>1. SonyThreadRest'
    BY <1>8 DEF Sony!sn_release, SonyRest, SonyThreadRest, Sony!Returns
  <2>2. SonyListRest' /\ ShownInv'
    BY <1>8 DEF Sony!sn_release, SonyRest, SonyListRest, ShownInv, Sony!Returns
  <2> QED BY <2>1, <2>2 DEF SonyRest
<1> QED BY <1>2, <1>3, <1>4, <1>5, <1>6, <1>7, <1>8

LEMMA SonyLoopTypes ==
    ASSUME SonyInv, SonyRest, Sony!refresh_cache \/ Sony!CaptureEnds \/ Sony!CaptureTimesOut
    PROVE  SonyRest'
<1>1. CASE Sony!refresh_cache
  <2>1. PICK found \in {present, {}} : Sony!sn_list_devices(found) /\ shown' = Sony!Listed(found, open)
    BY <1>1 DEF Sony!refresh_cache
  <2>2. SonyThreadRest' /\ UNCHANGED <<thread, open, confirmed>>
    BY <1>1 DEF Sony!refresh_cache, Sony!sdkVars, SonyRest, SonyThreadRest
  <2>3. enumList' \subseteq Devices
    BY <2>1 DEF Sony!sn_list_devices, Sony!bridgeVars, SonyRest, SonyThreadRest, SonyListRest
  <2>4. shown' \in [Devices -> States] /\ ShownInv'
    BY <2>1, <2>2 DEF Sony!Listed, States, ShownInv
  <2> QED BY <2>2, <2>3, <2>4 DEF SonyRest, SonyListRest
<1>2. CASE Sony!CaptureEnds \/ Sony!CaptureTimesOut
  <2>1. /\ Sony!EndCapture /\ UNCHANGED Sony!sonyVars
        /\ photo' \in {None, [dev |-> work.dev, shot |-> download[work.dev]]}
        /\ photo' # None => download[work.dev] # None
        /\ work # None
    BY <1>2 DEF Sony!CaptureEnds, Sony!CaptureTimesOut
  <2>2. work.dev \in Devices
    BY <2>1 DEF SonyInv, SonyCaptureInv
  <2>3. photo' \in Sony!Picture \cup {None}
    BY <2>1, <2>2 DEF SonyInv, Sony!Picture
  <2>4. SonyThreadRest'
    BY <2>1, <2>3 DEF Sony!EndCapture, Sony!Reply, SonyRest, SonyThreadRest
  <2>5. SonyListRest' /\ ShownInv'
    BY <2>1 DEF Sony!EndCapture, Sony!sonyVars, SonyRest, SonyListRest, ShownInv
  <2> QED BY <2>4, <2>5 DEF SonyRest
<1> QED BY <1>1, <1>2

(* All that holds of the thread of the Sony SDK. *)
SonyAll == SonyInv /\ SonyRest

LEMMA SonyAllBegins ==
    ASSUME Sony!SdkInit, Sony!SonyInit
    PROVE  SonyAll /\ Contract!ContractInit
<1>1. SonyInv /\ Contract!ContractInit
  BY SonyStarts
<1>2. SonyThreadRest
  BY DEF Sony!SdkInit, SonyThreadRest
<1>3. SonyListRest /\ ShownInv
  BY DEF Sony!SdkInit, Sony!SonyInit, SonyListRest, ShownInv, Sony!Listed, States
<1> QED BY <1>1, <1>2, <1>3 DEF SonyAll, SonyRest

LEMMA SonyAllStep ==
    ASSUME SonyAll, [Sony!SonyNext]_sonyState
    PROVE  SonyAll' /\ Keeps
<1>1. SonyInv' /\ Keeps
  BY SonyStep DEF SonyAll
<1>2. SonyInv /\ SonyRest
  BY DEF SonyAll
<1>3. SonyRest'
  <2>1. CASE Sony!SonyNext
    BY <1>2, <2>1, SonyAroundTypes, SonyEventTypes, SonyCommandTypes, SonyLoopTypes
       DEF Sony!SonyNext, Sony!actor_thread
  <2>2. CASE UNCHANGED sonyState
    BY <1>2, <2>2 DEF sonyState, Sony!sdkVars, Sony!sonyVars, SonyRest, SonyThreadRest,
       SonyListRest, ShownInv
  <2> QED BY <2>1, <2>2
<1> QED BY <1>1, <1>3 DEF SonyAll

(* A session ends when it was asked to, when the SDK has ended it, or with
   the thread. *)
LEMMA SonyEndings ==
    ASSUME SonyAll, [Sony!SonyNext]_sonyState, NEW d \in open \ open'
    PROVE  \/ thread' = "ended" \/ d \in gone
           \/ inbox # <<>> /\ Head(inbox).op = "Disconnect" /\ Head(inbox).dev = d
<1>1. CASE Sony!SonyAround \/ Sony!SonyEvents \/ UNCHANGED sonyState
  BY <1>1 DEF Sony!SonyAround, Sony!SonyEvents, Sony!Call, Sony!CallShutdown, Sony!DropBackend,
     Sony!PlugIn, Sony!PullOut, Sony!OnDisconnected, Sony!OnCompleteDownload, Sony!sdkVars,
     sonyState
<1>2. CASE Sony!refresh_cache \/ Sony!CaptureEnds \/ Sony!CaptureTimesOut
  BY <1>2 DEF Sony!refresh_cache, Sony!CaptureEnds, Sony!CaptureTimesOut, Sony!EndCapture,
     Sony!sdkVars
<1>3. ASSUME NEW m \in Sony!Heads,
             \/ Sony!Read(m) \/ Sony!prune_dead_session(m) \/ Sony!connect_impl(m) \/ Sony!disconnect_impl(m)
             \/ Sony!get_live_view_impl(m) \/ Sony!sn_capture(m) \/ Sony!sn_release(m)
      PROVE  \/ thread' = "ended" \/ d \in gone
             \/ inbox # <<>> /\ Head(inbox).op = "Disconnect" /\ Head(inbox).dev = d
  <2>1. inbox # <<>> /\ m = Head(inbox)
    BY DEF Sony!Heads
  <2>2. CASE Sony!Read(m) \/ Sony!connect_impl(m) \/ Sony!get_live_view_impl(m) \/ Sony!sn_capture(m)
    BY <2>2 DEF Sony!Read, Sony!connect_impl, Sony!get_live_view_impl, Sony!sn_capture,
       Sony!SessionsStay
  <2>3. CASE Sony!prune_dead_session(m)
    BY <2>3 DEF Sony!prune_dead_session, Sony!RemoveSession
  <2>4. CASE Sony!disconnect_impl(m)
    BY <2>1, <2>4 DEF Sony!disconnect_impl, Sony!RemoveSession, Sony!Takes
  <2>5. CASE Sony!sn_release(m)
    BY <2>5 DEF Sony!sn_release, Sony!Returns
  <2> QED BY <1>3, <2>2, <2>3, <2>4, <2>5
<1> QED BY <1>1, <1>2, <1>3 DEF Sony!SonyNext, Sony!actor_thread

-----------------------------------------------------------------------------
(* The three of them, one of which the first state chooses. *)

(* A step of the backend chosen, and of no other. *)
Chosen(backend, A) ==
    /\ script.backend = backend
    /\ A
    /\ RecordSweep
    /\ UNCHANGED script

AnyNext ==
    \/ Chosen("canon", Canon!CanonNext) /\ UNCHANGED <<nikonVars, sonyVars>>
    \/ Chosen("nikon", Nikon!NikonNext) /\ UNCHANGED <<canonVars, sonyVars>>
    \/ Chosen("sony", Sony!SonyNext) /\ UNCHANGED <<canonVars, nikonVars>>

(* MCSdk without its scripts: the callers send any commands, about any of the
   bodies, and as many bodies and callers take part as there are. *)
AnySpec ==
    /\ SdkInit /\ Canon!CanonInit /\ Nikon!NikonInit /\ Sony!SonyInit
    /\ script.backend \in {"canon", "nikon", "sony"}
    /\ swept = {}
    /\ [][AnyNext]_vars

(* What holds of any commands holds of those of a script. *)
THEOREM ScriptsAreCases == Spec => AnySpec
<1>1. Init => /\ SdkInit /\ Canon!CanonInit /\ Nikon!NikonInit /\ Sony!SonyInit
              /\ script.backend \in {"canon", "nikon", "sony"}
              /\ swept = {}
  BY DEF Init, Scripts, CanonScripts, NikonScripts, SonyScripts, Script
<1>2. [Next]_vars => [AnyNext]_vars
  BY DEF Next, Canons, Nikons, Sonys, Recorded, AnyNext, Chosen
<1> QED BY <1>1, <1>2, PTL DEF Spec, AnySpec

(* The scan that found nothing was of an empty bus: every body was off the
   bus at the time of it. *)
SweptInv == ToldOfGone(inbox) => Devices \subseteq swept

SdkInv ==
    /\ script.backend \in {"canon", "nikon", "sony"}
    /\ script.backend = "canon" => CanonAll
    /\ script.backend = "nikon" => NikonAll /\ SweptInv
    /\ script.backend = "sony" => SonyAll
    /\ script.backend # "canon" => zoomShown = None

(* What a step of MCSdk is to the thread that was chosen. *)
LEMMA StepOfOne ==
    ASSUME [AnyNext]_vars
    PROVE  /\ script' = script \/ ~(script.backend \in {"canon", "nikon", "sony"})
           /\ script.backend = "canon" => [Canon!CanonNext]_canonState
           /\ script.backend = "nikon" =>
                /\ [Nikon!NikonNext]_nikonState
                /\ RecordSweep \/ UNCHANGED <<swept, inbox>>
           /\ script.backend = "sony" => [Sony!SonyNext]_sonyState
           /\ script.backend # "canon" => zoomShown' = zoomShown
<1>1. CASE Chosen("canon", Canon!CanonNext)
  BY <1>1 DEF Chosen
<1>2. CASE Chosen("nikon", Nikon!NikonNext) /\ UNCHANGED canonVars
  BY <1>2 DEF Chosen, canonVars
<1>3. CASE Chosen("sony", Sony!SonyNext) /\ UNCHANGED canonVars
  BY <1>3 DEF Chosen, canonVars
<1>4. CASE UNCHANGED vars
  BY <1>4 DEF vars, sdkVars, canonVars, nikonVars, sonyVars, canonState, nikonState, sonyState,
     Canon!sdkVars, Canon!canonVars, Nikon!sdkVars, Nikon!nikonVars, Sony!sdkVars,
     Sony!sonyVars
<1> QED BY <1>1, <1>2, <1>3, <1>4 DEF AnyNext

(* The chosen thread keeps its invariant, and to the contract. *)
LEMMA SdkStep ==
    ASSUME SdkInv, [AnyNext]_vars
    PROVE  SdkInv' /\ Keeps
<1>1. script' = script /\ script.backend \in {"canon", "nikon", "sony"}
  BY StepOfOne DEF SdkInv
<1>2. CASE script.backend = "canon"
  <2>1. CanonAll /\ [Canon!CanonNext]_canonState
    BY <1>2, StepOfOne DEF SdkInv
  <2>2. CanonAll' /\ Keeps
    BY <2>1, CanonAllStep
  <2> QED BY <1>1, <1>2, <2>2 DEF SdkInv
<1>3. CASE script.backend = "nikon"
  <2>1. NikonAll /\ [Nikon!NikonNext]_nikonState /\ SweptInv
    BY <1>3, StepOfOne DEF SdkInv
  <2>2. NikonAll' /\ Keeps
    BY <2>1, NikonAllStep
  <2>3. ToldOfGone(inbox') => Posted
    BY <2>1, NikonPosts DEF NikonAll
  <2>4. SweptInv'
    <3>1. CASE RecordSweep
      BY <2>1, <2>3, <3>1 DEF SweptInv, RecordSweep, Posted, SendsGone
    <3>2. CASE UNCHANGED <<swept, inbox>>
      BY <2>1, <3>2 DEF SweptInv, ToldOfGone
    <3> QED BY <1>3, <3>1, <3>2, StepOfOne
  <2>5. zoomShown' = None
    BY <1>3, StepOfOne DEF SdkInv
  <2> QED BY <1>1, <1>3, <2>2, <2>4, <2>5 DEF SdkInv
<1>4. CASE script.backend = "sony"
  <2>1. SonyAll /\ [Sony!SonyNext]_sonyState
    BY <1>4, StepOfOne DEF SdkInv
  <2>2. SonyAll' /\ Keeps
    BY <2>1, SonyAllStep
  <2>3. zoomShown' = None
    BY <1>4, StepOfOne DEF SdkInv
  <2> QED BY <1>1, <1>4, <2>2, <2>3 DEF SdkInv
<1> QED BY <1>1, <1>2, <1>3, <1>4

LEMMA SdkBegins == AnySpec => SdkInv /\ Contract!ContractInit
<1> SUFFICES ASSUME SdkInit, Canon!CanonInit, Nikon!NikonInit, Sony!SonyInit,
                    script.backend \in {"canon", "nikon", "sony"}, swept = {}
             PROVE  SdkInv /\ Contract!ContractInit
  BY DEF AnySpec
<1>1. Canon!SdkInit /\ Nikon!SdkInit /\ Sony!SdkInit
  BY DEF SdkInit, Canon!SdkInit, Nikon!SdkInit, Sony!SdkInit
<1>2. CanonAll /\ NikonAll /\ Contract!ContractInit
  BY <1>1, CanonAllBegins, NikonAllBegins
<1>3. SonyAll
  BY <1>1, SonyAllBegins
<1>4. zoomShown = None
  BY DEF Canon!CanonInit
<1>5. SweptInv
  BY DEF SdkInit, SweptInv, ToldOfGone
<1> QED BY <1>2, <1>3, <1>4, <1>5 DEF SdkInv

LEMMA SdkInvariant == AnySpec => []SdkInv
<1>1. SdkInv /\ [AnyNext]_vars => SdkInv'
  BY SdkStep
<1> QED BY <1>1, SdkBegins, PTL DEF AnySpec

(* Every variable of the chosen backend keeps its type: what the callers send,
   the table of sessions, the slots that the callbacks fill, the stalled
   polls, which stay below the limit. *)
THEOREM SdkKeepsTypes == AnySpec => []TypeOK
<1>1. SdkInv => TypeOK
  BY NikonTypesAre, SonyTypesAre DEF SdkInv, CanonAll, NikonAll, SonyAll, TypeOK
<1> QED BY <1>1, SdkInvariant, PTL

(* No session leaks: what the EDSDK or the bridge of Sony holds open has an
   entry in the table, and no session uses an enumeration that was released. *)
THEOREM NothingLeaks == AnySpec => []NoLeak
<1>1. SdkInv => NoLeak
  BY DEF SdkInv, CanonAll, CanonInv, SonyAll, SonyInv, NoLeak
<1> QED BY <1>1, SdkInvariant, PTL

(* Whatever the vendor, a capture is never answered with an image that was
   announced before it began. *)
THEOREM PhotosAreNotStale == AnySpec => []NoStalePhoto
<1>1. SdkInv => NoStalePhoto
  BY DEF SdkInv, CanonAll, CanonInv, NikonAll, NikonInv, SonyAll, SonyInv
<1> QED BY <1>1, SdkInvariant, PTL

(* What is shown is true.  A Canon body is never reported at Fit while it
   magnifies, although the frames it is read from lag behind and the body may
   fall back to Fit by itself; and the level is the true one once the live view
   shows it, of a body that is where it was last asked to be.  The list that
   Sony shows agrees with the table of sessions through connects, lost sessions
   and scans. *)
THEOREM WhatIsShownIsTrue == AnySpec => []ShownIsTrue
<1>1. SdkInv => Canon!ZoomIsTrue
  <2>1. zoomShown = None => Canon!ZoomIsTrue
    BY DEF Canon!ZoomIsTrue
  <2> QED BY <2>1 DEF SdkInv, CanonAll, ZoomInv
<1>2. SdkInv => ShownIsTrue
  BY <1>1 DEF SdkInv, SonyAll, SonyRest, ShownInv, ShownIsTrue
<1> QED BY <1>2, SdkInvariant, PTL

(* Each of the three backends implements the contract: sessions open one at a
   time and on a body that is really open, a step that opens no session claims
   nothing, a picture is of an open session, and an ended thread changes
   nothing. *)
THEOREM BackendsKeepContract == AnySpec => ContractSpec
<1>1. SdkInv /\ [AnyNext]_vars => Keeps
  BY SdkStep
<1> QED
  BY <1>1, SdkBegins, SdkInvariant, PTL DEF AnySpec, Keeps, ContractSpec, Contract!ContractSpec

(* A session ends for a reason only, in any step: it was asked to, the thread
   ended, the body is lost or the connect that replaces the session fails
   (Canon), the SDK has ended it (Sony), the live view stalled once too often or
   the thread is told of an empty bus (Nikon).  The bus really was empty when it
   was scanned, however long the thread took to be told: that the body was not
   back and connected meanwhile is not claimed. *)
THEOREM SessionsEndRightly == AnySpec => SessionsEndForAReason
<1>1. ASSUME SdkInv, [AnyNext]_vars, NEW d \in open \ open'
      PROVE  \/ thread' = "ended" \/ Commanded("Disconnect", d)
             \/ script.backend = "canon" /\ (d \in lost \/ Commanded("Connect", d))
             \/ script.backend = "sony" /\ d \in gone
             \/ /\ script.backend = "nikon"
                /\ stall + 1 = StallLimit \/ (Commanded("UsbGone", None) /\ d \in swept)
  <2>1. CASE script.backend = "canon"
    BY <1>1, <2>1, StepOfOne, CanonEndings DEF SdkInv, CanonAll, Commanded
  <2>2. CASE script.backend = "nikon"
    <3>1. NikonAll /\ [Nikon!NikonNext]_nikonState /\ SweptInv
      BY <1>1, <2>2, StepOfOne DEF SdkInv
    <3>2. inbox \in Seq(NikonSent) /\ d \in Devices
      BY <1>1, <3>1 DEF NikonAll, NikonInv
    <3>3. inbox # <<>> /\ Head(inbox).op = "UsbGone" => ToldOfGone(inbox)
      <4>1. inbox # <<>> => 1 \in DOMAIN inbox /\ Head(inbox) = inbox[1]
        BY <3>2
      <4> QED BY <4>1 DEF ToldOfGone
    <3>4. inbox # <<>> /\ Head(inbox).op = "UsbGone" => d \in swept
      BY <3>1, <3>2, <3>3 DEF SweptInv
    <3> QED BY <1>1, <2>2, <3>1, <3>4, NikonEndings DEF Commanded
  <2>3. CASE script.backend = "sony"
    BY <1>1, <2>3, StepOfOne, SonyEndings DEF SdkInv, Commanded
  <2> QED BY <1>1, <2>1, <2>2, <2>3 DEF SdkInv
<1>2. SdkInv /\ [AnyNext]_vars =>
        [\A d \in open \ open' :
           \/ thread' = "ended" \/ Commanded("Disconnect", d)
           \/ script.backend = "canon" /\ (d \in lost \/ Commanded("Connect", d))
           \/ script.backend = "sony" /\ d \in gone
           \/ /\ script.backend = "nikon"
              /\ stall + 1 = StallLimit \/ (Commanded("UsbGone", None) /\ d \in swept)]_vars
  BY <1>1
<1> QED BY <1>2, SdkInvariant, PTL DEF AnySpec, SessionsEndForAReason
=============================================================================
