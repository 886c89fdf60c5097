----------------------------- MODULE Camera2Actor -----------------------------
(***************************************************************************)
(* The camera of a phone: one thread runs every command, the camera hands   *)
(* its pictures to a callback on a thread of its own.  A photo takes the    *)
(* session of the live view away and puts it back.                          *)
(***************************************************************************)
EXTENDS Rotation, Sequences

CONSTANTS
  None,          \* no session, no picture
  Sizes,         \* the sizes of JPEG photos, the largest first
  Orientations,  \* what the host reports
  Bodies,        \* mounting and facing of a camera, what it does with an angle
  MaxShots       \* bound: how many photos are ever taken

VARIABLES
  body,     \* what the camera is
  device,   \* the orientation the host reported last
  actor,    \* what the thread is at: "free", a stage of a photo, "ended"
  session,  \* the settings of the session, None if the camera is not connected
  preview,  \* the exposure the live view runs with, None if it does not run
  slot,     \* what the callback left: None or a picture
  busy,     \* the shot the camera is working on, None if there is none
  shots,    \* how many photos were taken
  job,      \* the photo under way: what is asked for, what the camera gave
  out,      \* the last answer: a photo or a frame
  refused,  \* history: the last change of the exposure was refused
  lost      \* history: the live view could not be put back after the last photo

camera2Vars ==
  <<body, device, actor, session, preview, slot, busy, shots, job, out, refused, lost>>

(* Shutter speeds: the bridge starts from one that is not in the list, and the *)
(* last is slower than what a live view may have.                          *)
Speeds == {"first", "near", "slow"}
Snapped(exposure) == IF exposure = "first" THEN "near" ELSE exposure

(* The exposure as the request of a photo carries it: automatic unless ISO or *)
(* shutter is manual.                                                      *)
Exposure(set) == IF set.auto THEN "auto" ELSE set.speed

(* The request of the live view has 1/30 s instead of anything slower.  At     *)
(* first it has what the system proposes.                                  *)
Capped(exposure) == IF exposure = "slow" THEN "1/30" ELSE exposure
Template == "template"
Exposures == Speeds \cup {"auto", "1/30", Template}

Session ==
  [auto : BOOLEAN, speed : Speeds, size : {Sizes[i] : i \in DOMAIN Sizes} \cup {None},
   rotate : BOOLEAN, req : Exposures, open : BOOLEAN]

Camera2TypeOK ==
  /\ body \in Bodies
  /\ device \in {ORIENTATION_UNKNOWN} \cup 0..359
  /\ actor \in {"free", "paused", "waiting", "restore", "ended"}
  /\ session \in Session \cup {None}
  /\ preview \in Exposures \cup {None}
  /\ busy \in 1..shots \cup {None}
  /\ shots \in 0..MaxShots

Camera2Init ==
  /\ body \in Bodies
  /\ device = ORIENTATION_UNKNOWN
  /\ actor = "free"
  /\ session = None
  /\ preview = None
  /\ slot = None
  /\ busy = None
  /\ shots = 0
  /\ job = None
  /\ out = None
  /\ refused = FALSE
  /\ lost = FALSE

-----------------------------------------------------------------------------
Free == actor = "free"
Connected == session # None

(* The turn that is asked for; none with the switch off. *)
rotation ==
  IF session.rotate THEN jpeg_orientation(body.sensor, device, body.front) ELSE 0

(* setDeviceRotation: the host reports at any time. *)
Report ==
  /\ \E degrees \in Orientations : device' = set_device_orientation(degrees)
  /\ UNCHANGED <<body, actor, session, preview, slot, busy, shots, job, out, refused, lost>>

(* connect_impl: a connected camera stays as it is. *)
Connect ==
  /\ Free /\ ~Connected
  /\ session' = [auto |-> TRUE, speed |-> "first", size |-> None, rotate |-> TRUE,
                 req |-> Template, open |-> TRUE]
  /\ preview' = Template
  /\ refused' = FALSE /\ lost' = FALSE
  /\ out' = None
  /\ UNCHANGED <<body, device, actor, slot, busy, shots, job>>

(* disconnect_impl, or the end of the thread: the session closes as it is dropped. *)
Close(then) ==
  /\ Free
  /\ actor' = then
  /\ session' = None /\ preview' = None /\ slot' = None
  /\ out' = None
  /\ UNCHANGED <<body, device, busy, shots, job, refused, lost>>

Disconnect == Connected /\ Close("free")
Shutdown == Close("ended")

(* get_parameters_impl: reading the list moves the speed to one of its        *)
(* options, and takes the largest size when none was chosen yet.             *)
GetParameters ==
  /\ Free /\ Connected
  /\ session' = [session EXCEPT
       !.speed = Snapped(@),
       !.size = IF @ = None /\ body.jpeg THEN Sizes[1] ELSE @]
  /\ out' = None
  /\ UNCHANGED <<body, device, actor, preview, slot, busy, shots, job, refused, lost>>

(* set_parameter_impl: the switch for turning is the backend's own. *)
SetRotate ==
  /\ Free /\ Connected
  /\ session' = [session EXCEPT !.rotate = ~@]
  /\ out' = None
  /\ UNCHANGED <<body, device, actor, preview, slot, busy, shots, job, refused, lost>>

(* ac_set_parameter needs the session of the live view; the size only counts *)
(* for the next photo.                                                     *)
SetSize ==
  /\ Free /\ Connected /\ session.open /\ body.jpeg
  /\ \E i \in DOMAIN Sizes : session' = [session EXCEPT !.size = Sizes[i]]
  /\ out' = None
  /\ UNCHANGED <<body, device, actor, preview, slot, busy, shots, job, refused, lost>>

(* The settings go into the request of the live view in one pass, and it is   *)
(* started again; the camera may refuse, and the settings are kept anyway.    *)
Apply(set) ==
  /\ session' = [set EXCEPT !.req = Capped(Exposure(set))]
  /\ \/ preview' = Capped(Exposure(set)) /\ refused' = FALSE
     \/ preview' = preview /\ refused' = TRUE

SetExposure ==
  /\ Free /\ Connected /\ session.open
  /\ \/ Apply([session EXCEPT !.auto = ~@])
     \/ \E speed \in {"near", "slow"} : Apply([session EXCEPT !.speed = speed])
  /\ out' = None
  /\ UNCHANGED <<body, device, actor, slot, busy, shots, job, lost>>

-----------------------------------------------------------------------------
(* capture_frame_impl: turned as the pixels are converted; "not ready" when *)
(* no frame comes in half a second.                                        *)
CaptureFrame ==
  /\ Free /\ Connected
  /\ \/ preview # None /\ out' = [kind |-> "frame", turned |-> rotation, asked |-> rotation]
     \/ out' = None
  /\ UNCHANGED <<body, device, actor, session, preview, slot, busy, shots, job, refused, lost>>

(* capture_photo_impl asks for the angle of now and stops the live view. *)
CapturePhoto ==
  /\ Free /\ Connected
  /\ job' = [asked |-> rotation, exposure |-> None, raw |-> None]
  /\ preview' = None
  /\ actor' = "paused"
  /\ out' = None
  /\ UNCHANGED <<body, device, session, slot, busy, shots, refused, lost>>

PhotoSize ==
  IF ~body.jpeg THEN <<16, 9>> ELSE IF session.size = None THEN Sizes[1] ELSE session.size

(* Faulty variant for AnswersAreTrue: what the callback left is not cleared. *)
KeepSlot == slot

ClearSlot == None

(* The settings go into the request of the photo, the slot is cleared and the *)
(* shot asked for.                                                         *)
Shoot ==
  /\ actor = "paused"
  /\ shots < MaxShots
  /\ shots' = shots + 1
  /\ busy' = shots + 1
  /\ slot' = ClearSlot
  /\ job' = [job EXCEPT !.exposure = Exposure(session)]
  /\ actor' = "waiting"
  /\ UNCHANGED <<body, device, session, preview, out, refused, lost>>

(* No reader, no session or no request for the photo; the slot is cleared    *)
(* before the camera refuses the request itself.                            *)
ShootFails ==
  /\ actor = "paused"
  /\ slot' \in {slot, ClearSlot}
  /\ actor' = "restore"
  /\ UNCHANGED <<body, device, session, preview, busy, shots, job, out, refused, lost>>

(* What the camera makes of the angle it was asked for. *)
Plain == [kind |-> "photo", shot |-> busy, asked |-> job.asked, exposure |-> job.exposure,
          w |-> PhotoSize[1], h |-> PhotoSize[2], turned |-> 0, tag |-> 0, broken |-> FALSE]

Given ==
  IF ~body.jpeg THEN {TurnBy(Plain, job.asked)}
  ELSE CASE body.hal = "turns" -> {TurnBy(Plain, job.asked), [TurnBy(Plain, job.asked) EXCEPT !.tag = 1]}
         [] body.hal = "tags" -> {[Plain EXCEPT !.tag = exif_tag_for(job.asked)]}
         [] body.hal = "ignores" -> {Plain, [Plain EXCEPT !.tag = 1]}

Unreadable == [kind |-> "unreadable"]

(* on_photo_available, until the reader is deleted: also after the wait. *)
PhotoAvailable ==
  /\ busy # None
  /\ actor \in {"waiting", "restore"}
  /\ slot' \in Given \cup {Unreadable}
  /\ busy' = None
  /\ UNCHANGED <<body, device, actor, session, preview, shots, job, out, refused, lost>>

(* Faulty variant for LiveViewComesBack: a photo that timed out returns at   *)
(* once.                                                                   *)
WaitEndsEarly ==
  /\ actor = "waiting"
  /\ IF slot \in {None, Unreadable}
       THEN actor' = "free" /\ UNCHANGED <<slot, job>>
       ELSE actor' = "restore" /\ job' = [job EXCEPT !.raw = slot] /\ slot' = None
  /\ UNCHANGED <<body, device, session, preview, busy, shots, out, refused, lost>>

(* The wait of eight seconds ends with a picture, without one, or with none *)
(* that could be read.                                                     *)
WaitEnds ==
  /\ actor = "waiting"
  /\ IF slot \in {None, Unreadable}
       THEN UNCHANGED <<slot, job>>
       ELSE job' = [job EXCEPT !.raw = slot] /\ slot' = None
  /\ actor' = "restore"
  /\ UNCHANGED <<body, device, session, preview, busy, shots, out, refused, lost>>

(* What is left to turn is turned here. *)
Finished(pic) ==
  LET left == residual_rotation(pic, job.asked, PhotoSize[1], PhotoSize[2])
  IN  IF ~body.jpeg \/ left = 0 THEN {pic} ELSE rotate_jpeg(pic, left)

(* The reader of the photo goes and the live view is put back, which may     *)
(* fail, with or without a session; then the photo is finished.             *)
Restore ==
  /\ actor = "restore"
  /\ busy' = None
  /\ \/ /\ session' = [session EXCEPT !.open = TRUE]
        /\ preview' = session.req
        /\ refused' = FALSE /\ lost' = FALSE
     \/ /\ \E open \in BOOLEAN : session' = [session EXCEPT !.open = open]
        /\ lost' = TRUE
        /\ UNCHANGED <<preview, refused>>
  /\ out' \in IF job.raw = None THEN {None} ELSE Finished(job.raw)
  /\ job' = None
  /\ actor' = "free"
  /\ UNCHANGED <<body, device, slot, shots>>

Camera2Next ==
  \/ Report \/ Connect \/ Disconnect \/ Shutdown \/ GetParameters
  \/ SetRotate \/ SetSize \/ SetExposure \/ CaptureFrame
  \/ CapturePhoto \/ Shoot \/ ShootFails \/ PhotoAvailable \/ WaitEnds \/ Restore

-----------------------------------------------------------------------------
IsPhoto == out # None /\ out.kind = "photo"

(* Whether what the camera did with the angle can be told from the picture:   *)
(* a square picture that was turned looks like one that was not, and so does *)
(* one that should have been turned by half.                               *)
Telling ==
  LET sideways == Sideways(out.asked)
  IN  \/ ~body.jpeg \/ out.asked = 0 \/ body.hal = "tags"
      \/ body.hal = "turns" /\ (sideways => out.w # out.h)
      \/ body.hal = "ignores" /\ sideways /\ ~out.broken

(* A photo is turned by the angle it was asked for exactly once, whether the  *)
(* camera turned it, wrote a tag or did nothing, and viewers that know the   *)
(* tag see it as those that do not; a JPEG that cannot be turned still has    *)
(* its tag.                                                                *)
TurnedOnce ==
  /\ out # None /\ out.kind = "frame" => out.turned = out.asked
  /\ IsPhoto /\ Telling =>
       /\ (out.turned + AngleOf(out.tag)) % 360 = out.asked
       /\ ~out.broken => AngleOf(out.tag) = 0

(* A photo is the shot of the call that returns it, also when the picture of *)
(* an earlier call came after its wait was over; and it is exposed as the     *)
(* list of parameters shows, however slow that is ("preview and capture       *)
(* exposure are independent").                                             *)
OwnPhoto ==
  IsPhoto /\ Free =>
    /\ out.shot = shots
    /\ Snapped(out.exposure) = Snapped(Exposure(session))

(* Whatever went wrong in a photo, the live view runs again afterwards, unless *)
(* the camera would not have it back.                                       *)
LiveViewSurvives == Free /\ Connected /\ ~lost => preview # None

(* The live view runs with the exposure the list of parameters shows, as far   *)
(* as it may, unless the camera refused it; a photo puts back what was set,    *)
(* and not what ran or what it was taken with.                              *)
ShownIsRunning ==
  Free /\ Connected /\ preview \notin {None, Template} /\ ~refused =>
    Snapped(preview) = Capped(Snapped(Exposure(session)))
=============================================================================
