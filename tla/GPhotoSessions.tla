----------------------------- MODULE GPhotoSessions -----------------------------
(***************************************************************************)
(* The sessions of the gphoto2 backend with one body.  There is no thread    *)
(* for the SDK: every caller takes a handle of its own on the camera out of  *)
(* the table and uses it without the lock, and so does the thread that      *)
(* keeps the body awake.  The body is released with the last handle.         *)
(***************************************************************************)
EXTENDS Naturals

CONSTANTS
  Callers,     \* the threads of the server that call the backend
  MaxHandles   \* bound: how many times the body is opened

VARIABLES
  plugged,   \* whether the body is there
  drives,    \* whether it obeys when told to move its focus
  entry,     \* the session in the table, 0 if there is none
  opened,    \* the last session opened
  call,      \* what each caller is at, and with which session
  pinging,   \* the session the keep-alive thread has taken, 0 if none
  verdict,   \* what is remembered of the focus: "unknown", "works", "refuses"
  slipped    \* history: a body that drives its focus gave a bare error

gphotoVars == <<plugged, drives, entry, opened, call, pinging, verdict, slipped>>

Idle == [at |-> "idle", session |-> 0]

Stages == {"idle", "open", "insert", "use", "list", "probe", "drive"}

GPhotoTypeOK ==
  /\ plugged \in BOOLEAN /\ drives \in BOOLEAN
  /\ opened \in 0..MaxHandles
  /\ entry \in 0..opened
  /\ call \in [Callers -> [at : Stages, session : 0..opened]]
  /\ pinging \in 0..opened
  /\ verdict \in {"unknown", "works", "refuses"}
  /\ slipped \in BOOLEAN

(* The sessions somebody has a handle of: the body is open for these. *)
Handles == ({entry, pinging} \cup {call[c].session : c \in Callers}) \ {0}

GPhotoInit ==
  /\ plugged = TRUE
  /\ drives \in BOOLEAN
  /\ entry = 0
  /\ opened = 0
  /\ call = [c \in Callers |-> Idle]
  /\ pinging = 0
  /\ verdict = "unknown"
  /\ slipped = FALSE

-----------------------------------------------------------------------------
Stage(c, stage) == call[c].at = stage
Becomes(c, stage, session) == call' = [call EXCEPT ![c] = [at |-> stage, session |-> session]]

(* connect: nothing to do if connected; otherwise the body is looked up and  *)
(* opened without the lock, which fails while somebody has it open...         *)
Connect(c) ==
  /\ Stage(c, "idle") /\ entry = 0
  /\ Becomes(c, "open", 0)
  /\ UNCHANGED <<plugged, drives, entry, opened, pinging, verdict, slipped>>

Open(c) ==
  /\ Stage(c, "open")
  /\ IF plugged /\ Handles = {} /\ opened < MaxHandles
       THEN opened' = opened + 1 /\ Becomes(c, "insert", opened + 1)
       ELSE Becomes(c, "idle", 0) /\ UNCHANGED opened
  /\ UNCHANGED <<plugged, drives, entry, pinging, verdict, slipped>>

(* ... and entered in the table; a session that was there is dropped. *)
Insert(c) ==
  /\ Stage(c, "insert")
  /\ entry' = call[c].session
  /\ Becomes(c, "idle", 0)
  /\ UNCHANGED <<plugged, drives, opened, pinging, verdict, slipped>>

Disconnect(c) ==
  /\ Stage(c, "idle")
  /\ entry' = 0
  /\ UNCHANGED <<plugged, drives, opened, call, pinging, verdict, slipped>>

(* Every other call takes a handle (camera_for), or answers "not connected". *)
Take(c, stage) ==
  /\ Stage(c, "idle") /\ entry # 0
  /\ Becomes(c, stage, entry)
  /\ UNCHANGED <<plugged, drives, entry, opened, pinging, verdict, slipped>>

(* get_live_view_frame, capture_photo, set_parameter: the body answers or is  *)
(* gone; the handle is dropped either way.                                 *)
Use(c) == Take(c, "use")

Used(c) ==
  /\ Stage(c, "use")
  /\ Becomes(c, "idle", 0)
  /\ UNCHANGED <<plugged, drives, entry, opened, pinging, verdict, slipped>>

(* get_parameters: a body with a focus range is probed once.  What is        *)
(* remembered decides, and a probe that could not tell shows the control.     *)
GetParameters(c) == Take(c, "list")

Listed(c) ==
  /\ Stage(c, "list")
  /\ IF verdict = "unknown"
       THEN Becomes(c, "probe", call[c].session)
       ELSE Becomes(c, "idle", 0)
  /\ UNCHANGED <<plugged, drives, entry, opened, pinging, verdict, slipped>>

(* What a body says when its motor is told to move: it did, it is busy or    *)
(* gone, or a bare error (GP_ERROR), which is all that one says that refuses   *)
(* and which others may say for another reason.                            *)
Answers == {"busy", "bare"} \cup (IF plugged /\ drives THEN {"ok"} ELSE {})

Slips(answer) == slipped' = (slipped \/ (answer = "bare" /\ drives))

(* The motor is told to move by one step: a bare error counts as a refusal,   *)
(* and one that says the body is busy or gone says nothing about it.         *)
Probe(c) ==
  /\ Stage(c, "probe")
  /\ \E answer \in Answers :
       /\ verdict' = CASE answer = "ok" -> "works"
                       [] answer = "bare" -> "refuses"
                       [] answer = "busy" -> verdict
       /\ Slips(answer)
  /\ Becomes(c, "idle", 0)
  /\ UNCHANGED <<plugged, drives, entry, opened, pinging>>

(* set_parameter of the focus: a refusal is remembered. *)
DriveFocus(c) == Take(c, "drive")

Driven(c) ==
  /\ Stage(c, "drive")
  /\ \E answer \in Answers :
       verdict' = (IF answer = "bare" THEN "refuses" ELSE verdict) /\ Slips(answer)
  /\ Becomes(c, "idle", 0)
  /\ UNCHANGED <<plugged, drives, entry, opened, pinging>>

-----------------------------------------------------------------------------
(* Faulty variant for IdleIsReleased: the handles are held while it sleeps. *)
KeepHandles == pinging

(* The keep-alive thread takes handles of all cameras, pings them, and drops *)
(* the handles before it sleeps again.                                      *)
DropHandles == 0

Wake ==
  /\ pinging = 0 /\ entry # 0
  /\ pinging' = entry
  /\ UNCHANGED <<plugged, drives, entry, opened, call, verdict, slipped>>

Pinged ==
  /\ pinging # 0
  /\ pinging' = DropHandles
  /\ UNCHANGED <<plugged, drives, entry, opened, call, verdict, slipped>>

Unplug ==
  /\ plugged
  /\ plugged' = FALSE
  /\ UNCHANGED <<drives, entry, opened, call, pinging, verdict, slipped>>

CallStep(c) ==
  Open(c) \/ Insert(c) \/ Used(c) \/ Listed(c) \/ Probe(c) \/ Driven(c)

GPhotoNext ==
  \/ \E c \in Callers :
       Connect(c) \/ Disconnect(c) \/ Use(c) \/ GetParameters(c) \/ DriveFocus(c) \/ CallStep(c)
  \/ Wake \/ Pinged \/ Unplug

-----------------------------------------------------------------------------
(* A body that is disconnected for good is given back to the system, although *)
(* calls under way and the keep-alive thread still have handles of it.       *)
BodyIsReleased == (<>[](entry = 0)) => <>[](Handles = {})

(* What is remembered of a body is true of it, whichever of two callers asked *)
(* and told last: a body that drives keeps its focus in the list, unless it   *)
(* once answered with the bare error that a body gives which does not.       *)
FocusIsNotLost ==
  /\ verdict = "refuses" /\ ~slipped => ~drives
  /\ verdict = "works" => drives
=============================================================================
