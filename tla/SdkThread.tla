------------------------------ MODULE SdkThread ------------------------------
(***************************************************************************)
(* The thread that owns the SDK of a camera vendor, as the methods of a     *)
(* backend see it: they send a command over a channel and block until the  *)
(* thread has answered.  Canon, Nikon, Sony and the webcam backends extend  *)
(* this module with what their threads do.                                  *)
(***************************************************************************)
EXTENDS Naturals, Sequences

CONSTANTS
  Callers,  \* the threads of the server that call the backend
  Devices,  \* the cameras it knows by their native id
  None      \* no command, no picture, no device

ASSUME SdkAssumption == None \notin Callers \cup Devices

VARIABLES
  present,  \* the cameras that are plugged in and powered
  open,     \* the cameras with a session in the table of the thread
  held,     \* the cameras the SDK or the system holds open for us
  inbox,    \* the commands sent and not yet received
  waiting,  \* the callers that block in recv()
  work,     \* the command the thread is in the middle of
  thread,   \* "runs" or "ended"
  photo,    \* the picture in the answer of the last command
  album,    \* the exposures of a body that the SDK has not announced yet
  asked     \* "exit" once shutdown() was called, "drop" once the backend was dropped

sdkVars ==
  <<present, open, held, inbox, waiting, work, thread, photo, album, asked>>

(* Commands carry the device they are about and who waits for the answer;  *)
(* a command without a sender is fire-and-forget.                          *)
Command(ops) ==
  [op : ops, dev : Devices \cup {None}, from : Callers \cup {None}]

(* A picture handed out: the device it was asked of, and which exposure it  *)
(* is.  "own": taken for this very call.  "late": of an earlier call or of  *)
(* another body, announced while this call was waiting.  "stale": announced *)
(* before this call began.                                                 *)
Shots == {"own", "late", "stale"}
Picture == [dev : Devices, shot : Shots]

SdkTypeOK(ops) ==
  /\ present \subseteq Devices
  /\ open \subseteq Devices
  /\ held \subseteq Devices
  /\ inbox \in Seq(Command(ops))
  /\ waiting \subseteq Callers
  /\ work \in Command(ops) \cup {None}
  /\ thread \in {"runs", "ended"}
  /\ photo \in Picture \cup {None}
  /\ album \in [Devices -> SUBSET {"own", "late"}]
  /\ asked \in {"no", "exit", "drop"}

SdkInit ==
  /\ present \in SUBSET Devices
  /\ open = {}
  /\ held = {}
  /\ inbox = <<>>
  /\ waiting = {}
  /\ work = None
  /\ thread = "runs"
  /\ photo = None
  /\ album = [d \in Devices |-> {}]
  /\ asked = "no"

-----------------------------------------------------------------------------
(* Callers. *)

(* A method sends its command and waits; an ended thread is an error at     *)
(* once, which changes nothing.  Nobody calls after the backend's drop.     *)
Call(c, op, d) ==
  /\ thread = "runs"
  /\ c \notin waiting
  /\ asked # "drop"
  /\ inbox' = Append(inbox, [op |-> op, dev |-> d, from |-> c])
  /\ waiting' = waiting \cup {c}
  /\ UNCHANGED <<present, open, held, work, thread, photo, album, asked>>

(* A command nobody waits for. *)
Post(op) ==
  /\ thread = "runs"
  /\ inbox' = Append(inbox, [op |-> op, dev |-> None, from |-> None])

(* shutdown(), once in the life of a process: the acknowledgement is waited *)
(* for, but not for ever, so nobody is shown to wait.  Other threads may    *)
(* have commands in the queue, and add some behind it.                     *)
CallShutdown ==
  /\ asked = "no"
  /\ Post("PrepareExit")
  /\ asked' = "exit"
  /\ UNCHANGED <<present, open, held, waiting, work, thread, photo, album>>

(* The last Arc of the backend goes: no caller is left in a method. *)
DropBackend ==
  /\ asked # "drop"
  /\ waiting = {}
  /\ Post("Shutdown")
  /\ asked' = "drop"
  /\ UNCHANGED <<present, open, held, waiting, work, thread, photo, album>>

-----------------------------------------------------------------------------
(* The thread. *)

Ready == thread = "runs" /\ work = None

(* The command to receive next, if there is one. *)
Heads == IF inbox = <<>> THEN {} ELSE {Head(inbox)}

(* `m` is for an operation of `ops`, and is received. *)
Takes(m, ops) ==
  /\ Ready
  /\ m.op \in ops
  /\ inbox' = Tail(inbox)

(* `m` is answered. *)
Reply(m) == waiting' = waiting \ {m.from}

(* What a command leaves alone that opens, closes and exposes nothing. *)
ThreadStays == UNCHANGED <<present, work, thread, album, asked>>
SessionsStay == ThreadStays /\ UNCHANGED <<open, held>>

(* The body of `m` exposes a picture while the thread waits for it. *)
Exposes(m) ==
  /\ work' = m
  /\ album' = [album EXCEPT ![m.dev] = @ \cup {"own"}]
  /\ UNCHANGED waiting

(* The SDK announces one: which it is to whoever waits now. *)
Announces(d, shot) ==
  \E s \in album[d] :
    /\ album' = [album EXCEPT ![d] = @ \ {s}]
    /\ shot = IF work = None THEN "stale" ELSE s

(* The capture is answered; an exposure still unannounced is one of an      *)
(* earlier capture from now on.                                            *)
EndCapture ==
  /\ Reply(work)
  /\ work' = None
  /\ album' = [album EXCEPT ![work.dev] = IF "own" \in @ THEN {"late"} ELSE @]
  /\ UNCHANGED <<present, open, held, inbox, thread, asked>>

(* The thread returns once `m` asked it to, with nothing open: whoever      *)
(* waits for a command it did not receive gets an error, its reply sender  *)
(* being dropped with the queue.                                           *)
Returns(m, ops) ==
  /\ Ready
  /\ m.op \in ops
  /\ thread' = "ended"
  /\ inbox' = <<>>
  /\ waiting' = {}
  /\ open' = {}
  /\ held' = {}
  /\ photo' = None
  /\ UNCHANGED <<present, work, album, asked>>

-----------------------------------------------------------------------------
(* The devices: cameras come and go. *)

PlugIn(d) ==
  /\ d \notin present
  /\ present' = present \cup {d}
  /\ UNCHANGED <<open, held, inbox, waiting, work, thread, photo, album, asked>>

PullOut(d) ==
  /\ d \in present
  /\ present' = present \ {d}
  /\ UNCHANGED <<open, held, inbox, waiting, work, thread, photo, album, asked>>

-----------------------------------------------------------------------------
Contract == INSTANCE CameraSessions

(* Whatever the vendor, the routes can count on the contract. *)
ContractSpec == Contract!ContractSpec

(* A capture never answers with what was announced before it began. *)
NoStalePhoto == photo = None \/ photo.shot # "stale"
=============================================================================
