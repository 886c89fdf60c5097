------------------------------ MODULE WebcamLinux ------------------------------
(***************************************************************************)
(* The webcam backend of Linux.  Every call runs under one lock, except that *)
(* connect opens and starts the camera before it takes it.  The format of    *)
(* the stream is negotiated: the driver may choose another one.             *)
(***************************************************************************)
EXTENDS Naturals

CONSTANTS
  Callers,   \* the threads of the server that call the backend
  None,      \* no session, no owner, no answer
  Best,      \* the largest size it offers
  Fallback,  \* 1280x720
  MaxReads   \* how many buffers a poll reads at most

VARIABLES
  driver,     \* the format the driver is set to, and whose stream has its buffers
  device,     \* the session in the table, None if the camera is not connected
  call,       \* what each caller is at
  reading,    \* how many buffers the poll under way has read, None if no poll is
  frame,      \* the picture of the last poll, None if it had none
  failed,     \* history: the last change of the format failed
  overlapped  \* history: two connects were under way at once

webcamVars == <<driver, device, call, reading, frame, failed, overlapped>>

(* What a driver can be set to, and what of it the backend can read. *)
Formats == [size : {Best, Fallback}, codec : {"mjpg", "yuyv", "other"}]

Readable == {f \in Formats : f.codec # "other"}

Session == [streams : BOOLEAN, format : Readable]

(* A connect sets the format, and with the format it got it takes buffers. *)
Idle == [at |-> "idle"]
Stages ==
  {Idle} \cup [at : {"best", "fallback"}]
         \cup [at : {"buffers", "insert"}, format : Readable, last : BOOLEAN]

WebcamTypeOK ==
  /\ driver \in [format : Formats, owner : Callers \cup {"table", None}]
  /\ device \in Session \cup {None}
  /\ call \in [Callers -> Stages]
  /\ reading \in 0..MaxReads \cup {None}

(* A driver that nobody streams from is asked for a size, compressed if the  *)
(* camera offers it so, and answers with what it has set: any size and any   *)
(* codec, also one that cannot be read, which fails.                        *)
Negotiated == IF driver.owner = None THEN Formats ELSE {}

WebcamInit ==
  /\ driver = [format |-> [size |-> Fallback, codec |-> "yuyv"], owner |-> None]
  /\ device = None
  /\ call = [c \in Callers |-> Idle]
  /\ reading = None
  /\ frame = None
  /\ failed = FALSE
  /\ overlapped = FALSE

Unlocked == reading = None

-----------------------------------------------------------------------------
(* connect, without the lock: the format is set... *)
Connect(c) ==
  /\ Unlocked /\ call[c] = Idle /\ device = None
  /\ call' = [call EXCEPT ![c] = [at |-> "best"]]
  /\ overlapped' = (overlapped \/ \E d \in Callers : call[d] # Idle)
  /\ frame' = None
  /\ UNCHANGED <<driver, device, reading, failed>>

(* What the session takes its format from is the answer of the driver. *)
SetFormat(c) ==
  /\ call[c].at \in {"best", "fallback"}
  /\ \E f \in Negotiated \cap Readable :
         /\ driver' = [driver EXCEPT !.format = f]
         /\ call' = [call EXCEPT ![c] =
              [at |-> "buffers", format |-> f, last |-> call[c].at = "fallback" \/ Best = Fallback]]
  /\ UNCHANGED <<device, reading, frame, failed, overlapped>>

(* The driver refuses, as it does while somebody has its buffers, or it sets *)
(* what cannot be read.                                                    *)
SetFormatFails(c) ==
  /\ call[c].at \in {"best", "fallback"}
  /\ driver' \in {driver} \cup {[driver EXCEPT !.format = f] : f \in Negotiated \ Readable}
  /\ call' = [call EXCEPT ![c] =
       IF call[c].at = "best" /\ Best # Fallback THEN [at |-> "fallback"] ELSE Idle]
  /\ UNCHANGED <<device, reading, frame, failed, overlapped>>

(* ... the buffers are taken, which also fails for lack of bandwidth... *)
GetBuffers(c) ==
  /\ call[c].at = "buffers"
  /\ driver.owner = None
  /\ driver' = [driver EXCEPT !.owner = c]
  /\ call' = [call EXCEPT ![c].at = "insert"]
  /\ UNCHANGED <<device, reading, frame, failed, overlapped>>

GetBuffersFails(c) ==
  /\ call[c].at = "buffers"
  /\ call' = [call EXCEPT ![c] = IF call[c].last THEN Idle ELSE [at |-> "fallback"]]
  /\ UNCHANGED <<driver, device, reading, frame, failed, overlapped>>

(* ... and the session is entered under the lock. *)
Insert(c) ==
  /\ Unlocked /\ call[c].at = "insert"
  /\ device' = [streams |-> TRUE, format |-> call[c].format]
  /\ driver' = [driver EXCEPT !.owner = "table"]
  /\ call' = [call EXCEPT ![c] = Idle]
  /\ failed' = FALSE
  /\ UNCHANGED <<reading, frame, overlapped>>

(* disconnect: the stream gives its buffers back. *)
Released == IF driver.owner = "table" THEN [driver EXCEPT !.owner = None] ELSE driver

Disconnect ==
  /\ Unlocked /\ device # None
  /\ device' = None
  /\ driver' = Released
  /\ frame' = None
  /\ overlapped' = \E d \in Callers : call[d] # Idle
  /\ UNCHANGED <<call, reading, failed>>

-----------------------------------------------------------------------------
(* set_parameter of the format: a size that cannot be read changes nothing;   *)
(* otherwise the stream is dropped, and started again with the new format.    *)
NoSize == UNCHANGED <<driver, device, failed>>

Switch ==
  /\ Unlocked /\ device # None
  /\ \/ NoSize
     \/ \E f \in Formats :
          \/ /\ f \in Readable
             /\ driver' = [format |-> f, owner |-> "table"]
             /\ Released.owner = None
             /\ device' = [streams |-> TRUE, format |-> f]
             /\ failed' = FALSE
          \/ /\ \E set \in BOOLEAN :
                  driver' = [Released EXCEPT !.format = IF set /\ Released.owner = None
                                                        THEN f ELSE @]
             /\ device' = [device EXCEPT !.streams = FALSE]
             /\ failed' = TRUE
  /\ frame' = None
  /\ UNCHANGED <<call, reading, overlapped>>

(* get_live_view_frame, and capture_photo, which is the same: under the lock   *)
(* buffers are read until one is whole; after the last the answer is "not     *)
(* ready".                                                                 *)
Poll ==
  /\ Unlocked /\ device # None
  /\ IF device.streams THEN reading' = 0 ELSE UNCHANGED reading
  /\ frame' = None
  /\ UNCHANGED <<driver, device, call, failed, overlapped>>

(* What a buffer holds: a whole frame in the format of the driver, one that   *)
(* is flagged as torn, or one that is too short.                           *)
Buffers == {"whole", "torn", "short"}

(* A torn buffer is thrown away; a compressed frame has no length to check it *)
(* against, of another it has to be two bytes for each pixel.               *)
Usable(b) ==
  /\ b # "torn"
  /\ device.format.codec = "mjpg" \/ (b = "whole" /\ device.format.size = driver.format.size)

(* Faulty variant for BackendsTypeOK: one buffer more than there is time for. *)
ReadOneMore ==
  /\ reading # None /\ reading <= MaxReads
  /\ \E b \in Buffers :
       IF Usable(b)
         THEN /\ frame' = [buffer |-> b, taken |-> device.format, sent |-> driver.format]
              /\ reading' = None
         ELSE reading' = reading + 1 /\ UNCHANGED frame
  /\ UNCHANGED <<driver, device, call, failed, overlapped>>

Read ==
  /\ reading # None /\ reading < MaxReads
  /\ \E b \in Buffers :
       IF Usable(b)
         THEN /\ frame' = [buffer |-> b, taken |-> device.format, sent |-> driver.format]
              /\ reading' = None
         ELSE reading' = reading + 1 /\ UNCHANGED frame
  /\ UNCHANGED <<driver, device, call, failed, overlapped>>

(* A read times out or fails, or four buffers were of no use. *)
ReadEnds ==
  /\ reading # None
  /\ reading' = None
  /\ UNCHANGED <<driver, device, call, frame, failed, overlapped>>

WebcamNext ==
  \/ \E c \in Callers :
       \/ Connect(c) \/ SetFormat(c) \/ SetFormatFails(c)
       \/ GetBuffers(c) \/ GetBuffersFails(c) \/ Insert(c)
  \/ Disconnect \/ Switch \/ Poll \/ Read \/ ReadEnds

-----------------------------------------------------------------------------
(* A frame is read as what the driver sent and an uncompressed one is whole,   *)
(* whatever was negotiated, unless two connects were under way at once and    *)
(* one set the format after the other had.                                 *)
FramesAreWhole ==
  frame # None /\ ~overlapped =>
    /\ frame.taken = frame.sent
    /\ frame.taken.codec = "yuyv" => frame.buffer = "whole"

(* A connected camera streams, unless changing the format has failed. *)
StreamsUnlessFailed == device # None /\ ~failed => device.streams

(* The buffers of the driver are nobody's when no session is there and no     *)
(* connect is under way: the next connect finds the camera free.             *)
BuffersComeBack ==
  device = None /\ (\A c \in Callers : call[c] = Idle) => driver.owner = None
=============================================================================
