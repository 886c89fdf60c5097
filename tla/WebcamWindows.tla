----------------------------- MODULE WebcamWindows -----------------------------
(***************************************************************************)
(* The webcam backend of Windows: one thread runs every command.  A camera   *)
(* is used through Media Foundation, and only if that does not know it       *)
(* through DirectShow, whose frames come on a thread of the driver and are    *)
(* made into JPEGs on a thread for each session.                            *)
(***************************************************************************)
EXTENDS Naturals, Sequences

CONSTANTS
  None,      \* no session, no answer
  Native,    \* what the driver offers: [res, codec]
  MaxSinks   \* bound: how many DirectShow sinks are ever made

VARIABLES
  thread,   \* "runs" or "ended"
  plugged,  \* which of the two cameras are there
  mf,       \* the session with the first, None if there is none
  reader,   \* the format its source reader is set to
  ds,       \* the sink of the session with the second, 0 if there is none
  sink,     \* every sink ever made
  answer    \* the last answer

windowsVars == <<thread, plugged, mf, reader, ds, sink, answer>>

Webcams == {"mf", "ds"}

(* MJPEG before YUY2 before NV12. *)
CodecRank == [mjpeg |-> 0, yuy2 |-> 1, nv12 |-> 2]

(* One format for each resolution, with the best codec; the largest MJPEG is *)
(* the one to begin with, or the largest of all.                           *)
enumerate_video_formats ==
  {f \in Native : \A g \in Native : g.res = f.res => CodecRank[f.codec] <= CodecRank[g.codec]}

select_best_format ==
  LET mjpeg == {f \in enumerate_video_formats : f.codec = "mjpeg"}
      among == IF mjpeg = {} THEN enumerate_video_formats ELSE mjpeg
  IN  CHOOSE f \in among : \A g \in among : g.res <= f.res

(* A sink: whether its channel is open, holds a frame, whether a JPEG is      *)
(* there, whether its thread runs, and whether connecting it failed.         *)
Sink ==
  [open : BOOLEAN, raw : BOOLEAN, latest : BOOLEAN, runs : BOOLEAN, failed : BOOLEAN]

WindowsTypeOK ==
  /\ thread \in {"runs", "ended"}
  /\ plugged \subseteq Webcams
  /\ mf \in [taken : Native, live : BOOLEAN] \cup {None}
  /\ reader \in Native
  /\ ds \in 0..Len(sink)
  /\ sink \in Seq(Sink) /\ Len(sink) <= MaxSinks

WindowsInit ==
  /\ thread = "runs"
  /\ plugged \in SUBSET Webcams
  /\ mf = None
  /\ reader = select_best_format
  /\ ds = 0
  /\ sink = <<>>
  /\ answer = None

-----------------------------------------------------------------------------
(* The cameras come and go; a source that was there when its camera left      *)
(* stays dead when the camera is back.                                      *)
Plug(c) ==
  /\ plugged' = IF c \in plugged THEN plugged \ {c} ELSE plugged \cup {c}
  /\ mf' = IF mf # None /\ c = "mf" THEN [mf EXCEPT !.live = FALSE] ELSE mf
  /\ answer' = None
  /\ UNCHANGED <<thread, reader, ds, sink>>

Runs == thread = "runs"
Answers(kind) == answer' = [kind |-> kind]

(* connect_impl: a session that is there stays, dead or not; a source reader *)
(* is made and set to the best format, or the connect fails.                *)
connect_impl ==
  /\ Runs /\ mf = None /\ "mf" \in plugged
  /\ mf' = [taken |-> select_best_format, live |-> TRUE]
  /\ reader' = select_best_format
  /\ Answers("connected")
  /\ UNCHANGED <<thread, plugged, ds, sink>>

disconnect_impl ==
  /\ Runs /\ mf # None
  /\ mf' = None
  /\ Answers("disconnected")
  /\ UNCHANGED <<thread, plugged, reader, ds, sink>>

(* A source that is dead is taken from the table. *)
force_disconnect == mf' = IF mf # None /\ mf.live THEN mf ELSE None

IsConnected ==
  /\ Runs
  /\ Answers(IF mf # None /\ mf.live THEN "alive" ELSE "dead")
  /\ force_disconnect
  /\ UNCHANGED <<thread, plugged, reader, ds, sink>>

(* A sample is read and converted by the format of the session.  There may    *)
(* be none in ten reads, and none can be read of a dead source.             *)
Sample == [kind |-> "frame", taken |-> mf.taken, sent |-> reader]

GetLiveViewFrame ==
  /\ Runs /\ mf # None
  /\ \/ mf.live /\ answer' = Sample /\ UNCHANGED mf
     \/ Answers("failed") /\ force_disconnect
  /\ UNCHANGED <<thread, plugged, reader, ds, sink>>

(* A photo of the photo stream goes through an engine of its own, with waits  *)
(* of five and ten seconds, that is dropped on every way out; without such a  *)
(* stream it is the next frame.  Its failure does not end the session.       *)
CapturePhoto ==
  /\ Runs /\ mf # None
  /\ \/ mf.live /\ answer' \in {Sample, [kind |-> "photo"]}
     \/ Answers("failed photo")
  /\ UNCHANGED <<thread, plugged, mf, reader, ds, sink>>

(* set_parameter_impl of the format: the reader first, then what frames are   *)
(* converted by; a format the reader refuses changes neither.               *)
SetFormat ==
  /\ Runs /\ mf # None
  /\ \/ \E f \in enumerate_video_formats :
          /\ mf.live
          /\ reader' = f
          /\ mf' = [mf EXCEPT !.taken = f]
          /\ Answers("set")
     \/ UNCHANGED <<mf, reader>> /\ Answers("refused")
  /\ UNCHANGED <<thread, plugged, ds, sink>>

-----------------------------------------------------------------------------
(* DirectShow. *)

New(failed) ==
  Append(sink, [open |-> TRUE, raw |-> FALSE, latest |-> FALSE, runs |-> TRUE,
                failed |-> failed])

(* ds_connect_impl makes the sink before the graph is connected and run: when *)
(* that fails nobody closes the channel, and the thread of the sink holds it.  *)
ds_connect_impl ==
  /\ Runs /\ ds = 0 /\ "ds" \in plugged /\ Len(sink) < MaxSinks
  /\ \/ sink' = New(FALSE) /\ ds' = Len(sink) + 1 /\ Answers("connected")
     \/ sink' = New(TRUE) /\ UNCHANGED ds /\ Answers("refused")
  /\ UNCHANGED <<thread, plugged, mf, reader>>

ds_disconnect_impl ==
  /\ Runs /\ ds # 0
  /\ sink' = [sink EXCEPT ![ds].open = FALSE]
  /\ ds' = 0
  /\ Answers("disconnected")
  /\ UNCHANGED <<thread, plugged, mf, reader>>

(* The driver's thread; a frame that finds the channel full is dropped. *)
Receive ==
  /\ Runs /\ ds # 0 /\ "ds" \in plugged
  /\ ~sink[ds].raw
  /\ sink' = [sink EXCEPT ![ds].raw = TRUE]
  /\ UNCHANGED <<thread, plugged, mf, reader, ds, answer>>

(* The converter: the last frame is made into a JPEG, unless it is damaged; *)
(* with the channel closed and empty the thread ends.                      *)
Convert(s) ==
  /\ sink[s].runs
  /\ \/ /\ sink[s].raw
        /\ sink' \in {[sink EXCEPT ![s].raw = FALSE, ![s].latest = l] : l \in {sink[s].latest, TRUE}}
     \/ /\ ~sink[s].raw /\ ~sink[s].open
        /\ sink' = [sink EXCEPT ![s].runs = FALSE]
  /\ UNCHANGED <<thread, plugged, mf, reader, ds, answer>>

(* The last JPEG, however old it is; also for a photo. *)
ds_get_live_view_frame ==
  /\ Runs /\ ds # 0
  /\ answer' = IF sink[ds].latest THEN [kind |-> "still", of |-> ds] ELSE [kind |-> "not ready"]
  /\ UNCHANGED <<thread, plugged, mf, reader, ds, sink>>

(* PrepareExit, or Shutdown: the sources are shut down and the graphs stopped, *)
(* and the thread ends.                                                    *)
End ==
  /\ Runs
  /\ thread' = "ended"
  /\ mf' = None /\ ds' = 0
  /\ answer' = None
  /\ UNCHANGED <<plugged, reader, sink>>

WindowsNext ==
  \/ \E c \in Webcams : Plug(c)
  \/ connect_impl \/ disconnect_impl \/ IsConnected \/ GetLiveViewFrame
  \/ CapturePhoto \/ SetFormat
  \/ ds_connect_impl \/ ds_disconnect_impl \/ Receive \/ ds_get_live_view_frame
  \/ \E s \in 1..Len(sink) : Convert(s)
  \/ End

-----------------------------------------------------------------------------
(* A session whose source died is not kept by whoever noticed: a poll that     *)
(* fails and a question whether it is connected take it from the table.       *)
DeadIsDropped ==
  answer # None /\ answer.kind \in {"failed", "dead", "alive"} /\ mf # None => mf.live

(* A frame is converted by the format it was read in. *)
ReadAsSent == answer # None /\ answer.kind = "frame" => answer.taken = answer.sent

(* The channel of a sink is open for a session only ("exits automatically     *)
(* when raw_tx is dropped (disconnect)"), or for a connect that failed on the  *)
(* way, or once the backend has ended.                                      *)
ConvertersEnd ==
  \A s \in 1..Len(sink) :
    sink[s].open /\ Runs => s = ds \/ sink[s].failed
=============================================================================
