---------------------------- MODULE NikonControls ----------------------------
(***************************************************************************)
(* The parameters of a Nikon body: capabilities that are lists of labels    *)
(* with a current index, a focus mode under one of several capabilities,    *)
(* a quality list with every level twice, and the window of a magnified     *)
(* live view, whose position only a frame tells.                           *)
(***************************************************************************)
EXTENDS Controls

(* A capability: its value is an index in its labels, of which there are none *)
(* if it cannot be read.                                                    *)
Cap == [labels : Seq(STRING), value : Nat, settable : BOOLEAN]
Readable(cap) == cap.labels # <<>>

(* `isoAuto` is None for a body without it; `focus` has a capability for each *)
(* of FOCUS_MODE_CAPS, in that order; `window` is where the magnified view is *)
(* and `header` where the last frame said it was.                           *)
BodyOK ==
  /\ body \in [isoAuto : BOOLEAN \cup {None}, iso : Cap, speed : Cap, focus : Seq(Cap),
               quality : Cap, window : {0, 1} \X {0, 1}, header : {0, 1} \X {0, 1} \cup {None}]
  /\ \A cap \in {body.iso, body.speed, body.quality} \cup ToSet(body.focus) :
       Readable(cap) => cap.value \in DOMAIN cap.labels

Indices(cap, labels) == {i \in DOMAIN cap.labels : cap.labels[i] \in labels}

Manual == {"MF"}
BulbOrTime == {"Bulb", "Time"}

(* <<level, rank in the level>> of a quality that is JPEG alone, the lower  *)
(* the better: a star is quality first.  Two levels stand for all.          *)
jpeg_label_rank(label) ==
  CASE label = "Fine*" -> <<0, 0>>
    [] label = "Fine" -> <<0, 1>>
    [] label = "Basic" -> <<2, 1>>
    [] OTHER -> None

Level(label) == IF jpeg_label_rank(label) = None THEN None ELSE jpeg_label_rank(label)[1]

Better(label, than) ==
  LET r == jpeg_label_rank(label)
      s == jpeg_label_rank(than)
  IN  r[1] < s[1] \/ (r[1] = s[1] /\ r[2] < s[2])

Jpegs(labels) == {i \in DOMAIN labels : jpeg_label_rank(labels[i]) # None}

(* The best index of each level, the first of equals. *)
jpeg_options(labels) ==
  {i \in Jpegs(labels) :
     \A j \in Jpegs(labels) \ {i} :
       Level(labels[j]) = Level(labels[i]) =>
         \/ Better(labels[i], labels[j])
         \/ labels[i] = labels[j] /\ i < j}

(* The first of the best, or 0. *)
find_jpeg_index(labels) ==
  LET best == {i \in Jpegs(labels) :
                 \A j \in Jpegs(labels) : ~Better(labels[j], labels[i])}
  IN  IF best = {} THEN 0 ELSE Min(best)

-----------------------------------------------------------------------------
(* Reading. *)

read_enum_param(type, cap, disabled) ==
  IF Readable(cap)
  THEN {Control(type, cap.value,
          IF type = "ShutterSpeed" THEN DOMAIN cap.labels \ Indices(cap, BulbOrTime)
                                   ELSE DOMAIN cap.labels, disabled)}
  ELSE {}

(* The capability to use and whether it can be written: the first one that   *)
(* can, else the first that can be read.                                   *)
resolve_focus_cap ==
  LET readable == {k \in DOMAIN body.focus : Readable(body.focus[k])}
      settable == {k \in readable : body.focus[k].settable}
  IN  IF settable # {} THEN Min(settable)
      ELSE IF readable # {} THEN Min(readable) ELSE 0

is_manual_focus(cap) == cap.labels[cap.value] \in Manual

build_focus_params(cap) ==
  LET auto == ~is_manual_focus(cap)
      options == DOMAIN cap.labels \ Indices(cap, Manual)
  IN  {Toggle("FocusAuto", auto, ~cap.settable)}
        \cup IF options = {} THEN {}
             ELSE {Control("FocusMode", IF auto THEN cap.value ELSE Min(options),
                           options, ~auto \/ ~cap.settable)}

(* One entry of a level stands for both; a body that shoots RAW shows the     *)
(* quality that a capture would force.                                      *)
read_image_quality ==
  LET cap == body.quality
      kept == jpeg_options(cap.labels)
      now == Level(cap.labels[cap.value])
      current == IF now = None THEN find_jpeg_index(cap.labels)
                 ELSE CHOOSE i \in kept : Level(cap.labels[i]) = now
  IN  IF ~Readable(cap) \/ kept = {} THEN {}
      ELSE {Control("ImageQuality", current, kept, FALSE)}

(* The position, once a frame has told one. *)
read_live_view_controls ==
  IF body.header = None THEN {}
  ELSE {Control("LiveViewPan", body.header[1], {0, 1}, FALSE),
        Control("LiveViewTilt", body.header[2], {0, 1}, FALSE)}

get_parameters_impl ==
  LET k == resolve_focus_cap
  IN  read_enum_param("ShutterSpeed", body.speed, FALSE)
        \cup read_enum_param("Iso", body.iso, body.isoAuto = TRUE)
        \cup (IF body.isoAuto = None THEN {} ELSE {Toggle("IsoAuto", body.isoAuto, FALSE)})
        \cup read_image_quality
        \cup (IF k = 0 THEN {} ELSE build_focus_params(body.focus[k]))
        \cup read_live_view_controls

-----------------------------------------------------------------------------
(* Writing. *)

(* AF or MF by the first mode of the other side; nothing on the same side. *)
FocusIndex(cap, auto) ==
  LET manual == Indices(cap, Manual)
      side == IF auto THEN DOMAIN cap.labels \ manual ELSE manual
  IN  IF auto # is_manual_focus(cap) THEN cap.value
      ELSE IF side = {} THEN 0 ELSE Min(side)

set_focus_auto(auto) ==
  LET k == resolve_focus_cap
      i == FocusIndex(body.focus[k], auto)
  IN  /\ k # 0 /\ i # 0
      /\ body' = [body EXCEPT !.focus[k].value = i]

set_focus_mode(i) ==
  /\ resolve_focus_cap # 0
  /\ body' = [body EXCEPT !.focus[resolve_focus_cap].value = i]

(* One axis of the window: the other is written too, as the last frame had   *)
(* it.                                                                      *)
set_lv_zoom_axis(isX, v) ==
  /\ body.header # None
  /\ body' = [body EXCEPT !.window = IF isX THEN <<v, body.header[2]>>
                                     ELSE <<body.header[1], v>>]

Sets(type, v) ==
  CASE type = "IsoAuto" -> body' = [body EXCEPT !.isoAuto = v]
    [] type = "Iso" -> body' = [body EXCEPT !.iso.value = v]
    [] type = "ShutterSpeed" -> body' = [body EXCEPT !.speed.value = v]
    [] type = "ImageQuality" -> body' = [body EXCEPT !.quality.value = v]
    [] type = "FocusAuto" -> set_focus_auto(v)
    [] type = "FocusMode" -> set_focus_mode(v)
    [] type = "LiveViewPan" -> set_lv_zoom_axis(TRUE, v)
    [] type = "LiveViewTilt" -> set_lv_zoom_axis(FALSE, v)

set_parameter_impl ==
  \/ \E t \in get_parameters_impl : \E v \in t.options :
       ~t.disabled /\ Sets(t.type, v) /\ Accepts(t.type, v)
  \/ Refuses

(* Mutant: the best quality, whatever was chosen. *)
AlwaysBest ==
  LET best == find_jpeg_index(body.quality.labels)
      value == IF best # 0 THEN best ELSE body.quality.value
  IN  /\ body' = [body EXCEPT !.quality.value = value]
      /\ Accepts("Shot", value)

(* Before a capture: a JPEG quality stays, any other gives way to the best.  *)
(* The second capability, for a body without the first, is left out.        *)
ensure_jpeg_quality ==
  LET cap == body.quality
      best == find_jpeg_index(cap.labels)
      value == IF Readable(cap) /\ jpeg_label_rank(cap.labels[cap.value]) = None /\ best # 0
               THEN best ELSE cap.value
  IN  /\ body' = [body EXCEPT !.quality.value = value]
      /\ Accepts("Shot", value)

(* The next frame tells where the window is. *)
live_view_data_proc ==
  /\ body.header # body.window
  /\ body' = [body EXCEPT !.header = body.window]
  /\ UNCHANGED changed

(* The owner turns a dial. *)
Dial ==
  /\ \/ \E i \in DOMAIN body.quality.labels : body' = [body EXCEPT !.quality.value = i]
     \/ \E k \in DOMAIN body.focus : \E i \in DOMAIN body.focus[k].labels :
          body' = [body EXCEPT !.focus[k].value = i]
     \/ \E i \in DOMAIN body.speed.labels : body' = [body EXCEPT !.speed.value = i]
  /\ changed' = None

NikonControlsNext ==
  set_parameter_impl \/ ensure_jpeg_quality \/ live_view_data_proc \/ Dial

-----------------------------------------------------------------------------
(* The quality listed is the quality a capture uses, up to the variant. *)
ShownIsShot ==
  changed' # None /\ changed'.type = "Shot" =>
    \A t \in read_image_quality :
      Level(body.quality.labels[t.current]) = Level(body.quality.labels[changed'.value])

=============================================================================
