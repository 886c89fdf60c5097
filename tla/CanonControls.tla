---------------------------- MODULE CanonControls ----------------------------
(***************************************************************************)
(* The parameters of a Canon body: properties with a code and the list of   *)
(* codes it offers.  ISO 0 is automatic; a quality names up to two images.  *)
(***************************************************************************)
EXTENDS Controls

AutoIso == 0
Bulb == 12

(* A quality code: whether its first image is RAW, and which JPEG it holds. *)
Quality(raw, jpeg) == [raw |-> raw, jpeg |-> jpeg]
Qualities == [raw : BOOLEAN, jpeg : STRING \cup {None}]
image_quality_has_raw(code) == code.raw

(* A property has a value among the codes that it offers, or offers none.     *)
Offered(codes) ==
  {p \in [offers : Seq(codes), value : codes] :
     p.offers = <<>> \/ p.value \in ToSet(p.offers)}

(* `window` is the position of a magnified live view, which `tells` says can *)
(* be read from the camera.                                                 *)
BodyOK ==
  body \in [iso : Offered(Nat), speed : Offered(Nat), quality : Offered(Qualities),
           window : {0, 1} \X {0, 1}, tells : BOOLEAN]

-----------------------------------------------------------------------------
(* connect: the quality becomes JPEG alone, by the code's own JPEG or the    *)
(* default, or else the first the body offers.                             *)
JpegTarget(q) ==
  LET kept == Quality(FALSE, IF q.value.jpeg = None THEN "fine" ELSE q.value.jpeg)
      jpegs == {c \in ToSet(q.offers) : ~image_quality_has_raw(c)}
  IN  IF q.offers = <<>> \/ kept \in ToSet(q.offers) THEN kept ELSE FirstOf(q.offers, jpegs)

(* A body takes a code that it offers, or all if it cannot say. *)
Takes(q, code) == code # None /\ (q.offers = <<>> \/ code \in ToSet(q.offers))

force_jpeg_only_quality ==
  LET q == body.quality
  IN  /\ body' = IF image_quality_has_raw(q.value) /\ Takes(q, JpegTarget(q))
                 THEN [body EXCEPT !.quality.value = JpegTarget(q)] ELSE body
      /\ Accepts("Connected", body'.quality.value)

-----------------------------------------------------------------------------
(* Reading. *)

(* A property with no offers is not listed, nor one whose offers are all     *)
(* kept from the client, ISO and the shutter speed excepted.               *)
Property(type, p, kept) ==
  IF p.offers = <<>> \/ kept = {} THEN {} ELSE {Control(type, p.value, kept, FALSE)}

get_parameters_impl ==
  LET iso == body.iso
      concrete == ToSet(iso.offers) \ {AutoIso}
      auto == iso.value = AutoIso
  IN  Property("ImageQuality", body.quality,
               {c \in ToSet(body.quality.offers) : ~image_quality_has_raw(c)})
        \cup Property("ShutterSpeed", body.speed, ToSet(body.speed.offers) \ {Bulb})
        \cup IF iso.offers = <<>> THEN {}
             ELSE {Toggle("IsoAuto", auto, FALSE),
                   Control("Iso", IF auto THEN FirstOf(iso.offers, concrete) ELSE iso.value,
                           concrete, auto)}

-----------------------------------------------------------------------------
(* Writing. *)

(* Manual ISO is the first concrete one that the body offers. *)
set_iso_manual_impl(p) == FirstOf(p.offers, ToSet(p.offers) \ {AutoIso})

Code(type, v) ==
  CASE type = "IsoAuto" -> IF v THEN AutoIso ELSE set_iso_manual_impl(body.iso)
    [] OTHER -> v

PropertyOf(type) ==
  CASE type \in {"Iso", "IsoAuto"} -> "iso"
    [] type = "ShutterSpeed" -> "speed"
    [] type = "ImageQuality" -> "quality"

set_parameter_impl ==
  \/ \E t \in get_parameters_impl : \E v \in t.options :
       LET p == PropertyOf(t.type)
           code == Code(t.type, v)
       IN  /\ ~t.disabled
           /\ Takes(body[p], code)
           /\ body' = [body EXCEPT ![p].value = code]
           /\ Accepts(t.type, v)
  \/ Refuses

(* One axis of the window; the other is read first, and is 0 if that fails. *)
set_evf_zoom_axis_impl ==
  \E isX \in BOOLEAN, v \in {0, 1} :
    LET now == IF body.tells THEN body.window ELSE <<0, 0>>
    IN  /\ body' = [body EXCEPT !.window = IF isX THEN <<v, now[2]>> ELSE <<now[1], v>>]
        /\ Accepts(IF isX THEN "LiveViewPan" ELSE "LiveViewTilt", v)

(* The owner turns a dial. *)
Dial ==
  /\ \E p \in {"iso", "speed", "quality"} : \E code \in ToSet(body[p].offers) :
       body' = [body EXCEPT ![p].value = code]
  /\ changed' = None

CanonControlsNext ==
  force_jpeg_only_quality \/ set_parameter_impl \/ set_evf_zoom_axis_impl \/ Dial

-----------------------------------------------------------------------------
(* A body that was set to RAW shoots JPEG alone once it is connected, if it  *)
(* can, and the JPEG that it shot with the RAW if it offers that.           *)
ForcedToJpeg ==
  changed' # None /\ changed'.type = "Connected" =>
    LET q == body.quality
        alone == Quality(FALSE, q.value.jpeg)
    IN  /\ changed'.value.raw => \A c \in ToSet(q.offers) : c.raw
        /\ q.value.jpeg # None /\ alone \in ToSet(q.offers) => changed'.value = alone

=============================================================================
