------------------------------- MODULE Rotation -------------------------------
(***************************************************************************)
(* How pictures of a phone are turned upright: the angle, what a JPEG tells *)
(* of what was done to it, and the three ways of turning one.               *)
(***************************************************************************)
EXTENDS Integers

ORIENTATION_UNKNOWN == -1

QuarterTurns == {0, 90, 180, 270}

(* What the host reports is kept if it is an angle, and unknown otherwise. *)
set_device_orientation(degrees) ==
  IF degrees \in 0..359 THEN degrees ELSE ORIENTATION_UNKNOWN

(* The clockwise turn that makes a picture of the sensor upright. *)
jpeg_orientation(sensor, device, front) ==
  IF device = ORIENTATION_UNKNOWN THEN 0
  ELSE LET held == (((device % 360) + 45) \div 90) * 90
       IN  (sensor + (IF front THEN -held ELSE held)) % 360

quantize(degrees) == (((degrees % 360) + 45) \div 90) * 90 % 360

-----------------------------------------------------------------------------
(* A JPEG: its size, how far its pixels were turned from the framing of the *)
(* sensor, and its EXIF orientation, 0 if it has none.                      *)

exif_tag_for(degrees) ==
  CASE quantize(degrees) = 0 -> 1
    [] quantize(degrees) = 90 -> 6
    [] quantize(degrees) = 180 -> 3
    [] quantize(degrees) = 270 -> 8

(* How a viewer turns a picture with a tag. *)
AngleOf(tag) == IF tag = 0 THEN 0 ELSE CHOOSE d \in QuarterTurns : exif_tag_for(d) = tag

Sideways(degrees) == degrees \in {90, 270}

TurnBy(pic, degrees) ==
  [pic EXCEPT !.w = IF Sideways(degrees) THEN pic.h ELSE pic.w,
              !.h = IF Sideways(degrees) THEN pic.w ELSE pic.h,
              !.turned = (pic.turned + degrees) % 360]

(* What is left to do to a picture the camera was asked to turn.  A tag that *)
(* is the mirror of the request was all it did; for a quarter turn the size *)
(* tells; a half turn without a tag is taken to be done.                     *)
residual_rotation(pic, requested, reader_w, reader_h) ==
  IF requested = 0 THEN 0
  ELSE IF pic.tag = exif_tag_for(requested) THEN requested
  ELSE IF Sideways(requested) /\ pic.w = reader_w /\ pic.h = reader_h THEN requested
  ELSE 0

(* Faulty variant for PicturesAreUpright: the tag stays in the turned picture. *)
LeaveTag(pic) == pic

reset_exif_orientation(pic) == IF pic.tag = 0 THEN pic ELSE [pic EXCEPT !.tag = 1]

(* The results of rotate_jpeg: without loss when both sides are whole blocks, *)
(* else decoded and encoded again, which drops the EXIF data; a JPEG that     *)
(* cannot be decoded stays as the camera gave it, and is marked.             *)
rotate_jpeg(pic, degrees) ==
  {reset_exif_orientation(TurnBy(pic, degrees)),
   [TurnBy(pic, degrees) EXCEPT !.tag = 0],
   [pic EXCEPT !.broken = TRUE]}
=============================================================================
