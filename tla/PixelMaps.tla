------------------------------- MODULE PixelMaps -------------------------------
(***************************************************************************)
(* Where the pixels go when a picture is turned: once in the bridge of the  *)
(* phone's camera, which writes every pixel to its turned place, and once   *)
(* in the encoder, which gathers each row of the turned picture.            *)
(***************************************************************************)
EXTENDS Integers

CONSTANT Side  \* bound: the longest side of a picture

ASSUME SideAssumption == Side \in Nat

(* A pixel is its place in a picture of a size. *)

Index(p) == p.row * p.w + p.col

(* One quarter turn clockwise. *)
Quarter(p) == [row |-> p.col, col |-> p.h - 1 - p.row, w |-> p.h, h |-> p.w]

Turned(p, degrees) ==
  CASE degrees = 0 -> p
    [] degrees = 90 -> Quarter(p)
    [] degrees = 180 -> Quarter(Quarter(p))
    [] degrees = 270 -> Quarter(Quarter(Quarter(p)))

(* Where yuv_to_rgb writes the pixel it reads. *)
rotated_index(p, degrees) ==
  CASE degrees = 90 -> p.col * p.h + (p.h - 1 - p.row)
    [] degrees = 180 -> (p.h - 1 - p.row) * p.w + (p.w - 1 - p.col)
    [] degrees = 270 -> (p.w - 1 - p.col) * p.h + p.row
    [] OTHER -> Index(p)

(* Where tc_encode_rotated_rgb reads the pixel at (x, y) of what it writes; *)
(* w and h are of the source.                                              *)
gathered_index(x, y, w, h, degrees) ==
  CASE degrees = 90 -> (h - 1 - x) * w + y
    [] degrees = 180 -> (h - 1 - y) * w + (w - 1 - x)
    [] degrees = 270 -> x * w + (w - 1 - y)
    [] OTHER -> y * w + x

VARIABLES
  pixel,  \* a pixel of a picture
  turn    \* the angle it is turned by

pixelVars == <<pixel, turn>>

Pixels ==
  {p \in [row : 0..(Side - 1), col : 0..(Side - 1), w : 1..Side, h : 1..Side] :
     p.row < p.h /\ p.col < p.w}

PixelsInit == pixel \in Pixels /\ turn = 0

(* The device is turned, and with it the angle. *)
PixelsNext == turn' = (turn + 90) % 360 /\ UNCHANGED pixel

PixelsSpec == PixelsInit /\ [][PixelsNext]_pixelVars

(* The live view and the encoder turn a picture the same way, and that is a  *)
(* quarter turn clockwise, as many times as asked.                          *)
PixelsTurn ==
  LET q == Turned(pixel, turn)
  IN  /\ rotated_index(pixel, turn) = Index(q)
      /\ gathered_index(q.col, q.row, pixel.w, pixel.h, turn) = Index(pixel)
=============================================================================
