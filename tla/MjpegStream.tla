------------------------------ MODULE MjpegStream ------------------------------
(***************************************************************************)
(* How a relay cuts the stream of its peer into pictures.  The stream comes *)
(* in chunks of any size; each part is a header that tells the length of    *)
(* the body, an empty line, the body and a line end.                        *)
(***************************************************************************)
EXTENDS Naturals, Sequences

CONSTANTS
  Bodies,    \* the pictures, as sequences of bytes
  MaxParts,  \* bound: how many pictures the peer sends
  MaxChunk   \* bound: how many bytes arrive at a time

VARIABLES
  wire,   \* the bytes on their way
  buf,    \* the bytes received and not yet used
  sent,   \* the pictures the peer has sent
  got     \* the pictures taken out of the buffer

streamVars == <<wire, buf, sent, got>>

(* A symbol is a byte, or a line of the header as a whole. *)
CR == <<"CR", 0>>
LF == <<"LF", 0>>
Boundary == <<"--frame", 0>>
LengthLine(n) == <<"Content-Length", n>>

(* A part, as the live view of the peer writes it. *)
Part(body) ==
  <<Boundary, CR, LF, LengthLine(Len(body)), CR, LF, CR, LF>> \o body \o <<CR, LF>>

StreamTypeOK == sent \in Seq(Bodies) /\ Len(sent) <= MaxParts

StreamInit == wire = <<>> /\ buf = <<>> /\ sent = <<>> /\ got = <<>>

-----------------------------------------------------------------------------
(* The places where an empty line ends a header; `find` takes the first. *)
HeaderEnds(b) ==
  {i \in 1..Len(b) : i + 3 <= Len(b) /\ SubSeq(b, i, i + 3) = <<CR, LF, CR, LF>>}

First(set) == CHOOSE i \in set : \A j \in set : i <= j

(* The lines of the header that tell a length. *)
LengthLines(b) == {i \in 1..(First(HeaderEnds(b)) - 1) : b[i][1] = "Content-Length"}

(* Where the body of the first part begins and ends. *)
BodyStart(b) == First(HeaderEnds(b)) + 4
BodyEnd(b) == BodyStart(b) + b[First(LengthLines(b))][2] - 1

HasPart(b) ==
  /\ HeaderEnds(b) # {}
  /\ LengthLines(b) # {}
  /\ BodyEnd(b) <= Len(b)

(* Faulty variant for PicturesAsSent: the buffer is emptied after a picture. *)
Emptied(b) == Len(b)

(* The part goes, with its line end when that has arrived. *)
Consumed(b) ==
  IF BodyEnd(b) + 2 <= Len(b) /\ SubSeq(b, BodyEnd(b) + 1, BodyEnd(b) + 2) = <<CR, LF>>
  THEN BodyEnd(b) + 2 ELSE BodyEnd(b)

extract_frame ==
  /\ HasPart(buf)
  /\ got' = Append(got, SubSeq(buf, BodyStart(buf), BodyEnd(buf)))
  /\ buf' = SubSeq(buf, Consumed(buf) + 1, Len(buf))
  /\ UNCHANGED <<wire, sent>>

(* A chunk arrives once the buffer holds no whole part. *)
Receive ==
  /\ ~HasPart(buf)
  /\ \E n \in 1..MaxChunk :
       /\ n <= Len(wire)
       /\ buf' = buf \o SubSeq(wire, 1, n)
       /\ wire' = SubSeq(wire, n + 1, Len(wire))
  /\ UNCHANGED <<sent, got>>

Send ==
  /\ Len(sent) < MaxParts
  /\ \E body \in Bodies :
       /\ wire' = wire \o Part(body)
       /\ sent' = Append(sent, body)
  /\ UNCHANGED <<buf, got>>

StreamNext == extract_frame \/ Receive \/ Send

-----------------------------------------------------------------------------
(* However the stream is cut into chunks, the relay takes out of it the      *)
(* pictures that were sent, whole and in their order, and all of them once   *)
(* every byte has arrived.                                                  *)
PicturesAsSent ==
  /\ Len(got) <= Len(sent)
  /\ got = SubSeq(sent, 1, Len(got))
  /\ (wire = <<>> /\ ~HasPart(buf)) => got = sent
=============================================================================
