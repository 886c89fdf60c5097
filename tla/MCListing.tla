------------------------------ MODULE MCListing ------------------------------
(* Instances of Listing for TLC: a vendor's SDK and a generic backend that see
   the same model of camera, and a webcam without a key. *)
EXTENDS Listing, TLC

CONSTANTS sdk, generic, body1, body2, sameBody, webcam, model

BodiesOwner == (body1 :> sdk) @@ (body2 :> sdk) @@ (sameBody :> generic) @@ (webcam :> generic)
BodiesPriority == (sdk :> 10) @@ (generic :> 0)
BodiesKey == [i \in {body1, body2, sameBody} |-> model] @@ (webcam :> None)
BodiesPlace == (sameBody :> 1) @@ (webcam :> 2) @@ (body1 :> 3) @@ (body2 :> 4)
=============================================================================
