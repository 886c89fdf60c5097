---------------------------- MODULE CaptureGuard ----------------------------
(***************************************************************************)
(* The set of devices "with a capture currently in flight"                 *)
(* (routes/cameras.rs, CapturingSet and CaptureGuard) and the photo        *)
(* requests that maintain it.                                              *)
(*                                                                         *)
(* A request is two things that live separately: the async handler, which  *)
(* owns the guard, and the burst it started on a blocking thread.  A       *)
(* client that goes away drops the handler (and with it the guard), while  *)
(* a blocking task that has started always runs to its end.                *)
(*                                                                         *)
(* Abstracted: the frames themselves, their number (1 to 20) and the HTTP  *)
(* answer; a burst ends the same way whether every shot succeeded, one     *)
(* failed (`?` leaves the loop) or a shot panicked.                        *)
(***************************************************************************)

CONSTANTS
    Ids,        \* opaque device identifiers
    Requests,   \* photo requests that may be under way at the same time
    None        \* "no device", "no sender", ...

ASSUME NoneAssumption == None \notin Ids

VARIABLES
    capturing,  \* the CapturingSet
    handler,    \* handler[k]: the device whose guard request k's handler holds
    burst       \* burst[k]: the device request k's blocking task is shooting on

captureVars == <<capturing, handler, burst>>

CaptureTypeOK ==
    /\ capturing \subseteq Ids
    /\ handler \in [Requests -> Ids \cup {None}]
    /\ burst \in [Requests -> Ids \cup {None}]

CaptureInit ==
    /\ capturing = {}
    /\ handler = [k \in Requests |-> None]
    /\ burst = [k \in Requests |-> None]

(* capture_photo: the guard is created, then the burst is handed to a
   blocking thread.  Nothing checks whether the id is already in the set.  *)
CaptureBegin(k, i) ==
    /\ handler[k] = None /\ burst[k] = None
    /\ capturing' = capturing \cup {i}
    /\ handler' = [handler EXCEPT ![k] = i]
    /\ burst' = [burst EXCEPT ![k] = i]

(* The blocking task returns, with frames, an error or a panic. *)
BurstEnds(k) ==
    /\ burst[k] # None
    /\ burst' = [burst EXCEPT ![k] = None]
    /\ UNCHANGED <<capturing, handler>>

\* Faulty variant for MarkIsTemporary: the guard does not unmark.
KeepMark(k) ==
    /\ handler' = [handler EXCEPT ![k] = None]
    /\ UNCHANGED <<capturing, burst>>

(* Drop for CaptureGuard. *)
DropGuard(k) ==
    /\ capturing' = capturing \ {handler[k]}
    /\ handler' = [handler EXCEPT ![k] = None]
    /\ UNCHANGED burst

(* The awaited burst is over: the handler answers and its guard goes. *)
CaptureReturns(k) ==
    /\ handler[k] # None /\ burst[k] = None
    /\ DropGuard(k)

(* The client closes the connection: the handler future is dropped at its
   await, the burst is not. *)
CaptureAborted(k) ==
    /\ handler[k] # None /\ burst[k] # None
    /\ DropGuard(k)

CaptureNext ==
    \E k \in Requests :
        \/ \E i \in Ids : CaptureBegin(k, i)
        \/ BurstEnds(k)
        \/ CaptureReturns(k)
        \/ CaptureAborted(k)

CaptureSpec == CaptureInit /\ [][CaptureNext]_captureVars

-----------------------------------------------------------------------------
(* A device stays marked only while some handler holds a guard for it: "a
   failed capture can never wedge the device in the capturing state forever"
   (cameras.rs:71-73), whatever the overlap of requests and aborts. *)
NeverWedged == \A i \in capturing : \E k \in Requests : handler[k] = i

(* Every capture that is marked is unmarked in the end, so the listing and the
   live view stop making allowances for it. *)
MarkIsTemporary == \A i \in Ids : (i \in capturing) ~> (i \notin capturing)
=============================================================================
