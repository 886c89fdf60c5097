--------------------------- MODULE CameraSessions ---------------------------
(***************************************************************************)
(* What the routes can count on, whatever vendor is behind the trait        *)
(* CameraBackend: connect opens the one session it was asked for, a picture *)
(* comes from a device with a session only, sessions can be lost at any     *)
(* time but nothing is claimed in a step that opens no session, and after   *)
(* shutdown() nothing is open and nothing opens again.  It is weaker than   *)
(* the trait in one point: that a connect of a connected device does nothing *)
(* is not so for Canon, which closes the session and may fail to open the   *)
(* next one.                                                               *)
(***************************************************************************)
CONSTANTS Devices, None

VARIABLES
  open,    \* the devices is_connected() is true of
  held,    \* the devices the system has open for this backend
  photo,   \* the last picture handed out
  thread   \* "runs" or "ended"

contractVars == <<open, held, photo, thread>>

ContractInit == open = {} /\ held = {} /\ photo = None /\ thread = "runs"

(* connect(): one device more, and it is really open; nothing else is. *)
Connects(d) ==
  /\ thread = "runs"
  /\ open' = open \cup {d}
  /\ d \in held'
  /\ held' \subseteq held \cup {d}
  /\ photo' = None
  /\ UNCHANGED thread

(* disconnect(), a connect() that fails, a device that went away: no claim   *)
(* is left that was not there before.                                      *)
Loses ==
  /\ open' \subseteq open
  /\ held' \subseteq held
  /\ photo' = None
  /\ UNCHANGED thread

(* get_live_view_frame() or capture_photo() of a device with a session. *)
Serves(d) ==
  /\ thread = "runs"
  /\ d \in open
  /\ photo' # None
  /\ photo'.dev = d
  /\ UNCHANGED <<open, held, thread>>

(* shutdown() or the drop of the backend: nothing stays claimed. *)
Ends ==
  /\ thread' = "ended"
  /\ open' = {}
  /\ held' = {}
  /\ photo' = None

ContractNext ==
  \/ \E d \in Devices : Connects(d) \/ Serves(d)
  \/ Loses
  \/ Ends

(* No step of an ended backend changes anything. *)
ContractSpec ==
  /\ ContractInit
  /\ [][ContractNext /\ thread = "runs"]_contractVars

=============================================================================
