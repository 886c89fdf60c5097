----------------------------- MODULE RemoteBackend -----------------------------
(***************************************************************************)
(* The cameras of other servers.  Each call of the backend is an HTTP call  *)
(* to the peer; the live view of a camera is fetched by a relay, a task of  *)
(* its own that keeps the latest frame until nobody has polled for it.      *)
(***************************************************************************)
EXTENDS PeerRegistry

CONSTANTS
  Cameras,    \* the cameras of peers, by native id
  PeerOf,     \* the address in the native id of each camera
  Clients,    \* requests that connect and disconnect
  MaxRelays,  \* bound: how many relays are ever started
  MaxStrays   \* bound: how many requests a peer acts on after we gave up

ASSUME RemoteAssumption ==
  /\ PeerOf \in [Cameras -> Urls]
  /\ MaxRelays \in Nat
  /\ MaxStrays \in Nat

VARIABLES
  connected,  \* the cameras this server takes to be connected
  peerOpen,   \* the cameras their own server has connected
  call,       \* what each client's request is at
  strays,     \* requests that timed out here and are still to act at the peer
  relayOf,    \* the relay in the table for each camera, 0 if there is none
  relay,      \* every relay ever started
  served,     \* the relay whose frame the last poll returned, 0 if none
  crossed,    \* history: cameras whose connects and disconnects overlapped
  cut         \* history: the relays started before the last disconnect

remoteOnly ==
  <<connected, peerOpen, call, strays, relayOf, relay, served, crossed, cut>>

remoteVars == <<peerVars, remoteOnly>>

(* A relay: its camera and token, whether it was polled within the idle     *)
(* timeout, where its loop is, whether a frame has come, and whether it was *)
(* told to abort.                                                          *)
Relay ==
  [cam : Cameras, token : Tokens \cup {None}, polled : BOOLEAN, aborted : BOOLEAN,
   at : {"check", "get", "stream", "sleep", "ended"}, latest : BOOLEAN]

Quiet == [at |-> "idle"]
Request ==
  [at : {"release", "forget", "sent", "acted"}, op : {"connect", "disconnect"},
   cam : Cameras, token : Tokens \cup {None}, alone : BOOLEAN]

Relays == 1..Len(relay)

RemoteTypeOK ==
  /\ PeersTypeOK
  /\ connected \subseteq Cameras
  /\ peerOpen \subseteq Cameras
  /\ call \in [Clients -> Request \cup {Quiet}]
  /\ strays \in Seq({"connect", "disconnect"} \X Cameras)
  /\ relayOf \in [Cameras -> 0..Len(relay)]
  /\ relay \in Seq(Relay)
  /\ served \in 0..Len(relay)
  /\ crossed \subseteq Cameras
  /\ cut \in [Cameras -> 0..Len(relay)]

RemoteInit ==
  /\ connected = {}
  /\ peerOpen = {}
  /\ call = [k \in Clients |-> Quiet]
  /\ strays = <<>>
  /\ relayOf = [c \in Cameras |-> 0]
  /\ relay = <<>>
  /\ served = 0
  /\ crossed = {}
  /\ cut = [c \in Cameras |-> 0]

-----------------------------------------------------------------------------
(* Requests of clients. *)

At_(k, op, at) == call[k].at = at /\ call[k].op = op

Others(k, cam) == {j \in Clients \ {k} : call[j] # Quiet /\ call[j].cam = cam}

(* The address is in the native id; the token is the registry's. *)
route(cam) == token_for(PeerOf[cam])

(* A request begins; from now on no other about this camera is alone. *)
Begin(k, op, at, cam) ==
  /\ call[k] = Quiet
  /\ call' = [j \in Clients |->
       IF j = k THEN [at |-> at, op |-> op, cam |-> cam, token |-> route(cam),
                      alone |-> Others(k, cam) = {}]
       ELSE IF j \in Others(k, cam) THEN [call[j] EXCEPT !.alone = FALSE]
       ELSE call[j]]

Connect(k) ==
  /\ \E cam \in Cameras : Begin(k, "connect", "sent", cam)
  /\ UNCHANGED <<peerVars, connected, peerOpen, strays, relayOf, relay, served, crossed, cut>>

Disconnect(k) ==
  /\ \E cam \in Cameras : Begin(k, "disconnect", "release", cam)
  /\ UNCHANGED <<peerVars, connected, peerOpen, strays, relayOf, relay, served, crossed, cut>>

(* Faulty variant for RelaysAreReleased: the handle of the relay is dropped  *)
(* and not aborted, which lets the task go on.                             *)
DropHandle(r) == [relay EXCEPT ![r].polled = relay[r].polled]

Abort(r) == [relay EXCEPT ![r].aborted = TRUE]

(* disconnect: the relay is taken from the table and aborted... *)
Release(k) ==
  /\ At_(k, "disconnect", "release")
  /\ LET cam == call[k].cam
         r == relayOf[cam]
     IN  /\ relay' = IF r = 0 THEN relay ELSE Abort(r)
         /\ relayOf' = [relayOf EXCEPT ![cam] = 0]
         /\ cut' = [cut EXCEPT ![cam] = Len(relay)]
  /\ served' = 0
  /\ call' = [call EXCEPT ![k].at = "forget"]
  /\ UNCHANGED <<peerVars, connected, peerOpen, strays, crossed>>

(* Faulty variant for ConnectedIsOpen: the camera is forgotten once the peer *)
(* has said that it disconnected.                                          *)
ForgetLater(k) ==
  /\ At_(k, "disconnect", "forget")
  /\ call' = [call EXCEPT ![k].at = "sent", ![k].token = route(call[k].cam)]
  /\ UNCHANGED <<peerVars, connected, peerOpen, strays, relayOf, relay, served, crossed, cut>>

(* ... the camera is no longer connected here, and only then the peer is told. *)
Forget(k) ==
  /\ At_(k, "disconnect", "forget")
  /\ connected' = connected \ {call[k].cam}
  /\ call' = [call EXCEPT ![k].at = "sent", ![k].token = route(call[k].cam)]
  /\ UNCHANGED <<peerVars, peerOpen, strays, relayOf, relay, served, crossed, cut>>

After(op, cam) == IF op = "connect" THEN peerOpen \cup {cam} ELSE peerOpen \ {cam}

(* The peer does what it is asked. *)
PeerActs(k) ==
  /\ call[k].at = "sent"
  /\ Accepts(PeerOf[call[k].cam], call[k].token)
  /\ peerOpen' = After(call[k].op, call[k].cam)
  /\ call' = [call EXCEPT ![k].at = "acted"]
  /\ UNCHANGED <<peerVars, connected, strays, relayOf, relay, served, crossed, cut>>

(* Its answer arrives: a connect enters the camera in the local set. *)
Answered(k) ==
  /\ call[k].at = "acted"
  /\ connected' = IF call[k].op = "connect" THEN connected \cup {call[k].cam} ELSE connected
  /\ crossed' = IF call[k].alone THEN crossed ELSE crossed \cup {call[k].cam}
  /\ call' = [call EXCEPT ![k] = Quiet]
  /\ UNCHANGED <<peerVars, peerOpen, strays, relayOf, relay, served, cut>>

(* No answer, or one that is not a success: the camera stays as it is here.  *)
(* A request that was not refused may still act at the peer later.          *)
Failed(k) ==
  /\ call[k].at \in {"sent", "acted"}
  /\ \/ UNCHANGED strays
     \/ /\ call[k].at = "sent"
        /\ Len(strays) < MaxStrays
        /\ Accepts(PeerOf[call[k].cam], call[k].token)
        /\ strays' = Append(strays, <<call[k].op, call[k].cam>>)
  /\ crossed' = IF call[k].alone THEN crossed ELSE crossed \cup {call[k].cam}
  /\ call' = [call EXCEPT ![k] = Quiet]
  /\ UNCHANGED <<peerVars, connected, peerOpen, relayOf, relay, served, cut>>

StrayActs ==
  /\ strays # <<>>
  /\ peerOpen' = After(strays[1][1], strays[1][2])
  /\ crossed' = crossed \cup {strays[1][2]}
  /\ strays' = Tail(strays)
  /\ UNCHANGED <<peerVars, connected, call, relayOf, relay, served, cut>>

(* The peer loses the camera, or another client of it disconnects. *)
PeerCloses(cam) ==
  /\ cam \in peerOpen
  /\ peerOpen' = peerOpen \ {cam}
  /\ crossed' = crossed \cup {cam}
  /\ UNCHANGED <<peerVars, connected, call, strays, relayOf, relay, served, cut>>

-----------------------------------------------------------------------------
(* The live view. *)

(* get_live_view_frame, under the lock of the table: a relay is started when *)
(* there is none or it has ended; its frame is returned, or "not ready".     *)
Poll(cam) ==
  /\ LET r == relayOf[cam]
         start == r = 0 \/ relay[r].at = "ended"
         s == IF start THEN Len(relay) + 1 ELSE r
     IN  /\ start => Len(relay) < MaxRelays
         /\ relay' = IF start
              THEN Append(relay, [cam |-> cam, token |-> route(cam), polled |-> TRUE,
                                  aborted |-> FALSE, at |-> "check", latest |-> FALSE])
              ELSE [relay EXCEPT ![r].polled = TRUE]
         /\ relayOf' = [relayOf EXCEPT ![cam] = s]
         /\ served' = IF relay'[s].latest THEN s ELSE 0
  /\ UNCHANGED <<peerVars, connected, peerOpen, call, strays, crossed, cut>>

(* Two seconds without a poll. *)
PollAges(r) ==
  /\ relay[r].polled
  /\ relay' = [relay EXCEPT ![r].polled = FALSE]
  /\ UNCHANGED <<peerVars, connected, peerOpen, call, strays, relayOf, served, crossed, cut>>

Move(r, at) ==
  /\ relay' = [relay EXCEPT ![r].at = at]
  /\ UNCHANGED <<peerVars, connected, peerOpen, call, strays, relayOf, served, crossed, cut>>

(* The outer loop looks at the last poll. *)
Check(r) ==
  /\ relay[r].at = "check"
  /\ Move(r, IF relay[r].polled THEN "get" ELSE "ended")

(* An aborted task ends at one of its awaits. *)
AbortEnds(r) ==
  /\ relay[r].aborted
  /\ relay[r].at \in {"get", "stream", "sleep"}
  /\ Move(r, "ended")

CanStream(r) ==
  Accepts(PeerOf[relay[r].cam], relay[r].token) /\ relay[r].cam \in peerOpen

(* The peer answers the GET, which has no timeout: with a stream, or not. *)
Answers(r) ==
  /\ relay[r].at = "get"
  /\ \/ CanStream(r) /\ Move(r, "stream")
     \/ Move(r, "sleep")

Wakes(r) ==
  /\ relay[r].at = "sleep"
  /\ Move(r, "check")

(* The next chunk of the stream: nobody polls, so the relay ends; or it      *)
(* completes a frame, or only a part of one.                                *)
Chunk(r) ==
  /\ relay[r].at = "stream"
  /\ relay' = IF ~relay[r].polled THEN [relay EXCEPT ![r].at = "ended"]
              ELSE [relay EXCEPT ![r].latest = TRUE]
  /\ UNCHANGED <<peerVars, connected, peerOpen, call, strays, relayOf, served, crossed, cut>>

(* The stream breaks or comes to its end: the relay looks for another one, *)
(* unless nobody polls.                                                    *)
Breaks(r) ==
  /\ relay[r].at = "stream"
  /\ \/ Move(r, "check")
     \/ ~relay[r].polled /\ Move(r, "ended")

ClientStep(k) ==
  \/ Connect(k) \/ Disconnect(k) \/ Release(k) \/ Forget(k) \/ PeerActs(k)
  \/ Answered(k) \/ Failed(k)

RelayStep(r) == Check(r) \/ AbortEnds(r) \/ Wakes(r)
UpstreamStep(r) == Answers(r) \/ Chunk(r) \/ Breaks(r)

RemoteNext ==
  \/ \E k \in Clients : ClientStep(k)
  \/ StrayActs
  \/ \E cam \in Cameras : PeerCloses(cam) \/ Poll(cam)
  \/ \E r \in Relays : PollAges(r) \/ RelayStep(r) \/ UpstreamStep(r)
  \/ PeersNext /\ UNCHANGED remoteOnly

RemoteSpec == PeersInit /\ RemoteInit /\ [][RemoteNext]_remoteVars

-----------------------------------------------------------------------------
(* A camera that is connected here is connected at its peer, whatever        *)
(* answers were lost, unless requests about it overlapped, the peer acted    *)
(* on one that had timed out, or the camera was closed at the peer.          *)
ConnectedIsOpen ==
  \A cam \in connected \ peerOpen : 
    cam \in crossed \/ \E k \in Clients : call[k] # Quiet /\ call[k].cam = cam /\ ~call[k].alone

(* A camera never has two streams open at its peer that nobody has told to   *)
(* close: disconnecting releases the one there is ("so the upstream          *)
(* live-view stream is released even if the remote disconnect call fails").  *)
OneStreamPerCamera ==
  \A r, s \in Relays :
    /\ relay[r].cam = relay[s].cam
    /\ {relay[r].at, relay[s].at} \cap {"ended"} = {}
    /\ ~relay[r].aborted /\ ~relay[s].aborted
    => r = s

(* A poll never returns a frame received before the camera was disconnected. *)
NoFrameFromBefore == served # 0 => served > cut[relay[served].cam]

(* The upstream stream goes with the session, and its frames with it. *)
RelaysAreReleased == OneStreamPerCamera /\ NoFrameFromBefore

(* A relay looks at its last poll before it asks for a stream and at each      *)
(* chunk, never while it waits for either: with no timeout on the stream, its  *)
(* end depends on a peer that answers, and that sends if it does not break off. *)
UpstreamGoesOn(r) == WF_remoteVars(r \in Relays /\ (Answers(r) \/ Chunk(r)))

StaysAt(r, stages) == <>[](r \in Relays => relay[r].at \in stages)

(* A relay nobody polls any more ends and closes the connection to its peer,  *)
(* if the peer goes on; if not, it waits for one answer or one chunk and       *)
(* never asks for another stream.                                          *)
IdleRelayEnds ==
  \A r \in 1..MaxRelays :
    <>[](r \in Relays => ~relay[r].polled) =>
      /\ UpstreamGoesOn(r) => StaysAt(r, {"ended"})
      /\ StaysAt(r, {"ended"}) \/ StaysAt(r, {"get"}) \/ StaysAt(r, {"stream"})
=============================================================================
