----------------------------- MODULE RemoteProofs -----------------------------
(***************************************************************************)
(* Theorems about the registry of peers and about RemoteBackend, for any     *)
(* servers, tokens, cameras, clients and requests under way at once.         *)
(***************************************************************************)
EXTENDS RemoteBackend, TLAPS

(* Identifiers are given out once, and what is about to be inserted was
   accepted by its peer: nothing takes that back before the write. *)
RegistryInv ==
    /\ PeersTypeOK
    /\ RegistryIsSound
    /\ \A i \in 1..Len(peers) : peers[i].id <= lastId
    /\ \A a \in Adders :
        adding[a].at = "insert" =>
            <<adding[a].url, adding[a].token>> \in accepted /\ adding[a].url # Self

USE DEF PeersTypeOK, RegistryIsSound, OneEntryPerUrl, EntriesWereAccepted

-----------------------------------------------------------------------------
(* With one entry for an address, the first one is that one. *)
LEMMA FirstEntry ==
    ASSUME OneEntryPerUrl, NEW url, At(url) # {}
    PROVE  \E k \in At(url) : k = CHOOSE i \in At(url) : \A j \in At(url) : i <= j
<1>1. PICK k \in At(url) : TRUE
  OBVIOUS
<1>2. \A j \in At(url) : k = j /\ k \in Nat
  BY <1>1 DEF At
<1>3. \E i \in At(url) : \A j \in At(url) : i <= j
  BY <1>1, <1>2
<1> QED BY <1>3

(* The write under the lock, with what the peer has accepted. *)
LEMMA AddKeeps ==
    ASSUME RegistryInv, NEW url \in Urls \cup {Self}, NEW token \in Tokens \cup {None},
           <<url, token>> \in accepted, url # Self,
           Add(url, token), UNCHANGED accepted
    PROVE  /\ peers' \in Seq(Peer) /\ lastId' \in 0..MaxPeers
           /\ RegistryIsSound'
           /\ \A i \in 1..Len(peers') : peers'[i].id <= lastId'
<1>1. CASE Update(url, token)
  <2>1. PICK k \in At(url) : peers' = [peers EXCEPT ![k].token = token]
    BY <1>1, FirstEntry DEF Update, RegistryInv
  <2>2. k \in 1..Len(peers) /\ peers[k].url = url
    BY <2>1 DEF At
  <2>3. peers[k] \in Peer
    BY <2>2 DEF RegistryInv
  <2>4. [peers[k] EXCEPT !.token = token] \in Peer
    BY <2>3 DEF Peer
  <2>5. peers' \in Seq(Peer) /\ Len(peers') = Len(peers)
    BY <2>1, <2>2, <2>4 DEF RegistryInv
  <2>6. \A i \in 1..Len(peers) :
          /\ peers'[i].id = peers[i].id /\ peers'[i].url = peers[i].url
          /\ peers'[i].token = IF i = k THEN token ELSE peers[i].token
    <3> SUFFICES ASSUME NEW i \in 1..Len(peers)
                 PROVE  /\ peers'[i].id = peers[i].id /\ peers'[i].url = peers[i].url
                        /\ peers'[i].token = IF i = k THEN token ELSE peers[i].token
      OBVIOUS
    <3>1. peers'[i] = IF i = k THEN [peers[k] EXCEPT !.token = token] ELSE peers[i]
      BY <2>1, <2>2 DEF RegistryInv
    <3> QED BY <2>3, <3>1 DEF Peer
  <2>7. OneEntryPerUrl'
    BY <2>5, <2>6 DEF RegistryInv
  <2>8. EntriesWereAccepted'
    <3> SUFFICES ASSUME NEW i \in 1..Len(peers)
                 PROVE  <<peers'[i].url, peers'[i].token>> \in accepted' /\ peers'[i].url # Self
      BY <2>5
    <3> QED BY <2>2, <2>6 DEF RegistryInv
  <2>9. lastId' = lastId /\ lastId \in 0..MaxPeers
    BY <1>1 DEF Update, RegistryInv
  <2>10. \A i \in 1..Len(peers') : peers'[i].id <= lastId'
    <3> SUFFICES ASSUME NEW i \in 1..Len(peers) PROVE peers'[i].id <= lastId
      BY <2>5, <2>9
    <3> QED BY <2>6 DEF RegistryInv
  <2> QED BY <2>5, <2>7, <2>8, <2>9, <2>10
<1>2. CASE At(url) = {} /\ Push(url, token)
  <2> DEFINE new == [id |-> lastId + 1, url |-> url, token |-> token]
  <2>1. new \in Peer /\ lastId' = lastId + 1 /\ lastId' \in 0..MaxPeers
    BY <1>2, PeerAssumption DEF Push, Peer, RegistryInv
  <2>2. /\ peers' \in Seq(Peer) /\ Len(peers') = Len(peers) + 1
        /\ \A i \in 1..Len(peers) : peers'[i] = peers[i]
        /\ peers'[Len(peers) + 1] = new
    BY <1>2, <2>1 DEF Push, RegistryInv
  <2>3. \A i \in 1..Len(peers) : peers[i] \in Peer /\ peers[i].url # url
    BY <1>2 DEF At, RegistryInv
  <2>4. \A i \in 1..Len(peers) : peers[i].id # lastId + 1
    BY <2>3 DEF RegistryInv, Peer
  <2>5. \A i \in 1..Len(peers') : i = Len(peers) + 1 \/ i \in 1..Len(peers)
    BY <2>2 DEF RegistryInv
  <2>6. OneEntryPerUrl'
    BY <2>2, <2>3, <2>4, <2>5 DEF RegistryInv
  <2>7. ASSUME NEW i \in 1..Len(peers')
        PROVE  /\ <<peers'[i].url, peers'[i].token>> \in accepted' /\ peers'[i].url # Self
               /\ peers'[i].id <= lastId'
    <3>1. CASE i = Len(peers) + 1
      <4>1. peers'[i].url = url /\ peers'[i].token = token /\ peers'[i].id = lastId + 1
        BY <2>2, <3>1
      <4>2. lastId + 1 <= lastId'
        BY <2>1
      <4> QED BY <4>1, <4>2
    <3>2. CASE i \in 1..Len(peers)
      <4>1. peers[i].id \in Nat /\ peers[i].id <= lastId
        BY <2>3, <3>2 DEF RegistryInv, Peer
      <4>2. <<peers[i].url, peers[i].token>> \in accepted /\ peers[i].url # Self
        BY <3>2 DEF RegistryInv
      <4>3. peers'[i] = peers[i] /\ lastId' = lastId + 1 /\ lastId \in Nat
        BY <2>1, <2>2, <3>2 DEF RegistryInv
      <4> QED BY <4>1, <4>2, <4>3
    <3> QED BY <2>5, <3>1, <3>2
  <2> QED BY <2>1, <2>2, <2>6, <2>7
<1> QED BY <1>1, <1>2 DEF Add

(* One entry less, and the others as they were. *)
LEMMA DeleteKeeps ==
    ASSUME RegistryInv, DeletePeer
    PROVE  RegistryInv'
<1>1. PICK k \in 1..Len(peers) : peers' = Without(k)
  BY DEF DeletePeer
<1> DEFINE old(j) == IF j < k THEN j ELSE j + 1
<1>2. Len(peers) \in Nat /\ Len(peers) - 1 \in Nat
  BY DEF RegistryInv
<1>3. \A j \in 1..(Len(peers) - 1) : old(j) \in 1..Len(peers) /\ peers'[j] = peers[old(j)]
  BY <1>1, <1>2 DEF Without
<1>4. peers' \in Seq(Peer) /\ Len(peers') = Len(peers) - 1
  <2>1. peers' \in [1..(Len(peers) - 1) -> Peer]
    BY <1>1, <1>2, <1>3 DEF Without, RegistryInv
  <2> QED BY <1>2, <2>1
<1>5. \A i, j \in 1..(Len(peers) - 1) : old(i) = old(j) => i = j
  BY <1>2
<1>6. OneEntryPerUrl'
  <2> SUFFICES ASSUME NEW i \in 1..(Len(peers) - 1), NEW j \in 1..(Len(peers) - 1),
                      peers'[i].url = peers'[j].url \/ peers'[i].id = peers'[j].id
               PROVE  i = j
    BY <1>4
  <2>1. old(i) \in 1..Len(peers) /\ old(j) \in 1..Len(peers)
    BY <1>3
  <2>2. peers[old(i)].url = peers[old(j)].url \/ peers[old(i)].id = peers[old(j)].id
    BY <1>3
  <2> HIDE DEF old
  <2>3. old(i) = old(j)
    BY <2>1, <2>2 DEF RegistryInv
  <2> QED BY <1>5, <2>3
<1>7. \A i \in 1..Len(peers') :
        /\ <<peers'[i].url, peers'[i].token>> \in accepted' /\ peers'[i].url # Self
        /\ peers'[i].id <= lastId'
  <2> SUFFICES ASSUME NEW i \in 1..(Len(peers) - 1)
               PROVE  /\ <<peers'[i].url, peers'[i].token>> \in accepted'
                      /\ peers'[i].url # Self /\ peers'[i].id <= lastId'
    BY <1>4
  <2>1. PICK o \in 1..Len(peers) : peers'[i] = peers[o]
    BY <1>3
  <2>2. /\ <<peers[o].url, peers[o].token>> \in accepted
        /\ peers[o].url # Self /\ peers[o].id <= lastId
    BY DEF RegistryInv
  <2>3. UNCHANGED <<accepted, lastId>>
    BY DEF DeletePeer
  <2> QED BY <2>1, <2>2, <2>3
<1>8. UNCHANGED <<lastId, adding, wants, accepted>>
  BY DEF DeletePeer
<1>9. RegistryIsSound'
  BY <1>6, <1>7
<1>10. PeersTypeOK'
  BY <1>4, <1>8 DEF RegistryInv
<1> QED BY <1>7, <1>8, <1>9, <1>10 DEF RegistryInv

(* The steps of a request to add a peer: it asks before it writes. *)
LEMMA AdderKeeps ==
    ASSUME RegistryInv, NEW a \in Adders, AddPeer(a) \/ Refused(a) \/ Validated(a) \/ Insert(a)
    PROVE  RegistryInv'
<1>0. adding[a].at # "idle" => adding[a] \in Adding
  BY DEF RegistryInv, Idle
<1>1. CASE AddPeer(a)
  <2>1. PICK new \in Adding : new.at = "validate" /\ adding' = [adding EXCEPT ![a] = new]
    BY <1>1 DEF AddPeer, Adding
  <2>2. UNCHANGED <<peers, lastId, wants, accepted>>
    BY <1>1 DEF AddPeer
  <2> QED BY <2>1, <2>2 DEF RegistryInv
<1>2. CASE Refused(a)
  BY <1>2 DEF Refused, RegistryInv, Idle
<1>3. CASE Validated(a)
  <2>1. adding[a] \in Adding
    BY <1>0, <1>3 DEF Validated
  <2>2. [adding[a] EXCEPT !.at = "insert"] \in Adding
    BY <2>1 DEF Adding
  <2>3. adding' = [adding EXCEPT ![a] = [adding[a] EXCEPT !.at = "insert"]]
    BY <1>3 DEF Validated
  <2>4. adding' \in [Adders -> Adding \cup {Idle}]
    BY <2>2, <2>3 DEF RegistryInv
  <2>5. accepted' \subseteq (Urls \cup {Self}) \X (Tokens \cup {None}) /\ accepted \subseteq accepted'
    BY <1>3, <2>1 DEF Validated, RegistryInv, Adding
  <2>6. ASSUME NEW b \in Adders, adding'[b].at = "insert"
        PROVE  <<adding'[b].url, adding'[b].token>> \in accepted' /\ adding'[b].url # Self
    <3>1. CASE b = a
      <4>1. adding'[b].url = adding[a].url /\ adding'[b].token = adding[a].token
        BY <2>1, <2>3, <3>1 DEF Adding, RegistryInv
      <4> QED BY <1>3, <4>1 DEF Validated
    <3>2. CASE b # a
      BY <2>3, <2>5, <2>6, <3>2 DEF RegistryInv
    <3> QED BY <3>1, <3>2
  <2> QED BY <1>3, <2>4, <2>5, <2>6 DEF Validated, RegistryInv
<1>4. CASE Insert(a)
  <2>1. adding[a].url \in Urls \cup {Self} /\ adding[a].token \in Tokens \cup {None}
    BY <1>0, <1>4 DEF Insert, Adding
  <2>2. /\ peers' \in Seq(Peer) /\ lastId' \in 0..MaxPeers
        /\ RegistryIsSound'
        /\ \A i \in 1..Len(peers') : peers'[i].id <= lastId'
    BY <1>4, <2>1, AddKeeps DEF Insert, RegistryInv
  <2> QED BY <1>4, <2>2 DEF Insert, RegistryInv, Idle
<1> QED BY <1>1, <1>2, <1>3, <1>4

LEMMA RegistryBegins == PeersInit => RegistryInv
BY PeerAssumption DEF PeersInit, RegistryInv, Idle

LEMMA RegistryStep ==
    ASSUME RegistryInv, [PeersNext]_peerVars
    PROVE  RegistryInv'
<1>1. ASSUME NEW url \in Urls, PeerRestarts(url) PROVE RegistryInv'
  BY <1>1 DEF PeerRestarts, RegistryInv
<1>2. CASE UNCHANGED peerVars
  BY <1>2 DEF peerVars, RegistryInv, At
<1> QED BY <1>1, <1>2, AdderKeeps, DeleteKeeps DEF PeersNext

-----------------------------------------------------------------------------
(* However requests to add, change and delete peers overlap, and whatever the
   peers do in between, there is one entry for an address and for an
   identifier, and its token is one that its peer has accepted. *)
THEOREM RegistryStaysSound == PeersSpec => []RegistryIsSound
<1>1. RegistryInv /\ [PeersNext]_peerVars => RegistryInv'
  BY RegistryStep
<1>2. RegistryInv => RegistryIsSound
  BY DEF RegistryInv
<1> QED BY RegistryBegins, <1>1, <1>2, PTL DEF PeersSpec

-----------------------------------------------------------------------------
(* Of the requests about one camera none is alone; one that is alone, about a
   camera that nothing else has crossed, knows what its peer is at. *)
CallInv ==
    /\ \A j, k \in Clients :
         j # k /\ call[j] # Quiet /\ call[k] # Quiet /\ call[j].cam = call[k].cam
           => ~call[j].alone
    /\ \A k \in Clients :
         call[k] # Quiet /\ call[k].alone /\ call[k].cam \notin crossed =>
           /\ At_(k, "disconnect", "sent") \/ At_(k, "disconnect", "acted")
                => call[k].cam \notin connected
           /\ At_(k, "connect", "acted") => call[k].cam \in peerOpen
    /\ ConnectedIsOpen

(* A relay that streams and was not told to stop is the one in the table, and
   that one was started after the last disconnect. *)
RelayInv ==
    /\ \A c \in Cameras : relayOf[c] # 0 => relay[relayOf[c]].cam = c /\ relayOf[c] > cut[c]
    /\ \A r \in Relays :
         relay[r].at # "ended" /\ ~relay[r].aborted => relayOf[relay[r].cam] = r
    /\ NoFrameFromBefore

(* What the requests of clients keep and know of. *)
CallsTypeOK ==
  /\ connected \subseteq Cameras
  /\ peerOpen \subseteq Cameras
  /\ call \in [Clients -> Request \cup {Quiet}]
  /\ strays \in Seq({"connect", "disconnect"} \X Cameras)
  /\ crossed \subseteq Cameras

RelaysTypeOK ==
  /\ relayOf \in [Cameras -> 0..Len(relay)]
  /\ relay \in Seq(Relay)
  /\ served \in 0..Len(relay)
  /\ cut \in [Cameras -> 0..Len(relay)]

callVars == <<connected, peerOpen, call, strays, crossed>>
relayVars == <<relayOf, relay, served, cut>>

(* Quiet has one field. *)
LEMMA Busy ==
    ASSUME CallsTypeOK, NEW k \in Clients, call[k].at # "idle"
    PROVE  call[k] \in Request /\ call[k] # Quiet
BY DEF CallsTypeOK, Quiet

LEMMA RequestIsBusy ==
    ASSUME NEW q \in Request PROVE q # Quiet
BY DEF Request, Quiet

LEMMA BeginKeeps ==
    ASSUME CallsTypeOK, CallInv, NEW k \in Clients, NEW cam \in Cameras,
           route(cam) \in Tokens \cup {None},
           \/ Begin(k, "connect", "sent", cam) \/ Begin(k, "disconnect", "release", cam),
           UNCHANGED <<connected, peerOpen, strays, crossed>>
    PROVE  (CallsTypeOK /\ CallInv)'
<1>1. PICK op \in {"connect", "disconnect"}, at \in {"sent", "release"} :
        /\ Begin(k, op, at, cam)
        /\ op = "disconnect" => at = "release"
  BY Zenon
<1> DEFINE new == [at |-> at, op |-> op, cam |-> cam, token |-> route(cam),
                   alone |-> Others(k, cam) = {}]
<1>2. new \in Request
  BY <1>1 DEF Request
<1>3. /\ call'[k] = new
      /\ \A j \in Clients \ {k} :
           call'[j] = IF j \in Others(k, cam) THEN [call[j] EXCEPT !.alone = FALSE] ELSE call[j]
  BY <1>1 DEF Begin
<1>4. \A j \in Others(k, cam) : call[j] \in Request /\ [call[j] EXCEPT !.alone = FALSE] \in Request
  BY DEF Others, CallsTypeOK, Request
<1>5. CallsTypeOK'
  <2>1. \A j \in Clients : call'[j] \in Request \cup {Quiet}
    BY <1>2, <1>3, <1>4 DEF CallsTypeOK
  <2>2. call' = [j \in Clients |-> call'[j]]
    BY <1>1 DEF Begin
  <2> QED BY <2>1, <2>2 DEF CallsTypeOK
(* What changed of each other request. *)
<1> DEFINE Follows(j) ==
      /\ call'[j] # Quiet <=> call[j] # Quiet
      /\ call[j] # Quiet =>
           /\ call'[j].cam = call[j].cam /\ call'[j].op = call[j].op /\ call'[j].at = call[j].at
           /\ call'[j].alone = (call[j].alone /\ call[j].cam # cam)
<1>6. \A j \in Clients \ {k} : Follows(j)
  <2> SUFFICES ASSUME NEW j \in Clients \ {k} PROVE Follows(j)
    OBVIOUS
  <2>1. CASE j \in Others(k, cam)
    <3>1. call[j] # Quiet /\ call[j].cam = cam /\ call[j] \in Request
      BY <1>4, <2>1 DEF Others
    <3>2. call'[j] = [call[j] EXCEPT !.alone = FALSE] /\ call'[j] \in Request
      BY <1>3, <1>4, <2>1
    <3>3. call'[j] # Quiet
      BY <3>2, RequestIsBusy
    <3> QED BY <3>1, <3>2, <3>3 DEF Request
  <2>2. CASE j \notin Others(k, cam)
    <3>1. call'[j] = call[j]
      BY <1>3, <2>2
    <3>2. call[j] # Quiet => call[j].cam # cam /\ call[j] \in Request
      BY <2>2 DEF Others, CallsTypeOK
    <3> QED BY <3>1, <3>2 DEF Request
  <2> QED BY <2>1, <2>2
<1>7. call[k] = Quiet /\ call'[k] # Quiet /\ call'[k].cam = cam
      /\ (call'[k].alone <=> Others(k, cam) = {})
      /\ ~(call'[k].op = "disconnect" /\ call'[k].at \in {"sent", "acted"})
      /\ call'[k].at # "acted"
  BY <1>1, <1>2, <1>3, RequestIsBusy DEF Begin
<1> HIDE DEF new
<1>8. \A j \in Clients \ {k} : j \in Others(k, cam) <=> call[j] # Quiet /\ call[j].cam = cam
  BY DEF Others
<1>9. ASSUME NEW i \in Clients, NEW j \in Clients, i # j, call'[i] # Quiet, call'[j] # Quiet,
             call'[i].cam = call'[j].cam
      PROVE  ~call'[i].alone
  <2>1. CASE i = k
    BY <1>6, <1>7, <1>8, <1>9, <2>1
  <2>2. CASE i # k
    BY <1>6, <1>7, <1>9, <2>2 DEF CallInv
  <2> QED BY <2>1, <2>2
<1>10. ASSUME NEW j \in Clients, call'[j] # Quiet, call'[j].alone, call'[j].cam \notin crossed'
       PROVE  /\ call'[j].at \in {"sent", "acted"} /\ call'[j].op = "disconnect"
                   => call'[j].cam \notin connected'
              /\ call'[j].at = "acted" /\ call'[j].op = "connect" => call'[j].cam \in peerOpen'
  <2>1. CASE j = k
    BY <1>7, <2>1
  <2>2. CASE j # k
    BY <1>6, <1>10, <2>2 DEF CallInv, At_
  <2> QED BY <2>1, <2>2
<1>11. ConnectedIsOpen'
  <2> SUFFICES ASSUME NEW c \in connected \ peerOpen, c \notin crossed
               PROVE  \E j \in Clients : call'[j] # Quiet /\ call'[j].cam = c /\ ~call'[j].alone
    BY DEF ConnectedIsOpen
  <2>1. PICK j \in Clients : call[j] # Quiet /\ call[j].cam = c /\ ~call[j].alone
    BY DEF CallInv, ConnectedIsOpen
  <2>2. j # k
    BY <1>7, <2>1
  <2> QED BY <1>6, <2>1, <2>2
<1> QED BY <1>5, <1>9, <1>10, <1>11 DEF CallInv, At_

(* A request that goes on stays about its camera, and as alone as it was. *)
LEMMA GoesOn ==
    ASSUME CallsTypeOK, CallInv, NEW k \in Clients, call[k] \in Request,
           NEW next \in Request, next.cam = call[k].cam, next.alone = call[k].alone,
           call' = [call EXCEPT ![k] = next], connected' \subseteq Cameras,
           \A c \in Cameras \ crossed' : c \in connected' \ peerOpen' =>
             c \in connected \ peerOpen \/ (call[k].cam = c /\ ~call[k].alone),
           \A c \in Cameras \ crossed' :
             /\ c \in connected' => c \in connected
             /\ c \in peerOpen => c \in peerOpen' \/ (call[k].cam = c),
           crossed \subseteq crossed',
           next.alone /\ next.cam \notin crossed' =>
             /\ next.op = "disconnect" /\ next.at \in {"sent", "acted"}
                  => next.cam \notin connected'
             /\ next.op = "connect" /\ next.at = "acted" => next.cam \in peerOpen'
    PROVE  CallInv' /\ call' \in [Clients -> Request \cup {Quiet}]
<1>1. /\ call'[k] = next /\ \A j \in Clients \ {k} : call'[j] = call[j]
      /\ call' \in [Clients -> Request \cup {Quiet}]
  BY DEF CallsTypeOK
<1>2. next # Quiet /\ call[k] # Quiet
  BY RequestIsBusy
<1>3. ASSUME NEW i \in Clients, NEW j \in Clients, i # j, call'[i] # Quiet, call'[j] # Quiet,
             call'[i].cam = call'[j].cam
      PROVE  ~call'[i].alone
  BY <1>1, <1>2, <1>3 DEF CallInv
<1>4. ASSUME NEW j \in Clients, call'[j] # Quiet, call'[j].alone, call'[j].cam \notin crossed'
      PROVE  /\ call'[j].at \in {"sent", "acted"} /\ call'[j].op = "disconnect"
                  => call'[j].cam \notin connected'
             /\ call'[j].at = "acted" /\ call'[j].op = "connect" => call'[j].cam \in peerOpen'
  <2>1. CASE j = k
    BY <1>1, <1>4, <2>1
  <2>2. CASE j # k
    <3>1. call'[j] = call[j] /\ call[j] \in Request
      BY <1>1, <1>4, <2>2 DEF CallsTypeOK
    <3>2. call[j].cam \in Cameras \ crossed' /\ call[j].cam \notin crossed
      BY <1>4, <3>1 DEF Request
    <3>3. call[j].cam # call[k].cam
      BY <1>2, <1>4, <2>2, <3>1 DEF CallInv
    <3>4. /\ call[j].at \in {"sent", "acted"} /\ call[j].op = "disconnect"
               => call[j].cam \notin connected
          /\ call[j].at = "acted" /\ call[j].op = "connect" => call[j].cam \in peerOpen
      BY <1>4, <3>1, <3>2 DEF CallInv, At_
    <3> QED BY <3>1, <3>2, <3>3, <3>4
  <2> QED BY <2>1, <2>2
<1>5. ConnectedIsOpen'
  <2> SUFFICES ASSUME NEW c \in connected' \ peerOpen', c \notin crossed', c \in Cameras
               PROVE  \E j \in Clients : call'[j] # Quiet /\ call'[j].cam = c /\ ~call'[j].alone
    BY Zenon DEF ConnectedIsOpen
  <2>1. CASE call[k].cam = c /\ ~call[k].alone
    BY <1>1, <1>2, <2>1
  <2>2. CASE c \in connected \ peerOpen
    <3>1. PICK j \in Clients : call[j] # Quiet /\ call[j].cam = c /\ ~call[j].alone
      BY <2>2 DEF CallInv, ConnectedIsOpen
    <3> QED BY <1>1, <1>2, <3>1
  <2> QED BY <2>1, <2>2
<1> QED BY <1>1, <1>3, <1>4, <1>5 DEF CallInv, At_

(* A request that ends leaves its camera crossed unless it was alone. *)
LEMMA EndKeeps ==
    ASSUME CallsTypeOK, CallInv, NEW k \in Clients, call[k] \in Request,
           call' = [call EXCEPT ![k] = Quiet], UNCHANGED peerOpen,
           connected' \subseteq connected \cup {call[k].cam},
           connected \subseteq connected',
           call[k].cam \in connected' \ connected => At_(k, "connect", "acted"),
           crossed' = IF call[k].alone THEN crossed ELSE crossed \cup {call[k].cam}
    PROVE  CallInv'
<1>1. /\ call'[k] = Quiet /\ \A j \in Clients \ {k} : call'[j] = call[j]
      /\ call[k] # Quiet
  BY RequestIsBusy DEF CallsTypeOK
<1>2. ASSUME NEW i \in Clients, NEW j \in Clients, i # j, call'[i] # Quiet, call'[j] # Quiet,
             call'[i].cam = call'[j].cam
      PROVE  ~call'[i].alone
  BY <1>1, <1>2 DEF CallInv
<1>3. ASSUME NEW j \in Clients, call'[j] # Quiet, call'[j].alone, call'[j].cam \notin crossed'
      PROVE  /\ call'[j].at \in {"sent", "acted"} /\ call'[j].op = "disconnect"
                  => call'[j].cam \notin connected'
             /\ call'[j].at = "acted" /\ call'[j].op = "connect" => call'[j].cam \in peerOpen'
  <2>1. j # k /\ call'[j] = call[j]
    BY <1>1, <1>3
  <2>2. call[j].cam # call[k].cam
    BY <1>1, <1>3, <2>1 DEF CallInv
  <2> QED BY <1>3, <2>1, <2>2 DEF CallInv, At_
<1>4. ConnectedIsOpen'
  <2> SUFFICES ASSUME NEW c \in connected' \ peerOpen', c \notin crossed'
               PROVE  \E j \in Clients : call'[j] # Quiet /\ call'[j].cam = c /\ ~call'[j].alone
    BY Zenon DEF ConnectedIsOpen
  <2>1. c \in connected
    BY <1>1 DEF CallInv
  <2>2. PICK j \in Clients : call[j] # Quiet /\ call[j].cam = c /\ ~call[j].alone
    BY <2>1 DEF CallInv, ConnectedIsOpen
  <2> QED BY <1>1, <2>2
<1> QED BY <1>2, <1>3, <1>4 DEF CallInv, At_

(* What happens at the peer behind the back of this server. *)
LEMMA BehindOurBack ==
    ASSUME CallsTypeOK, CallInv, NEW cam, UNCHANGED <<connected, call>>,
           \A c \in Cameras \ {cam} : c \in peerOpen <=> c \in peerOpen',
           crossed' = crossed \cup {cam}
    PROVE  CallInv'
<1>1. ConnectedIsOpen'
  BY DEF ConnectedIsOpen, CallInv, CallsTypeOK
<1>2. \A j \in Clients : call[j] # Quiet => call[j].cam \in Cameras
  BY DEF CallsTypeOK, Request
<1> QED BY <1>1, <1>2 DEF CallInv, At_

(* Each step of a request, and of the peer on its own. *)
LEMMA CallStepKeeps ==
    ASSUME CallsTypeOK, CallInv, PeersTypeOK, RemoteAssumption,
           \A cam \in Cameras : route(cam) \in Tokens \cup {None},
           NEW k \in Clients, ClientStep(k)
    PROVE  (CallsTypeOK /\ CallInv)'
<1>1. CASE Connect(k) \/ Disconnect(k)
  <2>1. PICK cam \in Cameras : \/ Begin(k, "connect", "sent", cam)
                               \/ Begin(k, "disconnect", "release", cam)
    BY <1>1 DEF Connect, Disconnect
  <2>2. UNCHANGED <<connected, peerOpen, strays, crossed>>
    BY <1>1 DEF Connect, Disconnect
  <2> QED BY <2>1, <2>2, BeginKeeps
<1>2. CASE Release(k)
  <2> DEFINE next == [call[k] EXCEPT !.at = "forget"]
  <2>1. call[k] \in Request
    BY <1>2, Busy DEF Release, At_
  <2>2. next \in Request /\ next.cam = call[k].cam /\ next.alone = call[k].alone /\ next.at = "forget"
    BY <2>1 DEF Request
  <2>3. call' = [call EXCEPT ![k] = next] /\ UNCHANGED <<connected, peerOpen, strays, crossed>>
    BY <1>2 DEF Release
  <2>4. connected' \subseteq Cameras
    BY <2>3 DEF CallsTypeOK
  <2> HIDE DEF next
  <2>5. CallInv' /\ call' \in [Clients -> Request \cup {Quiet}]
    BY <2>1, <2>2, <2>3, <2>4, GoesOn
  <2> QED BY <2>3, <2>5 DEF CallsTypeOK
<1>3. CASE Forget(k)
  <2> DEFINE next == [call[k] EXCEPT !.at = "sent", !.token = route(call[k].cam)]
  <2>1. call[k] \in Request
    BY <1>3, Busy DEF Forget, At_
  <2>2. next \in Request /\ next.cam = call[k].cam /\ next.alone = call[k].alone
        /\ next.op = "disconnect"
    BY <1>3, <2>1 DEF Request, Forget, At_
  <2>3. call' = [call EXCEPT ![k] = next] /\ UNCHANGED <<peerOpen, strays, crossed>>
        /\ connected' = connected \ {call[k].cam}
    BY <1>3 DEF Forget
  <2>4. connected' \subseteq Cameras
    BY <2>3 DEF CallsTypeOK
  <2> HIDE DEF next
  <2>5. CallInv' /\ call' \in [Clients -> Request \cup {Quiet}]
    BY <2>1, <2>2, <2>3, <2>4, GoesOn
  <2> QED BY <2>3, <2>4, <2>5 DEF CallsTypeOK
<1>4. CASE PeerActs(k)
  <2> DEFINE next == [call[k] EXCEPT !.at = "acted"]
  <2>1. call[k] \in Request /\ call[k] # Quiet
    BY <1>4, Busy DEF PeerActs
  <2>2. next \in Request /\ next.cam = call[k].cam /\ next.alone = call[k].alone /\ next.at = "acted"
        /\ next.op = call[k].op
    BY <2>1 DEF Request
  <2>3. call' = [call EXCEPT ![k] = next] /\ UNCHANGED <<connected, strays, crossed>>
        /\ peerOpen' = After(call[k].op, call[k].cam)
    BY <1>4 DEF PeerActs
  <2>4. connected' \subseteq Cameras /\ peerOpen' \subseteq Cameras
    BY <2>1, <2>3 DEF CallsTypeOK, After, Request
  <2> HIDE DEF next
  <2>5. call[k].alone /\ call[k].cam \notin crossed /\ call[k].op = "disconnect"
        => call[k].cam \notin connected
    BY <1>4, <2>1 DEF CallInv, PeerActs, At_
  <2>6. \A c \in Cameras \ crossed' : c \in connected' \ peerOpen' =>
             c \in connected \ peerOpen \/ (call[k].cam = c /\ ~call[k].alone)
    <3> SUFFICES ASSUME NEW c \in Cameras \ crossed', c \in connected' \ peerOpen',
                        c \in peerOpen
                 PROVE  call[k].cam = c /\ ~call[k].alone
      BY <2>3
    <3>1. call[k].op = "disconnect" /\ call[k].cam = c
      BY <2>1, <2>3 DEF After, Request
    <3> QED BY <2>3, <2>5, <3>1
  <2>7. CallInv' /\ call' \in [Clients -> Request \cup {Quiet}]
    <3>1. \A c \in Cameras \ crossed' :
             /\ c \in connected' => c \in connected
             /\ c \in peerOpen => c \in peerOpen' \/ (call[k].cam = c)
      BY <2>3 DEF After
    <3>2. next.alone /\ next.cam \notin crossed' =>
             /\ next.op = "disconnect" /\ next.at \in {"sent", "acted"}
                  => next.cam \notin connected'
             /\ next.op = "connect" /\ next.at = "acted" => next.cam \in peerOpen'
      BY <2>2, <2>3, <2>5 DEF After
    <3>3. crossed \subseteq crossed'
      BY <2>3
    <3> QED BY <2>1, <2>2, <2>3, <2>4, <2>6, <3>1, <3>2, <3>3, GoesOn
  <2> QED BY <2>3, <2>4, <2>7 DEF CallsTypeOK
<1>5. CASE Answered(k)
  <2>1. call[k] \in Request
    BY <1>5, Busy DEF Answered
  <2>2. CallInv'
    BY <1>5, <2>1, EndKeeps DEF Answered, At_
  <2> QED BY <1>5, <2>1, <2>2 DEF Answered, CallsTypeOK, Request
<1>6. CASE Failed(k)
  <2>1. call[k] \in Request
    BY <1>6, Busy DEF Failed
  <2>2. CallInv'
    BY <1>6, <2>1, EndKeeps DEF Failed, At_
  <2>3. <<call[k].op, call[k].cam>> \in {"connect", "disconnect"} \X Cameras
    BY <2>1 DEF Request
  <2>4. strays' \in Seq({"connect", "disconnect"} \X Cameras)
    <3> DEFINE S == {"connect", "disconnect"} \X Cameras
               x == <<call[k].op, call[k].cam>>
    <3>1. strays \in Seq(S) /\ x \in S
      BY <2>3 DEF CallsTypeOK
    <3>2. strays' = strays \/ strays' = Append(strays, x)
      BY <1>6 DEF Failed
    <3> HIDE DEF S, x
    <3>3. strays' \in Seq(S)
      BY <3>1, <3>2
    <3> QED BY <3>3 DEF S
  <2> QED BY <1>6, <2>1, <2>2, <2>4 DEF Failed, CallsTypeOK, Request
<1> QED BY <1>1, <1>2, <1>3, <1>4, <1>5, <1>6 DEF ClientStep

LEMMA PeerKeeps ==
    ASSUME CallsTypeOK, CallInv, StrayActs \/ \E cam \in Cameras : PeerCloses(cam)
    PROVE  (CallsTypeOK /\ CallInv)'
<1>1. CASE StrayActs
  <2>1. strays[1] \in {"connect", "disconnect"} \X Cameras
        /\ strays' \in Seq({"connect", "disconnect"} \X Cameras)
    BY <1>1 DEF StrayActs, CallsTypeOK
  <2>2. \A c \in Cameras \ {strays[1][2]} : c \in peerOpen <=> c \in peerOpen'
    BY <1>1 DEF StrayActs, After
  <2>3. CallInv'
    BY <1>1, <2>2, BehindOurBack DEF StrayActs
  <2> QED BY <1>1, <2>1, <2>3 DEF StrayActs, CallsTypeOK, After
<1>2. ASSUME NEW cam \in Cameras, PeerCloses(cam) PROVE (CallsTypeOK /\ CallInv)'
  <2>1. CallInv'
    BY <1>2, BehindOurBack DEF PeerCloses
  <2> QED BY <1>2, <2>1 DEF PeerCloses, CallsTypeOK
<1> QED BY <1>1, <1>2

-----------------------------------------------------------------------------
LEMMA Replaced ==
    ASSUME relay \in Seq(Relay), NEW r \in Relays, NEW new \in Relay,
           relay' = [relay EXCEPT ![r] = new]
    PROVE  /\ relay' \in Seq(Relay) /\ Len(relay') = Len(relay) /\ Relays' = Relays
           /\ \A q \in Relays : relay'[q] = IF q = r THEN new ELSE relay[q]
BY DEF Relays

(* A relay that moves keeps its camera, and does not come back to life. *)
LEMMA MoveKeeps ==
    ASSUME RelaysTypeOK, RelayInv, NEW r \in Relays, NEW new \in Relay,
           new.cam = relay[r].cam,
           new.at # "ended" /\ ~new.aborted => relay[r].at # "ended" /\ ~relay[r].aborted,
           relay' = [relay EXCEPT ![r] = new], UNCHANGED <<relayOf, served, cut>>
    PROVE  (RelaysTypeOK /\ RelayInv)'
<1>1. /\ relay' \in Seq(Relay) /\ Len(relay') = Len(relay) /\ Relays' = Relays
      /\ \A s \in Relays : relay'[s] = IF s = r THEN new ELSE relay[s]
  BY Replaced DEF RelaysTypeOK
<1>2. \A s \in Relays : relay'[s].cam = relay[s].cam
  BY <1>1
<1>3. RelaysTypeOK'
  BY <1>1 DEF RelaysTypeOK
<1>4. \A c \in Cameras : relayOf[c] # 0 => relayOf[c] \in Relays
  BY DEF RelaysTypeOK, Relays
<1>5. served # 0 => served \in Relays
  BY DEF RelaysTypeOK, Relays
<1> QED BY <1>1, <1>2, <1>3, <1>4, <1>5 DEF RelayInv, NoFrameFromBefore

LEMMA RelayStepKeeps ==
    ASSUME RelaysTypeOK, RelayInv, NEW r \in Relays,
           PollAges(r) \/ RelayStep(r) \/ UpstreamStep(r)
    PROVE  (RelaysTypeOK /\ RelayInv)'
<1>1. relay[r] \in Relay
  BY DEF RelaysTypeOK, Relays
<1>2. ASSUME NEW at \in {"check", "get", "stream", "sleep", "ended"}, Move(r, at),
             relay[r].at # "ended"
      PROVE  (RelaysTypeOK /\ RelayInv)'
  <2> DEFINE new == [relay[r] EXCEPT !.at = at]
  <2>1. /\ new \in Relay /\ new.cam = relay[r].cam
        /\ new.at # "ended" /\ ~new.aborted => relay[r].at # "ended" /\ ~relay[r].aborted
    BY <1>1, <1>2 DEF Relay
  <2>2. relay' = [relay EXCEPT ![r] = new] /\ UNCHANGED <<relayOf, served, cut>>
    BY <1>2 DEF Move
  <2> HIDE DEF new
  <2> QED BY <2>1, <2>2, MoveKeeps
<1>3. CASE PollAges(r)
  <2> DEFINE new == [relay[r] EXCEPT !.polled = FALSE]
  <2>1. /\ new \in Relay /\ new.cam = relay[r].cam
        /\ new.at # "ended" /\ ~new.aborted => relay[r].at # "ended" /\ ~relay[r].aborted
    BY <1>1 DEF Relay
  <2>2. relay' = [relay EXCEPT ![r] = new] /\ UNCHANGED <<relayOf, served, cut>>
    BY <1>3 DEF PollAges
  <2> HIDE DEF new
  <2> QED BY <2>1, <2>2, MoveKeeps
<1>4. CASE RelayStep(r)
  BY <1>2, <1>4 DEF RelayStep, Check, AbortEnds, Wakes
<1>5. CASE Answers(r) \/ Breaks(r)
  BY <1>2, <1>5 DEF Answers, Breaks
<1>6. CASE Chunk(r)
  <2> DEFINE new == IF ~relay[r].polled THEN [relay[r] EXCEPT !.at = "ended"]
                    ELSE [relay[r] EXCEPT !.latest = TRUE]
  <2>1. /\ new \in Relay /\ new.cam = relay[r].cam
        /\ new.at # "ended" /\ ~new.aborted => relay[r].at # "ended" /\ ~relay[r].aborted
    BY <1>1, <1>6 DEF Relay, Chunk
  <2>2. relay' = [relay EXCEPT ![r] = new] /\ UNCHANGED <<relayOf, served, cut>>
    BY <1>6 DEF Chunk
  <2> HIDE DEF new
  <2> QED BY <2>1, <2>2, MoveKeeps
<1> QED BY <1>3, <1>4, <1>5, <1>6 DEF UpstreamStep

(* A relay is started only where the table has none that still runs. *)
LEMMA PollKeeps ==
    ASSUME RelaysTypeOK, RelayInv, NEW cam \in Cameras, route(cam) \in Tokens \cup {None},
           Poll(cam)
    PROVE  (RelaysTypeOK /\ RelayInv)'
<1> DEFINE r == relayOf[cam]
           start == r = 0 \/ relay[r].at = "ended"
           s == IF start THEN Len(relay) + 1 ELSE r
           first == [cam |-> cam, token |-> route(cam), polled |-> TRUE,
                     aborted |-> FALSE, at |-> "check", latest |-> FALSE]
<1>0. Len(relay) \in Nat /\ r \in 0..Len(relay) /\ cut[cam] \in 0..Len(relay)
  BY DEF RelaysTypeOK
<1>1. /\ relay' = IF start THEN Append(relay, first) ELSE [relay EXCEPT ![r].polled = TRUE]
      /\ relayOf' = [relayOf EXCEPT ![cam] = s]
      /\ served' = (IF relay'[s].latest THEN s ELSE 0) /\ cut' = cut
  BY DEF Poll
<1>2. CASE start
  <2>1. first \in Relay
    BY DEF Relay
  <2>2. /\ relay' \in Seq(Relay) /\ Len(relay') = Len(relay) + 1
        /\ \A q \in Relays : relay'[q] = relay[q]
        /\ relay'[s] = first /\ s = Len(relay) + 1
    BY <1>0, <1>1, <1>2, <2>1 DEF RelaysTypeOK, Relays
  <2>3. served' = 0
    BY <1>1, <2>2
  <2>4. /\ relayOf'[cam] = s /\ s > cut[cam]
        /\ \A c \in Cameras \ {cam} : relayOf'[c] = relayOf[c]
    BY <1>0, <1>1, <2>2 DEF RelaysTypeOK
  <2>5. \A c \in Cameras : relayOf[c] \in 0..Len(relay)
    BY DEF RelaysTypeOK
  <2>6. RelaysTypeOK'
    <3>1. \A c \in Cameras : relayOf'[c] \in 0..Len(relay') /\ cut'[c] \in 0..Len(relay')
      BY <1>0, <1>1, <2>2, <2>4, <2>5 DEF RelaysTypeOK
    <3>2. relayOf' \in [Cameras -> 0..Len(relay')] /\ cut' \in [Cameras -> 0..Len(relay')]
      BY <1>1, <3>1 DEF RelaysTypeOK
    <3> QED BY <2>2, <2>3, <3>2, <1>0 DEF RelaysTypeOK
  <2>7. \A c \in Cameras : relayOf'[c] # 0 => relay'[relayOf'[c]].cam = c /\ relayOf'[c] > cut'[c]
    <3> SUFFICES ASSUME NEW c \in Cameras, relayOf'[c] # 0
                 PROVE  relay'[relayOf'[c]].cam = c /\ relayOf'[c] > cut'[c]
      OBVIOUS
    <3>1. CASE c = cam
      BY <1>1, <2>2, <2>4, <3>1
    <3>2. CASE c # cam
      <4>1. relayOf'[c] = relayOf[c] /\ relayOf[c] \in Relays
        BY <2>4, <2>5, <3>2, <1>0 DEF Relays
      <4>2. relay'[relayOf[c]] = relay[relayOf[c]] /\ cut' = cut
        BY <1>1, <2>2, <4>1
      <4>3. relayOf[c] # 0 => relay[relayOf[c]].cam = c /\ relayOf[c] > cut[c]
        BY DEF RelayInv
      <4> QED BY <4>1, <4>2, <4>3
    <3> QED BY <3>1, <3>2
  <2>8. ASSUME NEW q \in Relays', relay'[q].at # "ended", ~relay'[q].aborted
        PROVE  relayOf'[relay'[q].cam] = q
    <3>1. q = s \/ q \in Relays
      BY <1>0, <2>2 DEF Relays
    <3>2. CASE q = s
      BY <2>2, <2>4, <3>2
    <3>3. CASE q \in Relays
      <4>1. relay[q] \in Relay /\ relay'[q] = relay[q] /\ q # 0
        BY <2>2, <3>3 DEF RelaysTypeOK, Relays
      <4>2. relayOf[relay[q].cam] = q /\ relay[q].cam \in Cameras
        BY <2>8, <3>3, <4>1 DEF RelayInv, Relay
      <4>3. relay[q].cam # cam
        BY <1>2, <2>8, <4>1, <4>2
      <4> QED BY <2>4, <4>1, <4>2, <4>3
    <3> QED BY <3>1, <3>2, <3>3
  <2> QED BY <2>3, <2>6, <2>7, <2>8 DEF RelayInv, NoFrameFromBefore
<1>3. CASE ~start
  <2> DEFINE new == [relay[r] EXCEPT !.polled = TRUE]
  <2>1. r \in Relays /\ s = r /\ relay[r] \in Relay
    BY <1>0, <1>3 DEF Relays, RelaysTypeOK
  <2>2. /\ new \in Relay /\ new.cam = relay[r].cam
        /\ new.at = relay[r].at /\ new.aborted = relay[r].aborted
    BY <2>1 DEF Relay
  <2>3. relay' = [relay EXCEPT ![r] = new] /\ relayOf' = relayOf
    BY <1>1, <1>3, <2>1 DEF RelaysTypeOK
  <2>4. /\ relay' \in Seq(Relay) /\ Len(relay') = Len(relay) /\ Relays' = Relays
        /\ \A q \in Relays : relay'[q].cam = relay[q].cam /\ relay'[q].at = relay[q].at
                             /\ relay'[q].aborted = relay[q].aborted
    BY <2>1, <2>2, <2>3 DEF RelaysTypeOK, Relays
  <2>5. served' \in {0, r}
    BY <1>1, <2>1
  <2>6. relay[r].cam = cam /\ r > cut[cam]
    BY <1>3 DEF RelayInv
  <2> HIDE DEF r, s, start, new
  <2>7. RelaysTypeOK'
    BY <1>0, <1>1, <2>3, <2>4, <2>5 DEF RelaysTypeOK
  <2>8. \A c \in Cameras : relayOf[c] # 0 => relayOf[c] \in Relays
    BY DEF RelaysTypeOK, Relays
  <2> QED BY <1>1, <2>1, <2>3, <2>4, <2>5, <2>6, <2>7, <2>8 DEF RelayInv, NoFrameFromBefore
<1> QED BY <1>2, <1>3

(* The relay that is taken out of the table is told to abort. *)
LEMMA ReleaseKeeps ==
    ASSUME RelaysTypeOK, RelayInv, NEW cam \in Cameras,
           relay' = IF relayOf[cam] = 0 THEN relay ELSE Abort(relayOf[cam]),
           relayOf' = [relayOf EXCEPT ![cam] = 0],
           cut' = [cut EXCEPT ![cam] = Len(relay)],
           served' = 0
    PROVE  (RelaysTypeOK /\ RelayInv)'
<1> DEFINE r == relayOf[cam]
<1>1. Len(relay) \in Nat /\ \A c \in Cameras : relayOf[c] # 0 => relayOf[c] \in Relays
  BY DEF RelaysTypeOK, Relays
<1>2. /\ relay' \in Seq(Relay) /\ Len(relay') = Len(relay) /\ Relays' = Relays
      /\ \A q \in Relays : /\ relay'[q].cam = relay[q].cam /\ relay'[q].at = relay[q].at
                           /\ q # r => relay'[q].aborted = relay[q].aborted
                           /\ q = r => relay'[q].aborted
  <2>1. CASE r = 0
    BY <2>1 DEF Relays, RelaysTypeOK
  <2>2. CASE r # 0
    <3> DEFINE new == [relay[r] EXCEPT !.aborted = TRUE]
    <3>1. r \in Relays /\ relay[r] \in Relay
      BY <1>1, <2>2 DEF Relays, RelaysTypeOK
    <3>2. new \in Relay /\ new.cam = relay[r].cam /\ new.at = relay[r].at /\ new.aborted
      BY <3>1 DEF Relay
    <3>3. relay' = [relay EXCEPT ![r] = new]
      BY <2>2, <3>1 DEF Abort, RelaysTypeOK
    <3> HIDE DEF r, new
    <3>4. /\ relay' \in Seq(Relay) /\ Len(relay') = Len(relay)
          /\ \A q \in Relays : relay'[q] = IF q = r THEN new ELSE relay[q]
      BY <3>1, <3>2, <3>3, Replaced DEF RelaysTypeOK
    <3> QED BY <3>2, <3>4 DEF Relays
  <2> QED BY <2>1, <2>2
<1>3. /\ relayOf'[cam] = 0 /\ \A c \in Cameras \ {cam} : relayOf'[c] = relayOf[c] /\ cut'[c] = cut[c]
  BY DEF RelaysTypeOK
<1>4. RelaysTypeOK'
  BY <1>1, <1>2 DEF RelaysTypeOK
<1>5. ASSUME NEW q \in Relays', relay'[q].at # "ended", ~relay'[q].aborted
      PROVE  relayOf'[relay'[q].cam] = q
  <2>1. q \in Relays /\ q # r /\ relay[q].at # "ended" /\ ~relay[q].aborted
    BY <1>2, <1>5
  <2>2. relayOf[relay[q].cam] = q /\ relay[q] \in Relay
    BY <2>1 DEF RelayInv, RelaysTypeOK, Relays
  <2>3. relay[q].cam \in Cameras \ {cam}
    BY <2>1, <2>2 DEF Relay
  <2> QED BY <1>2, <1>3, <2>1, <2>2, <2>3
<1>6. ASSUME NEW c \in Cameras, relayOf'[c] # 0
      PROVE  relay'[relayOf'[c]].cam = c /\ relayOf'[c] > cut'[c]
  BY <1>1, <1>2, <1>3, <1>6 DEF RelayInv
<1> QED BY <1>4, <1>5, <1>6 DEF RelayInv, NoFrameFromBefore

-----------------------------------------------------------------------------
(* What the remote backend keeps. *)
RemoteInv == RegistryInv /\ CallsTypeOK /\ RelaysTypeOK /\ CallInv /\ RelayInv

(* The token for an address is one of an entry, or none. *)
LEMMA TokenFor ==
    ASSUME RegistryInv, NEW url PROVE token_for(url) \in Tokens \cup {None}
<1>1. CASE At(url) = {}
  BY <1>1 DEF token_for
<1>2. CASE At(url) # {}
  <2>1. PICK k \in At(url) : token_for(url) = peers[k].token
    BY <1>2, FirstEntry DEF RegistryInv, token_for
  <2>2. peers[k] \in Peer
    BY DEF At, RegistryInv
  <2> QED BY <2>1, <2>2 DEF Peer
<1> QED BY <1>1, <1>2

LEMMA CallsRest ==
    ASSUME CallsTypeOK, CallInv, UNCHANGED callVars
    PROVE  (CallsTypeOK /\ CallInv)'
BY DEF CallsTypeOK, CallInv, ConnectedIsOpen, At_, callVars

LEMMA RelaysRest ==
    ASSUME RelaysTypeOK, RelayInv, UNCHANGED relayVars
    PROVE  (RelaysTypeOK /\ RelayInv)'
BY DEF RelaysTypeOK, RelayInv, NoFrameFromBefore, Relays, relayVars

LEMMA RemoteStep ==
    ASSUME RemoteInv, RemoteAssumption, [RemoteNext]_remoteVars
    PROVE  RemoteInv'
<1>0. \A cam \in Cameras : route(cam) \in Tokens \cup {None}
  BY TokenFor DEF route, RemoteInv
<1>1. ASSUME NEW k \in Clients, ClientStep(k) PROVE RemoteInv'
  <2>1. (CallsTypeOK /\ CallInv)'
    BY <1>0, <1>1, CallStepKeeps DEF RemoteInv, RegistryInv
  <2>2. (RelaysTypeOK /\ RelayInv)'
    <3>1. CASE Release(k)
      <4>1. call[k].cam \in Cameras
        BY <3>1, Busy DEF Release, At_, RemoteInv, Request
      <4> QED BY <3>1, <4>1, ReleaseKeeps DEF Release, RemoteInv
    <3>2. CASE ~Release(k)
      <4>1. UNCHANGED relayVars
        BY <1>1, <3>2 DEF ClientStep, Connect, Disconnect, Forget, PeerActs, Answered, Failed,
              relayVars
      <4> QED BY <4>1, RelaysRest DEF RemoteInv
    <3> QED BY <3>1, <3>2
  <2>3. UNCHANGED peerVars
    BY <1>1 DEF ClientStep, Connect, Disconnect, Release, Forget, PeerActs, Answered, Failed
  <2> QED BY <2>1, <2>2, <2>3, RegistryStep DEF RemoteInv
<1>2. CASE StrayActs \/ \E cam \in Cameras : PeerCloses(cam)
  <2>1. UNCHANGED peerVars /\ UNCHANGED relayVars
    BY <1>2 DEF StrayActs, PeerCloses, relayVars
  <2> QED BY <1>2, <2>1, PeerKeeps, RegistryStep, RelaysRest DEF RemoteInv
<1>3. ASSUME NEW cam \in Cameras, Poll(cam) PROVE RemoteInv'
  <2>1. UNCHANGED peerVars /\ UNCHANGED callVars
    BY <1>3 DEF Poll, callVars
  <2> QED BY <1>0, <1>3, <2>1, PollKeeps, RegistryStep, CallsRest DEF RemoteInv
<1>4. ASSUME NEW r \in Relays, PollAges(r) \/ RelayStep(r) \/ UpstreamStep(r)
      PROVE  RemoteInv'
  <2>1. UNCHANGED peerVars /\ UNCHANGED callVars
    BY <1>4 DEF PollAges, RelayStep, Check, AbortEnds, Wakes, UpstreamStep, Answers, Chunk,
          Breaks, Move, callVars
  <2> QED BY <1>4, <2>1, RelayStepKeeps, RegistryStep, CallsRest DEF RemoteInv
<1>5. CASE PeersNext /\ UNCHANGED remoteOnly
  <2>1. UNCHANGED callVars /\ UNCHANGED relayVars
    BY <1>5 DEF remoteOnly, callVars, relayVars
  <2> QED BY <1>5, <2>1, RegistryStep, CallsRest, RelaysRest DEF RemoteInv
<1>6. CASE UNCHANGED remoteVars
  <2>1. UNCHANGED callVars /\ UNCHANGED relayVars /\ UNCHANGED peerVars
    BY <1>6 DEF remoteVars, remoteOnly, callVars, relayVars
  <2> QED BY <2>1, RegistryStep, CallsRest, RelaysRest DEF RemoteInv
<1> QED BY <1>1, <1>2, <1>3, <1>4, <1>5, <1>6 DEF RemoteNext

LEMMA RemoteBegins ==
    ASSUME RegistryInv, RemoteInit
    PROVE  RemoteInv
<1>1. CallsTypeOK /\ CallInv
  BY DEF RemoteInit, CallsTypeOK, CallInv, ConnectedIsOpen, At_
<1>2. RelaysTypeOK /\ RelayInv
  BY DEF RemoteInit, RelaysTypeOK, RelayInv, NoFrameFromBefore, Relays
<1> QED BY <1>1, <1>2 DEF RemoteInv

LEMMA RemoteShows ==
    ASSUME RemoteInv
    PROVE  RemoteTypeOK /\ RegistryIsSound /\ ConnectedIsOpen /\ RelaysAreReleased
<1>1. OneStreamPerCamera
  BY DEF RemoteInv, RelayInv, OneStreamPerCamera
<1> QED BY <1>1 DEF RemoteInv, RegistryInv, CallsTypeOK, RelaysTypeOK, CallInv, RelayInv,
             RemoteTypeOK, RelaysAreReleased

LEMMA RemoteInvariant == RemoteSpec => []RemoteInv
<1>1. PeersInit /\ RemoteInit => RemoteInv
  BY RegistryBegins, RemoteBegins
<1>2. RemoteInv /\ [RemoteNext]_remoteVars => RemoteInv'
  BY RemoteStep, RemoteAssumption
<1> QED BY <1>1, <1>2, PTL DEF RemoteSpec

(* A camera that is connected here is open at its peer, whatever answers were
   lost, as long as no other request about it overlapped. *)
THEOREM ConnectedStaysOpen == RemoteSpec => []ConnectedIsOpen
<1>1. RemoteInv => ConnectedIsOpen
  BY DEF RemoteInv, CallInv
<1> QED BY <1>1, RemoteInvariant, PTL

(* A camera has one stream open at its peer that was not told to close, and a
   poll is never answered from before the last disconnect. *)
THEOREM RelaysStayReleased == RemoteSpec => []RelaysAreReleased
<1>1. RemoteInv => RelaysAreReleased
  BY RemoteShows
<1> QED BY <1>1, RemoteInvariant, PTL
=============================================================================
