----------------------------- MODULE PeerRegistry -----------------------------
(***************************************************************************)
(* The peers of the remote backend: other servers, by the address they are  *)
(* reached at, and the token they are called with.  POST /peers asks the    *)
(* peer before it writes the registry, so two requests can overlap.         *)
(***************************************************************************)
EXTENDS Naturals, Sequences

CONSTANTS
  Urls,      \* normalized addresses of other servers
  Self,      \* the address this server answers at
  Tokens,    \* bearer tokens
  None,      \* no token
  Adders,    \* requests to POST /peers
  MaxPeers   \* bound: how many entries are ever made

ASSUME PeerAssumption ==
  /\ None \notin Tokens
  /\ Self \notin Urls
  /\ MaxPeers \in Nat

VARIABLES
  peers,     \* the registry, in the order of registration
  lastId,    \* the last identifier given out
  adding,    \* what each request to add a peer has got to
  wants,     \* the token each other server asks for
  accepted   \* history: the addresses and tokens a peer has accepted

peerVars == <<peers, lastId, adding, wants, accepted>>

Peer == [id : 1..MaxPeers, url : Urls \cup {Self}, token : Tokens \cup {None}]

Idle == [at |-> "idle"]
Adding == [at : {"validate", "insert"}, url : Urls \cup {Self}, token : Tokens \cup {None}]

PeersTypeOK ==
  /\ peers \in Seq(Peer)
  /\ lastId \in 0..MaxPeers
  /\ adding \in [Adders -> Adding \cup {Idle}]
  /\ wants \in [Urls \cup {Self} -> Tokens]
  /\ accepted \subseteq (Urls \cup {Self}) \X (Tokens \cup {None})

PeersInit ==
  /\ peers = <<>>
  /\ lastId = 0
  /\ adding = [a \in Adders |-> Idle]
  /\ wants \in [Urls \cup {Self} -> Tokens]
  /\ accepted = {}

-----------------------------------------------------------------------------
At(url) == {i \in 1..Len(peers) : peers[i].url = url}

(* The first entry with the address. *)
token_for(url) ==
  IF At(url) = {} THEN None
  ELSE peers[CHOOSE i \in At(url) : \A j \in At(url) : i <= j].token

(* Every server has a token and answers 403 to a request without it. *)
Accepts(url, token) == wants[url] = token

(* Under one write lock: an address that is registered gets the new token,  *)
(* any other a new entry with an identifier of its own.                     *)
Update(url, token) ==
  /\ At(url) # {}
  /\ peers' = [peers EXCEPT ![CHOOSE i \in At(url) : \A j \in At(url) : i <= j].token = token]
  /\ UNCHANGED lastId

Push(url, token) ==
  /\ lastId < MaxPeers
  /\ lastId' = lastId + 1
  /\ peers' = Append(peers, [id |-> lastId + 1, url |-> url, token |-> token])

(* Faulty variant for RegistryIsSound: the address is looked up in the list   *)
(* read before the peer was asked, not under the lock of the write.          *)
AddAsReadBefore(url, token) ==
  \/ Update(url, token)
  \/ At(url) # {} /\ Push(url, token)
  \/ At(url) = {} /\ Push(url, token)

Add(url, token) ==
  \/ Update(url, token)
  \/ At(url) = {} /\ Push(url, token)

-----------------------------------------------------------------------------
(* POST /peers: an address and a token, checked against GET /health.         *)
AddPeer(a) ==
  /\ adding[a] = Idle
  /\ \E url \in Urls \cup {Self}, token \in Tokens \cup {None} :
       adding' = [adding EXCEPT ![a] = [at |-> "validate", url |-> url, token |-> token]]
  /\ UNCHANGED <<peers, lastId, wants, accepted>>

(* The peer cannot be reached, wants another token, is no camera server, or *)
(* is this very server.                                                    *)
Refused(a) ==
  /\ adding[a].at = "validate"
  /\ adding' = [adding EXCEPT ![a] = Idle]
  /\ UNCHANGED <<peers, lastId, wants, accepted>>

Validated(a) ==
  /\ adding[a].at = "validate"
  /\ adding[a].url # Self
  /\ Accepts(adding[a].url, adding[a].token)
  /\ adding' = [adding EXCEPT ![a].at = "insert"]
  /\ accepted' = accepted \cup {<<adding[a].url, adding[a].token>>}
  /\ UNCHANGED <<peers, lastId, wants>>

Insert(a) ==
  /\ adding[a].at = "insert"
  /\ Add(adding[a].url, adding[a].token)
  /\ adding' = [adding EXCEPT ![a] = Idle]
  /\ UNCHANGED <<wants, accepted>>

Without(i) == [j \in 1..(Len(peers) - 1) |-> IF j < i THEN peers[j] ELSE peers[j + 1]]

(* DELETE /peers/{id}: the entries with this id, of which there is one (404   *)
(* for an id that is not there).                                           *)
DeletePeer ==
  /\ \E i \in 1..Len(peers) : peers' = Without(i)
  /\ UNCHANGED <<lastId, adding, wants, accepted>>

(* Another server is started with another token. *)
PeerRestarts(url) ==
  /\ \E token \in Tokens : wants' = [wants EXCEPT ![url] = token]
  /\ wants' # wants
  /\ UNCHANGED <<peers, lastId, adding, accepted>>

PeersNext ==
  \/ \E a \in Adders : AddPeer(a) \/ Refused(a) \/ Validated(a) \/ Insert(a)
  \/ DeletePeer
  \/ \E url \in Urls : PeerRestarts(url)

PeersSpec == PeersInit /\ [][PeersNext]_peerVars

-----------------------------------------------------------------------------
(* However requests for one peer overlap, the registry has one entry for an *)
(* address, so the token of a call does not depend on the order of the list. *)
OneEntryPerUrl ==
  \A i, j \in 1..Len(peers) : peers[i].url = peers[j].url \/ peers[i].id = peers[j].id => i = j

(* Every entry was accepted by its peer with the token it has now ("the      *)
(* registry never holds a dead or misconfigured entry"), and none is this    *)
(* server.                                                                 *)
EntriesWereAccepted ==
  \A i \in 1..Len(peers) : <<peers[i].url, peers[i].token>> \in accepted /\ peers[i].url # Self

(* A proxied call finds one entry for its peer, with a token that the peer   *)
(* has accepted, whatever requests to add, change and delete overlap.        *)
RegistryIsSound == OneEntryPerUrl /\ EntriesWereAccepted
=============================================================================
