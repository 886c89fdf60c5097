------------------------------- MODULE Listing -------------------------------
(***************************************************************************)
(* GET /cameras (routes/cameras.rs, list_cameras and dedup_devices): every *)
(* backend is asked at the same time, each with a timeout, and what they   *)
(* report is merged.  Photos that are being taken (CaptureGuard) hold the  *)
(* channel of their backend.                                               *)
(*                                                                         *)
(* Abstracted: names and the connected flag; a listing is the set of its   *)
(* ids, in the fixed order Place (backends in spawn order, then the order  *)
(* in which a backend enumerates).  The timeout of three seconds expires   *)
(* at any time.  Backends serialise their calls, as their actor threads do;*)
(* a call that nobody waits for any more changes nothing.                  *)
(***************************************************************************)
EXTENDS CaptureGuard, Integers, FiniteSets

CONSTANTS
    Backends,
    Owner,      \* Owner[i]: the backend of device i
    Priority,   \* Priority[b]: dedup_priority
    Key,        \* Key[i]: the dedup key of device i, None if it has none
    Place,      \* Place[i]: where device i comes in the listing order
    Polls       \* listing requests that may be under way at the same time

ASSUME ListingAssumption ==
    /\ IsFiniteSet(Backends)
    /\ Owner \in [Ids -> Backends]
    /\ Priority \in [Backends -> Int]
    /\ Place \in [Ids -> Int]
    /\ \A i, j \in Ids : Place[i] = Place[j] => i = j

VARIABLES
    visible,    \* the devices the backends would enumerate now
    task,       \* task[p][b]: where poll p is with backend b
    found,      \* found[p][b]: what it has from b
    failed,     \* failed[p][b]: b answered with an error, or panicked
    cache       \* cache[b]: the DeviceListCache

pollVars == <<task, found, failed, cache>>
vars == <<visible, pollVars, captureVars>>

TaskPoints == {"idle", "asked", "answered", "done"}
Owned(b) == {i \in Ids : Owner[i] = b}

ListingTypeOK ==
    /\ CaptureTypeOK
    /\ visible \subseteq Ids
    /\ task \in [Polls -> [Backends -> TaskPoints]]
    /\ failed \in [Polls -> [Backends -> BOOLEAN]]
    /\ \A b \in Backends :
        cache[b] \subseteq Owned(b) /\ \A p \in Polls : found[p][b] \subseteq Owned(b)

ListingInit ==
    /\ CaptureInit
    /\ visible = {}
    /\ task = [p \in Polls |-> [b \in Backends |-> "idle"]]
    /\ found = [p \in Polls |-> [b \in Backends |-> {}]]
    /\ failed = [p \in Polls |-> [b \in Backends |-> FALSE]]
    /\ cache = [b \in Backends |-> {}]

(* backend_has_capture. *)
BackendHasCapture(b) == capturing \cap Owned(b) # {}

(* A burst holds the channel of backend b. *)
ChannelHeld(b) == \E k \in Requests : burst[k] \in Owned(b)

-----------------------------------------------------------------------------
(* dedup_devices *)

SameKey(i, j) == Key[i] # None /\ Key[i] = Key[j]

Prio(i) == Priority[Owner[i]]

(* Nobody in S has the key of i with a higher priority. *)
AtBest(i, S) == \A j \in S : SameKey(i, j) => Prio(j) <= Prio(i)

\* Faulty variant for AnswersAreDeduped: every entry of the best backend is kept.
DedupBackends(S) == {i \in S : Key[i] = None \/ AtBest(i, S)}

(* Devices without a key, and of those with the same key the first at the best
   priority. *)
Dedup(S) ==
    {i \in S : \/ Key[i] = None
               \/ /\ AtBest(i, S)
                  /\ \A j \in S : SameKey(i, j) /\ AtBest(j, S) => Place[i] <= Place[j]}

-----------------------------------------------------------------------------
(* Devices come and go. *)
Appears(i) ==
    /\ i \notin visible
    /\ visible' = visible \cup {i}
    /\ UNCHANGED <<pollVars, captureVars>>

Vanishes(i) ==
    /\ i \in visible
    /\ visible' = visible \ {i}
    /\ UNCHANGED <<pollVars, captureVars>>

TaskGoto(p, b, x) == task' = [task EXCEPT ![p][b] = x]

(* list_cameras: one task per backend. *)
PollBegins(p) ==
    /\ \A b \in Backends : task[p][b] = "idle"
    /\ task' = [task EXCEPT ![p] = [b \in Backends |-> "asked"]]
    /\ UNCHANGED <<visible, found, failed, cache, captureVars>>

(* The blocking call ends: what the backend enumerates, or an error. *)
BackendAnswers(p, b, err) ==
    /\ task[p][b] = "asked" /\ ~ChannelHeld(b)
    /\ found' = [found EXCEPT ![p][b] = IF err THEN {} ELSE visible \cap Owned(b)]
    /\ failed' = [failed EXCEPT ![p][b] = err]
    /\ TaskGoto(p, b, "answered")
    /\ UNCHANGED <<visible, cache, captureVars>>

(* The task gets the answer; a successful one refreshes the cache. *)
TaskTakes(p, b) ==
    /\ task[p][b] = "answered"
    /\ cache' = IF failed[p][b] THEN cache ELSE [cache EXCEPT ![b] = found[p][b]]
    /\ failed' = [failed EXCEPT ![p][b] = FALSE]
    /\ TaskGoto(p, b, "done")
    /\ UNCHANGED <<visible, found, captureVars>>

\* Faulty variant for PollsEnd: the call is awaited for as long as it takes.
NoTimeout(p, b) == FALSE /\ UNCHANGED vars

\* Faulty variant for GoneIsUnlisted: any backend that is late keeps its devices.
TimesOutKeeping(p, b) ==
    /\ task[p][b] = "asked"
    /\ found' = [found EXCEPT ![p][b] = cache[b]]
    /\ TaskGoto(p, b, "done")
    /\ UNCHANGED <<visible, failed, cache, captureVars>>

(* No answer in time: the last known list if a capture is marked on the
   backend, nothing otherwise. *)
TaskTimesOut(p, b) ==
    /\ task[p][b] = "asked"
    /\ found' = [found EXCEPT ![p][b] = IF BackendHasCapture(b) THEN cache[b] ELSE {}]
    /\ TaskGoto(p, b, "done")
    /\ UNCHANGED <<visible, failed, cache, captureVars>>

Found(p) == UNION {found[p][b] : b \in Backends}

Answer(p) == Dedup(Found(p))

(* All tasks are done: the response is Answer(p). *)
PollAnswers(p) ==
    /\ \A b \in Backends : task[p][b] = "done"
    /\ task' = [task EXCEPT ![p] = [b \in Backends |-> "idle"]]
    /\ found' = [found EXCEPT ![p] = [b \in Backends |-> {}]]
    /\ UNCHANGED <<visible, failed, cache, captureVars>>

ServerStep(p) ==
    \/ \E b \in Backends : TaskTakes(p, b) \/ TaskTimesOut(p, b)
    \/ PollAnswers(p)

ListingStep ==
    \/ \E i \in Ids : Appears(i) \/ Vanishes(i)
    \/ \E p \in Polls :
        \/ PollBegins(p) \/ ServerStep(p)
        \/ \E b \in Backends, err \in BOOLEAN : BackendAnswers(p, b, err)

ListingNext ==
    \/ ListingStep
    \/ CaptureNext /\ UNCHANGED <<visible, pollVars>>

ListingSafety == ListingInit /\ [][ListingNext]_vars

(* The runtime runs its tasks and timers.  Nothing is assumed of the backends:
   an SDK call may never return. *)
ListingSpec == ListingSafety /\ \A p \in Polls : WF_vars(ServerStep(p))

-----------------------------------------------------------------------------
(* Entry j takes the place of i: the same key, and of a better backend or the
   first among equals. *)
Supersedes(j, i) ==
    /\ SameKey(i, j)
    /\ Prio(j) > Prio(i) \/ (Prio(j) = Prio(i) /\ Place[j] < Place[i])

(* An answer has one entry for each key, and what was found is left out of it
   only for an entry with the same key that is of a better backend, or of
   one as good and earlier; without a key everything is listed.  A key is a
   vendor and a model: of two bodies of one model, also on one backend, one is
   listed and the other is not. *)
AnswersAreDeduped ==
    [][\A p \in Polls : PollAnswers(p) =>
        /\ \A i, j \in Answer(p) : SameKey(i, j) => i = j
        /\ \A i \in Found(p) \ Answer(p) : \E j \in Answer(p) : Supersedes(j, i)]_vars

(* Every request is answered, although backends hang: "a slow backend can't
   serialize behind the others" nor stall the listing. *)
PollsEnd ==
    \A p \in Polls, b \in Backends : task[p][b] = "asked" ~> task[p][b] = "idle"

(* The cache that bridges a capture does not keep a camera alive: once it is
   gone and no capture is marked on its backend, it is not listed any more,
   whether its backend still answers or not. *)
GoneIsUnlisted ==
    \A i \in Ids :
        <>[](i \notin visible /\ ~BackendHasCapture(Owner[i]))
            => <>[][\A p \in Polls : PollAnswers(p) => i \notin Answer(p)]_vars

=============================================================================
