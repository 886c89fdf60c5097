---------------------------- MODULE ListingProofs ----------------------------
(* Theorems about GET /cameras: what a request holds has its type, and the
   merge of what the backends found has one entry for each key. *)
EXTENDS Listing, FiniteSetTheorems, WellFoundedInduction, TLAPS

-----------------------------------------------------------------------------
(* Extrema of a finite set: what dedup_devices looks for. *)

(* Some element of a finite set has the greatest value of f: the sets of the
   elements above another one are finite, so one of them is smallest, and it
   is empty. *)
LEMMA GreatestExists ==
    ASSUME NEW S, IsFiniteSet(S), S # {}, NEW f, \A x \in S : f[x] \in Int
    PROVE  \E x \in S : \A y \in S : f[y] <= f[x]
<1> DEFINE Above(x) == {y \in S : f[y] > f[x]}
           Sets == {Above(x) : x \in S}
           R == StrictSubsetOrdering(S)
<1>1. IsWellFoundedOn(R, FiniteSubsetsOf(S))
  BY FS_StrictSubsetOrderingWellFounded
<1>2. \A x \in S : Above(x) \in SUBSET S /\ IsFiniteSet(Above(x))
  BY FS_Subset
<1>3. Sets \subseteq FiniteSubsetsOf(S) /\ Sets # {}
  BY <1>2 DEF FiniteSubsetsOf
<1>4. PICK T \in Sets : \A U \in Sets : <<U, T>> \notin R
  <2> HIDE DEF Sets, R
  <2> QED  BY <1>1, <1>3, WFMin
<1>5. PICK x \in S : T = Above(x)
  OBVIOUS
<1>6. SUFFICES ASSUME NEW y \in S, f[y] > f[x]  PROVE FALSE
  BY <1>5
<1>7. Above(y) \subseteq T /\ Above(y) # T
  BY <1>5, <1>6
<1>8. <<Above(y), T>> \in R
  BY <1>2, <1>5, <1>7 DEF StrictSubsetOrdering
<1> QED  BY <1>4, <1>8

LEMMA LeastExists ==
    ASSUME NEW S, IsFiniteSet(S), S # {}, NEW f, \A x \in S : f[x] \in Int
    PROVE  \E x \in S : \A y \in S : f[x] <= f[y]
<1> DEFINE g == [x \in S |-> -f[x]]
<1>1. \A x \in S : g[x] \in Int
  OBVIOUS
<1>2. PICK x \in S : \A y \in S : g[y] <= g[x]
  <2> HIDE DEF g
  <2> QED  BY <1>1, GreatestExists
<1> QED  BY <1>2

-----------------------------------------------------------------------------
(* dedup_devices. *)

LEMMA DedupListsOnce ==
    ASSUME NEW S \in SUBSET Ids, NEW i \in Dedup(S), NEW j \in Dedup(S), SameKey(i, j)
    PROVE  i = j
<1>1. SameKey(j, i)
  BY DEF SameKey
<1>2. AtBest(i, S) /\ AtBest(j, S)
  BY <1>1 DEF Dedup, SameKey
<1>3. Place[i] <= Place[j] /\ Place[j] <= Place[i]
  BY <1>1, <1>2 DEF Dedup, SameKey
<1>4. i \in Ids /\ j \in Ids /\ Place[i] \in Int /\ Place[j] \in Int
  BY ListingAssumption DEF Dedup
<1> QED  BY <1>3, <1>4, ListingAssumption

LEMMA DedupSupersedes ==
    ASSUME NEW S \in SUBSET Ids, IsFiniteSet(S), NEW i \in S \ Dedup(S)
    PROVE  \E j \in Dedup(S) : Supersedes(j, i)
<1>1. \A x \in S : Prio(x) \in Int /\ Place[x] \in Int
  BY ListingAssumption DEF Prio
<1>2. CASE Key[i] = None
  BY <1>2 DEF Dedup
<1>3. CASE Key[i] # None
  <2> DEFINE Namesakes == {x \in S : SameKey(i, x)}
             prio == [x \in S |-> Prio(x)]
  <2>1. Namesakes \subseteq S /\ i \in Namesakes
    BY <1>3 DEF SameKey
  <2>2. IsFiniteSet(Namesakes)
    BY <2>1, FS_Subset
  <2>3. PICK m \in Namesakes : \A x \in Namesakes : Prio(x) <= Prio(m)
    <3>1. \A x \in Namesakes : prio[x] \in Int
      BY <1>1
    <3>2. PICK m \in Namesakes : \A x \in Namesakes : prio[x] <= prio[m]
      <4> HIDE DEF Namesakes, prio
      <4> QED  BY <2>1, <2>2, <3>1, GreatestExists
    <3> QED  BY <2>1, <3>2
  <2> DEFINE Best == {x \in Namesakes : AtBest(x, S)}
  <2>4. \A x \in Namesakes, y \in S : SameKey(x, y) <=> y \in Namesakes
    BY <1>3 DEF SameKey
  <2>5. m \in Best
    BY <2>3, <2>4 DEF AtBest
  <2>6. IsFiniteSet(Best)
    BY <2>2, FS_Subset
  <2>7. PICK j \in Best : \A x \in Best : Place[j] <= Place[x]
    <3>1. \A x \in Best : Place[x] \in Int
      BY <1>1
    <3> HIDE DEF Best
    <3> QED  BY <2>5, <2>6, <3>1, LeastExists
  <2>8. j \in Dedup(S)
    BY <2>4, <2>7 DEF Dedup
  <2>9. Prio(j) >= Prio(i)
    BY <1>1, <2>1, <2>4, <2>7 DEF AtBest
  <2>10. ASSUME Prio(j) = Prio(i)  PROVE Place[j] < Place[i]
    <3>1. i \in Best
      BY <2>1, <2>4, <2>7, <2>10 DEF AtBest
    <3>2. Place[j] <= Place[i] /\ j # i
      BY <2>7, <2>8, <3>1
    <3> QED  BY <1>1, <2>7, <3>2, ListingAssumption
  <2> QED  BY <1>1, <2>7, <2>8, <2>9, <2>10 DEF Supersedes
<1> QED  BY <1>2, <1>3

-----------------------------------------------------------------------------
(* What was found is finite: a request holds what a backend enumerated, which
   is some of the devices that ever appeared. *)
FoundIsFinite ==
    /\ IsFiniteSet(visible)
    /\ \A b \in Backends :
        IsFiniteSet(cache[b]) /\ \A p \in Polls : IsFiniteSet(found[p][b])

(* The shape of the tables, which ListingTypeOK leaves to its quantifiers. *)
TablesOK ==
    /\ cache \in [Backends -> SUBSET Ids]
    /\ found \in [Polls -> [Backends -> SUBSET Ids]]

ListingInv == ListingTypeOK /\ TablesOK /\ FoundIsFinite

LEMMA ListingInitially == ListingInit => ListingInv
  BY NoneAssumption, FS_EmptySet DEF ListingInit, CaptureInit, ListingInv, ListingTypeOK, TablesOK,
    CaptureTypeOK, FoundIsFinite, TaskPoints

LEMMA ListingInductive == ListingInv /\ [ListingNext]_vars => ListingInv'
<1> SUFFICES ASSUME ListingInv, [ListingNext]_vars  PROVE ListingInv'
  OBVIOUS
<1> USE DEF ListingInv, ListingTypeOK, TablesOK, FoundIsFinite, captureVars, pollVars
<1>1. CASE UNCHANGED vars
  BY <1>1 DEF vars, CaptureTypeOK
<1>2. ASSUME NEW i \in Ids, Appears(i) \/ Vanishes(i)  PROVE ListingInv'
  <2>1. visible' \subseteq Ids /\ IsFiniteSet(visible')
    BY <1>2, FS_AddElement, FS_RemoveElement DEF Appears, Vanishes
  <2> QED  BY <1>2, <2>1 DEF Appears, Vanishes, CaptureTypeOK
<1>3. ASSUME NEW p \in Polls, PollBegins(p)  PROVE ListingInv'
  BY <1>3 DEF PollBegins, CaptureTypeOK, TaskPoints
<1>4. ASSUME NEW p \in Polls, NEW b \in Backends, NEW err \in BOOLEAN, BackendAnswers(p, b, err)
      PROVE  ListingInv'
  <2>1. IsFiniteSet(visible \cap Owned(b)) /\ IsFiniteSet({})
    BY FS_Intersection, FS_EmptySet
  <2> QED  BY <1>4, <2>1 DEF BackendAnswers, TaskGoto, CaptureTypeOK, TaskPoints
<1>5. ASSUME NEW p \in Polls, NEW b \in Backends, TaskTakes(p, b)  PROVE ListingInv'
  BY <1>5 DEF TaskTakes, TaskGoto, CaptureTypeOK, TaskPoints
<1>6. ASSUME NEW p \in Polls, NEW b \in Backends, TaskTimesOut(p, b)  PROVE ListingInv'
  BY <1>6, FS_EmptySet DEF TaskTimesOut, TaskGoto, CaptureTypeOK, TaskPoints
<1>7. ASSUME NEW p \in Polls, PollAnswers(p)  PROVE ListingInv'
  BY <1>7, FS_EmptySet DEF PollAnswers, CaptureTypeOK, TaskPoints
<1>8. CASE CaptureNext /\ UNCHANGED <<visible, pollVars>>
  <2>1. CaptureTypeOK'
    BY <1>8 DEF CaptureTypeOK, CaptureNext, CaptureBegin, BurstEnds, CaptureReturns,
      CaptureAborted, DropGuard
  <2> QED  BY <1>8, <2>1
<1> QED
  BY <1>1, <1>2, <1>3, <1>4, <1>5, <1>6, <1>7, <1>8 DEF ListingNext, ListingStep, ServerStep

LEMMA ListingHolds == ListingSafety => []ListingInv
  BY ListingInitially, ListingInductive, PTL DEF ListingSafety

(* The tables of a listing request hold what their backends own
   (routes/cameras.rs, list_cameras). *)
THEOREM ListingTypeCorrect == ListingSafety => []ListingTypeOK
<1>1. ListingInv => ListingTypeOK
  BY DEF ListingInv
<1> QED  BY <1>1, ListingHolds, PTL

LEMMA WhatIsFoundIsFinite ==
    ASSUME ListingInv, NEW p \in Polls
    PROVE  Found(p) \in SUBSET Ids /\ IsFiniteSet(Found(p))
<1> DEFINE Parts == {found[p][b] : b \in Backends}
           part == [b \in Backends |-> found[p][b]]
<1>1. part \in Surjection(Backends, Parts)
  BY DEF Surjection
<1>2. IsFiniteSet(Parts)
  <2> HIDE DEF Parts, part
  <2> QED  BY <1>1, ListingAssumption, FS_Surjection
<1>3. \A T \in Parts : IsFiniteSet(T)
  BY DEF ListingInv, FoundIsFinite
<1>4. IsFiniteSet(UNION Parts)
  <2> HIDE DEF Parts
  <2> QED  BY <1>2, <1>3, FS_UNION
<1>5. UNION Parts \subseteq Ids
  BY DEF ListingInv, TablesOK
<1> QED  BY <1>4, <1>5 DEF Found

(* The merge of a listing, for any backends, priorities, keys and order: one
   entry for each key, and what is left out gives way to one with its key of a
   better backend, or of one as good and earlier, which may be another body of
   its model (routes/cameras.rs, dedup_devices). *)
THEOREM EveryAnswerIsDeduped == ListingSpec => AnswersAreDeduped
<1> DEFINE Deduped(p) ==
             /\ \A i, j \in Answer(p) : SameKey(i, j) => i = j
             /\ \A i \in Found(p) \ Answer(p) : \E j \in Answer(p) : Supersedes(j, i)
<1>1. ASSUME ListingInv, NEW p \in Polls  PROVE Deduped(p)
  <2>1. Found(p) \in SUBSET Ids /\ IsFiniteSet(Found(p))
    BY <1>1, WhatIsFoundIsFinite
  <2>2. \A i, j \in Answer(p) : SameKey(i, j) => i = j
    BY <2>1, DedupListsOnce DEF Answer
  <2>3. \A i \in Found(p) \ Answer(p) : \E j \in Answer(p) : Supersedes(j, i)
    BY <2>1, DedupSupersedes DEF Answer
  <2> QED  BY <2>2, <2>3
<1>2. ListingInv => [\A p \in Polls : PollAnswers(p) => Deduped(p)]_vars
  BY <1>1
<1> QED  BY <1>2, ListingHolds, PTL DEF ListingSpec, AnswersAreDeduped
=============================================================================
