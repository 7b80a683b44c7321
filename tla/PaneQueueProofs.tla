--------------------------- MODULE PaneQueueProofs ---------------------------
(***************************************************************************)
(* Proofs about PaneQueue for all runs, steps, panes and mishaps:          *)
(*   TypeOK                                            (PaneTypeCorrect)   *)
(*   TurnInv: whose prompt is in a pane holds it       (OnePromptAtATime)  *)
(*   DriveInv: ... until its step ends                 (SuccessIsOwnAnswer)*)
(*   OrderInv, TokenInv: who holds a pane goes on      (NoHolderIsDead)    *)
(***************************************************************************)
EXTENDS PaneQueue, FiniteSetTheorems, TLAPS

-----------------------------------------------------------------------------
(* What is left of a queue *)

\* A queue has finitely many tokens, and so has what is kept of it.
LEMMA KeptFinite ==
  ASSUME NEW S, NEW q \in Seq(S), NEW D
  PROVE  /\ Kept(q, D) \subseteq 1..Len(q)
         /\ IsFiniteSet(Kept(q, D))
         /\ Cardinality(Kept(q, D)) \in Nat
<1>1. Kept(q, D) \subseteq 1..Len(q)
  BY DEF Kept
<1>2. IsFiniteSet(1..Len(q))
  BY FS_Interval
<1>3. IsFiniteSet(Kept(q, D))
  BY <1>1, <1>2, FS_Subset
<1> QED
  BY <1>1, <1>3, FS_CardinalityType

\* The places of kept tokens are numbers up to how many are kept, and a later
\* token has a later place.
LEMMA PlaceGrows ==
  ASSUME NEW K \in SUBSET Nat, IsFiniteSet(K), NEW i \in K
  PROVE  /\ Place(K, i) \in 1..Cardinality(K)
         /\ \A j \in K : i < j => Place(K, i) < Place(K, j)
<1> DEFINE Upto(j) == {k \in K : k <= j}
<1>1. \A j \in K : IsFiniteSet(Upto(j)) /\ Cardinality(Upto(j)) \in Nat
                   /\ Cardinality(Upto(j)) <= Cardinality(K)
  <2>1. SUFFICES ASSUME NEW j \in K
                 PROVE  IsFiniteSet(Upto(j)) /\ Cardinality(Upto(j)) \in Nat
                        /\ Cardinality(Upto(j)) <= Cardinality(K)
    OBVIOUS
  <2>2. Upto(j) \in SUBSET K
    OBVIOUS
  <2>3. IsFiniteSet(Upto(j)) /\ Cardinality(Upto(j)) <= Cardinality(K)
    BY <2>2, FS_Subset
  <2> QED
    BY <2>3, FS_CardinalityType
<1>2. Cardinality(K) \in Nat
  BY FS_CardinalityType
<1>3. Cardinality(Upto(i)) # 0
  <2>1. i \in Upto(i)
    OBVIOUS
  <2> HIDE DEF Upto
  <2> QED
    BY <2>1, <1>1, FS_EmptySet
<1>4. \A j \in K : i < j => Cardinality(Upto(i)) < Cardinality(Upto(j))
  <2>1. SUFFICES ASSUME NEW j \in K, i < j
                 PROVE  Cardinality(Upto(i)) < Cardinality(Upto(j))
    OBVIOUS
  <2>2. Upto(i) \in SUBSET Upto(j) /\ j \in Upto(j) /\ j \notin Upto(i)
    <3>1. i \in Nat /\ j \in Nat /\ \A k \in K : k \in Nat
      OBVIOUS
    <3>2. \A k \in K : k <= i => k <= j
      BY <2>1, <3>1
    <3>3. Upto(i) \in SUBSET Upto(j)
      BY <3>2
    <3>4. j \in Upto(j) /\ j \notin Upto(i)
      BY <2>1, <3>1
    <3> QED
      BY <3>3, <3>4
  <2>3. IsFiniteSet(Upto(j)) /\ Cardinality(Upto(i)) \in Nat /\ Cardinality(Upto(j)) \in Nat
    BY <1>1
  <2> HIDE DEF Upto
  <2>4. /\ Cardinality(Upto(i)) <= Cardinality(Upto(j))
        /\ Cardinality(Upto(i)) = Cardinality(Upto(j)) => Upto(i) = Upto(j)
    BY <2>2, <2>3, FS_Subset
  <2> QED
    BY <2>2, <2>3, <2>4
<1>5. \A j : Place(K, j) = Cardinality(Upto(j))
  BY DEF Place
<1> HIDE DEF Upto
<1> QED
  BY <1>1, <1>2, <1>3, <1>4, <1>5

\* No two kept tokens share a place.
LEMMA PlaceDistinct ==
  ASSUME NEW K \in SUBSET Nat, IsFiniteSet(K), NEW i \in K, NEW j \in K,
         Place(K, i) = Place(K, j)
  PROVE  i = j
<1>1. Cardinality(K) \in Nat
  BY FS_CardinalityType
<1>2. Place(K, i) \in Nat /\ (i < j => Place(K, i) < Place(K, j))
  BY PlaceGrows, <1>1
<1>3. Place(K, j) \in Nat /\ (j < i => Place(K, j) < Place(K, i))
  BY PlaceGrows, <1>1
<1> QED
  BY <1>2, <1>3

\* Every number up to how many are kept is the place of one of them: otherwise
\* their places, all different, would be one too few.
LEMMA PlaceTaken ==
  ASSUME NEW K \in SUBSET Nat, IsFiniteSet(K), NEW n \in 1..Cardinality(K)
  PROVE  \E i \in K : Place(K, i) = n
<1>1. SUFFICES ASSUME \A i \in K : Place(K, i) # n
               PROVE  FALSE
  OBVIOUS
<1> DEFINE f == [i \in K |-> Place(K, i)]
           T == (1..Cardinality(K)) \ {n}
<1>2. Cardinality(K) \in Nat
  BY FS_CardinalityType
<1>3. f \in [K -> T]
  BY <1>1, PlaceGrows
<1>4. IsFiniteSet(T) /\ Cardinality(T) < Cardinality(K)
  <2>1. IsFiniteSet(1..Cardinality(K)) /\ Cardinality(1..Cardinality(K)) = Cardinality(K)
    BY <1>2, FS_Interval
  <2>2. n \in 1..Cardinality(K)
    OBVIOUS
  <2>3. IsFiniteSet(T) /\ Cardinality(T) = Cardinality(K) - 1
    <3> DEFINE All == 1..Cardinality(K)
    <3>1. IsFiniteSet(All) /\ Cardinality(All) = Cardinality(K) /\ n \in All
      BY <2>1, <2>2
    <3> HIDE DEF All
    <3>2. IsFiniteSet(All \ {n}) /\ Cardinality(All \ {n}) = Cardinality(All) - 1
      BY <3>1, FS_RemoveElement
    <3> QED
      BY <3>1, <3>2 DEF All
  <2> QED
    BY <1>2, <2>3
<1> HIDE DEF T
<1>5. PICK i, j \in K : i # j /\ f[i] = f[j]
  <2> HIDE DEF f
  <2> QED
    BY <1>3, <1>4, FS_PigeonHole
<1> QED
  BY <1>5, PlaceDistinct

\* The token at place n of what is kept.
LEMMA KeptAt ==
  ASSUME NEW S, NEW q \in Seq(S), NEW D, NEW n \in 1..Cardinality(Kept(q, D))
  PROVE  \E i \in Kept(q, D) : Place(Kept(q, D), i) = n /\ Without(q, D)[n] = q[i]
<1> DEFINE K == Kept(q, D)
           i == CHOOSE i \in K : Place(K, i) = n
<1>1. K \subseteq Nat /\ IsFiniteSet(K) /\ n \in 1..Cardinality(K)
  BY KeptFinite
<1>2. Without(q, D)[n] = q[i]
  BY DEF Without
<1> HIDE DEF K
<1>3. i \in K /\ Place(K, i) = n
  BY <1>1, PlaceTaken
<1> QED
  BY <1>2, <1>3 DEF K

\* Exactly the tokens outside D are left.
LEMMA WithoutKeeps ==
  ASSUME NEW S, NEW q \in Seq(S), NEW D
  PROVE  /\ Without(q, D) \in Seq(S)
         /\ ToSet(Without(q, D)) = ToSet(q) \ D
<1> DEFINE K == Kept(q, D)
<1>1. K \subseteq 1..Len(q) /\ IsFiniteSet(K) /\ Cardinality(K) \in Nat
  BY KeptFinite
<1>2. DOMAIN Without(q, D) = 1..Cardinality(K)
  BY DEF Without
<1>3. \A n \in 1..Cardinality(K) : \E i \in K : Without(q, D)[n] = q[i]
  BY KeptAt
<1>4. \A i \in K : q[i] \in S \ D
  BY <1>1 DEF Kept
<1>5. Without(q, D) \in Seq(S)
  <2>1. Without(q, D) \in [1..Cardinality(K) -> S]
    <3>1. Without(q, D) = [n \in 1..Cardinality(K) |-> Without(q, D)[n]]
      BY DEF Without
    <3> QED
      BY <1>3, <1>4, <3>1
  <2> QED
    BY <2>1, <1>1
<1>6. ToSet(Without(q, D)) \subseteq ToSet(q) \ D
  BY <1>1, <1>2, <1>3, <1>4 DEF ToSet
<1>7. ASSUME NEW t \in ToSet(q) \ D
      PROVE  t \in ToSet(Without(q, D))
  <2>1. PICK i \in K : q[i] = t
    BY <1>7 DEF ToSet, Kept
  <2> DEFINE n == Place(K, i)
  <2>2. n \in 1..Cardinality(K)
    BY <1>1, PlaceGrows
  <2>3. PICK j \in K : Place(K, j) = n /\ Without(q, D)[n] = q[j]
    BY <2>2, KeptAt
  <2>4. i = j
    BY <1>1, <2>3, PlaceDistinct
  <2> QED
    BY <1>2, <2>1, <2>2, <2>3, <2>4 DEF ToSet
<1> QED
  BY <1>5, <1>6, <1>7

\* Nothing is left twice.
LEMMA WithoutInjective ==
  ASSUME NEW S, NEW q \in Seq(S), NEW D, IsInjective(q)
  PROVE  IsInjective(Without(q, D))
<1> DEFINE K == Kept(q, D)
<1>1. K \subseteq 1..Len(q)
  BY KeptFinite
<1>2. DOMAIN Without(q, D) = 1..Cardinality(K)
  BY DEF Without
<1>3. SUFFICES ASSUME NEW m \in 1..Cardinality(K), NEW n \in 1..Cardinality(K),
                      Without(q, D)[m] = Without(q, D)[n]
               PROVE  m = n
  BY <1>2 DEF IsInjective
<1>4. PICK i \in K : Place(K, i) = m /\ Without(q, D)[m] = q[i]
  BY KeptAt
<1>5. PICK j \in K : Place(K, j) = n /\ Without(q, D)[n] = q[j]
  BY KeptAt
<1>6. i \in DOMAIN q /\ j \in DOMAIN q /\ q[i] = q[j]
  <2>1. i \in 1..Len(q) /\ j \in 1..Len(q)
    BY <1>1
  <2>2. q[i] = q[j]
    BY <1>3, <1>4, <1>5
  <2> QED
    BY <2>1, <2>2
<1>7. i = j
  BY <1>6 DEF IsInjective
<1> QED
  BY <1>4, <1>5, <1>7

\* Whoever holds the pane and is kept still holds it.
LEMMA WithoutHolds ==
  ASSUME NEW S, NEW q \in Seq(S), NEW D, NEW s, Holds(q, s), s \notin D
  PROVE  Holds(Without(q, D), s)
<1> DEFINE K == Kept(q, D)
<1>1. K \subseteq 1..Len(q) /\ IsFiniteSet(K) /\ Cardinality(K) \in Nat
  BY KeptFinite
<1>2. 1 \in K /\ q[1] = s
  BY DEF Holds, Kept
<1>3. Place(K, 1) = 1
  <2>1. {j \in K : j <= 1} = {1}
    BY <1>1, <1>2
  <2> QED
    BY <2>1, FS_Singleton DEF Place
<1>4. 1 \in 1..Cardinality(K)
  BY <1>1, <1>2, <1>3, PlaceGrows
<1>5. PICK j \in K : Place(K, j) = 1 /\ Without(q, D)[1] = q[j]
  BY <1>4, KeptAt
<1>6. j = 1
  BY <1>1, <1>2, <1>3, <1>5, PlaceDistinct
<1>7. Without(q, D) \in Seq(S)
  BY WithoutKeeps
<1>8. 1 \in DOMAIN Without(q, D) /\ Without(q, D)[1] = s
  <2>1. DOMAIN Without(q, D) = 1..Cardinality(K)
    BY DEF Without
  <2> QED
    BY <1>2, <1>4, <1>5, <1>6, <2>1
<1> HIDE DEF K
<1>9. ASSUME NEW r \in Seq(S), 1 \in DOMAIN r
      PROVE  r # <<>> /\ Head(r) = r[1]
  BY <1>9
<1> QED
  BY <1>7, <1>8, <1>9 DEF Holds

-----------------------------------------------------------------------------
(* The queues of all panes *)

QueuesOK ==
  /\ paneQueue \in [Panes -> Seq(Steps)]
  /\ \A p \in Panes : IsInjective(paneQueue[p])

\* Q are the queues without the tokens in D[p] of each pane p.
Thinned(Q, D) ==
  /\ Q \in [Panes -> Seq(Steps)]
  /\ \A p \in Panes :
       /\ IsInjective(Q[p])
       /\ ToSet(Q[p]) = ToSet(paneQueue[p]) \ D[p]
       /\ \A t \in Steps : Holds(paneQueue[p], t) /\ t \notin D[p] => Holds(Q[p], t)

\* Q are the queues with s registered for pane p.
Joined(Q, p, s) ==
  /\ Q \in [Panes -> Seq(Steps)]
  /\ \A o \in Panes :
       /\ IsInjective(Q[o])
       /\ ToSet(Q[o]) = IF o = p THEN ToSet(paneQueue[o]) \cup {s} ELSE ToSet(paneQueue[o])
       /\ \A t \in Steps : Holds(paneQueue[o], t) => Holds(Q[o], t)
       /\ o = p /\ paneQueue[o] = <<>> => Holds(Q[o], s)

LEMMA WithoutThins ==
  ASSUME QueuesOK, NEW Q, NEW D \in [Panes -> SUBSET Steps],
         Q = [p \in Panes |-> Without(paneQueue[p], D[p])]
  PROVE  Thinned(Q, D)
<1>1. ASSUME NEW p \in Panes
      PROVE  /\ Q[p] \in Seq(Steps) /\ IsInjective(Q[p])
             /\ ToSet(Q[p]) = ToSet(paneQueue[p]) \ D[p]
             /\ \A t \in Steps : Holds(paneQueue[p], t) /\ t \notin D[p] => Holds(Q[p], t)
  <2>1. Q[p] = Without(paneQueue[p], D[p])
    OBVIOUS
  <2>2. paneQueue[p] \in Seq(Steps) /\ IsInjective(paneQueue[p])
    BY DEF QueuesOK
  <2> QED
    BY <2>1, <2>2, WithoutKeeps, WithoutInjective, WithoutHolds
<1> QED
  BY <1>1 DEF Thinned

\* Nothing is lost from a queue that the token is not in.
LEMMA ReleaseThins ==
  ASSUME QueuesOK, NEW s \in Steps, NEW p
  PROVE  Thinned(Release(s, p), [o \in Panes |-> IF o = p THEN {s} ELSE {}])
<1> DEFINE D == [o \in Panes |-> IF o = p THEN {s} ELSE {}]
           Q == Release(s, p)
<1>1. D \in [Panes -> SUBSET Steps]
  OBVIOUS
<1>2. ASSUME NEW o \in Panes
      PROVE  /\ Q[o] \in Seq(Steps) /\ IsInjective(Q[o])
             /\ ToSet(Q[o]) = ToSet(paneQueue[o]) \ D[o]
             /\ \A t \in Steps : Holds(paneQueue[o], t) /\ t \notin D[o] => Holds(Q[o], t)
  <2>1. paneQueue[o] \in Seq(Steps) /\ IsInjective(paneQueue[o])
    BY DEF QueuesOK
  <2>2. CASE o = p
    <3>1. Q[o] = Without(paneQueue[o], {s}) /\ D[o] = {s}
      BY <2>2 DEF Release, QueuesOK
    <3> QED
      BY <2>1, <3>1, WithoutKeeps, WithoutInjective, WithoutHolds
  <2>3. CASE o # p
    BY <2>1, <2>3 DEF Release, QueuesOK
  <2> QED
    BY <2>2, <2>3
<1>3. Q = [o \in Panes |-> Q[o]]
  BY DEF Release, QueuesOK
<1> QED
  BY <1>2, <1>3 DEF Thinned

LEMMA ReleaseRunThins ==
  ASSUME QueuesOK, NEW r
  PROVE  Thinned(ReleaseRun(r), [p \in Panes |-> StepsOf(r)])
<1> DEFINE D == [p \in Panes |-> StepsOf(r)]
<1>1. D \in [Panes -> SUBSET Steps]
  BY DEF StepsOf
<1>2. ReleaseRun(r) = [p \in Panes |-> Without(paneQueue[p], D[p])]
  BY DEF ReleaseRun
<1> HIDE DEF D
<1>3. Thinned(ReleaseRun(r), D)
  BY <1>1, <1>2, WithoutThins
<1> QED
  BY <1>3 DEF D

\* A token that is there already is not registered again.
LEMMA RegisteredJoins ==
  ASSUME NEW q \in Seq(Steps), IsInjective(q), NEW s \in Steps
  PROVE  /\ Registered(q, s) \in Seq(Steps)
         /\ IsInjective(Registered(q, s))
         /\ ToSet(Registered(q, s)) = ToSet(q) \cup {s}
         /\ \A t \in Steps : Holds(q, t) => Holds(Registered(q, s), t)
         /\ q = <<>> => Holds(Registered(q, s), s)
<1>1. CASE s \in ToSet(q)
  <2>1. Registered(q, s) = q
    BY <1>1 DEF Registered
  <2>2. q # <<>>
    BY <1>1 DEF ToSet
  <2> QED
    BY <1>1, <2>1, <2>2
<1>2. CASE s \notin ToSet(q)
  <2> DEFINE z == Append(q, s)
  <2>1. Registered(q, s) = z
    BY <1>2 DEF Registered
  <2>2. /\ z \in Seq(Steps) /\ Len(z) = Len(q) + 1 /\ Len(q) \in Nat
        /\ z[Len(q) + 1] = s
        /\ \A i \in 1..Len(q) : z[i] = q[i]
    OBVIOUS
  <2>3. DOMAIN z = 1..(Len(q) + 1) /\ DOMAIN q = 1..Len(q)
    BY <2>2
  <2> HIDE DEF z
  <2>4. IsInjective(z)
    <3>1. \A i \in 1..Len(q) : q[i] # s
      BY <1>2, <2>3 DEF ToSet
    <3>2. \A i, j \in 1..Len(q) : q[i] = q[j] => i = j
      BY <2>3 DEF IsInjective
    <3>3. SUFFICES ASSUME NEW i \in 1..(Len(q) + 1), NEW j \in 1..(Len(q) + 1), z[i] = z[j]
                   PROVE  i = j
      BY <2>3 DEF IsInjective
    <3> QED
      BY <2>2, <3>1, <3>2, <3>3
  <2>5. ToSet(z) = ToSet(q) \cup {s}
    <3>1. ToSet(z) \subseteq ToSet(q) \cup {s}
      BY <2>2, <2>3 DEF ToSet
    <3>2. ToSet(q) \cup {s} \subseteq ToSet(z)
      BY <2>2, <2>3 DEF ToSet
    <3> QED
      BY <3>1, <3>2
  <2>6. \A t \in Steps : Holds(q, t) => Holds(z, t)
    BY <2>2 DEF Holds
  <2>7. q = <<>> => Holds(z, s)
    BY <2>2 DEF Holds
  <2> QED
    BY <2>1, <2>2, <2>4, <2>5, <2>6, <2>7
<1> QED
  BY <1>1, <1>2

LEMMA RegisterJoins ==
  ASSUME QueuesOK, NEW s \in Steps, NEW p
  PROVE  Joined([paneQueue EXCEPT ![p] = Registered(paneQueue[p], s)], p, s)
<1> DEFINE Q == [paneQueue EXCEPT ![p] = Registered(paneQueue[p], s)]
<1>1. ASSUME NEW o \in Panes
      PROVE  /\ Q[o] \in Seq(Steps) /\ IsInjective(Q[o])
             /\ ToSet(Q[o]) = IF o = p THEN ToSet(paneQueue[o]) \cup {s}
                                        ELSE ToSet(paneQueue[o])
             /\ \A t \in Steps : Holds(paneQueue[o], t) => Holds(Q[o], t)
             /\ o = p /\ paneQueue[o] = <<>> => Holds(Q[o], s)
  <2>1. paneQueue[o] \in Seq(Steps) /\ IsInjective(paneQueue[o])
    BY DEF QueuesOK
  <2>2. CASE o = p
    <3>1. Q[o] = Registered(paneQueue[o], s)
      BY <2>2 DEF QueuesOK
    <3> DEFINE z == Registered(paneQueue[o], s)
    <3>2. /\ z \in Seq(Steps) /\ IsInjective(z)
          /\ ToSet(z) = ToSet(paneQueue[o]) \cup {s}
          /\ \A t \in Steps : Holds(paneQueue[o], t) => Holds(z, t)
          /\ paneQueue[o] = <<>> => Holds(z, s)
      BY <2>1, RegisteredJoins
    <3> HIDE DEF z, Q
    <3>3. Q[o] = z
      BY <3>1 DEF z
    <3> QED
      BY <2>2, <3>2, <3>3
  <2>3. CASE o # p
    <3>1. Q[o] = paneQueue[o]
      BY <2>3 DEF QueuesOK
    <3> QED
      BY <2>1, <2>3, <3>1
  <2> QED
    BY <2>2, <2>3
<1>2. Q = [o \in Panes |-> Q[o]]
  BY DEF QueuesOK
<1> QED
  BY <1>1, <1>2 DEF Joined

-----------------------------------------------------------------------------
(* Type correctness *)

Phases == {"pending", "live", "failed", "succeeded", "skipped"}

LEMMA QueueTypes == TypeOK => QueuesOK
  BY DEF TypeOK, QueuesOK

LEMMA TrackerTypes ==
  ASSUME NEW p \in Panes \cup {NoPane}
  PROVE  BuildTracker(p) \in Tracker /\ NoTracker \in Tracker
  BY DEF BuildTracker, NoTracker, Tracker

\* Only the step itself settles; a run may end with it.
LEMMA SettleType ==
  ASSUME TypeOK, NEW s \in Steps, NEW ph \in Phases, Settle(s, ph)
  PROVE  /\ phase' \in [Steps -> Phases]
         /\ ended' \subseteq Runs
<1>1. phase' = [phase EXCEPT ![s] = ph]
  BY DEF Settle
<1>2. ended' = ended \/ ended' = ended \cup {RunOf[s]}
  BY DEF Settle
<1>3. RunOf[s] \in Runs
  BY PanesAssumption
<1> QED
  BY <1>1, <1>2, <1>3 DEF TypeOK, Phases, Done

LEMMA InitType == Init => TypeOK
<1> SUFFICES ASSUME Init PROVE TypeOK
  OBVIOUS
<1>1. QueuesOK
  BY DEF Init, QueuesOK, IsInjective
<1>2. NoTracker \in Tracker
  BY DEF NoTracker, BuildTracker, Tracker
<1>3. inbox \in [Panes -> Seq(Steps)]
  BY DEF Init
<1> QED
  BY <1>1, <1>2, <1>3, PanesAssumption DEF Init, TypeOK, QueuesOK

LEMMA RunnerType ==
  ASSUME TypeOK, NEW s \in Steps, Runner(s)
  PROVE  TypeOK'
<1> USE DEF Phases
<1>q. QueuesOK
  BY QueueTypes
<1>1. CASE BeginTick(s)
  <2>1. phase' \in [Steps -> Phases]
    BY <1>1 DEF BeginTick, TypeOK, Done
  <2>2. out[Ref[s]] \in Panes \cup {NoPane} /\ NoPane \in Panes \cup {NoPane}
    BY PanesAssumption DEF TypeOK
  <2>3. target' \in [Steps -> Panes \cup {NoPane}]
    BY <1>1, <2>2 DEF BeginTick, TypeOK
  <2>4. call' \in [Steps -> {"none", "gates", "opening", "sending", "sent"}]
    BY <1>1 DEF BeginTick, TypeOK
  <2> QED
    BY <1>1, <2>1, <2>3, <2>4 DEF BeginTick, TypeOK, agent, Done
<1>2. CASE GatesEnd(s)
  <2>1. phase' \in [Steps -> Phases] /\ ended' \subseteq Runs
    BY <1>2, SettleType DEF GatesEnd
  <2> QED
    BY <1>2, <2>1 DEF GatesEnd, TypeOK, agent, Done
<1>3. CASE GatesOpen(s)
  BY <1>3 DEF GatesOpen, TypeOK, agent
<1>4. CASE GatesSend(s)
  <2> DEFINE p == target[s]
             q == Registered(paneQueue[p], s)
  <2>1. QueuesOK'
    <3>1. CASE paneQueue' = [paneQueue EXCEPT ![p] = q]
      BY <3>1, <1>q, RegisterJoins DEF Joined, QueuesOK
    <3>2. CASE paneQueue' = Release(s, p)
      BY <3>2, <1>q, ReleaseThins DEF Thinned, QueuesOK
    <3> QED
      BY <1>4, <3>1, <3>2 DEF GatesSend
  <2>2. phase' \in [Steps -> Phases] /\ ended' \subseteq Runs
    <3>1. CASE Settle(s, "failed")
      BY <3>1, SettleType
    <3>2. CASE UNCHANGED <<phase, ended>>
      BY <3>2 DEF TypeOK, Done
    <3> QED
      BY <1>4, <3>1, <3>2 DEF GatesSend
  <2>3. call' \in [Steps -> {"none", "gates", "opening", "sending", "sent"}]
    BY <1>4 DEF GatesSend, TypeOK
  <2>4. UNCHANGED <<target, tracker, out, panes, opened, agent, mishaps>>
    BY <1>4 DEF GatesSend
  <2> QED
    BY <2>1, <2>2, <2>3, <2>4 DEF TypeOK, QueuesOK, agent, Done
<1>5. CASE PollWorking(s)
  <2>1. tracker' \in [Steps -> Tracker]
    <3>1. tracker \in [Steps -> Tracker]
      BY DEF TypeOK
    <3>2. tracker' = [tracker EXCEPT ![s] = [tracker[s] EXCEPT !.working = TRUE, !.done = FALSE]]
      BY <1>5, <3>1 DEF PollWorking
    <3>3. [tracker[s] EXCEPT !.working = TRUE, !.done = FALSE] \in Tracker
      BY <3>1 DEF Tracker
    <3> QED
      BY <3>1, <3>2, <3>3
  <2> QED
    BY <1>5, <2>1 DEF PollWorking, TypeOK, agent
<1>6. CASE PollDone(s)
  <2>1. QueuesOK'
    <3>1. CASE paneQueue' = Release(s, tracker[s].pane)
      BY <3>1, <1>q, ReleaseThins DEF Thinned, QueuesOK
    <3>2. CASE UNCHANGED paneQueue
      BY <3>2, <1>q DEF QueuesOK
    <3> QED
      BY <1>6, <3>1, <3>2 DEF PollDone
  <2>2. phase' \in [Steps -> Phases] /\ ended' \subseteq Runs
    <3>1. CASE Settle(s, "succeeded")
      BY <3>1, SettleType
    <3>2. CASE UNCHANGED <<phase, ended>>
      BY <3>2 DEF TypeOK, Done
    <3> QED
      BY <1>6, <3>1, <3>2 DEF PollDone
  <2>3. tracker[s].pane \in Panes \cup {NoPane}
    BY DEF TypeOK, Tracker
  <2>4. out' \in [Steps -> Panes \cup {NoPane}]
    BY <1>6, <2>3 DEF PollDone, TypeOK
  <2>5. tracker' \in [Steps -> Tracker]
    <3>1. tracker \in [Steps -> Tracker]
      BY DEF TypeOK
    <3>2. CASE tracker' = [tracker EXCEPT ![s].done = TRUE]
      <4>1. tracker' = [tracker EXCEPT ![s] = [tracker[s] EXCEPT !.done = TRUE]]
        BY <3>1, <3>2
      <4>2. [tracker[s] EXCEPT !.done = TRUE] \in Tracker
        BY <3>1 DEF Tracker
      <4> QED
        BY <3>1, <4>1, <4>2
    <3> QED
      BY <1>6, <3>1, <3>2 DEF PollDone
  <2>6. UNCHANGED <<call, target, panes, opened, agent, mishaps>>
    BY <1>6 DEF PollDone
  <2> QED
    BY <2>1, <2>2, <2>4, <2>5, <2>6 DEF TypeOK, QueuesOK, agent, Done
<1> QED
  BY <1>1, <1>2, <1>3, <1>4, <1>5, <1>6 DEF Runner

LEMMA RendererType ==
  ASSUME TypeOK, NEW s \in Steps, Renderer(s)
  PROVE  TypeOK'
<1> USE DEF Phases
<1>q. QueuesOK
  BY QueueTypes
<1>t. target[s] \in Panes \cup {NoPane}
  BY DEF TypeOK
<1>1. CASE Opened(s)
  <2> DEFINE p == panes + 1
  <2>1. p \in Panes
    BY <1>1, PanesAssumption DEF Opened, TypeOK, Panes
  <2>2. BuildTracker(p) \in Tracker
    BY <2>1, TrackerTypes
  <2>3. QueuesOK'
    BY <1>1, <1>q, RegisterJoins DEF Opened, Joined, QueuesOK
  <2>4. inbox' \in [Panes -> Seq(Steps)]
    <3>1. <<s>> \in Seq(Steps)
      OBVIOUS
    <3> QED
      BY <1>1, <3>1 DEF Opened, TypeOK
  <2>5. tracker' \in [Steps -> Tracker]
    BY <1>1, <2>2 DEF Opened, TypeOK
  <2>6. call' \in [Steps -> {"none", "gates", "opening", "sending", "sent"}]
    BY <1>1 DEF Opened, TypeOK
  <2>7. panes' \in 0..MaxPanes
    BY <1>1, <2>1 DEF Opened, Panes
  <2>8. UNCHANGED <<phase, ended, target, out, status, turn, answered, mishaps>>
    BY <1>1 DEF Opened
  <2>9. opened' \in [Steps -> Panes \cup {NoPane}]
    BY <1>1, <2>1 DEF Opened, TypeOK
  <2> QED
    BY <2>3, <2>4, <2>5, <2>6, <2>7, <2>8, <2>9 DEF TypeOK, QueuesOK
<1>2. CASE OpenFails(s)
  <2>1. phase' \in [Steps -> Phases] /\ ended' \subseteq Runs
    BY <1>2, SettleType DEF OpenFails
  <2> QED
    BY <1>2, <2>1 DEF OpenFails, TypeOK, agent, Done
<1>3. CASE Deliver(s)
  <2>1. inbox \in [Panes -> Seq(Steps)]
    BY DEF TypeOK
  <2>2. \A b \in Seq(Steps) : Append(b, s) \in Seq(Steps)
    OBVIOUS
  <2>3. inbox' \in [Panes -> Seq(Steps)]
    BY <1>3, <2>1, <2>2 DEF Deliver
  <2> QED
    BY <1>3, <2>3 DEF Deliver, TypeOK
<1>4. CASE Sent(s)
  <2>1. BuildTracker(target[s]) \in Tracker
    BY <1>t, TrackerTypes
  <2> QED
    BY <1>4, <2>1 DEF Sent, TypeOK, agent
<1>5. CASE SendFails(s)
  <2>1. phase' \in [Steps -> Phases] /\ ended' \subseteq Runs
    BY <1>5, SettleType DEF SendFails
  <2>2. QueuesOK'
    BY <1>5, <1>q, ReleaseThins DEF SendFails, Thinned, QueuesOK
  <2>3. call' \in [Steps -> {"none", "gates", "opening", "sending", "sent"}]
    BY <1>5 DEF SendFails, TypeOK
  <2> QED
    BY <1>5, <2>1, <2>2, <2>3 DEF SendFails, TypeOK, QueuesOK, agent, Done
<1> QED
  BY <1>1, <1>2, <1>3, <1>4, <1>5 DEF Renderer

LEMMA TimesOutType ==
  ASSUME TypeOK, NEW s \in Steps, TimesOut(s)
  PROVE  TypeOK'
<1>1. phase' \in [Steps -> Phases] /\ ended' \subseteq Runs
  BY SettleType DEF TimesOut, Phases
<1>2. QueuesOK'
  BY QueueTypes, ReleaseThins DEF TimesOut, Thinned, QueuesOK
<1> QED
  BY <1>1, <1>2 DEF TimesOut, TypeOK, QueuesOK, agent, Done, Phases

LEMMA HaltedType == ASSUME TypeOK, NEW r PROVE Halted(r) \in [Steps -> Phases]
  BY DEF TypeOK, Halted, Done, Phases

LEMMA MishapType == TypeOK /\ Mishap => mishaps' \in 0..MaxMishaps
  BY PanesAssumption DEF TypeOK, Mishap

LEMMA ThrowsType ==
  ASSUME TypeOK, NEW s \in Steps, Throws(s)
  PROVE  TypeOK'
<1>1. phase' \in [Steps -> Phases]
  BY HaltedType DEF Throws
<1>2. ended' \subseteq Runs
  <2>1. RunOf[s] \in Runs /\ ended \subseteq Runs
    BY PanesAssumption DEF TypeOK
  <2>2. ended' = ended \cup {RunOf[s]}
    BY DEF Throws
  <2> QED
    BY <2>1, <2>2
<1>3. QueuesOK'
  BY QueueTypes, ReleaseRunThins DEF Throws, Thinned, QueuesOK
<1>4. mishaps' \in 0..MaxMishaps
  BY MishapType DEF Throws
<1> QED
  BY <1>1, <1>2, <1>3, <1>4 DEF Throws, TypeOK, QueuesOK, agent, Done, Phases

LEMMA CancelRunType ==
  ASSUME TypeOK, NEW r \in Runs, CancelRun(r)
  PROVE  TypeOK'
<1>1. phase' \in [Steps -> Phases]
  BY HaltedType DEF CancelRun
<1>2. ended' \subseteq Runs
  BY DEF CancelRun, TypeOK
<1>3. QueuesOK'
  BY QueueTypes, ReleaseRunThins DEF CancelRun, Thinned, QueuesOK
<1>4. mishaps' \in 0..MaxMishaps
  BY MishapType DEF CancelRun
<1>5. tracker' \in [Steps -> Tracker]
  <2>1. NoTracker \in Tracker
    BY DEF NoTracker, BuildTracker, Tracker
  <2> QED
    BY <2>1 DEF CancelRun, TypeOK
<1> QED
  BY <1>1, <1>2, <1>3, <1>4, <1>5 DEF CancelRun, TypeOK, QueuesOK, agent, Done, Phases

\* The tokens that a drop takes away.
Dropped(D) == [p \in Panes |-> {t \in D : tracker[t].pane = p}]

LEMMA DropThins ==
  ASSUME QueuesOK, NEW r, NEW D \in SUBSET Steps, Drop(r, D)
  PROVE  Thinned(paneQueue', Dropped(D))
<1>1. Dropped(D) \in [Panes -> SUBSET Steps]
  BY DEF Dropped
<1>2. paneQueue' = [p \in Panes |-> Without(paneQueue[p], Dropped(D)[p])]
  BY DEF Drop, Dropped
<1> QED
  BY <1>1, <1>2, WithoutThins

\* Everything but the phases.
LEMMA DropType ==
  ASSUME TypeOK, NEW r, NEW D \in SUBSET Steps, Drop(r, D), phase' \in [Steps -> Phases]
  PROVE  TypeOK'
<1>1. QueuesOK'
  BY QueueTypes, DropThins DEF Thinned, QueuesOK
<1>2. mishaps' \in 0..MaxMishaps
  BY MishapType DEF Drop
<1>3. tracker' \in [Steps -> Tracker]
  <2>1. NoTracker \in Tracker
    BY DEF NoTracker, BuildTracker, Tracker
  <2> QED
    BY <2>1 DEF Drop, TypeOK
<1>4. inbox' \in [Panes -> Seq(Steps)]
  BY DEF Drop, TypeOK
<1>5. /\ status' \in [Panes -> {"none", "working", "waiting", "done"}]
      /\ turn' \in [Panes -> Steps \cup {Nobody}]
      /\ answered' \subseteq Steps
      /\ ended' \subseteq Runs
  BY DEF Drop, TypeOK
<1>6. UNCHANGED <<call, target, out, panes>>
  BY DEF Drop
<1>7. opened' \in [Steps -> Panes \cup {NoPane}]
  BY DEF Drop, TypeOK
<1> QED
  BY <1>1, <1>2, <1>3, <1>4, <1>5, <1>6, <1>7 DEF TypeOK, QueuesOK, Done, Phases

LEMMA RetryType ==
  ASSUME TypeOK, NEW s \in Steps, RetryFrom(s) \/ RetrySibling(s)
  PROVE  TypeOK'
<1>1. Later(s) \in SUBSET Steps /\ (Later(s) \ Siblings(s)) \cup {s} \in SUBSET Steps
  BY DEF Later, StepsOf
<1>2. phase' \in [Steps -> Phases]
  BY DEF RetryFrom, RetrySibling, TypeOK, Phases, Done
<1>3. CASE RetryFrom(s)
  BY <1>1, <1>2, <1>3, DropType DEF RetryFrom
<1>4. CASE RetrySibling(s)
  BY <1>1, <1>2, <1>4, DropType DEF RetrySibling
<1> QED
  BY <1>3, <1>4

LEMMA RestartType == TypeOK /\ Restart => TypeOK'
<1> SUFFICES ASSUME TypeOK, Restart PROVE TypeOK'
  OBVIOUS
<1>1. QueuesOK'
  BY DEF Restart, QueuesOK, IsInjective
<1>2. NoTracker \in Tracker
  BY DEF NoTracker, BuildTracker, Tracker
<1>3. mishaps' \in 0..MaxMishaps
  BY MishapType DEF Restart
<1> QED
  BY <1>1, <1>2, <1>3 DEF Restart, TypeOK, QueuesOK

LEMMA AgentType ==
  ASSUME TypeOK, NEW p \in Panes, Agent(p) \/ AsksUser(p)
  PROVE  TypeOK'
<1>1. CASE Takes(p)
  <2>1. Head(inbox[p]) \in Steps /\ Tail(inbox[p]) \in Seq(Steps)
    BY <1>1 DEF Takes, TypeOK
  <2> QED
    BY <1>1, <2>1 DEF Takes, TypeOK
<1>2. CASE Finishes(p)
  BY <1>2 DEF Finishes, TypeOK
<1>3. CASE AsksUser(p)
  <2>1. mishaps' \in 0..MaxMishaps
    BY <1>3, MishapType DEF AsksUser
  <2> QED
    BY <1>3, <2>1 DEF AsksUser, TypeOK
<1>4. CASE UserAnswers(p)
  BY <1>4 DEF UserAnswers, TypeOK
<1> QED
  BY <1>1, <1>2, <1>3, <1>4 DEF Agent

LEMMA StutterType == TypeOK /\ UNCHANGED vars => TypeOK'
  BY DEF TypeOK, vars

\* The types of all variables: no token is in a queue twice
\* (service.ts:966, the check in acquirePane).
THEOREM PaneTypeCorrect == Spec => []TypeOK
<1>1. TypeOK /\ [Next]_vars => TypeOK'
  BY RunnerType, RendererType, TimesOutType, ThrowsType, CancelRunType, RetryType,
     RestartType, AgentType, StutterType DEF Next
<1> QED
  BY <1>1, InitType, PTL DEF Spec

-----------------------------------------------------------------------------
(* One prompt at a time in a pane *)

\* What is known of a call and a tracker: a step has at most one of the two, and
\* nothing is in the pane of a step that is about to send.
StepOK(s) ==
  /\ out[s] <= panes /\ target[s] <= panes /\ tracker[s].pane <= panes
  /\ phase[s] = "pending" => tracker[s] = NoTracker /\ call[s] = "none"
  /\ call[s] # "none" => tracker[s] = NoTracker
  /\ tracker[s] # NoTracker => tracker[s].pane # NoPane
  /\ call[s] = "opening" => OwnPane(s)
  /\ call[s] \in {"sending", "sent"} => ~OwnPane(s)
  /\ call[s] # "none" /\ ~OwnPane(s) => target[s] # NoPane
  /\ call[s] = "sending" =>
       /\ Holds(paneQueue[target[s]], s)
       /\ inbox[target[s]] = <<>> /\ turn[target[s]] = Nobody

\* Whoever has written a prompt that the agent has not taken holds the pane.
Sender(s, p) ==
  /\ Holds(paneQueue[p], s)
  /\ turn[p] = Nobody
  /\ \/ call[s] = "sent" /\ target[s] = p
     \/ call[s] = "none" /\ tracker[s] # NoTracker /\ tracker[s].pane = p /\ ~tracker[s].working
  /\ OwnPane(s) => status[p] = "none"

PaneOK(p) ==
  /\ p > panes =>
       /\ paneQueue[p] = <<>> /\ inbox[p] = <<>>
       /\ status[p] = "none" /\ turn[p] = Nobody
  /\ status[p] \in {"working", "waiting"} <=> turn[p] # Nobody
  /\ inbox[p] = <<>> \/ \E s \in Steps : inbox[p] = <<s>> /\ Sender(s, p)

TurnInv == (\A s \in Steps : StepOK(s)) /\ (\A p \in Panes : PaneOK(p))

LEMMA InitTurn == Init => TurnInv
<1> SUFFICES ASSUME Init PROVE TurnInv
  OBVIOUS
<1>1. ASSUME NEW s \in Steps PROVE StepOK(s)
  <2>1. tracker[s] = NoTracker /\ NoTracker.pane = NoPane
    BY DEF Init, NoTracker, BuildTracker
  <2> QED
    BY <2>1 DEF Init, StepOK, NoPane
<1>2. ASSUME NEW p \in Panes PROVE PaneOK(p)
  BY DEF Init, PaneOK
<1> QED
  BY <1>1, <1>2 DEF TurnInv

\* One step's prompt is all that is in a pane.
LEMMA OneInPane ==
  ASSUME TypeOK, TurnInv PROVE OneLivePrompt
<1>1. SUFFICES ASSUME NEW p \in Panes
               PROVE  Cardinality({s \in Outstanding(p) : phase[s] = "live"}) <= 1
  BY DEF OneLivePrompt
<1>2. PICK x : Outstanding(p) \subseteq {x}
  <2>1. CASE inbox[p] = <<>>
    BY <2>1 DEF Outstanding, ToSet
  <2>2. CASE inbox[p] # <<>>
    <3>1. PICK s \in Steps : inbox[p] = <<s>> /\ Sender(s, p)
      BY <2>2 DEF TurnInv, PaneOK
    <3>2. ToSet(<<s>>) = {s}
      BY DEF ToSet
    <3>3. turn[p] = Nobody
      BY <3>1 DEF Sender
    <3> QED
      BY <3>1, <3>2, <3>3 DEF Outstanding
  <2> QED
    BY <2>1, <2>2
<1>3. {s \in Outstanding(p) : phase[s] = "live"} \in SUBSET {x}
  BY <1>2
<1>4. IsFiniteSet({x}) /\ Cardinality({x}) = 1
  BY FS_Singleton
<1> QED
  BY <1>3, <1>4, FS_Subset

LEMMA SettleEffect ==
  ASSUME NEW s, NEW ph, Settle(s, ph)
  PROVE  /\ phase' = [phase EXCEPT ![s] = ph]
         /\ ended' = ended \/ ended' = ended \cup {RunOf[s]}
  BY DEF Settle

\* Facts about the panes of a step in a state of the right types.
LEMMA StepTypes ==
  ASSUME TypeOK, NEW s \in Steps
  PROVE  /\ target[s] \in Panes \cup {NoPane} /\ out[s] \in Panes \cup {NoPane}
         /\ tracker[s] \in Tracker /\ tracker[s].pane \in Panes \cup {NoPane}
         /\ panes \in 0..MaxPanes
         /\ Panes \subseteq Nat /\ NoPane \notin Panes /\ Panes \cup {NoPane} \subseteq Nat
         /\ NoTracker.pane = NoPane
         /\ Ref[s] \in Steps /\ (~OwnPane(s) => Ref[s] # s)
  BY PanesAssumption DEF TypeOK, Tracker, Panes, NoPane, NoTracker, BuildTracker, OwnPane

LEMMA PanesAreNat == Panes \subseteq Nat /\ NoPane \notin Panes
  BY DEF Panes, NoPane

LEMMA BeginTickTurn ==
  ASSUME TypeOK, TurnInv, NEW s \in Steps, BeginTick(s)
  PROVE  TurnInv'
<1>t. \A u \in Steps : /\ target[u] \in Nat /\ out[u] \in Nat /\ tracker[u].pane \in Nat
                       /\ Ref[u] \in Steps
  BY StepTypes
<1>1. ASSUME NEW u \in Steps PROVE StepOK(u)'
  <2>1. StepOK(u) /\ StepOK(Ref[s])
    BY StepTypes DEF TurnInv
  <2>2. phase'[u] = "pending" => phase[u] = "pending" /\ u # s
    BY DEF BeginTick, TypeOK, Siblings, StepsOf
  <2>3. CASE u = s
    <3>1. tracker'[s] = NoTracker /\ call'[s] = "gates" /\ NoTracker.pane = NoPane
      BY StepTypes DEF BeginTick, TypeOK
    <3>2. target'[s] <= panes /\ (~OwnPane(s) => target'[s] # NoPane)
      BY <1>t, <2>1, <2>3 DEF BeginTick, TypeOK, StepOK, OwnPane, NoPane
    <3> QED
      BY <2>1, <2>2, <2>3, <3>1, <3>2 DEF BeginTick, StepOK
  <2>4. CASE u # s
    <3>1. call'[u] = call[u] /\ target'[u] = target[u]
      BY <2>4 DEF BeginTick, TypeOK
    <3> QED
      BY <2>1, <2>2, <3>1 DEF BeginTick, StepOK, agent
  <2> QED
    BY <2>3, <2>4
<1>2. ASSUME NEW p \in Panes PROVE PaneOK(p)'
  <2>1. PaneOK(p)
    BY DEF TurnInv
  <2>2. ASSUME NEW u \in Steps, Sender(u, p) PROVE Sender(u, p)'
    <3>1. u # s
      BY <2>2 DEF Sender, BeginTick
    <3>2. call'[u] = call[u] /\ target'[u] = target[u]
      BY <3>1 DEF BeginTick, TypeOK
    <3> QED
      BY <2>2, <3>2 DEF Sender, BeginTick, agent
  <2> QED
    BY <2>1, <2>2 DEF PaneOK, BeginTick, agent
<1> QED
  BY <1>1, <1>2 DEF TurnInv

LEMMA NoTokens ==
  ASSUME NEW S, NEW q \in Seq(S)
  PROVE  ToSet(q) = {} <=> q = <<>>
<1>1. ASSUME q # <<>> PROVE ToSet(q) # {}
  <2>1. 1 \in DOMAIN q
    BY <1>1
  <2> QED
    BY <2>1 DEF ToSet
<1> QED
  BY <1>1 DEF ToSet

LEMMA EmptyStaysEmpty ==
  ASSUME QueuesOK, NEW Q, NEW D, Thinned(Q, D), NEW p \in Panes, paneQueue[p] = <<>>
  PROVE  Q[p] = <<>>
<1>1. Q[p] \in Seq(Steps) /\ ToSet(Q[p]) = ToSet(paneQueue[p]) \ D[p]
  BY DEF Thinned
<1>2. ToSet(paneQueue[p]) = {}
  BY NoTokens DEF ToSet
<1> QED
  BY <1>1, <1>2, NoTokens

\* Whoever is sending, or has written a prompt that is not taken, must not lose
\* the pane.
Using(t, p) == call[t] # "none" \/ inbox[p] = <<t>>

\* A call that ends without a prompt, or goes on to open a pane.
LEMMA CallTurn ==
  ASSUME TypeOK, TurnInv, NEW s \in Steps, call[s] \in {"gates", "opening", "sending"},
         NEW c \in {"none", "opening"}, c = "opening" => OwnPane(s),
         call' = [call EXCEPT ![s] = c],
         \A u \in Steps : phase'[u] = "pending" => phase[u] = "pending",
         \A t \in Steps \ {s}, p \in Panes :
           Using(t, p) /\ Holds(paneQueue[p], t) => Holds(paneQueue'[p], t),
         \A p \in Panes : p > panes => paneQueue'[p] = <<>>,
         UNCHANGED <<target, tracker, out, panes, agent>>
  PROVE  TurnInv'
<1>1. ASSUME NEW u \in Steps PROVE StepOK(u)'
  <2>1. StepOK(u) /\ StepOK(s)
    BY DEF TurnInv
  <2>2. CASE u = s
    <3>1. call'[s] = c
      BY DEF TypeOK
    <3> QED
      BY <2>1, <2>2, <3>1 DEF StepOK, agent
  <2>3. CASE u # s
    <3>1. call'[u] = call[u]
      BY <2>3 DEF TypeOK
    <3>2. call[u] = "sending" => target[u] \in Panes
      BY <2>1, StepTypes DEF StepOK
    <3>3. call[u] = "sending" => Holds(paneQueue'[target[u]], u)
      BY <2>1, <2>3, <3>2 DEF StepOK, Using
    <3> QED
      BY <2>1, <3>1, <3>3 DEF StepOK, agent
  <2> QED
    BY <2>2, <2>3
<1>2. ASSUME NEW p \in Panes PROVE PaneOK(p)'
  <2>1. PaneOK(p)
    BY DEF TurnInv
  <2>2. ASSUME NEW u \in Steps, inbox[p] = <<u>>, Sender(u, p) PROVE Sender(u, p)'
    <3>1. StepOK(s)
      BY DEF TurnInv
    <3>2. u # s
      BY <2>2, <3>1 DEF Sender, StepOK
    <3>3. call'[u] = call[u]
      BY <3>2 DEF TypeOK
    <3>4. Holds(paneQueue'[p], u)
      BY <2>2, <3>2 DEF Sender, Using
    <3> QED
      BY <2>2, <3>3, <3>4 DEF Sender, agent
  <2>3. p > panes' => paneQueue'[p] = <<>>
    OBVIOUS
  <2> QED
    BY <2>1, <2>2, <2>3 DEF PaneOK, agent
<1> QED
  BY <1>1, <1>2 DEF TurnInv

\* Settling makes no step pending.
LEMMA SettleNotPending ==
  ASSUME TypeOK, NEW s \in Steps, NEW ph \in Phases \ {"pending"}, Settle(s, ph)
  PROVE  \A u \in Steps : phase'[u] = "pending" => phase[u] = "pending"
  BY SettleEffect DEF TypeOK

LEMMA CallEndsTurn ==
  ASSUME TypeOK, TurnInv, NEW s \in Steps,
         GatesEnd(s) \/ GatesOpen(s) \/ OpenFails(s) \/ SendFails(s)
  PROVE  TurnInv'
<1>q. QueuesOK
  BY QueueTypes
<1>p. \A p \in Panes : p > panes => paneQueue[p] = <<>>
  BY DEF TurnInv, PaneOK
<1>1. CASE GatesEnd(s)
  <2>1. \A u \in Steps : phase'[u] = "pending" => phase[u] = "pending"
    BY <1>1, SettleNotPending DEF GatesEnd, Phases
  <2> QED
    BY <1>1, <1>p, <2>1, CallTurn DEF GatesEnd
<1>2. CASE GatesOpen(s)
  BY <1>2, <1>p, CallTurn DEF GatesOpen
<1>3. CASE OpenFails(s)
  <2>1. \A u \in Steps : phase'[u] = "pending" => phase[u] = "pending"
    BY <1>3, SettleNotPending DEF OpenFails, Phases
  <2> QED
    BY <1>3, <1>p, <2>1, CallTurn DEF OpenFails
<1>4. CASE SendFails(s)
  <2>1. \A u \in Steps : phase'[u] = "pending" => phase[u] = "pending"
    BY <1>4, SettleNotPending DEF SendFails, Phases
  <2> DEFINE D == [o \in Panes |-> IF o = target[s] THEN {s} ELSE {}]
  <2>2. Thinned(paneQueue', D)
    BY <1>4, <1>q, ReleaseThins DEF SendFails
  <2>3. \A t \in Steps \ {s}, p \in Panes :
          Using(t, p) /\ Holds(paneQueue[p], t) => Holds(paneQueue'[p], t)
    BY <2>2 DEF Thinned
  <2> HIDE DEF D
  <2>4. \A p \in Panes : p > panes => paneQueue'[p] = <<>>
    BY <1>p, <1>q, <2>2, EmptyStaysEmpty
  <2> QED
    BY <1>4, <2>1, <2>3, <2>4, CallTurn DEF SendFails
<1> QED
  BY <1>1, <1>2, <1>3, <1>4

LEMMA JoinedElsewhere ==
  ASSUME QueuesOK, NEW Q, NEW p, NEW s, Joined(Q, p, s), NEW o \in Panes, o # p,
         paneQueue[o] = <<>>
  PROVE  Q[o] = <<>>
<1>1. Q[o] \in Seq(Steps) /\ ToSet(Q[o]) = ToSet(paneQueue[o])
  BY DEF Joined
<1>2. ToSet(paneQueue[o]) = {}
  BY NoTokens DEF QueuesOK
<1> QED
  BY <1>1, <1>2, NoTokens

LEMMA GatesSendTurn ==
  ASSUME TypeOK, TurnInv, NEW s \in Steps, GatesSend(s)
  PROVE  TurnInv'
<1> DEFINE p == target[s]
           q == Registered(paneQueue[p], s)
<1>q. QueuesOK
  BY QueueTypes
<1>0. StepOK(s) /\ \A o \in Panes : PaneOK(o)
  BY DEF TurnInv
<1>p. \A o \in Panes : o > panes => paneQueue[o] = <<>>
  BY <1>0 DEF PaneOK
<1>t. p \in Panes /\ p <= panes
  BY <1>0, StepTypes DEF StepOK, GatesSend
<1>1. CASE /\ paneQueue' = [paneQueue EXCEPT ![p] = q]
           /\ UNCHANGED <<phase, ended>>
           /\ \/ call' = [call EXCEPT ![s] = "none"]
              \/ /\ Holds(q, s) /\ status[p] \in {"none", "done"}
                 /\ call' = [call EXCEPT ![s] = "sending"]
  <2>1. Joined(paneQueue', p, s)
    BY <1>1, <1>q, RegisterJoins
  <2>2. \A t \in Steps, o \in Panes : Holds(paneQueue[o], t) => Holds(paneQueue'[o], t)
    BY <2>1 DEF Joined
  <2>3. \A o \in Panes : o > panes => paneQueue'[o] = <<>>
    BY <1>p, <1>q, <1>t, <2>1, JoinedElsewhere, StepTypes
  <2>4. CASE call' = [call EXCEPT ![s] = "none"]
    BY <1>1, <2>2, <2>3, <2>4, CallTurn DEF GatesSend
  <2>5. CASE /\ Holds(q, s) /\ status[p] \in {"none", "done"}
             /\ call' = [call EXCEPT ![s] = "sending"]
    <3>1. UNCHANGED <<phase, target, tracker, out, panes, status, inbox, turn>>
      BY <1>1 DEF GatesSend, agent
    <3>2. Holds(paneQueue'[p], s)
      BY <1>1, <1>q, <1>t, <2>5 DEF QueuesOK
    <3>3. turn[p] = Nobody
      BY <1>0, <1>t, <2>5 DEF PaneOK
    <3>4. inbox[p] = <<>>
      <4>1. SUFFICES ASSUME NEW u \in Steps, inbox[p] = <<u>>, Sender(u, p)
                     PROVE  FALSE
        BY <1>0, <1>t DEF PaneOK
      <4>2. Holds(paneQueue'[p], u)
        BY <1>t, <2>2, <4>1 DEF Sender
      <4>3. u = s
        BY <3>2, <4>2 DEF Holds
      <4> QED
        BY <1>0, <4>1, <4>3 DEF Sender, StepOK, GatesSend
    <3>5. ASSUME NEW u \in Steps PROVE StepOK(u)'
      <4>1. StepOK(u)
        BY DEF TurnInv
      <4>2. CASE u = s
        <5>1. call'[s] = "sending" /\ ~OwnPane(s) /\ call[s] = "gates"
          BY <2>5 DEF TypeOK, GatesSend
        <5> QED
          BY <4>1, <4>2, <5>1, <3>1, <3>2, <3>3, <3>4 DEF StepOK
      <4>3. CASE u # s
        <5>1. call'[u] = call[u]
          BY <2>5, <4>3 DEF TypeOK
        <5>2. call[u] = "sending" => target[u] \in Panes
          BY <4>1, StepTypes DEF StepOK
        <5>3. call[u] = "sending" => Holds(paneQueue'[target[u]], u)
          BY <2>2, <4>1, <5>2 DEF StepOK
        <5> QED
          BY <3>1, <4>1, <5>1, <5>3 DEF StepOK
      <4> QED
        BY <4>2, <4>3
    <3>6. ASSUME NEW o \in Panes PROVE PaneOK(o)'
      <4>1. ASSUME NEW u \in Steps, Sender(u, o) PROVE Sender(u, o)'
        <5>1. u # s
          BY <1>0, <4>1 DEF Sender, StepOK, GatesSend
        <5>2. call'[u] = call[u]
          BY <2>5, <5>1 DEF TypeOK
        <5>3. Holds(paneQueue'[o], u)
          BY <2>2, <4>1 DEF Sender
        <5> QED
          BY <3>1, <4>1, <5>2, <5>3 DEF Sender
      <4> QED
        BY <1>0, <2>3, <3>1, <4>1 DEF PaneOK
    <3> QED
      BY <3>5, <3>6 DEF TurnInv
  <2> QED
    BY <1>1, <2>4, <2>5
<1>2. CASE /\ paneQueue' = Release(s, p) /\ Settle(s, "failed")
           /\ call' = [call EXCEPT ![s] = "none"]
  <2>1. \A u \in Steps : phase'[u] = "pending" => phase[u] = "pending"
    BY <1>2, SettleNotPending DEF Phases
  <2> DEFINE D == [o \in Panes |-> IF o = p THEN {s} ELSE {}]
  <2>2. Thinned(paneQueue', D)
    BY <1>2, <1>q, ReleaseThins
  <2>3. \A t \in Steps \ {s}, o \in Panes :
          Using(t, o) /\ Holds(paneQueue[o], t) => Holds(paneQueue'[o], t)
    BY <2>2 DEF Thinned
  <2> HIDE DEF D
  <2>4. \A o \in Panes : o > panes => paneQueue'[o] = <<>>
    BY <1>p, <1>q, <2>2, EmptyStaysEmpty
  <2> QED
    BY <1>2, <2>1, <2>3, <2>4, CallTurn DEF GatesSend
<1> QED
  BY <1>1, <1>2 DEF GatesSend

LEMMA InInbox == ASSUME NEW u PROVE u \in ToSet(<<u>>)
  BY DEF ToSet

LEMMA ThrowsTurn ==
  ASSUME TypeOK, TurnInv, ~Hasty, NEW s \in Steps, Throws(s)
  PROVE  TurnInv'
<1> DEFINE r == RunOf[s]
           D == [p \in Panes |-> StepsOf(r)]
<1>q. QueuesOK
  BY QueueTypes
<1>p. \A p \in Panes : p > panes => paneQueue[p] = <<>>
  BY DEF TurnInv, PaneOK
<1>1. \A u \in Steps : phase'[u] = "pending" => phase[u] = "pending"
  BY DEF Throws, Halted
<1>2. Thinned(paneQueue', D)
  BY <1>q, ReleaseRunThins DEF Throws
<1>3. \A t \in Steps \ {s}, p \in Panes : Using(t, p) => t \notin StepsOf(r)
  BY InInbox DEF Throws, Using
<1>4. \A t \in Steps \ {s}, p \in Panes :
        Using(t, p) /\ Holds(paneQueue[p], t) => Holds(paneQueue'[p], t)
  BY <1>2, <1>3 DEF Thinned
<1> HIDE DEF D
<1>5. \A p \in Panes : p > panes => paneQueue'[p] = <<>>
  BY <1>p, <1>q, <1>2, EmptyStaysEmpty
<1> QED
  BY <1>1, <1>4, <1>5, CallTurn DEF Throws

\* A poll, or the end of a step whose prompt the agent has taken.
LEMMA PollTurn ==
  ASSUME TypeOK, TurnInv, NEW s \in Steps, call[s] = "none", tracker[s] # NoTracker,
         NEW p \in Panes, p = tracker[s].pane,
         \A u \in Steps : phase'[u] = "pending" => phase[u] = "pending",
         \A u \in Steps : u # s => tracker'[u] = tracker[u],
         tracker'[s] # NoTracker, tracker'[s].pane = p,
         inbox[p] = <<s>> => tracker'[s].working = FALSE /\ Holds(paneQueue'[p], s),
         \A t \in Steps \ {s}, o \in Panes : Holds(paneQueue[o], t) => Holds(paneQueue'[o], t),
         \A o \in Panes : o > panes => paneQueue'[o] = <<>>,
         \A u \in Steps : out'[u] <= panes,
         UNCHANGED <<call, target, panes, agent>>
  PROVE  TurnInv'
<1>0. StepOK(s) /\ phase[s] # "pending"
  BY DEF TurnInv, StepOK
<1>1. ASSUME NEW u \in Steps PROVE StepOK(u)'
  <2>1. StepOK(u)
    BY DEF TurnInv
  <2>2. call[u] = "sending" => target[u] \in Panes /\ u # s
    BY <2>1, StepTypes DEF StepOK
  <2>3. call[u] = "sending" => Holds(paneQueue'[target[u]], u)
    BY <2>1, <2>2 DEF StepOK
  <2>4. CASE u = s
    BY <1>0, <2>1, <2>4, StepTypes DEF StepOK, agent
  <2>5. CASE u # s
    <3>1. tracker'[u] = tracker[u]
      BY <2>5
    <3> QED
      BY <2>1, <2>3, <3>1 DEF StepOK, agent
  <2> QED
    BY <2>4, <2>5
<1>2. ASSUME NEW o \in Panes PROVE PaneOK(o)'
  <2>1. PaneOK(o)
    BY DEF TurnInv
  <2>2. ASSUME NEW u \in Steps, inbox[o] = <<u>>, Sender(u, o) PROVE Sender(u, o)'
    <3>1. CASE u = s
      <4>1. o = p
        BY <2>2, <3>1 DEF Sender
      <4> QED
        BY <2>2, <3>1, <4>1 DEF Sender, agent
    <3>2. CASE u # s
      <4>1. tracker'[u] = tracker[u] /\ Holds(paneQueue'[o], u)
        BY <2>2, <3>2 DEF Sender
      <4> QED
        BY <2>2, <4>1 DEF Sender, agent
    <3> QED
      BY <3>1, <3>2
  <2>3. o > panes' => paneQueue'[o] = <<>>
    OBVIOUS
  <2> QED
    BY <2>1, <2>2, <2>3 DEF PaneOK, agent
<1> QED
  BY <1>1, <1>2 DEF TurnInv

LEMMA PollWorkingTurn ==
  ASSUME TypeOK, TurnInv, NEW s \in Steps, PollWorking(s)
  PROVE  TurnInv'
<1> DEFINE p == tracker[s].pane
<1>0. StepOK(s) /\ (\A u \in Steps : StepOK(u)) /\ \A o \in Panes : PaneOK(o)
  BY DEF TurnInv
<1>1. p \in Panes /\ call[s] = "none" /\ tracker[s] # NoTracker
  BY <1>0, StepTypes DEF StepOK, PollWorking, Polled
<1>2. \A u \in Steps : u # s => tracker'[u] = tracker[u]
  BY DEF PollWorking, TypeOK
<1>3. tracker'[s].pane = p
  BY DEF PollWorking, TypeOK, Tracker
<1>4. tracker'[s] # NoTracker
  BY <1>1, <1>3, StepTypes
<1>5. inbox[p] # <<s>>
  <2>1. turn[p] # Nobody
    BY <1>0, <1>1 DEF PaneOK, PollWorking
  <2>2. s \in Steps /\ <<s>> # <<>>
    OBVIOUS
  <2> QED
    BY <1>0, <1>1, <2>1, <2>2 DEF PaneOK, Sender
<1>6. \A u \in Steps : out'[u] <= panes
  BY <1>0 DEF StepOK, PollWorking
<1>7. \A o \in Panes : o > panes => paneQueue'[o] = <<>>
  BY <1>0 DEF PaneOK, PollWorking
<1>8. UNCHANGED <<phase, call, target, paneQueue, panes, agent>>
  BY DEF PollWorking
<1> HIDE DEF p
<1> QED
  BY <1>1, <1>2, <1>3, <1>4, <1>5, <1>6, <1>7, <1>8, PollTurn DEF p

\* A done report that a step believes is not older than its prompt.
LEMMA BelievedIsTaken ==
  ASSUME TypeOK, TurnInv, NEW s \in Steps, tracker[s] # NoTracker, Believes(s),
         tracker[s].pane \in Panes, status[tracker[s].pane] = "done"
  PROVE  inbox[tracker[s].pane] # <<s>>
<1> DEFINE p == tracker[s].pane
<1>1. SUFFICES ASSUME inbox[p] = <<s>> PROVE FALSE
  OBVIOUS
<1>2. PICK u \in Steps : inbox[p] = <<u>> /\ Sender(u, p)
  <2>1. PaneOK(p) /\ <<s>> # <<>>
    BY DEF TurnInv
  <2> QED
    BY <1>1, <2>1 DEF PaneOK
<1>3. u = s
  BY <1>1, <1>2
<1>4. StepOK(s)
  BY DEF TurnInv
<1> QED
  BY <1>2, <1>3, <1>4 DEF Sender, StepOK, Believes

LEMMA PollDoneTurn ==
  ASSUME TypeOK, TurnInv, NEW s \in Steps, PollDone(s)
  PROVE  TurnInv'
<1> DEFINE p == tracker[s].pane
<1>q. QueuesOK
  BY QueueTypes
<1>0. (\A u \in Steps : StepOK(u)) /\ \A o \in Panes : PaneOK(o)
  BY DEF TurnInv
<1>1. p \in Panes /\ p <= panes /\ call[s] = "none" /\ tracker[s] # NoTracker
  BY <1>0, StepTypes DEF StepOK, PollDone, Polled
<1>2. \A u \in Steps : u # s => tracker'[u] = tracker[u]
  BY DEF PollDone, TypeOK
<1>3. tracker'[s].pane = p
  BY DEF PollDone, TypeOK, Tracker
<1>4. tracker'[s] # NoTracker
  BY <1>1, <1>3, StepTypes
<1>5. inbox[p] # <<s>>
  BY <1>1, BelievedIsTaken DEF PollDone
<1>6. UNCHANGED <<call, target, panes, agent>>
  BY DEF PollDone
<1>7. CASE UNCHANGED <<phase, ended, paneQueue, out>>
  <2>1. \A u \in Steps : out'[u] <= panes
    BY <1>0, <1>7 DEF StepOK
  <2>2. \A o \in Panes : o > panes => paneQueue'[o] = <<>>
    BY <1>0, <1>7 DEF PaneOK
  <2> HIDE DEF p
  <2> QED
    BY <1>1, <1>2, <1>3, <1>4, <1>5, <1>6, <1>7, <2>1, <2>2, PollTurn DEF p
<1>8. CASE /\ Settle(s, "succeeded") /\ out' = [out EXCEPT ![s] = p]
           /\ paneQueue' = Release(s, p)
  <2>1. \A u \in Steps : out'[u] <= panes
    BY <1>0, <1>1, <1>8 DEF StepOK, TypeOK
  <2> DEFINE D == [o \in Panes |-> IF o = p THEN {s} ELSE {}]
  <2>2. Thinned(paneQueue', D)
    BY <1>8, <1>q, ReleaseThins
  <2>3. \A t \in Steps \ {s}, o \in Panes : Holds(paneQueue[o], t) => Holds(paneQueue'[o], t)
    BY <2>2 DEF Thinned
  <2> HIDE DEF D
  <2>4. \A o \in Panes : o > panes => paneQueue'[o] = <<>>
    BY <1>0, <1>q, <2>2, EmptyStaysEmpty DEF PaneOK
  <2>5. \A u \in Steps : phase'[u] = "pending" => phase[u] = "pending"
    BY <1>8, SettleNotPending DEF Phases
  <2> HIDE DEF p
  <2> QED
    BY <1>1, <1>2, <1>3, <1>4, <1>5, <1>6, <2>1, <2>3, <2>4, <2>5, PollTurn DEF p
<1> QED
  BY <1>7, <1>8 DEF PollDone

LEMMA TimesOutTurn ==
  ASSUME TypeOK, TurnInv, ~Hasty, NEW s \in Steps, TimesOut(s)
  PROVE  TurnInv'
<1> DEFINE p == tracker[s].pane
           D == [o \in Panes |-> IF o = p THEN {s} ELSE {}]
<1>q. QueuesOK
  BY QueueTypes
<1>0. (\A u \in Steps : StepOK(u)) /\ \A o \in Panes : PaneOK(o)
  BY DEF TurnInv
<1>1. p \in Panes /\ p <= panes /\ call[s] = "none" /\ tracker[s] # NoTracker
  BY <1>0, StepTypes DEF StepOK, TimesOut, Polled
<1>2. UNCHANGED <<call, target, tracker, out, panes, agent>>
  BY DEF TimesOut
<1>3. inbox[p] # <<s>>
  BY InInbox DEF TimesOut
<1>4. Thinned(paneQueue', D)
  BY <1>q, ReleaseThins DEF TimesOut
<1>5. \A t \in Steps \ {s}, o \in Panes : Holds(paneQueue[o], t) => Holds(paneQueue'[o], t)
  BY <1>4 DEF Thinned
<1> HIDE DEF D
<1>6. \A o \in Panes : o > panes => paneQueue'[o] = <<>>
  BY <1>0, <1>q, <1>4, EmptyStaysEmpty DEF PaneOK
<1>7. \A u \in Steps : phase'[u] = "pending" => phase[u] = "pending"
  BY SettleNotPending DEF Phases, TimesOut
<1>8. \A u \in Steps : out'[u] <= panes
  BY <1>0, <1>2 DEF StepOK
<1> HIDE DEF p
<1> QED
  BY <1>1, <1>2, <1>3, <1>5, <1>6, <1>7, <1>8, PollTurn DEF p

LEMMA OpenedTurn ==
  ASSUME TypeOK, TurnInv, NEW s \in Steps, Opened(s)
  PROVE  TurnInv'
<1>q. QueuesOK
  BY QueueTypes
<1>0. (\A u \in Steps : StepOK(u)) /\ \A o \in Panes : PaneOK(o)
  BY DEF TurnInv
<1>n. panes \in Nat /\ MaxPanes \in Nat
  BY PanesAssumption DEF TypeOK
<1>p. PICK p \in Nat : p = panes + 1
  BY <1>n
<1>1. p \in Panes /\ p > panes /\ panes \in Nat /\ panes' = p
  BY <1>n, <1>p DEF Opened, Panes
<1>2. BuildTracker(p).pane = p /\ BuildTracker(p).working = FALSE
  BY DEF BuildTracker
<1>3. BuildTracker(p) # NoTracker /\ p # NoPane
  BY <1>1, <1>2, StepTypes
<1>4. /\ tracker'[s] = BuildTracker(p) /\ call'[s] = "none"
      /\ \A u \in Steps : u # s => tracker'[u] = tracker[u] /\ call'[u] = call[u]
  BY <1>p DEF Opened, TypeOK
<1>5. Joined(paneQueue', p, s)
  BY <1>p, <1>q, RegisterJoins DEF Opened
<1>6. \A t \in Steps, o \in Panes : Holds(paneQueue[o], t) => Holds(paneQueue'[o], t)
  BY <1>5 DEF Joined
<1>7. Holds(paneQueue'[p], s)
  BY <1>0, <1>1, <1>5 DEF Joined, PaneOK
<1>8. \A o \in Panes : o > panes' => paneQueue'[o] = <<>>
  <2>1. SUFFICES ASSUME NEW o \in Panes, o > panes'
                 PROVE  paneQueue'[o] = <<>>
    OBVIOUS
  <2>2. o # p /\ o > panes
    BY <1>1, <2>1, PanesAreNat
  <2> QED
    BY <1>0, <1>5, <1>q, <2>2, JoinedElsewhere DEF PaneOK
<1>9. /\ inbox'[p] = <<s>> /\ \A o \in Panes : o # p => inbox'[o] = inbox[o]
      /\ UNCHANGED <<phase, target, out, status, turn>>
  BY <1>1, <1>p DEF Opened, TypeOK
<1>10. phase[s] # "pending" /\ OwnPane(s)
  BY <1>0 DEF Opened, StepOK
<1>11. ASSUME NEW u \in Steps PROVE StepOK(u)'
  <2>1. StepOK(u)
    BY <1>0
  <2>2. /\ target[u] \in Nat /\ out[u] \in Nat /\ tracker[u].pane \in Nat
        /\ panes <= panes' /\ panes' \in Nat
    BY <1>1, <1>p, StepTypes
  <2>3. CASE u = s
    <3>1. out'[u] <= panes' /\ target'[u] <= panes' /\ tracker'[u].pane <= panes'
      BY <1>1, <1>2, <1>4, <1>9, <2>1, <2>2, <2>3 DEF StepOK
    <3> QED
      BY <1>2, <1>3, <1>4, <1>9, <1>10, <2>3, <3>1 DEF StepOK
  <2>4. CASE u # s
    <3>1. out'[u] <= panes' /\ target'[u] <= panes' /\ tracker'[u].pane <= panes'
      BY <1>1, <1>4, <1>9, <2>1, <2>2, <2>4 DEF StepOK
    <3>2. call[u] = "sending" => target[u] \in Panes /\ target[u] # p
      BY <1>1, <2>1, StepTypes DEF StepOK
    <3>3. call[u] = "sending" =>
            /\ Holds(paneQueue'[target[u]], u)
            /\ inbox'[target[u]] = <<>> /\ turn'[target[u]] = Nobody
      BY <1>6, <1>9, <2>1, <3>2 DEF StepOK
    <3> QED
      BY <1>4, <1>9, <2>1, <2>4, <3>1, <3>3 DEF StepOK
  <2> QED
    BY <2>3, <2>4
<1>12. ASSUME NEW o \in Panes PROVE PaneOK(o)'
  <2>1. PaneOK(o) /\ PaneOK(p)
    BY <1>0, <1>1
  <2>2. CASE o = p
    <3>1. status[p] = "none" /\ turn[p] = Nobody
      BY <1>1, <2>1 DEF PaneOK
    <3>2. Sender(s, p)'
      BY <1>2, <1>3, <1>4, <1>7, <1>9, <3>1 DEF Sender
    <3>3. ~(p > panes')
      BY <1>1
    <3> QED
      BY <1>9, <2>1, <2>2, <3>1, <3>2, <3>3 DEF PaneOK
  <2>3. CASE o # p
    <3>1. ASSUME NEW u \in Steps, Sender(u, o) PROVE Sender(u, o)'
      <4>1. StepOK(s) /\ StepOK(u)
        BY <1>0
      <4>2. u # s
        BY <3>1, <4>1 DEF Sender, StepOK, Opened
      <4> QED
        BY <1>4, <1>6, <1>9, <3>1, <4>2 DEF Sender
    <3>2. o > panes' => o > panes
      BY <1>1, PanesAreNat
    <3> QED
      BY <1>8, <1>9, <2>1, <2>3, <3>1, <3>2 DEF PaneOK
  <2> QED
    BY <2>2, <2>3
<1> QED
  BY <1>11, <1>12 DEF TurnInv

LEMMA DeliverTurn ==
  ASSUME TypeOK, TurnInv, NEW s \in Steps, Deliver(s)
  PROVE  TurnInv'
<1>0. (\A u \in Steps : StepOK(u)) /\ \A o \in Panes : PaneOK(o)
  BY DEF TurnInv
<1>p. PICK p \in Panes : p = target[s]
  BY <1>0, StepTypes DEF StepOK, Deliver
<1>1. p <= panes /\ ~OwnPane(s) /\ tracker[s] = NoTracker /\ phase[s] # "pending"
  BY <1>0, <1>p DEF StepOK, Deliver
<1>2. Holds(paneQueue[p], s) /\ inbox[p] = <<>> /\ turn[p] = Nobody
  BY <1>0, <1>p DEF StepOK, Deliver
<1>3. Append(<<>>, s) = <<s>>
  OBVIOUS
<1>4. inbox'[p] = <<s>> /\ \A o \in Panes : o # p => inbox'[o] = inbox[o]
  BY <1>p, <1>2, <1>3 DEF Deliver, TypeOK
<1>5. call'[s] = "sent" /\ \A u \in Steps : u # s => call'[u] = call[u]
  BY DEF Deliver, TypeOK
<1>6. UNCHANGED <<phase, target, tracker, paneQueue, out, panes, status, turn>>
  BY DEF Deliver
<1>7. ASSUME NEW u \in Steps PROVE StepOK(u)'
  <2>1. StepOK(u)
    BY <1>0
  <2>2. CASE u = s
    BY <1>1, <1>5, <1>6, <2>1, <2>2, PanesAreNat, <1>p DEF StepOK
  <2>3. CASE u # s
    <3>1. call[u] = "sending" => target[u] \in Panes /\ Holds(paneQueue[target[u]], u)
      BY <2>1, StepTypes DEF StepOK
    <3>2. call[u] = "sending" => target[u] # p
      BY <1>2, <2>3, <3>1 DEF Holds
    <3> QED
      BY <1>4, <1>5, <1>6, <2>1, <2>3, <3>1, <3>2 DEF StepOK
  <2> QED
    BY <2>2, <2>3
<1>8. ASSUME NEW o \in Panes PROVE PaneOK(o)'
  <2>1. PaneOK(o) /\ panes \in Nat /\ o \in Nat
    BY <1>0, StepTypes
  <2>2. CASE o = p
    <3>1. Sender(s, p)'
      BY <1>p, <1>1, <1>2, <1>5, <1>6 DEF Sender
    <3>2. ~(o > panes)
      BY <1>1, <2>1, <2>2
    <3> QED
      BY <1>4, <1>6, <2>1, <2>2, <3>1, <3>2 DEF PaneOK
  <2>3. CASE o # p
    <3>1. ASSUME NEW u \in Steps, Sender(u, o) PROVE Sender(u, o)'
      <4>1. u # s
        BY <1>1, <3>1 DEF Sender, Deliver
      <4> QED
        BY <1>5, <1>6, <3>1, <4>1 DEF Sender
    <3> QED
      BY <1>4, <1>6, <2>1, <2>3, <3>1 DEF PaneOK
  <2> QED
    BY <2>2, <2>3
<1> QED
  BY <1>7, <1>8 DEF TurnInv

LEMMA SentTurn ==
  ASSUME TypeOK, TurnInv, NEW s \in Steps, Sent(s)
  PROVE  TurnInv'
<1>0. (\A u \in Steps : StepOK(u)) /\ \A o \in Panes : PaneOK(o)
  BY DEF TurnInv
<1>p. PICK p \in Panes : p = target[s]
  BY <1>0, StepTypes DEF StepOK, Sent
<1>1. p <= panes /\ ~OwnPane(s) /\ tracker[s] = NoTracker /\ phase[s] # "pending"
  BY <1>0, <1>p DEF StepOK, Sent
<1>2. BuildTracker(p).pane = p /\ BuildTracker(p).working = FALSE
  BY DEF BuildTracker
<1>3. BuildTracker(p) # NoTracker /\ p # NoPane
  BY <1>1, <1>2, StepTypes
<1>4. /\ tracker'[s] = BuildTracker(p) /\ call'[s] = "none"
      /\ \A u \in Steps : u # s => tracker'[u] = tracker[u] /\ call'[u] = call[u]
  BY <1>p DEF Sent, TypeOK
<1>5. UNCHANGED <<phase, target, paneQueue, out, panes, status, inbox, turn>>
  BY DEF Sent, agent
<1>6. ASSUME NEW u \in Steps PROVE StepOK(u)'
  <2>1. StepOK(u)
    BY <1>0
  <2>2. CASE u = s
    BY <1>1, <1>2, <1>3, <1>4, <1>5, <2>1, <2>2 DEF StepOK
  <2>3. CASE u # s
    BY <1>4, <1>5, <2>1, <2>3 DEF StepOK
  <2> QED
    BY <2>2, <2>3
<1>7. ASSUME NEW o \in Panes PROVE PaneOK(o)'
  <2>1. PaneOK(o)
    BY <1>0
  <2>2. ASSUME NEW u \in Steps, Sender(u, o) PROVE Sender(u, o)'
    <3>1. CASE u = s
      BY <1>p, <1>1, <1>2, <1>3, <1>4, <1>5, <2>2, <3>1 DEF Sender
    <3>2. CASE u # s
      BY <1>4, <1>5, <2>2, <3>2 DEF Sender
    <3> QED
      BY <3>1, <3>2
  <2> QED
    BY <1>5, <2>1, <2>2 DEF PaneOK
<1> QED
  BY <1>6, <1>7 DEF TurnInv

\* A run that is ended or retried in a quiet moment: what its steps knew is
\* forgotten, the other runs keep what they use, and some panes are closed.
LEMMA QuietTurn ==
  ASSUME TypeOK, TurnInv, NEW r, Quiet(r), NEW D \in SUBSET StepsOf(r), NEW C,
         \A u \in Steps \ D : phase'[u] = "pending" => phase[u] = "pending",
         tracker' = [u \in Steps |-> IF u \in D THEN NoTracker ELSE tracker[u]],
         \A t \in Steps \ StepsOf(r), p \in Panes :
           Holds(paneQueue[p], t) => Holds(paneQueue'[p], t),
         \A p \in Panes : p > panes => paneQueue'[p] = <<>>,
         status' = [p \in Panes |-> IF p \in C THEN "none" ELSE status[p]],
         inbox' = [p \in Panes |-> IF p \in C THEN <<>> ELSE inbox[p]],
         turn' = [p \in Panes |-> IF p \in C THEN Nobody ELSE turn[p]],
         UNCHANGED <<call, target, out, panes>>
  PROVE  TurnInv'
<1>0. (\A u \in Steps : StepOK(u)) /\ \A o \in Panes : PaneOK(o)
  BY DEF TurnInv
<1>1. \A u \in StepsOf(r) : call[u] = "none"
  BY DEF Quiet
<1>2. \A u \in StepsOf(r), p \in Panes : inbox[p] # <<u>>
  BY InInbox DEF Quiet
<1>3. D \subseteq Steps
  BY DEF StepsOf
<1>4. ASSUME NEW u \in Steps PROVE StepOK(u)'
  <2>1. StepOK(u) /\ target[u] \in Nat /\ out[u] \in Nat /\ panes \in Nat
    BY <1>0, StepTypes
  <2>2. CASE u \in StepsOf(r)
    <3>1. call'[u] = "none" /\ tracker'[u] \in {tracker[u], NoTracker}
      BY <1>1, <2>2
    <3>2. tracker'[u].pane <= panes'
      BY <2>1, <3>1, StepTypes DEF StepOK, NoPane
    <3>3. phase'[u] = "pending" => tracker'[u] = NoTracker
      BY <1>3, <2>1 DEF StepOK
    <3> QED
      BY <2>1, <3>1, <3>2, <3>3 DEF StepOK
  <2>3. CASE u \notin StepsOf(r)
    <3>1. tracker'[u] = tracker[u] /\ (phase'[u] = "pending" => phase[u] = "pending")
      BY <2>3
    <3>2. call[u] = "sending" => target[u] \in Panes
      BY <2>1, StepTypes DEF StepOK
    <3>3. call[u] = "sending" =>
            /\ Holds(paneQueue'[target[u]], u)
            /\ inbox'[target[u]] = <<>> /\ turn'[target[u]] = Nobody
      BY <2>1, <2>3, <3>2 DEF StepOK
    <3> QED
      BY <2>1, <3>1, <3>3 DEF StepOK
  <2> QED
    BY <2>2, <2>3
<1>5. ASSUME NEW p \in Panes PROVE PaneOK(p)'
  <2>1. PaneOK(p)
    BY <1>0
  <2>2. CASE p \in C
    BY <2>1, <2>2 DEF PaneOK
  <2>3. CASE p \notin C
    <3>1. inbox'[p] = inbox[p] /\ status'[p] = status[p] /\ turn'[p] = turn[p]
      BY <2>3
    <3>2. ASSUME NEW u \in Steps, inbox[p] = <<u>>, Sender(u, p) PROVE Sender(u, p)'
      <4>1. u \notin StepsOf(r) /\ u \notin D
        BY <1>2, <3>2
      <4>2. tracker'[u] = tracker[u]
        BY <4>1
      <4> QED
        BY <3>1, <3>2, <4>1, <4>2 DEF Sender
    <3> QED
      BY <2>1, <3>1, <3>2 DEF PaneOK
  <2> QED
    BY <2>2, <2>3
<1> QED
  BY <1>4, <1>5 DEF TurnInv

LEMMA CancelRunTurn ==
  ASSUME TypeOK, TurnInv, ~Hasty, NEW r \in Runs, CancelRun(r)
  PROVE  TurnInv'
<1> DEFINE D == [p \in Panes |-> StepsOf(r)]
<1>q. QueuesOK
  BY QueueTypes
<1>1. Quiet(r)
  BY DEF CancelRun
<1>2. Thinned(paneQueue', D)
  BY <1>q, ReleaseRunThins DEF CancelRun
<1>3. \A t \in Steps \ StepsOf(r), p \in Panes :
        Holds(paneQueue[p], t) => Holds(paneQueue'[p], t)
  BY <1>2 DEF Thinned
<1> HIDE DEF D
<1>4. \A p \in Panes : p > panes => paneQueue'[p] = <<>>
  BY <1>q, <1>2, EmptyStaysEmpty DEF TurnInv, PaneOK
<1>5. \A u \in Steps : phase'[u] = "pending" => phase[u] = "pending"
  BY DEF CancelRun, Halted
<1>6. tracker' = [u \in Steps |-> IF u \in StepsOf(r) THEN NoTracker ELSE tracker[u]]
  BY DEF CancelRun, StepsOf
<1>c. PICK C : C = {}
  OBVIOUS
<1>7. /\ status' = [p \in Panes |-> IF p \in C THEN "none" ELSE status[p]]
      /\ inbox' = [p \in Panes |-> IF p \in C THEN <<>> ELSE inbox[p]]
      /\ turn' = [p \in Panes |-> IF p \in C THEN Nobody ELSE turn[p]]
  BY <1>c DEF CancelRun, agent, TypeOK
<1>8. UNCHANGED <<call, target, out, panes>>
  BY DEF CancelRun
<1>d. PICK S : S = StepsOf(r)
  OBVIOUS
<1>9. /\ S \in SUBSET StepsOf(r)
      /\ tracker' = [u \in Steps |-> IF u \in S THEN NoTracker ELSE tracker[u]]
      /\ \A u \in Steps \ S : phase'[u] = "pending" => phase[u] = "pending"
  BY <1>d, <1>5, <1>6
<1> QED
  BY <1>1, <1>3, <1>4, <1>7, <1>8, <1>9, QuietTurn

LEMMA DropTurn ==
  ASSUME TypeOK, TurnInv, ~Hasty, NEW r, NEW D \in SUBSET StepsOf(r), Drop(r, D),
         \A u \in Steps \ D : phase'[u] = "pending" => phase[u] = "pending"
  PROVE  TurnInv'
<1>q. QueuesOK
  BY QueueTypes
<1>1. Quiet(r)
  BY DEF Drop
<1>2. Thinned(paneQueue', Dropped(D)) /\ D \subseteq Steps
  BY <1>q, DropThins DEF StepsOf
<1>3. \A t \in Steps \ StepsOf(r), p \in Panes :
        Holds(paneQueue[p], t) => Holds(paneQueue'[p], t)
  BY <1>2 DEF Thinned, Dropped
<1>4. \A p \in Panes : p > panes => paneQueue'[p] = <<>>
  BY <1>q, <1>2, EmptyStaysEmpty DEF TurnInv, PaneOK
<1>5. PICK C : C = PersistedPanes(D)
  OBVIOUS
<1>6. /\ tracker' = [u \in Steps |-> IF u \in D THEN NoTracker ELSE tracker[u]]
      /\ UNCHANGED <<call, target, out, panes>>
  BY DEF Drop
<1>7. /\ status' = [p \in Panes |-> IF p \in C THEN "none" ELSE status[p]]
      /\ inbox' = [p \in Panes |-> IF p \in C THEN <<>> ELSE inbox[p]]
      /\ turn' = [p \in Panes |-> IF p \in C THEN Nobody ELSE turn[p]]
  BY <1>5 DEF Drop
<1> QED
  BY <1>1, <1>3, <1>4, <1>6, <1>7, QuietTurn

\* What a retry drops is of the run of the step.
LEMMA LaterInRun ==
  ASSUME NEW s \in Steps
  PROVE  /\ Later(s) \in SUBSET StepsOf(RunOf[s])
         /\ (Later(s) \ Siblings(s)) \cup {s} \in SUBSET StepsOf(RunOf[s])
         /\ s \in Siblings(s) /\ s \in Later(s)
  BY PanesAssumption DEF Later, StepsOf, Siblings

LEMMA RetryTurn ==
  ASSUME TypeOK, TurnInv, ~Hasty, NEW s \in Steps, RetryFrom(s) \/ RetrySibling(s)
  PROVE  TurnInv'
<1>1. CASE RetryFrom(s)
  <2>1. \A u \in Steps \ Later(s) : phase'[u] = "pending" => phase[u] = "pending"
    BY <1>1 DEF RetryFrom
  <2> QED
    BY <1>1, <2>1, LaterInRun, DropTurn DEF RetryFrom
<1>2. CASE RetrySibling(s)
  <2> DEFINE D == (Later(s) \ Siblings(s)) \cup {s}
  <2>1. \A u \in Steps \ D : phase'[u] = "pending" => phase[u] = "pending"
    BY <1>2 DEF RetrySibling
  <2>2. Drop(RunOf[s], D) /\ D \in SUBSET StepsOf(RunOf[s])
    BY <1>2, LaterInRun DEF RetrySibling
  <2> HIDE DEF D
  <2> QED
    BY <2>1, <2>2, DropTurn
<1> QED
  BY <1>1, <1>2

LEMMA RestartTurn ==
  ASSUME TypeOK, TurnInv, ~Hasty, Restart
  PROVE  TurnInv'
<1>0. (\A u \in Steps : StepOK(u)) /\ \A o \in Panes : PaneOK(o)
  BY DEF TurnInv
<1>1. ASSUME NEW u \in Steps PROVE StepOK(u)'
  <2>1. tracker'[u] = NoTracker /\ call'[u] = "none" /\ NoTracker.pane = NoPane
    BY StepTypes DEF Restart
  <2>2. StepOK(u) /\ panes \in Nat
    BY <1>0, StepTypes
  <2> QED
    BY <2>1, <2>2 DEF Restart, StepOK, NoPane
<1>2. ASSUME NEW p \in Panes PROVE PaneOK(p)'
  <2>1. turn[p] = Nobody
    BY DEF Restart
  <2>2. inbox[p] = <<>>
    <3>1. SUFFICES ASSUME NEW u \in Steps, inbox[p] = <<u>> PROVE FALSE
      BY <1>0 DEF PaneOK
    <3>2. RunOf[u] \in Runs
      BY PanesAssumption
    <3> QED
      BY <3>1, <3>2, InInbox DEF Restart, Quiet, StepsOf
  <2> QED
    BY <2>1, <2>2 DEF Restart, PaneOK
<1> QED
  BY <1>1, <1>2 DEF TurnInv

LEMMA AgentTurn ==
  ASSUME TypeOK, TurnInv, NEW p \in Panes, Agent(p) \/ AsksUser(p)
  PROVE  TurnInv'
<1>0. (\A u \in Steps : StepOK(u)) /\ \A o \in Panes : PaneOK(o)
  BY DEF TurnInv
<1>u. /\ UNCHANGED <<phase, call, target, tracker, paneQueue, out, panes>>
      /\ \A o \in Panes : o # p => /\ inbox'[o] = inbox[o]
                                   /\ turn'[o] = turn[o] /\ status'[o] = status[o]
  BY DEF Agent, Takes, Finishes, UserAnswers, AsksUser, TypeOK
<1>1. inbox'[p] = <<>> \/ (inbox'[p] = inbox[p] /\ turn[p] # Nobody)
  <2>1. CASE Takes(p)
    <3>1. PICK s \in Steps : inbox[p] = <<s>>
      BY <1>0, <2>1 DEF Takes, PaneOK
    <3>2. Tail(<<s>>) = <<>>
      OBVIOUS
    <3> QED
      BY <2>1, <3>1, <3>2 DEF Takes, TypeOK
  <2>2. CASE Finishes(p) \/ UserAnswers(p) \/ AsksUser(p)
    BY <2>2 DEF Finishes, UserAnswers, AsksUser
  <2> QED
    BY <2>1, <2>2 DEF Agent
<1>2. inbox'[p] = <<>>
  BY <1>0, <1>1 DEF PaneOK, Sender
<1>3. status'[p] \in {"working", "waiting"} <=> turn'[p] # Nobody
  <2>1. CASE Takes(p)
    <3>1. Head(inbox[p]) \in Steps /\ Nobody \notin Steps
      BY <2>1, PanesAssumption DEF Takes, TypeOK
    <3> QED
      BY <2>1, <3>1 DEF Takes, TypeOK
  <2>2. CASE Finishes(p) \/ UserAnswers(p) \/ AsksUser(p)
    BY <2>2 DEF Finishes, UserAnswers, AsksUser, TypeOK
  <2> QED
    BY <2>1, <2>2 DEF Agent
<1>4. turn[p] # Nobody \/ inbox[p] # <<>>
  BY DEF Agent, Takes, Finishes, UserAnswers, AsksUser
<1>5. ASSUME NEW u \in Steps PROVE StepOK(u)'
  <2>1. StepOK(u)
    BY <1>0
  <2>2. call[u] = "sending" => target[u] \in Panes /\ target[u] # p
    BY <1>4, <2>1, StepTypes DEF StepOK
  <2> QED
    BY <1>u, <2>1, <2>2 DEF StepOK
<1>6. ASSUME NEW o \in Panes PROVE PaneOK(o)'
  <2>1. PaneOK(o)
    BY <1>0
  <2>2. CASE o = p
    BY <1>u, <1>2, <1>3, <1>4, <2>1, <2>2 DEF PaneOK
  <2>3. CASE o # p
    BY <1>u, <2>1, <2>3 DEF PaneOK, Sender
  <2> QED
    BY <2>2, <2>3
<1> QED
  BY <1>5, <1>6 DEF TurnInv

LEMMA StutterTurn == TurnInv /\ UNCHANGED vars => TurnInv'
  BY DEF TurnInv, StepOK, PaneOK, Sender, vars

LEMMA NextTurn ==
  ASSUME TypeOK, TurnInv, ~Hasty, [Next]_vars
  PROVE  TurnInv'
<1>1. ASSUME NEW s \in Steps, Runner(s) PROVE TurnInv'
  BY <1>1, BeginTickTurn, CallEndsTurn, GatesSendTurn, PollWorkingTurn, PollDoneTurn DEF Runner
<1>2. ASSUME NEW s \in Steps, Renderer(s) PROVE TurnInv'
  BY <1>2, OpenedTurn, CallEndsTurn, DeliverTurn, SentTurn DEF Renderer
<1> QED
  BY <1>1, <1>2, TimesOutTurn, ThrowsTurn, RetryTurn, AgentTurn, CancelRunTurn, RestartTurn,
     StutterTurn DEF Next

\* Unless somebody ends a run in the middle of a call, or restarts the app while
\* an agent is at work, at most one step waits for an answer in a pane,
\* however many queue for it and whatever is retried (run-prompt-runner.ts:321).
THEOREM OnePromptAtATime == ASSUME ~Hasty PROVE Spec => []OneLivePrompt
<1>1. Init => TypeOK /\ TurnInv
  BY InitType, InitTurn
<1>2. TypeOK /\ TurnInv /\ [Next]_vars => TurnInv'
  BY NextTurn
<1>3. TypeOK /\ TurnInv => OneLivePrompt
  BY OneInPane
<1> QED
  BY <1>1, <1>2, <1>3, PaneTypeCorrect, PTL DEF Spec

-----------------------------------------------------------------------------
(* A step succeeds with the answer to its own prompt *)

\* A live step with a tracker polls the pane of its prompt.
Watches(s, p) == phase[s] = "live" /\ tracker[s] # NoTracker /\ tracker[s].pane = p
Drives(s, p) == (call[s] = "sent" /\ target[s] = p) \/ Watches(s, p)

\* Whose prompt is in the pane holds it until the step ends, so the agent is at
\* work on no other prompt; a done report that the step is to believe is about
\* its own prompt.
DriveOK(s, p) ==
  /\ Drives(s, p) => Holds(paneQueue[p], s) /\ turn[p] \in {Nobody, s}
  /\ Watches(s, p) /\ Believes(s) /\ status[p] = "done" => s \in answered

DriveInv ==
  /\ \A s \in Steps, p \in Panes : DriveOK(s, p)
  /\ SucceedsOnOwnAnswer

LEMMA InitDrive == Init => DriveInv
  BY DEF Init, DriveInv, DriveOK, Drives, Watches, SucceedsOnOwnAnswer

\* A step that neither waits for a reply nor watches a pane.
LEMMA DrivesNothing ==
  ASSUME NEW u, NEW p, call'[u] # "sent", phase'[u] # "live" \/ tracker'[u] = NoTracker
  PROVE  DriveOK(u, p)'
  BY DEF DriveOK, Drives, Watches

\* A step that goes on with what it did, or forgets it; the agent goes on, too,
\* or its pane is closed.
LEMMA StillDrives ==
  ASSUME NEW u, NEW p, DriveOK(u, p), call'[u] = "sent" => call[u] = "sent",
         target'[u] = target[u],
         tracker'[u] = NoTracker \/ (tracker'[u] = tracker[u] /\ phase'[u] = phase[u]),
         Holds(paneQueue[p], u) => Holds(paneQueue'[p], u),
         turn'[p] \in {turn[p], Nobody}, status'[p] \in {status[p], "none"},
         u \in answered => u \in answered'
  PROVE  DriveOK(u, p)'
<1>1. Drives(u, p)' => Drives(u, p)
  BY DEF Drives, Watches
<1>2. Watches(u, p)' => Watches(u, p) /\ tracker'[u] = tracker[u]
  BY DEF Watches
<1> QED
  BY <1>1, <1>2 DEF DriveOK, Believes

\* A step of s with the agents left alone: the others go on.
LEMMA OthersDrive ==
  ASSUME TypeOK, TurnInv, DriveInv, NEW s \in Steps,
         \A u \in Steps \ {s} :
           /\ call'[u] = call[u] /\ target'[u] = target[u] /\ tracker'[u] = tracker[u]
           /\ phase'[u] = phase[u] \/ (phase[u] = "pending" /\ phase'[u] = "live"),
         \A u \in Steps \ {s}, p \in Panes : Holds(paneQueue[p], u) => Holds(paneQueue'[p], u),
         UNCHANGED agent,
         \A p \in Panes : DriveOK(s, p)',
         phase'[s] = "succeeded" => s \in answered
  PROVE  DriveInv'
<1>1. ASSUME NEW u \in Steps \ {s}, NEW p \in Panes PROVE DriveOK(u, p)'
  <2>1. DriveOK(u, p) /\ StepOK(u)
    BY DEF DriveInv, TurnInv
  <2>2. tracker'[u] = NoTracker \/ (tracker'[u] = tracker[u] /\ phase'[u] = phase[u])
    BY <2>1 DEF StepOK
  <2> QED
    BY <2>1, <2>2, StillDrives DEF agent
<1>2. SucceedsOnOwnAnswer'
  BY DEF SucceedsOnOwnAnswer, DriveInv, agent
<1> QED
  BY <1>1, <1>2 DEF DriveInv

\* Settling changes the phase of one step.
LEMMA SettlesAlone ==
  ASSUME TypeOK, NEW s \in Steps, NEW ph, Settle(s, ph)
  PROVE  phase'[s] = ph /\ \A u \in Steps \ {s} : phase'[u] = phase[u]
  BY DEF Settle, TypeOK

\* The steps of a call that the others do not notice.
LEMMA CallDrive ==
  ASSUME TypeOK, TurnInv, DriveInv, NEW s \in Steps,
         BeginTick(s) \/ GatesEnd(s) \/ GatesOpen(s) \/ OpenFails(s)
  PROVE  DriveInv'
<1>1. call[s] = "none" \/ call[s] \in {"gates", "opening"}
  BY DEF BeginTick, GatesEnd, GatesOpen, OpenFails
<1>2. tracker[s] = NoTracker
  BY DEF TurnInv, StepOK, BeginTick, GatesEnd, GatesOpen, OpenFails
<1>3. /\ call'[s] # "sent" /\ UNCHANGED <<tracker, paneQueue, agent>>
      /\ \A u \in Steps \ {s} : call'[u] = call[u] /\ target'[u] = target[u]
  BY DEF BeginTick, GatesEnd, GatesOpen, OpenFails, TypeOK
<1>4. /\ phase'[s] # "succeeded" \/ phase'[s] = phase[s]
      /\ \A u \in Steps \ {s} : phase'[u] = phase[u] \/ (phase[u] = "pending" /\ phase'[u] = "live")
  <2>1. CASE BeginTick(s)
    BY <2>1 DEF BeginTick
  <2>2. CASE GatesEnd(s) \/ OpenFails(s)
    BY <2>2, SettlesAlone DEF GatesEnd, OpenFails
  <2>3. CASE GatesOpen(s)
    BY <2>3 DEF GatesOpen
  <2> QED
    BY <2>1, <2>2, <2>3
<1>5. \A p \in Panes : DriveOK(s, p)'
  BY <1>2, <1>3, DrivesNothing
<1>6. phase'[s] = "succeeded" => s \in answered
  BY <1>4 DEF DriveInv, SucceedsOnOwnAnswer
<1> QED
  BY <1>3, <1>4, <1>5, <1>6, OthersDrive

LEMMA GatesSendDrive ==
  ASSUME TypeOK, TurnInv, DriveInv, NEW s \in Steps, GatesSend(s)
  PROVE  DriveInv'
<1>q. QueuesOK
  BY QueueTypes
<1>1. tracker[s] = NoTracker
  BY DEF TurnInv, StepOK, GatesSend
<1>2. /\ call'[s] # "sent" /\ UNCHANGED <<target, tracker, agent>>
      /\ \A u \in Steps \ {s} : call'[u] = call[u]
  BY DEF GatesSend, TypeOK
<1>3. \A u \in Steps \ {s}, p \in Panes : Holds(paneQueue[p], u) => Holds(paneQueue'[p], u)
  <2>1. CASE paneQueue' = Release(s, target[s])
    BY <1>q, <2>1, ReleaseThins DEF Thinned
  <2>2. CASE paneQueue' = [paneQueue EXCEPT ![target[s]] = Registered(paneQueue[target[s]], s)]
    BY <1>q, <2>2, RegisterJoins DEF Joined
  <2> QED
    BY <2>1, <2>2 DEF GatesSend
<1>4. /\ phase'[s] # "succeeded" \/ phase'[s] = phase[s]
      /\ \A u \in Steps \ {s} : phase'[u] = phase[u]
  BY SettlesAlone DEF GatesSend
<1>5. \A p \in Panes : DriveOK(s, p)'
  BY <1>1, <1>2, DrivesNothing
<1>6. phase'[s] = "succeeded" => s \in answered
  BY <1>4 DEF DriveInv, SucceedsOnOwnAnswer
<1> QED
  BY <1>2, <1>3, <1>4, <1>5, <1>6, OthersDrive

\* A step that fails gives its pane back.
LEMMA FailsDrive ==
  ASSUME TypeOK, TurnInv, DriveInv, NEW s \in Steps, SendFails(s) \/ TimesOut(s)
  PROVE  DriveInv'
<1>q. QueuesOK
  BY QueueTypes
<1>2. /\ call'[s] = "none" /\ UNCHANGED <<target, tracker, agent>>
      /\ \A u \in Steps \ {s} : call'[u] = call[u]
  BY DEF SendFails, TimesOut, Polled, TypeOK
<1>3. \A u \in Steps \ {s}, p \in Panes : Holds(paneQueue[p], u) => Holds(paneQueue'[p], u)
  BY <1>q, ReleaseThins DEF Thinned, SendFails, TimesOut
<1>4. phase'[s] = "failed" /\ \A u \in Steps \ {s} : phase'[u] = phase[u]
  BY SettlesAlone DEF SendFails, TimesOut
<1>5. \A p \in Panes : DriveOK(s, p)'
  BY <1>2, <1>4, DrivesNothing
<1> QED
  BY <1>2, <1>3, <1>4, <1>5, OthersDrive

LEMMA OpenedDrive ==
  ASSUME TypeOK, TurnInv, DriveInv, NEW s \in Steps, Opened(s)
  PROVE  DriveInv'
<1>q. QueuesOK
  BY QueueTypes
<1>n. panes \in Nat /\ MaxPanes \in Nat
  BY PanesAssumption DEF TypeOK
<1>p. PICK p \in Nat : p = panes + 1
  BY <1>n
<1>1. p \in Panes /\ p > panes
  BY <1>n, <1>p DEF Opened, Panes
<1>2. BuildTracker(p).pane = p
  BY DEF BuildTracker
<1>4. /\ tracker'[s] = BuildTracker(p) /\ call'[s] = "none"
      /\ \A u \in Steps : u # s => tracker'[u] = tracker[u] /\ call'[u] = call[u]
  BY <1>p DEF Opened, TypeOK
<1>5. Joined(paneQueue', p, s)
  BY <1>p, <1>q, RegisterJoins DEF Opened
<1>6. Holds(paneQueue'[p], s) /\ turn[p] = Nobody /\ status[p] = "none"
  BY <1>1, <1>5 DEF Joined, TurnInv, PaneOK
<1>7. UNCHANGED <<phase, target, status, turn, answered>>
  BY DEF Opened
<1>8. ASSUME NEW o \in Panes PROVE DriveOK(s, o)'
  <2>1. Drives(s, o)' => o = p
    BY <1>2, <1>4 DEF Drives, Watches
  <2> QED
    BY <1>6, <1>7, <2>1 DEF DriveOK, Drives
<1>9. ASSUME NEW u \in Steps \ {s}, NEW o \in Panes PROVE DriveOK(u, o)'
  <2>1. DriveOK(u, o)
    BY DEF DriveInv
  <2> QED
    BY <1>4, <1>5, <1>7, <2>1, StillDrives DEF Joined
<1>10. SucceedsOnOwnAnswer'
  BY <1>7 DEF SucceedsOnOwnAnswer, DriveInv
<1> QED
  BY <1>8, <1>9, <1>10 DEF DriveInv

LEMMA DeliverDrive ==
  ASSUME TypeOK, TurnInv, DriveInv, NEW s \in Steps, Deliver(s)
  PROVE  DriveInv'
<1>1. StepOK(s) /\ tracker[s] = NoTracker
  BY DEF TurnInv, StepOK, Deliver
<1>2. call'[s] = "sent" /\ \A u \in Steps : u # s => call'[u] = call[u]
  BY DEF Deliver, TypeOK
<1>3. UNCHANGED <<phase, target, tracker, paneQueue, status, turn, answered>>
  BY DEF Deliver
<1>4. ASSUME NEW o \in Panes PROVE DriveOK(s, o)'
  <2>1. ~Watches(s, o)' /\ (Drives(s, o)' => target[s] = o)
    BY <1>1, <1>3 DEF Drives, Watches
  <2>2. Holds(paneQueue[target[s]], s) /\ turn[target[s]] = Nobody
    BY <1>1 DEF StepOK, Deliver
  <2> QED
    BY <1>3, <2>1, <2>2 DEF DriveOK
<1>5. ASSUME NEW u \in Steps \ {s}, NEW o \in Panes PROVE DriveOK(u, o)'
  <2>1. DriveOK(u, o)
    BY DEF DriveInv
  <2> QED
    BY <1>2, <1>3, <2>1, StillDrives
<1>6. SucceedsOnOwnAnswer'
  BY <1>3 DEF SucceedsOnOwnAnswer, DriveInv
<1> QED
  BY <1>4, <1>5, <1>6 DEF DriveInv

LEMMA SentDrive ==
  ASSUME TypeOK, TurnInv, DriveInv, NEW s \in Steps, Sent(s)
  PROVE  DriveInv'
<1>p. PICK p : p = target[s]
  OBVIOUS
<1>1. ~OwnPane(s) /\ call[s] = "sent"
  BY DEF TurnInv, StepOK, Sent
<1>2. BuildTracker(p).pane = p /\ BuildTracker(p).working = FALSE
  BY DEF BuildTracker
<1>3. /\ tracker'[s] = BuildTracker(p) /\ call'[s] = "none"
      /\ \A u \in Steps : u # s => tracker'[u] = tracker[u] /\ call'[u] = call[u]
  BY <1>p DEF Sent, TypeOK
<1>4. UNCHANGED <<phase, target, paneQueue, agent>>
  BY DEF Sent
<1>5. ASSUME NEW o \in Panes PROVE DriveOK(s, o)'
  <2>1. ~Believes(s)'
    BY <1>1, <1>2, <1>3 DEF Believes, OwnPane
  <2>2. Drives(s, o)' => Drives(s, o)
    BY <1>p, <1>1, <1>2, <1>3 DEF Drives, Watches
  <2>3. DriveOK(s, o)
    BY DEF DriveInv
  <2> QED
    BY <1>4, <2>1, <2>2, <2>3 DEF DriveOK, agent
<1>6. phase'[s] = "succeeded" => s \in answered
  BY <1>4 DEF DriveInv, SucceedsOnOwnAnswer
<1> QED
  BY <1>3, <1>4, <1>5, <1>6, OthersDrive

LEMMA PollWorkingDrive ==
  ASSUME TypeOK, TurnInv, DriveInv, NEW s \in Steps, PollWorking(s)
  PROVE  DriveInv'
<1>1. /\ \A u \in Steps : u # s => tracker'[u] = tracker[u]
      /\ tracker'[s].pane = tracker[s].pane
  BY DEF PollWorking, TypeOK, Tracker
<1>2. UNCHANGED <<phase, call, target, paneQueue, agent>>
  BY DEF PollWorking
<1>3. ASSUME NEW o \in Panes PROVE DriveOK(s, o)'
  <2>1. Watches(s, o)' => Watches(s, o) /\ status[o] = "working"
    BY <1>1, <1>2 DEF Watches, PollWorking, Polled
  <2>2. DriveOK(s, o)
    BY DEF DriveInv
  <2> QED
    BY <1>2, <2>1, <2>2 DEF DriveOK, Drives, agent
<1>4. phase'[s] = "succeeded" => s \in answered
  BY <1>2 DEF DriveInv, SucceedsOnOwnAnswer
<1> QED
  BY <1>1, <1>2, <1>3, <1>4, OthersDrive

\* The answer that the step succeeds with.
LEMMA PollDoneDrive ==
  ASSUME TypeOK, TurnInv, DriveInv, NEW s \in Steps, PollDone(s)
  PROVE  DriveInv'
<1>q. QueuesOK
  BY QueueTypes
<1>p. PICK p \in Panes : p = tracker[s].pane
  BY StepTypes DEF TurnInv, StepOK, PollDone, Polled
<1>1. Watches(s, p) /\ Believes(s) /\ status[p] = "done" /\ call[s] = "none"
  BY <1>p DEF Watches, PollDone, Polled
<1>2. s \in answered
  BY <1>1 DEF DriveInv, DriveOK
<1>3. UNCHANGED <<call, target, agent>>
  BY DEF PollDone
<1>4. CASE /\ tracker' = [tracker EXCEPT ![s].done = TRUE]
           /\ UNCHANGED <<phase, paneQueue>>
  <2>1. \A u \in Steps : u # s => tracker'[u] = tracker[u]
    BY <1>4 DEF TypeOK
  <2>2. tracker'[s].pane = tracker[s].pane
    BY <1>4 DEF TypeOK, Tracker
  <2>3. ASSUME NEW o \in Panes PROVE DriveOK(s, o)'
    <3>1. Watches(s, o)' => Watches(s, o)
      BY <1>1, <1>4, <2>2 DEF Watches
    <3>2. DriveOK(s, o)
      BY DEF DriveInv
    <3> QED
      BY <1>2, <1>3, <1>4, <3>1, <3>2 DEF DriveOK, Drives, agent
  <2> QED
    BY <1>2, <1>3, <1>4, <2>1, <2>3, OthersDrive
<1>5. CASE Settle(s, "succeeded") /\ paneQueue' = Release(s, p) /\ UNCHANGED tracker
  <2>1. phase'[s] = "succeeded" /\ \A u \in Steps \ {s} : phase'[u] = phase[u]
    BY <1>5, SettlesAlone
  <2>2. \A o \in Panes : DriveOK(s, o)'
    BY <1>1, <1>3, <2>1, DrivesNothing
  <2>3. \A u \in Steps \ {s}, o \in Panes : Holds(paneQueue[o], u) => Holds(paneQueue'[o], u)
    BY <1>q, <1>5, ReleaseThins DEF Thinned
  <2> QED
    BY <1>2, <1>3, <1>5, <2>1, <2>2, <2>3, OthersDrive
<1> QED
  BY <1>p, <1>4, <1>5 DEF PollDone

\* A run is ended in a quiet moment, or by the throw of a step.
LEMMA HaltedDrive ==
  ASSUME TypeOK, DriveInv, NEW r, phase' = Halted(r),
         \A u \in StepsOf(r) : call'[u] = "none",
         \A u \in Steps \ StepsOf(r) : call'[u] = call[u] /\ tracker'[u] = tracker[u],
         \A t \in Steps \ StepsOf(r), p \in Panes :
           Holds(paneQueue[p], t) => Holds(paneQueue'[p], t),
         UNCHANGED <<target, agent>>
  PROVE  DriveInv'
<1>1. ASSUME NEW u \in Steps, NEW p \in Panes PROVE DriveOK(u, p)'
  <2>1. CASE u \in StepsOf(r)
    <3>1. phase'[u] # "live" /\ call'[u] # "sent"
      BY <2>1 DEF Halted, StepsOf
    <3> QED
      BY <3>1, DrivesNothing
  <2>2. CASE u \notin StepsOf(r)
    <3>1. phase'[u] = phase[u] /\ DriveOK(u, p)
      BY <2>2 DEF Halted, StepsOf, DriveInv
    <3> QED
      BY <2>2, <3>1, StillDrives DEF agent
  <2> QED
    BY <2>1, <2>2
<1>2. SucceedsOnOwnAnswer'
  BY DEF SucceedsOnOwnAnswer, DriveInv, Halted, agent
<1> QED
  BY <1>1, <1>2 DEF DriveInv

LEMMA RunEndsDrive ==
  ASSUME TypeOK, DriveInv, ~Hasty,
         (\E r \in Runs : CancelRun(r)) \/ (\E s \in Steps : Throws(s))
  PROVE  DriveInv'
<1>q. QueuesOK
  BY QueueTypes
<1>1. ASSUME NEW r, paneQueue' = ReleaseRun(r)
      PROVE  \A t \in Steps \ StepsOf(r), p \in Panes :
               Holds(paneQueue[p], t) => Holds(paneQueue'[p], t)
  BY <1>q, <1>1, ReleaseRunThins DEF Thinned
<1>2. ASSUME NEW r \in Runs, CancelRun(r) PROVE DriveInv'
  <2>1. /\ \A u \in StepsOf(r) : call'[u] = "none"
        /\ \A u \in Steps \ StepsOf(r) : call'[u] = call[u] /\ tracker'[u] = tracker[u]
    BY <1>2 DEF CancelRun, Quiet, StepsOf
  <2>2. phase' = Halted(r) /\ paneQueue' = ReleaseRun(r) /\ UNCHANGED <<target, agent>>
    BY <1>2 DEF CancelRun
  <2> QED
    BY <1>1, <2>1, <2>2, HaltedDrive
<1>3. ASSUME NEW s \in Steps, Throws(s) PROVE DriveInv'
  <2> DEFINE r == RunOf[s]
  <2>1. phase' = Halted(r) /\ paneQueue' = ReleaseRun(r) /\ UNCHANGED <<target, tracker, agent>>
    BY <1>3 DEF Throws
  <2>2. /\ \A u \in StepsOf(r) : call'[u] = "none"
        /\ \A u \in Steps \ StepsOf(r) : call'[u] = call[u]
    BY <1>3 DEF Throws, StepsOf, TypeOK
  <2> HIDE DEF r
  <2> QED
    BY <1>1, <2>1, <2>2, HaltedDrive
<1> QED
  BY <1>2, <1>3

LEMMA DropDrive ==
  ASSUME TypeOK, DriveInv, ~Hasty, NEW r, NEW D \in SUBSET StepsOf(r), Drop(r, D),
         \A u \in D : phase'[u] # "succeeded",
         \A u \in Steps \ D : phase'[u] = phase[u]
  PROVE  DriveInv'
<1>q. QueuesOK
  BY QueueTypes
<1>1. Thinned(paneQueue', Dropped(D)) /\ D \subseteq Steps
  BY <1>q, DropThins DEF StepsOf
<1>2. /\ \A u \in D : tracker'[u] = NoTracker /\ call'[u] = "none"
      /\ \A u \in Steps \ D : tracker'[u] = tracker[u]
      /\ UNCHANGED <<call, target>> /\ answered' = answered \ D
  BY <1>1 DEF Drop, Quiet
<1>3. \A p \in Panes : turn'[p] \in {turn[p], Nobody} /\ status'[p] \in {status[p], "none"}
  BY DEF Drop
<1>4. \A u \in Steps \ D, p \in Panes : Holds(paneQueue[p], u) => Holds(paneQueue'[p], u)
  BY <1>1 DEF Thinned, Dropped
<1>5. ASSUME NEW u \in Steps, NEW p \in Panes PROVE DriveOK(u, p)'
  <2>1. CASE u \in D
    BY <1>2, <2>1, DrivesNothing
  <2>2. CASE u \notin D
    <3>1. DriveOK(u, p)
      BY DEF DriveInv
    <3> QED
      BY <1>2, <1>3, <1>4, <2>2, <3>1, StillDrives
  <2> QED
    BY <2>1, <2>2
<1>6. SucceedsOnOwnAnswer'
  BY <1>2 DEF SucceedsOnOwnAnswer, DriveInv
<1> QED
  BY <1>5, <1>6 DEF DriveInv

LEMMA RetryDrive ==
  ASSUME TypeOK, DriveInv, ~Hasty, NEW s \in Steps, RetryFrom(s) \/ RetrySibling(s)
  PROVE  DriveInv'
<1>1. CASE RetryFrom(s)
  <2>1. /\ \A u \in Later(s) : phase'[u] # "succeeded"
        /\ \A u \in Steps \ Later(s) : phase'[u] = phase[u]
    BY <1>1, LaterInRun DEF RetryFrom, StepsOf
  <2> QED
    BY <1>1, <2>1, LaterInRun, DropDrive DEF RetryFrom
<1>2. CASE RetrySibling(s)
  <2> DEFINE D == (Later(s) \ Siblings(s)) \cup {s}
  <2>1. /\ \A u \in D : phase'[u] # "succeeded"
        /\ \A u \in Steps \ D : phase'[u] = phase[u]
    BY <1>2, LaterInRun DEF RetrySibling, StepsOf
  <2>2. Drop(RunOf[s], D) /\ D \in SUBSET StepsOf(RunOf[s])
    BY <1>2, LaterInRun DEF RetrySibling
  <2> HIDE DEF D
  <2> QED
    BY <2>1, <2>2, DropDrive
<1> QED
  BY <1>1, <1>2

LEMMA RestartDrive ==
  ASSUME TypeOK, DriveInv, Restart
  PROVE  DriveInv'
<1>1. \A u \in Steps : call'[u] # "sent" /\ tracker'[u] = NoTracker
  BY DEF Restart
<1>2. \A u \in Steps, p \in Panes : DriveOK(u, p)'
  BY <1>1, DrivesNothing
<1>3. SucceedsOnOwnAnswer'
  BY DEF SucceedsOnOwnAnswer, DriveInv, Restart
<1> QED
  BY <1>2, <1>3 DEF DriveInv

\* The agent takes the prompt of the step that holds its pane, and reports to be
\* done with that one.
LEMMA AgentDrive ==
  ASSUME TypeOK, TurnInv, DriveInv, NEW p \in Panes, Agent(p) \/ AsksUser(p)
  PROVE  DriveInv'
<1>1. /\ UNCHANGED <<phase, call, target, tracker, paneQueue>> /\ answered \subseteq answered'
      /\ \A o \in Panes : o # p => turn'[o] = turn[o] /\ status'[o] = status[o]
  BY DEF Agent, Takes, Finishes, UserAnswers, AsksUser, TypeOK
<1>2. ASSUME NEW s \in Steps, Drives(s, p) PROVE turn'[p] \in {Nobody, s}
  <2>1. Holds(paneQueue[p], s) /\ turn[p] \in {Nobody, s}
    BY <1>2 DEF DriveInv, DriveOK
  <2>2. CASE Takes(p)
    <3>1. PICK u \in Steps : inbox[p] = <<u>> /\ Sender(u, p)
      BY <2>2 DEF Takes, TurnInv, PaneOK
    <3>2. u = s /\ Head(<<u>>) = u
      BY <2>1, <3>1 DEF Sender, Holds
    <3> QED
      BY <2>2, <3>1, <3>2 DEF Takes, TypeOK
  <2>3. CASE Finishes(p) \/ UserAnswers(p) \/ AsksUser(p)
    BY <2>1, <2>3 DEF Finishes, UserAnswers, AsksUser, TypeOK
  <2> QED
    BY <2>2, <2>3 DEF Agent
<1>3. ASSUME NEW s \in Steps, Drives(s, p), status'[p] = "done" PROVE s \in answered'
  <2>1. Finishes(p)
    BY <1>3 DEF Agent, Takes, UserAnswers, AsksUser, TypeOK
  <2>2. turn[p] = s
    BY <1>3, <2>1 DEF DriveInv, DriveOK, Finishes
  <2> QED
    BY <2>1, <2>2 DEF Finishes
<1>4. ASSUME NEW s \in Steps, NEW o \in Panes PROVE DriveOK(s, o)'
  <2>1. DriveOK(s, o)
    BY DEF DriveInv
  <2>2. Drives(s, o)' = Drives(s, o) /\ (Watches(s, o)' => Watches(s, o)) /\ (Believes(s)' => Believes(s))
    BY <1>1 DEF Drives, Watches, Believes
  <2>3. CASE o = p
    BY <1>1, <1>2, <1>3, <2>1, <2>2, <2>3 DEF DriveOK, Drives
  <2>4. CASE o # p
    BY <1>1, <2>1, <2>2, <2>4 DEF DriveOK
  <2> QED
    BY <2>3, <2>4
<1>5. SucceedsOnOwnAnswer'
  BY <1>1 DEF SucceedsOnOwnAnswer, DriveInv
<1> QED
  BY <1>4, <1>5 DEF DriveInv

LEMMA StutterDrive == DriveInv /\ UNCHANGED vars => DriveInv'
  BY DEF DriveInv, DriveOK, Drives, Watches, Believes, SucceedsOnOwnAnswer, vars, agent

LEMMA NextDrive ==
  ASSUME TypeOK, TurnInv, DriveInv, ~Hasty, [Next]_vars
  PROVE  DriveInv'
<1>1. ASSUME NEW s \in Steps, Runner(s) PROVE DriveInv'
  BY <1>1, CallDrive, GatesSendDrive, PollWorkingDrive, PollDoneDrive DEF Runner
<1>2. ASSUME NEW s \in Steps, Renderer(s) PROVE DriveInv'
  BY <1>2, OpenedDrive, CallDrive, DeliverDrive, SentDrive, FailsDrive DEF Renderer
<1> QED
  BY <1>1, <1>2, FailsDrive, RunEndsDrive, RetryDrive, AgentDrive, RestartDrive, StutterDrive
     DEF Next

\* Unless somebody interferes in the middle of a call, a step that succeeds does
\* so with the answer to its own prompt, not with a done report that was there
\* before it (run-prompt-runner.ts:489).
THEOREM SuccessIsOwnAnswer == ASSUME ~Hasty PROVE Spec => []SucceedsOnOwnAnswer
<1>1. Init => TypeOK /\ TurnInv /\ DriveInv
  BY InitType, InitTurn, InitDrive
<1>2. TypeOK /\ TurnInv /\ DriveInv /\ [Next]_vars => TurnInv' /\ DriveInv'
  BY NextTurn, NextDrive
<1>3. DriveInv => SucceedsOnOwnAnswer
  BY DEF DriveInv
<1> QED
  BY <1>1, <1>2, <1>3, PaneTypeCorrect, PTL DEF Spec

-----------------------------------------------------------------------------
(* The order of a run's steps *)

EarlierDone(s) == \A u \in Before[s] : RunOf[u] = RunOf[s] => phase[u] \in Done
SameRun(s) == RunOf[Ref[s]] = RunOf[s]

\* A step starts when its run is done with the steps before it; the pane it was
\* told then is the one that is published still.
OrderOK(s) ==
  /\ phase[s] # "pending" => EarlierDone(s)
  /\ call[s] # "none" => phase[s] = "live" /\ Running(RunOf[s])
  /\ call[s] # "none" /\ ~OwnPane(s) /\ SameRun(s) => target[s] = out[Ref[s]]

OrderInv == \A s \in Steps : OrderOK(s)

\* Where a step of the same run is: before s, beside it, or later.
LEMMA Positions ==
  ASSUME NEW s \in Steps, NEW u \in StepsOf(RunOf[s])
  PROVE  /\ u \in Steps /\ RunOf[u] = RunOf[s]
         /\ u \in Later(s) <=> u \notin Before[s]
         /\ u \in Siblings(s) <=> Before[u] = Before[s]
         /\ u \in Siblings(s) => Later(u) = Later(s)
         /\ u \notin Before[s] /\ s \notin Before[u] => u \in Siblings(s)
         /\ u \in Before[s] => s \notin Before[u] /\ Before[u] \subseteq Before[s]
         /\ s \in Before[u] => u \in Later(s) \ Siblings(s)
         /\ s \notin Before[s] /\ s \notin Before[u] => Before[u] \subseteq Before[s]
<1>1. u \in Steps /\ RunOf[u] = RunOf[s]
  BY DEF StepsOf
<1>2. /\ s \notin Before[s] /\ u \notin Before[u]
      /\ u \in Before[s] => Before[u] \subseteq Before[s]
      /\ s \in Before[u] => Before[s] \subseteq Before[u]
      /\ s \in Before[u] \/ u \in Before[s] \/ Before[u] = Before[s]
  BY <1>1, PanesAssumption
<1>3. StepsOf(RunOf[u]) = StepsOf(RunOf[s])
  BY <1>1
<1> QED
  BY <1>1, <1>2, <1>3 DEF Later, Siblings

LEMMA InitOrder == Init => OrderInv
  BY DEF Init, OrderInv, OrderOK

LEMMA BeginTickOrder ==
  ASSUME TypeOK, OrderInv, NEW s \in Steps, BeginTick(s)
  PROVE  OrderInv'
<1>1. /\ call'[s] = "gates" /\ Running(RunOf[s]) /\ UNCHANGED <<ended, out>>
      /\ \A u \in Steps : u # s => call'[u] = call[u] /\ target'[u] = target[u]
  BY DEF BeginTick, TypeOK
<1>2. ~OwnPane(s) /\ SameRun(s) => target'[s] = out[Ref[s]]
  BY DEF BeginTick, TypeOK, SameRun
<1>3. /\ \A u \in Steps : /\ phase[u] # "pending" => phase'[u] = phase[u]
                          /\ u \in Siblings(s) => phase'[u] # "pending"
                          /\ u \notin Siblings(s) => phase'[u] = phase[u]
      /\ \A u \in Before[s] : phase[u] \in Done /\ u \in Steps
  BY PanesAssumption DEF BeginTick
<1>4. phase'[s] = "live"
  BY LaterInRun DEF BeginTick
<1>5. ASSUME NEW u \in Steps PROVE OrderOK(u)'
  <2>1. OrderOK(u)
    BY DEF OrderInv
  <2>2. EarlierDone(u) => EarlierDone(u)'
    BY <1>3, PanesAssumption DEF EarlierDone, Done
  <2>3. phase'[u] # "pending" => EarlierDone(u)
    <3>1. CASE u \in Siblings(s)
      BY <1>3, <3>1 DEF EarlierDone, Siblings
    <3>2. CASE u \notin Siblings(s)
      BY <1>3, <2>1, <3>2 DEF OrderOK
    <3> QED
      BY <3>1, <3>2
  <2>4. CASE u = s
    BY <1>1, <1>2, <1>4, <2>2, <2>3, <2>4 DEF OrderOK, Running
  <2>5. CASE u # s
    <3>1. call'[u] # "none" => phase'[u] = "live" /\ Running(RunOf[u])
      BY <1>1, <1>3, <2>1, <2>5 DEF OrderOK
    <3> QED
      BY <1>1, <2>1, <2>2, <2>3, <2>5, <3>1 DEF OrderOK, Running
  <2> QED
    BY <2>4, <2>5
<1> QED
  BY <1>5 DEF OrderInv

\* A run does not end while one of its steps is live.
LEMMA SettleEnds ==
  ASSUME NEW s \in Steps, NEW ph, Settle(s, ph),
         NEW u \in Steps, Running(RunOf[u]), RunOf[u] = RunOf[s] => phase'[u] = "live"
  PROVE  Running(RunOf[u])'
  BY DEF Settle, Running, StepsOf

LEMMA SettleOrder ==
  ASSUME TypeOK, OrderInv, NEW s \in Steps, phase[s] = "live", NEW ph \in Phases \ {"pending"},
         Settle(s, ph), call'[s] = "none",
         \A u \in Steps \ {s} : call'[u] = call[u] /\ out'[u] = out[u],
         UNCHANGED target
  PROVE  OrderInv'
<1>1. phase'[s] = ph /\ \A u \in Steps \ {s} : phase'[u] = phase[u]
  BY SettlesAlone
<1>2. \A u \in Steps : phase[u] # "pending" /\ RunOf[s] = RunOf[u] => s \notin Before[u]
  BY DEF OrderInv, OrderOK, EarlierDone, Done
<1>3. ASSUME NEW u \in Steps PROVE OrderOK(u)'
  <2>1. OrderOK(u)
    BY DEF OrderInv
  <2>2. phase'[u] # "pending" => EarlierDone(u)'
    <3>1. SUFFICES ASSUME phase'[u] # "pending" PROVE EarlierDone(u)'
      OBVIOUS
    <3>2. phase[u] # "pending"
      BY <1>1, <3>1
    <3>3. EarlierDone(u)
      BY <2>1, <3>2 DEF OrderOK
    <3> QED
      BY <1>1, <1>2, <3>2, <3>3, PanesAssumption DEF EarlierDone
  <2>3. call'[u] # "none" => /\ u # s /\ call[u] # "none"
                             /\ phase'[u] = "live" /\ Running(RunOf[u])
    BY <1>1, <2>1 DEF OrderOK
  <2>4. call'[u] # "none" => Running(RunOf[u])'
    BY <2>3, SettleEnds
  <2>5. call'[u] # "none" /\ ~OwnPane(u) /\ SameRun(u) => target'[u] = out'[Ref[u]]
    <3>1. SUFFICES ASSUME call'[u] # "none", ~OwnPane(u), SameRun(u)
                   PROVE  target'[u] = out'[Ref[u]]
      OBVIOUS
    <3>2. Ref[u] \in Before[u] /\ Ref[u] \in Steps
      BY <3>1, PanesAssumption DEF OwnPane
    <3>3. phase[u] # "pending"
      BY <2>3, <3>1, <2>1 DEF OrderOK
    <3>4. Ref[u] # s
      BY <1>2, <3>1, <3>2, <3>3 DEF SameRun
    <3> QED
      BY <2>1, <2>3, <3>1, <3>2, <3>4 DEF OrderOK
  <2> QED
    BY <2>2, <2>3, <2>4, <2>5 DEF OrderOK
<1> QED
  BY <1>3 DEF OrderInv

\* Nothing changes but where the calls stand.
LEMMA CallOrder ==
  ASSUME OrderInv,
         \A u \in Steps : call'[u] # "none" => call[u] # "none",
         UNCHANGED <<phase, ended, target, out>>
  PROVE  OrderInv'
  BY DEF OrderInv, OrderOK, EarlierDone, Running

LEMMA StepOrder ==
  ASSUME TypeOK, OrderInv, NEW s \in Steps, Runner(s) \/ Renderer(s) \/ TimesOut(s)
  PROVE  OrderInv'
<1>t. call \in [Steps -> {"none", "gates", "opening", "sending", "sent"}]
  BY DEF TypeOK
<1>0. OrderOK(s)
  BY DEF OrderInv
<1>1. CASE BeginTick(s)
  BY <1>1, BeginTickOrder
<1>2. CASE GatesEnd(s) \/ OpenFails(s) \/ SendFails(s) \/ TimesOut(s)
  <2>1. /\ phase[s] = "live" /\ call'[s] = "none" /\ UNCHANGED <<target, out>>
        /\ \A u \in Steps \ {s} : call'[u] = call[u]
    BY <1>t, <1>0, <1>2 DEF OrderOK, GatesEnd, OpenFails, SendFails, TimesOut, Polled
  <2>2. Settle(s, "failed") \/ Settle(s, "skipped")
    BY <1>2 DEF GatesEnd, OpenFails, SendFails, TimesOut
  <2> QED
    BY <2>1, <2>2, SettleOrder DEF Phases
<1>3. CASE GatesSend(s)
  <2>1. /\ phase[s] = "live" /\ UNCHANGED <<target, out>>
        /\ \A u \in Steps \ {s} : call'[u] = call[u]
    BY <1>t, <1>0, <1>3 DEF OrderOK, GatesSend
  <2>2. CASE Settle(s, "failed") /\ call'[s] = "none"
    BY <2>1, <2>2, SettleOrder DEF Phases
  <2>3. CASE UNCHANGED <<phase, ended>>
    <3>1. call[s] # "none"
      BY <1>3 DEF GatesSend
    <3> QED
      BY <2>1, <2>3, <3>1, CallOrder
  <2> QED
    BY <1>t, <1>3, <2>2, <2>3 DEF GatesSend
<1>4. CASE GatesOpen(s) \/ Opened(s) \/ Deliver(s) \/ Sent(s) \/ PollWorking(s)
  <2>1. UNCHANGED <<phase, ended, target, out>>
    BY <1>4 DEF GatesOpen, Opened, Deliver, Sent, PollWorking
  <2>2. \A u \in Steps : call'[u] # "none" => call[u] # "none"
    BY <1>t, <1>4 DEF GatesOpen, Opened, Deliver, Sent, PollWorking
  <2> QED
    BY <2>1, <2>2, CallOrder
<1>5. CASE PollDone(s)
  <2>1. phase[s] = "live" /\ call[s] = "none" /\ UNCHANGED <<call, target>>
    BY <1>5 DEF PollDone, Polled
  <2>2. CASE UNCHANGED <<phase, ended, out>>
    BY <2>1, <2>2, CallOrder
  <2>3. CASE Settle(s, "succeeded") /\ out' = [out EXCEPT ![s] = tracker[s].pane]
    <3>1. \A u \in Steps \ {s} : out'[u] = out[u]
      BY <2>3 DEF TypeOK
    <3> QED
      BY <2>1, <2>3, <3>1, SettleOrder DEF Phases
  <2> QED
    BY <1>5, <2>2, <2>3 DEF PollDone
<1> QED
  BY <1>1, <1>2, <1>3, <1>4, <1>5 DEF Runner, Renderer

\* Ending a run touches no step that is done.
LEMMA HaltedOrder ==
  ASSUME TypeOK, OrderInv, NEW r, phase' = Halted(r), ended' = ended \cup {r},
         \A u \in StepsOf(r) : call'[u] = "none",
         \A u \in Steps \ StepsOf(r) : call'[u] = call[u],
         UNCHANGED <<target, out>>
  PROVE  OrderInv'
<1>1. \A u \in Steps : /\ phase'[u] # "pending" => phase[u] # "pending"
                       /\ phase[u] \in Done => phase'[u] \in Done
                       /\ u \notin StepsOf(r) => phase'[u] = phase[u]
  BY DEF Halted, Done, StepsOf
<1>2. ASSUME NEW u \in Steps PROVE OrderOK(u)'
  <2>1. OrderOK(u)
    BY DEF OrderInv
  <2>2. EarlierDone(u) => EarlierDone(u)'
    BY <1>1, PanesAssumption DEF EarlierDone
  <2>3. call'[u] # "none" => call[u] # "none" /\ u \notin StepsOf(r) /\ RunOf[u] # r
    BY DEF StepsOf
  <2>4. Running(RunOf[u]) /\ RunOf[u] # r => Running(RunOf[u])'
    BY DEF Running
  <2> QED
    BY <1>1, <2>1, <2>2, <2>3, <2>4 DEF OrderOK
<1> QED
  BY <1>2 DEF OrderInv

LEMMA RunEndsOrder ==
  ASSUME TypeOK, OrderInv, ~Hasty,
         (\E r \in Runs : CancelRun(r)) \/ (\E s \in Steps : Throws(s))
  PROVE  OrderInv'
<1>1. ASSUME NEW r \in Runs, CancelRun(r) PROVE OrderInv'
  <2>1. /\ \A u \in StepsOf(r) : call'[u] = "none"
        /\ \A u \in Steps \ StepsOf(r) : call'[u] = call[u]
    BY <1>1 DEF CancelRun, Quiet
  <2>2. phase' = Halted(r) /\ ended' = ended \cup {r} /\ UNCHANGED <<target, out>>
    BY <1>1 DEF CancelRun
  <2> QED
    BY <2>1, <2>2, HaltedOrder
<1>2. ASSUME NEW s \in Steps, Throws(s) PROVE OrderInv'
  <2> DEFINE r == RunOf[s]
  <2>1. /\ \A u \in StepsOf(r) : call'[u] = "none"
        /\ \A u \in Steps \ StepsOf(r) : call'[u] = call[u]
    BY <1>2 DEF Throws, StepsOf, TypeOK
  <2>2. phase' = Halted(r) /\ ended' = ended \cup {r} /\ UNCHANGED <<target, out>>
    BY <1>2 DEF Throws
  <2> HIDE DEF r
  <2> QED
    BY <2>1, <2>2, HaltedOrder
<1> QED
  BY <1>1, <1>2

\* Only what has started is retried.
LEMMA RetryStarted ==
  ASSUME NEW s \in Steps, CanRetry(s)
  PROVE  phase[s] # "pending" /\ s \in Retryable
  BY DEF CanRetry, Done

\* A retry leaves what is before the step, and makes nothing start that was not
\* to start: what is later is pending again.
LEMMA RetryOrder ==
  ASSUME TypeOK, OrderInv, ~Hasty, NEW s \in Steps, RetryFrom(s) \/ RetrySibling(s)
  PROVE  OrderInv'
<1> DEFINE r == RunOf[s]
<1>1. Quiet(r) /\ ended' = ended \ {r} /\ UNCHANGED <<call, target, out>> /\ CanRetry(s)
  BY DEF RetryFrom, RetrySibling, Drop
<1>2. \A u \in Steps : u \notin Later(s) => phase'[u] = phase[u]
  BY LaterInRun DEF RetryFrom, RetrySibling
<1>3. \A u \in Later(s) : phase'[u] = "pending" \/ u \in Siblings(s)
  BY LaterInRun DEF RetryFrom, RetrySibling, StepsOf
<1>4. OrderOK(s)
  BY DEF OrderInv
<1>5. EarlierDone(s)
  BY <1>1, <1>4, RetryStarted DEF OrderOK
<1>6. \A u \in Before[s] : u \in Steps /\ u \notin Later(s)
  BY PanesAssumption DEF Later
<1>7. ASSUME NEW u \in Steps PROVE OrderOK(u)'
  <2>1. OrderOK(u)
    BY DEF OrderInv
  <2>2. CASE u \notin StepsOf(r)
    <3>1. u \notin Later(s) /\ RunOf[u] # r
      BY <2>2 DEF Later, StepsOf
    <3>2. \A v \in Steps : RunOf[v] = RunOf[u] => phase'[v] = phase[v]
      BY <1>2, <3>1 DEF Later, StepsOf
    <3>3. EarlierDone(u) => EarlierDone(u)'
      BY <3>2, PanesAssumption DEF EarlierDone
    <3>4. Running(RunOf[u]) => Running(RunOf[u])'
      BY <1>1 DEF Running
    <3>5. phase'[u] = phase[u]
      BY <3>2
    <3> QED
      BY <1>1, <2>1, <3>3, <3>4, <3>5 DEF OrderOK
  <2>3. CASE u \in StepsOf(r)
    <3>1. call'[u] = "none"
      BY <1>1, <2>3 DEF Quiet
    <3>2. SUFFICES ASSUME phase'[u] # "pending" PROVE EarlierDone(u)'
      BY <3>1 DEF OrderOK
    <3>3. Before[u] \subseteq Before[s]
      BY <1>3, <2>3, <3>2, Positions
    <3>4. RunOf[u] = RunOf[s]
      BY <2>3 DEF StepsOf
    <3> QED
      BY <1>2, <1>5, <1>6, <3>3, <3>4 DEF EarlierDone
  <2> QED
    BY <2>2, <2>3
<1> QED
  BY <1>7 DEF OrderInv

LEMMA NextOrder ==
  ASSUME TypeOK, OrderInv, ~Hasty, [Next]_vars
  PROVE  OrderInv'
<1>1. ASSUME NEW p \in Panes, Agent(p) \/ AsksUser(p) PROVE OrderInv'
  <2>1. UNCHANGED <<phase, ended, call, target, out>>
    BY <1>1 DEF Agent, Takes, Finishes, UserAnswers, AsksUser
  <2> QED
    BY <2>1, CallOrder
<1>2. ASSUME Restart PROVE OrderInv'
  <2>1. UNCHANGED <<phase, ended, target, out>> /\ \A u \in Steps : call'[u] = "none"
    BY <1>2 DEF Restart
  <2> QED
    BY <2>1, CallOrder
<1>3. ASSUME UNCHANGED vars PROVE OrderInv'
  <2>1. UNCHANGED <<phase, ended, call, target, out>>
    BY <1>3 DEF vars
  <2> QED
    BY <2>1, CallOrder
<1> QED
  BY <1>1, <1>2, <1>3, StepOrder, RunEndsOrder, RetryOrder DEF Next

-----------------------------------------------------------------------------
(* Nobody waits for a step that does not go on *)

\* Whose token is in a queue still wants that pane: it watches it, or it was
\* last told to use it and would be told so again.  A token that is left of an
\* earlier attempt belongs to the step that the run comes to next.
Token(s, p) ==
  /\ phase[s] \in {"pending", "live"} /\ Running(RunOf[s])
  /\ tracker[s] # NoTracker => tracker[s].pane = p
  /\ tracker[s] = NoTracker => /\ ~OwnPane(s) /\ target[s] = p
                               /\ SameRun(s) => out[Ref[s]] = p
  /\ phase[s] = "pending" => EarlierDone(s) /\ \A u \in Later(s) : phase[u] = "pending"

TokenInv == \A p \in Panes : \A s \in ToSet(paneQueue[p]) : Token(s, p)

\* A step gives its pane back when it is dropped only if it has a tracker, that
\* is, if its prompt is in the pane.  A waiting step that a retry goes back past
\* keeps its token, and the token outlives the run if the run fails before it
\* comes to the step again.  So: no step may be retried that has a step after it
\* which waits for another step's pane.
RetryStays == \A s \in Retryable : \A u \in Later(s) \ Siblings(s) : OwnPane(u)

LEMMA TokensAreSteps ==
  ASSUME TypeOK, NEW p \in Panes
  PROVE  ToSet(paneQueue[p]) \subseteq Steps
  BY DEF TypeOK, ToSet

LEMMA HolderHasToken ==
  ASSUME TypeOK, TokenInv
  PROVE  NoDeadHolder
<1>1. SUFFICES ASSUME NEW p \in Panes, paneQueue[p] # <<>>
               PROVE  Token(Head(paneQueue[p]), p)
  BY DEF NoDeadHolder, Token
<1>2. paneQueue[p] \in Seq(Steps)
  BY DEF TypeOK
<1>3. 1 \in DOMAIN paneQueue[p] /\ Head(paneQueue[p]) = paneQueue[p][1]
  BY <1>1, <1>2
<1>4. Head(paneQueue[p]) \in ToSet(paneQueue[p])
  BY <1>3 DEF ToSet
<1> QED
  BY <1>4 DEF TokenInv

LEMMA InitToken == Init => TokenInv
  BY DEF Init, TokenInv, ToSet

\* A token that was left is of a run with no live step: what is before its step
\* is done and the rest has not started.
LEMMA LeftTokenAlone ==
  ASSUME NEW t \in Steps, NEW p, Token(t, p), phase[t] = "pending",
         NEW s \in Steps, RunOf[s] = RunOf[t]
  PROVE  phase[s] \in Done \cup {"pending"}
<1>1. s \in StepsOf(RunOf[t])
  BY DEF StepsOf
<1>2. s \in Before[t] \/ s \in Later(t)
  BY <1>1 DEF Later
<1> QED
  BY <1>2 DEF Token, EarlierDone

\* A token is kept by what changes neither its step nor, while that is pending,
\* the steps of its run.
LEMMA TokenKept ==
  ASSUME NEW t \in Steps, NEW p, Token(t, p),
         phase'[t] = phase[t], Running(RunOf[t])', tracker'[t] = tracker[t],
         target'[t] = target[t], ~OwnPane(t) /\ SameRun(t) => out'[Ref[t]] = out[Ref[t]],
         phase[t] = "pending" =>
           \A u \in Steps : RunOf[u] = RunOf[t] => phase'[u] = phase[u]
  PROVE  Token(t, p)'
<1>1. phase[t] = "pending" =>
        /\ \A u \in Before[t] : RunOf[u] = RunOf[t] => phase'[u] = phase[u]
        /\ \A u \in Later(t) : phase'[u] = phase[u]
  BY PanesAssumption DEF Later, StepsOf
<1> QED
  BY <1>1 DEF Token, EarlierDone

\* The step of s leaves the queues' other tokens where they are.
LEMMA OthersTokens ==
  ASSUME TypeOK, TokenInv, NEW s \in Steps,
         \A p \in Panes : ToSet(paneQueue'[p]) \subseteq ToSet(paneQueue[p]) \cup {s},
         \A p \in Panes : s \in ToSet(paneQueue'[p]) => Token(s, p)',
         \A t \in Steps \ {s}, p \in Panes : Token(t, p) => Token(t, p)'
  PROVE  TokenInv'
<1>1. ASSUME NEW p \in Panes, NEW t \in ToSet(paneQueue'[p]) PROVE Token(t, p)'
  <2>1. CASE t = s
    BY <2>1
  <2>2. CASE t # s
    <3>1. t \in ToSet(paneQueue[p]) /\ t \in Steps
      BY <2>2, TokensAreSteps
    <3> QED
      BY <2>2, <3>1 DEF TokenInv
  <2> QED
    BY <2>1, <2>2
<1> QED
  BY <1>1 DEF TokenInv

\* Nothing changes that a token depends on.
LEMMA SameTokens ==
  ASSUME TypeOK, TokenInv,
         \A p \in Panes : ToSet(paneQueue'[p]) \subseteq ToSet(paneQueue[p]),
         UNCHANGED <<phase, ended, tracker, target, out>>
  PROVE  TokenInv'
<1>1. ASSUME NEW p \in Panes, NEW t \in ToSet(paneQueue'[p]) PROVE Token(t, p)'
  <2>1. t \in Steps /\ Token(t, p)
    BY TokensAreSteps DEF TokenInv
  <2>2. Running(RunOf[t])'
    BY <2>1 DEF Token, Running
  <2> QED
    BY <2>1, <2>2, TokenKept
<1> QED
  BY <1>1 DEF TokenInv

LEMMA BeginTickToken ==
  ASSUME TypeOK, TurnInv, TokenInv, NEW s \in Steps, BeginTick(s)
  PROVE  TokenInv'
<1>1. /\ UNCHANGED <<ended, tracker, paneQueue, out>> /\ tracker[s] = NoTracker
      /\ Running(RunOf[s])
      /\ \A u \in Steps : u # s => target'[u] = target[u]
  BY DEF BeginTick, TypeOK
<1>2. target'[s] = IF OwnPane(s) THEN NoPane
                   ELSE IF ~SameRun(s) /\ target[s] # NoPane THEN target[s]
                   ELSE out[Ref[s]]
  BY DEF BeginTick, TypeOK, SameRun
<1>3. /\ phase'[s] = "live"
      /\ \A u \in Before[s] : phase[u] \in Done
      /\ \A u \in Steps : IF u \in Siblings(s) /\ phase[u] = "pending"
                          THEN phase'[u] = "live" ELSE phase'[u] = phase[u]
  BY LaterInRun DEF BeginTick
<1>4. ASSUME NEW p \in Panes, Token(s, p) PROVE Token(s, p)'
  <2>1. target'[s] = p /\ p # NoPane
    BY <1>1, <1>2, <1>4, PanesAreNat DEF Token
  <2> QED
    BY <1>1, <1>3, <1>4, <2>1 DEF Token, Running
<1>5. ASSUME NEW t \in Steps \ {s}, NEW p \in Panes, Token(t, p) PROVE Token(t, p)'
  <2>1. CASE t \in Siblings(s) /\ phase[t] = "pending"
    BY <1>1, <1>3, <1>5, <2>1 DEF Token, Running
  <2>2. CASE ~(t \in Siblings(s) /\ phase[t] = "pending")
    <3>1. phase'[t] = phase[t]
      BY <1>3, <2>2
    <3>2. ASSUME phase[t] = "pending", NEW u \in Steps, RunOf[u] = RunOf[t]
          PROVE  phase'[u] = phase[u]
      <4>1. SUFFICES ASSUME u \in Siblings(s), phase[u] = "pending" PROVE FALSE
        BY <1>3
      <4>2. RunOf[s] = RunOf[t] /\ s \in StepsOf(RunOf[t]) /\ t \in StepsOf(RunOf[s])
        BY <3>2, <4>1 DEF Siblings, StepsOf
      <4>3. t \notin Before[s] /\ t \notin Siblings(s)
        BY <1>3, <2>2, <3>2 DEF Done
      <4>4. s \in Before[t]
        BY <4>2, <4>3, Positions
      <4>5. Before[u] = Before[s] /\ u \notin Before[t]
        BY <1>5, <3>2, <4>1 DEF Siblings, Token, EarlierDone, Done
      <4>6. s \notin Before[u] /\ u \in StepsOf(RunOf[t])
        BY <3>2, <4>5, PanesAssumption DEF StepsOf
      <4>7. phase[s] \in Done
        BY <1>5, <3>2, <4>2, <4>4 DEF Token, EarlierDone
      <4> QED
        BY <4>7 DEF BeginTick, Done
    <3>3. Running(RunOf[t])'
      BY <1>1, <1>5 DEF Token, Running
    <3> QED
      BY <1>1, <1>5, <3>1, <3>2, <3>3, TokenKept
  <2> QED
    BY <2>1, <2>2
<1>6. \A p \in Panes : s \in ToSet(paneQueue'[p]) => Token(s, p)'
  BY <1>1, <1>4 DEF TokenInv
<1> QED
  BY <1>1, <1>5, <1>6, OthersTokens

\* A run does not end over a token that is left: the step that settles was live.
LEMMA SettleTokens ==
  ASSUME TypeOK, OrderInv, NEW s \in Steps, phase[s] = "live",
         NEW ph \in Phases \ {"pending"}, Settle(s, ph),
         UNCHANGED <<tracker, target>>, \A u \in Steps \ {s} : out'[u] = out[u],
         NEW t \in Steps \ {s}, NEW p, Token(t, p)
  PROVE  Token(t, p)'
<1>1. phase'[s] = ph /\ \A u \in Steps \ {s} : phase'[u] = phase[u]
  BY SettlesAlone
<1>2. phase[t] = "pending" => RunOf[s] # RunOf[t]
  BY LeftTokenAlone DEF Done
<1>3. Running(RunOf[t])'
  BY <1>1, <1>2, SettleEnds DEF Token
<1>4. ASSUME ~OwnPane(t), SameRun(t) PROVE out'[Ref[t]] = out[Ref[t]]
  <2>1. Ref[t] \in Before[t] /\ Ref[t] \in Steps
    BY <1>4, PanesAssumption DEF OwnPane
  <2>2. EarlierDone(t)
    BY DEF Token, OrderInv, OrderOK
  <2>3. Ref[t] # s
    BY <1>4, <2>1, <2>2 DEF EarlierDone, SameRun, Done
  <2> QED
    BY <2>1, <2>3
<1>5. phase[t] = "pending" =>
        \A u \in Steps : RunOf[u] = RunOf[t] => phase'[u] = phase[u]
  BY <1>1, <1>2
<1> QED
  BY <1>1, <1>3, <1>4, <1>5, TokenKept

LEMMA StepIsLive ==
  ASSUME OrderInv, NEW s \in Steps, call[s] # "none"
  PROVE  phase[s] = "live" /\ Running(RunOf[s])
  BY DEF OrderInv, OrderOK

\* The tokens of a step that is in a call, or has a tracker, are all in the
\* queue of one pane.
LEMMA OnePaneOnly ==
  ASSUME TokenInv, NEW s, NEW o \in Panes, s \in ToSet(paneQueue[o])
  PROVE  IF tracker[s] = NoTracker THEN o = target[s] /\ ~OwnPane(s) ELSE o = tracker[s].pane
  BY DEF TokenInv, Token

LEMMA ReleasesAll ==
  ASSUME TypeOK, TokenInv, NEW s \in Steps, NEW p, paneQueue' = Release(s, p),
         p = IF tracker[s] = NoTracker THEN target[s] ELSE tracker[s].pane
  PROVE  \A o \in Panes : /\ s \notin ToSet(paneQueue'[o])
                          /\ ToSet(paneQueue'[o]) \subseteq ToSet(paneQueue[o])
<1>q. QueuesOK
  BY QueueTypes
<1>1. \A o \in Panes : ToSet(paneQueue'[o]) = ToSet(paneQueue[o]) \ IF o = p THEN {s} ELSE {}
  BY <1>q, ReleaseThins DEF Thinned
<1>2. \A o \in Panes : s \in ToSet(paneQueue[o]) => o = p
  BY OnePaneOnly
<1> QED
  BY <1>1, <1>2

LEMMA SettlesToken ==
  ASSUME TypeOK, TurnInv, OrderInv, TokenInv, ~Fickle, NEW s \in Steps,
         GatesEnd(s) \/ OpenFails(s) \/ SendFails(s) \/ TimesOut(s)
  PROVE  TokenInv'
<1>0. StepOK(s)
  BY DEF TurnInv
<1>1. phase[s] = "live" /\ UNCHANGED <<tracker, target, out>>
  BY StepIsLive DEF GatesEnd, OpenFails, SendFails, TimesOut, Polled
<1>2. Settle(s, "failed") \/ Settle(s, "skipped")
  BY DEF GatesEnd, OpenFails, SendFails, TimesOut
<1>3. \A t \in Steps \ {s}, p \in Panes : Token(t, p) => Token(t, p)'
  BY <1>1, <1>2, SettleTokens DEF Phases
<1>4. \A p \in Panes : s \notin ToSet(paneQueue'[p]) /\ ToSet(paneQueue'[p]) \subseteq ToSet(paneQueue[p])
  <2>1. CASE GatesEnd(s)
    BY <2>1 DEF GatesEnd
  <2>2. CASE OpenFails(s)
    BY <1>0, <2>2, OnePaneOnly DEF OpenFails, StepOK
  <2>3. CASE SendFails(s)
    <3>1. tracker[s] = NoTracker /\ paneQueue' = Release(s, target[s])
      BY <1>0, <2>3 DEF SendFails, StepOK
    <3> QED
      BY <3>1, ReleasesAll
  <2>4. CASE TimesOut(s)
    <3>1. tracker[s] # NoTracker /\ paneQueue' = Release(s, tracker[s].pane)
      BY <2>4 DEF TimesOut, Polled
    <3> QED
      BY <3>1, ReleasesAll
  <2> QED
    BY <2>1, <2>2, <2>3, <2>4
<1> QED
  BY <1>3, <1>4, OthersTokens

LEMMA GatesSendToken ==
  ASSUME TypeOK, TurnInv, OrderInv, TokenInv, NEW s \in Steps, GatesSend(s)
  PROVE  TokenInv'
<1>q. QueuesOK
  BY QueueTypes
<1>p. PICK p \in Panes : p = target[s]
  BY StepTypes DEF TurnInv, StepOK, GatesSend
<1>1. /\ tracker[s] = NoTracker /\ ~OwnPane(s) /\ call[s] # "none"
      /\ UNCHANGED <<tracker, target, out>>
  BY DEF TurnInv, StepOK, GatesSend
<1>2. phase[s] = "live" /\ Running(RunOf[s])
  BY <1>1, StepIsLive
<1>3. CASE paneQueue' = Release(s, p) /\ Settle(s, "failed")
  <2>1. \A t \in Steps \ {s}, o \in Panes : Token(t, o) => Token(t, o)'
    BY <1>1, <1>2, <1>3, SettleTokens DEF Phases
  <2>2. \A o \in Panes : s \notin ToSet(paneQueue'[o]) /\ ToSet(paneQueue'[o]) \subseteq ToSet(paneQueue[o])
    BY <1>p, <1>1, <1>3, ReleasesAll
  <2> QED
    BY <2>1, <2>2, OthersTokens
<1>4. CASE /\ paneQueue' = [paneQueue EXCEPT ![p] = Registered(paneQueue[p], s)]
           /\ UNCHANGED <<phase, ended>>
  <2>1. Joined(paneQueue', p, s)
    BY <1>q, <1>4, RegisterJoins
  <2>2. ASSUME NEW o \in Panes, s \in ToSet(paneQueue'[o]) PROVE o = p
    BY <1>p, <1>1, <2>1, <2>2, OnePaneOnly DEF Joined
  <2>3. Token(s, p)'
    <3>1. SameRun(s) => out[Ref[s]] = p
      BY <1>p, <1>1 DEF OrderInv, OrderOK
    <3> QED
      BY <1>p, <1>1, <1>2, <1>4, <3>1 DEF Token, Running
  <2>4. \A t \in Steps \ {s}, o \in Panes : Token(t, o) => Token(t, o)'
    BY <1>1, <1>4 DEF Token, EarlierDone, Running
  <2>5. \A o \in Panes : ToSet(paneQueue'[o]) \subseteq ToSet(paneQueue[o]) \cup {s}
    BY <2>1 DEF Joined
  <2> QED
    BY <2>2, <2>3, <2>4, <2>5, OthersTokens
<1> QED
  BY <1>p, <1>3, <1>4 DEF GatesSend

LEMMA OpenedToken ==
  ASSUME TypeOK, TurnInv, OrderInv, TokenInv, NEW s \in Steps, Opened(s)
  PROVE  TokenInv'
<1>q. QueuesOK
  BY QueueTypes
<1>n. panes \in Nat /\ MaxPanes \in Nat
  BY PanesAssumption DEF TypeOK
<1>p. PICK p \in Nat : p = panes + 1
  BY <1>n
<1>1. p \in Panes
  BY <1>n, <1>p DEF Opened, Panes
<1>2. BuildTracker(p).pane = p /\ p # NoPane /\ NoTracker.pane = NoPane
  BY <1>1, PanesAreNat DEF NoTracker, BuildTracker
<1>3. /\ tracker'[s] = BuildTracker(p) /\ UNCHANGED <<phase, ended, target, out>>
      /\ \A u \in Steps : u # s => tracker'[u] = tracker[u]
  BY <1>p DEF Opened, TypeOK
<1>4. Joined(paneQueue', p, s)
  BY <1>p, <1>q, RegisterJoins DEF Opened
<1>5. \A o \in Panes : s \notin ToSet(paneQueue[o])
  BY OnePaneOnly DEF TurnInv, StepOK, Opened
<1>6. phase[s] = "live" /\ Running(RunOf[s])
  BY StepIsLive DEF Opened
<1>7. Token(s, p)'
  BY <1>2, <1>3, <1>6 DEF Token, Running
<1>8. \A o \in Panes : s \in ToSet(paneQueue'[o]) => o = p
  BY <1>4, <1>5 DEF Joined
<1>9. \A t \in Steps \ {s}, o \in Panes : Token(t, o) => Token(t, o)'
  BY <1>3 DEF Token, EarlierDone, Running
<1>10. \A o \in Panes : ToSet(paneQueue'[o]) \subseteq ToSet(paneQueue[o]) \cup {s}
  BY <1>4 DEF Joined
<1> QED
  BY <1>7, <1>8, <1>9, <1>10, OthersTokens

LEMMA SentToken ==
  ASSUME TypeOK, TurnInv, OrderInv, TokenInv, NEW s \in Steps, Sent(s)
  PROVE  TokenInv'
<1>p. PICK p : p = target[s]
  OBVIOUS
<1>0. tracker[s] = NoTracker /\ phase[s] = "live" /\ Running(RunOf[s]) /\ target[s] # NoPane
  BY StepIsLive DEF TurnInv, StepOK, Sent
<1>1. BuildTracker(p).pane = p /\ NoTracker.pane = NoPane
  BY DEF NoTracker, BuildTracker
<1>2. /\ tracker'[s] = BuildTracker(p) /\ UNCHANGED <<phase, ended, target, paneQueue, out>>
      /\ \A u \in Steps : u # s => tracker'[u] = tracker[u]
  BY <1>p DEF Sent, TypeOK
<1>3. ASSUME NEW o \in Panes, s \in ToSet(paneQueue'[o]) PROVE Token(s, o)'
  <2>1. o = p
    BY <1>p, <1>0, <1>2, <1>3, OnePaneOnly
  <2> QED
    BY <1>p, <1>0, <1>1, <1>2, <2>1 DEF Token, Running
<1>4. \A t \in Steps \ {s}, o \in Panes : Token(t, o) => Token(t, o)'
  BY <1>2 DEF Token, EarlierDone, Running
<1> QED
  BY <1>2, <1>3, <1>4, OthersTokens

\* A poll that does not end the step.
LEMMA PollToken ==
  ASSUME TypeOK, TokenInv, NEW s \in Steps, tracker[s] # NoTracker,
         tracker[s].pane # NoPane, tracker'[s].pane = tracker[s].pane,
         \A u \in Steps : u # s => tracker'[u] = tracker[u],
         UNCHANGED <<phase, ended, target, paneQueue, out>>
  PROVE  TokenInv'
<1>1. tracker'[s] # NoTracker
  BY DEF NoTracker, BuildTracker
<1>2. \A t \in Steps, o \in Panes : Token(t, o) => Token(t, o)'
  BY <1>1 DEF Token, EarlierDone, Running
<1>3. \A o \in Panes : s \in ToSet(paneQueue'[o]) => Token(s, o)'
  BY <1>2 DEF TokenInv
<1> QED
  BY <1>2, <1>3, OthersTokens

LEMMA PollsToken ==
  ASSUME TypeOK, TurnInv, OrderInv, TokenInv, NEW s \in Steps, PollWorking(s) \/ PollDone(s)
  PROVE  TokenInv'
<1>p. PICK p : p = tracker[s].pane
  OBVIOUS
<1>1. phase[s] = "live" /\ tracker[s] # NoTracker /\ p # NoPane /\ UNCHANGED target
  BY <1>p DEF TurnInv, StepOK, PollWorking, PollDone, Polled
<1>2. CASE /\ tracker' = [tracker EXCEPT ![s].working = TRUE, ![s].done = FALSE]
           /\ UNCHANGED <<phase, ended, paneQueue, out>>
  <2>1. tracker'[s].pane = tracker[s].pane
    BY <1>2 DEF TypeOK, Tracker
  <2>2. \A u \in Steps : u # s => tracker'[u] = tracker[u]
    BY <1>2 DEF TypeOK
  <2> QED
    BY <1>p, <1>1, <1>2, <2>1, <2>2, PollToken
<1>3. CASE /\ tracker' = [tracker EXCEPT ![s].done = TRUE]
           /\ UNCHANGED <<phase, ended, paneQueue, out>>
  <2>1. tracker'[s].pane = tracker[s].pane
    BY <1>3 DEF TypeOK, Tracker
  <2>2. \A u \in Steps : u # s => tracker'[u] = tracker[u]
    BY <1>3 DEF TypeOK
  <2> QED
    BY <1>p, <1>1, <1>3, <2>1, <2>2, PollToken
<1>4. CASE /\ Settle(s, "succeeded") /\ out' = [out EXCEPT ![s] = p]
           /\ paneQueue' = Release(s, p) /\ UNCHANGED tracker
  <2>1. \A u \in Steps \ {s} : out'[u] = out[u]
    BY <1>4 DEF TypeOK
  <2>2. \A t \in Steps \ {s}, o \in Panes : Token(t, o) => Token(t, o)'
    BY <1>1, <1>4, <2>1, SettleTokens DEF Phases
  <2>3. \A o \in Panes : s \notin ToSet(paneQueue'[o]) /\ ToSet(paneQueue'[o]) \subseteq ToSet(paneQueue[o])
    BY <1>p, <1>1, <1>4, ReleasesAll
  <2> QED
    BY <2>2, <2>3, OthersTokens
<1> QED
  BY <1>p, <1>2, <1>3, <1>4 DEF PollWorking, PollDone

\* A run that ends by force gives back all its panes.
LEMMA RunEndsToken ==
  ASSUME TypeOK, TokenInv, NEW r, phase' = Halted(r), ended' = ended \cup {r},
         paneQueue' = ReleaseRun(r),
         \A u \in Steps \ StepsOf(r) : tracker'[u] = tracker[u],
         UNCHANGED <<target, out>>
  PROVE  TokenInv'
<1>q. QueuesOK
  BY QueueTypes
<1>1. \A p \in Panes : ToSet(paneQueue'[p]) = ToSet(paneQueue[p]) \ StepsOf(r)
  BY <1>q, ReleaseRunThins DEF Thinned
<1>2. \A u \in Steps : RunOf[u] # r => phase'[u] = phase[u]
  BY DEF Halted
<1>3. ASSUME NEW p \in Panes, NEW t \in ToSet(paneQueue'[p]) PROVE Token(t, p)'
  <2>1. t \in Steps /\ Token(t, p) /\ t \notin StepsOf(r)
    BY <1>1, <1>3, TokensAreSteps DEF TokenInv
  <2>2. RunOf[t] # r
    BY <2>1 DEF StepsOf
  <2>3. Running(RunOf[t])'
    BY <2>1, <2>2 DEF Token, Running
  <2> QED
    BY <1>2, <2>1, <2>2, <2>3, TokenKept
<1> QED
  BY <1>3 DEF TokenInv

\* A dropped step keeps a token only where it was waiting.
LEMMA DropTokens ==
  ASSUME TypeOK, TokenInv, NEW r, NEW D \in SUBSET Steps, Drop(r, D),
         NEW p \in Panes, NEW t \in ToSet(paneQueue'[p])
  PROVE  /\ t \in Steps /\ Token(t, p) /\ Running(RunOf[t])'
         /\ IF t \in D THEN tracker[t] = NoTracker /\ ~OwnPane(t) /\ tracker'[t] = NoTracker
                       ELSE tracker'[t] = tracker[t]
<1>q. QueuesOK
  BY QueueTypes
<1>1. t \in ToSet(paneQueue[p]) /\ (t \in D => tracker[t].pane # p)
  BY <1>q, DropThins DEF Thinned, Dropped
<1>2. t \in Steps /\ Token(t, p)
  BY <1>1, TokensAreSteps DEF TokenInv
<1>3. Running(RunOf[t])'
  BY <1>2 DEF Token, Running, Drop
<1>4. t \in D => tracker[t] = NoTracker /\ ~OwnPane(t)
  BY <1>1, <1>2 DEF Token
<1>5. tracker'[t] = IF t \in D THEN NoTracker ELSE tracker[t]
  BY <1>2 DEF Drop
<1> QED
  BY <1>2, <1>3, <1>4, <1>5

\* What a retry drops has given its pane back, or was waiting beside the step:
\* nothing after the step waits for another step's pane.
LEMMA RetryFromToken ==
  ASSUME TypeOK, OrderInv, TokenInv, RetryStays, NEW s \in Steps, RetryFrom(s)
  PROVE  TokenInv'
<1> DEFINE r == RunOf[s]
<1>1. CanRetry(s) /\ Drop(r, Later(s)) /\ UNCHANGED <<target, out>>
  BY DEF RetryFrom, Drop
<1>2. EarlierDone(s) /\ \A u \in Later(s) \ Siblings(s) : OwnPane(u)
  BY <1>1, RetryStarted DEF RetryStays, OrderInv, OrderOK
<1>3. \A u \in Steps : phase'[u] = IF u \in Later(s) THEN "pending" ELSE phase[u]
  BY DEF RetryFrom
<1>4. Later(s) \in SUBSET Steps /\ Later(s) \subseteq StepsOf(r)
  BY LaterInRun DEF StepsOf
<1>5. ASSUME NEW p \in Panes, NEW t \in ToSet(paneQueue'[p]) PROVE Token(t, p)'
  <2>1. /\ t \in Steps /\ Token(t, p) /\ Running(RunOf[t])'
        /\ IF t \in Later(s) THEN tracker[t] = NoTracker /\ ~OwnPane(t) /\ tracker'[t] = NoTracker
                             ELSE tracker'[t] = tracker[t]
    BY <1>1, <1>4, DropTokens
  <2>2. CASE RunOf[t] # r
    <3>1. \A u \in Steps : RunOf[u] = RunOf[t] => phase'[u] = phase[u]
      BY <1>3, <1>4, <2>2 DEF StepsOf
    <3>2. t \notin Later(s)
      BY <1>4, <2>2 DEF StepsOf
    <3> QED
      BY <1>1, <2>1, <3>1, <3>2, TokenKept
  <2>3. CASE RunOf[t] = r
    <3>1. t \in StepsOf(r)
      BY <2>1, <2>3 DEF StepsOf
    <3>2. t \notin Before[s]
      BY <1>2, <2>1, <2>3 DEF EarlierDone, Token, Done
    <3>3. t \in Later(s) /\ t \in Siblings(s)
      BY <1>2, <2>1, <3>1, <3>2, Positions
    <3>4. Before[t] = Before[s] /\ Later(t) = Later(s)
      BY <3>1, <3>3, Positions
    <3>5. EarlierDone(t)'
      BY <1>2, <1>3, <2>3, <3>4, PanesAssumption DEF EarlierDone, Later
    <3>6. phase'[t] = "pending" /\ \A u \in Later(t) : phase'[u] = "pending"
      BY <1>3, <1>4, <2>1, <3>3, <3>4
    <3> QED
      BY <1>1, <2>1, <3>3, <3>5, <3>6 DEF Token
  <2> QED
    BY <2>2, <2>3
<1> QED
  BY <1>5 DEF TokenInv

LEMMA RetrySiblingToken ==
  ASSUME TypeOK, OrderInv, TokenInv, RetryStays, NEW s \in Steps, RetrySibling(s)
  PROVE  TokenInv'
<1> DEFINE r == RunOf[s]
           after == Later(s) \ Siblings(s)
           D == after \cup {s}
<1>1. CanRetry(s) /\ Drop(r, D) /\ UNCHANGED <<target, out>>
  BY DEF RetrySibling, Drop
<1>2. phase[s] # "pending" /\ EarlierDone(s) /\ \A u \in after : OwnPane(u)
  BY <1>1, RetryStarted DEF RetryStays, OrderInv, OrderOK
<1>3. \A u \in Steps : phase'[u] = IF u = s THEN "live"
                                   ELSE IF u \in after THEN "pending" ELSE phase[u]
  BY DEF RetrySibling
<1>4. D \in SUBSET Steps /\ D \subseteq StepsOf(r) /\ after \subseteq D /\ s \in Siblings(s)
  BY LaterInRun DEF StepsOf
<1>5. \A u \in D : u = s \/ u \in after
  OBVIOUS
<1>6. ASSUME NEW p \in Panes, NEW t \in ToSet(paneQueue'[p]) PROVE Token(t, p)'
  <2> HIDE DEF D
  <2>1. /\ t \in Steps /\ Token(t, p) /\ Running(RunOf[t])'
        /\ IF t \in D THEN tracker[t] = NoTracker /\ ~OwnPane(t) /\ tracker'[t] = NoTracker
                      ELSE tracker'[t] = tracker[t]
    BY <1>1, <1>4, DropTokens
  <2>2. CASE RunOf[t] # r
    <3>1. \A u \in Steps : RunOf[u] = RunOf[t] => phase'[u] = phase[u]
      BY <1>3, <1>4, <2>2 DEF StepsOf
    <3>2. t \notin D
      BY <1>4, <2>2 DEF StepsOf
    <3> QED
      BY <1>1, <2>1, <3>1, <3>2, TokenKept
  <2>3. CASE t = s
    <3>1. t \in D /\ phase'[t] = "live"
      BY <1>3, <2>3 DEF D
    <3> QED
      BY <1>1, <2>1, <3>1 DEF Token
  <2>4. CASE RunOf[t] = r /\ t # s
    <3>1. t \in StepsOf(r)
      BY <2>1, <2>4 DEF StepsOf
    <3>2. t \notin Before[s]
      BY <1>2, <2>1, <2>4 DEF EarlierDone, Token, Done
    <3>3. t \notin after
      BY <1>2, <1>4, <2>1
    <3>4. t \notin D /\ phase'[t] = phase[t]
      BY <1>3, <1>5, <2>1, <2>4, <3>3
    <3>5. t \in Siblings(s)
      BY <3>1, <3>2, <3>3, Positions
    <3>6. s \in Later(t)
      BY <3>1, <3>5, LaterInRun, Positions
    <3>7. phase[t] # "pending"
      BY <1>2, <2>1, <3>6 DEF Token
    <3> QED
      BY <1>1, <2>1, <3>4, <3>7, TokenKept
  <2> QED
    BY <2>2, <2>3, <2>4
<1> QED
  BY <1>6 DEF TokenInv

LEMMA NextToken ==
  ASSUME TypeOK, TurnInv, OrderInv, TokenInv, ~Hasty, ~Fickle, RetryStays, [Next]_vars
  PROVE  TokenInv'
<1>1. ASSUME NEW s \in Steps, Runner(s) PROVE TokenInv'
  <2>1. CASE GatesOpen(s)
    BY <2>1, SameTokens DEF GatesOpen
  <2> QED
    BY <1>1, <2>1, BeginTickToken, SettlesToken, GatesSendToken, PollsToken DEF Runner
<1>2. ASSUME NEW s \in Steps, Renderer(s) PROVE TokenInv'
  <2>1. CASE Deliver(s)
    BY <2>1, SameTokens DEF Deliver
  <2> QED
    BY <1>2, <2>1, OpenedToken, SettlesToken, SentToken DEF Renderer
<1>3. ASSUME NEW s \in Steps, Throws(s) PROVE TokenInv'
  BY <1>3, RunEndsToken DEF Throws
<1>4. ASSUME NEW r \in Runs, CancelRun(r) PROVE TokenInv'
  <2>1. \A u \in Steps \ StepsOf(r) : tracker'[u] = tracker[u]
    BY <1>4 DEF CancelRun, StepsOf
  <2> QED
    BY <1>4, <2>1, RunEndsToken DEF CancelRun
<1>5. ASSUME NEW p \in Panes, Agent(p) \/ AsksUser(p) PROVE TokenInv'
  <2>1. UNCHANGED <<phase, ended, tracker, target, paneQueue, out>>
    BY <1>5 DEF Agent, Takes, Finishes, UserAnswers, AsksUser
  <2> QED
    BY <2>1, SameTokens
<1>6. ASSUME Restart PROVE TokenInv'
  <2>1. \A p \in Panes : ToSet(paneQueue'[p]) = {}
    BY <1>6 DEF Restart, ToSet
  <2> QED
    BY <2>1 DEF TokenInv
<1>7. ASSUME UNCHANGED vars PROVE TokenInv'
  <2>1. UNCHANGED <<phase, ended, tracker, target, paneQueue, out>>
    BY <1>7 DEF vars
  <2> QED
    BY <2>1, SameTokens
<1>8. ASSUME NEW s \in Steps, TimesOut(s) PROVE TokenInv'
  BY <1>8, SettlesToken
<1>9. ASSUME NEW s \in Steps, RetryFrom(s) \/ RetrySibling(s) PROVE TokenInv'
  BY <1>9, RetryFromToken, RetrySiblingToken
<1> QED
  BY <1>1, <1>2, <1>3, <1>4, <1>5, <1>6, <1>7, <1>8, <1>9 DEF Next

\* Whoever is first in a pane's queue is a step that goes on, or that its run
\* comes to next (run-prompt-runner.ts:614, service.ts:1230).
THEOREM NoHolderIsDead ==
  ASSUME ~Hasty, ~Fickle, RetryStays
  PROVE  Spec => []NoDeadHolder
<1>1. Init => TypeOK /\ TurnInv /\ OrderInv /\ TokenInv
  BY InitType, InitTurn, InitOrder, InitToken
<1>2. TypeOK /\ TurnInv /\ OrderInv /\ TokenInv /\ [Next]_vars
        => TurnInv' /\ OrderInv' /\ TokenInv'
  BY NextTurn, NextOrder, NextToken
<1>3. TypeOK /\ TokenInv => NoDeadHolder
  BY HolderHasToken
<1> QED
  BY <1>1, <1>2, <1>3, PaneTypeCorrect, PTL DEF Spec
=============================================================================
