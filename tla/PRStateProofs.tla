---------------------------- MODULE PRStateProofs ----------------------------
(***************************************************************************)
(* What the readers of a marker list return, for every list: passes are    *)
(* naturals, positions are positions or zero, and a marker under           *)
(* construction is a marker.                                               *)
(***************************************************************************)
EXTENDS PRState, PolicyProofs, SequenceTheorems

(* The positions of a marker list that satisfy a condition are a finite    *)
(* set of naturals, and so are those and zero.                             *)
LEMMA PositionsAreNaturals ==
    ASSUME NEW markers \in Seq(ReviewMarker), NEW S \in SUBSET (DOMAIN markers)
    PROVE  /\ S \in SUBSET Nat /\ IsFiniteSet(S)
           /\ IsFiniteSet({0} \cup S)
           /\ \A i \in S : markers[i] \in ReviewMarker
<1>1. DOMAIN markers = 1..Len(markers) /\ Len(markers) \in Nat
  OBVIOUS
<1>2. IsFiniteSet(DOMAIN markers)
  BY <1>1, FS_Interval
<1>3. IsFiniteSet(S) /\ IsFiniteSet({0} \cup S)
  BY <1>2, FS_Subset, FS_Singleton, FS_Union
<1>4. S \in SUBSET Nat /\ \A i \in S : markers[i] \in ReviewMarker
  BY <1>1
<1> QED
  BY <1>3, <1>4

(* The passes at some positions of a marker list are a finite set of       *)
(* naturals.                                                               *)
LEMMA PassesAreNaturals ==
    ASSUME NEW markers \in Seq(ReviewMarker), NEW S \in SUBSET (DOMAIN markers)
    PROVE  /\ {markers[i].pass : i \in S} \in SUBSET Nat
           /\ IsFiniteSet({markers[i].pass : i \in S})
           /\ IsFiniteSet({0} \cup {markers[i].pass : i \in S})
<1> DEFINE P == {markers[i].pass : i \in S}
           f == [i \in S |-> markers[i].pass]
<1>1. IsFiniteSet(S) /\ \A i \in S : markers[i] \in ReviewMarker
  BY PositionsAreNaturals
<1>2. P \in SUBSET Nat
  BY <1>1 DEF ReviewMarker
<1>3. f \in Surjection(S, P)
  BY DEF Surjection
<1>4. IsFiniteSet(P)
  BY <1>1, <1>3, FS_Surjection
<1>5. IsFiniteSet({0} \cup P)
  BY <1>4, FS_Singleton, FS_Union
<1> QED
  BY <1>2, <1>4, <1>5

(* The marker of a pass, of any kind, is the newest of that pass. *)
LEMMA MarkerForNewest ==
    ASSUME NEW T, NEW markers \in Seq(T), NEW pass
    PROVE  LET i == MarkerFor(markers, pass)
           IN  /\ i \in Nat
               /\ i # 0 => i \in DOMAIN markers /\ markers[i].pass = pass
               /\ \A j \in DOMAIN markers : markers[j].pass = pass => i # 0 /\ j <= i
<1> DEFINE S == {i \in DOMAIN markers : markers[i].pass = pass}
<1>1. DOMAIN markers = 1..Len(markers) /\ Len(markers) \in Nat
  OBVIOUS
<1>2. S \in SUBSET (Nat \ {0}) /\ IsFiniteSet(S)
  <2>1. IsFiniteSet(DOMAIN markers)
    BY <1>1, FS_Interval
  <2>2. S \subseteq DOMAIN markers
    OBVIOUS
  <2> HIDE DEF S
  <2>3. IsFiniteSet(S)
    BY <2>1, <2>2, FS_Subset
  <2> QED BY <1>1, <2>2, <2>3
<1>3. MarkerFor(markers, pass) = Max({0} \cup S)
  BY DEF MarkerFor
<1>4. \A i : i \in S <=> i \in DOMAIN markers /\ markers[i].pass = pass
  OBVIOUS
<1> DEFINE i == Max({0} \cup S)
<1>5. i \in Nat /\ (i # 0 => i \in S) /\ \A j \in S : i # 0 /\ j =< i
  <2> HIDE DEF S
  <2> QED BY <1>2, NewestOrZero
<1> HIDE DEF S, i
<1> QED
  BY <1>3, <1>4, <1>5 DEF i

(* The marker of a pass is a marker of that pass.                          *)
LEMMA MarkerForType ==
    ASSUME NEW markers \in Seq(ReviewMarker), NEW pass
    PROVE  /\ MarkerFor(markers, pass) \in Nat
           /\ MarkerFor(markers, pass) # 0 =>
                /\ MarkerFor(markers, pass) \in DOMAIN markers
                /\ markers[MarkerFor(markers, pass)].pass = pass
                /\ markers[MarkerFor(markers, pass)] \in ReviewMarker
BY MarkerForNewest

(* A pass number is a natural. *)
LEMMA CurrentReviewPassType ==
    ASSUME NEW markers \in Seq(ReviewMarker)
    PROVE  CurrentReviewPass(markers) \in Nat
<1>1. Ran(markers) \in SUBSET (DOMAIN markers)
  BY DEF Ran
<1> DEFINE P == {markers[i].pass : i \in Ran(markers)}
<1>2. P \in SUBSET Nat /\ IsFiniteSet({0} \cup P)
  BY <1>1, PassesAreNaturals
<1>3. Max({0} \cup P) \in {0} \cup P
  <2> HIDE DEF P
  <2> QED BY <1>2, MaxIsMember
<1> QED
  BY <1>2, <1>3 DEF CurrentReviewPass

(* The checkpoint a new pass is seeded with is a marker's, or none. *)
LEMMA CheckpointOrigin ==
    ASSUME NEW markers \in Seq(ReviewMarker), NEW pass
    PROVE  \/ LatestCoverageCheckpoint(markers, pass) = NoGen
           \/ \E i \in DOMAIN markers : LatestCoverageCheckpoint(markers, pass) = markers[i].gen
<1> DEFINE claimed == {i \in DOMAIN markers : markers[i].pass < pass /\ markers[i].gen.claimed}
           P == {markers[i].pass : i \in claimed}
           best == Max({0} \cup P)
           newest == {i \in claimed : markers[i].pass = best}
<1>1. CASE claimed = {}
  BY <1>1 DEF LatestCoverageCheckpoint
<1>2. CASE claimed # {}
  <2>1. P \in SUBSET Nat /\ IsFiniteSet({0} \cup P) /\ P # {}
    BY <1>2, PassesAreNaturals
  <2>2. best \in P
    <3>1. best \in {0} \cup P /\ \A y \in {0} \cup P : best >= y
      <4>1. {0} \cup P \in SUBSET Nat /\ {0} \cup P # {}
        BY <2>1
      <4> HIDE DEF P
      <4> QED BY <2>1, <4>1, MaxIsMember
    <3>2. PICK y \in P : y \in Nat
      BY <2>1
    <3> HIDE DEF P, best
    <3> QED BY <3>1, <3>2
  <2>3. newest # {}
    <3> HIDE DEF best
    <3> QED BY <2>2
  <2>4. newest \in SUBSET Nat /\ \A i \in newest : markers[i] \in ReviewMarker
    <3> HIDE DEF best
    <3> QED BY PositionsAreNaturals
  <2>5. Min(newest) \in newest
    <3> HIDE DEF newest
    <3> QED BY <2>3, <2>4, MinIsMember
  <2>6. Min(newest) \in DOMAIN markers
    BY <2>5
  <2>7. LatestCoverageCheckpoint(markers, pass) = markers[Min(newest)].gen
    BY <1>2 DEF LatestCoverageCheckpoint
  <2> QED
    BY <2>6, <2>7
<1> QED
  BY <1>1, <1>2

(* So it is a generation or none. *)
LEMMA CheckpointType ==
    ASSUME NEW markers \in Seq(ReviewMarker), NEW pass
    PROVE  LatestCoverageCheckpoint(markers, pass) \in Generation \cup {NoGen}
<1>1. \A i \in DOMAIN markers : markers[i] \in ReviewMarker
  OBVIOUS
<1>2. \A i \in DOMAIN markers : markers[i].gen \in Generation \cup {NoGen}
  BY <1>1 DEF ReviewMarker
<1> QED
  BY <1>2, CheckpointOrigin

(* A blank marker is a marker. *)
LEMMA BlankMarkerType ==
    ASSUME NEW pass \in Nat
    PROVE  BlankMarker(pass) \in ReviewMarker
BY DEF BlankMarker, ReviewMarker, PassStates, MarkerVerdicts, ReviewVerdicts,
       Reasons, NoGen, NoPair, Pairs

(* The pass marker under construction is a marker of that pass. *)
LEMMA MarkerForPassType ==
    ASSUME NEW markers \in Seq(ReviewMarker), NEW pass \in Nat
    PROVE  MarkerForPass(markers, pass) \in ReviewMarker
<1> DEFINE own == IF MarkerFor(markers, pass) = 0 THEN BlankMarker(pass)
                  ELSE markers[MarkerFor(markers, pass)]
<1>1. own \in ReviewMarker
  BY MarkerForType, BlankMarkerType
<1>2. LatestCoverageCheckpoint(markers, pass) \in Generation \cup {NoGen}
  BY CheckpointType
<1>3. [own EXCEPT !.gen = LatestCoverageCheckpoint(markers, pass)] \in ReviewMarker
  <2> HIDE DEF own
  <2> QED BY <1>1, <1>2 DEF ReviewMarker
<1> QED
  BY <1>1, <1>3 DEF MarkerForPass

(* Holding findings back leaves findings.                                  *)
LEMMA StampNotPostedType ==
    ASSUME NEW findings \in SUBSET Finding, NEW pass
    PROVE  StampNotPosted(findings, pass) \in SUBSET Finding
BY DEF StampNotPosted, Finding

(* A finding with the number of its unit and head is one of finitely many. *)
LEMMA FindingsAreFinite == ASSUME NEW S \in SUBSET Finding PROVE IsFiniteSet(S)
<1> DEFINE Flags == {"no", "yes"}
           T == (Units \X FindingSeverities) \X (Heads \X Flags)
           f == [g \in Finding |-> <<<<g.id, g.sev>>, <<g.at, IF g.posted THEN "yes" ELSE "no">>>>]
<1>1. IsFiniteSet(Heads)
  BY PRStateAssumption, FS_Interval DEF Heads
<1>2. IsFiniteSet(FindingSeverities)
  <2>1. FindingSeverities = {"fix"} \cup {"low"}
    BY DEF FindingSeverities
  <2> QED BY <2>1, FS_Singleton, FS_Union
<1>3. IsFiniteSet(Flags)
  <2>1. Flags = {"no"} \cup {"yes"}
    OBVIOUS
  <2> HIDE DEF Flags
  <2> QED BY <2>1, FS_Singleton, FS_Union
<1>4. IsFiniteSet(T)
  <2> HIDE DEF Flags
  <2> QED BY <1>1, <1>2, <1>3, FS_Product, PRStateAssumption
<1>5. f \in Injection(Finding, T)
  <2>1. f \in [Finding -> T]
    BY DEF Finding
  <2>2. \A g, h \in Finding : f[g] = f[h] => g = h
    BY DEF Finding
  <2> QED BY <2>1, <2>2 DEF Injection, IsInjective
<1>6. IsFiniteSet(Finding)
  BY <1>4, <1>5, FS_Injection
<1> QED
  BY <1>6, FS_Subset
=============================================================================
