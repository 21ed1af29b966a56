---------------------------- MODULE PolicyProofs ----------------------------
(***************************************************************************)
(* What the decisions of Policy guarantee for every marker, every count of *)
(* standing escalations and every coverage report; and, for the proofs of  *)
(* all the components, what the extrema of a set of naturals are.          *)
(***************************************************************************)
EXTENDS Policy, FiniteSetsExt, TLAPS, FiniteSetTheorems, WellFoundedInduction

(* A finite set of naturals that has an element has a greatest one: among  *)
(* its upper tails, ordered by strict inclusion, one is minimal.           *)
LEMMA MaxIsMember ==
    ASSUME NEW S \in SUBSET Nat, IsFiniteSet(S), S # {}
    PROVE  Max(S) \in S /\ \A y \in S : Max(S) >= y
<1> DEFINE Above(x) == {y \in S : y >= x}
           Tails == {Above(x) : x \in S}
<1>1. IsWellFoundedOn(StrictSubsetOrdering(S), SUBSET S)
  BY FS_StrictSubsetOrderingWellFounded, FS_FiniteSubsetsOfFinite
<1>2. Tails \subseteq SUBSET S /\ Tails # {}
  OBVIOUS
<1>3. \E t \in Tails : \A u \in Tails : ~ (<<u, t>> \in StrictSubsetOrdering(S))
  <2> HIDE DEF Tails
  <2> QED BY <1>1, <1>2, WFMin
<1>4. PICK x \in S : \A u \in Tails : ~ (<<u, Above(x)>> \in StrictSubsetOrdering(S))
  BY <1>3
<1>5. \A y \in S : x >= y
  <2> SUFFICES ASSUME NEW y \in S, y > x PROVE FALSE
    OBVIOUS
  <2>1. Above(y) \subseteq Above(x)
    <3>1. x \in Nat /\ y \in Nat /\ \A z \in S : z \in Nat
      OBVIOUS
    <3>2. \A z \in S : z >= y => z >= x
      BY <3>1
    <3> QED BY <3>2
  <2>2. Above(y) # Above(x)
    <3>1. x \in Above(x) /\ x \notin Above(y)
      OBVIOUS
    <3> QED BY <3>1
  <2>3. <<Above(y), Above(x)>> \in StrictSubsetOrdering(S)
    BY <2>1, <2>2 DEF StrictSubsetOrdering
  <2> QED
    BY <2>3, <1>4
<1> QED
  BY <1>5 DEF Max

(* Every set of naturals that has an element has a least one: among the    *)
(* intervals 0..x that end in it, one is minimal.                          *)
LEMMA MinIsMember ==
    ASSUME NEW S \in SUBSET Nat, S # {}
    PROVE  Min(S) \in S /\ \A y \in S : Min(S) =< y
<1> DEFINE Upto == {0..x : x \in S}
<1>1. IsWellFoundedOn(StrictSubsetOrdering(Nat), FiniteSubsetsOf(Nat))
  BY FS_StrictSubsetOrderingWellFounded
<1>2. Upto \subseteq FiniteSubsetsOf(Nat) /\ Upto # {}
  <2>1. \A x \in S : 0..x \in SUBSET Nat /\ IsFiniteSet(0..x)
    BY FS_Interval
  <2> QED BY <2>1 DEF FiniteSubsetsOf
<1>3. \E t \in Upto : \A u \in Upto : ~ (<<u, t>> \in StrictSubsetOrdering(Nat))
  <2> HIDE DEF Upto
  <2> QED BY <1>1, <1>2, WFMin
<1>4. PICK x \in S : \A u \in Upto : ~ (<<u, 0..x>> \in StrictSubsetOrdering(Nat))
  BY <1>3
<1>5. \A y \in S : x =< y
  <2> SUFFICES ASSUME NEW y \in S, y < x PROVE FALSE
    OBVIOUS
  <2>1. 0..y \subseteq 0..x
    OBVIOUS
  <2>2. 0..y # 0..x
    <3>1. x \in 0..x /\ x \notin 0..y
      OBVIOUS
    <3> QED BY <3>1
  <2>3. <<0..y, 0..x>> \in StrictSubsetOrdering(Nat)
    BY <2>1, <2>2 DEF StrictSubsetOrdering
  <2> QED
    BY <2>3, <1>4
<1> QED
  BY <1>5 DEF Min

(* The newest of a finite set of positions, or zero when there is none.    *)
LEMMA NewestOrZero ==
    ASSUME NEW S \in SUBSET (Nat \ {0}), IsFiniteSet(S)
    PROVE  /\ Max({0} \cup S) \in Nat
           /\ Max({0} \cup S) # 0 => Max({0} \cup S) \in S
           /\ \A j \in S : Max({0} \cup S) # 0 /\ j =< Max({0} \cup S)
<1> DEFINE i == Max({0} \cup S)
<1>1. ({0} \cup S) \in SUBSET Nat /\ IsFiniteSet({0} \cup S) /\ {0} \cup S # {}
  <2>1. IsFiniteSet({0}) /\ IsFiniteSet({0} \cup S)
    BY FS_Singleton, FS_Union
  <2> QED BY <2>1
<1>2. i \in {0} \cup S /\ \A y \in {0} \cup S : i >= y
  BY <1>1, MaxIsMember
<1> HIDE DEF i
<1>3. i \in Nat /\ (i # 0 => i \in S)
  BY <1>2
<1>4. \A j \in S : i >= j /\ j \in Nat /\ j # 0
  BY <1>2
<1>5. \A j \in S : i # 0 /\ j =< i
  BY <1>3, <1>4
<1> QED
  BY <1>3, <1>5 DEF i

-------------------------------------------------------------------------------
(* Halting and re-driving are one decision written twice: a resolve pass   *)
(* that halts by its own marker is exactly one that may be driven again.   *)
THEOREM HaltingIsRedriving ==
  ASSUME NEW m
  PROVE  ResolvePassLabel(m, 0) = "halted" <=> ResolveRedrivable(m)
<1>1. ~(0 > 0)
  OBVIOUS
<1>2. ResolvePassLabel(m, 0) =
        IF ResolveRedrivable(m) THEN "halted"
        ELSE IF m.pushed THEN "awaiting-review" ELSE "converged"
  BY <1>1, Zenon DEF ResolvePassLabel, ResolveRedrivable
<1> QED
  BY <1>2

(* A resolve pass that labels green owes nothing: it pushed nothing, it    *)
(* may not be driven again, no escalation stands anywhere, and no required *)
(* file is left unexamined.                                                *)
THEOREM GreenResolveOwesNothing ==
  ASSUME NEW m, NEW others \in Nat, NEW c,
         ResolvePassLabelWithCoverage(m, others, c) = "converged"
  PROVE  /\ ~ResolveRedrivable(m) /\ ~m.pushed
         /\ others = 0
         /\ c.couldNotReview = 0
<1>1. ResolvePassLabel(m, others) = "converged" /\ Converged(c)
  BY DEF ResolvePassLabelWithCoverage
<1>2. ~ResolveRedrivable(m) /\ ~m.pushed /\ ~(others > 0)
  BY <1>1 DEF ResolvePassLabel, ResolveRedrivable
<1>3. others = 0
  BY <1>2
<1>4. c.couldNotReview = 0
  BY <1>1 DEF Converged
<1> QED
  BY <1>2, <1>3, <1>4

(* The gate only takes green away: with the coverage obligation met the    *)
(* two labels agree, and unmet it never leaves a pass converged.           *)
THEOREM CoverageOnlyWithholdsGreen ==
  ASSUME NEW verdict, NEW actionable \in Nat, NEW escalated \in Nat, NEW c
  PROVE  /\ PassLabelWithCoverage(verdict, actionable, escalated, c) = "converged"
              <=> PassLabel(verdict, actionable, escalated) = "converged" /\ Converged(c)
         /\ PassLabel(verdict, actionable, escalated) # "converged" =>
              PassLabelWithCoverage(verdict, actionable, escalated, c) =
                PassLabel(verdict, actionable, escalated)
BY DEF PassLabelWithCoverage
=============================================================================
