--------------------------- MODULE ReviewLegProofs ---------------------------
(***************************************************************************)
(* Theorems about the review leg, for any number of units, heads, bases,   *)
(* reviewers, markers, moves and faults.                                   *)
(***************************************************************************)
EXTENDS ReviewLeg, PRStateProofs

(* A run that was admitted works on one revision pair with one reviewer,   *)
(* and one about to label has chosen an outcome label.                     *)
BoundRecord(m) ==
    /\ m.step # "idle" => m.head \in Heads /\ m.base \in Bases /\ m.producer \in Producers
    /\ m.step = "mark" => m.next \in OutcomeLabels

Bound == \A r \in Runs : BoundRecord(run[r])

TypeInv == TypeOK /\ Bound

(* A run at rest is a run's record. *)
LEMMA IdleRunType == IdleRun \in RunRecord
<1>1. BlankMarker(0) \in ReviewMarker
  BY BlankMarkerType
<1>2. <<>> \in [{} -> RecordVerdicts]
  OBVIOUS
<1> QED
  BY <1>1, <1>2 DEF IdleRun, RunRecord, Steps, NoPair, Pairs, OutcomeLabels

(* Whatever the label calls achieve, only outcome labels and "stop" stand. *)
LEMMA LabelsType ==
    ASSUME labels \subseteq OutcomeLabels \cup {"stop"}, NEW next \in OutcomeLabels
    PROVE  /\ CleanLabels(next) \subseteq OutcomeLabels \cup {"stop"}
           /\ \A ls \in LabelResults(next) : ls \subseteq OutcomeLabels \cup {"stop"}
BY DEF CleanLabels, LabelResults

(* Admission answers a pass number, and a position of a marker unless the  *)
(* pass is new.                                                            *)
LEMMA AdmissionType ==
    ASSUME NEW markers \in Seq(ReviewMarker)
    PROVE  LET a == Admission(markers)
           IN  /\ a.kind \in {"new", "resume", "stale", "redrive", "already"}
               /\ a.pass \in Nat /\ a.at \in Nat
               /\ a.kind \in {"resume", "stale", "redrive"} => a.at \in DOMAIN markers
<1> DEFINE cur == CurrentReviewPass(markers)
           i == MarkerFor(markers, cur)
<1>1. cur \in Nat
  BY CurrentReviewPassType
<1>2. i \in Nat /\ (i # 0 => i \in DOMAIN markers)
  BY MarkerForType
<1>3. Admission(markers) =
        IF OpenClaim(markers, cur)
        THEN [kind |-> IF ClaimIsStale(markers[i], head) THEN "stale" ELSE "resume",
              pass |-> cur, at |-> i]
        ELSE IF IsNewRevision(markers, head)
        THEN [kind |-> "new", pass |-> cur + 1, at |-> 0]
        ELSE IF i # 0 /\ ReviewRedrivable(markers[i].state, markers[i].verdict)
        THEN [kind |-> "redrive", pass |-> cur, at |-> i]
        ELSE [kind |-> "already", pass |-> cur, at |-> i]
  BY DEF Admission
<1>4. OpenClaim(markers, cur) => i # 0
  BY DEF OpenClaim
<1> HIDE DEF cur, i
<1> QED
  BY <1>1, <1>2, <1>3, <1>4

(* The claim a run holds is a marker. *)
LEMMA ClaimForType ==
    ASSUME reviews \in Seq(ReviewMarker), head \in Heads, NEW a,
           a.kind \in {"new", "resume", "stale", "redrive"}, a.pass \in Nat,
           a.kind # "new" => a.at \in DOMAIN reviews
    PROVE  ClaimFor(a) \in ReviewMarker
<1>1. CASE a.kind = "new"
  <2>1. BlankMarker(a.pass) \in ReviewMarker
    BY BlankMarkerType
  <2> QED
    BY <1>1, <2>1 DEF ClaimFor, StartedMarker, ReviewMarker, PassStates
<1>2. CASE a.kind # "new"
  <2>1. reviews[a.at] \in ReviewMarker
    BY <1>2
  <2>2. a.kind = "resume" => ClaimFor(a) = reviews[a.at]
    BY DEF ClaimFor
  <2>3. a.kind = "stale" => ClaimFor(a) \in ReviewMarker
    BY <2>1 DEF ClaimFor, ReviewMarker, PassStates, MarkerVerdicts
  <2>4. a.kind = "redrive" => ClaimFor(a) \in ReviewMarker
    BY <2>1 DEF ClaimFor, ReviewMarker, PassStates, MarkerVerdicts, Reasons
  <2> QED
    BY <1>2, <2>1, <2>2, <2>3, <2>4
<1> QED
  BY <1>1, <1>2

(* The standing escalations are a count. *)
LEMMA EscalatedCountType ==
    ASSUME NEW repairs \in Seq(Repair)
    PROVE  EscalatedCount(repairs) \in Nat
<1>1. IsFiniteSet(DOMAIN repairs)
  <2>1. DOMAIN repairs = 1..Len(repairs) /\ Len(repairs) \in Nat
    OBVIOUS
  <2> QED BY <2>1, FS_Interval
<1>2. IsFiniteSet({i \in DOMAIN repairs : repairs[i].escalated})
  BY <1>1, FS_Subset
<1> QED
  BY <1>2, FS_CardinalityType DEF EscalatedCount

(* The repair under confirmation is a pair of revisions or none. *)
LEMMA RepairConfirmationType ==
    ASSUME NEW repairs \in Seq(Repair), head \in Heads
    PROVE  RepairConfirmation(repairs) \in Pairs
<1> DEFINE pushed == {i \in DOMAIN repairs : repairs[i].commit # NoHead}
           P == {repairs[i].pass : i \in pushed}
           newest == {i \in pushed : repairs[i].pass = Max(P)}
           best == repairs[Min(newest)]
<1>1. CASE pushed = {}
  BY <1>1 DEF RepairConfirmation, NoPair, Pairs
<1>2. CASE pushed # {}
  <2>1. DOMAIN repairs = 1..Len(repairs) /\ Len(repairs) \in Nat
        /\ \A i \in DOMAIN repairs : repairs[i] \in Repair
    OBVIOUS
  <2>2. IsFiniteSet(pushed) /\ pushed \in SUBSET Nat
    <3>1. IsFiniteSet(1..Len(repairs))
      BY <2>1, FS_Interval
    <3>2. pushed \in SUBSET (1..Len(repairs))
      BY <2>1
    <3>3. pushed \in SUBSET Nat
      BY <2>1, <3>2
    <3>4. IsFiniteSet(pushed)
      <4> HIDE DEF pushed
      <4> QED BY <3>1, <3>2, FS_Subset
    <3> QED BY <3>3, <3>4
  <2>3. P \in SUBSET Nat /\ P # {}
    <3>1. \A i \in pushed : repairs[i].pass \in Nat
      BY <2>1 DEF Repair
    <3> HIDE DEF pushed
    <3> QED BY <3>1, <1>2
  <2>4. IsFiniteSet(P)
    <3> DEFINE f == [i \in pushed |-> repairs[i].pass]
    <3>1. f \in Surjection(pushed, P)
      BY DEF Surjection
    <3> QED BY <2>2, <3>1, FS_Surjection
  <2>5. Max(P) \in P
    <3> HIDE DEF P
    <3> QED BY <2>3, <2>4, MaxIsMember
  <2>6. newest # {}
    BY <2>5
  <2>7. Min(newest) \in newest
    <3>1. newest \in SUBSET Nat
      BY <2>2
    <3> HIDE DEF newest
    <3> QED BY <2>6, <3>1, MinIsMember
  <2>8. best \in Repair
    BY <2>1, <2>7
  <2>9. RepairConfirmation(repairs) =
          IF best.commit = head /\ best.head # head THEN [from |-> best.head, to |-> head]
          ELSE NoPair
    BY <1>2 DEF RepairConfirmation
  <2> HIDE DEF best
  <2> QED
    BY <2>8, <2>9 DEF Repair, Pairs, NoPair
<1> QED
  BY <1>1, <1>2

(***************************************************************************)
(* What the steps have in common.                                          *)
(***************************************************************************)
(* Replacing one run's record by a typed and bound one. *)
LEMMA RunUpdate ==
    ASSUME TypeInv, NEW r \in Runs, NEW m \in RunRecord, BoundRecord(m),
           run' = [run EXCEPT ![r] = m]
    PROVE  run' \in [Runs -> RunRecord] /\ Bound'
BY DEF TypeInv, TypeOK, Bound, BoundRecord

(* Moving on to another step. *)
LEMMA GotoType ==
    ASSUME TypeInv, NEW r \in Runs, ~At(r, "idle"),
           NEW s \in Steps \ {"mark"}, Goto(r, s)
    PROVE  run' \in [Runs -> RunRecord] /\ Bound'
<1> DEFINE m == [run[r] EXCEPT !.step = s]
<1>1. run[r] \in RunRecord /\ BoundRecord(run[r])
  BY DEF TypeInv, TypeOK, Bound
<1>2. m \in RunRecord /\ BoundRecord(m)
  BY <1>1 DEF RunRecord, BoundRecord, At
<1>3. run' = [run EXCEPT ![r] = m]
  BY DEF Goto
<1> HIDE DEF m
<1> QED
  BY <1>2, <1>3, RunUpdate

(* Ending the run. *)
LEMMA FinishType ==
    ASSUME TypeInv, NEW r \in Runs, Finish(r)
    PROVE  run' \in [Runs -> RunRecord] /\ Bound'
<1>1. IdleRun \in RunRecord /\ BoundRecord(IdleRun)
  BY IdleRunType DEF BoundRecord, IdleRun
<1> QED
  BY <1>1, RunUpdate DEF Finish

(* Rewriting a claim comment. *)
LEMMA EditType ==
    ASSUME reviews \in Seq(ReviewMarker), NEW r, NEW m \in ReviewMarker, Edit(r, m)
    PROVE  reviews' \in Seq(ReviewMarker)
<1>1. CASE run[r].at \in 1..Len(reviews)
  BY <1>1, ExceptSeq DEF Edit
<1>2. CASE run[r].at \notin 1..Len(reviews)
  <2>1. reviews' = reviews
    BY <1>2 DEF Edit
  <2> QED BY <2>1
<1> QED
  BY <1>1, <1>2

(* Spending a fault. *)
LEMMA FaultyType ==
    ASSUME used \in [moves : Nat, faults : Nat], Faulty
    PROVE  used' \in [moves : Nat, faults : Nat]
BY DEF Faulty

(* Spending a move. *)
LEMMA MoveType ==
    ASSUME used \in [moves : Nat, faults : Nat], Move
    PROVE  used' \in [moves : Nat, faults : Nat]
BY DEF Move

LEMMA ApplyPassLabelsType ==
    ASSUME TypeOK, NEW next \in OutcomeLabels, NEW added, ApplyPassLabels(next, added)
    PROVE  /\ labels' \subseteq OutcomeLabels \cup {"stop"}
           /\ used' \in [moves : Nat, faults : Nat]
BY LabelsType, FaultyType DEF TypeOK, ApplyPassLabels

(***************************************************************************)
(* The steps of a run.                                                     *)
(***************************************************************************)
LEMMA AdmitFromType ==
    ASSUME TypeInv, NEW r \in Runs, NEW markers \in Seq(ReviewMarker),
           DOMAIN markers \subseteq DOMAIN reviews, NEW repairs \in Seq(Repair),
           AdmitFrom(r, markers, repairs)
    PROVE  run' \in [Runs -> RunRecord] /\ Bound'
<1> DEFINE a == Admission(markers)
<1>1. a.kind \in {"new", "resume", "stale", "redrive"} /\ a.pass \in Nat /\ a.at \in Nat
      /\ (a.kind # "new" => a.at \in DOMAIN reviews)
  <2>1. a.kind # "already"
    BY DEF AdmitFrom
  <2> QED
    BY <2>1, AdmissionType
<1>2. ClaimFor(a) \in ReviewMarker
  <2>1. reviews \in Seq(ReviewMarker) /\ head \in Heads
    BY DEF TypeInv, TypeOK
  <2> HIDE DEF a
  <2> QED
    BY <1>1, <2>1, ClaimForType
<1>3. MarkerForPass(markers, a.pass) \in ReviewMarker
  BY <1>1, MarkerForPassType
<1>4. HeldEarlierIDs(markers) \subseteq Units
  BY DEF HeldEarlierIDs
<1>5. EscalatedCount(repairs) \in Nat
  BY EscalatedCountType
<1>6. RepairConfirmation(repairs) \in Pairs
  BY RepairConfirmationType DEF TypeInv, TypeOK
<1>7. PICK producer \in Producers, step \in {"decline", "claim"} :
        run' = [run EXCEPT ![r] =
                 [IdleRun EXCEPT
                    !.step = step, !.pass = a.pass, !.kind = a.kind, !.at = a.at,
                    !.head = head, !.base = base, !.producer = producer,
                    !.out = ClaimFor(a), !.mk = MarkerForPass(markers, a.pass),
                    !.held = HeldEarlierIDs(markers),
                    !.escalated = EscalatedCount(repairs),
                    !.pair = RepairConfirmation(repairs)]]
  BY DEF AdmitFrom
<1> DEFINE m == [IdleRun EXCEPT
                    !.step = step, !.pass = a.pass, !.kind = a.kind, !.at = a.at,
                    !.head = head, !.base = base, !.producer = producer,
                    !.out = ClaimFor(a), !.mk = MarkerForPass(markers, a.pass),
                    !.held = HeldEarlierIDs(markers),
                    !.escalated = EscalatedCount(repairs),
                    !.pair = RepairConfirmation(repairs)]
<1>8. m \in RunRecord /\ BoundRecord(m)
  <2>1. head \in Heads /\ base \in Bases
    BY DEF TypeInv, TypeOK
  <2>2. step \in Steps \ {"idle", "mark"}
    BY DEF Steps
  <2>3. a.kind \in {"none", "new", "resume", "stale", "redrive"}
    BY <1>1
  <2> HIDE DEF a
  <2>4. m \in RunRecord
    BY <1>1, <1>2, <1>3, <1>4, <1>5, <1>6, <2>1, <2>2, <2>3, IdleRunType DEF RunRecord
  <2>5. BoundRecord(m)
    BY <2>1, <2>2 DEF BoundRecord, IdleRun
  <2> QED
    BY <2>4, <2>5
<1>9. run' = [run EXCEPT ![r] = m]
  BY <1>7
<1> HIDE DEF m
<1> QED
  BY <1>8, <1>9, RunUpdate

(* What a run holds is a record of its type.                               *)
LEMMA RunIsRecord ==
    ASSUME TypeInv, NEW r \in Runs
    PROVE  run[r] \in RunRecord /\ BoundRecord(run[r])
BY DEF TypeInv, TypeOK, Bound

Coverage == UNION {[S -> RecordVerdicts] : S \in SUBSET Units}

LEMMA CoverageFunctions ==
    \A f : f \in Coverage <=> DOMAIN f \subseteq Units /\ f \in [DOMAIN f -> RecordVerdicts]
BY DEF Coverage

LEMMA PostDeclinedType ==
    ASSUME TypeInv, NEW r \in Runs, PostDeclined(r) PROVE TypeInv'
<1>1. run' \in [Runs -> RunRecord] /\ Bound'
  BY GotoType DEF PostDeclined, At, Steps
<1>2. [BlankMarker(run[r].pass) EXCEPT !.state = "declined", !.head = run[r].head,
         !.verdict = "declined", !.reason = "cap"] \in ReviewMarker
  <2>1. run[r].pass \in Nat /\ run[r].head \in Heads \cup {NoHead}
    BY RunIsRecord DEF RunRecord
  <2>2. BlankMarker(run[r].pass) \in ReviewMarker
    BY <2>1, BlankMarkerType
  <2> QED
    BY <2>1, <2>2 DEF ReviewMarker, PassStates, MarkerVerdicts, Reasons
<1>3. reviews' \in Seq(ReviewMarker)
  BY <1>2, AppendProperties DEF PostDeclined, TypeInv, TypeOK
<1> QED
  BY <1>1, <1>3 DEF PostDeclined, TypeInv, TypeOK

LEMMA PostClaimType ==
    ASSUME TypeInv, NEW r \in Runs, PostClaim(r) PROVE TypeInv'
<1> DEFINE m == [run[r] EXCEPT !.step = "scope",
                   !.at = IF run[r].kind = "new" THEN Len(reviews) + 1 ELSE @]
<1>1. run[r] \in RunRecord /\ BoundRecord(run[r]) /\ run[r].step = "claim"
  BY RunIsRecord DEF PostClaim, At
<1>2. reviews \in Seq(ReviewMarker) /\ Len(reviews) \in Nat
  BY DEF TypeInv, TypeOK
<1>3. m \in RunRecord /\ BoundRecord(m)
  <2> DEFINE at == IF run[r].kind = "new" THEN Len(reviews) + 1 ELSE run[r].at
  <2>1. at \in Nat
    BY <1>1, <1>2 DEF RunRecord
  <2>2. m = [run[r] EXCEPT !.step = "scope", !.at = at]
    OBVIOUS
  <2> HIDE DEF at, m
  <2>3. m \in RunRecord
    BY <1>1, <2>1, <2>2 DEF RunRecord, Steps
  <2>4. BoundRecord(m)
    BY <1>1, <2>2 DEF BoundRecord, RunRecord
  <2> QED
    BY <2>3, <2>4
<1>4. run' = [run EXCEPT ![r] = m]
  BY DEF PostClaim
<1>5. run' \in [Runs -> RunRecord] /\ Bound'
  <2> HIDE DEF m
  <2> QED BY <1>3, <1>4, RunUpdate
<1>6. reviews' \in Seq(ReviewMarker)
  <2>1. run[r].out \in ReviewMarker
    BY <1>1 DEF RunRecord
  <2>2. CASE run[r].kind = "new"
    BY <2>1, <2>2, <1>2, AppendProperties DEF PostClaim
  <2>3. CASE run[r].kind = "redrive"
    BY <2>1, <2>3, <1>2, EditType DEF PostClaim
  <2>4. CASE run[r].kind \notin {"new", "redrive"}
    BY <2>4, <1>2 DEF PostClaim
  <2> QED
    BY <2>2, <2>3, <2>4
<1> QED
  BY <1>5, <1>6 DEF PostClaim, TypeInv, TypeOK

LEMMA PackType ==
    ASSUME TypeInv, NEW r \in Runs, Pack(r) PROVE TypeInv'
<1> DEFINE R == run[r]
           mk == run[r].mk
<1>1. R \in RunRecord /\ BoundRecord(R) /\ R.step = "pack"
  BY RunIsRecord DEF Pack, At
<1>2. PICK lost \in BOOLEAN :
        LET current == ~lost /\ GenerationCurrent(mk.gen, R.base, R.head, R.producer)
            accepted == IF current THEN Judged(mk.gen.recs) ELSE {}
            required == {u \in RequiredAt(R.head) : u \in accepted \/ u \notin Generated}
        IN  run' = [run EXCEPT ![r] = [R EXCEPT
              !.step = IF required = {} THEN "nothing" ELSE "initial",
              !.late = required = {},
              !.recs = [u \in required |->
                          IF u \in accepted THEN mk.gen.recs[u] ELSE "outstanding"],
              !.found = mk.findings,
              !.mk = [mk EXCEPT !.pass = R.pass, !.head = R.out.head, !.old = R.out.old]]]
  <2>1. \A lost \in {FALSE, MayLose} : lost \in BOOLEAN
    BY ReviewLegAssumption
  <2> QED
    BY <2>1 DEF Pack
<1> DEFINE current == ~lost /\ GenerationCurrent(mk.gen, R.base, R.head, R.producer)
           accepted == IF current THEN Judged(mk.gen.recs) ELSE {}
           required == {u \in RequiredAt(R.head) : u \in accepted \/ u \notin Generated}
           recs == [u \in required |->
                     IF u \in accepted THEN mk.gen.recs[u] ELSE "outstanding"]
           marker == [mk EXCEPT !.pass = R.pass, !.head = R.out.head, !.old = R.out.old]
           step == IF required = {} THEN "nothing" ELSE "initial"
           late == required = {}
           m == [R EXCEPT !.step = step, !.late = late, !.recs = recs,
                          !.found = mk.findings, !.mk = marker]
<1>3. mk \in ReviewMarker /\ R.out \in ReviewMarker /\ R.pass \in Nat /\ R.head \in Heads
  BY <1>1 DEF RunRecord, BoundRecord
<1>4. required \subseteq Units
  BY <1>3, ReviewLegAssumption DEF RequiredAt
<1>5. \A u \in accepted : mk.gen.recs[u] \in RecordVerdicts
  <2> SUFFICES ASSUME current PROVE \A u \in Judged(mk.gen.recs) : mk.gen.recs[u] \in RecordVerdicts
    OBVIOUS
  <2>1. mk.gen \in Generation
    BY <1>3 DEF GenerationCurrent, ReviewMarker, NoGen
  <2>2. mk.gen.recs \in Coverage
    BY <2>1 DEF Generation, Coverage
  <2> QED
    BY <2>2, CoverageFunctions DEF Judged
<1>6. recs \in Coverage
  <2>1. recs \in [required -> RecordVerdicts]
    <3> HIDE DEF accepted, required
    <3> QED BY <1>5 DEF RecordVerdicts
  <2> QED BY <2>1, <1>4 DEF Coverage
<1>7. marker \in ReviewMarker /\ mk.findings \in SUBSET Finding
  BY <1>3 DEF ReviewMarker
<1>8. step \in {"nothing", "initial"} /\ late \in BOOLEAN
  OBVIOUS
<1>9. m \in RunRecord /\ BoundRecord(m)
  <2> HIDE DEF recs, marker, step, late
  <2>1. m \in RunRecord
    BY <1>1, <1>6, <1>7, <1>8 DEF RunRecord, Coverage, Steps
  <2>2. BoundRecord(m)
    BY <1>1, <1>8 DEF BoundRecord, RunRecord
  <2> QED
    BY <2>1, <2>2
<1>10. run' = [run EXCEPT ![r] = m]
  BY <1>2
<1>11. run' \in [Runs -> RunRecord] /\ Bound'
  <2> HIDE DEF m
  <2> QED BY <1>9, <1>10, RunUpdate
<1> QED
  BY <1>11 DEF Pack, TypeInv, TypeOK, pr

(* What a run's fields are. *)
LEMMA RunFields ==
    ASSUME NEW R \in RunRecord
    PROVE  /\ R.pass \in Nat /\ R.at \in Nat
           /\ R.out \in ReviewMarker /\ R.mk \in ReviewMarker
           /\ R.recs \in Coverage /\ R.found \in SUBSET Finding
           /\ R.todo \in SUBSET Finding /\ R.pair \in Pairs
           /\ R.last \in ReviewVerdicts \cup {"none"}
BY DEF RunRecord, Coverage

(* A generation made of a bound run's coverage is a generation. *)
LEMMA GenerationOfType ==
    ASSUME NEW r \in Runs, run[r] \in RunRecord, BoundRecord(run[r]), ~At(r, "idle")
    PROVE  GenerationOf(r) \in Generation
<1>1. run[r].recs \in Coverage
  BY RunFields
<1> QED
  BY <1>1 DEF GenerationOf, Generation, Coverage, BoundRecord, At

LEMMA PublishInitialType ==
    ASSUME TypeInv, NEW r \in Runs, PublishInitial(r) PROVE TypeInv'
<1> DEFINE marker == [run[r].mk EXCEPT !.gen = GenerationOf(r)]
           m == [run[r] EXCEPT !.step = "plan", !.mk = marker, !.out = marker]
<1>1. run[r] \in RunRecord /\ BoundRecord(run[r]) /\ run[r].step = "initial"
  BY RunIsRecord DEF PublishInitial, At
<1>2. marker \in ReviewMarker
  BY <1>1, GenerationOfType, RunFields DEF ReviewMarker, At
<1>3. m \in RunRecord /\ BoundRecord(m)
  <2> HIDE DEF marker
  <2>1. m \in RunRecord
    BY <1>1, <1>2 DEF RunRecord, Steps
  <2>2. BoundRecord(m)
    BY <1>1 DEF BoundRecord, RunRecord
  <2> QED BY <2>1, <2>2
<1>4. run' = [run EXCEPT ![r] = m]
  BY DEF PublishInitial
<1>5. run' \in [Runs -> RunRecord] /\ Bound'
  <2> HIDE DEF m
  <2> QED BY <1>3, <1>4, RunUpdate
<1> QED
  BY <1>5 DEF PublishInitial, TypeInv, TypeOK, pr

LEMMA JudgeType ==
    ASSUME TypeInv, NEW r \in Runs, Judge(r) PROVE TypeInv'
<1> DEFINE R == run[r]
<1>1. R \in RunRecord /\ BoundRecord(R) /\ R.step = "plan"
  BY RunIsRecord DEF Judge, At
<1>2. PICK batch \in SUBSET Outstanding(r), verdict \in ReviewVerdicts :
        \E answer \in [batch -> Answers] :
          run' = [run EXCEPT ![r] = [R EXCEPT
            !.step = "record", !.last = verdict,
            !.recs = [u \in DOMAIN R.recs |-> IF u \in batch THEN Verdict(answer[u]) ELSE R.recs[u]],
            !.found = R.found \cup
               {[id |-> u, sev |-> answer[u], at |-> R.head, posted |-> TRUE] :
                  u \in {v \in batch : Verdict(answer[v]) = "finding"}}]]
  BY DEF Judge
<1>3. PICK answer \in [batch -> Answers] :
          run' = [run EXCEPT ![r] = [R EXCEPT
            !.step = "record", !.last = verdict,
            !.recs = [u \in DOMAIN R.recs |-> IF u \in batch THEN Verdict(answer[u]) ELSE R.recs[u]],
            !.found = R.found \cup
               {[id |-> u, sev |-> answer[u], at |-> R.head, posted |-> TRUE] :
                  u \in {v \in batch : Verdict(answer[v]) = "finding"}}]]
  BY <1>2
<1> DEFINE recs == [u \in DOMAIN R.recs |-> IF u \in batch THEN Verdict(answer[u]) ELSE R.recs[u]]
           new == {[id |-> u, sev |-> answer[u], at |-> R.head, posted |-> TRUE] :
                     u \in {v \in batch : Verdict(answer[v]) = "finding"}}
           found == R.found \cup new
           m == [R EXCEPT !.step = "record", !.last = verdict, !.recs = recs, !.found = found]
<1>4. R.recs \in Coverage /\ R.found \in SUBSET Finding /\ R.head \in Heads
  BY <1>1, RunFields DEF BoundRecord
<1>5. DOMAIN R.recs \subseteq Units /\ R.recs \in [DOMAIN R.recs -> RecordVerdicts]
  BY <1>4, CoverageFunctions
<1>6. batch \subseteq DOMAIN R.recs
  BY DEF Outstanding
<1>7. \A u \in batch : Verdict(answer[u]) \in RecordVerdicts
  BY DEF Verdict, Answers, RecordVerdicts
<1>8. recs \in Coverage
  <2>1. recs \in [DOMAIN R.recs -> RecordVerdicts]
    BY <1>5, <1>7
  <2> QED BY <2>1, <1>5 DEF Coverage
<1>9. found \in SUBSET Finding
  <2>1. \A u \in batch : Verdict(answer[u]) = "finding" => answer[u] \in FindingSeverities
    BY DEF Verdict, Answers, FindingSeverities
  <2>2. new \in SUBSET Finding
    <3> SUFFICES ASSUME NEW u \in batch, Verdict(answer[u]) = "finding"
                 PROVE  [id |-> u, sev |-> answer[u], at |-> R.head, posted |-> TRUE] \in Finding
      OBVIOUS
    <3> QED BY <2>1, <1>4, <1>5, <1>6 DEF Finding
  <2> QED BY <2>2, <1>4
<1>10. m \in RunRecord /\ BoundRecord(m)
  <2> HIDE DEF recs, found
  <2>1. m \in RunRecord
    BY <1>1, <1>8, <1>9 DEF RunRecord, Steps, Coverage
  <2>2. BoundRecord(m)
    BY <1>1 DEF BoundRecord, RunRecord
  <2> QED BY <2>1, <2>2
<1>11. run' = [run EXCEPT ![r] = m]
  BY <1>3
<1>12. run' \in [Runs -> RunRecord] /\ Bound'
  <2> HIDE DEF m
  <2> QED BY <1>10, <1>11, RunUpdate
<1> QED
  BY <1>12 DEF Judge, TypeInv, TypeOK, pr

LEMMA RecordBatchType ==
    ASSUME TypeInv, NEW r \in Runs, RecordBatch(r) PROVE TypeInv'
<1> DEFINE findings == IF run[r].found = {} THEN run[r].mk.findings ELSE run[r].found
           marker == [run[r].mk EXCEPT !.gen = GenerationOf(r), !.findings = findings]
           m == [run[r] EXCEPT !.step = "edit", !.mk = marker, !.out = marker]
<1>1. run[r] \in RunRecord /\ BoundRecord(run[r]) /\ run[r].step = "record"
  BY RunIsRecord DEF RecordBatch, At
<1>2. findings \in SUBSET Finding
  BY <1>1, RunFields DEF ReviewMarker
<1>3. marker \in ReviewMarker
  <2> HIDE DEF findings
  <2>1. GenerationOf(r) \in Generation /\ run[r].mk \in ReviewMarker
    BY <1>1, GenerationOfType, RunFields DEF At
  <2> QED BY <2>1, <1>2 DEF ReviewMarker
<1>4. m \in RunRecord /\ BoundRecord(m)
  <2> HIDE DEF marker
  <2>1. m \in RunRecord
    BY <1>1, <1>3 DEF RunRecord, Steps
  <2>2. BoundRecord(m)
    BY <1>1 DEF BoundRecord, RunRecord
  <2> QED BY <2>1, <2>2
<1>5. run' = [run EXCEPT ![r] = m]
  BY DEF RecordBatch
<1>6. run' \in [Runs -> RunRecord] /\ Bound'
  <2> HIDE DEF m
  <2> QED BY <1>4, <1>5, RunUpdate
<1> QED
  BY <1>6 DEF RecordBatch, TypeInv, TypeOK, pr

LEMMA EditBatchType ==
    ASSUME TypeInv, NEW r \in Runs, EditBatch(r) PROVE TypeInv'
<1>1. run' \in [Runs -> RunRecord] /\ Bound'
  BY GotoType DEF EditBatch, At, Steps
<1>2. [run[r].mk EXCEPT !.state = "started"] \in ReviewMarker
  <2>1. run[r].mk \in ReviewMarker
    BY RunIsRecord, RunFields
  <2> QED BY <2>1 DEF ReviewMarker, PassStates
<1>3. reviews' \in Seq(ReviewMarker)
  BY <1>2, EditType DEF EditBatch, TypeInv, TypeOK
<1> QED
  BY <1>1, <1>3 DEF EditBatch, TypeInv, TypeOK

LEMMA HaltPassType ==
    ASSUME TypeInv, NEW r \in Runs, HaltPass(r) PROVE TypeInv'
<1> DEFINE out == run[r].out
           findings == IF out.findings = {} THEN run[r].mk.findings ELSE out.findings
           marker == [run[r].mk EXCEPT !.state = "incomplete", !.stop = TRUE,
                        !.head = out.head, !.old = out.old, !.findings = findings]
           m == [run[r] EXCEPT !.step = "halted", !.out = marker]
<1>1. run[r] \in RunRecord /\ BoundRecord(run[r]) /\ run[r].step = "halt"
  BY RunIsRecord DEF HaltPass, At
<1>2. run[r].mk \in ReviewMarker /\ out \in ReviewMarker
  BY <1>1, RunFields
<1>3. findings \in SUBSET Finding
  BY <1>2 DEF ReviewMarker
<1>4. marker \in ReviewMarker
  <2> HIDE DEF findings
  <2> QED BY <1>2, <1>3 DEF ReviewMarker, PassStates
<1>5. m \in RunRecord /\ BoundRecord(m)
  <2> HIDE DEF marker
  <2>1. m \in RunRecord
    BY <1>1, <1>4 DEF RunRecord, Steps
  <2>2. BoundRecord(m)
    BY <1>1 DEF BoundRecord, RunRecord
  <2> QED BY <2>1, <2>2
<1>6. run' = [run EXCEPT ![r] = m] /\ Edit(r, marker)
  BY DEF HaltPass
<1>7. run' \in [Runs -> RunRecord] /\ Bound'
  <2> HIDE DEF m
  <2> QED BY <1>5, <1>6, RunUpdate
<1>8. reviews' \in Seq(ReviewMarker)
  <2> HIDE DEF marker
  <2> QED BY <1>4, <1>6, EditType DEF TypeInv, TypeOK
<1> QED
  BY <1>7, <1>8 DEF HaltPass, TypeInv, TypeOK

LEMMA SettleNothingType ==
    ASSUME TypeInv, NEW r \in Runs, SettleNothing(r) PROVE TypeInv'
<1> DEFINE own == IF run[r].late THEN run[r].mk ELSE run[r].out
           marker == [own EXCEPT !.state = "complete", !.verdict = "blocked", !.reason = "nothing"]
           m == [run[r] EXCEPT !.step = "emptied", !.out = marker]
<1>1. run[r] \in RunRecord /\ BoundRecord(run[r]) /\ run[r].step = "nothing"
  BY RunIsRecord DEF SettleNothing, At
<1>2. own \in ReviewMarker
  BY <1>1, RunFields
<1>3. marker \in ReviewMarker
  <2> HIDE DEF own
  <2> QED BY <1>2 DEF ReviewMarker, PassStates, MarkerVerdicts, ReviewVerdicts, Reasons
<1>4. m \in RunRecord /\ BoundRecord(m)
  <2> HIDE DEF marker
  <2>1. m \in RunRecord
    BY <1>1, <1>3 DEF RunRecord, Steps
  <2>2. BoundRecord(m)
    BY <1>1 DEF BoundRecord, RunRecord
  <2> QED BY <2>1, <2>2
<1>5. run' = [run EXCEPT ![r] = m] /\ Edit(r, marker)
  BY DEF SettleNothing
<1>6. run' \in [Runs -> RunRecord] /\ Bound'
  <2> HIDE DEF m
  <2> QED BY <1>4, <1>5, RunUpdate
<1>7. reviews' \in Seq(ReviewMarker)
  <2> HIDE DEF marker
  <2> QED BY <1>3, <1>5, EditType DEF TypeInv, TypeOK
<1> QED
  BY <1>6, <1>7 DEF SettleNothing, TypeInv, TypeOK

LEMMA ReportedType ==
    ASSUME NEW m \in ReviewMarker PROVE Reported(m) \in ReviewMarker
BY DEF Reported, ReviewMarker, PassStates, MarkerVerdicts, ReviewVerdicts, Reasons

LEMMA LabelEmptiedType ==
    ASSUME TypeInv, NEW r \in Runs, LabelEmptied(r) PROVE TypeInv'
<1>1. run' \in [Runs -> RunRecord] /\ Bound'
  BY FinishType DEF LabelEmptied
<1>2. Reported(run[r].out) \in ReviewMarker
  BY RunIsRecord, RunFields, ReportedType
<1>3. reviews' \in Seq(ReviewMarker)
  BY <1>2, EditType DEF LabelEmptied, TypeInv, TypeOK
<1>4. labels' \subseteq OutcomeLabels \cup {"stop"} /\ used' \in [moves : Nat, faults : Nat]
  BY ApplyPassLabelsType DEF LabelEmptied, TypeInv, OutcomeLabels
<1> QED
  BY <1>1, <1>3, <1>4 DEF LabelEmptied, TypeInv, TypeOK

LEMMA LabelHaltedType ==
    ASSUME TypeInv, NEW r \in Runs, LabelHalted(r) PROVE TypeInv'
<1>1. run' \in [Runs -> RunRecord] /\ Bound'
  BY FinishType DEF LabelHalted
<1>2. labels' \subseteq OutcomeLabels \cup {"stop"} /\ used' \in [moves : Nat, faults : Nat]
  BY ApplyPassLabelsType DEF LabelHalted, TypeInv, OutcomeLabels
<1> QED
  BY <1>1, <1>2 DEF LabelHalted, TypeInv, TypeOK

(* The verdict a covered pass publishes is a verdict. *)
LEMMA FinishCoveredType ==
    ASSUME TypeInv, NEW r \in Runs, FinishCovered(r) PROVE TypeInv'
<1> DEFINE R == run[r]
           verdict == IF R.last = "none" THEN VerdictForResumed(r) ELSE R.last
           findings == StampNotPosted(R.found, R.pass)
<1>1. R \in RunRecord /\ BoundRecord(R) /\ R.step = "plan"
  BY RunIsRecord DEF FinishCovered, At
<1>2. PICK confirm \in {R.pair, NoPair}, already \in {PostedIDs, {}} :
        /\ IF confirm = R.pair /\ already = PostedIDs THEN UNCHANGED used ELSE Faulty
        /\ LET marker == [R.mk EXCEPT !.verdict = verdict, !.reason = "none", !.stop = FALSE,
                            !.confirm = confirm, !.findings = findings]
           IN  run' = [run EXCEPT ![r] = [R EXCEPT
                         !.step = "post", !.mk = marker, !.out = marker,
                         !.todo = FindingsToPost(r, marker.findings, already)]]
  BY DEF FinishCovered, MergedVerdict
<1> DEFINE marker == [R.mk EXCEPT !.verdict = verdict, !.reason = "none", !.stop = FALSE,
                        !.confirm = confirm, !.findings = findings]
           todo == FindingsToPost(r, marker.findings, already)
           m == [R EXCEPT !.step = "post", !.mk = marker, !.out = marker, !.todo = todo]
<1>3. R.mk \in ReviewMarker /\ R.pair \in Pairs /\ R.found \in SUBSET Finding
      /\ R.last \in ReviewVerdicts \cup {"none"}
  BY <1>1, RunFields
<1>4. verdict \in MarkerVerdicts
  BY <1>3 DEF VerdictForResumed, MarkerVerdicts, ReviewVerdicts
<1>5. findings \in SUBSET Finding
  BY <1>3, StampNotPostedType
<1>6. confirm \in Pairs
  BY <1>3 DEF NoPair, Pairs
<1>7. marker \in ReviewMarker
  <2> HIDE DEF verdict, findings
  <2> QED BY <1>3, <1>4, <1>5, <1>6 DEF ReviewMarker, Reasons
<1>8. todo \in SUBSET Finding
  <2>1. marker.findings \in SUBSET Finding
    <3> HIDE DEF marker
    <3> QED BY <1>7 DEF ReviewMarker
  <2> HIDE DEF marker
  <2> QED BY <2>1 DEF FindingsToPost
<1>9. m \in RunRecord /\ BoundRecord(m)
  <2> HIDE DEF marker, todo
  <2>1. m \in RunRecord
    BY <1>1, <1>7, <1>8 DEF RunRecord, Steps
  <2>2. BoundRecord(m)
    BY <1>1 DEF BoundRecord, RunRecord
  <2> QED BY <2>1, <2>2
<1>10. run' = [run EXCEPT ![r] = m]
  BY <1>2
<1>11. run' \in [Runs -> RunRecord] /\ Bound'
  <2> HIDE DEF m
  <2> QED BY <1>9, <1>10, RunUpdate
<1>12. used' \in [moves : Nat, faults : Nat]
  BY <1>2, FaultyType DEF TypeInv, TypeOK
<1> QED
  BY <1>11, <1>12 DEF FinishCovered, TypeInv, TypeOK, pr

LEMMA PostType ==
    ASSUME TypeInv, NEW r \in Runs, Post(r) PROVE TypeInv'
<1>1. PICK f \in run[r].todo :
        /\ posts' = Append(posts, [id |-> f.id, pass |-> run[r].pass, sev |-> f.sev,
                                   upgrade |-> f.id \in run[r].held])
        /\ run' = [run EXCEPT ![r].todo = {g \in run[r].todo : g.id # f.id}]
  BY DEF Post
<1> DEFINE todo == {g \in run[r].todo : g.id # f.id}
           m == [run[r] EXCEPT !.todo = todo]
           p == [id |-> f.id, pass |-> run[r].pass, sev |-> f.sev,
                 upgrade |-> f.id \in run[r].held]
<1>2. run[r] \in RunRecord /\ BoundRecord(run[r]) /\ run[r].step = "post"
  BY RunIsRecord DEF Post, At
<1>3. run[r].todo \in SUBSET Finding /\ run[r].pass \in Nat
  BY <1>2, RunFields
<1>4. p \in PostRecord
  BY <1>3 DEF PostRecord, Finding
<1>5. posts' \in Seq(PostRecord)
  <2> HIDE DEF p
  <2> QED BY <1>1, <1>4, AppendProperties DEF TypeInv, TypeOK, p
<1>6. m \in RunRecord /\ BoundRecord(m)
  <2>1. todo \in SUBSET Finding
    BY <1>3
  <2> HIDE DEF todo
  <2>2. m \in RunRecord
    BY <1>2, <2>1 DEF RunRecord
  <2>3. BoundRecord(m)
    BY <1>2 DEF BoundRecord, RunRecord
  <2> QED BY <2>2, <2>3
<1>7. run' = [run EXCEPT ![r] = m]
  BY <1>1
<1>8. run' \in [Runs -> RunRecord] /\ Bound'
  <2> HIDE DEF m
  <2> QED BY <1>6, <1>7, RunUpdate
<1> QED
  BY <1>5, <1>8 DEF Post, TypeInv, TypeOK

(* The summary and the complete edit write the marker they remember. *)
LEMMA PublishedType ==
    ASSUME TypeInv, NEW r \in Runs, ~At(r, "idle"), NEW marker \in ReviewMarker,
           NEW step \in {"complete", "label"}, Edit(r, marker),
           run' = [run EXCEPT ![r].step = step, ![r].mk = marker, ![r].out = marker],
           UNCHANGED <<head, base, resolves, posts, labels, used>>
    PROVE  TypeInv'
<1> DEFINE m == [run[r] EXCEPT !.step = step, !.mk = marker, !.out = marker]
<1>1. run[r] \in RunRecord /\ BoundRecord(run[r])
  BY RunIsRecord
<1>2. m \in RunRecord /\ BoundRecord(m)
  <2>1. m \in RunRecord
    BY <1>1 DEF RunRecord, Steps
  <2>2. BoundRecord(m)
    BY <1>1 DEF BoundRecord, RunRecord, At
  <2> QED BY <2>1, <2>2
<1>3. run' = [run EXCEPT ![r] = m]
  OBVIOUS
<1>4. run' \in [Runs -> RunRecord] /\ Bound'
  <2> HIDE DEF m
  <2> QED BY <1>2, <1>3, RunUpdate
<1>5. reviews' \in Seq(ReviewMarker)
  BY EditType DEF TypeInv, TypeOK
<1> QED
  BY <1>4, <1>5 DEF TypeInv, TypeOK

LEMMA SummarizeType ==
    ASSUME TypeInv, NEW r \in Runs, Summarize(r) PROVE TypeInv'
<1> DEFINE mk == run[r].mk
<1>1. mk \in ReviewMarker
  BY RunIsRecord, RunFields
<1>2. PICK marker \in {mk, [mk EXCEPT !.verdict = "issues-remain"],
                       [mk EXCEPT !.verdict = "blocked", !.reason = "debt"]} :
        /\ Edit(r, marker)
        /\ run' = [run EXCEPT ![r].step = "complete", ![r].mk = marker, ![r].out = marker]
  BY DEF Summarize
<1>3. marker \in ReviewMarker
  <2>1. CASE marker = mk
    BY <1>1, <2>1
  <2>2. CASE marker = [mk EXCEPT !.verdict = "issues-remain"]
    <3>1. "issues-remain" \in MarkerVerdicts
      BY DEF MarkerVerdicts, ReviewVerdicts
    <3> QED BY <1>1, <2>2, <3>1 DEF ReviewMarker
  <2>3. CASE marker = [mk EXCEPT !.verdict = "blocked", !.reason = "debt"]
    <3>1. "blocked" \in MarkerVerdicts /\ "debt" \in Reasons
      BY DEF MarkerVerdicts, ReviewVerdicts, Reasons
    <3> QED BY <1>1, <2>3, <3>1 DEF ReviewMarker
  <2> QED BY <1>2, <2>1, <2>2, <2>3
<1>4. ~At(r, "idle")
  BY DEF Summarize, At
<1> QED
  BY <1>2, <1>3, <1>4, PublishedType DEF Summarize

LEMMA CompleteType ==
    ASSUME TypeInv, NEW r \in Runs, Complete(r) PROVE TypeInv'
<1> DEFINE marker == [run[r].mk EXCEPT !.state = "complete"]
<1>1. marker \in ReviewMarker
  <2>1. run[r].mk \in ReviewMarker
    BY RunIsRecord, RunFields
  <2> QED BY <2>1 DEF ReviewMarker, PassStates
<1>2. /\ Edit(r, marker) /\ ~At(r, "idle")
      /\ run' = [run EXCEPT ![r].step = "label", ![r].mk = marker, ![r].out = marker]
      /\ UNCHANGED <<head, base, resolves, posts, labels, used>>
  BY DEF Complete, At
<1> HIDE DEF marker
<1> QED
  BY <1>1, <1>2, PublishedType

(* Every label a review pass chooses is an outcome label. *)
LEMMA PassLabelType ==
    ASSUME NEW verdict, NEW actionable, NEW escalated, NEW c
    PROVE  PassLabelWithCoverage(verdict, actionable, escalated, c) \in OutcomeLabels
BY DEF PassLabelWithCoverage, PassLabel, OutcomeLabels

LEMMA LabelType ==
    ASSUME TypeInv, NEW r \in Runs, Label(r) PROVE TypeInv'
<1>1. CASE Moved(r)
  BY <1>1, FinishType DEF Label, TypeInv, TypeOK, pr
<1>2. CASE ~Moved(r)
  <2>1. PICK next \in OutcomeLabels :
          run' = [run EXCEPT ![r] = [run[r] EXCEPT !.step = "mark", !.next = next]]
    BY <1>2, PassLabelType DEF Label
  <2> DEFINE m == [run[r] EXCEPT !.step = "mark", !.next = next]
  <2>2. run[r] \in RunRecord /\ BoundRecord(run[r]) /\ run[r].step = "label"
    BY RunIsRecord DEF Label, At
  <2>3. m \in RunRecord
    BY <2>2 DEF RunRecord, Steps
  <2>4. BoundRecord(m)
    BY <2>2 DEF BoundRecord, RunRecord
  <2>5. run' \in [Runs -> RunRecord] /\ Bound'
    <3>1. run' = [run EXCEPT ![r] = m]
      BY <2>1
    <3> HIDE DEF m
    <3> QED BY <2>3, <2>4, <3>1, RunUpdate
  <2> QED
    BY <2>5 DEF Label, TypeInv, TypeOK, pr
<1> QED
  BY <1>1, <1>2

LEMMA MarkType ==
    ASSUME TypeInv, NEW r \in Runs, Mark(r) PROVE TypeInv'
<1>1. run' \in [Runs -> RunRecord] /\ Bound'
  BY FinishType DEF Mark
<1>2. run[r].next \in OutcomeLabels
  BY RunIsRecord DEF Mark, BoundRecord, At
<1>3. labels' \subseteq OutcomeLabels \cup {"stop"} /\ used' \in [moves : Nat, faults : Nat]
  BY <1>2, ApplyPassLabelsType DEF Mark, TypeInv
<1> QED
  BY <1>1, <1>3 DEF Mark, TypeInv, TypeOK

LEMMA ReportFatalType ==
    ASSUME TypeInv, NEW r \in Runs, NEW cost \in {0, 1}, ReportFatal(r, cost) PROVE TypeInv'
<1>1. run' \in [Runs -> RunRecord] /\ Bound'
  BY FinishType DEF ReportFatal
<1>2. Reported(run[r].out) \in ReviewMarker
  BY RunIsRecord, RunFields, ReportedType
<1>3. PICK edited \in BOOLEAN, added \in BOOLEAN :
        /\ IF edited THEN Edit(r, Reported(run[r].out)) ELSE UNCHANGED reviews
        /\ IF added THEN labels' = CleanLabels("halted") ELSE labels' \in LabelResults("halted")
        /\ used' = [used EXCEPT !.faults = used.faults + cost + IF edited /\ added THEN 0 ELSE 1]
  BY DEF ReportFatal
<1>4. reviews' \in Seq(ReviewMarker)
  BY <1>2, <1>3, EditType DEF TypeInv, TypeOK
<1>5. labels' \subseteq OutcomeLabels \cup {"stop"}
  <2>1. "halted" \in OutcomeLabels
    BY DEF OutcomeLabels
  <2> QED BY <1>3, <2>1, LabelsType DEF TypeInv, TypeOK
<1>6. used' \in [moves : Nat, faults : Nat]
  BY <1>3 DEF TypeInv, TypeOK
<1> QED
  BY <1>1, <1>4, <1>5, <1>6 DEF ReportFatal, TypeInv, TypeOK

(* The resolve leg, seen from outside. *)
LEMMA ResolveType == ASSUME TypeInv, Resolve PROVE TypeInv'
<1> DEFINE i == MarkerFor(reviews, CurrentReviewPass(reviews))
<1>1. i \in Nat /\ i # 0 /\ reviews[i] \in ReviewMarker
  BY MarkerForType DEF Resolve, TypeInv, TypeOK
<1>2. reviews[i].pass \in Nat
  BY <1>1 DEF ReviewMarker
<1>3. PICK commit \in Heads \cup {NoHead}, escalated \in BOOLEAN :
        resolves' = Append(resolves, [pass |-> reviews[i].pass, head |-> head,
                                      commit |-> commit, escalated |-> escalated])
  BY DEF Resolve, NextHeads, TypeInv, TypeOK
<1>4. [pass |-> reviews[i].pass, head |-> head, commit |-> commit, escalated |-> escalated]
        \in Repair
  BY <1>2 DEF Repair, TypeInv, TypeOK
<1>5. resolves' \in Seq(Repair)
  <2> HIDE DEF i
  <2> QED BY <1>3, <1>4, AppendProperties DEF TypeInv, TypeOK
<1>6. head' \in Heads /\ used' \in [moves : Nat, faults : Nat]
  BY DEF Resolve, Move, NextHeads, TypeInv, TypeOK
<1>7. labels' \subseteq OutcomeLabels \cup {"stop"}
  BY DEF Resolve, CleanLabels, OutcomeLabels, TypeInv, TypeOK
<1>8. Bound'
  BY DEF Resolve, Bound, TypeInv
<1> QED
  BY <1>5, <1>6, <1>7, <1>8 DEF Resolve, TypeInv, TypeOK

LEMMA EnvironmentType == ASSUME TypeInv, Environment PROVE TypeInv'
<1>1. CASE Push \/ MoveBase \/ Stop
  <2>1. used' \in [moves : Nat, faults : Nat]
    BY <1>1, MoveType DEF Push, MoveBase, Stop, TypeInv, TypeOK
  <2>2. head' \in Heads /\ base' \in Bases
    BY <1>1 DEF Push, MoveBase, Stop, NextHeads, TypeInv, TypeOK
  <2>3. labels' \subseteq OutcomeLabels \cup {"stop"}
    BY <1>1 DEF Push, MoveBase, Stop, TypeInv, TypeOK
  <2>4. UNCHANGED <<reviews, resolves, posts, run>>
    BY <1>1 DEF Push, MoveBase, Stop
  <2>5. Bound'
    BY <2>4 DEF Bound, TypeInv
  <2> QED
    BY <2>1, <2>2, <2>3, <2>4, <2>5 DEF TypeInv, TypeOK
<1>2. CASE ClaimAges
  <2>1. PICK i \in DOMAIN reviews : reviews' = [reviews EXCEPT ![i].old = TRUE]
    BY <1>2 DEF ClaimAges
  <2>2. i \in 1..Len(reviews) /\ reviews[i] \in ReviewMarker
    BY DEF TypeInv, TypeOK
  <2>3. [reviews[i] EXCEPT !.old = TRUE] \in ReviewMarker
    BY <2>2 DEF ReviewMarker
  <2>4. reviews' = [reviews EXCEPT ![i] = [reviews[i] EXCEPT !.old = TRUE]]
    BY <2>1
  <2>5. reviews' \in Seq(ReviewMarker)
    BY <2>2, <2>3, <2>4, ExceptSeq DEF TypeInv, TypeOK
  <2> QED
    BY <1>2, <2>5 DEF ClaimAges, TypeInv, TypeOK, Bound
<1>3. CASE Resolve
  BY <1>3, ResolveType
<1> QED
  BY <1>1, <1>2, <1>3 DEF Environment

LEMMA AdmitType == ASSUME TypeInv, NEW r \in Runs, Admit(r) PROVE TypeInv'
<1>1. run' \in [Runs -> RunRecord] /\ Bound'
  <2>1. CASE AdmitFrom(r, reviews, resolves)
    BY <2>1, AdmitFromType DEF TypeInv, TypeOK
  <2>2. CASE AdmitFrom(r, <<>>, <<>>)
    <3>1. <<>> \in Seq(ReviewMarker) /\ <<>> \in Seq(Repair) /\ DOMAIN <<>> \subseteq DOMAIN reviews
      BY EmptySeq
    <3> QED BY <2>2, <3>1, AdmitFromType
  <2> QED
    BY <2>1, <2>2 DEF Admit
<1>2. used' \in [moves : Nat, faults : Nat]
  BY FaultyType DEF Admit, TypeInv, TypeOK
<1> QED
  BY <1>1, <1>2 DEF Admit, TypeInv, TypeOK, pr

LEMMA WorkType == ASSUME TypeInv, NEW r \in Runs, Work(r) PROVE TypeInv'
<1>1. CASE BindScope(r)
  <2>1. ~At(r, "idle") /\ Goto(r, IF RequiredAt(run[r].head) = {} THEN "nothing" ELSE "pack")
    BY <1>1 DEF BindScope, At
  <2>2. (IF RequiredAt(run[r].head) = {} THEN "nothing" ELSE "pack") \in Steps \ {"mark"}
    BY DEF Steps
  <2>3. run' \in [Runs -> RunRecord] /\ Bound'
    BY <2>1, <2>2, GotoType
  <2> QED BY <1>1, <2>3 DEF BindScope, TypeInv, TypeOK, pr
<1>2. CASE Bounded(r)
  <2>1. ~At(r, "idle") /\ Goto(r, "halt") /\ "halt" \in Steps \ {"mark"}
    BY <1>2 DEF Bounded, At, Steps
  <2>2. run' \in [Runs -> RunRecord] /\ Bound'
    BY <2>1, GotoType
  <2> QED BY <1>2, <2>2 DEF Bounded, TypeInv, TypeOK, pr
<1>3. CASE Stale(r)
  BY <1>3, ReportFatalType DEF Stale
<1> QED
  BY <1>1, <1>2, <1>3, PostDeclinedType, PostClaimType, SettleNothingType, LabelEmptiedType,
     PackType, PublishInitialType, JudgeType, RecordBatchType, EditBatchType, HaltPassType,
     LabelHaltedType, FinishCoveredType, PostType, SummarizeType, CompleteType, LabelType,
     MarkType DEF Work

LEMMA TroubleType == ASSUME TypeInv, NEW r \in Runs, Trouble(r) PROVE TypeInv'
<1>1. CASE ReportFatal(r, 1)
  BY <1>1, ReportFatalType
<1>2. CASE Faulty /\ Finish(r) /\ UNCHANGED pr
  BY <1>2, FinishType, FaultyType DEF TypeInv, TypeOK, pr
<1> QED
  BY <1>1, <1>2 DEF Trouble, Fail, Crash

(***************************************************************************)
(* Type correctness: the type invariant with Bound is inductive.           *)
(***************************************************************************)
(* A pull request starts with every run at rest. *)
LEMMA InitType == Init => TypeInv
<1> SUFFICES ASSUME Init PROVE TypeInv
  OBVIOUS
<1>1. head \in Heads /\ base \in Bases
  BY PRStateAssumption DEF Init, Heads, Bases
<1>2. run \in [Runs -> RunRecord] /\ Bound
  BY IdleRunType DEF Init, Bound, BoundRecord, IdleRun
<1>3. labels \subseteq OutcomeLabels \cup {"stop"}
  BY DEF Init, OutcomeLabels
<1> QED
  BY <1>1, <1>2, <1>3 DEF Init, TypeInv, TypeOK

(* Every step keeps the types and the bindings. *)
LEMMA StepType == TypeInv /\ [Next]_vars => TypeInv'
<1> SUFFICES ASSUME TypeInv, [Next]_vars PROVE TypeInv'
  OBVIOUS
<1>1. CASE \E r \in Runs : Admit(r) \/ Work(r) \/ Trouble(r)
  BY <1>1, AdmitType, WorkType, TroubleType
<1>2. CASE Environment
  BY <1>2, EnvironmentType
<1>3. CASE UNCHANGED vars
  BY <1>3 DEF vars, TypeInv, TypeOK, Bound
<1> QED
  BY <1>1, <1>2, <1>3 DEF Next

(* Every variable and every field of a run's memory stays in its domain, a *)
(* running leg is bound to one revision pair and one reviewer, and the     *)
(* label it is about to write is an outcome label.                         *)
THEOREM TypeCorrect == Spec => []TypeOK
<1>1. TypeInv => TypeOK
  BY DEF TypeInv
<1> QED
  BY <1>1, InitType, StepType, PTL DEF Spec

(***************************************************************************)
(* The green label, for one run at a time (the workflow's concurrency      *)
(* group).  The strengthening follows a run through its steps: it has a    *)
(* claim comment, its coverage holds the required units, its marker names  *)
(* that coverage, and after the complete edit the comment is the marker.   *)
(***************************************************************************)
Positioned == {"scope", "nothing", "pack", "initial", "plan", "record", "edit", "halt",
               "post", "complete", "label", "mark"}
Covering == {"initial", "plan", "record", "edit", "post", "complete", "label", "mark"}
Recorded == {"plan", "edit", "post", "complete", "label", "mark"}
Publishing == {"post", "complete", "label", "mark"}
Settled == {"label", "mark"}

(* What the converged label demands of a pass marker and its generation. *)
Clean(R) ==
    /\ \A u \in DOMAIN R.recs : R.recs[u] \in {"no_issue", "finding"}
    /\ \A f \in R.mk.findings : f.sev = "low"
    /\ R.mk.confirm = R.pair

Earning(R, comments) ==
    /\ R.step \in Positioned \/ (R.step = "claim" /\ R.kind # "new") => R.at \in DOMAIN comments
    /\ R.step \in Covering => RequiredAt(R.head) \ Generated \subseteq DOMAIN R.recs
    /\ R.step \in Recorded =>
         R.mk.gen = [claimed |-> TRUE, base |-> R.base, head |-> R.head,
                     producer |-> R.producer, recs |-> R.recs]
    /\ R.step \in Publishing => R.mk.confirm \in {R.pair, NoPair}
    /\ R.step \in Settled => comments[R.at] = R.mk /\ R.mk.state = "complete"
    /\ R.step = "mark" /\ R.next = "converged" => Clean(R)

EarnedInv == TypeInv /\ \A r \in Runs : Earning(run[r], reviews)

(* The strengthened invariant gives the property. *)
LEMMA EarnedIsEarned == EarnedInv => ConvergedIsEarned
<1> SUFFICES ASSUME EarnedInv, NEW r \in Runs, At(r, "mark"), run[r].next = "converged"
             PROVE  LET m == reviews[run[r].at]
                    IN  /\ m.state = "complete"
                        /\ m.gen.claimed
                        /\ m.gen.head = run[r].head /\ m.gen.base = run[r].base
                        /\ RequiredAt(run[r].head) \ Generated \subseteq DOMAIN m.gen.recs
                        /\ \A u \in DOMAIN m.gen.recs : m.gen.recs[u] \in {"no_issue", "finding"}
                        /\ \A f \in m.findings : f.sev = "low"
                        /\ m.confirm = run[r].pair
  BY DEF ConvergedIsEarned
<1>1. Earning(run[r], reviews) /\ run[r].step = "mark"
  BY DEF EarnedInv, At
<1>2. reviews[run[r].at] = run[r].mk /\ run[r].mk.state = "complete"
  BY <1>1 DEF Earning, Settled
<1>3. run[r].mk.gen = [claimed |-> TRUE, base |-> run[r].base, head |-> run[r].head,
                       producer |-> run[r].producer, recs |-> run[r].recs]
  BY <1>1 DEF Earning, Recorded
<1>4. RequiredAt(run[r].head) \ Generated \subseteq DOMAIN run[r].recs
  BY <1>1 DEF Earning, Covering
<1>5. Clean(run[r])
  BY <1>1 DEF Earning
<1> QED
  BY <1>2, <1>3, <1>4, <1>5 DEF Clean

(* The choice of the label: converged asks for a clean pass. *)
LEMMA ConvergedIsClean ==
    ASSUME TypeInv, NEW r \in Runs, Earning(run[r], reviews), At(r, "label"),
           NEW lost \in BOOLEAN, NEW escalated,
           PassLabelWithCoverage(run[r].mk.verdict, Actionable(run[r].mk.findings),
                                 escalated, Convergence(r, lost)) = "converged"
    PROVE  Clean(run[r])
<1> DEFINE R == run[r]
           m == R.mk
           c == Convergence(r, lost)
           Count(V) == Cardinality({u \in DOMAIN m.gen.recs : m.gen.recs[u] \in V})
<1>1. R \in RunRecord /\ m \in ReviewMarker /\ R.recs \in Coverage
  BY RunIsRecord, RunFields
<1>2. m.gen.recs = R.recs /\ m.confirm \in {R.pair, NoPair}
  BY DEF Earning, Recorded, Publishing, At
<1>3. Converged(c)
  BY DEF PassLabelWithCoverage
<1>4. c = [unresolvedFixable |-> Actionable(m.findings), ledgerCurrent |-> TRUE,
           required |-> Cardinality(DOMAIN R.recs),
           covered |-> Count({"no_issue", "finding", "could_not_review"}),
           outstanding |-> Count({"outstanding"}),
           couldNotReview |-> Count({"could_not_review"}), scopeReported |-> TRUE,
           confirmationRequired |-> R.pair # NoPair,
           confirmationComplete |-> m.confirm = R.pair]
  BY <1>3 DEF Convergence, UnmetConvergence, Converged
<1>5. /\ Actionable(m.findings) = 0 /\ Count({"outstanding"}) = 0
      /\ Count({"could_not_review"}) = 0 /\ (R.pair # NoPair => m.confirm = R.pair)
  <2> HIDE DEF c, Count
  <2> QED BY <1>3, <1>4 DEF Converged
<1>6. DOMAIN R.recs \subseteq Units /\ R.recs \in [DOMAIN R.recs -> RecordVerdicts]
  BY <1>1, CoverageFunctions
<1>7. \A V : IsFiniteSet({u \in DOMAIN R.recs : R.recs[u] \in V})
  BY <1>6, PRStateAssumption, FS_Subset
<1>8. \A u \in DOMAIN R.recs : R.recs[u] \notin {"outstanding", "could_not_review"}
  <2>1. {u \in DOMAIN R.recs : R.recs[u] \in {"outstanding"}} = {}
    BY <1>2, <1>5, <1>7, FS_EmptySet
  <2>2. {u \in DOMAIN R.recs : R.recs[u] \in {"could_not_review"}} = {}
    BY <1>2, <1>5, <1>7, FS_EmptySet
  <2> QED BY <2>1, <2>2
<1>9. \A u \in DOMAIN R.recs : R.recs[u] \in {"no_issue", "finding"}
  BY <1>6, <1>8 DEF RecordVerdicts
<1>10. \A f \in m.findings : f.sev = "low"
  <2>1. m.findings \in SUBSET Finding
    BY <1>1 DEF ReviewMarker
  <2>2. IsFiniteSet({f \in m.findings : f.sev = "fix"})
    BY <2>1, FindingsAreFinite
  <2>3. {f \in m.findings : f.sev = "fix"} = {}
    BY <1>5, <2>2, FS_EmptySet DEF Actionable
  <2> QED
    BY <2>1, <2>3 DEF Finding, FindingSeverities
<1> QED
  BY <1>2, <1>5, <1>9, <1>10 DEF Clean

(* A step of the run rewrites its own record. *)
LEMMA RunAfter ==
    ASSUME TypeInv, NEW r \in Runs, NEW m, run' = [run EXCEPT ![r] = m]
    PROVE  run'[r] = m
BY DEF TypeInv, TypeOK

(* A run at rest owes nothing. *)
LEMMA IdleEarning ==
    ASSUME TypeInv, NEW r \in Runs, Finish(r), NEW comments
    PROVE  Earning(run'[r], comments)
<1>1. run'[r] = IdleRun
  BY RunAfter DEF Finish
<1> QED
  BY <1>1 DEF IdleRun, Earning, Positioned, Covering, Recorded, Publishing, Settled

(* An edit adds no comment and takes none away. *)
LEMMA EditKeepsDomain ==
    ASSUME NEW r, NEW m, Edit(r, m)
    PROVE  DOMAIN reviews' = DOMAIN reviews
BY DEF Edit

LEMMA AdmitEarning ==
    ASSUME TypeInv, NEW r \in Runs, Admit(r)
    PROVE  Earning(run'[r], reviews')
<1>1. PICK markers \in {reviews, <<>>}, repairs \in {resolves, <<>>} :
        AdmitFrom(r, markers, repairs)
  BY DEF Admit
<1> DEFINE a == Admission(markers)
<1>2. a.kind # "new" => a.at \in DOMAIN reviews
  <2>1. markers \in Seq(ReviewMarker) /\ DOMAIN markers \subseteq DOMAIN reviews
    <3>1. reviews \in Seq(ReviewMarker) /\ <<>> \in Seq(ReviewMarker) /\ DOMAIN <<>> = {}
      BY EmptySeq DEF TypeInv, TypeOK
    <3> QED BY <3>1
  <2>2. a.kind # "already"
    BY <1>1 DEF AdmitFrom
  <2> QED
    BY <2>1, <2>2, AdmissionType
<1>3. run'[r].step \in {"decline", "claim"} /\ run'[r].kind = a.kind /\ run'[r].at = a.at
  BY <1>1 DEF AdmitFrom, TypeInv, TypeOK, IdleRun
<1>4. reviews' = reviews
  BY DEF Admit, pr
<1> HIDE DEF a
<1> QED
  BY <1>2, <1>3, <1>4 DEF Earning, Positioned, Covering, Recorded, Publishing, Settled

(* The steps before the opening generation only need the claim comment. *)
LEMMA OpeningEarning ==
    ASSUME TypeInv, NEW r \in Runs, Earning(run[r], reviews),
           PostDeclined(r) \/ PostClaim(r) \/ BindScope(r) \/ Bounded(r)
             \/ SettleNothing(r) \/ HaltPass(r)
    PROVE  Earning(run'[r], reviews')
<1> USE DEF Earning, Positioned, Covering, Recorded, Publishing, Settled
<1>1. CASE PostDeclined(r)
  <2>1. run'[r].step = "halted"
    BY <1>1 DEF PostDeclined, Goto, TypeInv, TypeOK
  <2> QED BY <2>1
<1>2. CASE PostClaim(r)
  <2>1. run'[r].step = "scope"
        /\ run'[r].at = IF run[r].kind = "new" THEN Len(reviews) + 1 ELSE run[r].at
    BY <1>2 DEF PostClaim, TypeInv, TypeOK
  <2>2. reviews \in Seq(ReviewMarker) /\ run[r].out \in ReviewMarker
    BY RunIsRecord, RunFields DEF TypeInv, TypeOK
  <2>3. run[r].kind # "new" => run[r].at \in DOMAIN reviews /\ DOMAIN reviews' = DOMAIN reviews
    BY <1>2, EditKeepsDomain DEF PostClaim, At
  <2>4. run[r].kind = "new" => Len(reviews) + 1 \in DOMAIN reviews'
    <3> SUFFICES ASSUME run[r].kind = "new" PROVE Len(reviews) + 1 \in DOMAIN reviews'
      OBVIOUS
    <3>1. reviews' = Append(reviews, run[r].out)
      BY <1>2 DEF PostClaim
    <3> QED BY <2>2, <3>1, AppendProperties
  <2> QED
    BY <2>1, <2>3, <2>4
<1>3. CASE BindScope(r)
  <2>1. run'[r].step \in {"nothing", "pack"} /\ run'[r].at = run[r].at /\ reviews' = reviews
    BY <1>3 DEF BindScope, Goto, TypeInv, TypeOK, pr
  <2> QED BY <1>3, <2>1 DEF BindScope, At
<1>4. CASE Bounded(r)
  <2>1. run'[r].step = "halt" /\ run'[r].at = run[r].at /\ reviews' = reviews
    BY <1>4 DEF Bounded, Goto, TypeInv, TypeOK, pr
  <2> QED BY <1>4, <2>1 DEF Bounded, At
<1>5. CASE SettleNothing(r)
  <2>1. run'[r].step = "emptied"
    BY <1>5 DEF SettleNothing, TypeInv, TypeOK
  <2> QED BY <2>1
<1>6. CASE HaltPass(r)
  <2>1. run'[r].step = "halted"
    BY <1>6 DEF HaltPass, TypeInv, TypeOK
  <2> QED BY <2>1
<1> QED
  BY <1>1, <1>2, <1>3, <1>4, <1>5, <1>6

(* Packing requires every changed unit that is neither excluded nor an     *)
(* oversized generated one.                                                *)
LEMMA PackEarning ==
    ASSUME TypeInv, NEW r \in Runs, Earning(run[r], reviews), Pack(r)
    PROVE  Earning(run'[r], reviews')
<1>1. /\ run'[r].step \in {"nothing", "initial"} /\ run'[r].at = run[r].at
      /\ run'[r].head = run[r].head
      /\ RequiredAt(run[r].head) \ Generated \subseteq DOMAIN run'[r].recs
      /\ reviews' = reviews
  BY DEF Pack, TypeInv, TypeOK, pr
<1>2. run[r].at \in DOMAIN reviews
  BY DEF Pack, At, Earning, Positioned
<1> QED
  BY <1>1, <1>2 DEF Earning, Positioned, Covering, Recorded, Publishing, Settled

(* Publishing a generation names the run's own coverage in its marker. *)
LEMMA GenerationEarning ==
    ASSUME TypeInv, NEW r \in Runs, Earning(run[r], reviews),
           run[r].step \in {"initial", "record"}, reviews' = reviews,
           NEW marker, marker.gen = GenerationOf(r), NEW step \in {"plan", "edit"},
           run' = [run EXCEPT ![r].step = step, ![r].mk = marker, ![r].out = marker]
    PROVE  Earning(run'[r], reviews')
<1> DEFINE m == [run[r] EXCEPT !.step = step, !.mk = marker, !.out = marker]
<1>1. run[r] \in RunRecord
  BY RunIsRecord
<1>2. run'[r] = m
  <2>1. run' = [run EXCEPT ![r] = m]
    OBVIOUS
  <2> HIDE DEF m
  <2> QED BY <2>1, RunAfter
<1>3. /\ m.step = step /\ m.mk = marker /\ m.at = run[r].at /\ m.head = run[r].head
      /\ m.base = run[r].base /\ m.producer = run[r].producer /\ m.recs = run[r].recs
  BY <1>1 DEF RunRecord
<1> HIDE DEF m
<1> QED
  BY <1>2, <1>3 DEF Earning, Positioned, Covering, Recorded, Publishing, Settled, GenerationOf

(* The coverage loop keeps the marker's generation the run's own. *)
LEMMA CoverageEarning ==
    ASSUME TypeInv, NEW r \in Runs, Earning(run[r], reviews),
           PublishInitial(r) \/ Judge(r) \/ RecordBatch(r) \/ EditBatch(r)
    PROVE  Earning(run'[r], reviews')
<1>1. run[r] \in RunRecord /\ run[r].mk \in ReviewMarker
  BY RunIsRecord, RunFields
<1>2. run[r].step \in {"initial", "plan", "record", "edit"}
  BY DEF PublishInitial, Judge, RecordBatch, EditBatch, At
<1>3. run[r].at \in DOMAIN reviews /\ RequiredAt(run[r].head) \ Generated \subseteq DOMAIN run[r].recs
  BY <1>2 DEF Earning, Positioned, Covering
<1>4. DOMAIN reviews' = DOMAIN reviews
  BY EditKeepsDomain DEF PublishInitial, Judge, RecordBatch, EditBatch, pr
<1>5. CASE Judge(r)
  <2>1. PICK batch \in SUBSET Outstanding(r), verdict \in ReviewVerdicts :
          \E answer \in [batch -> Answers] :
            run' = [run EXCEPT ![r] = [run[r] EXCEPT
              !.step = "record", !.last = verdict,
              !.recs = [u \in DOMAIN run[r].recs |->
                          IF u \in batch THEN Verdict(answer[u]) ELSE run[r].recs[u]],
              !.found = run[r].found \cup
                 {[id |-> u, sev |-> answer[u], at |-> run[r].head, posted |-> TRUE] :
                    u \in {v \in batch : Verdict(answer[v]) = "finding"}}]]
    BY <1>5 DEF Judge
  <2>0. PICK answer \in [batch -> Answers] :
            run' = [run EXCEPT ![r] = [run[r] EXCEPT
              !.step = "record", !.last = verdict,
              !.recs = [u \in DOMAIN run[r].recs |->
                          IF u \in batch THEN Verdict(answer[u]) ELSE run[r].recs[u]],
              !.found = run[r].found \cup
                 {[id |-> u, sev |-> answer[u], at |-> run[r].head, posted |-> TRUE] :
                    u \in {v \in batch : Verdict(answer[v]) = "finding"}}]]
    BY <2>1
  <2> DEFINE recs == [u \in DOMAIN run[r].recs |->
                        IF u \in batch THEN Verdict(answer[u]) ELSE run[r].recs[u]]
             found == run[r].found \cup
               {[id |-> u, sev |-> answer[u], at |-> run[r].head, posted |-> TRUE] :
                  u \in {v \in batch : Verdict(answer[v]) = "finding"}}
             m == [run[r] EXCEPT !.step = "record", !.last = verdict,
                                 !.recs = recs, !.found = found]
  <2>2. run'[r] = m
    <3>1. run' = [run EXCEPT ![r] = m]
      BY <2>0
    <3> HIDE DEF m
    <3> QED BY <3>1, RunAfter
  <2>3. DOMAIN recs = DOMAIN run[r].recs
    OBVIOUS
  <2>4. m.step = "record" /\ m.at = run[r].at /\ m.head = run[r].head /\ m.recs = recs
    <3> HIDE DEF recs, found
    <3> QED BY <1>1 DEF RunRecord
  <2> HIDE DEF m, recs
  <2> QED
    BY <1>3, <1>4, <2>2, <2>3, <2>4
       DEF Earning, Positioned, Covering, Recorded, Publishing, Settled
<1>6. CASE PublishInitial(r)
  <2> DEFINE marker == [run[r].mk EXCEPT !.gen = GenerationOf(r)]
  <2>1. run[r].step = "initial" /\ reviews' = reviews
        /\ run' = [run EXCEPT ![r].step = "plan", ![r].mk = marker, ![r].out = marker]
    BY <1>6 DEF PublishInitial, At, pr
  <2>2. marker.gen = GenerationOf(r)
    BY <1>1 DEF ReviewMarker
  <2> HIDE DEF marker
  <2> QED
    BY <2>1, <2>2, GenerationEarning
<1>8. CASE RecordBatch(r)
  <2> DEFINE findings == IF run[r].found = {} THEN run[r].mk.findings ELSE run[r].found
             marker == [run[r].mk EXCEPT !.gen = GenerationOf(r), !.findings = findings]
  <2>1. run[r].step = "record" /\ reviews' = reviews
        /\ run' = [run EXCEPT ![r].step = "edit", ![r].mk = marker, ![r].out = marker]
    BY <1>8 DEF RecordBatch, At, pr
  <2>2. marker.gen = GenerationOf(r)
    <3> HIDE DEF findings
    <3> QED BY <1>1 DEF ReviewMarker
  <2> HIDE DEF marker
  <2> QED
    BY <2>1, <2>2, GenerationEarning
<1>7. CASE EditBatch(r)
  <2>1. run'[r] = [run[r] EXCEPT !.step = "plan"] /\ run[r].step = "edit"
    BY <1>7, RunAfter DEF EditBatch, Goto, At
  <2> QED
    BY <1>1, <1>3, <1>4, <2>1
       DEF Earning, Positioned, Covering, Recorded, Publishing, Settled, RunRecord
<1> QED
  BY <1>5, <1>6, <1>7, <1>8

(* A covered pass keeps its generation and answers the repair it confirms. *)
LEMMA FinishCoveredEarning ==
    ASSUME TypeInv, NEW r \in Runs, Earning(run[r], reviews), FinishCovered(r)
    PROVE  Earning(run'[r], reviews')
<1> DEFINE R == run[r]
<1>1. R \in RunRecord /\ R.mk \in ReviewMarker /\ R.step = "plan"
  BY RunIsRecord, RunFields DEF FinishCovered, At
<1>2. PICK confirm \in {R.pair, NoPair}, already \in {PostedIDs, {}} :
        LET marker == [R.mk EXCEPT
                 !.verdict = IF R.last = "none" THEN VerdictForResumed(r) ELSE R.last,
                 !.reason = "none", !.stop = FALSE, !.confirm = confirm,
                 !.findings = StampNotPosted(R.found, R.pass)]
        IN  run' = [run EXCEPT ![r] = [R EXCEPT
                      !.step = "post", !.mk = marker, !.out = marker,
                      !.todo = FindingsToPost(r, marker.findings, already)]]
  BY DEF FinishCovered, MergedVerdict
<1> DEFINE verdict == IF R.last = "none" THEN VerdictForResumed(r) ELSE R.last
           findings == StampNotPosted(R.found, R.pass)
           marker == [R.mk EXCEPT !.verdict = verdict, !.reason = "none", !.stop = FALSE,
                        !.confirm = confirm, !.findings = findings]
           todo == FindingsToPost(r, marker.findings, already)
           m == [R EXCEPT !.step = "post", !.mk = marker, !.out = marker, !.todo = todo]
<1>3. run'[r] = m
  <2>1. run' = [run EXCEPT ![r] = m]
    BY <1>2
  <2> HIDE DEF m
  <2> QED BY <2>1, RunAfter
<1>4. marker.gen = R.mk.gen /\ marker.confirm = confirm
  <2> HIDE DEF verdict, findings
  <2> QED BY <1>1 DEF ReviewMarker
<1>5. /\ m.step = "post" /\ m.mk = marker /\ m.at = R.at /\ m.head = R.head /\ m.base = R.base
      /\ m.producer = R.producer /\ m.recs = R.recs /\ m.pair = R.pair
  <2> HIDE DEF marker, todo
  <2> QED BY <1>1 DEF RunRecord
<1>6. reviews' = reviews
  BY DEF FinishCovered, pr
<1> HIDE DEF m, marker
<1> QED
  BY <1>1, <1>2, <1>3, <1>4, <1>5, <1>6
     DEF Earning, Positioned, Covering, Recorded, Publishing, Settled

(* Posting a finding touches nothing the label rests on. *)
LEMMA PostEarning ==
    ASSUME TypeInv, NEW r \in Runs, Earning(run[r], reviews), Post(r)
    PROVE  Earning(run'[r], reviews')
<1>1. PICK f \in run[r].todo :
        run' = [run EXCEPT ![r].todo = {g \in run[r].todo : g.id # f.id}]
  BY DEF Post
<1> DEFINE todo == {g \in run[r].todo : g.id # f.id}
           m == [run[r] EXCEPT !.todo = todo]
<1>2. run[r] \in RunRecord /\ run[r].step = "post"
  BY RunIsRecord DEF Post, At
<1>3. run'[r] = m
  <2>1. run' = [run EXCEPT ![r] = m]
    BY <1>1
  <2> HIDE DEF m
  <2> QED BY <2>1, RunAfter
<1>4. /\ m.step = "post" /\ m.mk = run[r].mk /\ m.at = run[r].at /\ m.head = run[r].head
      /\ m.base = run[r].base /\ m.producer = run[r].producer /\ m.recs = run[r].recs
      /\ m.pair = run[r].pair
  <2> HIDE DEF todo
  <2> QED BY <1>2 DEF RunRecord
<1>5. reviews' = reviews
  BY DEF Post
<1> HIDE DEF m
<1> QED
  BY <1>2, <1>3, <1>4, <1>5 DEF Earning, Positioned, Covering, Recorded, Publishing, Settled

(* The summary and complete edits keep the marker's generation and its     *)
(* confirmation, and the complete edit puts the marker in the comment.     *)
LEMMA PublishedEarning ==
    ASSUME TypeInv, NEW r \in Runs, Earning(run[r], reviews),
           run[r].step \in Publishing, NEW step \in {"complete", "label"},
           NEW marker, marker.gen = run[r].mk.gen, marker.confirm = run[r].mk.confirm,
           step = "label" => marker.state = "complete", Edit(r, marker),
           run' = [run EXCEPT ![r].step = step, ![r].mk = marker, ![r].out = marker]
    PROVE  Earning(run'[r], reviews')
<1> DEFINE m == [run[r] EXCEPT !.step = step, !.mk = marker, !.out = marker]
<1>1. run[r] \in RunRecord
  BY RunIsRecord
<1>2. run'[r] = m
  <2>1. run' = [run EXCEPT ![r] = m]
    OBVIOUS
  <2> HIDE DEF m
  <2> QED BY <2>1, RunAfter
<1>3. /\ m.step = step /\ m.mk = marker /\ m.at = run[r].at /\ m.head = run[r].head
      /\ m.base = run[r].base /\ m.producer = run[r].producer /\ m.recs = run[r].recs
      /\ m.pair = run[r].pair
  BY <1>1 DEF RunRecord
<1>4. run[r].at \in DOMAIN reviews
  BY DEF Earning, Positioned, Publishing
<1>5. DOMAIN reviews' = DOMAIN reviews /\ reviews'[run[r].at] = marker
  BY <1>4 DEF Edit
<1> HIDE DEF m
<1> QED
  BY <1>2, <1>3, <1>4, <1>5 DEF Earning, Positioned, Covering, Recorded, Publishing, Settled

(* The publish path up to the label, which asks for a clean pass. *)
LEMMA PublishEarning ==
    ASSUME TypeInv, NEW r \in Runs, Earning(run[r], reviews),
           Summarize(r) \/ Complete(r) \/ Label(r)
    PROVE  Earning(run'[r], reviews')
<1>1. run[r] \in RunRecord /\ run[r].mk \in ReviewMarker
  BY RunIsRecord, RunFields
<1>2. CASE Summarize(r)
  <2> DEFINE mk == run[r].mk
  <2>1. PICK marker \in {mk, [mk EXCEPT !.verdict = "issues-remain"],
                         [mk EXCEPT !.verdict = "blocked", !.reason = "debt"]} :
          /\ Edit(r, marker)
          /\ run' = [run EXCEPT ![r].step = "complete", ![r].mk = marker, ![r].out = marker]
    BY <1>2 DEF Summarize
  <2>2. marker.gen = mk.gen /\ marker.confirm = mk.confirm
    BY <1>1 DEF ReviewMarker
  <2>3. run[r].step \in Publishing
    BY <1>2 DEF Summarize, At, Publishing
  <2> QED BY <2>1, <2>2, <2>3, PublishedEarning
<1>3. CASE Complete(r)
  <2> DEFINE marker == [run[r].mk EXCEPT !.state = "complete"]
  <2>1. marker.gen = run[r].mk.gen /\ marker.confirm = run[r].mk.confirm
        /\ marker.state = "complete"
    BY <1>1 DEF ReviewMarker
  <2>2. /\ run[r].step \in Publishing /\ Edit(r, marker)
        /\ run' = [run EXCEPT ![r].step = "label", ![r].mk = marker, ![r].out = marker]
    BY <1>3 DEF Complete, At, Publishing
  <2> HIDE DEF marker
  <2> QED BY <2>1, <2>2, PublishedEarning
<1>4. CASE Label(r) /\ Moved(r)
  BY <1>4, IdleEarning DEF Label
<1>5. CASE Label(r) /\ ~Moved(r)
  <2> DEFINE Choice(lost) ==
        PassLabelWithCoverage(run[r].mk.verdict, Actionable(run[r].mk.findings),
                              run[r].escalated, Convergence(r, lost))
  <2>1. PICK lost \in {FALSE, MayLose} :
          run' = [run EXCEPT ![r] = [run[r] EXCEPT !.step = "mark", !.next = Choice(lost)]]
    BY <1>5 DEF Label
  <2>2. run[r].step = "label" /\ lost \in BOOLEAN
    BY <1>5, ReviewLegAssumption DEF Label, At
  <2>3. Choice(lost) = "converged" => Clean(run[r])
    BY <2>2, ConvergedIsClean DEF At
  <2> DEFINE next == Choice(lost)
             m == [run[r] EXCEPT !.step = "mark", !.next = next]
  <2>4. run'[r] = m
    <3>1. run' = [run EXCEPT ![r] = m]
      BY <2>1
    <3> HIDE DEF m
    <3> QED BY <3>1, RunAfter
  <2>5. /\ m.step = "mark" /\ m.next = next /\ m.mk = run[r].mk /\ m.at = run[r].at
        /\ m.head = run[r].head /\ m.base = run[r].base /\ m.producer = run[r].producer
        /\ m.recs = run[r].recs /\ m.pair = run[r].pair
    <3> HIDE DEF next
    <3> QED BY <1>1 DEF RunRecord
  <2>6. reviews' = reviews
    BY <1>5 DEF Label, pr
  <2> HIDE DEF Choice, m
  <2> QED
    BY <2>2, <2>3, <2>4, <2>5, <2>6
       DEF Earning, Clean, Positioned, Covering, Recorded, Publishing, Settled
<1> QED
  BY <1>2, <1>3, <1>4, <1>5

(* The other actors leave a run's memory and every settled comment alone. *)
LEMMA EnvironmentEarning ==
    ASSUME TypeInv, NEW r \in Runs, Earning(run[r], reviews), Environment
    PROVE  Earning(run'[r], reviews')
<1>1. run' = run
  BY DEF Environment, Push, MoveBase, ClaimAges, Resolve, Stop
<1>2. DOMAIN reviews' = DOMAIN reviews
      /\ \A i \in DOMAIN reviews : reviews[i].state = "complete" => reviews'[i] = reviews[i]
  <2>1. CASE ClaimAges
    <3>1. PICK i \in DOMAIN reviews : reviews[i].state = "started"
                                      /\ reviews' = [reviews EXCEPT ![i].old = TRUE]
      BY <2>1 DEF ClaimAges
    <3> QED BY <3>1
  <2>2. CASE ~ClaimAges
    <3>1. reviews' = reviews
      BY <2>2 DEF Environment, Push, MoveBase, Resolve, Stop
    <3> QED BY <3>1
  <2> QED BY <2>1, <2>2
<1> QED
  BY <1>1, <1>2 DEF Earning, Positioned, Settled

(* Whatever the run does next, it still earns its label. *)
LEMMA WorkEarning ==
    ASSUME TypeInv, NEW r \in Runs, Earning(run[r], reviews),
           Admit(r) \/ Work(r) \/ Trouble(r)
    PROVE  Earning(run'[r], reviews')
<1>1. CASE Admit(r)
  BY <1>1, AdmitEarning
<1>2. CASE Trouble(r) \/ Stale(r)
  <2>1. Finish(r)
    BY <1>2 DEF Trouble, Fail, Crash, Stale, ReportFatal
  <2> QED BY <2>1, IdleEarning
<1>3. CASE LabelEmptied(r) \/ LabelHalted(r) \/ Mark(r)
  <2>1. Finish(r)
    BY <1>3 DEF LabelEmptied, LabelHalted, Mark
  <2> QED BY <2>1, IdleEarning
<1> QED
  BY <1>1, <1>2, <1>3, OpeningEarning, PackEarning, CoverageEarning, FinishCoveredEarning,
     PostEarning, PublishEarning DEF Work

LEMMA EarnedAlways ==
    ASSUME NEW r0, Runs = {r0}
    PROVE  Spec => []EarnedInv
<1>1. Init => EarnedInv
  <2>1. Init => TypeInv
    BY InitType
  <2>2. Init => \A r \in Runs : run[r] = IdleRun
    BY DEF Init
  <2> QED
    BY <2>1, <2>2
       DEF EarnedInv, IdleRun, Earning, Positioned, Covering, Recorded, Publishing, Settled
<1>2. EarnedInv /\ [Next]_vars => EarnedInv'
  <2> SUFFICES ASSUME EarnedInv, [Next]_vars PROVE EarnedInv'
    OBVIOUS
  <2>1. TypeInv /\ Earning(run[r0], reviews)
    BY DEF EarnedInv
  <2>2. TypeInv'
    BY <2>1, StepType
  <2>3. Earning(run'[r0], reviews')
    <3>1. CASE \E r \in Runs : Admit(r) \/ Work(r) \/ Trouble(r)
      BY <2>1, <3>1, WorkEarning
    <3>2. CASE Environment
      BY <2>1, <3>2, EnvironmentEarning
    <3>3. CASE UNCHANGED vars
      BY <2>1, <3>3 DEF vars
    <3> QED BY <3>1, <3>2, <3>3 DEF Next
  <2> QED
    BY <2>2, <2>3 DEF EarnedInv
<1> QED
  BY <1>1, <1>2, PTL DEF Spec

(* One leg at a time on a pull request, for every policy, diff, reviewer,  *)
(* push, base move, crash, failing call, misread comment list and lost     *)
(* generation: the run that is about to write the converged label stands   *)
(* on a complete marker whose generation is of its own revision, with      *)
(* every required unit examined, nothing actionable left, and the repair   *)
(* under confirmation confirmed.                                           *)
THEOREM ConvergedLabelIsEarned ==
    ASSUME NEW r0, Runs = {r0}
    PROVE  Spec => []ConvergedIsEarned
<1>1. Spec => []EarnedInv
  BY EarnedAlways
<1> QED
  BY <1>1, EarnedIsEarned, PTL

(***************************************************************************)
(* What a step leaves of the run's memory.                                 *)
(***************************************************************************)
(* What a run keeps from its claim to its end. *)
SameClaim(R, m) ==
    /\ m.pass = R.pass /\ m.kind = R.kind /\ m.at = R.at /\ m.held = R.held
    /\ m.head = R.head /\ m.base = R.base /\ m.producer = R.producer

LEMMA GotoAfter ==
    ASSUME TypeInv, NEW r \in Runs, NEW s, Goto(r, s)
    PROVE  /\ SameClaim(run[r], run'[r]) /\ run'[r].step = s
           /\ run'[r].out = run[r].out /\ run'[r].mk = run[r].mk
           /\ run'[r].recs = run[r].recs /\ run'[r].todo = run[r].todo
           /\ run'[r].found = run[r].found /\ run'[r].late = run[r].late
BY RunIsRecord DEF Goto, TypeInv, TypeOK, RunRecord, SameClaim

(* A step that builds the next marker and would report it on a failure,    *)
(* and one that only would report it.                                      *)
Marks(r, s, m) == run' = [run EXCEPT ![r].step = s, ![r].mk = m, ![r].out = m]
Reports(r, s, m) == run' = [run EXCEPT ![r].step = s, ![r].out = m]

LEMMA MarkerAfter ==
    ASSUME TypeInv, NEW r \in Runs, NEW s, NEW m, Marks(r, s, m)
    PROVE  /\ SameClaim(run[r], run'[r]) /\ run'[r].step = s
           /\ run'[r].out = m /\ run'[r].mk = m
           /\ run'[r].recs = run[r].recs /\ run'[r].todo = run[r].todo
           /\ run'[r].found = run[r].found
BY RunIsRecord DEF Marks, TypeInv, TypeOK, RunRecord, SameClaim

LEMMA ReportAfter ==
    ASSUME TypeInv, NEW r \in Runs, NEW s, NEW m, Reports(r, s, m)
    PROVE  /\ SameClaim(run[r], run'[r]) /\ run'[r].step = s
           /\ run'[r].out = m /\ run'[r].mk = run[r].mk
BY RunIsRecord DEF Reports, TypeInv, TypeOK, RunRecord, SameClaim

LEMMA PostClaimAfter ==
    ASSUME TypeInv, NEW r \in Runs, PostClaim(r)
    PROVE  /\ run[r].step = "claim" /\ run'[r].step = "scope" /\ run'[r].pass = run[r].pass
           /\ run'[r].out = run[r].out /\ run'[r].mk = run[r].mk
           /\ run'[r].kind = run[r].kind /\ run'[r].head = run[r].head
           /\ run'[r].base = run[r].base /\ run'[r].late = run[r].late
           /\ run'[r].at = IF run[r].kind = "new" THEN Len(reviews) + 1 ELSE run[r].at
BY RunIsRecord DEF PostClaim, TypeInv, TypeOK, RunRecord, At

(* The coverage a pass starts from: the verdicts of a generation that is   *)
(* still current, for the required units.                                  *)
PackedCoverage(R, lost) ==
    LET current == ~lost /\ GenerationCurrent(R.mk.gen, R.base, R.head, R.producer)
        accepted == IF current THEN Judged(R.mk.gen.recs) ELSE {}
    IN  [u \in {v \in RequiredAt(R.head) : v \in accepted \/ v \notin Generated} |->
            IF u \in accepted THEN R.mk.gen.recs[u] ELSE "outstanding"]

LEMMA PackAfter ==
    ASSUME TypeInv, NEW r \in Runs, Pack(r)
    PROVE  /\ SameClaim(run[r], run'[r]) /\ run'[r].step \in {"nothing", "initial"}
           /\ run'[r].out = run[r].out /\ run'[r].mk.pass = run[r].pass
           /\ run'[r].mk.gen = run[r].mk.gen
           /\ run'[r].mk.head = run[r].out.head /\ run'[r].mk.findings = run[r].mk.findings
           /\ run'[r].mk.state = run[r].mk.state
           /\ run'[r].found = run[r].mk.findings
           /\ run'[r].step = "nothing" => run'[r].late
           /\ \E lost \in {FALSE, MayLose} : run'[r].recs = PackedCoverage(run[r], lost)
<1>1. run[r] \in RunRecord /\ run[r].mk \in ReviewMarker /\ run \in [Runs -> RunRecord]
  BY RunIsRecord, RunFields DEF TypeInv, TypeOK
<1>2. PICK lost \in {FALSE, MayLose} :
        LET gen == run[r].mk.gen
            current == ~lost /\ GenerationCurrent(gen, run[r].base, run[r].head, run[r].producer)
            accepted == IF current THEN Judged(gen.recs) ELSE {}
            required == {u \in RequiredAt(run[r].head) : u \in accepted \/ u \notin Generated}
        IN  run' = [run EXCEPT ![r] = [run[r] EXCEPT
              !.step = IF required = {} THEN "nothing" ELSE "initial",
              !.late = required = {},
              !.recs = [u \in required |->
                          IF u \in accepted THEN gen.recs[u] ELSE "outstanding"],
              !.found = run[r].mk.findings,
              !.mk = [run[r].mk EXCEPT !.pass = run[r].pass, !.head = run[r].out.head,
                                       !.old = run[r].out.old]]]
  BY DEF Pack
<1> DEFINE gen == run[r].mk.gen
           current == ~lost /\ GenerationCurrent(gen, run[r].base, run[r].head, run[r].producer)
           accepted == IF current THEN Judged(gen.recs) ELSE {}
           required == {u \in RequiredAt(run[r].head) : u \in accepted \/ u \notin Generated}
           s == IF required = {} THEN "nothing" ELSE "initial"
           late == required = {}
           recs == [u \in required |-> IF u \in accepted THEN gen.recs[u] ELSE "outstanding"]
           found == run[r].mk.findings
<1> DEFINE mk == [run[r].mk EXCEPT !.pass = run[r].pass, !.head = run[r].out.head,
                                   !.old = run[r].out.old]
<1>3. /\ mk.pass = run[r].pass /\ mk.gen = run[r].mk.gen
      /\ mk.head = run[r].out.head /\ mk.findings = found /\ mk.state = run[r].mk.state
  BY <1>1 DEF ReviewMarker
<1>4. run'[r] = [run[r] EXCEPT !.step = s, !.late = late, !.recs = recs, !.found = found, !.mk = mk]
  BY <1>1, <1>2
<1>5. s \in {"nothing", "initial"} /\ lost \in {FALSE, MayLose}
  OBVIOUS
<1>6. recs = PackedCoverage(run[r], lost) /\ found = run[r].mk.findings
  BY DEF PackedCoverage
<1>7. s = "nothing" => late
  OBVIOUS
<1> HIDE DEF mk, recs, s, late, found, gen
<1> QED
  BY <1>1, <1>3, <1>4, <1>5, <1>6, <1>7 DEF RunRecord, SameClaim, gen

LEMMA JudgeAfter ==
    ASSUME TypeInv, NEW r \in Runs, Judge(r)
    PROVE  /\ SameClaim(run[r], run'[r]) /\ run[r].step = "plan" /\ run'[r].step = "record"
           /\ run'[r].out = run[r].out /\ run'[r].mk = run[r].mk
           /\ DOMAIN run'[r].recs = DOMAIN run[r].recs
           /\ Judged(run[r].recs) \subseteq Judged(run'[r].recs)
           /\ run[r].found \subseteq run'[r].found
           /\ \A f \in run'[r].found : f \in run[r].found \/ f.at = run[r].head
           /\ \A u \in DOMAIN run'[r].recs : run'[r].recs[u] = "finding" =>
                run[r].recs[u] = "finding" \/ \E f \in run'[r].found : f.id = u
<1>1. run[r] \in RunRecord /\ run \in [Runs -> RunRecord] /\ run[r].step = "plan"
  BY RunIsRecord DEF TypeInv, TypeOK, Judge, At
<1>2. PICK batch \in SUBSET Outstanding(r), verdict \in ReviewVerdicts :
        \E answer \in [batch -> Answers] :
          run' = [run EXCEPT ![r] = [run[r] EXCEPT
            !.step = "record", !.last = verdict,
            !.recs = [u \in DOMAIN run[r].recs |->
                        IF u \in batch THEN Verdict(answer[u]) ELSE run[r].recs[u]],
            !.found = run[r].found \cup
               {[id |-> u, sev |-> answer[u], at |-> run[r].head, posted |-> TRUE] :
                  u \in {v \in batch : Verdict(answer[v]) = "finding"}}]]
  BY DEF Judge
<1>3. PICK answer \in [batch -> Answers] :
          run' = [run EXCEPT ![r] = [run[r] EXCEPT
            !.step = "record", !.last = verdict,
            !.recs = [u \in DOMAIN run[r].recs |->
                        IF u \in batch THEN Verdict(answer[u]) ELSE run[r].recs[u]],
            !.found = run[r].found \cup
               {[id |-> u, sev |-> answer[u], at |-> run[r].head, posted |-> TRUE] :
                  u \in {v \in batch : Verdict(answer[v]) = "finding"}}]]
  BY <1>2
<1> DEFINE found == run[r].found \cup
             {[id |-> u, sev |-> answer[u], at |-> run[r].head, posted |-> TRUE] :
                u \in {v \in batch : Verdict(answer[v]) = "finding"}}
<1> DEFINE recs == [u \in DOMAIN run[r].recs |->
                      IF u \in batch THEN Verdict(answer[u]) ELSE run[r].recs[u]]
<1>4. DOMAIN recs = DOMAIN run[r].recs
  OBVIOUS
<1>5. Judged(run[r].recs) \subseteq Judged(recs)
  <2> SUFFICES ASSUME NEW u \in DOMAIN run[r].recs, run[r].recs[u] # "outstanding"
               PROVE  recs[u] # "outstanding"
    BY <1>4 DEF Judged
  <2>1. u \notin batch
    BY DEF Outstanding
  <2> QED BY <2>1
<1>6. run'[r] = [run[r] EXCEPT !.step = "record", !.last = verdict, !.recs = recs, !.found = found]
  <2>1. run' = [run EXCEPT ![r] =
                  [run[r] EXCEPT !.step = "record", !.last = verdict, !.recs = recs, !.found = found]]
    BY <1>3
  <2> HIDE DEF recs, found
  <2> QED BY <1>1, <2>1
<1>7. run[r].found \subseteq found /\ \A f \in found : f \in run[r].found \/ f.at = run[r].head
  OBVIOUS
<1>8. ASSUME NEW u \in DOMAIN recs, recs[u] = "finding"
      PROVE  run[r].recs[u] = "finding" \/ \E f \in found : f.id = u
  <2>1. CASE u \in batch
    <3>1. Verdict(answer[u]) = "finding"
      BY <1>4, <1>8, <2>1
    <3> DEFINE f == [id |-> u, sev |-> answer[u], at |-> run[r].head, posted |-> TRUE]
    <3>2. f \in found /\ f.id = u
      BY <2>1, <3>1
    <3> QED BY <3>2
  <2>2. CASE u \notin batch
    BY <1>4, <1>8, <2>2
  <2> QED BY <2>1, <2>2
<1> HIDE DEF recs, found
<1> QED
  BY <1>1, <1>4, <1>5, <1>6, <1>7, <1>8 DEF RunRecord, SameClaim

LEMMA FinishCoveredAfter ==
    ASSUME TypeInv, NEW r \in Runs, FinishCovered(r)
    PROVE  /\ SameClaim(run[r], run'[r]) /\ run[r].step = "plan" /\ run'[r].step = "post"
           /\ run'[r].out = run'[r].mk /\ run'[r].recs = run[r].recs
           /\ run'[r].mk.pass = run[r].mk.pass /\ run'[r].mk.gen = run[r].mk.gen
           /\ run'[r].mk.head = run[r].mk.head /\ run'[r].mk.state = run[r].mk.state
           /\ run'[r].mk.findings = StampNotPosted(run[r].found, run[r].pass)
           /\ \E already \in {PostedIDs, {}} :
                /\ already = PostedIDs \/ MayMisread
                /\ run'[r].todo = FindingsToPost(r, run'[r].mk.findings, already)
<1>1. /\ run[r] \in RunRecord /\ run \in [Runs -> RunRecord] /\ run[r].mk \in ReviewMarker
      /\ run[r].step = "plan"
  BY RunIsRecord, RunFields DEF TypeInv, TypeOK, FinishCovered, At
<1>2. PICK already \in {PostedIDs, {}}, confirm \in {run[r].pair, NoPair} :
        LET marker == [run[r].mk EXCEPT
                 !.verdict = IF run[r].last = "none" THEN VerdictForResumed(r) ELSE run[r].last,
                 !.reason = "none", !.stop = FALSE, !.confirm = confirm,
                 !.findings = StampNotPosted(run[r].found, run[r].pass)]
        IN  /\ already = PostedIDs \/ MayMisread
            /\ run' = [run EXCEPT ![r] = [run[r] EXCEPT
                        !.step = "post", !.mk = marker, !.out = marker,
                        !.todo = FindingsToPost(r, marker.findings, already)]]
  BY DEF FinishCovered, MergedVerdict
<1> DEFINE findings == StampNotPosted(run[r].found, run[r].pass)
           verdict == IF run[r].last = "none" THEN VerdictForResumed(r) ELSE run[r].last
           marker == [run[r].mk EXCEPT !.verdict = verdict, !.reason = "none", !.stop = FALSE,
                        !.confirm = confirm, !.findings = findings]
           todo == FindingsToPost(r, marker.findings, already)
<1>3. /\ marker.pass = run[r].mk.pass /\ marker.gen = run[r].mk.gen
      /\ marker.head = run[r].mk.head /\ marker.findings = findings
      /\ marker.state = run[r].mk.state
  <2> HIDE DEF findings, verdict
  <2> QED BY <1>1 DEF ReviewMarker
<1>4. already = PostedIDs \/ MayMisread
  BY <1>2
<1>5. run'[r] = [run[r] EXCEPT !.step = "post", !.mk = marker, !.out = marker, !.todo = todo]
  <2>1. run' = [run EXCEPT ![r] =
                  [run[r] EXCEPT !.step = "post", !.mk = marker, !.out = marker, !.todo = todo]]
    BY <1>2
  <2> HIDE DEF marker, todo
  <2> QED BY <1>1, <2>1
<1>6. todo = FindingsToPost(r, marker.findings, already)
      /\ findings = StampNotPosted(run[r].found, run[r].pass)
  OBVIOUS
<1> HIDE DEF todo, marker, findings
<1>7. /\ SameClaim(run[r], run'[r]) /\ run'[r].step = "post"
      /\ run'[r].mk = marker /\ run'[r].out = marker
      /\ run'[r].recs = run[r].recs /\ run'[r].todo = todo
  BY <1>1, <1>5 DEF RunRecord, SameClaim
<1>8. already \in {PostedIDs, {}} /\ (already = PostedIDs \/ MayMisread)
      /\ run'[r].todo = FindingsToPost(r, run'[r].mk.findings, already)
  BY <1>4, <1>6, <1>7
<1> QED
  BY <1>1, <1>3, <1>6, <1>7, <1>8

LEMMA PostAfter ==
    ASSUME TypeInv, NEW r \in Runs, Post(r)
    PROVE  /\ SameClaim(run[r], run'[r]) /\ run[r].step = "post" /\ run'[r].step = "post"
           /\ run'[r].out = run[r].out /\ run'[r].mk = run[r].mk /\ run'[r].recs = run[r].recs
           /\ \E f \in run[r].todo :
                /\ posts' = Append(posts, [id |-> f.id, pass |-> run[r].pass, sev |-> f.sev,
                                           upgrade |-> f.id \in run[r].held])
                /\ run'[r].todo = {g \in run[r].todo : g.id # f.id}
<1>1. run[r] \in RunRecord /\ run \in [Runs -> RunRecord] /\ run[r].step = "post"
  BY RunIsRecord DEF TypeInv, TypeOK, Post, At
<1>2. PICK f \in run[r].todo :
        /\ posts' = Append(posts, [id |-> f.id, pass |-> run[r].pass, sev |-> f.sev,
                                   upgrade |-> f.id \in run[r].held])
        /\ run' = [run EXCEPT ![r].todo = {g \in run[r].todo : g.id # f.id}]
  BY DEF Post
<1> DEFINE todo == {g \in run[r].todo : g.id # f.id}
<1>3. run'[r] = [run[r] EXCEPT !.todo = todo]
  <2>1. run' = [run EXCEPT ![r].todo = todo]
    BY <1>2
  <2> HIDE DEF todo
  <2> QED BY <1>1, <2>1
<1>4. SameClaim(run[r], run'[r]) /\ run'[r].step = "post" /\ run'[r].out = run[r].out
      /\ run'[r].mk = run[r].mk /\ run'[r].recs = run[r].recs /\ run'[r].todo = todo
  <2> HIDE DEF todo
  <2> QED BY <1>1, <1>3 DEF RunRecord, SameClaim
<1> QED
  BY <1>1, <1>2, <1>4

LEMMA FinishAfter ==
    ASSUME TypeInv, NEW r \in Runs, Finish(r)
    PROVE  run'[r] = IdleRun /\ run'[r].step = "idle"
<1>1. run'[r] = IdleRun
  BY RunAfter DEF Finish
<1> QED
  BY <1>1 DEF IdleRun

LEMMA LabelAfter ==
    ASSUME TypeInv, NEW r \in Runs, Label(r)
    PROVE  /\ \/ Moved(r) /\ Finish(r)
              \/ /\ ~Moved(r) /\ run'[r].step = "mark" /\ SameClaim(run[r], run'[r])
                 /\ run'[r].next # "awaiting-review"
           /\ UNCHANGED <<pr, used>>
<1>1. CASE Moved(r)
  BY <1>1 DEF Label
<1>2. CASE ~Moved(r)
  <2> DEFINE Choice(lost) ==
        PassLabelWithCoverage(run[r].mk.verdict, Actionable(run[r].mk.findings),
                              run[r].escalated, Convergence(r, lost))
  <2>1. PICK lost \in {FALSE, MayLose} :
          run' = [run EXCEPT ![r] = [run[r] EXCEPT !.step = "mark", !.next = Choice(lost)]]
    BY <1>2 DEF Label
  <2> DEFINE next == Choice(lost)
             m == [run[r] EXCEPT !.step = "mark", !.next = next]
  <2>2. run' = [run EXCEPT ![r] = m] /\ next # "awaiting-review"
    <3>1. Choice(lost) # "awaiting-review"
      BY DEF PassLabelWithCoverage, PassLabel
    <3> QED BY <2>1, <3>1
  <2>3. run[r] \in RunRecord
    BY RunIsRecord
  <2>4. m.step = "mark" /\ m.next = next /\ SameClaim(run[r], m)
    <3> HIDE DEF next
    <3> QED BY <2>3 DEF RunRecord, SameClaim
  <2> HIDE DEF m, next
  <2>5. run'[r] = m
    BY <2>2, RunAfter
  <2> QED BY <1>2, <2>2, <2>4, <2>5 DEF Label
<1> QED
  BY <1>1, <1>2 DEF Label

(***************************************************************************)
(* The numbering of the passes, for one run at a time.  A run that may      *)
(* still write its claim comment holds the newest claim, under the number  *)
(* it works with.                                                          *)
(***************************************************************************)
Editing == {"scope", "nothing", "emptied", "pack", "initial", "plan", "record", "edit",
            "halt", "post", "complete"}

(* The run may still write its claim comment. *)
HoldsClaim(R) == R.step \in Editing \/ (R.step = "claim" /\ R.kind # "new")

Opens(R) == R.step = "claim" /\ R.kind = "new"

Numbered(cs) == \A i \in Ran(cs) : cs[i].pass = Cardinality({j \in Ran(cs) : j <= i})

(* The claim of a pass: no claim that ran comes after it, and its number   *)
(* is one more than there are claims before it.                            *)
Newest(cs, at, pass) ==
    /\ at \in DOMAIN cs
    /\ \A j \in Ran(cs) : j <= at
    /\ pass = Cardinality({j \in Ran(cs) : j < at}) + 1

Numbering(R, cs) ==
    /\ HoldsClaim(R) => Newest(cs, R.at, R.pass)
    /\ Opens(R) => R.pass = Cardinality(Ran(cs)) + 1
    /\ HoldsClaim(R) \/ Opens(R) => R.out.pass = R.pass /\ R.mk.pass = R.pass

NumberedInv == TypeInv /\ Numbered(reviews) /\ \A r \in Runs : Numbering(run[r], reviews)

(* The members of a set of numbers up to one of them. *)
LEMMA UpTo ==
    ASSUME NEW S \in SUBSET Nat, NEW n \in S
    PROVE  {j \in S : j <= n} = {j \in S : j < n} \cup {n}
<1>1. \A j \in S : j <= n <=> (j < n \/ j = n)
  OBVIOUS
<1> QED
  BY <1>1

LEMMA RanIsFinite ==
    ASSUME NEW cs \in Seq(ReviewMarker)
    PROVE  /\ IsFiniteSet(Ran(cs)) /\ Ran(cs) \in SUBSET (Nat \ {0})
           /\ \A S \in SUBSET Ran(cs) :
                IsFiniteSet(S) /\ Cardinality(S) \in Nat /\ Cardinality(S) <= Cardinality(Ran(cs))
           /\ Cardinality(Ran(cs)) \in Nat
<1>1. DOMAIN cs = 1..Len(cs) /\ Len(cs) \in Nat
  OBVIOUS
<1>2. Ran(cs) \in SUBSET (1..Len(cs))
  BY <1>1 DEF Ran
<1> HIDE DEF Ran
<1>3. IsFiniteSet(Ran(cs))
  <2>1. IsFiniteSet(1..Len(cs))
    BY <1>1, FS_Interval
  <2> QED BY <1>2, <2>1, FS_Subset
<1> QED
  BY <1>2, <1>3, FS_Subset, FS_CardinalityType

(* Rewriting the newest claim, in whatever state it is left. *)
LEMMA EditNumbered ==
    ASSUME NEW cs \in Seq(ReviewMarker), Numbered(cs), NEW at, NEW pass \in Nat,
           Newest(cs, at, pass), NEW m, m.pass = pass, NEW ds, ds = [cs EXCEPT ![at] = m]
    PROVE  Numbered(ds) /\ Newest(ds, at, pass)
<1>1. /\ at \in Nat /\ DOMAIN ds = DOMAIN cs /\ ds[at] = m
      /\ \A i \in DOMAIN cs : i \in Nat /\ (i # at => ds[i] = cs[i])
  BY DEF Newest
<1> DEFINE Early == {j \in Ran(cs) : j < at}
<1>2. /\ Early \in SUBSET Ran(cs) /\ at \notin Early /\ IsFiniteSet(Early)
      /\ Cardinality(Early) \in Nat /\ Ran(cs) \in SUBSET Nat
  BY <1>1, RanIsFinite
<1>3. Ran(cs) \subseteq Early \cup {at}
  BY <1>1 DEF Newest, Ran
<1>4. (\A j : j # at => (j \in Ran(ds) <=> j \in Ran(cs))) /\ Ran(ds) \in SUBSET Nat
  BY <1>1 DEF Ran
<1>5. {j \in Ran(ds) : j < at} = Early
  <2>1. ASSUME NEW j \in Nat, j < at PROVE j \in Ran(ds) <=> j \in Ran(cs)
    <3>1. at \in Nat
      BY <1>1
    <3>2. j # at
      BY <3>1, <2>1
    <3> QED BY <3>2, <1>4
  <2>2. Ran(ds) \in SUBSET Nat /\ Ran(cs) \in SUBSET Nat
    BY <1>2, <1>4
  <2> QED BY <2>1, <2>2
<1>6. \A j \in Ran(ds) : j <= at
  BY <1>1, <1>4 DEF Newest
<1>7. Newest(ds, at, pass)
  BY <1>1, <1>5, <1>6 DEF Newest
<1>8. ASSUME NEW i \in Ran(ds) PROVE ds[i].pass = Cardinality({j \in Ran(ds) : j <= i})
  <2>1. CASE i = at
    <3>1. {j \in Ran(ds) : j <= i} = Early \cup {at}
      <4>1. Ran(ds) \in SUBSET Nat
        BY <1>4
      <4>2. {j \in Ran(ds) : j <= i} = {j \in Ran(ds) : j < i} \cup {i}
        BY <4>1, UpTo
      <4> QED BY <4>2, <1>5, <2>1
    <3>2. Cardinality(Early \cup {at}) = Cardinality(Early) + 1
      BY <1>2, FS_AddElement
    <3> QED BY <2>1, <3>1, <3>2, <1>1 DEF Newest
  <2>2. CASE i # at
    <3>1. i \in Ran(cs) /\ i < at /\ ds[i] = cs[i]
      BY <2>2, <1>1, <1>4, <1>6 DEF Ran
    <3>2. {j \in Ran(ds) : j <= i} = {j \in Ran(cs) : j <= i}
      BY <3>1, <1>1, <1>4 DEF Ran
    <3> QED BY <3>1, <3>2 DEF Numbered
  <2> QED BY <2>1, <2>2
<1> QED
  BY <1>7, <1>8 DEF Numbered

(* A claim of the next number, or a refusal of any, comes last. *)
LEMMA AppendNumbered ==
    ASSUME NEW cs \in Seq(ReviewMarker), Numbered(cs), NEW m \in ReviewMarker,
           NEW ds, ds = Append(cs, m)
    PROVE  /\ m.state = "declined" => Numbered(ds)
           /\ m.pass = Cardinality(Ran(cs)) + 1 => Numbered(ds) /\ Newest(ds, Len(cs) + 1, m.pass)
<1> DEFINE n == Len(cs) + 1
<1>1. /\ n \in Nat /\ DOMAIN cs = 1..Len(cs) /\ DOMAIN ds = 1..n /\ ds[n] = m
      /\ \A i \in DOMAIN cs : i \in Nat /\ i < n /\ ds[i] = cs[i]
  BY AppendProperties
<1>2. Ran(ds) = IF m.state = "declined" THEN Ran(cs) ELSE Ran(cs) \cup {n}
  BY <1>1 DEF Ran
<1>3. \A i \in Ran(cs) : i \in Nat /\ i < n /\ ds[i] = cs[i]
  BY <1>1 DEF Ran
<1>0. Ran(cs) \in SUBSET Nat /\ n \notin Ran(cs)
  BY <1>3, <1>1
<1> HIDE DEF n
<1>4. \A i \in Ran(cs) : {j \in Ran(ds) : j <= i} = {j \in Ran(cs) : j <= i}
  BY <1>1, <1>2, <1>3
<1>5. {j \in Ran(ds) : j < n} = Ran(cs)
  BY <1>1, <1>2, <1>3
<1>6. ASSUME m.pass = Cardinality(Ran(cs)) + 1, n \in Ran(ds)
      PROVE  ds[n].pass = Cardinality({j \in Ran(ds) : j <= n})
  <2>1. {j \in Ran(ds) : j <= n} = Ran(cs) \cup {n}
    <3>1. {j \in Ran(ds) : j <= n} = {j \in Ran(ds) : j < n} \cup {n}
      <4>1. Ran(ds) \in SUBSET Nat
        BY <1>0, <1>1, <1>2
      <4> QED BY <1>6, <4>1, UpTo
    <3> QED BY <3>1, <1>5
  <2>2. n \notin Ran(cs) /\ IsFiniteSet(Ran(cs))
    BY <1>1, <1>3, RanIsFinite
  <2>3. Cardinality(Ran(cs) \cup {n}) = Cardinality(Ran(cs)) + 1
    BY <2>2, FS_AddElement
  <2> QED BY <1>1, <1>6, <2>1, <2>3
<1>7. \A i \in Ran(cs) : ds[i].pass = Cardinality({j \in Ran(ds) : j <= i})
  BY <1>3, <1>4 DEF Numbered
<1>8. m.state = "declined" => Numbered(ds)
  BY <1>2, <1>7 DEF Numbered
<1>9. ASSUME m.pass = Cardinality(Ran(cs)) + 1 PROVE Numbered(ds) /\ Newest(ds, n, m.pass)
  <2>1. Numbered(ds)
    BY <1>2, <1>6, <1>7, <1>9 DEF Numbered
  <2>2. \A j \in Ran(ds) : j <= n
    BY <1>1, <1>2, <1>3
  <2>3. n \in DOMAIN ds
    BY <1>1
  <2>4. m.pass = Cardinality({j \in Ran(ds) : j < n}) + 1
    BY <1>5, <1>9
  <2> QED BY <2>1, <2>2, <2>3, <2>4 DEF Newest
<1> QED
  BY <1>8, <1>9 DEF n

(* The current pass counts the claims that ran. *)
LEMMA CurrentIsCount ==
    ASSUME NEW cs \in Seq(ReviewMarker), Numbered(cs)
    PROVE  CurrentReviewPass(cs) = Cardinality(Ran(cs))
<1> DEFINE P == {cs[i].pass : i \in Ran(cs)}
           n == Cardinality(Ran(cs))
<1>1. n \in Nat
  BY RanIsFinite
<1>2. \A p \in P : p \in Nat /\ p <= n
  <2> SUFFICES ASSUME NEW i \in Ran(cs) PROVE cs[i].pass \in Nat /\ cs[i].pass <= n
    OBVIOUS
  <2>1. {j \in Ran(cs) : j <= i} \in SUBSET Ran(cs)
    OBVIOUS
  <2> QED BY <2>1, RanIsFinite DEF Numbered
<1>3. n # 0 => n \in P
  <2> SUFFICES ASSUME n # 0 PROVE n \in P
    OBVIOUS
  <2>1. Ran(cs) # {} /\ Ran(cs) \in SUBSET Nat /\ IsFiniteSet(Ran(cs))
    BY RanIsFinite, FS_EmptySet
  <2>2. PICK i \in Ran(cs) : \A j \in Ran(cs) : i >= j
    BY <2>1, MaxIsMember
  <2>3. {j \in Ran(cs) : j <= i} = Ran(cs)
    BY <2>1, <2>2
  <2> QED BY <2>3 DEF Numbered
<1>4. IsFiniteSet({0} \cup P)
  <2>1. Ran(cs) \in SUBSET DOMAIN cs
    BY DEF Ran
  <2> QED BY <2>1, PassesAreNaturals
<1>5. Max({0} \cup P) \in {0} \cup P /\ \A y \in {0} \cup P : Max({0} \cup P) >= y
  <2>1. {0} \cup P \in SUBSET Nat /\ {0} \cup P # {}
    BY <1>2
  <2> HIDE DEF P
  <2> QED BY <1>4, <2>1, MaxIsMember
<1>6. Max({0} \cup P) = n
  <2> DEFINE x == Max({0} \cup P)
  <2>1. x = 0 \/ (x \in Nat /\ x <= n)
    <3>1. x \in {0} \cup P
      BY <1>5
    <3> HIDE DEF x, P, n
    <3> QED BY <1>2, <3>1
  <2>2. n # 0 => x >= n
    <3>1. \A y \in {0} \cup P : x >= y
      BY <1>5
    <3> HIDE DEF x, P, n
    <3> QED BY <1>3, <3>1
  <2> HIDE DEF x, n
  <2>3. x = n
    BY <1>1, <2>1, <2>2
  <2> QED BY <2>3 DEF x
<1> QED
  BY <1>6 DEF CurrentReviewPass

(* The claim whose number is the current pass is the newest. *)
LEMMA CurrentIsNewest ==
    ASSUME NEW cs \in Seq(ReviewMarker), Numbered(cs), NEW i \in Ran(cs),
           cs[i].pass = Cardinality(Ran(cs))
    PROVE  Newest(cs, i, cs[i].pass)
<1> DEFINE S == {j \in Ran(cs) : j <= i}
<1>1. IsFiniteSet(Ran(cs)) /\ Ran(cs) \in SUBSET (Nat \ {0}) /\ S \in SUBSET Ran(cs)
  BY RanIsFinite
<1>2. S = Ran(cs)
  <2>1. Cardinality(S) = Cardinality(Ran(cs))
    BY DEF Numbered
  <2> HIDE DEF S
  <2> QED BY <1>1, <2>1, FS_Subset
<1>3. {j \in Ran(cs) : j < i} = Ran(cs) \ {i}
  BY <1>1, <1>2
<1>4. Cardinality(Ran(cs) \ {i}) = Cardinality(Ran(cs)) - 1 /\ Cardinality(Ran(cs)) \in Nat
  BY <1>1, FS_RemoveElement, FS_CardinalityType
<1>5. i \in DOMAIN cs
  BY DEF Ran
<1>6. \A j \in Ran(cs) : j <= i
  BY <1>2
<1>7. cs[i].pass = Cardinality({j \in Ran(cs) : j < i}) + 1
  <2>1. cs[i].pass = Cardinality(Ran(cs))
    OBVIOUS
  <2>2. Cardinality({j \in Ran(cs) : j < i}) = Cardinality(Ran(cs)) - 1
    BY <1>3, <1>4
  <2> HIDE DEF S
  <2> QED BY <1>4, <2>1, <2>2
<1> QED
  BY <1>5, <1>6, <1>7 DEF Newest

(* What every step of a run that holds its claim does to the comments and  *)
(* to its own numbers.                                                     *)
Numbers(r) ==
    /\ run'[r].step # "claim"
    /\ run'[r].step \in Editing =>
         /\ run'[r].at = run[r].at /\ run'[r].pass = run[r].pass
         /\ run'[r].out.pass = run[r].pass /\ run'[r].mk.pass = run[r].pass
    /\ reviews' = reviews \/ \E m : m.pass = run[r].pass /\ Edit(r, m)

LEMMA NumbersKept ==
    ASSUME TypeInv, NEW r \in Runs, Numbered(reviews), Numbering(run[r], reviews),
           HoldsClaim(run[r]), Numbers(r)
    PROVE  Numbered(reviews') /\ Numbering(run'[r], reviews')
<1>1. reviews \in Seq(ReviewMarker) /\ run[r].pass \in Nat /\ Newest(reviews, run[r].at, run[r].pass)
  BY RunIsRecord, RunFields DEF TypeInv, TypeOK, Numbering
<1>2. Numbered(reviews') /\ Newest(reviews', run[r].at, run[r].pass)
  <2>1. CASE reviews' = reviews
    BY <1>1, <2>1
  <2>2. ASSUME NEW m, m.pass = run[r].pass, Edit(r, m)
        PROVE  Numbered(reviews') /\ Newest(reviews', run[r].at, run[r].pass)
    BY <1>1, <2>2, EditNumbered DEF Edit
  <2> QED BY <2>1, <2>2 DEF Numbers
<1> QED
  BY <1>2 DEF Numbers, Numbering, HoldsClaim, Opens

(* What a pass reports is still of that pass. *)
LEMMA ReportedPass == ASSUME NEW m \in ReviewMarker PROVE Reported(m).pass = m.pass
BY DEF Reported, ReviewMarker

LEMMA EditingNumbers ==
    ASSUME TypeInv, NEW r \in Runs, Numbering(run[r], reviews), HoldsClaim(run[r]),
           BindScope(r) \/ Bounded(r) \/ EditBatch(r) \/ SettleNothing(r) \/ HaltPass(r)
             \/ Pack(r) \/ PublishInitial(r) \/ Judge(r) \/ RecordBatch(r)
    PROVE  Numbers(r)
<1>1. /\ run[r].out \in ReviewMarker /\ run[r].mk \in ReviewMarker
      /\ run[r].out.pass = run[r].pass /\ run[r].mk.pass = run[r].pass
  BY RunIsRecord, RunFields DEF Numbering
<1>2. CASE BindScope(r)
  <2>1. PICK s \in {"nothing", "pack"} : Goto(r, s)
    BY <1>2 DEF BindScope
  <2> QED BY <1>1, <1>2, <2>1, GotoAfter DEF BindScope, Numbers, SameClaim, pr
<1>3. CASE Bounded(r)
  BY <1>1, <1>3, GotoAfter DEF Bounded, Numbers, SameClaim, pr
<1>4. CASE EditBatch(r)
  <2> DEFINE m == [run[r].mk EXCEPT !.state = "started"]
  <2>1. m.pass = run[r].pass
    BY <1>1 DEF ReviewMarker
  <2>2. Edit(r, m) /\ Goto(r, "plan")
    BY <1>4 DEF EditBatch
  <2> HIDE DEF m
  <2> QED BY <1>1, <2>1, <2>2, GotoAfter DEF Numbers, SameClaim
<1>5. CASE SettleNothing(r)
  <2> DEFINE own == IF run[r].late THEN run[r].mk ELSE run[r].out
             m == [own EXCEPT !.state = "complete", !.verdict = "blocked", !.reason = "nothing"]
  <2>1. own \in ReviewMarker /\ own.pass = run[r].pass
    BY <1>1
  <2>2. Edit(r, m) /\ Reports(r, "emptied", m)
    BY <1>5 DEF SettleNothing, Reports
  <2>3. m.pass = run[r].pass
    <3> HIDE DEF own
    <3> QED BY <2>1 DEF ReviewMarker
  <2> HIDE DEF m
  <2>4. SameClaim(run[r], run'[r]) /\ run'[r].step = "emptied" /\ run'[r].out = m /\ run'[r].mk = run[r].mk
    BY <2>2, ReportAfter
  <2> QED BY <1>1, <2>2, <2>3, <2>4 DEF Numbers, SameClaim
<1>6. CASE HaltPass(r)
  <2> DEFINE findings == IF run[r].out.findings = {} THEN run[r].mk.findings ELSE run[r].out.findings
             m == [run[r].mk EXCEPT !.state = "incomplete", !.stop = TRUE, !.head = run[r].out.head,
                     !.old = run[r].out.old, !.findings = findings]
  <2>1. Edit(r, m) /\ Reports(r, "halted", m)
    BY <1>6 DEF HaltPass, Reports
  <2>2. m.pass = run[r].pass
    <3> HIDE DEF findings
    <3> QED BY <1>1 DEF ReviewMarker
  <2> HIDE DEF m
  <2>3. run'[r].step = "halted"
    BY <2>1, ReportAfter
  <2> QED BY <2>1, <2>2, <2>3 DEF Numbers, Editing
<1>7. CASE Pack(r)
  BY <1>1, <1>7, PackAfter DEF Pack, Numbers, SameClaim, pr
<1>8. CASE PublishInitial(r)
  <2> DEFINE m == [run[r].mk EXCEPT !.gen = GenerationOf(r)]
  <2>1. Marks(r, "plan", m) /\ reviews' = reviews
    BY <1>8 DEF PublishInitial, Marks, pr
  <2>2. m.pass = run[r].pass
    BY <1>1 DEF ReviewMarker
  <2> HIDE DEF m
  <2>3. SameClaim(run[r], run'[r]) /\ run'[r].step = "plan" /\ run'[r].out = m /\ run'[r].mk = m
    BY <2>1, MarkerAfter
  <2> QED BY <2>1, <2>2, <2>3 DEF Numbers, SameClaim
<1>9. CASE Judge(r)
  BY <1>1, <1>9, JudgeAfter DEF Judge, Numbers, SameClaim, pr
<1>10. CASE RecordBatch(r)
  <2> DEFINE findings == IF run[r].found = {} THEN run[r].mk.findings ELSE run[r].found
             m == [run[r].mk EXCEPT !.gen = GenerationOf(r), !.findings = findings]
  <2>1. Marks(r, "edit", m) /\ reviews' = reviews
    BY <1>10 DEF RecordBatch, Marks, pr
  <2>2. m.pass = run[r].pass
    <3> HIDE DEF findings
    <3> QED BY <1>1 DEF ReviewMarker
  <2> HIDE DEF m
  <2>3. SameClaim(run[r], run'[r]) /\ run'[r].step = "edit" /\ run'[r].out = m /\ run'[r].mk = m
    BY <2>1, MarkerAfter
  <2> QED BY <2>1, <2>2, <2>3 DEF Numbers, SameClaim
<1> QED
  BY <1>2, <1>3, <1>4, <1>5, <1>6, <1>7, <1>8, <1>9, <1>10

LEMMA PublishingNumbers ==
    ASSUME TypeInv, NEW r \in Runs, Numbering(run[r], reviews), HoldsClaim(run[r]),
           FinishCovered(r) \/ Post(r) \/ Summarize(r) \/ Complete(r)
    PROVE  Numbers(r)
<1>1. /\ run[r].out \in ReviewMarker /\ run[r].mk \in ReviewMarker
      /\ run[r].out.pass = run[r].pass /\ run[r].mk.pass = run[r].pass
  BY RunIsRecord, RunFields DEF Numbering
<1>2. CASE FinishCovered(r)
  BY <1>1, <1>2, FinishCoveredAfter DEF FinishCovered, Numbers, SameClaim, pr
<1>3. CASE Post(r)
  BY <1>1, <1>3, PostAfter DEF Post, Numbers, SameClaim
<1>4. CASE Summarize(r)
  <2>1. PICK m \in {run[r].mk, [run[r].mk EXCEPT !.verdict = "issues-remain"],
                    [run[r].mk EXCEPT !.verdict = "blocked", !.reason = "debt"]} :
          Edit(r, m) /\ Marks(r, "complete", m)
    BY <1>4 DEF Summarize, Marks
  <2>2. m.pass = run[r].pass
    BY <1>1 DEF ReviewMarker
  <2>3. SameClaim(run[r], run'[r]) /\ run'[r].step = "complete" /\ run'[r].out = m /\ run'[r].mk = m
    BY <2>1, MarkerAfter
  <2> QED BY <2>1, <2>2, <2>3 DEF Numbers, SameClaim
<1>5. CASE Complete(r)
  <2> DEFINE m == [run[r].mk EXCEPT !.state = "complete"]
  <2>1. Edit(r, m) /\ Marks(r, "label", m)
    BY <1>5 DEF Complete, Marks
  <2>2. m.pass = run[r].pass
    BY <1>1 DEF ReviewMarker
  <2> HIDE DEF m
  <2>3. run'[r].step = "label"
    BY <2>1, MarkerAfter
  <2> QED BY <2>1, <2>2, <2>3 DEF Numbers, Editing
<1> QED
  BY <1>2, <1>3, <1>4, <1>5

(* A failing run reports on its own claim, and keeps nothing. *)
LEMMA EndingNumbers ==
    ASSUME TypeInv, NEW r \in Runs, Numbering(run[r], reviews),
           Finish(r), reviews' = reviews \/ (HoldsClaim(run[r]) /\ Edit(r, Reported(run[r].out)))
    PROVE  Numbers(r) /\ ~HoldsClaim(run'[r]) /\ ~Opens(run'[r])
<1>1. run'[r].step = "idle"
  BY FinishAfter
<1>2. HoldsClaim(run[r]) => Reported(run[r].out).pass = run[r].pass
  BY RunIsRecord, RunFields, ReportedPass DEF Numbering
<1> QED
  BY <1>1, <1>2 DEF Numbers, Editing, HoldsClaim, Opens

(* The markers of the run's pass, as admission reads them. *)
LEMMA MarkerForPassNumber ==
    ASSUME NEW markers \in Seq(ReviewMarker), NEW pass \in Nat
    PROVE  MarkerForPass(markers, pass).pass = pass
<1> DEFINE own == IF MarkerFor(markers, pass) = 0 THEN BlankMarker(pass)
                  ELSE markers[MarkerFor(markers, pass)]
<1>1. own \in ReviewMarker /\ own.pass = pass
  BY MarkerForType, BlankMarkerType DEF BlankMarker
<1>2. [own EXCEPT !.gen = LatestCoverageCheckpoint(markers, pass)].pass = pass
  <2> HIDE DEF own
  <2> QED BY <1>1 DEF ReviewMarker
<1> QED
  BY <1>1, <1>2 DEF MarkerForPass

(* What an admitted run starts from, when its comment list was read. *)
LEMMA AdmitAfter ==
    ASSUME TypeInv, NEW r \in Runs, NEW markers \in Seq(ReviewMarker), NEW repairs,
           AdmitFrom(r, markers, repairs)
    PROVE  LET a == Admission(markers)
           IN  /\ run'[r].step \in {"decline", "claim"} /\ run'[r].kind = a.kind
               /\ run'[r].at = a.at /\ run'[r].pass = a.pass
               /\ run'[r].head = head /\ run'[r].base = base /\ ~run'[r].late
               /\ run'[r].out = ClaimFor(a) /\ run'[r].mk = MarkerForPass(markers, a.pass)
               /\ a.kind \in {"new", "resume", "stale", "redrive"} /\ a.pass \in Nat
BY AdmissionType DEF AdmitFrom, TypeInv, TypeOK, IdleRun

(* A run that continues a pass continues the newest, and a new one is next. *)
LEMMA AdmissionNumbers ==
    ASSUME NEW markers \in Seq(ReviewMarker), Numbered(markers)
    PROVE  LET a == Admission(markers)
           IN  /\ a.kind \in {"resume", "stale", "redrive"} =>
                    Newest(markers, a.at, a.pass) /\ markers[a.at].pass = a.pass
               /\ a.kind = "new" => a.pass = Cardinality(Ran(markers)) + 1
<1> DEFINE cur == CurrentReviewPass(markers)
           i == MarkerFor(markers, cur)
<1>1. cur = Cardinality(Ran(markers))
  BY CurrentIsCount
<1>2. i # 0 => i \in DOMAIN markers /\ markers[i].pass = cur
  BY MarkerForType
<1>3. Admission(markers) =
        IF OpenClaim(markers, cur)
        THEN [kind |-> IF ClaimIsStale(markers[i], head) THEN "stale" ELSE "resume",
              pass |-> cur, at |-> i]
        ELSE IF IsNewRevision(markers, head)
        THEN [kind |-> "new", pass |-> cur + 1, at |-> 0]
        ELSE IF i # 0 /\ ReviewRedrivable(markers[i].state, markers[i].verdict)
        THEN [kind |-> "redrive", pass |-> cur, at |-> i]
        ELSE [kind |-> "already", pass |-> cur, at |-> i]
  BY DEF Admission
<1>4. OpenClaim(markers, cur) => i # 0 /\ markers[i].state = "started"
  BY DEF OpenClaim
<1>5. i # 0 /\ markers[i].state # "declined" => Newest(markers, i, cur)
  <2> SUFFICES ASSUME i # 0, markers[i].state # "declined" PROVE Newest(markers, i, cur)
    OBVIOUS
  <2>1. i \in Ran(markers) /\ markers[i].pass = cur
    BY <1>2 DEF Ran
  <2> HIDE DEF cur, i
  <2> QED BY <1>1, <2>1, CurrentIsNewest
<1>6. i # 0 /\ ReviewRedrivable(markers[i].state, markers[i].verdict) => markers[i].state # "declined"
  BY DEF ReviewRedrivable
<1> HIDE DEF cur, i
<1>7. CASE OpenClaim(markers, cur)
  BY <1>2, <1>3, <1>4, <1>5, <1>7
<1>8. CASE ~OpenClaim(markers, cur)
  BY <1>1, <1>2, <1>3, <1>5, <1>6, <1>8
<1> QED
  BY <1>7, <1>8

LEMMA ClaimForPass ==
    ASSUME reviews \in Seq(ReviewMarker), NEW a, a.kind \in {"new", "resume", "stale", "redrive"},
           a.pass \in Nat, a.kind # "new" => a.at \in DOMAIN reviews /\ reviews[a.at].pass = a.pass
    PROVE  /\ ClaimFor(a).pass = a.pass
           /\ a.kind \in {"new", "redrive"} => ClaimFor(a).state = "started"
           /\ a.kind = "new" => ClaimFor(a).gen = NoGen
           /\ a.kind # "new" => ClaimFor(a).gen = reviews[a.at].gen
<1>1. CASE a.kind = "new"
  BY <1>1 DEF ClaimFor, StartedMarker, BlankMarker
<1>2. CASE a.kind # "new"
  <2>1. reviews[a.at] \in ReviewMarker /\ reviews[a.at].pass = a.pass
    BY <1>2
  <2> QED
    BY <1>2, <2>1 DEF ClaimFor, ReviewMarker
<1> QED
  BY <1>1, <1>2

LEMMA AdmitNumbers ==
    ASSUME TypeInv, ~MayMisread, NEW r \in Runs, Numbered(reviews), Admit(r)
    PROVE  Numbered(reviews') /\ Numbering(run'[r], reviews')
<1> DEFINE a == Admission(reviews)
<1>1. AdmitFrom(r, reviews, resolves) /\ reviews' = reviews /\ reviews \in Seq(ReviewMarker)
  BY DEF Admit, pr, TypeInv, TypeOK
<1>2. /\ run'[r].step \in {"decline", "claim"} /\ run'[r].kind = a.kind
      /\ run'[r].at = a.at /\ run'[r].pass = a.pass
      /\ run'[r].out = ClaimFor(a) /\ run'[r].mk = MarkerForPass(reviews, a.pass)
      /\ a.kind \in {"new", "resume", "stale", "redrive"} /\ a.pass \in Nat
  BY <1>1, AdmitAfter
<1>3. /\ a.kind # "new" => Newest(reviews, a.at, a.pass) /\ reviews[a.at].pass = a.pass
      /\ a.kind = "new" => a.pass = Cardinality(Ran(reviews)) + 1
  BY <1>1, <1>2, AdmissionNumbers
<1>4. MarkerForPass(reviews, a.pass).pass = a.pass
  BY <1>1, <1>2, MarkerForPassNumber
<1>5. ClaimFor(a).pass = a.pass
  <2>1. a.kind # "new" => a.at \in DOMAIN reviews /\ reviews[a.at].pass = a.pass
    BY <1>3 DEF Newest
  <2> HIDE DEF a
  <2> QED BY <1>1, <1>2, <2>1, ClaimForPass
<1> HIDE DEF a
<1> QED
  BY <1>1, <1>2, <1>3, <1>4, <1>5 DEF Numbering, HoldsClaim, Opens, Editing

(* Refusals are not counted, and a new claim is the next. *)
LEMMA OpeningNumbers ==
    ASSUME TypeInv, NEW r \in Runs, Numbered(reviews), Numbering(run[r], reviews),
           PostDeclined(r) \/ PostClaim(r)
    PROVE  Numbered(reviews') /\ Numbering(run'[r], reviews')
<1>1. /\ reviews \in Seq(ReviewMarker) /\ run[r].out \in ReviewMarker /\ run[r].pass \in Nat
      /\ run[r].head \in Heads \cup {NoHead}
  BY RunIsRecord, RunFields DEF TypeInv, TypeOK, RunRecord
<1>2. CASE PostDeclined(r)
  <2> DEFINE m == [BlankMarker(run[r].pass) EXCEPT !.state = "declined", !.head = run[r].head,
                     !.verdict = "declined", !.reason = "cap"]
  <2>1. m \in ReviewMarker /\ m.state = "declined"
    <3>1. BlankMarker(run[r].pass) \in ReviewMarker
      BY <1>1, BlankMarkerType
    <3> QED BY <1>1, <3>1 DEF ReviewMarker, PassStates, MarkerVerdicts, Reasons
  <2>2. reviews' = Append(reviews, m) /\ Goto(r, "halted")
    BY <1>2 DEF PostDeclined
  <2>3. run'[r].step = "halted"
    BY <2>2, GotoAfter
  <2> HIDE DEF m
  <2> QED
    BY <1>1, <2>1, <2>2, <2>3, AppendNumbered DEF Numbering, HoldsClaim, Opens, Editing
<1>3. CASE PostClaim(r) /\ run[r].kind = "new"
  <2>1. reviews' = Append(reviews, run[r].out)
    BY <1>3 DEF PostClaim
  <2>2. run'[r].step = "scope" /\ run'[r].pass = run[r].pass /\ run'[r].at = Len(reviews) + 1
        /\ run'[r].out = run[r].out /\ run'[r].mk = run[r].mk /\ Opens(run[r])
    BY <1>3, PostClaimAfter DEF Opens
  <2>3. Numbered(reviews') /\ Newest(reviews', Len(reviews) + 1, run[r].pass)
    BY <1>1, <2>1, <2>2, AppendNumbered DEF Numbering
  <2> QED
    BY <2>2, <2>3 DEF Numbering, HoldsClaim, Opens
<1>4. CASE PostClaim(r) /\ run[r].kind # "new"
  <2>1. /\ run[r].step = "claim" /\ run'[r].step = "scope" /\ run'[r].pass = run[r].pass
        /\ run'[r].at = run[r].at /\ run'[r].out = run[r].out /\ run'[r].mk = run[r].mk
    BY <1>4, PostClaimAfter
  <2>2. HoldsClaim(run[r])
    BY <1>4, <2>1 DEF HoldsClaim
  <2>3. reviews' = reviews \/ Edit(r, run[r].out)
    BY <1>4 DEF PostClaim
  <2>4. Numbers(r)
    BY <2>1, <2>2, <2>3 DEF Numbers, Numbering
  <2> QED
    BY <2>2, <2>4, NumbersKept
<1> QED
  BY <1>2, <1>3, <1>4

(* Every step of a run keeps the numbering. *)
LEMMA WorkNumbers ==
    ASSUME TypeInv, ~MayMisread, NEW r \in Runs, Numbered(reviews), Numbering(run[r], reviews),
           Admit(r) \/ Work(r) \/ Trouble(r)
    PROVE  Numbered(reviews') /\ Numbering(run'[r], reviews')
<1>1. CASE Admit(r)
  BY <1>1, AdmitNumbers
<1>2. CASE PostDeclined(r) \/ PostClaim(r)
  BY <1>2, OpeningNumbers
<1>3. CASE BindScope(r) \/ Bounded(r) \/ EditBatch(r) \/ SettleNothing(r) \/ HaltPass(r)
             \/ Pack(r) \/ PublishInitial(r) \/ Judge(r) \/ RecordBatch(r)
             \/ FinishCovered(r) \/ Post(r) \/ Summarize(r) \/ Complete(r)
  <2>1. HoldsClaim(run[r])
    BY <1>3 DEF BindScope, Bounded, EditBatch, SettleNothing, HaltPass, Pack, PublishInitial,
       Judge, RecordBatch, FinishCovered, Post, Summarize, Complete, At, HoldsClaim, Editing
  <2> QED BY <1>3, <2>1, EditingNumbers, PublishingNumbers, NumbersKept
<1>4. CASE LabelEmptied(r) \/ LabelHalted(r) \/ Label(r) \/ Mark(r) \/ Stale(r) \/ Trouble(r)
  <2>1. CASE run'[r].step = "mark" /\ reviews' = reviews
    BY <2>1 DEF Numbering, HoldsClaim, Opens, Editing
  <2>2. CASE Finish(r) /\ (reviews' = reviews \/ (HoldsClaim(run[r]) /\ Edit(r, Reported(run[r].out))))
    <3>1. Numbers(r) /\ ~HoldsClaim(run'[r]) /\ ~Opens(run'[r])
      BY <2>2, EndingNumbers
    <3>2. CASE reviews' = reviews
      BY <3>1, <3>2 DEF Numbering
    <3>3. CASE HoldsClaim(run[r])
      BY <3>1, <3>3, NumbersKept
    <3> QED BY <2>2, <3>2, <3>3
  <2>3. CASE LabelEmptied(r)
    BY <2>2, <2>3 DEF LabelEmptied, At, HoldsClaim, Editing
  <2>4. CASE Label(r)
    BY <2>1, <2>2, <2>4, LabelAfter DEF pr
  <2>5. CASE LabelHalted(r) \/ Mark(r) \/ Crash(r)
    BY <2>2, <2>5 DEF LabelHalted, Mark, Crash, pr
  <2>6. CASE Stale(r)
    BY <2>2, <2>6 DEF Stale, ReportFatal, HoldsClaim, Editing
  <2>7. CASE Fail(r)
    BY <2>2, <2>7 DEF Fail, ReportFatal, Claimed, HoldsClaim, Editing, pr
  <2> QED
    BY <1>4, <2>3, <2>4, <2>5, <2>6, <2>7 DEF Trouble
<1> QED
  BY <1>1, <1>2, <1>3, <1>4 DEF Work

(* Of the rest of the world, only a claim's age touches a comment. *)
LEMMA EnvironmentComments ==
    ASSUME TypeInv, Environment
    PROVE  /\ run' = run /\ DOMAIN reviews' = DOMAIN reviews /\ posts' = posts
           /\ \A i \in DOMAIN reviews :
                /\ reviews'[i].state = reviews[i].state /\ reviews'[i].pass = reviews[i].pass
                /\ reviews'[i].gen = reviews[i].gen /\ reviews'[i].findings = reviews[i].findings
                /\ reviews'[i].reason = reviews[i].reason
                /\ reviews'[i].head = reviews[i].head /\ reviews'[i].verdict = reviews[i].verdict
<1>1. run' = run /\ posts' = posts
  BY DEF Environment, Push, MoveBase, ClaimAges, Resolve, Stop
<1>2. CASE ClaimAges
  <2>1. PICK i \in DOMAIN reviews : reviews' = [reviews EXCEPT ![i].old = TRUE]
    BY <1>2 DEF ClaimAges
  <2>2. \A j \in DOMAIN reviews : reviews[j] \in ReviewMarker
    BY DEF TypeInv, TypeOK
  <2>3. /\ reviews'[i] = [reviews[i] EXCEPT !.old = TRUE]
        /\ \A j \in DOMAIN reviews : j # i => reviews'[j] = reviews[j]
    BY <2>1
  <2>4. /\ reviews'[i].state = reviews[i].state /\ reviews'[i].pass = reviews[i].pass
        /\ reviews'[i].gen = reviews[i].gen /\ reviews'[i].findings = reviews[i].findings
        /\ reviews'[i].reason = reviews[i].reason
        /\ reviews'[i].head = reviews[i].head /\ reviews'[i].verdict = reviews[i].verdict
    BY <2>2, <2>3 DEF ReviewMarker
  <2> QED BY <1>1, <2>1, <2>3, <2>4
<1>3. CASE ~ClaimAges
  <2>1. reviews' = reviews
    BY <1>3 DEF Environment, Push, MoveBase, Resolve, Stop
  <2> QED BY <1>1, <2>1
<1> QED
  BY <1>2, <1>3

LEMMA NumberedAlways ==
    ASSUME NEW r0, Runs = {r0}, ~MayMisread
    PROVE  Spec => []NumberedInv
<1>1. Init => NumberedInv
  <2>1. Init => TypeInv
    BY InitType
  <2>2. Init => Ran(reviews) = {} /\ \A r \in Runs : run[r].step = "idle"
    BY DEF Init, Ran, IdleRun
  <2> QED
    BY <2>1, <2>2 DEF NumberedInv, Numbered, Numbering, HoldsClaim, Opens, Editing
<1>2. NumberedInv /\ [Next]_vars => NumberedInv'
  <2> SUFFICES ASSUME NumberedInv, [Next]_vars PROVE NumberedInv'
    OBVIOUS
  <2>1. TypeInv /\ Numbered(reviews) /\ Numbering(run[r0], reviews)
    BY DEF NumberedInv
  <2>2. TypeInv'
    BY <2>1, StepType
  <2>3. Numbered(reviews') /\ Numbering(run'[r0], reviews')
    <3>1. CASE \E r \in Runs : Admit(r) \/ Work(r) \/ Trouble(r)
      BY <2>1, <3>1, WorkNumbers
    <3>2. CASE Environment
      <4>1. Ran(reviews') = Ran(reviews) /\ DOMAIN reviews' = DOMAIN reviews /\ run' = run
            /\ \A i \in Ran(reviews) : reviews'[i].pass = reviews[i].pass
        BY <2>1, <3>2, EnvironmentComments DEF Ran
      <4> QED BY <2>1, <4>1 DEF Numbered, Numbering, Newest
    <3>3. CASE UNCHANGED vars
      BY <2>1, <3>3 DEF vars
    <3> QED BY <3>1, <3>2, <3>3 DEF Next
  <2> QED
    BY <2>2, <2>3 DEF NumberedInv, Numbered, Ran
<1> QED
  BY <1>1, <1>2, PTL DEF Spec

(* One leg at a time, its comment lists read: the n-th claim that is not a *)
(* refusal is pass n, for every policy, push, crash and failing call.  The *)
(* run that holds a claim holds the newest, under the number it works      *)
(* with, so a retry rewrites the claim and never posts a second.           *)
THEOREM PassesAreNumberedOnce ==
    ASSUME NEW r0, Runs = {r0}, ~MayMisread
    PROVE  Spec => []OneClaimPerPass
<1>1. Spec => []NumberedInv
  BY NumberedAlways
<1>2. NumberedInv => OneClaimPerPass
  BY DEF NumberedInv, Numbered, OneClaimPerPass
<1> QED
  BY <1>1, <1>2, PTL

(***************************************************************************)
(* The finding comments, for one run at a time.  While a run posts, what   *)
(* it has left to post is without a comment or was held, and with what is  *)
(* posted already is all that its marker will call posted.                 *)
(***************************************************************************)
Once(ps) == \A i, j \in DOMAIN ps : ps[i].id = ps[j].id /\ i < j => ps[j].upgrade

IDs(ps) == {ps[i].id : i \in DOMAIN ps}

Commented(findings, ids) == \A f \in findings : f.posted => f.id \in ids

AllCommented(cs, ids) == \A i \in DOMAIN cs : Published(cs[i]) => Commented(cs[i].findings, ids)

Posting(R, ids) ==
    /\ R.step = "claim" /\ R.kind \in {"new", "redrive"} => R.out.state = "started"
    /\ R.step = "post" =>
         /\ \A f \in R.todo : f.id \in ids => f.id \in R.held
         /\ Commented(R.mk.findings, ids \cup {g.id : g \in R.todo})
    /\ R.step = "complete" => Commented(R.mk.findings, ids)

PostedInv ==
    /\ TypeInv /\ Once(posts)
    /\ AllCommented(reviews, IDs(posts))
    /\ \A r \in Runs : Posting(run[r], IDs(posts))

(* A comment that is no publication, or one whose findings are posted. *)
Answered(m, ids) == Published(m) => Commented(m.findings, ids)

LEMMA EditCommented ==
    ASSUME NEW r, NEW ids, AllCommented(reviews, ids), NEW m, Answered(m, ids), Edit(r, m)
    PROVE  AllCommented(reviews', ids)
BY DEF AllCommented, Answered, Edit

LEMMA AppendCommented ==
    ASSUME TypeInv, NEW ids, AllCommented(reviews, ids), NEW m \in ReviewMarker, Answered(m, ids),
           reviews' = Append(reviews, m)
    PROVE  AllCommented(reviews', ids)
<1>1. reviews \in Seq(ReviewMarker)
  BY DEF TypeInv, TypeOK
<1>2. DOMAIN reviews' = 1..(Len(reviews) + 1) /\ DOMAIN reviews = 1..Len(reviews)
      /\ reviews'[Len(reviews) + 1] = m
      /\ \A i \in DOMAIN reviews : reviews'[i] = reviews[i]
  BY <1>1, AppendProperties
<1>3. \A i \in DOMAIN reviews' : i \in DOMAIN reviews \/ i = Len(reviews) + 1
  BY <1>1, <1>2
<1> QED
  BY <1>2, <1>3 DEF AllCommented, Answered

(* What an error leaves is no publication. *)
LEMMA ReportedAnswers == ASSUME NEW m \in ReviewMarker, NEW ids PROVE Answered(Reported(m), ids)
BY DEF Reported, ReviewMarker, Answered, Published

(* Neither is anything written before the publish path. *)
LEMMA OpeningAnswers ==
    ASSUME TypeInv, NEW r \in Runs, NEW ids, AllCommented(reviews, ids), Posting(run[r], ids),
           PostDeclined(r) \/ PostClaim(r) \/ EditBatch(r) \/ SettleNothing(r) \/ HaltPass(r)
    PROVE  AllCommented(reviews', ids)
<1>1. run[r].out \in ReviewMarker /\ run[r].mk \in ReviewMarker /\ run[r].pass \in Nat
      /\ run[r].head \in Heads \cup {NoHead}
  BY RunIsRecord, RunFields DEF RunRecord
<1>2. CASE PostDeclined(r)
  <2> DEFINE m == [BlankMarker(run[r].pass) EXCEPT !.state = "declined", !.head = run[r].head,
                     !.verdict = "declined", !.reason = "cap"]
  <2>1. m \in ReviewMarker /\ m.state = "declined"
    <3>1. BlankMarker(run[r].pass) \in ReviewMarker
      BY <1>1, BlankMarkerType
    <3> QED BY <1>1, <3>1 DEF ReviewMarker, PassStates, MarkerVerdicts, Reasons
  <2>2. reviews' = Append(reviews, m)
    BY <1>2 DEF PostDeclined
  <2>3. Answered(m, ids)
    BY <2>1 DEF Answered, Published
  <2> HIDE DEF m
  <2> QED BY <2>1, <2>2, <2>3, AppendCommented
<1>3. CASE PostClaim(r)
  <2>1. run[r].kind \in {"new", "redrive"} => Answered(run[r].out, ids)
    BY <1>3 DEF PostClaim, At, Posting, Answered, Published
  <2>2. CASE run[r].kind = "new"
    BY <1>1, <1>3, <2>1, <2>2, AppendCommented DEF PostClaim
  <2>3. CASE run[r].kind = "redrive"
    BY <1>3, <2>1, <2>3, EditCommented DEF PostClaim
  <2>4. CASE run[r].kind \notin {"new", "redrive"}
    BY <1>3, <2>4 DEF PostClaim, AllCommented
  <2> QED BY <2>2, <2>3, <2>4
<1>4. CASE EditBatch(r)
  <2> DEFINE m == [run[r].mk EXCEPT !.state = "started"]
  <2>1. Answered(m, ids)
    BY <1>1 DEF Answered, Published, ReviewMarker
  <2>2. Edit(r, m)
    BY <1>4 DEF EditBatch
  <2> HIDE DEF m
  <2> QED BY <2>1, <2>2, EditCommented
<1>5. CASE SettleNothing(r)
  <2> DEFINE own == IF run[r].late THEN run[r].mk ELSE run[r].out
             m == [own EXCEPT !.state = "complete", !.verdict = "blocked", !.reason = "nothing"]
  <2>1. own \in ReviewMarker
    BY <1>1
  <2>2. Answered(m, ids)
    <3> HIDE DEF own
    <3> QED BY <2>1 DEF Answered, Published, ReviewMarker
  <2>3. Edit(r, m)
    BY <1>5 DEF SettleNothing
  <2> HIDE DEF m
  <2> QED BY <2>2, <2>3, EditCommented
<1>6. CASE HaltPass(r)
  <2> DEFINE findings == IF run[r].out.findings = {} THEN run[r].mk.findings ELSE run[r].out.findings
             m == [run[r].mk EXCEPT !.state = "incomplete", !.stop = TRUE, !.head = run[r].out.head,
                     !.old = run[r].out.old, !.findings = findings]
  <2>1. Answered(m, ids)
    <3>1. m.state = "incomplete"
      <4> HIDE DEF findings
      <4> QED BY <1>1 DEF ReviewMarker
    <3> QED BY <3>1 DEF Answered, Published
  <2>2. Edit(r, m)
    BY <1>6 DEF HaltPass
  <2> HIDE DEF m
  <2> QED BY <2>1, <2>2, EditCommented
<1> QED
  BY <1>2, <1>3, <1>4, <1>5, <1>6

(* The findings to post are those without a comment, and the held ones. *)
LEMMA FinishCoveredPosting ==
    ASSUME TypeInv, ~MayMisread, NEW r \in Runs, FinishCovered(r)
    PROVE  Posting(run'[r], IDs(posts))
<1>1. run'[r].step = "post" /\ run'[r].held = run[r].held
      /\ run'[r].todo = FindingsToPost(r, run'[r].mk.findings, PostedIDs)
  BY FinishCoveredAfter DEF SameClaim
<1>2. PostedIDs = IDs(posts)
  BY DEF PostedIDs, IDs
<1> DEFINE todo == run'[r].todo
           findings == run'[r].mk.findings
<1>3. \A f : f \in todo <=> f \in findings /\ f.posted /\ (f.id \in IDs(posts) => f.id \in run[r].held)
  BY <1>1, <1>2 DEF FindingsToPost
<1>4. \A f \in findings : f.posted => f.id \in IDs(posts) \/ f \in todo
  BY <1>3
<1> HIDE DEF todo, findings
<1>5. Commented(findings, IDs(posts) \cup {g.id : g \in todo})
  BY <1>4 DEF Commented
<1> QED
  BY <1>1, <1>3, <1>5 DEF Posting, todo, findings

(* A comment is added for a finding that has none or was held. *)
LEMMA PostPosting ==
    ASSUME TypeInv, NEW r \in Runs, Once(posts), AllCommented(reviews, IDs(posts)),
           Posting(run[r], IDs(posts)), Post(r)
    PROVE  /\ Once(posts') /\ AllCommented(reviews', IDs(posts'))
           /\ Posting(run'[r], IDs(posts'))
<1>1. /\ run[r].step = "post" /\ run'[r].step = "post" /\ run'[r].held = run[r].held
      /\ run'[r].mk = run[r].mk /\ reviews' = reviews
  BY PostAfter DEF SameClaim, Post
<1>2. PICK f \in run[r].todo :
        /\ posts' = Append(posts, [id |-> f.id, pass |-> run[r].pass, sev |-> f.sev,
                                   upgrade |-> f.id \in run[r].held])
        /\ run'[r].todo = {g \in run[r].todo : g.id # f.id}
  BY PostAfter
<1> DEFINE p == [id |-> f.id, pass |-> run[r].pass, sev |-> f.sev, upgrade |-> f.id \in run[r].held]
           n == Len(posts) + 1
<1>3. p \in PostRecord /\ posts \in Seq(PostRecord) /\ Len(posts) \in Nat
  <2>1. f \in Finding /\ run[r].pass \in Nat
    BY RunIsRecord, RunFields
  <2> QED BY <2>1 DEF PostRecord, Finding, TypeInv, TypeOK
<1>4. p.id = f.id /\ p.upgrade = (f.id \in run[r].held)
  OBVIOUS
<1>5. posts' = Append(posts, p)
  BY <1>2
<1> HIDE DEF p
<1>6. /\ DOMAIN posts' = 1..n /\ DOMAIN posts = 1..Len(posts) /\ posts'[n] = p
      /\ \A i \in DOMAIN posts : posts'[i] = posts[i]
  BY <1>3, <1>5, AppendProperties
<1>7. \A i \in DOMAIN posts' : i \in DOMAIN posts \/ i = n
  BY <1>3, <1>6
<1>8. \A i \in DOMAIN posts : i < n /\ n \notin DOMAIN posts /\ n \in DOMAIN posts'
  BY <1>3, <1>6
<1>9. n \in DOMAIN posts'
  BY <1>3, <1>6
<1> HIDE DEF n
<1>10. IDs(posts') = IDs(posts) \cup {f.id}
  <2>1. IDs(posts) \cup {f.id} \subseteq IDs(posts')
    BY <1>4, <1>6, <1>8, <1>9 DEF IDs
  <2>2. IDs(posts') \subseteq IDs(posts) \cup {f.id}
    BY <1>4, <1>6, <1>7 DEF IDs
  <2> QED BY <2>1, <2>2
<1>11. Once(posts')
  <2> SUFFICES ASSUME NEW i \in DOMAIN posts', NEW j \in DOMAIN posts',
                      posts'[i].id = posts'[j].id, i < j
               PROVE  posts'[j].upgrade
    BY DEF Once
  <2>1. i \in DOMAIN posts
    <3>1. i \in Nat /\ j \in Nat /\ n \in Nat
      BY <1>3, <1>6 DEF n
    <3>2. j = n \/ j < n
      BY <1>7, <1>8
    <3>3. i # n
      BY <3>1, <3>2
    <3> QED BY <3>3, <1>7
  <2>2. CASE j \in DOMAIN posts
    BY <2>1, <2>2, <1>6 DEF Once
  <2>3. CASE j = n
    <3>1. posts[i].id = f.id
      BY <2>1, <2>3, <1>4, <1>6
    <3>2. f.id \in IDs(posts)
      BY <2>1, <3>1 DEF IDs
    <3>3. f.id \in run[r].held
      BY <3>2, <1>1 DEF Posting
    <3> QED BY <2>3, <3>3, <1>4, <1>6
  <2> QED BY <2>2, <2>3, <1>7
<1>12. AllCommented(reviews', IDs(posts'))
  BY <1>1, <1>10 DEF AllCommented, Commented
<1>13. Posting(run'[r], IDs(posts'))
  <2>1. \A g \in run'[r].todo : g.id \in IDs(posts') => g.id \in run'[r].held
    BY <1>1, <1>2, <1>10 DEF Posting
  <2>2. Commented(run'[r].mk.findings, IDs(posts') \cup {g.id : g \in run'[r].todo})
    <3> SUFFICES ASSUME NEW h \in run[r].mk.findings, h.posted
                 PROVE  h.id \in IDs(posts') \/ h.id \in {g.id : g \in run'[r].todo}
      BY <1>1 DEF Commented
    <3>1. h.id \in IDs(posts) \/ \E g \in run[r].todo : g.id = h.id
      BY <1>1 DEF Posting, Commented
    <3> QED BY <3>1, <1>2, <1>10
  <2> QED BY <1>1, <2>1, <2>2 DEF Posting
<1> QED
  BY <1>11, <1>12, <1>13

(* The summary and the complete edit publish what has been posted. *)
LEMMA PublishedPosting ==
    ASSUME TypeInv, NEW r \in Runs, NEW ids, AllCommented(reviews, ids),
           Commented(run[r].mk.findings, ids), NEW s \in {"complete", "label"}, NEW m,
           m.findings = run[r].mk.findings, Edit(r, m), Marks(r, s, m)
    PROVE  AllCommented(reviews', ids) /\ Posting(run'[r], ids)
<1>1. AllCommented(reviews', ids)
  BY EditCommented DEF Answered
<1>2. run'[r].step = s /\ run'[r].mk = m
  BY MarkerAfter
<1> QED
  BY <1>1, <1>2 DEF Posting

LEMMA PublishPosting ==
    ASSUME TypeInv, NEW r \in Runs, NEW ids, AllCommented(reviews, ids), Posting(run[r], ids),
           Summarize(r) \/ Complete(r)
    PROVE  AllCommented(reviews', ids) /\ Posting(run'[r], ids)
<1>1. run[r].mk \in ReviewMarker
  BY RunIsRecord, RunFields
<1>2. CASE Summarize(r)
  <2>1. Commented(run[r].mk.findings, ids)
    BY <1>2 DEF Summarize, At, Posting, Commented
  <2>2. PICK m \in {run[r].mk, [run[r].mk EXCEPT !.verdict = "issues-remain"],
                    [run[r].mk EXCEPT !.verdict = "blocked", !.reason = "debt"]} :
          Edit(r, m) /\ Marks(r, "complete", m)
    BY <1>2 DEF Summarize, Marks
  <2>3. m.findings = run[r].mk.findings
    BY <1>1 DEF ReviewMarker
  <2> QED BY <2>1, <2>2, <2>3, PublishedPosting
<1>3. CASE Complete(r)
  <2> DEFINE m == [run[r].mk EXCEPT !.state = "complete"]
  <2>1. Commented(run[r].mk.findings, ids)
    BY <1>3 DEF Complete, At, Posting
  <2>2. Edit(r, m) /\ Marks(r, "label", m)
    BY <1>3 DEF Complete, Marks
  <2>3. m.findings = run[r].mk.findings
    BY <1>1 DEF ReviewMarker
  <2> HIDE DEF m
  <2> QED BY <2>1, <2>2, <2>3, PublishedPosting
<1> QED
  BY <1>2, <1>3

(* Every other step leaves the run away from the publish path. *)
LEMMA AwayPosting ==
    ASSUME NEW R, NEW ids, R.step \notin {"claim", "post", "complete"}
    PROVE  Posting(R, ids)
BY DEF Posting

(* A claim that admission composes is open. *)
LEMMA AdmitPosting ==
    ASSUME TypeInv, ~MayMisread, NEW r \in Runs, NEW ids, Admit(r)
    PROVE  Posting(run'[r], ids)
<1> DEFINE a == Admission(reviews)
<1>1. AdmitFrom(r, reviews, resolves) /\ reviews \in Seq(ReviewMarker)
  BY DEF Admit, TypeInv, TypeOK
<1>2. /\ run'[r].step \in {"decline", "claim"} /\ run'[r].kind = a.kind /\ run'[r].out = ClaimFor(a)
      /\ a.kind \in {"new", "resume", "stale", "redrive"} /\ a.pass \in Nat
  BY <1>1, AdmitAfter
<1>3. a.kind = "redrive" => reviews[a.at] \in ReviewMarker
  BY <1>1, AdmissionType
<1>4. a.kind \in {"new", "redrive"} => ClaimFor(a).state = "started"
  <2> HIDE DEF a
  <2>1. a.kind = "new" => ClaimFor(a).state = "started"
    BY DEF ClaimFor, StartedMarker, BlankMarker
  <2>2. a.kind = "redrive" => ClaimFor(a).state = "started"
    BY <1>3 DEF ClaimFor, ReviewMarker
  <2> QED BY <2>1, <2>2
<1> HIDE DEF a
<1> QED
  BY <1>2, <1>4 DEF Posting

(* Every step of a run keeps the comments right. *)
LEMMA WorkPosting ==
    ASSUME TypeInv, ~MayMisread, NEW r \in Runs, Once(posts), AllCommented(reviews, IDs(posts)),
           Posting(run[r], IDs(posts)), Admit(r) \/ Work(r) \/ Trouble(r)
    PROVE  /\ Once(posts') /\ AllCommented(reviews', IDs(posts'))
           /\ Posting(run'[r], IDs(posts'))
<1>1. CASE Admit(r)
  BY <1>1, AdmitPosting DEF Admit, pr
<1>2. CASE PostDeclined(r) \/ PostClaim(r) \/ EditBatch(r) \/ SettleNothing(r) \/ HaltPass(r)
  <2>1. run'[r].step \notin {"claim", "post", "complete"}
    <3>1. CASE PostDeclined(r)
      BY <3>1, GotoAfter DEF PostDeclined
    <3>2. CASE PostClaim(r)
      BY <3>2, PostClaimAfter
    <3>3. CASE EditBatch(r)
      BY <3>3, GotoAfter DEF EditBatch
    <3>4. CASE SettleNothing(r) \/ HaltPass(r)
      <4>1. \E s \in {"emptied", "halted"} : \E m : Reports(r, s, m)
        BY <3>4 DEF SettleNothing, HaltPass, Reports
      <4> QED BY <4>1, ReportAfter
    <3> QED BY <1>2, <3>1, <3>2, <3>3, <3>4
  <2>2. posts' = posts
    BY <1>2 DEF PostDeclined, PostClaim, EditBatch, SettleNothing, HaltPass
  <2> QED BY <1>2, <2>1, <2>2, OpeningAnswers, AwayPosting
<1>3. CASE BindScope(r) \/ Bounded(r) \/ Pack(r) \/ PublishInitial(r) \/ Judge(r) \/ RecordBatch(r)
  <2>1. run'[r].step \notin {"claim", "post", "complete"}
    <3>1. CASE BindScope(r) \/ Bounded(r)
      BY <3>1, GotoAfter DEF BindScope, Bounded
    <3>2. CASE PublishInitial(r) \/ RecordBatch(r)
      <4>1. \E s \in {"plan", "edit"} : \E m : Marks(r, s, m)
        BY <3>2 DEF PublishInitial, RecordBatch, Marks
      <4> QED BY <4>1, MarkerAfter
    <3> QED BY <1>3, <3>1, <3>2, PackAfter, JudgeAfter
  <2>2. posts' = posts /\ reviews' = reviews
    BY <1>3 DEF BindScope, Bounded, Pack, PublishInitial, Judge, RecordBatch, pr
  <2> QED BY <2>1, <2>2, AwayPosting
<1>4. CASE FinishCovered(r)
  BY <1>4, FinishCoveredPosting DEF FinishCovered, pr
<1>5. CASE Post(r)
  BY <1>5, PostPosting
<1>6. CASE Summarize(r) \/ Complete(r)
  BY <1>6, PublishPosting DEF Summarize, Complete
<1>7. CASE LabelEmptied(r) \/ LabelHalted(r) \/ Label(r) \/ Mark(r) \/ Stale(r) \/ Trouble(r)
  <2>1. run'[r].step \in {"idle", "mark"}
    BY <1>7, FinishAfter, LabelAfter
       DEF LabelEmptied, LabelHalted, Mark, Stale, Trouble, Fail, Crash, ReportFatal
  <2>2. posts' = posts
    BY <1>7, LabelAfter
       DEF LabelEmptied, LabelHalted, Mark, Stale, Trouble, Fail, Crash, ReportFatal, pr
  <2>3. reviews' = reviews \/ Edit(r, Reported(run[r].out))
    BY <1>7, LabelAfter
       DEF LabelEmptied, LabelHalted, Mark, Stale, Trouble, Fail, Crash, ReportFatal, pr
  <2>4. Answered(Reported(run[r].out), IDs(posts))
    BY RunIsRecord, RunFields, ReportedAnswers
  <2> QED BY <2>1, <2>2, <2>3, <2>4, EditCommented, AwayPosting
<1> QED
  BY <1>1, <1>2, <1>3, <1>4, <1>5, <1>6, <1>7 DEF Work

(* One leg at a time, its comment lists read: whatever crashes between a   *)
(* post and its record, a finding that already has a comment is posted     *)
(* again only as the upgrade of one that was held back, and what a         *)
(* published marker calls posted has its comment.  While a run posts, the  *)
(* findings it has left are those without a comment or held, and together  *)
(* with the comments they are all that its marker will call posted.        *)
THEOREM CommentsAreWrittenOnce ==
    ASSUME NEW r0, Runs = {r0}, ~MayMisread
    PROVE  Spec => []PostedOnce
<1>1. Init => PostedInv
  <2>1. Init => TypeInv
    BY InitType
  <2>2. Init => /\ DOMAIN posts = {} /\ DOMAIN reviews = {}
                /\ \A r \in Runs : run[r].step = "idle"
    BY DEF Init, IdleRun
  <2> QED
    BY <2>1, <2>2 DEF PostedInv, Once, AllCommented, Posting
<1>2. PostedInv /\ [Next]_vars => PostedInv'
  <2> SUFFICES ASSUME PostedInv, [Next]_vars PROVE PostedInv'
    OBVIOUS
  <2>1. TypeInv /\ Once(posts) /\ AllCommented(reviews, IDs(posts)) /\ Posting(run[r0], IDs(posts))
    BY DEF PostedInv
  <2>2. TypeInv'
    BY <2>1, StepType
  <2>3. /\ Once(posts') /\ AllCommented(reviews', IDs(posts')) /\ Posting(run'[r0], IDs(posts'))
    <3>1. CASE \E r \in Runs : Admit(r) \/ Work(r) \/ Trouble(r)
      BY <2>1, <3>1, WorkPosting
    <3>2. CASE Environment
      <4>1. posts' = posts /\ run' = run /\ DOMAIN reviews' = DOMAIN reviews
            /\ \A i \in DOMAIN reviews :
                 Published(reviews'[i]) = Published(reviews[i])
                 /\ reviews'[i].findings = reviews[i].findings
        BY <2>1, <3>2, EnvironmentComments DEF Published
      <4> QED BY <2>1, <4>1 DEF AllCommented
    <3>3. CASE UNCHANGED vars
      BY <2>1, <3>3 DEF vars
    <3> QED BY <3>1, <3>2, <3>3 DEF Next
  <2> QED
    BY <2>2, <2>3 DEF PostedInv, Once, AllCommented, Commented, IDs
<1>3. PostedInv => PostedOnce
  BY DEF PostedInv, AllCommented, Once, Commented, IDs, PostedOnce
<1> QED
  BY <1>1, <1>2, <1>3, PTL DEF Spec

(***************************************************************************)
(* Coverage, for one run at a time.  What a run holds keeps the verdicts   *)
(* of the generation in its claim comment.                                 *)
(***************************************************************************)
(* A generation that replaces another of its revision keeps its verdicts. *)
Keeps(old, new) ==
    old.claimed /\ new.claimed
    /\ new.head = old.head /\ new.base = old.base /\ new.producer = old.producer
    => Judged(old.recs) \subseteq Judged(new.recs)

Scoped(gen) == gen.claimed => DOMAIN gen.recs \subseteq RequiredAt(gen.head)

OwnGeneration(R) ==
    [claimed |-> TRUE, base |-> R.base, head |-> R.head, producer |-> R.producer, recs |-> R.recs]

Unpacked(R) == R.step \in {"scope", "pack"} \/ (R.step = "claim" /\ R.kind # "new")
Packed == {"initial", "plan", "record", "edit", "post", "complete"}
Named == {"plan", "edit", "post", "complete"}

Keeping(R, cs) ==
    /\ HoldsClaim(R) =>
         /\ R.at \in DOMAIN cs
         /\ Keeps(cs[R.at].gen, R.out.gen)
         /\ R.step # "emptied" => Keeps(cs[R.at].gen, R.mk.gen)
    /\ HoldsClaim(R) \/ Opens(R) => Scoped(R.mk.gen) /\ Scoped(R.out.gen)
    /\ Opens(R) => R.out.gen = NoGen
    /\ Unpacked(R) =>
         R.out.gen = cs[R.at].gen /\ (cs[R.at].gen.claimed => R.mk.gen = cs[R.at].gen)
    /\ R.step \in Packed =>
         Keeps(cs[R.at].gen, OwnGeneration(R)) /\ Scoped(OwnGeneration(R))
    /\ R.step \in Named => R.mk.gen = OwnGeneration(R) /\ R.out.gen = OwnGeneration(R)

AllScoped(cs) == \A i \in DOMAIN cs : Scoped(cs[i].gen)

KeptInv == TypeInv /\ AllScoped(reviews) /\ \A r \in Runs : Keeping(run[r], reviews)

(* The seed of a new pass is what an earlier comment names, or nothing. *)
LEMMA MarkerForPassScoped ==
    ASSUME NEW markers \in Seq(ReviewMarker), AllScoped(markers), NEW pass
    PROVE  Scoped(MarkerForPass(markers, pass).gen)
<1> DEFINE own == IF MarkerFor(markers, pass) = 0 THEN BlankMarker(pass)
                  ELSE markers[MarkerFor(markers, pass)]
           seed == LatestCoverageCheckpoint(markers, pass)
<1>1. Scoped(own.gen) /\ (MarkerFor(markers, pass) # 0 => own \in ReviewMarker)
  <2>1. Scoped(BlankMarker(pass).gen)
    BY DEF BlankMarker, Scoped, NoGen
  <2> QED BY <2>1, MarkerForType DEF AllScoped
<1>2. Scoped(seed)
  <2>1. Scoped(NoGen)
    BY DEF Scoped, NoGen
  <2> QED BY <2>1, CheckpointOrigin DEF AllScoped
<1>3. [own EXCEPT !.gen = seed].gen = seed
  <2>1. CASE MarkerFor(markers, pass) = 0
    BY <2>1 DEF BlankMarker
  <2>2. CASE MarkerFor(markers, pass) # 0
    <3> HIDE DEF own, seed
    <3> QED BY <1>1, <2>2 DEF ReviewMarker
  <2> QED BY <2>1, <2>2
<1> QED
  BY <1>1, <1>2, <1>3 DEF MarkerForPass

LEMMA KeepsItself == \A gen : Keeps(gen, gen)
BY DEF Keeps

(* Packing takes every verdict of a generation that is still current. *)
LEMMA PackedKeeps ==
    ASSUME NEW R, NEW G, G.claimed => R.mk.gen = G, Scoped(G), NEW gen,
           gen = [claimed |-> TRUE, base |-> R.base, head |-> R.head, producer |-> R.producer,
                  recs |-> PackedCoverage(R, FALSE)]
    PROVE  Keeps(G, gen) /\ Scoped(gen)
<1> DEFINE accepted == IF GenerationCurrent(R.mk.gen, R.base, R.head, R.producer)
                       THEN Judged(R.mk.gen.recs) ELSE {}
           recs == PackedCoverage(R, FALSE)
<1>1. recs = [u \in {v \in RequiredAt(R.head) : v \in accepted \/ v \notin Generated} |->
                IF u \in accepted THEN R.mk.gen.recs[u] ELSE "outstanding"]
  BY DEF PackedCoverage
<1>2. Scoped(gen)
  BY <1>1 DEF Scoped
<1>3. ASSUME G.claimed, R.head = G.head, R.base = G.base, R.producer = G.producer,
             NEW u \in DOMAIN G.recs, G.recs[u] # "outstanding"
      PROVE  u \in DOMAIN recs /\ recs[u] # "outstanding"
  <2>1. R.mk.gen = G /\ accepted = Judged(G.recs)
    BY <1>3 DEF GenerationCurrent
  <2>2. u \in accepted /\ u \in RequiredAt(R.head)
    BY <1>3, <2>1 DEF Judged, Scoped
  <2> HIDE DEF accepted, recs
  <2> QED BY <1>1, <1>3, <2>1, <2>2
<1>4. Keeps(G, gen)
  <2> HIDE DEF recs
  <2>1. gen.recs = recs /\ gen.head = R.head /\ gen.base = R.base /\ gen.producer = R.producer
    BY DEF recs
  <2> QED BY <1>3, <2>1 DEF Keeps, Judged
<1> QED
  BY <1>2, <1>4

(* What a step of a run does to the comments. *)
Kept(cs, ds) == AllScoped(ds) /\ \A i \in DOMAIN cs : i \in DOMAIN ds /\ Keeps(cs[i].gen, ds[i].gen)

LEMMA SameKept == ASSUME AllScoped(reviews), reviews' = reviews PROVE Kept(reviews, reviews')
BY KeepsItself DEF Kept

LEMMA EditKept ==
    ASSUME NEW r \in Runs, AllScoped(reviews), run[r].at \in DOMAIN reviews, NEW m, Edit(r, m),
           Keeps(reviews[run[r].at].gen, m.gen), Scoped(m.gen)
    PROVE  Kept(reviews, reviews') /\ run[r].at \in DOMAIN reviews' /\ reviews'[run[r].at] = m
BY KeepsItself DEF Kept, Edit, AllScoped

LEMMA AppendKept ==
    ASSUME TypeInv, AllScoped(reviews), NEW m \in ReviewMarker, m.gen = NoGen,
           reviews' = Append(reviews, m)
    PROVE  /\ Kept(reviews, reviews')
           /\ Len(reviews) + 1 \in DOMAIN reviews' /\ reviews'[Len(reviews) + 1] = m
<1>1. reviews \in Seq(ReviewMarker)
  BY DEF TypeInv, TypeOK
<1>2. DOMAIN reviews' = 1..(Len(reviews) + 1) /\ DOMAIN reviews = 1..Len(reviews)
      /\ reviews'[Len(reviews) + 1] = m
      /\ \A i \in DOMAIN reviews : reviews'[i] = reviews[i]
  BY <1>1, AppendProperties
<1>3. /\ \A i \in DOMAIN reviews' : i \in DOMAIN reviews \/ i = Len(reviews) + 1
      /\ Len(reviews) + 1 \in DOMAIN reviews'
      /\ \A i \in DOMAIN reviews : i \in DOMAIN reviews'
  BY <1>1, <1>2
<1>4. Scoped(m.gen)
  BY DEF Scoped, NoGen
<1> QED
  BY <1>2, <1>3, <1>4, KeepsItself DEF AllScoped, Kept

LEMMA AdmitKeeping ==
    ASSUME TypeInv, AllScoped(reviews), NEW r \in Runs, Admit(r)
    PROVE  Kept(reviews, reviews') /\ Keeping(run'[r], reviews')
<1>1. PICK markers \in {reviews, <<>>}, repairs \in {resolves, <<>>} : AdmitFrom(r, markers, repairs)
  BY DEF Admit
<1>2. reviews' = reviews
  BY DEF Admit, pr
<1> DEFINE a == Admission(markers)
           i == MarkerFor(markers, a.pass)
           seeded == MarkerForPass(markers, a.pass)
<1>3. markers \in Seq(ReviewMarker) /\ reviews \in Seq(ReviewMarker) /\ AllScoped(markers)
  <2>1. reviews \in Seq(ReviewMarker) /\ <<>> \in Seq(ReviewMarker) /\ DOMAIN <<>> = {}
    BY EmptySeq DEF TypeInv, TypeOK
  <2> QED BY <2>1 DEF AllScoped
<1>4. /\ run'[r].step \in {"decline", "claim"} /\ run'[r].kind = a.kind /\ run'[r].at = a.at
      /\ run'[r].out = ClaimFor(a) /\ run'[r].mk = seeded
      /\ a.kind \in {"new", "resume", "stale", "redrive"} /\ a.pass \in Nat
  BY <1>1, <1>3, AdmitAfter
<1>5. a.kind # "new" => a.at \in DOMAIN markers /\ a.at = i /\ i # 0
  <2>1. a.kind # "new" => a.at \in DOMAIN markers
    BY <1>3, <1>4, AdmissionType
  <2>2. a.kind # "new" => a.at = MarkerFor(markers, a.pass)
    BY DEF Admission
  <2>3. 0 \notin DOMAIN markers
    BY <1>3
  <2> HIDE DEF a
  <2> QED BY <2>1, <2>2, <2>3
<1>6. Scoped(seeded.gen)
  BY <1>3, MarkerForPassScoped
<1>7. ASSUME a.kind # "new"
      PROVE  /\ a.at \in DOMAIN reviews /\ reviews[a.at].pass = a.pass
             /\ reviews[a.at].gen.claimed => seeded.gen = reviews[a.at].gen
  <2>1. markers = reviews /\ a.at \in DOMAIN reviews /\ i = a.at /\ i # 0
    BY <1>5, <1>7
  <2>2. reviews[i].pass = a.pass
    BY <1>3, <2>1, MarkerForType
  <2>3. reviews[i].gen.claimed => seeded = reviews[i]
    BY <2>1 DEF MarkerForPass
  <2> HIDE DEF a, i, seeded
  <2> QED BY <2>1, <2>2, <2>3
<1>8. /\ a.kind = "new" => ClaimFor(a).gen = NoGen
      /\ a.kind # "new" => ClaimFor(a).gen = reviews[a.at].gen
  <2> HIDE DEF a, seeded
  <2> QED BY <1>3, <1>4, <1>7, ClaimForPass
<1>9. Scoped(NoGen)
  BY DEF Scoped, NoGen
<1>10. Kept(reviews, reviews')
  BY <1>2, SameKept
<1> HIDE DEF a, seeded
<1>11. CASE a.kind = "new"
  BY <1>2, <1>4, <1>6, <1>8, <1>9, <1>10, <1>11
     DEF Keeping, HoldsClaim, Opens, Unpacked, Packed, Named, Editing
<1>12. CASE a.kind # "new"
  <2>1. Scoped(reviews[a.at].gen) /\ Keeps(reviews[a.at].gen, reviews[a.at].gen)
    BY <1>7, <1>12, KeepsItself DEF AllScoped
  <2>2. Keeps(reviews[a.at].gen, seeded.gen)
    BY <1>7, <1>12, <2>1 DEF Keeps
  <2> QED
    BY <1>2, <1>4, <1>6, <1>7, <1>8, <1>10, <1>12, <2>1, <2>2
       DEF Keeping, HoldsClaim, Opens, Unpacked, Packed, Named, Editing
<1> QED
  BY <1>11, <1>12

(* A run that ends, or whose record has settled, owes nothing. *)
LEMMA AwayKeeping ==
    ASSUME NEW R, NEW cs, R.step \in {"idle", "decline", "halted", "label", "mark"}
    PROVE  Keeping(R, cs)
BY DEF Keeping, HoldsClaim, Opens, Unpacked, Packed, Named, Editing

LEMMA OpeningKeeping ==
    ASSUME TypeInv, NEW r \in Runs, AllScoped(reviews), Keeping(run[r], reviews),
           PostDeclined(r) \/ PostClaim(r) \/ BindScope(r) \/ SettleNothing(r)
    PROVE  Kept(reviews, reviews') /\ Keeping(run'[r], reviews')
<1>1. run[r].out \in ReviewMarker /\ run[r].mk \in ReviewMarker /\ run[r].pass \in Nat
      /\ run[r].head \in Heads \cup {NoHead}
  BY RunIsRecord, RunFields DEF RunRecord
<1>2. CASE PostDeclined(r)
  <2> DEFINE m == [BlankMarker(run[r].pass) EXCEPT !.state = "declined", !.head = run[r].head,
                     !.verdict = "declined", !.reason = "cap"]
  <2>1. m \in ReviewMarker /\ m.gen = NoGen
    <3>1. BlankMarker(run[r].pass) \in ReviewMarker /\ BlankMarker(run[r].pass).gen = NoGen
      BY <1>1, BlankMarkerType DEF BlankMarker
    <3> QED BY <1>1, <3>1 DEF ReviewMarker, PassStates, MarkerVerdicts, Reasons
  <2>2. reviews' = Append(reviews, m) /\ Goto(r, "halted")
    BY <1>2 DEF PostDeclined
  <2>3. run'[r].step = "halted"
    BY <2>2, GotoAfter
  <2> HIDE DEF m
  <2> QED BY <2>1, <2>2, <2>3, AppendKept, AwayKeeping
<1>3. CASE PostClaim(r)
  <2>1. /\ run[r].step = "claim" /\ run'[r].step = "scope"
        /\ run'[r].out = run[r].out /\ run'[r].mk = run[r].mk
        /\ run'[r].at = IF run[r].kind = "new" THEN Len(reviews) + 1 ELSE run[r].at
    BY <1>3, PostClaimAfter
  <2>2. CASE run[r].kind = "new"
    <3>1. reviews' = Append(reviews, run[r].out) /\ run[r].out.gen = NoGen /\ Opens(run[r])
      BY <1>3, <2>1, <2>2 DEF PostClaim, Keeping, Opens
    <3>2. /\ Kept(reviews, reviews') /\ run'[r].at \in DOMAIN reviews'
          /\ reviews'[run'[r].at] = run[r].out
      BY <1>1, <2>1, <2>2, <3>1, AppendKept
    <3>3. \A gen : Keeps(NoGen, gen)
      BY DEF Keeps, NoGen
    <3>4. ~NoGen.claimed
      BY DEF NoGen
    <3> QED
      BY <2>1, <3>1, <3>2, <3>3, <3>4
         DEF Keeping, HoldsClaim, Opens, Unpacked, Packed, Named, Editing
  <2>3. CASE run[r].kind # "new"
    <3>1. /\ run[r].at \in DOMAIN reviews /\ run[r].out.gen = reviews[run[r].at].gen
          /\ Keeps(reviews[run[r].at].gen, run[r].out.gen) /\ Scoped(run[r].out.gen)
          /\ Keeps(reviews[run[r].at].gen, run[r].mk.gen) /\ Scoped(run[r].mk.gen)
          /\ reviews[run[r].at].gen.claimed => run[r].mk.gen = reviews[run[r].at].gen
      BY <2>1, <2>3 DEF Keeping, HoldsClaim, Unpacked
    <3>2. Kept(reviews, reviews') /\ run[r].at \in DOMAIN reviews'
          /\ reviews'[run[r].at].gen = reviews[run[r].at].gen
      <4>1. CASE Edit(r, run[r].out)
        BY <3>1, <4>1, EditKept
      <4>2. CASE reviews' = reviews
        BY <3>1, <4>2, SameKept
      <4> QED BY <1>3, <2>3, <4>1, <4>2 DEF PostClaim
    <3> QED
      BY <2>1, <2>3, <3>1, <3>2
         DEF Keeping, HoldsClaim, Opens, Unpacked, Packed, Named, Editing
  <2> QED BY <2>2, <2>3
<1>4. CASE BindScope(r)
  <2>1. PICK s \in {"nothing", "pack"} : Goto(r, s)
    BY <1>4 DEF BindScope
  <2>2. /\ SameClaim(run[r], run'[r]) /\ run'[r].step = s
        /\ run'[r].out = run[r].out /\ run'[r].mk = run[r].mk
    BY <2>1, GotoAfter
  <2>3. run[r].step = "scope" /\ reviews' = reviews
    BY <1>4 DEF BindScope, At, pr
  <2> QED
    BY <2>2, <2>3, SameKept
       DEF SameClaim, Keeping, HoldsClaim, Opens, Unpacked, Packed, Named, Editing
<1>5. CASE SettleNothing(r)
  <2> DEFINE own == IF run[r].late THEN run[r].mk ELSE run[r].out
             m == [own EXCEPT !.state = "complete", !.verdict = "blocked", !.reason = "nothing"]
  <2>1. own \in ReviewMarker
    BY <1>1
  <2>2. m.gen = own.gen
    <3> HIDE DEF own
    <3> QED BY <2>1 DEF ReviewMarker
  <2>3. run[r].step = "nothing" /\ Edit(r, m) /\ Reports(r, "emptied", m)
    BY <1>5 DEF SettleNothing, Reports, At
  <2>4. /\ run[r].at \in DOMAIN reviews /\ Keeps(reviews[run[r].at].gen, own.gen)
        /\ Scoped(own.gen) /\ Scoped(run[r].mk.gen)
    BY <2>3 DEF Keeping, HoldsClaim, Editing
  <2> HIDE DEF m, own
  <2>5. Kept(reviews, reviews') /\ run[r].at \in DOMAIN reviews' /\ reviews'[run[r].at] = m
    BY <2>2, <2>3, <2>4, EditKept
  <2>6. SameClaim(run[r], run'[r]) /\ run'[r].step = "emptied" /\ run'[r].out = m
        /\ run'[r].mk = run[r].mk
    BY <2>3, ReportAfter
  <2> QED
    BY <2>2, <2>4, <2>5, <2>6, KeepsItself
       DEF SameClaim, Keeping, HoldsClaim, Opens, Unpacked, Packed, Named, Editing
<1> QED
  BY <1>2, <1>3, <1>4, <1>5

LEMMA PackKeeping ==
    ASSUME TypeInv, ~MayLose, NEW r \in Runs, AllScoped(reviews), Keeping(run[r], reviews), Pack(r)
    PROVE  Kept(reviews, reviews') /\ Keeping(run'[r], reviews')
<1>1. /\ SameClaim(run[r], run'[r]) /\ run'[r].step \in {"nothing", "initial"}
      /\ run'[r].out = run[r].out /\ run'[r].mk.gen = run[r].mk.gen
      /\ run'[r].recs = PackedCoverage(run[r], FALSE)
  <2>1. MayLose = FALSE
    BY ReviewLegAssumption
  <2> QED BY <2>1, PackAfter
<1>2. run[r].step = "pack" /\ reviews' = reviews
  BY DEF Pack, At, pr
<1> DEFINE G == reviews[run[r].at].gen
<1>3. /\ run[r].at \in DOMAIN reviews /\ run[r].out.gen = G /\ (G.claimed => run[r].mk.gen = G)
      /\ Keeps(G, run[r].out.gen) /\ Keeps(G, run[r].mk.gen)
      /\ Scoped(run[r].mk.gen) /\ Scoped(run[r].out.gen)
  BY <1>2 DEF Keeping, HoldsClaim, Unpacked, Editing
<1>4. OwnGeneration(run'[r]) =
        [claimed |-> TRUE, base |-> run[r].base, head |-> run[r].head,
         producer |-> run[r].producer, recs |-> PackedCoverage(run[r], FALSE)]
  BY <1>1 DEF OwnGeneration, SameClaim
<1>5. Keeps(G, OwnGeneration(run'[r])) /\ Scoped(OwnGeneration(run'[r]))
  <2> HIDE DEF G
  <2>1. Scoped(G)
    BY <1>3
  <2> QED BY <1>3, <1>4, <2>1, PackedKeeps
<1> QED
  BY <1>1, <1>2, <1>3, <1>5, SameKept
     DEF SameClaim, Keeping, HoldsClaim, Opens, Unpacked, Packed, Named, Editing

(* Recording a generation in the marker under construction. *)
LEMMA MarksKeeping ==
    ASSUME TypeInv, NEW r \in Runs, AllScoped(reviews), Keeping(run[r], reviews),
           run[r].step \in Packed, reviews' = reviews, NEW s \in {"plan", "edit", "post"},
           run'[r].step = s, SameClaim(run[r], run'[r]), run'[r].recs = run[r].recs,
           run'[r].out = run'[r].mk, run'[r].mk.gen = OwnGeneration(run[r])
    PROVE  Kept(reviews, reviews') /\ Keeping(run'[r], reviews')
<1>1. OwnGeneration(run'[r]) = OwnGeneration(run[r])
  BY DEF OwnGeneration, SameClaim
<1>2. /\ run[r].at \in DOMAIN reviews
      /\ Keeps(reviews[run[r].at].gen, OwnGeneration(run[r])) /\ Scoped(OwnGeneration(run[r]))
  BY DEF Keeping, HoldsClaim, Packed, Editing
<1> QED
  BY <1>1, <1>2, SameKept
     DEF SameClaim, Keeping, HoldsClaim, Opens, Unpacked, Packed, Named, Editing

LEMMA CoverageKeeping ==
    ASSUME TypeInv, NEW r \in Runs, AllScoped(reviews), Keeping(run[r], reviews),
           PublishInitial(r) \/ Judge(r) \/ RecordBatch(r) \/ EditBatch(r) \/ Bounded(r)
             \/ HaltPass(r)
    PROVE  Kept(reviews, reviews') /\ Keeping(run'[r], reviews')
<1>1. run[r] \in RunRecord /\ run[r].mk \in ReviewMarker
  BY RunIsRecord, RunFields
<1>2. GenerationOf(r) = OwnGeneration(run[r])
  BY DEF GenerationOf, OwnGeneration
<1>3. CASE PublishInitial(r)
  <2> DEFINE m == [run[r].mk EXCEPT !.gen = GenerationOf(r)]
  <2>1. Marks(r, "plan", m) /\ reviews' = reviews /\ run[r].step \in Packed
    BY <1>3 DEF PublishInitial, Marks, At, Packed, pr
  <2>2. m.gen = OwnGeneration(run[r])
    BY <1>1, <1>2 DEF ReviewMarker
  <2> HIDE DEF m
  <2>3. SameClaim(run[r], run'[r]) /\ run'[r].step = "plan" /\ run'[r].mk = m /\ run'[r].out = m
        /\ run'[r].recs = run[r].recs
    BY <2>1, MarkerAfter
  <2> QED BY <2>1, <2>2, <2>3, MarksKeeping
<1>4. CASE Judge(r)
  <2>1. /\ SameClaim(run[r], run'[r]) /\ run[r].step = "plan" /\ run'[r].step = "record"
        /\ run'[r].out = run[r].out /\ run'[r].mk = run[r].mk
        /\ DOMAIN run'[r].recs = DOMAIN run[r].recs
        /\ Judged(run[r].recs) \subseteq Judged(run'[r].recs)
    BY <1>4, JudgeAfter
  <2>2. reviews' = reviews
    BY <1>4 DEF Judge, pr
  <2> DEFINE G == reviews[run[r].at].gen
  <2>3. /\ run[r].at \in DOMAIN reviews /\ Keeps(G, OwnGeneration(run[r]))
        /\ Scoped(OwnGeneration(run[r])) /\ Keeps(G, run[r].out.gen) /\ Keeps(G, run[r].mk.gen)
        /\ Scoped(run[r].mk.gen) /\ Scoped(run[r].out.gen)
    BY <2>1 DEF Keeping, HoldsClaim, Packed, Editing
  <2>4. Keeps(G, OwnGeneration(run'[r]))
    <3> HIDE DEF G
    <3> QED BY <2>1, <2>3 DEF Keeps, OwnGeneration, SameClaim
  <2>5. Scoped(OwnGeneration(run'[r]))
    BY <2>1, <2>3 DEF Scoped, OwnGeneration, SameClaim
  <2> QED
    BY <2>1, <2>2, <2>3, <2>4, <2>5, SameKept
       DEF SameClaim, Keeping, HoldsClaim, Opens, Unpacked, Packed, Named, Editing
<1>5. CASE RecordBatch(r)
  <2> DEFINE findings == IF run[r].found = {} THEN run[r].mk.findings ELSE run[r].found
             m == [run[r].mk EXCEPT !.gen = GenerationOf(r), !.findings = findings]
  <2>1. Marks(r, "edit", m) /\ reviews' = reviews /\ run[r].step \in Packed
    BY <1>5 DEF RecordBatch, Marks, At, Packed, pr
  <2>2. m.gen = OwnGeneration(run[r])
    <3> HIDE DEF findings
    <3> QED BY <1>1, <1>2 DEF ReviewMarker
  <2> HIDE DEF m
  <2>3. SameClaim(run[r], run'[r]) /\ run'[r].step = "edit" /\ run'[r].mk = m /\ run'[r].out = m
        /\ run'[r].recs = run[r].recs
    BY <2>1, MarkerAfter
  <2> QED BY <2>1, <2>2, <2>3, MarksKeeping
<1>6. CASE EditBatch(r)
  <2> DEFINE m == [run[r].mk EXCEPT !.state = "started"]
  <2>1. m.gen = run[r].mk.gen
    BY <1>1 DEF ReviewMarker
  <2>2. run[r].step = "edit" /\ Edit(r, m) /\ Goto(r, "plan")
    BY <1>6 DEF EditBatch, At
  <2> HIDE DEF m
  <2>3. /\ run[r].at \in DOMAIN reviews /\ Keeps(reviews[run[r].at].gen, m.gen) /\ Scoped(m.gen)
        /\ m.gen = OwnGeneration(run[r]) /\ run[r].mk.gen = OwnGeneration(run[r])
        /\ run[r].out.gen = OwnGeneration(run[r])
    BY <2>1, <2>2 DEF Keeping, HoldsClaim, Named, Editing
  <2>4. Kept(reviews, reviews') /\ run[r].at \in DOMAIN reviews' /\ reviews'[run[r].at] = m
    BY <2>2, <2>3, EditKept
  <2>5. /\ SameClaim(run[r], run'[r]) /\ run'[r].step = "plan" /\ run'[r].out = run[r].out
        /\ run'[r].mk = run[r].mk /\ run'[r].recs = run[r].recs
    BY <2>2, GotoAfter
  <2>6. OwnGeneration(run'[r]) = OwnGeneration(run[r])
    BY <2>5 DEF OwnGeneration, SameClaim
  <2> QED
    BY <2>3, <2>4, <2>5, <2>6, KeepsItself
       DEF SameClaim, Keeping, HoldsClaim, Opens, Unpacked, Packed, Named, Editing
<1>7. CASE Bounded(r)
  <2>1. /\ SameClaim(run[r], run'[r]) /\ run'[r].step = "halt" /\ run'[r].out = run[r].out
        /\ run'[r].mk = run[r].mk
    BY <1>7, GotoAfter DEF Bounded
  <2>2. run[r].step \in {"plan", "initial", "record"} /\ reviews' = reviews
    BY <1>7 DEF Bounded, At, pr
  <2> QED
    BY <2>1, <2>2, SameKept
       DEF SameClaim, Keeping, HoldsClaim, Opens, Unpacked, Packed, Named, Editing
<1>8. CASE HaltPass(r)
  <2> DEFINE findings == IF run[r].out.findings = {} THEN run[r].mk.findings ELSE run[r].out.findings
             m == [run[r].mk EXCEPT !.state = "incomplete", !.stop = TRUE, !.head = run[r].out.head,
                     !.old = run[r].out.old, !.findings = findings]
  <2>1. run[r].step = "halt" /\ Edit(r, m) /\ Reports(r, "halted", m)
    BY <1>8 DEF HaltPass, Reports, At
  <2>2. m.gen = run[r].mk.gen
    <3> HIDE DEF findings
    <3> QED BY <1>1 DEF ReviewMarker
  <2> HIDE DEF m
  <2>3. /\ run[r].at \in DOMAIN reviews /\ Keeps(reviews[run[r].at].gen, m.gen) /\ Scoped(m.gen)
    BY <2>1, <2>2 DEF Keeping, HoldsClaim, Editing
  <2>4. run'[r].step = "halted"
    BY <2>1, ReportAfter
  <2> QED BY <2>1, <2>3, <2>4, EditKept, AwayKeeping
<1> QED
  BY <1>3, <1>4, <1>5, <1>6, <1>7, <1>8

LEMMA PublishKeeping ==
    ASSUME TypeInv, NEW r \in Runs, AllScoped(reviews), Keeping(run[r], reviews),
           FinishCovered(r) \/ Post(r) \/ Summarize(r) \/ Complete(r)
    PROVE  Kept(reviews, reviews') /\ Keeping(run'[r], reviews')
<1>1. run[r] \in RunRecord /\ run[r].mk \in ReviewMarker
  BY RunIsRecord, RunFields
<1>2. run[r].step \in Named /\ run[r].step \in Packed /\ run[r].step \in Editing
  BY DEF FinishCovered, Post, Summarize, Complete, At, Named, Packed, Editing
<1>3. /\ run[r].at \in DOMAIN reviews
      /\ run[r].mk.gen = OwnGeneration(run[r]) /\ run[r].out.gen = OwnGeneration(run[r])
      /\ Keeps(reviews[run[r].at].gen, OwnGeneration(run[r])) /\ Scoped(OwnGeneration(run[r]))
  BY <1>2 DEF Keeping, HoldsClaim
<1>4. CASE FinishCovered(r)
  <2>1. /\ SameClaim(run[r], run'[r]) /\ run'[r].step = "post" /\ run'[r].out = run'[r].mk
        /\ run'[r].recs = run[r].recs /\ run'[r].mk.gen = run[r].mk.gen
    BY <1>4, FinishCoveredAfter
  <2>2. reviews' = reviews
    BY <1>4 DEF FinishCovered, pr
  <2> QED BY <1>2, <1>3, <2>1, <2>2, MarksKeeping
<1>5. CASE Post(r)
  <2>1. /\ SameClaim(run[r], run'[r]) /\ run'[r].step = "post" /\ run'[r].out = run[r].out
        /\ run'[r].recs = run[r].recs /\ run'[r].mk = run[r].mk
    BY <1>5, PostAfter
  <2>2. reviews' = reviews
    BY <1>5 DEF Post
  <2>3. OwnGeneration(run'[r]) = OwnGeneration(run[r])
    BY <2>1 DEF OwnGeneration, SameClaim
  <2> QED
    BY <1>3, <2>1, <2>2, <2>3, SameKept
       DEF SameClaim, Keeping, HoldsClaim, Opens, Unpacked, Packed, Named, Editing
<1>6. CASE Summarize(r)
  <2>1. PICK m \in {run[r].mk, [run[r].mk EXCEPT !.verdict = "issues-remain"],
                    [run[r].mk EXCEPT !.verdict = "blocked", !.reason = "debt"]} :
          Edit(r, m) /\ Marks(r, "complete", m)
    BY <1>6 DEF Summarize, Marks
  <2>2. m.gen = OwnGeneration(run[r])
    BY <1>1, <1>3 DEF ReviewMarker
  <2>3. Kept(reviews, reviews') /\ run[r].at \in DOMAIN reviews' /\ reviews'[run[r].at] = m
    BY <1>3, <2>1, <2>2, EditKept
  <2>4. /\ SameClaim(run[r], run'[r]) /\ run'[r].step = "complete" /\ run'[r].out = m
        /\ run'[r].recs = run[r].recs /\ run'[r].mk = m
    BY <2>1, MarkerAfter
  <2>5. OwnGeneration(run'[r]) = OwnGeneration(run[r])
    BY <2>4 DEF OwnGeneration, SameClaim
  <2> QED
    BY <1>3, <2>2, <2>3, <2>4, <2>5, KeepsItself
       DEF SameClaim, Keeping, HoldsClaim, Opens, Unpacked, Packed, Named, Editing
<1>7. CASE Complete(r)
  <2> DEFINE m == [run[r].mk EXCEPT !.state = "complete"]
  <2>1. Edit(r, m) /\ Marks(r, "label", m)
    BY <1>7 DEF Complete, Marks
  <2>2. m.gen = OwnGeneration(run[r])
    BY <1>1, <1>3 DEF ReviewMarker
  <2> HIDE DEF m
  <2>3. run'[r].step = "label"
    BY <2>1, MarkerAfter
  <2> QED BY <1>3, <2>1, <2>2, <2>3, EditKept, AwayKeeping
<1> QED
  BY <1>4, <1>5, <1>6, <1>7

(* Every step of a run keeps what was judged. *)
LEMMA WorkKeeping ==
    ASSUME TypeInv, ~MayLose, NEW r \in Runs, AllScoped(reviews), Keeping(run[r], reviews),
           Admit(r) \/ Work(r) \/ Trouble(r)
    PROVE  Kept(reviews, reviews') /\ Keeping(run'[r], reviews')
<1>1. CASE Admit(r)
  BY <1>1, AdmitKeeping
<1>2. CASE LabelEmptied(r) \/ LabelHalted(r) \/ Label(r) \/ Mark(r) \/ Stale(r) \/ Trouble(r)
  <2>1. run'[r].step \in {"idle", "mark"}
    BY <1>2, FinishAfter, LabelAfter
       DEF LabelEmptied, LabelHalted, Mark, Stale, Trouble, Fail, Crash, ReportFatal
  <2>2. reviews' = reviews \/ (HoldsClaim(run[r]) /\ Edit(r, Reported(run[r].out)))
    <3>1. CASE LabelEmptied(r) \/ LabelHalted(r) \/ Mark(r) \/ Crash(r)
      BY <3>1 DEF LabelEmptied, LabelHalted, Mark, Crash, At, HoldsClaim, Editing, pr
    <3>2. CASE Label(r)
      BY <3>2, LabelAfter DEF pr
    <3>3. CASE Stale(r)
      BY <3>3 DEF Stale, ReportFatal, HoldsClaim, Editing
    <3>4. CASE Fail(r)
      BY <3>4 DEF Fail, ReportFatal, Claimed, HoldsClaim, Editing, pr
    <3> QED BY <1>2, <3>1, <3>2, <3>3, <3>4 DEF Trouble
  <2>3. CASE reviews' = reviews
    BY <2>1, <2>3, SameKept, AwayKeeping
  <2>4. CASE HoldsClaim(run[r]) /\ Edit(r, Reported(run[r].out))
    <3>1. Reported(run[r].out).gen = run[r].out.gen
      BY RunIsRecord, RunFields DEF Reported, ReviewMarker
    <3>2. run[r].at \in DOMAIN reviews /\ Scoped(run[r].out.gen)
          /\ Keeps(reviews[run[r].at].gen, run[r].out.gen)
      BY <2>4 DEF Keeping
    <3>3. Kept(reviews, reviews')
      BY <2>4, <3>1, <3>2, EditKept
    <3> QED BY <2>1, <3>3, AwayKeeping
  <2> QED BY <2>2, <2>3, <2>4
<1> QED
  BY <1>1, <1>2, OpeningKeeping, PackKeeping, CoverageKeeping, PublishKeeping DEF Work

(* A step keeps what every comment's generation holds. *)
EachKept == \A i \in DOMAIN reviews : Keeps(reviews[i].gen, reviews'[i].gen)

LEMMA KeptStep ==
    ASSUME NEW r0, Runs = {r0}, ~MayLose
    PROVE  (Init => KeptInv) /\ (KeptInv /\ [Next]_vars => KeptInv' /\ EachKept)
<1>1. Init => KeptInv
  <2>1. Init => TypeInv
    BY InitType
  <2>2. Init => DOMAIN reviews = {} /\ \A r \in Runs : run[r].step = "idle"
    BY DEF Init, IdleRun
  <2> QED
    BY <2>1, <2>2, AwayKeeping DEF KeptInv, AllScoped
<1>2. KeptInv /\ [Next]_vars => KeptInv' /\ EachKept
  <2> SUFFICES ASSUME KeptInv, [Next]_vars PROVE KeptInv' /\ EachKept
    OBVIOUS
  <2>1. TypeInv /\ AllScoped(reviews) /\ Keeping(run[r0], reviews)
    BY DEF KeptInv
  <2>2. TypeInv'
    BY <2>1, StepType
  <2>3. Kept(reviews, reviews') /\ Keeping(run'[r0], reviews')
    <3>1. CASE \E r \in Runs : Admit(r) \/ Work(r) \/ Trouble(r)
      BY <2>1, <3>1, WorkKeeping
    <3>2. CASE Environment
      <4>1. run' = run /\ DOMAIN reviews' = DOMAIN reviews
            /\ \A i \in DOMAIN reviews : reviews'[i].gen = reviews[i].gen
        BY <2>1, <3>2, EnvironmentComments
      <4>2. Kept(reviews, reviews')
        BY <2>1, <4>1, KeepsItself DEF Kept, AllScoped
      <4>3. Keeping(run[r0], reviews')
        BY <2>1, <4>1 DEF Keeping, HoldsClaim, Editing, Unpacked, Packed
      <4> QED BY <4>1, <4>2, <4>3
    <3>3. CASE UNCHANGED vars
      BY <2>1, <3>3, SameKept DEF vars
    <3> QED BY <3>1, <3>2, <3>3 DEF Next
  <2> QED
    BY <2>2, <2>3 DEF KeptInv, Kept, AllScoped, EachKept
<1> QED
  BY <1>1, <1>2

(* One leg at a time, no stored generation lost: no edit of a claim        *)
(* comment that stays on its revision and reviewer turns a judged unit     *)
(* back, whatever is pushed, crashes, fails to be read or fails to be      *)
(* written.  From packing to the complete edit, the marker a run builds,   *)
(* the one it would report and the coverage it holds all keep the verdicts *)
(* of the generation in its comment, and a generation never names a unit   *)
(* its own revision does not require.                                      *)
THEOREM JudgedStaysJudged ==
    ASSUME NEW r0, Runs = {r0}, ~MayLose
    PROVE  Spec => CoverageNeverRegresses
<1>1. (Init => KeptInv) /\ (KeptInv /\ [Next]_vars => KeptInv' /\ EachKept)
  BY KeptStep
<1>2. EachKept => [\A i \in DOMAIN reviews :
                 LET old == reviews[i].gen
                     new == reviews'[i].gen
                 IN  old.claimed /\ new.claimed
                     /\ new.head = old.head /\ new.base = old.base /\ new.producer = old.producer
                     => Judged(old.recs) \subseteq Judged(new.recs)]_vars
  BY DEF EachKept, Keeps
<1> QED
  BY <1>1, <1>2, PTL DEF Spec, CoverageNeverRegresses

(***************************************************************************)
(* A leg that nothing disturbs: one run at a time, no call that fails, no  *)
(* branch that returns to an earlier head.  Whatever comments stand, the   *)
(* run's own while it works apart, is of one head and holds the findings   *)
(* its verdicts speak of, or is of a revision that cannot return.          *)
(***************************************************************************)
(* No call fails, the branch is never put back, and what is read is there. *)
Undisturbed == MaxFaults = 0 /\ ~ForcePush /\ ~MayMisread /\ ~MayLose

Shows(findings, recs) ==
    \A u \in DOMAIN recs : recs[u] = "finding" => \E f \in findings : f.id = u

JudgedAt(findings, h) == \A f \in findings : f.at = h

(* The generation a marker names is of no later revision than (h, b). *)
Behind(m, h, b) == m.gen.claimed => m.gen.head \in Nat /\ m.gen.base \in Nat
                                    /\ m.gen.head <= h /\ m.gen.base <= b

(* If it is of that revision, its findings are on the marker. *)
Sound(m, h, b) ==
    m.gen.claimed /\ m.gen.head = h /\ m.gen.base = b => Shows(m.findings, m.gen.recs)

Written(m, h, b) ==
    /\ m.head \in Heads /\ m.head <= h /\ Behind(m, m.head, b)
    /\ m.state = "complete" /\ m.verdict # "blocked" /\ m.gen.claimed =>
         Shows(m.findings, m.gen.recs)
    /\ Published(m) => JudgedAt(m.findings, m.head)

(* A comment no run is writing: settled, and fit to start a pass from. *)
Rests(m, h, b) ==
    /\ m.state \in {"complete", "incomplete", "declined"}
    /\ m.state = "declined" => m.gen = NoGen /\ m.findings = {}
    /\ Sound(m, h, b) /\ JudgedAt(m.findings, m.head)

Writing(R) == HoldsClaim(R) /\ R.step # "emptied"

AllWritten(R, cs, h, b) ==
    \A i \in DOMAIN cs :
        Written(cs[i], h, b) /\ (Rests(cs[i], h, b) \/ (Writing(R) /\ i = R.at))

(* A new pass is of a later head than every pass before it. *)
Ascending(cs) == \A i, j \in Ran(cs) : i < j => cs[i].head < cs[j].head

Later(R, cs) ==
    Writing(R) \/ Opens(R) =>
        \A i \in Ran(cs) : (Writing(R) /\ i = R.at) \/ cs[i].head < R.head

Assembling == {"initial", "plan", "record", "edit"}

Carrying(R) ==
    /\ Writing(R) \/ Opens(R) =>
         /\ R.kind \in {"new", "redrive"} /\ R.head \in Heads /\ R.base \in Bases
         /\ R.out.head = R.head /\ R.out.findings \in {{}, R.mk.findings}
         /\ Behind(R.mk, R.head, R.base) /\ Behind(R.out, R.head, R.base)
         /\ Sound(R.mk, R.head, R.base) /\ JudgedAt(R.mk.findings, R.head)
    /\ R.step = "claim" => R.out.state = "started"
    /\ R.step \in {"claim", "scope", "pack"} => ~R.late
    /\ R.step = "nothing" => IF R.late THEN R.mk.head = R.head ELSE RequiredAt(R.head) = {}
    /\ R.step \in Assembling \cup {"halt", "post", "complete"} => R.mk.head = R.head
    /\ R.step \in Assembling => Shows(R.found, R.recs) /\ JudgedAt(R.found, R.head)
    /\ R.step = "initial" => R.found = R.mk.findings

Bounds(R, h, b) ==
    R.step # "idle" => R.head \in Heads /\ R.base \in Bases /\ R.head <= h /\ R.base <= b

Whole(R, cs, h, b) ==
    AllWritten(R, cs, h, b) /\ Ascending(cs) /\ Later(R, cs) /\ Carrying(R) /\ Bounds(R, h, b)

WholeInv == \A r \in Runs : Whole(run[r], reviews, head, base)

(* A generation of no later revision is sound at a later one.  *)
LEMMA SoundLater ==
    ASSUME NEW m, NEW h \in Nat, NEW b \in Nat, NEW h2 \in Nat, NEW b2 \in Nat,
           h <= h2, b <= b2, Behind(m, h, b), Sound(m, h, b)
    PROVE  Behind(m, h2, b2) /\ Sound(m, h2, b2)
BY DEF Behind, Sound

LEMMA WrittenLater ==
    ASSUME NEW m, NEW h \in Heads, NEW b \in Bases, NEW h2 \in Heads, NEW b2 \in Bases,
           h <= h2, b <= b2, Written(m, h, b)
    PROVE  Written(m, h2, b2) /\ (Rests(m, h, b) => Rests(m, h2, b2))
<1>1. h \in Nat /\ b \in Nat /\ h2 \in Nat /\ b2 \in Nat /\ m.head \in Nat /\ m.head <= h
  BY DEF Heads, Bases, Written
<1>2. Written(m, h2, b2)
  BY <1>1 DEF Written, Behind
<1>3. ASSUME Sound(m, h, b) PROVE Sound(m, h2, b2)
  BY <1>1, <1>3 DEF Sound, Behind, Written
<1> QED
  BY <1>2, <1>3 DEF Rests

(* Comments and memory that a step leaves alone. *)
LEMMA WritingOn ==
    ASSUME NEW R, NEW S, NEW cs, NEW h, NEW b, AllWritten(R, cs, h, b), Ascending(cs),
           Later(R, cs), Writing(R), Writing(S), S.at = R.at, S.head = R.head
    PROVE  AllWritten(S, cs, h, b) /\ Later(S, cs)
BY DEF AllWritten, Later, Opens, Writing, HoldsClaim

(* Nothing that a run at rest holds can be wrong. *)
LEMMA AwayCarrying ==
    ASSUME NEW R, R.step \in {"idle", "decline", "emptied", "halted", "label", "mark"}
    PROVE  /\ Carrying(R) /\ ~Writing(R) /\ ~Opens(R)
           /\ \A cs : Later(R, cs)
BY DEF Carrying, Writing, HoldsClaim, Opens, Editing, Assembling, Later

(* A run rewrites its claim comment. *)
LEMMA EditWhole ==
    ASSUME TypeInv, NEW r \in Runs, Newest(reviews, run[r].at, run[r].pass),
           AllWritten(run[r], reviews, head, base), Ascending(reviews), Later(run[r], reviews),
           Writing(run[r]), run[r].head \in Heads, NEW m, Edit(r, m), Written(m, head, base),
           m.head = run[r].head, NEW S,
           \/ Rests(m, head, base) /\ ~Writing(S) /\ ~Opens(S)
           \/ Writing(S) /\ S.at = run[r].at /\ S.head = run[r].head
    PROVE  AllWritten(S, reviews', head, base) /\ Ascending(reviews') /\ Later(S, reviews')
<1> DEFINE at == run[r].at
<1>1. /\ at \in DOMAIN reviews /\ DOMAIN reviews' = DOMAIN reviews /\ reviews'[at] = m
      /\ \A i \in DOMAIN reviews : i \in Nat /\ (i # at => reviews'[i] = reviews[i])
  <2>1. reviews \in Seq(ReviewMarker)
    BY DEF TypeInv, TypeOK
  <2> QED BY <2>1 DEF Newest, Edit
<1>2. \A i : i # at => (i \in Ran(reviews') <=> i \in Ran(reviews))
  BY <1>1 DEF Ran
<1>3. \A i \in Ran(reviews') : i = at \/ (i < at /\ reviews'[i] = reviews[i]
                                         /\ reviews[i].head < run[r].head /\ i \in Ran(reviews))
  <2>1. ASSUME NEW i \in Ran(reviews'), i # at
        PROVE  i < at /\ reviews'[i] = reviews[i] /\ reviews[i].head < run[r].head
               /\ i \in Ran(reviews)
    <3>1. i \in Ran(reviews) /\ i \in DOMAIN reviews
      BY <1>1, <1>2, <2>1 DEF Ran
    <3>2. i <= at /\ i \in Nat /\ at \in Nat
      BY <1>1, <3>1 DEF Newest
    <3> QED BY <1>1, <2>1, <3>1, <3>2 DEF Later
  <2> QED BY <2>1
<1>4. Ascending(reviews')
  <2> SUFFICES ASSUME NEW i \in Ran(reviews'), NEW j \in Ran(reviews'), i < j
               PROVE  reviews'[i].head < reviews'[j].head
    BY DEF Ascending
  <2>1. i # at
    <3>1. at \in Nat /\ i \in Nat /\ j \in Nat
      BY <1>1 DEF Ran
    <3> QED BY <1>3, <3>1
  <2>2. CASE j = at
    BY <1>1, <1>3, <2>1, <2>2
  <2>3. CASE j # at
    BY <1>3, <2>1, <2>3 DEF Ascending
  <2> QED BY <2>2, <2>3
<1>5. Later(S, reviews')
  BY <1>3 DEF Later
<1>6. AllWritten(S, reviews', head, base)
  BY <1>1 DEF AllWritten
<1> QED
  BY <1>4, <1>5, <1>6

(* What the pass marker under construction starts from. *)
LEMMA MarkerForPassSeed ==
    ASSUME NEW markers \in Seq(ReviewMarker), NEW pass \in Nat
    PROVE  LET i == MarkerFor(markers, pass)
               own == IF i = 0 THEN BlankMarker(pass) ELSE markers[i]
               m == MarkerForPass(markers, pass)
           IN  /\ m.findings = own.findings
               /\ own.gen.claimed => m.gen = own.gen
               /\ m.gen.claimed =>
                    \/ own.gen.claimed
                    \/ \E j \in DOMAIN markers : markers[j].gen.claimed /\ m.gen = markers[j].gen
<1> DEFINE i == MarkerFor(markers, pass)
           own == IF i = 0 THEN BlankMarker(pass) ELSE markers[i]
           seed == LatestCoverageCheckpoint(markers, pass)
<1>1. own \in ReviewMarker
  BY MarkerForType, BlankMarkerType
<1>2. seed = NoGen \/ \E j \in DOMAIN markers : seed = markers[j].gen
  BY CheckpointOrigin
<1>3. MarkerForPass(markers, pass) = IF own.gen.claimed THEN own ELSE [own EXCEPT !.gen = seed]
  BY DEF MarkerForPass
<1> HIDE DEF own, seed
<1>4. [own EXCEPT !.gen = seed].gen = seed /\ [own EXCEPT !.gen = seed].findings = own.findings
  BY <1>1 DEF ReviewMarker
<1>5. /\ MarkerForPass(markers, pass).findings = own.findings
      /\ own.gen.claimed => MarkerForPass(markers, pass).gen = own.gen
      /\ MarkerForPass(markers, pass).gen.claimed =>
           \/ own.gen.claimed
           \/ \E j \in DOMAIN markers :
                markers[j].gen.claimed /\ MarkerForPass(markers, pass).gen = markers[j].gen
  BY <1>2, <1>3, <1>4 DEF NoGen
<1> QED
  BY <1>5 DEF own, i

(* The newest claim that ran, when any did. *)
LEMMA NewestRan ==
    ASSUME NEW cs \in Seq(ReviewMarker), Ran(cs) # {}
    PROVE  /\ Max(Ran(cs)) \in Ran(cs) /\ Max(Ran(cs)) \in Nat
           /\ \A j \in Ran(cs) : j \in Nat /\ j <= Max(Ran(cs))
<1>1. Ran(cs) \in SUBSET Nat /\ IsFiniteSet(Ran(cs))
  BY RanIsFinite
<1> QED
  BY <1>1, MaxIsMember

(* What admission decides when every comment rests: no claim is open, a    *)
(* new pass is of a head past every pass, and a re-drive takes the newest  *)
(* pass, of this head.                                                     *)
LEMMA AdmissionAtRest ==
    ASSUME NEW cs \in Seq(ReviewMarker), Numbered(cs), head \in Heads, NEW b,
           \A i \in DOMAIN cs : Written(cs[i], head, b) /\ Rests(cs[i], head, b), Ascending(cs)
    PROVE  LET a == Admission(cs)
           IN  /\ a.kind \in {"new", "redrive", "already"}
               /\ a.kind = "new" => \A i \in Ran(cs) : cs[i].head < head
               /\ a.kind = "redrive" =>
                    /\ a.at \in Ran(cs) /\ a.at = MarkerFor(cs, a.pass) /\ cs[a.at].head = head
                    /\ \A i \in Ran(cs) : i = a.at \/ cs[i].head < head
<1> DEFINE cur == CurrentReviewPass(cs)
           i == MarkerFor(cs, cur)
<1>1. cur = Cardinality(Ran(cs))
  BY CurrentIsCount
<1>2. i # 0 => i \in DOMAIN cs /\ cs[i].pass = cur
  BY MarkerForType
<1>3. ~OpenClaim(cs, cur)
  BY <1>2 DEF OpenClaim, Rests
<1>4. Admission(cs) =
        IF IsNewRevision(cs, head)
        THEN [kind |-> "new", pass |-> cur + 1, at |-> 0]
        ELSE IF i # 0 /\ ReviewRedrivable(cs[i].state, cs[i].verdict)
        THEN [kind |-> "redrive", pass |-> cur, at |-> i]
        ELSE [kind |-> "already", pass |-> cur, at |-> i]
  BY <1>3 DEF Admission
<1>5. \A j \in Ran(cs) : j \in DOMAIN cs /\ j \in Nat /\ cs[j].head \in Nat /\ cs[j].head <= head
  BY DEF Ran, Written, Heads
<1>6. Ran(cs) # {} => \A j \in Ran(cs) : j = Max(Ran(cs)) \/ cs[j].head < cs[Max(Ran(cs))].head
  <2> SUFFICES ASSUME Ran(cs) # {}, NEW j \in Ran(cs), j # Max(Ran(cs))
               PROVE  cs[j].head < cs[Max(Ran(cs))].head
    OBVIOUS
  <2>1. Max(Ran(cs)) \in Ran(cs) /\ Max(Ran(cs)) \in Nat /\ j \in Nat /\ j <= Max(Ran(cs))
    BY NewestRan
  <2> QED BY <2>1 DEF Ascending
<1>7. ASSUME IsNewRevision(cs, head) PROVE \A j \in Ran(cs) : cs[j].head < head
  <2> SUFFICES ASSUME NEW j \in Ran(cs) PROVE cs[j].head < head
    OBVIOUS
  <2>1. Max(Ran(cs)) \in Ran(cs)
    BY NewestRan
  <2>2. cs[Max(Ran(cs))].head # head
    BY <1>7 DEF IsNewRevision
  <2>3. cs[Max(Ran(cs))].head < head
    BY <1>5, <2>1, <2>2 DEF Heads
  <2> QED BY <1>5, <1>6, <2>1, <2>3 DEF Heads
<1>8. ASSUME ~IsNewRevision(cs, head), i # 0, ReviewRedrivable(cs[i].state, cs[i].verdict)
      PROVE  /\ i \in Ran(cs) /\ cs[i].head = head
             /\ \A j \in Ran(cs) : j = i \/ cs[j].head < head
  <2>1. i \in Ran(cs) /\ cs[i].pass = Cardinality(Ran(cs))
    BY <1>1, <1>2, <1>8 DEF Ran, ReviewRedrivable
  <2>2. Newest(cs, i, cs[i].pass)
    <3> HIDE DEF i, cur
    <3> QED BY <2>1, CurrentIsNewest
  <2>3. i = Max(Ran(cs))
    <3>1. Max(Ran(cs)) \in Ran(cs) /\ Max(Ran(cs)) \in Nat /\ i \in Nat /\ i <= Max(Ran(cs))
      BY <2>1, NewestRan
    <3>2. Max(Ran(cs)) <= i
      BY <2>2, <3>1 DEF Newest
    <3> HIDE DEF i
    <3> QED BY <3>1, <3>2
  <2>4. cs[i].head = head
    BY <1>8, <2>1, <2>3 DEF IsNewRevision
  <2> QED BY <1>6, <2>1, <2>3, <2>4
<1> HIDE DEF i, cur
<1>9. cur \in Nat
  BY <1>1, RanIsFinite
<1> QED
  BY <1>4, <1>7, <1>8, <1>9 DEF i

LEMMA AdmitWhole ==
    ASSUME TypeInv, ~MayMisread, NEW r \in Runs, Numbered(reviews),
           Whole(run[r], reviews, head, base), Admit(r)
    PROVE  Whole(run'[r], reviews', head', base')
<1> DEFINE a == Admission(reviews)
           i == MarkerFor(reviews, a.pass)
           mk == MarkerForPass(reviews, a.pass)
<1>1. /\ AdmitFrom(r, reviews, resolves) /\ reviews' = reviews /\ head' = head /\ base' = base
      /\ reviews \in Seq(ReviewMarker) /\ head \in Heads /\ base \in Bases
      /\ run[r].step = "idle"
  BY DEF Admit, At, pr, TypeInv, TypeOK
<1>2. /\ run'[r].step \in {"decline", "claim"} /\ run'[r].kind = a.kind
      /\ run'[r].at = a.at /\ run'[r].pass = a.pass
      /\ run'[r].head = head /\ run'[r].base = base /\ ~run'[r].late
      /\ run'[r].out = ClaimFor(a) /\ run'[r].mk = mk
      /\ a.kind \in {"new", "resume", "stale", "redrive"} /\ a.pass \in Nat
  BY <1>1, AdmitAfter
<1>3. /\ ~Writing(run[r]) /\ Ascending(reviews)
      /\ \A j \in DOMAIN reviews : Written(reviews[j], head, base) /\ Rests(reviews[j], head, base)
  <2>1. ~Writing(run[r])
    BY <1>1, AwayCarrying
  <2> QED BY <2>1 DEF Whole, AllWritten
<1>4. /\ a.kind \in {"new", "redrive"}
      /\ a.kind = "new" => \A j \in Ran(reviews) : reviews[j].head < head
      /\ a.kind = "redrive" =>
           /\ a.at \in Ran(reviews) /\ a.at = i /\ reviews[a.at].head = head
           /\ \A j \in Ran(reviews) : j = a.at \/ reviews[j].head < head
  <2>1. /\ a.kind \in {"new", "redrive", "already"}
        /\ a.kind = "new" => \A j \in Ran(reviews) : reviews[j].head < head
        /\ a.kind = "redrive" =>
             /\ a.at \in Ran(reviews) /\ a.at = i /\ reviews[a.at].head = head
             /\ \A j \in Ran(reviews) : j = a.at \/ reviews[j].head < head
    BY <1>1, <1>3, AdmissionAtRest
  <2> QED BY <1>2, <2>1
<1>5. a.kind = "new" => a.pass = Cardinality(Ran(reviews)) + 1
  BY <1>1, AdmissionNumbers
<1>6. \A j \in DOMAIN reviews : reviews[j].gen.claimed => j \in Ran(reviews)
  BY <1>3 DEF Ran, Rests, NoGen
<1>7. /\ i # 0 => i \in DOMAIN reviews /\ reviews[i].pass = a.pass
      /\ i = 0 => BlankMarker(a.pass).findings = {} /\ ~BlankMarker(a.pass).gen.claimed
  BY <1>1, MarkerForType DEF BlankMarker, NoGen
<1> DEFINE own == IF i = 0 THEN BlankMarker(a.pass) ELSE reviews[i]
<1>8. /\ mk.findings = own.findings
      /\ own.gen.claimed => mk.gen = own.gen
      /\ mk.gen.claimed =>
           \/ own.gen.claimed
           \/ \E j \in DOMAIN reviews : reviews[j].gen.claimed /\ mk.gen = reviews[j].gen
  BY <1>1, <1>2, MarkerForPassSeed
<1>9. a.kind = "new" => own.findings = {} /\ ~own.gen.claimed
  <2> SUFFICES ASSUME a.kind = "new", i # 0 PROVE own.findings = {} /\ ~own.gen.claimed
    BY <1>7
  <2>1. i \notin Ran(reviews)
    <3> SUFFICES ASSUME i \in Ran(reviews) PROVE FALSE
      OBVIOUS
    <3>1. reviews[i].pass = Cardinality({j \in Ran(reviews) : j <= i})
      BY DEF Numbered
    <3>2. {j \in Ran(reviews) : j <= i} \in SUBSET Ran(reviews)
      OBVIOUS
    <3>3. Cardinality({j \in Ran(reviews) : j <= i}) <= Cardinality(Ran(reviews))
          /\ Cardinality(Ran(reviews)) \in Nat
          /\ Cardinality({j \in Ran(reviews) : j <= i}) \in Nat
      BY <1>1, <3>2, RanIsFinite
    <3> HIDE DEF i, a
    <3> QED BY <1>5, <1>7, <3>1, <3>3
  <2>2. own = reviews[i] /\ own.state = "declined" /\ i \in DOMAIN reviews
    BY <1>7, <2>1 DEF Ran
  <2> HIDE DEF own, i
  <2> QED BY <1>3, <2>2 DEF Rests, NoGen
<1>10. a.kind = "redrive" =>
         /\ own = reviews[a.at] /\ a.at = i /\ i \in DOMAIN reviews /\ own \in ReviewMarker
         /\ Written(own, head, base) /\ Rests(own, head, base) /\ own.head = head
  <2> SUFFICES ASSUME a.kind = "redrive"
               PROVE  /\ own = reviews[a.at] /\ a.at = i /\ i \in DOMAIN reviews
                      /\ own \in ReviewMarker
                      /\ Written(own, head, base) /\ Rests(own, head, base) /\ own.head = head
    OBVIOUS
  <2>1. a.at = i /\ i \in DOMAIN reviews /\ reviews[i].head = head
    BY <1>4 DEF Ran
  <2>2. i # 0
    <3> HIDE DEF i
    <3> QED BY <1>1, <2>1
  <2> HIDE DEF i, a
  <2> QED BY <1>1, <1>3, <2>1, <2>2
<1> HIDE DEF own
<1>11. Behind(mk, head, base) /\ Sound(mk, head, base) /\ JudgedAt(mk.findings, head)
  <2>1. JudgedAt(mk.findings, head)
    BY <1>4, <1>8, <1>9, <1>10 DEF JudgedAt, Rests
  <2>2. CASE ~mk.gen.claimed
    BY <2>1, <2>2 DEF Behind, Sound
  <2>3. CASE own.gen.claimed
    <3>1. mk.gen = own.gen /\ mk.findings = own.findings /\ a.kind = "redrive"
      BY <1>4, <1>8, <1>9, <2>3
    <3>2. Behind(own, head, base) /\ Sound(own, head, base)
      BY <1>10, <3>1 DEF Written, Rests
    <3> HIDE DEF mk
    <3> QED BY <2>1, <3>1, <3>2 DEF Behind, Sound
  <2>4. CASE mk.gen.claimed /\ ~own.gen.claimed
    <3>1. PICK j \in DOMAIN reviews : reviews[j].gen.claimed /\ mk.gen = reviews[j].gen
      BY <1>8, <2>4
    <3>2. j \in Ran(reviews) /\ Written(reviews[j], head, base)
      BY <1>3, <1>6, <3>1
    <3>3. reviews[j].head < head
      <4>1. a.kind = "redrive" => j # a.at
        BY <1>10, <2>4, <3>1
      <4> HIDE DEF a
      <4> QED BY <1>4, <3>2, <4>1
    <3>4. /\ mk.gen.head \in Nat /\ mk.gen.base \in Nat
          /\ mk.gen.head <= reviews[j].head /\ mk.gen.base <= base
          /\ reviews[j].head \in Nat /\ head \in Nat /\ base \in Nat
      BY <1>1, <3>1, <3>2 DEF Written, Behind, Heads, Bases
    <3> HIDE DEF mk
    <3> QED BY <2>1, <3>3, <3>4 DEF Behind, Sound
  <2> QED BY <2>2, <2>3, <2>4
<1>12. LET c == ClaimFor(a)
       IN  /\ c.head = head /\ c.findings = {} /\ c.state = "started"
           /\ Behind(c, head, base)
  <2>1. CASE a.kind = "new"
    <3>1. ClaimFor(a) = StartedMarker(a.pass, head)
      BY <2>1 DEF ClaimFor
    <3> QED BY <3>1 DEF StartedMarker, BlankMarker, Behind, NoGen
  <2>2. CASE a.kind = "redrive"
    <3>1. ClaimFor(a) = [own EXCEPT !.state = "started", !.old = FALSE, !.head = head,
                                    !.findings = {}, !.verdict = "null", !.reason = "none"]
      BY <1>10, <2>2 DEF ClaimFor
    <3>2. /\ ClaimFor(a).head = head /\ ClaimFor(a).findings = {}
          /\ ClaimFor(a).state = "started" /\ ClaimFor(a).gen = own.gen
      BY <1>10, <2>2, <3>1 DEF ReviewMarker
    <3>3. Behind(own, head, base)
      BY <1>10, <2>2 DEF Written
    <3> QED BY <3>2, <3>3 DEF Behind
  <2> QED BY <1>4, <2>1, <2>2
<1> HIDE DEF mk
<1>13. AllWritten(run'[r], reviews', head', base') /\ Ascending(reviews')
  BY <1>1, <1>3 DEF AllWritten
<1>14. Bounds(run'[r], head', base')
  BY <1>1, <1>2 DEF Bounds, Heads, Bases
<1>15. CASE run'[r].step = "decline"
  BY <1>13, <1>14, <1>15, AwayCarrying DEF Whole
<1>16. CASE run'[r].step = "claim"
  <2>1. Later(run'[r], reviews')
    <3>1. a.kind = "redrive" => Writing(run'[r])
      BY <1>2, <1>16 DEF Writing, HoldsClaim, Editing
    <3> HIDE DEF a
    <3> QED BY <1>1, <1>2, <1>4, <3>1 DEF Later
  <2>2. Carrying(run'[r])
    <3> HIDE DEF a
    <3> QED BY <1>1, <1>2, <1>4, <1>11, <1>12, <1>16 DEF Carrying, Sound, Assembling
  <2> QED BY <1>13, <1>14, <2>1, <2>2 DEF Whole
<1> QED
  BY <1>2, <1>15, <1>16

(* What a run may write in its claim comment. *)
LEMMA Writes ==
    ASSUME TypeInv, NEW R, R.step # "idle", Bounds(R, head, base), NEW m, m.head = R.head,
           Behind(m, R.head, R.base),
           \/ m.state # "complete"
           \/ m.verdict = "blocked" /\ m.reason \in {"nothing", "error"}
           \/ Shows(m.findings, m.gen.recs) /\ JudgedAt(m.findings, m.head)
    PROVE  Written(m, head, base)
<1>1. /\ R.head \in Heads /\ R.head <= head /\ R.base <= base
      /\ R.head \in Nat /\ R.base \in Nat /\ base \in Nat
  BY DEF Bounds, TypeInv, TypeOK, Heads, Bases
<1>2. Behind(m, m.head, base)
  BY <1>1 DEF Behind
<1> QED
  BY <1>1, <1>2 DEF Written, Published

(* A generation sound for a run is sound for the pull request. *)
LEMMA SoundNow ==
    ASSUME TypeInv, NEW R, R.step # "idle", Bounds(R, head, base), NEW m,
           Behind(m, R.head, R.base), Sound(m, R.head, R.base)
    PROVE  Sound(m, head, base)
<1>1. /\ R.head <= head /\ R.base <= base /\ R.head \in Nat /\ R.base \in Nat
      /\ head \in Nat /\ base \in Nat
  BY DEF Bounds, TypeInv, TypeOK, Heads, Bases
<1> QED
  BY <1>1, SoundLater

(* A comment more: a refusal, or the claim of the next pass. *)
LEMMA AppendWhole ==
    ASSUME TypeInv, NEW R, AllWritten(R, reviews, head, base), Ascending(reviews), ~Writing(R),
           NEW m, reviews' = Append(reviews, m), Written(m, head, base), NEW S,
           \/ m.state = "declined" /\ Rests(m, head, base) /\ ~Writing(S) /\ ~Opens(S)
           \/ /\ Opens(R) /\ Later(R, reviews) /\ m.head = R.head /\ S.head = R.head
              /\ Writing(S) /\ S.at = Len(reviews) + 1
    PROVE  AllWritten(S, reviews', head, base) /\ Ascending(reviews') /\ Later(S, reviews')
<1> DEFINE n == Len(reviews) + 1
<1>1. reviews \in Seq(ReviewMarker)
  BY DEF TypeInv, TypeOK
<1>2. DOMAIN reviews' = 1..n /\ DOMAIN reviews = 1..Len(reviews) /\ n \in Nat /\ n \notin DOMAIN reviews
      /\ reviews'[n] = m /\ \A i \in DOMAIN reviews : reviews'[i] = reviews[i] /\ i \in Nat /\ i < n
  BY <1>1, AppendProperties
<1>3. \A i \in DOMAIN reviews' : i = n \/ i \in DOMAIN reviews
  BY <1>1, <1>2
<1> HIDE DEF n
<1>4. AllWritten(S, reviews', head, base)
  BY <1>2, <1>3 DEF AllWritten, n
<1>5. \A i \in Ran(reviews') :
        i \in Nat /\ (i = n \/ (i \in Ran(reviews) /\ reviews'[i] = reviews[i] /\ i < n))
  BY <1>2, <1>3 DEF Ran
<1>6. n \in Ran(reviews') => Opens(R) /\ m.state # "declined"
  BY <1>2 DEF Ran
<1>7. Ascending(reviews')
  <2> SUFFICES ASSUME NEW i \in Ran(reviews'), NEW j \in Ran(reviews'), i < j
               PROVE  reviews'[i].head < reviews'[j].head
    BY DEF Ascending
  <2>1. i # n
    BY <1>2, <1>5
  <2>2. i \in Ran(reviews) /\ reviews'[i] = reviews[i]
    BY <1>5, <2>1
  <2>3. CASE j = n
    BY <1>2, <1>6, <2>2, <2>3 DEF Later
  <2>4. CASE j # n
    BY <1>5, <2>2, <2>4 DEF Ascending
  <2> QED BY <2>3, <2>4
<1>8. Later(S, reviews')
  BY <1>2, <1>5, <1>6 DEF Later, n
<1> QED
  BY <1>4, <1>7, <1>8

(* A run that ends, or whose record rests, over comments it leaves alone. *)
LEMMA AwayWhole ==
    ASSUME NEW R, NEW S, NEW cs, NEW h, NEW b, Whole(R, cs, h, b), ~Writing(R), Bounds(S, h, b),
           S.step \in {"idle", "decline", "emptied", "halted", "label", "mark"}
    PROVE  Whole(S, cs, h, b)
BY AwayCarrying DEF Whole, AllWritten

(* A run that settles its record. *)
LEMMA SettleWhole ==
    ASSUME TypeInv, NEW r \in Runs, Newest(reviews, run[r].at, run[r].pass),
           Whole(run[r], reviews, head, base), Writing(run[r]), NEW m, Edit(r, m),
           head' = head, base' = base, Written(m, head, base), Rests(m, head, base),
           m.head = run[r].head,
           run'[r].step \in {"idle", "emptied", "halted", "label"},
           Bounds(run'[r], head, base)
    PROVE  Whole(run'[r], reviews', head', base')
<1>1. /\ AllWritten(run[r], reviews, head, base) /\ Ascending(reviews)
      /\ Later(run[r], reviews) /\ run[r].head \in Heads
  BY DEF Whole, Carrying
<1>2. Carrying(run'[r]) /\ ~Writing(run'[r]) /\ ~Opens(run'[r])
  BY AwayCarrying
<1> QED
  BY <1>1, <1>2, EditWhole DEF Whole

(* A run that writes its claim comment, or leaves it, and works on. *)
LEMMA WritingWhole ==
    ASSUME TypeInv, NEW r \in Runs, Newest(reviews, run[r].at, run[r].pass),
           Whole(run[r], reviews, head, base), Writing(run[r]), NEW m,
           \/ reviews' = reviews
           \/ Edit(r, m) /\ Written(m, head, base) /\ m.head = run[r].head,
           head' = head, base' = base, run'[r].at = run[r].at,
           run'[r].head = run[r].head, run'[r].base = run[r].base,
           Writing(run'[r]), Carrying(run'[r])
    PROVE  Whole(run'[r], reviews', head', base')
<1>1. /\ AllWritten(run[r], reviews, head, base) /\ Ascending(reviews)
      /\ Later(run[r], reviews) /\ run[r].head \in Heads
  BY DEF Whole, Carrying
<1>2. Bounds(run'[r], head, base)
  <2>1. run[r].step # "idle"
    BY DEF Writing, HoldsClaim, Editing
  <2> QED BY <2>1 DEF Whole, Bounds
<1>3. CASE reviews' = reviews
  BY <1>1, <1>2, <1>3, WritingOn DEF Whole
<1>4. CASE Edit(r, m) /\ Written(m, head, base) /\ m.head = run[r].head
  <2>1. AllWritten(run'[r], reviews', head, base) /\ Ascending(reviews') /\ Later(run'[r], reviews')
    BY <1>1, <1>4, EditWhole
  <2> QED BY <1>2, <2>1 DEF Whole
<1> QED
  BY <1>3, <1>4

LEMMA OpeningWhole ==
    ASSUME TypeInv, NEW r \in Runs, Numbering(run[r], reviews), Keeping(run[r], reviews),
           Whole(run[r], reviews, head, base),
           PostDeclined(r) \/ PostClaim(r) \/ BindScope(r) \/ SettleNothing(r)
    PROVE  Whole(run'[r], reviews', head', base')
<1>1. /\ run[r].out \in ReviewMarker /\ run[r].mk \in ReviewMarker /\ run[r].pass \in Nat
      /\ head' = head /\ base' = base
      /\ AllWritten(run[r], reviews, head, base) /\ Ascending(reviews) /\ Later(run[r], reviews)
      /\ Carrying(run[r]) /\ Bounds(run[r], head, base)
  BY RunIsRecord, RunFields
     DEF RunRecord, Whole, PostDeclined, PostClaim, BindScope, SettleNothing, pr
<1>2. CASE PostDeclined(r)
  <2> DEFINE m == [BlankMarker(run[r].pass) EXCEPT !.state = "declined", !.head = run[r].head,
                     !.verdict = "declined", !.reason = "cap"]
  <2>1. /\ m.state = "declined" /\ m.gen = NoGen /\ m.findings = {} /\ m.head = run[r].head
        /\ ~m.gen.claimed
    BY DEF BlankMarker, NoGen
  <2>2. reviews' = Append(reviews, m) /\ Goto(r, "halted") /\ run[r].step = "decline"
    BY <1>2 DEF PostDeclined, At
  <2>3. run'[r].step = "halted" /\ SameClaim(run[r], run'[r])
    BY <2>2, GotoAfter
  <2> HIDE DEF m
  <2>4. Rests(m, head, base)
    BY <2>1 DEF Rests, Sound, JudgedAt
  <2>5. Written(m, head, base)
    BY <1>1, <2>1, <2>2, Writes DEF Behind
  <2>6. ~Writing(run[r])
    BY <2>2, AwayCarrying
  <2>7. Carrying(run'[r]) /\ ~Writing(run'[r]) /\ ~Opens(run'[r])
    BY <2>3, AwayCarrying
  <2>8. Bounds(run'[r], head, base)
    BY <1>1, <2>2, <2>3 DEF Bounds, SameClaim
  <2>9. AllWritten(run'[r], reviews', head, base) /\ Ascending(reviews') /\ Later(run'[r], reviews')
    BY <1>1, <2>1, <2>2, <2>4, <2>5, <2>6, <2>7, AppendWhole
  <2> QED BY <1>1, <2>7, <2>8, <2>9 DEF Whole
<1>3. CASE PostClaim(r)
  <2>1. /\ run[r].step = "claim" /\ run'[r].step = "scope" /\ run'[r].pass = run[r].pass
        /\ run'[r].out = run[r].out /\ run'[r].mk = run[r].mk
        /\ run'[r].kind = run[r].kind /\ run'[r].head = run[r].head
        /\ run'[r].base = run[r].base /\ run'[r].late = run[r].late
        /\ run'[r].at = IF run[r].kind = "new" THEN Len(reviews) + 1 ELSE run[r].at
    BY <1>3, PostClaimAfter
  <2>2. run[r].out.state = "started" /\ ~run[r].late
    BY <1>1, <2>1 DEF Carrying
  <2>3. Writing(run[r]) \/ Opens(run[r])
    BY <2>1 DEF Writing, HoldsClaim, Opens
  <2>4. run[r].out.head = run[r].head /\ Behind(run[r].out, run[r].head, run[r].base)
        /\ run[r].kind \in {"new", "redrive"}
    BY <1>1, <2>3 DEF Carrying
  <2>5. Written(run[r].out, head, base)
    BY <1>1, <2>1, <2>2, <2>4, Writes
  <2>6. Carrying(run'[r])
    BY <1>1, <2>1, <2>2, <2>3 DEF Carrying, Assembling
  <2>7. Writing(run'[r])
    BY <2>1 DEF Writing, HoldsClaim, Editing
  <2>8. CASE run[r].kind = "new"
    <3>1. reviews' = Append(reviews, run[r].out) /\ Opens(run[r]) /\ ~Writing(run[r])
      BY <1>3, <2>1, <2>8 DEF PostClaim, Opens, Writing, HoldsClaim, Editing
    <3>2. AllWritten(run'[r], reviews', head, base) /\ Ascending(reviews') /\ Later(run'[r], reviews')
      BY <1>1, <2>1, <2>4, <2>5, <2>7, <2>8, <3>1, AppendWhole
    <3>3. Bounds(run'[r], head, base)
      BY <1>1, <2>1 DEF Bounds
    <3> QED BY <1>1, <2>6, <3>2, <3>3 DEF Whole
  <2>9. CASE run[r].kind # "new"
    <3>1. Edit(r, run[r].out) /\ Writing(run[r]) /\ HoldsClaim(run[r])
      BY <1>3, <2>1, <2>4, <2>9 DEF PostClaim, Writing, HoldsClaim
    <3>2. Newest(reviews, run[r].at, run[r].pass)
      BY <3>1 DEF Numbering
    <3> QED BY <1>1, <2>1, <2>4, <2>5, <2>6, <2>7, <2>9, <3>1, <3>2, WritingWhole
  <2> QED BY <2>8, <2>9
<1>4. CASE BindScope(r)
  <2> DEFINE s == IF RequiredAt(run[r].head) = {} THEN "nothing" ELSE "pack"
  <2>1. Goto(r, s) /\ run[r].step = "scope" /\ reviews' = reviews
    BY <1>4 DEF BindScope, At, pr
  <2>2. /\ SameClaim(run[r], run'[r]) /\ run'[r].step = s
        /\ run'[r].out = run[r].out /\ run'[r].mk = run[r].mk /\ run'[r].late = run[r].late
    <3> HIDE DEF s
    <3> QED BY <2>1, GotoAfter
  <2>3. s \in {"nothing", "pack"} /\ (s = "nothing" => RequiredAt(run[r].head) = {})
    OBVIOUS
  <2> HIDE DEF s
  <2>4. Writing(run[r]) /\ Writing(run'[r]) /\ HoldsClaim(run[r])
    BY <2>1, <2>2, <2>3 DEF Writing, HoldsClaim, Editing
  <2>5. Carrying(run'[r])
    BY <1>1, <2>1, <2>2, <2>3, <2>4 DEF Carrying, SameClaim, Assembling
  <2>6. Newest(reviews, run[r].at, run[r].pass)
    BY <2>4 DEF Numbering
  <2> QED BY <1>1, <2>1, <2>2, <2>4, <2>5, <2>6, WritingWhole DEF SameClaim
<1>5. CASE SettleNothing(r)
  <2> DEFINE own == IF run[r].late THEN run[r].mk ELSE run[r].out
             m == [own EXCEPT !.state = "complete", !.verdict = "blocked", !.reason = "nothing"]
  <2>1. run[r].step = "nothing" /\ Edit(r, m) /\ Reports(r, "emptied", m)
    BY <1>5 DEF SettleNothing, Reports, At
  <2>2. Writing(run[r]) /\ HoldsClaim(run[r])
    BY <2>1 DEF Writing, HoldsClaim, Editing
  <2>3. /\ own \in ReviewMarker /\ own.head = run[r].head
        /\ Behind(own, run[r].head, run[r].base) /\ JudgedAt(own.findings, run[r].head)
    <3>1. /\ run[r].late => run[r].mk.head = run[r].head
          /\ run[r].out.head = run[r].head /\ run[r].out.findings \in {{}, run[r].mk.findings}
          /\ Behind(run[r].mk, run[r].head, run[r].base) /\ Behind(run[r].out, run[r].head, run[r].base)
          /\ JudgedAt(run[r].mk.findings, run[r].head)
      BY <1>1, <2>1, <2>2 DEF Carrying
    <3> QED BY <1>1, <3>1 DEF JudgedAt
  <2>4. Sound(own, run[r].head, run[r].base)
    <3>1. CASE run[r].late
      BY <1>1, <2>1, <2>2, <3>1 DEF Carrying
    <3>2. CASE ~run[r].late
      <4>1. RequiredAt(run[r].head) = {} /\ Scoped(own.gen)
        BY <1>1, <2>1, <2>2, <3>2 DEF Carrying, Keeping
      <4> HIDE DEF own
      <4> QED BY <4>1 DEF Sound, Scoped, Shows
    <3> QED BY <3>1, <3>2
  <2>5. /\ m.state = "complete" /\ m.verdict = "blocked" /\ m.reason = "nothing"
        /\ m.head = own.head /\ m.gen = own.gen /\ m.findings = own.findings
    <3> HIDE DEF own
    <3> QED BY <2>3 DEF ReviewMarker
  <2> HIDE DEF m, own
  <2>6. Written(m, head, base)
    BY <1>1, <2>1, <2>3, <2>5, Writes DEF Behind
  <2>7. Rests(m, head, base)
    <3>1. Sound(own, head, base)
      BY <1>1, <2>1, <2>3, <2>4, SoundNow
    <3> QED BY <2>3, <2>5, <3>1 DEF Rests, Sound, JudgedAt
  <2>8. run'[r].step = "emptied" /\ SameClaim(run[r], run'[r])
    BY <2>1, ReportAfter
  <2>9. Bounds(run'[r], head, base)
    BY <1>1, <2>1, <2>8 DEF Bounds, SameClaim
  <2>10. Newest(reviews, run[r].at, run[r].pass)
    BY <2>2 DEF Numbering
  <2> QED BY <1>1, <2>1, <2>2, <2>3, <2>5, <2>6, <2>7, <2>8, <2>9, <2>10, SettleWhole
<1> QED
  BY <1>2, <1>3, <1>4, <1>5

(* Packing restores the findings its verdicts speak of. *)
LEMMA PackWhole ==
    ASSUME TypeInv, ~MayLose, NEW r \in Runs, Numbering(run[r], reviews),
           Whole(run[r], reviews, head, base), Pack(r)
    PROVE  Whole(run'[r], reviews', head', base')
<1> DEFINE R == run[r]
           S == run'[r]
<1>1. run[r].step = "pack" /\ reviews' = reviews /\ head' = head /\ base' = base
  BY DEF Pack, At, pr
<1>2. /\ SameClaim(R, S) /\ S.step \in {"nothing", "initial"} /\ S.out = R.out
      /\ S.mk.gen = R.mk.gen /\ S.mk.head = R.out.head /\ S.mk.findings = R.mk.findings
      /\ S.found = R.mk.findings /\ (S.step = "nothing" => S.late)
      /\ S.recs = PackedCoverage(R, FALSE)
  <2>1. MayLose = FALSE
    BY ReviewLegAssumption
  <2> QED BY <2>1, PackAfter
<1>3. Writing(R) /\ HoldsClaim(R) /\ Writing(S)
  BY <1>1, <1>2 DEF Writing, HoldsClaim, Editing
<1>4. /\ Carrying(R) /\ Behind(R.mk, R.head, R.base) /\ Sound(R.mk, R.head, R.base)
      /\ JudgedAt(R.mk.findings, R.head) /\ R.out.head = R.head
  BY <1>3 DEF Whole, Carrying
<1> HIDE DEF R, S
<1>5. Shows(S.found, S.recs)
  <2> DEFINE accepted == IF GenerationCurrent(R.mk.gen, R.base, R.head, R.producer)
                         THEN Judged(R.mk.gen.recs) ELSE {}
  <2> SUFFICES ASSUME NEW u \in DOMAIN S.recs, S.recs[u] = "finding"
               PROVE  \E f \in S.found : f.id = u
    BY DEF Shows
  <2>1. S.recs = [v \in {w \in RequiredAt(R.head) : w \in accepted \/ w \notin Generated} |->
                    IF v \in accepted THEN R.mk.gen.recs[v] ELSE "outstanding"]
    BY <1>2 DEF PackedCoverage
  <2>2. u \in accepted /\ R.mk.gen.recs[u] = "finding"
    <3> HIDE DEF accepted
    <3> QED BY <2>1
  <2>3. u \in DOMAIN R.mk.gen.recs /\ GenerationCurrent(R.mk.gen, R.base, R.head, R.producer)
    BY <2>2 DEF Judged
  <2> QED BY <1>2, <1>4, <2>2, <2>3 DEF Sound, Shows, GenerationCurrent
<1>6. Behind(S.mk, S.head, S.base) /\ Sound(S.mk, S.head, S.base)
  BY <1>2, <1>4 DEF Behind, Sound, SameClaim
<1>7. Carrying(S)
  BY <1>1, <1>2, <1>3, <1>4, <1>5, <1>6 DEF Carrying, SameClaim, Assembling
<1>8. Newest(reviews, R.at, R.pass)
  BY <1>3 DEF Numbering, R
<1> QED
  BY <1>1, <1>2, <1>3, <1>7, <1>8, WritingWhole DEF SameClaim, R, S

(* What a run that covers holds. *)
LEMMA CoveringWhole ==
    ASSUME NEW r, Numbering(run[r], reviews), Whole(run[r], reviews, head, base),
           run[r].step \in Editing \ {"emptied"}
    PROVE  LET R == run[r]
           IN  /\ Writing(R) /\ Newest(reviews, R.at, R.pass) /\ R.step # "idle"
               /\ R.kind \in {"new", "redrive"} /\ R.head \in Heads /\ R.base \in Bases
               /\ R.out.head = R.head /\ R.out.findings \in {{}, R.mk.findings}
               /\ Behind(R.mk, R.head, R.base) /\ Behind(R.out, R.head, R.base)
               /\ Sound(R.mk, R.head, R.base) /\ JudgedAt(R.mk.findings, R.head)
               /\ Carrying(R) /\ Bounds(R, head, base)
BY DEF Numbering, Whole, Carrying, Writing, HoldsClaim, Editing

LEMMA CoverageWhole ==
    ASSUME TypeInv, NEW r \in Runs, Numbering(run[r], reviews),
           Whole(run[r], reviews, head, base),
           PublishInitial(r) \/ Judge(r) \/ RecordBatch(r) \/ EditBatch(r) \/ Bounded(r)
    PROVE  Whole(run'[r], reviews', head', base')
<1> DEFINE R == run[r]
           S == run'[r]
<1>1. /\ R \in RunRecord /\ R.mk \in ReviewMarker /\ R.step \in Assembling
      /\ head' = head /\ base' = base
  BY RunIsRecord, RunFields
     DEF PublishInitial, Judge, RecordBatch, EditBatch, Bounded, At, Assembling, pr
<1>2. /\ Writing(R) /\ Newest(reviews, R.at, R.pass) /\ R.step # "idle"
      /\ R.kind \in {"new", "redrive"} /\ R.head \in Heads /\ R.base \in Bases
      /\ R.out.head = R.head /\ R.out.findings \in {{}, R.mk.findings}
      /\ Behind(R.mk, R.head, R.base) /\ Behind(R.out, R.head, R.base)
      /\ Sound(R.mk, R.head, R.base) /\ JudgedAt(R.mk.findings, R.head)
      /\ Carrying(R) /\ Bounds(R, head, base)
  BY <1>1, CoveringWhole DEF Assembling, Editing
<1>3. /\ R.mk.head = R.head /\ Shows(R.found, R.recs) /\ JudgedAt(R.found, R.head)
      /\ R.step = "initial" => R.found = R.mk.findings
  BY <1>1, <1>2 DEF Carrying
<1>4. GenerationOf(r) = [claimed |-> TRUE, base |-> R.base, head |-> R.head,
                         producer |-> R.producer, recs |-> R.recs]
      /\ R.head \in Nat /\ R.base \in Nat
  BY <1>2 DEF GenerationOf, Heads, Bases
<1>5. GenerationOf(r) \in Generation
  <2>1. ~At(r, "idle") /\ BoundRecord(run[r])
    BY <1>2 DEF At, TypeInv, Bound
  <2> QED BY <1>1, <2>1, GenerationOfType
<1>6. ASSUME NEW m \in ReviewMarker, NEW s \in {"plan", "edit"}, Marks(r, s, m), m.head = R.head,
             m.gen = GenerationOf(r), Shows(m.findings, R.recs), JudgedAt(m.findings, R.head),
             reviews' = reviews
      PROVE  Whole(S, reviews', head', base')
  <2>1. /\ SameClaim(R, S) /\ S.step = s /\ S.out = m /\ S.mk = m
        /\ S.recs = R.recs /\ S.found = R.found
    BY <1>6, MarkerAfter
  <2>2. Behind(m, S.head, S.base) /\ Sound(m, S.head, S.base)
    BY <1>4, <1>6, <2>1 DEF Behind, Sound, SameClaim
  <2> HIDE DEF R, S
  <2>3. Writing(S)
    BY <1>6, <2>1 DEF Writing, HoldsClaim, Editing
  <2>4. Carrying(S)
    BY <1>2, <1>3, <1>6, <2>1, <2>2, <2>3 DEF Carrying, SameClaim, Assembling
  <2> QED BY <1>1, <1>2, <1>6, <2>1, <2>3, <2>4, WritingWhole DEF SameClaim, R, S
<1>7. CASE PublishInitial(r)
  <2> DEFINE m == [R.mk EXCEPT !.gen = GenerationOf(r)]
  <2>1. Marks(r, "plan", m) /\ R.step = "initial" /\ reviews' = reviews
    BY <1>7 DEF PublishInitial, Marks, At, pr
  <2>2. /\ m \in ReviewMarker /\ m.gen = GenerationOf(r) /\ m.head = R.mk.head
        /\ m.findings = R.mk.findings
    <3> HIDE DEF R
    <3> QED BY <1>1, <1>5 DEF ReviewMarker
  <2> HIDE DEF m
  <2> QED BY <1>2, <1>3, <1>6, <2>1, <2>2
<1>8. CASE RecordBatch(r)
  <2> DEFINE findings == IF R.found = {} THEN R.mk.findings ELSE R.found
             m == [R.mk EXCEPT !.gen = GenerationOf(r), !.findings = findings]
  <2>1. Marks(r, "edit", m) /\ reviews' = reviews
    BY <1>8 DEF RecordBatch, Marks, pr
  <2>2. Shows(findings, R.recs) /\ JudgedAt(findings, R.head)
    BY <1>2, <1>3 DEF Shows
  <2>3. findings \in SUBSET Finding
    BY <1>1, RunFields DEF ReviewMarker, RunRecord
  <2> HIDE DEF findings
  <2>4. /\ m \in ReviewMarker /\ m.gen = GenerationOf(r) /\ m.head = R.mk.head
        /\ m.findings = findings
    <3> HIDE DEF R
    <3> QED BY <1>1, <1>5, <2>3 DEF ReviewMarker
  <2> HIDE DEF m
  <2> QED BY <1>3, <1>6, <2>1, <2>2, <2>4
<1>9. CASE Judge(r)
  <2>1. /\ SameClaim(R, S) /\ S.step = "record" /\ S.out = R.out /\ S.mk = R.mk
        /\ DOMAIN S.recs = DOMAIN R.recs
        /\ R.found \subseteq S.found
        /\ \A f \in S.found : f \in R.found \/ f.at = R.head
        /\ \A u \in DOMAIN S.recs : S.recs[u] = "finding" =>
             R.recs[u] = "finding" \/ \E f \in S.found : f.id = u
    BY <1>9, JudgeAfter
  <2>2. reviews' = reviews
    BY <1>9 DEF Judge, pr
  <2> HIDE DEF R, S
  <2>3. Shows(S.found, S.recs) /\ JudgedAt(S.found, S.head)
    <3>1. ASSUME NEW u \in DOMAIN S.recs, S.recs[u] = "finding"
          PROVE  \E f \in S.found : f.id = u
      BY <1>3, <2>1, <3>1 DEF Shows
    <3>2. JudgedAt(S.found, R.head)
      BY <1>3, <2>1 DEF JudgedAt
    <3> QED BY <2>1, <3>1, <3>2 DEF Shows, SameClaim
  <2>4. Writing(S)
    BY <2>1 DEF Writing, HoldsClaim, Editing
  <2>5. Carrying(S)
    BY <1>2, <1>3, <2>1, <2>3, <2>4 DEF Carrying, SameClaim, Assembling
  <2> QED BY <1>1, <1>2, <2>1, <2>2, <2>4, <2>5, WritingWhole DEF SameClaim, R, S
<1>10. CASE EditBatch(r)
  <2> DEFINE m == [R.mk EXCEPT !.state = "started"]
  <2>1. m.state = "started" /\ m.head = R.mk.head /\ m.gen = R.mk.gen
    <3> HIDE DEF R
    <3> QED BY <1>1 DEF ReviewMarker
  <2>2. R.step = "edit" /\ Edit(r, m) /\ Goto(r, "plan")
    BY <1>10 DEF EditBatch, At
  <2> HIDE DEF m
  <2>3. /\ SameClaim(R, S) /\ S.step = "plan" /\ S.out = R.out
        /\ S.mk = R.mk /\ S.recs = R.recs /\ S.found = R.found
    BY <2>2, GotoAfter
  <2>4. Written(m, head, base)
    BY <1>2, <1>3, <2>1, Writes DEF Behind
  <2> HIDE DEF R, S
  <2>5. Writing(S)
    BY <2>3 DEF Writing, HoldsClaim, Editing
  <2>6. Carrying(S)
    BY <1>2, <1>3, <2>3, <2>5 DEF Carrying, SameClaim, Assembling
  <2> QED BY <1>1, <1>2, <1>3, <2>1, <2>2, <2>3, <2>4, <2>5, <2>6, WritingWhole
          DEF SameClaim, R, S
<1>11. CASE Bounded(r)
  <2>1. Goto(r, "halt") /\ reviews' = reviews
    BY <1>11 DEF Bounded, pr
  <2>2. SameClaim(R, S) /\ S.step = "halt" /\ S.out = R.out /\ S.mk = R.mk
    BY <2>1, GotoAfter
  <2> HIDE DEF R, S
  <2>3. Writing(S)
    BY <2>2 DEF Writing, HoldsClaim, Editing
  <2>4. Carrying(S)
    BY <1>2, <1>3, <2>2, <2>3 DEF Carrying, SameClaim, Assembling
  <2> QED BY <1>1, <1>2, <2>1, <2>2, <2>3, <2>4, WritingWhole DEF SameClaim, R, S
<1> QED
  BY <1>7, <1>8, <1>9, <1>10, <1>11

LEMMA HaltWhole ==
    ASSUME TypeInv, NEW r \in Runs, Numbering(run[r], reviews),
           Whole(run[r], reviews, head, base), HaltPass(r)
    PROVE  Whole(run'[r], reviews', head', base')
<1> DEFINE R == run[r]
           findings == IF R.out.findings = {} THEN R.mk.findings ELSE R.out.findings
           m == [R.mk EXCEPT !.state = "incomplete", !.stop = TRUE, !.head = R.out.head,
                   !.old = R.out.old, !.findings = findings]
<1>1. /\ R.mk \in ReviewMarker /\ R.step = "halt" /\ Edit(r, m) /\ Reports(r, "halted", m)
      /\ head' = head /\ base' = base
  BY RunIsRecord, RunFields DEF HaltPass, Reports, At
<1>2. /\ Writing(R) /\ Newest(reviews, R.at, R.pass) /\ R.step # "idle"
      /\ R.out.head = R.head /\ R.out.findings \in {{}, R.mk.findings}
      /\ Behind(R.mk, R.head, R.base) /\ Sound(R.mk, R.head, R.base)
      /\ JudgedAt(R.mk.findings, R.head) /\ Bounds(R, head, base)
  BY <1>1, CoveringWhole DEF Editing
<1>3. findings = R.mk.findings
  BY <1>2
<1>4. /\ m.state = "incomplete" /\ m.head = R.head /\ m.gen = R.mk.gen
      /\ m.findings = R.mk.findings
  <2> HIDE DEF findings, R
  <2> QED BY <1>1, <1>2, <1>3 DEF ReviewMarker
<1> HIDE DEF m
<1>5. Written(m, head, base)
  BY <1>2, <1>4, Writes DEF Behind
<1>6. Rests(m, head, base)
  <2>1. Sound(R.mk, head, base)
    BY <1>2, SoundNow
  <2> QED BY <1>2, <1>4, <2>1 DEF Rests, Sound
<1>7. run'[r].step = "halted" /\ SameClaim(run[r], run'[r])
  BY <1>1, ReportAfter
<1>8. Bounds(run'[r], head, base)
  BY <1>1, <1>2, <1>7 DEF Bounds, SameClaim
<1> QED
  BY <1>1, <1>2, <1>4, <1>5, <1>6, <1>7, <1>8, SettleWhole

(* Stamping what is held back keeps every finding under its id and head. *)
LEMMA StampKeeps ==
    ASSUME NEW findings \in SUBSET Finding, NEW pass, NEW h, NEW recs,
           Shows(findings, recs), JudgedAt(findings, h)
    PROVE  LET stamped == StampNotPosted(findings, pass)
           IN  Shows(stamped, recs) /\ JudgedAt(stamped, h)
<1> DEFINE one(f) == IF HoldBelowThreshold(f, pass) THEN [f EXCEPT !.posted = FALSE] ELSE f
           stamped == StampNotPosted(findings, pass)
<1>1. \A f \in findings : one(f).id = f.id /\ one(f).at = f.at
  BY DEF Finding
<1>2. stamped = {one(f) : f \in findings}
  BY DEF StampNotPosted
<1> HIDE DEF one, stamped
<1>3. JudgedAt(stamped, h)
  BY <1>1, <1>2 DEF JudgedAt
<1>4. Shows(stamped, recs)
  <2> SUFFICES ASSUME NEW u \in DOMAIN recs, recs[u] = "finding"
               PROVE  \E g \in stamped : g.id = u
    BY DEF Shows
  <2>1. PICK f \in findings : f.id = u
    BY DEF Shows
  <2> QED BY <1>1, <1>2, <2>1
<1> QED
  BY <1>3, <1>4 DEF stamped

LEMMA PublishWhole ==
    ASSUME TypeInv, NEW r \in Runs, Numbering(run[r], reviews), Earning(run[r], reviews),
           Whole(run[r], reviews, head, base),
           FinishCovered(r) \/ Post(r) \/ Summarize(r) \/ Complete(r)
    PROVE  Whole(run'[r], reviews', head', base')
<1> DEFINE R == run[r]
           S == run'[r]
<1>1. /\ R.mk \in ReviewMarker /\ R.found \in SUBSET Finding
      /\ R.step \in {"plan", "post", "complete"} /\ head' = head /\ base' = base
  BY RunIsRecord, RunFields DEF RunRecord, FinishCovered, Post, Summarize, Complete, At, pr
<1>2. /\ Writing(R) /\ Newest(reviews, R.at, R.pass) /\ R.step # "idle"
      /\ R.kind \in {"new", "redrive"} /\ R.head \in Heads /\ R.base \in Bases
      /\ R.out.head = R.head /\ R.out.findings \in {{}, R.mk.findings}
      /\ Behind(R.mk, R.head, R.base) /\ Behind(R.out, R.head, R.base)
      /\ Sound(R.mk, R.head, R.base) /\ JudgedAt(R.mk.findings, R.head)
      /\ Carrying(R) /\ Bounds(R, head, base)
  BY <1>1, CoveringWhole DEF Editing
<1>3. R.mk.head = R.head
  BY <1>1, <1>2 DEF Carrying, Assembling
<1>4. R.mk.gen = [claimed |-> TRUE, base |-> R.base, head |-> R.head,
                  producer |-> R.producer, recs |-> R.recs]
  BY <1>1 DEF Earning, Recorded
<1>5. Shows(R.mk.findings, R.mk.gen.recs)
  BY <1>2, <1>4 DEF Sound
<1> HIDE DEF R, S
<1>6. CASE FinishCovered(r)
  <2>1. /\ SameClaim(R, S) /\ R.step = "plan" /\ S.step = "post" /\ S.out = S.mk
        /\ S.recs = R.recs /\ S.mk.gen = R.mk.gen /\ S.mk.head = R.mk.head
        /\ S.mk.findings = StampNotPosted(R.found, R.pass) /\ reviews' = reviews
    BY <1>6, FinishCoveredAfter DEF FinishCovered, pr, R, S
  <2>2. Shows(S.mk.findings, R.recs) /\ JudgedAt(S.mk.findings, R.head)
    <3>1. Shows(R.found, R.recs) /\ JudgedAt(R.found, R.head)
      BY <1>2, <2>1 DEF Carrying, Assembling
    <3> QED BY <1>1, <2>1, <3>1, StampKeeps
  <2>3. Behind(S.mk, S.head, S.base) /\ Sound(S.mk, S.head, S.base)
    BY <1>2, <1>4, <2>1, <2>2 DEF Behind, Sound, SameClaim
  <2>4. Writing(S)
    BY <2>1 DEF Writing, HoldsClaim, Editing
  <2>5. Carrying(S)
    BY <1>2, <1>3, <2>1, <2>2, <2>3, <2>4 DEF Carrying, SameClaim, Assembling
  <2> QED BY <1>1, <1>2, <2>1, <2>4, <2>5, WritingWhole DEF SameClaim, R, S
<1>7. CASE Post(r)
  <2>1. /\ SameClaim(R, S) /\ R.step = "post" /\ S.step = "post" /\ S.out = R.out
        /\ S.mk = R.mk /\ reviews' = reviews
    BY <1>7, PostAfter DEF Post, R, S
  <2>2. Writing(S)
    BY <2>1 DEF Writing, HoldsClaim, Editing
  <2>3. Carrying(S)
    BY <1>2, <1>3, <2>1, <2>2 DEF Carrying, SameClaim, Assembling
  <2> QED BY <1>1, <1>2, <2>1, <2>2, <2>3, WritingWhole DEF SameClaim, R, S
<1>8. CASE Summarize(r)
  <2>1. PICK m \in {R.mk, [R.mk EXCEPT !.verdict = "issues-remain"],
                    [R.mk EXCEPT !.verdict = "blocked", !.reason = "debt"]} :
          Edit(r, m) /\ Marks(r, "complete", m)
    BY <1>8 DEF Summarize, Marks, R
  <2>2. m.head = R.mk.head /\ m.gen = R.mk.gen /\ m.findings = R.mk.findings
    BY <1>1, <2>1 DEF ReviewMarker
  <2>3. /\ SameClaim(R, S) /\ S.step = "complete" /\ S.out = m /\ S.mk = m
    BY <2>1, MarkerAfter DEF R, S
  <2>4. Written(m, head, base)
    BY <1>2, <1>3, <1>5, <2>2, Writes DEF Behind
  <2>5. Writing(S)
    BY <2>3 DEF Writing, HoldsClaim, Editing
  <2>6. Carrying(S)
    <3>1. Behind(m, S.head, S.base) /\ Sound(m, S.head, S.base) /\ JudgedAt(m.findings, S.head)
      BY <1>2, <2>2, <2>3 DEF Behind, Sound, SameClaim
    <3> QED BY <1>2, <1>3, <2>2, <2>3, <2>5, <3>1 DEF Carrying, SameClaim, Assembling
  <2> QED BY <1>1, <1>2, <1>3, <2>1, <2>2, <2>3, <2>4, <2>5, <2>6, WritingWhole
          DEF SameClaim, R, S
<1>9. CASE Complete(r)
  <2> DEFINE m == [R.mk EXCEPT !.state = "complete"]
  <2>1. Edit(r, m) /\ Marks(r, "label", m)
    BY <1>9 DEF Complete, Marks, R
  <2>2. /\ m.state = "complete" /\ m.head = R.mk.head /\ m.gen = R.mk.gen
        /\ m.findings = R.mk.findings
    BY <1>1 DEF ReviewMarker
  <2> HIDE DEF m
  <2>3. Written(m, head, base)
    BY <1>2, <1>3, <1>5, <2>2, Writes DEF Behind
  <2>4. Rests(m, head, base)
    BY <1>2, <1>3, <1>5, <2>2 DEF Rests, Sound
  <2>5. S.step = "label" /\ SameClaim(R, S)
    BY <2>1, MarkerAfter DEF R, S
  <2>6. Bounds(S, head, base)
    BY <1>2, <2>5 DEF Bounds, SameClaim
  <2> QED BY <1>1, <1>2, <1>3, <2>1, <2>2, <2>3, <2>4, <2>5, <2>6, SettleWhole DEF R, S
<1> QED
  BY <1>6, <1>7, <1>8, <1>9

(* No call fails and no process dies. *)
LEMMA NothingFails ==
    ASSUME TypeInv, MaxFaults = 0, NEW r \in Runs
    PROVE  /\ ~Faulty /\ ~Trouble(r)
           /\ ReportFatal(r, 0) => Edit(r, Reported(run[r].out)) /\ Finish(r)
<1>1. used.faults \in Nat
  BY DEF TypeInv, TypeOK
<1>2. ~Faulty
  BY <1>1 DEF Faulty
<1>3. \A cost \in {0, 1} : ReportFatal(r, cost) =>
        cost = 0 /\ Edit(r, Reported(run[r].out)) /\ Finish(r)
  <2> SUFFICES ASSUME NEW cost \in {0, 1}, ReportFatal(r, cost)
               PROVE  cost = 0 /\ Edit(r, Reported(run[r].out)) /\ Finish(r)
    OBVIOUS
  <2>1. PICK edited \in BOOLEAN, added \in BOOLEAN :
          /\ IF edited THEN Edit(r, Reported(run[r].out)) ELSE UNCHANGED reviews
          /\ used' = [used EXCEPT !.faults = @ + cost + IF edited /\ added THEN 0 ELSE 1]
          /\ used'.faults <= MaxFaults
    BY DEF ReportFatal
  <2>2. used'.faults = used.faults + cost + IF edited /\ added THEN 0 ELSE 1
    BY <2>1 DEF TypeInv, TypeOK
  <2>3. cost = 0 /\ edited
    BY <1>1, <2>1, <2>2
  <2> QED BY <2>1, <2>3 DEF ReportFatal
<1> QED
  BY <1>2, <1>3 DEF Trouble, Fail, Crash

(* A pair that moved does not come back, so a pass that reports the move   *)
(* leaves nothing the present revision would start from.                   *)
LEMMA StaleWhole ==
    ASSUME TypeInv, MaxFaults = 0, NEW r \in Runs, Numbering(run[r], reviews),
           Whole(run[r], reviews, head, base), Stale(r)
    PROVE  Whole(run'[r], reviews', head', base')
<1> DEFINE R == run[r]
           m == Reported(R.out)
<1>1. /\ R.out \in ReviewMarker /\ R.step \in {"initial", "record"} /\ Edit(r, m) /\ Finish(r)
      /\ head' = head /\ base' = base /\ (head # R.head \/ base # R.base)
  BY RunIsRecord, RunFields, NothingFails DEF Stale, ReportFatal, Moved
<1>2. /\ Writing(R) /\ Newest(reviews, R.at, R.pass) /\ R.step # "idle"
      /\ R.out.head = R.head /\ R.out.findings \in {{}, R.mk.findings}
      /\ Behind(R.out, R.head, R.base) /\ JudgedAt(R.mk.findings, R.head) /\ Bounds(R, head, base)
  BY <1>1, CoveringWhole DEF Editing
<1>3. /\ m.state = "complete" /\ m.verdict = "blocked" /\ m.reason = "error"
      /\ m.head = R.out.head /\ m.gen = R.out.gen /\ m.findings = R.out.findings
  <2> HIDE DEF R
  <2> QED BY <1>1 DEF Reported, ReviewMarker
<1> HIDE DEF m
<1>4. Written(m, head, base)
  BY <1>2, <1>3, Writes DEF Behind
<1>5. Rests(m, head, base)
  <2>1. JudgedAt(m.findings, m.head)
    BY <1>2, <1>3 DEF JudgedAt
  <2>2. /\ R.head <= head /\ R.base <= base /\ R.head \in Nat /\ R.base \in Nat
        /\ head \in Nat /\ base \in Nat
    BY <1>2 DEF Bounds, TypeInv, TypeOK, Heads, Bases
  <2>3. Sound(m, head, base)
    <3> SUFFICES ASSUME m.gen.claimed, m.gen.head = head, m.gen.base = base PROVE FALSE
      BY DEF Sound
    <3>1. R.out.gen.head <= R.head /\ R.out.gen.base <= R.base
      BY <1>2, <1>3 DEF Behind
    <3> HIDE DEF R
    <3> QED BY <1>1, <1>3, <2>2, <3>1
  <2> QED BY <1>3, <2>1, <2>3 DEF Rests
<1>6. run'[r].step = "idle"
  BY <1>1, FinishAfter
<1>7. Bounds(run'[r], head, base)
  BY <1>6 DEF Bounds
<1> QED
  BY <1>1, <1>2, <1>3, <1>4, <1>5, <1>6, <1>7, SettleWhole

(* The labels, and the end of a run whose record rests. *)
LEMMA EndingWhole ==
    ASSUME TypeInv, MaxFaults = 0, NEW r \in Runs, Whole(run[r], reviews, head, base),
           LabelEmptied(r) \/ LabelHalted(r) \/ Label(r) \/ Mark(r)
    PROVE  Whole(run'[r], reviews', head', base')
<1>1. /\ run[r].step \in {"emptied", "halted", "label", "mark"}
      /\ head' = head /\ base' = base
  BY DEF LabelEmptied, LabelHalted, Label, Mark, At, Finish, pr
<1>2. reviews' = reviews
  <2>1. CASE LabelEmptied(r)
    BY <2>1, NothingFails DEF LabelEmptied, ApplyPassLabels
  <2>2. CASE LabelHalted(r) \/ Mark(r)
    BY <2>2 DEF LabelHalted, Mark
  <2>3. CASE Label(r)
    BY <2>3, LabelAfter DEF pr
  <2> QED BY <2>1, <2>2, <2>3
<1>3. /\ run'[r].step \in {"idle", "mark"}
      /\ run'[r].step = "mark" => run'[r].head = run[r].head /\ run'[r].base = run[r].base
  <2>1. CASE Finish(r)
    BY <2>1, FinishAfter
  <2>2. CASE ~Finish(r)
    <3>1. Label(r)
      BY <2>2 DEF LabelEmptied, LabelHalted, Mark
    <3> QED BY <2>2, <3>1, LabelAfter DEF SameClaim
  <2> QED BY <2>1, <2>2
<1>4. Bounds(run'[r], head, base)
  BY <1>1, <1>3 DEF Whole, Bounds
<1>5. ~Writing(run[r])
  BY <1>1, AwayCarrying
<1> QED
  BY <1>1, <1>2, <1>3, <1>4, <1>5, AwayWhole

(* The branch and its base only go forward. *)
LEMMA RevisionsAdvance ==
    ASSUME TypeInv, ~ForcePush, Environment
    PROVE  head' \in Heads /\ base' \in Bases /\ head <= head' /\ base <= base'
<1>1. head \in Nat /\ base \in Nat /\ head \in Heads /\ base \in Bases
  BY DEF TypeInv, TypeOK, Heads, Bases
<1>2. head' \in {head} \cup (Heads \cap {head + 1}) /\ base' \in {base} \cup (Bases \cap {base + 1})
  BY DEF Environment, Push, MoveBase, ClaimAges, Resolve, Stop, NextHeads
<1> QED
  BY <1>1, <1>2

LEMMA EnvironmentWhole ==
    ASSUME TypeInv, ~ForcePush, NEW r \in Runs, Whole(run[r], reviews, head, base), Environment
    PROVE  Whole(run'[r], reviews', head', base')
<1> DEFINE R == run[r]
<1>1. /\ run' = run /\ DOMAIN reviews' = DOMAIN reviews
      /\ \A i \in DOMAIN reviews :
           /\ reviews'[i].state = reviews[i].state /\ reviews'[i].gen = reviews[i].gen
           /\ reviews'[i].findings = reviews[i].findings /\ reviews'[i].reason = reviews[i].reason
           /\ reviews'[i].head = reviews[i].head /\ reviews'[i].verdict = reviews[i].verdict
  BY EnvironmentComments
<1>2. /\ head' \in Heads /\ base' \in Bases /\ head <= head' /\ base <= base'
      /\ head \in Heads /\ base \in Bases
  BY RevisionsAdvance DEF TypeInv, TypeOK
<1>3. /\ AllWritten(R, reviews, head, base) /\ Ascending(reviews) /\ Later(R, reviews)
      /\ Carrying(R) /\ Bounds(R, head, base)
  BY DEF Whole
<1> HIDE DEF R
<1>4. Ran(reviews') = Ran(reviews)
  BY <1>1 DEF Ran
<1>5. Ascending(reviews') /\ Later(R, reviews')
  BY <1>1, <1>3, <1>4 DEF Ascending, Later, Ran
<1>6. AllWritten(R, reviews', head', base')
  <2> SUFFICES ASSUME NEW i \in DOMAIN reviews
               PROVE  /\ Written(reviews'[i], head', base')
                      /\ Rests(reviews'[i], head', base') \/ (Writing(R) /\ i = R.at)
    BY <1>1 DEF AllWritten
  <2>1. Written(reviews[i], head, base) /\ (Rests(reviews[i], head, base) \/ (Writing(R) /\ i = R.at))
    BY <1>3 DEF AllWritten
  <2>2. Written(reviews[i], head', base')
        /\ (Rests(reviews[i], head, base) => Rests(reviews[i], head', base'))
    BY <1>2, <2>1, WrittenLater
  <2>3. Written(reviews'[i], head', base')
    BY <1>1, <2>2 DEF Written, Behind, Published
  <2>4. Rests(reviews[i], head', base') => Rests(reviews'[i], head', base')
    BY <1>1 DEF Rests, Sound
  <2> QED BY <2>1, <2>2, <2>3, <2>4
<1>7. Bounds(R, head', base')
  <2>1. head \in Nat /\ base \in Nat /\ head' \in Nat /\ base' \in Nat
    BY <1>2 DEF Heads, Bases
  <2>2. R.step # "idle" => R.head \in Nat /\ R.base \in Nat
    BY <1>3 DEF Bounds, Heads, Bases
  <2> QED BY <1>2, <1>3, <2>1, <2>2 DEF Bounds
<1> QED
  BY <1>1, <1>3, <1>5, <1>6, <1>7 DEF Whole, R

LEMMA WorkWhole ==
    ASSUME TypeInv, Undisturbed, NEW r \in Runs, Numbered(reviews), Numbering(run[r], reviews),
           Earning(run[r], reviews), Keeping(run[r], reviews), Whole(run[r], reviews, head, base),
           Admit(r) \/ Work(r) \/ Trouble(r)
    PROVE  Whole(run'[r], reviews', head', base')
BY AdmitWhole, OpeningWhole, PackWhole, CoverageWhole, HaltWhole, PublishWhole, StaleWhole,
   EndingWhole, NothingFails DEF Undisturbed, Work

LEMMA WholeAlways ==
    ASSUME NEW r0, Runs = {r0}, Undisturbed
    PROVE  Spec => []WholeInv
<1>1. Init => WholeInv
  <2> SUFFICES ASSUME Init, NEW r \in Runs PROVE Whole(run[r], reviews, head, base)
    BY DEF WholeInv
  <2>1. run[r].step = "idle" /\ DOMAIN reviews = {} /\ Ran(reviews) = {}
    BY DEF Init, IdleRun, Ran
  <2> QED BY <2>1, AwayCarrying DEF Whole, AllWritten, Ascending, Bounds
<1>2. WholeInv /\ EarnedInv /\ NumberedInv /\ KeptInv /\ [Next]_vars => WholeInv'
  <2> SUFFICES ASSUME WholeInv, EarnedInv, NumberedInv, KeptInv, [Next]_vars, NEW r \in Runs
               PROVE  Whole(run'[r], reviews', head', base')
    BY DEF WholeInv
  <2>1. /\ TypeInv /\ r = r0 /\ Numbered(reviews) /\ Numbering(run[r], reviews)
        /\ Earning(run[r], reviews) /\ Keeping(run[r], reviews)
        /\ Whole(run[r], reviews, head, base)
    BY DEF WholeInv, EarnedInv, NumberedInv, KeptInv
  <2>2. CASE \E s \in Runs : Admit(s) \/ Work(s) \/ Trouble(s)
    BY <2>1, <2>2, WorkWhole
  <2>3. CASE Environment
    BY <2>1, <2>3, EnvironmentWhole DEF Undisturbed
  <2>4. CASE UNCHANGED vars
    BY <2>1, <2>4 DEF vars
  <2> QED BY <2>2, <2>3, <2>4 DEF Next
<1>3. Spec => []EarnedInv
  BY EarnedAlways
<1>4. Spec => []NumberedInv
  BY NumberedAlways DEF Undisturbed
<1>5. Spec => []KeptInv
  <2>1. (Init => KeptInv) /\ (KeptInv /\ [Next]_vars => KeptInv')
    BY KeptStep DEF Undisturbed
  <2> QED BY <2>1, PTL DEF Spec
<1> QED
  BY <1>1, <1>2, <1>3, <1>4, <1>5, PTL DEF Spec

(* Crash consistency without the crash (runCoverage of internal/review/    *)
(* batches.go, publish of publish.go): when one leg at a time works on the *)
(* pull request and nothing disturbs it, however many heads, passes, bounds *)
(* and resumed generations go by, a settled pass that counts as reviewed   *)
(* holds the finding behind each of its "finding" verdicts.  One fault is  *)
(* enough to lose it, which the run review_resume_loses shows.             *)
THEOREM AcceptedFindingsStay ==
    ASSUME NEW r0, Runs = {r0}, Undisturbed
    PROVE  Spec => []AcceptedFindingsKept
<1>1. Spec => []WholeInv
  BY WholeAlways
<1>2. WholeInv => AcceptedFindingsKept
  <2> SUFFICES ASSUME WholeInv, NEW i \in DOMAIN reviews
               PROVE  LET m == reviews[i]
                      IN  m.state = "complete" /\ m.verdict # "blocked" /\ m.gen.claimed =>
                            \A u \in DOMAIN m.gen.recs :
                              m.gen.recs[u] = "finding" => \E f \in m.findings : f.id = u
    BY DEF AcceptedFindingsKept
  <2>1. Written(reviews[i], head, base)
    BY DEF WholeInv, Whole, AllWritten
  <2> QED BY <2>1 DEF Written, Shows
<1> QED
  BY <1>1, <1>2, PTL

(* Under the same conditions no settled review reports, at the head it     *)
(* names, a finding that was judged at another: a new pass starts from the *)
(* earlier coverage but from none of its findings, and a stale batch of a  *)
(* moved pair is retired (markerForPass, internal/review/batches.go;        *)
(* admit, claim.go; GenerationCurrent, internal/prstate/store.go).         *)
THEOREM FindingsAreOfTheirHead ==
    ASSUME NEW r0, Runs = {r0}, Undisturbed
    PROVE  Spec => []FindingsDescribeHead
<1>1. Spec => []WholeInv
  BY WholeAlways
<1>2. WholeInv => FindingsDescribeHead
  <2> SUFFICES ASSUME WholeInv, NEW i \in DOMAIN reviews, Published(reviews[i]),
                      NEW f \in reviews[i].findings
               PROVE  f.at = reviews[i].head
    BY DEF FindingsDescribeHead
  <2>1. Written(reviews[i], head, base)
    BY DEF WholeInv, Whole, AllWritten
  <2> QED BY <2>1 DEF Written, JudgedAt
<1> QED
  BY <1>1, <1>2, PTL

(***************************************************************************)
(* The loop is never parked.  Only a run past its claim may leave a label  *)
(* that asks for a review of a head the comments call reviewed; it takes   *)
(* that label away before it ends, or finds that the head has moved on.    *)
(***************************************************************************)
Reviewed == Admission(reviews).kind = "already"

Away == {"idle", "claim", "decline"}

Asking(r) ==
    /\ At(r, "mark") => run[r].next # "awaiting-review"
    /\ run[r].step \in {"label", "mark"} => \A i \in Ran(reviews) : reviews[i].head <= run[r].head
    /\ Reviewed /\ "awaiting-review" \in labels => run[r].step \notin Away

AskingInv == \A r \in Runs : Asking(r)

(* A head past every pass is a new revision. *)
LEMMA AheadIsAdmitted ==
    ASSUME NEW cs \in Seq(ReviewMarker), head \in Nat,
           \A i \in Ran(cs) : cs[i].head \in Nat /\ cs[i].head < head
    PROVE  Admission(cs).kind # "already"
<1>1. IsNewRevision(cs, head)
  <2> SUFFICES ASSUME Ran(cs) # {} PROVE cs[Max(Ran(cs))].head # head
    BY DEF IsNewRevision
  <2>1. Max(Ran(cs)) \in Ran(cs)
    BY NewestRan
  <2> QED BY <2>1
<1>2. Admission(cs).kind \in {"resume", "stale", "new"}
  BY <1>1 DEF Admission
<1> QED
  BY <1>2

(* The heads a run compares itself with. *)
LEMMA HeadsUpTo ==
    ASSUME TypeInv, NEW R, AllWritten(R, reviews, head, base)
    PROVE  \A i \in Ran(reviews) : reviews[i].head \in Nat /\ reviews[i].head <= head
BY DEF AllWritten, Written, Ran, Heads

LEMMA ReviewedIs ==
    LET cur == CurrentReviewPass(reviews)
        i == MarkerFor(reviews, cur)
    IN  Reviewed <=>
          /\ ~IsNewRevision(reviews, head)
          /\ i # 0 => /\ reviews[i].state # "started"
                      /\ ~ReviewRedrivable(reviews[i].state, reviews[i].verdict)
BY DEF Reviewed, Admission, OpenClaim

(* What admission says of the comments depends on little of them. *)
LEMMA SameReviewed ==
    ASSUME TypeInv, DOMAIN reviews' = DOMAIN reviews, head' = head,
           \A i \in DOMAIN reviews :
             /\ reviews'[i].pass = reviews[i].pass /\ reviews'[i].state = reviews[i].state
             /\ reviews'[i].head = reviews[i].head /\ reviews'[i].verdict = reviews[i].verdict
    PROVE  Reviewed' => Reviewed
<1>1. Ran(reviews') = Ran(reviews)
  BY DEF Ran
<1> DEFINE cur == CurrentReviewPass(reviews)
           i == MarkerFor(reviews, cur)
<1>2. CurrentReviewPass(reviews') = cur
  <2>1. {reviews'[j].pass : j \in Ran(reviews')} = {reviews[j].pass : j \in Ran(reviews)}
    BY <1>1 DEF Ran
  <2> QED BY <2>1 DEF CurrentReviewPass
<1>3. MarkerFor(reviews', cur) = i
  <2>1. {j \in DOMAIN reviews' : reviews'[j].pass = cur} = {j \in DOMAIN reviews : reviews[j].pass = cur}
    OBVIOUS
  <2> QED BY <2>1 DEF MarkerFor
<1>4. IsNewRevision(reviews, head) => IsNewRevision(reviews', head')
  <2>1. Ran(reviews) # {} => Max(Ran(reviews)) \in DOMAIN reviews
    BY NewestRan DEF Ran, TypeInv, TypeOK
  <2> QED BY <1>1, <2>1 DEF IsNewRevision
<1>5. i # 0 => i \in DOMAIN reviews
  BY MarkerForType DEF TypeInv, TypeOK
<1>6. Reviewed <=>
        /\ ~IsNewRevision(reviews, head)
        /\ i # 0 => /\ reviews[i].state # "started"
                    /\ ~ReviewRedrivable(reviews[i].state, reviews[i].verdict)
  BY ReviewedIs
<1>7. Reviewed' <=>
        /\ ~IsNewRevision(reviews', head')
        /\ i # 0 => /\ reviews'[i].state # "started"
                    /\ ~ReviewRedrivable(reviews'[i].state, reviews'[i].verdict)
  BY <1>2, <1>3 DEF Reviewed, Admission, OpenClaim
<1> HIDE DEF i, cur
<1> QED
  BY <1>4, <1>5, <1>6, <1>7

(* Comments, head and labels that a step leaves alone. *)
LEMMA StillAsking ==
    ASSUME TypeInv, NEW r \in Runs, Asking(r), reviews' = reviews, head' = head, labels' = labels,
           run'[r].step \notin {"label", "mark"},
           run[r].step \in Away => ~Reviewed, run'[r].step \in Away => run[r].step \in Away
    PROVE  Asking(r)'
<1>1. Reviewed' => Reviewed
  BY SameReviewed
<1> QED
  BY <1>1 DEF Asking, At

LEMMA AdmitAsking ==
    ASSUME TypeInv, ~MayMisread, NEW r \in Runs, Asking(r), Admit(r)
    PROVE  Asking(r)'
<1>1. /\ AdmitFrom(r, reviews, resolves) /\ run[r].step = "idle"
      /\ reviews' = reviews /\ head' = head /\ labels' = labels /\ reviews \in Seq(ReviewMarker)
  BY DEF Admit, At, pr, TypeInv, TypeOK
<1>2. run'[r].step \in {"decline", "claim"}
  BY <1>1, AdmitAfter
<1>3. ~Reviewed
  BY <1>1 DEF AdmitFrom, Reviewed
<1> QED
  BY <1>1, <1>2, <1>3, StillAsking DEF Away

(* A run past its claim, and not yet at its label, may ask. *)
LEMMA BusyAsking ==
    ASSUME NEW r, run'[r].step \notin Away \cup {"label", "mark"}
    PROVE  Asking(r)'
BY DEF Asking, At

LEMMA WorkingAsking ==
    ASSUME TypeInv, NEW r \in Runs,
           \/ PostDeclined(r) \/ PostClaim(r) \/ BindScope(r) \/ SettleNothing(r) \/ Pack(r)
           \/ PublishInitial(r) \/ Judge(r) \/ RecordBatch(r) \/ EditBatch(r) \/ Bounded(r)
           \/ HaltPass(r) \/ FinishCovered(r) \/ Post(r) \/ Summarize(r)
    PROVE  Asking(r)'
<1>1. run'[r].step \in Editing \cup {"halted"}
  <2>1. CASE PostDeclined(r) \/ BindScope(r) \/ EditBatch(r) \/ Bounded(r)
    <3>1. Goto(r, "halted") \/ Goto(r, "nothing") \/ Goto(r, "pack") \/ Goto(r, "plan") \/ Goto(r, "halt")
      <4>1. BindScope(r) => Goto(r, "nothing") \/ Goto(r, "pack")
        BY DEF BindScope
      <4> QED BY <2>1, <4>1 DEF PostDeclined, EditBatch, Bounded
    <3>2. run'[r].step \in {"halted", "nothing", "pack", "plan", "halt"}
      BY <3>1, GotoAfter
    <3> QED BY <3>2 DEF Editing
  <2>2. CASE PublishInitial(r) \/ RecordBatch(r) \/ Summarize(r)
    <3>1. PICK m : Marks(r, "plan", m) \/ Marks(r, "edit", m) \/ Marks(r, "complete", m)
      BY <2>2 DEF PublishInitial, RecordBatch, Summarize, Marks
    <3> QED BY <3>1, MarkerAfter DEF Editing
  <2>3. CASE SettleNothing(r) \/ HaltPass(r)
    <3>1. PICK m : Reports(r, "emptied", m) \/ Reports(r, "halted", m)
      BY <2>3 DEF SettleNothing, HaltPass, Reports
    <3> QED BY <3>1, ReportAfter DEF Editing
  <2>4. CASE PostClaim(r) \/ Pack(r) \/ Judge(r) \/ FinishCovered(r) \/ Post(r)
    BY <2>4, PostClaimAfter, PackAfter, JudgeAfter, FinishCoveredAfter, PostAfter DEF Editing
  <2> QED BY <2>1, <2>2, <2>3, <2>4
<1> QED
  BY <1>1, BusyAsking DEF Editing, Away

LEMMA CompleteAsking ==
    ASSUME TypeInv, NEW r \in Runs, Numbering(run[r], reviews),
           Whole(run[r], reviews, head, base), Complete(r)
    PROVE  Asking(r)'
<1> DEFINE R == run[r]
           m == [R.mk EXCEPT !.state = "complete"]
<1>1. R.mk \in ReviewMarker /\ R.step = "complete" /\ Edit(r, m) /\ Marks(r, "label", m)
  BY RunIsRecord, RunFields DEF Complete, Marks, At
<1>2. /\ Writing(R) /\ Newest(reviews, R.at, R.pass) /\ R.head \in Nat /\ Carrying(R)
      /\ Later(R, reviews) /\ AllWritten(R, reviews, head, base)
  BY <1>1, CoveringWhole DEF Editing, Whole, Heads
<1>3. m.head = R.head
  <2>1. R.mk.head = R.head
    BY <1>1, <1>2 DEF Carrying
  <2> HIDE DEF R
  <2> QED BY <1>1, <2>1 DEF ReviewMarker
<1> HIDE DEF m
<1>4. run'[r].step = "label" /\ run'[r].head = R.head
  BY <1>1, MarkerAfter DEF SameClaim
<1>5. \A i \in Ran(reviews) : reviews[i].head \in Nat
  BY <1>2, HeadsUpTo
<1>6. ASSUME NEW i \in Ran(reviews') PROVE reviews'[i].head <= R.head
  <2>1. CASE i = R.at
    BY <1>1, <1>2, <1>3, <2>1 DEF Edit, Newest
  <2>2. CASE i # R.at
    <3>1. i \in Ran(reviews) /\ reviews'[i] = reviews[i]
      BY <1>1, <1>6, <2>2 DEF Edit, Ran
    <3> QED BY <1>2, <1>5, <2>2, <3>1 DEF Later
  <2> QED BY <2>1, <2>2
<1> QED
  BY <1>4, <1>6 DEF Asking, At, Away

(* A run ends over a label that asks for no review, or behind a new head. *)
LEMMA EndingAsking ==
    ASSUME TypeInv, MaxFaults = 0, MaxBase = 1, NEW r \in Runs, Asking(r),
           Whole(run[r], reviews, head, base),
           LabelEmptied(r) \/ LabelHalted(r) \/ Label(r) \/ Mark(r)
    PROVE  Asking(r)'
<1>1. \A next : next # "awaiting-review" => "awaiting-review" \notin CleanLabels(next)
  BY DEF CleanLabels, OutcomeLabels
<1>2. CASE LabelEmptied(r) \/ LabelHalted(r) \/ Mark(r)
  <2>1. PICK next : next # "awaiting-review" /\ labels' = CleanLabels(next) /\ Finish(r)
    BY <1>2, NothingFails DEF LabelEmptied, LabelHalted, Mark, ApplyPassLabels, Asking
  <2>2. run'[r].step = "idle" /\ "awaiting-review" \notin labels'
    BY <1>1, <2>1, FinishAfter
  <2> QED BY <2>2 DEF Asking, At
<1>3. CASE Label(r) /\ ~Moved(r)
  <2>1. /\ run[r].step = "label" /\ reviews' = reviews
        /\ run'[r].step = "mark" /\ run'[r].head = run[r].head
        /\ run'[r].next # "awaiting-review"
    BY <1>3, LabelAfter DEF Label, At, SameClaim, pr
  <2> QED BY <2>1 DEF Asking, At, Away
<1>4. CASE Label(r) /\ Moved(r)
  <2>1. run[r].step = "label" /\ reviews' = reviews /\ head' = head /\ Finish(r)
    BY <1>4, LabelAfter DEF Label, At, pr
  <2>2. /\ run[r].head \in Nat /\ head \in Nat /\ run[r].head <= head /\ run[r].base = base
        /\ reviews \in Seq(ReviewMarker)
    BY <2>1 DEF Whole, Bounds, TypeInv, TypeOK, Heads, Bases
  <2>3. run[r].head < head
    BY <1>4, <2>2 DEF Moved
  <2>4. \A i \in Ran(reviews) : reviews[i].head \in Nat /\ reviews[i].head < head
    BY <2>1, <2>2, <2>3, HeadsUpTo DEF Asking, Whole
  <2>5. ~Reviewed
    BY <2>2, <2>4, AheadIsAdmitted DEF Reviewed
  <2>6. ~Reviewed'
    BY <2>1, <2>5, SameReviewed
  <2>7. run'[r].step = "idle"
    BY <2>1, FinishAfter
  <2> QED BY <2>6, <2>7 DEF Asking, At
<1> QED
  BY <1>2, <1>3, <1>4

LEMMA StaleAsking ==
    ASSUME TypeInv, MaxFaults = 0, MaxBase = 1, NEW r \in Runs, Numbering(run[r], reviews),
           Whole(run[r], reviews, head, base), Stale(r)
    PROVE  Asking(r)'
<1> DEFINE R == run[r]
           m == Reported(R.out)
<1>1. /\ R.out \in ReviewMarker /\ R.step \in {"initial", "record"} /\ Edit(r, m) /\ Finish(r)
      /\ head' = head /\ (head # R.head \/ base # R.base)
  BY RunIsRecord, RunFields, NothingFails DEF Stale, ReportFatal, Moved
<1>2. /\ Writing(R) /\ Newest(reviews, R.at, R.pass) /\ R.out.head = R.head
      /\ Later(R, reviews) /\ AllWritten(R, reviews, head, base) /\ Bounds(R, head, base)
  BY <1>1, CoveringWhole DEF Editing, Whole
<1>3. R.head \in Nat /\ head \in Nat /\ R.head < head
  BY <1>1, <1>2 DEF Bounds, TypeInv, TypeOK, Heads, Bases
<1>4. m.head = R.head
  <2> HIDE DEF R
  <2> QED BY <1>1, <1>2 DEF Reported, ReviewMarker
<1> HIDE DEF m
<1>5. \A i \in Ran(reviews) : reviews[i].head \in Nat
  BY <1>2, HeadsUpTo
<1>6. ASSUME NEW i \in Ran(reviews') PROVE reviews'[i].head \in Nat /\ reviews'[i].head < head
  <2>1. CASE i = R.at
    BY <1>1, <1>2, <1>3, <1>4, <2>1 DEF Edit, Newest
  <2>2. CASE i # R.at
    <3>1. i \in Ran(reviews) /\ reviews'[i] = reviews[i]
      BY <1>1, <1>6, <2>2 DEF Edit, Ran
    <3>2. reviews[i].head < R.head /\ reviews[i].head \in Nat
      BY <1>2, <1>5, <2>2, <3>1 DEF Later
    <3> QED BY <1>3, <3>1, <3>2
  <2> QED BY <2>1, <2>2
<1>7. TypeInv'
  <2>1. Next
    BY DEF Next, Work
  <2> QED BY <2>1, StepType
<1>8. ~Reviewed'
  <2>1. reviews' \in Seq(ReviewMarker)
    BY <1>7 DEF TypeInv, TypeOK
  <2>2. Admission(reviews').kind # "already"
    BY <1>3, <1>6, <2>1, AheadIsAdmitted
  <2>3. Admission(reviews)' = Admission(reviews')
    BY <1>1 DEF Admission
  <2> QED BY <2>2, <2>3 DEF Reviewed
<1>9. run'[r].step = "idle"
  BY <1>1, FinishAfter
<1> QED
  BY <1>8, <1>9 DEF Asking, At

(* What the rest of the world does: it moves the head past every pass, or  *)
(* asks for nothing.                                                       *)
LEMMA EnvironmentAsking ==
    ASSUME TypeInv, ~ForcePush, NEW r \in Runs, Asking(r),
           Whole(run[r], reviews, head, base), Environment
    PROVE  Asking(r)'
<1>1. /\ run' = run /\ DOMAIN reviews' = DOMAIN reviews
      /\ \A i \in DOMAIN reviews :
           /\ reviews'[i].state = reviews[i].state /\ reviews'[i].pass = reviews[i].pass
           /\ reviews'[i].head = reviews[i].head /\ reviews'[i].verdict = reviews[i].verdict
  BY EnvironmentComments
<1>2. Ran(reviews') = Ran(reviews)
  BY <1>1 DEF Ran
<1>3. /\ At(r, "mark")' => run'[r].next # "awaiting-review"
      /\ run'[r].step \in {"label", "mark"} =>
           \A i \in Ran(reviews') : reviews'[i].head <= run'[r].head
  <2>1. \A i \in Ran(reviews) : i \in DOMAIN reviews
    BY DEF Ran
  <2> QED BY <1>1, <1>2, <2>1 DEF Asking, At
<1>4. head \in Nat /\ \A i \in Ran(reviews) : reviews[i].head \in Nat /\ reviews[i].head <= head
  BY HeadsUpTo DEF Whole, TypeInv, TypeOK, Heads
<1>5. CASE head' = head /\ ("awaiting-review" \in labels' => "awaiting-review" \in labels)
  <2>1. Reviewed' => Reviewed
    BY <1>1, <1>5, SameReviewed
  <2> QED BY <1>1, <1>3, <1>5, <2>1 DEF Asking
<1>6. CASE head' = head + 1 /\ reviews' = reviews
  <2>1. ~Reviewed'
    <3>1. reviews' \in Seq(ReviewMarker)
      BY <1>6 DEF TypeInv, TypeOK
    <3>2. \A i \in Ran(reviews') : reviews'[i].head \in Nat /\ reviews'[i].head < head'
      BY <1>4, <1>6
    <3>3. ~(Ran(reviews') # {} /\ reviews'[Max(Ran(reviews'))].head = head')
      BY <3>1, <3>2, NewestRan
    <3>4. IsNewRevision(reviews', head')
      BY <3>3 DEF IsNewRevision
    <3> QED BY <3>4 DEF Reviewed, Admission
  <2> QED BY <1>3, <2>1 DEF Asking
<1>7. CASE labels' = CleanLabels("halted")
  <2>1. "awaiting-review" \notin labels'
    BY <1>7 DEF CleanLabels, OutcomeLabels
  <2> QED BY <1>3, <2>1 DEF Asking
<1>8. CASE Push \/ Resolve
  <2>1. reviews' = reviews /\ (head' \in NextHeads \/ labels' = CleanLabels("halted"))
    BY <1>8 DEF Push, Resolve
  <2>2. head' \in NextHeads => head' = head + 1
    BY DEF NextHeads
  <2> QED BY <1>6, <1>7, <2>1, <2>2
<1>9. CASE MoveBase \/ ClaimAges \/ Stop
  <2>1. head' = head /\ ("awaiting-review" \in labels' => "awaiting-review" \in labels)
    BY <1>9 DEF MoveBase, ClaimAges, Stop
  <2> QED BY <1>5, <2>1
<1> QED
  BY <1>8, <1>9 DEF Environment

LEMMA WorkAsking ==
    ASSUME TypeInv, Undisturbed, MaxBase = 1, NEW r \in Runs, Asking(r),
           Numbering(run[r], reviews), Whole(run[r], reviews, head, base),
           Admit(r) \/ Work(r) \/ Trouble(r)
    PROVE  Asking(r)'
BY AdmitAsking, WorkingAsking, CompleteAsking, EndingAsking, StaleAsking, NothingFails
   DEF Undisturbed, Work

(* A pull request at rest is never parked (admit of internal/review/       *)
(* claim.go, publish of publish.go): when one leg at a time works on it,   *)
(* no call fails and the branch and its base only ever gain commits on the *)
(* head, a head whose review would be refused as already done carries no   *)
(* label that asks for one.  A base that moves under a finished pass does  *)
(* park it: the leg leaves the label alone, and admission looks at the     *)
(* head only, which is why the base is held still here.                    *)
THEOREM LoopIsNeverParked ==
    ASSUME NEW r0, Runs = {r0}, Undisturbed, MaxBase = 1
    PROVE  Spec => []NeverParked
<1>1. Init => AskingInv
  <2> SUFFICES ASSUME Init, NEW r \in Runs PROVE Asking(r)
    BY DEF AskingInv
  <2>1. run[r].step = "idle" /\ Ran(reviews) = {}
    BY DEF Init, IdleRun, Ran
  <2>2. ~Reviewed
    BY <2>1 DEF Reviewed, Admission, IsNewRevision
  <2> QED BY <2>1, <2>2 DEF Asking, At
<1>2. AskingInv /\ WholeInv /\ NumberedInv /\ TypeInv /\ [Next]_vars => AskingInv'
  <2> SUFFICES ASSUME AskingInv, WholeInv, NumberedInv, TypeInv, [Next]_vars, NEW r \in Runs
               PROVE  Asking(r)'
    BY DEF AskingInv
  <2>1. /\ r = r0 /\ Asking(r) /\ Numbering(run[r], reviews)
        /\ Whole(run[r], reviews, head, base)
    BY DEF AskingInv, WholeInv, NumberedInv
  <2>2. CASE \E s \in Runs : Admit(s) \/ Work(s) \/ Trouble(s)
    BY <2>1, <2>2, WorkAsking
  <2>3. CASE Environment
    BY <2>1, <2>3, EnvironmentAsking DEF Undisturbed
  <2>4. CASE UNCHANGED vars
    <3>1. Reviewed' = Reviewed
      BY <2>4 DEF vars, Reviewed, Admission
    <3> QED BY <2>1, <2>4, <3>1 DEF vars, Asking, At
  <2> QED BY <2>2, <2>3, <2>4 DEF Next
<1>3. AskingInv => NeverParked
  <2> SUFFICES ASSUME AskingInv, AllIdle, Reviewed PROVE "awaiting-review" \notin labels
    BY DEF NeverParked, Reviewed
  <2> QED BY DEF AskingInv, Asking, AllIdle, At, Away
<1>4. Spec => []WholeInv
  BY WholeAlways
<1>5. Spec => []NumberedInv
  BY NumberedAlways DEF Undisturbed
<1>6. NumberedInv => TypeInv
  BY DEF NumberedInv
<1> QED
  BY <1>1, <1>2, <1>3, <1>4, <1>5, <1>6, PTL DEF Spec

(***************************************************************************)
(* Without caps no pass is refused, so the newest comment of a pass is the *)
(* one its runs wrote, and admission sees how far that pass came.          *)
(***************************************************************************)
Uncapped == MaxPasses = 0 /\ MaxPRs = 0 /\ MaxFiles = 0

Undeclined(R, cs) ==
    /\ \A i \in DOMAIN cs : cs[i].state # "declined"
    /\ R.step # "decline" /\ R.mk.state # "declined"

UndeclinedInv == \A r \in Runs : Undeclined(run[r], reviews)

(* The marker of a pass is in the state of its newest comment. *)
LEMMA MarkerForPassState ==
    ASSUME NEW markers \in Seq(ReviewMarker), NEW pass \in Nat
    PROVE  LET m == MarkerForPass(markers, pass)
           IN  m.state = "blank" \/ \E j \in DOMAIN markers : m.state = markers[j].state
<1> DEFINE i == MarkerFor(markers, pass)
           own == IF i = 0 THEN BlankMarker(pass) ELSE markers[i]
           seed == LatestCoverageCheckpoint(markers, pass)
<1>1. own \in ReviewMarker
  BY MarkerForType, BlankMarkerType
<1>2. own.state = "blank" \/ \E j \in DOMAIN markers : own.state = markers[j].state
  <2>1. BlankMarker(pass).state = "blank"
    BY DEF BlankMarker
  <2> QED BY <2>1, MarkerForType
<1>3. MarkerForPass(markers, pass) = IF own.gen.claimed THEN own ELSE [own EXCEPT !.gen = seed]
  BY DEF MarkerForPass
<1> HIDE DEF own, seed
<1>4. [own EXCEPT !.gen = seed].state = own.state
  BY <1>1 DEF ReviewMarker
<1> QED
  BY <1>2, <1>3, <1>4

(* With every cap at zero the pass is admitted whoever asks. *)
LEMMA NothingIsDeclined ==
    ASSUME ReviewLegAssumption, Uncapped, NEW pass \in Nat, NEW capped, NEW trigger,
           NEW others \in 0..MaxPRs
    PROVE  Decision(pass, capped, trigger, others) = "continue"
BY DEF Decision, ShouldContinue, Uncapped

LEMMA AdmitUndeclined ==
    ASSUME TypeInv, ~MayMisread, Uncapped, NEW r \in Runs, Undeclined(run[r], reviews), Admit(r)
    PROVE  Undeclined(run'[r], reviews')
<1>1. AdmitFrom(r, reviews, resolves) /\ reviews' = reviews /\ reviews \in Seq(ReviewMarker)
  BY DEF Admit, pr, TypeInv, TypeOK
<1>2. run'[r].mk = MarkerForPass(reviews, Admission(reviews).pass) /\ Admission(reviews).pass \in Nat
  BY <1>1, AdmitAfter
<1>3. run'[r].mk.state # "declined"
  BY <1>1, <1>2, MarkerForPassState DEF Undeclined
<1>4. run'[r].step # "decline"
  <2>1. PICK trigger \in {"automatic", "human"}, continuation \in BOOLEAN, others \in 0..MaxPRs :
          run'[r].step = IF Decision(Admission(reviews).pass, trigger = "automatic" \/ continuation,
                                     trigger, others) # "continue"
                         THEN "decline" ELSE "claim"
    BY <1>1 DEF AdmitFrom, TypeInv, TypeOK, IdleRun
  <2>2. Decision(Admission(reviews).pass, trigger = "automatic" \/ continuation, trigger, others)
        = "continue"
    BY <1>2, NothingIsDeclined, ReviewLegAssumption
  <2> QED BY <2>1, <2>2
<1> QED
  BY <1>1, <1>3, <1>4 DEF Undeclined

(* A run that writes its claim comment writes no refusal there. *)
LEMMA EditUndeclined ==
    ASSUME NEW r, NEW m, Edit(r, m), m.state # "declined",
           \A i \in DOMAIN reviews : reviews[i].state # "declined"
    PROVE  \A i \in DOMAIN reviews' : reviews'[i].state # "declined"
BY DEF Edit

LEMMA QuietUndeclined ==
    ASSUME TypeInv, NEW r \in Runs, Undeclined(run[r], reviews),
           \/ BindScope(r) \/ Pack(r) \/ PublishInitial(r) \/ Judge(r) \/ RecordBatch(r)
           \/ Bounded(r) \/ FinishCovered(r) \/ Post(r)
    PROVE  Undeclined(run'[r], reviews')
<1>1. reviews' = reviews
  BY DEF BindScope, Pack, PublishInitial, Judge, RecordBatch, Bounded, FinishCovered, Post, pr
<1>2. run'[r].step # "decline" /\ run'[r].mk.state = run[r].mk.state
  <2>1. CASE BindScope(r) \/ Bounded(r)
    <3>1. Goto(r, "nothing") \/ Goto(r, "pack") \/ Goto(r, "halt")
      <4>1. BindScope(r) => Goto(r, "nothing") \/ Goto(r, "pack")
        BY DEF BindScope
      <4> QED BY <2>1, <4>1 DEF Bounded
    <3>2. run'[r].step \in {"nothing", "pack", "halt"} /\ run'[r].mk = run[r].mk
      BY <3>1, GotoAfter
    <3> QED BY <3>2
  <2>2. CASE PublishInitial(r) \/ RecordBatch(r)
    <3>1. run[r].mk \in ReviewMarker
      BY RunIsRecord, RunFields
    <3>2. PICK m : /\ Marks(r, "plan", m) \/ Marks(r, "edit", m)
                   /\ m.state = run[r].mk.state
      <4>1. CASE PublishInitial(r)
        <5> DEFINE m == [run[r].mk EXCEPT !.gen = GenerationOf(r)]
        <5>1. Marks(r, "plan", m)
          BY <4>1 DEF PublishInitial, Marks
        <5>2. m.state = run[r].mk.state
          BY <3>1 DEF ReviewMarker
        <5> QED BY <5>1, <5>2
      <4>2. CASE RecordBatch(r)
        <5> DEFINE gen == GenerationOf(r)
                   findings == IF run[r].found = {} THEN run[r].mk.findings ELSE run[r].found
                   m == [run[r].mk EXCEPT !.gen = gen, !.findings = findings]
        <5>1. Marks(r, "edit", m)
          BY <4>2 DEF RecordBatch, Marks
        <5>2. m.state = run[r].mk.state
          <6> HIDE DEF gen, findings
          <6> QED BY <3>1 DEF ReviewMarker
        <5> QED BY <5>1, <5>2
      <4> QED BY <2>2, <4>1, <4>2
    <3> QED BY <3>2, MarkerAfter
  <2>3. CASE Pack(r) \/ Judge(r) \/ FinishCovered(r) \/ Post(r)
    BY <2>3, PackAfter, JudgeAfter, FinishCoveredAfter, PostAfter
  <2> QED BY <2>1, <2>2, <2>3
<1> QED
  BY <1>1, <1>2 DEF Undeclined

LEMMA WritingUndeclined ==
    ASSUME TypeInv, NEW r \in Runs, Undeclined(run[r], reviews), Carrying(run[r]),
           \/ PostClaim(r) \/ SettleNothing(r) \/ EditBatch(r) \/ HaltPass(r)
           \/ Summarize(r) \/ Complete(r)
    PROVE  Undeclined(run'[r], reviews')
<1> DEFINE R == run[r]
<1>1. R.mk \in ReviewMarker /\ R.out \in ReviewMarker
  BY RunIsRecord, RunFields
<1>2. CASE PostClaim(r)
  <2>1. R.out.state # "declined"
    <3>1. R.step = "claim"
      BY <1>2 DEF PostClaim, At
    <3> QED BY <3>1 DEF Carrying
  <2>2. \A i \in DOMAIN reviews' : reviews'[i].state # "declined"
    <3>1. reviews' = Append(reviews, R.out) \/ Edit(r, R.out) \/ reviews' = reviews
      BY <1>2 DEF PostClaim
    <3>2. ASSUME reviews' = Append(reviews, R.out), NEW i \in DOMAIN reviews'
          PROVE  reviews'[i].state # "declined"
      <4>1. reviews \in Seq(ReviewMarker)
        BY DEF TypeInv, TypeOK
      <4>2. (i \in DOMAIN reviews /\ reviews'[i] = reviews[i]) \/ reviews'[i] = R.out
        <5> HIDE DEF R
        <5> QED BY <3>2, <4>1, <1>1
      <4> QED BY <2>1, <4>2 DEF Undeclined
    <3> QED BY <2>1, <3>1, <3>2, EditUndeclined DEF Undeclined
  <2>3. run'[r].step = "scope" /\ run'[r].mk = R.mk
    BY <1>2, PostClaimAfter
  <2> QED BY <2>2, <2>3 DEF Undeclined
<1>3. CASE EditBatch(r)
  <2> DEFINE m == [R.mk EXCEPT !.state = "started"]
  <2>1. Edit(r, m) /\ Goto(r, "plan")
    BY <1>3 DEF EditBatch
  <2>2. m.state = "started"
    BY <1>1 DEF ReviewMarker
  <2> HIDE DEF m
  <2>3. run'[r].step = "plan" /\ run'[r].mk = R.mk
    BY <2>1, GotoAfter
  <2> QED BY <2>1, <2>2, <2>3, EditUndeclined DEF Undeclined
<1>4. CASE SettleNothing(r)
  <2> DEFINE late == IF R.late THEN R.mk ELSE R.out
             m == [late EXCEPT !.state = "complete", !.verdict = "blocked", !.reason = "nothing"]
  <2>1. Edit(r, m) /\ Reports(r, "emptied", m)
    BY <1>4 DEF SettleNothing, Reports
  <2>2. m.state = "complete"
    <3>1. late \in ReviewMarker
      BY <1>1
    <3> HIDE DEF late
    <3> QED BY <3>1 DEF ReviewMarker
  <2> HIDE DEF m
  <2>3. run'[r].step = "emptied" /\ run'[r].mk = R.mk
    BY <2>1, ReportAfter
  <2> QED BY <2>1, <2>2, <2>3, EditUndeclined DEF Undeclined
<1>5. CASE HaltPass(r)
  <2> DEFINE findings == IF R.out.findings = {} THEN R.mk.findings ELSE R.out.findings
             m == [R.mk EXCEPT !.state = "incomplete", !.stop = TRUE, !.head = R.out.head,
                               !.old = R.out.old, !.findings = findings]
  <2>1. Edit(r, m) /\ Reports(r, "halted", m)
    BY <1>5 DEF HaltPass, Reports
  <2>2. m.state = "incomplete"
    <3> HIDE DEF findings
    <3> QED BY <1>1 DEF ReviewMarker
  <2> HIDE DEF m
  <2>3. run'[r].step = "halted" /\ run'[r].mk = R.mk
    BY <2>1, ReportAfter
  <2> QED BY <2>1, <2>2, <2>3, EditUndeclined DEF Undeclined
<1>6. CASE Summarize(r)
  <2>1. PICK m : /\ Edit(r, m) /\ Marks(r, "complete", m)
                 /\ m \in {R.mk, [R.mk EXCEPT !.verdict = "issues-remain"],
                           [R.mk EXCEPT !.verdict = "blocked", !.reason = "debt"]}
    BY <1>6 DEF Summarize, Marks
  <2>2. m.state = R.mk.state
    BY <1>1, <2>1 DEF ReviewMarker
  <2>3. run'[r].step = "complete" /\ run'[r].mk = m
    BY <2>1, MarkerAfter
  <2> QED BY <2>1, <2>2, <2>3, EditUndeclined DEF Undeclined
<1>7. CASE Complete(r)
  <2> DEFINE m == [R.mk EXCEPT !.state = "complete"]
  <2>1. Edit(r, m) /\ Marks(r, "label", m)
    BY <1>7 DEF Complete, Marks
  <2>2. m.state = "complete"
    BY <1>1 DEF ReviewMarker
  <2> HIDE DEF m
  <2>3. run'[r].step = "label" /\ run'[r].mk = m
    BY <2>1, MarkerAfter
  <2> QED BY <2>1, <2>2, <2>3, EditUndeclined DEF Undeclined
<1> QED
  BY <1>2, <1>3, <1>4, <1>5, <1>6, <1>7

LEMMA EndingUndeclined ==
    ASSUME TypeInv, MaxFaults = 0, NEW r \in Runs, Undeclined(run[r], reviews),
           LabelEmptied(r) \/ LabelHalted(r) \/ Label(r) \/ Mark(r) \/ Stale(r)
    PROVE  Undeclined(run'[r], reviews')
<1> DEFINE R == run[r]
           m == Reported(R.out)
<1>1. R.out \in ReviewMarker /\ R \in RunRecord
  BY RunIsRecord, RunFields
<1>2. reviews' = reviews \/ Edit(r, m)
  BY NothingFails DEF LabelEmptied, LabelHalted, Label, Mark, Stale, ApplyPassLabels, pr, Finish
<1>3. m.state = "complete"
  <2> HIDE DEF R
  <2> QED BY <1>1 DEF Reported, ReviewMarker
<1> HIDE DEF m
<1>4. \A i \in DOMAIN reviews' : reviews'[i].state # "declined"
  BY <1>2, <1>3, EditUndeclined DEF Undeclined
<1>5. IdleRun.step = "idle" /\ IdleRun.mk.state = "blank"
  BY DEF IdleRun, BlankMarker
<1>6. CASE Finish(r)
  BY <1>4, <1>5, <1>6, FinishAfter DEF Undeclined
<1>7. CASE ~Finish(r)
  <2>1. Label(r) /\ ~Moved(r)
    BY <1>7, NothingFails DEF LabelEmptied, LabelHalted, Label, Mark, Stale
  <2>2. run'[r].step = "mark" /\ run'[r].mk = run[r].mk
    <3>1. PICK next : run' = [run EXCEPT ![r] = [run[r] EXCEPT !.step = "mark", !.next = next]]
      BY <2>1 DEF Label
    <3>2. run'[r] = [run[r] EXCEPT !.step = "mark", !.next = next]
      BY <3>1, RunAfter
    <3> QED BY <1>1, <3>2 DEF RunRecord
  <2> QED BY <1>4, <2>2 DEF Undeclined
<1> QED
  BY <1>6, <1>7

LEMMA WorkUndeclined ==
    ASSUME TypeInv, Undisturbed, Uncapped, NEW r \in Runs, Undeclined(run[r], reviews),
           Whole(run[r], reviews, head, base), Admit(r) \/ Work(r) \/ Trouble(r)
    PROVE  Undeclined(run'[r], reviews')
<1>1. ~PostDeclined(r)
  BY DEF PostDeclined, At, Undeclined
<1> QED
  BY <1>1, AdmitUndeclined, QuietUndeclined, WritingUndeclined, EndingUndeclined, NothingFails
     DEF Undisturbed, Work, Whole

LEMMA EnvironmentUndeclined ==
    ASSUME TypeInv, NEW r \in Runs, Undeclined(run[r], reviews), Environment
    PROVE  Undeclined(run'[r], reviews')
BY EnvironmentComments DEF Undeclined

(* At rest, a newest pass that did not complete halted incomplete, and the *)
(* newest comment of its number is its own: admission drives it again or,  *)
(* when the head has moved, opens the next pass.                           *)
LEMMA HaltedIsDrivenAgain ==
    ASSUME TypeInv, NEW r \in Runs, At(r, "idle"), Numbered(reviews),
           Whole(run[r], reviews, head, base), Undeclined(run[r], reviews),
           Ran(reviews) # {}, reviews[Max(Ran(reviews))].state # "complete"
    PROVE  ~Reviewed
<1> DEFINE cur == CurrentReviewPass(reviews)
           i == MarkerFor(reviews, cur)
           n == Max(Ran(reviews))
<1>1. reviews \in Seq(ReviewMarker)
  BY DEF TypeInv, TypeOK
<1>2. n \in Ran(reviews) /\ n \in Nat /\ \A j \in Ran(reviews) : j \in Nat /\ j <= n
  BY <1>1, NewestRan
<1>3. Ran(reviews) = DOMAIN reviews
  BY DEF Undeclined, Ran
<1>4. reviews[n].pass = cur
  <2>1. cur = Cardinality(Ran(reviews)) /\ reviews[n].pass = Cardinality({j \in Ran(reviews) : j <= n})
    BY <1>1, <1>2, CurrentIsCount DEF Numbered
  <2>2. {j \in Ran(reviews) : j <= n} = Ran(reviews)
    BY <1>2
  <2> QED BY <2>1, <2>2
<1>5. i = n /\ i # 0
  <2>1. /\ i \in Nat /\ (i # 0 => i \in DOMAIN reviews)
        /\ \A j \in DOMAIN reviews : reviews[j].pass = cur => i # 0 /\ j <= i
    BY <1>1, MarkerForNewest
  <2>2. n <= i /\ i # 0 /\ i \in DOMAIN reviews
    BY <1>2, <1>3, <1>4, <2>1
  <2> HIDE DEF i, n
  <2> QED BY <1>2, <1>3, <2>1, <2>2
<1>6. reviews[n].state = "incomplete"
  <2>1. ~Writing(run[r])
    BY DEF At, Writing, HoldsClaim, Editing
  <2>2. Rests(reviews[n], head, base)
    BY <1>2, <1>3, <2>1 DEF Whole, AllWritten
  <2> QED BY <1>2, <1>3, <2>2 DEF Rests, Undeclined
<1>7. Reviewed => (i # 0 => ~ReviewRedrivable(reviews[i].state, reviews[i].verdict))
  BY ReviewedIs
<1> HIDE DEF i, n, cur
<1> QED
  BY <1>5, <1>6, <1>7 DEF ReviewRedrivable

(* A pass that no run is working on and that never settled can be taken up *)
(* again (admit, internal/review/claim.go): when one leg at a time works   *)
(* on the pull request, no call fails, the branch is never put back and    *)
(* policy caps nothing, a newest pass that did not complete is never       *)
(* refused as already reviewed.  With caps, a refusal posted under the     *)
(* number of a halted pass hides it.                                       *)
THEOREM UnsettledIsTakenUp ==
    ASSUME NEW r0, Runs = {r0}, Undisturbed, Uncapped
    PROVE  Spec => []UnsettledIsResumable
<1>1. Init => UndeclinedInv
  <2> SUFFICES ASSUME Init, NEW r \in Runs PROVE Undeclined(run[r], reviews)
    BY DEF UndeclinedInv
  <2>1. run[r] = IdleRun /\ DOMAIN reviews = {}
    BY DEF Init
  <2> QED BY <2>1 DEF Undeclined, IdleRun, BlankMarker
<1>2. UndeclinedInv /\ WholeInv /\ TypeInv /\ [Next]_vars => UndeclinedInv'
  <2> SUFFICES ASSUME UndeclinedInv, WholeInv, TypeInv, [Next]_vars, NEW r \in Runs
               PROVE  Undeclined(run'[r], reviews')
    BY DEF UndeclinedInv
  <2>1. r = r0 /\ Undeclined(run[r], reviews) /\ Whole(run[r], reviews, head, base)
    BY DEF UndeclinedInv, WholeInv
  <2>2. CASE \E s \in Runs : Admit(s) \/ Work(s) \/ Trouble(s)
    BY <2>1, <2>2, WorkUndeclined
  <2>3. CASE Environment
    BY <2>1, <2>3, EnvironmentUndeclined
  <2>4. CASE UNCHANGED vars
    BY <2>1, <2>4 DEF vars
  <2> QED BY <2>2, <2>3, <2>4 DEF Next
<1>3. UndeclinedInv /\ WholeInv /\ NumberedInv => UnsettledIsResumable
  <2> SUFFICES ASSUME UndeclinedInv, WholeInv, NumberedInv, AllIdle, Ran(reviews) # {},
                      reviews[Max(Ran(reviews))].state # "complete"
               PROVE  ~Reviewed
    BY DEF UnsettledIsResumable, Reviewed
  <2>1. /\ r0 \in Runs /\ TypeInv /\ Numbered(reviews) /\ Whole(run[r0], reviews, head, base)
        /\ Undeclined(run[r0], reviews) /\ At(r0, "idle")
    BY DEF UndeclinedInv, WholeInv, NumberedInv, AllIdle
  <2> QED BY <2>1, HaltedIsDrivenAgain
<1>4. Spec => []WholeInv
  BY WholeAlways
<1>5. Spec => []NumberedInv
  BY NumberedAlways DEF Undisturbed
<1>6. NumberedInv => TypeInv
  BY DEF NumberedInv
<1> QED
  BY <1>1, <1>2, <1>3, <1>4, <1>5, <1>6, PTL DEF Spec
=============================================================================
