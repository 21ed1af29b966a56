--------------------------- MODULE ResolveLegProofs ---------------------------
(***************************************************************************)
(* Theorems about the resolve leg, for any number of findings, heads,      *)
(* passes, moves and faults, any backlog destination and any harness.      *)
(***************************************************************************)
EXTENDS ResolveLeg, PRStateProofs, FiniteSetTheorems

(* The steps before the claim is posted, and those of an open claim. *)
Unclaimed == {"empty", "prepare", "claim"}
Asking == {"invoke", "ask", "answer"}
Answering == {"publish", "persist", "commit", "check", "push", "record", "reply"}
Saying == {"summary", "complete", "label"}
Working == Asking \cup Answering \cup Saying

(* Passes are numbered within the bound, a run that labels has chosen.     *)
Bound ==
    /\ review.pass \in 1..MaxPass
    /\ ~At("idle") => run.rv.pass \in 1..MaxPass /\ run.rv.pass <= review.pass
    /\ At("mark") => run.next \in OutcomeLabels

(* No edit of a rejected attempt is in the tree, but while an answer is    *)
(* awaited, nor in what a retry puts back or a commit holds.               *)
TreeIsAnswered ==
    /\ run.step \in {"claim", "invoke", "ask", "publish", "persist", "commit"}
         => tree.holds \subseteq {"kept"}
    /\ At("answer") => tree.holds \subseteq {"kept", "now"}
    /\ run.step \in {"ask", "answer"} => run.base \subseteq {"kept"}
    /\ run.step \in {"check", "push"} => run.sent \subseteq {"kept"}

(* A commit a claim records is on the branch and is the leg's own. *)
Rests(m) == m.commit # NoHead => m.commit \in DOMAIN branch /\ branch[m.commit].by = "leg"
CommitsAreOurs ==
    /\ \A i \in DOMAIN claims : Rests(claims[i])
    /\ Rests(run.mk) /\ Rests(run.open)

(* A run that does not re-drive knows which findings it has answered, but  *)
(* for those whose reply its reading of the comments missed.               *)
AlreadySaid ==
    At("reply") /\ ~run.redrive =>
      \A u \in run.todo : replies[run.rv.pass][u] > 0 => u \in run.already \cup run.missed

(* A pass has one claim, and the run's position is that of its own pass.   *)
OneClaim ==
    /\ \A i, j \in DOMAIN claims : claims[i].pass = claims[j].pass => i = j
    /\ \A i \in DOMAIN claims : claims[i].pass <= review.pass

Placed ==
    /\ run.step \in Unclaimed =>
         \/ run.at = 0 /\ \A i \in DOMAIN claims : claims[i].pass # run.rv.pass
         \/ /\ run.at \in DOMAIN claims /\ claims[run.at].pass = run.rv.pass
            /\ ~run.redrive => claims[run.at].state = "started"
    /\ run.step \in Working =>
         /\ run.at \in DOMAIN claims /\ claims[run.at].pass = run.rv.pass
         /\ run.mk.pass = run.rv.pass /\ run.open.pass = run.rv.pass
    /\ run.step \in Working \ {"label"} =>
         /\ claims[run.at].state = "started" /\ run.mk.state = "started"
         /\ run.open.state = "started"

(* What a claim answers is every posted finding of its review, or nothing. *)
AllOrNothing(m) ==
    m.pass = review.pass => DOMAIN m.res \in {{}, review.posted}

(* A claim with its answers, and a review that says the same.              *)
Agrees(m) ==
    m.pass = review.pass =>
      /\ DOMAIN m.res = review.posted
      /\ \A u \in review.posted : review.answer[u] = m.res[u].word

AnswersAgree ==
    /\ review.posted \subseteq DOMAIN review.answer
    /\ ~At("idle") /\ run.rv.pass = review.pass => run.rv.posted = review.posted
    /\ \A i \in DOMAIN claims :
         /\ AllOrNothing(claims[i])
         /\ claims[i].state = "complete" /\ ~claims[i].blocked => Agrees(claims[i])
    /\ run.step \in Working => AllOrNothing(run.mk) /\ AllOrNothing(run.open)
    /\ run.step \in Answering /\ run.rv.pass = review.pass => DOMAIN run.mk.res = review.posted
    /\ run.step \in Saying => Agrees(run.mk)

Inv ==
    /\ TypeOK /\ Bound
    /\ TreeIsAnswered /\ PushedIsAnswered
    /\ CommitsAreOurs /\ AlreadySaid
    /\ OneClaim /\ Placed /\ AnswersAgree

-------------------------------------------------------------------------------
ResolutionMap == UNION {[S -> Resolution] : S \in SUBSET Units}
Used == [moves : Nat, faults : Nat, unread : [Units -> Nat]]
Tree == [at : Nat, holds : SUBSET Origins]
Labels == OutcomeLabels \cup {"stop"}

LEMMA ResolutionMaps ==
    \A f : f \in ResolutionMap <=> DOMAIN f \subseteq Units /\ f \in [DOMAIN f -> Resolution]
BY DEF ResolutionMap

(* A claim and a review, field by field. *)
LEMMA ClaimFields ==
    ASSUME NEW m \in Claim
    PROVE  /\ m.pass \in Nat /\ m.state \in {"started", "complete"} /\ m.head \in Nat
           /\ m.old \in BOOLEAN /\ m.blocked \in BOOLEAN /\ m.commit \in Nat
           /\ m.res \in ResolutionMap
BY DEF Claim, ResolutionMap

LEMMA NewClaimType ==
    ASSUME NEW pass \in Nat, NEW h \in Nat
    PROVE  /\ NewClaim(pass, h) \in Claim /\ NewClaim(pass, h).pass = pass
           /\ NewClaim(pass, h).state = "started" /\ NewClaim(pass, h).commit = NoHead
           /\ DOMAIN NewClaim(pass, h).res = {} /\ ~NewClaim(pass, h).blocked
<1>1. <<>> \in ResolutionMap /\ DOMAIN <<>> = {}
  <2>1. DOMAIN <<>> = {} /\ <<>> \in [{} -> Resolution]
    OBVIOUS
  <2> QED BY <2>1, ResolutionMaps
<1> QED
  BY <1>1 DEF NewClaim, Claim, ResolutionMap, NoHead

LEMMA ReviewedType ==
    ASSUME NEW pass \in Nat, NEW h \in Nat, NEW findings \in SUBSET Units,
           NEW posted \in SUBSET findings, NEW verdict \in MarkerVerdicts
    PROVE  LET rv == Reviewed(pass, h, findings, posted, verdict)
           IN  /\ rv \in ReviewRecord /\ rv.pass = pass /\ rv.head = h
               /\ rv.posted = posted /\ DOMAIN rv.answer = findings
BY DEF Reviewed, ReviewRecord

LEMMA IdleRunType ==
    /\ IdleRun \in RunRecord /\ IdleRun.step = "idle"
    /\ IdleRun.mk.commit = NoHead /\ IdleRun.open.commit = NoHead
<1>1. NoReview \in ReviewRecord
  BY ReviewedType DEF NoReview, NoHead, MarkerVerdicts
<1>2. NewClaim(0, NoHead) \in Claim /\ NewClaim(0, NoHead).commit = NoHead
  BY NewClaimType DEF NoHead
<1> QED
  BY <1>1, <1>2 DEF IdleRun, RunRecord, Steps, NoHead

LEMMA InitInv == Init => Inv
<1> SUFFICES ASSUME Init PROVE Inv
  OBVIOUS
<1>1. /\ review \in ReviewRecord /\ review.pass = 1 /\ review.posted = Units
      /\ DOMAIN review.answer = Units
  BY ReviewedType DEF Init, MarkerVerdicts, ReviewVerdicts
<1>2. run \in RunRecord /\ run.step = "idle" /\ run.mk.commit = NoHead /\ run.open.commit = NoHead
  BY IdleRunType DEF Init
<1>3. branch \in Seq(CommitRecord) /\ Len(branch) = 1 /\ branch[1].holds = {}
  BY DEF Init, CommitRecord
<1>4. claims \in Seq(Claim) /\ DOMAIN claims = {}
  BY DEF Init
<1>5. TypeOK
  BY <1>1, <1>2, <1>3, <1>4 DEF TypeOK, Init, head, OutcomeLabels, NoHead
<1>6. Bound
  BY <1>1, <1>2, ResolveLegAssumption DEF Bound, At
<1>7. TreeIsAnswered /\ AlreadySaid /\ Placed
  BY <1>2 DEF TreeIsAnswered, AlreadySaid, Placed, At, Unclaimed, Working, Asking, Answering, Saying
<1>8. PushedIsAnswered
  BY <1>3 DEF PushedIsAnswered
<1>9. CommitsAreOurs /\ OneClaim
  BY <1>2, <1>4 DEF CommitsAreOurs, Rests, OneClaim
<1>10. AnswersAgree
  BY <1>1, <1>2, <1>4 DEF AnswersAgree, At, Working, Asking, Answering, Saying
<1> QED
  BY <1>5, <1>6, <1>7, <1>8, <1>9, <1>10 DEF Inv

(***************************************************************************)
(* What the steps have in common.                                          *)
(***************************************************************************)
(* The branch only grows, and every commit on it stays where it is. *)
LEMMA BranchGrows ==
    ASSUME branch \in Seq(CommitRecord), PushedIsAnswered,
           \/ branch' = branch
           \/ \E c \in CommitRecord : c.holds \subseteq {"kept"} /\ branch' = Append(branch, c)
    PROVE  /\ branch' \in Seq(CommitRecord) /\ Len(branch') >= Len(branch)
           /\ DOMAIN branch \subseteq DOMAIN branch'
           /\ \A i \in DOMAIN branch : branch'[i] = branch[i]
           /\ PushedIsAnswered'
<1>1. CASE branch' = branch
  BY <1>1 DEF PushedIsAnswered
<1>2. CASE branch' # branch
  <2>1. PICK c \in CommitRecord : c.holds \subseteq {"kept"} /\ branch' = Append(branch, c)
    BY <1>2
  <2>2. /\ branch' \in Seq(CommitRecord) /\ Len(branch') = Len(branch) + 1 /\ Len(branch) \in Nat
        /\ branch'[Len(branch) + 1] = c /\ \A i \in 1..Len(branch) : branch'[i] = branch[i]
    BY <2>1, AppendProperties
  <2>3. DOMAIN branch = 1..Len(branch) /\ DOMAIN branch' = 1..(Len(branch) + 1)
    BY <2>2
  <2>4. \A i \in DOMAIN branch' : i \in DOMAIN branch \/ i = Len(branch) + 1
    BY <2>2, <2>3
  <2>5. PushedIsAnswered'
    BY <2>1, <2>2, <2>3, <2>4 DEF PushedIsAnswered
  <2> QED BY <2>2, <2>3, <2>5
<1> QED
  BY <1>1, <1>2

(* What rests on the branch rests on the longer one. *)
LEMMA RestsOn ==
    ASSUME DOMAIN branch \subseteq DOMAIN branch',
           \A i \in DOMAIN branch : branch'[i] = branch[i], NEW m, Rests(m)
    PROVE  m.commit # NoHead => m.commit \in DOMAIN branch' /\ branch'[m.commit].by = "leg"
BY DEF Rests

(* One claim is rewritten, or none: the others are where they were.        *)
LEMMA ClaimsEdit ==
    ASSUME claims \in Seq(Claim), NEW m \in Claim, Edit(m), run.at \in DOMAIN claims
    PROVE  /\ claims' \in Seq(Claim) /\ DOMAIN claims' = DOMAIN claims
           /\ claims'[run.at] = m
           /\ \A i \in DOMAIN claims \ {run.at} : claims'[i] = claims[i]
<1>1. DOMAIN claims = 1..Len(claims)
  OBVIOUS
<1> QED
  BY <1>1, ExceptSeq DEF Edit

(* The marker a failure records. *)
Fatal(m) == [m EXCEPT !.state = "complete", !.blocked = TRUE]

LEMMA FatalType ==
    ASSUME NEW m \in Claim
    PROVE  /\ Fatal(m) \in Claim /\ Fatal(m).pass = m.pass /\ Fatal(m).blocked
           /\ Fatal(m).state = "complete" /\ Fatal(m).commit = m.commit /\ Fatal(m).res = m.res
BY DEF Fatal, Claim

(* The claims, after an edit that keeps the claim the pass's and rests on  *)
(* the branch, or after none.                                              *)
ClaimsInv ==
    /\ claims \in Seq(Claim)
    /\ \A i \in DOMAIN claims :
         /\ Rests(claims[i]) /\ claims[i].pass <= review.pass
         /\ AllOrNothing(claims[i])
         /\ claims[i].state = "complete" /\ ~claims[i].blocked => Agrees(claims[i])
    /\ \A i, j \in DOMAIN claims : claims[i].pass = claims[j].pass => i = j

LEMMA ClaimsAreInv == Inv => ClaimsInv
BY DEF Inv, TypeOK, ClaimsInv, CommitsAreOurs, OneClaim, AnswersAgree

(* A step of the leg that leaves the review alone keeps the claims it does *)
(* not rewrite.                                                            *)
LEMMA ClaimsFrame ==
    ASSUME ClaimsInv, review' = review, claims' = claims,
           DOMAIN branch \subseteq DOMAIN branch',
           \A i \in DOMAIN branch : branch'[i] = branch[i]
    PROVE  ClaimsInv'
BY RestsOn DEF ClaimsInv, Rests, AllOrNothing, Agrees

LEMMA ClaimsEdited ==
    ASSUME ClaimsInv, review' = review, branch' = branch, run.at \in DOMAIN claims,
           NEW m \in Claim, Edit(m), m.pass = claims[run.at].pass, Rests(m), AllOrNothing(m),
           m.state = "complete" /\ ~m.blocked => Agrees(m)
    PROVE  ClaimsInv'
<1>1. /\ claims' \in Seq(Claim) /\ DOMAIN claims' = DOMAIN claims /\ claims'[run.at] = m
      /\ \A i \in DOMAIN claims \ {run.at} : claims'[i] = claims[i]
  BY ClaimsEdit DEF ClaimsInv
<1>2. \A i \in DOMAIN claims' : claims'[i].pass = claims[i].pass
  BY <1>1
<1>3. \A i \in DOMAIN claims' : claims'[i] = IF i = run.at THEN m ELSE claims[i]
  BY <1>1
<1> QED
  BY <1>1, <1>2, <1>3 DEF ClaimsInv, Rests, AllOrNothing, Agrees

(* A step that ends the run keeps the invariant, if it keeps the claims'.  *)
LEMMA FinishInv ==
    ASSUME Inv, Finish, ClaimsInv', UNCHANGED <<review, replies, threads, issues>>,
           \/ branch' = branch
           \/ \E c \in CommitRecord : c.holds \subseteq {"kept"} /\ branch' = Append(branch, c),
           labels' \subseteq Labels, tree' \in Tree, used' \in Used
    PROVE  Inv'
<1>1. branch' \in Seq(CommitRecord) /\ Len(branch') >= Len(branch) /\ PushedIsAnswered'
  BY BranchGrows DEF Inv, TypeOK
<1>2. run' \in RunRecord /\ run'.step = "idle" /\ run'.mk.commit = NoHead /\ run'.open.commit = NoHead
  BY IdleRunType DEF Finish
<1>3. head' > 0
  BY <1>1 DEF Inv, TypeOK, head
<1>4. TypeOK'
  BY <1>1, <1>2, <1>3 DEF Inv, TypeOK, ClaimsInv, Labels, Tree, Used
<1>5. Bound'
  BY <1>2 DEF Inv, Bound, At
<1>6. TreeIsAnswered' /\ AlreadySaid' /\ Placed'
  BY <1>2 DEF TreeIsAnswered, AlreadySaid, Placed, At, Unclaimed, Working, Asking, Answering, Saying
<1>7. CommitsAreOurs' /\ OneClaim'
  BY <1>2 DEF CommitsAreOurs, ClaimsInv, Rests, OneClaim
<1>8. AnswersAgree'
  BY <1>2 DEF Inv, AnswersAgree, ClaimsInv, AllOrNothing, Agrees, At, Working, Asking, Answering, Saying
<1> QED
  BY <1>1, <1>4, <1>5, <1>6, <1>7, <1>8 DEF Inv

LEMMA ChargeType ==
    ASSUME used \in Used, NEW n \in Nat, Charge(n)
    PROVE  used' \in Used
BY DEF Charge, Used

LEMMA FaultyType == ASSUME used \in Used, Faulty PROVE used' \in Used
BY DEF Faulty, Used

LEMMA MoveType == ASSUME used \in Used, Move PROVE used' \in Used
BY DEF Move, Used

(* Leaving the claim open, to be resumed. *)
LEMMA LeaveOpenInv ==
    ASSUME Inv, LeaveOpen, tree' \in Tree, Faulty \/ UNCHANGED used
    PROVE  Inv'
<1>1. /\ Finish /\ UNCHANGED <<branch, review, claims, replies, threads, issues, labels>>
  BY DEF LeaveOpen, pr
<1>2. ClaimsInv'
  BY <1>1, ClaimsAreInv, ClaimsFrame
<1>3. used' \in Used /\ labels' \subseteq Labels
  BY <1>1, FaultyType DEF Inv, TypeOK, Used, Labels
<1> QED
  BY <1>1, <1>2, <1>3, FinishInv

(* Recording a claim blocked and halting the loop, or not even that. *)
LEMMA ReportFatalInv ==
    ASSUME Inv, run.step \in Working, NEW m \in {run.open, run.mk}, NEW n \in Nat,
           ReportFatal(m, n), tree' \in Tree
    PROVE  Inv'
<1>1. /\ Finish /\ UNCHANGED <<branch, review, replies, threads, issues>>
      /\ Edit(Fatal(m)) \/ claims' = claims
      /\ labels' \in {CleanLabels("halted")} \cup LabelResults("halted")
      /\ \E k \in Nat : Charge(k)
  <2>1. PICK edited \in BOOLEAN, labelled \in BOOLEAN :
          /\ IF edited THEN Edit(Fatal(m)) ELSE UNCHANGED claims
          /\ IF labelled THEN labels' = CleanLabels("halted")
                         ELSE labels' \in LabelResults("halted")
          /\ Charge(n + Failed(edited) + Failed(labelled))
    BY DEF ReportFatal, Fatal
  <2>2. n + Failed(edited) + Failed(labelled) \in Nat
    BY DEF Failed
  <2> QED BY <2>1, <2>2 DEF ReportFatal
<1>2. /\ m \in Claim /\ m.pass = claims[run.at].pass /\ Rests(m) /\ AllOrNothing(m)
      /\ run.at \in DOMAIN claims
  BY DEF Inv, TypeOK, RunRecord, CommitsAreOurs, Placed, AnswersAgree
<1>3. ClaimsInv'
  <2>1. CASE claims' = claims
    BY <1>1, <2>1, ClaimsAreInv, ClaimsFrame
  <2>2. CASE Edit(Fatal(m))
    <3>1. /\ Fatal(m) \in Claim /\ Fatal(m).pass = m.pass /\ Fatal(m).blocked
          /\ Fatal(m).commit = m.commit /\ Fatal(m).res = m.res
      BY <1>2, FatalType
    <3>2. Rests(Fatal(m)) /\ AllOrNothing(Fatal(m))
      BY <1>2, <3>1 DEF Rests, AllOrNothing
    <3> QED BY <1>1, <1>2, <2>2, <3>1, <3>2, ClaimsAreInv, ClaimsEdited
  <2> QED BY <1>1, <2>1, <2>2
<1>4. labels' \subseteq Labels /\ used' \in Used
  BY <1>1, ChargeType DEF Inv, TypeOK, Labels, Used, OutcomeLabels, CleanLabels, LabelResults
<1> QED
  BY <1>1, <1>3, <1>4, FinishInv

(***************************************************************************)
(* The rest of the world.                                                  *)
(***************************************************************************)
LEMMA SomebodyPushesInv == ASSUME Inv, SomebodyPushes PROVE Inv'
<1>1. PICK c \in CommitRecord : c.holds \subseteq {"kept"} /\ branch' = Append(branch, c)
  BY DEF SomebodyPushes, CommitRecord
<1>2. UNCHANGED <<review, claims, replies, threads, issues, labels, tree, run>> /\ used' \in Used
  BY MoveType DEF SomebodyPushes, Inv, TypeOK, Used
<1>3. /\ branch' \in Seq(CommitRecord) /\ Len(branch') >= Len(branch) /\ PushedIsAnswered'
      /\ DOMAIN branch \subseteq DOMAIN branch' /\ \A i \in DOMAIN branch : branch'[i] = branch[i]
  BY <1>1, BranchGrows DEF Inv, TypeOK
<1>4. TypeOK'
  BY <1>2, <1>3 DEF Inv, TypeOK, head, Used
<1>5. CommitsAreOurs'
  BY <1>2, <1>3, RestsOn DEF Inv, CommitsAreOurs, Rests
<1> QED
  BY <1>2, <1>3, <1>4, <1>5
     DEF Inv, Bound, TreeIsAnswered, AlreadySaid, OneClaim, Placed, AnswersAgree, AllOrNothing,
         Agrees, At

LEMMA ClaimAgesInv == ASSUME Inv, ClaimAges PROVE Inv'
<1>1. At("idle") /\ UNCHANGED <<branch, review, replies, threads, issues, labels, tree, run, used>>
  BY DEF ClaimAges
<1>2. PICK i \in DOMAIN claims : claims[i].state = "started"
                                 /\ claims' = [claims EXCEPT ![i] = [claims[i] EXCEPT !.old = TRUE]]
  BY DEF ClaimAges
<1> DEFINE m == [claims[i] EXCEPT !.old = TRUE]
<1>3. claims \in Seq(Claim) /\ claims[i] \in Claim /\ DOMAIN claims = 1..Len(claims)
  BY DEF Inv, TypeOK
<1>4. /\ m \in Claim /\ m.pass = claims[i].pass /\ m.state = "started" /\ m.commit = claims[i].commit
      /\ m.res = claims[i].res
  BY <1>2, <1>3 DEF Claim
<1>5. claims' \in Seq(Claim) /\ DOMAIN claims' = DOMAIN claims
      /\ \A j \in DOMAIN claims' : claims'[j] = IF j = i THEN m ELSE claims[j]
  BY <1>2, <1>3, <1>4, ExceptSeq
<1> HIDE DEF m
<1>6. TypeOK'
  BY <1>1, <1>5 DEF Inv, TypeOK, head
<1>7. CommitsAreOurs' /\ OneClaim'
  BY <1>1, <1>4, <1>5 DEF Inv, CommitsAreOurs, OneClaim, Rests
<1>8. AnswersAgree'
  BY <1>1, <1>4, <1>5 DEF Inv, AnswersAgree, AllOrNothing, Agrees, At, Working, Asking, Answering,
     Saying
<1> QED
  BY <1>1, <1>6, <1>7, <1>8
     DEF Inv, Bound, TreeIsAnswered, PushedIsAnswered, AlreadySaid, Placed, At, Unclaimed, Working,
         Asking, Answering, Saying

(* The review of a new revision is of a pass no claim is of yet.           *)
LEMMA ReviewInv == ASSUME Inv, Review PROVE Inv'
<1>1. UNCHANGED <<branch, claims, replies, threads, issues, tree, run, used>>
      /\ review.pass < MaxPass
  BY DEF Review
<1>2. review.pass \in 1..MaxPass /\ head \in Nat
  BY DEF Inv, TypeOK, Bound, head
<1>3. PICK findings \in SUBSET Units : \E posted \in SUBSET findings,
          verdict \in {"converged", "issues-remain"} :
        /\ review' = Reviewed(review.pass + 1, head, findings, posted, verdict)
        /\ labels' = (labels \ OutcomeLabels) \cup
             {PassLabel(verdict, Cardinality(posted), EscalatedCount)}
  BY DEF Review
<1>4. PICK posted \in SUBSET findings, verdict \in {"converged", "issues-remain"} :
        /\ review' = Reviewed(review.pass + 1, head, findings, posted, verdict)
        /\ labels' = (labels \ OutcomeLabels) \cup
             {PassLabel(verdict, Cardinality(posted), EscalatedCount)}
  BY <1>3
<1>5. /\ review' \in ReviewRecord /\ review'.pass = review.pass + 1
      /\ review'.posted = posted /\ DOMAIN review'.answer = findings
  BY <1>2, <1>4, ReviewedType DEF MarkerVerdicts, ReviewVerdicts
<1>6. labels' \subseteq Labels
  BY <1>4 DEF Inv, TypeOK, Labels, PassLabel, OutcomeLabels
<1>7. TypeOK'
  BY <1>1, <1>5, <1>6 DEF Inv, TypeOK, head, Labels
<1>8. Bound'
  BY <1>1, <1>2, <1>5, ResolveLegAssumption DEF Inv, Bound, At
<1>9. \A i \in DOMAIN claims : claims[i].pass <= review.pass /\ claims[i].pass \in Nat
  BY ClaimFields DEF Inv, OneClaim, TypeOK
<1>10. OneClaim'
  BY <1>1, <1>2, <1>5, <1>9 DEF Inv, OneClaim
<1>11. run.step # "idle" => run.rv.pass < review'.pass
  BY <1>2, <1>5 DEF Inv, Bound, At
<1>12. AnswersAgree'
  <2>1. \A i \in DOMAIN claims : claims[i].pass # review'.pass
    BY <1>2, <1>5, <1>9
  <2>2. run.step # "idle" => run.rv.pass # review'.pass
    BY <1>2, <1>5, <1>11 DEF Inv, Bound, At
  <2>3. run.step \in Working => run.mk.pass # review'.pass /\ run.open.pass # review'.pass
    BY <2>2 DEF Inv, Placed, Working, Asking, Answering, Saying
  <2>4. review'.posted \subseteq DOMAIN review'.answer
    BY <1>5
  <2> QED
    BY <1>1, <2>1, <2>2, <2>3, <2>4
       DEF AnswersAgree, AllOrNothing, Agrees, At, Working, Asking, Answering, Saying
<1> QED
  BY <1>1, <1>7, <1>8, <1>10, <1>12
     DEF Inv, TreeIsAnswered, PushedIsAnswered, CommitsAreOurs, Rests, AlreadySaid, Placed, At

LEMMA StopInv == ASSUME Inv, Stop PROVE Inv'
<1>1. UNCHANGED <<branch, review, claims, replies, threads, issues, tree, run>> /\ used' \in Used
      /\ labels' \subseteq Labels
  BY MoveType DEF Stop, Inv, TypeOK, Labels, Used
<1> QED
  BY <1>1 DEF Inv, TypeOK, head, Labels, Used, Bound, TreeIsAnswered, PushedIsAnswered,
     CommitsAreOurs, Rests, AlreadySaid, OneClaim, Placed, AnswersAgree, AllOrNothing, Agrees, At

(***************************************************************************)
(* From the selection to the answer.                                       *)
(***************************************************************************)
(* A step that writes nothing on the pull request but labels. *)
LEMMA QuietInv ==
    ASSUME Inv, UNCHANGED <<branch, review, claims, replies, threads, issues>>,
           labels' \subseteq Labels, tree' \in Tree, used' \in Used, run' \in RunRecord,
           Bound', TreeIsAnswered', Rests(run'.mk), Rests(run'.open), AlreadySaid', Placed',
           AnswersAgree'
    PROVE  Inv'
<1>1. TypeOK'
  BY DEF Inv, TypeOK, head, Labels, Tree, Used
<1>2. CommitsAreOurs'
  BY DEF Inv, CommitsAreOurs, Rests
<1>3. OneClaim' /\ PushedIsAnswered'
  BY DEF Inv, OneClaim, PushedIsAnswered
<1> QED
  BY <1>1, <1>2, <1>3 DEF Inv

LEMMA Escalated ==
    ASSUME Inv
    PROVE  \A pass : OtherEscalated(pass) \in Nat
<1>1. DOMAIN claims = 1..Len(claims) /\ Len(claims) \in Nat
  BY DEF Inv, TypeOK
<1>2. IsFiniteSet(DOMAIN claims) /\ IsFiniteSet(Units)
  BY <1>1, FS_Interval, PRStateAssumption
<1>3. IsFiniteSet((DOMAIN claims) \X Units)
  BY <1>2, FS_Product
<1>4. Escalations \in SUBSET ((DOMAIN claims) \X Units)
  BY DEF Escalations
<1>5. IsFiniteSet(Escalations)
  BY <1>3, <1>4, FS_Subset
<1> SUFFICES ASSUME NEW pass PROVE OtherEscalated(pass) \in Nat
  OBVIOUS
<1>6. {x \in Escalations : claims[x[1]].pass # pass} \in SUBSET Escalations
  OBVIOUS
<1> QED
  BY <1>5, <1>6, FS_Subset, FS_CardinalityType DEF OtherEscalated

LEMMA LoadInv == ASSUME Inv, Load PROVE Inv'
<1> DEFINE i == MarkerFor(claims, review.pass)
           done == CurrentPassComplete(review.pass)
           step == IF DOMAIN review.answer = {} THEN "empty" ELSE "prepare"
           others == OtherEscalated(review.pass)
           m == [IdleRun EXCEPT !.step = step, !.head = head, !.rv = review, !.at = i,
                                !.redrive = done, !.others = others]
<1>1. run' = m /\ UNCHANGED <<branch, review, claims, replies, threads, issues, labels, tree, used>>
  BY DEF Load, pr
<1>2. /\ i \in Nat /\ (i # 0 => i \in DOMAIN claims /\ claims[i].pass = review.pass)
      /\ \A j \in DOMAIN claims : claims[j].pass = review.pass => i # 0 /\ j <= i
  BY MarkerForNewest DEF Inv, TypeOK
<1>3. done \in BOOLEAN /\ (~done => \A j \in DOMAIN claims :
                              claims[j].pass = review.pass => claims[j].state = "started")
  <2>1. \A j \in DOMAIN claims : claims[j].state \in {"started", "complete"}
    BY ClaimFields DEF Inv, TypeOK
  <2> QED BY <2>1 DEF CurrentPassComplete
<1>4. others \in Nat /\ head \in Nat /\ review \in ReviewRecord /\ step \in Unclaimed
  BY Escalated DEF Inv, TypeOK, head, Unclaimed
<1> HIDE DEF i, done, others, step
<1>5. /\ m \in RunRecord /\ m.step = step /\ m.rv = review /\ m.at = i /\ m.redrive = done
      /\ m.mk.commit = NoHead /\ m.open.commit = NoHead
  BY <1>2, <1>3, <1>4, IdleRunType DEF RunRecord, Unclaimed, Steps
<1> HIDE DEF m
<1>6. Bound' /\ TreeIsAnswered' /\ AlreadySaid' /\ Rests(run'.mk) /\ Rests(run'.open)
  <2>1. review.pass \in 1..MaxPass
    BY DEF Inv, Bound
  <2>2. step # "claim"
    BY DEF step
  <2> QED
    BY <1>1, <1>4, <1>5, <2>1, <2>2
       DEF Bound, TreeIsAnswered, AlreadySaid, Rests, At, Unclaimed
<1>7. Placed'
  BY <1>1, <1>2, <1>3, <1>4, <1>5 DEF Placed, Unclaimed, Working, Asking, Answering, Saying
<1>8. AnswersAgree'
  BY <1>1, <1>4, <1>5
     DEF Inv, AnswersAgree, AllOrNothing, Agrees, At, Unclaimed, Working, Asking, Answering, Saying
<1> QED
  BY <1>1, <1>5, <1>6, <1>7, <1>8, QuietInv DEF Inv, TypeOK, Labels, Tree, Used

(* Moving on to another step, everything else in memory as it was. *)
LEMMA GotoFields ==
    ASSUME run \in RunRecord, NEW s \in Steps, Goto(s)
    PROVE  /\ run' \in RunRecord /\ run'.step = s /\ run'.rv = run.rv /\ run'.at = run.at
           /\ run'.redrive = run.redrive /\ run'.mk = run.mk /\ run'.open = run.open
           /\ run'.base = run.base /\ run'.sent = run.sent /\ run'.todo = run.todo
           /\ run'.already = run.already /\ run'.missed = run.missed
BY DEF Goto, RunRecord

LEMMA FinishEmptyInv == ASSUME Inv, FinishEmpty PROVE Inv'
<1>1. At("empty") /\ UNCHANGED <<branch, review, claims, replies, threads, issues, labels, tree, used>>
  BY DEF FinishEmpty, pr
<1>2. PICK next \in {"halted", "converged"} : run' = [run EXCEPT !.step = "mark", !.next = next]
  BY DEF FinishEmpty
<1>3. /\ run' \in RunRecord /\ run'.step = "mark" /\ run'.next = next /\ run'.rv = run.rv
      /\ run'.mk = run.mk /\ run'.open = run.open
  BY <1>2 DEF Inv, TypeOK, RunRecord, Steps, OutcomeLabels
<1>4. Bound' /\ TreeIsAnswered' /\ AlreadySaid' /\ Placed'
  BY <1>1, <1>3 DEF Inv, Bound, TreeIsAnswered, AlreadySaid, Placed, At, Unclaimed, Working, Asking,
     Answering, Saying, OutcomeLabels
<1>5. AnswersAgree' /\ Rests(run'.mk) /\ Rests(run'.open)
  BY <1>1, <1>3 DEF Inv, AnswersAgree, AllOrNothing, Agrees, At, Working, Asking, Answering, Saying,
     CommitsAreOurs
<1> QED
  BY <1>1, <1>3, <1>4, <1>5, QuietInv DEF Inv, TypeOK, Labels, Tree, Used

LEMMA PrepareWorktreeInv == ASSUME Inv, PrepareWorktree PROVE Inv'
<1>1. At("prepare") /\ UNCHANGED <<branch, review, claims, replies, threads, issues, labels, used>>
      /\ Goto("claim") /\ run \in RunRecord
  BY DEF PrepareWorktree, pr, Inv, TypeOK
<1>2. tree' \in Tree /\ tree'.holds \subseteq {"kept"}
  BY DEF PrepareWorktree, Inv, TypeOK, Tree, RunRecord, Origins
<1>3. /\ run' \in RunRecord /\ run'.step = "claim" /\ run'.rv = run.rv /\ run'.at = run.at
      /\ run'.redrive = run.redrive /\ run'.mk = run.mk /\ run'.open = run.open
  BY <1>1, GotoFields DEF Steps
<1>4. Bound' /\ TreeIsAnswered' /\ AlreadySaid' /\ Placed'
  BY <1>1, <1>2, <1>3 DEF Inv, Bound, TreeIsAnswered, AlreadySaid, Placed, At, Unclaimed, Working,
     Asking, Answering, Saying
<1>5. AnswersAgree' /\ Rests(run'.mk) /\ Rests(run'.open)
  BY <1>1, <1>3 DEF Inv, AnswersAgree, AllOrNothing, Agrees, At, Working, Asking, Answering, Saying,
     CommitsAreOurs
<1> QED
  BY <1>1, <1>2, <1>3, <1>4, <1>5, QuietInv DEF Inv, TypeOK, Labels, Used

(* A step of the leg that writes on the pull request, its claims apart. *)
LEMMA WorkInv ==
    ASSUME Inv, ClaimsInv',
           \/ branch' = branch
           \/ \E c \in CommitRecord : c.holds \subseteq {"kept"} /\ branch' = Append(branch, c),
           review' \in ReviewRecord, replies' \in [1..MaxPass -> [Units -> Nat]],
           threads' \subseteq (1..MaxPass) \X Units, issues' \in [Units -> Nat],
           labels' \subseteq Labels, tree' \in Tree, used' \in Used, run' \in RunRecord,
           Bound', TreeIsAnswered', Rests(run.mk)', Rests(run.open)', AlreadySaid', Placed',
           AnswersAgree'
    PROVE  Inv'
<1>1. branch' \in Seq(CommitRecord) /\ Len(branch') >= Len(branch) /\ PushedIsAnswered'
  BY BranchGrows DEF Inv, TypeOK
<1>2. head' > 0
  BY <1>1 DEF Inv, TypeOK, head
<1>3. TypeOK'
  BY <1>1, <1>2 DEF TypeOK, ClaimsInv, Labels, Tree, Used
<1>4. CommitsAreOurs' /\ OneClaim'
  BY DEF CommitsAreOurs, ClaimsInv, OneClaim
<1> QED
  BY <1>1, <1>3, <1>4 DEF Inv

(* A new claim, of a pass that had none. *)
LEMMA ClaimsAppended ==
    ASSUME ClaimsInv, review' = review, branch' = branch, NEW m \in Claim,
           claims' = Append(claims, m), \A i \in DOMAIN claims : claims[i].pass # m.pass,
           m.pass <= review.pass, m.state = "started", m.commit = NoHead, DOMAIN m.res = {}
    PROVE  ClaimsInv' /\ DOMAIN claims' = 1..(Len(claims) + 1) /\ claims'[Len(claims) + 1] = m
<1>1. /\ claims' \in Seq(Claim) /\ Len(claims') = Len(claims) + 1 /\ Len(claims) \in Nat
      /\ claims'[Len(claims) + 1] = m /\ \A i \in 1..Len(claims) : claims'[i] = claims[i]
  BY AppendProperties DEF ClaimsInv
<1>2. DOMAIN claims = 1..Len(claims) /\ DOMAIN claims' = 1..(Len(claims) + 1)
  BY <1>1 DEF ClaimsInv
<1>3. \A i \in DOMAIN claims' :
        \/ i \in DOMAIN claims /\ claims'[i] = claims[i]
        \/ i = Len(claims) + 1 /\ claims'[i] = m
  BY <1>1, <1>2
<1>4. \A i \in DOMAIN claims' :
         /\ Rests(claims[i])' /\ claims'[i].pass <= review'.pass
         /\ AllOrNothing(claims[i])'
         /\ claims'[i].state = "complete" /\ ~claims'[i].blocked => Agrees(claims[i])'
  <2>1. Rests(m) /\ AllOrNothing(m) /\ m.state # "complete"
    BY DEF Rests, AllOrNothing
  <2>2. Rests(m)' /\ AllOrNothing(m)'
    BY <2>1 DEF Rests, AllOrNothing
  <2>3. \A i \in DOMAIN claims :
          /\ Rests(claims[i]) => (claims'[i] = claims[i] => Rests(claims[i])')
          /\ AllOrNothing(claims[i]) => (claims'[i] = claims[i] => AllOrNothing(claims[i])')
          /\ Agrees(claims[i]) => (claims'[i] = claims[i] => Agrees(claims[i])')
    BY DEF Rests, AllOrNothing, Agrees
  <2> SUFFICES ASSUME NEW i \in DOMAIN claims'
               PROVE  /\ Rests(claims[i])' /\ claims'[i].pass <= review'.pass
                      /\ AllOrNothing(claims[i])'
                      /\ claims'[i].state = "complete" /\ ~claims'[i].blocked => Agrees(claims[i])'
    OBVIOUS
  <2>4. CASE i \in DOMAIN claims /\ claims'[i] = claims[i]
    BY <2>3, <2>4 DEF ClaimsInv
  <2>5. CASE claims'[i] = m
    BY <2>1, <2>2, <2>5 DEF Rests, AllOrNothing
  <2> QED BY <1>3, <2>4, <2>5
<1>5. \A i, j \in DOMAIN claims' : claims'[i].pass = claims'[j].pass => i = j
  BY <1>3 DEF ClaimsInv
<1> QED
  BY <1>1, <1>2, <1>4, <1>5 DEF ClaimsInv

(* The claim restarted for a new revision, its comment left alone. *)
Restarted(old) ==
    [old EXCEPT !.head = run.head, !.old = FALSE, !.res = <<>>, !.commit = NoHead]

LEMMA RestartedType ==
    ASSUME NEW old \in Claim, run \in RunRecord
    PROVE  /\ Restarted(old) \in Claim /\ Restarted(old).pass = old.pass
           /\ Restarted(old).state = old.state /\ Restarted(old).commit = NoHead
           /\ DOMAIN Restarted(old).res = {}
<1>1. <<>> \in ResolutionMap /\ DOMAIN <<>> = {}
  <2>1. DOMAIN <<>> = {} /\ <<>> \in [{} -> Resolution]
    OBVIOUS
  <2> QED BY <2>1, ResolutionMaps
<1> QED
  BY <1>1 DEF Restarted, Claim, ResolutionMap, RunRecord, NoHead

LEMMA PostClaimInv == ASSUME Inv, PostClaim PROVE Inv'
<1> DEFINE fresh == NewClaim(run.rv.pass, run.head)
           old == claims[run.at]
           m == IF run.at = 0 \/ run.redrive THEN fresh
                ELSE IF ClaimIsStale(old, run.head) THEN Restarted(old) ELSE old
           at == IF run.at = 0 THEN Len(claims) + 1 ELSE run.at
<1>1. /\ At("claim") /\ UNCHANGED <<branch, review, replies, threads, issues, labels, tree, used>>
      /\ claims' = IF run.at = 0 THEN Append(claims, m)
                   ELSE IF run.redrive THEN [claims EXCEPT ![run.at] = m] ELSE claims
      /\ run' = [run EXCEPT !.step = "invoke", !.open = m, !.mk = m, !.at = at]
  BY DEF PostClaim, Restarted
<1>2. /\ run \in RunRecord /\ run.rv.pass \in Nat /\ run.rv.pass <= review.pass /\ run.head \in Nat
      /\ claims \in Seq(Claim) /\ Len(claims) \in Nat /\ ClaimsInv
      /\ \/ run.at = 0 /\ \A i \in DOMAIN claims : claims[i].pass # run.rv.pass
         \/ /\ run.at \in DOMAIN claims /\ old \in Claim /\ old.pass = run.rv.pass
            /\ ~run.redrive => old.state = "started"
  <2>1. run \in RunRecord /\ claims \in Seq(Claim) /\ Len(claims) \in Nat /\ ClaimsInv
    BY ClaimsAreInv DEF Inv, TypeOK
  <2>2. run.rv.pass \in Nat /\ run.rv.pass <= review.pass /\ run.head \in Nat
    BY <1>1, <2>1 DEF Inv, Bound, At, RunRecord, ReviewRecord
  <2>3. \/ run.at = 0 /\ \A i \in DOMAIN claims : claims[i].pass # run.rv.pass
        \/ /\ run.at \in DOMAIN claims /\ old.pass = run.rv.pass
           /\ ~run.redrive => old.state = "started"
    BY <1>1 DEF Inv, Placed, Unclaimed, At
  <2> QED BY <2>1, <2>2, <2>3
<1>3. fresh \in Claim /\ fresh.pass = run.rv.pass /\ fresh.state = "started"
      /\ fresh.commit = NoHead /\ DOMAIN fresh.res = {}
  BY <1>2, NewClaimType
<1>4. run.at # 0 => /\ Restarted(old) \in Claim /\ Restarted(old).pass = run.rv.pass
                    /\ Restarted(old).state = old.state /\ Restarted(old).commit = NoHead
                    /\ DOMAIN Restarted(old).res = {}
  BY <1>2, RestartedType
<1>5. run.at # 0 => Rests(old) /\ AllOrNothing(old) /\ run.at \in DOMAIN claims
  BY <1>2 DEF ClaimsInv
<1> HIDE DEF fresh, old
<1>6. m \in Claim /\ m.pass = run.rv.pass /\ m.state = "started" /\ Rests(m) /\ AllOrNothing(m)
  BY <1>2, <1>3, <1>4, <1>5 DEF Rests, AllOrNothing
<1>7. run.at = 0 \/ run.redrive => m = fresh
  OBVIOUS
<1> HIDE DEF m
<1>8. ClaimsInv' /\ at \in DOMAIN claims' /\ claims'[at].pass = run.rv.pass
      /\ claims'[at].state = "started"
  <2>1. CASE run.at = 0
    <3>1. ClaimsInv' /\ DOMAIN claims' = 1..(Len(claims) + 1) /\ claims'[Len(claims) + 1] = m
      <4>1. claims' = Append(claims, m) /\ \A i \in DOMAIN claims : claims[i].pass # m.pass
        BY <1>1, <1>2, <1>6, <2>1, ClaimFields
      <4>2. m.pass <= review.pass /\ m.commit = NoHead /\ DOMAIN m.res = {}
        BY <1>2, <1>3, <1>6, <1>7, <2>1
      <4> QED BY <1>1, <1>2, <1>6, <4>1, <4>2, ClaimsAppended
    <3> QED BY <1>2, <1>6, <2>1, <3>1
  <2>2. CASE run.at # 0 /\ run.redrive
    <3>1. Edit(m) /\ run.at \in DOMAIN claims /\ m.pass = claims[run.at].pass
      BY <1>1, <1>2, <1>6, <2>2 DEF Edit, old
    <3>2. ClaimsInv'
      BY <1>1, <1>2, <1>6, <3>1, ClaimsEdited
    <3>3. DOMAIN claims' = DOMAIN claims /\ claims'[run.at] = m
      BY <1>2, <1>6, <3>1, ClaimsEdit
    <3> QED BY <1>6, <2>2, <3>1, <3>2, <3>3
  <2>3. CASE run.at # 0 /\ ~run.redrive
    <3>1. claims' = claims
      BY <1>1, <2>3
    <3> QED BY <1>1, <1>2, <2>3, <3>1, ClaimsFrame DEF old
  <2> QED BY <2>1, <2>2, <2>3
<1>9. at \in Nat
  BY <1>2 DEF RunRecord
<1> HIDE DEF at
<1>10. /\ run' \in RunRecord /\ run'.step = "invoke" /\ run'.open = m /\ run'.mk = m /\ run'.at = at
       /\ run'.rv = run.rv
  BY <1>1, <1>2, <1>6, <1>9 DEF RunRecord, Steps
<1>11. Bound' /\ TreeIsAnswered' /\ AlreadySaid'
  BY <1>1, <1>10 DEF Inv, Bound, TreeIsAnswered, AlreadySaid, At
<1>12. Placed' /\ Rests(run.mk)' /\ Rests(run.open)'
  BY <1>1, <1>6, <1>8, <1>10
     DEF Placed, Rests, At, Unclaimed, Working, Asking, Answering, Saying
<1>13. AnswersAgree'
  BY <1>1, <1>6, <1>8, <1>10
     DEF Inv, AnswersAgree, ClaimsInv, AllOrNothing, Agrees, At, Unclaimed, Working, Asking,
         Answering, Saying
<1> QED
  BY <1>1, <1>8, <1>10, <1>11, <1>12, <1>13, WorkInv DEF Inv, TypeOK, Labels, Tree, Used

(***************************************************************************)
(* The attempts.                                                           *)
(***************************************************************************)
LEMMA InvokeInv == ASSUME Inv, Invoke PROVE Inv'
<1> DEFINE step == IF DOMAIN run.mk.res # {} THEN "publish" ELSE "ask"
           budget == [shape |-> IF SchemaNative THEN 0 ELSE 1, semantic |-> 1, transient |-> 1]
<1>1. /\ At("invoke") /\ UNCHANGED <<branch, review, claims, replies, threads, issues, labels, tree, used>>
      /\ run' = [run EXCEPT !.step = step, !.budget = budget, !.base = tree.holds]
  BY DEF Invoke, pr
<1>2. run \in RunRecord /\ tree \in Tree /\ tree.holds \subseteq {"kept"}
  BY <1>1 DEF Inv, TypeOK, Tree, TreeIsAnswered, At
<1>3. step \in {"publish", "ask"} /\ (step = "publish" <=> DOMAIN run.mk.res # {})
  OBVIOUS
<1>4. budget \in [shape : Nat, semantic : Nat, transient : Nat]
  OBVIOUS
<1> HIDE DEF step, budget
<1>5. /\ run' \in RunRecord /\ run'.step = step /\ run'.base = tree.holds /\ run'.rv = run.rv
      /\ run'.mk = run.mk /\ run'.open = run.open /\ run'.at = run.at /\ run'.redrive = run.redrive
  BY <1>1, <1>2, <1>3, <1>4 DEF RunRecord, Steps, Tree
<1>6. Bound' /\ TreeIsAnswered' /\ AlreadySaid' /\ Placed'
  BY <1>1, <1>2, <1>3, <1>5 DEF Inv, Bound, TreeIsAnswered, AlreadySaid, Placed, At, Unclaimed,
     Working, Asking, Answering, Saying
<1>7. AnswersAgree' /\ Rests(run'.mk) /\ Rests(run'.open)
  <2>1. run.mk.pass = run.rv.pass /\ AllOrNothing(run.mk) /\ AllOrNothing(run.open)
        /\ Rests(run.mk) /\ Rests(run.open)
    BY <1>1 DEF Inv, Placed, AnswersAgree, CommitsAreOurs, At, Working, Asking
  <2>2. step = "publish" /\ run.rv.pass = review.pass => DOMAIN run.mk.res = review.posted
    BY <1>3, <2>1 DEF AllOrNothing
  <2> QED
    BY <1>1, <1>3, <1>5, <2>1, <2>2
       DEF Inv, AnswersAgree, AllOrNothing, Agrees, At, Working, Asking, Answering, Saying
<1> QED
  BY <1>1, <1>2, <1>5, <1>6, <1>7, QuietInv DEF Inv, TypeOK, Labels, Used

(* A step that only moves on, among the steps of an open claim whose       *)
(* answer it neither takes nor says. *)
LEMMA GotoInv ==
    ASSUME Inv, NEW s \in Steps, Goto(s), tree' \in Tree, used' \in Used,
           UNCHANGED <<branch, review, claims, replies, threads, issues, labels>>,
           \/ run.step \in Asking /\ s \in Asking
           \/ run.step \in Answering /\ s \in Answering \ {"reply"},
           TreeIsAnswered'
    PROVE  Inv'
<1>1. /\ run' \in RunRecord /\ run'.step = s /\ run'.rv = run.rv /\ run'.at = run.at
      /\ run'.redrive = run.redrive /\ run'.mk = run.mk /\ run'.open = run.open
  BY GotoFields DEF Inv, TypeOK
<1>2. Bound' /\ AlreadySaid' /\ Placed'
  BY <1>1 DEF Inv, Bound, AlreadySaid, Placed, At, Unclaimed, Working, Asking, Answering, Saying
<1>3. AnswersAgree' /\ Rests(run'.mk) /\ Rests(run'.open)
  BY <1>1 DEF Inv, AnswersAgree, AllOrNothing, Agrees, At, Working, Asking, Answering, Saying,
     CommitsAreOurs
<1> QED
  BY <1>1, <1>2, <1>3, QuietInv DEF Inv, TypeOK, Labels

LEMMA AskInv == ASSUME Inv, Ask PROVE Inv'
<1>1. At("ask") /\ Goto("answer") /\ UNCHANGED <<branch, review, claims, replies, threads, issues, labels, used>>
  BY DEF Ask, pr
<1>2. PICK edits \in {{}, {"now"}} : tree' = [tree EXCEPT !.holds = tree.holds \cup edits]
  BY DEF Ask
<1>3. tree.holds \subseteq {"kept"} /\ run.base \subseteq {"kept"} /\ tree \in Tree
  BY <1>1 DEF Inv, TreeIsAnswered, TypeOK, Tree, At
<1>4. tree' \in Tree /\ tree'.holds \subseteq {"kept", "now"}
  BY <1>2, <1>3 DEF Tree, Origins
<1>5. run'.step = "answer" /\ run'.base = run.base
  BY <1>1, GotoFields DEF Inv, TypeOK, Steps
<1>6. TreeIsAnswered'
  BY <1>3, <1>4, <1>5 DEF TreeIsAnswered, At
<1> QED
  BY <1>1, <1>4, <1>6, GotoInv DEF At, Asking, Steps, Inv, TypeOK, Used

(***************************************************************************)
(* The answer.                                                             *)
(***************************************************************************)
(* An answer that both halves of the validation let through, and whose     *)
(* numbers Go reads, names each finding shown in exactly one resolution,   *)
(* names nothing else, and gives it one of the five words                  *)
(* (validate/resolve.go:32-274, resolve/validate.go:13-44).                *)
THEOREM AnswersSettleOnce ==
    ASSUME NEW doc, NEW n \in Nat, NEW candidates,
           ResolveShape(doc), ResolveSemantic(doc, n, candidates), MapsNumbers(doc, n)
    PROVE  LET list == doc.resolutions
           IN  /\ \A k \in 1..n : \E i \in DOMAIN list :
                     /\ \A j \in DOMAIN list : list[j].number = k <=> j = i
                     /\ Words(doc)[k] = list[i].resolution
               /\ Words(doc) \in [1..n -> ResolutionWords]
<1> DEFINE list == doc.resolutions
<1>1. \A i \in DOMAIN list : list[i].number \in 1..n /\ list[i].resolution \in ResolutionWords
  <2> SUFFICES ASSUME NEW i \in DOMAIN list
               PROVE  list[i].number \in 1..n /\ list[i].resolution \in ResolutionWords
    OBVIOUS
  <2>1. list[i].number \in 1..n
    BY DEF MapsNumbers
  <2>2. list[i] # Foreign /\ ~ResolutionIsBad(list[i])
    BY DEF ResolveSemantic, ResolveShape
  <2> QED
    BY <2>1, <2>2 DEF ResolutionIsBad
<1>2. \A i, j \in DOMAIN list : list[i].number = list[j].number => i = j
  BY DEF ResolveSemantic
<1>3. \A k \in 1..n : \E i \in DOMAIN list : list[i].number = k
  <2> SUFFICES ASSUME NEW k \in 1..n
               PROVE  \E i \in DOMAIN list : list[i].number = k
    OBVIOUS
  <2>1. PICK i \in DOMAIN list : Place(list[i].number) = Place(k)
    BY DEF ResolveSemantic
  <2>2. list[i].number \in Nat /\ k \in Nat
    BY <1>1
  <2>3. 2 * list[i].number = 2 * k
    BY <2>1, <2>2 DEF Place
  <2> QED
    BY <2>2, <2>3
<1>4. DOMAIN Words(doc) = 1..n
  <2>1. {list[i].number : i \in DOMAIN list} = 1..n
    BY <1>1, <1>3
  <2> QED
    BY <2>1 DEF Words
<1>5. \A k \in 1..n : \E i \in DOMAIN list :
        /\ \A j \in DOMAIN list : list[j].number = k <=> j = i
        /\ Words(doc)[k] = list[i].resolution
  <2> SUFFICES ASSUME NEW k \in 1..n
               PROVE  \E i \in DOMAIN list :
                        /\ \A j \in DOMAIN list : list[j].number = k <=> j = i
                        /\ Words(doc)[k] = list[i].resolution
    OBVIOUS
  <2> DEFINE i == CHOOSE i \in DOMAIN list : list[i].number = k
  <2>1. i \in DOMAIN list /\ list[i].number = k
    BY <1>3
  <2>2. k \in {list[j].number : j \in DOMAIN list}
    BY <1>3
  <2>3. Words(doc)[k] = list[i].resolution
    BY <2>2 DEF Words
  <2> HIDE DEF i
  <2> QED
    BY <2>1, <2>3, <1>2
<1>6. Words(doc) \in [DOMAIN Words(doc) -> ResolutionWords]
  <2>1. \A k \in DOMAIN Words(doc) : Words(doc)[k] \in ResolutionWords
    BY <1>1, <1>4, <1>5
  <2>2. Words(doc) = [k \in DOMAIN Words(doc) |-> Words(doc)[k]]
    BY DEF Words
  <2> QED
    BY <2>1, <2>2
<1> QED
  BY <1>4, <1>5, <1>6

LEMMA SettlementType ==
    ASSUME NEW S, NEW n \in Nat, NEW words \in [1..n -> ResolutionWords],
           NEW ids \in [1..n -> S], Range(ids) = S
    PROVE  Settlement(words, ids) \in [S -> Resolution]
<1>1. {ids[k] : k \in DOMAIN words} = S
  BY DEF Range
<1>2. ASSUME NEW u \in S
      PROVE  words[CHOOSE k \in DOMAIN words : ids[k] = u] \in ResolutionWords
  <2>1. \E k \in DOMAIN words : ids[k] = u
    BY <1>1
  <2> QED
    BY <2>1
<1> QED
  BY <1>1, <1>2 DEF Settlement, Resolution, TrackedStates

(* Whatever is taken from an answer settles the findings it was shown. *)
LEMMA AcceptedSettles ==
    ASSUME NEW a \in Accepted, NEW S, NEW ids \in Numberings(S), a.count = Cardinality(S)
    PROVE  Settlement(a.words, ids) \in [S -> Resolution] /\ a.blocked \in BOOLEAN
<1>1. PICK n \in Counts : \E doc \in Valid(n) :
        MapsNumbers(doc, n) /\ a = [count |-> n, words |-> Words(doc), blocked |-> doc.blocked = "true"]
  BY DEF Accepted
<1>2. PICK doc \in Valid(n) :
        MapsNumbers(doc, n) /\ a = [count |-> n, words |-> Words(doc), blocked |-> doc.blocked = "true"]
  BY <1>1
<1>3. n \in Nat
  BY PRStateAssumption, FS_CardinalityType DEF Counts
<1>4. Words(doc) \in [1..n -> ResolutionWords]
  BY <1>2, <1>3, AnswersSettleOnce DEF Valid, WellShaped
<1>5. ids \in [1..n -> S] /\ Range(ids) = S
  BY <1>2, ids \in Numberings(S) DEF Numberings
<1> QED
  BY <1>2, <1>3, <1>4, <1>5, SettlementType

LEMMA AcceptInv == ASSUME Inv, Accept PROVE Inv'
<1>1. /\ At("answer") /\ UNCHANGED <<branch, review, claims, replies, threads, issues, labels, used>>
      /\ tree' = [tree EXCEPT !.holds = {IF o = "now" THEN "kept" ELSE o : o \in tree.holds}]
  BY DEF Accept, pr
<1>2. PICK res \in [run.rv.posted -> Resolution], blocked \in BOOLEAN :
        run' = [run EXCEPT !.step = "publish", !.mk.res = res, !.mk.blocked = blocked,
                           !.budget = IdleRun.budget, !.base = {}]
  BY AcceptedSettles DEF Accept
<1>3. run \in RunRecord /\ tree \in Tree /\ tree.holds \subseteq {"kept", "now"}
  BY <1>1 DEF Inv, TypeOK, Tree, TreeIsAnswered, At
<1>4. res \in ResolutionMap /\ DOMAIN res = run.rv.posted
  BY <1>2, <1>3, ResolutionMaps DEF RunRecord, ReviewRecord
<1>5. IdleRun.budget \in [shape : Nat, semantic : Nat, transient : Nat]
  BY DEF IdleRun
<1> DEFINE m == [run.mk EXCEPT !.res = res, !.blocked = blocked]
<1>6. /\ m \in Claim /\ m.res = res /\ m.pass = run.mk.pass /\ m.commit = run.mk.commit
      /\ m.state = run.mk.state
  BY <1>3, <1>4 DEF RunRecord, Claim, ResolutionMap
<1>7. run' = [run EXCEPT !.step = "publish", !.mk = m, !.budget = IdleRun.budget, !.base = {}]
  BY <1>2, <1>3 DEF RunRecord, Claim
<1> HIDE DEF m
<1>8. /\ run' \in RunRecord /\ run'.step = "publish" /\ run'.rv = run.rv /\ run'.mk = m
      /\ run'.open = run.open /\ run'.at = run.at /\ run'.redrive = run.redrive
  BY <1>3, <1>5, <1>6, <1>7 DEF RunRecord, Steps
<1>9. tree' \in Tree /\ tree'.holds \subseteq {"kept"}
  BY <1>1, <1>3 DEF Tree, Origins
<1>10. Bound' /\ TreeIsAnswered' /\ AlreadySaid'
  BY <1>1, <1>8, <1>9 DEF Inv, Bound, TreeIsAnswered, AlreadySaid, At
<1>11. Placed' /\ Rests(run'.mk) /\ Rests(run'.open)
  BY <1>1, <1>6, <1>8 DEF Inv, Placed, CommitsAreOurs, Rests, At, Unclaimed, Working, Asking,
     Answering, Saying
<1>12. AnswersAgree'
  <2>1. run.rv.pass = review.pass => DOMAIN m.res = review.posted
    BY <1>1, <1>4, <1>6 DEF Inv, AnswersAgree, At
  <2>2. m.pass = run.rv.pass /\ AllOrNothing(run.open)
    BY <1>1, <1>6 DEF Inv, Placed, AnswersAgree, At, Working, Asking
  <2> QED
    BY <1>1, <1>8, <2>1, <2>2
       DEF Inv, AnswersAgree, AllOrNothing, Agrees, At, Working, Asking, Answering, Saying
<1> QED
  BY <1>1, <1>8, <1>9, <1>10, <1>11, <1>12, QuietInv DEF Inv, TypeOK, Labels, Used

(* The tree as it was captured, under a rejected attempt. *)
LEMMA RestoredType ==
    ASSUME Inv, run.step \in {"ask", "answer"}
    PROVE  Restored \in Tree /\ Restored.holds \subseteq {"kept"}
BY DEF Inv, TypeOK, TreeIsAnswered, Restored, Tree, RunRecord

LEMMA RetryInv == ASSUME Inv, NEW kind \in DOMAIN run.budget, Retry(kind) PROVE Inv'
<1>1. At("answer") /\ run.budget[kind] > 0
  BY DEF Retry
<1>2. CASE ReportFatal(run.open, 1) /\ UNCHANGED tree
  BY <1>1, <1>2, ReportFatalInv DEF At, Working, Asking, Inv, TypeOK, Tree
<1>3. CASE /\ tree' = Restored /\ UNCHANGED pr /\ UNCHANGED used
           /\ run' = [run EXCEPT !.step = "ask", !.budget[kind] = @ - 1]
  <2>1. run \in RunRecord /\ run.base \subseteq {"kept"}
    BY <1>1 DEF Inv, TypeOK, TreeIsAnswered, At
  <2>2. [run.budget EXCEPT ![kind] = @ - 1] \in [shape : Nat, semantic : Nat, transient : Nat]
    BY <1>1, <2>1 DEF RunRecord
  <2>3. /\ run' \in RunRecord /\ run'.step = "ask" /\ run'.rv = run.rv /\ run'.mk = run.mk
        /\ run'.open = run.open /\ run'.at = run.at /\ run'.redrive = run.redrive
        /\ run'.base = run.base
    BY <1>3, <2>1, <2>2 DEF RunRecord, Steps
  <2>4. tree' \in Tree /\ tree'.holds \subseteq {"kept"}
    BY <1>1, <1>3, RestoredType DEF At
  <2>5. Bound' /\ TreeIsAnswered' /\ AlreadySaid' /\ Placed'
    BY <1>1, <1>3, <2>1, <2>3, <2>4 DEF pr, Inv, Bound, TreeIsAnswered, AlreadySaid, Placed, At,
       Unclaimed, Working, Asking, Answering, Saying
  <2>6. AnswersAgree' /\ Rests(run'.mk) /\ Rests(run'.open)
    BY <1>1, <1>3, <2>3 DEF pr, Inv, AnswersAgree, AllOrNothing, Agrees, At, Working, Asking,
       Answering, Saying, CommitsAreOurs
  <2> QED
    BY <1>3, <2>3, <2>4, <2>5, <2>6, QuietInv DEF pr, Inv, TypeOK, Labels, Used
<1> QED
  BY <1>2, <1>3 DEF Retry

LEMMA AttemptsEndInv ==
    ASSUME Inv, InvokeAbort \/ HarnessFails \/ Unmapped \/ Interrupted \/ InvokeRefused
    PROVE  Inv'
<1>1. run.step \in Working /\ tree \in Tree
  BY DEF InvokeAbort, HarnessFails, Unmapped, Interrupted, InvokeRefused, At, Working, Asking, Inv, TypeOK, Tree
<1>2. InvokeAbort \/ Interrupted => Restored \in Tree
  BY RestoredType DEF InvokeAbort, Interrupted, At
<1>3. \/ \E n \in Nat : ReportFatal(run.open, n) /\ (UNCHANGED tree \/ (tree' = Restored /\ InvokeAbort))
      \/ LeaveOpen /\ Faulty /\ tree' = Restored /\ Interrupted
  BY DEF InvokeAbort, HarnessFails, Unmapped, Interrupted, InvokeRefused
<1> QED
  BY <1>1, <1>2, <1>3, ReportFatalInv, LeaveOpenInv

LEMMA RefuseInv == ASSUME Inv, Refuse \/ Crash PROVE Inv'
BY LeaveOpenInv DEF Refuse, Crash, Inv, TypeOK, Tree

(***************************************************************************)
(* From the answer to the claim that carries it.                           *)
(***************************************************************************)
(* A step of the publication: the marker keeps its pass and its answers.   *)
LEMMA AnsweringInv ==
    ASSUME Inv, run.step \in Answering, run' \in RunRecord, run'.step \in Answering \ {"reply"},
           run'.rv = run.rv, run'.at = run.at, run'.open = run.open,
           run'.mk.pass = run.mk.pass, run'.mk.state = run.mk.state,
           DOMAIN run'.mk.res = DOMAIN run.mk.res, Rests(run.mk)',
           \/ branch' = branch
           \/ \E c \in CommitRecord : c.holds \subseteq {"kept"} /\ branch' = Append(branch, c),
           UNCHANGED <<review, claims, replies, threads, labels>>,
           issues' \in [Units -> Nat], tree' \in Tree, used' \in Used, TreeIsAnswered'
    PROVE  Inv'
<1>1. /\ DOMAIN branch \subseteq DOMAIN branch' /\ \A i \in DOMAIN branch : branch'[i] = branch[i]
  BY BranchGrows DEF Inv, TypeOK
<1>2. ClaimsInv' /\ Rests(run.open)'
  BY <1>1, ClaimsAreInv, ClaimsFrame, RestsOn DEF Inv, CommitsAreOurs, Rests
<1>3. Bound' /\ AlreadySaid' /\ Placed'
  BY DEF Inv, Bound, AlreadySaid, Placed, At, Unclaimed, Working, Asking, Answering, Saying
<1>4. AnswersAgree'
  BY DEF Inv, AnswersAgree, AllOrNothing, Agrees, At, Working, Asking, Answering, Saying
<1> QED
  BY <1>2, <1>3, <1>4, WorkInv DEF Inv, TypeOK, Labels

LEMMA AssertDivergedInv == ASSUME Inv, AssertDiverged PROVE Inv'
<1>1. At("publish") /\ UNCHANGED tree /\ run \in RunRecord
  BY DEF AssertDiverged, Inv, TypeOK
<1>2. CASE ReportFatal(run.mk, 1)
  BY <1>1, <1>2, ReportFatalInv DEF At, Working, Answering, Inv, TypeOK, Tree
<1>3. CASE /\ run' = [run EXCEPT !.step = "persist", !.todo = Answered(run.mk, "deferred")]
           /\ UNCHANGED <<pr, used>>
  <2>1. Answered(run.mk, "deferred") \subseteq Units
    BY <1>1, ResolutionMaps, ClaimFields DEF Answered, RunRecord
  <2>2. /\ run' \in RunRecord /\ run'.step = "persist" /\ run'.rv = run.rv /\ run'.mk = run.mk
        /\ run'.open = run.open /\ run'.at = run.at
    BY <1>1, <1>3, <2>1 DEF RunRecord, Steps
  <2>3. TreeIsAnswered' /\ Rests(run.mk)'
    BY <1>1, <1>3, <2>2 DEF pr, Inv, TreeIsAnswered, CommitsAreOurs, Rests, At
  <2> QED
    BY <1>1, <1>3, <2>2, <2>3, AnsweringInv DEF pr, At, Answering, Inv, TypeOK, Tree, Used
<1> QED
  BY <1>2, <1>3 DEF AssertDiverged

(* Recording where a deferral went keeps everything else the answer says.  *)
Tracking(m, u, t) == [m EXCEPT !.res[u].tracked = t]

LEMMA TrackedType ==
    ASSUME NEW m \in Claim, NEW u \in Units, NEW t \in {"filed", "unfiled", "absent"}
    PROVE  /\ Tracking(m, u, t) \in Claim /\ Tracking(m, u, t).pass = m.pass
           /\ Tracking(m, u, t).state = m.state /\ Tracking(m, u, t).commit = m.commit
           /\ DOMAIN Tracking(m, u, t).res = DOMAIN m.res
<1> DEFINE res == [m.res EXCEPT ![u].tracked = t]
<1>1. m.res \in ResolutionMap /\ DOMAIN m.res \subseteq Units /\ m.res \in [DOMAIN m.res -> Resolution]
  BY ClaimFields, ResolutionMaps
<1>2. DOMAIN res = DOMAIN m.res /\ res \in [DOMAIN res -> Resolution]
  <2>1. DOMAIN res = DOMAIN m.res
    OBVIOUS
  <2>2. \A w \in DOMAIN m.res : res[w] \in Resolution
    <3>1. SUFFICES ASSUME NEW w \in DOMAIN m.res PROVE res[w] \in Resolution
      OBVIOUS
    <3>2. m.res[w] \in Resolution
      BY <1>1
    <3>3. CASE w = u
      <4>1. res[w] = [m.res[w] EXCEPT !.tracked = t]
        BY <3>3
      <4> QED BY <3>2, <4>1 DEF Resolution, TrackedStates
    <3>4. CASE w # u
      BY <3>2, <3>4
    <3> QED BY <3>3, <3>4
  <2> QED BY <2>1, <2>2
<1>3. res \in ResolutionMap
  BY <1>1, <1>2, ResolutionMaps
<1>4. Tracking(m, u, t) = [m EXCEPT !.res = res]
  BY DEF Claim, Tracking
<1> HIDE DEF res
<1> QED
  BY <1>2, <1>3, <1>4 DEF Claim, ResolutionMap

(* Filing an issue writes one of them, the run's memory and the counters. *)
LEMMA FileIssueType ==
    ASSUME Inv, NEW u \in Units, FileIssue(u)
    PROVE  /\ \E t \in {"filed", "unfiled"} : Track(u, t)
           /\ issues' \in [Units -> Nat] /\ used' \in Used
           /\ \/ issues' = issues
              \/ /\ issues' = [issues EXCEPT ![u] = @ + 1]
                 /\ issues[u] > 0 => used'.unread[u] = used.unread[u] + 1
           /\ \A v \in Units : used'.unread[v] >= used.unread[v]
<1>1. used \in Used /\ issues \in [Units -> Nat]
  BY DEF Inv, TypeOK, Used
<1> DEFINE unread == Failed(issues[u] = 0)
<1>2. /\ unread \in Nat /\ (issues[u] > 0 => unread = 1)
  BY <1>1 DEF Failed
<1>3. \A lost \in BOOLEAN : Failed(~lost) \in Nat
  BY DEF Failed
<1> HIDE DEF unread
<1>4. PICK lost \in BOOLEAN :
        /\ \/ /\ Track(u, IF lost THEN "unfiled" ELSE "filed")
              /\ issues' = [issues EXCEPT ![u] = @ + 1]
           \/ ~lost /\ Track(u, "filed") /\ UNCHANGED issues
           \/ ~lost /\ Track(u, "unfiled") /\ UNCHANGED issues
        /\ used' = [used EXCEPT !.faults = @ + (unread + Failed(~lost)),
                                !.unread[u] = @ + unread]
  BY DEF FileIssue, unread
<1>5. /\ used' \in Used /\ used'.unread[u] = used.unread[u] + unread
      /\ \A v \in Units : used'.unread[v] >= used.unread[v]
  <2>1. unread + Failed(~lost) \in Nat /\ used.unread \in [Units -> Nat]
    BY <1>1, <1>2, <1>3 DEF Used
  <2>2. /\ used'.moves = used.moves /\ used'.faults = used.faults + (unread + Failed(~lost))
        /\ used'.unread = [used.unread EXCEPT ![u] = @ + unread]
        /\ used' = [moves |-> used'.moves, faults |-> used'.faults, unread |-> used'.unread]
    BY <1>1, <1>4 DEF Used
  <2>3. used.moves \in Nat /\ used.faults + (unread + Failed(~lost)) \in Nat
    BY <1>1, <2>1 DEF Used
  <2>4. /\ used'.unread \in [Units -> Nat] /\ used'.unread[u] = used.unread[u] + unread
        /\ \A v \in Units : used'.unread[v] >= used.unread[v]
    BY <1>2, <2>1, <2>2
  <2> QED
    BY <2>2, <2>3, <2>4 DEF Used
<1>6. \E t \in {"filed", "unfiled"} : Track(u, t)
  BY <1>4
<1>7. issues' = issues \/ issues' = [issues EXCEPT ![u] = @ + 1]
  BY <1>4
<1> QED
  BY <1>1, <1>2, <1>5, <1>6, <1>7

LEMMA PersistDeferredInv == ASSUME Inv, NEW u \in Units, PersistDeferred(u) PROVE Inv'
<1> DEFINE n(t) == Tracking(run.mk, u, t)
<1>1. /\ At("persist") /\ u \in run.todo /\ UNCHANGED <<branch, review, claims, replies, threads, labels>>
      /\ run \in RunRecord /\ tree \in Tree /\ tree.holds \subseteq {"kept"}
  BY DEF PersistDeferred, Inv, TypeOK, Tree, TreeIsAnswered, At
<1>2. PICK t \in {"filed", "unfiled", "absent"}, wrote \in BOOLEAN :
        run' = [run EXCEPT !.todo = run.todo \ {u}, !.wrote = wrote, !.mk = n(t)]
  <2>1. \A t : [run EXCEPT !.todo = run.todo \ {u}, !.mk.res[u].tracked = t]
               = [run EXCEPT !.todo = run.todo \ {u}, !.wrote = run.wrote, !.mk = n(t)]
    BY <1>1 DEF RunRecord, Tracking
  <2>2. \A t : [run EXCEPT !.todo = run.todo \ {u}, !.wrote = TRUE, !.mk.res[u].tracked = t]
               = [run EXCEPT !.todo = run.todo \ {u}, !.wrote = TRUE, !.mk = n(t)]
    BY <1>1 DEF RunRecord, Tracking
  <2>3. run.wrote \in BOOLEAN
    BY <1>1 DEF RunRecord
  <2> HIDE DEF n
  <2> QED
    <3>1. CASE FileIssue(u)
      <4>1. PICK t \in {"filed", "unfiled"} : Track(u, t)
        BY <3>1, FileIssueType
      <4> QED BY <2>1, <2>3, <4>1 DEF Track
    <3> QED BY <2>1, <2>2, <2>3, <3>1 DEF PersistDeferred, Track
<1>3. /\ n(t) \in Claim /\ n(t).pass = run.mk.pass /\ n(t).state = run.mk.state
      /\ n(t).commit = run.mk.commit /\ DOMAIN n(t).res = DOMAIN run.mk.res
  <2>1. run.mk \in Claim
    BY <1>1 DEF RunRecord
  <2> QED BY <2>1, TrackedType
<1> HIDE DEF n
<1>4. /\ run' \in RunRecord /\ run'.step = run.step /\ run'.rv = run.rv /\ run'.mk = n(t)
      /\ run'.open = run.open /\ run'.at = run.at
  BY <1>1, <1>2, <1>3 DEF RunRecord
<1>5. tree' \in Tree /\ tree'.holds \subseteq {"kept"}
  BY <1>1 DEF PersistDeferred, Tree, Origins
<1>6. issues' \in [Units -> Nat] /\ used' \in Used
  <2>1. CASE FileIssue(u)
    BY <2>1, FileIssueType
  <2>2. CASE UNCHANGED <<issues, used>>
    BY <2>2 DEF Inv, TypeOK, Used
  <2> QED BY <2>1, <2>2 DEF PersistDeferred
<1>7. TreeIsAnswered' /\ Rests(run.mk)'
  BY <1>1, <1>3, <1>4, <1>5 DEF Inv, TreeIsAnswered, CommitsAreOurs, Rests, At
<1> QED
  BY <1>1, <1>3, <1>4, <1>5, <1>6, <1>7, AnsweringInv DEF At, Answering, Inv, TypeOK, Used

LEMMA PersistedInv == ASSUME Inv, Persisted PROVE Inv'
<1>1. At("persist") /\ Goto("commit") /\ UNCHANGED <<branch, review, claims, replies, threads, issues, labels, tree, used>>
  BY DEF Persisted, pr
<1>2. run'.step = "commit"
  BY <1>1, GotoFields DEF Inv, TypeOK, Steps
<1>3. TreeIsAnswered'
  BY <1>1, <1>2 DEF Inv, TreeIsAnswered, At
<1> QED
  BY <1>1, <1>3, GotoInv DEF At, Answering, Steps, Inv, TypeOK, Tree, Used

LEMMA CommitInv == ASSUME Inv, Commit PROVE Inv'
<1>1. At("commit") /\ run \in RunRecord /\ tree \in Tree /\ tree.holds \subseteq {"kept"}
  BY DEF Commit, Inv, TypeOK, Tree, TreeIsAnswered, At
<1>2. CASE Goto("record") /\ UNCHANGED <<pr, tree, used>>
  <2>1. run'.step = "record"
    BY <1>1, <1>2, GotoFields DEF Steps
  <2>2. TreeIsAnswered'
    BY <1>2, <2>1 DEF TreeIsAnswered, At
  <2> QED
    BY <1>1, <1>2, <2>2, GotoInv DEF pr, At, Answering, Steps, Inv, TypeOK, Used
<1>3. CASE ReportFatal(run.open, 1) /\ UNCHANGED tree
  BY <1>1, <1>3, ReportFatalInv DEF At, Working, Answering
<1>4. CASE /\ run' = [run EXCEPT !.step = "check", !.sent = tree.holds]
           /\ tree' = [at |-> NoHead, holds |-> {}] /\ UNCHANGED <<pr, used>>
  <2>1. /\ run' \in RunRecord /\ run'.step = "check" /\ run'.rv = run.rv /\ run'.mk = run.mk
        /\ run'.open = run.open /\ run'.at = run.at /\ run'.sent = tree.holds
    BY <1>1, <1>4 DEF RunRecord, Steps, Tree
  <2>2. TreeIsAnswered' /\ Rests(run.mk)' /\ tree' \in Tree
    BY <1>1, <1>4, <2>1 DEF pr, Inv, TreeIsAnswered, CommitsAreOurs, Rests, At, Tree, NoHead
  <2> QED
    BY <1>1, <1>4, <2>1, <2>2, AnsweringInv DEF pr, At, Answering, Inv, TypeOK, Used
<1> QED
  BY <1>2, <1>3, <1>4 DEF Commit

LEMMA CheckRemoteInv == ASSUME Inv, CheckRemote PROVE Inv'
<1>1. At("check") /\ UNCHANGED tree
  BY DEF CheckRemote
<1>2. CASE LeaveOpen /\ UNCHANGED used
  BY <1>1, <1>2, LeaveOpenInv DEF Inv, TypeOK, Tree
<1>3. CASE Goto("push") /\ UNCHANGED pr /\ (Faulty \/ UNCHANGED used)
  <2>1. run'.step = "push" /\ run'.sent = run.sent
    BY <1>3, GotoFields DEF Inv, TypeOK, Steps
  <2>2. TreeIsAnswered'
    BY <1>1, <2>1 DEF Inv, TreeIsAnswered, At
  <2>3. used' \in Used
    BY <1>3, FaultyType DEF Inv, TypeOK, Used
  <2> QED
    BY <1>1, <1>3, <2>2, <2>3, GotoInv DEF pr, At, Answering, Steps, Inv, TypeOK, Tree
<1> QED
  BY <1>2, <1>3 DEF CheckRemote, pr

LEMMA PushInv == ASSUME Inv, Push PROVE Inv'
<1>1. At("push") /\ run \in RunRecord /\ run.sent \subseteq {"kept"} /\ branch \in Seq(CommitRecord)
  BY DEF Push, Inv, TypeOK, TreeIsAnswered, At
<1> DEFINE c == [by |-> "leg", holds |-> run.sent]
<1>2. c \in CommitRecord /\ c.holds \subseteq {"kept"} /\ c.by = "leg" /\ Pushed = Append(branch, c)
  BY <1>1 DEF CommitRecord, Origins, Pushed
<1> HIDE DEF c
<1>3. CASE LeaveOpen /\ UNCHANGED <<tree, used>>
  BY <1>3, LeaveOpenInv DEF Inv, TypeOK, Tree
<1>4. CASE /\ branch' \in {branch, Pushed} /\ Finish /\ Faulty
           /\ UNCHANGED <<review, claims, replies, threads, issues, labels, tree>>
  <2>1. DOMAIN branch \subseteq DOMAIN branch' /\ \A i \in DOMAIN branch : branch'[i] = branch[i]
    BY <1>1, <1>2, <1>4, BranchGrows DEF Inv
  <2>2. ClaimsInv'
    BY <1>4, <2>1, ClaimsAreInv, ClaimsFrame
  <2> QED
    BY <1>2, <1>4, <2>2, FinishInv, FaultyType DEF Inv, TypeOK, Labels, Tree, Used
<1>5. CASE /\ branch' = Pushed
           /\ run' = [run EXCEPT !.step = "record", !.mk.commit = head + 1]
           /\ tree' = [at |-> head + 1, holds |-> {}]
           /\ UNCHANGED <<review, claims, replies, threads, issues, labels, used>>
  <2> DEFINE m == [run.mk EXCEPT !.commit = head + 1]
  <2>1. head \in Nat /\ head + 1 \in DOMAIN branch' /\ branch'[head + 1] = c
    BY <1>1, <1>2, <1>5, AppendProperties DEF head
  <2>2. /\ m \in Claim /\ m.pass = run.mk.pass /\ m.state = run.mk.state /\ m.res = run.mk.res
        /\ m.commit = head + 1
    <3>1. run.mk \in Claim /\ head + 1 \in Nat
      BY <1>1, <2>1 DEF RunRecord
    <3> QED BY <3>1 DEF Claim
  <2>3. run' = [run EXCEPT !.step = "record", !.mk = m]
    BY <1>1, <1>5 DEF RunRecord
  <2> HIDE DEF m
  <2>4. /\ run' \in RunRecord /\ run'.step = "record" /\ run'.rv = run.rv /\ run'.mk = m
        /\ run'.open = run.open /\ run'.at = run.at
    BY <1>1, <2>2, <2>3 DEF RunRecord, Steps
  <2>5. Rests(run.mk)' /\ TreeIsAnswered' /\ tree' \in Tree
    BY <1>2, <1>5, <2>1, <2>2, <2>4 DEF Rests, TreeIsAnswered, At, Tree
  <2> QED
    BY <1>1, <1>2, <1>5, <2>2, <2>4, <2>5, AnsweringInv DEF At, Answering, Inv, TypeOK, Used
<1> QED
  BY <1>3, <1>4, <1>5 DEF Push

LEMMA RecordInv == ASSUME Inv, Record PROVE Inv'
<1>1. At("record") /\ UNCHANGED tree /\ run \in RunRecord
  BY DEF Record, Inv, TypeOK
<1>2. CASE ReportFatal(run.mk, 1)
  BY <1>1, <1>2, ReportFatalInv DEF At, Working, Answering, Inv, TypeOK, Tree
<1>3. CASE /\ Edit(run.mk)
           /\ \E seen \in SUBSET Said :
                /\ run' = [run EXCEPT !.step = "reply", !.todo = DOMAIN run.mk.res,
                             !.already = IF run.redrive THEN {} ELSE seen,
                             !.missed = Said \ seen]
                /\ Charge(Failed(seen = Said))
           /\ UNCHANGED <<branch, review, replies, threads, issues, labels>>
  <2>1. /\ run.mk \in Claim /\ run.mk.pass = claims[run.at].pass /\ Rests(run.mk)
        /\ AllOrNothing(run.mk) /\ run.mk.state = "started" /\ run.at \in DOMAIN claims
    BY <1>1 DEF Inv, Placed, CommitsAreOurs, AnswersAgree, RunRecord, At, Working, Answering
  <2>2. ClaimsInv'
    BY <1>3, <2>1, ClaimsAreInv, ClaimsEdited
  <2>3. DOMAIN claims' = DOMAIN claims /\ claims'[run.at] = run.mk
    BY <1>3, <2>1, ClaimsEdit, ClaimsAreInv DEF ClaimsInv
  <2>4. DOMAIN run.mk.res \in SUBSET Units
    BY <2>1, ClaimFields, ResolutionMaps
  <2> PICK seen \in SUBSET Said :
        /\ run' = [run EXCEPT !.step = "reply", !.todo = DOMAIN run.mk.res,
                     !.already = IF run.redrive THEN {} ELSE seen, !.missed = Said \ seen]
        /\ Charge(Failed(seen = Said))
    BY <1>3
  <2> DEFINE already == IF run.redrive THEN {} ELSE seen
             missed == Said \ seen
  <2>5. already \in SUBSET Units /\ missed \in SUBSET Units
    BY DEF Said
  <2>6. ~run.redrive =>
          \A u \in Units : replies[run.rv.pass][u] > 0 => u \in already \cup missed
    BY DEF Said
  <2>12. used' \in Used
    BY ChargeType DEF Inv, TypeOK, Used, Failed
  <2> HIDE DEF already, missed
  <2>7. /\ run' \in RunRecord /\ run'.step = "reply" /\ run'.rv = run.rv /\ run'.mk = run.mk
        /\ run'.open = run.open /\ run'.at = run.at /\ run'.redrive = run.redrive
        /\ run'.todo = DOMAIN run.mk.res /\ run'.already = already /\ run'.missed = missed
    BY <1>1, <2>4, <2>5 DEF RunRecord, Steps, already, missed
  <2>8. Bound' /\ TreeIsAnswered' /\ Rests(run.mk)' /\ Rests(run.open)'
    BY <1>1, <1>3, <2>7 DEF Inv, Bound, TreeIsAnswered, CommitsAreOurs, Rests, At
  <2>9. AlreadySaid'
    BY <1>3, <2>4, <2>6, <2>7 DEF AlreadySaid
  <2>10. Placed'
    BY <1>1, <2>1, <2>3, <2>7 DEF Inv, Placed, At, Unclaimed, Working, Asking, Answering, Saying
  <2>11. AnswersAgree'
    BY <1>1, <1>3, <2>2, <2>7
       DEF Inv, AnswersAgree, ClaimsInv, AllOrNothing, Agrees, At, Working, Asking, Answering, Saying
  <2> QED
    BY <1>1, <1>3, <2>2, <2>7, <2>8, <2>9, <2>10, <2>11, <2>12, WorkInv DEF Inv, TypeOK, Labels, Tree
<1> QED
  BY <1>1, <1>2, <1>3 DEF Record

(***************************************************************************)
(* Saying the answers.                                                     *)
(***************************************************************************)
(* A reply adds to the replies to that finding, in that pass, counted to 2. *)
LEMMA RepliesGrow ==
    ASSUME Inv, At("reply"), NEW u \in Units, ReplyAndResolve(u)
    PROVE  /\ replies' \in [1..MaxPass -> [Units -> Nat]]
           /\ \A p \in 1..MaxPass, v \in Units :
                replies'[p][v] # replies[p][v] =>
                  p = run.rv.pass /\ v = u /\ u \in run.todo \ run.already
<1>1. run.rv.pass \in 1..MaxPass /\ replies \in [1..MaxPass -> [Units -> Nat]]
  BY DEF Inv, Bound, TypeOK, At
<1> DEFINE n == replies[run.rv.pass][u]
<1>2. \A posts \in 0..2 : Min({2, n + posts}) \in Nat
  <2> SUFFICES ASSUME NEW posts \in 0..2 PROVE Min({2, n + posts}) \in Nat
    OBVIOUS
  <2>1. n + posts \in Nat
    BY <1>1
  <2>2. Min({2, n + posts}) \in {2, n + posts}
    BY <2>1, MinIsMember
  <2> QED BY <2>1, <2>2
<1>3. \/ replies' = replies
      \/ /\ u \notin run.already
         /\ \E posts \in 0..2 :
              replies' = [replies EXCEPT ![run.rv.pass][u] = Min({2, n + posts})]
  BY DEF ReplyAndResolve
<1>4. u \in run.todo
  BY DEF ReplyAndResolve
<1> HIDE DEF n
<1>5. CASE replies' = replies
  BY <1>1, <1>5
<1>6. ASSUME u \notin run.already, NEW posts \in 0..2,
             replies' = [replies EXCEPT ![run.rv.pass][u] = Min({2, n + posts})]
      PROVE  /\ replies' \in [1..MaxPass -> [Units -> Nat]]
             /\ \A p \in 1..MaxPass, v \in Units :
                  replies'[p][v] # replies[p][v] =>
                    p = run.rv.pass /\ v = u /\ u \in run.todo \ run.already
  BY <1>1, <1>2, <1>4, <1>6
<1> QED
  BY <1>3, <1>5, <1>6

LEMMA ReplyAndResolveInv == ASSUME Inv, NEW u \in Units, ReplyAndResolve(u) PROVE Inv'
<1>1. /\ At("reply") /\ run \in RunRecord /\ run' = [run EXCEPT !.todo = run.todo \ {u}]
      /\ UNCHANGED <<branch, review, claims, issues, labels, tree>>
  BY DEF ReplyAndResolve, Inv, TypeOK
<1>2. /\ run' \in RunRecord /\ run'.step = run.step /\ run'.rv = run.rv /\ run'.mk = run.mk
      /\ run'.open = run.open /\ run'.at = run.at /\ run'.redrive = run.redrive
      /\ run'.todo = run.todo \ {u} /\ run'.already = run.already
      /\ run'.missed = run.missed
  BY <1>1 DEF RunRecord
<1>3. /\ replies' \in [1..MaxPass -> [Units -> Nat]]
      /\ \A p \in 1..MaxPass, v \in Units : replies'[p][v] # replies[p][v] => v = u
  BY <1>1, RepliesGrow
<1>4. threads' \subseteq (1..MaxPass) \X Units
  <2>1. threads \subseteq (1..MaxPass) \X Units
    BY DEF Inv, TypeOK
  <2>2. run.rv.pass \in 1..MaxPass
    BY <1>1 DEF Inv, Bound, At
  <2>3. threads' = threads \cup {<<run.rv.pass, u>>} \/ threads' = threads
    BY DEF ReplyAndResolve
  <2> QED BY <2>1, <2>2, <2>3
<1>5. used' \in Used
  <2>1. PICK posts \in 0..2, resolved \in BOOLEAN :
          Charge(Failed(posts = 1) + Failed(resolved))
    BY DEF ReplyAndResolve
  <2>2. Failed(posts = 1) + Failed(resolved) \in Nat
    BY DEF Failed
  <2> QED BY <2>1, <2>2, ChargeType DEF Inv, TypeOK, Used
<1>6. ClaimsInv'
  BY <1>1, ClaimsAreInv, ClaimsFrame
<1>7. AlreadySaid'
  <2>1. run.rv.pass \in 1..MaxPass /\ run.todo \in SUBSET Units
    BY <1>1 DEF Inv, Bound, At, RunRecord
  <2>2. \A v \in run.todo \ {u} : replies'[run.rv.pass][v] = replies[run.rv.pass][v]
    BY <1>3, <2>1
  <2> QED
    BY <1>1, <1>2, <2>2 DEF Inv, AlreadySaid, At
<1>8. Bound' /\ TreeIsAnswered' /\ Rests(run.mk)' /\ Rests(run.open)' /\ Placed'
  BY <1>1, <1>2 DEF Inv, Bound, TreeIsAnswered, CommitsAreOurs, Rests, Placed, At, Unclaimed,
     Working, Asking, Answering, Saying
<1>9. AnswersAgree'
  BY <1>1, <1>2 DEF Inv, AnswersAgree, AllOrNothing, Agrees, At, Working, Asking, Answering, Saying
<1> QED
  BY <1>1, <1>2, <1>3, <1>4, <1>5, <1>6, <1>7, <1>8, <1>9, WorkInv DEF Inv, TypeOK, Labels, Tree

(* Once the answers are on the review, it and the claim say the same; the  *)
(* claim of this pass still reads started, so no other is spoken of.       *)
LEMMA EditReviewInv == ASSUME Inv, EditReview PROVE Inv'
<1>1. At("reply") /\ UNCHANGED tree /\ run \in RunRecord /\ review \in ReviewRecord
  BY DEF EditReview, Inv, TypeOK
<1>2. CASE ReportFatal(run.mk, 1)
  BY <1>1, <1>2, ReportFatalInv DEF At, Working, Answering, Inv, TypeOK, Tree
<1> DEFINE answer == [u \in DOMAIN review.answer |-> IF u \in DOMAIN run.mk.res
                                                     THEN run.mk.res[u].word ELSE review.answer[u]]
           next == [review EXCEPT !.answer = answer]
<1>3. CASE /\ review' = IF review.pass # run.rv.pass THEN review ELSE next
           /\ Goto("summary")
           /\ UNCHANGED <<branch, claims, replies, threads, issues, labels, used>>
  <2>1. /\ run.mk \in Claim /\ run.mk.pass = run.rv.pass /\ run.open.pass = run.rv.pass
        /\ run.at \in DOMAIN claims /\ claims[run.at].pass = run.rv.pass
        /\ claims[run.at].state = "started"
        /\ AllOrNothing(run.mk) /\ AllOrNothing(run.open)
        /\ run.rv.pass = review.pass => DOMAIN run.mk.res = review.posted
    BY <1>1 DEF Inv, Placed, AnswersAgree, RunRecord, At, Working, Answering, Saying
  <2>2. /\ DOMAIN run.mk.res \subseteq Units /\ run.mk.res \in [DOMAIN run.mk.res -> Resolution]
        /\ DOMAIN review.answer \in SUBSET Units
        /\ review.answer \in [DOMAIN review.answer -> ResolutionWords \cup {"open"}]
    BY <1>1, <2>1, ClaimFields, ResolutionMaps DEF ReviewRecord
  <2>3. answer \in [DOMAIN review.answer -> ResolutionWords \cup {"open"}]
    BY <2>2 DEF Resolution
  <2>4. review.posted \subseteq DOMAIN review.answer
    BY DEF Inv, AnswersAgree
  <2>5. run.rv.pass = review.pass =>
          \A u \in review.posted : answer[u] = run.mk.res[u].word
    BY <2>1, <2>4
  <2>6. DOMAIN answer = DOMAIN review.answer
    OBVIOUS
  <2> HIDE DEF answer
  <2>7. /\ next \in ReviewRecord /\ next.pass = review.pass /\ next.posted = review.posted
        /\ next.answer = answer
    BY <1>1, <2>2, <2>3 DEF ReviewRecord
  <2> HIDE DEF next
  <2>8. /\ review' \in ReviewRecord /\ review'.pass = review.pass /\ review'.posted = review.posted
        /\ review'.posted \subseteq DOMAIN review'.answer
        /\ run.rv.pass = review.pass => review'.answer = answer
        /\ run.rv.pass # review.pass => review' = review
    BY <1>1, <1>3, <2>4, <2>6, <2>7
  <2>9. ClaimsInv'
    <3>1. ClaimsInv
      BY ClaimsAreInv
    <3>2. \A i \in DOMAIN claims : AllOrNothing(claims[i])'
      BY <1>3, <2>8, <3>1 DEF ClaimsInv, AllOrNothing
    <3>3. \A i \in DOMAIN claims :
            claims[i].state = "complete" /\ ~claims[i].blocked => Agrees(claims[i])'
      <4> SUFFICES ASSUME NEW i \in DOMAIN claims, claims[i].state = "complete",
                          ~claims[i].blocked
                   PROVE  Agrees(claims[i])'
        OBVIOUS
      <4>1. i # run.at /\ claims[i].pass # run.rv.pass
        BY <2>1, <3>1 DEF ClaimsInv
      <4> QED
        BY <1>3, <2>8, <3>1, <4>1 DEF ClaimsInv, Agrees
    <3> QED
      BY <1>3, <2>8, <3>1, <3>2, <3>3 DEF ClaimsInv, Rests
  <2>10. /\ run' \in RunRecord /\ run'.step = "summary" /\ run'.rv = run.rv /\ run'.mk = run.mk
         /\ run'.open = run.open /\ run'.at = run.at /\ run'.redrive = run.redrive
    BY <1>1, <1>3, GotoFields DEF Steps
  <2>11. Bound' /\ TreeIsAnswered' /\ Rests(run.mk)' /\ Rests(run.open)' /\ AlreadySaid'
    BY <1>1, <1>3, <2>8, <2>10 DEF Inv, Bound, TreeIsAnswered, CommitsAreOurs, Rests, AlreadySaid, At
  <2>12. Placed'
    BY <1>1, <1>3, <2>10 DEF Inv, Placed, At, Unclaimed, Working, Asking, Answering, Saying
  <2>13. AnswersAgree'
    <3>1. Agrees(run.mk)'
      BY <2>1, <2>5, <2>8, <2>10 DEF Agrees
    <3>2. AllOrNothing(run.mk)' /\ AllOrNothing(run.open)'
      BY <2>1, <2>8, <2>10 DEF AllOrNothing
    <3>3. run'.rv.pass = review'.pass => run'.rv.posted = review'.posted
      BY <1>1, <2>8, <2>10 DEF Inv, AnswersAgree, At
    <3> QED
      BY <2>8, <2>9, <2>10, <3>1, <3>2, <3>3
         DEF AnswersAgree, ClaimsInv, At, Working, Asking, Answering, Saying
  <2> QED
    BY <1>1, <1>3, <2>8, <2>9, <2>10, <2>11, <2>12, <2>13, WorkInv
       DEF Inv, TypeOK, Labels, Tree, Used
<1> QED
  BY <1>1, <1>2, <1>3 DEF EditReview

(* A step that says the answers: the claim is rewritten as the marker the  *)
(* run then holds.                                                         *)
LEMMA SayingInv ==
    ASSUME Inv, NEW m \in Claim, Edit(m), run.step \in Saying \ {"label"},
           m.pass = run.mk.pass, m.commit = run.mk.commit, m.res = run.mk.res,
           run' \in RunRecord, run'.step \in Saying, run'.step # "label" => m.state = "started",
           run'.mk = m, run'.rv = run.rv, run'.at = run.at, run'.open = run.open,
           UNCHANGED <<branch, review, replies, threads, issues, labels, tree, used>>
    PROVE  Inv'
<1>1. /\ run.at \in DOMAIN claims /\ claims[run.at].pass = run.rv.pass /\ run.mk.pass = run.rv.pass
      /\ run.open.pass = run.rv.pass /\ run.open.state = "started"
      /\ Rests(run.mk) /\ AllOrNothing(run.mk) /\ AllOrNothing(run.open) /\ Agrees(run.mk)
  BY DEF Inv, Placed, CommitsAreOurs, AnswersAgree, Working, Saying
<1>2. Rests(m) /\ AllOrNothing(m) /\ Agrees(m)
  BY <1>1 DEF Rests, AllOrNothing, Agrees
<1>3. ClaimsInv' /\ DOMAIN claims' = DOMAIN claims /\ claims'[run.at] = m
  BY <1>1, <1>2, ClaimsEdited, ClaimsEdit, ClaimsAreInv DEF ClaimsInv
<1>4. Bound' /\ TreeIsAnswered' /\ AlreadySaid' /\ Rests(run.mk)' /\ Rests(run.open)'
  BY <1>2 DEF Inv, Bound, TreeIsAnswered, AlreadySaid, CommitsAreOurs, Rests, At, Saying
<1>5. Placed'
  BY <1>1, <1>3 DEF Placed, At, Unclaimed, Working, Asking, Answering, Saying
<1>6. AnswersAgree'
  BY <1>1, <1>2, <1>3 DEF Inv, AnswersAgree, ClaimsInv, AllOrNothing, Agrees, At, Working, Asking,
     Answering, Saying
<1> QED
  BY <1>3, <1>4, <1>5, <1>6, WorkInv DEF Inv, TypeOK, Labels, Tree, Used

LEMMA SummarizeInv == ASSUME Inv, Summarize PROVE Inv'
<1>1. At("summary") /\ UNCHANGED tree /\ run \in RunRecord
  BY DEF Summarize, Inv, TypeOK
<1>2. CASE ReportFatal(run.mk, 1)
  BY <1>1, <1>2, ReportFatalInv DEF At, Working, Saying, Inv, TypeOK, Tree
<1>3. CASE /\ Edit(run.mk) /\ Goto("complete")
           /\ UNCHANGED <<branch, review, replies, threads, issues, labels, used>>
  <2>1. run.mk \in Claim /\ run.mk.state = "started"
    BY <1>1 DEF Inv, Placed, RunRecord, At, Working, Saying
  <2>2. /\ run' \in RunRecord /\ run'.step = "complete" /\ run'.rv = run.rv /\ run'.mk = run.mk
        /\ run'.open = run.open /\ run'.at = run.at
    BY <1>1, <1>3, GotoFields DEF Steps
  <2> QED
    BY <1>1, <1>3, <2>1, <2>2, SayingInv DEF At, Saying
<1> QED
  BY <1>1, <1>2, <1>3 DEF Summarize

LEMMA CompleteInv == ASSUME Inv, Complete PROVE Inv'
<1> DEFINE m == [run.mk EXCEPT !.state = "complete"]
<1>1. At("complete") /\ UNCHANGED <<branch, review, replies, threads, issues, labels, tree>>
      /\ run \in RunRecord
  BY DEF Complete, Inv, TypeOK
<1>2. CASE Finish /\ Faulty /\ UNCHANGED claims
  <2>1. ClaimsInv'
    BY <1>1, <1>2, ClaimsAreInv, ClaimsFrame
  <2> QED
    BY <1>1, <1>2, <2>1, FinishInv, FaultyType DEF Inv, TypeOK, Labels, Tree, Used
<1>3. CASE Edit(m) /\ run' = [run EXCEPT !.step = "label", !.mk = m] /\ UNCHANGED used
  <2>1. m \in Claim /\ m.pass = run.mk.pass /\ m.commit = run.mk.commit /\ m.res = run.mk.res
    BY <1>1 DEF RunRecord, Claim
  <2> HIDE DEF m
  <2>2. /\ run' \in RunRecord /\ run'.step = "label" /\ run'.rv = run.rv /\ run'.mk = m
        /\ run'.open = run.open /\ run'.at = run.at
    BY <1>1, <1>3, <2>1 DEF RunRecord, Steps
  <2> QED
    BY <1>1, <1>3, <2>1, <2>2, SayingInv DEF At, Saying
<1> QED
  BY <1>2, <1>3 DEF Complete

LEMMA ChooseLabelInv == ASSUME Inv, ChooseLabel PROVE Inv'
<1>1. At("label") /\ UNCHANGED <<branch, review, claims, replies, threads, issues, labels, tree, used>>
  BY DEF ChooseLabel, pr
<1>2. PICK c \in Convergence :
        run' = [run EXCEPT !.step = "mark", !.next =
                  ResolvePassLabelWithCoverage(AsPolicy(run.mk), run.others, c)]
  BY DEF ChooseLabel
<1>3. ResolvePassLabelWithCoverage(AsPolicy(run.mk), run.others, c) \in OutcomeLabels
  BY DEF ResolvePassLabelWithCoverage, ResolvePassLabel, OutcomeLabels
<1>4. /\ run' \in RunRecord /\ run'.step = "mark" /\ run'.next \in OutcomeLabels
      /\ run'.rv = run.rv /\ run'.mk = run.mk /\ run'.open = run.open
  BY <1>2, <1>3 DEF Inv, TypeOK, RunRecord, Steps
<1>5. Bound' /\ TreeIsAnswered' /\ AlreadySaid' /\ Placed'
  BY <1>1, <1>4 DEF Inv, Bound, TreeIsAnswered, AlreadySaid, Placed, At, Unclaimed, Working, Asking,
     Answering, Saying
<1>6. AnswersAgree' /\ Rests(run'.mk) /\ Rests(run'.open)
  BY <1>1, <1>4 DEF Inv, AnswersAgree, AllOrNothing, Agrees, At, Working, Asking, Answering, Saying,
     CommitsAreOurs
<1> QED
  BY <1>1, <1>4, <1>5, <1>6, QuietInv DEF Inv, TypeOK, Labels, Tree, Used

LEMMA RemoveWorktreeType ==
    ASSUME Inv, RemoveWorktree
    PROVE  tree' \in Tree
BY DEF RemoveWorktree, Inv, TypeOK, Tree, NoHead

LEMMA LabelWriteType ==
    ASSUME Inv, NEW next \in OutcomeLabels, LabelWrite(next)
    PROVE  labels' \subseteq Labels /\ used' \in Used
BY FaultyType DEF LabelWrite, CleanLabels, LabelResults, Inv, TypeOK, Labels, Used

LEMMA ApplyLabelInv == ASSUME Inv, ApplyLabel PROVE Inv'
<1>1. /\ At("mark") /\ run.next \in OutcomeLabels /\ run \in RunRecord
      /\ UNCHANGED <<branch, review, claims, replies, threads, issues>>
      /\ labels' \subseteq Labels /\ used' \in Used
  BY LabelWriteType DEF ApplyLabel, Inv, Bound, TypeOK, At
<1>2. CASE Goto("stop") /\ UNCHANGED tree
  <2>1. /\ run' \in RunRecord /\ run'.step = "stop" /\ run'.rv = run.rv /\ run'.mk = run.mk
        /\ run'.open = run.open
    BY <1>1, <1>2, GotoFields DEF Steps
  <2>2. Bound' /\ TreeIsAnswered' /\ AlreadySaid' /\ Placed'
    BY <1>1, <2>1 DEF Inv, Bound, TreeIsAnswered, AlreadySaid, Placed, At, Unclaimed, Working,
       Asking, Answering, Saying
  <2>3. AnswersAgree' /\ Rests(run'.mk) /\ Rests(run'.open)
    BY <1>1, <2>1 DEF Inv, AnswersAgree, AllOrNothing, Agrees, At, Working, Asking, Answering,
       Saying, CommitsAreOurs
  <2> QED
    BY <1>1, <1>2, <2>1, <2>2, <2>3, QuietInv DEF Inv, TypeOK, Tree
<1>3. CASE Finish /\ RemoveWorktree
  <2>1. ClaimsInv'
    BY <1>1, ClaimsAreInv, ClaimsFrame
  <2> QED
    BY <1>1, <1>3, <2>1, FinishInv, RemoveWorktreeType
<1> QED
  BY <1>2, <1>3 DEF ApplyLabel

LEMMA ApplyStopInv == ASSUME Inv, ApplyStop PROVE Inv'
<1>1. Finish /\ RemoveWorktree /\ UNCHANGED <<branch, review, claims, replies, threads, issues>>
  BY DEF ApplyStop
<1>2. labels' \subseteq Labels /\ used' \in Used
  BY FaultyType DEF ApplyStop, Inv, TypeOK, Labels, Used
<1>3. ClaimsInv'
  BY <1>1, ClaimsAreInv, ClaimsFrame
<1> QED
  BY <1>1, <1>2, <1>3, FinishInv, RemoveWorktreeType

(***************************************************************************)
(* Every step.                                                             *)
(***************************************************************************)
LEMMA StepInv == Inv /\ [Next]_vars => Inv'
<1> SUFFICES ASSUME Inv, [Next]_vars PROVE Inv'
  OBVIOUS
<1>1. CASE Load
  BY <1>1, LoadInv
<1>2. CASE FinishEmpty \/ PrepareWorktree \/ PostClaim
  BY <1>2, FinishEmptyInv, PrepareWorktreeInv, PostClaimInv
<1>3. CASE Invoke \/ Ask \/ Accept
  BY <1>3, InvokeInv, AskInv, AcceptInv
<1>4. CASE \E kind \in DOMAIN run.budget : Retry(kind)
  BY <1>4, RetryInv
<1>5. CASE InvokeAbort \/ HarnessFails \/ Unmapped \/ Interrupted \/ InvokeRefused
  BY <1>5, AttemptsEndInv
<1>6. CASE AssertDiverged \/ Persisted \/ Commit
  BY <1>6, AssertDivergedInv, PersistedInv, CommitInv
<1>7. CASE \E u \in Units : PersistDeferred(u)
  BY <1>7, PersistDeferredInv
<1>8. CASE CheckRemote \/ Push \/ Record
  BY <1>8, CheckRemoteInv, PushInv, RecordInv
<1>9. CASE \E u \in Units : ReplyAndResolve(u)
  BY <1>9, ReplyAndResolveInv
<1>10. CASE EditReview \/ Summarize \/ Complete
  BY <1>10, EditReviewInv, SummarizeInv, CompleteInv
<1>11. CASE ChooseLabel \/ ApplyLabel \/ ApplyStop
  BY <1>11, ChooseLabelInv, ApplyLabelInv, ApplyStopInv
<1>12. CASE Refuse \/ Crash
  BY <1>12, RefuseInv
<1>13. CASE SomebodyPushes \/ ClaimAges \/ Review \/ Stop
  BY <1>13, SomebodyPushesInv, ClaimAgesInv, ReviewInv, StopInv
<1>14. CASE UNCHANGED vars
  BY <1>14 DEF vars, Inv, TypeOK, head, Bound, TreeIsAnswered, PushedIsAnswered, CommitsAreOurs,
     Rests, AlreadySaid, OneClaim, Placed, AnswersAgree, AllOrNothing, Agrees, At
<1> QED
  BY <1>1, <1>2, <1>3, <1>4, <1>5, <1>6, <1>7, <1>8, <1>9, <1>10, <1>11, <1>12, <1>13, <1>14
     DEF Next, Work, Trouble, Environment

LEMMA Invariance == Spec => []Inv
BY InitInv, StepInv, PTL DEF Spec

(***************************************************************************)
(* What follows.                                                           *)
(***************************************************************************)
(* Every variable, and every field of the run's memory, stays in its domain. *)
THEOREM TypeCorrect == Spec => []TypeOK
BY Invariance, PTL DEF Inv

(* No commit of the leg holds an edit of an attempt the same run rejected: *)
(* every attempt is asked on a tree put back to what the leg stands by.    *)
THEOREM PushesAreAnswered == Spec => []PushedIsAnswered
BY Invariance, PTL DEF Inv

(* A pass settled without being blocked has an answer for every posted     *)
(* finding of its review, and the review marker says the same word.        *)
THEOREM SettledPassesAgree == Spec => []SettledAnswersReview
<1>1. Inv => SettledAnswersReview
  <2> SUFFICES ASSUME Inv PROVE SettledAnswersReview
    OBVIOUS
  <2> DEFINE i == MarkerFor(claims, review.pass)
  <2>1. i # 0 => i \in DOMAIN claims /\ claims[i].pass = review.pass
    BY MarkerForNewest DEF Inv, TypeOK
  <2>2. i \in DOMAIN claims /\ claims[i].state = "complete" /\ ~claims[i].blocked => Agrees(claims[i])
    BY DEF Inv, AnswersAgree
  <2> HIDE DEF i
  <2>3. i # 0 /\ claims[i].state = "complete" /\ ~claims[i].blocked =>
          /\ DOMAIN claims[i].res = review.posted
          /\ \A u \in review.posted : review.answer[u] = claims[i].res[u].word
    BY <2>1, <2>2 DEF Agrees
  <2> QED BY <2>3 DEF SettledAnswersReview, i
<1> QED
  BY <1>1, Invariance, PTL

(* Only the filing of a deferral files an issue, and only a reply replies  *)
(* or closes a thread.                                                     *)
LEMMA ReportFatalFrame ==
    ASSUME NEW m, NEW n, ReportFatal(m, n)
    PROVE  UNCHANGED <<branch, issues, replies, threads>>
BY DEF ReportFatal

LEMMA WritesFrame ==
    ASSUME [Next]_vars
    PROVE  \/ UNCHANGED <<issues, replies, threads>>
           \/ UNCHANGED <<replies, threads>> /\ \E u \in Units : PersistDeferred(u)
           \/ UNCHANGED issues /\ \E u \in Units : ReplyAndResolve(u)
<1>1. CASE Load \/ FinishEmpty \/ PrepareWorktree \/ PostClaim \/ Invoke \/ Ask \/ Accept
  BY <1>1 DEF Load, FinishEmpty, PrepareWorktree, PostClaim, Invoke, Ask, Accept, pr
<1>2. CASE \E kind \in DOMAIN run.budget : Retry(kind)
  BY <1>2, ReportFatalFrame DEF Retry, pr
<1>3. CASE InvokeAbort \/ HarnessFails \/ Unmapped \/ Interrupted \/ InvokeRefused
  BY <1>3, ReportFatalFrame DEF InvokeAbort, HarnessFails, Unmapped, Interrupted, InvokeRefused, LeaveOpen, pr
<1>4. CASE AssertDiverged \/ Persisted \/ Commit \/ CheckRemote
  BY <1>4, ReportFatalFrame DEF AssertDiverged, Persisted, Commit, CheckRemote, LeaveOpen, pr
<1>5. CASE \E u \in Units : PersistDeferred(u)
  BY <1>5 DEF PersistDeferred
<1>6. CASE Push \/ Record
  BY <1>6, ReportFatalFrame DEF Push, Record, LeaveOpen, pr
<1>7. CASE \E u \in Units : ReplyAndResolve(u)
  BY <1>7 DEF ReplyAndResolve
<1>8. CASE EditReview \/ Summarize \/ Complete
  BY <1>8, ReportFatalFrame DEF EditReview, Summarize, Complete
<1>9. CASE ChooseLabel \/ ApplyLabel \/ ApplyStop
  BY <1>9 DEF ChooseLabel, ApplyLabel, ApplyStop, pr
<1>10. CASE Refuse \/ Crash
  BY <1>10 DEF Refuse, Crash, LeaveOpen, pr
<1>11. CASE SomebodyPushes \/ ClaimAges \/ Review \/ Stop
  BY <1>11 DEF SomebodyPushes, ClaimAges, Review, Stop
<1>12. CASE UNCHANGED vars
  BY <1>12 DEF vars
<1> QED
  BY <1>1, <1>2, <1>3, <1>4, <1>5, <1>6, <1>7, <1>8, <1>9, <1>10, <1>11, <1>12
     DEF Next, Work, Trouble, Environment

(* The lookups that failed are counted by the filing of a deferral alone.  *)
KeepsUnread == used'.unread = used.unread

LEMMA CountersKeep ==
    ASSUME used \in Used
    PROVE  /\ UNCHANGED used => KeepsUnread
           /\ Faulty => KeepsUnread
           /\ Move => KeepsUnread
           /\ \A n : Charge(n) => KeepsUnread
           /\ \A m, n : ReportFatal(m, n) => KeepsUnread
           /\ \A next : LabelWrite(next) => KeepsUnread
<1>1. UNCHANGED used => KeepsUnread
  BY DEF KeepsUnread
<1>2. Faulty => KeepsUnread
  BY DEF KeepsUnread, Faulty, Used
<1>3. Move => KeepsUnread
  BY DEF KeepsUnread, Move, Used
<1>4. \A n : Charge(n) => KeepsUnread
  BY DEF KeepsUnread, Charge, Used
<1>5. \A m, n : ReportFatal(m, n) => KeepsUnread
  BY <1>4 DEF ReportFatal
<1>6. \A next : LabelWrite(next) => KeepsUnread
  BY <1>1, <1>2 DEF LabelWrite
<1> QED
  BY <1>1, <1>2, <1>3, <1>4, <1>5, <1>6

LEMMA UnreadGrows ==
    ASSUME Inv, [Next]_vars, NEW u \in Units
    PROVE  used'.unread[u] \in Nat /\ used.unread[u] \in Nat /\ used'.unread[u] >= used.unread[u]
<1>1. used \in Used /\ used' \in Used
  BY StepInv DEF Inv, TypeOK, Used
<1>2. KeepsUnread \/ \E v \in Units : FileIssue(v)
  <2>1. CASE \E v \in Units : PersistDeferred(v)
    BY <1>1, <2>1, CountersKeep DEF PersistDeferred
  <2>2. CASE Load \/ FinishEmpty \/ PrepareWorktree \/ PostClaim \/ Invoke \/ Ask \/ Accept
    BY <1>1, <2>2, CountersKeep
       DEF Load, FinishEmpty, PrepareWorktree, PostClaim, Invoke, Ask, Accept
  <2>3. CASE \E kind \in DOMAIN run.budget : Retry(kind)
    BY <1>1, <2>3, CountersKeep DEF Retry
  <2>4. CASE InvokeAbort \/ HarnessFails \/ Unmapped \/ Interrupted \/ InvokeRefused
    BY <1>1, <2>4, CountersKeep
       DEF InvokeAbort, HarnessFails, Unmapped, Interrupted, InvokeRefused
  <2>5. CASE AssertDiverged \/ Persisted \/ Commit
    BY <1>1, <2>5, CountersKeep DEF AssertDiverged, Persisted, Commit
  <2>6. CASE CheckRemote \/ Push
    BY <1>1, <2>6, CountersKeep DEF CheckRemote, Push
  <2>7. CASE Record
    BY <1>1, <2>7, CountersKeep DEF Record
  <2>8. CASE \E v \in Units : ReplyAndResolve(v)
    BY <1>1, <2>8, CountersKeep DEF ReplyAndResolve
  <2>9. CASE EditReview \/ Summarize \/ Complete
    BY <1>1, <2>9, CountersKeep DEF EditReview, Summarize, Complete
  <2>10. CASE ChooseLabel \/ ApplyLabel \/ ApplyStop
    BY <1>1, <2>10, CountersKeep DEF ChooseLabel, ApplyLabel, ApplyStop
  <2>11. CASE Refuse \/ Crash \/ SomebodyPushes \/ ClaimAges \/ Review \/ Stop
    BY <1>1, <2>11, CountersKeep DEF Refuse, Crash, SomebodyPushes, ClaimAges, Review, Stop
  <2>12. CASE UNCHANGED vars
    BY <1>1, <2>12, CountersKeep DEF vars
  <2> QED
    BY <2>1, <2>2, <2>3, <2>4, <2>5, <2>6, <2>7, <2>8, <2>9, <2>10, <2>11, <2>12
       DEF Next, Work, Trouble, Environment
<1> QED
  BY <1>1, <1>2, FileIssueType DEF KeepsUnread, Used

(* A finding has no more issues than one and the lookups that failed while *)
(* its issue was there, whatever crashes between the filing and the record *)
(* of it and whoever asks again.                                           *)
THEOREM DeferralsAreFiledOnce == Spec => []DeferralsFiledOnce
<1>1. Init => DeferralsFiledOnce
  BY DEF Init, DeferralsFiledOnce
<1>2. Inv /\ DeferralsFiledOnce /\ [Next]_vars => DeferralsFiledOnce'
  <2> SUFFICES ASSUME Inv, DeferralsFiledOnce, [Next]_vars, NEW u \in Units
               PROVE  issues'[u] <= 1 + used'.unread[u]
    BY DEF DeferralsFiledOnce
  <2>1. issues \in [Units -> Nat] /\ issues[u] \in Nat /\ issues[u] <= 1 + used.unread[u]
    BY DEF Inv, TypeOK, DeferralsFiledOnce
  <2>2. /\ used.unread[u] \in Nat /\ used'.unread[u] \in Nat
        /\ used'.unread[u] >= used.unread[u]
    BY UnreadGrows
  <2>3. CASE issues' = issues
    BY <2>1, <2>2, <2>3
  <2>4. CASE issues' # issues
    <3>1. PICK v \in Units : FileIssue(v)
      BY <2>4, WritesFrame DEF PersistDeferred
    <3>2. /\ issues' = [issues EXCEPT ![v] = @ + 1]
          /\ issues[v] > 0 => used'.unread[v] = used.unread[v] + 1
      BY <2>4, <3>1, FileIssueType
    <3>3. CASE u = v /\ issues[u] > 0
      BY <2>1, <2>2, <3>2, <3>3
    <3>4. CASE u = v /\ issues[u] = 0
      BY <2>1, <2>2, <3>2, <3>4
    <3>5. CASE u # v
      BY <2>1, <2>2, <3>2, <3>5
    <3> QED BY <2>1, <3>3, <3>4, <3>5
  <2> QED BY <2>3, <2>4
<1> QED
  BY <1>1, <1>2, Invariance, PTL DEF Spec

(* Within a pass a finding is answered again only by a run that re-drives  *)
(* the pass, or by one that failed to read the reply that was there: a     *)
(* retry after a crash finds what it reads.                                *)
THEOREM RepliesAreIdempotent == Spec => RepliedOnce
<1>1. Inv /\ [Next]_vars =>
        \A p \in 1..MaxPass, u \in Units :
          replies[p][u] > 0 /\ replies'[p][u] > replies[p][u]
            => run.redrive \/ u \in run.missed
  <2> SUFFICES ASSUME Inv, [Next]_vars, NEW p \in 1..MaxPass, NEW u \in Units,
                      replies[p][u] > 0, replies'[p][u] > replies[p][u]
               PROVE  run.redrive \/ u \in run.missed
    OBVIOUS
  <2>0. replies[p][u] \in Nat /\ replies'[p][u] \in Nat
    <3>1. Inv'
      BY StepInv
    <3>2. replies \in [1..MaxPass -> [Units -> Nat]] /\ replies' \in [1..MaxPass -> [Units -> Nat]]
      BY <3>1 DEF Inv, TypeOK
    <3> QED BY <3>2
  <2>1. replies' # replies
    BY <2>0
  <2>2. PICK v \in Units : ReplyAndResolve(v)
    BY <2>1, WritesFrame
  <2>3. At("reply")
    BY <2>2 DEF ReplyAndResolve
  <2>4. replies'[p][u] # replies[p][u]
    BY <2>0
  <2>5. p = run.rv.pass /\ v = u /\ u \in run.todo \ run.already
    BY <2>2, <2>3, <2>4, RepliesGrow
  <2> QED
    BY <2>3, <2>5 DEF Inv, AlreadySaid, TypeOK, RunRecord
<1> QED
  BY <1>1, Invariance, PTL DEF Spec, RepliedOnce

(* A thread closed as fixed has its fix on the branch, in a commit of the  *)
(* leg's own.                                                              *)
THEOREM FixedIsPushed == Spec => FixedThreadIsPushed
<1>1. Inv /\ [Next]_vars =>
        \A x \in threads' \ threads :
          run.mk.res[x[2]].word = "fixed" =>
            run.mk.commit \in DOMAIN branch /\ branch[run.mk.commit].by = "leg"
  <2> SUFFICES ASSUME Inv, [Next]_vars, NEW x \in threads' \ threads,
                      run.mk.res[x[2]].word = "fixed"
               PROVE  run.mk.commit \in DOMAIN branch /\ branch[run.mk.commit].by = "leg"
    OBVIOUS
  <2>1. PICK u \in Units : ReplyAndResolve(u)
    BY WritesFrame
  <2>2. x = <<run.rv.pass, u>> /\ SettlesThread(run.mk.res[u])
    BY <2>1 DEF ReplyAndResolve
  <2>3. run.mk.commit # NoHead
    BY <2>2 DEF SettlesThread
  <2> QED
    BY <2>3 DEF Inv, CommitsAreOurs, Rests
<1> QED
  BY <1>1, Invariance, PTL DEF Spec, FixedThreadIsPushed
================================================================================
