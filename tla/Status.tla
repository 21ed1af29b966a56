------------------------------- MODULE Status --------------------------------
(***************************************************************************)
(* What `crossrev status' makes of a pull request: the state word of its   *)
(* header, read off the labels with the markers behind them, the row of    *)
(* each leg, and the command its NEXT section ends in (internal/cycle/     *)
(* status.go, liveness.go).  Pure functions of the state of Loop; of the   *)
(* wording only the reason is kept, and coverage is read as met, which is  *)
(* what a marker that converged promised.                                  *)
(***************************************************************************)
EXTENDS Loop

CurrentReview == MarkerFor(CurrentReviewPass, "review")
CurrentResolve == MarkerFor(CurrentReviewPass, "resolve")

(* The next pass was refused: the notice stands one pass ahead. *)
CapHalted == State(MarkerFor(CurrentReviewPass + 1, "review")) = "declined"

ResolveLabel ==
    IF State(CurrentResolve) = "complete"
    THEN ResolvePassLabel(markers[CurrentResolve].res, Escalated) ELSE "none"

(* Green needs a review that settled at the revision the branch is at. *)
ReviewConverges ==
    State(CurrentReview) = "complete" /\ markers[CurrentReview].head = head

MarkersConverge ==
    /\ CurrentReview # 0 /\ Verdict(CurrentReview) = "converged" /\ ReviewConverges
    /\ State(CurrentResolve) = "complete" =>
         ResolveLabel = "converged" /\ markers[CurrentResolve].head = head

(* The word for a pull request without a state label. *)
StateFromMarkers ==
    LET verdict == markers[CurrentReview].verdict
        green == IF ReviewConverges THEN "converged" ELSE "awaiting-review"
    IN  IF CurrentReviewPass = 0 THEN "awaiting-review"
        ELSE IF CapHalted THEN "halted"
        ELSE IF State(CurrentReview) # "complete" THEN "awaiting-review"
        ELSE IF verdict = "converged" THEN green
        ELSE IF verdict = "blocked" THEN "halted"
        ELSE IF State(CurrentResolve) # "complete"
        THEN IF ~markers[CurrentReview].fixable /\ Escalated > 0 THEN "halted"
             ELSE "awaiting-resolution"
        ELSE IF ResolveLabel = "halted" THEN "halted"
        ELSE IF ResolveLabel = "converged" THEN green
        ELSE "awaiting-review"

StatusState ==
    IF "stop" \in labels THEN "stopped"
    ELSE IF "halted" \in labels THEN "halted"
    ELSE IF "converged" \in labels
    THEN IF MarkersConverge THEN "converged" ELSE StateFromMarkers
    ELSE IF "awaiting-resolution" \in labels THEN "awaiting-resolution"
    ELSE IF "awaiting-review" \in labels THEN "awaiting-review"
    ELSE StateFromMarkers

NewRevision == Ran = {} \/ markers[Max(Ran)].head # head

(* Whether an escalation may still be open by the threads, which a person  *)
(* settles by hand; a thread that cannot be read is open.                  *)
OpenEscalated == {open \in BOOLEAN : open => Escalated > 0}

(* A halt sends the reader to the leg its marker names. *)
NextHalted(open) ==
    LET settled == State(CurrentResolve) = "complete"
        res == markers[CurrentResolve].res
    IN  IF CapHalted \/ open THEN "review"
        ELSE IF CurrentResolve # 0 /\
                (res.blocked \/ (settled /\ ResolveRedrivable(res))) THEN "resolve"
        ELSE "review"

(* The command the NEXT section ends in, if it ends in one. *)
NextCommand(open) ==
    LET state == StatusState
    IN  CASE state = "stopped" ->
               IF "awaiting-resolution" \in labels \/ StateFromMarkers = "awaiting-resolution"
               THEN "resolve" ELSE "review"
          [] state = "converged" -> IF NewRevision THEN "review" ELSE "none"
          [] state = "halted" -> NextHalted(open)
          [] state = "awaiting-resolution" -> "resolve"
          [] state = "awaiting-review" ->
               IF ResolveLabel = "converged" /\ ~NewRevision THEN "none" ELSE "review"

(***************************************************************************)
(* The rows: a glyph and the reason in the words.                          *)
(***************************************************************************)
Row(step, says) == [step |-> step, says |-> says]

(* What a probe can find of the process behind a claim: for a run at a   *)
(* terminal the lock it took on the pull request - somebody else's, or its *)
(* own, of this host or another - and whether the pid in it answers; for a *)
(* workflow's run what GitHub says of it.                                  *)
LockEvidence == [lock : {"none", "other", "own"}, here : BOOLEAN, answers : BOOLEAN]
RunEvidence == [run : {"going", "completed", "unread"}]
Evidence == LockEvidence \cup (IF mode = "automated" THEN RunEvidence ELSE {})

LocalLife(e) ==
    IF e.lock # "own" THEN "unknown"
    ELSE IF ~e.here THEN "elsewhere"
    ELSE IF e.answers THEN "running" ELSE "gone"

WorkflowLife(e) ==
    CASE e.run = "going" -> "running" [] e.run = "completed" -> "gone" [] OTHER -> "unknown"

(* The shape of the claim's run id picks the probe. *)
Alive(e) == IF e \in LockEvidence THEN LocalLife(e) ELSE WorkflowLife(e)
Lives == {Alive(e) : e \in Evidence}

(* Only a claim nothing is known of is judged by its age. *)
Aged(life) == IF life = "unknown" THEN BOOLEAN ELSE {FALSE}

(* A leg without a marker. *)
LegAbsent(pass, leg) ==
    LET i == MarkerFor(pass, "review")
    IN  IF leg = "resolve" /\ "stop" \in labels THEN "stop is applied"
        ELSE IF leg = "review" \/ i = 0 THEN "not run yet"
        ELSE IF markers[i].state = "declined" THEN "not run"
        ELSE IF markers[i].state = "complete" /\ markers[i].verdict \in {"converged", "blocked"}
        THEN "not needed" ELSE "not run yet"

LegEscalated(m) == m.leg = "resolve" /\ Has(m.res, "escalated")

(* Mutant: an escalated resolution gets the tick of a settled one. *)
LegCompleteTicked(m) ==
    LET blocked == IF m.leg = "review" THEN m.verdict = "blocked" ELSE m.res.blocked
    IN  IF blocked THEN Row("no", "blocked") ELSE Row("ok", "settled")

LegComplete(m) ==
    LET blocked == IF m.leg = "review" THEN m.verdict = "blocked" ELSE m.res.blocked
    IN  IF blocked THEN Row("no", "blocked")
        ELSE IF LegEscalated(m) THEN Row("no", "settled")
        ELSE Row("ok", "settled")

(* A claim with no outcome on it, by the evidence, or else by its age and  *)
(* the revision it was made against.  An incomplete review reads as one.   *)
LegClaimed(m, life, aged) ==
    CASE life = "running" -> Row("run", "running")
      [] life = "elsewhere" -> Row("idle", "elsewhere")
      [] life = "gone" -> Row("no", "abandoned")
      [] OTHER -> IF aged \/ m.head # head THEN Row("no", "abandoned")
                  ELSE Row("idle", "no result yet")

LegRow(pass, leg, life, aged) ==
    LET i == MarkerFor(pass, leg)
    IN  CASE i = 0 -> Row("idle", LegAbsent(pass, leg))
          [] State(i) = "declined" -> Row("no", "never started")
          [] State(i) = "complete" -> LegComplete(markers[i])
          [] OTHER -> LegClaimed(markers[i], life, aged)

(* The line under the command that says its leg is running already, so it  *)
(* is not an invitation.                                                   *)
NextRunning(life, open) ==
    /\ life = "running"
    /\ \/ StatusState = "awaiting-resolution" /\ State(CurrentResolve) = "started"
       \/ /\ StatusState = "awaiting-review" /\ NextCommand(open) = "review"
          /\ State(CurrentReview) = "started"

(* One reading of the pull request: the rows are of every pass, the        *)
(* refused ones included.                                                  *)
Report(life, aged, open) ==
    [state |-> StatusState, pass |-> CurrentReviewPass,
     note |-> IF "retried" \in labels THEN "retried once" ELSE "none",
     rows |-> [p \in 1 .. Max({0} \cup {markers[i].pass : i \in DOMAIN markers}) |->
                 [leg \in Legs |-> LegRow(p, leg, life, aged)]],
     next |-> NextCommand(open), running |-> NextRunning(life, open)]

(***************************************************************************)
(* What status promises.                                                   *)
(***************************************************************************)
Undisturbed == mode = "local" /\ Idle /\ used.faults = 0

(* The command is one that will work, of a loop under its cap that nobody  *)
(* stopped or halted.                                                      *)
NextWorks(open) ==
    /\ Undisturbed /\ Escalated = 0 /\ CurrentReviewPass <= MaxPasses
    /\ StatusState \notin {"stopped", "halted"} /\ NextCommand(open) # "none"
    => Accepts(NextCommand(open))

(* No row of the pass under a green header is red or still at work. *)
GreenIsEarned(r) ==
    r.state = "converged" =>
        /\ r.rows[r.pass]["review"].step = "ok"
        /\ r.rows[r.pass]["resolve"].step \in {"ok", "idle"}

(* A halt is red on some row, but for a deferral that was filed nowhere    *)
(* and a review that stopped at its bound, which have no row of their own. *)
HaltIsShown(r) ==
    Undisturbed /\ r.state = "halted" =>
        \/ \E p \in DOMAIN r.rows, leg \in Legs : r.rows[p][leg].step = "no"
        \/ \E i \in DOMAIN markers :
              UnfiledDeferrals(markers[i].res) # {} \/ markers[i].state = "incomplete"

(* NEXT does not invite to start the leg its row shows at work, but under  *)
(* a halt or a brake, where only a person can have started it, and in the  *)
(* last step of a review that stopped at its bound.                        *)
RunIsSaid(r) ==
    /\ r.state \notin {"halted", "stopped"} /\ r.pass > 0 /\ r.next # "none"
    /\ r.rows[r.pass][r.next].step = "run"
    /\ State(MarkerFor(r.pass, r.next)) # "incomplete"
    => r.running

(* The three parts of a report agree, whatever the probe of an open claim  *)
(* and the threads of the escalations show: the header with the rows under *)
(* it (statusLegComplete: `a green leg line underneath it contradicts the  *)
(* section it sits in'), the rows with NEXT (running), and NEXT with the   *)
(* legs (statusNext: `a tool whose job is telling you what to do next      *)
(* should not end on a dead end').                                         *)
StatusAgrees ==
    \A open \in OpenEscalated :
        /\ NextWorks(open)
        /\ \A life \in Lives : \A aged \in Aged(life) :
             LET r == Report(life, aged, open)
             IN  GreenIsEarned(r) /\ HaltIsShown(r) /\ RunIsSaid(r)

=============================================================================
