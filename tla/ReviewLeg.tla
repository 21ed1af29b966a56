----------------------------- MODULE ReviewLeg ------------------------------
(***************************************************************************)
(* The review leg (internal/review) against one pull request: admission,   *)
(* the claim comment, the coverage loop over batches of files, the         *)
(* publication of findings and the outcome label, with crashes, failing    *)
(* calls, moving revisions and several runs at once.                       *)
(*                                                                         *)
(* The pull request is shared state: its revision pair, the comments that  *)
(* hold the review markers, the finding comments, the labels and the       *)
(* resolve leg's markers.  Everything else is a run's own memory, lost     *)
(* when it crashes.  Each action is one call to the forge or to the model  *)
(* and the local work around it.                                           *)
(***************************************************************************)
EXTENDS PRState

CONSTANTS
    Runs,        \* processes running the leg
    Changed,     \* Changed[h]: the units the diff at head h touches
    Excluded,    \* units repository policy leaves out
    Generated,   \* recognised generated units too large for one prompt
    MaxPasses,   \* policy.max_passes_per_cycle, 0 for no cap
    MaxPRs,      \* policy.max_prs_per_day, 0 for no cap
    MaxFiles,    \* policy.max_files_changed_per_pr, 0 for no cap
    Automated,   \* mode: a label that cannot be added is fatal
    ForcePush,   \* whether the branch may return to an earlier head
    MayLose,     \* whether a generation's objects may be gone when read
    MayMisread,  \* whether a comment list may be unreadable, and so empty
    MayHalt,     \* whether packing or the ledger may bound a pass
    MaxMoves,    \* bound: pushes, base moves and stop requests
    MaxFaults,   \* bound: crashes and failing calls
    MaxMarkers   \* bound: review markers on the pull request

ASSUME ReviewLegAssumption ==
    /\ Changed \in [Heads -> SUBSET Units]
    /\ Excluded \subseteq Units /\ Generated \subseteq Units
    /\ {MaxPasses, MaxPRs, MaxFiles, MaxMoves, MaxFaults, MaxMarkers} \subseteq Nat
    /\ {Automated, ForcePush, MayLose, MayMisread, MayHalt} \subseteq BOOLEAN

VARIABLES
    head, base,  \* the pull request's revision pair
    reviews,     \* the review markers, in comment order
    resolves,    \* the resolve leg's markers
    posts,       \* the finding comments, in creation order
    labels,      \* outcome labels and "stop"
    run,         \* each run's memory
    used         \* how many moves and faults have happened

pr == <<head, base, reviews, resolves, posts, labels>>
vars == <<head, base, reviews, resolves, posts, labels, run, used>>

Steps == {"idle", "decline", "claim", "scope", "nothing", "emptied", "pack",
          "initial", "plan", "record", "edit", "halt", "halted", "post",
          "complete", "label", "mark"}
Answers == {"no_issue", "fix", "low", "could_not_review"}

IdleRun ==
    [step |-> "idle", pass |-> 0, kind |-> "none", head |-> NoHead, base |-> 0,
     producer |-> "none", held |-> {}, escalated |-> 0, pair |-> NoPair,
     at |-> 0, out |-> BlankMarker(0), mk |-> BlankMarker(0), recs |-> <<>>,
     found |-> {}, last |-> "none", todo |-> {}, late |-> FALSE, next |-> "none"]

Init ==
    /\ head = 1 /\ base = 1
    /\ reviews = <<>> /\ resolves = <<>> /\ posts = <<>>
    /\ labels = {"awaiting-review"}
    /\ run = [r \in Runs |-> IdleRun]
    /\ used = [moves |-> 0, faults |-> 0]

At(r, step) == run[r].step = step
Goto(r, step) == run' = [run EXCEPT ![r].step = step]
Finish(r) == run' = [run EXCEPT ![r] = IdleRun]
Edit(r, m) == reviews' = [reviews EXCEPT ![run[r].at] = m]
Faulty == used.faults < MaxFaults /\ used' = [used EXCEPT !.faults = @ + 1]
Moved(r) == head # run[r].head \/ base # run[r].base

(***************************************************************************)
(* Labels.  applyPassLabels removes the other outcome labels, ignoring     *)
(* failures, then adds the new one.  A clean write leaves exactly the new  *)
(* label; a faulty one may leave any of the old and miss the new.          *)
(***************************************************************************)
CleanLabels(next) == (labels \ OutcomeLabels) \cup {next}

LabelResults(next) ==
    {(labels \ (OutcomeLabels \ {next})) \cup kept \cup added :
        kept \in SUBSET (labels \cap OutcomeLabels), added \in {{}, {next}}}

(* One call sequence that labels; a fault is charged unless it is clean.   *)
ApplyPassLabels(next, added) ==
    \/ labels' = CleanLabels(next) /\ added /\ UNCHANGED used
    \/ /\ Faulty
       /\ labels' \in LabelResults(next)
       /\ added = (next \in labels')

(* Mutant: a blocked pass is driven again before asking whether the head moved. *)
AdmissionRedriveFirst(markers) ==
    LET cur == CurrentReviewPass(markers)
        i == MarkerFor(markers, cur)
    IN  IF OpenClaim(markers, cur)
        THEN [kind |-> IF ClaimIsStale(markers[i], head) THEN "stale" ELSE "resume",
              pass |-> cur, at |-> i]
        ELSE IF i # 0 /\ ReviewRedrivable(markers[i].state, markers[i].verdict)
        THEN [kind |-> "redrive", pass |-> cur, at |-> i]
        ELSE IF IsNewRevision(markers, head)
        THEN [kind |-> "new", pass |-> cur + 1, at |-> 0]
        ELSE [kind |-> "already", pass |-> cur, at |-> i]

(***************************************************************************)
(* Admission.                                                              *)
(***************************************************************************)
(* What the markers say of this head: which pass to run, and how. *)
Admission(markers) ==
    LET cur == CurrentReviewPass(markers)
        i == MarkerFor(markers, cur)
    IN  IF OpenClaim(markers, cur)
        THEN [kind |-> IF ClaimIsStale(markers[i], head) THEN "stale" ELSE "resume",
              pass |-> cur, at |-> i]
        ELSE IF IsNewRevision(markers, head)
        THEN [kind |-> "new", pass |-> cur + 1, at |-> 0]
        ELSE IF i # 0 /\ ReviewRedrivable(markers[i].state, markers[i].verdict)
        THEN [kind |-> "redrive", pass |-> cur, at |-> i]
        ELSE [kind |-> "already", pass |-> cur, at |-> i]

StartedMarker(pass, h) ==
    [BlankMarker(pass) EXCEPT !.state = "started", !.head = h]

ClaimFor(a) ==
    CASE a.kind = "new"    -> StartedMarker(a.pass, head)
      [] a.kind = "resume" -> reviews[a.at]
      [] a.kind = "stale"  ->
           [reviews[a.at] EXCEPT !.old = FALSE, !.head = head, !.findings = {},
                                 !.verdict = "null"]
      [] OTHER             ->
           [reviews[a.at] EXCEPT !.state = "started", !.old = FALSE, !.head = head,
                                 !.findings = {}, !.verdict = "null", !.reason = "none"]

EscalatedCount(repairs) == Cardinality({i \in DOMAIN repairs : repairs[i].escalated})

(* The repair under confirmation: the push of the newest pass that pushed, *)
(* if it made this head.                                                   *)
RepairConfirmation(repairs) ==
    LET pushed == {i \in DOMAIN repairs : repairs[i].commit # NoHead}
        newest == Max({repairs[i].pass : i \in pushed})
        best == repairs[Min({i \in pushed : repairs[i].pass = newest})]
    IN  IF pushed # {} /\ best.commit = head /\ best.head # head
        THEN [from |-> best.head, to |-> head]
        ELSE NoPair

(* The caps as admission asks them, before the pass it would run. *)
Decision(pass, capped, trigger, others) ==
    ShouldContinue(
        [stop |-> FALSE, blocked |-> FALSE, verdict |-> "issues-remain",
         pass |-> pass - 1, maxPasses |-> IF capped THEN MaxPasses ELSE 0,
         otherPRs |-> others,
         maxPRs |-> IF trigger = "automatic" THEN MaxPRs ELSE 0,
         files |-> Cardinality(Changed[head]),
         maxFiles |-> IF trigger = "automatic" THEN MaxFiles ELSE 0])

(***************************************************************************)
(* Load the pull request and admit: nothing is written yet.  A comment     *)
(* list that cannot be read comes back empty.  An automatic trigger answers *)
(* to every cap, a person's command to none unless it continues a cycle.   *)
(* A run that is not admitted changes nothing, so it has no step.          *)
(***************************************************************************)
AdmitFrom(r, markers, repairs) ==
    LET a == Admission(markers)
    IN  /\ a.kind # "already"
        /\ \E producer \in Producers, trigger \in {"automatic", "human"},
              continuation \in BOOLEAN, others \in 0..MaxPRs :
             LET capped == trigger = "automatic" \/ continuation
                 declined == Decision(a.pass, capped, trigger, others) # "continue"
             IN  /\ declined \/ a.kind = "new" => Len(reviews) < MaxMarkers
                 /\ run' = [run EXCEPT ![r] =
                      [IdleRun EXCEPT
                         !.step = IF declined THEN "decline" ELSE "claim",
                         !.pass = a.pass, !.kind = a.kind, !.at = a.at,
                         !.head = head, !.base = base, !.producer = producer,
                         !.out = ClaimFor(a), !.mk = MarkerForPass(markers, a.pass),
                         !.held = HeldEarlierIDs(markers),
                         !.escalated = EscalatedCount(repairs),
                         !.pair = RepairConfirmation(repairs)]]

Admit(r) ==
    /\ At(r, "idle")
    /\ "stop" \notin labels
    /\ \/ AdmitFrom(r, reviews, resolves) /\ UNCHANGED used
       \/ MayMisread /\ AdmitFrom(r, <<>>, <<>>) /\ Faulty
    /\ UNCHANGED pr

(* A refused pass posts a marker of its own and labels the pull request. *)
PostDeclined(r) ==
    /\ At(r, "decline")
    /\ reviews' = Append(reviews,
         [BlankMarker(run[r].pass) EXCEPT !.state = "declined", !.head = run[r].head,
            !.verdict = "declined", !.reason = "cap"])
    /\ Goto(r, "halted")
    /\ UNCHANGED <<head, base, resolves, posts, labels, used>>

(* Mutant: a re-driven pass posts a second claim. *)
PostClaimAppends(r) ==
    /\ At(r, "claim")
    /\ CASE run[r].kind \in {"new", "redrive"} -> reviews' = Append(reviews, run[r].out)
         [] OTHER -> UNCHANGED reviews
    /\ run' = [run EXCEPT ![r].step = "scope",
                 ![r].at = IF run[r].kind \in {"new", "redrive"} THEN Len(reviews) + 1 ELSE @]
    /\ UNCHANGED <<head, base, resolves, posts, labels, used>>

(* A new pass posts its claim, a re-drive rewrites it, a resume writes nothing. *)
PostClaim(r) ==
    /\ At(r, "claim")
    /\ CASE run[r].kind = "new" -> reviews' = Append(reviews, run[r].out)
         [] run[r].kind = "redrive" -> Edit(r, run[r].out)
         [] OTHER -> UNCHANGED reviews
    /\ run' = [run EXCEPT ![r].step = "scope",
                 ![r].at = IF run[r].kind = "new" THEN Len(reviews) + 1 ELSE @]
    /\ UNCHANGED <<head, base, resolves, posts, labels, used>>

(***************************************************************************)
(* The coverage loop.  `out' is the marker a failure would report, `mk'    *)
(* the pass marker under construction (from the markers as loaded), `recs' *)
(* the generation's records, `found' the findings accepted so far.         *)
(***************************************************************************)
RequiredAt(h) == Changed[h] \ Excluded

Outstanding(r) == {u \in DOMAIN run[r].recs : run[r].recs[u] = "outstanding"}

GenerationOf(r) ==
    [claimed |-> TRUE, base |-> run[r].base, head |-> run[r].head,
     producer |-> run[r].producer, recs |-> run[r].recs]

(* No changed file, or only excluded ones, settles without a model. *)
BindScope(r) ==
    /\ At(r, "scope")
    /\ Goto(r, IF RequiredAt(run[r].head) = {} THEN "nothing" ELSE "pack")
    /\ UNCHANGED <<pr, used>>

(* Mutant: a resumed pass does not restore the findings of its accepted batches. *)
PackForgetsFindings(r) ==
    /\ At(r, "pack")
    /\ \E lost \in {FALSE, MayLose} :
         LET m == run[r].mk
             current == ~lost /\ GenerationCurrent(m.gen, run[r].base, run[r].head, run[r].producer)
             accepted == IF current THEN Judged(m.gen.recs) ELSE {}
             required == {u \in RequiredAt(run[r].head) : u \in accepted \/ u \notin Generated}
         IN  run' = [run EXCEPT ![r] = [@ EXCEPT
               !.step = IF required = {} THEN "nothing" ELSE "initial",
               !.late = required = {},
               !.recs = [u \in required |->
                           IF u \in accepted THEN m.gen.recs[u] ELSE "outstanding"],
               !.found = {},
               !.mk = [m EXCEPT !.pass = run[r].pass, !.head = run[r].out.head,
                                !.old = run[r].out.old]]]
    /\ UNCHANGED <<pr, used>>

(* Mutant: a resumed pass reviews every unit again. *)
PackFromZero(r) ==
    /\ At(r, "pack")
    /\ \E lost \in {FALSE, MayLose} :
         LET m == run[r].mk
             current == ~lost /\ GenerationCurrent(m.gen, run[r].base, run[r].head, run[r].producer)
             accepted == {}
             required == {u \in RequiredAt(run[r].head) : u \in accepted \/ u \notin Generated}
         IN  run' = [run EXCEPT ![r] = [@ EXCEPT
               !.step = IF required = {} THEN "nothing" ELSE "initial",
               !.late = required = {},
               !.recs = [u \in required |->
                           IF u \in accepted THEN m.gen.recs[u] ELSE "outstanding"],
               !.found = m.findings,
               !.mk = [m EXCEPT !.pass = run[r].pass, !.head = run[r].out.head,
                                !.old = run[r].out.old]]]
    /\ UNCHANGED <<pr, used>>

(***************************************************************************)
(* Resume from the generation the marker names when it is still current,   *)
(* restore the findings the marker carries, plan the calls and move the    *)
(* oversized generated files out of the required set.                      *)
(***************************************************************************)
Pack(r) ==
    /\ At(r, "pack")
    /\ \E lost \in {FALSE, MayLose} :
         LET m == run[r].mk
             current == ~lost /\ GenerationCurrent(m.gen, run[r].base, run[r].head, run[r].producer)
             accepted == IF current THEN Judged(m.gen.recs) ELSE {}
             required == {u \in RequiredAt(run[r].head) : u \in accepted \/ u \notin Generated}
         IN  run' = [run EXCEPT ![r] = [@ EXCEPT
               !.step = IF required = {} THEN "nothing" ELSE "initial",
               !.late = required = {},
               !.recs = [u \in required |->
                           IF u \in accepted THEN m.gen.recs[u] ELSE "outstanding"],
               !.found = m.findings,
               !.mk = [m EXCEPT !.pass = run[r].pass, !.head = run[r].out.head,
                                !.old = run[r].out.old]]]
    /\ UNCHANGED <<pr, used>>

(* The opening generation; the pair is re-read before it is recorded. *)
PublishInitial(r) ==
    /\ At(r, "initial") /\ ~Moved(r)
    /\ LET m == [run[r].mk EXCEPT !.gen = GenerationOf(r)]
       IN  run' = [run EXCEPT ![r].step = "plan", ![r].mk = m, ![r].out = m]
    /\ UNCHANGED <<pr, used>>

(* Mutant: a finding's severity is recorded where its verdict belongs. *)
VerdictUnmapped(answer) == answer

Verdict(answer) == IF answer \in {"fix", "low"} THEN "finding" ELSE answer

(* One call: the model judges a batch of the outstanding units. *)
Judge(r) ==
    /\ At(r, "plan")
    /\ \E batch \in (SUBSET Outstanding(r)) \ {{}}, verdict \in ReviewVerdicts :
         \E answer \in [batch -> Answers] :
           run' = [run EXCEPT ![r] = [run[r] EXCEPT
             !.step = "record", !.last = verdict,
             !.recs = [u \in DOMAIN run[r].recs |->
                         IF u \in batch THEN Verdict(answer[u]) ELSE run[r].recs[u]],
             !.found = run[r].found \cup
                        {[id |-> u, sev |-> answer[u], at |-> run[r].head, posted |-> TRUE] :
                           u \in {v \in batch : Verdict(answer[v]) = "finding"}}]]
    /\ UNCHANGED <<pr, used>>

(* Publish the batch's generation; a pair that moved retires it. *)
RecordBatch(r) ==
    /\ At(r, "record") /\ ~Moved(r)
    /\ LET m == [run[r].mk EXCEPT !.gen = GenerationOf(r),
                   !.findings = IF run[r].found = {} THEN @ ELSE run[r].found]
       IN  run' = [run EXCEPT ![r].step = "edit", ![r].mk = m, ![r].out = m]
    /\ UNCHANGED <<pr, used>>

(* The commit point: the claim comment names the generation and its findings. *)
EditBatch(r) ==
    /\ At(r, "edit")
    /\ Edit(r, [run[r].mk EXCEPT !.state = "started"])
    /\ Goto(r, "plan")
    /\ UNCHANGED <<head, base, resolves, posts, labels, used>>

(* Packing carried files past the pass bound or halted on shared context,  *)
(* or the ledger cannot hold the generation.                               *)
Bounded(r) ==
    /\ MayHalt
    /\ \/ At(r, "plan") /\ (Outstanding(r) # {} \/ run[r].last = "none")
       \/ At(r, "initial") \/ At(r, "record")
    /\ Goto(r, "halt")
    /\ UNCHANGED <<pr, used>>

(* Mutant: a bounded pass leaves its claim open. *)
HaltPassStaysOpen(r) ==
    /\ At(r, "halt")
    /\ LET out == run[r].out
           m == [run[r].mk EXCEPT !.state = "started", !.stop = TRUE,
                   !.head = out.head, !.old = out.old,
                   !.findings = IF out.findings = {} THEN @ ELSE out.findings]
       IN  /\ Edit(r, m)
           /\ run' = [run EXCEPT ![r].step = "halted", ![r].out = m]
    /\ UNCHANGED <<head, base, resolves, posts, labels, used>>

HaltPass(r) ==
    /\ At(r, "halt")
    /\ LET out == run[r].out
           m == [run[r].mk EXCEPT !.state = "incomplete", !.stop = TRUE,
                   !.head = out.head, !.old = out.old,
                   !.findings = IF out.findings = {} THEN @ ELSE out.findings]
       IN  /\ Edit(r, m)
           /\ run' = [run EXCEPT ![r].step = "halted", ![r].out = m]
    /\ UNCHANGED <<head, base, resolves, posts, labels, used>>

(* The halted label, its failures ignored. *)
LabelHalted(r) ==
    /\ At(r, "halted")
    /\ \E added \in BOOLEAN : ApplyPassLabels("halted", added)
    /\ Finish(r)
    /\ UNCHANGED <<head, base, reviews, resolves, posts>>

(***************************************************************************)
(* A pass with nothing required settles blocked, without a model.  `late'  *)
(* marks the pass that packing emptied: its caller drops the news that the *)
(* record is settled, so a label failure rewrites it.                      *)
(***************************************************************************)
SettleNothing(r) ==
    /\ At(r, "nothing")
    /\ LET m == [(IF run[r].late THEN run[r].mk ELSE run[r].out) EXCEPT
                   !.state = "complete", !.verdict = "blocked", !.reason = "nothing"]
       IN  /\ Edit(r, m)
           /\ run' = [run EXCEPT ![r].step = "emptied", ![r].out = m]
    /\ UNCHANGED <<head, base, resolves, posts, labels, used>>

(* What a fatal error leaves in the claim comment. *)
Reported(m) == [m EXCEPT !.state = "complete", !.verdict = "blocked", !.reason = "error"]

LabelEmptied(r) ==
    /\ At(r, "emptied")
    /\ \E added \in BOOLEAN :
         /\ ApplyPassLabels("halted", added)
         /\ IF ~added /\ Automated /\ run[r].late
            THEN Edit(r, Reported(run[r].out))
            ELSE UNCHANGED reviews
    /\ Finish(r)
    /\ UNCHANGED <<head, base, resolves, posts>>

(***************************************************************************)
(* Publication.                                                            *)
(***************************************************************************)
VerdictForResumed(r) ==
    IF \E u \in DOMAIN run[r].recs : run[r].recs[u] = "finding"
    THEN "issues-remain" ELSE "converged"

(* The last accepted batch's verdict speaks for the pass. *)
MergedVerdict(r) == IF run[r].last = "none" THEN VerdictForResumed(r) ELSE run[r].last

PostedIDs == {posts[i].id : i \in DOMAIN posts}

(* Mutant: comments already posted are not looked up. *)
FindingsToPostAll(r, findings, already) ==
    {f \in findings : f.posted}

(* A finding posts unless it is held, or its id was posted and never held.  *)
FindingsToPost(r, findings, already) ==
    {f \in findings : f.posted /\ (f.id \in already => f.id \in run[r].held)}

(* Every required unit is judged: the marker that will be published.  The   *)
(* confirmation is dropped when the repair's delta could not be read, and   *)
(* posted comments that could not be read count as none.                    *)
FinishCovered(r) ==
    /\ At(r, "plan") /\ Outstanding(r) = {}
    /\ \E confirm \in {run[r].pair, NoPair}, already \in {PostedIDs, {}} :
         /\ already = PostedIDs \/ MayMisread
         /\ IF confirm = run[r].pair /\ already = PostedIDs THEN UNCHANGED used ELSE Faulty
         /\ LET m == [run[r].mk EXCEPT
                       !.verdict = MergedVerdict(r),
                       !.reason = "none", !.stop = FALSE, !.confirm = confirm,
                       !.findings = StampNotPosted(run[r].found, run[r].pass)]
            IN  run' = [run EXCEPT ![r] = [@ EXCEPT
                          !.step = "post", !.mk = m, !.out = m,
                          !.todo = FindingsToPost(r, m.findings, already)]]
    /\ UNCHANGED pr

(* One finding comment; a second finding under its id is the same point.   *)
(* `upgrade' is history: the leg took the finding for one that was held.   *)
Post(r) ==
    /\ At(r, "post")
    /\ \E f \in run[r].todo :
         /\ posts' = Append(posts, [id |-> f.id, pass |-> run[r].pass, sev |-> f.sev,
                                    upgrade |-> f.id \in run[r].held])
         /\ run' = [run EXCEPT ![r].todo = {g \in @ : g.id # f.id}]
    /\ UNCHANGED <<head, base, reviews, resolves, labels, used>>

(* What the ledger says of the pass, re-read through the marker's handle. *)
Convergence(r, lost) ==
    LET m == run[r].mk
        required == Cardinality(DOMAIN run[r].recs)
        recs == m.gen.recs
        Count(V) == Cardinality({u \in DOMAIN recs : recs[u] \in V})
    IN  IF lost \/ ~GenerationCurrent(m.gen, run[r].base, run[r].head, run[r].producer)
        THEN UnmetConvergence(required, Actionable(m.findings))
        ELSE [unresolvedFixable |-> Actionable(m.findings), ledgerCurrent |-> TRUE,
              required |-> required,
              covered |-> Count({"no_issue", "finding", "could_not_review"}),
              outstanding |-> Count({"outstanding"}),
              couldNotReview |-> Count({"could_not_review"}), scopeReported |-> TRUE,
              confirmationRequired |-> run[r].pair # NoPair,
              confirmationComplete |-> m.confirm = run[r].pair]

(* The summary comment.  An unmet obligation cannot stand as a quiet or a  *)
(* green verdict.  The state is still the one the pass marker came with.   *)
Summarize(r) ==
    /\ At(r, "post") /\ run[r].todo = {}
    /\ \E lost \in {FALSE, MayLose} :
         LET m == run[r].mk
             judged ==
                 IF Converged(Convergence(r, lost)) THEN m
                 ELSE IF Actionable(m.findings) > 0
                 THEN [m EXCEPT !.verdict = "issues-remain"]
                 ELSE [m EXCEPT !.verdict = "blocked", !.reason = "debt"]
         IN  /\ Edit(r, judged)
             /\ run' = [run EXCEPT ![r].step = "complete", ![r].mk = judged, ![r].out = judged]
    /\ UNCHANGED <<head, base, resolves, posts, labels, used>>

Complete(r) ==
    /\ At(r, "complete")
    /\ LET m == [run[r].mk EXCEPT !.state = "complete"]
       IN  /\ Edit(r, m)
           /\ run' = [run EXCEPT ![r].step = "label", ![r].mk = m, ![r].out = m]
    /\ UNCHANGED <<head, base, resolves, posts, labels, used>>

(* Choose the loop label, refused when the pair moved.  The record has      *)
(* settled, so no failure from here on touches it.                          *)
Label(r) ==
    /\ At(r, "label")
    /\ IF Moved(r)
       THEN Finish(r)
       ELSE \E lost \in {FALSE, MayLose} :
              LET m == run[r].mk
              IN  run' = [run EXCEPT ![r] = [@ EXCEPT
                    !.step = "mark",
                    !.next = PassLabelWithCoverage(m.verdict, Actionable(m.findings),
                               run[r].escalated, Convergence(r, lost))]]
    /\ UNCHANGED <<pr, used>>

Mark(r) ==
    /\ At(r, "mark")
    /\ \E added \in BOOLEAN : ApplyPassLabels(run[r].next, added)
    /\ Finish(r)
    /\ UNCHANGED <<head, base, reviews, resolves, posts>>

(***************************************************************************)
(* Failure.  A leg that dies between its claim and its complete edit says  *)
(* so on the claim and halts the loop, best effort; a killed process says  *)
(* nothing.                                                                *)
(***************************************************************************)
ReportFatal(r, cost) ==
    /\ \E edited \in BOOLEAN, added \in BOOLEAN :
         /\ IF edited THEN Edit(r, Reported(run[r].out)) ELSE UNCHANGED reviews
         /\ IF added THEN labels' = CleanLabels("halted")
                     ELSE labels' \in LabelResults("halted")
         /\ used' = [used EXCEPT !.faults = @ + cost + IF edited /\ added THEN 0 ELSE 1]
         /\ used'.faults <= MaxFaults
    /\ Finish(r)
    /\ UNCHANGED <<head, base, resolves, posts>>

(* Publication refuses a generation whose pair moved under it. *)
Stale(r) ==
    /\ run[r].step \in {"initial", "record"} /\ Moved(r)
    /\ ReportFatal(r, 0)

Claimed == {"scope", "pack", "initial", "plan", "record", "edit", "halt",
            "nothing", "post", "complete"}

(* A call fails: to the forge, to git, to the ledger or to the model. *)
Fail(r) ==
    \/ run[r].step \in Claimed /\ ReportFatal(r, 1)
    \/ run[r].step \in {"decline", "claim", "label"} /\ Faulty /\ Finish(r) /\ UNCHANGED pr

Crash(r) ==
    /\ run[r].step # "idle"
    /\ Faulty
    /\ Finish(r)
    /\ UNCHANGED pr

(***************************************************************************)
(* The rest of the world: pushes and base moves, claims that age past the  *)
(* stale window, the resolve leg and the person with the stop label.       *)
(***************************************************************************)
Move == used.moves < MaxMoves /\ used' = [used EXCEPT !.moves = @ + 1]

NextHeads == IF ForcePush THEN Heads \ {head} ELSE Heads \cap {head + 1}

Push ==
    /\ Move
    /\ head' \in NextHeads
    /\ UNCHANGED <<base, reviews, resolves, posts, labels, run>>

MoveBase ==
    /\ Move
    /\ base' \in Bases \cap {base + 1}
    /\ UNCHANGED <<head, reviews, resolves, posts, labels, run>>

ClaimAges ==
    /\ \E i \in DOMAIN reviews :
         /\ reviews[i].state = "started" /\ ~reviews[i].old
         /\ reviews' = [reviews EXCEPT ![i].old = TRUE]
    /\ UNCHANGED <<head, base, resolves, posts, labels, run, used>>

(* The resolve leg, which this module only sees from outside: it answers a *)
(* finished review of the present head by pushing a repair or escalating.  *)
Resolve ==
    LET i == MarkerFor(reviews, CurrentReviewPass(reviews))
    IN  /\ \A r \in Runs : At(r, "idle")
        /\ i # 0
        /\ reviews[i].state = "complete" /\ reviews[i].verdict # "blocked"
        /\ reviews[i].head = head /\ reviews[i].findings # {}
        /\ Move
        /\ \/ /\ head' \in NextHeads
              /\ resolves' = Append(resolves,
                   [pass |-> reviews[i].pass, head |-> head, commit |-> head',
                    escalated |-> FALSE])
              /\ labels' = CleanLabels("awaiting-review")
           \/ /\ UNCHANGED head
              /\ resolves' = Append(resolves,
                   [pass |-> reviews[i].pass, head |-> head, commit |-> NoHead,
                    escalated |-> TRUE])
              /\ labels' = CleanLabels("halted")
        /\ UNCHANGED <<base, reviews, posts, run>>

Stop ==
    /\ Move
    /\ labels' = IF "stop" \in labels THEN labels \ {"stop"} ELSE labels \cup {"stop"}
    /\ UNCHANGED <<head, base, reviews, resolves, posts, run>>

(***************************************************************************)
(* A run's own progress, what may go wrong for it, and the environment.    *)
(***************************************************************************)
Work(r) ==
    \/ PostDeclined(r) \/ PostClaim(r) \/ BindScope(r) \/ SettleNothing(r)
    \/ LabelEmptied(r) \/ Pack(r) \/ PublishInitial(r) \/ Judge(r) \/ RecordBatch(r)
    \/ EditBatch(r) \/ Bounded(r) \/ HaltPass(r) \/ LabelHalted(r) \/ FinishCovered(r)
    \/ Post(r) \/ Summarize(r) \/ Complete(r) \/ Label(r) \/ Mark(r)
    \/ Stale(r)

Trouble(r) == Fail(r) \/ Crash(r)

Environment == Push \/ MoveBase \/ ClaimAges \/ Resolve \/ Stop

Next == (\E r \in Runs : Admit(r) \/ Work(r) \/ Trouble(r)) \/ Environment

Spec == Init /\ [][Next]_vars

(* A run keeps going while its process lives, and the cron watchdog and    *)
(* people keep starting runs; nothing promises pushes, stops or failures.  *)
FairSpec == Spec /\ \A r \in Runs : WF_vars(Admit(r)) /\ WF_vars(Work(r))

(***************************************************************************)
(* Properties.                                                             *)
(***************************************************************************)
Repair == [pass : Nat, head : Heads, commit : Heads \cup {NoHead}, escalated : BOOLEAN]
PostRecord == [id : Units, pass : Nat, sev : FindingSeverities, upgrade : BOOLEAN]
RunRecord ==
    [step : Steps, pass : Nat, kind : {"none", "new", "resume", "stale", "redrive"},
     head : Heads \cup {NoHead}, base : Bases \cup {0},
     producer : Producers \cup {"none"}, held : SUBSET Units, escalated : Nat,
     pair : Pairs, at : Nat, out : ReviewMarker, mk : ReviewMarker,
     recs : UNION {[S -> RecordVerdicts] : S \in SUBSET Units},
     found : SUBSET Finding, last : ReviewVerdicts \cup {"none"},
     todo : SUBSET Finding, late : BOOLEAN, next : OutcomeLabels \cup {"none"}]

(* Every variable, and every field of a run's memory, stays in its domain;  *)
(* the pull request's labels are the loop's outcome labels and "stop".      *)
TypeOK ==
    /\ head \in Heads /\ base \in Bases
    /\ reviews \in Seq(ReviewMarker)
    /\ resolves \in Seq(Repair)
    /\ posts \in Seq(PostRecord)
    /\ labels \subseteq OutcomeLabels \cup {"stop"}
    /\ run \in [Runs -> RunRecord]
    /\ used \in [moves : Nat, faults : Nat]

AllIdle == \A r \in Runs : At(r, "idle")

(* Published: completed by the publish path, not by an error or an empty   *)
(* pass, which write no findings comment.                                  *)
Published(m) == m.state = "complete" /\ m.reason \in {"none", "debt"}

(* Crash consistency of the claim comment: every unit whose accepted        *)
(* verdict is "finding" still has that finding on the marker that settles   *)
(* on it.  A resumed pass that kept the verdicts and lost the findings      *)
(* would converge over them.                                                *)
AcceptedFindingsKept ==
    \A i \in DOMAIN reviews :
        LET m == reviews[i]
        IN  m.state = "complete" /\ m.verdict # "blocked" /\ m.gen.claimed =>
              \A u \in DOMAIN m.gen.recs :
                  m.gen.recs[u] = "finding" => \E f \in m.findings : f.id = u

(* A settled review describes one revision: no finding on it was judged at *)
(* another head than the one it reports (the stale claim's whole point).   *)
FindingsDescribeHead ==
    \A i \in DOMAIN reviews :
        Published(reviews[i]) => \A f \in reviews[i].findings : f.at = reviews[i].head

(* The converged label is earned: when a run is about to put it on, the    *)
(* marker in its claim comment is complete, its generation is of the       *)
(* revision the run reviewed, every required unit was examined, nothing    *)
(* actionable is left, and a repair under confirmation was confirmed.      *)
ConvergedIsEarned ==
    \A r \in Runs :
        At(r, "mark") /\ run[r].next = "converged" =>
          LET m == reviews[run[r].at]
          IN  /\ m.state = "complete"
              /\ m.gen.claimed
              /\ m.gen.head = run[r].head /\ m.gen.base = run[r].base
              /\ RequiredAt(run[r].head) \ Generated \subseteq DOMAIN m.gen.recs
              /\ \A u \in DOMAIN m.gen.recs : m.gen.recs[u] \in {"no_issue", "finding"}
              /\ \A f \in m.findings : f.sev = "low"
              /\ m.confirm = run[r].pair

(* A batch accepted is never reviewed again: while a claim comment stays on *)
(* one revision and one producer, no edit of it turns a judged unit back    *)
(* into an outstanding or an unlisted one.                                  *)
CoverageNeverRegresses ==
    [][\A i \in DOMAIN reviews :
        LET old == reviews[i].gen
            new == reviews'[i].gen
        IN  old.claimed /\ new.claimed
            /\ new.head = old.head /\ new.base = old.base /\ new.producer = old.producer
            => Judged(old.recs) \subseteq Judged(new.recs)]_vars

(* A retry neither repeats a write nor loses one.  Whatever crashed between *)
(* the post and the record of it, a finding is commented on again only as   *)
(* the upgrade of one that was held back; and every finding a published     *)
(* marker calls posted has its comment on the pull request (postFinding,    *)
(* review/publish.go; PostedFindingIDs, review/reconcile.go).               *)
PostedOnce ==
    /\ \A i, j \in DOMAIN posts : posts[i].id = posts[j].id /\ i < j => posts[j].upgrade
    /\ \A i \in DOMAIN reviews :
          Published(reviews[i]) =>
            \A f \in reviews[i].findings :
              f.posted => \E p \in DOMAIN posts : posts[p].id = f.id

(* Passes are numbered once each and in order: the n-th claim that is not a *)
(* refusal is pass n.  The claim is what keeps a second run from            *)
(* duplicating a pass.                                                      *)
OneClaimPerPass ==
    \A i \in Ran(reviews) : reviews[i].pass = Cardinality({j \in Ran(reviews) : j <= i})

(* A pull request at rest is never parked: when the review leg would       *)
(* refuse this head as already reviewed, the loop label does not ask for   *)
(* a review.                                                               *)
NeverParked ==
    AllIdle /\ reviews # <<>> /\ Admission(reviews).kind = "already"
      => "awaiting-review" \notin labels

(* A pass that no run is working on and that never settled can be taken up *)
(* again: as an open claim, a re-drive or a new revision's pass.           *)
UnsettledIsResumable ==
    AllIdle /\ Ran(reviews) # {} /\ reviews[Max(Ran(reviews))].state # "complete"
      => Admission(reviews).kind # "already"

ClaimOpen(i) == i \in DOMAIN reviews /\ reviews[i].state = "started"

(* With runs started again and again, a posted claim does not stay open:   *)
(* it settles, or a person has stopped the loop.                           *)
ClaimsSettle ==
    \A i \in 1..MaxMarkers : ClaimOpen(i) ~> (~ClaimOpen(i) \/ "stop" \in labels)
=============================================================================
