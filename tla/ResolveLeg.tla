----------------------------- MODULE ResolveLeg -----------------------------
(***************************************************************************)
(* The resolve leg (internal/resolve) against one pull request: selection, *)
(* the worktree, the claim comment, the attempts at an answer, the filing  *)
(* of deferred work, the commit and the push, the replies, the record      *)
(* edits, the complete edit and the label, with crashes, failing calls,    *)
(* pushes by other people and the review leg as the environment.           *)
(*                                                                         *)
(* A finding's id is a member of Units.  The branch is the sequence of its *)
(* commits and a head is a position in it, so that a push by anybody moves *)
(* the head.  Edits in the worktree are told apart by where they come      *)
(* from: the attempt being asked ("now"), a rejected attempt of this run   *)
(* ("rejected"), or anything the leg stands by ("kept"): the accepted      *)
(* answer, a backlog record, what an earlier run left.                     *)
(***************************************************************************)
EXTENDS PRState, ResolveAnswer

CONSTANTS
    Answers,      \* the resolutions the resolver may answer with
    Blocking,     \* bound: those of an answer that also says it is blocked
    Candidates,   \* the open issues the prompt offers as duplicates
    Destination,  \* backlog.destination: "github_issues", "repository" or "none"
    SchemaNative, \* whether the harness constrains its own output
    KeepDisk,     \* whether the worktree of a failed run is there for the next
    MayLose,      \* whether a generation may be lost, or hold an unexamined file
    MaxPass,      \* bound: review passes
    MaxMoves,     \* bound: pushes by other people and stop requests
    MaxFaults     \* bound: crashes and failing calls

ASSUME ResolveLegAssumption ==
    /\ Answers \subseteq ResolutionWords /\ Answers # {} /\ Blocking \subseteq Answers
    /\ Candidates \subseteq Nat \ {0}
    /\ Destination \in {"github_issues", "repository", "none"}
    /\ {SchemaNative, KeepDisk, MayLose} \subseteq BOOLEAN
    /\ MaxPass \in Nat \ {0}
    /\ {MaxMoves, MaxFaults} \subseteq Nat

VARIABLES
    branch,   \* the commits of the head branch
    review,   \* the review marker of the current pass
    claims,   \* the resolve markers, in comment order
    replies,  \* replies[p][u]: replies to finding u that name pass p
    threads,  \* the <<pass, finding>> threads that are resolved
    issues,   \* issues[u]: the issues filed for finding u
    labels,   \* outcome labels and "stop"
    tree,     \* the leg's worktree: where it stands and whose edits it holds
    run,      \* the run's memory
    used      \* how many moves and faults have happened, and unread[u]: the
              \* lookups of finding u that failed while its issue was there

pr == <<branch, review, claims, replies, threads, issues, labels>>
vars == <<branch, review, claims, replies, threads, issues, labels, tree, run, used>>

head == Len(branch)

Origins == {"now", "rejected", "kept"}
Steps == {"idle", "empty", "prepare", "claim", "invoke", "ask", "answer", "publish",
          "persist", "commit", "check", "push", "record", "reply", "review",
          "summary", "complete", "label", "mark", "stop"}

NewClaim(pass, h) ==
    [pass |-> pass, state |-> "started", head |-> h, old |-> FALSE, blocked |-> FALSE,
     commit |-> NoHead, res |-> <<>>]

(* The review this leg answers: its findings and which of them were posted. *)
Reviewed(pass, h, findings, posted, verdict) ==
    [pass |-> pass, head |-> h, posted |-> posted, verdict |-> verdict,
     answer |-> [u \in findings |-> "open"]]

NoReview == Reviewed(0, NoHead, {}, {}, "null")

IdleRun ==
    [step |-> "idle", head |-> NoHead, rv |-> NoReview, redrive |-> FALSE, at |-> 0,
     open |-> NewClaim(0, NoHead), mk |-> NewClaim(0, NoHead), others |-> 0,
     budget |-> [shape |-> 0, semantic |-> 0, transient |-> 0],
     base |-> {}, sent |-> {}, wrote |-> FALSE, already |-> {}, missed |-> {},
     todo |-> {}, next |-> "none"]

Init ==
    /\ branch = <<[by |-> "person", holds |-> {}]>>
    /\ review = Reviewed(1, 1, Units, Units, "issues-remain")
    /\ claims = <<>>
    /\ replies = [p \in 1..MaxPass |-> [u \in Units |-> 0]]
    /\ threads = {}
    /\ issues = [u \in Units |-> 0]
    /\ labels = {"awaiting-resolution"}
    /\ tree = [at |-> NoHead, holds |-> {}]
    /\ run = IdleRun
    /\ used = [moves |-> 0, faults |-> 0, unread |-> [u \in Units |-> 0]]

At(step) == run.step = step
Goto(step) == run' = [run EXCEPT !.step = step]
Finish == run' = IdleRun
Edit(m) == claims' = [claims EXCEPT ![run.at] = m]
Move == used.moves < MaxMoves /\ used' = [used EXCEPT !.moves = @ + 1]
Faulty == used.faults < MaxFaults /\ used' = [used EXCEPT !.faults = @ + 1]

(* A call that may go wrong: a fault is charged for every one that did. *)
Charge(failures) ==
    /\ used.faults + failures <= MaxFaults
    /\ used' = [used EXCEPT !.faults = @ + failures]

Failed(worked) == IF worked THEN 0 ELSE 1

(***************************************************************************)
(* What the markers say.                                                   *)
(***************************************************************************)
Answered(m, word) == {u \in DOMAIN m.res : m.res[u].word = word}

AsPolicy(m) ==
    [blocked |-> m.blocked, pushed |-> m.commit # NoHead,
     resolutions |-> {m.res[u] : u \in DOMAIN m.res}]

CurrentPassComplete(pass) ==
    \E i \in DOMAIN claims : claims[i].pass = pass /\ claims[i].state = "complete"

(* Escalations standing in the resolve markers, and in those of the other passes. *)
Escalations == {x \in (DOMAIN claims) \X Units : x[2] \in Answered(claims[x[1]], "escalated")}
EscalatedCount == Cardinality(Escalations)
OtherEscalated(pass) == Cardinality({x \in Escalations : claims[x[1]].pass # pass})

(* A current generation with n files its review could not examine. *)
Covered(n) ==
    LET required == Cardinality(Units)
    IN  [unresolvedFixable |-> 0, ledgerCurrent |-> TRUE, required |-> required,
         covered |-> required, outstanding |-> 0, couldNotReview |-> n,
         scopeReported |-> TRUE, confirmationRequired |-> FALSE,
         confirmationComplete |-> FALSE]

(* The obligation as the settle may read it: the generation the review     *)
(* names, retired when the pull request left the head it was published     *)
(* for.  A confirmation pair names that head too: it is inherited complete.*)
Convergence ==
    IF run.rv.head # run.head
    THEN {UnmetConvergence(0, 0)}
    ELSE {Covered(0)} \cup (IF MayLose THEN {Covered(1), UnmetConvergence(0, 0)} ELSE {})

(***************************************************************************)
(* Labels and the fatal record.                                            *)
(***************************************************************************)
(* Removals and additions are separate calls and their failures are only   *)
(* said, so a faulty write keeps any old label and may miss the new one.   *)
CleanLabels(next) == (labels \ OutcomeLabels) \cup {next}
LabelResults(next) ==
    {(labels \ (OutcomeLabels \ {next})) \cup kept \cup added :
        kept \in SUBSET (labels \cap OutcomeLabels), added \in {{}, {next}}}

LabelWrite(next) ==
    \/ labels' = CleanLabels(next) /\ UNCHANGED used
    \/ labels' \in LabelResults(next) /\ Faulty

(* A leg that dies on an open claim records it blocked and halts the loop, *)
(* best effort; m is the marker as the leg held it, still started.         *)
ReportFatal(m, failures) ==
    /\ \E edited, labelled \in BOOLEAN :
         /\ IF edited
            THEN Edit([m EXCEPT !.state = "complete", !.blocked = TRUE])
            ELSE UNCHANGED claims
         /\ IF labelled THEN labels' = CleanLabels("halted")
                        ELSE labels' \in LabelResults("halted")
         /\ Charge(failures + Failed(edited) + Failed(labelled))
    /\ Finish
    /\ UNCHANGED <<branch, review, replies, threads, issues>>

(* The claim stays as it is on the pull request, to be resumed. *)
LeaveOpen == Finish /\ UNCHANGED pr

(* A settled pass is refused; one that ended owing something is re-driven. *)
(* A run is only started while the branch has room for its push (bound).   *)
Load ==
    /\ At("idle") /\ "stop" \notin labels /\ head < MaxHead
    /\ LET i == MarkerFor(claims, review.pass)
           done == CurrentPassComplete(review.pass)
       IN  /\ done => ResolveRedrivable(AsPolicy(claims[i]))
           /\ run' = [IdleRun EXCEPT
                !.step = IF DOMAIN review.answer = {} THEN "empty" ELSE "prepare",
                !.head = head, !.rv = review, !.at = i, !.redrive = done,
                !.others = OtherEscalated(review.pass)]
    /\ UNCHANGED <<pr, tree, used>>

(* A review with nothing to resolve: green only with its coverage met. *)
FinishEmpty ==
    /\ At("empty")
    /\ \E c \in Convergence :
         run' = [run EXCEPT !.step = "mark", !.next =
                   IF run.rv.verdict # "converged" /\ EscalatedCount > 0 THEN "halted"
                   ELSE IF Converged(c) THEN "converged" ELSE "halted"]
    /\ UNCHANGED <<pr, tree, used>>

WorktreeReusable == KeepDisk /\ tree.at = run.head

(* A worktree already at the head is reused whatever edits it holds. *)
PrepareWorktree ==
    /\ At("prepare")
    /\ tree' = IF WorktreeReusable
               THEN [tree EXCEPT !.holds = IF tree.holds = {} THEN {} ELSE {"kept"}]
               ELSE [at |-> run.head, holds |-> {}]
    /\ Goto("claim")
    /\ UNCHANGED <<pr, used>>

(* A re-drive rewrites the old claim, a stale one is restarted in memory   *)
(* and its comment left alone, a live one is resumed, else one is posted.  *)
PostClaim ==
    /\ At("claim")
    /\ LET fresh == NewClaim(run.rv.pass, run.head)
           old == claims[run.at]
           m == IF run.at = 0 \/ run.redrive THEN fresh
                ELSE IF ClaimIsStale(old, run.head)
                THEN [old EXCEPT !.head = run.head, !.old = FALSE, !.res = <<>>,
                                 !.commit = NoHead]
                ELSE old
       IN  /\ claims' = IF run.at = 0 THEN Append(claims, m)
                        ELSE IF run.redrive THEN [claims EXCEPT ![run.at] = m]
                        ELSE claims
           /\ run' = [run EXCEPT !.step = "invoke", !.open = m, !.mk = m,
                        !.at = IF run.at = 0 THEN Len(claims) + 1 ELSE run.at]
    /\ UNCHANGED <<branch, review, replies, threads, issues, labels, tree, used>>

(***************************************************************************)
(* The attempts.                                                           *)
(***************************************************************************)
(* A claim that carries its resolutions is not asked again; otherwise the  *)
(* tree is captured, to be put back under every rejected attempt.          *)
Invoke ==
    /\ At("invoke")
    /\ run' = [run EXCEPT
         !.step = IF DOMAIN run.mk.res # {} THEN "publish" ELSE "ask",
         !.budget = [shape |-> IF SchemaNative THEN 0 ELSE 1, semantic |-> 1, transient |-> 1],
         !.base = tree.holds]
    /\ UNCHANGED <<pr, tree, used>>

(* The harness runs with write access and may edit before it answers. *)
Ask ==
    /\ At("ask")
    /\ \E edits \in {{}, {"now"}} : tree' = [tree EXCEPT !.holds = tree.holds \cup edits]
    /\ Goto("answer")
    /\ UNCHANGED <<pr, used>>

(***************************************************************************)
(* The answers.  A resolver may number a finding wrongly, twice, or as a   *)
(* fraction, use a word that is none of the five, or name an issue nobody  *)
(* offered; its list may be too short or too long by one.                  *)
(***************************************************************************)
OneAnswer(words) ==
    [number : {1, 2, Dotted, Beyond, Fraction}, resolution : words \cup {"wontfix"},
     reply : {"", "said"}, duplicate : {Null, False} \cup Candidates \cup {0}] \cup {Foreign}

AnswersOf(words, blocked) ==
    [resolutions : UNION {[1..n -> OneAnswer(words)] : n \in 0..(Cardinality(Units) + 1)},
     summary : {"said"}, blocked : blocked, subject : {Null}]

Documents == AnswersOf(Answers, {Null, False}) \cup AnswersOf(Blocking, {"true"})

WellShaped == {doc \in Documents : ResolveShape(doc)}

Offered == IF Destination = "github_issues" THEN Candidates ELSE {}

(* The findings that were posted, in the order they are numbered.  *)
Numberings(S) == {ids \in [1..Cardinality(S) -> S] : Range(ids) = S}

Valid(n) == {doc \in WellShaped : ResolveSemantic(doc, n, Offered)}

Counts == 0..Cardinality(Units)

(* What may be taken from an answer, by the number of findings shown; a    *)
(* null `blocked' leaves the claim's own, which is false while it is open. *)
Accepted ==
    UNION {{[count |-> n, words |-> Words(doc), blocked |-> doc.blocked = "true"] :
             doc \in {d \in Valid(n) : MapsNumbers(d, n)}} : n \in Counts}

(* An accepted answer settles every posted finding exactly once. *)
Accept ==
    /\ At("answer")
    /\ \E a \in Accepted, ids \in Numberings(run.rv.posted) :
         /\ a.count = Cardinality(run.rv.posted)
         /\ run' = [run EXCEPT !.step = "publish", !.mk.res = Settlement(a.words, ids),
                      !.mk.blocked = a.blocked, !.budget = IdleRun.budget, !.base = {}]
    /\ tree' = [tree EXCEPT !.holds =
                  {IF o = "now" THEN "kept" ELSE o : o \in tree.holds}]
    /\ UNCHANGED <<pr, used>>

Unmappable == {n \in Counts : \E doc \in Valid(n) : ~MapsNumbers(doc, n)}

(* A valid answer whose numbers are no integers to Go kills the leg: there *)
(* is no second attempt, and the tree is left as the answer made it.       *)
Unmapped ==
    /\ At("answer") /\ Cardinality(run.rv.posted) \in Unmappable
    /\ ReportFatal(run.open, 0)
    /\ UNCHANGED tree

Restored == [tree EXCEPT !.holds = run.base]

(* Mutant: the next attempt is asked on top of the rejected one's edits. *)
RetryOnTop(kind) ==
    /\ At("answer") /\ run.budget[kind] > 0
    /\ tree' = [tree EXCEPT !.holds =
                  {IF o = "now" THEN "rejected" ELSE o : o \in tree.holds}]
    /\ run' = [run EXCEPT !.step = "ask", !.budget[kind] = @ - 1]
    /\ UNCHANGED <<pr, used>>

(* A wrong shape, a contradiction and a transient or empty answer each     *)
(* have a budget; the tree is put back first, or the leg does not ask.     *)
Retry(kind) ==
    /\ At("answer") /\ run.budget[kind] > 0
    /\ \/ /\ tree' = Restored
          /\ run' = [run EXCEPT !.step = "ask", !.budget[kind] = @ - 1]
          /\ UNCHANGED <<pr, used>>
       \/ ReportFatal(run.open, 1) /\ UNCHANGED tree

(* No attempt left, or a command where commands are denied: the edits are  *)
(* put back when they can be, and the claim is recorded blocked.           *)
InvokeAbort ==
    /\ At("answer") /\ \E kind \in DOMAIN run.budget : run.budget[kind] = 0
    /\ \/ tree' = Restored /\ ReportFatal(run.open, 0)
       \/ UNCHANGED tree /\ ReportFatal(run.open, 1)

(* The harness failed outright: the refusal leaves the tree as it is. *)
HarnessFails ==
    /\ At("answer")
    /\ ReportFatal(run.open, 1)
    /\ UNCHANGED tree

(* An interrupt puts the edits back and leaves the claim resumable; edits  *)
(* that cannot be put back are a failure.                                  *)
Interrupted ==
    /\ At("answer")
    /\ \/ tree' = Restored /\ LeaveOpen /\ Faulty
       \/ UNCHANGED tree /\ ReportFatal(run.open, 1)

(***************************************************************************)
(* Publication.  `open' is the claim as it was opened, `mk' the marker     *)
(* with the answer on it; the comment learns of the answer after the push. *)
(***************************************************************************)
(* The same model answering both legs is refused where one was not asked   *)
(* for; the answer is already on the marker the refusal records.           *)
AssertDiverged ==
    /\ At("publish")
    /\ \/ /\ run' = [run EXCEPT !.step = "persist", !.todo = Answered(run.mk, "deferred")]
          /\ UNCHANGED <<pr, used>>
       \/ ReportFatal(run.mk, 1)
    /\ UNCHANGED tree

Track(u, tracked) ==
    run' = [run EXCEPT !.todo = run.todo \ {u},
                       !.mk.res[u].tracked = IF Destination = "none" THEN "absent" ELSE tracked]

(* Mutant: an issue is filed without asking whether one is there. *)
PersistDeferredUnasked(u) ==
    /\ At("persist") /\ u \in run.todo
    /\ Destination = "github_issues"
    /\ Track(u, "filed")
    /\ issues' = [issues EXCEPT ![u] = @ + 1]
    /\ UNCHANGED <<branch, review, claims, replies, threads, labels, tree, used>>

(* An issue is filed for u, or the one the answer names stands for it, or   *)
(* nothing is: no item, or refused.  The answer of a filing may be lost,    *)
(* and a lookup that failed reads as no issue there.                        *)
FileIssue(u) ==
    \E lost \in BOOLEAN :
      LET unread == Failed(issues[u] = 0)
          faults == unread + Failed(~lost)
      IN  /\ \/ Track(u, IF lost THEN "unfiled" ELSE "filed")
                /\ issues' = [issues EXCEPT ![u] = @ + 1]
             \/ ~lost /\ Track(u, "filed") /\ UNCHANGED issues       \* duplicate_of
             \/ ~lost /\ Track(u, "unfiled") /\ UNCHANGED issues
          /\ used.faults + faults <= MaxFaults
          /\ used' = [used EXCEPT !.faults = @ + faults, !.unread[u] = @ + unread]

(* A deferral is matched to the issue its finding already has, or filed:   *)
(* as an issue, or as a file in the worktree.                              *)
PersistDeferred(u) ==
    /\ At("persist") /\ u \in run.todo
    /\ \/ /\ Destination = "github_issues" /\ issues[u] > 0
          /\ Track(u, "filed")
          /\ UNCHANGED <<issues, tree, used>>
       \/ Destination = "github_issues" /\ FileIssue(u) /\ UNCHANGED tree
       \/ /\ Destination = "repository"
          /\ run' = [run EXCEPT !.todo = run.todo \ {u}, !.wrote = TRUE,
                                !.mk.res[u].tracked = "filed"]
          /\ tree' = [tree EXCEPT !.holds = tree.holds \cup {"kept"}]
          /\ UNCHANGED <<issues, used>>
       \/ /\ Destination # "github_issues"
          /\ Track(u, "unfiled")
          /\ UNCHANGED <<issues, tree, used>>
    /\ UNCHANGED <<branch, review, claims, replies, threads, labels>>

Persisted ==
    /\ At("persist") /\ run.todo = {}
    /\ Goto("commit")
    /\ UNCHANGED <<pr, tree, used>>

(* Nothing to send: a commit already recorded, no fix and no backlog file, *)
(* or fixes that changed nothing.  A failure before the commit lands       *)
(* records the claim as it was opened, without the answer.                 *)
Commit ==
    /\ At("commit")
    /\ \/ /\ \/ run.mk.commit # NoHead
             \/ Answered(run.mk, "fixed") = {} /\ ~run.wrote
             \/ tree.holds = {}
          /\ Goto("record")
          /\ UNCHANGED <<pr, tree, used>>
       \/ /\ run.mk.commit = NoHead
          /\ Answered(run.mk, "fixed") # {} \/ run.wrote
          /\ \/ /\ tree.holds # {}
                /\ run' = [run EXCEPT !.step = "check", !.sent = tree.holds]
                /\ tree' = [at |-> NoHead, holds |-> {}]
                /\ UNCHANGED <<pr, used>>
             \/ ReportFatal(run.open, 1) /\ UNCHANGED tree

(* The concurrent-push check: a moved head is refused with the claim left  *)
(* open, and a remote head that cannot be read is not a moved one.         *)
CheckRemote ==
    /\ At("check")
    /\ \/ head = run.head /\ Goto("push") /\ UNCHANGED <<pr, used>>
       \/ head # run.head /\ LeaveOpen /\ UNCHANGED used
       \/ Goto("push") /\ UNCHANGED pr /\ Faulty
    /\ UNCHANGED tree

Pushed == Append(branch, [by |-> "leg", holds |-> run.sent])

(* git takes a fast-forward only.  A push that failed, and one that landed *)
(* and could not say so, leave the claim open.                             *)
Push ==
    /\ At("push")
    /\ \/ /\ head = run.head
          /\ branch' = Pushed
          /\ run' = [run EXCEPT !.step = "record", !.mk.commit = head + 1]
          /\ tree' = [at |-> head + 1, holds |-> {}]
          /\ UNCHANGED <<review, claims, replies, threads, issues, labels, used>>
       \/ /\ head # run.head
          /\ LeaveOpen
          /\ UNCHANGED <<tree, used>>
       \/ /\ branch' \in {branch} \cup (IF head = run.head THEN {Pushed} ELSE {})
          /\ Finish /\ Faulty
          /\ UNCHANGED <<review, claims, replies, threads, issues, labels, tree>>

(* Mutant: a retry replies again to what it already answered. *)
RecordForgetting ==
    /\ At("record")
    /\ Edit(run.mk)
    /\ run' = [run EXCEPT !.step = "reply", !.todo = DOMAIN run.mk.res, !.already = {}]
    /\ UNCHANGED <<branch, review, replies, threads, issues, labels, tree, used>>

Said == {u \in Units : replies[run.rv.pass][u] > 0}

(* The claim learns of the commit and the answer.  Replies this pass has   *)
(* already posted are found in the comments, of which a list that cannot   *)
(* be read shows none; a re-drive answers again.                           *)
Record ==
    /\ At("record")
    /\ \/ /\ Edit(run.mk)
          /\ \E seen \in SUBSET Said :
               /\ run' = [run EXCEPT !.step = "reply", !.todo = DOMAIN run.mk.res,
                            !.already = IF run.redrive THEN {} ELSE seen,
                            !.missed = Said \ seen]
               /\ Charge(Failed(seen = Said))
          /\ UNCHANGED <<branch, review, replies, threads, issues, labels>>
       \/ ReportFatal(run.mk, 1)
    /\ UNCHANGED tree

(* Mutant: a fix resolves its thread whether or not it reached a commit. *)
SettlesThreadUnpushed(r) ==
    \/ r.word \in {"fixed", "skipped", "disputed"}
    \/ r.word = "deferred" /\ r.tracked = "filed"

(* A thread is resolved by a fix that was pushed, a refusal that was       *)
(* explained, or a deferral that was filed; an escalation leaves it open.  *)
SettlesThread(r) ==
    \/ r.word = "fixed" /\ run.mk.commit # NoHead
    \/ r.word \in {"skipped", "disputed"}
    \/ r.word = "deferred" /\ r.tracked = "filed"

(* Reply to one finding in its thread, at top level when that failed or    *)
(* there is none, then resolve the thread; no failure stops the pass, and  *)
(* a reply whose answer was lost is said twice.  Replies are counted to 2. *)
ReplyAndResolve(u) ==
    /\ At("reply") /\ u \in run.todo
    /\ \E posts \in IF u \in run.already THEN {1} ELSE 0..2, resolved \in BOOLEAN :
         /\ replies' = IF u \in run.already THEN replies
                       ELSE [replies EXCEPT ![run.rv.pass][u] = Min({2, @ + posts})]
         /\ threads' = IF SettlesThread(run.mk.res[u]) /\ resolved
                       THEN threads \cup {<<run.rv.pass, u>>} ELSE threads
         /\ Charge(Failed(posts = 1) + Failed(resolved))
    /\ run' = [run EXCEPT !.todo = run.todo \ {u}]
    /\ UNCHANGED <<branch, review, claims, issues, labels, tree>>

(* Mutant: a failure to record the answers on the review is passed over. *)
EditReviewBestEffort ==
    /\ At("reply") /\ run.todo = {}
    /\ Goto("summary") /\ Faulty
    /\ UNCHANGED <<pr, tree>>

(* The answers go onto the findings of the review marker. *)
EditReview ==
    /\ At("reply") /\ run.todo = {}
    /\ \/ /\ review' = IF review.pass # run.rv.pass THEN review
                       ELSE [review EXCEPT !.answer =
                               [u \in DOMAIN @ |-> IF u \in DOMAIN run.mk.res
                                                   THEN run.mk.res[u].word ELSE @[u]]]
          /\ Goto("summary")
          /\ UNCHANGED <<branch, claims, replies, threads, issues, labels, used>>
       \/ ReportFatal(run.mk, 1)
    /\ UNCHANGED tree

Summarize ==
    /\ At("summary")
    /\ \/ /\ Edit(run.mk) /\ Goto("complete")
          /\ UNCHANGED <<branch, review, replies, threads, issues, labels, used>>
       \/ ReportFatal(run.mk, 1)
    /\ UNCHANGED tree

(* The marker already reads complete in memory, so a failed complete edit  *)
(* is not reported and leaves the claim open.                              *)
Complete ==
    /\ At("complete")
    /\ LET m == [run.mk EXCEPT !.state = "complete"]
       IN  \/ Edit(m) /\ run' = [run EXCEPT !.step = "label", !.mk = m] /\ UNCHANGED used
           \/ Finish /\ Faulty /\ UNCHANGED claims
    /\ UNCHANGED <<branch, review, replies, threads, issues, labels, tree>>

(* A settle that would be green first asks for the coverage obligation. *)
ChooseLabel ==
    /\ At("label")
    /\ \E c \in Convergence :
         run' = [run EXCEPT !.step = "mark", !.next =
                   ResolvePassLabelWithCoverage(AsPolicy(run.mk), run.others, c)]
    /\ UNCHANGED <<pr, tree, used>>

(* A settled pass takes its worktree with it. *)
RemoveWorktree ==
    tree' = IF run.mk.state = "complete" THEN [at |-> NoHead, holds |-> {}] ELSE tree

ApplyLabel ==
    /\ At("mark")
    /\ LabelWrite(run.next)
    /\ IF Answered(run.mk, "escalated") # {}
       THEN Goto("stop") /\ UNCHANGED tree
       ELSE Finish /\ RemoveWorktree
    /\ UNCHANGED <<branch, review, claims, replies, threads, issues>>

ApplyStop ==
    /\ At("stop")
    /\ \/ labels' = labels \cup {"stop"} /\ UNCHANGED used
       \/ UNCHANGED labels /\ Faulty
    /\ Finish /\ RemoveWorktree
    /\ UNCHANGED <<branch, review, claims, replies, threads, issues>>

(***************************************************************************)
(* Refusals before the claim, crashes, and the rest of the world.          *)
(***************************************************************************)
Refuse ==
    /\ run.step \in {"empty", "prepare", "claim"}
    /\ Faulty /\ LeaveOpen
    /\ UNCHANGED tree

(* Anything the invocation needs that will not come, before an attempt. *)
InvokeRefused ==
    /\ run.step \in {"invoke", "ask"}
    /\ ReportFatal(run.open, 1)
    /\ UNCHANGED tree

Crash ==
    /\ ~At("idle")
    /\ Faulty /\ LeaveOpen
    /\ UNCHANGED tree

SomebodyPushes ==
    /\ Move /\ head < MaxHead
    /\ branch' = Append(branch, [by |-> "person", holds |-> {}])
    /\ UNCHANGED <<review, claims, replies, threads, issues, labels, tree, run>>

(* A claim's age is read only when a run takes it up. *)
ClaimAges ==
    /\ At("idle")
    /\ \E i \in DOMAIN claims :
         /\ claims[i].state = "started" /\ ~claims[i].old
         /\ claims' = [claims EXCEPT ![i].old = TRUE]
    /\ UNCHANGED <<branch, review, replies, threads, issues, labels, tree, run, used>>

(* The review leg, seen from outside: a new revision gets the next pass. *)
Review ==
    /\ review.pass < MaxPass /\ review.head # head /\ "stop" \notin labels
    /\ \E findings \in SUBSET Units :
       \E posted \in SUBSET findings,
          verdict \in IF findings = {} THEN {"converged", "issues-remain"} ELSE {"issues-remain"} :
         /\ review' = Reviewed(review.pass + 1, head, findings, posted, verdict)
         /\ labels' = (labels \ OutcomeLabels) \cup
              {PassLabel(verdict, Cardinality(posted), EscalatedCount)}
    /\ UNCHANGED <<branch, claims, replies, threads, issues, tree, run, used>>

Stop ==
    /\ Move
    /\ labels' = IF "stop" \in labels THEN labels \ {"stop"} ELSE labels \cup {"stop"}
    /\ UNCHANGED <<branch, review, claims, replies, threads, issues, tree, run>>

Work ==
    \/ FinishEmpty \/ PrepareWorktree \/ PostClaim \/ Invoke \/ Ask \/ Accept
    \/ \E kind \in DOMAIN run.budget : Retry(kind)
    \/ InvokeAbort \/ HarnessFails \/ Unmapped \/ AssertDiverged
    \/ (\E u \in Units : PersistDeferred(u)) \/ Persisted \/ Commit \/ CheckRemote
    \/ Push \/ Record \/ (\E u \in Units : ReplyAndResolve(u)) \/ EditReview
    \/ Summarize \/ Complete \/ ChooseLabel \/ ApplyLabel \/ ApplyStop

Trouble == Interrupted \/ Refuse \/ InvokeRefused \/ Crash

Environment == SomebodyPushes \/ ClaimAges \/ Review \/ Stop

Next == Load \/ Work \/ Trouble \/ Environment

Spec == Init /\ [][Next]_vars

(***************************************************************************)
(* Properties.                                                             *)
(***************************************************************************)
CommitRecord == [by : {"person", "leg"}, holds : SUBSET Origins]
ReviewRecord ==
    [pass : Nat, head : Nat, posted : SUBSET Units, verdict : MarkerVerdicts,
     answer : UNION {[S -> ResolutionWords \cup {"open"}] : S \in SUBSET Units}]
Claim ==
    [pass : Nat, state : {"started", "complete"}, head : Nat, old : BOOLEAN,
     blocked : BOOLEAN, commit : Nat,
     res : UNION {[S -> Resolution] : S \in SUBSET Units}]
RunRecord ==
    [step : Steps, head : Nat, rv : ReviewRecord, redrive : BOOLEAN, at : Nat,
     open : Claim, mk : Claim, others : Nat,
     budget : [shape : Nat, semantic : Nat, transient : Nat],
     base : SUBSET Origins, sent : SUBSET Origins, wrote : BOOLEAN,
     already : SUBSET Units, missed : SUBSET Units, todo : SUBSET Units,
     next : OutcomeLabels \cup {"none"}]

(* Every variable, and every field of the run's memory, stays in its domain. *)
TypeOK ==
    /\ branch \in Seq(CommitRecord) /\ head > 0
    /\ review \in ReviewRecord
    /\ claims \in Seq(Claim)
    /\ replies \in [1..MaxPass -> [Units -> Nat]]
    /\ threads \subseteq (1..MaxPass) \X Units
    /\ issues \in [Units -> Nat]
    /\ labels \subseteq OutcomeLabels \cup {"stop"}
    /\ tree \in [at : Nat, holds : SUBSET Origins]
    /\ run \in RunRecord
    /\ used \in [moves : Nat, faults : Nat, unread : [Units -> Nat]]

(* A push carries nothing an accepted answer does not describe: no commit  *)
(* of the leg holds an edit of an attempt the same run rejected.           *)
PushedIsAnswered ==
    \A i \in DOMAIN branch : branch[i].holds \cap {"now", "rejected"} = {}

(* Deferred work is filed once for each time the leg could not see that it *)
(* was: a crash between the filing and the record of it, the retry, a      *)
(* later pass and a filing whose answer was lost find the issue instead of *)
(* filing another.  Only a lookup that fails lets a second one be filed.   *)
DeferralsFiledOnce == \A u \in Units : issues[u] <= 1 + used.unread[u]

(* Comment idempotency: within a pass a finding is answered again only by  *)
(* a run that re-drives the pass, or by one whose reading of the comments  *)
(* failed to show it that very reply.                                      *)
RepliedOnce ==
    [][\A p \in 1..MaxPass, u \in Units :
        replies[p][u] > 0 /\ replies'[p][u] > replies[p][u]
          => run.redrive \/ u \in run.missed]_vars

(* A thread closed as fixed has its fix on the branch: the commit the run  *)
(* rests on, pushed now or recorded by an earlier run, is there and is the *)
(* leg's own.                                                              *)
FixedThreadIsPushed ==
    [][\A x \in threads' \ threads :
        run.mk.res[x[2]].word = "fixed" =>
          run.mk.commit \in DOMAIN branch /\ branch[run.mk.commit].by = "leg"]_vars

(* A settled pass agrees with the review it settles: every posted finding  *)
(* is answered on the claim, and the review marker says the same word.     *)
SettledAnswersReview ==
    LET i == MarkerFor(claims, review.pass)
    IN  i # 0 /\ claims[i].state = "complete" /\ ~claims[i].blocked =>
          /\ DOMAIN claims[i].res = review.posted
          /\ \A u \in review.posted : review.answer[u] = claims[i].res[u].word
=============================================================================
