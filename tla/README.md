# CrossRev: models, checks and proofs

CrossRev drives an AI code review of a pull request in a loop: a *review leg*
reads the diff and posts findings, a *resolve leg* answers them and pushes
repairs, and the loop goes on until a review converges or something halts it.
There is no server and no database. Everything the loop remembers lives on the
pull request, in comments and labels (and one git ref for coverage), and every
leg is a short-lived process that may die anywhere. This directory holds TLA+
models of that, the TLC configurations that check them and the proofs that the
TLA+ proof system checks.

## The system

| part | code | state it keeps | operations |
|---|---|---|---|
| policy decisions | `internal/policy` | none | convergence, outcome labels, re-drive rules, caps |
| pass markers | `internal/prstate` | one JSON marker per pass, in a comment | newest pass, open claim, stale claim, new revision, held ids |
| coverage ledger | `internal/prstate`, `internal/forge/ghexec/refstore.go` | a generation of per-file verdicts, behind a ref or in a comment | record, read, fit, shed |
| review leg | `internal/review` | its own memory; the marker, findings and labels on the pull request | admit, claim, coverage loop, publish, label, report failure |
| resolve leg | `internal/resolve` | its marker, replies, commits on the head branch | admit, claim, edit in a worktree, commit and push, reply, settle, label |
| cycle driver | `internal/cycle` (`cycle.go`, `bound.go`) | counters of one command | run legs in turn until a bound or an end |
| watchdog, restart | `internal/cycle` (`watchdog.go`, `restart.go`) | labels only | re-fire a leg whose label has waited too long; re-open a halted loop |
| run lock | `internal/vcs/lock.go` | a pid file per pull request | acquire, release |
| batching | `internal/intel` | none | pack the outstanding files into calls under a byte budget, split what fits no call, merge its verdicts |
| review calls | `internal/review` (`invoke.go`, `split_calls.go`, `reads_leg.go`) | reads charged, verdicts of parts, retry budgets; all in memory | put a call to the harness, retry, assess its reads, accept, merge |
| forge client | `internal/forge/ghexec` | none | comments, labels, refs through `gh` |
| harness adapters | `internal/harness`, `internal/runlog/transcript.go` | payload files of a run directory | gate, ask a model, read it back, watch for commands, count and price what it used |
| exec, sandbox, read server | `internal/exec`, `sandbox`, `readserve` | child processes, quarantined files, a log of served reads | run a child, hide files from it, serve it file reads |
| diff and validation | `internal/diff`, `vcs/hunks.go`, `validate`, `review/validate.go` | none | shape a diff for the prompt, check an answer against it, place its findings |
| generation codec | `internal/prstate` (`schema2.go`, `coverage.go`) | two blobs per generation | encode, compact, verify, decode |
| credentials | `internal/cred`, `internal/app/refresh.go` | a rotating token in a secret, copies in scratch homes | refresh, stage, discard |
| GitHub App | `internal/app` | its registration and key | register, rotate |
| the rest | `internal/config`, `cli`, `ui`, `initcmd`, `runlog`, ... | files | loading, rendering, set-up |

How they interact. GitHub events start a leg: the label `awaiting-review` or
`awaiting-resolution` being added, a pull request opening, a person's command.
A leg reads the pull request, decides whether to run (*admission*), writes a
claim marker, works, writes its outcome into the marker and replaces the outcome
label, which is the event that starts the next leg. A label that is already
present fires nothing when it is added again, and no workflow runs on a plain
push, so a pull request whose label and marker disagree stays silent: this is
the loop's characteristic failure. The workflow runs the legs of one pull
request in one concurrency group; a person's shell and the watchdog are outside
it. Admission, the label and the re-drive rule are written in three packages and
must agree.

What is hard here:

* a process dies, or a call fails, between any two writes;
* the head is pushed to, force-pushed or its base moves while a leg works;
* what a run read at its start (markers, labels, revisions) is stale when it is used;
* two runs at once, whose comment edits overwrite each other (no versions);
* writes that fail silently by design (label removals) or read as empty (comment lists);
* a state of markers and labels that no actor will ever act on.

`PROJECT.json` lists each of these at the line where it bites.

## Modules

| module | models | state |
|---|---|---|
| `Policy` | `internal/policy`: every decision, as operators | none |
| `PolicyProofs` | theorems about those decisions | |
| `PRState` | the marker readers of `internal/prstate`, generation currency, held ids | none |
| `PRStateProofs` | lemmas about the operators of `PRState` | |
| `ReviewLeg` | the review leg against one pull request, call by call | below |
| `ReviewLegProofs` | theorems about `ReviewLeg` | |
| `MCReview` | the instances of `ReviewLeg` for TLC | |
| `ResolveLeg` | the resolve leg against one pull request, call by call | `branch`, `review`, `claims`, `replies`, `threads`, `issues`, `labels`, `tree`, `run` |
| `ResolveAnswer` | what a resolver's answer must be, and the words taken from it | none |
| `ResolveLegProofs` | theorems about `ResolveLeg` and `ResolveAnswer` | |
| `Ledger`, `MCLedger` | the coverage ledger: ref store, marker store, the fallback, and the passes that publish through them | `commits`, `objects`, `ref`, `markers`, `run`, `config` |
| `LedgerProofs` | theorems about `Ledger` | |
| `Loop` | both legs reduced to what the loop sees, the workflows' label events, the local driver, the watchdog, restart | `markers`, `labels`, `events`, `job`, `driver`, `dog`, `lost` |
| `LoopProofs` | the theorem that `Loop` implements `PassProtocol`, and those about what the driver, restart and status say | |
| `Status` | what `crossrev status` says of a state of `Loop` | none of its own |
| `PassProtocol` | the abstract protocol of a pass, which `Loop` implements | `pass`, `review`, `resolve` |
| `RunLock` | the local run lock, several processes | `file`, `proc`, `held` |
| `Packing` | `internal/intel`: packing files into calls, splitting, verifying | `files`, `shared`, `verdicts`, `plan`, `pack` |
| `ReviewCalls`, `MCReviewCalls` | the calls of a packed pass: attempts, served reads, answers, splits, a run after a failed one | `Packing`'s, and `conf`, `run`, `prompt`, `leg`, `log`, `judged`, `pending`, `recorded`, `spent` |
| `Usage` | what a vendor's report of usage is read as, folding and pricing | none |
| `Naming` | which model a report, an export or a session file is read to name | none |
| `Harness`, `MCHarness` | a call to a harness and the passes made of them: gates, the child, what is read back, signing and pricing | `conf`, `run`, `payloads`, `child`, `accepted`, `usage`, `marker`, `review`, `counted` |
| `HarnessProofs` | theorems about `Harness` and `Usage` | |
| `JsonValues` | the values of a JSON document as jq and Go tell them apart | none |
| `Diff` | parsing, clipping, numbering and anchoring a unified diff | none |
| `Validation` | both readings of a reviewer's answer | none |
| `Codec` | a generation as two blobs, and the decoder | none |
| `Answers`, `MCAnswers` | one answer from the diff it was shown to the comments and records it becomes | `stage`, `file`, `prompt`, `doc`, `verdicts`, `pair`, `faithful`, `resumed`, `posts` |
| `Credentials` | rotating and static credentials: the refresher's jobs and the legs that hold copies | `now`, `live`, `secret`, `job`, `lost`, `proc`, `disk`, `faults` |
| `CredentialsProofs` | theorems about `Credentials` | |

The decisions are shared: `ReviewLeg`, `ResolveLeg` and `Loop` call the operators of
`Policy`, so a rule that two packages must agree on is written once here only where the
code calls one function, and twice where the code writes it twice (the resolve label and the
re-drive rule; status and restart; admission and the label).

### ReviewLeg

`ReviewLeg` has the pull request as shared state and each run's memory as a record:

| variable | code |
|---|---|
| `head`, `base` | the revision pair GitHub reports |
| `reviews` | review markers in comment order; one per claim or refusal |
| `resolves` | what review reads of the resolve leg's markers: pass, head, commit, whether anything was escalated |
| `posts` | finding comments in creation order |
| `labels` | the outcome labels and `crossrev/stop` |
| `run[r]` | the `Context` of one process: `out` is `PublishedClaim.Marker` as `reportFatal` would write it, `mk` the pass marker `runCoverage` builds, `recs` the generation under construction, `held`, `escalated`, `pair` what was read at the start |
| `used` | how many moves and faults the bounds have spent |

Each action is one call to the forge, the ledger or the model, with the local
work around it:

* `Admit`: `loadContext` and `admit`: open claim (fresh or stale), new revision,
  re-drive, caps. Nothing is written. `PostDeclined`, `PostClaim`: what admission decided.
* `BindScope`, `Pack`, `PublishInitial`: the required set, resuming the current
  generation, the opening generation. `Judge`, `RecordBatch`, `EditBatch`: one call to
  the model, its generation, and the claim edit that commits it. `Bounded`,
  `HaltPass`, `LabelHalted`: a pass at its bound.
* `FinishCovered`, `Post`, `Summarize`, `Complete`, `Label`, `Mark`: publication,
  in the order of `publish.go`.
* `SettleNothing`, `LabelEmptied`: a pass with nothing to review.
* `Stale`, `Fail`: a pair that moved at a generation's publication, a failing
  call; both end in `ReportFatal`, whose own two writes may fail. `Crash`: the process is gone.
* `Push`, `MoveBase`, `ClaimAges`, `Resolve`, `Stop`: the rest of the world.

What is abstracted: a finding's identity is the unit it is about, its severity
`fix` or `low` against the configured bar; a marker handle stands for the
generation it leads to; age is one bit that may be set at any time; packing is
a nondeterministic non-empty subset of the outstanding units. What is written
in memory and never read again is left out.

### ResolveLeg

A head is a position in `branch`, so anybody's push moves it. A commit and the
worktree are told apart by whose edits they hold: the attempt being asked, a rejected
attempt, or what the leg stands by. `run` is the session of one process: `rv` the review it answers,
`open` the claim as loaded, `mk` the marker it is building, `budget` the retries
spent by kind. The actions follow `resolve.go` and `mutate.go`:
`Load` (selection, re-drive, the stale claim), `FinishEmpty`, `PrepareWorktree`, `PostClaim`,
`Invoke`, `Ask`, `Accept`, `Unmapped`, `Retry`, `InvokeAbort`, `HarnessFails`, `AssertDiverged` (`invoke.go`), `PersistDeferred`
(`persist.go`), `Commit`, `CheckRemote`, `Push` (`commit.go`), `Record`, `ReplyAndResolve` (`reply.go`),
`EditReview`, `Summarize`, `Complete`, `ChooseLabel`, `ApplyLabel`, `ApplyStop`. `Interrupted`, `Refuse`,
`InvokeRefused` are calls that fail and report, `Crash` a process that is gone. The review
leg is one action, `Review`, of the environment. The lookups answer as the forge client does, which has no word for "could not read": `FileIssue` finds no issue when the list of issues
failed (`used.unread` counts the lookups that failed while there was one), and `Record` may see any part of the replies already made (`run.missed` is the rest). A filing or a reply may
land while its answer is lost; the reply is then said again at top level. The words of commits and
replies, hooks and the sandbox are left out.

`ResolveAnswer` is the validation of an answer, as the code performs it: the shape half works on doubles (`floor`), the
semantic half in full precision, and `mapNumbers` reads the numbers once more as Go integers. `Accepted` is what those three let through
of the documents a resolver may write (`Documents`: numbers that are out of range, repeated, `1.0`, `1.5` or
`1.0000000000000001`, a word outside the five, an empty reply, a duplicate nobody offered, a list too short or too long by one), and `Accept`
takes one of them, for any order in which the posted findings may have been numbered.

### Ledger

One slot of one pull request. `commits` is every ledger commit there ever was, `objects` those the forge still
holds, `ref` where the slot's ref points. A marker's handle names a commit (ref store) or
carries the generation (marker store). A pass is `Start` (claim), `Read` (resume), then for the
opening generation and for each batch `ParentFor`, `StoreObjects`, `MoveRef` or
`PublishInline`, `Adopt`, `Judge`, `Edit`, and at the end `Settle` or `Halt`. `Refused` is a write the
forge refuses, where `auto` falls back for the rest of the pass; `MoveUnanswered` an update that lands
while its answer is lost; `Fail` any other failure or a kill. The world pushes, changes `coverage.store`, deletes the ref, moves
it to a commit of its own, and collects what no ref reaches. Generation numbers and the size
in bytes are left out: whether a payload fits is a choice at each write.

### Loop, Status and PassProtocol

A leg is claim, push, settle, label. What a leg reads at its start and its claim are one action,
and one leg runs at a time: in automated mode because the workflows share a concurrency
group, in local mode because the driver calls its legs. `LoseLedger` is a generation that can no longer be read (`lost`). The watchdog, restart and people interleave with the
steps of a leg. A label event fires only when the label was absent, goes
into `events`, and may be dropped. The watchdog acts on the labels its sweep listed. Labels are removed and added
one call at a time, and a call may fail or the process die between two of them: `ApplyLabelsCut` (a leg's labels), `ReportFatalCut` (the record of a dead leg, its marker or its
labels), `RetryCut`, `AddBackCut`, `GiveUpCut` (the watchdog, where a failed add also ends the sweep) and `RestartCut` leave every set of labels that the order of the calls allows, and `used.bare` counts those
that left no outcome label. When every call succeeds the labels are one step. A declined notice that repeats the newest marker is not kept; `fixable`
stands for "something is actionable". Drafts, the clock and messages are left out.

`Status` defines, over the same state, the report of `crossrev status`: the state word of the header, a row for each leg of each pass - with every
answer the probe behind an open claim may give, from the run lock or from GitHub - and the command NEXT ends in. `open` is whether an escalation still waits by
the threads (`statusOpenEscalated`), which people resolve by hand, so it is a choice wherever something was escalated. `StatusAgrees` says that the three
agree: no red row under a green header, a red one under a halt, a command that works, and no invitation to start what a row shows at work.
`PassProtocol` is what the markers promise whoever drives: a resolution begins
only on a settled review, a review is not taken up again once its resolution
began, an open review ends before the next pass: it settles, or a cap refuses to take it up. `Loop` implements it
(`PassesFollowProtocol`) by the mapping `Passes`, `Status("review")`,
`Status("resolve")`: the number of review passes that ran, and for the newest marker of each leg of that pass
whether it is open, refused, owed (re-drivable) or done.

### RunLock

Each call of `AcquireRunLock` and `Release` is an action of a process; a process may be killed
and its pid may come back.

### Packing and ReviewCalls

`Packing` is `PlanCalls` with its loop unrolled into steps, so that each branch is an action: a file joins the open call
(`Join`), starts the next (`StartCall`), is skipped (`SkipGenerated`), rides alone (`RideWhole`) or is split (`Split`, then a
`Verify` for each round of measuring and shrinking); `Carry` and `FinishPacking` end it. Content is sizes: a hunk is a
sequence of lines, each with a size and the sides of the diff it is on, and a block of a part is a slice of one hunk with the line
numbers its `@@` header claims. A prompt measures the shared context, a frame per section and the content.
`ChunkHunk`, `RepackContent` and `ShrinkContent` are the splitter of `split.go`, written as folds.

`ReviewCalls` extends it with the loop of `runCoverage` over the plan and with `runPrompt`. `StartPrompt`, `SelfTestPasses`,
`SelfTestFails`, `RunChild`, `AskAgain`, `Abandon`, `AssessCallReads`, `RefuseAnswer`, `RejectAnswer`, `AcceptWhole`,
`AcceptPart` and `Record` are the stages of a call in the order of the code. `leg` is the memory of the run (`readsNotes` folded into what
was charged and the first reason, and the usage), `log` the scratch file the read server appends to,
`pending` the parts of split files, `recorded` what the claim names. The harness is the environment: a child reads
up to what it was granted, asks for more, or never reaches the server, and then answers, fails once more or for good,
is interrupted or runs a command. `spent` is history: what was really served and started in this run. `Crash` and a failed run are followed by `NewRun`, which starts from `recorded`.
Bytes of reads are left out (a read costs one), and so are the words of prompts and of refusals.

### Usage, Naming and Harness

`Usage` reads each vendor's report into one record of six buckets (`ParseClaude` and its siblings of `usage.go`), folds
records (`addUsageBuckets`) and prices them (`pricing.go`). Tokens and rates are small numbers. `Charged` is the vendor: what a
call costs, with every write at the rate of its own lifetime and twice the rate past the long-context break.

`Naming` is who is said to have answered: the largest share of a Claude session (`claudeModels`), and for Codex the session id found in its own
events (`CodexSessionID`) and the file of that session (`ReadCodexRollout`) in a directory that every Codex process of the machine writes to,
where only so many files without the id in their name are opened (`ScanCap`, 1 in the run, 25 in the code).

`Harness` is one run directory. `Gate` is the environment, isolation, version and endpoint gates before a call, `Degrade` a review whose read
server fails its self-test, `Ask` the child: `preCreate` empties the files of the attempt and the child, which is the
environment, answers or not, obeys its flags or runs a command, and is a model that is named by what `Naming` reads. `ReadBack` is the envelope each adapter makes of it,
`Tripped` the watch for commands. `RetryFailure`, `RetryAnswer`, `Accept` and `NextCall` are what the legs do with the envelope;
`Substituted` and `EndPass` sign and price the pass. `counted` and `review.by` are history: what the calls behind `usage` really used and who answered.

### Diff, Validation, Codec and Answers

Sizes and text are left out: a line of a file is kept, added or removed, a value of a document is one of those a check tells apart (`JsonValues`
says which: `1.0` is a whole number to jq and not to Go's decoder). `Diff` is `parser.go`, `clip.go`, `numbered.go`, `anchor.go`
and `ShapeFileDiff`; `Validation` is the shape and the semantic half of `validate.Review` and then the leg's own decoding; `Codec`
is `EncodeGenerationV3`, `CompactGeneration` and each refusal of `DecodeGenerationV3`. `Answers` follows one batch through them: the file is
shaped (`ReviewDiff`, `Unit`, `Slice`), a document is returned (`Answer`), checked (`Check`), published (`Publish`), possibly rewritten by another writer
(`Rewrite`) and read by a later run (`Resume`), and its findings are placed (`Place`).

### Credentials

A refresh token is good once. `StartRefresh`, `Exchange`, `AnswerLost`, `Unverified`, `WriteSecret` and `WriteFails` are the refresher's job, whose runs the
workflow's concurrency group keeps apart. `StartProcess`, `Prepare`, `HarnessRefreshes`, `Discard`, `EndProcess` and `Kill` are a process and the legs it runs, with
the staging variables of its environment in `proc.home` and the scratch homes in `disk`. The vendor and the clock are external. `lost` is history: how the stored
token was spent without a replacement being stored.

## Checks

TLC, safety and liveness, each run finite and exhaustive.

| run | question | bounds, and why they are enough |
|---|---|---|
| `review_faultless` | with nobody failing: is the marker true of its head, and does the label agree with admission? | three heads and three markers: a pass, its repair, and the pass after it; two units, so that a batch may be partial; two moves |
| `review_crash` | one crash or failing call between any two steps: posts, coverage, numbering, the green label | two units, three heads of which the second narrows the diff to one unit and the third reverts the branch to its base, caps that refuse a pass, one fault, two moves |
| `review_live` | does every claim settle? | one unit, two heads, two bases, one fault, an unreadable comment list |
| `resolve_leg` | do answers, backlog, threads and pushes stay in step with the record? | three heads (the review's, a repair, one more), two passes, one fault, one push or stop by people, three kinds of answer in documents one resolution too short or too long, of which only an escalation also says it is blocked (`Blocking`), one issue offered as a duplicate, a generation that may be lost; one finding, since findings do not interact within a leg |
| `loop` | do driver, restart and status tell the truth, do the markers follow the protocol, and does a stalled pull request end somewhere? | both modes, a cap of one pass for the automated loop and of two for the local driver, so that each meets it after a full round, three heads, two acts of people on the local driver and one on the automated loop, one fault (a dead leg, a dropped event, a label write that fails or is cut between any two of its calls, a generation lost) |
| `ledger` | is coverage ever invented, can it be lost? | two runs, two units, three commits (the opening generation and a batch of one run, and one more of either), two heads, and two events in all among pushes, overlapping starts, failures, refusals, deletions, other writers and changes of the store; runs and units are interchangeable |
| `credentials` | does the stored token stay good, and does a scratch home outlive its leg? | two runs of the refresher, three harnesses of which two stage and one rotates, four hours with tokens good for three and calls of two, one failing call or kill anywhere |
| `answers` | is what was shown the change, what is accepted shown, what is resumed accepted, and does every finding land? | every edit script of up to four lines and the kinds of file that are treated apart (added, deleted, renamed, binary, unterminated, unavailable), one line of context, a snap of one: every adjacency that clipping, numbering and snapping tell apart; every shape of document over them, one field wrong at a time |
| `review_calls` | does the plan cover the files and fit its budget, and is what a pass charges, records and reports what its children did? | up to three files of six shapes (small, generated, without hunks, two hunks, a hunk of mixed lines, a line larger than any call) and six sizes of shared context, from small to past the hard limit, in every combination: these are packed and then refused at the isolation gate. Five inputs (a split beside a whole file, two in a call, one carried, one skipped) go on through their calls under three configurations, with two faults, two runs, a grant of two reads and attempts that ask for up to two |
| `harness` | whose answer is accepted, what is it said to have cost, and did the legs rest on one model? | two passes, two calls, two attempts, so that files are reused, refused attempts fold and calls add up; the five adapters, every refusal of a gate, four price entries (unlisted, a rate missing, two write rates, a break), two models, two kinds of work for one model and one where the legs are told to differ, listings and directories of two |

The properties, by hazard:

* *The record is true.* `AcceptedFindingsKept`, `FindingsDescribeHead` (review);
  `SettledAnswersReview`: a settled resolution answers every finding that was posted, and the review it answers says the same word;
  `CoveredWasJudged`: whatever a generation counts as judged was judged by a call at that revision;
  `ResumedAsJudged`: what decodes from the stored blobs is what was accepted, or nothing.
* *Nothing twice.* `PostedOnce`, `OneClaimPerPass`; `DeferralsFiledOnce`: one issue a finding, and at most one more for each lookup that failed while there was one;
  `RepliedOnce`: within a pass a finding is answered again only by a re-drive or by a run that could not see that very reply.
* *Nothing lost.* `CoverageNeverRegresses`; `NewestIsKept`: collection never reaches the generation the newest
  marker names; `ProgressKept`: over resumes, fallback, compaction, halts, failures and kills what was
  judged stays judged; `FindingsLand`: a finding written to the schema becomes a comment, on its line if that line was shown.
* *Green is earned.* `ConvergedIsEarned`, `GreenWasRead`.
* *Pushes and threads.* `PushedIsAnswered`: no commit of the leg carries an edit of an attempt it rejected;
  `FixedThreadIsPushed`: a thread closed as fixed has its fix on the branch.
* *Nobody waits for nobody.* `NeverParked`, `UnsettledIsResumable`, `RestartIsAccepted`, `StatusAgrees`,
  `CycleTellsTheTruth`, `PassesFollowProtocol` and the liveness properties `ClaimsSettle` and `StallsEnd`: an automated pull request that waits for a leg gets to
  `converged`, `halted` or a person's stop, or is `Stranded` by a label write that was cut, below.
* *The ref.* `AncestryIsOurs`: another writer's commit never enters the chain behind a marker.
* *The plan.* `EveryUnitOnce`: every outstanding file is in one call, in all its parts, carried or skipped, in path order;
  `CallsFit`: every prompt is within the budget but for what no split makes smaller; `SplitShowsTheFile`: the parts of a split
  have every line once, in order, under its own line number.
* *The calls.* `SpendingAccounted`: reads are charged once whatever became of the attempt, stay within the allowance, and usage
  counts every child; `WholeFileVerdict`: a split file is judged on all its parts or not at all; `DegradedIsSaid`: no answer is
  accepted from a call whose reads failed without the pass saying so, and under `halt` from none that was to be served.
* *The answer.* `ShownNumbersHold`: every numbered line of the prompt is the line of the file with that number, and no changed line is missing;
  `EvidenceWasShown`: an accepted citation of a file is a span that one side of it showed.
* *The child.* `AcceptedIsTheChilds`: an accepted answer is the last child's and not a file an earlier pass left, from the configured endpoint,
  after no command that the adapter reports; `UsageIsTrue`: a pass says it used what its calls used and never prices it below what is charged; `LegsDiverge`: two
  legs told to differ were not both answered by the one model of the review.
* *The credential.* `SecretIsLive`: the stored token is the one the vendor accepts, outside windows named one by one;
  `NothingOutlivesTheLeg`: a running harness is pointed at its own leg's copy and at no other.

### Where the code and what is written of it differ

Two runs expect a violation. Each is one property that the repository states
and one shortest trace that breaks it.

| run | what happens |
|---|---|
| `review_resume_loses` | a re-driven claim is written with no findings and its old generation; a crash before the first batch leaves accepted `finding` verdicts with no findings, and the next run converges without them |
| `lock_overlap` | two processes read the lock before either writes it, and both hold it |

More of the same kind, found while modelling and not given a run:

* a stale claim is reset in the claim but not in the pass marker (`batches.go:138`, `214`): findings of the abandoned head are
  published with the new one, against `review.go:117-118`;
* the caller of `finishNothingToReviewRun` drops its `publishState` (`batches.go:260`), so a failing label write rewrites
  the record that `empty.go:115` calls durable;
* a finding held back in pass 2 and posted as `fix` in pass 3, whose leg then fails: the re-drive clears the findings of the claim
  (`claim.go:139-159`), and a run that resumes after one more crash reads the held ids from markers that no longer carry the attempt (`publish.go:80`, `94`), takes
  the finding for an upgrade once more and comments it a second time, against "within-pass retries post once" (`publish.go:84`). The first proof attempt of
  `PostedOnce` found it, and the property is stated with this exception;
* the summary edit writes an empty state (`batches.go:735`, `publish.go:192`); a crash before the complete edit leaves a claim no run takes up;
* a refusal posted over a blocked pass of the same number (`claim.go:235`) hides it, and a person's review is answered
  "already reviewed"; in the loop the same notice makes restart pick a review that refuses. The same notice ends an open claim that
  a person started beyond the cap and that died: `OpenClaim` takes the newest marker of the pass, the refusal included (`prstate/claim.go:24`),
  so no run takes the claim up again. The proof of `PassesFollowProtocol` found this one: the protocol has `RefuseReview` for it;
* the push moves the head, so a claim that recorded its commit is stale to the next run, which asks the agent again; the branch that skips the
  fix (`docs/adrs/0002:48`) is not reached;
* after the watchdog gives up on a resolution that never claimed, `status` names `crossrev review`, which has nothing to do, while `restart`
  picks the resolution (`cycle/restart.go:154-155`);
* one finding that Go cannot decode (a line of `1.5`, a `side` of `false`, a `why` that is not a string), which the shape check lets through, makes
  `parseFindings` answer no findings at all (`review/render.go:772-781`), and a scalar in the list becomes an empty comment; `FindingsLand` asks for documents to the schema;
* a citation of another file of the batch is held against the ranges of the unit it is filed under (`validate/review.go:545`), and one of the base side is
  recorded with the head's revision; `EvidenceWasShown` speaks of a unit's own file;
* a finding is moved to a line of context only when the diff's margin is as wide as the snap (`review/validate.go:137-140`), and a review diff that cannot be had makes every finding file-level;
* a packed pass adds up the tokens of its calls and keeps the first call's own cost (`batches.go:34-36`); the resolve leg drops what attempts refused for
  their content used (`resolve/invoke.go:494-527`); and it attaches no model or endpoint (`resolve/mutate.go:339`), so the table never prices a resolve pass
  and a named endpoint's pass shows the harness's price, against `changelog-0.x.md:9`. `UsageIsTrue` says of prices from the harness nothing;
* a resolution numbered `2.0` passes the validation, which compares numbers by value (`validate/resolve.go:306-316`), and has no id in `mapNumbers`, which reads them
  with `Atoi` (`resolve/validate.go:36`): the leg dies on a valid answer without a second attempt, and the answer's edits stay in the worktree (`Unmapped`). The same
  holds for an extra resolution numbered `1.0000000000000001`, which is in range beside 1 and 2 and a duplicate of neither;
* models are compared by the first one a review call named (`batches.go:76-99`, `mutate.go:370-381`), so a later call answered by the resolver's model is only warned
  about, against `docs/adrs/0001:28-31`; `LegsDiverge` speaks of reviews answered by one model;
* nothing bounds a harness call by the hour the credential floor leaves it, and an exchange whose answer is lost spends the stored token, though `app/refresh.go:125-130` says
  the chain still holds: `SecretIsLive` excepts both by name. The callers of `Discard` drop its error;
* `ledgerFor` picks the store by configuration alone, so after a fallback a switch from `auto` to `refs` reads the marker's handle as corrupt and every pass fails
  closed, and `marker` reads a ref handle as lost; `ledger.go:12-15` says a later pass reads its predecessor's store;
* a ruleset that refuses only the creation of refs answers POST with a refusal, which is not looked at; the PATCH of an absent ref that follows is
  not a refusal, so `auto` fails where ADR 0022 says it falls back (`refstore.go:203-225`);
* the marker store is built without a renderer (`ledger.go:50`), so the fit is measured on the payload alone and a comment that is too large is met at the
  claim edit, as a fatal error and not as the `ledger_exhausted` halt of `markerstore.go:142-144`;
* two overlapping runs: the forced move of the second orphans the generation the first one's marker names (`NewestIsKept` asks for orderly runs), against
  `what-crossrev-writes.md:34`;
* a pull request can be left with no outcome label at all, which neither the sweep nor any event wakes again: the watchdog takes the awaiting label off before it puts it
  back (`watchdog.go:219-223`), a leg takes the other outcome labels off before it puts its own on (`review/labels.go:17-50`), and the sweep lists only what carries an awaiting label. One failed add, or one
  kill between the two calls, is enough. `reportFatal` does not repair a leg's failed add, since the claim is complete by then. `StallsEnd` excepts this one case by name (`Stranded`: some label write was cut, no outcome label, nothing running
  or queued), so everything else - an added label that is not followed by its event, a leg that dies with an awaiting label on, a cut that leaves an old label - is shown to end. The failed add also ends
  the sweep, so that the pull requests after it wait for the next one (`watchdog.go:159`, `181`); the model has one pull request;
* `IssueByFinding` answers a failed list with "no issue" (`ghexec/issues.go:35-40`), and the leg then files the deferral again (`resolve/persist.go:38-47`), which `issues.go:29-31` names as the
  worst answer; `postedFindingIDs` (`resolve/reconcile.go:11-34`) reads a failed list of comments as none (`ghexec/read.go:242-249`), and a resumed leg replies again. A thread reply whose answer
  was lost is repeated at top level by the same run. `DeferralsFiledOnce` and `RepliedOnce` allow exactly these;
* the watchdog acts on the labels it listed, so it can add an awaiting label beside `converged` and later halt a converged pull request;
* a part may exceed the budget with lines left to cut: a part is charged with its `@@` header and repacked at half its size, so once its lines
  weigh no more than the header `chunkHunk` returns it unchanged (`shrinkContent`, `split.go:263`), and five rounds may also run
  out. `BatchPlan.Calls` says every call but an unsplittable unit fits (`batch.go:79-82`). `CallsFit` excepts the first case; the
  bounds of its run do not reach the second;
* `Quarantine` that fails midway has moved some files, and `runPrompt` returns before the deferred restore exists (`invoke.go:349-353`): they stay
  moved until somebody puts them back;
* the per-leg byte allowance of served reads is checked against the lines alone and charged with the gutter and header that are sent
  (`readserve/server.go:427-428`), so the last read may pass it; counts of reads cannot;
* a halted or stopped pull request whose leg a person started again keeps its label until that leg settles: the row says it is running and NEXT below it
  still asks for the same leg without saying so (`cycle/status.go:830`, `869`), which `status.go:1073-1078` calls the one thing the display exists to get right; and a review
  that stopped at its bound is no claim, yet its row reads `no result yet` or `abandoned` (`status.go:674-720`), and a deferral filed nowhere halts the loop over a
  row with a tick, against `status.go:795-798`. `StatusAgrees` excepts these by name;
* `status` under a stop after convergence names a review that refuses; restart after an escalation picks a review that refuses an unchanged head.

### What the passing runs assume

Some properties hold only while an input is left out of the run that checks
them, because the code does not keep them otherwise. A reader can turn the constant and watch TLC find the trace.

* `AcceptedFindingsKept`, `FindingsDescribeHead`, `UnsettledIsResumable`: no crash (`MaxFaults = 0`), see above; the last also no caps, because of the refusal above.
  The theorems about them have the same hypotheses.
* `CoverageNeverRegresses`: a ledger that can be read; with `MayLose` a lost one is started from zero, as the code means to. On a branch that only moves
  forward: after a force-push back, a new pass takes over that head's verdicts and not the findings.
* `PostedOnce`, `OneClaimPerPass`: comment lists that can be read. `ghexec/read.go:242`
  answers a failed read with no comments (`MayMisread`), and then a finding
  may be posted twice and a pass numbered twice.
* `DeferralsFiledOnce`: an issue that was filed is listed from then on, under its label. A list that lags behind the filing, or a label somebody removed, is a lookup that failed.
* `RepliedOnce` speaks of a reply after an earlier step's: the second copy of one whose answer was lost, made in the same step, is not counted.
* `SpendingAccounted`, `DegradedIsSaid`: the drain of the read log succeeds. A drain that fails is logged and its reads stay for the next (`review/invoke.go:294-301`).
* `AcceptedIsTheChilds`: `preCreate` empties the files of an attempt. `transcript.go:77-82` logs a file it could not create and goes on, and an earlier file then stays
  for a child that writes nothing.
* `NothingOutlivesTheLeg`: putting the variable of a leg's home back is part of `Discard` and does not fail on its own; the removal of the home does.
* `AcceptedFindingsKept` and `UnsettledIsResumable` are thus no promise about crashes: `review_resume_loses` shows what one crash does to the first, and what a crash leaves of a claim is `ClaimsSettle`'s to answer.
* `PassesFollowProtocol`: a leg asked for by hand starts when no other leg runs. The workflow's concurrency group and the run lock of one machine see to that, not a terminal elsewhere.
* `NeverParked`: a base that stands still. When only the base moves after the complete edit,
  no label is written (`publish.go:228`) and admission, which compares heads, refuses every later run.
* `PostedOnce` lets a finding be commented again when it is the upgrade of one that was held back, and nothing says that an upgrade
  is commented: `heldEarlierIDs` reads the interrupted attempt's own marker too (`publish.go:80`), see above.
* Every run of the review leg: one run and one reviewer at a time.
* `CycleTellsTheTruth`, `RestartIsAccepted`, `StatusAgrees` (its halts and commands): no fault, because a leg killed between its
  marker and its label leaves a label that nobody corrects; and in `loop` coverage that is met, since `readResolve` does
  not ask for it. With lost coverage the driver says "converged" over another label, against `bound.go:204-207`. The last two also while the pass number is within the
  cap and nothing is escalated (see the refusal above).
* After a lost generation the resolve leg writes `awaiting-review` at a head that
  the review leg declines; the watchdog ends that round trip (`StallsEnd`).
* A resolve push is made as git makes it, without force: the concurrent-push check (`resolve/commit.go:155`) is skipped when the remote head cannot be read.
* `SecretIsLive`: one repository per credential; two seeded with the same one refresh each other's token away.
* `LegsDiverge`: the model that answers has the largest share of its Claude session, and a grok session one model; grok's list is read in alphabetical order
  (`usage.go:322`), so with a helper in it the helper may be named.
* `NewestIsKept`, `ProgressKept`: runs one after the other, no foreign hand on the ref, and no configured `marker` store over a ref handle.

### Fairness

The legs: weak fairness of a live process's next step (no step waits for another actor), and of starting a run
(`Admit`, `Load`), because the watchdog sweeps on a schedule and people ask again. The loop: weak fairness of the
legs and the driver together, of `RunWorkflow` (GitHub runs what is queued, except what `DropEvent` loses within its bound), and of
`Watchdog`, which a cron schedule starts and which then goes on to its end unless a call fails or it is killed. Nothing is assumed of pushes, stops,
faults or ageing. `ClaimsSettle` and `StallsEnd` make the exception explicit: a person's
stop label ends every promise, and `StallsEnd` also the cut label write of `Stranded`.

## Proofs

What TLC finds on the instances above, TLAPS proves for every value of the
constants. The assumptions are those the modules state, each named and evaluated by TLC on
the runs: `PRStateAssumption` (the units are a finite set, and there is at least one head and one base),
`ReviewLegAssumption`, `ResolveLegAssumption`, `LoopAssumption`, `LedgerAssumption`, `CredentialsAssumption`, `ResolveAnswerAssumption`, `UsageAssumption`, `NamingAssumption` and `HarnessAssumption` (the type of each
constant, and bounds that leave room for a first pass, head, call or attempt). The bounds that make the runs finite are
constants like any other here: the theorems hold of any number of faults, moves, commits, attempts and passes.

| theorem | says | inductive invariant |
|---|---|---|
| `PolicyProofs!HaltingIsRedriving`, `GreenResolveOwesNothing`, `CoverageOnlyWithholdsGreen` | the decisions that are written twice agree, for every marker | none: the decisions are unfolded |
| `ReviewLegProofs!TypeCorrect` | `[]TypeOK` | `TypeOK /\ Bound` |
| `ReviewLegProofs!ConvergedLabelIsEarned` | `[]ConvergedIsEarned`, one run at a time | that and `Earning` |
| `ReviewLegProofs!PassesAreNumberedOnce` | `[]OneClaimPerPass`, one run at a time, readable comment lists | `NumberedInv` |
| `ReviewLegProofs!CommentsAreWrittenOnce` | `[]PostedOnce`, under the same hypotheses | `PostedInv` |
| `ReviewLegProofs!JudgedStaysJudged` | `CoverageNeverRegresses`, one run at a time, no stored generation lost | `KeptInv` |
| `ReviewLegProofs!AcceptedFindingsStay`, `FindingsAreOfTheirHead` | `[]AcceptedFindingsKept`, `[]FindingsDescribeHead`, one run at a time that nothing disturbs | `WholeInv` |
| `ReviewLegProofs!LoopIsNeverParked` | `[]NeverParked`, the same and a base that stands still | that and `AskingInv` |
| `ReviewLegProofs!UnsettledIsTakenUp` | `[]UnsettledIsResumable`, the same, any base, and no caps | `WholeInv` and `UndeclinedInv` |
| `ResolveLegProofs!AnswersSettleOnce` | an answer that passes both halves of the validation and whose numbers are integers names every finding in exactly one resolution, nothing else, and with one of the five words, for any document | none: the validation is unfolded |
| `ResolveLegProofs!TypeCorrect`, `PushesAreAnswered`, `SettledPassesAgree`, `DeferralsAreFiledOnce`, `RepliesAreIdempotent`, `FixedIsPushed` | every property of the `resolve_leg` run | `Inv`, below |
| `LoopProofs!LoopFollowsProtocol` | `Loop` implements `PassProtocol` | `LoopInv` |
| `LoopProofs!CycleIsTruthful`, `RestartsAreAccepted`, `StatusIsConsistent` | `[]CycleTellsTheTruth`, `[]RestartIsAccepted`, `[]StatusAgrees`: what a person is told is so | `TruthInv` |
| `LedgerProofs!CoverageIsEarned`, `GreenIsEarnedByReading`, `NobodyElsesCommits` | coverage is never invented, nor another's commit adopted | `TypeOK /\ SoundInv` |
| `LedgerProofs!NewestHandleIsKept`, `OrderlyProgressIsKept` | orderly runs never lose it | that and `OrderlyInv` |
| `CredentialsProofs!SecretStaysLive`, `NoHomeOutlivesItsLeg` | both properties of the `credentials` run | `TypeInv /\ HomeInv /\ ChainInv` |
| `HarnessProofs!AcceptedAnswerIsTheChilds`, `UsageIsAccountedFor`, `LegsRestOnTwoModels` | every property of the `harness` run | `TypeInv /\ CallInv /\ ModelInv /\ UsageInv` |

* `PRStateProofs`: the lemmas the legs rest on. `MarkerFor`, `CurrentReviewPass` and the checkpoint
  answer zero or a position or number of a marker that is in the list, and the
  marker a pass starts from is a marker. They need the fact that a finite set of
  numbers has a greatest and a least element, proved in `PolicyProofs` from the
  well-foundedness of strict inclusion on finite sets.
* *ReviewLeg.* `TypeOK` alone is not inductive: a generation or a
  finding written by a run is typed only if the run is bound to a real revision and
  reviewer, and the label it writes is an outcome label only if it chose
  one; `Bound` says both of every run that is not at rest. `ConvergedLabelIsEarned` is for
  `Runs = {r0}`, the workflow's concurrency group; two runs may overwrite
  each other's comment and break it. The property speaks of the last moment before the label, so
  `Earning` follows the run from its claim: from `scope` on it has a comment that exists; from `initial` on its records cover the
  required units; from `plan` on, whenever no batch is in memory only, its marker names
  exactly those records at its own revision pair; from `post` on the confirmation it
  carries is the repair's or none; from the complete edit on, the comment is the marker. At
  `Label`, `PassLabelWithCoverage` answers "converged" only if `Converged` holds of what was read, and
  `ConvergedIsClean` turns its counts of zero into the absence of outstanding,
  unexamined and actionable entries. From `label` on the environment cannot touch
  the comment, because only an open claim ages. Three more invariants follow a run the same way, each relating its memory to what
  is on the pull request. `NumberedInv`: a run that may still write its claim holds the newest one, under the number it works with, and a run about to open one
  has counted the passes that ran. `PostedInv`: the findings a posting run has left are those without a comment or held back earlier, and
  with the comments they are all that its marker will call posted; a published marker's findings have theirs. `KeptInv`: from packing to the complete edit the
  marker under construction, the one that would be reported and the run's coverage keep the verdicts of the generation in the comment, and a
  generation names only units its revision requires, so that a later pass which takes it up drops none. Their hypotheses are those of the runs that check the properties:
  a list that fails to be read is empty (`MayMisread`), and a lost generation is started again (`MayLose`). Forced pushes, base moves, crashes and failing calls are not excluded.
  The last four theorems are of a leg that nothing disturbs (`Undisturbed`: no fault, no forced push, no misread or lost list or generation), and any number of
  heads, units, passes, pushes and stops. Each hypothesis is one the code needs: `review_resume_loses` is the trace with one fault. `WholeInv` says that a comment, and what a run holds of it, is of one revision pair and has the finding
  behind each of its `finding` verdicts, or else is of a pair that cannot come back, so that nothing of it is taken over; it also says in which states a comment may be found between two writes, the
  blank one of the summary edit among them, which only the run that wrote it ever sees. `AskingInv` says that a run about to label works on a head no earlier
  than any reviewed one, that a run marking its result asks for no review, and that over a reviewed head a label that asks for one is removed by the run still at work. A base that moves under a finished pass breaks it, hence `MaxBase = 1`.
  `UndeclinedInv` says that no marker is a refusal, so that the newest marker of a pass is the pass itself; a refusal posted
  under a halted pass's number hides it, and TLC finds that trace with `MaxPasses = 1`, hence no caps.
* *ResolveLeg.* The run's memory, the claims and the review are related step by step: `TreeIsAnswered` (where in a run an edit of a rejected attempt may still be in the
  worktree, in what a retry puts back and in what a commit holds), `CommitsAreOurs` (a commit that a claim rests on is on the branch, and the leg's), `AlreadySaid` (a run that
  does not re-drive knows what it has answered, but for what its reading missed), `OneClaim` and `Placed` (a pass has one claim, and the run's position is that claim, open while it works) and `AnswersAgree` (a claim answers
  all posted findings or none, and a complete one says what the review marker says). Pushes by others and later review passes interleave, which is why these are stated of the claim's own pass.
* *Loop.* The abstract state is read off the marker list by counting and by taking the newest marker of a pass, so most of the proof is about those readers: what each becomes when a marker is
  appended or rewritten (`EditReaders` and its siblings). `LoopInv` says that the passes that ran are numbered without gap or double,
  that a resolution's pass is one that ran and whose review is done, and that a working leg's marker is the newest of its leg and pass and open. Each action is then shown to be a step of the protocol or a stutter.
* *Loop and Status, what a person is told.* The driver, restart and status all read the markers again after a leg has labelled, by rules of their own, so the promise is that two readings of one history agree; `TruthInv` is what they have
  in common. `RecordedInv`: the passes that ran are in comment order, a notice refuses a pass beyond the cap and no later than the next, a pass has one resolution, of a review with something to fix, and a marker fills in what its leg and state call for.
  `CalmInv` holds while nothing has failed. `Calm`: an open marker is the one at work, a resolution ends in one of the results a resolution can have, and a review that was answered with a push or whose successor was refused is behind the head.
  `Fit` relates the labels to the markers: what leaves nothing to do is labelled converged (unless the notice of a refused pass took its place, in automated mode), a label that asks for a resolution is on one that would be taken up, a resolution that is owed is asked for or halted,
  and a halt has its reason in a marker. `Fit` is about a loop at rest; in the middle of a leg it is about the label the leg has chosen, and it is what makes the next `Restart`, `StartCycle` or reading of status right.
  `ModeInv` keeps the workflows and the driver apart. No cap, no number of heads, moves or faults is fixed; the hypotheses inside the three properties (no fault, a loop at rest, under its cap) are theirs. `StatusAgrees` is then shown part by part:
  `NextWorksTrue`, `GreenRows`, `HaltsAreShown`, `RunsAreSaid`, the second and the last of any state, whatever failed.
* *Ledger.* `SoundInv`: every commit of ours holds an honest generation and has a parent of ours; every handle a marker or a run holds is of such a commit or carries an honest generation; a run's records were judged. Nothing is assumed
  of the ref, which anyone may move. `OrderlyInv` holds while no run overlapped another and no one else touched the slot: what the newest marker names is among the ancestors of the ref, and what the run at work will publish
  is a descendant of it and carries its verdicts on (`RunOrderly`, step by step). `Ancestry` is the least set closed under parents, which is how it can be reasoned about without recursion.
* *Credentials.* `ChainInv`: one refresh at a time, the answer a job holds is the vendor's token, and a running leg's copy of a rotating credential outlives the floor of the leg's start, or a loss is on record. `HomeInv`: a staged leg has its
  home on disk and exported, no other variable points at a home, and every home left behind was paid for with a fault.
* *Harness.* `CallInv` follows an attempt: past the gates no inherited endpoint is there; the attempt's payload file is empty or the child's. `ModelInv`: who signs a pass answered it. `UsageInv` is that every record of usage
  `Matches` the count behind it: the same number of tokens, and, whenever neither an unsplit write nor the break puts it in doubt, the same worth at the table's rates as the charge. The lemmas behind it are
  about data: whichever vendor's convention a report follows, its buckets match (`ReportMatches`); adding two records adds their tokens and their worth and can only add doubt (`SumsAdd`, `FoldMatches`); a price from the table is the
  worth of a record in no doubt (`PriceIs`). `ModelInv` rests on `NamesAreTrue`: whatever else a session or a directory holds, and however long it is, what is read is the model that answered or nothing.

Only model-checked: liveness (`ClaimsSettle`, `StallsEnd`), since fairness and ENABLED are beyond the prover;
`Packing`, `ReviewCalls` and `Answers`, whose properties say what folds and recursive definitions over sequences compute for every input, which needs induction over data.

## Not modelled

* The frozen single-prompt review path, the text of prompts, the advisory search, the supply of whole files. In `ReviewLeg` one `Judge` stands for a call with its
  outcome, and any set of outstanding units may share a call; `ReviewCalls` has the calls and `Packing` the sets. The two are not composed.
* The second shape attempt and the tripwire of a supplied grok review: the table of verified blocks has no entry for it, so every such review is refused.
* The bytes of markers and payloads: encodings are modelled by what they keep and what the decoder refuses.
* Loading, rendering and messages of `status`, `cycle` and the watchdog.
* The command lines and settings files of harness adapters, process groups, the moves of the sandbox, the protocol of the read server, the event log, configuration, the init
  command, the GitHub App flows, preflight, the command line: no part of the state the loop shares.
* `Answers` has one batch of one or two files; `Harness` repeats attempts for no stated reason, where `ReviewCalls` and `ResolveLeg` have the reasons. The three are not composed.

## Plan

1. The modules above: done.
2. Proofs of the policy decisions, of every safety property of `ReviewLeg`, of `ResolveLeg`, `Ledger`, `Loop`, `Status`, `Credentials`, `Harness` and the refinement of `PassProtocol`: done.
3. Proofs that remain: `SpendingAccounted` and `DegradedIsSaid` of `ReviewCalls` for any plan;
   mutual exclusion of `RunLock` when acquisitions do not overlap.
4. Further components, each outside the loop: process groups, the read server's ranges, configuration.
