-------------------------------- MODULE Loop ---------------------------------
(***************************************************************************)
(* The loop around the two legs of a pull request: the workflows that run  *)
(* a leg when its label goes on, the local `crossrev cycle' driver, the    *)
(* watchdog and `crossrev restart' (internal/cycle, templates/).           *)
(*                                                                         *)
(* A leg is reduced to what the rest of the loop sees of it: the marker it *)
(* claims, the push of a resolution, the marker it settles, the label it   *)
(* leaves.  ReviewLeg and ResolveLeg have the legs in full.  The mode is   *)
(* chosen once; in either, one leg runs at a time (the workflows share a   *)
(* concurrency group, the driver calls its legs).                          *)
(***************************************************************************)
EXTENDS Policy, Sequences, FiniteSetsExt

CONSTANTS
    Modes,      \* the modes to explore: "automated", "local"
    CapAutomated, CapLocal,
                \* policy.max_passes_per_cycle, by mode
    MaxHead,    \* bound: revisions of the branch
    MovesAutomated, MovesLocal,
                \* bounds: pushes, commands and label changes by people, by mode
    MaxFaults   \* bound: crashes, dropped events, failing legs and lost ledgers

ASSUME LoopAssumption ==
    /\ Modes \subseteq {"automated", "local"} /\ Modes # {}
    /\ {CapAutomated, CapLocal, MaxHead} \subseteq Nat \ {0}
    /\ {MovesAutomated, MovesLocal, MaxFaults} \subseteq Nat

VARIABLES
    mode,     \* how the loop is driven
    head,     \* the revision of the branch
    lost,     \* whether the coverage of the current review can no longer be read
    markers,  \* the markers of both legs, in comment order
    labels,   \* outcome labels, "stop" and "retried"
    events,   \* the legs with a label event waiting in the queue
    job,      \* the leg that is running
    driver,   \* the local driver
    dog,      \* the watchdog's sweep of this pull request
    used      \* how many moves and faults have happened, and how many of the
              \* faults left the pull request with no outcome label

vars == <<mode, lost, head, markers, labels, events, job, driver, dog, used>>

Legs == {"review", "resolve"}
Awaiting(leg) == IF leg = "review" THEN "awaiting-review" ELSE "awaiting-resolution"
AwaitingLabels == {Awaiting(leg) : leg \in Legs}
Clean == [blocked |-> FALSE, pushed |-> FALSE, resolutions |-> {}]

NewMarker(leg, pass, state) ==
    [leg |-> leg, pass |-> pass, state |-> state, head |-> head, verdict |-> "null",
     fixable |-> FALSE, res |-> Clean]

IdleJob ==
    [step |-> "idle", leg |-> "none", at |-> 0, seen |-> 0, pushed |-> FALSE,
     next |-> "none", brake |-> FALSE, failed |-> FALSE]
OffDriver == [step |-> "off", turn |-> 0, bound |-> FALSE, said |-> "none"]
IdleDog == [step |-> "idle", leg |-> "none", retried |-> FALSE]

(* A pull request is opened, which is the first event. *)
Init ==
    /\ mode \in Modes
    /\ lost = FALSE /\ head = 1 /\ markers = <<>> /\ labels = {}
    /\ events = IF mode = "automated" THEN {"review"} ELSE {}
    /\ job = IdleJob /\ driver = OffDriver /\ dog = IdleDog
    /\ used = [moves |-> 0, faults |-> 0, bare |-> 0]

MaxPasses == IF mode = "local" THEN CapLocal ELSE CapAutomated
MaxMoves == IF mode = "local" THEN MovesLocal ELSE MovesAutomated
Move == used.moves < MaxMoves /\ used' = [used EXCEPT !.moves = @ + 1]
Faulty == used.faults < MaxFaults /\ used' = [used EXCEPT !.faults = @ + 1]
Idle == job.step = "idle"

(* A fault in the middle of a write of labels. *)
Cut ==
    /\ used.faults < MaxFaults
    /\ used' = [used EXCEPT !.faults = @ + 1,
                  !.bare = @ + IF labels' \cap OutcomeLabels = {} THEN 1 ELSE 0]

(***************************************************************************)
(* What the markers say.                                                   *)
(***************************************************************************)
(* A refused pass leaves a marker and is not a pass that ran. *)
Ran == {i \in DOMAIN markers : markers[i].leg = "review" /\ markers[i].state # "declined"}
CurrentReviewPass == Max({0} \cup {markers[i].pass : i \in Ran})

MarkerFor(pass, leg) ==
    Max({0} \cup {i \in DOMAIN markers : markers[i].pass = pass /\ markers[i].leg = leg})

State(i) == IF i = 0 THEN "none" ELSE markers[i].state
Verdict(i) == IF i = 0 \/ markers[i].verdict = "null" THEN "blocked" ELSE markers[i].verdict

Escalated ==
    Cardinality({i \in DOMAIN markers : Has(markers[i].res, "escalated")})

OtherEscalated(pass) ==
    Cardinality({i \in DOMAIN markers :
        markers[i].pass # pass /\ Has(markers[i].res, "escalated")})

(* The label going on is what fires a workflow: one already there is silent. *)
Fires(before, next) ==
    IF mode = "automated"
    THEN {leg \in Legs : Awaiting(leg) = next /\ next \notin before} ELSE {}

(***************************************************************************)
(* A leg begins.                                                           *)
(***************************************************************************)
(* Mutant: a pushed revision is not noticed. *)
AdmissionIgnoresHead ==
    LET i == MarkerFor(CurrentReviewPass, "review")
    IN  IF State(i) = "started" THEN "resume"
        ELSE IF i = 0 THEN "new"
        ELSE IF ReviewRedrivable(markers[i].state, markers[i].verdict) THEN "redrive"
        ELSE "already"

(* What admission makes of the markers at this head. *)
Admission ==
    LET cur == CurrentReviewPass
        i == MarkerFor(cur, "review")
    IN  IF State(i) = "started" THEN "resume"
        ELSE IF i = 0 \/ markers[Max(Ran)].head # head THEN "new"
        ELSE IF ReviewRedrivable(markers[i].state, markers[i].verdict) THEN "redrive"
        ELSE "already"

NextPass == CurrentReviewPass + (IF Admission = "new" THEN 1 ELSE 0)

(* The cap stops a generated pass, taken up again or new, and never one a  *)
(* person asked for.                                                       *)
Declined(capped) == capped /\ NextPass > MaxPasses

(* Mutant: a resolution starts on a review that has not settled. *)
ResolveAdmissionAny ==
    LET r == MarkerFor(CurrentReviewPass, "resolve")
    IN  IF MarkerFor(CurrentReviewPass, "review") = 0 THEN "refused"
        ELSE IF State(r) = "complete" /\ ~ResolveRedrivable(markers[r].res) THEN "already"
        ELSE "claim"

(* A resolution answers a settled review, and its own pass only once. *)
ResolveAdmission ==
    LET cur == CurrentReviewPass
        i == MarkerFor(cur, "review")
        r == MarkerFor(cur, "resolve")
    IN  IF State(i) # "complete" \/ Verdict(i) = "blocked" THEN "refused"
        ELSE IF State(r) = "complete" /\ ~ResolveRedrivable(markers[r].res) THEN "already"
        ELSE IF ~markers[i].fixable THEN "empty"
        ELSE "claim"

Accepts(leg) ==
    IF leg = "review" THEN Admission # "already"
    ELSE ResolveAdmission \in {"empty", "claim"}

Working(leg, at) ==
    [IdleJob EXCEPT !.step = "work", !.leg = leg, !.at = at, !.seen = head]

Labelling(leg, next) == [IdleJob EXCEPT !.step = "label", !.leg = leg, !.next = next]

(* Only a driver is there to be told that its leg failed. *)
Stopped(failed) == [IdleJob EXCEPT !.failed = failed /\ mode = "local"]

Reopened(i) ==
    [markers EXCEPT ![i] = NewMarker(markers[i].leg, markers[i].pass, "started")]

(* A notice that repeats the newest marker says nothing new and is not     *)
(* kept.                                                                   *)
StartReview(capped) ==
    LET cur == CurrentReviewPass
        i == MarkerFor(cur, "review")
        notice == NewMarker("review", NextPass, "declined")
    IN  \/ /\ Declined(capped)
           /\ markers' = IF markers[Len(markers)] = notice THEN markers
                         ELSE Append(markers, notice)
           /\ job' = Labelling("review", "halted")
        \/ /\ Admission = "new" /\ ~Declined(capped)
           /\ markers' = Append(markers, NewMarker("review", cur + 1, "started"))
           /\ job' = Working("review", Len(markers) + 1)
        \/ /\ Admission \in {"resume", "redrive"} /\ ~Declined(capped)
           /\ markers' = Reopened(i)
           /\ job' = Working("review", i)

StartResolve ==
    LET cur == CurrentReviewPass
        r == MarkerFor(cur, "resolve")
    IN  \/ /\ ResolveAdmission = "empty"
           /\ job' = Labelling("resolve",
                        IF lost \/ (Verdict(MarkerFor(cur, "review")) # "converged" /\ Escalated > 0)
                        THEN "halted" ELSE "converged")
           /\ UNCHANGED markers
        \/ /\ ResolveAdmission = "claim" /\ r = 0
           /\ markers' = Append(markers, NewMarker("resolve", cur, "started"))
           /\ job' = Working("resolve", Len(markers) + 1)
        \/ /\ ResolveAdmission = "claim" /\ r # 0
           /\ markers' = Reopened(r)
           /\ job' = Working("resolve", r)

(* A leg is run: it starts, is refused, or has nothing to do. *)
RunLeg(leg, capped) ==
    IF "stop" \in labels \/ ~Accepts(leg)
    THEN /\ job' = Stopped(leg = "resolve" /\ "stop" \notin labels
                            /\ ResolveAdmission = "refused")
         /\ UNCHANGED markers
    ELSE IF leg = "review" THEN StartReview(capped) ELSE StartResolve

(***************************************************************************)
(* A leg works, settles and labels.                                        *)
(***************************************************************************)
Settled(m) == [markers EXCEPT ![job.at] = m]

(* A resolution that pushed leaves a new revision behind it. *)
Push ==
    /\ job.step = "work" /\ job.leg = "resolve" /\ ~job.pushed
    /\ head = job.seen /\ head < MaxHead
    /\ head' = head + 1
    /\ job' = [job EXCEPT !.pushed = TRUE]
    /\ UNCHANGED <<mode, lost, markers, labels, events, driver, dog, used>>

(* An unmet coverage obligation with nothing actionable is already blocked. *)
SettleReview ==
    /\ job.step = "work" /\ job.leg = "review"
    /\ \E verdict \in ReviewVerdicts, fixable \in BOOLEAN :
         /\ fixable => verdict = "issues-remain"
         /\ markers' = Settled([markers[job.at] EXCEPT !.state = "complete",
                                  !.verdict = verdict, !.fixable = fixable])
         /\ job' = Labelling("review",
                     PassLabel(verdict, IF fixable THEN 1 ELSE 0, Escalated))
    /\ lost' = FALSE
    /\ UNCHANGED <<mode, head, labels, events, driver, dog, used>>

(* A bounded review halts incomplete. *)
HaltReview ==
    /\ job.step = "work" /\ job.leg = "review"
    /\ markers' = Settled([markers[job.at] EXCEPT !.state = "incomplete"])
    /\ job' = Labelling("review", "halted")
    /\ UNCHANGED <<mode, lost, head, labels, events, driver, dog, used>>

Results(pushed) ==
    {[blocked |-> FALSE, pushed |-> pushed, resolutions |-> s] :
        s \in {{[word |-> IF pushed THEN "fixed" ELSE "skipped", tracked |-> "absent"]},
               {[word |-> "deferred", tracked |-> "unfiled"]},
               {[word |-> "escalated", tracked |-> "absent"]}}}

SettleResolve ==
    /\ job.step = "work" /\ job.leg = "resolve"
    /\ \E res \in Results(job.pushed) :
         LET pass == markers[job.at].pass
             other == OtherEscalated(pass)
             base == ResolvePassLabel(res, other)
         IN  /\ markers' = Settled([markers[job.at] EXCEPT !.state = "complete", !.res = res])
             /\ job' = [Labelling("resolve",
                          IF base = "converged" /\ lost THEN "awaiting-review" ELSE base)
                          EXCEPT !.brake = Has(res, "escalated")]
    /\ UNCHANGED <<mode, lost, head, labels, events, driver, dog, used>>

Replaced == OutcomeLabels \cup {"retried"}

(* An escalation also pulls the brake. *)
ApplyLabels ==
    /\ job.step = "label"
    /\ labels' = (labels \ Replaced) \cup {job.next} \cup
                   (IF job.brake THEN {"stop"} ELSE {})
    /\ events' = events \cup Fires(labels, job.next)
    /\ job' = IdleJob
    /\ UNCHANGED <<mode, lost, head, markers, driver, dog, used>>

Fatal ==
    Settled([markers[job.at] EXCEPT !.state = "complete",
               !.verdict = IF job.leg = "review" THEN "blocked" ELSE @,
               !.res = [@ EXCEPT !.blocked = (job.leg = "resolve")]])

(* A leg that dies settles its claim blocked and halts the loop. *)
ReportFatal ==
    /\ job.step = "work" /\ Faulty
    /\ markers' = Fatal
    /\ labels' = (labels \ Replaced) \cup {"halted"}
    /\ job' = Stopped(TRUE)
    /\ UNCHANGED <<mode, lost, head, events, driver, dog>>

(* The labels are written one call at a time, the removals first.  One that *)
(* fails or is cut short may leave any of the old labels, and may not have *)
(* put the new one on; that one is never taken off.                        *)
Torn(next) ==
    {(labels \ (Replaced \ {next})) \cup kept \cup added :
        kept \in SUBSET (labels \cap Replaced), added \in {{}, {next}}}

Fired(next) == IF next \in labels' THEN Fires(labels, next) ELSE {}

(* What the leg does with a failure of it is nobody's but a driver's to     *)
(* know, and a local leg only warns: its driver is told of a kill alone.   *)
ApplyLabelsCut ==
    /\ job.step = "label"
    /\ \E brake \in {{}, IF job.brake THEN {"stop"} ELSE {}} :
         labels' \in {torn \cup brake : torn \in Torn(job.next)}
    /\ Cut
    /\ events' = events \cup Fired(job.next)
    /\ job' \in {IdleJob, Stopped(TRUE)}
    /\ UNCHANGED <<mode, lost, head, markers, driver, dog>>

(* The record of a death is best effort too, the marker and the labels.    *)
ReportFatalCut ==
    /\ job.step = "work"
    /\ markers' \in {markers, Fatal}
    /\ labels' \in Torn("halted") /\ Cut
    /\ job' = Stopped(TRUE)
    /\ UNCHANGED <<mode, lost, head, events, driver, dog>>

(* A leg that loses the pull request under it, or is killed, leaves its    *)
(* claim.                                                                  *)
Dies ==
    /\ job.step = "work" /\ Faulty
    /\ job' = Stopped(TRUE)
    /\ UNCHANGED <<mode, lost, head, markers, labels, events, driver, dog>>

(***************************************************************************)
(* Automated mode: the workflows and the watchdog.                         *)
(***************************************************************************)
RunWorkflow ==
    /\ Idle
    /\ \E leg \in events :
         /\ events' = events \ {leg}
         /\ RunLeg(leg, TRUE)
    /\ UNCHANGED <<mode, lost, head, labels, driver, dog, used>>

DropEvent ==
    /\ Faulty
    /\ \E leg \in events : events' = events \ {leg}
    /\ UNCHANGED <<mode, lost, head, markers, labels, job, driver, dog>>

(* The sweep reads an awaiting pull request that has waited too long; a    *)
(* leg may be running, and the labels may have moved on when it writes.    *)
Sweep ==
    /\ mode = "automated" /\ dog = IdleDog
    /\ "stop" \notin labels /\ labels \cap AwaitingLabels # {}
    /\ dog' = [step |-> "retry",
               leg |-> IF Awaiting("resolve") \in labels THEN "resolve" ELSE "review",
               retried |-> "retried" \in labels]
    /\ UNCHANGED <<mode, lost, head, markers, labels, events, job, driver, used>>

(* Mutant: the watchdog does not record that it has retried. *)
RetryUnrecorded ==
    /\ dog.step = "retry" /\ ~dog.retried
    /\ labels' = labels \ {Awaiting(dog.leg)}
    /\ dog' = [dog EXCEPT !.step = "add"]
    /\ UNCHANGED <<mode, lost, head, markers, events, job, driver, used>>

(* The first time the label comes off, to go on again. *)
Retry ==
    /\ dog.step = "retry" /\ ~dog.retried
    /\ labels' = (labels \cup {"retried"}) \ {Awaiting(dog.leg)}
    /\ dog' = [dog EXCEPT !.step = "add"]
    /\ UNCHANGED <<mode, lost, head, markers, events, job, driver, used>>

AddBack ==
    /\ dog.step = "add"
    /\ labels' = labels \cup {Awaiting(dog.leg)}
    /\ events' = events \cup Fires(labels, Awaiting(dog.leg))
    /\ dog' = IdleDog
    /\ UNCHANGED <<mode, lost, head, markers, job, driver, used>>

(* The second time it comes off for good. *)
GiveUp ==
    /\ dog.step = "retry" /\ dog.retried
    /\ labels' = (labels \ {Awaiting(dog.leg)}) \cup {"halted"}
    /\ dog' = IdleDog
    /\ UNCHANGED <<mode, lost, head, markers, events, job, driver, used>>

(* A call of the sweep fails, or the sweep is killed between two of them:  *)
(* an add that failed ends it, a removal that failed is passed over.       *)
RetryCut ==
    /\ dog.step = "retry" /\ ~dog.retried
    /\ \/ labels' \in {labels, labels \cup {"retried"}} /\ dog' = IdleDog
       \/ labels' = labels \cup {"retried"} /\ dog' = [dog EXCEPT !.step = "add"]
    /\ Cut
    /\ UNCHANGED <<mode, lost, head, markers, events, job, driver>>

AddBackCut ==
    /\ dog.step = "add"
    /\ UNCHANGED labels /\ Cut
    /\ dog' = IdleDog
    /\ UNCHANGED <<mode, lost, head, markers, events, job, driver>>

GiveUpCut ==
    /\ dog.step = "retry" /\ dog.retried
    /\ labels' \in {labels, labels \ {Awaiting(dog.leg)}, labels \cup {"halted"}} /\ Cut
    /\ dog' = IdleDog
    /\ UNCHANGED <<mode, lost, head, markers, events, job, driver>>

(***************************************************************************)
(* Local mode: the driver.  `turn' counts its passes; `said' is its last   *)
(* line, until the loop moves again.                                       *)
(***************************************************************************)
Ends(said) == driver' = [OffDriver EXCEPT !.said = said]

(* What a finished review pass leaves to do, off its marker. *)
ReadReview ==
    LET i == MarkerFor(CurrentReviewPass, "review")
    IN  IF Verdict(i) = "blocked" THEN "halted"
        ELSE IF \/ Verdict(i) # "converged" /\ markers[i].fixable
                \/ Verdict(i) = "converged" /\ State(i) # "complete" THEN "continues"
        ELSE IF Verdict(i) # "converged" /\ Escalated > 0 THEN "halted"
        ELSE "converged"

(* Mutant: a resolution that pushed nothing is read as converged. *)
ReadResolveForgiving ==
    LET i == MarkerFor(CurrentReviewPass, "resolve")
    IN  IF (i # 0 /\ markers[i].res.blocked) \/ "stop" \in labels THEN "halted"
        ELSE IF State(i) = "complete" /\ ~markers[i].res.pushed THEN "converged"
        ELSE "continues"

(* How a resolution ended, by the rule it labelled with, coverage apart. *)
ReadResolve ==
    LET i == MarkerFor(CurrentReviewPass, "resolve")
        review == MarkerFor(CurrentReviewPass, "review")
        label == IF State(i) = "complete"
                 THEN ResolvePassLabel(markers[i].res, Escalated) ELSE "none"
    IN  IF (i # 0 /\ markers[i].res.blocked) \/ "stop" \in labels THEN "halted"
        ELSE IF label = "converged"
        THEN IF State(review) = "complete" /\ Verdict(review) # "blocked"
             THEN "converged" ELSE "continues"
        ELSE IF label = "halted" THEN "halted"
        ELSE "continues"

Reviews(turn, bound, capped) ==
    /\ RunLeg("review", capped)
    /\ driver' = [step |-> "review", turn |-> turn, bound |-> bound, said |-> "none"]

Resolves(turn, bound) ==
    /\ RunLeg("resolve", FALSE)
    /\ driver' = [step |-> "resolve", turn |-> turn, bound |-> bound, said |-> "none"]

(* What finishAtBound does once its pass has a finished review. *)
FinishAtBound ==
    IF ReadReview # "continues"
    THEN Ends(ReadReview) /\ UNCHANGED <<job, markers>>
    ELSE IF State(MarkerFor(CurrentReviewPass, "resolve")) = "complete"
    THEN Ends("cap") /\ UNCHANGED <<job, markers>>
    ELSE Resolves(driver.turn, TRUE)

(* `crossrev cycle': at the cap it only finishes the pass under way, and   *)
(* resumes an open claim whatever its number.                              *)
StartCycle ==
    /\ mode = "local" /\ Idle /\ driver.step = "off" /\ Move
    /\ LET state == State(MarkerFor(CurrentReviewPass, "review"))
       IN  IF CurrentReviewPass < MaxPasses THEN Reviews(1, FALSE, FALSE)
           ELSE IF state # "complete" THEN Reviews(1, TRUE, state # "started")
           ELSE FinishAtBound
    /\ UNCHANGED <<mode, lost, head, labels, events, dog>>

AfterReview ==
    /\ Idle /\ driver.step = "review"
    /\ IF job.failed THEN Ends("failed") /\ UNCHANGED <<job, markers>>
       ELSE IF ~driver.bound
       THEN IF ReadReview = "continues" THEN Resolves(driver.turn, FALSE)
            ELSE Ends(ReadReview) /\ UNCHANGED <<job, markers>>
       ELSE IF State(MarkerFor(CurrentReviewPass, "review")) # "complete"
       THEN Ends("unfinished") /\ UNCHANGED <<job, markers>>
       ELSE FinishAtBound
    /\ UNCHANGED <<mode, lost, head, labels, events, dog, used>>

AfterResolve ==
    /\ Idle /\ driver.step = "resolve"
    /\ IF job.failed THEN Ends("failed") /\ UNCHANGED <<job, markers>>
       ELSE IF ReadResolve # "continues"
       THEN Ends(ReadResolve) /\ UNCHANGED <<job, markers>>
       ELSE IF driver.bound \/ driver.turn >= MaxPasses \/ CurrentReviewPass >= MaxPasses
       THEN Ends("cap") /\ UNCHANGED <<job, markers>>
       ELSE Reviews(driver.turn + 1, FALSE, TRUE)
    /\ UNCHANGED <<mode, lost, head, labels, events, dog, used>>

(***************************************************************************)
(* People.                                                                 *)
(***************************************************************************)
(* A leg asked for by hand, in a comment or at a terminal. *)
RunByHand ==
    /\ Idle /\ driver.step = "off" /\ Move
    /\ \E leg \in Legs : RunLeg(leg, FALSE)
    /\ driver' = OffDriver
    /\ UNCHANGED <<mode, lost, head, labels, events, dog>>

SomebodyPushes ==
    /\ Move /\ head < MaxHead
    /\ head' = head + 1
    /\ UNCHANGED <<mode, lost, markers, labels, events, job, driver, dog>>

ToggleStop ==
    /\ Move
    /\ labels' = IF "stop" \in labels THEN labels \ {"stop"} ELSE labels \cup {"stop"}
    /\ driver' = [driver EXCEPT !.said = "none"]
    /\ UNCHANGED <<mode, lost, head, markers, events, job, dog>>

(* Mutant: a halt always restarts with a review. *)
RestartLegReview == "review"

(* Which leg a halt belongs to: the first of these that the markers show.  *)
RestartLeg ==
    LET cur == CurrentReviewPass
        r == MarkerFor(cur, "resolve")
        i == MarkerFor(cur, "review")
        last == Len(markers)
    IN  IF State(MarkerFor(cur + 1, "review")) = "declined" \/ Escalated > 0 THEN "review"
        ELSE IF State(r) = "complete" /\ ResolvePassLabel(markers[r].res, Escalated) = "halted"
        THEN "resolve"
        ELSE IF State(i) = "complete" /\ Verdict(i) = "blocked" THEN "review"
        ELSE IF State(i) = "complete" /\ Verdict(i) = "issues-remain" /\ r = 0 THEN "resolve"
        ELSE IF last > 0 /\ State(last) \in {"started", "incomplete"} THEN markers[last].leg
        ELSE "review"

(* `crossrev restart': only a halted loop, never under the brake. *)
Restart ==
    /\ Move
    /\ "stop" \notin labels /\ "halted" \in labels
    /\ LET next == Awaiting(RestartLeg)
       IN  /\ labels' = (labels \ {"halted", "retried"}) \cup {next}
           /\ events' = events \cup Fires({}, next)
    /\ driver' = [driver EXCEPT !.said = "none"]
    /\ UNCHANGED <<mode, lost, head, markers, job, dog>>

(* It takes a waiting label off, puts it on, and lifts the halt, in this    *)
(* order, so that a failed add leaves the halt in place.                   *)
RestartCut ==
    /\ used.moves < MaxMoves /\ used.faults < MaxFaults
    /\ "stop" \notin labels /\ "halted" \in labels
    /\ LET next == Awaiting(RestartLeg)
       IN  \E before \in {labels, labels \ {next}} :
             \/ labels' = before /\ UNCHANGED events
             \/ /\ \E kept \in SUBSET ({"halted", "retried"} \cap labels) :
                     labels' = (before \ {"halted", "retried"}) \cup kept \cup {next}
                /\ events' = events \cup Fires(before, next)
    /\ used' = [used EXCEPT !.moves = @ + 1, !.faults = @ + 1]
    /\ driver' = [driver EXCEPT !.said = "none"]
    /\ UNCHANGED <<mode, lost, head, markers, job, dog>>

(* The ledger stops being readable, until a review publishes anew. *)
LoseLedger ==
    /\ ~lost /\ Faulty
    /\ lost' = TRUE
    /\ UNCHANGED <<mode, head, markers, labels, events, job, driver, dog>>

Work == Push \/ SettleReview \/ HaltReview \/ SettleResolve \/ ApplyLabels
Watchdog == Sweep \/ Retry \/ AddBack \/ GiveUp
Automation == RunWorkflow \/ Watchdog
Driver == AfterReview \/ AfterResolve
People == StartCycle \/ RunByHand \/ SomebodyPushes \/ ToggleStop \/ Restart
Trouble ==
    \/ ReportFatal \/ Dies \/ DropEvent \/ LoseLedger
    \/ ApplyLabelsCut \/ ReportFatalCut \/ RetryCut \/ AddBackCut \/ GiveUpCut \/ RestartCut

Next == Work \/ Automation \/ Driver \/ People \/ Trouble

Spec == Init /\ [][Next]_vars

(* Legs and the driver run on; GitHub runs what is queued and the schedule *)
(* keeps sweeping.                                                         *)
FairSpec ==
    /\ Spec
    /\ WF_vars(Work \/ Driver) /\ WF_vars(RunWorkflow) /\ WF_vars(Watchdog)

(***************************************************************************)
(* What the loop must do.                                                  *)
(***************************************************************************)
Marker ==
    [leg : Legs, pass : 1 .. MaxPasses + MaxHead + 1,
     state : {"started", "incomplete", "complete", "declined"}, head : 1 .. MaxHead,
     verdict : ReviewVerdicts \cup {"null"}, fixable : BOOLEAN, res : ResolveRecord]

(* The types of the state. *)
TypeOK ==
    /\ mode \in Modes /\ lost \in BOOLEAN /\ head \in 1 .. MaxHead
    /\ \A i \in DOMAIN markers : markers[i] \in Marker
    /\ labels \subseteq OutcomeLabels \cup {"stop", "retried"}
    /\ events \subseteq Legs
    /\ job \in [step : {"idle", "work", "label"}, leg : Legs \cup {"none"},
                at : 0 .. Len(markers), seen : 0 .. MaxHead, pushed : BOOLEAN,
                next : OutcomeLabels \cup {"none"}, brake : BOOLEAN, failed : BOOLEAN]
    /\ driver \in [step : {"off", "review", "resolve"}, turn : 0 .. MaxPasses,
                   bound : BOOLEAN,
                   said : {"none", "failed", "halted", "converged", "cap", "unfinished"}]
    /\ dog \in [step : {"idle", "retry", "add"}, leg : Legs \cup {"none"},
                retried : BOOLEAN]
    /\ used \in [moves : 0 .. MaxMoves, faults : 0 .. MaxFaults, bare : 0 .. MaxFaults]

(* The passes that ran and, of the newest, what its marker for a leg says. *)
Passes == Cardinality(Ran)

Owed(m) ==
    IF m.leg = "review" THEN ReviewRedrivable(m.state, m.verdict)
    ELSE ResolveRedrivable(m.res)

Status(leg) ==
    LET i == MarkerFor(Passes, leg)
    IN  IF i = 0 THEN "none"
        ELSE IF markers[i].state = "started" THEN "open"
        ELSE IF markers[i].state = "declined" THEN "refused"
        ELSE IF Owed(markers[i]) THEN "owed" ELSE "done"

Abstract == INSTANCE PassProtocol WITH
    pass <- Passes, review <- Status("review"), resolve <- Status("resolve")

(* Whoever drives the loop - workflows, the local driver, the watchdog's   *)
(* retries, a person at a terminal - and wherever a leg dies, the passes   *)
(* follow the protocol: no resolution before its review settled, no review *)
(* again after its resolution began, no return to an earlier pass.         *)
PassesFollowProtocol == Abstract!Spec

(* The driver's last line and the label agree on convergence: a person at  *)
(* the terminal never reads "converged" of a pull request that is not      *)
(* labelled so (bound.go, readReview and readResolve), as long as no leg   *)
(* died between settling its marker and labelling.                         *)
CycleTellsTheTruth ==
    driver.said = "converged" /\ used.faults = 0 => "converged" \in labels

(* A restart is taken up: the leg `crossrev restart' picks for a halted    *)
(* loop is one that will work, unless a finding waits for a person or a    *)
(* person ran a pass beyond the cap, which the next notice of it buries.   *)
RestartIsAccepted ==
    /\ Idle /\ Escalated = 0 /\ used.faults = 0 /\ CurrentReviewPass <= MaxPasses
    /\ labels \cap OutcomeLabels = {"halted"}
    => Accepts(RestartLeg)

(* A write of labels that failed half way left none that says what the     *)
(* pull request waits for.  The sweep lists by the awaiting labels, and no *)
(* event is under way, so only a person sees it.                           *)
Stranded ==
    /\ used.bare > 0 /\ labels \cap OutcomeLabels = {}
    /\ Idle /\ events = {} /\ dog = IdleDog

(* A pass that went on waiting in silence ends: the legs, the watchdog and *)
(* the cap between them bring it to a label that waits for nobody, or to a *)
(* person's brake - through dropped events, legs that die anywhere and     *)
(* labels half written, but for the one case of a write that leaves no     *)
(* outcome label at all.                                                   *)
StallsEnd ==
    mode = "automated" /\ labels \cap AwaitingLabels # {} ~>
        labels \cap {"converged", "halted", "stop"} # {} \/ Stranded
=============================================================================
