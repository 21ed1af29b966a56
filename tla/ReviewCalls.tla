----------------------------- MODULE ReviewCalls ------------------------------
(***************************************************************************)
(* Running the calls of a packed pass (internal/review: runCoverage,       *)
(* invokePartCall, runPrompt, the served reads and their budget).  A run   *)
(* packs what its claim leaves outstanding, puts each call to the harness  *)
(* as often as its budgets allow, and records what it accepts; a run that  *)
(* fails, halts or dies is followed by another one.                        *)
(*                                                                         *)
(* The harness is the environment: it reads through the server or not,     *)
(* answers well or badly, fails, is killed or runs a command.              *)
(***************************************************************************)
EXTENDS Packing

CONSTANTS
    Confs,      \* the configurations to explore, see Conf
    CallInputs, \* bound: the <<files, shared>> whose calls are explored
    LegReads,   \* DefaultPerLegReads, the reads of a pass
    MaxAsks,    \* bound: reads asked for in an attempt
    MaxRuns,    \* bound: runs
    MaxFaults   \* bound: failures over all runs

Unavailable == {"degrade", "halt"}
ReadModes == {"served", "file_tool", "supplied"}
FileVerdicts == {"no_issue", "finding", "not_affected", "could_not_review"}

(* What the descriptor declares, whether its command block is verified at  *)
(* its pin, whether the harness constrains its output, and the policy.     *)
Conf == [declared : ReadModes, verified : BOOLEAN, native : BOOLEAN, onReads : Unavailable]

ASSUME CallsAssumption ==
    /\ Confs \subseteq Conf
    /\ {LegReads, MaxAsks, MaxRuns, MaxFaults} \subseteq Nat

VARIABLES
    conf,
    run,      \* [step, call, no, faults]: where the run is
    prompt,   \* the call being made
    leg,      \* the leg's memory: charged reads, reason, usage, sickness
    log,      \* the scratch log of the read server
    judged,   \* the verdicts the run holds, and those it was seeded with
    pending,  \* the part verdicts of each split file
    recorded, \* the verdicts of the generation behind the claim
    spent     \* history of the run: reads served and children that answered

callVars == <<conf, run, prompt, leg, log, judged, pending, recorded, spent>>
vars == <<packingVars, callVars>>

EmptyLog == [handshake |-> FALSE, reads |-> 0, refused |-> 0]
IdleLeg == [charged |-> 0, reason |-> "", usage |-> 0, sick |-> FALSE]
IdlePrompt == [mode |-> "", reason |-> "", transient |-> 0, semantic |-> 0, shape |-> 0,
               refused |-> 0, sick |-> FALSE, ended |-> ""]
NoParts == [u \in DOMAIN files |-> <<>>]

Init ==
    /\ PackingInit /\ conf \in Confs
    /\ conf.verified => <<files, shared>> \in CallInputs
    /\ run = [step |-> "pack", call |-> 0, no |-> 1, faults |-> 0]
    /\ prompt = IdlePrompt /\ leg = IdleLeg /\ log = EmptyLog
    /\ judged = verdicts /\ recorded = verdicts /\ pending = NoParts
    /\ spent = [reads |-> 0, answered |-> 0]

At(s) == run.step = s
GoTo(s) == run' = [run EXCEPT !.step = s]
CanFail == run.faults < MaxFaults
FailTo(s) == CanFail /\ run' = [run EXCEPT !.step = s, !.faults = @ + 1]

PackStep ==
    /\ At("pack") /\ PackingNext
    /\ UNCHANGED callVars

(* A pass whose files are all skipped settles without a call.              *)
StartCalls ==
    /\ At("pack") /\ pack.step = "done"
    /\ run' = [run EXCEPT !.call = 1,
                          !.step = IF plan.skipped = DOMAIN files THEN "nothing" ELSE "next"]
    /\ UNCHANGED <<packingVars, conf, prompt, leg, log, judged, pending, recorded, spent>>

(* The end of the calls: what is carried or halted halts the pass.         *)
FinishCalls ==
    /\ At("next") /\ run.call > Len(plan.calls)
    /\ GoTo(IF plan.halt \/ plan.carried # <<>> THEN "halted" ELSE "covered")
    /\ UNCHANGED <<packingVars, conf, prompt, leg, log, judged, pending, recorded, spent>>

(***************************************************************************)
(* One call.                                                               *)
(***************************************************************************)
InLeg == <<packingVars, conf, judged, pending, recorded>>

(* EffectiveReadMode: file_tool runs supplied and says so.                 *)
EffectiveReadMode == IF conf.declared = "file_tool" THEN "supplied" ELSE conf.declared
UnwiredReason == IF conf.declared = "file_tool" THEN "file_tool_unwired" ELSE ""

(* A served review runs only on a verified command block.                  *)
Isolated == conf.declared = "served" => conf.verified

StartPrompt ==
    /\ At("next") /\ run.call <= Len(plan.calls)
    /\ prompt' = [IdlePrompt EXCEPT
                    !.mode = EffectiveReadMode, !.reason = UnwiredReason,
                    !.transient = 1, !.semantic = 1, !.shape = IF conf.native THEN 1 ELSE 2]
    /\ GoTo(IF ~Isolated THEN "failed"
            ELSE IF EffectiveReadMode = "served" THEN "selftest" ELSE "attempt")
    /\ UNCHANGED <<InLeg, leg, log, spent>>

(* The environment, the credential, the sandbox or a version gate refuses  *)
(* the call before any child starts, or the harness is not installed.      *)
RefusePrompt ==
    /\ run.step \in {"next", "selftest", "attempt"} /\ run.call <= Len(plan.calls)
    /\ FailTo("failed")
    /\ UNCHANGED <<InLeg, prompt, leg, log, spent>>

SelfTestPasses ==
    /\ At("selftest") /\ GoTo("attempt")
    /\ UNCHANGED <<InLeg, prompt, leg, log, spent>>

Noted(reason) == IF leg.reason = "" THEN reason ELSE leg.reason

(* A failed self-test: the leg stops, or runs the call supplied.           *)
SelfTestFails ==
    /\ At("selftest")
    /\ IF conf.onReads = "halt"
       THEN /\ FailTo("failed") /\ leg' = [leg EXCEPT !.reason = Noted("self_test_failed")]
            /\ UNCHANGED prompt
       ELSE /\ FailTo("attempt") /\ UNCHANGED leg
            /\ prompt' = [prompt EXCEPT !.mode = "supplied", !.reason = "self_test_failed"]
    /\ UNCHANGED <<InLeg, log, spent>>

(* Mutant: an attempt is granted the reads of a whole pass. *)
ReadsRestored == LegReads

(* What the pass has left; a fresh server is seeded with it each attempt.  *)
ReadsRemaining == Larger(0, LegReads - leg.charged)

(* What a child leaves in the log.  One that reaches the server is served  *)
(* while the grant lasts; a refusal costs nothing.                         *)
Served(asked) == IF asked < ReadsRemaining THEN asked ELSE ReadsRemaining
Sessions ==
    {EmptyLog} \cup
    IF prompt.mode # "served" THEN {}
    ELSE {[handshake |-> TRUE, reads |-> Served(a), refused |-> a - Served(a) + bad] :
            a \in 0 .. MaxAsks, bad \in 0 .. 1}

Unhealthy(session) == prompt.mode = "served" /\ (~session.handshake \/ session.refused > 0)

(* A child runs: it answers, fails, is killed or is seen to run a command. *)
RunChild(ending) ==
    /\ At("attempt")
    /\ IF ending = "answered" THEN GoTo("ended") ELSE FailTo("ended")
    /\ \E session \in Sessions :
         /\ log' = [handshake |-> log.handshake \/ session.handshake,
                    reads |-> log.reads + session.reads,
                    refused |-> log.refused + session.refused]
         /\ spent' = [reads |-> spent.reads + session.reads, answered |-> spent.answered
                                               + IF ending = "answered" THEN 1 ELSE 0]
         /\ prompt' = [prompt EXCEPT !.ended = ending, !.sick = Unhealthy(session)]
    /\ UNCHANGED <<InLeg, leg>>

(* The note of an attempt, from its log, which is then drained.            *)
Note(reason) ==
    /\ leg' = [leg EXCEPT !.charged = @ + log.reads, !.reason = Noted(reason)]
    /\ log' = EmptyLog

(* A failed child reports no usage, so its call adds nothing to `refused'. *)
AskAgain ==
    /\ At("ended") /\ prompt.ended = "transient" /\ prompt.transient > 0
    /\ prompt' = [prompt EXCEPT !.transient = 0]
    /\ Note(prompt.reason) /\ GoTo("attempt")
    /\ UNCHANGED <<InLeg, spent>>

(* Every other ending is charged for its reads and fails the run.          *)
Abandon ==
    /\ At("ended")
    /\ \/ prompt.ended = "command" /\ Note("review_ran_command")
       \/ prompt.ended \in {"interrupted", "fatal"} /\ Note(prompt.reason)
       \/ prompt.ended = "transient" /\ prompt.transient = 0 /\ Note(prompt.reason)
    /\ GoTo("failed")
    /\ UNCHANGED <<InLeg, prompt, spent>>

(* AssessReads: the handshake and the refusals of the log.                 *)
AssessReads ==
    IF prompt.mode = "served" /\ ~log.handshake THEN "missing_handshake"
    ELSE IF log.refused > 0 THEN "calls_refused"
    ELSE ""

(* Mutant: the log is assessed after it is drained. *)
AssessCallReadsDrained ==
    /\ At("ended") /\ prompt.ended = "answered"
    /\ Note(prompt.reason) /\ GoTo("judge")
    /\ UNCHANGED <<InLeg, prompt, spent>>

(* An answer is assessed before it is looked at; a reason the call already *)
(* has stands.                                                             *)
AssessCallReads ==
    LET fresh == prompt.reason = "" /\ AssessReads # ""
        reason == IF fresh THEN AssessReads ELSE prompt.reason
    IN  /\ At("ended") /\ prompt.ended = "answered"
        /\ Note(reason) /\ prompt' = [prompt EXCEPT !.reason = reason]
        /\ GoTo(IF fresh /\ conf.onReads = "halt" THEN "failed" ELSE "judge")
        /\ UNCHANGED <<InLeg, spent>>

(***************************************************************************)
(* The answer.                                                             *)
(***************************************************************************)
Retry(budget) ==
    /\ FailTo("attempt")
    /\ prompt' = [prompt EXCEPT ![budget] = @ - 1, !.refused = @ + 1]

(* An empty answer of a harness that constrains its output is a failure of *)
(* the harness; a contradiction is asked once more; a wrong shape only of  *)
(* a harness that does not constrain it.                                   *)
RefuseAnswer ==
    /\ At("judge")
    /\ \/ conf.native /\ prompt.transient > 0 /\ Retry("transient")
       \/ prompt.semantic > 0 /\ Retry("semantic")
       \/ prompt.shape > 1 /\ Retry("shape")
    /\ UNCHANGED <<InLeg, leg, log, spent>>

(* The budgets are spent, or the sandbox cannot be put back.               *)
RejectAnswer ==
    /\ At("judge") /\ FailTo("failed")
    /\ UNCHANGED <<InLeg, prompt, leg, log, spent>>

CallUsage == prompt.refused + 1
Counted(usage) ==
    leg' = [leg EXCEPT !.usage = @ + usage,
                       !.sick = @ \/ prompt.sick \/ prompt.mode # conf.declared]

Call == plan.calls[run.call]

AcceptWhole ==
    /\ At("judge") /\ Call.count = 0
    /\ \E answer \in [ToSet(Call.files) -> FileVerdicts] :
         judged' = [u \in DOMAIN files |-> IF u \in DOMAIN answer THEN answer[u] ELSE judged[u]]
    /\ Counted(CallUsage) /\ GoTo("record")
    /\ UNCHANGED <<packingVars, conf, prompt, log, pending, recorded, spent>>

(* MergeSplitVerdicts: what no part could judge is not judged, a finding   *)
(* stands, and a file is unaffected when every part is.                    *)
MergeSplitVerdicts(parts) ==
    IF "could_not_review" \in ToSet(parts) THEN "could_not_review"
    ELSE IF "finding" \in ToSet(parts) THEN "finding"
    ELSE IF ToSet(parts) = {"not_affected"} THEN "not_affected"
    ELSE "no_issue"

(* Mutant: a file is judged with its first part. *)
AllJudgedAny(parts) == TRUE

AllJudged(parts) == "none" \notin ToSet(parts)

(* A part's verdict stays in memory until its file has them all.           *)
AcceptPart ==
    LET u == Call.files[1]
        parts(v) == [k \in 1 .. Call.count |->
                        IF k = Call.index THEN v
                        ELSE IF pending[u] = <<>> THEN "none" ELSE pending[u][k]]
    IN  /\ At("judge") /\ Call.count > 0
        /\ \E v \in FileVerdicts :
             /\ pending' = [pending EXCEPT ![u] = parts(v)]
             /\ IF AllJudged(parts(v))
                THEN /\ judged' = [judged EXCEPT ![u] = MergeSplitVerdicts(parts(v))]
                     /\ GoTo("record")
                ELSE /\ run' = [run EXCEPT !.step = "next", !.call = @ + 1]
                     /\ UNCHANGED judged
        /\ Counted(CallUsage)
        /\ UNCHANGED <<packingVars, conf, prompt, log, recorded, spent>>

(* The generation is published and the claim names it; a failure or a      *)
(* halt ends the run on either side of that.                               *)
Record ==
    /\ At("record")
    /\ \/ /\ recorded' = judged
          /\ run' = [run EXCEPT !.step = "next", !.call = @ + 1]
       \/ recorded' \in {recorded, judged} /\ FailTo("failed")
       \/ UNCHANGED recorded /\ FailTo("halted")
    /\ UNCHANGED <<packingVars, conf, prompt, leg, log, judged, pending, spent>>

(***************************************************************************)
(* Runs.                                                                   *)
(***************************************************************************)
Ended == {"nothing", "covered", "halted", "failed", "dead"}

Crash ==
    /\ run.step \notin Ended \cup {"pack"}
    /\ FailTo("dead")
    /\ UNCHANGED <<packingVars, conf, prompt, leg, log, judged, pending, recorded, spent>>

(* The next run knows what the claim knows, and packs again.               *)
NewRun ==
    /\ run.step \in {"halted", "failed", "dead"} /\ run.no < MaxRuns
    /\ run' = [run EXCEPT !.step = "pack", !.call = 0, !.no = @ + 1]
    /\ verdicts' = recorded /\ judged' = recorded /\ pending' = NoParts
    /\ plan' = NoPlan /\ pack' = Unpacked
    /\ prompt' = IdlePrompt /\ leg' = IdleLeg /\ log' = EmptyLog
    /\ spent' = [reads |-> 0, answered |-> 0]
    /\ UNCHANGED <<files, shared, conf, recorded>>

Next ==
    \/ PackStep \/ StartCalls \/ FinishCalls
    \/ StartPrompt \/ RefusePrompt \/ SelfTestPasses \/ SelfTestFails
    \/ (\E ending \in {"answered", "transient", "fatal", "interrupted", "command"} :
            RunChild(ending))
    \/ AskAgain \/ Abandon \/ AssessCallReads
    \/ RefuseAnswer \/ RejectAnswer \/ AcceptWhole \/ AcceptPart \/ Record
    \/ Crash \/ NewRun

Spec == Init /\ [][Next]_vars

(***************************************************************************)
(* Properties.                                                             *)
(***************************************************************************)
(* Across retries, abandoned attempts and later calls the leg has charged  *)
(* or still has in its log every read that was served, and no more, so the *)
(* reads of a run stay within the allowance of a pass; and between calls   *)
(* the usage the pass reports is that of every child that answered, the    *)
(* answers it refused and each part of a split counted once (readsRemaining,         *)
(* review/reads_leg.go; foldRefusedAttempts, review/invoke.go).            *)
SpendingAccounted ==
    /\ leg.charged + log.reads = spent.reads
    /\ spent.reads <= LegReads
    /\ run.step \in {"next", "record", "covered"} => leg.usage = spent.answered

(* A split file is judged, and recorded, only when each of its parts was   *)
(* in this run, and no part's doubt or finding is lost in the merge        *)
(* (invokePartCall, review/split_calls.go; MergeSplitVerdicts).            *)
WholeFileVerdict ==
    \A u \in DOMAIN files :
        run.call > 0 /\ PartsOf(u) # <<>> /\ judged[u] # "none" =>
            LET said == ToSet(pending[u])
            IN  /\ Len(pending[u]) = Len(PartsOf(u)) /\ said \subseteq FileVerdicts
                /\ "could_not_review" \in said <=> judged[u] = "could_not_review"
                /\ "finding" \in said => judged[u] \in {"finding", "could_not_review"}
                /\ judged[u] = "finding" => "finding" \in said
                /\ judged[u] = "not_affected" => said = {"not_affected"}

(* No answer is accepted from a call whose reads failed, were refused or   *)
(* were never there without the pass saying so, and under halt from none   *)
(* that was to be served (assessCallReads, review/reads_leg.go).           *)
DegradedIsSaid ==
    leg.sick => /\ leg.reason # ""
                /\ conf.onReads = "halt" => conf.declared # "served"
===============================================================================
