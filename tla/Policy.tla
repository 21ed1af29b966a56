------------------------------- MODULE Policy -------------------------------
(***************************************************************************)
(* The pure decisions of internal/policy: the convergence predicate, the   *)
(* label each leg leaves behind, which completed passes may be driven      *)
(* again, and the caps that stop the loop.  No state: every other module   *)
(* of the project reads its decisions from here.                           *)
(***************************************************************************)
EXTENDS Integers, FiniteSets

Severities == {"high", "medium", "low", "unknown"}
ReviewVerdicts == {"converged", "issues-remain", "blocked"}

(* The four mutually exclusive outcome labels; crossrev/stop is a person's. *)
OutcomeLabels == {"awaiting-review", "awaiting-resolution", "converged", "halted"}

(* An unrecognised severity ranks zero and meets no threshold. *)
SeverityRank(s) ==
    CASE s = "high"   -> 3
      [] s = "medium" -> 2
      [] s = "low"    -> 1
      [] OTHER        -> 0

(* A pre-existing defect is never fixed; an unreadable bar fixes nothing. *)
ShouldFix(severity, minFix, preExisting) ==
    /\ ~preExisting
    /\ SeverityRank(minFix) # 0
    /\ SeverityRank(severity) >= SeverityRank(minFix)

(* Mutant: a file that could not be examined counts as covered. *)
ConvergedUnexamined(c) ==
    /\ c.unresolvedFixable = 0
    /\ c.ledgerCurrent
    /\ c.required > 0
    /\ c.covered = c.required
    /\ c.outstanding = 0
    /\ c.scopeReported
    /\ c.confirmationRequired => c.confirmationComplete

(***************************************************************************)
(* Convergence: counts of the required files of the current generation,    *)
(* and whether a repair pushed by the resolver carries its confirmation.   *)
(***************************************************************************)
Converged(c) ==
    /\ c.unresolvedFixable = 0
    /\ c.ledgerCurrent
    /\ c.required > 0
    /\ c.covered = c.required
    /\ c.outstanding = 0
    /\ c.couldNotReview = 0
    /\ c.scopeReported
    /\ c.confirmationRequired => c.confirmationComplete

(* What buildConvergence answers when no readable generation backs a pass. *)
UnmetConvergence(required, actionable) ==
    [unresolvedFixable |-> actionable, ledgerCurrent |-> FALSE,
     required |-> required, covered |-> 0, outstanding |-> 0,
     couldNotReview |-> 0, scopeReported |-> FALSE,
     confirmationRequired |-> FALSE, confirmationComplete |-> FALSE]

(* Mutant: a pass with nothing actionable and no green verdict asks for another review. *)
PassLabelAsksAgain(verdict, actionable, escalated) ==
    IF verdict = "blocked" THEN "halted"
    ELSE IF actionable > 0 THEN "awaiting-resolution"
    ELSE IF escalated > 0 /\ verdict # "converged" THEN "halted"
    ELSE IF verdict = "converged" THEN "converged" ELSE "awaiting-review"

(***************************************************************************)
(* The label a finished review pass leaves.                                *)
(***************************************************************************)
PassLabel(verdict, actionable, escalated) ==
    IF verdict = "blocked" THEN "halted"
    ELSE IF actionable > 0 THEN "awaiting-resolution"
    ELSE IF escalated > 0 /\ verdict # "converged" THEN "halted"
    ELSE "converged"

PassLabelWithCoverage(verdict, actionable, escalated, c) ==
    LET base == PassLabel(verdict, actionable, escalated)
    IN  IF base # "converged" \/ Converged(c) THEN base
        ELSE IF actionable > 0 \/ c.outstanding > 0 \/ c.couldNotReview > 0
             THEN "awaiting-resolution"
             ELSE "halted"

(***************************************************************************)
(* A resolve marker: whether the leg blocked, whether it pushed a commit,  *)
(* and the set of its resolutions, each a word and the state of its        *)
(* backlog record ("absent", "unfiled" - present and empty - or "filed").  *)
(***************************************************************************)
ResolutionWords == {"fixed", "skipped", "disputed", "deferred", "escalated"}
TrackedStates == {"absent", "unfiled", "filed"}
Resolution == [word : ResolutionWords, tracked : TrackedStates]
ResolveRecord == [blocked : BOOLEAN, pushed : BOOLEAN, resolutions : SUBSET Resolution]

Has(m, word) == \E r \in m.resolutions : r.word = word

ResolveUnpushedFix(m) == ~m.pushed /\ Has(m, "fixed")
ResolveUnrecorded(m) == ~m.pushed /\ m.resolutions = {}
UnfiledDeferrals(m) ==
    {r \in m.resolutions : r.word = "deferred" /\ r.tracked = "unfiled"}

ResolveRedrivable(m) ==
    \/ m.blocked
    \/ Has(m, "escalated")
    \/ ResolveUnpushedFix(m)
    \/ ResolveUnrecorded(m)
    \/ UnfiledDeferrals(m) # {}

ResolvePassLabel(m, otherEscalated) ==
    IF \/ m.blocked
       \/ Has(m, "escalated")
       \/ otherEscalated > 0
       \/ ResolveUnpushedFix(m)
       \/ ResolveUnrecorded(m)
       \/ UnfiledDeferrals(m) # {}
    THEN "halted"
    ELSE IF m.pushed THEN "awaiting-review" ELSE "converged"

ResolvePassLabelWithCoverage(m, otherEscalated, c) ==
    LET base == ResolvePassLabel(m, otherEscalated)
    IN  IF base = "converged" /\ ~Converged(c) THEN "awaiting-review" ELSE base

(* Mutant: a pass that halted incomplete may not be driven again. *)
ReviewRedrivableBlocked(state, verdict) ==
    state = "complete" /\ verdict = "blocked"

(* A review pass is driven again when it halted incomplete or blocked. *)
ReviewRedrivable(state, verdict) ==
    \/ state = "incomplete"
    \/ state = "complete" /\ verdict = "blocked"

(***************************************************************************)
(* ShouldContinue, its checks in the order the code asks them: the first   *)
(* that trips is the reason a person reads.                                *)
(***************************************************************************)
ShouldContinue(t) ==
    IF t.stop THEN "stop"
    ELSE IF t.blocked THEN "blocked"
    ELSE IF t.verdict = "converged" THEN "converged"
    ELSE IF t.maxPasses > 0 /\ t.pass >= t.maxPasses THEN "pass-cap"
    ELSE IF t.maxPRs > 0 /\ t.otherPRs >= t.maxPRs THEN "daily-cap"
    ELSE IF t.maxFiles > 0 /\ t.files > t.maxFiles THEN "file-cap"
    ELSE "continue"
=============================================================================
