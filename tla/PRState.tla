------------------------------ MODULE PRState -------------------------------
(***************************************************************************)
(* The pass markers of internal/prstate, which carry the whole state of    *)
(* the loop in the comments of the pull request, and the coverage          *)
(* generation a marker names.  Pure: marker lists are sequences in comment *)
(* order, and every reader below is a function of such a list.             *)
(*                                                                         *)
(* A finding's identity is the unit it is about (one issue per unit), its  *)
(* severity is "fix" (at or above min_fix_severity) or "low", and `at' is  *)
(* the head it was judged at.  A ref or marker handle is represented by    *)
(* the generation it leads to.                                             *)
(***************************************************************************)
EXTENDS Policy, Sequences, FiniteSetsExt

CONSTANTS
    Units,      \* the file units a diff may name
    MaxHead,    \* heads are 1..MaxHead
    MaxBase,    \* bases are 1..MaxBase
    Producers   \* harness/model/effort/endpoint combinations

ASSUME PRStateAssumption ==
    /\ MaxHead \in Nat \ {0}
    /\ MaxBase \in Nat \ {0}
    /\ IsFiniteSet(Units)

Heads == 1..MaxHead
Bases == 1..MaxBase
NoHead == 0

(* "blank" is the zero value of PassState, which no reader accepts. *)
PassStates == {"blank", "started", "complete", "incomplete", "declined"}
MarkerVerdicts == ReviewVerdicts \cup {"null", "declined"}
Reasons == {"none", "nothing", "debt", "error", "cap"}
RecordVerdicts == {"no_issue", "finding", "could_not_review", "outstanding"}
FindingSeverities == {"fix", "low"}

Finding == [id : Units, sev : FindingSeverities, at : Heads, posted : BOOLEAN]

NoGen == [claimed |-> FALSE]
Generation ==
    [claimed : {TRUE}, base : Bases, head : Heads, producer : Producers,
     recs : UNION {[S -> RecordVerdicts] : S \in SUBSET Units}]

NoPair == [from |-> NoHead, to |-> NoHead]
Pairs == [from : Heads \cup {NoHead}, to : Heads \cup {NoHead}]

ReviewMarker ==
    [pass : Nat, state : PassStates, head : Heads \cup {NoHead},
     verdict : MarkerVerdicts, reason : Reasons, findings : SUBSET Finding,
     gen : Generation \cup {NoGen}, stop : BOOLEAN, confirm : Pairs, old : BOOLEAN]

(* Marker{Pass: pass}: every other field is Go's zero value. *)
BlankMarker(pass) ==
    [pass |-> pass, state |-> "blank", head |-> NoHead, verdict |-> "null",
     reason |-> "none", findings |-> {}, gen |-> NoGen, stop |-> FALSE,
     confirm |-> NoPair, old |-> FALSE]

(* A refused pass writes a marker too; three readers must not count it. *)
Ran(markers) == {i \in DOMAIN markers : markers[i].state # "declined"}

CurrentReviewPass(markers) ==
    Max({0} \cup {markers[i].pass : i \in Ran(markers)})

(* The newest marker of a pass, whatever its state: 0 when there is none. *)
MarkerFor(markers, pass) ==
    Max({0} \cup {i \in DOMAIN markers : markers[i].pass = pass})

OpenClaim(markers, pass) ==
    LET i == MarkerFor(markers, pass)
    IN  i # 0 /\ markers[i].state = "started"

(* Too old, or against a revision that has moved on. *)
ClaimIsStale(claim, head) == claim.head \notin {NoHead, head} \/ claim.old

IsNewRevision(markers, head) ==
    Ran(markers) = {} \/ markers[Max(Ran(markers))].head # head

(* Retired unless the revision pair and the producer are still in force;   *)
(* the engine is the build's own constant and never differs here.          *)
GenerationCurrent(gen, base, head, producer) ==
    gen.claimed /\ gen.base = base /\ gen.head = head /\ gen.producer = producer

Judged(recs) == {u \in DOMAIN recs : recs[u] # "outstanding"}

(* The handle of the newest earlier pass that left one. *)
LatestCoverageCheckpoint(markers, pass) ==
    LET claimed == {i \in DOMAIN markers : markers[i].pass < pass /\ markers[i].gen.claimed}
        best == Max({0} \cup {markers[i].pass : i \in claimed})
    IN  IF claimed = {} THEN NoGen
        ELSE markers[Min({i \in claimed : markers[i].pass = best})].gen

(* The pass marker under construction, seeded with the earlier checkpoint. *)
MarkerForPass(markers, pass) ==
    LET i == MarkerFor(markers, pass)
        own == IF i = 0 THEN BlankMarker(pass) ELSE markers[i]
    IN  IF own.gen.claimed THEN own
        ELSE [own EXCEPT !.gen = LatestCoverageCheckpoint(markers, pass)]

(***************************************************************************)
(* Findings.                                                               *)
(***************************************************************************)
Actionable(findings) == Cardinality({f \in findings : f.sev = "fix"})

HoldBelowThreshold(f, pass) == pass > 1 /\ f.sev = "low"

StampNotPosted(findings, pass) ==
    {IF HoldBelowThreshold(f, pass) THEN [f EXCEPT !.posted = FALSE] ELSE f : f \in findings}

(* Ids whose latest occurrence in any marker was recorded without posting. *)
HeldEarlierIDs(markers) ==
    {u \in Units :
        LET naming == {i \in DOMAIN markers : \E f \in markers[i].findings : f.id = u}
        IN  naming # {} /\ \A f \in markers[Max(naming)].findings : f.id = u => ~f.posted}
=============================================================================
