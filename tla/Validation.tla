------------------------------ MODULE Validation ------------------------------
(***************************************************************************)
(* What a review leg asks of a reviewer's answer before it believes it.    *)
(* The shape half reads the bytes with jq's rules, the semantic half holds *)
(* the coverage against the batch that was shown, and an accepted answer   *)
(* is read a second time, with Go's stricter decoder.                      *)
(***************************************************************************)
EXTENDS JsonValues

PassVerdicts == {"converged", "issues-remain", "blocked"}
FileVerdicts == {"no_issue", "finding", "not_affected", "could_not_review"}
Severities == {"high", "medium", "low"}
-----------------------------------------------------------------------------
(* The shape of a finding.  A scalar or an array in the list is passed     *)
(* over, and a side that is null or false counts as RIGHT.                 *)
FindingIsBad(f) ==
    IF f = Foreign THEN FALSE
    ELSE IF f = Null THEN TRUE
    ELSE \/ ~IsText(f.path) \/ f.path = ""
         \/ ~IsNumber(f.line)
         \/ f.side \notin {Null, False, "LEFT", "RIGHT"}
         \/ f.severity \notin Severities
         \/ f.preExisting \notin {False, "true"}
         \/ ~IsText(f.title) \/ f.title = ""

EvidenceIsBad(e) ==
    \/ e = Foreign
    \/ ~IsText(e.path) \/ e.path = ""
    \/ ~IsText(e.revision) \/ e.revision = ""
    \/ e.source \notin {"git", "search", "convention", "reviewer"}
    \/ \E end \in {e.start, e.end} : end # Null /\ ~IsWholeAtLeast(end, 1)
    \/ e.note = "fenced"

CoverageEntryIsBad(c) ==
    \/ c = Foreign
    \/ ~IsWholeAtLeast(c.unit, 1)
    \/ c.verdict \notin FileVerdicts
    \/ ~IsList(c.findings)
    \/ \E i \in DOMAIN c.findings : ~IsWholeAtLeast(c.findings[i], 1)
    \/ ~IsList(c.evidence)
    \/ \E i \in DOMAIN c.evidence : EvidenceIsBad(c.evidence[i])
    \/ c.reason # Null /\ ~IsText(c.reason)

ReviewShape(doc) ==
    /\ doc # Foreign \* not an object, or not parseable
    /\ doc.verdict \in PassVerdicts
    /\ IsList(doc.findings)
    /\ \A i \in DOMAIN doc.findings : ~FindingIsBad(doc.findings[i])
    /\ IsList(doc.coverage)
    /\ IsText(doc.examined) /\ doc.examined # ""
    /\ IsList(doc.limits)
    /\ \A i \in DOMAIN doc.limits : IsText(doc.limits[i])
    /\ \A i \in DOMAIN doc.coverage : ~CoverageEntryIsBad(doc.coverage[i])
-----------------------------------------------------------------------------
(* A bug to be caught: a span is only compared with the length of the file. *)
EvidenceHoldsInFile(e, unit, expected) ==
    LET start == Truncated(e.start)
        end   == Truncated(e.end)
    IN  /\ \E u \in Range(expected.units) : u.path = e.path
        /\ \/ e.start = Null /\ e.end = Null
           \/ /\ e.start # Null /\ e.end # Null
              /\ start <= end /\ end <= unit.lines

CoversSpan(shown, start, end) == start..end \subseteq shown

(* A unit of the batch as the reviewer saw it, and the ranges that answer  *)
(* for a span: those of the side its revision names, or of either.         *)
EvidenceHolds(e, unit, expected) ==
    LET start == Truncated(e.start)
        end   == Truncated(e.end)
        On(side) == CoversSpan(unit.ranges[side], start, end)
    IN  /\ \E u \in Range(expected.units) : u.path = e.path
        /\ \/ e.start = Null /\ e.end = Null
           \/ /\ e.start # Null /\ e.end # Null
              /\ start <= end
              /\ unit.readable /\ unit.lines > 0
              /\ CASE e.revision = expected.base -> On("base")
                   [] e.revision = expected.head -> On("head")
                   [] OTHER -> On("base") \/ On("head")

Hollow(v) == v \in {Null, ""}

CoverageHolds(c, unit, doc, expected) ==
    LET named == {Truncated(c.findings[i]) : i \in DOMAIN c.findings}
    IN  /\ named \subseteq 1..Len(doc.findings)
        /\ (c.verdict = "finding") <=> (named # {})
        /\ c.verdict = "not_affected" => c.evidence # <<>> /\ ~Hollow(c.reason)
        /\ c.verdict = "could_not_review" => ~Hollow(c.reason)
        /\ c.evidence = <<>> => c.verdict = "could_not_review"
        /\ \A i \in DOMAIN c.evidence : EvidenceHolds(c.evidence[i], unit, expected)

(* Every unit answered once and no other, each answer borne out by what    *)
(* was shown, and every finding claimed by one unit at most.               *)
ReviewSemantic(doc, expected) ==
    LET Unit(i) == Truncated(doc.coverage[i].unit)
        Claims == {<<i, j>> \in (DOMAIN doc.coverage) \X (1..(Len(doc.findings) + 2)) :
                     j \in DOMAIN doc.coverage[i].findings}
        Claimed(p) == Truncated(doc.coverage[p[1]].findings[p[2]])
    IN  /\ \A n \in DOMAIN expected.units :
             \E i \in DOMAIN doc.coverage : Unit(i) = n
        /\ \A i, j \in DOMAIN doc.coverage : Unit(i) = Unit(j) => i = j
        /\ \A i \in DOMAIN doc.coverage : Unit(i) \in DOMAIN expected.units
        /\ \A i \in DOMAIN doc.coverage :
             CoverageHolds(doc.coverage[i], expected.units[Unit(i)], doc, expected)
        /\ \A p, q \in Claims : Claimed(p) = Claimed(q) => p = q

(* nil, or the half of the contract the answer fails.                      *)
Review(doc, expected) ==
    IF ~ReviewShape(doc) THEN "shape"
    ELSE IF ~ReviewSemantic(doc, expected) THEN "semantic"
    ELSE "ok"
-----------------------------------------------------------------------------
(* The second reading of an accepted answer: its verdicts ...              *)
CoverageDecodes(doc) ==
    \A i \in DOMAIN doc.coverage :
        LET c == doc.coverage[i]
        IN  /\ DecodesInt(c.unit)
            /\ \A j \in DOMAIN c.findings : DecodesInt(c.findings[j])
            /\ \A j \in DOMAIN c.evidence :
                 /\ DecodesInt(c.evidence[j].start) /\ DecodesInt(c.evidence[j].end)
                 /\ c.evidence[j].note # Foreign

(* ... and its findings, all of them or, without a word, none.             *)
FindingDecodes(f) ==
    /\ f # Foreign
    /\ DecodesInt(f.line)
    /\ f.side \notin {False, Foreign}
    /\ f.why # Foreign

ParseFindings(findings) ==
    IF \A i \in DOMAIN findings : FindingDecodes(findings[i]) THEN findings ELSE <<>>
=============================================================================
