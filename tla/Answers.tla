-------------------------------- MODULE Answers -------------------------------
(***************************************************************************)
(* One answer of a reviewer, from the diff it was shown to what becomes of *)
(* it.  A changed file is shaped and numbered for the prompt; a harness    *)
(* returns a document; the document is checked against what was shown; its *)
(* verdicts are published as a generation that a later run resumes from;   *)
(* and its findings are placed on the diff of the pull request.            *)
(*                                                                         *)
(* The batch is the changed file, alone or with a second one; a third      *)
(* required file stays outstanding.  The reviewer and whoever else writes  *)
(* the coverage ref are external.                                          *)
(***************************************************************************)
EXTENDS Diff, Validation, Codec

CONSTANTS
    Files,     \* the changed files the runs start from
    Contexts,  \* how far around a change git shows for a function context
    Radius,    \* lines of context a clipped hunk keeps
    Margin,    \* lines of context in the pull request's own diff
    Snap,      \* the furthest a finding is moved to a line the diff shows
    MaxLine,   \* bound on the line numbers a reviewer quotes
    Rewritten  \* the files whose published generation somebody rewrites

ASSUME /\ Radius \in Nat /\ Margin \in Nat /\ Snap \in Nat /\ MaxLine \in Nat
       /\ Rewritten \subseteq Files

VARIABLES
    stage,
    file,       \* the changed file
    prompt,     \* what the reviewer is shown, and is expected to answer for
    doc,        \* the document it returns
    verdicts,   \* the judgements the leg took from it
    pair,       \* the blobs of the published generation
    faithful,   \* they are as they were published
    resumed,    \* what a later run takes from them
    posts       \* the comments the findings become

vars == <<stage, file, prompt, doc, verdicts, pair, faithful, resumed, posts>>

BaseSHA == "base"
HeadSHA == "head"
Engine == "hunk-v1"

(* The second file of the batch, the outstanding one, and the backlog, an  *)
(* edited file the review leaves out.                                      *)
Plain(path) == [path |-> path, old |-> path, change |-> "modified", edits |-> <<"del", "add">>,
                unterminated |-> FALSE, binary |-> FALSE, available |-> TRUE, large |-> FALSE]
Second == Plain("b")
Third == Plain("c")
Backlog == "BACKLOG"
-----------------------------------------------------------------------------
(* The pull request's diff, without the backlog the loop itself writes.    *)
ReviewDiff ==
    Excluded(GitDiff(file, Margin) \o GitDiff(Second, Margin) \o GitDiff(Third, Margin)
             \o GitDiff(Plain(Backlog), Margin), {Backlog})

ContentRevision(f) == IF f.change = "deleted" THEN BaseSHA ELSE HeadSHA
Body(f) == SelectSeq(f.edits, LAMBDA e : e # IF f.change = "deleted" THEN "add" ELSE "del")
Readable(f) == f.available /\ ~f.binary /\ Body(f) # <<>>

(* The input policy may show a large file's whole body in place of hunks.  *)
Promoted(f, form, whole) == whole /\ form = "hunks_context" /\ Readable(f)

UnitRanges(f, shaped, promoted) ==
    LET all == 1..Len(Body(f))
    IN  IF ~promoted /\ shaped.diff # <<>> THEN LineRanges(Parse(shaped.diff))
        ELSE IF ~Readable(f) THEN [base |-> {}, head |-> {}]
        ELSE IF f.change = "deleted" THEN [base |-> all, head |-> {}]
        ELSE [base |-> {}, head |-> all]

(* A file of the batch: what is expected of its answer and what is shown.  *)
Unit(f, shaped, whole) ==
    LET promoted == Promoted(f, shaped.form, whole)
        ranges == UnitRanges(f, shaped, promoted)
        shown == IF promoted THEN Body(f) ELSE Parse(shaped.diff)
    IN  [path |-> f.path, old |-> f.old, change |-> f.change, revision |-> ContentRevision(f),
         readable |-> Readable(f), lines |-> IF Readable(f) THEN Len(Body(f)) ELSE 0,
         ranges |-> ranges, promoted |-> promoted, shown |-> shown,
         supplied |-> [digest |-> Digest(shown), ranges |-> ranges, parts |-> 1,
                       form |-> IF promoted THEN "full_text" ELSE shaped.form,
                       truncated |-> FALSE]]

(* The slice of the diff a batch is shown when none of its files is shaped. *)
Slice(units) ==
    IF \A u \in Range(units) : u.promoted
    THEN Only(ReviewDiff, UNION {{u.path, u.old} : u \in Range(units)})
    ELSE <<>>

Supply ==
    /\ stage = "file"
    /\ \E reach \in Contexts, whole \in BOOLEAN, rest \in {<<>>, <<Second>>} :
         LET Shaped(f) == ShapeFileDiff(f, reach, Radius)
             batch == <<file>> \o rest
             units == [i \in DOMAIN batch |-> Unit(batch[i], Shaped(batch[i]), whole)]
         IN  prompt' = [units |-> units, base |-> BaseSHA, head |-> HeadSHA,
                        slice |-> Parse(Slice(units))]
    /\ stage' = "prompt"
    /\ UNCHANGED <<file, doc, verdicts, pair, faithful, resumed, posts>>
-----------------------------------------------------------------------------
(* The reviewer: a document that keeps the contract, with one part of it   *)
(* changed.                                                                *)
FileEvidence(path) == [path |-> path, revision |-> HeadSHA, source |-> "git", start |-> Null,
                       end |-> Null, note |-> Null]
Entry(n, path) == [unit |-> n, verdict |-> "no_issue", findings |-> <<>>,
                   evidence |-> <<FileEvidence(path)>>, reason |-> Null]
Finding(path, line, side) ==
    [path |-> path, line |-> line, side |-> side, severity |-> "high", preExisting |-> False,
     title |-> "title", why |-> "why"]

Canonical == [verdict |-> "converged", findings |-> <<>>, examined |-> "all", limits |-> <<>>,
              coverage |-> [n \in DOMAIN prompt.units |-> Entry(n, prompt.units[n].path)]]
With(entry) == [Canonical EXCEPT !.coverage[1] = entry]
Claiming(findings) ==
    [With([Entry(1, file.path) EXCEPT !.verdict = "finding",
                                      !.findings = [i \in DOMAIN findings |-> i]])
        EXCEPT !.findings = findings, !.verdict = "issues-remain"]

QuotedLines == 1..MaxLine
Good == Finding(file.path, 1, "RIGHT")
SchemaFindings ==
    {Finding(p, l, s) : p \in {file.path, file.old}, l \in QuotedLines, s \in {"LEFT", "RIGHT"}}
    \cup {Finding(p, 1, "RIGHT") : p \in {"b", "c", Backlog, "elsewhere"}}
LooseFindings ==
    {[Good EXCEPT !.line = l] : l \in {0, Fraction, Dotted, Foreign}}
    \cup {[Good EXCEPT !.side = s] : s \in {Null, False, Foreign, "MIDDLE"}}
    \cup {[Good EXCEPT !.severity = "urgent"], [Good EXCEPT !.preExisting = Null],
          [Good EXCEPT !.title = ""], [Good EXCEPT !.path = ""], [Good EXCEPT !.why = Foreign],
          Null, Foreign}

Evidences ==
    {[FileEvidence(p) EXCEPT !.revision = r, !.start = l, !.end = e] :
        p \in {file.path}, r \in {BaseSHA, HeadSHA, "deadbeef"}, l \in QuotedLines,
        e \in QuotedLines}
    \cup {[FileEvidence(p) EXCEPT !.start = 1, !.end = 1] : p \in {"b", "c"}}
    \cup {[FileEvidence(file.path) EXCEPT !.end = 1], [FileEvidence(file.path) EXCEPT !.note = "said"]}
LooseEvidences ==
    {[FileEvidence(file.path) EXCEPT !.note = n] : n \in {"fenced", Foreign}}
    \cup {[FileEvidence(file.path) EXCEPT !.start = v, !.end = v] : v \in {Fraction, Dotted}}
    \cup {[FileEvidence(file.path) EXCEPT !.source = "guess"], Foreign}

Entries ==
    {[Entry(1, file.path) EXCEPT !.verdict = v, !.evidence = e, !.reason = r] :
        v \in FileVerdicts, e \in {<<>>, <<FileEvidence(file.path)>>}, r \in {Null, "", "reason"}}
    \cup {[Entry(1, file.path) EXCEPT !.evidence = <<e>>] : e \in Evidences}
    \cup {[Entry(1, file.path) EXCEPT !.unit = n] : n \in {2, 3}}
LooseEntries ==
    {[Entry(1, file.path) EXCEPT !.evidence = <<e>>] : e \in LooseEvidences}
    \cup {[Entry(1, file.path) EXCEPT !.unit = n] : n \in {0, Fraction, Dotted, Null}}
    \cup {[Entry(1, file.path) EXCEPT !.reason = Foreign], Foreign}

(* What a harness that holds its output to the schema can return, and what *)
(* one that only asks for it can.                                          *)
SchemaDocuments ==
    {Canonical} \cup {With(e) : e \in Entries} \cup {Claiming(<<f>>) : f \in SchemaFindings}
    \cup {[Canonical EXCEPT !.coverage = <<>>], [Canonical EXCEPT !.examined = ""],
          [Canonical EXCEPT !.findings = <<Good>>], [Claiming(<<Good>>) EXCEPT !.findings = <<>>],
          Claiming(<<Good, Good>>), [Canonical EXCEPT !.verdict = "blocked"]}
LooseDocuments ==
    {With(e) : e \in LooseEntries}
    \cup {Claiming(<<Good, f>>) : f \in LooseFindings}
    \cup {Foreign, [Canonical EXCEPT !.verdict = Null], [Canonical EXCEPT !.findings = Null],
          [Canonical EXCEPT !.limits = <<Foreign>>]}

Answer ==
    /\ stage = "prompt"
    /\ doc' \in SchemaDocuments \cup LooseDocuments
    /\ stage' = "answer"
    /\ UNCHANGED <<file, prompt, verdicts, pair, faithful, resumed, posts>>
-----------------------------------------------------------------------------
(* An accepted answer is read into one verdict for each unit it names, the *)
(* evidence at the revision its own file was shown at.                     *)
ReviewedEvidence(list) ==
    LET Shown(path) == {u \in Range(prompt.units) : u.path = path}
        Recorded(e) == IF Shown(e.path) = {} THEN e
                       ELSE [e EXCEPT !.revision = (CHOOSE u \in Shown(e.path) : TRUE).revision]
    IN  [i \in DOMAIN list |-> Recorded(list[i])]

VerdictsFromPayload ==
    LET At(n) == CHOOSE i \in DOMAIN doc.coverage : doc.coverage[i].unit = n
        Judged(c) == [verdict |-> c.verdict,
                      findingIDs |-> IF c.findings = <<>> THEN Null ELSE c.findings,
                      evidence |-> ReviewedEvidence(c.evidence),
                      reason |-> IF c.reason = "" THEN Null ELSE c.reason]
    IN  [p \in {u.path : u \in Range(prompt.units)} |->
            Judged(doc.coverage[At(CHOOSE n \in DOMAIN prompt.units : prompt.units[n].path = p)])]

(* A refused answer is asked for again; one the second decoder refuses     *)
(* fails the leg.                                                          *)
Check ==
    /\ stage = "answer"
    /\ IF Review(doc, prompt) = "ok" /\ CoverageDecodes(doc)
       THEN stage' = "accepted" /\ verdicts' = VerdictsFromPayload
       ELSE stage' = "refused" /\ UNCHANGED verdicts
    /\ UNCHANGED <<file, prompt, doc, pair, faithful, resumed, posts>>
-----------------------------------------------------------------------------
(* The generation the leg publishes: every required file in order, judged  *)
(* with the measurement of what was shown for it, or outstanding.          *)
Required == <<file, Second, Third>>
UnitOf(path) == CHOOSE u \in Range(prompt.units) : u.path = path

UnitRecord(f, i, verdict) ==
    [type |-> "unit", unitID |-> FileUnitID(f.path), pathIndex |-> i, kind |-> "file",
     change |-> f.change, bodyDigest |-> Digest(Body(f)), verdict |-> verdict.verdict,
     findingIDs |-> verdict.findingIDs, evidence |-> verdict.evidence, reason |-> verdict.reason,
     supplied |-> UnitOf(f.path).supplied, reaction |-> UnimplementedReaction]

GenerationRecords ==
    [i \in DOMAIN Required |->
        LET f == Required[i]
        IN  IF f.path \in DOMAIN verdicts THEN UnitRecord(f, i, verdicts[f.path])
            ELSE OutstandingRecord(f.path, i, f.change, Digest(Body(f)), "awaiting review")]

Generation ==
    [gen |-> 2, base |-> BaseSHA, head |-> HeadSHA, engine |-> Engine, slot |-> "a",
     producer |-> [harness |-> "claude", model |-> "m", effort |-> Null, endpoint |-> Null],
     form |-> "full", paths |-> [i \in DOMAIN Required |-> Required[i].path],
     advisory |-> [count |-> 0, rules |-> <<>>, limits |-> <<>>],
     excluded |-> <<[path |-> Backlog, reason |-> "backlog destination"]>>,
     scopeReport |-> [examined |-> doc.examined, limits |-> doc.limits],
     reads |-> Null, records |-> GenerationRecords]

(* The marker store may keep the generation in its compact form.           *)
Publish ==
    /\ stage = "accepted"
    /\ \E g \in {Generation, CompactGeneration(Generation)} : pair' = EncodeGenerationV3(g)
    /\ stage' = "published"
    /\ UNCHANGED <<file, prompt, doc, verdicts, faithful, resumed, posts>>
-----------------------------------------------------------------------------
(* Somebody else writes the ref the blobs are kept on: a member is lost,   *)
(* added or replaced, with its digest made good or not, or the records are *)
(* those of another generation.                                            *)
Altered(object) ==
    LET Members == DOMAIN object \ {"digest"}
    IN  {[object EXCEPT ![k] = Foreign] : k \in Members}
        \cup {Without(object, k) : k \in Members}
        \cup {object @@ [extra |-> Null]}

(* What a record of a generation may be altered to: a shape the encoder    *)
(* never writes.                                                           *)
AlteredRecord(r) ==
    Altered(r)
    \cup {[r EXCEPT !.type = IF @ = "unit" THEN "outstanding" ELSE "unit"],
          [r EXCEPT !.verdict = "approved"], [r EXCEPT !.kind = "range"]}
    \cup IF r.supplied = Null THEN {} ELSE {[r EXCEPT !.supplied = s] : s \in Altered(r.supplied)}
    \cup IF r.evidence = <<>> THEN {} ELSE {[r EXCEPT !.evidence[1] = e] : e \in Altered(r.evidence[1])}

RewrittenManifests ==
    LET m == pair.manifest
        Nested == UNION {{[m EXCEPT ![k] = v] : v \in Altered(m[k])} :
                           k \in {"producer", "advisory", "scopeReport", "verification"}}
    IN  {[pair EXCEPT !.manifest = v] : v \in {[m EXCEPT !.head = "other"], [m EXCEPT !.v = 2]}}
        \cup {[pair EXCEPT !.manifest = SelfDigest(v)] :
                v \in Altered(m) \cup Nested \cup {[m EXCEPT !.v = 2], [m EXCEPT !.v = 4]}}

(* A pair whose digests both hold, around records that do not decode.      *)
RewrittenRecords ==
    LET o == pair.records
        Bound(r) == [manifest |-> SelfDigest([pair.manifest EXCEPT !.recordsDigest = Digest(r)]),
                     records |-> r]
        Lists == IF pair.manifest.form = "compact"
                 THEN {[o EXCEPT !.verdicts[1] = "9"], [o EXCEPT !.verdicts = Tail(@)]}
                 ELSE UNION {{[o EXCEPT !.records[i] = r] : r \in AlteredRecord(o.records[i])} :
                               i \in {1, Len(o.records)}}
    IN  {Bound(SelfDigest(r)) : r \in Altered(o) \cup Lists}

AnotherGeneration ==
    LET other == [Generation EXCEPT !.form = pair.manifest.form,
                                    !.records = [i \in DOMAIN Required |->
                                       RecordFromVerdictCode("1", i, Required[i].path)]]
    IN  {[pair EXCEPT !.records = EncodeGenerationV3(other).records]}

Rewrite ==
    /\ stage = "published" /\ faithful /\ file \in Rewritten
    /\ pair' \in (RewrittenManifests \cup RewrittenRecords \cup AnotherGeneration) \ {pair}
    /\ faithful' = FALSE
    /\ UNCHANGED <<stage, file, prompt, doc, verdicts, resumed, posts>>
-----------------------------------------------------------------------------
(* A later run takes the judgements of a generation made at exactly the    *)
(* revisions and with the engine it reviews with.                          *)
AcceptedFromGeneration(g, base, head, engine) ==
    LET judged == IF g # Null /\ g.base = base /\ g.head = head /\ g.engine = engine
                  THEN {r \in Range(g.records) : r.type = "unit" /\ r.verdict # Null} ELSE {}
        Of(p) == CHOOSE r \in judged : r.unitID = FileUnitID(p)
    IN  [p \in {f.path : f \in {x \in Range(Required) :
                                  \E r \in judged : r.unitID = FileUnitID(x.path)}} |->
            [verdict |-> Of(p).verdict, findingIDs |-> Of(p).findingIDs,
             evidence |-> Of(p).evidence, reason |-> Of(p).reason]]

Nothing == [p \in {} |-> Null]

Resume ==
    /\ stage = "published"
    /\ \E at \in {<<BaseSHA, HeadSHA, Engine>>, <<"other", HeadSHA, Engine>>,
                  <<BaseSHA, "other", Engine>>, <<BaseSHA, HeadSHA, "file-v2">>} :
         resumed' = [same |-> at = <<BaseSHA, HeadSHA, Engine>>,
                     verdicts |-> AcceptedFromGeneration(DecodeGenerationV3(pair),
                                                         at[1], at[2], at[3])]
    /\ stage' = "resumed"
    /\ UNCHANGED <<file, prompt, doc, verdicts, pair, faithful, posts>>
-----------------------------------------------------------------------------
(* Where a finding goes.  It moves to the nearest line the pull request's  *)
(* diff shows when that is near; a changed line takes it inline, another   *)
(* line of a required file on the file, and anything else at the top.      *)
Posting == Parse(ReviewDiff)
SideOf(f) == IF f.side \in {"LEFT", "RIGHT"} THEN f.side ELSE "RIGHT"

AnchorKind(lines, path, side, line) ==
    IF ChangedLine(lines, path, side, line) THEN "line"
    ELSE IF path \in {f.path : f \in Range(Required)} THEN "file"
    ELSE "outside_diff"

(* A scalar in the list becomes an object with nothing but what is set.    *)
EnrichFinding(lines, element) ==
    LET f == IF element = Foreign THEN [Finding("", Null, Null) EXCEPT !.title = "", !.why = Null]
             ELSE element
        want == IF f.line = Null THEN 0 ELSE Truncated(f.line)
        near == Anchor(lines, f.path, SideOf(f), want, Snap)
        line == IF near = None THEN want ELSE near
    IN  [finding |-> IF line = want THEN f ELSE [f EXCEPT !.line = line],
         kind |-> AnchorKind(lines, f.path, SideOf(f), line), want |-> want]

Comment(e) ==
    [kind |-> e.kind, path |-> e.finding.path, side |-> SideOf(e.finding), title |-> e.finding.title,
     line |-> IF e.finding.line = Null THEN 0 ELSE e.finding.line, want |-> e.want]

(* The enriched findings are decoded together before any of them is posted. *)
Place ==
    /\ stage = "accepted" /\ posts = Null
    /\ LET lines == Posting
           enriched == [i \in DOMAIN doc.findings |-> EnrichFinding(lines, doc.findings[i])]
           decoded == ParseFindings([i \in DOMAIN enriched |-> enriched[i].finding])
       IN  posts' = {Comment(enriched[i]) : i \in DOMAIN decoded}
    /\ stage' = "placed"
    /\ UNCHANGED <<file, prompt, doc, verdicts, pair, faithful, resumed>>
-----------------------------------------------------------------------------
Init ==
    /\ stage = "file"
    /\ file \in Files
    /\ prompt = Null /\ doc = Null /\ verdicts = Nothing
    /\ pair = Null /\ faithful = TRUE /\ resumed = Null /\ posts = Null

Next == Supply \/ Answer \/ Check \/ Publish \/ Rewrite \/ Resume \/ Place
Spec == Init /\ [][Next]_vars
-----------------------------------------------------------------------------
Whole(f) == Range(Gutter(Parse(GitDiff(f, Len(f.edits)))))
Batch == [n \in DOMAIN prompt.units |-> IF n = 1 THEN file ELSE Second]

(* What the reviewer is shown is the change itself: every numbered line,   *)
(* on either side, is the line of the file that has that number, and no    *)
(* changed line is missing from a file that is not shown by its headers    *)
(* alone (diff/clip.go, vcs/hunks.go ShapeFileDiff).                       *)
ShownNumbersHold ==
    stage = "prompt" =>
        /\ \A n \in DOMAIN prompt.units :
             LET unit == prompt.units[n]
                 shown == Range(Gutter(unit.shown))
             IN  ~unit.promoted =>
                   /\ shown \subseteq Whole(Batch[n])
                   /\ unit.supplied.form # "diff_only" =>
                        {l \in Whole(Batch[n]) : l.kind \in Changes} \subseteq shown
        /\ Range(Gutter(prompt.slice)) \subseteq UNION {Whole(f) : f \in Range(Required)}

(* The numbers a side of a file shows, to the reviewer it was sent to.     *)
ShownOn(n, side) ==
    LET unit == prompt.units[n]
        content == IF unit.change = "deleted" THEN "base" ELSE "head"
        Number(l) == IF side = "base" THEN l.old ELSE l.new
    IN  IF unit.promoted THEN IF side = content THEN 1..unit.lines ELSE {}
        ELSE {Number(l) : l \in {k \in Range(Gutter(unit.shown)) : k \in Whole(Batch[n])}} \ {Absent}

(* Evidence an accepted answer gives for its own file is a span that one   *)
(* side of it showed the reviewer, line by line (review/scope.go           *)
(* unitRanges, validate/review.go).                                        *)
EvidenceWasShown ==
    stage = "accepted" =>
        \A i \in DOMAIN doc.coverage :
            LET c == doc.coverage[i]
            IN  \A e \in Range(c.evidence) :
                    (e.path = prompt.units[c.unit].path /\ e.start # Null) =>
                        \E side \in {"base", "head"} :
                            Truncated(e.start)..Truncated(e.end) \subseteq ShownOn(c.unit, side)

(* A compact generation keeps the verdict of a file and nothing else.     *)
Judgements(vs, form) ==
    IF form = "full" THEN vs ELSE [p \in DOMAIN vs |-> vs[p].verdict]
(* A later run at the same revisions and engine takes exactly the          *)
(* judgements that were accepted, and a run at any other, or one that      *)
(* finds the blobs changed, takes none (prstate/coverage.go,               *)
(* prstate/schema2.go, review/scope.go acceptedFromGeneration).            *)
ResumedAsJudged ==
    stage = "resumed" =>
        IF ~faithful \/ ~resumed.same THEN resumed.verdicts = Nothing
        ELSE Judgements(resumed.verdicts, pair.manifest.form)
               = Judgements(verdicts, pair.manifest.form)

ToSchema(f) ==
    f \notin {Null, Foreign} /\ f.line \in Nat \ {0} /\ f.side \in {"LEFT", "RIGHT"} /\ IsText(f.why)
Changed(lines, path, side, n) ==
    \E l \in Range(lines) :
        /\ Names(l, path)
        /\ IF side = "LEFT" THEN l.kind = "del" /\ l.old = n ELSE l.kind = "add" /\ l.new = n
(* A finding written to the schema is never lost; one on a changed line    *)
(* the reviewer was shown is posted on that very line; and no line comment *)
(* lands off a changed line or further than the snap from the line that    *)
(* was quoted (review/validate.go, diff/anchor.go).                        *)
FindingsLand ==
    stage = "placed" =>
        /\ \A c \in posts : c.kind = "line" =>
             Changed(Posting, c.path, c.side, c.line) /\ Distance(c.line, c.want) <= Snap
        /\ (\A f \in Range(doc.findings) : ToSchema(f)) =>
             \A f \in Range(doc.findings) :
                 \E c \in posts : /\ c.path = f.path /\ c.side = f.side /\ c.want = f.line
                                  /\ (\E n \in DOMAIN prompt.units :
                                        /\ ~prompt.units[n].promoted
                                        /\ Changed(prompt.units[n].shown, f.path, f.side, f.line))
                                       => c.kind = "line" /\ c.line = f.line
=============================================================================
