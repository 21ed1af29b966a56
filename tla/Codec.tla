--------------------------------- MODULE Codec --------------------------------
(***************************************************************************)
(* A coverage generation as the two blobs it is stored as, a manifest and  *)
(* its records, and the decoder that reads the pair back.  A JSON object   *)
(* is a record, so its keys are its domain.  A digest over some bytes is   *)
(* the value those bytes stand for.                                        *)
(***************************************************************************)
EXTENDS JsonValues

(* The identity of a unit is a function of its path alone.                 *)
FileUnitID(path) == <<"file", path>>

VerdictOfCode == ("1" :> "no_issue") @@ ("2" :> "finding")
                 @@ ("3" :> "not_affected") @@ ("4" :> "could_not_review")
VerdictCode(r) ==
    IF r.type = "outstanding" \/ r.verdict = Null THEN "0"
    ELSE CHOOSE code \in DOMAIN VerdictOfCode : VerdictOfCode[code] = r.verdict

UnimplementedReaction ==
    [reactions |-> Null, threadState |-> Null, humanReplied |-> Null, anchorChanged |-> Null]
UnimplementedVerification ==
    [status |-> "not_implemented", revision |-> Null, checks |-> Null, sources |-> Null,
     rejected |-> Null, recovery |-> Null]

(* What a compact record keeps of a full one: which unit, and its verdict. *)
RecordFromVerdictCode(code, i, path) ==
    [type |-> IF code = "0" THEN "outstanding" ELSE "unit",
     unitID |-> FileUnitID(path), pathIndex |-> i, kind |-> "file", change |-> "",
     bodyDigest |-> "", verdict |-> IF code = "0" THEN Null ELSE VerdictOfCode[code],
     findingIDs |-> Null, evidence |-> <<>>, reason |-> Null, supplied |-> Null,
     reaction |-> UnimplementedReaction]

OutstandingRecord(path, i, change, digest, reason) ==
    [type |-> "outstanding", unitID |-> FileUnitID(path), pathIndex |-> i, kind |-> "file",
     change |-> change, bodyDigest |-> digest, verdict |-> Null,
     findingIDs |-> Null, evidence |-> <<>>, reason |-> reason, supplied |-> Null,
     reaction |-> UnimplementedReaction]

(* The verdict code of each path, in order: the last record at its index.  *)
Codes(g) ==
    [i \in DOMAIN g.paths |->
        LET at == {k \in DOMAIN g.records : g.records[k].pathIndex = i}
        IN  IF at = {} THEN "0"
            ELSE VerdictCode(g.records[CHOOSE k \in at : \A m \in at : m <= k])]

CompactGeneration(g) ==
    [g EXCEPT !.form = "compact", !.reads = Null,
              !.records = [i \in DOMAIN g.paths |->
                              RecordFromVerdictCode(Codes(g)[i], i, g.paths[i])]]
-----------------------------------------------------------------------------
Digest(bytes) == <<"sha256", bytes>>
IsDigest(d) == d # Foreign /\ d # Null
Without(object, key) == Restrict(object, DOMAIN object \ {key})
SelfDigest(object) == [object EXCEPT !.digest = Digest(Without(object, "digest"))]

GenerationCounts(g) ==
    [outstanding |-> Cardinality({k \in DOMAIN g.records : VerdictCode(g.records[k]) = "0"}),
     required |-> IF Len(g.records) > Len(g.paths) THEN Len(g.records) ELSE Len(g.paths)]

ManifestFieldsV3(g, records) ==
    [v |-> 3, kind |-> "manifest", gen |-> g.gen, base |-> g.base, head |-> g.head,
     engine |-> g.engine, slot |-> g.slot, producer |-> g.producer, form |-> g.form,
     granularity |-> "file", paths |-> g.paths,
     outstandingCount |-> GenerationCounts(g).outstanding,
     requiredCount |-> GenerationCounts(g).required,
     advisory |-> g.advisory, excluded |-> g.excluded, scopeReport |-> g.scopeReport,
     verification |-> UnimplementedVerification, reads |-> g.reads,
     recordsDigest |-> Digest(records), digest |-> Null]

RecordsFields(g) ==
    IF g.form = "compact"
    THEN [v |-> 3, kind |-> "records", form |-> "compact", verdicts |-> Codes(g), digest |-> Null]
    ELSE [v |-> 3, kind |-> "records", form |-> "full", records |-> g.records, digest |-> Null]

(* The manifest carries the digest of the records, which binds the pair.   *)
EncodeGenerationV3(g) ==
    LET records == SelfDigest(RecordsFields(g))
    IN  [manifest |-> SelfDigest(ManifestFieldsV3(g, records)), records |-> records]
-----------------------------------------------------------------------------
(* A null is a nil string or an absent option: only another type refuses.  *)
Typed(v) == v # Foreign
IsLine(v) == v = Null \/ (v \in Nat /\ v >= 1)

DecodesProducer(p) ==
    /\ Exactly(p, {"harness", "model", "effort", "endpoint"})
    /\ \A k \in DOMAIN p : Typed(p[k])

DecodesAdvisory(a) ==
    LET Limit(l) == /\ Exactly(l, {"rule", "observed", "limit", "reason"})
                    /\ Typed(l.rule) /\ Typed(l.reason)
                    /\ l.observed \in Nat /\ l.limit \in Nat
    IN  /\ Exactly(a, {"count", "rules", "limits"})
        /\ a.count \in Nat /\ Each(a.rules, Typed) /\ Each(a.limits, Limit)

DecodesExclusions(list) ==
    LET Exclusion(e) == Exactly(e, {"path", "reason"}) /\ Typed(e.path) /\ Typed(e.reason)
    IN  Each(list, Exclusion)

DecodesScopeReport(s) ==
    /\ Exactly(s, {"examined", "limits"})
    /\ s.examined \notin {Null, Foreign, ""} /\ Each(s.limits, Typed)

(* The reserved envelopes are checked for their types and never read.      *)
DecodesVerification(v) ==
    /\ Exactly(v, {"status", "revision", "checks", "sources", "rejected", "recovery"})
    /\ v.status \in {Null, "not_implemented", "passed", "failed", "pending", "unavailable",
                     "no_checks_discovered"}
    /\ \A k \in DOMAIN v : Typed(v[k])

DecodesReaction(r) ==
    /\ Exactly(r, {"reactions", "threadState", "humanReplied", "anchorChanged"})
    /\ \A k \in DOMAIN r \ {"reactions"} : Typed(r[k])

Modes == {"served", "file_tool", "supplied"}
DecodesReadsEnvelope(e) ==
    /\ Exactly(e, {"declared", "effective", "reason", "calls", "reads", "bytes", "refused",
                   "exhausted"})
    /\ {e.calls, e.reads, e.bytes, e.refused} \subseteq Nat
    /\ Typed(e.reason) /\ Typed(e.exhausted)
    /\ e.declared \in Modes /\ e.effective \in Modes

DecodesEvidence(e) ==
    /\ Exactly(e, {"path", "revision", "start", "end", "source", "note"})
    /\ e.path \notin {Null, Foreign, ""}
    /\ Typed(e.revision) /\ Typed(e.note)
    /\ IsLine(e.start) /\ IsLine(e.end)
    /\ e.source \in {"git", "search", "convention", "reviewer"}

(* The shape before this one had neither ranges nor a count of parts.      *)
DecodesSuppliedInput(s, version) ==
    \/ s = Null
    \/ /\ Exactly(s, {"digest", "form", "truncated"}
                      \cup IF version = 2 THEN {} ELSE {"ranges", "parts"})
       /\ IsDigest(s.digest)
       /\ s.form \in {"full_text", "hunks_context", "diff_only"}
       /\ s.truncated \in BOOLEAN
       /\ version = 3 => /\ s.parts \in Nat \ {0}
                          /\ Exactly(s.ranges, {"base", "head"})
                          /\ s.ranges.base \cup s.ranges.head \subseteq Nat \ {0}

(* An outstanding record says nothing of a judgement, a unit record has    *)
(* its verdict.                                                            *)
DecodesRecord(r, version) ==
    /\ Exactly(r, {"type", "unitID", "pathIndex", "kind", "change", "bodyDigest", "verdict",
                   "findingIDs", "evidence", "reason", "supplied", "reaction"})
    /\ r.type \in {"unit", "outstanding"}
    /\ IsDigest(r.unitID) /\ r.pathIndex \in Nat /\ r.kind = "file"
    /\ r.change \in {"added", "modified", "deleted", "renamed", "type_changed"}
    /\ IsDigest(r.bodyDigest)
    /\ r.verdict \in {Null} \cup Range(VerdictOfCode)
    /\ r.findingIDs = Null \/ Each(r.findingIDs, Typed)
    /\ Each(r.evidence, DecodesEvidence)
    /\ Typed(r.reason)
    /\ DecodesSuppliedInput(r.supplied, version)
    /\ DecodesReaction(r.reaction)
    /\ IF r.type = "outstanding"
       THEN r.verdict = Null /\ r.findingIDs = Null /\ r.supplied = Null
       ELSE r.verdict # Null
-----------------------------------------------------------------------------
ManifestKeys(version) ==
    {"v", "kind", "gen", "base", "head", "engine", "slot", "producer", "form", "granularity",
     "paths", "outstandingCount", "requiredCount", "advisory", "excluded", "scopeReport",
     "verification", "recordsDigest", "digest"} \cup IF version = 3 THEN {"reads"} ELSE {}

DecodesManifest(m) ==
    /\ "v" \in DOMAIN m /\ m.v \in {2, 3}
    /\ Exactly(m, ManifestKeys(m.v))
    /\ m.kind = "manifest" /\ m.gen \in Nat
    /\ {m.base, m.head} \cap {Null, Foreign} = {}
    /\ Typed(m.engine) /\ Typed(m.slot)
    /\ DecodesProducer(m.producer)
    /\ m.form \in {"full", "compact"} /\ m.granularity = "file"
    /\ Each(m.paths, Typed)
    /\ m.outstandingCount \in Nat /\ m.requiredCount \in Nat
    /\ DecodesAdvisory(m.advisory) /\ DecodesExclusions(m.excluded)
    /\ DecodesScopeReport(m.scopeReport) /\ DecodesVerification(m.verification)
    /\ m.v = 3 => m.reads = Null \/ DecodesReadsEnvelope(m.reads)
    /\ IsDigest(m.recordsDigest) /\ IsDigest(m.digest)
    /\ m.digest = Digest(Without(m, "digest"))

DecodesRecords(o, m) ==
    LET Has(k) == k \in DOMAIN o
        Decodes(r) == DecodesRecord(r, m.v)
    IN  /\ Has("v") /\ o.v = m.v
        /\ Has("kind") /\ o.kind = "records"
        /\ Has("form") /\ o.form = m.form
        /\ Has("digest") /\ o.digest = Digest(Without(o, "digest"))
        /\ IF m.form = "compact"
           THEN /\ Exactly(o, {"v", "kind", "form", "verdicts", "digest"})
                /\ IsList(o.verdicts) /\ Len(o.verdicts) = Len(m.paths)
                /\ Range(o.verdicts) \subseteq DOMAIN VerdictOfCode \cup {"0"}
           ELSE /\ Exactly(o, {"v", "kind", "form", "records", "digest"})
                /\ Each(o.records, Decodes)

(* A bug to be caught: the records are not held against the manifest.      *)
DecodesLoosePair(pair) ==
    DecodesManifest(pair.manifest) /\ DecodesRecords(pair.records, pair.manifest)

DecodesPair(pair) ==
    /\ DecodesManifest(pair.manifest)
    /\ pair.manifest.recordsDigest = Digest(pair.records)
    /\ DecodesRecords(pair.records, pair.manifest)

(* The generation a pair holds, Null for a pair that is refused.  What the *)
(* older version did not measure reads as one part with no ranges.         *)
DecodeGenerationV3(pair) ==
    LET m == pair.manifest
        o == pair.records
        Migrated(r) == IF r.supplied = Null \/ m.v = 3 THEN r
                       ELSE [r EXCEPT !.supplied = @ @@ [ranges |-> [base |-> {}, head |-> {}],
                                                         parts |-> 1]]
    IN  IF ~DecodesPair(pair) THEN Null
        ELSE [gen |-> m.gen, base |-> m.base, head |-> m.head, engine |-> m.engine,
              slot |-> m.slot, producer |-> m.producer, form |-> m.form, paths |-> m.paths,
              advisory |-> m.advisory, excluded |-> m.excluded, scopeReport |-> m.scopeReport,
              reads |-> IF m.v = 3 THEN m.reads ELSE Null,
              records |-> IF m.form = "compact"
                          THEN [i \in DOMAIN m.paths |->
                                   RecordFromVerdictCode(o.verdicts[i], i, m.paths[i])]
                          ELSE [i \in DOMAIN o.records |-> Migrated(o.records[i])]]
=============================================================================
