----------------------------- MODULE LedgerProofs -----------------------------
(***************************************************************************)
(* Theorems about the coverage ledger, for any set of units and runs, any  *)
(* store, and any number of revisions, commits and events.                 *)
(***************************************************************************)
EXTENDS Ledger, TLAPS, FiniteSetTheorems, SequenceTheorems, WellFoundedInduction

(* The readers of Ledger, of any markers and commits. *)
ClaimedIn(ms) == {p \in DOMAIN ms : ms[p].handle # NoHandle}
LastIn(ms) ==
    IF ClaimedIn(ms) = {} THEN NoHandle
    ELSE ms[CHOOSE p \in ClaimedIn(ms) : \A q \in ClaimedIn(ms) : q <= p].handle

HonestIn(jd, g) ==
    \A u \in Units : g.recs[u] = "outstanding" \/ <<g.head, u, g.recs[u]>> \in jd

OursIn(cs, c) == c \in DOMAIN cs /\ cs[c].by = Us
SoundIn(cs, jd, h) ==
    /\ h.at = "ref" => OursIn(cs, h.commit)
    /\ h.at = "marker" => HonestIn(jd, h.payload)

CommitsSound(cs, jd) ==
    \A c \in DOMAIN cs :
        /\ cs[c].parent \in {0} \cup DOMAIN cs
        /\ cs[c].by = Us => HonestIn(jd, cs[c].of) /\ (cs[c].parent = 0 \/ OursIn(cs, cs[c].parent))

MarkersSound(ms, cs, jd) ==
    \A p \in DOMAIN ms :
        /\ SoundIn(cs, jd, ms[p].handle)
        /\ ms[p].green => \A u \in Units : <<ms[p].head, u, "no_issue">> \in jd

RunSound(x, ms, cs, jd) ==
    /\ SoundIn(cs, jd, x.mk) /\ SoundIn(cs, jd, x.next)
    /\ x.parent = 0 \/ OursIn(cs, x.parent)
    /\ \A u \in Units : x.recs[u] = "outstanding" \/ <<x.head, u, x.recs[u]>> \in jd
    /\ x.step \notin {"ready", "done"} => x.pass \in DOMAIN ms /\ ms[x.pass].head = x.head
    /\ x.step = "move" => x.next.at = "ref"

SoundInv ==
    /\ CommitsSound(commits, judged)
    /\ MarkersSound(markers, commits, judged)
    /\ \A r \in Runs : RunSound(run[r], markers, commits, judged)

SoundLedger == TypeOK /\ SoundInv

(***************************************************************************)
(* What the encodings keep.                                                *)
(***************************************************************************)
LEMMA HandleForms ==
    ASSUME NEW h \in Handle
    PROVE  /\ h.at \in {"none", "ref", "marker"}
           /\ h.at = "none" <=> h = NoHandle
           /\ h.at = "ref" => h.commit \in 1..MaxCommits /\ h = RefHandle(h.commit)
           /\ h.at = "marker" => h.payload \in Generation /\ h = MarkerHandle(h.payload)
BY DEF Handle, NoHandle, RefHandle, MarkerHandle

LEMMA HandleTypes ==
    /\ NoHandle \in Handle /\ NoHandle.at = "none"
    /\ \A c \in 1..MaxCommits : /\ RefHandle(c) \in Handle
                                /\ RefHandle(c).at = "ref" /\ RefHandle(c).commit = c
    /\ \A g \in Generation : /\ MarkerHandle(g) \in Handle
                             /\ MarkerHandle(g).at = "marker" /\ MarkerHandle(g).payload = g
BY DEF Handle, NoHandle, RefHandle, MarkerHandle

(* The compact form keeps the revision and every verdict. *)
LEMMA CompactKeeps ==
    ASSUME NEW g \in Generation
    PROVE  /\ CompactGeneration(g) \in Generation
           /\ CompactGeneration(g).head = g.head /\ CompactGeneration(g).recs = g.recs
<1> DEFINE recs == [u \in Units |-> RecordFromVerdictCode(VerdictCode(g.recs[u]))]
<1>1. g.recs \in Records /\ g.head \in Heads
  BY DEF Generation
<1>2. \A u \in Units : RecordFromVerdictCode(VerdictCode(g.recs[u])) = g.recs[u]
  BY <1>1 DEF Records, Verdicts, RecordFromVerdictCode, VerdictCode
<1>3. recs = g.recs
  BY <1>1, <1>2 DEF Records
<1> HIDE DEF recs
<1>4. CompactGeneration(g) = [g EXCEPT !.form = "compact", !.supplied = {}, !.recs = recs]
  BY DEF CompactGeneration, recs
<1> QED
  BY <1>1, <1>3, <1>4 DEF Generation

LEMMA FittedKeeps ==
    ASSUME NEW g \in Generation, NEW f \in Fitted(g)
    PROVE  f \in Generation /\ f.head = g.head /\ f.recs = g.recs
BY CompactKeeps DEF Fitted

(* An edit writes the handle it has, or its generation in another form. *)
LEMMA WrittenKeeps ==
    ASSUME NEW h \in Handle, NEW k \in Written(h)
    PROVE  /\ k \in Handle /\ k.at = h.at
           /\ h.at # "marker" => k = h
           /\ h.at = "marker" => k.payload.head = h.payload.head /\ k.payload.recs = h.payload.recs
<1>1. CASE h.at = "marker"
  <2>1. h.payload \in Generation
    BY <1>1, HandleForms
  <2>2. PICK f \in Fitted(h.payload) : k = MarkerHandle(f)
    BY <1>1 DEF Written
  <2>3. f \in Generation /\ f.head = h.payload.head /\ f.recs = h.payload.recs
    BY <2>1, FittedKeeps
  <2> QED BY <1>1, <2>2, <2>3, HandleTypes
<1>2. CASE h.at # "marker"
  BY <1>2 DEF Written
<1> QED
  BY <1>1, <1>2

LEMMA CandidateType ==
    ASSUME TypeOK, NEW r \in Runs
    PROVE  /\ Candidate(r) \in Generation
           /\ Candidate(r).head = run[r].head /\ Candidate(r).recs = run[r].recs
BY DEF TypeOK, Run, Candidate, Generation

(***************************************************************************)
(* What is sound stays sound as commits and verdicts are added.            *)
(***************************************************************************)
Grows(cs, ds) == \A c \in DOMAIN cs : c \in DOMAIN ds /\ ds[c] = cs[c]
HeadsKept(ms, ns) == \A p \in DOMAIN ms : p \in DOMAIN ns /\ ns[p].head = ms[p].head

LEMMA SoundGrows ==
    ASSUME NEW cs, NEW ds, NEW jd, NEW kd, Grows(cs, ds), jd \subseteq kd
    PROVE  /\ \A h : SoundIn(cs, jd, h) => SoundIn(ds, kd, h)
           /\ \A ms : MarkersSound(ms, cs, jd) => MarkersSound(ms, ds, kd)
           /\ \A g : HonestIn(jd, g) => HonestIn(kd, g)
           /\ \A c : OursIn(cs, c) => OursIn(ds, c)
           /\ \A x, ms, ns : RunSound(x, ms, cs, jd) /\ HeadsKept(ms, ns) => RunSound(x, ns, ds, kd)
<1>1. \A g : HonestIn(jd, g) => HonestIn(kd, g)
  BY DEF HonestIn
<1>2. \A c : OursIn(cs, c) => OursIn(ds, c)
  BY DEF OursIn, Grows
<1>3. \A h : SoundIn(cs, jd, h) => SoundIn(ds, kd, h)
  BY <1>1, <1>2 DEF SoundIn
<1>4. \A ms : MarkersSound(ms, cs, jd) => MarkersSound(ms, ds, kd)
  BY <1>3 DEF MarkersSound
<1>5. \A x, ms, ns : RunSound(x, ms, cs, jd) /\ HeadsKept(ms, ns) => RunSound(x, ns, ds, kd)
  BY <1>2, <1>3 DEF RunSound, HeadsKept
<1> QED
  BY <1>1, <1>2, <1>3, <1>4, <1>5

LEMMA CommitsGrow ==
    ASSUME NEW cs, NEW jd, NEW kd, jd \subseteq kd, CommitsSound(cs, jd)
    PROVE  CommitsSound(cs, kd)
BY DEF CommitsSound, HonestIn

(* A commit more, ours and honest, or another writer's. *)
LEMMA CommitAdded ==
    ASSUME NEW cs \in Seq(Commit), NEW jd, NEW c \in Commit, CommitsSound(cs, jd),
           c.parent \in {0} \cup DOMAIN cs,
           c.by = Us => HonestIn(jd, c.of) /\ (c.parent = 0 \/ OursIn(cs, c.parent))
    PROVE  LET ds == Append(cs, c)
           IN  /\ ds \in Seq(Commit) /\ Len(ds) = Len(cs) + 1 /\ Grows(cs, ds)
               /\ DOMAIN ds = DOMAIN cs \cup {Len(cs) + 1} /\ ds[Len(cs) + 1] = c
               /\ CommitsSound(ds, jd)
<1> DEFINE ds == Append(cs, c)
           k == Len(cs) + 1
<1>1. /\ ds \in Seq(Commit) /\ Len(ds) = Len(cs) + 1 /\ ds[k] = c
      /\ \A i \in DOMAIN cs : ds[i] = cs[i]
      /\ DOMAIN ds = DOMAIN cs \cup {k}
  BY AppendProperties
<1> HIDE DEF ds, k
<1>2. Grows(cs, ds)
  BY <1>1 DEF Grows
<1>3. CommitsSound(ds, jd)
  <2>1. \A i : OursIn(cs, i) => OursIn(ds, i)
    BY <1>1 DEF OursIn
  <2>2. ASSUME NEW i \in DOMAIN ds
        PROVE  /\ ds[i].parent \in {0} \cup DOMAIN ds
               /\ ds[i].by = Us => HonestIn(jd, ds[i].of) /\ (ds[i].parent = 0 \/ OursIn(ds, ds[i].parent))
    <3>1. CASE i = k
      BY <1>1, <2>1, <3>1
    <3>2. CASE i \in DOMAIN cs
      BY <1>1, <2>1, <3>2 DEF CommitsSound
    <3> QED BY <1>1, <3>1, <3>2
  <2> QED BY <2>2 DEF CommitsSound
<1> QED
  BY <1>1, <1>2, <1>3 DEF ds, k

-------------------------------------------------------------------------------
(***************************************************************************)
(* A step of one run.                                                      *)
(***************************************************************************)
LEMMA OneRun ==
    ASSUME SoundLedger, NEW r \in Runs, NEW x \in Run, run' = [run EXCEPT ![r] = x],
           HeadsKept(markers, markers'), Grows(commits, commits'), judged \subseteq judged',
           CommitsSound(commits', judged'), MarkersSound(markers', commits', judged'),
           RunSound(x, markers', commits', judged')
    PROVE  run' \in [Runs -> Run] /\ SoundInv'
<1>1. run' \in [Runs -> Run] /\ run'[r] = x /\ \A q \in Runs \ {r} : run'[q] = run[q]
  BY DEF SoundLedger, TypeOK
<1>2. \A q \in Runs : RunSound(run[q], markers, commits, judged)
  BY DEF SoundLedger, SoundInv
<1>3. \A q \in Runs : RunSound(run'[q], markers', commits', judged')
  BY <1>1, <1>2, SoundGrows
<1> QED
  BY <1>1, <1>3 DEF SoundInv

LEMMA Unchanged ==
    ASSUME SoundLedger
    PROVE  /\ Grows(commits, commits) /\ HeadsKept(markers, markers)
           /\ CommitsSound(commits, judged) /\ MarkersSound(markers, commits, judged)
           /\ \A r \in Runs : /\ run[r] \in Run /\ RunSound(run[r], markers, commits, judged)
                              /\ SoundIn(commits, judged, run[r].mk)
                              /\ SoundIn(commits, judged, run[r].next)
           /\ commits \in Seq(Commit) /\ markers \in Seq(Marker) /\ run \in [Runs -> Run]
BY DEF SoundLedger, TypeOK, SoundInv, Grows, HeadsKept, RunSound

LEMMA ReadyType ==
    /\ Unread \in Records /\ \A u \in Units : Unread[u] = "outstanding"
    /\ 1 \in Heads /\ 0 \in 0..MaxCommits
    /\ ReadyRun \in Run /\ [ReadyRun EXCEPT !.step = "done"] \in Run
    /\ \A ms, cs, jd : /\ RunSound(ReadyRun, ms, cs, jd)
                       /\ RunSound([ReadyRun EXCEPT !.step = "done"], ms, cs, jd)
<1>1. Unread \in Records /\ \A u \in Units : Unread[u] = "outstanding"
  BY DEF Unread, Records
<1>2. 1 \in Heads /\ 0 \in 0..MaxCommits
  BY LedgerAssumption DEF Heads
<1>3. ReadyRun \in Run /\ [ReadyRun EXCEPT !.step = "done"] \in Run
  BY <1>1, <1>2, HandleTypes DEF ReadyRun, Run, Steps
<1>4. \A ms, cs, jd : /\ RunSound(ReadyRun, ms, cs, jd)
                      /\ RunSound([ReadyRun EXCEPT !.step = "done"], ms, cs, jd)
  BY <1>1, HandleTypes DEF RunSound, SoundIn, ReadyRun
<1> QED
  BY <1>1, <1>2, <1>3, <1>4

(* The edit of a claim, green only when its revision was judged whole. *)
LEMMA EditSound ==
    ASSUME SoundLedger, NEW r \in Runs, Active(r),
           NEW state \in {"started", "incomplete", "complete"}, NEW green \in BOOLEAN,
           green => \A u \in Units : <<run[r].head, u, "no_issue">> \in judged,
           EditClaim(r, state, green)
    PROVE  /\ markers' \in Seq(Marker) /\ HeadsKept(markers, markers')
           /\ DOMAIN markers' = DOMAIN markers /\ Len(markers') = Len(markers)
           /\ MarkersSound(markers', commits, judged)
           /\ markers'[run[r].pass].handle \in Written(run[r].mk)
           /\ \A p \in DOMAIN markers \ {run[r].pass} : markers'[p] = markers[p]
<1> DEFINE p == run[r].pass
<1>1. PICK h \in Written(run[r].mk) :
        markers' = [markers EXCEPT ![p] = [@ EXCEPT !.state = state, !.handle = h, !.green = green]]
  BY DEF EditClaim
<1>2. run[r] \in Run /\ run[r].mk \in Handle /\ SoundIn(commits, judged, run[r].mk)
  BY Unchanged DEF Run
<1>3. p \in DOMAIN markers /\ markers[p].head = run[r].head
  BY Unchanged DEF RunSound, Active
<1>4. h \in Handle /\ SoundIn(commits, judged, h)
  <2>1. h \in Handle /\ h.at = run[r].mk.at /\ (run[r].mk.at # "marker" => h = run[r].mk)
        /\ (run[r].mk.at = "marker" => h.payload.head = run[r].mk.payload.head
                                       /\ h.payload.recs = run[r].mk.payload.recs)
    BY <1>1, <1>2, WrittenKeeps
  <2> QED BY <1>2, <2>1 DEF SoundIn, HonestIn
<1> DEFINE m == [markers[p] EXCEPT !.state = state, !.handle = h, !.green = green]
<1>5. markers \in Seq(Marker) /\ markers[p] \in Marker
  BY <1>3, Unchanged
<1>6. /\ m \in Marker /\ m.head = run[r].head /\ m.handle = h /\ m.green = green
  BY <1>3, <1>4, <1>5 DEF Marker
<1>7. markers' = [markers EXCEPT ![p] = m]
  BY <1>1
<1> HIDE DEF m, p
<1>8. /\ markers' \in Seq(Marker) /\ DOMAIN markers' = DOMAIN markers
      /\ Len(markers') = Len(markers) /\ markers'[p] = m
      /\ \A q \in DOMAIN markers \ {p} : markers'[q] = markers[q]
  BY <1>3, <1>5, <1>6, <1>7, ExceptSeq
<1>9. MarkersSound(markers', commits, judged)
  <2>1. MarkersSound(markers, commits, judged)
    BY Unchanged
  <2> QED BY <1>4, <1>6, <1>8, <2>1 DEF MarkersSound
<1>10. HeadsKept(markers, markers')
  BY <1>3, <1>6, <1>8 DEF HeadsKept
<1> QED
  BY <1>1, <1>6, <1>8, <1>9, <1>10 DEF p

LEMMA ReportFatalSound ==
    ASSUME SoundLedger, NEW r \in Runs, Active(r), ReportFatal(r), commits' = commits,
           judged' = judged
    PROVE  markers' \in Seq(Marker) /\ run' \in [Runs -> Run] /\ SoundInv'
<1>1. markers' \in Seq(Marker) /\ HeadsKept(markers, markers') /\ MarkersSound(markers', commits, judged)
  <2>1. CASE EditClaim(r, "incomplete", FALSE)
    BY <2>1, EditSound
  <2>2. CASE UNCHANGED markers
    BY <2>2, Unchanged
  <2> QED BY <2>1, <2>2 DEF ReportFatal
<1> DEFINE x == [ReadyRun EXCEPT !.step = "done"]
<1>2. x \in Run /\ RunSound(x, markers', commits', judged')
  BY ReadyType
<1>3. run' = [run EXCEPT ![r] = x]
  BY DEF ReportFatal, End
<1>4. /\ Grows(commits, commits') /\ judged \subseteq judged' /\ CommitsSound(commits', judged')
      /\ MarkersSound(markers', commits', judged')
  BY <1>1, Unchanged
<1> HIDE DEF x
<1> QED
  BY <1>1, <1>2, <1>3, <1>4, OneRun

(* The newest marker with a handle. *)
LEMMA NewestIs ==
    ASSUME NEW ms \in Seq(Marker), ClaimedIn(ms) # {}
    PROVE  LET n == CHOOSE p \in ClaimedIn(ms) : \A q \in ClaimedIn(ms) : q <= p
           IN  n \in ClaimedIn(ms) /\ \A q \in ClaimedIn(ms) : q <= n
<1> DEFINE S == ClaimedIn(ms)
           Above(x) == {y \in S : y >= x}
           Tails == {Above(x) : x \in S}
<1>1. S \subseteq DOMAIN ms /\ DOMAIN ms = 1..Len(ms) /\ Len(ms) \in Nat
  BY DEF ClaimedIn
<1> HIDE DEF S
<1>2. IsFiniteSet(S) /\ \A x \in S : x \in Nat
  <2>1. IsFiniteSet(1..Len(ms)) /\ S \subseteq 1..Len(ms)
    BY <1>1, FS_Interval
  <2> QED BY <1>1, <2>1, FS_Subset
<1>3. IsWellFoundedOn(StrictSubsetOrdering(S), SUBSET S)
  BY <1>2, FS_StrictSubsetOrderingWellFounded, FS_FiniteSubsetsOfFinite
<1>4. Tails \subseteq SUBSET S /\ Tails # {}
  BY DEF S
<1>5. \E t \in Tails : \A u \in Tails : ~ (<<u, t>> \in StrictSubsetOrdering(S))
  <2> HIDE DEF Tails
  <2> QED BY <1>3, <1>4, WFMin
<1>6. PICK x \in S : \A u \in Tails : ~ (<<u, Above(x)>> \in StrictSubsetOrdering(S))
  BY <1>5
<1>7. \A y \in S : y <= x
  <2> SUFFICES ASSUME NEW y \in S, y > x PROVE FALSE
    BY <1>2
  <2>1. x \in Nat /\ y \in Nat
    BY <1>2
  <2>2. \A z \in S : z >= y => z >= x
    BY <1>2, <2>1
  <2>3. Above(y) \subseteq Above(x) /\ Above(y) # Above(x)
    <3>1. x \in Above(x) /\ x \notin Above(y)
      BY <2>1
    <3> QED BY <2>2, <3>1
  <2>4. <<Above(y), Above(x)>> \in StrictSubsetOrdering(S)
    BY <2>3 DEF StrictSubsetOrdering
  <2> QED BY <1>6, <2>4
<1> QED
  BY <1>7 DEF S

LEMMA LastIs ==
    /\ Claimed = ClaimedIn(markers)
    /\ Claimed # {} => markers[Newest].handle = LastIn(markers)
    /\ \A pass : MarkerForPass(pass) = IF pass \in ClaimedIn(markers) THEN markers[pass].handle
                                       ELSE LastIn(markers)
BY DEF Claimed, ClaimedIn, Newest, LastIn, MarkerForPass

LEMMA MarkerForPassSound ==
    ASSUME SoundLedger, NEW pass
    PROVE  MarkerForPass(pass) \in Handle /\ SoundIn(commits, judged, MarkerForPass(pass))
<1>1. markers \in Seq(Marker) /\ MarkersSound(markers, commits, judged)
  BY Unchanged
<1>2. \A p \in ClaimedIn(markers) :
        markers[p].handle \in Handle /\ SoundIn(commits, judged, markers[p].handle)
  <2> SUFFICES ASSUME NEW p \in ClaimedIn(markers)
               PROVE  markers[p].handle \in Handle /\ SoundIn(commits, judged, markers[p].handle)
    OBVIOUS
  <2>1. p \in DOMAIN markers
    BY DEF ClaimedIn
  <2>2. markers[p] \in Marker
    BY <1>1, <2>1
  <2> QED BY <1>1, <2>1, <2>2 DEF MarkersSound, Marker
<1>3. LastIn(markers) \in Handle /\ SoundIn(commits, judged, LastIn(markers))
  <2>1. CASE ClaimedIn(markers) = {}
    BY <2>1, HandleTypes DEF LastIn, SoundIn
  <2>2. CASE ClaimedIn(markers) # {}
    BY <1>1, <1>2, <2>2, NewestIs DEF LastIn
  <2> QED BY <2>1, <2>2
<1> QED
  BY <1>2, <1>3, LastIs

(* What a sound handle names, when it reads. *)
LEMMA NamedSound ==
    ASSUME SoundLedger, NEW h \in Handle, SoundIn(commits, judged, h), h.at # "none"
    PROVE  Named(h) \in Generation /\ HonestIn(judged, Named(h))
<1>1. commits \in Seq(Commit) /\ CommitsSound(commits, judged)
  BY Unchanged
<1>2. CASE h.at = "ref"
  <2>1. h.commit \in DOMAIN commits /\ commits[h.commit].by = Us
    BY <1>2 DEF SoundIn, OursIn
  <2>2. commits[h.commit] \in Commit
    BY <1>1, <2>1
  <2> QED BY <1>1, <1>2, <2>1, <2>2 DEF CommitsSound, Named, Commit
<1>3. CASE h.at = "marker"
  BY <1>3, HandleForms DEF SoundIn, Named
<1> QED
  BY <1>2, <1>3, HandleForms

LEMMA RestoredType ==
    ASSUME SoundLedger, NEW r \in Runs, NEW n \in Restored(run[r].store, run[r].mk)
    PROVE  n \in {0} \cup DOMAIN commits
<1>1. SoundIn(commits, judged, run[r].mk) /\ ref \in {0} \cup DOMAIN commits
  BY Unchanged DEF SoundLedger, TypeOK
<1> QED
  BY <1>1 DEF Restored, SoundIn, OursIn

LEMMA RunStep ==
    ASSUME SoundLedger, NEW r \in Runs, NEW x \in Run, run' = [run EXCEPT ![r] = x],
           commits' = commits, judged' = judged, markers' = markers,
           RunSound(x, markers, commits, judged)
    PROVE  run' \in [Runs -> Run] /\ SoundInv' /\ markers' \in Seq(Marker)
<1>1. /\ Grows(commits, commits') /\ HeadsKept(markers, markers') /\ judged \subseteq judged'
      /\ CommitsSound(commits', judged') /\ MarkersSound(markers', commits', judged')
      /\ RunSound(x, markers', commits', judged') /\ markers' \in Seq(Marker)
  BY Unchanged
<1> QED
  BY <1>1, OneRun

LEMMA EventSpent == ASSUME TypeOK, Event PROVE used' \in 0..MaxEvents
BY LedgerAssumption DEF TypeOK, Event

(* The rest of the types, of a step that adds no commit. *)
LEMMA LedgerKept ==
    ASSUME SoundLedger, SoundInv', head' \in Heads, config' \in Stores, commits' = commits,
           objects' \subseteq objects, ref' \in {0} \cup DOMAIN commits, markers' \in Seq(Marker),
           run' \in [Runs -> Run], judged' \subseteq Heads \X Units \X Verdicts,
           disturbed' \in BOOLEAN, used' \in 0..MaxEvents
    PROVE  SoundLedger'
BY DEF SoundLedger, TypeOK

LEMMA StartSound ==
    ASSUME SoundLedger, NEW r \in Runs, Start(r)
    PROVE  SoundLedger'
<1> DEFINE n == Len(markers)
           resumes == n # 0 /\ markers[n].state # "complete" /\ markers[n].head = head
           pass == IF resumes THEN n ELSE n + 1
           m == [head |-> head, state |-> "started", handle |-> NoHandle, green |-> FALSE]
           x == [ReadyRun EXCEPT !.step = "read", !.pass = pass, !.head = head,
                   !.store = config, !.inline = config = "marker", !.mk = MarkerForPass(pass)]
<1>1. /\ run' = [run EXCEPT ![r] = x]
      /\ markers' = IF resumes THEN markers ELSE Append(markers, m)
      /\ head' = head /\ config' = config /\ commits' = commits /\ objects' = objects
      /\ ref' = ref /\ judged' = judged
  BY DEF Start
<1>2. /\ head \in Heads /\ config \in {"auto", "refs", "marker"} /\ markers \in Seq(Marker)
      /\ n \in Nat /\ DOMAIN markers = 1..n
  BY LedgerAssumption DEF SoundLedger, TypeOK
<1>3. MarkerForPass(pass) \in Handle /\ SoundIn(commits, judged, MarkerForPass(pass))
  BY MarkerForPassSound
<1>4. x \in Run /\ x.head = head /\ x.pass = pass /\ x.mk = MarkerForPass(pass) /\ x.step = "read"
      /\ x.next = NoHandle /\ x.parent = 0 /\ x.recs = Unread
  <2>1. (config = "marker") \in BOOLEAN /\ pass \in Nat /\ "read" \in Steps
    BY <1>2 DEF Steps
  <2> HIDE DEF pass
  <2> QED BY <1>2, <1>3, <2>1, ReadyType DEF Run, ReadyRun
<1>5. m \in Marker /\ m.head = head /\ m.handle = NoHandle /\ m.green = FALSE
  BY <1>2, HandleTypes DEF Marker
<1> HIDE DEF x, m
<1>6. /\ markers' \in Seq(Marker) /\ HeadsKept(markers, markers')
      /\ pass \in DOMAIN markers' /\ markers'[pass].head = head
      /\ MarkersSound(markers', commits, judged)
  <2>1. MarkersSound(markers, commits, judged)
    BY Unchanged
  <2>2. CASE resumes
    BY <1>1, <1>2, <2>1, <2>2 DEF HeadsKept
  <2>3. CASE ~resumes
    <3>1. markers' = Append(markers, m)
      BY <1>1, <2>3
    <3>2. /\ markers' \in Seq(Marker) /\ markers'[n + 1] = m /\ Len(markers') = n + 1
          /\ \A p \in DOMAIN markers : markers'[p] = markers[p]
      BY <1>2, <1>5, <3>1, AppendProperties
    <3>3. DOMAIN markers' = DOMAIN markers \cup {n + 1}
      BY <1>2, <3>2
    <3>4. SoundIn(commits, judged, NoHandle)
      BY HandleTypes DEF SoundIn
    <3>5. pass = n + 1
      BY <2>3
    <3> HIDE DEF n, pass, resumes
    <3>6. MarkersSound(markers', commits, judged)
      BY <1>5, <2>1, <3>2, <3>3, <3>4 DEF MarkersSound
    <3> QED BY <1>5, <3>2, <3>3, <3>5, <3>6 DEF HeadsKept
  <2> QED BY <2>2, <2>3
<1> HIDE DEF n, pass, resumes
<1>7. RunSound(x, markers', commits, judged)
  <2>1. SoundIn(commits, judged, NoHandle)
    BY HandleTypes DEF SoundIn
  <2> QED BY <1>3, <1>4, <1>6, <2>1, ReadyType DEF RunSound
<1>8. run' \in [Runs -> Run] /\ SoundInv'
  <2>1. /\ Grows(commits, commits') /\ judged \subseteq judged' /\ CommitsSound(commits', judged')
        /\ MarkersSound(markers', commits', judged') /\ RunSound(x, markers', commits', judged')
    BY <1>1, <1>6, <1>7, Unchanged
  <2> QED BY <1>1, <1>4, <1>6, <2>1, OneRun
<1>9. used' \in 0..MaxEvents /\ disturbed' \in BOOLEAN
  <2>1. used' = used \/ Event
    BY DEF Start
  <2>2. disturbed' \in BOOLEAN
    BY DEF Start
  <2> QED BY <2>1, <2>2, EventSpent DEF SoundLedger, TypeOK
<1>10. /\ head' \in Heads /\ config' \in Stores /\ objects' \subseteq objects
       /\ ref' \in {0} \cup DOMAIN commits /\ judged' \subseteq Heads \X Units \X Verdicts
  BY <1>1 DEF SoundLedger, TypeOK
<1> QED
  BY <1>1, <1>6, <1>8, <1>9, <1>10, LedgerKept

(* What a step leaves of the forge, as the type of the ledger asks. *)
LEMMA ForgeTypes ==
    ASSUME SoundLedger
    PROVE  /\ head \in Heads /\ config \in Stores /\ objects \subseteq objects
           /\ ref \in {0} \cup DOMAIN commits /\ judged \subseteq Heads \X Units \X Verdicts
           /\ disturbed \in BOOLEAN /\ used \in 0..MaxEvents
BY DEF SoundLedger, TypeOK

LEMMA ReadSound ==
    ASSUME SoundLedger, NEW r \in Runs, Read(r)
    PROVE  SoundLedger'
<1> DEFINE h == run[r].mk
           outcome == Outcome(run[r].store, h)
           current == outcome = "generation" /\ Resumes(r, Named(h))
           x == [run[r] EXCEPT !.step = "parent",
                   !.recs = IF current THEN Named(h).recs ELSE Unread,
                   !.supplied = IF current THEN Named(h).supplied ELSE {}]
<1>1. /\ run[r] \in Run /\ RunSound(run[r], markers, commits, judged) /\ Active(r)
      /\ h \in Handle /\ SoundIn(commits, judged, h)
  BY Unchanged DEF Run, Read, At, Active
<1>2. markers' \in Seq(Marker) /\ run' \in [Runs -> Run] /\ SoundInv'
  <2>1. CASE outcome = "corrupt"
    <3>1. ReportFatal(r) /\ commits' = commits /\ judged' = judged
      BY <2>1 DEF Read
    <3> QED BY <1>1, <3>1, ReportFatalSound
  <2>2. CASE outcome # "corrupt"
    <3>1. run' = [run EXCEPT ![r] = x] /\ markers' = markers /\ commits' = commits /\ judged' = judged
      BY <2>2 DEF Read
    <3>2. current => /\ Named(h) \in Generation /\ HonestIn(judged, Named(h))
                     /\ Named(h).head = run[r].head
      <4>1. current => h.at # "none"
        BY DEF Outcome
      <4> QED BY <1>1, <4>1, NamedSound DEF Resumes
    <3>3. x \in Run /\ RunSound(x, markers, commits, judged)
      <4> DEFINE recs == IF current THEN Named(h).recs ELSE Unread
                 supplied == IF current THEN Named(h).supplied ELSE {}
      <4>1. recs \in Records /\ supplied \in SUBSET Units
        BY <3>2, ReadyType DEF Generation
      <4>2. \A u \in Units : recs[u] = "outstanding" \/ <<run[r].head, u, recs[u]>> \in judged
        BY <3>2, ReadyType DEF HonestIn
      <4>3. x = [run[r] EXCEPT !.step = "parent", !.recs = recs, !.supplied = supplied]
        OBVIOUS
      <4> HIDE DEF recs, supplied, x, current, outcome, h
      <4>4. x \in Run
        BY <1>1, <4>1, <4>3 DEF Run, Steps
      <4>5. RunSound(x, markers, commits, judged)
        BY <1>1, <4>2, <4>3 DEF RunSound, Run, Active
      <4> QED BY <4>4, <4>5
    <3> HIDE DEF x
    <3> QED BY <3>1, <3>3, RunStep
  <2> QED BY <2>1, <2>2
<1>3. /\ head' = head /\ config' = config /\ commits' = commits /\ objects' = objects
      /\ judged' = judged /\ disturbed' = disturbed /\ used' = used
      /\ ref' \in Restored(run[r].store, run[r].mk)
  BY DEF Read
<1>4. ref' \in {0} \cup DOMAIN commits
  BY <1>3, RestoredType
<1> QED
  BY <1>2, <1>3, <1>4, ForgeTypes, LedgerKept

LEMMA ParentForSound ==
    ASSUME SoundLedger, NEW r \in Runs, ParentFor(r)
    PROVE  SoundLedger'
<1> DEFINE h == run[r].mk
           outcome == Outcome(run[r].store, h)
           x == [run[r] EXCEPT !.step = IF run[r].inline THEN "inline" ELSE "store",
                   !.parent = ParentOf(r, outcome)]
<1>1. /\ run[r] \in Run /\ RunSound(run[r], markers, commits, judged) /\ Active(r)
      /\ h \in Handle /\ SoundIn(commits, judged, h)
  BY Unchanged DEF Run, ParentFor, At, Active
<1>2. markers' \in Seq(Marker) /\ run' \in [Runs -> Run] /\ SoundInv'
  <2>1. CASE outcome = "corrupt"
    <3>1. ReportFatal(r) /\ commits' = commits /\ judged' = judged
      BY <2>1 DEF ParentFor
    <3> QED BY <1>1, <3>1, ReportFatalSound
  <2>2. CASE outcome # "corrupt"
    <3>1. run' = [run EXCEPT ![r] = x] /\ markers' = markers /\ commits' = commits /\ judged' = judged
      BY <2>2 DEF ParentFor
    <3>2. /\ ParentOf(r, outcome) = 0 \/ OursIn(commits, ParentOf(r, outcome))
          /\ ParentOf(r, outcome) \in 0..MaxCommits
      <4>1. h.at = "ref" => h.commit \in 1..MaxCommits /\ OursIn(commits, h.commit)
        BY <1>1, HandleForms DEF SoundIn
      <4> QED BY <4>1, ReadyType DEF ParentOf
    <3>3. x \in Run /\ RunSound(x, markers, commits, judged)
      <4>1. x \in Run
        BY <1>1, <3>2 DEF Run, Steps
      <4>2. RunSound(x, markers, commits, judged)
        BY <1>1, <3>2 DEF RunSound, Run, Active
      <4> QED BY <4>1, <4>2
    <3> HIDE DEF x
    <3> QED BY <3>1, <3>3, RunStep
  <2> QED BY <2>1, <2>2
<1>3. /\ head' = head /\ config' = config /\ commits' = commits /\ objects' = objects
      /\ judged' = judged /\ disturbed' = disturbed /\ used' = used
      /\ ref' \in Restored(run[r].store, run[r].mk)
  BY DEF ParentFor
<1>4. ref' \in {0} \cup DOMAIN commits
  BY <1>3, RestoredType
<1> QED
  BY <1>2, <1>3, <1>4, ForgeTypes, LedgerKept

LEMMA StoreObjectsSound ==
    ASSUME SoundLedger, NEW r \in Runs, StoreObjects(r)
    PROVE  SoundLedger'
<1> DEFINE c == [of |-> Candidate(r), parent |-> run[r].parent, by |-> Us]
           k == Len(commits) + 1
           x == [run[r] EXCEPT !.step = "move", !.next = RefHandle(k)]
<1>1. /\ run[r] \in Run /\ RunSound(run[r], markers, commits, judged) /\ Active(r)
  BY Unchanged DEF StoreObjects, At, Active
<1>2. CASE run[r].parent \notin objects \cup {0}
  <2>1. /\ ReportFatal(r) /\ commits' = commits /\ objects' = objects
        /\ head' = head /\ config' = config /\ ref' = ref
        /\ judged' = judged /\ disturbed' = disturbed /\ used' = used
    BY <1>2 DEF StoreObjects
  <2>2. markers' \in Seq(Marker) /\ run' \in [Runs -> Run] /\ SoundInv'
    BY <1>1, <2>1, ReportFatalSound
  <2> QED BY <2>1, <2>2, ForgeTypes, LedgerKept
<1>3. CASE run[r].parent \in objects \cup {0}
  <2>1. /\ commits' = Append(commits, c) /\ Len(commits) < MaxCommits
        /\ objects' = objects \cup {Len(commits')} /\ markers' = markers
        /\ run' = [run EXCEPT ![r].step = "move", ![r].next = RefHandle(Len(commits'))]
        /\ head' = head /\ config' = config /\ ref' = ref
        /\ judged' = judged /\ disturbed' = disturbed /\ used' = used
    BY <1>3 DEF StoreObjects
  <2>2. /\ Candidate(r) \in Generation /\ HonestIn(judged, Candidate(r))
    BY <1>1, CandidateType DEF SoundLedger, RunSound, HonestIn
  <2>3. c \in Commit /\ c.parent \in {0} \cup DOMAIN commits
        /\ (c.by = Us => HonestIn(judged, c.of) /\ (c.parent = 0 \/ OursIn(commits, c.parent)))
        /\ c.by = Us
    BY <1>1, <2>2 DEF Commit, Run, RunSound, OursIn
  <2>4. commits \in Seq(Commit) /\ CommitsSound(commits, judged)
    BY Unchanged
  <2> HIDE DEF c
  <2>5. /\ commits' \in Seq(Commit) /\ Len(commits') = k /\ Grows(commits, commits')
        /\ DOMAIN commits' = DOMAIN commits \cup {k} /\ commits'[k] = c
        /\ CommitsSound(commits', judged)
    BY <2>1, <2>3, <2>4, CommitAdded
  <2>6. k \in 1..MaxCommits /\ k <= MaxCommits
    BY <2>1, <2>4, LedgerAssumption
  <2>7. run' = [run EXCEPT ![r] = x]
    BY <2>1, <2>5
  <2>8. x \in Run /\ RunSound(x, markers, commits', judged)
    <3>1. RefHandle(k) \in Handle /\ RefHandle(k).at = "ref" /\ RefHandle(k).commit = k
      BY <2>6, HandleTypes
    <3>2. SoundIn(commits', judged, RefHandle(k))
      BY <2>3, <2>5, <3>1 DEF SoundIn, OursIn
    <3>3. RunSound(run[r], markers, commits', judged)
      BY <1>1, <2>5, SoundGrows DEF HeadsKept
    <3> HIDE DEF k
    <3>4. x \in Run
      BY <1>1, <3>1 DEF Run, Steps
    <3>5. RunSound(x, markers, commits', judged)
      BY <1>1, <3>1, <3>2, <3>3 DEF RunSound, Run, Active
    <3> QED BY <3>4, <3>5
  <2> HIDE DEF x, k
  <2>9. HeadsKept(markers, markers') /\ MarkersSound(markers', commits', judged')
        /\ judged \subseteq judged' /\ CommitsSound(commits', judged')
        /\ RunSound(x, markers', commits', judged')
    BY <2>1, <2>5, <2>8, Unchanged, SoundGrows
  <2>10. run' \in [Runs -> Run] /\ SoundInv'
    BY <2>5, <2>7, <2>8, <2>9, OneRun
  <2> QED BY <2>1, <2>5, <2>6, <2>10 DEF SoundLedger, TypeOK
<1> QED
  BY <1>2, <1>3

LEMMA MoveRefSound ==
    ASSUME SoundLedger, NEW r \in Runs, MoveRef(r)
    PROVE  SoundLedger'
<1> DEFINE x == [run[r] EXCEPT !.step = "adopt"]
<1>1. /\ run[r] \in Run /\ RunSound(run[r], markers, commits, judged)
      /\ run[r].step = "move"
      /\ run' = [run EXCEPT ![r] = x] /\ ref' = run[r].next.commit
      /\ head' = head /\ config' = config /\ commits' = commits /\ objects' = objects
      /\ markers' = markers /\ judged' = judged /\ disturbed' = disturbed /\ used' = used
  BY Unchanged DEF MoveRef, At
<1>2. ref' \in {0} \cup DOMAIN commits
  BY <1>1 DEF RunSound, SoundIn, OursIn
<1>3. x \in Run /\ RunSound(x, markers, commits, judged)
  BY <1>1 DEF RunSound, Run, Steps
<1> HIDE DEF x
<1>4. markers' \in Seq(Marker) /\ run' \in [Runs -> Run] /\ SoundInv'
  BY <1>1, <1>3, RunStep
<1> QED
  BY <1>1, <1>2, <1>4, ForgeTypes, LedgerKept

LEMMA RefusedSound ==
    ASSUME SoundLedger, NEW r \in Runs, Refused(r)
    PROVE  SoundLedger'
<1> DEFINE x == [run[r] EXCEPT !.step = "inline", !.inline = TRUE, !.next = NoHandle]
<1>1. /\ run[r] \in Run /\ RunSound(run[r], markers, commits, judged) /\ Active(r)
      /\ head' = head /\ config' = config /\ commits' = commits /\ objects' = objects
      /\ ref' = ref /\ judged' = judged /\ disturbed' = disturbed /\ used' \in 0..MaxEvents
  BY Unchanged, EventSpent DEF Refused, Active, SoundLedger
<1>2. markers' \in Seq(Marker) /\ run' \in [Runs -> Run] /\ SoundInv'
  <2>1. CASE ReportFatal(r)
    BY <1>1, <2>1, ReportFatalSound
  <2>2. CASE ~ReportFatal(r)
    <3>1. run' = [run EXCEPT ![r] = x] /\ markers' = markers
      BY <2>2 DEF Refused
    <3>2. SoundIn(commits, judged, NoHandle)
      BY HandleTypes DEF SoundIn
    <3>3. x \in Run
      BY <1>1, HandleTypes DEF Run, Steps
    <3>4. RunSound(x, markers, commits, judged)
      BY <1>1, <3>2 DEF RunSound, Run, Active
    <3> HIDE DEF x
    <3> QED BY <1>1, <3>1, <3>3, <3>4, RunStep
  <2> QED BY <2>1, <2>2
<1> QED
  BY <1>1, <1>2, ForgeTypes, LedgerKept

LEMMA MoveUnansweredSound ==
    ASSUME SoundLedger, NEW r \in Runs, MoveUnanswered(r)
    PROVE  SoundLedger'
<1>1. /\ RunSound(run[r], markers, commits, judged) /\ Active(r) /\ run[r].step = "move"
      /\ head' = head /\ config' = config /\ commits' = commits /\ objects' = objects
      /\ ref' = run[r].next.commit /\ ReportFatal(r)
      /\ judged' = judged /\ disturbed' = disturbed /\ used' \in 0..MaxEvents
  BY Unchanged, EventSpent DEF MoveUnanswered, Active, At, SoundLedger
<1>2. ref' \in {0} \cup DOMAIN commits
  BY <1>1 DEF RunSound, SoundIn, OursIn
<1>3. markers' \in Seq(Marker) /\ run' \in [Runs -> Run] /\ SoundInv'
  BY <1>1, ReportFatalSound
<1> QED
  BY <1>1, <1>2, <1>3, ForgeTypes, LedgerKept

LEMMA PublishInlineSound ==
    ASSUME SoundLedger, NEW r \in Runs, PublishInline(r)
    PROVE  SoundLedger'
<1>1. /\ run[r] \in Run /\ RunSound(run[r], markers, commits, judged) /\ Active(r)
      /\ head' = head /\ config' = config /\ commits' = commits /\ objects' = objects
      /\ ref' = ref /\ judged' = judged /\ disturbed' = disturbed /\ used' = used
      /\ markers' = markers
  BY Unchanged DEF PublishInline, Active, At, forge
<1>2. \E x \in Run : run' = [run EXCEPT ![r] = x] /\ RunSound(x, markers, commits, judged)
  <2>1. CASE run' = [run EXCEPT ![r].step = "halt"]
    <3> DEFINE x == [run[r] EXCEPT !.step = "halt"]
    <3>1. x \in Run /\ RunSound(x, markers, commits, judged)
      BY <1>1 DEF Run, Steps, RunSound, Active
    <3>2. run' = [run EXCEPT ![r] = x]
      BY <2>1
    <3> HIDE DEF x
    <3> QED BY <3>1, <3>2
  <2>2. ASSUME NEW g \in Fitted(Candidate(r)),
               run' = [run EXCEPT ![r].step = "adopt", ![r].next = MarkerHandle(g)]
        PROVE  \E x \in Run : run' = [run EXCEPT ![r] = x] /\ RunSound(x, markers, commits, judged)
    <3> DEFINE x == [run[r] EXCEPT !.step = "adopt", !.next = MarkerHandle(g)]
    <3>1. g \in Generation /\ HonestIn(judged, g)
      BY <1>1, CandidateType, FittedKeeps DEF SoundLedger, HonestIn, RunSound
    <3>2. /\ MarkerHandle(g) \in Handle /\ MarkerHandle(g).at = "marker"
          /\ SoundIn(commits, judged, MarkerHandle(g))
      BY <3>1, HandleTypes DEF SoundIn
    <3>3. x \in Run
      BY <1>1, <3>2 DEF Run, Steps
    <3>4. RunSound(x, markers, commits, judged)
      BY <1>1, <3>2 DEF RunSound, Run, Active
    <3>5. run' = [run EXCEPT ![r] = x]
      BY <2>2
    <3> HIDE DEF x
    <3> QED BY <3>3, <3>4, <3>5
  <2> QED BY <2>1, <2>2 DEF PublishInline
<1>3. markers' \in Seq(Marker) /\ run' \in [Runs -> Run] /\ SoundInv'
  BY <1>1, <1>2, RunStep
<1> QED
  BY <1>1, <1>3, ForgeTypes, LedgerKept

LEMMA AdoptSound ==
    ASSUME SoundLedger, NEW r \in Runs, Adopt(r)
    PROVE  SoundLedger'
<1> DEFINE x == [run[r] EXCEPT !.step = IF run[r].opened THEN "edit" ELSE "judge",
                   !.opened = TRUE, !.mk = run[r].next, !.next = NoHandle, !.parent = 0]
<1>1. /\ run[r] \in Run /\ RunSound(run[r], markers, commits, judged) /\ Active(r)
      /\ head' = head /\ config' = config /\ commits' = commits /\ objects' = objects
      /\ ref' = ref /\ judged' = judged /\ disturbed' = disturbed /\ used' = used
  BY Unchanged DEF Adopt, Active, At
<1>2. markers' \in Seq(Marker) /\ run' \in [Runs -> Run] /\ SoundInv'
  <2>1. CASE head # run[r].head
    <3>1. ReportFatal(r)
      BY <2>1 DEF Adopt
    <3> QED BY <1>1, <3>1, ReportFatalSound
  <2>2. CASE head = run[r].head
    <3>1. run' = [run EXCEPT ![r] = x] /\ markers' = markers
      BY <2>2 DEF Adopt
    <3>2. SoundIn(commits, judged, NoHandle)
      BY HandleTypes DEF SoundIn
    <3>3. x \in Run
      BY <1>1, HandleTypes, ReadyType DEF Run, Steps
    <3>4. RunSound(x, markers, commits, judged)
      BY <1>1, <3>2 DEF RunSound, Run, Active
    <3> HIDE DEF x
    <3> QED BY <1>1, <3>1, <3>3, <3>4, RunStep
  <2> QED BY <2>1, <2>2
<1> QED
  BY <1>1, <1>2, ForgeTypes, LedgerKept

(* A call's answer becomes a record as it becomes part of the history. *)
LEMMA JudgeSound ==
    ASSUME SoundLedger, NEW r \in Runs, Judge(r)
    PROVE  SoundLedger'
<1>1. /\ run[r] \in Run /\ RunSound(run[r], markers, commits, judged) /\ Active(r)
      /\ head' = head /\ config' = config /\ commits' = commits /\ objects' = objects
      /\ ref' = ref /\ markers' = markers /\ disturbed' = disturbed /\ used' = used
  BY Unchanged DEF Judge, Active, At, forge
<1>0. PICK batch \in (SUBSET Outstanding(r)) \ {{}} : \E answer \in [batch -> Verdicts] :
        /\ run' = [run EXCEPT ![r] = [run[r] EXCEPT
             !.step = "parent",
             !.recs = [u \in Units |-> IF u \in batch THEN answer[u] ELSE run[r].recs[u]],
             !.supplied = run[r].supplied \cup batch]]
        /\ judged' = judged \cup {<<run[r].head, u, answer[u]>> : u \in batch}
  BY DEF Judge
<1>2. PICK answer \in [batch -> Verdicts] :
        /\ run' = [run EXCEPT ![r] = [run[r] EXCEPT
             !.step = "parent",
             !.recs = [u \in Units |-> IF u \in batch THEN answer[u] ELSE run[r].recs[u]],
             !.supplied = run[r].supplied \cup batch]]
        /\ judged' = judged \cup {<<run[r].head, u, answer[u]>> : u \in batch}
  BY <1>0
<1> DEFINE recs == [u \in Units |-> IF u \in batch THEN answer[u] ELSE run[r].recs[u]]
           supplied == run[r].supplied \cup batch
           x == [run[r] EXCEPT !.step = "parent", !.recs = recs, !.supplied = supplied]
<1>3. batch \subseteq Units /\ \A u \in batch : answer[u] \in Verdicts
  BY <1>2 DEF Outstanding
<1>4. recs \in Records /\ supplied \in SUBSET Units
  BY <1>1, <1>3 DEF Records, Run
<1>5. judged \subseteq judged' /\ judged' \subseteq Heads \X Units \X Verdicts
  <2>1. \A u \in batch : <<run[r].head, u, answer[u]>> \in Heads \X Units \X Verdicts
    BY <1>1, <1>3 DEF Run
  <2> QED BY <1>2, <2>1, ForgeTypes
<1>6. \A u \in Units : recs[u] = "outstanding" \/ <<run[r].head, u, recs[u]>> \in judged'
  <2> SUFFICES ASSUME NEW u \in Units
               PROVE  recs[u] = "outstanding" \/ <<run[r].head, u, recs[u]>> \in judged'
    OBVIOUS
  <2>1. CASE u \in batch
    BY <1>2, <2>1
  <2>2. CASE u \notin batch
    BY <1>1, <1>5, <2>2 DEF RunSound
  <2> QED BY <2>1, <2>2
<1>7. run' = [run EXCEPT ![r] = x]
  BY <1>2
<1>8. Grows(commits, commits') /\ HeadsKept(markers, markers') /\ markers' \in Seq(Marker)
      /\ CommitsSound(commits', judged') /\ MarkersSound(markers', commits', judged')
      /\ RunSound(run[r], markers', commits', judged')
  BY <1>1, <1>5, Unchanged, SoundGrows, CommitsGrow
<1> HIDE DEF recs, supplied
<1>9. x \in Run
  BY <1>1, <1>4 DEF Run, Steps
<1>10. RunSound(x, markers', commits', judged')
  BY <1>1, <1>4, <1>6, <1>8 DEF RunSound, Run, Active
<1> HIDE DEF x
<1>11. run' \in [Runs -> Run] /\ SoundInv'
  BY <1>5, <1>7, <1>8, <1>9, <1>10, OneRun
<1> QED
  BY <1>1, <1>5, <1>8, <1>11, ForgeTypes, LedgerKept

(* A pass that ends with a claim edit. *)
LEMMA EndsSound ==
    ASSUME SoundLedger, NEW r \in Runs, Active(r), End(r), commits' = commits, judged' = judged,
           NEW state \in {"started", "incomplete", "complete"}, NEW green \in BOOLEAN,
           green => \A u \in Units : <<run[r].head, u, "no_issue">> \in judged,
           EditClaim(r, state, green)
    PROVE  markers' \in Seq(Marker) /\ run' \in [Runs -> Run] /\ SoundInv'
<1> DEFINE x == [ReadyRun EXCEPT !.step = "done"]
<1>1. markers' \in Seq(Marker) /\ HeadsKept(markers, markers') /\ MarkersSound(markers', commits, judged)
  BY EditSound
<1>2. x \in Run /\ RunSound(x, markers', commits', judged')
  BY ReadyType
<1>3. run' = [run EXCEPT ![r] = x]
  BY DEF End
<1>4. /\ Grows(commits, commits') /\ judged \subseteq judged' /\ CommitsSound(commits', judged')
      /\ MarkersSound(markers', commits', judged')
  BY <1>1, Unchanged
<1> HIDE DEF x
<1> QED
  BY <1>1, <1>2, <1>3, <1>4, OneRun

LEMMA EditStepSound ==
    ASSUME SoundLedger, NEW r \in Runs, Edit(r)
    PROVE  SoundLedger'
<1> DEFINE x == [run[r] EXCEPT !.step = "judge"]
<1>1. /\ run[r] \in Run /\ RunSound(run[r], markers, commits, judged) /\ Active(r)
      /\ head' = head /\ config' = config /\ commits' = commits /\ objects' = objects
      /\ ref' = ref /\ judged' = judged /\ disturbed' = disturbed /\ used' = used
  BY Unchanged DEF Edit, Active, At
<1>2. markers' \in Seq(Marker) /\ run' \in [Runs -> Run] /\ SoundInv'
  <2>1. CASE ReportFatal(r)
    BY <1>1, <2>1, ReportFatalSound
  <2>2. CASE EditClaim(r, "started", FALSE) /\ run' = [run EXCEPT ![r].step = "judge"]
    <3>1. markers' \in Seq(Marker) /\ HeadsKept(markers, markers') /\ MarkersSound(markers', commits, judged)
      BY <1>1, <2>2, EditSound
    <3>2. RunSound(run[r], markers', commits, judged)
      BY <1>1, <3>1, Unchanged, SoundGrows
    <3>3. x \in Run /\ RunSound(x, markers', commits, judged)
      BY <1>1, <3>2 DEF RunSound, Run, Steps, Active
    <3>4. run' = [run EXCEPT ![r] = x]
      BY <2>2
    <3>5. /\ Grows(commits, commits') /\ judged \subseteq judged' /\ CommitsSound(commits', judged')
          /\ MarkersSound(markers', commits', judged') /\ RunSound(x, markers', commits', judged')
      BY <1>1, <3>1, <3>3, Unchanged
    <3> HIDE DEF x
    <3> QED BY <3>1, <3>3, <3>4, <3>5, OneRun
  <2> QED BY <2>1, <2>2 DEF Edit
<1> QED
  BY <1>1, <1>2, ForgeTypes, LedgerKept

(* Green is given for a generation that reads, of this revision. *)
LEMMA ConvergedIsJudged ==
    ASSUME SoundLedger, NEW r \in Runs
    PROVE  /\ Converged(r) \in BOOLEAN
           /\ Converged(r) => \A u \in Units : <<run[r].head, u, "no_issue">> \in judged
<1>1. Converged(r) \in BOOLEAN
  BY DEF Converged
<1>2. ASSUME Converged(r)
      PROVE  \A u \in Units : <<run[r].head, u, "no_issue">> \in judged
  <2>1. run[r].mk.at # "none" /\ run[r].mk \in Handle /\ SoundIn(commits, judged, run[r].mk)
    BY <1>2, Unchanged DEF Converged, Outcome, Run
  <2>2. HonestIn(judged, Named(run[r].mk))
    BY <2>1, NamedSound
  <2> QED BY <1>2, <2>2 DEF Converged, HonestIn
<1> QED
  BY <1>1, <1>2

LEMMA SettleSound ==
    ASSUME SoundLedger, NEW r \in Runs, Settle(r)
    PROVE  SoundLedger'
<1>1. /\ Active(r)
      /\ head' = head /\ config' = config /\ commits' = commits /\ objects' = objects
      /\ judged' = judged /\ disturbed' = disturbed /\ used' = used
      /\ ref' \in Restored(run[r].store, run[r].mk)
      /\ End(r) /\ EditClaim(r, "complete", Converged(r))
  BY DEF Settle, Active, At
<1>2. markers' \in Seq(Marker) /\ run' \in [Runs -> Run] /\ SoundInv'
  <2> DEFINE green == Converged(r)
  <2>1. /\ green \in BOOLEAN
        /\ green => \A u \in Units : <<run[r].head, u, "no_issue">> \in judged
        /\ EditClaim(r, "complete", green)
    BY <1>1, ConvergedIsJudged
  <2> HIDE DEF green
  <2> QED BY <1>1, <2>1, EndsSound
<1>3. ref' \in {0} \cup DOMAIN commits
  BY <1>1, RestoredType
<1> QED
  BY <1>1, <1>2, <1>3, ForgeTypes, LedgerKept

LEMMA HaltSound ==
    ASSUME SoundLedger, NEW r \in Runs, Halt(r)
    PROVE  SoundLedger'
<1>1. /\ Active(r) /\ End(r) /\ EditClaim(r, "incomplete", FALSE)
      /\ head' = head /\ config' = config /\ commits' = commits /\ objects' = objects
      /\ ref' = ref /\ judged' = judged /\ disturbed' = disturbed /\ used' = used
  BY DEF Halt, Active, At
<1>2. markers' \in Seq(Marker) /\ run' \in [Runs -> Run] /\ SoundInv'
  BY <1>1, EndsSound
<1> QED
  BY <1>1, <1>2, ForgeTypes, LedgerKept

LEMMA FailSound ==
    ASSUME SoundLedger, NEW r \in Runs, Fail(r)
    PROVE  SoundLedger'
<1>1. /\ Active(r) /\ ReportFatal(r)
      /\ head' = head /\ config' = config /\ commits' = commits /\ objects' = objects
      /\ ref' = ref /\ judged' = judged /\ disturbed' = disturbed /\ used' \in 0..MaxEvents
  BY EventSpent DEF Fail, SoundLedger
<1>2. markers' \in Seq(Marker) /\ run' \in [Runs -> Run] /\ SoundInv'
  BY <1>1, ReportFatalSound
<1> QED
  BY <1>1, <1>2, ForgeTypes, LedgerKept

(***************************************************************************)
(* What others do, and the induction.                                      *)
(***************************************************************************)
LEMMA SoundUnchanged ==
    ASSUME SoundLedger, commits' = commits, judged' = judged, markers' = markers, run' = run
    PROVE  SoundInv' /\ markers' \in Seq(Marker) /\ run' \in [Runs -> Run]
BY DEF SoundLedger, SoundInv, TypeOK

LEMMA WorldSound ==
    ASSUME SoundLedger, Push \/ Reconfigure \/ DeleteRef \/ Collect \/ UNCHANGED vars
    PROVE  SoundLedger'
<1>1. /\ commits' = commits /\ judged' = judged /\ markers' = markers /\ run' = run
      /\ used' \in 0..MaxEvents
  BY EventSpent, ForgeTypes DEF Push, Reconfigure, DeleteRef, Collect, vars, SoundLedger
<1>2. head' \in Heads
  BY LedgerAssumption, ForgeTypes DEF Push, Reconfigure, DeleteRef, Collect, vars, Heads
<1>3. config' \in Stores /\ objects' \subseteq objects /\ disturbed' \in BOOLEAN
  BY ForgeTypes DEF Push, Reconfigure, DeleteRef, Collect, vars
<1>4. ref' \in {0} \cup DOMAIN commits
  BY ForgeTypes DEF Push, Reconfigure, DeleteRef, Collect, vars
<1>5. judged' \subseteq Heads \X Units \X Verdicts
  BY <1>1, ForgeTypes
<1> QED
  BY <1>1, <1>2, <1>3, <1>4, <1>5, SoundUnchanged, LedgerKept

LEMMA ForeignMoveSound ==
    ASSUME SoundLedger, ForeignMove
    PROVE  SoundLedger'
<1> DEFINE g == [head |-> head, form |-> "full", supplied |-> Units,
                 recs |-> [u \in Units |-> "no_issue"]]
           c == [parent |-> 0, by |-> Others, of |-> g]
           k == Len(commits) + 1
<1>1. /\ commits' = Append(commits, c) /\ Len(commits) < MaxCommits
      /\ objects' = objects \cup {Len(commits')} /\ ref' = Len(commits')
      /\ head' = head /\ config' = config /\ markers' = markers /\ run' = run
      /\ judged' = judged /\ disturbed' = TRUE /\ used' \in 0..MaxEvents
  BY EventSpent DEF ForeignMove, SoundLedger
<1>2. g \in Generation
  BY ForgeTypes DEF Generation, Records, Verdicts
<1> HIDE DEF g
<1>3. c \in Commit /\ c.parent = 0 /\ c.by = Others /\ Us # Others
  BY <1>2, ReadyType DEF Commit, Us, Others
<1> HIDE DEF c
<1>4. commits \in Seq(Commit) /\ CommitsSound(commits, judged)
  BY Unchanged
<1>5. /\ commits' \in Seq(Commit) /\ Len(commits') = k /\ Grows(commits, commits')
      /\ DOMAIN commits' = DOMAIN commits \cup {k} /\ CommitsSound(commits', judged)
  BY <1>1, <1>3, <1>4, CommitAdded
<1>6. k <= MaxCommits
  BY <1>1, <1>4, LedgerAssumption
<1>7. SoundInv'
  <2>1. HeadsKept(markers, markers') /\ MarkersSound(markers', commits', judged')
    BY <1>1, <1>5, Unchanged, SoundGrows
  <2>2. \A r \in Runs : RunSound(run'[r], markers', commits', judged')
    BY <1>1, <1>5, <2>1, Unchanged, SoundGrows
  <2> QED BY <1>1, <1>5, <2>1, <2>2 DEF SoundInv
<1> HIDE DEF k
<1> QED
  BY <1>1, <1>5, <1>6, <1>7 DEF SoundLedger, TypeOK

LEMMA LedgerInit == Init => SoundLedger
<1> SUFFICES ASSUME Init PROVE SoundLedger
  OBVIOUS
<1>1. commits = <<>> /\ markers = <<>> /\ run = [r \in Runs |-> ReadyRun] /\ judged = {}
      /\ DOMAIN commits = {} /\ DOMAIN markers = {} /\ Len(commits) = 0
  BY DEF Init
<1>2. SoundInv
  BY <1>1, ReadyType DEF SoundInv, CommitsSound, MarkersSound
<1>3. TypeOK
  <2>1. /\ head \in Heads /\ config \in Stores /\ objects = {} /\ ref = 0 /\ disturbed = FALSE
        /\ used = 0 /\ used \in 0..MaxEvents /\ 0 <= MaxCommits
    BY ReadyType, LedgerAssumption DEF Init
  <2>2. run \in [Runs -> Run]
    BY <1>1, ReadyType
  <2>3. commits \in Seq(Commit) /\ markers \in Seq(Marker)
    BY <1>1, EmptySeq
  <2> QED BY <1>1, <2>1, <2>2, <2>3 DEF TypeOK
<1> QED
  BY <1>2, <1>3 DEF SoundLedger

LEMMA LedgerStep ==
    ASSUME SoundLedger, [Next]_vars
    PROVE  SoundLedger'
<1>1. ASSUME NEW r \in Runs,
             \/ Start(r) \/ Read(r) \/ ParentFor(r) \/ StoreObjects(r) \/ MoveRef(r)
             \/ Refused(r) \/ MoveUnanswered(r) \/ PublishInline(r) \/ Adopt(r) \/ Judge(r)
             \/ Edit(r) \/ Settle(r) \/ Halt(r) \/ Fail(r)
      PROVE  SoundLedger'
  BY <1>1, StartSound, ReadSound, ParentForSound, StoreObjectsSound, MoveRefSound, RefusedSound,
     MoveUnansweredSound, PublishInlineSound, AdoptSound, JudgeSound, EditStepSound, SettleSound,
     HaltSound, FailSound
<1>2. CASE ForeignMove
  BY <1>2, ForeignMoveSound
<1>3. CASE Push \/ Reconfigure \/ DeleteRef \/ Collect \/ UNCHANGED vars
  BY <1>3, WorldSound
<1> QED
  BY <1>1, <1>2, <1>3 DEF Next, Stopped

LEMMA LedgerIsSound == Spec => []SoundLedger
BY LedgerInit, LedgerStep, PTL DEF Spec

(* Whatever a marker names and whatever a run resumed is the answer of a   *)
(* call made at that revision, through every crash, collection, change of  *)
(* store and foreign commit (coverage.go, ledger.go, review/batches.go).   *)
THEOREM CoverageIsEarned == Spec => []CoveredWasJudged
<1>1. SoundLedger => CoveredWasJudged
  <2> SUFFICES ASSUME SoundLedger PROVE CoveredWasJudged
    OBVIOUS
  <2>1. ASSUME NEW p \in Claimed
        PROVE  Honest(Named(markers[p].handle))
    <3>1. p \in DOMAIN markers /\ markers[p].handle # NoHandle
      BY DEF Claimed
    <3>2. markers[p] \in Marker /\ SoundIn(commits, judged, markers[p].handle)
      BY <3>1, Unchanged DEF MarkersSound
    <3>3. markers[p].handle \in Handle
      BY <3>2 DEF Marker
    <3>4. markers[p].handle.at # "none"
      BY <3>1, <3>3, HandleForms
    <3>5. HonestIn(judged, Named(markers[p].handle))
      BY <3>2, <3>3, <3>4, NamedSound
    <3> QED BY <3>5 DEF Honest, HonestIn
  <2>2. ASSUME NEW r \in Runs
        PROVE  Honest(Candidate(r))
    <3>1. RunSound(run[r], markers, commits, judged)
      BY Unchanged
    <3> QED BY <3>1, CandidateType DEF SoundLedger, Honest, RunSound
  <2> QED BY <2>1, <2>2 DEF CoveredWasJudged
<1> QED
  BY <1>1, LedgerIsSound, PTL

(* A green pass was judged whole at its own head, by a ledger that could   *)
(* still be read when it turned green (review/publish.go, coverage.go).    *)
THEOREM GreenIsEarnedByReading == Spec => []GreenWasRead
<1>1. SoundLedger => GreenWasRead
  BY DEF SoundLedger, SoundInv, MarkersSound, GreenWasRead
<1> QED
  BY <1>1, LedgerIsSound, PTL

(* Another writer can move the ref and never has its commit adopted: the   *)
(* set of runs' own commits is closed under parents, so it holds whatever  *)
(* a marker's handle reaches (refstore.go).                                *)
THEOREM NobodyElsesCommits == Spec => []AncestryIsOurs
<1>1. SoundLedger => AncestryIsOurs
  <2> SUFFICES ASSUME SoundLedger, NEW p \in Claimed, markers[p].handle.at = "ref",
                      NEW c \in Ancestry(markers[p].handle.commit)
               PROVE  commits[c].by # Others
    BY DEF AncestryIsOurs
  <2> DEFINE k == markers[p].handle.commit
             S == {i \in DOMAIN commits : commits[i].by = Us}
  <2>1. k \in S
    <3>1. SoundIn(commits, judged, markers[p].handle)
      BY Unchanged DEF Claimed, MarkersSound
    <3> QED BY <3>1 DEF SoundIn, OursIn
  <2>2. \A i \in S : commits[i].parent \in S \cup {0}
    BY Unchanged DEF CommitsSound, OursIn
  <2>3. c \in S
    BY <2>1, <2>2 DEF Ancestry, HoldsParents
  <2> QED BY <2>3 DEF Us, Others
<1> QED
  BY <1>1, LedgerIsSound, PTL

-------------------------------------------------------------------------------
(***************************************************************************)
(* Orderly runs.  While no run overlaps another and nobody else touches    *)
(* the slot, what the newest marker names is among the ancestors of the    *)
(* ref, so no collection reaches it, and what a run holds carries its      *)
(* verdicts on.                                                            *)
(***************************************************************************)
Gen(cs, h) == IF h.at = "ref" THEN cs[h.commit].of ELSE h.payload

Anc(cs, c) ==
    LET Closed == {S \in SUBSET DOMAIN cs :
                     c \in S /\ \A k \in S : cs[k].parent \in S \cup {0}}
    IN  {k \in DOMAIN cs : c # 0 /\ \A S \in Closed : k \in S}

(* A handle's objects are there, and the ref reaches them. *)
Held(cs, objs, tip, h) == h.at = "ref" => h.commit \in objs /\ h.commit \in Anc(cs, tip)

(* At the revision of g, the records keep its verdicts. *)
Carries(g, revision, recs) ==
    g.head = revision => \A u \in Units : g.recs[u] # "outstanding" => recs[u] = g.recs[u]

Follows(cs, h, k) == h # NoHandle => Carries(Gen(cs, h), Gen(cs, k).head, Gen(cs, k).recs)

(* The run at work: `last' is the handle of the newest marker that has one, *)
(* n the number of markers.                                                *)
RunOrderly(x, last, n, cs, objs, tip) ==
    /\ x.pass = n
    /\ Held(cs, objs, tip, x.mk)
    /\ x.store = "marker" => x.inline /\ x.mk.at # "ref"
    /\ ~x.opened => x.mk = last
    /\ x.opened =>
         /\ x.mk # NoHandle /\ Gen(cs, x.mk).head = x.head
         /\ x.mk.at = "marker" => x.inline
         /\ x.mk.at = "ref" /\ last.at = "ref" => last.commit \in Anc(cs, x.mk.commit)
         /\ Follows(cs, last, x.mk)
    /\ x.step \in {"inline", "halt"} => x.inline
    /\ x.step = "edit" => x.opened
    /\ x.step # "read" /\ x.mk # NoHandle => Carries(Gen(cs, x.mk), x.head, x.recs)
    /\ x.step \in {"store", "move"} =>
         ~x.inline /\ x.parent = IF x.mk.at = "ref" THEN x.mk.commit ELSE 0
    /\ x.step \in {"move", "adopt"} =>
         /\ x.next # NoHandle
         /\ Gen(cs, x.next).head = x.head /\ Gen(cs, x.next).recs = x.recs
         /\ x.next.at = "ref" =>
              /\ ~x.inline /\ x.next.commit \in objs
              /\ last.at = "ref" => last.commit \in Anc(cs, x.next.commit)
              /\ x.mk.at = "ref" => x.mk.commit \in Anc(cs, x.next.commit)
    /\ x.step = "adopt" =>
         /\ x.next.at = "marker" => x.inline
         /\ x.next.at = "ref" => x.next.commit \in Anc(cs, tip)

OrderlyInv ==
    ~disturbed =>
        /\ \A q, r \in Runs : Active(q) /\ Active(r) => q = r
        /\ Held(commits, objects, ref, LastIn(markers))
        /\ \A r \in Runs : Active(r) =>
             RunOrderly(run[r], LastIn(markers), Len(markers), commits, objects, ref)

(***************************************************************************)
(* Ancestors.                                                              *)
(***************************************************************************)
LEMMA AncIs ==
    ASSUME NEW cs, 0 \notin DOMAIN cs, \A c \in DOMAIN cs : cs[c].parent \in {0} \cup DOMAIN cs
    PROVE  /\ \A c \in DOMAIN cs : c \in Anc(cs, c)
           /\ Anc(cs, 0) = {}
           /\ \A a, b, c : a \in Anc(cs, b) /\ b \in Anc(cs, c) => a \in Anc(cs, c)
           /\ \A c \in DOMAIN cs : cs[c].parent # 0 => cs[c].parent \in Anc(cs, c)
<1> DEFINE Closed(c) == {S \in SUBSET DOMAIN cs :
                           c \in S /\ \A k \in S : cs[k].parent \in S \cup {0}}
<1>1. \A a, c : a \in Anc(cs, c) <=>
                 a \in DOMAIN cs /\ c # 0 /\ \A S \in Closed(c) : a \in S
  BY DEF Anc
<1>2. \A c \in DOMAIN cs : c \in Anc(cs, c)
  BY <1>1
<1>3. Anc(cs, 0) = {}
  BY <1>1
<1>4. ASSUME NEW a, NEW b, NEW c, a \in Anc(cs, b), b \in Anc(cs, c)
      PROVE  a \in Anc(cs, c)
  <2>1. \A S \in Closed(c) : S \in Closed(b)
    BY <1>1, <1>4
  <2> QED BY <1>1, <1>4, <2>1
<1>5. \A c \in DOMAIN cs : cs[c].parent # 0 => cs[c].parent \in Anc(cs, c)
  <2> SUFFICES ASSUME NEW c \in DOMAIN cs, cs[c].parent # 0
               PROVE  cs[c].parent \in Anc(cs, c)
    OBVIOUS
  <2>1. \A S \in Closed(c) : c \in S
    OBVIOUS
  <2>2. \A S \in Closed(c) : cs[c].parent \in S
    BY <2>1
  <2> QED BY <1>1, <2>2
<1> QED
  BY <1>2, <1>3, <1>4, <1>5

(* New commits take no ancestor away. *)
LEMMA AncGrows ==
    ASSUME NEW cs, NEW ds, Grows(cs, ds), \A c \in DOMAIN cs : cs[c].parent \in {0} \cup DOMAIN cs,
           NEW c \in {0} \cup DOMAIN cs, NEW a \in Anc(cs, c)
    PROVE  a \in Anc(ds, c)
<1>1. a \in DOMAIN cs /\ a \in DOMAIN ds
  BY DEF Anc, Grows
<1>2. ASSUME NEW S \in SUBSET DOMAIN ds, c \in S,
             \A k \in S : ds[k].parent \in S \cup {0}
      PROVE  a \in S
  <2> DEFINE T == S \cap DOMAIN cs
  <2>1. T \in SUBSET DOMAIN cs /\ c \in T /\ \A k \in T : cs[k].parent \in T \cup {0}
    <3>1. c \in T
      BY <1>2 DEF Anc
    <3>2. \A k \in T : cs[k].parent \in T \cup {0}
      BY <1>2 DEF Grows
    <3> QED BY <3>1, <3>2
  <2>2. a \in T
    BY <2>1 DEF Anc
  <2> QED BY <2>2
<1> QED
  BY <1>1, <1>2 DEF Anc

LEMMA CommitsForm ==
    ASSUME SoundLedger
    PROVE  /\ 0 \notin DOMAIN commits /\ \A c \in DOMAIN commits : c \in Nat
           /\ \A c \in DOMAIN commits : commits[c].parent \in {0} \cup DOMAIN commits
           /\ \A c : Ancestry(c) = Anc(commits, c)
           /\ \A h : Named(h) = Gen(commits, h)
<1>1. commits \in Seq(Commit) /\ CommitsSound(commits, judged)
  BY Unchanged
<1>2. 0 \notin DOMAIN commits /\ \A c \in DOMAIN commits : c \in Nat
  <2>1. DOMAIN commits = 1..Len(commits) /\ Len(commits) \in Nat
    BY <1>1
  <2> QED BY <2>1
<1> QED
  BY <1>1, <1>2 DEF CommitsSound, Ancestry, HoldsParents, Anc, Named, Gen

(***************************************************************************)
(* The newest handle.                                                      *)
(***************************************************************************)
LEMMA LastForms ==
    ASSUME NEW ms \in Seq(Marker)
    PROVE  /\ LastIn(ms) \in Handle
           /\ LastIn(ms) = NoHandle <=> ClaimedIn(ms) = {}
           /\ Len(ms) \in ClaimedIn(ms) => LastIn(ms) = ms[Len(ms)].handle
<1> DEFINE n == CHOOSE p \in ClaimedIn(ms) : \A q \in ClaimedIn(ms) : q <= p
<1>1. CASE ClaimedIn(ms) = {}
  BY <1>1, HandleTypes DEF LastIn
<1>2. CASE ClaimedIn(ms) # {}
  <2>1. n \in ClaimedIn(ms) /\ \A q \in ClaimedIn(ms) : q <= n
    BY <1>2, NewestIs
  <2>2. LastIn(ms) = ms[n].handle
    BY <1>2 DEF LastIn
  <2> HIDE DEF n
  <2>3. n \in DOMAIN ms /\ ms[n].handle # NoHandle /\ ms[n] \in Marker
    BY <2>1 DEF ClaimedIn
  <2>4. ms[n].handle \in Handle
    BY <2>3 DEF Marker
  <2>5. Len(ms) \in ClaimedIn(ms) => n = Len(ms)
    <3>1. n <= Len(ms) /\ n \in Nat /\ Len(ms) \in Nat
      BY <2>3
    <3> QED BY <2>1, <3>1
  <2> QED BY <1>2, <2>2, <2>3, <2>4, <2>5
<1> QED
  BY <1>1, <1>2

LEMMA LastSound ==
    ASSUME SoundLedger
    PROVE  LastIn(markers) \in Handle /\ SoundIn(commits, judged, LastIn(markers))
<1>1. MarkerForPass(Len(markers) + 1) = LastIn(markers)
  <2>1. Len(markers) + 1 \notin ClaimedIn(markers)
    BY Unchanged DEF ClaimedIn
  <2> QED BY <2>1, LastIs
<1> QED
  BY <1>1, MarkerForPassSound

(* A marker without a handle changes nothing. *)
LEMMA LastAppended ==
    ASSUME NEW ms \in Seq(Marker), NEW m \in Marker, m.handle = NoHandle
    PROVE  LastIn(Append(ms, m)) = LastIn(ms) /\ ClaimedIn(Append(ms, m)) = ClaimedIn(ms)
<1> DEFINE ns == Append(ms, m)
<1>1. /\ ns \in Seq(Marker) /\ ns[Len(ms) + 1] = m /\ Len(ns) = Len(ms) + 1
      /\ \A p \in DOMAIN ms : ns[p] = ms[p]
      /\ DOMAIN ns = DOMAIN ms \cup {Len(ms) + 1}
  BY AppendProperties
<1> HIDE DEF ns
<1>2. ClaimedIn(ns) = ClaimedIn(ms)
  BY <1>1 DEF ClaimedIn
<1> DEFINE n == CHOOSE p \in ClaimedIn(ms) : \A q \in ClaimedIn(ms) : q <= p
<1>3. CASE ClaimedIn(ms) = {}
  BY <1>2, <1>3 DEF LastIn, ns
<1>4. CASE ClaimedIn(ms) # {}
  <2>1. n \in DOMAIN ms
    BY <1>4, NewestIs DEF ClaimedIn
  <2>2. LastIn(ms) = ms[n].handle /\ LastIn(ns) = ns[n].handle
    BY <1>2, <1>4 DEF LastIn
  <2> HIDE DEF n
  <2> QED BY <1>1, <1>2, <2>1, <2>2 DEF ns
<1> QED
  BY <1>3, <1>4

(* The edit of the run at work makes its handle, in the form written, the  *)
(* newest.                                                                 *)
LEMMA LastEdited ==
    ASSUME SoundLedger, OrderlyInv, ~disturbed, NEW r \in Runs, Active(r),
           NEW ns \in Seq(Marker), DOMAIN ns = DOMAIN markers, Len(ns) = Len(markers),
           ns[run[r].pass].handle \in Written(run[r].mk),
           \A p \in DOMAIN markers \ {run[r].pass} : ns[p] = markers[p]
    PROVE  LastIn(ns) \in Written(run[r].mk)
<1> DEFINE mk == run[r].mk
           last == LastIn(markers)
<1>1. /\ run[r].pass = Len(markers) /\ (~run[r].opened => mk = last)
      /\ (run[r].opened => mk # NoHandle)
  BY DEF OrderlyInv, RunOrderly
<1>2. run[r].pass \in DOMAIN markers /\ mk \in Handle /\ markers \in Seq(Marker)
  BY Unchanged DEF RunSound, Active, Run
<1>3. CASE mk = NoHandle
  <2>1. ClaimedIn(markers) = {}
    BY <1>1, <1>2, <1>3, LastForms
  <2>2. ns[run[r].pass].handle = NoHandle
    BY <1>3, HandleTypes DEF Written
  <2>3. ClaimedIn(ns) = {}
    BY <2>1, <2>2 DEF ClaimedIn
  <2>4. LastIn(ns) = NoHandle
    BY <2>3 DEF LastIn
  <2> QED BY <1>3, <2>4, HandleTypes DEF Written
<1>4. CASE mk # NoHandle
  <2>1. ns[run[r].pass].handle # NoHandle
    BY <1>2, <1>4, WrittenKeeps, HandleForms
  <2>2. Len(ns) \in ClaimedIn(ns)
    BY <1>1, <1>2, <2>1 DEF ClaimedIn
  <2> QED BY <1>1, <2>2, LastForms
<1> QED
  BY <1>3, <1>4

(***************************************************************************)
(* Orderly steps.                                                          *)
(***************************************************************************)
(* What the newest marker counted as judged, it still counts. *)
ProgressStep ==
    LastIn(markers) # NoHandle /\ LastIn(markers') # NoHandle =>
        Carries(Gen(commits, LastIn(markers)), Gen(commits', LastIn(markers')).head,
                Gen(commits', LastIn(markers')).recs)

LEMMA CarriesSelf == \A g : Carries(g, g.head, g.recs)
BY DEF Carries

LEMMA GenGrows ==
    ASSUME SoundLedger, NEW cs, Grows(commits, cs), NEW h, SoundIn(commits, judged, h)
    PROVE  Gen(cs, h) = Gen(commits, h)
BY DEF SoundIn, OursIn, Grows, Gen

LEMMA WrittenGen ==
    ASSUME NEW cs, NEW h \in Handle, NEW k \in Written(h), h # NoHandle
    PROVE  /\ Gen(cs, k).head = Gen(cs, h).head /\ Gen(cs, k).recs = Gen(cs, h).recs
           /\ k # NoHandle /\ k.at = h.at
           /\ h.at = "ref" => k = h
<1>1. /\ k \in Handle /\ k.at = h.at
      /\ h.at # "marker" => k = h
      /\ h.at = "marker" => k.payload.head = h.payload.head /\ k.payload.recs = h.payload.recs
  BY WrittenKeeps
<1> QED
  BY <1>1, HandleForms DEF Gen

(* The run at work goes on, its claim unedited. *)
LEMMA OrderlyRun ==
    ASSUME SoundLedger, OrderlyInv, ~disturbed, NEW r \in Runs, Active(r), NEW x \in Run,
           run' = [run EXCEPT ![r] = x], markers' = markers, Grows(commits, commits'),
           Held(commits', objects', ref', LastIn(markers)),
           x.step \in {"ready", "done"} \/
             RunOrderly(x, LastIn(markers), Len(markers), commits', objects', ref')
    PROVE  OrderlyInv' /\ ProgressStep
<1>1. run'[r] = x /\ \A q \in Runs \ {r} : run'[q] = run[q]
  BY Unchanged
<1>2. \A q \in Runs \ {r} : ~Active(q) /\ run'[q].step \in {"ready", "done"}
  BY <1>1 DEF OrderlyInv, Active
<1>3. OrderlyInv'
  BY <1>1, <1>2 DEF OrderlyInv, Active
<1>4. ProgressStep
  <2>1. Gen(commits', LastIn(markers)) = Gen(commits, LastIn(markers))
    BY LastSound, GenGrows
  <2> QED BY <2>1, CarriesSelf DEF ProgressStep
<1> QED
  BY <1>3, <1>4

(* What the run at work holds covers what the newest marker names. *)
LEMMA HeldFollows ==
    ASSUME SoundLedger, OrderlyInv, ~disturbed, NEW r \in Runs, Active(r)
    PROVE  Follows(commits, LastIn(markers), run[r].mk)
<1>1. /\ ~run[r].opened => run[r].mk = LastIn(markers)
      /\ run[r].opened => Follows(commits, LastIn(markers), run[r].mk)
  BY DEF OrderlyInv, RunOrderly
<1> QED
  BY <1>1, CarriesSelf DEF Follows

(* The run at work edits its claim, and what it holds becomes the newest. *)
LEMMA EditProgress ==
    ASSUME SoundLedger, OrderlyInv, ~disturbed, NEW r \in Runs, Active(r), commits' = commits,
           LastIn(markers') \in Written(run[r].mk),
           Held(commits, objects', ref', run[r].mk)
    PROVE  ProgressStep /\ Held(commits', objects', ref', LastIn(markers'))
<1> DEFINE mk == run[r].mk
           next == LastIn(markers')
<1>1. mk \in Handle /\ Follows(commits, LastIn(markers), mk)
  BY HeldFollows, Unchanged DEF Run
<1>2. CASE mk = NoHandle
  <2>1. next = NoHandle
    BY <1>2, HandleTypes DEF Written
  <2> QED BY <2>1, HandleTypes DEF ProgressStep, Held
<1>3. CASE mk # NoHandle
  <2>1. /\ Gen(commits, next).head = Gen(commits, mk).head
        /\ Gen(commits, next).recs = Gen(commits, mk).recs
        /\ next.at = mk.at
        /\ mk.at = "ref" => next = mk
    BY <1>1, <1>3, WrittenGen
  <2>2. Held(commits', objects', ref', next)
    BY <2>1 DEF Held
  <2>3. ProgressStep
    BY <1>1, <2>1 DEF ProgressStep, Follows
  <2> QED BY <2>2, <2>3
<1> QED
  BY <1>2, <1>3

(* The run at work ends, whether its last edit landed or not. *)
LEMMA OrderlyEnds ==
    ASSUME SoundLedger, OrderlyInv, ~disturbed, NEW r \in Runs, Active(r), End(r),
           commits' = commits, objects' = objects,
           \/ markers' = markers
           \/ \E state \in {"started", "incomplete", "complete"}, green \in BOOLEAN :
                /\ green => \A u \in Units : <<run[r].head, u, "no_issue">> \in judged
                /\ EditClaim(r, state, green),
           Held(commits, objects, ref', run[r].mk), Held(commits, objects, ref', LastIn(markers))
    PROVE  OrderlyInv' /\ ProgressStep
<1> DEFINE x == [ReadyRun EXCEPT !.step = "done"]
<1>1. x \in Run /\ x.step = "done" /\ run' = [run EXCEPT ![r] = x]
  BY ReadyType DEF End, ReadyRun
<1> HIDE DEF x
<1>2. CASE markers' = markers
  <2>1. Grows(commits, commits') /\ Held(commits', objects', ref', LastIn(markers))
    BY Unchanged
  <2> QED BY <1>1, <1>2, <2>1, OrderlyRun
<1>3. ASSUME NEW state \in {"started", "incomplete", "complete"}, NEW green \in BOOLEAN,
             green => \A u \in Units : <<run[r].head, u, "no_issue">> \in judged,
             EditClaim(r, state, green)
      PROVE  OrderlyInv' /\ ProgressStep
  <2>1. /\ markers' \in Seq(Marker) /\ DOMAIN markers' = DOMAIN markers
        /\ Len(markers') = Len(markers)
        /\ markers'[run[r].pass].handle \in Written(run[r].mk)
        /\ \A p \in DOMAIN markers \ {run[r].pass} : markers'[p] = markers[p]
    BY <1>3, EditSound
  <2>2. LastIn(markers') \in Written(run[r].mk)
    BY <2>1, LastEdited
  <2>3. Held(commits, objects', ref', run[r].mk)
    OBVIOUS
  <2>4. ProgressStep /\ Held(commits', objects', ref', LastIn(markers'))
    BY <2>2, <2>3, EditProgress
  <2>5. \A q \in Runs : run'[q].step \in {"ready", "done"}
    <3>1. run'[r] = x /\ \A q \in Runs \ {r} : run'[q] = run[q]
      BY <1>1, Unchanged
    <3> QED BY <1>1, <3>1 DEF OrderlyInv, Active
  <2> QED BY <2>4, <2>5 DEF OrderlyInv, Active
<1> QED
  BY <1>2, <1>3

LEMMA OrderlyFatal ==
    ASSUME SoundLedger, OrderlyInv, ~disturbed, NEW r \in Runs, Active(r), ReportFatal(r),
           commits' = commits, objects' = objects,
           Held(commits, objects, ref', run[r].mk), Held(commits, objects, ref', LastIn(markers))
    PROVE  OrderlyInv' /\ ProgressStep
<1>1. End(r)
  BY DEF ReportFatal
<1>2. \/ markers' = markers
      \/ \E state \in {"started", "incomplete", "complete"}, green \in BOOLEAN :
           /\ green => \A u \in Units : <<run[r].head, u, "no_issue">> \in judged
           /\ EditClaim(r, state, green)
  BY DEF ReportFatal
<1> QED
  BY <1>1, <1>2, OrderlyEnds

(* What is known of the run at work. *)
LEMMA AtWork ==
    ASSUME SoundLedger, OrderlyInv, ~disturbed, NEW r \in Runs, Active(r)
    PROVE  /\ RunOrderly(run[r], LastIn(markers), Len(markers), commits, objects, ref)
           /\ Held(commits, objects, ref, run[r].mk)
           /\ Held(commits, objects, ref, LastIn(markers))
           /\ run[r] \in Run /\ run[r].mk \in Handle /\ run[r].next \in Handle
           /\ SoundIn(commits, judged, run[r].mk) /\ SoundIn(commits, judged, run[r].next)
           /\ RunSound(run[r], markers, commits, judged)
BY Unchanged DEF OrderlyInv, RunOrderly, Run

(* A run at work never finds its ledger lost, and never moves the ref back. *)
LEMMA ReadsItsOwn ==
    ASSUME SoundLedger, OrderlyInv, ~disturbed, NEW r \in Runs, Active(r)
    PROVE  /\ Restored(run[r].store, run[r].mk) = {ref}
           /\ Outcome(run[r].store, run[r].mk) \in {"unclaimed", "corrupt", "generation"}
           /\ Outcome(run[r].store, run[r].mk) = "unclaimed" <=> run[r].mk = NoHandle
<1> DEFINE x == run[r]
<1>1. /\ Held(commits, objects, ref, x.mk) /\ x.mk \in Handle
      /\ x.store = "marker" => x.mk.at # "ref"
  BY AtWork DEF RunOrderly
<1> HIDE DEF x
<1>2. Restored(x.store, x.mk) = {ref}
  <2>1. x.mk.at = "ref" => ref # 0
    BY <1>1, CommitsForm, AncIs DEF Held
  <2> QED BY <2>1 DEF Restored
<1>3. CASE x.mk.at = "none"
  BY <1>1, <1>2, <1>3, HandleForms DEF Outcome, x
<1>4. CASE x.mk.at = "marker"
  BY <1>1, <1>2, <1>4, HandleForms DEF Outcome, x
<1>5. CASE x.mk.at = "ref"
  <2>1. x.store # "marker" /\ x.mk.commit \in objects
    BY <1>1, <1>5 DEF Held
  <2> QED BY <1>1, <1>2, <1>5, <2>1, HandleForms DEF Outcome, x
<1> QED
  BY <1>1, <1>3, <1>4, <1>5, HandleForms

LEMMA StartOrderly ==
    ASSUME SoundLedger, OrderlyInv, ~disturbed, ~disturbed', NEW r \in Runs, Start(r)
    PROVE  OrderlyInv' /\ ProgressStep
<1> DEFINE n == Len(markers)
           resumes == n # 0 /\ markers[n].state # "complete" /\ markers[n].head = head
           pass == IF resumes THEN n ELSE n + 1
           m == [head |-> head, state |-> "started", handle |-> NoHandle, green |-> FALSE]
           x == [ReadyRun EXCEPT !.step = "read", !.pass = pass, !.head = head,
                   !.store = config, !.inline = config = "marker", !.mk = MarkerForPass(pass)]
           last == LastIn(markers)
<1>1. /\ run' = [run EXCEPT ![r] = x]
      /\ markers' = IF resumes THEN markers ELSE Append(markers, m)
      /\ commits' = commits /\ objects' = objects /\ ref' = ref
      /\ ~Overlaps /\ ~(config = "marker" /\ MarkerForPass(pass).at = "ref")
  BY DEF Start
<1>2. /\ \A q \in Runs : ~Active(q)
      /\ Held(commits, objects, ref, last)
      /\ markers \in Seq(Marker) /\ n \in Nat /\ DOMAIN markers = 1..n /\ run \in [Runs -> Run]
  BY <1>1, Unchanged DEF Overlaps, OrderlyInv
<1>3. m \in Marker /\ m.handle = NoHandle
  BY ForgeTypes, HandleTypes DEF Marker
<1>4. MarkerForPass(pass) = last
  <2>1. CASE pass \in ClaimedIn(markers)
    <3>1. pass \in 1..n
      BY <1>2, <2>1 DEF ClaimedIn
    <3>2. n + 1 \notin 1..n
      BY <1>2
    <3>3. pass = n
      BY <3>1, <3>2
    <3> QED BY <1>2, <2>1, <3>3, LastForms, LastIs
  <2>2. CASE pass \notin ClaimedIn(markers)
    BY <2>2, LastIs
  <2> QED BY <2>1, <2>2
<1>5. x.pass = pass /\ x.step = "read" /\ x.mk = last /\ x.store = config
      /\ x.inline = (config = "marker") /\ x.opened = FALSE
  BY <1>4 DEF ReadyRun
<1> HIDE DEF m, x
<1>6. LastIn(markers') = last /\ Len(markers') = pass
  <2>1. CASE resumes
    BY <1>1, <2>1
  <2>2. CASE ~resumes
    <3>1. markers' = Append(markers, m)
      BY <1>1, <2>2
    <3>2. LastIn(Append(markers, m)) = LastIn(markers)
      BY <1>2, <1>3, LastAppended
    <3>3. Len(Append(markers, m)) = n + 1
      BY <1>2, <1>3, AppendProperties
    <3> QED BY <2>2, <3>1, <3>2, <3>3
  <2> QED BY <2>1, <2>2
<1> HIDE DEF n, resumes, pass, last
<1>7. RunOrderly(x, last, pass, commits, objects, ref)
  BY <1>1, <1>2, <1>4, <1>5 DEF RunOrderly
<1>8. run'[r] = x /\ \A q \in Runs \ {r} : run'[q] = run[q]
  BY <1>1, <1>2
<1>9. OrderlyInv'
  BY <1>1, <1>2, <1>6, <1>7, <1>8 DEF OrderlyInv, Active, last
<1>10. ProgressStep
  BY <1>1, <1>6, CarriesSelf DEF ProgressStep, last
<1> QED
  BY <1>9, <1>10

LEMMA ReadOrderly ==
    ASSUME SoundLedger, OrderlyInv, ~disturbed, NEW r \in Runs, Read(r), SoundLedger'
    PROVE  OrderlyInv' /\ ProgressStep
<1> DEFINE h == run[r].mk
           outcome == Outcome(run[r].store, h)
           current == outcome = "generation" /\ Resumes(r, Named(h))
           recs == IF current THEN Named(h).recs ELSE Unread
           x == [run[r] EXCEPT !.step = "parent", !.recs = recs,
                   !.supplied = IF current THEN Named(h).supplied ELSE {}]
           last == LastIn(markers)
           n == Len(markers)
<1>1. Active(r) /\ commits' = commits /\ objects' = objects
      /\ ref' \in Restored(run[r].store, run[r].mk)
  BY DEF Read, At, Active
<1>2. /\ RunOrderly(run[r], last, n, commits, objects, ref)
      /\ Held(commits, objects, ref, h) /\ Held(commits, objects, ref, last)
      /\ run[r] \in Run /\ ref' = ref
  <2>1. Restored(run[r].store, run[r].mk) = {ref}
    BY <1>1, ReadsItsOwn
  <2> QED BY <1>1, <2>1, AtWork
<1>3. CASE outcome = "corrupt"
  <2>1. ReportFatal(r)
    BY <1>3 DEF Read
  <2> QED BY <1>1, <1>2, <2>1, OrderlyFatal
<1>4. CASE outcome # "corrupt"
  <2>1. run' = [run EXCEPT ![r] = x] /\ markers' = markers
    BY <1>4 DEF Read
  <2>2. x \in Run
    <3>1. run' \in [Runs -> Run] /\ run \in [Runs -> Run]
      BY Unchanged DEF SoundLedger, TypeOK
    <3>2. run'[r] = x
      BY <2>1, <3>1
    <3> QED BY <3>1, <3>2
  <2>3. h # NoHandle => Carries(Gen(commits, h), run[r].head, recs)
    <3>1. h # NoHandle => outcome = "generation"
      BY <1>1, <1>4, ReadsItsOwn
    <3>2. Named(h) = Gen(commits, h)
      BY CommitsForm
    <3> QED BY <3>1, <3>2 DEF Carries, Resumes
  <2>4. x.step = "parent" /\ x.recs = recs /\ x.head = run[r].head /\ x.mk = h
        /\ x.pass = run[r].pass /\ x.store = run[r].store /\ x.inline = run[r].inline
        /\ x.opened = run[r].opened
    BY <1>2 DEF Run
  <2> HIDE DEF x, recs, outcome, current, last, n, h
  <2>5. RunOrderly(x, last, n, commits, objects, ref)
    BY <1>2, <2>3, <2>4 DEF RunOrderly, h
  <2> QED BY <1>1, <1>2, <2>1, <2>2, <2>5, OrderlyRun, Unchanged DEF last, n
<1> QED
  BY <1>3, <1>4

LEMMA ParentForOrderly ==
    ASSUME SoundLedger, OrderlyInv, ~disturbed, NEW r \in Runs, ParentFor(r), SoundLedger'
    PROVE  OrderlyInv' /\ ProgressStep
<1> DEFINE h == run[r].mk
           outcome == Outcome(run[r].store, h)
           parent == ParentOf(r, outcome)
           x == [run[r] EXCEPT !.step = IF run[r].inline THEN "inline" ELSE "store",
                   !.parent = parent]
           last == LastIn(markers)
           n == Len(markers)
<1>1. Active(r) /\ commits' = commits /\ objects' = objects /\ run[r].step = "parent"
      /\ ref' \in Restored(run[r].store, run[r].mk)
  BY DEF ParentFor, At, Active
<1>2. /\ RunOrderly(run[r], last, n, commits, objects, ref)
      /\ Held(commits, objects, ref, h) /\ Held(commits, objects, ref, last)
      /\ run[r] \in Run /\ ref' = ref /\ h \in Handle
  <2>1. Restored(run[r].store, run[r].mk) = {ref}
    BY <1>1, ReadsItsOwn
  <2> QED BY <1>1, <2>1, AtWork
<1>3. CASE outcome = "corrupt"
  <2>1. ReportFatal(r)
    BY <1>3 DEF ParentFor
  <2> QED BY <1>1, <1>2, <2>1, OrderlyFatal
<1>4. CASE outcome # "corrupt"
  <2>1. run' = [run EXCEPT ![r] = x] /\ markers' = markers
    BY <1>4 DEF ParentFor
  <2>2. x \in Run
    <3>1. run' \in [Runs -> Run] /\ run \in [Runs -> Run]
      BY Unchanged DEF SoundLedger, TypeOK
    <3>2. run'[r] = x
      BY <2>1, <3>1
    <3> QED BY <3>1, <3>2
  <2>3. parent = IF h.at = "ref" THEN h.commit ELSE 0
    <3>1. h.at = "ref" => outcome = "generation"
      BY <1>1, <1>2, <1>4, ReadsItsOwn, HandleForms
    <3> QED BY <3>1 DEF ParentOf
  <2>4. x.step \in {"inline", "store"} /\ (x.step = "inline" <=> run[r].inline)
        /\ x.parent = parent /\ x.recs = run[r].recs /\ x.head = run[r].head /\ x.mk = h
        /\ x.pass = run[r].pass /\ x.store = run[r].store /\ x.inline = run[r].inline
        /\ x.opened = run[r].opened
    BY <1>2 DEF Run
  <2> HIDE DEF x, parent, outcome, last, n, h
  <2>5. RunOrderly(x, last, n, commits, objects, ref)
    BY <1>1, <1>2, <2>3, <2>4 DEF RunOrderly, h
  <2> QED BY <1>1, <1>2, <2>1, <2>2, <2>5, OrderlyRun, Unchanged DEF last, n
<1> QED
  BY <1>3, <1>4

LEMMA StoreObjectsOrderly ==
    ASSUME SoundLedger, OrderlyInv, ~disturbed, NEW r \in Runs, StoreObjects(r), SoundLedger'
    PROVE  OrderlyInv' /\ ProgressStep
<1> DEFINE c == [of |-> Candidate(r), parent |-> run[r].parent, by |-> Us]
           k == Len(commits) + 1
           x == [run[r] EXCEPT !.step = "move", !.next = RefHandle(k)]
           mk == run[r].mk
           last == LastIn(markers)
           n == Len(markers)
<1>1. Active(r) /\ run[r].step = "store" /\ ref' = ref
  BY DEF StoreObjects, At, Active
<1>2. /\ RunOrderly(run[r], last, n, commits, objects, ref)
      /\ Held(commits, objects, ref, mk) /\ Held(commits, objects, ref, last)
      /\ run[r] \in Run /\ mk \in Handle /\ SoundIn(commits, judged, mk)
      /\ SoundIn(commits, judged, last) /\ last \in Handle
  BY <1>1, AtWork, LastSound
<1>3. CASE run[r].parent \notin objects \cup {0}
  <2>1. ReportFatal(r) /\ commits' = commits /\ objects' = objects
    BY <1>3 DEF StoreObjects
  <2> QED BY <1>1, <1>2, <2>1, OrderlyFatal
<1>4. CASE run[r].parent \in objects \cup {0}
  <2>1. /\ commits' = Append(commits, c) /\ objects' = objects \cup {Len(commits')}
        /\ markers' = markers
        /\ run' = [run EXCEPT ![r].step = "move", ![r].next = RefHandle(Len(commits'))]
    BY <1>4 DEF StoreObjects
  <2>2. /\ commits' \in Seq(Commit) /\ commits \in Seq(Commit) /\ run \in [Runs -> Run]
        /\ run' \in [Runs -> Run] /\ \A i \in DOMAIN commits' : commits'[i].parent \in {0} \cup DOMAIN commits'
    BY Unchanged DEF SoundLedger, TypeOK, SoundInv, CommitsSound
  <2>3. /\ Len(commits') = k /\ commits'[k] = c /\ k \in DOMAIN commits' /\ Grows(commits, commits')
        /\ 0 \notin DOMAIN commits'
    <3>1. Len(commits) \in Nat /\ DOMAIN commits = 1..Len(commits)
          /\ Len(commits') = k /\ DOMAIN commits' = 1..k
      BY <2>1, <2>2
    <3>2. commits'[k] = c /\ \A i \in DOMAIN commits : commits'[i] = commits[i]
      BY <2>1, <2>2
    <3>3. k \in 1..k /\ 0 \notin 1..k /\ \A i \in 1..Len(commits) : i \in 1..k
      BY <3>1
    <3> HIDE DEF c, k
    <3>4. Grows(commits, commits')
      BY <3>1, <3>2, <3>3 DEF Grows
    <3> QED BY <3>1, <3>2, <3>3, <3>4
  <2>4. x \in Run /\ run' = [run EXCEPT ![r] = x]
    <3>1. run' = [run EXCEPT ![r] = x]
      BY <2>1, <2>3
    <3>2. run'[r] = x
      BY <2>2, <3>1
    <3> QED BY <2>2, <3>1, <3>2
  <2>5. c.of.head = run[r].head /\ c.of.recs = run[r].recs /\ c.parent = run[r].parent
    BY CandidateType DEF SoundLedger
  <2>6. x.step = "move" /\ x.next.at = "ref" /\ x.next.commit = k /\ x.next # NoHandle
        /\ x.parent = run[r].parent /\ x.recs = run[r].recs /\ x.head = run[r].head /\ x.mk = mk
        /\ x.pass = run[r].pass /\ x.store = run[r].store /\ x.inline = run[r].inline
        /\ x.opened = run[r].opened
    BY <1>2 DEF Run, RefHandle, NoHandle
  <2>7. /\ Gen(commits', mk) = Gen(commits, mk) /\ Gen(commits', last) = Gen(commits, last)
    BY <1>2, <2>3, GenGrows
  <2>8. Gen(commits', x.next).head = x.head /\ Gen(commits', x.next).recs = x.recs
    BY <2>3, <2>5, <2>6 DEF Gen
  <2> HIDE DEF x, k, c
  <2>9. \A i \in DOMAIN commits : \A a : a \in Anc(commits, i) => a \in Anc(commits', i)
    BY <2>3, CommitsForm, AncGrows
  <2>10. ref \in {0} \cup DOMAIN commits /\ \A a : a \in Anc(commits, ref) => a \in Anc(commits', ref)
    <3>1. ref \in {0} \cup DOMAIN commits
      BY ForgeTypes
    <3> QED BY <2>3, <3>1, CommitsForm, AncGrows
  <2>11. Held(commits', objects', ref, mk) /\ Held(commits', objects', ref, last)
    BY <1>2, <2>1, <2>10 DEF Held
  <2>12. mk.at = "ref" => mk.commit \in DOMAIN commits /\ mk.commit \in Anc(commits', k)
    <3> SUFFICES ASSUME mk.at = "ref" PROVE mk.commit \in DOMAIN commits /\ mk.commit \in Anc(commits', k)
      OBVIOUS
    <3>1. mk.commit \in DOMAIN commits /\ mk.commit # 0
      BY <1>2, CommitsForm DEF SoundIn, OursIn
    <3>2. run[r].parent = mk.commit
      BY <1>1, <1>2 DEF RunOrderly
    <3> QED BY <2>2, <2>3, <2>5, <3>1, <3>2, AncIs
  <2>13. mk.at = "ref" /\ last.at = "ref" => last.commit \in Anc(commits', mk.commit)
    <3> SUFFICES ASSUME mk.at = "ref", last.at = "ref" PROVE last.commit \in Anc(commits', mk.commit)
      OBVIOUS
    <3>1. last.commit \in Anc(commits, mk.commit)
      <4>1. CASE run[r].opened
        BY <1>2, <4>1 DEF RunOrderly
      <4>2. CASE ~run[r].opened
        <5>1. mk = last
          BY <1>2, <4>2 DEF RunOrderly
        <5> QED BY <2>12, <5>1, CommitsForm, AncIs
      <4> QED BY <4>1, <4>2
    <3> QED BY <2>9, <2>12, <3>1
  <2>14. last.at = "ref" => last.commit \in Anc(commits', k)
    <3> SUFFICES ASSUME last.at = "ref" PROVE last.commit \in Anc(commits', k)
      OBVIOUS
    <3>1. mk.at = "ref"
      <4>1. CASE run[r].opened
        BY <1>1, <1>2, <4>1, HandleForms DEF RunOrderly
      <4>2. CASE ~run[r].opened
        BY <1>2, <4>2 DEF RunOrderly
      <4> QED BY <4>1, <4>2
    <3> QED BY <2>2, <2>3, <2>12, <2>13, <3>1, AncIs
  <2>15. k \in objects'
    BY <2>1, <2>3
  <2>16. Follows(commits, last, mk) => Follows(commits', last, mk)
    BY <2>7 DEF Follows
  <2> HIDE DEF mk, last, n
  <2>17. RunOrderly(x, last, n, commits', objects', ref)
    BY <1>1, <1>2, <2>6, <2>7, <2>8, <2>11, <2>12, <2>13, <2>14, <2>15, <2>16 DEF RunOrderly, mk
  <2>18. Active(r) /\ Grows(commits, commits') /\ Held(commits', objects', ref', last)
         /\ RunOrderly(x, last, n, commits', objects', ref')
    BY <1>1, <2>3, <2>11, <2>17
  <2> QED BY <2>1, <2>4, <2>18, OrderlyRun DEF last, n
<1> QED
  BY <1>3, <1>4

LEMMA MoveRefOrderly ==
    ASSUME SoundLedger, OrderlyInv, ~disturbed, NEW r \in Runs, MoveRef(r), SoundLedger'
    PROVE  OrderlyInv' /\ ProgressStep
<1> DEFINE x == [run[r] EXCEPT !.step = "adopt"]
           last == LastIn(markers)
           n == Len(markers)
<1>1. /\ Active(r) /\ run[r].step = "move" /\ ref' = run[r].next.commit
      /\ run' = [run EXCEPT ![r] = x] /\ commits' = commits /\ objects' = objects
      /\ markers' = markers
  BY DEF MoveRef, At, Active
<1>2. /\ RunOrderly(run[r], last, n, commits, objects, ref)
      /\ Held(commits, objects, ref, run[r].mk) /\ Held(commits, objects, ref, last)
      /\ run[r] \in Run /\ run[r].next.at = "ref" /\ SoundIn(commits, judged, run[r].next)
  BY <1>1, AtWork DEF RunSound
<1>3. x \in Run
  BY <1>2 DEF Run, Steps
<1>4. x.step = "adopt" /\ x.next = run[r].next
      /\ x.parent = run[r].parent /\ x.recs = run[r].recs /\ x.head = run[r].head /\ x.mk = run[r].mk
      /\ x.pass = run[r].pass /\ x.store = run[r].store /\ x.inline = run[r].inline
      /\ x.opened = run[r].opened
  BY <1>2 DEF Run
<1> HIDE DEF x, last, n
<1>5. /\ last.at = "ref" => last.commit \in Anc(commits, run[r].next.commit)
      /\ run[r].mk.at = "ref" => run[r].mk.commit \in Anc(commits, run[r].next.commit)
  BY <1>1, <1>2 DEF RunOrderly
<1>6. Held(commits, objects, ref', run[r].mk) /\ Held(commits, objects, ref', last)
  BY <1>1, <1>2, <1>5 DEF Held
<1>7. run[r].next.commit \in Anc(commits, ref')
  BY <1>1, <1>2, CommitsForm, AncIs DEF SoundIn, OursIn
<1>8. RunOrderly(x, last, n, commits, objects, ref')
  BY <1>1, <1>2, <1>4, <1>5, <1>6, <1>7 DEF RunOrderly
<1>9. /\ Grows(commits, commits') /\ Held(commits', objects', ref', last)
      /\ RunOrderly(x, last, n, commits', objects', ref')
  BY <1>1, <1>6, <1>8, Unchanged
<1> QED
  BY <1>1, <1>3, <1>9, OrderlyRun DEF last, n

LEMMA RefusedOrderly ==
    ASSUME SoundLedger, OrderlyInv, ~disturbed, NEW r \in Runs, Refused(r), SoundLedger'
    PROVE  OrderlyInv' /\ ProgressStep
<1> DEFINE x == [run[r] EXCEPT !.step = "inline", !.inline = TRUE, !.next = NoHandle]
           last == LastIn(markers)
           n == Len(markers)
<1>1. Active(r) /\ commits' = commits /\ objects' = objects /\ ref' = ref
  BY DEF Refused, Active
<1>2. /\ RunOrderly(run[r], last, n, commits, objects, ref)
      /\ Held(commits, objects, ref, run[r].mk) /\ Held(commits, objects, ref, last)
      /\ run[r] \in Run /\ run[r].step \in {"store", "move"}
  BY <1>1, AtWork DEF Refused
<1>3. CASE ReportFatal(r)
  BY <1>1, <1>2, <1>3, OrderlyFatal
<1>4. CASE ~ReportFatal(r)
  <2>1. run' = [run EXCEPT ![r] = x] /\ markers' = markers
    BY <1>4 DEF Refused
  <2>2. x \in Run
    BY <1>2, HandleTypes DEF Run, Steps
  <2>3. x.step = "inline" /\ x.inline = TRUE /\ x.recs = run[r].recs /\ x.head = run[r].head
        /\ x.mk = run[r].mk /\ x.pass = run[r].pass /\ x.store = run[r].store
        /\ x.opened = run[r].opened
    BY <1>2 DEF Run
  <2> HIDE DEF x, last, n
  <2>4. RunOrderly(x, last, n, commits, objects, ref)
    BY <1>2, <2>3 DEF RunOrderly
  <2>5. /\ Grows(commits, commits') /\ Held(commits', objects', ref', last)
        /\ RunOrderly(x, last, n, commits', objects', ref')
    BY <1>1, <1>2, <2>4, Unchanged
  <2> QED BY <1>1, <2>1, <2>2, <2>5, OrderlyRun DEF last, n
<1> QED
  BY <1>3, <1>4

LEMMA MoveUnansweredOrderly ==
    ASSUME SoundLedger, OrderlyInv, ~disturbed, NEW r \in Runs, MoveUnanswered(r)
    PROVE  OrderlyInv' /\ ProgressStep
<1> DEFINE last == LastIn(markers)
<1>1. /\ Active(r) /\ run[r].step = "move" /\ ref' = run[r].next.commit /\ ReportFatal(r)
      /\ commits' = commits /\ objects' = objects
  BY DEF MoveUnanswered, At, Active
<1>2. /\ RunOrderly(run[r], last, Len(markers), commits, objects, ref)
      /\ Held(commits, objects, ref, run[r].mk) /\ Held(commits, objects, ref, last)
      /\ run[r].next.at = "ref"
  BY <1>1, AtWork DEF RunSound
<1> HIDE DEF last
<1>3. /\ last.at = "ref" => last.commit \in Anc(commits, run[r].next.commit)
      /\ run[r].mk.at = "ref" => run[r].mk.commit \in Anc(commits, run[r].next.commit)
  BY <1>1, <1>2 DEF RunOrderly
<1>4. Held(commits, objects, ref', run[r].mk) /\ Held(commits, objects, ref', last)
  BY <1>1, <1>2, <1>3 DEF Held
<1> QED
  BY <1>1, <1>4, OrderlyFatal DEF last

LEMMA PublishInlineOrderly ==
    ASSUME SoundLedger, OrderlyInv, ~disturbed, NEW r \in Runs, PublishInline(r)
    PROVE  OrderlyInv' /\ ProgressStep
<1> DEFINE last == LastIn(markers)
           n == Len(markers)
<1>1. /\ Active(r) /\ run[r].step = "inline" /\ commits' = commits /\ objects' = objects
      /\ ref' = ref /\ markers' = markers
  BY DEF PublishInline, At, Active, forge
<1>2. /\ RunOrderly(run[r], last, n, commits, objects, ref)
      /\ Held(commits, objects, ref, run[r].mk) /\ Held(commits, objects, ref, last)
      /\ run[r] \in Run
  BY <1>1, AtWork
<1>3. \E x \in Run : run' = [run EXCEPT ![r] = x] /\ RunOrderly(x, last, n, commits, objects, ref)
  <2>1. CASE run' = [run EXCEPT ![r].step = "halt"]
    <3> DEFINE x == [run[r] EXCEPT !.step = "halt"]
    <3>1. x \in Run /\ run' = [run EXCEPT ![r] = x]
      BY <1>2, <2>1 DEF Run, Steps
    <3>2. x.step = "halt" /\ x.inline = run[r].inline /\ x.recs = run[r].recs
          /\ x.head = run[r].head /\ x.mk = run[r].mk /\ x.pass = run[r].pass
          /\ x.store = run[r].store /\ x.opened = run[r].opened
      BY <1>2 DEF Run
    <3> HIDE DEF x, last, n
    <3>3. RunOrderly(x, last, n, commits, objects, ref)
      BY <1>1, <1>2, <3>2 DEF RunOrderly
    <3> QED BY <3>1, <3>3
  <2>2. ASSUME NEW g \in Fitted(Candidate(r)),
               run' = [run EXCEPT ![r].step = "adopt", ![r].next = MarkerHandle(g)]
        PROVE  \E x \in Run :
                 run' = [run EXCEPT ![r] = x] /\ RunOrderly(x, last, n, commits, objects, ref)
    <3> DEFINE x == [run[r] EXCEPT !.step = "adopt", !.next = MarkerHandle(g)]
    <3>1. g \in Generation /\ g.head = run[r].head /\ g.recs = run[r].recs
      BY CandidateType, FittedKeeps DEF SoundLedger
    <3>2. /\ MarkerHandle(g) \in Handle /\ MarkerHandle(g).at = "marker"
          /\ MarkerHandle(g).payload = g /\ MarkerHandle(g) # NoHandle
      BY <3>1, HandleTypes, HandleForms DEF MarkerHandle, NoHandle
    <3>3. x \in Run /\ run' = [run EXCEPT ![r] = x]
      BY <1>2, <2>2, <3>2 DEF Run, Steps
    <3>4. x.step = "adopt" /\ x.next = MarkerHandle(g) /\ x.inline = run[r].inline
          /\ x.recs = run[r].recs
          /\ x.head = run[r].head /\ x.mk = run[r].mk /\ x.pass = run[r].pass
          /\ x.store = run[r].store /\ x.opened = run[r].opened
      BY <1>2 DEF Run
    <3> HIDE DEF x, last, n
    <3>5. Gen(commits, x.next) = g
      BY <3>2, <3>4 DEF Gen
    <3>6. RunOrderly(x, last, n, commits, objects, ref)
      BY <1>1, <1>2, <3>1, <3>2, <3>4, <3>5 DEF RunOrderly
    <3> QED BY <3>3, <3>6
  <2> QED BY <2>1, <2>2 DEF PublishInline
<1> HIDE DEF last, n
<1>4. PICK x \in Run :
        run' = [run EXCEPT ![r] = x] /\ RunOrderly(x, last, n, commits, objects, ref)
  BY <1>3
<1>5. /\ Grows(commits, commits') /\ Held(commits', objects', ref', last)
      /\ RunOrderly(x, last, n, commits', objects', ref')
  BY <1>1, <1>2, <1>4, Unchanged
<1> QED
  BY <1>1, <1>4, <1>5, OrderlyRun DEF last, n

LEMMA AdoptOrderly ==
    ASSUME SoundLedger, OrderlyInv, ~disturbed, NEW r \in Runs, Adopt(r)
    PROVE  OrderlyInv' /\ ProgressStep
<1> DEFINE x == [run[r] EXCEPT !.step = IF run[r].opened THEN "edit" ELSE "judge",
                   !.opened = TRUE, !.mk = run[r].next, !.next = NoHandle, !.parent = 0]
           mk == run[r].mk
           next == run[r].next
           last == LastIn(markers)
           n == Len(markers)
<1>1. /\ Active(r) /\ run[r].step = "adopt" /\ commits' = commits /\ objects' = objects
      /\ ref' = ref
  BY DEF Adopt, At, Active
<1>2. /\ RunOrderly(run[r], last, n, commits, objects, ref)
      /\ Held(commits, objects, ref, mk) /\ Held(commits, objects, ref, last)
      /\ run[r] \in Run /\ next \in Handle /\ Follows(commits, last, mk)
  BY <1>1, AtWork, HeldFollows
<1>3. CASE head # run[r].head
  <2>1. ReportFatal(r)
    BY <1>3 DEF Adopt
  <2> QED BY <1>1, <1>2, <2>1, OrderlyFatal
<1>4. CASE head = run[r].head
  <2>1. run' = [run EXCEPT ![r] = x] /\ markers' = markers
    BY <1>4 DEF Adopt
  <2>2. x \in Run
    BY <1>2, HandleTypes, ReadyType DEF Run, Steps
  <2>3. x.step \in {"edit", "judge"} /\ x.opened = TRUE /\ x.mk = next
        /\ x.inline = run[r].inline /\ x.recs = run[r].recs /\ x.head = run[r].head
        /\ x.pass = run[r].pass /\ x.store = run[r].store
    BY <1>2 DEF Run
  <2> HIDE DEF x, last, n
  <2>4. /\ next # NoHandle /\ Gen(commits, next).head = x.head /\ Gen(commits, next).recs = x.recs
        /\ next.at = "ref" => /\ ~x.inline /\ next.commit \in objects
                              /\ next.commit \in Anc(commits, ref)
                              /\ last.at = "ref" => last.commit \in Anc(commits, next.commit)
        /\ next.at = "marker" => x.inline
        /\ mk # NoHandle => Carries(Gen(commits, mk), x.head, x.recs)
    BY <1>1, <1>2, <2>3 DEF RunOrderly
  <2> HIDE DEF next
  <2>5. Held(commits, objects, ref, next)
    BY <2>4 DEF Held
  <2>6. Carries(Gen(commits, next), x.head, x.recs)
    BY <2>4 DEF Carries
  <2>7. Follows(commits, last, next)
    <3> SUFFICES ASSUME last # NoHandle
                 PROVE  Carries(Gen(commits, last), Gen(commits, next).head, Gen(commits, next).recs)
      BY DEF Follows
    <3>1. ~run[r].opened => mk = last
      BY <1>2 DEF RunOrderly
    <3>2. run[r].opened => mk # NoHandle /\ Gen(commits, mk).head = x.head
      BY <1>2, <2>3 DEF RunOrderly
    <3>3. CASE ~run[r].opened
      BY <2>4, <3>1, <3>3
    <3>4. CASE run[r].opened
      BY <1>2, <2>4, <3>2, <3>4 DEF Carries, Follows
    <3> QED BY <3>3, <3>4
  <2>8. x.store = "marker" => x.inline /\ next.at # "ref"
    BY <1>2, <2>3, <2>4 DEF RunOrderly
  <2>9. x.pass = n
    BY <1>2, <2>3 DEF RunOrderly
  <2>10. RunOrderly(x, last, n, commits, objects, ref)
    BY <2>3, <2>4, <2>5, <2>6, <2>7, <2>8, <2>9 DEF RunOrderly
  <2>11. /\ Grows(commits, commits') /\ Held(commits', objects', ref', last)
         /\ RunOrderly(x, last, n, commits', objects', ref')
    BY <1>1, <1>2, <2>10, Unchanged
  <2> QED BY <1>1, <2>1, <2>2, <2>11, OrderlyRun DEF last, n
<1> QED
  BY <1>3, <1>4

LEMMA JudgeOrderly ==
    ASSUME SoundLedger, OrderlyInv, ~disturbed, NEW r \in Runs, Judge(r), SoundLedger'
    PROVE  OrderlyInv' /\ ProgressStep
<1> DEFINE last == LastIn(markers)
           n == Len(markers)
           x == run'[r]
<1>1. /\ Active(r) /\ run[r].step = "judge" /\ commits' = commits /\ objects' = objects
      /\ ref' = ref /\ markers' = markers
  BY DEF Judge, At, Active, forge
<1>2. /\ RunOrderly(run[r], last, n, commits, objects, ref)
      /\ Held(commits, objects, ref, run[r].mk) /\ Held(commits, objects, ref, last)
      /\ run[r] \in Run /\ run \in [Runs -> Run] /\ run' \in [Runs -> Run]
  BY <1>1, AtWork, Unchanged DEF SoundLedger, TypeOK
<1>3. PICK batch \in (SUBSET Outstanding(r)) \ {{}} : \E answer \in [batch -> Verdicts] :
        /\ run' = [run EXCEPT ![r] = [run[r] EXCEPT
             !.step = "parent",
             !.recs = [u \in Units |-> IF u \in batch THEN answer[u] ELSE run[r].recs[u]],
             !.supplied = run[r].supplied \cup batch]]
        /\ judged' = judged \cup {<<run[r].head, u, answer[u]>> : u \in batch}
  BY DEF Judge
<1>4. PICK answer \in [batch -> Verdicts] :
        /\ run' = [run EXCEPT ![r] = [run[r] EXCEPT
             !.step = "parent",
             !.recs = [u \in Units |-> IF u \in batch THEN answer[u] ELSE run[r].recs[u]],
             !.supplied = run[r].supplied \cup batch]]
        /\ judged' = judged \cup {<<run[r].head, u, answer[u]>> : u \in batch}
  BY <1>3
<1>5. x \in Run /\ run' = [run EXCEPT ![r] = x]
  BY <1>2, <1>4
<1>6. x.step = "parent" /\ x.inline = run[r].inline
      /\ x.head = run[r].head /\ x.mk = run[r].mk /\ x.pass = run[r].pass
      /\ x.store = run[r].store /\ x.opened = run[r].opened
      /\ \A u \in Units : run[r].recs[u] # "outstanding" => x.recs[u] = run[r].recs[u]
  BY <1>2, <1>3, <1>4 DEF Run, Outstanding
<1> HIDE DEF x, last, n
<1>7. RunOrderly(x, last, n, commits, objects, ref)
  <2>1. x.mk # NoHandle => Carries(Gen(commits, x.mk), x.head, x.recs)
    BY <1>1, <1>2, <1>6 DEF RunOrderly, Carries
  <2> QED BY <1>1, <1>2, <1>6, <2>1 DEF RunOrderly
<1>8. /\ Grows(commits, commits') /\ Held(commits', objects', ref', last)
      /\ RunOrderly(x, last, n, commits', objects', ref')
  BY <1>1, <1>2, <1>7, Unchanged
<1> QED
  BY <1>1, <1>5, <1>8, OrderlyRun DEF last, n

(* The commit point: what the run holds becomes the newest handle. *)
LEMMA EditOrderly ==
    ASSUME SoundLedger, OrderlyInv, ~disturbed, NEW r \in Runs, Edit(r), SoundLedger'
    PROVE  OrderlyInv' /\ ProgressStep
<1> DEFINE x == [run[r] EXCEPT !.step = "judge"]
           mk == run[r].mk
           last == LastIn(markers)
           next == LastIn(markers')
           n == Len(markers)
<1>1. Active(r) /\ run[r].step = "edit" /\ commits' = commits /\ objects' = objects /\ ref' = ref
  BY DEF Edit, At, Active
<1>2. /\ RunOrderly(run[r], last, n, commits, objects, ref)
      /\ Held(commits, objects, ref, mk) /\ Held(commits, objects, ref, last)
      /\ run[r] \in Run /\ mk \in Handle /\ SoundIn(commits, judged, mk)
      /\ run \in [Runs -> Run]
  BY <1>1, AtWork, Unchanged
<1>3. CASE ReportFatal(r)
  BY <1>1, <1>2, <1>3, OrderlyFatal
<1>4. CASE EditClaim(r, "started", FALSE) /\ run' = [run EXCEPT ![r].step = "judge"]
  <2>1. /\ markers' \in Seq(Marker) /\ DOMAIN markers' = DOMAIN markers
        /\ Len(markers') = Len(markers)
        /\ markers'[run[r].pass].handle \in Written(run[r].mk)
        /\ \A p \in DOMAIN markers \ {run[r].pass} : markers'[p] = markers[p]
    BY <1>1, <1>4, EditSound
  <2>2. next \in Written(mk)
    BY <1>1, <2>1, LastEdited
  <2>3. ProgressStep /\ Held(commits', objects', ref', next)
    BY <1>1, <1>2, <2>2, EditProgress
  <2>4. mk # NoHandle
    BY <1>1, <1>2 DEF RunOrderly
  <2>5. /\ Gen(commits, next).head = Gen(commits, mk).head
        /\ Gen(commits, next).recs = Gen(commits, mk).recs
        /\ next # NoHandle /\ next.at = mk.at /\ (mk.at = "ref" => next = mk)
    BY <1>2, <2>2, <2>4, WrittenGen
  <2>6. /\ x.step = "judge" /\ x.inline = run[r].inline /\ x.recs = run[r].recs
        /\ x.head = run[r].head /\ x.mk = mk /\ x.pass = run[r].pass
        /\ x.store = run[r].store /\ x.opened = run[r].opened
    BY <1>2 DEF Run
  <2>7. run'[r] = x /\ \A q \in Runs \ {r} : run'[q] = run[q]
    BY <1>2, <1>4
  <2> HIDE DEF x, mk, last, next, n
  <2>8. Follows(commits, next, mk)
    BY <2>5 DEF Follows, Carries
  <2>9. mk.at = "ref" => next.commit \in Anc(commits, mk.commit)
    BY <1>2, <2>5, CommitsForm, AncIs DEF SoundIn, OursIn
  <2>10. RunOrderly(x, next, n, commits, objects, ref)
    BY <1>1, <1>2, <2>6, <2>5, <2>8, <2>9 DEF RunOrderly, mk
  <2>11. \A q, w \in Runs : Active(q)' /\ Active(w)' => q = w
    BY <1>1, <2>7 DEF OrderlyInv, Active
  <2>12. \A q \in Runs : Active(q)' => RunOrderly(run'[q], next, n, commits', objects', ref')
    BY <1>1, <2>7, <2>10 DEF OrderlyInv, Active
  <2>13. OrderlyInv'
    BY <2>1, <2>3, <2>11, <2>12 DEF OrderlyInv, next, n
  <2> QED BY <2>3, <2>13
<1> QED
  BY <1>3, <1>4 DEF Edit

LEMMA SettleOrderly ==
    ASSUME SoundLedger, OrderlyInv, ~disturbed, NEW r \in Runs, Settle(r)
    PROVE  OrderlyInv' /\ ProgressStep
<1> DEFINE green == Converged(r)
<1>1. /\ Active(r) /\ End(r) /\ EditClaim(r, "complete", green)
      /\ commits' = commits /\ objects' = objects
      /\ ref' \in Restored(run[r].store, run[r].mk)
  BY DEF Settle, At, Active
<1>2. green \in BOOLEAN /\ (green => \A u \in Units : <<run[r].head, u, "no_issue">> \in judged)
  BY ConvergedIsJudged
<1> HIDE DEF green
<1>3. ref' = ref
  BY <1>1, ReadsItsOwn
<1>4. Held(commits, objects, ref', run[r].mk) /\ Held(commits, objects, ref', LastIn(markers))
  BY <1>1, <1>3, AtWork
<1> QED
  BY <1>1, <1>2, <1>4, OrderlyEnds

LEMMA HaltOrderly ==
    ASSUME SoundLedger, OrderlyInv, ~disturbed, NEW r \in Runs, Halt(r)
    PROVE  OrderlyInv' /\ ProgressStep
<1>1. /\ Active(r) /\ End(r) /\ EditClaim(r, "incomplete", FALSE)
      /\ commits' = commits /\ objects' = objects /\ ref' = ref
  BY DEF Halt, At, Active
<1>2. Held(commits, objects, ref', run[r].mk) /\ Held(commits, objects, ref', LastIn(markers))
  BY <1>1, AtWork
<1> QED
  BY <1>1, <1>2, OrderlyEnds

LEMMA FailOrderly ==
    ASSUME SoundLedger, OrderlyInv, ~disturbed, NEW r \in Runs, Fail(r)
    PROVE  OrderlyInv' /\ ProgressStep
<1>1. Active(r) /\ ReportFatal(r) /\ commits' = commits /\ objects' = objects /\ ref' = ref
  BY DEF Fail
<1>2. Held(commits, objects, ref', run[r].mk) /\ Held(commits, objects, ref', LastIn(markers))
  BY <1>1, AtWork
<1> QED
  BY <1>1, <1>2, OrderlyFatal

(* A collection takes what no ref reaches and no run has just created. *)
LEMMA WorldOrderly ==
    ASSUME SoundLedger, OrderlyInv, ~disturbed,
           Push \/ Reconfigure \/ Collect \/ UNCHANGED vars
    PROVE  OrderlyInv' /\ ProgressStep
<1> DEFINE last == LastIn(markers)
           n == Len(markers)
<1>1. /\ commits' = commits /\ ref' = ref /\ markers' = markers /\ run' = run
      /\ \/ objects' = objects
         \/ objects' = objects \cap (Ancestry(ref) \cup
              {run[r].next.commit : r \in {q \in Runs : run[q].next.at = "ref"}})
  BY DEF Push, Reconfigure, Collect, vars
<1>2. Ancestry(ref) = Anc(commits, ref)
  BY CommitsForm
<1>3. /\ \A c \in objects : c \in Anc(commits, ref) => c \in objects'
      /\ \A r \in Runs : run[r].next.at = "ref" /\ run[r].next.commit \in objects
                           => run[r].next.commit \in objects'
  BY <1>1, <1>2
<1>4. Held(commits, objects', ref, last)
  BY <1>3 DEF OrderlyInv, Held
<1>5. ASSUME NEW r \in Runs, RunOrderly(run[r], last, n, commits, objects, ref)
      PROVE  RunOrderly(run[r], last, n, commits, objects', ref)
  <2>1. Held(commits, objects', ref, run[r].mk)
    BY <1>3, <1>5 DEF RunOrderly, Held
  <2> HIDE DEF last, n
  <2> QED BY <1>3, <1>5, <2>1 DEF RunOrderly
<1>6. OrderlyInv'
  BY <1>1, <1>4, <1>5 DEF OrderlyInv, Active
<1>7. ProgressStep
  BY <1>1, CarriesSelf DEF ProgressStep
<1> QED
  BY <1>6, <1>7

LEMMA OrderlyInit == Init => OrderlyInv
<1> SUFFICES ASSUME Init PROVE OrderlyInv
  OBVIOUS
<1>1. \A r \in Runs : run[r].step = "ready"
  BY DEF Init, ReadyRun
<1>2. LastIn(markers) = NoHandle
  BY DEF Init, LastIn, ClaimedIn
<1> QED
  BY <1>1, <1>2, HandleTypes DEF OrderlyInv, Active, Held

(* Once disturbed, always so; until then every step is orderly. *)
LEMMA OrderlyStep ==
    ASSUME SoundLedger, OrderlyInv, [Next]_vars
    PROVE  OrderlyInv' /\ (~disturbed' => ProgressStep)
<1>1. SoundLedger'
  BY LedgerStep
<1>2. CASE disturbed'
  BY <1>2 DEF OrderlyInv
<1>3. CASE ~disturbed'
  <2>1. ~disturbed
    <3>1. ASSUME NEW r \in Runs, Start(r) PROVE ~disturbed
      BY <1>3, <3>1, ForgeTypes DEF Start
    <3>2. ASSUME NEW r \in Runs,
                 \/ Read(r) \/ ParentFor(r) \/ StoreObjects(r) \/ MoveRef(r) \/ Refused(r)
                 \/ MoveUnanswered(r) \/ PublishInline(r) \/ Adopt(r) \/ Judge(r) \/ Edit(r)
                 \/ Settle(r) \/ Halt(r) \/ Fail(r)
          PROVE  disturbed' = disturbed
      BY <3>2 DEF Read, ParentFor, StoreObjects, MoveRef, Refused, MoveUnanswered, PublishInline,
                  Adopt, Judge, Edit, Settle, Halt, Fail
    <3>3. CASE Push \/ Reconfigure \/ DeleteRef \/ ForeignMove \/ Collect \/ UNCHANGED vars
      BY <1>3, <3>3 DEF Push, Reconfigure, DeleteRef, ForeignMove, Collect, vars
    <3> QED BY <1>3, <3>1, <3>2, <3>3 DEF Next, Stopped
  <2>2. ASSUME NEW r \in Runs,
               \/ Start(r) \/ Read(r) \/ ParentFor(r) \/ StoreObjects(r) \/ MoveRef(r)
               \/ Refused(r) \/ MoveUnanswered(r) \/ PublishInline(r) \/ Adopt(r) \/ Judge(r)
               \/ Edit(r) \/ Settle(r) \/ Halt(r) \/ Fail(r)
        PROVE  OrderlyInv' /\ ProgressStep
    BY <1>1, <1>3, <2>1, <2>2, StartOrderly, ReadOrderly, ParentForOrderly, StoreObjectsOrderly,
       MoveRefOrderly, RefusedOrderly, MoveUnansweredOrderly, PublishInlineOrderly, AdoptOrderly,
       JudgeOrderly, EditOrderly, SettleOrderly, HaltOrderly, FailOrderly
  <2>3. CASE Push \/ Reconfigure \/ Collect \/ UNCHANGED vars
    BY <2>1, <2>3, WorldOrderly
  <2>4. ~DeleteRef /\ ~ForeignMove
    BY <1>3 DEF DeleteRef, ForeignMove
  <2> QED BY <2>2, <2>3, <2>4 DEF Next, Stopped
<1> QED
  BY <1>2, <1>3

LEMMA LedgerIsOrderly == Spec => [](SoundLedger /\ OrderlyInv)
<1>1. Init => SoundLedger /\ OrderlyInv
  BY LedgerInit, OrderlyInit
<1>2. SoundLedger /\ OrderlyInv /\ [Next]_vars => (SoundLedger /\ OrderlyInv)'
  BY LedgerStep, OrderlyStep
<1> QED
  BY <1>1, <1>2, PTL DEF Spec

(* While runs are orderly and nobody else touches the ref, no collection   *)
(* reaches the generation the newest marker names: a run parents on the    *)
(* handle its marker carries, so each commit it moves the ref to reaches   *)
(* the one named before (coverage_refs.go, ParentFor).                     *)
THEOREM NewestHandleIsKept == Spec => []NewestIsKept
<1>1. SoundLedger /\ OrderlyInv => NewestIsKept
  BY LastIs DEF NewestIsKept, OrderlyInv, Held
<1> QED
  BY <1>1, LedgerIsOrderly, PTL

(* Orderly passes at one revision keep their progress: a step that changes *)
(* what the newest marker names keeps every verdict of the same revision   *)
(* it counted, over resumes, fallbacks to the marker, compaction, halts,   *)
(* failures and crashes.                                                   *)
THEOREM OrderlyProgressIsKept == Spec => ProgressKept
<1> DEFINE g == Named(markers[Newest].handle)
           Kept == ~disturbed' /\ Claimed # {} /\ Claimed' # {} =>
                     (g.head = g'.head =>
                        \A u \in Units : g.recs[u] # "outstanding" => (g').recs[u] = g.recs[u])
<1>1. ASSUME SoundLedger, OrderlyInv, [Next]_vars
      PROVE  Kept
  <2> SUFFICES ASSUME ~disturbed', Claimed # {}, Claimed' # {}
               PROVE  g.head = g'.head =>
                        \A u \in Units : g.recs[u] # "outstanding" => (g').recs[u] = g.recs[u]
    OBVIOUS
  <2>1. ProgressStep /\ markers \in Seq(Marker) /\ markers' \in Seq(Marker)
    BY <1>1, LedgerStep, OrderlyStep DEF SoundLedger, TypeOK
  <2>2. g = Gen(commits, LastIn(markers)) /\ LastIn(markers) # NoHandle
    BY <2>1, LastIs, LastForms DEF Named, Gen
  <2>3. g' = Gen(commits', LastIn(markers'))
    BY DEF Named, Gen, Claimed, ClaimedIn, Newest, LastIn
  <2>4. LastIn(markers') # NoHandle
    BY <2>1, LastForms DEF Claimed, ClaimedIn
  <2> HIDE DEF g
  <2> QED BY <2>1, <2>2, <2>3, <2>4 DEF ProgressStep, Carries
<1>2. SoundLedger /\ OrderlyInv /\ [Next]_vars => [Kept]_vars
  BY <1>1
<1>3. ProgressKept <=> [][Kept]_vars
  BY DEF ProgressKept
<1> QED
  BY <1>2, <1>3, LedgerIsOrderly, PTL DEF Spec
===============================================================================
