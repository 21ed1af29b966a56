-------------------------------- MODULE Ledger --------------------------------
(***************************************************************************)
(* The coverage ledger of one reviewer slot: the git objects and the ref   *)
(* of the ref store, the inline payload of the marker store, the `auto'    *)
(* store that falls from the first to the second, and the handle on a pass *)
(* marker that names a generation in either.  Runs read, resume, publish   *)
(* and commit generations; pushes, other writers of the ref, deletions of  *)
(* the ref, garbage collection, refusals, failures and crashes interleave  *)
(* with their calls.                                                       *)
(***************************************************************************)
EXTENDS Naturals, Sequences, FiniteSets

CONSTANTS
    Units,       \* the required files, the same at every head
    Runs,        \* review runs, each used once
    Stores,      \* the values coverage.store may take
    OnOverflow,  \* coverage.on_overflow
    MaxHead,     \* bound on pushes
    MaxCommits,  \* bound on ledger commits
    MaxEvents    \* bound on pushes, overlaps, failures and what others do

ASSUME LedgerAssumption ==
    /\ IsFiniteSet(Units) /\ Units # {}
    /\ Stores \subseteq {"auto", "refs", "marker"}
    /\ OnOverflow \in {"degrade", "halt"}
    /\ {MaxCommits, MaxEvents} \subseteq Nat /\ MaxHead \in Nat \ {0}

VARIABLES
    head,       \* the pull request's head
    config,     \* coverage.store
    commits,    \* every ledger commit ever created
    objects,    \* the commits whose objects the forge still holds
    ref,        \* the commit the slot's ref points at, 0 when it is absent
    markers,    \* the review markers, one per pass
    run,        \* what each run holds in memory
    judged,     \* history: the verdicts a model call has given
    disturbed,  \* history: whether anything but orderly runs touched the slot
    used        \* what is spent of MaxEvents

vars == <<head, config, commits, objects, ref, markers, run, judged, disturbed, used>>
forge == <<head, config, commits, objects, ref, markers>>

Heads == 1..MaxHead
Verdicts == {"no_issue", "could_not_review"}
Records == [Units -> Verdicts \cup {"outstanding"}]
Us == "a run"
Others == "another writer"

(* A generation: its revision, its form, its records and the records that  *)
(* keep the measurement of what the call was supplied.                     *)
Generation == [head : Heads, form : {"full", "compact"}, recs : Records,
               supplied : SUBSET Units]

Commit == [of : Generation, parent : 0..MaxCommits, by : {Us, Others}]

(* What a marker records: a ref handle names a commit and carries nothing, *)
(* a marker handle carries the generation and names no commit.             *)
NoHandle == [at |-> "none"]
RefHandle(c) == [at |-> "ref", commit |-> c]
MarkerHandle(g) == [at |-> "marker", payload |-> g]

Handle ==
    {NoHandle} \cup [at : {"ref"}, commit : 1..MaxCommits]
               \cup [at : {"marker"}, payload : Generation]

Marker == [head : Heads, state : {"started", "incomplete", "complete"},
           handle : Handle, green : BOOLEAN]

Unread == [u \in Units |-> "outstanding"]

Steps == {"ready", "read", "parent", "store", "move", "inline", "adopt", "judge",
          "edit", "halt", "done"}

ReadyRun ==
    [step |-> "ready", pass |-> 0, head |-> 1, store |-> "auto", inline |-> FALSE,
     mk |-> NoHandle, next |-> NoHandle, parent |-> 0, opened |-> FALSE,
     recs |-> Unread, supplied |-> {}]

Run == [step : Steps, pass : Nat, head : Heads, store : {"auto", "refs", "marker"},
        inline : BOOLEAN, mk : Handle, next : Handle, parent : 0..MaxCommits,
        opened : BOOLEAN, recs : Records, supplied : SUBSET Units]

Init ==
    /\ head = 1 /\ config \in Stores /\ commits = <<>> /\ objects = {} /\ ref = 0 /\ markers = <<>>
    /\ run = [r \in Runs |-> ReadyRun]
    /\ judged = {} /\ disturbed = FALSE
    /\ used = 0

At(r, step) == run[r].step = step
Active(r) == run[r].step \notin {"ready", "done"}
Event == used < MaxEvents /\ used' = used + 1

HoldsParents(S) == \A k \in S : commits[k].parent \in S \cup {0}

(* What a commit reaches by its parents: the least set that holds it and   *)
(* the parent of each of its own.                                          *)
Ancestry(c) ==
    {k \in DOMAIN commits :
       c # 0 /\ \A S \in SUBSET DOMAIN commits : c \in S /\ HoldsParents(S) => k \in S}

(***************************************************************************)
(* Encoding.  The compact form keeps a verdict code per path and nothing   *)
(* else of a record; the envelope stays whole.                             *)
(***************************************************************************)
VerdictCode(v) == CASE v = "outstanding" -> "0" [] v = "no_issue" -> "1" [] OTHER -> "4"

RecordFromVerdictCode(code) ==
    CASE code = "0" -> "outstanding" [] code = "1" -> "no_issue" [] OTHER -> "could_not_review"

(* Mutant: the code of a verdict is read back as the next one's. *)
CompactGenerationMiscoded(g) ==
    [g EXCEPT !.form = "compact", !.supplied = {},
       !.recs = [u \in Units |-> IF VerdictCode(g.recs[u]) = "4" THEN "no_issue" ELSE g.recs[u]]]

CompactGeneration(g) ==
    [g EXCEPT !.form = "compact", !.supplied = {},
       !.recs = [u \in Units |-> RecordFromVerdictCode(VerdictCode(g.recs[u]))]]

(* The decoder refuses a record that is outstanding and yet measured. *)
RecordDecodes(g, u) == u \in g.supplied => g.recs[u] # "outstanding"

Decodes(g) == \A u \in Units : RecordDecodes(g, u)

(* The candidate a run publishes: one record per required unit. *)
Candidate(r) ==
    [head |-> run[r].head, form |-> "full", recs |-> run[r].recs,
     supplied |-> {u \in run[r].supplied : run[r].recs[u] # "outstanding"}]

(***************************************************************************)
(* Reading what a handle names.  The ref store resolves the commit, never  *)
(* the ref; a handle the configured store cannot hold is corrupt state for *)
(* the ref store and a lost ledger for the marker store.                   *)
(***************************************************************************)
Named(h) == IF h.at = "ref" THEN commits[h.commit].of ELSE h.payload

Outcome(store, h) ==
    CASE h.at = "none" -> "unclaimed"
      [] h.at = "marker" -> IF store = "refs" THEN "corrupt"
                            ELSE IF Decodes(h.payload) THEN "generation" ELSE "corrupt"
      [] h.at = "ref" -> IF store = "marker" \/ h.commit \notin objects THEN "lost"
                         ELSE IF Decodes(Named(h)) THEN "generation" ELSE "corrupt"

(* A read creates the ref again when it is gone, best effort, and never    *)
(* moves one that is there.                                                *)
Restored(store, h) ==
    IF h.at = "ref" /\ Outcome(store, h) = "generation" /\ ref = 0 THEN {0, h.commit} ELSE {ref}

(***************************************************************************)
(* A pass.                                                                 *)
(***************************************************************************)
Claimed == {p \in DOMAIN markers : markers[p].handle # NoHandle}
Newest == CHOOSE p \in Claimed : \A q \in Claimed : q <= p

(* Mutant: a new pass starts a ledger of its own. *)
MarkerForPassUnseeded(pass) ==
    IF pass \in Claimed THEN markers[pass].handle ELSE NoHandle

(* The pass's own handle, else that of the newest earlier pass with one. *)
MarkerForPass(pass) ==
    IF pass \in Claimed THEN markers[pass].handle
    ELSE IF Claimed = {} THEN NoHandle ELSE markers[Newest].handle

(* What the ladder makes of a generation that rides in a comment: as it    *)
(* is, compacted under `degrade', or nothing at all.  The predecessor,     *)
(* shed first, is read by nobody.                                          *)
Fitted(g) ==
    {g} \cup (IF g.form = "full" /\ OnOverflow = "degrade" THEN {CompactGeneration(g)} ELSE {})

(* The marker a claim edit may leave behind, when the comment holds one. *)
Written(h) ==
    IF h.at = "marker" THEN {MarkerHandle(g) : g \in Fitted(h.payload)} ELSE {h}

EditClaim(r, state, green) ==
    \E h \in Written(run[r].mk) :
        markers' = [markers EXCEPT ![run[r].pass] =
                      [@ EXCEPT !.state = state, !.handle = h, !.green = green]]

End(r) == run' = [run EXCEPT ![r] = [ReadyRun EXCEPT !.step = "done"]]

(* A failed run reports itself on its claim, best effort, and ends: a run  *)
(* that is killed ends as one whose report is lost.                        *)
ReportFatal(r) ==
    /\ EditClaim(r, "incomplete", FALSE) \/ UNCHANGED markers
    /\ End(r)

Overlaps == \E q \in Runs : Active(q)

(* A run takes up the open pass at this head, or claims the next one. *)
Start(r) ==
    /\ At(r, "ready")
    /\ LET n == Len(markers)
           resumes == n # 0 /\ markers[n].state # "complete" /\ markers[n].head = head
           pass == IF resumes THEN n ELSE n + 1
       IN  /\ run' = [run EXCEPT ![r] = [ReadyRun EXCEPT !.step = "read", !.pass = pass,
                        !.head = head, !.store = config, !.inline = config = "marker",
                        !.mk = MarkerForPass(pass)]]
           /\ markers' = IF resumes THEN markers
                         ELSE Append(markers, [head |-> head, state |-> "started",
                                               handle |-> NoHandle, green |-> FALSE])
           /\ disturbed' = (disturbed \/ Overlaps
                             \/ (config = "marker" /\ MarkerForPass(pass).at = "ref"))
    /\ IF Overlaps THEN Event ELSE UNCHANGED used
    /\ UNCHANGED <<head, config, commits, objects, ref, judged>>

(* Mutant: a generation of another revision is resumed from. *)
ResumesAnyRevision(r, g) == TRUE

Resumes(r, g) == g.head = run[r].head

(* The pass's resumption point.  A lost or retired generation resumes from *)
(* zero, and keeps its number; one that cannot be read refuses the pass.   *)
Read(r) ==
    /\ At(r, "read")
    /\ LET h == run[r].mk
           outcome == Outcome(run[r].store, h)
           current == outcome = "generation" /\ Resumes(r, Named(h))
       IN  /\ ref' \in Restored(run[r].store, h)
           /\ IF outcome = "corrupt" THEN ReportFatal(r)
              ELSE /\ run' = [run EXCEPT ![r] = [run[r] EXCEPT
                        !.step = "parent",
                        !.recs = IF current THEN Named(h).recs ELSE Unread,
                        !.supplied = IF current THEN Named(h).supplied ELSE {}]]
                   /\ UNCHANGED markers
    /\ UNCHANGED <<head, config, commits, objects, judged, disturbed, used>>

(* Mutant: a publication parents on the ref's current target. *)
ParentIsTip(r, outcome) == ref

ParentOf(r, outcome) ==
    IF outcome = "generation" /\ run[r].mk.at = "ref" THEN run[r].mk.commit ELSE 0

(* The parent is the handle the marker carries; none when its objects are  *)
(* gone, and a refusal when it cannot be told.                             *)
ParentFor(r) ==
    /\ At(r, "parent")
    /\ LET outcome == Outcome(run[r].store, run[r].mk)
       IN  /\ ref' \in Restored(run[r].store, run[r].mk)
           /\ IF outcome = "corrupt" THEN ReportFatal(r)
              ELSE /\ run' = [run EXCEPT ![r] = [run[r] EXCEPT
                        !.step = IF run[r].inline THEN "inline" ELSE "store",
                        !.parent = ParentOf(r, outcome)]]
                   /\ UNCHANGED markers
    /\ UNCHANGED <<head, config, commits, objects, judged, disturbed, used>>

(* The blobs, the tree and the commit.  The forge refuses a commit whose   *)
(* parent it no longer holds.                                              *)
StoreObjects(r) ==
    /\ At(r, "store")
    /\ Len(commits) < MaxCommits
    /\ IF run[r].parent \in objects \cup {0}
       THEN /\ commits' = Append(commits, [of |-> Candidate(r), parent |-> run[r].parent,
                                           by |-> Us])
            /\ objects' = objects \cup {Len(commits')}
            /\ run' = [run EXCEPT ![r].step = "move",
                         ![r].next = RefHandle(Len(commits'))]
            /\ UNCHANGED markers
       ELSE /\ ReportFatal(r)
            /\ UNCHANGED <<commits, objects>>
    /\ UNCHANGED <<head, config, ref, judged, disturbed, used>>

(* Mutant: the ref is only created, never moved on. *)
MoveRefCreates(r) ==
    /\ At(r, "move")
    /\ ref' = IF ref = 0 THEN run[r].next.commit ELSE ref
    /\ run' = [run EXCEPT ![r].step = "adopt"]
    /\ UNCHANGED <<head, config, commits, objects, markers, judged, disturbed, used>>

(* Create the ref, or force it to the new commit. *)
MoveRef(r) ==
    /\ At(r, "move")
    /\ ref' = run[r].next.commit
    /\ run' = [run EXCEPT ![r].step = "adopt"]
    /\ UNCHANGED <<head, config, commits, objects, markers, judged, disturbed, used>>

(* A write is refused for want of permission or by a ruleset: `auto' keeps *)
(* the rest of the pass in the marker, `refs' fails.                       *)
Refused(r) ==
    /\ run[r].step \in {"store", "move"}
    /\ Event
    /\ IF run[r].store = "auto"
       THEN /\ run' = [run EXCEPT ![r].step = "inline", ![r].inline = TRUE,
                                  ![r].next = NoHandle]
            /\ UNCHANGED markers
       ELSE ReportFatal(r)
    /\ UNCHANGED <<head, config, commits, objects, ref, judged, disturbed>>

(* The update lands and its answer does not. *)
MoveUnanswered(r) ==
    /\ At(r, "move")
    /\ Event
    /\ ref' = run[r].next.commit
    /\ ReportFatal(r)
    /\ UNCHANGED <<head, config, commits, objects, judged, disturbed>>

(* The marker store: the generation fits, fits compacted, or is refused    *)
(* and the pass halts with what it has.                                    *)
PublishInline(r) ==
    /\ At(r, "inline")
    /\ \/ \E g \in Fitted(Candidate(r)) :
            run' = [run EXCEPT ![r].step = "adopt", ![r].next = MarkerHandle(g)]
       \/ run' = [run EXCEPT ![r].step = "halt"]
    /\ UNCHANGED <<forge, judged, disturbed, used>>

(* The pair is read again: a head that moved retires the candidate.  The   *)
(* handle goes onto the marker in memory; the edit is the commit point.    *)
Adopt(r) ==
    /\ At(r, "adopt")
    /\ IF head # run[r].head THEN ReportFatal(r)
       ELSE /\ run' = [run EXCEPT ![r] = [run[r] EXCEPT
                 !.step = IF run[r].opened THEN "edit" ELSE "judge", !.opened = TRUE,
                 !.mk = run[r].next, !.next = NoHandle, !.parent = 0]]
            /\ UNCHANGED markers
    /\ UNCHANGED <<head, config, commits, objects, ref, judged, disturbed, used>>

Outstanding(r) == {u \in Units : run[r].recs[u] = "outstanding"}

(* One call judges a batch of what is outstanding. *)
Judge(r) ==
    /\ At(r, "judge")
    /\ \E batch \in (SUBSET Outstanding(r)) \ {{}} : \E answer \in [batch -> Verdicts] :
         /\ run' = [run EXCEPT ![r] = [run[r] EXCEPT
              !.step = "parent",
              !.recs = [u \in Units |-> IF u \in batch THEN answer[u] ELSE run[r].recs[u]],
              !.supplied = run[r].supplied \cup batch]]
         /\ judged' = judged \cup {<<run[r].head, u, answer[u]>> : u \in batch}
    /\ UNCHANGED <<forge, disturbed, used>>

(* The commit point of a batch.  A marker payload may fit no comment, and  *)
(* then the edit fails.                                                    *)
Edit(r) ==
    /\ At(r, "edit")
    /\ \/ /\ EditClaim(r, "started", FALSE)
          /\ run' = [run EXCEPT ![r].step = "judge"]
       \/ run[r].mk.at = "marker" /\ ReportFatal(r)
    /\ UNCHANGED <<head, config, commits, objects, ref, judged, disturbed, used>>

(* Green: the generation the marker names reads, is of this revision and   *)
(* leaves nothing unread.                                                  *)
Converged(r) ==
    /\ Outcome(run[r].store, run[r].mk) = "generation"
    /\ LET g == Named(run[r].mk)
       IN  g.head = run[r].head /\ \A u \in Units : g.recs[u] = "no_issue"

Settle(r) ==
    /\ At(r, "judge") /\ Outstanding(r) = {}
    /\ EditClaim(r, "complete", Converged(r))
    /\ ref' \in Restored(run[r].store, run[r].mk)
    /\ End(r)
    /\ UNCHANGED <<head, config, commits, objects, judged, disturbed, used>>

Halt(r) ==
    /\ At(r, "halt")
    /\ EditClaim(r, "incomplete", FALSE)
    /\ End(r)
    /\ UNCHANGED <<head, config, commits, objects, ref, judged, disturbed, used>>

(* A call fails, or the process is killed. *)
Fail(r) ==
    /\ Active(r)
    /\ Event
    /\ ReportFatal(r)
    /\ UNCHANGED <<head, config, commits, objects, ref, judged, disturbed>>

(***************************************************************************)
(* The rest of the world.                                                  *)
(***************************************************************************)
Push ==
    /\ head < MaxHead
    /\ Event
    /\ head' = head + 1
    /\ UNCHANGED <<config, commits, objects, ref, markers, run, judged, disturbed>>

(* The operator changes coverage.store. *)
Reconfigure ==
    /\ Event
    /\ config' \in Stores \ {config}
    /\ UNCHANGED <<head, commits, objects, ref, markers, run, judged, disturbed>>

(* A mirror push deletes the ref. *)
DeleteRef ==
    /\ ref # 0
    /\ Event /\ disturbed' = TRUE
    /\ ref' = 0
    /\ UNCHANGED <<head, config, commits, objects, markers, run, judged>>

(* Someone moves the ref to a commit of their own that claims everything. *)
ForeignMove ==
    /\ Len(commits) < MaxCommits
    /\ Event /\ disturbed' = TRUE
    /\ commits' = Append(commits,
         [parent |-> 0, by |-> Others,
          of |-> [head |-> head, form |-> "full", supplied |-> Units,
                  recs |-> [u \in Units |-> "no_issue"]]])
    /\ objects' = objects \cup {Len(commits')}
    /\ ref' = Len(commits')
    /\ UNCHANGED <<head, config, markers, run, judged>>

(* The forge collects what no ref reaches.  Objects a run has just created *)
(* are younger than any collection.                                        *)
Collect ==
    /\ objects' = objects \cap
         (Ancestry(ref) \cup {run[r].next.commit : r \in {q \in Runs : run[q].next.at = "ref"}})
    /\ objects' # objects
    /\ UNCHANGED <<head, config, commits, ref, markers, run, judged, disturbed, used>>

Stopped ==
    /\ \A r \in Runs : At(r, "done")
    /\ UNCHANGED vars

Next ==
    \/ \E r \in Runs :
         \/ Start(r) \/ Read(r) \/ ParentFor(r) \/ StoreObjects(r) \/ MoveRef(r)
         \/ Refused(r) \/ MoveUnanswered(r) \/ PublishInline(r) \/ Adopt(r) \/ Judge(r)
         \/ Edit(r) \/ Settle(r) \/ Halt(r) \/ Fail(r)
    \/ Push \/ Reconfigure \/ DeleteRef \/ ForeignMove \/ Collect
    \/ Stopped

Spec == Init /\ [][Next]_vars

-------------------------------------------------------------------------------
(* Every variable stays within its type. *)
TypeOK ==
    /\ head \in Heads /\ config \in Stores
    /\ commits \in Seq(Commit) /\ Len(commits) <= MaxCommits
    /\ objects \subseteq DOMAIN commits
    /\ ref \in {0} \cup DOMAIN commits
    /\ markers \in Seq(Marker)
    /\ run \in [Runs -> Run]
    /\ judged \subseteq Heads \X Units \X Verdicts
    /\ disturbed \in BOOLEAN
    /\ used \in 0..MaxEvents

(* What a generation says was judged was judged, at its own revision. *)
Honest(g) ==
    \A u \in Units : g.recs[u] = "outstanding" \/ <<g.head, u, g.recs[u]>> \in judged

(* Losing the ledger costs repeated work, never a wrong answer: whatever a *)
(* marker names, and whatever a run resumed, is the answer of a call made  *)
(* at that revision, through every crash, collection and foreign commit.   *)
CoveredWasJudged ==
    /\ \A p \in Claimed : Honest(Named(markers[p].handle))
    /\ \A r \in Runs : Honest(Candidate(r))

(* A green pass was judged whole at its own head, by a ledger that could   *)
(* still be read: a lost or unreadable one never keeps a converged label.  *)
GreenWasRead ==
    \A p \in DOMAIN markers : markers[p].green =>
        \A u \in Units : <<markers[p].head, u, "no_issue">> \in judged

(* Another writer can move the ref, and never has its commit adopted: the  *)
(* chain behind a handle a marker records is made of runs' own commits.    *)
AncestryIsOurs ==
    \A p \in Claimed : markers[p].handle.at = "ref" =>
        \A c \in DOMAIN commits :
            commits[c].by = Others => c \notin Ancestry(markers[p].handle.commit)

(* While runs are orderly and nobody else touches the ref, no collection   *)
(* reaches the generation the newest marker names, whatever calls fail.    *)
NewestIsKept ==
    ~disturbed /\ Claimed # {} => 
        LET h == markers[Newest].handle IN h.at = "ref" => h.commit \in objects

(* Orderly passes at one revision keep their progress: what the newest     *)
(* marker counts as judged stays judged, over resumes, fallbacks to the    *)
(* marker, compaction, halts, failures and crashes.                        *)
ProgressKept ==
    [][~disturbed' /\ Claimed # {} /\ Claimed' # {} =>
         LET g == Named(markers[Newest].handle)
             h == (Named(markers[Newest].handle))'
         IN  g.head = h.head =>
               \A u \in Units : g.recs[u] # "outstanding" => h.recs[u] = g.recs[u]]_vars
===============================================================================
