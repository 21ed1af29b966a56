--------------------------------- MODULE Diff ---------------------------------
(***************************************************************************)
(* A unified diff as the review leg reads it: numbered line by line, cut   *)
(* down to the window around each change for the prompt, and searched for  *)
(* the line a finding can be posted on.  The reviewer quotes the numbers   *)
(* of the cut diff; comments are placed with those of the pull request's.  *)
(*                                                                         *)
(* A diff is a sequence of records: a file header stands for its `diff     *)
(* --git', `---' and `+++' lines, an `at' record for `@@', and a line's    *)
(* text is its kind.  Number 0 is the side a line does not have.           *)
(***************************************************************************)
EXTENDS Naturals, FiniteSets, SequencesExt

CONSTANT None \* a file header's side that is /dev/null or was not written

Absent == 0
Changes == {"add", "del"}
Numbered == Changes \cup {"ctx"}

FileRecord(a, b) == [kind |-> "file", a |-> a, b |-> b, old |-> 0, new |-> 0]
HunkRecord(old, new) == [kind |-> "at", a |-> None, b |-> None, old |-> old, new |-> new]
TextRecord(kind) == [kind |-> kind, a |-> None, b |-> None, old |-> 0, new |-> 0]
-----------------------------------------------------------------------------
(* git diff -U<context> of one file, given how its lines changed in order. *)
GitDiff(file, context) ==
    LET edits  == file.edits
        Count(kinds, i) == Cardinality({j \in 1..(i - 1) : edits[j] \in kinds})
        Kept(i) == \E j \in DOMAIN edits :
                      /\ edits[j] \in Changes
                      /\ j <= i + context /\ i <= j + context
        Starts(i) == Kept(i) /\ (i = 1 \/ ~Kept(i - 1))
        \* a side with no line in the hunk starts one line earlier
        Ends(i) == CHOOSE e \in i..Len(edits) :
                     /\ \A j \in i..e : Kept(j)
                     /\ e = Len(edits) \/ ~Kept(e + 1)
        Start(i, kinds) == IF \E j \in i..Ends(i) : edits[j] \in kinds
                           THEN Count(kinds, i) + 1 ELSE Count(kinds, i)
        At(i) == IF Starts(i)
                 THEN <<HunkRecord(Start(i, {"del", "ctx"}), Start(i, {"add", "ctx"}))>> ELSE <<>>
        Text(i) == <<TextRecord(edits[i])>>
                   \o (IF file.unterminated /\ i = Len(edits) THEN <<TextRecord("note")>> ELSE <<>>)
        Record(i) == IF Kept(i) THEN At(i) \o Text(i) ELSE <<>>
        Header == FileRecord(IF file.change = "added" THEN None ELSE file.old,
                             IF file.change = "deleted" THEN None ELSE file.path)
    IN  <<Header>> \o FlattenSeq([i \in DOMAIN edits |-> Record(i)])
-----------------------------------------------------------------------------
(* One pass over the records, with the file's two paths and both counters. *)
Line(s, r, old, new) ==
    [kind |-> r.kind, a |-> s.a, b |-> s.b, old |-> old, new |-> new, at |-> s.at,
     from |-> <<s.old, s.new>>]

ParseRecord(s, r) ==
    LET Keep(t, old, new) == [t EXCEPT !.lines = Append(@, Line(t, r, old, new))]
    IN  CASE r.kind = "file" ->
               Keep([s EXCEPT !.a = r.a, !.b = r.b, !.hunk = FALSE], Absent, Absent)
          [] r.kind = "at" ->
               Keep([s EXCEPT !.hunk = TRUE, !.at = <<r.old, r.new>>,
                              !.old = r.old, !.new = r.new], Absent, Absent)
          [] r.kind = "note" \/ ~s.hunk -> Keep(s, Absent, Absent)
          [] r.kind = "add" /\ s.hunk -> [Keep(s, Absent, s.new) EXCEPT !.new = @ + 1]
          [] r.kind = "del" /\ s.hunk -> [Keep(s, s.old, Absent) EXCEPT !.old = @ + 1]
          [] r.kind = "ctx" /\ s.hunk ->
               [Keep(s, s.old, s.new) EXCEPT !.old = @ + 1, !.new = @ + 1]

Parse(records) ==
    FoldLeft(ParseRecord, [a |-> None, b |-> None, hunk |-> FALSE, at |-> <<0, 0>>,
                           old |-> 0, new |-> 0, lines |-> <<>>], records).lines

(* The lines that carry a number, as the gutter shows them.                *)
Gutter(lines) ==
    LET body == SelectSeq(lines, LAMBDA l : l.kind \in Numbered)
    IN  [i \in DOMAIN body |-> [kind |-> body[i].kind, a |-> body[i].a, b |-> body[i].b,
                                old |-> body[i].old, new |-> body[i].new]]

HasChanges(lines) == \E l \in Range(lines) : l.kind \in Changes
Headers(records) == SelectSeq(records, LAMBDA r : r.kind \in {"file", "at"})

(* The spans a side shows are the runs of this set: a span lies within one *)
(* of them exactly when each of its lines is in the set.                   *)
LineRanges(lines) ==
    [base |-> {l.old : l \in Range(lines)} \ {Absent},
     head |-> {l.new : l \in Range(lines)} \ {Absent}]
-----------------------------------------------------------------------------
(* Whole files dropped: a path that is, or lies under, an excluded one; a  *)
(* rename counts under either name.  Only is a batch's own slice.          *)
Excluded(records, hits) ==
    LET lines == Parse(records)
        Dropped(i) == lines[i].a \in hits \/ lines[i].b \in hits
    IN  FlattenSeq([i \in DOMAIN records |-> IF Dropped(i) THEN <<>> ELSE <<records[i]>>])

Only(records, paths) ==
    LET lines == Parse(records)
        Kept(i) == lines[i].a \in paths \/ lines[i].b \in paths
    IN  FlattenSeq([i \in DOMAIN records |-> IF Kept(i) THEN <<records[i]>> ELSE <<>>])
-----------------------------------------------------------------------------
Names(l, path) == l.a = path \/ l.b = path
(* A bug to be caught: one column of numbers for both sides.              *)
NumberOnEither(l, side) == IF l.new # Absent THEN l.new ELSE l.old
NumberOn(l, side) == IF side = "LEFT" THEN l.old ELSE l.new
Distance(m, n) == IF m >= n THEN m - n ELSE n - m

(* The nearest line the diff shows on that side, the earlier one on a tie, *)
(* when it is within reach.                                                *)
Anchor(lines, path, side, want, bound) ==
    LET shown == {NumberOn(l, side) : l \in {k \in Range(lines) : Names(k, path)}} \ {Absent}
        nearest == {n \in shown : \A m \in shown : Distance(n, want) <= Distance(m, want)}
        best == CHOOSE n \in nearest : \A m \in nearest : n <= m
    IN  IF shown = {} \/ Distance(best, want) > bound THEN None ELSE best

ChangedLine(lines, path, side, want) ==
    \E l \in Range(lines) :
        /\ l.kind \in Changes /\ Names(l, path)
        /\ NumberOn(l, side) = want /\ want # Absent
-----------------------------------------------------------------------------
SameHunk(l, k) == l.a = k.a /\ l.b = k.b /\ l.at = k.at
Near(l, k, radius) ==
    \/ k.old # Absent /\ Distance(l.old, k.old) <= radius
    \/ k.new # Absent /\ Distance(l.new, k.new) <= radius

(* A change stays, context stays near a change of its hunk, and a note     *)
(* about a missing newline goes with the line it is about.                 *)
Keeps(lines, radius) ==
    LET keep[i \in DOMAIN lines] ==
          CASE lines[i].kind \in Changes -> TRUE
            [] lines[i].kind = "ctx" ->
                 \E k \in Range(lines) : /\ k.kind \in Changes /\ SameHunk(lines[i], k)
                                         /\ Near(lines[i], k, radius)
            [] lines[i].kind = "note" -> i > 1 /\ keep[i - 1]
            [] OTHER -> FALSE
    IN  keep

(* A run's header is the hunk's own, as the file's counters were there.    *)
RunHeaderStale(lines, keep, i) == HunkRecord(lines[i].at[1], lines[i].at[2])

RunHeader(lines, keep, i) ==
    LET l == lines[i]
        InRun(j) == \A k \in i..j : keep[k]
        First(Has(_)) == {j \in i..Len(lines) : InRun(j) /\ Has(lines[j])}
        HasOld(k) == k.old # Absent
        HasNew(k) == k.new # Absent
        Least(S) == CHOOSE j \in S : \A k \in S : j <= k
        Consumed(side) == IF l.from[side] # l.at[side] THEN l.from[side] - 1 ELSE l.at[side]
    IN  HunkRecord(IF First(HasOld) # {} THEN lines[Least(First(HasOld))].old ELSE Consumed(1),
                   IF First(HasNew) # {} THEN lines[Least(First(HasNew))].new ELSE Consumed(2))

(* Each kept run comes back under a header of its own; a file none of      *)
(* whose lines stay goes altogether.                                       *)
ClipHunks(records, radius) ==
    LET lines == Parse(records)
        keep  == Keeps(lines, radius)
        Stays(l) == \E j \in DOMAIN lines : keep[j] /\ lines[j].a = l.a /\ lines[j].b = l.b
        Record(i) ==
          CASE lines[i].kind = "file" -> IF Stays(lines[i]) THEN <<records[i]>> ELSE <<>>
            [] keep[i] /\ ~keep[i - 1] -> <<RunHeader(lines, keep, i), records[i]>>
            [] keep[i] /\ keep[i - 1] -> <<records[i]>>
            [] OTHER -> <<>>
    IN  FlattenSeq([i \in DOMAIN lines |-> Record(i)])

(* How one changed file reaches the prompt: an unreadable, binary or       *)
(* changeless file by its headers, an added, deleted or small one in full, *)
(* a large one by windows around its changes, cut out of what git shows    *)
(* for a function context of some reach.                                   *)
SelectForm(file, changed) ==
    IF file.binary \/ ~file.available \/ ~changed THEN "diff_only"
    ELSE IF file.change \in {"added", "deleted"} \/ ~file.large THEN "full_text"
    ELSE "hunks_context"

ShapeFileDiff(file, reach, radius) ==
    LET whole == GitDiff(file, Len(file.edits))
        form  == SelectForm(file, HasChanges(Parse(whole)))
    IN  [form |-> form,
         diff |-> CASE form = "diff_only" -> Headers(whole)
                    [] form = "full_text" -> whole
                    [] form = "hunks_context" -> ClipHunks(GitDiff(file, reach), radius)]
=============================================================================
