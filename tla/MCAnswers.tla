------------------------------- MODULE MCAnswers -------------------------------
EXTENDS Answers

(* How the lines of a large file change, in order; git writes the removed  *)
(* lines of a run before the added ones.                                   *)
Scripts ==
    {s \in BoundedSeq({"ctx", "add", "del"}, 4) :
        /\ \E i \in DOMAIN s : s[i] # "ctx"
        /\ \A i \in 1..(Len(s) - 1) : ~(s[i] = "add" /\ s[i + 1] = "del")}

Large(edits) == [Plain("a") EXCEPT !.edits = edits, !.large = TRUE]
Mixed == <<"ctx", "del", "add", "ctx", "ctx">>
Rewrites == {Large(Mixed)}

Kinds ==
    {[Large(<<"add", "add">>) EXCEPT !.change = "added"],
     [Large(<<"del", "del">>) EXCEPT !.change = "deleted"],
     [Large(Mixed) EXCEPT !.change = "renamed", !.old = "z"],
     [Large(<<>>) EXCEPT !.change = "renamed", !.old = "z"],
     [Large(<<>>) EXCEPT !.binary = TRUE],
     [Large(Mixed) EXCEPT !.available = FALSE],
     [Large(Mixed) EXCEPT !.unterminated = TRUE],
     [Large(<<"ctx", "ctx", "del", "add">>) EXCEPT !.unterminated = TRUE],
     [Large(Mixed) EXCEPT !.large = FALSE],
     Large(<<"add", "ctx", "ctx", "ctx", "del">>)}

AllFiles == {Large(s) : s \in Scripts} \cup Kinds \cup Rewrites
Reaches == {0, 2}
=============================================================================
