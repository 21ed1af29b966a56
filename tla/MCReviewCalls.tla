---------------------------- MODULE MCReviewCalls -----------------------------
(* The files and the configurations the runs of ReviewCalls explore.       *)
EXTENDS ReviewCalls

(* Lines of a hunk by size: an added line is only on the new side. *)
Added(n) == [size |-> n, old |-> 0, new |-> 1]
Kept(n) == [size |-> n, old |-> 1, new |-> 1]
HunkOf(start, lines) == [old |-> start, new |-> start, lines |-> lines]
File(hunks, extra, generated) == [hunks |-> hunks, extra |-> extra, generated |-> generated]

Small == File(<<HunkOf(1, <<Added(2)>>)>>, 1, FALSE)
Generated == File(<<HunkOf(1, <<Added(9), Added(9)>>)>>, 4, TRUE)
Hunkless == File(<<>>, 21, FALSE)
TwoHunks == File(<<HunkOf(3, <<Kept(4)>>), HunkOf(9, <<Added(5)>>)>>, 2, FALSE)
Mixed == File(<<HunkOf(2, <<Kept(2), Added(3), Kept(4), Added(2), Kept(1)>>)>>, 3, FALSE)
LongLine == File(<<HunkOf(1, <<Added(1), Kept(17), Added(3)>>)>>, 0, FALSE)

MCShapes == {Small, Generated, Hunkless, TwoHunks, Mixed, LongLine}

(* A split file beside a whole one, two files in a call, a file carried to *)
(* a later pass, and one that is skipped.                                  *)
MCCallInputs ==
    {<<Small, TwoHunks>>, <<TwoHunks>>, <<Small, Small>>, <<Small, Small, Small>>,
     <<Generated, Small>>} \X {7}

ServedConf(policy) == [declared |-> "served", verified |-> TRUE, native |-> TRUE, onReads |-> policy]
MCConfs ==
    {ServedConf("degrade"), ServedConf("halt"),
     [ServedConf("halt") EXCEPT !.declared = "file_tool", !.native = FALSE],
     [ServedConf("degrade") EXCEPT !.verified = FALSE]}
===============================================================================
