------------------------------ MODULE MCReview ------------------------------
(***************************************************************************)
(* Instances of ReviewLeg for TLC: what the diff touches at each head.     *)
(***************************************************************************)
EXTENDS ReviewLeg

(* Every unit is in the diff at every head. *)
ChangedAlways == [h \in Heads |-> Units]

(* The later heads touch one unit only: a long history of passes over it. *)
ChangedThenNarrow ==
    [h \in Heads |-> IF h = 1 THEN Units ELSE {CHOOSE u \in Units : TRUE}]

(* The second head narrows the diff and the third reverts the branch to its base. *)
ChangedLessAndLess ==
    [h \in Heads |-> IF h = 1 THEN Units ELSE IF h = 2 THEN {CHOOSE u \in Units : TRUE} ELSE {}]
=============================================================================
