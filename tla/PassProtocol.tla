---------------------------- MODULE PassProtocol -----------------------------
(***************************************************************************)
(* What the loop promises of its passes, whoever drives it: a pass is one  *)
(* review and at most one resolution.  The resolution of a pass begins     *)
(* only on a review that settled, the review is not taken up again once    *)
(* its resolution has begun, and an open review ends before the next pass: *)
(* it settles, or a cap refuses to take it up, which is the end of it.     *)
(***************************************************************************)
EXTENDS Naturals

VARIABLES
    pass,    \* the current pass, 0 before the first
    review,  \* "none", "open", "owed" (ended, may be driven again), "done"
             \* or "refused"
    resolve  \* likewise, never refused

vars == <<pass, review, resolve>>

Init == pass = 0 /\ review = "none" /\ resolve = "none"

BeginPass ==
    /\ review # "open"
    /\ pass' = pass + 1
    /\ review' = "open" /\ resolve' = "none"

ReopenReview ==
    /\ review = "owed" /\ resolve = "none"
    /\ review' = "open"
    /\ UNCHANGED <<pass, resolve>>

RefuseReview ==
    /\ review \in {"open", "owed"} /\ resolve = "none"
    /\ review' = "refused"
    /\ UNCHANGED <<pass, resolve>>

SettleReview ==
    /\ review = "open" /\ resolve = "none"
    /\ review' \in {"owed", "done"}
    /\ UNCHANGED <<pass, resolve>>

BeginResolve ==
    /\ review = "done"
    /\ resolve \in {"none", "owed"}
    /\ resolve' = "open"
    /\ UNCHANGED <<pass, review>>

SettleResolve ==
    /\ review = "done" /\ resolve = "open"
    /\ resolve' \in {"owed", "done"}
    /\ UNCHANGED <<pass, review>>

Next ==
    \/ BeginPass \/ ReopenReview \/ RefuseReview \/ SettleReview
    \/ BeginResolve \/ SettleResolve

Spec == Init /\ [][Next]_vars
=============================================================================
