------------------------------ MODULE MCHarness -------------------------------
(***************************************************************************)
(* Instances of Harness for TLC.                                           *)
(***************************************************************************)
EXTENDS Harness

Tokens(fresh, read, write5m, write1h, helper1h, out) ==
    [fresh |-> fresh, read |-> read, write5m |-> write5m, write1h |-> write1h,
     helper1h |-> helper1h, out |-> out]

(* A call with cached input, and a helper's long call; writes of both lifetimes. *)
MixedWorks == {Tokens(1, 1, 0, 1, 0, 1), Tokens(2, 0, 1, 0, 1, 0)}

Rates(listed, read, above1h, threshold) ==
    [listed |-> listed, input |-> 2, output |-> 4, read |-> read, write |-> 3,
     above1h |-> above1h, threshold |-> threshold]

(* A model that is not listed, one with a rate missing, one with a dearer  *)
(* long write, and one with a single write rate and a break.               *)
TableEntries ==
    {Rates(FALSE, 1, 5, None), Rates(TRUE, None, 5, None), Rates(TRUE, 1, 5, None),
     Rates(TRUE, 1, 0, 3)}

Dearer == Rates(TRUE, 1, 5, None)

Asked(reviewer, resolver) == [review |-> reviewer, resolve |-> resolver]
TwoModels == {"a", "b"}

(* One model for both legs, with the versions and endpoints given.         *)
Same(harnesses, versions, ends, entries, keeps) ==
    [harness : harnesses, asked : {Asked("a", "a")}, answering : {{"a"}}, works : {MixedWorks},
     installed : versions, named : ends.named, token : ends.token, inherited : ends.inherited,
     entry : entries, keepTranscripts : keeps]

Vendor == [named |-> {FALSE}, token |-> {TRUE}, inherited |-> {FALSE}]
Named == [Vendor EXCEPT !.named = {TRUE}]
AnyEnd == [named |-> BOOLEAN, token |-> BOOLEAN, inherited |-> BOOLEAN]
Versions == {"pinned", "other", "unsupported", "silent", "absent"}

(* Every harness, with its files kept too under the one that reads its     *)
(* answer from a file; every price; a named endpoint; every refusal of a   *)
(* gate; and legs told to differ, under the two harnesses that may name    *)
(* the wrong model, answered by either.                                    *)
AllConfs ==
    Same(Harnesses, {"pinned"}, Vendor, {Dearer}, {FALSE})
    \cup Same({"codex"}, {"pinned"}, Vendor, {Dearer}, {TRUE})
    \cup Same({"claude"}, {"pinned"}, Vendor, TableEntries, {FALSE})
    \cup Same({"claude"}, {"pinned"}, Named, {Dearer}, {FALSE})
    \cup {c \in Same(Harnesses, Versions, AnyEnd, {Dearer}, {FALSE}) :
            /\ c.inherited \/ c.installed # "pinned" \/ ~c.token
            /\ c.named \/ c.token
            /\ c.harness = "agy" => c.installed \in {"pinned", "absent"}}
    \cup {[c EXCEPT !.asked = Asked("a", "b"), !.answering = TwoModels,
                    !.works = {Tokens(1, 1, 0, 1, 0, 1)}] :
            c \in Same({"claude", "codex"}, {"pinned"}, Vendor, {Dearer}, {FALSE})}
===============================================================================
