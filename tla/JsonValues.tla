------------------------------ MODULE JsonValues ------------------------------
(***************************************************************************)
(* The values of a JSON document, as the readers of this system tell them  *)
(* apart: strings, whole numbers, sequences, records, and the ones below.  *)
(* An absent key reads as a null.                                          *)
(***************************************************************************)
EXTENDS Naturals, FiniteSets, SequencesExt

CONSTANTS
    Null,
    False,    \* false
    Fraction, \* 1.5
    Dotted,   \* 1.0: jq takes it for a whole number, Go's decoder does not
    Foreign   \* a value of a type the reader did not ask for

ASSUME DistinctValues == Cardinality({Null, False, Fraction, Dotted, Foreign}) = 5

IsText(v) == v \notin {Null, False, Foreign}
IsList(v) == v \notin {Null, Foreign}
IsNumber(v) == v \in Nat \cup {Fraction, Dotted}
IsWholeAtLeast(v, low) == v = Dotted \/ (v \in Nat /\ v >= low)
Each(list, Is(_)) == IsList(list) /\ \A i \in DOMAIN list : Is(list[i])

(* The integer a number is cut down to.                                    *)
Truncated(v) == IF v \in {Fraction, Dotted} THEN 1 ELSE v

(* What the strict decoder takes for an integer or null.                   *)
DecodesInt(v) == v \in Nat \cup {Null}

(* A decoder that checks keys wants these and no other.                    *)
Exactly(object, keys) == object \notin {Null, Foreign} /\ DOMAIN object = keys
=============================================================================
