---------------------------- MODULE ResolveAnswer ----------------------------
(***************************************************************************)
(* What a resolve leg asks of a resolver's answer before it believes it,   *)
(* and what it takes from it: the shape half and the semantic half of      *)
(* validate.Resolve, and mapNumbers, which turns the numbers the findings  *)
(* were shown under back into the findings.                                *)
(***************************************************************************)
EXTENDS Policy, JsonValues

CONSTANT Beyond \* 1.0000000000000001: whole to jq's floor, and not equal to 1

ASSUME ResolveAnswerAssumption ==
    Beyond \notin {Null, False, Fraction, Dotted, Foreign}

(* floor works in doubles ...                                              *)
IsWhole(v) == v \in Nat \cup {Dotted, Beyond}

(* ... and a comparison in full precision: where a number lies, in halves. *)
Place(v) == IF v \in Nat THEN 2 * v ELSE IF v = Dotted THEN 2 ELSE 3

(* A scalar or an array in the list is passed over here, and refused below.*)
ResolutionIsBad(r) ==
    IF r = Foreign THEN FALSE
    ELSE \/ r = Null
         \/ ~IsWhole(r.number)
         \/ r.resolution \notin ResolutionWords
         \/ ~IsText(r.reply) \/ r.reply = ""
         \/ ~(IsNumber(r.duplicate) \/ r.duplicate \in {Null, False, Beyond})

ResolveShape(doc) ==
    /\ doc # Foreign \* not an object, or not parseable
    /\ IsList(doc.resolutions)
    /\ IsText(doc.summary) /\ doc.summary # ""
    /\ doc.blocked # Foreign
    /\ doc.subject = Null \/ IsText(doc.subject)
    /\ \A i \in DOMAIN doc.resolutions : ~ResolutionIsBad(doc.resolutions[i])

(* Mutant: a finding may be left out. *)
ResolveSemanticPartial(doc, findings, candidates) ==
    LET list == doc.resolutions
    IN  /\ \A i \in DOMAIN list : list[i] # Foreign
        /\ \A i \in DOMAIN list : Place(list[i].number) \in 2 .. (2 * findings)
        /\ \A i, j \in DOMAIN list : Place(list[i].number) = Place(list[j].number) => i = j
        /\ \A i \in DOMAIN list : list[i].duplicate # Null =>
             /\ list[i].duplicate # False
             /\ \E c \in candidates : Place(list[i].duplicate) = Place(c)

(* No number out of range, none twice, none left out, and no duplicate     *)
(* that was not among the candidates.                                      *)
ResolveSemantic(doc, findings, candidates) ==
    LET list == doc.resolutions
    IN  /\ \A i \in DOMAIN list : list[i] # Foreign
        /\ \A i \in DOMAIN list : Place(list[i].number) \in 2 .. (2 * findings)
        /\ \A i, j \in DOMAIN list : Place(list[i].number) = Place(list[j].number) => i = j
        /\ \A n \in 1..findings : \E i \in DOMAIN list : Place(list[i].number) = Place(n)
        /\ \A i \in DOMAIN list : list[i].duplicate # Null =>
             /\ list[i].duplicate # False
             /\ \E c \in candidates : Place(list[i].duplicate) = Place(c)

(* The numbers are read again as Go reads an integer, which 1.0 is not.    *)
MapsNumbers(doc, findings) ==
    \A i \in DOMAIN doc.resolutions : doc.resolutions[i].number \in 1..findings

(* The word given to each number. *)
Words(doc) ==
    LET list == doc.resolutions
        By(n) == CHOOSE i \in DOMAIN list : list[i].number = n
    IN  [n \in {list[i].number : i \in DOMAIN list} |-> list[By(n)].resolution]

(* The resolution of each finding: ids lists them in the order shown. *)
Settlement(words, ids) ==
    LET Number(u) == CHOOSE n \in DOMAIN words : ids[n] = u
    IN  [u \in {ids[n] : n \in DOMAIN words} |->
            [word |-> words[Number(u)], tracked |-> "absent"]]
=============================================================================
