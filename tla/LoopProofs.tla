------------------------------ MODULE LoopProofs ------------------------------
(***************************************************************************)
(* The loop implements the pass protocol, for any mode, any cap, any       *)
(* number of revisions, moves and faults.  And what the local driver,      *)
(* `crossrev restart' and `crossrev status' tell a person is true, as far  *)
(* as Loop and Status promise it.                                          *)
(***************************************************************************)
EXTENDS Status, PolicyProofs, SequenceTheorems

(* A marker, its numbers unbounded. *)
MarkerRec ==
    [leg : Legs, pass : Nat, state : {"started", "incomplete", "complete", "declined"},
     head : Nat, verdict : ReviewVerdicts \cup {"null"}, fixable : BOOLEAN,
     res : [blocked : BOOLEAN, pushed : BOOLEAN, resolutions : SUBSET Resolution]]

JobRec ==
    [step : {"idle", "work", "label"}, leg : Legs \cup {"none"}, at : Nat, seen : Nat,
     pushed : BOOLEAN, next : OutcomeLabels \cup {"none"}, brake : BOOLEAN, failed : BOOLEAN]

(* The readers of Loop, of any list of markers. *)
RanIn(ms) == {i \in DOMAIN ms : ms[i].leg = "review" /\ ms[i].state # "declined"}
PassesIn(ms) == Cardinality(RanIn(ms))
Of(ms, pass, leg) == {i \in DOMAIN ms : ms[i].pass = pass /\ ms[i].leg = leg}
NewestOf(ms, pass, leg) == Max({0} \cup Of(ms, pass, leg))
StatusIn(ms, leg) ==
    LET i == NewestOf(ms, PassesIn(ms), leg)
    IN  IF i = 0 THEN "none"
        ELSE IF ms[i].state = "started" THEN "open"
        ELSE IF ms[i].state = "declined" THEN "refused"
        ELSE IF Owed(ms[i]) THEN "owed" ELSE "done"

LEMMA Readers ==
    /\ Ran = RanIn(markers) /\ Passes = PassesIn(markers)
    /\ \A pass, leg : MarkerFor(pass, leg) = NewestOf(markers, pass, leg)
    /\ \A leg : Status(leg) = StatusIn(markers, leg)
BY DEF Ran, RanIn, Passes, PassesIn, MarkerFor, NewestOf, Of, Status, StatusIn

(* The passes that ran are numbered from 1 on, and each ran once.  A       *)
(* resolution is of a pass that ran.                                       *)
Numbered(ms) ==
    /\ \A i \in RanIn(ms) : ms[i].pass \in 1..PassesIn(ms)
    /\ \A i, j \in RanIn(ms) : ms[i].pass = ms[j].pass => i = j
    /\ \A p \in 1..PassesIn(ms) : \E i \in RanIn(ms) : ms[i].pass = p
    /\ \A i \in DOMAIN ms : ms[i].leg = "resolve" => ms[i].pass <= PassesIn(ms)

(***************************************************************************)
(* What the readers return.                                                *)
(***************************************************************************)
LEMMA PassesAreCounted ==
    ASSUME NEW ms \in Seq(MarkerRec)
    PROVE  /\ DOMAIN ms = 1..Len(ms) /\ Len(ms) \in Nat /\ IsFiniteSet(DOMAIN ms)
           /\ RanIn(ms) \subseteq DOMAIN ms /\ IsFiniteSet(RanIn(ms)) /\ PassesIn(ms) \in Nat
           /\ \A i \in DOMAIN ms : ms[i] \in MarkerRec /\ i \in Nat /\ i # 0
<1>1. DOMAIN ms = 1..Len(ms) /\ Len(ms) \in Nat
  OBVIOUS
<1>2. IsFiniteSet(DOMAIN ms)
  BY <1>1, FS_Interval
<1>3. RanIn(ms) \subseteq DOMAIN ms
  BY DEF RanIn
<1>4. IsFiniteSet(RanIn(ms)) /\ PassesIn(ms) \in Nat
  BY <1>2, <1>3, FS_Subset, FS_CardinalityType DEF PassesIn
<1> QED
  BY <1>1, <1>2, <1>3, <1>4

LEMMA NewestOfIs ==
    ASSUME NEW ms \in Seq(MarkerRec), NEW pass, NEW leg
    PROVE  LET i == NewestOf(ms, pass, leg)
           IN  /\ i \in Nat
               /\ i # 0 => i \in DOMAIN ms /\ ms[i].pass = pass /\ ms[i].leg = leg
               /\ \A j \in DOMAIN ms : ms[j].pass = pass /\ ms[j].leg = leg => i # 0 /\ j <= i
<1> DEFINE S == Of(ms, pass, leg)
<1>1. DOMAIN ms = 1..Len(ms) /\ Len(ms) \in Nat /\ IsFiniteSet(DOMAIN ms)
  BY PassesAreCounted
<1>2. \A i : i \in S <=> i \in DOMAIN ms /\ ms[i].pass = pass /\ ms[i].leg = leg
  BY DEF Of
<1> HIDE DEF S
<1>3. S \in SUBSET (Nat \ {0}) /\ IsFiniteSet(S)
  <2>1. S \subseteq DOMAIN ms
    BY <1>2
  <2> QED BY <1>1, <2>1, FS_Subset
<1> DEFINE i == Max({0} \cup S)
<1>4. i \in Nat /\ (i # 0 => i \in S) /\ \A j \in S : i # 0 /\ j <= i
  BY <1>3, NewestOrZero
<1>5. i = NewestOf(ms, pass, leg)
  BY DEF NewestOf, S
<1> HIDE DEF i
<1> QED
  BY <1>2, <1>4, <1>5

(* The newest is the one no other of its pass and leg comes after. *)
LEMMA NewestOfUnique ==
    ASSUME NEW ms \in Seq(MarkerRec), NEW pass, NEW leg, NEW i \in Nat,
           i # 0 => i \in DOMAIN ms /\ ms[i].pass = pass /\ ms[i].leg = leg,
           \A j \in DOMAIN ms : ms[j].pass = pass /\ ms[j].leg = leg => i # 0 /\ j <= i
    PROVE  NewestOf(ms, pass, leg) = i
<1> DEFINE n == NewestOf(ms, pass, leg)
<1>1. /\ n \in Nat
      /\ n # 0 => n \in DOMAIN ms /\ ms[n].pass = pass /\ ms[n].leg = leg
      /\ \A j \in DOMAIN ms : ms[j].pass = pass /\ ms[j].leg = leg => n # 0 /\ j <= n
  BY NewestOfIs
<1> HIDE DEF n
<1>2. n # 0 => n <= i /\ i # 0
  BY <1>1
<1>3. i # 0 => i <= n /\ n # 0
  BY <1>1
<1> QED
  BY <1>1, <1>2, <1>3 DEF n

(* The current pass is the number of the passes that ran. *)
LEMMA CurrentIsPasses ==
    ASSUME markers \in Seq(MarkerRec), Numbered(markers)
    PROVE  CurrentReviewPass = PassesIn(markers)
<1> DEFINE n == PassesIn(markers)
           P == {markers[i].pass : i \in RanIn(markers)}
<1>1. n \in Nat /\ IsFiniteSet(RanIn(markers))
  BY PassesAreCounted
<1>2. P \subseteq 1..n
  BY DEF Numbered
<1>3. 1..n \subseteq P
  BY DEF Numbered
<1>4. P = 1..n
  BY <1>2, <1>3
<1>5. CurrentReviewPass = Max({0} \cup P)
  BY DEF CurrentReviewPass, Ran, RanIn
<1> HIDE DEF n, P
<1>6. IsFiniteSet(P) /\ P \in SUBSET (Nat \ {0})
  BY <1>1, <1>4, FS_Interval
<1> DEFINE c == Max({0} \cup P)
<1>7. c \in Nat /\ (c # 0 => c \in P) /\ \A j \in P : c # 0 /\ j <= c
  BY <1>6, NewestOrZero
<1> HIDE DEF c
<1>8. n # 0 => n \in P
  BY <1>1, <1>4
<1>9. c = n
  BY <1>1, <1>4, <1>7, <1>8
<1> QED
  BY <1>5, <1>9 DEF c, n

(* es is ms but for the i-th marker, and every reader says the same of both. *)
ReadAlike(ms, es, i, m) ==
    /\ es \in Seq(MarkerRec) /\ DOMAIN es = DOMAIN ms /\ es[i] = m
    /\ \A j \in DOMAIN ms \ {i} : es[j] = ms[j]
    /\ PassesIn(es) = PassesIn(ms) /\ Numbered(es)
    /\ \A pass, leg : NewestOf(es, pass, leg) = NewestOf(ms, pass, leg)

(* One marker rewritten, of the same leg and pass, declined or not as it   *)
(* was.                                                                    *)
LEMMA EditReaders ==
    ASSUME NEW ms \in Seq(MarkerRec), NEW i \in DOMAIN ms, NEW m \in MarkerRec,
           m.leg = ms[i].leg, m.pass = ms[i].pass,
           m.state = "declined" <=> ms[i].state = "declined", Numbered(ms)
    PROVE  ReadAlike(ms, [ms EXCEPT ![i] = m], i, m)
<1> DEFINE es == [ms EXCEPT ![i] = m]
<1>1. es \in Seq(MarkerRec) /\ DOMAIN es = DOMAIN ms /\ es[i] = m
      /\ \A j \in DOMAIN ms \ {i} : es[j] = ms[j]
  BY PassesAreCounted, ExceptSeq
<1> HIDE DEF es
<1>2. \A j \in DOMAIN ms : /\ es[j].leg = ms[j].leg /\ es[j].pass = ms[j].pass
                           /\ es[j].state = "declined" <=> ms[j].state = "declined"
  BY <1>1
<1>3. RanIn(es) = RanIn(ms)
  BY <1>1, <1>2 DEF RanIn
<1>4. PassesIn(es) = PassesIn(ms)
  BY <1>3 DEF PassesIn
<1>5. Numbered(es)
  BY <1>1, <1>2, <1>3, <1>4 DEF Numbered, RanIn
<1>6. \A pass, leg : Of(es, pass, leg) = Of(ms, pass, leg)
  BY <1>1, <1>2 DEF Of
<1> QED
  BY <1>1, <1>4, <1>5, <1>6 DEF NewestOf, ReadAlike, es

(* One marker more. *)
LEMMA AppendReaders ==
    ASSUME NEW ms \in Seq(MarkerRec), NEW m \in MarkerRec, Numbered(ms),
           \/ m.leg = "review" /\ m.state # "declined" /\ m.pass = PassesIn(ms) + 1
           \/ m.leg = "review" /\ m.state = "declined"
           \/ m.leg = "resolve" /\ m.pass <= PassesIn(ms)
    PROVE  LET es == Append(ms, m)
           IN  /\ es \in Seq(MarkerRec) /\ Numbered(es) /\ es[Len(ms) + 1] = m
               /\ \A j \in DOMAIN ms : es[j] = ms[j]
               /\ DOMAIN es = DOMAIN ms \cup {Len(ms) + 1}
               /\ PassesIn(es) = IF m.leg = "review" /\ m.state # "declined"
                                 THEN PassesIn(ms) + 1 ELSE PassesIn(ms)
               /\ \A pass, leg :
                    NewestOf(es, pass, leg) = IF m.pass = pass /\ m.leg = leg
                                              THEN Len(ms) + 1 ELSE NewestOf(ms, pass, leg)
<1> DEFINE es == Append(ms, m)
           k == Len(ms) + 1
<1>0. /\ DOMAIN ms = 1..Len(ms) /\ Len(ms) \in Nat /\ IsFiniteSet(RanIn(ms)) /\ PassesIn(ms) \in Nat
      /\ RanIn(ms) \subseteq DOMAIN ms /\ \A j \in DOMAIN ms : j \in Nat /\ j # 0 /\ j < k
  BY PassesAreCounted
<1>1. /\ es \in Seq(MarkerRec) /\ es[k] = m /\ \A j \in DOMAIN ms : es[j] = ms[j]
      /\ DOMAIN es = DOMAIN ms \cup {k} /\ k \notin DOMAIN ms /\ k \in Nat
  BY <1>0, AppendProperties
<1> HIDE DEF es, k
<1>2. RanIn(es) = IF m.leg = "review" /\ m.state # "declined" THEN RanIn(ms) \cup {k} ELSE RanIn(ms)
  BY <1>1 DEF RanIn
<1>3. PassesIn(es) = IF m.leg = "review" /\ m.state # "declined" THEN PassesIn(ms) + 1
                     ELSE PassesIn(ms)
  <2>1. k \notin RanIn(ms)
    BY <1>0, <1>1
  <2>2. Cardinality(RanIn(ms) \cup {k}) = Cardinality(RanIn(ms)) + 1
    BY <1>0, <2>1, FS_AddElement
  <2> QED BY <1>2, <2>2 DEF PassesIn
<1>4. Numbered(es)
  <2>1. CASE m.leg = "review" /\ m.state # "declined"
    <3>1. RanIn(es) = RanIn(ms) \cup {k} /\ PassesIn(es) = PassesIn(ms) + 1 /\ m.pass = PassesIn(ms) + 1
      BY <1>2, <1>3, <2>1
    <3>2. \A i \in RanIn(ms) : es[i].pass \in 1..PassesIn(ms) /\ es[i] = ms[i]
      BY <1>0, <1>1 DEF Numbered
    <3>3. \A i \in RanIn(es) : es[i].pass \in 1..PassesIn(es)
      BY <1>0, <1>1, <3>1, <3>2
    <3>4. \A i, j \in RanIn(es) : es[i].pass = es[j].pass => i = j
      <4>1. \A i \in RanIn(ms) : es[i].pass # m.pass
        BY <1>0, <3>1, <3>2
      <4> QED BY <1>1, <3>1, <3>2, <4>1 DEF Numbered
    <3>5. \A p \in 1..PassesIn(es) : \E i \in RanIn(es) : es[i].pass = p
      <4> SUFFICES ASSUME NEW p \in 1..PassesIn(es) PROVE \E i \in RanIn(es) : es[i].pass = p
        OBVIOUS
      <4>1. CASE p = PassesIn(es)
        BY <1>1, <3>1, <4>1
      <4>2. CASE p # PassesIn(es)
        <5>1. p \in 1..PassesIn(ms)
          BY <1>0, <3>1, <4>2
        <5> QED BY <3>1, <3>2, <5>1 DEF Numbered
      <4> QED BY <4>1, <4>2
    <3>6. \A i \in DOMAIN es : es[i].leg = "resolve" => es[i].pass <= PassesIn(es)
      <4>1. \A i \in DOMAIN ms : ms[i].pass \in Nat
        BY PassesAreCounted DEF MarkerRec
      <4>2. \A i \in DOMAIN ms : es[i].leg = "resolve" => es[i].pass <= PassesIn(ms)
        BY <1>1 DEF Numbered
      <4>3. \A i \in DOMAIN ms : es[i].leg = "resolve" => es[i].pass <= PassesIn(es)
        BY <1>0, <1>1, <3>1, <4>1, <4>2
      <4>4. es[k].leg # "resolve"
        BY <1>1, <2>1
      <4> QED BY <1>1, <4>3, <4>4
    <3> QED BY <3>3, <3>4, <3>5, <3>6 DEF Numbered
  <2>2. CASE ~(m.leg = "review" /\ m.state # "declined")
    <3>1. RanIn(es) = RanIn(ms) /\ PassesIn(es) = PassesIn(ms)
      BY <1>2, <1>3, <2>2
    <3>2. \A i \in RanIn(ms) : es[i] = ms[i]
      BY <1>0, <1>1
    <3>3. \A i \in DOMAIN ms : es[i].leg = "resolve" => es[i].pass <= PassesIn(ms)
      BY <1>1 DEF Numbered
    <3>4. es[k].leg = "resolve" => es[k].pass <= PassesIn(ms)
      BY <1>1, <2>2
    <3>5. \A i \in DOMAIN es : es[i].leg = "resolve" => es[i].pass <= PassesIn(ms)
      BY <1>1, <3>3, <3>4
    <3> QED BY <3>1, <3>2, <3>5 DEF Numbered
  <2> QED BY <2>1, <2>2
<1>5. ASSUME NEW pass, NEW leg
      PROVE  NewestOf(es, pass, leg) = IF m.pass = pass /\ m.leg = leg THEN k ELSE NewestOf(ms, pass, leg)
  <2> DEFINE n == NewestOf(ms, pass, leg)
  <2>1. /\ n \in Nat
        /\ n # 0 => n \in DOMAIN ms /\ ms[n].pass = pass /\ ms[n].leg = leg
        /\ \A j \in DOMAIN ms : ms[j].pass = pass /\ ms[j].leg = leg => n # 0 /\ j <= n
    BY NewestOfIs
  <2> HIDE DEF n
  <2>2. CASE m.pass = pass /\ m.leg = leg
    <3>1. \A j \in DOMAIN es : k # 0 /\ j <= k
      BY <1>0, <1>1 DEF k
    <3>2. NewestOf(es, pass, leg) = k
      BY <1>1, <2>2, <3>1, NewestOfUnique
    <3> QED BY <2>2, <3>2
  <2>3. CASE ~(m.pass = pass /\ m.leg = leg)
    <3>1. n # 0 => n \in DOMAIN es /\ es[n].pass = pass /\ es[n].leg = leg
      BY <1>1, <2>1
    <3>2. \A j \in DOMAIN es : es[j].pass = pass /\ es[j].leg = leg => n # 0 /\ j <= n
      BY <1>1, <2>1, <2>3
    <3>3. NewestOf(es, pass, leg) = n
      BY <1>1, <2>1, <3>1, <3>2, NewestOfUnique
    <3> QED BY <2>3, <3>3 DEF n
  <2> QED BY <2>2, <2>3
<1> QED
  BY <1>1, <1>3, <1>4, <1>5 DEF es, k

(* The newest marker of a leg, rewritten as m: the leg's status follows it *)
(* and the other leg's is what it was.                                     *)
Edited(ms, es, i, m, leg) ==
    /\ es \in Seq(MarkerRec) /\ DOMAIN es = DOMAIN ms /\ es[i] = m
    /\ \A j \in DOMAIN ms \ {i} : es[j] = ms[j]
    /\ PassesIn(es) = PassesIn(ms) /\ Numbered(es)
    /\ \A l : NewestOf(es, PassesIn(es), l) = NewestOf(ms, PassesIn(ms), l)
    /\ StatusIn(es, leg) = IF m.state = "started" THEN "open"
                           ELSE IF Owed(m) THEN "owed" ELSE "done"
    /\ \A l : l # leg => StatusIn(es, l) = StatusIn(ms, l)

LEMMA EditStatus ==
    ASSUME NEW ms \in Seq(MarkerRec), Numbered(ms), NEW leg, NEW i \in DOMAIN ms,
           i = NewestOf(ms, PassesIn(ms), leg), NEW m \in MarkerRec,
           m.leg = ms[i].leg, m.pass = ms[i].pass,
           m.state # "declined", ms[i].state # "declined"
    PROVE  Edited(ms, [ms EXCEPT ![i] = m], i, m, leg)
<1> DEFINE es == [ms EXCEPT ![i] = m]
<1>1. /\ es \in Seq(MarkerRec) /\ DOMAIN es = DOMAIN ms /\ es[i] = m
      /\ \A j \in DOMAIN ms \ {i} : es[j] = ms[j]
      /\ PassesIn(es) = PassesIn(ms) /\ Numbered(es)
      /\ \A pass, l : NewestOf(es, pass, l) = NewestOf(ms, pass, l)
  <2>1. m.state = "declined" <=> ms[i].state = "declined"
    OBVIOUS
  <2>2. m.leg = ms[i].leg /\ m.pass = ms[i].pass /\ Numbered(ms) /\ ms \in Seq(MarkerRec)
    OBVIOUS
  <2>3. ReadAlike(ms, es, i, m)
    BY <2>1, <2>2, EditReaders
  <2> QED BY <2>3 DEF ReadAlike
<1>2. i # 0 /\ ms[i].leg = leg
  BY NewestOfIs, PassesAreCounted
<1> HIDE DEF es
<1>3. StatusIn(es, leg) = IF m.state = "started" THEN "open"
                          ELSE IF Owed(m) THEN "owed" ELSE "done"
  BY <1>1, <1>2 DEF StatusIn
<1>4. ASSUME NEW l, l # leg
      PROVE  StatusIn(es, l) = StatusIn(ms, l)
  <2> DEFINE n == NewestOf(ms, PassesIn(ms), l)
  <2>1. n # 0 => n \in DOMAIN ms \ {i}
    BY <1>2, <1>4, NewestOfIs
  <2>2. NewestOf(es, PassesIn(es), l) = n
    BY <1>1
  <2> HIDE DEF n
  <2>3. n # 0 => es[n] = ms[n]
    BY <1>1, <2>1
  <2> QED BY <2>2, <2>3 DEF StatusIn, n
<1> QED
  BY <1>1, <1>3, <1>4 DEF es, Edited

(* A marker more: a new pass, a notice, or a resolution of the current pass. *)
LEMMA AppendStatus ==
    ASSUME NEW ms \in Seq(MarkerRec), NEW m \in MarkerRec, Numbered(ms),
           \/ m.leg = "review" /\ m.state = "started" /\ m.pass = PassesIn(ms) + 1
           \/ m.leg = "review" /\ m.state = "declined" /\ m.pass \in {PassesIn(ms), PassesIn(ms) + 1}
           \/ m.leg = "resolve" /\ m.state = "started" /\ m.pass = PassesIn(ms)
    PROVE  LET es == Append(ms, m)
           IN  /\ es \in Seq(MarkerRec) /\ Numbered(es) /\ es[Len(ms) + 1] = m
               /\ DOMAIN es = DOMAIN ms \cup {Len(ms) + 1}
               /\ \A j \in DOMAIN ms : es[j] = ms[j]
               /\ m.pass = PassesIn(es) => NewestOf(es, PassesIn(es), m.leg) = Len(ms) + 1
               /\ m.leg = "review" /\ m.state = "started" =>
                    /\ PassesIn(es) = PassesIn(ms) + 1
                    /\ StatusIn(es, "review") = "open" /\ StatusIn(es, "resolve") = "none"
               /\ m.state = "declined" =>
                    /\ PassesIn(es) = PassesIn(ms)
                    /\ StatusIn(es, "review") = IF m.pass = PassesIn(ms) THEN "refused"
                                                ELSE StatusIn(ms, "review")
                    /\ StatusIn(es, "resolve") = StatusIn(ms, "resolve")
               /\ m.leg = "resolve" =>
                    /\ PassesIn(es) = PassesIn(ms)
                    /\ StatusIn(es, "review") = StatusIn(ms, "review")
                    /\ StatusIn(es, "resolve") = "open"
<1> DEFINE es == Append(ms, m)
           k == Len(ms) + 1
           n == PassesIn(ms)
<1>1. n \in Nat /\ k \in Nat /\ k # 0 /\ \A j \in DOMAIN ms : ms[j] \in MarkerRec
  BY PassesAreCounted
<1>2. m.pass <= n \/ m.leg = "review"
  BY <1>1
<1>3. /\ es \in Seq(MarkerRec) /\ Numbered(es) /\ es[k] = m /\ \A j \in DOMAIN ms : es[j] = ms[j]
      /\ DOMAIN es = DOMAIN ms \cup {k}
      /\ PassesIn(es) = IF m.leg = "review" /\ m.state # "declined" THEN n + 1 ELSE n
      /\ \A pass, leg : NewestOf(es, pass, leg) = IF m.pass = pass /\ m.leg = leg
                                                  THEN k ELSE NewestOf(ms, pass, leg)
  BY <1>2, AppendReaders
<1>4. \A l : NewestOf(ms, n, l) # 0 => NewestOf(ms, n, l) \in DOMAIN ms
  BY NewestOfIs
<1>5. NewestOf(ms, n + 1, "resolve") = 0
  <2>1. \A j \in DOMAIN ms : ~(ms[j].pass = n + 1 /\ ms[j].leg = "resolve")
    BY <1>1 DEF Numbered
  <2> QED BY <2>1, NewestOfIs
<1> HIDE DEF es, k, n
<1>6. CASE m.leg = "review" /\ m.state = "started" /\ m.pass = n + 1
  <2>1. PassesIn(es) = n + 1 /\ NewestOf(es, PassesIn(es), "review") = k
        /\ NewestOf(es, PassesIn(es), "resolve") = 0
    BY <1>3, <1>5, <1>6
  <2>2. StatusIn(es, "review") = "open" /\ StatusIn(es, "resolve") = "none"
    BY <1>1, <1>3, <1>6, <2>1 DEF StatusIn
  <2> QED BY <1>3, <1>6, <2>1, <2>2 DEF es, k, n
<1>7. CASE m.leg = "review" /\ m.state = "declined"
  <2>1. PassesIn(es) = n /\ NewestOf(es, n, "resolve") = NewestOf(ms, n, "resolve")
        /\ NewestOf(es, n, "review") = IF m.pass = n THEN k ELSE NewestOf(ms, n, "review")
    BY <1>3, <1>7
  <2>2. StatusIn(es, "resolve") = StatusIn(ms, "resolve")
    BY <1>3, <1>4, <2>1 DEF StatusIn, n
  <2>3. StatusIn(es, "review") = IF m.pass = n THEN "refused" ELSE StatusIn(ms, "review")
    <3>1. CASE m.pass = n
      BY <1>1, <1>3, <1>7, <2>1, <3>1 DEF StatusIn
    <3>2. CASE m.pass # n
      BY <1>3, <1>4, <2>1, <3>2 DEF StatusIn, n
    <3> QED BY <3>1, <3>2
  <2> QED BY <1>3, <1>7, <2>1, <2>2, <2>3 DEF es, k, n
<1>8. CASE m.leg = "resolve" /\ m.state = "started" /\ m.pass = n
  <2>1. PassesIn(es) = n /\ NewestOf(es, n, "resolve") = k
        /\ NewestOf(es, n, "review") = NewestOf(ms, n, "review")
    BY <1>3, <1>8
  <2>2. StatusIn(es, "review") = StatusIn(ms, "review")
    BY <1>3, <1>4, <2>1 DEF StatusIn, n
  <2>3. StatusIn(es, "resolve") = "open"
    BY <1>1, <1>3, <1>8, <2>1 DEF StatusIn
  <2> QED BY <1>3, <1>8, <2>1, <2>2, <2>3 DEF es, k, n
<1> QED
  BY <1>6, <1>7, <1>8 DEF n

-------------------------------------------------------------------------------
(* The leg that works has the newest marker of its leg and pass open; a    *)
(* review works before its pass has a resolution, a resolution after its   *)
(* review is done.                                                         *)
JobInv ==
    /\ job \in JobRec
    /\ job.step = "work" =>
         /\ job.leg \in Legs /\ job.at # 0
         /\ job.at = NewestOf(markers, PassesIn(markers), job.leg)
         /\ markers[job.at].state = "started"
         /\ job.leg = "review" => StatusIn(markers, "resolve") = "none"
         /\ job.leg = "resolve" => StatusIn(markers, "review") = "done"

LoopInv ==
    /\ head \in Nat /\ markers \in Seq(MarkerRec) /\ Numbered(markers)
    /\ \A i \in DOMAIN markers :
         markers[i].leg = "resolve" => markers[i].state \in {"started", "complete"}
    /\ StatusIn(markers, "resolve") # "none" => StatusIn(markers, "review") = "done"
    /\ JobInv

(* The step of the protocol, or the stutter, that a step from the markers  *)
(* ms to the markers es is.                                                *)
Protocol(ms, es) ==
    LET v == StatusIn(ms, "review")
        z == StatusIn(ms, "resolve")
        v2 == StatusIn(es, "review")
        z2 == StatusIn(es, "resolve")
    IN  \/ v # "open" /\ PassesIn(es) = PassesIn(ms) + 1 /\ v2 = "open" /\ z2 = "none"
        \/ PassesIn(es) = PassesIn(ms) /\
             \/ v = "owed" /\ z = "none" /\ v2 = "open" /\ z2 = z
             \/ v \in {"open", "owed"} /\ z = "none" /\ v2 = "refused" /\ z2 = z
             \/ v = "open" /\ z = "none" /\ v2 \in {"owed", "done"} /\ z2 = z
             \/ v = "done" /\ z \in {"none", "owed"} /\ z2 = "open" /\ v2 = v
             \/ v = "done" /\ z = "open" /\ z2 \in {"owed", "done"} /\ v2 = v
             \/ v2 = v /\ z2 = z

LEMMA ReadersNext ==
    /\ Passes' = PassesIn(markers')
    /\ Status("review")' = StatusIn(markers', "review")
    /\ Status("resolve")' = StatusIn(markers', "resolve")
BY DEF Ran, RanIn, Passes, PassesIn, MarkerFor, NewestOf, Of, Status, StatusIn

LEMMA ProtocolIsNext ==
    ASSUME Protocol(markers, markers')
    PROVE  [Abstract!Next]_(Abstract!vars)
BY Readers, ReadersNext
   DEF Protocol, Abstract!Next, Abstract!vars, Abstract!BeginPass, Abstract!ReopenReview,
       Abstract!RefuseReview, Abstract!SettleReview, Abstract!BeginResolve, Abstract!SettleResolve

LEMMA IdleJobType ==
    /\ IdleJob \in JobRec /\ IdleJob.step # "work"
    /\ \A failed \in BOOLEAN : Stopped(failed) \in JobRec /\ Stopped(failed).step # "work"
    /\ \A leg \in Legs, next \in OutcomeLabels :
         /\ Labelling(leg, next) \in JobRec /\ Labelling(leg, next).step # "work"
    /\ \A leg \in Legs, at \in Nat : head \in Nat =>
         /\ Working(leg, at) \in JobRec /\ Working(leg, at).step = "work"
         /\ Working(leg, at).leg = leg /\ Working(leg, at).at = at
BY DEF IdleJob, Stopped, Labelling, Working, JobRec, Legs

LEMMA NewMarkerType ==
    ASSUME NEW leg \in Legs, NEW pass \in Nat, NEW state \in {"started", "declined"}, head \in Nat
    PROVE  /\ NewMarker(leg, pass, state) \in MarkerRec
           /\ NewMarker(leg, pass, state).leg = leg /\ NewMarker(leg, pass, state).pass = pass
           /\ NewMarker(leg, pass, state).state = state
BY DEF NewMarker, MarkerRec, Clean

LEMMA LoopInit == Init => LoopInv /\ Abstract!Init
<1> SUFFICES ASSUME Init PROVE LoopInv /\ Abstract!Init
  OBVIOUS
<1>1. head = 1 /\ markers = <<>> /\ job = IdleJob /\ markers \in Seq(MarkerRec) /\ DOMAIN markers = {}
  BY DEF Init
<1>2. RanIn(markers) = {} /\ PassesIn(markers) = 0
  BY <1>1, FS_EmptySet DEF RanIn, PassesIn
<1>3. Numbered(markers)
  BY <1>1, <1>2 DEF Numbered
<1>4. \A pass, leg : NewestOf(markers, pass, leg) = 0
  BY <1>1, NewestOfIs
<1>5. \A leg : StatusIn(markers, leg) = "none"
  BY <1>4 DEF StatusIn
<1>6. LoopInv
  BY <1>1, <1>3, <1>5, IdleJobType DEF LoopInv, JobInv
<1> QED
  BY <1>2, <1>5, <1>6, Readers DEF Abstract!Init

(* A step that leaves the markers, and the working leg at its work. *)
LEMMA Frame ==
    ASSUME LoopInv, markers' = markers, head' \in Nat, job' \in JobRec,
           \/ job'.step # "work"
           \/ job'.step = job.step /\ job'.leg = job.leg /\ job'.at = job.at
    PROVE  LoopInv' /\ Protocol(markers, markers')
BY DEF LoopInv, JobInv, Protocol

(* The leg at work rewrites its marker and goes on to label. *)
LEMMA Settles ==
    ASSUME LoopInv, job.step = "work", NEW m \in MarkerRec, markers' = Settled(m), head' = head,
           m.leg = markers[job.at].leg, m.pass = markers[job.at].pass,
           m.state \in {"incomplete", "complete"}, job.leg = "resolve" => m.state = "complete",
           job' \in JobRec, job'.step # "work"
    PROVE  LoopInv' /\ Protocol(markers, markers')
<1> DEFINE i == job.at
<1>1. /\ markers \in Seq(MarkerRec) /\ Numbered(markers) /\ job.leg \in Legs
      /\ i # 0 /\ i = NewestOf(markers, PassesIn(markers), job.leg)
      /\ markers[i].state = "started"
      /\ job.leg = "review" => StatusIn(markers, "resolve") = "none"
      /\ job.leg = "resolve" => StatusIn(markers, "review") = "done"
  BY DEF LoopInv, JobInv
<1>2. i \in DOMAIN markers /\ markers[i].leg = job.leg
  BY <1>1, NewestOfIs
<1>3. StatusIn(markers, job.leg) = "open"
  BY <1>1 DEF StatusIn
<1>4. markers' = [markers EXCEPT ![i] = m]
  BY DEF Settled
<1> HIDE DEF i
<1>5. /\ markers' \in Seq(MarkerRec) /\ DOMAIN markers' = DOMAIN markers /\ markers'[i] = m
      /\ \A j \in DOMAIN markers \ {i} : markers'[j] = markers[j]
      /\ PassesIn(markers') = PassesIn(markers) /\ Numbered(markers')
      /\ StatusIn(markers', job.leg) = IF Owed(m) THEN "owed" ELSE "done"
      /\ \A l : l # job.leg => StatusIn(markers', l) = StatusIn(markers, l)
  <2>1. m.state # "declined" /\ m.state # "started" /\ markers[i].state # "declined"
        /\ m.leg = markers[i].leg /\ m.pass = markers[i].pass
    BY <1>1 DEF i
  <2>2. /\ markers \in Seq(MarkerRec) /\ Numbered(markers) /\ i \in DOMAIN markers
        /\ i = NewestOf(markers, PassesIn(markers), job.leg)
    BY <1>1, <1>2
  <2>3. Edited(markers, [markers EXCEPT ![i] = m], i, m, job.leg)
    BY ONLY <2>1, <2>2, m \in MarkerRec, EditStatus
  <2> QED BY <1>4, <2>1, <2>3 DEF Edited
<1>6. Protocol(markers, markers')
  BY <1>1, <1>3, <1>5 DEF Protocol, Legs
<1>7. \A j \in DOMAIN markers' :
        markers'[j].leg = "resolve" => markers'[j].state \in {"started", "complete"}
  BY <1>2, <1>5 DEF LoopInv, i
<1>8. StatusIn(markers', "resolve") # "none" => StatusIn(markers', "review") = "done"
  BY <1>1, <1>5 DEF Legs
<1> QED
  BY <1>5, <1>6, <1>7, <1>8 DEF LoopInv, JobInv

(* What the readers of the current pass say, in the proofs' terms. *)
LEMMA CurrentPass ==
    ASSUME LoopInv
    PROVE  LET n == PassesIn(markers)
               i == NewestOf(markers, n, "review")
               r == NewestOf(markers, n, "resolve")
           IN  /\ n \in Nat /\ CurrentReviewPass = n
               /\ MarkerFor(n, "review") = i /\ MarkerFor(n, "resolve") = r
               /\ i \in Nat /\ r \in Nat
               /\ i # 0 => i \in DOMAIN markers /\ markers[i].leg = "review" /\ markers[i].pass = n
               /\ r # 0 => r \in DOMAIN markers /\ markers[r].leg = "resolve" /\ markers[r].pass = n
               /\ n # 0 => i # 0
<1> DEFINE n == PassesIn(markers)
           i == NewestOf(markers, n, "review")
           r == NewestOf(markers, n, "resolve")
<1>1. markers \in Seq(MarkerRec) /\ Numbered(markers)
  BY DEF LoopInv
<1>2. n \in Nat /\ CurrentReviewPass = n
  BY <1>1, PassesAreCounted, CurrentIsPasses
<1>3. MarkerFor(n, "review") = i /\ MarkerFor(n, "resolve") = r
  BY Readers
<1> HIDE DEF n
<1>4. /\ i \in Nat /\ r \in Nat
      /\ i # 0 => i \in DOMAIN markers /\ markers[i].leg = "review" /\ markers[i].pass = n
      /\ r # 0 => r \in DOMAIN markers /\ markers[r].leg = "resolve" /\ markers[r].pass = n
      /\ \A j \in DOMAIN markers : markers[j].pass = n /\ markers[j].leg = "review" => i # 0
  BY <1>1, NewestOfIs
<1> HIDE DEF i, r
<1>5. n # 0 => i # 0
  <2>1. n # 0 => \E j \in RanIn(markers) : markers[j].pass = n
    BY <1>1, <1>2 DEF Numbered, n
  <2> QED BY <1>4, <2>1 DEF RanIn
<1> QED
  BY <1>2, <1>3, <1>4, <1>5 DEF n, i, r

(* A marker of the current pass, opened again. *)
LEMMA Reopens ==
    ASSUME LoopInv, NEW leg \in Legs, head' = head,
           NEW i, i = NewestOf(markers, PassesIn(markers), leg), i # 0,
           markers[i].state # "declined", markers' = Reopened(i),
           job' = Working(leg, i),
           leg = "review" => /\ StatusIn(markers, "review") \in {"open", "owed"}
                             /\ StatusIn(markers, "resolve") = "none",
           leg = "resolve" => /\ StatusIn(markers, "review") = "done"
                              /\ StatusIn(markers, "resolve") \in {"open", "owed"}
    PROVE  LoopInv' /\ Protocol(markers, markers')
<1> DEFINE m == NewMarker(markers[i].leg, markers[i].pass, "started")
<1>1. markers \in Seq(MarkerRec) /\ Numbered(markers) /\ head \in Nat
  BY DEF LoopInv
<1>2. i \in Nat /\ i \in DOMAIN markers /\ markers[i].leg = leg /\ markers[i] \in MarkerRec
  BY <1>1, NewestOfIs, PassesAreCounted
<1>3. m \in MarkerRec /\ m.leg = markers[i].leg /\ m.pass = markers[i].pass /\ m.state = "started"
  <2>1. markers[i].leg \in Legs /\ markers[i].pass \in Nat
    BY <1>2 DEF MarkerRec
  <2> QED BY <1>1, <2>1, NewMarkerType
<1>4. markers' = [markers EXCEPT ![i] = m]
  BY DEF Reopened
<1> HIDE DEF m
<1>5. Edited(markers, [markers EXCEPT ![i] = m], i, m, leg)
  <2>1. m.state # "declined" /\ markers[i].state # "declined"
    BY <1>3
  <2>2. i = NewestOf(markers, PassesIn(markers), leg)
    OBVIOUS
  <2> QED BY ONLY <1>1, <1>2, <1>3, <2>1, <2>2, EditStatus
<1>6. Edited(markers, markers', i, m, leg)
  BY <1>4, <1>5
<1>7. job' \in JobRec /\ job'.step = "work" /\ job'.leg = leg /\ job'.at = i
  BY <1>1, <1>2, IdleJobType
<1>8. Protocol(markers, markers')
  BY <1>3, <1>6 DEF Protocol, Edited, Legs
<1>9. \A j \in DOMAIN markers' :
        markers'[j].leg = "resolve" => markers'[j].state \in {"started", "complete"}
  BY <1>2, <1>3, <1>6 DEF LoopInv, Edited
<1>10. StatusIn(markers', "resolve") # "none" => StatusIn(markers', "review") = "done"
  BY <1>6 DEF Legs, Edited
<1>11. JobInv'
  <2>1. i = NewestOf(markers', PassesIn(markers'), leg) /\ markers'[i].state = "started"
    BY <1>3, <1>6 DEF Edited
  <2>2. leg = "review" => StatusIn(markers', "resolve") = "none"
    BY <1>6 DEF Edited
  <2>3. leg = "resolve" => StatusIn(markers', "review") = "done"
    BY <1>6 DEF Edited
  <2> QED BY <1>7, <2>1, <2>2, <2>3 DEF JobInv
<1>12. markers' \in Seq(MarkerRec) /\ Numbered(markers') /\ head' \in Nat
  BY <1>1, <1>6 DEF Edited
<1> QED
  BY <1>8, <1>9, <1>10, <1>11, <1>12 DEF LoopInv

(* A marker more that opens a leg of the current pass or of a new one. *)
LEMMA Opens ==
    ASSUME LoopInv, NEW leg \in Legs, NEW pass, head' = head,
           markers' = Append(markers, NewMarker(leg, pass, "started")),
           job' = Working(leg, Len(markers) + 1),
           leg = "review" => /\ pass = PassesIn(markers) + 1
                             /\ StatusIn(markers, "review") # "open",
           leg = "resolve" => /\ pass = PassesIn(markers)
                              /\ StatusIn(markers, "review") = "done"
                              /\ StatusIn(markers, "resolve") = "none"
    PROVE  LoopInv' /\ Protocol(markers, markers')
<1> DEFINE m == NewMarker(leg, pass, "started")
           n == PassesIn(markers)
           k == Len(markers) + 1
<1>1. markers \in Seq(MarkerRec) /\ Numbered(markers) /\ head \in Nat /\ n \in Nat /\ k \in Nat /\ k # 0
  BY PassesAreCounted DEF LoopInv
<1>2. pass \in Nat
  BY <1>1 DEF Legs
<1>3. m \in MarkerRec /\ m.leg = leg /\ m.pass = pass /\ m.state = "started"
  BY <1>1, <1>2, NewMarkerType
<1>4. markers' = Append(markers, m)
  OBVIOUS
<1>5. job' \in JobRec /\ job'.step = "work" /\ job'.leg = leg /\ job'.at = k
  BY <1>1, IdleJobType
<1> HIDE DEF m
<1>6. /\ markers' \in Seq(MarkerRec) /\ Numbered(markers') /\ markers'[k] = m
      /\ DOMAIN markers' = DOMAIN markers \cup {k}
      /\ \A j \in DOMAIN markers : markers'[j] = markers[j]
      /\ NewestOf(markers', PassesIn(markers'), leg) = k
      /\ leg = "review" => /\ PassesIn(markers') = n + 1
                           /\ StatusIn(markers', "review") = "open"
                           /\ StatusIn(markers', "resolve") = "none"
      /\ leg = "resolve" => /\ PassesIn(markers') = n
                            /\ StatusIn(markers', "review") = StatusIn(markers, "review")
                            /\ StatusIn(markers', "resolve") = "open"
  <2>1. \/ m.leg = "review" /\ m.state = "started" /\ m.pass = n + 1
        \/ m.leg = "resolve" /\ m.state = "started" /\ m.pass = n
    BY <1>3 DEF Legs
  <2> QED BY <1>1, <1>3, <1>4, <2>1, AppendStatus
<1> HIDE DEF n, k
<1>7. Protocol(markers, markers')
  BY <1>6 DEF Protocol, n, Legs
<1>8. \A j \in DOMAIN markers' :
        markers'[j].leg = "resolve" => markers'[j].state \in {"started", "complete"}
  BY <1>3, <1>6 DEF LoopInv
<1>9. StatusIn(markers', "resolve") # "none" => StatusIn(markers', "review") = "done"
  BY <1>6 DEF Legs
<1>10. JobInv'
  BY <1>1, <1>3, <1>5, <1>6 DEF JobInv
<1> QED
  BY <1>1, <1>6, <1>7, <1>8, <1>9, <1>10 DEF LoopInv

(* A review leg begins: a notice, a new pass, or its own pass again. *)
LEMMA StartReviewOK ==
    ASSUME LoopInv, head' = head, NEW capped \in BOOLEAN,
           Accepts("review"), StartReview(capped)
    PROVE  LoopInv' /\ Protocol(markers, markers')
<1> DEFINE n == PassesIn(markers)
           i == NewestOf(markers, n, "review")
           r == NewestOf(markers, n, "resolve")
<1>1. /\ markers \in Seq(MarkerRec) /\ Numbered(markers) /\ head \in Nat
      /\ StatusIn(markers, "resolve") # "none" => StatusIn(markers, "review") = "done"
  BY DEF LoopInv
<1>2. /\ n \in Nat /\ CurrentReviewPass = n
      /\ MarkerFor(n, "review") = i /\ i \in Nat
      /\ i # 0 => i \in DOMAIN markers /\ markers[i].leg = "review" /\ markers[i].pass = n
      /\ n # 0 => i # 0
  BY CurrentPass
<1>3. StatusIn(markers, "review") = IF i = 0 THEN "none"
        ELSE IF markers[i].state = "started" THEN "open"
        ELSE IF markers[i].state = "declined" THEN "refused"
        ELSE IF Owed(markers[i]) THEN "owed" ELSE "done"
  BY DEF StatusIn
<1> HIDE DEF n, i
<1>4. Admission \in {"new", "resume", "redrive"}
  BY DEF Accepts, Admission
<1>5. Admission = "new" => StatusIn(markers, "review") # "open"
  BY <1>2, <1>3 DEF Admission, State, Owed
<1>6. Admission \in {"resume", "redrive"} =>
        /\ i # 0 /\ markers[i].state # "declined" /\ StatusIn(markers, "review") \in {"open", "owed"}
  BY <1>2, <1>3 DEF Admission, State, Owed, ReviewRedrivable
<1>7. CASE Declined(capped)
           /\ markers' = (IF markers[Len(markers)] = NewMarker("review", NextPass, "declined")
                          THEN markers ELSE Append(markers, NewMarker("review", NextPass, "declined")))
           /\ job' = Labelling("review", "halted")
  <2> DEFINE m == NewMarker("review", NextPass, "declined")
  <2>1. NextPass = IF Admission = "new" THEN n + 1 ELSE n
    BY <1>2 DEF NextPass
  <2>2. m \in MarkerRec /\ m.leg = "review" /\ m.pass = NextPass /\ m.state = "declined"
    BY <1>1, <1>2, <2>1, NewMarkerType DEF Legs
  <2>3. job' \in JobRec /\ job'.step # "work"
    BY <1>7, IdleJobType DEF Legs, OutcomeLabels
  <2>4. CASE markers' = markers
    BY <1>1, <2>3, <2>4, Frame
  <2>5. CASE markers' = Append(markers, m)
    <3> HIDE DEF m
    <3>1. /\ markers' \in Seq(MarkerRec) /\ Numbered(markers')
          /\ DOMAIN markers' = DOMAIN markers \cup {Len(markers) + 1}
          /\ markers'[Len(markers) + 1] = m
          /\ \A j \in DOMAIN markers : markers'[j] = markers[j]
          /\ PassesIn(markers') = n
          /\ StatusIn(markers', "review") = IF m.pass = n THEN "refused"
                                            ELSE StatusIn(markers, "review")
          /\ StatusIn(markers', "resolve") = StatusIn(markers, "resolve")
      <4>1. m.pass \in {PassesIn(markers), PassesIn(markers) + 1}
        BY <2>1, <2>2 DEF n
      <4> QED BY <1>1, <2>2, <2>5, <4>1, AppendStatus DEF n
    <3>2. m.pass = n => Admission \in {"resume", "redrive"}
      BY <1>2, <1>4, <2>1, <2>2
    <3>3. m.pass = n => StatusIn(markers, "review") \in {"open", "owed"}
                        /\ StatusIn(markers, "resolve") = "none"
      BY <1>1, <1>6, <3>2
    <3>4. Protocol(markers, markers')
      BY <3>1, <3>3 DEF Protocol, n
    <3>5. \A j \in DOMAIN markers' :
            markers'[j].leg = "resolve" => markers'[j].state \in {"started", "complete"}
      BY <2>2, <3>1 DEF LoopInv
    <3>6. StatusIn(markers', "resolve") # "none" => StatusIn(markers', "review") = "done"
      BY <1>1, <3>1, <3>3
    <3>7. JobInv'
      BY <2>3 DEF JobInv
    <3> QED BY <1>1, <3>1, <3>4, <3>5, <3>6, <3>7 DEF LoopInv
  <2> QED BY <1>7, <2>4, <2>5
<1>8. CASE Admission = "new" /\ markers' = Append(markers, NewMarker("review", n + 1, "started"))
           /\ job' = Working("review", Len(markers) + 1)
  <2>1. "review" \in Legs /\ n + 1 = PassesIn(markers) + 1
    BY DEF Legs, n
  <2> QED BY <1>5, <1>8, <2>1, Opens
<1>9. CASE Admission \in {"resume", "redrive"} /\ markers' = Reopened(i) /\ job' = Working("review", i)
  <2>1. "review" \in Legs /\ i = NewestOf(markers, PassesIn(markers), "review")
    BY DEF Legs, n, i
  <2>2. StatusIn(markers, "resolve") = "none" /\ StatusIn(markers, "review") \in {"open", "owed"}
        /\ i # 0 /\ markers[i].state # "declined"
    BY <1>1, <1>6, <1>9
  <2> QED BY <1>9, <2>1, <2>2, Reopens
<1> QED
  BY <1>2, <1>7, <1>8, <1>9 DEF StartReview

(* A resolution begins: with nothing to fix, for the first time, or again. *)
LEMMA StartResolveOK ==
    ASSUME LoopInv, head' = head, Accepts("resolve"), StartResolve
    PROVE  LoopInv' /\ Protocol(markers, markers')
<1> DEFINE n == PassesIn(markers)
           i == NewestOf(markers, n, "review")
           r == NewestOf(markers, n, "resolve")
<1>1. /\ markers \in Seq(MarkerRec) /\ Numbered(markers) /\ head \in Nat
      /\ \A j \in DOMAIN markers :
           markers[j].leg = "resolve" => markers[j].state \in {"started", "complete"}
  BY DEF LoopInv
<1>2. /\ n \in Nat /\ CurrentReviewPass = n
      /\ MarkerFor(n, "review") = i /\ MarkerFor(n, "resolve") = r
      /\ i \in Nat /\ r \in Nat
      /\ i # 0 => i \in DOMAIN markers /\ markers[i].leg = "review" /\ markers[i].pass = n
      /\ r # 0 => r \in DOMAIN markers /\ markers[r].leg = "resolve" /\ markers[r].pass = n
  BY CurrentPass
<1>3. /\ StatusIn(markers, "review") = IF i = 0 THEN "none"
           ELSE IF markers[i].state = "started" THEN "open"
           ELSE IF markers[i].state = "declined" THEN "refused"
           ELSE IF Owed(markers[i]) THEN "owed" ELSE "done"
      /\ StatusIn(markers, "resolve") = IF r = 0 THEN "none"
           ELSE IF markers[r].state = "started" THEN "open"
           ELSE IF markers[r].state = "declined" THEN "refused"
           ELSE IF Owed(markers[r]) THEN "owed" ELSE "done"
  BY DEF StatusIn
<1> HIDE DEF n, i, r
<1>4. ResolveAdmission \in {"empty", "claim"}
  BY DEF Accepts
<1>5. StatusIn(markers, "review") = "done"
  <2>1. State(i) = "complete" /\ Verdict(i) # "blocked"
    BY <1>2, <1>4 DEF ResolveAdmission
  <2>2. i # 0 /\ markers[i].state = "complete" /\ markers[i].verdict # "blocked"
    BY <2>1 DEF State, Verdict
  <2> QED BY <1>2, <1>3, <2>2 DEF Owed, ReviewRedrivable
<1>6. r # 0 => markers[r].state # "declined" /\ StatusIn(markers, "resolve") \in {"open", "owed"}
  <2>1. ~(State(r) = "complete" /\ ~ResolveRedrivable(markers[r].res))
    BY <1>2, <1>4 DEF ResolveAdmission
  <2> QED BY <1>1, <1>2, <1>3, <2>1 DEF State, Owed
<1>7. ASSUME markers' = markers, NEW next \in OutcomeLabels, job' = Labelling("resolve", next)
      PROVE  LoopInv' /\ Protocol(markers, markers')
  <2>1. job' \in JobRec /\ job'.step # "work"
    BY <1>7, IdleJobType DEF Legs
  <2> QED BY <1>1, <1>7, <2>1, Frame
<1>8. CASE r = 0 /\ markers' = Append(markers, NewMarker("resolve", n, "started"))
           /\ job' = Working("resolve", Len(markers) + 1)
  <2>1. "resolve" \in Legs /\ n = PassesIn(markers) /\ StatusIn(markers, "resolve") = "none"
    BY <1>3, <1>8 DEF Legs, n
  <2> QED BY <1>5, <1>8, <2>1, Opens
<1>9. CASE r # 0 /\ markers' = Reopened(r) /\ job' = Working("resolve", r)
  <2>1. "resolve" \in Legs /\ r = NewestOf(markers, PassesIn(markers), "resolve")
    BY DEF Legs, n, r
  <2>2. r # 0 /\ markers[r].state # "declined" /\ StatusIn(markers, "resolve") \in {"open", "owed"}
    BY <1>6, <1>9
  <2> QED BY <1>5, <1>9, <2>1, <2>2, Reopens
<1>10. \/ \E next \in OutcomeLabels : job' = Labelling("resolve", next) /\ markers' = markers
       \/ r = 0 /\ markers' = Append(markers, NewMarker("resolve", n, "started"))
          /\ job' = Working("resolve", Len(markers) + 1)
       \/ r # 0 /\ markers' = Reopened(r) /\ job' = Working("resolve", r)
  BY <1>2 DEF StartResolve, OutcomeLabels
<1> QED
  BY <1>7, <1>8, <1>9, <1>10

(* A leg is run, however it was asked for. *)
LEMMA RunLegOK ==
    ASSUME LoopInv, head' = head, NEW leg \in Legs, NEW capped \in BOOLEAN, RunLeg(leg, capped)
    PROVE  LoopInv' /\ Protocol(markers, markers')
<1>1. CASE "stop" \in labels \/ ~Accepts(leg)
  <2>1. \E failed \in BOOLEAN : job' = Stopped(failed) /\ markers' = markers
    BY <1>1 DEF RunLeg
  <2>2. job' \in JobRec /\ job'.step # "work" /\ markers' = markers
    BY <2>1, IdleJobType
  <2> QED BY <2>2, Frame DEF LoopInv
<1>2. CASE ~("stop" \in labels \/ ~Accepts(leg)) /\ leg = "review"
  <2>1. Accepts("review") /\ StartReview(capped)
    BY <1>2 DEF RunLeg
  <2> QED BY <2>1, StartReviewOK
<1>3. CASE ~("stop" \in labels \/ ~Accepts(leg)) /\ leg = "resolve"
  <2>1. Accepts("resolve") /\ StartResolve
    BY <1>3 DEF RunLeg
  <2> QED BY <2>1, StartResolveOK
<1> QED
  BY <1>1, <1>2, <1>3 DEF Legs

-------------------------------------------------------------------------------
(***************************************************************************)
(* The steps.                                                              *)
(***************************************************************************)
(* The marker at work, and that it keeps its leg and pass when it settles. *)
LEMMA AtWork ==
    ASSUME LoopInv, job.step = "work"
    PROVE  job.at \in DOMAIN markers /\ markers[job.at] \in MarkerRec
<1>1. markers \in Seq(MarkerRec) /\ job.at # 0
      /\ job.at = NewestOf(markers, PassesIn(markers), job.leg)
  BY DEF LoopInv, JobInv
<1> QED
  BY <1>1, NewestOfIs, PassesAreCounted

LEMMA PassLabelIsLabel ==
    ASSUME NEW verdict, NEW actionable, NEW escalated
    PROVE  PassLabel(verdict, actionable, escalated) \in OutcomeLabels
BY DEF PassLabel, OutcomeLabels

LEMMA ResolvePassLabelIsLabel ==
    ASSUME NEW m, NEW other
    PROVE  ResolvePassLabel(m, other) \in OutcomeLabels
BY DEF ResolvePassLabel, OutcomeLabels

LEMMA ResultsType ==
    ASSUME NEW pushed \in BOOLEAN
    PROVE  Results(pushed) \subseteq [blocked : BOOLEAN, pushed : BOOLEAN, resolutions : SUBSET Resolution]
<1> DEFINE A == {[word |-> IF pushed THEN "fixed" ELSE "skipped", tracked |-> "absent"]}
           B == {[word |-> "deferred", tracked |-> "unfiled"]}
           C == {[word |-> "escalated", tracked |-> "absent"]}
<1>1. A \in SUBSET Resolution /\ B \in SUBSET Resolution /\ C \in SUBSET Resolution
  BY DEF Resolution, ResolutionWords, TrackedStates
<1>2. Results(pushed) =
        {[blocked |-> FALSE, pushed |-> pushed, resolutions |-> s] : s \in {A, B, C}}
  BY DEF Results
<1> HIDE DEF A, B, C
<1> SUFFICES ASSUME NEW res \in Results(pushed)
             PROVE  res \in [blocked : BOOLEAN, pushed : BOOLEAN, resolutions : SUBSET Resolution]
  OBVIOUS
<1>3. PICK s \in {A, B, C} : res = [blocked |-> FALSE, pushed |-> pushed, resolutions |-> s]
  BY <1>2
<1>4. s \in SUBSET Resolution
  BY <1>1
<1> QED
  BY <1>3, <1>4

(* What the working leg does. *)
LEMMA PushOK ==
    ASSUME LoopInv, Push
    PROVE  LoopInv' /\ Protocol(markers, markers')
<1>1. head \in Nat /\ job \in JobRec
  BY DEF LoopInv, JobInv
<1>2. head' \in Nat /\ markers' = markers /\ job' = [job EXCEPT !.pushed = TRUE]
  BY <1>1 DEF Push
<1>3. job' \in JobRec /\ job'.step = job.step /\ job'.leg = job.leg /\ job'.at = job.at
  BY <1>1, <1>2 DEF JobRec
<1> QED
  BY <1>2, <1>3, Frame

LEMMA SettleReviewOK ==
    ASSUME LoopInv, SettleReview
    PROVE  LoopInv' /\ Protocol(markers, markers')
<1>1. job.step = "work" /\ job.leg = "review" /\ head' = head
  BY DEF SettleReview
<1>2. PICK verdict \in ReviewVerdicts, fixable \in BOOLEAN :
        /\ markers' = Settled([markers[job.at] EXCEPT !.state = "complete",
                                 !.verdict = verdict, !.fixable = fixable])
        /\ job' = Labelling("review", PassLabel(verdict, IF fixable THEN 1 ELSE 0, Escalated))
  BY DEF SettleReview
<1> DEFINE m == [markers[job.at] EXCEPT !.state = "complete", !.verdict = verdict, !.fixable = fixable]
<1>3. markers[job.at] \in MarkerRec
  BY <1>1, AtWork
<1>4. m \in MarkerRec /\ m.leg = markers[job.at].leg /\ m.pass = markers[job.at].pass
      /\ m.state = "complete"
  BY <1>3 DEF MarkerRec
<1>5. job' \in JobRec /\ job'.step # "work"
  BY <1>2, PassLabelIsLabel, IdleJobType DEF Legs
<1> HIDE DEF m
<1> QED
  BY <1>1, <1>2, <1>4, <1>5, Settles DEF m

LEMMA HaltReviewOK ==
    ASSUME LoopInv, HaltReview
    PROVE  LoopInv' /\ Protocol(markers, markers')
<1> DEFINE m == [markers[job.at] EXCEPT !.state = "incomplete"]
<1>1. job.step = "work" /\ job.leg = "review" /\ head' = head /\ markers' = Settled(m)
      /\ job' = Labelling("review", "halted")
  BY DEF HaltReview
<1>2. markers[job.at] \in MarkerRec
  BY <1>1, AtWork
<1>3. m \in MarkerRec /\ m.leg = markers[job.at].leg /\ m.pass = markers[job.at].pass
      /\ m.state = "incomplete"
  BY <1>2 DEF MarkerRec
<1>4. job' \in JobRec /\ job'.step # "work"
  BY <1>1, IdleJobType DEF Legs, OutcomeLabels
<1> HIDE DEF m
<1> QED
  BY <1>1, <1>3, <1>4, Settles

LEMMA SettleResolveOK ==
    ASSUME LoopInv, SettleResolve
    PROVE  LoopInv' /\ Protocol(markers, markers')
<1>1. job.step = "work" /\ job.leg = "resolve" /\ head' = head /\ job.pushed \in BOOLEAN
  BY DEF SettleResolve, LoopInv, JobInv, JobRec
<1>2. PICK res \in Results(job.pushed), base \in OutcomeLabels :
        /\ markers' = Settled([markers[job.at] EXCEPT !.state = "complete", !.res = res])
        /\ job' = [Labelling("resolve", IF base = "converged" /\ lost THEN "awaiting-review" ELSE base)
                     EXCEPT !.brake = Has(res, "escalated")]
  BY ResolvePassLabelIsLabel DEF SettleResolve
<1> DEFINE m == [markers[job.at] EXCEPT !.state = "complete", !.res = res]
           label == IF base = "converged" /\ lost THEN "awaiting-review" ELSE base
<1>3. markers[job.at] \in MarkerRec
  BY <1>1, AtWork
<1>4. res \in [blocked : BOOLEAN, pushed : BOOLEAN, resolutions : SUBSET Resolution]
  BY <1>1, ResultsType
<1>5. m \in MarkerRec /\ m.leg = markers[job.at].leg /\ m.pass = markers[job.at].pass
      /\ m.state = "complete"
  BY <1>3, <1>4 DEF MarkerRec
<1>6. job' \in JobRec /\ job'.step # "work"
  <2>1. label \in OutcomeLabels
    BY DEF OutcomeLabels
  <2>2. Labelling("resolve", label) \in JobRec /\ Labelling("resolve", label).step # "work"
    BY <2>1, IdleJobType DEF Legs
  <2>3. Has(res, "escalated") \in BOOLEAN
    BY DEF Has
  <2>4. job' = [Labelling("resolve", label) EXCEPT !.brake = Has(res, "escalated")]
    BY <1>2
  <2> HIDE DEF label
  <2> QED BY <2>2, <2>3, <2>4 DEF JobRec
<1> HIDE DEF m, label
<1> QED
  BY <1>1, <1>2, <1>5, <1>6, Settles DEF m

(* A leg that dies and records it. *)
LEMMA FatalOK ==
    ASSUME LoopInv, job.step = "work", head' = head, markers' = Fatal, job' = Stopped(TRUE)
    PROVE  LoopInv' /\ Protocol(markers, markers')
<1> DEFINE m == [markers[job.at] EXCEPT !.state = "complete",
                     !.verdict = IF job.leg = "review" THEN "blocked" ELSE @,
                     !.res = [@ EXCEPT !.blocked = (job.leg = "resolve")]]
<1>1. job.step = "work" /\ head' = head /\ markers' = Settled(m) /\ job' = Stopped(TRUE)
  BY DEF Fatal
<1>2. markers[job.at] \in MarkerRec
  BY <1>1, AtWork
<1>3. m \in MarkerRec /\ m.leg = markers[job.at].leg /\ m.pass = markers[job.at].pass
      /\ m.state = "complete"
  <2>1. [markers[job.at].res EXCEPT !.blocked = (job.leg = "resolve")]
          \in [blocked : BOOLEAN, pushed : BOOLEAN, resolutions : SUBSET Resolution]
    BY <1>2 DEF MarkerRec
  <2>2. (IF job.leg = "review" THEN "blocked" ELSE markers[job.at].verdict) \in ReviewVerdicts \cup {"null"}
    BY <1>2 DEF MarkerRec, ReviewVerdicts
  <2> QED BY <1>2, <2>1, <2>2 DEF MarkerRec
<1>4. job' \in JobRec /\ job'.step # "work"
  BY <1>1, IdleJobType
<1> HIDE DEF m
<1> QED
  BY <1>1, <1>3, <1>4, Settles

(* What the drivers, the watchdog and people do to the markers: run a leg, *)
(* or nothing.                                                             *)
LEMMA RunsOrLeaves ==
    ASSUME LoopInv, head' = head,
           \/ \E leg \in Legs, capped \in BOOLEAN : RunLeg(leg, capped)
           \/ markers' = markers /\ job' = job
    PROVE  LoopInv' /\ Protocol(markers, markers')
<1>1. CASE \E leg \in Legs, capped \in BOOLEAN : RunLeg(leg, capped)
  BY <1>1, RunLegOK
<1>2. CASE markers' = markers /\ job' = job
  <2>1. head' \in Nat /\ job' \in JobRec
    BY <1>2 DEF LoopInv, JobInv
  <2> QED BY <1>2, <2>1, Frame
<1> QED
  BY <1>1, <1>2

LEMMA FinishAtBoundRuns ==
    FinishAtBound => \/ \E leg \in Legs, capped \in BOOLEAN : RunLeg(leg, capped)
                     \/ markers' = markers /\ job' = job
BY DEF FinishAtBound, Resolves, Legs

LEMMA DriverOK ==
    ASSUME LoopInv, StartCycle \/ AfterReview \/ AfterResolve
    PROVE  LoopInv' /\ Protocol(markers, markers')
<1>1. CASE StartCycle
  <2>1. head' = head
    BY <1>1 DEF StartCycle
  <2>2. \/ \E leg \in Legs, capped \in BOOLEAN : RunLeg(leg, capped)
        \/ markers' = markers /\ job' = job
    BY <1>1, FinishAtBoundRuns DEF StartCycle, Reviews, Legs
  <2> QED BY <2>1, <2>2, RunsOrLeaves
<1>2. CASE AfterReview
  <2>1. head' = head
    BY <1>2 DEF AfterReview
  <2>2. \/ \E leg \in Legs, capped \in BOOLEAN : RunLeg(leg, capped)
        \/ markers' = markers /\ job' = job
    BY <1>2, FinishAtBoundRuns DEF AfterReview, Resolves, Legs
  <2> QED BY <2>1, <2>2, RunsOrLeaves
<1>3. CASE AfterResolve
  <2>1. head' = head
    BY <1>3 DEF AfterResolve
  <2>2. \/ \E leg \in Legs, capped \in BOOLEAN : RunLeg(leg, capped)
        \/ markers' = markers /\ job' = job
    BY <1>3 DEF AfterResolve, Reviews, Legs
  <2> QED BY <2>1, <2>2, RunsOrLeaves
<1> QED
  BY <1>1, <1>2, <1>3

LEMMA AutomationOK ==
    ASSUME LoopInv, events \subseteq Legs, Automation
    PROVE  LoopInv' /\ Protocol(markers, markers')
<1>1. CASE RunWorkflow
  <2>1. head' = head
    BY <1>1 DEF RunWorkflow
  <2>2. \E leg \in Legs, capped \in BOOLEAN : RunLeg(leg, capped)
    BY <1>1 DEF RunWorkflow
  <2> QED BY <2>1, <2>2, RunsOrLeaves
<1>2. CASE Watchdog
  <2>1. head' = head /\ markers' = markers /\ job' = job
    BY <1>2 DEF Watchdog, Sweep, Retry, AddBack, GiveUp
  <2> QED BY <2>1, RunsOrLeaves
<1> QED
  BY <1>1, <1>2 DEF Automation

LEMMA PeopleOK ==
    ASSUME LoopInv, RunByHand \/ SomebodyPushes \/ ToggleStop \/ Restart
    PROVE  LoopInv' /\ Protocol(markers, markers')
<1>1. CASE RunByHand
  <2>1. head' = head
    BY <1>1 DEF RunByHand
  <2>2. \E leg \in Legs, capped \in BOOLEAN : RunLeg(leg, capped)
    BY <1>1 DEF RunByHand
  <2> QED BY <2>1, <2>2, RunsOrLeaves
<1>2. CASE SomebodyPushes
  <2>1. markers' = markers /\ job' = job /\ head' \in Nat /\ job' \in JobRec
    BY <1>2 DEF SomebodyPushes, LoopInv, JobInv
  <2> QED BY <2>1, Frame
<1>3. CASE ToggleStop \/ Restart
  <2>1. head' = head /\ markers' = markers /\ job' = job
    BY <1>3 DEF ToggleStop, Restart
  <2> QED BY <2>1, RunsOrLeaves
<1> QED
  BY <1>1, <1>2, <1>3

(* Trouble away from the legs. *)
Aside == DropEvent \/ LoseLedger \/ RetryCut \/ AddBackCut \/ GiveUpCut \/ RestartCut

(* A leg that ends without its marker, or trouble elsewhere. *)
LEMMA LeavesOK ==
    ASSUME LoopInv, ApplyLabels \/ ApplyLabelsCut \/ Dies \/ Aside
    PROVE  LoopInv' /\ Protocol(markers, markers')
<1>1. CASE ApplyLabels \/ ApplyLabelsCut \/ Dies
  <2>1. head' = head /\ markers' = markers /\ job' \in JobRec /\ job'.step # "work"
    BY <1>1, IdleJobType DEF ApplyLabels, ApplyLabelsCut, Dies
  <2> QED BY <2>1, Frame DEF LoopInv
<1>2. CASE Aside
  <2>1. head' = head /\ markers' = markers /\ job' = job
    BY <1>2 DEF Aside, DropEvent, LoseLedger, RetryCut, AddBackCut, GiveUpCut, RestartCut
  <2> QED BY <2>1, RunsOrLeaves
<1> QED
  BY <1>1, <1>2

(* A leg dies and records it, or fails to. *)
LEMMA ReportFatalOK ==
    ASSUME LoopInv, ReportFatal \/ ReportFatalCut
    PROVE  LoopInv' /\ Protocol(markers, markers')
<1>1. job.step = "work" /\ head' = head /\ job' = Stopped(TRUE)
  BY DEF ReportFatal, ReportFatalCut
<1>2. CASE markers' = Fatal
  BY <1>1, <1>2, FatalOK
<1>3. CASE markers' = markers
  <2>1. job' \in JobRec /\ job'.step # "work"
    BY <1>1, IdleJobType
  <2> QED BY <1>1, <1>3, <2>1, Frame DEF LoopInv
<1> QED
  BY <1>2, <1>3 DEF ReportFatal, ReportFatalCut

(* Only the labels of the legs are events. *)
LEMMA EventsInit == Init => events \subseteq Legs
BY DEF Init, Legs

LEMMA EventsStep ==
    ASSUME events \subseteq Legs, [Next]_vars
    PROVE  events' \subseteq Legs
<1>1. \A before, next : Fires(before, next) \subseteq Legs
  BY DEF Fires
<1>2. CASE Next
  BY <1>1, <1>2
     DEF Next, Work, Automation, Watchdog, Driver, People, Trouble, Push, SettleReview,
         HaltReview, SettleResolve, ApplyLabels, RunWorkflow, Sweep, Retry, AddBack, GiveUp,
         AfterReview, AfterResolve, StartCycle, RunByHand, SomebodyPushes, ToggleStop, Restart,
         ReportFatal, Dies, DropEvent, LoseLedger, ApplyLabelsCut, ReportFatalCut, RetryCut,
         AddBackCut, GiveUpCut, RestartCut, Fired
<1>3. CASE UNCHANGED vars
  BY <1>3 DEF vars
<1> QED
  BY <1>2, <1>3

LEMMA StepOK ==
    ASSUME LoopInv, events \subseteq Legs, [Next]_vars
    PROVE  LoopInv' /\ Protocol(markers, markers')
<1>1. CASE Work
  BY <1>1, PushOK, SettleReviewOK, HaltReviewOK, SettleResolveOK, LeavesOK DEF Work
<1>2. CASE Automation
  BY <1>2, AutomationOK
<1>3. CASE Driver
  BY <1>3, DriverOK DEF Driver
<1>4. CASE People
  BY <1>4, DriverOK, PeopleOK DEF People
<1>5. CASE Trouble
  BY <1>5, ReportFatalOK, LeavesOK DEF Trouble, Aside
<1>6. CASE UNCHANGED vars
  <2>1. head' = head /\ markers' = markers /\ job' = job
    BY <1>6 DEF vars
  <2> QED BY <2>1, RunsOrLeaves
<1> QED
  BY <1>1, <1>2, <1>3, <1>4, <1>5, <1>6 DEF Next

(* The passes follow the protocol: no resolution begins before the review  *)
(* of its pass has settled, no review is taken up again once its           *)
(* resolution has begun, no pass is returned to, whether a workflow, the   *)
(* local driver, the watchdog or a person runs the legs, and wherever they *)
(* die (internal/cycle; the admission of internal/review/claim.go and      *)
(* internal/resolve/claim.go).                                             *)
THEOREM LoopFollowsProtocol == Spec => PassesFollowProtocol
<1>1. Init => LoopInv /\ events \subseteq Legs /\ Abstract!Init
  BY LoopInit, EventsInit
<1>2. LoopInv /\ events \subseteq Legs /\ [Next]_vars => LoopInv' /\ (events \subseteq Legs)'
  BY StepOK, EventsStep
<1>3. LoopInv /\ events \subseteq Legs /\ [Next]_vars => [Abstract!Next]_(Abstract!vars)
  BY StepOK, ProtocolIsNext
<1> QED
  BY <1>1, <1>2, <1>3, PTL DEF Spec, PassesFollowProtocol, Abstract!Spec

-------------------------------------------------------------------------------
(***************************************************************************)
(* What the driver, restart and status say.  The readers again, of any     *)
(* list of markers, and the invariants they rest on.                       *)
(***************************************************************************)
Rv(ms) == NewestOf(ms, PassesIn(ms), "review")
Rs(ms) == NewestOf(ms, PassesIn(ms), "resolve")
SomeEscalated(ms) == \E j \in DOMAIN ms : Has(ms[j].res, "escalated")

(* Which fields a marker fills in, by leg and state. *)
Shaped(m) ==
    /\ m.verdict # "null" <=> m.leg = "review" /\ m.state = "complete"
    /\ m.fixable => m.verdict = "issues-remain"
    /\ m.leg = "review" \/ m.state = "started" => m.res = Clean

(* The passes are in comment order, a pass has one resolution, of a review *)
(* with something to fix, and notices are of passes beyond the cap.        *)
Recorded(ms, h, cap) ==
    /\ \A j \in DOMAIN ms : Shaped(ms[j]) /\ ms[j].head <= h /\ ms[j].pass # 0
    /\ \A j, k \in RanIn(ms) : j < k => ms[j].pass < ms[k].pass
    /\ \A j, k \in DOMAIN ms :
         ms[j].leg = "resolve" /\ ms[k].leg = "resolve" /\ ms[j].pass = ms[k].pass => j = k
    /\ \A j \in DOMAIN ms :
         ms[j].state = "declined" => ms[j].pass > cap /\ ms[j].pass <= PassesIn(ms) + 1
    /\ Rs(ms) # 0 => ms[Rv(ms)].fixable

(* A notice that refuses the pass after the current one. *)
Noticed(ms) == \E j \in DOMAIN ms : ms[j].state = "declined" /\ ms[j].pass = PassesIn(ms) + 1

(* While nothing fails: an open marker is the one at work, a resolution    *)
(* ends in a result, and the head has moved past a review that was refused *)
(* a successor or answered with a push.                                    *)
Calm(ms, h, J) ==
    /\ \A j \in DOMAIN ms : ms[j].state = "started" => J.step = "work" /\ j = J.at
    /\ \A j \in DOMAIN ms : ms[j].leg = "resolve" /\ ms[j].state = "complete" =>
                                ms[j].res \in Results(TRUE) \cup Results(FALSE)
    /\ Noticed(ms) => \A j \in RanIn(ms) : ms[j].pass = PassesIn(ms) => ms[j].head < h
    /\ Rs(ms) # 0 /\ (ms[Rs(ms)].res.pushed \/ (J.step = "work" /\ J.leg = "resolve" /\ J.pushed))
         => ms[Rv(ms)].head < h

(* The current review is settled, and not blocked. *)
Judged(ms) == Rv(ms) # 0 /\ ms[Rv(ms)].state = "complete" /\ ms[Rv(ms)].verdict # "blocked"

(* The label the current resolution stands for. *)
Stands(ms) ==
    IF Rs(ms) = 0 \/ ms[Rs(ms)].state # "complete" THEN "none"
    ELSE ResolvePassLabel(ms[Rs(ms)].res, IF SomeEscalated(ms) THEN 1 ELSE 0)

(* The markers leave nothing to do. *)
Green(ms) ==
    /\ Judged(ms)
    /\ \/ ms[Rv(ms)].verdict = "converged"
       \/ ~ms[Rv(ms)].fixable /\ ~SomeEscalated(ms)
       \/ Stands(ms) = "converged"

(* A resolution would be taken up, and is called for. *)
Answerable(ms) ==
    /\ Judged(ms)
    /\ Rs(ms) # 0 /\ ms[Rs(ms)].state = "complete" => ResolveRedrivable(ms[Rs(ms)].res)

Owing(ms) ==
    /\ Answerable(ms) /\ ms[Rv(ms)].fixable /\ ~SomeEscalated(ms) /\ ~Noticed(ms)
    /\ Rs(ms) # 0 => ms[Rs(ms)].state = "complete"

(* Why the loop halted can be seen. *)
Red(m) == m.state = "declined" \/ (m.state = "complete" /\ (m.verdict = "blocked" \/ Has(m.res, "escalated")))
Shown(ms) ==
    \/ \E j \in DOMAIN ms : j = NewestOf(ms, ms[j].pass, ms[j].leg) /\ Red(ms[j])
    \/ \E j \in DOMAIN ms : UnfiledDeferrals(ms[j].res) # {} \/ ms[j].state = "incomplete"

(* The outcome labels L are right for the markers. *)
Fit(ms, L, how) ==
    /\ Green(ms) => "converged" \in L \/ (how = "automated" /\ Noticed(ms))
    /\ how = "local" =>
         /\ "awaiting-resolution" \in L => Answerable(ms)
         /\ Owing(ms) => L \cap {"halted", "awaiting-resolution"} # {}
         /\ "halted" \in L => Shown(ms)

(* Each mode leaves the other's actors alone. *)
ModeInv ==
    /\ mode \in {"automated", "local"} /\ used \in [moves : Nat, faults : Nat, bare : Nat]
    /\ mode = "local" => events = {} /\ dog = IdleDog
    /\ mode = "automated" => driver = OffDriver
    /\ driver \in [step : {"off", "review", "resolve"}, turn : Nat, bound : BOOLEAN,
                   said : {"none", "failed", "halted", "converged", "cap", "unfinished"}]

RecordedInv == Recorded(markers, head, MaxPasses)

CalmInv ==
    used.faults = 0 =>
        /\ ~lost /\ Calm(markers, head, job)
        /\ Idle => Fit(markers, labels, mode)
        /\ job.step = "label" => Fit(markers, {job.next}, mode)
        /\ driver.said = "converged" => Idle /\ "converged" \in labels

TruthInv == LoopInv /\ ModeInv /\ RecordedInv /\ CalmInv

(***************************************************************************)
(* What the readers return.                                                *)
(***************************************************************************)
LEMMA CapIsPositive == MaxPasses \in Nat \ {0}
BY LoopAssumption DEF MaxPasses

LEMMA View ==
    ASSUME NEW ms \in Seq(MarkerRec), Numbered(ms)
    PROVE  LET n == PassesIn(ms)
           IN  /\ n \in Nat /\ Rv(ms) \in Nat /\ Rs(ms) \in Nat
               /\ Rv(ms) # 0 => /\ Rv(ms) \in DOMAIN ms /\ ms[Rv(ms)] \in MarkerRec
                                /\ ms[Rv(ms)].leg = "review" /\ ms[Rv(ms)].pass = n
               /\ Rs(ms) # 0 => /\ Rs(ms) \in DOMAIN ms /\ ms[Rs(ms)] \in MarkerRec
                                /\ ms[Rs(ms)].leg = "resolve" /\ ms[Rs(ms)].pass = n
               /\ \A j \in DOMAIN ms : ms[j].leg = "review" /\ ms[j].pass = n => Rv(ms) # 0 /\ j <= Rv(ms)
               /\ \A j \in DOMAIN ms : ms[j].leg = "resolve" /\ ms[j].pass = n => Rs(ms) # 0 /\ j <= Rs(ms)
               /\ n # 0 => Rv(ms) # 0
<1> DEFINE n == PassesIn(ms)
           i == NewestOf(ms, n, "review")
           r == NewestOf(ms, n, "resolve")
<1>1. n \in Nat /\ \A j \in DOMAIN ms : ms[j] \in MarkerRec
  BY PassesAreCounted
<1>2. /\ i \in Nat
      /\ i # 0 => i \in DOMAIN ms /\ ms[i].leg = "review" /\ ms[i].pass = n
      /\ \A j \in DOMAIN ms : ms[j].pass = n /\ ms[j].leg = "review" => i # 0 /\ j <= i
  BY NewestOfIs
<1>3. /\ r \in Nat
      /\ r # 0 => r \in DOMAIN ms /\ ms[r].leg = "resolve" /\ ms[r].pass = n
      /\ \A j \in DOMAIN ms : ms[j].pass = n /\ ms[j].leg = "resolve" => r # 0 /\ j <= r
  BY NewestOfIs
<1>4. n # 0 => \E j \in RanIn(ms) : ms[j].pass = n
  BY <1>1 DEF Numbered
<1>5. i = Rv(ms) /\ r = Rs(ms)
  BY DEF Rv, Rs
<1> HIDE DEF i, r
<1> QED
  BY <1>1, <1>2, <1>3, <1>4, <1>5 DEF RanIn

(* The markers of the current pass, as Loop and Status read them. *)
LEMMA ReadersNow ==
    ASSUME LoopInv
    PROVE  /\ CurrentReviewPass = PassesIn(markers)
           /\ MarkerFor(CurrentReviewPass, "review") = Rv(markers)
           /\ MarkerFor(CurrentReviewPass, "resolve") = Rs(markers)
           /\ CurrentReview = Rv(markers) /\ CurrentResolve = Rs(markers)
BY CurrentPass, Readers DEF Rv, Rs, CurrentReview, CurrentResolve

(* Whether anything is escalated, as a count. *)
LEMMA EscalatedIs ==
    ASSUME markers \in Seq(MarkerRec)
    PROVE  /\ Escalated \in Nat /\ (Escalated > 0 <=> SomeEscalated(markers))
           /\ Escalated = 0 <=> ~SomeEscalated(markers)
<1> DEFINE S == {j \in DOMAIN markers : Has(markers[j].res, "escalated")}
<1>1. IsFiniteSet(DOMAIN markers) /\ S \subseteq DOMAIN markers
  BY PassesAreCounted
<1>2. IsFiniteSet(S) /\ Cardinality(S) \in Nat
  BY <1>1, FS_Subset, FS_CardinalityType
<1>3. Cardinality(S) = 0 <=> S = {}
  BY <1>2, FS_EmptySet
<1>4. Escalated = Cardinality(S) /\ (SomeEscalated(markers) <=> S # {})
  BY DEF Escalated, SomeEscalated
<1> HIDE DEF S
<1> QED BY <1>2, <1>3, <1>4

LEMMA StandsIs ==
    ASSUME markers \in Seq(MarkerRec), NEW res
    PROVE  ResolvePassLabel(res, Escalated)
             = ResolvePassLabel(res, IF SomeEscalated(markers) THEN 1 ELSE 0)
BY EscalatedIs DEF ResolvePassLabel

(* A pass with a resolution has a settled review. *)
LEMMA AnsweredIsJudged ==
    ASSUME NEW ms \in Seq(MarkerRec), Numbered(ms)
    PROVE  /\ StatusIn(ms, "review") = "done" => Judged(ms)
           /\ StatusIn(ms, "resolve") = "none" <=> Rs(ms) = 0
<1> DEFINE i == Rv(ms)
           r == Rs(ms)
<1>1. i # 0 => ms[i].state \in {"started", "incomplete", "complete", "declined"} /\ ms[i].leg = "review"
  BY View DEF MarkerRec
<1>2. StatusIn(ms, "review") = IF i = 0 THEN "none"
        ELSE IF ms[i].state = "started" THEN "open"
        ELSE IF ms[i].state = "declined" THEN "refused"
        ELSE IF Owed(ms[i]) THEN "owed" ELSE "done"
  BY DEF StatusIn, Rv
<1>3. StatusIn(ms, "resolve") = IF r = 0 THEN "none"
        ELSE IF ms[r].state = "started" THEN "open"
        ELSE IF ms[r].state = "declined" THEN "refused"
        ELSE IF Owed(ms[r]) THEN "owed" ELSE "done"
  BY DEF StatusIn, Rs
<1> HIDE DEF i, r
<1>4. StatusIn(ms, "review") = "done" => i # 0 /\ ms[i].state = "complete" /\ ms[i].verdict # "blocked"
  BY <1>1, <1>2 DEF Owed, ReviewRedrivable
<1>5. StatusIn(ms, "resolve") = "none" <=> r = 0
  BY <1>3
<1> QED BY <1>4, <1>5 DEF Judged, i, r

LEMMA JudgedNow ==
    ASSUME LoopInv
    PROVE  /\ Rs(markers) # 0 => Judged(markers)
           /\ job.step = "work" /\ job.leg = "resolve" =>
                Judged(markers) /\ job.at = Rs(markers) /\ Rs(markers) # 0
           /\ job.step = "work" /\ job.leg = "review" =>
                Rs(markers) = 0 /\ job.at = Rv(markers) /\ Rv(markers) # 0
BY AnsweredIsJudged DEF LoopInv, JobInv, Rv, Rs

(* The newest review that ran is of the current pass. *)
LEMMA NewestRanIs ==
    ASSUME LoopInv, RecordedInv
    PROVE  /\ Ran = {} <=> PassesIn(markers) = 0
           /\ PassesIn(markers) # 0 =>
                /\ Max(Ran) \in RanIn(markers) /\ markers[Max(Ran)].pass = PassesIn(markers)
                /\ \A j \in RanIn(markers) : j <= Max(Ran)
           /\ Rv(markers) # 0 /\ markers[Rv(markers)].state # "declined" =>
                Rv(markers) \in RanIn(markers) /\ Max(Ran) = Rv(markers)
           /\ PassesIn(markers) = 0 => Rv(markers) = 0
<1> DEFINE n == PassesIn(markers)
           R == RanIn(markers)
<1>1. /\ markers \in Seq(MarkerRec) /\ Numbered(markers) /\ n \in Nat /\ Ran = R
      /\ R \subseteq DOMAIN markers /\ IsFiniteSet(R) /\ R \subseteq Nat \ {0} /\ n = Cardinality(R)
      /\ \A j \in DOMAIN markers : markers[j].pass \in Nat
  BY PassesAreCounted, Readers DEF LoopInv, PassesIn, MarkerRec
<1>2. R = {} <=> n = 0
  BY <1>1, FS_EmptySet
<1>3. \A j \in R : markers[j].pass \in 1..n
  BY <1>1 DEF Numbered
<1>4. n # 0 => \E j \in R : markers[j].pass = n
  BY <1>1 DEF Numbered
<1>5. \A j, k \in R : j < k => markers[j].pass < markers[k].pass
  BY DEF RecordedInv, Recorded
<1>6. R # {} => Max(R) \in R /\ \A j \in R : j <= Max(R)
  BY <1>1, MaxIsMember
<1> HIDE DEF n, R
<1>7. n # 0 => Max(R) \in R /\ markers[Max(R)].pass = n /\ \A j \in R : j <= Max(R)
  <2> SUFFICES ASSUME n # 0 PROVE Max(R) \in R /\ markers[Max(R)].pass = n /\ \A j \in R : j <= Max(R)
    OBVIOUS
  <2>1. PICK j \in R : markers[j].pass = n
    BY <1>4
  <2> DEFINE x == Max(R)
  <2>2. x \in R /\ j <= x /\ \A l \in R : l <= x
    BY <1>2, <1>6
  <2> HIDE DEF x
  <2>3. x = j \/ j < x
    BY <1>1, <2>1, <2>2
  <2>4. markers[x].pass = n
    BY <1>1, <1>3, <1>5, <2>1, <2>2, <2>3
  <2> QED BY <2>2, <2>4 DEF x
<1>8. Rv(markers) # 0 /\ markers[Rv(markers)].state # "declined" =>
        Rv(markers) \in R /\ Max(R) = Rv(markers)
  <2> DEFINE i == Rv(markers)
  <2> SUFFICES ASSUME i # 0, markers[i].state # "declined" PROVE i \in R /\ Max(R) = i
    OBVIOUS
  <2>1. i \in DOMAIN markers /\ markers[i].leg = "review" /\ markers[i].pass = n
    BY <1>1, View DEF n
  <2> HIDE DEF i
  <2>2. i \in R
    BY <2>1 DEF R, RanIn
  <2>3. n # 0
    BY <1>2, <2>2
  <2>4. Max(R) = i
    BY <1>1, <1>7, <2>1, <2>2, <2>3 DEF Numbered, R, n
  <2> QED BY <2>2, <2>4
<1>9. n = 0 => Rv(markers) = 0
  <2> DEFINE i == Rv(markers)
  <2> SUFFICES ASSUME n = 0, i # 0 PROVE FALSE
    OBVIOUS
  <2>1. i \in DOMAIN markers /\ markers[i].leg = "review" /\ markers[i].pass = 0
    BY <1>1, View DEF n
  <2> HIDE DEF i
  <2>2. markers[i].state = "declined"
    BY <1>2, <2>1 DEF R, RanIn
  <2>3. markers[i].pass > MaxPasses
    BY <2>1, <2>2 DEF RecordedInv, Recorded
  <2> QED BY <2>1, <2>3, CapIsPositive
<1> QED
  BY <1>1, <1>2, <1>7, <1>8, <1>9 DEF n, R

(***************************************************************************)
(* The markers change: one is rewritten, or one more is added.             *)
(***************************************************************************)
(* One marker rewritten: what the readers make of the new list. *)
Rewritten(ms, es, i, m) ==
    /\ es \in Seq(MarkerRec) /\ Numbered(es) /\ DOMAIN es = DOMAIN ms /\ es[i] = m
    /\ \A j \in DOMAIN ms \ {i} : es[j] = ms[j]
    /\ \A j \in DOMAIN ms : /\ es[j].leg = ms[j].leg /\ es[j].pass = ms[j].pass
                            /\ es[j].state = "declined" <=> ms[j].state = "declined"
    /\ PassesIn(es) = PassesIn(ms) /\ Rv(es) = Rv(ms) /\ Rs(es) = Rs(ms)
    /\ RanIn(es) = RanIn(ms) /\ (Noticed(es) <=> Noticed(ms))
    /\ \A pass, leg : NewestOf(es, pass, leg) = NewestOf(ms, pass, leg)

LEMMA Rewrites ==
    ASSUME NEW ms \in Seq(MarkerRec), NEW i \in DOMAIN ms, NEW m \in MarkerRec,
           m.leg = ms[i].leg, m.pass = ms[i].pass,
           m.state # "declined", ms[i].state # "declined", Numbered(ms)
    PROVE  Rewritten(ms, [ms EXCEPT ![i] = m], i, m)
<1> DEFINE es == [ms EXCEPT ![i] = m]
<1>1. ReadAlike(ms, es, i, m)
  <2>1. m.state = "declined" <=> ms[i].state = "declined"
    OBVIOUS
  <2>2. m.leg = ms[i].leg /\ m.pass = ms[i].pass /\ Numbered(ms) /\ ms \in Seq(MarkerRec)
    OBVIOUS
  <2> QED BY <2>1, <2>2, EditReaders
<1> HIDE DEF es
<1>2. \A j \in DOMAIN ms : /\ es[j].leg = ms[j].leg /\ es[j].pass = ms[j].pass
                           /\ es[j].state = "declined" <=> ms[j].state = "declined"
  BY <1>1 DEF ReadAlike
<1>3. RanIn(es) = RanIn(ms)
  BY <1>1, <1>2 DEF ReadAlike, RanIn
<1>4. Noticed(es) <=> Noticed(ms)
  BY <1>1, <1>2 DEF ReadAlike, Noticed
<1>5. Rv(es) = Rv(ms) /\ Rs(es) = Rs(ms)
  BY <1>1 DEF ReadAlike, Rv, Rs
<1> QED
  BY <1>1, <1>2, <1>3, <1>4, <1>5 DEF ReadAlike, Rewritten, es

LEMMA RewrittenRecorded ==
    ASSUME NEW ms \in Seq(MarkerRec), NEW es, NEW i \in DOMAIN ms, NEW m,
           NEW h \in Nat, NEW h2 \in Nat, h <= h2, NEW cap,
           Rewritten(ms, es, i, m), Recorded(ms, h, cap), Shaped(m), m.head <= h2,
           Rs(ms) # 0 /\ i = Rv(ms) => m.fixable, Rs(ms) # 0 => Judged(ms), Numbered(ms)
    PROVE  Recorded(es, h2, cap)
<1>1. \A j \in DOMAIN es : Shaped(es[j]) /\ es[j].head <= h2 /\ es[j].pass # 0
  <2>1. \A j \in DOMAIN ms : ms[j].head \in Nat
    BY PassesAreCounted DEF MarkerRec
  <2> QED BY <2>1 DEF Rewritten, Recorded
<1>2. \A j, k \in RanIn(es) : j < k => es[j].pass < es[k].pass
  <2>1. RanIn(es) = RanIn(ms) /\ RanIn(ms) \subseteq DOMAIN ms
    BY PassesAreCounted DEF Rewritten
  <2>2. \A j \in RanIn(ms) : es[j].pass = ms[j].pass
    BY <2>1 DEF Rewritten
  <2> QED BY <2>1, <2>2 DEF Recorded
<1>3. \A j, k \in DOMAIN es :
         es[j].leg = "resolve" /\ es[k].leg = "resolve" /\ es[j].pass = es[k].pass => j = k
  BY DEF Rewritten, Recorded
<1>4. \A j \in DOMAIN es :
         es[j].state = "declined" => es[j].pass > cap /\ es[j].pass <= PassesIn(es) + 1
  BY DEF Rewritten, Recorded
<1>5. Rs(es) # 0 => es[Rv(es)].fixable
  <2>1. Rs(ms) # 0 /\ i # Rv(ms) => es[Rv(ms)] = ms[Rv(ms)] \/ Rv(ms) \notin DOMAIN ms
    BY DEF Rewritten
  <2>2. Rs(ms) # 0 => Rv(ms) # 0 /\ Rv(ms) \in DOMAIN ms
    BY View DEF Judged
  <2> QED BY <2>1, <2>2, View DEF Rewritten, Recorded
<1> QED BY <1>1, <1>2, <1>3, <1>4, <1>5 DEF Recorded

(* One marker more: what the readers make of the new list. *)
Added(ms, es, m) ==
    LET k == Len(ms) + 1
    IN  /\ es \in Seq(MarkerRec) /\ Numbered(es) /\ es[k] = m
        /\ k \in Nat /\ k # 0 /\ DOMAIN es = DOMAIN ms \cup {k}
        /\ \A j \in DOMAIN ms : es[j] = ms[j] /\ j \in Nat /\ j # 0 /\ j < k
        /\ RanIn(es) = (IF m.leg = "review" /\ m.state # "declined" THEN RanIn(ms) \cup {k} ELSE RanIn(ms))
        /\ PassesIn(es) = (IF m.leg = "review" /\ m.state # "declined"
                           THEN PassesIn(ms) + 1 ELSE PassesIn(ms))
        /\ \A pass, leg : NewestOf(es, pass, leg) = IF m.pass = pass /\ m.leg = leg
                                                    THEN k ELSE NewestOf(ms, pass, leg)

Begins(ms, m) ==
    \/ m.leg = "review" /\ m.state = "started" /\ m.pass = PassesIn(ms) + 1
    \/ m.leg = "review" /\ m.state = "declined" /\ m.pass \in {PassesIn(ms), PassesIn(ms) + 1}
    \/ m.leg = "resolve" /\ m.state = "started" /\ m.pass = PassesIn(ms) /\ Rs(ms) = 0

LEMMA Adds ==
    ASSUME NEW ms \in Seq(MarkerRec), NEW m \in MarkerRec, Numbered(ms), Begins(ms, m)
    PROVE  Added(ms, Append(ms, m), m)
<1> DEFINE es == Append(ms, m)
           k == Len(ms) + 1
<1>1. \/ m.leg = "review" /\ m.state # "declined" /\ m.pass = PassesIn(ms) + 1
      \/ m.leg = "review" /\ m.state = "declined"
      \/ m.leg = "resolve" /\ m.pass <= PassesIn(ms)
  BY PassesAreCounted DEF Begins
<1>2. /\ es \in Seq(MarkerRec) /\ Numbered(es) /\ es[k] = m
      /\ \A j \in DOMAIN ms : es[j] = ms[j]
      /\ DOMAIN es = DOMAIN ms \cup {k}
      /\ PassesIn(es) = IF m.leg = "review" /\ m.state # "declined"
                        THEN PassesIn(ms) + 1 ELSE PassesIn(ms)
      /\ \A pass, leg : NewestOf(es, pass, leg) = IF m.pass = pass /\ m.leg = leg
                                                  THEN k ELSE NewestOf(ms, pass, leg)
  BY <1>1, AppendReaders
<1>3. k \in Nat /\ k # 0 /\ \A j \in DOMAIN ms : j \in Nat /\ j # 0 /\ j < k
  BY PassesAreCounted
<1> HIDE DEF es, k
<1>4. RanIn(es) = IF m.leg = "review" /\ m.state # "declined" THEN RanIn(ms) \cup {k} ELSE RanIn(ms)
  BY <1>2 DEF RanIn
<1> QED BY <1>2, <1>3, <1>4 DEF Added, es, k

(* The three ways a marker is added, and the current pass after it. *)
LEMMA AddedPass ==
    ASSUME NEW ms \in Seq(MarkerRec), NEW es, NEW m \in MarkerRec, Numbered(ms),
           Begins(ms, m), Added(ms, es, m), NEW h \in Nat, NEW cap, Recorded(ms, h, cap)
    PROVE  LET n == PassesIn(ms)
               k == Len(ms) + 1
           IN  /\ m.leg = "review" /\ m.state = "started" =>
                    PassesIn(es) = n + 1 /\ Rv(es) = k /\ Rs(es) = 0 /\ ~Noticed(es)
               /\ m.state = "declined" =>
                    /\ PassesIn(es) = n /\ Rs(es) = Rs(ms)
                    /\ Rv(es) = IF m.pass = n THEN k ELSE Rv(ms)
                    /\ Noticed(es) <=> Noticed(ms) \/ m.pass = n + 1
               /\ m.leg = "resolve" =>
                    /\ PassesIn(es) = n /\ Rs(es) = k /\ Rv(es) = Rv(ms)
                    /\ Noticed(es) <=> Noticed(ms)
<1> DEFINE n == PassesIn(ms)
           k == Len(ms) + 1
<1>1. n \in Nat /\ \A j \in DOMAIN ms : ms[j].pass \in Nat
  BY PassesAreCounted DEF MarkerRec
<1>2. /\ es[k] = m /\ DOMAIN es = DOMAIN ms \cup {k} /\ \A j \in DOMAIN ms : es[j] = ms[j]
      /\ PassesIn(es) = IF m.leg = "review" /\ m.state # "declined" THEN n + 1 ELSE n
      /\ \A pass, leg : NewestOf(es, pass, leg) = IF m.pass = pass /\ m.leg = leg
                                                  THEN k ELSE NewestOf(ms, pass, leg)
  BY DEF Added
<1>3. NewestOf(ms, n + 1, "resolve") = 0
  <2>1. \A j \in DOMAIN ms : ~(ms[j].pass = n + 1 /\ ms[j].leg = "resolve")
    BY <1>1 DEF Numbered
  <2> QED BY <2>1, NewestOfIs
<1>4. \A j \in DOMAIN ms : ms[j].state = "declined" => ms[j].pass <= n + 1
  BY DEF Recorded
<1>5. Noticed(es) <=> \/ \E j \in DOMAIN ms : ms[j].state = "declined" /\ ms[j].pass = PassesIn(es) + 1
                      \/ m.state = "declined" /\ m.pass = PassesIn(es) + 1
  BY <1>2 DEF Noticed
<1> HIDE DEF n, k
<1>6. m.leg = "review" /\ m.state = "started" =>
        PassesIn(es) = n + 1 /\ Rv(es) = k /\ Rs(es) = 0 /\ ~Noticed(es)
  <2> SUFFICES ASSUME m.leg = "review" /\ m.state = "started"
               PROVE  PassesIn(es) = n + 1 /\ Rv(es) = k /\ Rs(es) = 0 /\ ~Noticed(es)
    OBVIOUS
  <2>1. PassesIn(es) = n + 1 /\ m.pass = n + 1
    BY <1>2 DEF Begins, n
  <2>2. ~Noticed(es)
    BY <1>1, <1>4, <1>5, <2>1
  <2> QED BY <1>2, <1>3, <2>1, <2>2 DEF Rv, Rs
<1>7. m.state = "declined" =>
        /\ PassesIn(es) = n /\ Rs(es) = Rs(ms)
        /\ Rv(es) = IF m.pass = n THEN k ELSE Rv(ms)
        /\ Noticed(es) <=> Noticed(ms) \/ m.pass = n + 1
  <2> SUFFICES ASSUME m.state = "declined"
               PROVE  /\ PassesIn(es) = n /\ Rs(es) = Rs(ms)
                      /\ Rv(es) = IF m.pass = n THEN k ELSE Rv(ms)
                      /\ Noticed(es) <=> Noticed(ms) \/ m.pass = n + 1
    OBVIOUS
  <2>1. PassesIn(es) = n /\ m.leg = "review"
    BY <1>2 DEF Begins
  <2> QED BY <1>2, <1>5, <2>1 DEF Rv, Rs, Noticed, n
<1>8. m.leg = "resolve" =>
        /\ PassesIn(es) = n /\ Rs(es) = k /\ Rv(es) = Rv(ms)
        /\ Noticed(es) <=> Noticed(ms)
  <2> SUFFICES ASSUME m.leg = "resolve"
               PROVE  /\ PassesIn(es) = n /\ Rs(es) = k /\ Rv(es) = Rv(ms)
                      /\ Noticed(es) <=> Noticed(ms)
    OBVIOUS
  <2>1. PassesIn(es) = n /\ m.pass = n /\ m.state = "started"
    BY <1>2 DEF Begins, n
  <2> QED BY <1>2, <1>5, <2>1 DEF Rv, Rs, Noticed, n
<1> QED BY <1>6, <1>7, <1>8 DEF n, k

LEMMA AddedRecorded ==
    ASSUME NEW ms \in Seq(MarkerRec), NEW es, NEW m \in MarkerRec, Numbered(ms),
           Begins(ms, m), Added(ms, es, m), NEW h \in Nat, NEW cap \in Nat, Recorded(ms, h, cap),
           Shaped(m), m.head <= h, m.state = "declined" => m.pass > cap,
           m.state = "declined" /\ m.pass = PassesIn(ms) => Rs(ms) = 0,
           m.leg = "resolve" => ms[Rv(ms)].fixable /\ Judged(ms),
           Rs(ms) # 0 => Judged(ms)
    PROVE  Recorded(es, h, cap)
<1> DEFINE n == PassesIn(ms)
           k == Len(ms) + 1
<1>1. n \in Nat /\ \A j \in DOMAIN ms : ms[j].pass \in Nat
  BY PassesAreCounted DEF MarkerRec
<1>2. /\ es[k] = m /\ DOMAIN es = DOMAIN ms \cup {k} /\ k \in Nat
      /\ \A j \in DOMAIN ms : es[j] = ms[j] /\ j \in Nat /\ j < k
      /\ RanIn(es) = (IF m.leg = "review" /\ m.state # "declined" THEN RanIn(ms) \cup {k} ELSE RanIn(ms))
      /\ PassesIn(es) = (IF m.leg = "review" /\ m.state # "declined" THEN n + 1 ELSE n)
      /\ RanIn(ms) \subseteq DOMAIN ms
  BY PassesAreCounted DEF Added
<1>3. /\ m.leg = "review" /\ m.state = "started" =>
           PassesIn(es) = n + 1 /\ Rv(es) = k /\ Rs(es) = 0
      /\ m.state = "declined" =>
           /\ PassesIn(es) = n /\ Rs(es) = Rs(ms)
           /\ Rv(es) = IF m.pass = n THEN k ELSE Rv(ms)
      /\ m.leg = "resolve" =>
           PassesIn(es) = n /\ Rs(es) = k /\ Rv(es) = Rv(ms)
  BY AddedPass
<1>4. \/ m.leg = "review" /\ m.state = "started" /\ m.pass = n + 1
      \/ m.leg = "review" /\ m.state = "declined" /\ m.pass \in {n, n + 1}
      \/ m.leg = "resolve" /\ m.state = "started" /\ m.pass = n /\ Rs(ms) = 0
  BY DEF Begins
<1> HIDE DEF k, n
<1>5. \A j \in DOMAIN es : Shaped(es[j]) /\ es[j].head <= h /\ es[j].pass # 0
  <2>1. Judged(ms) => n # 0
    <3>1. Judged(ms) => Rv(ms) \in RanIn(ms) /\ ms[Rv(ms)].pass = n
      BY View DEF Judged, RanIn, n
    <3> QED BY <1>1, <3>1 DEF Numbered, n
  <2>2. m.pass # 0
    <3>1. m.leg = "resolve" => m.pass = n /\ n # 0
      BY <1>4, <2>1
    <3>2. m.leg = "review" /\ m.state = "started" => m.pass = n + 1
      BY <1>4
    <3>3. m.state = "declined" => m.pass > cap /\ m.pass \in Nat
      BY <1>1 DEF MarkerRec
    <3> QED BY <1>1, <1>4, <3>1, <3>2, <3>3
  <2> QED BY <1>2, <2>2 DEF Recorded
<1>6. \A a, b \in RanIn(es) : a < b => es[a].pass < es[b].pass
  <2>1. \A a, b \in RanIn(ms) : a < b => es[a].pass < es[b].pass
    BY <1>2 DEF Recorded
  <2>2. \A a \in RanIn(ms) : es[a].pass < n + 1 /\ ~(k < a)
    BY <1>1, <1>2 DEF Numbered, n
  <2>3. ~(k < k)
    BY <1>2
  <2>4. CASE m.leg = "review" /\ m.state # "declined"
    <3>1. m.pass = n + 1 /\ RanIn(es) = RanIn(ms) \cup {k}
      BY <1>2, <1>4, <2>4
    <3> QED BY <1>2, <2>1, <2>2, <2>3, <3>1
  <2>5. CASE ~(m.leg = "review" /\ m.state # "declined")
    BY <1>2, <2>1, <2>5
  <2> QED BY <2>4, <2>5
<1>7. \A a, b \in DOMAIN es :
         es[a].leg = "resolve" /\ es[b].leg = "resolve" /\ es[a].pass = es[b].pass => a = b
  <2>1. \A a, b \in DOMAIN ms :
         es[a].leg = "resolve" /\ es[b].leg = "resolve" /\ es[a].pass = es[b].pass => a = b
    BY <1>2 DEF Recorded
  <2>2. m.leg = "resolve" => \A a \in DOMAIN ms : ~(ms[a].leg = "resolve" /\ ms[a].pass = m.pass)
    BY <1>4, View DEF n
  <2> QED BY <1>2, <2>1, <2>2
<1>8. \A j \in DOMAIN es :
         es[j].state = "declined" => es[j].pass > cap /\ es[j].pass <= PassesIn(es) + 1
  <2>1. \A j \in DOMAIN ms : ms[j].state = "declined" => ms[j].pass > cap /\ ms[j].pass <= n + 1
    BY DEF Recorded, n
  <2>2. PassesIn(es) \in Nat /\ n <= PassesIn(es)
    BY <1>1, <1>2
  <2>3. m.state = "declined" => m.pass > cap /\ m.pass <= n + 1
    BY <1>1, <1>4
  <2>4. \A j \in DOMAIN ms : es[j].state = "declined" => es[j].pass > cap /\ es[j].pass <= PassesIn(es) + 1
    BY <1>1, <1>2, <2>1, <2>2
  <2>5. m.state = "declined" => m.pass > cap /\ m.pass <= PassesIn(es) + 1
    BY <1>1, <1>4, <2>2, <2>3
  <2> QED BY <1>2, <2>4, <2>5
<1>9. Rs(es) # 0 => es[Rv(es)].fixable
  <2>1. Judged(ms) => es[Rv(ms)] = ms[Rv(ms)]
    BY <1>2, View DEF Judged
  <2>2. Rs(ms) # 0 => ms[Rv(ms)].fixable
    BY DEF Recorded
  <2> QED BY <1>3, <1>4, <2>1, <2>2 DEF n
<1> QED BY <1>5, <1>6, <1>7, <1>8, <1>9 DEF Recorded

(***************************************************************************)
(* The legs begin.                                                         *)
(***************************************************************************)
(* Admission, by the marker it reads and the newest review that ran. *)
LEMMA AdmissionIs ==
    ASSUME LoopInv, RecordedInv
    PROVE  LET ms == markers
               n == PassesIn(ms)
               v == Rv(ms)
           IN  /\ Admission \in {"new", "resume", "redrive", "already"}
               /\ Admission = "resume" <=> v # 0 /\ ms[v].state = "started"
               /\ Admission = "new" => v = 0 \/ \A j \in RanIn(ms) : ms[j].pass = n => ms[j].head # head
               /\ Admission \in {"redrive", "already"} =>
                    v # 0 /\ \E j \in RanIn(ms) : ms[j].pass = n /\ ms[j].head = head
               /\ Admission = "redrive" => ReviewRedrivable(ms[v].state, ms[v].verdict)
               /\ Admission = "already" =>
                    ms[v].state # "started" /\ ~ReviewRedrivable(ms[v].state, ms[v].verdict)
               /\ NextPass = IF Admission = "new" THEN n + 1 ELSE n
<1> DEFINE n == PassesIn(markers)
           v == Rv(markers)
           x == Max(Ran)
<1>1. CurrentReviewPass = n /\ MarkerFor(n, "review") = v
  BY ReadersNow
<1>2. v # 0 => n # 0
  BY NewestRanIs
<1>3. n # 0 => x \in RanIn(markers) /\ markers[x].pass = n
  BY NewestRanIs
<1>4. \A j \in RanIn(markers) : markers[j].pass = n => n # 0 /\ j = x
  <2>1. \A j \in RanIn(markers) : markers[j].pass \in 1..n
    BY DEF LoopInv, Numbered
  <2> QED BY <1>3, <2>1 DEF LoopInv, Numbered
<1>5. Admission = IF v # 0 /\ markers[v].state = "started" THEN "resume"
                  ELSE IF v = 0 \/ markers[x].head # head THEN "new"
                  ELSE IF ReviewRedrivable(markers[v].state, markers[v].verdict) THEN "redrive"
                  ELSE "already"
  BY <1>1 DEF Admission, State
<1>6. NextPass = IF Admission = "new" THEN n + 1 ELSE n
  <2>1. n \in Nat
    BY View DEF LoopInv
  <2> QED BY <1>1, <2>1 DEF NextPass
<1> HIDE DEF n, v, x
<1> QED
  BY <1>2, <1>3, <1>4, <1>5, <1>6 DEF n, v

LEMMA ShapedNew ==
    ASSUME NEW leg, NEW pass, NEW state \in {"started", "declined"}
    PROVE  /\ Shaped(NewMarker(leg, pass, state)) /\ NewMarker(leg, pass, state).head = head
           /\ ~NewMarker(leg, pass, state).fixable /\ NewMarker(leg, pass, state).res = Clean
           /\ NewMarker(leg, pass, state).verdict = "null"
BY DEF Shaped, NewMarker

LEMMA CleanIs ==
    /\ ~Clean.pushed /\ ~Clean.blocked /\ ~Has(Clean, "escalated") /\ UnfiledDeferrals(Clean) = {}
BY DEF Clean, Has, UnfiledDeferrals

(* The head moves under markers that stay. *)
LEMMA RecordedStays ==
    ASSUME NEW ms \in Seq(MarkerRec), NEW h \in Nat, NEW h2 \in Nat, h <= h2, NEW cap,
           Recorded(ms, h, cap)
    PROVE  Recorded(ms, h2, cap)
<1>1. \A j \in DOMAIN ms : ms[j].head \in Nat
  BY PassesAreCounted DEF MarkerRec
<1>2. \A j \in DOMAIN ms : ms[j].head <= h2 /\ ms[j].pass # 0
  BY <1>1 DEF Recorded
<1> QED BY <1>2 DEF Recorded

LEMMA CalmStays ==
    ASSUME NEW ms \in Seq(MarkerRec), Numbered(ms), NEW h \in Nat, NEW h2 \in Nat, h <= h2,
           NEW J, NEW J2, Calm(ms, h, J), Rs(ms) # 0 => Judged(ms),
           \/ J.step = "work" /\ J2.step = "work" /\ J2.at = J.at /\ J2.leg = J.leg
              /\ (J2.pushed => J.pushed \/ \A j \in DOMAIN ms : ms[j].head < h2)
           \/ J.step # "work" /\ J2.step # "work"
    PROVE  Calm(ms, h2, J2)
<1>1. \A j \in DOMAIN ms : ms[j].head \in Nat
  BY PassesAreCounted DEF MarkerRec
<1>2. RanIn(ms) \subseteq DOMAIN ms
  BY PassesAreCounted
<1>3. Rs(ms) # 0 => Rv(ms) \in DOMAIN ms
  BY View DEF Judged
<1>4. \A j \in DOMAIN ms : ms[j].state = "started" => J2.step = "work" /\ j = J2.at
  BY DEF Calm
<1>5. Noticed(ms) => \A j \in RanIn(ms) : ms[j].pass = PassesIn(ms) => ms[j].head < h2
  BY <1>1, <1>2 DEF Calm
<1>6. Rs(ms) # 0 /\ (ms[Rs(ms)].res.pushed \/ (J2.step = "work" /\ J2.leg = "resolve" /\ J2.pushed))
         => ms[Rv(ms)].head < h2
  BY <1>1, <1>3 DEF Calm
<1> QED BY <1>4, <1>5, <1>6 DEF Calm

(* What a step must keep: the records, and, while nothing has failed, the  *)
(* calm of the markers and labels that fit them.                           *)
Kept(ms, h, J, L) ==
    /\ Recorded(ms, h, MaxPasses)
    /\ used.faults = 0 =>
         /\ Calm(ms, h, J)
         /\ J.step = "idle" => Fit(ms, L, mode)
         /\ J.step = "label" => Fit(ms, {J.next}, mode)

(* A review beyond the cap is refused by a notice. *)
LEMMA NoticeTrue ==
    ASSUME TruthInv, Idle, NEW capped \in BOOLEAN, Declined(capped), Accepts("review"),
           mode = "local" => ~Judged(markers),
           NEW es, es = (IF markers[Len(markers)] = NewMarker("review", NextPass, "declined")
                         THEN markers ELSE Append(markers, NewMarker("review", NextPass, "declined"))),
           NEW L
    PROVE  Kept(es, head, Labelling("review", "halted"), L)
<1> DEFINE ms == markers
           n == PassesIn(ms)
           v == Rv(ms)
           m == NewMarker("review", NextPass, "declined")
           k == Len(ms) + 1
           J == Labelling("review", "halted")
<1>1. /\ LoopInv /\ RecordedInv /\ ms \in Seq(MarkerRec) /\ Numbered(ms) /\ head \in Nat
      /\ Recorded(ms, head, MaxPasses) /\ n \in Nat /\ MaxPasses \in Nat \ {0}
      /\ Len(ms) \in Nat /\ DOMAIN ms = 1..Len(ms)
  BY CapIsPositive, PassesAreCounted DEF TruthInv, LoopInv, RecordedInv
<1>2. J.step = "label" /\ J.next = "halted"
  BY DEF Labelling, IdleJob
<1>3. Rs(ms) # 0 => Judged(ms)
  BY <1>1, JudgedNow
<1>4. /\ Admission \in {"new", "resume", "redrive"} /\ NextPass > MaxPasses
      /\ NextPass = IF Admission = "new" THEN n + 1 ELSE n
      /\ Admission = "resume" => ms[v].state = "started"
      /\ Admission = "redrive" => ReviewRedrivable(ms[v].state, ms[v].verdict)
      /\ Admission = "new" => v = 0 \/ \A j \in RanIn(ms) : ms[j].pass = n => ms[j].head # head
  BY <1>1, AdmissionIs DEF Accepts, Declined
<1>5. NextPass # n + 1 => ~Judged(ms)
  BY <1>1, <1>4 DEF Judged, ReviewRedrivable
<1>6. NextPass \in Nat /\ NextPass \in {n, n + 1} /\ n # 0
  BY <1>1, <1>4
<1>7. m \in MarkerRec /\ m.leg = "review" /\ m.pass = NextPass /\ m.state = "declined"
  BY <1>1, <1>6, NewMarkerType DEF Legs
<1>8. Shaped(m) /\ m.head = head /\ m.res = Clean /\ m.verdict = "null"
  BY ShapedNew
<1>9. used.faults = 0 => Calm(ms, head, job) /\ job.step = "idle"
  BY DEF TruthInv, CalmInv, Idle
<1>10. NextPass = n + 1 => \A j \in RanIn(ms) : ms[j].pass = n => ms[j].head < head
  <2>1. NextPass = n + 1 => Admission = "new"
    BY <1>1, <1>4
  <2>2. v # 0
    BY <1>1, <1>6, View
  <2>3. \A j \in RanIn(ms) : ms[j].head \in Nat /\ ms[j].head <= head
    BY <1>1, PassesAreCounted DEF Recorded, MarkerRec
  <2> QED BY <1>1, <1>4, <2>1, <2>2, <2>3
<1> HIDE DEF m, J
<1>11. ASSUME es = ms /\ ms[Len(ms)] = m PROVE Kept(es, head, J, L)
  <2>1. Len(ms) \in DOMAIN ms
    <3>1. \E j \in RanIn(ms) : TRUE
      BY <1>1, <1>6 DEF Numbered
    <3> QED BY <1>1, <3>1 DEF RanIn
  <2>2. Calm(ms, head, J) \/ used.faults # 0
    BY <1>1, <1>2, <1>3, <1>9, CalmStays
  <2>3. Judged(ms) => Noticed(ms)
    BY <1>5, <1>7, <1>11, <2>1 DEF Noticed
  <2>4. Shown(ms)
    <3> DEFINE l == Len(ms)
    <3>1. ms[l].leg = "review" /\ l = NewestOf(ms, ms[l].pass, ms[l].leg)
      <4>1. \A j \in DOMAIN ms : j <= l
        BY <1>1
      <4>2. l \in Nat /\ l \in DOMAIN ms /\ ms[l].pass = m.pass /\ ms[l].leg = "review" /\ l # 0
        <5>1. l \in Nat /\ l \in DOMAIN ms /\ l # 0
          BY <1>1, <2>1
        <5>2. ms[l] = m
          BY <1>11
        <5> QED BY <1>7, <5>1, <5>2
      <4> HIDE DEF l
      <4>3. NewestOf(ms, m.pass, "review") = l
        BY <1>1, <4>1, <4>2, NewestOfUnique
      <4> QED BY <4>2, <4>3
    <3> QED BY <1>7, <1>11, <2>1, <3>1 DEF Shown, Red
  <2>5. Fit(ms, {"halted"}, mode)
    BY <2>3, <2>4 DEF Fit, Green, TruthInv, ModeInv
  <2> QED BY <1>1, <1>2, <1>11, <2>2, <2>5 DEF Kept
<1>12. ASSUME es = Append(ms, m) PROVE Kept(es, head, J, L)
  <2>1. Begins(ms, m)
    BY <1>6, <1>7 DEF Begins
  <2>2. Added(ms, es, m)
    BY <1>1, <1>7, <1>12, <2>1, Adds
  <2>3. /\ PassesIn(es) = n /\ Rs(es) = Rs(ms)
        /\ Rv(es) = IF m.pass = n THEN k ELSE v
        /\ Noticed(es) <=> Noticed(ms) \/ m.pass = n + 1
    BY <1>1, <1>7, <2>1, <2>2, AddedPass
  <2>4. /\ es \in Seq(MarkerRec) /\ Numbered(es) /\ es[k] = m /\ k # 0 /\ DOMAIN es = DOMAIN ms \cup {k}
        /\ \A j \in DOMAIN ms : es[j] = ms[j]
        /\ RanIn(es) = RanIn(ms) /\ RanIn(ms) \subseteq DOMAIN ms
        /\ NewestOf(es, m.pass, m.leg) = k
    BY <1>1, <1>7, <2>2, PassesAreCounted DEF Added
  <2>5. m.state = "declined" /\ m.pass = n => Rs(ms) = 0
    BY <1>1, <1>3, <1>5, <1>7
  <2>6. Recorded(es, head, MaxPasses)
    <3>1. Shaped(m) /\ m.head <= head /\ m.pass > MaxPasses /\ m.leg # "resolve"
      BY <1>1, <1>4, <1>7, <1>8
    <3> QED BY <1>1, <1>3, <1>7, <2>1, <2>2, <2>5, <3>1, AddedRecorded
  <2>7. Rv(ms) # 0 => Rv(ms) \in DOMAIN ms
    BY <1>1, View
  <2>8. Judged(es) => Noticed(es) /\ mode # "local"
    <3>1. m.pass = n => ~Judged(es)
      BY <1>7, <2>3, <2>4 DEF Judged
    <3>2. m.pass # n => (Judged(es) <=> Judged(ms))
      BY <2>3, <2>4, <2>7 DEF Judged
    <3> QED BY <1>6, <1>7, <2>3, <3>1, <3>2
  <2>9. Shown(es)
    BY <1>7, <2>4 DEF Shown, Red
  <2>10. Fit(es, {"halted"}, mode)
    BY <2>8, <2>9 DEF Fit, Green, TruthInv, ModeInv
  <2>11. ASSUME used.faults = 0 PROVE Calm(es, head, J)
    <3>1. Calm(ms, head, job) /\ job.step = "idle"
      BY <1>9, <2>11
    <3>2. \A j \in DOMAIN es : es[j].state # "started"
      BY <1>7, <2>4, <3>1 DEF Calm
    <3>3. \A j \in DOMAIN es : es[j].leg = "resolve" /\ es[j].state = "complete" =>
                                es[j].res \in Results(TRUE) \cup Results(FALSE)
      BY <1>7, <2>4, <3>1 DEF Calm
    <3>4. Noticed(es) => \A j \in RanIn(es) : es[j].pass = PassesIn(es) => es[j].head < head
      BY <1>7, <1>10, <2>3, <2>4, <3>1 DEF Calm
    <3>5. Rs(es) # 0 => es[Rs(es)] = ms[Rs(ms)] /\ es[Rv(es)] = ms[Rv(ms)]
      <4>1. Rs(ms) # 0 => Rs(ms) \in DOMAIN ms /\ m.pass # n
        BY <1>1, <1>7, <2>5, View
      <4> QED BY <1>3, <2>3, <2>4, <2>7, <4>1 DEF Judged
    <3>6. Rs(es) # 0 /\ es[Rs(es)].res.pushed => es[Rv(es)].head < head
      BY <2>3, <3>1, <3>5 DEF Calm
    <3> QED BY <1>2, <3>2, <3>3, <3>4, <3>6 DEF Calm
  <2> QED BY <1>2, <2>6, <2>10, <2>11 DEF Kept
<1> QED BY <1>11, <1>12 DEF m, J

LEMMA WorkingIs ==
    ASSUME NEW leg, NEW at
    PROVE  /\ Working(leg, at).step = "work" /\ Working(leg, at).at = at
           /\ Working(leg, at).leg = leg /\ ~Working(leg, at).pushed
BY DEF Working, IdleJob

(* A leg begins with a marker of its own. *)
LEMMA OpenTrue ==
    ASSUME TruthInv, Idle, NEW leg \in Legs, NEW pass, NEW es,
           es = Append(markers, NewMarker(leg, pass, "started")),
           leg = "review" => pass = PassesIn(markers) + 1,
           leg = "resolve" => /\ pass = PassesIn(markers) /\ Rs(markers) = 0
                              /\ Judged(markers) /\ markers[Rv(markers)].fixable,
           NEW L
    PROVE  Kept(es, head, Working(leg, Len(markers) + 1), L)
<1> DEFINE ms == markers
           n == PassesIn(ms)
           k == Len(ms) + 1
           m == NewMarker(leg, pass, "started")
           J == Working(leg, k)
<1>1. /\ LoopInv /\ ms \in Seq(MarkerRec) /\ Numbered(ms) /\ head \in Nat /\ n \in Nat
      /\ Recorded(ms, head, MaxPasses) /\ MaxPasses \in Nat \ {0}
  BY CapIsPositive, PassesAreCounted DEF TruthInv, LoopInv, RecordedInv
<1>2. J.step = "work" /\ J.at = k /\ J.leg = leg /\ ~J.pushed
  BY WorkingIs
<1>3. Rs(ms) # 0 => Judged(ms)
  BY <1>1, JudgedNow
<1>4. pass \in Nat
  BY <1>1 DEF Legs
<1>5. m \in MarkerRec /\ m.leg = leg /\ m.pass = pass /\ m.state = "started"
  BY <1>1, <1>4, NewMarkerType
<1>6. Shaped(m) /\ m.head = head /\ m.res = Clean
  BY ShapedNew
<1> HIDE DEF m, J
<1>7. Begins(ms, m)
  BY <1>5 DEF Begins, Legs
<1>8. Added(ms, es, m)
  BY <1>1, <1>5, <1>7, Adds DEF m
<1>9. /\ leg = "review" => PassesIn(es) = n + 1 /\ Rv(es) = k /\ Rs(es) = 0 /\ ~Noticed(es)
      /\ leg = "resolve" => /\ PassesIn(es) = n /\ Rs(es) = k /\ Rv(es) = Rv(ms)
                            /\ Noticed(es) <=> Noticed(ms)
  BY <1>1, <1>5, <1>7, <1>8, AddedPass
<1>10. /\ es \in Seq(MarkerRec) /\ Numbered(es) /\ es[k] = m /\ DOMAIN es = DOMAIN ms \cup {k}
       /\ \A j \in DOMAIN ms : es[j] = ms[j]
       /\ RanIn(es) = (IF leg = "review" THEN RanIn(ms) \cup {k} ELSE RanIn(ms))
       /\ RanIn(ms) \subseteq DOMAIN ms
  BY <1>1, <1>5, <1>8, PassesAreCounted DEF Added, Legs
<1>11. Recorded(es, head, MaxPasses)
  <2>1. m.head <= head /\ m.state # "declined" /\ (m.leg = "resolve" => ms[Rv(ms)].fixable /\ Judged(ms))
    BY <1>1, <1>5, <1>6
  <2> QED BY <1>1, <1>3, <1>5, <1>6, <1>7, <1>8, <2>1, AddedRecorded
<1>12. ASSUME used.faults = 0 PROVE Calm(es, head, J)
  <2>1. Calm(ms, head, job) /\ job.step # "work"
    BY <1>12 DEF TruthInv, CalmInv, Idle
  <2>2. \A j \in DOMAIN es : es[j].state = "started" => J.step = "work" /\ j = J.at
    BY <1>2, <1>10, <2>1 DEF Calm
  <2>3. \A j \in DOMAIN es : es[j].leg = "resolve" /\ es[j].state = "complete" =>
                                es[j].res \in Results(TRUE) \cup Results(FALSE)
    <3>1. es[k].state # "complete"
      BY <1>5, <1>10
    <3>2. \A j \in DOMAIN ms : ms[j].leg = "resolve" /\ ms[j].state = "complete" =>
                                ms[j].res \in Results(TRUE) \cup Results(FALSE)
      BY <2>1 DEF Calm
    <3>3. DOMAIN es = DOMAIN ms \cup {k} /\ \A j \in DOMAIN ms : es[j] = ms[j]
      BY <1>10
    <3> HIDE DEF k
    <3> QED BY <3>1, <3>2, <3>3
  <2>4. Noticed(es) => \A j \in RanIn(es) : es[j].pass = PassesIn(es) => es[j].head < head
    BY <1>9, <1>10, <2>1 DEF Calm, Legs
  <2>5. Rs(es) # 0 /\ (es[Rs(es)].res.pushed \/ (J.step = "work" /\ J.leg = "resolve" /\ J.pushed))
         => es[Rv(es)].head < head
    <3>1. leg = "resolve" => ~es[Rs(es)].res.pushed
      BY <1>6, <1>9, <1>10, CleanIs
    <3>2. leg = "review" => Rs(es) = 0
      BY <1>9
    <3> QED BY <1>2, <3>1, <3>2 DEF Legs
  <2> QED BY <2>2, <2>3, <2>4, <2>5 DEF Calm
<1>13. Kept(es, head, J, L)
  BY <1>2, <1>11, <1>12 DEF Kept
<1> QED BY <1>13 DEF J

(* A leg takes its marker up again. *)
LEMMA ReopenTrue ==
    ASSUME TruthInv, Idle, NEW leg \in Legs, NEW i, i # 0, NEW es, es = Reopened(i),
           markers[i].state # "declined",
           leg = "review" => i = Rv(markers) /\ Rs(markers) = 0 /\ (used.faults = 0 => ~Noticed(markers)),
           leg = "resolve" => i = Rs(markers),
           NEW L
    PROVE  Kept(es, head, Working(leg, i), L)
<1> DEFINE ms == markers
           m == NewMarker(ms[i].leg, ms[i].pass, "started")
           J == Working(leg, i)
<1>1. /\ LoopInv /\ ms \in Seq(MarkerRec) /\ Numbered(ms) /\ head \in Nat
      /\ Recorded(ms, head, MaxPasses) /\ MaxPasses \in Nat \ {0}
  BY CapIsPositive DEF TruthInv, LoopInv, RecordedInv
<1>2. J.step = "work" /\ J.at = i /\ J.leg = leg /\ ~J.pushed
  BY WorkingIs
<1>3. Rs(ms) # 0 => Judged(ms)
  BY <1>1, JudgedNow
<1>4. i \in DOMAIN ms /\ ms[i] \in MarkerRec /\ ms[i].leg = leg
  BY <1>1, View DEF Legs
<1>5. m \in MarkerRec /\ m.leg = leg /\ m.leg = ms[i].leg /\ m.pass = ms[i].pass /\ m.state = "started"
  <2>1. ms[i].leg \in Legs /\ ms[i].pass \in Nat
    BY <1>4 DEF MarkerRec
  <2> QED BY <1>1, <1>4, <2>1, NewMarkerType
<1>6. Shaped(m) /\ m.head = head /\ m.res = Clean
  BY ShapedNew
<1>7. es = [ms EXCEPT ![i] = m]
  BY DEF Reopened
<1> HIDE DEF m, J
<1>8. Rewritten(ms, es, i, m)
  <2>1. m.state # "declined"
    BY <1>5
  <2> QED BY <1>1, <1>4, <1>5, <1>7, <2>1, Rewrites
<1>9. Recorded(es, head, MaxPasses)
  <2>1. Rs(ms) # 0 /\ i = Rv(ms) => m.fixable
    <3>1. leg = "resolve" => i # Rv(ms)
      BY <1>1, <1>4, View
    <3> QED BY <3>1 DEF Legs
  <2>2. m.head <= head /\ head <= head
    BY <1>1, <1>6
  <2> QED BY <1>1, <1>3, <1>4, <1>6, <1>8, <2>1, <2>2, RewrittenRecorded
<1>10. ASSUME used.faults = 0 PROVE Calm(es, head, J)
  <2>1. Calm(ms, head, job) /\ job.step # "work"
    BY <1>10 DEF TruthInv, CalmInv, Idle
  <2>2. \A j \in DOMAIN es : es[j].state = "started" => J.step = "work" /\ j = J.at
    BY <1>2, <1>8, <2>1 DEF Calm, Rewritten
  <2>3. \A j \in DOMAIN es : es[j].leg = "resolve" /\ es[j].state = "complete" =>
                                es[j].res \in Results(TRUE) \cup Results(FALSE)
    BY <1>5, <1>8, <2>1 DEF Calm, Rewritten
  <2>4. Noticed(es) => \A j \in RanIn(es) : es[j].pass = PassesIn(es) => es[j].head < head
    <3>1. CASE leg = "review"
      BY <1>8, <1>10, <3>1 DEF Rewritten
    <3>2. CASE leg = "resolve"
      <4>1. \A j \in RanIn(ms) : es[j] = ms[j]
        BY <1>4, <1>8, <3>2 DEF Rewritten, RanIn
      <4> QED BY <1>8, <2>1, <4>1 DEF Calm, Rewritten
    <3> QED BY <3>1, <3>2 DEF Legs
  <2>5. Rs(es) # 0 /\ (es[Rs(es)].res.pushed \/ (J.step = "work" /\ J.leg = "resolve" /\ J.pushed))
         => es[Rv(es)].head < head
    BY <1>2, <1>6, <1>8, CleanIs DEF Rewritten, Legs
  <2> QED BY <2>2, <2>3, <2>4, <2>5 DEF Calm
<1>11. Kept(es, head, J, L)
  BY <1>2, <1>9, <1>10 DEF Kept
<1> QED BY <1>11 DEF J

(* What the admission of a resolution has read. *)
LEMMA ResolveAdmissionIs ==
    ASSUME LoopInv, RecordedInv
    PROVE  /\ ResolveAdmission \in {"refused", "already", "empty", "claim"}
           /\ ResolveAdmission \in {"empty", "claim"} <=> Answerable(markers)
           /\ ResolveAdmission = "empty" => ~markers[Rv(markers)].fixable
           /\ ResolveAdmission = "claim" => markers[Rv(markers)].fixable
<1> DEFINE v == Rv(markers)
           r == Rs(markers)
<1>1. /\ MarkerFor(CurrentReviewPass, "review") = v
      /\ MarkerFor(CurrentReviewPass, "resolve") = r
  BY ReadersNow
<1>2. /\ State(v) = (IF v = 0 THEN "none" ELSE markers[v].state)
      /\ State(r) = (IF r = 0 THEN "none" ELSE markers[r].state)
      /\ Verdict(v) = (IF v = 0 \/ markers[v].verdict = "null" THEN "blocked" ELSE markers[v].verdict)
  BY DEF State, Verdict
<1>3. ResolveAdmission =
        IF State(v) # "complete" \/ Verdict(v) = "blocked" THEN "refused"
        ELSE IF State(r) = "complete" /\ ~ResolveRedrivable(markers[r].res) THEN "already"
        ELSE IF ~markers[v].fixable THEN "empty" ELSE "claim"
  BY <1>1 DEF ResolveAdmission
<1>4. Answerable(markers) <=>
        /\ v # 0 /\ markers[v].state = "complete" /\ markers[v].verdict # "blocked"
        /\ r # 0 /\ markers[r].state = "complete" => ResolveRedrivable(markers[r].res)
  BY DEF Answerable, Judged
<1>5. v # 0 /\ markers[v].state = "complete" => markers[v].verdict # "null"
  <2>1. v # 0 => v \in DOMAIN markers /\ markers[v].leg = "review"
    BY View DEF LoopInv
  <2> QED BY <2>1 DEF RecordedInv, Recorded, Shaped
<1> HIDE DEF v, r
<1> QED BY <1>2, <1>3, <1>4, <1>5 DEF v, r

(* Something that waits for a person is in sight. *)
LEMMA EscalatedShows ==
    ASSUME NEW ms \in Seq(MarkerRec), NEW h, NEW cap, Recorded(ms, h, cap), SomeEscalated(ms),
           \A i \in DOMAIN ms : ms[i].leg = "resolve" => ms[i].state \in {"started", "complete"}
    PROVE  Shown(ms)
<1>1. PICK j \in DOMAIN ms : Has(ms[j].res, "escalated")
  BY DEF SomeEscalated
<1>2. ms[j] \in MarkerRec /\ j \in Nat /\ j # 0
  BY PassesAreCounted
<1>3. ms[j].leg = "resolve" /\ ms[j].state = "complete"
  <2>1. ms[j].res # Clean
    BY <1>1, CleanIs
  <2>2. Shaped(ms[j])
    BY DEF Recorded
  <2>3. ms[j].leg \in {"review", "resolve"}
    BY <1>2 DEF MarkerRec, Legs
  <2> QED BY <2>1, <2>2, <2>3 DEF Shaped
<1>4. j = NewestOf(ms, ms[j].pass, ms[j].leg)
  <2>1. \A k \in DOMAIN ms : ms[k].pass = ms[j].pass /\ ms[k].leg = ms[j].leg => j # 0 /\ k <= j
    <3>1. \A k \in DOMAIN ms : ms[k].pass = ms[j].pass /\ ms[k].leg = ms[j].leg => k = j
      BY <1>3 DEF Recorded
    <3> QED BY <1>2, <3>1
  <2>2. NewestOf(ms, ms[j].pass, ms[j].leg) = j
    BY <1>2, <2>1, NewestOfUnique
  <2> QED BY <2>2
<1> QED BY <1>1, <1>3, <1>4 DEF Shown, Red

(* A review leg begins. *)
LEMMA StartReviewTrue ==
    ASSUME TruthInv, Idle, NEW capped \in BOOLEAN, Accepts("review"), StartReview(capped),
           mode = "local" /\ Declined(capped) => ~Judged(markers), NEW L
    PROVE  Kept(markers', head, job', L)
<1> DEFINE ms == markers
           n == PassesIn(ms)
           v == Rv(ms)
<1>1. /\ LoopInv /\ RecordedInv /\ head \in Nat
      /\ CurrentReviewPass = n /\ MarkerFor(n, "review") = v
  BY ReadersNow DEF TruthInv, LoopInv
<1>2. CASE Declined(capped)
           /\ markers' = (IF markers[Len(markers)] = NewMarker("review", NextPass, "declined")
                          THEN markers ELSE Append(markers, NewMarker("review", NextPass, "declined")))
           /\ job' = Labelling("review", "halted")
  BY <1>2, NoticeTrue
<1>3. CASE markers' = Append(markers, NewMarker("review", n + 1, "started"))
           /\ job' = Working("review", Len(markers) + 1)
  <2>1. "review" \in Legs
    BY DEF Legs
  <2> QED BY <1>3, <2>1, OpenTrue
<1>4. CASE Admission \in {"resume", "redrive"} /\ markers' = Reopened(v) /\ job' = Working("review", v)
  <2>1. "review" \in Legs
    BY DEF Legs
  <2>2. /\ v # 0 /\ ms[v].state # "declined"
        /\ ~(ms[v].state = "complete" /\ ms[v].verdict # "blocked")
        /\ Admission = "resume" => ms[v].state = "started"
        /\ Admission = "redrive" => \E j \in RanIn(ms) : ms[j].pass = n /\ ms[j].head = head
    BY <1>1, <1>4, AdmissionIs DEF ReviewRedrivable
  <2>3. Rs(ms) = 0
    BY <1>1, <2>2, JudgedNow DEF Judged
  <2>4. ASSUME used.faults = 0 PROVE ~Noticed(ms)
    <3>1. Calm(ms, head, job) /\ job.step # "work"
      BY <2>4 DEF TruthInv, CalmInv, Idle
    <3>2. v \in DOMAIN ms
      BY <1>1, <2>2, View DEF LoopInv
    <3>3. Admission # "resume"
      BY <2>2, <3>1, <3>2 DEF Calm
    <3>4. PICK j \in RanIn(ms) : ms[j].pass = n /\ ms[j].head = head
      BY <1>4, <2>2, <3>3
    <3> QED BY <1>1, <3>1, <3>4 DEF Calm
  <2> HIDE DEF v
  <2> QED BY <1>4, <2>1, <2>2, <2>3, <2>4, ReopenTrue DEF v
<1> HIDE DEF v, n
<1> QED
  BY <1>1, <1>2, <1>3, <1>4 DEF StartReview

(* A resolution begins. *)
LEMMA StartResolveTrue ==
    ASSUME TruthInv, Idle, Accepts("resolve"), StartResolve, NEW L
    PROVE  Kept(markers', head, job', L)
<1> DEFINE ms == markers
           n == PassesIn(ms)
           v == Rv(ms)
           r == Rs(ms)
<1>1. /\ LoopInv /\ RecordedInv /\ head \in Nat /\ ms \in Seq(MarkerRec) /\ Numbered(ms)
      /\ Recorded(ms, head, MaxPasses) /\ CurrentReviewPass = n
      /\ MarkerFor(n, "review") = v /\ MarkerFor(n, "resolve") = r
      /\ \A i \in DOMAIN ms : ms[i].leg = "resolve" => ms[i].state \in {"started", "complete"}
  BY ReadersNow DEF TruthInv, LoopInv, RecordedInv
<1>2. "resolve" \in Legs
  BY DEF Legs
<1>3. /\ Answerable(ms) /\ Judged(ms)
      /\ ResolveAdmission = "empty" => ~ms[v].fixable
      /\ ResolveAdmission = "claim" => ms[v].fixable
  BY <1>1, ResolveAdmissionIs DEF Accepts, Answerable
<1>4. CASE ResolveAdmission = "empty" /\ markers' = markers
           /\ job' = Labelling("resolve",
                        IF lost \/ (Verdict(v) # "converged" /\ Escalated > 0)
                        THEN "halted" ELSE "converged")
  <2> DEFINE X == IF lost \/ (Verdict(v) # "converged" /\ Escalated > 0) THEN "halted" ELSE "converged"
  <2>1. job'.step = "label" /\ job'.next = X
    BY <1>4 DEF Labelling, IdleJob
  <2>2. ASSUME used.faults = 0 PROVE Calm(ms, head, job')
    <3>1. Calm(ms, head, job) /\ job.step # "work"
      BY <2>2 DEF TruthInv, CalmInv, Idle
    <3> HIDE DEF X
    <3> QED BY <1>1, <1>3, <2>1, <3>1, CalmStays
  <2>3. ASSUME used.faults = 0 PROVE Fit(ms, {X}, mode)
    <3>1. ~lost
      BY <2>3 DEF TruthInv, CalmInv
    <3>2. r = 0 /\ ~ms[v].fixable
      BY <1>1, <1>3, <1>4 DEF Recorded
    <3>3. Stands(ms) = "none"
      BY <3>2 DEF Stands
    <3>4. Escalated > 0 <=> SomeEscalated(ms)
      BY <1>1, EscalatedIs
    <3>5. Verdict(v) = "converged" <=> ms[v].verdict = "converged"
      BY <1>3 DEF Verdict, Judged
    <3>6. Green(ms) => X = "converged"
      BY <3>1, <3>3, <3>4, <3>5 DEF Green
    <3>7. X = "halted" => Shown(ms)
      BY <1>1, <3>1, <3>4, EscalatedShows
    <3>8. ~Owing(ms)
      BY <3>2 DEF Owing
    <3>9. X \in {"halted", "converged"}
      OBVIOUS
    <3> HIDE DEF X, v, r
    <3> QED BY <3>6, <3>7, <3>8, <3>9 DEF Fit
  <2> HIDE DEF X
  <2> QED BY <1>1, <1>4, <2>1, <2>2, <2>3 DEF Kept
<1>5. CASE ResolveAdmission = "claim" /\ r = 0 /\ markers' = Append(markers, NewMarker("resolve", n, "started"))
           /\ job' = Working("resolve", Len(markers) + 1)
  BY <1>2, <1>3, <1>5, OpenTrue
<1>6. CASE r # 0 /\ markers' = Reopened(r) /\ job' = Working("resolve", r)
  <2>1. ms[r].state # "declined"
    BY <1>1, <1>6, View
  <2> HIDE DEF r
  <2> QED BY <1>2, <1>6, <2>1, ReopenTrue DEF r
<1> HIDE DEF n, v, r
<1> QED
  BY <1>1, <1>4, <1>5, <1>6 DEF StartResolve

(* A leg is run: it begins, or is refused and nothing changes. *)
LEMMA RunLegTrue ==
    ASSUME TruthInv, Idle, NEW leg \in Legs, NEW capped \in BOOLEAN, RunLeg(leg, capped),
           leg = "review" /\ mode = "local" /\ Declined(capped) => ~Judged(markers)
    PROVE  Kept(markers', head, job', labels)
<1>1. CASE "stop" \in labels \/ ~Accepts(leg)
  <2>1. markers' = markers /\ job'.step = "idle"
    BY <1>1 DEF RunLeg, Stopped, IdleJob
  <2>2. /\ LoopInv /\ RecordedInv /\ head \in Nat /\ markers \in Seq(MarkerRec) /\ Numbered(markers)
        /\ Recorded(markers, head, MaxPasses) /\ (Rs(markers) # 0 => Judged(markers))
    BY JudgedNow DEF TruthInv, LoopInv, RecordedInv
  <2>3. ASSUME used.faults = 0 PROVE Calm(markers, head, job') /\ Fit(markers, labels, mode)
    <3>1. Calm(markers, head, job) /\ job.step # "work" /\ Fit(markers, labels, mode)
      BY <2>3 DEF TruthInv, CalmInv, Idle
    <3>2. job'.step # "work"
      BY <2>1
    <3>3. Calm(markers, head, job')
      BY <3>1, <3>2, Zenon DEF Calm
    <3> QED BY <3>1, <3>3
  <2> QED BY <2>1, <2>2, <2>3 DEF Kept
<1>2. CASE ~("stop" \in labels \/ ~Accepts(leg)) /\ leg = "review"
  <2>1. Accepts("review") /\ StartReview(capped)
    BY <1>2 DEF RunLeg
  <2> QED BY <1>2, <2>1, StartReviewTrue
<1>3. CASE ~("stop" \in labels \/ ~Accepts(leg)) /\ leg = "resolve"
  <2>1. Accepts("resolve") /\ StartResolve
    BY <1>3 DEF RunLeg
  <2> QED BY <2>1, StartResolveTrue
<1> QED BY <1>1, <1>2, <1>3 DEF Legs

(***************************************************************************)
(* The legs settle and label.                                              *)
(***************************************************************************)
(* Only the outcome labels matter. *)
LEMMA FitOutcome ==
    ASSUME NEW ms, NEW L, NEW L2, NEW how, L \cap OutcomeLabels = L2 \cap OutcomeLabels,
           Fit(ms, L, how)
    PROVE  Fit(ms, L2, how)
<1>1. \A l \in OutcomeLabels : l \in L <=> l \in L2
  OBVIOUS
<1>2. {"halted", "awaiting-resolution", "converged"} \subseteq OutcomeLabels
  BY DEF OutcomeLabels
<1>3. L \cap {"halted", "awaiting-resolution"} # {} <=> L2 \cap {"halted", "awaiting-resolution"} # {}
  BY <1>1, <1>2
<1> QED BY <1>1, <1>2, <1>3 DEF Fit

(* The results of a resolution. *)
LEMMA ResultIs ==
    ASSUME NEW p \in BOOLEAN, NEW res \in Results(p)
    PROVE  /\ ~res.blocked /\ res.pushed = p /\ res.resolutions # {}
           /\ Has(res, "fixed") => p
<1> DEFINE A == {[word |-> IF p THEN "fixed" ELSE "skipped", tracked |-> "absent"]}
           B == {[word |-> "deferred", tracked |-> "unfiled"]}
           C == {[word |-> "escalated", tracked |-> "absent"]}
<1>1. Results(p) = {[blocked |-> FALSE, pushed |-> p, resolutions |-> s] : s \in {A, B, C}}
  BY DEF Results
<1>2. A # {} /\ B # {} /\ C # {}
  OBVIOUS
<1>3. /\ \A x \in A : x.word = "fixed" => p
      /\ \A x \in B : x.word # "fixed"
      /\ \A x \in C : x.word # "fixed"
  OBVIOUS
<1> HIDE DEF A, B, C
<1>4. PICK s \in {A, B, C} : res = [blocked |-> FALSE, pushed |-> p, resolutions |-> s]
  BY <1>1
<1> QED BY <1>2, <1>3, <1>4 DEF Has

(* A review settles: its verdict, its label. *)
LEMMA SettleReviewTrue ==
    ASSUME TruthInv, SettleReview
    PROVE  Kept(markers', head, job', labels)
<1> DEFINE ms == markers
           i == job.at
           h == head
<1>1. job.step = "work" /\ job.leg = "review"
  BY DEF SettleReview
<1>2. PICK verdict \in ReviewVerdicts, fixable \in BOOLEAN :
        /\ fixable => verdict = "issues-remain"
        /\ markers' = Settled([markers[job.at] EXCEPT !.state = "complete",
                                 !.verdict = verdict, !.fixable = fixable])
        /\ job' = Labelling("review", PassLabel(verdict, IF fixable THEN 1 ELSE 0, Escalated))
  BY DEF SettleReview
<1> DEFINE m == [ms[i] EXCEPT !.state = "complete", !.verdict = verdict, !.fixable = fixable]
           es == markers'
           X == PassLabel(verdict, IF fixable THEN 1 ELSE 0, Escalated)
<1>3. /\ LoopInv /\ ms \in Seq(MarkerRec) /\ Numbered(ms) /\ h \in Nat /\ Recorded(ms, h, MaxPasses)
      /\ MaxPasses \in Nat
      /\ \A j \in DOMAIN ms : ms[j].leg = "resolve" => ms[j].state \in {"started", "complete"}
  BY CapIsPositive DEF TruthInv, LoopInv, RecordedInv
<1>4. /\ i = Rv(ms) /\ i # 0 /\ i \in DOMAIN ms /\ ms[i] \in MarkerRec /\ Rs(ms) = 0
      /\ ms[i].leg = "review" /\ ms[i].state = "started"
  BY <1>1, <1>3, JudgedNow, AtWork, View DEF LoopInv, JobInv
<1>5. /\ m \in MarkerRec /\ m.leg = "review" /\ m.pass = ms[i].pass /\ m.state = "complete"
      /\ m.verdict = verdict /\ m.fixable = fixable /\ m.head = ms[i].head /\ m.res = ms[i].res
  BY <1>4 DEF MarkerRec
<1>6. Shaped(m) /\ m.head <= h /\ m.res = Clean
  <2>1. Shaped(ms[i]) /\ ms[i].head <= h
    BY <1>3, <1>4 DEF Recorded
  <2>2. m.verdict # "null"
    BY <1>5 DEF ReviewVerdicts
  <2> HIDE DEF m
  <2> QED BY <1>2, <1>4, <1>5, <2>1, <2>2 DEF Shaped
<1>7. es = [ms EXCEPT ![i] = m] /\ job' = Labelling("review", X)
  BY <1>2 DEF Settled
<1>8. job'.step = "label" /\ job'.next = X
  BY <1>7 DEF Labelling, IdleJob
<1> HIDE DEF m, X, i
<1>9. Rewritten(ms, [ms EXCEPT ![i] = m], i, m)
  <2>1. m.state # "declined" /\ ms[i].state # "declined" /\ m.leg = ms[i].leg
    BY <1>4, <1>5
  <2> QED BY <1>3, <1>4, <1>5, <2>1, Rewrites
<1>10. Rewritten(ms, es, i, m)
  BY <1>7, <1>9
<1> HIDE DEF es
<1>11. Recorded(es, h, MaxPasses)
  BY <1>3, <1>4, <1>6, <1>10, RewrittenRecorded
<1>12. \A j \in DOMAIN ms : es[j].res = ms[j].res
  BY <1>5, <1>10 DEF Rewritten
<1>13. SomeEscalated(es) <=> SomeEscalated(ms)
  BY <1>10, <1>12 DEF SomeEscalated, Rewritten
<1>14. ASSUME used.faults = 0 PROVE Calm(es, h, job')
  <2>1. Calm(ms, h, job)
    BY <1>14 DEF TruthInv, CalmInv
  <2>2. \A j \in DOMAIN es : es[j].state # "started"
    BY <1>5, <1>10, <2>1 DEF Calm, Rewritten, i
  <2>3. \A j \in DOMAIN es : es[j].leg = "resolve" /\ es[j].state = "complete" =>
                                es[j].res \in Results(TRUE) \cup Results(FALSE)
    BY <1>5, <1>10, <2>1 DEF Calm, Rewritten
  <2>4. Noticed(es) => \A j \in RanIn(es) : es[j].pass = PassesIn(es) => es[j].head < h
    <3>1. \A j \in DOMAIN ms : es[j].head = ms[j].head
      BY <1>5, <1>10 DEF Rewritten
    <3>2. RanIn(es) \subseteq DOMAIN ms
      BY <1>3, <1>10, PassesAreCounted DEF Rewritten
    <3> QED BY <1>10, <2>1, <3>1, <3>2 DEF Calm, Rewritten
  <2>5. Rs(es) = 0
    BY <1>4, <1>10 DEF Rewritten
  <2> QED BY <2>2, <2>3, <2>4, <2>5 DEF Calm
<1>15. Fit(es, {X}, mode)
  <2>1. Rv(es) = i /\ Rs(es) = 0 /\ es[i] = m /\ i # 0
    BY <1>4, <1>10 DEF Rewritten
  <2>2. Judged(es) <=> verdict # "blocked"
    BY <1>5, <2>1 DEF Judged
  <2>3. Escalated > 0 <=> SomeEscalated(es)
    BY <1>3, <1>13, EscalatedIs
  <2>4. X = IF verdict = "blocked" THEN "halted"
            ELSE IF fixable THEN "awaiting-resolution"
            ELSE IF SomeEscalated(es) /\ verdict # "converged" THEN "halted" ELSE "converged"
    BY <2>3 DEF PassLabel, X
  <2>5. Green(es) => X = "converged"
    <3>1. Stands(es) = "none"
      BY <2>1 DEF Stands
    <3>2. Green(es) => verdict # "blocked" /\ (verdict = "converged" \/ (~fixable /\ ~SomeEscalated(es)))
      BY <1>5, <2>1, <2>2, <3>1 DEF Green
    <3> QED BY <1>2, <2>4, <3>2
  <2>6. X = "awaiting-resolution" => Answerable(es)
    BY <1>2, <2>1, <2>2, <2>4 DEF Answerable
  <2>7. Owing(es) => X = "awaiting-resolution"
    BY <1>5, <2>1, <2>2, <2>4 DEF Owing, Answerable
  <2>8. X = "halted" => Shown(es)
    <3>1. CASE verdict = "blocked"
      <4>1. i = NewestOf(es, es[i].pass, es[i].leg) /\ i \in DOMAIN es
        <5>1. NewestOf(es, PassesIn(es), "review") = i
          BY <2>1 DEF Rv
        <5>2. es[i].pass = PassesIn(es) /\ es[i].leg = "review"
          BY <1>10, <2>1, View DEF Rewritten
        <5> QED BY <1>4, <1>10, <5>1, <5>2 DEF Rewritten
      <4> QED BY <1>5, <2>1, <3>1, <4>1 DEF Shown, Red
    <3>2. CASE SomeEscalated(es)
      <4>1. \A j \in DOMAIN es : es[j].leg = "resolve" => es[j].state \in {"started", "complete"}
        BY <1>3, <1>5, <1>10 DEF Rewritten
      <4>2. es \in Seq(MarkerRec)
        BY <1>10 DEF Rewritten
      <4> QED BY <1>11, <3>2, <4>1, <4>2, EscalatedShows
    <3> QED BY <2>4, <3>1, <3>2
  <2> QED BY <2>5, <2>6, <2>7, <2>8 DEF Fit
<1>16. Kept(es, h, job', labels)
  BY <1>8, <1>11, <1>14, <1>15 DEF Kept
<1> QED BY <1>16 DEF es

(* A bounded review halts. *)
LEMMA HaltReviewTrue ==
    ASSUME TruthInv, HaltReview
    PROVE  Kept(markers', head, job', labels)
<1> DEFINE ms == markers
           i == job.at
           h == head
           m == [ms[i] EXCEPT !.state = "incomplete"]
           es == markers'
<1>1. /\ job.step = "work" /\ job.leg = "review" /\ es = [ms EXCEPT ![i] = m]
      /\ job' = Labelling("review", "halted")
  BY DEF HaltReview, Settled
<1>3. /\ LoopInv /\ ms \in Seq(MarkerRec) /\ Numbered(ms) /\ h \in Nat /\ Recorded(ms, h, MaxPasses)
      /\ MaxPasses \in Nat
  BY CapIsPositive DEF TruthInv, LoopInv, RecordedInv
<1>4. /\ i = Rv(ms) /\ i # 0 /\ i \in DOMAIN ms /\ ms[i] \in MarkerRec /\ Rs(ms) = 0
      /\ ms[i].leg = "review" /\ ms[i].state = "started"
  BY <1>1, <1>3, JudgedNow, AtWork, View DEF LoopInv, JobInv
<1>5. /\ m \in MarkerRec /\ m.leg = "review" /\ m.pass = ms[i].pass /\ m.state = "incomplete"
      /\ m.verdict = ms[i].verdict /\ m.fixable = ms[i].fixable
      /\ m.head = ms[i].head /\ m.res = ms[i].res
  BY <1>4 DEF MarkerRec
<1>6. Shaped(m) /\ m.head <= h
  <2>1. Shaped(ms[i]) /\ ms[i].head <= h
    BY <1>3, <1>4 DEF Recorded
  <2> HIDE DEF m
  <2> QED BY <1>4, <1>5, <2>1 DEF Shaped
<1>8. job'.step = "label" /\ job'.next = "halted"
  BY <1>1 DEF Labelling, IdleJob
<1> HIDE DEF m, i
<1>10. Rewritten(ms, es, i, m)
  <2>1. m.state # "declined" /\ ms[i].state # "declined" /\ m.leg = ms[i].leg
    BY <1>4, <1>5
  <2>2. Rewritten(ms, [ms EXCEPT ![i] = m], i, m)
    BY <1>3, <1>4, <1>5, <2>1, Rewrites
  <2> QED BY <1>1, <2>2
<1> HIDE DEF es
<1>11. Recorded(es, h, MaxPasses)
  BY <1>3, <1>4, <1>6, <1>10, RewrittenRecorded
<1>14. ASSUME used.faults = 0 PROVE Calm(es, h, job')
  <2>1. Calm(ms, h, job)
    BY <1>14 DEF TruthInv, CalmInv
  <2>2. \A j \in DOMAIN es : es[j].state # "started"
    BY <1>5, <1>10, <2>1 DEF Calm, Rewritten, i
  <2>3. \A j \in DOMAIN es : es[j].leg = "resolve" /\ es[j].state = "complete" =>
                                es[j].res \in Results(TRUE) \cup Results(FALSE)
    BY <1>5, <1>10, <2>1 DEF Calm, Rewritten
  <2>4. Noticed(es) => \A j \in RanIn(es) : es[j].pass = PassesIn(es) => es[j].head < h
    <3>1. \A j \in DOMAIN ms : es[j].head = ms[j].head
      BY <1>5, <1>10 DEF Rewritten
    <3>2. RanIn(es) \subseteq DOMAIN ms
      BY <1>3, <1>10, PassesAreCounted DEF Rewritten
    <3> QED BY <1>10, <2>1, <3>1, <3>2 DEF Calm, Rewritten
  <2>5. Rs(es) = 0
    BY <1>4, <1>10 DEF Rewritten
  <2> QED BY <2>2, <2>3, <2>4, <2>5 DEF Calm
<1>15. Fit(es, {"halted"}, mode)
  <2>1. Rv(es) = i /\ es[i] = m /\ i \in DOMAIN es
    BY <1>4, <1>10 DEF Rewritten
  <2>2. ~Judged(es)
    BY <1>5, <2>1 DEF Judged
  <2>3. Shown(es)
    BY <1>5, <2>1 DEF Shown
  <2> QED BY <2>2, <2>3 DEF Fit, Green
<1>16. Kept(es, h, job', labels)
  BY <1>8, <1>11, <1>14, <1>15 DEF Kept
<1> QED BY <1>16 DEF es

(* A resolution settles: what it read before it wrote says the same after. *)
LEMMA SettleResolveTrue ==
    ASSUME TruthInv, SettleResolve
    PROVE  Kept(markers', head, job', labels)
<1> DEFINE ms == markers
           i == job.at
           h == head
           other == OtherEscalated(markers[job.at].pass)
           es == markers'
<1>1. job.step = "work" /\ job.leg = "resolve"
  BY DEF SettleResolve
<1>2. PICK res \in Results(job.pushed) :
         /\ es = Settled([ms[i] EXCEPT !.state = "complete", !.res = res])
         /\ job' = [Labelling("resolve",
                      IF ResolvePassLabel(res, other) = "converged" /\ lost THEN "awaiting-review"
                      ELSE ResolvePassLabel(res, other))
                    EXCEPT !.brake = Has(res, "escalated")]
  BY DEF SettleResolve
<1> DEFINE m == [ms[i] EXCEPT !.state = "complete", !.res = res]
           base == ResolvePassLabel(res, other)
<1>3. /\ LoopInv /\ ms \in Seq(MarkerRec) /\ Numbered(ms) /\ h \in Nat /\ Recorded(ms, h, MaxPasses)
      /\ MaxPasses \in Nat /\ job.pushed \in BOOLEAN
      /\ \A j \in DOMAIN ms : ms[j].leg = "resolve" => ms[j].state \in {"started", "complete"}
  BY CapIsPositive DEF TruthInv, LoopInv, RecordedInv, JobInv, JobRec
<1>4. /\ i = Rs(ms) /\ i # 0 /\ i \in DOMAIN ms /\ ms[i] \in MarkerRec /\ Judged(ms)
      /\ ms[i].leg = "resolve" /\ ms[i].state = "started" /\ i # Rv(ms) /\ Rv(ms) \in DOMAIN ms
  <2>1. i = Rs(ms) /\ i # 0 /\ Judged(ms) /\ ms[i].state = "started"
    BY <1>1, <1>3, JudgedNow DEF LoopInv, JobInv
  <2>2. i \in DOMAIN ms /\ ms[i] \in MarkerRec /\ ms[i].leg = "resolve"
    BY <1>3, <2>1, View
  <2>3. Rv(ms) \in DOMAIN ms /\ ms[Rv(ms)].leg = "review"
    BY <1>3, <2>1, View DEF Judged
  <2> QED BY <2>1, <2>2, <2>3
<1>5. /\ res \in [blocked : BOOLEAN, pushed : BOOLEAN, resolutions : SUBSET Resolution]
      /\ ~res.blocked /\ res.pushed = job.pushed /\ res.resolutions # {}
      /\ Has(res, "fixed") => job.pushed
      /\ res \in Results(TRUE) \cup Results(FALSE)
  <2>1. job.pushed = TRUE \/ job.pushed = FALSE
    BY <1>3
  <2>2. res \in Results(TRUE) \cup Results(FALSE)
    BY <1>2, <2>1
  <2> QED BY <1>2, <1>3, <2>2, ResultIs, ResultsType
<1>6. /\ m \in MarkerRec /\ m.leg = "resolve" /\ m.pass = ms[i].pass /\ m.state = "complete"
      /\ m.verdict = ms[i].verdict /\ m.fixable = ms[i].fixable /\ m.head = ms[i].head /\ m.res = res
  BY <1>4, <1>5 DEF MarkerRec
<1>7. es = [ms EXCEPT ![i] = m] /\ job'.step = "label"
      /\ job'.next = IF base = "converged" /\ lost THEN "awaiting-review" ELSE base
  BY <1>2 DEF Settled, Labelling, IdleJob
<1> HIDE DEF m, base, i, es
<1>8. Shaped(m) /\ m.head <= h
  <2>1. Shaped(ms[i]) /\ ms[i].head <= h
    BY <1>3, <1>4 DEF Recorded
  <2> QED BY <1>4, <1>6, <2>1 DEF Shaped
<1>9. Rewritten(ms, es, i, m)
  <2>1. m.state # "declined" /\ ms[i].state # "declined" /\ m.leg = ms[i].leg
    BY <1>4, <1>6
  <2>2. Rewritten(ms, [ms EXCEPT ![i] = m], i, m)
    BY <1>3, <1>4, <1>6, <2>1, Rewrites
  <2> QED BY <1>7, <2>2
<1>10. Recorded(es, h, MaxPasses)
  BY <1>3, <1>4, <1>8, <1>9, RewrittenRecorded
<1>11. /\ Rv(es) = Rv(ms) /\ Rs(es) = i /\ es[i] = m /\ es[Rv(ms)] = ms[Rv(ms)] /\ Judged(es)
       /\ es \in Seq(MarkerRec) /\ DOMAIN es = DOMAIN ms
       /\ ms[Rv(ms)].fixable /\ ms[Rv(ms)].verdict = "issues-remain"
  <2>1. ms[Rv(ms)].fixable /\ ms[Rv(ms)].verdict = "issues-remain"
    BY <1>3, <1>4 DEF Recorded, Shaped
  <2> QED BY <1>4, <1>9, <2>1 DEF Rewritten, Judged
<1>12. SomeEscalated(es) <=> Has(res, "escalated") \/ other > 0
  <2> DEFINE S == {j \in DOMAIN ms : ms[j].pass # ms[i].pass /\ Has(ms[j].res, "escalated")}
  <2>1. other = Cardinality(S)
    BY DEF OtherEscalated, i
  <2>2. IsFiniteSet(S)
    <3>1. IsFiniteSet(DOMAIN ms) /\ S \subseteq DOMAIN ms
      BY <1>3, PassesAreCounted
    <3> QED BY <3>1, FS_Subset
  <2>3. other > 0 <=> S # {}
    <3>1. Cardinality(S) \in Nat /\ (Cardinality(S) = 0 <=> S = {})
      BY <2>2, FS_CardinalityType, FS_EmptySet
    <3> QED BY <2>1, <3>1
  <2>4. \A j \in DOMAIN ms : Has(ms[j].res, "escalated") /\ j # i => j \in S
    <3> SUFFICES ASSUME NEW j \in DOMAIN ms, Has(ms[j].res, "escalated"), j # i PROVE j \in S
      OBVIOUS
    <3>1. ms[j].leg = "resolve"
      <4>1. ms[j].res # Clean
        BY CleanIs
      <4>2. ms[j].leg \in {"review", "resolve"}
        BY <1>3, PassesAreCounted DEF MarkerRec, Legs
      <4> QED BY <1>3, <4>1, <4>2 DEF Recorded, Shaped
    <3>2. ms[j].pass # ms[i].pass
      BY <1>3, <1>4, <3>1 DEF Recorded
    <3> QED BY <3>2
  <2>5. \A j \in S : j # i /\ Has(ms[j].res, "escalated") /\ j \in DOMAIN ms
    OBVIOUS
  <2> HIDE DEF S
  <2>6. \A j \in DOMAIN ms : j # i => es[j] = ms[j]
    BY <1>9 DEF Rewritten
  <2>7. SomeEscalated(es) <=> Has(res, "escalated") \/ S # {}
    BY <1>4, <1>6, <1>11, <2>4, <2>5, <2>6 DEF SomeEscalated
  <2> QED BY <2>3, <2>7
<1> HIDE DEF other
<1>13. ASSUME used.faults = 0 PROVE Calm(es, h, job')
  <2>1. Calm(ms, h, job)
    BY <1>13 DEF TruthInv, CalmInv
  <2>2. \A j \in DOMAIN es : es[j].state # "started"
    BY <1>6, <1>9, <2>1 DEF Calm, Rewritten, i
  <2>3. \A j \in DOMAIN es : es[j].leg = "resolve" /\ es[j].state = "complete" =>
                                es[j].res \in Results(TRUE) \cup Results(FALSE)
    <3>1. \A j \in DOMAIN ms : j # i => es[j] = ms[j]
      BY <1>9 DEF Rewritten
    <3>2. es[i].res \in Results(TRUE) \cup Results(FALSE)
      BY <1>5, <1>6, <1>11
    <3> QED BY <1>11, <2>1, <3>1, <3>2 DEF Calm
  <2>4. Noticed(es) => \A j \in RanIn(es) : es[j].pass = PassesIn(es) => es[j].head < h
    <3>1. \A j \in DOMAIN ms : es[j].head = ms[j].head
      BY <1>6, <1>9 DEF Rewritten
    <3>2. RanIn(es) \subseteq DOMAIN ms
      BY <1>3, <1>9, PassesAreCounted DEF Rewritten
    <3> QED BY <1>9, <2>1, <3>1, <3>2 DEF Calm, Rewritten
  <2>5. Rs(es) # 0 /\ es[Rs(es)].res.pushed => es[Rv(es)].head < h
    BY <1>1, <1>4, <1>5, <1>6, <1>11, <2>1 DEF Calm
  <2> QED BY <1>7, <2>2, <2>3, <2>4, <2>5 DEF Calm
<1>14. ASSUME used.faults = 0 PROVE Fit(es, {job'.next}, mode)
  <2>1. job'.next = base
    BY <1>7, <1>14 DEF TruthInv, CalmInv
  <2>2. base = IF \/ Has(res, "escalated") \/ other > 0 \/ UnfiledDeferrals(res) # {}
               THEN "halted" ELSE IF res.pushed THEN "awaiting-review" ELSE "converged"
    BY <1>5 DEF ResolvePassLabel, ResolveUnpushedFix, ResolveUnrecorded, base
  <2>3. Stands(es) = base
    <3>1. Stands(es) = ResolvePassLabel(res, IF SomeEscalated(es) THEN 1 ELSE 0)
      BY <1>4, <1>6, <1>11 DEF Stands
    <3>2. Stands(es) = IF \/ Has(res, "escalated") \/ SomeEscalated(es) \/ UnfiledDeferrals(res) # {}
                       THEN "halted" ELSE IF res.pushed THEN "awaiting-review" ELSE "converged"
      BY <1>5, <3>1 DEF ResolvePassLabel, ResolveUnpushedFix, ResolveUnrecorded
    <3> QED BY <1>12, <2>2, <3>2
  <2>4. Green(es) => base = "converged"
    BY <1>11, <2>3 DEF Green
  <2>5. base # "awaiting-resolution"
    BY <2>2
  <2>6. Owing(es) => base = "halted"
    <3>1. Owing(es) => ResolveRedrivable(res)
      BY <1>4, <1>6, <1>11 DEF Owing, Answerable
    <3> QED BY <1>5, <2>2, <3>1 DEF ResolveRedrivable, ResolveUnpushedFix, ResolveUnrecorded
  <2>7. base = "halted" => Shown(es)
    <3>1. SomeEscalated(es) => Shown(es)
      <4>1. \A j \in DOMAIN es : es[j].leg = "resolve" => es[j].state \in {"started", "complete"}
        BY <1>3, <1>6, <1>9 DEF Rewritten
      <4> QED BY <1>10, <1>11, <4>1, EscalatedShows
    <3>2. UnfiledDeferrals(res) # {} => Shown(es)
      BY <1>4, <1>6, <1>11 DEF Shown
    <3> QED BY <1>12, <2>2, <3>1, <3>2
  <2> QED BY <2>1, <2>4, <2>5, <2>6, <2>7 DEF Fit
<1>15. Kept(es, h, job', labels)
  BY <1>7, <1>10, <1>13, <1>14 DEF Kept
<1> QED BY <1>15 DEF es

(* The label goes on. *)
LEMMA ApplyLabelsTrue ==
    ASSUME TruthInv, ApplyLabels
    PROVE  Kept(markers, head, job', labels')
<1>1. /\ job.step = "label" /\ job'.step = "idle" /\ job \in JobRec
      /\ labels' = (labels \ (OutcomeLabels \cup {"retried"})) \cup {job.next} \cup
                   (IF job.brake THEN {"stop"} ELSE {})
  BY DEF ApplyLabels, Replaced, IdleJob, TruthInv, LoopInv, JobInv
<1>2. /\ head \in Nat /\ markers \in Seq(MarkerRec) /\ Numbered(markers)
      /\ Recorded(markers, head, MaxPasses) /\ (Rs(markers) # 0 => Judged(markers))
  BY JudgedNow DEF TruthInv, LoopInv, RecordedInv
<1>3. ASSUME used.faults = 0 PROVE Calm(markers, head, job') /\ Fit(markers, labels', mode)
  <2>1. Calm(markers, head, job) /\ Fit(markers, {job.next}, mode)
    BY <1>1, <1>3 DEF TruthInv, CalmInv
  <2>2. job.step # "work" /\ job'.step # "work"
    BY <1>1
  <2>3. Calm(markers, head, job')
    BY <1>2, <2>1, <2>2, CalmStays
  <2>4. {job.next} \cap OutcomeLabels = labels' \cap OutcomeLabels
    BY <1>1 DEF OutcomeLabels
  <2> QED BY <2>1, <2>3, <2>4, FitOutcome
<1> QED BY <1>1, <1>2, <1>3 DEF Kept

(* The branch moves under the markers: the resolution at work pushed, or   *)
(* somebody did.                                                           *)
LEMMA PushTrue ==
    ASSUME TruthInv, Push
    PROVE  Kept(markers, head', job', labels)
<1>1. /\ head \in Nat /\ head' = head + 1 /\ head' \in Nat /\ markers \in Seq(MarkerRec)
      /\ Numbered(markers) /\ Recorded(markers, head, MaxPasses)
      /\ (Rs(markers) # 0 => Judged(markers)) /\ job \in JobRec
  BY JudgedNow DEF TruthInv, LoopInv, RecordedInv, Push, JobInv
<1>2. /\ job.step = "work" /\ job'.step = "work" /\ job'.at = job.at /\ job'.leg = job.leg
  BY <1>1 DEF Push, JobRec
<1>3. Recorded(markers, head', MaxPasses)
  BY <1>1, RecordedStays
<1>4. \A j \in DOMAIN markers : markers[j].head < head'
  <2>1. \A j \in DOMAIN markers : markers[j].head \in Nat /\ markers[j].head <= head
    BY <1>1, PassesAreCounted DEF MarkerRec, Recorded
  <2> QED BY <1>1, <2>1
<1>5. used.faults = 0 => Calm(markers, head', job')
  <2>1. used.faults = 0 => Calm(markers, head, job)
    BY DEF TruthInv, CalmInv
  <2>2. head <= head'
    BY <1>1
  <2> QED BY <1>1, <1>2, <1>4, <2>1, <2>2, CalmStays
<1> QED BY <1>2, <1>3, <1>5 DEF Kept

LEMMA SomebodyPushesTrue ==
    ASSUME TruthInv, SomebodyPushes
    PROVE  Kept(markers, head', job, labels)
<1>1. /\ head \in Nat /\ head' = head + 1 /\ head' \in Nat /\ markers \in Seq(MarkerRec)
      /\ Numbered(markers) /\ Recorded(markers, head, MaxPasses)
      /\ (Rs(markers) # 0 => Judged(markers)) /\ head <= head'
  BY JudgedNow DEF TruthInv, LoopInv, RecordedInv, SomebodyPushes
<1>2. Recorded(markers, head', MaxPasses)
  BY <1>1, RecordedStays
<1>3. ASSUME used.faults = 0
      PROVE  /\ Calm(markers, head', job)
             /\ job.step = "idle" => Fit(markers, labels, mode)
             /\ job.step = "label" => Fit(markers, {job.next}, mode)
  <2>1. /\ Calm(markers, head, job)
        /\ job.step = "idle" => Fit(markers, labels, mode)
        /\ job.step = "label" => Fit(markers, {job.next}, mode)
    BY <1>3 DEF TruthInv, CalmInv, Idle
  <2>2. Calm(markers, head', job)
    BY <1>1, <2>1, CalmStays
  <2> QED BY <2>1, <2>2
<1> QED BY <1>2, <1>3 DEF Kept

(* A leg that dies leaves a record all the same. *)
Perishes == job.step = "work" /\ markers' = Fatal

LEMMA FatalTrue ==
    ASSUME TruthInv, Perishes
    PROVE  Recorded(markers', head, MaxPasses)
<1> DEFINE ms == markers
           i == job.at
           m == [ms[i] EXCEPT !.state = "complete",
                     !.verdict = IF job.leg = "review" THEN "blocked" ELSE @,
                     !.res = [@ EXCEPT !.blocked = (job.leg = "resolve")]]
<1>1. job.step = "work" /\ markers' = [ms EXCEPT ![i] = m]
  BY DEF Perishes, Fatal, Settled
<1>2. /\ LoopInv /\ ms \in Seq(MarkerRec) /\ Numbered(ms) /\ head \in Nat
      /\ Recorded(ms, head, MaxPasses) /\ MaxPasses \in Nat /\ (Rs(ms) # 0 => Judged(ms))
  BY CapIsPositive, JudgedNow DEF TruthInv, LoopInv, RecordedInv
<1>3. /\ i \in DOMAIN ms /\ ms[i] \in MarkerRec /\ ms[i].state = "started"
      /\ job.leg \in Legs /\ ms[i].leg = job.leg /\ (job.leg = "review" => Rs(ms) = 0)
      /\ (job.leg = "resolve" => i # Rv(ms))
  <2>1. i \in DOMAIN ms /\ ms[i] \in MarkerRec /\ ms[i].state = "started" /\ job.leg \in Legs
    BY <1>1, <1>2, AtWork DEF LoopInv, JobInv
  <2>2. job.leg = "review" => i = Rv(ms) /\ i # 0 /\ Rs(ms) = 0
    BY <1>1, <1>2, JudgedNow
  <2>3. job.leg = "resolve" => i = Rs(ms) /\ i # 0 /\ Judged(ms)
    BY <1>1, <1>2, JudgedNow
  <2> QED BY <1>2, <2>1, <2>2, <2>3, View DEF Legs, Judged
<1>4. Shaped(ms[i]) /\ ms[i].head <= head /\ ms[i].res \in [blocked : BOOLEAN, pushed : BOOLEAN, resolutions : SUBSET Resolution]
  BY <1>2, <1>3 DEF Recorded, MarkerRec
<1>5. /\ m \in MarkerRec /\ m.leg = ms[i].leg /\ m.pass = ms[i].pass /\ m.state = "complete"
      /\ m.head = ms[i].head /\ m.fixable = ms[i].fixable
      /\ m.verdict = (IF job.leg = "review" THEN "blocked" ELSE ms[i].verdict)
      /\ m.res = [ms[i].res EXCEPT !.blocked = (job.leg = "resolve")]
  <2>1. [ms[i].res EXCEPT !.blocked = (job.leg = "resolve")]
          \in [blocked : BOOLEAN, pushed : BOOLEAN, resolutions : SUBSET Resolution]
    BY <1>4
  <2>2. (IF job.leg = "review" THEN "blocked" ELSE ms[i].verdict) \in ReviewVerdicts \cup {"null"}
    BY <1>3 DEF MarkerRec, ReviewVerdicts
  <2> QED BY <1>3, <2>1, <2>2 DEF MarkerRec
<1> HIDE DEF m, i
<1>6. Shaped(m)
  <2>1. ms[i].res = Clean
    BY <1>3, <1>4 DEF Shaped
  <2>2. job.leg = "review" => m.res = Clean
    <3> SUFFICES ASSUME job.leg = "review"
                 PROVE  [ms[i].res EXCEPT !.blocked = (job.leg = "resolve")] = Clean
      BY <1>5
    <3>1. (job.leg = "resolve") = FALSE
      OBVIOUS
    <3>2. [ms[i].res EXCEPT !.blocked = (job.leg = "resolve")] = [ms[i].res EXCEPT !.blocked = FALSE]
      BY <3>1, Zenon
    <3>3. [Clean EXCEPT !.blocked = FALSE] = Clean
      <4>1. /\ Clean \in [blocked : BOOLEAN, pushed : BOOLEAN, resolutions : SUBSET Resolution]
            /\ ~Clean.blocked
        BY DEF Clean
      <4>2. \A r \in [blocked : BOOLEAN, pushed : BOOLEAN, resolutions : SUBSET Resolution] :
              ~r.blocked => [r EXCEPT !.blocked = FALSE] = r
        OBVIOUS
      <4> QED BY <4>1, <4>2
    <3>4. [ms[i].res EXCEPT !.blocked = FALSE] = [Clean EXCEPT !.blocked = FALSE]
      BY <2>1, Zenon
    <3> QED BY <3>2, <3>3, <3>4, Zenon
  <2>3. ~m.fixable
    BY <1>3, <1>4, <1>5 DEF Shaped
  <2> QED BY <1>3, <1>4, <1>5, <2>2, <2>3 DEF Shaped, Legs
<1>7. Rewritten(ms, markers', i, m)
  <2>1. m.state # "declined" /\ ms[i].state # "declined"
    BY <1>3, <1>5
  <2> QED BY <1>1, <1>2, <1>3, <1>5, <2>1, Rewrites
<1>8. (Rs(ms) # 0 /\ i = Rv(ms) => m.fixable) /\ m.head <= head
  BY <1>3, <1>4, <1>5 DEF Legs
<1> QED BY <1>2, <1>3, <1>6, <1>7, <1>8, RewrittenRecorded

(***************************************************************************)
(* Restart.                                                                *)
(***************************************************************************)
(* What a halt restarts with, off the markers while nothing has failed.    *)
LEMMA RestartLegIs ==
    ASSUME TruthInv, Idle, used.faults = 0
    PROVE  /\ RestartLeg \in Legs
           /\ RestartLeg = "resolve" => Answerable(markers)
           /\ Owing(markers) => RestartLeg = "resolve"
<1> DEFINE ms == markers
           n == PassesIn(ms)
           v == Rv(ms)
           r == Rs(ms)
           k == MarkerFor(n + 1, "review")
           l == Len(ms)
<1>1. /\ LoopInv /\ ms \in Seq(MarkerRec) /\ Numbered(ms) /\ Recorded(ms, head, MaxPasses)
      /\ n \in Nat /\ l \in Nat /\ DOMAIN ms = 1..l
      /\ Calm(ms, head, job) /\ job.step # "work" /\ (r # 0 => Judged(ms))
  BY JudgedNow, PassesAreCounted DEF TruthInv, CalmInv, Idle, LoopInv, RecordedInv
<1>2. /\ CurrentReviewPass = n
      /\ MarkerFor(CurrentReviewPass, "review") = v /\ MarkerFor(CurrentReviewPass, "resolve") = r
  BY <1>1, ReadersNow
<1>3. k \in Nat /\ (k # 0 => k \in DOMAIN ms /\ ms[k].pass = n + 1)
  BY <1>1, NewestOfIs, Readers
<1>4. /\ v # 0 => v \in DOMAIN ms /\ ms[v].leg = "review"
      /\ r # 0 => r \in DOMAIN ms /\ ms[r].leg = "resolve" /\ ms[r].state \in {"started", "complete"}
      /\ \A j \in DOMAIN ms : ms[j].leg \in Legs /\ ms[j].state # "started"
      /\ \A j \in DOMAIN ms : ms[j].leg = "resolve" => ms[j].state \in {"started", "complete"}
  BY <1>1, View, PassesAreCounted DEF Calm, LoopInv, MarkerRec
<1>5. Escalated > 0 <=> SomeEscalated(ms)
  BY <1>1, EscalatedIs
<1>6. State(k) = "declined" => Noticed(ms)
  BY <1>3 DEF State, Noticed
<1>7. RestartLeg =
        IF State(k) = "declined" \/ Escalated > 0 THEN "review"
        ELSE IF State(r) = "complete" /\ ResolvePassLabel(ms[r].res, Escalated) = "halted"
        THEN "resolve"
        ELSE IF State(v) = "complete" /\ Verdict(v) = "blocked" THEN "review"
        ELSE IF State(v) = "complete" /\ Verdict(v) = "issues-remain" /\ r = 0 THEN "resolve"
        ELSE IF l > 0 /\ State(l) \in {"started", "incomplete"} THEN ms[l].leg
        ELSE "review"
  BY <1>2 DEF RestartLeg
<1>8. l > 0 => l \in DOMAIN ms /\ State(l) = ms[l].state
  BY <1>1 DEF State
<1>9. /\ State(v) = (IF v = 0 THEN "none" ELSE ms[v].state)
      /\ State(r) = (IF r = 0 THEN "none" ELSE ms[r].state)
      /\ Verdict(v) = (IF v = 0 \/ ms[v].verdict = "null" THEN "blocked" ELSE ms[v].verdict)
  BY DEF State, Verdict
<1>10. ~SomeEscalated(ms) => (ResolvePassLabel(ms[r].res, Escalated) = "halted" <=> ResolveRedrivable(ms[r].res))
  BY <1>1, EscalatedIs DEF ResolvePassLabel, ResolveRedrivable
<1>11. /\ Judged(ms) => /\ v # 0 /\ ms[v].state = "complete" /\ ms[v].verdict \in {"converged", "issues-remain"}
                        /\ (ms[v].fixable => ms[v].verdict = "issues-remain")
  <2>1. Judged(ms) => v \in DOMAIN ms /\ ms[v].verdict # "null" /\ ms[v].verdict # "blocked"
                      /\ ms[v].verdict \in ReviewVerdicts \cup {"null"} /\ Shaped(ms[v])
    BY <1>1, <1>4, PassesAreCounted DEF Judged, Recorded, Shaped, MarkerRec
  <2> QED BY <2>1 DEF Judged, ReviewVerdicts, Shaped
<1>12. Judged(ms) <=> v # 0 /\ ms[v].state = "complete" /\ ms[v].verdict # "blocked"
  BY DEF Judged
<1>13. Answerable(ms) <=> Judged(ms) /\ (r # 0 /\ ms[r].state = "complete" => ResolveRedrivable(ms[r].res))
  BY DEF Answerable
<1>14. Owing(ms) <=> /\ Answerable(ms) /\ ms[v].fixable /\ ~SomeEscalated(ms) /\ ~Noticed(ms)
                     /\ r # 0 => ms[r].state = "complete"
  BY DEF Owing
<1> HIDE DEF n, v, r, k, l
<1>16. RestartLeg \in Legs
  BY <1>4, <1>7, <1>8 DEF Legs
<1>17. RestartLeg = "resolve" => Answerable(ms)
  <2> SUFFICES ASSUME RestartLeg = "resolve" PROVE Answerable(ms)
    OBVIOUS
  <2>1. ~SomeEscalated(ms)
    BY <1>5, <1>7
  <2>2. \/ State(r) = "complete" /\ ResolvePassLabel(ms[r].res, Escalated) = "halted"
        \/ State(v) = "complete" /\ Verdict(v) = "issues-remain" /\ r = 0
        \/ l > 0 /\ State(l) = "incomplete" /\ ms[l].leg = "resolve"
    BY <1>4, <1>7, <1>8
  <2>3. ~(l > 0 /\ State(l) = "incomplete" /\ ms[l].leg = "resolve")
    BY <1>4, <1>8
  <2> QED BY <1>1, <1>9, <1>10, <1>12, <1>13, <2>1, <2>2, <2>3
<1>18. Owing(ms) => RestartLeg = "resolve"
  <2> SUFFICES ASSUME Owing(ms) PROVE RestartLeg = "resolve"
    OBVIOUS
  <2>1. ~(State(k) = "declined" \/ Escalated > 0)
    BY <1>5, <1>6, <1>14
  <2>2. CASE r # 0
    BY <1>7, <1>9, <1>10, <1>13, <1>14, <2>1, <2>2
  <2>3. CASE r = 0
    BY <1>7, <1>9, <1>11, <1>13, <1>14, <2>1, <2>3
  <2> QED BY <2>2, <2>3
<1> QED BY <1>16, <1>17, <1>18

(* A restart moves the halt to the leg it belongs to. *)
LEMMA RestartFits ==
    ASSUME TruthInv, Idle, used.faults = 0, Restart
    PROVE  Fit(markers, labels', mode)
<1>1. labels' = (labels \ {"halted", "retried"}) \cup {Awaiting(RestartLeg)}
  BY DEF Restart
<1>2. /\ RestartLeg \in Legs
      /\ RestartLeg = "resolve" => Answerable(markers)
      /\ Owing(markers) => RestartLeg = "resolve"
  BY RestartLegIs
<1>3. Awaiting(RestartLeg) = IF RestartLeg = "review" THEN "awaiting-review" ELSE "awaiting-resolution"
  BY DEF Awaiting
<1>4. Fit(markers, labels, mode)
  BY DEF TruthInv, CalmInv
<1> HIDE DEF Restart
<1>5. "converged" \in labels => "converged" \in labels'
  BY <1>1
<1>6. "awaiting-resolution" \in labels' => "awaiting-resolution" \in labels \/ RestartLeg = "resolve"
  BY <1>1, <1>2, <1>3 DEF Legs
<1>7. RestartLeg = "resolve" => labels' \cap {"halted", "awaiting-resolution"} # {}
  BY <1>1, <1>3
<1>8. "halted" \notin labels'
  BY <1>1, <1>3
<1> QED BY <1>2, <1>4, <1>5, <1>6, <1>7, <1>8 DEF Fit

(* The watchdog's labels: only automated mode has one. *)
LEMMA SweepFits ==
    ASSUME TruthInv, Retry \/ AddBack \/ GiveUp, Fit(markers, labels, mode)
    PROVE  Fit(markers, labels', mode)
<1>1. mode # "local"
  BY DEF TruthInv, ModeInv, Retry, AddBack, GiveUp, IdleDog
<1>2. "converged" \in labels => "converged" \in labels'
  BY DEF Retry, AddBack, GiveUp, Awaiting
<1> QED BY <1>1, <1>2 DEF Fit

(* The driver says converged of markers that leave nothing to do. *)
LEMMA ReadsTrue ==
    ASSUME LoopInv, RecordedInv
    PROVE  ReadReview = "converged" \/ ReadResolve = "converged" => Green(markers)
<1> DEFINE ms == markers
           v == Rv(ms)
           r == Rs(ms)
<1>1. /\ ms \in Seq(MarkerRec) /\ Numbered(ms) /\ Recorded(ms, head, MaxPasses)
  BY DEF LoopInv, RecordedInv
<1>2. /\ MarkerFor(CurrentReviewPass, "review") = v /\ MarkerFor(CurrentReviewPass, "resolve") = r
  BY ReadersNow
<1>3. v # 0 => v \in DOMAIN ms /\ Shaped(ms[v])
  BY <1>1, View DEF Recorded
<1>4. (Escalated > 0 <=> SomeEscalated(ms))
      /\ ResolvePassLabel(ms[r].res, Escalated)
             = ResolvePassLabel(ms[r].res, IF SomeEscalated(ms) THEN 1 ELSE 0)
  BY <1>1, EscalatedIs, StandsIs
<1>5. /\ State(v) = (IF v = 0 THEN "none" ELSE ms[v].state)
      /\ State(r) = (IF r = 0 THEN "none" ELSE ms[r].state)
      /\ Verdict(v) = (IF v = 0 \/ ms[v].verdict = "null" THEN "blocked" ELSE ms[v].verdict)
  BY DEF State, Verdict
<1>6. Verdict(v) # "blocked" => Judged(ms) /\ ms[v].verdict = Verdict(v)
  BY <1>3, <1>5 DEF Judged, Shaped
<1>7. ReadReview = IF Verdict(v) = "blocked" THEN "halted"
        ELSE IF \/ Verdict(v) # "converged" /\ ms[v].fixable
                \/ Verdict(v) = "converged" /\ State(v) # "complete" THEN "continues"
        ELSE IF Verdict(v) # "converged" /\ Escalated > 0 THEN "halted"
        ELSE "converged"
  BY <1>2 DEF ReadReview
<1>8. ReadResolve = "converged" =>
        /\ State(r) = "complete" /\ ResolvePassLabel(ms[r].res, Escalated) = "converged"
        /\ Verdict(v) # "blocked"
  BY <1>2 DEF ReadResolve
<1>9. Stands(ms) = IF r = 0 \/ ms[r].state # "complete" THEN "none"
        ELSE ResolvePassLabel(ms[r].res, IF SomeEscalated(ms) THEN 1 ELSE 0)
  BY DEF Stands
<1>10. Green(ms) <=>
         /\ Judged(ms)
         /\ \/ ms[v].verdict = "converged"
            \/ ~ms[v].fixable /\ ~SomeEscalated(ms)
            \/ Stands(ms) = "converged"
  BY DEF Green
<1> HIDE DEF v, r
<1> QED BY <1>4, <1>5, <1>6, <1>7, <1>8, <1>9, <1>10

(***************************************************************************)
(* The steps, and the modes they belong to.                                *)
(***************************************************************************)
LEMMA UsedSteps ==
    ASSUME used \in [moves : Nat, faults : Nat, bare : Nat]
    PROVE  /\ Move => used' \in [moves : Nat, faults : Nat, bare : Nat] /\ used'.faults = used.faults
           /\ Faulty \/ Cut => used' \in [moves : Nat, faults : Nat, bare : Nat] /\ used'.faults # 0
           /\ RestartCut => used' \in [moves : Nat, faults : Nat, bare : Nat] /\ used'.faults # 0
<1> DEFINE U == [moves : Nat, faults : Nat, bare : Nat]
<1>1. PICK m \in Nat, f \in Nat, b \in Nat : used = [moves |-> m, faults |-> f, bare |-> b]
  OBVIOUS
<1>2. Move => used' \in U /\ used'.faults = used.faults
  BY DEF Move
<1>3. Faulty => used' \in U /\ used'.faults # 0
  BY DEF Faulty
<1>4. Cut => used' \in U /\ used'.faults # 0
  <2> SUFFICES ASSUME Cut PROVE used' \in U /\ used'.faults # 0
    OBVIOUS
  <2>1. used' = [moves |-> m, faults |-> f + 1,
                 bare |-> b + (IF labels' \cap OutcomeLabels = {} THEN 1 ELSE 0)]
    BY <1>1 DEF Cut
  <2> QED BY <1>1, <2>1
<1>5. RestartCut => used' \in U /\ used'.faults # 0
  <2> SUFFICES ASSUME RestartCut PROVE used' \in U /\ used'.faults # 0
    OBVIOUS
  <2>1. used' = [moves |-> m + 1, faults |-> f + 1, bare |-> b]
    BY <1>1 DEF RestartCut
  <2> QED BY <1>1, <2>1
<1> QED BY <1>2, <1>3, <1>4, <1>5

DriverRec ==
    [step : {"off", "review", "resolve"}, turn : Nat, bound : BOOLEAN,
     said : {"none", "failed", "halted", "converged", "cap", "unfinished"}]

LEMMA OffDriverIs ==
    /\ OffDriver \in DriverRec /\ OffDriver.step = "off" /\ OffDriver.said = "none"
    /\ \A d \in DriverRec : d.said = "none" => [d EXCEPT !.said = "none"] = d
    /\ \A d \in DriverRec, said \in {"none", "failed", "halted", "converged", "cap", "unfinished"} :
         [d EXCEPT !.said = said] \in DriverRec
<1>1. OffDriver \in DriverRec /\ OffDriver.step = "off" /\ OffDriver.said = "none"
  BY DEF OffDriver, DriverRec
<1>2. \A d \in DriverRec : d.said = "none" => [d EXCEPT !.said = "none"] = d
  BY DEF DriverRec
<1>3. \A d \in DriverRec, said \in {"none", "failed", "halted", "converged", "cap", "unfinished"} :
         [d EXCEPT !.said = said] \in DriverRec
  BY DEF DriverRec
<1> QED BY <1>1, <1>2, <1>3

(* The local driver acts in local mode, and leaves its mark in `driver'.   *)
LEMMA DriverMoves ==
    ASSUME ModeInv, StartCycle \/ AfterReview \/ AfterResolve
    PROVE  /\ mode = "local" /\ driver' \in DriverRec
           /\ UNCHANGED <<mode, lost, head, labels, events, dog>> /\ Idle
           /\ used' \in [moves : Nat, faults : Nat, bare : Nat] /\ used'.faults = used.faults
<1>1. mode = "local"
  <2>1. StartCycle => mode = "local"
    BY DEF StartCycle
  <2>2. AfterReview \/ AfterResolve => driver.step # "off"
    BY DEF AfterReview, AfterResolve
  <2> QED BY <2>1, <2>2, OffDriverIs DEF ModeInv
<1>2. ReadReview \in {"halted", "continues", "converged"}
  BY DEF ReadReview
<1>3. ReadResolve \in {"halted", "continues", "converged"}
  BY DEF ReadResolve
<1>4. \A said \in {"failed", "halted", "converged", "cap", "unfinished"} : Ends(said) => driver' \in DriverRec
  BY OffDriverIs DEF Ends
<1>5. driver.turn \in Nat
  BY DEF ModeInv
<1>6. \A turn \in Nat, bound \in BOOLEAN :
        Resolves(turn, bound) => driver' \in DriverRec
  BY DEF Resolves, DriverRec
<1>7. \A turn \in Nat, bound \in BOOLEAN, capped \in BOOLEAN :
        Reviews(turn, bound, capped) => driver' \in DriverRec
  BY DEF Reviews, DriverRec
<1>8. FinishAtBound => driver' \in DriverRec
  BY <1>2, <1>4, <1>5, <1>6 DEF FinishAtBound
<1>9. CASE StartCycle
  <2>1. driver' \in DriverRec
    BY <1>7, <1>8, <1>9 DEF StartCycle
  <2> QED BY <1>1, <1>9, <2>1, UsedSteps DEF StartCycle, ModeInv
<1>10. CASE AfterReview
  <2>1. driver' \in DriverRec
    BY <1>2, <1>4, <1>5, <1>6, <1>8, <1>10 DEF AfterReview
  <2> QED BY <1>1, <1>10, <2>1 DEF AfterReview, ModeInv
<1>11. CASE AfterResolve
  <2>1. driver.turn + 1 \in Nat
    BY <1>5
  <2>2. driver' \in DriverRec
    BY <1>3, <1>4, <1>7, <1>11, <2>1 DEF AfterResolve
  <2> QED BY <1>1, <1>11, <2>2 DEF AfterResolve, ModeInv
<1> QED BY <1>9, <1>10, <1>11

LEMMA ModeInit == Init => ModeInv
<1>1. Init => driver \in DriverRec /\ driver = OffDriver
  BY DEF Init, OffDriver, DriverRec
<1> QED BY <1>1, LoopAssumption DEF Init, ModeInv, DriverRec

LEMMA ModeStep ==
    ASSUME ModeInv, [Next]_vars
    PROVE  ModeInv'
<1>1. /\ mode \in {"automated", "local"} /\ used \in [moves : Nat, faults : Nat, bare : Nat]
      /\ mode = "local" => events = {} /\ dog = IdleDog
      /\ mode = "automated" => driver = OffDriver
      /\ driver \in DriverRec
  BY DEF ModeInv, DriverRec
<1>2. ASSUME mode' = mode, used' \in [moves : Nat, faults : Nat, bare : Nat],
             mode = "local" => events' = {} /\ dog' = IdleDog,
             mode = "automated" => driver' = OffDriver, driver' \in DriverRec
      PROVE  ModeInv'
  BY <1>1, <1>2 DEF ModeInv, DriverRec
<1>3. mode = "local" => \A before, next : Fires(before, next) = {}
  BY DEF Fires
<1>4. CASE Work
  <2>1. mode' = mode /\ used' = used /\ dog' = dog /\ driver' = driver
        /\ (events' = events \/ \E before, next : events' = events \cup Fires(before, next))
    BY <1>4 DEF Work, Push, SettleReview, HaltReview, SettleResolve, ApplyLabels
  <2> QED BY <1>1, <1>2, <1>3, <2>1
<1>5. CASE Automation
  <2>1. mode' = mode /\ used' = used /\ driver' = driver
    BY <1>5 DEF Automation, Watchdog, RunWorkflow, Sweep, Retry, AddBack, GiveUp
  <2>2. mode # "local"
    <3>1. mode = "local" => dog.step # "retry" /\ dog.step # "add"
      BY <1>1 DEF IdleDog
    <3> QED
      BY <1>1, <1>5, <3>1 DEF Automation, Watchdog, RunWorkflow, Sweep, Retry, AddBack, GiveUp
  <2> QED BY <1>1, <1>2, <2>1, <2>2
<1>6. CASE StartCycle \/ AfterReview \/ AfterResolve
  BY <1>1, <1>2, <1>6, DriverMoves
<1>7. CASE RunByHand
  <2>1. OffDriver \in DriverRec
    BY DEF OffDriver, DriverRec
  <2>2. mode' = mode /\ used' \in [moves : Nat, faults : Nat, bare : Nat] /\ dog' = dog /\ driver' = OffDriver
        /\ events' = events
    BY <1>1, <1>7, UsedSteps DEF RunByHand
  <2> QED BY <1>1, <1>2, <2>1, <2>2
<1>8. CASE SomebodyPushes
  <2>1. mode' = mode /\ used' \in [moves : Nat, faults : Nat, bare : Nat] /\ dog' = dog /\ driver' = driver
        /\ events' = events
    BY <1>1, <1>8, UsedSteps DEF SomebodyPushes
  <2> QED BY <1>1, <1>2, <2>1
<1>9. CASE ToggleStop \/ Restart
  <2>1. mode' = mode /\ used' \in [moves : Nat, faults : Nat, bare : Nat] /\ dog' = dog
        /\ driver' = [driver EXCEPT !.said = "none"]
        /\ (events' = events \/ \E before, next : events' = events \cup Fires(before, next))
    BY <1>1, <1>9, UsedSteps DEF ToggleStop, Restart
  <2>2. driver' \in DriverRec /\ (driver = OffDriver => driver' = OffDriver)
    BY <1>1, <2>1, OffDriverIs
  <2> QED BY <1>1, <1>2, <1>3, <2>1, <2>2
<1>10. CASE ReportFatal \/ ReportFatalCut \/ Dies \/ DropEvent \/ LoseLedger
  <2>1. /\ mode' = mode /\ used' \in [moves : Nat, faults : Nat, bare : Nat] /\ dog' = dog /\ driver' = driver
        /\ events' \subseteq events
    BY <1>1, <1>10, UsedSteps DEF ReportFatal, ReportFatalCut, Dies, DropEvent, LoseLedger
  <2> QED BY <1>1, <1>2, <2>1
<1>12. CASE ApplyLabelsCut
  <2>1. /\ mode' = mode /\ used' \in [moves : Nat, faults : Nat, bare : Nat] /\ dog' = dog /\ driver' = driver
    BY <1>1, <1>12, UsedSteps DEF ApplyLabelsCut
  <2>2. mode = "local" => events' = events
    BY <1>3, <1>12 DEF ApplyLabelsCut, Fired
  <2> QED BY <1>1, <1>2, <2>1, <2>2
<1>13. CASE RetryCut \/ AddBackCut \/ GiveUpCut
  <2>1. mode' = mode /\ used' \in [moves : Nat, faults : Nat, bare : Nat] /\ driver' = driver
    BY <1>1, <1>13, UsedSteps DEF RetryCut, AddBackCut, GiveUpCut
  <2>2. mode # "local"
    <3>1. mode = "local" => dog.step # "retry" /\ dog.step # "add"
      BY <1>1 DEF IdleDog
    <3> QED BY <1>1, <1>13, <3>1 DEF RetryCut, AddBackCut, GiveUpCut
  <2> QED BY <1>1, <1>2, <2>1, <2>2
<1>14. CASE RestartCut
  <2>1. mode' = mode /\ used' \in [moves : Nat, faults : Nat, bare : Nat] /\ dog' = dog
        /\ driver' = [driver EXCEPT !.said = "none"]
    BY <1>1, <1>14, UsedSteps DEF RestartCut
  <2>2. mode = "local" => events' = {}
    BY <1>1, <1>3, <1>14 DEF RestartCut
  <2>3. driver' \in DriverRec /\ (driver = OffDriver => driver' = OffDriver)
    BY <1>1, <2>1, OffDriverIs
  <2> QED BY <1>1, <1>2, <2>1, <2>2, <2>3
<1>11. CASE UNCHANGED vars
  BY <1>1, <1>2, <1>11 DEF vars
<1> QED
  BY <1>4, <1>5, <1>6, <1>7, <1>8, <1>9, <1>10, <1>11, <1>12, <1>13, <1>14
     DEF Next, Driver, People, Trouble

(* What the driver may say when it is done, and what it keeps.             *)
Honest == used.faults = 0 /\ driver'.said = "converged" => job'.step = "idle" /\ "converged" \in labels

(* Nothing moves but the driver. *)
LEMMA EndsTrue ==
    ASSUME TruthInv, Idle, mode = "local", NEW said, Ends(said), markers' = markers, job' = job,
           said = "converged" => Green(markers)
    PROVE  Kept(markers', head, job', labels) /\ Honest
<1>1. job'.step = "idle" /\ job = job' /\ markers = markers'
  BY DEF Idle
<1>2. Recorded(markers', head, MaxPasses)
  BY <1>1 DEF TruthInv, RecordedInv
<1>3. used.faults = 0 => Calm(markers', head, job') /\ Fit(markers', labels, mode)
  BY <1>1 DEF TruthInv, CalmInv
<1>4. driver'.said = said
  BY DEF Ends, OffDriver
<1>5. Honest
  BY <1>1, <1>3, <1>4 DEF Fit, Honest
<1> QED BY <1>1, <1>2, <1>3, <1>5 DEF Kept

LEMMA ReviewsTrue ==
    ASSUME TruthInv, Idle, NEW turn, NEW bound, NEW capped \in BOOLEAN, Reviews(turn, bound, capped),
           Declined(capped) => ~Judged(markers)
    PROVE  Kept(markers', head, job', labels) /\ Honest
<1>1. RunLeg("review", capped) /\ driver'.said = "none" /\ "review" \in Legs
  BY DEF Reviews, Legs
<1> QED BY <1>1, RunLegTrue DEF Honest

LEMMA ResolvesTrue ==
    ASSUME TruthInv, Idle, NEW turn, NEW bound, Resolves(turn, bound)
    PROVE  Kept(markers', head, job', labels) /\ Honest
<1>1. RunLeg("resolve", FALSE) /\ driver'.said = "none" /\ "resolve" \in Legs
  BY DEF Resolves, Legs
<1> QED BY <1>1, RunLegTrue DEF Honest

LEMMA FinishTrue ==
    ASSUME TruthInv, Idle, mode = "local", FinishAtBound
    PROVE  Kept(markers', head, job', labels) /\ Honest
<1>1. ReadReview = "converged" => Green(markers)
  BY ReadsTrue DEF TruthInv
<1>2. \/ Ends(ReadReview) /\ UNCHANGED <<job, markers>>
      \/ Ends("cap") /\ UNCHANGED <<job, markers>>
      \/ Resolves(driver.turn, TRUE)
  BY DEF FinishAtBound
<1> QED BY <1>1, <1>2, EndsTrue, ResolvesTrue

(* The local driver. *)
LEMMA DriverTrue ==
    ASSUME TruthInv, StartCycle \/ AfterReview \/ AfterResolve
    PROVE  Kept(markers', head, job', labels) /\ Honest
<1>1. mode = "local" /\ Idle /\ LoopInv /\ RecordedInv /\ ModeInv
  BY DriverMoves DEF TruthInv
<1>2. (ReadReview = "converged" => Green(markers)) /\ (ReadResolve = "converged" => Green(markers))
  BY <1>1, ReadsTrue
<1>3. /\ CurrentReviewPass = PassesIn(markers) /\ CurrentReviewPass \in Nat /\ MaxPasses \in Nat
      /\ MarkerFor(CurrentReviewPass, "review") = Rv(markers)
  BY <1>1, CapIsPositive, ReadersNow, PassesAreCounted DEF LoopInv
<1>4. CurrentReviewPass < MaxPasses => \A capped \in BOOLEAN : ~Declined(capped)
  BY <1>3 DEF Declined, NextPass
<1>5. ~Declined(FALSE)
  BY DEF Declined
<1>6. CASE StartCycle
  <2>1. \/ Reviews(1, FALSE, FALSE)
        \/ /\ State(Rv(markers)) # "complete"
           /\ Reviews(1, TRUE, State(Rv(markers)) # "started")
        \/ FinishAtBound
    BY <1>3, <1>6 DEF StartCycle
  <2>2. State(Rv(markers)) # "complete" => ~Judged(markers)
    BY DEF State, Judged
  <2>3. (State(Rv(markers)) # "started") \in BOOLEAN
    OBVIOUS
  <2>4. CASE Reviews(1, FALSE, FALSE)
    BY <1>1, <1>5, <2>4, ReviewsTrue
  <2>5. CASE State(Rv(markers)) # "complete" /\ Reviews(1, TRUE, State(Rv(markers)) # "started")
    BY <1>1, <2>2, <2>3, <2>5, ReviewsTrue
  <2>6. CASE FinishAtBound
    BY <1>1, <2>6, FinishTrue
  <2> QED BY <2>1, <2>4, <2>5, <2>6
<1>7. CASE AfterReview
  <2>1. \/ \E said \in {"failed", "unfinished", ReadReview} : Ends(said) /\ UNCHANGED <<job, markers>>
        \/ Resolves(driver.turn, FALSE)
        \/ FinishAtBound
    BY <1>7 DEF AfterReview
  <2>2. CASE \E said \in {"failed", "unfinished", ReadReview} : Ends(said) /\ UNCHANGED <<job, markers>>
    BY <1>1, <1>2, <2>2, EndsTrue
  <2>3. CASE Resolves(driver.turn, FALSE)
    BY <1>1, <2>3, ResolvesTrue
  <2>4. CASE FinishAtBound
    BY <1>1, <2>4, FinishTrue
  <2> QED BY <2>1, <2>2, <2>3, <2>4
<1>8. CASE AfterResolve
  <2>1. \/ \E said \in {"failed", "cap", ReadResolve} : Ends(said) /\ UNCHANGED <<job, markers>>
        \/ CurrentReviewPass < MaxPasses /\ Reviews(driver.turn + 1, FALSE, TRUE)
    <3>1. \/ \E said \in {"failed", "cap", ReadResolve} : Ends(said) /\ UNCHANGED <<job, markers>>
          \/ ~(CurrentReviewPass >= MaxPasses) /\ Reviews(driver.turn + 1, FALSE, TRUE)
      BY <1>8, Zenon DEF AfterResolve
    <3>2. ~(CurrentReviewPass >= MaxPasses) => CurrentReviewPass < MaxPasses
      BY <1>3
    <3> QED BY <3>1, <3>2
  <2>2. CASE \E said \in {"failed", "cap", ReadResolve} : Ends(said) /\ UNCHANGED <<job, markers>>
    BY <1>1, <1>2, <2>2, EndsTrue
  <2>3. CASE CurrentReviewPass < MaxPasses /\ Reviews(driver.turn + 1, FALSE, TRUE)
    <3>1. ~Declined(TRUE)
      BY <1>4, <2>3
    <3> QED BY <1>1, <2>3, <3>1, ReviewsTrue
  <2> QED BY <2>1, <2>2, <2>3
<1> QED BY <1>6, <1>7, <1>8

(* A step that keeps what it must. *)
LEMMA KeptIs ==
    ASSUME mode' = mode, Kept(markers', head', job', labels'),
           used'.faults = 0 => used.faults = 0 /\ ~lost',
           used.faults = 0 /\ driver'.said = "converged" => job'.step = "idle" /\ "converged" \in labels'
    PROVE  RecordedInv' /\ CalmInv'
<1>1. MaxPasses' = MaxPasses
  BY DEF MaxPasses
<1>2. RecordedInv'
  BY <1>1 DEF Kept, RecordedInv
<1>3. CalmInv'
  BY DEF Kept, CalmInv, Idle
<1> QED BY <1>2, <1>3

(* The driver has said its last word only when nothing runs. *)
LEMMA Silent ==
    ASSUME TruthInv, used.faults = 0, driver' = driver, driver'.said = "converged"
    PROVE  Idle /\ "converged" \in labels
BY DEF TruthInv, CalmInv

LEMMA TruthStep ==
    ASSUME TruthInv, events \subseteq Legs, [Next]_vars
    PROVE  TruthInv'
<1>1. LoopInv' /\ ModeInv'
  BY StepOK, ModeStep DEF TruthInv
<1>2. ModeInv /\ used \in [moves : Nat, faults : Nat, bare : Nat] /\ (used.faults = 0 => ~lost)
  BY DEF TruthInv, CalmInv, ModeInv
<1>3. CASE Push
  <2>1. /\ mode' = mode /\ used' = used /\ lost' = lost /\ driver' = driver /\ labels' = labels
        /\ ~Idle /\ Kept(markers', head', job', labels')
    BY <1>3, PushTrue DEF Push, Idle
  <2> QED BY <1>1, <1>2, <2>1, KeptIs, Silent DEF TruthInv
<1>4. CASE SettleReview \/ HaltReview \/ SettleResolve
  <2>1. /\ mode' = mode /\ used' = used /\ (lost' = lost \/ lost' = FALSE) /\ driver' = driver
        /\ labels' = labels /\ head' = head /\ ~Idle
    BY <1>4 DEF SettleReview, HaltReview, SettleResolve, Idle
  <2>2. Kept(markers', head', job', labels')
    BY <1>4, <2>1, SettleReviewTrue, HaltReviewTrue, SettleResolveTrue
  <2> QED BY <1>1, <1>2, <2>1, <2>2, KeptIs, Silent DEF TruthInv
<1>5. CASE ApplyLabels
  <2>1. /\ mode' = mode /\ used' = used /\ lost' = lost /\ driver' = driver
        /\ markers' = markers /\ head' = head /\ ~Idle
    BY <1>5 DEF ApplyLabels, Idle
  <2>2. Kept(markers', head', job', labels')
    BY <1>5, <2>1, ApplyLabelsTrue
  <2> QED BY <1>1, <1>2, <2>1, <2>2, KeptIs, Silent DEF TruthInv
<1>6. CASE Automation
  <2>1. mode # "local" /\ driver.said = "none"
    <3>1. mode = "local" => dog.step # "retry" /\ dog.step # "add"
      BY <1>2 DEF ModeInv, IdleDog
    <3>2. mode # "local"
      BY <1>2, <1>6, <3>1
         DEF Automation, Watchdog, RunWorkflow, Sweep, Retry, AddBack, GiveUp, ModeInv
    <3> QED BY <1>2, <3>2, OffDriverIs DEF ModeInv
  <2>2. mode' = mode /\ used' = used /\ lost' = lost /\ driver' = driver /\ head' = head
    BY <1>6 DEF Automation, Watchdog, RunWorkflow, Sweep, Retry, AddBack, GiveUp
  <2>3. Kept(markers', head', job', labels')
    <3>1. CASE RunWorkflow
      <4>1. PICK leg \in events : RunLeg(leg, TRUE)
        BY <3>1 DEF RunWorkflow
      <4>2. Idle /\ labels' = labels /\ leg \in Legs
        BY <3>1 DEF RunWorkflow
      <4> QED BY <2>1, <2>2, <4>1, <4>2, RunLegTrue
    <3>2. CASE Sweep \/ Retry \/ AddBack \/ GiveUp
      <4>1. markers' = markers /\ job' = job
        BY <3>2 DEF Sweep, Retry, AddBack, GiveUp
      <4>2. Fit(markers, labels, mode) => Fit(markers, labels', mode)
        <5>1. CASE Sweep
          BY <5>1 DEF Sweep
        <5>2. CASE Retry \/ AddBack \/ GiveUp
          BY <5>2, SweepFits
        <5> QED BY <3>2, <5>1, <5>2
      <4> QED BY <2>2, <4>1, <4>2 DEF Kept, TruthInv, RecordedInv, CalmInv, Idle
    <3> QED BY <1>6, <3>1, <3>2 DEF Automation, Watchdog
  <2> QED BY <1>1, <1>2, <2>1, <2>2, <2>3, KeptIs DEF TruthInv
<1>7. CASE StartCycle \/ AfterReview \/ AfterResolve
  <2>1. /\ UNCHANGED <<mode, lost, head, labels, events, dog>> /\ used'.faults = used.faults
    BY <1>2, <1>7, DriverMoves
  <2>2. Kept(markers', head', job', labels')
    BY <1>7, <2>1, DriverTrue
  <2>3. used.faults = 0 /\ driver'.said = "converged" => job'.step = "idle" /\ "converged" \in labels'
    BY <1>7, <2>1, DriverTrue DEF Honest
  <2> QED BY <1>1, <1>2, <2>1, <2>2, <2>3, KeptIs DEF TruthInv
<1>8. CASE RunByHand
  <2>1. PICK leg \in Legs : RunLeg(leg, FALSE)
    BY <1>8 DEF RunByHand
  <2>2. /\ UNCHANGED <<mode, lost, head, labels, events, dog>> /\ used'.faults = used.faults
        /\ driver'.said = "none" /\ Idle /\ ~Declined(FALSE)
    BY <1>2, <1>8, OffDriverIs, UsedSteps DEF RunByHand, Declined
  <2>3. Kept(markers', head', job', labels')
    BY <2>1, <2>2, RunLegTrue
  <2> QED BY <1>1, <1>2, <2>2, <2>3, KeptIs DEF TruthInv
<1>9. CASE SomebodyPushes
  <2>1. /\ mode' = mode /\ used'.faults = used.faults /\ lost' = lost /\ driver' = driver
        /\ labels' = labels /\ markers' = markers /\ job' = job
    BY <1>2, <1>9, UsedSteps DEF SomebodyPushes
  <2>2. Kept(markers', head', job', labels')
    BY <1>9, <2>1, SomebodyPushesTrue
  <2> QED BY <1>1, <1>2, <2>1, <2>2, KeptIs, Silent DEF TruthInv, Idle
<1>10. CASE ToggleStop \/ Restart
  <2>1. /\ mode' = mode /\ used'.faults = used.faults /\ lost' = lost /\ head' = head
        /\ driver' = [driver EXCEPT !.said = "none"] /\ markers' = markers /\ job' = job
    BY <1>2, <1>10, UsedSteps DEF ToggleStop, Restart
  <2>2. driver'.said = "none"
    BY <1>2, <2>1 DEF ModeInv
  <2>3. used.faults = 0 /\ Idle => Fit(markers, labels', mode)
    <3> SUFFICES ASSUME used.faults = 0, Idle PROVE Fit(markers, labels', mode)
      OBVIOUS
    <3>1. Fit(markers, labels, mode)
      BY DEF TruthInv, CalmInv
    <3>2. CASE ToggleStop
      <4>1. labels' \cap OutcomeLabels = labels \cap OutcomeLabels
        BY <3>2 DEF ToggleStop, OutcomeLabels
      <4> QED BY <3>1, <4>1, FitOutcome
    <3>3. CASE Restart
      BY <3>3, RestartFits
    <3> QED BY <1>10, <3>2, <3>3
  <2>4. Kept(markers', head', job', labels')
    BY <2>1, <2>3 DEF Kept, TruthInv, RecordedInv, CalmInv, Idle
  <2> QED BY <1>1, <1>2, <2>1, <2>2, <2>4, KeptIs DEF TruthInv
<1>11. CASE Trouble
  <2>1. mode' = mode /\ head' = head /\ used'.faults # 0
    BY <1>2, <1>11, UsedSteps
       DEF Trouble, ReportFatal, ReportFatalCut, Dies, DropEvent, LoseLedger, ApplyLabelsCut,
           RetryCut, AddBackCut, GiveUpCut, RestartCut
  <2>2. Recorded(markers', head, MaxPasses)
    <3>1. markers' = markers \/ Perishes
      BY <1>11
         DEF Perishes, Trouble, ReportFatal, ReportFatalCut, Dies, DropEvent, LoseLedger, ApplyLabelsCut,
             RetryCut, AddBackCut, GiveUpCut, RestartCut
    <3>2. CASE markers' = markers
      BY <3>2 DEF TruthInv, RecordedInv
    <3> QED BY <3>1, <3>2, FatalTrue
  <2>3. RecordedInv'
    BY <2>1, <2>2 DEF RecordedInv, MaxPasses
  <2>4. CalmInv'
    BY <2>1 DEF CalmInv
  <2> QED BY <1>1, <2>3, <2>4 DEF TruthInv
<1>12. CASE UNCHANGED vars
  <2>1. MaxPasses' = MaxPasses
    BY <1>12 DEF vars, MaxPasses
  <2>2. RecordedInv'
    BY <1>12, <2>1 DEF vars, TruthInv, RecordedInv
  <2>3. CalmInv'
    BY <1>12 DEF vars, TruthInv, CalmInv, Idle
  <2> QED BY <1>1, <2>2, <2>3 DEF TruthInv
<1> QED
  BY <1>3, <1>4, <1>5, <1>6, <1>7, <1>8, <1>9, <1>10, <1>11, <1>12
     DEF Next, Work, Driver, People

(***************************************************************************)
(* What the driver and restart promise.                                    *)
(***************************************************************************)
LEMMA TruthInit == Init => TruthInv
<1> SUFFICES ASSUME Init PROVE TruthInv
  OBVIOUS
<1>1. LoopInv /\ ModeInv
  BY LoopInit, ModeInit
<1>2. /\ markers = <<>> /\ DOMAIN markers = {} /\ job = IdleJob /\ labels = {} /\ ~lost
      /\ driver = OffDriver
  BY DEF Init
<1>3. Rv(markers) = 0 /\ Rs(markers) = 0 /\ RanIn(markers) \subseteq DOMAIN markers
  BY <1>1, <1>2, View, PassesAreCounted DEF LoopInv
<1>4. RecordedInv
  BY <1>2, <1>3 DEF RecordedInv, Recorded
<1>5. Calm(markers, head, job)
  BY <1>2, <1>3 DEF Calm
<1>6. job.step = "idle" /\ driver.said # "converged"
  BY <1>2, OffDriverIs DEF IdleJob
<1>7. Fit(markers, labels, mode)
  <2>1. ~Judged(markers)
    BY <1>3 DEF Judged
  <2> QED BY <1>2, <2>1 DEF Fit, Green, Owing, Answerable
<1>8. CalmInv
  BY <1>2, <1>5, <1>6, <1>7 DEF CalmInv
<1> QED BY <1>1, <1>4, <1>8 DEF TruthInv

LEMMA TruthHolds == Spec => []TruthInv
<1>1. Init => TruthInv /\ events \subseteq Legs
  BY TruthInit, EventsInit
<1>2. TruthInv /\ events \subseteq Legs /\ [Next]_vars => TruthInv' /\ (events \subseteq Legs)'
  BY TruthStep, EventsStep
<1> QED BY <1>1, <1>2, PTL DEF Spec

(* Whoever reads `converged' from the local driver reads it on the label   *)
(* too, if no leg died between its marker and its label (bound.go,         *)
(* readReview and readResolve).                                            *)
THEOREM CycleIsTruthful == Spec => []CycleTellsTheTruth
<1>1. TruthInv => CycleTellsTheTruth
  BY DEF TruthInv, CalmInv, CycleTellsTheTruth
<1> QED BY <1>1, TruthHolds, PTL

(* A review that is admitted already: the head has not moved, and the      *)
(* review of it is settled.                                                *)
LEMMA AlreadyIs ==
    ASSUME TruthInv, Admission = "already", CurrentReviewPass <= MaxPasses
    PROVE  /\ Judged(markers) /\ markers[Rv(markers)].head = head
           /\ \E j \in RanIn(markers) : markers[j].pass = PassesIn(markers) /\ markers[j].head = head
<1> DEFINE ms == markers
           n == PassesIn(ms)
           v == Rv(ms)
<1>1. /\ LoopInv /\ RecordedInv /\ ms \in Seq(MarkerRec) /\ Numbered(ms) /\ Recorded(ms, head, MaxPasses)
      /\ n \in Nat /\ MaxPasses \in Nat /\ CurrentReviewPass = n
  BY CapIsPositive, ReadersNow, PassesAreCounted DEF TruthInv, LoopInv, RecordedInv
<1>2. /\ v # 0 /\ ms[v].state # "started" /\ ~ReviewRedrivable(ms[v].state, ms[v].verdict)
      /\ \E j \in RanIn(ms) : ms[j].pass = n /\ ms[j].head = head
  BY <1>1, AdmissionIs
<1>3. v \in DOMAIN ms /\ ms[v].pass = n /\ ms[v].leg = "review"
      /\ ms[v].state \in {"started", "incomplete", "complete", "declined"}
  BY <1>1, <1>2, View DEF MarkerRec
<1> HIDE DEF v, n
<1>4. ms[v].state # "declined"
  BY <1>1, <1>3 DEF Recorded
<1>5. ms[v].state = "complete" /\ ms[v].verdict # "blocked"
  BY <1>2, <1>3, <1>4 DEF ReviewRedrivable
<1>6. v \in RanIn(ms)
  BY <1>3, <1>4 DEF RanIn
<1>7. ms[v].head = head
  BY <1>1, <1>2, <1>3, <1>6 DEF Numbered
<1> QED BY <1>2, <1>5, <1>7 DEF Judged, v, n

(* What an idle loop, calm and under its cap, owes when its last review is *)
(* of this head.                                                           *)
LEMMA AlreadyOwes ==
    ASSUME TruthInv, Idle, used.faults = 0, Admission = "already", CurrentReviewPass <= MaxPasses,
           Escalated = 0
    PROVE  \/ Green(markers)
           \/ Owing(markers)
<1> DEFINE ms == markers
           v == Rv(ms)
           r == Rs(ms)
<1>1. /\ LoopInv /\ RecordedInv /\ ms \in Seq(MarkerRec) /\ Numbered(ms) /\ Recorded(ms, head, MaxPasses)
      /\ Calm(ms, head, job) /\ job.step # "work" /\ head \in Nat
  BY DEF TruthInv, LoopInv, RecordedInv, CalmInv, Idle
<1>2. /\ Judged(ms) /\ ms[v].head = head /\ ~Noticed(ms)
  BY <1>1, AlreadyIs DEF Calm
<1>3. ~SomeEscalated(ms)
  BY <1>1, EscalatedIs
<1>4. r # 0 => ms[r].state = "complete" /\ ms[v].fixable /\ ~ms[r].res.pushed
  <2>1. r # 0 => r \in DOMAIN ms /\ ms[r].leg = "resolve"
    BY <1>1, View
  <2>2. r # 0 => ms[r].state = "complete"
    BY <1>1, <2>1 DEF LoopInv, Calm
  <2> QED BY <1>1, <1>2, <2>2 DEF Recorded, Calm
<1>5. r # 0 => Stands(ms) = ResolvePassLabel(ms[r].res, 0)
  BY <1>3, <1>4 DEF Stands
<1>6. r # 0 => \/ ResolveRedrivable(ms[r].res)
               \/ ResolvePassLabel(ms[r].res, 0) = "converged"
  BY <1>4 DEF ResolveRedrivable, ResolvePassLabel
<1>7. /\ Green(ms) <=> /\ Judged(ms)
                       /\ \/ ms[v].verdict = "converged"
                          \/ ~ms[v].fixable /\ ~SomeEscalated(ms)
                          \/ Stands(ms) = "converged"
      /\ Owing(ms) <=> /\ Judged(ms)
                       /\ r # 0 /\ ms[r].state = "complete" => ResolveRedrivable(ms[r].res)
                       /\ ms[v].fixable /\ ~SomeEscalated(ms) /\ ~Noticed(ms)
                       /\ r # 0 => ms[r].state = "complete"
  BY DEF Green, Owing, Answerable
<1> HIDE DEF v, r
<1> QED BY <1>2, <1>3, <1>4, <1>5, <1>6, <1>7

(* A restart is taken up: of a halted loop that nothing failed in, where   *)
(* no finding waits for a person, `crossrev restart' picks a leg that will *)
(* work (restart.go).                                                      *)
THEOREM RestartsAreAccepted == Spec => []RestartIsAccepted
<1>1. TruthInv => RestartIsAccepted
  <2> SUFFICES ASSUME TruthInv, Idle, Escalated = 0, used.faults = 0, CurrentReviewPass <= MaxPasses,
                      labels \cap OutcomeLabels = {"halted"}
               PROVE  Accepts(RestartLeg)
    BY DEF RestartIsAccepted
  <2>1. LoopInv /\ RecordedInv /\ Fit(markers, labels, mode) /\ markers \in Seq(MarkerRec)
        /\ Calm(markers, head, job)
    BY DEF TruthInv, LoopInv, CalmInv
  <2>2. /\ RestartLeg \in Legs
        /\ RestartLeg = "resolve" => Answerable(markers)
        /\ Owing(markers) => RestartLeg = "resolve"
    BY RestartLegIs
  <2>3. CASE RestartLeg = "resolve"
    BY <2>1, <2>2, <2>3, ResolveAdmissionIs DEF Accepts
  <2>4. CASE RestartLeg = "review"
    <3> SUFFICES ASSUME Admission = "already" PROVE FALSE
      BY <2>4 DEF Accepts
    <3>1. Green(markers)
      BY <2>2, <2>4, AlreadyOwes
    <3>2. "converged" \notin labels
      BY DEF OutcomeLabels
    <3>3. Noticed(markers)
      BY <2>1, <3>1, <3>2 DEF Fit
    <3>4. ~Noticed(markers)
      <4>1. \E j \in RanIn(markers) : markers[j].pass = PassesIn(markers) /\ markers[j].head = head
        BY AlreadyIs
      <4> QED BY <2>1, <4>1 DEF Calm, LoopInv
    <3> QED BY <3>3, <3>4
  <2> QED BY <2>2, <2>3, <2>4 DEF Legs
<1> QED BY <1>1, TruthHolds, PTL

(***************************************************************************)
(* Status: its readers, its rows, and the parts of its report.             *)
(***************************************************************************)
(* The markers behind a report, named once. *)
LEMMA StatusReads ==
    ASSUME LoopInv
    PROVE  LET ms == markers
               v == Rv(ms)
               r == Rs(ms)
           IN  /\ CurrentReview = v /\ CurrentResolve = r /\ CurrentReviewPass = PassesIn(ms)
               /\ State(v) = (IF v = 0 THEN "none" ELSE ms[v].state)
               /\ State(r) = (IF r = 0 THEN "none" ELSE ms[r].state)
               /\ Verdict(v) = (IF v = 0 \/ ms[v].verdict = "null" THEN "blocked" ELSE ms[v].verdict)
               /\ v # 0 => v \in DOMAIN ms /\ ms[v] \in MarkerRec /\ ms[v].leg = "review"
                           /\ ms[v].pass = PassesIn(ms)
               /\ r # 0 => r \in DOMAIN ms /\ ms[r] \in MarkerRec /\ ms[r].leg = "resolve"
                           /\ ms[r].pass = PassesIn(ms) /\ ms[r].state \in {"started", "complete"}
                           /\ Judged(ms)
               /\ CapHalted => Noticed(ms)
               /\ CapHalted <=> LET k == NewestOf(ms, PassesIn(ms) + 1, "review")
                                IN  k # 0 /\ ms[k].state = "declined"
               /\ ResolveLabel = (IF r # 0 /\ ms[r].state = "complete"
                                  THEN ResolvePassLabel(ms[r].res, Escalated) ELSE "none")
<1> DEFINE ms == markers
           v == Rv(ms)
           r == Rs(ms)
           n == PassesIn(ms)
           k == NewestOf(ms, n + 1, "review")
<1>1. ms \in Seq(MarkerRec) /\ Numbered(ms)
  BY DEF LoopInv
<1>2. /\ CurrentReview = v /\ CurrentResolve = r /\ CurrentReviewPass = n
  BY ReadersNow
<1>3. /\ v # 0 => v \in DOMAIN ms /\ ms[v] \in MarkerRec /\ ms[v].leg = "review" /\ ms[v].pass = n
      /\ r # 0 => r \in DOMAIN ms /\ ms[r] \in MarkerRec /\ ms[r].leg = "resolve" /\ ms[r].pass = n
  BY <1>1, View
<1>4. r # 0 => ms[r].state \in {"started", "complete"} /\ Judged(ms)
  BY <1>3, JudgedNow DEF LoopInv
<1>5. k # 0 => k \in DOMAIN ms /\ ms[k].pass = n + 1
  BY <1>1, NewestOfIs
<1>6. CapHalted <=> k # 0 /\ ms[k].state = "declined"
  BY <1>2, Readers DEF CapHalted, State
<1>7. CapHalted => Noticed(ms)
  BY <1>5, <1>6 DEF Noticed
<1>8. /\ State(v) = (IF v = 0 THEN "none" ELSE ms[v].state)
      /\ State(r) = (IF r = 0 THEN "none" ELSE ms[r].state)
      /\ Verdict(v) = (IF v = 0 \/ ms[v].verdict = "null" THEN "blocked" ELSE ms[v].verdict)
  BY DEF State, Verdict
<1>9. ResolveLabel = (IF r # 0 /\ ms[r].state = "complete"
                      THEN ResolvePassLabel(ms[r].res, Escalated) ELSE "none")
  BY <1>2, <1>8 DEF ResolveLabel
<1> HIDE DEF v, r, n, k
<1> QED BY <1>2, <1>3, <1>4, <1>6, <1>7, <1>8, <1>9 DEF v, r, n, k

(* The state word when no label speaks, off the same markers. *)
LEMMA StateWordIs ==
    ASSUME LoopInv, RecordedInv
    PROVE  LET ms == markers
               v == Rv(ms)
               r == Rs(ms)
               green == IF ms[v].head = head THEN "converged" ELSE "awaiting-review"
               done == r # 0 /\ ms[r].state = "complete"
           IN  StateFromMarkers =
                 IF v = 0 THEN "awaiting-review"
                 ELSE IF CapHalted THEN "halted"
                 ELSE IF ms[v].state # "complete" THEN "awaiting-review"
                 ELSE IF ms[v].verdict = "converged" THEN green
                 ELSE IF ms[v].verdict = "blocked" THEN "halted"
                 ELSE IF ~done
                 THEN IF ~ms[v].fixable /\ Escalated > 0 THEN "halted" ELSE "awaiting-resolution"
                 ELSE IF ResolveLabel = "halted" THEN "halted"
                 ELSE IF ResolveLabel = "converged" THEN green ELSE "awaiting-review"
<1> DEFINE ms == markers
           v == Rv(ms)
           r == Rs(ms)
           green == IF ms[v].head = head THEN "converged" ELSE "awaiting-review"
<1>1. /\ CurrentReview = v /\ CurrentResolve = r /\ CurrentReviewPass = PassesIn(ms)
      /\ State(v) = (IF v = 0 THEN "none" ELSE ms[v].state)
      /\ State(r) = (IF r = 0 THEN "none" ELSE ms[r].state)
  BY StatusReads
<1>2. v = 0 <=> PassesIn(ms) = 0
  BY NewestRanIs, View DEF LoopInv
<1>3. ReviewConverges <=> v # 0 /\ ms[v].state = "complete" /\ ms[v].head = head
  BY <1>1 DEF ReviewConverges
<1>4. StateFromMarkers =
        IF CurrentReviewPass = 0 THEN "awaiting-review"
        ELSE IF CapHalted THEN "halted"
        ELSE IF State(v) # "complete" THEN "awaiting-review"
        ELSE IF ms[v].verdict = "converged" THEN IF ReviewConverges THEN "converged" ELSE "awaiting-review"
        ELSE IF ms[v].verdict = "blocked" THEN "halted"
        ELSE IF State(r) # "complete"
        THEN IF ~ms[v].fixable /\ Escalated > 0 THEN "halted"
             ELSE "awaiting-resolution"
        ELSE IF ResolveLabel = "halted" THEN "halted"
        ELSE IF ResolveLabel = "converged" THEN IF ReviewConverges THEN "converged" ELSE "awaiting-review"
        ELSE "awaiting-review"
  BY <1>1 DEF StateFromMarkers
<1> HIDE DEF v, r
<1>5. State(v) = "complete" <=> v # 0 /\ ms[v].state = "complete"
  BY <1>1
<1>6. State(r) = "complete" <=> r # 0 /\ ms[r].state = "complete"
  BY <1>1
<1> QED BY <1>1, <1>2, <1>3, <1>4, <1>5, <1>6 DEF v, r

StateWords == {"stopped", "halted", "converged", "awaiting-resolution", "awaiting-review"}

LEMMA StatusStateIs ==
    /\ StateFromMarkers \in StateWords \ {"stopped"} /\ StatusState \in StateWords
    /\ StatusState = "stopped" <=> "stop" \in labels
    /\ StatusState = "halted" => "halted" \in labels \/ StateFromMarkers = "halted"
    /\ StatusState = "converged" => MarkersConverge \/ StateFromMarkers = "converged"
    /\ StatusState = "awaiting-resolution" =>
         "awaiting-resolution" \in labels \/ StateFromMarkers = "awaiting-resolution"
    /\ StatusState = "awaiting-review" =>
         /\ "halted" \notin labels
         /\ "converged" \in labels => ~MarkersConverge
         /\ "converged" \in labels \/ "awaiting-resolution" \in labels => StateFromMarkers = "awaiting-review"
    /\ \A open : NextCommand(open) \in {"review", "resolve", "none"}
<1>1. StateFromMarkers \in StateWords \ {"stopped"}
  BY DEF StateFromMarkers, StateWords
<1>2. StatusState \in StateWords
  BY <1>1 DEF StatusState, StateWords
<1>3. \A open : NextHalted(open) \in {"review", "resolve"}
  BY DEF NextHalted
<1>4. \A open : NextCommand(open) \in {"review", "resolve", "none"}
  BY <1>2, <1>3 DEF NextCommand, StateWords
<1> QED BY <1>1, <1>2, <1>4 DEF StatusState, StateWords

(* Every marker has a row. *)
LEMMA RowsAre ==
    ASSUME TruthInv, NEW life, NEW aged, NEW open, NEW j \in DOMAIN markers
    PROVE  LET p == markers[j].pass
           IN  /\ p \in DOMAIN Report(life, aged, open).rows
               /\ \A leg \in Legs : Report(life, aged, open).rows[p][leg] = LegRow(p, leg, life, aged)
<1> DEFINE ms == markers
           n == PassesIn(ms)
           P == {ms[i].pass : i \in DOMAIN ms}
           top == Max({0} \cup P)
<1>1. /\ ms \in Seq(MarkerRec) /\ Numbered(ms) /\ Recorded(ms, head, MaxPasses) /\ n \in Nat
      /\ \A i \in DOMAIN ms : ms[i].pass \in Nat /\ ms[i].leg \in {"review", "resolve"}
  BY PassesAreCounted DEF TruthInv, LoopInv, RecordedInv, MarkerRec, Legs
<1>2. \A i \in DOMAIN ms : ms[i].pass \in 1..(n + 1)
  <2> SUFFICES ASSUME NEW i \in DOMAIN ms PROVE ms[i].pass \in 1..(n + 1)
    OBVIOUS
  <2>1. ms[i].pass # 0
    BY <1>1 DEF Recorded
  <2>2. ms[i].pass <= n + 1
    <3>1. CASE ms[i].leg = "resolve"
      BY <1>1, <3>1 DEF Numbered
    <3>2. CASE ms[i].leg = "review" /\ ms[i].state = "declined"
      BY <1>1, <3>2 DEF Recorded
    <3>3. CASE ms[i].leg = "review" /\ ms[i].state # "declined"
      <4>1. ms[i].pass \in 1..n
        BY <1>1, <3>3 DEF Numbered, RanIn
      <4> QED BY <1>1, <4>1
    <3> QED BY <1>1, <3>1, <3>2, <3>3
  <2> QED BY <1>1, <2>1, <2>2
<1> HIDE DEF n
<1>3. IsFiniteSet(P) /\ P \in SUBSET (Nat \ {0})
  <2>1. P \subseteq 1..(n + 1)
    BY <1>2
  <2> HIDE DEF P
  <2>2. IsFiniteSet(1..(n + 1))
    BY <1>1, FS_Interval
  <2>3. IsFiniteSet(P)
    BY <2>1, <2>2, FS_Subset
  <2>4. 1..(n + 1) \subseteq Nat \ {0}
    BY <1>1
  <2> QED BY <2>1, <2>3, <2>4
<1>4. ms[j].pass \in P
  OBVIOUS
<1> HIDE DEF P
<1>5. top \in Nat /\ ms[j].pass <= top
  BY <1>3, <1>4, NewestOrZero
<1>6. ms[j].pass \in 1..top
  <2>1. ms[j].pass \in Nat \ {0}
    BY <1>3, <1>4
  <2> HIDE DEF top
  <2> QED BY <1>5, <2>1
<1>7. Report(life, aged, open).rows = [p \in 1..top |-> [leg \in Legs |-> LegRow(p, leg, life, aged)]]
  BY DEF Report, P
<1> HIDE DEF top
<1> QED BY <1>6, <1>7

(* The row of a pass and a leg shows its newest marker. *)
LEMMA RowIs ==
    ASSUME NEW pass, NEW leg, NEW life, NEW aged
    PROVE  LET i == NewestOf(markers, pass, leg)
               m == markers[i]
               blocked == IF m.leg = "review" THEN m.verdict = "blocked" ELSE m.res.blocked
           IN  /\ i = 0 => LegRow(pass, leg, life, aged).step = "idle"
               /\ i # 0 /\ m.state = "declined" => LegRow(pass, leg, life, aged).step = "no"
               /\ i # 0 /\ m.state = "complete" =>
                    LegRow(pass, leg, life, aged).step = (IF blocked \/ LegEscalated(m) THEN "no" ELSE "ok")
               /\ i # 0 /\ m.state \notin {"declined", "complete"} =>
                    LegRow(pass, leg, life, aged) = LegClaimed(m, life, aged)
<1> DEFINE i == NewestOf(markers, pass, leg)
           m == markers[i]
<1>1. MarkerFor(pass, leg) = i
  BY Readers
<1>2. LegRow(pass, leg, life, aged) =
        CASE i = 0 -> Row("idle", LegAbsent(pass, leg))
          [] State(i) = "declined" -> Row("no", "never started")
          [] State(i) = "complete" -> LegComplete(m)
          [] OTHER -> LegClaimed(m, life, aged)
  BY <1>1 DEF LegRow
<1>3. State(i) = IF i = 0 THEN "none" ELSE m.state
  BY DEF State
<1>4. /\ \A says : Row("idle", says).step = "idle" /\ Row("no", says).step = "no" /\ Row("ok", says).step = "ok"
  BY DEF Row
<1>5. LegComplete(m).step = (IF (IF m.leg = "review" THEN m.verdict = "blocked" ELSE m.res.blocked)
                                \/ LegEscalated(m) THEN "no" ELSE "ok")
  BY <1>4 DEF LegComplete
<1> HIDE DEF i, m
<1>6. i = 0 => LegRow(pass, leg, life, aged).step = "idle"
  BY <1>2, <1>3, <1>4
<1>7. i # 0 /\ m.state = "declined" => LegRow(pass, leg, life, aged).step = "no"
  BY <1>2, <1>3, <1>4
<1>8. i # 0 /\ m.state = "complete" => LegRow(pass, leg, life, aged) = LegComplete(m)
  BY <1>2, <1>3
<1>9. i # 0 /\ m.state \notin {"declined", "complete"} => LegRow(pass, leg, life, aged) = LegClaimed(m, life, aged)
  BY <1>2, <1>3
<1> QED BY <1>5, <1>6, <1>7, <1>8, <1>9 DEF i, m

(* What is shown is red on a row, or has no row of its own. *)
LEMMA ShownIsRed ==
    ASSUME TruthInv, NEW life, NEW aged, NEW open, Shown(markers)
    PROVE  LET r == Report(life, aged, open)
           IN  \/ \E p \in DOMAIN r.rows, leg \in Legs : r.rows[p][leg].step = "no"
               \/ \E i \in DOMAIN markers :
                     UnfiledDeferrals(markers[i].res) # {} \/ markers[i].state = "incomplete"
<1>1. CASE \E i \in DOMAIN markers : UnfiledDeferrals(markers[i].res) # {} \/ markers[i].state = "incomplete"
  BY <1>1
<1>2. CASE \E j \in DOMAIN markers : j = NewestOf(markers, markers[j].pass, markers[j].leg) /\ Red(markers[j])
  <2>1. PICK j \in DOMAIN markers : j = NewestOf(markers, markers[j].pass, markers[j].leg) /\ Red(markers[j])
    BY <1>2
  <2> DEFINE m == markers[j]
             s == LegRow(m.pass, m.leg, life, aged).step
  <2>2. /\ m.leg \in Legs /\ m.leg \in {"review", "resolve"} /\ Shaped(m) /\ j # 0
    BY PassesAreCounted DEF TruthInv, LoopInv, RecordedInv, Recorded, MarkerRec, Legs
  <2>3. /\ m.state = "declined" => s = "no"
        /\ m.state = "complete" =>
             s = (IF (IF m.leg = "review" THEN m.verdict = "blocked" ELSE m.res.blocked)
                     \/ LegEscalated(m) THEN "no" ELSE "ok")
    BY <2>1, <2>2, RowIs
  <2>4. m.pass \in DOMAIN Report(life, aged, open).rows
        /\ Report(life, aged, open).rows[m.pass][m.leg] = LegRow(m.pass, m.leg, life, aged)
    BY <2>2, RowsAre
  <2> HIDE DEF m, s
  <2>5. \/ m.state = "declined"
        \/ m.state = "complete" /\ m.verdict = "blocked" /\ m.leg = "review"
        \/ m.state = "complete" /\ Has(m.res, "escalated") /\ m.leg = "resolve"
    <3>1. Red(m)
      BY <2>1 DEF m
    <3>2. Has(m.res, "escalated") => m.leg = "resolve"
      BY <2>2, CleanIs DEF Shaped
    <3>3. m.verdict = "blocked" => m.leg = "review"
      BY <2>2 DEF Shaped
    <3> QED BY <3>1, <3>2, <3>3 DEF Red
  <2>6. s = "no"
    BY <2>3, <2>5 DEF LegEscalated
  <2> QED BY <2>2, <2>4, <2>6 DEF s
<1> QED BY <1>1, <1>2 DEF Shown

(* When NEXT names a leg. *)
LEMMA NextCommandIs ==
    ASSUME NEW open
    PROVE  /\ NextCommand(open) = "resolve" /\ StatusState \notin {"stopped", "halted"} =>
                StatusState = "awaiting-resolution"
           /\ NextCommand(open) = "review" /\ StatusState \notin {"stopped", "halted"} =>
                \/ StatusState = "converged" /\ NewRevision
                \/ StatusState = "awaiting-review" /\ (ResolveLabel = "converged" => NewRevision)
<1>1. StatusState \in StateWords
  BY StatusStateIs
<1> QED BY <1>1 DEF NextCommand, StateWords

(* The command is taken up. *)
LEMMA NextWorksTrue ==
    ASSUME TruthInv, NEW open
    PROVE  NextWorks(open)
<1> DEFINE ms == markers
           v == Rv(ms)
           r == Rs(ms)
<1> SUFFICES ASSUME Undisturbed, Escalated = 0, CurrentReviewPass <= MaxPasses,
                    StatusState \notin {"stopped", "halted"}, NextCommand(open) # "none"
             PROVE  Accepts(NextCommand(open))
  BY DEF NextWorks
<1>1. /\ LoopInv /\ RecordedInv /\ Calm(ms, head, job) /\ Fit(ms, labels, mode)
      /\ mode = "local" /\ Idle /\ used.faults = 0 /\ head \in Nat
  BY DEF TruthInv, CalmInv, LoopInv, Undisturbed
<1>2. CASE NextCommand(open) = "resolve"
  <2>1. StatusState = "awaiting-resolution"
    BY <1>2, NextCommandIs
  <2>2. CASE "awaiting-resolution" \in labels
    <3>1. Answerable(ms)
      BY <1>1, <2>2 DEF Fit
    <3> QED BY <1>1, <1>2, <3>1, ResolveAdmissionIs DEF Accepts
  <2>3. CASE StateFromMarkers = "awaiting-resolution"
    <3>1. /\ v # 0 /\ ms[v].state = "complete" /\ ms[v].verdict # "blocked"
          /\ ~(r # 0 /\ ms[r].state = "complete")
      BY <1>1, <2>3, StateWordIs
    <3>2. Answerable(ms)
      BY <3>1 DEF Answerable, Judged
    <3> QED BY <1>1, <1>2, <3>2, ResolveAdmissionIs DEF Accepts
  <2> QED BY <2>1, <2>2, <2>3, StatusStateIs
<1>3. CASE NextCommand(open) = "review"
  <2> SUFFICES ASSUME Admission = "already" PROVE FALSE
    BY <1>3 DEF Accepts
  <2>1. /\ Judged(ms) /\ ms[v].head = head
        /\ \E j \in RanIn(ms) : ms[j].pass = PassesIn(ms) /\ ms[j].head = head
    BY AlreadyIs
  <2>2. ~NewRevision
    <3>1. v \in RanIn(ms) /\ Max(Ran) = v
      BY <1>1, <2>1, NewestRanIs DEF Judged
    <3>2. Ran = RanIn(ms)
      BY Readers
    <3> HIDE DEF v
    <3> QED BY <2>1, <3>1, <3>2 DEF NewRevision
  <2>3. StatusState = "awaiting-review" /\ ResolveLabel # "converged"
    BY <1>3, <2>2, NextCommandIs
  <2>4. ~Noticed(ms)
    BY <1>1, <2>1 DEF Calm
  <2>5. ~CapHalted
    BY <1>1, <2>4, StatusReads
  <2>6. r # 0 => ~ms[r].res.pushed
    <3> HIDE DEF v
    <3>1. r # 0 /\ ms[r].res.pushed => ms[v].head < head
      BY <1>1 DEF Calm, v
    <3> QED BY <1>1, <2>1, <3>1
  <2>7. r # 0 /\ ms[r].state = "complete" => ResolveLabel \in {"halted", "converged"}
    <3>1. r # 0 /\ ms[r].state = "complete" => ResolveLabel = ResolvePassLabel(ms[r].res, Escalated)
      BY <1>1, StatusReads
    <3> HIDE DEF r
    <3> QED BY <2>6, <3>1 DEF ResolvePassLabel
  <2>8. StateFromMarkers # "awaiting-review"
    <3>1. v # 0 /\ ms[v].state = "complete" /\ ms[v].verdict # "blocked"
      BY <2>1 DEF Judged
    <3>2. StateFromMarkers =
            IF v = 0 THEN "awaiting-review"
            ELSE IF CapHalted THEN "halted"
            ELSE IF ms[v].state # "complete" THEN "awaiting-review"
            ELSE IF ms[v].verdict = "converged"
            THEN IF ms[v].head = head THEN "converged" ELSE "awaiting-review"
            ELSE IF ms[v].verdict = "blocked" THEN "halted"
            ELSE IF ~(r # 0 /\ ms[r].state = "complete")
            THEN IF ~ms[v].fixable /\ Escalated > 0 THEN "halted" ELSE "awaiting-resolution"
            ELSE IF ResolveLabel = "halted" THEN "halted"
            ELSE IF ResolveLabel = "converged"
            THEN IF ms[v].head = head THEN "converged" ELSE "awaiting-review" ELSE "awaiting-review"
      BY <1>1, StateWordIs
    <3> HIDE DEF v, r
    <3> QED BY <2>1, <2>3, <2>5, <2>7, <3>1, <3>2
  <2>9. "halted" \notin labels /\ "converged" \notin labels /\ "awaiting-resolution" \notin labels
    BY <2>3, <2>8, StatusStateIs
  <2>10. CASE Green(ms)
    BY <1>1, <2>9, <2>10 DEF Fit
  <2>11. CASE Owing(ms)
    BY <1>1, <2>9, <2>11 DEF Fit
  <2> QED BY <1>1, <2>10, <2>11, AlreadyOwes
<1> QED BY <1>2, <1>3, StatusStateIs

(* The rows of the current pass. *)
LEMMA CurrentRows ==
    ASSUME TruthInv, NEW life, NEW aged, NEW open, Rv(markers) # 0, NEW leg \in Legs
    PROVE  Report(life, aged, open).rows[PassesIn(markers)][leg] = LegRow(PassesIn(markers), leg, life, aged)
<1> DEFINE v == Rv(markers)
<1>1. v \in DOMAIN markers /\ markers[v].pass = PassesIn(markers)
  BY View DEF TruthInv, LoopInv
<1> HIDE DEF v
<1> QED BY <1>1, RowsAre

(* Under a green header the review is settled, and so is its resolution. *)
LEMMA GreenIsSettled ==
    ASSUME LoopInv, RecordedInv, StatusState = "converged"
    PROVE  LET ms == markers
               v == Rv(ms)
               r == Rs(ms)
           IN  /\ v # 0 /\ ms[v].state = "complete" /\ ms[v].verdict # "blocked"
               /\ r # 0 => ms[r].state = "complete" /\ ~ms[r].res.blocked /\ ~Has(ms[r].res, "escalated")
<1> DEFINE ms == markers
           v == Rv(ms)
           r == Rs(ms)
<1>1. /\ CurrentReview = v /\ CurrentResolve = r
      /\ State(v) = (IF v = 0 THEN "none" ELSE ms[v].state)
      /\ State(r) = (IF r = 0 THEN "none" ELSE ms[r].state)
      /\ Verdict(v) = (IF v = 0 \/ ms[v].verdict = "null" THEN "blocked" ELSE ms[v].verdict)
  BY StatusReads
<1>2. r # 0 /\ ms[r].state = "complete" => ResolveLabel = ResolvePassLabel(ms[r].res, Escalated)
  BY StatusReads
<1>3. v # 0 => v \in DOMAIN ms
  BY StatusReads
<1>4. v # 0 => (r # 0 => ms[v].verdict = "issues-remain")
  <2>1. v # 0 => Shaped(ms[v])
    BY <1>3 DEF RecordedInv, Recorded
  <2>2. r # 0 => ms[v].fixable
    BY DEF RecordedInv, Recorded
  <2> QED BY <2>1, <2>2 DEF Shaped
<1>5. CASE MarkersConverge
  <2>1. v # 0 /\ Verdict(v) = "converged" /\ State(v) = "complete"
    BY <1>1, <1>5 DEF MarkersConverge, ReviewConverges
  <2> HIDE DEF v, r
  <2>2. v # 0 /\ ms[v].state = "complete" /\ ms[v].verdict = "converged"
    BY <1>1, <2>1
  <2> QED BY <1>4, <2>2 DEF v, r
<1>6. CASE StateFromMarkers = "converged"
  <2>1. StateFromMarkers =
            IF v = 0 THEN "awaiting-review"
            ELSE IF CapHalted THEN "halted"
            ELSE IF ms[v].state # "complete" THEN "awaiting-review"
            ELSE IF ms[v].verdict = "converged"
            THEN IF ms[v].head = head THEN "converged" ELSE "awaiting-review"
            ELSE IF ms[v].verdict = "blocked" THEN "halted"
            ELSE IF ~(r # 0 /\ ms[r].state = "complete")
            THEN IF ~ms[v].fixable /\ Escalated > 0 THEN "halted" ELSE "awaiting-resolution"
            ELSE IF ResolveLabel = "halted" THEN "halted"
            ELSE IF ResolveLabel = "converged"
            THEN IF ms[v].head = head THEN "converged" ELSE "awaiting-review" ELSE "awaiting-review"
    BY StateWordIs
  <2> HIDE DEF v, r
  <2>2. /\ v # 0 /\ ms[v].state = "complete" /\ ms[v].verdict # "blocked"
        /\ r # 0 => ms[r].state = "complete" /\ ResolveLabel = "converged"
    BY <1>4, <1>6, <2>1
  <2>3. r # 0 => ~ms[r].res.blocked /\ ~Has(ms[r].res, "escalated")
    BY <1>2, <2>2 DEF ResolvePassLabel
  <2> QED BY <2>2, <2>3 DEF v, r
<1> QED BY <1>5, <1>6, StatusStateIs

LEMMA GreenRows ==
    ASSUME TruthInv, NEW life, NEW aged, NEW open
    PROVE  GreenIsEarned(Report(life, aged, open))
<1> DEFINE ms == markers
           n == PassesIn(ms)
           v == Rv(ms)
           r == Rs(ms)
           re == Report(life, aged, open)
<1>1. re.state = StatusState /\ re.pass = n
  BY StatusReads DEF Report, TruthInv
<1> SUFFICES ASSUME StatusState = "converged"
             PROVE  /\ re.rows[n]["review"].step = "ok"
                    /\ re.rows[n]["resolve"].step \in {"ok", "idle"}
  BY <1>1 DEF GreenIsEarned
<1>2. /\ v # 0 /\ ms[v].state = "complete" /\ ms[v].verdict # "blocked"
      /\ r # 0 => ms[r].state = "complete" /\ ~ms[r].res.blocked /\ ~Has(ms[r].res, "escalated")
  BY GreenIsSettled DEF TruthInv
<1>3. (v # 0 => ms[v].leg = "review") /\ (r # 0 => ms[r].leg = "resolve")
  BY StatusReads DEF TruthInv
<1>4. /\ re.rows[n]["review"] = LegRow(n, "review", life, aged)
      /\ re.rows[n]["resolve"] = LegRow(n, "resolve", life, aged)
  BY <1>2, CurrentRows DEF Legs
<1>5. v = NewestOf(ms, n, "review") /\ r = NewestOf(ms, n, "resolve")
  BY DEF Rv, Rs
<1>6. LegRow(n, "review", life, aged).step = "ok"
  <2>1. v # 0 /\ ms[v].state = "complete" =>
          LegRow(n, "review", life, aged).step =
            (IF (IF ms[v].leg = "review" THEN ms[v].verdict = "blocked" ELSE ms[v].res.blocked)
                \/ LegEscalated(ms[v]) THEN "no" ELSE "ok")
    BY <1>5, RowIs
  <2> HIDE DEF v, r
  <2>2. ~LegEscalated(ms[v])
    BY <1>2, <1>3 DEF LegEscalated
  <2> QED BY <1>2, <1>3, <2>1, <2>2
<1>7. LegRow(n, "resolve", life, aged).step \in {"ok", "idle"}
  <2>1. /\ r = 0 => LegRow(n, "resolve", life, aged).step = "idle"
        /\ r # 0 /\ ms[r].state = "complete" =>
             LegRow(n, "resolve", life, aged).step =
               (IF (IF ms[r].leg = "review" THEN ms[r].verdict = "blocked" ELSE ms[r].res.blocked)
                   \/ LegEscalated(ms[r]) THEN "no" ELSE "ok")
    BY <1>5, RowIs
  <2> HIDE DEF v, r
  <2>2. r # 0 => ~LegEscalated(ms[r])
    BY <1>2 DEF LegEscalated
  <2> QED BY <1>2, <1>3, <2>1, <2>2
<1> QED BY <1>4, <1>6, <1>7

(* A halt nobody disturbed has its reason in the markers. *)
LEMMA HaltHasReason ==
    ASSUME TruthInv, Undisturbed, StatusState = "halted"
    PROVE  Shown(markers)
<1> DEFINE ms == markers
           n == PassesIn(ms)
           v == Rv(ms)
           r == Rs(ms)
           k == NewestOf(ms, n + 1, "review")
<1>1. /\ LoopInv /\ RecordedInv /\ Calm(ms, head, job) /\ Fit(ms, labels, mode)
      /\ mode = "local" /\ ms \in Seq(MarkerRec) /\ n \in Nat /\ Recorded(ms, head, MaxPasses)
      /\ \A i \in DOMAIN ms : ms[i].leg = "resolve" => ms[i].state \in {"started", "complete"}
  BY PassesAreCounted DEF TruthInv, CalmInv, LoopInv, RecordedInv, Undisturbed
<1>2. Escalated > 0 => Shown(ms)
  BY <1>1, EscalatedIs, EscalatedShows
<1>3. CASE "halted" \in labels
  BY <1>1, <1>3 DEF Fit
<1>4. CASE StateFromMarkers = "halted"
  <2>1. StateFromMarkers =
            IF v = 0 THEN "awaiting-review"
            ELSE IF CapHalted THEN "halted"
            ELSE IF ms[v].state # "complete" THEN "awaiting-review"
            ELSE IF ms[v].verdict = "converged"
            THEN IF ms[v].head = head THEN "converged" ELSE "awaiting-review"
            ELSE IF ms[v].verdict = "blocked" THEN "halted"
            ELSE IF ~(r # 0 /\ ms[r].state = "complete")
            THEN IF ~ms[v].fixable /\ Escalated > 0 THEN "halted" ELSE "awaiting-resolution"
            ELSE IF ResolveLabel = "halted" THEN "halted"
            ELSE IF ResolveLabel = "converged"
            THEN IF ms[v].head = head THEN "converged" ELSE "awaiting-review" ELSE "awaiting-review"
    BY <1>1, StateWordIs
  <2>2. CapHalted => Shown(ms)
    <3>1. /\ k # 0 => k \in DOMAIN ms /\ ms[k].leg = "review" /\ ms[k].pass = n + 1
          /\ CapHalted => k # 0 /\ ms[k].state = "declined"
      BY <1>1, NewestOfIs, StatusReads
    <3>2. k # 0 => k = NewestOf(ms, ms[k].pass, ms[k].leg)
      BY <3>1
    <3> HIDE DEF k
    <3> QED BY <3>1, <3>2 DEF Shown, Red
  <2>3. v # 0 /\ ms[v].state = "complete" /\ ms[v].verdict = "blocked" => Shown(ms)
    <3>1. v # 0 => v \in DOMAIN ms /\ ms[v].leg = "review" /\ ms[v].pass = n
      BY <1>1, StatusReads
    <3>2. v # 0 => v = NewestOf(ms, ms[v].pass, ms[v].leg)
      BY <3>1 DEF Rv
    <3> HIDE DEF v
    <3> QED BY <3>1, <3>2 DEF Shown, Red
  <2>4. r # 0 /\ ms[r].state = "complete" /\ ResolveLabel = "halted" => Shown(ms)
    <3>1. /\ r # 0 => r \in DOMAIN ms /\ ms[r].leg = "resolve" /\ ms[r].pass = n
          /\ r # 0 /\ ms[r].state = "complete" => ResolveLabel = ResolvePassLabel(ms[r].res, Escalated)
      BY <1>1, StatusReads
    <3> HIDE DEF r
    <3> SUFFICES ASSUME r # 0, ms[r].state = "complete", ResolveLabel = "halted" PROVE Shown(ms)
      OBVIOUS
    <3>2. ms[r].res \in Results(TRUE) \cup Results(FALSE)
      BY <1>1, <3>1 DEF Calm
    <3>3. ~ms[r].res.blocked /\ ~ResolveUnpushedFix(ms[r].res) /\ ~ResolveUnrecorded(ms[r].res)
      BY <3>2, ResultIs DEF ResolveUnpushedFix, ResolveUnrecorded
    <3>4. \/ Has(ms[r].res, "escalated")
          \/ Escalated > 0
          \/ UnfiledDeferrals(ms[r].res) # {}
      BY <3>1, <3>3 DEF ResolvePassLabel
    <3>5. Has(ms[r].res, "escalated") => Shown(ms)
      <4>1. Has(ms[r].res, "escalated") => SomeEscalated(ms)
        BY <3>1 DEF SomeEscalated
      <4> QED BY <1>1, <4>1, EscalatedShows
    <3>6. UnfiledDeferrals(ms[r].res) # {} => Shown(ms)
      BY <3>1 DEF Shown
    <3> QED BY <1>2, <3>4, <3>5, <3>6
  <2> HIDE DEF v, r
  <2> QED BY <1>2, <1>4, <2>1, <2>2, <2>3, <2>4
<1> QED BY <1>3, <1>4, StatusStateIs

LEMMA HaltsAreShown ==
    ASSUME TruthInv, NEW life, NEW aged, NEW open
    PROVE  HaltIsShown(Report(life, aged, open))
<1>1. Report(life, aged, open).state = StatusState
  BY DEF Report
<1>2. Undisturbed /\ StatusState = "halted" => Shown(markers)
  BY HaltHasReason
<1> QED BY <1>1, <1>2, ShownIsRed DEF HaltIsShown

(* A leg at work, as a row shows it. *)
LEMMA RunningRowIs ==
    ASSUME LoopInv, NEW pass, NEW leg, NEW life, NEW aged, LegRow(pass, leg, life, aged).step = "run"
    PROVE  /\ life = "running" /\ NewestOf(markers, pass, leg) # 0
           /\ markers[NewestOf(markers, pass, leg)].state \in {"started", "incomplete"}
<1> DEFINE i == NewestOf(markers, pass, leg)
           m == markers[i]
<1>1. i # 0 => m.state \in {"started", "incomplete", "complete", "declined"}
  <2>1. i # 0 => i \in DOMAIN markers
    BY NewestOfIs DEF LoopInv
  <2> HIDE DEF i
  <2> QED BY <2>1, PassesAreCounted DEF LoopInv, MarkerRec
<1>2. /\ i = 0 => LegRow(pass, leg, life, aged).step = "idle"
      /\ i # 0 /\ m.state = "declined" => LegRow(pass, leg, life, aged).step = "no"
      /\ i # 0 /\ m.state = "complete" => LegRow(pass, leg, life, aged).step \in {"no", "ok"}
      /\ i # 0 /\ m.state \notin {"declined", "complete"} =>
           LegRow(pass, leg, life, aged) = LegClaimed(m, life, aged)
  BY RowIs
<1> HIDE DEF i
<1>3. i # 0 /\ m.state \in {"started", "incomplete"} /\ LegClaimed(m, life, aged).step = "run"
  BY <1>1, <1>2
<1>4. life = "running"
  BY <1>3 DEF LegClaimed, Row
<1> QED BY <1>3, <1>4 DEF i

(* NEXT says of the leg it names that it is at work. *)
LEMMA RunsAreSaid ==
    ASSUME TruthInv, NEW life, NEW aged, NEW open
    PROVE  RunIsSaid(Report(life, aged, open))
<1> DEFINE ms == markers
           n == PassesIn(ms)
           v == Rv(ms)
           r == Rs(ms)
           re == Report(life, aged, open)
<1>1. /\ re.state = StatusState /\ re.pass = n /\ re.next = NextCommand(open)
      /\ re.running = NextRunning(life, open)
  BY StatusReads DEF Report, TruthInv
<1>2. LoopInv /\ n \in Nat /\ (n # 0 => v # 0)
  BY View DEF TruthInv, LoopInv
<1>3. /\ CurrentReview = v /\ CurrentResolve = r
      /\ State(v) = (IF v = 0 THEN "none" ELSE ms[v].state)
      /\ State(r) = (IF r = 0 THEN "none" ELSE ms[r].state)
      /\ v = NewestOf(ms, n, "review") /\ r = NewestOf(ms, n, "resolve")
      /\ MarkerFor(n, "review") = v /\ MarkerFor(n, "resolve") = r
  BY <1>2, StatusReads, Readers DEF Rv, Rs
<1>4. v # 0 => /\ re.rows[n]["review"] = LegRow(n, "review", life, aged)
               /\ re.rows[n]["resolve"] = LegRow(n, "resolve", life, aged)
  BY CurrentRows DEF Legs
<1>5. GreenIsEarned(re)
  BY GreenRows
<1>6. NextCommand(open) \in {"review", "resolve", "none"}
  BY StatusStateIs
<1>7. /\ LegRow(n, "review", life, aged).step = "run" =>
           life = "running" /\ v # 0 /\ ms[v].state \in {"started", "incomplete"}
      /\ LegRow(n, "resolve", life, aged).step = "run" =>
           life = "running" /\ r # 0 /\ ms[r].state \in {"started", "incomplete"}
  BY <1>2, <1>3, RunningRowIs
<1> HIDE DEF n, v, r, re
<1> SUFFICES ASSUME StatusState \notin {"halted", "stopped"}, n > 0, NextCommand(open) # "none",
                    re.rows[n][NextCommand(open)].step = "run",
                    State(MarkerFor(n, NextCommand(open))) # "incomplete"
             PROVE  NextRunning(life, open)
  BY <1>1 DEF RunIsSaid, re
<1>8. v # 0
  BY <1>2
<1>9. CASE NextCommand(open) = "resolve"
  <2>1. StatusState = "awaiting-resolution"
    BY <1>9, NextCommandIs
  <2>2. life = "running" /\ State(CurrentResolve) = "started"
    BY <1>3, <1>4, <1>7, <1>8, <1>9
  <2> QED BY <2>1, <2>2 DEF NextRunning
<1>10. CASE NextCommand(open) = "review"
  <2>1. re.rows[n]["review"].step # "ok"
    BY <1>10
  <2>2. StatusState # "converged"
    BY <1>1, <1>5, <2>1 DEF GreenIsEarned
  <2>3. StatusState = "awaiting-review"
    BY <1>10, <2>2, NextCommandIs
  <2>4. life = "running" /\ State(CurrentReview) = "started"
    BY <1>3, <1>4, <1>7, <1>8, <1>10
  <2> QED BY <1>10, <2>3, <2>4 DEF NextRunning
<1> QED BY <1>6, <1>9, <1>10

(* Header, rows and NEXT of one reading of the pull request agree, whatever *)
(* is found of an open claim or of the threads of an escalation: green over no red row, a red row or a         *)
(* deferral or a bound under a halt, no invitation to what already runs,    *)
(* and a command that the leg will take up (status.go, liveness.go).        *)
THEOREM StatusIsConsistent == Spec => []StatusAgrees
<1>1. TruthInv => StatusAgrees
  BY NextWorksTrue, GreenRows, HaltsAreShown, RunsAreSaid DEF StatusAgrees
<1> QED BY <1>1, TruthHolds, PTL
================================================================================
