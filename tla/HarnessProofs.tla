----------------------------- MODULE HarnessProofs -----------------------------
(***************************************************************************)
(* Theorems about the calls put to a harness, for any configurations, any  *)
(* work and price table, and any number of passes, calls and attempts.     *)
(***************************************************************************)
EXTENDS Harness, TLAPS

(***************************************************************************)
(* Types.                                                                  *)
(***************************************************************************)
Tokens == [Buckets -> Nat]
UsageRecord == [known : BOOLEAN, tokens : Tokens, cost : Int]
Count == [tokens : Nat, charge : Int]
Ids == {Nobody} \cup (Nat \X Nat \X Nat)
Names == Models \cup {Unnamed}

Run == [step : {"gate", "ask", "read", "accepted", "failed", "done"}, leg : Legs, pass : Nat,
        call : 1..MaxCalls, attempt : 1..MaxAttempts, mode : {"", "served", "supplied"}]

Child == [id : Ids, exit : {"", "ok", "failed", "interrupted"},
          answer : {"", "none", "unreadable", "json"}, ran : BOOLEAN,
          endpoint : {"", "named", "inherited", "vendor"}, usage : UsageRecord, used : Count,
          model : Names, reported : Names]

TypeInv ==
    /\ conf \in Confs
    /\ run \in Run
    /\ payloads \in [Stems -> Ids]
    /\ child \in Child
    /\ accepted \in Ids
    /\ usage \in [refused : UsageRecord, outcome : UsageRecord, model : Names]
    /\ counted \in [refused : Count, outcome : Count, by : SUBSET Models]
    /\ marker \in [tokens : Nat, price : [cost : Int, source : {"none", "harness", "table"}],
                   really : Count]
    /\ review \in [model : Names, by : SUBSET Models]

(***************************************************************************)
(* What a record of usage is worth at the rates of the table, one without  *)
(* a rate counted as 1; when nothing about it is in doubt, that is what    *)
(* the calls behind it are charged.                                        *)
(***************************************************************************)
Real(entry, b) == IF Rate(entry, b) = None THEN 1 ELSE Rate(entry, b)
Worth(entry, tokens) == WithTotal([b \in Buckets |-> tokens[b] * Real(entry, b)])
Plain(entry, tokens) == ~Ambiguous(entry, tokens) /\ ~OverBreak(entry, tokens)

Matches(entry, u, c) ==
    /\ ~u.known => u.tokens = Zero /\ c = Nothing
    /\ WithTotal(u.tokens) = c.tokens
    /\ Plain(entry, u.tokens) => c.charge = Worth(entry, u.tokens)

LEMMA Distributes == \A a, b, r \in Int : (a + b) * r = a * r + b * r /\ a * r \in Int /\ 0 * r = 0
OBVIOUS

LEMMA EntryTypes ==
    ASSUME NEW entry \in Entry
    PROVE  \A b \in Buckets : Rate(entry, b) \in Int /\ Real(entry, b) \in Int
BY DEF Entry, Rate, Real, CacheWrite1hRate, Buckets, None

LEMMA TokenTypes ==
    ASSUME NEW t \in Tokens
    PROVE  /\ WithTotal(t) \in Nat /\ WithTotal(t) - t["output"] \in Nat
           /\ \A b \in Buckets : t[b] \in Nat
<1>1. \A b \in Buckets : t[b] \in Nat
  BY DEF Tokens
<1> QED
  BY <1>1 DEF WithTotal, Buckets

LEMMA WorthIs ==
    ASSUME NEW entry \in Entry, NEW t \in Tokens
    PROVE  /\ Worth(entry, t) = t["fresh"] * Real(entry, "fresh") + t["read"] * Real(entry, "read")
                + t["write5m"] * Real(entry, "write5m") + t["write1h"] * Real(entry, "write1h")
                + t["unsplit"] * Real(entry, "unsplit") + t["output"] * Real(entry, "output")
           /\ Worth(entry, t) \in Int
<1>1. \A b \in Buckets : t[b] * Real(entry, b) \in Int
  BY EntryTypes, TokenTypes, Distributes
<1> QED
  BY <1>1 DEF Worth, WithTotal, Buckets

(* The buckets of two records are added. *)
LEMMA SumsAdd ==
    ASSUME NEW entry \in Entry, NEW t \in Tokens, NEW s \in Tokens
    PROVE  LET both == [b \in Buckets |-> t[b] + s[b]]
           IN  /\ both \in Tokens
               /\ WithTotal(both) = WithTotal(t) + WithTotal(s)
               /\ Worth(entry, both) = Worth(entry, t) + Worth(entry, s)
               /\ Plain(entry, both) => Plain(entry, t) /\ Plain(entry, s)
<1> DEFINE both == [b \in Buckets |-> t[b] + s[b]]
<1>1. /\ both \in Tokens /\ \A b \in Buckets : both[b] = t[b] + s[b] /\ t[b] \in Nat /\ s[b] \in Nat
  BY TokenTypes DEF Tokens
<1> HIDE DEF both
<1>2. WithTotal(both) = WithTotal(t) + WithTotal(s)
  BY <1>1 DEF WithTotal, Buckets
<1>3. Worth(entry, both) = Worth(entry, t) + Worth(entry, s)
  <2>1. \A b \in Buckets : /\ both[b] * Real(entry, b) = t[b] * Real(entry, b) + s[b] * Real(entry, b)
                           /\ t[b] * Real(entry, b) \in Int /\ s[b] * Real(entry, b) \in Int
    BY <1>1, EntryTypes, Distributes
  <2> QED BY <1>1, <2>1, WorthIs DEF Buckets
<1>4. Plain(entry, both) => Plain(entry, t) /\ Plain(entry, s)
  <2>1. /\ WithTotal(both) - both["output"] = (WithTotal(t) - t["output"]) + (WithTotal(s) - s["output"])
        /\ both["unsplit"] = t["unsplit"] + s["unsplit"]
        /\ t["unsplit"] \in Nat /\ s["unsplit"] \in Nat
        /\ WithTotal(t) - t["output"] \in Nat /\ WithTotal(s) - s["output"] \in Nat
    BY <1>1, <1>2, TokenTypes DEF Buckets
  <2>2. entry.threshold \in Int /\ entry.above1h \in Int /\ entry.write \in Int
    BY DEF Entry
  <2> QED BY <2>1, <2>2 DEF Plain, Ambiguous, OverBreak
<1> QED
  BY <1>1, <1>2, <1>3, <1>4 DEF both

LEMMA FoldMatches ==
    ASSUME NEW entry \in Entry, NEW u \in UsageRecord, NEW v \in UsageRecord,
           NEW c \in Count, NEW d \in Count, Matches(entry, u, c), Matches(entry, v, d)
    PROVE  /\ Fold(u, v) \in UsageRecord /\ Add(c, d) \in Count
           /\ Matches(entry, Fold(u, v), Add(c, d))
           /\ Add(c, d) = Add(d, c)
<1>1. /\ Add(c, d) \in Count /\ Add(c, d) = Add(d, c)
      /\ Add(c, Nothing) = c /\ Add(Nothing, d) = d
  BY DEF Add, Count, Nothing
<1>2. CASE ~v.known
  BY <1>1, <1>2 DEF Fold, Matches
<1>3. CASE v.known /\ ~u.known
  BY <1>1, <1>3 DEF Fold, Matches
<1>4. CASE v.known /\ u.known
  <2> DEFINE both == [b \in Buckets |-> u.tokens[b] + v.tokens[b]]
  <2>1. u.tokens \in Tokens /\ v.tokens \in Tokens
    BY DEF UsageRecord
  <2>2. /\ both \in Tokens
        /\ WithTotal(both) = WithTotal(u.tokens) + WithTotal(v.tokens)
        /\ Worth(entry, both) = Worth(entry, u.tokens) + Worth(entry, v.tokens)
        /\ Plain(entry, both) => Plain(entry, u.tokens) /\ Plain(entry, v.tokens)
    BY <2>1, SumsAdd
  <2>3. Fold(u, v) = [u EXCEPT !.tokens = both]
    BY <1>4 DEF Fold, AddUsageBuckets
  <2> HIDE DEF both
  <2>4. Fold(u, v) \in UsageRecord /\ Fold(u, v).tokens = both /\ Fold(u, v).known
    BY <1>4, <2>2, <2>3 DEF UsageRecord
  <2>5. Add(c, d).tokens = c.tokens + d.tokens /\ Add(c, d).charge = c.charge + d.charge
    BY DEF Add
  <2> QED BY <1>1, <2>2, <2>4, <2>5 DEF Matches
<1> QED
  BY <1>2, <1>3, <1>4

LEMMA WorkTypes ==
    ASSUME NEW w \in Work
    PROVE  /\ w.fresh \in Nat /\ w.read \in Nat /\ w.out \in Nat
           /\ w.write5m \in Nat /\ w.write1h \in Nat /\ w.helper1h \in Nat
           /\ Writes(w) = w.write5m + w.write1h + w.helper1h /\ Writes(w) \in Nat
BY DEF Work, Writes

LEMMA ReportedIs ==
    ASSUME NEW h, NEW w \in Work
    PROVE  /\ Reported(h, w) \in Work
           /\ h = "agy" => Writes(Reported(h, w)) = 0
<1>1. CASE h # "agy"
  BY <1>1 DEF Reported
<1>2. CASE h = "agy"
  <2>1. Reported(h, w) = [w EXCEPT !.write5m = 0, !.write1h = 0, !.helper1h = 0]
    BY <1>2 DEF Reported
  <2>2. [w EXCEPT !.write5m = 0, !.write1h = 0, !.helper1h = 0] \in Work
    BY DEF Work
  <2>3. Reported(h, w).write5m = 0 /\ Reported(h, w).write1h = 0 /\ Reported(h, w).helper1h = 0
    BY <2>1 DEF Work
  <2> QED BY <2>1, <2>2, <2>3 DEF Writes
<1> QED
  BY <1>1, <1>2

LEMMA ParsedIs ==
    ASSUME NEW h \in Harnesses, NEW s \in Work, NEW split \in BOOLEAN,
           h = "agy" => Writes(s) = 0
    PROVE  \/ ParseUsage(h, s, split) =
                Spent(s.fresh, s.read, s.write5m, s.write1h, s.helper1h, s.out)
           \/ ParseUsage(h, s, split) = Spent(s.fresh, s.read, 0, 0, Writes(s), s.out)
<1>1. CASE h = "claude"
  <2>1. ParseUsage(h, s, split) = ParseClaude(ClaudeReport(s, split))
    BY <1>1 DEF ParseUsage
  <2>2. (IF Writes(s) > s.write5m + s.write1h
         THEN Writes(s) - (s.write5m + s.write1h) ELSE 0) = s.helper1h
    BY WorkTypes
  <2> QED BY <2>1, <2>2 DEF ParseClaude, ClaudeReport
<1>2. CASE h = "codex"
  <2> DEFINE r == CodexReport(s)
  <2>1. ParseUsage(h, s, split) = ParseCodexEvents(r)
    BY <1>2 DEF ParseUsage
  <2>2. /\ r.input - r.cached = s.fresh
        /\ r.cached = s.read /\ r.write = Writes(s) /\ r.output = s.out
    BY WorkTypes DEF CodexReport
  <2>3. ParseCodexEvents(r) = Spent(r.input - r.cached, r.cached, 0, 0, r.write, r.output)
    BY DEF ParseCodexEvents
  <2> HIDE DEF r
  <2> QED BY ONLY <2>1, <2>2, <2>3, Zenon
<1>3. CASE h = "grok"
  <2>1. ParseUsage(h, s, split) = ParseGrok(PlainReport(s))
    BY <1>3 DEF ParseUsage
  <2> QED BY <2>1 DEF ParseGrok, PlainReport
<1>4. CASE h = "agy"
  <2>1. ParseUsage(h, s, split) = ParseAgy(PlainReport(s))
    BY <1>4 DEF ParseUsage
  <2> QED BY <1>4, <2>1 DEF ParseAgy, PlainReport
<1>5. CASE h = "opencode"
  <2>1. ParseUsage(h, s, split) = ParseOpencodeExport(PlainReport(s))
    BY <1>5 DEF ParseUsage
  <2> QED BY <2>1 DEF ParseOpencodeExport, PlainReport
<1> QED
  BY <1>1, <1>2, <1>3, <1>4, <1>5 DEF Harnesses

(* However the vendor counts, the buckets hold what the call used, and are *)
(* worth what it is charged.                                               *)
LEMMA ReportMatches ==
    ASSUME NEW entry \in Entry, NEW h \in Harnesses, NEW w \in Work, NEW split \in BOOLEAN
    PROVE  LET t == ParseUsage(h, Reported(h, w), split)
           IN  /\ t \in Tokens /\ Charged(entry, Reported(h, w)) \in Int
               /\ Consumed(Reported(h, w)) \in Nat
               /\ WithTotal(t) = Consumed(Reported(h, w))
               /\ Plain(entry, t) => Charged(entry, Reported(h, w)) = Worth(entry, t)
<1> DEFINE s == Reported(h, w)
           t == ParseUsage(h, s, split)
<1>1. /\ s \in Work /\ s.fresh \in Nat /\ s.read \in Nat /\ s.out \in Nat
      /\ s.write5m \in Nat /\ s.write1h \in Nat /\ s.helper1h \in Nat
      /\ Writes(s) = s.write5m + s.write1h + s.helper1h /\ Writes(s) \in Nat
      /\ h = "agy" => Writes(s) = 0
  BY ReportedIs, WorkTypes
<1> HIDE DEF s
<1>2. /\ t \in Tokens
      /\ t["fresh"] = s.fresh /\ t["read"] = s.read /\ t["output"] = s.out
      /\ \/ t["write5m"] = s.write5m /\ t["write1h"] = s.write1h /\ t["unsplit"] = s.helper1h
         \/ t["write5m"] = 0 /\ t["write1h"] = 0 /\ t["unsplit"] = Writes(s)
  <2>1. \/ t = Spent(s.fresh, s.read, s.write5m, s.write1h, s.helper1h, s.out)
        \/ t = Spent(s.fresh, s.read, 0, 0, Writes(s), s.out)
    BY <1>1, ParsedIs
  <2> HIDE DEF t
  <2>2. CASE t = Spent(s.fresh, s.read, s.write5m, s.write1h, s.helper1h, s.out)
    BY <1>1, <2>2 DEF Spent, Tokens, Buckets
  <2>3. CASE t = Spent(s.fresh, s.read, 0, 0, Writes(s), s.out)
    BY <1>1, <2>3 DEF Spent, Tokens, Buckets
  <2> QED BY <2>1, <2>2, <2>3
<1> HIDE DEF t
<1>3. Consumed(s) \in Nat /\ WithTotal(t) = Consumed(s)
  BY <1>1, <1>2 DEF Consumed, WithTotal
<1> DEFINE dear == s.write1h + s.helper1h
           base == s.fresh * Real(entry, "fresh") + s.read * Real(entry, "read")
                     + s.out * Real(entry, "output") + s.write5m * Real(entry, "write5m")
                     + dear * Real(entry, "write1h")
           input == s.fresh + s.read + Writes(s)
           over == entry.threshold # None /\ input > entry.threshold
<1>4. base \in Int /\ Charged(entry, s) = IF over THEN 2 * base ELSE base
  <2>1. ASSUME NEW n \in Nat, NEW rate \in Int
        PROVE  (IF n = 0 THEN 0 ELSE n * (IF rate = None THEN 1 ELSE rate))
                 = n * (IF rate = None THEN 1 ELSE rate)
    BY Distributes DEF None
  <2>2. /\ Real(entry, "fresh") = IF entry.input = None THEN 1 ELSE entry.input
        /\ Real(entry, "read") = IF entry.read = None THEN 1 ELSE entry.read
        /\ Real(entry, "output") = IF entry.output = None THEN 1 ELSE entry.output
        /\ Real(entry, "write5m") = IF entry.write = None THEN 1 ELSE entry.write
        /\ Real(entry, "write1h") = IF CacheWrite1hRate(entry) = None THEN 1
                                    ELSE CacheWrite1hRate(entry)
    BY DEF Real, Rate
  <2>3. /\ s.fresh \in Nat /\ s.read \in Nat /\ s.out \in Nat /\ s.write5m \in Nat /\ dear \in Nat
        /\ entry.input \in Int /\ entry.read \in Int /\ entry.output \in Int /\ entry.write \in Int
        /\ CacheWrite1hRate(entry) \in Int
    BY <1>1 DEF Work, Entry, CacheWrite1hRate
  <2>4. base \in Int
    <3>1. /\ s.fresh * Real(entry, "fresh") \in Int /\ s.read * Real(entry, "read") \in Int
          /\ s.out * Real(entry, "output") \in Int /\ s.write5m * Real(entry, "write5m") \in Int
          /\ dear * Real(entry, "write1h") \in Int
      BY <2>3, EntryTypes, Distributes DEF Buckets
    <3> QED BY <3>1
  <2>5. Charged(entry, s) = IF over THEN 2 * base ELSE base
    <3> DEFINE at(rate, n) == IF n = 0 THEN 0 ELSE n * (IF rate = None THEN 1 ELSE rate)
               paid == at(entry.input, s.fresh) + at(entry.read, s.read) + at(entry.output, s.out)
                         + at(entry.write, s.write5m)
                         + at(CacheWrite1hRate(entry), s.write1h + s.helper1h)
    <3>1. Charged(entry, s) = IF over THEN 2 * paid ELSE paid
      BY ONLY DEF Charged
    <3>2. \A n \in Nat, rate \in Int :
            at(rate, n) = n * (IF rate = None THEN 1 ELSE rate)
      BY ONLY <2>1
    <3> HIDE DEF at
    <3>3. /\ at(entry.input, s.fresh) = s.fresh * Real(entry, "fresh")
          /\ at(entry.read, s.read) = s.read * Real(entry, "read")
          /\ at(entry.output, s.out) = s.out * Real(entry, "output")
          /\ at(entry.write, s.write5m) = s.write5m * Real(entry, "write5m")
          /\ at(CacheWrite1hRate(entry), dear) = dear * Real(entry, "write1h")
      BY ONLY <2>2, <2>3, <3>2
    <3>4. paid = base
      BY ONLY <3>3
    <3> QED BY ONLY <3>1, <3>4
  <2> QED BY <2>4, <2>5
<1>5. ASSUME Plain(entry, t)
      PROVE  Charged(entry, s) = Worth(entry, t)
  <2>1. ~over
    <3>1. WithTotal(t) - t["output"] = input /\ input \in Nat /\ entry.threshold \in Int
      BY <1>1, <1>2, <1>3 DEF Work, Consumed, Writes, Entry
    <3> QED BY <1>5, <3>1 DEF Plain, OverBreak
  <2>2. t["unsplit"] > 0 => Real(entry, "unsplit") = Real(entry, "write1h")
    BY <1>5 DEF Plain, Ambiguous, Real, Rate, CacheWrite1hRate, Entry
  <2>3. Real(entry, "unsplit") = Real(entry, "write5m")
    BY DEF Real, Rate
  <2>4. t["write5m"] * Real(entry, "write5m") + t["write1h"] * Real(entry, "write1h")
          + t["unsplit"] * Real(entry, "unsplit")
        = s.write5m * Real(entry, "write5m") + dear * Real(entry, "write1h")
    <3>1. /\ s.write5m \in Nat /\ s.write1h \in Nat /\ s.helper1h \in Nat
          /\ Writes(s) = s.write5m + s.write1h + s.helper1h
          /\ Real(entry, "write5m") \in Int /\ Real(entry, "write1h") \in Int
      BY <1>1, EntryTypes DEF Work, Writes, Buckets
    <3> DEFINE r5 == Real(entry, "write5m")
               r1 == Real(entry, "write1h")
    <3> HIDE DEF r5, r1
    <3>2. CASE t["write5m"] = s.write5m /\ t["write1h"] = s.write1h /\ t["unsplit"] = s.helper1h
      <4>1. s.helper1h * Real(entry, "unsplit") = s.helper1h * Real(entry, "write1h")
        BY <2>2, <2>3, <3>1, <3>2, Distributes
      <4>2. dear * Real(entry, "write1h")
              = s.write1h * Real(entry, "write1h") + s.helper1h * Real(entry, "write1h")
        BY <3>1, Distributes
      <4>3. /\ s.write1h * Real(entry, "write1h") \in Int /\ s.helper1h * Real(entry, "write1h") \in Int
            /\ s.write5m * Real(entry, "write5m") \in Int
        BY <3>1, Distributes
      <4> QED BY <3>2, <4>1, <4>2, <4>3
    <3>3. CASE t["write5m"] = 0 /\ t["write1h"] = 0 /\ t["unsplit"] = Writes(s)
      <4>1. CASE Writes(s) = 0
        <5>1. s.write5m = 0 /\ dear = 0
          BY <3>1, <4>1
        <5> QED BY <2>3, <3>1, <3>3, <4>1, <5>1, Distributes
      <4>2. CASE Writes(s) # 0
        <5>1. Real(entry, "write5m") = Real(entry, "write1h")
          BY <2>2, <2>3, <3>1, <3>3, <4>2
        <5>2. Writes(s) * Real(entry, "write1h")
                = s.write5m * Real(entry, "write1h") + dear * Real(entry, "write1h")
          BY <3>1, Distributes
        <5>3. /\ 0 * Real(entry, "write1h") = 0 /\ s.write5m * Real(entry, "write1h") \in Int
              /\ dear * Real(entry, "write1h") \in Int
          BY <3>1, Distributes
        <5> QED BY <2>3, <3>3, <5>1, <5>2, <5>3
      <4> QED BY <4>1, <4>2
    <3> QED BY <1>2, <3>2, <3>3
  <2>5. /\ s.fresh * Real(entry, "fresh") \in Int /\ s.read * Real(entry, "read") \in Int
        /\ s.out * Real(entry, "output") \in Int
        /\ s.write5m * Real(entry, "write5m") \in Int /\ dear * Real(entry, "write1h") \in Int
        /\ \A b \in Buckets : t[b] * Real(entry, b) \in Int
    <3>1. \A b \in Buckets : t[b] \in Nat /\ Real(entry, b) \in Int
      BY <1>2, EntryTypes, TokenTypes
    <3>2. \A n \in Nat, r \in Int : n * r \in Int
      BY Distributes
    <3>3. dear \in Nat
      BY <1>1
    <3> QED BY <1>1, <3>1, <3>2, <3>3 DEF Buckets
  <2>6. Worth(entry, t) = base
    BY <1>2, <2>4, <2>5, WorthIs DEF Buckets
  <2> QED BY <1>4, <2>1, <2>6
<1> QED
  BY <1>2, <1>3, <1>4, <1>5 DEF t, s

-------------------------------------------------------------------------------
(***************************************************************************)
(* Calls.  Past the gates of a call; what the child was given; whose       *)
(* answer the adapter can hold.                                            *)
(***************************************************************************)
(* The child ran no command, except under an adapter that keeps no record. *)
RanNothing ==
    child.ran => \/ Harness \in {"agy", "opencode"}
                 \/ Harness = "claude" /\ ~Editing /\ run.mode = "supplied"

CallInv ==
    /\ run.step \in {"ask", "read", "accepted"} =>
         /\ AssertEnvClean /\ ReviewIsolated
         /\ run.mode \in {"served", "supplied"}
         /\ run.mode = "served" => ReadMode(Harness) = "served"
    /\ run.step \in {"read", "accepted"} =>
         /\ child.endpoint = IF conf.named THEN "named" ELSE "vendor"
         /\ child.id # Nobody
    /\ At("read") => payloads[Stem] \in {Nobody, child.id}
    /\ At("accepted") => accepted = child.id /\ RanNothing

(***************************************************************************)
(* Models.  Only a resolve pass signs with its one call's model; whoever   *)
(* signs a pass answered it.                                               *)
(***************************************************************************)
ModelInv ==
    /\ child.reported \in {Unnamed, child.model}
    /\ run.step \in {"read", "accepted"} => child.model \in Models
    /\ usage.model # Unnamed => usage.model \in counted.by
    /\ review.model # Unnamed => review.model \in review.by
    /\ Editing /\ run.step \in {"gate", "ask", "read"} => usage.model = Unnamed
    /\ Editing /\ run.step \in {"accepted", "done"} => usage.model = child.reported
    /\ Editing /\ At("done") => ModelsDiverged

(***************************************************************************)
(* Usage.  Every record matches what the calls behind it used.             *)
(***************************************************************************)
UsageInv ==
    /\ Matches(conf.entry, child.usage, child.used)
    /\ Matches(conf.entry, usage.refused, counted.refused)
    /\ Matches(conf.entry, usage.outcome, counted.outcome)
    /\ marker.tokens = marker.really.tokens
    /\ marker.price.source = "table" => marker.price.cost = marker.really.charge
    /\ At("done") /\ ~Editing /\ conf.named => marker.price = Unpriced

Inv == TypeInv /\ CallInv /\ ModelInv /\ UsageInv

LEMMA ConfTypes ==
    ASSUME TypeInv
    PROVE  /\ conf \in Conf /\ conf.entry \in Entry /\ Harness \in Harnesses
           /\ conf.answering \subseteq Models /\ conf.works \subseteq Works
           /\ conf.named \in BOOLEAN /\ conf.inherited \in BOOLEAN
<1>1. conf \in Conf
  BY HarnessAssumption DEF TypeInv
<1> QED
  BY <1>1, UsageAssumption DEF Conf, Harness

LEMMA FirstAre ==
    1 \in 1..MaxCalls /\ 1 \in 1..MaxAttempts /\ MaxCalls \in Nat /\ MaxAttempts \in Nat
<1>1. MaxCalls \in Nat \ {0} /\ MaxAttempts \in Nat \ {0}
  BY HarnessAssumption
<1> QED
  BY <1>1

LEMMA NothingUsed ==
    /\ NoUsage \in UsageRecord /\ Nothing \in Count
    /\ \A entry \in Entry : Matches(entry, NoUsage, Nothing)
    /\ Unpriced \in [cost : Int, source : {"none", "harness", "table"}] /\ Unpriced.source = "none"
<1>1. Zero \in Tokens /\ \A b \in Buckets : Zero[b] = 0
  BY DEF Zero, Spent, Tokens, Buckets
<1>2. NoUsage \in UsageRecord /\ NoUsage.tokens = Zero /\ ~NoUsage.known
  BY <1>1 DEF NoUsage, UsageRecord, None
<1>3. Nothing \in Count /\ Nothing.tokens = 0 /\ Nothing.charge = 0
  BY DEF Nothing, Count
<1>4. WithTotal(Zero) = 0
  BY <1>1 DEF WithTotal, Buckets
<1>5. \A entry \in Entry : Worth(entry, Zero) = 0
  BY <1>1, WorthIs, EntryTypes, Distributes DEF Buckets
<1>6. Unpriced \in [cost : Int, source : {"none", "harness", "table"}] /\ Unpriced.source = "none"
  BY DEF Unpriced, None
<1> QED
  BY <1>2, <1>3, <1>4, <1>5, <1>6 DEF Matches

LEMMA HarnessInit == Init => Inv
<1> SUFFICES ASSUME Init PROVE Inv
  OBVIOUS
<1>1. /\ conf \in Confs /\ run \in Run /\ run.step = "gate" /\ run.leg = "review"
  BY FirstAre DEF Init, Run, Legs
<1>2. payloads \in [Stems -> Ids] /\ accepted \in Ids
  BY DEF Init, Ids
<1>3. child \in Child /\ child.reported = Unnamed /\ child.usage = NoUsage /\ child.used = Nothing
  BY NothingUsed DEF Init, NoChild, Child, Ids, Names, Unnamed, Nothing
<1>4. /\ usage \in [refused : UsageRecord, outcome : UsageRecord, model : Names]
      /\ usage.model = Unnamed /\ usage.refused = NoUsage /\ usage.outcome = NoUsage
  BY NothingUsed DEF Init, IdleUsage, Names
<1>5. /\ counted \in [refused : Count, outcome : Count, by : SUBSET Models]
      /\ counted.refused = Nothing /\ counted.outcome = Nothing
  BY NothingUsed DEF Init, NoCount
<1>6. /\ marker \in [tokens : Nat, price : [cost : Int, source : {"none", "harness", "table"}],
                     really : Count]
      /\ marker.tokens = marker.really.tokens /\ marker.price.source = "none"
  BY NothingUsed DEF Init, NoMarker, Nothing
<1>7. review \in [model : Names, by : SUBSET Models] /\ review.model = Unnamed
  BY DEF Init, NoReview, Names
<1>8. TypeInv
  BY <1>1, <1>2, <1>3, <1>4, <1>5, <1>6, <1>7 DEF TypeInv
<1>9. CallInv
  BY <1>1 DEF CallInv, At
<1>10. ModelInv
  BY <1>1, <1>3, <1>4, <1>7 DEF ModelInv, At, Editing
<1>11. UsageInv
  BY <1>1, <1>3, <1>4, <1>5, <1>6, <1>8, NothingUsed, ConfTypes DEF UsageInv, At
<1> QED
  BY <1>8, <1>9, <1>10, <1>11 DEF Inv

(***************************************************************************)
(* One step of the run.                                                    *)
(***************************************************************************)
(* A step that moves the run on and leaves the pass's books.               *)
LEMMA BooksKept ==
    ASSUME Inv, conf' = conf, child' = child \/ child' = NoChild, usage' = usage,
           counted' = counted, marker' = marker, ~At("done")', run' \in Run,
           payloads' \in [Stems -> Ids], accepted' \in Ids, review' = review
    PROVE  TypeInv' /\ UsageInv'
<1>1. NoChild \in Child /\ NoChild.usage = NoUsage /\ NoChild.used = Nothing
  BY NothingUsed DEF NoChild, Child, Ids, Names, Unnamed, Nothing
<1>2. TypeInv'
  BY <1>1 DEF Inv, TypeInv
<1>3. Matches(conf.entry, child'.usage, child'.used)
  BY <1>1, NothingUsed, ConfTypes DEF Inv, UsageInv
<1> QED
  BY <1>2, <1>3 DEF Inv, UsageInv

LEMMA GateStep ==
    ASSUME Inv, Gate PROVE Inv'
<1>1. /\ conf' = conf /\ payloads' = payloads /\ child' = child /\ accepted' = accepted
      /\ usage' = usage /\ marker' = marker /\ review' = review /\ counted' = counted
      /\ run.step = "gate" /\ run \in Run
  BY DEF Gate, At, Inv, TypeInv
<1>2. ReadMode(Harness) \in {"served", "supplied"}
  BY DEF ReadMode
<1>3. CASE run' = [run EXCEPT !.step = "ask", !.mode = ReadMode(Harness)]
           /\ AssertEnvClean /\ ReviewIsolated
  <2>1. run' \in Run /\ run'.step = "ask" /\ run'.leg = run.leg /\ run'.mode = ReadMode(Harness)
    BY <1>1, <1>2, <1>3 DEF Run
  <2>2. TypeInv' /\ UsageInv'
    BY <1>1, <2>1, BooksKept DEF Inv, TypeInv, At
  <2>3. CallInv'
    BY <1>1, <1>2, <1>3, <2>1 DEF CallInv, At, AssertEnvClean, ReviewIsolated, Editing, Harness
  <2>4. ModelInv'
    BY <1>1, <2>1 DEF Inv, ModelInv, At, Editing
  <2> QED BY <2>2, <2>3, <2>4 DEF Inv
<1>4. CASE run' = [run EXCEPT !.step = "failed"]
  <2>1. run' \in Run /\ run'.step = "failed" /\ run'.leg = run.leg
    BY <1>1, <1>4 DEF Run
  <2>2. TypeInv' /\ UsageInv'
    BY <1>1, <2>1, BooksKept DEF Inv, TypeInv, At
  <2>3. CallInv'
    BY <2>1 DEF CallInv, At
  <2>4. ModelInv'
    BY <1>1, <2>1 DEF Inv, ModelInv, At, Editing
  <2> QED BY <2>2, <2>3, <2>4 DEF Inv
<1> QED
  BY <1>3, <1>4 DEF Gate, GoTo

LEMMA DegradeStep ==
    ASSUME Inv, Degrade PROVE Inv'
<1>1. /\ conf' = conf /\ payloads' = payloads /\ child' = child /\ accepted' = accepted
      /\ usage' = usage /\ marker' = marker /\ review' = review /\ counted' = counted
      /\ run.step = "ask" /\ run \in Run /\ run' = [run EXCEPT !.mode = "supplied"]
  BY DEF Degrade, At, Inv, TypeInv
<1>2. run' \in Run /\ run'.step = "ask" /\ run'.leg = run.leg /\ run'.mode = "supplied"
  BY <1>1 DEF Run
<1>3. TypeInv' /\ UsageInv'
  BY <1>1, <1>2, BooksKept DEF Inv, TypeInv, At
<1>4. CallInv'
  BY <1>1, <1>2 DEF Inv, CallInv, At, AssertEnvClean, ReviewIsolated, Editing, Harness
<1>5. ModelInv'
  BY <1>1, <1>2 DEF Inv, ModelInv, At, Editing
<1> QED
  BY <1>3, <1>4, <1>5 DEF Inv

(* The run or the pass is given up. *)
LEMMA GivenUpStep ==
    ASSUME Inv, Fail \/ Substituted PROVE Inv'
<1>1. /\ conf' = conf /\ payloads' = payloads /\ child' = child /\ accepted' = accepted
      /\ usage' = usage /\ marker' = marker /\ review' = review /\ counted' = counted
      /\ run \in Run /\ run' = [run EXCEPT !.step = "failed"]
  BY DEF Fail, Substituted, GoTo, Inv, TypeInv
<1>2. run' \in Run /\ run'.step = "failed" /\ run'.leg = run.leg
  BY <1>1 DEF Run
<1>3. TypeInv' /\ UsageInv'
  BY <1>1, <1>2, BooksKept DEF Inv, TypeInv, At
<1>4. CallInv'
  BY <1>2 DEF CallInv, At
<1>5. ModelInv'
  <2>1. child.reported \in {Unnamed, child.model}
        /\ (usage.model # Unnamed => usage.model \in counted.by)
        /\ (review.model # Unnamed => review.model \in review.by)
    BY DEF Inv, ModelInv
  <2> QED BY <1>1, <1>2, <2>1 DEF ModelInv, At
<1> QED
  BY <1>3, <1>4, <1>5 DEF Inv

LEMMA ReportTypes ==
    ASSUME NEW h, NEW report \in Reports(h)
    PROVE  report.split \in BOOLEAN /\ report.priced \in BOOLEAN
<1>1. CASE report = NoReport
  BY <1>1 DEF NoReport
<1>2. CASE report # NoReport
  <2> DEFINE splits == IF h = "claude" THEN BOOLEAN ELSE {FALSE}
             prices == IF h \in {"claude", "grok"} THEN BOOLEAN ELSE {FALSE}
  <2>1. report \in [known : {TRUE}, split : splits, priced : prices]
    BY <1>2 DEF Reports
  <2>2. splits \subseteq BOOLEAN /\ prices \subseteq BOOLEAN
    OBVIOUS
  <2> HIDE DEF splits, prices
  <2>3. report.split \in splits /\ report.priced \in prices
    BY <2>1
  <2> QED BY <2>2, <2>3
<1> QED
  BY <1>1, <1>2

(***************************************************************************)
(* Names.  Whatever else is in a session or a directory, a harness names   *)
(* the model that answered or none.                                        *)
(***************************************************************************)
Least == INSTANCE PolicyProofs

LEMMA FirstIsFirst ==
    ASSUME NEW S \in SUBSET Nat, S # {}
    PROVE  First(S) \in S
<1>1. Least!Min(S) \in S /\ \A y \in S : Least!Min(S) =< y
  BY Least!MinIsMember
<1> QED
  BY <1>1 DEF First

LEMMA ListingTypes ==
    ASSUME NEW S, NEW l \in Listings(S)
    PROVE  DOMAIN l \subseteq Nat /\ \A i \in DOMAIN l : l[i] \in S
  BY DEF Listings

LEMMA ClaudeNames ==
    ASSUME NEW model \in Models, NEW entries \in Session(model)
    PROVE  ModelReportedFromModels(entries) = model
<1> DEFINE E == [key : Models, canonical : Models \cup {"absent"}, total : 0 .. 2]
<1>1. PICK k \in DOMAIN entries :
        /\ entries[k].key = model
        /\ \A j \in DOMAIN entries : j # k => entries[j].total < entries[k].total
  BY DEF Session
<1>2. /\ \A i \in DOMAIN entries : entries[i] \in E
      /\ DOMAIN entries \subseteq Nat
  <2>1. entries \in Listings(E)
    BY DEF Session
  <2> QED BY <2>1, ListingTypes
<1>3. \A i \in DOMAIN entries : entries[i].total \in Int
  BY <1>2
<1>4. LargestShare(entries, k)
  BY <1>1, <1>2, <1>3 DEF LargestShare
<1>5. ASSUME NEW i \in DOMAIN entries, LargestShare(entries, i) PROVE i = k
  BY <1>1, <1>3, <1>5 DEF LargestShare
<1>6. (CHOOSE i \in DOMAIN entries : LargestShare(entries, i)) = k
  BY <1>4, <1>5
<1>7. ModelID(entries[k]) = model
  BY <1>1 DEF Session, ModelID
<1>8. entries # <<>>
  BY <1>1
<1> QED
  BY <1>6, <1>7, <1>8 DEF ModelReportedFromModels

LEMMA CodexNames ==
    ASSUME NEW model \in Models, NEW files \in Directory(model), NEW session \in SessionIDs
    PROVE  ReadCodexRollout(files, session) \in {Unnamed, model}
<1>1. session \in {Mine, NoSession}
  <2> DEFINE E == [thread : {"absent", "number", Mine}, session : {"absent", "number", Mine}]
  <2>1. PICK events \in Listings(E) : session = CodexSessionID(events)
    BY DEF SessionIDs
  <2>2. DOMAIN events \subseteq Nat /\ \A i \in DOMAIN events : events[i] \in E
    BY ListingTypes
  <2>3. \A i \in DOMAIN events : SessionOf(events[i]) \in {Mine, NoSession}
    BY <2>2 DEF SessionOf, NoSession
  <2> DEFINE naming == {i \in DOMAIN events : SessionOf(events[i]) # NoSession}
  <2>4. naming # {} => First(naming) \in naming
    BY <2>2, FirstIsFirst
  <2> QED BY <2>1, <2>3, <2>4 DEF CodexSessionID
<1> DEFINE found == {i \in DOMAIN files : IsRollout(files, session, i)}
<1>2. DOMAIN files \subseteq Nat /\ \A i \in DOMAIN files : files[i] \in File(model)
  BY ListingTypes DEF Directory
<1>3. CASE session = NoSession \/ found = {}
  BY <1>3 DEF ReadCodexRollout
<1>4. CASE session = Mine /\ session # NoSession /\ found # {}
  <2>1. First(found) \in found
    BY <1>2, <1>4, FirstIsFirst
  <2>2. files[First(found)].name = Mine \/ files[First(found)].id = Mine
    BY <1>4, <2>1 DEF IsRollout
  <2>3. files[First(found)].model \in {Unnamed, model}
    BY <1>2, <2>1, <2>2 DEF File, Mine, NoSession
  <2> QED BY <1>4, <2>3 DEF ReadCodexRollout
<1> QED
  BY <1>1, <1>3, <1>4

LEMMA NamesAreTrue ==
    ASSUME NEW h, NEW model \in Models
    PROVE  NamedBy(h, model) \subseteq {Unnamed, model}
  BY ClaudeNames, CodexNames DEF NamedBy

(* A child is put to work, and the file of its attempt is emptied first. *)
LEMMA AskStep ==
    ASSUME Inv, NEW exit \in {"ok", "failed", "interrupted"},
           NEW answer \in {"none", "unreadable", "json"}, NEW ran \in BOOLEAN,
           NEW w, exit = "ok" => w \in Work, NEW report \in Reports(Harness),
           NEW model \in conf.answering, NEW named \in {Unnamed, model},
           Ask(exit, answer, ran, w, report, model, named)
    PROVE  Inv'
<1> DEFINE me == <<run.pass, run.call, run.attempt>>
           seen == Reported(Harness, w)
           known == exit = "ok" /\ report.known
           charge == Charged(conf.entry, seen)
           spent == IF known
                    THEN [known |-> TRUE, tokens |-> ParseUsage(Harness, seen, report.split),
                          cost |-> IF report.priced THEN charge ELSE None]
                    ELSE NoUsage
           really == IF known THEN [tokens |-> Consumed(seen), charge |-> charge] ELSE Nothing
           says == IF known \/ (exit = "ok" /\ Harness = "codex") THEN named ELSE Unnamed
           c == [id |-> me, exit |-> exit, answer |-> answer, ran |-> ran,
                 endpoint |-> ChildEndpoint, usage |-> spent, used |-> really, model |-> model,
                 reported |-> says]
<1>1. /\ conf' = conf /\ accepted' = accepted /\ usage' = usage /\ marker' = marker
      /\ review' = review /\ counted' = counted
      /\ run.step = "ask" /\ run \in Run /\ run' = [run EXCEPT !.step = "read"]
      /\ payloads' = IF Harness = "codex" /\ answer # "none"
                     THEN [PreCreate EXCEPT ![Stem] = me] ELSE PreCreate
  BY DEF Ask, At, GoTo, Inv, TypeInv
<1>2. child' = c
  BY DEF Ask
<1>3. /\ conf.entry \in Entry /\ Harness \in Harnesses /\ model \in Models
      /\ conf.named \in BOOLEAN /\ conf.inherited \in BOOLEAN
  BY ConfTypes DEF Inv
<1>4. /\ run' \in Run /\ run'.step = "read" /\ run'.leg = run.leg /\ run'.mode = run.mode
      /\ run'.call = run.call /\ run'.attempt = run.attempt
  BY <1>1 DEF Run
<1>5. me \in Ids /\ me # Nobody
  <2>1. run.pass \in Nat /\ run.call \in 1..MaxCalls /\ run.attempt \in 1..MaxAttempts
    BY <1>1 DEF Run
  <2>2. run.call \in Nat /\ run.attempt \in Nat
    BY <2>1, FirstAre
  <2>3. me \in Nat \X Nat \X Nat
    BY <2>1, <2>2
  <2>4. me # <<>>
    OBVIOUS
  <2> QED BY <2>3, <2>4 DEF Ids, Nobody
<1>6. spent \in UsageRecord /\ really \in Count /\ Matches(conf.entry, spent, really)
  <2>1. CASE ~known
    BY <1>3, <2>1, NothingUsed
  <2>2. CASE known
    <3>1. w \in Work /\ report.split \in BOOLEAN /\ report.priced \in BOOLEAN
      BY <2>2, ReportTypes
    <3> DEFINE t == ParseUsage(Harness, seen, report.split)
    <3>2. /\ t \in Tokens /\ charge \in Int /\ Consumed(seen) \in Nat
          /\ WithTotal(t) = Consumed(seen)
          /\ Plain(conf.entry, t) => charge = Worth(conf.entry, t)
      BY <1>3, <3>1, ReportMatches
    <3> HIDE DEF t, charge, seen
    <3>3. /\ spent = [known |-> TRUE, tokens |-> t, cost |-> IF report.priced THEN charge ELSE None]
          /\ really = [tokens |-> Consumed(seen), charge |-> charge]
      BY <2>2 DEF t
    <3> HIDE DEF spent, really
    <3> QED BY <3>1, <3>2, <3>3 DEF UsageRecord, Count, Matches, None
  <2> QED BY <2>1, <2>2
<1>7. says \in Names /\ says \in {Unnamed, model} /\ model \in Names
  BY <1>3 DEF Names
<1>8. ChildEndpoint \in {"named", "inherited", "vendor"}
  BY DEF ChildEndpoint
<1> HIDE DEF me, spent, really, says
<1>9. /\ c \in Child /\ c.id = me /\ c.endpoint = ChildEndpoint /\ c.usage = spent
      /\ c.used = really /\ c.model = model /\ c.reported = says
  BY <1>5, <1>6, <1>7, <1>8 DEF Child
<1> HIDE DEF c
<1>10. payloads' \in [Stems -> Ids] /\ payloads'[Stem] \in {Nobody, me} /\ Stem' = Stem
  <2>1. Stem \in Stems /\ payloads \in [Stems -> Ids] /\ Nobody \in Ids
    BY <1>1 DEF Inv, TypeInv, Stem, Stems, Run, Ids
  <2>2. Stem' = Stem
    BY <1>4 DEF Stem
  <2>3. PreCreate \in [Stems -> Ids] /\ PreCreate[Stem] = Nobody
    BY <2>1 DEF PreCreate
  <2> HIDE DEF PreCreate
  <2> QED BY <1>1, <1>5, <2>1, <2>2, <2>3
<1>11. TypeInv'
  BY <1>1, <1>2, <1>4, <1>9, <1>10 DEF Inv, TypeInv
<1>12. CallInv'
  <2>1. AssertEnvClean' /\ ReviewIsolated' /\ run'.mode \in {"served", "supplied"}
        /\ (run'.mode = "served" => ReadMode(Harness)' = "served")
    BY <1>1, <1>4 DEF Inv, CallInv, AssertEnvClean, ReviewIsolated, Editing, Harness
  <2>2. child'.endpoint = (IF conf.named THEN "named" ELSE "vendor") /\ child'.id = me
    BY <1>1, <1>2, <1>9 DEF Inv, CallInv, AssertEnvClean, ChildEndpoint
  <2> QED BY <1>1, <1>4, <1>5, <1>10, <2>1, <2>2 DEF CallInv, At
<1>13. ModelInv'
  BY <1>1, <1>2, <1>3, <1>4, <1>7, <1>9 DEF Inv, ModelInv, At, Editing
<1>14. UsageInv'
  BY <1>1, <1>2, <1>4, <1>6, <1>9 DEF Inv, UsageInv, At
<1> QED
  BY <1>11, <1>12, <1>13, <1>14 DEF Inv

LEMMA ChildrenStep ==
    ASSUME Inv, Children PROVE Inv'
<1>1. PICK model \in conf.answering, ran \in BOOLEAN :
        \/ \E answer \in {"none", "unreadable", "json"}, w \in conf.works, report \in Reports(Harness),
              named \in Namings[Harness][model] :
              Ask("ok", answer, ran, w, report, model, named)
        \/ \E exit \in {"failed", "interrupted"}, answer \in {"none", "json"} :
              Ask(exit, answer, ran, CHOOSE w \in Works : TRUE, NoReport, model, Unnamed)
  BY DEF Children
<1>2. ASSUME NEW answer \in {"none", "unreadable", "json"}, NEW w \in conf.works,
             NEW report \in Reports(Harness), NEW named \in Namings[Harness][model],
             Ask("ok", answer, ran, w, report, model, named)
      PROVE  Inv'
  <2>1. w \in Work
    BY ConfTypes, UsageAssumption DEF Inv
  <2>2. Harness \in Harnesses /\ model \in Models
    BY ConfTypes DEF Inv
  <2>3. named \in {Unnamed, model}
    BY <2>2, NamesAreTrue DEF Namings
  <2> QED BY <1>2, <2>1, <2>3, AskStep
<1>3. ASSUME NEW exit \in {"failed", "interrupted"}, NEW answer \in {"none", "json"},
             Ask(exit, answer, ran, CHOOSE w \in Works : TRUE, NoReport, model, Unnamed)
      PROVE  Inv'
  <2>1. NoReport \in Reports(Harness) /\ exit # "ok"
    BY DEF Reports
  <2> QED BY <1>3, <2>1, AskStep
<1> QED
  BY <1>1, <1>2, <1>3

(* What is asked again begins a child of its own. *)
LEMMA AskedAgain ==
    ASSUME Inv, At("read"), CanAskAgain, AskAgain
    PROVE  /\ run' \in Run /\ run'.step = "ask" /\ run'.leg = run.leg /\ run'.mode = run.mode
           /\ child' = NoChild
<1>1. run \in Run /\ run' = [run EXCEPT !.step = "ask", !.attempt = @ + 1] /\ child' = NoChild
      /\ run.attempt < MaxAttempts
  BY DEF Inv, TypeInv, AskAgain, CanAskAgain
<1>2. run.attempt + 1 \in 1..MaxAttempts
  <2>1. run.attempt \in 1..MaxAttempts
    BY <1>1 DEF Run
  <2> QED BY <1>1, <2>1, FirstAre
<1> QED
  BY <1>1, <1>2 DEF Run

LEMMA RetryFailureStep ==
    ASSUME Inv, RetryFailure PROVE Inv'
<1>1. /\ conf' = conf /\ accepted' = accepted /\ usage' = usage /\ marker' = marker
      /\ review' = review /\ counted' = counted /\ payloads' = payloads
      /\ run.step = "read" /\ run' \in Run /\ run'.step = "ask" /\ run'.leg = run.leg
      /\ run'.mode = run.mode /\ child' = NoChild
  BY AskedAgain DEF RetryFailure, At
<1>2. TypeInv' /\ UsageInv'
  BY <1>1, BooksKept DEF Inv, TypeInv, At
<1>3. CallInv'
  BY <1>1 DEF Inv, CallInv, At, AssertEnvClean, ReviewIsolated, Editing, Harness
<1>4. ModelInv'
  BY <1>1 DEF Inv, ModelInv, At, Editing, NoChild, Unnamed
<1> QED
  BY <1>2, <1>3, <1>4 DEF Inv

LEMMA NextCallStep ==
    ASSUME Inv, NextCall PROVE Inv'
<1>1. /\ conf' = conf /\ accepted' = Nobody /\ usage' = usage /\ marker' = marker
      /\ review' = review /\ counted' = counted /\ payloads' = payloads /\ child' = NoChild
      /\ ~Editing /\ run \in Run /\ run.call < MaxCalls
      /\ run' = [run EXCEPT !.step = "gate", !.call = @ + 1, !.attempt = 1]
  BY DEF NextCall, At, Inv, TypeInv
<1>2. run' \in Run /\ run'.step = "gate" /\ run'.leg = run.leg
  <2>1. run.call + 1 \in 1..MaxCalls
    <3>1. run.call \in 1..MaxCalls
      BY <1>1 DEF Run
    <3> QED BY <1>1, <3>1, FirstAre
  <2> QED BY <1>1, <2>1, FirstAre DEF Run
<1>3. TypeInv' /\ UsageInv'
  BY <1>1, <1>2, BooksKept DEF Inv, TypeInv, At, Ids
<1>4. CallInv'
  BY <1>2 DEF CallInv, At
<1>5. ModelInv'
  BY <1>1, <1>2 DEF Inv, ModelInv, At, Editing, NoChild, Unnamed
<1> QED
  BY <1>3, <1>4, <1>5 DEF Inv

(* A refused answer joins the call's refused attempts. *)
LEMMA RetryAnswerStep ==
    ASSUME Inv, RetryAnswer PROVE Inv'
<1>1. /\ conf' = conf /\ accepted' = accepted /\ marker' = marker
      /\ review' = review /\ payloads' = payloads
      /\ run.step = "read" /\ run' \in Run /\ run'.step = "ask" /\ run'.leg = run.leg
      /\ run'.mode = run.mode /\ child' = NoChild
  BY AskedAgain DEF RetryAnswer, At
<1>2. CallInv'
  BY <1>1 DEF Inv, CallInv, At, AssertEnvClean, ReviewIsolated, Editing, Harness
<1>3. CASE usage' = usage /\ counted' = counted
  <2>1. TypeInv' /\ UsageInv'
    BY <1>1, <1>3, BooksKept DEF Inv, TypeInv, At
  <2>2. ModelInv'
    BY <1>1, <1>3 DEF Inv, ModelInv, At, Editing, NoChild, Unnamed
  <2> QED BY <1>2, <2>1, <2>2 DEF Inv
<1>4. CASE /\ usage' = [usage EXCEPT !.refused = Fold(@, child.usage)]
           /\ counted' = [counted EXCEPT !.refused = Add(@, child.used)]
  <2>1. /\ usage \in [refused : UsageRecord, outcome : UsageRecord, model : Names]
        /\ counted \in [refused : Count, outcome : Count, by : SUBSET Models]
        /\ child.usage \in UsageRecord /\ child.used \in Count /\ conf.entry \in Entry
    BY ConfTypes DEF Inv, TypeInv, Child
  <2> DEFINE refused == Fold(usage.refused, child.usage)
             count == Add(counted.refused, child.used)
  <2>2. refused \in UsageRecord /\ count \in Count /\ Matches(conf.entry, refused, count)
    BY <2>1, FoldMatches DEF Inv, UsageInv
  <2> HIDE DEF refused, count
  <2>3. /\ usage' = [usage EXCEPT !.refused = refused]
        /\ counted' = [counted EXCEPT !.refused = count]
    BY <1>4 DEF refused, count
  <2>4. /\ usage' \in [refused : UsageRecord, outcome : UsageRecord, model : Names]
        /\ usage'.refused = refused /\ usage'.outcome = usage.outcome /\ usage'.model = usage.model
        /\ counted' \in [refused : Count, outcome : Count, by : SUBSET Models]
        /\ counted'.refused = count /\ counted'.outcome = counted.outcome
        /\ counted'.by = counted.by
    BY <2>1, <2>2, <2>3
  <2>5. /\ NoChild \in Child /\ NoChild.usage = NoUsage /\ NoChild.used = Nothing
        /\ Matches(conf.entry, NoUsage, Nothing)
    BY <2>1, NothingUsed DEF NoChild, Child, Ids, Names, Unnamed, Nothing
  <2>6. TypeInv'
    BY <1>1, <2>4, <2>5 DEF Inv, TypeInv
  <2>7. UsageInv'
    BY <1>1, <2>2, <2>4, <2>5 DEF Inv, UsageInv, At
  <2>8. ModelInv'
    BY <1>1, <2>4 DEF Inv, ModelInv, At, Editing, NoChild, Unnamed
  <2> QED BY <1>2, <2>6, <2>7, <2>8 DEF Inv
<1> QED
  BY <1>3, <1>4 DEF RetryAnswer

(* The adapter holds the answer of the child it ran, or none. *)
LEMMA OwnerIsTheChild ==
    ASSUME Inv, At("read"), ReadBack.owner # Nobody
    PROVE  ReadBack.owner = child.id
<1>1. payloads[Stem] \in {Nobody, child.id} /\ Harness \in Harnesses
  BY ConfTypes DEF Inv, CallInv
<1>2. Printed \in {Nobody, child.id}
  BY DEF Printed
<1> QED
  BY <1>1, <1>2 DEF ReadBack, Envelope, ClaudeEnvelope, CodexEnvelope, GrokEnvelope, AgyEnvelope,
                    OpencodeEnvelope, Harnesses

(* A command shows in the events of the adapters that keep them. *)
LEMMA WatchedRanNothing ==
    ASSUME Inv, At("read"), ~Tripped
    PROVE  RanNothing
<1> SUFFICES ASSUME child.ran
             PROVE  \/ Harness \in {"agy", "opencode"}
                    \/ Harness = "claude" /\ ~Editing /\ run.mode = "supplied"
  BY DEF RanNothing
<1>1. /\ ReviewIsolated /\ run.mode \in {"served", "supplied"} /\ Harness \in Harnesses
      /\ run.mode = "served" => ReadMode(Harness) = "served"
  BY ConfTypes DEF Inv, CallInv, At
<1>2. CASE Harness = "claude"
  <2>1. OutputFormat # "events"
    BY <1>2 DEF Tripped, ResolveCommand, ReviewCommand, ClaudeCommand, Showed
  <2> QED BY <1>1, <1>2, <2>1 DEF OutputFormat, ClaudeSpec
<1>3. CASE Harness = "codex"
  <2>1. OutputFormat = "events"
    BY <1>3 DEF OutputFormat, CodexSpec
  <2> QED BY <1>3, <2>1 DEF Tripped, ResolveCommand, ReviewCommand, CodexCommand, Showed
<1>4. CASE Harness = "grok"
  <2>1. Editing
    BY <1>1, <1>4 DEF ReviewIsolated, Verified
  <2>2. OutputFormat = "events"
    BY <1>4, <2>1 DEF OutputFormat, GrokSpec
  <2> QED BY <1>4, <2>2 DEF Tripped, ResolveCommand, ReviewCommand, GrokCommand, Showed
<1> QED
  BY <1>1, <1>2, <1>3, <1>4 DEF Harnesses

LEMMA AcceptStep ==
    ASSUME Inv, Accept PROVE Inv'
<1>1. /\ conf' = conf /\ accepted' = ReadBack.owner /\ marker' = marker /\ payloads' = payloads
      /\ review' = review /\ run.step = "read" /\ run \in Run /\ At("read")
      /\ run' = [run EXCEPT !.step = "accepted"]
      /\ child' = [child EXCEPT !.usage = NoUsage, !.used = Nothing]
      /\ ReadBack.owner = child.id /\ RanNothing
  BY OwnerIsTheChild, WatchedRanNothing DEF Accept, At, GoTo, Inv, TypeInv
<1>2. /\ run' \in Run /\ run'.step = "accepted" /\ run'.leg = run.leg /\ run'.mode = run.mode
  BY <1>1 DEF Run
<1>3. /\ usage \in [refused : UsageRecord, outcome : UsageRecord, model : Names]
      /\ counted \in [refused : Count, outcome : Count, by : SUBSET Models]
      /\ child \in Child /\ conf.entry \in Entry
  BY ConfTypes DEF Inv, TypeInv
<1>4. /\ child' \in Child /\ child'.usage = NoUsage /\ child'.used = Nothing
      /\ child'.id = child.id /\ child'.endpoint = child.endpoint /\ child'.ran = child.ran
      /\ child'.model = child.model /\ child'.reported = child.reported
  BY <1>1, <1>3, NothingUsed DEF Child
<1> DEFINE envelope == FoldRefused(child.usage, usage.refused)
           call == Add(child.used, counted.refused)
           outcome == Fold(usage.outcome, envelope)
           count == Add(counted.outcome, call)
           by == counted.by \cup {child.model}
<1>5. outcome \in UsageRecord /\ count \in Count /\ Matches(conf.entry, outcome, count)
  <2>1. /\ child.usage \in UsageRecord /\ child.used \in Count
        /\ usage.refused \in UsageRecord /\ counted.refused \in Count
        /\ usage.outcome \in UsageRecord /\ counted.outcome \in Count
        /\ Matches(conf.entry, child.usage, child.used)
        /\ Matches(conf.entry, usage.refused, counted.refused)
        /\ Matches(conf.entry, usage.outcome, counted.outcome)
    BY <1>3 DEF Child, Inv, UsageInv
  <2>2. envelope \in UsageRecord /\ call \in Count /\ Matches(conf.entry, envelope, call)
    <3>1. CASE child.usage.known
      BY <1>3, <2>1, <3>1, FoldMatches DEF FoldRefused
    <3>2. CASE ~child.usage.known
      <4>1. child.used = Nothing
        BY <2>1, <3>2 DEF Matches
      <4>2. call = counted.refused
        BY <2>1, <4>1 DEF Add, Nothing, Count
      <4> QED BY <2>1, <3>2, <4>2 DEF FoldRefused
    <3> QED BY <3>1, <3>2
  <2> HIDE DEF envelope, call
  <2> QED BY <1>3, <2>1, <2>2, FoldMatches
<1>6. /\ usage' = [refused |-> NoUsage, outcome |-> outcome, model |-> FirstNamed]
      /\ counted' = [refused |-> Nothing, outcome |-> count, by |-> by]
  BY DEF Accept
<1> HIDE DEF outcome, count
<1>7. child.model \in Models /\ FirstNamed \in Names /\ child.reported \in {Unnamed, child.model}
  BY <1>1, <1>3 DEF Inv, ModelInv, FirstNamed, Child
<1>8. /\ usage' \in [refused : UsageRecord, outcome : UsageRecord, model : Names]
      /\ usage'.refused = NoUsage /\ usage'.outcome = outcome /\ usage'.model = FirstNamed
      /\ counted' \in [refused : Count, outcome : Count, by : SUBSET Models]
      /\ counted'.refused = Nothing /\ counted'.outcome = count /\ counted'.by = by
  BY <1>3, <1>5, <1>6, <1>7, NothingUsed
<1>9. TypeInv'
  BY <1>1, <1>2, <1>4, <1>8 DEF Inv, TypeInv, Child
<1>10. CallInv'
  <2>1. RanNothing'
    BY <1>1, <1>2, <1>4 DEF RanNothing, Harness, Editing
  <2>2. AssertEnvClean' /\ ReviewIsolated' /\ run'.mode \in {"served", "supplied"}
        /\ (run'.mode = "served" => ReadMode(Harness)' = "served")
    BY <1>1, <1>2 DEF Inv, CallInv, AssertEnvClean, ReviewIsolated, Editing, Harness
  <2>3. child'.endpoint = (IF conf.named THEN "named" ELSE "vendor") /\ child'.id # Nobody
    BY <1>1, <1>4 DEF Inv, CallInv
  <2> QED BY <1>1, <1>2, <1>4, <2>1, <2>2, <2>3 DEF CallInv, At
<1>11. ModelInv'
  BY <1>1, <1>2, <1>4, <1>7, <1>8 DEF Inv, ModelInv, FirstNamed, At, Editing
<1>12. UsageInv'
  BY <1>1, <1>2, <1>3, <1>4, <1>5, <1>8, NothingUsed DEF Inv, UsageInv, At
<1> QED
  BY <1>9, <1>10, <1>11, <1>12 DEF Inv

(***************************************************************************)
(* The end of a pass.                                                      *)
(***************************************************************************)
Prices == [cost : Int, source : {"none", "harness", "table"}]

(* The table prices only what it can price rightly. *)
LEMMA PriceIs ==
    ASSUME NEW entry \in Entry, NEW t \in Tokens
    PROVE  /\ Price(entry, t) \in Prices
           /\ Price(entry, t).source = "table" => Plain(entry, t) /\ Price(entry, t).cost = Worth(entry, t)
           /\ ~entry.listed => Price(entry, t) = Unpriced
<1> DEFINE doubt == \/ ~entry.listed
                    \/ \E b \in Buckets : t[b] > 0 /\ Rate(entry, b) = None
                    \/ Ambiguous(entry, t)
                    \/ OverBreak(entry, t)
           parts == [b \in Buckets |-> IF t[b] = 0 THEN 0 ELSE t[b] * Rate(entry, b)]
<1>1. Price(entry, t) = IF doubt THEN Unpriced ELSE [cost |-> WithTotal(parts), source |-> "table"]
  BY DEF Price
<1>2. CASE doubt
  BY <1>1, <1>2, NothingUsed DEF Prices, Unpriced
<1>3. CASE ~doubt
  <2>1. \A b \in Buckets : t[b] \in Nat /\ Rate(entry, b) \in Int /\ Real(entry, b) \in Int
    BY EntryTypes, TokenTypes
  <2>2. \A b \in Buckets : parts[b] = t[b] * Real(entry, b)
    <3> SUFFICES ASSUME NEW b \in Buckets PROVE parts[b] = t[b] * Real(entry, b)
      OBVIOUS
    <3>1. CASE t[b] = 0
      BY <2>1, <3>1, Distributes
    <3>2. CASE t[b] # 0
      <4>1. t[b] > 0
        BY <2>1, <3>2
      <4>2. Real(entry, b) = Rate(entry, b)
        BY <1>3, <4>1 DEF Real
      <4> QED BY <3>2, <4>2
    <3> QED BY <3>1, <3>2
  <2>3. WithTotal(parts) = Worth(entry, t)
    BY <2>2 DEF WithTotal, Worth, Buckets
  <2> HIDE DEF parts
  <2>4. Price(entry, t) = [cost |-> Worth(entry, t), source |-> "table"]
    BY <1>1, <1>3, <2>3
  <2>5. Worth(entry, t) \in Int
    BY WorthIs
  <2> QED BY <1>3, <2>4, <2>5 DEF Prices, Plain
<1> QED
  BY <1>2, <1>3

LEMMA AttachIs ==
    ASSUME Inv
    PROVE  /\ AttachUsage \in Prices
           /\ AttachUsage.source = "table" =>
                Plain(conf.entry, usage.outcome.tokens)
                  /\ AttachUsage.cost = Worth(conf.entry, usage.outcome.tokens)
           /\ ~Editing /\ conf.named => AttachUsage = Unpriced
<1>1. /\ conf.entry \in Entry /\ usage.outcome.tokens \in Tokens /\ usage.outcome.cost \in Int
  BY ConfTypes DEF Inv, TypeInv, UsageRecord
<1>2. Unpriced \in Prices /\ Unpriced.source = "none"
  BY NothingUsed DEF Prices
<1> DEFINE unlisted == [conf.entry EXCEPT !.listed = FALSE]
           own == [cost |-> usage.outcome.cost, source |-> "harness"]
<1>3. own \in Prices /\ own.source = "harness"
  BY <1>1 DEF Prices
<1>4. unlisted \in Entry /\ ~unlisted.listed
  BY <1>1 DEF Entry
<1>5. Price(unlisted, usage.outcome.tokens) = Unpriced
  BY <1>1, <1>4, PriceIs
<1>6. /\ Price(conf.entry, usage.outcome.tokens) \in Prices
      /\ Price(conf.entry, usage.outcome.tokens).source = "table" =>
           Plain(conf.entry, usage.outcome.tokens)
             /\ Price(conf.entry, usage.outcome.tokens).cost = Worth(conf.entry, usage.outcome.tokens)
  BY <1>1, PriceIs
<1>7. CASE ~usage.outcome.known
  BY <1>2, <1>7 DEF AttachUsage
<1>8. CASE usage.outcome.known /\ ~Editing
  <2>1. AttachUsage = IF conf.named THEN Unpriced
                      ELSE IF usage.outcome.cost # None THEN own
                      ELSE Price(conf.entry, usage.outcome.tokens)
    BY <1>8 DEF AttachUsage, Attach, BillingFor
  <2> HIDE DEF own, unlisted
  <2> QED BY <1>2, <1>3, <1>6, <2>1
<1>9. CASE usage.outcome.known /\ Editing
  <2>1. AttachUsage = IF usage.outcome.cost # None THEN own
                      ELSE Price(unlisted, usage.outcome.tokens)
    BY <1>9 DEF AttachUsage, Attach
  <2> HIDE DEF own, unlisted
  <2> QED BY <1>2, <1>3, <1>5, <1>9, <2>1
<1> QED
  BY <1>7, <1>8, <1>9

LEMMA EndPassStep ==
    ASSUME Inv, EndPass PROVE Inv'
<1> DEFINE tokens == WithTotal(usage.outcome.tokens)
           signed == [model |-> usage.model, by |-> counted.by]
           kept == [s \in Stems |-> IF s[1] = run.leg THEN Nobody ELSE payloads[s]]
           m == [tokens |-> tokens, price |-> AttachUsage, really |-> counted.outcome]
<1>1. /\ conf' = conf /\ child' = child /\ accepted' = accepted /\ usage' = usage
      /\ counted' = counted /\ run.step = "accepted" /\ run \in Run
      /\ run' = [run EXCEPT !.step = "done"] /\ marker' = m
      /\ review' = (IF Editing THEN review ELSE signed)
      /\ payloads' = (IF conf.keepTranscripts THEN payloads ELSE kept)
      /\ Editing => ModelsDiverged
  BY DEF EndPass, At, GoTo, Inv, TypeInv
<1>2. run' \in Run /\ run'.step = "done" /\ run'.leg = run.leg
  BY <1>1 DEF Run
<1>3. /\ AttachUsage \in Prices
      /\ AttachUsage.source = "table" =>
           Plain(conf.entry, usage.outcome.tokens)
             /\ AttachUsage.cost = Worth(conf.entry, usage.outcome.tokens)
      /\ ~Editing /\ conf.named => AttachUsage = Unpriced
  BY AttachIs
<1>4. /\ usage.outcome \in UsageRecord /\ usage.outcome.tokens \in Tokens
      /\ counted.outcome \in Count
      /\ Matches(conf.entry, usage.outcome, counted.outcome)
  BY DEF Inv, TypeInv, UsageRecord, UsageInv
<1>5. tokens \in Nat /\ tokens = counted.outcome.tokens
  BY <1>4, TokenTypes DEF Matches
<1>6. AttachUsage.source = "table" => AttachUsage.cost = counted.outcome.charge
  BY <1>3, <1>4 DEF Matches
<1> HIDE DEF tokens
<1>7. /\ m \in [tokens : Nat, price : [cost : Int, source : {"none", "harness", "table"}],
                really : Count]
      /\ m.tokens = tokens /\ m.price = AttachUsage /\ m.really = counted.outcome
  BY <1>3, <1>4, <1>5 DEF Prices
<1> HIDE DEF m
<1>8. review' \in [model : Names, by : SUBSET Models]
  BY <1>1 DEF Inv, TypeInv
<1>9. payloads' \in [Stems -> Ids]
  <2>1. payloads \in [Stems -> Ids] /\ Nobody \in Ids
    BY DEF Inv, TypeInv, Ids
  <2> QED BY <1>1, <2>1
<1> HIDE DEF kept
<1>10. TypeInv'
  BY <1>1, <1>2, <1>7, <1>8, <1>9 DEF Inv, TypeInv
<1>11. CallInv'
  BY <1>2 DEF CallInv, At
<1>12. ModelInv'
  <2>1. review'.model # Unnamed => review'.model \in review'.by
    BY <1>1 DEF Inv, ModelInv
  <2>2. Editing' = Editing /\ (Editing => review' = review)
    BY <1>1, <1>2 DEF Editing
  <2>3. Editing => ModelsDiverged'
    <3> SUFFICES ASSUME Editing PROVE ModelsDiverged'
      OBVIOUS
    <3>1. ModelsDiverged /\ review' = review /\ usage' = usage /\ conf' = conf
      BY <1>1, <2>2
    <3> QED BY <3>1 DEF ModelsDiverged, ConfiguredDifference
  <2> QED BY <1>1, <1>2, <2>1, <2>2, <2>3 DEF Inv, ModelInv, At
<1>13. UsageInv'
  <2>1. Editing' = Editing
    BY <1>2 DEF Editing
  <2>2. /\ marker'.tokens = marker'.really.tokens
        /\ marker'.price.source = "table" => marker'.price.cost = marker'.really.charge
        /\ ~Editing /\ conf.named => marker'.price = Unpriced
    BY <1>1, <1>3, <1>5, <1>6, <1>7
  <2> QED BY <1>1, <2>1, <2>2 DEF Inv, UsageInv
<1> QED
  BY <1>10, <1>11, <1>12, <1>13 DEF Inv

LEMMA NextPassStep ==
    ASSUME Inv, NextPass PROVE Inv'
<1>1. PICK leg \in Legs :
        run' = [step |-> "gate", leg |-> leg, pass |-> run.pass + 1, call |-> 1, attempt |-> 1,
                mode |-> ""]
  BY DEF NextPass
<1>2. /\ conf' = conf /\ payloads' = payloads /\ review' = review /\ accepted' = Nobody
      /\ child' = NoChild /\ usage' = IdleUsage /\ counted' = NoCount /\ marker' = NoMarker
      /\ run \in Run
  BY DEF NextPass, Inv, TypeInv
<1>3. run' \in Run /\ run'.step = "gate" /\ run'.leg = leg
  <2>1. run.pass + 1 \in Nat
    <3>1. run.pass \in Nat
      BY <1>2 DEF Run
    <3> QED BY <3>1
  <2> QED BY <1>1, <2>1, FirstAre DEF Run
<1>4. NoChild \in Child /\ NoChild.reported = Unnamed /\ NoChild.usage = NoUsage /\ NoChild.used = Nothing
  BY NothingUsed DEF NoChild, Child, Ids, Names, Unnamed, Nothing
<1>5. /\ IdleUsage \in [refused : UsageRecord, outcome : UsageRecord, model : Names]
      /\ IdleUsage.model = Unnamed /\ IdleUsage.refused = NoUsage /\ IdleUsage.outcome = NoUsage
  BY NothingUsed DEF IdleUsage, Names
<1>6. /\ NoCount \in [refused : Count, outcome : Count, by : SUBSET Models]
      /\ NoCount.refused = Nothing /\ NoCount.outcome = Nothing
  BY NothingUsed DEF NoCount
<1>7. /\ NoMarker \in [tokens : Nat, price : [cost : Int, source : {"none", "harness", "table"}],
                       really : Count]
      /\ NoMarker.tokens = NoMarker.really.tokens /\ NoMarker.price.source = "none"
  BY NothingUsed DEF NoMarker, Nothing
<1>8. Nobody \in Ids
  BY DEF Ids
<1>9. TypeInv'
  BY <1>2, <1>3, <1>4, <1>5, <1>6, <1>7, <1>8 DEF Inv, TypeInv
<1>10. CallInv'
  BY <1>3 DEF CallInv, At
<1>11. ModelInv'
  BY <1>2, <1>3, <1>4, <1>5 DEF Inv, ModelInv, At, Editing
<1>12. UsageInv'
  BY <1>2, <1>3, <1>4, <1>5, <1>6, <1>7, ConfTypes, NothingUsed DEF Inv, UsageInv, At
<1> QED
  BY <1>9, <1>10, <1>11, <1>12 DEF Inv

LEMMA HarnessStep == Inv /\ [Next]_vars => Inv'
<1> SUFFICES ASSUME Inv, [Next]_vars PROVE Inv'
  OBVIOUS
<1>1. CASE Gate
  BY <1>1, GateStep
<1>2. CASE Degrade
  BY <1>2, DegradeStep
<1>3. CASE Children
  BY <1>3, ChildrenStep
<1>4. CASE Fail \/ Substituted
  BY <1>4, GivenUpStep
<1>5. CASE RetryFailure
  BY <1>5, RetryFailureStep
<1>6. CASE RetryAnswer
  BY <1>6, RetryAnswerStep
<1>7. CASE Accept
  BY <1>7, AcceptStep
<1>8. CASE NextCall
  BY <1>8, NextCallStep
<1>9. CASE EndPass
  BY <1>9, EndPassStep
<1>10. CASE NextPass
  BY <1>10, NextPassStep
<1>11. CASE UNCHANGED vars
  <2>1. /\ conf' = conf /\ run' = run /\ payloads' = payloads /\ child' = child
        /\ accepted' = accepted /\ usage' = usage /\ marker' = marker /\ review' = review
        /\ counted' = counted
    BY <1>11 DEF vars
  <2>2. TypeInv'
    BY <2>1 DEF Inv, TypeInv
  <2>3. CallInv'
    BY <2>1 DEF Inv, CallInv, At, AssertEnvClean, ReviewIsolated, RanNothing, Editing, Harness, Stem
  <2>4. ModelInv'
    BY <2>1 DEF Inv, ModelInv, At, Editing, ModelsDiverged, ConfiguredDifference
  <2>5. UsageInv'
    BY <2>1 DEF Inv, UsageInv, At, Editing
  <2> QED BY <2>2, <2>3, <2>4, <2>5 DEF Inv
<1> QED
  BY <1>1, <1>2, <1>3, <1>4, <1>5, <1>6, <1>7, <1>8, <1>9, <1>10, <1>11 DEF Next

LEMMA HarnessIsSound == Spec => []Inv
<1>1. Init => Inv
  BY HarnessInit
<1>2. Inv /\ [Next]_vars => Inv'
  BY HarnessStep
<1> QED
  BY <1>1, <1>2, PTL DEF Spec

-------------------------------------------------------------------------------
(* The answer a leg accepts is that of the child it just ran: the payload  *)
(* file is emptied before each attempt, so an earlier pass's answer under  *)
(* the same name is never read (preCreate, runlog/transcript.go); the      *)
(* child's endpoint is the configured one, as no inherited one passes the  *)
(* gate (AssertEnvClean); and the watch lets no command through where the  *)
(* adapter keeps a record of one (ReviewCommand, ResolveCommand).          *)
THEOREM AcceptedAnswerIsTheChilds == Spec => []AcceptedIsTheChilds
<1>1. Inv => AcceptedIsTheChilds
  BY DEF Inv, CallInv, RanNothing, AcceptedIsTheChilds, At
<1> QED
  BY <1>1, HarnessIsSound, PTL

(* What a pass says it used is what its calls used, for any work and any   *)
(* way of counting it, through any number of calls and refused attempts,   *)
(* and a price from the table is never below the vendor's charge, for any  *)
(* rates and any long-context break (addUsageBuckets, Price, Attach).      *)
THEOREM UsageIsAccountedFor == Spec => []UsageIsTrue
<1>1. Inv => UsageIsTrue
  <2> SUFFICES ASSUME Inv PROVE UsageIsTrue
    OBVIOUS
  <2>1. marker.price.cost \in Int /\ marker.really.charge \in Int
    BY DEF Inv, TypeInv, Count
  <2>2. marker.price.cost = marker.really.charge => marker.price.cost >= marker.really.charge
    BY <2>1
  <2> QED BY <2>2 DEF Inv, UsageInv, UsageIsTrue
<1> QED
  BY <1>1, HarnessIsSound, PTL

(* A resolve pass that finishes does not rest on the one model that        *)
(* answered the review, when the legs were told to differ and both named   *)
(* theirs, whatever models answer (assertDiverged, resolve/mutate.go).     *)
THEOREM LegsRestOnTwoModels == Spec => []LegsDiverge
<1>1. Inv => LegsDiverge
  <2> SUFFICES ASSUME Inv, At("done"), Editing, ConfiguredDifference, child.reported # Unnamed,
                      review.model # Unnamed, review.by = {child.model}
               PROVE  FALSE
    BY DEF LegsDiverge
  <2>1. child.reported = child.model /\ usage.model = child.reported /\ ModelsDiverged
    BY DEF Inv, ModelInv, At
  <2>2. review.model = child.model
    BY DEF Inv, ModelInv
  <2> QED BY <2>1, <2>2 DEF ModelsDiverged
<1> QED
  BY <1>1, HarnessIsSound, PTL
===============================================================================
