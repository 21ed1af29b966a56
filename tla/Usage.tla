-------------------------------- MODULE Usage ---------------------------------
(***************************************************************************)
(* What a model call is said to have cost (internal/harness/usage.go,      *)
(* pricing.go): the vendor's report read into one shape of record, refused *)
(* attempts folded in, and a price put on it.  Tokens and rates are small  *)
(* numbers; a cost is in the unit of the rates.                            *)
(***************************************************************************)
EXTENDS Integers, Sequences

CONSTANTS
    Works,  \* bound: the work a call may be, see Work
    Entries \* bound: what the price table may say of the model, see Entry

None == -1  \* an absent number

(* What a call really consumed, by the lifetime of its cache writes; the   *)
(* helper's share is that of a second model of the same call.              *)
Work == [fresh : Nat, read : Nat, write5m : Nat, write1h : Nat, helper1h : Nat, out : Nat]

(* A model in the table: its rates, None when the table has no number, the *)
(* rate of a one-hour write ("undeclared" is 0) and the long-context break.*)
Entry == [listed : BOOLEAN, input : Int, output : Int, read : Int, write : Int,
          above1h : Int, threshold : Int]

ASSUME UsageAssumption == Works \subseteq Work /\ Entries \subseteq Entry

Buckets == {"fresh", "read", "write5m", "write1h", "unsplit", "output"}

Spent(fresh, read, write5m, write1h, unsplit, output) ==
    [b \in Buckets |->
        CASE b = "fresh" -> fresh [] b = "read" -> read [] b = "write5m" -> write5m
          [] b = "write1h" -> write1h [] b = "unsplit" -> unsplit [] b = "output" -> output]

Zero == Spent(0, 0, 0, 0, 0, 0)

(* A usage record: the buckets and the harness's own cost.                 *)
NoUsage == [known |-> FALSE, tokens |-> Zero, cost |-> None]

WithTotal(tokens) ==
    tokens["fresh"] + tokens["read"] + tokens["write5m"] + tokens["write1h"]
        + tokens["unsplit"] + tokens["output"]

Writes(w) == w.write5m + w.write1h + w.helper1h
Consumed(w) == w.fresh + w.read + Writes(w) + w.out

(***************************************************************************)
(* The report of each vendor (external) and how it is read.                *)
(***************************************************************************)
(* Claude counts every model, and splits the main model's writes only.     *)
ClaudeReport(w, split) ==
    [input |-> w.fresh, cacheRead |-> w.read, cacheCreation |-> Writes(w), output |-> w.out,
     split |-> split, ephemeral5m |-> w.write5m, ephemeral1h |-> w.write1h]

ParseClaude(r) ==
    LET declared == r.ephemeral5m + r.ephemeral1h
    IN  IF r.split
        THEN Spent(r.input, r.cacheRead, r.ephemeral5m, r.ephemeral1h,
                   IF r.cacheCreation > declared THEN r.cacheCreation - declared ELSE 0, r.output)
        ELSE Spent(r.input, r.cacheRead, 0, 0, r.cacheCreation, r.output)

(* Codex counts the cached input in the input.                             *)
CodexReport(w) ==
    [input |-> w.fresh + w.read, cached |-> w.read, write |-> Writes(w), output |-> w.out]

(* Mutant: the cached input is counted twice. *)
ParseCodexTwice(r) ==
    Spent(r.input, r.cached, 0, 0, r.write, r.output)

ParseCodexEvents(r) == Spent(r.input - r.cached, r.cached, 0, 0, r.write, r.output)

(* The others report input, cache and output side by side.  Agy counts no  *)
(* writes, and its own total is not read; opencode's are in the session it *)
(* exports after the run.                                                  *)
PlainReport(w) == [input |-> w.fresh, read |-> w.read, write |-> Writes(w), output |-> w.out]

ParseGrok(r) == Spent(r.input, r.read, 0, 0, r.write, r.output)

ParseAgy(r) == Spent(r.input, r.read, 0, 0, 0, r.output)

ParseOpencodeExport(r) == Spent(r.input, r.read, 0, 0, r.write, r.output)

(* The work a report of this harness shows.                                *)
Reported(h, w) ==
    IF h = "agy" THEN [w EXCEPT !.write5m = 0, !.write1h = 0, !.helper1h = 0] ELSE w

ParseUsage(h, w, split) ==
    CASE h = "claude" -> ParseClaude(ClaudeReport(w, split))
      [] h = "codex" -> ParseCodexEvents(CodexReport(w))
      [] h = "grok" -> ParseGrok(PlainReport(w))
      [] h = "agy" -> ParseAgy(PlainReport(w))
      [] OTHER -> ParseOpencodeExport(PlainReport(w))

(***************************************************************************)
(* Folding.  The buckets are added; the cost stays the first record's.     *)
(***************************************************************************)
AddUsageBuckets(dst, src) ==
    [dst EXCEPT !.tokens = [b \in Buckets |-> dst.tokens[b] + src.tokens[b]]]

Fold(sum, attempt) ==
    IF ~attempt.known THEN sum
    ELSE IF ~sum.known THEN attempt ELSE AddUsageBuckets(sum, attempt)

(* The refused attempts join the accepted one, whose cost stands; over an  *)
(* accepted answer without usage the first refused one's does.             *)
FoldRefused(envelope, refused) ==
    IF envelope.known THEN Fold(envelope, refused) ELSE refused

(***************************************************************************)
(* Pricing.                                                                *)
(***************************************************************************)
CacheWrite1hRate(entry) == IF entry.above1h > 0 THEN entry.above1h ELSE entry.write

Rate(entry, bucket) ==
    CASE bucket = "fresh" -> entry.input
      [] bucket = "read" -> entry.read
      [] bucket = "write1h" -> CacheWrite1hRate(entry)
      [] bucket = "output" -> entry.output
      [] OTHER -> entry.write

(* Mutant: an unsplit write is priced at the short lifetime. *)
NeverAmbiguous(entry, tokens) == FALSE

(* An unsplit write has one price only when both lifetimes have the same.  *)
Ambiguous(entry, tokens) ==
    tokens.unsplit > 0 /\ entry.above1h > 0 /\ entry.above1h # entry.write

(* A sum may hide a call over the long-context break.                      *)
OverBreak(entry, tokens) ==
    entry.threshold # None /\ WithTotal(tokens) - tokens.output >= entry.threshold

Unpriced == [cost |-> None, source |-> "none"]

Price(entry, tokens) ==
    IF \/ ~entry.listed
       \/ \E b \in Buckets : tokens[b] > 0 /\ Rate(entry, b) = None
       \/ Ambiguous(entry, tokens)
       \/ OverBreak(entry, tokens)
    THEN Unpriced
    ELSE [cost |-> WithTotal([b \in Buckets |-> IF tokens[b] = 0 THEN 0
                                                ELSE tokens[b] * Rate(entry, b)]),
          source |-> "table"]

(* A named endpoint has no price; the harness's own stands; the table's    *)
(* otherwise.                                                              *)
Attach(usage, entry, billing) ==
    IF billing = "endpoint" THEN Unpriced
    ELSE IF usage.cost # None THEN [cost |-> usage.cost, source |-> "harness"]
    ELSE Price(entry, usage.tokens)

(* What the call costs at the vendor's rates (external), which are twice   *)
(* the listed ones for a call over the break.                              *)
Charged(entry, w) ==
    LET at(rate, n) == IF n = 0 THEN 0 ELSE n * (IF rate = None THEN 1 ELSE rate)
        base == at(entry.input, w.fresh) + at(entry.read, w.read) + at(entry.output, w.out)
                + at(entry.write, w.write5m)
                + at(CacheWrite1hRate(entry), w.write1h + w.helper1h)
        input == w.fresh + w.read + Writes(w)
    IN  IF entry.threshold # None /\ input > entry.threshold THEN 2 * base ELSE base
===============================================================================
