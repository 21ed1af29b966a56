------------------------------- MODULE Packing --------------------------------
(***************************************************************************)
(* Packing the outstanding required files into calls (internal/intel:      *)
(* PlanCalls, the splitter and the budget).  One step is one turn of a     *)
(* loop of the code: a file is placed, or the parts of a file that fits no *)
(* call are measured and shrunk once.                                      *)
(*                                                                         *)
(* Content is sizes: a line has a size and the sides of the diff it is on, *)
(* a block is a slice of one hunk with the line numbers its header claims. *)
(* A prompt measures the shared context, a frame and its content.          *)
(***************************************************************************)
EXTENDS Integers, FiniteSets, SequencesExt

CONSTANTS
    Shapes,           \* the files to explore, see Shape
    MaxFiles,         \* bound: required files
    SharedSizes,      \* the sizes of the shared context to explore
    PackBytes,        \* P, the packing limit
    HardBytes,        \* H, the hard limit
    Frame,            \* what a file's or a part's section adds to its content
    HunkHead,         \* the size of an @@ line
    PartSlackBytes,   \* partSlackBytes
    MinContent,       \* the least content budget of a part, 512
    VerifyRounds,     \* verifyRounds
    MaxFilesPerBatch, \* files in a call
    MaxUnitsPerPass   \* files in a pass

(* A line: its size and how many lines of each side it is. *)
Lines == [size : Nat \ {0}, old : 0..1, new : 0..1]
Hunk == [old : Nat, new : Nat, lines : Seq(Lines) \ {<<>>}]

(* A file: its hunks, what its whole rendering adds to them, and whether   *)
(* it is recognised as generated.                                          *)
Shape == [hunks : Seq(Hunk), extra : Nat, generated : BOOLEAN]

ASSUME PackingAssumption ==
    /\ Shapes \subseteq Shape
    /\ SharedSizes \subseteq Nat
    /\ {MaxFiles, PackBytes, HardBytes, MaxFilesPerBatch, MaxUnitsPerPass} \subseteq Nat \ {0}
    /\ PackBytes <= HardBytes
    /\ {Frame, HunkHead, PartSlackBytes, MinContent, VerifyRounds} \subseteq Nat

VARIABLES
    files,     \* the required files, in path order
    shared,    \* the size of the shared context
    verdicts,  \* the verdict the pass starts with for each file, or "none"
    plan,      \* the plan so far
    pack       \* the loop: what it has in hand

packingVars == <<files, shared, verdicts, plan, pack>>

Sum(f, S) == SumFunctionOnSet(f, S)
Outstanding == SetToSortSeq({u \in DOMAIN files : verdicts[u] = "none"}, <)

(* The budget of a call: the hard limit once shared context passes P.      *)
SharedContextHalts == shared > HardBytes
CallBudget == IF shared > PackBytes THEN HardBytes ELSE PackBytes

(***************************************************************************)
(* Blocks and parts.                                                       *)
(***************************************************************************)
Line(u, b) == files[u].hunks[b.hunk].lines
Side(u, b, side, S) == Sum([k \in DOMAIN Line(u, b) |-> Line(u, b)[k][side]], S)

(* A hunk as the block it starts as. *)
UnitBlocks(u) ==
    [h \in DOMAIN files[u].hunks |->
        [hunk |-> h, from |-> 1, to |-> Len(files[u].hunks[h].lines),
         old |-> files[u].hunks[h].old, new |-> files[u].hunks[h].new]]

Body(u, b) == Side(u, b, "size", b.from .. b.to)
BlockBytes(u, b) == HunkHead + Body(u, b)
ContentBytes(u, blocks) ==
    Sum([k \in DOMAIN blocks |-> BlockBytes(u, blocks[k])], DOMAIN blocks)

(* Mutant: a chunk keeps the line numbers of the hunk it was cut from. *)
ChunkUnnumbered(u, b, k) == [b EXCEPT !.from = k, !.to = k]

(* The chunk that starts at a line: its header counts what came before.    *)
Chunk(u, b, k) ==
    [b EXCEPT !.from = k, !.to = k,
       !.old = @ + Side(u, b, "old", b.from .. k - 1),
       !.new = @ + Side(u, b, "new", b.from .. k - 1)]

(* A block cut greedily into chunks of at most max bytes of lines; a line  *)
(* that is larger is a chunk by itself.                                    *)
ChunkHunk(u, b, max) ==
    LET take(chunks, k) ==
            IF chunks # <<>> /\ Body(u, [Last(chunks) EXCEPT !.to = k]) <= max
            THEN [chunks EXCEPT ![Len(chunks)].to = k]
            ELSE Append(chunks, Chunk(u, b, k))
    IN  FoldLeft(take, <<>>, [k \in 1 .. b.to - b.from + 1 |-> b.from + k - 1])

(* Blocks packed into parts of at most max bytes.  A block that is larger  *)
(* closes the part before it, and each of its chunks is a part.            *)
RepackContent(u, blocks, max) ==
    LET closed(acc) == IF acc.open = <<>> THEN acc.parts ELSE Append(acc.parts, acc.open)
        take(acc, b) ==
            IF BlockBytes(u, b) > max
            THEN [open |-> <<>>,
                  parts |-> closed(acc) \o
                    [k \in DOMAIN ChunkHunk(u, b, max) |-> <<ChunkHunk(u, b, max)[k]>>]]
            ELSE IF acc.open # <<>> /\ ContentBytes(u, Append(acc.open, b)) > max
            THEN [open |-> <<b>>, parts |-> closed(acc)]
            ELSE [acc EXCEPT !.open = Append(@, b)]
    IN  closed(FoldLeft(take, [parts |-> <<>>, open |-> <<>>], blocks))

Larger(a, b) == IF a > b THEN a ELSE b
ContentBudget == Larger(MinContent, CallBudget - shared - PartSlackBytes)

(* A part over the budget is repacked at half its size. *)
ShrinkContent(u, part) ==
    LET half == Larger(1, ContentBytes(u, part) \div 2)
    IN  RepackContent(u, part,
            IF half >= ContentBudget THEN Larger(1, ContentBudget \div 2) ELSE half)

(***************************************************************************)
(* Measuring.                                                              *)
(***************************************************************************)
WholeBytes(u) == Frame + files[u].extra + ContentBytes(u, UnitBlocks(u))
Fits(units) ==
    shared + Sum([k \in DOMAIN units |-> WholeBytes(units[k])], DOMAIN units) <= CallBudget
PartFits(u, part) == shared + Frame + ContentBytes(u, part) <= CallBudget

(* A call: whole files, or one part of one file. *)
WholeCall(units) == [files |-> units, index |-> 0, count |-> 0, blocks |-> <<>>]
PartCall(u, parts, k) ==
    [files |-> <<u>>, index |-> k, count |-> Len(parts), blocks |-> parts[k]]

NoPlan == [calls |-> <<>>, carried |-> <<>>, skipped |-> {}, halt |-> FALSE]
PackFrom(next) == [step |-> "place", next |-> next, current |-> <<>>, admitted |-> 0,
                   parts |-> <<>>, round |-> 0]
Unpacked == [PackFrom(1) EXCEPT !.step = "begin"]

PackingInit ==
    /\ files \in UNION {[1 .. n -> Shapes] : n \in 1 .. MaxFiles}
    /\ shared \in SharedSizes
    /\ verdicts = [u \in DOMAIN files |-> "none"]
    /\ plan = NoPlan /\ pack = Unpacked

(***************************************************************************)
(* The loop.                                                               *)
(***************************************************************************)
Inputs == <<files, shared, verdicts>>
Unit == Outstanding[pack.next]

(* A full call is closed before the next file is tried. *)
Open == IF Len(pack.current) >= MaxFilesPerBatch THEN <<>> ELSE pack.current
Flushed ==
    IF pack.current = <<>> THEN plan.calls ELSE Append(plan.calls, WholeCall(pack.current))

(* Shared context past the hard limit leaves room for no file. *)
BeginPacking ==
    /\ pack.step = "begin"
    /\ plan' = [NoPlan EXCEPT !.halt = SharedContextHalts]
    /\ pack' = [PackFrom(1) EXCEPT !.step = IF SharedContextHalts THEN "done" ELSE "place"]
    /\ UNCHANGED Inputs

Placing ==
    /\ pack.step = "place" /\ pack.next <= Len(Outstanding)
    /\ pack.admitted < MaxUnitsPerPass
    /\ UNCHANGED Inputs

Join ==
    /\ Placing /\ Fits(Append(Open, Unit))
    /\ plan' = [plan EXCEPT !.calls = IF Open = pack.current THEN @ ELSE Flushed]
    /\ pack' = [pack EXCEPT !.next = @ + 1, !.admitted = @ + 1,
                            !.current = Append(Open, Unit)]

(* A file that does not fit beside the others starts the next call. *)
StartCall ==
    /\ Placing /\ ~Fits(Append(Open, Unit)) /\ Fits(<<Unit>>)
    /\ plan' = [plan EXCEPT !.calls = Flushed]
    /\ pack' = [pack EXCEPT !.next = @ + 1, !.admitted = @ + 1, !.current = <<Unit>>]

Oversized == Placing /\ ~Fits(Append(Open, Unit)) /\ ~Fits(<<Unit>>)

SkipGenerated ==
    /\ Oversized /\ files[Unit].generated
    /\ plan' = [plan EXCEPT !.calls = Flushed, !.skipped = @ \cup {Unit}]
    /\ pack' = [pack EXCEPT !.next = @ + 1, !.current = <<>>]

(* What has no hunks cannot be split and rides alone, over the budget.     *)
RideWhole ==
    /\ Oversized /\ ~files[Unit].generated /\ files[Unit].hunks = <<>>
    /\ plan' = [plan EXCEPT !.calls = Append(Flushed, WholeCall(<<Unit>>))]
    /\ pack' = [pack EXCEPT !.next = @ + 1, !.admitted = @ + 1, !.current = <<>>]

Split ==
    /\ Oversized /\ ~files[Unit].generated /\ files[Unit].hunks # <<>>
    /\ plan' = [plan EXCEPT !.calls = Flushed]
    /\ pack' = [pack EXCEPT !.step = "verify", !.current = <<>>, !.round = 0,
                  !.parts = RepackContent(Unit, UnitBlocks(Unit), ContentBudget)]

Emitted(parts) ==
    /\ plan' = [plan EXCEPT !.calls = @ \o [k \in DOMAIN parts |-> PartCall(Unit, parts, k)]]
    /\ pack' = [pack EXCEPT !.step = "place", !.parts = <<>>, !.next = @ + 1,
                            !.admitted = @ + 1]

(* Mutant: the parts are measured once and never shrunk. *)
VerifyOnce ==
    /\ pack.step = "verify"
    /\ Emitted(pack.parts)
    /\ UNCHANGED Inputs

(* A round: every part is measured, and the ones over are shrunk.          *)
Verify ==
    LET fits(k) == PartFits(Unit, pack.parts[k])
        next == FlattenSeq([k \in DOMAIN pack.parts |->
                    IF fits(k) THEN <<pack.parts[k]>> ELSE ShrinkContent(Unit, pack.parts[k])])
    IN  /\ pack.step = "verify"
        /\ IF pack.round + 1 >= VerifyRounds \/ \A k \in DOMAIN pack.parts : fits(k)
           THEN Emitted(next)
           ELSE /\ pack' = [pack EXCEPT !.parts = next, !.round = @ + 1]
                /\ UNCHANGED plan
        /\ UNCHANGED Inputs

(* Mutant: what is over the cap of a pass is left out of the plan. *)
CarryNothing ==
    /\ pack.step = "place" /\ pack.next <= Len(Outstanding)
    /\ pack.admitted = MaxUnitsPerPass
    /\ plan' = [plan EXCEPT !.calls = Flushed]
    /\ pack' = [pack EXCEPT !.step = "done", !.current = <<>>]
    /\ UNCHANGED Inputs

(* The pass is full: the rest is for a later one. *)
Carry ==
    /\ pack.step = "place" /\ pack.next <= Len(Outstanding)
    /\ pack.admitted = MaxUnitsPerPass
    /\ plan' = [plan EXCEPT !.calls = Flushed,
                            !.carried = SubSeq(Outstanding, pack.next, Len(Outstanding))]
    /\ pack' = [pack EXCEPT !.step = "done", !.current = <<>>]
    /\ UNCHANGED Inputs

FinishPacking ==
    /\ pack.step = "place" /\ pack.next > Len(Outstanding)
    /\ plan' = [plan EXCEPT !.calls = Flushed]
    /\ pack' = [pack EXCEPT !.step = "done", !.current = <<>>]
    /\ UNCHANGED Inputs

PackingNext ==
    \/ BeginPacking \/ Join \/ StartCall \/ SkipGenerated \/ RideWhole
    \/ Split \/ Verify \/ Carry \/ FinishPacking

(***************************************************************************)
(* What a finished plan must be.                                           *)
(***************************************************************************)
Planned == pack.step = "done" /\ ~plan.halt
PartsOf(u) == SelectSeq(plan.calls, LAMBDA c : c.count > 0 /\ c.files = <<u>>)

(* The files the calls hold, a split file once. *)
Scheduled ==
    FlattenSeq([k \in DOMAIN plan.calls |->
        IF plan.calls[k].index <= 1 THEN plan.calls[k].files ELSE <<>>])

(* Whatever mix of files meets the byte, file and pass limits, every       *)
(* outstanding file is in exactly one call, in all the parts of its split  *)
(* one after the other, carried or skipped; the calls, then what is        *)
(* carried, go in path order (PlanCalls, intel/batch.go).                  *)
EveryUnitOnce ==
    Planned =>
        /\ SelectSeq(Outstanding, LAMBDA u : u \notin plan.skipped)
             = Scheduled \o plan.carried
        /\ \A u \in plan.skipped : files[u].generated /\ ~Fits(<<u>>)
        /\ \A u \in ToSet(Scheduled) : \A k \in DOMAIN PartsOf(u) :
             PartsOf(u)[k].index = k /\ PartsOf(u)[k].count = Len(PartsOf(u))
        /\ Len(Scheduled) <= MaxUnitsPerPass
        /\ plan.carried # <<>> => Len(Scheduled) = MaxUnitsPerPass

(* Every prompt of the plan is within the budget, but for a file that has  *)
(* nothing to split on and a part that splitting cannot make smaller: one  *)
(* line, or no more lines than its own header weighs (splitAndVerify).     *)
CallsFit ==
    Planned =>
        \A k \in DOMAIN plan.calls :
            LET c == plan.calls[k]
                u == c.files[1]
            IN  IF c.count = 0
                THEN /\ Len(c.files) <= MaxFilesPerBatch
                     /\ Fits(c.files) \/ (Len(c.files) = 1 /\ files[u].hunks = <<>>)
                ELSE \/ PartFits(u, c.blocks)
                     \/ /\ Len(c.blocks) = 1
                        /\ \/ c.blocks[1].from = c.blocks[1].to
                           \/ Body(u, c.blocks[1]) <= HunkHead

(* A split shows the whole file: its parts have every line of every hunk   *)
(* once and in order, and the header of each chunk gives its first line    *)
(* the number that line has in the file (chunkHunk, intel/split.go).       *)
SplitShowsTheFile ==
    Planned =>
        \A u \in DOMAIN files : PartsOf(u) # <<>> =>
            LET blocks == FlattenSeq([k \in DOMAIN PartsOf(u) |-> PartsOf(u)[k].blocks])
                shown == FlattenSeq([k \in DOMAIN blocks |->
                    [i \in 1 .. blocks[k].to - blocks[k].from + 1 |->
                        <<blocks[k].hunk, blocks[k].from + i - 1>>]])
                whole == FlattenSeq([h \in DOMAIN files[u].hunks |->
                    [i \in DOMAIN files[u].hunks[h].lines |-> <<h, i>>]])
                first(b, side) == files[u].hunks[b.hunk][side]
                                    + Side(u, b, side, 1 .. b.from - 1)
            IN  /\ shown = whole
                /\ \A k \in DOMAIN blocks :
                     blocks[k].old = first(blocks[k], "old") /\ blocks[k].new = first(blocks[k], "new")
===============================================================================
