------------------------------- MODULE Harness --------------------------------
(***************************************************************************)
(* Putting a call to a harness (internal/harness): the gates before it,    *)
(* what each adapter asks of its command line, what it reads back, the     *)
(* watch for a command that should not have run, and what the pass says it *)
(* used and who answered it.  A review pass makes several calls, a resolve *)
(* pass one; an answer that is refused is asked for again; a resolve pass  *)
(* answered by the reviewer's model ends before it writes anything.        *)
(*                                                                         *)
(* How often an attempt may be repeated is in ReviewCalls and ResolveLeg;  *)
(* here an answer may be refused for a reason of its own.  The child is    *)
(* the environment: it obeys its flags or not.                             *)
(***************************************************************************)
EXTENDS Usage, Naming

CONSTANTS
    Confs,       \* the configurations to explore, see Conf
    MaxPasses,   \* bound: passes of one run directory
    MaxCalls,    \* bound: calls of a review pass
    MaxAttempts  \* bound: attempts at a call

Harnesses == {"claude", "codex", "agy", "grok", "opencode"}

Legs == {"review", "resolve"}

(* The harness of both legs, the model each asks for and those that may    *)
(* really answer, the work a call may be, the CLI version installed, the   *)
(* endpoint configured and its token, an endpoint inherited in the         *)
(* environment, the price table's entry, and whether transcripts are kept. *)
Conf == [harness : Harnesses, asked : [Legs -> Models], answering : SUBSET Models,
         works : SUBSET Works,
         installed : {"pinned", "other", "unsupported", "silent", "absent"},
         named : BOOLEAN, token : BOOLEAN, inherited : BOOLEAN,
         entry : Entries, keepTranscripts : BOOLEAN]

ASSUME HarnessAssumption ==
    Confs \subseteq Conf /\ {MaxPasses, MaxCalls, MaxAttempts} \subseteq Nat \ {0}

VARIABLES
    conf,
    run,      \* [step, leg, pass, call, attempt, mode]: where the run is
    payloads, \* the payload files of the run directory: the child that wrote each
    child,    \* the child of the attempt
    accepted, \* the child whose answer was accepted last
    usage,    \* [refused, outcome, model]: of the call's refused attempts, of the pass
    marker,   \* what the last finished pass says it used
    review,   \* the model the newest review marker names, and history: who answered it
    counted   \* history: what was really used, behind `usage', and who answered

vars == <<conf, run, payloads, child, accepted, usage, marker, review, counted>>

Stems == Legs \X (1 .. MaxCalls) \X (1 .. MaxAttempts)
Nobody == <<>>  \* of an empty file, or of none
NoChild == [id |-> Nobody, exit |-> "", answer |-> "", ran |-> FALSE, endpoint |-> "",
            usage |-> NoUsage, used |-> [tokens |-> 0, charge |-> 0],
            model |-> "", reported |-> Unnamed]
IdleUsage == [refused |-> NoUsage, outcome |-> NoUsage, model |-> Unnamed]
Nothing == [tokens |-> 0, charge |-> 0]
NoCount == [refused |-> Nothing, outcome |-> Nothing, by |-> {}]
NoReview == [model |-> Unnamed, by |-> {}]
NoMarker == [tokens |-> 0, price |-> Unpriced, really |-> Nothing]

Init ==
    /\ conf \in Confs
    /\ run = [step |-> "gate", leg |-> "review", pass |-> 1, call |-> 1, attempt |-> 1, mode |-> ""]
    /\ payloads = [s \in Stems |-> Nobody]
    /\ child = NoChild /\ accepted = Nobody
    /\ usage = IdleUsage /\ counted = NoCount /\ marker = NoMarker /\ review = NoReview

GoTo(s) == run' = [run EXCEPT !.step = s]
At(s) == run.step = s
Harness == conf.harness
Editing == run.leg = "resolve"

(***************************************************************************)
(* The gates.                                                              *)
(***************************************************************************)
(* What the descriptors declare, and the command blocks verified at their  *)
(* pin.                                                                    *)
ReadMode(h) == IF h \in {"claude", "codex"} THEN "served" ELSE "supplied"
Verified == {"claude", "codex"}
EndpointHost == "claude"

(* Mutant: what the run inherited is not looked at. *)
EnvAssumedClean == TRUE

AssertEnvClean == ~conf.inherited

(* A review that is served, or that grok answers, runs only a command      *)
(* block verified at its pin, on the version it was verified on.           *)
ReviewIsolated ==
    ~Editing /\ (ReadMode(Harness) = "served" \/ Harness = "grok") =>
        Harness \in Verified /\ conf.installed = "pinned"

(* Every adapter but agy's asks its CLI for a version, and opencode's      *)
(* drives the two it knows.                                                *)
ReportsVersion == conf.installed # "silent"
OpencodeVersion == ReportsVersion /\ conf.installed # "unsupported"

VersionAccepted ==
    CASE Harness = "agy" -> TRUE
      [] Harness = "opencode" -> OpencodeVersion
      [] OTHER -> ReportsVersion

(* A named endpoint is reached through one harness, with its own token.    *)
EndpointAccepted == conf.named => Harness = EndpointHost /\ conf.token

Gate ==
    /\ At("gate")
    /\ IF /\ AssertEnvClean /\ ReviewIsolated /\ VersionAccepted /\ EndpointAccepted
          /\ conf.installed # "absent"
       THEN run' = [run EXCEPT !.step = "ask", !.mode = ReadMode(Harness)]
       ELSE GoTo("failed")
    /\ UNCHANGED <<conf, payloads, child, accepted, usage, marker, review, counted>>

(* A review whose read server fails its self-test is supplied instead.     *)
Degrade ==
    /\ At("ask") /\ run.attempt = 1 /\ ~Editing /\ run.mode = "served"
    /\ run' = [run EXCEPT !.mode = "supplied"]
    /\ UNCHANGED <<conf, payloads, child, accepted, usage, marker, review, counted>>

(***************************************************************************)
(* The child.                                                              *)
(***************************************************************************)
(* What each adapter asks for: the answer as events while it is written,   *)
(* or as one object at the end.  Codex sends events, and its answer in a   *)
(* file.                                                                   *)
ClaudeSpec == IF Editing \/ run.mode = "served" THEN "events" ELSE "object"
CodexSpec == "events"
GrokSpec == IF Editing \/ run.mode = "supplied" THEN "events" ELSE "object"
AgySpec == "object"
OpencodeSpec == "events"

OutputFormat ==
    CASE Harness = "claude" -> ClaudeSpec
      [] Harness = "codex" -> CodexSpec
      [] Harness = "grok" -> GrokSpec
      [] Harness = "agy" -> AgySpec
      [] Harness = "opencode" -> OpencodeSpec

Stem == <<run.leg, run.call, run.attempt>>

(* Mutant: a file that is there is left as it is. *)
PreCreateKept == payloads

(* The files of an attempt are created empty, and one of an earlier pass   *)
(* under the same name is emptied.                                         *)
PreCreate == [payloads EXCEPT ![Stem] = Nobody]

(* The endpoint in the child's environment.                                *)
ChildEndpoint == IF conf.named THEN "named" ELSE IF conf.inherited THEN "inherited" ELSE "vendor"

(* What a report of each harness may hold: Claude's split of its writes,   *)
(* and the cost of those that state one.                                   *)
NoReport == [known |-> FALSE, split |-> FALSE, priced |-> FALSE]

Reports(h) ==
    {NoReport} \cup
    [known : {TRUE}, split : IF h = "claude" THEN BOOLEAN ELSE {FALSE},
     priced : IF h \in {"claude", "grok"} THEN BOOLEAN ELSE {FALSE}]

(* The names of a model that each harness may give.                        *)
Namings == [h \in Harnesses |-> [m \in Models |-> NamedBy(h, m)]]

(* A child that answers reports what it used, or not; one that fails or is *)
(* stopped has no usage, and may have written its file.  The model that    *)
(* answered is in the usage, except for Codex, which keeps it apart.       *)
Ask(exit, answer, ran, w, report, model, named) ==
    LET me == <<run.pass, run.call, run.attempt>>
        seen == Reported(Harness, w)
        known == exit = "ok" /\ report.known
        charge == Charged(conf.entry, seen)
    IN  /\ At("ask") /\ GoTo("read")
        /\ child' = [id |-> me, exit |-> exit, answer |-> answer, ran |-> ran,
                     endpoint |-> ChildEndpoint,
                     usage |-> IF known
                               THEN [known |-> TRUE,
                                     tokens |-> ParseUsage(Harness, seen, report.split),
                                     cost |-> IF report.priced THEN charge ELSE None]
                               ELSE NoUsage,
                     used |-> IF known THEN [tokens |-> Consumed(seen), charge |-> charge]
                              ELSE Nothing,
                     model |-> model,
                     reported |-> IF known \/ (exit = "ok" /\ Harness = "codex") THEN named
                                  ELSE Unnamed]
        /\ payloads' = IF Harness = "codex" /\ answer # "none"
                       THEN [PreCreate EXCEPT ![Stem] = me] ELSE PreCreate
        /\ UNCHANGED <<conf, accepted, usage, marker, review, counted>>

(***************************************************************************)
(* What the adapter reads back.                                            *)
(***************************************************************************)
(* Whether it succeeded, whose answer it holds if any, and whether the leg *)
(* finds it empty.                                                         *)
Envelope(ok, owner) == [ok |-> ok, owner |-> owner, empty |-> owner = Nobody]

Exited == child.exit = "ok"
Printed == IF child.answer = "json" THEN child.id ELSE Nobody

ClaudeEnvelope == Envelope(Exited, Printed)

(* Read from its file, which must not be empty.                            *)
CodexEnvelope ==
    LET owner == payloads[Stem]
    IN  Envelope(Exited /\ owner # Nobody,
                 IF owner = child.id /\ child.answer # "json" THEN Nobody ELSE owner)

GrokEnvelope == Envelope(Exited, Printed)

(* It must say that it succeeded.                                          *)
AgyEnvelope == Envelope(Exited /\ child.answer # "none", Printed)

(* It must have said something; what cannot be read is a null, not empty.  *)
OpencodeEnvelope ==
    [Envelope(Exited /\ child.answer # "none", Printed) EXCEPT !.empty = FALSE]

ReadBack ==
    CASE Harness = "claude" -> ClaudeEnvelope
      [] Harness = "codex" -> CodexEnvelope
      [] Harness = "grok" -> GrokEnvelope
      [] Harness = "agy" -> AgyEnvelope
      [] Harness = "opencode" -> OpencodeEnvelope

(* The watch for a command, in the events of the three harnesses that      *)
(* report one.                                                             *)
Showed == child.ran /\ OutputFormat = "events"
CodexCommand == Harness = "codex" /\ Showed
ClaudeCommand == Harness = "claude" /\ Showed
GrokCommand == Harness = "grok" /\ Showed

ResolveCommand == CodexCommand \/ ClaudeCommand \/ GrokCommand
ReviewCommand == CodexCommand \/ ClaudeCommand \/ GrokCommand

(* Mutant: the watch is for legs that edit. *)
WatchedResolves == Editing /\ ResolveCommand

Tripped == IF Editing THEN ResolveCommand ELSE ReviewCommand

Fail ==
    /\ At("read") /\ GoTo("failed")
    /\ UNCHANGED <<conf, payloads, child, accepted, usage, marker, review, counted>>

CanAskAgain == run.attempt < MaxAttempts
AskAgain == run' = [run EXCEPT !.step = "ask", !.attempt = @ + 1] /\ child' = NoChild
Add(a, b) == [tokens |-> a.tokens + b.tokens, charge |-> a.charge + b.charge]

(* A failure of the harness that may pass is asked again: it has no usage. *)
RetryFailure ==
    /\ At("read") /\ ~Tripped /\ ~ReadBack.ok /\ child.exit # "interrupted"
    /\ CanAskAgain /\ AskAgain
    /\ UNCHANGED <<conf, payloads, accepted, usage, marker, review, counted>>

(* An answer is refused and asked for again.  The review leg keeps what    *)
(* every refused answer used, the resolve leg that of an empty one only.   *)
RetryAnswer ==
    LET kept == ~Editing \/ ReadBack.empty
    IN  /\ At("read") /\ ~Tripped /\ ReadBack.ok
        /\ CanAskAgain /\ AskAgain
        /\ IF kept
           THEN /\ usage' = [usage EXCEPT !.refused = Fold(@, child.usage)]
                /\ counted' = [counted EXCEPT !.refused = Add(@, child.used)]
           ELSE UNCHANGED <<usage, counted>>
        /\ UNCHANGED <<conf, payloads, accepted, marker, review>>

(* The pass is signed by the first model an accepted call named.           *)
FirstNamed == IF usage.model = Unnamed THEN child.reported ELSE usage.model

(* The accepted call joins the pass with the attempts behind it.           *)
Accept ==
    /\ At("read") /\ ~Tripped /\ ReadBack.ok /\ ReadBack.owner # Nobody
    /\ GoTo("accepted") /\ accepted' = ReadBack.owner
    /\ child' = [child EXCEPT !.usage = NoUsage, !.used = Nothing]
    /\ usage' = [refused |-> NoUsage,
                 outcome |-> Fold(usage.outcome, FoldRefused(child.usage, usage.refused)),
                 model |-> FirstNamed]
    /\ counted' = [refused |-> Nothing,
                   outcome |-> Add(counted.outcome, Add(child.used, counted.refused)),
                   by |-> counted.by \cup {child.model}]
    /\ UNCHANGED <<conf, payloads, marker, review>>

NextCall ==
    /\ At("accepted") /\ ~Editing /\ run.call < MaxCalls
    /\ run' = [run EXCEPT !.step = "gate", !.call = @ + 1, !.attempt = 1]
    /\ child' = NoChild /\ accepted' = Nobody
    /\ UNCHANGED <<conf, payloads, usage, marker, review, counted>>

(***************************************************************************)
(* The pass.                                                               *)
(***************************************************************************)
(* A named endpoint bills for itself.                                      *)
BillingFor == IF conf.named THEN "endpoint" ELSE "vendor"

(* The resolve leg attaches no endpoint and no model, so the table never   *)
(* prices it.                                                              *)
AttachUsage ==
    IF ~usage.outcome.known THEN Unpriced
    ELSE IF ~Editing THEN Attach(usage.outcome, conf.entry, BillingFor)
    ELSE Attach(usage.outcome, [conf.entry EXCEPT !.listed = FALSE], "")

(* Legs told to differ, and the same model named by each: the pass ends    *)
(* before it writes.                                                       *)
ConfiguredDifference == conf.asked["review"] # conf.asked["resolve"]

(* Mutant: the resolver is compared with the model asked of the reviewer.  *)
DivergedFromAsked ==
    ConfiguredDifference => usage.model \notin {Unnamed, conf.asked["review"]}

ModelsDiverged ==
    ConfiguredDifference =>
        Unnamed \in {review.model, usage.model} \/ review.model # usage.model

Substituted ==
    /\ At("accepted") /\ Editing /\ ~ModelsDiverged
    /\ GoTo("failed")
    /\ UNCHANGED <<conf, payloads, child, accepted, usage, marker, review, counted>>

(* A pass that succeeds clears its leg's files, unless they are kept.      *)
EndPass ==
    /\ At("accepted") /\ (Editing => ModelsDiverged)
    /\ GoTo("done")
    /\ marker' = [tokens |-> WithTotal(usage.outcome.tokens), price |-> AttachUsage,
                  really |-> counted.outcome]
    /\ review' = IF Editing THEN review ELSE [model |-> usage.model, by |-> counted.by]
    /\ payloads' = IF conf.keepTranscripts THEN payloads
                   ELSE [s \in Stems |-> IF s[1] = run.leg THEN Nobody ELSE payloads[s]]
    /\ UNCHANGED <<conf, child, accepted, usage, counted>>

NextPass ==
    /\ At("done") /\ run.pass < MaxPasses
    /\ \E leg \in Legs :
         run' = [step |-> "gate", leg |-> leg, pass |-> run.pass + 1, call |-> 1,
                 attempt |-> 1, mode |-> ""]
    /\ child' = NoChild /\ accepted' = Nobody
    /\ usage' = IdleUsage /\ counted' = NoCount /\ marker' = NoMarker
    /\ UNCHANGED <<conf, payloads, review>>

Children ==
    \E model \in conf.answering, ran \in BOOLEAN :
        \/ \E answer \in {"none", "unreadable", "json"}, w \in conf.works, report \in Reports(Harness),
              named \in Namings[Harness][model] :
              Ask("ok", answer, ran, w, report, model, named)
        \/ \E exit \in {"failed", "interrupted"}, answer \in {"none", "json"} :
              Ask(exit, answer, ran, CHOOSE w \in Works : TRUE, NoReport, model, Unnamed)

Next ==
    \/ Gate \/ Degrade \/ Children \/ Fail \/ RetryFailure \/ RetryAnswer \/ Accept
    \/ NextCall \/ Substituted \/ EndPass \/ NextPass

Spec == Init /\ [][Next]_vars

(***************************************************************************)
(* Properties.                                                             *)
(***************************************************************************)
(* An accepted answer is that of the child just run, however many passes   *)
(* and attempts wrote under the same file name; it comes from the endpoint *)
(* the leg is configured for and from no other; and the child ran no       *)
(* command, except under the adapters that keep no record of one           *)
(* (preCreate, runlog/transcript.go; AssertEnvClean and endpointRefusal,   *)
(* harness; ReviewCommand and ResolveCommand, harness/tripwire.go).        *)
AcceptedIsTheChilds ==
    At("accepted") =>
        /\ accepted = child.id
        /\ child.endpoint = IF conf.named THEN "named" ELSE "vendor"
        /\ child.ran => \/ Harness \in {"agy", "opencode"}
                        \/ Harness = "claude" /\ ~Editing /\ run.mode = "supplied"

(* What a pass says it used is true: its tokens are those its calls used,  *)
(* whatever convention each vendor counts by and whichever attempts were   *)
(* folded in; a price from the table is never below what the calls are     *)
(* charged, not for a write of unknown lifetime, a rate the table lacks or *)
(* a sum that may hide a long-context call; and a review of a named        *)
(* endpoint shows no price (ParseClaude and its siblings, usage.go; Price  *)
(* and Attach, pricing.go; addUsageBuckets, review/batches.go).            *)
UsageIsTrue ==
    /\ marker.tokens = marker.really.tokens
    /\ marker.price.source = "table" => marker.price.cost >= marker.really.charge
    /\ At("done") /\ ~Editing /\ conf.named => marker.price = Unpriced

(* Legs told to differ do not both rest on one model, where the review was *)
(* answered by one model and both harnesses named theirs, however many     *)
(* calls and refused attempts lie between (assertDiverged,                 *)
(* resolve/mutate.go; addEnvelope, review/batches.go).                     *)
LegsDiverge ==
    At("done") /\ Editing /\ ConfiguredDifference /\ child.reported # Unnamed /\ review.model # Unnamed
        => review.by # {child.model}
===============================================================================
