----------------------------- MODULE Credentials ------------------------------
(***************************************************************************)
(* The vendor credentials of the harnesses.  A rotating credential lives   *)
(* in a repository secret: a refresh token is good once, so exactly one    *)
(* job, the refresher workflow, exchanges it and writes the replacement    *)
(* back.  A leg restores a copy into a scratch home, lets its harness read *)
(* it and discards it; the harness refreshes an expired copy by itself,    *)
(* which spends the stored token, and the one-hour floor is there to stop. *)
(*                                                                         *)
(* Time is counted in hours.  The vendor, the workflow's runner and the    *)
(* harness are external and modelled from what src/ expects of them.       *)
(***************************************************************************)
EXTENDS Naturals, FiniteSets

CONSTANTS
    Jobs,       \* runs of the refresher workflow
    Lifetime,   \* hours an access token is good for when it is issued
    CallHours,  \* the longest a harness call lasts
    Horizon,    \* bound on the hours that pass
    MaxFaults,  \* bound on calls that fail and processes that are killed
    Unreadable, \* the expiry of an access token with no exp claim
    Missing,    \* no credential, or no scratch home
    Unset,      \* a staging variable nobody set
    Operator    \* a staging variable's value from before the process

ASSUME CredentialsAssumption ==
    /\ Jobs # {} /\ IsFiniteSet(Jobs)
    /\ Lifetime \in Nat /\ CallHours \in Nat /\ Horizon \in Nat /\ MaxFaults \in Nat
    /\ {Unreadable, Missing, Unset, Operator} \cap Nat = {}

VARIABLES
    now,     \* the hour
    live,    \* the refresh token the vendor accepts, one per account
    secret,  \* the credential the repository's secret holds
    job,     \* what each run of the refresher is doing
    lost,    \* how the stored token was spent without a replacement being stored
    proc,    \* the process that runs legs, and the leg it is in
    disk,    \* the credential each scratch home on disk holds
    faults

vars == <<now, live, secret, job, lost, proc, disk, faults>>
refresher == <<live, secret, job, lost>>

(* The descriptor's credential block, by harness; empty is a JSON null.    *)
Descriptors ==
    [claude   |-> [secret |-> "CLAUDE_CODE_OAUTH_TOKEN", staging |-> "", assertFresh |-> FALSE,
                   refresher |-> FALSE, names |-> {"CLAUDE_CODE_OAUTH_TOKEN", "ANTHROPIC_API_KEY"},
                   keep |-> {"CLAUDE_CODE_OAUTH_TOKEN", "ANTHROPIC_API_KEY"}],
     codex    |-> [secret |-> "CROSSREV_CODEX_AUTH", staging |-> "CODEX_HOME", assertFresh |-> TRUE,
                   refresher |-> TRUE, names |-> {"CROSSREV_CODEX_AUTH"}, keep |-> {}],
     opencode |-> [secret |-> "CROSSREV_OPENCODE_AUTH", staging |-> "XDG_DATA_HOME",
                   assertFresh |-> FALSE, refresher |-> FALSE,
                   names |-> {"CROSSREV_OPENCODE_AUTH"}, keep |-> {}]]
Harnesses == DOMAIN Descriptors
Staged == {h \in Harnesses : Descriptors[h].staging # ""}
Homes == {Descriptors[h].staging : h \in Staged}

(* The four forge credentials are one here: they are told apart nowhere.   *)
ForgeCredentialNames == {"GH_TOKEN"}
VendorNames == UNION {Descriptors[h].names : h \in Harnesses}

(* What a harness child may inherit, of those: an allowlist.               *)
HarnessEnvironment == VendorNames

(* Every name a model-facing process of this harness must not hold.        *)
StripFor(h) == ForgeCredentialNames \cup (VendorNames \ Descriptors[h].keep)

(* One access token has an expiry the build can read or none; a credential *)
(* is an access token and the refresh token beside it.                     *)
Credential(token, exp) == [refresh |-> token, exp |-> exp]
Seeded == {Credential(0, Lifetime), Credential(0, Unreadable)}

Readable(c) == c.exp # Unreadable
SecondsLeft(c) == IF c.exp > now THEN c.exp - now ELSE 0
Expired(c) == Readable(c) /\ c.exp < now

(* CrossRev's floor: an hour.                                              *)
MinHours == 1
(* A floor that only asks for a credential that has not expired.           *)
IsFreshUntilExpiry(h, c) == Descriptors[h].assertFresh => Readable(c) /\ c.exp >= now

IsFresh(h, c) == Descriptors[h].assertFresh => Readable(c) /\ SecondsLeft(c) >= MinHours

NoLeg == [step |-> "none", harness |-> "", endpoint |-> FALSE, dir |-> Missing, was |-> Unset, since |-> 0]
IdleJob == [step |-> "idle", held |-> Credential(0, Unreadable), new |-> Credential(0, Unreadable),
            spent |-> FALSE]

Init ==
    /\ now = 0 /\ live = 0 /\ lost = {} /\ faults = 0
    /\ secret \in Seeded
    /\ job = [j \in Jobs |-> IdleJob]
    /\ proc = [up |-> FALSE, hosted |-> FALSE, env |-> {}, auth |-> Missing,
               home |-> [v \in Homes |-> Unset], leg |-> NoLeg]
    /\ disk = [d \in {} |-> Missing]

Fault == faults < MaxFaults /\ faults' = faults + 1
-----------------------------------------------------------------------------
(* The refresher.  The workflow's concurrency group never overlaps runs;   *)
(* the runner expands the secret into the environment as the run starts.   *)
StartRefresh(j) ==
    /\ \A k \in Jobs : job[k].step \in {"idle", "ended"}
    /\ job[j].step = "idle"
    /\ job' = [job EXCEPT ![j] = [IdleJob EXCEPT !.step = "holding", !.held = secret]]
    /\ UNCHANGED <<now, live, secret, lost, proc, disk, faults>>

(* The discovery document cannot be had, or names an endpoint that would   *)
(* take the token in the clear, or the vendor cannot be reached.           *)
NothingPosted(j) ==
    /\ job[j].step = "holding" /\ Fault
    /\ job' = [job EXCEPT ![j].step = "ended"]
    /\ UNCHANGED <<now, live, secret, lost, proc, disk>>

(* What the vendor does with a refresh grant: a token it no longer accepts *)
(* is refused; otherwise it issues an access token and replaces the        *)
(* refresh token, or keeps it when the answer names no replacement.        *)
Exchange(j) ==
    /\ job[j].step = "holding"
    /\ IF job[j].held.refresh # live
       THEN job' = [job EXCEPT ![j].step = "ended"] /\ UNCHANGED live
       ELSE \E spent \in BOOLEAN, exp \in {now + Lifetime, job[j].held.exp, Unreadable} :
              LET next == IF spent THEN live + 1 ELSE live
              IN  /\ live' = next
                  /\ job' = [job EXCEPT ![j] = [@ EXCEPT !.step = "answered", !.spent = spent,
                                                         !.new = Credential(next, exp)]]
    /\ UNCHANGED <<now, secret, lost, proc, disk, faults>>

GiveUp(j) ==
    /\ job' = [job EXCEPT ![j].step = "ended"]
    /\ lost' = IF job[j].spent THEN lost \cup {"answer"} ELSE lost
    /\ UNCHANGED <<now, live, secret, proc, disk>>

(* The answer is lost, too large, not a JSON object or has no access token *)
(* in it, or the runner dies holding it.                                   *)
AnswerLost(j) == job[j].step = "answered" /\ Fault /\ GiveUp(j)

(* The credential that came back cannot be dated, or is no better.         *)
Improves(old, new) ==
    /\ Readable(new)
    /\ Readable(old) => SecondsLeft(new) > SecondsLeft(old)

Unverified(j) ==
    /\ job[j].step = "answered" /\ ~Improves(job[j].held, job[j].new)
    /\ GiveUp(j) /\ UNCHANGED faults

WriteSecret(j) ==
    /\ job[j].step = "answered" /\ Improves(job[j].held, job[j].new)
    /\ secret' = job[j].new
    /\ job' = [job EXCEPT ![j].step = "ended"]
    /\ UNCHANGED <<now, live, lost, proc, disk, faults>>

(* gh reports a failure: the secret may have been written all the same.    *)
WriteFails(j) ==
    /\ job[j].step = "answered" /\ Improves(job[j].held, job[j].new) /\ Fault
    /\ \/ GiveUp(j)
       \/ /\ secret' = job[j].new
          /\ job' = [job EXCEPT ![j].step = "ended"]
          /\ UNCHANGED <<now, live, lost, proc, disk>>
-----------------------------------------------------------------------------
(* A process runs one leg after another, both of them under `cycle'.  Its  *)
(* harness environment is read once, as it starts.                         *)
StartProcess(hosted, auth, operator) ==
    /\ ~proc.up
    /\ proc' = [proc EXCEPT !.up = TRUE, !.hosted = hosted, !.auth = auth, !.leg = NoLeg,
                            !.env = (VendorNames \cup ForgeCredentialNames) \cap HarnessEnvironment,
                            !.home = [v \in Homes |-> IF operator THEN Operator ELSE Unset]]
    /\ UNCHANGED <<now, refresher, disk, faults>>

Scratch == CHOOSE d \in 1..(Cardinality(DOMAIN disk) + 1) : d \notin DOMAIN disk
Delivered(h) == IF proc.auth = Missing \/ Descriptors[h].refresher THEN proc.auth
                ELSE Credential(0, Unreadable)
Refused == [proc EXCEPT !.leg = [NoLeg EXCEPT !.step = "refused"]]
Started(h, endpoint) ==
    [NoLeg EXCEPT !.step = "running", !.harness = h, !.endpoint = endpoint, !.since = now]

Stages(h) == Descriptors[h].staging # "" /\ Delivered(h) # Missing

(* assertPresent: a hosted runner without the secret has no other login.   *)
SecretMissing(h, endpoint) == proc.hosted /\ ~endpoint /\ Delivered(h) = Missing

Prepare(h, endpoint) ==
    LET home == Descriptors[h].staging
        dir  == Scratch
    IN  /\ proc.up /\ proc.leg.step \in {"none", "done"}
        /\ \/ /\ SecretMissing(h, endpoint) \/ (Stages(h) /\ ~IsFresh(h, Delivered(h)))
              /\ proc' = Refused /\ UNCHANGED <<disk, faults>>
           \/ /\ ~SecretMissing(h, endpoint) /\ ~Stages(h)
              /\ proc' = [proc EXCEPT !.leg = Started(h, endpoint)]
              /\ UNCHANGED <<disk, faults>>
           \/ /\ ~SecretMissing(h, endpoint) /\ Stages(h) /\ IsFresh(h, Delivered(h))
              /\ disk' = [d \in DOMAIN disk \cup {dir} |->
                            IF d = dir THEN Delivered(h) ELSE disk[d]]
              /\ proc' = [proc EXCEPT !.home[home] = dir,
                                      !.leg = [Started(h, endpoint) EXCEPT
                                                 !.dir = dir, !.was = proc.home[home]]]
              /\ UNCHANGED faults
           \/ \* the scratch home, the file or the export failed: it is removed again
              /\ ~SecretMissing(h, endpoint) /\ Stages(h) /\ Fault
              /\ proc' = Refused /\ UNCHANGED disk
        /\ UNCHANGED <<now, refresher>>

(* What the harness process is handed: the environment read at the start,  *)
(* with the staging variable pointed at the copy, less the stripped names. *)
ChildHolds(h) == proc.env \ StripFor(h)
ChildHome(h) == IF proc.leg.dir # Missing THEN proc.leg.dir ELSE proc.home[Descriptors[h].staging]

(* A harness whose copy has expired refreshes it and writes it back into   *)
(* the home it was given; a spent token gets it nothing.                   *)
HarnessRefreshes ==
    LET dir == proc.leg.dir
    IN  /\ proc.leg.step = "running" /\ dir # Missing /\ dir \in DOMAIN disk
        /\ Descriptors[proc.leg.harness].refresher
        /\ Expired(disk[dir]) /\ disk[dir].refresh = live
        /\ live' = live + 1
        /\ disk' = [disk EXCEPT ![dir] = Credential(live + 1, now + Lifetime)]
        /\ lost' = IF now - proc.leg.since > MinHours THEN lost \cup {"overrun"} ELSE lost
        /\ UNCHANGED <<now, secret, job, proc, faults>>

(* A Discard that gives up when the home cannot be removed.                *)
DiscardStops ==
    /\ proc.leg.step = "running"
    /\ \/ /\ disk' = [d \in DOMAIN disk \ {proc.leg.dir} |-> disk[d]] /\ UNCHANGED faults
          /\ proc' = [proc EXCEPT !.leg = [NoLeg EXCEPT !.step = "done"],
                                  !.home = IF proc.leg.dir = Missing THEN @
                                           ELSE [@ EXCEPT ![Descriptors[proc.leg.harness].staging] = proc.leg.was]]
       \/ /\ proc.leg.dir # Missing /\ Fault /\ UNCHANGED disk
          /\ proc' = [proc EXCEPT !.leg = [NoLeg EXCEPT !.step = "done"]]
    /\ UNCHANGED <<now, refresher>>

(* The leg's deferred Discard: the home goes and the variable is put back, *)
(* whichever of the two fails.  The caller drops the error.                *)
Discard ==
    LET leg == proc.leg
        h   == Descriptors[leg.harness].staging
        Off(removed) == IF removed THEN [d \in DOMAIN disk \ {leg.dir} |-> disk[d]] ELSE disk
    IN  /\ leg.step = "running"
        /\ \/ disk' = Off(TRUE) /\ UNCHANGED faults
           \/ leg.dir # Missing /\ Fault /\ disk' = Off(FALSE)
        /\ proc' = [proc EXCEPT !.leg = [NoLeg EXCEPT !.step = "done"],
                                !.home = IF leg.dir = Missing THEN @ ELSE [@ EXCEPT ![h] = leg.was]]
        /\ UNCHANGED <<now, refresher>>

EndProcess ==
    /\ proc.up /\ proc.leg.step \in {"none", "done", "refused"}
    /\ proc' = [proc EXCEPT !.up = FALSE, !.leg = NoLeg]
    /\ UNCHANGED <<now, refresher, disk, faults>>

(* A killed process runs no deferred call.                                 *)
Kill ==
    /\ proc.up /\ Fault
    /\ proc' = [proc EXCEPT !.up = FALSE, !.leg = NoLeg]
    /\ UNCHANGED <<now, refresher, disk>>

(* An hour passes.  A refresher run is over long before the hour is, and   *)
(* no call lasts longer than CallHours.                                    *)
Tick ==
    /\ now < Horizon
    /\ \A j \in Jobs : job[j].step \in {"idle", "ended"}
    /\ proc.leg.step = "running" => now - proc.leg.since < CallHours
    /\ now' = now + 1
    /\ UNCHANGED <<refresher, proc, disk, faults>>

Next ==
    \/ \E j \in Jobs : StartRefresh(j) \/ NothingPosted(j) \/ Exchange(j) \/ AnswerLost(j)
                         \/ Unverified(j) \/ WriteSecret(j) \/ WriteFails(j)
    \/ \E hosted, operator \in BOOLEAN, auth \in {secret, Missing} :
          StartProcess(hosted, auth, operator)
    \/ \E h \in Harnesses, endpoint \in BOOLEAN : Prepare(h, endpoint)
    \/ HarnessRefreshes \/ Discard \/ EndProcess \/ Kill \/ Tick

(* The refresh token in the repository's secret is the one the vendor      *)
(* accepts, while no run of the refresher holds its replacement, unless an *)
(* exchange's answer was lost or a call outran the hour the floor leaves   *)
(* it.  Several copies of the token exist; the first one used kills the    *)
(* others (app/refresh.go:28-31, cred/freshness.go:18-23).                 *)
SecretIsLive ==
    \/ secret.refresh = live
    \/ lost # {}
    \/ \E j \in Jobs : job[j].step = "answered" /\ job[j].spent

(* A running harness is pointed at this leg's copy, never at what another  *)
(* leg left: the scratch copies on disk are the running leg's and those a  *)
(* failed removal or a kill left, and outside a leg the process's own      *)
(* variables are as the operator set them (cred/staging.go:290-392).       *)
NothingOutlivesTheLeg ==
    /\ proc.leg.step = "running" /\ proc.leg.harness \in Staged =>
          LET home == ChildHome(proc.leg.harness)
          IN  IF Delivered(proc.leg.harness) = Missing THEN home \notin Nat
              ELSE home = proc.leg.dir /\ home \in DOMAIN disk
    /\ Cardinality(DOMAIN disk \ {proc.leg.dir}) <= faults
    /\ proc.up /\ proc.leg.step # "running" =>
          \A v \in Homes : proc.home[v] \notin Nat

Spec == Init /\ [][Next]_vars
=============================================================================
