--------------------------- MODULE CredentialsProofs ---------------------------
(***************************************************************************)
(* Theorems about the credentials, for any number of refresher runs, token *)
(* lifetime, call length, horizon and number of faults.                    *)
(***************************************************************************)
EXTENDS Credentials, TLAPS, FiniteSetTheorems

CredentialRecord == [refresh : Nat, exp : Nat \cup {Unreadable}]
JobRecord ==
    [step : {"idle", "holding", "answered", "ended"}, held : CredentialRecord,
     new : CredentialRecord, spent : BOOLEAN]
LegRecord ==
    [step : {"none", "running", "refused", "done"}, harness : Harnesses \cup {""},
     endpoint : BOOLEAN, dir : Nat \cup {Missing}, was : Nat \cup {Unset, Operator},
     since : Nat]
Process ==
    [up : BOOLEAN, hosted : BOOLEAN, env : SUBSET (VendorNames \cup ForgeCredentialNames),
     auth : CredentialRecord \cup {Missing}, home : [Homes -> Nat \cup {Unset, Operator}],
     leg : LegRecord]

(* Every variable, and every field of a record, stays in its domain.       *)
TypeInv ==
    /\ now \in Nat /\ live \in Nat /\ faults \in Nat
    /\ secret \in CredentialRecord
    /\ job \in [Jobs -> JobRecord]
    /\ proc \in Process
    /\ disk \in [DOMAIN disk -> CredentialRecord]
    /\ DOMAIN disk \subseteq Nat /\ IsFiniteSet(DOMAIN disk)

Refreshing(j) == job[j].step \in {"holding", "answered"}

(* The workflow's runs do not overlap. *)
OneRefresh == \A j, k \in Jobs : Refreshing(j) /\ Refreshing(k) => j = k

(* What a run was answered is the vendor's token, or the chain is broken.  *)
AnswerIsLive ==
    \A j \in Jobs : job[j].step = "answered" => job[j].new.refresh = live \/ lost # {}

(* The copy a rotating harness reads outlives the floor of its leg's       *)
(* start, or the chain is broken.                                          *)
CopyIsFresh ==
    proc.leg.step = "running" /\ proc.leg.dir # Missing
      /\ Descriptors[proc.leg.harness].refresher /\ lost = {}
    => LET c == disk[proc.leg.dir]
       IN  Readable(c) /\ c.exp >= proc.leg.since + MinHours

(* A leg that holds a scratch home is running, for a harness that stages,  *)
(* and it has it on disk, exported, with the operator's value kept.        *)
LegHome ==
    LET leg == proc.leg
    IN  /\ leg.step = "running" => proc.up /\ leg.harness \in Harnesses
        /\ leg.dir # Missing =>
             /\ leg.step = "running" /\ leg.harness \in Staged
             /\ Delivered(leg.harness) # Missing
             /\ leg.dir \in DOMAIN disk
             /\ proc.home[Descriptors[leg.harness].staging] = leg.dir
             /\ leg.was \notin Nat
        /\ leg.step = "running" /\ leg.harness \in Staged /\ Delivered(leg.harness) # Missing
             => leg.dir # Missing

(* No other variable of a live process points at a scratch home.           *)
HomesAreOurs ==
    proc.up => \A v \in Homes : proc.home[v] \in Nat =>
                 /\ proc.leg.dir # Missing
                 /\ v = Descriptors[proc.leg.harness].staging

(* Every scratch home left behind was paid for with a fault. *)
LeftBehind == Cardinality(DOMAIN disk \ {proc.leg.dir}) <= faults

ChainInv == OneRefresh /\ AnswerIsLive /\ CopyIsFresh /\ SecretIsLive
HomeInv == LegHome /\ HomesAreOurs /\ LeftBehind
Inv == TypeInv /\ HomeInv /\ ChainInv

-------------------------------------------------------------------------------
(* What the descriptors say of the harnesses. *)
LEMMA DescriptorFacts ==
    /\ Harnesses = {"claude", "codex", "opencode"}
    /\ Staged = {"codex", "opencode"}
    /\ \A h \in Staged : Descriptors[h].staging \in Homes
    /\ \A h \in Harnesses : Descriptors[h].refresher => h \in Staged /\ Descriptors[h].assertFresh
    /\ \A h \in Harnesses : Descriptors[h].staging # "" <=> h \in Staged
<1>1. Harnesses = {"claude", "codex", "opencode"}
  BY DEF Harnesses, Descriptors
<1>2. /\ Descriptors["claude"].staging = "" /\ ~Descriptors["claude"].refresher
      /\ Descriptors["codex"].staging = "CODEX_HOME" /\ Descriptors["codex"].assertFresh
      /\ Descriptors["opencode"].staging = "XDG_DATA_HOME" /\ ~Descriptors["opencode"].refresher
  BY DEF Descriptors
<1>3. Staged = {"codex", "opencode"}
  BY <1>1, <1>2 DEF Staged
<1> QED
  BY <1>1, <1>2, <1>3 DEF Homes

(* The constants that are not numbers. *)
LEMMA NotNumbers == Unreadable \notin Nat /\ Missing \notin Nat /\ Unset \notin Nat /\ Operator \notin Nat
BY CredentialsAssumption

LEMMA InitInv == Init => Inv
<1> SUFFICES ASSUME Init PROVE Inv
  OBVIOUS
<1>1. IdleJob \in JobRecord /\ secret \in CredentialRecord
  BY CredentialsAssumption DEF Init, IdleJob, JobRecord, CredentialRecord, Credential, Seeded
<1>2. DOMAIN disk = {} /\ disk \in [DOMAIN disk -> CredentialRecord]
  BY DEF Init
<1>3. NoLeg \in LegRecord
  BY DEF NoLeg, LegRecord
<1>4. proc \in Process
  BY <1>3 DEF Init, Process
<1>5. TypeInv
  BY <1>1, <1>2, <1>4, FS_EmptySet DEF TypeInv, Init
<1>6. LeftBehind
  <2>1. DOMAIN disk \ {proc.leg.dir} = {}
    BY <1>2
  <2> QED BY <2>1, FS_EmptySet DEF LeftBehind, Init
<1>7. LegHome /\ HomesAreOurs
  BY NotNumbers DEF LegHome, HomesAreOurs, Init, NoLeg
<1>8. ChainInv
  <2>1. \A j \in Jobs : job[j].step = "idle"
    BY DEF Init, IdleJob
  <2>2. secret.refresh = live
    BY DEF Init, Seeded, Credential
  <2> QED
    BY <2>1, <2>2 DEF ChainInv, OneRefresh, Refreshing, AnswerIsLive, CopyIsFresh, SecretIsLive,
       Init, NoLeg
<1> QED
  BY <1>5, <1>6, <1>7, <1>8 DEF Inv, HomeInv

(***************************************************************************)
(* The refresher: its steps leave the legs, the disk and the hour alone.   *)
(***************************************************************************)
Refresher(j) ==
    StartRefresh(j) \/ NothingPosted(j) \/ Exchange(j) \/ AnswerLost(j) \/ Unverified(j)
      \/ WriteSecret(j) \/ WriteFails(j)

LEMMA RefresherFrame ==
    ASSUME NEW j \in Jobs, Refresher(j)
    PROVE  UNCHANGED <<now, proc, disk>>
BY DEF Refresher, StartRefresh, NothingPosted, Exchange, AnswerLost, Unverified, GiveUp,
       WriteSecret, WriteFails

LEMMA FaultType == ASSUME faults \in Nat, Fault PROVE faults' \in Nat /\ faults' = faults + 1
BY DEF Fault

LEMMA RefresherType ==
    ASSUME TypeInv, NEW j \in Jobs, Refresher(j)
    PROVE  TypeInv' /\ faults <= faults'
<1>1. job[j] \in JobRecord /\ secret \in CredentialRecord /\ live \in Nat /\ now \in Nat
  BY DEF TypeInv
<1>2. CASE StartRefresh(j)
  <2>1. [IdleJob EXCEPT !.step = "holding", !.held = secret] \in JobRecord
    BY <1>1 DEF IdleJob, JobRecord, Credential, CredentialRecord
  <2> QED
    BY <1>2, <2>1 DEF StartRefresh, TypeInv
<1>3. \A s \in {"ended"} : [job[j] EXCEPT !.step = s] \in JobRecord
  BY <1>1 DEF JobRecord
<1>4. CASE NothingPosted(j) \/ AnswerLost(j) \/ Unverified(j)
  <2>1. job' = [job EXCEPT ![j] = [job[j] EXCEPT !.step = "ended"]]
    BY <1>4 DEF NothingPosted, AnswerLost, Unverified, GiveUp
  <2>2. job' \in [Jobs -> JobRecord]
    BY <1>3, <2>1 DEF TypeInv
  <2>3. UNCHANGED <<now, live, secret, proc, disk>> /\ (Fault \/ UNCHANGED faults)
    BY <1>4 DEF NothingPosted, AnswerLost, Unverified, GiveUp
  <2> QED
    BY <2>2, <2>3 DEF TypeInv, Fault
<1>5. CASE Exchange(j)
  <2>1. UNCHANGED <<now, secret, proc, disk, faults>>
    BY <1>5 DEF Exchange
  <2>2. CASE job[j].held.refresh # live
    <3>1. job' = [job EXCEPT ![j] = [job[j] EXCEPT !.step = "ended"]] /\ live' = live
      BY <1>5, <2>2 DEF Exchange
    <3> QED BY <1>3, <2>1, <3>1 DEF TypeInv
  <2>3. CASE job[j].held.refresh = live
    <3>1. PICK spent \in BOOLEAN, exp \in {now + Lifetime, job[j].held.exp, Unreadable} :
            /\ live' = IF spent THEN live + 1 ELSE live
            /\ job' = [job EXCEPT ![j] = [job[j] EXCEPT !.step = "answered", !.spent = spent,
                         !.new = Credential(IF spent THEN live + 1 ELSE live, exp)]]
      BY <1>5, <2>3 DEF Exchange
    <3>2. exp \in Nat \cup {Unreadable}
      BY <1>1, CredentialsAssumption DEF JobRecord, CredentialRecord
    <3>3. Credential(IF spent THEN live + 1 ELSE live, exp) \in CredentialRecord
      BY <1>1, <3>2 DEF Credential, CredentialRecord
    <3>4. [job[j] EXCEPT !.step = "answered", !.spent = spent,
             !.new = Credential(IF spent THEN live + 1 ELSE live, exp)] \in JobRecord
      BY <1>1, <3>3 DEF JobRecord
    <3> QED BY <1>1, <2>1, <3>1, <3>4 DEF TypeInv
  <2> QED BY <2>2, <2>3
<1>6. CASE WriteSecret(j) \/ WriteFails(j)
  <2>1. job' = [job EXCEPT ![j] = [job[j] EXCEPT !.step = "ended"]]
    BY <1>6 DEF WriteSecret, WriteFails, GiveUp
  <2>2. secret' \in {secret, job[j].new} /\ UNCHANGED <<now, live, proc, disk>>
        /\ (Fault \/ UNCHANGED faults)
    BY <1>6 DEF WriteSecret, WriteFails, GiveUp
  <2>3. secret' \in CredentialRecord
    BY <1>1, <2>2 DEF JobRecord
  <2> QED
    BY <1>3, <2>1, <2>2, <2>3 DEF TypeInv, Fault
<1>7. faults <= faults'
  <2>1. Fault \/ UNCHANGED faults
    BY DEF Refresher, StartRefresh, NothingPosted, Exchange, AnswerLost, Unverified,
           WriteSecret, WriteFails
  <2>2. faults \in Nat
    BY DEF TypeInv
  <2> QED BY <2>1, <2>2 DEF Fault
<1> QED
  BY <1>2, <1>4, <1>5, <1>6, <1>7 DEF Refresher

(* The runs stay one at a time, and what the live one holds is the         *)
(* vendor's token, until the secret has it or the chain is broken.         *)
LEMMA RefresherChain ==
    ASSUME TypeInv, ChainInv, NEW j \in Jobs, Refresher(j)
    PROVE  ChainInv'
<1>1. job[j] \in JobRecord /\ job \in [Jobs -> JobRecord]
  BY DEF TypeInv
<1>2. OneRefresh /\ AnswerIsLive /\ CopyIsFresh /\ SecretIsLive
  BY DEF ChainInv
<1>3. lost \subseteq lost'
  BY DEF Refresher, StartRefresh, NothingPosted, Exchange, AnswerLost, Unverified, GiveUp,
         WriteSecret, WriteFails
<1>4. CopyIsFresh'
  BY <1>2, <1>3, RefresherFrame DEF CopyIsFresh, Readable
<1>5. CASE StartRefresh(j)
  <2>1. /\ \A k \in Jobs : job[k].step \in {"idle", "ended"}
        /\ job' = [job EXCEPT ![j] = [IdleJob EXCEPT !.step = "holding", !.held = secret]]
        /\ UNCHANGED <<live, secret, lost>>
    BY <1>5 DEF StartRefresh
  <2>2. job'[j].step = "holding" /\ \A k \in Jobs \ {j} : job'[k] = job[k]
    BY <1>1, <2>1 DEF IdleJob
  <2>3. OneRefresh' /\ AnswerIsLive'
    BY <2>1, <2>2 DEF OneRefresh, Refreshing, AnswerIsLive
  <2>4. SecretIsLive'
    BY <1>2, <2>1 DEF SecretIsLive
  <2> QED BY <1>4, <2>3, <2>4 DEF ChainInv
<1>6. CASE Exchange(j) /\ job[j].held.refresh = live
  <2>1. PICK spent \in BOOLEAN, exp \in {now + Lifetime, job[j].held.exp, Unreadable} :
          /\ live' = IF spent THEN live + 1 ELSE live
          /\ job' = [job EXCEPT ![j] = [job[j] EXCEPT !.step = "answered", !.spent = spent,
                       !.new = Credential(IF spent THEN live + 1 ELSE live, exp)]]
    BY <1>6 DEF Exchange
  <2>2. job'[j].step = "answered" /\ job'[j].spent = spent /\ job'[j].new.refresh = live'
        /\ \A k \in Jobs \ {j} : job'[k] = job[k]
    BY <1>1, <2>1 DEF JobRecord, Credential
  <2>3. job[j].step = "holding" /\ UNCHANGED <<secret, lost>>
    BY <1>6 DEF Exchange
  <2>4. \A k \in Jobs \ {j} : ~Refreshing(k)
    BY <1>2, <2>3 DEF OneRefresh, Refreshing
  <2>5. OneRefresh' /\ AnswerIsLive'
    BY <2>2, <2>4 DEF OneRefresh, Refreshing, AnswerIsLive
  <2>6. SecretIsLive'
    BY <1>2, <2>1, <2>2, <2>3, <2>4 DEF SecretIsLive, Refreshing
  <2> QED BY <1>4, <2>5, <2>6 DEF ChainInv
<1>7. CASE ~StartRefresh(j) /\ ~(Exchange(j) /\ job[j].held.refresh = live)
  <2>1. /\ job' = [job EXCEPT ![j] = [job[j] EXCEPT !.step = "ended"]] /\ live' = live
        /\ job[j].step \in {"holding", "answered"}
    BY <1>7 DEF Refresher, NothingPosted, Exchange, AnswerLost, Unverified, GiveUp,
                WriteSecret, WriteFails
  <2>2. \/ secret' = job[j].new /\ job[j].step = "answered"
        \/ secret' = secret /\ (job[j].step = "answered" /\ job[j].spent => lost' # {})
    BY <1>7 DEF Refresher, NothingPosted, Exchange, AnswerLost, Unverified, GiveUp,
                WriteSecret, WriteFails
  <2>3. job'[j].step = "ended" /\ \A k \in Jobs \ {j} : job'[k] = job[k]
    BY <1>1, <2>1 DEF JobRecord
  <2>4. OneRefresh' /\ AnswerIsLive'
    BY <1>2, <1>3, <2>1, <2>3 DEF OneRefresh, Refreshing, AnswerIsLive
  <2>5. \A k \in Jobs \ {j} : job[k].step # "answered"
    BY <1>2, <2>1 DEF OneRefresh, Refreshing
  <2>6. SecretIsLive'
    BY <1>2, <1>3, <2>1, <2>2, <2>5 DEF SecretIsLive, AnswerIsLive
  <2> QED BY <1>4, <2>4, <2>6 DEF ChainInv
<1> QED
  BY <1>5, <1>6, <1>7

(* A refresher's step spends faults and touches no home. *)
LEMMA RefresherHome ==
    ASSUME TypeInv, HomeInv, NEW j \in Jobs, Refresher(j)
    PROVE  HomeInv'
<1>1. UNCHANGED <<now, proc, disk>>
  BY RefresherFrame
<1>2. faults \in Nat /\ faults' \in Nat /\ faults <= faults'
  BY RefresherType DEF TypeInv
<1>3. Cardinality(DOMAIN disk \ {proc.leg.dir}) \in Nat
  BY FS_Subset, FS_CardinalityType DEF TypeInv
<1>4. LeftBehind'
  BY <1>1, <1>2, <1>3 DEF HomeInv, LeftBehind
<1>5. LegHome' /\ HomesAreOurs'
  BY <1>1 DEF HomeInv, LegHome, HomesAreOurs, Delivered
<1> QED
  BY <1>4, <1>5 DEF HomeInv

(***************************************************************************)
(* The legs.                                                               *)
(***************************************************************************)
(* A step that leaves the chain's state alone keeps the chain, if it keeps *)
(* the running copy.                                                       *)
LEMMA ChainFrame ==
    ASSUME ChainInv, CopyIsFresh', UNCHANGED <<live, secret, job, lost>>
    PROVE  ChainInv'
BY DEF ChainInv, OneRefresh, Refreshing, AnswerIsLive, SecretIsLive

LEMMA LeftBehindFrame ==
    ASSUME TypeInv, TypeInv', LeftBehind, Fault \/ UNCHANGED faults,
           DOMAIN disk' \ {proc'.leg.dir} \subseteq DOMAIN disk \ {proc.leg.dir}
    PROVE  LeftBehind'
<1>1. IsFiniteSet(DOMAIN disk \ {proc.leg.dir})
  BY FS_Subset DEF TypeInv
<1>2. /\ Cardinality(DOMAIN disk' \ {proc'.leg.dir}) <= Cardinality(DOMAIN disk \ {proc.leg.dir})
      /\ Cardinality(DOMAIN disk \ {proc.leg.dir}) \in Nat
      /\ Cardinality(DOMAIN disk' \ {proc'.leg.dir}) \in Nat
  BY <1>1, FS_Subset, FS_CardinalityType
<1>3. faults \in Nat /\ faults <= faults'
  BY DEF TypeInv, Fault
<1> QED
  BY <1>2, <1>3 DEF LeftBehind, TypeInv

(* One home more is left than the running leg's, and one fault is spent. *)
LEMMA LeftBehindOneMore ==
    ASSUME TypeInv, LeftBehind, Fault, UNCHANGED disk
    PROVE  LeftBehind'
<1>1. IsFiniteSet(DOMAIN disk \ {proc.leg.dir})
  BY FS_Subset DEF TypeInv
<1>2. Cardinality(DOMAIN disk \ {proc.leg.dir}) \in Nat
  BY <1>1, FS_CardinalityType
<1>3. IsFiniteSet((DOMAIN disk \ {proc.leg.dir}) \cup {proc.leg.dir})
      /\ Cardinality((DOMAIN disk \ {proc.leg.dir}) \cup {proc.leg.dir})
           <= Cardinality(DOMAIN disk \ {proc.leg.dir}) + 1
  BY <1>1, <1>2, FS_AddElement
<1>4. DOMAIN disk' \ {proc'.leg.dir} \subseteq (DOMAIN disk \ {proc.leg.dir}) \cup {proc.leg.dir}
  OBVIOUS
<1>5. /\ Cardinality(DOMAIN disk' \ {proc'.leg.dir})
           <= Cardinality((DOMAIN disk \ {proc.leg.dir}) \cup {proc.leg.dir})
      /\ Cardinality(DOMAIN disk' \ {proc'.leg.dir}) \in Nat
      /\ Cardinality((DOMAIN disk \ {proc.leg.dir}) \cup {proc.leg.dir}) \in Nat
  BY <1>3, <1>4, FS_Subset, FS_CardinalityType
<1>6. faults \in Nat /\ faults' = faults + 1
  BY DEF TypeInv, Fault
<1> QED
  BY <1>2, <1>3, <1>5, <1>6 DEF LeftBehind

(* A process between legs. *)
LEMMA NoLegType == NoLeg \in LegRecord /\ NoLeg.step = "none" /\ NoLeg.dir = Missing
BY DEF NoLeg, LegRecord

(* A leg that is not running has no home. *)
LEMMA IdleLegHomeless ==
    ASSUME TypeInv, HomeInv, proc.leg.step # "running"
    PROVE  proc.leg.dir = Missing
BY DEF HomeInv, LegHome

LEMMA StartProcessInv ==
    ASSUME Inv, NEW hosted \in BOOLEAN, NEW operator \in BOOLEAN, NEW auth \in {secret, Missing},
           StartProcess(hosted, auth, operator)
    PROVE  Inv'
<1>1. TypeInv /\ LegHome /\ LeftBehind /\ ChainInv /\ proc \in Process
  BY DEF Inv, HomeInv, TypeInv
<1>2. auth \in CredentialRecord \cup {Missing}
  BY <1>1 DEF TypeInv
<1> DEFINE home == [v \in Homes |-> IF operator THEN Operator ELSE Unset]
           env == (VendorNames \cup ForgeCredentialNames) \cap HarnessEnvironment
<1>3. proc' = [proc EXCEPT !.up = TRUE, !.hosted = hosted, !.auth = auth, !.leg = NoLeg,
                           !.env = env, !.home = home]
      /\ ~proc.up /\ UNCHANGED <<now, live, secret, job, lost, disk, faults>>
  BY DEF StartProcess, refresher
<1>4. home \in [Homes -> Nat \cup {Unset, Operator}]
      /\ env \in SUBSET (VendorNames \cup ForgeCredentialNames)
  OBVIOUS
<1>5. NoLeg \in LegRecord /\ NoLeg.step = "none" /\ NoLeg.dir = Missing
  BY NoLegType
<1> HIDE DEF home, env
<1>6. proc' \in Process /\ proc'.leg = NoLeg /\ proc'.home = home
  BY <1>1, <1>2, <1>3, <1>4, <1>5 DEF Process
<1>7. TypeInv'
  BY <1>1, <1>3, <1>6 DEF TypeInv
<1>8. proc.leg.dir = Missing
  BY <1>1, <1>3 DEF LegHome
<1>9. LegHome'
  BY <1>5, <1>6 DEF LegHome
<1>10. HomesAreOurs'
  BY <1>6, NotNumbers DEF HomesAreOurs, home
<1>11. LeftBehind'
  BY <1>1, <1>3, <1>5, <1>6, <1>7, <1>8, LeftBehindFrame
<1>12. CopyIsFresh'
  BY <1>5, <1>6 DEF CopyIsFresh
<1> QED
  BY <1>1, <1>3, <1>7, <1>9, <1>10, <1>11, <1>12, ChainFrame DEF Inv, HomeInv

(* The process ends, or is killed, with its leg's home still on disk. *)
LEMMA EndInv ==
    ASSUME Inv, EndProcess \/ Kill
    PROVE  Inv'
<1>1. TypeInv /\ HomeInv /\ ChainInv /\ proc \in Process
  BY DEF Inv, TypeInv
<1>2. proc' = [proc EXCEPT !.up = FALSE, !.leg = NoLeg]
      /\ UNCHANGED <<now, live, secret, job, lost, disk>>
  BY DEF EndProcess, Kill, refresher
<1>3. NoLeg \in LegRecord /\ NoLeg.step = "none" /\ NoLeg.dir = Missing
  BY NoLegType
<1>4. proc' \in Process /\ proc'.leg = NoLeg /\ ~proc'.up
  BY <1>1, <1>2, <1>3 DEF Process
<1>5. TypeInv'
  BY <1>1, <1>2, <1>4 DEF TypeInv, EndProcess, Kill, Fault
<1>6. LegHome' /\ HomesAreOurs' /\ CopyIsFresh'
  BY <1>3, <1>4 DEF LegHome, HomesAreOurs, CopyIsFresh
<1>7. LeftBehind'
  <2>1. CASE EndProcess
    <3>1. proc.leg.dir = Missing /\ UNCHANGED faults
      BY <1>1, <2>1, IdleLegHomeless DEF EndProcess
    <3> QED
      BY <1>1, <1>2, <1>3, <1>4, <1>5, <3>1, LeftBehindFrame DEF HomeInv
  <2>2. CASE Kill
    BY <1>1, <1>2, <2>2, LeftBehindOneMore DEF Kill, HomeInv
  <2> QED BY <2>1, <2>2
<1> QED
  BY <1>1, <1>2, <1>5, <1>6, <1>7, ChainFrame DEF Inv, HomeInv

LEMMA TickInv == ASSUME Inv, Tick PROVE Inv'
<1>1. TypeInv /\ HomeInv /\ ChainInv
  BY DEF Inv
<1>2. UNCHANGED <<live, secret, job, lost, proc, disk, faults>> /\ now' = now + 1
  BY DEF Tick, refresher
<1>3. TypeInv'
  BY <1>1, <1>2 DEF TypeInv
<1>4. HomeInv'
  BY <1>1, <1>2 DEF HomeInv, LegHome, HomesAreOurs, LeftBehind, Delivered
<1>5. CopyIsFresh'
  BY <1>1, <1>2 DEF ChainInv, CopyIsFresh
<1> QED
  BY <1>1, <1>2, <1>3, <1>4, <1>5, ChainFrame DEF Inv

(* A harness refreshes only a copy older than the floor, which breaks the  *)
(* chain and says so.                                                      *)
LEMMA HarnessRefreshesInv == ASSUME Inv, HarnessRefreshes PROVE Inv'
<1> DEFINE dir == proc.leg.dir
           c == Credential(live + 1, now + Lifetime)
<1>1. TypeInv /\ HomeInv /\ ChainInv /\ proc \in Process /\ proc.leg \in LegRecord
  BY DEF Inv, TypeInv, Process
<1>2. /\ proc.leg.step = "running" /\ dir # Missing /\ dir \in DOMAIN disk
      /\ Descriptors[proc.leg.harness].refresher /\ Expired(disk[dir])
      /\ live' = live + 1 /\ disk' = [disk EXCEPT ![dir] = c]
      /\ lost' = IF now - proc.leg.since > MinHours THEN lost \cup {"overrun"} ELSE lost
      /\ UNCHANGED <<now, secret, job, proc, faults>>
  BY DEF HarnessRefreshes
<1>3. c \in CredentialRecord
  BY <1>1, CredentialsAssumption DEF Credential, CredentialRecord, TypeInv
<1>4. TypeInv'
  <2> HIDE DEF c
  <2> QED BY <1>1, <1>2, <1>3 DEF TypeInv
<1>5. HomeInv'
  <2> HIDE DEF c
  <2> QED BY <1>1, <1>2 DEF HomeInv, LegHome, HomesAreOurs, LeftBehind, Delivered, TypeInv
<1>6. lost' # {}
  <2>1. CASE lost # {}
    BY <1>2, <2>1
  <2>2. CASE lost = {}
    <3>1. Readable(disk[dir]) /\ disk[dir].exp >= proc.leg.since + MinHours
      BY <1>1, <1>2, <2>2 DEF ChainInv, CopyIsFresh
    <3>2. disk[dir].exp < now
      BY <1>2 DEF Expired
    <3>3. disk[dir].exp \in Nat /\ proc.leg.since \in Nat /\ now \in Nat
      <4>1. disk[dir] \in CredentialRecord
        BY <1>1, <1>2 DEF TypeInv
      <4>2. proc.leg.since \in Nat /\ now \in Nat
        BY <1>1 DEF LegRecord, TypeInv
      <4> QED
        BY <3>1, <4>1, <4>2 DEF CredentialRecord, Readable
    <3>4. now - proc.leg.since > MinHours
      BY <3>1, <3>2, <3>3 DEF MinHours
    <3> QED BY <1>2, <3>4
  <2> QED BY <2>1, <2>2
<1>7. ChainInv'
  BY <1>1, <1>2, <1>6
     DEF ChainInv, OneRefresh, Refreshing, AnswerIsLive, SecretIsLive, CopyIsFresh
<1> QED
  BY <1>4, <1>5, <1>7 DEF Inv

(* Discard puts the variable back whatever becomes of the home. *)
LEMMA DiscardInv == ASSUME Inv, Discard PROVE Inv'
<1> DEFINE leg == proc.leg
           v == Descriptors[leg.harness].staging
           home == IF leg.dir = Missing THEN proc.home ELSE [proc.home EXCEPT ![v] = leg.was]
           done == [NoLeg EXCEPT !.step = "done"]
           off == [d \in DOMAIN disk \ {leg.dir} |-> disk[d]]
<1>1. TypeInv /\ LegHome /\ HomesAreOurs /\ LeftBehind /\ ChainInv /\ proc \in Process
  BY DEF Inv, HomeInv, TypeInv
<1>2. /\ leg.step = "running" /\ proc' = [proc EXCEPT !.leg = done, !.home = home]
      /\ UNCHANGED <<now, live, secret, job, lost>>
      /\ \/ disk' = off /\ UNCHANGED faults
         \/ leg.dir # Missing /\ Fault /\ disk' = disk
  BY DEF Discard, refresher
<1>3. done \in LegRecord /\ done.step = "done" /\ done.dir = Missing
  BY NoLegType DEF LegRecord
<1>4. home \in [Homes -> Nat \cup {Unset, Operator}]
  BY <1>1 DEF Process, LegRecord
<1>5. proc' \in Process /\ proc'.leg = done /\ proc'.home = home /\ proc'.up = proc.up
  <2> HIDE DEF done, home
  <2> QED BY <1>1, <1>2, <1>3, <1>4 DEF Process
<1>6. off \in [DOMAIN off -> CredentialRecord] /\ DOMAIN off = DOMAIN disk \ {leg.dir}
  BY <1>1 DEF TypeInv
<1>7. TypeInv'
  <2>1. IsFiniteSet(DOMAIN disk \ {leg.dir})
    BY <1>1, FS_Subset DEF TypeInv
  <2> HIDE DEF off
  <2>2. disk' \in [DOMAIN disk' -> CredentialRecord] /\ DOMAIN disk' \subseteq Nat
        /\ IsFiniteSet(DOMAIN disk')
    BY <1>1, <1>2, <1>6, <2>1 DEF TypeInv
  <2> QED BY <1>1, <1>2, <1>5, <2>2 DEF TypeInv, Fault
<1>8. HomesAreOurs'
  <2>1. \A w \in Homes : home[w] \notin Nat \/ ~proc.up
    <3>1. CASE leg.dir = Missing
      BY <1>1, <3>1 DEF HomesAreOurs
    <3>2. CASE leg.dir # Missing
      <4>1. leg.was \notin Nat /\ \A w \in Homes \ {v} : proc.home[w] \notin Nat \/ ~proc.up
        BY <1>1, <3>2 DEF HomesAreOurs, LegHome
      <4>2. \A w \in Homes : home[w] = IF w = v THEN leg.was ELSE proc.home[w]
        BY <1>1, <3>2 DEF Process
      <4> QED BY <4>1, <4>2
    <3> QED BY <3>1, <3>2
  <2> HIDE DEF home, done
  <2> QED BY <1>5, <2>1 DEF HomesAreOurs
<1>9. LegHome' /\ CopyIsFresh'
  <2> HIDE DEF done
  <2> QED BY <1>3, <1>5 DEF LegHome, CopyIsFresh
<1>10. LeftBehind'
  <2>1. CASE disk' = off /\ UNCHANGED faults
    <3> HIDE DEF done, off
    <3> QED BY <1>1, <1>3, <1>5, <1>6, <1>7, <2>1, LeftBehindFrame
  <2>2. CASE Fault /\ disk' = disk
    BY <1>1, <2>2, LeftBehindOneMore
  <2> QED BY <1>2, <2>1, <2>2
<1> QED
  BY <1>1, <1>2, <1>7, <1>8, <1>9, <1>10, ChainFrame DEF Inv, HomeInv

(***************************************************************************)
(* The start of a leg.                                                     *)
(***************************************************************************)
(* The next scratch home is a new one. *)
LEMMA ScratchIsNew == ASSUME TypeInv PROVE Scratch \in Nat \ DOMAIN disk
<1> DEFINE n == Cardinality(DOMAIN disk)
<1>1. n \in Nat /\ IsFiniteSet(DOMAIN disk)
  BY FS_CardinalityType DEF TypeInv
<1>2. \E d \in 1..(n + 1) : d \notin DOMAIN disk
  <2> SUFFICES ASSUME 1..(n + 1) \subseteq DOMAIN disk PROVE FALSE
    OBVIOUS
  <2>1. Cardinality(1..(n + 1)) = n + 1
    BY <1>1, FS_Interval
  <2>2. Cardinality(1..(n + 1)) <= n
    BY <1>1, FS_Subset
  <2> QED BY <1>1, <2>1, <2>2
<1> QED
  BY <1>1, <1>2 DEF Scratch

(* What is delivered to a harness that stages is a credential. *)
LEMMA DeliveredType ==
    ASSUME TypeInv, NEW h \in Harnesses, Delivered(h) # Missing
    PROVE  Delivered(h) \in CredentialRecord
BY DEF TypeInv, Process, Delivered, Credential, CredentialRecord

(* A leg that starts on a copy has it to itself, and the copy is fresh. *)
LEMMA StagedInv ==
    ASSUME Inv, NEW h \in Harnesses, NEW endpoint \in BOOLEAN, proc.up,
           proc.leg.step # "running", Stages(h), IsFresh(h, Delivered(h)), UNCHANGED faults,
           disk' = [d \in DOMAIN disk \cup {Scratch} |->
                      IF d = Scratch THEN Delivered(h) ELSE disk[d]],
           proc' = [proc EXCEPT !.home[Descriptors[h].staging] = Scratch,
                                !.leg = [Started(h, endpoint) EXCEPT
                                           !.dir = Scratch,
                                           !.was = proc.home[Descriptors[h].staging]]],
           UNCHANGED <<now, refresher>>
    PROVE  Inv'
<1> DEFINE v == Descriptors[h].staging
           leg == [Started(h, endpoint) EXCEPT !.dir = Scratch, !.was = proc.home[v]]
           home == [proc.home EXCEPT ![v] = Scratch]
<1>1. TypeInv /\ LegHome /\ HomesAreOurs /\ LeftBehind /\ ChainInv /\ proc \in Process
  BY DEF Inv, HomeInv, TypeInv
<1>2. Scratch \in Nat \ DOMAIN disk /\ Scratch # Missing
  BY <1>1, ScratchIsNew, NotNumbers
<1>3. Delivered(h) \in CredentialRecord /\ Delivered(h) # Missing
  BY <1>1, DeliveredType DEF Stages
<1>4. h \in Staged /\ v \in Homes
  BY DescriptorFacts DEF Stages
<1>5. /\ leg \in LegRecord /\ leg.step = "running" /\ leg.harness = h /\ leg.dir = Scratch
      /\ leg.was = proc.home[v] /\ leg.since = now
  <2>1. Started(h, endpoint) \in LegRecord /\ Started(h, endpoint).step = "running"
        /\ Started(h, endpoint).harness = h /\ Started(h, endpoint).since = now
    BY <1>1, NoLegType DEF Started, LegRecord, TypeInv
  <2>2. proc.home[v] \in Nat \cup {Unset, Operator}
    BY <1>1, <1>4 DEF Process
  <2> QED BY <1>2, <2>1, <2>2 DEF LegRecord
<1>6. home \in [Homes -> Nat \cup {Unset, Operator}] /\ home[v] = Scratch
      /\ \A w \in Homes \ {v} : home[w] = proc.home[w]
  BY <1>1, <1>2, <1>4 DEF Process
<1>7. proc' = [proc EXCEPT !.home = home, !.leg = leg]
  OBVIOUS
<1>8. /\ proc' \in Process /\ proc'.leg = leg /\ proc'.home = home /\ proc'.up
      /\ proc'.auth = proc.auth
  <2> HIDE DEF leg, home
  <2> QED BY <1>1, <1>5, <1>6, <1>7 DEF Process
<1>9. /\ DOMAIN disk' = DOMAIN disk \cup {Scratch} /\ disk'[Scratch] = Delivered(h)
      /\ disk' \in [DOMAIN disk' -> CredentialRecord]
  BY <1>1, <1>2, <1>3 DEF TypeInv
<1>10. TypeInv'
  <2>1. IsFiniteSet(DOMAIN disk') /\ DOMAIN disk' \subseteq Nat
    BY <1>1, <1>2, <1>9, FS_AddElement DEF TypeInv
  <2> HIDE DEF leg, home
  <2> QED BY <1>1, <1>8, <1>9, <2>1 DEF TypeInv, refresher
<1>11. \A w \in Homes : proc.home[w] \notin Nat
  BY <1>1 DEF HomesAreOurs, LegHome
<1>12. LegHome'
  <2>1. Delivered(h)' = Delivered(h)
    <3> HIDE DEF leg, home
    <3> QED BY <1>8 DEF Delivered
  <2> HIDE DEF leg, home
  <2> QED BY <1>2, <1>3, <1>4, <1>5, <1>6, <1>8, <1>9, <1>11, <2>1 DEF LegHome
<1>13. HomesAreOurs'
  <2> HIDE DEF leg, home
  <2> QED BY <1>2, <1>5, <1>6, <1>8, <1>11 DEF HomesAreOurs
<1>14. LeftBehind'
  <2>1. proc.leg.dir = Missing
    BY <1>1 DEF LegHome
  <2>2. DOMAIN disk' \ {proc'.leg.dir} \subseteq DOMAIN disk \ {proc.leg.dir}
    <3> HIDE DEF leg, home
    <3> QED BY <1>1, <1>2, <1>5, <1>8, <1>9, <2>1, NotNumbers DEF TypeInv
  <2> QED BY <1>1, <1>10, <2>2, LeftBehindFrame
<1>15. CopyIsFresh'
  <2>1. Descriptors[h].refresher =>
          Readable(Delivered(h)) /\ SecondsLeft(Delivered(h)) >= MinHours
    BY DescriptorFacts DEF IsFresh
  <2>2. Descriptors[h].refresher => Delivered(h).exp >= now + MinHours
    BY <1>1, <1>3, <2>1 DEF SecondsLeft, MinHours, Readable, CredentialRecord, TypeInv
  <2> HIDE DEF leg, home
  <2> QED BY <1>5, <1>8, <1>9, <2>1, <2>2 DEF CopyIsFresh, Readable
<1> QED
  BY <1>1, <1>10, <1>12, <1>13, <1>14, <1>15, ChainFrame DEF Inv, HomeInv, refresher

(* A leg that is refused, or whose harness has its own login, holds none. *)
LEMMA UnstagedInv ==
    ASSUME Inv, proc.up, proc.leg.step # "running", NEW leg \in LegRecord,
           leg.dir = Missing,
           \/ leg.step = "refused"
           \/ leg.step = "running" /\ leg.harness \in Harnesses /\ ~Stages(leg.harness),
           proc' = [proc EXCEPT !.leg = leg], Fault \/ UNCHANGED faults,
           UNCHANGED <<now, refresher, disk>>
    PROVE  Inv'
<1>1. TypeInv /\ LegHome /\ HomesAreOurs /\ LeftBehind /\ ChainInv /\ proc \in Process
  BY DEF Inv, HomeInv, TypeInv
<1>2. /\ proc' \in Process /\ proc'.leg = leg /\ proc'.home = proc.home /\ proc'.up
      /\ proc'.auth = proc.auth
  BY <1>1 DEF Process
<1>3. TypeInv'
  BY <1>1, <1>2 DEF TypeInv, Fault, refresher
<1>4. \A w \in Homes : proc.home[w] \notin Nat
  BY <1>1 DEF HomesAreOurs, LegHome
<1>5. LegHome'
  <2>1. Delivered(leg.harness)' = Delivered(leg.harness)
    BY <1>2 DEF Delivered
  <2>2. leg.harness \in Staged /\ leg.step = "running" => Delivered(leg.harness) = Missing
    BY DescriptorFacts DEF Stages
  <2> QED BY <1>2, <2>1, <2>2 DEF LegHome
<1>6. HomesAreOurs' /\ CopyIsFresh'
  BY <1>2, <1>4 DEF HomesAreOurs, CopyIsFresh
<1>7. LeftBehind'
  <2>1. proc.leg.dir = Missing
    BY <1>1 DEF LegHome
  <2> QED BY <1>1, <1>2, <1>3, <2>1, LeftBehindFrame
<1> QED
  BY <1>1, <1>3, <1>5, <1>6, <1>7, ChainFrame DEF Inv, HomeInv, refresher

LEMMA PrepareInv ==
    ASSUME Inv, NEW h \in Harnesses, NEW endpoint \in BOOLEAN, Prepare(h, endpoint)
    PROVE  Inv'
<1>1. proc.up /\ proc.leg.step # "running" /\ UNCHANGED <<now, refresher>> /\ now \in Nat
  BY DEF Prepare, Inv, TypeInv
<1> DEFINE refused == [NoLeg EXCEPT !.step = "refused"]
           leg == Started(h, endpoint)
<1>2. CASE proc' = Refused /\ UNCHANGED disk /\ (Fault \/ UNCHANGED faults)
  <2>1. refused \in LegRecord /\ refused.step = "refused" /\ refused.dir = Missing
    BY NoLegType DEF LegRecord
  <2>2. proc' = [proc EXCEPT !.leg = refused]
    BY <1>2 DEF Refused
  <2> HIDE DEF refused
  <2> QED BY <1>1, <1>2, <2>1, <2>2, UnstagedInv
<1>3. CASE ~Stages(h) /\ proc' = [proc EXCEPT !.leg = leg] /\ UNCHANGED <<disk, faults>>
  <2>1. leg \in LegRecord /\ leg.step = "running" /\ leg.dir = Missing /\ leg.harness = h
    BY <1>1, NoLegType DEF Started, LegRecord
  <2> HIDE DEF leg
  <2> QED BY <1>1, <1>3, <2>1, UnstagedInv
<1>4. CASE /\ Stages(h) /\ IsFresh(h, Delivered(h)) /\ UNCHANGED faults
           /\ disk' = [d \in DOMAIN disk \cup {Scratch} |->
                         IF d = Scratch THEN Delivered(h) ELSE disk[d]]
           /\ proc' = [proc EXCEPT !.home[Descriptors[h].staging] = Scratch,
                                   !.leg = [Started(h, endpoint) EXCEPT
                                              !.dir = Scratch,
                                              !.was = proc.home[Descriptors[h].staging]]]
  BY <1>1, <1>4, StagedInv
<1> QED
  BY <1>2, <1>3, <1>4 DEF Prepare

LEMMA StepInv == Inv /\ [Next]_vars => Inv'
<1> SUFFICES ASSUME Inv, [Next]_vars PROVE Inv'
  OBVIOUS
<1>1. CASE \E j \in Jobs : Refresher(j)
  BY <1>1, RefresherType, RefresherHome, RefresherChain DEF Inv
<1>2. CASE \E hosted, operator \in BOOLEAN, auth \in {secret, Missing} :
             StartProcess(hosted, auth, operator)
  BY <1>2, StartProcessInv
<1>3. CASE \E h \in Harnesses, endpoint \in BOOLEAN : Prepare(h, endpoint)
  BY <1>3, PrepareInv
<1>4. CASE HarnessRefreshes
  BY <1>4, HarnessRefreshesInv
<1>5. CASE Discard
  BY <1>5, DiscardInv
<1>6. CASE EndProcess \/ Kill
  BY <1>6, EndInv
<1>7. CASE Tick
  BY <1>7, TickInv
<1>8. CASE UNCHANGED vars
  <2>1. UNCHANGED <<now, live, secret, job, lost, proc, disk, faults>>
    BY <1>8 DEF vars
  <2>2. TypeInv' /\ HomeInv' /\ ChainInv'
    BY <2>1 DEF Inv, TypeInv, HomeInv, LegHome, HomesAreOurs, LeftBehind, Delivered, ChainInv,
       OneRefresh, Refreshing, AnswerIsLive, CopyIsFresh, SecretIsLive
  <2> QED BY <2>2 DEF Inv
<1> QED
  BY <1>1, <1>2, <1>3, <1>4, <1>5, <1>6, <1>7, <1>8 DEF Next, Refresher

(* What the homes' part of the invariant says of a running harness. *)
LEMMA HomesOfALeg == TypeInv /\ HomeInv => NothingOutlivesTheLeg
<1> SUFFICES ASSUME TypeInv, HomeInv PROVE NothingOutlivesTheLeg
  OBVIOUS
<1>1. LegHome /\ HomesAreOurs /\ LeftBehind
  BY DEF HomeInv
<1>2. ASSUME proc.leg.step = "running", proc.leg.harness \in Staged
      PROVE  LET home == ChildHome(proc.leg.harness)
             IN  IF Delivered(proc.leg.harness) = Missing THEN home \notin Nat
                 ELSE home = proc.leg.dir /\ home \in DOMAIN disk
  <2>1. CASE Delivered(proc.leg.harness) = Missing
    <3>1. proc.up /\ proc.leg.dir = Missing
      BY <1>1, <1>2, <2>1 DEF LegHome
    <3>2. proc.home[Descriptors[proc.leg.harness].staging] \notin Nat
      BY <1>1, <1>2, <3>1, DescriptorFacts DEF HomesAreOurs
    <3> QED BY <2>1, <3>1, <3>2 DEF ChildHome
  <2>2. CASE Delivered(proc.leg.harness) # Missing
    BY <1>1, <1>2, <2>2 DEF LegHome, ChildHome
  <2> QED BY <2>1, <2>2
<1>3. proc.up /\ proc.leg.step # "running" => \A v \in Homes : proc.home[v] \notin Nat
  BY <1>1 DEF LegHome, HomesAreOurs
<1> QED
  BY <1>1, <1>2, <1>3 DEF NothingOutlivesTheLeg, LeftBehind

(* Whatever the vendor answers and whichever call fails or process dies,   *)
(* for any number of refresher runs: the repository's secret holds the     *)
(* token the vendor accepts unless an answer was lost on the way back, a   *)
(* harness ran past the floor, or a run holds the replacement now.         *)
THEOREM SecretStaysLive == Spec => []SecretIsLive
<1>1. Inv => SecretIsLive
  BY DEF Inv, ChainInv
<1> QED
  BY <1>1, InitInv, StepInv, PTL DEF Spec

(* For any sequence of legs, harnesses, endpoints, failures and kills: a   *)
(* harness reads its own leg's copy or none, no variable of the process    *)
(* survives a leg, and at most one scratch home stays per fault.           *)
THEOREM NoHomeOutlivesItsLeg == Spec => []NothingOutlivesTheLeg
<1>1. Inv => NothingOutlivesTheLeg
  BY HomesOfALeg DEF Inv
<1> QED
  BY <1>1, InitInv, StepInv, PTL DEF Spec
================================================================================
