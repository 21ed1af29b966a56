-------------------------------- MODULE Naming --------------------------------
(***************************************************************************)
(* Who is said to have answered a call (internal/harness/usage.go): the    *)
(* model a harness's usage report, export or session file names.  Codex    *)
(* names it only in a file of a directory that every Codex process of the  *)
(* machine writes to.                                                      *)
(***************************************************************************)
EXTENDS Integers, Sequences

CONSTANTS
    Models,   \* the models there are
    ScanCap,  \* rolloutScanCap: session files opened to look for a session
    MaxListed \* bound: models of a session, events and files of a directory

Unnamed == ""

ASSUME NamingAssumption == Unnamed \notin Models /\ {ScanCap, MaxListed} \subseteq Nat

Listings(S) == UNION {[1 .. n -> S] : n \in 0 .. MaxListed}
First(S) == CHOOSE i \in S : \A j \in S : i <= j

(***************************************************************************)
(* Claude lists the models of a session with the tokens of each.           *)
(***************************************************************************)
(* A key names its model, a suffix apart; a canonical name goes before it. *)
ModelID(entry) == IF entry.canonical = "absent" THEN entry.key ELSE entry.canonical

(* Mutant: the list is left in the harness's order. *)
LargestShareUnsorted(entries, i) == i = 1

(* The first of the largest shares: the sort is stable.                    *)
LargestShare(entries, i) ==
    \A j \in DOMAIN entries :
        /\ entries[j].total <= entries[i].total
        /\ j < i => entries[j].total < entries[i].total

ModelReportedFromModels(entries) ==
    IF entries = <<>> THEN Unnamed
    ELSE ModelID(entries[CHOOSE i \in DOMAIN entries : LargestShare(entries, i)])

(* A session that reports lists its models, and the one that answers has   *)
(* the largest share.                                                      *)
Session(model) ==
    {entries \in Listings([key : Models, canonical : Models \cup {"absent"}, total : 0 .. 2]) :
        /\ \A i \in DOMAIN entries : entries[i].canonical \in {"absent", entries[i].key}
        /\ \A i, j \in DOMAIN entries : i # j => entries[i].key # entries[j].key
        /\ \E i \in DOMAIN entries :
             /\ entries[i].key = model
             /\ \A j \in DOMAIN entries : j # i => entries[j].total < entries[i].total}

(***************************************************************************)
(* Codex's events carry the session's id, under either of two names, and   *)
(* the session's file the model.                                           *)
(***************************************************************************)
Mine == "mine"
NoSession == ""

(* The second name is read when the first is absent, not when it is no text. *)
SessionOf(event) ==
    LET chosen == IF event.thread = "absent" THEN event.session ELSE event.thread
    IN  IF chosen \in {"absent", "number"} THEN NoSession ELSE chosen

CodexSessionID(events) ==
    LET naming == {i \in DOMAIN events : SessionOf(events[i]) # NoSession}
    IN  IF naming = {} THEN NoSession ELSE SessionOf(events[First(naming)])

SessionIDs ==
    {CodexSessionID(events) : events \in Listings([thread : {"absent", "number", Mine},
                                                   session : {"absent", "number", Mine}])}

(* The files of the directory, newest first: whose each is by its name and *)
(* by its first line, and the model in it, if they can be read.            *)
File(model) ==
    [name : {Mine, NoSession}, id : {Mine, NoSession}, model : {model, Unnamed}]
    \cup [name : {"other", NoSession}, id : {"other", NoSession}, model : Models]

Directory(model) == Listings(File(model))

(* Mutant: the newest file is taken to be the session's. *)
IsRolloutNewest(files, session, i) == i = 1

(* By its name, or by its first line while files may still be opened.      *)
IsRollout(files, session, i) ==
    files[i].name = session \/ (i <= ScanCap /\ files[i].id = session)

ReadCodexRollout(files, session) ==
    LET found == {i \in DOMAIN files : IsRollout(files, session, i)}
    IN  IF session = NoSession \/ found = {} THEN Unnamed
        ELSE files[First(found)].model

(***************************************************************************)
(* What each harness may name, of a call the model answered: agy names     *)
(* none, opencode's export and grok's list have the one model of theirs.   *)
(***************************************************************************)
NamedBy(harness, model) ==
    CASE harness = "agy" -> {Unnamed}
      [] harness = "claude" -> {ModelReportedFromModels(entries) : entries \in Session(model)}
      [] harness = "codex" -> {ReadCodexRollout(files, session) :
                                 files \in Directory(model), session \in SessionIDs}
      [] OTHER -> {model}
===============================================================================
