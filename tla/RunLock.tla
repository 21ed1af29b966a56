------------------------------- MODULE RunLock --------------------------------
(***************************************************************************)
(* The local run lock of one pull request: a file that names the process   *)
(* holding it.  A process reads the file, judges the holder, removes a     *)
(* dead one's file and writes its own, in calls of their own; it drives    *)
(* the pull request, and removes the file when it ends.  A process may be  *)
(* killed at any point, and its pid may come back as another run's.        *)
(***************************************************************************)
EXTENDS Naturals

CONSTANTS
    Pids,     \* the process identifiers of this machine
    MaxKills  \* bound on processes killed

VARIABLES
    file,   \* the pid in the lock file, if there is a file
    proc,   \* what each pid's process is doing
    held,   \* the processes whose own acquisition wrote the lock
    kills   \* how many processes have been killed

vars == <<file, proc, held, kills>>

None == "no file"
Steps == {"gone", "reading", "taking over", "writing", "driving", "leaving"}

Init == file = None /\ proc = [p \in Pids |-> "gone"] /\ held = {} /\ kills = 0

PidAlive(p) == proc[p] # "gone"

(* A local `review', `resolve' or `cycle' starts; an automated one takes no *)
(* lock and is kept alone by the workflow's concurrency group.             *)
Begin(p) ==
    /\ proc[p] = "gone"
    /\ proc' = [proc EXCEPT ![p] = "reading"]
    /\ held' = held \ {p}
    /\ UNCHANGED <<file, kills>>

(* No file is written over; the process's own lock is kept and not taken   *)
(* again; a live holder refuses; a dead one is taken over from.            *)
ReadFile(p) ==
    /\ proc[p] = "reading"
    /\ proc' = [proc EXCEPT ![p] =
         CASE file = None -> "writing"
           [] file = p -> "driving"
           [] file \in Pids \ {p} /\ PidAlive(file) -> "gone"
           [] OTHER -> "taking over"]
    /\ UNCHANGED <<file, held, kills>>

Remove(p) ==
    /\ proc[p] = "taking over"
    /\ file' = None
    /\ proc' = [proc EXCEPT ![p] = "writing"]
    /\ UNCHANGED <<held, kills>>

(* The file is truncated and written, whoever wrote it meanwhile. *)
WriteFile(p) ==
    /\ proc[p] = "writing"
    /\ file' = p
    /\ held' = held \cup {p}
    /\ proc' = [proc EXCEPT ![p] = "driving"]
    /\ UNCHANGED kills

Finish(p) ==
    /\ proc[p] = "driving"
    /\ proc' = [proc EXCEPT ![p] = "leaving"]
    /\ UNCHANGED <<file, held, kills>>

(* The process that wrote the lock removes the file; one that did not      *)
(* leaves it be.                                                           *)
Release(p) ==
    /\ proc[p] = "leaving"
    /\ file' = IF p \in held THEN None ELSE file
    /\ held' = held \ {p}
    /\ proc' = [proc EXCEPT ![p] = "gone"]
    /\ UNCHANGED kills

Kill(p) ==
    /\ PidAlive(p) /\ kills < MaxKills
    /\ kills' = kills + 1
    /\ proc' = [proc EXCEPT ![p] = "gone"]
    /\ UNCHANGED <<file, held>>

Next ==
    \E p \in Pids :
        \/ Begin(p) \/ ReadFile(p) \/ Remove(p) \/ WriteFile(p)
        \/ Finish(p) \/ Release(p) \/ Kill(p)

Spec == Init /\ [][Next]_vars

-------------------------------------------------------------------------------
(* Two local runs never drive one pull request at once: that is what the   *)
(* lock is taken for.  Violated: two that both find no file, or both find  *)
(* a dead holder's, both write it and both go on.                          *)
OneRunAtATime == \A p, q \in Pids : proc[p] = "driving" /\ proc[q] = "driving" => p = q
===============================================================================
