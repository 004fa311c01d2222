------------------------------- MODULE Debounce -------------------------------
(***************************************************************************)
(* What StableFileDispatcher (watcher.py:64-65) promises, without thread,  *)
(* lock or schedule: a path that was asked about is reported once its file *)
(* has been at rest for Settle.  It is dropped when its file is gone, and  *)
(* at most once for every time its file was renamed away, whatever is at   *)
(* the path when the rename is heard of; it is not dropped otherwise.      *)
(***************************************************************************)
EXTENDS Naturals

CONSTANTS
    Paths,   \* files of a vault
    Settle   \* settle_seconds or notification_quiet_seconds, the larger one

VARIABLES
    files,     \* the signature of every file, Absent where there is none
    changed,   \* when a file last changed its signature
    now,       \* time.monotonic()
    renamed,   \* how many renames away from a path have not been heard of
    awaiting,  \* paths whose file is to be reported
    reported   \* the signature a path was last reported with

vars == <<files, changed, now, renamed, awaiting, reported>>

\* A signature stands for size and mtime; every write gives a new one.
Absent == 0

Init ==
    /\ files \in [Paths -> Nat]
    /\ changed = [p \in Paths |-> 0]
    /\ now = 0
    /\ renamed = [p \in Paths |-> 0]
    /\ awaiting = {}
    /\ reported = [p \in Paths |-> Absent]

Change(p) ==
    /\ files' = [files EXCEPT ![p] = files'[p]]
    /\ files'[p] \in Nat \ {files[p]}
    /\ changed' = [changed EXCEPT ![p] = now]
    /\ UNCHANGED <<now, renamed, awaiting, reported>>

\* handle_move will hear of it, maybe when another file has taken the path.
Rename(p) ==
    /\ files[p] # Absent
    /\ files' = [files EXCEPT ![p] = Absent]
    /\ changed' = [changed EXCEPT ![p] = now]
    /\ renamed' = [renamed EXCEPT ![p] = @ + 1]
    /\ UNCHANGED <<now, awaiting, reported>>

Tick ==
    /\ now' = now + 1
    /\ UNCHANGED <<files, changed, renamed, awaiting, reported>>

Ask(p) ==
    /\ awaiting' = awaiting \cup {p}
    /\ UNCHANGED <<files, changed, now, renamed, reported>>

\* The rename away is heard of, and withdraws the path once; one that is being
\* looked at just then stays.
Withdraw(p) ==
    /\ renamed[p] > 0
    /\ renamed' = [renamed EXCEPT ![p] = @ - 1]
    /\ awaiting' \in {awaiting, awaiting \ {p}}
    /\ UNCHANGED <<files, changed, now, reported>>

\* The file has been at rest.  It stays awaited when it was asked about again
\* while the report was being prepared.
Report(p) ==
    /\ p \in awaiting
    /\ files[p] # Absent
    /\ changed[p] + Settle <= now
    /\ reported' = [reported EXCEPT ![p] = files[p]]
    /\ awaiting' \in {awaiting, awaiting \ {p}}
    /\ UNCHANGED <<files, changed, now, renamed>>

GiveUp(p) ==
    /\ p \in awaiting
    /\ files[p] = Absent
    /\ awaiting' = awaiting \ {p}
    /\ UNCHANGED <<files, changed, now, renamed, reported>>

Next ==
    \/ Tick
    \/ \E p \in Paths : Change(p) \/ Rename(p)
    \/ \E p \in Paths : Ask(p) \/ Withdraw(p) \/ Report(p) \/ GiveUp(p)

Spec == Init /\ [][Next]_vars
=============================================================================
