------------------------------ MODULE ArraySample ------------------------------
(***************************************************************************)
(* The state of the array on the Storage page: the worker reads three      *)
(* files of md0 one after the other (storage.rs: sample) and makes one     *)
(* word of them (raid_state), while disks fail and are recovered.          *)
(***************************************************************************)
EXTENDS Naturals

CONSTANT None  \* an unreadable file

VARIABLES
    array,    \* array_state, degraded and sync_action
    reading,  \* the file to be read next
    found,    \* what has been read
    shown,    \* the word on the page
    during    \* history: the words that fitted in the course of that sample

vars == <<array, reading, found, shown, during>>

\* In use: clean, active, active-idle, readonly, read-auto; stopped: inactive,
\* clear; other: any other word.
State == {"in use", "stopped", "other"}
Sync == {"idle", "recover"}
Array == [state: State, degraded: 0..1, sync: Sync]
Found == [state: State \cup {None}, degraded: {0, 1, None}, sync: Sync \cup {None}]
Word == {"healthy", "degraded", "rebuilding", "failed", "unavailable"}

TypeOK ==
    /\ array \in Array
    /\ reading \in {"state", "degraded", "sync"}
    /\ found \in Found
    /\ shown \in Word
    /\ during \subseteq Word

\* The words that fit an array: what each says by itself is so.
Fitting(a) ==
    {IF a.degraded = 0 THEN "healthy" ELSE "degraded"}
    \cup (IF a.sync = "recover" THEN {"rebuilding"} ELSE {})
    \cup (IF a.state = "stopped" THEN {"failed"} ELSE {})

Sound == [state |-> "in use", degraded |-> 0, sync |-> "idle"]
Unread == [state |-> None, degraded |-> None, sync |-> None]

Init ==
    /\ array = Sound
    /\ reading = "state" /\ found = Unread
    /\ shown = "unavailable" /\ during = {}

\* A disk fails, is replaced or recovered; the array stops or starts.
ArrayChanges ==
    /\ array' \in Array
    /\ during' = IF reading = "state" THEN during ELSE during \cup Fitting(array')
    /\ UNCHANGED <<reading, found, shown>>

ReadState ==
    /\ reading = "state" /\ reading' = "degraded"
    /\ \E v \in {array.state, None} : found' = [found EXCEPT !.state = v]
    /\ during' = Fitting(array)
    /\ UNCHANGED <<array, shown>>

ReadDegraded ==
    /\ reading = "degraded" /\ reading' = "sync"
    /\ \E v \in {array.degraded, None} : found' = [found EXCEPT !.degraded = v]
    /\ UNCHANGED <<array, shown, during>>

\* Mutated form of raid_state: an array that is in use is healthy once it does
\* not rebuild.
raid_state_in_use(f) ==
    CASE f.state = "stopped" -> "failed"
      [] f.state \in {"in use", "other"} /\ f.sync = "recover" -> "rebuilding"
      [] f.state = "in use" /\ f.sync # "recover" -> "healthy"
      [] OTHER -> "unavailable"

raid_state(f) ==
    CASE f.state = "stopped" -> "failed"
      [] f.state \in {"in use", "other"} /\ f.sync = "recover" -> "rebuilding"
      [] f.state \in {"in use", "other"} /\ f.sync # "recover" /\ f.degraded = 1 -> "degraded"
      [] f.state = "in use" /\ f.sync # "recover" /\ f.degraded = 0 -> "healthy"
      [] OTHER -> "unavailable"

\* The last file; what was found is published.
ReadSync ==
    /\ reading = "sync" /\ reading' = "state"
    /\ \E v \in {array.sync, None} : shown' = raid_state([found EXCEPT !.sync = v])
    /\ found' = Unread
    /\ UNCHANGED <<array, during>>

Next == ArrayChanges \/ ReadState \/ ReadDegraded \/ ReadSync

Spec == Init /\ [][Next]_vars

-----------------------------------------------------------------------------
\* Although the files are read at different times, what is shown fitted at some
\* moment of the sample: a healthy array missed no disk, a degraded one did, one
\* that rebuilds was at it, one that has failed had stopped.
WordIsTrue == reading = "state" => shown \in during \cup {"unavailable"}
=============================================================================
