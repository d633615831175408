----------------------------- MODULE NetworkSample -----------------------------
(***************************************************************************)
(* The network rates of the Server page: the worker reads the counters of  *)
(* the host once per tick (monitoring.rs: sample) and makes a rate of two  *)
(* readings.  Interfaces come and go with what they have counted, the file *)
(* may not be readable, the controller may restart.  Bytes sent are        *)
(* treated like bytes received.                                            *)
(***************************************************************************)
EXTENDS Integers

CONSTANTS
    MaxCount,    \* bound on the counter
    MaxSamples   \* bound on the samples between two readings

VARIABLES
    counter,   \* bytes received, summed over the interfaces that count
    previous,  \* the last reading, in a set: the sum, and how many ticks ago
    rate,      \* what is shown: bytes, and the ticks they took; {} is null
    got,       \* history: bytes received since the last reading
    waited,    \* history: ticks since then that read nothing
    moved      \* history: an interface came or went since then

vars == <<counter, previous, rate, got, waited, moved>>

Remains == [sum: 0..MaxCount, ago: 0..MaxSamples]
Rate == (0..MaxCount) \X (1..MaxSamples)

TypeOK ==
    /\ counter \in 0..MaxCount
    /\ previous \subseteq Remains
    /\ rate \subseteq Rate
    /\ got \in 0..MaxCount /\ waited \in 0..MaxSamples /\ moved \in BOOLEAN

Init ==
    /\ counter = 0 /\ previous = {} /\ rate = {}
    /\ got = 0 /\ waited = 0 /\ moved = FALSE

Receives ==
    /\ counter < MaxCount /\ got < MaxCount
    /\ counter' = counter + 1 /\ got' = got + 1
    /\ UNCHANGED <<previous, rate, waited, moved>>

InterfacesMove ==
    /\ counter' \in 0..MaxCount
    /\ moved' = TRUE
    /\ UNCHANGED <<previous, rate, got, waited>>

\* saturating_sub
Minus(x, y) == IF x > y THEN x - y ELSE 0

\* Mutated form of Remembered: the first reading is kept.
RememberedFirst(sum) == IF previous = {} THEN {[sum |-> sum, ago |-> 0]} ELSE previous

\* The reading that the next rate is taken from.
Remembered(sum) == {[sum |-> sum, ago |-> 0]}

Sample ==
    /\ waited < MaxSamples
    /\ rate' = {<<Minus(counter, p.sum), p.ago + 1>> : p \in previous}
    /\ previous' = Remembered(counter)
    /\ got' = 0 /\ waited' = 0 /\ moved' = FALSE
    /\ UNCHANGED counter

\* The file cannot be read: no rate, and the last reading is kept.
SampleUnread ==
    /\ waited + 1 < MaxSamples
    /\ rate' = {}
    /\ previous' = {[p EXCEPT !.ago = @ + 1] : p \in previous}
    /\ waited' = waited + 1
    /\ UNCHANGED <<counter, got, moved>>

\* The controller restarts; the page goes on showing what it was sent.
Restart ==
    /\ previous' = {} /\ got' = 0 /\ waited' = 0 /\ moved' = FALSE
    /\ UNCHANGED <<counter, rate>>

Next == Receives \/ InterfacesMove \/ Sample \/ SampleUnread \/ Restart

Spec == Init /\ [][Next]_vars

-----------------------------------------------------------------------------
\* A rate is of the bytes received between two readings and of the time between
\* these, however many ticks read nothing, unless interfaces came or went.
RateIsTraffic ==
    [][Sample /\ ~moved => rate' \subseteq {<<got, waited + 1>>}]_vars
=============================================================================
