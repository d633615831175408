------------------------------ MODULE StatusPages ------------------------------
(***************************************************************************)
(* The pages that show snapshots, and the snapshots the worker publishes   *)
(* for them (dashboard.rs: run).  The service keeps the last snapshot and  *)
(* the bitrates of the last ones (api.ts: accept).                         *)
(***************************************************************************)
EXTENDS Views

CONSTANTS
    Readings,  \* values of readings
    Bitrates,  \* values of the bitrate
    Totals,    \* values of readings that are the whole of another one
    Dests      \* destinations

VARIABLES
    snapshot,  \* the body of the last snapshot, in a set; {} is null
    history    \* bitrates

vars == <<snapshot, history>>

\* What MediaMTX may report of a destination's forwarder.
Reported == {"pending", "forwarding", "error"}

Status == Reported \cup {"disabled", "idle", "unknown", "waiting"}

Body == [engine: BOOLEAN, obs: BOOLEAN, relay: BOOLEAN, status: [Dests -> Status],
         bitrate: Bitrates \cup {None}, reading: Readings, total: Totals]

TypeOK ==
    /\ snapshot \subseteq Body /\ Cardinality(snapshot) <= 1
    /\ history \in Seq(Bitrates \cup {None}) /\ Len(history) <= HistorySize

Init == snapshot = {} /\ history = <<>>

\* The statuses a destination may be published with; listed says whether the
\* engine's forwarders could be read.
Statuses(engine, obs, relay, listed) ==
    IF ~relay THEN {"disabled", "idle"}
    ELSE {"disabled"} \cup
         (IF ~engine \/ ~listed THEN {"unknown"}
          ELSE IF ~obs THEN {"waiting"} ELSE Reported)

\* A snapshot arrives, over the socket or as an answer.
Accept ==
    \E engine, obs, relay, listed \in BOOLEAN, reading \in Readings, total \in Totals,
       bitrate \in Bitrates \cup {None} :
        /\ obs => engine
        /\ bitrate # None => obs
        /\ \E status \in [Dests -> Statuses(engine, obs, relay, listed)] :
              snapshot' = {[engine |-> engine, obs |-> obs, relay |-> relay, status |-> status,
                            bitrate |-> bitrate, reading |-> reading, total |-> total]}
        /\ history' = Appended(history, bitrate)

\* logout
Forget == snapshot' = {} /\ history' = <<>>

Next == Accept \/ Forget

Spec == Init /\ [][Next]_vars

-----------------------------------------------------------------------------
\* Every reading of every page: one that is unavailable is shown as such, one
\* that is zero, or any other number, never is.
ReadingsTellZero ==
    \A b \in snapshot : \A c \in Cells(b) : c[2] = Dash <=> c[1] = None

\* A larger number of bytes never looks smaller, across rounding and units;
\* what is shown is off by half a tenth of the unit at most, and the unit is
\* one that the number fills but once rounded does not exceed.
Shown(v) == Bytes(v)[1] * Unit(Bytes(v)[2])
BytesInOrder ==
    \A b \in snapshot : b.reading # None =>
        LET tenths == Bytes(b.reading)[1] unit == Bytes(b.reading)[2] IN
        /\ \A w \in Readings \ {None} : b.reading <= w => Shown(b.reading) <= Shown(w)
        /\ 20 * b.reading - 2 * Shown(b.reading) \in -Unit(unit)..Unit(unit)
        /\ unit > 0 => tenths >= 10
        /\ unit < 4 => tenths <= 10 * Base

\* A duration is told to the second: its parts add up to it, and there are never
\* sixty of them.
DurationsExact ==
    \A b \in snapshot : b.reading # None =>
        LET t == Duration(b.reading) IN
        /\ b.reading = 3600 * t[1] + 60 * t[2] + t[3]
        /\ t[2] \in 0..59 /\ t[3] \in 0..59

\* The page says "Live", lights the way out or shows a destination in green only
\* if in the same snapshot the engine answers, OBS publishes and the relay is on.
LiveMeansLive ==
    \A b \in snapshot :
        \/ b.engine /\ b.obs /\ b.relay
        \/ /\ StreamStatus(b) # "Live" /\ "RTMPS" \notin FlowLines(b)
           /\ \A d \in Dests : Badge(b.status[d]) # "green"

\* The chart stays in its box, and its line never spans a sample that is
\* missing; no meter shows more than all.
ChartFits ==
    /\ \A b \in snapshot : Meters(b) \subseteq 0..100
    /\ \A i \in DOMAIN Line(history) :
          /\ Point(history, i).x \in 0..600 /\ Point(history, i).y \in 9..149
          /\ Line(history)[i] = "L" => i - 1 \in DOMAIN Line(history)
    /\ HasArea(history) => DOMAIN Line(history) = DOMAIN history
=============================================================================
