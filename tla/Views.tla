--------------------------------- MODULE Views ---------------------------------
(***************************************************************************)
(* What the read-only pages make of a snapshot (overview.ts, system.ts,    *)
(* recordings.ts) with the formatters of format.ts.                        *)
(*                                                                         *)
(* A text is the sequence of the numbers it shows.  The text without any   *)
(* stands for the dash and for "Unavailable".  A cell is a pair of a       *)
(* reading and the text the page shows for it.                             *)
(***************************************************************************)
EXTENDS Integers, Sequences, FiniteSets

CONSTANTS
    None,        \* null
    Base,        \* 1024 in the code
    HistorySize  \* 60 in the code

Dash == <<>>

\* A null check, then the value as it is (interpolation, ?? or ||, on texts).
Text(v) == IF v = None THEN Dash ELSE <<v>>

\* Mutated form of Decimal: zero is falsy.
DecimalFalsy(v) == IF v \in {None, 0} THEN Dash ELSE <<v>>

\* A null check before the number pipe.
Decimal(v) == IF v = None THEN Dash ELSE <<v>>

\* Hours, minutes, seconds.
Duration(v) ==
    IF v = None THEN Dash
    ELSE LET s == IF v < 0 THEN 0 ELSE v
         IN  <<s \div 3600, (s \div 60) % 60, s % 60>>

\* B, KB, MB, GB and TB, in bytes.
Unit(k) ==
    CASE k = 0 -> 1
      [] k = 1 -> Base
      [] k = 2 -> Base * Base
      [] k = 3 -> Base * Base * Base
      [] k = 4 -> Base * Base * Base * Base

\* Mutated form of Power: the logarithm is one too large for the list of units.
PowerShifted(v) == CHOOSE p \in 0..3 : /\ p = 3 \/ v < Unit(p + 1)
                                       /\ p = 0 \/ Unit(p) <= v

\* The index into KB, MB, GB, TB for a value of at least Base bytes.  The code finds
\* it by a quotient of logarithms, which has the same whole part at the powers of
\* 1024 and at the numbers next to them.
Power(v) == CHOOSE p \in 0..3 : /\ p = 3 \/ v < Unit(p + 2)
                                /\ p = 0 \/ Unit(p + 1) <= v

\* x / y to the nearest integer, halves upwards.
Rounded(x, y) == (2 * x + y) \div (2 * y)

\* Tenths, and the number of the unit they are of; 0 are bytes.
Bytes(v) ==
    IF v = None THEN Dash
    ELSE IF v < Base THEN <<10 * v, 0>>
    ELSE <<Rounded(10 * v, Unit(Power(v) + 1)), Power(v) + 1>>

\* The width of a meter.
Percent(used, total) ==
    IF used # None /\ total # None /\ total > 0
    THEN IF used > total THEN 100 ELSE (100 * used) \div total
    ELSE 0

-----------------------------------------------------------------------------
(***************************************************************************)
(* Pages, cell by cell.  reading stands for every reading of the sample    *)
(* but those that are the whole of another one, for which total stands.    *)
(***************************************************************************)
Forwarding(b) == Cardinality({d \in DOMAIN b.status : b.status[d] = "forwarding"})

StreamStatus(b) ==
    IF ~b.engine THEN "Unknown"
    ELSE IF Forwarding(b) > 0 THEN "Live"
    ELSE IF b.obs THEN "Receiving" ELSE "Standby"

\* The colour a destination's status is shown in.
Badge(status) ==
    CASE status = "forwarding" -> "green" [] status = "error" -> "red" [] OTHER -> "grey"

\* The lines of the signal's way from OBS to MediaMTX and on that are lit.
FlowLines(b) ==
    {l \in {"RTMP", "RTMPS"} : IF l = "RTMP" THEN b.obs ELSE Forwarding(b) > 0}

\* The uptime is told only of a publisher.
Uptime(b) == IF b.obs THEN b.reading ELSE None

\* Uptime, bitrate, resolution and frame rate.
MetricCells(b) ==
    {<<Uptime(b), Duration(Uptime(b))>>,
     <<b.bitrate, Decimal(b.bitrate)>>,
     <<b.reading, Text(b.reading)>>}

\* Codec, resolution, frame rate, readers.
StreamCells(b) == {<<b.reading, Text(b.reading)>>}

\* Processor, memory, storage, network on the overview.
ResourceCells(b) ==
    {<<b.reading, Decimal(b.reading)>>,
     <<b.reading, Bytes(b.reading)>>,
     <<b.total, Bytes(b.total)>>}

\* Array and filesystems.
StorageCells(b) ==
    {<<b.reading, Text(b.reading)>>,
     <<b.reading, Bytes(b.reading)>>,
     <<b.total, Bytes(b.total)>>}

\* Processor, memory, network and system of the host.
ServerCells(b) ==
    {<<b.reading, Decimal(b.reading)>>,
     <<b.reading, Text(b.reading)>>,
     <<b.reading, Bytes(b.reading)>>,
     <<b.total, Bytes(b.total)>>,
     <<b.reading, Duration(b.reading)>>}

\* A session in the list of recordings.
SessionCells(r) ==
    {<<r, Duration(r)>>, <<r, Text(r)>>, <<r, Decimal(r)>>}

Cells(b) ==
    MetricCells(b) \cup StreamCells(b) \cup ResourceCells(b) \cup StorageCells(b)
    \cup ServerCells(b) \cup SessionCells(b.reading)

\* The meters' widths: of the processor, of memory and storage.
Meters(b) == {Percent(b.reading, 100),
              Percent(b.reading, b.total)}

-----------------------------------------------------------------------------
(***************************************************************************)
(* The bitrate chart: a box of 600 by 150, HistorySize samples wide.       *)
(***************************************************************************)
\* [...h.slice(-59), v]
Appended(h, v) ==
    Append(SubSeq(h, IF Len(h) < HistorySize THEN 1 ELSE Len(h) - HistorySize + 2, Len(h)), v)

Samples(h) == {h[i] : i \in DOMAIN h} \ {None}

\* Eleven tenths of the largest sample, or of 10; in tenths.
ChartMax(h) == 11 * (CHOOSE m \in Samples(h) \cup {10} : \A v \in Samples(h) \cup {10} : v <= m)

Point(h, i) == [x |-> ((i - 1) * 600) \div (HistorySize - 1),
                y |-> 149 - (h[i] * 1400) \div ChartMax(h)]

\* The commands of the line: M begins a stroke, L goes on from the sample before.
Line(h) ==
    [i \in {j \in DOMAIN h : h[j] # None} |->
        IF i > 1 /\ h[i - 1] # None THEN "L" ELSE "M"]

HasArea(h) == Len(h) >= 2 /\ \A i \in DOMAIN h : h[i] # None
=============================================================================
