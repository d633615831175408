----------------------------- MODULE StatusProofs -----------------------------
(***************************************************************************)
(* Proofs about the pages that show snapshots and about the sampler behind *)
(* two of them, for any readings, any destinations, any sizes of units and *)
(* of the chart, and any counts.                                           *)
(***************************************************************************)
EXTENDS Console, FiniteSetTheorems, SequenceTheorems, WellFoundedInduction, TLAPS

\* The page that takes a step is the one that is shown.
LEMMA PageSteps ==
  [Next]_vars =>
    /\ [Status!Next]_statusVars
    /\ [Network!Next]_networkVars
    /\ [Storage!Next]_storageVars
  BY DEF Next, StatusStep, ServerStep, StorageStep, RelayStep, DestinationsStep, SettingsStep,
         vars, hostVars

-----------------------------------------------------------------------------
(***************************************************************************)
(* Snapshots.                                                              *)
(***************************************************************************)
\* A destination is published as forwarding only while the engine answers, OBS
\* publishes and the relay is on.
ForwardingInv ==
    \A b \in snapshot :
        (b.engine /\ b.obs /\ b.relay) \/ \A d \in Dests : b.status[d] # "forwarding"

StatusDomain == \A b \in snapshot : DOMAIN b.status = Dests

StatusInv == ForwardingInv /\ StatusDomain

\* No formatter makes a dash of a number, and each makes one of null.
LEMMA Formatters ==
  \A v : /\ Status!Text(v) = Status!Dash <=> v = None
         /\ Status!Decimal(v) = Status!Dash <=> v = None
         /\ Status!Duration(v) = Status!Dash <=> v = None
         /\ Status!Bytes(v) = Status!Dash <=> v = None
  BY DEF Status!Text, Status!Decimal, Status!Duration, Status!Bytes, Status!Dash

\* So every cell of every page tells null from a number.
LEMMA CellsTell ==
  ASSUME NEW b, NEW c \in Status!Cells(b)
  PROVE  c[2] = Status!Dash <=> c[1] = None
  <1>1. PICK v : \/ c = <<v, Status!Text(v)>> \/ c = <<v, Status!Decimal(v)>>
                 \/ c = <<v, Status!Duration(v)>> \/ c = <<v, Status!Bytes(v)>>
    BY Zenon DEF Status!Cells, Status!MetricCells, Status!StreamCells, Status!ResourceCells,
           Status!StorageCells, Status!ServerCells, Status!SessionCells
  <1> QED BY <1>1, Formatters

\* What the worker may publish of a destination.
LEMMA Published ==
  ASSUME NEW engine \in BOOLEAN, NEW obs \in BOOLEAN, NEW relay_ \in BOOLEAN,
         NEW listed \in BOOLEAN, ~(engine /\ obs /\ relay_)
  PROVE  "forwarding" \notin Status!Statuses(engine, obs, relay_, listed)
  <1>1. CASE ~relay_
    BY <1>1 DEF Status!Statuses
  <1>2. CASE relay_ /\ (~engine \/ ~listed)
    BY <1>2 DEF Status!Statuses
  <1>3. CASE relay_ /\ engine /\ listed /\ ~obs
    BY <1>3 DEF Status!Statuses
  <1> QED BY <1>1, <1>2, <1>3

\* A snapshot that arrives, whatever it is, keeps to what is published.
LEMMA AcceptKept == Status!Accept => StatusInv'
  <1> SUFFICES ASSUME Status!Accept PROVE StatusInv'
    OBVIOUS
  <1>1. PICK engine \in BOOLEAN, obs \in BOOLEAN, relay_ \in BOOLEAN, listed \in BOOLEAN,
             reading_ \in Readings, total \in Totals, bitrate \in Bitrates \cup {None} :
           /\ obs => engine
           /\ bitrate # None => obs
           /\ \E status \in [Dests -> Status!Statuses(engine, obs, relay_, listed)] :
                 snapshot' = {[engine |-> engine, obs |-> obs, relay |-> relay_, status |-> status,
                               bitrate |-> bitrate, reading |-> reading_, total |-> total]}
           /\ history' = Status!Appended(history, bitrate)
    BY Zenon DEF Status!Accept
  <1>2. PICK status \in [Dests -> Status!Statuses(engine, obs, relay_, listed)] :
           snapshot' = {[engine |-> engine, obs |-> obs, relay |-> relay_, status |-> status,
                         bitrate |-> bitrate, reading |-> reading_, total |-> total]}
    BY <1>1, Zenon
  <1> DEFINE b == [engine |-> engine, obs |-> obs, relay |-> relay_, status |-> status,
                   bitrate |-> bitrate, reading |-> reading_, total |-> total]
  <1>3. b.engine = engine /\ b.obs = obs /\ b.relay = relay_ /\ b.status = status
    OBVIOUS
  <1> HIDE DEF b
  <1>4. ASSUME ~(engine /\ obs /\ relay_), NEW d \in Dests PROVE status[d] # "forwarding"
    BY <1>4, Published
  <1>5. DOMAIN status = Dests
    OBVIOUS
  <1>6. snapshot' = {b}
    BY <1>2 DEF b
  <1> QED BY <1>3, <1>4, <1>5, <1>6 DEF StatusInv, ForwardingInv, StatusDomain

\* Every step keeps what holds of snapshots.
LEMMA StatusKept == StatusInv /\ [Next]_vars => StatusInv'
  <1> SUFFICES ASSUME StatusInv, [Next]_vars PROVE StatusInv'
    OBVIOUS
  <1>1. CASE Status!Accept
    BY <1>1, AcceptKept
  <1>2. CASE snapshot' = {}
    BY <1>2 DEF StatusInv, ForwardingInv, StatusDomain
  <1>3. CASE snapshot' = snapshot
    BY <1>3 DEF StatusInv, ForwardingInv, StatusDomain
  <1>4. Status!Accept \/ snapshot' = {} \/ snapshot' = snapshot
    BY PageSteps DEF Status!Next, Status!Forget, statusVars
  <1> QED BY <1>1, <1>2, <1>3, <1>4

\* Nothing is forwarding of a snapshot that is not wholly live.
LEMMA NotForwarding ==
  ASSUME StatusInv, NEW b \in snapshot, ~(b.engine /\ b.obs /\ b.relay)
  PROVE  /\ Status!StreamStatus(b) # "Live" /\ "RTMPS" \notin Status!FlowLines(b)
         /\ \A d \in Dests : Status!Badge(b.status[d]) # "green"
  <1>1. \A d \in Dests : b.status[d] # "forwarding"
    BY DEF StatusInv, ForwardingInv
  <1>2. Status!Forwarding(b) = 0
    <2>1. {d \in DOMAIN b.status : b.status[d] = "forwarding"} = {}
      BY <1>1 DEF StatusInv, StatusDomain
    <2>2. Status!Cardinality({}) = Cardinality({})
      BY DEF Status!Cardinality, Cardinality, Status!IsFiniteSet, IsFiniteSet
    <2> QED BY <2>1, <2>2, FS_EmptySet DEF Status!Forwarding
  <1>3. ~(Status!Forwarding(b) > 0)
    BY <1>2
  <1>4. Status!StreamStatus(b) # "Live"
    BY <1>3 DEF Status!StreamStatus
  <1>5. "RTMPS" \notin Status!FlowLines(b)
    BY <1>3 DEF Status!FlowLines
  <1>6. \A d \in Dests : Status!Badge(b.status[d]) # "green"
    BY <1>1 DEF Status!Badge
  <1> QED BY <1>4, <1>5, <1>6

\* What the pages say of a snapshot is so: null, and only null, is shown as
\* unavailable; nothing is called live or forwarding that is not (overview.ts,
\* system.ts, recordings.ts, format.ts; dashboard.rs, run).
THEOREM ReadingsAreTrue == Spec => []ReadingsTrue
  <1>1. Init => StatusInv
    BY DEF Init, Status!Init, StatusInv, ForwardingInv, StatusDomain
  <1>2. StatusInv => ReadingsTrue
    <2>1. Status!ReadingsTellZero
      BY CellsTell DEF Status!ReadingsTellZero
    <2>2. StatusInv => Status!LiveMeansLive
      BY NotForwarding DEF Status!LiveMeansLive
    <2> QED BY <2>1, <2>2 DEF ReadingsTrue
  <1> QED BY <1>1, <1>2, StatusKept, PTL DEF Spec

-----------------------------------------------------------------------------
(***************************************************************************)
(* The rates of the Server page.                                           *)
(***************************************************************************)
\* The last reading is as old as the ticks that have read nothing since, and
\* falls short of the counter by what was received since.
RemainsInv ==
    \A p \in previous : p.ago = waited /\ (~moved => counter = p.sum + got)

NetworkInv == Network!TypeOK /\ RemainsInv

\* Nothing received, and no tick, are within the bounds.
LEMMA ZeroCounts == 0 \in 0..MaxCount /\ 0 \in 0..MaxSamples
  BY NetworkAssumption

\* It holds at first: nothing has been read.
LEMMA NetworkInit == Init => NetworkInv
  <1> SUFFICES ASSUME Init PROVE NetworkInv
    OBVIOUS
  <1>1. /\ counter = 0 /\ previous = {} /\ rate = {}
        /\ got = 0 /\ waited = 0 /\ moved = FALSE
    BY DEF Init, Network!Init
  <1> QED BY <1>1, ZeroCounts, Zenon DEF NetworkInv, Network!TypeOK, RemainsInv

\* A rate is what was received between two readings.
LEMMA RateIs ==
  ASSUME NetworkInv, Network!Sample
  PROVE  /\ rate' \subseteq Network!Rate
         /\ ~moved => rate' \subseteq {<<got, waited + 1>>}
  <1>1. counter \in 0..MaxCount /\ got \in 0..MaxCount /\ waited \in 0..MaxSamples /\ waited < MaxSamples
    BY DEF NetworkInv, Network!TypeOK, Network!Sample
  <1>2. rate' = {<<Network!Minus(counter, p.sum), p.ago + 1>> : p \in previous}
    BY DEF Network!Sample
  <1>3. ASSUME NEW p \in previous
        PROVE  /\ p.sum \in 0..MaxCount /\ p.ago = waited
               /\ ~moved => counter = p.sum + got
    BY DEF NetworkInv, Network!TypeOK, RemainsInv, Network!Remains
  <1>4. MaxCount \in Nat /\ MaxSamples \in Nat
    BY NetworkAssumption
  <1>5. ASSUME NEW r \in rate'
        PROVE  r \in Network!Rate /\ (~moved => r = <<got, waited + 1>>)
    <2>1. PICK p \in previous : r = <<Network!Minus(counter, p.sum), p.ago + 1>>
      BY <1>2
    <2>2. Network!Minus(counter, p.sum) \in 0..MaxCount
      BY <1>1, <1>3, <1>4 DEF Network!Minus
    <2>3. p.ago + 1 = waited + 1 /\ waited + 1 \in 1..MaxSamples
      BY <1>1, <1>3, <1>4
    <2>4. ~moved => Network!Minus(counter, p.sum) = got
      BY <1>1, <1>3, <1>4 DEF Network!Minus
    <2> QED BY <2>1, <2>2, <2>3, <2>4 DEF Network!Rate
  <1> QED BY <1>5

\* Every step keeps it.
LEMMA NetworkKept == NetworkInv /\ [Network!Next]_networkVars => NetworkInv'
  <1> SUFFICES ASSUME NetworkInv, [Network!Next]_networkVars PROVE NetworkInv'
    OBVIOUS
  <1>0. /\ counter \in 0..MaxCount /\ previous \subseteq Network!Remains /\ rate \subseteq Network!Rate
        /\ got \in 0..MaxCount /\ waited \in 0..MaxSamples /\ moved \in BOOLEAN
        /\ \A p \in previous : /\ p.sum \in 0..MaxCount /\ p.ago = waited
                               /\ ~moved => counter = p.sum + got
    BY DEF NetworkInv, Network!TypeOK, RemainsInv, Network!Remains
  <1>a. MaxCount \in Nat /\ MaxSamples \in Nat
    BY NetworkAssumption
  <1>1. CASE Network!Receives
    <2>1. /\ counter' = counter + 1 /\ got' = got + 1 /\ counter < MaxCount /\ got < MaxCount
          /\ UNCHANGED <<previous, rate, waited, moved>>
      BY <1>1 DEF Network!Receives
    <2>2. counter' \in 0..MaxCount /\ got' \in 0..MaxCount
      BY <1>0, <1>a, <2>1
    <2>3. Network!TypeOK'
      BY <1>0, <2>1, <2>2 DEF Network!TypeOK
    <2>4. RemainsInv'
      BY <1>0, <1>a, <2>1 DEF RemainsInv
    <2> QED BY <2>3, <2>4 DEF NetworkInv
  <1>2. CASE Network!InterfacesMove
    BY <1>0, <1>2 DEF Network!InterfacesMove, NetworkInv, Network!TypeOK, RemainsInv
  <1>3. CASE Network!Sample
    <2>1. /\ previous' = {[sum |-> counter, ago |-> 0]} /\ counter' = counter
          /\ got' = 0 /\ waited' = 0 /\ moved' = FALSE
      BY <1>3 DEF Network!Sample, Network!Remembered
    <2>2. rate' \subseteq Network!Rate
      BY <1>3, RateIs
    <2>3. previous' \subseteq Network!Remains
      BY <1>0, <1>a, <2>1 DEF Network!Remains
    <2>4. RemainsInv'
      BY <1>0, <2>1 DEF RemainsInv
    <2> QED BY <1>0, <2>1, <2>2, <2>3, <2>4, ZeroCounts, Zenon DEF NetworkInv, Network!TypeOK
  <1>4. CASE Network!SampleUnread
    <2>1. /\ rate' = {} /\ previous' = {[p EXCEPT !.ago = @ + 1] : p \in previous}
          /\ waited' = waited + 1 /\ waited + 1 < MaxSamples
          /\ UNCHANGED <<counter, got, moved>>
      BY <1>4 DEF Network!SampleUnread
    <2>2. waited' \in 0..MaxSamples
      BY <1>0, <1>a, <2>1
    <2>3. ASSUME NEW q \in previous'
          PROVE  /\ q \in Network!Remains /\ q.ago = waited'
                 /\ ~moved' => counter' = q.sum + got'
      <3>1. PICK p \in previous : q = [p EXCEPT !.ago = @ + 1]
        BY <2>1
      <3>2. p = [sum |-> p.sum, ago |-> p.ago]
        BY <1>0 DEF Network!Remains
      <3>3. q = [sum |-> p.sum, ago |-> waited']
        BY <1>0, <2>1, <3>1, <3>2
      <3> QED BY <1>0, <2>1, <2>2, <3>3 DEF Network!Remains
    <2> QED BY <1>0, <2>1, <2>2, <2>3 DEF NetworkInv, Network!TypeOK, RemainsInv
  <1>5. CASE Network!Restart
    <2>1. /\ previous' = {} /\ got' = 0 /\ waited' = 0 /\ moved' = FALSE
          /\ counter' = counter /\ rate' = rate
      BY <1>5 DEF Network!Restart
    <2> QED BY <1>0, <2>1, ZeroCounts, Zenon DEF NetworkInv, Network!TypeOK, RemainsInv
  <1>6. CASE UNCHANGED networkVars
    BY <1>6 DEF networkVars, NetworkInv, Network!TypeOK, RemainsInv
  <1> QED BY <1>1, <1>2, <1>3, <1>4, <1>5, <1>6 DEF Network!Next

\* The network's invariant, as a temporal formula.
LEMMA NetworkHolds == Spec => []NetworkInv
  <1>1. NetworkInv /\ [Next]_vars => NetworkInv'
    BY PageSteps, NetworkKept
  <1> QED BY NetworkInit, <1>1, PTL DEF Spec

\* A rate is of the bytes received between two readings and the time between
\* them, for any number of ticks that read nothing (monitoring.rs, sample).
THEOREM RatesAreTraffic == Spec => RateIsTraffic
  <1>1. NetworkInv /\ [Next]_vars =>
          [Network!Sample /\ ~moved => rate' \subseteq {<<got, waited + 1>>}]_networkVars
    BY RateIs
  <1> QED BY <1>1, NetworkHolds, PTL DEF Spec, RateIsTraffic, Network!RateIsTraffic, networkVars, Network!vars

-----------------------------------------------------------------------------
(***************************************************************************)
(* The word on the Storage page.                                           *)
(***************************************************************************)
\* While the files are read, what the array is like is kept, and each thing
\* that was found fitted.
FoundInv ==
    /\ file # "state" => Storage!Fitting(array) \subseteq during
    /\ file \in {"degraded", "sync"} /\ found.state = "stopped" => "failed" \in during
    /\ file = "sync" /\ found.degraded = 0 => "healthy" \in during
    /\ file = "sync" /\ found.degraded = 1 => "degraded" \in during

StorageInv == Storage!TypeOK /\ FoundInv /\ WordIsTrue

\* It holds at first: nothing has been looked at.
LEMMA StorageInit == Init => StorageInv
  <1> SUFFICES ASSUME Init PROVE StorageInv
    OBVIOUS
  <1>1. /\ array = Storage!Sound /\ file = "state" /\ found = Storage!Unread
        /\ word = "unavailable" /\ during = {}
    BY DEF Init, Storage!Init
  <1>2. array \in Storage!Array /\ found \in Storage!Found
    <2>1. 0 \in 0..1
      OBVIOUS
    <2> QED BY <1>1, <2>1, Zenon DEF Storage!Sound, Storage!Unread, Storage!Array, Storage!Found,
                                     Storage!State, Storage!Sync
  <1> QED BY <1>1, <1>2 DEF StorageInv, Storage!TypeOK, FoundInv, WordIsTrue, Storage!WordIsTrue,
                            Storage!Word

\* The words that fit are words.
LEMMA FittingWords ==
  ASSUME NEW a \in Storage!Array
  PROVE  /\ Storage!Fitting(a) \subseteq Storage!Word
         /\ a.degraded = 0 => "healthy" \in Storage!Fitting(a)
         /\ a.degraded = 1 => "degraded" \in Storage!Fitting(a)
         /\ a.sync = "recover" => "rebuilding" \in Storage!Fitting(a)
         /\ a.state = "stopped" => "failed" \in Storage!Fitting(a)
  BY DEF Storage!Fitting, Storage!Word

\* Every step keeps it.
LEMMA StorageKept == StorageInv /\ [Storage!Next]_storageVars => StorageInv'
  <1> SUFFICES ASSUME StorageInv, [Storage!Next]_storageVars PROVE StorageInv'
    OBVIOUS
  <1>0. Storage!TypeOK /\ FoundInv /\ Storage!WordIsTrue
    BY DEF StorageInv, WordIsTrue
  <1>1. CASE Storage!ArrayChanges
    <2>1. /\ array' \in Storage!Array /\ UNCHANGED <<file, found, word>>
          /\ during' = IF file = "state" THEN during ELSE during \cup Storage!Fitting(array')
      BY <1>1 DEF Storage!ArrayChanges
    <2>2. Storage!TypeOK'
      BY <1>0, <2>1, FittingWords DEF Storage!TypeOK
    <2>3. FoundInv' /\ WordIsTrue'
      BY <1>0, <2>1 DEF FoundInv, WordIsTrue, Storage!WordIsTrue
    <2> QED BY <2>2, <2>3 DEF StorageInv
  <1>2. CASE Storage!ReadState
    <2>1. PICK v \in {array.state, None} : found' = [found EXCEPT !.state = v]
      BY <1>2 DEF Storage!ReadState
    <2>2. file' = "degraded" /\ during' = Storage!Fitting(array) /\ UNCHANGED <<array, word>>
      BY <1>2 DEF Storage!ReadState
    <2>3. found' \in Storage!Found /\ found'.state = v
      BY <1>0, <2>1 DEF Storage!TypeOK, Storage!Found, Storage!Array
    <2>4. Storage!TypeOK'
      BY <1>0, <2>2, <2>3, FittingWords DEF Storage!TypeOK
    <2>5. found'.state = "stopped" => array.state = "stopped"
      BY <2>1, <2>3, StorageAssumption
    <2>6. FoundInv' /\ WordIsTrue'
      BY <1>0, <2>2, <2>5, FittingWords DEF FoundInv, WordIsTrue, Storage!WordIsTrue, Storage!TypeOK
    <2> QED BY <2>4, <2>6 DEF StorageInv
  <1>3. CASE Storage!ReadDegraded
    <2>1. PICK v \in {array.degraded, None} : found' = [found EXCEPT !.degraded = v]
      BY <1>3 DEF Storage!ReadDegraded
    <2>2. file = "degraded" /\ file' = "sync" /\ UNCHANGED <<array, word, during>>
      BY <1>3 DEF Storage!ReadDegraded
    <2>3. array \in Storage!Array /\ array.degraded \in 0..1
      BY <1>0 DEF Storage!TypeOK, Storage!Array
    <2>4. found' \in Storage!Found /\ found'.degraded = v /\ found'.state = found.state
      BY <1>0, <2>1, <2>3 DEF Storage!TypeOK, Storage!Found
    <2>5. Storage!TypeOK'
      BY <1>0, <2>2, <2>4 DEF Storage!TypeOK
    <2>6. /\ found'.degraded = 0 => array.degraded = 0
          /\ found'.degraded = 1 => array.degraded = 1
      BY <2>1, <2>4, StatusAssumption
    <2>7. Storage!Fitting(array) \subseteq during
      BY <1>0, <2>2 DEF FoundInv
    <2>8. /\ found'.degraded = 0 => "healthy" \in during
          /\ found'.degraded = 1 => "degraded" \in during
      BY <2>3, <2>6, <2>7, FittingWords
    <2>9. found.state = "stopped" => "failed" \in during
      BY <1>0, <2>2 DEF FoundInv
    <2> QED BY <2>2, <2>4, <2>5, <2>7, <2>8, <2>9
            DEF StorageInv, FoundInv, WordIsTrue, Storage!WordIsTrue
  <1>4. CASE Storage!ReadSync
    <2>1. PICK v \in {array.sync, None} : word' = Storage!raid_state([found EXCEPT !.sync = v])
      BY <1>4 DEF Storage!ReadSync
    <2>2. /\ file = "sync" /\ file' = "state" /\ found' = Storage!Unread
          /\ UNCHANGED <<array, during>>
      BY <1>4 DEF Storage!ReadSync
    <2>3. array \in Storage!Array /\ found \in Storage!Found /\ during \subseteq Storage!Word
      BY <1>0 DEF Storage!TypeOK
    <2> DEFINE f == [found EXCEPT !.sync = v]
    <2>4. f.state = found.state /\ f.degraded = found.degraded /\ f.sync = v
      BY <2>3 DEF Storage!Found
    <2>5. v = "recover" => array.sync = "recover"
      BY <2>1, StorageAssumption
    <2>6. /\ Storage!Fitting(array) \subseteq during
          /\ f.state = "stopped" => "failed" \in during
          /\ f.degraded = 0 => "healthy" \in during
          /\ f.degraded = 1 => "degraded" \in during
      BY <1>0, <2>2, <2>4 DEF FoundInv
    <2>7. f.sync = "recover" => "rebuilding" \in during
      BY <2>3, <2>4, <2>5, <2>6, FittingWords
    <2> HIDE DEF f
    <2>8. Storage!raid_state(f) \in during \cup {"unavailable"}
      <3>1. CASE f.state = "stopped"
        BY <2>6, <3>1 DEF Storage!raid_state
      <3>2. CASE f.state \in {"in use", "other"} /\ f.sync = "recover"
        BY <2>7, <3>2 DEF Storage!raid_state
      <3>3. CASE f.state \in {"in use", "other"} /\ f.sync # "recover" /\ f.degraded = 1
        BY <2>6, <3>3 DEF Storage!raid_state
      <3>4. CASE f.state = "in use" /\ f.sync # "recover" /\ f.degraded = 0
        BY <2>6, <3>4 DEF Storage!raid_state
      <3> QED BY <3>1, <3>2, <3>3, <3>4 DEF Storage!raid_state
    <2>9. word' \in during \cup {"unavailable"}
      BY <2>1, <2>8 DEF f
    <2>10. found' \in Storage!Found
      BY <2>2 DEF Storage!Unread, Storage!Found
    <2>11. word' \in Storage!Word
      BY <2>3, <2>9 DEF Storage!Word
    <2>12. Storage!TypeOK'
      BY <2>2, <2>3, <2>10, <2>11 DEF Storage!TypeOK
    <2> QED BY <2>2, <2>9, <2>12 DEF StorageInv, FoundInv, WordIsTrue, Storage!WordIsTrue
  <1>5. CASE UNCHANGED storageVars
    BY <1>0, <1>5 DEF storageVars, StorageInv, Storage!TypeOK, FoundInv, WordIsTrue, Storage!WordIsTrue
  <1> QED BY <1>1, <1>2, <1>3, <1>4, <1>5 DEF Storage!Next

\* The storage's invariant, as a temporal formula.
LEMMA StorageHolds == Spec => []StorageInv
  <1>1. StorageInv /\ [Next]_vars => StorageInv'
    BY PageSteps, StorageKept
  <1> QED BY StorageInit, <1>1, PTL DEF Spec

\* Although the three files are read one after the other, the word that is shown
\* fitted the array at some moment of the sample (storage.rs, sample, raid_state).
THEOREM WordsAreTrue == Spec => []WordIsTrue
  <1>1. StorageInv => WordIsTrue
    BY DEF StorageInv
  <1> QED BY <1>1, StorageHolds, PTL

-----------------------------------------------------------------------------
(***************************************************************************)
(* Numbers: bytes, durations, and the chart.                               *)
(***************************************************************************)
\* Integer division, by what it leaves.
LEMMA Division ==
  ASSUME NEW x \in Int, NEW d \in Nat \ {0}
  PROVE  x \div d \in Int /\ d * (x \div d) <= x /\ x < d * (x \div d) + d
  OBVIOUS

\* A product grows with its second factor.
LEMMA Grows ==
  ASSUME NEW u \in Nat \ {0}, NEW x \in Int, NEW y \in Int
  PROVE  x <= y <=> u * x <= u * y
  OBVIOUS

\* A quotient lies where its dividend does.
LEMMA Quotient ==
  ASSUME NEW x \in Int, NEW d \in Nat \ {0}, NEW m \in Int, NEW n \in Int,
         d * m <= x, x <= d * n
  PROVE  x \div d \in m..n
  <1> DEFINE q == x \div d
  <1>1. q \in Int /\ d * q <= x /\ x < d * q + d
    BY Division
  <1> HIDE DEF q
  <1>2. q <= n
    <2>1. d * q <= d * n
      BY <1>1
    <2> QED BY <1>1, <2>1, Grows
  <1>3. m <= q
    <2>1. d * m < d * (q + 1)
      BY <1>1
    <2>2. ~(q + 1 <= m)
      <3>1. ~(d * (q + 1) <= d * m)
        BY <1>1, <2>1
      <3> QED BY <1>1, <3>1, Grows
    <2> QED BY <1>1, <2>2
  <1>4. q \in m..n
    BY <1>1, <1>2, <1>3
  <1> QED BY <1>4 DEF q

\* Each unit is Base of the one before.
LEMMA Units ==
  /\ Status!Unit(0) = 1
  /\ \A k \in 0..3 : Status!Unit(k + 1) = Base * Status!Unit(k)
  /\ \A k \in 0..4 : Status!Unit(k) \in Nat \ {0}
  <1>1. Base \in Nat \ {0}
    BY StatusAssumption
  <1> DEFINE two == Base * Base
             three == two * Base
             four == three * Base
  <1>2. two \in Nat \ {0}
    BY <1>1
  <1>3. three \in Nat \ {0}
    <2> HIDE DEF two
    <2> QED BY <1>1, <1>2
  <1>4. four \in Nat \ {0}
    <2> HIDE DEF three
    <2> QED BY <1>1, <1>3
  <1>5. /\ Status!Unit(0) = 1 /\ Status!Unit(1) = Base /\ Status!Unit(2) = two
        /\ Status!Unit(3) = three /\ Status!Unit(4) = four
    BY DEF Status!Unit
  <1>6. two = Base * Base /\ three = Base * two /\ four = Base * three
    <2>1. two = Base * Base
      OBVIOUS
    <2>2. three = two * Base /\ four = three * Base
      OBVIOUS
    <2> HIDE DEF two, three, four
    <2> QED BY <1>1, <1>2, <1>3, <2>1, <2>2
  <1> HIDE DEF two, three, four
  <1>7. \A k \in 0..3 : Status!Unit(k + 1) = Base * Status!Unit(k)
    <2> SUFFICES ASSUME NEW k \in 0..3 PROVE Status!Unit(k + 1) = Base * Status!Unit(k)
      OBVIOUS
    <2>1. k = 0 \/ k = 1 \/ k = 2 \/ k = 3
      OBVIOUS
    <2>2. Base * 1 = Base
      BY <1>1
    <2>3. 0 + 1 = 1 /\ 1 + 1 = 2 /\ 2 + 1 = 3 /\ 3 + 1 = 4
      OBVIOUS
    <2> QED BY <1>5, <1>6, <2>1, <2>2, <2>3, Zenon
  <1>8. \A k \in 0..4 : Status!Unit(k) \in Nat \ {0}
    <2>1. \A k \in 0..4 : k = 0 \/ k = 1 \/ k = 2 \/ k = 3 \/ k = 4
      OBVIOUS
    <2>2. 1 \in Nat \ {0}
      OBVIOUS
    <2> QED BY <1>1, <1>2, <1>3, <1>4, <1>5, <2>1, <2>2, Zenon
  <1> QED BY <1>5, <1>7, <1>8

\* So the units grow.
LEMMA UnitsGrow ==
  ASSUME NEW j \in 0..4, NEW k \in 0..4, j <= k
  PROVE  Status!Unit(j) <= Status!Unit(k)
  <1>1. \A i \in 0..3 : Status!Unit(i) <= Status!Unit(i + 1)
    <2> SUFFICES ASSUME NEW i \in 0..3 PROVE Status!Unit(i) <= Status!Unit(i + 1)
      OBVIOUS
    <2>1. Status!Unit(i) \in Nat \ {0} /\ Status!Unit(i + 1) = Status!Unit(i) * Base
      BY Units, StatusAssumption
    <2>2. Base \in Nat \ {0} /\ 1 <= Base
      BY StatusAssumption
    <2>3. Status!Unit(i) * 1 <= Status!Unit(i) * Base
      BY <2>1, <2>2, Grows
    <2> QED BY <2>1, <2>3
  <1>2. /\ Status!Unit(0) <= Status!Unit(1) /\ Status!Unit(1) <= Status!Unit(2)
        /\ Status!Unit(2) <= Status!Unit(3) /\ Status!Unit(3) <= Status!Unit(4)
    BY <1>1
  <1>3. \A i \in 0..4 : Status!Unit(i) \in Nat
    BY Units
  <1> QED BY <1>2, <1>3

\* The power that is chosen is one that the value fills, and not the next.
LEMMA PowerIs ==
  ASSUME NEW v \in Nat, v >= Base
  PROVE  LET p == Status!Power(v) IN
         /\ p \in 0..3 /\ Status!Unit(p + 1) <= v
         /\ p = 3 \/ v < Status!Unit(p + 2)
  <1> DEFINE Fits(p) == (p = 3 \/ v < Status!Unit(p + 2)) /\ (p = 0 \/ Status!Unit(p + 1) <= v)
  <1>1. \A k \in 0..4 : Status!Unit(k) \in Nat
    BY Units
  <1>2. \E p \in 0..3 : Fits(p)
    <2>1. CASE v < Status!Unit(2)
      <3>1. Fits(0)
        BY <2>1
      <3> QED BY <3>1
    <2>2. CASE Status!Unit(2) <= v /\ v < Status!Unit(3)
      <3>1. Fits(1)
        BY <2>2
      <3> QED BY <3>1
    <2>3. CASE Status!Unit(3) <= v /\ v < Status!Unit(4)
      <3>1. Fits(2)
        BY <2>3
      <3> QED BY <3>1
    <2>4. CASE Status!Unit(3) <= v /\ Status!Unit(4) <= v
      <3>1. Fits(3)
        BY <2>4
      <3> QED BY <3>1
    <2> QED BY <1>1, <2>1, <2>2, <2>3, <2>4
  <1> DEFINE p == Status!Power(v)
  <1>3. p = CHOOSE q \in 0..3 : Fits(q)
    BY DEF Status!Power
  <1>4. p \in 0..3 /\ Fits(p)
    <2> HIDE DEF p, Fits
    <2> QED BY <1>2, <1>3, Zenon
  <1>5. Status!Unit(1) = Base
    BY DEF Status!Unit
  <1> HIDE DEF p
  <1>6. Status!Unit(p + 1) <= v
    <2>1. CASE p = 0
      BY <1>5, <2>1
    <2>2. CASE p # 0
      BY <1>4, <2>2
    <2> QED BY <2>1, <2>2
  <1>7. p \in 0..3 /\ Status!Unit(p + 1) <= v /\ (p = 3 \/ v < Status!Unit(p + 2))
    BY <1>4, <1>6
  <1> QED BY <1>7 DEF p

\* What is shown of a number of bytes: tenths t of the unit of number k, whose
\* value is u.
Told(v, t, k, u) ==
    /\ t \in Int /\ k \in 0..4 /\ u = Status!Unit(k) /\ u \in Nat \ {0}
    /\ k > 0 => u <= v
    /\ k < 4 => v < Base * u
    /\ 2 * (u * t) <= 20 * v + u /\ 20 * v + u < 2 * (u * t) + 2 * u

LEMMA BytesAre ==
  ASSUME NEW v \in Nat
  PROVE  LET t == Status!Bytes(v)[1]
             k == Status!Bytes(v)[2]
         IN  Told(v, t, k, Status!Unit(k))
  <1>0. v # None /\ Base \in Nat /\ Base > 1
    BY StatusAssumption
  <1>1. CASE v < Base
    <2>1. Status!Bytes(v) = <<10 * v, 0>>
      BY <1>0, <1>1 DEF Status!Bytes
    <2>2. Status!Unit(0) = 1
      BY Units
    <2>3. Told(v, 10 * v, 0, 1)
      BY <1>0, <1>1, <2>2 DEF Told
    <2> QED BY <2>1, <2>2, <2>3
  <1>2. CASE v >= Base
    <2> DEFINE p == Status!Power(v)
               u == Status!Unit(p + 1)
               t == Status!Rounded(10 * v, u)
    <2>1. p \in 0..3 /\ u <= v /\ (p = 3 \/ v < Status!Unit(p + 2))
      BY <1>2, PowerIs
    <2>2. Status!Bytes(v) = <<t, p + 1>>
      BY <1>0, <1>2 DEF Status!Bytes
    <2>3. u \in Nat \ {0} /\ p + 1 \in 0..4
      <3> HIDE DEF p
      <3> QED BY <2>1, Units
    <2>4. p < 3 => v < Base * u
      <3> HIDE DEF p
      <3> SUFFICES ASSUME p < 3 PROVE v < Base * Status!Unit(p + 1)
        OBVIOUS
      <3>1. p + 1 \in 0..3 /\ (p + 1) + 1 = p + 2 /\ p # 3
        BY <2>1
      <3>2. Status!Unit((p + 1) + 1) = Base * Status!Unit(p + 1)
        BY <3>1, Units
      <3> QED BY <2>1, <3>1, <3>2
    <2>5. t \in Int /\ 2 * (u * t) <= 20 * v + u /\ 20 * v + u < 2 * (u * t) + 2 * u
      <3>1. t = (2 * (10 * v) + u) \div (2 * u)
        BY DEF Status!Rounded
      <3> HIDE DEF u, t
      <3>2. 2 * u \in Nat \ {0} /\ 2 * (10 * v) + u \in Int /\ 2 * (10 * v) + u = 20 * v + u
        BY <2>3
      <3>3. t \in Int /\ (2 * u) * t <= 20 * v + u /\ 20 * v + u < (2 * u) * t + 2 * u
        BY <3>1, <3>2, Division
      <3>4. (2 * u) * t = 2 * (u * t)
        BY <2>3, <3>3
      <3> QED BY <3>3, <3>4
    <2>6. Told(v, t, p + 1, u)
      <3>1. u = Status!Unit(p + 1) /\ p \in Int
        BY <2>1
      <3> HIDE DEF u, p, t
      <3>2. p + 1 < 4 => p < 3
        BY <3>1
      <3> QED BY <2>1, <2>3, <2>4, <2>5, <3>1, <3>2 DEF Told
    <2> HIDE DEF p, t
    <2> QED BY <2>2, <2>6
  <1> QED BY <1>0, <1>1, <1>2

\* It is off by half a tenth of the unit at most, and the unit is the right one.
LEMMA ToldClosely ==
  ASSUME NEW v \in Nat, NEW t, NEW k, NEW u, Told(v, t, k, u)
  PROVE  /\ 20 * v - 2 * (t * u) \in -u..u
         /\ k > 0 => t >= 10
         /\ k < 4 => t <= 10 * Base
  <1>0. t \in Int /\ k \in 0..4 /\ u \in Nat \ {0} /\ Base \in Nat \ {0}
    BY StatusAssumption DEF Told
  <1> DEFINE x == u * t
  <1>1. x \in Int /\ x = t * u
    BY <1>0
  <1>2. 2 * x <= 20 * v + u /\ 20 * v + u < 2 * x + 2 * u
    BY DEF Told
  <1>3. 20 * v - 2 * x \in -u..u
    <2> HIDE DEF x
    <2> QED BY <1>0, <1>1, <1>2
  <1>4. k > 0 => t >= 10
    <2> SUFFICES ASSUME k > 0, ~(t >= 10) PROVE FALSE
      OBVIOUS
    <2>1. t <= 9 /\ u <= v
      BY <1>0 DEF Told
    <2>2. x <= u * 9
      BY <1>0, <2>1, Grows
    <2> HIDE DEF x
    <2> QED BY <1>0, <1>1, <1>2, <2>1, <2>2
  <1>5. k < 4 => t <= 10 * Base
    <2> SUFFICES ASSUME k < 4, ~(t <= 10 * Base) PROVE FALSE
      OBVIOUS
    <2> DEFINE y == Base * u
    <2>1. v < y /\ y \in Int
      BY <1>0 DEF Told
    <2>2. 10 * Base + 1 <= t /\ 10 * Base + 1 \in Int
      BY <1>0
    <2>3. u * (10 * Base + 1) <= x
      BY <1>0, <2>2, Grows
    <2>4. u * (10 * Base + 1) = 10 * y + u
      BY <1>0
    <2> HIDE DEF x, y
    <2> QED BY <1>0, <1>1, <1>2, <2>1, <2>3, <2>4
  <1> QED BY <1>1, <1>3, <1>4, <1>5

\* A larger number is not shown as a smaller one.
LEMMA ToldInOrder ==
  ASSUME NEW v \in Nat, NEW t, NEW k, NEW u, Told(v, t, k, u),
         NEW w \in Nat, NEW s, NEW l, NEW z, Told(w, s, l, z), v <= w
  PROVE  t * u <= s * z
  <1>0. /\ t \in Int /\ k \in 0..4 /\ u \in Nat \ {0} /\ u = Status!Unit(k)
        /\ s \in Int /\ l \in 0..4 /\ z \in Nat \ {0} /\ z = Status!Unit(l)
        /\ Base \in Nat \ {0}
    BY StatusAssumption DEF Told
  <1>1. t * u = u * t /\ s * z = z * s /\ u * t \in Int /\ z * s \in Int
    BY <1>0
  <1>2. ASSUME NEW j \in 0..3 PROVE Status!Unit(j + 1) = Base * Status!Unit(j)
    BY Units
  <1>3. CASE l < k
    <2>1. w < Base * z /\ u <= v
      BY <1>0, <1>3 DEF Told
    <2>2. l \in 0..3 /\ l + 1 \in 0..4 /\ l + 1 <= k
      BY <1>0, <1>3
    <2>3. Base * z = Status!Unit(l + 1) /\ Status!Unit(l + 1) <= u
      BY <1>0, <1>2, <2>2, UnitsGrow
    <2> DEFINE y == Status!Unit(l + 1)
    <2>4. y \in Nat
      BY <2>2, Units
    <2> QED BY <1>0, <2>1, <2>3, <2>4
  <1>4. CASE l = k
    <2>1. z = u
      BY <1>0, <1>4
    <2>2. u * s \in Int /\ u * t \in Int /\ u * t < u * s + u
      <3>1. 2 * (u * t) <= 20 * v + u /\ 20 * w + u < 2 * (u * s) + 2 * u
        BY <2>1 DEF Told
      <3>2. u * s \in Int
        BY <1>0
      <3> QED BY <1>0, <1>1, <3>1, <3>2
    <2>3. u * s + u = u * (s + 1) /\ s + 1 \in Int
      BY <1>0
    <2>4. ~(s + 1 <= t)
      <3>1. ~(u * (s + 1) <= u * t)
        BY <1>0, <2>2, <2>3
      <3> QED BY <1>0, <2>3, <3>1, Grows
    <2>5. t <= s
      BY <1>0, <2>4
    <2>6. u * t <= u * s
      BY <1>0, <2>5, Grows
    <2> QED BY <1>1, <2>1, <2>6
  <1>5. CASE k < l
    <2>1. t <= 10 * Base /\ s >= 10
      <3>1. k < 4 /\ l > 0
        BY <1>0, <1>5
      <3> QED BY <3>1, ToldClosely
    <2>2. k \in 0..3 /\ k + 1 \in 0..4 /\ k + 1 <= l
      BY <1>0, <1>5
    <2>3. Base * u = Status!Unit(k + 1) /\ Status!Unit(k + 1) <= z
      BY <1>0, <1>2, <2>2, UnitsGrow
    <2>4. u * t <= u * (10 * Base)
      BY <1>0, <2>1, Grows
    <2>5. u * (10 * Base) = 10 * (Base * u) /\ Base * u \in Int
      BY <1>0
    <2>6. z * 10 <= z * s
      BY <1>0, <2>1, Grows
    <2> QED BY <1>0, <1>1, <2>3, <2>4, <2>5, <2>6
  <1> QED BY <1>0, <1>3, <1>4, <1>5

\* Bytes are shown in order, closely, and in the right unit.
LEMMA BytesShown ==
  ASSUME snapshot \subseteq Status!Body
  PROVE  Status!BytesInOrder
  <1> SUFFICES ASSUME NEW b \in snapshot, b.reading # None
               PROVE  LET tenths == Status!Bytes(b.reading)[1]
                          unit == Status!Bytes(b.reading)[2]
                      IN  /\ \A w \in Readings \ {None} :
                                b.reading <= w => Status!Shown(b.reading) <= Status!Shown(w)
                          /\ 20 * b.reading - 2 * Status!Shown(b.reading)
                                \in -Status!Unit(unit)..Status!Unit(unit)
                          /\ unit > 0 => tenths >= 10
                          /\ unit < 4 => tenths <= 10 * Base
    BY DEF Status!BytesInOrder
  <1> DEFINE v == b.reading
             T(n) == Status!Bytes(n)[1]
             K(n) == Status!Bytes(n)[2]
             U(n) == Status!Unit(K(n))
  <1>1. v \in Nat
    BY StatusAssumption DEF Status!Body
  <1>2. \A w \in Readings \ {None} : w \in Nat
    BY StatusAssumption
  <1>3. \A n \in Nat : Told(n, T(n), K(n), U(n))
    BY BytesAre
  <1>4. \A n : Status!Shown(n) = T(n) * U(n)
    BY DEF Status!Shown
  <1> HIDE DEF v, T, K, U
  <1>5. \A w \in Readings \ {None} : v <= w => Status!Shown(v) <= Status!Shown(w)
    BY <1>1, <1>2, <1>3, <1>4, ToldInOrder
  <1>6. /\ 20 * v - 2 * Status!Shown(v) \in -U(v)..U(v)
        /\ K(v) > 0 => T(v) >= 10
        /\ K(v) < 4 => T(v) <= 10 * Base
    BY <1>1, <1>3, <1>4, ToldClosely
  <1> QED BY <1>5, <1>6 DEF v, T, K, U

\* A duration's parts add up to it.
LEMMA PartsAddUp ==
  ASSUME NEW v \in Nat
  PROVE  LET t == Status!Duration(v) IN
         /\ v = 3600 * t[1] + 60 * t[2] + t[3]
         /\ t[2] \in 0..59 /\ t[3] \in 0..59
  <1>1. Status!Duration(v) = <<v \div 3600, (v \div 60) % 60, v % 60>>
    BY StatusAssumption DEF Status!Duration
  <1>2. /\ v = 3600 * (v \div 3600) + 60 * ((v \div 60) % 60) + (v % 60)
        /\ (v \div 60) % 60 \in 0..59 /\ v % 60 \in 0..59
    OBVIOUS
  <1> QED BY <1>1, <1>2

LEMMA DurationsTold ==
  ASSUME snapshot \subseteq Status!Body
  PROVE  Status!DurationsExact
  <1>1. ASSUME NEW b \in snapshot, b.reading # None PROVE b.reading \in Nat
    BY <1>1, StatusAssumption DEF Status!Body
  <1> QED BY <1>1, PartsAddUp DEF Status!DurationsExact

\* A set of numbers that is not empty has a least one.
LEMMA Least ==
  ASSUME NEW T, T \subseteq Nat, T # {}
  PROVE  \E x \in T : \A y \in T : x <= y
  <1>1. \E x \in T : \A y \in T : ~(<<y, x>> \in OpToRel(<, Nat))
    BY NatLessThanWellFounded, WFMin
  <1>2. PICK x \in T : \A y \in T : ~(<<y, x>> \in OpToRel(<, Nat))
    BY <1>1
  <1>3. \A y \in T : ~(y < x)
    BY <1>2 DEF OpToRel
  <1> QED BY <1>3

\* What the history holds: the bitrate of a sample, or none.
Bitrate == Bitrates \cup {None}

\* A sample of the history is a number, or missing.
LEMMA SamplesAre ==
  ASSUME NEW h \in Seq(Bitrate)
  PROVE  /\ Len(h) \in Nat /\ DOMAIN h = 1..Len(h)
         /\ \A i \in 1..Len(h) : h[i] # None => h[i] \in Nat
         /\ Status!Samples(h) \subseteq Nat
         /\ \A v \in Status!Samples(h) : \E i \in 1..Len(h) : v = h[i] /\ v # None
         /\ \A i \in 1..Len(h) : h[i] # None => h[i] \in Status!Samples(h)
  <1>1. Bitrate \subseteq Nat \cup {None}
    BY StatusAssumption DEF Bitrate
  <1>2. Len(h) \in Nat /\ DOMAIN h = 1..Len(h) /\ \A i \in 1..Len(h) : h[i] \in Bitrate
    OBVIOUS
  <1>3. Status!Samples(h) = {h[i] : i \in 1..Len(h)} \ {None}
    BY <1>2 DEF Status!Samples
  <1> QED BY <1>1, <1>2, <1>3, Zenon

\* The samples of a history are bounded: if those before some place were not, the
\* first such place would follow one whose samples are.
LEMMA SamplesBounded ==
  ASSUME NEW h \in Seq(Bitrate)
  PROVE  \E m \in Nat : \A v \in Status!Samples(h) : v <= m
  <1> DEFINE Bound(n, m) == \A i \in 1..n : h[i] # None => h[i] <= m
             T == {n \in 0..Len(h) : ~\E m \in Nat : Bound(n, m)}
  <1>1. Len(h) \in Nat /\ \A i \in 1..Len(h) : h[i] # None => h[i] \in Nat
    BY SamplesAre
  <1>2. T = {}
    <2> SUFFICES ASSUME T # {} PROVE FALSE
      OBVIOUS
    <2>1. T \subseteq Nat
      BY <1>1
    <2>2. PICK n \in T : \A k \in T : n <= k
      <3> HIDE DEF T
      <3> QED BY <2>1, Least
    <2>3. n \in 0..Len(h) /\ ~\E m \in Nat : Bound(n, m)
      BY <2>2
    <2>4. n \in 1..Len(h)
      <3>1. Bound(0, 0)
        OBVIOUS
      <3>2. n # 0
        BY <2>3, <3>1
      <3> QED BY <1>1, <2>3, <3>2
    <2>5. n - 1 \in 0..Len(h) /\ n - 1 \notin T
      <3> HIDE DEF T
      <3> HIDE DEF Bound
      <3>0. Len(h) \in Nat
        BY <1>1
      <3>1. n - 1 \in Int /\ ~(n <= n - 1) /\ n - 1 \in 0..Len(h)
        BY <2>4, <3>0
      <3>2. n - 1 \notin T
        BY <2>2, <3>1
      <3> QED BY <3>1, <3>2
    <2>6. PICK m \in Nat : Bound(n - 1, m)
      BY <2>5
    <2> DEFINE l == IF h[n] # None /\ h[n] > m THEN h[n] ELSE m
    <2>7. l \in Nat /\ m <= l /\ (h[n] # None => h[n] <= l)
      <3> HIDE DEF Bound, T
      <3>1. m \in Nat /\ (h[n] # None => h[n] \in Nat)
        BY <1>1, <2>4, <2>6
      <3> QED BY <3>1
    <2> HIDE DEF l
    <2>8. ASSUME NEW i \in 1..n, h[i] # None PROVE h[i] <= l
      <3>1. CASE i = n
        BY <2>7, <2>8, <3>1
      <3>2. CASE i # n
        <4>1. i \in 1..n - 1 /\ i \in 1..Len(h)
          BY <1>1, <2>4, <3>2
        <4>2. h[i] <= m /\ h[i] \in Nat
          BY <1>1, <2>6, <2>8, <4>1
        <4>3. m <= l /\ m \in Nat /\ l \in Nat
          BY <2>6, <2>7
        <4> HIDE DEF Bound, T
        <4> QED BY <4>2, <4>3
      <3> QED BY <3>1, <3>2
    <2>9. Bound(n, l)
      BY <2>8
    <2> QED BY <2>3, <2>7, <2>9
  <1>3. PICK m \in Nat : Bound(Len(h), m)
    <2>1. Len(h) \in 0..Len(h)
      BY <1>1
    <2> HIDE DEF Bound
    <2> QED BY <1>2, <2>1
  <1>4. \A v \in Status!Samples(h) : v <= m
    BY <1>3, SamplesAre
  <1> QED BY <1>4

\* The chart's scale is eleven tenths of a number that no sample exceeds.
LEMMA ScaleHolds ==
  ASSUME NEW h \in Seq(Bitrate)
  PROVE  \E m \in Nat : /\ Status!ChartMax(h) = 11 * m /\ m >= 10
                        /\ \A v \in Status!Samples(h) : v <= m
  <1> DEFINE S == Status!Samples(h) \cup {10}
             T == {n \in Nat : \A v \in S : v <= n}
  <1>1. S \subseteq Nat
    BY SamplesAre
  <1>2. PICK n \in Nat : \A v \in Status!Samples(h) : v <= n
    BY SamplesBounded
  <1>3. T # {}
    <2> DEFINE k == IF n > 10 THEN n ELSE 10
    <2>1. k \in Nat /\ k >= n /\ k >= 10
      OBVIOUS
    <2> HIDE DEF k
    <2>2. k \in T
      BY <1>1, <1>2, <2>1
    <2> QED BY <2>2
  <1>4. PICK m \in T : \A k \in T : m <= k
    BY <1>3, Least
  <1>5. m \in S
    <2> SUFFICES ASSUME m \notin S PROVE FALSE
      OBVIOUS
    <2>1. \A v \in S : v <= m - 1
      BY <1>1, <1>4
    <2>2. 10 \in S
      OBVIOUS
    <2>3. m - 1 \in Nat
      <3>1. m \in Nat /\ 10 <= m - 1
        BY <1>4, <2>1, <2>2
      <3> HIDE DEF S, T
      <3> QED BY <3>1
    <2>4. m - 1 \in T
      BY <2>1, <2>3
    <2> QED BY <1>4, <2>4
  <1>6. \E k \in S : \A v \in S : v <= k
    BY <1>4, <1>5
  <1> DEFINE x == CHOOSE k \in S : \A v \in S : v <= k
  <1>7. x \in S /\ \A v \in S : v <= x
    BY <1>6
  <1>8. Status!ChartMax(h) = 11 * x
    BY DEF Status!ChartMax
  <1>9. 10 \in S
    OBVIOUS
  <1> HIDE DEF x
  <1> QED BY <1>1, <1>7, <1>8, <1>9

\* A point of the line is in the box.
LEMMA PointInBox ==
  ASSUME NEW h \in Seq(Bitrate), Len(h) <= HistorySize, NEW i \in DOMAIN h, h[i] # None
  PROVE  Status!Point(h, i).x \in 0..600 /\ Status!Point(h, i).y \in 9..149
  <1>1. i \in 1..Len(h) /\ Len(h) \in Nat /\ HistorySize \in Nat /\ HistorySize > 1
    BY StatusAssumption
  <1>2. h[i] \in Nat /\ h[i] \in Status!Samples(h)
    BY <1>1, SamplesAre
  <1>3. PICK m \in Nat : Status!ChartMax(h) = 11 * m /\ m >= 10 /\ h[i] <= m
    BY <1>2, ScaleHolds
  <1>4. ((i - 1) * 600) \div (HistorySize - 1) \in 0..600
    <2> DEFINE x == (i - 1) * 600
               d == HistorySize - 1
    <2>1. x \in Int /\ d \in Nat \ {0} /\ d * 0 <= x /\ x <= d * 600
      BY <1>1
    <2> HIDE DEF x, d
    <2>2. x \div d \in 0..600
      BY <2>1, Quotient
    <2> QED BY <2>2 DEF x, d
  <1>5. (h[i] * 1400) \div Status!ChartMax(h) \in 0..140
    <2> DEFINE x == h[i] * 1400
               d == 11 * m
    <2>1. x \in Int /\ d \in Nat \ {0} /\ d * 0 <= x /\ x <= d * 140
      BY <1>2, <1>3
    <2> HIDE DEF x, d
    <2>2. x \div d \in 0..140
      BY <2>1, Quotient
    <2> QED BY <1>3, <2>2 DEF x, d
  <1> DEFINE q == (h[i] * 1400) \div Status!ChartMax(h)
  <1>6. Status!Point(h, i).x = ((i - 1) * 600) \div (HistorySize - 1) /\ Status!Point(h, i).y = 149 - q
    BY DEF Status!Point
  <1>7. 149 - q \in 9..149
    <2> HIDE DEF q
    <2>1. q \in 0..140
      BY <1>5 DEF q
    <2> QED BY <2>1
  <1> HIDE DEF q
  <1> QED BY <1>4, <1>6, <1>7

\* No meter shows more than all.
LEMMA PercentInRange ==
  ASSUME NEW used \in Nat \cup {None}, NEW total \in Nat \cup {None}
  PROVE  Status!Percent(used, total) \in 0..100
  <1>1. CASE used # None /\ total # None /\ total > 0 /\ used <= total
    <2>1. used \in Nat /\ total \in Nat \ {0}
      BY <1>1
    <2> DEFINE x == 100 * used
    <2>2. x \in Int /\ total * 0 <= x /\ x <= total * 100
      BY <1>1, <2>1
    <2>3. Status!Percent(used, total) = x \div total
      BY <1>1, <2>1 DEF Status!Percent
    <2> HIDE DEF x
    <2> QED BY <2>1, <2>2, <2>3, Quotient
  <1>2. CASE ~(used # None /\ total # None /\ total > 0 /\ used <= total)
    <2>1. Status!Percent(used, total) = 0 \/ Status!Percent(used, total) = 100
      BY <1>2 DEF Status!Percent
    <2> QED BY <2>1
  <1> QED BY <1>1, <1>2

\* The chart stays in its box, and its line spans nothing that is missing.
LEMMA ChartDrawn ==
  ASSUME snapshot \subseteq Status!Body, history \in Seq(Bitrate), Len(history) <= HistorySize
  PROVE  Status!ChartFits
  <1>1. ASSUME NEW b \in snapshot PROVE Status!Meters(b) \subseteq 0..100
    <2>1. b.reading \in Nat \cup {None} /\ b.total \in Nat \cup {None} /\ 100 \in Nat \cup {None}
      BY StatusAssumption DEF Status!Body
    <2>2. /\ Status!Percent(b.reading, 100) \in 0..100
          /\ Status!Percent(b.reading, b.total) \in 0..100
      BY <2>1, PercentInRange
    <2>3. Status!Meters(b) = {Status!Percent(b.reading, 100), Status!Percent(b.reading, b.total)}
      BY DEF Status!Meters
    <2> QED BY <2>2, <2>3, Zenon
  <1>2. DOMAIN Status!Line(history) = {j \in DOMAIN history : history[j] # None}
    BY DEF Status!Line
  <1>3. ASSUME NEW i \in DOMAIN Status!Line(history)
        PROVE  /\ Status!Point(history, i).x \in 0..600 /\ Status!Point(history, i).y \in 9..149
               /\ Status!Line(history)[i] = "L" => i - 1 \in DOMAIN Status!Line(history)
    <2>1. i \in DOMAIN history /\ history[i] # None
      BY <1>2
    <2>2. Status!Line(history)[i] = IF i > 1 /\ history[i - 1] # None THEN "L" ELSE "M"
      BY <1>2 DEF Status!Line
    <2>3. i > 1 => i - 1 \in DOMAIN history
      BY <2>1
    <2> QED BY <1>2, <2>1, <2>2, <2>3, PointInBox
  <1>4. Status!HasArea(history) => DOMAIN Status!Line(history) = DOMAIN history
    BY <1>2 DEF Status!HasArea
  <1> QED BY <1>1, <1>3, <1>4 DEF Status!ChartFits
=============================================================================
