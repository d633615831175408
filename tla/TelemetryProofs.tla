---------------------------- MODULE TelemetryProofs ----------------------------
(***************************************************************************)
(* Proofs about Telemetry for every value of its bounds: types, the        *)
(* inductive invariant IInv, that no row is left live but the session's,   *)
(* that closed rows stay closed, and what rates and log say.               *)
(***************************************************************************)
EXTENDS Telemetry, SequenceTheorems, TLAPS

\* A row appended to the table becomes its last, and the others keep theirs.
LEMMA AppendRow ==
  ASSUME rows \in Seq(Row), rows' = Append(rows, "live")
  PROVE  /\ rows' \in Seq(Row) /\ Len(rows) \in Nat /\ Len(rows') = Len(rows) + 1
         /\ DOMAIN rows = 1..Len(rows) /\ DOMAIN rows' = 1..(Len(rows) + 1)
         /\ \A i \in DOMAIN rows : rows'[i] = rows[i]
         /\ rows'[Len(rows) + 1] = "live"
  <1>1. "live" \in Row
    BY DEF Row
  <1> QED BY <1>1, AppendProperties, LenProperties

\* Statuses changed in place leave the table as long as it was.
LEMMA ChangedRows ==
  ASSUME rows \in Seq(Row), NEW f \in [DOMAIN rows -> Row], rows' = f
  PROVE  rows' \in Seq(Row) /\ Len(rows') = Len(rows) /\ DOMAIN rows' = DOMAIN rows
  <1>1. Len(rows) \in Nat /\ DOMAIN rows = 1..Len(rows)
    BY LenProperties
  <1>2. f \in [1..Len(rows) -> Row]
    BY <1>1
  <1>3. f \in Seq(Row)
    BY <1>1, <1>2
  <1> QED BY <1>1, <1>2, <1>3, LenProperties

\* UpdateRow writes one row's status, or none.
LEMMA UpdatedRows ==
  ASSUME TypeOK, UpdateRow
  PROVE  /\ rows' \in Seq(Row) /\ Len(rows') = Len(rows) /\ DOMAIN rows' = DOMAIN rows
         /\ \A i \in DOMAIN rows : i # session => rows'[i] = rows[i]
  <1>1. rows \in Seq(Row) /\ \A i \in DOMAIN rows : rows[i] \in Row
    BY LenProperties, ElementOfSeq DEF TypeOK
  <1>2. CASE rows' = rows
    BY <1>1, <1>2
  <1>3. CASE rows' # rows
    <2> DEFINE v == IF Ended THEN "ended" ELSE "live"
               f == [rows EXCEPT ![session] = v]
    <2>1. rows' = f
      BY <1>3 DEF UpdateRow, tableVars
    <2>2. v \in Row
      BY DEF Row
    <2>3. f \in [DOMAIN rows -> Row]
      BY <1>1, <2>2
    <2>4. \A i \in DOMAIN rows : i # session => f[i] = rows[i]
      OBVIOUS
    <2> HIDE DEF f
    <2> QED BY <1>1, <2>1, <2>3, <2>4, ChangedRows
  <1> QED BY <1>2, <1>3

-----------------------------------------------------------------------------
\* The state before the first boot is well typed.
LEMMA TypeInit == Init => TypeOK
  <1> SUFFICES ASSUME Init PROVE TypeOK
    OBVIOUS
  <1>1. rows \in Seq(Row) /\ Len(rows) = 0
    BY EmptySeq DEF Init
  <1>2. Unknown \in Sample /\ NoCounter \in [of: Nat, count: Nat] /\ Fresh \in Log
    BY DEF Unknown, Sample, Rate, NoRate, NoCounter, Fresh, Log
  <1>3. session \in 0..Len(rows) /\ publisher \in 0..connects /\ connects \in Nat /\ bytes \in Nat
    BY <1>1 DEF Init
  <1> QED BY <1>1, <1>2, <1>3 DEF Init, TypeOK, Step, Down

\* Every step keeps the types.
LEMMA TypeNext == TypeOK /\ [Next]_vars => TypeOK'
  <1> SUFFICES ASSUME TypeOK, [Next]_vars PROVE TypeOK'
    OBVIOUS
  <1>0. /\ Len(rows) \in Nat /\ DOMAIN rows = 1..Len(rows)
        /\ Unknown \in Sample /\ NoCounter \in [of: Nat, count: Nat] /\ Fresh \in Log
        /\ publisher \in Nat
    BY LenProperties DEF TypeOK, Unknown, Sample, Rate, NoRate, NoCounter, Fresh, Log
  <1> USE DEF engineVars, memoryVars, logVars, tableVars, Step, Down
  <1>1. CASE Boot \/ UNCHANGED vars
    BY <1>1 DEF TypeOK, Boot, vars
  <1>2. CASE InterruptRows
    <2> DEFINE f == [i \in DOMAIN rows |-> IF Interrupted(i) THEN "interrupted" ELSE rows[i]]
    <2>1. f \in [DOMAIN rows -> Row]
      <3>1. \A i \in DOMAIN rows : rows[i] \in Row
        BY LenProperties, ElementOfSeq DEF TypeOK
      <3> QED BY <3>1 DEF Row
    <2>2. rows' = f /\ rows \in Seq(Row)
      BY <1>2 DEF InterruptRows, TypeOK
    <2> HIDE DEF f
    <2>3. rows' \in Seq(Row) /\ Len(rows') = Len(rows) /\ DOMAIN rows' = DOMAIN rows
      BY <2>1, <2>2, ChangedRows
    <2> QED BY <1>2, <2>3 DEF TypeOK, InterruptRows
  <1>3. CASE Announce \/ End
    <2>1. session' \in 0..Len(rows') /\ rows' = rows
      BY <1>0, <1>3 DEF TypeOK, Announce, End
    <2>2. CASE Announce
      BY <1>0, <2>1, <2>2 DEF TypeOK, Announce
    <2>3. CASE End
      BY <1>0, <2>1, <2>3 DEF TypeOK, End
    <2> QED BY <1>3, <2>2, <2>3
  <1>4. CASE SampleAnswered
    <2>1. sample' \in Sample
      BY <1>0, <1>4 DEF SampleAnswered, Sample, Rate, NoRate, TypeOK
    <2>2. counter' \in [of: Nat, count: Nat]
      BY <1>0, <1>4 DEF SampleAnswered, TypeOK
    <2> QED BY <1>4, <2>1, <2>2 DEF TypeOK, SampleAnswered
  <1>5. CASE SampleFails
    BY <1>0, <1>5 DEF TypeOK, SampleFails
  <1>6. CASE LogEngine \/ LogPublisher
    <2>1. log' \in Log
      BY <1>6 DEF LogEngine, LogPublisher, Record, TypeOK, Log, Sample, Publishing
    <2> QED BY <1>6, <2>1 DEF LogEngine, LogPublisher, Record, TypeOK
  <1>7. CASE OpenRow
    <2>1. CASE UNCHANGED <<session, tableVars>>
      BY <1>7, <2>1 DEF TypeOK, OpenRow
    <2>2. CASE /\ rows' = Append(rows, "live")
               /\ \/ session' = Len(rows) + 1 /\ UNCHANGED unsure
                  \/ unsure' = unsure \cup {Len(rows) + 1} /\ UNCHANGED session
      <3>1. /\ rows' \in Seq(Row) /\ Len(rows') = Len(rows) + 1
            /\ DOMAIN rows' = 1..(Len(rows) + 1)
        BY <2>2, AppendRow DEF TypeOK
      <3>2. session' \in 0..Len(rows') /\ unsure' \subseteq DOMAIN rows'
        BY <1>0, <2>2, <3>1 DEF TypeOK
      <3> QED BY <1>7, <3>1, <3>2 DEF TypeOK, OpenRow
    <2> QED BY <1>7, <2>1, <2>2 DEF OpenRow
  <1>8. CASE UpdateRow
    <2>1. rows' \in Seq(Row) /\ Len(rows') = Len(rows) /\ DOMAIN rows' = DOMAIN rows
      BY <1>8, UpdatedRows
    <2>2. session' \in 0..Len(rows') /\ unsure' \subseteq DOMAIN rows'
      BY <1>0, <1>8, <2>1 DEF TypeOK, UpdateRow
    <2> QED BY <1>8, <2>1, <2>2 DEF TypeOK, UpdateRow
  <1>9. CASE Publish
    BY <1>9 DEF TypeOK, Publish
  <1>10. CASE Connects \/ Sends \/ Leaves
    BY <1>10 DEF TypeOK, Connects, Sends, Leaves
  <1> QED BY <1>1, <1>2, <1>3, <1>4, <1>5, <1>6, <1>7, <1>8, <1>9, <1>10 DEF Next, Work

\* Every reachable state is well typed.
THEOREM TypeCorrect == Spec => []TypeOK
  BY TypeInit, TypeNext, PTL DEF Spec
-----------------------------------------------------------------------------
\* What the process remembers between steps, and whose bytes it counts.
MemoryPart == MemoryInv /\ CounterInv /\ RateOfOnePublisher

\* Every step keeps the memory's invariants.
LEMMA MemoryNext == TypeOK /\ MemoryPart /\ [Next]_vars => MemoryPart'
  <1> SUFFICES ASSUME TypeOK, MemoryPart, [Next]_vars PROVE MemoryPart'
    OBVIOUS
  <1> USE DEF MemoryPart, MemoryInv, CounterInv, RateOfOnePublisher, Down, Publishing,
              Unknown, NoRate, NoCounter
  <1>1. CASE SampleAnswered
    <2>1. pc = "tick" /\ prev = sample /\ counter.of = sample.publisher
      BY <1>1 DEF SampleAnswered
    <2>2. Measurable => counter.of = publisher
      BY <2>1 DEF Measurable
    <2>3. sample'.online /\ sample'.publisher = publisher /\ counter'.of = publisher
      BY <1>1 DEF SampleAnswered
    <2>4. sample'.rate.from = sample'.rate.to
      BY <1>1, <2>2 DEF SampleAnswered
    <2> QED BY <1>1, <2>1, <2>3, <2>4 DEF SampleAnswered
  <1>2. CASE SampleFails
    BY <1>2 DEF SampleFails
  <1>3. CASE Boot \/ InterruptRows \/ Announce
    BY <1>3 DEF Boot, InterruptRows, Announce, memoryVars
  <1>4. CASE End
    BY <1>4 DEF End
  <1>5. CASE LogEngine \/ LogPublisher \/ OpenRow \/ UpdateRow
    <2>1. /\ UNCHANGED <<sample, prev, counter>>
          /\ pc' \in {"log_publisher", "open", "update", "publish"}
      BY <1>5 DEF LogEngine, LogPublisher, OpenRow, UpdateRow, memoryVars
    <2> QED BY <2>1
  <1>6. CASE Publish
    BY <1>6 DEF Publish
  <1>7. CASE Connects \/ Sends \/ Leaves \/ UNCHANGED vars
    BY <1>7 DEF Connects, Sends, Leaves, vars, memoryVars
  <1> QED BY <1>1, <1>2, <1>3, <1>4, <1>5, <1>6, <1>7 DEF Next, Work

\* Every step keeps the log's invariant.
LEMMA LogNext == TypeOK /\ MemoryPart /\ LogInv /\ [Next]_vars => LogInv'
  <1> SUFFICES ASSUME TypeOK, MemoryPart, LogInv, [Next]_vars PROVE LogInv'
    OBVIOUS
  <1>0. /\ \A s \in {sample, prev} : s.online \/ ~Publishing(s)
        /\ pc = "tick" => prev = sample
        /\ sample.online \in BOOLEAN /\ prev.online \in BOOLEAN /\ log \in Log
    BY DEF MemoryPart, MemoryInv, TypeOK, Sample
  <1> USE DEF LogInv
  <1>1. CASE SampleAnswered \/ SampleFails
    BY <1>0, <1>1 DEF SampleAnswered, SampleFails, logVars
  <1>2. CASE LogEngine
    <2>1. CASE sample.online = prev.online
      BY <1>0, <1>2, <2>1 DEF LogEngine, logVars, memoryVars, Publishing
    <2>2. CASE sample.online # prev.online /\ ~missed'
      <3>1. /\ pc = "log_engine" /\ ~missed /\ pc' = "log_publisher"
            /\ UNCHANGED <<sample, prev>>
            /\ log' = [log EXCEPT !.engine = sample.online,
                                  !.publisher = log.publisher /\ sample.online]
        BY <1>2, <2>2 DEF LogEngine, Record, memoryVars
      <3>3. log.engine = prev.online /\ (log.publisher <=> Publishing(prev))
        BY <3>1
      <3>2. log'.engine = sample.online /\ (log'.publisher <=> log.publisher /\ sample.online)
        BY <1>0, <3>1 DEF Log
      <3>4. sample'.online = sample.online /\ prev' = prev
        BY <3>1 DEF Publishing
      <3>5. log'.publisher <=> sample.online /\ Publishing(prev)
        BY <3>2, <3>3
      <3> QED BY <3>1, <3>2, <3>4, <3>5
    <2> QED BY <2>1, <2>2
  <1>3. CASE LogPublisher
    <2>1. CASE ~PublisherChanged
      <3>1. UNCHANGED <<log, missed, sample, prev>> /\ pc = "log_publisher" /\ pc' = "open"
        BY <1>3, <2>1 DEF LogPublisher, logVars, memoryVars
      <3>2. ~missed => (log.publisher <=> Publishing(sample))
        <4>1. ~missed => (log.publisher <=> sample.online /\ Publishing(prev))
          BY <3>1
        <4>2. CASE ~sample.online
          BY <1>0, <4>1, <4>2
        <4>3. CASE sample.online
          BY <2>1, <4>1, <4>3 DEF PublisherChanged
        <4> QED BY <4>2, <4>3
      <3> QED BY <3>1, <3>2 DEF Publishing
    <2>2. CASE PublisherChanged /\ ~missed'
      <3>1. /\ pc = "log_publisher" /\ ~missed /\ pc' = "open"
            /\ UNCHANGED <<sample, prev>>
            /\ log' = [log EXCEPT !.publisher = Publishing(sample), !.last = Publishing(sample)]
        BY <1>3, <2>2 DEF LogPublisher, Record, memoryVars
      <3>2. log'.engine = log.engine /\ (log'.publisher <=> Publishing(sample))
        BY <1>0, <3>1 DEF Log
      <3> QED BY <3>1, <3>2 DEF Publishing
    <2> QED BY <2>1, <2>2
  <1>4. CASE OpenRow \/ UpdateRow \/ Publish
    BY <1>4 DEF OpenRow, UpdateRow, Publish, logVars, Publishing
  <1>5. CASE Announce
    <2>1. pc' = "tick" /\ sample' = Unknown
      BY <1>5 DEF Announce, memoryVars, MemoryPart, MemoryInv, Down
    <2>2. ~missed' => log'.engine = FALSE /\ log'.publisher = FALSE
      BY <1>5 DEF Announce, Fresh
    <2>3. sample'.online = FALSE /\ ~Publishing(sample)'
      BY <2>1 DEF Unknown, Publishing
    <2> QED BY <2>1, <2>2, <2>3 DEF Publishing
  <1>6. CASE Boot \/ InterruptRows \/ End
    BY <1>6 DEF Boot, InterruptRows, End
  <1>7. CASE Connects \/ Sends \/ Leaves \/ UNCHANGED vars
    BY <1>7 DEF Connects, Sends, Leaves, vars, memoryVars, logVars, Publishing
  <1> QED BY <1>1, <1>2, <1>3, <1>4, <1>5, <1>6, <1>7 DEF Next, Work

-----------------------------------------------------------------------------
RowsPart == LiveRowIsSession

\* Every step keeps the table's invariants.
LEMMA RowsNext == TypeOK /\ MemoryPart /\ RowsPart /\ [Next]_vars => RowsPart'
  <1> SUFFICES ASSUME TypeOK, MemoryPart, RowsPart, [Next]_vars PROVE RowsPart'
    OBVIOUS
  <1>0. /\ DOMAIN rows = 1..Len(rows) /\ Len(rows) \in Nat
        /\ session \in 0..Len(rows) /\ unsure \subseteq DOMAIN rows
        /\ pc \in Down => session = 0
    BY LenProperties DEF TypeOK, MemoryPart, MemoryInv
  <1> USE DEF RowsPart, LiveRowIsSession, SessionRowLives, NoStrayRow, Live, Down
  <1>1. CASE Boot \/ Announce
    BY <1>0, <1>1 DEF Boot, Announce, memoryVars, tableVars
  <1>2. CASE InterruptRows
    <2>1. \A i \in DOMAIN rows' : rows'[i] # "live"
      BY <1>2 DEF InterruptRows, Interrupted
    <2>2. session' = 0
      BY <1>0, <1>2 DEF InterruptRows, memoryVars
    <2> QED BY <2>1, <2>2
  <1>3. CASE End
    BY <1>3 DEF End, tableVars
  <1>4. CASE SampleAnswered \/ SampleFails \/ LogEngine \/ LogPublisher \/ Publish
    <2>1. pc \notin {"down", "interrupting"} /\ UNCHANGED <<session, rows, unsure>>
      BY <1>4 DEF SampleAnswered, SampleFails, LogEngine, LogPublisher, Publish, memoryVars, tableVars
    <2> QED BY <2>1
  <1>5. CASE OpenRow
    <2>0. pc \notin {"down", "interrupting"}
      BY <1>5 DEF OpenRow
    <2>1. CASE UNCHANGED <<session, tableVars>>
      BY <2>0, <2>1 DEF tableVars
    <2>2. CASE /\ MustOpen /\ rows' = Append(rows, "live")
               /\ \/ session' = Len(rows) + 1 /\ UNCHANGED unsure
                  \/ unsure' = unsure \cup {Len(rows) + 1} /\ UNCHANGED session
      <3>1. /\ DOMAIN rows' = 1..(Len(rows) + 1)
            /\ \A i \in DOMAIN rows : rows'[i] = rows[i]
            /\ rows'[Len(rows) + 1] = "live"
        BY <2>2, AppendRow DEF TypeOK
      <3>2. \A i \in DOMAIN rows : Live(i) => i \in unsure
        BY <1>0, <2>0, <2>2 DEF MustOpen
      <3>3. session = 0
        BY <2>2 DEF MustOpen
      <3>4. SessionRowLives'
        BY <2>2, <3>1, <3>3
      <3>5. \A i \in DOMAIN rows' : i = Len(rows) + 1 \/ i \in DOMAIN rows
        BY <1>0, <3>1
      <3>6. \A i \in DOMAIN rows' : rows'[i] = "live" /\ i \notin unsure' => i = session'
        BY <2>2, <3>1, <3>2, <3>5
      <3> QED BY <3>4, <3>6
    <2> QED BY <1>5, <2>1, <2>2 DEF OpenRow
  <1>6. CASE UpdateRow
    <2>0. pc \notin {"down", "interrupting"} /\ UNCHANGED sample
      BY <1>6 DEF UpdateRow
    <2>1. CASE UNCHANGED <<session, tableVars>>
      BY <2>0, <2>1 DEF tableVars
    <2>2. CASE session # 0
      <3>1. /\ rows \in Seq(Row) /\ DOMAIN rows' = DOMAIN rows
            /\ \A i \in DOMAIN rows : i # session => rows'[i] = rows[i]
        BY <1>6, UpdatedRows DEF TypeOK
      <3>2. PICK effect \in BOOLEAN, answered \in BOOLEAN :
              /\ answered => effect
              /\ rows' = IF effect
                         THEN [rows EXCEPT ![session] = IF Ended THEN "ended" ELSE "live"]
                         ELSE rows
              /\ unsure' = IF answered THEN unsure \ {session}
                           ELSE IF effect THEN unsure \cup {session} ELSE unsure
              /\ session' = IF Forget(answered) THEN 0 ELSE session
        BY <1>6, <2>2 DEF UpdateRow
      <3>3. session \in DOMAIN rows
        BY <1>0, <2>2
      <3>4. effect => rows'[session] = IF Ended THEN "ended" ELSE "live"
        BY <3>2, <3>3
      <3>5. SessionRowLives'
        BY <3>2, <3>4 DEF Forget
      <3>6. \A i \in DOMAIN rows' : rows'[i] = "live" /\ i \notin unsure' => i = session
        BY <2>0, <3>1, <3>2
      <3>7. session' # session => rows'[session] # "live"
        BY <3>2, <3>4 DEF Forget
      <3> QED BY <3>5, <3>6, <3>7
    <2> QED BY <1>6, <2>1, <2>2 DEF UpdateRow
  <1>7. CASE Connects \/ Sends \/ Leaves \/ UNCHANGED vars
    BY <1>7 DEF Connects, Sends, Leaves, vars, memoryVars, tableVars
  <1> QED BY <1>1, <1>2, <1>3, <1>4, <1>5, <1>6, <1>7 DEF Next, Work

-----------------------------------------------------------------------------
\* The state before the first boot satisfies the invariant.
LEMMA InvInit == Init => IInv
  <1> SUFFICES ASSUME Init PROVE IInv
    OBVIOUS
  <1>1. rows = <<>> /\ session = 0 /\ pc = "down"
    BY DEF Init
  <1>2. MemoryInv /\ CounterInv /\ RateOfOnePublisher
    BY DEF Init, MemoryInv, CounterInv, RateOfOnePublisher, Down, Unknown, NoRate, NoCounter, Publishing
  <1>3. LogInv /\ LiveRowIsSession
    BY <1>1 DEF LogInv, LiveRowIsSession, SessionRowLives, NoStrayRow
  <1> QED BY <1>2, <1>3, TypeInit DEF IInv

\* Every reachable state satisfies the invariant behind the properties.
THEOREM InductiveInvariant == Spec => []IInv
  <1>1. IInv /\ [Next]_vars => IInv'
    BY TypeNext, MemoryNext, LogNext, RowsNext DEF IInv, MemoryPart, RowsPart
  <1> QED BY <1>1, InvInit, PTL DEF Spec

\* While the worker runs, the row of its session and no other of stream_sessions is
\* live, apart from rows whose last statement took effect unanswered.
THEOREM LiveRows == Spec => []LiveRowIsSession
  <1>1. IInv => LiveRowIsSession
    BY DEF IInv
  <1> QED BY <1>1, InductiveInvariant, PTL

\* A bitrate is never the difference of two publishers' byte counts.
THEOREM Rates == Spec => []RateOfOnePublisher
  <1>1. IInv => RateOfOnePublisher
    BY DEF IInv
  <1> QED BY <1>1, InductiveInvariant, PTL

\* Between ticks a complete log tells what the last sample saw.
THEOREM LogTells == Spec => []LogTellsState
  <1>1. IInv => LogTellsState
    BY DEF IInv, LogInv, LogTellsState
  <1> QED BY <1>1, InductiveInvariant, PTL

\* No step makes a closed session live again, unless its end went unanswered.
THEOREM ClosedRows == Spec => ClosedStaysClosed
  <1> DEFINE A == \A i \in DOMAIN rows : ~Live(i) /\ Live(i)' => i \in unsure
  <1>1. IInv /\ [Next]_vars => [A]_vars
    <2> SUFFICES ASSUME IInv, Next PROVE A
      OBVIOUS
    <2>0. rows \in Seq(Row) /\ TypeOK /\ SessionRowLives
      BY DEF IInv, TypeOK, LiveRowIsSession
    <2> USE DEF Live
    <2>1. CASE InterruptRows
      BY <2>1 DEF InterruptRows
    <2>2. CASE OpenRow
      <3>1. CASE UNCHANGED rows
        BY <3>1
      <3>2. CASE rows' = Append(rows, "live")
        BY <2>0, <3>2, AppendRow
      <3> QED BY <2>2, <3>1, <3>2 DEF OpenRow, tableVars
    <2>3. CASE UpdateRow
      <3>1. CASE session = 0
        BY <2>3, <3>1 DEF UpdateRow, tableVars
      <3>2. CASE session # 0
        <4>1. \A i \in DOMAIN rows : i # session => rows'[i] = rows[i]
          BY <2>0, <2>3, UpdatedRows
        <4>2. Live(session) \/ session \in unsure
          BY <2>0, <3>2 DEF SessionRowLives
        <4> QED BY <4>1, <4>2
      <3> QED BY <3>1, <3>2
    <2>4. CASE rows' = rows
      BY <2>4
    <2> QED BY <2>1, <2>2, <2>3, <2>4
            DEF Next, Work, Boot, End, Announce, SampleAnswered, SampleFails, LogEngine,
                LogPublisher, Publish, Connects, Sends, Leaves, tableVars
  <1>2. Spec => [][A]_vars
    BY <1>1, InductiveInvariant, PTL DEF Spec
  <1> QED BY <1>2 DEF ClosedStaysClosed
=============================================================================
