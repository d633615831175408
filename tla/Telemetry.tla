------------------------------- MODULE Telemetry -------------------------------
(***************************************************************************)
(* The telemetry worker (dashboard.rs: run) as the keeper of two tables:   *)
(* stream_sessions, one row per publisher session of OBS, and the entries  *)
(* of system_events about MediaMTX and its publisher.  Every two seconds   *)
(* it samples MediaMTX, records what changed since the sample before,      *)
(* opens, updates or ends the session row, and publishes the snapshot.     *)
(* What it does for the relay in between is in RelayControl.               *)
(*                                                                         *)
(* A statement is a step.  It succeeds, fails without effect, or takes     *)
(* effect although its answer is lost.                                     *)
(***************************************************************************)
EXTENDS Naturals, Sequences

CONSTANTS
    MaxPublishers,  \* bound on the times a publisher connects
    MaxBytes,       \* bound on the bytes a publisher sends
    MaxRows         \* bound on the rows of the table

ASSUME BoundAssumption == MaxPublishers \in Nat /\ MaxBytes \in Nat /\ MaxRows \in Nat

VARIABLES
    publisher,  \* MediaMTX: who publishes, numbered by online time; 0 is nobody
    bytes,      \* MediaMTX: what it has received from the publisher
    connects,   \* the publishers there have been
    pc,         \* the step the process is about to take
    sample,     \* the stream of the current tick
    prev,       \* previous: the sample of the tick before
    counter,    \* previous_bytes
    session,    \* session_id; 0 is None
    rows,       \* the stream_sessions table
    log,        \* what the entries of system_events say
    missed,     \* history: an entry since the last boot could not be recorded
    unsure      \* history: rows whose last statement took effect unanswered

engineVars == <<publisher, bytes, connects>>
memoryVars == <<sample, prev, counter, session>>
logVars    == <<log, missed>>
tableVars  == <<rows, unsure>>
vars == <<engineVars, pc, memoryVars, logVars, tableVars>>

-----------------------------------------------------------------------------
\* A bitrate, by the publishers whose byte counts it is the difference of.
NoRate == [from |-> 0, to |-> 0]
Rate == [from: Nat, to: Nat]

Sample == [online: BOOLEAN, publisher: Nat, rate: Rate]
Unknown == [online |-> FALSE, publisher |-> 0, rate |-> NoRate]

\* previous_bytes, with the publisher they were counted for.
NoCounter == [of |-> 0, count |-> 0]

\* A row of stream_sessions, by its status column.
Row == {"live", "ended", "interrupted"}

\* What the entries since the last boot say: whether MediaMTX answers; whether
\* somebody publishes, if an entry that MediaMTX is unavailable is taken to say
\* that nobody does; and what the last entry about the publisher says.
Log == [engine: BOOLEAN, publisher: BOOLEAN, last: BOOLEAN]

Fresh == [engine |-> FALSE, publisher |-> FALSE, last |-> FALSE]

Down == {"down", "interrupting", "announcing"}
Step == Down \cup {"tick", "log_engine", "log_publisher", "open", "update", "publish"}

TypeOK ==
    /\ publisher \in 0..connects /\ connects \in Nat /\ bytes \in Nat
    /\ pc \in Step
    /\ sample \in Sample /\ prev \in Sample
    /\ counter \in [of: Nat, count: Nat]
    /\ rows \in Seq(Row)
    /\ session \in 0..Len(rows)
    /\ log \in Log
    /\ missed \in BOOLEAN
    /\ unsure \subseteq DOMAIN rows

Init ==
    /\ publisher = 0 /\ bytes = 0 /\ connects = 0
    /\ pc = "down"
    /\ sample = Unknown /\ prev = Unknown
    /\ counter = NoCounter
    /\ session = 0
    /\ rows = <<>>
    /\ log = Fresh
    /\ missed = FALSE
    /\ unsure = {}

-----------------------------------------------------------------------------
(***************************************************************************)
(* Boot and end of the process.                                            *)
(***************************************************************************)
Boot ==
    /\ pc = "down"
    /\ pc' = "interrupting"
    /\ UNCHANGED <<engineVars, memoryVars, logVars, tableVars>>

\* Mutated form of Interrupted: only the newest row is closed.
InterruptedLast(i) == i = Len(rows) /\ rows[i] = "live"

\* end_time IS NULL
Interrupted(i) == rows[i] = "live"

InterruptRows ==
    /\ pc = "interrupting"
    /\ rows' = [i \in DOMAIN rows |->
                  IF Interrupted(i) THEN "interrupted" ELSE rows[i]]
    /\ unsure' = {}
    /\ pc' = "announcing"
    /\ UNCHANGED <<engineVars, memoryVars, logVars>>

\* record: an entry, unless the INSERT fails, which nobody is told.
Record(entry) == \/ log' = entry /\ UNCHANGED missed
                 \/ missed' = TRUE /\ UNCHANGED log

\* The entry that the controller has started; the worker is spawned.
Announce ==
    /\ pc = "announcing"
    /\ \/ log' = Fresh /\ missed' = FALSE
       \/ missed' = TRUE /\ UNCHANGED log
    /\ pc' = "tick"
    /\ UNCHANGED <<engineVars, memoryVars, tableVars>>

\* The process crashes, is told to end, or gives up at boot.
End ==
    /\ pc # "down"
    /\ pc' = "down"
    /\ sample' = Unknown /\ prev' = Unknown
    /\ counter' = NoCounter
    /\ session' = 0
    /\ UNCHANGED <<engineVars, logVars, tableVars>>

-----------------------------------------------------------------------------
(***************************************************************************)
(* One tick of run.                                                        *)
(***************************************************************************)
\* Mutated form of Measurable: a counter that has grown will do.
MeasurableAnyhow == counter # NoCounter /\ bytes >= counter.count

\* previous_bytes is there, has not shrunk, and the publisher's online time is
\* that of the sample before.
Measurable == counter # NoCounter /\ bytes >= counter.count /\ publisher = prev.publisher

\* path() is answered.  previous_bytes remembers a publisher's bytes only.
SampleAnswered ==
    /\ pc = "tick"
    /\ sample' = [online    |-> TRUE,
                  publisher |-> publisher,
                  rate      |-> IF publisher # 0 /\ Measurable
                                THEN [from |-> counter.of, to |-> publisher] ELSE NoRate]
    /\ counter' = IF publisher # 0 THEN [of |-> publisher, count |-> bytes] ELSE NoCounter
    /\ pc' = "log_engine"
    /\ UNCHANGED <<engineVars, prev, session, logVars, tableVars>>

\* path() fails: the engine is down, or does not answer in time.
SampleFails ==
    /\ pc = "tick"
    /\ sample' = Unknown
    /\ counter' = NoCounter
    /\ pc' = "log_engine"
    /\ UNCHANGED <<engineVars, prev, session, logVars, tableVars>>

LogEngine ==
    /\ pc = "log_engine"
    /\ IF sample.online = prev.online THEN UNCHANGED logVars
       ELSE Record([log EXCEPT !.engine = sample.online,
                               !.publisher = log.publisher /\ sample.online])
    /\ pc' = "log_publisher"
    /\ UNCHANGED <<engineVars, memoryVars, tableVars>>

Publishing(s) == s.publisher # 0

PublisherChanged == sample.online /\ Publishing(sample) # Publishing(prev)

LogPublisher ==
    /\ pc = "log_publisher"
    /\ IF PublisherChanged
       THEN Record([log EXCEPT !.publisher = Publishing(sample), !.last = Publishing(sample)])
       ELSE UNCHANGED logVars
    /\ pc' = "open"
    /\ UNCHANGED <<engineVars, memoryVars, tableVars>>

Ended == sample.online /\ ~Publishing(sample)

MustOpen == Publishing(sample) /\ session = 0

OpenRow ==
    /\ pc = "open"
    /\ pc' = "update"
    /\ \/ /\ MustOpen /\ Len(rows) < MaxRows
          /\ rows' = Append(rows, "live")
          /\ \/ session' = Len(rows) + 1 /\ UNCHANGED unsure
             \/ unsure' = unsure \cup {Len(rows) + 1} /\ UNCHANGED session
       \/ UNCHANGED <<session, tableVars>>
    /\ UNCHANGED <<engineVars, sample, prev, counter, logVars>>

\* Mutated forms of Forget: the session is forgotten although its row could
\* not be ended; it is never forgotten.
ForgetAlways(answered) == Ended
ForgetNever(answered) == FALSE

\* session_id is dropped once the end has been answered.
Forget(answered) == Ended /\ answered

UpdateRow ==
    /\ pc = "update"
    /\ pc' = "publish"
    /\ IF session = 0 THEN UNCHANGED <<session, tableVars>>
       ELSE \E effect, answered \in BOOLEAN :
            /\ answered => effect
            /\ rows' = IF effect
                       THEN [rows EXCEPT ![session] = IF Ended THEN "ended" ELSE "live"]
                       ELSE rows
            /\ unsure' = IF answered THEN unsure \ {session}
                         ELSE IF effect THEN unsure \cup {session} ELSE unsure
            /\ session' = IF Forget(answered) THEN 0 ELSE session
    /\ UNCHANGED <<engineVars, sample, prev, counter, logVars>>

\* Mutated form of Publish: a sample that failed is not remembered.
PublishAnswered ==
    /\ pc = "publish"
    /\ prev' = IF sample.online THEN sample ELSE prev
    /\ pc' = "tick"
    /\ UNCHANGED <<engineVars, sample, counter, session, logVars, tableVars>>

Publish ==
    /\ pc = "publish"
    /\ prev' = sample
    /\ pc' = "tick"
    /\ UNCHANGED <<engineVars, sample, counter, session, logVars, tableVars>>

-----------------------------------------------------------------------------
(***************************************************************************)
(* OBS and MediaMTX, external.  A reconnected publisher is a new one, with *)
(* an online time and a byte count of its own.                             *)
(***************************************************************************)
Connects ==
    /\ publisher = 0
    /\ connects < MaxPublishers
    /\ connects' = connects + 1
    /\ publisher' = connects + 1
    /\ UNCHANGED <<bytes, pc, memoryVars, logVars, tableVars>>

Sends ==
    /\ publisher # 0
    /\ bytes < MaxBytes
    /\ bytes' = bytes + 1
    /\ UNCHANGED <<publisher, connects, pc, memoryVars, logVars, tableVars>>

Leaves ==
    /\ publisher # 0
    /\ publisher' = 0
    /\ bytes' = 0
    /\ UNCHANGED <<connects, pc, memoryVars, logVars, tableVars>>

-----------------------------------------------------------------------------
Work ==
    \/ InterruptRows \/ Announce
    \/ SampleAnswered \/ SampleFails \/ LogEngine \/ LogPublisher
    \/ OpenRow \/ UpdateRow \/ Publish

Next == Boot \/ End \/ Work \/ Connects \/ Sends \/ Leaves

Spec == Init /\ [][Next]_vars

\* The timer ticks, statements and calls to MediaMTX end.
LiveSpec == Spec /\ WF_vars(Work)

-----------------------------------------------------------------------------
Live(i) == rows[i] = "live"

\* A session is of a row that is live, unless the end of it took effect
\* unanswered.
SessionRowLives == session # 0 => Live(session) \/ session \in unsure

\* No row of an earlier process, or of an earlier session, is left live, apart
\* from rows whose last statement took effect unanswered.
NoStrayRow ==
    pc \notin {"down", "interrupting"} =>
        \A i \in DOMAIN rows : Live(i) /\ i \notin unsure => i = session

\* While the worker runs, the row of its session and no other is live.
LiveRowIsSession == SessionRowLives /\ NoStrayRow

\* A session that was ended or interrupted is never live again, unless its
\* end took effect unanswered.
ClosedStaysClosed ==
    [][\A i \in DOMAIN rows : ~Live(i) /\ Live(i)' => i \in unsure]_vars

\* A bitrate is measured on the bytes of one publisher, and is never the
\* difference of two publishers' counts.
RateOfOnePublisher == sample.rate.from = sample.rate.to

\* Between ticks the log, if every entry was recorded, tells whether MediaMTX
\* answers and whether somebody publishes, read so that an entry that MediaMTX
\* is unavailable says that nobody does.
LogTellsState ==
    pc = "tick" /\ ~missed =>
        log.engine = sample.online /\ (log.publisher <=> Publishing(sample))

\* Between ticks, while MediaMTX answers, the last entry about the publisher
\* tells whether somebody publishes.  The code does not ensure this: see the
\* README.
LogShowsPublisher ==
    pc = "tick" /\ ~missed /\ sample.online => log.last = Publishing(sample)

\* A call or statement of the worker fails, or the process ends.
Fault ==
    \/ End \/ SampleFails
    \/ OpenRow /\ MustOpen /\ session' = 0
    \/ /\ UpdateRow /\ session # 0
       /\ \/ session \in unsure'
          \/ rows'[session] # (IF Ended THEN "ended" ELSE "live")
          \/ Ended /\ session' # 0

\* If from some time on the process runs and no fault occurs, the table comes
\* to agree with the publisher for good: its session is live while it
\* publishes, and nothing is once it has left.
RowsFollowPublisher ==
    <>[](pc # "down") /\ <>[][~Fault]_vars =>
        <>[](IF publisher # 0 THEN session # 0 /\ Live(session)
             ELSE \A i \in DOMAIN rows : Live(i) => i \in unsure)
-----------------------------------------------------------------------------
(***************************************************************************)
(* The inductive invariant behind the safety properties.                   *)
(***************************************************************************)
\* What a process knows begins with nothing; a tick begins with the sample of
\* the tick before; who does not answer has no publisher.
MemoryInv ==
    /\ pc \in Down => sample = Unknown /\ prev = Unknown /\ session = 0
    /\ pc = "tick" => prev = sample
    /\ \A s \in {sample, prev} : s.online \/ ~Publishing(s)

\* The byte counter belongs to the publisher of the last sample.
CounterInv == counter.of = sample.publisher

\* How far the log has followed the sample at each step of a tick.
LogInv ==
    ~missed =>
        /\ pc = "log_engine" =>
             log.engine = prev.online /\ (log.publisher <=> Publishing(prev))
        /\ pc = "log_publisher" =>
             log.engine = sample.online /\ (log.publisher <=> sample.online /\ Publishing(prev))
        /\ pc \in {"open", "update", "publish", "tick"} =>
             log.engine = sample.online /\ (log.publisher <=> Publishing(sample))

IInv ==
    /\ TypeOK
    /\ MemoryInv
    /\ CounterInv
    /\ LogInv
    /\ LiveRowIsSession
    /\ RateOfOnePublisher
=============================================================================
