------------------------------- MODULE FeedProofs -------------------------------
(***************************************************************************)
(* Proofs about Feed for any capacity of the channel and any number of     *)
(* snapshots and entries: types, that a page which has received everything *)
(* shows the newest snapshot, and that it has every entry that the channel *)
(* still keeps.                                                            *)
(***************************************************************************)
EXTENDS Feed, SequenceTheorems, FiniteSetTheorems, TLAPS

IsSnapshot(m) == m[1] = "snapshot"
IsEntry(m) == m[1] = "log"

\* What is yet to be broadcast is new; the snapshot among it is the last one.
UnsentInv ==
    \A m \in unsent : IF IsSnapshot(m) THEN m[2] = published ELSE m[2] <= inserted

\* All that there was to tell is broadcast or yet to be.
CountInv == IsFiniteSet(unsent) /\ Len(sent) + Cardinality(unsent) = published + inserted

\* Snapshots are broadcast in their order.
OrderInv ==
    /\ \A i \in DOMAIN sent : IsSnapshot(sent[i]) => sent[i][2] <= published
    /\ \A i, j \in DOMAIN sent :
          i < j /\ IsSnapshot(sent[i]) /\ IsSnapshot(sent[j]) => sent[i][2] <= sent[j][2]

CursorInv ==
    /\ cursor <= Len(sent) + 1
    /\ link \in {"subscribed", "streaming"} => since \in 1..cursor
    /\ link = "subscribed" => since = cursor

\* The place k on the wire, 0 being the page itself, has a snapshot not older
\* than n; a late answer is exempt.
HasSnapshot(k, n) ==
    IF k = 0 THEN late \/ n <= shown ELSE IsSnapshot(wire[k]) /\ n <= wire[k][2]

\* From some place on, nothing on the wire is older than n.
Reached(n) ==
    \E k \in 0..Len(wire) :
        /\ HasSnapshot(k, n)
        /\ \A j \in k + 1..Len(wire) : IsSnapshot(wire[j]) => n <= wire[j][2]

\* What the task has passed is on the page or on the wire.
SnapshotsInv ==
    link = "streaming" =>
        \A i \in 1..cursor - 1 : IsSnapshot(sent[i]) => Reached(sent[i][2])

\* An entry broadcast at i is on the wire, or on the page, and no further from
\* the end of what was passed than the task is from i.
EntryAt(i) ==
    \/ \E k \in 1..Len(wire) : wire[k] = sent[i] /\ Len(wire) - k < cursor - i
    \/ \E p \in 1..Len(logs) : logs[p] = sent[i][2] /\ p + Len(wire) <= cursor - i

EntriesInv ==
    link = "streaming" =>
        \A i \in since..cursor - 1 : i >= Oldest /\ IsEntry(sent[i]) => EntryAt(i)

\* The types of TypeOK, by the part of the system.
ServerTypes ==
    /\ published \in 0..MaxPublished
    /\ inserted \in 0..MaxInserted
    /\ unsent \subseteq Message
    /\ sent \in Seq(Message)

SocketTypes ==
    /\ link \in Link
    /\ cursor \in Nat /\ since \in 0..cursor
    /\ wire \in Seq(Message) /\ Len(wire) <= MaxWire

AnswerTypes ==
    /\ start.logs \subseteq Entries /\ start.snapshot \subseteq 0..MaxPublished
    /\ start = [logs |-> start.logs, snapshot |-> start.snapshot]
    /\ poll \subseteq 0..MaxPublished /\ polling \in BOOLEAN

PageTypes ==
    /\ shown \in 0..MaxPublished /\ late \in BOOLEAN
    /\ logs \in Seq(1..MaxInserted) /\ Len(logs) <= LogLimit

Types == ServerTypes /\ SocketTypes /\ AnswerTypes /\ PageTypes

\* The inductive invariant.
Inv == Types /\ UnsentInv /\ CountInv /\ OrderInv /\ CursorInv /\ SnapshotsInv /\ EntriesInv

-----------------------------------------------------------------------------
(***************************************************************************)
(* Messages and sequences.                                                 *)
(***************************************************************************)
\* A message is a snapshot's number or an entry's id.
LEMMA Messages ==
  /\ \A n \in 0..MaxPublished : Snapshot(n) \in Message /\ IsSnapshot(Snapshot(n)) /\ Snapshot(n)[2] = n
  /\ \A i \in 1..MaxInserted : Entry(i) \in Message /\ IsEntry(Entry(i)) /\ Entry(i)[2] = i
                                /\ ~IsSnapshot(Entry(i))
  /\ \A m \in Message :
        /\ IsSnapshot(m) => m[2] \in 0..MaxPublished /\ m = Snapshot(m[2])
        /\ ~IsSnapshot(m) => IsEntry(m) /\ m[2] \in 1..MaxInserted /\ m = Entry(m[2])
        /\ m[2] \in Int
  BY FeedAssumption DEF Message, Snapshot, Entry, IsSnapshot, IsEntry

\* The page's entries are a sequence within its limit.
LEMMA EntriesAreSequences ==
  \A s : s \in Entries <=> s \in Seq(1..MaxInserted) /\ Len(s) <= LogLimit
  <1> SUFFICES ASSUME NEW s
               PROVE  s \in Entries <=> s \in Seq(1..MaxInserted) /\ Len(s) <= LogLimit
    OBVIOUS
  <1>1. ASSUME s \in Entries PROVE s \in Seq(1..MaxInserted) /\ Len(s) <= LogLimit
    <2>1. PICK n \in 0..LogLimit : s \in [1..n -> 1..MaxInserted]
      BY <1>1 DEF Entries
    <2>2. n \in Nat
      BY FeedAssumption
    <2> QED BY <2>1, <2>2, FeedAssumption
  <1>2. ASSUME s \in Seq(1..MaxInserted), Len(s) <= LogLimit PROVE s \in Entries
    <2>1. Len(s) \in 0..LogLimit /\ s \in [1..Len(s) -> 1..MaxInserted]
      BY <1>2, FeedAssumption
    <2> QED BY <2>1 DEF Entries
  <1> QED BY <1>1, <1>2

\* The types of Inv and the count are those of TypeOK.
LEMMA TypeParts == Types /\ CountInv /\ CursorInv => TypeOK
  <1> SUFFICES ASSUME Types, CountInv, CursorInv PROVE TypeOK
    OBVIOUS
  <1>1. Cardinality(unsent) \in Nat /\ Len(sent) \in Nat
    BY FS_CardinalityType DEF Types, ServerTypes, CountInv
  <1>2. Len(sent) <= MaxPublished + MaxInserted /\ cursor \in 0..Len(sent) + 1
    BY <1>1, FeedAssumption DEF Types, ServerTypes, SocketTypes, CountInv, CursorInv
  <1> QED BY <1>2, EntriesAreSequences DEF Types, ServerTypes, SocketTypes, AnswerTypes, PageTypes, TypeOK

\* The invariant holds before anything is told.
LEMMA InvInit == Init => Inv
  <1> SUFFICES ASSUME Init PROVE Inv
    OBVIOUS
  <1>1. Len(sent) = 0 /\ sent = <<>> /\ wire = <<>> /\ Len(wire) = 0 /\ logs = <<>> /\ Len(logs) = 0
    BY DEF Init
  <1>2. sent \in Seq(Message) /\ wire \in Seq(Message) /\ logs \in Seq(1..MaxInserted)
    BY <1>1
  <1>3. start = NoAnswers /\ start.logs = {} /\ start.snapshot = {}
    BY DEF Init, NoAnswers
  <1>4. Types
    <2>1. ServerTypes
      BY <1>2, FeedAssumption DEF ServerTypes, Init
    <2>2. SocketTypes
      BY <1>1, <1>2, FeedAssumption DEF SocketTypes, Init, Link
    <2>3. AnswerTypes
      BY <1>3, FeedAssumption DEF AnswerTypes, Init, NoAnswers
    <2>4. PageTypes
      <3>1. shown \in 0..MaxPublished /\ Len(logs) <= LogLimit
        BY <1>1, FeedAssumption DEF Init
      <3>2. late \in BOOLEAN
        BY Zenon DEF Init
      <3> QED BY <1>2, <3>1, <3>2 DEF PageTypes
    <2> QED BY <2>1, <2>2, <2>3, <2>4 DEF Types
  <1>5. UnsentInv /\ CountInv
    BY <1>1, FS_EmptySet DEF UnsentInv, CountInv, Init
  <1>6. OrderInv /\ CursorInv /\ SnapshotsInv /\ EntriesInv
    BY <1>1 DEF OrderInv, CursorInv, SnapshotsInv, EntriesInv, Init
  <1> QED BY <1>4, <1>5, <1>6 DEF Inv

-----------------------------------------------------------------------------
(***************************************************************************)
(* Types.                                                                  *)
(***************************************************************************)
\* Every step keeps the types.
LEMMA TypesKept == Types /\ [Next]_vars => Types'
  <1> SUFFICES ASSUME Types, [Next]_vars PROVE Types'
    OBVIOUS
  <1> USE FeedAssumption DEF Types
  <1>a. UNCHANGED serverVars => ServerTypes'
    BY DEF serverVars, ServerTypes
  <1>b. UNCHANGED linkVars => SocketTypes'
    BY DEF linkVars, SocketTypes
  <1>c. UNCHANGED <<start, pollVars>> => AnswerTypes'
    BY DEF pollVars, AnswerTypes
  <1>d. UNCHANGED pageVars => PageTypes'
    BY DEF pageVars, PageTypes
  <1>1. CASE Publish
    <2>1. published' \in 0..MaxPublished /\ unsent' = unsent \cup {Snapshot(published')}
      BY <1>1 DEF Publish, ServerTypes
    <2>2. ServerTypes'
      BY <1>1, <2>1, Messages DEF Publish, ServerTypes
    <2> QED BY <1>1, <1>b, <1>c, <1>d, <2>2 DEF Publish
  <1>2. CASE Insert
    <2>1. inserted' \in 1..MaxInserted /\ unsent' = unsent \cup {Entry(inserted')}
      BY <1>2 DEF Insert, ServerTypes
    <2>2. ServerTypes'
      BY <1>2, <2>1, Messages DEF Insert, ServerTypes
    <2> QED BY <1>2, <1>b, <1>c, <1>d, <2>2 DEF Insert
  <1>3. CASE Broadcast
    <2>1. ServerTypes'
      BY <1>3 DEF Broadcast, ServerTypes
    <2> QED BY <1>3, <1>b, <1>c, <1>d, <2>1 DEF Broadcast
  <1>4. CASE Subscribe
    <2>1. SocketTypes'
      BY <1>4 DEF Subscribe, SocketTypes, ServerTypes, Link
    <2> QED BY <1>4, <1>a, <1>c, <1>d, <2>1 DEF Subscribe
  <1>5. CASE Greet
    <2>1. wire' = <<Snapshot(published)>> /\ Snapshot(published) \in Message
      BY <1>5, Messages DEF Greet, First, ServerTypes
    <2>2. wire' \in Seq(Message) /\ Len(wire') = 1
      BY <2>1
    <2>3. SocketTypes'
      BY <1>5, <2>2 DEF Greet, SocketTypes, Link
    <2> QED BY <1>5, <1>a, <1>c, <1>d, <2>3 DEF Greet
  <1>6. CASE Forward
    <2>1. Resync \in Seq(Message) /\ Len(Resync) = 1
      BY Messages DEF Resync, ServerTypes
    <2>2. Oldest \in Nat \ {0}
      BY DEF Oldest, ServerTypes
    <2>3. cursor \in Nat /\ wire \in Seq(Message)
      BY DEF SocketTypes
    <2>4. cursor' \in Nat /\ cursor <= cursor' /\ wire' \in Seq(Message) /\ Len(wire') = Len(wire) + 1
      <3>1. CASE cursor < Oldest
        <4>1. cursor' = Oldest /\ wire' = wire \o Resync
          BY <1>6, <3>1 DEF Forward, Resume
        <4>2. wire' \in Seq(Message) /\ Len(wire') = Len(wire) + 1
          BY <2>1, <2>3, <4>1, ConcatProperties
        <4> QED BY <2>2, <2>3, <3>1, <4>1, <4>2
      <3>2. CASE ~(cursor < Oldest)
        <4>1. cursor' = cursor + 1 /\ wire' = Append(wire, sent[cursor]) /\ cursor <= Len(sent)
          BY <1>6, <3>2 DEF Forward
        <4>2. sent[cursor] \in Message
          BY <2>2, <2>3, <3>2, <4>1 DEF ServerTypes
        <4> QED BY <2>3, <4>1, <4>2
      <3> QED BY <3>1, <3>2
    <2>5. SocketTypes'
      BY <1>6, <2>4 DEF Forward, SocketTypes
    <2> QED BY <1>6, <1>a, <1>c, <1>d, <2>5 DEF Forward
  <1>7. CASE Start
    <2>1. SocketTypes' /\ AnswerTypes'
      BY <1>7 DEF Start, SocketTypes, AnswerTypes, NoAnswers, pollVars, Link
    <2> QED BY <1>7, <1>a, <1>d, <2>1 DEF Start
  <1>8. CASE ServeLogs
    <2> DEFINE n == IF inserted < LogLimit THEN inserted ELSE LogLimit
               s == [k \in 1..n |-> inserted + 1 - k]
    <2>1. n \in 0..LogLimit /\ n <= inserted /\ inserted \in 0..MaxInserted
      BY DEF ServerTypes
    <2>2. s \in [1..n -> 1..MaxInserted]
      BY <2>1
    <2>3. s \in Entries
      BY <2>1, <2>2 DEF Entries
    <2>4. start' = [start EXCEPT !.logs = {s}]
      BY <1>8 DEF ServeLogs
    <2> HIDE DEF s
    <2>5. /\ start'.logs = {s} /\ start'.snapshot = start.snapshot
          /\ start' = [logs |-> start'.logs, snapshot |-> start'.snapshot]
      BY <2>4 DEF AnswerTypes
    <2>6. AnswerTypes'
      BY <1>8, <2>3, <2>5 DEF ServeLogs, AnswerTypes, pollVars
    <2> QED BY <1>8, <1>a, <1>b, <1>d, <2>6 DEF ServeLogs
  <1>9. CASE ServeDashboard
    <2>1. start' = [start EXCEPT !.snapshot = {published}] /\ published \in 0..MaxPublished
      BY <1>9 DEF ServeDashboard, ServerTypes
    <2>2. /\ start'.logs = start.logs /\ start'.snapshot = {published}
          /\ start' = [logs |-> start'.logs, snapshot |-> start'.snapshot]
      BY <2>1 DEF AnswerTypes
    <2>3. AnswerTypes'
      BY <1>9, <2>1, <2>2 DEF ServeDashboard, AnswerTypes, pollVars
    <2> QED BY <1>9, <1>a, <1>b, <1>d, <2>3 DEF ServeDashboard
  <1>10. CASE Started
    <2>1. PageTypes'
      BY <1>10, EntriesAreSequences DEF Started, AnswerTypes, PageTypes, pageVars
    <2>2. SocketTypes' /\ AnswerTypes'
      BY <1>10 DEF Started, SocketTypes, AnswerTypes, pollVars, NoAnswers, Link
    <2> QED BY <1>10, <1>a, <2>1, <2>2 DEF Started
  <1>11. CASE Open
    <2>1. SocketTypes'
      BY <1>11 DEF Open, SocketTypes, Link
    <2> QED BY <1>11, <1>a, <1>c, <1>d, <2>1 DEF Open
  <1>12. CASE Deliver
    <2> DEFINE m == Head(wire)
    <2>1. m \in Message /\ Tail(wire) \in Seq(Message) /\ Len(Tail(wire)) < Len(wire)
      BY <1>12, HeadTailProperties DEF Deliver, SocketTypes
    <2>2. PageTypes'
      <3>1. CASE IsSnapshot(m)
        BY <1>12, <2>1, <3>1, Messages DEF Deliver, IsSnapshot, PageTypes
      <3>2. CASE ~IsSnapshot(m)
        <4>1. logs' = Kept(<<m[2]>> \o logs) /\ UNCHANGED <<shown, late>>
          BY <1>12, <3>2 DEF Deliver, IsSnapshot
        <4>2. m[2] \in 1..MaxInserted
          BY <2>1, <3>2, Messages
        <4>3. <<m[2]>> \o logs \in Seq(1..MaxInserted)
          BY <4>2 DEF PageTypes
        <4>4. ASSUME NEW t \in Seq(1..MaxInserted)
              PROVE  Kept(t) \in Seq(1..MaxInserted) /\ Len(Kept(t)) <= LogLimit
          BY <4>4 DEF Kept
        <4> QED BY <4>1, <4>3, <4>4 DEF PageTypes
      <3> QED BY <3>1, <3>2
    <2>3. wire' = Tail(wire) /\ UNCHANGED <<link, cursor, since>>
      BY <1>12 DEF Deliver
    <2> HIDE DEF m
    <2>4. SocketTypes'
      BY <2>1, <2>3 DEF SocketTypes
    <2> QED BY <1>12, <1>a, <1>c, <2>2, <2>4 DEF Deliver
  <1>13. CASE Lose
    <2>1. SocketTypes'
      BY <1>13 DEF Lose, SocketTypes, Link
    <2> QED BY <1>13, <1>a, <1>c, <1>d, <2>1 DEF Lose
  <1>14. CASE Poll
    <2>1. AnswerTypes'
      BY <1>14 DEF Poll, AnswerTypes
    <2> QED BY <1>14, <1>a, <1>b, <1>d, <2>1 DEF Poll
  <1>15. CASE ServePoll
    <2>1. AnswerTypes'
      BY <1>15 DEF ServePoll, AnswerTypes, ServerTypes
    <2> QED BY <1>15, <1>a, <1>b, <1>d, <2>1 DEF ServePoll
  <1>16. CASE Polled
    <2>1. PageTypes' /\ AnswerTypes'
      BY <1>16 DEF Polled, PageTypes, AnswerTypes, pageVars
    <2> QED BY <1>16, <1>a, <1>b, <2>1 DEF Polled
  <1>17. CASE UNCHANGED vars
    BY <1>17, <1>a, <1>b, <1>c, <1>d DEF vars
  <1> QED BY <1>1, <1>2, <1>3, <1>4, <1>5, <1>6, <1>7, <1>8, <1>9, <1>10, <1>11, <1>12, <1>13,
             <1>14, <1>15, <1>16, <1>17 DEF Next

-----------------------------------------------------------------------------
(***************************************************************************)
(* The server's part.                                                      *)
(***************************************************************************)
\* Only what is told, recorded or broadcast changes the server.
LEMMA ServerSteps ==
  [Next]_vars => Publish \/ Insert \/ Broadcast \/ UNCHANGED serverVars
  BY DEF Next, Subscribe, Greet, Forward, Start, ServeLogs, ServeDashboard, Started, Open,
         Deliver, Lose, Poll, ServePoll, Polled, vars

\* Messages are broadcast once each, the snapshots in their order.
LEMMA ServerKept ==
  ServerTypes /\ UnsentInv /\ CountInv /\ OrderInv /\ [Next]_vars => (UnsentInv /\ CountInv /\ OrderInv)'
  <1> SUFFICES ASSUME ServerTypes, UnsentInv, CountInv, OrderInv, [Next]_vars
               PROVE  (UnsentInv /\ CountInv /\ OrderInv)'
    OBVIOUS
  <1> USE FeedAssumption
  <1>0. Cardinality(unsent) \in Nat /\ Len(sent) \in Nat /\ published \in Nat /\ inserted \in Nat
    BY FS_CardinalityType DEF CountInv, ServerTypes
  <1>1. CASE Publish
    <2>1. /\ published' = published + 1 /\ inserted' = inserted /\ sent' = sent
          /\ unsent' = unsent \cup {Snapshot(published')} /\ Snapshot(published) \notin unsent
          /\ published' \in 0..MaxPublished
      BY <1>1 DEF Publish, ServerTypes
    <2>2. IsSnapshot(Snapshot(published')) /\ Snapshot(published')[2] = published'
      BY <2>1, Messages
    <2>3. ASSUME NEW m \in unsent PROVE ~IsSnapshot(m)
      <3>1. IsSnapshot(m) => m = Snapshot(published)
        BY <2>3, Messages DEF UnsentInv, ServerTypes
      <3> QED BY <2>1, <3>1
    <2>4. UnsentInv'
      BY <2>1, <2>2, <2>3 DEF UnsentInv
    <2>5. Snapshot(published') \notin unsent
      BY <2>2, <2>3
    <2>6. CountInv'
      <3>1. IsFiniteSet(unsent') /\ Cardinality(unsent') = Cardinality(unsent) + 1
        BY <2>1, <2>5, FS_AddElement DEF CountInv
      <3> QED BY <1>0, <2>1, <3>1 DEF CountInv
    <2>7. OrderInv'
      <3>1. \A i \in DOMAIN sent : sent[i] \in Message /\ sent[i][2] \in Int
        BY Messages DEF ServerTypes
      <3> QED BY <1>0, <2>1, <3>1 DEF OrderInv
    <2> QED BY <2>4, <2>6, <2>7
  <1>2. CASE Insert
    <2>1. /\ inserted' = inserted + 1 /\ published' = published /\ sent' = sent
          /\ unsent' = unsent \cup {Entry(inserted')} /\ inserted' \in 1..MaxInserted
      BY <1>2 DEF Insert, ServerTypes
    <2>2. ~IsSnapshot(Entry(inserted')) /\ Entry(inserted')[2] = inserted'
      BY <2>1, Messages
    <2>3. \A m \in unsent : m[2] \in Int
      BY Messages DEF ServerTypes
    <2>4. UnsentInv'
      BY <1>0, <2>1, <2>2, <2>3 DEF UnsentInv
    <2>5. Entry(inserted') \notin unsent
      BY <1>0, <2>1, <2>2 DEF UnsentInv
    <2>6. CountInv'
      <3>1. IsFiniteSet(unsent') /\ Cardinality(unsent') = Cardinality(unsent) + 1
        BY <2>1, <2>5, FS_AddElement DEF CountInv
      <3> QED BY <1>0, <2>1, <3>1 DEF CountInv
    <2>7. OrderInv'
      BY <2>1 DEF OrderInv
    <2> QED BY <2>4, <2>6, <2>7
  <1>3. CASE Broadcast
    <2>1. PICK m \in unsent : sent' = Append(sent, m) /\ unsent' = unsent \ {m}
      BY <1>3 DEF Broadcast
    <2>2. published' = published /\ inserted' = inserted
      BY <1>3 DEF Broadcast
    <2>3. UnsentInv'
      BY <2>1, <2>2 DEF UnsentInv
    <2>4. CountInv'
      <3>1. IsFiniteSet(unsent') /\ Cardinality(unsent') = Cardinality(unsent) - 1
        BY <2>1, FS_RemoveElement DEF CountInv
      <3>2. Len(sent') = Len(sent) + 1
        BY <2>1 DEF ServerTypes
      <3> QED BY <1>0, <2>2, <3>1, <3>2 DEF CountInv
    <2>5. OrderInv'
      <3>1. /\ DOMAIN sent' = 1..Len(sent) + 1 /\ DOMAIN sent = 1..Len(sent)
            /\ sent'[Len(sent) + 1] = m /\ \A i \in 1..Len(sent) : sent'[i] = sent[i]
        BY <2>1 DEF ServerTypes
      <3>2. IsSnapshot(m) => m[2] = published
        BY DEF UnsentInv
      <3>3. \A i \in DOMAIN sent' : IsSnapshot(sent'[i]) => sent'[i][2] <= published
        BY <1>0, <3>1, <3>2 DEF OrderInv
      <3>4. ASSUME NEW i \in DOMAIN sent', NEW j \in DOMAIN sent',
                   i < j, IsSnapshot(sent'[i]), IsSnapshot(sent'[j])
            PROVE  sent'[i][2] <= sent'[j][2]
        <4>1. CASE j = Len(sent) + 1
          BY <3>1, <3>2, <3>3, <3>4, <4>1
        <4>2. CASE j # Len(sent) + 1
          <5>1. i \in 1..Len(sent) /\ j \in 1..Len(sent)
            BY <1>0, <3>1, <3>4, <4>2
          <5> QED BY <3>1, <3>4, <5>1 DEF OrderInv
        <4> QED BY <4>1, <4>2
      <3> QED BY <2>2, <3>3, <3>4 DEF OrderInv
    <2> QED BY <2>3, <2>4, <2>5
  <1>4. CASE UNCHANGED serverVars
    BY <1>4 DEF serverVars, UnsentInv, CountInv, OrderInv
  <1> QED BY <1>1, <1>2, <1>3, <1>4, ServerSteps

-----------------------------------------------------------------------------
(***************************************************************************)
(* The socket's task and the page.                                         *)
(***************************************************************************)
\* What was broadcast stays, and so does what the channel no longer keeps.
LEMMA SentGrows ==
  ASSUME ServerTypes, [Next]_vars
  PROVE  /\ Len(sent) <= Len(sent') /\ Oldest <= Oldest'
         /\ \A i \in 1..Len(sent) : sent'[i] = sent[i]
         /\ ~Broadcast => sent' = sent
  <1>1. CASE Broadcast
    <2>1. PICK m \in unsent : sent' = Append(sent, m)
      BY <1>1 DEF Broadcast
    <2>2. Len(sent') = Len(sent) + 1 /\ \A i \in 1..Len(sent) : sent'[i] = sent[i]
      BY <2>1 DEF ServerTypes
    <2> QED BY <1>1, <2>2, FeedAssumption DEF Oldest, ServerTypes
  <1>2. CASE ~Broadcast
    <2>1. sent' = sent
      BY <1>2, ServerSteps DEF Publish, Insert, serverVars
    <2> QED BY <1>2, <2>1, FeedAssumption DEF Oldest, ServerTypes
  <1> QED BY <1>1, <1>2

\* What a step does to the socket and the page: nothing, or the task goes on, or
\* the page gets a message or a late answer, or nothing is streaming afterwards.
LEMMA SocketSteps ==
  [Next]_vars =>
    \/ UNCHANGED linkVars /\ UNCHANGED pageVars
    \/ Subscribe \/ Greet \/ Forward \/ Deliver
    \/ UNCHANGED linkVars /\ Polled
    \/ link' \in {"idle", "starting", "down", "open"} /\ cursor' \in {0, cursor} /\ sent' = sent
  <1> SUFFICES ASSUME [Next]_vars,
                      ~(Subscribe \/ Greet \/ Forward \/ Deliver)
               PROVE  \/ UNCHANGED linkVars /\ UNCHANGED pageVars
                      \/ UNCHANGED linkVars /\ Polled
                      \/ /\ link' \in {"idle", "starting", "down", "open"}
                         /\ cursor' \in {0, cursor} /\ sent' = sent
    OBVIOUS
  <1>1. CASE Publish \/ Insert \/ Broadcast \/ ServeLogs \/ ServeDashboard \/ Poll \/ ServePoll
    BY <1>1 DEF Publish, Insert, Broadcast, ServeLogs, ServeDashboard, Poll, ServePoll
  <1>2. CASE Start \/ Started \/ Open \/ Lose
    BY <1>2 DEF Start, Started, Open, Lose, serverVars
  <1>3. CASE Polled
    BY <1>3 DEF Polled
  <1>4. CASE UNCHANGED vars
    BY <1>4 DEF vars
  <1> QED BY <1>1, <1>2, <1>3, <1>4 DEF Next

\* The task stays within what was broadcast.
LEMMA CursorKept ==
  ServerTypes /\ SocketTypes /\ CursorInv /\ [Next]_vars => CursorInv'
  <1> SUFFICES ASSUME ServerTypes, SocketTypes, CursorInv, [Next]_vars PROVE CursorInv'
    OBVIOUS
  <1> USE FeedAssumption
  <1>0. /\ Len(sent) \in Nat /\ Len(sent') \in Nat /\ Len(sent) <= Len(sent')
        /\ cursor \in Nat /\ since \in 0..cursor /\ cursor <= Len(sent) + 1
    <2>1. sent' \in Seq(Message)
      BY ServerSteps DEF ServerTypes, Publish, Insert, Broadcast, serverVars
    <2> QED BY <2>1, SentGrows DEF ServerTypes, SocketTypes, CursorInv
  <1>1. CASE UNCHANGED linkVars
    BY <1>0, <1>1 DEF linkVars, CursorInv
  <1>2. CASE Subscribe
    BY <1>0, <1>2 DEF Subscribe, CursorInv, serverVars
  <1>3. CASE Greet
    BY <1>0, <1>3 DEF Greet, CursorInv, serverVars
  <1>4. CASE Forward
    <2>1. Oldest \in Nat /\ Oldest <= Len(sent) + 1
      BY <1>0 DEF Oldest
    <2>2. cursor <= cursor' /\ cursor' \in Nat /\ cursor' <= Len(sent) + 1
      BY <1>0, <1>4, <2>1 DEF Forward, Resume
    <2>3. link = "streaming" /\ link' = link /\ since' = since /\ sent' = sent
      BY <1>4 DEF Forward, serverVars
    <2> QED BY <1>0, <2>2, <2>3 DEF CursorInv
  <1>5. CASE Deliver
    BY <1>0, <1>5 DEF Deliver, CursorInv, serverVars
  <1>6. CASE /\ link' \in {"idle", "starting", "down", "open"}
             /\ cursor' \in {0, cursor} /\ sent' = sent
    BY <1>0, <1>6 DEF CursorInv
  <1> QED BY <1>1, <1>2, <1>3, <1>4, <1>5, <1>6, SocketSteps

\* A message that is delivered moves the wire up by one.
LEMMA WireMovesUp ==
  ASSUME SocketTypes, Deliver
  PROVE  /\ Len(wire) \in Nat \ {0} /\ Len(wire') = Len(wire) - 1
         /\ Head(wire) = wire[1] /\ wire[1] \in Message
         /\ \A k \in 1..Len(wire) - 1 : wire'[k] = wire[k + 1]
  <1>1. wire \in Seq(Message) /\ wire # <<>> /\ wire' = Tail(wire)
    BY DEF Deliver, SocketTypes
  <1>2. Len(wire) \in Nat \ {0}
    BY <1>1
  <1> QED BY <1>1, <1>2

\* Messages on the wire and broadcast have numbers.
LEMMA WireNumbers ==
  ASSUME ServerTypes, SocketTypes
  PROVE  /\ Len(wire) \in Nat /\ Len(sent) \in Nat
         /\ \A k \in 1..Len(wire) : wire[k] \in Message /\ wire[k][2] \in Int
         /\ \A i \in 1..Len(sent) : sent[i] \in Message /\ sent[i][2] \in Int
  BY Messages DEF ServerTypes, SocketTypes

\* Whatever snapshot the task passes, the page gets it or a later one.
LEMMA SnapshotsKept ==
  Types /\ CursorInv /\ OrderInv /\ SnapshotsInv /\ [Next]_vars => SnapshotsInv'
  <1> SUFFICES ASSUME Types, CursorInv, OrderInv, SnapshotsInv, [Next]_vars,
                      link' = "streaming",
                      NEW i \in 1..cursor' - 1, IsSnapshot(sent'[i])
               PROVE  Reached(sent[i][2])'
    BY DEF SnapshotsInv
  <1> USE FeedAssumption
  <1>0. ServerTypes /\ SocketTypes /\ PageTypes
    BY DEF Types
  <1>1. /\ Len(sent) \in Nat /\ cursor \in Nat /\ cursor <= Len(sent) + 1 /\ Len(wire) \in Nat
        /\ \A k \in 1..Len(wire) : wire[k] \in Message /\ wire[k][2] \in Int
        /\ \A k \in 1..Len(sent) : sent[k] \in Message /\ sent[k][2] \in Int
    BY <1>0, WireNumbers DEF CursorInv, SocketTypes
  <1>2. CASE UNCHANGED linkVars /\ UNCHANGED pageVars
    <2>1. link = "streaming" /\ cursor' = cursor /\ wire' = wire /\ shown' = shown /\ late' = late
      BY <1>2 DEF linkVars, pageVars
    <2>2. i \in 1..Len(sent) /\ sent'[i] = sent[i]
      BY <1>0, <1>1, <2>1, SentGrows
    <2>3. Reached(sent[i][2])
      BY <2>1, <2>2 DEF SnapshotsInv
    <2> QED BY <2>1, <2>2, <2>3 DEF Reached, HasSnapshot
  <1>3. CASE Greet
    <2>1. cursor' = cursor /\ sent' = sent /\ published' = published /\ wire' = <<Snapshot(published)>>
      BY <1>3 DEF Greet, First, serverVars
    <2>2. i \in DOMAIN sent /\ sent[i][2] <= published
      BY <1>0, <1>1, <2>1 DEF OrderInv, ServerTypes
    <2>3. IsSnapshot(wire'[1]) /\ wire'[1][2] = published /\ Len(wire') = 1
      BY <1>0, <2>1, Messages DEF ServerTypes
    <2>4. HasSnapshot(1, sent[i][2])'
      BY <2>1, <2>2, <2>3 DEF HasSnapshot, IsSnapshot
    <2>5. 1 \in 0..Len(wire') /\ 1 + 1..Len(wire') = {}
      BY <2>3
    <2> QED BY <2>4, <2>5 DEF Reached
  <1>4. CASE Forward
    <2>1. /\ link = "streaming" /\ cursor <= Len(sent) /\ sent' = sent /\ published' = published
          /\ shown' = shown /\ late' = late
      BY <1>4 DEF Forward, serverVars, pageVars
    <2>2. i \in Nat /\ i > 0
      BY <1>1, <1>4 DEF Forward
    <2>3. CASE cursor < Oldest
      <3>1. cursor' = Oldest /\ wire' = wire \o <<Snapshot(published)>>
        BY <1>4, <2>3 DEF Forward, Resume, Resync
      <3>2. Oldest \in Nat /\ Oldest <= Len(sent) + 1
        BY <1>1 DEF Oldest
      <3>3. i \in DOMAIN sent /\ sent[i][2] <= published
        BY <1>0, <1>1, <2>1, <2>2, <3>1, <3>2 DEF OrderInv, ServerTypes
      <3>4. Snapshot(published) \in Message /\ IsSnapshot(Snapshot(published)) /\ Snapshot(published)[2] = published
        BY <1>0, Messages DEF ServerTypes
      <3>5. Len(wire') = Len(wire) + 1 /\ wire'[Len(wire')] = Snapshot(published)
        BY <1>0, <3>1, <3>4 DEF SocketTypes
      <3>6. PICK k \in Nat : k = Len(wire) + 1
        BY <1>1
      <3>7. HasSnapshot(k, sent[i][2])'
        BY <1>1, <2>1, <3>3, <3>4, <3>5, <3>6 DEF HasSnapshot, IsSnapshot
      <3>8. k \in 0..Len(wire') /\ k + 1..Len(wire') = {}
        BY <1>1, <3>5, <3>6
      <3> QED BY <3>7, <3>8 DEF Reached
    <2>4. CASE ~(cursor < Oldest)
      <3>1. cursor' = cursor + 1 /\ wire' = Append(wire, sent[cursor])
        BY <1>4, <2>4 DEF Forward
      <3>2. cursor \in 1..Len(sent)
        <4>1. Oldest \in Nat /\ Oldest > 0
          BY <1>1 DEF Oldest
        <4> QED BY <1>1, <2>1, <2>4, <4>1
      <3>3. /\ Len(wire') = Len(wire) + 1 /\ wire'[Len(wire) + 1] = sent[cursor]
            /\ \A k \in 1..Len(wire) : wire'[k] = wire[k]
        BY <1>0, <1>1, <3>1, <3>2 DEF SocketTypes
      <3>4. CASE i = cursor
        <4>1. PICK k \in Nat : k = Len(wire) + 1
          BY <1>1
        <4>2. HasSnapshot(k, sent[i][2])'
          BY <1>1, <2>1, <3>2, <3>3, <3>4, <4>1 DEF HasSnapshot, IsSnapshot
        <4>3. k \in 0..Len(wire') /\ k + 1..Len(wire') = {}
          BY <1>1, <3>3, <4>1
        <4> QED BY <4>2, <4>3 DEF Reached
      <3>5. CASE i # cursor
        <4>1. i \in 1..cursor - 1 /\ i \in DOMAIN sent /\ cursor \in DOMAIN sent /\ IsSnapshot(sent[i])
          BY <1>0, <1>1, <2>1, <2>2, <3>1, <3>2, <3>5 DEF ServerTypes
        <4>2. Reached(sent[i][2])
          BY <2>1, <4>1 DEF SnapshotsInv
        <4>3. PICK k \in 0..Len(wire) :
                 /\ HasSnapshot(k, sent[i][2])
                 /\ \A j \in k + 1..Len(wire) : IsSnapshot(wire[j]) => sent[i][2] <= wire[j][2]
          BY <4>2 DEF Reached
        <4>4. HasSnapshot(k, sent[i][2])'
          BY <1>1, <2>1, <3>3, <4>3 DEF HasSnapshot, IsSnapshot
        <4>5. IsSnapshot(sent[cursor]) => sent[i][2] <= sent[cursor][2]
          BY <4>1, <1>1 DEF OrderInv
        <4>6. ASSUME NEW j \in k + 1..Len(wire'), IsSnapshot(wire'[j])
              PROVE  sent'[i][2] <= wire'[j][2]
          <5>1. CASE j = Len(wire) + 1
            BY <2>1, <3>3, <4>5, <4>6, <5>1
          <5>2. CASE j # Len(wire) + 1
            <6>1. j \in k + 1..Len(wire) /\ j \in 1..Len(wire)
              BY <1>1, <3>3, <5>2
            <6> QED BY <2>1, <3>3, <4>3, <4>6, <6>1
          <5> QED BY <5>1, <5>2
        <4>7. k \in 0..Len(wire')
          BY <1>1, <3>3
        <4> QED BY <4>4, <4>6, <4>7 DEF Reached, IsSnapshot
      <3> QED BY <3>4, <3>5
    <2> QED BY <2>3, <2>4
  <1>5. CASE Deliver
    <2>1. link = "streaming" /\ cursor' = cursor /\ sent' = sent
      BY <1>5 DEF Deliver, serverVars
    <2>2. i \in 1..Len(sent) /\ IsSnapshot(sent[i]) /\ sent[i][2] \in Int
      BY <1>1, <2>1
    <2>3. Reached(sent[i][2])
      BY <2>1, <2>2 DEF SnapshotsInv
    <2>4. PICK k \in 0..Len(wire) :
             /\ HasSnapshot(k, sent[i][2])
             /\ \A j \in k + 1..Len(wire) : IsSnapshot(wire[j]) => sent[i][2] <= wire[j][2]
      BY <2>3 DEF Reached
    <2>5. /\ Len(wire) \in Nat \ {0} /\ Len(wire') = Len(wire) - 1 /\ Head(wire) = wire[1]
          /\ \A j \in 1..Len(wire) - 1 : wire'[j] = wire[j + 1]
      BY <1>0, <1>5, WireMovesUp
    <2> DEFINE q == IF k = 0 THEN 0 ELSE k - 1
    <2>6. q \in 0..Len(wire')
      BY <2>5
    <2>7. ASSUME NEW j \in q + 1..Len(wire'), IsSnapshot(wire'[j])
          PROVE  sent'[i][2] <= wire'[j][2]
      <3>1. j \in 1..Len(wire) - 1 /\ j + 1 \in k + 1..Len(wire)
        BY <2>5
      <3> QED BY <2>1, <2>4, <2>5, <2>7, <3>1
    <2>8. HasSnapshot(q, sent[i][2])'
      <3>1. CASE k > 1
        <4>1. q # 0 /\ q \in 1..Len(wire) - 1 /\ wire'[q] = wire[k]
          BY <2>5, <3>1
        <4> QED BY <2>1, <2>4, <3>1, <4>1 DEF HasSnapshot, IsSnapshot
      <3>2. CASE ~(k > 1) /\ IsSnapshot(wire[1])
        <4>1. shown' = wire[1][2]
          BY <1>5, <2>5, <3>2 DEF Deliver, IsSnapshot
        <4>2. sent[i][2] <= wire[1][2]
          BY <2>4, <2>5, <3>2 DEF HasSnapshot
        <4>3. q = 0
          BY <3>2
        <4> QED BY <2>1, <4>1, <4>2, <4>3 DEF HasSnapshot
      <3>3. CASE ~(k > 1) /\ ~IsSnapshot(wire[1])
        <4>1. shown' = shown /\ late' = late
          BY <1>5, <2>5, <3>3 DEF Deliver, IsSnapshot
        <4>2. k = 0
          BY <2>4, <3>3 DEF HasSnapshot
        <4> QED BY <2>1, <2>4, <4>1, <4>2 DEF HasSnapshot
      <3> QED BY <3>1, <3>2, <3>3
    <2> HIDE DEF q
    <2> QED BY <2>6, <2>7, <2>8 DEF Reached, IsSnapshot
  <1>6. CASE UNCHANGED linkVars /\ Polled
    <2>1. link = "streaming" /\ cursor' = cursor /\ wire' = wire /\ sent' = sent
      BY <1>6 DEF linkVars, Polled, serverVars
    <2>2. late' \/ (shown' = shown /\ late' = late)
      BY <1>6, <2>1 DEF Polled, pageVars
    <2>3. Reached(sent[i][2])
      BY <1>1, <2>1 DEF SnapshotsInv
    <2> QED BY <2>1, <2>2, <2>3 DEF Reached, HasSnapshot, IsSnapshot
  <1>7. CASE Subscribe
    BY <1>7 DEF Subscribe
  <1> QED BY <1>2, <1>3, <1>4, <1>5, <1>6, <1>7, SocketSteps

\* Where the entries of the page are after one more, as long as it keeps them.
LEMMA KeptAt ==
  ASSUME NEW e \in 1..MaxInserted, NEW s \in Seq(1..MaxInserted)
  PROVE  LET t == Kept(<<e>> \o s) IN
         /\ LogLimit > 0 => 1 \in 1..Len(t) /\ t[1] = e
         /\ \A p \in 1..Len(s) : p < LogLimit => p + 1 \in 1..Len(t) /\ t[p + 1] = s[p]
  <1> DEFINE u == <<e>> \o s
             n == IF Len(u) < LogLimit THEN Len(u) ELSE LogLimit
             t == Kept(u)
  <1>1. /\ u \in Seq(1..MaxInserted) /\ Len(u) = Len(s) + 1 /\ u[1] = e
        /\ \A p \in 1..Len(s) : u[p + 1] = s[p]
    OBVIOUS
  <1>2. n \in 0..Len(u) /\ t = SubSeq(u, 1, n) /\ Len(s) \in Nat
    BY <1>1, FeedAssumption DEF Kept
  <1>3. Len(t) = n /\ \A p \in 1..n : t[p] = u[p]
    BY <1>1, <1>2
  <1> HIDE DEF u, t
  <1>4. n = IF Len(u) < LogLimit THEN Len(u) ELSE LogLimit
    OBVIOUS
  <1> HIDE DEF n
  <1>5. LogLimit > 0 => 1 \in 1..Len(t) /\ t[1] = e
    BY <1>1, <1>2, <1>3, <1>4, FeedAssumption
  <1>6. \A p \in 1..Len(s) : p < LogLimit => p + 1 \in 1..Len(t) /\ t[p + 1] = s[p]
    <2> TAKE p \in 1..Len(s)
    <2> HAVE p < LogLimit
    <2>1. p + 1 \in 1..n
      BY <1>1, <1>2, <1>4, FeedAssumption
    <2>2. t[p + 1] = u[p + 1]
      BY <1>3, <2>1
    <2>3. u[p + 1] = s[p]
      BY <1>1
    <2> QED BY <1>3, <2>1, <2>2, <2>3
  <1> QED BY <1>5, <1>6 DEF u, t

\* Whatever entry the task passes, the page gets it and keeps it for as long as
\* the channel does.
LEMMA EntriesKeptOnTheWay ==
  Types /\ CursorInv /\ EntriesInv /\ [Next]_vars => EntriesInv'
  <1> SUFFICES ASSUME Types, CursorInv, EntriesInv, [Next]_vars,
                      link' = "streaming",
                      NEW i \in since'..cursor' - 1, i >= Oldest', IsEntry(sent'[i])
               PROVE  EntryAt(i)'
    BY DEF EntriesInv
  <1> USE FeedAssumption
  <1>0. ServerTypes /\ SocketTypes /\ PageTypes
    BY DEF Types
  <1>1. /\ Len(sent) \in Nat /\ cursor \in Nat /\ cursor <= Len(sent) + 1 /\ Len(wire) \in Nat
        /\ since \in 0..cursor
        /\ \A k \in 1..Len(wire) : wire[k] \in Message
        /\ \A k \in 1..Len(sent) : sent[k] \in Message
    BY <1>0, WireNumbers DEF CursorInv, SocketTypes
  <1>2. Oldest \in Nat /\ Oldest > 0 /\ Oldest <= Len(sent) + 1 /\ Len(sent) + 1 - Oldest <= Capacity
    BY <1>1 DEF Oldest
  <1>3. Oldest <= Oldest' /\ \A k \in 1..Len(sent) : sent'[k] = sent[k]
    BY <1>0, SentGrows
  <1>4. Oldest' \in Int
    <2>1. sent' \in Seq(Message)
      BY <1>0, ServerSteps DEF ServerTypes, Publish, Insert, Broadcast, serverVars
    <2> QED BY <2>1 DEF Oldest
  <1>5. i \in Int /\ i > 0
    <2>1. since' \in Int /\ cursor' \in Int
      <3>1. Types'
        BY TypesKept
      <3> QED BY <3>1 DEF Types, SocketTypes
    <2> QED BY <1>2, <1>3, <1>4, <2>1
  <1>6. CASE UNCHANGED linkVars /\ logs' = logs
    <2>1. link = "streaming" /\ cursor' = cursor /\ since' = since /\ wire' = wire
      BY <1>6 DEF linkVars
    <2>2. i \in since..cursor - 1 /\ i \in 1..Len(sent) /\ i >= Oldest /\ sent'[i] = sent[i]
      BY <1>1, <1>2, <1>3, <1>4, <1>5, <2>1
    <2>3. EntryAt(i)
      BY <2>1, <2>2 DEF EntriesInv
    <2> QED BY <1>6, <2>1, <2>2, <2>3 DEF EntryAt
  <1>7. CASE Greet
    <2>1. link = "subscribed" /\ since' = since /\ cursor' = cursor
      BY <1>7 DEF Greet
    <2>2. since = cursor
      BY <2>1 DEF CursorInv
    <2> QED BY <1>1, <2>1, <2>2
  <1>8. CASE Forward
    <2>1. link = "streaming" /\ cursor <= Len(sent) /\ sent' = sent /\ since' = since /\ logs' = logs
      BY <1>8 DEF Forward, serverVars, pageVars
    <2>2. i >= Oldest
      BY <1>2, <1>3, <1>4, <1>5
    <2>3. CASE cursor < Oldest
      <3>1. cursor' = Oldest
        BY <1>8, <2>3 DEF Forward, Resume
      <3> QED BY <1>2, <1>5, <2>2, <3>1
    <2>4. CASE ~(cursor < Oldest)
      <3>1. cursor' = cursor + 1 /\ wire' = Append(wire, sent[cursor])
        BY <1>8, <2>4 DEF Forward
      <3>2. cursor \in 1..Len(sent) /\ sent[cursor] \in Message
        BY <1>1, <1>2, <2>1, <2>4
      <3>3. /\ Len(wire') = Len(wire) + 1 /\ wire'[Len(wire) + 1] = sent[cursor]
            /\ \A k \in 1..Len(wire) : wire'[k] = wire[k]
        BY <1>0, <1>1, <3>1, <3>2 DEF SocketTypes
      <3>4. CASE i = cursor
        <4>1. PICK k \in Nat : k = Len(wire) + 1
          BY <1>1
        <4>2. k \in 1..Len(wire') /\ wire'[k] = sent'[i] /\ Len(wire') - k < cursor' - i
          BY <1>1, <1>5, <2>1, <3>1, <3>3, <3>4, <4>1
        <4> QED BY <4>2 DEF EntryAt
      <3>5. CASE i # cursor
        <4>1. i \in since..cursor - 1
          BY <1>1, <1>5, <2>1, <3>1, <3>5
        <4>2. EntryAt(i)
          BY <2>1, <2>2, <4>1 DEF EntriesInv
        <4>3. ASSUME NEW k \in 1..Len(wire), wire[k] = sent[i], Len(wire) - k < cursor - i
              PROVE  k \in 1..Len(wire') /\ wire'[k] = sent'[i] /\ Len(wire') - k < cursor' - i
          BY <1>1, <1>5, <2>1, <3>1, <3>3, <4>3
        <4>4. ASSUME NEW p \in 1..Len(logs), logs[p] = sent[i][2], p + Len(wire) <= cursor - i
              PROVE  p \in 1..Len(logs') /\ logs'[p] = sent'[i][2] /\ p + Len(wire') <= cursor' - i
          BY <1>1, <1>5, <2>1, <3>1, <3>3, <4>4
        <4> QED BY <4>2, <4>3, <4>4 DEF EntryAt
      <3> QED BY <3>4, <3>5
    <2> QED BY <2>3, <2>4
  <1>9. CASE Deliver
    <2>1. link = "streaming" /\ cursor' = cursor /\ since' = since /\ sent' = sent
      BY <1>9 DEF Deliver, serverVars
    <2>2. i \in since..cursor - 1 /\ i \in 1..Len(sent) /\ i >= Oldest /\ IsEntry(sent[i])
      BY <1>1, <1>2, <1>3, <1>4, <1>5, <2>1
    <2>3. EntryAt(i)
      BY <2>1, <2>2 DEF EntriesInv
    <2>4. /\ Len(wire) \in Nat \ {0} /\ Len(wire') = Len(wire) - 1 /\ Head(wire) = wire[1]
          /\ wire[1] \in Message
          /\ \A j \in 1..Len(wire) - 1 : wire'[j] = wire[j + 1]
      BY <1>0, <1>9, WireMovesUp
    <2>5. cursor - i <= LogLimit /\ cursor - i \in Nat
      BY <1>1, <1>2, <2>2
    <2>6. CASE IsSnapshot(wire[1])
      <3>1. logs' = logs
        BY <1>9, <2>4, <2>6 DEF Deliver, IsSnapshot
      <3>2. ASSUME NEW k \in 1..Len(wire), wire[k] = sent[i], Len(wire) - k < cursor - i
            PROVE  \E q \in 1..Len(wire') : wire'[q] = sent'[i] /\ Len(wire') - q < cursor' - i
        <4>1. k # 1
          BY <2>2, <2>6, <3>2 DEF IsSnapshot, IsEntry
        <4>2. k - 1 \in 1..Len(wire') /\ wire'[k - 1] = sent'[i] /\ Len(wire') - (k - 1) < cursor' - i
          BY <1>1, <2>1, <2>4, <3>2, <4>1
        <4> QED BY <4>2
      <3>3. ASSUME NEW p \in 1..Len(logs), logs[p] = sent[i][2], p + Len(wire) <= cursor - i
            PROVE  p \in 1..Len(logs') /\ logs'[p] = sent'[i][2] /\ p + Len(wire') <= cursor' - i
        <4>1. Len(logs) \in Nat
          BY <1>0 DEF PageTypes
        <4> QED BY <1>1, <1>5, <2>1, <2>4, <3>1, <3>3, <4>1
      <3> QED BY <2>3, <3>2, <3>3 DEF EntryAt
    <2>7. CASE ~IsSnapshot(wire[1])
      <3>1. logs' = Kept(<<wire[1][2]>> \o logs)
        BY <1>9, <2>4, <2>7 DEF Deliver, IsSnapshot
      <3>2. wire[1][2] \in 1..MaxInserted /\ logs \in Seq(1..MaxInserted) /\ Len(logs) \in Nat
        BY <1>0, <2>4, <2>7, Messages DEF PageTypes
      <3>3. /\ 1 \in 1..Len(logs') /\ logs'[1] = wire[1][2]
            /\ \A p \in 1..Len(logs) : p < LogLimit => p + 1 \in 1..Len(logs') /\ logs'[p + 1] = logs[p]
        <4>1. LogLimit > 0
          OBVIOUS
        <4> QED BY <3>1, <3>2, <4>1, KeptAt
      <3>4. ASSUME NEW k \in 1..Len(wire), wire[k] = sent[i], Len(wire) - k < cursor - i
            PROVE  \/ \E q \in 1..Len(wire') : wire'[q] = sent'[i] /\ Len(wire') - q < cursor' - i
                   \/ \E p \in 1..Len(logs') : logs'[p] = sent'[i][2] /\ p + Len(wire') <= cursor' - i
        <4>1. CASE k = 1
          <5>1. logs'[1] = sent'[i][2]
            BY <2>1, <3>3, <3>4, <4>1
          <5>2. 1 + Len(wire') <= cursor' - i
            BY <1>1, <1>5, <2>1, <2>4, <3>4, <4>1
          <5> QED BY <3>3, <5>1, <5>2
        <4>2. CASE k # 1
          <5>1. k - 1 \in 1..Len(wire') /\ wire'[k - 1] = sent'[i] /\ Len(wire') - (k - 1) < cursor' - i
            BY <1>1, <2>1, <2>4, <3>4, <4>2
          <5> QED BY <5>1
        <4> QED BY <4>1, <4>2
      <3>5. ASSUME NEW p \in 1..Len(logs), logs[p] = sent[i][2], p + Len(wire) <= cursor - i
            PROVE  \E q \in 1..Len(logs') : logs'[q] = sent'[i][2] /\ q + Len(wire') <= cursor' - i
        <4>1. p < LogLimit
          BY <2>4, <2>5, <3>2, <3>5
        <4>2. p + 1 \in 1..Len(logs') /\ logs'[p + 1] = sent'[i][2]
          BY <2>1, <3>3, <3>5, <4>1
        <4>3. p + 1 + Len(wire') <= cursor' - i
          BY <1>1, <1>5, <2>1, <2>4, <3>2, <3>5
        <4> QED BY <4>2, <4>3
      <3> QED BY <2>3, <3>4, <3>5 DEF EntryAt
    <2> QED BY <2>6, <2>7
  <1>10. CASE Subscribe
    BY <1>10 DEF Subscribe
  <1>11. UNCHANGED pageVars \/ Polled => logs' = logs
    BY DEF pageVars, Polled
  <1> QED BY <1>6, <1>7, <1>8, <1>9, <1>10, <1>11, SocketSteps

-----------------------------------------------------------------------------
(***************************************************************************)
(* Theorems.                                                               *)
(***************************************************************************)
\* The inductive invariant of the feed holds in every reachable state.
THEOREM InductiveInvariant == Spec => []Inv
  <1>1. Inv /\ [Next]_vars => Inv'
    BY TypesKept, ServerKept, CursorKept, SnapshotsKept, EntriesKeptOnTheWay DEF Inv, Types
  <1> QED BY InvInit, <1>1, PTL DEF Spec

\* Every reachable state of the channel, the socket and the page is well typed.
THEOREM TypeCorrect == Spec => []TypeOK
  <1>1. Inv => TypeOK
    BY TypeParts DEF Inv
  <1> QED BY InductiveInvariant, <1>1, PTL

\* A page that has received everything shows the last snapshot broadcast or a
\* later one, whatever it has missed (dashboard.rs, websocket; api.ts,
\* onmessage).
THEOREM NewestIsShown == Spec => []QuietIsCurrent
  <1>1. Inv => QuietIsCurrent
    <2> SUFFICES ASSUME Inv, Quiet, ~late, NEW m \in ToSet(sent), m[1] = "snapshot"
                 PROVE  m[2] <= shown
      BY DEF QuietIsCurrent
    <2>1. PICK i \in DOMAIN sent : m = sent[i]
      BY DEF ToSet
    <2>2. link = "streaming" /\ cursor = Len(sent) + 1 /\ wire = <<>> /\ Len(wire) = 0
      BY DEF Quiet
    <2>3. DOMAIN sent = 1..Len(sent) /\ Len(sent) \in Nat
      BY DEF Inv, Types, ServerTypes
    <2>4. Reached(sent[i][2])
      BY <2>1, <2>2, <2>3 DEF Inv, SnapshotsInv, IsSnapshot
    <2> QED BY <2>1, <2>2, <2>4 DEF Reached, HasSnapshot
  <1> QED BY InductiveInvariant, <1>1, PTL

\* A page that has received everything has every entry broadcast since it
\* connected that the channel still keeps (dashboard.rs, websocket; api.ts,
\* onmessage).
THEOREM EntriesAreShown == Spec => []EntriesKept
  <1>1. Inv => EntriesKept
    <2> SUFFICES ASSUME Inv, Quiet, NEW i \in Oldest..Len(sent), i >= since, sent[i][1] = "log"
                 PROVE  sent[i][2] \in ToSet(logs)
      BY DEF EntriesKept
    <2>1. link = "streaming" /\ cursor = Len(sent) + 1 /\ wire = <<>> /\ Len(wire) = 0
      BY DEF Quiet
    <2>2. Len(sent) \in Nat /\ Oldest \in Int /\ since \in Int
      BY FeedAssumption DEF Inv, Types, ServerTypes, SocketTypes, Oldest
    <2>3. EntryAt(i)
      BY <2>1, <2>2 DEF Inv, EntriesInv, IsEntry
    <2>4. PICK p \in 1..Len(logs) : logs[p] = sent[i][2]
      BY <2>1, <2>3 DEF EntryAt
    <2>5. DOMAIN logs = 1..Len(logs)
      BY DEF Inv, Types, PageTypes
    <2> QED BY <2>4, <2>5 DEF ToSet
  <1> QED BY InductiveInvariant, <1>1, PTL
=============================================================================
