--------------------------------- MODULE Feed ---------------------------------
(***************************************************************************)
(* The way of snapshots and log entries from the server to the page: the   *)
(* worker that writes a snapshot and then broadcasts it (dashboard.rs:     *)
(* run), the handlers that insert a log entry and then broadcast it        *)
(* (logs.rs: record), the broadcast channel, which keeps the last Capacity *)
(* messages, the task of a socket that forwards them (dashboard.rs:        *)
(* websocket), and the service that shows them, and reads over REST when   *)
(* it starts and while it has no connection (api.ts).                      *)
(*                                                                         *)
(* A snapshot is the number it was published under, an entry its id.       *)
(***************************************************************************)
EXTENDS Integers, Sequences, FiniteSets, SequencesExt

CONSTANTS
    Capacity,      \* messages the channel keeps
    LogLimit,      \* entries the page keeps, and a read returns
    MaxWire,       \* messages on the way to the page, or being sent
    MaxPublished,  \* bound on the snapshots
    MaxInserted    \* bound on the entries

ASSUME FeedAssumption ==
    /\ Capacity \in Nat \ {0} /\ LogLimit \in Nat /\ Capacity <= LogLimit
    /\ MaxWire \in Nat \ {0} /\ MaxPublished \in Nat /\ MaxInserted \in Nat

VARIABLES
    published,  \* state.snapshot
    inserted,   \* system_events: the entries 1..inserted
    unsent,     \* messages that are yet to be broadcast
    sent,       \* all that was broadcast, in its order
    link,       \* how far the socket is
    cursor,     \* the task's place in sent
    since,      \* history: the place it started from
    wire,       \* messages from the task to the page
    start,      \* what start() has got of its answers, in sets
    poll,       \* the fallback's answer: in a set, once it is there
    polling,    \* the fallback has asked
    shown,      \* the snapshot the page shows; 0 is none yet
    late,       \* history: it came with an answer while there was a connection
    logs        \* the entries the page shows, the newest first

serverVars == <<published, inserted, unsent, sent>>
linkVars == <<link, cursor, since, wire>>
pollVars == <<poll, polling>>
pageVars == <<shown, late, logs>>
vars == <<serverVars, linkVars, start, pollVars, pageVars>>

Snapshot(n) == <<"snapshot", n>>
Entry(i) == <<"log", i>>
Message == ({"snapshot"} \X (0..MaxPublished)) \cup ({"log"} \X (1..MaxInserted))

\* idle: not started; starting: start() waits; down: no connection; open: the
\* page is connected; subscribed, streaming: how far the task is as well.
Link == {"idle", "starting", "down", "open", "subscribed", "streaming"}

Connected == link \in {"open", "subscribed", "streaming"}

Entries == UNION {[1..n -> 1..MaxInserted] : n \in 0..LogLimit}

TypeOK ==
    /\ published \in 0..MaxPublished
    /\ inserted \in 0..MaxInserted
    /\ unsent \subseteq Message
    /\ sent \in Seq(Message) /\ Len(sent) <= MaxPublished + MaxInserted
    /\ link \in Link
    /\ cursor \in 0..Len(sent) + 1 /\ since \in 0..cursor
    /\ wire \in Seq(Message) /\ Len(wire) <= MaxWire
    /\ start.logs \subseteq Entries /\ start.snapshot \subseteq 0..MaxPublished
    /\ poll \subseteq 0..MaxPublished /\ polling \in BOOLEAN
    /\ shown \in 0..MaxPublished /\ late \in BOOLEAN
    /\ logs \in Entries

NoAnswers == [logs |-> {}, snapshot |-> {}]

Init ==
    /\ published = 0 /\ inserted = 0 /\ unsent = {} /\ sent = <<>>
    /\ link = "idle" /\ cursor = 0 /\ since = 0 /\ wire = <<>>
    /\ start = NoAnswers
    /\ poll = {} /\ polling = FALSE
    /\ shown = 0 /\ late = FALSE /\ logs = <<>>

-----------------------------------------------------------------------------
(***************************************************************************)
(* The server: what there is to tell.                                      *)
(***************************************************************************)
\* The worker is one task: it broadcasts a snapshot before it writes the next.
Publish ==
    /\ published < MaxPublished
    /\ Snapshot(published) \notin unsent
    /\ published' = published + 1
    /\ unsent' = unsent \cup {Snapshot(published')}
    /\ UNCHANGED <<inserted, sent, linkVars, start, pollVars, pageVars>>

\* Handlers and the worker record side by side.
Insert ==
    /\ inserted < MaxInserted
    /\ inserted' = inserted + 1
    /\ unsent' = unsent \cup {Entry(inserted')}
    /\ UNCHANGED <<published, sent, linkVars, start, pollVars, pageVars>>

Broadcast ==
    /\ \E m \in unsent : sent' = Append(sent, m) /\ unsent' = unsent \ {m}
    /\ UNCHANGED <<published, inserted, linkVars, start, pollVars, pageVars>>

-----------------------------------------------------------------------------
(***************************************************************************)
(* The server: a socket's task.                                            *)
(***************************************************************************)
Subscribe ==
    /\ link = "open"
    /\ link' = "subscribed"
    /\ cursor' = Len(sent) + 1 /\ since' = cursor'
    /\ UNCHANGED <<serverVars, wire, start, pollVars, pageVars>>

\* Mutated form of First: a page gets its first snapshot when one is broadcast.
FirstOmitted == <<>>

\* What a page is sent first, read after the subscription.
First == <<Snapshot(published)>>

Greet ==
    /\ link = "subscribed"
    /\ link' = "streaming"
    /\ wire' = First
    /\ UNCHANGED <<serverVars, cursor, since, start, pollVars, pageVars>>

Oldest == IF Len(sent) > Capacity THEN Len(sent) - Capacity + 1 ELSE 1

\* Mutated form of Resync: the snapshots that were missed are not made up for.
ResyncNothing == <<>>

\* What a page is sent when its task has lagged.
Resync == <<Snapshot(published)>>

\* Mutated form of Resume: what is still there is skipped, too.
ResumeAtTail == Len(sent) + 1

\* Where the task goes on when it has lagged.
Resume == Oldest

Forward ==
    /\ link = "streaming"
    /\ cursor <= Len(sent) /\ Len(wire) < MaxWire
    /\ IF cursor < Oldest
       THEN wire' = wire \o Resync /\ cursor' = Resume
       ELSE wire' = Append(wire, sent[cursor]) /\ cursor' = cursor + 1
    /\ UNCHANGED <<serverVars, link, since, start, pollVars, pageVars>>

-----------------------------------------------------------------------------
(***************************************************************************)
(* The page: start, the socket, the fallback.                              *)
(***************************************************************************)
Start ==
    /\ link = "idle"
    /\ link' = "starting"
    /\ start' = NoAnswers
    /\ UNCHANGED <<serverVars, cursor, since, wire, pollVars, pageVars>>

\* The two reads are answered one before the other, the entries newest first.
ServeLogs ==
    /\ link = "starting" /\ start.logs = {}
    /\ start' = [start EXCEPT !.logs =
         {[k \in 1..(IF inserted < LogLimit THEN inserted ELSE LogLimit) |-> inserted + 1 - k]}]
    /\ UNCHANGED <<serverVars, linkVars, pollVars, pageVars>>

ServeDashboard ==
    /\ link = "starting" /\ start.snapshot = {}
    /\ start' = [start EXCEPT !.snapshot = {published}]
    /\ UNCHANGED <<serverVars, linkVars, pollVars, pageVars>>

\* Both are taken, or if one fails neither; then the page connects.
Started ==
    /\ link = "starting"
    /\ link' = "down"
    /\ \/ \E entries \in start.logs, n \in start.snapshot :
            logs' = entries /\ shown' = n /\ late' = FALSE
       \/ UNCHANGED pageVars
    /\ start' = NoAnswers
    /\ UNCHANGED <<serverVars, cursor, since, wire, pollVars>>

Open ==
    /\ link = "down"
    /\ link' = "open"
    /\ UNCHANGED <<serverVars, cursor, since, wire, start, pollVars, pageVars>>

\* Mutated form of Kept: every entry stays.
KeptAll(entries) == entries

\* The entries the page keeps.
Kept(entries) == SubSeq(entries, 1, IF Len(entries) < LogLimit THEN Len(entries) ELSE LogLimit)

\* onmessage
Deliver ==
    /\ Connected /\ wire # <<>>
    /\ LET m == Head(wire) IN
         IF m[1] = "snapshot"
         THEN shown' = m[2] /\ late' = FALSE /\ UNCHANGED logs
         ELSE logs' = Kept(<<m[2]>> \o logs) /\ UNCHANGED <<shown, late>>
    /\ wire' = Tail(wire)
    /\ UNCHANGED <<serverVars, link, cursor, since, start, pollVars>>

\* The connection is lost, with all that is on the wire, or the shell is left.
Lose ==
    /\ \/ Connected /\ link' = "down"
       \/ (Connected \/ link = "down") /\ link' = "idle"
    /\ cursor' = 0 /\ since' = 0 /\ wire' = <<>>
    /\ UNCHANGED <<serverVars, start, pollVars, pageVars>>

\* The interval, as long as there is no connection.
Poll ==
    /\ link = "down" /\ ~polling
    /\ polling' = TRUE
    /\ UNCHANGED <<serverVars, linkVars, start, poll, pageVars>>

ServePoll ==
    /\ polling /\ poll = {}
    /\ poll' = {published}
    /\ UNCHANGED <<serverVars, linkVars, start, polling, pageVars>>

\* The answer, or an error, which is ignored.
Polled ==
    /\ polling
    /\ \/ \E n \in poll : shown' = n /\ late' = (link # "down") /\ UNCHANGED logs
       \/ UNCHANGED pageVars
    /\ poll' = {} /\ polling' = FALSE
    /\ UNCHANGED <<serverVars, linkVars, start>>

-----------------------------------------------------------------------------
Next ==
    \/ Publish \/ Insert \/ Broadcast
    \/ Subscribe \/ Greet \/ Forward
    \/ Start \/ ServeLogs \/ ServeDashboard \/ Started
    \/ Open \/ Deliver \/ Lose
    \/ Poll \/ ServePoll \/ Polled

Spec == Init /\ [][Next]_vars

\* What is recorded is broadcast, a socket's task runs, and messages arrive.
Fairness ==
    /\ WF_vars(Broadcast)
    /\ WF_vars(Subscribe \/ Greet \/ Forward)
    /\ WF_vars(Deliver)

LiveSpec == Spec /\ Fairness

-----------------------------------------------------------------------------
\* All that was broadcast has arrived.
Quiet == link = "streaming" /\ cursor = Len(sent) + 1 /\ wire = <<>>

\* When all has arrived, the page shows the snapshot that was broadcast last or
\* a later one, however far behind it has been and whatever it missed.  Exempt
\* is a page to which the fallback's answer came after the connection.
QuietIsCurrent ==
    Quiet /\ ~late => \A m \in ToSet(sent) : m[1] = "snapshot" => m[2] <= shown

\* When all has arrived, the page has every entry of those the channel still
\* keeps that was broadcast since it connected.
EntriesKept ==
    Quiet => \A i \in Oldest..Len(sent) :
               i >= since /\ sent[i][1] = "log" => sent[i][2] \in ToSet(logs)

\* A page that keeps its connection gets to see every snapshot or a later one,
\* with the same exemption.
CatchesUp ==
    \A n \in 1..MaxPublished :
        (link = "streaming" /\ published = n) ~> (shown >= n \/ late \/ link # "streaming")
=============================================================================
