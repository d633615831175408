----------------------------- MODULE RelayControl -----------------------------
(***************************************************************************)
(* The relay control of the streaming controller: the HTTP handlers that   *)
(* start, stop and restart the relay (streaming.rs), the handlers that     *)
(* save and delete destinations (destinations.rs), the two-second worker   *)
(* that maps telemetry and restores a lost configuration (dashboard.rs),   *)
(* and the controller's boot, graceful shutdown and crash (main.rs).  They *)
(* share one tokio mutex, state.control, the relay flag, the list of       *)
(* active destinations, the destinations table, and MediaMTX, the          *)
(* external engine that every one of them configures with a PATCH.         *)
(*                                                                         *)
(* A forwarding list is a function from each listed destination to its     *)
(* position, counted from 1 as MediaMTX counts it; <<>> is the empty list. *)
(*                                                                         *)
(* Each await of the code is a step boundary, except where nothing shared  *)
(* can change in between: a database statement is one step, an HTTP call   *)
(* is one step at its answer, and a transaction is one step at its commit. *)
(***************************************************************************)
EXTENDS Naturals, FiniteSets, Sequences, SequencesExt

CONSTANTS
    Client,           \* HTTP requests that may be in progress at a time
    Worker,           \* the task running dashboard::run
    Shutdown,         \* the graceful-shutdown future of main
    Nobody,           \* the control mutex is free
    Dest,             \* destination ids
    MaxDestinations,  \* 20 in destinations.rs
    RestoreEvery,     \* 5 in dashboard.rs: ticks between restore attempts
    MaxAbandoned      \* bound: PATCHes and edits given up on, still on their way

ASSUME ProcessAssumption ==
    /\ Worker # Shutdown
    /\ {Worker, Shutdown} \cap Client = {}
    /\ Nobody \notin Client \cup {Worker, Shutdown}

ASSUME BoundAssumption ==
    /\ MaxDestinations \in Nat /\ MaxDestinations >= 2
    /\ RestoreEvery \in Nat \ {0}
    /\ MaxAbandoned \in Nat

ASSUME StatusAssumption ==
    Dest \cap {"unknown", "waiting", "pending"} = {}

VARIABLES
    proc,          \* where the controller process is in its life
    rows,          \* the destinations table, in creation order
    unsettled,     \* edits of dropped handlers that may still take effect
    outdated,      \* history: which lists such an edit has come after
    relayEnabled,  \* AppState.relay_enabled
    active,        \* AppState.active_destinations
    holder,        \* who holds AppState.control
    queue,         \* who waits for it, in order of arrival
    pc,            \* the step each process is about to take
    op,            \* the operation each process is carrying out
    call,          \* the list in the PATCH of the process at a patch step
    tick,          \* the worker's ticks, modulo RestoreEvery
    sample,        \* what the worker's current tick has sampled
    view,          \* the relay status the current tick gives each destination
    engine,        \* MediaMTX: the forwarding list it runs
    engineUp,      \* MediaMTX: it answers
    obs,           \* MediaMTX: OBS publishes to it
    abandoned,     \* lists of PATCHes given up on that MediaMTX may still apply
    strayed        \* history: such a PATCH was the last to set engine

editVars    == <<unsettled, outdated>>
controlVars == <<relayEnabled, active>>
lockVars    == <<holder, queue, pc, op, call>>
workerVars  == <<tick, sample, view>>
engineVars  == <<engine, engineUp, obs, abandoned, strayed>>
vars == <<proc, rows, editVars, controlVars, lockVars, workerVars, engineVars>>

Process == Client \cup {Worker, Shutdown}

(***************************************************************************)
(* Destinations and forwarding lists.                                      *)
(*                                                                         *)
(* A row's key is "none", "usable", or "unusable": an encrypted key from   *)
(* which no forwarding URL can be made, because ENCRYPTION_KEY changed     *)
(* since it was written or because the row was seeded with a bad URL.      *)
(***************************************************************************)
Key == {"none", "usable", "unusable"}
Row == [id: Dest, enabled: BOOLEAN, key: Key]

IsList(list) == \E ids \in SUBSET Dest : list \in [ids -> Nat]

Ids(rs) == {rs[i].id : i \in DOMAIN rs}
EnabledRows(rs) == {i \in DOMAIN rs : rs[i].enabled}

\* The list apply(true) builds: the enabled rows in the order rows() reads them.
ForwardList(rs) ==
    [d \in {rs[i].id : i \in EnabledRows(rs)} |->
        Cardinality({j \in EnabledRows(rs) :
                        \E i \in EnabledRows(rs) : rs[i].id = d /\ j <= i})]

\* apply(true) goes on only if every enabled row has a key that decrypts and
\* makes a URL, and there is at least one.
CanForward(rs) ==
    /\ EnabledRows(rs) # {}
    /\ \A i \in EnabledRows(rs) : rs[i].key = "usable"

Seed(d, k) == [id |-> d, enabled |-> FALSE, key |-> k]

NoSample == [online |-> FALSE, obs |-> FALSE, relay |-> FALSE]
Status == Dest \cup {"unknown", "waiting", "pending"}

Proc == {"down", "resetting", "reading", "seeding", "serving",
         "stopping", "draining", "draining_dirty", "stopped"}
Op == {"none", "start", "stop", "restart", "edit", "poll", "shutdown"}

PatchSteps == {"on_patch", "off_patch", "quit_patch"}
LockedSteps == PatchSteps \cup
    {"on_rows", "off_rows", "check", "commit", "poll_rows", "poll_forwards", "poll_end"}
Step == LockedSteps \cup {"idle", "queued"}

TypeOK ==
    /\ proc \in Proc
    /\ rows \in Seq(Row)
    /\ unsettled \subseteq {"create", "update", "delete"}
    /\ outdated \subseteq {"call", "active"}
    /\ relayEnabled \in BOOLEAN
    /\ IsList(active)
    /\ holder \in Process \cup {Nobody}
    /\ queue \in Seq(Process)
    /\ pc \in [Process -> Step]
    /\ op \in [Process -> Op]
    /\ IsList(call)
    /\ tick \in 0..(RestoreEvery - 1)
    /\ sample \in [online: BOOLEAN, obs: BOOLEAN, relay: BOOLEAN]
    /\ view \in UNION {[ids -> Status] : ids \in SUBSET Dest}
    /\ IsList(engine)
    /\ engineUp \in BOOLEAN
    /\ obs \in BOOLEAN
    /\ \A list \in abandoned : IsList(list)
    /\ strayed \in BOOLEAN

Init ==
    /\ proc = "down"
    /\ rows = <<>>
    /\ unsettled = {} /\ outdated = {}
    /\ relayEnabled = FALSE
    /\ active = <<>>
    /\ holder = Nobody
    /\ queue = <<>>
    /\ pc = [p \in Process |-> "idle"]
    /\ op = [p \in Process |-> "none"]
    /\ call = <<>>
    /\ tick = 0
    /\ sample = NoSample
    /\ view = <<>>
    /\ engine = <<>>
    /\ engineUp = FALSE
    /\ obs = FALSE
    /\ abandoned = {}
    /\ strayed = FALSE

-----------------------------------------------------------------------------
(***************************************************************************)
(* The control mutex and the steps of its holder.                          *)
(***************************************************************************)
\* tokio's mutex is fair: it goes to the process that has waited longest.
Enqueue(p, o) ==
    /\ pc[p] = "idle"
    /\ pc' = [pc EXCEPT ![p] = "queued"]
    /\ op' = [op EXCEPT ![p] = o]
    /\ queue' = Append(queue, p)
    /\ UNCHANGED <<holder, call>>

FirstStep(o) ==
    CASE o = "start"    -> "on_rows"
      [] o = "edit"     -> "check"
      [] o = "poll"     -> "poll_rows"
      [] o = "shutdown" -> "quit_patch"
      [] OTHER          -> "off_rows"

\* Mutated form of Free: handlers that take no lock.
FreeAlways == TRUE

Free == holder = Nobody

Grant ==
    /\ Free
    /\ queue # <<>>
    /\ holder' = Head(queue)
    /\ queue' = Tail(queue)
    /\ pc' = [pc EXCEPT ![Head(queue)] = FirstStep(op[Head(queue)])]
    /\ UNCHANGED <<proc, rows, editVars, controlVars, op, call, workerVars, engineVars>>

\* The holder's guard is dropped when its handler, or its block, is left.
Release(p) ==
    /\ holder' = Nobody
    /\ pc' = [pc EXCEPT ![p] = "idle"]
    /\ op' = [op EXCEPT ![p] = "none"]
    /\ call' = <<>>
    /\ sample' = IF p = Worker THEN NoSample ELSE sample
    /\ view' = IF p = Worker THEN <<>> ELSE view
    /\ UNCHANGED <<queue, tick>>

MayAbandon == Cardinality(abandoned) + Cardinality(unsettled) \in 0..(MaxAbandoned - 1)

\* Nobody waits any longer for the answer to the PATCH in flight.  If it has
\* left, MediaMTX may still apply it.
GiveUp(list) ==
    /\ \/ UNCHANGED abandoned
       \/ /\ engineUp
          /\ MayAbandon
          /\ abandoned' = abandoned \cup {list}
    /\ UNCHANGED <<engine, engineUp, obs, strayed>>

-----------------------------------------------------------------------------
(***************************************************************************)
(* streaming.rs: apply, and start, stop and restart around it.             *)
(***************************************************************************)
ApplyReads(p) ==
    /\ \/ /\ pc[p] = "on_rows"
          /\ CanForward(rows)
          /\ pc' = [pc EXCEPT ![p] = "on_patch"]
          /\ call' = ForwardList(rows)
          /\ outdated' = outdated \ {"call"}
       \/ /\ pc[p] = "off_rows"
          /\ pc' = [pc EXCEPT ![p] = "off_patch"]
          /\ call' = <<>>
          /\ UNCHANGED outdated
    /\ UNCHANGED <<proc, rows, unsettled, controlVars, holder, queue, op, workerVars,
                   engineVars>>

\* The database fails, or the rows cannot all be forwarded.
ApplyRefuses(p) ==
    /\ pc[p] \in {"on_rows", "off_rows"}
    /\ Release(p)
    /\ UNCHANGED <<proc, rows, editVars, controlVars, engineVars>>

\* MediaMTX has acknowledged the PATCH: it runs the list.
EngineRuns(list) ==
    /\ engineUp
    /\ engine' = list
    /\ strayed' = FALSE
    /\ UNCHANGED <<engineUp, obs, abandoned>>

ApplyOn(p) ==
    /\ pc[p] = "on_patch"
    /\ EngineRuns(call)
    /\ active' = call
    /\ relayEnabled' = TRUE
    /\ outdated' = IF "call" \in outdated THEN {"active"} ELSE {}
    /\ Release(p)
    /\ UNCHANGED <<proc, rows, unsettled>>

\* stop is over; restart goes on with a second apply, as start does.
ApplyOff(p) ==
    /\ pc[p] = "off_patch"
    /\ EngineRuns(call)
    /\ active' = call
    /\ relayEnabled' = FALSE
    /\ outdated' = {}
    /\ IF op[p] = "restart"
       THEN /\ pc' = [pc EXCEPT ![p] = "on_rows"]
            /\ op' = [op EXCEPT ![p] = "start"]
            /\ call' = <<>>
            /\ UNCHANGED <<holder, queue, workerVars>>
       ELSE Release(p)
    /\ UNCHANGED <<proc, rows, unsettled>>

\* Mutated form of ConfigureFails: stop takes the engine's failure for success.
ConfigureFailsUnnoticed(p) ==
    /\ pc[p] \in {"on_patch", "off_patch"}
    /\ GiveUp(call)
    /\ Release(p)
    /\ active' = IF pc[p] = "off_patch" THEN <<>> ELSE active
    /\ relayEnabled' = IF pc[p] = "off_patch" THEN FALSE ELSE relayEnabled
    /\ UNCHANGED <<proc, rows, editVars>>

\* Mutated form of ConfigureFails: the list is stored before it is acknowledged.
ConfigureFailsStored(p) ==
    /\ pc[p] \in {"on_patch", "off_patch"}
    /\ GiveUp(call)
    /\ active' = call
    /\ Release(p)
    /\ UNCHANGED <<proc, rows, editVars, relayEnabled>>

\* Mutated form of ConfigureFails: apply tries again until the engine answers.
ConfigureFailsRetried(p) ==
    /\ pc[p] \in {"on_patch", "off_patch"}
    /\ GiveUp(call)
    /\ pc' = [pc EXCEPT ![p] = IF @ = "on_patch" THEN "on_rows" ELSE "off_rows"]
    /\ call' = <<>>
    /\ UNCHANGED <<proc, rows, editVars, controlVars, holder, queue, op, workerVars>>

\* An error answer, no connection, or no answer within the client's timeout.
ConfigureFails(p) ==
    /\ pc[p] \in {"on_patch", "off_patch"}
    /\ GiveUp(call)
    /\ Release(p)
    /\ UNCHANGED <<proc, rows, editVars, controlVars>>

-----------------------------------------------------------------------------
(***************************************************************************)
(* destinations.rs: save and delete.                                       *)
(***************************************************************************)
\* Mutated form of EditAllowed: destinations can change during a broadcast.
EditAllowedAlways == TRUE

EditAllowed == ~relayEnabled

EditChecks(c) ==
    /\ pc[c] = "check"
    /\ IF EditAllowed
       THEN /\ pc' = [pc EXCEPT ![c] = "commit"]
            /\ UNCHANGED <<holder, queue, op, call, workerVars>>
       ELSE Release(c)
    /\ UNCHANGED <<proc, rows, editVars, controlVars, engineVars>>

\* The key save stores: cleared, replaced, or kept; a kept key that was
\* unusable becomes usable if a good URL is what it lacked.
SavedKey(old) == {"none", "usable", old}

SavedRow(d, old) ==
    {r \in [id: {d}, enabled: BOOLEAN, key: SavedKey(old)] :
        ~(r.enabled /\ r.key = "none")}

\* Mutated form of HasRoom: the limit is off by one.
HasRoomForOneMore == Len(rows) <= MaxDestinations

HasRoom == Len(rows) < MaxDestinations

UpdateRow ==
    \E i \in DOMAIN rows : \E r \in SavedRow(rows[i].id, rows[i].key) :
        rows' = [rows EXCEPT ![i] = r]

DeleteRow == \E i \in DOMAIN rows : rows' = RemoveAt(rows, i)

SaveCreate(c) ==
    /\ pc[c] = "commit"
    /\ HasRoom
    /\ \E d \in Dest \ Ids(rows) : \E r \in SavedRow(d, "none") :
            rows' = Append(rows, r)
    /\ Release(c)
    /\ UNCHANGED <<proc, editVars, controlVars, engineVars>>

SaveUpdate(c) ==
    /\ pc[c] = "commit"
    /\ UpdateRow
    /\ Release(c)
    /\ UNCHANGED <<proc, editVars, controlVars, engineVars>>

Delete(c) ==
    /\ pc[c] = "commit"
    /\ DeleteRow
    /\ Release(c)
    /\ UNCHANGED <<proc, editVars, controlVars, engineVars>>

\* No such row, no room, no key for an enabled row, or the database fails:
\* the transaction rolls back.
EditRefused(c) ==
    /\ pc[c] = "commit"
    /\ Release(c)
    /\ UNCHANGED <<proc, rows, editVars, controlVars, engineVars>>

\* The handler is dropped with its DELETE or COMMIT on the way, which the
\* database may settle later; a create has found room by then.
Unsettle ==
    /\ \/ UNCHANGED unsettled
       \/ /\ MayAbandon
          /\ \E kind \in {"create", "update", "delete"} :
                /\ kind = "create" => HasRoom
                /\ unsettled' = unsettled \cup {kind}
    /\ UNCHANGED outdated

\* The lists made from the table that are sent or have been.
InUse ==
    {list \in {"call", "active"} :
        IF list = "call" THEN \E p \in Process : pc[p] = "on_patch" ELSE relayEnabled}

\* The database settles it, whoever holds the mutex by now.
Settles(kind) ==
    /\ kind \in unsettled
    /\ unsettled' = unsettled \ {kind}
    /\ outdated' = InUse
    /\ UNCHANGED <<proc, controlVars, lockVars, workerVars, engineVars>>

\* A row is as old as its transaction: it may come before later ones.
LateCreate ==
    /\ Settles("create")
    /\ \E d \in Dest \ Ids(rows), i \in 1..(Len(rows) + 1) :
            \E r \in SavedRow(d, "none") : rows' = InsertAt(rows, i, r)

LateUpdate == Settles("update") /\ UpdateRow

LateDelete == Settles("delete") /\ DeleteRow

-----------------------------------------------------------------------------
(***************************************************************************)
(* HTTP requests.  The server accepts them until the shutdown future ends; *)
(* one accepted before may still be at its session check, and reach the    *)
(* mutex only while connections drain.                                     *)
(***************************************************************************)
Arrive(c) ==
    /\ proc \in {"serving", "stopping", "draining", "draining_dirty"}
    /\ \E o \in {"start", "stop", "restart", "edit"} : Enqueue(c, o)
    /\ UNCHANGED <<proc, rows, editVars, controlVars, workerVars, engineVars>>

\* The client goes away and the server drops the handler where it waits.
CancelQueued(c) ==
    /\ \E i \in DOMAIN queue : queue[i] = c /\ queue' = RemoveAt(queue, i)
    /\ pc' = [pc EXCEPT ![c] = "idle"]
    /\ op' = [op EXCEPT ![c] = "none"]
    /\ UNCHANGED <<proc, rows, editVars, controlVars, holder, call, workerVars, engineVars>>

CancelHolding(c) ==
    /\ pc[c] \in LockedSteps
    /\ IF pc[c] \in PatchSteps THEN GiveUp(call) ELSE UNCHANGED engineVars
    /\ IF pc[c] = "commit" THEN Unsettle ELSE UNCHANGED editVars
    /\ Release(c)
    /\ UNCHANGED <<proc, rows, controlVars>>

-----------------------------------------------------------------------------
(***************************************************************************)
(* dashboard.rs: one tick of run.                                          *)
(***************************************************************************)
\* Mutated form of NextTick: the counter never comes round.
NextTickUnbounded == tick + 1

NextTick == (tick + 1) % RestoreEvery

\* path() answers (online) or fails; the relay flag is read, then the task
\* queues for the mutex.
Poll ==
    /\ proc = "serving"
    /\ \E online \in {engineUp, FALSE} :
            sample' = [online |-> online, obs |-> online /\ obs, relay |-> relayEnabled]
    /\ tick' = NextTick
    /\ Enqueue(Worker, "poll")
    /\ UNCHANGED <<proc, rows, editVars, controlVars, view, engineVars>>

\* Mutated form of FlagUnderLock: the flag read before the lock is used.
FlagBeforeLock == sample.relay

FlagUnderLock == relayEnabled

\* Under the mutex the flag is read again, then the rows.
PollRows ==
    /\ pc[Worker] = "poll_rows"
    /\ sample' = [sample EXCEPT !.relay = FlagUnderLock]
    /\ pc' = [pc EXCEPT ![Worker] = "poll_forwards"]
    /\ UNCHANGED <<proc, rows, editVars, controlVars, holder, queue, op, call, tick, view,
                   engineVars>>

\* The database fails: no statuses and no restore on this tick.
PollRowsFail ==
    /\ pc[Worker] = "poll_rows"
    /\ Release(Worker)
    /\ UNCHANGED <<proc, rows, editVars, controlVars, engineVars>>

\* What forwards() answers: nothing while the live path has no publisher.
Answer == IF obs THEN engine ELSE <<>>

\* Mutated form of PositionOf: the engine's positions are taken to start at 0.
PositionFromZero(d) == active[d] - 1

PositionOf(d) == active[d]

\* The status of row d: that of the forwarder at the position of d in the
\* active list, named here by the destination it belongs to.
StatusOf(d, known, answer) ==
    LET found == {e \in DOMAIN answer : d \in DOMAIN active /\ answer[e] = PositionOf(d)}
    IN  IF ~known THEN "unknown"
        ELSE IF ~sample.obs THEN "waiting"
        ELSE IF found = {} THEN "pending"
        ELSE CHOOSE e \in found : TRUE

MappedRows ==
    IF sample.relay THEN {rows[i].id : i \in EnabledRows(rows)} ELSE {}

\* Mutated form of RestoreDue: a failed answer is taken for the lost list.
RestoreDueUnknown(known) ==
    sample.relay /\ sample.obs /\ ~known /\ tick = 0

RestoreDue(known) ==
    sample.relay /\ sample.obs /\ known /\ Answer = <<>> /\ tick = 0

\* forwards() is answered (known) or fails, the statuses are mapped, and an
\* empty answer on a restoring tick leads to apply(true).
PollForwards ==
    /\ pc[Worker] = "poll_forwards"
    /\ \E known \in {sample.online /\ engineUp, FALSE} :
        /\ view' = [d \in MappedRows |-> StatusOf(d, known, Answer)]
        /\ pc' = [pc EXCEPT ![Worker] = IF RestoreDue(known) THEN "on_rows" ELSE "poll_end"]
    /\ UNCHANGED <<proc, rows, editVars, controlVars, holder, queue, op, call, tick, sample,
                   engineVars>>

PollEnd ==
    /\ pc[Worker] = "poll_end"
    /\ Release(Worker)
    /\ UNCHANGED <<proc, rows, editVars, controlVars, engineVars>>

-----------------------------------------------------------------------------
(***************************************************************************)
(* main.rs: boot, graceful shutdown, crash.                                *)
(***************************************************************************)
\* All that lives in the process is lost with it; the database has settled what
\* it was sent before the next process looks.
Reset ==
    /\ unsettled' = {} /\ outdated' = {}
    /\ relayEnabled' = FALSE
    /\ active' = <<>>
    /\ holder' = Nobody
    /\ queue' = <<>>
    /\ pc' = [p \in Process |-> "idle"]
    /\ op' = [p \in Process |-> "none"]
    /\ call' = <<>>
    /\ tick' = 0
    /\ sample' = NoSample
    /\ view' = <<>>

\* The container starts again, perhaps with another ENCRYPTION_KEY: which of
\* the stored keys decrypt may have changed.
Boot ==
    /\ proc \in {"down", "stopped"}
    /\ proc' = "resetting"
    /\ \E key \in [DOMAIN rows -> Key] :
        /\ \A i \in DOMAIN rows : key[i] = "none" <=> rows[i].key = "none"
        /\ rows' = [i \in DOMAIN rows |-> [rows[i] EXCEPT !.key = key[i]]]
    /\ UNCHANGED <<editVars, controlVars, lockVars, workerVars, engineVars>>

BootReset ==
    /\ proc = "resetting"
    /\ EngineRuns(<<>>)
    /\ proc' = "reading"
    /\ UNCHANGED <<rows, editVars, controlVars, lockVars, workerVars>>

\* The process exits: the engine did not acknowledge the empty list.
BootResetFails ==
    /\ proc = "resetting"
    /\ GiveUp(<<>>)
    /\ proc' = "down"
    /\ UNCHANGED <<rows, editVars, controlVars, lockVars, workerVars>>

\* An empty table is seeded with two disabled rows, one insert each.
BootRead ==
    /\ proc = "reading"
    /\ \/ rows # <<>> /\ proc' = "serving" /\ UNCHANGED rows
       \/ /\ rows = <<>>
          /\ proc' = "seeding"
          /\ \E d \in Dest, k \in Key : rows' = <<Seed(d, k)>>
    /\ UNCHANGED <<editVars, controlVars, lockVars, workerVars, engineVars>>

BootSeed ==
    /\ proc = "seeding"
    /\ proc' = "serving"
    /\ \E d \in Dest \ Ids(rows), k \in Key : rows' = Append(rows, Seed(d, k))
    /\ UNCHANGED <<editVars, controlVars, lockVars, workerVars, engineVars>>

\* SIGTERM: the worker is aborted, wherever it waits, and the shutdown future
\* queues for the mutex.
Sigterm ==
    /\ proc = "serving"
    /\ proc' = "stopping"
    /\ pc' = [pc EXCEPT ![Worker] = "idle", ![Shutdown] = "queued"]
    /\ op' = [op EXCEPT ![Worker] = "none", ![Shutdown] = "shutdown"]
    /\ \/ pc[Worker] # "queued" /\ queue' = Append(queue, Shutdown)
       \/ \E i \in DOMAIN queue :
            queue[i] = Worker /\ queue' = Append(RemoveAt(queue, i), Shutdown)
    /\ holder' = IF holder = Worker THEN Nobody ELSE holder
    /\ call' = IF holder = Worker THEN <<>> ELSE call
    /\ sample' = NoSample
    /\ view' = <<>>
    /\ IF pc[Worker] \in PatchSteps THEN GiveUp(call) ELSE UNCHANGED engineVars
    /\ UNCHANGED <<rows, editVars, controlVars, tick>>

\* The shutdown future empties the engine's list and leaves the flag alone.
\* Its guard is dropped and open connections drain.
ShutdownConfigures ==
    /\ pc[Shutdown] = "quit_patch"
    /\ EngineRuns(<<>>)
    /\ proc' = "draining"
    /\ Release(Shutdown)
    /\ UNCHANGED <<rows, editVars, controlVars>>

ShutdownConfigureFails ==
    /\ pc[Shutdown] = "quit_patch"
    /\ GiveUp(<<>>)
    /\ proc' = "draining_dirty"
    /\ Release(Shutdown)
    /\ UNCHANGED <<rows, editVars, controlVars>>

\* serve() returns when the last request in progress has been answered.
Exit ==
    /\ proc \in {"draining", "draining_dirty"}
    /\ \A c \in Client : pc[c] = "idle"
    /\ proc' = IF proc = "draining" THEN "stopped" ELSE "down"
    /\ Reset
    /\ UNCHANGED <<rows, engineVars>>

\* At any await, and where boot gives up on the database.
Crash ==
    /\ proc \notin {"down", "stopped"}
    /\ proc' = "down"
    /\ Reset
    /\ IF \E p \in Process : pc[p] \in PatchSteps
       THEN GiveUp(call) ELSE UNCHANGED engineVars
    /\ UNCHANGED rows

-----------------------------------------------------------------------------
(***************************************************************************)
(* MediaMTX and OBS, external: seen only through the calls above.          *)
(***************************************************************************)
\* A PATCH that its caller gave up on is applied all the same.
LateApply ==
    /\ engineUp
    /\ \E list \in abandoned :
        /\ abandoned' = abandoned \ {list}
        /\ engine' = list
    /\ strayed' = TRUE
    /\ UNCHANGED <<proc, rows, editVars, controlVars, lockVars, workerVars, engineUp, obs>>

\* A restarted engine has the forwarding list of its file: none.
EngineStops ==
    /\ engineUp
    /\ engineUp' = FALSE
    /\ engine' = <<>>
    /\ obs' = FALSE
    /\ abandoned' = {}
    /\ strayed' = FALSE
    /\ UNCHANGED <<proc, rows, editVars, controlVars, lockVars, workerVars>>

EngineStarts ==
    /\ ~engineUp
    /\ engineUp' = TRUE
    /\ UNCHANGED <<proc, rows, editVars, controlVars, lockVars, workerVars,
                   engine, obs, abandoned, strayed>>

ObsToggles ==
    /\ engineUp
    /\ obs' = ~obs
    /\ UNCHANGED <<proc, rows, editVars, controlVars, lockVars, workerVars,
                   engine, engineUp, abandoned, strayed>>

-----------------------------------------------------------------------------
Apply(p) == ApplyReads(p) \/ ApplyRefuses(p) \/ ApplyOn(p) \/ ApplyOff(p) \/ ConfigureFails(p)

Edit(c) == EditChecks(c) \/ SaveCreate(c) \/ SaveUpdate(c) \/ Delete(c) \/ EditRefused(c)

LateEdit == LateCreate \/ LateUpdate \/ LateDelete

Request(c) == Apply(c) \/ Edit(c)

WorkerStep == Poll \/ PollRows \/ PollRowsFail \/ PollForwards \/ PollEnd \/ Apply(Worker)

ShutdownStep == ShutdownConfigures \/ ShutdownConfigureFails

Life == Boot \/ BootReset \/ BootResetFails \/ BootRead \/ BootSeed \/ Sigterm \/ Exit \/ Crash

Engine == LateApply \/ EngineStops \/ EngineStarts \/ ObsToggles

Next ==
    \/ Grant
    \/ \E c \in Client : Arrive(c) \/ Request(c) \/ CancelQueued(c) \/ CancelHolding(c)
    \/ LateEdit
    \/ WorkerStep
    \/ ShutdownStep
    \/ Life
    \/ Engine

Spec == Init /\ [][Next]_vars

\* The runtime polls every task, the mutex is handed on, every HTTP call ends
\* (4 s timeout) and so does every statement; the timer ticks.  Nothing makes
\* a request arrive, a client leave, an engine restart or a process boot.
Fairness ==
    /\ WF_vars(Grant)
    /\ \A c \in Client : WF_vars(Request(c))
    /\ WF_vars(WorkerStep)
    /\ WF_vars(ShutdownStep)

LiveSpec == Spec /\ Fairness

-----------------------------------------------------------------------------
(***************************************************************************)
(* Properties.                                                             *)
(***************************************************************************)
\* The controller has reset the engine and has not exited since.
Controlling == proc \notin {"down", "resetting", "stopped"}

\* With the relay on, the active list, by which statuses are mapped to
\* destinations, is the list the table gives now, every row of it still
\* usable, unless an edit whose handler was dropped has taken effect after the
\* list was read; with the relay off it is empty.
ActiveIsEnabledRows ==
    IF relayEnabled
    THEN "active" \in outdated \/ (CanForward(rows) /\ active = ForwardList(rows))
    ELSE active = <<>>

\* Unless a request given up on was the last to reach it, MediaMTX forwards to
\* nothing or to exactly the active list: to nothing after a stop.
EngineFollows ==
    Controlling /\ ~strayed => engine \in {<<>>, active}

\* Destinations are distinct, no more beyond MaxDestinations than creates that
\* outlived their handlers, and an enabled one has a key, so apply's "needs a
\* stream key" error is never reached.
TableSound ==
    /\ Len(rows) <= MaxDestinations + MaxAbandoned
    /\ \A i, j \in DOMAIN rows : rows[i].id = rows[j].id => i = j
    /\ \A i \in DOMAIN rows : rows[i].enabled => rows[i].key # "none"

\* The relay comes on, or, since SIGTERM or at boot, the engine forwards again.
Revived ==
    \/ ~relayEnabled /\ relayEnabled'
    \/ proc # "serving" /\ engine = <<>> /\ engine' # <<>> /\ ~strayed'

\* Only a client's start, or the second half of its restart, turns the relay
\* on: the worker's restore never brings back a relay stopped meanwhile.  Nor,
\* unless a request given up on takes effect, does anything else make the engine
\* forward again once the shutdown has emptied its list: the worker is gone by
\* then, wherever it was aborted, in the queue for the mutex or with its restore.
OnlyStartEnables ==
    [][Revived => \E c \in Client : holder = c /\ op[c] = "start"]_vars

\* The status the dashboard shows for a destination is that of its own
\* forwarder, never of the one at a neighbouring position.
StatusOfOwnForwarder ==
    [][view' # view /\ ~strayed =>
        \A d \in DOMAIN view' : view'[d] \in Dest => view'[d] = d]_vars

\* While the controller serves with the relay off, after a stop or a failed
\* start or restart, the engine forwards to nothing.  The code does not ensure
\* this: see FailedStartStaysStopped in the README.
FailedStartStaysStopped ==
    proc = "serving" /\ ~relayEnabled => engine = <<>>

\* After a graceful shutdown whose reset the engine acknowledged, the engine
\* forwards to nothing.  The code does not ensure this: see the README.
GracefulExitStopsRelay ==
    proc = "stopped" => engine = <<>>

\* Relay control implements its contract.
Contract == INSTANCE RelayContract WITH
    Dest  <- Dest,
    list  <- ForwardList(rows),
    on    <- relayEnabled,
    feed  <- engine,
    loose <- strayed \/ ~Controlling \/ "active" \in outdated

ImplementsContract == Contract!Spec

\* Every request that waits for the control mutex is answered or dropped.
RequestsAnswered == \A c \in Client : pc[c] = "queued" ~> pc[c] = "idle"

\* The relay stays on, the engine up and OBS publishing.
Steady == proc = "serving" /\ relayEnabled /\ engineUp /\ obs

\* A step of the worker fails, or a request given up on takes effect.
Fault ==
    \/ LateApply \/ PollRowsFail \/ ApplyRefuses(Worker) \/ ConfigureFails(Worker)
    \/ Poll /\ ~sample'.online
    \/ PollForwards /\ "unknown" \in Range(view')

\* An engine that lost the list during a broadcast gets it back: if from some
\* time on the broadcast is steady and no fault occurs, the engine forwards
\* for good from some time on.
FeedRestored ==
    <>[]Steady /\ <>[][~Fault]_vars => <>[](engine # <<>>)
-----------------------------------------------------------------------------
(***************************************************************************)
(* The inductive invariant behind the safety properties.                   *)
(***************************************************************************)
\* Requests run, and the relay can be on, only while the process serves.
Running == proc \in {"serving", "stopping", "draining", "draining_dirty"}

LifeInv ==
    /\ (relayEnabled \/ queue # <<>> \/ \E p \in Process : pc[p] # "idle") => Running
    /\ proc = "seeding" => Len(rows) = 1

\* Whoever is between lock and release holds the mutex.
LockInv == \A p \in Process : pc[p] \in LockedSteps => holder = p

\* Those who wait for the mutex, and only they, are in its queue, once each; who
\* holds it is on the way to its release, so that it is never left locked.
TurnInv ==
    /\ IsInjective(queue)
    /\ Range(queue) = {p \in Process : pc[p] = "queued"}
    /\ holder # Nobody => pc[holder] \in LockedSteps

\* The worker runs only while the process serves, and the shutdown future from
\* SIGTERM until the engine has answered, or not, its last request.
AbortInv ==
    /\ pc[Worker] # "idle" => proc = "serving"
    /\ pc[Shutdown] # "idle" <=> proc = "stopping"

\* Edits outlive their handlers but not the process; a create among them has found
\* room; and an active list is out of date only while there is one.
LateInv ==
    /\ unsettled # {} => Running
    /\ "create" \in unsettled => MaxAbandoned >= 1 /\ Len(rows) <= MaxDestinations
    /\ "active" \in outdated => relayEnabled

\* A PATCH in flight carries what the table says now, if no late edit came after
\* it, and an edit about to commit is still allowed: both were decided under the
\* mutex.
CallInv ==
    \A p \in Process :
        /\ pc[p] = "on_patch" =>
              "call" \in outdated \/ (CanForward(rows) /\ call = ForwardList(rows))
        /\ pc[p] = "off_patch" => call = <<>>
        /\ pc[p] = "commit" => ~relayEnabled

\* The destinations of a list have distinct positions, whatever its rows are now.
PositionsInv == IsInjective(call) /\ IsInjective(active)

\* Each process carries out its own operations.
OpRoles ==
    /\ op[Worker] \in {"none", "poll"}
    /\ op[Shutdown] \in {"none", "shutdown"}
    /\ \A c \in Client : op[c] \in {"none", "start", "stop", "restart", "edit"}

\* apply(true) is run by a start, or by the worker while the relay is on.
StepRoles ==
    /\ \A c \in Client : pc[c] \in {"on_rows", "on_patch"} => op[c] = "start"
    /\ pc[Worker] \in {"on_rows", "on_patch"} => relayEnabled
    /\ pc[Worker] = "poll_forwards" => sample.relay = relayEnabled
    /\ pc[Shutdown] \notin {"on_rows", "on_patch"}

IInv ==
    /\ TypeOK
    /\ LifeInv
    /\ LockInv
    /\ LateInv
    /\ CallInv
    /\ PositionsInv
    /\ OpRoles
    /\ StepRoles
    /\ ActiveIsEnabledRows
    /\ EngineFollows
    /\ TableSound
=============================================================================
