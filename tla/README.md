# StreamLab in TLA+

A verification project for the Streaming Control Center: a single-controller
Rust/Axum backend that starts and stops native RTMP forwarding in MediaMTX,
a PostgreSQL database, and an Angular frontend fed by one WebSocket.
The modules here are translations of the code under `src/`; `PROJECT.json`
maps each definition to the lines it stands for.

Run everything from this directory:

    tlc -workers 2 -config relay_races.cfg MCRelayControl     # a TLC run
    tlapm RelayControlProofs.tla                              # proofs

## 1. Inventory

| Part | State | Operations | Talks to |
|---|---|---|---|
| Relay control (`streaming.rs`) | `relay_enabled`, `active_destinations`, the mutex `control` | start, stop, restart, `apply`, `configure`, `forwards`, `path` | destinations table, MediaMTX API, event log |
| Destinations (`destinations.rs`) | table `destinations` | create, update, delete, list, key decryption | relay flag and mutex, crypto |
| Telemetry worker (`dashboard.rs: run`) | previous sample, tick counter, current session row, byte counter | a tick every 2 s; restore of a lost forwarding list; hourly sweep | mutex, MediaMTX, database, broadcast channel |
| Process lifecycle (`main.rs`) | - | boot (reset, interrupt sessions, seed), SIGTERM, drain, exit | everything |
| Sign-in (`auth.rs`) | tables `users`, `auth_sessions`; `login_attempts` | login, logout, change password, session check | database |
| WebSocket (`dashboard.rs: websocket`) | one task per socket | first snapshot, events, lag, ping and revalidation every 30 s, shutdown | broadcast channel, sign-in |
| Settings (`settings.rs`) | table `settings`, `AppState.settings` | get, update | event log; login reads `session_hours` |
| Event log (`logs.rs`) | table `system_events` | record (INSERT, then broadcast), list | broadcast channel |
| Monitoring, storage (`monitoring.rs`, `storage.rs`) | last CPU/network counters | sample, RAID state, directory size | procfs, sysfs, statvfs |
| Browser link (`frontend/src/app/api.ts`) | signals, socket, timers, `disposed`, `attempts` | start, stop, connect, reconnect with backoff, REST fallback, accept | REST, WebSocket |
| Pages that show snapshots (`overview.ts`, `system.ts`, `recordings.ts`), `format.ts` | none of their own | cells, meters, the bitrate chart, the signal's way | browser link |
| Live page's controls (`overview.ts`) | `busy`, `feedback` | start, stop, restart | REST |
| Destinations page (`destinations.ts`) | `items`, dialog, draft, `busy` | load, open, close, save, toggle, remove | REST |
| Settings page (`settings.ts`) | `preferences`, `busy`, `message` | load, save, change of password | REST |
| Shell, guard, sign-in (`shell.ts`, `routes.ts`, `login.ts`) | the shown page | enter, leave, logout | browser link |
| Configuration, crypto, error bodies | - | pure | - |
| Installation (`infrastructure/`) | files, containers | setup, preflight | Docker |
| MediaMTX, OBS (external) | forwarding list of path `live`, publisher | PATCH, list, get, restart | destinations' servers |

**What is hard.** Request handlers, the worker and the shutdown future are
tasks of one runtime that interleave at every `await`; hyper drops a handler
whose client leaves; an HTTP call that timed out may still take effect; the
engine restarts alone and forgets its list; the process may die anywhere and
its engine lives on; transactions of two requests interleave statement by
statement; positions, limits and windows have boundaries. `PROJECT.json`
lists each as a hazard, at its line, with the properties that cover it.

**What makes each part correct.**

- Relay control: statuses are mapped by the list the engine really got; the
  engine forwards nothing or that list; a stopped relay stays stopped unless a
  client starts it; a lost list is restored; every request gets the mutex.
- Destinations: distinct, within the limit, keyed when enabled, and fixed while
  the relay is on.
- Sign-in: no session outlives a password change; no change overwrites a
  password it did not verify; the limiter's window; sockets of revoked
  sessions close.
- Telemetry: no session row is live but the worker's own; a closed row stays
  closed; a rate is of one publisher; the log tells what was sampled.
- Broadcast: a page that has received everything shows the newest snapshot and
  every entry the channel still keeps, however far it lagged.
- Browser link: a link that is stopped leaves nothing behind that it made; one
  that runs never dies and gets its connection back; a session revoked at the
  server ends in the browser.
- Settings: memory and database agree when no update is between its two writes,
  and "Settings saved" is true, in the shell too unless an older start of it ends
  later.
- Pages: null and only null is shown as unavailable, larger amounts never look
  smaller, nothing is called live that is not; a change made on a page shows
  there and changes nothing else; no page keeps its buttons held.
- Monitoring, storage: a rate is of the bytes and the time between two readings;
  the word for the array fitted it at some moment while it was looked at.

## 2. Modules

| Module | What it is |
|---|---|
| `RelayContract` | abstract: a list editable only while the relay is off, a switch, a feed |
| `RelayControl` | handlers, worker, boot, shutdown, crash, MediaMTX; implements `RelayContract` |
| `MCRelayControl` | symmetry for TLC |
| `RelayControlProofs` | theorems about `RelayControl` |
| `AuthContract` | abstract: a session arises and a password changes each at one instant |
| `AuthSessions` | login, logout, password change, limiter, sockets, sweep; implements `AuthContract` |
| `MCAuthSessions` | symmetry for TLC |
| `AuthSessionsProofs` | theorems about `AuthSessions` |
| `Telemetry` | session rows, log transitions and bitrates of the worker; boot's closing of rows |
| `TelemetryProofs` | theorems about `Telemetry` |
| `LinkContract` | abstract: one connection, on or off, with a label to match, that is never given up |
| `ClientLink` | the service's chains of start, socket and timer over several lives of the shell; implements `LinkContract` |
| `ClientLinkProofs` | theorems about `ClientLink` |
| `Feed` | snapshots and entries from the tasks that make them over channel and socket to the page |
| `FeedProofs` | theorems about `Feed` |
| `Views` | formatters, cells, meters and chart as functions of a snapshot |
| `StatusPages` | the snapshots that arrive, and the history kept of them; uses `Views` |
| `NetworkSample` | the network rates of the Server page: counters, readings, restarts |
| `ArraySample` | the word for the array: three files read one after the other |
| `RelayPanel` | start, stop and restart from the Live page, against others |
| `DestinationsPage` | the list, its dialog and its changes, against the table and others |
| `SettingsPage` | the form, the shell's start, and `settings.rs: update` at the server, against others |
| `Console` | the pages above, of which the router shows one |
| `StatusProofs`, `ConsoleProofs`, `ConsoleTypeProofs` | theorems about `Console` |

### RelayControl

Every process (a `Client` is an HTTP request, `Worker` the telemetry task,
`Shutdown` the graceful-shutdown future) has a step `pc`, an operation `op` and,
at a PATCH, the list it sends (`call`). `holder` and `queue` are the tokio mutex
`AppState.control`, which is first come, first served. Steps end at an `await`:

| Code | Actions |
|---|---|
| `start`, `stop`, `restart`, `apply` | `Arrive`, `Grant`, `ApplyReads`, `ApplyRefuses`, `ApplyOn`, `ApplyOff`, `ConfigureFails` |
| `save`, `delete` | `EditChecks`, `SaveCreate`, `SaveUpdate`, `Delete`, `EditRefused` |
| `run` | `Poll`, `PollRows`, `PollRowsFail`, `PollForwards`, `PollEnd` and apply's steps |
| `main` | `Boot`, `BootReset`, `BootResetFails`, `BootRead`, `BootSeed`, `Sigterm`, `ShutdownConfigures`, `ShutdownConfigureFails`, `Exit`, `Crash` |
| hyper drops a handler | `CancelQueued`, `CancelHolding`; what it had sent to the database: `Unsettle`, `LateCreate`, `LateUpdate`, `LateDelete` |
| MediaMTX and OBS | `LateApply`, `EngineStops`, `EngineStarts`, `ObsToggles` |

A forwarding list is a function from destination to position. A PATCH is applied
with its acknowledgement, or given up on (timeout, cancelled handler, abort,
crash); then it joins `abandoned`, from which `LateApply` may take it at any
time, and `strayed` records that such a list was the last to reach the engine.

Modelling decisions:

- A row's key is none, usable or unusable; unusable stands for one that does
  not decrypt (`ENCRYPTION_KEY` is another one) or a seeded URL that does not
  parse. `Boot` may turn usable keys unusable and back.
- Rows keep creation order; a new id is a fresh one.
- What an edit does (create, update, delete) is chosen at its commit.
- A log record written before the guard is dropped is part of the last step.
- A handler that is dropped at its DELETE or COMMIT may have sent it
  (`unsettled`). The database may refuse it, or carry it out at any later time,
  whoever holds the mutex by then. A create among them comes after others have
  counted the rows, hence `TableSound`'s limit of `MaxDestinations +
  MaxAbandoned`, and is sorted by when its transaction began, hence its `InsertAt`.
  Such an edit may come while its rows are being sent, or during the broadcast
  that was made from them; `outdated`, a history variable, says of which list
  that is so, until the next acknowledged configuration. `ActiveIsEnabledRows`
  and the contract exempt this and no more. What a process has sent is settled by
  the time the next one looks.
- A request accepted before SIGTERM may reach the mutex while connections drain.
- A database that fails at boot is a `Crash` in that state.
- A list that is wrong but not empty is never repaired: the code looks only for
  an empty one, and so does the model.

### AuthSessions

`hash` and `sessions` are the committed tables; a request's uncommitted work is
in its `job`. PostgreSQL runs at READ COMMITTED: each statement is a step,
`SELECT ... FOR UPDATE` and `UPDATE` wait while another transaction holds the
user's row, and `UPDATE ... WHERE password_hash = $3` judges the row as
committed when it gets the lock.

| Code | Actions |
|---|---|
| `login` | `LoginArrives` (limiter), `LoginReads` (SELECT and verify), `LoginLocks` (FOR UPDATE, compare, INSERT), `LoginCommits` |
| `protect` and a protected route | `ProtectedArrives` |
| `change_password` | `ChangeChecks`, `ChangeReads`, `ChangeUpdates`, `ChangeDeletes`, `ChangeCommits` |
| `logout` | `LogoutDeletes` |
| `websocket` | `Upgrades`, `Revalidates`, `SocketEnds` |
| `run`, hourly | `Sweep` |
| failures, clock, process | `Abandoned` (rollback), `Tick`, `Restart` |

An unknown user name fails like a wrong password, since the code verifies a dummy
hash; the two are one case. A hash is a password with a salt, so changing a
password to itself still makes a new hash. A COMMIT whose answer is lost is
`LoginCommits` without the cookie (`issued` unchanged). The limiter lives in the
process and starts anew at a restart, so `started`, the history of accepted
logins, does too. `Session.by`, the hash a login was verified against, is a
history field: the code does not store it. A DELETE that meets a row another
transaction is deleting would wait; as the row is gone either way, the model
does not make it wait.

### Telemetry

The worker of `dashboard.rs: run` as the only writer of `stream_sessions`, with
what it remembers from tick to tick (`prev`, `counter`, `session`). What it does
under the control mutex is in `RelayControl`, with the sample reduced to what
matters there; neither part reads what the other writes.

| Code | Actions |
|---|---|
| `main` | `Boot`, `InterruptRows` (the UPDATE of unfinished rows), `Announce` (the start entry; the worker is spawned), `End` |
| `run` | `SampleAnswered`, `SampleFails`, `LogEngine`, `LogPublisher`, `OpenRow`, `UpdateRow`, `Publish` |
| OBS and MediaMTX | `Connects`, `Sends`, `Leaves` |

- A statement succeeds, fails without effect, or takes effect although the
  answer is lost; `unsure`, a history variable, keeps the rows whose last
  statement did the last. It is what the properties exempt, and no more.
- A statement of boot that fails ends the process (`End`). A statement that the
  database finishes after the next boot's UPDATE is left out.
- A publisher is its online time. One that reconnects between two samples
  continues the row of the one before, in the code as in the model.
- An entry that cannot be recorded is lost without notice (`missed`).
- Entries about destinations' statuses, which compare with `prev` like the two
  that are modelled, and the values a row collects (bitrate, resolution) are
  left out.

### ClientLink

Each effective `start()` begins a chain: three requests, a socket, a reconnect
timer, the next socket, and so on, with one interval that polls. The service
keeps a flag (`disposed`) and a reference to the last socket, timer and interval
only, so what a stop does not reach lives on beside the next chain.

| Code | Actions |
|---|---|
| `routes.ts`, `login.ts`, `shell.ts` | `Visit`, `SignIn`, `GuardPasses`, `GuardRefuses`, `GuardFails`, `Leave` |
| `start`, `connect` | `Start`, `StartAnswered`, `StartFails`, `StartRefused`, `Continue`, `Connect` |
| `onopen`, `onclose`, timer | `SocketOpens`, `SocketCloses` (`OnClose`), `TimerFires` |
| fallback interval, other requests | `FallbackTick`, `Ask`, `RequestEnds`, `RequestRefused` |
| `stop`, 401, logout, password change | `Stop`, `SignOut`, `AskToEnd`, `EndAnswered`, `EndFails` |
| network and server | `Outage`, `Revoke` |

A request is refused or admitted by the cookie it was sent with. `up` stands for
network and server: requests fail and sockets drop only while it is false.
`overlapped`, a history variable, says that the last start met something an
earlier one had left: the code then may open a second socket or leak an
interval, and `StoppedIsQuiet` exempts no more than that. A late 401 of an old
request signs a new session out, in the code as in the model.

`LinkContract` is what the shell may rely on: a switch, the phase of one
connection, its interval and the label. The refinement takes the chain of the
last start for the connection and `overlapped` for the contract's `loose`: while
it is set, what an earlier start left behind may speak through the same label
(`Stray`), but it takes neither the connection nor the interval away. The
consequence `InTouch` is stricter than `LabelTellsState`: unless loose, "connected"
is shown if and only if the connection is open.

### Feed

Everything between the worker and the signals of the page, for one socket. A
snapshot is the number it was published under, an entry its id.

| Code | Actions |
|---|---|
| `dashboard.rs: run`, `logs.rs: record` | `Publish`, `Insert`, `Broadcast` |
| `dashboard.rs: websocket` | `Subscribe`, `Greet`, `Forward` (with `Resync` and `Resume` after a lag) |
| `logs.rs: list`, `dashboard` | `ServeLogs`, `ServeDashboard`, `ServePoll` |
| `api.ts: start`, `connect`, `onmessage`, fallback | `Start`, `Started`, `Open`, `Deliver`, `Poll`, `Polled` |
| network, leaving the shell | `Lose` |

The worker writes a snapshot before it broadcasts it and never publishes two at
once; handlers insert and broadcast entries side by side, so that entries may be
broadcast out of order. A task that has fallen out of the channel is put at its
oldest message and sends the newest snapshot first. Limits of the code that the
properties exempt: an answer of the fallback may overwrite a newer snapshot until
the next one comes (`late`); entries recorded while there is no connection are
not delivered; an entry may be shown twice or out of order.

### Console and its pages

The router shows one page at a time, and the pages share only the service; so
`Console` follows one page from its entry on, each with its part of the server.
Leaving a page and coming back is a step of the page's own (`Reenter`), with the
requests of the earlier visit still on their way.

`Views` and `StatusPages`: a text is the sequence of the numbers it shows, and the
one without any stands for the dash and for "Unavailable"; a cell is a pair of a
reading and its text. `StatusPages!Accept` takes any snapshot the worker may
publish (`dashboard.rs: run`), `Forget` is the sign-out. The quotient of
logarithms in `bytes` is not computed: `Power` compares the amounts, which gives
the same unit in doubles at the four powers of 1024 and at the whole numbers next
to them. That the quotient is right there is no result of a run. Padding and
words are left out.

| Code | Actions |
|---|---|
| `monitoring.rs: sample`, network | `NetworkSample!Sample`, `SampleUnread`, `Restart`; the host's `Receives`, `InterfacesMove` |
| `storage.rs: sample`, `raid_state` | `ArraySample!ReadState`, `ReadDegraded`, `ReadSync`; the kernel's `ArrayChanges` |
| `overview.ts`: toolbar, `control` | `RelayPanel!Press`, `Answer`, `Accept`, `Reenter`, `Dismiss`; the server's `Serve`, `Elsewhere` |
| `destinations.ts`: `open`, `close`, form | `DestinationsPage!Open`, `Edit`, `Close`, `AskRemove`, `CancelRemove` |
| `destinations.ts`: `save`, `toggle`, `remove`, `load` | `Save`, `Toggle`, `Remove`, `Acknowledged`, `NotAcknowledged`, `ApplyFirst`, `ApplyAgain`, `Reenter` |
| `destinations.rs`: `save`, `delete`, `list` | `DestinationsPage!Serve`, `ServeFirst`, `ServeAgain`, `Elsewhere` |
| `settings.ts`: `load`, form, `save` | `SettingsPage!Load`, `Edit`, `Save`, `Answer`, `Reenter` |
| `api.ts: start` | `SettingsPage!ServeStart`, `Started`, `StartFails` |
| `settings.rs: update`, `get`; boot | `Refuse`, `WriteRow`, `StoreMemory`, `Reply`, `Drop`, `ServeLoad`, `Elsewhere`, `Restart` |

- A request may be carried out and answered, carried out with its answer lost, or
  neither. In `RelayPanel` the controller is reduced to its flag: what a start
  or stop does is `RelayControl`.
- `NetworkSample`: the sums over the interfaces are one counter, which rises, or
  becomes anything when interfaces come and go (`moved`): one that comes back
  shows all it has counted as one tick's traffic, which is exempt. Bytes sent
  are treated like bytes received. Time is counted in ticks.
- `ArraySample`: the three files are words of the kernel, sorted by what
  `raid_state` does with them; each may be unreadable. `during` collects the words
  that fitted while the sample was taken. A word is the mix of three readings,
  so it may be true of its own reading only, and not of the array as a whole.
- `DestinationsPage`: name, kind, url and texts are one value (`Metas`), a key is
  none, one others entered, or the one typed. A change sends the whole row as the
  list last showed it; where others have changed a field meanwhile, the stale
  one overwrites theirs, and `UntouchedFieldsKept` exempts that (`base` and
  `touched` are history). `excused` says that others, a lost answer or an
  overtaken read put the page behind. The answer of a save closes whatever
  dialog is open by then; a failed save after Cancel is silent.
- `SettingsPage`: preferences are one value, valid or not. `torn` says that an
  update was cut short between row and memory or overlapped another, after which
  the two may differ until the next update or restart; `disturbed` that others
  changed something since this page did. The shell has no settings until a start
  of it or a save has been answered, and none from a start that failed. A start
  sets what it was told when the slowest of its three requests is answered, which
  may be after a save it was served before: the older copy then replaces the
  saved one although the page says "Settings saved". The code does not prevent
  it; `overtaken` marks it, and `SettingsHold` exempts only what the shell then
  shows.

## 3. Runs

| Run | Expect | Question and answer |
|---|---|---|
| `relay_races` | pass | Two requests and the worker, three ids, a table limit of two. `ActiveIsEnabledRows`, `TableSound`, `OnlyStartEnables` and the contract hold over every interleaving, with cancels and crashes. |
| `relay_faults` | pass | One request, and one PATCH or edit at a time that outlives its handler. `ActiveIsEnabledRows`: the active list is the table's unless such an edit has come since. `EngineFollows`: the engine runs nothing or the active list unless that PATCH was the last to reach it. `StatusOfOwnForwarder`: no status is shown for a neighbour. |
| `relay_live` | pass | `RequestsAnswered` and `FeedRestored` under fairness. |
| `relay_failed_start` | violation | README.md:59 "if start fails, relay stays stopped": a PATCH applied after the 4 s timeout turns forwarding on while the controller reports it off. |
| `relay_shutdown` | violation | README.md:59 "Relays stop on ... graceful shutdown": a start queued behind the shutdown future's PATCH runs during the drain and the engine keeps forwarding. That is the only way: `OnlyStartEnables` says that nothing else, the aborted worker included, makes the engine forward again. |
| `auth_races` | pass | Two requests of any kind against one user, statement by statement. `SessionsOfCurrentPassword`, `NoLostChange` and the contract hold. |
| `auth_time` | pass | Four logins over two windows and two session lengths. `LimiterHolds`, and `RevokedSocketsClose` under fairness. |
| `telemetry` | pass | Publishers, outages, failing and unanswered statements, crashes: `LiveRowIsSession`, `ClosedStaysClosed`, `RateOfOnePublisher`, `LogTellsState`, and `RowsFollowPublisher` after the last fault. |
| `telemetry_log` | violation | README.md:70 "MediaMTX API/publisher transitions": a publisher that leaves during an outage of MediaMTX is never logged as disconnected. |
| `client_link` | pass | The shell entered and left while requests, sockets, timers and intervals of an earlier visit are under way: `StoppedIsQuiet`, `LabelTellsState` and the contract; under fairness `Reconnects` and `RevokedLeaves`. |
| `feed` | pass | Channel, lag, lost connections and fallback: `QuietIsCurrent`, `EntriesKept`, and under fairness `CatchesUp`. |
| `console` | pass | Each page against a server that others change too: `ReadingsTrue`, `NumbersTrue`, `WordIsTrue`, `RateIsTraffic`, `FeedbackIsTrue`, `ItemsAgree`, `UntouchedFieldsKept`, `SettingsHold`, and under fairness `BusyEnds`. |

**Bounds.** `MaxDestinations` is 2 (20 in the code) so that creates at the limit
happen; three ids let a row be deleted and another take its position.
`RestoreEvery` is 2 (5 in the code): ticks that may restore and ticks that may
not. `MaxAbandoned`, which bounds PATCHes and edits together, is 1 in
`relay_faults` and `relay_failed_start`, enough for a stale list to follow any
other call and for a late edit to meet any step of a start; it is 0 in the others.
Two requests are enough for `relay_races` to explore: that the table keeps within
its limit and the contract is implemented with late edits too is proved, not run.
One client suffices where the race is between a request and the worker,
shutdown or the engine; two where it is between requests. In `auth_races` two
tokens let one session be revoked while another is made, `MaxSalt` 2 two
password changes meet, and `Window` 1, `MaxTime` 1 an expiry; the limiter has
its own run, where the clock crosses the window's end twice. In `telemetry` two
publishers are what a byte count can be mistaken between, `MaxBytes` 1 lets a
count grow, and three rows leave room for one of an earlier process, one
inserted without an answer and the current one; at the limit an INSERT fails.
In `client_link` two starts are what can overlap, two sessions what a late answer
can mistake, and one attempt tells the first connection from later ones. In
`feed` a channel of two and four messages make a task lag with something kept and
something lost; one message on the wire keeps it behind. In `console` a base of 4
and three samples (1024 and 60 in the code) bring readings to the powers of the
unit, to the last unit and beyond, and to the chart's limits; the readings are
null, zero, numbers next to a power, and an hour. Two counts and two ticks let a
rate be of a tick that read nothing; two requests are what an answer can be
mistaken between; one destination, which others may remove and create, suffices
for a list and its rows do not meet; two valid settings and one that is not make
updates overlap, differ and be refused; one start of the shell at a time, which may
be one of an earlier visit, suffices to be overtaken by a save.
Symmetry is used
in the runs without liveness, over clients, destinations, requests, tokens and
passwords, none of which the specifications tell apart.

Each property has a mutant in `PROJECT.json`: a change of one definition, as a
slip in that code would make it, under which the run finds the property violated.

**Fairness.** `RelayControl!Fairness`: the mutex is handed on (tokio's is fair),
an HTTP call ends within the client's 4 s timeout, a statement ends, and the
timer ticks; so requests at work, the worker and the shutdown future go on.
Nothing makes a request arrive, a client leave, an engine restart or the process
boot. `FeedRestored` assumes a broadcast that is steady from some time on and no
fault from then on: a fault at every restoring tick may keep the list lost.
`AuthSessions!LiveSpec`: the 30 s interval of an open socket comes round and its
check completes; the database does not hang for ever, and the socket's task is
not stuck in a send to a client that has stopped reading.
`Telemetry!LiveSpec`: the timer ticks and calls end, so the worker goes on once
the process runs; nothing makes it boot. `RowsFollowPublisher` assumes that from
some time on the process runs and no call or statement fails: a database that
answers no UPDATE can keep a row open for ever.
`ClientLink!LiveSpec`: requests and handshakes end, timers and intervals go off,
and the server checks an open socket's session every 30 s. `Reconnects` assumes
that the server stays up and the session valid from some time on,
`RevokedLeaves` that the server stays up. `Feed!LiveSpec`: what is recorded is
broadcast, the socket's task runs, messages arrive; nothing makes a page connect.
`Console!LiveSpec`: requests are answered, refused or given up and answers are
handled; nothing makes anybody press a button.

**Types.** Each specification has its `TypeOK`; those of `ClientLink` and
`Telemetry` are left to their proofs.

**Deadlock** is checked in every run, and none stops: a process that is down can
boot, a network can fail or come back, a page can be left and entered, a snapshot
can arrive.

## 4. Theorems

For any number of requests, destinations, users, passwords and tokens, any limit
and any window; from the named assumptions of the modules (distinct processes,
positive limits, destination ids that are not status words) only.

`RelayControlProofs`: `TypeCorrect`, `InductiveInvariant`, `ActiveMatchesTable`,
`EngineObeys`, `TableIsSound`, `OnlyStartEnablesRelay`, `StatusesAreOwn`,
`ForwardListInjective`, `MutexIsNeverLost`, `Implementation`, `ContractIsKept`.

The invariant `RelayControl!IInv` is what the safety properties need to be
inductive: whoever is between lock and release is the holder (`LockInv`); a PATCH
in flight carries what the table says now, if no late edit came after it, and an
edit about to commit was allowed and still is (`CallInv`), because both were
decided under the mutex; edits outlive no process, and an active list is out of
date only during a broadcast (`LateInv`);
only a start reaches `on_patch` with the relay off (`OpRoles`, `StepRoles`); and a
process that is down runs nothing (`LifeInv`). `StatusesAreOwn` adds that two
destinations of one list never share a position (`PositionsInv`, from
`ForwardListInjective`, by counting), whatever has become of its rows. `Implementation` shows that each step is a step of `RelayContract` or
a stutter, where the contract's feed is the engine and command is lost while a
given-up PATCH was the last to reach it (`Stray`) or a late edit came after the
list was read (`Creep`, `SwitchOnOutdated`); with it, what the contract promises
(`RelayContract!InCommand`) holds of the code.

The mutex has an invariant of its own. `TurnInv`: its queue holds those who wait,
and only them, once each, and a holder is at a step on the way to its release;
so no failure, cancellation or abort leaves it locked with nobody to unlock it.
`AbortInv`: the worker runs only while the process serves, and the shutdown
future from SIGTERM to its answer. Together (`MutexIsNeverLost`) they are
inductive, and give the second half of `OnlyStartEnables`, for a worker that is
gone cannot restore.

`AuthSessionsProofs`: `TypeCorrect`, `InductiveInvariant`, `SessionsAreCurrent`,
`LimiterIsSound`, `ChangesAreInformed`, `Implementation`.

`AuthSessions!IInv`: of the transactions on a user's row one at a time is past
its locking statement, and what it has seen is the committed hash (`RowInv`); so
the sessions a change is about to delete are all its user has when it commits,
since a login could only commit one by holding the row (`DoomedInv`, `TokenInv`).
For the limiter: every accepted login that some window can still reach is among
those it counts (`LimiterInv`), so that a new one completes no window beyond the
limit.

`TelemetryProofs`: `TypeCorrect`, `InductiveInvariant`, `LiveRows`,
`ClosedRows`, `Rates`, `LogTells`.

`Telemetry!IInv`: a process begins with nothing and a tick with the sample of the
tick before (`MemoryInv`); the byte counter is that of the last sample's
publisher (`CounterInv`), which is why comparing online times with the sample
before is enough for a rate; the row of the session is live (`SessionRowLives`),
so that an UPDATE without an end reopens nothing; and `LogInv` says how far the log
has followed the sample at each step of a tick.

`ClientLinkProofs`: `TypeCorrect`, `LinkIsSafe`, `StoppedLinkIsQuiet`,
`RunningLinkIsAlive`, `LabelIsTrue`, `Implementation`, `LinkIsInTouch`. `LinkInv`: the shell is shown if and only if
the service is not disposed; and unless starts overlapped, all that lives is of
the last start and `stop()` holds a reference to it, which is why a stop reaches
everything. The refinement needs one thing more (`RetryInv`): a link that waits to
dial again has counted an attempt, so that its label stays "reconnecting". Each
step of the last start's chain is then a step of the contract, and one of another
chain, which lives only after an overlap, is a `Stray` or a stutter.

`FeedProofs`: `InductiveInvariant`, `TypeCorrect`, `NewestIsShown`,
`EntriesAreShown`. The invariant speaks of what the page will hold once its wire
is empty: for every snapshot the task has passed, the last one on wire or page is
no older (`Reached`), which rests on snapshots being broadcast in order
(`OrderInv`); and an entry the channel still keeps is on the wire, or on the page
no further down than the task is from it (`EntryAt`), so that the page's limit,
being no smaller than the channel's, cannot have cut it off.

`StatusProofs`: `ReadingsAreTrue`, `RatesAreTraffic`, `WordsAreTrue`. A snapshot
reports forwarding only while engine, publisher and relay are there
(`ForwardingInv`); the last reading is as old as the ticks that read nothing since
and falls short of the counter by what was received since (`RemainsInv`); each
file that was read leaves its word among those that fitted (`FoundInv`).

`ConsoleProofs`: `StoppedIsTold`, `SavedSettingsHold`, `ItemsShowTable`,
`ChangesKeepTheRest`. What an answer on its way will tell is as true as what is
told (`WaitingIsTrue`); an update that has written the row, if it overlaps no
other, is what the row says, and the page's own is what its form says
(`UpdateInv`, `PairInv`, `FormInv`); what a start of the shell will set is what is
in memory, unless others have changed that or an update was stored since
(`ShellInv`); the page waits for one thing at a time and
holds its buttons for it (`WaitInv`), and a draft or request agrees with the row
it was made from wherever the user has not changed it (`Untouched`).

`ConsoleTypeProofs`: `TypeCorrect` of `Console`, from the invariants above, and
`NumbersAreTrue`, which is about the formatters for every number and rests on
`StatusProofs`: division is bounded and monotonic (`Division`, `Grows`); each unit
is the base times the one before (`Unit` spells the five out, so that no induction
is needed); the unit of a number is the largest it fills, and a number that
rounds to a full unit goes up by one (`PowerIs`, `BytesAre`), so that the order of
two numbers survives rounding and a change of unit (`ToldInOrder`). For the chart,
the scale is no smaller than any sample of the history (`SamplesBounded`, the
least index that would contradict it being none), which keeps each point in the
box (`PointInBox`).

Only model-checked: `RequestsAnswered`, `FeedRestored`, `RevokedSocketsClose`,
`RowsFollowPublisher`, `Reconnects`, `RevokedLeaves`, `CatchesUp` and `BusyEnds`,
for liveness under fairness is out of the prover's reach. Of `RequestsAnswered`
a safety half is proved: who waits is in the queue, and who holds the mutex is on
the way to its release.

## 5. Findings

Two sentences of `src/README.md:59` and one of `src/README.md:70` do not hold of
the code, each with a run that ends in a counterexample: see
`relay_failed_start`, `relay_shutdown` and `telemetry_log`. In the last, a sample
that fails is remembered as one without a publisher, so a disconnection during
the outage is no change at the next answer. What does hold is `LogTellsState`:
the log is right if an entry that MediaMTX is unavailable is taken to end what was
said about the publisher.

## 6. Not modelled

- Functions of text: field validation and URL building (`forward_url`: a key is
  usable or not), parsing of the origin and of the environment, the preflight's
  rules, error bodies, wording and layout. They keep no state, and TLC would
  enumerate characters.
- Checks that only refuse: the csrf layer, input lengths, the origin check of the
  socket.
- Encryption and hashing themselves; that a key does not decrypt is an input.
- Reads that change nothing (`list`, `status`, `me`, `health`, recordings),
  filters of the log.
- Of the host: the share of the processor (a quotient of two differences,
  clamped), filesystem sizes, directory size, and readings copied from a file.
- Of the worker: entries about destinations' statuses and the 30-day sweep of
  entries; of boot: the creation of the first user.
- Of the socket: the shutdown message, which a page takes like any other close,
  and a send that blocks for ever.
- Of the frontend: a message that is no JSON, focus of dialogs, the mobile menu,
  links and icons.
- The installation scripts, which run once by hand, and deployment files.

## 7. Plan

Done: relay control and sign-in with their contracts, telemetry, the browser
link with its contract, the feed, the pages with their part of the server, the
host's rates and the array, each with proofs of its types and of the safety
properties its run checks.

What could follow: `forward_url`, origin parsing and the preflight's rules as
functions against reference definitions, over words in place of characters; the
worker's entries about destinations; two sockets of one browser in `Feed`, after
starts that overlapped.
