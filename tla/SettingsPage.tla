----------------------------- MODULE SettingsPage -----------------------------
(***************************************************************************)
(* The preferences of the Settings page (settings.ts: load, save) and the  *)
(* server's update (settings.rs), which changes the row and then, without  *)
(* a lock, the copy in memory that everything reads, and answers with the  *)
(* copy as it is by then.  Other tabs update too; a client that leaves     *)
(* takes its update with it at whichever step it is; the controller may    *)
(* restart, which reads the copy from the row (main.rs).  The shell has a  *)
(* copy of its own, which this page's answers set and so does the shell's  *)
(* start (api.ts): it asks when the shell is entered, and sets what it was *)
(* told once the slowest of its three requests has been answered.          *)
(***************************************************************************)
EXTENDS Naturals, FiniteSets

CONSTANTS
    Values,      \* preferences as one may enter them
    Valid,       \* those that update() accepts
    Default,     \* those the row is created with
    MaxUpdates,  \* bound on the updates
    Starts       \* starts of the shell that may be under way at a time

VARIABLES
    row,          \* settings.value
    memory,       \* state.settings
    torn,         \* history: an update was cut short or overlapped another
    updates,      \* updates at work
    updated,      \* how many there have been
    reading,      \* load(): none, asked, or served with what it will find
    preferences,  \* the form, in a set; {} is null
    settings,     \* the service's copy, in a set; {} is null
    starting,     \* what each start has asked for
    overtaken,    \* history: settings is of a start served before the last update
    busy, message,
    edited,       \* history: the form was changed since it was sent
    disturbed     \* history: others have changed something since this page did

serverVars == <<row, memory, torn>>
shellVars == <<settings, starting, overtaken>>
pageVars == <<reading, preferences, shellVars, busy, message, edited>>
vars == <<serverVars, updates, updated, pageVars, disturbed>>

\* An update is the page's, an earlier visit's, or somebody else's; from the
\* answer on, its value is that of the answer.
Update == [id: 1..MaxUpdates, by: {"page", "left", "other"}, value: Values,
           overlapped: BOOLEAN, at: {"sent", "written", "stored", "answered"}]
Reading == [at: {"none", "asked", "served"}, found: SUBSET Valid]

\* old: history, an update has been stored since it was served.
Starting == [at: {"none", "asked", "served"}, found: SUBSET Valid, old: BOOLEAN]

TypeOK ==
    /\ row \in Valid /\ memory \in Valid
    /\ updates \subseteq Update
    /\ updated \in 0..MaxUpdates
    /\ reading \in Reading
    /\ preferences \subseteq Values /\ Cardinality(preferences) <= 1
    /\ settings \subseteq Valid /\ Cardinality(settings) <= 1
    /\ starting \in [Starts -> Starting]
    /\ overtaken \in BOOLEAN
    /\ busy \in BOOLEAN /\ message \in BOOLEAN
    /\ edited \in BOOLEAN /\ disturbed \in BOOLEAN /\ torn \in BOOLEAN

Asked == [at |-> "asked", found |-> {}]
NotAsked == [at |-> "none", found |-> {}]

StartAsked == [at |-> "asked", found |-> {}, old |-> FALSE]
StartEnded == [at |-> "none", found |-> {}, old |-> FALSE]

Init ==
    /\ row = Default /\ memory = row /\ torn = FALSE
    /\ updates = {} /\ updated = 0
    /\ reading = Asked
    /\ preferences = {} /\ settings = {}
    /\ \E s \in Starts :
        starting = [t \in Starts |-> IF t = s THEN StartAsked ELSE StartEnded]
    /\ overtaken = FALSE
    /\ busy = FALSE /\ message = FALSE
    /\ edited = FALSE /\ disturbed = FALSE

-----------------------------------------------------------------------------
(***************************************************************************)
(* The page: load, the form, save.                                         *)
(***************************************************************************)
ServeLoad ==
    /\ reading.at = "asked"
    /\ reading' = [at |-> "served", found |-> {memory}]
    /\ UNCHANGED <<serverVars, updates, updated, preferences, shellVars, busy, message,
                   edited, disturbed>>

\* The form gets a copy, or the load fails and the page stays without a form.
Load ==
    /\ reading.at # "none"
    /\ preferences' = reading.found
    /\ reading' = NotAsked
    /\ UNCHANGED <<serverVars, updates, updated, shellVars, busy, message, edited, disturbed>>

Edit ==
    /\ preferences # {}
    /\ \E v \in Values : preferences' = {v}
    /\ edited' = TRUE
    /\ UNCHANGED <<serverVars, updates, updated, reading, shellVars, busy, message, disturbed>>

Send(by, value) ==
    /\ updated < MaxUpdates
    /\ updated' = updated + 1
    /\ updates' = updates \cup {[id |-> updated', by |-> by, value |-> value,
                                 overlapped |-> FALSE, at |-> "sent"]}

Save ==
    /\ ~busy
    /\ \E p \in preferences : Send("page", p)
    /\ busy' = TRUE
    /\ message' = FALSE
    /\ edited' = FALSE
    /\ UNCHANGED <<serverVars, reading, preferences, shellVars, disturbed>>

\* "Settings saved"
Message(ok) == ok

\* The button is given back whatever came of the request.
Busy(ok) == FALSE

\* The page's request has ended, or somebody else's.
Ended(u, ok) ==
    /\ updates' = updates \ {u}
    /\ busy' = IF u.by = "page" THEN Busy(ok) ELSE busy
    /\ message' = IF u.by = "page" THEN Message(ok) ELSE message

\* The answer arrives.  The form is left alone; the shell is told even if the
\* page has been left, by which it may get to know less than it did.
Answer(u) ==
    /\ u.at = "answered"
    /\ Ended(u, TRUE)
    /\ IF u.by = "other" THEN UNCHANGED <<settings, overtaken>>
       ELSE settings' = {u.value} /\ overtaken' = FALSE
    /\ disturbed' = (disturbed \/ u.by = "left")
    /\ UNCHANGED <<serverVars, updated, reading, preferences, starting, edited>>

-----------------------------------------------------------------------------
(***************************************************************************)
(* The shell's start: its GET of the settings, and its end.                *)
(***************************************************************************)
ServeStart(s) ==
    /\ starting[s].at = "asked"
    /\ starting' = [starting EXCEPT ![s] = [at |-> "served", found |-> {memory}, old |-> FALSE]]
    /\ UNCHANGED <<serverVars, updates, updated, reading, preferences, settings, overtaken, busy,
                   message, edited, disturbed>>

\* The other two requests have been answered as well.  What start was told is
\* set, whatever has been saved or started since.
Started(s) ==
    /\ starting[s].at = "served"
    /\ settings' = starting[s].found
    /\ overtaken' = starting[s].old
    /\ starting' = [starting EXCEPT ![s] = StartEnded]
    /\ UNCHANGED <<serverVars, updates, updated, reading, preferences, busy, message, edited,
                   disturbed>>

\* One of the three fails: the shell keeps what it has, which may be nothing.
StartFails(s) ==
    /\ starting[s].at # "none"
    /\ starting' = [starting EXCEPT ![s] = StartEnded]
    /\ UNCHANGED <<serverVars, updates, updated, reading, preferences, settings, overtaken, busy,
                   message, edited, disturbed>>

StartStep(s) == ServeStart(s) \/ Started(s) \/ StartFails(s)

-----------------------------------------------------------------------------
(***************************************************************************)
(* The server: update.                                                     *)
(***************************************************************************)
At(u, stage) == (updates \ {u}) \cup {[u EXCEPT !.at = stage]}

Refuse(u) ==
    /\ u.at = "sent" /\ u.value \notin Valid
    /\ Ended(u, FALSE)
    /\ UNCHANGED <<serverVars, updated, reading, preferences, shellVars, edited, disturbed>>

\* The row; from here to the copy in memory, updates that meet overlap.
WriteRow(u) ==
    LET met == {w \in updates \ {u} : w.at = "written"} IN
    /\ u.at = "sent" /\ u.value \in Valid
    /\ row' = u.value
    /\ updates' = (updates \ (met \cup {u}))
                    \cup {[w EXCEPT !.overlapped = TRUE] : w \in met}
                    \cup {[u EXCEPT !.at = "written", !.overlapped = met # {}]}
    /\ disturbed' = (disturbed \/ u.by # "page")
    /\ UNCHANGED <<memory, torn, updated, pageVars>>

\* Mutated form of Stored: the copy is left for the next start to refresh.
StoredLater(u) == memory

Stored(u) == u.value

StoreMemory(u) ==
    /\ u.at = "written"
    /\ memory' = Stored(u)
    /\ torn' = u.overlapped
    /\ updates' = At(u, "stored")
    /\ disturbed' = (u.by # "page" \/ u.overlapped)
    /\ starting' = [s \in Starts |->
                      [starting[s] EXCEPT !.old = starting[s].at = "served"]]
    /\ UNCHANGED <<row, updated, reading, preferences, settings, overtaken, busy, message, edited>>

\* The answer is the copy in memory as it is by now.
Reply(u) ==
    /\ u.at = "stored"
    /\ updates' = (updates \ {u}) \cup {[u EXCEPT !.at = "answered", !.value = memory]}
    /\ UNCHANGED <<serverVars, updated, pageVars, disturbed>>

\* The client leaves, the statement fails or gets no answer: the update stops
\* where it is.
Drop(u) ==
    /\ Ended(u, FALSE)
    /\ torn' = (torn \/ u.at = "written")
    /\ UNCHANGED <<row, memory, updated, reading, preferences, shellVars, edited, disturbed>>

-----------------------------------------------------------------------------
(***************************************************************************)
(* Others.                                                                 *)
(***************************************************************************)
Elsewhere ==
    /\ \E v \in Values : Send("other", v)
    /\ UNCHANGED <<serverVars, pageVars, disturbed>>

\* What was at work is lost; memory is what the row says.
Restart ==
    /\ updates # {} \/ memory # row
    /\ memory' = row /\ torn' = FALSE
    /\ updates' = {u \in updates : u.at = "answered"}
    /\ disturbed' = (disturbed \/ memory' # memory)
    /\ busy' = (\E u \in updates' : u.by = "page")
    /\ UNCHANGED <<row, updated, reading, preferences, shellVars, message, edited>>

\* The page is left and entered again, alone or with the shell, which starts
\* again then; an update under way goes on, and so does an earlier start.
Reenter ==
    /\ busy \/ reading.at = "none"
    /\ updates' = {IF u.by = "page" THEN [u EXCEPT !.by = "left"] ELSE u : u \in updates}
    /\ reading' = Asked
    /\ preferences' = {}
    /\ busy' = FALSE /\ message' = FALSE /\ edited' = FALSE
    /\ \/ UNCHANGED starting
       \/ \E s \in Starts :
            /\ starting[s].at = "none"
            /\ starting' = [starting EXCEPT ![s] = StartAsked]
    /\ UNCHANGED <<serverVars, updated, settings, overtaken, disturbed>>

-----------------------------------------------------------------------------
Handled(u) ==
    Refuse(u) \/ WriteRow(u) \/ StoreMemory(u) \/ Reply(u) \/ Drop(u) \/ Answer(u)

Next ==
    \/ ServeLoad \/ Load \/ Edit \/ Save
    \/ \E s \in Starts : StartStep(s)
    \/ \E u \in updates : Handled(u)
    \/ Elsewhere \/ Restart \/ Reenter

Spec == Init /\ [][Next]_vars

\* Requests end.
Progress == \E u \in updates : Handled(u)

-----------------------------------------------------------------------------
\* The copy that everything reads is what the database would restore after a
\* restart, unless an update is between its two writes, was cut short there, or
\* had another between them.
SettingsAgree == ~torn /\ (\A u \in updates : u.at # "written") => memory = row

\* As long as nobody else changes anything, "Settings saved" means that what the
\* form shows is in the database and in effect, and, unless a start that was
\* served before has ended since, in the shell.
SavedHolds ==
    message /\ ~edited /\ ~disturbed =>
        preferences = {row} /\ memory = row /\ (overtaken \/ settings = {row})
=============================================================================
