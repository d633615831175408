----------------------------- MODULE ConsoleProofs -----------------------------
(***************************************************************************)
(* Proofs about the pages that change something, for any values and any    *)
(* number of requests: that the Live page's word on a stopped relay is     *)
(* true, that the settings in effect are those of the database and         *)
(* "Settings saved" is true, and that the Destinations page shows what it  *)
(* has changed and changes nothing else.                                   *)
(***************************************************************************)
EXTENDS Console, TLAPS

\* The page that takes a step is the one that is shown.
LEMMA Steps ==
  [Next]_vars =>
    /\ [Relay!Next]_relayVars
    /\ [Settings!Next]_settingsVars
    /\ [Destinations!Next]_destinationsVars
  BY DEF Next, StatusStep, ServerStep, StorageStep, RelayStep, DestinationsStep, SettingsStep, vars

-----------------------------------------------------------------------------
(***************************************************************************)
(* The Live page.                                                          *)
(***************************************************************************)
RelayNumbers == asked \in 0..MaxCalls /\ visit \in Nat
RelayFlags == relay \in BOOLEAN /\ undone \in BOOLEAN

\* What waits to tell of a stop is as true as what is told.
WaitingIsTrue ==
    \A c \in calls : c.act = "stop" /\ c.outcome = "ok" /\ ~c.undone => ~relay

RelayInv ==
    /\ RelayNumbers /\ RelayFlags /\ calls \subseteq Relay!Call
    /\ WaitingIsTrue /\ FeedbackIsTrue

\* A request is well typed however it ends and whatever undoes it.
LEMMA CallEnds ==
  ASSUME NEW c \in Relay!Call, NEW o \in Relay!Outcome
  PROVE  /\ [c EXCEPT !.outcome = o] \in Relay!Call
         /\ [c EXCEPT !.outcome = o].act = c.act
         /\ [c EXCEPT !.outcome = o].outcome = o
  BY DEF Relay!Call

\* A request is well typed when what it did is undone.
LEMMA CallUndone ==
  ASSUME NEW c \in Relay!Call, NEW on \in BOOLEAN
  PROVE  /\ [c EXCEPT !.undone = @ \/ on] \in Relay!Call
         /\ on => [c EXCEPT !.undone = @ \/ on].undone
  <1>1. (c.undone \/ on) \in BOOLEAN /\ (on => c.undone \/ on)
    OBVIOUS
  <1>2. \A b \in BOOLEAN : [c EXCEPT !.undone = b] \in Relay!Call /\ [c EXCEPT !.undone = b].undone = b
    BY DEF Relay!Call
  <1> QED BY <1>1, <1>2, Zenon

\* Once the relay is on, no stop that waits to be told still holds.
LEMMA UndoingCalls ==
  ASSUME NEW cs \in SUBSET Relay!Call, NEW on \in BOOLEAN
  PROVE  /\ Relay!Undoing(cs, on) \subseteq Relay!Call
         /\ on => \A c \in Relay!Undoing(cs, on) : c.undone
  <1> SUFFICES ASSUME NEW d \in Relay!Undoing(cs, on)
               PROVE  d \in Relay!Call /\ (on => d.undone)
    OBVIOUS
  <1>1. PICK c \in cs : d = [c EXCEPT !.undone = @ \/ on]
    BY Zenon DEF Relay!Undoing
  <1>2. c \in Relay!Call
    OBVIOUS
  <1> QED BY <1>1, <1>2, CallUndone, Zenon

\* The relay panel's invariant holds at first, and every step keeps it.
LEMMA RelayInit == Init => RelayInv
  <1> SUFFICES ASSUME Init PROVE RelayInv
    OBVIOUS
  <1>1. relay = FALSE /\ undone = FALSE /\ calls = {} /\ asked = 0 /\ visit = 1
    BY DEF Init, Relay!Init
  <1>2. RelayNumbers
    BY <1>1, RelayAssumption DEF RelayNumbers
  <1>3. RelayFlags
    BY <1>1, Zenon DEF RelayFlags
  <1>4. feedback # "stopped"
    BY DEF Init, Relay!Init
  <1>5. WaitingIsTrue /\ FeedbackIsTrue
    BY <1>1, <1>4, Zenon DEF WaitingIsTrue, FeedbackIsTrue, Relay!FeedbackIsTrue
  <1> QED BY <1>1, <1>2, <1>3, <1>5 DEF RelayInv

\* Every step keeps the Live page's invariant.
LEMMA RelayKept == RelayInv /\ [Relay!Next]_relayVars => RelayInv'
  <1> SUFFICES ASSUME RelayInv, [Relay!Next]_relayVars
               PROVE  RelayInv'
    OBVIOUS
  <1>0. RelayNumbers /\ RelayFlags /\ calls \subseteq Relay!Call /\ WaitingIsTrue
        /\ FeedbackIsTrue
    BY DEF RelayInv
  <1>1. ASSUME NEW act \in Relay!Action, Relay!Press(act) PROVE RelayInv'
    <2>1. asked < MaxCalls /\ asked' = asked + 1 /\ UNCHANGED <<relay, visit, undone>>
      BY <1>1 DEF Relay!Press
    <2>2. asked' \in 1..MaxCalls /\ RelayNumbers'
      BY <1>0, <2>1, RelayAssumption DEF RelayNumbers
    <2>3. RelayFlags' /\ visit \in Nat
      BY <1>0, <2>1 DEF RelayFlags, RelayNumbers
    <2> DEFINE new == [id |-> asked', act |-> act, visit |-> visit,
                       outcome |-> "none", undone |-> FALSE]
    <2>4. new \in Relay!Call /\ new.outcome # "ok"
      BY <2>2, <2>3 DEF Relay!Call, Relay!Outcome
    <2>5. calls' = calls \cup {new}
      BY <1>1 DEF Relay!Press
    <2> HIDE DEF new
    <2>6. calls' \subseteq Relay!Call
      BY <1>0, <2>4, <2>5
    <2>7. WaitingIsTrue'
      BY <1>0, <2>1, <2>4, <2>5, Zenon DEF WaitingIsTrue
    <2>8. feedback' # "stopped"
      BY <1>1 DEF Relay!Press
    <2> QED BY <2>2, <2>3, <2>6, <2>7, <2>8 DEF RelayInv, FeedbackIsTrue, Relay!FeedbackIsTrue
  <1>2. ASSUME NEW c \in calls, Relay!Serve(c) PROVE RelayInv'
    <2>1. PICK o \in Relay!Outcomes(c.act) :
             /\ relay' = o[1]
             /\ calls' = Relay!Undoing(calls \ {c}, relay') \cup {[c EXCEPT !.outcome = o[2]]}
             /\ undone' = (undone \/ relay')
      BY <1>2, Zenon DEF Relay!Serve
    <2>2. asked' = asked /\ visit' = visit /\ feedback' = feedback
      BY <1>2 DEF Relay!Serve
    <2>3. c \in Relay!Call /\ c.act \in Relay!Action
      BY <1>0 DEF Relay!Call
    <2>4. \E on \in BOOLEAN, told \in {"ok", "error"} :
             o = <<on, told>> /\ (c.act = "stop" /\ told = "ok" => ~on)
      <3>1. relay \in BOOLEAN
        BY <1>0 DEF RelayFlags
      <3>2. CASE c.act = "start"
        <4>1. o \in {<<TRUE, "ok">>, <<TRUE, "error">>, <<relay, "error">>}
          BY <3>2 DEF Relay!Outcomes
        <4>2. c.act # "stop"
          BY <3>2
        <4> QED BY <3>1, <4>1, <4>2, Zenon
      <3>3. CASE c.act = "stop"
        <4>1. o \in {<<FALSE, "ok">>, <<FALSE, "error">>, <<relay, "error">>}
          BY <3>3 DEF Relay!Outcomes
        <4>2. "error" # "ok"
          OBVIOUS
        <4> QED BY <3>1, <4>1, <4>2, Zenon
      <3>4. CASE c.act = "restart"
        <4>1. o \in {<<TRUE, "ok">>, <<TRUE, "error">>, <<FALSE, "error">>, <<relay, "error">>}
          BY <3>4 DEF Relay!Outcomes
        <4>2. c.act # "stop"
          BY <3>4
        <4> QED BY <3>1, <4>1, <4>2, Zenon
      <3> QED BY <2>3, <3>2, <3>3, <3>4 DEF Relay!Action
    <2>4a. /\ o[1] \in BOOLEAN /\ o[2] \in {"ok", "error"}
           /\ c.act = "stop" /\ o[2] = "ok" => ~o[1]
      <3>1. PICK on \in BOOLEAN, told \in {"ok", "error"} :
               o = <<on, told>> /\ (c.act = "stop" /\ told = "ok" => ~on)
        BY <2>4
      <3>2. o[1] = on /\ o[2] = told
        BY <3>1
      <3> QED BY <3>1, <3>2, Zenon
    <2>5. /\ [c EXCEPT !.outcome = o[2]] \in Relay!Call
          /\ [c EXCEPT !.outcome = o[2]].act = c.act
          /\ [c EXCEPT !.outcome = o[2]].outcome = o[2]
      <3>1. o[2] \in Relay!Outcome
        BY <2>4a DEF Relay!Outcome
      <3> QED BY <2>3, <3>1, CallEnds
    <2>6. relay' \in BOOLEAN /\ undone' \in BOOLEAN /\ (relay' => undone')
      BY <2>1, <2>4a, Zenon
    <2>7. /\ Relay!Undoing(calls \ {c}, relay') \subseteq Relay!Call
          /\ relay' => \A d \in Relay!Undoing(calls \ {c}, relay') : d.undone
      <3>1. calls \ {c} \in SUBSET Relay!Call
        BY <1>0
      <3> QED BY <2>6, <3>1, UndoingCalls, Zenon
    <2>8. calls' \subseteq Relay!Call
      BY <2>1, <2>5, <2>7
    <2>9. WaitingIsTrue'
      <3> SUFFICES ASSUME NEW d \in calls', d.act = "stop", d.outcome = "ok", ~d.undone
                   PROVE  ~relay'
        BY DEF WaitingIsTrue
      <3>1. CASE d \in Relay!Undoing(calls \ {c}, relay')
        BY <2>7, <3>1
      <3>2. CASE d = [c EXCEPT !.outcome = o[2]]
        <4>1. c.act = "stop" /\ o[2] = "ok"
          BY <2>5, <3>2
        <4> QED BY <2>1, <2>4a, <4>1, Zenon
      <3> QED BY <2>1, <3>1, <3>2, Zenon
    <2>10. FeedbackIsTrue'
      BY <2>6, Zenon DEF FeedbackIsTrue, Relay!FeedbackIsTrue
    <2>11. RelayFlags' /\ RelayNumbers'
      BY <1>0, <2>2, <2>6, Zenon DEF RelayFlags, RelayNumbers
    <2> QED BY <2>8, <2>9, <2>10, <2>11 DEF RelayInv
  <1>3. ASSUME NEW c \in calls, Relay!Answer(c) PROVE RelayInv'
    <2>1. /\ calls' = calls \ {c} /\ relay' = relay /\ asked' = asked /\ visit' = visit
          /\ c.outcome # "none"
      BY <1>3 DEF Relay!Answer
    <2>2. c.undone \in BOOLEAN /\ c.outcome \in {"ok", "error"}
      BY <1>0, <2>1 DEF Relay!Call, Relay!Outcome
    <2>3. RelayNumbers' /\ calls' \subseteq Relay!Call
      BY <1>0, <2>1 DEF RelayNumbers
    <2>4. WaitingIsTrue'
      BY <1>0, <2>1, Zenon DEF WaitingIsTrue
    <2>5. CASE c.visit = visit
      <3>1. feedback' = Relay!Feedback(c) /\ undone' = c.undone
        BY <1>3, <2>5 DEF Relay!Answer
      <3>2. feedback' = "stopped" => c.act = "stop" /\ c.outcome = "ok"
        BY <2>2, <3>1 DEF Relay!Feedback
      <3>3. FeedbackIsTrue'
        BY <1>0, <2>1, <3>1, <3>2, Zenon DEF WaitingIsTrue, FeedbackIsTrue, Relay!FeedbackIsTrue
      <3>4. RelayFlags'
        BY <1>0, <2>1, <2>2, <3>1, Zenon DEF RelayFlags
      <3> QED BY <2>3, <2>4, <3>3, <3>4 DEF RelayInv
    <2>6. CASE c.visit # visit
      <3>1. feedback' = feedback /\ undone' = undone
        BY <1>3, <2>6 DEF Relay!Answer
      <3>2. FeedbackIsTrue' /\ RelayFlags'
        BY <1>0, <2>1, <3>1, Zenon DEF RelayFlags, FeedbackIsTrue, Relay!FeedbackIsTrue
      <3> QED BY <2>3, <2>4, <3>2 DEF RelayInv
    <2> QED BY <2>5, <2>6
  <1>4. ASSUME UNCHANGED <<relay, calls, asked, undone>>, visit' \in Nat,
               feedback' \in {"", feedback}
        PROVE  RelayInv'
    <2>1. RelayNumbers' /\ calls' \subseteq Relay!Call
      BY <1>0, <1>4 DEF RelayNumbers
    <2>2. WaitingIsTrue' /\ RelayFlags'
      BY <1>0, <1>4, Zenon DEF WaitingIsTrue, RelayFlags
    <2>3. feedback' = "stopped" => feedback = "stopped"
      BY <1>4
    <2>4. FeedbackIsTrue'
      BY <1>0, <1>4, <2>3, Zenon DEF FeedbackIsTrue, Relay!FeedbackIsTrue
    <2> QED BY <2>1, <2>2, <2>4 DEF RelayInv
  <1>5. visit \in Nat /\ visit + 1 \in Nat
    BY <1>0 DEF RelayNumbers
  <1>6. CASE Relay!Accept
    BY <1>4, <1>5, <1>6 DEF Relay!Accept
  <1>7. CASE Relay!Elsewhere
    <2>1. relay' \in BOOLEAN
      BY <1>7, Zenon DEF Relay!Elsewhere
    <2>2. undone' \in BOOLEAN /\ (relay' => undone')
      BY <1>7, Zenon DEF Relay!Elsewhere
    <2>3. calls' = Relay!Undoing(calls, relay') /\ UNCHANGED <<asked, visit, feedback>>
      BY <1>7 DEF Relay!Elsewhere
    <2>4. calls' \subseteq Relay!Call /\ (relay' => \A c \in calls' : c.undone)
      BY <1>0, <2>1, <2>3, UndoingCalls, Zenon
    <2>5. WaitingIsTrue'
      BY <2>4, Zenon DEF WaitingIsTrue
    <2>6. FeedbackIsTrue' /\ RelayFlags'
      BY <2>1, <2>2, Zenon DEF FeedbackIsTrue, Relay!FeedbackIsTrue, RelayFlags
    <2>7. RelayNumbers'
      BY <1>0, <2>3 DEF RelayNumbers
    <2> QED BY <2>4, <2>5, <2>6, <2>7 DEF RelayInv
  <1>8. CASE Relay!Reenter
    <2>1. UNCHANGED <<relay, calls, asked, undone>> /\ visit' = visit + 1 /\ feedback' = ""
      BY <1>8 DEF Relay!Reenter
    <2> QED BY <1>4, <1>5, <2>1
  <1>9. CASE Relay!Dismiss
    BY <1>4, <1>5, <1>9 DEF Relay!Dismiss, Relay!pageVars
  <1>10. CASE UNCHANGED relayVars
    BY <1>4, <1>5, <1>10 DEF relayVars
  <1> QED BY <1>1, <1>2, <1>3, <1>6, <1>7, <1>8, <1>9, <1>10 DEF Relay!Next

\* The Live page says that the relay is stopped only while it is, unless
\* somebody has started it since (overview.ts, control).
THEOREM StoppedIsTold == Spec => []FeedbackIsTrue
  <1>1. RelayInv /\ [Next]_vars => RelayInv'
    BY Steps, RelayKept
  <1>2. RelayInv => FeedbackIsTrue
    BY DEF RelayInv
  <1> QED BY RelayInit, <1>1, <1>2, PTL DEF Spec
-----------------------------------------------------------------------------
(***************************************************************************)
(* The Settings page.                                                      *)
(***************************************************************************)
SettingsTypes ==
    /\ updates \subseteq Settings!Update
    /\ updated \in 0..MaxUpdates
    /\ row \in Valid /\ memory \in Valid
    /\ \A u \in updates : u.at # "sent" => u.value \in Valid

\* The form, and what a load is answered with, is one value or none.
OneValue(set) == \A v, w \in set : v \in Values /\ v = w

\* A load finds no form and ends before the form can be saved.
FormInv ==
    /\ OneValue(preferences) /\ OneValue(reading.found)
    /\ reading.at # "none" => preferences = {} /\ ~message

\* Of what update u wrote, or the page asked it to.
UpdateInv(u) ==
    /\ u.at = "written" /\ ~u.overlapped => row = u.value
    /\ u.by = "page" =>
          /\ saveBusy /\ ~message /\ reading.at = "none"
          /\ ~edited /\ u.at # "answered" => preferences = {u.value}
          /\ u.at \in {"stored", "answered"} /\ ~disturbed =>
                /\ memory = u.value /\ row = u.value
                /\ ~edited => preferences = {u.value}

\* The page has one update at a time; updates that overlap are known to.
PairInv(u, w) ==
    /\ ~(u.by = "page" /\ w.by = "page")
    /\ ~(u.at = "written" /\ w.at = "written" /\ ~u.overlapped)

UpdatesInv ==
    /\ \A u \in updates : UpdateInv(u)
    /\ \A u, w \in updates : u # w => PairInv(u, w)

SettingsInv == SettingsTypes /\ FormInv /\ UpdatesInv /\ SettingsHold

\* A start will set what is in memory by then, unless others have changed it or an
\* update has been stored since the start was served.
ShellInv ==
    /\ starting \in [Starts -> Settings!Starting]
    /\ \A s \in Starts :
        starting[s].at = "served" /\ ~starting[s].old =>
            disturbed \/ starting[s].found = {memory}

\* What becomes of an update's record.
LEMMA UpdateFields ==
  ASSUME NEW u \in Settings!Update
  PROVE  /\ \A stage \in {"sent", "written", "stored", "answered"} :
              LET x == [u EXCEPT !.at = stage] IN
              /\ x \in Settings!Update /\ x.at = stage
              /\ x.by = u.by /\ x.value = u.value /\ x.overlapped = u.overlapped
         /\ LET x == [u EXCEPT !.overlapped = TRUE] IN
              /\ x \in Settings!Update /\ x.overlapped
              /\ x.by = u.by /\ x.value = u.value /\ x.at = u.at
         /\ LET x == [u EXCEPT !.by = "left"] IN
              /\ x \in Settings!Update /\ x.by = "left"
              /\ x.overlapped = u.overlapped /\ x.value = u.value /\ x.at = u.at
         /\ \A on \in BOOLEAN :
              LET x == [u EXCEPT !.at = "written", !.overlapped = on] IN
              /\ x \in Settings!Update /\ x.at = "written" /\ x.overlapped = on
              /\ x.by = u.by /\ x.value = u.value
         /\ \A v \in Values :
              LET x == [u EXCEPT !.at = "answered", !.value = v] IN
              /\ x \in Settings!Update /\ x.at = "answered" /\ x.value = v
              /\ x.by = u.by /\ x.overlapped = u.overlapped
  BY DEF Settings!Update

\* Each update is the successor of one there was, or new.
LEMMA PairsKept ==
  ASSUME UpdatesInv, NEW S \in SUBSET updates, NEW f,
         updates' = {f[y] : y \in S},
         \A y \in S : f[y].by = "page" => y.by = "page",
         \A y, z \in S : y # z /\ f[y].at = "written" /\ f[z].at = "written" =>
            f[y].overlapped
  PROVE  \A u, w \in updates' : u # w => PairInv(u, w)
  <1> SUFFICES ASSUME NEW u \in updates', NEW w \in updates', u # w
               PROVE  PairInv(u, w)
    OBVIOUS
  <1>1. PICK y \in S, z \in S : u = f[y] /\ w = f[z]
    BY Zenon
  <1>2. y # z /\ y \in updates /\ z \in updates
    BY <1>1
  <1>3. PairInv(y, z)
    BY <1>2, Zenon DEF UpdatesInv
  <1> QED BY <1>1, <1>2, <1>3, Zenon DEF PairInv

\* The settings page's invariant holds at first.
LEMMA SettingsInit == Init => SettingsInv
  <1> SUFFICES ASSUME Init PROVE SettingsInv
    OBVIOUS
  <1>1. row = Default /\ memory = row /\ updates = {} /\ updated = 0 /\ preferences = {}
    BY DEF Init, Settings!Init
  <1>2. SettingsTypes
    BY <1>1, SettingsAssumption DEF SettingsTypes
  <1>3. reading.found = {} /\ message = FALSE
    BY DEF Init, Settings!Init, Settings!Asked
  <1>4. FormInv
    BY <1>1, <1>3, Zenon DEF FormInv, OneValue
  <1>5. UpdatesInv
    BY <1>1 DEF UpdatesInv
  <1>6. SettingsHold
    BY <1>1, <1>3, Zenon DEF SettingsHold, Settings!SettingsAgree, Settings!SavedHolds
  <1> QED BY <1>2, <1>4, <1>5, <1>6 DEF SettingsInv
\* What leaves the updates and what they wrote alone leaves them in order, as
\* long as an update of the page finds the page as it was, but for its form.
LEMMA UpdatesKept ==
  ASSUME UpdatesInv, updates' \subseteq updates,
         UNCHANGED <<row, memory>>,
         \/ /\ UNCHANGED <<saveBusy, message, reading, disturbed>>
            /\ edited' \/ UNCHANGED <<preferences, edited>>
         \/ \A u \in updates' : u.by # "page"
  PROVE  UpdatesInv'
  <1>1. ASSUME NEW u \in updates' PROVE UpdateInv(u)'
    <2>1. UpdateInv(u) /\ row' = row /\ memory' = memory
      BY DEF UpdatesInv
    <2>2. CASE u.by # "page"
      BY <2>1, <2>2, Zenon DEF UpdateInv
    <2>3. CASE /\ saveBusy' = saveBusy /\ message' = message /\ reading' = reading
               /\ disturbed' = disturbed /\ preferences' = preferences /\ edited' = edited
      BY <2>1, <2>3, Zenon DEF UpdateInv
    <2>4. CASE /\ saveBusy' = saveBusy /\ message' = message /\ reading' = reading
               /\ disturbed' = disturbed /\ edited'
      BY <2>1, <2>4, Zenon DEF UpdateInv
    <2> QED BY <2>2, <2>3, <2>4
  <1>2. \A u, w \in updates' : u # w => PairInv(u, w)
    BY Zenon DEF UpdatesInv
  <1> QED BY <1>1, <1>2, Zenon DEF UpdatesInv, PairInv

\* An update that has ended, well or not, is gone, with what the page waited for.
LEMMA EndedKept ==
  ASSUME SettingsInv, NEW u \in updates, NEW ok \in BOOLEAN, Settings!Ended(u, ok),
         UNCHANGED <<row, memory, updated, reading, preferences, edited>>,
         disturbed => disturbed'
  PROVE  SettingsTypes' /\ FormInv' /\ UpdatesInv'
  <1>1. updates' = updates \ {u}
    BY DEF Settings!Ended
  <1>2. SettingsTypes'
    BY <1>1 DEF SettingsInv, SettingsTypes
  <1>3. CASE u.by = "page"
    <2>1. UpdateInv(u) /\ (\A w \in updates' : w.by # "page")
      BY <1>1, <1>3, Zenon DEF SettingsInv, UpdatesInv, PairInv
    <2>2. reading.at = "none"
      BY <1>3, <2>1 DEF UpdateInv
    <2>3. FormInv'
      BY <2>2, Zenon DEF SettingsInv, FormInv, OneValue
    <2>4. ASSUME NEW w \in updates' PROVE UpdateInv(w)'
      <3>1. UpdateInv(w) /\ w.by # "page"
        BY <1>1, <2>1 DEF SettingsInv, UpdatesInv
      <3> QED BY <3>1, Zenon DEF UpdateInv
    <2>5. \A w, x \in updates' : w # x => PairInv(w, x)
      BY <1>1, Zenon DEF SettingsInv, UpdatesInv
    <2> QED BY <1>2, <2>3, <2>4, <2>5, Zenon DEF UpdatesInv, PairInv
  <1>4. CASE u.by # "page"
    <2>1. saveBusy' = saveBusy /\ message' = message
      BY <1>4 DEF Settings!Ended
    <2>2. FormInv'
      BY <2>1, Zenon DEF SettingsInv, FormInv, OneValue
    <2>3. ASSUME NEW w \in updates' PROVE UpdateInv(w)'
      <3>1. UpdateInv(w)
        BY <1>1 DEF SettingsInv, UpdatesInv
      <3> QED BY <2>1, <3>1, Zenon DEF UpdateInv
    <2>4. \A w, x \in updates' : w # x => PairInv(w, x)
      BY <1>1, Zenon DEF SettingsInv, UpdatesInv
    <2> QED BY <1>2, <2>2, <2>3, <2>4, Zenon DEF UpdatesInv, PairInv
  <1> QED BY <1>3, <1>4

\* Of an update that nothing has touched, all holds that did.
LEMMA UpdateKept ==
  ASSUME NEW w, UpdateInv(w), row' = row, memory' = memory, disturbed' = disturbed,
         reading' = reading, saveBusy' = saveBusy, message' = message,
         preferences' = preferences, edited' = edited
  PROVE  UpdateInv(w)'
  BY Zenon DEF UpdateInv

\* A new update, of the page if the page has none and sends its form.
LEMMA SentKept ==
  ASSUME SettingsInv, NEW by \in {"page", "other"}, NEW v \in Values, Settings!Send(by, v),
         UNCHANGED <<row, memory, disturbed, reading>>,
         \/ by = "other" /\ UNCHANGED <<saveBusy, message, preferences, edited>>
         \/ /\ by = "page" /\ ~saveBusy
            /\ saveBusy' /\ ~message' /\ reading.at = "none" /\ preferences' = {v}
  PROVE  SettingsTypes' /\ UpdatesInv'
  <1>1. updated' = updated + 1 /\ updated < MaxUpdates
    BY DEF Settings!Send
  <1>2. updated' \in 1..MaxUpdates
    BY <1>1, SettingsAssumption DEF SettingsInv, SettingsTypes
  <1>3. PICK new \in Settings!Update :
           /\ updates' = updates \cup {new}
           /\ new.by = by /\ new.value = v /\ new.at = "sent"
    <2> DEFINE x == [id |-> updated', by |-> by, value |-> v, overlapped |-> FALSE,
                     at |-> "sent"]
    <2>1. updates' = updates \cup {x}
      BY DEF Settings!Send
    <2>2. by \in {"page", "left", "other"}
      OBVIOUS
    <2>3. x \in Settings!Update /\ x.by = by /\ x.value = v /\ x.at = "sent"
      BY <1>2, <2>2 DEF Settings!Update
    <2> HIDE DEF x
    <2> QED BY <2>1, <2>3
  <1>4. SettingsTypes'
    BY <1>2, <1>3 DEF SettingsInv, SettingsTypes
  <1>5. new.at \notin {"written", "stored", "answered"} /\ new.at # "written"
    BY <1>3
  <1>6. row' = row /\ memory' = memory /\ disturbed' = disturbed /\ reading' = reading
    OBVIOUS
  <1>7. UpdateInv(new)' /\ \A w \in updates : UpdateInv(w)' /\ (by = "page" => w.by # "page")
    <2>1. \A w \in updates : UpdateInv(w)
      BY DEF SettingsInv, UpdatesInv
    <2>2. CASE /\ by = "other" /\ saveBusy' = saveBusy /\ message' = message
               /\ preferences' = preferences /\ edited' = edited
      <3>1. by # "page"
        BY <2>2
      <3>2. UpdateInv(new)'
        BY <1>3, <1>5, <3>1, Zenon DEF UpdateInv
      <3>3. ASSUME NEW w \in updates PROVE UpdateInv(w)'
        BY <1>6, <2>1, <2>2, <3>3, UpdateKept
      <3> QED BY <3>1, <3>2, <3>3
    <2>3. CASE /\ by = "page" /\ ~saveBusy
               /\ saveBusy' /\ ~message' /\ reading.at = "none" /\ preferences' = {v}
      <3>1. \A w \in updates : w.by # "page"
        BY <2>1, <2>3, Zenon DEF UpdateInv
      <3> QED BY <1>3, <1>5, <1>6, <2>1, <2>3, <3>1, Zenon DEF UpdateInv
    <2> QED BY <2>2, <2>3
  <1>8. ASSUME NEW u \in updates', NEW w \in updates', u # w
        PROVE  PairInv(u, w)
    <2>1. CASE u \in updates /\ w \in updates
      BY <1>8, <2>1, Zenon DEF SettingsInv, UpdatesInv
    <2>2. CASE u = new /\ w \in updates
      BY <1>3, <1>5, <1>7, <2>2, Zenon DEF PairInv
    <2>3. CASE w = new /\ u \in updates
      BY <1>3, <1>5, <1>7, <2>3, Zenon DEF PairInv
    <2> QED BY <1>3, <1>8, <2>1, <2>2, <2>3
  <1>9. UpdatesInv'
    BY <1>3, <1>7, <1>8, Zenon DEF UpdatesInv, PairInv
  <1> QED BY <1>4, <1>9

\* The row is written: the update is alone, or it and those it met are known to
\* overlap.
LEMMA WriteRowKept ==
  ASSUME SettingsInv, NEW u \in updates, Settings!WriteRow(u)
  PROVE  SettingsTypes' /\ FormInv' /\ UpdatesInv' /\ SettingsHold'
  <1> DEFINE met == {w \in updates \ {u} : w.at = "written"}
             on == met # {}
             mine == [u EXCEPT !.at = "written", !.overlapped = on]
             f == [y \in updates |-> IF y = u THEN mine
                                     ELSE IF y \in met THEN [y EXCEPT !.overlapped = TRUE]
                                     ELSE y]
  <1>1. /\ u.at = "sent" /\ u.value \in Valid /\ row' = u.value
        /\ updates' = (updates \ (met \cup {u}))
                        \cup {[w EXCEPT !.overlapped = TRUE] : w \in met} \cup {mine}
        /\ disturbed' = (disturbed \/ u.by # "page")
    BY Zenon DEF Settings!WriteRow
  <1>2. /\ memory' = memory /\ torn' = torn /\ updated' = updated
        /\ UNCHANGED <<reading, preferences, settings, saveBusy, message, edited>>
    BY DEF Settings!WriteRow, Settings!pageVars, Settings!shellVars
  <1>3. \A y \in updates : y \in Settings!Update
    BY DEF SettingsInv, SettingsTypes
  <1>4. on \in BOOLEAN
    BY Zenon
  <1> HIDE DEF on
  <1>5. /\ mine \in Settings!Update /\ mine.at = "written" /\ mine.overlapped = on
        /\ mine.by = u.by /\ mine.value = u.value
    <2>1. \A b \in BOOLEAN :
             LET x == [u EXCEPT !.at = "written", !.overlapped = b] IN
             /\ x \in Settings!Update /\ x.at = "written" /\ x.overlapped = b
             /\ x.by = u.by /\ x.value = u.value
      BY <1>3, UpdateFields, Zenon
    <2> QED BY <1>4, <2>1, Zenon
  <1>6. \A y \in met : LET x == [y EXCEPT !.overlapped = TRUE] IN
           /\ x \in Settings!Update /\ x.overlapped
           /\ x.by = y.by /\ x.value = y.value /\ x.at = y.at
    BY <1>3, UpdateFields, Zenon
  <1>7. f[u] = mine /\ (\A y \in met : f[y] = [y EXCEPT !.overlapped = TRUE])
        /\ \A y \in updates \ (met \cup {u}) : f[y] = y
    BY Zenon
  <1>8. updates' = {f[y] : y \in updates}
    <2>1. met \subseteq updates \ {u}
      BY Zenon
    <2> HIDE DEF f, met, mine, on
    <2>2. ASSUME NEW x \in updates' PROVE \E y \in updates : x = f[y]
      <3>1. CASE x = mine
        BY <1>7, <3>1
      <3>2. CASE x \in updates \ (met \cup {u})
        BY <1>7, <3>2
      <3>3. CASE \E w \in met : x = [w EXCEPT !.overlapped = TRUE]
        BY <1>7, <2>1, <3>3, Zenon
      <3> QED BY <1>1, <3>1, <3>2, <3>3, Zenon
    <2>3. ASSUME NEW y \in updates PROVE f[y] \in updates'
      <3>1. CASE y = u
        BY <1>1, <1>7, <3>1, Zenon
      <3>2. CASE y \in met
        BY <1>1, <1>7, <3>2, Zenon
      <3>3. CASE y \in updates \ (met \cup {u})
        BY <1>1, <1>7, <3>3, Zenon
      <3> QED BY <3>1, <3>2, <3>3
    <2> QED BY <2>2, <2>3, Zenon
  <1>9. ASSUME NEW y \in updates
        PROVE  /\ f[y] \in Settings!Update
               /\ f[y].by = y.by /\ f[y].value = y.value
               /\ y # u => f[y].at = y.at
               /\ y # u /\ f[y].at = "written" => f[y].overlapped
    <2>1. CASE y = u
      BY <1>5, <1>7, <2>1, Zenon
    <2>2. CASE y \in met
      BY <1>6, <1>7, <2>2, Zenon
    <2>3. CASE y \notin met /\ y # u
      <3>1. f[y] = y /\ y.at # "written"
        BY <1>7, <2>3, Zenon
      <3> QED BY <1>3, <3>1, Zenon
    <2> QED BY <2>1, <2>2, <2>3
  <1>10. f[u].at = "written" /\ (f[u].overlapped <=> \E w \in updates \ {u} : w.at = "written")
    BY <1>5, <1>7, Zenon DEF on
  <1> HIDE DEF f, met, mine, on
  <1>11. SettingsTypes'
    BY <1>1, <1>2, <1>8, <1>9 DEF SettingsInv, SettingsTypes
  <1>12. FormInv'
    BY <1>2, Zenon DEF SettingsInv, FormInv, OneValue
  <1>13. \A x, z \in updates' : x # z => PairInv(x, z)
    <2>1. \A y, z \in updates : y # z /\ f[y].at = "written" /\ f[z].at = "written" =>
             f[y].overlapped
      <3> SUFFICES ASSUME NEW y \in updates, NEW z \in updates, y # z,
                          f[y].at = "written", f[z].at = "written"
                   PROVE  f[y].overlapped
        OBVIOUS
      <3>1. CASE y = u
        <4>1. z \in updates \ {u} /\ z.at = "written"
          BY <1>9, <3>1, Zenon
        <4> QED BY <1>10, <3>1, <4>1, Zenon
      <3>2. CASE y # u
        BY <1>9, <3>2, Zenon
      <3> QED BY <3>1, <3>2
    <2>2. \A y \in updates : f[y].by = "page" => y.by = "page"
      BY <1>9, Zenon
    <2>3. UpdatesInv
      BY DEF SettingsInv
    <2> QED BY <1>8, <2>1, <2>2, <2>3, PairsKept, Zenon
  <1>14. ASSUME NEW x \in updates' PROVE UpdateInv(x)'
    <2>1. PICK y \in updates : x = f[y]
      BY <1>8, Zenon
    <2>2. UpdateInv(y)
      BY DEF SettingsInv, UpdatesInv
    <2>3. CASE y = u
      <3>1. x.at = "written" /\ x.value = u.value /\ x.by = u.by
        BY <1>9, <1>10, <2>1, <2>3, Zenon
      <3>2. "written" \notin {"stored", "answered"} /\ "written" # "answered"
            /\ u.at # "answered"
        BY <1>1
      <3> QED BY <1>1, <1>2, <2>2, <2>3, <3>1, <3>2, Zenon DEF UpdateInv
    <2>4. CASE y # u
      <3>1. /\ x.at = y.at /\ x.value = y.value /\ x.by = y.by
            /\ x.at = "written" => x.overlapped
        BY <1>9, <2>1, <2>4, Zenon
      <3>2. y.by = "page" => u.by # "page"
        BY <2>4, Zenon DEF SettingsInv, UpdatesInv, PairInv
      <3>3. y.by = "page" => disturbed'
        BY <1>1, <3>2, Zenon
      <3> QED BY <1>2, <2>2, <3>1, <3>3, Zenon DEF UpdateInv
    <2> QED BY <2>3, <2>4
  <1>15. UpdatesInv'
    BY <1>13, <1>14, Zenon DEF UpdatesInv, PairInv
  <1>16. SettingsHold'
    <2>1. f[u] \in updates'
      BY <1>8, Zenon
    <2>2. Settings!SettingsAgree'
      BY <1>10, <2>1, Zenon DEF Settings!SettingsAgree
    <2>3. u.by = "page" => ~message
      BY Zenon DEF SettingsInv, UpdatesInv, UpdateInv
    <2>4. message' => disturbed'
      BY <1>1, <1>2, <2>3, Zenon
    <2> QED BY <2>2, <2>4, Zenon DEF SettingsHold, Settings!SavedHolds
  <1> QED BY <1>11, <1>12, <1>15, <1>16
\* One update goes on, to where it is not between its writes.
LEMMA OneChanged ==
  ASSUME SettingsInv, NEW u \in updates, NEW x \in Settings!Update,
         updates' = (updates \ {u}) \cup {x}, x.by = u.by, x.at # "written",
         updated' = updated, row' \in Valid, memory' \in Valid, x.value \in Valid,
         \A w \in updates \ {u} : UpdateInv(w)', UpdateInv(x)'
  PROVE  SettingsTypes' /\ UpdatesInv'
  <1>1. SettingsTypes'
    BY DEF SettingsInv, SettingsTypes
  <1>2. ASSUME NEW a \in updates', NEW b \in updates', a # b
        PROVE  PairInv(a, b)
    <2>1. CASE a \in updates /\ b \in updates
      BY <1>2, <2>1, Zenon DEF SettingsInv, UpdatesInv
    <2>2. CASE a = x /\ b \in updates \ {u}
      <3>1. PairInv(u, b)
        BY <2>2, Zenon DEF SettingsInv, UpdatesInv
      <3> QED BY <2>2, <3>1, Zenon DEF PairInv
    <2>3. CASE b = x /\ a \in updates \ {u}
      <3>1. PairInv(a, u)
        BY <2>3, Zenon DEF SettingsInv, UpdatesInv
      <3> QED BY <2>3, <3>1, Zenon DEF PairInv
    <2> QED BY <1>2, <2>1, <2>2, <2>3
  <1>3. \A w \in updates' : UpdateInv(w)'
    OBVIOUS
  <1> QED BY <1>1, <1>2, <1>3, Zenon DEF UpdatesInv, PairInv

\* The copy in memory follows: if the update was alone, it is the row's.
LEMMA StoreMemoryKept ==
  ASSUME SettingsInv, NEW u \in updates, Settings!StoreMemory(u)
  PROVE  SettingsInv'
  <1> DEFINE x == [u EXCEPT !.at = "stored"]
  <1>1. /\ u.at = "written" /\ memory' = u.value /\ torn' = u.overlapped
        /\ updates' = (updates \ {u}) \cup {x}
        /\ disturbed' = (u.by # "page" \/ u.overlapped)
    BY Zenon DEF Settings!StoreMemory, Settings!Stored, Settings!At
  <1>2. /\ row' = row /\ updated' = updated
        /\ reading' = reading /\ preferences' = preferences /\ settings' = settings
        /\ saveBusy' = saveBusy /\ message' = message /\ edited' = edited
    BY DEF Settings!StoreMemory, Settings!pageVars, Settings!shellVars
  <1>3. u \in Settings!Update /\ UpdateInv(u)
    BY DEF SettingsInv, SettingsTypes, UpdatesInv
  <1>4. /\ x \in Settings!Update /\ x.at = "stored"
        /\ x.by = u.by /\ x.value = u.value
    <2>1. \A stage \in {"sent", "written", "stored", "answered"} :
             LET y == [u EXCEPT !.at = stage] IN
             /\ y \in Settings!Update /\ y.at = stage
             /\ y.by = u.by /\ y.value = u.value /\ y.overlapped = u.overlapped
      BY <1>3, UpdateFields, Zenon
    <2>2. "stored" \in {"sent", "written", "stored", "answered"}
      OBVIOUS
    <2> QED BY <2>1, <2>2, Zenon
  <1> HIDE DEF x
  <1>5. ~u.overlapped => row = u.value /\ \A w \in updates \ {u} : w.at # "written"
    BY <1>1, <1>3, Zenon DEF UpdateInv, SettingsInv, UpdatesInv, PairInv
  <1>6. UpdateInv(x)'
    <2>1. x.at # "written" /\ u.at # "answered" /\ x' = x
      BY <1>1, <1>4
    <2> QED BY <1>1, <1>2, <1>3, <1>4, <1>5, <2>1, Zenon DEF UpdateInv
  <1>7. u.by = "page" => ~message
    BY <1>3, Zenon DEF UpdateInv
  <1>8. ASSUME NEW w \in updates \ {u} PROVE UpdateInv(w)'
    <2>1. UpdateInv(w) /\ (w.by = "page" => disturbed')
      BY <1>1, Zenon DEF SettingsInv, UpdatesInv, PairInv
    <2> QED BY <1>2, <2>1, Zenon DEF UpdateInv
  <1>9. SettingsTypes' /\ UpdatesInv'
    <2>1. x.at # "written" /\ row' \in Valid
      BY <1>2, <1>4 DEF SettingsInv, SettingsTypes
    <2>2. memory' \in Valid /\ x.value \in Valid
      BY <1>1, <1>4 DEF SettingsInv, SettingsTypes
    <2> QED BY <1>1, <1>2, <1>4, <1>6, <1>8, <2>1, <2>2, OneChanged
  <1>10. FormInv'
    BY <1>2, Zenon DEF SettingsInv, FormInv, OneValue
  <1>11. SettingsHold'
    <2>1. ~torn' => memory' = row'
      BY <1>1, <1>2, <1>5, Zenon
    <2>2. message' => disturbed'
      BY <1>1, <1>2, <1>7, Zenon
    <2> QED BY <2>1, <2>2, Zenon DEF SettingsHold, Settings!SettingsAgree, Settings!SavedHolds
  <1> QED BY <1>9, <1>10, <1>11 DEF SettingsInv
\* The answer is the copy in memory as it is.
LEMMA ReplyKept ==
  ASSUME SettingsInv, NEW u \in updates, Settings!Reply(u)
  PROVE  SettingsInv'
  <1>1. /\ u.at = "stored"
        /\ updates' = (updates \ {u}) \cup {[u EXCEPT !.at = "answered", !.value = memory]}
    BY DEF Settings!Reply
  <1>2. /\ row' = row /\ memory' = memory /\ torn' = torn /\ updated' = updated
        /\ reading' = reading /\ preferences' = preferences /\ settings' = settings
        /\ saveBusy' = saveBusy /\ message' = message /\ edited' = edited
        /\ disturbed' = disturbed /\ overtaken' = overtaken
    BY DEF Settings!Reply, Settings!pageVars, Settings!shellVars, Settings!serverVars
  <1>3. u \in Settings!Update /\ UpdateInv(u) /\ memory \in Valid /\ row \in Valid
    BY DEF SettingsInv, SettingsTypes, UpdatesInv
  <1>4. PICK x \in Settings!Update :
           /\ updates' = (updates \ {u}) \cup {x}
           /\ x.at = "answered" /\ x.by = u.by /\ x.value = memory
    <2>1. memory \in Values
      BY <1>3, SettingsAssumption
    <2>2. \A v \in Values :
             LET x == [u EXCEPT !.at = "answered", !.value = v] IN
             /\ x \in Settings!Update /\ x.at = "answered" /\ x.value = v
             /\ x.by = u.by /\ x.overlapped = u.overlapped
      BY <1>3, UpdateFields, Zenon
    <2> QED BY <1>1, <2>1, <2>2, Zenon
  <1>5. x.at # "written" /\ x.value \in Valid /\ u.at # "answered" /\ u.at # "written"
    BY <1>1, <1>3, <1>4
  <1>6. UpdateInv(x)'
    BY <1>1, <1>2, <1>3, <1>4, <1>5, Zenon DEF UpdateInv
  <1>7. \A w \in updates \ {u} : UpdateInv(w)'
    BY <1>2, UpdateKept DEF SettingsInv, UpdatesInv
  <1>8. SettingsTypes' /\ UpdatesInv'
    BY <1>1, <1>2, <1>3, <1>4, <1>5, <1>6, <1>7, OneChanged
  <1>9. FormInv'
    BY <1>2, Zenon DEF SettingsInv, FormInv, OneValue
  <1>10. (\A w \in updates' : w.at # "written") => \A w \in updates : w.at # "written"
    BY <1>4, <1>5, Zenon
  <1>11. SettingsHold'
    BY <1>2, <1>10, Zenon
       DEF SettingsInv, SettingsHold, Settings!SettingsAgree, Settings!SavedHolds
  <1> QED BY <1>8, <1>9, <1>11 DEF SettingsInv

\* An update that ends is answered, refused, or cut short where it is.
LEMMA EndsKept ==
  ASSUME SettingsInv, NEW u \in updates,
         Settings!Refuse(u) \/ Settings!Drop(u) \/ Settings!Answer(u)
  PROVE  SettingsInv'
  <1>1. /\ row' = row /\ memory' = memory /\ updated' = updated /\ reading' = reading
        /\ preferences' = preferences /\ edited' = edited
    BY DEF Settings!Refuse, Settings!Drop, Settings!Answer, Settings!serverVars
  <1>2. UpdateInv(u)
    BY DEF SettingsInv, UpdatesInv
  <1>3. CASE Settings!Refuse(u)
    <2>1. /\ Settings!Ended(u, FALSE) /\ u.at = "sent" /\ torn' = torn
          /\ disturbed' = disturbed /\ settings' = settings /\ overtaken' = overtaken
      BY <1>3 DEF Settings!Refuse, Settings!serverVars, Settings!shellVars
    <2>2. SettingsTypes' /\ FormInv' /\ UpdatesInv'
      BY <1>1, <2>1, EndedKept
    <2>3. /\ updates' = updates \ {u} /\ u.at # "written"
          /\ message' => message
      BY <2>1 DEF Settings!Ended, Settings!Message
    <2>4. SettingsHold'
      BY <1>1, <2>1, <2>3, Zenon
         DEF SettingsInv, SettingsHold, Settings!SettingsAgree, Settings!SavedHolds
    <2> QED BY <2>2, <2>4 DEF SettingsInv
  <1>4. CASE Settings!Drop(u)
    <2>1. /\ Settings!Ended(u, FALSE) /\ torn' = (torn \/ u.at = "written")
          /\ disturbed' = disturbed /\ settings' = settings /\ overtaken' = overtaken
      BY <1>4 DEF Settings!Drop, Settings!shellVars
    <2>2. SettingsTypes' /\ FormInv' /\ UpdatesInv'
      BY <1>1, <2>1, EndedKept
    <2>3. updates' = updates \ {u} /\ (message' => message)
      BY <2>1 DEF Settings!Ended, Settings!Message
    <2>4. SettingsHold'
      BY <1>1, <2>1, <2>3, Zenon
         DEF SettingsInv, SettingsHold, Settings!SettingsAgree, Settings!SavedHolds
    <2> QED BY <2>2, <2>4 DEF SettingsInv
  <1>5. CASE Settings!Answer(u)
    <2>1. /\ Settings!Ended(u, TRUE) /\ u.at = "answered" /\ torn' = torn
          /\ IF u.by = "other" THEN UNCHANGED <<settings, overtaken>>
             ELSE settings' = {u.value} /\ overtaken' = FALSE
          /\ disturbed' = (disturbed \/ u.by = "left")
      BY <1>5 DEF Settings!Answer, Settings!serverVars
    <2>2. disturbed => disturbed'
      BY <2>1, Zenon
    <2>3. SettingsTypes' /\ FormInv' /\ UpdatesInv'
      BY <1>1, <2>1, <2>2, EndedKept
    <2>4. updates' = updates \ {u} /\ u.at # "written"
      BY <2>1 DEF Settings!Ended
    <2>5. Settings!SettingsAgree'
      BY <1>1, <2>1, <2>4, Zenon DEF SettingsInv, SettingsHold, Settings!SettingsAgree
    <2>6. Settings!SavedHolds'
      <3>1. CASE u.by = "page"
        <4>1. settings' = {u.value}
          BY <2>1, <3>1
        <4>2. u.at \in {"stored", "answered"}
          BY <2>1
        <4> QED BY <1>1, <1>2, <2>2, <3>1, <4>1, <4>2, Zenon DEF UpdateInv, Settings!SavedHolds
      <3>2. CASE u.by = "left"
        BY <2>1, <3>2, Zenon DEF Settings!SavedHolds
      <3>3. CASE u.by = "other"
        <4>1. message' = message /\ settings' = settings /\ overtaken' = overtaken
          BY <2>1, <3>3 DEF Settings!Ended
        <4> QED BY <1>1, <2>2, <4>1, Zenon DEF SettingsInv, SettingsHold, Settings!SavedHolds
      <3> QED BY <3>1, <3>2, <3>3 DEF SettingsInv, SettingsTypes, Settings!Update
    <2> QED BY <2>3, <2>5, <2>6 DEF SettingsInv, SettingsHold
  <1> QED BY <1>3, <1>4, <1>5
\* After a restart nothing is between its writes, and memory is the row.
LEMMA RestartKept ==
  ASSUME SettingsInv, Settings!Restart
  PROVE  SettingsInv'
  <1>1. /\ memory' = row /\ row' = row /\ updated' = updated
        /\ reading' = reading /\ preferences' = preferences /\ settings' = settings
        /\ overtaken' = overtaken /\ message' = message /\ edited' = edited
        /\ updates' = {u \in updates : u.at = "answered"}
    BY DEF Settings!Restart, Settings!shellVars
  <1>2. /\ disturbed' = (disturbed \/ memory' # memory)
        /\ saveBusy' = (\E u \in updates' : u.by = "page")
    BY Zenon DEF Settings!Restart
  <1>3. ASSUME NEW u \in updates'
        PROVE  /\ u \in updates /\ u.at = "answered" /\ u.at # "written"
               /\ UpdateInv(u)
    BY <1>1 DEF SettingsInv, UpdatesInv
  <1>4. ASSUME NEW u \in updates' PROVE UpdateInv(u)'
    <2>1. u.by = "page" => saveBusy'
      BY <1>2, Zenon
    <2>2. ~disturbed' => ~disturbed /\ memory' = memory
      BY <1>2, Zenon
    <2> QED BY <1>1, <1>3, <2>1, <2>2, Zenon DEF UpdateInv
  <1>5. UpdatesInv'
    BY <1>3, <1>4, Zenon DEF SettingsInv, UpdatesInv, PairInv
  <1>6. SettingsTypes'
    BY <1>1 DEF SettingsInv, SettingsTypes
  <1>7. FormInv'
    BY <1>1, Zenon DEF SettingsInv, FormInv, OneValue
  <1>8. SettingsHold'
    BY <1>1, <1>2, Zenon
       DEF SettingsInv, SettingsHold, Settings!SettingsAgree, Settings!SavedHolds
  <1> QED BY <1>5, <1>6, <1>7, <1>8 DEF SettingsInv

\* A page that is entered again has no update of its own.
LEMMA ReenterKept ==
  ASSUME SettingsInv, Settings!Reenter
  PROVE  SettingsInv'
  <1> DEFINE f == [u \in updates |-> IF u.by = "page" THEN [u EXCEPT !.by = "left"] ELSE u]
  <1>1. /\ row' = row /\ memory' = memory /\ torn' = torn /\ updated' = updated
        /\ preferences' = {} /\ message' = FALSE
        /\ reading' = Settings!Asked
    BY DEF Settings!Reenter, Settings!serverVars
  <1>2. updates' = {f[u] : u \in updates}
    BY Zenon DEF Settings!Reenter
  <1>3. ASSUME NEW u \in updates
        PROVE  /\ f[u] \in Settings!Update /\ f[u].by # "page"
               /\ f[u].overlapped = u.overlapped
               /\ f[u].value = u.value /\ f[u].at = u.at
    <2>1. u \in Settings!Update
      BY DEF SettingsInv, SettingsTypes
    <2>2. CASE u.by = "page"
      <3>1. f[u] = [u EXCEPT !.by = "left"]
        BY <2>2
      <3>2. "left" # "page"
        OBVIOUS
      <3> QED BY <2>1, <3>1, <3>2, UpdateFields, Zenon
    <2>3. CASE u.by # "page"
      <3>1. f[u] = u
        BY <2>3
      <3> QED BY <2>1, <2>3, <3>1, Zenon
    <2> QED BY <2>2, <2>3
  <1> HIDE DEF f
  <1>4. SettingsTypes'
    BY <1>1, <1>2, <1>3 DEF SettingsInv, SettingsTypes
  <1>5. FormInv'
    <2>1. reading'.found = {}
      BY <1>1 DEF Settings!Asked
    <2> QED BY <1>1, <2>1, Zenon DEF FormInv, OneValue
  <1>6. \A u, w \in updates' : u # w => PairInv(u, w)
    <2>1. \A y, z \in updates : y # z /\ f[y].at = "written" /\ f[z].at = "written" =>
             f[y].overlapped
      <3> SUFFICES ASSUME NEW y \in updates, NEW z \in updates, y # z,
                          f[y].at = "written", f[z].at = "written"
                   PROVE  f[y].overlapped
        OBVIOUS
      <3>1. y.at = "written" /\ z.at = "written"
        BY <1>3
      <3>2. PairInv(y, z)
        BY Zenon DEF SettingsInv, UpdatesInv
      <3> QED BY <1>3, <3>1, <3>2, Zenon DEF PairInv
    <2>2. \A y \in updates : f[y].by = "page" => y.by = "page"
      BY <1>3, Zenon
    <2>3. UpdatesInv
      BY DEF SettingsInv
    <2> QED BY <1>2, <2>1, <2>2, <2>3, PairsKept, Zenon
  <1>7. ASSUME NEW x \in updates' PROVE UpdateInv(x)'
    <2>1. PICK y \in updates : x = f[y]
      BY <1>2, Zenon
    <2>2. UpdateInv(y)
      BY DEF SettingsInv, UpdatesInv
    <2> QED BY <1>1, <1>3, <2>1, <2>2, Zenon DEF UpdateInv
  <1>8. UpdatesInv'
    BY <1>6, <1>7, Zenon DEF UpdatesInv, PairInv
  <1>9. (\A w \in updates' : w.at # "written") => \A w \in updates : w.at # "written"
    BY <1>2, <1>3, Zenon
  <1>10. SettingsHold'
    BY <1>1, <1>9, Zenon
       DEF SettingsInv, SettingsHold, Settings!SettingsAgree, Settings!SavedHolds
  <1> QED BY <1>4, <1>5, <1>8, <1>10 DEF SettingsInv

\* Every step of the settings page keeps its invariant.
LEMMA SettingsKept == SettingsInv /\ ShellInv /\ [Settings!Next]_settingsVars => SettingsInv'
  <1> SUFFICES ASSUME SettingsInv, ShellInv, [Settings!Next]_settingsVars
               PROVE  SettingsInv'
    OBVIOUS
  <1>0. SettingsTypes /\ FormInv /\ UpdatesInv /\ SettingsHold
    BY DEF SettingsInv
  \* The page is not busy with an update while it loads.
  <1>1. ASSUME reading.at # "none" PROVE \A u \in updates : u.by # "page"
    BY <1>0, <1>1, Zenon DEF UpdatesInv, UpdateInv
  <1>2. ASSUME UNCHANGED <<row, memory, torn, updates, updated, settings, overtaken, message,
                           disturbed>>,
               UpdatesInv', FormInv', message => edited' \/ UNCHANGED <<preferences, edited>>
        PROVE  SettingsInv'
    <2>1. row' = row /\ memory' = memory /\ torn' = torn /\ updates' = updates
          /\ updated' = updated
          /\ settings' = settings /\ overtaken' = overtaken /\ message' = message
          /\ disturbed' = disturbed
      BY <1>2
    <2>2. SettingsTypes'
      BY <1>0, <2>1 DEF SettingsTypes
    <2>3. message => edited' \/ (preferences' = preferences /\ edited' = edited)
      BY <1>2
    <2>4. SettingsHold'
      BY <1>0, <2>1, <2>3, Zenon DEF SettingsHold, Settings!SettingsAgree, Settings!SavedHolds
    <2> QED BY <1>2, <2>2, <2>4 DEF SettingsInv
  <1>3. CASE Settings!ServeLoad
    <2>1. reading.at = "asked" /\ reading' = [at |-> "served", found |-> {memory}]
      BY <1>3 DEF Settings!ServeLoad
    <2>2. UNCHANGED <<row, memory, torn, updates, updated, preferences, settings, overtaken, saveBusy,
                      message, edited, disturbed>>
      BY <1>3 DEF Settings!ServeLoad, Settings!serverVars, Settings!shellVars
    <2>3. UpdatesInv'
      BY <1>0, <1>1, <2>1, <2>2, UpdatesKept
    <2>4. FormInv'
      <3>1. reading'.found = {memory} /\ memory \in Values /\ preferences = {} /\ ~message
        BY <1>0, <2>1, SettingsAssumption DEF FormInv, SettingsTypes
      <3>2. preferences' = preferences /\ message' = message
        BY <2>2
      <3> QED BY <3>1, <3>2, Zenon DEF FormInv, OneValue
    <2> QED BY <1>2, <2>2, <2>3, <2>4
  <1>4. CASE Settings!Load
    <2>1. /\ reading.at # "none" /\ preferences' = reading.found
          /\ reading' = Settings!NotAsked
      BY <1>4 DEF Settings!Load
    <2>2. UNCHANGED <<row, memory, torn, updates, updated, settings, overtaken, saveBusy, message,
                      edited, disturbed>>
      BY <1>4 DEF Settings!Load, Settings!serverVars, Settings!shellVars
    <2>3. UpdatesInv'
      BY <1>0, <1>1, <2>1, <2>2, UpdatesKept
    <2>4. reading'.at = "none" /\ reading'.found = {} /\ ~message
      BY <1>0, <2>1 DEF Settings!NotAsked, FormInv
    <2>5. FormInv'
      BY <1>0, <2>1, <2>4, Zenon DEF FormInv, OneValue
    <2> QED BY <1>2, <2>2, <2>3, <2>4, <2>5
  <1>5. CASE Settings!Edit
    <2>1. PICK v \in Values : preferences' = {v}
      BY <1>5 DEF Settings!Edit
    <2>2. preferences # {} /\ edited'
      BY <1>5 DEF Settings!Edit
    <2>3. UNCHANGED <<row, memory, torn, updates, updated, reading, settings, overtaken, saveBusy,
                      message, disturbed>>
      BY <1>5 DEF Settings!Edit, Settings!serverVars, Settings!shellVars
    <2>4. UpdatesInv'
      BY <1>0, <2>2, <2>3, UpdatesKept
    <2>5. reading' = reading /\ message' = message
      BY <2>3
    <2>6. FormInv'
      BY <1>0, <2>1, <2>2, <2>5, Zenon DEF FormInv, OneValue
    <2> QED BY <1>2, <2>2, <2>3, <2>4, <2>6
  <1>6. ASSUME NEW by \in {"page", "other"}, NEW v \in Values, Settings!Send(by, v),
               row' = row, memory' = memory, torn' = torn
        PROVE  (\A u \in updates' : u.at # "written") => \A u \in updates : u.at # "written"
    BY <1>6 DEF Settings!Send
  <1>7. CASE Settings!Save
    <2>1. PICK v \in preferences : Settings!Send("page", v)
      BY <1>7, Zenon DEF Settings!Save
    <2>2. /\ ~saveBusy /\ saveBusy' /\ ~message'
          /\ row' = row /\ memory' = memory /\ torn' = torn /\ reading' = reading
          /\ preferences' = preferences /\ disturbed' = disturbed
      BY <1>7 DEF Settings!Save, Settings!serverVars
    <2>3. v \in Values /\ preferences = {v} /\ reading.at = "none"
      <3>1. v \in Values /\ (\A w \in preferences : w = v) /\ preferences # {}
        BY <1>0, <2>1, Zenon DEF FormInv, OneValue
      <3> QED BY <1>0, <3>1 DEF FormInv
    <2>4. SettingsTypes' /\ UpdatesInv'
      BY <2>1, <2>2, <2>3, SentKept
    <2>5. FormInv'
      BY <1>0, <2>2, Zenon DEF FormInv, OneValue
    <2>6. SettingsHold'
      BY <1>0, <1>6, <2>1, <2>2, <2>3, Zenon
         DEF SettingsHold, Settings!SettingsAgree, Settings!SavedHolds
    <2> QED BY <2>4, <2>5, <2>6 DEF SettingsInv
  <1>8. CASE Settings!Elsewhere
    <2>1. PICK v \in Values : Settings!Send("other", v)
      BY <1>8, Zenon DEF Settings!Elsewhere
    <2>2. /\ row' = row /\ memory' = memory /\ torn' = torn /\ reading' = reading
          /\ preferences' = preferences /\ disturbed' = disturbed /\ settings' = settings
          /\ overtaken' = overtaken /\ saveBusy' = saveBusy /\ message' = message /\ edited' = edited
      BY <1>8 DEF Settings!Elsewhere, Settings!serverVars, Settings!pageVars, Settings!shellVars
    <2>3. SettingsTypes' /\ UpdatesInv'
      BY <2>1, <2>2, SentKept
    <2>4. FormInv'
      BY <1>0, <2>2, Zenon DEF FormInv, OneValue
    <2>5. SettingsHold'
      BY <1>0, <1>6, <2>1, <2>2, Zenon
         DEF SettingsHold, Settings!SettingsAgree, Settings!SavedHolds
    <2> QED BY <2>3, <2>4, <2>5 DEF SettingsInv
  <1>9. ASSUME NEW u \in updates, Settings!Handled(u) PROVE SettingsInv'
    <2>1. CASE Settings!WriteRow(u)
      BY <2>1, WriteRowKept DEF SettingsInv
    <2>2. CASE Settings!StoreMemory(u)
      BY <2>2, StoreMemoryKept
    <2>3. CASE Settings!Reply(u)
      BY <2>3, ReplyKept
    <2>4. CASE Settings!Refuse(u) \/ Settings!Drop(u) \/ Settings!Answer(u)
      BY <2>4, EndsKept
    <2> QED BY <1>9, <2>1, <2>2, <2>3, <2>4 DEF Settings!Handled
  <1>10. CASE UNCHANGED settingsVars
    <2>1. UNCHANGED <<row, memory, torn, updates, updated, reading, preferences, settings,
                      overtaken, saveBusy, message, edited, disturbed>>
      BY <1>10 DEF settingsVars
    <2>2. UpdatesInv'
      BY <1>0, <2>1, UpdatesKept
    <2>3. reading' = reading /\ preferences' = preferences /\ message' = message
      BY <2>1
    <2>4. FormInv'
      BY <1>0, <2>3, Zenon DEF FormInv, OneValue
    <2> QED BY <1>2, <2>1, <2>2, <2>4
  <1>11. ASSUME NEW s \in Starts, Settings!StartStep(s) PROVE SettingsInv'
    <2>1. /\ row' = row /\ memory' = memory /\ torn' = torn /\ updates' = updates
          /\ updated' = updated /\ reading' = reading /\ preferences' = preferences
          /\ saveBusy' = saveBusy /\ message' = message /\ edited' = edited
          /\ disturbed' = disturbed
      BY <1>11 DEF Settings!StartStep, Settings!ServeStart, Settings!Started, Settings!StartFails,
                   Settings!serverVars
    <2>2. SettingsTypes'
      BY <1>0, <2>1 DEF SettingsTypes
    <2>3. FormInv'
      BY <1>0, <2>1, Zenon DEF FormInv, OneValue
    <2>4. UpdatesInv'
      BY <1>0, <2>1, UpdatesKept
    <2>5. Settings!SettingsAgree'
      BY <1>0, <2>1, Zenon DEF SettingsHold, Settings!SettingsAgree
    <2>6. CASE settings' = settings /\ overtaken' = overtaken
      <3>1. Settings!SavedHolds'
        BY <1>0, <2>1, <2>6, Zenon DEF SettingsHold, Settings!SavedHolds
      <3> QED BY <2>2, <2>3, <2>4, <2>5, <3>1 DEF SettingsInv, SettingsHold
    <2>7. CASE Settings!Started(s)
      <3>1. starting[s].at = "served" /\ settings' = starting[s].found /\ overtaken' = starting[s].old
        BY <2>7 DEF Settings!Started
      <3>2. disturbed \/ overtaken' \/ settings' = {memory}
        BY <3>1, Zenon DEF ShellInv
      <3>3. Settings!SavedHolds'
        BY <1>0, <2>1, <3>2, Zenon DEF SettingsHold, Settings!SavedHolds
      <3> QED BY <2>2, <2>3, <2>4, <2>5, <3>3 DEF SettingsInv, SettingsHold
    <2> QED BY <1>11, <2>6, <2>7
        DEF Settings!StartStep, Settings!ServeStart, Settings!StartFails
  <1> QED BY <1>3, <1>4, <1>5, <1>7, <1>8, <1>9, <1>10, <1>11, RestartKept, ReenterKept
          DEF Settings!Next

\* What an answer waits with when it is served, ends, or an update is stored.
LEMMA StartFields ==
  ASSUME NEW v \in Valid, NEW b \in BOOLEAN
  PROVE  /\ [at |-> "served", found |-> {v}, old |-> FALSE] \in Settings!Starting
         /\ Settings!StartAsked \in Settings!Starting /\ Settings!StartAsked.at = "asked"
         /\ Settings!StartEnded \in Settings!Starting /\ Settings!StartEnded.at = "none"
         /\ \A x \in Settings!Starting :
              LET y == [x EXCEPT !.old = b] IN
              y \in Settings!Starting /\ y.at = x.at /\ y.old = b
  BY DEF Settings!Starting, Settings!StartAsked, Settings!StartEnded

\* No start has been served when the shell is first entered.
LEMMA ShellInit == Init => ShellInv
  <1> SUFFICES ASSUME Init PROVE ShellInv
    OBVIOUS
  <1>1. PICK s \in Starts : starting = [t \in Starts |-> IF t = s THEN Settings!StartAsked
                                                         ELSE Settings!StartEnded]
    BY DEF Init, Settings!Init
  <1> QED BY <1>1, StartFields, SettingsAssumption DEF ShellInv

\* Memory changes with a note to the starts that are under way, or with a restart.
LEMMA ShellKept == ShellInv /\ SettingsTypes /\ [Settings!Next]_settingsVars => ShellInv'
  <1> SUFFICES ASSUME ShellInv, SettingsTypes, [Settings!Next]_settingsVars
               PROVE  ShellInv'
    OBVIOUS
  <1>1. ASSUME starting' = starting, memory' = memory \/ disturbed', disturbed => disturbed'
        PROVE  ShellInv'
    BY <1>1, Zenon DEF ShellInv
  <1>2. CASE Settings!ServeLoad \/ Settings!Load \/ Settings!Edit \/ Settings!Save
               \/ Settings!Elsewhere
    <2>1. starting' = starting /\ memory' = memory /\ disturbed' = disturbed
      BY <1>2 DEF Settings!ServeLoad, Settings!Load, Settings!Edit, Settings!Save,
                  Settings!Elsewhere, Settings!serverVars, Settings!pageVars, Settings!shellVars
    <2> QED BY <1>1, <2>1
  <1>3. CASE Settings!Restart
    <2>1. starting' = starting /\ disturbed' = (disturbed \/ memory' # memory)
      BY <1>3 DEF Settings!Restart, Settings!shellVars
    <2> QED BY <1>1, <2>1, Zenon
  <1>4. ASSUME NEW u \in updates,
               Settings!Refuse(u) \/ Settings!WriteRow(u) \/ Settings!Reply(u)
                 \/ Settings!Drop(u) \/ Settings!Answer(u)
        PROVE  ShellInv'
    <2>1. starting' = starting /\ memory' = memory
      BY <1>4 DEF Settings!Refuse, Settings!WriteRow, Settings!Reply, Settings!Drop,
                  Settings!Answer, Settings!serverVars, Settings!pageVars, Settings!shellVars
    <2>2. disturbed => disturbed'
      BY <1>4, Zenon DEF Settings!Refuse, Settings!WriteRow, Settings!Reply, Settings!Drop,
                         Settings!Answer
    <2> QED BY <1>1, <2>1, <2>2
  <1>5. ASSUME NEW u \in updates, Settings!StoreMemory(u) PROVE ShellInv'
    <2>1. starting' = [s \in Starts |-> [starting[s] EXCEPT !.old = starting[s].at = "served"]]
      BY <1>5 DEF Settings!StoreMemory
    <2>2. ASSUME NEW s \in Starts
          PROVE  starting'[s] \in Settings!Starting /\ (starting'[s].at = "served" => starting'[s].old)
      <3>1. starting[s] \in Settings!Starting
        BY DEF ShellInv
      <3>2. starting'[s] = [starting[s] EXCEPT !.old = starting[s].at = "served"]
        BY <2>1
      <3>3. CASE starting[s].at = "served"
        <4>1. starting'[s] = [starting[s] EXCEPT !.old = TRUE]
          BY <3>2, <3>3
        <4> QED BY <3>1, <4>1, StartFields, SettingsAssumption
      <3>4. CASE starting[s].at # "served"
        <4>1. starting'[s] = [starting[s] EXCEPT !.old = FALSE]
          BY <3>2, <3>4
        <4> QED BY <3>1, <3>4, <4>1, StartFields, SettingsAssumption
      <3> QED BY <3>3, <3>4
    <2> QED BY <2>1, <2>2 DEF ShellInv
  <1>6. ASSUME NEW s \in Starts, Settings!StartStep(s) PROVE ShellInv'
    <2>1. memory' = memory /\ disturbed' = disturbed /\ memory \in Valid
      BY <1>6 DEF Settings!StartStep, Settings!ServeStart, Settings!Started, Settings!StartFails,
                  Settings!serverVars, SettingsTypes
    <2>2. PICK x \in Settings!Starting :
             /\ starting' = [starting EXCEPT ![s] = x]
             /\ x.at = "served" => x.found = {memory}
      BY <1>6, <2>1, StartFields
         DEF Settings!StartStep, Settings!ServeStart, Settings!Started, Settings!StartFails
    <2> QED BY <2>1, <2>2 DEF ShellInv
  <1>7. CASE Settings!Reenter
    <2>1. memory' = memory /\ disturbed' = disturbed
      BY <1>7 DEF Settings!Reenter, Settings!serverVars
    <2>2. CASE starting' = starting
      BY <1>1, <2>1, <2>2
    <2>3. CASE \E s \in Starts : starting' = [starting EXCEPT ![s] = Settings!StartAsked]
      BY <2>1, <2>3, StartFields, SettingsAssumption DEF ShellInv
    <2> QED BY <1>7, <2>2, <2>3 DEF Settings!Reenter
  <1>8. CASE UNCHANGED settingsVars
    BY <1>1, <1>8 DEF settingsVars
  <1> QED BY <1>2, <1>3, <1>4, <1>5, <1>6, <1>7, <1>8 DEF Settings!Next, Settings!Handled

\* The settings in effect are those of the database, unless an update was cut
\* short or met another; "Settings saved" is true (settings.rs, update;
\* settings.ts, save).
THEOREM SavedSettingsHold == Spec => []SettingsHold
  <1>1. SettingsInv /\ ShellInv /\ [Next]_vars => SettingsInv' /\ ShellInv'
    BY Steps, SettingsKept, ShellKept DEF SettingsInv
  <1>2. SettingsInv => SettingsHold
    BY DEF SettingsInv
  <1> QED BY SettingsInit, ShellInit, <1>1, <1>2, PTL DEF Spec
-----------------------------------------------------------------------------
(***************************************************************************)
(* The Destinations page.                                                  *)
(***************************************************************************)
\* The fields of a draft, or of what is sent, that are not touched are those
\* of the row it was made from.
Untouched(body, was, changed) ==
    /\ body.meta = was.meta \/ "meta" \in changed
    /\ body.enabled = was.enabled \/ "enabled" \in changed

IsDraft(d) == d = [meta |-> d.meta, enabled |-> d.enabled, key |-> d.key]

DraftInv ==
    /\ IsDraft(draft)
    /\ editingId # "" => Untouched(draft, base, touched)

IsRequest(r) ==
    r = [kind |-> r.kind, id |-> r.id, body |-> r.body, base |-> r.base,
         touched |-> r.touched, own |-> r.own]

RequestInv(r) ==
    /\ IsRequest(r)
    /\ r.kind # "remove" /\ r.id # "" => Untouched(r.body, r.base, r.touched)

\* What the page waits for is one thing at a time, and holds its buttons.
WaitInv ==
    /\ \A r \in sent : r.own =>
          /\ changeBusy /\ work.outcome = "none" /\ again.at = "none"
          /\ \A q \in sent : q.own => q = r
    /\ work.outcome # "none" => changeBusy /\ again.at = "none"
    /\ again.at # "none" => changeBusy

TableInv == DOMAIN table \subseteq Ids

DestinationsInv ==
    /\ TableInv /\ DraftInv
    /\ \A r \in sent : RequestInv(r)
    /\ WaitInv
    /\ ItemsAgree

\* The destinations page's invariant holds at first.
LEMMA DestinationsInit == Init => DestinationsInv
  <1> SUFFICES ASSUME Init PROVE DestinationsInv
    OBVIOUS
  <1>1. Destinations!Init
    BY DEF Init
  <1>2. TableInv
    <2>1. table = [d \in {CHOOSE d \in Ids : TRUE} |-> Destinations!Seeded]
      BY <1>1 DEF Destinations!Init
    <2>2. Ids # {}
      BY DestinationsAssumption, Zenon
    <2>3. (CHOOSE d \in Ids : TRUE) \in Ids
      BY <2>2
    <2> QED BY <2>1, <2>3 DEF TableInv
  <1>3. DraftInv
    <2>1. draft = Destinations!blank /\ editingId = ""
      BY <1>1, Zenon DEF Destinations!Init
    <2>2. IsDraft(draft)
      BY <2>1 DEF IsDraft, Destinations!blank
    <2> QED BY <2>1, <2>2, Zenon DEF DraftInv
  <1>4. /\ sent = {} /\ work.outcome = "none" /\ again.at = "none" /\ first.at # "none"
    <2>1. sent = {} /\ work = Destinations!NoWork /\ again = Destinations!NoRead
          /\ first = Destinations!Asked
      BY <1>1, Zenon DEF Destinations!Init
    <2> QED BY <2>1 DEF Destinations!NoWork, Destinations!NoRead, Destinations!Asked
  <1>5. WaitInv /\ ItemsAgree /\ \A r \in sent : RequestInv(r)
    BY <1>4, Zenon DEF WaitInv, ItemsAgree, Destinations!ItemsAgree
  <1> QED BY <1>2, <1>3, <1>5 DEF DestinationsInv

\* What leaves the table, the requests and what the page waits for alone.
LEMMA DialogKept ==
  ASSUME DestinationsInv, DraftInv', table' = table, sent' = sent, items' = items,
         changeBusy' = changeBusy, work' = work, first' = first, again' = again,
         excused' = excused
  PROVE  DestinationsInv'
  <1>1. TableInv'
    BY DEF DestinationsInv, TableInv
  <1>2. WaitInv'
    BY Zenon DEF DestinationsInv, WaitInv
  <1>3. ItemsAgree'
    <2>1. Destinations!list' = Destinations!list
      BY DEF Destinations!list
    <2> QED BY <2>1, Zenon DEF DestinationsInv, ItemsAgree, Destinations!ItemsAgree
  <1>4. (\A r \in sent : RequestInv(r))'
    BY Zenon DEF DestinationsInv
  <1> QED BY <1>1, <1>2, <1>3, <1>4 DEF DestinationsInv

\* A dialog that is closed leaves a blank draft.
LEMMA BlankDraft == Destinations!CloseDialog => DraftInv'
  <1> SUFFICES ASSUME Destinations!CloseDialog PROVE DraftInv'
    OBVIOUS
  <1>1. draft' = Destinations!blank /\ editingId' = ""
    BY Zenon DEF Destinations!CloseDialog
  <1>2. IsDraft(draft)'
    BY <1>1 DEF IsDraft, Destinations!blank
  <1> QED BY <1>1, <1>2, Zenon DEF DraftInv

\* A draft is made from a row and then changed where it is said to be.
LEMMA DraftsKept ==
  ASSUME DestinationsInv,
         \/ \E id \in Ids \cup {""} : Destinations!Open(id)
         \/ Destinations!Edit \/ Destinations!Close
  PROVE  DraftInv'
  <1>0. DraftInv
    BY DEF DestinationsInv
  <1>1. ASSUME NEW id \in Ids \cup {""}, Destinations!Open(id) PROVE DraftInv'
    <2>1. /\ editingId' = id
          /\ base' = IF id = "" THEN Destinations!NoShown ELSE items[id]
          /\ draft' = IF id = "" THEN Destinations!blank ELSE Destinations!DraftOf(items[id])
      BY <1>1, Zenon DEF Destinations!Open
    <2>2. CASE id = ""
      <3>1. draft' = Destinations!blank /\ editingId' = ""
        BY <2>1, <2>2, Zenon
      <3>2. IsDraft(draft)'
        BY <3>1 DEF IsDraft, Destinations!blank
      <3> QED BY <3>1, <3>2, Zenon DEF DraftInv
    <2>3. CASE id # ""
      <3>1. draft' = Destinations!DraftOf(base')
        BY <2>1, <2>3, Zenon
      <3>2. IsDraft(draft)' /\ Untouched(draft, base, touched)'
        BY <3>1 DEF IsDraft, Untouched, Destinations!DraftOf
      <3> QED BY <3>2, Zenon DEF DraftInv
    <2> QED BY <2>2, <2>3
  <1>2. CASE Destinations!Edit
    <2>1. editingId' = editingId /\ base' = base
      BY <1>2 DEF Destinations!Edit
    <2>2. draft = [meta |-> draft.meta, enabled |-> draft.enabled, key |-> draft.key]
      BY <1>0 DEF DraftInv, IsDraft
    <2>3. CASE \E m \in Metas : draft' = [draft EXCEPT !.meta = m] /\ touched' = touched \cup {"meta"}
      <3>1. PICK m \in Metas : draft' = [draft EXCEPT !.meta = m] /\ touched' = touched \cup {"meta"}
        BY <2>3
      <3>2. draft' = [meta |-> m, enabled |-> draft.enabled, key |-> draft.key]
        BY <2>2, <3>1
      <3>3. IsDraft(draft)'
        BY <3>2 DEF IsDraft
      <3>4. draft'.enabled = draft.enabled /\ "meta" \in touched' /\ touched \subseteq touched'
        BY <3>1, <3>2
      <3> QED BY <1>0, <2>1, <3>3, <3>4, Zenon DEF DraftInv, Untouched
    <2>4. CASE draft' = [draft EXCEPT !.enabled = ~@] /\ touched' = touched \cup {"enabled"}
      <3>1. draft' = [meta |-> draft.meta, enabled |-> ~draft.enabled, key |-> draft.key]
        BY <2>2, <2>4
      <3>2. IsDraft(draft)'
        BY <3>1 DEF IsDraft
      <3>3. draft'.meta = draft.meta /\ "enabled" \in touched' /\ touched \subseteq touched'
        BY <2>4, <3>1
      <3> QED BY <1>0, <2>1, <3>2, <3>3, Zenon DEF DraftInv, Untouched
    <2>5. CASE \E k \in {"keep", "typed", "clear"} :
                  draft' = [draft EXCEPT !.key = k] /\ touched' = touched
      <3>1. PICK k \in {"keep", "typed", "clear"} :
               draft' = [draft EXCEPT !.key = k] /\ touched' = touched
        BY <2>5
      <3>2. draft' = [meta |-> draft.meta, enabled |-> draft.enabled, key |-> k]
        BY <2>2, <3>1
      <3>3. IsDraft(draft)'
        BY <3>2 DEF IsDraft
      <3>4. draft'.meta = draft.meta /\ draft'.enabled = draft.enabled /\ touched' = touched
        BY <3>1, <3>2
      <3> QED BY <1>0, <2>1, <3>3, <3>4, Zenon DEF DraftInv, Untouched
    <2> QED BY <1>2, <2>3, <2>4, <2>5, Zenon DEF Destinations!Edit
  <1>3. CASE Destinations!Close
    BY <1>3, BlankDraft DEF Destinations!Close
  <1> QED BY <1>1, <1>2, <1>3
\* A request is sent when nothing is waited for.
LEMMA SendKept ==
  ASSUME DestinationsInv, NEW kind, NEW id, NEW body, NEW was, NEW changed,
         Destinations!Send(kind, id, body, was, changed),
         kind # "remove" /\ id # "" => Untouched(body, was, changed)
  PROVE  DestinationsInv'
  <1>1. ~changeBusy /\ changeBusy' = TRUE
    BY Zenon DEF Destinations!Send
  <1>2. /\ table' = table /\ items' = items /\ draft' = draft /\ editingId' = editingId
        /\ base' = base /\ touched' = touched /\ again' = again
        /\ work' = [kind |-> kind, outcome |-> "none"]
    BY DEF Destinations!Send, Destinations!dialogVars
  <1>3. PICK new : /\ sent' = sent \cup {new}
                   /\ IsRequest(new) /\ new.kind = kind /\ new.id = id /\ new.body = body
                   /\ new.base = was /\ new.touched = changed /\ new.own = TRUE
    <2> DEFINE x == [kind |-> kind, id |-> id, body |-> body, base |-> was,
                     touched |-> changed, own |-> TRUE]
    <2>1. sent' = sent \cup {x}
      BY DEF Destinations!Send
    <2>2. /\ IsRequest(x) /\ x.kind = kind /\ x.id = id /\ x.body = body
          /\ x.base = was /\ x.touched = changed /\ x.own = TRUE
      BY DEF IsRequest
    <2> HIDE DEF x
    <2> QED BY <2>1, <2>2
  <1>4. RequestInv(new)
    BY <1>3, Zenon DEF RequestInv
  <1>5. \A q \in sent' : RequestInv(q)
    BY <1>3, <1>4 DEF DestinationsInv
  <1>6. again.at = "none" /\ \A q \in sent : ~q.own
    BY <1>1, Zenon DEF DestinationsInv, WaitInv
  <1>7. work'.outcome = "none"
    BY <1>2
  <1>8. WaitInv'
    BY <1>1, <1>2, <1>3, <1>6, <1>7, Zenon DEF WaitInv
  <1>9. ItemsAgree'
    BY <1>1, Zenon DEF ItemsAgree, Destinations!ItemsAgree
  <1>10. TableInv' /\ DraftInv'
    BY <1>2, Zenon DEF DestinationsInv, TableInv, DraftInv
  <1> QED BY <1>5, <1>8, <1>9, <1>10 DEF DestinationsInv

\* What a request that is carried out makes of the table: its row is gone, or
\* it is as sent, with the key it had unless that was replaced or cleared.
LEMMA CarriedTable ==
  ASSUME TableInv, NEW r, RequestInv(r), NEW t \in Destinations!Carried(r)
  PROVE  /\ DOMAIN t \subseteq Ids
         /\ r.id \in DOMAIN table /\ r.id \in DOMAIN t =>
              /\ t[r.id].key = table[r.id].key \/ r.body.key # "keep"
              /\ t[r.id].meta = table[r.id].meta \/ "meta" \in r.touched
                   \/ r.base.meta # table[r.id].meta
              /\ t[r.id].enabled = table[r.id].enabled \/ "enabled" \in r.touched
                   \/ r.base.enabled # table[r.id].enabled
  <1> DEFINE saved == Destinations!SavedRow(r, IF r.id \in DOMAIN table
                                               THEN table[r.id].key ELSE "none")
             ids == IF r.id = "" THEN Ids \ DOMAIN table ELSE {r.id} \cap DOMAIN table
  <1>1. ids \subseteq Ids /\ (r.id \in DOMAIN table => r.id # "" /\ ids = {r.id})
    <2>1. r.id \in DOMAIN table => r.id # ""
      BY DestinationsAssumption, Zenon DEF TableInv
    <2>2. CASE r.id = ""
      BY <2>1, <2>2, Zenon
    <2>3. CASE r.id # ""
      <3>1. ids = {r.id} \cap DOMAIN table
        BY <2>3
      <3> HIDE DEF ids
      <3> QED BY <2>1, <3>1 DEF TableInv
    <2> QED BY <2>2, <2>3
  <1>2. CASE r.kind = "remove"
    <2>1. PICK id \in ids : t = Destinations!Without(id)
      BY <1>2, Zenon DEF Destinations!Carried
    <2> HIDE DEF ids
    <2>2. DOMAIN t = DOMAIN table \ {id}
      BY <2>1 DEF Destinations!Without, Destinations!Restrict
    <2> QED BY <1>1, <2>2 DEF TableInv
  <1>3. CASE r.kind # "remove"
    <2>1. PICK id \in ids : t = Destinations!With(id, saved)
      BY <1>3, Zenon DEF Destinations!Carried
    <2> HIDE DEF ids
    <2>2. DOMAIN t = DOMAIN table \cup {id} /\ t[id] = saved
      <3> HIDE DEF saved
      <3> QED BY <2>1 DEF Destinations!With
    <2>3. DOMAIN t \subseteq Ids
      BY <1>1, <2>2 DEF TableInv
    <2>4. ASSUME r.id \in DOMAIN table
          PROVE  /\ t[r.id].meta = r.body.meta /\ t[r.id].enabled = r.body.enabled
                 /\ t[r.id].key = table[r.id].key \/ r.body.key # "keep"
      <3>1. t[r.id] = saved
        BY <1>1, <2>1, <2>2, <2>4
      <3>2. saved = [meta |-> r.body.meta, enabled |-> r.body.enabled,
                     key |-> Destinations!KeyAfter(r.body, table[r.id].key)]
        BY <2>4 DEF Destinations!SavedRow
      <3>3. r.body.key = "keep" =>
               Destinations!KeyAfter(r.body, table[r.id].key) = table[r.id].key
        BY DEF Destinations!KeyAfter
      <3> HIDE DEF saved
      <3> QED BY <3>1, <3>2, <3>3
    <2>5. r.id \in DOMAIN table => Untouched(r.body, r.base, r.touched)
      BY <1>1, <1>3, Zenon DEF RequestInv
    <2> QED BY <2>3, <2>4, <2>5, Zenon DEF Untouched
  <1> QED BY <1>2, <1>3

\* A request is carried out, refused or lost.
LEMMA ServeKept ==
  ASSUME DestinationsInv, NEW r \in sent, Destinations!Serve(r)
  PROVE  DestinationsInv'
  <1>1. PICK t \in Destinations!Carried(r) \cup {table}, outcome \in {"ok", "error"} :
           /\ table' = t
           /\ work' = IF r.own THEN [work EXCEPT !.outcome = outcome] ELSE work
           /\ excused' = (excused \/ (t # table /\ ~r.own))
    BY Zenon DEF Destinations!Serve
  <1>2. /\ sent' = sent \ {r} /\ items' = items /\ draft' = draft /\ editingId' = editingId
        /\ base' = base /\ touched' = touched /\ again' = again /\ first' = first
        /\ changeBusy' = changeBusy
    BY DEF Destinations!Serve, Destinations!dialogVars
  <1>3. TableInv'
    BY <1>1, CarriedTable, Zenon DEF DestinationsInv, TableInv
  <1>4. DraftInv' /\ \A q \in sent' : RequestInv(q)
    BY <1>2, Zenon DEF DestinationsInv, DraftInv
  <1>5. WaitInv'
    <2>1. CASE r.own
      BY <1>2, <2>1, Zenon DEF DestinationsInv, WaitInv
    <2>2. CASE ~r.own
      <3>1. work' = work
        BY <1>1, <2>2
      <3> QED BY <1>2, <3>1, Zenon DEF DestinationsInv, WaitInv
    <2> QED BY <2>1, <2>2
  <1>6. ItemsAgree'
    <2>1. CASE r.own
      BY <1>2, <2>1, Zenon DEF DestinationsInv, WaitInv, ItemsAgree, Destinations!ItemsAgree
    <2>2. CASE t # table /\ ~r.own
      BY <1>1, <2>2, Zenon DEF ItemsAgree, Destinations!ItemsAgree
    <2>3. CASE t = table
      <3>1. Destinations!list' = Destinations!list
        BY <1>1, <2>3 DEF Destinations!list
      <3>2. excused => excused'
        BY <1>1, Zenon
      <3> QED BY <1>2, <3>1, <3>2, Zenon DEF DestinationsInv, ItemsAgree, Destinations!ItemsAgree
    <2> QED BY <2>1, <2>2, <2>3
  <1> QED BY <1>3, <1>4, <1>5, <1>6 DEF DestinationsInv
\* The page reads, acknowledges, or is told of what failed.
LEMMA AnswersKept ==
  ASSUME DestinationsInv,
         \/ Destinations!Acknowledged \/ Destinations!NotAcknowledged
         \/ Destinations!ServeFirst \/ Destinations!ServeAgain
         \/ Destinations!ApplyFirst \/ Destinations!ApplyAgain
  PROVE  DestinationsInv'
  <1>1. table' = table /\ sent' = sent
    BY DEF Destinations!Acknowledged, Destinations!NotAcknowledged, Destinations!ServeFirst,
           Destinations!ServeAgain, Destinations!ApplyFirst, Destinations!ApplyAgain
  <1>2. TableInv' /\ (\A r \in sent' : RequestInv(r)) /\ Destinations!list' = Destinations!list
    BY <1>1 DEF DestinationsInv, TableInv, Destinations!list
  <1>3. DraftInv'
    <2>1. CASE Destinations!CloseDialog
      BY <2>1, BlankDraft
    <2>2. CASE UNCHANGED Destinations!dialogVars
      <3>1. editingId' = editingId /\ draft' = draft /\ base' = base /\ touched' = touched
        BY <2>2 DEF Destinations!dialogVars
      <3> QED BY <3>1, Zenon DEF DestinationsInv, DraftInv
    <2>3. Destinations!CloseDialog \/ UNCHANGED Destinations!dialogVars
      BY Zenon DEF Destinations!Acknowledged, Destinations!NotAcknowledged,
           Destinations!ServeFirst, Destinations!ServeAgain, Destinations!ApplyFirst,
           Destinations!ApplyAgain
    <2> QED BY <2>1, <2>2, <2>3
  <1>4. CASE Destinations!Acknowledged
    <2>1. /\ work.outcome = "ok" /\ work' = Destinations!NoWork
          /\ again' = Destinations!Asked /\ changeBusy' = (again'.at # "none")
      BY <1>4, Zenon DEF Destinations!Acknowledged, Destinations!Reads
    <2>2. again'.at # "none" /\ work'.outcome = "none" /\ work.outcome # "none"
      BY <2>1 DEF Destinations!Asked, Destinations!NoRead, Destinations!NoWork
    <2>3. changeBusy'
      BY <2>1, <2>2, Zenon
    <2>4. \A r \in sent : ~r.own
      BY <2>2, Zenon DEF DestinationsInv, WaitInv
    <2>5. WaitInv'
      BY <1>1, <2>2, <2>3, <2>4, Zenon DEF WaitInv
    <2>6. ItemsAgree'
      BY <2>3, Zenon DEF ItemsAgree, Destinations!ItemsAgree
    <2> QED BY <1>2, <1>3, <2>5, <2>6 DEF DestinationsInv
  <1>5. CASE Destinations!NotAcknowledged
    <2>1. /\ work.outcome = "error" /\ work' = Destinations!NoWork
          /\ again' = again /\ items' = items
          /\ excused' = (excused \/ items # Destinations!list)
      BY <1>5, Zenon DEF Destinations!NotAcknowledged
    <2>2. work'.outcome = "none" /\ work.outcome # "none"
      BY <2>1 DEF Destinations!NoWork
    <2>3. again.at = "none" /\ \A r \in sent : ~r.own
      BY <2>2, Zenon DEF DestinationsInv, WaitInv
    <2>4. WaitInv'
      BY <1>1, <2>1, <2>2, <2>3, Zenon DEF WaitInv
    <2>5. ItemsAgree'
      BY <1>2, <2>1, Zenon DEF ItemsAgree, Destinations!ItemsAgree
    <2> QED BY <1>2, <1>3, <2>4, <2>5 DEF DestinationsInv
  <1>6. CASE Destinations!ServeFirst
    <2>1. /\ first' = Destinations!Served /\ work' = work /\ again' = again
          /\ changeBusy' = changeBusy
      BY <1>6 DEF Destinations!ServeFirst
    <2>2. first'.at # "none"
      BY <2>1 DEF Destinations!Served
    <2>3. WaitInv'
      BY <1>1, <2>1, Zenon DEF DestinationsInv, WaitInv
    <2>4. ItemsAgree'
      BY <2>2, Zenon DEF ItemsAgree, Destinations!ItemsAgree
    <2> QED BY <1>2, <1>3, <2>3, <2>4 DEF DestinationsInv
  <1>7. CASE Destinations!ServeAgain
    <2>1. /\ first' = first /\ work' = work /\ items' = items /\ excused' = excused
          /\ changeBusy' = changeBusy /\ again.at = "asked"
          /\ again' = Destinations!Served
      BY <1>7 DEF Destinations!ServeAgain
    <2>2. again.at # "none"
      BY <2>1
    <2>3. changeBusy /\ work.outcome = "none" /\ \A r \in sent : ~r.own
      BY <2>2, Zenon DEF DestinationsInv, WaitInv
    <2>4. WaitInv'
      BY <1>1, <2>1, <2>3, Zenon DEF WaitInv
    <2>5. ItemsAgree'
      BY <2>1, <2>3, Zenon DEF ItemsAgree, Destinations!ItemsAgree
    <2> QED BY <1>2, <1>3, <2>4, <2>5 DEF DestinationsInv
  <1>8. ASSUME NEW read, Destinations!Apply(read) PROVE ItemsAgree'
    BY <1>2, <1>8, Zenon DEF Destinations!Apply, ItemsAgree, Destinations!ItemsAgree
  <1>9. CASE Destinations!ApplyFirst
    <2>1. work' = work /\ again' = again /\ changeBusy' = changeBusy
      BY <1>9 DEF Destinations!ApplyFirst
    <2>2. WaitInv'
      BY <1>1, <2>1, Zenon DEF DestinationsInv, WaitInv
    <2>3. ItemsAgree'
      BY <1>8, <1>9 DEF Destinations!ApplyFirst
    <2> QED BY <1>2, <1>3, <2>2, <2>3 DEF DestinationsInv
  <1>10. CASE Destinations!ApplyAgain
    <2>1. work' = work /\ again' = Destinations!NoRead /\ again.at # "none"
      BY <1>10 DEF Destinations!ApplyAgain, Destinations!Apply
    <2>2. again'.at = "none"
      BY <2>1 DEF Destinations!NoRead
    <2>3. work.outcome = "none" /\ \A r \in sent : ~r.own
      BY <2>1, Zenon DEF DestinationsInv, WaitInv
    <2>4. WaitInv'
      BY <1>1, <2>1, <2>2, <2>3, Zenon DEF WaitInv
    <2>5. ItemsAgree'
      BY <1>8, <1>10 DEF Destinations!ApplyAgain
    <2> QED BY <1>2, <1>3, <2>4, <2>5 DEF DestinationsInv
  <1> QED BY <1>4, <1>5, <1>6, <1>7, <1>9, <1>10

\* Every step of the destinations page keeps its invariant.
LEMMA DestinationsKept == DestinationsInv /\ [Destinations!Next]_destinationsVars => DestinationsInv'
  <1> SUFFICES ASSUME DestinationsInv, [Destinations!Next]_destinationsVars
               PROVE  DestinationsInv'
    OBVIOUS
  <1>0. DraftInv /\ IsDraft(draft)
    BY DEF DestinationsInv, DraftInv
  <1>1. CASE \/ \E id \in Ids \cup {""} : Destinations!Open(id)
             \/ Destinations!Edit \/ Destinations!Close
    <2>1. /\ table' = table /\ sent' = sent /\ items' = items /\ changeBusy' = changeBusy
          /\ work' = work /\ first' = first /\ again' = again /\ excused' = excused
      BY <1>1 DEF Destinations!Open, Destinations!Edit, Destinations!Close
    <2> QED BY <1>1, <2>1, DraftsKept, DialogKept
  <1>2. CASE \/ \E id \in Ids : Destinations!AskRemove(id)
             \/ Destinations!CancelRemove \/ UNCHANGED destinationsVars
    <2>1. /\ table' = table /\ sent' = sent /\ items' = items /\ changeBusy' = changeBusy
          /\ work' = work /\ first' = first /\ again' = again /\ excused' = excused
          /\ editingId' = editingId /\ draft' = draft /\ base' = base /\ touched' = touched
      BY <1>2 DEF Destinations!AskRemove, Destinations!CancelRemove, Destinations!dialogVars,
                  destinationsVars
    <2>2. DraftInv'
      BY <1>0, <2>1, Zenon DEF DraftInv
    <2> QED BY <2>1, <2>2, DialogKept
  <1>3. CASE Destinations!Save
    <2>1. Destinations!Send("save", editingId, draft, base, touched)
      BY <1>3 DEF Destinations!Save
    <2>2. editingId # "" => Untouched(draft, base, touched)
      BY <1>0 DEF DraftInv
    <2> QED BY <2>1, <2>2, SendKept
  <1>4. ASSUME NEW id \in Ids, Destinations!Toggle(id) PROVE DestinationsInv'
    <2>1. Destinations!Send("toggle", id, Destinations!ToggleBody(items[id]), items[id], {"enabled"})
      BY <1>4 DEF Destinations!Toggle
    <2>2. Untouched(Destinations!ToggleBody(items[id]), items[id], {"enabled"})
      BY DEF Untouched, Destinations!ToggleBody, Destinations!DraftOf
    <2> QED BY <2>1, <2>2, SendKept
  <1>5. CASE Destinations!Remove
    <2>1. Destinations!Send("remove", deleting, Destinations!blank, Destinations!NoShown, {})
      BY <1>5 DEF Destinations!Remove
    <2> QED BY <2>1, SendKept
  <1>6. CASE Destinations!Progress
    BY <1>6, ServeKept, AnswersKept DEF Destinations!Progress
  <1>7. CASE Destinations!Elsewhere
    <2>1. /\ excused' = TRUE /\ sent' = sent /\ UNCHANGED Destinations!pageVars
          /\ \E d \in Ids :
               \/ \E r \in Destinations!RowElsewhere : table' = Destinations!With(d, r)
               \/ table' = Destinations!Without(d)
      BY <1>7, Zenon DEF Destinations!Elsewhere
    <2>2. TableInv'
      BY <2>1 DEF DestinationsInv, TableInv, Destinations!With, Destinations!Without,
                  Destinations!Restrict
    <2>3. /\ changeBusy' = changeBusy /\ work' = work /\ again' = again /\ draft' = draft
          /\ editingId' = editingId /\ base' = base /\ touched' = touched /\ sent' = sent
      BY <2>1 DEF Destinations!pageVars, Destinations!dialogVars
    <2>4. DraftInv' /\ WaitInv' /\ \A r \in sent' : RequestInv(r)
      BY <2>3, Zenon DEF DestinationsInv, DraftInv, WaitInv
    <2>5. ItemsAgree'
      BY <2>1, Zenon DEF ItemsAgree, Destinations!ItemsAgree
    <2> QED BY <2>2, <2>4, <2>5 DEF DestinationsInv
  <1>8. CASE Destinations!Reenter
    <2>1. /\ table' = table /\ Destinations!CloseDialog
          /\ sent' = {[r EXCEPT !.own = FALSE] : r \in sent}
          /\ work' = Destinations!NoWork /\ again' = Destinations!NoRead
          /\ first' = Destinations!Asked
      BY <1>8 DEF Destinations!Reenter
    <2>2. ASSUME NEW q \in sent' PROVE RequestInv(q) /\ ~q.own
      <3>1. PICK r \in sent : q = [r EXCEPT !.own = FALSE]
        BY <2>1
      <3>2. RequestInv(r)
        BY DEF DestinationsInv
      <3>3. r = [kind |-> r.kind, id |-> r.id, body |-> r.body, base |-> r.base,
                 touched |-> r.touched, own |-> r.own]
        BY <3>2 DEF RequestInv, IsRequest
      <3>4. q = [kind |-> r.kind, id |-> r.id, body |-> r.body, base |-> r.base,
                 touched |-> r.touched, own |-> FALSE]
        BY <3>1, <3>3
      <3>5. /\ IsRequest(q) /\ q.kind = r.kind /\ q.id = r.id /\ q.body = r.body
            /\ q.base = r.base /\ q.touched = r.touched /\ ~q.own
        BY <3>4 DEF IsRequest
      <3> QED BY <3>2, <3>5, Zenon DEF RequestInv
    <2>3. work'.outcome = "none" /\ again'.at = "none" /\ first'.at # "none"
      BY <2>1 DEF Destinations!NoWork, Destinations!NoRead, Destinations!Asked
    <2>4. WaitInv'
      BY <2>2, <2>3, Zenon DEF WaitInv
    <2>5. ItemsAgree'
      BY <2>3, Zenon DEF ItemsAgree, Destinations!ItemsAgree
    <2>6. DraftInv'
      BY <2>1, BlankDraft
    <2>7. TableInv'
      BY <2>1 DEF DestinationsInv, TableInv
    <2> QED BY <2>2, <2>4, <2>5, <2>6, <2>7 DEF DestinationsInv
  <1> QED BY <1>1, <1>2, <1>3, <1>4, <1>5, <1>6, <1>7, <1>8 DEF Destinations!Next

\* The destinations page's invariant, as a temporal formula.
LEMMA DestinationsHold == Spec => []DestinationsInv
  <1>1. DestinationsInv /\ [Next]_vars => DestinationsInv'
    BY Steps, DestinationsKept
  <1> QED BY DestinationsInit, <1>1, PTL DEF Spec

\* A page at rest shows what it has changed, unless others or a lost answer put
\* it behind (destinations.ts, run and load).
THEOREM ItemsShowTable == Spec => []ItemsAgree
  <1>1. DestinationsInv => ItemsAgree
    BY DEF DestinationsInv
  <1> QED BY DestinationsHold, <1>1, PTL
\* What a change may do to the row it is of.
FieldsKept ==
    \A r \in sent \ sent' :
       r.id \in DOMAIN table /\ r.id \in DOMAIN table' =>
           LET was == table[r.id] now == table'[r.id] IN
           /\ now.key = was.key \/ r.body.key # "keep"
           /\ now.meta = was.meta \/ "meta" \in r.touched \/ r.base.meta # was.meta
           /\ now.enabled = was.enabled \/ "enabled" \in r.touched \/ r.base.enabled # was.enabled

\* Of the invariant follows what a step does to fields that were not touched.
LEMMA FieldsStep == DestinationsInv /\ [Destinations!Next]_destinationsVars => FieldsKept
  <1> SUFFICES ASSUME DestinationsInv, [Destinations!Next]_destinationsVars
               PROVE  FieldsKept
    OBVIOUS
  <1>1. ASSUME table' = table PROVE FieldsKept
    BY <1>1 DEF FieldsKept
  <1>2. ASSUME sent \subseteq sent' PROVE FieldsKept
    BY <1>2 DEF FieldsKept
  <1>3. ASSUME NEW r \in sent, Destinations!Serve(r) PROVE FieldsKept
    <2>1. table' \in Destinations!Carried(r) \cup {table}
      BY <1>3, Zenon DEF Destinations!Serve
    <2>2. CASE table' = table
      BY <1>1, <2>2
    <2>3. CASE table' \in Destinations!Carried(r)
      <3>1. sent \ sent' \subseteq {r}
        BY <1>3 DEF Destinations!Serve
      <3>2. TableInv /\ RequestInv(r)
        BY DEF DestinationsInv
      <3>3. PICK t \in Destinations!Carried(r) : t = table'
        BY <2>3
      <3>4. r.id \in DOMAIN table /\ r.id \in DOMAIN t =>
              /\ t[r.id].key = table[r.id].key \/ r.body.key # "keep"
              /\ t[r.id].meta = table[r.id].meta \/ "meta" \in r.touched
                   \/ r.base.meta # table[r.id].meta
              /\ t[r.id].enabled = table[r.id].enabled \/ "enabled" \in r.touched
                   \/ r.base.enabled # table[r.id].enabled
        BY <3>2, CarriedTable, Zenon
      <3> QED BY <3>1, <3>3, <3>4, Zenon DEF FieldsKept
    <2> QED BY <2>1, <2>2, <2>3
  <1>4. CASE \E r \in sent : Destinations!Serve(r)
    BY <1>3, <1>4
  <1>5. table' = table \/ sent \subseteq sent' \/ \E r \in sent : Destinations!Serve(r)
    <2>1. CASE destinationsVars' = destinationsVars
      BY <2>1 DEF destinationsVars
    <2>2. CASE Destinations!Progress
      BY <2>2 DEF Destinations!Progress, Destinations!Acknowledged,
         Destinations!NotAcknowledged, Destinations!ServeFirst, Destinations!ServeAgain,
         Destinations!ApplyFirst, Destinations!ApplyAgain
    <2>3. CASE Destinations!Elsewhere
      BY <2>3 DEF Destinations!Elsewhere
    <2>4. CASE \/ \E id \in Ids \cup {""} : Destinations!Open(id)
               \/ \E id \in Ids : Destinations!Toggle(id) \/ Destinations!AskRemove(id)
               \/ Destinations!Edit \/ Destinations!Close \/ Destinations!Save
               \/ Destinations!CancelRemove \/ Destinations!Remove \/ Destinations!Reenter
      BY <2>4 DEF Destinations!Open, Destinations!Toggle, Destinations!AskRemove,
         Destinations!Edit, Destinations!Close, Destinations!Save,
         Destinations!CancelRemove, Destinations!Remove, Destinations!Reenter,
         Destinations!Send
    <2> QED BY <2>1, <2>2, <2>3, <2>4 DEF Destinations!Next
  <1> QED BY <1>1, <1>2, <1>4, <1>5

\* A change leaves alone what the user has not touched of its row: the key
\* always, the rest unless it has changed since it was shown (destinations.ts,
\* save and toggle; destinations.rs, save).
THEOREM ChangesKeepTheRest == Spec => UntouchedFieldsKept
  <1>1. DestinationsInv /\ [Next]_vars => [FieldsKept]_(Destinations!vars)
    BY Steps, FieldsStep
  <1> QED BY <1>1, DestinationsHold, PTL
          DEF Spec, UntouchedFieldsKept, Destinations!UntouchedFieldsKept, FieldsKept
=============================================================================
