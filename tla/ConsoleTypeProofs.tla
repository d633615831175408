--------------------------- MODULE ConsoleTypeProofs ---------------------------
(***************************************************************************)
(* The types of the console's pages, for any values of the constants.      *)
(***************************************************************************)
EXTENDS ConsoleProofs, StatusProofs, FiniteSetTheorems, SequenceTheorems

\* Sets of at most one element.
Optional(set, S) == set = {} \/ \E x \in S : set = {x}

\* They have a cardinality of one at most, in every page's terms.
LEMMA OptionalSmall ==
  ASSUME NEW set, NEW S, Optional(set, S)
  PROVE  /\ set \subseteq S
         /\ Status!Cardinality(set) <= 1 /\ Settings!Cardinality(set) <= 1
  <1>1. set \subseteq S
    BY DEF Optional
  <1>2. Cardinality(set) <= 1
    <2>1. CASE set = {}
      BY <2>1, FS_EmptySet
    <2>2. CASE \E x \in S : set = {x}
      BY <2>2, FS_Singleton
    <2> QED BY <2>1, <2>2 DEF Optional
  <1>3. Status!Cardinality(set) = Cardinality(set)
    BY DEF Status!Cardinality, Cardinality, Status!IsFiniteSet, IsFiniteSet
  <1>4. Settings!Cardinality(set) = Cardinality(set)
    BY DEF Settings!Cardinality, Cardinality, Settings!IsFiniteSet, IsFiniteSet
  <1> QED BY <1>1, <1>2, <1>3, <1>4

-----------------------------------------------------------------------------
(***************************************************************************)
(* The pages that show snapshots.                                          *)
(***************************************************************************)
StatusTypes ==
    /\ Optional(snapshot, Status!Body)
    /\ history \in Seq(Bitrate) /\ Len(history) <= HistorySize

\* The history keeps to its length.
LEMMA AppendedKept ==
  ASSUME NEW h \in Seq(Bitrate), Len(h) <= HistorySize, NEW v \in Bitrate
  PROVE  Status!Appended(h, v) \in Seq(Bitrate) /\ Len(Status!Appended(h, v)) <= HistorySize
  <1> DEFINE m == IF Len(h) < HistorySize THEN 1 ELSE Len(h) - HistorySize + 2
             kept == SubSeq(h, m, Len(h))
  <1>1. Len(h) \in Nat /\ HistorySize \in Nat /\ HistorySize > 1
    BY StatusAssumption
  <1>2. m \in 1..Len(h) + 1 /\ m > Len(h) - HistorySize + 1
    BY <1>1
  <1>3. Status!Appended(h, v) = Append(kept, v)
    BY DEF Status!Appended
  <1> HIDE DEF m
  <1>4. \A i \in m..Len(h) : h[i] \in Bitrate
    BY <1>1, <1>2
  <1>5. m \in Int /\ Len(h) \in Int
    BY <1>1, <1>2
  <1>6. kept \in Seq(Bitrate) /\ Len(kept) = IF m <= Len(h) THEN Len(h) - m + 1 ELSE 0
    BY <1>4, <1>5, SubSeqProperties
  <1> HIDE DEF kept
  <1>7. Len(kept) < HistorySize /\ Len(kept) \in Nat
    BY <1>1, <1>2, <1>6
  <1>8. Append(kept, v) \in Seq(Bitrate) /\ Len(Append(kept, v)) = Len(kept) + 1
    BY <1>6
  <1> QED BY <1>1, <1>3, <1>7, <1>8

\* Snapshots and the history keep their types.
LEMMA StatusTypesKept == StatusTypes /\ [Next]_vars => StatusTypes'
  <1> SUFFICES ASSUME StatusTypes, [Next]_vars PROVE StatusTypes'
    OBVIOUS
  <1>1. CASE Status!Accept
    <2>1. PICK engine \in BOOLEAN, obs \in BOOLEAN, on \in BOOLEAN, listed \in BOOLEAN,
               value \in Readings, total \in Totals, bitrate \in Bitrates \cup {None} :
             /\ obs => engine
             /\ bitrate # None => obs
             /\ \E status \in [Dests -> Status!Statuses(engine, obs, on, listed)] :
                   snapshot' = {[engine |-> engine, obs |-> obs, relay |-> on, status |-> status,
                                 bitrate |-> bitrate, reading |-> value, total |-> total]}
             /\ history' = Status!Appended(history, bitrate)
      BY <1>1, Zenon DEF Status!Accept
    <2>2. PICK status \in [Dests -> Status!Statuses(engine, obs, on, listed)] :
             snapshot' = {[engine |-> engine, obs |-> obs, relay |-> on, status |-> status,
                           bitrate |-> bitrate, reading |-> value, total |-> total]}
      BY <2>1, Zenon
    <2>3. Status!Statuses(engine, obs, on, listed) \subseteq Status!Status
      BY DEF Status!Statuses, Status!Status, Status!Reported
    <2>4. status \in [Dests -> Status!Status]
      BY <2>3
    <2> DEFINE b == [engine |-> engine, obs |-> obs, relay |-> on, status |-> status,
                     bitrate |-> bitrate, reading |-> value, total |-> total]
    <2>5. b \in Status!Body
      BY <2>4, Zenon DEF Status!Body
    <2>6. snapshot' = {b}
      BY <2>2
    <2> HIDE DEF b
    <2>7. Optional(snapshot', Status!Body)
      BY <2>5, <2>6 DEF Optional
    <2>8. history' \in Seq(Bitrate) /\ Len(history') <= HistorySize
      BY <2>1, AppendedKept DEF StatusTypes, Bitrate
    <2> QED BY <2>7, <2>8 DEF StatusTypes
  <1>2. CASE Status!Forget
    <2>1. snapshot' = {} /\ history' = <<>>
      BY <1>2 DEF Status!Forget
    <2>2. history' \in Seq(Bitrate) /\ Len(history') = 0
      BY <2>1
    <2> QED BY <2>1, <2>2, StatusAssumption DEF StatusTypes, Optional
  <1>3. CASE UNCHANGED statusVars
    BY <1>3 DEF StatusTypes, statusVars
  <1>4. Status!Accept \/ Status!Forget \/ UNCHANGED statusVars
    BY PageSteps DEF Status!Next
  <1> QED BY <1>1, <1>2, <1>3, <1>4

\* They have them at first.
LEMMA StatusTypesAtFirst == Init => StatusTypes
  <1> SUFFICES ASSUME Init PROVE StatusTypes
    OBVIOUS
  <1>1. snapshot = {} /\ history = <<>>
    BY DEF Init, Status!Init
  <1>2. history \in Seq(Bitrate) /\ Len(history) = 0
    BY <1>1
  <1> QED BY <1>1, <1>2, StatusAssumption DEF StatusTypes, Optional

-----------------------------------------------------------------------------
(***************************************************************************)
(* The Live page.                                                          *)
(***************************************************************************)
RelayTypes ==
    /\ seen \in [engine: BOOLEAN, relay: BOOLEAN]
    /\ controlBusy \in BOOLEAN /\ error \in BOOLEAN
    /\ feedback \in {"", "stopped", "applied"}

\* The controls are well typed at first.
LEMMA RelayTypesAtFirst == Init => RelayTypes
  <1> SUFFICES ASSUME Init PROVE RelayTypes
    OBVIOUS
  <1>1. /\ relay = FALSE /\ seen = [engine |-> TRUE, relay |-> relay]
        /\ controlBusy = FALSE /\ error = FALSE /\ feedback = ""
    BY DEF Init, Relay!Init
  <1>2. seen \in [engine: BOOLEAN, relay: BOOLEAN]
    BY <1>1
  <1> QED BY <1>1, <1>2 DEF RelayTypes

\* They are, whatever is pressed and answered.
LEMMA RelayTypesKept == RelayTypes /\ [Relay!Next]_relayVars => RelayTypes'
  <1> SUFFICES ASSUME RelayTypes, [Relay!Next]_relayVars PROVE RelayTypes'
    OBVIOUS
  <1>1. ASSUME NEW act \in Relay!Action, Relay!Press(act) PROVE RelayTypes'
    BY <1>1 DEF Relay!Press, RelayTypes
  <1>2. ASSUME NEW c \in calls, Relay!Serve(c) PROVE RelayTypes'
    BY <1>2 DEF Relay!Serve, RelayTypes
  <1>3. ASSUME NEW c \in calls, Relay!Answer(c) PROVE RelayTypes'
    <2>1. seen' = seen /\ error' \in BOOLEAN
      BY <1>3, Zenon DEF Relay!Answer, RelayTypes
    <2>2. Relay!Feedback(c) \in {"", "stopped", "applied"} /\ Relay!Busy(c) \in BOOLEAN
      BY DEF Relay!Feedback, Relay!Busy
    <2>3. controlBusy' \in BOOLEAN /\ feedback' \in {"", "stopped", "applied"}
      BY <1>3, <2>2, Zenon DEF Relay!Answer, RelayTypes
    <2> QED BY <2>1, <2>3, Zenon DEF RelayTypes
  <1>4. CASE Relay!Accept
    BY <1>4 DEF Relay!Accept, RelayTypes
  <1>5. CASE Relay!Elsewhere
    BY <1>5 DEF Relay!Elsewhere, RelayTypes
  <1>6. CASE Relay!Reenter
    BY <1>6 DEF Relay!Reenter, RelayTypes
  <1>7. CASE Relay!Dismiss
    BY <1>7 DEF Relay!Dismiss, Relay!pageVars, RelayTypes
  <1>8. CASE UNCHANGED relayVars
    BY <1>8 DEF relayVars, RelayTypes
  <1> QED BY <1>1, <1>2, <1>3, <1>4, <1>5, <1>6, <1>7, <1>8 DEF Relay!Next

-----------------------------------------------------------------------------
(***************************************************************************)
(* The Settings page.                                                      *)
(***************************************************************************)
SettingsPageTypes ==
    /\ reading \in Settings!Reading /\ Optional(reading.found, Valid)
    /\ Optional(preferences, Values)
    /\ saveBusy \in BOOLEAN /\ message \in BOOLEAN
    /\ edited \in BOOLEAN /\ disturbed \in BOOLEAN /\ torn \in BOOLEAN

\* The form and what is loaded are well typed at first.
LEMMA SettingsPageTypesAtFirst == Init => SettingsPageTypes
  <1> SUFFICES ASSUME Init PROVE SettingsPageTypes
    OBVIOUS
  <1>1. /\ reading = Settings!Asked /\ preferences = {}
        /\ saveBusy = FALSE /\ message = FALSE
        /\ edited = FALSE /\ disturbed = FALSE /\ torn = FALSE
    BY Zenon DEF Init, Settings!Init
  <1>2. reading \in Settings!Reading /\ reading.found = {}
    BY <1>1 DEF Settings!Asked, Settings!Reading
  <1> QED BY <1>1, <1>2, SettingsAssumption DEF SettingsPageTypes, Optional

\* They are, since memory only ever holds what update() accepts.
LEMMA SettingsPageTypesKept ==
  SettingsPageTypes /\ SettingsTypes /\ [Settings!Next]_settingsVars => SettingsPageTypes'
  <1> SUFFICES ASSUME SettingsPageTypes, SettingsTypes, [Settings!Next]_settingsVars
               PROVE  SettingsPageTypes'
    OBVIOUS
  <1>0. ASSUME NEW ok \in BOOLEAN
        PROVE  Settings!Busy(ok) \in BOOLEAN /\ Settings!Message(ok) \in BOOLEAN
    BY <1>0 DEF Settings!Busy, Settings!Message
  <1>e. ASSUME NEW u, NEW ok \in BOOLEAN, Settings!Ended(u, ok)
        PROVE  saveBusy' \in BOOLEAN /\ message' \in BOOLEAN
    BY <1>e, <1>0, Zenon DEF Settings!Ended, SettingsPageTypes
  <1>1. CASE Settings!ServeLoad
    <2>1. /\ reading' = [at |-> "served", found |-> {memory}]
          /\ UNCHANGED <<preferences, saveBusy, message, edited, disturbed, torn>>
      BY <1>1 DEF Settings!ServeLoad, Settings!serverVars
    <2>2. reading' \in Settings!Reading /\ reading'.found = {memory}
      BY <2>1 DEF SettingsTypes, Settings!Reading
    <2>3. Optional(reading'.found, Valid)
      BY <2>2, Zenon DEF Optional, SettingsTypes
    <2> QED BY <2>1, <2>2, <2>3, Zenon DEF SettingsPageTypes
  <1>2. CASE Settings!Load
    <2>1. /\ preferences' = reading.found /\ reading' = Settings!NotAsked
          /\ UNCHANGED <<saveBusy, message, edited, disturbed, torn>>
      BY <1>2 DEF Settings!Load, Settings!serverVars
    <2>2. reading' \in Settings!Reading /\ Optional(reading'.found, Valid)
      BY <2>1 DEF Settings!NotAsked, Settings!Reading, Optional
    <2>3. Optional(preferences', Values)
      BY <2>1, SettingsAssumption DEF Optional, SettingsPageTypes
    <2> QED BY <2>1, <2>2, <2>3, Zenon DEF SettingsPageTypes
  <1>3. CASE Settings!Edit
    <2>1. Optional(preferences', Values) /\ edited' \in BOOLEAN
      BY <1>3, Zenon DEF Settings!Edit, Optional
    <2>2. UNCHANGED <<reading, saveBusy, message, disturbed, torn>>
      BY <1>3 DEF Settings!Edit, Settings!serverVars
    <2> QED BY <2>1, <2>2, Zenon DEF SettingsPageTypes
  <1>4. CASE Settings!Save
    <2>1. /\ saveBusy' = TRUE /\ message' = FALSE /\ edited' = FALSE
          /\ UNCHANGED <<reading, preferences, disturbed, torn>>
      BY <1>4 DEF Settings!Save, Settings!serverVars
    <2> QED BY <2>1, Zenon DEF SettingsPageTypes
  <1>5. ASSUME NEW u \in updates, Settings!Handled(u) PROVE SettingsPageTypes'
    <2>1. CASE Settings!Refuse(u) \/ Settings!Drop(u)
      <3>1. Settings!Ended(u, FALSE)
        BY <2>1, Zenon DEF Settings!Refuse, Settings!Drop
      <3>2. torn' \in BOOLEAN
        BY <2>1 DEF Settings!Refuse, Settings!Drop, Settings!serverVars, SettingsPageTypes
      <3>3. UNCHANGED <<reading, preferences, edited, disturbed>>
        BY <2>1 DEF Settings!Refuse, Settings!Drop
      <3> QED BY <1>e, <3>1, <3>2, <3>3, Zenon DEF SettingsPageTypes
    <2>2. CASE Settings!WriteRow(u)
      <3>1. UNCHANGED <<torn, reading, preferences, saveBusy, message, edited>>
        BY <2>2 DEF Settings!WriteRow, Settings!pageVars
      <3>2. disturbed' \in BOOLEAN
        BY <2>2, Zenon DEF Settings!WriteRow, SettingsPageTypes
      <3> QED BY <3>1, <3>2, Zenon DEF SettingsPageTypes
    <2>3. CASE Settings!StoreMemory(u)
      <3>1. UNCHANGED <<reading, preferences, saveBusy, message, edited>>
        BY <2>3 DEF Settings!StoreMemory, Settings!pageVars
      <3>2. u.overlapped \in BOOLEAN
        BY DEF SettingsTypes, Settings!Update
      <3>3. disturbed' \in BOOLEAN /\ torn' \in BOOLEAN
        BY <2>3, <3>2, Zenon DEF Settings!StoreMemory
      <3> QED BY <3>1, <3>3, Zenon DEF SettingsPageTypes
    <2>4. CASE Settings!Reply(u)
      <3>1. UNCHANGED <<torn, reading, preferences, saveBusy, message, edited, disturbed>>
        BY <2>4 DEF Settings!Reply, Settings!pageVars, Settings!serverVars
      <3> QED BY <3>1, Zenon DEF SettingsPageTypes
    <2>5. CASE Settings!Answer(u)
      <3>1. Settings!Ended(u, TRUE) /\ UNCHANGED <<torn, reading, preferences, edited>>
        BY <2>5 DEF Settings!Answer, Settings!serverVars
      <3>2. disturbed' \in BOOLEAN
        BY <2>5, Zenon DEF Settings!Answer, SettingsPageTypes
      <3> QED BY <1>e, <3>1, <3>2, Zenon DEF SettingsPageTypes
    <2> QED BY <1>5, <2>1, <2>2, <2>3, <2>4, <2>5, Zenon DEF Settings!Handled
  <1>6. CASE Settings!Elsewhere
    <2>1. UNCHANGED <<torn, reading, preferences, saveBusy, message, edited, disturbed>>
      BY <1>6 DEF Settings!Elsewhere, Settings!pageVars, Settings!serverVars
    <2> QED BY <2>1, Zenon DEF SettingsPageTypes
  <1>7. CASE Settings!Restart
    <2>1. /\ torn' = FALSE /\ saveBusy' \in BOOLEAN
          /\ UNCHANGED <<reading, preferences, message, edited>>
      BY <1>7 DEF Settings!Restart
    <2>2. disturbed' \in BOOLEAN
      BY <1>7, Zenon DEF Settings!Restart, SettingsPageTypes
    <2> QED BY <2>1, <2>2, Zenon DEF SettingsPageTypes
  <1>8. CASE Settings!Reenter
    <2>1. /\ reading' = Settings!Asked /\ preferences' = {}
          /\ saveBusy' = FALSE /\ message' = FALSE /\ edited' = FALSE
          /\ UNCHANGED <<disturbed, torn>>
      BY <1>8 DEF Settings!Reenter, Settings!serverVars
    <2>2. reading' \in Settings!Reading /\ Optional(reading'.found, Valid)
      BY <2>1 DEF Settings!Asked, Settings!Reading, Optional
    <2> QED BY <2>1, <2>2, Zenon DEF SettingsPageTypes, Optional
  <1>9. CASE UNCHANGED settingsVars
    <2>1. UNCHANGED <<torn, reading, preferences, saveBusy, message, edited, disturbed>>
      BY <1>9 DEF settingsVars
    <2> QED BY <2>1, Zenon DEF SettingsPageTypes
  <1>10. ASSUME NEW s \in Starts, Settings!StartStep(s) PROVE SettingsPageTypes'
    <2>1. UNCHANGED <<torn, reading, preferences, saveBusy, message, edited, disturbed>>
      BY <1>10 DEF Settings!StartStep, Settings!ServeStart, Settings!Started, Settings!StartFails,
                   Settings!serverVars
    <2> QED BY <2>1, Zenon DEF SettingsPageTypes
  <1> QED BY <1>1, <1>2, <1>3, <1>4, <1>5, <1>6, <1>7, <1>8, <1>9, <1>10, Zenon DEF Settings!Next

\* The shell's copy, and what its starts wait with.
ShellTypes ==
    /\ Optional(settings, Valid) /\ overtaken \in BOOLEAN
    /\ \A s \in Starts : Optional(starting[s].found, Valid)

\* There is no copy when the shell is first entered.
LEMMA ShellTypesAtFirst == Init => ShellTypes
  <1> SUFFICES ASSUME Init PROVE ShellTypes
    OBVIOUS
  <1>1. settings = {} /\ overtaken = FALSE
    BY DEF Init, Settings!Init
  <1>2. PICK s \in Starts : starting = [t \in Starts |-> IF t = s THEN Settings!StartAsked
                                                         ELSE Settings!StartEnded]
    BY DEF Init, Settings!Init
  <1>3. \A t \in Starts : starting[t].found = {}
    BY <1>2 DEF Settings!StartAsked, Settings!StartEnded
  <1> QED BY <1>1, <1>3, Zenon DEF ShellTypes, Optional

\* A copy is one that memory has held, and none that no longer is.
LEMMA ShellTypesKept ==
  ShellTypes /\ ShellInv /\ SettingsTypes /\ [Settings!Next]_settingsVars => ShellTypes'
  <1> SUFFICES ASSUME ShellTypes, ShellInv, SettingsTypes, [Settings!Next]_settingsVars
               PROVE  ShellTypes'
    OBVIOUS
  <1>1. ASSUME UNCHANGED <<settings, starting, overtaken>> PROVE ShellTypes'
    BY <1>1 DEF ShellTypes
  <1>2. CASE \/ Settings!ServeLoad \/ Settings!Load \/ Settings!Edit \/ Settings!Save
             \/ Settings!Elsewhere \/ Settings!Restart
    BY <1>1, <1>2 DEF Settings!ServeLoad, Settings!Load, Settings!Edit, Settings!Save,
       Settings!Elsewhere, Settings!Restart, Settings!pageVars, Settings!shellVars
  <1>3. ASSUME NEW u \in updates,
               Settings!Refuse(u) \/ Settings!WriteRow(u) \/ Settings!Reply(u) \/ Settings!Drop(u)
        PROVE  ShellTypes'
    BY <1>1, <1>3 DEF Settings!Refuse, Settings!WriteRow, Settings!Reply, Settings!Drop,
       Settings!pageVars, Settings!shellVars
  <1>4. ASSUME NEW u \in updates, Settings!Answer(u) PROVE ShellTypes'
    <2>1. u.value \in Valid /\ starting' = starting
      BY <1>4 DEF Settings!Answer, SettingsTypes
    <2>2. CASE u.by = "other"
      BY <1>1, <1>4, <2>1, <2>2 DEF Settings!Answer
    <2>3. CASE u.by # "other"
      <3>1. settings' = {u.value} /\ overtaken' = FALSE
        BY <1>4, <2>3 DEF Settings!Answer
      <3> QED BY <2>1, <3>1, Zenon DEF ShellTypes, Optional
    <2> QED BY <2>2, <2>3
  <1>5. ASSUME NEW u \in updates, Settings!StoreMemory(u) PROVE ShellTypes'
    <2>1. /\ starting' = [s \in Starts |-> [starting[s] EXCEPT !.old = starting[s].at = "served"]]
          /\ settings' = settings /\ overtaken' = overtaken
      BY <1>5 DEF Settings!StoreMemory
    <2>2. \A s \in Starts : starting'[s].found = starting[s].found
      BY <2>1 DEF ShellInv, Settings!Starting
    <2> QED BY <2>1, <2>2, Zenon DEF ShellTypes
  <1>6. ASSUME NEW s \in Starts, NEW x, starting' = [starting EXCEPT ![s] = x],
               Optional(x.found, Valid)
        PROVE  \A t \in Starts : Optional(starting'[t].found, Valid)
    BY <1>6 DEF ShellTypes, ShellInv
  <1>7. /\ Optional(Settings!StartAsked.found, Valid) /\ Optional(Settings!StartEnded.found, Valid)
        /\ Optional([at |-> "served", found |-> {memory}, old |-> FALSE].found, Valid)
    BY DEF Optional, Settings!StartAsked, Settings!StartEnded, SettingsTypes
  <1>8. ASSUME NEW s \in Starts, Settings!StartStep(s) PROVE ShellTypes'
    <2>1. CASE Settings!ServeStart(s)
      <3>1. settings' = settings /\ overtaken' = overtaken
        BY <2>1 DEF Settings!ServeStart
      <3>2. \A t \in Starts : Optional(starting'[t].found, Valid)
        BY <1>6, <1>7, <2>1 DEF Settings!ServeStart
      <3> QED BY <3>1, <3>2 DEF ShellTypes
    <2>2. CASE Settings!Started(s)
      <3>1. settings' = starting[s].found /\ overtaken' = starting[s].old
        BY <2>2 DEF Settings!Started
      <3>2. \A t \in Starts : Optional(starting'[t].found, Valid)
        BY <1>6, <1>7, <2>2 DEF Settings!Started
      <3>3. starting[s].old \in BOOLEAN
        BY DEF ShellInv, Settings!Starting
      <3> QED BY <3>1, <3>2, <3>3 DEF ShellTypes
    <2>3. CASE Settings!StartFails(s)
      <3>1. settings' = settings /\ overtaken' = overtaken
        BY <2>3 DEF Settings!StartFails
      <3>2. \A t \in Starts : Optional(starting'[t].found, Valid)
        BY <1>6, <1>7, <2>3 DEF Settings!StartFails
      <3> QED BY <3>1, <3>2 DEF ShellTypes
    <2> QED BY <1>8, <2>1, <2>2, <2>3 DEF Settings!StartStep
  <1>9. CASE Settings!Reenter
    <2>1. settings' = settings /\ overtaken' = overtaken
      BY <1>9 DEF Settings!Reenter
    <2>2. CASE starting' = starting
      BY <1>1, <2>1, <2>2
    <2>3. CASE \E s \in Starts : starting' = [starting EXCEPT ![s] = Settings!StartAsked]
      <3>1. \A t \in Starts : Optional(starting'[t].found, Valid)
        BY <1>6, <1>7, <2>3
      <3> QED BY <2>1, <3>1 DEF ShellTypes
    <2> QED BY <1>9, <2>2, <2>3 DEF Settings!Reenter
  <1>10. CASE UNCHANGED settingsVars
    BY <1>1, <1>10 DEF settingsVars
  <1> QED BY <1>2, <1>3, <1>4, <1>5, <1>8, <1>9, <1>10 DEF Settings!Next, Settings!Handled

-----------------------------------------------------------------------------
(***************************************************************************)
(* The Destinations page.                                                  *)
(***************************************************************************)
TableTypes ==
    /\ table \in Destinations!Tables(Destinations!Row)
    /\ sent \subseteq Destinations!Request
    /\ changes \in 0..MaxChanges

DialogTypes ==
    /\ editing \in BOOLEAN /\ editingId \in Ids \cup {""} /\ draft \in Destinations!Draft
    /\ base \in Destinations!Shown /\ touched \subseteq Destinations!Field

WorkTypes ==
    /\ changeBusy \in BOOLEAN
    /\ work \in [kind: {"", "save", "toggle", "remove"}, outcome: {"none", "ok", "error"}]
    /\ first \in Destinations!Read /\ again \in Destinations!Read

ListTypes ==
    /\ items \in Destinations!Tables(Destinations!Shown)
    /\ deleting \in Ids \cup {""}
    /\ excused \in BOOLEAN

DestinationsTypes == TableTypes /\ DialogTypes /\ WorkTypes /\ ListTypes

\* What a table holds.
LEMMA TableRows ==
  ASSUME NEW R, NEW t \in Destinations!Tables(R)
  PROVE  /\ t = [d \in DOMAIN t |-> t[d]] /\ DOMAIN t \subseteq Ids
         /\ \A d \in DOMAIN t : t[d] \in R
  <1>1. PICK S \in SUBSET Ids : t \in [S -> R]
    BY DEF Destinations!Tables
  <1> QED BY <1>1

\* What makes a table.
LEMMA RowsTable ==
  ASSUME NEW R, NEW S \in SUBSET Ids, NEW f \in [S -> R]
  PROVE  f \in Destinations!Tables(R)
  BY DEF Destinations!Tables

\* Destinations as they are shown.
LEMMA ListShown ==
  ASSUME TableTypes
  PROVE  /\ Destinations!list \in Destinations!Tables(Destinations!Shown)
         /\ Destinations!Served \in Destinations!Read
  <1>1. table \in Destinations!Tables(Destinations!Row)
    BY DEF TableTypes
  <1>2. DOMAIN table \subseteq Ids /\ \A d \in DOMAIN table : table[d] \in Destinations!Row
    BY <1>1, TableRows
  <1>3. ASSUME NEW r \in Destinations!Row
        PROVE  Destinations!public(r) \in Destinations!Shown
    BY DEF Destinations!Row, Destinations!public, Destinations!Shown
  <1>4. Destinations!list \in [DOMAIN table -> Destinations!Shown]
    BY <1>2, <1>3 DEF Destinations!list
  <1>5. Destinations!list \in Destinations!Tables(Destinations!Shown)
    BY <1>2, <1>4, RowsTable
  <1>6. Destinations!Served \in Destinations!Read
    BY <1>5 DEF Destinations!Served, Destinations!Read
  <1> QED BY <1>5, <1>6

\* What there is before anything is read or asked.
LEMMA Blanks ==
  /\ Destinations!Empty \in Destinations!Tables(Destinations!Shown)
  /\ Destinations!NoRead \in Destinations!Read /\ Destinations!Asked \in Destinations!Read
  /\ Destinations!NoShown \in Destinations!Shown
  /\ Destinations!blank \in Destinations!Draft
  /\ Destinations!NoWork \in [kind: {"", "save", "toggle", "remove"},
                              outcome: {"none", "ok", "error"}]
  <1>1. Destinations!Empty \in [{} -> Destinations!Shown]
    BY DEF Destinations!Empty
  <1>2. Destinations!Empty \in Destinations!Tables(Destinations!Shown)
    BY <1>1, RowsTable
  <1>3. Destinations!NoRead \in Destinations!Read
    BY <1>2 DEF Destinations!NoRead, Destinations!Read
  <1>4. Destinations!Asked \in Destinations!Read
    BY <1>2 DEF Destinations!Asked, Destinations!NoRead, Destinations!Read
  <1>5. Destinations!NoShown \in Destinations!Shown
    BY DestinationsAssumption DEF Destinations!NoShown, Destinations!Shown
  <1>6. Destinations!blank \in Destinations!Draft
    BY DestinationsAssumption DEF Destinations!blank, Destinations!Draft
  <1>7. Destinations!NoWork \in [kind: {"", "save", "toggle", "remove"},
                                 outcome: {"none", "ok", "error"}]
    BY DEF Destinations!NoWork
  <1> QED BY <1>2, <1>3, <1>4, <1>5, <1>6, <1>7

\* The table, the list and the dialog are well typed at first.
LEMMA DestinationsTypesAtFirst == Init => DestinationsTypes
  <1> SUFFICES ASSUME Init PROVE DestinationsTypes
    OBVIOUS
  <1>1. Destinations!Init
    BY DEF Init
  <1>2. TableTypes
    <2> DEFINE d == CHOOSE d \in Ids : TRUE
               m == CHOOSE m \in Metas : m # BlankMeta
    <2>1. d \in Ids
      BY DestinationsAssumption, Zenon
    <2>2. \E n \in Metas : n # BlankMeta
      BY DestinationsAssumption
    <2>3. m \in Metas
      BY <2>2
    <2> HIDE DEF m
    <2>4. Destinations!Seeded = [meta |-> m, enabled |-> TRUE, key |-> "other"]
      BY DEF Destinations!Seeded, m
    <2>5. Destinations!Seeded \in Destinations!Row
      BY <2>3, <2>4 DEF Destinations!Row, Destinations!Key
    <2>6. table = [e \in {d} |-> Destinations!Seeded] /\ sent = {} /\ changes = 0
      BY <1>1 DEF Destinations!Init
    <2> HIDE DEF d
    <2>7. table \in [{d} -> Destinations!Row] /\ {d} \in SUBSET Ids
      BY <2>1, <2>5, <2>6
    <2>8. table \in Destinations!Tables(Destinations!Row)
      BY <2>7, RowsTable
    <2>9. MaxChanges \in Nat
      BY DestinationsAssumption, Zenon
    <2>10. changes \in 0..MaxChanges
      BY <2>6, <2>9
    <2> QED BY <2>6, <2>8, <2>10, Zenon DEF TableTypes
  <1>3. DialogTypes
    <2>1. /\ editing = FALSE /\ editingId = "" /\ draft = Destinations!blank
          /\ base = Destinations!NoShown /\ touched = {}
      BY <1>1, Zenon DEF Destinations!Init
    <2> QED BY <2>1, Blanks DEF DialogTypes
  <1>4. WorkTypes /\ ListTypes
    <2>1. /\ items = Destinations!Empty /\ deleting = "" /\ excused = FALSE
          /\ changeBusy = FALSE /\ work = Destinations!NoWork
          /\ first = Destinations!Asked /\ again = Destinations!NoRead
      BY <1>1, Zenon DEF Destinations!Init
    <2> QED BY <2>1, Blanks DEF WorkTypes, ListTypes
  <1> QED BY <1>2, <1>3, <1>4 DEF DestinationsTypes

\* A destination as it is shown, and its draft.
LEMMA ShownDraft ==
  ASSUME NEW s \in Destinations!Shown
  PROVE  /\ Destinations!DraftOf(s) \in Destinations!Draft
         /\ Destinations!ToggleBody(s) \in Destinations!Draft
  <1>1. s.meta \in Metas /\ s.enabled \in BOOLEAN
    BY DEF Destinations!Shown
  <1>2. Destinations!DraftOf(s) \in Destinations!Draft
    BY <1>1 DEF Destinations!DraftOf, Destinations!Draft
  <1>3. Destinations!ToggleBody(s) = [meta |-> s.meta, enabled |-> ~s.enabled, key |-> "keep"]
    BY DEF Destinations!ToggleBody, Destinations!DraftOf
  <1>4. Destinations!ToggleBody(s) \in Destinations!Draft
    BY <1>1, <1>3 DEF Destinations!Draft
  <1> QED BY <1>2, <1>4

\* The dialog opens with what is shown, is edited, and closes.
LEMMA DialogTypesKept ==
  ASSUME DialogTypes, ListTypes,
         \/ \E id \in Ids \cup {""} : Destinations!Open(id)
         \/ Destinations!Edit \/ Destinations!CloseDialog
         \/ UNCHANGED Destinations!dialogVars
  PROVE  DialogTypes'
  <1>1. ASSUME NEW id \in Ids \cup {""}, Destinations!Open(id) PROVE DialogTypes'
    <2>1. /\ id \in DOMAIN items \cup {""}
          /\ editingId' = id
          /\ base' = IF id = "" THEN Destinations!NoShown ELSE items[id]
          /\ draft' = IF id = "" THEN Destinations!blank ELSE Destinations!DraftOf(items[id])
          /\ touched' = {} /\ editing' = TRUE
      BY <1>1, Zenon DEF Destinations!Open
    <2>2. id # "" => items[id] \in Destinations!Shown
      BY <2>1, TableRows DEF ListTypes
    <2>3. base' \in Destinations!Shown /\ draft' \in Destinations!Draft
      BY <2>1, <2>2, Blanks, ShownDraft, Zenon
    <2> QED BY <2>1, <2>3 DEF DialogTypes
  <1>2. CASE Destinations!Edit
    <2>1. UNCHANGED <<editing, editingId, base>>
      BY <1>2 DEF Destinations!Edit
    <2>2. draft' \in Destinations!Draft /\ touched' \subseteq Destinations!Field
      BY <1>2 DEF Destinations!Edit, DialogTypes, Destinations!Draft, Destinations!Field
    <2> QED BY <2>1, <2>2 DEF DialogTypes
  <1>3. CASE Destinations!CloseDialog
    BY <1>3, Blanks DEF Destinations!CloseDialog, DialogTypes
  <1>4. CASE UNCHANGED Destinations!dialogVars
    BY <1>4 DEF Destinations!dialogVars, DialogTypes
  <1> QED BY <1>1, <1>2, <1>3, <1>4

\* One more change stays within the bound.
LEMMA OneMore ==
  ASSUME changes \in 0..MaxChanges, changes < MaxChanges, changes' = changes + 1
  PROVE  changes' \in 0..MaxChanges
  <1>1. MaxChanges \in Nat
    BY DestinationsAssumption, Zenon
  <1> QED BY <1>1

\* A request is sent with a draft.
LEMMA SendTypesKept ==
  ASSUME DestinationsTypes,
         NEW kind \in {"save", "toggle", "remove"}, NEW id \in Ids \cup {""},
         NEW body \in Destinations!Draft, NEW was \in Destinations!Shown,
         NEW changed \in SUBSET Destinations!Field,
         Destinations!Send(kind, id, body, was, changed)
  PROVE  DestinationsTypes'
  <1> DEFINE new == [kind |-> kind, id |-> id, body |-> body, base |-> was,
                     touched |-> changed, own |-> TRUE]
  <1>1. new \in Destinations!Request
    BY DEF Destinations!Request
  <1>2. changes < MaxChanges /\ changes' = changes + 1 /\ sent' = sent \cup {new} /\ table' = table
    BY DEF Destinations!Send
  <1> HIDE DEF new
  <1>3. changes' \in 0..MaxChanges
    BY <1>2, OneMore, Zenon DEF DestinationsTypes, TableTypes
  <1>4. TableTypes'
    BY <1>1, <1>2, <1>3 DEF DestinationsTypes, TableTypes
  <1>5. /\ changeBusy' = TRUE /\ work' = [kind |-> kind, outcome |-> "none"]
        /\ UNCHANGED <<items, deleting, first, again, excused>>
        /\ UNCHANGED Destinations!dialogVars
    BY DEF Destinations!Send
  <1>6. DialogTypes'
    BY <1>5, DialogTypesKept DEF DestinationsTypes
  <1>7. WorkTypes' /\ ListTypes'
    BY <1>5 DEF DestinationsTypes, WorkTypes, ListTypes
  <1> QED BY <1>4, <1>6, <1>7 DEF DestinationsTypes

\* A row is added, replaced or removed.
LEMMA TablesKept ==
  ASSUME TableTypes, NEW id \in Ids
  PROVE  /\ \A r \in Destinations!Row :
               Destinations!With(id, r) \in Destinations!Tables(Destinations!Row)
         /\ Destinations!Without(id) \in Destinations!Tables(Destinations!Row)
  <1>1. DOMAIN table \subseteq Ids /\ \A d \in DOMAIN table : table[d] \in Destinations!Row
    BY TableRows DEF TableTypes
  <1>2. ASSUME NEW r \in Destinations!Row
        PROVE  Destinations!With(id, r) \in Destinations!Tables(Destinations!Row)
    <2>1. Destinations!With(id, r) \in [DOMAIN table \cup {id} -> Destinations!Row]
      BY <1>1 DEF Destinations!With
    <2>2. DOMAIN table \cup {id} \in SUBSET Ids
      BY <1>1
    <2> QED BY <2>1, <2>2, RowsTable
  <1>3. Destinations!Without(id) \in Destinations!Tables(Destinations!Row)
    <2>1. Destinations!Without(id) \in [DOMAIN table \ {id} -> Destinations!Row]
      BY <1>1 DEF Destinations!Without, Destinations!Restrict
    <2>2. DOMAIN table \ {id} \in SUBSET Ids
      BY <1>1
    <2> QED BY <2>1, <2>2, RowsTable
  <1> QED BY <1>2, <1>3

\* What a request makes of the table is a table.
LEMMA CarriedTypes ==
  ASSUME TableTypes, NEW r \in Destinations!Request, NEW t \in Destinations!Carried(r)
  PROVE  t \in Destinations!Tables(Destinations!Row)
  <1> DEFINE key == IF r.id \in DOMAIN table THEN table[r.id].key ELSE "none"
             saved == Destinations!SavedRow(r, key)
             ids == IF r.id = "" THEN Ids \ DOMAIN table ELSE {r.id} \cap DOMAIN table
  <1>1. DOMAIN table \subseteq Ids /\ \A d \in DOMAIN table : table[d] \in Destinations!Row
    BY TableRows DEF TableTypes
  <1>2. ids \subseteq Ids
    BY <1>1
  <1>3. key \in Destinations!Key
    BY <1>1 DEF Destinations!Row, Destinations!Key
  <1> HIDE DEF key, ids
  <1>4. r.body \in Destinations!Draft
    BY DEF Destinations!Request
  <1>5. Destinations!KeyAfter(r.body, key) \in Destinations!Key
    BY <1>3 DEF Destinations!KeyAfter, Destinations!Key
  <1>6. saved = [meta |-> r.body.meta, enabled |-> r.body.enabled,
                 key |-> Destinations!KeyAfter(r.body, key)]
    BY DEF Destinations!SavedRow
  <1> HIDE DEF saved
  <1>7. Destinations!Allowed(saved) => saved \in Destinations!Row
    BY <1>4, <1>5, <1>6 DEF Destinations!Allowed, Destinations!Row, Destinations!Draft
  <1>8. \/ \E id \in ids : t = Destinations!Without(id)
        \/ \E id \in ids : t = Destinations!With(id, saved) /\ Destinations!Allowed(saved)
    BY Zenon DEF Destinations!Carried, saved, ids, key
  <1> QED BY <1>2, <1>7, <1>8, TablesKept

\* A request is carried out, or not.
LEMMA ServeTypesKept ==
  ASSUME DestinationsTypes, NEW r \in sent, Destinations!Serve(r)
  PROVE  DestinationsTypes'
  <1>1. r \in Destinations!Request
    BY DEF DestinationsTypes, TableTypes
  <1>2. PICK t \in Destinations!Carried(r) \cup {table}, outcome \in {"ok", "error"} :
           /\ table' = t
           /\ work' = IF r.own THEN [work EXCEPT !.outcome = outcome] ELSE work
           /\ excused' = (excused \/ (t # table /\ ~r.own))
    BY Zenon DEF Destinations!Serve
  <1>3. /\ sent' = sent \ {r}
        /\ UNCHANGED <<changes, items, deleting, changeBusy, first, again>>
        /\ UNCHANGED Destinations!dialogVars
    BY DEF Destinations!Serve
  <1>4. table' \in Destinations!Tables(Destinations!Row)
    BY <1>1, <1>2, CarriedTypes DEF DestinationsTypes, TableTypes
  <1>5. TableTypes'
    BY <1>3, <1>4 DEF DestinationsTypes, TableTypes
  <1>6. DialogTypes'
    BY <1>3, DialogTypesKept DEF DestinationsTypes
  <1>7. work' \in [kind: {"", "save", "toggle", "remove"}, outcome: {"none", "ok", "error"}]
    BY <1>2 DEF DestinationsTypes, WorkTypes
  <1>8. excused' \in BOOLEAN
    BY <1>2, Zenon DEF DestinationsTypes, ListTypes
  <1> QED BY <1>3, <1>5, <1>6, <1>7, <1>8 DEF DestinationsTypes, WorkTypes, ListTypes

\* Answers arrive, and reads are served and applied.
LEMMA AnswerTypesKept ==
  ASSUME DestinationsTypes,
         \/ Destinations!Acknowledged \/ Destinations!NotAcknowledged
         \/ Destinations!ServeFirst \/ Destinations!ApplyFirst
         \/ Destinations!ServeAgain \/ Destinations!ApplyAgain
  PROVE  DestinationsTypes'
  <1>0. TableTypes /\ DialogTypes /\ WorkTypes /\ ListTypes
    BY DEF DestinationsTypes
  <1>a. ASSUME UNCHANGED <<table, sent, changes>> PROVE TableTypes'
    BY <1>0, <1>a DEF TableTypes
  <1>b. Destinations!Reads(work.kind) = Destinations!Asked
    BY DEF Destinations!Reads
  <1>c. \A failed \in BOOLEAN : Destinations!BusyAfter(failed) \in BOOLEAN
    BY DEF Destinations!BusyAfter
  <1>d. ASSUME NEW read \in Destinations!Read, Destinations!Apply(read)
        PROVE  items' \in Destinations!Tables(Destinations!Shown) /\ excused' \in BOOLEAN
    <2>1. read.rows \in Destinations!Tables(Destinations!Shown)
      BY DEF Destinations!Read
    <2> QED BY <1>0, <1>d, <2>1, Zenon DEF Destinations!Apply, ListTypes
  <1>1. CASE Destinations!Acknowledged
    <2>1. /\ deleting' = IF work.kind = "remove" THEN "" ELSE deleting
          /\ work' = Destinations!NoWork
          /\ again' = Destinations!Asked
          /\ changeBusy' = (again'.at # "none")
          /\ UNCHANGED <<table, sent, changes, items, first, excused>>
      BY <1>1, <1>b DEF Destinations!Acknowledged
    <2>2. Destinations!CloseDialog \/ UNCHANGED Destinations!dialogVars
      BY <1>1, Zenon DEF Destinations!Acknowledged
    <2>3. DialogTypes'
      BY <1>0, <2>2, DialogTypesKept
    <2>4. changeBusy' \in BOOLEAN
      BY <2>1, Zenon
    <2>5. WorkTypes' /\ ListTypes'
      BY <1>0, <2>1, <2>4, Blanks DEF WorkTypes, ListTypes
    <2> QED BY <1>a, <2>1, <2>3, <2>5 DEF DestinationsTypes
  <1>2. CASE Destinations!NotAcknowledged
    <2>1. /\ changeBusy' = Destinations!BusyAfter(TRUE)
          /\ work' = Destinations!NoWork
          /\ UNCHANGED <<table, sent, changes, items, deleting, first, again>>
          /\ UNCHANGED Destinations!dialogVars
      BY <1>2 DEF Destinations!NotAcknowledged
    <2>2. excused' \in BOOLEAN
      BY <1>0, <1>2, Zenon DEF Destinations!NotAcknowledged, ListTypes
    <2>3. DialogTypes'
      BY <1>0, <2>1, DialogTypesKept
    <2>4. WorkTypes' /\ ListTypes'
      BY <1>0, <1>c, <2>1, <2>2, Blanks DEF WorkTypes, ListTypes
    <2> QED BY <1>a, <2>1, <2>3, <2>4 DEF DestinationsTypes
  <1>3. CASE Destinations!ServeFirst \/ Destinations!ServeAgain
    <2>1. /\ UNCHANGED <<table, sent, changes, items, deleting, changeBusy, work, excused>>
          /\ UNCHANGED Destinations!dialogVars
          /\ first' = first \/ first' = Destinations!Served
          /\ again' = again \/ again' = Destinations!Served
      BY <1>3 DEF Destinations!ServeFirst, Destinations!ServeAgain
    <2>2. DialogTypes'
      BY <1>0, <2>1, DialogTypesKept
    <2>3. Destinations!Served \in Destinations!Read
      BY <1>0, ListShown
    <2>4. WorkTypes' /\ ListTypes'
      BY <1>0, <2>1, <2>3 DEF WorkTypes, ListTypes
    <2> QED BY <1>a, <2>1, <2>2, <2>4 DEF DestinationsTypes
  <1>4. CASE Destinations!ApplyFirst
    <2>1. /\ UNCHANGED <<table, sent, changes, deleting, changeBusy, work, again>>
          /\ UNCHANGED Destinations!dialogVars
          /\ first' = Destinations!NoRead /\ Destinations!Apply(first)
      BY <1>4 DEF Destinations!ApplyFirst
    <2>2. DialogTypes'
      BY <1>0, <2>1, DialogTypesKept
    <2>3. first \in Destinations!Read
      BY <1>0 DEF WorkTypes
    <2>4. WorkTypes' /\ ListTypes'
      BY <1>0, <1>d, <2>1, <2>3, Blanks DEF WorkTypes, ListTypes
    <2> QED BY <1>a, <2>1, <2>2, <2>4 DEF DestinationsTypes
  <1>5. CASE Destinations!ApplyAgain
    <2>1. /\ UNCHANGED <<table, sent, changes, deleting, work, first>>
          /\ UNCHANGED Destinations!dialogVars
          /\ changeBusy' = Destinations!BusyAfter(FALSE)
          /\ again' = Destinations!NoRead /\ Destinations!Apply(again)
      BY <1>5 DEF Destinations!ApplyAgain
    <2>2. DialogTypes'
      BY <1>0, <2>1, DialogTypesKept
    <2>3. again \in Destinations!Read
      BY <1>0 DEF WorkTypes
    <2>4. WorkTypes' /\ ListTypes'
      BY <1>0, <1>c, <1>d, <2>1, <2>3, Blanks DEF WorkTypes, ListTypes
    <2> QED BY <1>a, <2>1, <2>2, <2>4 DEF DestinationsTypes
  <1> QED BY <1>1, <1>2, <1>3, <1>4, <1>5

\* The types are kept by every step of the page.
LEMMA DestinationsTypesKept ==
  DestinationsTypes /\ [Destinations!Next]_destinationsVars => DestinationsTypes'
  <1> SUFFICES ASSUME DestinationsTypes, [Destinations!Next]_destinationsVars
               PROVE  DestinationsTypes'
    OBVIOUS
  <1>0. TableTypes /\ DialogTypes /\ WorkTypes /\ ListTypes
    BY DEF DestinationsTypes
  <1>1. CASE \/ \E id \in Ids \cup {""} : Destinations!Open(id)
             \/ Destinations!Edit \/ Destinations!Close
    <2>1. UNCHANGED <<table, sent, changes, items, deleting, changeBusy, work, first, again, excused>>
      BY <1>1 DEF Destinations!Open, Destinations!Edit, Destinations!Close
    <2>2. DialogTypes'
      BY <1>0, <1>1, DialogTypesKept DEF Destinations!Close
    <2> QED BY <1>0, <2>1, <2>2 DEF DestinationsTypes, TableTypes, WorkTypes, ListTypes
  <1>2. CASE \/ \E id \in Ids : Destinations!AskRemove(id)
             \/ Destinations!CancelRemove \/ UNCHANGED destinationsVars
    <2>1. /\ UNCHANGED <<table, sent, changes, items, changeBusy, work, first, again, excused>>
          /\ UNCHANGED Destinations!dialogVars
          /\ deleting' \in Ids \cup {""} \cup {deleting}
      BY <1>2 DEF Destinations!AskRemove, Destinations!CancelRemove, Destinations!dialogVars,
                  destinationsVars
    <2>2. DialogTypes'
      BY <1>0, <2>1, DialogTypesKept
    <2> QED BY <1>0, <2>1, <2>2 DEF DestinationsTypes, TableTypes, WorkTypes, ListTypes
  <1>3. CASE Destinations!Save
    <2>1. Destinations!Send("save", editingId, draft, base, touched)
      BY <1>3 DEF Destinations!Save
    <2> QED BY <1>0, <2>1, SendTypesKept DEF DialogTypes
  <1>4. ASSUME NEW id \in Ids, Destinations!Toggle(id) PROVE DestinationsTypes'
    <2>1. /\ id \in DOMAIN items
          /\ Destinations!Send("toggle", id, Destinations!ToggleBody(items[id]), items[id], {"enabled"})
      BY <1>4 DEF Destinations!Toggle
    <2>2. items[id] \in Destinations!Shown
      BY <1>0, <2>1, TableRows DEF ListTypes
    <2>3. Destinations!ToggleBody(items[id]) \in Destinations!Draft
      BY <2>2, ShownDraft
    <2>4. {"enabled"} \in SUBSET Destinations!Field
      BY DEF Destinations!Field
    <2> QED BY <2>1, <2>2, <2>3, <2>4, SendTypesKept
  <1>5. CASE Destinations!Remove
    <2>1. Destinations!Send("remove", deleting, Destinations!blank, Destinations!NoShown, {})
      BY <1>5 DEF Destinations!Remove
    <2>2. {} \in SUBSET Destinations!Field
      OBVIOUS
    <2> QED BY <1>0, <2>1, <2>2, Blanks, SendTypesKept DEF ListTypes
  <1>6. CASE Destinations!Progress
    BY <1>6, ServeTypesKept, AnswerTypesKept DEF Destinations!Progress
  <1>7. CASE Destinations!Elsewhere
    <2>1. PICK d \in Ids :
             \/ \E r \in Destinations!RowElsewhere : table' = Destinations!With(d, r)
             \/ table' = Destinations!Without(d)
      BY <1>7, Zenon DEF Destinations!Elsewhere
    <2>2. table' \in Destinations!Tables(Destinations!Row)
      BY <1>0, <2>1, TablesKept DEF Destinations!RowElsewhere
    <2>3. /\ changes < MaxChanges /\ changes' = changes + 1 /\ sent' = sent /\ excused' = TRUE
          /\ UNCHANGED Destinations!pageVars
      BY <1>7 DEF Destinations!Elsewhere
    <2>4. changes' \in 0..MaxChanges
      BY <1>0, <2>3, OneMore, Zenon DEF TableTypes
    <2>5. TableTypes'
      BY <1>0, <2>2, <2>3, <2>4 DEF TableTypes
    <2>6. DialogTypes'
      BY <1>0, <2>3, DialogTypesKept DEF Destinations!pageVars
    <2> QED BY <1>0, <2>3, <2>5, <2>6 DEF Destinations!pageVars, DestinationsTypes, WorkTypes, ListTypes
  <1>8. CASE Destinations!Reenter
    <2>1. /\ UNCHANGED <<table, changes>> /\ Destinations!CloseDialog
          /\ sent' = {[r EXCEPT !.own = FALSE] : r \in sent}
          /\ items' = Destinations!Empty /\ deleting' = "" /\ changeBusy' = FALSE
          /\ work' = Destinations!NoWork /\ again' = Destinations!NoRead
          /\ first' = Destinations!Asked /\ excused' = FALSE
      BY <1>8 DEF Destinations!Reenter
    <2>2. \A r \in Destinations!Request : [r EXCEPT !.own = FALSE] \in Destinations!Request
      BY DEF Destinations!Request
    <2>3. TableTypes'
      BY <1>0, <2>1, <2>2 DEF TableTypes
    <2>4. DialogTypes'
      BY <1>0, <2>1, DialogTypesKept
    <2>5. WorkTypes' /\ ListTypes'
      BY <2>1, Blanks DEF WorkTypes, ListTypes
    <2> QED BY <2>3, <2>4, <2>5 DEF DestinationsTypes
  <1> QED BY <1>1, <1>2, <1>3, <1>4, <1>5, <1>6, <1>7, <1>8 DEF Destinations!Next

-----------------------------------------------------------------------------
(***************************************************************************)
(* All the pages.                                                          *)
(***************************************************************************)
Types ==
    /\ StatusTypes /\ NetworkInv /\ StorageInv
    /\ RelayInv /\ RelayTypes /\ DestinationsTypes
    /\ SettingsInv /\ SettingsPageTypes /\ ShellInv /\ ShellTypes

\* Every page keeps its types.
LEMMA TypesKept == Types /\ [Next]_vars => Types'
  <1> SUFFICES ASSUME Types, [Next]_vars PROVE Types'
    OBVIOUS
  <1>1. RelayInv' /\ RelayTypes'
    BY Steps, RelayKept, RelayTypesKept DEF Types
  <1>2. SettingsInv' /\ SettingsPageTypes' /\ ShellInv' /\ ShellTypes'
    BY Steps, SettingsKept, SettingsPageTypesKept, ShellKept, ShellTypesKept
       DEF Types, SettingsInv
  <1>3. StatusTypes' /\ DestinationsTypes'
    BY Steps, StatusTypesKept, DestinationsTypesKept DEF Types
  <1>4. NetworkInv' /\ StorageInv'
    BY PageSteps, NetworkKept, StorageKept DEF Types
  <1> QED BY <1>1, <1>2, <1>3, <1>4 DEF Types

\* The parts make up the types of the modules.
LEMMA TypesImply == Types => TypeOK
  <1> SUFFICES ASSUME Types PROVE TypeOK
    OBVIOUS
  <1>1. Status!TypeOK
    BY OptionalSmall, Zenon DEF Types, StatusTypes, Status!TypeOK, Bitrate
  <1>2. Relay!TypeOK
    BY Zenon DEF Types, RelayInv, RelayNumbers, RelayFlags, RelayTypes, Relay!TypeOK
  <1>3. Destinations!TypeOK
    BY Zenon DEF Types, DestinationsTypes, TableTypes, DialogTypes, WorkTypes, ListTypes,
                 Destinations!TypeOK
  <1>4. Settings!TypeOK
    BY OptionalSmall, Zenon
       DEF Types, SettingsInv, SettingsTypes, SettingsPageTypes, ShellInv, ShellTypes,
           Settings!TypeOK
  <1>5. Network!TypeOK /\ Storage!TypeOK
    BY Zenon DEF Types, NetworkInv, StorageInv
  <1> QED BY <1>1, <1>2, <1>3, <1>4, <1>5 DEF TypeOK

\* The types, as a temporal formula.
LEMMA TypesHold == Spec => []Types
  <1>1. Init => Types
    BY StatusTypesAtFirst, NetworkInit, StorageInit, RelayInit, RelayTypesAtFirst, SettingsInit,
       SettingsPageTypesAtFirst, ShellInit, ShellTypesAtFirst, DestinationsTypesAtFirst DEF Types
  <1> QED BY <1>1, TypesKept, PTL DEF Spec

\* Every reachable state of the console is well typed: its pages' signals and
\* forms, the requests on their way, and the server's part in them.
THEOREM TypeCorrect == Spec => []TypeOK
  BY TypesHold, TypesImply, PTL

\* Amounts are shown in order, durations to the second, and the chart stays in
\* its box, for every number, every base of the units and every size of the chart
\* (format.ts; overview.ts, chartMax, line, area).
THEOREM NumbersAreTrue == Spec => []NumbersTrue
  <1>1. Types => NumbersTrue
    <2> SUFFICES ASSUME Types PROVE NumbersTrue
      OBVIOUS
    <2>1. snapshot \subseteq Status!Body /\ history \in Seq(Bitrate) /\ Len(history) <= HistorySize
      BY OptionalSmall, Zenon DEF Types, StatusTypes
    <2> QED BY <2>1, BytesShown, DurationsTold, ChartDrawn DEF NumbersTrue
  <1> QED BY <1>1, TypesHold, PTL
=============================================================================
