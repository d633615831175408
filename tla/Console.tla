------------------------------- MODULE Console -------------------------------
(***************************************************************************)
(* The pages of the console, of which the router shows one (routes.ts):    *)
(* the pages that show snapshots, two of them with the sampler that makes  *)
(* what they show, and those that change something at the server, each     *)
(* against a server that others use as well.  The pages share              *)
(* nothing but the service, whose part in each is modelled with the page,  *)
(* so that a page is followed from its entry on, whatever was shown        *)
(* before; leaving it and coming back is a step of the page's own.         *)
(***************************************************************************)
EXTENDS Integers

CONSTANTS
    None, Base, HistorySize, Readings, Bitrates, Totals, Dests, \* StatusPages
    MaxCount, MaxSamples,                              \* NetworkSample
    MaxCalls,                                          \* RelayPanel
    Ids, Metas, BlankMeta, MaxChanges,                 \* DestinationsPage
    Values, Valid, Default, MaxUpdates, Starts         \* SettingsPage

ASSUME StatusAssumption ==
    /\ None \notin Int
    /\ Base \in Nat \ {0, 1} /\ HistorySize \in Nat \ {0, 1}
    /\ Readings \subseteq Nat \cup {None}
    /\ Bitrates \subseteq Nat
    /\ Totals \subseteq Nat \cup {None}

ASSUME NetworkAssumption == MaxCount \in Nat /\ MaxSamples \in Nat \ {0}

ASSUME StorageAssumption ==
    None \notin {"in use", "stopped", "other", "idle", "recover"}

ASSUME RelayAssumption == MaxCalls \in Nat

ASSUME DestinationsAssumption ==
    /\ BlankMeta \in Metas /\ Metas # {BlankMeta}
    /\ "" \notin Ids /\ Ids # {}
    /\ MaxChanges \in Nat

ASSUME SettingsAssumption ==
    /\ Default \in Valid /\ Valid \subseteq Values
    /\ MaxUpdates \in Nat /\ Starts # {}

VARIABLES
    page,
    snapshot, history,
    counter, previous, rate, got, waited, moved,
    array, file, found, word, during,
    relay, calls, asked, visit, seen, controlBusy, feedback, error, undone,
    table, sent, changes, items, editing, editingId, draft, deleting, changeBusy,
    work, first, again, base, touched, excused,
    row, memory, torn, updates, updated, reading, preferences, settings, starting,
    overtaken, saveBusy, message, edited, disturbed

statusVars == <<snapshot, history>>
networkVars == <<counter, previous, rate, got, waited, moved>>
storageVars == <<array, file, found, word, during>>
hostVars == <<networkVars, storageVars>>
relayVars == <<relay, calls, asked, visit, seen, controlBusy, feedback, error, undone>>
destinationsVars == <<table, sent, changes, items, editing, editingId, draft, deleting,
                      changeBusy, work, first, again, base, touched, excused>>
settingsVars == <<row, memory, torn, updates, updated, reading, preferences, settings,
                  starting, overtaken, saveBusy, message, edited, disturbed>>
vars == <<page, statusVars, hostVars, relayVars, destinationsVars, settingsVars>>

Status == INSTANCE StatusPages
Network == INSTANCE NetworkSample
Storage == INSTANCE ArraySample WITH reading <- file, shown <- word
Relay == INSTANCE RelayPanel WITH busy <- controlBusy
Destinations == INSTANCE DestinationsPage WITH busy <- changeBusy
Settings == INSTANCE SettingsPage WITH busy <- saveBusy

Init ==
    /\ page \in {"status", "server", "storage", "relay", "destinations", "settings"}
    /\ Status!Init /\ Network!Init /\ Storage!Init
    /\ Relay!Init /\ Destinations!Init /\ Settings!Init

\* The page that is shown, and what it is given: snapshots, answers, others.
StatusStep ==
    /\ page = "status" /\ Status!Next
    /\ UNCHANGED <<page, hostVars, relayVars, destinationsVars, settingsVars>>

ServerStep ==
    /\ page = "server" /\ Network!Next
    /\ UNCHANGED <<page, statusVars, storageVars, relayVars, destinationsVars, settingsVars>>

StorageStep ==
    /\ page = "storage" /\ Storage!Next
    /\ UNCHANGED <<page, statusVars, networkVars, relayVars, destinationsVars, settingsVars>>

RelayStep ==
    /\ page = "relay" /\ Relay!Next
    /\ UNCHANGED <<page, statusVars, hostVars, destinationsVars, settingsVars>>

DestinationsStep ==
    /\ page = "destinations" /\ Destinations!Next
    /\ UNCHANGED <<page, statusVars, hostVars, relayVars, settingsVars>>

SettingsStep ==
    /\ page = "settings" /\ Settings!Next
    /\ UNCHANGED <<page, statusVars, hostVars, relayVars, destinationsVars>>

Next ==
    StatusStep \/ ServerStep \/ StorageStep \/ RelayStep \/ DestinationsStep \/ SettingsStep

Spec == Init /\ [][Next]_vars

\* Requests are answered, refused or given up, by the page and the server.
RelayAnswers ==
    /\ page = "relay" /\ Relay!Progress
    /\ UNCHANGED <<page, statusVars, hostVars, destinationsVars, settingsVars>>

DestinationsAnswers ==
    /\ page = "destinations" /\ Destinations!Progress
    /\ UNCHANGED <<page, statusVars, hostVars, relayVars, settingsVars>>

SettingsAnswers ==
    /\ page = "settings" /\ Settings!Progress
    /\ UNCHANGED <<page, statusVars, hostVars, relayVars, destinationsVars>>

Fairness == WF_vars(RelayAnswers) /\ WF_vars(DestinationsAnswers) /\ WF_vars(SettingsAnswers)

LiveSpec == Spec /\ Fairness

\* The page that is shown has its buttons held.
Busy == controlBusy \/ changeBusy \/ saveBusy

-----------------------------------------------------------------------------
\* The types of every page's state and of the server's part in it.
TypeOK ==
    /\ Status!TypeOK /\ Network!TypeOK /\ Storage!TypeOK
    /\ Relay!TypeOK /\ Destinations!TypeOK /\ Settings!TypeOK

\* What the pages say of a snapshot is so: a reading is shown as unavailable if
\* and only if it is, nothing is called live or forwarding that is not.
ReadingsTrue == Status!ReadingsTellZero /\ Status!LiveMeansLive

\* Larger amounts never look smaller, whatever units they are shown in, durations
\* are told to the second, and the chart stays in its box, with no line across a
\* sample that is missing.
NumbersTrue == Status!BytesInOrder /\ Status!DurationsExact /\ Status!ChartFits

\* A network rate on the Server page is of what passed between two readings.
RateIsTraffic == Network!RateIsTraffic

\* The word on the Storage page fitted the array while it was looked at.
WordIsTrue == Storage!WordIsTrue

\* The Live page says that the relay is stopped only if it is, unless somebody
\* has started it again.
FeedbackIsTrue == Relay!FeedbackIsTrue

\* The Destinations page shows what it has changed.
ItemsAgree == Destinations!ItemsAgree

\* A change made on the Destinations page changes nothing else.
UntouchedFieldsKept == Destinations!UntouchedFieldsKept

\* What the row of settings says is in effect, and "Settings saved" is true.
SettingsHold == Settings!SettingsAgree /\ Settings!SavedHolds

\* No page is left with its buttons held: what it asked for ends, and whatever
\* came of it, the buttons are given back.
BusyEnds == Busy ~> ~Busy
=============================================================================
