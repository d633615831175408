--------------------------- MODULE DestinationsPage ---------------------------
(***************************************************************************)
(* The Destinations page (destinations.ts) against the table of            *)
(* destinations that other tabs change too (destinations.rs: save, delete, *)
(* list).  The page reads the table when it is entered and again after     *)
(* each change; a change is the whole row, built from what the page last   *)
(* read, with a field for a new key and one to clear the key: the key      *)
(* itself never comes back.                                                *)
(*                                                                         *)
(* A request may be refused (relay on, fields not valid, 20 rows), get no  *)
(* answer, or be carried out with its answer lost; what is told of that is *)
(* left out.  So is the relay's state in the last snapshot, by which the   *)
(* buttons that open dialogs and toggle are off: the snapshot may be       *)
(* behind, so that it says nothing of the relay by the time of the click.  *)
(***************************************************************************)
EXTENDS Naturals, FiniteSets, Functions

CONSTANTS
    Ids,           \* destinations
    Metas,         \* name, kind, url, title and description of a destination
    BlankMeta,     \* what a new one starts with
    MaxChanges     \* bound on the changes asked for, here and by others, and so
                   \* on what the user does that can lead to one

VARIABLES
    table,       \* the rows, by id
    sent,        \* requests that are yet to be carried out
    changes,     \* how many there were, and changes by others
    items,       \* what the page shows
    editing, editingId, draft,
    deleting,    \* the destination the page asks about; "" is null
    busy,
    work,        \* the page's request: what of, and what came of it
    first,       \* the read on entering the page
    again,       \* the read after a change
    base,        \* history: the row the draft was made from
    touched,     \* history: the fields of the draft the user has changed
    excused      \* history: others, or a lost answer, put the page behind

dialogVars == <<editing, editingId, draft, base, touched>>
pageVars == <<items, dialogVars, deleting, busy, work, first, again>>
vars == <<table, sent, changes, pageVars, excused>>

\* A key is one that others have entered or the one typed in the dialog.
Key == {"none", "other", "typed"}
Row == {r \in [meta: Metas, enabled: BOOLEAN, key: Key] : r.enabled => r.key # "none"}
Seeded == [meta |-> CHOOSE m \in Metas : m # BlankMeta, enabled |-> TRUE, key |-> "other"]
RowElsewhere == {r \in Row : r.key # "typed"}
Shown == [meta: Metas, enabled: BOOLEAN, configured: BOOLEAN]
Draft == [meta: Metas, enabled: BOOLEAN, key: {"keep", "typed", "clear"}]
Field == {"meta", "enabled"}
Tables(R) == UNION {[S -> R] : S \in SUBSET Ids}
Request == [kind: {"save", "toggle", "remove"}, id: Ids \cup {""}, body: Draft,
            base: Shown, touched: SUBSET Field, own: BOOLEAN]
Read == [at: {"none", "asked", "served"}, rows: Tables(Shown)]

public(r) == [meta |-> r.meta, enabled |-> r.enabled, configured |-> r.key # "none"]
list == [d \in DOMAIN table |-> public(table[d])]

Empty == [d \in {} |-> {}]
NoRead == [at |-> "none", rows |-> Empty]
Asked == [NoRead EXCEPT !.at = "asked"]
NoShown == [meta |-> BlankMeta, enabled |-> FALSE, configured |-> FALSE]
blank == [meta |-> BlankMeta, enabled |-> FALSE, key |-> "keep"]

TypeOK ==
    /\ table \in Tables(Row)
    /\ sent \subseteq Request
    /\ changes \in 0..MaxChanges
    /\ items \in Tables(Shown)
    /\ editing \in BOOLEAN /\ editingId \in Ids \cup {""} /\ draft \in Draft
    /\ deleting \in Ids \cup {""}
    /\ busy \in BOOLEAN
    /\ work \in [kind: {"", "save", "toggle", "remove"}, outcome: {"none", "ok", "error"}]
    /\ first \in Read /\ again \in Read
    /\ base \in Shown /\ touched \subseteq Field
    /\ excused \in BOOLEAN

NoWork == [kind |-> "", outcome |-> "none"]

Init ==
    /\ table = [d \in {CHOOSE d \in Ids : TRUE} |-> Seeded]
    /\ sent = {} /\ changes = 0
    /\ items = Empty
    /\ editing = FALSE /\ editingId = "" /\ draft = blank
    /\ deleting = ""
    /\ busy = FALSE
    /\ work = NoWork
    /\ first = Asked /\ again = NoRead
    /\ base = NoShown /\ touched = {}
    /\ excused = FALSE

NoDialog == ~editing /\ deleting = ""

-----------------------------------------------------------------------------
(***************************************************************************)
(* The dialog.                                                             *)
(***************************************************************************)
\* The draft of a destination that is shown as s.
DraftOf(s) == [meta |-> s.meta, enabled |-> s.enabled, key |-> "keep"]

Open(id) ==
    /\ NoDialog /\ changes < MaxChanges
    /\ id \in DOMAIN items \cup {""}
    /\ editingId' = id
    /\ base' = IF id = "" THEN NoShown ELSE items[id]
    /\ draft' = IF id = "" THEN blank ELSE DraftOf(items[id])
    /\ touched' = {}
    /\ editing' = TRUE
    /\ UNCHANGED <<table, sent, changes, items, deleting,
                   busy, work, first, again, excused>>

Edit ==
    /\ editing /\ changes < MaxChanges
    /\ \/ \E m \in Metas : draft' = [draft EXCEPT !.meta = m] /\ touched' = touched \cup {"meta"}
       \/ draft' = [draft EXCEPT !.enabled = ~@] /\ touched' = touched \cup {"enabled"}
       \/ \E k \in {"keep", "typed", "clear"} :
            /\ k = "clear" => editingId # ""
            /\ draft' = [draft EXCEPT !.key = k]
            /\ UNCHANGED touched
    /\ UNCHANGED <<table, sent, changes, items, editing, editingId,
                   deleting, busy, work, first, again, base, excused>>

\* close(): the key that was typed is dropped, the rest of the draft left to
\* be replaced by open().
CloseDialog ==
    /\ editing' = FALSE /\ editingId' = "" /\ draft' = blank
    /\ base' = NoShown /\ touched' = {}

Close ==
    /\ editing
    /\ CloseDialog
    /\ UNCHANGED <<table, sent, changes, items, deleting, busy,
                   work, first, again, excused>>

AskRemove(id) ==
    /\ NoDialog /\ changes < MaxChanges
    /\ id \in DOMAIN items
    /\ deleting' = id
    /\ UNCHANGED <<table, sent, changes, items, dialogVars, busy,
                   work, first, again, excused>>

CancelRemove ==
    /\ deleting # ""
    /\ deleting' = ""
    /\ UNCHANGED <<table, sent, changes, items, dialogVars, busy,
                   work, first, again, excused>>

-----------------------------------------------------------------------------
(***************************************************************************)
(* Changes.                                                                *)
(***************************************************************************)
\* busy, and a request on its way.
Send(kind, id, body, was, changed) ==
    /\ ~busy /\ changes < MaxChanges
    /\ busy' = TRUE
    /\ changes' = changes + 1
    /\ sent' = sent \cup {[kind |-> kind, id |-> id, body |-> body, base |-> was,
                           touched |-> changed, own |-> TRUE]}
    /\ work' = [kind |-> kind, outcome |-> "none"]
    /\ UNCHANGED <<table, items, dialogVars, deleting,
                   first, again, excused>>

Save ==
    /\ editing
    /\ Send("save", editingId, draft, base, touched)

\* Mutated form of ToggleBody: only what is to be changed, the rest left blank.
ToggleBodyBare(s) == [blank EXCEPT !.enabled = ~s.enabled]

\* What toggle() sends: the row as it is shown, without a word on the key.
ToggleBody(s) == [DraftOf(s) EXCEPT !.enabled = ~@]

Toggle(id) ==
    /\ NoDialog
    /\ id \in DOMAIN items /\ items[id].configured
    /\ Send("toggle", id, ToggleBody(items[id]), items[id], {"enabled"})

Remove ==
    /\ deleting # ""
    /\ Send("remove", deleting, blank, NoShown, {})

\* The key a change leaves: cleared, replaced, or the old one.
KeyAfter(body, old) ==
    CASE body.key = "clear" -> "none" [] body.key = "typed" -> "typed" [] OTHER -> old

\* Mutated form of Allowed: the row is taken as it comes.
AllowedAnyhow(r) == TRUE

\* A destination without a key is not enabled.
Allowed(r) == r.enabled => r.key # "none"

\* The row a request makes of one with this key; a new one has none.
SavedRow(r, key) ==
    [meta |-> r.body.meta, enabled |-> r.body.enabled, key |-> KeyAfter(r.body, key)]

Without(id) == Restrict(table, DOMAIN table \ {id})
With(id, r) == [d \in DOMAIN table \cup {id} |-> IF d = id THEN r ELSE table[d]]

\* The tables a request may leave when it is carried out; none if it is refused
\* for the table's sake.
Carried(r) ==
    LET saved == SavedRow(r, IF r.id \in DOMAIN table THEN table[r.id].key ELSE "none")
        ids == IF r.id = "" THEN Ids \ DOMAIN table ELSE {r.id} \cap DOMAIN table
    IN  IF r.kind = "remove" THEN {Without(id) : id \in ids}
        ELSE {With(id, saved) : id \in {i \in ids : Allowed(saved)}}

\* Carried out and answered, carried out with its answer lost, or neither.
Serve(r) ==
    /\ \E t \in Carried(r) \cup {table}, outcome \in {"ok", "error"} :
         /\ outcome = "ok" => t \in Carried(r)
         /\ table' = t
         /\ work' = IF r.own THEN [work EXCEPT !.outcome = outcome] ELSE work
         /\ excused' = (excused \/ (t # table /\ ~r.own))
    /\ sent' = sent \ {r}
    /\ UNCHANGED <<changes, items, dialogVars, deleting, busy,
                   first, again>>

\* Mutated form of Reads: only a dialog's change shows in the list.
ReadsAfterSave(kind) == IF kind = "save" THEN Asked ELSE NoRead

\* After a change, whatever its kind, the table is read again.
Reads(kind) == Asked

Acknowledged ==
    /\ work.outcome = "ok"
    /\ IF work.kind = "save" THEN CloseDialog ELSE UNCHANGED dialogVars
    /\ deleting' = IF work.kind = "remove" THEN "" ELSE deleting
    /\ work' = NoWork
    /\ again' = Reads(work.kind)
    /\ busy' = (again'.at # "none")
    /\ UNCHANGED <<table, sent, changes, items,
                   first, excused>>

\* Mutated form of BusyAfter: a change that failed keeps the buttons.
BusyAfterError(failed) == failed

\* Whatever came of it, the buttons are given back.
BusyAfter(failed) == FALSE

\* The dialog, or the shell, tells of it.  If the change was made, only its
\* answer lost, the page is behind until it is read again.
NotAcknowledged ==
    /\ work.outcome = "error"
    /\ busy' = BusyAfter(TRUE)
    /\ work' = NoWork
    /\ excused' = (excused \/ items # list)
    /\ UNCHANGED <<table, sent, changes, items, dialogVars,
                   deleting, first, again>>

-----------------------------------------------------------------------------
(***************************************************************************)
(* Reads: load().                                                          *)
(***************************************************************************)
\* load() has its rows.
Served == [at |-> "served", rows |-> list]

ServeFirst ==
    /\ first.at = "asked"
    /\ first' = Served
    /\ UNCHANGED <<table, sent, changes, items, dialogVars, deleting,
                   busy, work, again, excused>>

ServeAgain ==
    /\ again.at = "asked"
    /\ again' = Served
    /\ UNCHANGED <<table, sent, changes, items, dialogVars, deleting,
                   busy, work, first, excused>>

\* The list is replaced, or the read has failed.  The list is behind from the
\* start if others have changed the table meanwhile, or if a later read
\* overtook this one.
Apply(read) ==
    \/ /\ read.at = "served"
       /\ items' = read.rows
       /\ excused' = (read.rows # list)
    \/ /\ read.at # "none"
       /\ excused' = TRUE
       /\ UNCHANGED items

ApplyFirst ==
    /\ Apply(first)
    /\ first' = NoRead
    /\ UNCHANGED <<table, sent, changes, dialogVars, deleting, busy,
                   work, again>>

ApplyAgain ==
    /\ Apply(again)
    /\ again' = NoRead
    /\ busy' = BusyAfter(FALSE)
    /\ UNCHANGED <<table, sent, changes, dialogVars, deleting,
                   work, first>>

-----------------------------------------------------------------------------
\* Another tab changes, adds or removes a destination.
Elsewhere ==
    /\ changes < MaxChanges
    /\ changes' = changes + 1
    /\ \E d \in Ids :
         \/ \E r \in RowElsewhere : table' = With(d, r)
         \/ table' = Without(d)
    /\ excused' = TRUE
    /\ UNCHANGED <<sent, pageVars>>

\* The page is left and entered again; a request under way goes on.
Reenter ==
    /\ busy \/ first # Asked
    /\ sent' = {[r EXCEPT !.own = FALSE] : r \in sent}
    /\ items' = Empty
    /\ CloseDialog
    /\ deleting' = "" /\ busy' = FALSE
    /\ work' = NoWork
    /\ first' = Asked /\ again' = NoRead
    /\ excused' = FALSE
    /\ UNCHANGED <<table, changes>>

-----------------------------------------------------------------------------
Progress ==
    \/ \E r \in sent : Serve(r)
    \/ Acknowledged \/ NotAcknowledged
    \/ ServeFirst \/ ApplyFirst \/ ServeAgain \/ ApplyAgain

Next ==
    \/ \E id \in Ids \cup {""} : Open(id)
    \/ Edit \/ Close \/ Save
    \/ \E id \in Ids : Toggle(id) \/ AskRemove(id)
    \/ CancelRemove \/ Remove
    \/ Progress
    \/ Elsewhere \/ Reenter

Spec == Init /\ [][Next]_vars

-----------------------------------------------------------------------------
\* A page at rest shows the table: whatever it changed itself, it shows.
\* Exempt is a page behind for what others did, for an answer that was lost, or
\* for a read that a later one had overtaken.
ItemsAgree ==
    ~busy /\ first.at = "none" /\ ~excused => items = list

\* A change leaves alone every field of its row that the user has not changed:
\* the key always, the others unless they have changed since they were shown.
UntouchedFieldsKept ==
    [][\A r \in sent \ sent' :
          r.id \in DOMAIN table /\ r.id \in DOMAIN table' =>
              LET was == table[r.id] now == table'[r.id] IN
              /\ now.key = was.key \/ r.body.key # "keep"
              /\ now.meta = was.meta \/ "meta" \in r.touched \/ r.base.meta # was.meta
              /\ now.enabled = was.enabled \/ "enabled" \in r.touched \/ r.base.enabled # was.enabled
      ]_vars
=============================================================================
