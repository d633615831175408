----------------------------- MODULE RelayContract -----------------------------
(***************************************************************************)
(* What relay control promises its user, without mutex, handlers, worker   *)
(* or engine API: there is a list of enabled destinations that can change  *)
(* only while the relay is off, a switch, and a feed (what the engine      *)
(* forwards to).  While the controller is in command the feed is either    *)
(* empty or, with the relay on, exactly that list.  Command is lost when   *)
(* the controller halts, or when a request or an edit it gave up on takes  *)
(* effect late; it is regained with the next acknowledged configuration,   *)
(* if that was made from the list as it is by then.                        *)
(***************************************************************************)
EXTENDS Naturals

CONSTANT Dest

VARIABLES
    list,   \* the enabled destinations, in order
    on,     \* the relay is enabled
    feed,   \* what the engine forwards to
    loose   \* the controller is not in command of the feed

vars == <<list, on, feed, loose>>

IsList(l) == \E ids \in SUBSET Dest : l \in [ids -> Nat]

Init ==
    /\ list = <<>>
    /\ on = FALSE
    /\ feed = <<>>
    /\ loose = TRUE

\* Destinations are edited only while the relay is off.
Edit ==
    /\ ~on
    /\ IsList(list')
    /\ UNCHANGED <<on, feed, loose>>

\* start, the second half of restart, or the worker restoring the feed.
SwitchOn ==
    /\ list # <<>>
    /\ on' = TRUE
    /\ feed' = list
    /\ loose' = FALSE
    /\ UNCHANGED list

\* stop, the first half of restart, or the reset at boot.
SwitchOff ==
    /\ on' = FALSE
    /\ feed' = <<>>
    /\ loose' = FALSE
    /\ UNCHANGED list

\* The engine restarts, or graceful shutdown empties its list.
Silence ==
    /\ feed' = <<>>
    /\ loose' \in {loose, FALSE}
    /\ UNCHANGED <<list, on>>

\* A request given up on takes effect.
Stray ==
    /\ IsList(feed')
    /\ loose' = TRUE
    /\ UNCHANGED <<list, on>>

\* An edit given up on takes effect while the relay is on.
Creep ==
    /\ on
    /\ IsList(list')
    /\ loose' = TRUE
    /\ UNCHANGED <<on, feed>>

\* The relay comes on with a list that such an edit has changed meanwhile.
SwitchOnOutdated ==
    /\ on' = TRUE
    /\ IsList(feed')
    /\ loose' = TRUE
    /\ UNCHANGED list

\* The controller exits or crashes; the engine goes on.
Halt ==
    /\ on' = FALSE
    /\ loose' = TRUE
    /\ UNCHANGED <<list, feed>>

Next == Edit \/ SwitchOn \/ SwitchOff \/ Silence \/ Stray \/ Creep \/ SwitchOnOutdated \/ Halt

Spec == Init /\ [][Next]_vars

\* While the controller is in command, nothing is forwarded that is not an
\* enabled destination of a relay that is on.
InCommand == ~loose => feed = <<>> \/ (on /\ feed = list)
=============================================================================
