----------------------------- MODULE LinkContract -----------------------------
(***************************************************************************)
(* What the browser's link promises the shell, without counters and        *)
(* without references to sockets, timers and intervals: it is switched on  *)
(* and off, and while it is on there is one connection, which is awaited,  *)
(* dialed, open, or about to be dialed again, with the label to match, and *)
(* which is never given up.  A link that is switched on before all of the  *)
(* last one is gone is loose until it is switched on again: what is left   *)
(* over then runs beside the connection, with the same label.              *)
(***************************************************************************)
VARIABLES
    on,
    phase,    \* of the connection of the last switching on
    polling,  \* its interval runs
    label,    \* what the shell says
    loose

vars == <<on, phase, polling, label, loose>>

Init ==
    /\ on = FALSE
    /\ phase = "idle"
    /\ polling = FALSE
    /\ label = "offline"
    /\ loose = FALSE

SwitchOn ==
    /\ ~on /\ on' = TRUE
    /\ phase' = "awaiting"
    /\ polling' = FALSE
    /\ loose' \in BOOLEAN
    /\ ~loose => loose' = (phase \in {"awaiting", "closing"})
    /\ UNCHANGED label

\* The first answers are there, or an error is.
Dial ==
    /\ on /\ phase = "awaiting"
    /\ phase' = "dialing"
    /\ polling' = TRUE
    /\ label' \in {"connecting", "reconnecting"}
    /\ UNCHANGED <<on, loose>>

Open ==
    /\ on \/ loose
    /\ phase = "dialing"
    /\ phase' = "open"
    /\ label' = "connected"
    /\ UNCHANGED <<on, polling, loose>>

Lose ==
    /\ on /\ phase \in {"dialing", "open"}
    /\ phase' = "timer"
    /\ label' = "reconnecting"
    /\ UNCHANGED <<on, polling, loose>>

Redial ==
    /\ on /\ phase = "timer"
    /\ phase' = "dialing"
    /\ label' \in IF loose THEN {"connecting", "reconnecting"} ELSE {label}
    /\ UNCHANGED <<on, polling, loose>>

\* A connection that is not wanted any more ends.
Fade ==
    /\ ~on /\ phase # "idle"
    /\ phase \in {"awaiting", "closing"} \/ loose
    /\ phase' = "done"
    /\ UNCHANGED <<on, polling, label, loose>>

Closed ==
    CASE phase \in {"dialing", "open"} -> "closing"
      [] phase = "timer" -> "done"
      [] OTHER -> phase

\* It may be a refusal of the first answers that switches it off.  A loose link
\* may not reach all that it would close.
SwitchOff ==
    /\ on' = FALSE
    /\ \/ phase' = Closed
       \/ phase = "awaiting" /\ phase' = "done"
       \/ loose /\ phase' = phase
    /\ polling' \in BOOLEAN
    /\ polling' => loose /\ polling
    /\ label' = "offline"
    /\ UNCHANGED loose

\* What was left over tells the shell of its own socket.
Stray ==
    /\ loose
    /\ label' \in {"connecting", "connected", "reconnecting"}
    /\ UNCHANGED <<on, phase, polling, loose>>

Next ==
    \/ SwitchOn \/ Dial \/ Open \/ Lose \/ Redial
    \/ Fade \/ SwitchOff \/ Stray

Spec == Init /\ [][Next]_vars

\* A link that is on is never given up, and polls as soon as its first answers
\* are there.  Unless it is loose the shell says "connected" if and only if the
\* connection is open, once it is dialed; and a link that is off says so, and
\* has nothing that dials, is open or polls.
InTouch ==
    /\ on => /\ phase \in {"awaiting", "dialing", "open", "timer"}
             /\ phase # "awaiting" => polling
    /\ on /\ ~loose /\ phase # "awaiting" => (label = "connected" <=> phase = "open")
    /\ ~on /\ ~loose => /\ label = "offline"
                       /\ ~polling
                       /\ phase \notin {"dialing", "open", "timer"}
=============================================================================
