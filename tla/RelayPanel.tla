------------------------------ MODULE RelayPanel ------------------------------
(***************************************************************************)
(* The relay controls of the Live page (overview.ts: the toolbar and       *)
(* control) against a controller that others control too.  The buttons go  *)
(* by the last snapshot, which may be behind.  The page may be left with a *)
(* request in flight; the request goes on, its answer finds no page.       *)
(***************************************************************************)
EXTENDS Naturals, FiniteSets

CONSTANT MaxCalls  \* bound on the requests sent

VARIABLES
    relay,     \* the controller: the relay is on
    calls,     \* requests: what was asked, by which visit of the page, outcome
    asked,     \* how many were sent
    visit,     \* the number of visits to the page
    seen,      \* the last snapshot
    busy,
    feedback,
    error,     \* the shell shows an error
    undone     \* history: since the relay was stopped for the feedback, it was started

vars == <<relay, calls, asked, visit, seen, busy, feedback, error, undone>>
pageVars == <<visit, busy, feedback>>

Action == {"start", "stop", "restart"}
Outcome == {"none", "ok", "error"}
Call == [id: 1..MaxCalls, act: Action, visit: Nat, outcome: Outcome, undone: BOOLEAN]

TypeOK ==
    /\ relay \in BOOLEAN
    /\ calls \subseteq Call
    /\ asked \in 0..MaxCalls
    /\ visit \in Nat
    /\ seen \in [engine: BOOLEAN, relay: BOOLEAN]
    /\ busy \in BOOLEAN
    /\ feedback \in {"", "stopped", "applied"}
    /\ error \in BOOLEAN
    /\ undone \in BOOLEAN

Init ==
    /\ relay = FALSE
    /\ calls = {} /\ asked = 0
    /\ visit = 1
    /\ seen = [engine |-> TRUE, relay |-> relay]
    /\ busy = FALSE /\ feedback = "" /\ error = FALSE
    /\ undone = FALSE

\* The button says "Stop relay" or "Start relay" by the snapshot; restart needs
\* a relay that is on.
Offered == {IF seen.relay THEN "stop" ELSE "start"} \cup (IF seen.relay THEN {"restart"} ELSE {})

Press(act) ==
    /\ ~busy /\ seen.engine
    /\ act \in Offered
    /\ asked < MaxCalls
    /\ asked' = asked + 1
    /\ calls' = calls \cup {[id |-> asked', act |-> act, visit |-> visit,
                             outcome |-> "none", undone |-> FALSE]}
    /\ busy' = TRUE
    /\ feedback' = ""
    /\ UNCHANGED <<relay, visit, seen, error, undone>>

\* Of all that waits for a page or is on it, what is told of a stop no longer
\* holds once the relay is on.
Undoing(cs, on) == {[c EXCEPT !.undone = @ \/ on] : c \in cs}

\* The controller carries a request out, or not, or only the stop of a restart;
\* with an error it may have been carried out all the same.
Outcomes(act) ==
    CASE act = "start"   -> {<<TRUE, "ok">>, <<TRUE, "error">>, <<relay, "error">>}
      [] act = "stop"    -> {<<FALSE, "ok">>, <<FALSE, "error">>, <<relay, "error">>}
      [] act = "restart" -> {<<TRUE, "ok">>, <<TRUE, "error">>, <<FALSE, "error">>, <<relay, "error">>}

Serve(c) ==
    /\ c.outcome = "none"
    /\ \E o \in Outcomes(c.act) :
         /\ relay' = o[1]
         /\ calls' = Undoing(calls \ {c}, relay') \cup {[c EXCEPT !.outcome = o[2]]}
         /\ undone' = (undone \/ relay')
    /\ UNCHANGED <<asked, visit, seen, busy, feedback, error>>

\* Mutated form of Feedback: told whatever the answer is.
FeedbackAnyhow(c) == IF c.act = "stop" THEN "stopped" ELSE "applied"

\* What the page tells of an answer; an error is told by the shell.
Feedback(c) ==
    IF c.outcome = "error" THEN "" ELSE IF c.act = "stop" THEN "stopped" ELSE "applied"

\* Whatever the answer is, the buttons are given back.
Busy(c) == FALSE

Answer(c) ==
    /\ c.outcome # "none"
    /\ calls' = calls \ {c}
    /\ error' = (error \/ c.outcome = "error")
    /\ IF c.visit = visit
       THEN /\ busy' = Busy(c)
            /\ feedback' = Feedback(c)
            /\ undone' = c.undone
       ELSE UNCHANGED <<busy, feedback, undone>>
    /\ UNCHANGED <<relay, asked, visit, seen>>

\* A snapshot arrives, sampled now or, if the link is slow, some time ago.
Accept ==
    /\ seen' \in [engine: BOOLEAN, relay: BOOLEAN]
    /\ UNCHANGED <<relay, calls, asked, visit, busy, feedback, error, undone>>

\* Another tab starts or stops the relay, or the controller restarts.
Elsewhere ==
    /\ relay' = ~relay
    /\ calls' = Undoing(calls, relay')
    /\ undone' = (undone \/ relay')
    /\ UNCHANGED <<asked, visit, seen, busy, feedback, error>>

\* The page is left and entered again.
Reenter ==
    /\ \E c \in calls : c.visit = visit
    /\ visit' = visit + 1
    /\ busy' = FALSE /\ feedback' = ""
    /\ UNCHANGED <<relay, calls, asked, seen, error, undone>>

Dismiss ==
    /\ error
    /\ error' = FALSE
    /\ UNCHANGED <<relay, calls, asked, pageVars, seen, undone>>

Next ==
    \/ \E act \in Action : Press(act)
    \/ \E c \in calls : Serve(c) \/ Answer(c)
    \/ Accept \/ Elsewhere \/ Reenter \/ Dismiss

Spec == Init /\ [][Next]_vars

\* The controller works off requests, answers arrive or time out.
Progress == \E c \in calls : Serve(c) \/ Answer(c)

-----------------------------------------------------------------------------
\* The page says that the relay is stopped only if a stop was acknowledged, and
\* the relay then is off unless somebody has started it since.
FeedbackIsTrue == feedback = "stopped" /\ ~undone => ~relay
=============================================================================
