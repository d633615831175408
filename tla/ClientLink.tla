------------------------------ MODULE ClientLink ------------------------------
(***************************************************************************)
(* The browser's link to the controller: the Api service of the Angular    *)
(* frontend (api.ts), the route guard and the shell that start and stop it,*)
(* and the server's session behind it.                                     *)
(*                                                                         *)
(* Each start() sets off a chain of its own: three REST calls, a socket,   *)
(* its close event, a timer, the next socket, and so on, and an interval   *)
(* that polls while there is no connection.  The service keeps only a flag *)
(* (disposed) and a reference to the last socket, timer and interval, so a *)
(* chain that stop() does not reach lives on beside the next one.          *)
(*                                                                         *)
(* Requests carry the cookie of the moment they are sent.  "up" stands for *)
(* the network and the server: a request fails, a socket drops, only while *)
(* it is FALSE.                                                            *)
(***************************************************************************)
EXTENDS Naturals

CONSTANTS
    MaxStarts,    \* bound on the times the shell is entered
    MaxSessions,  \* bound on the times somebody signs in
    MaxAttempts   \* bound on the attempts that are told apart

ASSUME BoundAssumption ==
    MaxStarts \in Nat /\ MaxSessions \in Nat /\ MaxAttempts \in Nat \ {0}

VARIABLES
    up,             \* the network and the server answer
    valid,          \* the server's sessions of this browser
    made,           \* how many there have been
    cookie,         \* the session the browser holds; 0 is none
    page,           \* what the router shows
    disposed,
    connection,
    attempts,
    started,        \* how often start() took effect
    chain,          \* the state of each start's chain
    socket,         \* this.socket, by its chain; 0 is null
    reconnectTimer, \* the last timer set, by its chain
    intervals,      \* the intervals that run, by their chains
    fallback,       \* the last interval set
    asked,          \* cookies of other requests in flight
    ending,         \* cookie of a logout or password change in flight
    overlapped      \* history: the last start met something of an earlier one

serverVars == <<up, valid, made>>
linkVars == <<disposed, connection, attempts, started, chain, socket,
              reconnectTimer, intervals, fallback, overlapped>>
vars == <<serverVars, cookie, page, linkVars, asked, ending>>

Starts == 1..MaxStarts
Sessions == 1..MaxSessions

\* awaiting: Promise.all; dialing, open, closing: a socket; timer: a reconnect
\* is scheduled; done: nothing of the chain is left but perhaps its interval.
Phase == {"idle", "awaiting", "dialing", "open", "closing", "timer", "done"}

TypeOK ==
    /\ up \in BOOLEAN
    /\ valid \subseteq 1..made
    /\ made \in 0..MaxSessions
    /\ cookie \in 0..made
    /\ page \in {"login", "guard", "shell"}
    /\ disposed \in BOOLEAN
    /\ connection \in {"connecting", "connected", "reconnecting", "offline"}
    /\ attempts \in 0..MaxAttempts
    /\ started \in 0..MaxStarts
    /\ chain \in [Starts -> [at: Phase, cookie: 0..MaxSessions]]
    /\ socket \in 0..started
    /\ reconnectTimer \in 0..started
    /\ intervals \subseteq 1..started
    /\ fallback \in 0..started
    /\ asked \subseteq 0..MaxSessions
    /\ ending \in 0..made
    /\ overlapped \in BOOLEAN

Init ==
    /\ up = TRUE
    /\ valid = {} /\ made = 0 /\ cookie = 0
    /\ page = "login"
    /\ disposed = TRUE
    /\ connection = "offline"
    /\ attempts = 0
    /\ started = 0
    /\ chain = [s \in Starts |-> [at |-> "idle", cookie |-> 0]]
    /\ socket = 0 /\ reconnectTimer = 0
    /\ intervals = {} /\ fallback = 0
    /\ asked = {} /\ ending = 0
    /\ overlapped = FALSE

Admitted(c) == up /\ c \in valid
Refused(c) == up /\ c \notin valid

At(s, phases) == chain[s].at \in phases

Alive(s) == ~At(s, {"idle", "done"})

-----------------------------------------------------------------------------
(***************************************************************************)
(* start, connect and stop.                                                *)
(***************************************************************************)
\* Mutated form of Closed: the close event finds its timer still running.
ClosedKeepsTimer(c, s) ==
    IF s = socket /\ c[s].at \in {"dialing", "open"} THEN "closing" ELSE c[s].at

\* What stop() makes of a chain: it clears the last timer and closes the last
\* socket, whose close event is yet to come.
Closed(c, s) ==
    CASE s = socket /\ c[s].at \in {"dialing", "open"} -> "closing"
      [] s = reconnectTimer /\ c[s].at = "timer" -> "done"
      [] OTHER -> c[s].at

\* stop(), where c is the chains as the caller left them.
Stop(c) ==
    /\ disposed' = TRUE
    /\ chain' = [s \in Starts |-> [c[s] EXCEPT !.at = Closed(c, s)]]
    /\ intervals' = intervals \ {fallback}
    /\ socket' = 0
    /\ connection' = "offline"
    /\ UNCHANGED <<attempts, started, reconnectTimer, fallback, overlapped>>

\* A refused request: stop, forget the user, show the sign-in page.
SignOut(c) == Stop(c) /\ page' = "login"

Connect(s) ==
    /\ connection' = IF attempts > 0 THEN "reconnecting" ELSE "connecting"
    /\ chain' = [chain EXCEPT ![s] = [at |-> "dialing", cookie |-> cookie]]
    /\ socket' = s

Finish(s) ==
    /\ chain' = [chain EXCEPT ![s].at = "done"]
    /\ UNCHANGED <<connection, socket>>

\* start() up to its await: three requests are sent.
Start ==
    IF disposed
    THEN /\ disposed' = FALSE
         /\ started' = started + 1
         /\ chain' = [chain EXCEPT ![started + 1] = [at |-> "awaiting", cookie |-> cookie]]
         /\ overlapped' = (intervals # {} \/ \E s \in Starts : Alive(s))
         /\ UNCHANGED <<connection, attempts, socket, reconnectTimer, intervals, fallback>>
    ELSE UNCHANGED linkVars

\* Mutated form of Continue: a start that was stopped while it waited connects.
ContinueAnyway(s) ==
    /\ Connect(s) /\ intervals' = intervals \cup {s} /\ fallback' = s
    /\ UNCHANGED <<disposed, attempts, started, reconnectTimer, overlapped>>

\* start() after its await, whether it got its answers or an error.
Continue(s) ==
    /\ IF disposed
       THEN Finish(s) /\ UNCHANGED <<intervals, fallback>>
       ELSE Connect(s) /\ intervals' = intervals \cup {s} /\ fallback' = s
    /\ UNCHANGED <<disposed, attempts, started, reconnectTimer, overlapped>>

-----------------------------------------------------------------------------
(***************************************************************************)
(* Pages: signing in, the guard, the shell.                                *)
(***************************************************************************)
SignIn ==
    /\ page = "login" /\ up
    /\ made < MaxSessions
    /\ made' = made + 1
    /\ valid' = valid \cup {made'}
    /\ cookie' = made'
    /\ page' = "guard"
    /\ UNCHANGED <<up, linkVars, asked, ending>>

\* Forward to the dashboard with the cookie the browser has.
Visit ==
    /\ page = "login"
    /\ page' = "guard"
    /\ UNCHANGED <<serverVars, cookie, linkVars, asked, ending>>

GuardPasses ==
    /\ page = "guard" /\ Admitted(cookie)
    /\ started < MaxStarts
    /\ page' = "shell"
    /\ Start
    /\ UNCHANGED <<serverVars, cookie, asked, ending>>

GuardRefuses ==
    /\ page = "guard" /\ Refused(cookie)
    /\ SignOut(chain)
    /\ UNCHANGED <<serverVars, cookie, asked, ending>>

GuardFails ==
    /\ page = "guard" /\ ~up
    /\ page' = "login"
    /\ UNCHANGED <<serverVars, cookie, linkVars, asked, ending>>

\* Back to the sign-in page: the shell is destroyed.
Leave ==
    /\ page = "shell"
    /\ Stop(chain)
    /\ page' = "login"
    /\ UNCHANGED <<serverVars, cookie, asked, ending>>

\* A page of the shell sends a request.
Ask ==
    /\ page = "shell"
    /\ asked' = asked \cup {cookie}
    /\ UNCHANGED <<serverVars, cookie, page, linkVars, ending>>

\* logout, or a change of the password.
AskToEnd ==
    /\ page = "shell" /\ ending = 0
    /\ ending' = cookie
    /\ UNCHANGED <<serverVars, cookie, page, linkVars, asked>>

\* logout removes the session and the cookie, a change of the password every
\* session; a session that is gone is refused, which ends in the same.
EndAnswered ==
    /\ ending # 0 /\ up
    /\ \/ valid' = valid \ {ending} /\ cookie' = 0
       \/ ending \in valid /\ valid' = {} /\ UNCHANGED cookie
       \/ ending \notin valid /\ UNCHANGED <<valid, cookie>>
    /\ ending' = 0
    /\ SignOut(chain)
    /\ UNCHANGED <<up, made, asked>>

\* An error is shown; the session may be gone or not.
EndFails ==
    /\ ending # 0 /\ ~up
    /\ valid' \in {valid, valid \ {ending}}
    /\ ending' = 0
    /\ UNCHANGED <<up, made, cookie, page, linkVars, asked>>

-----------------------------------------------------------------------------
(***************************************************************************)
(* Answers, sockets and timers.                                            *)
(***************************************************************************)
StartAnswered(s) ==
    /\ At(s, {"awaiting"}) /\ Admitted(chain[s].cookie)
    /\ Continue(s)
    /\ UNCHANGED <<serverVars, cookie, page, asked, ending>>

\* The first of the three to fail ends the wait; the others may yet answer.
StartFails(s) ==
    /\ At(s, {"awaiting"}) /\ ~up
    /\ Continue(s)
    /\ asked' = asked \cup {chain[s].cookie}
    /\ UNCHANGED <<serverVars, cookie, page, ending>>

StartRefused(s) ==
    /\ At(s, {"awaiting"}) /\ Refused(chain[s].cookie)
    /\ SignOut([chain EXCEPT ![s].at = "done"])
    /\ asked' = asked \cup {chain[s].cookie}
    /\ UNCHANGED <<serverVars, cookie, ending>>

\* onopen
SocketOpens(s) ==
    /\ At(s, {"dialing"}) /\ Admitted(chain[s].cookie)
    /\ chain' = [chain EXCEPT ![s].at = "open"]
    /\ connection' = "connected"
    /\ attempts' = 0
    /\ UNCHANGED <<serverVars, cookie, page, disposed, started, socket,
                   reconnectTimer, intervals, fallback, overlapped, asked, ending>>

\* The handshake is refused or fails, the server closes the socket of a session
\* that is gone, the connection drops, or close() has taken effect.
Drops(s) ==
    \/ At(s, {"dialing", "open"}) /\ ~Admitted(chain[s].cookie)
    \/ At(s, {"closing"})

\* Mutated form of Label: the label is left as it was.
LabelKept == connection

\* What onclose makes of the label.
Label == "reconnecting"

\* Mutated form of OnClose: a socket that fails before it opens is given up.
OnCloseOpened(s) ==
    IF disposed \/ At(s, {"dialing"})
    THEN /\ Finish(s)
         /\ UNCHANGED <<attempts, reconnectTimer>>
    ELSE /\ connection' = Label
         /\ chain' = [chain EXCEPT ![s].at = "timer"]
         /\ reconnectTimer' = s
         /\ attempts' = IF attempts < MaxAttempts THEN attempts + 1 ELSE attempts
         /\ UNCHANGED socket

OnClose(s) ==
    IF disposed
    THEN /\ Finish(s)
         /\ UNCHANGED <<attempts, reconnectTimer>>
    ELSE /\ connection' = Label
         /\ chain' = [chain EXCEPT ![s].at = "timer"]
         /\ reconnectTimer' = s
         /\ attempts' = IF attempts < MaxAttempts THEN attempts + 1 ELSE attempts
         /\ UNCHANGED socket

SocketCloses(s) ==
    /\ Drops(s)
    /\ OnClose(s)
    /\ UNCHANGED <<serverVars, cookie, page, disposed, started, intervals,
                   fallback, overlapped, asked, ending>>

TimerFires(s) ==
    /\ At(s, {"timer"})
    /\ IF disposed THEN Finish(s) ELSE Connect(s)
    /\ UNCHANGED <<serverVars, cookie, page, disposed, attempts, started,
                   reconnectTimer, intervals, fallback, overlapped, asked, ending>>

\* Mutated form of Polls: as long as a socket is referred to, nothing is asked.
PollsWithoutSocket == socket = 0

\* Every 15 s the interval asks for a snapshot unless the label says connected.
Polls == connection # "connected"

FallbackTick(s) ==
    /\ s \in intervals /\ Polls
    /\ asked' = asked \cup {cookie}
    /\ UNCHANGED <<serverVars, cookie, page, linkVars, ending>>

RequestEnds(c) ==
    /\ c \in asked
    /\ ~up \/ Admitted(c)
    /\ asked' = asked \ {c}
    /\ UNCHANGED <<serverVars, cookie, page, linkVars, ending>>

RequestRefused(c) ==
    /\ c \in asked /\ Refused(c)
    /\ asked' = asked \ {c}
    /\ SignOut(chain)
    /\ UNCHANGED <<serverVars, cookie, ending>>

-----------------------------------------------------------------------------
(***************************************************************************)
(* The server: outages, sessions that expire or are revoked elsewhere.     *)
(***************************************************************************)
Outage ==
    /\ up' = ~up
    /\ UNCHANGED <<valid, made, cookie, page, linkVars, asked, ending>>

Revoke ==
    /\ \E c \in valid : valid' = valid \ {c}
    /\ UNCHANGED <<up, made, cookie, page, linkVars, asked, ending>>

-----------------------------------------------------------------------------
Awaited(s) == StartAnswered(s) \/ StartFails(s) \/ StartRefused(s)
Answered(c) == RequestEnds(c) \/ RequestRefused(c)

Next ==
    \/ SignIn \/ Visit \/ GuardPasses \/ GuardRefuses \/ GuardFails
    \/ Leave \/ Ask \/ AskToEnd \/ EndAnswered \/ EndFails
    \/ \E s \in Starts :
         \/ Awaited(s) \/ SocketOpens(s) \/ SocketCloses(s)
         \/ TimerFires(s) \/ FallbackTick(s)
    \/ \E c \in 0..made : Answered(c)
    \/ Outage \/ Revoke

Spec == Init /\ [][Next]_vars

\* Requests and handshakes end, timers and intervals go off, and the server
\* looks at the session of an open socket every 30 s.
Fairness ==
    /\ \A s \in Starts :
         /\ WF_vars(Awaited(s))
         /\ WF_vars(SocketOpens(s) \/ SocketCloses(s))
         /\ WF_vars(TimerFires(s))
         /\ WF_vars(FallbackTick(s))
    /\ \A c \in 0..MaxSessions : WF_vars(c <= made /\ Answered(c))

LiveSpec == Spec /\ Fairness

-----------------------------------------------------------------------------
\* Once stopped, the link leaves nothing behind: no socket, no timer and no
\* interval runs on, whatever was under way.  What it cannot undo is what an
\* earlier start had left behind (overlapped): stop() reaches the last socket,
\* timer and interval only.
StoppedIsQuiet ==
    disposed /\ ~overlapped =>
        /\ intervals = {}
        /\ \A s \in Starts : ~At(s, {"dialing", "open", "timer"})

\* A link that runs never dies: the chain of the last start waits for its
\* answers, or goes from socket to socket with its interval running.
RunningLinkLives ==
    ~disposed =>
        /\ Alive(started)
        /\ At(started, {"awaiting"}) \/ started \in intervals

\* While the shell says "Realtime connected" a socket is open, unless a start
\* has yet to dial: until then the label may be that of a socket that an
\* earlier start had left behind.
LabelTellsState ==
    page = "shell" /\ connection = "connected" =>
        \E s \in Starts : At(s, {"open", "awaiting"})

\* The link as the shell sees it: the chain of the last start, its interval and
\* the label.
Contract ==
    INSTANCE LinkContract WITH
        on <- ~disposed,
        phase <- IF started = 0 THEN "idle" ELSE chain[started].at,
        polling <- started \in intervals,
        label <- connection,
        loose <- overlapped

\* Chains, references and counters come to one connection that follows its label
\* and is never given up, as LinkContract has it.
ImplementsContract == Contract!Spec

\* When the server stays up and the session valid, a page that is not left gets
\* its connection, and keeps it.
Reconnects ==
    <>[](up /\ page = "shell" /\ cookie \in valid) =>
        <>[](connection = "connected" /\ \E s \in Starts : At(s, {"open"}))

\* A session that ends at the server ends in the browser: when the server stays
\* up, a shell without a session gives way to the sign-in page.
RevokedLeaves ==
    <>[]up => ((page = "shell" /\ cookie \notin valid) ~> page # "shell")
=============================================================================
