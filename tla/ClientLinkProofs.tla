---------------------------- MODULE ClientLinkProofs ----------------------------
(***************************************************************************)
(* Proofs about ClientLink for any number of starts, sessions and attempts:*)
(* types, that a stopped link is quiet, that a running one lives, that the *)
(* shell's label tells of a connection there is, and that the link         *)
(* implements LinkContract.                                                *)
(***************************************************************************)
EXTENDS ClientLink, TLAPS

\* The link runs if and only if the shell is shown, and then its last start has
\* a chain; without an overlap all that lives is of the last start, and stop()
\* has the references to it.
LinkInv ==
    /\ page = "shell" <=> ~disposed
    /\ ~disposed => started \in Starts
    /\ RunningLinkLives
    /\ ~overlapped =>
          /\ \A s \in Starts \ {started} : ~Alive(s)
          /\ intervals \subseteq {started} \cap {fallback}
          /\ \A s \in Starts :
                /\ At(s, {"dialing", "open"}) => socket = s
                /\ At(s, {"timer"}) => reconnectTimer = s

Chain == [at: Phase, cookie: 0..MaxSessions]

\* The types of what start, connect and stop change; the starts that are yet to
\* come have no chain.
LinkTypes ==
    /\ disposed \in BOOLEAN
    /\ connection \in {"connecting", "connected", "reconnecting", "offline"}
    /\ attempts \in 0..MaxAttempts
    /\ started \in 0..MaxStarts
    /\ chain \in [Starts -> Chain]
    /\ socket \in 0..started
    /\ reconnectTimer \in 0..started
    /\ intervals \subseteq 1..started
    /\ fallback \in 0..started
    /\ overlapped \in BOOLEAN
    /\ \A s \in Starts : s > started => chain[s].at = "idle"

\* The types of the rest.
OtherTypes ==
    /\ up \in BOOLEAN
    /\ valid \subseteq 1..made
    /\ made \in 0..MaxSessions
    /\ cookie \in 0..made
    /\ page \in {"login", "guard", "shell"}
    /\ asked \subseteq 0..MaxSessions
    /\ ending \in 0..made

-----------------------------------------------------------------------------
(***************************************************************************)
(* Types.                                                                  *)
(***************************************************************************)
LEMMA TypeParts == LinkTypes /\ OtherTypes => TypeOK
  BY DEF TypeOK, LinkTypes, OtherTypes, Chain

\* The types hold at first.
LEMMA TypeInit == Init => LinkTypes /\ OtherTypes
  <1> SUFFICES ASSUME Init PROVE LinkTypes /\ OtherTypes
    OBVIOUS
  <1>1. [at |-> "idle", cookie |-> 0] \in Chain
    BY BoundAssumption DEF Chain, Phase
  <1>2. chain \in [Starts -> Chain]
    BY <1>1 DEF Init
  <1>3. \A s \in Starts : chain[s] = [at |-> "idle", cookie |-> 0]
    BY DEF Init
  <1>4. \A s \in Starts : chain[s].at = "idle"
    BY <1>3
  <1>5. LinkTypes
    <2>1. /\ disposed = TRUE /\ connection = "offline" /\ attempts = 0 /\ started = 0
          /\ socket = 0 /\ reconnectTimer = 0 /\ intervals = {} /\ fallback = 0
          /\ overlapped = FALSE
      BY DEF Init
    <2>2. disposed \in BOOLEAN /\ overlapped \in BOOLEAN
      BY <2>1
    <2>3. /\ connection \in {"connecting", "connected", "reconnecting", "offline"}
          /\ attempts \in 0..MaxAttempts
          /\ started \in 0..MaxStarts
      BY <2>1, BoundAssumption
    <2>4. /\ socket \in 0..started
          /\ reconnectTimer \in 0..started
          /\ intervals \subseteq 1..started
          /\ fallback \in 0..started
      BY <2>1
    <2> QED BY <1>2, <1>4, <2>2, <2>3, <2>4 DEF LinkTypes
  <1>6. OtherTypes
    BY BoundAssumption DEF Init, OtherTypes
  <1> QED BY <1>5, <1>6

\* Numbers of starts and sessions are integers within their bounds.
LEMMA Numbers ==
  ASSUME LinkTypes, OtherTypes
  PROVE  /\ started \in Nat /\ started <= MaxStarts /\ Starts = 1..MaxStarts
         /\ made \in Nat /\ made <= MaxSessions /\ cookie \in 0..MaxSessions
         /\ 1..started \subseteq Starts
         /\ \A s \in Starts : s \in 1..started \/ s > started
  BY BoundAssumption DEF LinkTypes, OtherTypes, Starts

\* A chain that is under way is of a start that has taken place.
LEMMA AliveStarted ==
  ASSUME LinkTypes, OtherTypes, NEW s \in Starts, Alive(s)
  PROVE  s \in 1..started
  BY Numbers DEF Alive, At, LinkTypes

\* What stop() makes of well-typed chains is well typed.
LEMMA StopTypes ==
  ASSUME LinkTypes, OtherTypes, NEW c \in [Starts -> Chain], Stop(c),
         \A s \in Starts : s > started => c[s].at = "idle"
  PROVE  LinkTypes'
  <1>1. ASSUME NEW s \in Starts
        PROVE  Closed(c, s) \in Phase /\ (c[s].at = "idle" => Closed(c, s) = "idle")
    <2>1. c[s].at \in Phase
      BY DEF Chain
    <2>2. CASE s = socket /\ c[s].at \in {"dialing", "open"}
      BY <2>2 DEF Closed, Phase
    <2>3. CASE ~(s = socket /\ c[s].at \in {"dialing", "open"})
               /\ s = reconnectTimer /\ c[s].at = "timer"
      BY <2>3 DEF Closed, Phase
    <2>4. CASE /\ ~(s = socket /\ c[s].at \in {"dialing", "open"})
               /\ ~(s = reconnectTimer /\ c[s].at = "timer")
      BY <2>1, <2>4 DEF Closed
    <2> QED BY <2>2, <2>3, <2>4
  <1>2. \A s \in Starts : chain'[s] = [c[s] EXCEPT !.at = Closed(c, s)]
    BY DEF Stop
  <1>3. ASSUME NEW s \in Starts
        PROVE  chain'[s] \in Chain /\ chain'[s].at = Closed(c, s)
    <2>1. c[s] \in Chain
      OBVIOUS
    <2> QED BY <1>1, <1>2, <2>1 DEF Chain
  <1>4. chain' \in [Starts -> Chain]
    BY <1>3 DEF Stop
  <1>5. \A s \in Starts : s > started => chain'[s].at = "idle"
    BY <1>1, <1>3
  <1>6. socket' \in 0..started' /\ started' = started
    BY Numbers DEF Stop
  <1> QED BY <1>4, <1>5, <1>6 DEF Stop, LinkTypes

\* A chain's phase may be any.
LEMMA ChainAt ==
  ASSUME NEW c \in Chain, NEW p \in Phase
  PROVE  [c EXCEPT !.at = p] \in Chain /\ [c EXCEPT !.at = p].at = p
  BY DEF Chain

\* One chain gets a new state.
LEMMA OneChain ==
  ASSUME LinkTypes, OtherTypes, NEW s \in 1..started,
         \/ \E p \in Phase : chain' = [chain EXCEPT ![s].at = p]
         \/ \E x \in Chain : chain' = [chain EXCEPT ![s] = x]
  PROVE  /\ chain' \in [Starts -> Chain]
         /\ \A r \in Starts : r > started => chain'[r].at = "idle"
         /\ \A r \in Starts \ {s} : chain'[r] = chain[r]
  <1>1. s \in Starts /\ chain[s] \in Chain
    BY Numbers DEF LinkTypes
  <1>2. \A p \in Phase : [chain[s] EXCEPT !.at = p] \in Chain
    BY <1>1, ChainAt
  <1>3. PICK x \in Chain : chain' = [chain EXCEPT ![s] = x]
    BY <1>2
  <1> QED BY <1>1, <1>3, Numbers DEF LinkTypes

\* A chain of a start that has taken place is well typed after connect().
LEMMA ConnectTypes ==
  ASSUME LinkTypes, OtherTypes, NEW s \in 1..started, Connect(s)
  PROVE  /\ connection' \in {"connecting", "connected", "reconnecting", "offline"}
         /\ chain' \in [Starts -> Chain]
         /\ \A r \in Starts : r > started => chain'[r].at = "idle"
         /\ socket' \in 0..started
  <1>1. [at |-> "dialing", cookie |-> cookie] \in Chain
    BY Numbers DEF Chain, Phase
  <1>2. \E x \in Chain : chain' = [chain EXCEPT ![s] = x]
    BY <1>1 DEF Connect
  <1>3. /\ chain' \in [Starts -> Chain]
        /\ \A r \in Starts : r > started => chain'[r].at = "idle"
    BY <1>2, OneChain
  <1>4. connection' \in {"connecting", "reconnecting"} /\ socket' = s
    BY DEF Connect
  <1> QED BY <1>3, <1>4, Numbers

\* A chain that ends is well typed.
LEMMA FinishTypes ==
  ASSUME LinkTypes, OtherTypes, NEW s \in 1..started, Finish(s)
  PROVE  /\ chain' \in [Starts -> Chain]
         /\ \A r \in Starts : r > started => chain'[r].at = "idle"
         /\ connection' = connection /\ socket' = socket
  BY OneChain DEF Finish, Phase

\* A start that has its answers is well typed, whether it dials or ends.
LEMMA ContinueTypes ==
  ASSUME LinkTypes, OtherTypes, NEW s \in 1..started, Continue(s)
  PROVE  LinkTypes'
  <1>1. CASE disposed
    <2>1. Finish(s)
      BY <1>1 DEF Continue
    <2>2. /\ disposed' = disposed /\ attempts' = attempts /\ started' = started
          /\ reconnectTimer' = reconnectTimer /\ overlapped' = overlapped
          /\ intervals' = intervals /\ fallback' = fallback
      BY <1>1 DEF Continue
    <2> QED BY <2>1, <2>2, FinishTypes DEF LinkTypes
  <1>2. CASE ~disposed
    <2>1. intervals' \subseteq 1..started /\ fallback' \in 0..started
      <3>1. intervals' = intervals \cup {s} /\ fallback' = s
        BY <1>2 DEF Continue
      <3> QED BY <3>1, Numbers DEF LinkTypes
    <2>2. Connect(s)
      BY <1>2 DEF Continue
    <2>3. /\ disposed' = disposed /\ attempts' = attempts /\ started' = started
          /\ reconnectTimer' = reconnectTimer /\ overlapped' = overlapped
      BY DEF Continue
    <2> QED BY <2>1, <2>2, <2>3, ConnectTypes DEF LinkTypes
  <1> QED BY <1>1, <1>2

\* Entering the shell is well typed.
LEMMA StartTypes ==
  ASSUME LinkTypes, OtherTypes, started < MaxStarts, Start
  PROVE  LinkTypes'
  <1>1. CASE disposed
    <2>1. [at |-> "awaiting", cookie |-> cookie] \in Chain
      BY Numbers DEF Chain, Phase
    <2>2. started' = started + 1 /\ started' \in 0..MaxStarts
      <3>1. started' = started + 1
        BY <1>1 DEF Start
      <3> QED BY <3>1, Numbers, BoundAssumption
    <2>3. PICK x \in Chain : chain' = [chain EXCEPT ![started + 1] = x]
      <3>1. chain' = [chain EXCEPT ![started + 1] = [at |-> "awaiting", cookie |-> cookie]]
        BY <1>1 DEF Start
      <3> QED BY <2>1, <3>1, Zenon
    <2>4. chain' \in [Starts -> Chain]
      BY <2>3 DEF LinkTypes
    <2>5. \A s \in Starts : s > started' => chain'[s].at = "idle"
      <3>1. \A s \in Starts \ {started + 1} : chain'[s] = chain[s]
        BY <2>3 DEF LinkTypes
      <3> QED BY <2>2, <3>1, Numbers DEF LinkTypes
    <2>6. overlapped' \in BOOLEAN
      BY <1>1, Zenon DEF Start
    <2>7. /\ connection' = connection /\ attempts' = attempts /\ socket' = socket
          /\ reconnectTimer' = reconnectTimer /\ intervals' = intervals
          /\ fallback' = fallback /\ disposed' = FALSE
      BY <1>1 DEF Start
    <2>8. /\ socket \in 0..started + 1 /\ reconnectTimer \in 0..started + 1
          /\ intervals \subseteq 1..started + 1 /\ fallback \in 0..started + 1
      BY Numbers DEF LinkTypes
    <2> QED BY <2>2, <2>4, <2>5, <2>6, <2>7, <2>8 DEF LinkTypes
  <1>2. CASE ~disposed
    BY <1>2 DEF Start, linkVars, LinkTypes
  <1> QED BY <1>1, <1>2

\* Types are kept by every step.
LEMMA TypeStep == LinkTypes /\ OtherTypes /\ [Next]_vars => (LinkTypes /\ OtherTypes)'
  <1> SUFFICES ASSUME LinkTypes, OtherTypes, [Next]_vars
               PROVE  LinkTypes' /\ OtherTypes'
    OBVIOUS
  <1> USE Numbers
  <1>0. ASSUME UNCHANGED linkVars PROVE LinkTypes'
    BY <1>0 DEF linkVars, LinkTypes
  <1>1. CASE SignIn
    <2>1. OtherTypes'
      BY <1>1, BoundAssumption DEF SignIn, OtherTypes
    <2> QED BY <1>0, <1>1, <2>1 DEF SignIn
  <1>2. CASE Visit
    BY <1>0, <1>2 DEF Visit, serverVars, OtherTypes
  <1>3. CASE GuardPasses
    <2>1. OtherTypes'
      BY <1>3 DEF GuardPasses, serverVars, OtherTypes
    <2> QED BY <1>3, <2>1, StartTypes DEF GuardPasses
  <1>4. ASSUME NEW c \in [Starts -> Chain], SignOut(c),
               \A s \in Starts : s > started => c[s].at = "idle"
        PROVE  LinkTypes' /\ page' = "login"
    BY <1>4, StopTypes DEF SignOut
  <1>5. /\ chain \in [Starts -> Chain]
        /\ \A s \in Starts : s > started => chain[s].at = "idle"
    BY DEF LinkTypes
  <1>6. CASE GuardRefuses
    BY <1>4, <1>5, <1>6 DEF GuardRefuses, serverVars, OtherTypes
  <1>7. CASE GuardFails
    BY <1>0, <1>7 DEF GuardFails, serverVars, OtherTypes
  <1>8. CASE Leave
    BY <1>5, <1>8, StopTypes DEF Leave, serverVars, OtherTypes
  <1>9. CASE Ask
    BY <1>0, <1>9 DEF Ask, serverVars, OtherTypes
  <1>10. CASE AskToEnd
    BY <1>0, <1>10 DEF AskToEnd, serverVars, OtherTypes
  <1>11. CASE EndAnswered
    <2>1. valid' \subseteq valid /\ cookie' \in {0, cookie} /\ ending' = 0
          /\ up' = up /\ made' = made /\ asked' = asked
      BY <1>11 DEF EndAnswered
    <2>2. LinkTypes' /\ page' = "login"
      BY <1>4, <1>5, <1>11 DEF EndAnswered
    <2> QED BY <2>1, <2>2 DEF OtherTypes
  <1>12. CASE EndFails
    BY <1>0, <1>12 DEF EndFails, OtherTypes
  <1>13. ASSUME NEW s \in Starts, Alive(s)
         PROVE  s \in 1..started /\ chain[s].cookie \in 0..MaxSessions
    BY <1>13, AliveStarted DEF LinkTypes, Chain
  <1>14. ASSUME NEW s \in Starts, StartAnswered(s) PROVE LinkTypes' /\ OtherTypes'
    <2>1. s \in 1..started
      BY <1>13, <1>14 DEF StartAnswered, At, Alive
    <2> QED BY <1>14, <2>1, ContinueTypes DEF StartAnswered, serverVars, OtherTypes
  <1>15. ASSUME NEW s \in Starts, StartFails(s) PROVE LinkTypes' /\ OtherTypes'
    <2>1. s \in 1..started /\ chain[s].cookie \in 0..MaxSessions
      BY <1>13, <1>15 DEF StartFails, At, Alive
    <2> QED BY <1>15, <2>1, ContinueTypes DEF StartFails, serverVars, OtherTypes
  <1>16. ASSUME NEW s \in Starts, StartRefused(s) PROVE LinkTypes' /\ OtherTypes'
    <2>1. s \in 1..started /\ chain[s].cookie \in 0..MaxSessions
      BY <1>13, <1>16 DEF StartRefused, At, Alive
    <2> DEFINE c == [chain EXCEPT ![s].at = "done"]
    <2>2. c \in [Starts -> Chain] /\ \A r \in Starts : r > started => c[r].at = "idle"
      <3>1. [chain[s] EXCEPT !.at = "done"] \in Chain
        BY <1>5, ChainAt DEF Phase
      <3>2. PICK x \in Chain : c = [chain EXCEPT ![s] = x]
        BY <3>1
      <3> QED BY <1>5, <2>1, <3>2
    <2>3. SignOut(c)
      BY <1>16 DEF StartRefused
    <2> HIDE DEF c
    <2>4. LinkTypes' /\ page' = "login"
      BY <1>4, <2>2, <2>3
    <2> QED BY <1>16, <2>1, <2>4 DEF StartRefused, serverVars, OtherTypes
  <1>17. ASSUME NEW s \in Starts, SocketOpens(s) PROVE LinkTypes' /\ OtherTypes'
    <2>1. s \in 1..started
      BY <1>13, <1>17 DEF SocketOpens, At, Alive
    <2>2. /\ chain' \in [Starts -> Chain]
          /\ \A r \in Starts : r > started => chain'[r].at = "idle"
      <3>1. \E p \in Phase : chain' = [chain EXCEPT ![s].at = p]
        BY <1>17 DEF SocketOpens, Phase
      <3> QED BY <2>1, <3>1, OneChain
    <2>3. connection' = "connected" /\ attempts' = 0
      BY <1>17 DEF SocketOpens
    <2>4. /\ disposed' = disposed /\ started' = started /\ socket' = socket
          /\ reconnectTimer' = reconnectTimer /\ intervals' = intervals
          /\ fallback' = fallback /\ overlapped' = overlapped
      BY <1>17 DEF SocketOpens
    <2>5. LinkTypes'
      BY <2>2, <2>3, <2>4, BoundAssumption DEF LinkTypes
    <2> QED BY <1>17, <2>5 DEF SocketOpens, serverVars, OtherTypes
  <1>18. ASSUME NEW s \in Starts, SocketCloses(s) PROVE LinkTypes' /\ OtherTypes'
    <2>1. s \in 1..started
      BY <1>13, <1>18 DEF SocketCloses, Drops, At, Alive
    <2>2. /\ disposed' = disposed /\ started' = started /\ intervals' = intervals
          /\ fallback' = fallback /\ overlapped' = overlapped
      BY <1>18 DEF SocketCloses
    <2>3. CASE disposed
      <3>1. Finish(s) /\ attempts' = attempts /\ reconnectTimer' = reconnectTimer
        BY <1>18, <2>3 DEF SocketCloses, OnClose
      <3>2. LinkTypes'
        BY <2>1, <2>2, <3>1, FinishTypes DEF LinkTypes
      <3> QED BY <1>18, <3>2 DEF SocketCloses, serverVars, OtherTypes
    <2>4. CASE ~disposed
      <3>1. /\ chain' \in [Starts -> Chain]
            /\ \A r \in Starts : r > started => chain'[r].at = "idle"
        <4>1. \E p \in Phase : chain' = [chain EXCEPT ![s].at = p]
          BY <1>18, <2>4 DEF SocketCloses, OnClose, Phase
        <4> QED BY <2>1, <4>1, OneChain
      <3>2. /\ connection' = "reconnecting" /\ reconnectTimer' = s /\ socket' = socket
            /\ attempts' = IF attempts < MaxAttempts THEN attempts + 1 ELSE attempts
        BY <1>18, <2>4 DEF SocketCloses, OnClose, Label
      <3>3. attempts' \in 0..MaxAttempts
        BY <3>2, BoundAssumption DEF LinkTypes
      <3>4. LinkTypes'
        BY <2>1, <2>2, <3>1, <3>2, <3>3 DEF LinkTypes
      <3> QED BY <1>18, <3>4 DEF SocketCloses, serverVars, OtherTypes
    <2> QED BY <2>3, <2>4
  <1>19. ASSUME NEW s \in Starts, TimerFires(s) PROVE LinkTypes' /\ OtherTypes'
    <2>1. s \in 1..started
      BY <1>13, <1>19 DEF TimerFires, At, Alive
    <2>2. /\ disposed' = disposed /\ attempts' = attempts /\ started' = started
          /\ reconnectTimer' = reconnectTimer /\ intervals' = intervals
          /\ fallback' = fallback /\ overlapped' = overlapped
      BY <1>19 DEF TimerFires
    <2>3. Finish(s) \/ Connect(s)
      BY <1>19 DEF TimerFires
    <2>4. LinkTypes'
      BY <2>1, <2>2, <2>3, FinishTypes, ConnectTypes DEF LinkTypes
    <2> QED BY <1>19, <2>4 DEF TimerFires, serverVars, OtherTypes
  <1>20. ASSUME NEW s \in Starts, FallbackTick(s) PROVE LinkTypes' /\ OtherTypes'
    BY <1>0, <1>20 DEF FallbackTick, serverVars, OtherTypes
  <1>21. ASSUME NEW c \in 0..made, RequestEnds(c) PROVE LinkTypes' /\ OtherTypes'
    BY <1>0, <1>21 DEF RequestEnds, serverVars, OtherTypes
  <1>22. ASSUME NEW c \in 0..made, RequestRefused(c) PROVE LinkTypes' /\ OtherTypes'
    <2>1. LinkTypes' /\ page' = "login"
      BY <1>4, <1>5, <1>22 DEF RequestRefused
    <2> QED BY <1>22, <2>1 DEF RequestRefused, serverVars, OtherTypes
  <1>23. CASE Outage
    <2>1. up' \in BOOLEAN
      BY <1>23, Zenon DEF Outage
    <2>2. /\ valid' = valid /\ made' = made /\ cookie' = cookie /\ page' = page
          /\ asked' = asked /\ ending' = ending
      BY <1>23 DEF Outage
    <2> QED BY <1>0, <1>23, <2>1, <2>2 DEF Outage, OtherTypes
  <1>24. CASE Revoke
    BY <1>0, <1>24 DEF Revoke, OtherTypes
  <1>25. CASE UNCHANGED vars
    BY <1>0, <1>25 DEF vars, serverVars, OtherTypes
  <1> QED BY <1>1, <1>2, <1>3, <1>6, <1>7, <1>8, <1>9, <1>10, <1>11, <1>12, <1>14,
             <1>15, <1>16, <1>17, <1>18, <1>19, <1>20, <1>21, <1>22, <1>23, <1>24, <1>25
          DEF Next, Awaited, Answered

\* Every reachable state of the link, its pages and the sessions is well typed.
THEOREM TypeCorrect == Spec => []TypeOK
  <1>1. Spec => [](LinkTypes /\ OtherTypes)
    BY TypeInit, TypeStep, PTL DEF Spec
  <1> QED BY <1>1, TypeParts, PTL
-----------------------------------------------------------------------------
(***************************************************************************)
(* A stopped link is quiet, a running one lives, the label tells the state.*)
(***************************************************************************)
Safe == LinkInv /\ StoppedIsQuiet /\ LabelTellsState

Types == LinkTypes /\ OtherTypes

\* Nothing runs at first.
LEMMA SafeInit == Init => Safe
  <1> SUFFICES ASSUME Init PROVE Safe
    OBVIOUS
  <1>1. /\ page = "login" /\ disposed = TRUE /\ intervals = {} /\ overlapped = FALSE
        /\ \A s \in Starts : chain[s].at = "idle"
    BY DEF Init
  <1>2. \A s \in Starts : ~Alive(s) /\ ~At(s, {"dialing", "open", "timer"})
                          /\ ~At(s, {"dialing", "open"}) /\ ~At(s, {"timer"})
    BY <1>1 DEF Alive, At
  <1> QED BY <1>1, <1>2 DEF Safe, LinkInv, StoppedIsQuiet, LabelTellsState, RunningLinkLives

\* What leaves the link alone and the shell where it is leaves it safe.
LEMMA SafeKept ==
  ASSUME Safe, UNCHANGED linkVars, page' = "shell" <=> page = "shell"
  PROVE  Safe'
  BY DEF Safe, LinkInv, StoppedIsQuiet, LabelTellsState, RunningLinkLives, Alive, At,
         linkVars

\* stop() leaves nothing of the last start behind.
LEMMA SafeStop ==
  ASSUME Types, Safe, NEW c \in [Starts -> Chain],
         \A s \in Starts : c[s].at = chain[s].at \/ c[s].at = "done",
         Stop(c), page' = "login"
  PROVE  Safe'
  <1>1. /\ disposed' = TRUE /\ overlapped' = overlapped /\ started' = started
        /\ intervals' = intervals \ {fallback}
    BY DEF Stop
  <1>2. ASSUME NEW s \in Starts
        PROVE  chain'[s].at = Closed(c, s)
    <2>1. chain'[s] = [c[s] EXCEPT !.at = Closed(c, s)]
      BY DEF Stop
    <2> QED BY <2>1 DEF Chain
  <1>3. ASSUME ~overlapped
        PROVE  /\ intervals' = {}
               /\ \A s \in Starts : /\ chain'[s].at \notin {"dialing", "open", "timer"}
                                    /\ s # started => chain'[s].at \in {"idle", "done"}
    <2>1. intervals' = {}
      BY <1>1, <1>3 DEF Safe, LinkInv
    <2>2. ASSUME NEW s \in Starts
          PROVE  /\ c[s].at \in {"dialing", "open"} => socket = s
                 /\ c[s].at = "timer" => reconnectTimer = s
                 /\ s # started => c[s].at \in {"idle", "done"}
      BY <1>3, <2>2 DEF Safe, LinkInv, Alive, At
    <2>3. ASSUME NEW s \in Starts
          PROVE  /\ Closed(c, s) \notin {"dialing", "open", "timer"}
                 /\ s # started => Closed(c, s) \in {"idle", "done"}
      BY <2>2 DEF Closed
    <2> QED BY <1>2, <2>1, <2>3
  <1>4. ASSUME ~overlapped
        PROVE  \A s \in Starts :
                  /\ s # started => ~Alive(s)'
                  /\ ~At(s, {"dialing", "open", "timer"})'
                  /\ ~At(s, {"dialing", "open"})' /\ ~At(s, {"timer"})'
    BY <1>3, <1>4 DEF Alive, At
  <1>5. (page = "shell")' <=> (~disposed)'
    BY <1>1
  <1> QED BY <1>1, <1>3, <1>4, <1>5
          DEF Safe, LinkInv, StoppedIsQuiet, LabelTellsState, RunningLinkLives

\* One chain gets a new state, the others keep theirs.
LEMMA OtherChains ==
  ASSUME Types, NEW s \in Starts, NEW x, chain' = [chain EXCEPT ![s] = x]
  PROVE  chain'[s] = x /\ \A r \in Starts \ {s} : chain'[r] = chain[r]
  BY DEF Types, LinkTypes

\* A start that finds the link stopped has a chain of its own; what it finds
\* alive is what overlapped records.
LEMMA SafeStart ==
  ASSUME Types, Safe, started < MaxStarts, page = "guard", Start, page' = "shell"
  PROVE  Safe'
  <1>1. disposed
    BY DEF Safe, LinkInv, Types, LinkTypes
  <1>2. /\ disposed' = FALSE /\ started' = started + 1 /\ intervals' = intervals
        /\ chain' = [chain EXCEPT ![started + 1] = [at |-> "awaiting", cookie |-> cookie]]
    BY <1>1 DEF Start
  <1>3. started + 1 \in Starts
    BY Numbers, BoundAssumption DEF Types, Starts
  <1>4. /\ chain'[started'].at = "awaiting"
        /\ \A r \in Starts \ {started'} : chain'[r] = chain[r]
    <2>1. /\ chain'[started + 1] = [at |-> "awaiting", cookie |-> cookie]
          /\ \A r \in Starts \ {started + 1} : chain'[r] = chain[r]
      BY <1>2, <1>3 DEF Types, LinkTypes
    <2> QED BY <1>2, <2>1
  <1>5. overlapped' <=> intervals # {} \/ \E s \in Starts : Alive(s)
    BY <1>1, Zenon DEF Start
  <1>6. /\ At(started, {"awaiting"})' /\ At(started, {"open", "awaiting"})'
        /\ Alive(started)' /\ ~At(started, {"dialing", "open"})' /\ ~At(started, {"timer"})'
    BY <1>4 DEF At, Alive
  <1>7. ASSUME ~overlapped', NEW r \in Starts \ {started'}
        PROVE  ~Alive(r)' /\ ~At(r, {"dialing", "open"})' /\ ~At(r, {"timer"})'
    <2>1. ~Alive(r)
      BY <1>5, <1>7
    <2> QED BY <1>4, <2>1 DEF At, Alive
  <1>8. ~overlapped' => intervals' = {}
    BY <1>2, <1>5
  <1> QED BY <1>2, <1>3, <1>6, <1>7, <1>8
          DEF Safe, LinkInv, StoppedIsQuiet, LabelTellsState, RunningLinkLives

\* A chain that finds the link stopped ends.
LEMMA SafeEnds ==
  ASSUME Types, Safe, disposed, NEW s \in Starts, Finish(s),
         disposed' = disposed, started' = started, overlapped' = overlapped,
         intervals' = intervals, fallback' = fallback, reconnectTimer' = reconnectTimer,
         page' = page
  PROVE  Safe'
  <1>1. chain[s] \in Chain
    BY DEF Types, LinkTypes
  <1>2. chain'[s].at = "done" /\ \A r \in Starts \ {s} : chain'[r] = chain[r]
    BY <1>1, OtherChains DEF Finish, Chain, Types, LinkTypes
  <1>3. page # "shell"
    BY DEF Safe, LinkInv
  <1>4. ASSUME ~overlapped, NEW r \in Starts
        PROVE  /\ r # started => ~Alive(r)'
               /\ ~At(r, {"dialing", "open", "timer"})'
               /\ ~At(r, {"dialing", "open"})' /\ ~At(r, {"timer"})'
    <2>1. (r # started => ~Alive(r)) /\ ~At(r, {"dialing", "open", "timer"})
      BY <1>4 DEF Safe, LinkInv, StoppedIsQuiet
    <2> QED BY <1>2, <2>1 DEF At, Alive
  <1>5. ~overlapped => intervals' = {}
    BY DEF Safe, StoppedIsQuiet
  <1> QED BY <1>3, <1>4, <1>5
          DEF Safe, LinkInv, StoppedIsQuiet, LabelTellsState, RunningLinkLives

\* A chain of a running link that goes on, to a phase the references tell of.
LEMMA SafeGoesOn ==
  ASSUME Types, Safe, ~disposed, NEW s \in Starts, Alive(s), NEW p, NEW x,
         chain' = [chain EXCEPT ![s] = x], x.at = p,
         p \in {"dialing", "open", "timer"},
         p \in {"dialing", "open"} => socket' = s \/ (socket' = socket /\ At(s, {"dialing"})),
         p = "timer" => reconnectTimer' = s,
         connection' = "connected" => p = "open",
         \/ intervals' = intervals /\ fallback' = fallback /\ ~At(s, {"awaiting"})
         \/ intervals' = intervals \cup {s} /\ fallback' = s,
         disposed' = disposed, started' = started, overlapped' = overlapped, page' = page
  PROVE  Safe'
  <1>1. chain'[s].at = p /\ \A r \in Starts \ {s} : chain'[r] = chain[r]
    BY OtherChains
  <1>2. started \in Starts
    BY DEF Safe, LinkInv
  <1>3. Alive(started)' /\ (At(started, {"awaiting"})' \/ started' \in intervals')
    <2>1. Alive(started) /\ (At(started, {"awaiting"}) \/ started \in intervals)
      BY DEF Safe, LinkInv, RunningLinkLives
    <2>2. CASE s = started
      BY <1>1, <2>1, <2>2 DEF At, Alive
    <2>3. CASE s # started
      BY <1>1, <1>2, <2>1, <2>3 DEF At, Alive
    <2> QED BY <2>2, <2>3
  <1>4. connection' = "connected" => At(s, {"open", "awaiting"})'
    BY <1>1 DEF At
  <1>5. ASSUME ~overlapped
        PROVE  /\ s = started
               /\ intervals' \subseteq {started'} \cap {fallback'}
               /\ \A r \in Starts :
                     /\ r # started => ~Alive(r)'
                     /\ At(r, {"dialing", "open"})' => socket' = r
                     /\ At(r, {"timer"})' => reconnectTimer' = r
    <2>1. s = started
      BY <1>5 DEF Safe, LinkInv
    <2>2. intervals' \subseteq {started'} \cap {fallback'}
      BY <1>5, <2>1 DEF Safe, LinkInv
    <2>3. ASSUME NEW r \in Starts, r # started
          PROVE  ~Alive(r)' /\ ~At(r, {"dialing", "open"})' /\ ~At(r, {"timer"})'
      <3>1. ~Alive(r)
        BY <1>5, <2>3 DEF Safe, LinkInv
      <3> QED BY <1>1, <2>1, <2>3, <3>1 DEF At, Alive
    <2>4. /\ At(s, {"dialing", "open"})' => socket' = s
          /\ At(s, {"timer"})' => reconnectTimer' = s
      <3>1. At(s, {"dialing"}) => socket = s
        BY <1>5 DEF Safe, LinkInv, At
      <3> QED BY <1>1, <3>1 DEF At
    <2> QED BY <2>1, <2>2, <2>3, <2>4
  <1>6. page' = "shell" <=> ~disposed'
    BY DEF Safe, LinkInv
  <1> QED BY <1>2, <1>3, <1>4, <1>5, <1>6
          DEF Safe, LinkInv, StoppedIsQuiet, LabelTellsState, RunningLinkLives
\* Every step is safe.
LEMMA SafeStep == Types /\ Safe /\ [Next]_vars => Safe'
  <1> SUFFICES ASSUME Types, Safe, [Next]_vars
               PROVE  Safe'
    OBVIOUS
  <1>1. /\ chain \in [Starts -> Chain]
        /\ \A s \in Starts : chain[s] \in Chain
    BY DEF Types, LinkTypes
  <1>2. ASSUME SignOut(chain) \/ (Stop(chain) /\ page' = "login")
        PROVE  Safe'
    BY <1>1, <1>2, SafeStop DEF SignOut
  <1>3. CASE SignIn
    BY <1>3, SafeKept DEF SignIn
  <1>4. CASE Visit
    BY <1>4, SafeKept DEF Visit
  <1>5. CASE GuardPasses
    BY <1>5, SafeStart DEF GuardPasses
  <1>6. CASE GuardRefuses
    BY <1>2, <1>6 DEF GuardRefuses
  <1>7. CASE GuardFails
    BY <1>7, SafeKept DEF GuardFails
  <1>8. CASE Leave
    BY <1>2, <1>8 DEF Leave
  <1>9. CASE Ask
    BY <1>9, SafeKept DEF Ask
  <1>10. CASE AskToEnd
    BY <1>10, SafeKept DEF AskToEnd
  <1>11. CASE EndAnswered
    BY <1>2, <1>11 DEF EndAnswered
  <1>12. CASE EndFails
    BY <1>12, SafeKept DEF EndFails
  <1>13. ASSUME NEW s \in Starts, At(s, {"awaiting"}), Continue(s), page' = page
         PROVE  Safe'
    <2>1. /\ disposed' = disposed /\ attempts' = attempts /\ started' = started
          /\ reconnectTimer' = reconnectTimer /\ overlapped' = overlapped
      BY <1>13 DEF Continue
    <2>2. CASE disposed
      BY <1>13, <2>1, <2>2, SafeEnds DEF Continue
    <2>3. CASE ~disposed
      <3>1. /\ Alive(s) /\ intervals' = intervals \cup {s} /\ fallback' = s /\ socket' = s
            /\ chain' = [chain EXCEPT ![s] = [at |-> "dialing", cookie |-> cookie]]
            /\ connection' # "connected"
        BY <1>13, <2>3 DEF Continue, Connect, At, Alive
      <3>2. PICK x : x.at = "dialing" /\ chain' = [chain EXCEPT ![s] = x]
        BY <3>1
      <3> QED BY <1>13, <2>1, <2>3, <3>1, <3>2, SafeGoesOn
    <2> QED BY <2>2, <2>3
  <1>14. ASSUME NEW s \in Starts, StartAnswered(s) PROVE Safe'
    BY <1>13, <1>14 DEF StartAnswered
  <1>15. ASSUME NEW s \in Starts, StartFails(s) PROVE Safe'
    BY <1>13, <1>15 DEF StartFails
  <1>16. ASSUME NEW s \in Starts, StartRefused(s) PROVE Safe'
    <2> DEFINE c == [chain EXCEPT ![s].at = "done"]
    <2>1. [chain[s] EXCEPT !.at = "done"] \in Chain /\ [chain[s] EXCEPT !.at = "done"].at = "done"
      BY <1>1, ChainAt DEF Phase
    <2>2. PICK x \in Chain : x.at = "done" /\ c = [chain EXCEPT ![s] = x]
      BY <2>1
    <2>3. c \in [Starts -> Chain] /\ \A r \in Starts : c[r].at = chain[r].at \/ c[r].at = "done"
      BY <1>1, <2>2
    <2>4. Stop(c) /\ page' = "login"
      BY <1>16 DEF StartRefused, SignOut
    <2> HIDE DEF c
    <2> QED BY <2>3, <2>4, SafeStop
  <1>17. ASSUME NEW s \in Starts, NEW p \in Phase, chain' = [chain EXCEPT ![s].at = p]
         PROVE  \E x : x.at = p /\ chain' = [chain EXCEPT ![s] = x]
    BY <1>1, <1>17, ChainAt
  <1>18. ASSUME NEW s \in Starts, SocketOpens(s) PROVE Safe'
    <2>1. /\ At(s, {"dialing"}) /\ connection' = "connected"
          /\ page' = page /\ disposed' = disposed /\ started' = started /\ socket' = socket
          /\ reconnectTimer' = reconnectTimer /\ intervals' = intervals
          /\ fallback' = fallback /\ overlapped' = overlapped
      BY <1>18 DEF SocketOpens
    <2>2. PICK x : x.at = "open" /\ chain' = [chain EXCEPT ![s] = x]
      BY <1>17, <1>18 DEF SocketOpens, Phase
    <2>3. Alive(s) /\ ~At(s, {"awaiting"})
      BY <2>1 DEF Alive, At
    <2>4. CASE ~disposed
      BY <2>1, <2>2, <2>3, <2>4, SafeGoesOn
    <2>5. CASE disposed
      <3>1. overlapped /\ page # "shell"
        BY <2>1, <2>5 DEF Safe, LinkInv, StoppedIsQuiet, At
      <3> QED BY <2>1, <2>5, <3>1
              DEF Safe, LinkInv, StoppedIsQuiet, LabelTellsState, RunningLinkLives
    <2> QED BY <2>4, <2>5
  <1>19. ASSUME NEW s \in Starts, SocketCloses(s) PROVE Safe'
    <2>1. /\ page' = page /\ disposed' = disposed /\ started' = started
          /\ intervals' = intervals /\ fallback' = fallback /\ overlapped' = overlapped
          /\ At(s, {"dialing", "open", "closing"}) /\ OnClose(s)
      BY <1>19 DEF SocketCloses, Drops, At
    <2>2. CASE disposed
      BY <2>1, <2>2, SafeEnds DEF OnClose
    <2>3. CASE ~disposed
      <3>1. /\ chain' = [chain EXCEPT ![s].at = "timer"]
            /\ reconnectTimer' = s /\ connection' # "connected"
        BY <2>1, <2>3 DEF OnClose, Label
      <3>2. PICK x : x.at = "timer" /\ chain' = [chain EXCEPT ![s] = x]
        BY <1>17, <3>1 DEF Phase
      <3>3. Alive(s) /\ ~At(s, {"awaiting"})
        BY <2>1 DEF Alive, At
      <3> QED BY <2>1, <2>3, <3>1, <3>2, <3>3, SafeGoesOn
    <2> QED BY <2>2, <2>3
  <1>20. ASSUME NEW s \in Starts, TimerFires(s) PROVE Safe'
    <2>1. /\ page' = page /\ disposed' = disposed /\ started' = started
          /\ intervals' = intervals /\ fallback' = fallback /\ overlapped' = overlapped
          /\ reconnectTimer' = reconnectTimer /\ At(s, {"timer"})
      BY <1>20 DEF TimerFires
    <2>2. CASE disposed
      BY <1>20, <2>1, <2>2, SafeEnds DEF TimerFires
    <2>3. CASE ~disposed
      <3>1. /\ chain' = [chain EXCEPT ![s] = [at |-> "dialing", cookie |-> cookie]]
            /\ socket' = s /\ connection' # "connected"
        BY <1>20, <2>3 DEF TimerFires, Connect
      <3>2. Alive(s) /\ ~At(s, {"awaiting"})
        BY <2>1 DEF Alive, At
      <3>3. PICK x : x.at = "dialing" /\ chain' = [chain EXCEPT ![s] = x]
        BY <3>1
      <3> QED BY <2>1, <2>3, <3>1, <3>2, <3>3, SafeGoesOn
    <2> QED BY <2>2, <2>3
  <1>21. ASSUME NEW s \in Starts, FallbackTick(s) PROVE Safe'
    BY <1>21, SafeKept DEF FallbackTick
  <1>22. ASSUME NEW a \in 0..made, RequestEnds(a) PROVE Safe'
    BY <1>22, SafeKept DEF RequestEnds
  <1>23. ASSUME NEW a \in 0..made, RequestRefused(a) PROVE Safe'
    BY <1>2, <1>23 DEF RequestRefused
  <1>24. CASE Outage
    BY <1>24, SafeKept DEF Outage
  <1>25. CASE Revoke
    BY <1>25, SafeKept DEF Revoke
  <1>26. CASE UNCHANGED vars
    BY <1>26, SafeKept DEF vars
  <1> QED BY <1>3, <1>4, <1>5, <1>6, <1>7, <1>8, <1>9, <1>10, <1>11, <1>12, <1>14, <1>15,
             <1>16, <1>18, <1>19, <1>20, <1>21, <1>22, <1>23, <1>24, <1>25, <1>26
          DEF Next, Awaited, Answered

\* The inductive invariant of the link holds in every reachable state.
THEOREM LinkIsSafe == Spec => [](Types /\ Safe)
  <1>1. Init => Types /\ Safe
    BY TypeInit, SafeInit DEF Types
  <1>2. Types /\ Safe /\ [Next]_vars => (Types /\ Safe)'
    BY TypeStep, SafeStep DEF Types
  <1> QED BY <1>1, <1>2, PTL DEF Spec

\* Once stopped, the link of a start that met nothing of an earlier one has no
\* socket, timer or interval left (api.ts, stop).
THEOREM StoppedLinkIsQuiet == Spec => []StoppedIsQuiet
  <1>1. Types /\ Safe => StoppedIsQuiet
    BY DEF Safe
  <1> QED BY <1>1, LinkIsSafe, PTL

\* A running link waits for its first answers, or goes from socket to socket
\* with its interval running (api.ts, start, connect and onclose).
THEOREM RunningLinkIsAlive == Spec => []RunningLinkLives
  <1>1. Types /\ Safe => RunningLinkLives
    BY DEF Safe, LinkInv
  <1> QED BY <1>1, LinkIsSafe, PTL

\* "Realtime connected" is shown only with an open socket or before the first
\* dial (api.ts, connection; shell.ts).
THEOREM LabelIsTrue == Spec => []LabelTellsState
  <1>1. Types /\ Safe => LabelTellsState
    BY DEF Safe
  <1> QED BY <1>1, LinkIsSafe, PTL
-----------------------------------------------------------------------------
(***************************************************************************)
(* The link implements its contract.                                       *)
(***************************************************************************)
\* The phase of the last start's chain, as the contract sees it.
Last == IF started = 0 THEN "idle" ELSE chain[started].at

\* While the link runs, its last socket is not being closed; while nothing is
\* left over beside it, a link that waits to dial again says so and counts.
RetryInv ==
    ~disposed =>
        /\ ~At(started, {"closing"})
        /\ ~overlapped /\ At(started, {"timer"}) =>
              connection = "reconnecting" /\ attempts > 0

\* The phase is that of a chain there is, if there has been a start.
LEMMA LastIs ==
  ASSUME Types
  PROVE  /\ started # 0 => started \in Starts /\ Last = chain[started].at
         /\ started = 0 => Last = "idle" /\ started \notin Starts
         /\ \A p : At(started, p) /\ started # 0 => Last \in p
         /\ Last \in Phase
  <1>1. started \in Nat /\ started <= MaxStarts /\ Starts = 1..MaxStarts /\ MaxStarts \in Nat
    BY Numbers, BoundAssumption DEF Types
  <1>2. started # 0 => started \in Starts
    BY <1>1
  <1>3. started = 0 => started \notin Starts
    BY <1>1
  <1>4. started # 0 => chain[started].at \in Phase
    BY <1>2 DEF Types, LinkTypes, Chain
  <1> QED BY <1>2, <1>3, <1>4 DEF Last, At, Phase

\* What leaves the link alone keeps the invariant.
LEMMA RetryKept ==
  ASSUME RetryInv, UNCHANGED linkVars
  PROVE  RetryInv'
  BY DEF RetryInv, At, linkVars

\* One chain gets a new state, and the link is as it was but for the label, the
\* counter and the references.
LEMMA RetryOne ==
  ASSUME Types, Safe, RetryInv, NEW s \in Starts, NEW x, x.at # "closing", Alive(s),
         chain' = [chain EXCEPT ![s] = x],
         UNCHANGED <<disposed, started, overlapped>>,
         x.at = "timer" /\ ~disposed => connection' = "reconnecting" /\ attempts' > 0
  PROVE  RetryInv'
  <1> SUFFICES ASSUME ~disposed
               PROVE  /\ ~At(started, {"closing"})'
                      /\ ~overlapped /\ At(started, {"timer"})' =>
                            connection' = "reconnecting" /\ attempts' > 0
    BY DEF RetryInv
  <1>1. chain \in [Starts -> Chain] /\ started \in Starts
    BY DEF Types, LinkTypes, Safe, LinkInv
  <1>2. CASE s = started
    BY <1>1, <1>2 DEF At
  <1>3. CASE s # started
    <2>1. chain'[started] = chain[started]
      BY <1>1, <1>3
    <2>2. overlapped
      BY <1>1, <1>3 DEF Safe, LinkInv
    <2> QED BY <2>1, <2>2 DEF RetryInv, At
  <1> QED BY <1>2, <1>3

LEMMA RetryStep == Types /\ Safe /\ RetryInv /\ [Next]_vars => RetryInv'
  <1> SUFFICES ASSUME Types, Safe, RetryInv, [Next]_vars PROVE RetryInv'
    OBVIOUS
  <1>1. chain \in [Starts -> Chain]
    BY DEF Types, LinkTypes
  <1>2. ASSUME NEW c, Stop(c) PROVE RetryInv'
    BY <1>2 DEF Stop, RetryInv
  <1>3. CASE UNCHANGED linkVars
    BY <1>3, RetryKept
  <1>4. CASE GuardPasses
    <2>1. CASE disposed
      <3>1. /\ chain' = [chain EXCEPT ![started + 1] = [at |-> "awaiting", cookie |-> cookie]]
            /\ started' = started + 1 /\ started < MaxStarts
        BY <1>4, <2>1 DEF GuardPasses, Start
      <3>2. started + 1 \in Starts
        BY <3>1, Numbers, BoundAssumption DEF Types
      <3>3. chain'[started'].at = "awaiting"
        BY <1>1, <3>1, <3>2
      <3> QED BY <3>3 DEF RetryInv, At
    <2>2. CASE ~disposed
      BY <1>4, <2>2, RetryKept DEF GuardPasses, Start
    <2> QED BY <2>1, <2>2
  <1>5. CASE GuardRefuses \/ Leave \/ EndAnswered
    BY <1>2, <1>5 DEF GuardRefuses, Leave, EndAnswered, SignOut
  <1>6. ASSUME NEW s \in Starts, NEW p \in Phase, chain' = [chain EXCEPT ![s].at = p]
        PROVE  \E x : x.at = p /\ chain' = [chain EXCEPT ![s] = x]
    BY <1>1, <1>6, ChainAt
  <1>7. ASSUME NEW s \in Starts, Alive(s), Finish(s), UNCHANGED <<disposed, started, overlapped>>
        PROVE  RetryInv'
    <2>1. PICK x : x.at = "done" /\ chain' = [chain EXCEPT ![s] = x]
      BY <1>6, <1>7 DEF Finish, Phase
    <2> QED BY <1>7, <2>1, RetryOne
  <1>8. ASSUME NEW s \in Starts, Alive(s), Connect(s), UNCHANGED <<disposed, started, overlapped>>
        PROVE  RetryInv'
    <2>1. PICK x : x.at = "dialing" /\ chain' = [chain EXCEPT ![s] = x]
      BY <1>8 DEF Connect
    <2> QED BY <1>8, <2>1, RetryOne
  <1>9. ASSUME NEW s \in Starts, At(s, {"awaiting"}), Continue(s) PROVE RetryInv'
    <2>1. Alive(s)
      BY <1>9 DEF At, Alive
    <2>2. UNCHANGED <<disposed, started, overlapped>>
      BY <1>9 DEF Continue
    <2>3. Finish(s) \/ Connect(s)
      BY <1>9 DEF Continue
    <2> QED BY <1>7, <1>8, <2>1, <2>2, <2>3
  <1>10. ASSUME NEW s \in Starts, Awaited(s) PROVE RetryInv'
    BY <1>2, <1>9, <1>10 DEF Awaited, StartAnswered, StartFails, StartRefused, SignOut
  <1>11. ASSUME NEW s \in Starts, SocketOpens(s) PROVE RetryInv'
    <2>1. PICK x : x.at = "open" /\ chain' = [chain EXCEPT ![s] = x]
      BY <1>6, <1>11 DEF SocketOpens, Phase
    <2>2. Alive(s) /\ UNCHANGED <<disposed, started, overlapped>>
      BY <1>11 DEF SocketOpens, At, Alive
    <2> QED BY <2>1, <2>2, RetryOne
  <1>12. ASSUME NEW s \in Starts, SocketCloses(s) PROVE RetryInv'
    <2>1. Alive(s) /\ UNCHANGED <<disposed, started, overlapped>> /\ OnClose(s)
      BY <1>12 DEF SocketCloses, Drops, At, Alive
    <2>2. CASE disposed
      BY <1>7, <2>1, <2>2 DEF OnClose
    <2>3. CASE ~disposed
      <3>1. /\ chain' = [chain EXCEPT ![s].at = "timer"]
            /\ connection' = "reconnecting"
            /\ attempts' = IF attempts < MaxAttempts THEN attempts + 1 ELSE attempts
        BY <2>1, <2>3 DEF OnClose, Label
      <3>2. PICK x : x.at = "timer" /\ chain' = [chain EXCEPT ![s] = x]
        BY <1>6, <3>1 DEF Phase
      <3>3. attempts' > 0
        BY <3>1, BoundAssumption DEF Types, LinkTypes
      <3> QED BY <2>1, <3>1, <3>2, <3>3, RetryOne
    <2> QED BY <2>2, <2>3
  <1>13. ASSUME NEW s \in Starts, TimerFires(s) PROVE RetryInv'
    <2>1. Alive(s)
      BY <1>13 DEF TimerFires, At, Alive
    <2>2. UNCHANGED <<disposed, started, overlapped>>
      BY <1>13 DEF TimerFires
    <2>3. Finish(s) \/ Connect(s)
      BY <1>13 DEF TimerFires
    <2> QED BY <1>7, <1>8, <2>1, <2>2, <2>3
  <1>14. ASSUME NEW a \in 0..made, RequestRefused(a) PROVE RetryInv'
    BY <1>2, <1>14 DEF RequestRefused, SignOut
  <1>15. CASE SignIn \/ Visit \/ GuardFails \/ Ask \/ AskToEnd \/ EndFails \/ Outage \/ Revoke
    BY <1>3, <1>15 DEF SignIn, Visit, GuardFails, Ask, AskToEnd, EndFails, Outage, Revoke
  <1>16. ASSUME NEW s \in Starts, FallbackTick(s) PROVE RetryInv'
    BY <1>3, <1>16 DEF FallbackTick
  <1>17. ASSUME NEW a \in 0..made, RequestEnds(a) PROVE RetryInv'
    BY <1>3, <1>17 DEF RequestEnds
  <1>18. CASE UNCHANGED vars
    BY <1>3, <1>18 DEF vars
  <1> QED BY <1>4, <1>5, <1>10, <1>11, <1>12, <1>13, <1>14, <1>15, <1>16, <1>17, <1>18
          DEF Next, Answered

\* What leaves the link alone does not show.
LEMMA LinkKept == UNCHANGED linkVars => UNCHANGED Contract!vars
  BY DEF Contract!vars, linkVars

\* stop() is a switching off.
LEMMA LinkStop ==
  ASSUME Types, Safe, NEW c \in [Starts -> Chain], Stop(c),
         started # 0 => \/ c[started].at = chain[started].at
                        \/ At(started, {"awaiting"}) /\ c[started].at = "done"
  PROVE  Contract!SwitchOff
  <1>1. /\ disposed' = TRUE /\ overlapped' = overlapped /\ started' = started
        /\ connection' = "offline" /\ intervals' = intervals \ {fallback}
    BY DEF Stop
  <1>2. started \in intervals' => overlapped /\ started \in intervals
    <2>1. ~overlapped => intervals \subseteq {fallback}
      BY DEF Safe, LinkInv
    <2> QED BY <1>1, <2>1
  <1>3. \/ Last' = Contract!Closed
        \/ Last = "awaiting" /\ Last' = "done"
        \/ overlapped /\ Last' = Last
    <2>1. CASE started = 0
      BY <1>1, <2>1 DEF Last, Contract!Closed
    <2>2. CASE started # 0
      <3>1. started \in Starts /\ Last = chain[started].at /\ Contract!Closed =
               CASE Last \in {"dialing", "open"} -> "closing"
                 [] Last = "timer" -> "done"
                 [] OTHER -> Last
        BY <2>2, LastIs DEF Contract!Closed
      <3>2. Last' = Closed(c, started)
        <4>1. chain'[started] = [c[started] EXCEPT !.at = Closed(c, started)]
          BY <3>1 DEF Stop
        <4>2. c[started] \in Chain
          BY <3>1
        <4> QED BY <1>1, <2>2, <4>1, <4>2 DEF Last, Chain
      <3>3. CASE At(started, {"awaiting"}) /\ c[started].at = "done"
        <4>1. Closed(c, started) = "done"
          BY <3>3 DEF Closed
        <4> QED BY <3>1, <3>2, <3>3, <4>1 DEF At
      <3>4. CASE c[started].at = Last
        <4>1. ~overlapped => /\ Last \in {"dialing", "open"} => socket = started
                             /\ Last = "timer" => reconnectTimer = started
          BY <3>1 DEF Safe, LinkInv, At
        <4>2. Closed(c, started) =
                 CASE started = socket /\ Last \in {"dialing", "open"} -> "closing"
                   [] started = reconnectTimer /\ Last = "timer" -> "done"
                   [] OTHER -> Last
          BY <3>4 DEF Closed
        <4>3. CASE Last \in {"dialing", "open"}
          BY <3>1, <3>2, <4>1, <4>2, <4>3
        <4>4. CASE Last = "timer"
          BY <3>1, <3>2, <4>1, <4>2, <4>4
        <4>5. CASE Last \notin {"dialing", "open", "timer"}
          BY <3>1, <3>2, <4>1, <4>2, <4>5
        <4> QED BY <4>3, <4>4, <4>5
      <3> QED BY <2>2, <3>1, <3>3, <3>4
    <2> QED BY <2>1, <2>2
  <1> QED BY <1>1, <1>2, <1>3 DEF Contract!SwitchOff, Last

\* start() is a switching on: what it finds of an earlier start is loose.
LEMMA LinkStart ==
  ASSUME Types, Safe, Start, started < MaxStarts
  PROVE  Contract!SwitchOn \/ UNCHANGED Contract!vars
  <1>1. CASE ~disposed
    BY <1>1, LinkKept DEF Start
  <1>2. CASE disposed
    <2>1. /\ chain' = [chain EXCEPT ![started + 1] = [at |-> "awaiting", cookie |-> cookie]]
          /\ started' = started + 1 /\ disposed' = FALSE
          /\ overlapped' = (intervals # {} \/ \E s \in Starts : Alive(s))
          /\ connection' = connection /\ intervals' = intervals
      BY <1>2 DEF Start
    <2>2. started + 1 \in Starts /\ started + 1 # 0 /\ started + 1 \notin intervals
      BY Numbers, BoundAssumption DEF Types, LinkTypes
    <2>3. Last' = "awaiting" /\ (started \in intervals)' = FALSE
      <3>1. chain'[started + 1].at = "awaiting"
        BY <2>1, <2>2 DEF Types, LinkTypes
      <3> QED BY <2>1, <2>2, <3>1 DEF Last
    <2>4. ASSUME ~overlapped PROVE overlapped' = (Last \in {"awaiting", "closing"})
      <3>1. intervals = {} /\ \A s \in Starts : ~At(s, {"dialing", "open", "timer"})
        BY <1>2, <2>4 DEF Safe, StoppedIsQuiet
      <3>2. \A s \in Starts : s # started => ~Alive(s)
        BY <2>4 DEF Safe, LinkInv
      <3>3. CASE started = 0
        BY <2>1, <3>1, <3>2, <3>3, LastIs
      <3>4. CASE started # 0
        <4>1. started \in Starts /\ Last = chain[started].at /\ Last \in Phase
          BY <3>4, LastIs
        <4>2. Last \notin {"dialing", "open", "timer"}
          BY <3>1, <4>1 DEF At
        <4>3. Alive(started) <=> Last \in {"awaiting", "closing"}
          BY <4>1, <4>2 DEF Alive, At, Phase
        <4> QED BY <2>1, <3>1, <3>2, <4>1, <4>3
      <3> QED BY <3>3, <3>4
    <2>5. overlapped' \in BOOLEAN
      BY <2>1
    <2> QED BY <1>2, <2>1, <2>3, <2>4, <2>5 DEF Contract!SwitchOn, Last
  <1> QED BY <1>1, <1>2

\* What a chain of an earlier start does shows in the label alone.
LEMMA LinkStray ==
  ASSUME Types, Safe, NEW s \in Starts, s # started, Alive(s),
         NEW x, chain' = [chain EXCEPT ![s] = x],
         intervals' \in {intervals, intervals \cup {s}},
         UNCHANGED <<disposed, started, overlapped>>,
         connection' \in {"connecting", "connected", "reconnecting"} \/ connection' = connection
  PROVE  Contract!Stray \/ UNCHANGED Contract!vars
  <1>1. overlapped
    BY DEF Safe, LinkInv
  <1>2. Last' = Last
    <2>1. CASE started = 0
      BY <2>1 DEF Last
    <2>2. CASE started # 0
      BY <2>2, LastIs DEF Last
    <2> QED BY <2>1, <2>2
  <1>3. (started \in intervals)' = (started \in intervals)
    OBVIOUS
  <1> QED BY <1>1, <1>2, <1>3 DEF Contract!Stray, Contract!vars, Last

\* The chain of the last start gets a new state.
LEMMA LinkOwn ==
  ASSUME Types, NEW s \in Starts, s = started, NEW x, chain' = [chain EXCEPT ![s] = x],
         started' = started
  PROVE  Last = chain[s].at /\ Last' = x.at
  <1>1. started # 0 /\ chain \in [Starts -> Chain]
    BY Numbers, BoundAssumption DEF Types, LinkTypes
  <1> QED BY <1>1 DEF Last

\* The end of a chain of a link that is off.
LEMMA LinkFinish ==
  ASSUME Types, Safe, NEW s \in Starts, Alive(s), disposed, Finish(s),
         UNCHANGED <<disposed, started, overlapped, intervals>>
  PROVE  Contract!Fade \/ Contract!Stray \/ UNCHANGED Contract!vars
  <1>1. PICK x : x.at = "done" /\ chain' = [chain EXCEPT ![s] = x]
    <2>1. chain' = [chain EXCEPT ![s] = [chain[s] EXCEPT !.at = "done"]]
      BY DEF Finish
    <2>2. [chain[s] EXCEPT !.at = "done"].at = "done"
      BY ChainAt DEF Types, LinkTypes, Phase
    <2> QED BY <2>1, <2>2
  <1>2. connection' = connection
    BY DEF Finish
  <1>3. CASE s # started
    BY <1>1, <1>2, <1>3, LinkStray
  <1>4. CASE s = started
    <2>1. Last = chain[s].at /\ Last' = "done"
      BY <1>1, <1>4, LinkOwn
    <2>2. Last \in {"awaiting", "closing"} \/ overlapped
      <3>1. Last \in Phase
        BY LastIs
      <3> QED BY <2>1, <3>1 DEF Safe, StoppedIsQuiet, Alive, At, Phase
    <2> QED BY <1>2, <1>4, <2>1, <2>2 DEF Contract!Fade, Last, Alive, At
  <1> QED BY <1>3, <1>4

\* A chain of a link that is on dials, at first or again.
LEMMA LinkConnect ==
  ASSUME Types, Safe, RetryInv, NEW s \in Starts, ~disposed, Connect(s),
         UNCHANGED <<disposed, started, overlapped>>,
         \/ At(s, {"awaiting"}) /\ intervals' = intervals \cup {s}
         \/ At(s, {"timer"}) /\ intervals' = intervals
  PROVE  Contract!Dial \/ Contract!Redial \/ Contract!Stray \/ UNCHANGED Contract!vars
  <1>1. PICK x : x.at = "dialing" /\ chain' = [chain EXCEPT ![s] = x]
    BY DEF Connect
  <1>2. /\ connection' = IF attempts > 0 THEN "reconnecting" ELSE "connecting"
        /\ Alive(s)
    BY DEF Connect, Alive, At
  <1>3. CASE s # started
    BY <1>1, <1>2, <1>3, LinkStray
  <1>4. CASE s = started
    <2>1. Last = chain[s].at /\ Last' = "dialing"
      BY <1>1, <1>4, LinkOwn
    <2>2. CASE At(s, {"awaiting"}) /\ intervals' = intervals \cup {s}
      BY <1>2, <1>4, <2>1, <2>2 DEF Contract!Dial, Last, At
    <2>3. CASE At(s, {"timer"}) /\ intervals' = intervals
      <3>1. ~overlapped => connection' = connection
        BY <1>2, <1>4, <2>3 DEF RetryInv
      <3>2. connection' \in IF overlapped THEN {"connecting", "reconnecting"} ELSE {connection}
        BY <1>2, <3>1
      <3> QED BY <1>4, <2>1, <2>3, <3>2 DEF Contract!Redial, Last, At
    <2> QED BY <2>2, <2>3
  <1> QED BY <1>3, <1>4

\* Every step of the link is a step of the contract, or none.
LEMMA LinkStep ==
  Types /\ Safe /\ RetryInv /\ [Next]_vars => [Contract!Next]_(Contract!vars)
  <1> SUFFICES ASSUME Types, Safe, RetryInv, [Next]_vars
               PROVE  Contract!Next \/ UNCHANGED Contract!vars
    OBVIOUS
  <1>1. chain \in [Starts -> Chain]
    BY DEF Types, LinkTypes
  <1>2. CASE UNCHANGED linkVars
    BY <1>2, LinkKept
  <1>3. ASSUME Stop(chain) PROVE Contract!Next
    BY <1>1, <1>3, LinkStop DEF Contract!Next
  <1>4. CASE GuardPasses
    BY <1>4, LinkStart DEF GuardPasses, Contract!Next
  <1>5. CASE GuardRefuses \/ Leave \/ EndAnswered
    BY <1>3, <1>5 DEF GuardRefuses, Leave, EndAnswered, SignOut
  <1>6. ASSUME NEW s \in Starts, At(s, {"awaiting"}), Continue(s)
        PROVE  Contract!Next \/ UNCHANGED Contract!vars
    <2>1. Alive(s) /\ UNCHANGED <<disposed, started, overlapped>>
      BY <1>6 DEF Continue, At, Alive
    <2>2. CASE disposed
      BY <1>6, <2>1, <2>2, LinkFinish DEF Continue, Contract!Next
    <2>3. CASE ~disposed
      BY <1>6, <2>1, <2>3, LinkConnect DEF Continue, Contract!Next
    <2> QED BY <2>2, <2>3
  <1>7. ASSUME NEW s \in Starts, StartRefused(s) PROVE Contract!Next
    <2> DEFINE c == [chain EXCEPT ![s].at = "done"]
    <2>1. [chain[s] EXCEPT !.at = "done"] \in Chain /\ [chain[s] EXCEPT !.at = "done"].at = "done"
      BY <1>1, ChainAt DEF Phase
    <2>2. PICK x \in Chain : x.at = "done" /\ c = [chain EXCEPT ![s] = x]
      BY <2>1
    <2>3. c \in [Starts -> Chain]
      BY <1>1, <2>2
    <2>4. started # 0 => \/ c[started].at = chain[started].at
                         \/ At(started, {"awaiting"}) /\ c[started].at = "done"
      <3>1. started # 0 => started \in Starts
        BY LastIs
      <3>2. At(s, {"awaiting"})
        BY <1>7 DEF StartRefused
      <3> QED BY <1>1, <2>2, <3>1, <3>2
    <2>5. Stop(c)
      BY <1>7 DEF StartRefused, SignOut
    <2> HIDE DEF c
    <2> QED BY <2>3, <2>4, <2>5, LinkStop DEF Contract!Next
  <1>8. ASSUME NEW s \in Starts, Awaited(s) PROVE Contract!Next \/ UNCHANGED Contract!vars
    BY <1>6, <1>7, <1>8 DEF Awaited, StartAnswered, StartFails
  <1>9. ASSUME NEW s \in Starts, NEW p \in Phase, chain' = [chain EXCEPT ![s].at = p]
        PROVE  \E x : x.at = p /\ chain' = [chain EXCEPT ![s] = x]
    BY <1>1, <1>9, ChainAt
  <1>10. ASSUME NEW s \in Starts, SocketOpens(s)
         PROVE  Contract!Next \/ UNCHANGED Contract!vars
    <2>1. PICK x : x.at = "open" /\ chain' = [chain EXCEPT ![s] = x]
      BY <1>9, <1>10 DEF SocketOpens, Phase
    <2>2. /\ Alive(s) /\ At(s, {"dialing"}) /\ connection' = "connected"
          /\ UNCHANGED <<disposed, started, overlapped, intervals>>
      BY <1>10 DEF SocketOpens, At, Alive
    <2>3. CASE s # started
      BY <2>1, <2>2, <2>3, LinkStray DEF Contract!Next
    <2>4. CASE s = started
      <3>1. Last = chain[s].at /\ Last' = "open"
        BY <2>1, <2>2, <2>4, LinkOwn
      <3>2. ~disposed \/ overlapped
        BY <2>2 DEF Safe, StoppedIsQuiet, At
      <3>3. Contract!Open
        BY <2>2, <2>4, <3>1, <3>2 DEF Contract!Open, Last, At
      <3> QED BY <3>3 DEF Contract!Next
    <2> QED BY <2>3, <2>4
  <1>11. ASSUME NEW s \in Starts, SocketCloses(s)
         PROVE  Contract!Next \/ UNCHANGED Contract!vars
    <2>1. /\ Alive(s) /\ At(s, {"dialing", "open", "closing"}) /\ OnClose(s)
          /\ UNCHANGED <<disposed, started, overlapped, intervals>>
      BY <1>11 DEF SocketCloses, Drops, At, Alive
    <2>2. CASE disposed
      BY <2>1, <2>2, LinkFinish DEF OnClose, Contract!Next
    <2>3. CASE ~disposed
      <3>1. chain' = [chain EXCEPT ![s].at = "timer"] /\ connection' = "reconnecting"
        BY <2>1, <2>3 DEF OnClose, Label
      <3>2. PICK x : x.at = "timer" /\ chain' = [chain EXCEPT ![s] = x]
        BY <1>9, <3>1 DEF Phase
      <3>3. CASE s # started
        BY <2>1, <3>1, <3>2, <3>3, LinkStray DEF Contract!Next
      <3>4. CASE s = started
        <4>1. Last = chain[s].at /\ Last' = "timer"
          BY <2>1, <3>2, <3>4, LinkOwn
        <4>2. Last \in {"dialing", "open"}
          BY <2>1, <2>3, <3>4, <4>1 DEF RetryInv, At
        <4>3. Contract!Lose
          BY <2>1, <2>3, <3>1, <3>4, <4>1, <4>2 DEF Contract!Lose, Last
        <4> QED BY <4>3 DEF Contract!Next
      <3> QED BY <3>3, <3>4
    <2> QED BY <2>2, <2>3
  <1>12. ASSUME NEW s \in Starts, TimerFires(s)
         PROVE  Contract!Next \/ UNCHANGED Contract!vars
    <2>1. /\ Alive(s) /\ At(s, {"timer"})
          /\ UNCHANGED <<disposed, started, overlapped, intervals>>
      BY <1>12 DEF TimerFires, At, Alive
    <2>2. CASE disposed
      BY <1>12, <2>1, <2>2, LinkFinish DEF TimerFires, Contract!Next
    <2>3. CASE ~disposed
      BY <1>12, <2>1, <2>3, LinkConnect DEF TimerFires, Contract!Next
    <2> QED BY <2>2, <2>3
  <1>13. ASSUME NEW a \in 0..made, RequestRefused(a) PROVE Contract!Next
    BY <1>3, <1>13 DEF RequestRefused, SignOut
  <1>14. CASE SignIn \/ Visit \/ GuardFails \/ Ask \/ AskToEnd \/ EndFails \/ Outage \/ Revoke
    BY <1>2, <1>14 DEF SignIn, Visit, GuardFails, Ask, AskToEnd, EndFails, Outage, Revoke
  <1>15. ASSUME NEW s \in Starts, FallbackTick(s) PROVE UNCHANGED Contract!vars
    BY <1>15, LinkKept DEF FallbackTick
  <1>16. ASSUME NEW a \in 0..made, RequestEnds(a) PROVE UNCHANGED Contract!vars
    BY <1>16, LinkKept DEF RequestEnds
  <1>17. CASE UNCHANGED vars
    BY <1>2, <1>17 DEF vars
  <1> QED BY <1>4, <1>5, <1>3, <1>8, <1>10, <1>11, <1>12, <1>13, <1>14, <1>15, <1>16, <1>17
          DEF Next, Answered

\* For any number of starts, sessions and attempts, the link of the browser is
\* one connection with the label to match (api.ts, start, connect and stop).
THEOREM Implementation == Spec => ImplementsContract
  <1>1. Init => RetryInv /\ Contract!Init
    <2>1. Init => /\ disposed = TRUE /\ connection = "offline" /\ started = 0
                  /\ overlapped = FALSE /\ intervals = {}
      BY DEF Init
    <2> QED BY <2>1 DEF RetryInv, Contract!Init
  <1>2. Types /\ Safe /\ RetryInv /\ [Next]_vars => RetryInv'
    BY RetryStep
  <1>3. Types /\ Safe /\ RetryInv /\ [Next]_vars => [Contract!Next]_(Contract!vars)
    BY LinkStep
  <1> QED BY <1>1, <1>2, <1>3, LinkIsSafe, PTL DEF Spec, ImplementsContract, Contract!Spec

\* The contract keeps its promise.
LEMMA ContractInTouch == Contract!Spec => []Contract!InTouch
  <1> DEFINE Kept == /\ Contract!InTouch
                     /\ ~disposed /\ ~overlapped /\ Last = "timer" =>
                           connection = "reconnecting"
  <1>1. Contract!Init => Kept
    BY DEF Contract!Init, Contract!InTouch, Last
  <1>2. Kept /\ [Contract!Next]_(Contract!vars) => Kept'
    <2> SUFFICES ASSUME Kept, [Contract!Next]_(Contract!vars) PROVE Kept'
      OBVIOUS
    <2>1. CASE Contract!SwitchOn
      BY <2>1 DEF Contract!SwitchOn, Contract!InTouch, Last
    <2>2. CASE Contract!Dial
      BY <2>2 DEF Contract!Dial, Contract!InTouch, Last
    <2>3. CASE Contract!Open
      BY <2>3 DEF Contract!Open, Contract!InTouch, Last
    <2>4. CASE Contract!Lose
      BY <2>4 DEF Contract!Lose, Contract!InTouch, Last
    <2>5. CASE Contract!Redial
      BY <2>5 DEF Contract!Redial, Contract!InTouch, Last
    <2>6. CASE Contract!Fade
      BY <2>6 DEF Contract!Fade, Contract!InTouch, Last
    <2>7. CASE Contract!SwitchOff
      BY <2>7 DEF Contract!SwitchOff, Contract!Closed, Contract!InTouch, Last
    <2>8. CASE Contract!Stray
      BY <2>8 DEF Contract!Stray, Contract!InTouch, Last
    <2>9. CASE UNCHANGED Contract!vars
      BY <2>9 DEF Contract!vars, Contract!InTouch, Last
    <2> QED BY <2>1, <2>2, <2>3, <2>4, <2>5, <2>6, <2>7, <2>8, <2>9 DEF Contract!Next
  <1>3. Kept => Contract!InTouch
    OBVIOUS
  <1> HIDE DEF Kept
  <1> QED BY <1>1, <1>2, <1>3, PTL DEF Contract!Spec

\* What the shell says of the connection is so, and a link that is on is not given
\* up, unless what an earlier start left behind speaks for it (api.ts, connection).
THEOREM LinkIsInTouch == Spec => []Contract!InTouch
  BY Implementation, ContractInTouch, PTL DEF ImplementsContract
=============================================================================
