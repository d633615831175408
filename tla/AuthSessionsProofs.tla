-------------------------- MODULE AuthSessionsProofs --------------------------
(***************************************************************************)
(* Proofs about AuthSessions for every value of its constants: types, the  *)
(* inductive invariant IInv, that no session outlives a password change,   *)
(* that no password change is lost, that the limiter holds, and that       *)
(* sign-in implements AuthContract.                                        *)
(***************************************************************************)
EXTENDS AuthSessions, FiniteSetTheorems, TLAPS

\* What the job of a request holds at each step.
LEMMA JobShape ==
  ASSUME NEW j \in Job
  PROVE  /\ j.step = "login_read" => j.user \in User /\ j.given \in Password
         /\ j.step = "login_lock" => j.user \in User /\ j.seen \in Hash
         /\ j.step = "login_commit" =>
              j.user \in User /\ j.seen \in Hash /\ j.token \in Token /\ j.expires \in Nat
         /\ j.step = "change_session" =>
              j.token \in Token /\ j.given \in Password /\ j.wanted \in Password
         /\ j.step = "change_read" =>
              j.user \in User /\ j.given \in Password /\ j.wanted \in Password
         /\ j.step \in {"change_update", "change_delete"} =>
              /\ j \in [step: {"change_update", "change_delete"}, user: User, seen: Hash, new: Hash]
              /\ j.user \in User /\ j.seen \in Hash /\ j.new \in Hash
         /\ j.step = "change_commit" =>
              j.user \in User /\ j.seen \in Hash /\ j.new \in Hash /\ j.doomed \in SUBSET Token
         /\ j.step \in {"logout", "upgrade"} => j.token \in Token
  BY DEF Job, Idle

\* A request's step gives it one new job and leaves the others theirs.
LEMMA DoesJob ==
  ASSUME TypeOK, NEW r \in Request, NEW j \in Job, Does(r, j)
  PROVE  /\ job' \in [Request -> Job]
         /\ job'[r] = j
         /\ \A s \in Request \ {r} : job'[s] = job[s]
  BY DEF TypeOK, Does

LEMMA IdleJob == Idle \in Job /\ Idle.step \notin Locking /\ Idle.step # "change_commit"
  BY DEF Idle, Job, Locking

\* The state before the first login is well typed.
LEMMA TypeInit == Init => TypeOK
  <1> SUFFICES ASSUME Init PROVE TypeOK
    OBVIOUS
  <1>1. hash \in [User -> Hash]
    BY DEF Init, Hash
  <1>2. DOMAIN sessions = {} /\ sessions \in [DOMAIN sessions -> Session]
    BY DEF Init
  <1>3. IsFiniteSet(started)
    BY FS_EmptySet DEF Init
  <1>4. job \in [Request -> Job]
    BY IdleJob DEF Init
  <1> QED BY <1>1, <1>2, <1>3, <1>4 DEF Init, TypeOK

\* Every step of a login keeps the types.
LEMMA TypeLogin == \A r \in Request : TypeOK /\ Login(r) => TypeOK'
  <1> SUFFICES ASSUME NEW r \in Request, TypeOK, Login(r) PROVE TypeOK'
    OBVIOUS
  <1>0. job[r] \in Job
    BY DEF TypeOK
  <1>1. CASE LoginArrives(r)
    <2> DEFINE this == [no |-> Cardinality(started), at |-> now]
    <2>1. Cardinality(started) \in Nat
      BY FS_CardinalityType DEF TypeOK
    <2>2. this \in Attempt
      BY <2>1 DEF Attempt, TypeOK
    <2>3. attempts' \subseteq started' /\ started' \subseteq started \cup {this}
      BY <1>1 DEF LoginArrives, Recent, TypeOK
    <2>4. IsFiniteSet(started')
      BY <2>3, FS_AddElement, FS_Subset DEF TypeOK
    <2>5. job' \in [Request -> Job]
      <3>1. \A u \in User, p \in Password : [step |-> "login_read", user |-> u, given |-> p] \in Job
        BY DEF Job
      <3> QED BY <1>1, <3>1 DEF LoginArrives, TypeOK, Does
    <2> QED BY <1>1, <2>2, <2>3, <2>4, <2>5 DEF LoginArrives, TypeOK, dbVars
  <1>2. CASE LoginReads(r)
    <2>1. [step |-> "login_lock", user |-> job[r].user, seen |-> hash[job[r].user]] \in Job
      BY <1>0, <1>2, JobShape DEF LoginReads, Job, TypeOK
    <2>2. job' \in [Request -> Job]
      BY <1>2, <2>1, IdleJob DEF LoginReads, Does, TypeOK
    <2> QED BY <1>2, <2>2 DEF LoginReads, TypeOK, dbVars
  <1>3. CASE LoginLocks(r)
    <2>1. \A t \in Token, life \in Lifetime :
            [step |-> "login_commit", user |-> job[r].user, seen |-> job[r].seen,
             token |-> t, expires |-> now + life] \in Job
      BY <1>0, <1>3, JobShape, LimitAssumption DEF LoginLocks, Job, TypeOK
    <2>2. job' \in [Request -> Job]
      BY <1>3, <2>1, IdleJob DEF LoginLocks, Does, TypeOK
    <2> QED BY <1>3, <2>2 DEF LoginLocks, TypeOK
  <1>4. CASE LoginCommits(r)
    <2>1. job' \in [Request -> Job]
      BY <1>4, IdleJob DEF LoginCommits, Does, TypeOK
    <2>2. [user |-> job[r].user, by |-> job[r].seen, expires |-> job[r].expires] \in Session
      BY <1>0, <1>4, JobShape DEF LoginCommits, Session
    <2>3. job[r].token \in Token
      BY <1>0, <1>4, JobShape DEF LoginCommits
    <2>4. DOMAIN sessions' = DOMAIN sessions \cup {job[r].token}
          /\ sessions' \in [DOMAIN sessions' -> Session]
      BY <1>4, <2>2 DEF LoginCommits, TypeOK
    <2> QED BY <1>4, <2>1, <2>3, <2>4 DEF LoginCommits, TypeOK
  <1> QED BY <1>1, <1>2, <1>3, <1>4 DEF Login

\* Every step of a password change keeps the types.
LEMMA TypeChange == \A r \in Request : TypeOK /\ Change(r) => TypeOK'
  <1> SUFFICES ASSUME NEW r \in Request, TypeOK, Change(r) PROVE TypeOK'
    OBVIOUS
  <1>0. job[r] \in Job
    BY DEF TypeOK
  <1>1. CASE ChangeChecks(r)
    <2>1. Admits(job[r].token) =>
            [step |-> "change_read", user |-> sessions[job[r].token].user,
             given |-> job[r].given, wanted |-> job[r].wanted] \in Job
      BY <1>0, <1>1, JobShape DEF ChangeChecks, Job, Admits, TypeOK, Session
    <2>2. job' \in [Request -> Job]
      BY <1>1, <2>1, IdleJob DEF ChangeChecks, Does, TypeOK
    <2> QED BY <1>1, <2>2 DEF ChangeChecks, TypeOK, dbVars
  <1>2. CASE ChangeReads(r)
    <2>1. [step |-> "change_update", user |-> job[r].user, seen |-> hash[job[r].user],
           new |-> Hashed(job[r].wanted, salt + 1)] \in Job
      BY <1>0, <1>2, JobShape DEF ChangeReads, Job, Hashed, Hash, TypeOK
    <2>2. job' \in [Request -> Job]
      BY <1>2, <2>1, IdleJob DEF ChangeReads, Does, TypeOK
    <2> QED BY <1>2, <2>2 DEF ChangeReads, TypeOK
  <1>3. CASE ChangeUpdates(r)
    <2>1. [job[r] EXCEPT !.step = "change_delete"] \in Job
      BY <1>0, <1>3, JobShape DEF ChangeUpdates, Job
    <2>2. job' \in [Request -> Job]
      BY <1>3, <2>1, IdleJob DEF ChangeUpdates, Does, TypeOK
    <2> QED BY <1>3, <2>2 DEF ChangeUpdates, TypeOK, dbVars
  <1>4. CASE ChangeDeletes(r)
    <2>1. [step |-> "change_commit", user |-> job[r].user, seen |-> job[r].seen,
           new |-> job[r].new, doomed |-> SessionsOf(job[r].user)] \in Job
      BY <1>0, <1>4, JobShape DEF ChangeDeletes, Job, SessionsOf, TypeOK
    <2>2. job' \in [Request -> Job]
      BY <1>4, <2>1 DEF ChangeDeletes, Does, TypeOK
    <2> QED BY <1>4, <2>2 DEF ChangeDeletes, TypeOK, dbVars
  <1>5. CASE ChangeCommits(r)
    <2>1. job' \in [Request -> Job]
      BY <1>5, IdleJob DEF ChangeCommits, Does, TypeOK
    <2>2. hash' \in [User -> Hash]
      BY <1>0, <1>5, JobShape DEF ChangeCommits, TypeOK
    <2>3. DOMAIN sessions' \subseteq DOMAIN sessions /\ sessions' \in [DOMAIN sessions' -> Session]
      BY <1>5 DEF ChangeCommits, Restrict, TypeOK
    <2> QED BY <1>5, <2>1, <2>2, <2>3 DEF ChangeCommits, TypeOK
  <1> QED BY <1>1, <1>2, <1>3, <1>4, <1>5 DEF Change

\* Every step keeps the types.
LEMMA TypeNext == TypeOK /\ [Next]_vars => TypeOK'
  <1> SUFFICES ASSUME TypeOK, [Next]_vars PROVE TypeOK'
    OBVIOUS
  <1>1. ASSUME NEW r \in Request, Serve(r) PROVE TypeOK'
    <2>0. job[r] \in Job
      BY DEF TypeOK
    <2>1. CASE ProtectedArrives(r)
      <3>1. \A t \in Token, p, q \in Password :
              [step |-> "change_session", token |-> t, given |-> p, wanted |-> q] \in Job
        BY DEF Job
      <3>2. \A t \in Token, s \in {"logout", "upgrade"} : [step |-> s, token |-> t] \in Job
        BY DEF Job
      <3>3. \E j \in Job : Does(r, j)
        BY <2>1, <3>1, <3>2 DEF ProtectedArrives, TypeOK
      <3>4. job' \in [Request -> Job]
        BY <3>3, DoesJob
      <3> QED BY <2>1, <3>4 DEF ProtectedArrives, TypeOK, dbVars
    <2>2. CASE LogoutDeletes(r)
      <3>1. job' \in [Request -> Job]
        BY <2>2, IdleJob DEF LogoutDeletes, Does, TypeOK
      <3>2. DOMAIN sessions' \subseteq DOMAIN sessions /\ sessions' \in [DOMAIN sessions' -> Session]
        <4>1. sessions' = [t \in DOMAIN sessions \ {job[r].token} |-> sessions[t]]
          BY <2>2 DEF LogoutDeletes, Restrict
        <4>2. \A t \in DOMAIN sessions : sessions[t] \in Session
          BY DEF TypeOK
        <4> QED BY <4>1, <4>2
      <3> QED BY <2>2, <3>1, <3>2 DEF LogoutDeletes, TypeOK
    <2>3. CASE Upgrades(r)
      <3>1. job' \in [Request -> Job] /\ job[r].token \in Token
        BY <2>0, <2>3, IdleJob, JobShape DEF Upgrades, Does, TypeOK
      <3> QED BY <2>3, <3>1 DEF Upgrades, TypeOK, dbVars
    <2>4. CASE Abandoned(r)
      <3>1. job' \in [Request -> Job]
        BY <2>4, IdleJob DEF Abandoned, Does, TypeOK
      <3> QED BY <2>4, <3>1 DEF Abandoned, TypeOK, dbVars
    <2> QED BY <1>1, <2>1, <2>2, <2>3, <2>4, TypeLogin, TypeChange DEF Serve
  <1>2. ASSUME NEW t \in Token, Revalidates(t) \/ SocketEnds(t) PROVE TypeOK'
    BY <1>2 DEF Revalidates, SocketEnds, TypeOK, dbVars
  <1>3. CASE Sweep
    <2>1. DOMAIN sessions' \subseteq DOMAIN sessions /\ sessions' \in [DOMAIN sessions' -> Session]
      BY <1>3 DEF Sweep, Restrict, TypeOK
    <2> QED BY <1>3, <2>1 DEF Sweep, TypeOK
  <1>4. CASE Tick
    BY <1>4 DEF Tick, TypeOK, dbVars
  <1>5. CASE Restart
    <2>1. IsFiniteSet(started') /\ job' \in [Request -> Job]
      BY <1>5, FS_EmptySet, IdleJob DEF Restart
    <2> QED BY <1>5, <2>1 DEF Restart, TypeOK, dbVars
  <1>6. CASE UNCHANGED vars
    BY <1>6 DEF vars, dbVars, TypeOK
  <1> QED BY <1>1, <1>2, <1>3, <1>4, <1>5, <1>6 DEF Next

\* Types: users, sessions, tokens, limiter and the jobs of requests.
THEOREM TypeCorrect == Spec => []TypeOK
  <1>1. Init => TypeOK
    BY TypeInit
  <1>2. TypeOK /\ [Next]_vars => TypeOK'
    BY TypeNext
  <1> QED BY <1>1, <1>2, PTL DEF Spec

-----------------------------------------------------------------------------
\* The part of IInv about rows, tokens and sessions.
TableInv == RowInv /\ DoomedInv /\ TokenInv /\ SessionsOfCurrentPassword

\* No session is added or altered.
Shrinks ==
    /\ DOMAIN sessions' \subseteq DOMAIN sessions
    /\ \A t \in DOMAIN sessions' : sessions'[t] = sessions[t]

\* No transaction begins, goes on, or leaves its mark on hash.
Quiet ==
    /\ \A r \in Request : job'[r] = job[r] \/ job'[r].step \notin Locking
    /\ hash' = hash
    /\ used \subseteq used'

\* A step that is quiet and adds no session keeps the invariant.
LEMMA QuietStep == TypeOK /\ TableInv /\ Quiet /\ Shrinks => TableInv'
  <1> SUFFICES ASSUME TypeOK, TableInv, Quiet, Shrinks PROVE TableInv'
    OBVIOUS
  <1>1. \A r \in Request : job'[r].step \in Locking => job'[r] = job[r]
    BY DEF Quiet
  <1>2. RowInv'
    BY <1>1 DEF TableInv, RowInv, Quiet
  <1>3. DoomedInv'
    <2>1. SUFFICES ASSUME NEW r \in Request, job'[r].step = "change_commit"
                   PROVE  /\ job'[r].doomed \subseteq used'
                          /\ \A s \in Request : job'[s].step = "login_commit" =>
                                job'[s].token \notin job'[r].doomed
                          /\ \A t \in DOMAIN sessions' :
                                t \in job'[r].doomed <=> sessions'[t].user = job'[r].user
      BY DEF DoomedInv, SessionsOf
    <2>2. job'[r] = job[r]
      BY <1>1, <2>1 DEF Locking
    <2>3. \A s \in Request : job'[s].step = "login_commit" => job'[s] = job[s]
      BY <1>1 DEF Locking
    <2>4. \A t \in DOMAIN sessions : t \in job[r].doomed <=> sessions[t].user = job[r].user
      BY <2>1, <2>2 DEF TableInv, DoomedInv, SessionsOf
    <2> QED BY <2>1, <2>2, <2>3, <2>4 DEF TableInv, DoomedInv, Shrinks, Quiet
  <1>4. TokenInv'
    BY <1>1 DEF TableInv, TokenInv, Shrinks, Quiet, Locking
  <1>5. SessionsOfCurrentPassword'
    BY DEF TableInv, SessionsOfCurrentPassword, Shrinks, Quiet
  <1> QED BY <1>2, <1>3, <1>4, <1>5 DEF TableInv

\* Restricting the table to some of its tokens adds no session.
LEMMA RestrictShrinks ==
  \A kept : kept \subseteq DOMAIN sessions /\ sessions' = Restrict(sessions, kept) =>
            Shrinks /\ DOMAIN sessions' = kept
  BY DEF Shrinks, Restrict

\* A request's step that leaves it without a lock is quiet.
LEMMA QuietDoes ==
  ASSUME TypeOK, NEW r \in Request, NEW j \in Job, Does(r, j), j.step \notin Locking,
         hash' = hash, used \subseteq used'
  PROVE  Quiet
  BY DoesJob DEF Quiet

\* A login keeps the invariant: between lock and commit its user's row, and
\* with it the hash it saw, is its own.
LEMMA TableLogin == \A r \in Request : TypeOK /\ TableInv /\ Login(r) => TableInv'
  <1> SUFFICES ASSUME NEW r \in Request, TypeOK, TableInv, Login(r) PROVE TableInv'
    OBVIOUS
  <1>0. job[r] \in Job
    BY DEF TypeOK
  <1>1. CASE LoginArrives(r)
    <2>1. UNCHANGED <<hash, used, sessions>>
      BY <1>1 DEF LoginArrives, dbVars
    <2>2. Quiet
      <3>1. \A u \in User, p \in Password :
              LET j == [step |-> "login_read", user |-> u, given |-> p]
              IN  j \in Job /\ j.step \notin Locking
        BY DEF Job, Locking
      <3>2. job' = job \/ \E u \in User, p \in Password :
              Does(r, [step |-> "login_read", user |-> u, given |-> p])
        BY <1>1 DEF LoginArrives
      <3> QED BY <2>1, <3>1, <3>2, QuietDoes DEF Quiet
    <2> QED BY <2>1, <2>2, QuietStep DEF Shrinks
  <1>2. CASE LoginReads(r)
    <2>1. UNCHANGED <<hash, used, sessions>>
      BY <1>2 DEF LoginReads, dbVars
    <2>2. LET j == [step |-> "login_lock", user |-> job[r].user, seen |-> hash[job[r].user]]
          IN  j \in Job /\ j.step \notin Locking
      BY <1>0, <1>2, JobShape DEF LoginReads, Job, TypeOK, Locking
    <2>3. Quiet
      BY <1>2, <2>1, <2>2, IdleJob, QuietDoes DEF LoginReads
    <2> QED BY <2>1, <2>3, QuietStep DEF Shrinks
  <1>3. CASE LoginLocks(r)
    <2>1. CASE Does(r, Idle) /\ UNCHANGED used
      <3>1. UNCHANGED <<hash, used, sessions>>
        BY <1>3, <2>1 DEF LoginLocks
      <3> QED BY <2>1, <3>1, IdleJob, QuietDoes, QuietStep DEF Shrinks
    <2>2. CASE hash[job[r].user] = job[r].seen /\ ~(Does(r, Idle) /\ UNCHANGED used)
      <3> PICK t \in Token \ used, life \in Lifetime :
                /\ used' = used \cup {t}
                /\ Does(r, [step |-> "login_commit", user |-> job[r].user,
                            seen |-> job[r].seen, token |-> t, expires |-> now + life])
        BY <1>3, <2>2 DEF LoginLocks
      <3> DEFINE j == [step |-> "login_commit", user |-> job[r].user,
                       seen |-> job[r].seen, token |-> t, expires |-> now + life]
      <3>1. j \in Job
        BY <1>0, <1>3, JobShape, LimitAssumption DEF LoginLocks, Job, TypeOK
      <3>2. job'[r] = j /\ \A s \in Request \ {r} : job'[s] = job[s]
        BY <3>1, DoesJob
      <3>3. hash' = hash /\ sessions' = sessions /\ RowFree(job[r].user)
        BY <1>3 DEF LoginLocks, MayRead
      <3> HIDE DEF j
      <3>4. j.step = "login_commit" /\ j.user = job[r].user /\ j.seen = hash[j.user] /\ j.token = t
        BY <2>2 DEF j
      <3>5. RowInv'
        BY <3>2, <3>3, <3>4 DEF TableInv, RowInv, RowFree
      <3>6. DoomedInv'
        BY <3>2, <3>3, <3>4 DEF TableInv, DoomedInv, SessionsOf
      <3>7. TokenInv'
        BY <3>2, <3>3, <3>4 DEF TableInv, TokenInv
      <3>8. SessionsOfCurrentPassword'
        BY <3>3 DEF TableInv, SessionsOfCurrentPassword
      <3> QED BY <3>5, <3>6, <3>7, <3>8 DEF TableInv
    <2> QED BY <1>3, <2>1, <2>2 DEF LoginLocks
  <1>4. CASE LoginCommits(r)
    <2>1. job[r].step = "login_commit" /\ job[r].user \in User /\ hash' = hash /\ used' = used
      BY <1>0, <1>4, JobShape DEF LoginCommits
    <2>2. job'[r] = Idle /\ \A s \in Request \ {r} : job'[s] = job[s]
      BY <1>4, IdleJob, DoesJob DEF LoginCommits
    <2>3. /\ DOMAIN sessions' = DOMAIN sessions \cup {job[r].token}
          /\ sessions'[job[r].token].user = job[r].user
          /\ sessions'[job[r].token].by = job[r].seen
          /\ \A t \in DOMAIN sessions : t # job[r].token => sessions'[t] = sessions[t]
      BY <1>4 DEF LoginCommits
    <2>4. job[r].token \in used \ DOMAIN sessions /\ job[r].seen = hash[job[r].user]
      BY <2>1 DEF TableInv, TokenInv, RowInv, Locking
    <2>5. RowInv'
      BY <2>1, <2>2, IdleJob DEF TableInv, RowInv
    <2>6. DoomedInv'
      <3>1. SUFFICES ASSUME NEW s \in Request, job'[s].step = "change_commit"
                     PROVE  /\ job'[s].doomed \subseteq used'
                            /\ \A q \in Request : job'[q].step = "login_commit" =>
                                  job'[q].token \notin job'[s].doomed
                            /\ \A t \in DOMAIN sessions' :
                                  t \in job'[s].doomed <=> sessions'[t].user = job'[s].user
        BY DEF DoomedInv, SessionsOf
      <3>2. s # r /\ job'[s] = job[s] /\ job[s].step = "change_commit"
        BY <2>2, <3>1, IdleJob
      <3>3. job[s].user # job[r].user
        BY <2>1, <3>2 DEF TableInv, RowInv, Locking
      <3>4. /\ job[s].doomed \subseteq used
            /\ \A q \in Request : job[q].step = "login_commit" => job[q].token \notin job[s].doomed
            /\ \A t \in DOMAIN sessions : t \in job[s].doomed <=> sessions[t].user = job[s].user
        BY <3>2 DEF TableInv, DoomedInv, SessionsOf
      <3>5. \A q \in Request : job'[q].step = "login_commit" => job'[q] = job[q]
        BY <2>2 DEF Idle
      <3>6. job[r].token \notin job[s].doomed
        BY <2>1, <3>4
      <3> QED BY <2>1, <2>3, <3>2, <3>3, <3>4, <3>5, <3>6
    <2>7. TokenInv'
      BY <2>1, <2>2, <2>3, <2>4, IdleJob DEF TableInv, TokenInv, Idle
    <2>8. SessionsOfCurrentPassword'
      BY <2>1, <2>3, <2>4 DEF TableInv, SessionsOfCurrentPassword
    <2> QED BY <2>5, <2>6, <2>7, <2>8 DEF TableInv
  <1> QED BY <1>1, <1>2, <1>3, <1>4 DEF Login

\* So does a password change: when it commits, its user has no session that
\* is not deleted with it.
LEMMA TableChange == \A r \in Request : TypeOK /\ TableInv /\ Change(r) => TableInv'
  <1> SUFFICES ASSUME NEW r \in Request, TypeOK, TableInv, Change(r) PROVE TableInv'
    OBVIOUS
  <1>0. job[r] \in Job
    BY DEF TypeOK
  <1>1. CASE ChangeChecks(r)
    <2>1. UNCHANGED <<hash, used, sessions>>
      BY <1>1 DEF ChangeChecks, dbVars
    <2>2. Admits(job[r].token) =>
            LET j == [step |-> "change_read", user |-> sessions[job[r].token].user,
                      given |-> job[r].given, wanted |-> job[r].wanted]
            IN  j \in Job /\ j.step \notin Locking
      BY <1>0, <1>1, JobShape DEF ChangeChecks, Job, Admits, TypeOK, Session, Locking
    <2>3. Quiet
      BY <1>1, <2>1, <2>2, IdleJob, QuietDoes DEF ChangeChecks
    <2> QED BY <2>1, <2>3, QuietStep DEF Shrinks
  <1>2. CASE ChangeReads(r)
    <2>1. UNCHANGED <<hash, used, sessions>>
      BY <1>2 DEF ChangeReads
    <2>2. LET j == [step |-> "change_update", user |-> job[r].user, seen |-> hash[job[r].user],
                    new |-> Hashed(job[r].wanted, salt + 1)]
          IN  j \in Job /\ j.step \notin Locking
      BY <1>0, <1>2, JobShape DEF ChangeReads, Job, Hashed, Hash, TypeOK, Locking
    <2>3. Quiet
      BY <1>2, <2>1, <2>2, IdleJob, QuietDoes DEF ChangeReads
    <2> QED BY <2>1, <2>3, QuietStep DEF Shrinks
  <1>3. CASE ChangeUpdates(r)
    <2>1. UNCHANGED <<hash, used, sessions>> /\ RowFree(job[r].user)
      BY <1>3 DEF ChangeUpdates, dbVars
    <2>2. CASE Does(r, Idle)
      BY <2>1, <2>2, IdleJob, QuietDoes, QuietStep DEF Shrinks
    <2>3. CASE ~Does(r, Idle)
      <3> DEFINE j == [job[r] EXCEPT !.step = "change_delete"]
      <3>1. hash[job[r].user] = job[r].seen /\ Does(r, j)
        BY <1>3, <2>3 DEF ChangeUpdates, Unchanged
      <3>2. j \in Job /\ j.step = "change_delete" /\ j.user = job[r].user /\ j.seen = job[r].seen
        BY <1>0, <1>3, JobShape DEF ChangeUpdates, Job
      <3> HIDE DEF j
      <3>3. job'[r] = j /\ \A s \in Request \ {r} : job'[s] = job[s]
        BY <3>1, <3>2, DoesJob
      <3>4. RowInv'
        BY <2>1, <3>1, <3>2, <3>3 DEF TableInv, RowInv, RowFree
      <3>5. DoomedInv'
        BY <2>1, <3>2, <3>3 DEF TableInv, DoomedInv, SessionsOf
      <3>7. TokenInv'
        BY <2>1, <3>2, <3>3 DEF TableInv, TokenInv
      <3>6. SessionsOfCurrentPassword'
        BY <2>1 DEF TableInv, SessionsOfCurrentPassword
      <3> QED BY <3>4, <3>5, <3>6, <3>7 DEF TableInv
    <2> QED BY <2>2, <2>3
  <1>4. CASE ChangeDeletes(r)
    <2> DEFINE j == [step |-> "change_commit", user |-> job[r].user, seen |-> job[r].seen,
                     new |-> job[r].new, doomed |-> SessionsOf(job[r].user)]
    <2>1. UNCHANGED <<hash, used, sessions>> /\ Does(r, j) /\ job[r].step = "change_delete"
      BY <1>4 DEF ChangeDeletes, dbVars
    <2>2. j \in Job /\ j.step = "change_commit" /\ j.user = job[r].user /\ j.seen = job[r].seen
            /\ j.doomed = SessionsOf(job[r].user)
      BY <1>0, <2>1, JobShape DEF Job, SessionsOf, TypeOK
    <2> HIDE DEF j
    <2>3. job'[r] = j /\ \A s \in Request \ {r} : job'[s] = job[s]
      BY <2>1, <2>2, DoesJob
    <2>4. RowInv'
      BY <2>1, <2>2, <2>3 DEF TableInv, RowInv, Locking
    <2>5. DoomedInv'
      BY <2>1, <2>2, <2>3 DEF TableInv, DoomedInv, TokenInv, SessionsOf
    <2>6. TokenInv'
      BY <2>1, <2>2, <2>3 DEF TableInv, TokenInv
    <2>7. SessionsOfCurrentPassword'
      BY <2>1 DEF TableInv, SessionsOfCurrentPassword
    <2> QED BY <2>4, <2>5, <2>6, <2>7 DEF TableInv
  <1>5. CASE ChangeCommits(r)
    <2> DEFINE u == job[r].user
    <2>1. /\ job[r].step = "change_commit"
          /\ u \in User
          /\ used' = used
          /\ \A v \in User \ {u} : hash'[v] = hash[v]
      BY <1>0, <1>5, JobShape DEF ChangeCommits, TypeOK
    <2>2. Shrinks /\ DOMAIN sessions' = DOMAIN sessions \ job[r].doomed
      BY <1>5, RestrictShrinks DEF ChangeCommits
    <2>3. job'[r] = Idle /\ \A s \in Request \ {r} : job'[s] = job[s]
      BY <1>5, IdleJob, DoesJob DEF ChangeCommits
    <2>4. \A t \in DOMAIN sessions' : sessions'[t] = sessions[t] /\ sessions[t].user \in User \ {u}
      BY <2>1, <2>2 DEF TableInv, DoomedInv, SessionsOf, Shrinks, TypeOK, Session
    <2>5. \A s \in Request : job'[s].step \in Locking =>
            /\ s # r
            /\ job'[s] = job[s]
            /\ job[s].user # u
            /\ job[s].user \in User
      <3>1. SUFFICES ASSUME NEW s \in Request, job'[s].step \in Locking
                     PROVE  s # r /\ job'[s] = job[s] /\ job[s].user # u /\ job[s].user \in User
        OBVIOUS
      <3>2. s # r /\ job'[s] = job[s]
        BY <2>3, <3>1, IdleJob
      <3>3. job[s].user # u
        BY <2>1, <3>1, <3>2 DEF TableInv, RowInv, Locking
      <3>4. job[s] \in Job
        BY DEF TypeOK
      <3>5. job[s].user \in User
        BY <3>1, <3>2, <3>4, JobShape DEF Locking
      <3> QED BY <3>2, <3>3, <3>5
    <2> HIDE DEF u
    <2>6. RowInv'
      BY <2>1, <2>5 DEF TableInv, RowInv
    <2>7. DoomedInv'
      <3>1. SUFFICES ASSUME NEW s \in Request, job'[s].step = "change_commit"
                     PROVE  /\ job'[s].doomed \subseteq used'
                            /\ \A q \in Request : job'[q].step = "login_commit" =>
                                  job'[q].token \notin job'[s].doomed
                            /\ \A t \in DOMAIN sessions' :
                                  t \in job'[s].doomed <=> sessions'[t].user = job'[s].user
        BY DEF DoomedInv, SessionsOf
      <3>2. job'[s] = job[s]
        BY <2>5, <3>1 DEF Locking
      <3>3. \A q \in Request : job'[q].step = "login_commit" => job'[q] = job[q]
        BY <2>5 DEF Locking
      <3>4. \A t \in DOMAIN sessions : t \in job[s].doomed <=> sessions[t].user = job[s].user
        BY <3>1, <3>2 DEF TableInv, DoomedInv, SessionsOf
      <3> QED BY <2>1, <2>2, <3>1, <3>2, <3>3, <3>4 DEF TableInv, DoomedInv, Shrinks
    <2>8. TokenInv'
      BY <2>1, <2>2, <2>5 DEF TableInv, TokenInv, Locking
    <2>9. SessionsOfCurrentPassword'
      <3>1. SUFFICES ASSUME NEW t \in DOMAIN sessions'
                     PROVE  sessions'[t].by = hash'[sessions'[t].user]
        BY DEF SessionsOfCurrentPassword
      <3>2. t \in DOMAIN sessions
        BY <2>2
      <3>3. sessions[t].by = hash[sessions[t].user]
        BY <3>2 DEF TableInv, SessionsOfCurrentPassword
      <3> QED BY <2>1, <2>4, <3>1, <3>3
    <2> QED BY <2>6, <2>7, <2>8, <2>9 DEF TableInv
  <1> QED BY <1>1, <1>2, <1>3, <1>4, <1>5 DEF Change

\* Every step keeps the invariant.
LEMMA TableNext == TypeOK /\ TableInv /\ [Next]_vars => TableInv'
  <1> SUFFICES ASSUME TypeOK, TableInv, [Next]_vars PROVE TableInv'
    OBVIOUS
  <1>1. ASSUME NEW r \in Request, Serve(r) PROVE TableInv'
    <2>1. CASE ProtectedArrives(r)
      <3>1. UNCHANGED <<hash, used, sessions>>
        BY <2>1 DEF ProtectedArrives, dbVars
      <3>2. \E j \in Job : Does(r, j) /\ j.step \notin Locking
        <4>1. \A t \in Token, p, q \in Password :
                LET j == [step |-> "change_session", token |-> t, given |-> p, wanted |-> q]
                IN  j \in Job /\ j.step \notin Locking
          BY DEF Job, Locking
        <4>2. \A t \in Token, s \in {"logout", "upgrade"} :
                LET j == [step |-> s, token |-> t] IN j \in Job /\ j.step \notin Locking
          BY DEF Job, Locking
        <4> QED BY <2>1, <4>1, <4>2 DEF ProtectedArrives, TypeOK
      <3> QED BY <3>1, <3>2, QuietDoes, QuietStep DEF Shrinks
    <2>2. CASE LogoutDeletes(r)
      <3>1. UNCHANGED <<hash, used>> /\ Does(r, Idle)
        BY <2>2 DEF LogoutDeletes
      <3>2. Shrinks
        BY <2>2, RestrictShrinks DEF LogoutDeletes
      <3> QED BY <3>1, <3>2, IdleJob, QuietDoes, QuietStep
    <2>3. CASE Upgrades(r) \/ Abandoned(r)
      <3>1. UNCHANGED <<hash, used, sessions>> /\ Does(r, Idle)
        BY <2>3 DEF Upgrades, Abandoned, dbVars
      <3> QED BY <3>1, IdleJob, QuietDoes, QuietStep DEF Shrinks
    <2> QED BY <1>1, <2>1, <2>2, <2>3, TableLogin, TableChange DEF Serve
  <1>2. ASSUME NEW t \in Token, Revalidates(t) \/ SocketEnds(t) PROVE TableInv'
    <2>1. UNCHANGED <<hash, used, sessions, job>>
      BY <1>2 DEF Revalidates, SocketEnds, dbVars
    <2> QED BY <2>1, QuietStep DEF Quiet, Shrinks
  <1>3. CASE Sweep
    <2>1. UNCHANGED <<hash, used, job>> /\ Shrinks
      BY <1>3, RestrictShrinks DEF Sweep
    <2> QED BY <2>1, QuietStep DEF Quiet
  <1>4. CASE Tick \/ UNCHANGED vars
    <2>1. UNCHANGED <<hash, used, sessions, job>>
      BY <1>4 DEF Tick, vars, dbVars
    <2> QED BY <2>1, QuietStep DEF Quiet, Shrinks
  <1>5. CASE Restart
    <2>1. UNCHANGED <<hash, used, sessions>> /\ \A r \in Request : job'[r] = Idle
      BY <1>5 DEF Restart, dbVars
    <2> QED BY <2>1, IdleJob, QuietStep DEF Quiet, Shrinks
  <1> QED BY <1>1, <1>2, <1>3, <1>4, <1>5 DEF Next

-----------------------------------------------------------------------------
\* Only an arriving login, the clock and a restart concern the limiter.
LEMMA LimiterFrame ==
  LimiterInv /\ UNCHANGED <<now, attempts, started>> => LimiterInv'
  BY DEF LimiterInv, LimiterHolds

\* A login let through finds fewer than MaxAttempts in the window that ends
\* now, and it is in no earlier window.
LEMMA LimiterArrives ==
  \A r \in Request : TypeOK /\ LimiterInv /\ LoginArrives(r) => LimiterInv'
  <1> SUFFICES ASSUME NEW r \in Request, TypeOK, LimiterInv, LoginArrives(r) PROVE LimiterInv'
    OBVIOUS
  <1> DEFINE this == [no |-> Cardinality(started), at |-> now]
             In(S, w) == {a \in S : a.at <= w /\ w - a.at < Window}
  <1>0. /\ now \in Nat /\ now' = now
        /\ IsFiniteSet(started) /\ attempts \subseteq started
        /\ \A a \in started : a.at \in Nat /\ a.no \in Nat
        /\ Window \in Nat /\ MaxAttempts \in Nat
        /\ Cardinality(started) \in Nat
    BY LimitAssumption, FS_CardinalityType DEF LoginArrives, TypeOK, Attempt
  <1>1. \A a \in started : a.at <= now /\ a.no < Cardinality(started)
    BY DEF LimiterInv
  <1>2. Recent = In(started, now)
    BY <1>0, <1>1 DEF Recent, LimiterInv
  <1>3. CASE Cardinality(Recent) >= MaxAttempts
    <2>1. attempts' = Recent /\ started' = started
      BY <1>3 DEF LoginArrives
    <2>2. \A a \in started : now - a.at < Window => a \in Recent
      BY <1>0, <1>1, <1>2
    <2> QED BY <1>0, <2>1, <2>2 DEF LimiterInv, LimiterHolds
  <1>4. CASE ~(Cardinality(Recent) >= MaxAttempts)
    <2>1. attempts' = Recent \cup {this} /\ started' = started \cup {this}
      BY <1>4 DEF LoginArrives
    <2>2. this \notin started
      BY <1>0, <1>1
    <2>3. Cardinality(started') = Cardinality(started) + 1
      BY <1>0, <2>1, <2>2, FS_AddElement
    <2>4. \A a \in started' : a.at <= now' /\ a.no < Cardinality(started')
      BY <1>0, <1>1, <2>1, <2>3
    <2>5. \A a \in started' : now' - a.at < Window => a \in attempts'
      BY <1>0, <1>1, <1>2, <2>1
    <2>6. LimiterHolds'
      <3>1. SUFFICES ASSUME NEW w \in 0..now PROVE Cardinality(In(started', w)) <= MaxAttempts
        BY <1>0 DEF LimiterHolds
      <3>2. CASE w = now
        <4>1. IsFiniteSet(Recent)
          BY <1>0, FS_Subset DEF Recent
        <4>2. Cardinality(Recent) \in Nat /\ Cardinality(Recent) + 1 <= MaxAttempts
          BY <1>0, <1>4, <4>1, FS_CardinalityType
        <4>3. this \notin Recent
          BY <1>2, <2>2
        <4>4. Cardinality(Recent \cup {this}) = Cardinality(Recent) + 1
          BY <4>1, <4>3, FS_AddElement
        <4>5. In(started', w) = Recent \cup {this}
          BY <1>0, <1>2, <2>1, <3>2, LimitAssumption
        <4> QED BY <4>2, <4>4, <4>5
      <3>3. CASE w # now
        <4>1. In(started', w) = In(started, w)
          BY <1>0, <2>1, <3>3
        <4>2. Cardinality(In(started, w)) <= MaxAttempts
          BY DEF LimiterInv, LimiterHolds
        <4> QED BY <4>1, <4>2
      <3> QED BY <3>2, <3>3
    <2> QED BY <2>4, <2>5, <2>6 DEF LimiterInv
  <1> QED BY <1>3, <1>4

\* Every step keeps the limiter's invariant.
LEMMA LimiterNext == TypeOK /\ LimiterInv /\ [Next]_vars => LimiterInv'
  <1> SUFFICES ASSUME TypeOK, LimiterInv, [Next]_vars PROVE LimiterInv'
    OBVIOUS
  <1>0. now \in Nat /\ Window \in Nat \ {0} /\ MaxAttempts \in Nat
    BY LimitAssumption DEF TypeOK
  <1>1. ASSUME NEW r \in Request, Serve(r), ~LoginArrives(r)
        PROVE  UNCHANGED <<now, attempts, started>>
    BY <1>1 DEF Serve, Login, LoginReads, LoginLocks, LoginCommits, ProtectedArrives, Change,
       ChangeChecks, ChangeReads, ChangeUpdates, ChangeDeletes, ChangeCommits, LogoutDeletes,
       Upgrades, Abandoned
  <1>2. ASSUME NEW t \in Token, Revalidates(t) \/ SocketEnds(t)
        PROVE  UNCHANGED <<now, attempts, started>>
    BY <1>2 DEF Revalidates, SocketEnds
  <1>3. CASE Sweep \/ UNCHANGED vars
    BY <1>3, LimiterFrame DEF Sweep, vars
  <1>4. CASE Tick
    <2> DEFINE In(S, w) == {a \in S : a.at <= w /\ w - a.at < Window}
    <2>1. now' = now + 1 /\ UNCHANGED <<attempts, started>>
      BY <1>4 DEF Tick
    <2>2. \A a \in started : a.at \in Nat /\ a.at <= now
      BY DEF LimiterInv, TypeOK, Attempt
    <2>3. IsFiniteSet(In(started, now)) /\ In(started, now + 1) \subseteq In(started, now)
      BY <1>0, <2>2, FS_Subset DEF TypeOK
    <2>4. Cardinality(In(started, now)) <= MaxAttempts
      BY <1>0 DEF LimiterInv, LimiterHolds
    <2>5. Cardinality(In(started, now + 1)) <= Cardinality(In(started, now))
      BY <2>3, FS_Subset
    <2>6. IsFiniteSet(In(started, now + 1))
      BY <2>3, FS_Subset
    <2>7. Cardinality(In(started, now + 1)) <= MaxAttempts
      BY <1>0, <2>3, <2>4, <2>5, <2>6, FS_CardinalityType
    <2>8. LimiterHolds'
      <3>1. SUFFICES ASSUME NEW w \in 0..(now + 1) PROVE Cardinality(In(started, w)) <= MaxAttempts
        BY <2>1 DEF LimiterHolds
      <3>2. CASE w \in 0..now
        BY <3>2 DEF LimiterInv, LimiterHolds
      <3>3. CASE w = now + 1
        BY <2>7, <3>3
      <3> QED BY <1>0, <3>2, <3>3
    <2>9. \A a \in started : a.at <= now + 1 /\ (now + 1 - a.at < Window => a \in attempts)
      BY <1>0, <2>2 DEF LimiterInv
    <2>10. \A a \in started : a.no < Cardinality(started)
      BY DEF LimiterInv
    <2>11. \A a \in started' : a.at <= now' /\ a.no < Cardinality(started')
      BY <2>1, <2>9, <2>10
    <2>12. \A a \in started' : now' - a.at < Window => a \in attempts'
      BY <1>0, <2>1, <2>2, <2>9
    <2> QED BY <2>8, <2>11, <2>12 DEF LimiterInv
  <1>5. CASE Restart
    <2>1. started' = {} /\ now' = now
      BY <1>5 DEF Restart
    <2>2. \A w : {a \in started' : a.at <= w /\ w - a.at < Window} = {}
      BY <2>1
    <2> QED BY <1>0, <2>1, <2>2, FS_EmptySet DEF LimiterInv, LimiterHolds
  <1> QED BY <1>1, <1>2, <1>3, <1>4, <1>5, LimiterFrame, LimiterArrives DEF Next

\* The inductive invariant holds: who holds a user's row and what it has seen,
\* what a change is about to delete, what the limiter still knows, together
\* with the safety properties that rest on it.
THEOREM InductiveInvariant == Spec => []IInv
  <1>1. Init => IInv
    <2> SUFFICES ASSUME Init PROVE IInv
      OBVIOUS
    <2>1. TypeOK
      BY TypeInit
    <2>2. DOMAIN sessions = {} /\ started = {} /\ \A r \in Request : job[r] = Idle
      BY DEF Init
    <2>3. RowInv /\ DoomedInv /\ TokenInv /\ SessionsOfCurrentPassword
      BY <2>2, IdleJob DEF RowInv, DoomedInv, TokenInv, SessionsOfCurrentPassword, Idle
    <2>4. LimiterInv
      <3>1. \A w : {a \in started : a.at <= w /\ w - a.at < Window} = {}
        BY <2>2
      <3> QED BY <2>2, <3>1, LimitAssumption, FS_EmptySet DEF LimiterInv, LimiterHolds
    <2> QED BY <2>1, <2>3, <2>4 DEF IInv
  <1>2. IInv /\ [Next]_vars => IInv'
    BY TypeNext, TableNext, LimiterNext DEF IInv, TableInv
  <1> QED BY <1>1, <1>2, PTL DEF Spec

\* No session outlives a password change, whatever logins were under way.
THEOREM SessionsAreCurrent == Spec => []SessionsOfCurrentPassword
  <1>1. IInv => SessionsOfCurrentPassword
    BY DEF IInv
  <1> QED BY <1>1, InductiveInvariant, PTL

\* The limiter lets through at most MaxAttempts logins in any Window.
THEOREM LimiterIsSound == Spec => []LimiterHolds
  <1>1. IInv => LimiterHolds
    BY DEF IInv, LimiterInv
  <1> QED BY <1>1, InductiveInvariant, PTL

-----------------------------------------------------------------------------
\* Only the commit of a password change replaces a hash, and it has verified
\* the one it replaces.
THEOREM ChangesAreInformed == Spec => NoLostChange
  <1> DEFINE Informed ==
        \A u \in User : hash'[u] # hash[u] =>
            \E r \in Request : /\ job[r].step = "change_commit"
                               /\ job[r].user = u
                               /\ job[r].seen = hash[u]
  <1>1. IInv /\ [Next]_vars => Informed
    <2> SUFFICES ASSUME IInv, [Next]_vars PROVE Informed
      OBVIOUS
    <2>1. CASE hash' = hash
      BY <2>1
    <2>2. ASSUME NEW r \in Request, ChangeCommits(r) PROVE Informed
      <3>1. job[r].step = "change_commit" /\ job[r].seen = hash[job[r].user]
        BY <2>2 DEF ChangeCommits, IInv, RowInv, Locking
      <3>2. \A u \in User : u # job[r].user => hash'[u] = hash[u]
        BY <2>2 DEF ChangeCommits, IInv, TypeOK
      <3> QED BY <3>1, <3>2
    <2>3. hash' = hash \/ \E r \in Request : ChangeCommits(r)
      BY DEF Next, Serve, Login, LoginArrives, LoginReads, LoginLocks, LoginCommits, ProtectedArrives,
         Change, ChangeChecks, ChangeReads, ChangeUpdates, ChangeDeletes, LogoutDeletes, Upgrades,
         Abandoned, Revalidates, SocketEnds, Sweep, Tick, Restart, vars, dbVars
    <2> QED BY <2>1, <2>2, <2>3
  <1>2. Spec => [][Informed]_vars
    BY <1>1, InductiveInvariant, PTL DEF Spec
  <1> QED BY <1>2 DEF NoLostChange

\* What the contract sees of the sessions table.
Live == [t \in DOMAIN sessions |-> [user |-> sessions[t].user, by |-> sessions[t].by]]

\* Sessions that only disappear are ended.
LEMMA ContractEnd == Shrinks /\ hash' = hash => [Contract!Next]_(Contract!vars)
  <1> SUFFICES ASSUME Shrinks, hash' = hash PROVE Contract!End
    BY DEF Contract!Next
  <1>1. DOMAIN Live = DOMAIN sessions /\ DOMAIN sessions' \subseteq DOMAIN Live
    BY DEF Live, Shrinks
  <1>2. Live' = Restrict(Live, DOMAIN sessions')
    BY <1>1 DEF Live, Restrict, Shrinks
  <1> QED BY <1>1, <1>2 DEF Contract!End, Contract!Restrict, Restrict, Live

\* Every step of sign-in is a step of the contract, or a stutter.
LEMMA ContractNext == IInv /\ [Next]_vars => [Contract!Next]_(Contract!vars)
  <1> SUFFICES ASSUME IInv, [Next]_vars PROVE [Contract!Next]_(Contract!vars)
    OBVIOUS
  <1>0. TypeOK /\ TableInv
    BY DEF IInv, TableInv
  <1>1. CASE UNCHANGED <<hash, sessions>>
    BY <1>1, ContractEnd DEF Shrinks
  <1>2. ASSUME NEW r \in Request, LoginCommits(r) PROVE Contract!Login
    <2> DEFINE u == job[r].user
               t == job[r].token
    <2>1. u \in User /\ t \in Token
      BY <1>0, <1>2, JobShape DEF LoginCommits, TypeOK
    <2>2. t \notin DOMAIN sessions /\ job[r].seen = hash[u]
      BY <1>0, <1>2 DEF LoginCommits, TableInv, TokenInv, RowInv, Locking
    <2>3. /\ DOMAIN sessions' = DOMAIN sessions \cup {t}
          /\ sessions'[t].user = u /\ sessions'[t].by = hash[u]
          /\ \A s \in DOMAIN sessions : sessions'[s] = sessions[s]
          /\ hash' = hash
      BY <1>2, <2>2 DEF LoginCommits
    <2> HIDE DEF u, t
    <2>4. Live' = [s \in DOMAIN Live \cup {t} |->
                    IF s = t THEN [user |-> u, by |-> hash[u]] ELSE Live[s]]
      BY <2>2, <2>3 DEF Live
    <2>5. t \in Token \ DOMAIN Live
      BY <2>1, <2>2 DEF Live
    <2> QED BY <2>1, <2>3, <2>4, <2>5 DEF Contract!Login, Live
  <1>3. ASSUME NEW r \in Request, ChangeCommits(r) PROVE Contract!Change
    <2> DEFINE u == job[r].user
    <2>1. u \in User /\ job[r].step = "change_commit"
      BY <1>0, <1>3, JobShape DEF ChangeCommits, TypeOK
    <2>2. \A v \in User \ {u} : hash'[v] = hash[v]
      BY <1>0, <1>3 DEF ChangeCommits, TypeOK
    <2>3. Shrinks /\ DOMAIN sessions' = DOMAIN sessions \ job[r].doomed
      BY <1>3, RestrictShrinks DEF ChangeCommits
    <2>4. DOMAIN sessions' = {t \in DOMAIN sessions : sessions[t].user # u}
      BY <1>0, <2>1, <2>3 DEF TableInv, DoomedInv, SessionsOf
    <2> HIDE DEF u
    <2>5. {t \in DOMAIN Live : Live[t].user # u} = {t \in DOMAIN sessions : sessions[t].user # u}
      BY DEF Live
    <2>6. Live' = Restrict(Live, {t \in DOMAIN Live : Live[t].user # u})
      BY <2>3, <2>4, <2>5 DEF Live, Restrict, Shrinks
    <2> QED BY <2>1, <2>2, <2>6 DEF Contract!Change, Contract!Restrict, Restrict, Live
  <1>4. ASSUME NEW r \in Request, LogoutDeletes(r) PROVE [Contract!Next]_(Contract!vars)
    BY <1>4, RestrictShrinks, ContractEnd DEF LogoutDeletes
  <1>5. CASE Sweep
    BY <1>5, RestrictShrinks, ContractEnd DEF Sweep
  <1>6. \/ UNCHANGED <<hash, sessions>>
        \/ \E r \in Request : LoginCommits(r) \/ ChangeCommits(r) \/ LogoutDeletes(r)
        \/ Sweep
    BY DEF Next, Serve, Login, LoginArrives, LoginReads, LoginLocks, ProtectedArrives,
       Change, ChangeChecks, ChangeReads, ChangeUpdates, ChangeDeletes, Upgrades,
       Abandoned, Revalidates, SocketEnds, Tick, Restart, vars, dbVars
  <1> QED BY <1>1, <1>2, <1>3, <1>4, <1>5, <1>6 DEF Contract!Next

\* Sign-in implements its contract: a session comes into being for the
\* password of that instant, and a password change ends all sessions at once.
THEOREM Implementation == Spec => ImplementsContract
  <1>1. Init => Contract!Init
    <2> SUFFICES ASSUME Init PROVE Live = <<>>
      BY DEF Contract!Init, Live
    <2>1. DOMAIN sessions = {}
      BY DEF Init
    <2> QED BY <2>1 DEF Live
  <1>2. IInv /\ [Next]_vars => [Contract!Next]_(Contract!vars)
    BY ContractNext
  <1> QED BY <1>1, <1>2, InductiveInvariant, PTL DEF Spec, ImplementsContract, Contract!Spec

=============================================================================
