----------------------------- MODULE AuthSessions -----------------------------
(***************************************************************************)
(* Sign-in (auth.rs): login with its global limiter, logout, the password  *)
(* change that revokes every session, the session check behind every       *)
(* protected request, and the WebSocket (dashboard.rs) that checks its     *)
(* session again while it is open.                                         *)
(*                                                                         *)
(* The database runs at PostgreSQL's default isolation, READ COMMITTED: a  *)
(* statement sees what is committed when it starts, and a row that a       *)
(* transaction has updated, or selected FOR UPDATE, is locked until it     *)
(* ends.  hash and sessions are the committed tables; what a transaction   *)
(* has not committed yet is in the job of its request.  Each statement is  *)
(* a step, except that the INSERT of login is part of the step before it,  *)
(* since until its COMMIT nobody else sees it.                             *)
(***************************************************************************)
EXTENDS Naturals, FiniteSets, Functions

CONSTANTS
    User,         \* rows of the users table
    Request,      \* HTTP requests that may be in progress at a time
    Password,
    Token,        \* session tokens; 32 random bytes never come up twice
    Lifetime,     \* durations the session_hours setting may give
    MaxAttempts,  \* 10: logins the limiter lets through per Window
    Window,       \* 60 s
    MaxTime,      \* bound on the clock
    MaxLogins,    \* bound on the logins let through
    MaxSalt       \* bound on the password changes

ASSUME LimitAssumption ==
    /\ MaxAttempts \in Nat \ {0} /\ Window \in Nat \ {0}
    /\ Lifetime \subseteq Nat \ {0}
    /\ MaxTime \in Nat /\ MaxLogins \in Nat /\ MaxSalt \in Nat

VARIABLES
    now,       \* the clock
    hash,      \* users.password_hash
    salt,      \* the last salt drawn: no two hashes share one
    sessions,  \* the auth_sessions table
    issued,    \* tokens that reached a client in a cookie
    used,      \* tokens drawn
    attempts,  \* AppState.login_attempts
    started,   \* history: logins this process has let through the limiter
    job,       \* what each request is about to do
    open       \* tokens with which a WebSocket is open

dbVars == <<hash, salt, sessions, used>>
vars == <<now, dbVars, issued, attempts, started, job, open>>

\* A password hash: of a password, with a salt drawn for it.
Hash == [pw: Password, salt: Nat]

\* A session row; "by" records the hash its login was verified against.
Session == [user: User, by: Hash, expires: Nat]

\* An accepted login: its number and its time.
Attempt == [no: Nat, at: Nat]

Idle == [step |-> "idle"]

Job ==
    {Idle}
    \cup [step: {"login_read"}, user: User, given: Password]
    \cup [step: {"login_lock"}, user: User, seen: Hash]
    \cup [step: {"login_commit"}, user: User, seen: Hash, token: Token, expires: Nat]
    \cup [step: {"change_session"}, token: Token, given: Password, wanted: Password]
    \cup [step: {"change_read"}, user: User, given: Password, wanted: Password]
    \cup [step: {"change_update", "change_delete"}, user: User, seen: Hash, new: Hash]
    \cup [step: {"change_commit"}, user: User, seen: Hash, new: Hash, doomed: SUBSET Token]
    \cup [step: {"logout", "upgrade"}, token: Token]

TypeOK ==
    /\ now \in Nat
    /\ hash \in [User -> Hash]
    /\ salt \in Nat
    /\ DOMAIN sessions \subseteq Token
    /\ sessions \in [DOMAIN sessions -> Session]
    /\ issued \subseteq Token
    /\ used \subseteq Token
    /\ attempts \subseteq started
    /\ \A a \in started : a \in Attempt
    /\ IsFiniteSet(started)
    /\ job \in [Request -> Job]
    /\ open \subseteq Token

Init ==
    /\ now = 0
    /\ hash \in [User -> [pw: Password, salt: {0}]]
    /\ salt = 0
    /\ sessions = <<>>
    /\ issued = {} /\ used = {}
    /\ attempts = {} /\ started = {}
    /\ job = [r \in Request |-> Idle]
    /\ open = {}

-----------------------------------------------------------------------------
\* Mutated form of Admits: a session that has expired still admits.
AdmitsExpired(t) == t \in DOMAIN sessions

\* session: the row is there and has not expired.
Admits(t) == t \in DOMAIN sessions /\ sessions[t].expires > now

\* No transaction holds the row of user u.
Locking == {"login_commit", "change_delete", "change_commit"}
RowFree(u) == \A r \in Request : job[r].step \in Locking => job[r].user # u

Does(r, j) == job' = [job EXCEPT ![r] = j]

-----------------------------------------------------------------------------
(***************************************************************************)
(* login                                                                   *)
(***************************************************************************)
\* Mutated form of Recent: the window is reckoned one tick short.
RecentShort == {a \in attempts : now - a.at + 1 < Window}

\* The attempts the limiter still counts.
Recent == {a \in attempts : now - a.at < Window}

\* Let through or refused by the limiter.  An unknown user name is checked
\* against a dummy hash and fails as a wrong password does.
LoginArrives(r) ==
    /\ job[r] = Idle
    /\ Cardinality(started) < MaxLogins
    /\ LET this == [no |-> Cardinality(started), at |-> now]
       IN  IF Cardinality(Recent) >= MaxAttempts
           THEN /\ attempts' = Recent
                /\ UNCHANGED <<started, job>>
           ELSE /\ attempts' = Recent \cup {this}
                /\ started' = started \cup {this}
                /\ \E u \in User, p \in Password :
                        Does(r, [step |-> "login_read", user |-> u, given |-> p])
    /\ UNCHANGED <<now, dbVars, issued, open>>

\* The hash is read, and verified on a blocking thread.
LoginReads(r) ==
    /\ job[r].step = "login_read"
    /\ LET u == job[r].user
       IN  Does(r, IF job[r].given = hash[u].pw
                   THEN [step |-> "login_lock", user |-> u, seen |-> hash[u]]
                   ELSE Idle)
    /\ UNCHANGED <<now, dbVars, issued, attempts, started, open>>

\* Mutated form of MayRead: SELECT without FOR UPDATE, which waits for nobody.
MayReadAlways(u) == TRUE

\* SELECT ... FOR UPDATE waits until nobody else holds the row.
MayRead(u) == RowFree(u)

\* The transaction locks the user's row and inserts a session, unless the
\* password has changed since it was verified.
LoginLocks(r) ==
    /\ job[r].step = "login_lock"
    /\ MayRead(job[r].user)
    /\ \/ /\ hash[job[r].user] = job[r].seen
          /\ \E t \in Token \ used, life \in Lifetime :
                /\ used' = used \cup {t}
                /\ Does(r, [step |-> "login_commit", user |-> job[r].user,
                            seen |-> job[r].seen, token |-> t, expires |-> now + life])
       \/ /\ hash[job[r].user] # job[r].seen
          /\ Does(r, Idle)
          /\ UNCHANGED used
    /\ UNCHANGED <<now, hash, salt, sessions, issued, attempts, started, open>>

\* The cookie is set, unless the answer is lost on its way.
LoginCommits(r) ==
    /\ job[r].step = "login_commit"
    /\ sessions' = [t \in DOMAIN sessions \cup {job[r].token} |->
            IF t = job[r].token
            THEN [user |-> job[r].user, by |-> job[r].seen, expires |-> job[r].expires]
            ELSE sessions[t]]
    /\ issued' \in {issued, issued \cup {job[r].token}}
    /\ Does(r, Idle)
    /\ UNCHANGED <<now, hash, salt, used, attempts, started, open>>

-----------------------------------------------------------------------------
(***************************************************************************)
(* Protected requests.  The middleware protect has let them in: one whose  *)
(* session does not admit it is answered 401 and changes nothing.          *)
(***************************************************************************)
ProtectedArrives(r) ==
    /\ job[r] = Idle
    /\ \E t \in issued :
        /\ Admits(t)
        /\ \/ \E p, q \in Password :
                Does(r, [step |-> "change_session", token |-> t, given |-> p, wanted |-> q])
           \/ \E s \in {"logout", "upgrade"} : Does(r, [step |-> s, token |-> t])
    /\ UNCHANGED <<now, dbVars, issued, attempts, started, open>>

\* change_password checks the session itself, to learn whose it is.
ChangeChecks(r) ==
    /\ job[r].step = "change_session"
    /\ Does(r, IF Admits(job[r].token)
               THEN [step |-> "change_read", user |-> sessions[job[r].token].user,
                     given |-> job[r].given, wanted |-> job[r].wanted]
               ELSE Idle)
    /\ UNCHANGED <<now, dbVars, issued, attempts, started, open>>

\* Mutated form of Hashed: the password is stored as it is.
StoredPlain(p, n) == p

\* hash_password with a fresh salt.
Hashed(p, n) == [pw |-> p, salt |-> n]

\* The hash is read, the current password verified, the new one hashed.
ChangeReads(r) ==
    /\ job[r].step = "change_read"
    /\ LET u == job[r].user
       IN  \/ /\ job[r].given = hash[u].pw
              /\ salt < MaxSalt
              /\ salt' = salt + 1
              /\ Does(r, [step |-> "change_update", user |-> u, seen |-> hash[u],
                          new |-> Hashed(job[r].wanted, salt + 1)])
           \/ /\ job[r].given # hash[u].pw
              /\ Does(r, Idle)
              /\ UNCHANGED salt
    /\ UNCHANGED <<now, hash, sessions, used, issued, attempts, started, open>>

\* Mutated form of Unchanged: the UPDATE names the user only.
UnchangedAlways(u, seen) == TRUE

\* The UPDATE's condition: the hash is the one that was verified.
Unchanged(u, seen) == hash[u] = seen

\* UPDATE waits for the row, and finds it only if the hash is still the one
\* that was verified.
ChangeUpdates(r) ==
    /\ job[r].step = "change_update"
    /\ RowFree(job[r].user)
    /\ Does(r, IF Unchanged(job[r].user, job[r].seen)
               THEN [job[r] EXCEPT !.step = "change_delete"]
               ELSE Idle)
    /\ UNCHANGED <<now, dbVars, issued, attempts, started, open>>

\* Mutated form of SessionsOf: only unexpired sessions are found.
UnexpiredSessionsOf(u) == {t \in DOMAIN sessions : sessions[t].user = u /\ Admits(t)}

SessionsOf(u) == {t \in DOMAIN sessions : sessions[t].user = u}

ChangeDeletes(r) ==
    /\ job[r].step = "change_delete"
    /\ Does(r, [step |-> "change_commit", user |-> job[r].user, seen |-> job[r].seen,
                new |-> job[r].new, doomed |-> SessionsOf(job[r].user)])
    /\ UNCHANGED <<now, dbVars, issued, attempts, started, open>>

ChangeCommits(r) ==
    /\ job[r].step = "change_commit"
    /\ hash' = [hash EXCEPT ![job[r].user] = job[r].new]
    /\ sessions' = Restrict(sessions, DOMAIN sessions \ job[r].doomed)
    /\ Does(r, Idle)
    /\ UNCHANGED <<now, salt, used, issued, attempts, started, open>>

\* A row that a change is deleting too is waited for in the code: it is gone
\* either way, so the model does not wait.
LogoutDeletes(r) ==
    /\ job[r].step = "logout"
    /\ sessions' = Restrict(sessions, DOMAIN sessions \ {job[r].token})
    /\ Does(r, Idle)
    /\ UNCHANGED <<now, hash, salt, used, issued, attempts, started, open>>

\* A statement or commit fails, or the client goes away and the handler is
\* dropped: the transaction, if there is one, rolls back.
Abandoned(r) ==
    /\ job[r] # Idle
    /\ Does(r, Idle)
    /\ UNCHANGED <<now, dbVars, issued, attempts, started, open>>

-----------------------------------------------------------------------------
(***************************************************************************)
(* The WebSocket.                                                          *)
(***************************************************************************)
Upgrades(r) ==
    /\ job[r].step = "upgrade"
    /\ open' = open \cup {job[r].token}
    /\ Does(r, Idle)
    /\ UNCHANGED <<now, dbVars, issued, attempts, started>>

\* Every 30 s, at once the first time: the socket is closed if its session no
\* longer admits it.
Revalidates(t) ==
    /\ t \in open
    /\ ~Admits(t)
    /\ open' = open \ {t}
    /\ UNCHANGED <<now, dbVars, issued, attempts, started, job>>

\* The client closes it, it breaks, or the database fails the check.
SocketEnds(t) ==
    /\ t \in open
    /\ open' = open \ {t}
    /\ UNCHANGED <<now, dbVars, issued, attempts, started, job>>

-----------------------------------------------------------------------------
(***************************************************************************)
(* The worker's hourly sweep, the clock, and the process.                  *)
(***************************************************************************)
Sweep ==
    /\ sessions' = Restrict(sessions, {t \in DOMAIN sessions : sessions[t].expires >= now})
    /\ UNCHANGED <<now, hash, salt, used, issued, attempts, started, job, open>>

Tick ==
    /\ now < MaxTime
    /\ now' = now + 1
    /\ UNCHANGED <<dbVars, issued, attempts, started, job, open>>

\* The process ends and boots again: users and sessions stay, the limiter
\* starts anew, transactions roll back.
Restart ==
    /\ attempts' = {}
    /\ started' = {}
    /\ job' = [r \in Request |-> Idle]
    /\ open' = {}
    /\ UNCHANGED <<now, dbVars, issued>>

-----------------------------------------------------------------------------
Login(r) == LoginArrives(r) \/ LoginReads(r) \/ LoginLocks(r) \/ LoginCommits(r)

Change(r) ==
    ChangeChecks(r) \/ ChangeReads(r) \/ ChangeUpdates(r) \/ ChangeDeletes(r) \/ ChangeCommits(r)

Serve(r) ==
    Login(r) \/ ProtectedArrives(r) \/ Change(r) \/ LogoutDeletes(r) \/ Upgrades(r) \/ Abandoned(r)

Next ==
    \/ \E r \in Request : Serve(r)
    \/ \E t \in Token : Revalidates(t) \/ SocketEnds(t)
    \/ Sweep \/ Tick \/ Restart

Spec == Init /\ [][Next]_vars

\* The interval of every open socket comes round, and its task is polled.
LiveSpec == Spec /\ \A t \in Token : WF_vars(Revalidates(t))

-----------------------------------------------------------------------------
\* Every session in the table comes from a login verified against the
\* password its user has now: none outlives a password change, whatever
\* logins were under way when it was made.
SessionsOfCurrentPassword ==
    \A t \in DOMAIN sessions : sessions[t].by = hash[sessions[t].user]

\* A password is replaced only by a request that was verified against that
\* very password: of two changes under way at once, one is refused.
NoLostChange ==
    [][\A u \in User : hash'[u] # hash[u] =>
        \E r \in Request : /\ job[r].step = "change_commit"
                           /\ job[r].user = u
                           /\ job[r].seen = hash[u]]_vars

\* Between two restarts the limiter lets through at most MaxAttempts logins in
\* any Window, up to now.
LimiterHolds ==
    \A w \in 0..now : Cardinality({a \in started : a.at <= w /\ w - a.at < Window}) <= MaxAttempts

\* Sign-in implements its contract.
Contract == INSTANCE AuthContract WITH
    User     <- User,
    Token    <- Token,
    password <- hash,
    live     <- [t \in DOMAIN sessions |-> [user |-> sessions[t].user, by |-> sessions[t].by]]

ImplementsContract == Contract!Spec

\* A socket whose session was revoked, or has expired, is closed.
RevokedSocketsClose ==
    \A t \in Token :
        t \in open /\ (t \notin DOMAIN sessions \/ sessions[t].expires <= now) ~> t \notin open

-----------------------------------------------------------------------------
(***************************************************************************)
(* The inductive invariant behind the safety properties.                   *)
(***************************************************************************)
\* A user's row is locked by one transaction at a time, which has seen the
\* hash that stands until it ends.
RowInv ==
    /\ \A r \in Request : job[r].step \in Locking => job[r].seen = hash[job[r].user]
    /\ \A r, s \in Request :
        job[r].step \in Locking /\ job[s].step \in Locking /\ job[r].user = job[s].user => r = s

\* A change about to commit takes every session of its user with it, and no
\* other.
DoomedInv ==
    \A r \in Request : job[r].step = "change_commit" =>
        /\ job[r].doomed \subseteq used
        /\ \A s \in Request : job[s].step = "login_commit" => job[s].token \notin job[r].doomed
        /\ job[r].doomed \cap DOMAIN sessions = SessionsOf(job[r].user)

\* A token about to be committed is nobody else's.
TokenInv ==
    /\ DOMAIN sessions \subseteq used
    /\ \A r \in Request : job[r].step = "login_commit" =>
        /\ job[r].token \in used \ DOMAIN sessions
        /\ \A s \in Request : job[s].step = "login_commit" /\ job[s].token = job[r].token => s = r

\* What the limiter has forgotten is outside every window that is still open.
LimiterInv ==
    /\ \A a \in started : a.at <= now /\ a.no < Cardinality(started)
    /\ \A a \in started : now - a.at < Window => a \in attempts
    /\ LimiterHolds

IInv ==
    /\ TypeOK
    /\ RowInv
    /\ DoomedInv
    /\ TokenInv
    /\ LimiterInv
    /\ SessionsOfCurrentPassword
=============================================================================
