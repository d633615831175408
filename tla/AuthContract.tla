----------------------------- MODULE AuthContract -----------------------------
(***************************************************************************)
(* What sign-in promises, without transactions, row locks or request       *)
(* handlers: a session comes into being at one instant, for the password   *)
(* the user has at that instant, and a password change replaces the        *)
(* password and ends every session of its user at one instant.             *)
(***************************************************************************)
EXTENDS Naturals, Functions

CONSTANTS User, Token

VARIABLES
    password,  \* the password of each user
    live       \* the sessions: whose each one is, and by which password

vars == <<password, live>>

Init == live = <<>>

Login ==
    /\ \E t \in Token \ DOMAIN live, u \in User :
            live' = [s \in DOMAIN live \cup {t} |->
                        IF s = t THEN [user |-> u, by |-> password[u]] ELSE live[s]]
    /\ UNCHANGED password

\* Signed out, or expired and swept.
End ==
    /\ \E kept \in SUBSET DOMAIN live : live' = Restrict(live, kept)
    /\ UNCHANGED password

Change ==
    \E u \in User :
        /\ \A v \in User \ {u} : password'[v] = password[v]
        /\ live' = Restrict(live, {t \in DOMAIN live : live[t].user # u})

Next == Login \/ End \/ Change

Spec == Init /\ [][Next]_vars
=============================================================================
