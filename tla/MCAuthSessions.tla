---------------------------- MODULE MCAuthSessions ----------------------------
(***************************************************************************)
(* Instances of AuthSessions for TLC.                                      *)
(***************************************************************************)
EXTENDS AuthSessions, TLC

\* Requests are interchangeable, and so are tokens and passwords.
Symmetry == Permutations(Request) \cup Permutations(Token) \cup Permutations(Password)
=============================================================================
