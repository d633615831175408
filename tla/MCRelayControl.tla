---------------------------- MODULE MCRelayControl ----------------------------
(***************************************************************************)
(* Instances of RelayControl for TLC.                                      *)
(***************************************************************************)
EXTENDS RelayControl

\* Requests are interchangeable, and so are destination ids.
Symmetry == Permutations(Client) \cup Permutations(Dest)
=============================================================================
