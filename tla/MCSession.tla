------------------------------ MODULE MCSession ------------------------------
(***************************************************************************)
(* Instance of Session for TLC.                                            *)
(***************************************************************************)
EXTENDS SessionProps
=============================================================================
