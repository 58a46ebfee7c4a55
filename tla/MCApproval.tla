----------------------------- MODULE MCApproval -----------------------------
(***************************************************************************)
(* Instances of Approval for TLC.  Every engine has one handler thread,    *)
(* which goes by the engine's name.                                        *)
(***************************************************************************)
EXTENDS ApprovalProps

OneThreadEach == [h \in Handlers |-> h]

=============================================================================
