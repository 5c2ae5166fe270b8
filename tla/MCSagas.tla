------------------------------- MODULE MCSagas -------------------------------
(* Instances of Sagas for TLC. *)
EXTENDS Sagas
=============================================================================
