------------------------------ MODULE MCOutbox ------------------------------
(* The outbox on a small instance.                                         *)
EXTENDS Outbox, TLC

=============================================================================
