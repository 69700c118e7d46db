------------------------------ MODULE MCOutbox ------------------------------
(* A small instance of Outbox for TLC: one event of a retried, deferrable    *)
(* topic and two dispatchers.                                                *)
EXTENDS Outbox

MCEvent == {1}
=============================================================================
