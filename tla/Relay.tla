------------------------------- MODULE Relay -------------------------------
(***************************************************************************)
(* What the transactional outbox promises its writers: an event recorded   *)
(* with a business transaction is owed until its consumer has handled it,  *)
(* at least once.  Only an event of a topic that nobody retries may be     *)
(* given up, after its consumer failed.                                    *)
(***************************************************************************)
CONSTANTS
    Event,          \* outbox events
    Retried         \* the events of topics whose failed deliveries are retried

VARIABLE relay      \* relay[e]: what is still owed to event e

Init == relay = [e \in Event |-> "absent"]

Record(e) == relay[e] = "absent" /\ relay' = [relay EXCEPT ![e] = "owed"]

Handle(e) == relay[e] \in {"owed", "abandoned"} /\ relay' = [relay EXCEPT ![e] = "handled"]

Abandon(e) ==
    /\ relay[e] = "owed" /\ e \notin Retried
    /\ relay' = [relay EXCEPT ![e] = "abandoned"]

Next == \E e \in Event : Record(e) \/ Handle(e) \/ Abandon(e)

Spec == Init /\ [][Next]_relay
=============================================================================
