---------------------------- MODULE Idempotency ----------------------------
(***************************************************************************)
(* The idempotency keys around createReservation: one caller may send the  *)
(* same request several times, concurrently or later, and the server may   *)
(* crash at any point of one.  Each step is one statement of the           *)
(* database; the booking transaction itself (module Booking) is one step   *)
(* that commits or throws.                                                 *)
(*                                                                         *)
(* Every production caller builds the service without its optional cache,  *)
(* so lookups read the table.                                              *)
(***************************************************************************)
EXTENDS Naturals

CONSTANTS
    Client,         \* server processes handling a request each
    Key,            \* (scope, key) pairs
    Payload,        \* request payloads, by their hash
    HeldPayload,    \* the payloads that name a hold
    Ttl,            \* ttlSeconds of a record (24 h for every caller)
    RequestTime,    \* longest a request lives; the transaction's timeouts are 25 s
    MaxResvs,       \* bound on the reservations created
    MaxTime         \* bound on the clock

ASSUME IdempotencyAssumption ==
    /\ Key # {} /\ HeldPayload \subseteq Payload
    /\ RequestTime \in Nat /\ Ttl \in Nat /\ RequestTime < Ttl
    /\ MaxResvs \in Nat /\ MaxTime \in Nat

NoResv == 0
ResvId == 1..MaxResvs
Unknown == "unknown"    \* the payload hash markFailed gives a record it creates

VARIABLES
    clock,
    records,    \* idempotency_records, by key
    resvs,      \* the reservations committed, by number
    count,      \* how many there are
    proc        \* per client, the request it is handling

vars == <<clock, records, resvs, count, proc>>

RecordStatus == {"none", "pending", "completed", "failed"}
Pc == {"idle", "lookup", "hold", "reserve", "purge", "insert", "inspect", "repurge",
       "reinsert", "tx", "complete", "fail", "wait", "done", "error"}
NoRecord == [status |-> "none", payload |-> Unknown, resv |-> NoResv, expiresAt |-> 0]

Exists(k) == records[k].status # "none"
Expired(k) == records[k].expiresAt <= clock
HoldSpent(p) == p \in HeldPayload /\ \E r \in ResvId : r <= count /\ resvs[r].payload = p

\* Mutant: does not compare the payload's hash.
LookupAnyPayload(k, p) ==
    IF ~Exists(k) \/ Expired(k) \/ records[k].resv = NoResv THEN "miss" ELSE "hit"

lookup(k, p) ==
    IF ~Exists(k) \/ Expired(k) THEN "miss"
    ELSE IF records[k].payload # p THEN "conflict"
    ELSE IF records[k].resv = NoResv THEN "miss" ELSE "hit"

Goto(c, pc) == proc' = [proc EXCEPT ![c].pc = pc]

\* Only the process moves.
Step(c, from, to) ==
    /\ proc[c].pc = from
    /\ Goto(c, to)
    /\ UNCHANGED <<clock, records, resvs, count>>

(***************************************************************************)
(* createReservation, up to the transaction                                *)
(***************************************************************************)
Start(c, k, p) ==
    /\ proc[c].pc \in {"idle", "done", "error"}
    /\ proc' = [proc EXCEPT ![c] =
                  [pc |-> IF p \in HeldPayload THEN "lookup" ELSE "reserve", key |-> k,
                   payload |-> p, start |-> clock, expiresAt |-> 0, resv |-> NoResv]]
    /\ UNCHANGED <<clock, records, resvs, count>>

AfterLookup(c, miss) ==
    CASE lookup(proc[c].key, proc[c].payload) = "hit"      -> "wait"
      [] lookup(proc[c].key, proc[c].payload) = "conflict" -> "error"
      [] OTHER -> miss

\* A replay that names a hold is answered before its hold is validated.
LookupReplay(c) == Step(c, "lookup", AfterLookup(c, "hold"))

ValidateHold(c) ==
    Step(c, "hold", IF HoldSpent(proc[c].payload) THEN "error" ELSE "reserve")

\* reserve: the lookup; on a miss the expiry of the new record is computed.
ReserveLookup(c) ==
    /\ proc[c].pc = "reserve"
    /\ proc' = [proc EXCEPT ![c].pc = AfterLookup(c, "purge"), ![c].expiresAt = clock + Ttl]
    /\ UNCHANGED <<clock, records, resvs, count>>

PurgeExpired(c, from, to) ==
    /\ proc[c].pc = from
    /\ records' = [k \in Key |-> IF records[k].expiresAt < clock THEN NoRecord ELSE records[k]]
    /\ Goto(c, to)
    /\ UNCHANGED <<clock, resvs, count>>

\* insertPending: the unique key (scope, key) refuses a second record.
InsertPending(c, from, refused) ==
    LET q == proc[c]
    IN  /\ q.pc = from
        /\ IF Exists(q.key)
           THEN records' = records /\ Goto(c, refused)
           ELSE /\ records' = [records EXCEPT ![q.key] =
                        [status |-> "pending", payload |-> q.payload, resv |-> NoResv,
                         expiresAt |-> q.expiresAt]]
                /\ Goto(c, "tx")
        /\ UNCHANGED <<clock, resvs, count>>

\* Mutant: a pending record of the same payload is taken over.
InspectTakesOver(c) ==
    LET r == records[proc[c].key]
    IN  Step(c, "inspect",
             IF ~Exists(proc[c].key) \/ Expired(proc[c].key) THEN "repurge"
             ELSE IF r.payload # proc[c].payload \/ r.status = "failed" THEN "error"
             ELSE "tx")

\* The record that refused the insertion.
Inspect(c) ==
    LET r == records[proc[c].key]
    IN  Step(c, "inspect",
             IF ~Exists(proc[c].key) \/ Expired(proc[c].key) THEN "repurge"
             ELSE IF r.payload # proc[c].payload \/ r.status = "failed" THEN "error"
             ELSE "wait")

(***************************************************************************)
(* The transaction and what follows it                                     *)
(***************************************************************************)
\* The transaction commits; its acknowledgement may be lost, and the client
\* library then throws.
Commit(c, acknowledged) ==
    LET q == proc[c]
    IN  /\ q.pc = "tx" /\ count < MaxResvs
        /\ ~HoldSpent(q.payload)
        /\ count' = count + 1
        /\ resvs' = [resvs EXCEPT ![count + 1] =
                        [key |-> q.key, payload |-> q.payload, at |-> clock,
                         expiresAt |-> q.expiresAt]]
        /\ proc' = [proc EXCEPT ![c].pc = IF acknowledged THEN "complete" ELSE "fail",
                                ![c].resv = count + 1]
        /\ UNCHANGED <<clock, records>>

\* The transaction throws: no capacity, a timeout, a hold spent by another key.
Throw(c) == Step(c, "tx", "fail")

\* markCompleted updates by key, and throws if there is no record.
Complete(c) ==
    LET q == proc[c]
    IN  /\ q.pc = "complete"
        /\ records' = IF Exists(q.key)
                      THEN [records EXCEPT ![q.key].status = "completed", ![q.key].resv = q.resv]
                      ELSE records
        /\ Goto(c, IF Exists(q.key) THEN "done" ELSE "error")
        /\ UNCHANGED <<clock, resvs, count>>

\* markFailed updates by key, or creates a failed record.
Fail(c) ==
    LET k == proc[c].key
    IN  /\ proc[c].pc = "fail"
        /\ records' = IF Exists(k) THEN [records EXCEPT ![k].status = "failed"]
                      ELSE [records EXCEPT ![k] = [status |-> "failed", payload |-> Unknown,
                                                   resv |-> NoResv, expiresAt |-> clock + Ttl]]
        /\ Goto(c, "error")
        /\ UNCHANGED <<clock, resvs, count>>

\* waitForCompletedIdempotency: one poll.
Poll(c) ==
    LET q == proc[c]
        found == lookup(q.key, q.payload)
    IN  /\ q.pc = "wait" /\ found # "miss"
        /\ proc' = [proc EXCEPT
                      ![c].pc = IF found = "hit" THEN "done" ELSE "error",
                      ![c].resv = IF found = "hit" THEN records[q.key].resv ELSE NoResv]
        /\ UNCHANGED <<clock, records, resvs, count>>

\* It gives up after IDEMPOTENCY_MAX_WAIT_ATTEMPTS polls: "request in progress".
GiveUp(c) == lookup(proc[c].key, proc[c].payload) = "miss" /\ Step(c, "wait", "error")

\* The process dies, and takes its next request after a restart.
Crash(c) ==
    /\ proc[c].pc \notin {"idle", "done", "error"}
    /\ Goto(c, "idle")
    /\ UNCHANGED <<clock, records, resvs, count>>

(***************************************************************************)
(* Specification                                                           *)
(***************************************************************************)
InFlight(c) == proc[c].pc \notin {"idle", "done", "error"}

Tick ==
    /\ clock < MaxTime
    /\ \A c \in Client : InFlight(c) => clock < proc[c].start + RequestTime
    /\ clock' = clock + 1
    /\ UNCHANGED <<records, resvs, count, proc>>

Init ==
    /\ clock = 0
    /\ records = [k \in Key |-> NoRecord]
    /\ resvs = [r \in ResvId |-> [key |-> CHOOSE k \in Key : TRUE, payload |-> Unknown,
                                  at |-> 0, expiresAt |-> 0]]
    /\ count = 0
    /\ proc = [c \in Client |-> [pc |-> "idle", key |-> CHOOSE k \in Key : TRUE,
                                 payload |-> Unknown, start |-> 0, expiresAt |-> 0,
                                 resv |-> NoResv]]

Request(c) ==
    \/ \E k \in Key, p \in Payload : Start(c, k, p)
    \/ LookupReplay(c)
    \/ ValidateHold(c)
    \/ ReserveLookup(c)
    \/ PurgeExpired(c, "purge", "insert")
    \/ InsertPending(c, "insert", "inspect")
    \/ Inspect(c)
    \/ PurgeExpired(c, "repurge", "reinsert")
    \/ InsertPending(c, "reinsert", "error")
    \/ \E acknowledged \in BOOLEAN : Commit(c, acknowledged)
    \/ Throw(c)
    \/ Complete(c)
    \/ Fail(c)
    \/ Poll(c)
    \/ GiveUp(c)
    \/ Crash(c)

Next == Tick \/ \E c \in Client : Request(c)

Spec == Init /\ [][Next]_vars

(***************************************************************************)
(* Properties                                                              *)
(***************************************************************************)
Record == [status : RecordStatus, payload : Payload \cup {Unknown},
           resv : ResvId \cup {NoResv}, expiresAt : Nat]
Reservation == [key : Key, payload : Payload \cup {Unknown}, at : Nat, expiresAt : Nat]
Process == [pc : Pc, key : Key, payload : Payload \cup {Unknown}, start : Nat,
            expiresAt : Nat, resv : ResvId \cup {NoResv}]

TypeOK ==
    /\ clock \in 0..MaxTime
    /\ records \in [Key -> Record]
    /\ resvs \in [ResvId -> Reservation]
    /\ count \in 0..MaxResvs
    /\ proc \in [Client -> Process]

\* A key books once while its record lives: of two reservations made under one
\* key, the second is made when the record of the first has expired, whatever
\* retries, lost acknowledgements and crashes came between.
OncePerKey ==
    \A i, j \in ResvId :
        i < j /\ j <= count /\ resvs[i].key = resvs[j].key => resvs[j].at >= resvs[i].expiresAt

\* A success answers the question that was asked: the reservation returned was
\* made under the caller's key for the caller's payload.
AnswerMatches ==
    \A c \in Client :
        proc[c].pc = "done" =>
            /\ proc[c].resv # NoResv /\ proc[c].resv <= count
            /\ resvs[proc[c].resv].key = proc[c].key
            /\ resvs[proc[c].resv].payload = proc[c].payload

=============================================================================
