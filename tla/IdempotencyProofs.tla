------------------------- MODULE IdempotencyProofs -------------------------
(***************************************************************************)
(* Proofs about Idempotency, for every set of processes, keys and          *)
(* payloads, every lifetime of a record that is longer than a request's,   *)
(* and every value of the bounds.                                          *)
(***************************************************************************)
EXTENDS Idempotency, TLAPS

(***************************************************************************)
(* Type correctness                                                        *)
(***************************************************************************)
LEMMA InitType == Init => TypeOK
<1>1. (CHOOSE k \in Key : TRUE) \in Key
  BY IdempotencyAssumption
<1> QED
  BY <1>1, IdempotencyAssumption
     DEF Init, TypeOK, NoRecord, RecordStatus, Pc, NoResv, ResvId, Record, Reservation, Process

\* A process moves, and whatever else it wrote is well formed.
LEMMA ProcessType ==
    ASSUME TypeOK, NEW c \in Client, NEW q \in Process, proc' = [proc EXCEPT ![c] = q],
           UNCHANGED clock, count' \in 0..MaxResvs,
           records' \in [Key -> Record], resvs' \in [ResvId -> Reservation]
    PROVE  TypeOK'
BY DEF TypeOK

LEMMA GotoType ==
    ASSUME TypeOK, NEW c \in Client, NEW pc \in Pc
    PROVE  [proc[c] EXCEPT !.pc = pc] \in Process
BY DEF TypeOK, Process

LEMMA StepType ==
    ASSUME TypeOK, NEW c \in Client, NEW from, NEW to \in Pc, Step(c, from, to)
    PROVE  TypeOK'
<1>1. records \in [Key -> Record] /\ resvs \in [ResvId -> Reservation] /\ count \in 0..MaxResvs
  BY DEF TypeOK
<1> QED
  BY <1>1, GotoType, ProcessType DEF Step, Goto

LEMMA AfterLookupType ==
    ASSUME NEW c \in Client, NEW miss \in Pc
    PROVE  AfterLookup(c, miss) \in Pc
BY DEF AfterLookup, Pc

LEMMA RequestType ==
    ASSUME TypeOK, NEW c \in Client, Request(c)
    PROVE  TypeOK'
<1>0. /\ records \in [Key -> Record] /\ resvs \in [ResvId -> Reservation]
      /\ count \in 0..MaxResvs /\ count \in Nat /\ clock \in Nat /\ proc[c] \in Process
  BY IdempotencyAssumption DEF TypeOK
<1>1. ASSUME NEW k \in Key, NEW p \in Payload, Start(c, k, p)
      PROVE  TypeOK'
  <2> DEFINE q == [pc |-> IF p \in HeldPayload THEN "lookup" ELSE "reserve", key |-> k,
                   payload |-> p, start |-> clock, expiresAt |-> 0, resv |-> NoResv]
  <2>1. q \in Process
    BY <1>0 DEF Process, Pc
  <2>2. proc' = [proc EXCEPT ![c] = q] /\ UNCHANGED <<clock, records, resvs, count>>
    BY <1>1 DEF Start
  <2> HIDE DEF q
  <2> QED
    BY <1>0, <2>1, <2>2, ProcessType
<1>2. CASE LookupReplay(c)
  BY <1>2, StepType, AfterLookupType DEF LookupReplay, Pc
<1>3. CASE ValidateHold(c)
  BY <1>3, StepType DEF ValidateHold, Pc
<1>4. CASE ReserveLookup(c)
  <2> DEFINE pc == AfterLookup(c, "purge")
             q == [proc[c] EXCEPT !.pc = pc, !.expiresAt = clock + Ttl]
  <2>1. pc \in Pc /\ clock + Ttl \in Nat
    BY <1>0, AfterLookupType, IdempotencyAssumption DEF Pc
  <2>2. proc' = [proc EXCEPT ![c] = q] /\ UNCHANGED <<clock, records, resvs, count>>
    BY <1>4 DEF ReserveLookup
  <2> HIDE DEF pc
  <2>3. q \in Process
    BY <1>0, <2>1 DEF Process
  <2> HIDE DEF q
  <2> QED
    BY <1>0, <2>2, <2>3, ProcessType
<1>5. ASSUME NEW from, NEW to \in Pc, PurgeExpired(c, from, to)
      PROVE  TypeOK'
  <2>1. records' \in [Key -> Record]
    <3>1. NoRecord \in Record
      BY DEF NoRecord, Record, RecordStatus
    <3> QED
      BY <1>0, <1>5, <3>1 DEF PurgeExpired
  <2> QED
    BY <1>0, <1>5, <2>1, GotoType, ProcessType DEF PurgeExpired, Goto
<1>6. ASSUME NEW from, NEW refused \in Pc, InsertPending(c, from, refused)
      PROVE  TypeOK'
  <2> DEFINE r == [status |-> "pending", payload |-> proc[c].payload, resv |-> NoResv,
                   expiresAt |-> proc[c].expiresAt]
  <2>1. r \in Record /\ proc[c].key \in Key
    BY <1>0 DEF Record, Process, RecordStatus
  <2>2. records' \in [Key -> Record]
    BY <1>0, <1>6, <2>1 DEF InsertPending
  <2>3. \E pc \in Pc : Goto(c, pc)
    BY <1>6 DEF InsertPending, Pc
  <2> QED
    BY <1>0, <1>6, <2>2, <2>3, GotoType, ProcessType DEF InsertPending, Goto
<1>7. CASE Inspect(c)
  BY <1>7, StepType DEF Inspect, Pc
<1>8. ASSUME NEW acknowledged \in BOOLEAN, Commit(c, acknowledged)
      PROVE  TypeOK'
  <2> DEFINE pc == IF acknowledged THEN "complete" ELSE "fail"
             q == [proc[c] EXCEPT !.pc = pc, !.resv = count + 1]
             b == [key |-> proc[c].key, payload |-> proc[c].payload, at |-> clock,
                   expiresAt |-> proc[c].expiresAt]
  <2>1. count + 1 \in ResvId /\ count + 1 \in 0..MaxResvs
    BY <1>0, <1>8, IdempotencyAssumption DEF Commit, ResvId
  <2>2. q \in Process
    BY <1>0, <2>1 DEF Process, Pc
  <2>3. b \in Reservation
    BY <1>0 DEF Process, Reservation
  <2>4. /\ proc' = [proc EXCEPT ![c] = q] /\ UNCHANGED <<clock, records>>
        /\ count' = count + 1 /\ resvs' = [resvs EXCEPT ![count + 1] = b]
    BY <1>8 DEF Commit
  <2> HIDE DEF q, b
  <2> QED
    BY <1>0, <2>1, <2>2, <2>3, <2>4, ProcessType
<1>9. CASE Throw(c)
  BY <1>9, StepType DEF Throw, Pc
<1>10. CASE Complete(c)
  <2> DEFINE k == proc[c].key
             r == [records[k] EXCEPT !.status = "completed", !.resv = proc[c].resv]
  <2>1. r \in Record /\ k \in Key
    BY <1>0 DEF Record, Process, RecordStatus
  <2>2. records' \in [Key -> Record]
    <3>1. records' = IF Exists(k) THEN [records EXCEPT ![k] = r] ELSE records
      BY <1>10 DEF Complete
    <3> HIDE DEF r
    <3> QED
      BY <1>0, <2>1, <3>1
  <2>3. \E pc \in Pc : Goto(c, pc)
    BY <1>10 DEF Complete, Pc
  <2> QED
    BY <1>0, <1>10, <2>2, <2>3, GotoType, ProcessType DEF Complete, Goto
<1>11. CASE Fail(c)
  <2> DEFINE k == proc[c].key
             r == [status |-> "failed", payload |-> Unknown, resv |-> NoResv,
                   expiresAt |-> clock + Ttl]
             s == [records[k] EXCEPT !.status = "failed"]
  <2>1. r \in Record /\ s \in Record /\ k \in Key
    BY <1>0, IdempotencyAssumption DEF Record, Process, RecordStatus
  <2>2. records' \in [Key -> Record]
    <3>1. records' = IF Exists(k) THEN [records EXCEPT ![k] = s] ELSE [records EXCEPT ![k] = r]
      BY <1>11 DEF Fail
    <3> HIDE DEF r, s
    <3> QED
      BY <1>0, <2>1, <3>1
  <2>3. "error" \in Pc
    BY DEF Pc
  <2> QED
    BY <1>0, <1>11, <2>2, <2>3, GotoType, ProcessType DEF Fail, Goto
<1>12. CASE Poll(c)
  <2> DEFINE k == proc[c].key
             pc == IF lookup(k, proc[c].payload) = "hit" THEN "done" ELSE "error"
             b == IF lookup(k, proc[c].payload) = "hit" THEN records[k].resv ELSE NoResv
             q == [proc[c] EXCEPT !.pc = pc, !.resv = b]
  <2>1. pc \in Pc /\ b \in ResvId \cup {NoResv}
    BY <1>0 DEF Pc, Process, Record
  <2>2. proc' = [proc EXCEPT ![c] = q] /\ UNCHANGED <<clock, records, resvs, count>>
    BY <1>12 DEF Poll
  <2> HIDE DEF pc, b
  <2>3. q \in Process
    BY <1>0, <2>1 DEF Process
  <2> HIDE DEF q
  <2> QED
    BY <1>0, <2>2, <2>3, ProcessType
<1>13. CASE GiveUp(c)
  BY <1>13, StepType DEF GiveUp, Pc
<1>14. CASE Crash(c)
  <2>1. "idle" \in Pc
    BY DEF Pc
  <2> QED
    BY <1>0, <1>14, <2>1, GotoType, ProcessType DEF Crash, Goto
<1>15. "insert" \in Pc /\ "inspect" \in Pc /\ "reinsert" \in Pc /\ "error" \in Pc
  BY DEF Pc
<1> QED
  BY <1>1, <1>2, <1>3, <1>4, <1>5, <1>6, <1>7, <1>8, <1>9, <1>10, <1>11, <1>12, <1>13, <1>14,
     <1>15 DEF Request

LEMMA NextType == TypeOK /\ [Next]_vars => TypeOK'
<1> SUFFICES ASSUME TypeOK, [Next]_vars PROVE TypeOK'
  OBVIOUS
<1>1. CASE UNCHANGED vars
  BY <1>1 DEF vars, TypeOK
<1>2. CASE Tick
  BY <1>2, IdempotencyAssumption DEF Tick, TypeOK
<1> QED
  BY <1>1, <1>2, RequestType DEF Next

\* Every record and every request is well formed.
THEOREM TypeCorrect == Spec => []TypeOK
BY InitType, NextType, PTL DEF Spec

(***************************************************************************)
(* The inductive invariant                                                 *)
(***************************************************************************)
\* A request ends before a record it might have inserted does.
Reserving == {"purge", "insert", "inspect", "repurge", "reinsert", "tx", "complete", "fail"}
RequestsYoung ==
    \A c \in Client :
        /\ InFlight(c) => proc[c].start <= clock /\ clock <= proc[c].start + RequestTime
        /\ proc[c].pc \in Reserving => proc[c].start + Ttl <= proc[c].expiresAt

\* From its insertion to the end of the request, the pending record belongs to
\* the process that inserted it, and to no other.
Owning == {"tx", "complete", "fail"}
OwnRecord(c) ==
    LET r == records[proc[c].key]
    IN  r.status = "pending" /\ r.payload = proc[c].payload /\ r.expiresAt = proc[c].expiresAt
RecordsOwned ==
    /\ \A c \in Client : proc[c].pc \in Owning => OwnRecord(c)
    /\ \A c, d \in Client :
          proc[c].pc \in Owning /\ proc[d].pc \in Owning /\ proc[c].key = proc[d].key => c = d

\* While the record under which a reservation was made lives, nobody is about
\* to make another one.
KeyTaken(k, expiresAt) ==
    \/ expiresAt <= clock
    \/ /\ Exists(k) /\ records[k].expiresAt = expiresAt
       /\ \A c \in Client : proc[c].key = k => proc[c].pc # "tx"
KeysTaken == \A r \in ResvId : r <= count => KeyTaken(resvs[r].key, resvs[r].expiresAt)

\* A record, a process about to complete it and an answer name a reservation
\* made for their key and payload.
Names(resv, k, p) ==
    resv # NoResv /\ resv <= count /\ resvs[resv].key = k /\ resvs[resv].payload = p
NamesTruthful ==
    /\ \A k \in Key : records[k].resv # NoResv => Names(records[k].resv, k, records[k].payload)
    /\ \A c \in Client :
          proc[c].pc \in {"complete", "done"} => Names(proc[c].resv, proc[c].key, proc[c].payload)

Safe == RequestsYoung /\ RecordsOwned /\ KeysTaken /\ NamesTruthful /\ OncePerKey
IInv == TypeOK /\ Safe

LEMMA InitIInv == Init => IInv
BY InitType, IdempotencyAssumption
   DEF Init, IInv, Safe, RequestsYoung, RecordsOwned, KeysTaken, NamesTruthful, OncePerKey,
       InFlight, Reserving, Owning, NoRecord, NoResv, ResvId

(***************************************************************************)
(* A step that only moves one process: nothing else is written, and the    *)
(* process does not come to own a record or to have an answer by it.       *)
(***************************************************************************)
LEMMA QuietStep ==
    ASSUME IInv, NEW c \in Client, NEW q \in Process, proc' = [proc EXCEPT ![c] = q],
           UNCHANGED <<clock, records, resvs, count>>,
           q.pc \notin {"idle", "done", "error"} =>
               q.start <= clock /\ clock <= q.start + RequestTime,
           q.pc \in Reserving => q.start + Ttl <= q.expiresAt,
           q.pc \in Owning => /\ proc[c].pc \in Owning
                              /\ q.pc = "tx" => proc[c].pc = "tx"
                              /\ q.key = proc[c].key /\ q.payload = proc[c].payload
                              /\ q.expiresAt = proc[c].expiresAt,
           q.pc \in {"complete", "done"} => Names(q.resv, q.key, q.payload)
    PROVE  Safe'
<1>1. \A d \in Client : proc'[d] = IF d = c THEN q ELSE proc[d]
  BY DEF IInv, TypeOK
<1>2. RequestsYoung'
  BY <1>1 DEF IInv, Safe, RequestsYoung, InFlight
<1>3. RecordsOwned'
  BY <1>1 DEF IInv, Safe, RecordsOwned, OwnRecord
<1>4. KeysTaken'
  BY <1>1 DEF IInv, Safe, KeysTaken, KeyTaken, Exists, Owning
<1>5. NamesTruthful'
  BY <1>1 DEF IInv, Safe, NamesTruthful, Names
<1>6. OncePerKey'
  BY DEF IInv, Safe, OncePerKey
<1> QED
  BY <1>2, <1>3, <1>4, <1>5, <1>6 DEF Safe

\* The same, for a step that only changes where the process is.
LEMMA MoveStep ==
    ASSUME IInv, NEW c \in Client, NEW to \in Pc, Goto(c, to),
           UNCHANGED <<clock, records, resvs, count>>,
           to \notin {"idle", "done", "error"} => InFlight(c),
           to \in Reserving => proc[c].pc \in Reserving,
           to \in Owning => proc[c].pc \in Owning,
           to \notin {"tx", "complete", "done"}
    PROVE  Safe'
<1> DEFINE q == [proc[c] EXCEPT !.pc = to]
<1>1. /\ q \in Process /\ q.pc = to /\ q.key = proc[c].key /\ q.payload = proc[c].payload
      /\ q.start = proc[c].start /\ q.expiresAt = proc[c].expiresAt
  BY GotoType DEF IInv, TypeOK, Process
<1>2. proc' = [proc EXCEPT ![c] = q]
  BY DEF Goto
<1>3. RequestsYoung
  BY DEF IInv, Safe
<1> HIDE DEF q
<1> QED
  BY <1>1, <1>2, <1>3, QuietStep DEF RequestsYoung

\* A record that a process owns has not expired.
LEMMA OwnedAlive ==
    ASSUME IInv, NEW c \in Client, proc[c].pc \in Owning
    PROVE  clock < proc[c].expiresAt
<1>1. proc[c].start <= clock /\ clock <= proc[c].start + RequestTime
      /\ proc[c].start + Ttl <= proc[c].expiresAt
  BY DEF IInv, Safe, RequestsYoung, InFlight, Owning, Reserving
<1> QED
  BY <1>1, IdempotencyAssumption DEF IInv, TypeOK, Process

\* The lookup answers only what was asked.
LEMMA LookupHit ==
    ASSUME IInv, NEW k \in Key, NEW p, lookup(k, p) = "hit"
    PROVE  Names(records[k].resv, k, p)
BY DEF lookup, IInv, Safe, NamesTruthful

(***************************************************************************)
(* The steps before the transaction                                        *)
(***************************************************************************)
LEMMA PurgeStep ==
    ASSUME IInv, NEW c \in Client, NEW from \in Reserving \ Owning, NEW to \in Reserving \ Owning,
           PurgeExpired(c, from, to)
    PROVE  Safe'
<1>1. /\ proc[c].pc = from /\ UNCHANGED <<clock, resvs, count>>
      /\ \A k \in Key : records'[k] = IF records[k].expiresAt < clock THEN NoRecord ELSE records[k]
      /\ \A d \in Client : proc'[d] = IF d = c THEN [proc[c] EXCEPT !.pc = to] ELSE proc[d]
  BY DEF PurgeExpired, Goto, IInv, TypeOK
<1>2. proc[c] \in Process /\ clock \in Nat
  BY IdempotencyAssumption DEF IInv, TypeOK
<1>3. /\ proc'[c].pc = to /\ proc'[c].key = proc[c].key /\ proc'[c].payload = proc[c].payload
      /\ proc'[c].start = proc[c].start /\ proc'[c].expiresAt = proc[c].expiresAt
  BY <1>1, <1>2 DEF Process
<1>4. RequestsYoung'
  BY <1>1, <1>3 DEF IInv, Safe, RequestsYoung, InFlight, Reserving
<1>5. RecordsOwned'
  <2>1. ASSUME NEW d \in Client, proc'[d].pc \in Owning
        PROVE  OwnRecord(d)' /\ proc'[d] = proc[d]
    <3>1. d # c /\ proc'[d] = proc[d] /\ proc[d].key \in Key
      BY <1>1, <1>3, <2>1 DEF IInv, TypeOK, Process
    <3>2. clock < proc[d].expiresAt /\ OwnRecord(d)
      BY <2>1, <3>1, OwnedAlive DEF IInv, Safe, RecordsOwned
    <3>3. records'[proc[d].key] = records[proc[d].key]
      BY <1>1, <1>2, <3>1, <3>2 DEF OwnRecord, IInv, TypeOK, Process
    <3> QED
      BY <3>1, <3>2, <3>3 DEF OwnRecord
  <2> QED
    BY <2>1 DEF RecordsOwned, IInv, Safe
<1>6. KeysTaken'
  <2> SUFFICES ASSUME NEW r \in ResvId, r <= count PROVE KeyTaken(resvs[r].key, resvs[r].expiresAt)'
    BY <1>1 DEF KeysTaken
  <2> DEFINE k == resvs[r].key
  <2>1. k \in Key /\ KeyTaken(k, resvs[r].expiresAt) /\ resvs[r].expiresAt \in Nat
    BY DEF IInv, Safe, KeysTaken, TypeOK, Reservation
  <2>2. CASE resvs[r].expiresAt <= clock
    BY <1>1, <2>2 DEF KeyTaken
  <2>3. CASE ~(resvs[r].expiresAt <= clock)
    <3>1. records'[k] = records[k]
      BY <1>1, <1>2, <2>1, <2>3 DEF KeyTaken
    <3> QED
      BY <1>1, <1>3, <2>1, <2>3, <3>1 DEF KeyTaken, Exists, Owning
  <2> QED
    BY <2>2, <2>3
<1>7. NamesTruthful'
  <2>1. NoRecord.resv = NoResv
    BY DEF NoRecord
  <2> QED
    BY <1>1, <1>3, <2>1 DEF IInv, Safe, NamesTruthful, Names, Reserving, Owning
<1>8. OncePerKey'
  BY <1>1 DEF IInv, Safe, OncePerKey
<1> QED
  BY <1>4, <1>5, <1>6, <1>7, <1>8 DEF Safe

\* The insertion makes its process the owner: nobody else owned the key, as an
\* owned record exists.
LEMMA InsertStep ==
    ASSUME IInv, NEW c \in Client, NEW from \in Reserving \ Owning,
           InsertPending(c, from, "inspect") \/ InsertPending(c, from, "error")
    PROVE  Safe'
<1> DEFINE k == proc[c].key
<1>0. proc[c] \in Process /\ k \in Key /\ proc[c].pc = from /\ UNCHANGED <<clock, resvs, count>>
  BY DEF IInv, TypeOK, Process, InsertPending
<1>1. CASE Exists(k)
  <2>1. records' = records /\ (Goto(c, "inspect") \/ Goto(c, "error"))
    BY <1>1 DEF InsertPending
  <2>2. InFlight(c) /\ from \in Reserving
    BY <1>0 DEF InFlight, Reserving
  <2> QED
    BY <1>0, <2>1, <2>2, MoveStep DEF Pc, Owning
<1>2. CASE ~Exists(k)
  <2> DEFINE new == [status |-> "pending", payload |-> proc[c].payload, resv |-> NoResv,
                     expiresAt |-> proc[c].expiresAt]
  <2>1. records' = [records EXCEPT ![k] = new] /\ Goto(c, "tx")
    BY <1>2 DEF InsertPending
  <2>2. /\ \A d \in Client : proc'[d] = IF d = c THEN [proc[c] EXCEPT !.pc = "tx"] ELSE proc[d]
        /\ \A j \in Key : records'[j] = IF j = k THEN new ELSE records[j]
    BY <2>1 DEF Goto, IInv, TypeOK
  <2>3. /\ proc'[c].pc = "tx" /\ proc'[c].key = k /\ proc'[c].payload = proc[c].payload
        /\ proc'[c].start = proc[c].start /\ proc'[c].expiresAt = proc[c].expiresAt
    BY <1>0, <2>2 DEF Process
  <2>4. \A d \in Client : proc[d].pc \in Owning => proc[d].key # k
    BY <1>2 DEF IInv, Safe, RecordsOwned, OwnRecord, Exists
  <2>5. RequestsYoung'
    BY <1>0, <2>2, <2>3 DEF IInv, Safe, RequestsYoung, InFlight, Reserving
  <2>6. RecordsOwned'
    <3>1. ASSUME NEW d \in Client, proc'[d].pc \in Owning, d # c
          PROVE  OwnRecord(d)' /\ proc'[d].key # k
      <4>1. proc'[d] = proc[d] /\ proc[d].key # k /\ proc[d].key \in Key /\ OwnRecord(d)
        BY <2>2, <2>4, <3>1 DEF IInv, Safe, TypeOK, Process, RecordsOwned
      <4> QED
        BY <2>2, <4>1 DEF OwnRecord
    <3>2. OwnRecord(c)'
      BY <1>0, <2>2, <2>3 DEF OwnRecord
    <3>3. \A d, e \in Client :
              proc'[d].pc \in Owning /\ proc'[e].pc \in Owning /\ proc'[d].key = proc'[e].key => d = e
      BY <2>2, <2>3, <3>1 DEF IInv, Safe, RecordsOwned
    <3> QED
      BY <3>1, <3>2, <3>3 DEF RecordsOwned
  <2>7. KeysTaken'
    <3> SUFFICES ASSUME NEW r \in ResvId, r <= count
                 PROVE  KeyTaken(resvs[r].key, resvs[r].expiresAt)'
      BY <1>0 DEF KeysTaken
    <3>1. resvs[r].key \in Key /\ KeyTaken(resvs[r].key, resvs[r].expiresAt)
      BY DEF IInv, Safe, KeysTaken, TypeOK, Reservation
    <3>2. CASE resvs[r].key = k
      BY <1>0, <1>2, <3>1, <3>2 DEF KeyTaken
    <3>3. CASE resvs[r].key # k
      BY <1>0, <2>2, <2>3, <3>1, <3>3 DEF KeyTaken, Exists
    <3> QED
      BY <3>2, <3>3
  <2>8. NamesTruthful'
    <3>1. \A d \in Client : proc'[d].pc \in {"complete", "done"} => d # c /\ proc'[d] = proc[d]
      BY <2>2, <2>3
    <3>2. \A j \in Key : records'[j].resv # NoResv => records'[j] = records[j]
      BY <2>2
    <3> QED
      BY <1>0, <3>1, <3>2 DEF IInv, Safe, NamesTruthful, Names
  <2>9. OncePerKey'
    BY <1>0 DEF IInv, Safe, OncePerKey
  <2> QED
    BY <2>5, <2>6, <2>7, <2>8, <2>9 DEF Safe
<1> QED
  BY <1>1, <1>2

(***************************************************************************)
(* The transaction and what follows it                                     *)
(***************************************************************************)
\* The owner of the key commits: by KeysTaken, whatever was committed under the
\* key before it has expired.
LEMMA CommitStep ==
    ASSUME IInv, NEW c \in Client, NEW acknowledged \in BOOLEAN, Commit(c, acknowledged)
    PROVE  Safe'
<1> DEFINE n == count + 1
           k == proc[c].key
           b == [key |-> k, payload |-> proc[c].payload, at |-> clock,
                 expiresAt |-> proc[c].expiresAt]
           pc == IF acknowledged THEN "complete" ELSE "fail"
<1>1. /\ n \in ResvId /\ count \in Nat /\ clock \in Nat /\ ResvId \subseteq Nat
      /\ proc[c] \in Process /\ k \in Key
  BY IdempotencyAssumption DEF IInv, TypeOK, Commit, ResvId, Process
<1>2. /\ proc[c].pc = "tx" /\ UNCHANGED <<clock, records>> /\ count' = n
      /\ \A r \in ResvId : resvs'[r] = IF r = n THEN b ELSE resvs[r]
      /\ \A d \in Client : proc'[d] = IF d = c THEN [proc[c] EXCEPT !.pc = pc, !.resv = n]
                                      ELSE proc[d]
  BY <1>1 DEF Commit, IInv, TypeOK
<1>3. /\ proc'[c].pc = pc /\ proc'[c].resv = n /\ proc'[c].key = k
      /\ proc'[c].payload = proc[c].payload
      /\ proc'[c].start = proc[c].start /\ proc'[c].expiresAt = proc[c].expiresAt
  BY <1>1, <1>2 DEF Process
<1>4. \A r \in ResvId : r <= count' => r = n \/ r <= count
  <2>1. \A r \in Nat : r <= count + 1 => r = count + 1 \/ r <= count
    BY <1>1
  <2> QED
    BY <1>1, <1>2, <2>1
<1>5. \A r \in ResvId : r <= count => r # n /\ r <= count' /\ resvs'[r] = resvs[r]
  BY <1>1, <1>2
<1>6. RequestsYoung'
  BY <1>2, <1>3 DEF IInv, Safe, RequestsYoung, InFlight, Reserving
<1>7. RecordsOwned'
  BY <1>2, <1>3 DEF IInv, Safe, RecordsOwned, OwnRecord, Owning
<1>8. KeysTaken'
  <2>1. ASSUME NEW r \in ResvId, r = n
        PROVE  KeyTaken(resvs[r].key, resvs[r].expiresAt)'
    <3>1. OwnRecord(c) /\ \A d \in Client : d # c /\ proc[d].key = k => proc[d].pc # "tx"
      BY <1>2 DEF IInv, Safe, RecordsOwned, Owning
    <3>2. resvs'[r].key = k /\ resvs'[r].expiresAt = proc[c].expiresAt
      BY <1>2, <2>1
    <3> QED
      BY <1>2, <1>3, <3>1, <3>2 DEF KeyTaken, Exists, OwnRecord
  <2>2. ASSUME NEW r \in ResvId, r <= count
        PROVE  KeyTaken(resvs[r].key, resvs[r].expiresAt)'
    BY <1>2, <1>3, <1>5, <2>2 DEF IInv, Safe, KeysTaken, KeyTaken, Exists
  <2> QED
    BY <1>4, <2>1, <2>2 DEF KeysTaken
<1>9. NamesTruthful'
  <2>1. \A r, j, p : r \in ResvId /\ Names(r, j, p) => Names(r, j, p)'
    BY <1>5 DEF Names
  <2>2. Names(proc[c].resv, proc[c].key, proc[c].payload)'
    <3>1. proc'[c].resv = n /\ n # NoResv /\ n <= count' /\ resvs'[n] = b
      BY <1>1, <1>2, <1>3 DEF NoResv
    <3> QED
      BY <1>3, <3>1 DEF Names
  <2>3. \A j \in Key : records[j].resv \in ResvId \cup {NoResv}
    BY DEF IInv, TypeOK, Record
  <2>4. \A d \in Client : proc[d].resv \in ResvId \cup {NoResv}
    BY DEF IInv, TypeOK, Process
  <2>5. \A j, p : ~Names(NoResv, j, p)
    BY DEF Names
  <2>6. \A j \in Key : records'[j].resv # NoResv => Names(records[j].resv, j, records[j].payload)'
    BY <1>2, <2>1, <2>3 DEF IInv, Safe, NamesTruthful
  <2>7. \A d \in Client : proc'[d].pc \in {"complete", "done"} =>
            Names(proc[d].resv, proc[d].key, proc[d].payload)'
    <3>1. ASSUME NEW d \in Client, d # c, proc'[d].pc \in {"complete", "done"}
          PROVE  Names(proc[d].resv, proc[d].key, proc[d].payload)'
      <4>1. proc'[d] = proc[d] /\ Names(proc[d].resv, proc[d].key, proc[d].payload)
        BY <1>2, <3>1 DEF IInv, Safe, NamesTruthful
      <4> QED
        BY <1>2, <2>1, <2>4, <2>5, <4>1
    <3> QED
      BY <1>3, <2>2, <3>1
  <2> QED
    BY <2>6, <2>7 DEF NamesTruthful
<1>10. OncePerKey'
  <2> SUFFICES ASSUME NEW i \in ResvId, NEW j \in ResvId, i < j, j <= n,
                      resvs'[i].key = resvs'[j].key
               PROVE  resvs'[j].at >= resvs'[i].expiresAt
    BY <1>2 DEF OncePerKey
  <2>1. CASE j = n
    <3>1. i <= count /\ resvs'[i] = resvs[i] /\ resvs[i].key = k /\ resvs'[j].at = clock
      BY <1>1, <1>2, <2>1
    <3>2. KeyTaken(k, resvs[i].expiresAt) /\ resvs[i].expiresAt \in Nat
      BY <3>1 DEF IInv, Safe, KeysTaken, TypeOK, Reservation
    <3> QED
      BY <1>1, <1>2, <3>1, <3>2 DEF KeyTaken
  <2>2. CASE j # n
    <3>1. i <= count /\ j <= count
      BY <1>1, <2>2
    <3> QED
      BY <1>5, <3>1 DEF IInv, Safe, OncePerKey
  <2> QED
    BY <2>1, <2>2
<1> QED
  BY <1>6, <1>7, <1>8, <1>9, <1>10 DEF Safe

\* The owner settles its record and ends.
LEMMA SettleStep ==
    ASSUME IInv, NEW c \in Client, Complete(c) \/ Fail(c)
    PROVE  Safe'
<1> DEFINE k == proc[c].key
<1>1. proc[c] \in Process /\ k \in Key /\ UNCHANGED <<clock, resvs, count>>
      /\ proc[c].pc \in {"complete", "fail"}
  BY DEF IInv, TypeOK, Process, Complete, Fail
<1>2. OwnRecord(c) /\ Exists(k)
  BY <1>1 DEF IInv, Safe, RecordsOwned, OwnRecord, Exists, Owning
<1>3. PICK pc \in {"done", "error"}, new \in Record :
        /\ Goto(c, pc) /\ records' = [records EXCEPT ![k] = new]
        /\ new.status # "none" /\ new.payload = proc[c].payload
        /\ new.expiresAt = records[k].expiresAt
        /\ \/ new.resv = records[k].resv
           \/ new.resv = proc[c].resv /\ proc[c].pc = "complete"
        /\ pc = "done" => proc[c].pc = "complete"
  <2>1. records[k] \in Record /\ records[k].payload = proc[c].payload
    BY <1>1, <1>2 DEF IInv, TypeOK, OwnRecord
  <2>2. CASE Complete(c)
    <3> DEFINE new == [records[k] EXCEPT !.status = "completed", !.resv = proc[c].resv]
    <3>1. /\ new \in Record /\ new.status = "completed" /\ new.payload = proc[c].payload
          /\ new.resv = proc[c].resv /\ new.expiresAt = records[k].expiresAt
      BY <1>1, <2>1 DEF Record, Process, RecordStatus
    <3>2. proc[c].pc = "complete" /\ Goto(c, "done") /\ records' = [records EXCEPT ![k] = new]
      BY <1>2, <2>2 DEF Complete
    <3> HIDE DEF new
    <3> QED
      BY <3>1, <3>2
  <2>3. CASE Fail(c)
    <3> DEFINE new == [records[k] EXCEPT !.status = "failed"]
    <3>1. /\ new \in Record /\ new.status = "failed" /\ new.payload = proc[c].payload
          /\ new.resv = records[k].resv /\ new.expiresAt = records[k].expiresAt
      BY <1>1, <2>1 DEF Record, RecordStatus
    <3>2. Goto(c, "error") /\ records' = [records EXCEPT ![k] = new]
      BY <1>2, <2>3 DEF Fail
    <3> HIDE DEF new
    <3> QED
      BY <3>1, <3>2
  <2> QED
    BY <2>2, <2>3
<1>4. /\ \A d \in Client : proc'[d] = IF d = c THEN [proc[c] EXCEPT !.pc = pc] ELSE proc[d]
      /\ \A j \in Key : records'[j] = IF j = k THEN new ELSE records[j]
  BY <1>3 DEF Goto, IInv, TypeOK
<1>5. /\ proc'[c].pc = pc /\ proc'[c].resv = proc[c].resv /\ proc'[c].key = k
      /\ proc'[c].payload = proc[c].payload
  BY <1>1, <1>4 DEF Process
<1>6. RequestsYoung'
  BY <1>1, <1>4, <1>5 DEF IInv, Safe, RequestsYoung, InFlight, Reserving
<1>7. RecordsOwned'
  <2>1. ASSUME NEW d \in Client, proc'[d].pc \in Owning
        PROVE  OwnRecord(d)' /\ proc'[d] = proc[d]
    <3>1. d # c /\ proc'[d] = proc[d] /\ proc[d].key \in Key
      BY <1>4, <1>5, <2>1 DEF Owning, IInv, TypeOK, Process
    <3>2. OwnRecord(d) /\ proc[d].key # k
      BY <1>1, <2>1, <3>1 DEF IInv, Safe, RecordsOwned, Owning
    <3> QED
      BY <1>4, <3>1, <3>2 DEF OwnRecord
  <2> QED
    BY <2>1 DEF RecordsOwned, IInv, Safe
<1>8. KeysTaken'
  <2> SUFFICES ASSUME NEW r \in ResvId, r <= count
               PROVE  KeyTaken(resvs[r].key, resvs[r].expiresAt)'
    BY <1>1 DEF KeysTaken
  <2>1. resvs[r].key \in Key /\ KeyTaken(resvs[r].key, resvs[r].expiresAt)
    BY DEF IInv, Safe, KeysTaken, TypeOK, Reservation
  <2>2. \A j \in Key : Exists(j) => Exists(j)' /\ records'[j].expiresAt = records[j].expiresAt
    BY <1>3, <1>4 DEF Exists
  <2> QED
    BY <1>1, <1>3, <1>4, <1>5, <2>1, <2>2 DEF KeyTaken
<1>9. NamesTruthful'
  <2>1. \A r, j, p : Names(r, j, p) => Names(r, j, p)'
    BY <1>1 DEF Names
  <2>2. new.resv # NoResv => Names(new.resv, k, new.payload)
    BY <1>1, <1>2, <1>3 DEF IInv, Safe, NamesTruthful, OwnRecord
  <2>3. proc[c].pc = "complete" => Names(proc[c].resv, k, proc[c].payload)
    BY DEF IInv, Safe, NamesTruthful
  <2> QED
    BY <1>3, <1>4, <1>5, <2>1, <2>2, <2>3 DEF IInv, Safe, NamesTruthful
<1>10. OncePerKey'
  BY <1>1 DEF IInv, Safe, OncePerKey
<1> QED
  BY <1>6, <1>7, <1>8, <1>9, <1>10 DEF Safe

(***************************************************************************)
(* All steps                                                               *)
(***************************************************************************)
LEMMA RequestStep ==
    ASSUME IInv, NEW c \in Client, Request(c)
    PROVE  Safe'
<1>0. /\ proc[c] \in Process /\ proc[c].key \in Key /\ clock \in Nat
      /\ RequestsYoung
  BY IdempotencyAssumption DEF IInv, Safe, TypeOK, Process
<1>1. ASSUME NEW k \in Key, NEW p \in Payload, Start(c, k, p)
      PROVE  Safe'
  <2> DEFINE q == [pc |-> IF p \in HeldPayload THEN "lookup" ELSE "reserve", key |-> k,
                   payload |-> p, start |-> clock, expiresAt |-> 0, resv |-> NoResv]
  <2>1. /\ q \in Process /\ q.start = clock
        /\ q.pc \notin Reserving /\ q.pc \notin {"idle", "done", "error", "complete"}
    BY <1>0 DEF Process, Pc, Reserving
  <2>2. proc' = [proc EXCEPT ![c] = q] /\ UNCHANGED <<clock, records, resvs, count>>
    BY <1>1 DEF Start
  <2>3. clock <= clock /\ clock <= clock + RequestTime
    BY <1>0, IdempotencyAssumption
  <2> HIDE DEF q
  <2> QED
    BY <2>1, <2>2, <2>3, QuietStep DEF Owning, Reserving
<1>2. CASE LookupReplay(c)
  BY <1>2, MoveStep DEF LookupReplay, Step, AfterLookup, InFlight, Reserving, Owning, Pc
<1>3. CASE ValidateHold(c)
  <2>1. \A to \in {"error", "reserve"} : Step(c, "hold", to) => Safe'
    BY MoveStep DEF Step, InFlight, Reserving, Owning, Pc
  <2> QED
    BY <1>3, <2>1 DEF ValidateHold
<1>4. CASE ReserveLookup(c)
  <2> DEFINE pc == AfterLookup(c, "purge")
             q == [proc[c] EXCEPT !.pc = pc, !.expiresAt = clock + Ttl]
  <2>1. pc \in {"purge", "wait", "error"} /\ pc \in Pc
    BY DEF AfterLookup, Pc
  <2>2. proc' = [proc EXCEPT ![c] = q] /\ UNCHANGED <<clock, records, resvs, count>>
    BY <1>4 DEF ReserveLookup
  <2>3. /\ proc[c].start <= clock /\ clock <= proc[c].start + RequestTime
        /\ proc[c].start + Ttl <= clock + Ttl /\ clock + Ttl \in Nat
    BY <1>0, <1>4, IdempotencyAssumption
       DEF ReserveLookup, RequestsYoung, InFlight, Process
  <2> HIDE DEF pc
  <2>4. q \in Process /\ q.pc = pc /\ q.start = proc[c].start /\ q.expiresAt = clock + Ttl
    BY <1>0, <2>1, <2>3 DEF Process
  <2> HIDE DEF q
  <2> QED
    BY <2>1, <2>2, <2>3, <2>4, QuietStep DEF Owning
<1>5. CASE PurgeExpired(c, "purge", "insert") \/ PurgeExpired(c, "repurge", "reinsert")
  BY <1>5, PurgeStep DEF Reserving, Owning
<1>6. CASE InsertPending(c, "insert", "inspect") \/ InsertPending(c, "reinsert", "error")
  BY <1>6, InsertStep DEF Reserving, Owning
<1>7. CASE Inspect(c)
  <2>1. \A to \in {"repurge", "error", "wait"} : Step(c, "inspect", to) => Safe'
    BY MoveStep DEF Step, InFlight, Reserving, Owning, Pc
  <2> QED
    BY <1>7, <2>1 DEF Inspect
<1>8. CASE Throw(c)
  BY <1>8, MoveStep DEF Throw, Step, InFlight, Reserving, Owning, Pc
<1>9. CASE Poll(c)
  <2> DEFINE k == proc[c].key
             hit == lookup(k, proc[c].payload) = "hit"
             q == [proc[c] EXCEPT !.pc = IF hit THEN "done" ELSE "error",
                                  !.resv = IF hit THEN records[k].resv ELSE NoResv]
  <2>1. proc' = [proc EXCEPT ![c] = q] /\ UNCHANGED <<clock, records, resvs, count>>
    BY <1>9 DEF Poll
  <2>2. records[k].resv \in ResvId \cup {NoResv}
    BY <1>0 DEF IInv, TypeOK, Record
  <2>3. hit => Names(records[k].resv, k, proc[c].payload)
    BY <1>0, LookupHit
  <2> HIDE DEF hit
  <2>4. /\ q \in Process /\ q.pc \in {"done", "error"}
        /\ q.pc = "done" => hit
        /\ q.key = k /\ q.payload = proc[c].payload
        /\ hit => q.resv = records[k].resv
    BY <1>0, <2>2 DEF Process, Pc
  <2> HIDE DEF q
  <2> QED
    BY <2>1, <2>3, <2>4, QuietStep DEF Owning, Reserving
<1>10. CASE GiveUp(c)
  BY <1>10, MoveStep DEF GiveUp, Step, Reserving, Owning, Pc
<1>11. CASE Crash(c)
  BY <1>11, MoveStep DEF Crash, Reserving, Owning, Pc
<1> QED
  BY <1>1, <1>2, <1>3, <1>4, <1>5, <1>6, <1>7, <1>8, <1>9, <1>10, <1>11, CommitStep, SettleStep
     DEF Request

LEMMA TickStep ==
    ASSUME IInv, Tick
    PROVE  Safe'
<1>1. clock \in Nat /\ clock' = clock + 1 /\ UNCHANGED <<records, resvs, count, proc>>
  BY IdempotencyAssumption DEF Tick, IInv, TypeOK
<1>2. RequestsYoung'
  BY <1>1, IdempotencyAssumption
     DEF Tick, IInv, Safe, RequestsYoung, InFlight, TypeOK, Process
<1>3. KeysTaken'
  BY <1>1 DEF IInv, Safe, KeysTaken, KeyTaken, Exists, TypeOK, Reservation
<1>4. RecordsOwned' /\ NamesTruthful' /\ OncePerKey'
  BY <1>1 DEF IInv, Safe, RecordsOwned, OwnRecord, NamesTruthful, Names, OncePerKey
<1> QED
  BY <1>2, <1>3, <1>4 DEF Safe

LEMMA NextIInv == IInv /\ [Next]_vars => IInv'
<1> SUFFICES ASSUME IInv, [Next]_vars PROVE Safe'
  BY NextType DEF IInv
<1>1. CASE UNCHANGED vars
  BY <1>1 DEF vars, IInv, Safe, RequestsYoung, InFlight, RecordsOwned, OwnRecord, KeysTaken,
              KeyTaken, Exists, NamesTruthful, Names, OncePerKey
<1> QED
  BY <1>1, RequestStep, TickStep DEF Next

THEOREM InvariantHolds == Spec => []IInv
BY InitIInv, NextIInv, PTL DEF Spec

\* A key books once while its record lives, for every number of concurrent,
\* repeated and crashing requests, because a request always ends before a record
\* it inserted can be purged.
THEOREM BooksOncePerKey == Spec => []OncePerKey
<1>1. IInv => OncePerKey
  BY DEF IInv, Safe
<1> QED
  BY <1>1, InvariantHolds, PTL

\* An answer names a reservation made under the caller's key for the caller's
\* payload.
THEOREM AnswersMatch == Spec => []AnswerMatches
<1>1. IInv => AnswerMatches
  BY DEF IInv, Safe, NamesTruthful, Names, AnswerMatches
<1> QED
  BY <1>1, InvariantHolds, PTL

=============================================================================
