---------------------------- MODULE Notification ----------------------------
(***************************************************************************)
(* One claim-protected notification, the confirmation of one reservation   *)
(* by SMS or e-mail: the Redis claim (shared/queue/notification-           *)
(* idempotency.ts), the workers that send (outbound-confirm.worker.ts,     *)
(* reservation-confirmation-email.ts), and the jobs that reconcile         *)
(* uncertain answers (reconciliation.worker.ts).                           *)
(*                                                                         *)
(* The provider numbers the messages it accepts 1, 2, ...; 0 is a missing  *)
(* message id, and token 0 a missing claim.  A claim's age counts from its *)
(* last write, in ticks; the model covers one claim window, the 7 days in  *)
(* which Redis keeps the key.  Workers and reconcilers may crash or stall  *)
(* between any two steps.                                                  *)
(***************************************************************************)
EXTENDS Naturals

CONSTANTS
    Worker,         \* executions of the sending job
    Reconciler,     \* executions of the reconciliation job of this claim
    Channel,        \* the channels: "sms", "email"
    CarriesId,      \* may an uncertain answer of the SMS adapter name its message?
    QueueFails,     \* an add to a queue may fail, or the process die before it
    Lease,          \* age at which an in_progress claim is an orphan
    MaxToken,       \* bound on the claims acquired
    MaxMessage      \* bound on the messages the provider accepts

ASSUME NotificationAssumption ==
    /\ Channel \subseteq {"sms", "email"} /\ CarriesId \subseteq BOOLEAN
    /\ QueueFails \in BOOLEAN
    /\ Lease \in Nat \ {0} /\ MaxToken \in Nat /\ MaxMessage \in Nat

VARIABLES
    claim,          \* the Redis record of the claim key
    lastToken,      \* tokens given out
    sender,         \* the sending jobs in progress
    rec,            \* the reconciliation jobs in progress
    job,            \* the reconciliation job of this claim, as BullMQ keeps it
    channel,        \* the channel of this notification, fixed
    carriesId,      \* what its adapter's answers carry, fixed
    lastMessage,    \* messages accepted by the provider
    failed,         \* accepted messages the provider later reports as failed
    audit,          \* the confirmation-sent audit entry exists
    manual          \* the case is in the manual review queue

adapter == <<channel, carriesId>>
provider == <<adapter, lastMessage, failed>>
vars == <<claim, lastToken, sender, rec, job, provider, audit, manual>>

Message == 1..MaxMessage
Token == 1..MaxToken
Outcome == {"success", "failure_certain", "unknown"}

NoClaim == [status |-> "none", token |-> 0, msg |-> 0, age |-> 0]
NoJob == [state |-> "none", msg |-> 0, stalled |-> FALSE]
Resting == [pc |-> "idle", token |-> 0, out |-> "unknown", msg |-> 0]
Unlocked == [pc |-> "idle", token |-> 0, out |-> "unknown", msg |-> 0, lock |-> FALSE]

Init ==
    /\ claim = NoClaim /\ lastToken = 0
    /\ sender = [w \in Worker |-> Resting]
    /\ rec = [r \in Reconciler |-> Unlocked]
    /\ job = NoJob
    /\ channel \in Channel /\ carriesId \in CarriesId
    /\ lastMessage = 0 /\ failed = {}
    /\ audit = FALSE /\ manual = FALSE

(***************************************************************************)
(* The claim                                                               *)
(***************************************************************************)
Fresh(status, token, msg) == [status |-> status, token |-> token, msg |-> msg, age |-> 0]

\* The guard of compareAndReplaceClaim: the token alone, whatever the status.
Owns(token) == claim.status # "none" /\ claim.token = token

\* Mutant: an uncertain result frees the claim as a refusal does.
ResultFreesUnknown(token, out, msg) ==
    IF ~Owns(token) THEN claim
    ELSE IF out \in {"failure_certain", "unknown"} THEN NoClaim
    ELSE Fresh(out, token, msg)

\* Mutant: a message whose answer was lost is taken as sent.
ResultOptimistic(token, out, msg) ==
    IF ~Owns(token) THEN claim
    ELSE IF out = "failure_certain" THEN NoClaim
    ELSE Fresh("success", token, msg)

\* recordNotificationResult: a certain failure deletes the claim.
recordNotificationResult(token, out, msg) ==
    IF ~Owns(token) THEN claim
    ELSE IF out = "failure_certain" THEN NoClaim
    ELSE Fresh(out, token, msg)

isNotificationClaimOrphaned == claim.status = "in_progress" /\ claim.age >= Lease

\* The job id is derived from the claim key: BullMQ ignores an add while a job
\* of that id is kept, finished or not.
enqueueNotificationReconciliation(msg) ==
    IF job.state = "none" THEN [NoJob EXCEPT !.state = "waiting", !.msg = msg] ELSE job

\* The callers only log a failed add.
Requeue(msg) ==
    \/ job' = enqueueNotificationReconciliation(msg)
    \/ QueueFails /\ UNCHANGED job

(***************************************************************************)
(* The sending job                                                         *)
(***************************************************************************)
Goto(w, pc) == sender' = [sender EXCEPT ![w].pc = pc]
Stop(w) == sender' = [sender EXCEPT ![w] = Resting]

\* The job starts (first try, retry or redelivery) and finds no audit entry.
CheckAudit(w) ==
    /\ sender[w].pc = "idle" /\ ~audit
    /\ Goto(w, "checked")
    /\ UNCHANGED <<claim, lastToken, rec, job, provider, audit, manual>>

\* SET NX succeeds.
AcquireClaim(w) ==
    /\ sender[w].pc = "checked" /\ claim.status = "none"
    /\ lastToken < MaxToken
    /\ lastToken' = lastToken + 1
    /\ claim' = Fresh("in_progress", lastToken', 0)
    /\ sender' = [sender EXCEPT ![w] = [Resting EXCEPT !.pc = "send", !.token = lastToken']]
    /\ UNCHANGED <<rec, job, provider, audit, manual>>

\* SET NX fails: the job ends, after asking for the reconciliation of an
\* unknown result.
SkipDuplicate(w) ==
    /\ sender[w].pc = "checked" /\ claim.status # "none"
    /\ IF claim.status = "unknown" THEN Requeue(claim.msg) ELSE UNCHANGED job
    /\ Stop(w)
    /\ UNCHANGED <<claim, lastToken, rec, provider, audit, manual>>

Answered(w, out, msg) ==
    sender' = [sender EXCEPT ![w].pc = "record", ![w].out = out, ![w].msg = msg]

\* The provider accepts the message; its answer arrives, or is lost (the SMS
\* worker then keeps the message id if the error carries one).
SendAccepted(w) ==
    /\ sender[w].pc = "send" /\ lastMessage < MaxMessage
    /\ lastMessage' = lastMessage + 1
    /\ \/ Answered(w, "success", lastMessage')
       \/ Answered(w, "unknown", 0)
       \/ channel = "sms" /\ carriesId /\ Answered(w, "unknown", lastMessage')
    /\ UNCHANGED <<claim, lastToken, rec, job, adapter, failed, audit, manual>>

\* The provider refuses it, or never sees it.
SendNotAccepted(w) ==
    /\ sender[w].pc = "send"
    /\ Answered(w, "failure_certain", 0) \/ Answered(w, "unknown", 0)
    /\ UNCHANGED <<claim, lastToken, rec, job, provider, audit, manual>>

\* The answer is recorded; a refusal makes the job throw and BullMQ retry it.
RecordAnswer(w) ==
    LET s == sender[w]
    IN  /\ s.pc = "record"
        /\ claim' = recordNotificationResult(s.token, s.out, s.msg)
        /\ IF s.out = "unknown" /\ Owns(s.token) THEN Requeue(s.msg) ELSE UNCHANGED job
        /\ IF s.out = "success" THEN Goto(w, "audit") ELSE Stop(w)
        /\ UNCHANGED <<lastToken, rec, provider, audit, manual>>

WriteAudit(w) ==
    /\ sender[w].pc = "audit"
    /\ audit' = TRUE
    /\ Stop(w)
    /\ UNCHANGED <<claim, lastToken, rec, job, provider, manual>>

\* The audit write throws: the SMS job only logs it, the e-mail job treats it
\* as an uncertain send and records that, without the message id.
AuditFails(w) ==
    LET s == sender[w]
    IN  /\ s.pc = "audit"
        /\ IF channel = "sms" THEN UNCHANGED <<claim, job>>
           ELSE /\ claim' = recordNotificationResult(s.token, "unknown", 0)
                /\ IF Owns(s.token) THEN Requeue(0) ELSE UNCHANGED job
        /\ Stop(w)
        /\ UNCHANGED <<lastToken, rec, provider, audit, manual>>

CrashSender(w) ==
    /\ sender[w].pc # "idle"
    /\ Stop(w)
    /\ UNCHANGED <<claim, lastToken, rec, job, provider, audit, manual>>

(***************************************************************************)
(* The reconciliation job                                                  *)
(***************************************************************************)
\* The execution ends; if it still holds the job's lock BullMQ records it as
\* finished, and keeps it and its id.
Finish(r) ==
    /\ rec' = [rec EXCEPT ![r] = Unlocked]
    /\ job' = IF rec[r].lock THEN [job EXCEPT !.state = "done"] ELSE job

\* A job that finds the claim in any other state than unknown has nothing to
\* do, and ends.
ReadClaim(r) ==
    /\ rec[r].pc = "idle" /\ job.state = "waiting"
    /\ IF claim.status = "unknown"
       THEN /\ rec' = [rec EXCEPT ![r] = [pc |-> "lease", token |-> claim.token, out |-> "unknown",
                                          msg |-> claim.msg, lock |-> TRUE]]
            /\ job' = [job EXCEPT !.state = "active"]
       ELSE /\ rec' = rec
            /\ job' = [job EXCEPT !.state = "done"]
    /\ UNCHANGED <<claim, lastToken, sender, provider, audit, manual>>

\* The compare-and-replace of acquireNotificationReconciliationLease.
LeaseGranted(r) == Owns(rec[r].token) /\ claim.status = "unknown"

AcquireLease(r) ==
    /\ rec[r].pc = "lease"
    /\ IF LeaseGranted(r)
       THEN /\ claim' = Fresh("in_progress", rec[r].token, rec[r].msg)
            /\ rec' = [rec EXCEPT ![r].pc = "lookup",
                                  ![r].msg = IF rec[r].msg # 0 THEN rec[r].msg ELSE job.msg]
            /\ UNCHANGED job
       ELSE Finish(r) /\ UNCHANGED claim
    /\ UNCHANGED <<lastToken, sender, provider, audit, manual>>

\* Records the outcome under the retained token; an unknown one goes to
\* manual review.
Conclude(r, out) ==
    /\ claim' = recordNotificationResult(rec[r].token, out, rec[r].msg)
    /\ \/ manual' = (manual \/ out = "unknown")
       \/ QueueFails /\ manual' = manual
    /\ Finish(r)
    /\ UNCHANGED <<lastToken, sender, provider>>

\* Nothing to look the message up with.
NoMessageId(r) ==
    /\ rec[r].pc = "lookup" /\ rec[r].msg = 0
    /\ Conclude(r, "unknown")
    /\ UNCHANGED audit

\* lookupProviderMessage: what the provider knows, or unknown.
lookupProviderMessage(m) ==
    {IF m \in failed THEN "failure_certain" ELSE "success", "unknown"}

Lookup(r) ==
    /\ rec[r].pc = "lookup" /\ rec[r].msg # 0
    /\ \E out \in lookupProviderMessage(rec[r].msg) :
          rec' = [rec EXCEPT ![r].pc = IF out = "success" THEN "repair" ELSE "conclude",
                             ![r].out = out]
    /\ UNCHANGED <<claim, lastToken, sender, job, provider, audit, manual>>

\* The local repair writes the audit entry if it is missing.
Repair(r) ==
    /\ rec[r].pc = "repair"
    /\ audit' = TRUE
    /\ rec' = [rec EXCEPT ![r].pc = "conclude"]
    /\ UNCHANGED <<claim, lastToken, sender, job, provider, manual>>

RepairFails(r) ==
    /\ rec[r].pc = "repair"
    /\ Conclude(r, "unknown")
    /\ UNCHANGED audit

RecordLookup(r) ==
    /\ rec[r].pc = "conclude"
    /\ Conclude(r, rec[r].out)
    /\ UNCHANGED audit

\* BullMQ hands a job whose lock was not renewed to another execution, once;
\* the second time the job is failed, and kept.
Interrupted == [job EXCEPT !.state = IF job.stalled THEN "failed" ELSE "waiting",
                           !.stalled = TRUE]

\* The process dies.
CrashReconciler(r) ==
    /\ rec[r].pc # "idle"
    /\ rec' = [rec EXCEPT ![r] = Unlocked]
    /\ job' = IF rec[r].lock THEN Interrupted ELSE job
    /\ UNCHANGED <<claim, lastToken, sender, provider, audit, manual>>

\* It loses the lock and goes on.
LoseLock(r) ==
    /\ rec[r].lock
    /\ rec' = [rec EXCEPT ![r].lock = FALSE]
    /\ job' = Interrupted
    /\ UNCHANGED <<claim, lastToken, sender, provider, audit, manual>>

\* The queue only keeps its last 1000 finished jobs.
EvictJob ==
    /\ job.state = "done"
    /\ job' = NoJob
    /\ UNCHANGED <<claim, lastToken, sender, rec, provider, audit, manual>>

(***************************************************************************)
(* The daily sweep                                                         *)
(***************************************************************************)
\* Mutant: only an attempt that left a message id is reclaimed.
SweepOrphanIdentified ==
    /\ isNotificationClaimOrphaned /\ claim.msg # 0
    /\ claim' = Fresh("unknown", claim.token, claim.msg)
    /\ Requeue(claim.msg)
    /\ UNCHANGED <<lastToken, sender, rec, provider, audit, manual>>

SweepOrphan ==
    /\ isNotificationClaimOrphaned
    /\ claim' = Fresh("unknown", claim.token, claim.msg)
    /\ Requeue(claim.msg)
    /\ UNCHANGED <<lastToken, sender, rec, provider, audit, manual>>

SweepUnknown ==
    /\ claim.status = "unknown" /\ job.state = "none"
    /\ Requeue(claim.msg)
    /\ UNCHANGED <<claim, lastToken, sender, rec, provider, audit, manual>>

\* Mutant: the sweep only repairs what has no message id.
SweepSuccessUnidentified ==
    /\ claim.status = "success" /\ claim.age >= Lease /\ ~audit /\ claim.msg = 0
    /\ audit' = TRUE
    /\ UNCHANGED <<claim, lastToken, sender, rec, job, provider, manual>>

\* A success whose audit entry is still missing after the lease is repaired.
SweepSuccess ==
    /\ claim.status = "success" /\ claim.age >= Lease /\ ~audit
    /\ audit' = TRUE
    /\ UNCHANGED <<claim, lastToken, sender, rec, job, provider, manual>>

Sweep == SweepOrphan \/ SweepUnknown \/ SweepSuccess

(***************************************************************************)
(* The environment                                                         *)
(***************************************************************************)
Tick ==
    /\ claim.status # "none" /\ claim.age < Lease
    /\ claim' = [claim EXCEPT !.age = @ + 1]
    /\ UNCHANGED <<lastToken, sender, rec, job, provider, audit, manual>>

ProviderFails(m) ==
    /\ m <= lastMessage /\ m \notin failed
    /\ failed' = failed \cup {m}
    /\ UNCHANGED <<claim, lastToken, sender, rec, job, adapter, lastMessage, audit, manual>>

SenderStep(w) ==
    \/ CheckAudit(w) \/ AcquireClaim(w) \/ SkipDuplicate(w)
    \/ SendAccepted(w) \/ SendNotAccepted(w) \/ RecordAnswer(w)
    \/ WriteAudit(w) \/ AuditFails(w)

ReconcilerStep(r) ==
    \/ ReadClaim(r) \/ AcquireLease(r) \/ NoMessageId(r) \/ Lookup(r)
    \/ Repair(r) \/ RepairFails(r) \/ RecordLookup(r)

Next ==
    \/ \E w \in Worker : SenderStep(w) \/ CrashSender(w)
    \/ \E r \in Reconciler : ReconcilerStep(r) \/ CrashReconciler(r) \/ LoseLock(r)
    \/ EvictJob \/ Sweep \/ Tick
    \/ \E m \in Message : ProviderFails(m)

\* Time passes, and the sweep runs every day.
Fairness ==
    /\ WF_vars(Tick)
    /\ WF_vars(SweepOrphan) /\ WF_vars(SweepUnknown) /\ WF_vars(SweepSuccess)

Spec == Init /\ [][Next]_vars /\ Fairness

(***************************************************************************)
(* Properties                                                              *)
(***************************************************************************)

Claim == [status : {"none", "in_progress", "unknown", "success"},
          token : Token \cup {0}, msg : Message \cup {0}, age : 0..Lease]
Sending == [pc : {"idle", "checked", "send", "record", "audit"},
            token : Token \cup {0}, out : Outcome, msg : Message \cup {0}]
Reconciling == [pc : {"idle", "lease", "lookup", "repair", "conclude"},
                token : Token \cup {0}, out : Outcome, msg : Message \cup {0}, lock : BOOLEAN]
Job == [state : {"none", "waiting", "active", "done", "failed"},
        msg : Message \cup {0}, stalled : BOOLEAN]

\* Every record is well formed.
TypeOK ==
    /\ claim \in Claim /\ lastToken \in Token \cup {0}
    /\ sender \in [Worker -> Sending] /\ rec \in [Reconciler -> Reconciling] /\ job \in Job
    /\ channel \in Channel /\ carriesId \in CarriesId
    /\ lastMessage \in Message \cup {0} /\ failed \subseteq Message
    /\ audit \in BOOLEAN /\ manual \in BOOLEAN

\* The customer is told once: within a claim window the provider never has two
\* accepted messages of this notification that it did not itself give up,
\* through retries, lost answers, crashes and late reconcilers.  It is stated
\* for the present adapters, whose errors carry no message id.
SentOnce ==
    carriesId \/ \A m, n \in 1..lastMessage : m # n => m \in failed \/ n \in failed

\* The audit entry and a success claim are only ever written about a message
\* the provider accepted.
SuccessTruthful ==
    audit \/ claim.status = "success" => lastMessage > 0

\* A claim left in progress by a dead worker or reconciler does not block the
\* notification for ever: the sweep turns it into an unknown one.
OrphanReclaimed == claim.status = "in_progress" ~> claim.status # "in_progress"

\* The audit entry a worker did not write after a success is repaired, unless
\* the claim is taken back first.
SuccessAudited == claim.status = "success" ~> audit \/ claim.status # "success"

=============================================================================
