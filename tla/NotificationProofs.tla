------------------------ MODULE NotificationProofs ------------------------
(***************************************************************************)
(* Proofs about Notification, for every number of sending and reconciling  *)
(* executions, either channel and every value of the bounds.               *)
(***************************************************************************)
EXTENDS Notification, TLAPS

(***************************************************************************)
(* What the operators of the model return                                  *)
(***************************************************************************)
LEMMA FreshType ==
    ASSUME NEW status \in {"in_progress", "unknown", "success"}, NEW token \in Token \cup {0},
           NEW msg \in Message \cup {0}
    PROVE  Fresh(status, token, msg) \in Claim
BY NotificationAssumption DEF Fresh, Claim

LEMMA NoClaimType == NoClaim \in Claim
BY NotificationAssumption DEF NoClaim, Claim

LEMMA ResultType ==
    ASSUME claim \in Claim, NEW token \in Token \cup {0}, NEW out \in Outcome,
           NEW msg \in Message \cup {0}
    PROVE  recordNotificationResult(token, out, msg) \in Claim
<1>1. out # "failure_certain" => out \in {"unknown", "success"}
  BY DEF Outcome
<1> QED
  BY <1>1, FreshType, NoClaimType DEF recordNotificationResult

LEMMA RequeueType ==
    ASSUME job \in Job, NEW msg \in Message \cup {0}, Requeue(msg)
    PROVE  job' \in Job
BY DEF Requeue, enqueueNotificationReconciliation, NoJob, Job

(***************************************************************************)
(* Type correctness                                                        *)
(***************************************************************************)
LEMMA InitType == Init => TypeOK
<1>1. NoJob \in Job /\ Resting \in Sending /\ Unlocked \in Reconciling
  BY DEF NoJob, Resting, Unlocked, Sending, Reconciling, Job, Outcome
<1> QED
  BY <1>1, NoClaimType DEF Init, TypeOK

\* A sending execution may write the claim, the job, the counters and the audit.
LEMMA SenderType ==
    ASSUME TypeOK, NEW w \in Worker, NEW s \in Sending, sender' = [sender EXCEPT ![w] = s],
           claim' \in Claim, lastToken' \in Token \cup {0}, job' \in Job,
           lastMessage' \in Message \cup {0}, audit' \in BOOLEAN,
           UNCHANGED <<rec, adapter, failed, manual>>
    PROVE  TypeOK'
BY DEF TypeOK, adapter

LEMMA SenderFacts ==
    ASSUME TypeOK, NEW w \in Worker
    PROVE  /\ sender[w] \in Sending /\ Resting \in Sending
           /\ claim \in Claim /\ lastToken \in Token \cup {0} /\ job \in Job
           /\ lastMessage \in Message \cup {0} /\ audit \in BOOLEAN
BY DEF TypeOK, Resting, Sending, Outcome

LEMMA SenderStepType ==
    ASSUME TypeOK, NEW w \in Worker, SenderStep(w) \/ CrashSender(w)
    PROVE  TypeOK'
<1> DEFINE Moved(pc) == [sender[w] EXCEPT !.pc = pc]
<1>0. /\ sender[w] \in Sending /\ Resting \in Sending
      /\ claim \in Claim /\ lastToken \in Token \cup {0} /\ job \in Job
      /\ lastMessage \in Message \cup {0} /\ audit \in BOOLEAN
  BY SenderFacts
<1>1. /\ sender[w].token \in Token \cup {0} /\ sender[w].msg \in Message \cup {0}
      /\ sender[w].out \in Outcome /\ claim.msg \in Message \cup {0}
  BY <1>0 DEF Sending, Claim
<1>2. \A pc \in {"checked", "audit"} : Moved(pc) \in Sending
  BY <1>0 DEF Sending
<1>3. CASE CheckAudit(w)
  BY <1>0, <1>2, <1>3, SenderType DEF CheckAudit, Goto, provider
<1>4. CASE AcquireClaim(w)
  <2>1. lastToken + 1 \in Token
    BY <1>0, <1>4, NotificationAssumption DEF AcquireClaim, Token
  <2>2. [Resting EXCEPT !.pc = "send", !.token = lastToken + 1] \in Sending
    BY <2>1 DEF Resting, Sending, Outcome
  <2>3. Fresh("in_progress", lastToken + 1, 0) \in Claim
    BY <2>1, FreshType
  <2> QED
    BY <1>0, <1>4, <2>1, <2>2, <2>3, SenderType DEF AcquireClaim, provider
<1>5. CASE SkipDuplicate(w)
  BY <1>0, <1>1, <1>5, RequeueType, SenderType DEF SkipDuplicate, Stop, provider
<1>6. ASSUME NEW out \in Outcome, NEW msg \in Message \cup {0}, Answered(w, out, msg)
      PROVE  \E s \in Sending : sender' = [sender EXCEPT ![w] = s]
  <2> DEFINE s == [sender[w] EXCEPT !.pc = "record", !.out = out, !.msg = msg]
  <2>1. s \in Sending
    BY <1>0 DEF Sending
  <2>2. sender' = [sender EXCEPT ![w] = s]
    BY <1>6 DEF Answered
  <2> QED
    BY <2>1, <2>2
<1>7. CASE SendAccepted(w)
  <2>1. lastMessage' \in Message
    BY <1>0, <1>7, NotificationAssumption DEF SendAccepted, Message
  <2>2. \E s \in Sending : sender' = [sender EXCEPT ![w] = s]
    BY <1>6, <1>7, <2>1 DEF SendAccepted, Outcome
  <2> QED
    BY <1>0, <1>7, <2>1, <2>2, SenderType DEF SendAccepted
<1>8. CASE SendNotAccepted(w)
  <2>1. \E s \in Sending : sender' = [sender EXCEPT ![w] = s]
    BY <1>6, <1>8 DEF SendNotAccepted, Outcome
  <2> QED
    BY <1>0, <1>8, <2>1, SenderType DEF SendNotAccepted, provider
<1>9. CASE RecordAnswer(w)
  <2>1. claim' \in Claim
    BY <1>0, <1>1, <1>9, ResultType DEF RecordAnswer
  <2>2. job' \in Job
    BY <1>0, <1>1, <1>9, RequeueType DEF RecordAnswer
  <2>3. \E s \in Sending : sender' = [sender EXCEPT ![w] = s]
    BY <1>0, <1>2, <1>9 DEF RecordAnswer, Goto, Stop
  <2> QED
    BY <1>0, <1>9, <2>1, <2>2, <2>3, SenderType DEF RecordAnswer, provider
<1>10. CASE WriteAudit(w)
  BY <1>0, <1>10, SenderType DEF WriteAudit, Stop, provider
<1>11. CASE AuditFails(w)
  <2>1. claim' \in Claim /\ job' \in Job
    BY <1>0, <1>1, <1>11, ResultType, RequeueType DEF AuditFails, Outcome
  <2> QED
    BY <1>0, <1>11, <2>1, SenderType DEF AuditFails, Stop, provider
<1>12. CASE CrashSender(w)
  BY <1>0, <1>12, SenderType DEF CrashSender, Stop, provider
<1> QED
  BY <1>3, <1>4, <1>5, <1>7, <1>8, <1>9, <1>10, <1>11, <1>12 DEF SenderStep

\* A reconciling execution may write the claim, the job, the audit and the case
\* for manual review.
LEMMA ReconcilerType ==
    ASSUME TypeOK, NEW r \in Reconciler, NEW x \in Reconciling, rec' = [rec EXCEPT ![r] = x],
           claim' \in Claim, job' \in Job, audit' \in BOOLEAN, manual' \in BOOLEAN,
           UNCHANGED <<lastToken, sender, provider>>
    PROVE  TypeOK'
BY DEF TypeOK, adapter, provider

LEMMA ReconcilerFacts ==
    ASSUME TypeOK, NEW r \in Reconciler
    PROVE  /\ rec[r] \in Reconciling /\ Unlocked \in Reconciling
           /\ claim \in Claim /\ job \in Job /\ audit \in BOOLEAN /\ manual \in BOOLEAN
           /\ claim.msg \in Message \cup {0} /\ claim.token \in Token \cup {0}
           /\ rec[r].msg \in Message \cup {0} /\ rec[r].token \in Token \cup {0}
           /\ job.msg \in Message \cup {0} /\ rec[r].out \in Outcome
BY DEF TypeOK, Unlocked, Reconciling, Outcome, Claim, Job

LEMMA JobType ==
    ASSUME job \in Job, NEW state \in {"none", "waiting", "active", "done", "failed"}
    PROVE  [job EXCEPT !.state = state] \in Job /\ Interrupted \in Job
BY DEF Job, Interrupted

LEMMA FinishType ==
    ASSUME TypeOK, NEW r \in Reconciler, Finish(r)
    PROVE  rec' = [rec EXCEPT ![r] = Unlocked] /\ job' \in Job
BY ReconcilerFacts, JobType DEF Finish

LEMMA ConcludeType ==
    ASSUME TypeOK, NEW r \in Reconciler, NEW out \in Outcome, Conclude(r, out), audit' \in BOOLEAN
    PROVE  TypeOK'
<1>1. claim' \in Claim /\ manual' \in BOOLEAN
  BY ReconcilerFacts, ResultType DEF Conclude
<1> QED
  BY <1>1, FinishType, ReconcilerType, ReconcilerFacts DEF Conclude

LEMMA ReconcilerStepType ==
    ASSUME TypeOK, NEW r \in Reconciler, ReconcilerStep(r) \/ CrashReconciler(r) \/ LoseLock(r)
    PROVE  TypeOK'
<1>0. /\ rec[r] \in Reconciling /\ Unlocked \in Reconciling
      /\ claim \in Claim /\ job \in Job /\ audit \in BOOLEAN /\ manual \in BOOLEAN
      /\ claim.msg \in Message \cup {0} /\ claim.token \in Token \cup {0}
      /\ rec[r].msg \in Message \cup {0} /\ rec[r].token \in Token \cup {0}
      /\ job.msg \in Message \cup {0} /\ rec[r].out \in Outcome
  BY ReconcilerFacts
<1>1. CASE ReadClaim(r)
  <2>1. [pc |-> "lease", token |-> claim.token, out |-> "unknown",
         msg |-> claim.msg, lock |-> TRUE] \in Reconciling
    BY <1>0 DEF Reconciling, Outcome
  <2>2. rec = [rec EXCEPT ![r] = rec[r]]
    BY DEF TypeOK
  <2> QED
    BY <1>0, <1>1, <2>1, <2>2, JobType, ReconcilerType DEF ReadClaim
<1>2. CASE AcquireLease(r)
  <2>1. CASE LeaseGranted(r)
    <3> DEFINE x == [rec[r] EXCEPT !.pc = "lookup",
                                   !.msg = IF rec[r].msg # 0 THEN rec[r].msg ELSE job.msg]
    <3>1. x \in Reconciling /\ Fresh("in_progress", rec[r].token, rec[r].msg) \in Claim
      BY <1>0, FreshType DEF Reconciling
    <3>2. rec' = [rec EXCEPT ![r] = x]
      BY <1>2, <2>1 DEF AcquireLease
    <3> HIDE DEF x
    <3> QED
      BY <1>0, <1>2, <2>1, <3>1, <3>2, ReconcilerType DEF AcquireLease
  <2>2. CASE ~LeaseGranted(r)
    BY <1>0, <1>2, <2>2, FinishType, ReconcilerType DEF AcquireLease
  <2> QED
    BY <2>1, <2>2
<1>3. CASE NoMessageId(r)
  BY <1>0, <1>3, ConcludeType DEF NoMessageId, Outcome
<1>4. CASE Lookup(r)
  <2>1. PICK out \in lookupProviderMessage(rec[r].msg) :
          rec' = [rec EXCEPT ![r].pc = IF out = "success" THEN "repair" ELSE "conclude",
                             ![r].out = out]
    BY <1>4 DEF Lookup
  <2> DEFINE x == [rec[r] EXCEPT !.pc = IF out = "success" THEN "repair" ELSE "conclude",
                                 !.out = out]
  <2>2. x \in Reconciling
    BY <1>0, <2>1 DEF lookupProviderMessage, Reconciling, Outcome
  <2>3. rec' = [rec EXCEPT ![r] = x]
    BY <2>1
  <2> HIDE DEF x
  <2> QED
    BY <1>0, <1>4, <2>2, <2>3, ReconcilerType DEF Lookup
<1>5. CASE Repair(r)
  <2>1. [rec[r] EXCEPT !.pc = "conclude"] \in Reconciling
    BY <1>0 DEF Reconciling
  <2> QED
    BY <1>0, <1>5, <2>1, ReconcilerType DEF Repair
<1>6. CASE RepairFails(r)
  BY <1>0, <1>6, ConcludeType DEF RepairFails, Outcome
<1>7. CASE RecordLookup(r)
  BY <1>0, <1>7, ConcludeType DEF RecordLookup
<1>8. CASE CrashReconciler(r)
  BY <1>0, <1>8, JobType, ReconcilerType DEF CrashReconciler
<1>9. CASE LoseLock(r)
  <2>1. [rec[r] EXCEPT !.lock = FALSE] \in Reconciling
    BY <1>0 DEF Reconciling
  <2> QED
    BY <1>0, <1>9, <2>1, JobType, ReconcilerType DEF LoseLock
<1> QED
  BY <1>1, <1>2, <1>3, <1>4, <1>5, <1>6, <1>7, <1>8, <1>9 DEF ReconcilerStep

LEMMA NextType == TypeOK /\ [Next]_vars => TypeOK'
<1> SUFFICES ASSUME TypeOK, [Next]_vars PROVE TypeOK'
  OBVIOUS
<1>0. claim \in Claim /\ job \in Job /\ claim.msg \in Message \cup {0}
      /\ claim.token \in Token \cup {0}
  BY DEF TypeOK, Claim
<1>1. CASE UNCHANGED vars
  BY <1>1 DEF vars, provider, adapter, TypeOK
<1>2. CASE EvictJob
  <2>1. NoJob \in Job
    BY DEF NoJob, Job
  <2> QED
    BY <1>2, <2>1 DEF EvictJob, TypeOK, provider, adapter
<1>3. CASE Sweep
  <2>1. claim' \in Claim /\ job' \in Job /\ audit' \in BOOLEAN
    BY <1>0, <1>3, FreshType, RequeueType
       DEF Sweep, SweepOrphan, SweepUnknown, SweepSuccess, TypeOK
  <2> QED
    BY <1>3, <2>1
       DEF Sweep, SweepOrphan, SweepUnknown, SweepSuccess, TypeOK, provider, adapter
<1>4. CASE Tick
  <2>1. claim' \in Claim
    BY <1>0, <1>4, NotificationAssumption DEF Tick, Claim
  <2> QED
    BY <1>4, <2>1 DEF Tick, TypeOK, provider, adapter
<1>5. ASSUME NEW m \in Message, ProviderFails(m)
      PROVE  TypeOK'
  BY <1>5 DEF ProviderFails, TypeOK, adapter
<1> QED
  BY <1>1, <1>2, <1>3, <1>4, <1>5, SenderStepType, ReconcilerStepType DEF Next

\* Every record is well formed.
THEOREM TypeCorrect == Spec => []TypeOK
BY InitType, NextType, PTL DEF Spec

(***************************************************************************)
(* The inductive invariant                                                 *)
(***************************************************************************)
\* Every message id names a message the provider accepted.
IdsKnown ==
    /\ claim.msg <= lastMessage /\ job.msg <= lastMessage
    /\ \A w \in Worker : sender[w].msg <= lastMessage
    /\ \A r \in Reconciler : rec[r].msg <= lastMessage
    /\ \A m \in failed : m <= lastMessage

\* A success in somebody's hands speaks of an accepted message.
SuccessKnown ==
    /\ \A w \in Worker :
          sender[w].out = "success" \/ sender[w].pc = "audit" => lastMessage > 0
    /\ \A r \in Reconciler : rec[r].out = "success" \/ rec[r].pc = "repair" => lastMessage > 0
    /\ SuccessTruthful

\* The claim has the last token given out, and no two senders share one.
Holding(w) == sender[w].pc \in {"send", "record", "audit"}
TokensUnique ==
    /\ claim.status # "none" => claim.token = lastToken
    /\ \A w \in Worker : Holding(w) => sender[w].token <= lastToken
    /\ \A v, w \in Worker :
          v # w /\ Holding(v) /\ Holding(w) => sender[v].token # sender[w].token

\* If uncertain answers carry no id, nobody can look a message up.
Unnamed ==
    /\ claim.status \in {"in_progress", "unknown"} => claim.msg = 0
    /\ job.msg = 0
    /\ \A w \in Worker : sender[w].out = "unknown" => sender[w].msg = 0
    /\ \A r \in Reconciler : rec[r].msg = 0 /\ rec[r].pc \notin {"repair", "conclude"}

\* A sender that may still send, or free the claim, holds the claim, and no
\* accepted message stands; while one does, the claim is kept.
Stands(m) == m \in 1..lastMessage /\ m \notin failed
Armed(w) ==
    sender[w].pc = "send" \/ (sender[w].pc = "record" /\ sender[w].out = "failure_certain")
OneSent ==
    /\ \A w \in Worker : Armed(w) => Owns(sender[w].token) /\ \A m \in Message : ~Stands(m)
    /\ \A m \in Message : Stands(m) => claim.status # "none"
    /\ \A m, n \in Message : Stands(m) /\ Stands(n) => m = n

Safe ==
    /\ IdsKnown /\ SuccessKnown /\ TokensUnique
    /\ carriesId \/ (Unnamed /\ OneSent)
IInv == TypeOK /\ Safe

LEMMA InitIInv == Init => IInv
BY InitType, NotificationAssumption
   DEF Init, IInv, Safe, IdsKnown, SuccessKnown, SuccessTruthful, TokensUnique, Holding, Unnamed,
       OneSent, Stands, Armed, NoClaim, NoJob, Resting, Unlocked

LEMMA NumberFacts ==
    ASSUME TypeOK
    PROVE  lastMessage \in Nat /\ lastToken \in Nat /\ 1..lastMessage \subseteq Message
           /\ 0 <= lastMessage
BY NotificationAssumption DEF TypeOK, Message, Token

\* What recording a result makes of the claim.
LEMMA ResultClaim ==
    ASSUME NEW token, NEW out, NEW msg
    PROVE  LET c == recordNotificationResult(token, out, msg)
           IN  \/ c = claim
               \/ c = NoClaim /\ Owns(token) /\ out = "failure_certain"
               \/ /\ Owns(token) /\ out # "failure_certain"
                  /\ c.status = out /\ c.token = claim.token /\ c.msg = msg
BY DEF recordNotificationResult, Owns, Fresh

LEMMA RequeueMsg ==
    ASSUME NEW msg, Requeue(msg)
    PROVE  job'.msg \in {job.msg, msg}
BY DEF Requeue, enqueueNotificationReconciliation, NoJob

(***************************************************************************)
(* What a step may do to the claim and to the job.  It keeps the claim in  *)
(* the hands it is in, names known messages, and only names one at all if  *)
(* the adapters do.                                                        *)
(***************************************************************************)
ClaimKept ==
    \/ claim' = claim
    \/ /\ claim.status # "none" /\ claim'.status # "none" /\ claim'.token = claim.token
       /\ claim'.msg <= lastMessage
       /\ claim'.status = "success" => lastMessage > 0
       /\ claim'.status # "success" /\ ~carriesId => claim'.msg = 0
JobKept ==
    \/ job'.msg = job.msg
    \/ job'.msg <= lastMessage /\ (~carriesId => job'.msg = 0)

\* A sender that moves without acquiring the claim, sending or freeing it.
LEMMA SenderKeeps ==
    ASSUME IInv, NEW w \in Worker, NEW s \in Sending, sender' = [sender EXCEPT ![w] = s],
           UNCHANGED <<lastToken, rec, provider>>, ClaimKept, JobKept,
           s.msg <= lastMessage,
           s.out = "success" \/ s.pc = "audit" => lastMessage > 0,
           s.out = "unknown" /\ ~carriesId => s.msg = 0,
           s.pc \in {"send", "record", "audit"} => Holding(w) /\ s.token = sender[w].token,
           s.pc = "send" \/ (s.pc = "record" /\ s.out = "failure_certain") => Armed(w),
           audit' => audit \/ lastMessage > 0
    PROVE  Safe'
<1>1. \A v \in Worker : sender'[v] = IF v = w THEN s ELSE sender[v]
  BY DEF IInv, TypeOK
<1>2. IdsKnown'
  BY <1>1 DEF IInv, Safe, IdsKnown, ClaimKept, JobKept, provider
<1>3. SuccessKnown'
  BY <1>1 DEF IInv, Safe, SuccessKnown, SuccessTruthful, ClaimKept, provider
<1>4. TokensUnique'
  BY <1>1 DEF IInv, Safe, TokensUnique, Holding, ClaimKept
<1>5. (carriesId \/ Unnamed)'
  BY <1>1 DEF IInv, Safe, Unnamed, ClaimKept, JobKept, provider, adapter, TypeOK, Claim
<1>6. (carriesId \/ OneSent)'
  <2>1. \A m \in Message : Stands(m)' <=> Stands(m)
    BY DEF Stands, provider
  <2>2. \A v \in Worker : Armed(v)' => Armed(v) /\ sender'[v].token = sender[v].token
    BY <1>1 DEF Armed, Holding
  <2>3. \A token : Owns(token) => Owns(token)'
    BY DEF Owns, ClaimKept
  <2> QED
    BY <2>1, <2>2, <2>3 DEF IInv, Safe, OneSent, ClaimKept, provider, adapter
<1> QED
  BY <1>2, <1>3, <1>4, <1>5, <1>6 DEF Safe

LEMMA RestingFacts ==
    ASSUME TypeOK
    PROVE  /\ Resting \in Sending /\ Resting.pc = "idle" /\ Resting.out = "unknown"
           /\ Resting.msg = 0 /\ Resting.msg <= lastMessage
BY NumberFacts DEF Resting, Sending, Outcome

\* The answer a sender holds, recorded: the claim is kept unless it was refused.
LEMMA RecordKeeps ==
    ASSUME IInv, NEW w \in Worker, NEW out \in {"unknown", "success"}, NEW msg \in Nat,
           msg <= lastMessage, out = "success" => lastMessage > 0,
           out = "unknown" /\ ~carriesId => msg = 0,
           claim' = recordNotificationResult(sender[w].token, out, msg), UNCHANGED provider
    PROVE  ClaimKept
BY ResultClaim DEF ClaimKept, Owns

LEMMA SenderSafe ==
    ASSUME IInv, NEW w \in Worker, SenderStep(w) \/ CrashSender(w)
    PROVE  Safe'
<1> DEFINE old == sender[w]
<1>0. /\ old \in Sending /\ old.msg <= lastMessage /\ old.msg \in Nat
      /\ old.out = "success" \/ old.pc = "audit" => lastMessage > 0
      /\ old.out = "unknown" /\ ~carriesId => old.msg = 0
      /\ Holding(w) <=> old.pc \in {"send", "record", "audit"}
  BY NotificationAssumption
     DEF IInv, Safe, TypeOK, Sending, Message, IdsKnown, SuccessKnown, Unnamed, Holding
<1>1. /\ lastMessage \in Nat /\ lastToken \in Nat /\ 0 <= lastMessage
      /\ 1..lastMessage \subseteq Message /\ 0 <= 0
  BY NumberFacts DEF IInv
<1>2. ASSUME NEW pc \in {"checked", "audit"}
      PROVE  LET s == [old EXCEPT !.pc = pc]
             IN  /\ s \in Sending /\ s.pc = pc /\ s.out = old.out /\ s.msg = old.msg
                 /\ s.token = old.token
  BY <1>0 DEF Sending
<1>3. CASE CheckAudit(w)
  <2> DEFINE s == [old EXCEPT !.pc = "checked"]
  <2>1. sender' = [sender EXCEPT ![w] = s] /\ UNCHANGED <<claim, lastToken, rec, job, provider, audit>>
    BY <1>3 DEF CheckAudit, Goto
  <2>2. /\ s \in Sending /\ s.pc = "checked" /\ s.out = old.out /\ s.msg = old.msg
    BY <1>2
  <2> HIDE DEF s
  <2> QED
    BY <1>0, <2>1, <2>2, SenderKeeps DEF ClaimKept, JobKept
<1>4. CASE AcquireClaim(w)
  <2> DEFINE s == [Resting EXCEPT !.pc = "send", !.token = lastToken + 1]
  <2>1. /\ sender' = [sender EXCEPT ![w] = s] /\ claim.status = "none"
        /\ lastToken' = lastToken + 1 /\ UNCHANGED <<rec, job, provider, audit>>
        /\ claim' = Fresh("in_progress", lastToken + 1, 0)
    BY <1>4 DEF AcquireClaim
  <2>2. /\ s.pc = "send" /\ s.token = lastToken + 1 /\ s.out = "unknown" /\ s.msg = 0
    BY DEF Resting
  <2>3. /\ claim'.status = "in_progress" /\ claim'.token = lastToken + 1 /\ claim'.msg = 0
    BY <2>1 DEF Fresh
  <2> HIDE DEF s
  <2>4. \A v \in Worker : sender'[v] = IF v = w THEN s ELSE sender[v]
    BY <2>1 DEF IInv, TypeOK
  <2>5. IdsKnown'
    BY <1>1, <2>1, <2>2, <2>3, <2>4 DEF IInv, Safe, IdsKnown, provider
  <2>6. SuccessKnown'
    BY <2>1, <2>2, <2>3, <2>4 DEF IInv, Safe, SuccessKnown, SuccessTruthful, provider
  <2>7. TokensUnique'
    <3>1. \A v \in Worker : v # w /\ Holding(v)' => Holding(v) /\ sender'[v] = sender[v]
                                                    /\ sender[v].token <= lastToken
      BY <2>4 DEF IInv, Safe, TokensUnique, Holding
    <3>2. \A v \in Worker : sender[v].token \in Nat
      BY NotificationAssumption DEF IInv, TypeOK, Sending, Token
    <3>3. sender'[w].token = lastToken' /\ \A n \in Nat : n <= lastToken => n <= lastToken' /\ n # lastToken'
      BY <1>1, <2>1, <2>2, <2>4
    <3>4. lastToken' <= lastToken'
      BY <1>1, <2>1
    <3> QED
      BY <2>1, <2>3, <3>1, <3>2, <3>3, <3>4 DEF IInv, Safe, TokensUnique
  <2>8. (carriesId \/ Unnamed)'
    BY <2>1, <2>2, <2>3, <2>4 DEF IInv, Safe, Unnamed, provider, adapter
  <2>9. (carriesId \/ OneSent)'
    <3>1. \A m \in Message : Stands(m)' <=> Stands(m)
      BY <2>1 DEF Stands, provider
    <3>2. carriesId \/ \A v \in Worker : Armed(v)' => v = w
      BY <2>1, <2>4 DEF IInv, Safe, OneSent, Armed, Owns
    <3> QED
      BY <2>1, <2>2, <2>3, <2>4, <3>1, <3>2
         DEF IInv, Safe, OneSent, Owns, provider, adapter
  <2> QED
    BY <2>5, <2>6, <2>7, <2>8, <2>9 DEF Safe
<1>5. CASE SkipDuplicate(w)
  <2>1. JobKept
    <3>1. claim.msg <= lastMessage /\ (claim.status = "unknown" /\ ~carriesId => claim.msg = 0)
      BY DEF IInv, Safe, IdsKnown, Unnamed
    <3> QED
      BY <1>5, <3>1, RequeueMsg DEF SkipDuplicate, JobKept
  <2> QED
    BY <1>5, <2>1, RestingFacts, SenderKeeps DEF SkipDuplicate, Stop, IInv, ClaimKept
<1>6. CASE SendAccepted(w)
  <2> DEFINE n == lastMessage + 1
  <2>1. /\ old.pc = "send" /\ lastMessage' = n /\ n \in Message /\ n \in Nat
        /\ UNCHANGED <<claim, lastToken, rec, job, adapter, failed, audit>>
    BY <1>1, <1>6, NotificationAssumption DEF SendAccepted, Message
  <2>2. PICK out \in {"success", "unknown"}, msg \in {0, n} :
          /\ sender' = [sender EXCEPT ![w].pc = "record", ![w].out = out, ![w].msg = msg]
          /\ out = "unknown" /\ ~carriesId => msg = 0
    BY <1>6, <2>1 DEF SendAccepted, Answered
  <2> DEFINE s == [old EXCEPT !.pc = "record", !.out = out, !.msg = msg]
  <2>3. s.pc = "record" /\ s.out = out /\ s.msg = msg /\ s.token = old.token
    BY <1>0 DEF Sending
  <2>4. \A v \in Worker : sender'[v] = IF v = w THEN s ELSE sender[v]
    BY <2>2 DEF IInv, TypeOK
  <2> HIDE DEF s
  <2>5. \A m \in Nat : m <= lastMessage => m <= n
    BY <1>1
  <2>6. IdsKnown'
    <3>1. /\ claim.msg \in Nat /\ job.msg \in Nat /\ \A m \in failed : m \in Nat
          /\ \A v \in Worker : sender[v].msg \in Nat
          /\ \A r \in Reconciler : rec[r].msg \in Nat
      BY DEF IInv, TypeOK, Claim, Job, Sending, Reconciling, Message
    <3>2. msg <= n
      BY <1>1
    <3> QED
      BY <2>1, <2>3, <2>4, <2>5, <3>1, <3>2 DEF IInv, Safe, IdsKnown
  <2>7. SuccessKnown'
    BY <1>1, <2>1 DEF SuccessKnown, SuccessTruthful
  <2>8. TokensUnique'
    BY <1>0, <2>1, <2>3, <2>4 DEF IInv, Safe, TokensUnique, Holding
  <2>9. (carriesId \/ Unnamed)'
    BY <2>1, <2>2, <2>3, <2>4 DEF IInv, Safe, Unnamed, adapter
  <2>10. (carriesId \/ OneSent)'
    <3> SUFFICES ASSUME ~carriesId PROVE OneSent'
      BY <2>1 DEF adapter
    <3>1. OneSent /\ TokensUnique
      BY DEF IInv, Safe
    <3>2. Armed(w) /\ Owns(old.token) /\ \A m \in Message : ~Stands(m)
      BY <2>1, <3>1 DEF OneSent, Armed
    <3>3. \A m \in Message : Stands(m)' => m = n
      <4>1. \A m \in Nat : m <= n => m <= lastMessage \/ m = n
        BY <1>1
      <4> QED
        BY <1>1, <2>1, <3>2, <4>1 DEF Stands, Message
    <3>4. \A v \in Worker : ~Armed(v)'
      <4>1. ASSUME NEW v \in Worker, v # w, Armed(v) PROVE FALSE
        BY <2>1, <3>1, <3>2, <4>1 DEF OneSent, TokensUnique, Holding, Owns, Armed
      <4> QED
        BY <2>2, <2>3, <2>4, <4>1 DEF Armed
    <3> QED
      BY <2>1, <3>2, <3>3, <3>4 DEF OneSent, Owns
  <2> QED
    BY <2>6, <2>7, <2>8, <2>9, <2>10 DEF Safe
<1>7. CASE SendNotAccepted(w)
  <2>1. PICK out \in {"failure_certain", "unknown"} :
          sender' = [sender EXCEPT ![w].pc = "record", ![w].out = out, ![w].msg = 0]
    BY <1>7 DEF SendNotAccepted, Answered
  <2> DEFINE s == [old EXCEPT !.pc = "record", !.out = out, !.msg = 0]
  <2>2. s \in Sending /\ s.pc = "record" /\ s.out = out /\ s.msg = 0 /\ s.token = old.token
    BY <1>0 DEF Sending, Outcome
  <2>3. sender' = [sender EXCEPT ![w] = s]
    BY <2>1
  <2>4. Armed(w) /\ Holding(w)
    BY <1>7 DEF SendNotAccepted, Armed, Holding
  <2> HIDE DEF s
  <2> QED
    BY <1>1, <1>7, <2>2, <2>3, <2>4, SenderKeeps DEF SendNotAccepted, ClaimKept, JobKept
<1>8. CASE RecordAnswer(w)
  <2> DEFINE s == IF old.out = "success" THEN [old EXCEPT !.pc = "audit"] ELSE Resting
  <2>1. /\ old.pc = "record" /\ sender' = [sender EXCEPT ![w] = s]
        /\ claim' = recordNotificationResult(old.token, old.out, old.msg)
        /\ IF old.out = "unknown" /\ Owns(old.token) THEN Requeue(old.msg) ELSE UNCHANGED job
        /\ UNCHANGED <<lastToken, rec, provider, audit>>
    BY <1>8 DEF RecordAnswer, Goto, Stop
  <2>2. /\ s \in Sending /\ s.msg <= lastMessage /\ (s.out = "unknown" /\ ~carriesId => s.msg = 0)
        /\ s.pc \in {"audit", "idle"}
        /\ s.out = "success" \/ s.pc = "audit" => lastMessage > 0
        /\ s.pc = "audit" => s.token = old.token
    BY <1>0, <1>2, RestingFacts DEF IInv
  <2>3. JobKept
    BY <1>0, <2>1, RequeueMsg DEF JobKept
  <2> HIDE DEF s
  <2>4. CASE old.out # "failure_certain"
    <3>1. ClaimKept
      <4>1. old.out \in {"unknown", "success"}
        BY <1>0, <2>4 DEF Sending, Outcome
      <4> QED
        BY <1>0, <2>1, <4>1, RecordKeeps
    <3> QED
      BY <1>0, <2>1, <2>2, <2>3, <3>1, SenderKeeps
  <2>5. CASE old.out = "failure_certain" /\ claim' = claim
    BY <1>0, <2>1, <2>2, <2>3, <2>5, SenderKeeps DEF ClaimKept
  <2>6. CASE old.out = "failure_certain" /\ claim' # claim
    <3>1. claim' = NoClaim /\ Owns(old.token) /\ UNCHANGED job
      BY <2>1, <2>6, ResultClaim
    <3>2. \A v \in Worker : sender'[v] = IF v = w THEN s ELSE sender[v]
      BY <2>1 DEF IInv, TypeOK
    <3>3. IdsKnown' /\ SuccessKnown'
      BY <1>1, <2>1, <2>2, <3>1, <3>2
         DEF IInv, Safe, IdsKnown, SuccessKnown, SuccessTruthful, NoClaim, provider
    <3>4. TokensUnique'
      BY <1>0, <2>1, <2>2, <3>1, <3>2 DEF IInv, Safe, TokensUnique, Holding, NoClaim
    <3>5. (carriesId \/ Unnamed)'
      BY <2>1, <2>2, <3>1, <3>2 DEF IInv, Safe, Unnamed, NoClaim, provider, adapter
    <3>6. (carriesId \/ OneSent)'
      <4> SUFFICES ASSUME ~carriesId PROVE OneSent'
        BY <2>1 DEF provider, adapter
      <4>1. OneSent /\ TokensUnique
        BY DEF IInv, Safe
      <4>2. \A m \in Message : ~Stands(m)
        BY <2>1, <2>6, <4>1 DEF OneSent, Armed
      <4>3. ASSUME NEW v \in Worker, v # w, Armed(v) PROVE FALSE
        BY <2>1, <3>1, <4>1, <4>3 DEF OneSent, TokensUnique, Holding, Owns, Armed
      <4>4. \A v \in Worker : ~Armed(v)'
        BY <2>2, <3>2, <4>3 DEF Armed
      <4> QED
        BY <2>1, <4>2, <4>4 DEF OneSent, Stands, provider
    <3> QED
      BY <3>3, <3>4, <3>5, <3>6 DEF Safe
  <2> QED
    BY <2>4, <2>5, <2>6
<1>9. CASE WriteAudit(w)
  BY <1>0, <1>9, RestingFacts, SenderKeeps DEF WriteAudit, Stop, IInv, ClaimKept, JobKept
<1>10. CASE AuditFails(w)
  <2>1. ClaimKept
    BY <1>1, <1>10, RecordKeeps DEF AuditFails, ClaimKept
  <2>2. JobKept
    BY <1>1, <1>10, RequeueMsg DEF AuditFails, JobKept
  <2> QED
    BY <1>10, <2>1, <2>2, RestingFacts, SenderKeeps DEF AuditFails, Stop, IInv
<1>11. CASE CrashSender(w)
  BY <1>11, RestingFacts, SenderKeeps DEF CrashSender, Stop, IInv, ClaimKept, JobKept
<1> QED
  BY <1>3, <1>4, <1>5, <1>6, <1>7, <1>8, <1>9, <1>10, <1>11 DEF SenderStep

\* A reconciler that moves; nobody but a sender frees the claim, unless the
\* adapters name their messages.
LEMMA ReconcilerKeeps ==
    ASSUME IInv, NEW r \in Reconciler, NEW x \in Reconciling, rec' = [rec EXCEPT ![r] = x],
           UNCHANGED <<lastToken, sender, provider>>,
           ClaimKept \/ (carriesId /\ claim' = NoClaim), JobKept,
           x.msg <= lastMessage,
           x.out = "success" \/ x.pc = "repair" => lastMessage > 0,
           ~carriesId => x.msg = 0 /\ x.pc \notin {"repair", "conclude"},
           audit' => audit \/ lastMessage > 0
    PROVE  Safe'
<1>1. \A v \in Reconciler : rec'[v] = IF v = r THEN x ELSE rec[v]
  BY DEF IInv, TypeOK
<1>2. 0 <= lastMessage /\ NoClaim.msg = 0 /\ NoClaim.status = "none"
  BY NumberFacts DEF IInv, NoClaim
<1>3. IdsKnown'
  BY <1>1, <1>2 DEF IInv, Safe, IdsKnown, ClaimKept, JobKept, provider
<1>4. SuccessKnown'
  BY <1>1, <1>2 DEF IInv, Safe, SuccessKnown, SuccessTruthful, ClaimKept, provider
<1>5. TokensUnique'
  BY <1>2 DEF IInv, Safe, TokensUnique, Holding, ClaimKept
<1>6. (carriesId \/ Unnamed)'
  BY <1>1, <1>2 DEF IInv, Safe, Unnamed, ClaimKept, JobKept, provider, adapter, TypeOK, Claim
<1>7. (carriesId \/ OneSent)'
  <2>1. \A m \in Message : Stands(m)' <=> Stands(m)
    BY DEF Stands, provider
  <2>2. \A token : Owns(token) /\ ~carriesId => Owns(token)'
    BY DEF Owns, ClaimKept
  <2> QED
    BY <2>1, <2>2 DEF IInv, Safe, OneSent, Armed, ClaimKept, provider, adapter
<1> QED
  BY <1>3, <1>4, <1>5, <1>6, <1>7 DEF Safe

LEMMA ConcludeSafe ==
    ASSUME IInv, NEW r \in Reconciler, NEW out \in Outcome, Conclude(r, out),
           out = "success" => lastMessage > 0,
           out # "unknown" => carriesId,
           audit' => audit \/ lastMessage > 0
    PROVE  Safe'
<1>1. /\ Unlocked \in Reconciling /\ Unlocked.msg = 0 /\ Unlocked.pc = "idle"
      /\ Unlocked.out = "unknown" /\ Unlocked.msg <= lastMessage
  BY NumberFacts DEF Unlocked, Reconciling, Outcome, IInv
<1>2. /\ rec' = [rec EXCEPT ![r] = Unlocked] /\ job'.msg = job.msg
      /\ UNCHANGED <<lastToken, sender, provider>>
      /\ claim' = recordNotificationResult(rec[r].token, out, rec[r].msg)
  BY DEF Conclude, Finish, IInv, TypeOK, Job
<1>3. rec[r].msg <= lastMessage /\ (~carriesId => rec[r].msg = 0)
  BY DEF IInv, Safe, IdsKnown, Unnamed
<1>4. ClaimKept \/ (carriesId /\ claim' = NoClaim)
  BY <1>2, <1>3, ResultClaim DEF ClaimKept, Owns, Outcome
<1> QED
  BY <1>1, <1>2, <1>4, ReconcilerKeeps DEF JobKept

LEMMA ReconcilerSafe ==
    ASSUME IInv, NEW r \in Reconciler, ReconcilerStep(r) \/ CrashReconciler(r) \/ LoseLock(r)
    PROVE  Safe'
<1> DEFINE old == rec[r]
<1>0. /\ old \in Reconciling /\ old.msg <= lastMessage /\ old.msg \in Message \cup {0}
      /\ old.out \in Outcome
      /\ old.out = "success" \/ old.pc = "repair" => lastMessage > 0
      /\ ~carriesId => old.msg = 0 /\ old.pc \notin {"repair", "conclude"}
  BY DEF IInv, Safe, TypeOK, Reconciling, IdsKnown, SuccessKnown, Unnamed
<1>1. /\ claim.msg <= lastMessage /\ job.msg <= lastMessage /\ (~carriesId => job.msg = 0)
      /\ claim.status = "unknown" /\ ~carriesId => claim.msg = 0
      /\ claim.msg \in Message \cup {0} /\ claim.token \in Token \cup {0} /\ job \in Job
  BY DEF IInv, Safe, IdsKnown, Unnamed, TypeOK, Claim
<1>2. /\ Unlocked \in Reconciling /\ Unlocked.msg = 0 /\ Unlocked.pc = "idle"
      /\ Unlocked.out = "unknown" /\ Unlocked.msg <= lastMessage
  BY NumberFacts DEF Unlocked, Reconciling, Outcome, IInv
<1>3. \A state : [job EXCEPT !.state = state].msg = job.msg /\ Interrupted.msg = job.msg
  BY <1>1 DEF Job, Interrupted
<1>4. CASE ReadClaim(r)
  <2> DEFINE x == [pc |-> "lease", token |-> claim.token, out |-> "unknown",
                   msg |-> claim.msg, lock |-> TRUE]
  <2>1. CASE claim.status = "unknown"
    <3>1. x \in Reconciling /\ x.pc = "lease" /\ x.out = "unknown" /\ x.msg = claim.msg
      BY <1>1 DEF Reconciling, Outcome
    <3>2. /\ rec' = [rec EXCEPT ![r] = x] /\ job' = [job EXCEPT !.state = "active"]
          /\ UNCHANGED <<claim, lastToken, sender, provider, audit, manual>>
      BY <1>4, <2>1 DEF ReadClaim
    <3> HIDE DEF x
    <3> QED
      BY <1>1, <1>3, <2>1, <3>1, <3>2, ReconcilerKeeps DEF ClaimKept, JobKept
  <2>2. CASE claim.status # "unknown"
    <3>1. rec' = [rec EXCEPT ![r] = old]
      BY <1>4, <2>2 DEF ReadClaim, IInv, TypeOK
    <3> QED
      BY <1>0, <1>3, <1>4, <2>2, <3>1, ReconcilerKeeps DEF ReadClaim, ClaimKept, JobKept
  <2> QED
    BY <2>1, <2>2
<1>5. CASE AcquireLease(r)
  <2>1. CASE LeaseGranted(r)
    <3> DEFINE x == [old EXCEPT !.pc = "lookup", !.msg = IF old.msg # 0 THEN old.msg ELSE job.msg]
    <3>1. x \in Reconciling /\ x.pc = "lookup" /\ x.msg \in {old.msg, job.msg} /\ x.out = old.out
      BY <1>0, <1>1 DEF Reconciling, Job
    <3>2. /\ rec' = [rec EXCEPT ![r] = x] /\ UNCHANGED job
          /\ claim' = Fresh("in_progress", old.token, old.msg)
          /\ UNCHANGED <<lastToken, sender, provider, audit>>
      BY <1>5, <2>1 DEF AcquireLease
    <3>3. ClaimKept
      BY <1>0, <2>1, <3>2 DEF ClaimKept, Fresh, LeaseGranted, Owns
    <3> HIDE DEF x
    <3> QED
      BY <1>0, <1>1, <3>1, <3>2, <3>3, ReconcilerKeeps DEF JobKept
  <2>2. CASE ~LeaseGranted(r)
    <3>1. rec' = [rec EXCEPT ![r] = Unlocked] /\ UNCHANGED <<claim, lastToken, sender, provider, audit>>
      BY <1>5, <2>2 DEF AcquireLease, Finish
    <3>2. job'.msg = job.msg
      BY <1>3, <1>5, <2>2 DEF AcquireLease, Finish
    <3> QED
      BY <1>2, <3>1, <3>2, ReconcilerKeeps DEF ClaimKept, JobKept
  <2> QED
    BY <2>1, <2>2
<1>6. CASE NoMessageId(r)
  BY <1>6, ConcludeSafe DEF NoMessageId, Outcome
<1>7. CASE Lookup(r)
  <2>1. PICK out \in {"success", "failure_certain", "unknown"} :
          rec' = [rec EXCEPT ![r].pc = IF out = "success" THEN "repair" ELSE "conclude",
                             ![r].out = out]
    BY <1>7 DEF Lookup, lookupProviderMessage
  <2> DEFINE x == [old EXCEPT !.pc = IF out = "success" THEN "repair" ELSE "conclude",
                              !.out = out]
  <2>2. x \in Reconciling /\ x.msg = old.msg
    BY <1>0 DEF Reconciling, Outcome
  <2>3. old.msg # 0 /\ lastMessage > 0
    BY <1>0, <1>7, NumberFacts, NotificationAssumption DEF Lookup, IInv, Message
  <2>4. rec' = [rec EXCEPT ![r] = x]
    BY <2>1
  <2> HIDE DEF x
  <2> QED
    BY <1>0, <1>7, <2>2, <2>3, <2>4, ReconcilerKeeps DEF Lookup, ClaimKept, JobKept
<1>8. CASE Repair(r)
  <2> DEFINE x == [old EXCEPT !.pc = "conclude"]
  <2>1. x \in Reconciling /\ x.msg = old.msg /\ x.out = old.out
    BY <1>0 DEF Reconciling
  <2>2. rec' = [rec EXCEPT ![r] = x] /\ old.pc = "repair"
    BY <1>8 DEF Repair
  <2> HIDE DEF x
  <2> QED
    BY <1>0, <1>8, <2>1, <2>2, ReconcilerKeeps DEF Repair, ClaimKept, JobKept
<1>9. CASE RepairFails(r)
  BY <1>9, ConcludeSafe DEF RepairFails, Outcome
<1>10. CASE RecordLookup(r)
  BY <1>0, <1>10, ConcludeSafe DEF RecordLookup
<1>11. CASE CrashReconciler(r)
  BY <1>2, <1>3, <1>11, ReconcilerKeeps DEF CrashReconciler, ClaimKept, JobKept
<1>12. CASE LoseLock(r)
  <2> DEFINE x == [old EXCEPT !.lock = FALSE]
  <2>1. x \in Reconciling /\ x.msg = old.msg /\ x.out = old.out /\ x.pc = old.pc
    BY <1>0 DEF Reconciling
  <2>2. rec' = [rec EXCEPT ![r] = x]
    BY <1>12 DEF LoseLock
  <2> HIDE DEF x
  <2> QED
    BY <1>0, <1>3, <1>12, <2>1, <2>2, ReconcilerKeeps DEF LoseLock, ClaimKept, JobKept
<1> QED
  BY <1>4, <1>5, <1>6, <1>7, <1>8, <1>9, <1>10, <1>11, <1>12 DEF ReconcilerStep

(***************************************************************************)
(* The sweep, time and the provider                                        *)
(***************************************************************************)
\* Nobody moves and the provider accepts nothing.
LEMMA OthersKeep ==
    ASSUME IInv, UNCHANGED <<lastToken, sender, rec, provider>>, ClaimKept, JobKept,
           audit' => audit \/ lastMessage > 0
    PROVE  Safe'
<1>1. IdsKnown'
  BY DEF IInv, Safe, IdsKnown, ClaimKept, JobKept, provider
<1>2. SuccessKnown'
  BY DEF IInv, Safe, SuccessKnown, SuccessTruthful, ClaimKept, provider
<1>3. TokensUnique'
  BY DEF IInv, Safe, TokensUnique, Holding, ClaimKept
<1>4. (carriesId \/ Unnamed)'
  BY DEF IInv, Safe, Unnamed, ClaimKept, JobKept, provider, adapter, TypeOK, Claim
<1>5. (carriesId \/ OneSent)'
  <2>1. \A m \in Message : Stands(m)' <=> Stands(m)
    BY DEF Stands, provider
  <2>2. \A token : Owns(token) => Owns(token)'
    BY DEF Owns, ClaimKept
  <2> QED
    BY <2>1, <2>2 DEF IInv, Safe, OneSent, Armed, ClaimKept, provider, adapter
<1> QED
  BY <1>1, <1>2, <1>3, <1>4, <1>5 DEF Safe

LEMMA SweepSafe ==
    ASSUME IInv, Sweep
    PROVE  Safe'
<1>1. /\ claim.msg <= lastMessage
      /\ claim.status \in {"in_progress", "unknown"} /\ ~carriesId => claim.msg = 0
      /\ claim.status = "success" => lastMessage > 0
  BY DEF IInv, Safe, IdsKnown, Unnamed, SuccessKnown, SuccessTruthful
<1>2. CASE SweepOrphan
  BY <1>1, <1>2, RequeueMsg, OthersKeep
     DEF SweepOrphan, isNotificationClaimOrphaned, Fresh, ClaimKept, JobKept
<1>3. CASE SweepUnknown
  BY <1>1, <1>3, RequeueMsg, OthersKeep DEF SweepUnknown, ClaimKept, JobKept
<1>4. CASE SweepSuccess
  BY <1>1, <1>4, OthersKeep DEF SweepSuccess, ClaimKept, JobKept
<1> QED
  BY <1>2, <1>3, <1>4 DEF Sweep

LEMMA EnvironmentSafe ==
    ASSUME IInv, EvictJob \/ Tick \/ \E m \in Message : ProviderFails(m)
    PROVE  Safe'
<1>1. CASE EvictJob
  BY <1>1, NumberFacts, OthersKeep DEF EvictJob, NoJob, IInv, ClaimKept, JobKept
<1>2. CASE Tick
  <2>1. /\ claim'.status = claim.status /\ claim'.token = claim.token /\ claim'.msg = claim.msg
        /\ claim.status # "none"
    BY <1>2 DEF Tick, IInv, TypeOK, Claim
  <2>2. ClaimKept
    BY <2>1 DEF ClaimKept, IInv, Safe, IdsKnown, SuccessKnown, SuccessTruthful, Unnamed, TypeOK, Claim
  <2> QED
    BY <1>2, <2>2, OthersKeep DEF Tick, JobKept
<1>3. ASSUME NEW m \in Message, ProviderFails(m)
      PROVE  Safe'
  <2>1. IdsKnown'
    BY <1>3 DEF ProviderFails, IInv, Safe, IdsKnown
  <2>2. SuccessKnown' /\ TokensUnique' /\ (carriesId \/ Unnamed)'
    BY <1>3 DEF ProviderFails, IInv, Safe, SuccessKnown, SuccessTruthful, TokensUnique, Holding,
                Unnamed, adapter
  <2>3. (carriesId \/ OneSent)'
    <3>1. \A n \in Message : Stands(n)' => Stands(n)
      BY <1>3 DEF ProviderFails, Stands
    <3> QED
      BY <1>3, <3>1 DEF ProviderFails, IInv, Safe, OneSent, Armed, Owns, adapter
  <2> QED
    BY <2>1, <2>2, <2>3 DEF Safe
<1> QED
  BY <1>1, <1>2, <1>3

LEMMA NextIInv == IInv /\ [Next]_vars => IInv'
<1> SUFFICES ASSUME IInv, [Next]_vars PROVE Safe'
  BY NextType DEF IInv
<1>1. CASE UNCHANGED vars
  BY <1>1, OthersKeep DEF vars, ClaimKept, JobKept
<1> QED
  BY <1>1, SenderSafe, ReconcilerSafe, SweepSafe, EnvironmentSafe DEF Next

THEOREM InvariantHolds == Spec => []IInv
BY InitIInv, NextIInv, PTL DEF Spec

\* The customer is told once, for any number of executions of the jobs, however
\* they crash, stall, retry and reconcile: while an accepted message stands, the
\* claim is kept by its token, and only its token can free it.
THEOREM ToldOnce == Spec => []SentOnce
<1>1. IInv => SentOnce
  BY NumberFacts DEF IInv, Safe, OneSent, Stands, SentOnce
<1> QED
  BY <1>1, InvariantHolds, PTL

\* Success claims and audit entries speak of a message the provider accepted.
THEOREM SuccessIsTruthful == Spec => []SuccessTruthful
<1>1. IInv => SuccessTruthful
  BY DEF IInv, Safe, SuccessKnown
<1> QED
  BY <1>1, InvariantHolds, PTL

=============================================================================
