--------------------------- MODULE CampaignProofs ---------------------------
(***************************************************************************)
(* Proofs about Campaign: a message is handed to the provider at most      *)
(* once, the pressure on a customer is capped, the budget of the day is    *)
(* kept, the counters never run ahead, and an opposition is honoured.      *)
(*                                                                         *)
(* Each fact is about one part of the state seen by an execution that      *)
(* carries a message, so the inductive invariant says what a carried       *)
(* message is, what it has reserved and what of it is still to be counted. *)
(***************************************************************************)
EXTENDS Campaign, FiniteSetTheorems, TLAPS

\* An execution carries a message between its claim and the end of its treatment.
Early == {"check", "reserve", "recheck", "gate", "call"}
Late == {"record", "tally", "release"}
Carrying == Early \cup Late

Carries(w) == work[w].pc \in Carrying

Settled == {"ACCEPTED", "SENT", "DELIVERED", "FAILED", "BOUNCED", "COMPLAINED"}

\* What an execution holds is its campaign's; what it carries has been claimed, and
\* has been handed to the provider exactly if the call is behind it.
ExecutionSound(w) ==
    /\ work[w].page \subseteq Messages(work[w].k)
    /\ Carries(w) => /\ work[w].m \in Messages(work[w].k)
                     /\ message[work[w].m] \notin {"NONE", "PENDING"}
    /\ work[w].pc \in Early => calls[work[w].m] = 0
    /\ work[w].pc \in Late =>
        /\ calls[work[w].m] = 1
        /\ work[w].answer \in {"accepted", "refused", "error", "unknown"}
        /\ work[w].answer = "accepted" => work[w].m \in sent
        /\ work[w].answer \in {"refused", "error"} => work[w].m \notin sent \ misreported
    /\ work[w].pc = "release" => work[w].answer \in {"refused", "error"}
    /\ work[w].pc = "tally" =>
        IF work[w].answer = "accepted" THEN work[w].m \in known
        ELSE message[work[w].m] \in Failures
    /\ \A m \in work[w].owe : m \in Messages(work[w].k) /\ message[m] \in Failures
    /\ work[w].owe # {} => work[w].pc = "count stale"

\* No message is carried twice.
CarriedAlone ==
    \A v, w \in Worker : Carries(v) /\ Carries(w) /\ work[v].m = work[w].m => v = w

\* What has not been claimed has not been handed over, and nothing is twice.
MessageSound(m) ==
    /\ message[m] \in {"NONE", "PENDING"} => calls[m] = 0
    /\ calls[m] <= 1
    /\ m \in sent => calls[m] = 1
    /\ m \in known => message[m] \in Settled

\* The messages of a customer that hold a slot of the day: the provider has them,
\* or an execution is between the reservation and the release.
Holding(w) ==
    \/ work[w].pc \in {"recheck", "gate", "call"}
    \/ work[w].pc \in Late /\ work[w].answer \in {"refused", "error"}
Kept(c) == {m \in Message : Who[m] = c /\ (m \in sent \ misreported \/ \E w \in Worker : Holding(w) /\ work[w].m = m)}

SlotsKept == \A c \in Customer : Cardinality(Kept(c)) <= slots[c] /\ slots[c] <= Cap

\* A campaign that reserves nothing has no message the budget was checked for.
BudgetSound ==
    \A m \in Message :
        message[m] \in {"PENDING", "SENDING"} /\ campaign[Of[m]] \notin Reserving => m \in unbudgeted

\* A check counts acceptances that stand.
CheckSound == budgetCheck.held => budgetCheck.accepted \subseteq known

\* What an execution has written and is about to count.
OwesFailure(w, m) ==
    \/ m \in work[w].owe
    \/ work[w].pc = "tally" /\ work[w].answer # "accepted" /\ work[w].m = m
OwesSuccess(w, m) == work[w].pc = "tally" /\ work[w].answer = "accepted" /\ work[w].m = m

\* Nothing is owed twice.
OwedOnce ==
    \A v, w \in Worker, m \in Message : OwesFailure(v, m) /\ OwesFailure(w, m) => v = w

CountedFailures(k) ==
    {m \in Messages(k) : message[m] \in Failures /\ \A w \in Worker : ~OwesFailure(w, m)}
CountedSuccesses(k) ==
    {m \in known \cap Messages(k) : \A w \in Worker : ~OwesSuccess(w, m)}

CountsSound ==
    \A k \in Campaign :
        /\ tally[k].delivered = Cardinality(In(k, "DELIVERED"))
        /\ tally[k].failed <= Cardinality(CountedFailures(k))
        /\ tally[k].accepted <= Cardinality(CountedSuccesses(k))

Carriage ==
    /\ \A w \in Worker : ExecutionSound(w)
    /\ CarriedAlone
    /\ \A m \in Message : MessageSound(m)

Counting == OwedOnce /\ CountsSound

IInv == TypeOK /\ Carriage /\ SlotsKept /\ Counting /\ BudgetSound /\ CheckSound /\ BudgetKept

(***************************************************************************)
(* Types                                                                   *)
(***************************************************************************)
LEMMA IdleType ==
    /\ Idle \in Execution /\ Idle.pc = "idle" /\ Idle.page = {} /\ Idle.owe = {}
    /\ Idle.k \in Campaign
<1>1. (CHOOSE k \in Campaign : TRUE) \in Campaign
  BY CampaignAssumption
<1>. QED  BY <1>1 DEF Idle, Execution

\* What the proofs see of an execution.
SameView(v) ==
    /\ work'[v].pc = work[v].pc /\ work'[v].k = work[v].k /\ work'[v].m = work[v].m
    /\ work'[v].answer = work[v].answer /\ work'[v].page = work[v].page
    /\ work'[v].owe = work[v].owe

\* It carries nothing, and owes nothing.
Rests(v) ==
    /\ work'[v].pc \notin Carrying \cup {"count stale"} /\ work'[v].owe = {}
    /\ work'[v].page \subseteq Messages(work'[v].k)

OthersSame(w) == \A v \in Worker \ {w} : SameView(v)

\* An execution that goes on, seen from every execution.
LEMMA GoesOn ==
    ASSUME work \in [Worker -> Execution], NEW w \in Worker, NEW e \in Execution, GoOn(w, e)
    PROVE  /\ work' \in [Worker -> Execution] /\ work'[w] = e /\ OthersSame(w)
BY DEF GoOn, OthersSame, SameView

LEMMA Ends ==
    ASSUME work \in [Worker -> Execution], job \in [Campaign -> Job], NEW w \in Worker,
           NEW outcome \in [Campaign -> Job], EndWork(w, outcome)
    PROVE  /\ work' \in [Worker -> Execution] /\ job' \in [Campaign -> Job]
           /\ Rests(w) /\ OthersSame(w)
BY IdleType DEF EndWork, OthersSame, SameView, Rests, Carrying, Early, Late

LEMMA OutcomeType ==
    ASSUME job \in [Campaign -> Job], NEW k \in Campaign
    PROVE  /\ Finished(k) \in [Campaign -> Job] /\ Failed(k) \in [Campaign -> Job]
           /\ Enqueued(k) \in [Campaign -> Job]
<1>0. job[k] \in Job /\ job[k].tries + 1 \in Nat
  BY DEF Job
<1>1. /\ [job[k] EXCEPT !.state = "done"] \in Job /\ [job[k] EXCEPT !.state = "waiting"] \in Job
  BY <1>0 DEF Job
<1>2. ASSUME NEW state \in {"waiting", "done"}, NEW n \in Nat
      PROVE  [job[k] EXCEPT !.state = state, !.tries = n] \in Job
  BY <1>0 DEF Job
<1>3. Finished(k) \in [Campaign -> Job]
  BY <1>1 DEF Finished
<1>4. Enqueued(k) \in [Campaign -> Job]
  BY <1>1 DEF Enqueued
<1>5. Failed(k) \in [Campaign -> Job]
  <2> DEFINE state == IF job[k].tries + 1 < MaxAttempts THEN "waiting" ELSE "done"
  <2>1. Failed(k) = [job EXCEPT ![k] = [job[k] EXCEPT !.state = state, !.tries = job[k].tries + 1]]
    BY DEF Failed
  <2>2. state \in {"waiting", "done"}
    OBVIOUS
  <2> HIDE DEF state
  <2>. QED  BY <1>0, <1>2, <2>1, <2>2
<1>. QED  BY <1>3, <1>4, <1>5

LEMMA StatusType ==
    ASSUME TypeOK, NEW k \in Campaign, NEW status \in CampaignStatus,
           SetCampaign(k, status) \/ SetChecked(k, status)
    PROVE  /\ campaign' \in [Campaign -> CampaignStatus] /\ unbudgeted' \in SUBSET Message
           /\ budgetCheck' \in BudgetCheck
<1>1. CASE SetCampaign(k, status)
  BY <1>1 DEF TypeOK, SetCampaign, In, Messages
<1>2. CASE SetChecked(k, status)
  <2>1. budgetCheck' \in BudgetCheck
    BY <1>2 DEF SetChecked, EndCheck, BudgetCheck
  <2>2. campaign' \in [Campaign -> CampaignStatus] /\ unbudgeted' \in SUBSET Message
    BY <1>2 DEF SetChecked, TypeOK
  <2>. QED  BY <2>1, <2>2
<1>. QED  BY <1>1, <1>2

LEMMA AbandonType ==
    ASSUME TypeOK, NEW p, Abandon(p)
    PROVE  UNCHANGED <<campaign, unbudgeted>> /\ budgetCheck' \in BudgetCheck
BY DEF TypeOK, Abandon, BudgetCheck

LEMMA MarkType ==
    ASSUME TypeOK, NEW m \in Message, NEW status \in MessageStatus, Mark(m, status)
    PROVE  /\ message' \in [Message -> MessageStatus]
           /\ message'[m] = IF message[m] = "SENDING" THEN status ELSE message[m]
           /\ \A n \in Message \ {m} : message'[n] = message[n]
BY DEF TypeOK, Mark

\* The step of an execution to another statement.
LEMMA StepView ==
    ASSUME work \in [Worker -> Execution], NEW w \in Worker, NEW pc,
           [work[w] EXCEPT !.pc = pc] \in Execution, Step(w, pc)
    PROVE  /\ work' \in [Worker -> Execution] /\ OthersSame(w)
           /\ work'[w].pc = pc /\ work'[w].k = work[w].k /\ work'[w].m = work[w].m
           /\ work'[w].answer = work[w].answer /\ work'[w].page = work[w].page
           /\ work'[w].owe = work[w].owe
<1>1. work[w] \in Execution
  OBVIOUS
<1>2. work' \in [Worker -> Execution] /\ OthersSame(w) /\ work'[w] = [work[w] EXCEPT !.pc = pc]
  BY GoesOn DEF Step
<1>. QED  BY <1>1, <1>2 DEF Execution

\* The end of a message's treatment.
LEMMA NextView ==
    ASSUME work \in [Worker -> Execution], NEW w \in Worker, NEW e \in Execution,
           e.k = work[w].k, e.page = work[w].page, e.owe = work[w].owe, GoOn(w, ToNext(e))
    PROVE  /\ work' \in [Worker -> Execution] /\ OthersSame(w)
           /\ work'[w].pc = "next" /\ work'[w].k = work[w].k
           /\ work'[w].page = work[w].page /\ work'[w].owe = work[w].owe
<1>1. /\ ToNext(e) \in Execution /\ ToNext(e).pc = "next" /\ ToNext(e).k = e.k
      /\ ToNext(e).page = e.page /\ ToNext(e).owe = e.owe
  BY DEF Execution, ToNext
<1>. QED  BY <1>1, GoesOn

(***************************************************************************)
(* What each step of an execution makes of it                              *)
(***************************************************************************)
LEMMA ClaimCampaignWork ==
    ASSUME TypeOK, NEW w \in Worker, ClaimCampaign(w), work[w].owe = {},
           work[w].page \subseteq Messages(work[w].k)
    PROVE  /\ work' \in [Worker -> Execution] /\ job' \in [Campaign -> Job]
           /\ Rests(w) /\ OthersSame(w)
<1>0. /\ work \in [Worker -> Execution] /\ work[w] \in Execution /\ job \in [Campaign -> Job]
      /\ work[w].k \in Campaign
  BY DEF TypeOK, Execution
<1>1. ASSUME NEW pc \in {"refused", "stale"}, Step(w, pc), UNCHANGED job
      PROVE  /\ work' \in [Worker -> Execution] /\ job' \in [Campaign -> Job]
             /\ Rests(w) /\ OthersSame(w)
  <2>1. [work[w] EXCEPT !.pc = pc] \in Execution
    BY <1>0, <1>1 DEF Execution
  <2>2. /\ work' \in [Worker -> Execution] /\ OthersSame(w)
        /\ work'[w].pc = pc /\ work'[w].k = work[w].k /\ work'[w].page = work[w].page
        /\ work'[w].owe = {}
    BY <1>0, <1>1, <2>1, StepView
  <2>. QED  BY <1>0, <1>1, <2>2 DEF Rests, Carrying, Early, Late
<1>2. CASE EndWork(w, Finished(work[w].k))
  BY <1>0, <1>2, OutcomeType, Ends
<1>. QED  BY <1>1, <1>2 DEF ClaimCampaign

LEMMA FetchPageWork ==
    ASSUME TypeOK, NEW w \in Worker, FetchPage(w), work[w].owe = {}
    PROVE  work' \in [Worker -> Execution] /\ Rests(w) /\ OthersSame(w)
<1> DEFINE left == [work[w] EXCEPT !.pc = "count", !.page = {}, !.todo = {"PENDING", "SENDING"}]
<1> DEFINE next == [work[w] EXCEPT !.pc = "next", !.page = In(work[w].k, "PENDING")]
<1>0. work \in [Worker -> Execution] /\ work[w] \in Execution
  BY DEF TypeOK
<1>1. GoOn(w, left) \/ GoOn(w, next)
  BY DEF FetchPage, Leave
<1>2. /\ left \in Execution /\ left.pc = "count" /\ left.owe = {} /\ left.page = {}
      /\ next \in Execution /\ next.pc = "next" /\ next.owe = {}
      /\ next.page = In(work[w].k, "PENDING") /\ next.k = work[w].k
  BY <1>0 DEF Execution, In, Messages
<1>3. In(work[w].k, "PENDING") \subseteq Messages(work[w].k)
  BY DEF In
<1> HIDE DEF left, next
<1>. QED  BY <1>0, <1>1, <1>2, <1>3, GoesOn DEF Rests, Carrying, Early, Late

LEMMA CountLeftWork ==
    ASSUME TypeOK, NEW w \in Worker, NEW status, CountLeft(w, status), work[w].owe = {},
           work[w].page \subseteq Messages(work[w].k)
    PROVE  work' \in [Worker -> Execution] /\ Rests(w) /\ OthersSame(w)
<1> DEFINE now == work[w].left \/ In(work[w].k, status) # {}
<1> DEFINE e == [work[w] EXCEPT !.todo = @ \ {status}, !.left = now]
<1>0. work \in [Worker -> Execution] /\ work[w] \in Execution
  BY DEF TypeOK
<1>1. GoOn(w, e) /\ work[w].pc = "count"
  BY DEF CountLeft
<1>2. now \in BOOLEAN
  OBVIOUS
<1> HIDE DEF now
<1>3. /\ e \in Execution /\ e.pc = work[w].pc /\ e.owe = {} /\ e.page = work[w].page
      /\ e.k = work[w].k
  BY <1>0, <1>2 DEF Execution
<1> HIDE DEF e
<1>. QED  BY <1>0, <1>1, <1>3, GoesOn DEF Rests, Carrying, Early, Late

LEMMA FailStaleWork ==
    ASSUME TypeOK, NEW w \in Worker, FailStaleMessageClaims(w)
    PROVE  /\ work' \in [Worker -> Execution] /\ OthersSame(w)
           /\ work'[w].k = work[w].k /\ work'[w].page = work[w].page
           /\ work'[w].owe = Stale(w)
           /\ work'[w].pc = IF Stale(w) = {} THEN "page" ELSE "count stale"
<1> DEFINE pc == IF Stale(w) = {} THEN "page" ELSE "count stale"
<1> DEFINE n == Cardinality(Stale(w))
<1> DEFINE e == [work[w] EXCEPT !.pc = pc, !.owe = Stale(w), !.failed = n, !.before = {}]
<1>0. work \in [Worker -> Execution] /\ work[w] \in Execution
  BY DEF TypeOK
<1>1. GoOn(w, e)
  BY DEF FailStaleMessageClaims
<1>2. Stale(w) \subseteq Message /\ n \in Nat
  <2>1. Stale(w) \subseteq Message
    BY DEF Stale, In, Messages
  <2>. QED  BY <2>1, CampaignAssumption, FS_Subset, FS_CardinalityType
<1>3. pc \in {"page", "count stale"}
  OBVIOUS
<1> HIDE DEF pc, n
<1>4. /\ e \in Execution /\ e.pc = pc /\ e.k = work[w].k /\ e.page = work[w].page
      /\ e.owe = Stale(w)
  BY <1>0, <1>2, <1>3 DEF Execution
<1> HIDE DEF e
<1>. QED  BY <1>0, <1>1, <1>4, GoesOn DEF pc

LEMMA CountStaleWork ==
    ASSUME TypeOK, NEW w \in Worker, CountStale(w)
    PROVE  /\ work' \in [Worker -> Execution] /\ OthersSame(w)
           /\ work'[w].k = work[w].k /\ work'[w].page = work[w].page
           /\ work'[w].owe = {} /\ work'[w].pc = "page"
<1> DEFINE e == [work[w] EXCEPT !.pc = "page", !.owe = {}]
<1>0. work \in [Worker -> Execution] /\ work[w] \in Execution /\ GoOn(w, e)
  BY DEF TypeOK, CountStale
<1>1. /\ e \in Execution /\ e.pc = "page" /\ e.k = work[w].k /\ e.page = work[w].page /\ e.owe = {}
  BY <1>0 DEF Execution
<1> HIDE DEF e
<1>. QED  BY <1>0, <1>1, GoesOn

\* The next message of the page is claimed, or is not there to be.
Claims(w, m) ==
    /\ m \in work[w].page /\ message[m] = "PENDING"
    /\ message' = [message EXCEPT ![m] = "SENDING"]
    /\ work'[w].pc = "check" /\ work'[w].k = work[w].k /\ work'[w].m = m
    /\ work'[w].page \subseteq work[w].page /\ work'[w].owe = work[w].owe

LEMMA NextMessageWork ==
    ASSUME TypeOK, NEW w \in Worker, NextMessage(w), work[w].owe = {},
           work[w].page \subseteq Messages(work[w].k)
    PROVE  /\ work' \in [Worker -> Execution] /\ OthersSame(w)
           /\ \/ Rests(w) /\ UNCHANGED message
              \/ \E m \in Message : Claims(w, m)
<1> DEFINE again == [work[w] EXCEPT !.pc = "page", !.page = {}, !.m = 0]
<1> DEFINE skip(m) == [work[w] EXCEPT !.page = @ \ {m}]
<1> DEFINE take(m) == [work[w] EXCEPT !.pc = "check", !.page = @ \ {m}, !.m = m]
<1>0. /\ work \in [Worker -> Execution] /\ work[w] \in Execution /\ work[w].pc = "next"
      /\ Message \subseteq Nat /\ Messages(work[w].k) \subseteq Message
  BY CampaignAssumption DEF TypeOK, NextMessage, Messages
<1>1. CASE GoOn(w, again) /\ UNCHANGED message
  <2>1. again \in Execution /\ again.pc = "page" /\ again.page = {} /\ again.owe = {}
    BY <1>0 DEF Execution
  <2> HIDE DEF again
  <2>. QED  BY <1>0, <1>1, <2>1, GoesOn DEF Rests, Carrying, Early, Late
<1>2. ASSUME NEW m, GoOn(w, skip(m)), UNCHANGED message
      PROVE  work' \in [Worker -> Execution] /\ OthersSame(w) /\ Rests(w)
  <2>1. /\ skip(m) \in Execution /\ skip(m).pc = "next" /\ skip(m).owe = {}
        /\ skip(m).page \subseteq work[w].page /\ skip(m).k = work[w].k
    BY <1>0 DEF Execution
  <2> HIDE DEF skip
  <2>. QED  BY <1>0, <1>2, <2>1, GoesOn DEF Rests, Carrying, Early, Late
<1>3. ASSUME NEW m \in work[w].page, message[m] = "PENDING",
             message' = [message EXCEPT ![m] = "SENDING"],
             work' = [v \in Worker |-> IF v = w THEN take(m)
                                       ELSE [work[v] EXCEPT !.before = @ \ {m}]]
      PROVE  work' \in [Worker -> Execution] /\ OthersSame(w) /\ Claims(w, m) /\ m \in Message
  <2>1. /\ take(m) \in Execution /\ take(m).pc = "check" /\ take(m).k = work[w].k
        /\ take(m).m = m /\ take(m).page \subseteq work[w].page /\ take(m).owe = work[w].owe
    BY <1>0 DEF Execution
  <2> DEFINE rest(v) == [work[v] EXCEPT !.before = @ \ {m}]
  <2>2. ASSUME NEW v \in Worker
        PROVE  /\ rest(v) \in Execution /\ rest(v).pc = work[v].pc /\ rest(v).k = work[v].k
               /\ rest(v).m = work[v].m /\ rest(v).answer = work[v].answer
               /\ rest(v).page = work[v].page /\ rest(v).owe = work[v].owe
    <3>1. work[v] \in Execution
      BY <1>0
    <3>. QED  BY <3>1 DEF Execution
  <2>3. work' = [v \in Worker |-> IF v = w THEN take(m) ELSE rest(v)]
    BY <1>3
  <2> HIDE DEF take, rest
  <2>. QED  BY <1>0, <1>3, <2>1, <2>2, <2>3 DEF OthersSame, SameView, Claims
<1>. QED  BY <1>0, <1>1, <1>2, <1>3 DEF NextMessage

LEMMA CallWork ==
    ASSUME TypeOK, NEW w \in Worker, NEW answer \in {"accepted", "refused", "error", "unknown"},
           GoOn(w, [work[w] EXCEPT !.pc = "record", !.answer = answer])
    PROVE  /\ work' \in [Worker -> Execution] /\ OthersSame(w)
           /\ work'[w].pc = "record" /\ work'[w].k = work[w].k /\ work'[w].m = work[w].m
           /\ work'[w].answer = answer /\ work'[w].page = work[w].page
           /\ work'[w].owe = work[w].owe
<1> DEFINE e == [work[w] EXCEPT !.pc = "record", !.answer = answer]
<1>0. work \in [Worker -> Execution] /\ work[w] \in Execution
  BY DEF TypeOK
<1>1. /\ e \in Execution /\ e.pc = "record" /\ e.k = work[w].k /\ e.m = work[w].m
      /\ e.answer = answer /\ e.page = work[w].page /\ e.owe = work[w].owe
  BY <1>0 DEF Execution
<1>2. GoOn(w, e)
  OBVIOUS
<1> HIDE DEF e
<1>. QED  BY <1>0, <1>1, <1>2, GoesOn

LEMMA TallyWork ==
    ASSUME TypeOK, NEW w \in Worker, Tally(w)
    PROVE  /\ work' \in [Worker -> Execution] /\ OthersSame(w)
           /\ work'[w].k = work[w].k /\ work'[w].page = work[w].page /\ work'[w].owe = work[w].owe
           /\ \/ /\ work[w].answer \in {"refused", "error"} /\ work'[w].pc = "release"
                 /\ work'[w].m = work[w].m /\ work'[w].answer = work[w].answer
              \/ work[w].answer \notin {"refused", "error"} /\ work'[w].pc = "next"
<1> DEFINE n == IF work[w].answer = "accepted" THEN work[w].failed ELSE work[w].failed + 1
<1> DEFINE counted == [work[w] EXCEPT !.failed = n]
<1> DEFINE release == [counted EXCEPT !.pc = "release"]
<1>0. work \in [Worker -> Execution] /\ work[w] \in Execution
  BY DEF TypeOK
<1>1. GoOn(w, IF work[w].answer \in {"refused", "error"} THEN release ELSE ToNext(counted))
  BY DEF Tally, messageWasNotSent, GoOn
<1>2. n \in Nat
  <2>1. work[w].failed \in Nat
    BY <1>0 DEF Execution
  <2>. QED  BY <2>1
<1> HIDE DEF n
<1>3. /\ counted \in Execution /\ counted.k = work[w].k /\ counted.page = work[w].page
      /\ counted.owe = work[w].owe
      /\ release \in Execution /\ release.pc = "release" /\ release.k = work[w].k
      /\ release.m = work[w].m /\ release.answer = work[w].answer
      /\ release.page = work[w].page /\ release.owe = work[w].owe
  BY <1>0, <1>2 DEF Execution
<1> HIDE DEF counted, release
<1>4. CASE work[w].answer \in {"refused", "error"}
  BY <1>0, <1>1, <1>3, <1>4, GoesOn
<1>5. CASE work[w].answer \notin {"refused", "error"}
  BY <1>0, <1>1, <1>3, <1>5, NextView
<1>. QED  BY <1>4, <1>5

LEMMA TakeJobWork ==
    ASSUME TypeOK, NEW w \in Worker, NEW k \in Campaign, TakeJob(w, k)
    PROVE  /\ work' \in [Worker -> Execution] /\ job' \in [Campaign -> Job]
           /\ Rests(w) \/ SameView(w)
           /\ OthersSame(w)
<1> DEFINE e(pc, before) == [Idle EXCEPT !.pc = pc, !.k = k, !.owns = TRUE, !.seen = campaign[k],
                                         !.before = before]
<1>0. /\ work \in [Worker -> Execution] /\ work[w] \in Execution /\ job \in [Campaign -> Job]
  BY DEF TypeOK
<1>1. CASE UNCHANGED work
  <2>1. job' \in [Campaign -> Job]
    <3>1. [job[k] EXCEPT !.state = "active"] \in Job
      BY <1>0 DEF Job
    <3>. QED  BY <1>0, <3>1, OutcomeType DEF TakeJob
  <2>. QED  BY <1>0, <1>1, <2>1 DEF SameView, OthersSame
<1>2. ASSUME NEW pc \in {"stale", "claim"}, NEW before \in SUBSET In(k, "SENDING"),
             campaign[k] \in {"READY", "SCHEDULED", "SENDING"},
             GoOn(w, e(pc, before)), job' = [job EXCEPT ![k].state = "active"]
      PROVE  /\ work' \in [Worker -> Execution] /\ job' \in [Campaign -> Job]
             /\ Rests(w) /\ OthersSame(w)
  <2>1. /\ e(pc, before) \in Execution /\ e(pc, before).pc = pc /\ e(pc, before).page = {}
        /\ e(pc, before).owe = {}
    BY IdleType, <1>2 DEF Execution, In, Messages
  <2>2. [job[k] EXCEPT !.state = "active"] \in Job
    BY <1>0 DEF Job
  <2> HIDE DEF e
  <2>. QED  BY <1>0, <1>2, <2>1, <2>2, GoesOn DEF Rests, Carrying, Early, Late
<1>. QED  BY <1>1, <1>2 DEF TakeJob, Taken

LEMMA StallWork ==
    ASSUME TypeOK, NEW k \in Campaign, Stall(k)
    PROVE  /\ work' \in [Worker -> Execution] /\ job' \in [Campaign -> Job]
           /\ \A v \in Worker : SameView(v)
<1> DEFINE lost(v) == [work[v] EXCEPT !.owns = FALSE]
<1>1. ASSUME NEW v \in Worker
      PROVE  /\ lost(v) \in Execution /\ lost(v).pc = work[v].pc /\ lost(v).k = work[v].k
             /\ lost(v).m = work[v].m /\ lost(v).answer = work[v].answer
             /\ lost(v).page = work[v].page /\ lost(v).owe = work[v].owe
  <2>1. work[v] \in Execution
    BY DEF TypeOK
  <2>. QED  BY <2>1 DEF Execution
<1>2. work' = [v \in Worker |-> IF work[v].k = k THEN lost(v) ELSE work[v]]
  BY DEF Stall
<1>3. job' \in [Campaign -> Job]
  <2> DEFINE state == IF job[k].stalls < MaxStalls THEN "waiting" ELSE "done"
  <2> DEFINE j == [job[k] EXCEPT !.state = state, !.stalls = @ + 1]
  <2>1. job' = [job EXCEPT ![k] = j]
    BY DEF Stall, TypeOK
  <2>2. state \in {"waiting", "done"} /\ job[k] \in Job /\ job[k].stalls + 1 \in Nat
    <3>1. job[k] \in Job /\ job[k].stalls \in Nat
      BY DEF TypeOK, Job
    <3>. QED  BY <3>1
  <2> HIDE DEF state
  <2>3. j \in Job
    BY <2>2 DEF Job
  <2> HIDE DEF j
  <2>. QED  BY <2>1, <2>3 DEF TypeOK
<1> HIDE DEF lost
<1>. QED  BY <1>1, <1>2, <1>3 DEF TypeOK, SameView

(***************************************************************************)
(* Type correctness                                                        *)
(***************************************************************************)
LEMMA IdleResets ==
    ASSUME TypeOK, NEW w \in Worker, work' = [work EXCEPT ![w] = Idle]
    PROVE  work' \in [Worker -> Execution] /\ Rests(w) /\ OthersSame(w)
BY IdleType DEF TypeOK, OthersSame, SameView, Rests, Carrying, Early, Late

LEMMA WorkerStepTypes ==
    ASSUME IInv, NEW w \in Worker, WorkerStep(w)
    PROVE  /\ work' \in [Worker -> Execution] /\ job' \in [Campaign -> Job]
           /\ OthersSame(w)
<1>0. /\ TypeOK /\ work \in [Worker -> Execution] /\ work[w] \in Execution
      /\ job \in [Campaign -> Job] /\ work[w].k \in Campaign
      /\ work[w].page \subseteq Messages(work[w].k)
      /\ work[w].pc # "count stale" => work[w].owe = {}
  BY DEF IInv, Carriage, TypeOK, ExecutionSound, Execution
<1>1. CASE ClaimCampaign(w)
  BY <1>0, <1>1, ClaimCampaignWork DEF ClaimCampaign
<1>2. CASE BackToReady(w)
  BY <1>0, <1>2, Ends, OutcomeType DEF BackToReady
<1>3. CASE FailStaleMessageClaims(w)
  BY <1>0, <1>3, FailStaleWork DEF FailStaleMessageClaims
<1>4. CASE CountStale(w)
  BY <1>0, <1>4, CountStaleWork DEF CountStale
<1>5. CASE FetchPage(w)
  BY <1>0, <1>5, FetchPageWork DEF FetchPage
<1>6. CASE NextMessage(w)
  BY <1>0, <1>6, NextMessageWork DEF NextMessage
<1>7. ASSUME NEW pc \in {"reserve", "recheck", "gate", "call", "tally"}, Step(w, pc), UNCHANGED job
      PROVE  work' \in [Worker -> Execution] /\ job' \in [Campaign -> Job] /\ OthersSame(w)
  <2>1. [work[w] EXCEPT !.pc = pc] \in Execution
    BY <1>0, <1>7 DEF Execution
  <2>. QED  BY <1>0, <1>7, <2>1, StepView
<1>8. ASSUME NextOne(w), UNCHANGED job
      PROVE  work' \in [Worker -> Execution] /\ job' \in [Campaign -> Job] /\ OthersSame(w)
  BY <1>0, <1>8, NextView DEF NextOne
<1>9. CASE Check(w) \/ reserveMarketingFrequencySlot(w) \/ Recheck(w) \/ Gate(w) \/ Record(w)
        \/ releaseMarketingFrequencySlot(w)
  <2>1. UNCHANGED job
    BY <1>9 DEF Check, reserveMarketingFrequencySlot, Recheck, Gate, Record,
                releaseMarketingFrequencySlot
  <2>2. NextOne(w) \/ \E pc \in {"reserve", "recheck", "gate", "call", "tally"} : Step(w, pc)
    BY <1>9 DEF Check, reserveMarketingFrequencySlot, Recheck, Gate, Record,
                releaseMarketingFrequencySlot
  <2>. QED  BY <1>7, <1>8, <2>1, <2>2
<1>10. CASE Call(w)
  BY <1>0, <1>10, CallWork DEF Call
<1>11. CASE Tally(w)
  BY <1>0, <1>11, TallyWork DEF Tally
<1>12. CASE Finish(w)
  BY <1>0, <1>12, Ends, OutcomeType DEF Finish
<1>13. ASSUME NEW status, CountLeft(w, status)
       PROVE  work' \in [Worker -> Execution] /\ job' \in [Campaign -> Job] /\ OthersSame(w)
  BY <1>0, <1>13, CountLeftWork DEF CountLeft
<1>. QED  BY <1>1, <1>2, <1>3, <1>4, <1>5, <1>6, <1>9, <1>10, <1>11, <1>12, <1>13 DEF WorkerStep

\* The counters of a campaign.
LEMMA CounterTypes ==
    ASSUME TypeOK, NEW k \in Campaign, NEW n \in Nat
    PROVE  /\ [tally EXCEPT ![k].accepted = @ + n] \in [Campaign -> Counters]
           /\ [tally EXCEPT ![k].delivered = @ + n] \in [Campaign -> Counters]
           /\ [tally EXCEPT ![k].failed = @ + n] \in [Campaign -> Counters]
<1>0. /\ tally[k] \in Counters /\ tally[k].accepted \in Nat /\ tally[k].delivered \in Nat
      /\ tally[k].failed \in Nat
  BY DEF TypeOK, Counters
<1>1. /\ tally[k].accepted + n \in Nat /\ tally[k].delivered + n \in Nat
      /\ tally[k].failed + n \in Nat
  BY <1>0
<1>2. /\ [tally[k] EXCEPT !.accepted = @ + n] \in Counters
      /\ [tally[k] EXCEPT !.delivered = @ + n] \in Counters
      /\ [tally[k] EXCEPT !.failed = @ + n] \in Counters
  BY <1>0, <1>1 DEF Counters
<1>. QED  BY <1>2 DEF TypeOK

LEMMA WorkerKeepsTypes ==
    ASSUME IInv, NEW w \in Worker, WorkerStep(w), events' \in Nat
    PROVE  TypeOK'
<1> DEFINE k == work[w].k
<1> DEFINE m == work[w].m
<1>0. /\ TypeOK /\ work[w] \in Execution /\ k \in Campaign
      /\ work' \in [Worker -> Execution] /\ job' \in [Campaign -> Job]
      /\ Carries(w) => m \in Message
  BY WorkerStepTypes DEF IInv, Carriage, TypeOK, Execution, ExecutionSound, Messages
<1>1. CASE ClaimCampaign(w) \/ BackToReady(w) \/ FetchPage(w) \/ Finish(w)
           \/ \E status \in {"PENDING", "SENDING"} : CountLeft(w, status)
  <2>1. \/ UNCHANGED campaigns
        \/ Abandon(w)
        \/ EndCheck /\ UNCHANGED <<campaign, unbudgeted>>
        \/ \E status \in CampaignStatus : SetCampaign(k, status) \/ SetChecked(k, status)
    BY <1>1 DEF ClaimCampaign, BackToReady, FetchPage, Finish, CountLeft, CampaignStatus
  <2>2. /\ campaign' \in [Campaign -> CampaignStatus] /\ unbudgeted' \in SUBSET Message
        /\ budgetCheck' \in BudgetCheck
    BY <1>0, <2>1, StatusType, AbandonType DEF TypeOK, campaigns, EndCheck, BudgetCheck
  <2>3. UNCHANGED <<mail, slots, opposed, tally, request, callbacks, provider>>
    BY <1>1 DEF ClaimCampaign, BackToReady, FetchPage, Finish, CountLeft
  <2>. QED  BY <1>0, <2>2, <2>3 DEF TypeOK, mail, callbacks, provider
<1>2. CASE FailStaleMessageClaims(w)
  <2>1. message' \in [Message -> MessageStatus]
    BY <1>0, <1>2 DEF TypeOK, FailStaleMessageClaims, MessageStatus, Ended
  <2>. QED  BY <1>0, <1>2, <2>1 DEF TypeOK, FailStaleMessageClaims, campaigns, callbacks, provider
<1>3. CASE CountStale(w)
  <2>1. Cardinality(work[w].owe) \in Nat
    BY <1>0, CampaignAssumption, FS_Subset, FS_CardinalityType DEF Execution
  <2>2. tally' = [tally EXCEPT ![k].failed = @ + Cardinality(work[w].owe)]
    BY <1>3 DEF CountStale
  <2>3. tally' \in [Campaign -> Counters]
    BY <1>0, <2>1, <2>2, CounterTypes
  <2>. QED  BY <1>0, <1>3, <2>3 DEF TypeOK, CountStale, campaigns, mail, callbacks, provider
<1>4. CASE NextMessage(w)
  <2>1. message' \in [Message -> MessageStatus]
    <3>1. work[w].page \subseteq Message
      BY <1>0 DEF Execution
    <3>2. message' = message \/ \E n \in Message : message' = [message EXCEPT ![n] = "SENDING"]
      BY <1>4, <3>1 DEF NextMessage
    <3>. QED  BY <1>0, <3>2 DEF TypeOK, MessageStatus
  <2>. QED  BY <1>0, <1>4, <2>1 DEF TypeOK, NextMessage, campaigns, callbacks, provider
<1>5. CASE Check(w) \/ Recheck(w) \/ Gate(w) \/ reserveMarketingFrequencySlot(w) \/ Record(w)
  <2>1. m \in Message
    BY <1>0, <1>5 DEF Check, Recheck, Gate, reserveMarketingFrequencySlot, Record, Carries,
                      Carrying, Early, Late
  <2>2. UNCHANGED message \/ \E status \in MessageStatus : Mark(m, status)
    BY <1>5 DEF Check, Recheck, Gate, reserveMarketingFrequencySlot, Record, MessageStatus, Ended
  <2>3. message' \in [Message -> MessageStatus]
    BY <1>0, <2>1, <2>2, MarkType DEF TypeOK
  <2>4. slots' \in [Customer -> Nat]
    <3>1. Who[m] \in Customer
      BY <2>1, CampaignAssumption
    <3>2. slots' = slots \/ slots' = [slots EXCEPT ![Who[m]] = @ + 1]
      BY <1>5 DEF Check, Recheck, Gate, reserveMarketingFrequencySlot, Record
    <3>3. slots[Who[m]] + 1 \in Nat
      BY <1>0, <3>1 DEF TypeOK
    <3>. QED  BY <1>0, <3>1, <3>2, <3>3 DEF TypeOK
  <2>5. known' \in SUBSET Message
    BY <1>0, <1>5, <2>1 DEF TypeOK, Check, Recheck, Gate, reserveMarketingFrequencySlot, Record
  <2>6. UNCHANGED <<campaigns, opposed, tally, request, callbacks, provider>>
    BY <1>5 DEF Check, Recheck, Gate, reserveMarketingFrequencySlot, Record
  <2>. QED  BY <1>0, <2>3, <2>4, <2>5, <2>6 DEF TypeOK, campaigns, callbacks, provider
<1>6. CASE Call(w)
  <2>1. m \in Message
    BY <1>0, <1>6 DEF Call, Carries, Carrying, Early
  <2>2. calls' \in [Message -> Nat]
    <3>1. calls[m] + 1 \in Nat
      BY <1>0, <2>1 DEF TypeOK
    <3>. QED  BY <1>0, <1>6, <3>1 DEF TypeOK, Call
  <2>3. sent' \in SUBSET Message /\ misreported' \in SUBSET Message
    BY <1>0, <1>6, <2>1 DEF TypeOK, Call
  <2>. QED  BY <1>0, <1>6, <2>2, <2>3 DEF TypeOK, Call, campaigns, mail, callbacks
<1>7. CASE Tally(w)
  <2>1. tally' \in [Campaign -> Counters]
    BY <1>0, <1>7, CounterTypes DEF Tally
  <2>. QED  BY <1>0, <1>7, <2>1 DEF TypeOK, Tally, campaigns, mail, callbacks, provider
<1>8. CASE releaseMarketingFrequencySlot(w)
  <2>1. m \in Message /\ Who[m] \in Customer
    BY <1>0, <1>8, CampaignAssumption
       DEF releaseMarketingFrequencySlot, Carries, Carrying, Late
  <2>2. slots' \in [Customer -> Nat]
    <3>1. slots[Who[m]] \in Nat
      BY <1>0, <2>1 DEF TypeOK
    <3>2. (IF slots[Who[m]] > 0 THEN slots[Who[m]] - 1 ELSE slots[Who[m]]) \in Nat
      BY <3>1
    <3>. QED  BY <1>0, <1>8, <2>1, <3>2 DEF TypeOK, releaseMarketingFrequencySlot
  <2>. QED  BY <1>0, <1>8, <2>2
       DEF TypeOK, releaseMarketingFrequencySlot, campaigns, mail, callbacks, provider
<1>. QED  BY <1>1, <1>2, <1>3, <1>4, <1>5, <1>6, <1>7, <1>8 DEF WorkerStep

\* A callback that is applied, or that the register of oppositions refuses.
LEMMA CallbackTypes ==
    ASSUME TypeOK, NEW m \in Message, NEW cb \in Callback, Apply(m, cb) \/ RegisterFails(m, cb)
    PROVE  /\ row' \in [Message \X Callback -> {"none", "open", "closed"}]
           /\ message' \in [Message -> MessageStatus] /\ tally' \in [Campaign -> Counters]
           /\ opposed' \in SUBSET Customer
<1>0. /\ Who[m] \in Customer /\ Of[m] \in Campaign
      /\ cb \in {"SENT", "DELIVERED", "FAILED", "BOUNCED", "COMPLAINED"}
  BY CampaignAssumption
<1>1. opposed' \in SUBSET Customer
  BY <1>0 DEF TypeOK, Apply, RegisterFails
<1>2. row' \in [Message \X Callback -> {"none", "open", "closed"}]
  BY DEF TypeOK, Apply, RegisterFails, ClosedRows
<1>3. message' \in [Message -> MessageStatus]
  <2>1. message' = message \/ message' = [message EXCEPT ![m] = cb]
    BY DEF Apply, RegisterFails
  <2>. QED  BY <1>0, <2>1 DEF TypeOK, MessageStatus, Ended
<1>4. tally' \in [Campaign -> Counters]
  <2>1. \/ tally' = tally
        \/ tally' = [tally EXCEPT ![Of[m]].delivered = @ + 1]
        \/ tally' = [tally EXCEPT ![Of[m]].failed = @ + 1]
    BY DEF Apply, RegisterFails
  <2>2. /\ [tally EXCEPT ![Of[m]].delivered = @ + 1] \in [Campaign -> Counters]
        /\ [tally EXCEPT ![Of[m]].failed = @ + 1] \in [Campaign -> Counters]
    BY <1>0, CounterTypes
  <2>. QED  BY <2>1, <2>2 DEF TypeOK
<1>. QED  BY <1>1, <1>2, <1>3, <1>4

LEMMA RequestTypes ==
    ASSUME TypeOK, NEW u \in Manager, NEW k \in Campaign,
           NEW op \in {"prepare", "schedule", "send", "cancel", "enqueue"}
    PROVE  /\ [request EXCEPT ![u] = [op |-> op, k |-> k]] \in [Manager -> Request]
           /\ [request EXCEPT ![u] = [op |-> "none"]] \in [Manager -> Request]
           /\ request[u].op # "none" => request[u].k \in Campaign
<1>1. [op |-> op, k |-> k] \in Request /\ [op |-> "none"] \in Request
  BY DEF Request
<1>2. request \in [Manager -> Request] /\ request[u] \in Request
  BY DEF TypeOK
<1>3. request[u].op # "none" => request[u].k \in Campaign
  BY <1>2 DEF Request
<1>. QED  BY <1>1, <1>2, <1>3

\* What the dashboard's requests write.
Asks(u) ==
    \/ CommitPrepare(u) \/ CommitSchedule(u) \/ CommitSend(u) \/ CommitCancel(u)
    \/ RefuseRequest(u) \/ Enqueue(u) \/ EnqueueFails(u) \/ RequestDies(u)
    \/ \E op \in {"prepare", "schedule", "send", "cancel"}, k \in Campaign : BeginRequest(u, op, k)

LEMMA AsksTypes ==
    ASSUME TypeOK, NEW u \in Manager, Asks(u)
    PROVE  /\ request' \in [Manager -> Request] /\ campaign' \in [Campaign -> CampaignStatus]
           /\ unbudgeted' \in SUBSET Message /\ job' \in [Campaign -> Job]
           /\ budgetCheck' \in BudgetCheck
           /\ message' \in [Message -> MessageStatus]
           /\ UNCHANGED <<known, slots, opposed, tally, work, callbacks, provider>>
<1> DEFINE k == request[u].k
<1>1. CASE \E op \in {"prepare", "schedule", "send", "cancel"}, c \in Campaign : BeginRequest(u, op, c)
  <2>1. PICK op \in {"prepare", "schedule", "send", "cancel"}, c \in Campaign : BeginRequest(u, op, c)
    BY <1>1
  <2>2. [request EXCEPT ![u] = [op |-> op, k |-> c]] \in [Manager -> Request]
    BY RequestTypes
  <2>. QED  BY <2>1, <2>2 DEF TypeOK, BeginRequest, campaigns, mail, callbacks, provider
<1>2. CASE RequestDies(u) \/ RefuseRequest(u)
  <2>1. /\ request' = [request EXCEPT ![u] = [op |-> "none"]]
        /\ UNCHANGED <<mail, slots, opposed, tally, job, work, callbacks, provider>>
        /\ \/ Abandon(u)
           \/ EndCheck /\ UNCHANGED <<campaign, unbudgeted>>
    BY <1>2 DEF RequestDies, RefuseRequest, Becomes
  <2>2. UNCHANGED <<campaign, unbudgeted>> /\ budgetCheck' \in BudgetCheck
    BY <2>1, AbandonType DEF EndCheck, BudgetCheck
  <2>3. [request EXCEPT ![u] = [op |-> "none"]] \in [Manager -> Request]
    BY DEF TypeOK, Request
  <2>. QED  BY <2>1, <2>2, <2>3 DEF TypeOK, mail, callbacks, provider
<1>3. CASE CommitCancel(u) \/ EnqueueFails(u) \/ CommitSchedule(u) \/ CommitSend(u)
  <2>1. request[u].op # "none" /\ k \in Campaign
    BY <1>3, CampaignAssumption, RequestTypes
       DEF CommitCancel, EnqueueFails, CommitSchedule, CommitSend
  <2>2. \E status \in CampaignStatus : SetCampaign(k, status) \/ SetChecked(k, status)
    BY <1>3 DEF CommitCancel, EnqueueFails, CommitSchedule, CommitSend, CampaignStatus
  <2>3. request' \in [Manager -> Request]
    <3>1. /\ [request EXCEPT ![u] = [op |-> "none"]] \in [Manager -> Request]
          /\ [request EXCEPT ![u] = [op |-> "enqueue", k |-> k]] \in [Manager -> Request]
      BY <2>1, RequestTypes
    <3>. QED  BY <1>3, <3>1 DEF CommitCancel, EnqueueFails, CommitSchedule, CommitSend, Becomes
  <2>4. job' \in [Campaign -> Job]
    BY <1>3, <2>1, OutcomeType DEF TypeOK, CommitCancel, EnqueueFails, CommitSchedule, CommitSend
  <2>5. UNCHANGED <<mail, slots, opposed, tally, work, callbacks, provider>>
    BY <1>3 DEF CommitCancel, EnqueueFails, CommitSchedule, CommitSend
  <2>. QED  BY <2>1, <2>2, <2>3, <2>4, <2>5, StatusType DEF TypeOK, mail
<1>4. CASE Enqueue(u)
  <2>1. request[u].op # "none" /\ k \in Campaign
    BY <1>4, CampaignAssumption, RequestTypes DEF Enqueue
  <2>. QED  BY <1>4, <2>1, RequestTypes, OutcomeType
            DEF TypeOK, Enqueue, Becomes, campaigns, mail, callbacks, provider
<1>5. CASE CommitPrepare(u)
  <2>1. request[u].op # "none" /\ k \in Campaign
    BY <1>5, CampaignAssumption, RequestTypes DEF CommitPrepare
  <2>2. message' \in [Message -> MessageStatus]
    BY <1>5 DEF TypeOK, CommitPrepare, MessageStatus
  <2>3. campaign' \in [Campaign -> CampaignStatus]
    BY <1>5, <2>1 DEF TypeOK, CommitPrepare, CampaignStatus
  <2>4. unbudgeted' \in SUBSET Message
    BY <1>5, <2>1 DEF TypeOK, CommitPrepare, Messages
  <2>. QED  BY <1>5, <2>1, <2>2, <2>3, <2>4, RequestTypes
            DEF TypeOK, CommitPrepare, Becomes, callbacks, provider
<1>. QED  BY <1>1, <1>2, <1>3, <1>4, <1>5 DEF Asks

\* A callback that comes in, or that the reconciliation takes up again.
Answers(m, cb) == ReceiveCallback(m, cb) \/ ReconcileRow(<<m, cb>>)

LEMMA AnswersFrame ==
    ASSUME TypeOK, NEW m \in Message, NEW cb \in Callback, Answers(m, cb)
    PROVE  /\ \/ m \in known /\ (Apply(m, cb) \/ RegisterFails(m, cb))
              \/ UNCHANGED <<message, tally, opposed>>
           /\ row' \in [Message \X Callback -> {"none", "open", "closed"}]
           /\ listed' \in SUBSET (Message \X Callback)
           /\ UNCHANGED <<campaigns, known, slots, job, work, request, provider>>
<1>1. CASE m \in known /\ (Apply(m, cb) \/ RegisterFails(m, cb))
  BY <1>1, CallbackTypes DEF TypeOK, Answers, ReceiveCallback, ReconcileRow
<1>2. CASE UNCHANGED <<message, tally, opposed>> /\ UNCHANGED row
  BY <1>2 DEF TypeOK, Answers, ReceiveCallback, ReconcileRow
<1>3. CASE /\ UNCHANGED <<message, tally, opposed>>
           /\ row' = [row EXCEPT ![<<m, cb>>] = IF @ = "none" THEN "open" ELSE @]
  BY <1>3 DEF TypeOK, Answers, ReceiveCallback, ReconcileRow
<1>. QED  BY <1>1, <1>2, <1>3 DEF Answers, ReceiveCallback, ReconcileRow

\* The step, taken apart.
LEMMA Steps ==
    ASSUME Next
    PROVE  /\ events' = events \/ events' = events + 1
           /\ \/ \E u \in Manager : Asks(u)
              \/ \E w \in Worker : WorkerStep(w)
              \/ \E w \in Worker, k \in Campaign : TakeJob(w, k)
              \/ \E w \in Worker : Crash(w)
              \/ \E p \in Manager \cup Worker : CountAccepted(p)
              \/ \E k \in Campaign : TakeJobUnconfigured(k)
              \/ \E k \in Campaign : Stall(k)
              \/ \E c \in Customer : Oppose(c)
              \/ ListRows
              \/ \E m \in Message, cb \in Callback : Answers(m, cb)
<1>1. CASE Quiet /\ UNCHANGED events
  <2>1. CASE \E p \in Message \X Callback : ReconcileRow(p)
    <3>1. PICK p \in Message \X Callback : ReconcileRow(p)
      BY <2>1
    <3>2. p[1] \in Message /\ p[2] \in Callback /\ p = <<p[1], p[2]>>
      OBVIOUS
    <3>. QED  BY <1>1, <3>1, <3>2 DEF Answers
  <2>. QED  BY <1>1, <2>1 DEF Quiet, Asks, StallOfTheDead
<1>2. CASE Event /\ events' = events + 1
  BY <1>2 DEF Event, Asks, StallOfTheLiving, Answers
<1>. QED  BY <1>1, <1>2 DEF Next

LEMMA NextKeepsTypes == IInv /\ [Next]_vars => TypeOK'
<1> SUFFICES ASSUME IInv, [Next]_vars
             PROVE  TypeOK'
  OBVIOUS
<1>0. TypeOK
  BY DEF IInv
<1>1. CASE UNCHANGED vars
  BY <1>0, <1>1 DEF TypeOK, vars, campaigns, mail, callbacks, provider
<1>2. CASE Next
  <2>0. events' \in Nat
    BY <1>0, <1>2, Steps DEF TypeOK
  <2>1. ASSUME NEW u \in Manager, Asks(u) PROVE TypeOK'
    BY <1>0, <2>0, <2>1, AsksTypes DEF TypeOK, callbacks, provider
  <2>2. ASSUME NEW w \in Worker, WorkerStep(w) PROVE TypeOK'
    BY <2>0, <2>2, WorkerKeepsTypes
  <2>3. ASSUME NEW w \in Worker, NEW k \in Campaign, TakeJob(w, k) PROVE TypeOK'
    <3>1. work' \in [Worker -> Execution] /\ job' \in [Campaign -> Job]
      BY <1>0, <2>3, TakeJobWork
    <3>2. UNCHANGED <<campaigns, mail, slots, opposed, tally, request, callbacks, provider>>
      BY <2>3 DEF TakeJob
    <3>. QED  BY <1>0, <2>0, <3>1, <3>2 DEF TypeOK, campaigns, mail, callbacks, provider
  <2>4. ASSUME NEW w \in Worker, Crash(w) PROVE TypeOK'
    BY <1>0, <2>0, <2>4, IdleResets, AbandonType DEF TypeOK, Crash, mail, callbacks, provider
  <2>5. ASSUME NEW k \in Campaign, TakeJobUnconfigured(k) PROVE TypeOK'
    <3>1. UNCHANGED campaigns \/ SetCampaign(k, "READY")
      BY <2>5 DEF TakeJobUnconfigured
    <3>2. /\ campaign' \in [Campaign -> CampaignStatus] /\ unbudgeted' \in SUBSET Message
          /\ budgetCheck' \in BudgetCheck
      BY <1>0, <3>1, StatusType DEF TypeOK, campaigns, CampaignStatus
    <3>3. job' \in [Campaign -> Job]
      BY <1>0, <2>5, OutcomeType DEF TypeOK, TakeJobUnconfigured
    <3>4. UNCHANGED <<mail, slots, opposed, tally, work, request, callbacks, provider>>
      BY <2>5 DEF TakeJobUnconfigured
    <3>. QED  BY <1>0, <2>0, <3>2, <3>3, <3>4 DEF TypeOK, mail, callbacks, provider
  <2>6. ASSUME NEW k \in Campaign, Stall(k) PROVE TypeOK'
    <3>1. work' \in [Worker -> Execution] /\ job' \in [Campaign -> Job]
      BY <1>0, <2>6, StallWork
    <3>2. UNCHANGED <<campaigns, mail, slots, opposed, tally, request, callbacks, provider>>
      BY <2>6 DEF Stall
    <3>. QED  BY <1>0, <2>0, <3>1, <3>2 DEF TypeOK, campaigns, mail, callbacks, provider
  <2>7. ASSUME NEW c \in Customer, Oppose(c) PROVE TypeOK'
    BY <1>0, <2>0, <2>7 DEF TypeOK, Oppose, campaigns, mail, callbacks, provider
  <2>8. CASE ListRows
    <3>1. row' \in [Message \X Callback -> {"none", "open", "closed"}]
      BY <1>0, <2>8 DEF TypeOK, ListRows
    <3>2. listed' \in SUBSET (Message \X Callback)
      BY <1>0, <2>8 DEF TypeOK, ListRows
    <3>. QED  BY <1>0, <2>0, <2>8, <3>1, <3>2 DEF TypeOK, ListRows, campaigns, mail, provider
  <2>9. ASSUME NEW m \in Message, NEW cb \in Callback, Answers(m, cb) PROVE TypeOK'
    <3>1. /\ message' \in [Message -> MessageStatus] /\ tally' \in [Campaign -> Counters]
          /\ opposed' \in SUBSET Customer
      BY <1>0, <2>9, AnswersFrame, CallbackTypes DEF TypeOK
    <3>. QED  BY <1>0, <2>0, <2>9, <3>1, AnswersFrame DEF TypeOK, campaigns, provider
  <2>10. ASSUME NEW p \in Manager \cup Worker, CountAccepted(p) PROVE TypeOK'
    <3>1. budgetCheck' \in BudgetCheck
      BY <1>0, <2>10 DEF TypeOK, CountAccepted, BudgetCheck
    <3>. QED  BY <1>0, <2>0, <2>10, <3>1 DEF TypeOK, CountAccepted, mail, callbacks, provider
  <2>. QED  BY <1>2, <2>1, <2>2, <2>3, <2>4, <2>5, <2>6, <2>7, <2>8, <2>9, <2>10, Steps
<1>. QED  BY <1>1, <1>2

(***************************************************************************)
(* What is carried                                                         *)
(***************************************************************************)
\* How the status of a message may change while it is not looked at.
Ages(m) ==
    /\ message'[m] \in {"NONE", "PENDING"} => message[m] \in {"NONE", "PENDING"}
    /\ message[m] \in Failures => message'[m] \in Failures
    /\ message[m] \in Settled => message'[m] \in Settled

\* A step that carries nothing itself.
LEMMA CarriageUndisturbed ==
    ASSUME IInv, \A v \in Worker : SameView(v) \/ Rests(v), \A m \in Message : Ages(m),
           UNCHANGED <<known, calls, sent, misreported>>
    PROVE  Carriage'
<1>0. Carriage /\ \A v \in Worker : ExecutionSound(v)
  BY DEF IInv, Carriage
<1>1. ASSUME NEW v \in Worker
      PROVE  ExecutionSound(v)'
  <2>1. CASE Rests(v)
    BY <2>1 DEF Rests, ExecutionSound, Carries, Carrying, Early, Late
  <2>2. CASE SameView(v)
    <3>1. /\ Carries(v) => work[v].m \in Message
          /\ work[v].owe \subseteq Message
      BY <1>0 DEF ExecutionSound, Messages
    <3>2. /\ Carries(v)' <=> Carries(v)
          /\ Carries(v) => message'[work[v].m] \notin {"NONE", "PENDING"}
          /\ Carries(v) /\ message[work[v].m] \in Failures => message'[work[v].m] \in Failures
          /\ \A m \in work[v].owe : message'[m] \in Failures
      BY <1>0, <2>2, <3>1 DEF SameView, ExecutionSound, Carries, Ages
    <3>3. v \in Worker /\ (work[v].pc \in Late => Carries(v)) /\ (work[v].pc = "tally" => Carries(v))
      BY DEF Carries, Carrying, Late
    <3>. QED  BY <1>0, <2>2, <3>2, <3>3 DEF SameView, ExecutionSound, Messages
  <2>. QED  BY <2>1, <2>2
<1>2. CarriedAlone'
  BY <1>0 DEF Carriage, CarriedAlone, Carries, SameView, Rests
<1>3. ASSUME NEW m \in Message
      PROVE  MessageSound(m)'
  BY <1>0 DEF Carriage, MessageSound, Ages
<1>. QED  BY <1>1, <1>2, <1>3 DEF Carriage

\* A step of an execution on the message it carries.
LEMMA CarriageStep ==
    ASSUME IInv, NEW w \in Worker, NEW m \in Message, Carries(w), work[w].m = m,
           OthersSame(w), ExecutionSound(w)', MessageSound(m)',
           Carries(w)' => work'[w].m = m,
           \A n \in Message \ {m} :
                /\ message'[n] = message[n] /\ calls'[n] = calls[n]
                /\ n \in sent' <=> n \in sent
                /\ n \in misreported' <=> n \in misreported
                /\ n \in known' <=> n \in known,
           message[m] \in Failures => message'[m] \in Failures
    PROVE  Carriage'
<1>0. Carriage
  BY DEF IInv
<1>1. ASSUME NEW v \in Worker
      PROVE  ExecutionSound(v)'
  <2>1. CASE v = w
    BY <2>1
  <2>2. CASE v # w
    <3>0. SameView(v) /\ ExecutionSound(v)
      BY <1>0, <2>2 DEF OthersSame, Carriage
    <3>1. /\ Carries(v) => work[v].m \in Message \ {m}
          /\ work[v].owe \subseteq Message
      BY <1>0, <2>2, <3>0 DEF ExecutionSound, Messages, Carriage, CarriedAlone
    <3>2. \A n \in work[v].owe : message'[n] \in Failures
      BY <3>0, <3>1 DEF ExecutionSound
    <3>3. Carries(v)' <=> Carries(v)
      BY <3>0 DEF Carries, SameView
    <3>4. work[v].pc \in Early \cup Late \/ work[v].pc \in {"tally", "release"} => Carries(v)
      BY DEF Carries, Carrying, Early, Late
    <3>5. CASE Carries(v)
      <4> DEFINE n == work[v].m
      <4>1. /\ message'[n] = message[n] /\ calls'[n] = calls[n]
            /\ n \in sent' <=> n \in sent
            /\ n \in misreported' <=> n \in misreported
            /\ n \in known' <=> n \in known
        BY <3>1, <3>5
      <4>. QED  BY <3>0, <3>2, <3>3, <4>1 DEF ExecutionSound, SameView, Messages
    <3>6. CASE ~Carries(v)
      BY <3>0, <3>2, <3>3, <3>4, <3>6 DEF ExecutionSound, SameView, Messages
    <3>. QED  BY <3>5, <3>6
  <2>. QED  BY <2>1, <2>2
<1>2. CarriedAlone'
  <2> SUFFICES ASSUME NEW u \in Worker, NEW v \in Worker, Carries(u)', Carries(v)',
                      work'[u].m = work'[v].m
               PROVE  u = v
    BY DEF CarriedAlone
  <2>1. /\ Carries(u) /\ work'[u].m = work[u].m
        /\ Carries(v) /\ work'[v].m = work[v].m
    BY DEF OthersSame, SameView, Carries
  <2>. QED  BY <1>0, <2>1 DEF Carriage, CarriedAlone
<1>3. ASSUME NEW n \in Message
      PROVE  MessageSound(n)'
  BY <1>0 DEF Carriage, MessageSound
<1>. QED  BY <1>1, <1>2, <1>3 DEF Carriage

\* The claim of a message: nobody else carries what is PENDING.
LEMMA CarriageClaim ==
    ASSUME IInv, NEW w \in Worker, OthersSame(w), NEW m \in Message, Claims(w, m), ~Carries(w),
           work[w].owe = {}, UNCHANGED <<known, calls, sent, misreported>>
    PROVE  Carriage'
<1>0. /\ Carriage /\ ExecutionSound(w) /\ MessageSound(m)
      /\ message'[m] = "SENDING" /\ message[m] = "PENDING"
      /\ \A n \in Message \ {m} : message'[n] = message[n]
  BY DEF IInv, Carriage, Claims, TypeOK
<1>1. \A v \in Worker \ {w} : Carries(v) => work[v].m \in Message \ {m}
  BY <1>0 DEF Carriage, ExecutionSound, Messages
<1>2. ASSUME NEW v \in Worker
      PROVE  ExecutionSound(v)'
  <2>1. CASE v = w
    BY <1>0, <2>1 DEF Claims, ExecutionSound, MessageSound, Carries, Carrying, Early, Late, Messages
  <2>2. CASE v # w
    <3>0. SameView(v) /\ ExecutionSound(v) /\ work[v].owe \subseteq Message
      BY <1>0, <2>2 DEF OthersSame, Carriage, ExecutionSound, Messages
    <3>2. \A n \in work[v].owe : message'[n] \in Failures
      BY <1>0, <3>0 DEF ExecutionSound, Failures
    <3>3. Carries(v)' <=> Carries(v)
      BY <3>0 DEF Carries, SameView
    <3>4. work[v].pc \in Early \cup Late \/ work[v].pc \in {"tally", "release"} => Carries(v)
      BY DEF Carries, Carrying, Early, Late
    <3>5. Carries(v) => message'[work[v].m] = message[work[v].m]
      BY <1>0, <1>1, <2>2
    <3>. QED  BY <3>0, <3>2, <3>3, <3>4, <3>5 DEF ExecutionSound, SameView, Messages
  <2>. QED  BY <2>1, <2>2
<1>3. CarriedAlone'
  <2> SUFFICES ASSUME NEW u \in Worker, NEW v \in Worker, Carries(u)', Carries(v)',
                      work'[u].m = work'[v].m, u # v
               PROVE  FALSE
    BY DEF CarriedAlone
  <2>1. work'[w].m = m
    BY DEF Claims
  <2>2. \A x \in Worker \ {w} : work'[x].m = work[x].m /\ (Carries(x)' <=> Carries(x))
    BY DEF OthersSame, SameView, Carries
  <2>3. CASE u # w /\ v # w
    BY <1>0, <2>2, <2>3 DEF Carriage, CarriedAlone
  <2>4. CASE u = w \/ v = w
    BY <1>1, <2>1, <2>2, <2>4
  <2>. QED  BY <2>3, <2>4
<1>4. ASSUME NEW n \in Message
      PROVE  MessageSound(n)'
  BY <1>0 DEF Carriage, MessageSound, Settled
<1>. QED  BY <1>2, <1>3, <1>4 DEF Carriage

(***************************************************************************)
(* What a customer's slots are held for                                    *)
(***************************************************************************)
LEMMA FiniteMessages ==
    ASSUME NEW S, S \subseteq Message
    PROVE  IsFiniteSet(S) /\ Cardinality(S) \in Nat
BY CampaignAssumption, FS_Subset, FS_CardinalityType

LEMMA SmallerSet ==
    ASSUME NEW T, T \subseteq Message, NEW S, S \subseteq T
    PROVE  Cardinality(S) <= Cardinality(T)
BY FiniteMessages, FS_Subset

\* No slot is touched, and nothing more holds one.
LEMMA SlotsUntouched ==
    ASSUME IInv, UNCHANGED slots,
           \A m \in Message :
             m \in sent' \ misreported' \/ (\E v \in Worker : Holding(v)' /\ work'[v].m = m) =>
             m \in sent \ misreported \/ (\E v \in Worker : Holding(v) /\ work[v].m = m)
    PROVE  SlotsKept'
<1> SUFFICES ASSUME NEW c \in Customer
             PROVE  Cardinality(Kept(c)') <= slots[c] /\ slots[c] <= Cap
  BY DEF SlotsKept
<1>1. Kept(c)' \subseteq Kept(c) /\ Kept(c) \subseteq Message /\ Kept(c)' \subseteq Message
  BY DEF Kept
<1>2. Cardinality(Kept(c)') <= Cardinality(Kept(c))
  BY <1>1, SmallerSet
<1>3. /\ Cardinality(Kept(c)') \in Nat /\ Cardinality(Kept(c)) \in Nat /\ slots[c] \in Nat
      /\ Cardinality(Kept(c)) <= slots[c] /\ slots[c] <= Cap
  BY <1>1, FiniteMessages DEF IInv, SlotsKept, TypeOK
<1>. QED  BY <1>2, <1>3

\* A step that rests, or only moves on within what it holds.
LEMMA SlotsUndisturbed ==
    ASSUME IInv, UNCHANGED <<slots, sent, misreported>>,
           \A v \in Worker : SameView(v) \/ ~Holding(v)' \/ (Holding(v) /\ work'[v].m = work[v].m)
    PROVE  SlotsKept'
<1>1. \A v \in Worker : Holding(v)' => Holding(v) /\ work'[v].m = work[v].m
  BY DEF SameView, Holding
<1>. QED  BY <1>1, SlotsUntouched

\* The reservation of a slot.
LEMMA SlotReserved ==
    ASSUME IInv, NEW w \in Worker, OthersSame(w), NEW m \in Message, work'[w].m = m,
           UNCHANGED <<sent, misreported>>, slots[Who[m]] < Cap, slots' = [slots EXCEPT ![Who[m]] = @ + 1]
    PROVE  SlotsKept'
<1> SUFFICES ASSUME NEW c \in Customer
             PROVE  Cardinality(Kept(c)') <= slots'[c] /\ slots'[c] <= Cap
  BY DEF SlotsKept
<1>0. /\ Cap \in Nat /\ slots \in [Customer -> Nat] /\ slots[c] \in Nat
      /\ Kept(c) \subseteq Message /\ Kept(c)' \subseteq Message
      /\ Cardinality(Kept(c)) \in Nat /\ Cardinality(Kept(c)') \in Nat
      /\ Cardinality(Kept(c)) <= slots[c] /\ slots[c] <= Cap
  BY CampaignAssumption, FiniteMessages DEF IInv, SlotsKept, TypeOK, Kept
<1>1. \A v \in Worker \ {w} : (Holding(v)' <=> Holding(v)) /\ work'[v].m = work[v].m
  BY DEF OthersSame, SameView, Holding
<1>2. CASE c = Who[m]
  <2>1. Kept(c)' \subseteq Kept(c) \cup {m}
    BY <1>1 DEF Kept
  <2>2. /\ IsFiniteSet(Kept(c) \cup {m}) /\ Cardinality(Kept(c) \cup {m}) \in Nat
        /\ Cardinality(Kept(c) \cup {m}) <= Cardinality(Kept(c)) + 1
    BY <1>0, FiniteMessages, FS_AddElement
  <2>3. Cardinality(Kept(c)') <= Cardinality(Kept(c) \cup {m})
    BY <2>1, <2>2, FS_Subset
  <2>4. slots'[c] = slots[c] + 1 /\ slots[c] < Cap
    BY <1>0, <1>2
  <2>. QED  BY <1>0, <2>2, <2>3, <2>4
<1>3. CASE c # Who[m]
  <2>1. Kept(c)' \subseteq Kept(c)
    BY <1>1, <1>3 DEF Kept
  <2>2. Cardinality(Kept(c)') <= Cardinality(Kept(c))
    BY <1>0, <2>1, SmallerSet
  <2>3. slots'[c] = slots[c]
    BY <1>0, <1>3
  <2>. QED  BY <1>0, <2>2, <2>3
<1>. QED  BY <1>2, <1>3

\* The release of a slot: the message it was held for holds none any more.
LEMMA SlotReleased ==
    ASSUME IInv, NEW w \in Worker, OthersSame(w), NEW m \in Message, work[w].m = m,
           work[w].pc = "release", work'[w].pc = "next", UNCHANGED <<sent, misreported>>,
           slots' = [slots EXCEPT ![Who[m]] = IF @ > 0 THEN @ - 1 ELSE @]
    PROVE  SlotsKept'
<1> SUFFICES ASSUME NEW c \in Customer
             PROVE  Cardinality(Kept(c)') <= slots'[c] /\ slots'[c] <= Cap
  BY DEF SlotsKept
<1>0. /\ Cap \in Nat /\ slots \in [Customer -> Nat] /\ slots[c] \in Nat
      /\ Kept(c) \subseteq Message /\ Kept(c)' \subseteq Message
      /\ Cardinality(Kept(c)) \in Nat /\ Cardinality(Kept(c)') \in Nat
      /\ Cardinality(Kept(c)) <= slots[c] /\ slots[c] <= Cap
  BY CampaignAssumption, FiniteMessages DEF IInv, SlotsKept, TypeOK, Kept
<1>1. /\ \A v \in Worker \ {w} : (Holding(v)' <=> Holding(v)) /\ work'[v].m = work[v].m
      /\ ~Holding(w)'
  BY DEF OthersSame, SameView, Holding, Late
<1>2. /\ Holding(w) /\ m \notin sent \ misreported
      /\ \A v \in Worker \ {w} : Holding(v) => work[v].m # m
  <2>1. ExecutionSound(w) /\ CarriedAlone /\ Carries(w)
    BY DEF IInv, Carriage, Carries, Carrying, Late
  <2>2. \A v \in Worker : Holding(v) => Carries(v)
    BY DEF Holding, Carries, Carrying, Early
  <2>. QED  BY <2>1, <2>2 DEF ExecutionSound, Holding, Late, CarriedAlone
<1>3. CASE c = Who[m]
  <2>1. m \in Kept(c) /\ Kept(c)' \subseteq Kept(c) \ {m}
    BY <1>1, <1>2, <1>3 DEF Kept
  <2>2. /\ IsFiniteSet(Kept(c) \ {m}) /\ Cardinality(Kept(c) \ {m}) = Cardinality(Kept(c)) - 1
        /\ Cardinality(Kept(c) \ {m}) \in Nat
    BY <1>0, <2>1, FiniteMessages, FS_RemoveElement
  <2>3. Cardinality(Kept(c)') <= Cardinality(Kept(c) \ {m})
    BY <2>1, <2>2, FS_Subset
  <2>4. slots'[c] = IF slots[c] > 0 THEN slots[c] - 1 ELSE slots[c]
    BY <1>0, <1>3
  <2>. QED  BY <1>0, <2>2, <2>3, <2>4
<1>4. CASE c # Who[m]
  <2>1. Kept(c)' \subseteq Kept(c)
    BY <1>1, <1>4 DEF Kept
  <2>2. Cardinality(Kept(c)') <= Cardinality(Kept(c))
    BY <1>0, <2>1, SmallerSet
  <2>3. slots'[c] = slots[c]
    BY <1>0, <1>4
  <2>. QED  BY <1>0, <2>2, <2>3
<1>. QED  BY <1>3, <1>4

(***************************************************************************)
(* What is counted                                                         *)
(***************************************************************************)
\* Nothing is counted, and nothing new is owed: what stops being owed, because an
\* execution dies, is never counted.
LEMMA CountsUndisturbed ==
    ASSUME IInv, TypeOK', UNCHANGED tally, known \subseteq known',
           \A m \in Message : /\ message'[m] = "DELIVERED" <=> message[m] = "DELIVERED"
                              /\ message[m] \in Failures => message'[m] \in Failures,
           \A v \in Worker, m \in Message : OwesFailure(v, m)' => OwesFailure(v, m),
           \A v \in Worker, m \in known : OwesSuccess(v, m)' => OwesSuccess(v, m)
    PROVE  Counting'
<1>0. TypeOK /\ OwedOnce /\ CountsSound
  BY DEF IInv, Counting
<1>1. OwedOnce'
  BY <1>0 DEF OwedOnce
<1>2. ASSUME NEW k \in Campaign
      PROVE  /\ tally[k].delivered = Cardinality(In(k, "DELIVERED")')
             /\ tally[k].failed <= Cardinality(CountedFailures(k)')
             /\ tally[k].accepted <= Cardinality(CountedSuccesses(k)')
  <2>1. In(k, "DELIVERED")' = In(k, "DELIVERED")
    BY DEF In, Messages
  <2>2. CountedFailures(k) \subseteq CountedFailures(k)' /\ CountedFailures(k)' \subseteq Message
    BY DEF CountedFailures, Messages
  <2>3. CountedSuccesses(k) \subseteq CountedSuccesses(k)' /\ CountedSuccesses(k)' \subseteq Message
    BY DEF CountedSuccesses, Messages
  <2>4. /\ Cardinality(CountedFailures(k)) <= Cardinality(CountedFailures(k)')
        /\ Cardinality(CountedSuccesses(k)) <= Cardinality(CountedSuccesses(k)')
        /\ Cardinality(CountedFailures(k)) \in Nat /\ Cardinality(CountedSuccesses(k)) \in Nat
        /\ Cardinality(CountedFailures(k)') \in Nat /\ Cardinality(CountedSuccesses(k)') \in Nat
    BY <2>2, <2>3, SmallerSet, FiniteMessages
  <2>5. /\ tally[k].delivered = Cardinality(In(k, "DELIVERED"))
        /\ tally[k].failed <= Cardinality(CountedFailures(k))
        /\ tally[k].accepted <= Cardinality(CountedSuccesses(k))
        /\ tally[k].failed \in Nat /\ tally[k].accepted \in Nat
    BY <1>0 DEF CountsSound, TypeOK, Counters
  <2>. QED  BY <2>1, <2>4, <2>5
<1>3. CountsSound'
  BY <1>2 DEF CountsSound
<1>. QED  BY <1>1, <1>3 DEF Counting

\* One more, or as many as were written.
LEMMA OneMore ==
    ASSUME NEW T, T \subseteq Message, NEW S, S \subseteq T, NEW x \in T \ S,
           NEW n \in Nat, n <= Cardinality(S)
    PROVE  n + 1 <= Cardinality(T)
<1>1. IsFiniteSet(S) /\ S \cup {x} \subseteq T /\ Cardinality(S) \in Nat /\ Cardinality(T) \in Nat
  BY FiniteMessages
<1>2. Cardinality(S \cup {x}) = Cardinality(S) + 1
  BY <1>1, FS_AddElement
<1>3. Cardinality(S \cup {x}) <= Cardinality(T)
  BY <1>1, SmallerSet
<1>. QED  BY <1>1, <1>2, <1>3

LEMMA AsManyMore ==
    ASSUME NEW T, T \subseteq Message, NEW S, S \subseteq T, NEW D, D \subseteq T, S \cap D = {},
           NEW n \in Nat, n <= Cardinality(S)
    PROVE  n + Cardinality(D) <= Cardinality(T)
<1>1. /\ IsFiniteSet(S) /\ IsFiniteSet(D) /\ S \cup D \subseteq T
      /\ Cardinality(S) \in Nat /\ Cardinality(T) \in Nat /\ Cardinality(D) \in Nat
  BY FiniteMessages
<1>2. Cardinality(S \cup D) = Cardinality(S) + Cardinality(D)
  <2>1. Cardinality(S \cup D) = Cardinality(S) + Cardinality(D) - Cardinality(S \cap D)
    BY <1>1, FS_Union
  <2>2. Cardinality(S \cap D) = 0
    BY FS_EmptySet
  <2>. QED  BY <1>1, <2>1, <2>2
<1>3. Cardinality(S \cup D) <= Cardinality(T)
  BY <1>1, SmallerSet
<1>. QED  BY <1>1, <1>2, <1>3

\* The counter of a message that was accepted or failed: it was owed by its
\* execution alone, which now owes it no longer.
LEMMA CountsTallied ==
    ASSUME IInv, TypeOK', NEW w \in Worker, Tally(w)
    PROVE  Counting'
<1>a. /\ TypeOK /\ OwedOnce /\ CountsSound /\ ExecutionSound(w) /\ CarriedAlone
      /\ work[w].pc = "tally" /\ Carries(w)
      /\ tally \in [Campaign -> Counters] /\ work[w] \in Execution
  BY DEF IInv, Counting, Carriage, Carries, Carrying, Late, Tally, TypeOK
<1>b. work[w].k \in Campaign /\ work[w].m \in Message /\ work[w].m \in Messages(work[w].k)
  BY <1>a DEF ExecutionSound, Messages, Execution
<1> SUFFICES ASSUME NEW k \in Campaign, NEW m \in Messages(k), work[w].k = k, work[w].m = m
             PROVE  Counting'
  BY <1>b
<1>0. /\ TypeOK /\ OwedOnce /\ CountsSound /\ ExecutionSound(w) /\ CarriedAlone
      /\ work[w].pc = "tally" /\ Carries(w) /\ m \in Messages(k) /\ m \in Message /\ k \in Campaign
      /\ tally \in [Campaign -> Counters] /\ \A c \in Campaign : tally[c] \in Counters
  BY <1>a, <1>b DEF Messages
<1>1. UNCHANGED <<message, known>>
  BY DEF Tally, mail
<1>2. /\ OthersSame(w) /\ work'[w].pc \in {"release", "next"} /\ work'[w].owe = work[w].owe
  BY <1>0, TallyWork
<1>3. /\ \A v \in Worker, n \in Message : OwesFailure(v, n)' => OwesFailure(v, n)
      /\ \A v \in Worker, n \in Message : OwesSuccess(v, n)' => OwesSuccess(v, n)
      /\ \A n \in Message : ~OwesSuccess(w, n)' /\ (OwesFailure(w, n)' => n \in work[w].owe)
      /\ work[w].owe = {}
  BY <1>0, <1>2 DEF OthersSame, SameView, OwesFailure, OwesSuccess, ExecutionSound
<1>4. OwedOnce'
  BY <1>0, <1>3 DEF OwedOnce
<1>5. ASSUME NEW c \in Campaign
      PROVE  /\ In(c, "DELIVERED")' = In(c, "DELIVERED")
             /\ CountedFailures(c) \subseteq CountedFailures(c)' /\ CountedFailures(c)' \subseteq Message
             /\ CountedSuccesses(c) \subseteq CountedSuccesses(c)' /\ CountedSuccesses(c)' \subseteq Message
             /\ tally[c].delivered = Cardinality(In(c, "DELIVERED"))
             /\ tally[c].failed \in Nat /\ tally[c].accepted \in Nat
             /\ tally[c].failed <= Cardinality(CountedFailures(c))
             /\ tally[c].accepted <= Cardinality(CountedSuccesses(c))
  BY <1>0, <1>1, <1>3
     DEF In, Messages, CountedFailures, CountedSuccesses, CountsSound, Counters
<1>6. ASSUME NEW c \in Campaign
      PROVE  /\ tally[c].failed <= Cardinality(CountedFailures(c)')
             /\ tally[c].accepted <= Cardinality(CountedSuccesses(c)')
  <2>1. /\ Cardinality(CountedFailures(c)) <= Cardinality(CountedFailures(c)')
        /\ Cardinality(CountedSuccesses(c)) <= Cardinality(CountedSuccesses(c)')
        /\ Cardinality(CountedFailures(c)) \in Nat /\ Cardinality(CountedSuccesses(c)) \in Nat
        /\ Cardinality(CountedFailures(c)') \in Nat /\ Cardinality(CountedSuccesses(c)') \in Nat
    BY <1>5, SmallerSet, FiniteMessages
  <2>. QED  BY <1>5, <2>1
<1>7. CASE work[w].answer = "accepted"
  <2>1. /\ \A c \in Campaign : /\ tally'[c].delivered = tally[c].delivered
                               /\ tally'[c].failed = tally[c].failed
                               /\ c # k => tally'[c].accepted = tally[c].accepted
        /\ tally'[k].accepted = tally[k].accepted + 1
    <3>1. tally' = [tally EXCEPT ![k].accepted = @ + 1]
      BY <1>7 DEF Tally
    <3>. QED  BY <1>0, <3>1 DEF Counters
  <2>2. m \in CountedSuccesses(k)' \ CountedSuccesses(k)
    <3>1. OwesSuccess(w, m) /\ m \in known /\ m \in Messages(k)
      BY <1>0, <1>7 DEF ExecutionSound, OwesSuccess
    <3>2. ASSUME NEW v \in Worker, v # w PROVE ~OwesSuccess(v, m)
      BY <1>0, <3>2 DEF CarriedAlone, OwesSuccess, Carries, Carrying, Late
    <3>. QED  BY <1>1, <1>3, <3>1, <3>2 DEF CountedSuccesses, Messages
  <2>3. tally[k].accepted + 1 <= Cardinality(CountedSuccesses(k)')
    BY <1>0, <1>5, <2>2, OneMore
  <2>. QED  BY <1>4, <1>5, <1>6, <2>1, <2>3 DEF Counting, CountsSound
<1>8. CASE work[w].answer # "accepted"
  <2>1. /\ \A c \in Campaign : /\ tally'[c].delivered = tally[c].delivered
                               /\ tally'[c].accepted = tally[c].accepted
                               /\ c # k => tally'[c].failed = tally[c].failed
        /\ tally'[k].failed = tally[k].failed + 1
    <3>1. tally' = [tally EXCEPT ![k].failed = @ + 1]
      BY <1>8 DEF Tally
    <3>. QED  BY <1>0, <3>1 DEF Counters
  <2>2. m \in CountedFailures(k)' \ CountedFailures(k)
    <3>1. OwesFailure(w, m) /\ message[m] \in Failures
      BY <1>0, <1>8 DEF ExecutionSound, OwesFailure
    <3>2. \A v \in Worker : ~OwesFailure(v, m)'
      BY <1>0, <1>3, <3>1 DEF OwedOnce
    <3>. QED  BY <1>0, <1>1, <3>1, <3>2 DEF CountedFailures, Messages
  <2>3. tally[k].failed + 1 <= Cardinality(CountedFailures(k)')
    BY <1>0, <1>5, <2>2, OneMore
  <2>. QED  BY <1>4, <1>5, <1>6, <2>1, <2>3 DEF Counting, CountsSound
<1>. QED  BY <1>7, <1>8

\* The stale claims fail, to be counted by the execution that found them.
LEMMA CountsFailed ==
    ASSUME IInv, TypeOK', NEW w \in Worker, FailStaleMessageClaims(w)
    PROVE  Counting' /\ Carriage' /\ SlotsKept'
<1>0. /\ TypeOK /\ OwedOnce /\ CountsSound /\ Carriage /\ ExecutionSound(w)
      /\ work[w].pc = "stale" /\ ~Carries(w) /\ work[w].owe = {}
      /\ \A m \in Message : message[m] \in MessageStatus
  BY DEF IInv, Counting, Carriage, Carries, Carrying, Early, Late, FailStaleMessageClaims, TypeOK,
         ExecutionSound
<1>1. /\ UNCHANGED <<known, calls, sent, misreported, slots, tally>>
      /\ \A m \in Message : message'[m] = IF m \in Stale(w) THEN "FAILED" ELSE message[m]
  BY <1>0 DEF FailStaleMessageClaims, TypeOK, provider
<1>2. /\ OthersSame(w) /\ work'[w].pc \in {"page", "count stale"} /\ work'[w].owe = Stale(w)
      /\ work'[w].k = work[w].k /\ work'[w].page = work[w].page
      /\ Stale(w) # {} => work'[w].pc = "count stale"
  BY <1>0, FailStaleWork
<1>3. Stale(w) \subseteq Messages(work[w].k) /\ \A m \in Stale(w) : m \in Message /\ message[m] = "SENDING"
  BY DEF Stale, In, Messages
<1> DEFINE stale == Stale(w)
<1>4. /\ stale \subseteq Messages(work[w].k) /\ work'[w].owe = stale /\ stale \subseteq Message
      /\ \A m \in stale : message[m] = "SENDING" /\ message'[m] = "FAILED"
      /\ \A m \in Message \ stale : message'[m] = message[m]
      /\ stale # {} => work'[w].pc = "count stale"
  BY <1>1, <1>2, <1>3
<1> HIDE DEF stale
<1>5. \A m \in Message : Ages(m)
  BY <1>4 DEF Ages, Failures, Settled
<1>6. Carriage'
  <2>1. ASSUME NEW v \in Worker
        PROVE  ExecutionSound(v)'
    <3>1. CASE v = w
      BY <1>0, <1>2, <1>4, <3>1
         DEF ExecutionSound, Carries, Carrying, Early, Late, Failures, Messages
    <3>2. CASE v # w
      <4>0. SameView(v) /\ ExecutionSound(v)
        BY <1>0, <1>2, <3>2 DEF OthersSame, Carriage
      <4>1. (Carries(v) => work[v].m \in Message) /\ work[v].owe \subseteq Message
        BY <4>0 DEF ExecutionSound, Messages
      <4>2. /\ Carries(v)' <=> Carries(v)
            /\ Carries(v) => message'[work[v].m] \notin {"NONE", "PENDING"}
            /\ Carries(v) /\ message[work[v].m] \in Failures => message'[work[v].m] \in Failures
            /\ \A m \in work[v].owe : message'[m] \in Failures
        BY <1>5, <4>0, <4>1 DEF SameView, ExecutionSound, Carries, Ages
      <4>3. (work[v].pc \in Late => Carries(v)) /\ (work[v].pc = "tally" => Carries(v))
        BY DEF Carries, Carrying, Late
      <4>. QED  BY <1>1, <4>0, <4>2, <4>3 DEF SameView, ExecutionSound, Messages
    <3>. QED  BY <3>1, <3>2
  <2>2. CarriedAlone'
    <3>1. ~Carries(w)' /\ \A v \in Worker \ {w} : work'[v].m = work[v].m /\ (Carries(v)' <=> Carries(v))
      BY <1>2 DEF OthersSame, SameView, Carries, Carrying, Early, Late
    <3>. QED  BY <1>0, <3>1 DEF Carriage, CarriedAlone
  <2>3. \A m \in Message : MessageSound(m)'
    BY <1>0, <1>1, <1>5 DEF Carriage, MessageSound, Ages
  <2>. QED  BY <2>1, <2>2, <2>3 DEF Carriage
<1>7. SlotsKept'
  <2>1. \A v \in Worker : SameView(v) \/ ~Holding(v)'
    BY <1>2 DEF OthersSame, Holding, Late
  <2>. QED  BY <1>1, <2>1, SlotsUndisturbed
<1>8. /\ \A v \in Worker, m \in Message : OwesFailure(v, m)' => OwesFailure(v, m) \/ (v = w /\ m \in stale)
      /\ \A v \in Worker, m \in Message : OwesSuccess(v, m)' => OwesSuccess(v, m)
      /\ \A v \in Worker, m \in Message : OwesFailure(v, m) => message[m] \in Failures
  <2>1. ASSUME NEW v \in Worker, NEW m \in Message, OwesFailure(v, m)
        PROVE  message[m] \in Failures
    <3>1. ExecutionSound(v) /\ (work[v].pc = "tally" => Carries(v))
      BY <1>0 DEF Carriage, Carries, Carrying, Late
    <3>. QED  BY <2>1, <3>1 DEF OwesFailure, ExecutionSound
  <2>. QED  BY <1>2, <1>4, <2>1 DEF OthersSame, SameView, OwesFailure, OwesSuccess
<1>9. OwedOnce'
  <2>1. \A m \in stale : message[m] \notin Failures
    BY <1>4 DEF Failures
  <2>2. ASSUME NEW u \in Worker, NEW v \in Worker, NEW m \in Message,
               OwesFailure(u, m)', OwesFailure(v, m)'
        PROVE  u = v
    BY <1>0, <1>8, <2>1, <2>2 DEF OwedOnce
  <2>. QED  BY <2>2 DEF OwedOnce
<1>10. ASSUME NEW c \in Campaign
       PROVE  /\ tally[c].delivered = Cardinality(In(c, "DELIVERED")')
              /\ tally[c].failed <= Cardinality(CountedFailures(c)')
              /\ tally[c].accepted <= Cardinality(CountedSuccesses(c)')
  <2>1. In(c, "DELIVERED")' = In(c, "DELIVERED")
    <3>1. \A m \in Message : message'[m] = "DELIVERED" <=> message[m] = "DELIVERED"
      BY <1>4
    <3>. QED  BY <3>1 DEF In, Messages
  <2>2. CountedFailures(c) \subseteq CountedFailures(c)' /\ CountedFailures(c)' \subseteq Message
    <3>1. \A m \in CountedFailures(c) : m \in Message /\ m \notin stale
      BY <1>4 DEF CountedFailures, Messages, Failures
    <3>. QED  BY <1>4, <1>8, <3>1 DEF CountedFailures, Messages
  <2>3. CountedSuccesses(c) \subseteq CountedSuccesses(c)' /\ CountedSuccesses(c)' \subseteq Message
    BY <1>1, <1>8 DEF CountedSuccesses, Messages
  <2>4. /\ Cardinality(CountedFailures(c)) <= Cardinality(CountedFailures(c)')
        /\ Cardinality(CountedSuccesses(c)) <= Cardinality(CountedSuccesses(c)')
        /\ Cardinality(CountedFailures(c)) \in Nat /\ Cardinality(CountedSuccesses(c)) \in Nat
        /\ Cardinality(CountedFailures(c)') \in Nat /\ Cardinality(CountedSuccesses(c)') \in Nat
    BY <2>2, <2>3, SmallerSet, FiniteMessages
  <2>5. /\ tally[c].delivered = Cardinality(In(c, "DELIVERED"))
        /\ tally[c].failed <= Cardinality(CountedFailures(c))
        /\ tally[c].accepted <= Cardinality(CountedSuccesses(c))
        /\ tally[c].failed \in Nat /\ tally[c].accepted \in Nat
    BY <1>0 DEF CountsSound, TypeOK, Counters
  <2>. QED  BY <2>1, <2>4, <2>5
<1>. QED  BY <1>1, <1>6, <1>7, <1>9, <1>10 DEF Counting, CountsSound

\* They are counted, all at once, by the only execution that owes them.
LEMMA StaleCounted ==
    ASSUME IInv, TypeOK', NEW w \in Worker, CountStale(w)
    PROVE  Counting' /\ Carriage' /\ SlotsKept'
<1>a. /\ TypeOK /\ OwedOnce /\ CountsSound /\ ExecutionSound(w)
      /\ work[w].pc = "count stale" /\ tally \in [Campaign -> Counters] /\ work[w] \in Execution
  BY DEF IInv, Counting, Carriage, CountStale, TypeOK
<1>b. work[w].k \in Campaign
  BY <1>a DEF Execution
<1> SUFFICES ASSUME NEW k \in Campaign, NEW owe, work[w].k = k, work[w].owe = owe
             PROVE  Counting' /\ Carriage' /\ SlotsKept'
  BY <1>b
<1>0. /\ \A m \in owe : m \in Messages(k) /\ m \in Message /\ message[m] \in Failures
      /\ owe \subseteq Messages(k) /\ owe \subseteq Message
      /\ \A c \in Campaign : tally[c] \in Counters
      /\ work[w].page \subseteq Messages(k)
  BY <1>a DEF ExecutionSound, Messages
<1>1. /\ UNCHANGED <<message, known, slots, calls, sent, misreported>>
      /\ tally' = [tally EXCEPT ![k].failed = @ + Cardinality(owe)]
  BY DEF CountStale, mail, provider
<1>2. /\ OthersSame(w) /\ work'[w].pc = "page" /\ work'[w].owe = {}
      /\ work'[w].k = k /\ work'[w].page = work[w].page
  BY <1>a, CountStaleWork
<1>3. Carriage' /\ SlotsKept'
  <2>1. \A v \in Worker : SameView(v) \/ Rests(v)
    BY <1>0, <1>2 DEF OthersSame, Rests, Carrying, Early, Late
  <2>2. \A m \in Message : Ages(m)
    BY <1>1 DEF Ages
  <2>3. \A v \in Worker : SameView(v) \/ ~Holding(v)'
    BY <2>1 DEF Rests, Holding, Carrying, Early
  <2>. QED  BY <1>1, <2>1, <2>2, <2>3, CarriageUndisturbed, SlotsUndisturbed
<1>4. /\ \A v \in Worker, n \in Message : OwesFailure(v, n)' => OwesFailure(v, n)
      /\ \A v \in Worker, n \in Message : OwesSuccess(v, n)' => OwesSuccess(v, n)
      /\ \A n \in Message : ~OwesFailure(w, n)'
      /\ \A n \in owe : OwesFailure(w, n)
  BY <1>2 DEF OthersSame, SameView, OwesFailure, OwesSuccess
<1>5. OwedOnce'
  BY <1>a, <1>4 DEF OwedOnce
<1>6. ASSUME NEW c \in Campaign
      PROVE  /\ In(c, "DELIVERED")' = In(c, "DELIVERED")
             /\ CountedFailures(c) \subseteq CountedFailures(c)' /\ CountedFailures(c)' \subseteq Message
             /\ CountedSuccesses(c) \subseteq CountedSuccesses(c)' /\ CountedSuccesses(c)' \subseteq Message
             /\ tally[c].delivered = Cardinality(In(c, "DELIVERED"))
             /\ tally[c].failed \in Nat /\ tally[c].accepted \in Nat
             /\ tally[c].failed <= Cardinality(CountedFailures(c))
             /\ tally[c].accepted <= Cardinality(CountedSuccesses(c))
  BY <1>a, <1>0, <1>1, <1>4
     DEF In, Messages, CountedFailures, CountedSuccesses, CountsSound, Counters
<1>7. ASSUME NEW c \in Campaign
      PROVE  /\ tally[c].failed <= Cardinality(CountedFailures(c)')
             /\ tally[c].accepted <= Cardinality(CountedSuccesses(c)')
  <2>1. /\ Cardinality(CountedFailures(c)) <= Cardinality(CountedFailures(c)')
        /\ Cardinality(CountedSuccesses(c)) <= Cardinality(CountedSuccesses(c)')
        /\ Cardinality(CountedFailures(c)) \in Nat /\ Cardinality(CountedSuccesses(c)) \in Nat
        /\ Cardinality(CountedFailures(c)') \in Nat /\ Cardinality(CountedSuccesses(c)') \in Nat
    BY <1>6, SmallerSet, FiniteMessages
  <2>. QED  BY <1>6, <2>1
<1>8. /\ \A c \in Campaign : /\ tally'[c].delivered = tally[c].delivered
                             /\ tally'[c].accepted = tally[c].accepted
                             /\ c # k => tally'[c].failed = tally[c].failed
      /\ tally'[k].failed = tally[k].failed + Cardinality(owe)
  BY <1>a, <1>0, <1>1 DEF Counters
<1>9. tally[k].failed + Cardinality(owe) <= Cardinality(CountedFailures(k)')
  <2>1. CountedFailures(k) \cap owe = {}
    BY <1>4 DEF CountedFailures
  <2>2. owe \subseteq CountedFailures(k)'
    <3>1. ASSUME NEW n \in owe, NEW v \in Worker, OwesFailure(v, n)'
          PROVE  FALSE
      <4>1. n \in Message /\ OwesFailure(v, n) /\ OwesFailure(w, n) /\ ~OwesFailure(w, n)'
        BY <1>0, <1>4, <3>1
      <4>2. v = w
        BY <1>a, <4>1 DEF OwedOnce
      <4>. QED  BY <3>1, <4>1, <4>2
    <3>. QED  BY <1>0, <1>1, <3>1 DEF CountedFailures, Messages
  <2>. QED  BY <1>6, <2>1, <2>2, AsManyMore
<1>. QED  BY <1>3, <1>5, <1>6, <1>7, <1>8, <1>9 DEF Counting, CountsSound

\* A result is written, if the claim is still SENDING: the execution owes its count.
LEMMA ResultRecorded ==
    ASSUME IInv, TypeOK', NEW w \in Worker, Record(w)
    PROVE  Counting' /\ Carriage' /\ SlotsKept'
<1>a. /\ TypeOK /\ OwedOnce /\ CountsSound /\ Carriage /\ ExecutionSound(w)
      /\ work[w].pc = "record" /\ Carries(w) /\ work \in [Worker -> Execution]
      /\ work[w] \in Execution /\ work[w].owe = {}
  BY DEF IInv, Counting, Carriage, Record, TypeOK, Carries, Carrying, Late, ExecutionSound
<1>b. work[w].m \in Message /\ work[w].m \in Messages(work[w].k)
  BY <1>a DEF ExecutionSound, Messages
<1> SUFFICES ASSUME NEW m \in Message, work[w].m = m
             PROVE  Counting' /\ Carriage' /\ SlotsKept'
  BY <1>b
<1> DEFINE accepted == work[w].answer = "accepted"
<1>1. /\ UNCHANGED <<calls, sent, misreported, slots, tally>>
      /\ message'[m] = IF message[m] = "SENDING" THEN IF accepted THEN "ACCEPTED" ELSE "FAILED"
                       ELSE message[m]
      /\ \A n \in Message \ {m} : message'[n] = message[n]
      /\ known' = IF message[m] = "SENDING" /\ accepted THEN known \cup {m} ELSE known
  <2>1. Mark(m, IF accepted THEN "ACCEPTED" ELSE "FAILED")
    BY DEF Record
  <2>2. (IF accepted THEN "ACCEPTED" ELSE "FAILED") \in MessageStatus
    BY DEF MessageStatus, Ended
  <2>. QED  BY <1>a, <2>1, <2>2, MarkType DEF Record, provider
<1>2. /\ work' \in [Worker -> Execution] /\ OthersSame(w)
      /\ work'[w].k = work[w].k /\ work'[w].page = work[w].page /\ work'[w].owe = {}
      /\ \/ /\ message[m] = "SENDING" /\ work'[w].pc = "tally" /\ work'[w].m = m
            /\ work'[w].answer = work[w].answer
         \/ message[m] # "SENDING" /\ work'[w].pc = "next"
  <2>1. CASE message[m] = "SENDING"
    <3>1. [work[w] EXCEPT !.pc = "tally"] \in Execution
      BY <1>a DEF Execution
    <3>2. Step(w, "tally")
      BY <2>1 DEF Record
    <3>. QED  BY <1>a, <2>1, <3>1, <3>2, StepView
  <2>2. CASE message[m] # "SENDING"
    <3>1. GoOn(w, ToNext(work[w]))
      BY <2>2 DEF Record, NextOne
    <3>. QED  BY <1>a, <2>2, <3>1, NextView
  <2>. QED  BY <2>1, <2>2
<1> HIDE DEF accepted
<1>3. /\ MessageSound(m) /\ calls[m] = 1 /\ message[m] \notin {"NONE", "PENDING"}
      /\ accepted => m \in sent
      /\ m \in known => message[m] \in Settled
  BY <1>a DEF Carriage, ExecutionSound, Late, MessageSound, accepted
<1>4. Carriage'
  <2>1. ExecutionSound(w)'
    BY <1>a, <1>1, <1>2, <1>3
       DEF ExecutionSound, Carries, Carrying, Early, Late, Messages, Failures, accepted
  <2>2. MessageSound(m)'
    BY <1>1, <1>3 DEF MessageSound, Settled
  <2>3. message[m] \in Failures => message'[m] \in Failures
    BY <1>1 DEF Failures
  <2>4. Carries(w)' => work'[w].m = m
    BY <1>2 DEF Carries, Carrying, Early, Late
  <2>. QED  BY <1>a, <1>1, <1>2, <2>1, <2>2, <2>3, <2>4, CarriageStep
<1>5. SlotsKept'
  <2>1. ASSUME NEW v \in Worker
        PROVE  SameView(v) \/ ~Holding(v)' \/ (Holding(v) /\ work'[v].m = work[v].m)
    <3>1. CASE v = w
      BY <1>a, <1>2, <3>1 DEF Holding, Late
    <3>. QED  BY <1>2, <3>1 DEF OthersSame
  <2>. QED  BY <1>1, <2>1, SlotsUndisturbed
<1>6. CASE message[m] # "SENDING"
  <2>1. UNCHANGED <<known>> /\ \A n \in Message : message'[n] = message[n]
    BY <1>1, <1>6
  <2>2. /\ \A v \in Worker, n \in Message : OwesFailure(v, n)' => OwesFailure(v, n)
        /\ \A v \in Worker, n \in Message : OwesSuccess(v, n)' => OwesSuccess(v, n)
    BY <1>2, <1>6 DEF OthersSame, SameView, OwesFailure, OwesSuccess
  <2>. QED  BY <1>1, <1>4, <1>5, <2>1, <2>2, CountsUndisturbed DEF IInv, TypeOK
<1>7. CASE message[m] = "SENDING"
  <2>0. m \notin known /\ message[m] \notin Failures
    BY <1>3, <1>7 DEF Settled, Failures
  <2>1. /\ \A v \in Worker, n \in Message : OwesFailure(v, n)' => OwesFailure(v, n) \/ (v = w /\ n = m /\ ~accepted)
        /\ \A v \in Worker, n \in Message : OwesSuccess(v, n)' => OwesSuccess(v, n) \/ (n = m /\ accepted)
        /\ \A v \in Worker : ~OwesFailure(v, m)
        /\ accepted => OwesSuccess(w, m)'
        /\ ~accepted => OwesFailure(w, m)'
    <3>1. \A v \in Worker : OwesFailure(v, m) => message[m] \in Failures
      <4>1. ASSUME NEW v \in Worker, OwesFailure(v, m) PROVE message[m] \in Failures
        <5>1. ExecutionSound(v) /\ (work[v].pc = "tally" => Carries(v))
          BY <1>a DEF Carriage, Carries, Carrying, Late
        <5>. QED  BY <4>1, <5>1 DEF OwesFailure, ExecutionSound
      <4>. QED  BY <4>1
    <3>. QED  BY <1>2, <1>7, <2>0, <3>1 DEF OthersSame, SameView, OwesFailure, OwesSuccess, accepted
  <2>2. OwedOnce'
    <3>1. ASSUME NEW u \in Worker, NEW v \in Worker, NEW n \in Message,
                 OwesFailure(u, n)', OwesFailure(v, n)'
          PROVE  u = v
      BY <1>a, <2>1, <3>1 DEF OwedOnce
    <3>. QED  BY <3>1 DEF OwedOnce
  <2>3. ASSUME NEW c \in Campaign
        PROVE  /\ tally[c].delivered = Cardinality(In(c, "DELIVERED")')
               /\ tally[c].failed <= Cardinality(CountedFailures(c)')
               /\ tally[c].accepted <= Cardinality(CountedSuccesses(c)')
    <3>1. In(c, "DELIVERED")' = In(c, "DELIVERED")
      <4>1. \A n \in Message : message'[n] = "DELIVERED" <=> message[n] = "DELIVERED"
        BY <1>1, <1>7
      <4>. QED  BY <4>1 DEF In, Messages
    <3>2. CountedFailures(c) \subseteq CountedFailures(c)' /\ CountedFailures(c)' \subseteq Message
      <4>1. \A n \in CountedFailures(c) : n \in Message \ {m}
        BY <2>0 DEF CountedFailures, Messages
      <4>. QED  BY <1>1, <2>1, <4>1 DEF CountedFailures, Messages
    <3>3. CountedSuccesses(c) \subseteq CountedSuccesses(c)' /\ CountedSuccesses(c)' \subseteq Message
      BY <1>1, <2>0, <2>1 DEF CountedSuccesses, Messages
    <3>4. /\ Cardinality(CountedFailures(c)) <= Cardinality(CountedFailures(c)')
          /\ Cardinality(CountedSuccesses(c)) <= Cardinality(CountedSuccesses(c)')
          /\ Cardinality(CountedFailures(c)) \in Nat /\ Cardinality(CountedSuccesses(c)) \in Nat
          /\ Cardinality(CountedFailures(c)') \in Nat /\ Cardinality(CountedSuccesses(c)') \in Nat
      BY <3>2, <3>3, SmallerSet, FiniteMessages
    <3>5. /\ tally[c].delivered = Cardinality(In(c, "DELIVERED"))
          /\ tally[c].failed <= Cardinality(CountedFailures(c))
          /\ tally[c].accepted <= Cardinality(CountedSuccesses(c))
          /\ tally[c].failed \in Nat /\ tally[c].accepted \in Nat
      BY <1>a DEF CountsSound, TypeOK, Counters
    <3>. QED  BY <3>1, <3>4, <3>5
  <2>. QED  BY <1>1, <1>4, <1>5, <2>2, <2>3 DEF Counting, CountsSound
<1>. QED  BY <1>6, <1>7

\* A callback counts what it changes, in its transaction.
LEMMA CallbackCounted ==
    ASSUME IInv, TypeOK', NEW m \in Message, NEW cb \in Callback, Answers(m, cb)
    PROVE  Counting' /\ Carriage' /\ SlotsKept'
<1>a. /\ TypeOK /\ OwedOnce /\ CountsSound /\ Carriage
      /\ cb \in {"SENT", "DELIVERED", "FAILED", "BOUNCED", "COMPLAINED"}
      /\ UNCHANGED <<known, slots, work, calls, sent, misreported>>
  BY AnswersFrame, CampaignAssumption DEF IInv, Counting, provider
<1> SUFFICES ASSUME NEW k \in Campaign, Of[m] = k
             PROVE  Counting' /\ Carriage' /\ SlotsKept'
  BY CampaignAssumption
<1>0. /\ m \in Messages(k) /\ \A c \in Campaign \ {k} : m \notin Messages(c)
      /\ \A v \in Worker : SameView(v)
      /\ \A v \in Worker, n \in Message : OwesFailure(v, n)' <=> OwesFailure(v, n)
      /\ \A v \in Worker, n \in Message : OwesSuccess(v, n)' <=> OwesSuccess(v, n)
      /\ \A v \in Worker : Holding(v)' <=> Holding(v)
  BY <1>a DEF Messages, SameView, OwesFailure, OwesSuccess, Holding
<1>1. SlotsKept'
  BY <1>a, <1>0, SlotsUndisturbed
<1>2. CASE UNCHANGED <<message, tally>>
  <2>1. \A n \in Message : Ages(n)
    BY <1>2 DEF Ages
  <2>2. Counting'
    BY <1>a, <1>0, <1>2, CountsUndisturbed DEF TypeOK
  <2>. QED  BY <1>a, <1>0, <1>1, <2>1, <2>2, CarriageUndisturbed
<1>3. CASE Apply(m, cb) /\ canTransition(message[m], cb)
  <2>1. /\ message[m] \in {"ACCEPTED", "SENT"} /\ message'[m] = cb
        /\ \A n \in Message \ {m} : message'[n] = message[n]
        /\ message[m] \notin Failures
    BY <1>a, <1>3 DEF Apply, canTransition, TypeOK, Failures
  <2>2. Carriage'
    <3>1. \A n \in Message : Ages(n)
      BY <1>a, <2>1 DEF Ages, Failures, Settled
    <3>. QED  BY <1>a, <1>0, <3>1, CarriageUndisturbed
  <2>3. OwedOnce'
    BY <1>a, <1>0 DEF OwedOnce
  <2>4. \A v \in Worker : ~OwesFailure(v, m)
    <3>1. ASSUME NEW v \in Worker, OwesFailure(v, m) PROVE FALSE
      <4>1. ExecutionSound(v) /\ (work[v].pc = "tally" => Carries(v))
        BY <1>a DEF Carriage, Carries, Carrying, Late
      <4>. QED  BY <2>1, <3>1, <4>1 DEF OwesFailure, ExecutionSound
    <3>. QED  BY <3>1
  <2>5. ASSUME NEW c \in Campaign
        PROVE  /\ CountedFailures(c) \subseteq CountedFailures(c)' /\ CountedFailures(c)' \subseteq Message
               /\ CountedSuccesses(c)' = CountedSuccesses(c)
               /\ tally[c].delivered = Cardinality(In(c, "DELIVERED"))
               /\ tally[c].failed \in Nat /\ tally[c].accepted \in Nat
               /\ tally[c].failed <= Cardinality(CountedFailures(c))
               /\ tally[c].accepted <= Cardinality(CountedSuccesses(c))
    <3>1. \A n \in CountedFailures(c) : n \in Message \ {m}
      BY <2>1 DEF CountedFailures, Messages
    <3>2. CountedFailures(c) \subseteq CountedFailures(c)' /\ CountedFailures(c)' \subseteq Message
      BY <1>0, <2>1, <3>1 DEF CountedFailures, Messages
    <3>3. CountedSuccesses(c)' = CountedSuccesses(c)
      BY <1>a, <1>0 DEF CountedSuccesses, Messages
    <3>. QED  BY <1>a, <3>2, <3>3 DEF CountsSound, TypeOK, Counters
  <2>6. ASSUME NEW c \in Campaign
        PROVE  tally[c].failed <= Cardinality(CountedFailures(c)')
    <3>1. /\ Cardinality(CountedFailures(c)) <= Cardinality(CountedFailures(c)')
          /\ Cardinality(CountedFailures(c)) \in Nat /\ Cardinality(CountedFailures(c)') \in Nat
      BY <2>5, SmallerSet, FiniteMessages
    <3>. QED  BY <2>5, <3>1
  <2>7. CASE cb = "DELIVERED"
    <3>1. /\ \A c \in Campaign : /\ tally'[c].failed = tally[c].failed
                                 /\ tally'[c].accepted = tally[c].accepted
                                 /\ c # k => tally'[c].delivered = tally[c].delivered
          /\ tally'[k].delivered = tally[k].delivered + 1
      <4>1. tally' = [tally EXCEPT ![k].delivered = @ + 1]
        BY <1>3, <2>7 DEF Apply, Failures
      <4>2. tally \in [Campaign -> Counters] /\ \A c \in Campaign : tally[c] \in Counters
        BY <1>a DEF TypeOK
      <4>. QED  BY <4>1, <4>2 DEF Counters
    <3>2. In(k, "DELIVERED")' = In(k, "DELIVERED") \cup {m} /\ m \notin In(k, "DELIVERED")
      BY <1>0, <2>1, <2>7 DEF In, Messages
    <3>3. \A c \in Campaign \ {k} : In(c, "DELIVERED")' = In(c, "DELIVERED")
      BY <1>0, <2>1 DEF In, Messages
    <3>4. Cardinality(In(k, "DELIVERED")') = Cardinality(In(k, "DELIVERED")) + 1
      <4>1. In(k, "DELIVERED") \subseteq Message
        BY DEF In, Messages
      <4>2. IsFiniteSet(In(k, "DELIVERED"))
        BY <4>1, FiniteMessages
      <4>. QED  BY <3>2, <4>2, FS_AddElement
    <3>. QED  BY <1>1, <2>2, <2>3, <2>5, <2>6, <3>1, <3>3, <3>4 DEF Counting, CountsSound
  <2>8. ASSUME cb # "DELIVERED"
        PROVE  \A c \in Campaign : In(c, "DELIVERED")' = In(c, "DELIVERED")
    BY <2>1, <2>8 DEF In, Messages
  <2>9. CASE cb \in Failures
    <3>1. /\ \A c \in Campaign : /\ tally'[c].delivered = tally[c].delivered
                                 /\ tally'[c].accepted = tally[c].accepted
                                 /\ c # k => tally'[c].failed = tally[c].failed
          /\ tally'[k].failed = tally[k].failed + 1
      <4>1. tally' = [tally EXCEPT ![k].failed = @ + 1]
        BY <1>3, <2>9 DEF Apply, Failures
      <4>2. tally \in [Campaign -> Counters] /\ \A c \in Campaign : tally[c] \in Counters
        BY <1>a DEF TypeOK
      <4>. QED  BY <4>1, <4>2 DEF Counters
    <3>2. m \in CountedFailures(k)' \ CountedFailures(k)
      <4>1. m \notin CountedFailures(k)
        BY <2>1 DEF CountedFailures
      <4>2. m \in CountedFailures(k)'
        BY <1>0, <2>1, <2>4, <2>9 DEF CountedFailures, Messages
      <4>. QED  BY <4>1, <4>2
    <3>3. tally[k].failed + 1 <= Cardinality(CountedFailures(k)')
      BY <2>5, <3>2, OneMore
    <3>4. cb # "DELIVERED"
      BY <2>9 DEF Failures
    <3>. QED  BY <1>1, <2>2, <2>3, <2>5, <2>6, <2>8, <3>1, <3>3, <3>4 DEF Counting, CountsSound
  <2>10. CASE cb = "SENT"
    <3>1. UNCHANGED tally
      BY <1>3, <2>10 DEF Apply, Failures
    <3>. QED  BY <1>1, <2>2, <2>3, <2>5, <2>6, <2>8, <2>10, <3>1 DEF Counting, CountsSound
  <2>. QED  BY <1>a, <2>7, <2>9, <2>10 DEF Failures
<1>4. \/ UNCHANGED <<message, tally>>
      \/ Apply(m, cb) /\ canTransition(message[m], cb)
  <2>1. Apply(m, cb) /\ ~canTransition(message[m], cb) => UNCHANGED <<message, tally>>
    BY DEF Apply
  <2>. QED  BY <1>a, <2>1, AnswersFrame DEF RegisterFails
<1>. QED  BY <1>2, <1>3, <1>4

(***************************************************************************)
(* The other steps                                                         *)
(***************************************************************************)
LEMMA CalmKeeps ==
    ASSUME IInv, TypeOK', \A v \in Worker : SameView(v) \/ Rests(v),
           UNCHANGED <<message, known, calls, sent, misreported, slots, tally>>
    PROVE  Counting' /\ Carriage' /\ SlotsKept'
<1>1. \A m \in Message : Ages(m)
  BY DEF Ages
<1>2. \A v \in Worker : SameView(v) \/ ~Holding(v)'
  BY DEF Rests, Holding, Carrying, Early
<1>3. /\ \A v \in Worker, m \in Message : OwesFailure(v, m)' => OwesFailure(v, m)
      /\ \A v \in Worker, m \in Message : OwesSuccess(v, m)' => OwesSuccess(v, m)
  BY DEF SameView, Rests, OwesFailure, OwesSuccess, Carrying, Late
<1>4. known \subseteq Message
  BY DEF IInv, TypeOK
<1>. QED  BY <1>1, <1>2, <1>3, <1>4, CarriageUndisturbed, SlotsUndisturbed, CountsUndisturbed

\* A message that is given up before the provider, or that goes on to it.
LEMMA EarlyKeeps ==
    ASSUME IInv, TypeOK', NEW w \in Worker,
           Check(w) \/ reserveMarketingFrequencySlot(w) \/ Recheck(w) \/ Gate(w)
    PROVE  Counting' /\ Carriage' /\ SlotsKept'
<1>a. /\ TypeOK /\ Carriage /\ ExecutionSound(w)
      /\ work[w].pc \in {"check", "reserve", "recheck", "gate"} /\ Carries(w)
      /\ work \in [Worker -> Execution] /\ work[w] \in Execution /\ work[w].owe = {}
  BY DEF IInv, Carriage, Check, reserveMarketingFrequencySlot, Recheck, Gate, TypeOK, Carries,
         Carrying, Early, ExecutionSound
<1>b. work[w].m \in Message
  BY <1>a DEF ExecutionSound, Messages
<1> SUFFICES ASSUME NEW m \in Message, work[w].m = m
             PROVE  Counting' /\ Carriage' /\ SlotsKept'
  BY <1>b
<1>1. UNCHANGED <<known, calls, sent, misreported, tally>>
  BY DEF Check, reserveMarketingFrequencySlot, Recheck, Gate, mail, provider
<1>2. /\ MessageSound(m) /\ calls[m] = 0 /\ message[m] \notin {"NONE", "PENDING"}
  BY <1>a DEF Carriage, ExecutionSound, Early
<1>3. CASE NextOne(w) /\ UNCHANGED slots /\ (Mark(m, "CANCELLED") \/ Mark(m, "PENDING"))
  <2>1. /\ message'[m] = message[m] \/ (message[m] = "SENDING" /\ message'[m] \in {"CANCELLED", "PENDING"})
        /\ \A n \in Message \ {m} : message'[n] = message[n]
    BY <1>a, <1>3, MarkType DEF MessageStatus, Ended
  <2>2. /\ OthersSame(w) /\ work'[w].pc = "next" /\ work'[w].k = work[w].k
        /\ work'[w].page = work[w].page /\ work'[w].owe = {}
    BY <1>a, <1>3, NextView DEF NextOne
  <2>3. Carriage'
    <3>1. ExecutionSound(w)' /\ ~Carries(w)'
      BY <1>a, <2>2 DEF ExecutionSound, Carries, Carrying, Early, Late, Messages
    <3>2. MessageSound(m)'
      BY <1>1, <1>2, <2>1 DEF MessageSound, Settled
    <3>3. message[m] \in Failures => message'[m] \in Failures
      BY <2>1 DEF Failures
    <3>. QED  BY <1>a, <1>1, <2>1, <2>2, <3>1, <3>2, <3>3, CarriageStep
  <2>4. SlotsKept'
    <3>1. \A v \in Worker : SameView(v) \/ ~Holding(v)'
      BY <2>2 DEF OthersSame, Holding, Late
    <3>. QED  BY <1>1, <1>3, <3>1, SlotsUndisturbed
  <2>5. Counting'
    <3>1. /\ \A v \in Worker, n \in Message : OwesFailure(v, n)' => OwesFailure(v, n)
          /\ \A v \in Worker, n \in Message : OwesSuccess(v, n)' => OwesSuccess(v, n)
      BY <2>2 DEF OthersSame, SameView, OwesFailure, OwesSuccess
    <3>2. \A n \in Message : /\ message'[n] = "DELIVERED" <=> message[n] = "DELIVERED"
                             /\ message[n] \in Failures => message'[n] \in Failures
      BY <2>1 DEF Failures
    <3>3. known \subseteq Message
      BY <1>a DEF TypeOK
    <3>. QED  BY <1>1, <3>1, <3>2, <3>3, CountsUndisturbed
  <2>. QED  BY <2>3, <2>4, <2>5
<1>4. ASSUME NEW pc \in {"reserve", "recheck", "gate", "call"}, Step(w, pc), UNCHANGED message,
             \/ UNCHANGED slots /\ (pc \in {"recheck", "gate", "call"} => Holding(w))
             \/ /\ slots[Who[m]] < Cap
                /\ slots' = [slots EXCEPT ![Who[m]] = @ + 1]
      PROVE  Counting' /\ Carriage' /\ SlotsKept'
  <2>1. [work[w] EXCEPT !.pc = pc] \in Execution
    BY <1>a DEF Execution
  <2>2. /\ OthersSame(w) /\ work'[w].pc = pc /\ work'[w].k = work[w].k /\ work'[w].m = m
        /\ work'[w].page = work[w].page /\ work'[w].owe = {}
    BY <1>a, <1>4, <2>1, StepView
  <2>3. Carriage'
    <3>1. ExecutionSound(w)'
      BY <1>a, <1>1, <1>2, <1>4, <2>2 DEF ExecutionSound, Carries, Carrying, Early, Late, Messages
    <3>2. MessageSound(m)'
      BY <1>1, <1>2, <1>4 DEF MessageSound
    <3>. QED  BY <1>a, <1>1, <1>4, <2>2, <3>1, <3>2, CarriageStep
  <2>4. SlotsKept'
    <3>1. CASE UNCHANGED slots /\ (pc \in {"recheck", "gate", "call"} => Holding(w))
      <4>1. ASSUME NEW v \in Worker
            PROVE  SameView(v) \/ ~Holding(v)' \/ (Holding(v) /\ work'[v].m = work[v].m)
        BY <2>2, <3>1 DEF OthersSame, Holding, Late
      <4>. QED  BY <1>1, <3>1, <4>1, SlotsUndisturbed
    <3>. QED  BY <1>1, <1>4, <2>2, <3>1, SlotReserved
  <2>5. Counting'
    <3>1. /\ \A v \in Worker, n \in Message : OwesFailure(v, n)' => OwesFailure(v, n)
          /\ \A v \in Worker, n \in Message : OwesSuccess(v, n)' => OwesSuccess(v, n)
      BY <1>4, <2>2 DEF OthersSame, SameView, OwesFailure, OwesSuccess
    <3>2. known \subseteq Message
      BY <1>a DEF TypeOK
    <3>. QED  BY <1>1, <1>4, <3>1, <3>2, CountsUndisturbed
  <2>. QED  BY <2>3, <2>4, <2>5
<1>5. CASE Check(w)
  BY <1>3, <1>4, <1>5 DEF Check
<1>6. CASE reserveMarketingFrequencySlot(w)
  BY <1>3, <1>4, <1>6 DEF reserveMarketingFrequencySlot
<1>7. CASE Recheck(w)
  BY <1>3, <1>4, <1>7 DEF Recheck, Holding
<1>8. CASE Gate(w)
  BY <1>3, <1>4, <1>8 DEF Gate, Holding
<1>. QED  BY <1>5, <1>6, <1>7, <1>8

LEMMA CallKeeps ==
    ASSUME IInv, TypeOK', NEW w \in Worker, Call(w)
    PROVE  Counting' /\ Carriage' /\ SlotsKept'
<1>a. /\ TypeOK /\ Carriage /\ ExecutionSound(w) /\ work[w].pc = "call" /\ Carries(w)
      /\ work \in [Worker -> Execution] /\ work[w] \in Execution /\ work[w].owe = {}
  BY DEF IInv, Carriage, Call, TypeOK, Carries, Carrying, Early, ExecutionSound
<1>b. work[w].m \in Message
  BY <1>a DEF ExecutionSound, Messages
<1> SUFFICES ASSUME NEW m \in Message, work[w].m = m
             PROVE  Counting' /\ Carriage' /\ SlotsKept'
  BY <1>b
<1>1. PICK answer \in {"accepted", "refused", "error", "unknown"} :
        /\ GoOn(w, [work[w] EXCEPT !.pc = "record", !.answer = answer])
        /\ sent' \in {sent, sent \cup {m}}
        /\ answer = "accepted" => sent' = sent \cup {m}
        /\ answer = "refused" => sent' = sent
        /\ sent' = sent \/ answer # "error" => misreported' = misreported
        /\ sent' # sent /\ answer = "error" => misreported' = misreported \cup {m}
  <2>1. m \notin sent
    <3>1. calls[m] = 0
      BY <1>a DEF ExecutionSound, Early
    <3>2. m \in sent => calls[m] = 1
      BY <1>a DEF Carriage, MessageSound
    <3>. QED  BY <3>1, <3>2
  <2>2. PICK answer \in {"accepted", "refused", "error", "unknown"}, taken \in BOOLEAN :
          /\ answer = "accepted" => taken
          /\ answer = "refused" => ~taken
          /\ GoOn(w, [work[w] EXCEPT !.pc = "record", !.answer = answer])
          /\ sent' = IF taken THEN sent \cup {m} ELSE sent
          /\ misreported' = IF taken /\ answer = "error" THEN misreported \cup {m}
                            ELSE misreported
    BY DEF Call
  <2>3. CASE taken
    BY <2>1, <2>2, <2>3
  <2>4. CASE ~taken
    BY <2>1, <2>2, <2>4
  <2>. QED  BY <2>3, <2>4
<1>2. /\ UNCHANGED <<message, known, slots, tally>>
      /\ calls' = [calls EXCEPT ![m] = @ + 1]
  BY DEF Call, mail
<1>3. /\ OthersSame(w) /\ work'[w].pc = "record" /\ work'[w].k = work[w].k /\ work'[w].m = m
      /\ work'[w].answer = answer /\ work'[w].page = work[w].page /\ work'[w].owe = {}
  BY <1>a, <1>1, CallWork
<1>4. /\ MessageSound(m) /\ calls[m] = 0 /\ message[m] \notin {"NONE", "PENDING"}
      /\ m \notin sent /\ calls'[m] = 1
      /\ \A n \in Message \ {m} : calls'[n] = calls[n]
  <2>1. MessageSound(m) /\ calls[m] = 0 /\ message[m] \notin {"NONE", "PENDING"}
    BY <1>a DEF Carriage, ExecutionSound, Early
  <2>. QED  BY <1>a, <1>2, <2>1 DEF MessageSound, TypeOK
<1>5. Carriage'
  <2>1. ExecutionSound(w)'
    BY <1>a, <1>1, <1>2, <1>3, <1>4 DEF ExecutionSound, Carries, Carrying, Early, Late, Messages
  <2>2. MessageSound(m)'
    BY <1>2, <1>4 DEF MessageSound
  <2>3. \A n \in Message \ {m} :
           (n \in sent' <=> n \in sent) /\ (n \in misreported' <=> n \in misreported)
    BY <1>1
  <2>. QED  BY <1>a, <1>2, <1>3, <1>4, <2>1, <2>2, <2>3, CarriageStep
<1>6. SlotsKept'
  <2>1. Holding(w)
    BY <1>a DEF Holding
  <2>2. ASSUME NEW n \in Message, NEW v \in Worker, Holding(v)', work'[v].m = n
        PROVE  \E u \in Worker : Holding(u) /\ work[u].m = n
    <3>1. CASE v = w
      BY <1>3, <2>1, <2>2, <3>1
    <3>2. CASE v # w
      BY <1>3, <2>2, <3>2 DEF OthersSame, SameView, Holding
    <3>. QED  BY <3>1, <3>2
  <2>3. \A n \in Message : n \in sent' \ misreported' => n \in sent \ misreported \/ n = m
    BY <1>1
  <2>. QED  BY <1>2, <2>1, <2>2, <2>3, SlotsUntouched
<1>7. Counting'
  <2>1. /\ \A v \in Worker, n \in Message : OwesFailure(v, n)' => OwesFailure(v, n)
        /\ \A v \in Worker, n \in Message : OwesSuccess(v, n)' => OwesSuccess(v, n)
    BY <1>3 DEF OthersSame, SameView, OwesFailure, OwesSuccess
  <2>2. known \subseteq Message
    BY <1>a DEF TypeOK
  <2>. QED  BY <1>2, <2>1, <2>2, CountsUndisturbed
<1>. QED  BY <1>5, <1>6, <1>7

\* The tally changes no message; the release of a slot changes neither.
LEMMA AfterwardsKeeps ==
    ASSUME IInv, TypeOK', NEW w \in Worker, Tally(w) \/ releaseMarketingFrequencySlot(w)
    PROVE  Counting' /\ Carriage' /\ SlotsKept'
<1>a. /\ TypeOK /\ Carriage /\ ExecutionSound(w) /\ work[w].pc \in {"tally", "release"} /\ Carries(w)
      /\ work \in [Worker -> Execution] /\ work[w] \in Execution /\ work[w].owe = {}
  BY DEF IInv, Carriage, Tally, releaseMarketingFrequencySlot, TypeOK, Carries, Carrying, Late,
         ExecutionSound
<1>b. work[w].m \in Message
  BY <1>a DEF ExecutionSound, Messages
<1> SUFFICES ASSUME NEW m \in Message, work[w].m = m
             PROVE  Counting' /\ Carriage' /\ SlotsKept'
  BY <1>b
<1>1. UNCHANGED <<message, known, calls, sent, misreported>>
  BY DEF Tally, releaseMarketingFrequencySlot, mail, provider
<1>2. /\ OthersSame(w) /\ work'[w].k = work[w].k /\ work'[w].page = work[w].page
      /\ work'[w].owe = {}
      /\ \/ /\ work[w].pc = "tally" /\ work[w].answer \in {"refused", "error"} /\ work'[w].pc = "release"
            /\ work'[w].m = m /\ work'[w].answer = work[w].answer
         \/ work'[w].pc = "next"
  <2>1. CASE Tally(w)
    BY <1>a, <2>1, TallyWork DEF Tally
  <2>2. CASE releaseMarketingFrequencySlot(w)
    BY <1>a, <2>2, NextView DEF releaseMarketingFrequencySlot, NextOne
  <2>. QED  BY <2>1, <2>2
<1>3. Carriage'
  <2>1. ExecutionSound(w)'
    BY <1>a, <1>1, <1>2 DEF ExecutionSound, Carries, Carrying, Early, Late, Messages
  <2>2. MessageSound(m)'
    BY <1>a, <1>1 DEF Carriage, MessageSound
  <2>3. Carries(w)' => work'[w].m = m
    BY <1>2 DEF Carries, Carrying, Early, Late
  <2>. QED  BY <1>a, <1>1, <1>2, <2>1, <2>2, <2>3, CarriageStep
<1>4. CASE Tally(w)
  <2>1. ASSUME NEW v \in Worker
        PROVE  SameView(v) \/ ~Holding(v)' \/ (Holding(v) /\ work'[v].m = work[v].m)
    BY <1>2 DEF OthersSame, Holding, Late
  <2>2. UNCHANGED slots
    BY <1>4 DEF Tally
  <2>. QED  BY <1>1, <1>3, <1>4, <2>1, <2>2, SlotsUndisturbed, CountsTallied
<1>5. CASE releaseMarketingFrequencySlot(w)
  <2>0. work[w].pc = "release" /\ work'[w].pc = "next" /\ UNCHANGED tally
    BY <1>2, <1>5 DEF releaseMarketingFrequencySlot
  <2>1. SlotsKept'
    <3>1. CASE UNCHANGED slots
      <4>1. \A v \in Worker : SameView(v) \/ ~Holding(v)'
        BY <1>2, <2>0 DEF OthersSame, Holding, Late
      <4>. QED  BY <1>1, <3>1, <4>1, SlotsUndisturbed
    <3>2. CASE slots' = [slots EXCEPT ![Who[m]] = IF @ > 0 THEN @ - 1 ELSE @]
      BY <1>1, <1>2, <2>0, <3>2, SlotReleased
    <3>. QED  BY <1>5, <3>1, <3>2 DEF releaseMarketingFrequencySlot
  <2>2. Counting'
    <3>1. /\ \A v \in Worker, n \in Message : OwesFailure(v, n)' => OwesFailure(v, n)
          /\ \A v \in Worker, n \in Message : OwesSuccess(v, n)' => OwesSuccess(v, n)
      BY <1>2, <2>0 DEF OthersSame, SameView, OwesFailure, OwesSuccess
    <3>2. known \subseteq Message
      BY <1>a DEF TypeOK
    <3>. QED  BY <1>1, <2>0, <3>1, <3>2, CountsUndisturbed
  <2>. QED  BY <1>3, <2>1, <2>2
<1>. QED  BY <1>4, <1>5

LEMMA NextMessageKeeps ==
    ASSUME IInv, TypeOK', NEW w \in Worker, NextMessage(w)
    PROVE  Counting' /\ Carriage' /\ SlotsKept'
<1>a. /\ TypeOK /\ Carriage /\ ExecutionSound(w) /\ work[w].pc = "next" /\ ~Carries(w)
      /\ work[w].owe = {} /\ work[w].page \subseteq Messages(work[w].k)
      /\ message \in [Message -> MessageStatus]
  BY DEF IInv, Carriage, NextMessage, TypeOK, Carries, Carrying, Early, Late, ExecutionSound
<1>1. UNCHANGED <<known, slots, tally, calls, sent, misreported>>
  BY DEF NextMessage, provider
<1>2. OthersSame(w)
  BY <1>a, NextMessageWork
<1>3. CASE Rests(w) /\ UNCHANGED message
  <2>1. \A v \in Worker : SameView(v) \/ Rests(v)
    BY <1>2, <1>3 DEF OthersSame
  <2>. QED  BY <1>1, <1>3, <2>1, CalmKeeps
<1>4. ASSUME NEW m \in Message, Claims(w, m)
      PROVE  Counting' /\ Carriage' /\ SlotsKept'
  <2>1. /\ message[m] = "PENDING" /\ message'[m] = "SENDING"
        /\ \A n \in Message \ {m} : message'[n] = message[n]
        /\ work'[w].pc = "check" /\ work'[w].owe = {}
    BY <1>a, <1>4 DEF Claims
  <2>2. Carriage'
    BY <1>a, <1>1, <1>2, <1>4, CarriageClaim
  <2>3. SlotsKept'
    <3>1. \A v \in Worker : SameView(v) \/ ~Holding(v)'
      BY <1>2, <2>1 DEF OthersSame, Holding, Late
    <3>. QED  BY <1>1, <3>1, SlotsUndisturbed
  <2>4. Counting'
    <3>1. /\ \A v \in Worker, n \in Message : OwesFailure(v, n)' => OwesFailure(v, n)
          /\ \A v \in Worker, n \in Message : OwesSuccess(v, n)' => OwesSuccess(v, n)
      BY <1>2, <2>1 DEF OthersSame, SameView, OwesFailure, OwesSuccess
    <3>2. \A n \in Message : /\ message'[n] = "DELIVERED" <=> message[n] = "DELIVERED"
                             /\ message[n] \in Failures => message'[n] \in Failures
      BY <2>1 DEF Failures
    <3>3. known \subseteq Message
      BY <1>a DEF TypeOK
    <3>. QED  BY <1>1, <3>1, <3>2, <3>3, CountsUndisturbed
  <2>. QED  BY <2>2, <2>3, <2>4
<1>. QED  BY <1>a, <1>3, <1>4, NextMessageWork

\* The preparation of a campaign: its messages wait to be claimed.
LEMMA PrepareKeeps ==
    ASSUME IInv, TypeOK', NEW u \in Manager, CommitPrepare(u)
    PROVE  Counting' /\ Carriage' /\ SlotsKept'
<1>a. TypeOK /\ message \in [Message -> MessageStatus] /\ known \subseteq Message
  BY DEF IInv, TypeOK
<1>1. UNCHANGED <<known, slots, tally, work, calls, sent, misreported>>
  BY DEF CommitPrepare, provider
<1>2. \A m \in Message : message'[m] = message[m] \/ (message[m] = "NONE" /\ message'[m] = "PENDING")
  BY <1>a DEF CommitPrepare
<1>3. /\ \A m \in Message : Ages(m)
      /\ \A n \in Message : /\ message'[n] = "DELIVERED" <=> message[n] = "DELIVERED"
                            /\ message[n] \in Failures => message'[n] \in Failures
  BY <1>2 DEF Ages, Failures, Settled
<1>4. \A v \in Worker : SameView(v)
  BY <1>1 DEF SameView
<1>5. /\ \A v \in Worker, n \in Message : OwesFailure(v, n)' => OwesFailure(v, n)
      /\ \A v \in Worker, n \in Message : OwesSuccess(v, n)' => OwesSuccess(v, n)
  BY <1>4 DEF SameView, OwesFailure, OwesSuccess
<1>. QED  BY <1>a, <1>1, <1>3, <1>4, <1>5, CarriageUndisturbed, SlotsUndisturbed, CountsUndisturbed

LEMMA NextKeepsCarriage ==
    ASSUME IInv, TypeOK', [Next]_vars
    PROVE  Counting' /\ Carriage' /\ SlotsKept'
<1>0. /\ TypeOK /\ Carriage
      /\ UNCHANGED work => \A v \in Worker : SameView(v)
  BY DEF IInv, SameView
<1>1. CASE UNCHANGED vars
  BY <1>0, <1>1, CalmKeeps DEF vars, mail, provider
<1>2. CASE Next
  <2>1. ASSUME NEW u \in Manager, Asks(u)
        PROVE  Counting' /\ Carriage' /\ SlotsKept'
    <3>1. CASE CommitPrepare(u)
      BY <3>1, PrepareKeeps
    <3>2. CASE ~CommitPrepare(u)
      <4>1. UNCHANGED <<known, slots, tally, work, calls, sent, misreported>>
        BY <1>0, <2>1, AsksTypes DEF provider
      <4>2. UNCHANGED message
        BY <2>1, <3>2 DEF Asks, CommitSchedule, CommitSend, CommitCancel, RefuseRequest, Enqueue,
                          EnqueueFails, RequestDies, BeginRequest, mail
      <4>. QED  BY <1>0, <4>1, <4>2, CalmKeeps
    <3>. QED  BY <3>1, <3>2
  <2>2. ASSUME NEW w \in Worker, WorkerStep(w)
        PROVE  Counting' /\ Carriage' /\ SlotsKept'
    <3>0. /\ work \in [Worker -> Execution] /\ work[w] \in Execution /\ job \in [Campaign -> Job]
          /\ work[w].k \in Campaign /\ ExecutionSound(w)
          /\ work[w].page \subseteq Messages(work[w].k)
          /\ work[w].pc # "count stale" => work[w].owe = {}
      BY <1>0 DEF Carriage, TypeOK, ExecutionSound, Execution
    <3>1. CASE ClaimCampaign(w) \/ BackToReady(w) \/ FetchPage(w) \/ Finish(w)
               \/ \E status \in {"PENDING", "SENDING"} : CountLeft(w, status)
      <4>1. Rests(w) /\ OthersSame(w)
        <5>1. CASE ClaimCampaign(w)
          BY <1>0, <3>0, <5>1, ClaimCampaignWork DEF ClaimCampaign
        <5>2. CASE BackToReady(w)
          BY <1>0, <3>0, <5>2, Ends, OutcomeType DEF BackToReady
        <5>3. CASE FetchPage(w)
          BY <1>0, <3>0, <5>3, FetchPageWork DEF FetchPage
        <5>4. CASE Finish(w)
          BY <1>0, <3>0, <5>4, Ends, OutcomeType DEF Finish
        <5>5. ASSUME NEW status, CountLeft(w, status) PROVE Rests(w) /\ OthersSame(w)
          BY <1>0, <3>0, <5>5, CountLeftWork DEF CountLeft
        <5>. QED  BY <3>1, <5>1, <5>2, <5>3, <5>4, <5>5
      <4>2. UNCHANGED <<message, known, calls, sent, misreported, slots, tally>>
        BY <3>1 DEF ClaimCampaign, BackToReady, FetchPage, Finish, CountLeft, mail, provider
      <4>. QED  BY <4>1, <4>2, CalmKeeps DEF OthersSame
    <3>2. CASE FailStaleMessageClaims(w)
      BY <3>2, CountsFailed
    <3>3. CASE CountStale(w)
      BY <3>3, StaleCounted
    <3>4. CASE NextMessage(w)
      BY <3>4, NextMessageKeeps
    <3>5. CASE Check(w) \/ reserveMarketingFrequencySlot(w) \/ Recheck(w) \/ Gate(w)
      BY <3>5, EarlyKeeps
    <3>6. CASE Call(w)
      BY <3>6, CallKeeps
    <3>7. CASE Record(w)
      BY <3>7, ResultRecorded
    <3>8. CASE Tally(w) \/ releaseMarketingFrequencySlot(w)
      BY <3>8, AfterwardsKeeps
    <3>. QED  BY <2>2, <3>1, <3>2, <3>3, <3>4, <3>5, <3>6, <3>7, <3>8 DEF WorkerStep
  <2>3. ASSUME NEW w \in Worker, NEW k \in Campaign, TakeJob(w, k)
        PROVE  Counting' /\ Carriage' /\ SlotsKept'
    <3>1. \A v \in Worker : SameView(v) \/ Rests(v)
      BY <1>0, <2>3, TakeJobWork DEF OthersSame
    <3>. QED  BY <2>3, <3>1, CalmKeeps DEF TakeJob, mail, provider
  <2>4. ASSUME NEW w \in Worker, Crash(w)
        PROVE  Counting' /\ Carriage' /\ SlotsKept'
    <3>1. \A v \in Worker : SameView(v) \/ Rests(v)
      BY <1>0, <2>4, IdleResets DEF Crash, OthersSame
    <3>. QED  BY <2>4, <3>1, CalmKeeps DEF Crash, mail, provider
  <2>5. ASSUME NEW k \in Campaign, TakeJobUnconfigured(k)
        PROVE  Counting' /\ Carriage' /\ SlotsKept'
    BY <1>0, <2>5, CalmKeeps DEF TakeJobUnconfigured, mail, provider
  <2>6. ASSUME NEW k \in Campaign, Stall(k)
        PROVE  Counting' /\ Carriage' /\ SlotsKept'
    <3>1. \A v \in Worker : SameView(v)
      BY <1>0, <2>6, StallWork
    <3>. QED  BY <2>6, <3>1, CalmKeeps DEF Stall, mail, provider
  <2>7. ASSUME NEW c \in Customer, Oppose(c)
        PROVE  Counting' /\ Carriage' /\ SlotsKept'
    BY <1>0, <2>7, CalmKeeps DEF Oppose, mail, provider
  <2>8. CASE ListRows
    BY <1>0, <2>8, CalmKeeps DEF ListRows, mail, provider
  <2>9. ASSUME NEW m \in Message, NEW cb \in Callback, Answers(m, cb)
        PROVE  Counting' /\ Carriage' /\ SlotsKept'
    BY <2>9, CallbackCounted
  <2>10. ASSUME NEW p \in Manager \cup Worker, CountAccepted(p)
         PROVE  Counting' /\ Carriage' /\ SlotsKept'
    BY <1>0, <2>10, CalmKeeps DEF CountAccepted, mail, provider
  <2>. QED  BY <1>2, <2>1, <2>2, <2>3, <2>4, <2>5, <2>6, <2>7, <2>8, <2>9, <2>10, Steps
<1>. QED  BY <1>1, <1>2

(***************************************************************************)
(* The budget of the day                                                   *)
(***************************************************************************)
\* What the budget is charged with: the messages some check covers.
Charged == {m \in Message \ unbudgeted : m \in known \cup Awaiting(Campaign)}

LEMMA ChargedLess ==
    ASSUME IInv, Charged' \subseteq Charged
    PROVE  BudgetKept'
<1>1. Charged \subseteq Message /\ Charged' \subseteq Message
  BY DEF Charged
<1>2. /\ Cardinality(Charged') <= Cardinality(Charged) /\ Cardinality(Charged) \in Nat
      /\ Cardinality(Charged') \in Nat
  BY <1>1, SmallerSet, FiniteMessages
<1>3. Cardinality(Charged) <= Budget /\ Budget \in Nat
  BY CampaignAssumption DEF IInv, BudgetKept, Charged
<1>4. Cardinality(Charged') <= Budget
  BY <1>2, <1>3
<1>. QED  BY <1>4 DEF BudgetKept, Charged

\* Messages that move on, under campaigns whose status stands.
LEMMA BudgetMoves ==
    ASSUME IInv, UNCHANGED <<campaign, unbudgeted>>,
           \A m \in Message : message'[m] \in {"PENDING", "SENDING"} => message[m] \in {"PENDING", "SENDING"},
           \A m \in Message : m \in known' => m \in known \/ message[m] = "SENDING"
    PROVE  BudgetSound' /\ BudgetKept'
<1>0. BudgetSound
  BY DEF IInv
<1>1. BudgetSound'
  BY <1>0 DEF BudgetSound
<1>2. Charged' \subseteq Charged
  <2> SUFFICES ASSUME NEW m \in Message \ unbudgeted, m \in known' \cup Awaiting(Campaign)'
               PROVE  m \in known \cup Awaiting(Campaign)
    BY <1>0 DEF Charged
  <2>1. Of[m] \in Campaign
    BY CampaignAssumption
  <2>2. CASE m \in known'
    <3>1. CASE message[m] = "SENDING"
      BY <1>0, <2>1, <3>1 DEF BudgetSound, Awaiting
    <3>. QED  BY <2>2, <3>1
  <2>3. CASE m \in Awaiting(Campaign)'
    BY <1>0, <2>1, <2>3 DEF Awaiting
  <2>. QED  BY <2>2, <2>3
<1>. QED  BY <1>1, <1>2, ChargedLess

\* A status written without a check.
LEMMA BudgetUnchecked ==
    ASSUME IInv, NEW k \in Campaign, NEW status, SetCampaign(k, status), UNCHANGED mail
    PROVE  BudgetSound' /\ BudgetKept'
<1>0. /\ BudgetSound /\ UNCHANGED <<message, known>> /\ campaign \in [Campaign -> CampaignStatus]
      /\ \A m \in Message : Of[m] \in Campaign
  BY CampaignAssumption DEF IInv, TypeOK, mail
<1>1. /\ campaign' = [campaign EXCEPT ![k] = status]
      /\ unbudgeted \subseteq unbudgeted'
      /\ status \notin Reserving =>
            \A m \in Message : Of[m] = k /\ message[m] \in {"PENDING", "SENDING"} => m \in unbudgeted'
  BY DEF SetCampaign, In, Messages
<1>2. BudgetSound'
  BY <1>0, <1>1 DEF BudgetSound
<1>3. Charged' \subseteq Charged
  <2> SUFFICES ASSUME NEW m \in Message \ unbudgeted', m \in known \cup Awaiting(Campaign)'
               PROVE  m \in known \cup Awaiting(Campaign)
    BY <1>0, <1>1 DEF Charged
  <2>1. m \notin unbudgeted /\ Of[m] \in Campaign
    BY <1>0, <1>1
  <2>. QED  BY <1>0, <2>1 DEF BudgetSound, Awaiting
<1>. QED  BY <1>2, <1>3, ChargedLess

\* A status written after a check: the audience of the campaign fits beside what
\* the two counts found of the others.
LEMMA BudgetChecked ==
    ASSUME IInv, NEW k \in Campaign, NEW status \in Reserving, SetChecked(k, status), UNCHANGED mail,
           budgetCheck.held, NEW ks, Campaign \ {k} \subseteq ks, Fits(k, ks)
    PROVE  BudgetSound' /\ BudgetKept'
<1> DEFINE owed == Awaiting(ks)
<1> DEFINE mine == Messages(k)
<1> DEFINE early == budgetCheck.accepted
<1>0. /\ BudgetSound /\ UNCHANGED <<message, known>> /\ campaign \in [Campaign -> CampaignStatus]
      /\ \A m \in Message : Of[m] \in Campaign
      /\ early \subseteq Message /\ Budget \in Nat
  <2>1. /\ budgetCheck.accepted \subseteq known /\ known \subseteq Message
    BY DEF IInv, CheckSound, TypeOK
  <2>2. campaign \in [Campaign -> CampaignStatus]
    BY DEF IInv, TypeOK
  <2>. QED  BY <2>1, <2>2, CampaignAssumption DEF IInv, mail
<1>1. /\ campaign'[k] \in Reserving /\ \A c \in Campaign \ {k} : campaign'[c] = campaign[c]
      /\ unbudgeted' = (unbudgeted \cup known) \ (mine \cup early \cup Awaiting(Campaign))
  BY <1>0 DEF SetChecked
<1>2. BudgetSound'
  <2> SUFFICES ASSUME NEW m \in Message, message[m] \in {"PENDING", "SENDING"},
                      campaign'[Of[m]] \notin Reserving
               PROVE  m \in unbudgeted'
    BY <1>0 DEF BudgetSound
  <2>1. Of[m] # k /\ campaign[Of[m]] \notin Reserving
    BY <1>0, <1>1
  <2>2. m \in unbudgeted /\ m \notin mine /\ m \notin Awaiting(Campaign)
    BY <1>0, <2>1 DEF BudgetSound, Messages, Awaiting
  <2>3. m \notin early
    BY DEF IInv, CheckSound, Carriage, MessageSound, Settled
  <2>. QED  BY <1>1, <2>2, <2>3
<1>3. Charged' \subseteq (mine \cup early) \cup owed
  <2> SUFFICES ASSUME NEW m \in Message, m \notin unbudgeted', m \in known \cup Awaiting(Campaign)',
                      m \notin mine, m \notin early
               PROVE  m \in owed
    BY <1>0 DEF Charged
  <2>1. Of[m] \in Campaign \ {k}
    BY <1>0 DEF Messages
  <2>2. m \in known => m \in Awaiting(Campaign)
    BY <1>1
  <2>. QED  BY <1>0, <1>1, <2>1, <2>2 DEF Awaiting
<1>4. mine \subseteq Message /\ owed \subseteq Message /\ Charged' \subseteq Message
  BY DEF Messages, Awaiting, Charged
<1>5. Cardinality(mine) + Cardinality(early) + Cardinality(owed) <= Budget
  BY DEF Fits
<1> HIDE DEF owed, mine
<1>6. /\ IsFiniteSet(mine) /\ IsFiniteSet(early) /\ IsFiniteSet(owed) /\ IsFiniteSet(mine \cup early)
      /\ Cardinality(mine) \in Nat /\ Cardinality(early) \in Nat /\ Cardinality(owed) \in Nat
      /\ Cardinality(mine \cup early) \in Nat /\ Cardinality(mine \cap early) \in Nat
      /\ Cardinality((mine \cup early) \cup owed) \in Nat
      /\ Cardinality((mine \cup early) \cap owed) \in Nat
      /\ Cardinality(Charged') \in Nat
  BY <1>0, <1>4, FiniteMessages
<1>7. /\ Cardinality(mine \cup early) = Cardinality(mine) + Cardinality(early) - Cardinality(mine \cap early)
      /\ Cardinality((mine \cup early) \cup owed) =
            Cardinality(mine \cup early) + Cardinality(owed) - Cardinality((mine \cup early) \cap owed)
  BY <1>6, FS_Union
<1>8. (mine \cup early) \cup owed \subseteq Message
  BY <1>0, <1>4
<1>9. Cardinality(Charged') <= Cardinality((mine \cup early) \cup owed)
  BY <1>3, <1>8, SmallerSet
<1>10. Cardinality(Charged') <= Budget
  BY <1>0, <1>5, <1>6, <1>7, <1>9
<1>. QED  BY <1>2, <1>10 DEF BudgetKept, Charged

\* A preparation: nothing it makes PENDING is covered by a check.
LEMMA BudgetPrepared ==
    ASSUME IInv, NEW u \in Manager, CommitPrepare(u)
    PROVE  BudgetSound' /\ BudgetKept'
<1> DEFINE k == request[u].k
<1>0. /\ BudgetSound /\ UNCHANGED known /\ campaign \in [Campaign -> CampaignStatus]
      /\ message \in [Message -> MessageStatus]
      /\ \A m \in Message : Of[m] \in Campaign
  BY CampaignAssumption DEF IInv, TypeOK, CommitPrepare
<1>1. /\ campaign' = [campaign EXCEPT ![k] = "READY"]
      /\ unbudgeted \subseteq unbudgeted'
      /\ \A m \in Message : Of[m] = k /\ message'[m] \notin Ended => m \in unbudgeted'
      /\ \A m \in Message : Of[m] # k => message'[m] = message[m]
  BY <1>0 DEF CommitPrepare, Messages
<1>2. BudgetSound'
  <2> SUFFICES ASSUME NEW m \in Message, message'[m] \in {"PENDING", "SENDING"},
                      campaign'[Of[m]] \notin Reserving
               PROVE  m \in unbudgeted'
    BY DEF BudgetSound
  <2>1. CASE Of[m] = k
    BY <1>1, <2>1 DEF Ended
  <2>2. CASE Of[m] # k
    BY <1>0, <1>1, <2>2 DEF BudgetSound
  <2>. QED  BY <2>1, <2>2
<1>3. Charged' \subseteq Charged
  <2> SUFFICES ASSUME NEW m \in Message \ unbudgeted', m \in known \cup Awaiting(Campaign)'
               PROVE  m \in known \cup Awaiting(Campaign)
    BY <1>0, <1>1 DEF Charged
  <2>1. CASE Of[m] = k
    BY <1>1, <2>1 DEF Awaiting, Ended
  <2>2. CASE Of[m] # k
    BY <1>0, <1>1, <2>2 DEF Awaiting
  <2>. QED  BY <2>1, <2>2
<1>. QED  BY <1>2, <1>3, ChargedLess

LEMMA NextKeepsBudget ==
    ASSUME IInv, [Next]_vars
    PROVE  BudgetSound' /\ BudgetKept'
<1>0. TypeOK /\ Carriage /\ message \in [Message -> MessageStatus]
  BY DEF IInv, TypeOK
<1>1. ASSUME UNCHANGED <<campaign, unbudgeted>> /\ UNCHANGED mail
      PROVE  BudgetSound' /\ BudgetKept'
  BY <1>1, BudgetMoves DEF mail
<1>2. CASE UNCHANGED vars
  BY <1>1, <1>2 DEF vars, campaigns
<1>3. CASE Next
  <2>1. ASSUME NEW u \in Manager, Asks(u)
        PROVE  BudgetSound' /\ BudgetKept'
    <3>0. request[u].op # "none" => request[u].k \in Campaign
      BY <1>0, CampaignAssumption, RequestTypes
    <3>1. CASE CommitPrepare(u)
      BY <3>1, BudgetPrepared
    <3>2. CASE CommitSchedule(u)
      BY <3>0, <3>2, BudgetChecked DEF CommitSchedule, Checks, Reserving
    <3>3. CASE CommitSend(u)
      BY <3>0, <3>3, BudgetChecked DEF CommitSend, Checks, Reserving
    <3>4. CASE CommitCancel(u) \/ EnqueueFails(u)
      BY <3>0, <3>4, BudgetUnchecked DEF CommitCancel, EnqueueFails
    <3>5. CASE \/ RefuseRequest(u) \/ Enqueue(u) \/ RequestDies(u)
               \/ \E op \in {"prepare", "schedule", "send", "cancel"}, k \in Campaign :
                    BeginRequest(u, op, k)
      BY <1>1, <3>5 DEF RefuseRequest, Enqueue, RequestDies, BeginRequest, Abandon, campaigns
    <3>. QED  BY <2>1, <3>1, <3>2, <3>3, <3>4, <3>5 DEF Asks
  <2>2. ASSUME NEW w \in Worker, WorkerStep(w)
        PROVE  BudgetSound' /\ BudgetKept'
    <3>0. work[w].k \in Campaign /\ ExecutionSound(w)
      BY <1>0 DEF Carriage, TypeOK, Execution
    <3>1. CASE ClaimCampaign(w)
      <4>1. /\ UNCHANGED mail
            /\ \/ UNCHANGED <<campaign, unbudgeted>>
               \/ /\ budgetCheck.held /\ Fits(work[w].k, Campaign \ {work[w].k})
                  /\ SetChecked(work[w].k, "SENDING")
               \/ SetCampaign(work[w].k, "SENDING")
        BY <3>1 DEF ClaimCampaign, Abandon, Checks
      <4>. QED  BY <1>1, <3>0, <4>1, BudgetChecked, BudgetUnchecked DEF Reserving
    <3>2. CASE BackToReady(w) \/ FetchPage(w) \/ Finish(w)
      <4>1. /\ UNCHANGED mail
            /\ \/ UNCHANGED <<campaign, unbudgeted>>
               \/ \E status \in CampaignStatus : SetCampaign(work[w].k, status)
        BY <3>2 DEF BackToReady, FetchPage, Finish, CampaignStatus, campaigns
      <4>. QED  BY <1>1, <3>0, <4>1, BudgetUnchecked
    <3>3. CASE \/ CountStale(w) \/ Call(w) \/ Tally(w) \/ releaseMarketingFrequencySlot(w)
               \/ \E status \in {"PENDING", "SENDING"} : CountLeft(w, status)
      BY <1>1, <3>3 DEF CountStale, Call, Tally, releaseMarketingFrequencySlot, CountLeft,
                             campaigns
    <3>4. CASE FailStaleMessageClaims(w)
      <4>1. \A m \in Message : message'[m] \in {message[m], "FAILED"}
        BY <3>4 DEF FailStaleMessageClaims
      <4>. QED  BY <3>4, <4>1, BudgetMoves DEF FailStaleMessageClaims, campaigns
    <3>5. CASE NextMessage(w)
      <4>1. \A m \in Message : message'[m] = message[m] \/ (message[m] = "PENDING" /\ message'[m] = "SENDING")
        BY <1>0, <3>5 DEF NextMessage
      <4>. QED  BY <3>5, <4>1, BudgetMoves DEF NextMessage, campaigns
    <3>6. CASE Check(w) \/ reserveMarketingFrequencySlot(w) \/ Recheck(w) \/ Gate(w) \/ Record(w)
      <4>1. work[w].m \in Message
        BY <3>0, <3>6 DEF ExecutionSound, Check, reserveMarketingFrequencySlot, Recheck, Gate,
                          Record, Carries, Carrying, Early, Late, Messages
      <4>2. UNCHANGED message \/ \E status \in MessageStatus : Mark(work[w].m, status)
        BY <3>6 DEF Check, Recheck, Gate, reserveMarketingFrequencySlot, Record, MessageStatus, Ended
      <4>3. \A m \in Message : message'[m] = message[m] \/ message[m] = "SENDING"
        BY <1>0, <4>1, <4>2, MarkType
      <4>4. \A m \in Message : m \in known' => m \in known \/ message[m] = "SENDING"
        BY <3>6 DEF Check, Recheck, Gate, reserveMarketingFrequencySlot, Record
      <4>5. UNCHANGED <<campaign, unbudgeted>>
        BY <3>6 DEF campaigns, Check, Recheck, Gate, reserveMarketingFrequencySlot, Record
      <4>. QED  BY <4>3, <4>4, <4>5, BudgetMoves
    <3>. QED  BY <2>2, <3>1, <3>2, <3>3, <3>4, <3>5, <3>6 DEF WorkerStep
  <2>3. ASSUME NEW w \in Worker, NEW k \in Campaign, TakeJob(w, k)
        PROVE  BudgetSound' /\ BudgetKept'
    BY <1>1, <2>3 DEF TakeJob, campaigns
  <2>4. ASSUME NEW w \in Worker, Crash(w)
        PROVE  BudgetSound' /\ BudgetKept'
    BY <1>1, <2>4 DEF Crash, Abandon
  <2>5. ASSUME NEW k \in Campaign, TakeJobUnconfigured(k)
        PROVE  BudgetSound' /\ BudgetKept'
    BY <1>1, <2>5, BudgetUnchecked DEF TakeJobUnconfigured, campaigns
  <2>6. ASSUME NEW k \in Campaign, Stall(k)
        PROVE  BudgetSound' /\ BudgetKept'
    BY <1>1, <2>6 DEF Stall, campaigns
  <2>7. ASSUME NEW c \in Customer, Oppose(c)
        PROVE  BudgetSound' /\ BudgetKept'
    BY <1>1, <2>7 DEF Oppose, campaigns
  <2>8. CASE ListRows
    BY <1>1, <2>8 DEF ListRows, campaigns
  <2>9. ASSUME NEW m \in Message, NEW cb \in Callback, Answers(m, cb)
        PROVE  BudgetSound' /\ BudgetKept'
    <3>0. cb \notin {"PENDING", "SENDING"}
      BY CampaignAssumption
    <3>1. message' = message \/ message' = [message EXCEPT ![m] = cb]
      BY <1>0, <2>9, AnswersFrame DEF Apply, RegisterFails
    <3>2. \A n \in Message : message'[n] \in {message[n], cb}
      BY <1>0, <3>1
    <3>3. UNCHANGED <<campaign, unbudgeted, known>>
      BY <1>0, <2>9, AnswersFrame DEF campaigns
    <3>. QED  BY <3>0, <3>2, <3>3, BudgetMoves
  <2>10. ASSUME NEW p \in Manager \cup Worker, CountAccepted(p)
         PROVE  BudgetSound' /\ BudgetKept'
    BY <1>1, <2>10 DEF CountAccepted
  <2>. QED  BY <1>3, <2>1, <2>2, <2>3, <2>4, <2>5, <2>6, <2>7, <2>8, <2>9, <2>10, Steps
<1>. QED  BY <1>2, <1>3

\* An acceptance stands, and a check begins with those there are.
LEMMA NextKeepsCheck ==
    ASSUME IInv, [Next]_vars
    PROVE  CheckSound'
<1>0. CheckSound /\ TypeOK
  BY DEF IInv
<1>1. ASSUME known \subseteq known', UNCHANGED budgetCheck \/ ~budgetCheck'.held
      PROVE  CheckSound'
  BY <1>0, <1>1 DEF CheckSound
<1>2. CASE UNCHANGED vars
  BY <1>1, <1>2 DEF vars, campaigns, mail
<1>3. CASE Next
  <2>1. ASSUME NEW u \in Manager, Asks(u)
        PROVE  CheckSound'
    <3>1. UNCHANGED known
      BY <1>0, <2>1, AsksTypes
    <3>2. UNCHANGED budgetCheck \/ ~budgetCheck'.held
      BY <2>1 DEF Asks, CommitPrepare, CommitSchedule, CommitSend, CommitCancel, RefuseRequest,
                  Enqueue, EnqueueFails, RequestDies, BeginRequest, SetCampaign, SetChecked,
                  EndCheck, Abandon, campaigns
    <3>. QED  BY <1>1, <3>1, <3>2
  <2>2. ASSUME NEW w \in Worker, WorkerStep(w)
        PROVE  CheckSound'
    <3>1. CASE ClaimCampaign(w) \/ BackToReady(w) \/ FetchPage(w) \/ Finish(w)
      <4>1. UNCHANGED known
        BY <3>1 DEF ClaimCampaign, BackToReady, FetchPage, Finish, mail
      <4>2. UNCHANGED budgetCheck \/ ~budgetCheck'.held
        BY <3>1 DEF ClaimCampaign, BackToReady, FetchPage, Finish, SetCampaign, SetChecked,
                    EndCheck, Abandon, campaigns
      <4>. QED  BY <1>1, <4>1, <4>2
    <3>2. CASE \/ FailStaleMessageClaims(w) \/ CountStale(w) \/ NextMessage(w) \/ Check(w)
               \/ reserveMarketingFrequencySlot(w) \/ Recheck(w) \/ Gate(w) \/ Call(w) \/ Record(w)
               \/ Tally(w) \/ releaseMarketingFrequencySlot(w)
               \/ \E status \in {"PENDING", "SENDING"} : CountLeft(w, status)
      BY <1>1, <3>2 DEF FailStaleMessageClaims, CountStale, NextMessage, Check,
            reserveMarketingFrequencySlot, Recheck, Gate, Call, Record, Tally,
            releaseMarketingFrequencySlot, CountLeft, campaigns, mail
    <3>. QED  BY <2>2, <3>1, <3>2 DEF WorkerStep
  <2>3. ASSUME NEW w \in Worker, NEW k \in Campaign, TakeJob(w, k)
        PROVE  CheckSound'
    BY <1>1, <2>3 DEF TakeJob, campaigns, mail
  <2>4. ASSUME NEW w \in Worker, Crash(w)
        PROVE  CheckSound'
    BY <1>1, <2>4 DEF Crash, Abandon, mail
  <2>5. ASSUME NEW k \in Campaign, TakeJobUnconfigured(k)
        PROVE  CheckSound'
    BY <1>1, <2>5 DEF TakeJobUnconfigured, SetCampaign, campaigns, mail
  <2>6. ASSUME NEW k \in Campaign, Stall(k)
        PROVE  CheckSound'
    BY <1>1, <2>6 DEF Stall, campaigns, mail
  <2>7. ASSUME NEW c \in Customer, Oppose(c)
        PROVE  CheckSound'
    BY <1>1, <2>7 DEF Oppose, campaigns, mail
  <2>8. CASE ListRows
    BY <1>1, <2>8 DEF ListRows, campaigns, mail
  <2>9. ASSUME NEW m \in Message, NEW cb \in Callback, Answers(m, cb)
        PROVE  CheckSound'
    BY <1>0, <1>1, <2>9, AnswersFrame DEF campaigns
  <2>10. ASSUME NEW p \in Manager \cup Worker, CountAccepted(p)
         PROVE  CheckSound'
    BY <2>10 DEF CountAccepted, CheckSound, mail
  <2>. QED  BY <1>3, <2>1, <2>2, <2>3, <2>4, <2>5, <2>6, <2>7, <2>8, <2>9, <2>10, Steps
<1>. QED  BY <1>2, <1>3

(***************************************************************************)
(* The theorems                                                            *)
(***************************************************************************)
LEMMA InitInv == Init => IInv
<1> SUFFICES ASSUME Init
             PROVE  IInv
  OBVIOUS
<1>0. /\ \A w \in Worker : work[w] = Idle
      /\ Cap \in Nat /\ Budget \in Nat /\ Message \subseteq Nat
      /\ \A m \in Message : Of[m] \in Campaign /\ message[m] \in {"NONE", "PENDING"} /\ calls[m] = 0
      /\ known = {} /\ sent = {} /\ misreported = {} /\ ~budgetCheck.held
      /\ unbudgeted = {m \in Message : message[m] = "PENDING"}
      /\ message \in [Message -> {"NONE", "PENDING"}]
      /\ campaign \in [Campaign -> {"DRAFT", "READY"}]
  BY CampaignAssumption DEF Init
<1>1. TypeOK
  <2>1. /\ campaign \in [Campaign -> CampaignStatus] /\ message \in [Message -> MessageStatus]
        /\ unbudgeted \in SUBSET Message /\ known \in SUBSET Message /\ sent \in SUBSET Message
        /\ misreported \in SUBSET Message /\ budgetCheck \in BudgetCheck
    BY <1>0 DEF Init, CampaignStatus, MessageStatus, BudgetCheck
  <2>2. slots \in [Customer -> Nat] /\ calls \in [Message -> Nat] /\ opposed \in SUBSET Customer
    BY <1>0 DEF Init
  <2>3. tally \in [Campaign -> Counters]
    BY DEF Init, Counters
  <2>4. job \in [Campaign -> Job]
    BY DEF Init, NoJob, Job
  <2>5. work \in [Worker -> Execution]
    BY IdleType DEF Init
  <2>6. request \in [Manager -> Request]
    BY DEF Init, Request
  <2>7. /\ row \in [Message \X Callback -> {"none", "open", "closed"}]
        /\ listed \in SUBSET (Message \X Callback) /\ events \in Nat
    BY DEF Init
  <2>. QED  BY <2>1, <2>2, <2>3, <2>4, <2>5, <2>6, <2>7 DEF TypeOK
<1>2. Carriage
  <2>1. \A w \in Worker : ExecutionSound(w) /\ ~Carries(w)
    BY <1>0, IdleType DEF ExecutionSound, Carries, Carrying, Early, Late
  <2>2. \A m \in Message : MessageSound(m)
    BY <1>0 DEF MessageSound
  <2>. QED  BY <2>1, <2>2 DEF Carriage, CarriedAlone
<1>3. SlotsKept
  <2> SUFFICES ASSUME NEW c \in Customer
               PROVE  Cardinality(Kept(c)) <= slots[c] /\ slots[c] <= Cap
    BY DEF SlotsKept
  <2>1. Kept(c) = {}
    BY <1>0, IdleType DEF Kept, Holding, Late
  <2>2. slots[c] \in 0..Cap
    BY DEF Init
  <2>. QED  BY <1>0, <2>1, <2>2, FS_EmptySet
<1>4. Counting
  <2>1. OwedOnce
    BY <1>0, IdleType DEF OwedOnce, OwesFailure
  <2>2. ASSUME NEW k \in Campaign
        PROVE  /\ tally[k].delivered = Cardinality(In(k, "DELIVERED"))
               /\ tally[k].failed <= Cardinality(CountedFailures(k))
               /\ tally[k].accepted <= Cardinality(CountedSuccesses(k))
    <3>1. /\ In(k, "DELIVERED") = {} /\ CountedFailures(k) = {} /\ CountedSuccesses(k) = {}
      BY <1>0 DEF In, Messages, CountedFailures, CountedSuccesses, Failures
    <3>2. tally[k] = [accepted |-> 0, delivered |-> 0, failed |-> 0]
      BY DEF Init
    <3>. QED  BY <3>1, <3>2, FS_EmptySet
  <2>. QED  BY <2>1, <2>2 DEF Counting, CountsSound
<1>5. BudgetSound /\ CheckSound
  BY <1>0 DEF BudgetSound, CheckSound
<1>6. BudgetKept
  <2>1. {m \in Message \ unbudgeted : m \in known \cup Awaiting(Campaign)} = {}
    BY <1>0 DEF Awaiting
  <2>. QED  BY <1>0, <2>1, FS_EmptySet DEF BudgetKept
<1>. QED  BY <1>1, <1>2, <1>3, <1>4, <1>5, <1>6 DEF IInv

LEMMA NextInv == IInv /\ [Next]_vars => IInv'
BY NextKeepsTypes, NextKeepsCarriage, NextKeepsBudget, NextKeepsCheck DEF IInv

\* The inductive invariant of processMarketingCampaignJob, the requests of the
\* dashboard and the callbacks of the provider.
THEOREM InvariantHolds == Spec => []IInv
BY InitInv, NextInv, PTL DEF Spec

\* schema.prisma, BullMQ: statuses, counters, jobs and executions keep their shapes.
THEOREM TypeCorrect == Spec => []TypeOK
BY InvariantHolds, PTL DEF IInv

\* failStaleMessageClaims and claimMessage: for every number of workers, crashes,
\* retries and stalls, no message is handed to the provider twice.
THEOREM CallsAreSingle == Spec => []CalledOnce
<1>1. IInv => CalledOnce
  BY DEF IInv, Carriage, MessageSound, CalledOnce
<1>. QED  BY <1>1, InvariantHolds, PTL

\* reserveMarketingFrequencySlot and releaseMarketingFrequencySlot: no customer is
\* sent more in a day than the cap, over all campaigns and any number of workers,
\* not counting the messages that were taken though the provider's client reported
\* an error for them (the code gives their slots back).
THEOREM PressureHolds == Spec => []PressureCapped
<1>1. IInv => PressureCapped
  <2> SUFFICES ASSUME IInv, NEW c \in Customer
               PROVE  Cardinality({m \in sent \ misreported : Who[m] = c}) <= slots[c] /\ slots[c] <= Cap
    BY DEF PressureCapped
  <2> DEFINE S == {m \in sent \ misreported : Who[m] = c}
  <2>1. S \subseteq Kept(c) /\ Kept(c) \subseteq Message
    BY DEF IInv, TypeOK, Kept
  <2>2. /\ Cardinality(S) <= Cardinality(Kept(c)) /\ Cardinality(S) \in Nat
        /\ Cardinality(Kept(c)) \in Nat
    BY <2>1, SmallerSet, FiniteMessages
  <2>3. Cardinality(Kept(c)) <= slots[c] /\ slots[c] <= Cap /\ slots[c] \in Nat
    BY DEF IInv, SlotsKept, TypeOK
  <2>. QED  BY <2>2, <2>3
<1>. QED  BY <1>1, InvariantHolds, PTL

\* remainingDailyEmailBudget: the messages the checks counted, recorded as accepted
\* or still to be sent, stay within the budget, whatever happens between the two
\* counts of a check.
THEOREM BudgetHolds == Spec => []BudgetKept
BY InvariantHolds, PTL DEF IInv

\* applyMarketingProviderEvent, and the counters of the job: none of them ever
\* counts a message twice, nor one that another execution settled.
THEOREM CountersAgree == Spec => []CountedOnce
<1>1. IInv => CountedOnce
  <2> SUFFICES ASSUME IInv, NEW k \in Campaign
               PROVE  /\ tally[k].delivered = Cardinality(In(k, "DELIVERED"))
                      /\ tally[k].failed <= Cardinality({m \in Messages(k) : message[m] \in Failures})
                      /\ tally[k].accepted <= Cardinality(known \cap Messages(k))
    BY DEF CountedOnce
  <2> DEFINE F == {m \in Messages(k) : message[m] \in Failures}
  <2>1. /\ CountedFailures(k) \subseteq F /\ F \subseteq Message
        /\ CountedSuccesses(k) \subseteq known \cap Messages(k) /\ known \cap Messages(k) \subseteq Message
        /\ CountedFailures(k) \subseteq Message /\ CountedSuccesses(k) \subseteq Message
    BY DEF CountedFailures, CountedSuccesses, Messages
  <2> HIDE DEF F
  <2>2. /\ Cardinality(CountedFailures(k)) <= Cardinality(F)
        /\ Cardinality(CountedSuccesses(k)) <= Cardinality(known \cap Messages(k))
        /\ Cardinality(F) \in Nat /\ Cardinality(known \cap Messages(k)) \in Nat
        /\ Cardinality(CountedFailures(k)) \in Nat /\ Cardinality(CountedSuccesses(k)) \in Nat
    BY <2>1, SmallerSet, FiniteMessages
  <2>3. /\ tally[k].delivered = Cardinality(In(k, "DELIVERED"))
        /\ tally[k].failed <= Cardinality(CountedFailures(k))
        /\ tally[k].accepted <= Cardinality(CountedSuccesses(k))
        /\ tally[k].failed \in Nat /\ tally[k].accepted \in Nat
    BY DEF IInv, Counting, CountsSound, TypeOK, Counters
  <2>. QED  BY <2>2, <2>3 DEF F
<1>. QED  BY <1>1, InvariantHolds, PTL

\* The last check of the permission is the only way to the gate, and an opposition
\* is never withdrawn by a callback or by the job.
LEMMA OppositionStands ==
    ASSUME IInv, [Next]_vars, NEW m \in Message, Opposed(m)
    PROVE  Opposed(m)'
<1>0. /\ TypeOK /\ Carriage /\ Who[m] \in opposed /\ calls[m] = 0
      /\ \A v \in Worker : ~(work[v].m = m /\ work[v].pc \in {"gate", "call"})
      /\ work \in [Worker -> Execution] /\ job \in [Campaign -> Job]
  BY DEF IInv, Opposed, TypeOK
<1>1. ASSUME opposed \subseteq opposed', UNCHANGED calls, \A v \in Worker : SameView(v) \/ Rests(v)
      PROVE  Opposed(m)'
  BY <1>0, <1>1 DEF Opposed, SameView, Rests, Carrying, Early
<1>2. UNCHANGED work => \A v \in Worker : SameView(v)
  BY DEF SameView
<1>3. CASE UNCHANGED vars
  BY <1>1, <1>2, <1>3 DEF vars, provider
<1>4. CASE Next
  <2>1. ASSUME NEW u \in Manager, Asks(u) PROVE Opposed(m)'
    BY <1>0, <1>1, <1>2, <2>1, AsksTypes DEF provider
  <2>2. ASSUME NEW w \in Worker, WorkerStep(w) PROVE Opposed(m)'
    <3>0. /\ work[w] \in Execution /\ OthersSame(w)
          /\ UNCHANGED opposed
      BY <1>0, <2>2, WorkerStepTypes
         DEF WorkerStep, ClaimCampaign, BackToReady, FailStaleMessageClaims, CountStale, FetchPage,
             NextMessage, Check, reserveMarketingFrequencySlot, Recheck, Gate, Call, Record, Tally,
             releaseMarketingFrequencySlot, Finish, CountLeft
    <3>1. ASSUME ~(work'[w].m = m /\ work'[w].pc \in {"gate", "call"}), calls'[m] = 0
          PROVE  Opposed(m)'
      BY <1>0, <3>0, <3>1 DEF Opposed, OthersSame, SameView
    <3>2. CASE Call(w)
      <4>1. \E answer \in {"accepted", "refused", "error", "unknown"} :
              GoOn(w, [work[w] EXCEPT !.pc = "record", !.answer = answer])
        BY <3>2 DEF Call
      <4>2. work'[w].pc = "record"
        BY <1>0, <4>1, CallWork
      <4>3. work[w].m # m
        BY <1>0, <3>2 DEF Call
      <4>4. calls'[m] = 0
        BY <1>0, <3>2, <4>3 DEF Call, TypeOK
      <4>. QED  BY <3>1, <4>2, <4>4
    <3>3. CASE ~Call(w)
      <4>1. UNCHANGED calls
        BY <2>2, <3>3
           DEF WorkerStep, ClaimCampaign, BackToReady, FailStaleMessageClaims, CountStale, FetchPage,
               NextMessage, Check, reserveMarketingFrequencySlot, Recheck, Gate, Record, Tally,
               releaseMarketingFrequencySlot, Finish, CountLeft, provider
      <4>2. ASSUME work'[w].m = m, work'[w].pc \in {"gate", "call"}
            PROVE  FALSE
        <5>0. /\ work[w].k \in Campaign /\ ExecutionSound(w)
              /\ work[w].page \subseteq Messages(work[w].k)
              /\ work[w].pc # "count stale" => work[w].owe = {}
          BY <1>0, <3>0 DEF Carriage, ExecutionSound, Execution
        <5>1. ~Rests(w)
          BY <4>2 DEF Rests, Carrying, Early
        <5>2. ASSUME NEW pc \in {"reserve", "recheck", "gate", "call", "tally"}, Step(w, pc)
              PROVE  work'[w].pc = pc /\ work'[w].m = work[w].m
          <6>1. [work[w] EXCEPT !.pc = pc] \in Execution
            BY <3>0 DEF Execution
          <6>. QED  BY <1>0, <5>2, <6>1, StepView
        <5>3. ~NextOne(w)
          <6>1. SUFFICES ASSUME NextOne(w) PROVE FALSE
            OBVIOUS
          <6>. QED  BY <1>0, <3>0, <4>2, <6>1, NextView DEF NextOne
        <5>4. CASE Recheck(w)
          BY <1>0, <4>2, <5>2, <5>3, <5>4 DEF Recheck, StillAllowed, Allowed
        <5>5. CASE Gate(w)
          <6>1. work[w].pc = "gate" /\ Step(w, "call")
            BY <5>3, <5>5 DEF Gate
          <6>. QED  BY <1>0, <4>2, <5>2, <6>1
        <5>6. CASE Check(w) \/ reserveMarketingFrequencySlot(w) \/ Record(w)
          BY <4>2, <5>2, <5>3, <5>6 DEF Check, reserveMarketingFrequencySlot, Record
        <5>7. CASE releaseMarketingFrequencySlot(w)
          BY <5>3, <5>7 DEF releaseMarketingFrequencySlot
        <5>8. CASE Tally(w)
          BY <1>0, <4>2, <5>8, TallyWork
        <5>9. CASE NextMessage(w)
          BY <1>0, <4>2, <5>0, <5>1, <5>9, NextMessageWork DEF Claims, NextMessage
        <5>10. CASE CountStale(w)
          BY <1>0, <4>2, <5>10, CountStaleWork
        <5>11. CASE FailStaleMessageClaims(w)
          BY <1>0, <4>2, <5>11, FailStaleWork
        <5>12. CASE ClaimCampaign(w)
          BY <1>0, <5>0, <5>1, <5>12, ClaimCampaignWork DEF ClaimCampaign
        <5>13. CASE BackToReady(w) \/ Finish(w)
          BY <1>0, <5>0, <5>1, <5>13, Ends, OutcomeType DEF BackToReady, Finish
        <5>14. CASE FetchPage(w)
          BY <1>0, <5>0, <5>1, <5>14, FetchPageWork DEF FetchPage
        <5>15. ASSUME NEW status, CountLeft(w, status) PROVE FALSE
          BY <1>0, <5>0, <5>1, <5>15, CountLeftWork DEF CountLeft
        <5>. QED  BY <2>2, <3>3, <5>4, <5>5, <5>6, <5>7, <5>8, <5>9, <5>10, <5>11, <5>12, <5>13,
                     <5>14, <5>15 DEF WorkerStep
      <4>. QED  BY <1>0, <3>1, <4>1, <4>2
    <3>. QED  BY <3>2, <3>3
  <2>3. ASSUME NEW w \in Worker, NEW k \in Campaign, TakeJob(w, k) PROVE Opposed(m)'
    <3>1. \A v \in Worker : SameView(v) \/ Rests(v)
      BY <1>0, <2>3, TakeJobWork DEF OthersSame
    <3>. QED  BY <1>1, <2>3, <3>1 DEF TakeJob, provider
  <2>4. ASSUME NEW w \in Worker, Crash(w) PROVE Opposed(m)'
    <3>1. \A v \in Worker : SameView(v) \/ Rests(v)
      BY <1>0, <2>4, IdleResets DEF Crash, OthersSame
    <3>. QED  BY <1>1, <2>4, <3>1 DEF Crash, provider
  <2>5. ASSUME NEW k \in Campaign, TakeJobUnconfigured(k) PROVE Opposed(m)'
    BY <1>1, <1>2, <2>5 DEF TakeJobUnconfigured, provider
  <2>6. ASSUME NEW k \in Campaign, Stall(k) PROVE Opposed(m)'
    BY <1>0, <1>1, <2>6, StallWork DEF Stall, provider
  <2>7. ASSUME NEW c \in Customer, Oppose(c) PROVE Opposed(m)'
    BY <1>1, <1>2, <2>7 DEF Oppose, provider
  <2>8. CASE ListRows
    BY <1>1, <1>2, <2>8 DEF ListRows, provider
  <2>9. ASSUME NEW n \in Message, NEW cb \in Callback, Answers(n, cb) PROVE Opposed(m)'
    <3>1. opposed \subseteq opposed'
      BY <1>0, <2>9, AnswersFrame DEF Apply, RegisterFails
    <3>. QED  BY <1>0, <1>1, <1>2, <2>9, <3>1, AnswersFrame DEF provider
  <2>10. ASSUME NEW p \in Manager \cup Worker, CountAccepted(p) PROVE Opposed(m)'
    BY <1>1, <1>2, <2>10 DEF CountAccepted, provider
  <2>. QED  BY <1>4, <2>1, <2>2, <2>3, <2>4, <2>5, <2>6, <2>7, <2>8, <2>9, <2>10, Steps
<1>. QED  BY <1>3, <1>4

\* eligibility, called twice: an opposition recorded before the last check of a
\* message stops it, whatever execution carries it and however it is retried, as
\* long as no new consent is given.
THEOREM OppositionsStand == Spec => OppositionHonoured
<1>1. IInv /\ [Next]_vars => [\A m \in Message : Opposed(m) => Opposed(m)']_vars
  BY OppositionStands
<1>. QED  BY <1>1, InvariantHolds, PTL DEF Spec, OppositionHonoured

=============================================================================
