------------------------------ MODULE Campaign ------------------------------
(***************************************************************************)
(* E-mail campaigns: the dashboard's requests (marketing.routes.ts,        *)
(* marketing-campaign.service.ts), the job that sends                      *)
(* (marketing-campaign.worker.ts) and the provider's callbacks             *)
(* (marketing-provider.service.ts).                                        *)
(*                                                                         *)
(* A request is a read followed by a write.  A job is one execution of     *)
(* processMarketingCampaignJob by a worker, one step per statement; BullMQ *)
(* gives it to another worker when its lock lapses, whether or not the     *)
(* first one died.  A check of the daily budget is a transaction of two    *)
(* steps, the second with its decision and its write.  The model covers    *)
(* one day: one frequency window per customer and one budget.              *)
(***************************************************************************)
EXTENDS Naturals, FiniteSets

CONSTANTS
    Campaign, Customer, Worker, Manager,
    Message,        \* the recipients of every campaign, numbered in the order of their ids
    Of,             \* the campaign of a message
    Who,            \* its customer
    Draft,          \* the campaigns that may still be prepared
    Callback,       \* the statuses the provider reports
    Cap,            \* MAX_SENDS_PER_FREQUENCY_WINDOW
    Budget,         \* MARKETING_EMAIL_DAILY_BUDGET
    MaxAttempts,    \* attempts of a job
    MaxStalls,      \* times BullMQ takes a job back
    MaxEvents       \* bound on requests, oppositions, faults and callbacks

ASSUME CampaignAssumption ==
    /\ Campaign # {} /\ Manager \cap Worker = {}
    /\ Message \subseteq Nat /\ IsFiniteSet(Message)
    /\ Of \in [Message -> Campaign] /\ Who \in [Message -> Customer]
    /\ Draft \subseteq Campaign
    /\ Callback \subseteq {"SENT", "DELIVERED", "FAILED", "BOUNCED", "COMPLAINED"}
    /\ {Cap, Budget, MaxStalls, MaxEvents} \subseteq Nat /\ MaxAttempts \in Nat \ {0}

VARIABLES
    campaign,       \* status of each campaign
    message,        \* status of each message
    known,          \* messages whose provider id is stored, with their acceptedAt
    slots,          \* sendCount of each customer's window
    opposed,        \* customers with an opposition or a suppression
    tally,          \* the counters of each campaign
    job,            \* the job of each campaign, as BullMQ keeps it
    work,           \* the executions in progress
    request,        \* the dashboard's requests in progress
    row,            \* marketingProviderReconciliation rows, one per message and callback
    listed,         \* the rows the reconciliation in progress has loaded
    calls,          \* history: calls to the provider for a message
    sent,           \* history: messages the provider took
    misreported,    \* history: of these, the ones its client reported as errors
    unbudgeted,     \* history: messages the checks of the budget have not counted
    budgetCheck,    \* the check of the budget in progress, under its advisory lock
    events          \* history: how many of them so far

mail == <<message, known>>
provider == <<calls, sent, misreported>>
callbacks == <<row, listed>>
campaigns == <<campaign, unbudgeted, budgetCheck>>
vars == <<campaigns, mail, slots, opposed, tally, job, work, request, callbacks, provider, events>>

Ended == {"ACCEPTED", "SENT", "DELIVERED", "FAILED", "BOUNCED", "COMPLAINED", "CANCELLED"}

\* The shapes of what the tables and the queue keep.
CampaignStatus == {"DRAFT", "READY", "SCHEDULED", "SENDING", "PAUSED", "SENT", "FAILED", "CANCELLED"}
MessageStatus == Ended \cup {"NONE", "PENDING", "SENDING"}
Counters == [accepted : Nat, delivered : Nat, failed : Nat]
Job == [state : {"none", "waiting", "active", "done"}, tries : Nat, stalls : Nat]
Request ==
    {[op |-> "none"]} \cup [op : {"prepare", "schedule", "send", "cancel", "enqueue"}, k : Campaign]
Execution ==
    [pc : {"idle", "claim", "refused", "stale", "count stale", "page", "next", "check", "reserve",
           "recheck", "gate", "call", "record", "tally", "release", "count"},
     k : Campaign, owns : BOOLEAN, seen : {"READY", "SCHEDULED", "SENDING"},
     before : SUBSET Message, page : SUBSET Message, m : Nat,
     answer : {"none", "accepted", "refused", "error", "unknown"}, owe : SUBSET Message, failed : Nat,
     todo : SUBSET {"PENDING", "SENDING"}, left : BOOLEAN]

BudgetCheck ==
    {[held |-> FALSE]} \cup [held : {TRUE}, by : Manager \cup Worker, accepted : SUBSET Message]

Messages(k) == {m \in Message : Of[m] = k}
In(k, status) == {m \in Messages(k) : message[m] = status}

NoJob == [state |-> "none", tries |-> 0, stalls |-> 0]
Idle == [pc |-> "idle", k |-> CHOOSE k \in Campaign : TRUE, owns |-> FALSE, seen |-> "READY",
         before |-> {}, page |-> {}, m |-> 0, answer |-> "none", owe |-> {}, failed |-> 0,
         todo |-> {}, left |-> FALSE]

Init ==
    /\ campaign \in {f \in [Campaign -> {"DRAFT", "READY"}] : \A k \in Campaign \ Draft : f[k] = "READY"}
    /\ message = [m \in Message |-> IF campaign[Of[m]] = "DRAFT" THEN "NONE" ELSE "PENDING"]
    /\ unbudgeted = {m \in Message : message[m] = "PENDING"} /\ known = {}
    /\ budgetCheck = [held |-> FALSE]
    /\ slots \in [Customer -> 0..Cap] /\ opposed = {}
    /\ tally = [k \in Campaign |-> [accepted |-> 0, delivered |-> 0, failed |-> 0]]
    /\ job = [k \in Campaign |-> NoJob] /\ work = [w \in Worker |-> Idle]
    /\ request = [u \in Manager |-> [op |-> "none"]]
    /\ row = [p \in Message \X Callback |-> "none"] /\ listed = {}
    /\ calls = [m \in Message |-> 0] /\ sent = {} /\ misreported = {} /\ events = 0

(***************************************************************************)
(* The daily budget                                                        *)
(***************************************************************************)
\* A campaign in one of these states reserves its unsent messages.
Reserving == {"SENDING", "PAUSED", "SCHEDULED"}

Awaiting(ks) ==
    {m \in Message : /\ Of[m] \in ks /\ campaign[Of[m]] \in Reserving
                     /\ message[m] \in {"PENDING", "SENDING"}}

\* countRemainingDailyEmailBudget is two counts.  The first, of the e-mails
\* accepted so far, begins a transaction that holds the lock to its end.
CountAccepted(p) ==
    /\ ~budgetCheck.held
    /\ \/ p \in Manager /\ request[p].op \in {"schedule", "send"}
       \/ p \in Worker /\ work[p].pc = "claim" /\ work[p].seen = "SCHEDULED"
    /\ budgetCheck' = [held |-> TRUE, by |-> p, accepted |-> known]
    /\ UNCHANGED <<campaign, unbudgeted, mail, slots, opposed, tally, job, work, request,
                   callbacks, provider>>

Checks(p) == budgetCheck.held /\ budgetCheck.by = p

\* Mutant: only the e-mails already accepted count.
FitsAccepted(k, ks) == Cardinality(Messages(k)) + Cardinality(budgetCheck.accepted) <= Budget

\* The audience of k fits in what is left beside the campaigns ks, the second
\* count being that of the messages they have yet to send.
Fits(k, ks) ==
    Cardinality(Messages(k)) + Cardinality(budgetCheck.accepted) + Cardinality(Awaiting(ks)) <= Budget

EndCheck == budgetCheck' = [held |-> FALSE]

\* The process of a transaction dies, and the lock is free again.
Abandon(p) ==
    /\ budgetCheck' = IF Checks(p) THEN [held |-> FALSE] ELSE budgetCheck
    /\ UNCHANGED <<campaign, unbudgeted>>

\* Every write of a status that no check of the budget precedes.
SetCampaign(k, status) ==
    /\ campaign' = [campaign EXCEPT ![k] = status]
    /\ unbudgeted' = IF status \in Reserving THEN unbudgeted
                     ELSE unbudgeted \cup In(k, "PENDING") \cup In(k, "SENDING")
    /\ UNCHANGED budgetCheck

\* One that follows a check, in its transaction.  A message that was accepted
\* between the two counts is in neither.
SetChecked(k, status) ==
    LET counted == Messages(k) \cup budgetCheck.accepted \cup Awaiting(Campaign)
    IN  /\ campaign' = [campaign EXCEPT ![k] = status]
        /\ unbudgeted' = (unbudgeted \cup known) \ counted
        /\ EndCheck

(***************************************************************************)
(* The dashboard                                                           *)
(***************************************************************************)
Admits(op, status) ==
    CASE op = "prepare"  -> status = "DRAFT"
      [] op = "schedule" -> status = "READY"
      [] op = "send"     -> status \in {"READY", "SCHEDULED"}
      [] op = "cancel"   -> status \notin {"SENT", "CANCELLED"}

\* The status a request reads before its transaction.
BeginRequest(u, op, k) ==
    /\ request[u].op = "none" /\ Admits(op, campaign[k])
    /\ request' = [request EXCEPT ![u] = [op |-> op, k |-> k]]
    /\ UNCHANGED <<campaigns, mail, slots, opposed, tally, job, work, callbacks, provider>>

Becomes(u, next) == request' = [request EXCEPT ![u] = next]

\* prepareMarketingCampaign: writes READY whatever the status is by now.
CommitPrepare(u) ==
    LET k == request[u].k
    IN  /\ request[u].op = "prepare"
        /\ message' = [m \in Message |-> IF Of[m] = k /\ message[m] = "NONE" THEN "PENDING"
                                         ELSE message[m]]
        /\ campaign' = [campaign EXCEPT ![k] = "READY"]
        /\ unbudgeted' = unbudgeted \cup {m \in Messages(k) : message'[m] \notin Ended}
        /\ Becomes(u, [op |-> "none"])
        /\ UNCHANGED <<budgetCheck, known, slots, opposed, tally, job, work, callbacks, provider>>

\* scheduleMarketingCampaign, for the day itself: checked, then written
\* whatever the status is by now.
CommitSchedule(u) ==
    LET k == request[u].k
    IN  /\ request[u].op = "schedule" /\ Checks(u)
        /\ Fits(k, Campaign)
        /\ SetChecked(k, "SCHEDULED")
        /\ Becomes(u, [op |-> "enqueue", k |-> k])
        /\ UNCHANGED <<mail, slots, opposed, tally, job, work, callbacks, provider>>

\* startMarketingCampaign.
CommitSend(u) ==
    LET k == request[u].k
    IN  /\ request[u].op = "send" /\ Checks(u)
        /\ Fits(k, Campaign \ {k}) /\ campaign[k] \in {"READY", "SCHEDULED"}
        /\ SetChecked(k, "SENDING")
        /\ Becomes(u, [op |-> "enqueue", k |-> k])
        /\ UNCHANGED <<mail, slots, opposed, tally, job, work, callbacks, provider>>

\* MARKETING_DAILY_BUDGET_EXCEEDED or CAMPAIGN_ALREADY_RUNNING.
RefuseRequest(u) ==
    LET k == request[u].k
    IN  /\ Checks(u)
        /\ \/ request[u].op = "schedule" /\ ~Fits(k, Campaign)
           \/ /\ request[u].op = "send"
              /\ ~Fits(k, Campaign \ {k}) \/ campaign[k] \notin {"READY", "SCHEDULED"}
        /\ EndCheck
        /\ Becomes(u, [op |-> "none"])
        /\ UNCHANGED <<campaign, unbudgeted, mail, slots, opposed, tally, job, work, callbacks, provider>>

\* cancelMarketingCampaign: writes CANCELLED whatever the status is by now.
CommitCancel(u) ==
    /\ request[u].op = "cancel"
    /\ SetCampaign(request[u].k, "CANCELLED")
    /\ Becomes(u, [op |-> "none"])
    /\ UNCHANGED <<mail, slots, opposed, tally, job, work, callbacks, provider>>

\* BullMQ ignores an id it still keeps, in any state.
Enqueued(k) == [job EXCEPT ![k] = IF @.state = "none" THEN [@ EXCEPT !.state = "waiting"] ELSE @]

Enqueue(u) ==
    /\ request[u].op = "enqueue"
    /\ job' = Enqueued(request[u].k)
    /\ Becomes(u, [op |-> "none"])
    /\ UNCHANGED <<campaigns, mail, slots, opposed, tally, work, callbacks, provider>>

\* The add fails, the job having reached the queue or not.
EnqueueFails(u) ==
    /\ request[u].op = "enqueue"
    /\ job' \in {job, Enqueued(request[u].k)}
    /\ SetCampaign(request[u].k, "FAILED")
    /\ Becomes(u, [op |-> "none"])
    /\ UNCHANGED <<mail, slots, opposed, tally, work, callbacks, provider>>

\* The server dies in a check of the budget, or between the transaction and the
\* queue.
RequestDies(u) ==
    /\ request[u].op = "enqueue" \/ Checks(u)
    /\ Abandon(u)
    /\ Becomes(u, [op |-> "none"])
    /\ UNCHANGED <<mail, slots, opposed, tally, job, work, callbacks, provider>>

(***************************************************************************)
(* The job: from the queue to its first page                               *)
(***************************************************************************)
Finished(k) == [job EXCEPT ![k].state = "done"]
Failed(k) ==
    LET again == job[k].tries + 1 < MaxAttempts
    IN  [job EXCEPT ![k] = [job[k] EXCEPT !.state = IF again THEN "waiting" ELSE "done",
                                          !.tries = @ + 1]]

\* The execution ends; the queue only listens to the one that has the lock.
EndWork(w, outcome) ==
    /\ work' = [work EXCEPT ![w] = Idle]
    /\ job' = IF work[w].owns THEN outcome ELSE job

GoOn(w, execution) == work' = [work EXCEPT ![w] = execution]
Step(w, pc) == GoOn(w, [work[w] EXCEPT !.pc = pc])

Taken(status) == status \in {"READY", "SCHEDULED", "SENDING"}

\* The job's reads, and the paths that end it there.  Any claim in progress may
\* by now be older than MARKETING_MESSAGE_STALE_AFTER_MS.
TakeJob(w, k) ==
    /\ work[w].pc = "idle" /\ job[k].state = "waiting"
    /\ \/ /\ campaign[k] \in {"CANCELLED", "SENT"}
          /\ job' = Finished(k)
          /\ UNCHANGED <<campaigns, work>>
       \/ /\ campaign[k] \notin {"CANCELLED", "SENT"} /\ ~Taken(campaign[k])
          /\ job' = Failed(k)
          /\ UNCHANGED <<campaigns, work>>
       \/ /\ Taken(campaign[k])
          /\ job' = [job EXCEPT ![k].state = "active"]
          /\ \E before \in SUBSET In(k, "SENDING") :
               GoOn(w, [Idle EXCEPT !.pc = IF campaign[k] = "SENDING" THEN "stale" ELSE "claim",
                                    !.k = k, !.owns = TRUE, !.seen = campaign[k],
                                    !.before = before])
          /\ UNCHANGED campaigns
    /\ UNCHANGED <<mail, slots, opposed, tally, request, callbacks, provider>>

\* MARKETING_EMAIL_FROM is missing: the campaign is READY again and the job fails.
TakeJobUnconfigured(k) ==
    /\ job[k].state = "waiting" /\ Taken(campaign[k])
    /\ IF campaign[k] = "READY" THEN UNCHANGED campaigns ELSE SetCampaign(k, "READY")
    /\ job' = Failed(k)
    /\ UNCHANGED <<mail, slots, opposed, tally, work, request, callbacks, provider>>

\* The claim of a campaign that was read READY or SCHEDULED.  Only the second
\* repeats the check of the budget.
ClaimCampaign(w) ==
    LET k == work[w].k
        checks == work[w].seen = "SCHEDULED"
        refused == checks /\ ~Fits(k, Campaign \ {k})
    IN  /\ work[w].pc = "claim"
        /\ checks => Checks(w)
        /\ \/ refused /\ Step(w, "refused") /\ EndCheck /\ UNCHANGED <<campaign, unbudgeted, job>>
           \/ /\ ~refused /\ campaign[k] \in {"READY", "SCHEDULED"}
              /\ IF checks THEN SetChecked(k, "SENDING") ELSE SetCampaign(k, "SENDING")
              /\ Step(w, "stale")
              /\ UNCHANGED job
           \/ /\ ~refused /\ campaign[k] \notin {"READY", "SCHEDULED"}
              /\ EndWork(w, Finished(k))
              /\ Abandon(w)
        /\ UNCHANGED <<mail, slots, opposed, tally, request, callbacks, provider>>

\* The budget refused: the campaign is READY again, and the job will be tried again.
BackToReady(w) ==
    LET k == work[w].k
    IN  /\ work[w].pc = "refused"
        /\ IF campaign[k] = "SCHEDULED" THEN SetCampaign(k, "READY") ELSE UNCHANGED campaigns
        /\ EndWork(w, Failed(k))
        /\ UNCHANGED <<mail, slots, opposed, tally, request, callbacks, provider>>

\* The claims of the campaign that were too old when the job began.
Stale(w) == In(work[w].k, "SENDING") \cap work[w].before

\* Mutant: they are given back to be sent.
GiveStaleBack(w) ==
    /\ work[w].pc = "stale"
    /\ message' = [m \in Message |-> IF m \in Stale(w) THEN "PENDING" ELSE message[m]]
    /\ GoOn(w, [work[w] EXCEPT !.pc = "page", !.before = {}])
    /\ UNCHANGED <<campaigns, known, slots, opposed, tally, job, request, callbacks, provider>>

\* They fail: the provider may have taken them.  ensureCampaignMessages, just
\* before, finds the messages of a prepared campaign and adds none.
FailStaleMessageClaims(w) ==
    LET stale == Stale(w)
    IN  /\ work[w].pc = "stale"
        /\ message' = [m \in Message |-> IF m \in stale THEN "FAILED" ELSE message[m]]
        /\ GoOn(w, [work[w] EXCEPT !.pc = IF stale = {} THEN "page" ELSE "count stale",
                                   !.owe = stale, !.failed = Cardinality(stale),
                                   !.before = {}])
        /\ UNCHANGED <<campaigns, known, slots, opposed, tally, job, request, callbacks, provider>>

CountStale(w) ==
    /\ work[w].pc = "count stale"
    /\ tally' = [tally EXCEPT ![work[w].k].failed = @ + Cardinality(work[w].owe)]
    /\ GoOn(w, [work[w] EXCEPT !.pc = "page", !.owe = {}])
    /\ UNCHANGED <<campaigns, mail, slots, opposed, job, request, callbacks, provider>>

(***************************************************************************)
(* The job: one message                                                    *)
(***************************************************************************)
ToNext(execution) == [execution EXCEPT !.pc = "next", !.m = 0, !.answer = "none"]
NextOne(w) == GoOn(w, ToNext(work[w]))

Mark(m, status) ==
    message' = [message EXCEPT ![m] = IF @ = "SENDING" THEN status ELSE @]

\* The end of the loop: what is left is then counted.
Leave(w) ==
    GoOn(w, [work[w] EXCEPT !.pc = "count", !.page = {}, !.todo = {"PENDING", "SENDING"}])

\* The target service is full: the campaign pauses itself.
FetchPage(w) ==
    LET k == work[w].k
        pending == In(k, "PENDING")
        stop == campaign[k] \in {"CANCELLED", "PAUSED", "FAILED", "SENT"} \/ pending = {}
    IN  /\ work[w].pc = "page"
        /\ \/ stop /\ Leave(w) /\ UNCHANGED campaigns
           \/ /\ ~stop
              /\ IF campaign[k] = "SENDING" THEN SetCampaign(k, "PAUSED") ELSE UNCHANGED campaigns
              /\ Leave(w)
           \/ /\ ~stop
              /\ GoOn(w, [work[w] EXCEPT !.pc = "next", !.page = pending])
              /\ UNCHANGED campaigns
        /\ UNCHANGED <<mail, slots, opposed, tally, job, request, callbacks, provider>>

\* claimMessage, for the next message of the page.
NextMessage(w) ==
    /\ work[w].pc = "next"
    /\ \/ /\ work[w].page = {} \/ campaign[work[w].k] = "CANCELLED"
          /\ GoOn(w, [work[w] EXCEPT !.pc = "page", !.page = {}, !.m = 0])
          /\ UNCHANGED message
       \/ /\ campaign[work[w].k] # "CANCELLED"
          /\ \E m \in work[w].page :
               /\ \A n \in work[w].page : m <= n
               /\ \/ /\ message[m] # "PENDING"
                     /\ GoOn(w, [work[w] EXCEPT !.page = @ \ {m}])
                     /\ UNCHANGED message
                  \/ /\ message[m] = "PENDING"
                     /\ message' = [message EXCEPT ![m] = "SENDING"]
                     /\ work' = [v \in Worker |->
                            IF v = w THEN [work[w] EXCEPT !.pc = "check", !.page = @ \ {m}, !.m = m]
                            ELSE [work[v] EXCEPT !.before = @ \ {m}]]
    /\ UNCHANGED <<campaigns, known, slots, opposed, tally, job, request, callbacks, provider>>

Allowed(m) == Who[m] \notin opposed

\* The first check of the permission, then the slot of the day.
Check(w) ==
    LET m == work[w].m
    IN  /\ work[w].pc = "check"
        /\ IF Allowed(m) THEN Step(w, "reserve") /\ UNCHANGED message
           ELSE NextOne(w) /\ Mark(m, "CANCELLED")
        /\ UNCHANGED <<campaigns, known, slots, opposed, tally, job, request, callbacks, provider>>

reserveMarketingFrequencySlot(w) ==
    LET m == work[w].m
    IN  /\ work[w].pc = "reserve"
        /\ IF slots[Who[m]] < Cap
           THEN /\ slots' = [slots EXCEPT ![Who[m]] = @ + 1]
                /\ Step(w, "recheck")
                /\ UNCHANGED message
           ELSE NextOne(w) /\ Mark(m, "CANCELLED") /\ UNCHANGED slots
        /\ UNCHANGED <<campaigns, known, opposed, tally, job, request, callbacks, provider>>

\* Mutant: the permission is not looked at again.
AllowedAsRead(m) == TRUE

StillAllowed(m) == Allowed(m)

\* Consent may have changed since the first check.
Recheck(w) ==
    LET m == work[w].m
    IN  /\ work[w].pc = "recheck"
        /\ IF StillAllowed(m) THEN Step(w, "gate") /\ UNCHANGED message
           ELSE NextOne(w) /\ Mark(m, "CANCELLED")
        /\ UNCHANGED <<campaigns, known, slots, opposed, tally, job, request, callbacks, provider>>

\* The last look at the campaign before the provider.
Gate(w) ==
    LET m == work[w].m
        status == campaign[work[w].k]
    IN  /\ work[w].pc = "gate"
        /\ \/ status = "CANCELLED" /\ NextOne(w) /\ Mark(m, "CANCELLED")
           \/ /\ status \in {"PAUSED", "FAILED", "SENT"}
              /\ NextOne(w) /\ Mark(m, "PENDING")
           \/ /\ status \notin {"CANCELLED", "PAUSED", "FAILED", "SENT"}
              /\ Step(w, "call") /\ UNCHANGED message
        /\ UNCHANGED <<campaigns, known, slots, opposed, tally, job, request, callbacks, provider>>

\* The provider takes the message or not.  Its client reports an error when the
\* provider refused, when it failed, and when no answer came through: the
\* message may have been taken.  The job itself stops waiting after a while.
Call(w) ==
    LET m == work[w].m
    IN  /\ work[w].pc = "call"
        /\ calls' = [calls EXCEPT ![m] = @ + 1]
        /\ \E answer \in {"accepted", "refused", "error", "unknown"}, taken \in BOOLEAN :
              /\ answer = "accepted" => taken
              /\ answer = "refused" => ~taken
              /\ GoOn(w, [work[w] EXCEPT !.pc = "record", !.answer = answer])
              /\ sent' = IF taken THEN sent \cup {m} ELSE sent
              /\ misreported' = IF taken /\ answer = "error" THEN misreported \cup {m}
                                ELSE misreported
        /\ UNCHANGED <<campaigns, mail, slots, opposed, tally, job, request, callbacks>>

\* Nothing more is written for a message that another execution has settled.
Record(w) ==
    LET m == work[w].m
        accepted == work[w].answer = "accepted"
    IN  /\ work[w].pc = "record"
        /\ Mark(m, IF accepted THEN "ACCEPTED" ELSE "FAILED")
        /\ known' = IF message[m] = "SENDING" /\ accepted THEN known \cup {m} ELSE known
        /\ IF message[m] = "SENDING" THEN Step(w, "tally") ELSE NextOne(w)
        /\ UNCHANGED <<campaigns, slots, opposed, tally, job, request, callbacks, provider>>

\* Mutant: a slot is given back whenever the message failed.
WasNotSentUnlessAccepted(answer) == answer # "accepted"

\* A refusal, which is certain, or any error the client reports.
messageWasNotSent(answer) == answer \in {"refused", "error"}

Tally(w) ==
    LET k == work[w].k
        accepted == work[w].answer = "accepted"
    IN  /\ work[w].pc = "tally"
        /\ tally' = IF accepted THEN [tally EXCEPT ![k].accepted = @ + 1]
                    ELSE [tally EXCEPT ![k].failed = @ + 1]
        /\ LET counted == [work[w] EXCEPT !.failed = IF accepted THEN @ ELSE @ + 1]
           IN  GoOn(w, IF messageWasNotSent(work[w].answer) THEN [counted EXCEPT !.pc = "release"]
                       ELSE ToNext(counted))
        /\ UNCHANGED <<campaigns, mail, slots, opposed, job, request, callbacks, provider>>

\* A write that fails is only logged.
releaseMarketingFrequencySlot(w) ==
    LET c == Who[work[w].m]
    IN  /\ work[w].pc = "release"
        /\ slots' \in {slots, [slots EXCEPT ![c] = IF @ > 0 THEN @ - 1 ELSE @]}
        /\ NextOne(w)
        /\ UNCHANGED <<campaigns, mail, opposed, tally, job, request, callbacks, provider>>

\* Two counts, in either order.
CountLeft(w, status) ==
    /\ work[w].pc = "count" /\ status \in work[w].todo
    /\ GoOn(w, [work[w] EXCEPT !.todo = @ \ {status},
                               !.left = @ \/ In(work[w].k, status) # {}])
    /\ UNCHANGED <<campaigns, mail, slots, opposed, tally, job, request, callbacks, provider>>

\* The campaign's last status, whatever it is by now.
Finish(w) ==
    LET k == work[w].k
    IN  /\ work[w].pc = "count" /\ work[w].todo = {}
        /\ IF work[w].left THEN UNCHANGED campaigns
           ELSE SetCampaign(k, IF work[w].failed > 0 THEN "FAILED" ELSE "SENT")
        /\ EndWork(w, Finished(k))
        /\ UNCHANGED <<mail, slots, opposed, tally, request, callbacks, provider>>

(***************************************************************************)
(* Crashes and stalls                                                      *)
(***************************************************************************)
Crash(w) ==
    /\ work[w].pc # "idle"
    /\ work' = [work EXCEPT ![w] = Idle]
    /\ Abandon(w)
    /\ UNCHANGED <<mail, slots, opposed, tally, job, request, callbacks, provider>>

Owned(k) == \E w \in Worker : work[w].owns /\ work[w].k = k

\* The lock of an active job lapses: its owner died, or is too slow to renew it.
Stall(k) ==
    /\ job[k].state = "active"
    /\ Owned(k) => job[k].stalls < MaxStalls
    /\ job' = [job EXCEPT ![k] =
                    [job[k] EXCEPT !.state = IF job[k].stalls < MaxStalls THEN "waiting" ELSE "done",
                                   !.stalls = @ + 1]]
    /\ work' = [w \in Worker |-> IF work[w].k = k THEN [work[w] EXCEPT !.owns = FALSE] ELSE work[w]]
    /\ UNCHANGED <<campaigns, mail, slots, opposed, tally, request, callbacks, provider>>

StallOfTheDead(k) == ~Owned(k) /\ Stall(k)
StallOfTheLiving(k) == Owned(k) /\ Stall(k)

\* The customer withdraws the permission.
Oppose(c) ==
    /\ c \notin opposed /\ opposed' = opposed \cup {c}
    /\ UNCHANGED <<campaigns, mail, slots, tally, job, work, request, callbacks, provider>>

(***************************************************************************)
(* The provider's callbacks                                                *)
(***************************************************************************)
Failures == {"FAILED", "BOUNCED", "COMPLAINED"}

\* Mutant: a failure is not final.
RecoveringTransition(from, to) ==
    \/ from \in {"ACCEPTED", "SENT"} /\ from # to
    \/ from \in Failures /\ to = "DELIVERED"

canTransition(from, to) == from \in {"ACCEPTED", "SENT"} /\ from # to

RowsOf(m) == {m} \X Callback
ClosedRows(m) == [p \in DOMAIN row |-> IF p \in RowsOf(m) /\ row[p] = "open" THEN "closed" ELSE row[p]]

\* applyMarketingProviderEvent for a message that is found: one transaction, whose
\* conditional update is tried again for a status that changed, twice at most.
Apply(m, cb) ==
    LET k == Of[m]
        changed == canTransition(message[m], cb)
    IN  /\ row' = ClosedRows(m)
        /\ message' = IF changed THEN [message EXCEPT ![m] = cb] ELSE message
        /\ tally' = CASE changed /\ cb = "DELIVERED" -> [tally EXCEPT ![k].delivered = @ + 1]
                      [] changed /\ cb \in Failures -> [tally EXCEPT ![k].failed = @ + 1]
                      [] OTHER -> tally
        /\ \/ changed /\ cb \in {"BOUNCED", "COMPLAINED"} /\ opposed' = opposed \cup {Who[m]}
           \/ changed /\ cb # "COMPLAINED" /\ UNCHANGED opposed     \* a bounce may be transient
           \/ ~changed /\ UNCHANGED opposed
           \* a complaint that loses its race leaves its suppression
           \/ ~changed /\ cb = "COMPLAINED" /\ opposed' = opposed \cup {Who[m]}

\* A complaint that the register of oppositions cannot take: only the
\* suppression is kept, and the handler throws.
RegisterFails(m, cb) ==
    /\ cb = "COMPLAINED" /\ canTransition(message[m], cb)
    /\ opposed' = opposed \cup {Who[m]}
    /\ UNCHANGED <<row, message, tally>>

\* No message is found, or the customer who complains has been archived.
Unmatched(m, cb) == m \notin known \/ (cb = "COMPLAINED" /\ canTransition(message[m], cb))

\* Callbacks come in any order, any number of times, also before the id is stored.
ReceiveCallback(m, cb) ==
    /\ m \in sent
    /\ \/ m \in known /\ (Apply(m, cb) \/ RegisterFails(m, cb))
       \/ /\ Unmatched(m, cb)
          /\ row' = [row EXCEPT ![<<m, cb>>] = IF @ = "none" THEN "open" ELSE @]
          /\ UNCHANGED <<message, tally, opposed>>
    /\ UNCHANGED <<campaigns, known, slots, job, work, request, listed, provider>>

\* The reconciliation closes rows of more than two hours, whose answer has been
\* stored or lost since, and loads the others.
ListRows ==
    LET open == {p \in DOMAIN row : row[p] = "open"}
        settled == {p \in open : \A w \in Worker : ~(work[w].m = p[1] /\ work[w].pc = "record")}
    IN  /\ listed = {}
        /\ \E expired \in SUBSET settled :
            /\ row' = [p \in DOMAIN row |-> IF p \in expired THEN "closed" ELSE row[p]]
            /\ listed' = open \ expired
        /\ UNCHANGED <<campaigns, mail, slots, opposed, tally, job, work, request, provider>>

\* Then it takes them one by one, until one throws.
ReconcileRow(p) ==
    /\ p \in listed
    /\ \/ p[1] \in known /\ Apply(p[1], p[2]) /\ listed' = listed \ {p}
       \/ p[1] \in known /\ RegisterFails(p[1], p[2]) /\ listed' = {}
       \/ /\ Unmatched(p[1], p[2])
          /\ listed' = listed \ {p} /\ UNCHANGED <<row, message, tally, opposed>>
    /\ UNCHANGED <<campaigns, known, slots, job, work, request, provider>>

(***************************************************************************)
(* The specification                                                       *)
(***************************************************************************)
WorkerStep(w) ==
    \/ ClaimCampaign(w) \/ BackToReady(w) \/ FailStaleMessageClaims(w) \/ CountStale(w) \/ FetchPage(w)
    \/ NextMessage(w) \/ Check(w) \/ reserveMarketingFrequencySlot(w) \/ Recheck(w) \/ Gate(w)
    \/ Call(w) \/ Record(w) \/ Tally(w) \/ releaseMarketingFrequencySlot(w) \/ Finish(w)
    \/ \E status \in {"PENDING", "SENDING"} : CountLeft(w, status)

Quiet ==
    \/ \E u \in Manager :
        \/ CommitPrepare(u) \/ CommitSchedule(u) \/ CommitSend(u) \/ CommitCancel(u)
        \/ RefuseRequest(u) \/ Enqueue(u)
    \/ \E w \in Worker : WorkerStep(w) \/ \E k \in Campaign : TakeJob(w, k)
    \/ \E p \in Manager \cup Worker : CountAccepted(p)
    \/ \E k \in Campaign : StallOfTheDead(k)
    \/ ListRows
    \/ \E p \in Message \X Callback : ReconcileRow(p)

Event ==
    \/ \E u \in Manager :
        \/ \E op \in {"prepare", "schedule", "send", "cancel"}, k \in Campaign : BeginRequest(u, op, k)
        \/ EnqueueFails(u) \/ RequestDies(u)
    \/ \E w \in Worker : Crash(w)
    \/ \E k \in Campaign : TakeJobUnconfigured(k) \/ StallOfTheLiving(k)
    \/ \E c \in Customer : Oppose(c)
    \/ \E m \in Message, cb \in Callback : ReceiveCallback(m, cb)

Next ==
    \/ Quiet /\ UNCHANGED events
    \/ Event /\ events < MaxEvents /\ events' = events + 1

Spec == Init /\ [][Next]_vars

(***************************************************************************)
(* Properties                                                              *)
(***************************************************************************)
\* schema.prisma and BullMQ: what the tables, the queue and the memories of the
\* workers may contain.
TypeOK ==
    /\ campaign \in [Campaign -> CampaignStatus] /\ message \in [Message -> MessageStatus]
    /\ known \in SUBSET Message /\ sent \in SUBSET Message /\ unbudgeted \in SUBSET Message
    /\ misreported \in SUBSET Message /\ budgetCheck \in BudgetCheck
    /\ calls \in [Message -> Nat] /\ slots \in [Customer -> Nat] /\ opposed \in SUBSET Customer
    /\ tally \in [Campaign -> Counters] /\ job \in [Campaign -> Job]
    /\ work \in [Worker -> Execution] /\ request \in [Manager -> Request]
    /\ row \in [Message \X Callback -> {"none", "open", "closed"}]
    /\ listed \in SUBSET (Message \X Callback)
    /\ events \in Nat

\* failStaleMessageClaims: a message is handed to the provider at most once,
\* through crashes, retries and jobs that two workers run at a time.
CalledOnce == \A m \in Message : calls[m] <= 1

\* reserveMarketingFrequencySlot, releaseMarketingFrequencySlot: every message the
\* provider took keeps a slot of its customer's day, of which there are Cap for
\* all campaigns, whatever is refused, lost, retried or given back; unless the
\* provider's client reported an error for a message that was taken: the code
\* counts that among the certain failures, and gives the slot back.
PressureCapped ==
    \A c \in Customer :
        Cardinality({m \in sent \ misreported : Who[m] = c}) <= slots[c] /\ slots[c] <= Cap

\* remainingDailyEmailBudget: the e-mails recorded as accepted, and those still to
\* be sent by the campaigns that reserve them, stay within the budget however
\* requests and jobs interleave, but for the messages no check counted: those of
\* a run that no check precedes, and those accepted between the two counts of a
\* check that passed.  An e-mail whose answer was lost is recorded as failed, and
\* counts no more.
BudgetKept ==
    Cardinality({m \in Message \ unbudgeted : m \in known \cup Awaiting(Campaign)}) <= Budget

\* applyMarketingProviderEvent ("a repeated terminal event does not increment
\* campaign counters twice"): every counter is that of the messages it speaks
\* of, short of what a crash left uncounted.
CountedOnce ==
    \A k \in Campaign :
        /\ tally[k].delivered = Cardinality(In(k, "DELIVERED"))
        /\ tally[k].failed <= Cardinality({m \in Messages(k) : message[m] \in Failures})
        /\ tally[k].accepted <= Cardinality(known \cap Messages(k))

Opposed(m) ==
    /\ Who[m] \in opposed /\ calls[m] = 0
    /\ \A w \in Worker : ~(work[w].m = m /\ work[w].pc \in {"gate", "call"})

\* eligibility, called twice: an opposition recorded before a message passed its
\* last check stops it, whatever execution carries it, for as long as the
\* customer does not consent anew (a renewed consent is not modelled).
OppositionHonoured == [][\A m \in Message : Opposed(m) => Opposed(m)']_vars

=============================================================================
