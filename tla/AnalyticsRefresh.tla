-------------------------- MODULE AnalyticsRefresh --------------------------
(***************************************************************************)
(* The analytics refresh of one tenant.  A finished import batch asks for  *)
(* a refresh through enqueue_batch_analytics, a user through the HTTP API; *)
(* refresh_analytics then reloads a window of the warehouse and publishes  *)
(* a new data version.                                                     *)
(*                                                                         *)
(* The actors run as threads of one worker process and share its pool of   *)
(* database connections.  A session holds a connection only from its first *)
(* statement to its commit or rollback, but the advisory lock that is the  *)
(* tenant's lease belongs to the connection it was taken on.               *)
(***************************************************************************)
EXTENDS Integers, Sequences, FiniteSets

CONSTANTS
    Jobs,           \* refresh jobs; that of a batch is named by its idempotency key
    Batches,        \* import batches, each the job that it triggers
    Window,         \* the batches whose events lie in the window of a job
    Threads,        \* threads of the worker process
    Conns,          \* connections the pool may open
    MaxRetries,     \* max_retries of the actors
    MaxFaults,      \* bound on transient errors
    MaxCrashes,     \* bound on process deaths
    MaxDuplicates,  \* bound on deliveries of a message that is being worked on
    NoJob,
    NoMsg,
    NoConn

Message == [ actor : { "enqueue", "refresh" }, job : Jobs, retries : 0 .. MaxRetries ]

ASSUME RefreshAssumption ==
    /\ Batches \subseteq Jobs
    /\ Window \in [ Jobs -> SUBSET Batches ]
    /\ \A b \in Batches : b \in Window[b]
    /\ IsFiniteSet(Threads)
    /\ MaxRetries \in Nat
    /\ MaxFaults \in Nat
    /\ MaxCrashes \in Nat
    /\ MaxDuplicates \in Nat
    /\ NoJob \notin Jobs
    /\ NoMsg \notin Message
    /\ NoConn \notin Conns

VARIABLES
    job,        \* the row of each job in analytics_refresh_jobs
    canonical,  \* batches that have completed: their rows are canonical
    warehouse,  \* analytics_data_versions, and the batches the facts come from
    queue,      \* how many copies of each message wait in Redis
    outgoing,   \* jobs an HTTP handler sends after its commit
    thread,     \* what each thread is doing
    pool,       \* the connections that are open and free, oldest first
    lease,      \* how often each connection has taken the advisory lock
    budgets     \* transient errors, process deaths and duplicates so far

vars == << job, canonical, warehouse, queue, outgoing, thread, pool, lease, budgets >>

JobState == { "absent", "queued", "running", "completed", "failed", "cancelled" }

\* A thread is idle; it has committed a queued job ("send") or a running one
\* ("running"); it is in the refresh transaction, before or after looking for
\* a cancellation ("loading", "publishing"); it must record an exception
\* ("failing"); or it is in the finally clause, on its way to the
\* acknowledgement ("releasing") or with the exception ("raising").
Task == [ pc       : { "idle", "send", "running", "loading", "publishing",
                       "failing", "releasing", "raising" },
          msg      : Message \cup { NoMsg },
          conn     : Conns \cup { NoConn },
          leased   : BOOLEAN,
          base     : Nat,
          snapshot : SUBSET Batches ]

Idle == [ pc |-> "idle", msg |-> NoMsg, conn |-> NoConn, leased |-> FALSE,
          base |-> 0, snapshot |-> {} ]

Started(m, pc, leased) == [ Idle EXCEPT !.pc = pc, !.msg = m, !.leased = leased ]

TypeOK ==
    /\ job \in [ Jobs -> [ state : JobState, cancel : BOOLEAN ] ]
    /\ canonical \subseteq Batches
    /\ warehouse \in [ version : Nat, facts : SUBSET Batches, job : Jobs \cup { NoJob } ]
    /\ queue \in [ Message -> Nat ]
    /\ outgoing \subseteq Jobs
    /\ thread \in [ Threads -> Task ]
    /\ pool \in Seq(Conns)
    /\ lease \in [ Conns -> Nat ]
    /\ budgets \in [ faults : 0 .. MaxFaults, crashes : 0 .. MaxCrashes,
                     duplicates : 0 .. MaxDuplicates ]

Init ==
    /\ job = [ j \in Jobs |-> [ state |-> "absent", cancel |-> FALSE ] ]
    /\ canonical = {}
    /\ warehouse = [ version |-> 0, facts |-> {}, job |-> NoJob ]
    /\ queue = [ m \in Message |-> 0 ]
    /\ outgoing = {}
    /\ thread = [ t \in Threads |-> Idle ]
    /\ pool = << >>
    /\ lease = [ c \in Conns |-> 0 ]
    /\ budgets = [ faults |-> 0, crashes |-> 0, duplicates |-> 0 ]

Final == { "completed", "failed", "cancelled" }

First(actor, j) == [ actor |-> actor, job |-> j, retries |-> 0 ]
Put(m) == queue' = [ queue EXCEPT ![m] = @ + 1 ]
Become(t, task) == thread' = [ thread EXCEPT ![t] = task ]

(***************************************************************************)
(* The pool is first in, first out, and opens a connection when it is      *)
(* empty.                                                                  *)
(***************************************************************************)
InUse == { thread[t].conn : t \in Threads } \cup { pool[i] : i \in DOMAIN pool }
HandsOut(c) == IF pool = << >> THEN c \in Conns \ InUse ELSE c = Head(pool)
Rest == IF pool = << >> THEN << >> ELSE Tail(pool)

\* A transaction that lasts, and one that begins and ends within a step.
CheckOut(c) == HandsOut(c) /\ pool' = Rest
Transaction(c) == HandsOut(c) /\ pool' = Append(Rest, c)
Rotate(conns) == Append(Tail(conns), Head(conns))

\* pg_try_advisory_lock succeeds again on the connection that has the lock.
LeaseGranted(c) == \A d \in Conns \ { c } : lease[d] = 0

\* The refresh transaction holds the row of its job from its first flush on,
\* and the version row, once there is one, from its first statement on.
InRefresh(t) == thread[t].pc \in { "loading", "publishing" }
JobLocked(j) == \E t \in Threads : InRefresh(t) /\ thread[t].msg.job = j
VersionLocked == \E t \in Threads : InRefresh(t) /\ thread[t].base > 0

(***************************************************************************)
(* Requests.                                                               *)
(***************************************************************************)

\* The import pipeline finalises a batch as completed, and sends its message.
BatchCompleted(b) ==
    /\ b \notin canonical
    /\ canonical' = canonical \cup { b }
    /\ Put(First("enqueue", b))
    /\ UNCHANGED << job, warehouse, outgoing, thread, pool, lease, budgets >>

\* POST /analytics/refresh: a key that is known returns its job and sends nothing.
QueueRefresh(j) ==
    /\ j \notin Batches
    /\ job[j].state = "absent"
    /\ job' = [ job EXCEPT ![j].state = "queued" ]
    /\ outgoing' = outgoing \cup { j }
    /\ UNCHANGED << canonical, warehouse, queue, thread, pool, lease, budgets >>

\* The .send that follows the commit of queue_refresh.
ApiSend(j) ==
    /\ j \in outgoing
    /\ outgoing' = outgoing \ { j }
    /\ Put(First("refresh", j))
    /\ UNCHANGED << job, canonical, warehouse, thread, pool, lease, budgets >>

\* Mutation: the job is read without FOR UPDATE.
CancelUnlocked(j) ==
    /\ job[j].state \in { "queued", "running" }
    /\ job' = [ job EXCEPT ![j].cancel = TRUE ]
    /\ UNCHANGED << canonical, warehouse, queue, outgoing, thread, pool, lease, budgets >>

\* POST /analytics/jobs/{id}/cancel, which waits for the row of the job.
CancelRefresh(j) ==
    /\ job[j].state \in { "queued", "running" }
    /\ ~JobLocked(j)
    /\ job' = [ job EXCEPT ![j].cancel = TRUE ]
    /\ UNCHANGED << canonical, warehouse, queue, outgoing, thread, pool, lease, budgets >>

(***************************************************************************)
(* The actor enqueue_batch_analytics.                                      *)
(***************************************************************************)

Deliver(t, m, actor) ==
    /\ thread[t].pc = "idle"
    /\ m.actor = actor
    /\ queue[m] > 0
    /\ queue' = [ queue EXCEPT ![m] = @ - 1 ]
    /\ UNCHANGED << canonical, warehouse, outgoing, budgets >>

\* Mutation: a job that exists is taken for sent.
EnqueueOnce(t, m) ==
    /\ Deliver(t, m, "enqueue")
    /\ \E c \in Conns : Transaction(c)
    /\ IF job[m.job].state = "absent"
       THEN /\ job' = [ job EXCEPT ![m.job].state = "queued" ]
            /\ Become(t, Started(m, "send", FALSE))
       ELSE UNCHANGED << job, thread >>
    /\ UNCHANGED lease

\* A job that exists is not created again, but its message is sent again.
EnqueueBatch(t, m) ==
    /\ Deliver(t, m, "enqueue")
    /\ \E c \in Conns : Transaction(c)
    /\ job' = IF job[m.job].state = "absent"
              THEN [ job EXCEPT ![m.job].state = "queued" ]
              ELSE job
    /\ Become(t, Started(m, "send", FALSE))
    /\ UNCHANGED lease

SendRefresh(t) ==
    /\ thread[t].pc = "send"
    /\ Put(First("refresh", thread[t].msg.job))
    /\ Become(t, Idle)
    /\ UNCHANGED << job, canonical, warehouse, outgoing, pool, lease, budgets >>

(***************************************************************************)
(* The actor refresh_analytics.                                            *)
(***************************************************************************)
Take(c) == lease' = [ lease EXCEPT ![c] = @ + 1 ]

LeaseRefused(t, m, c) ==
    /\ ~LeaseGranted(c)
    /\ Become(t, Started(m, "failing", FALSE))
    /\ UNCHANGED << job, lease >>

\* The lock is taken and given back on one connection, in one transaction.
AlreadyCompleted(m) ==
    /\ job[m.job].state = "completed"
    /\ UNCHANGED << job, lease, thread >>

HonourCancel(t, m, c) ==
    /\ job[m.job].state # "completed"
    /\ job[m.job].cancel
    /\ job' = [ job EXCEPT ![m.job].state = "cancelled" ]
    /\ Become(t, Started(m, "releasing", TRUE))
    /\ Take(c)

\* Only one job of the tenant may be running (uq_analytics_refresh_running).
Run(t, m, c) ==
    /\ job[m.job].state # "completed"
    /\ ~job[m.job].cancel
    /\ IF \E j \in Jobs \ { m.job } : job[j].state = "running"
       THEN Become(t, Started(m, "failing", TRUE)) /\ UNCHANGED job
       ELSE /\ job' = [ job EXCEPT ![m.job].state = "running" ]
            /\ Become(t, Started(m, "running", TRUE))
    /\ Take(c)

\* First transaction of _refresh.
BeginRefresh(t, m) ==
    /\ Deliver(t, m, "refresh")
    /\ \E c \in Conns :
          /\ Transaction(c)
          /\ \/ LeaseRefused(t, m, c)
             \/ /\ LeaseGranted(c)
                /\ ~JobLocked(m.job)
                /\ AlreadyCompleted(m) \/ HonourCancel(t, m, c) \/ Run(t, m, c)

RefreshUnchanged == UNCHANGED << canonical, queue, outgoing, budgets >>

\* Mutation: the version row is read without FOR UPDATE.
LoadUnlocked(t) ==
    /\ thread[t].pc = "running"
    /\ \E c \in Conns :
          /\ CheckOut(c)
          /\ Become(t, [ thread[t] EXCEPT !.pc = "loading", !.conn = c,
                                          !.base = warehouse.version, !.snapshot = canonical ])
    /\ UNCHANGED << job, warehouse, lease >>
    /\ RefreshUnchanged

\* execute_refresh locks the version row and reads what is canonical.  Before
\* the first refresh there is no version row to lock.
Load(t) ==
    /\ thread[t].pc = "running"
    /\ ~VersionLocked
    /\ \E c \in Conns :
          /\ CheckOut(c)
          /\ Become(t, [ thread[t] EXCEPT !.pc = "loading", !.conn = c,
                                          !.base = warehouse.version, !.snapshot = canonical ])
    /\ UNCHANGED << job, warehouse, lease >>
    /\ RefreshUnchanged

\* After a rollback the tenant of the session's row level security is lost:
\* the update of the job to 'cancelled' finds no row, which raises.
LookForCancel(t) ==
    /\ thread[t].pc = "loading"
    /\ IF job[thread[t].msg.job].cancel
       THEN /\ Become(t, Started(thread[t].msg, "failing", thread[t].leased))
            /\ pool' = Rotate(Append(pool, thread[t].conn))
       ELSE /\ Become(t, [ thread[t] EXCEPT !.pc = "publishing" ])
            /\ UNCHANGED pool
    /\ UNCHANGED << job, warehouse, lease >>
    /\ RefreshUnchanged

\* Mutation: what is deleted is not limited to the window that is reloaded.
ReloadOnly(facts, window, snapshot) == snapshot \cap window

\* The facts of the window are deleted and loaded again.
Reload(facts, window, snapshot) == (facts \ window) \cup (snapshot \cap window)

\* The commit.  A first version row inserted by another refresh meanwhile
\* violates uq_analytics_data_versions_tenant.
Publish(t) ==
    LET j == thread[t].msg.job
    IN  /\ thread[t].pc = "publishing"
        /\ pool' = Append(pool, thread[t].conn)
        /\ IF thread[t].base = 0 /\ warehouse.version > 0
           THEN /\ Become(t, Started(thread[t].msg, "failing", thread[t].leased))
                /\ UNCHANGED << job, warehouse >>
           ELSE /\ warehouse' = [ version |-> warehouse.version + 1, job |-> j,
                                  facts |-> Reload(warehouse.facts, Window[j], thread[t].snapshot) ]
                /\ job' = [ job EXCEPT ![j].state = "completed" ]
                /\ Become(t, Started(thread[t].msg, "releasing", thread[t].leased))
        /\ UNCHANGED lease
        /\ RefreshUnchanged

\* _mark_failed, in a session of its own, waits for the row of the job.
MarkFailed(t) ==
    LET j == thread[t].msg.job
    IN  /\ thread[t].pc = "failing"
        /\ ~JobLocked(j)
        /\ \E c \in Conns : Transaction(c)
        /\ job' = IF job[j].state = "cancelled"
                  THEN job
                  ELSE [ job EXCEPT ![j].state = "failed" ]
        /\ Become(t, [ thread[t] EXCEPT !.pc = "raising" ])
        /\ UNCHANGED << warehouse, lease >>
        /\ RefreshUnchanged

\* The finally clause unlocks on whatever connection the pool hands out; one
\* that does not have the lock only warns.  Then the message is acknowledged,
\* or the exception has Dramatiq schedule it again.
Release(t) ==
    LET m == thread[t].msg
    IN  /\ thread[t].pc \in { "releasing", "raising" }
        /\ IF thread[t].leased
           THEN \E c \in Conns :
                   /\ Transaction(c)
                   /\ lease' = [ lease EXCEPT ![c] = IF @ > 0 THEN @ - 1 ELSE 0 ]
           ELSE UNCHANGED << pool, lease >>
        /\ queue' = IF thread[t].pc = "raising" /\ m.retries < MaxRetries
                    THEN [ queue EXCEPT ![[ m EXCEPT !.retries = @ + 1 ]] = @ + 1 ]
                    ELSE queue
        /\ Become(t, Idle)
        /\ UNCHANGED << job, canonical, warehouse, outgoing, budgets >>

(***************************************************************************)
(* The environment.                                                        *)
(***************************************************************************)
Spend(budget, bound) ==
    /\ budgets[budget] < bound
    /\ budgets' = [ budgets EXCEPT ![budget] = @ + 1 ]

\* An error of the database in a refresh rolls it back.
Fault(t) ==
    /\ InRefresh(t)
    /\ Spend("faults", MaxFaults)
    /\ pool' = Append(pool, thread[t].conn)
    /\ Become(t, Started(thread[t].msg, "failing", thread[t].leased))
    /\ UNCHANGED << job, canonical, warehouse, queue, outgoing, lease >>

\* _mark_failed itself fails: the job keeps its state.
MarkFails(t) ==
    /\ thread[t].pc = "failing"
    /\ Spend("faults", MaxFaults)
    /\ Become(t, [ thread[t] EXCEPT !.pc = "raising" ])
    /\ UNCHANGED << job, canonical, warehouse, queue, outgoing, pool, lease >>

\* The worker process dies: its connections close, which releases the lease,
\* and the messages of its threads are delivered again.
Crash ==
    /\ \E t \in Threads : thread[t].pc # "idle"
    /\ Spend("crashes", MaxCrashes)
    /\ thread' = [ t \in Threads |-> Idle ]
    /\ pool' = << >>
    /\ lease' = [ c \in Conns |-> 0 ]
    /\ queue' = [ m \in Message |->
                    queue[m] + Cardinality({ t \in Threads : thread[t].msg = m }) ]
    /\ UNCHANGED << job, canonical, warehouse, outgoing >>

\* The broker delivers a message again that is still being worked on.
Redeliver(t) ==
    /\ thread[t].pc # "idle"
    /\ Spend("duplicates", MaxDuplicates)
    /\ Put(thread[t].msg)
    /\ UNCHANGED << job, canonical, warehouse, outgoing, thread, pool, lease >>

\* The other actors of the process use the pool as well.
Traffic ==
    /\ \E c \in Conns \ { thread[t].conn : t \in Threads } :
          \/ Transaction(c)
          \/ /\ c \notin InUse
             /\ pool' = Append(pool, c)
    /\ UNCHANGED << job, canonical, warehouse, queue, outgoing, thread, lease, budgets >>

Refresh(t) ==
    Load(t) \/ LookForCancel(t) \/ Publish(t) \/ MarkFailed(t) \/ Release(t)

Begin(t, m) == EnqueueBatch(t, m) \/ BeginRefresh(t, m)

Next ==
    \/ \E b \in Batches : BatchCompleted(b)
    \/ \E j \in Jobs : QueueRefresh(j) \/ ApiSend(j) \/ CancelRefresh(j)
    \/ \E t \in Threads, m \in Message : Begin(t, m)
    \/ \E t \in Threads : SendRefresh(t) \/ Refresh(t)
    \/ \E t \in Threads : Fault(t) \/ MarkFails(t) \/ Redeliver(t)
    \/ Crash
    \/ Traffic

Spec == Init /\ [][Next]_vars

\* Dramatiq delivers what is queued and threads run; a handler reaches its .send.
Fairness ==
    /\ \A m \in Message : WF_vars(\E t \in Threads : Begin(t, m))
    /\ \A t \in Threads : WF_vars(SendRefresh(t) \/ Refresh(t))
    /\ \A j \in Jobs : WF_vars(ApiSend(j))

FairSpec == Spec /\ Fairness

(***************************************************************************)
(* Properties.                                                             *)
(***************************************************************************)

\* The data version moves only by a refresh that succeeds: by one, in the
\* transaction that completes its job, and never for a job that a user was
\* told is being cancelled.
PublishedBySuccess ==
    [][ warehouse' # warehouse =>
            /\ warehouse'.version = warehouse.version + 1
            /\ job'[warehouse'.job].state = "completed"
            /\ ~job'[warehouse'.job].cancel ]_vars

\* A later version never lacks a batch that an earlier one had, whichever
\* refreshes overlap, are repeated or carry an older window.
FactsNeverLost == [][ warehouse.facts \subseteq warehouse'.facts ]_vars

\* Once the job of a batch has completed, the warehouse has the batch.
CompletedIsPublished ==
    \A b \in Batches : job[b].state = "completed" => b \in warehouse.facts

\* The refreshes implement the contract of the warehouse.  Every overlap of two
\* refreshes publishes as if they had come one after the other, each having
\* read what the one before published, and the lease has no part in it.
Contract == INSTANCE WarehouseContract WITH
    arrived    <- canonical,
    version    <- warehouse.version,
    facts      <- warehouse.facts,
    completed  <- { j \in Jobs : job[j].state = "completed" },
    cancelling <- { j \in Jobs : job[j].cancel }

ImplementsContract == Contract!Spec

\* Every completed batch has its refresh completed, failed or cancelled.
JobSettles == \A b \in Batches : b \in canonical ~> job[b].state \in Final

\* Two refreshes of the tenant are never between taking the lease and
\* committing at the same time.
OneWriter ==
    \A t, u \in Threads :
        thread[t].pc \in { "running", "loading", "publishing" }
            /\ thread[u].pc \in { "running", "loading", "publishing" } => t = u

\* A refresh that has completed stays so, whatever is delivered again.
CompletedStays ==
    [][ \A j \in Jobs : job[j].state = "completed" => job'[j].state = "completed" ]_vars

(***************************************************************************)
(* The inductive invariant behind the safety properties.  It says nothing  *)
(* of the lease: the row locks and the unique constraints carry it.        *)
(***************************************************************************)

\* A message exists only once its batch has completed or its job is committed.
Due(m) ==
    IF m.actor = "enqueue" THEN m.job \in canonical ELSE job[m.job].state # "absent"

Known ==
    /\ warehouse.facts \subseteq canonical
    /\ \A b \in Batches : job[b].state # "absent" => b \in canonical
    /\ \A m \in Message : queue[m] > 0 => Due(m)
    /\ \A j \in outgoing : job[j].state # "absent"

\* A refresh transaction that can still publish has read all that is published.
Current(task) ==
    /\ task.conn \in Conns
    /\ task.snapshot \subseteq canonical
    /\ task.msg.job \in Batches => task.msg.job \in task.snapshot
    /\ task.base \in { 0, warehouse.version }
    /\ task.base = warehouse.version => warehouse.facts \subseteq task.snapshot
    /\ task.pc = "publishing" => ~job[task.msg.job].cancel

Working(task) ==
    /\ task.msg \in Message
    /\ Due(task.msg)
    /\ job[task.msg.job].state # "absent"

ThreadInv(t) ==
    /\ thread[t].pc = "idle" => thread[t].msg = NoMsg
    /\ thread[t].pc # "idle" => Working(thread[t])
    /\ InRefresh(t) => Current(thread[t])

\* Only one transaction can hold the version row.
OneHolder ==
    \A t, u \in Threads :
        InRefresh(t) /\ thread[t].base > 0 /\ InRefresh(u) /\ thread[u].base > 0 => t = u

\* Jobs, messages, threads and the warehouse agree: whatever may still be
\* published has all that is published, and only one refresh can follow it.
IInv ==
    /\ TypeOK
    /\ Known
    /\ \A t \in Threads : ThreadInv(t)
    /\ OneHolder
    /\ CompletedIsPublished
=============================================================================
