----------------------- MODULE AnalyticsRefreshProofs -----------------------
(***************************************************************************)
(* The safety properties of AnalyticsRefresh for every number of jobs,     *)
(* batches, threads, connections, retries, errors, crashes and duplicates. *)
(* The lease appears in none of the arguments: the row locks and unique    *)
(* constraints alone keep the warehouse in order.                          *)
(***************************************************************************)
EXTENDS AnalyticsRefresh, FiniteSetTheorems, SequenceTheorems, TLAPS

JobRow == [ state : JobState, cancel : BOOLEAN ]

\* Jobs keep their type and, once they exist, do not vanish.
JobsKeep ==
    /\ job' \in [ Jobs -> JobRow ]
    /\ \A j \in Jobs : job[j].state # "absent" => job'[j].state # "absent"

\* What one step may have added to the jobs and the messages.
RequestsKeep ==
    /\ JobsKeep
    /\ canonical \subseteq canonical' /\ canonical' \subseteq Batches
    /\ queue' \in [ Message -> Nat ]
    /\ \A m \in Message : queue'[m] > 0 => queue[m] > 0 \/ Due(m)'

(***************************************************************************)
(* Small facts.                                                            *)
(***************************************************************************)

\* The parts of an idle and of a started task.
LEMMA TaskTypes ==
  /\ Idle \in Task /\ Idle.pc = "idle" /\ Idle.msg = NoMsg
  /\ \A m \in Message, leased \in BOOLEAN,
        pc \in { "send", "running", "failing", "releasing" } :
        /\ Started(m, pc, leased) \in Task
        /\ Started(m, pc, leased).pc = pc
        /\ Started(m, pc, leased).msg = m
<1>1. Idle \in Task /\ Idle.pc = "idle" /\ Idle.msg = NoMsg
  BY DEF Idle, Task
<1>2. ASSUME NEW m \in Message, NEW leased \in BOOLEAN,
             NEW pc \in { "send", "running", "failing", "releasing" }
      PROVE  /\ Started(m, pc, leased) \in Task
             /\ Started(m, pc, leased).pc = pc
             /\ Started(m, pc, leased).msg = m
  BY DEF Started, Idle, Task
<1> QED BY <1>1, <1>2

\* Moving one job to a state other than "absent" keeps the jobs.
LEMMA JobMoves ==
  ASSUME TypeOK, NEW j \in Jobs, NEW s \in JobState \ { "absent" },
         job' = [ job EXCEPT ![j].state = s ]
  PROVE  /\ JobsKeep
         /\ job'[j].state = s
         /\ \A i \in Jobs : job'[i].cancel = job[i].cancel
         /\ \A i \in Jobs \ { j } : job'[i] = job[i]
  BY DEF TypeOK, JobsKeep, JobRow

LEMMA JobsUnchanged ==
  ASSUME TypeOK, UNCHANGED job
  PROVE  JobsKeep
  BY DEF TypeOK, JobsKeep, JobRow

\* A message that was due stays due.
LEMMA DueStays ==
  ASSUME JobsKeep, canonical \subseteq canonical', NEW m \in Message, Due(m)
  PROVE  Due(m)'
  BY DEF JobsKeep, Due, Message

\* Sending a due message, and taking one from the queue.
LEMMA PutKeeps ==
  ASSUME TypeOK, NEW m \in Message, Due(m)', Put(m)
  PROVE  /\ queue' \in [ Message -> Nat ]
         /\ \A n \in Message : queue'[n] > 0 => queue[n] > 0 \/ Due(n)'
  BY DEF TypeOK, Put

LEMMA TakeKeeps ==
  ASSUME TypeOK, NEW m \in Message, queue[m] > 0,
         queue' = [ queue EXCEPT ![m] = @ - 1 ]
  PROVE  /\ queue' \in [ Message -> Nat ]
         /\ \A n \in Message : queue'[n] > 0 => queue[n] > 0
  BY DEF TypeOK

\* The pool holds connections, whatever a transaction does to it.
LEMMA PoolTypes ==
  ASSUME TypeOK
  PROVE  /\ \A c \in Conns : Append(pool, c) \in Seq(Conns)
         /\ \A c \in Conns : Rotate(Append(pool, c)) \in Seq(Conns)
         /\ \A c \in Conns : Transaction(c) => pool' \in Seq(Conns)
         /\ \A c \in Conns : CheckOut(c) => pool' \in Seq(Conns)
<1>1. pool \in Seq(Conns)
  BY DEF TypeOK
<1>2. Rest \in Seq(Conns)
  BY <1>1 DEF Rest
<1>3. ASSUME NEW c \in Conns PROVE Rotate(Append(pool, c)) \in Seq(Conns)
  <2>1. Append(pool, c) \in Seq(Conns) /\ Append(pool, c) # << >>
    BY <1>1, AppendProperties
  <2>2. Head(Append(pool, c)) \in Conns /\ Tail(Append(pool, c)) \in Seq(Conns)
    BY <2>1, HeadTailProperties
  <2> QED BY <2>2, AppendProperties DEF Rotate
<1>4. \A c \in Conns : Append(pool, c) \in Seq(Conns) /\ Append(Rest, c) \in Seq(Conns)
  BY <1>1, <1>2, AppendProperties
<1> QED BY <1>2, <1>3, <1>4 DEF Transaction, CheckOut

(***************************************************************************)
(* The parts of the invariant.                                             *)
(***************************************************************************)

\* Messages, jobs and batches still agree after a step that publishes nothing.
LEMMA KnownKept ==
  ASSUME IInv, RequestsKeep, UNCHANGED warehouse,
         \A b \in Batches : job[b].state = "absent" /\ job'[b].state # "absent" => b \in canonical',
         outgoing' \subseteq Jobs,
         \A j \in outgoing' : job'[j].state # "absent"
  PROVE  Known'
<1>1. \A m \in Message : queue'[m] > 0 => Due(m)'
  BY DueStays DEF IInv, Known, RequestsKeep
<1> QED BY <1>1 DEF IInv, Known, RequestsKeep

\* A thread that a step leaves alone stays right, as long as the step neither
\* publishes nor cancels the job that the thread is refreshing.
LEMMA ThreadKept ==
  ASSUME IInv, JobsKeep, canonical \subseteq canonical', UNCHANGED warehouse,
         NEW u \in Threads, thread'[u] = thread[u],
         InRefresh(u) => job'[thread[u].msg.job].cancel = job[thread[u].msg.job].cancel
  PROVE  ThreadInv(u)'
<1>1. ThreadInv(u)
  BY DEF IInv
<1>2. CASE thread[u].pc = "idle"
  BY <1>1, <1>2 DEF ThreadInv, InRefresh
<1>3. CASE thread[u].pc # "idle"
  <2>1. Working(thread[u])
    BY <1>1, <1>3 DEF ThreadInv
  <2>2. Working(thread[u])' /\ thread[u].msg.job \in Jobs
    BY <2>1, DueStays DEF Working, JobsKeep, Message
  <2>3. InRefresh(u) => Current(thread[u])'
    BY <1>1 DEF ThreadInv, Current, InRefresh
  <2> QED BY <1>3, <2>2, <2>3 DEF ThreadInv, InRefresh
<1> QED BY <1>2, <1>3

\* A step of one thread that publishes nothing.
LEMMA ThreadStep ==
  ASSUME IInv, JobsKeep, UNCHANGED << canonical, warehouse >>,
         NEW t \in Threads,
         thread'[t] \in Task, thread' = [ thread EXCEPT ![t] = thread'[t] ],
         ThreadInv(t)',
         \A u \in Threads \ { t } :
             InRefresh(u) => job'[thread[u].msg.job].cancel = job[thread[u].msg.job].cancel,
         InRefresh(t)' /\ thread'[t].base > 0 =>
             ~VersionLocked \/ (InRefresh(t) /\ thread[t].base > 0)
  PROVE  /\ thread' \in [ Threads -> Task ]
         /\ \A u \in Threads : ThreadInv(u)'
         /\ OneHolder'
<1>1. \A u \in Threads \ { t } : thread'[u] = thread[u]
  BY DEF IInv, TypeOK
<1>2. \A u \in Threads : ThreadInv(u)'
  BY <1>1, ThreadKept
<1>3. OneHolder'
  BY <1>1 DEF IInv, OneHolder, VersionLocked, InRefresh
<1>4. thread' \in [ Threads -> Task ]
  BY DEF IInv, TypeOK
<1> QED BY <1>2, <1>3, <1>4

\* The budgets of the environment stay within their bounds.
Budgets == [ faults : 0 .. MaxFaults, crashes : 0 .. MaxCrashes, duplicates : 0 .. MaxDuplicates ]

LEMMA BudgetTypes ==
  ASSUME TypeOK,
         \/ Spend("faults", MaxFaults)
         \/ Spend("crashes", MaxCrashes)
         \/ Spend("duplicates", MaxDuplicates)
         \/ UNCHANGED budgets
  PROVE  budgets' \in Budgets
<1>1. budgets \in Budgets
  BY DEF TypeOK, Budgets
<1>2. CASE Spend("faults", MaxFaults)
  BY <1>1, <1>2, RefreshAssumption DEF Budgets, Spend
<1>3. CASE Spend("crashes", MaxCrashes)
  BY <1>1, <1>3, RefreshAssumption DEF Budgets, Spend
<1>4. CASE Spend("duplicates", MaxDuplicates)
  BY <1>1, <1>4, RefreshAssumption DEF Budgets, Spend
<1> QED BY <1>1, <1>2, <1>3, <1>4

\* A step of one thread that publishes nothing keeps the whole invariant.
LEMMA WorkerStep ==
  ASSUME IInv, RequestsKeep, UNCHANGED << canonical, warehouse, outgoing >>,
         NEW t \in Threads,
         thread'[t] \in Task, thread' = [ thread EXCEPT ![t] = thread'[t] ],
         ThreadInv(t)',
         \A j \in Jobs : job'[j].cancel = job[j].cancel,
         InRefresh(t)' /\ thread'[t].base > 0 =>
             ~VersionLocked \/ (InRefresh(t) /\ thread[t].base > 0),
         \A b \in Batches : job[b].state = "absent" /\ job'[b].state # "absent" => b \in canonical,
         \A b \in Batches : job'[b].state = "completed" => job[b].state = "completed",
         pool' \in Seq(Conns), lease' \in [ Conns -> Nat ], budgets' \in Budgets
  PROVE  IInv'
<1>1. JobsKeep
  BY DEF RequestsKeep
<1>2. \A u \in Threads : InRefresh(u) => thread[u].msg.job \in Jobs
  BY DEF IInv, ThreadInv, InRefresh, Working, Message
<1>3. /\ thread' \in [ Threads -> Task ]
      /\ \A u \in Threads : ThreadInv(u)'
      /\ OneHolder'
  BY <1>1, <1>2, ThreadStep
<1>4. Known'
  BY <1>1, KnownKept DEF IInv, TypeOK, Known, JobsKeep
<1>5. CompletedIsPublished'
  BY DEF IInv, CompletedIsPublished
<1>6. TypeOK'
  BY <1>1, <1>3 DEF IInv, TypeOK, JobsKeep, JobRow, RequestsKeep, Budgets
<1> QED BY <1>3, <1>4, <1>5, <1>6 DEF IInv

\* What a busy thread is known to have.
LEMMA Busy ==
  ASSUME IInv, NEW t \in Threads, thread[t].pc # "idle"
  PROVE  /\ thread[t] \in Task
         /\ thread[t].msg \in Message
         /\ thread[t].msg.job \in Jobs
         /\ Due(thread[t].msg)
         /\ job[thread[t].msg.job].state # "absent"
  BY DEF IInv, TypeOK, ThreadInv, Working, Message

\* A thread that has taken up a message which is due, outside a refresh.
LEMMA StartedInv ==
  ASSUME NEW t \in Threads, NEW m \in Message,
         thread'[t].pc \notin { "idle", "loading", "publishing" },
         thread'[t].msg = m, Due(m)', job'[m.job].state # "absent"
  PROVE  ThreadInv(t)'
  BY DEF ThreadInv, Working, InRefresh

LEMMA IdleInv ==
  ASSUME NEW t \in Threads, thread'[t] = Idle
  PROVE  ThreadInv(t)'
  BY TaskTypes DEF ThreadInv, InRefresh

(***************************************************************************)
(* Requests.                                                               *)
(***************************************************************************)
LEMMA InitIInv == Init => IInv
<1> SUFFICES ASSUME Init PROVE IInv
  OBVIOUS
<1>1. TypeOK
  <2>1. job \in [ Jobs -> JobRow ]
    BY DEF Init, JobRow, JobState
  <2>2. thread \in [ Threads -> Task ]
    BY TaskTypes DEF Init
  <2>3. pool \in Seq(Conns)
    BY DEF Init
  <2>4. budgets \in Budgets
    BY RefreshAssumption DEF Init, Budgets
  <2> QED BY <2>1, <2>2, <2>3, <2>4 DEF Init, TypeOK, JobRow, Budgets
<1>2. Known
  BY RefreshAssumption DEF Init, Known
<1>3. \A t \in Threads : ThreadInv(t)
  BY TaskTypes DEF Init, ThreadInv, InRefresh
<1>4. OneHolder /\ CompletedIsPublished
  <2>1. \A t \in Threads : ~InRefresh(t)
    BY TaskTypes DEF Init, InRefresh
  <2>2. \A b \in Batches : job[b].state = "absent"
    BY RefreshAssumption DEF Init
  <2> QED BY <2>1, <2>2 DEF OneHolder, CompletedIsPublished
<1> QED BY <1>1, <1>2, <1>3, <1>4 DEF IInv

\* Steps that no thread takes and that publish nothing.
LEMMA RequestStep ==
  ASSUME IInv, RequestsKeep, UNCHANGED << warehouse, thread >>,
         \A b \in Batches : job[b].state = "absent" /\ job'[b].state # "absent" => b \in canonical',
         \A b \in Batches : job'[b].state = "completed" => job[b].state = "completed",
         \A t \in Threads : InRefresh(t) =>
             job'[thread[t].msg.job].cancel = job[thread[t].msg.job].cancel,
         outgoing' \subseteq Jobs, \A j \in outgoing' : job'[j].state # "absent",
         pool' \in Seq(Conns), UNCHANGED lease, budgets' \in Budgets
  PROVE  IInv'
<1>1. JobsKeep
  BY DEF RequestsKeep
<1>2. \A u \in Threads : ThreadInv(u)'
  BY <1>1, ThreadKept DEF RequestsKeep
<1>3. Known'
  BY KnownKept
<1>4. CompletedIsPublished' /\ OneHolder'
  BY DEF IInv, CompletedIsPublished, OneHolder, InRefresh
<1>5. TypeOK'
  BY <1>1 DEF IInv, TypeOK, JobsKeep, JobRow, RequestsKeep, Budgets
<1> QED BY <1>2, <1>3, <1>4, <1>5 DEF IInv

LEMMA ApiStep ==
  ASSUME IInv,
         \/ \E b \in Batches : BatchCompleted(b)
         \/ \E j \in Jobs : QueueRefresh(j) \/ ApiSend(j) \/ CancelRefresh(j)
  PROVE  IInv' /\ UNCHANGED warehouse
<1> USE DEF IInv
<1>1. ASSUME NEW b \in Batches, BatchCompleted(b) PROVE IInv'
  <2>1. JobsKeep
    BY <1>1, JobsUnchanged DEF BatchCompleted
  <2>2. First("enqueue", b) \in Message /\ Due(First("enqueue", b))'
    BY <1>1, RefreshAssumption DEF BatchCompleted, First, Message, Due
  <2>3. RequestsKeep
    BY <1>1, <2>1, <2>2, PutKeeps DEF BatchCompleted, RequestsKeep, TypeOK
  <2> QED BY <1>1, <2>3, BudgetTypes, RequestStep DEF BatchCompleted, TypeOK, Known
<1>2. ASSUME NEW j \in Jobs, QueueRefresh(j) PROVE IInv'
  <2>1. /\ JobsKeep
        /\ job'[j].state = "queued"
        /\ \A i \in Jobs : job'[i].cancel = job[i].cancel
        /\ \A i \in Jobs \ { j } : job'[i] = job[i]
    BY <1>2, JobMoves DEF QueueRefresh, JobState
  <2>2. RequestsKeep
    BY <1>2, <2>1 DEF QueueRefresh, RequestsKeep, TypeOK
  <2>3. \A t \in Threads : InRefresh(t) => thread[t].msg.job \in Jobs
    BY Busy DEF InRefresh
  <2>4. outgoing' \subseteq Jobs /\ \A i \in outgoing' : job'[i].state # "absent"
    BY <1>2, <2>1 DEF QueueRefresh, TypeOK, Known
  <2> QED BY <1>2, <2>1, <2>2, <2>3, <2>4, BudgetTypes, RequestStep, RefreshAssumption
          DEF QueueRefresh, TypeOK
<1>3. ASSUME NEW j \in Jobs, ApiSend(j) PROVE IInv'
  <2>1. JobsKeep
    BY <1>3, JobsUnchanged DEF ApiSend
  <2>2. First("refresh", j) \in Message /\ Due(First("refresh", j))'
    BY <1>3, RefreshAssumption DEF ApiSend, First, Message, Due, Known
  <2>3. RequestsKeep
    BY <1>3, <2>1, <2>2, PutKeeps DEF ApiSend, RequestsKeep, TypeOK
  <2> QED BY <1>3, <2>3, BudgetTypes, RequestStep DEF ApiSend, TypeOK, Known
<1>4. ASSUME NEW j \in Jobs, CancelRefresh(j) PROVE IInv'
  <2>1. /\ JobsKeep
        /\ \A i \in Jobs : job'[i].state = job[i].state
        /\ \A i \in Jobs \ { j } : job'[i] = job[i]
    <3>1. job \in [ Jobs -> JobRow ]
      BY DEF TypeOK, JobRow
    <3>2. [ job[j] EXCEPT !.cancel = TRUE ] \in JobRow
      BY <3>1 DEF JobRow
    <3>3. job' = [ job EXCEPT ![j] = [ job[j] EXCEPT !.cancel = TRUE ] ]
      BY <1>4 DEF CancelRefresh
    <3>4. [ job[j] EXCEPT !.cancel = TRUE ].state = job[j].state
      BY <3>1 DEF JobRow
    <3> QED BY <3>1, <3>2, <3>3, <3>4 DEF JobsKeep
  <2>2. RequestsKeep
    BY <1>4, <2>1 DEF CancelRefresh, RequestsKeep, TypeOK
  <2>3. \A t \in Threads : InRefresh(t) =>
            thread[t].msg.job \in Jobs /\ thread[t].msg.job # j
    BY <1>4, Busy DEF CancelRefresh, JobLocked, InRefresh
  <2> QED BY <1>4, <2>1, <2>2, <2>3, BudgetTypes, RequestStep, RefreshAssumption
          DEF CancelRefresh, TypeOK, Known
<1> QED BY <1>1, <1>2, <1>3, <1>4 DEF BatchCompleted, QueueRefresh, ApiSend, CancelRefresh

(***************************************************************************)
(* The actors.                                                             *)
(***************************************************************************)

\* Taking up a message leaves the requests as they are.
LEMMA DeliverKeeps ==
  ASSUME IInv, NEW t \in Threads, NEW m \in Message, NEW a, Deliver(t, m, a)
  PROVE  /\ thread[t].pc = "idle" /\ ~InRefresh(t)
         /\ m.job \in Jobs /\ Due(m)
         /\ queue' \in [ Message -> Nat ]
         /\ \A n \in Message : queue'[n] > 0 => queue[n] > 0
         /\ UNCHANGED << canonical, warehouse, outgoing, budgets >>
  BY TakeKeeps DEF IInv, Known, Deliver, InRefresh, Message

LEMMA EnqueueStep ==
  ASSUME IInv, NEW t \in Threads, NEW m \in Message, EnqueueBatch(t, m)
  PROVE  IInv'
<1>1. /\ Deliver(t, m, "enqueue")
      /\ Become(t, Started(m, "send", FALSE))
      /\ UNCHANGED lease
      /\ \E c \in Conns : Transaction(c)
  BY DEF EnqueueBatch
<1>2. /\ ~InRefresh(t) /\ m.job \in Jobs /\ Due(m) /\ m.job \in canonical
      /\ queue' \in [ Message -> Nat ]
      /\ \A n \in Message : queue'[n] > 0 => queue[n] > 0
      /\ UNCHANGED << canonical, warehouse, outgoing, budgets >>
  BY <1>1, DeliverKeeps DEF Deliver, Due
<1>3. /\ JobsKeep
      /\ job'[m.job].state # "absent"
      /\ \A i \in Jobs : job'[i].cancel = job[i].cancel
      /\ \A i \in Jobs \ { m.job } : job'[i] = job[i]
      /\ job[m.job].state = "completed" \/ job'[m.job].state # "completed"
  <2>1. CASE job[m.job].state = "absent"
    <3>1. job' = [ job EXCEPT ![m.job].state = "queued" ]
      BY <2>1 DEF EnqueueBatch
    <3>2. "queued" \in JobState \ { "absent" }
      BY DEF JobState
    <3>3. TypeOK
      BY DEF IInv
    <3>4. /\ JobsKeep
          /\ job'[m.job].state = "queued"
          /\ \A i \in Jobs : job'[i].cancel = job[i].cancel
          /\ \A i \in Jobs \ { m.job } : job'[i] = job[i]
      BY <1>2, <3>1, <3>2, <3>3, JobMoves
    <3> QED BY <3>4
  <2>2. CASE job[m.job].state # "absent"
    BY <2>2, JobsUnchanged DEF IInv, EnqueueBatch
  <2> QED BY <2>1, <2>2
<1>4. RequestsKeep
  BY <1>2, <1>3 DEF RequestsKeep, IInv, TypeOK
<1>5. Due(m)'
  BY <1>2, <1>3, DueStays
<1>6. /\ thread'[t] \in Task /\ thread' = [ thread EXCEPT ![t] = thread'[t] ]
      /\ thread'[t].pc = "send" /\ thread'[t].msg = m
  BY <1>1, TaskTypes DEF Become, IInv, TypeOK
<1>7. ThreadInv(t)'
  BY <1>3, <1>5, <1>6, StartedInv
<1>8. pool' \in Seq(Conns) /\ lease' \in [ Conns -> Nat ] /\ budgets' \in Budgets
  BY <1>1, <1>2, PoolTypes DEF IInv, TypeOK, Budgets
<1> QED
  BY <1>2, <1>3, <1>4, <1>6, <1>7, <1>8, RefreshAssumption, WorkerStep DEF InRefresh

LEMMA SendStep ==
  ASSUME IInv, NEW t \in Threads, SendRefresh(t)
  PROVE  IInv'
<1>1. PICK j \in Jobs : j = thread[t].msg.job /\ job[j].state # "absent"
  BY Busy DEF SendRefresh
<1> DEFINE m == First("refresh", j)
<1>2. UNCHANGED << job, canonical, warehouse, outgoing, pool, lease, budgets >>
  BY DEF SendRefresh
<1>3. JobsKeep
  BY <1>2, JobsUnchanged DEF IInv
<1>4. m \in Message /\ Due(m)'
  BY <1>1, <1>2, RefreshAssumption DEF First, Message, Due
<1>5. RequestsKeep
  <2>1. Put(m)
    BY <1>1 DEF SendRefresh
  <2>2. TypeOK
    BY DEF IInv
  <2> HIDE DEF m
  <2> QED BY <1>2, <1>3, <1>4, <2>1, <2>2, PutKeeps DEF RequestsKeep, TypeOK
<1>6. /\ thread'[t] \in Task /\ thread' = [ thread EXCEPT ![t] = thread'[t] ]
      /\ thread'[t] = Idle
  BY TaskTypes DEF SendRefresh, Become, IInv, TypeOK
<1>7. ThreadInv(t)' /\ ~InRefresh(t)'
  BY <1>6, IdleInv, TaskTypes DEF InRefresh
<1> QED
  BY <1>2, <1>5, <1>6, <1>7, WorkerStep DEF IInv, TypeOK, Budgets

\* The four outcomes of the first transaction of a refresh.
LEMMA BeginStep ==
  ASSUME IInv, NEW t \in Threads, NEW m \in Message, BeginRefresh(t, m)
  PROVE  IInv'
<1>1. PICK c \in Conns :
        /\ Transaction(c)
        /\ \/ LeaseRefused(t, m, c)
           \/ AlreadyCompleted(m)
           \/ HonourCancel(t, m, c)
           \/ Run(t, m, c)
  BY DEF BeginRefresh
<1>2. /\ ~InRefresh(t) /\ m.job \in Jobs /\ Due(m) /\ thread[t].pc = "idle"
      /\ queue' \in [ Message -> Nat ]
      /\ \A n \in Message : queue'[n] > 0 => queue[n] > 0
      /\ UNCHANGED << canonical, warehouse, outgoing, budgets >>
  BY DeliverKeeps DEF BeginRefresh
<1>3. m.actor = "refresh" /\ job[m.job].state # "absent"
  BY <1>2 DEF BeginRefresh, Deliver, Due
<1>4. /\ lease' \in [ Conns -> Nat ]
      /\ pool' \in Seq(Conns)
      /\ budgets' \in Budgets
  <2>1. UNCHANGED lease \/ Take(c)
    BY <1>1 DEF LeaseRefused, AlreadyCompleted, HonourCancel, Run
  <2>2. lease \in [ Conns -> Nat ]
    BY DEF IInv, TypeOK
  <2>3. lease' \in [ Conns -> Nat ]
    BY <2>1, <2>2 DEF Take
  <2> QED BY <1>1, <1>2, <2>3, PoolTypes DEF IInv, TypeOK, Budgets
<1>5. \/ UNCHANGED job
      \/ \E s \in { "cancelled", "running" } : job' = [ job EXCEPT ![m.job].state = s ]
  BY <1>1 DEF LeaseRefused, AlreadyCompleted, HonourCancel, Run
<1>6. /\ JobsKeep
      /\ \A i \in Jobs : job'[i].cancel = job[i].cancel
      /\ \A i \in Jobs : job'[i].state = "completed" => job[i].state = "completed"
      /\ \A i \in Jobs : job[i].state = "absent" => job'[i].state = "absent"
  <2>1. CASE UNCHANGED job
    BY <2>1, JobsUnchanged DEF IInv
  <2>2. CASE \E s \in { "cancelled", "running" } : job' = [ job EXCEPT ![m.job].state = s ]
    <3>1. PICK s \in { "cancelled", "running" } : job' = [ job EXCEPT ![m.job].state = s ]
      BY <2>2
    <3>2. s \in JobState \ { "absent" } /\ s # "completed"
      BY DEF JobState
    <3> QED BY <1>2, <1>3, <3>1, <3>2, JobMoves DEF IInv
  <2> QED BY <1>5, <2>1, <2>2
<1>7. RequestsKeep
  BY <1>2, <1>6 DEF RequestsKeep, IInv, TypeOK
<1>8. Due(m)' /\ job'[m.job].state # "absent"
  BY <1>2, <1>3, <1>6, DueStays DEF JobsKeep
<1>9. /\ thread'[t] \in Task /\ thread' = [ thread EXCEPT ![t] = thread'[t] ]
      /\ \/ thread'[t] = thread[t]
         \/ thread'[t].pc \in { "failing", "releasing", "running" } /\ thread'[t].msg = m
  <2>1. CASE UNCHANGED thread
    BY <2>1 DEF IInv, TypeOK
  <2>2. CASE \E pc \in { "failing", "releasing", "running" }, leased \in BOOLEAN :
                Become(t, Started(m, pc, leased))
    BY <2>2, TaskTypes DEF Become, IInv, TypeOK
  <2>3. \/ UNCHANGED thread
        \/ \E pc \in { "failing", "releasing", "running" }, leased \in BOOLEAN :
              Become(t, Started(m, pc, leased))
    BY <1>1 DEF LeaseRefused, AlreadyCompleted, HonourCancel, Run
  <2> QED BY <2>1, <2>2, <2>3
<1>10. ThreadInv(t)' /\ ~InRefresh(t)'
  <2>1. CASE thread'[t] = thread[t]
    BY <1>2, <2>1 DEF IInv, ThreadInv, InRefresh
  <2>2. CASE thread'[t].pc \in { "failing", "releasing", "running" } /\ thread'[t].msg = m
    BY <1>8, <2>2, StartedInv DEF InRefresh
  <2> QED BY <1>9, <2>1, <2>2
<1> QED
  BY <1>2, <1>4, <1>6, <1>7, <1>9, <1>10, RefreshAssumption, WorkerStep

\* A refresh that starts reads all that is canonical, and so all that is published.
LEMMA LoadStep ==
  ASSUME IInv, NEW t \in Threads, Load(t)
  PROVE  IInv'
<1>1. PICK c \in Conns :
        /\ CheckOut(c)
        /\ Become(t, [ thread[t] EXCEPT !.pc = "loading", !.conn = c,
                          !.base = warehouse.version, !.snapshot = canonical ])
  BY DEF Load
<1>2. /\ thread[t].pc = "running" /\ ~VersionLocked
      /\ UNCHANGED << job, warehouse, lease, canonical, queue, outgoing, budgets >>
  BY DEF Load, RefreshUnchanged
<1>3. /\ thread[t] \in Task /\ thread[t].msg \in Message
      /\ Working(thread[t])
  BY <1>2, Busy DEF Working
<1>4. /\ thread'[t] \in Task /\ thread' = [ thread EXCEPT ![t] = thread'[t] ]
      /\ thread'[t].pc = "loading" /\ thread'[t].conn = c
      /\ thread'[t].base = warehouse.version /\ thread'[t].snapshot = canonical
      /\ thread'[t].msg = thread[t].msg
  BY <1>1, <1>3 DEF Become, IInv, TypeOK, Task
<1>5. JobsKeep
  BY <1>2, JobsUnchanged DEF IInv
<1>6. RequestsKeep
  BY <1>2, <1>5 DEF RequestsKeep, IInv, TypeOK
<1>7. Working(thread[t])'
  BY <1>2, <1>3, <1>4, <1>5, DueStays DEF Working
<1>8. Current(thread[t])'
  BY <1>2, <1>3, <1>4 DEF Current, Working, IInv, Known
<1>9. ThreadInv(t)'
  BY <1>4, <1>7, <1>8 DEF ThreadInv
<1>10. pool' \in Seq(Conns) /\ lease' \in [ Conns -> Nat ] /\ budgets' \in Budgets
  BY <1>1, <1>2, PoolTypes DEF IInv, TypeOK, Budgets
<1> QED
  BY <1>2, <1>4, <1>6, <1>9, <1>10, WorkerStep

\* Leaving a refresh without publishing, to record an exception.
LEMMA FailingStep ==
  ASSUME IInv, NEW t \in Threads, InRefresh(t),
         Become(t, Started(thread[t].msg, "failing", thread[t].leased)),
         UNCHANGED << job, canonical, warehouse, queue, outgoing, lease >>,
         pool' \in Seq(Conns), budgets' \in Budgets
  PROVE  IInv'
<1>1. PICK m \in Message : m = thread[t].msg
  BY Busy DEF InRefresh
<1>2. thread[t] \in Task /\ Due(m) /\ m.job \in Jobs /\ job[m.job].state # "absent"
  BY <1>1, Busy DEF InRefresh
<1>3. thread[t].leased \in BOOLEAN
  BY <1>2 DEF Task
<1>4. /\ thread'[t] \in Task /\ thread' = [ thread EXCEPT ![t] = thread'[t] ]
      /\ thread'[t].pc = "failing" /\ thread'[t].msg = m
  BY <1>1, <1>3, TaskTypes DEF Become, IInv, TypeOK
<1>5. JobsKeep
  BY JobsUnchanged DEF IInv
<1>6. RequestsKeep
  BY <1>5 DEF RequestsKeep, IInv, TypeOK
<1>7. ThreadInv(t)'
  BY <1>2, <1>4, <1>5, DueStays, StartedInv
<1> QED
  BY <1>4, <1>6, <1>7, WorkerStep DEF InRefresh, IInv, TypeOK

LEMMA LookForCancelStep ==
  ASSUME IInv, NEW t \in Threads, LookForCancel(t)
  PROVE  IInv'
<1>1. /\ InRefresh(t) /\ thread[t].pc = "loading"
      /\ UNCHANGED << job, warehouse, lease, canonical, queue, outgoing, budgets >>
  BY DEF LookForCancel, InRefresh, RefreshUnchanged
<1>2. thread[t] \in Task /\ Working(thread[t]) /\ Current(thread[t])
  BY <1>1, Busy DEF IInv, ThreadInv, InRefresh, Working
<1>3. CASE job[thread[t].msg.job].cancel
  <2>1. /\ Become(t, Started(thread[t].msg, "failing", thread[t].leased))
        /\ pool' = Rotate(Append(pool, thread[t].conn))
    BY <1>3 DEF LookForCancel
  <2>2. pool' \in Seq(Conns)
    BY <1>2, <2>1, PoolTypes DEF Current, IInv
  <2> QED BY <1>1, <2>1, <2>2, FailingStep, BudgetTypes DEF IInv
<1>4. CASE ~job[thread[t].msg.job].cancel
  <2>1. /\ Become(t, [ thread[t] EXCEPT !.pc = "publishing" ]) /\ UNCHANGED pool
    BY <1>4 DEF LookForCancel
  <2>2. /\ thread'[t] \in Task /\ thread' = [ thread EXCEPT ![t] = thread'[t] ]
        /\ thread'[t] = [ thread[t] EXCEPT !.pc = "publishing" ]
        /\ thread'[t].pc = "publishing"
        /\ thread'[t].msg = thread[t].msg /\ thread'[t].conn = thread[t].conn
        /\ thread'[t].base = thread[t].base /\ thread'[t].snapshot = thread[t].snapshot
    BY <1>2, <2>1 DEF Become, IInv, TypeOK, Task
  <2>3. JobsKeep
    BY <1>1, JobsUnchanged DEF IInv
  <2>4. RequestsKeep
    BY <1>1, <2>3 DEF RequestsKeep, IInv, TypeOK
  <2>5. Working(thread[t])'
    BY <1>1, <1>2, <2>2, <2>3, DueStays DEF Working
  <2>6. Current(thread[t])'
    BY <1>1, <1>2, <1>4, <2>2 DEF Current
  <2>7. ThreadInv(t)'
    BY <2>2, <2>5, <2>6 DEF ThreadInv
  <2> QED
    BY <1>1, <2>1, <2>2, <2>4, <2>7, BudgetTypes, WorkerStep DEF IInv, TypeOK
<1> QED BY <1>3, <1>4

LEMMA MarkStep ==
  ASSUME IInv, NEW t \in Threads, MarkFailed(t) \/ MarkFails(t)
  PROVE  IInv'
<1>1. /\ thread[t].pc = "failing" /\ ~InRefresh(t)
      /\ Become(t, [ thread[t] EXCEPT !.pc = "raising" ])
      /\ UNCHANGED << canonical, warehouse, queue, outgoing, lease >>
  BY DEF MarkFailed, MarkFails, RefreshUnchanged, InRefresh
<1>2. PICK j \in Jobs : j = thread[t].msg.job
  BY <1>1, Busy
<1>3. thread[t] \in Task /\ thread[t].msg \in Message /\ Due(thread[t].msg) /\ job[j].state # "absent"
  BY <1>1, <1>2, Busy
<1>4. /\ JobsKeep
      /\ \A i \in Jobs : job'[i].cancel = job[i].cancel
      /\ \A i \in Jobs : job'[i].state = "completed" => job[i].state = "completed"
      /\ \A i \in Jobs : job[i].state = "absent" => job'[i].state = "absent"
  <2>1. CASE UNCHANGED job
    BY <2>1, JobsUnchanged DEF IInv
  <2>2. CASE job' = [ job EXCEPT ![j].state = "failed" ]
    <3>1. "failed" \in JobState \ { "absent" }
      BY DEF JobState
    <3>2. TypeOK
      BY DEF IInv
    <3>3. /\ JobsKeep
          /\ job'[j].state = "failed"
          /\ \A i \in Jobs : job'[i].cancel = job[i].cancel
          /\ \A i \in Jobs \ { j } : job'[i] = job[i]
      BY <2>2, <3>1, <3>2, JobMoves
    <3> QED BY <1>3, <3>3
  <2> QED BY <1>2, <2>1, <2>2 DEF MarkFailed, MarkFails
<1>5. RequestsKeep
  BY <1>1, <1>4 DEF RequestsKeep, IInv, TypeOK
<1>6. /\ thread'[t] \in Task /\ thread' = [ thread EXCEPT ![t] = thread'[t] ]
      /\ thread'[t].pc = "raising" /\ thread'[t].msg = thread[t].msg
  BY <1>1, <1>3 DEF Become, IInv, TypeOK, Task
<1>7. ThreadInv(t)'
  BY <1>1, <1>2, <1>3, <1>4, <1>6, DueStays, StartedInv DEF JobsKeep
<1>8. pool' \in Seq(Conns) /\ budgets' \in Budgets
  <2>1. TypeOK
    BY DEF IInv
  <2>2. CASE MarkFailed(t)
    BY <2>1, <2>2, PoolTypes, BudgetTypes DEF MarkFailed, RefreshUnchanged
  <2>3. CASE MarkFails(t)
    BY <2>1, <2>3, BudgetTypes DEF MarkFails, TypeOK
  <2> QED BY <2>2, <2>3
<1> QED
  BY <1>1, <1>4, <1>5, <1>6, <1>7, <1>8, RefreshAssumption, WorkerStep
     DEF InRefresh, IInv, TypeOK

LEMMA ReleaseStep ==
  ASSUME IInv, NEW t \in Threads, Release(t)
  PROVE  IInv'
<1>1. /\ thread[t].pc # "idle" /\ Become(t, Idle)
      /\ UNCHANGED << job, canonical, warehouse, outgoing, budgets >>
  BY DEF Release
<1>2. PICK m \in Message : m = thread[t].msg /\ Due(m)
  BY <1>1, Busy
<1>3. JobsKeep
  BY <1>1, JobsUnchanged DEF IInv
<1>4. /\ queue' \in [ Message -> Nat ]
      /\ \A n \in Message : queue'[n] > 0 => queue[n] > 0 \/ Due(n)'
  <2>1. CASE UNCHANGED queue
    BY <2>1 DEF IInv, TypeOK
  <2>2. CASE m.retries < MaxRetries /\ Put([ m EXCEPT !.retries = @ + 1 ])
    <3> DEFINE n == [ m EXCEPT !.retries = @ + 1 ]
    <3>1. n \in Message /\ n.job = m.job /\ n.actor = m.actor
      BY <2>2, RefreshAssumption DEF Message
    <3>2. Due(n)'
      BY <1>1, <1>2, <1>3, <3>1, DueStays DEF Due
    <3>3. TypeOK /\ Put(n)
      BY <2>2 DEF IInv
    <3> HIDE DEF n
    <3> QED BY <3>1, <3>2, <3>3, PutKeeps
  <2> QED BY <1>2, <2>1, <2>2 DEF Release, Put
<1>5. RequestsKeep
  BY <1>1, <1>3, <1>4 DEF RequestsKeep, IInv, TypeOK
<1>6. /\ thread'[t] \in Task /\ thread' = [ thread EXCEPT ![t] = thread'[t] ]
      /\ thread'[t] = Idle
  BY <1>1, TaskTypes DEF Become, IInv, TypeOK
<1>7. ThreadInv(t)' /\ ~InRefresh(t)'
  BY <1>6, IdleInv, TaskTypes DEF InRefresh
<1>8. pool' \in Seq(Conns) /\ lease' \in [ Conns -> Nat ]
  <2>1. pool \in Seq(Conns) /\ lease \in [ Conns -> Nat ] /\ TypeOK
    BY DEF IInv, TypeOK
  <2>2. CASE thread[t].leased
    <3>1. PICK c \in Conns :
            /\ Transaction(c)
            /\ lease' = [ lease EXCEPT ![c] = IF @ > 0 THEN @ - 1 ELSE 0 ]
      BY <2>2 DEF Release
    <3>2. lease' \in [ Conns -> Nat ]
      BY <2>1, <3>1
    <3> QED BY <2>1, <3>1, <3>2, PoolTypes
  <2>3. CASE ~thread[t].leased
    BY <2>1, <2>3 DEF Release
  <2> QED BY <2>2, <2>3
<1> QED
  BY <1>1, <1>5, <1>6, <1>7, <1>8, WorkerStep DEF IInv, TypeOK, Budgets

(***************************************************************************)
(* Publication.                                                            *)
(***************************************************************************)

\* What a commit that publishes does to the warehouse.
Publishes(t) ==
    LET j == thread[t].msg.job
    IN  /\ warehouse' = [ version |-> warehouse.version + 1, job |-> j,
                          facts |-> Reload(warehouse.facts, Window[j], thread[t].snapshot) ]
        /\ job' = [ job EXCEPT ![j].state = "completed" ]

\* The facts that a refresh may publish include all that are published, and
\* its own batch.
LEMMA PublishEffect ==
  ASSUME IInv, NEW t \in Threads, thread[t].pc = "publishing",
         ~(thread[t].base = 0 /\ warehouse.version > 0), Publishes(t)
  PROVE  /\ warehouse.facts \subseteq warehouse'.facts
         /\ warehouse'.facts \subseteq canonical
         /\ warehouse'.version = warehouse.version + 1
         /\ warehouse' \in [ version : Nat, facts : SUBSET Batches, job : Jobs \cup { NoJob } ]
         /\ thread[t].base = warehouse.version
         /\ thread[t].msg.job \in Batches => thread[t].msg.job \in warehouse'.facts
         /\ warehouse'.job = thread[t].msg.job
         /\ JobsKeep
         /\ job'[thread[t].msg.job].state = "completed"
         /\ ~job'[thread[t].msg.job].cancel
         /\ \A i \in Jobs : job'[i].cancel = job[i].cancel
         /\ \A i \in Jobs \ { thread[t].msg.job } : job'[i] = job[i]
<1>1. PICK j \in Jobs : j = thread[t].msg.job
  BY Busy
<1>2. Current(thread[t]) /\ thread[t] \in Task
  BY Busy DEF IInv, ThreadInv, InRefresh
<1>3. warehouse \in [ version : Nat, facts : SUBSET Batches, job : Jobs \cup { NoJob } ]
  BY DEF IInv, TypeOK
<1>4. thread[t].base = warehouse.version
  BY <1>2, <1>3 DEF Current
<1>5. warehouse.facts \subseteq thread[t].snapshot /\ warehouse.facts \subseteq canonical
  BY <1>2, <1>4 DEF Current, IInv, Known
<1>6. /\ warehouse'.facts = (warehouse.facts \ Window[j]) \cup (thread[t].snapshot \cap Window[j])
      /\ warehouse'.version = warehouse.version + 1
      /\ warehouse'.job = j
      /\ warehouse' = [ version |-> warehouse.version + 1, job |-> j, facts |-> warehouse'.facts ]
  BY <1>1 DEF Publishes, Reload
<1>7. /\ warehouse.facts \subseteq warehouse'.facts
      /\ warehouse'.facts \subseteq canonical
  BY <1>2, <1>5, <1>6 DEF Current
<1>8. j \in Batches => j \in warehouse'.facts
  BY <1>1, <1>2, <1>6, RefreshAssumption DEF Current
<1>9. warehouse'.facts \in SUBSET Batches
  BY <1>7 DEF IInv, TypeOK
<1>10. warehouse' \in [ version : Nat, facts : SUBSET Batches, job : Jobs \cup { NoJob } ]
  BY <1>3, <1>6, <1>9
<1>11. /\ JobsKeep
       /\ job'[j].state = "completed"
       /\ \A i \in Jobs : job'[i].cancel = job[i].cancel
       /\ \A i \in Jobs \ { j } : job'[i] = job[i]
  <2>1. "completed" \in JobState \ { "absent" } /\ TypeOK
    BY DEF JobState, IInv
  <2>2. job' = [ job EXCEPT ![j].state = "completed" ]
    BY <1>1 DEF Publishes
  <2> QED BY <2>1, <2>2, JobMoves
<1>12. ~job[j].cancel
  BY <1>1, <1>2 DEF Current
<1> QED BY <1>1, <1>4, <1>6, <1>7, <1>8, <1>10, <1>11, <1>12

LEMMA PublishStep ==
  ASSUME IInv, NEW t \in Threads, Publish(t)
  PROVE  /\ IInv'
         /\ \/ UNCHANGED warehouse
            \/ Publishes(t) /\ thread[t].pc = "publishing"
                            /\ ~(thread[t].base = 0 /\ warehouse.version > 0)
<1>1. /\ thread[t].pc = "publishing" /\ InRefresh(t)
      /\ pool' = Append(pool, thread[t].conn)
      /\ UNCHANGED << lease, canonical, queue, outgoing, budgets >>
  BY DEF Publish, InRefresh, RefreshUnchanged
<1>2. pool' \in Seq(Conns) /\ budgets' \in Budgets /\ lease' \in [ Conns -> Nat ]
  <2>1. thread[t].conn \in Conns /\ TypeOK
    BY <1>1 DEF IInv, ThreadInv, Current
  <2> QED BY <1>1, <2>1, PoolTypes, BudgetTypes DEF TypeOK
<1>3. CASE thread[t].base = 0 /\ warehouse.version > 0
  <2>1. Become(t, Started(thread[t].msg, "failing", thread[t].leased)) /\ UNCHANGED << job, warehouse >>
    BY <1>3 DEF Publish
  <2> QED BY <1>1, <1>2, <2>1, FailingStep
<1>4. CASE ~(thread[t].base = 0 /\ warehouse.version > 0)
  <2>1. Publishes(t) /\ Become(t, Started(thread[t].msg, "releasing", thread[t].leased))
    BY <1>4 DEF Publish, Publishes
  <2>2. PICK m \in Message : m = thread[t].msg /\ m.job \in Jobs /\ Due(m)
    BY <1>1, Busy
  <2>3. /\ warehouse.facts \subseteq warehouse'.facts
        /\ warehouse'.facts \subseteq canonical
        /\ warehouse'.version = warehouse.version + 1
        /\ warehouse' \in [ version : Nat, facts : SUBSET Batches, job : Jobs \cup { NoJob } ]
        /\ thread[t].base = warehouse.version
        /\ m.job \in Batches => m.job \in warehouse'.facts
        /\ JobsKeep
        /\ job'[m.job].state = "completed"
        /\ \A i \in Jobs : job'[i].cancel = job[i].cancel
        /\ \A i \in Jobs \ { m.job } : job'[i] = job[i]
    BY <1>1, <1>4, <2>1, <2>2, PublishEffect
  <2>4. thread[t] \in Task /\ job[m.job].state # "absent"
    BY <1>1, <2>2, Busy
  <2>5. /\ thread' = [ thread EXCEPT ![t] = thread'[t] ] /\ thread'[t] \in Task
        /\ thread'[t].pc = "releasing" /\ thread'[t].msg = m
        /\ \A u \in Threads \ { t } : thread'[u] = thread[u]
    <3>1. thread[t].leased \in BOOLEAN
      BY <2>4 DEF Task
    <3> QED BY <2>1, <2>2, <3>1, TaskTypes DEF Become, IInv, TypeOK
  <2>6. ThreadInv(t)' /\ ~InRefresh(t)'
    <3>1. Due(m)' /\ job'[m.job].state # "absent"
      BY <1>1, <2>2, <2>3, DueStays
    <3> QED BY <2>5, <3>1, StartedInv DEF InRefresh
  <2>7. ASSUME NEW u \in Threads \ { t } PROVE ThreadInv(u)'
    <3>1. ThreadInv(u) /\ thread'[u] = thread[u]
      BY <2>5 DEF IInv
    <3>2. CASE thread[u].pc = "idle"
      BY <3>1, <3>2 DEF ThreadInv, InRefresh
    <3>3. CASE thread[u].pc # "idle"
      <4>1. Working(thread[u]) /\ thread[u].msg.job \in Jobs
        BY <3>3, Busy DEF Working
      <4>2. Working(thread[u])'
        BY <1>1, <2>3, <3>1, <4>1, DueStays DEF Working, JobsKeep
      <4>3. ASSUME InRefresh(u) PROVE Current(thread[u])'
        <5>1. Current(thread[u]) /\ thread[u].base \in Nat /\ warehouse.version \in Nat
          BY <3>1, <3>3, <4>3, Busy DEF ThreadInv, Task, IInv, TypeOK
        <5>2. thread[u].base = 0
          BY <1>1, <2>3, <4>3, <5>1 DEF IInv, OneHolder, Current
        <5> QED BY <1>1, <2>3, <3>1, <4>1, <5>1, <5>2 DEF Current
      <4> QED BY <3>1, <3>3, <4>2, <4>3 DEF ThreadInv, InRefresh
    <3> QED BY <3>2, <3>3
  <2>8. OneHolder'
    BY <2>5, <2>6 DEF IInv, OneHolder, InRefresh
  <2>9. Known'
    <3>1. \A n \in Message : queue'[n] > 0 => Due(n)'
      BY <1>1, <2>3, DueStays DEF IInv, Known
    <3> QED BY <1>1, <2>3, <2>4, <3>1, RefreshAssumption DEF IInv, TypeOK, Known, JobsKeep
  <2>10. CompletedIsPublished'
    BY <2>3, RefreshAssumption DEF IInv, CompletedIsPublished
  <2>11. TypeOK'
    BY <1>1, <1>2, <2>3, <2>5 DEF IInv, TypeOK, JobsKeep, JobRow, Budgets
  <2> QED BY <1>1, <1>4, <2>1, <2>6, <2>7, <2>8, <2>9, <2>10, <2>11 DEF IInv
<1> QED BY <1>3, <1>4

(***************************************************************************)
(* The environment.                                                        *)
(***************************************************************************)
LEMMA FaultStep ==
  ASSUME IInv, NEW t \in Threads, Fault(t)
  PROVE  IInv'
<1>1. thread[t].conn \in Conns /\ TypeOK
  BY DEF Fault, IInv, ThreadInv, Current
<1>2. pool' \in Seq(Conns) /\ budgets' \in Budgets
  BY <1>1, PoolTypes, BudgetTypes DEF Fault
<1> QED BY <1>2, FailingStep DEF Fault

LEMMA CrashStep ==
  ASSUME IInv, Crash
  PROVE  IInv'
<1>1. /\ UNCHANGED << job, canonical, warehouse, outgoing >>
      /\ thread' = [ t \in Threads |-> Idle ] /\ pool' = << >>
      /\ lease' = [ c \in Conns |-> 0 ]
  BY DEF Crash
<1>2. ASSUME NEW m \in Message
      PROVE  /\ queue'[m] \in Nat
             /\ queue'[m] > 0 => Due(m)
  <2> DEFINE Held == { t \in Threads : thread[t].msg = m }
  <2>1. IsFiniteSet(Held)
    BY RefreshAssumption, FS_Subset
  <2>2. Cardinality(Held) \in Nat
    BY <2>1, FS_CardinalityType
  <2>3. queue'[m] = queue[m] + Cardinality(Held) /\ queue[m] \in Nat
    BY DEF Crash, IInv, TypeOK
  <2>4. CASE Held = {}
    <3>1. Cardinality(Held) = 0
      BY <2>4, FS_EmptySet
    <3> QED BY <2>3, <3>1 DEF IInv, Known
  <2>5. CASE Held # {}
    <3>1. PICK t \in Threads : thread[t].msg = m
      BY <2>5
    <3>2. thread[t].pc # "idle"
      BY <3>1, RefreshAssumption DEF IInv, ThreadInv
    <3> QED BY <2>2, <2>3, <3>1, <3>2, Busy
  <2> QED BY <2>4, <2>5
<1>3. queue' \in [ Message -> Nat ]
  BY <1>2 DEF Crash
<1>4. TypeOK'
  <2>1. thread' \in [ Threads -> Task ]
    BY <1>1, TaskTypes
  <2>2. pool' \in Seq(Conns)
    BY <1>1
  <2>3. budgets' \in Budgets
    BY BudgetTypes DEF Crash, IInv
  <2> QED BY <1>1, <1>3, <2>1, <2>2, <2>3 DEF IInv, TypeOK, Budgets
<1>5. Known'
  BY <1>1, <1>2 DEF IInv, Known, Due
<1>6. \A t \in Threads : ThreadInv(t)' /\ ~InRefresh(t)'
  BY <1>1, TaskTypes DEF ThreadInv, InRefresh
<1>7. OneHolder' /\ CompletedIsPublished'
  BY <1>1, <1>6 DEF IInv, OneHolder, CompletedIsPublished
<1> QED BY <1>4, <1>5, <1>6, <1>7 DEF IInv

LEMMA EnvironmentStep ==
  ASSUME IInv, Traffic \/ \E t \in Threads : Redeliver(t)
  PROVE  IInv' /\ UNCHANGED warehouse
<1>1. ASSUME Traffic PROVE IInv'
  <2>1. /\ UNCHANGED << job, canonical, warehouse, queue, outgoing, thread, lease, budgets >>
        /\ pool' \in Seq(Conns)
    BY <1>1, PoolTypes DEF Traffic, IInv
  <2>2. JobsKeep
    BY <2>1, JobsUnchanged DEF IInv
  <2>3. RequestsKeep
    BY <2>1, <2>2 DEF RequestsKeep, IInv, TypeOK
  <2> QED BY <2>1, <2>3, BudgetTypes, RequestStep DEF IInv, TypeOK, Known
<1>2. ASSUME NEW t \in Threads, Redeliver(t) PROVE IInv'
  <2>1. UNCHANGED << job, canonical, warehouse, outgoing, thread, pool, lease >>
    BY <1>2 DEF Redeliver
  <2>2. PICK m \in Message : m = thread[t].msg /\ Due(m)
    BY <1>2, Busy DEF Redeliver
  <2>3. JobsKeep
    BY <2>1, JobsUnchanged DEF IInv
  <2>4. TypeOK /\ Put(m) /\ Due(m)' /\ budgets' \in Budgets
    BY <1>2, <2>1, <2>2, <2>3, DueStays, BudgetTypes DEF Redeliver, IInv
  <2>5. RequestsKeep
    BY <2>1, <2>3, <2>4, PutKeeps DEF RequestsKeep, TypeOK
  <2> QED BY <2>1, <2>4, <2>5, RequestStep DEF IInv, TypeOK, Known
<1> QED BY <1>1, <1>2 DEF Traffic, Redeliver

(***************************************************************************)
(* The theorems.                                                           *)
(***************************************************************************)

\* Every step keeps the invariant, and publishes or leaves the warehouse alone.
LEMMA NextStep ==
  ASSUME IInv, [Next]_vars
  PROVE  /\ IInv'
         /\ \/ UNCHANGED warehouse
            \/ \E t \in Threads : /\ Publishes(t) /\ thread[t].pc = "publishing"
                                  /\ ~(thread[t].base = 0 /\ warehouse.version > 0)
<1>1. CASE UNCHANGED vars
  BY <1>1 DEF vars, IInv, TypeOK, Known, ThreadInv, OneHolder, CompletedIsPublished,
              Due, Working, Current, InRefresh
<1>2. CASE \/ \E b \in Batches : BatchCompleted(b)
           \/ \E j \in Jobs : QueueRefresh(j) \/ ApiSend(j) \/ CancelRefresh(j)
  BY <1>2, ApiStep
<1>3. ASSUME NEW t \in Threads, NEW m \in Message, Begin(t, m)
      PROVE  IInv' /\ UNCHANGED warehouse
  BY <1>3, EnqueueStep, BeginStep DEF Begin, EnqueueBatch, BeginRefresh, Deliver
<1>4. ASSUME NEW t \in Threads,
             SendRefresh(t) \/ Load(t) \/ LookForCancel(t) \/ MarkFailed(t) \/ Release(t)
      PROVE  IInv' /\ UNCHANGED warehouse
  BY <1>4, SendStep, LoadStep, LookForCancelStep, MarkStep, ReleaseStep
     DEF SendRefresh, Load, LookForCancel, MarkFailed, Release
<1>5. ASSUME NEW t \in Threads, Publish(t)
      PROVE  /\ IInv'
             /\ \/ UNCHANGED warehouse
                \/ /\ Publishes(t) /\ thread[t].pc = "publishing"
                   /\ ~(thread[t].base = 0 /\ warehouse.version > 0)
  BY <1>5, PublishStep
<1>6. ASSUME NEW t \in Threads, Fault(t) \/ MarkFails(t)
      PROVE  IInv' /\ UNCHANGED warehouse
  BY <1>6, FaultStep, MarkStep DEF Fault, MarkFails
<1>7. CASE Traffic \/ \E t \in Threads : Redeliver(t)
  BY <1>7, EnvironmentStep
<1>8. CASE Crash
  BY <1>8, CrashStep DEF Crash
<1> QED BY <1>1, <1>2, <1>3, <1>4, <1>5, <1>6, <1>7, <1>8 DEF Next, Refresh

\* The inductive invariant holds in every reachable state.
THEOREM Invariance == Spec => []IInv
<1>1. IInv /\ [Next]_vars => IInv'
  BY NextStep
<1> QED BY InitIInv, <1>1, PTL DEF Spec

\* Every variable keeps its type.
THEOREM TypeCorrect == Spec => []TypeOK
<1>1. IInv => TypeOK
  BY DEF IInv
<1> QED BY Invariance, <1>1, PTL

\* The warehouse has the batch of every refresh that completed.
THEOREM CompletedPublished == Spec => []CompletedIsPublished
<1>1. IInv => CompletedIsPublished
  BY DEF IInv
<1> QED BY Invariance, <1>1, PTL

\* Versions follow one another, each published by a job that completes and
\* was not being cancelled.
THEOREM SuccessPublishes == Spec => PublishedBySuccess
<1>1. IInv /\ [Next]_vars =>
        [ warehouse' # warehouse =>
            /\ warehouse'.version = warehouse.version + 1
            /\ job'[warehouse'.job].state = "completed"
            /\ ~job'[warehouse'.job].cancel ]_vars
  BY NextStep, PublishEffect
<1> QED BY Invariance, <1>1, PTL DEF Spec, PublishedBySuccess

\* No version lacks what an earlier one had.
THEOREM FactsStay == Spec => FactsNeverLost
<1>1. IInv /\ [Next]_vars => [ warehouse.facts \subseteq warehouse'.facts ]_vars
  BY NextStep, PublishEffect
<1> QED BY Invariance, <1>1, PTL DEF Spec, FactsNeverLost

(***************************************************************************)
(* The contract of the warehouse.                                          *)
(***************************************************************************)
CompletedJobs == { j \in Jobs : job[j].state = "completed" }
CancellingJobs == { j \in Jobs : job[j].cancel }
Quiet == UNCHANGED << canonical, warehouse.version, warehouse.facts, CompletedJobs, CancellingJobs >>

\* What a move of one job does to the jobs reported as completed.
LEMMA ReportsMove ==
  ASSUME TypeOK, NEW j \in Jobs, NEW s \in JobState \ { "absent" },
         job' = [ job EXCEPT ![j].state = s ]
  PROVE  /\ CancellingJobs' = CancellingJobs
         /\ CompletedJobs' = IF s = "completed" THEN CompletedJobs \cup { j }
                             ELSE CompletedJobs \ { j }
<1>1. /\ job'[j].state = s
      /\ \A i \in Jobs : job'[i].cancel = job[i].cancel
      /\ \A i \in Jobs \ { j } : job'[i] = job[i]
  BY JobMoves
<1> QED BY <1>1 DEF CompletedJobs, CancellingJobs

\* A job that was not completed moves to a state that is not either.
LEMMA QuietMove ==
  ASSUME TypeOK, NEW j \in Jobs, NEW s \in JobState \ { "absent", "completed" },
         job[j].state # "completed", job' = [ job EXCEPT ![j].state = s ]
  PROVE  UNCHANGED << CompletedJobs, CancellingJobs >>
<1>1. j \notin CompletedJobs
  BY DEF CompletedJobs
<1>2. CancellingJobs' = CancellingJobs /\ CompletedJobs' = CompletedJobs \ { j }
  BY ReportsMove
<1> QED BY <1>1, <1>2

\* A step that leaves the jobs alone.
LEMMA QuietJobs ==
  ASSUME UNCHANGED job
  PROVE  UNCHANGED << CompletedJobs, CancellingJobs >>
  BY DEF CompletedJobs, CancellingJobs

\* The actors, until they publish or record a failure.
LEMMA BeginIsQuiet ==
  ASSUME TypeOK, NEW t \in Threads, NEW m \in Message, Begin(t, m)
  PROVE  Quiet
<1>1. PICK j \in Jobs : j = m.job
  BY DEF Message
<1>2. /\ UNCHANGED << canonical, warehouse >>
      /\ \/ UNCHANGED job
         \/ /\ job[j].state # "completed"
            /\ \E s \in { "queued", "cancelled", "running" } :
                 job' = [ job EXCEPT ![j].state = s ]
  <2>1. CASE EnqueueBatch(t, m)
    BY <1>1, <2>1 DEF EnqueueBatch, Deliver
  <2>2. CASE BeginRefresh(t, m)
    BY <1>1, <2>2 DEF BeginRefresh, Deliver, LeaseRefused, AlreadyCompleted, HonourCancel, Run
  <2> QED BY <2>1, <2>2 DEF Begin
<1>3. { "queued", "cancelled", "running" } \subseteq JobState \ { "absent", "completed" }
  BY DEF JobState
<1>4. UNCHANGED << CompletedJobs, CancellingJobs >>
  BY <1>2, <1>3, QuietMove, QuietJobs
<1> QED BY <1>2, <1>4 DEF Quiet

\* A step of the actors, or of the environment, that touches no job.
LEMMA OtherStepsAreQuiet ==
  ASSUME \/ Crash \/ Traffic
         \/ \E j \in Jobs : ApiSend(j)
         \/ \E t \in Threads : \/ SendRefresh(t) \/ Load(t) \/ LookForCancel(t) \/ Release(t)
                               \/ Fault(t) \/ MarkFails(t) \/ Redeliver(t)
  PROVE  Quiet
<1>1. UNCHANGED << job, canonical, warehouse >>
  BY DEF Crash, Traffic, ApiSend, SendRefresh, Load, LookForCancel, Release, Fault, MarkFails,
         Redeliver, RefreshUnchanged
<1> QED BY <1>1, QuietJobs DEF Quiet

\* A new job, a cancellation and a failure.
LEMMA JobStep ==
  ASSUME IInv,
         \/ \E j \in Jobs : QueueRefresh(j) \/ CancelRefresh(j)
         \/ \E t \in Threads : MarkFailed(t)
  PROVE  Contract!Next \/ Quiet
<1>1. TypeOK
  BY DEF IInv
<1>2. ASSUME NEW j \in Jobs, QueueRefresh(j) PROVE Quiet
  <2>1. UNCHANGED << canonical, warehouse >>
    BY <1>2 DEF QueueRefresh
  <2>2. UNCHANGED << CompletedJobs, CancellingJobs >>
    BY <1>1, <1>2, QuietMove DEF QueueRefresh, JobState
  <2> QED BY <2>1, <2>2 DEF Quiet
<1>3. ASSUME NEW j \in Jobs, CancelRefresh(j) PROVE Contract!Cancel(j)
  <2>1. /\ job[j].state # "completed" /\ job' = [ job EXCEPT ![j].cancel = TRUE ]
        /\ UNCHANGED << canonical, warehouse >>
    BY <1>3 DEF CancelRefresh
  <2>2. /\ job'[j].cancel /\ \A i \in Jobs : job'[i].state = job[i].state
        /\ \A i \in Jobs \ { j } : job'[i] = job[i]
    BY <1>1, <2>1 DEF TypeOK
  <2>3. j \notin CompletedJobs /\ CompletedJobs' = CompletedJobs
    BY <2>1, <2>2 DEF CompletedJobs
  <2>4. CancellingJobs' = CancellingJobs \cup { j }
    BY <2>2 DEF CancellingJobs
  <2> QED BY <2>1, <2>3, <2>4 DEF Contract!Cancel, CompletedJobs, CancellingJobs
<1>4. ASSUME NEW t \in Threads, MarkFailed(t)
      PROVE  Quiet \/ \E j \in Jobs : Contract!Retract(j)
  <2>1. PICK j \in Jobs : j = thread[t].msg.job
    BY <1>4, Busy DEF MarkFailed
  <2>2. /\ UNCHANGED << canonical, warehouse >>
        /\ UNCHANGED job \/ job' = [ job EXCEPT ![j].state = "failed" ]
    BY <1>4, <2>1 DEF MarkFailed, RefreshUnchanged
  <2>3. CASE UNCHANGED job
    BY <2>2, <2>3, QuietJobs DEF Quiet
  <2>4. CASE job' = [ job EXCEPT ![j].state = "failed" ]
    <3>1. "failed" \in JobState \ { "absent" } /\ "failed" # "completed"
      BY DEF JobState
    <3>2. CancellingJobs' = CancellingJobs /\ CompletedJobs' = CompletedJobs \ { j }
      BY <1>1, <2>4, <3>1, ReportsMove
    <3>3. Contract!Retract(j)
      BY <2>2, <3>2 DEF Contract!Retract, CompletedJobs, CancellingJobs
    <3> QED BY <3>3
  <2> QED BY <2>2, <2>3, <2>4
<1> QED BY <1>2, <1>3, <1>4 DEF Contract!Next

\* What a commit publishes is what the contract lets the job publish.
LEMMA PublishContract ==
  ASSUME IInv, NEW t \in Threads, Publish(t)
  PROVE  Contract!Next \/ Quiet
<1>1. thread[t].pc = "publishing" /\ UNCHANGED canonical
  BY DEF Publish, RefreshUnchanged
<1>2. CASE thread[t].base = 0 /\ warehouse.version > 0
  <2>1. UNCHANGED << job, warehouse >>
    BY <1>2 DEF Publish
  <2> QED BY <1>1, <2>1, QuietJobs DEF Quiet
<1>3. CASE ~(thread[t].base = 0 /\ warehouse.version > 0)
  <2>1. Publishes(t)
    BY <1>3 DEF Publish, Publishes
  <2>2. PICK j \in Jobs : j = thread[t].msg.job
    BY <1>1, Busy
  <2>3. PICK read : read = thread[t].snapshot
    OBVIOUS
  <2>4. Current(thread[t])
    BY <1>1 DEF IInv, ThreadInv, InRefresh
  <2>5. /\ warehouse.facts \subseteq read /\ read \subseteq canonical
        /\ j \in Batches => j \in read
    BY <1>1, <1>3, <2>1, <2>2, <2>3, <2>4, PublishEffect DEF Current
  <2>6. /\ warehouse'.version = warehouse.version + 1
        /\ warehouse'.facts = (warehouse.facts \ Window[j]) \cup (read \cap Window[j])
    BY <2>1, <2>2, <2>3 DEF Publishes, Reload
  <2>7. CancellingJobs' = CancellingJobs /\ CompletedJobs' = CompletedJobs \cup { j }
    BY <2>1, <2>2, ReportsMove DEF Publishes, IInv, JobState
  <2>8. j \notin CancellingJobs
    BY <1>1, <2>2, <2>4 DEF Current, CancellingJobs
  <2>9. read \in SUBSET Batches
    BY <2>5 DEF IInv, TypeOK
  <2>10. Contract!Publish(j, read)
    BY <1>1, <2>5, <2>6, <2>7, <2>8 DEF Contract!Publish, CompletedJobs, CancellingJobs
  <2> QED BY <2>9, <2>10 DEF Contract!Next
<1> QED BY <1>2, <1>3

LEMMA ContractStep ==
  ASSUME IInv, [Next]_vars
  PROVE  [Contract!Next]_(Contract!contract)
<1>0. TypeOK
  BY DEF IInv
<1>1. ASSUME UNCHANGED vars PROVE Quiet
  BY <1>1, QuietJobs DEF vars, Quiet
<1>2. ASSUME NEW b \in Batches, BatchCompleted(b) PROVE Contract!Arrive(b)
  <2>1. canonical' = canonical \cup { b } /\ UNCHANGED << job, warehouse >>
    BY <1>2 DEF BatchCompleted
  <2> QED BY <2>1 DEF Contract!Arrive
<1>3. ASSUME NEW t \in Threads, NEW m \in Message, Begin(t, m) PROVE Quiet
  BY <1>0, <1>3, BeginIsQuiet
<1>4. ASSUME \/ \E j \in Jobs : QueueRefresh(j) \/ CancelRefresh(j)
             \/ \E t \in Threads : MarkFailed(t)
      PROVE  Contract!Next \/ Quiet
  BY <1>4, JobStep
<1>5. ASSUME NEW t \in Threads, Publish(t) PROVE Contract!Next \/ Quiet
  BY <1>5, PublishContract
<1>6. Contract!Next \/ Quiet
  <2>1. (\E b \in Batches : BatchCompleted(b)) => Contract!Next
    BY <1>2 DEF Contract!Next
  <2> QED BY <1>1, <1>3, <1>4, <1>5, <2>1, OtherStepsAreQuiet DEF Next, Refresh
<1> QED BY <1>6 DEF Quiet, Contract!contract, CompletedJobs, CancellingJobs

\* The refreshes of a tenant implement the contract of its warehouse: whatever
\* overlaps, fails, dies or is delivered twice, the locks of execute_refresh
\* and the unique constraints publish one version after the other.
THEOREM Implementation == Spec => ImplementsContract
<1>1. Init => Contract!Init
  <2> SUFFICES ASSUME Init PROVE Contract!Init
    OBVIOUS
  <2>1. \A j \in Jobs : job[j].state = "absent" /\ ~job[j].cancel
    BY DEF Init
  <2>2. CompletedJobs = {} /\ CancellingJobs = {}
    BY <2>1 DEF CompletedJobs, CancellingJobs
  <2> QED BY <2>2 DEF Init, Contract!Init, CompletedJobs, CancellingJobs
<1>2. IInv /\ [Next]_vars => [Contract!Next]_(Contract!contract)
  BY ContractStep
<1> QED BY Invariance, <1>1, <1>2, PTL DEF Spec, ImplementsContract, Contract!Spec
=============================================================================
