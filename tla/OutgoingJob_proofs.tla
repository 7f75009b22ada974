---------------------------- MODULE OutgoingJob_proofs ----------------------------
(***************************************************************************)
(* The job life cycle runs on the queue of WorkerPool: dropping the job's  *)
(* variables leaves a behaviour of WorkerPool, whose theorems therefore    *)
(* hold of jobs.                                                           *)
(***************************************************************************)
EXTENDS OutgoingJob, WorkerPool_proofs, FiniteSetTheorems

\* Every step of a job is a step of the queue or leaves the queue alone.
LEMMA JobStepIsQueueStep == [JobNext]_allVars => [Next]_vars
<1> SUFFICES ASSUME [JobNext]_allVars PROVE [Next]_vars
  OBVIOUS
<1>1. ASSUME NEW m \in Msgs, RequestStep(m) PROVE [Next]_vars
  BY <1>1 DEF RequestStep, Enqueue, EnqueueUnconfirmed, EnqueueLost, NotEnqueued, CreateRow,
     QueuedHook, DirectPaced, DirectSend, DirectHook, queue, Next
<1>2. ASSUME NEW w \in AllWorkers, HandlerStep(w) PROVE [Next]_vars
  <2>1. WorkerStep(w) \/ UNCHANGED vars
    BY <1>2 DEF HandlerStep, TakeJob, CheckDuplicate, Paced, MarkProcessing, Send,
       RecordSent, MarkProcessed, RecordFailed, StatusHook, Notify, queue, WorkerStep
  <2> QED BY <2>1 DEF Next
<1>3. ASSUME NEW w \in AllWorkers, QueueStep(w) \/ RetryInDoubt(w) PROVE [Next]_vars
  <2>1. WorkerStep(w)
    BY <1>3 DEF QueueStep, RetryInDoubt, WorkerStep
  <2> QED BY <2>1 DEF Next
<1>4. CASE (\E c \in broker : Expire(c)) \/ StartWorkers \/ Shutdown
  BY <1>4 DEF Next
<1>5. CASE JobsConnectionLost \/ JobsProcessEnds
  BY <1>5 DEF JobsConnectionLost, JobsProcessEnds, Next
<1>6. CASE UNCHANGED allVars
  BY <1>6 DEF allVars
<1> QED BY <1>1, <1>2, <1>3, <1>4, <1>5, <1>6 DEF JobNext

\* The jobs' specification implements the queue's.
THEOREM JobsRunOnQueue == JobSpec => Spec
<1>1. JobInit => Init
  BY DEF JobInit
<1> QED BY <1>1, JobStepIsQueueStep, PTL DEF JobSpec, Spec

\* With publisher confirms, an accepted job is in the broker until some handler
\* run concludes it, whatever the request, its row and its events go through.
THEOREM JobsNotLost == JobSpec => []NoLoss
BY JobsRunOnQueue, MessagesNotLost, PTL

\* A job is dead-lettered only after a panic or more than QueueMaxRetries
\* failed handler runs, rate-limited ones included.
THEOREM JobDeadLettersJustified == JobSpec => []DeadLetterJustified
BY JobsRunOnQueue, DeadLettersJustified, PTL

-----------------------------------------------------------------------------
(* The inductive invariant *)

\* Which handler a worker runs: DLQHandler only notifies, the main handler
\* never does.
HandlerOfHome ==
  \A w \in AllWorkers :
    /\ step[w] = "notify" => Home(w) = "dlq"
    /\ step[w] \notin {"none", "notify"} => Home(w) = "main"

\* The worker is still to send its delivery, or to hand it back.
MaySend(w) ==
  \/ pc[w] = "handle" /\ step[w] \in {"dedup", "pace", "mark", "send", "failRow", "failHook"}
  \/ pc[w] \in {"publish", "requeue"}

\* What may still lead to a send of a job: a delivery at a worker, a copy that
\* waits in the main or a retry queue, the request itself.
Runs(m) == {w \in AllWorkers : MaySend(w) /\ job[w].msg = m}
Waiting(m) == {c \in broker : c.msg = m /\ c.at # "dlq" /\ ~ Unacked(c)}
Ask(m) == IF req[m] \in {"new", "direct", "send"} THEN 1 ELSE 0

\* Each of these can cost one send, and all but one were paid for by a doubt.
BudgetOf(m) ==
  waSends[m] + Ask(m) + Cardinality(Waiting(m)) + Cardinality(Runs(m)) <= 1 + doubts[m]
Budget == \A m \in Msgs : BudgetOf(m)

\* The broker holds finitely many copies, and finitely many workers are busy.
Finite == IsFiniteSet(broker) /\ IsFiniteSet({w \in AllWorkers : MaySend(w)})

\* What is recorded as sent was sent.
SentIsTrue ==
  /\ \A m \in processed : waSends[m] > 0
  /\ \A w \in AllWorkers :
       step[w] \in {"sentRow", "sentMark", "sentHook"} => waSends[job[w].msg] > 0
  /\ \A m \in Msgs : req[m] \in {"sent", "sentHook"} => waSends[m] > 0
  /\ \A m \in Msgs : row[m] = "completed" => waSends[m] > 0

\* A request past its publish stands for an accepted job, given confirms, and a row is there
\* only once the request has created it.
RequestIsTrue ==
  \A m \in Msgs :
    /\ PublishConfirm /\ req[m] \in {"create", "hook", "queued"} => m \in accepted
    /\ row[m] # "none" => req[m] \notin {"new", "create"}

\* A job whose handler runs are concluded was sent, or the client was told of
\* the failure, or could not be told.
EndsAreKnown ==
  \A m \in Concluded : waSends[m] > 0 \/ "failed" \in told[m] \/ m \in mute

JobInv == /\ JobTypeOK /\ HandlerOfHome /\ Finite /\ Budget
          /\ SentIsTrue /\ RequestIsTrue /\ EndsAreKnown

\* A worker that runs a handler or concludes a delivery holds a job's message.
LEMMA HeldMessage ==
  ASSUME IndInv, NEW w \in AllWorkers, pc[w] \in Busy
  PROVE  job[w].msg \in Msgs
BY DEF IndInv, TypeOK, Copy

\* Handing every unacknowledged delivery out again adds a number to the doubts.
LEMMA RedeliverCounts ==
  ASSUME JobTypeOK, Finite, RedeliverDoubts
  PROVE  doubts' \in [Msgs -> Nat]
<1>1. ASSUME NEW m \in Msgs
      PROVE  Cardinality({c \in broker : c.msg = m /\ Unacked(c)}) \in Nat
  <2>1. {c \in broker : c.msg = m /\ Unacked(c)} \subseteq broker
    OBVIOUS
  <2> QED BY <2>1, FS_Subset, FS_CardinalityType DEF Finite
<1> QED BY <1>1 DEF RedeliverDoubts, JobTypeOK

\* One more send of one message.
LEMMA OneSend ==
  ASSUME JobTypeOK, NEW m \in Msgs, SendReaches(m)
  PROVE  /\ waSends'[m] = waSends[m] + 1
         /\ \A k \in Msgs \ {m} : waSends'[k] = waSends[k]
         /\ \A k \in Msgs : waSends[k] > 0 => waSends'[k] > 0
         /\ waSends'[m] > 0
<1>1. waSends \in [Msgs -> Nat] /\ waSends' = [waSends EXCEPT ![m] = @ + 1]
  BY DEF JobTypeOK, SendReaches
<1>2. waSends'[m] = waSends[m] + 1 /\ \A k \in Msgs \ {m} : waSends'[k] = waSends[k]
  BY <1>1
<1>3. waSends'[m] > 0
  BY <1>1, <1>2
<1> QED BY <1>2, <1>3

-----------------------------------------------------------------------------
(* Counting what may still send *)

\* How the size of a set changes with its elements.
LEMMA NoMore ==
  ASSUME NEW S, NEW T, IsFiniteSet(S), T \subseteq S
  PROVE  IsFiniteSet(T) /\ Cardinality(T) \in Nat /\ Cardinality(T) <= Cardinality(S)
BY FS_Subset, FS_CardinalityType

LEMMA OneMore ==
  ASSUME NEW S, NEW T, NEW x, IsFiniteSet(S), T \subseteq S \cup {x}
  PROVE  IsFiniteSet(T) /\ Cardinality(T) \in Nat /\ Cardinality(T) <= Cardinality(S) + 1
<1>1. /\ IsFiniteSet(S \cup {x}) /\ Cardinality(S) \in Nat
      /\ Cardinality(S \cup {x}) = IF x \in S THEN Cardinality(S) ELSE Cardinality(S) + 1
  BY FS_AddElement, FS_CardinalityType
<1>2. Cardinality(S \cup {x}) <= Cardinality(S) + 1
  BY <1>1
<1>3. IsFiniteSet(T) /\ Cardinality(T) \in Nat /\ Cardinality(T) <= Cardinality(S \cup {x})
  BY <1>1, NoMore
<1>4. Cardinality(S \cup {x}) \in Nat
  BY <1>1, FS_CardinalityType
<1> QED BY <1>1, <1>2, <1>3, <1>4

LEMMA OneLess ==
  ASSUME NEW S, NEW T, NEW x \in S, IsFiniteSet(S), T \subseteq S \ {x}
  PROVE  IsFiniteSet(T) /\ Cardinality(T) \in Nat /\ Cardinality(T) + 1 <= Cardinality(S)
<1>1. IsFiniteSet(S \ {x}) /\ Cardinality(S \ {x}) = Cardinality(S) - 1 /\ Cardinality(S) \in Nat
  BY FS_RemoveElement, FS_CardinalityType
<1>2. IsFiniteSet(T) /\ Cardinality(T) \in Nat /\ Cardinality(T) <= Cardinality(S \ {x})
  BY <1>1, NoMore
<1> QED BY <1>1, <1>2

LEMMA Together ==
  ASSUME NEW S, NEW U, NEW T, IsFiniteSet(S), IsFiniteSet(U), T \subseteq S \cup U
  PROVE  /\ Cardinality(T) \in Nat
         /\ Cardinality(T) <= Cardinality(S) + Cardinality(U)
<1>1. /\ IsFiniteSet(S \cup U)
      /\ Cardinality(S \cup U) = Cardinality(S) + Cardinality(U) - Cardinality(S \cap U)
  BY FS_Union
<1>2. Cardinality(S \cap U) \in Nat /\ Cardinality(S) \in Nat /\ Cardinality(U) \in Nat
  BY FS_Intersection, FS_CardinalityType
<1>3. Cardinality(T) \in Nat /\ Cardinality(T) <= Cardinality(S \cup U)
  BY <1>1, NoMore
<1> QED BY <1>1, <1>2, <1>3

\* The sets of a job that are counted are finite.
LEMMA CountedFinite ==
  ASSUME Finite, NEW m
  PROVE  /\ IsFiniteSet(Waiting(m)) /\ Cardinality(Waiting(m)) \in Nat
         /\ IsFiniteSet(Runs(m)) /\ Cardinality(Runs(m)) \in Nat
<1>1. Waiting(m) \subseteq broker /\ Runs(m) \subseteq {w \in AllWorkers : MaySend(w)}
  BY DEF Waiting, Runs
<1> QED BY <1>1, NoMore DEF Finite

\* A step that adds nothing to what may send keeps within the budget.
LEMMA Quiet ==
  ASSUME JobInv, JobTypeOK', NEW k \in Msgs,
         waSends'[k] = waSends[k], doubts'[k] >= doubts[k],
         Ask(k)' <= Ask(k), Waiting(k)' \subseteq Waiting(k), Runs(k)' \subseteq Runs(k)
  PROVE  BudgetOf(k)'
<1>1. BudgetOf(k) /\ Finite /\ JobTypeOK
  BY DEF JobInv, Budget
<1>2. /\ Cardinality(Waiting(k))' \in Nat /\ Cardinality(Waiting(k)') <= Cardinality(Waiting(k))
      /\ Cardinality(Runs(k)') \in Nat /\ Cardinality(Runs(k)') <= Cardinality(Runs(k))
      /\ Cardinality(Waiting(k)) \in Nat /\ Cardinality(Runs(k)) \in Nat
  BY <1>1, CountedFinite, NoMore
<1>3. /\ waSends[k] \in Nat /\ doubts[k] \in Nat /\ doubts'[k] \in Nat
      /\ Ask(k) \in Nat /\ Ask(k)' \in Nat
  BY <1>1 DEF JobTypeOK, Ask
<1> QED BY <1>1, <1>2, <1>3 DEF BudgetOf

\* Which deliveries are unacknowledged depends on who is busy, not on how far.
LEMMA SameUnacked ==
  ASSUME job' = job, live' = live,
         \A w \in AllWorkers : pc'[w] \in Busy <=> pc[w] \in Busy
  PROVE  /\ \A c : Unacked(c)' <=> Unacked(c)
         /\ broker' = broker => \A k : Waiting(k)' = Waiting(k)
<1>1. \A c : Unacked(c)' <=> Unacked(c)
  BY DEF Unacked
<1> QED BY <1>1 DEF Waiting

\* The steps of the request that neither publish nor send.
LEMMA RequestWithinBudget ==
  ASSUME IndInv, JobInv, JobTypeOK', NEW k \in Msgs, NEW m \in Msgs,
         \/ EnqueueLost(m) \/ NotEnqueued(m) \/ CreateRow(m) \/ QueuedHook(m)
         \/ DirectPaced(m) \/ DirectHook(m)
  PROVE  BudgetOf(k)'
<1> USE DEF EnqueueLost, NotEnqueued, CreateRow, QueuedHook, DirectPaced, DirectHook
<1>1. UNCHANGED <<queue, step, waSends, doubts>>
  OBVIOUS
<1>2. Waiting(k)' = Waiting(k) /\ Runs(k)' = Runs(k)
  BY <1>1 DEF queue, vars, Waiting, Unacked, Runs, MaySend
<1>3. Ask(k)' <= Ask(k)
  BY DEF Ask, Request, JobInv, JobTypeOK
<1>4. doubts'[k] >= doubts[k]
  BY <1>1 DEF JobInv, JobTypeOK
<1> QED BY <1>1, <1>2, <1>3, <1>4, Quiet

\* The steps of a handler that neither take a delivery nor send.
LEMMA HandlerWithinBudget ==
  ASSUME IndInv, JobInv, JobTypeOK', NEW k \in Msgs, NEW w \in AllWorkers,
         \/ CheckDuplicate(w) \/ Paced(w) \/ MarkProcessing(w) \/ RecordSent(w)
         \/ MarkProcessed(w) \/ RecordFailed(w) \/ StatusHook(w) \/ Notify(w)
  PROVE  BudgetOf(k)'
<1> USE DEF CheckDuplicate, Paced, MarkProcessing, RecordSent, MarkProcessed,
            RecordFailed, StatusHook, Notify
<1>1. UNCHANGED <<broker, job, live, req, waSends, doubts>> /\ pc[w] = "handle"
  BY DEF HandlerOk, HandlerErr, HandlerPanic, queue, vars, JobInv, JobTypeOK, Handler
<1>2. /\ pc' = pc \/ pc' \in {[pc EXCEPT ![w] = p] : p \in {"ack", "publish", "reject"}}
      /\ step' \in {[step EXCEPT ![w] = s] : s \in Steps}
  BY DEF HandlerOk, HandlerErr, HandlerPanic, AfterError, queue, vars, Handler, Steps
<1>3. Waiting(k)' = Waiting(k)
  BY <1>1, <1>2, SameUnacked DEF IndInv, TypeOK, Busy
<1>4. MaySend(w)' => MaySend(w)
  BY <1>1, <1>2 DEF MaySend, Handler, HandlerOk, HandlerPanic, HandlerErr, AfterError,
     IndInv, TypeOK, JobInv, JobTypeOK, HandlerOfHome, queue, vars
<1>5. Runs(k)' \subseteq Runs(k)
  BY <1>1, <1>2, <1>4 DEF Runs, MaySend, IndInv, TypeOK, JobInv, JobTypeOK
<1>6. Ask(k)' <= Ask(k) /\ doubts'[k] >= doubts[k]
  BY <1>1 DEF Ask, JobInv, JobTypeOK
<1> QED BY <1>1, <1>3, <1>5, <1>6, Quiet

\* The queue's steps after a handler, apart from a stored retry and a requeue.
LEMMA QueueWithinBudget ==
  ASSUME IndInv, JobInv, JobTypeOK', NEW k \in Msgs, NEW w \in AllWorkers,
         UNCHANGED jobVars,
         \/ PublishLost(w) \/ PublishFailed(w) \/ Ack(w) \/ Reject(w) \/ WorkerExit(w)
  PROVE  BudgetOf(k)'
<1>1. UNCHANGED <<req, step, waSends, doubts>>
  BY DEF jobVars
<1>2. Ask(k)' <= Ask(k) /\ doubts'[k] >= doubts[k]
  BY <1>1 DEF Ask, JobInv, JobTypeOK
<1>3. Runs(k)' \subseteq Runs(k)
  BY <1>1 DEF PublishLost, PublishFailed, Ack, Reject, WorkerExit, Finish, Runs, MaySend,
     IndInv, TypeOK
<1>4. ASSUME PublishLost(w) \/ PublishFailed(w) PROVE Waiting(k)' \subseteq Waiting(k)
  BY <1>4, SameUnacked DEF PublishLost, PublishFailed, IndInv, TypeOK, Busy
<1>5. ASSUME WorkerExit(w) PROVE Waiting(k)' \subseteq Waiting(k)
  BY <1>5 DEF WorkerExit, Waiting, Unacked, IndInv, TypeOK, Busy
<1>6. ASSUME Ack(w) \/ Reject(w) PROVE Waiting(k)' \subseteq Waiting(k)
  <2>1. /\ pc[w] \in Busy /\ pc' = [pc EXCEPT ![w] = "idle"]
        /\ job' = [job EXCEPT ![w] = NoCopy] /\ live' = live
    BY <1>6 DEF Ack, Reject, Finish, Busy
  <2>2. ASSUME NEW c \in Waiting(k)' PROVE c \in Waiting(k)
    <3>1. c \in broker /\ c.msg = k /\ c.at # "dlq" /\ ~ Unacked(c)'
      BY <1>6 DEF Ack, Reject, DeadLetter, Moved, Waiting
    <3>2. live[w] => c # job[w]
      BY <1>6 DEF Ack, Reject, DeadLetter, Moved, Waiting
    <3>3. ~ Unacked(c)
      BY <2>1, <3>1, <3>2 DEF Unacked, Busy, IndInv, TypeOK, Delivery, UniqueIds, HeldStored
    <3> QED BY <3>1, <3>3 DEF Waiting
  <2> QED BY <2>2
<1>7. Waiting(k)' \subseteq Waiting(k)
  BY <1>4, <1>5, <1>6
<1> QED BY <1>1, <1>2, <1>3, <1>7, Quiet

\* Starting and stopping workers hands out and takes back no delivery.
LEMMA LifeCycleWithinBudget ==
  ASSUME IndInv, JobInv, JobTypeOK', NEW k \in Msgs, UNCHANGED jobVars,
         StartWorkers \/ Shutdown \/ UNCHANGED vars
  PROVE  BudgetOf(k)'
<1>1. UNCHANGED <<req, step, waSends, doubts, broker, job>>
  BY DEF jobVars, StartWorkers, Shutdown, vars
<1>2. Ask(k)' <= Ask(k) /\ doubts'[k] >= doubts[k]
  BY <1>1 DEF Ask, JobInv, JobTypeOK
<1>3. /\ \A w \in AllWorkers : pc'[w] = pc[w] \/ pc'[w] = "idle"
      /\ \A w \in AllWorkers : live[w] => live'[w]
  BY DEF StartWorkers, Shutdown, vars
<1>4. \A w \in AllWorkers : live[w] => pc'[w] = pc[w]
  BY DEF StartWorkers, Shutdown, vars
<1>5. Runs(k)' \subseteq Runs(k)
  BY <1>1, <1>3 DEF Runs, MaySend
<1>6. Waiting(k)' \subseteq Waiting(k)
  BY <1>1, <1>3, <1>4 DEF Waiting, Unacked
<1> QED BY <1>1, <1>2, <1>5, <1>6, Quiet

\* A job enters the queue: the copy takes the place of the request, or a doubt
\* pays for it.
LEMMA EnqueueWithinBudget ==
  ASSUME IndInv, JobInv, JobTypeOK', NEW k \in Msgs, NEW m \in Msgs,
         Enqueue(m) \/ EnqueueUnconfirmed(m)
  PROVE  BudgetOf(k)'
<1> DEFINE new == [id |-> FreshId, msg |-> m, rc |-> 0, at |-> "main"]
<1>1. /\ UNCHANGED <<pc, job, live, step, waSends>>
      /\ broker' = broker \cup {new}
  BY DEF Enqueue, EnqueueUnconfirmed, Publish
<1>2. Runs(k)' = Runs(k) /\ \A c : Unacked(c)' <=> Unacked(c)
  BY <1>1 DEF Runs, MaySend, Unacked
<1>3. Waiting(k)' \subseteq Waiting(k) \cup {new} /\ (k # m => Waiting(k)' \subseteq Waiting(k))
  BY <1>1, <1>2 DEF Waiting
<1>4. CASE k # m
  <2>1. Ask(k)' = Ask(k) /\ doubts'[k] = doubts[k] /\ Ask(k) \in Nat /\ doubts[k] \in Nat
    BY <1>4 DEF Enqueue, EnqueueUnconfirmed, Request, Ask, Doubt, JobInv, JobTypeOK
  <2> QED BY <1>1, <1>2, <1>3, <1>4, <2>1, Quiet
<1>5. CASE k = m
  <2>1. /\ Ask(k) = 1 /\ Ask(k)' \in Nat
        /\ \/ Ask(k)' = 0 /\ doubts'[k] = doubts[k]
           \/ Ask(k)' = 1 /\ doubts'[k] = doubts[k] + 1
    BY <1>5 DEF Enqueue, EnqueueUnconfirmed, Request, Ask, Doubt, JobInv, JobTypeOK
  <2>2. /\ Cardinality(Waiting(k)') \in Nat
        /\ Cardinality(Waiting(k)') <= Cardinality(Waiting(k)) + 1
        /\ Cardinality(Waiting(k)) \in Nat /\ Cardinality(Runs(k)) \in Nat
    BY <1>3, CountedFinite, OneMore DEF JobInv
  <2>3. waSends[k] \in Nat /\ doubts[k] \in Nat /\ BudgetOf(k)
    BY DEF JobInv, JobTypeOK, Budget
  <2> QED BY <1>1, <1>2, <2>1, <2>2, <2>3 DEF BudgetOf
<1> QED BY <1>4, <1>5

\* A direct send uses up the request, and a lost reply is a doubt.
LEMMA DirectSendWithinBudget ==
  ASSUME IndInv, JobInv, JobTypeOK', NEW k \in Msgs, NEW m \in Msgs, DirectSend(m)
  PROVE  BudgetOf(k)'
<1>1. UNCHANGED <<queue, step>>
  BY DEF DirectSend
<1>2. Waiting(k)' = Waiting(k) /\ Runs(k)' = Runs(k)
  BY <1>1 DEF queue, vars, Waiting, Unacked, Runs, MaySend
<1>3. /\ Cardinality(Waiting(k)) \in Nat /\ Cardinality(Runs(k)) \in Nat
      /\ waSends[k] \in Nat /\ doubts[k] \in Nat /\ BudgetOf(k)
  BY CountedFinite DEF JobInv, JobTypeOK, Budget
<1>4. Ask(k) \in Nat /\ Ask(k)' \in Nat
  BY DEF Ask
<1>5. waSends'[k] + Ask(k)' <= waSends[k] + Ask(k) + (doubts'[k] - doubts[k]) /\ doubts'[k] \in Nat
        /\ waSends'[k] \in Nat
  <2>1. CASE k # m
    BY <2>1, <1>3 DEF DirectSend, Request, SendReaches, Doubt, Ask, JobInv, JobTypeOK
  <2>2. CASE k = m
    <3>1. Ask(k) = 1 /\ Ask(k)' = 0
      BY <2>2 DEF DirectSend, Request, Ask, JobInv, JobTypeOK
    <3>2. \/ waSends'[k] = waSends[k] + 1 /\ doubts'[k] = doubts[k]
          \/ waSends'[k] = waSends[k] /\ doubts'[k] = doubts[k]
          \/ waSends'[k] = waSends[k] + 1 /\ doubts'[k] = doubts[k] + 1
      BY <2>2 DEF DirectSend, SendReaches, Doubt, JobInv, JobTypeOK
    <3> QED BY <1>3, <3>1, <3>2
  <2> QED BY <2>1, <2>2
<1> QED BY <1>2, <1>3, <1>4, <1>5 DEF BudgetOf

\* A worker takes the place of the copy it takes.
LEMMA TakeWithinBudget ==
  ASSUME IndInv, JobInv, JobTypeOK', NEW k \in Msgs, NEW w \in AllWorkers, TakeJob(w)
  PROVE  BudgetOf(k)'
<1>1. /\ UNCHANGED <<broker, live, req, waSends, doubts>>
      /\ pc[w] = "idle" /\ live[w] /\ pc' = [pc EXCEPT ![w] = "handle"]
      /\ step' = [step EXCEPT ![w] = IF Home(w) = "main" THEN "dedup" ELSE "notify"]
  BY DEF TakeJob, Take, Handler
<1>2. PICK c \in broker : c.at = Home(w) /\ ~ Unacked(c) /\ job' = [job EXCEPT ![w] = c]
  BY DEF TakeJob, Take
<1>3. /\ Cardinality(Waiting(k)) \in Nat /\ Cardinality(Runs(k)) \in Nat
      /\ waSends[k] \in Nat /\ doubts[k] \in Nat /\ BudgetOf(k)
      /\ IsFiniteSet(Waiting(k)) /\ IsFiniteSet(Runs(k)) /\ Ask(k)' = Ask(k) /\ Ask(k) \in Nat
  BY <1>1, CountedFinite DEF JobInv, JobTypeOK, Budget, Ask
<1>4. \A v \in AllWorkers \ {w} : pc'[v] = pc[v] /\ job'[v] = job[v] /\ step'[v] = step[v]
  BY <1>1, <1>2 DEF IndInv, TypeOK, JobInv, JobTypeOK
<1>5. pc'[w] = "handle" /\ job'[w] = c
  BY <1>1, <1>2 DEF IndInv, TypeOK
<1>6. Waiting(k)' \subseteq Waiting(k) \ {c}
  BY <1>1, <1>4, <1>5 DEF Waiting, Unacked, Busy
<1>7. CASE Home(w) = "main" /\ c.msg = k
  <2>1. c \in Waiting(k)
    BY <1>2, <1>7 DEF Waiting
  <2>2. Runs(k)' \subseteq Runs(k) \cup {w}
    BY <1>4 DEF Runs, MaySend
  <2>3. /\ Cardinality(Waiting(k)') \in Nat /\ Cardinality(Waiting(k)') + 1 <= Cardinality(Waiting(k))
        /\ Cardinality(Runs(k)') \in Nat /\ Cardinality(Runs(k)') <= Cardinality(Runs(k)) + 1
    BY <1>3, <1>6, <2>1, <2>2, OneLess, OneMore
  <2> QED BY <1>1, <1>3, <2>3 DEF BudgetOf
<1>8. CASE ~ (Home(w) = "main" /\ c.msg = k)
  <2>1. ~ (MaySend(w)' /\ job'[w].msg = k)
    BY <1>1, <1>5, <1>8 DEF MaySend, JobInv, JobTypeOK
  <2>2. Runs(k)' \subseteq Runs(k)
    BY <1>4, <2>1 DEF Runs, MaySend
  <2>3. Waiting(k)' \subseteq Waiting(k) /\ doubts'[k] >= doubts[k] /\ Ask(k)' <= Ask(k)
    BY <1>1, <1>3, <1>6
  <2> QED BY <1>1, <2>2, <2>3, Quiet
<1> QED BY <1>7, <1>8

\* The handler's send uses up the worker's delivery, and a lost reply is a doubt.
LEMMA SendWithinBudget ==
  ASSUME IndInv, JobInv, JobTypeOK', NEW k \in Msgs, NEW w \in AllWorkers, Send(w)
  PROVE  BudgetOf(k)'
<1> DEFINE m == job[w].msg
<1>1. /\ UNCHANGED <<queue, req>> /\ step[w] = "send" /\ pc[w] = "handle"
      /\ step' = [step EXCEPT ![w] = "sentRow"] \/ step' = [step EXCEPT ![w] = "failRow"]
  BY DEF Send, Handler, JobInv, JobTypeOK
<1>2. m \in Msgs /\ w \in Runs(m)
  BY <1>1, HeldMessage DEF Busy, Runs, MaySend
<1>3. Waiting(k)' = Waiting(k) /\ Ask(k)' = Ask(k)
  BY <1>1 DEF queue, vars, Waiting, Unacked, Ask
<1>4. Runs(k)' \subseteq Runs(k)
  BY <1>1 DEF queue, vars, Runs, MaySend, JobInv, JobTypeOK
<1>5. /\ Cardinality(Waiting(k)) \in Nat /\ Cardinality(Runs(k)) \in Nat
      /\ waSends[k] \in Nat /\ doubts[k] \in Nat /\ BudgetOf(k)
      /\ IsFiniteSet(Runs(k)) /\ Ask(k) \in Nat
  BY CountedFinite DEF JobInv, JobTypeOK, Budget, Ask
<1>6. CASE k # m
  <2>1. waSends'[k] = waSends[k] /\ doubts'[k] = doubts[k]
    BY <1>2, <1>6 DEF Send, SendReaches, Doubt, JobInv, JobTypeOK
  <2> QED BY <1>3, <1>4, <1>5, <2>1, Quiet
<1>7. CASE k = m
  <2>1. ASSUME Handler(w, "send", "sentRow"), SendReaches(m), UNCHANGED doubts
        PROVE  BudgetOf(k)'
    <3>1. Runs(k)' \subseteq Runs(k) \ {w}
      BY <1>1, <1>4, <2>1 DEF Handler, queue, vars, Runs, MaySend, JobInv, JobTypeOK
    <3>2. Cardinality(Runs(k)') \in Nat /\ Cardinality(Runs(k)') + 1 <= Cardinality(Runs(k))
      BY <1>2, <1>5, <1>7, <3>1, OneLess
    <3>3. waSends'[k] = waSends[k] + 1 /\ doubts'[k] = doubts[k]
      BY <1>7, <2>1, OneSend DEF JobInv
    <3> QED BY <1>3, <1>5, <3>2, <3>3 DEF BudgetOf
  <2>2. ASSUME UNCHANGED <<waSends, doubts>> PROVE BudgetOf(k)'
    BY <1>3, <1>4, <1>5, <2>2, Quiet
  <2>3. ASSUME SendReaches(m), Doubt(m) PROVE BudgetOf(k)'
    <3>1. waSends'[k] = waSends[k] + 1 /\ doubts'[k] = doubts[k] + 1
      BY <1>7, <2>3 DEF SendReaches, Doubt, JobInv, JobTypeOK
    <3>2. Cardinality(Runs(k)') \in Nat /\ Cardinality(Runs(k)') <= Cardinality(Runs(k))
      BY <1>4, <1>5, NoMore
    <3> QED BY <1>3, <1>5, <3>1, <3>2 DEF BudgetOf
  <2> QED BY <2>1, <2>2, <2>3 DEF Send
<1> QED BY <1>6, <1>7

\* The retry takes the place of the worker's delivery; a worker that must hand
\* its delivery back as well is a doubt.
LEMMA RetryWithinBudget ==
  ASSUME IndInv, JobInv, JobTypeOK', NEW k \in Msgs, NEW w \in AllWorkers,
         (PublishStored(w) /\ UNCHANGED jobVars) \/ RetryInDoubt(w)
  PROVE  BudgetOf(k)'
<1> DEFINE m == job[w].msg
<1>1. /\ UNCHANGED <<job, live, req, step, waSends>> /\ pc[w] = "publish"
      /\ broker' = broker \cup {RetryCopy(job[w])}
      /\ pc' = [pc EXCEPT ![w] = "ack"] \/ pc' = [pc EXCEPT ![w] = "requeue"]
  BY DEF PublishStored, RetryInDoubt, PublishUnconfirmed, jobVars
<1>2. m \in Msgs /\ w \in Runs(m) /\ RetryCopy(job[w]).msg = m
  BY <1>1, HeldMessage DEF Busy, Runs, MaySend, RetryCopy
<1>3. \A c : Unacked(c)' <=> Unacked(c)
  BY <1>1 DEF Unacked, Busy, IndInv, TypeOK
<1>4. /\ Waiting(k)' \subseteq Waiting(k) \cup {RetryCopy(job[w])}
      /\ k # m => Waiting(k)' \subseteq Waiting(k)
  BY <1>1, <1>2, <1>3 DEF Waiting
<1>5. Runs(k)' \subseteq Runs(k)
  BY <1>1 DEF Runs, MaySend, IndInv, TypeOK
<1>6. /\ Cardinality(Waiting(k)) \in Nat /\ Cardinality(Runs(k)) \in Nat
      /\ waSends[k] \in Nat /\ doubts[k] \in Nat /\ BudgetOf(k)
      /\ IsFiniteSet(Waiting(k)) /\ IsFiniteSet(Runs(k)) /\ Ask(k) \in Nat /\ Ask(k)' = Ask(k)
  BY <1>1, CountedFinite DEF JobInv, JobTypeOK, Budget, Ask
<1>7. CASE k # m
  <2>1. doubts'[k] = doubts[k]
    BY <1>2, <1>7 DEF RetryInDoubt, Doubt, jobVars, JobInv, JobTypeOK
  <2> QED BY <1>1, <1>4, <1>5, <1>6, <1>7, <2>1, Quiet
<1>8. CASE k = m
  <2>1. /\ Cardinality(Waiting(k)') \in Nat
        /\ Cardinality(Waiting(k)') <= Cardinality(Waiting(k)) + 1
    BY <1>4, <1>6, OneMore
  <2>2. ASSUME PublishStored(w), UNCHANGED jobVars PROVE BudgetOf(k)'
    <3>1. Runs(k)' \subseteq Runs(k) \ {w}
      BY <1>1, <1>5, <2>2 DEF PublishStored, Runs, MaySend, IndInv, TypeOK
    <3>2. Cardinality(Runs(k)') \in Nat /\ Cardinality(Runs(k)') + 1 <= Cardinality(Runs(k))
      BY <1>2, <1>6, <1>8, <3>1, OneLess
    <3> QED BY <1>1, <1>6, <2>1, <2>2, <3>2 DEF BudgetOf, jobVars
  <2>3. ASSUME RetryInDoubt(w) PROVE BudgetOf(k)'
    <3>1. doubts'[k] = doubts[k] + 1
      BY <1>8, <2>3 DEF RetryInDoubt, Doubt, JobInv, JobTypeOK
    <3>2. Cardinality(Runs(k)') \in Nat /\ Cardinality(Runs(k)') <= Cardinality(Runs(k))
      BY <1>5, <1>6, NoMore
    <3> QED BY <1>1, <1>6, <2>1, <3>1, <3>2 DEF BudgetOf
  <2> QED BY <2>2, <2>3
<1> QED BY <1>7, <1>8

\* A delivery that is handed back waits again in place of its worker.
LEMMA RequeueWithinBudget ==
  ASSUME IndInv, JobInv, JobTypeOK', NEW k \in Msgs, NEW w \in AllWorkers,
         Requeue(w), UNCHANGED jobVars
  PROVE  BudgetOf(k)'
<1> DEFINE m == job[w].msg
<1>1. /\ UNCHANGED <<broker, live, req, step, waSends, doubts>> /\ pc[w] = "requeue"
      /\ pc' = [pc EXCEPT ![w] = "idle"] /\ job' = [job EXCEPT ![w] = NoCopy]
  BY DEF Requeue, Finish, jobVars
<1>2. m \in Msgs /\ w \in Runs(m)
  BY <1>1, HeldMessage DEF Busy, Runs, MaySend
<1>3. Waiting(k)' \subseteq Waiting(k) \cup {job[w]} /\ (k # m => Waiting(k)' \subseteq Waiting(k))
  <2>1. ASSUME NEW c \in Waiting(k)', c # job[w] PROVE c \in Waiting(k)
    <3>1. c \in broker /\ c.msg = k /\ c.at # "dlq" /\ ~ Unacked(c)'
      BY <1>1, <2>1 DEF Waiting
    <3>2. ~ Unacked(c)
      BY <1>1, <2>1, <3>1 DEF Unacked, Busy, IndInv, TypeOK, Delivery, UniqueIds, HeldStored
    <3> QED BY <3>1, <3>2 DEF Waiting
  <2>2. k # m => job[w] \notin Waiting(k)'
    BY DEF Waiting
  <2> QED BY <2>1, <2>2
<1>4. Runs(k)' \subseteq Runs(k) \ {w}
  BY <1>1 DEF Runs, MaySend, IndInv, TypeOK, JobInv, JobTypeOK
<1>5. /\ Cardinality(Waiting(k)) \in Nat /\ Cardinality(Runs(k)) \in Nat
      /\ waSends[k] \in Nat /\ doubts[k] \in Nat /\ BudgetOf(k)
      /\ IsFiniteSet(Waiting(k)) /\ IsFiniteSet(Runs(k)) /\ Ask(k) \in Nat /\ Ask(k)' = Ask(k)
  BY <1>1, CountedFinite DEF JobInv, JobTypeOK, Budget, Ask
<1>6. CASE k # m
  BY <1>1, <1>3, <1>4, <1>5, <1>6, Quiet
<1>7. CASE k = m
  <2>1. /\ Cardinality(Waiting(k)') \in Nat
        /\ Cardinality(Waiting(k)') <= Cardinality(Waiting(k)) + 1
    BY <1>3, <1>5, OneMore
  <2>2. Cardinality(Runs(k)') \in Nat /\ Cardinality(Runs(k)') + 1 <= Cardinality(Runs(k))
    BY <1>2, <1>4, <1>5, <1>7, OneLess
  <2> QED BY <1>1, <1>5, <2>1, <2>2 DEF BudgetOf
<1> QED BY <1>6, <1>7

\* A retry whose delay is over waits in the main queue instead.
LEMMA ExpireWithinBudget ==
  ASSUME IndInv, JobInv, JobTypeOK', NEW k \in Msgs, NEW c \in broker,
         Expire(c), UNCHANGED jobVars
  PROVE  BudgetOf(k)'
<1> DEFINE d == Moved(c, "main")
<1>1. /\ UNCHANGED <<pc, job, live, req, step, waSends, doubts>> /\ c.at = "retry"
      /\ broker' = (broker \ {c}) \cup {d} /\ d.msg = c.msg
  BY DEF Expire, jobVars, Moved
<1>2. Runs(k)' = Runs(k) /\ \A e : Unacked(e)' <=> Unacked(e)
  BY <1>1 DEF Runs, MaySend, Unacked
<1>3. ~ Unacked(c)
  BY <1>1 DEF Unacked, IndInv, TypeOK, Delivery, UniqueIds, HeldStored, Home
<1>4. /\ Waiting(k)' \subseteq (Waiting(k) \ {c}) \cup {d}
      /\ k # c.msg => Waiting(k)' \subseteq Waiting(k)
  BY <1>1, <1>2 DEF Waiting
<1>5. /\ Cardinality(Waiting(k)) \in Nat /\ Cardinality(Runs(k)) \in Nat
      /\ waSends[k] \in Nat /\ doubts[k] \in Nat /\ BudgetOf(k)
      /\ IsFiniteSet(Waiting(k)) /\ Ask(k) \in Nat /\ Ask(k)' = Ask(k)
  BY <1>1, CountedFinite DEF JobInv, JobTypeOK, Budget, Ask
<1>6. CASE k # c.msg
  BY <1>1, <1>2, <1>4, <1>5, <1>6, Quiet
<1>7. CASE k = c.msg
  <2>1. c \in Waiting(k)
    BY <1>1, <1>3, <1>7 DEF Waiting
  <2>2. /\ IsFiniteSet(Waiting(k) \ {c}) /\ Cardinality(Waiting(k) \ {c}) \in Nat
        /\ Cardinality(Waiting(k) \ {c}) + 1 <= Cardinality(Waiting(k))
    BY <1>5, <2>1, OneLess
  <2>3. /\ Cardinality(Waiting(k)') \in Nat
        /\ Cardinality(Waiting(k)') <= Cardinality(Waiting(k) \ {c}) + 1
    BY <1>4, <2>2, OneMore
  <2> QED BY <1>1, <1>2, <1>5, <2>2, <2>3 DEF BudgetOf
<1> QED BY <1>6, <1>7

\* Every delivery that a lost connection or a dead process hands out again is a
\* doubt; the goroutine that was processing it may run on.
LEMMA RedeliveryWithinBudget ==
  ASSUME IndInv, JobInv, JobTypeOK', NEW k \in Msgs, JobsConnectionLost \/ JobsProcessEnds
  PROVE  BudgetOf(k)'
<1> DEFINE U == {c \in broker : c.msg = k /\ Unacked(c)}
<1>1. UNCHANGED <<broker, waSends>> /\ RedeliverDoubts
  BY DEF JobsConnectionLost, ConnectionLost, JobsProcessEnds, Drained, Killed, NewProcess
<1>2. Runs(k)' \subseteq Runs(k)
  BY DEF JobsConnectionLost, ConnectionLost, JobsProcessEnds, Drained, Killed, NewProcess,
     Runs, MaySend
<1>3. Waiting(k)' \subseteq Waiting(k) \cup U
  BY <1>1 DEF Waiting
<1>4. U \subseteq broker /\ IsFiniteSet(broker)
  BY DEF JobInv, Finite
<1>5. IsFiniteSet(U) /\ Cardinality(U) \in Nat
  BY <1>4, NoMore
<1>6. /\ Cardinality(Waiting(k)) \in Nat /\ Cardinality(Runs(k)) \in Nat
      /\ waSends[k] \in Nat /\ doubts[k] \in Nat /\ BudgetOf(k)
      /\ IsFiniteSet(Waiting(k)) /\ IsFiniteSet(Runs(k))
  BY CountedFinite DEF JobInv, JobTypeOK, Budget
<1>7. Ask(k) \in Nat /\ Ask(k)' \in Nat /\ Ask(k)' <= Ask(k)
  BY DEF Ask, JobsConnectionLost, JobsProcessEnds, RequestEnds, JobInv, JobTypeOK
<1>8. doubts'[k] = doubts[k] + Cardinality(U)
  BY <1>1 DEF RedeliverDoubts
<1>9. /\ Cardinality(Waiting(k)') \in Nat /\ Cardinality(Runs(k)') \in Nat
      /\ Cardinality(Waiting(k)') <= Cardinality(Waiting(k)) + Cardinality(U)
      /\ Cardinality(Runs(k)') <= Cardinality(Runs(k))
  BY <1>2, <1>3, <1>5, <1>6, Together, NoMore
<1> HIDE DEF U
<1> QED BY <1>1, <1>5, <1>6, <1>7, <1>8, <1>9 DEF BudgetOf

\* Whatever happens, what may still send a job was paid for.
LEMMA BudgetInductive ==
  IndInv /\ JobInv /\ JobTypeOK' /\ [JobNext]_allVars => Budget'
<1> SUFFICES ASSUME IndInv, JobInv, JobTypeOK', [JobNext]_allVars, NEW k \in Msgs
             PROVE  BudgetOf(k)'
  BY DEF Budget
<1>1. ASSUME NEW m \in Msgs, RequestStep(m) PROVE BudgetOf(k)'
  BY <1>1, RequestWithinBudget, EnqueueWithinBudget, DirectSendWithinBudget DEF RequestStep
<1>2. ASSUME NEW w \in AllWorkers, HandlerStep(w) PROVE BudgetOf(k)'
  BY <1>2, HandlerWithinBudget, TakeWithinBudget, SendWithinBudget DEF HandlerStep
<1>3. ASSUME NEW w \in AllWorkers, QueueStep(w) PROVE BudgetOf(k)'
  BY <1>3, QueueWithinBudget, RetryWithinBudget, RequeueWithinBudget DEF QueueStep
<1>4. ASSUME NEW w \in AllWorkers, RetryInDoubt(w) PROVE BudgetOf(k)'
  BY <1>4, RetryWithinBudget
<1>5. ASSUME NEW c \in broker, Expire(c), UNCHANGED jobVars PROVE BudgetOf(k)'
  BY <1>5, ExpireWithinBudget
<1>6. CASE (StartWorkers \/ Shutdown) /\ UNCHANGED jobVars
  BY <1>6, LifeCycleWithinBudget
<1>7. CASE JobsConnectionLost \/ JobsProcessEnds
  BY <1>7, RedeliveryWithinBudget
<1>8. CASE UNCHANGED allVars
  BY <1>8, LifeCycleWithinBudget DEF allVars
<1> QED BY <1>1, <1>2, <1>3, <1>4, <1>5, <1>6, <1>7, <1>8 DEF JobNext

\* A step stores at most one new copy and gives at most one worker something to
\* send, so there are never infinitely many.
LEMMA FiniteInductive == IndInv /\ JobInv /\ [JobNext]_allVars => Finite'
<1> SUFFICES ASSUME IndInv, JobInv, [JobNext]_allVars PROVE Finite'
  OBVIOUS
<1> DEFINE B == {w \in AllWorkers : MaySend(w)}
<1>1. \E c : broker' \subseteq broker \cup {c}
  <2>1. [Next]_vars
    BY JobStepIsQueueStep
  <2>2. CASE UNCHANGED vars \/ StartWorkers \/ ConnectionLost \/ Shutdown \/ Drained \/ Killed
    BY <2>2 DEF vars, StartWorkers, ConnectionLost, Shutdown, Drained, Killed, NewProcess
  <2>3. CASE \E m \in Msgs : Publish(m)
    BY <2>3 DEF Publish
  <2>4. CASE \E c \in broker : Expire(c)
    BY <2>4 DEF Expire
  <2>5. ASSUME NEW w \in AllWorkers, WorkerStep(w) PROVE \E c : broker' \subseteq broker \cup {c}
    <3>1. CASE PublishStored(w) \/ PublishUnconfirmed(w)
      BY <3>1 DEF PublishStored, PublishUnconfirmed
    <3>2. CASE Ack(w) \/ Reject(w)
      BY <3>2 DEF Ack, Reject, DeadLetter
    <3>3. CASE broker' = broker
      BY <3>3
    <3> QED BY <2>5, <3>1, <3>2, <3>3 DEF WorkerStep, Take, HandlerOk, HandlerErr,
          HandlerPanic, PublishLost, PublishFailed, Requeue, WorkerExit
  <2> QED BY <2>1, <2>2, <2>3, <2>4, <2>5 DEF Next
<1>2. \E w : B' \subseteq B \cup {w}
  <2>1. CASE \A w \in AllWorkers : (pc'[w] = pc[w] /\ step'[w] = step[w]) \/ pc'[w] \in {"off", "idle"}
    BY <2>1 DEF MaySend
  <2>2. ASSUME NEW w \in AllWorkers,
               \A v \in AllWorkers \ {w} : pc'[v] = pc[v] /\ step'[v] = step[v]
        PROVE  B' \subseteq B \cup {w}
    BY <2>2 DEF MaySend
  <2>3. ASSUME NEW w \in AllWorkers, HandlerStep(w) \/ QueueStep(w) \/ RetryInDoubt(w)
        PROVE  \A v \in AllWorkers \ {w} : pc'[v] = pc[v] /\ step'[v] = step[v]
    <3>1. CASE HandlerStep(w)
      BY <3>1 DEF HandlerStep, TakeJob, CheckDuplicate, Paced, MarkProcessing, Send, RecordSent,
         MarkProcessed, RecordFailed, StatusHook, Notify, Handler, Take, HandlerOk, HandlerErr,
         HandlerPanic, queue, vars, IndInv, TypeOK, JobInv, JobTypeOK
    <3>2. CASE QueueStep(w) \/ RetryInDoubt(w)
      BY <3>2 DEF QueueStep, RetryInDoubt, PublishStored, PublishUnconfirmed, PublishLost,
         PublishFailed, Ack, Requeue, Reject, Finish, WorkerExit, jobVars, IndInv, TypeOK
    <3> QED BY <2>3, <3>1, <3>2
  <2>4. CASE StartWorkers /\ UNCHANGED jobVars
    BY <2>1, <2>4 DEF StartWorkers, jobVars
  <2>5. CASE JobsProcessEnds
    BY <2>1, <2>5 DEF JobsProcessEnds, Drained, Killed, NewProcess
  <2>6. CASE UNCHANGED <<pc, step>>
    BY <2>1, <2>6
  <2>7. ASSUME NEW m \in Msgs, RequestStep(m) PROVE UNCHANGED <<pc, step>>
    BY <2>7 DEF RequestStep, Enqueue, EnqueueUnconfirmed, EnqueueLost, NotEnqueued, CreateRow,
       QueuedHook, DirectPaced, DirectSend, DirectHook, Publish, queue, vars
  <2>8. ASSUME \/ (\E c \in broker : Expire(c)) /\ UNCHANGED jobVars
               \/ Shutdown /\ UNCHANGED jobVars
               \/ JobsConnectionLost \/ UNCHANGED allVars
        PROVE  UNCHANGED <<pc, step>>
    BY <2>8 DEF Expire, Shutdown, JobsConnectionLost, ConnectionLost, jobVars, allVars, vars
  <2> QED BY <2>2, <2>3, <2>4, <2>5, <2>6, <2>7, <2>8 DEF JobNext
<1>3. IsFiniteSet(broker) /\ IsFiniteSet(B)
  BY DEF JobInv, Finite
<1> QED BY <1>1, <1>2, <1>3, OneMore DEF Finite

\* Every step keeps the types of the job's variables.
LEMMA JobTypeInductive ==
  IndInv /\ JobInv /\ [JobNext]_allVars => JobTypeOK'
<1> SUFFICES ASSUME IndInv, JobInv, [JobNext]_allVars PROVE JobTypeOK'
  OBVIOUS
<1> USE DEF IndInv, TypeOK, JobInv, JobTypeOK, HandlerOfHome, RequestEnds, Steps,
     Statuses, Busy, jobVars, queue, vars, history
<1>1. ASSUME NEW m \in Msgs, Enqueue(m) PROVE JobTypeOK'
  BY <1>1 DEF Enqueue, Request, Publish
<1>2. ASSUME NEW m \in Msgs, EnqueueUnconfirmed(m) PROVE JobTypeOK'
  BY <1>2 DEF EnqueueUnconfirmed, Request, Publish, Doubt
<1>3. ASSUME NEW m \in Msgs, EnqueueLost(m) \/ NotEnqueued(m) PROVE JobTypeOK'
  BY <1>3 DEF EnqueueLost, NotEnqueued, Request
<1>4. ASSUME NEW m \in Msgs, CreateRow(m) PROVE JobTypeOK'
  BY <1>4 DEF CreateRow, Request
<1>5. ASSUME NEW m \in Msgs, QueuedHook(m) PROVE JobTypeOK'
  BY <1>5 DEF QueuedHook, Request, Tell
<1>6. ASSUME NEW m \in Msgs, DirectPaced(m) PROVE JobTypeOK'
  BY <1>6 DEF DirectPaced, Request
<1>7. ASSUME NEW m \in Msgs, DirectSend(m) PROVE JobTypeOK'
  BY <1>7 DEF DirectSend, Request, SendReaches, Doubt
<1>8. ASSUME NEW m \in Msgs, DirectHook(m) PROVE JobTypeOK'
  BY <1>8 DEF DirectHook, Request, Tell
<1>9. ASSUME NEW w \in AllWorkers, TakeJob(w) PROVE JobTypeOK'
  BY <1>9 DEF TakeJob, Handler, Take
<1>10. ASSUME NEW w \in AllWorkers, CheckDuplicate(w) PROVE JobTypeOK'
  BY <1>10 DEF CheckDuplicate, Handler, HandlerOk
<1>11. ASSUME NEW w \in AllWorkers, Paced(w) PROVE JobTypeOK'
  BY <1>11 DEF Paced, Handler, HandlerErr, AfterError
<1>12. ASSUME NEW w \in AllWorkers, MarkProcessing(w) PROVE JobTypeOK'
  BY <1>12 DEF MarkProcessing, Handler, UpdateStatus
<1>13. ASSUME NEW w \in AllWorkers, Send(w) PROVE JobTypeOK'
  BY <1>13 DEF Send, Handler, SendReaches, Doubt
<1>14. ASSUME NEW w \in AllWorkers, RecordSent(w) PROVE JobTypeOK'
  BY <1>14 DEF RecordSent, Handler, UpdateStatus
<1>15. ASSUME NEW w \in AllWorkers, MarkProcessed(w) PROVE JobTypeOK'
  BY <1>15, HeldMessage DEF MarkProcessed, Handler
<1>16. ASSUME NEW w \in AllWorkers, RecordFailed(w) PROVE JobTypeOK'
  BY <1>16 DEF RecordFailed, Handler, UpdateStatus
<1>17. ASSUME NEW w \in AllWorkers, StatusHook(w) PROVE JobTypeOK'
  BY <1>17 DEF StatusHook, Handler, HandlerOk, HandlerErr, HandlerPanic, AfterError,
     Tell
<1>18. ASSUME NEW w \in AllWorkers, Notify(w) PROVE JobTypeOK'
  <2>1. job[w].msg \in Msgs /\ pc[w] = "handle"
    BY <1>18, HeldMessage DEF Notify, HandlerOk, HandlerPanic
  <2>2. told' \in [Msgs -> SUBSET {"queued", "sent", "failed"}] /\ mute' \subseteq Msgs
    BY <1>18, <2>1 DEF Notify
  <2>3. step' = [step EXCEPT ![w] = "none"] /\ pc' \in {[pc EXCEPT ![w] = "ack"], [pc EXCEPT ![w] = "reject"]}
    BY <1>18 DEF Notify, Handler, HandlerOk, HandlerPanic
  <2> QED BY <1>18, <2>2, <2>3 DEF Notify
<1>19. ASSUME NEW w \in AllWorkers, PublishStored(w), UNCHANGED jobVars PROVE JobTypeOK'
  BY <1>19 DEF PublishStored
<1>20. ASSUME NEW w \in AllWorkers, PublishLost(w), UNCHANGED jobVars PROVE JobTypeOK'
  BY <1>20 DEF PublishLost
<1>21. ASSUME NEW w \in AllWorkers, PublishFailed(w), UNCHANGED jobVars PROVE JobTypeOK'
  BY <1>21 DEF PublishFailed
<1>22. ASSUME NEW w \in AllWorkers, Ack(w), UNCHANGED jobVars PROVE JobTypeOK'
  BY <1>22 DEF Ack, Finish
<1>23. ASSUME NEW w \in AllWorkers, Requeue(w), UNCHANGED jobVars PROVE JobTypeOK'
  BY <1>23 DEF Requeue, Finish
<1>24. ASSUME NEW w \in AllWorkers, Reject(w), UNCHANGED jobVars PROVE JobTypeOK'
  BY <1>24 DEF Reject, Finish
<1>25. ASSUME NEW w \in AllWorkers, WorkerExit(w), UNCHANGED jobVars PROVE JobTypeOK'
  BY <1>25 DEF WorkerExit
<1>26. ASSUME NEW w \in AllWorkers, RetryInDoubt(w) PROVE JobTypeOK'
  <2>1. job[w].msg \in Msgs /\ pc[w] = "publish"
    BY <1>26, HeldMessage DEF RetryInDoubt, PublishUnconfirmed
  <2>2. doubts' \in [Msgs -> Nat]
    BY <1>26, <2>1 DEF RetryInDoubt, Doubt
  <2> QED BY <1>26, <2>1, <2>2 DEF RetryInDoubt, PublishUnconfirmed
<1>27. ASSUME NEW c \in broker, Expire(c), UNCHANGED jobVars PROVE JobTypeOK'
  BY <1>27 DEF Expire
<1>28. CASE StartWorkers /\ UNCHANGED jobVars
  BY <1>28 DEF StartWorkers
<1>29. CASE Shutdown /\ UNCHANGED jobVars
  BY <1>29 DEF Shutdown
<1>30. CASE JobsConnectionLost
  <2>1. doubts' \in [Msgs -> Nat]
    BY <1>30, RedeliverCounts DEF JobsConnectionLost
  <2> QED BY <1>30, <2>1 DEF JobsConnectionLost, ConnectionLost
<1>31. CASE JobsProcessEnds
  <2>1. doubts' \in [Msgs -> Nat]
    BY <1>31, RedeliverCounts DEF JobsProcessEnds
  <2>2. NewProcess
    BY <1>31 DEF JobsProcessEnds, Drained, Killed
  <2> QED BY <1>31, <2>1, <2>2 DEF JobsProcessEnds, NewProcess
<1>32. CASE UNCHANGED allVars
  BY <1>32 DEF allVars
<1> HIDE DEF IndInv, TypeOK, JobInv, JobTypeOK, HandlerOfHome, RequestEnds, Steps,
     Statuses, Busy, jobVars, queue, vars, history
<1> QED BY <1>1, <1>2, <1>3, <1>4, <1>5, <1>6, <1>7, <1>8, <1>9, <1>10, <1>11,
     <1>12, <1>13, <1>14, <1>15, <1>16, <1>17, <1>18, <1>19, <1>20, <1>21, <1>22,
     <1>23, <1>24, <1>25, <1>26, <1>27, <1>28, <1>29, <1>30, <1>31, <1>32 DEF
     JobNext, RequestStep, HandlerStep, QueueStep

\* No step gives a worker the other queue's handler.
LEMMA HandlerOfHomeInductive ==
  IndInv /\ JobInv /\ [JobNext]_allVars => HandlerOfHome'
<1> SUFFICES ASSUME IndInv, JobInv, [JobNext]_allVars PROVE HandlerOfHome'
  OBVIOUS
<1> USE DEF IndInv, TypeOK, JobInv, JobTypeOK, HandlerOfHome, Home, Steps, jobVars,
     queue, vars, history
<1>1. ASSUME NEW m \in Msgs, Enqueue(m) PROVE HandlerOfHome'
  BY <1>1 DEF Enqueue, Request, Publish
<1>2. ASSUME NEW m \in Msgs, EnqueueUnconfirmed(m) PROVE HandlerOfHome'
  BY <1>2 DEF EnqueueUnconfirmed, Request, Publish, Doubt
<1>3. ASSUME NEW m \in Msgs, EnqueueLost(m) \/ NotEnqueued(m) PROVE HandlerOfHome'
  BY <1>3 DEF EnqueueLost, NotEnqueued, Request
<1>4. ASSUME NEW m \in Msgs, CreateRow(m) PROVE HandlerOfHome'
  BY <1>4 DEF CreateRow, Request
<1>5. ASSUME NEW m \in Msgs, QueuedHook(m) PROVE HandlerOfHome'
  BY <1>5 DEF QueuedHook, Request, Tell
<1>6. ASSUME NEW m \in Msgs, DirectPaced(m) PROVE HandlerOfHome'
  BY <1>6 DEF DirectPaced, Request
<1>7. ASSUME NEW m \in Msgs, DirectSend(m) PROVE HandlerOfHome'
  BY <1>7 DEF DirectSend, Request, SendReaches, Doubt
<1>8. ASSUME NEW m \in Msgs, DirectHook(m) PROVE HandlerOfHome'
  BY <1>8 DEF DirectHook, Request, Tell
<1>9. ASSUME NEW w \in AllWorkers, TakeJob(w) PROVE HandlerOfHome'
  BY <1>9 DEF TakeJob, Handler, Take
<1>10. ASSUME NEW w \in AllWorkers, CheckDuplicate(w) PROVE HandlerOfHome'
  BY <1>10 DEF CheckDuplicate, Handler, HandlerOk
<1>11. ASSUME NEW w \in AllWorkers, Paced(w) PROVE HandlerOfHome'
  BY <1>11 DEF Paced, Handler, HandlerErr, AfterError
<1>12. ASSUME NEW w \in AllWorkers, MarkProcessing(w) PROVE HandlerOfHome'
  BY <1>12 DEF MarkProcessing, Handler, UpdateStatus
<1>13. ASSUME NEW w \in AllWorkers, Send(w) PROVE HandlerOfHome'
  BY <1>13 DEF Send, Handler, SendReaches, Doubt
<1>14. ASSUME NEW w \in AllWorkers, RecordSent(w) PROVE HandlerOfHome'
  BY <1>14 DEF RecordSent, Handler, UpdateStatus
<1>15. ASSUME NEW w \in AllWorkers, MarkProcessed(w) PROVE HandlerOfHome'
  BY <1>15 DEF MarkProcessed, Handler
<1>16. ASSUME NEW w \in AllWorkers, RecordFailed(w) PROVE HandlerOfHome'
  BY <1>16 DEF RecordFailed, Handler, UpdateStatus
<1>17. ASSUME NEW w \in AllWorkers, StatusHook(w) PROVE HandlerOfHome'
  BY <1>17 DEF StatusHook, Handler, HandlerOk, HandlerErr, HandlerPanic, AfterError,
     Tell
<1>18. ASSUME NEW w \in AllWorkers, Notify(w) PROVE HandlerOfHome'
  BY <1>18 DEF Notify, Handler, HandlerOk, HandlerPanic
<1>19. ASSUME NEW w \in AllWorkers, PublishStored(w), UNCHANGED jobVars PROVE HandlerOfHome'
  BY <1>19 DEF PublishStored
<1>20. ASSUME NEW w \in AllWorkers, PublishLost(w), UNCHANGED jobVars PROVE HandlerOfHome'
  BY <1>20 DEF PublishLost
<1>21. ASSUME NEW w \in AllWorkers, PublishFailed(w), UNCHANGED jobVars PROVE HandlerOfHome'
  BY <1>21 DEF PublishFailed
<1>22. ASSUME NEW w \in AllWorkers, Ack(w), UNCHANGED jobVars PROVE HandlerOfHome'
  BY <1>22 DEF Ack, Finish
<1>23. ASSUME NEW w \in AllWorkers, Requeue(w), UNCHANGED jobVars PROVE HandlerOfHome'
  BY <1>23 DEF Requeue, Finish
<1>24. ASSUME NEW w \in AllWorkers, Reject(w), UNCHANGED jobVars PROVE HandlerOfHome'
  BY <1>24 DEF Reject, Finish
<1>25. ASSUME NEW w \in AllWorkers, WorkerExit(w), UNCHANGED jobVars PROVE HandlerOfHome'
  BY <1>25 DEF WorkerExit
<1>26. ASSUME NEW w \in AllWorkers, RetryInDoubt(w) PROVE HandlerOfHome'
  BY <1>26 DEF RetryInDoubt, PublishUnconfirmed, Doubt
<1>27. ASSUME NEW c \in broker, Expire(c), UNCHANGED jobVars PROVE HandlerOfHome'
  BY <1>27 DEF Expire
<1>28. CASE StartWorkers /\ UNCHANGED jobVars
  BY <1>28 DEF StartWorkers
<1>29. CASE Shutdown /\ UNCHANGED jobVars
  BY <1>29 DEF Shutdown
<1>30. CASE JobsConnectionLost
  BY <1>30 DEF JobsConnectionLost, ConnectionLost
<1>31. CASE JobsProcessEnds
  BY <1>31 DEF JobsProcessEnds, Drained, Killed, NewProcess
<1>32. CASE UNCHANGED allVars
  BY <1>32 DEF allVars
<1> HIDE DEF IndInv, TypeOK, JobInv, JobTypeOK, HandlerOfHome, Home, Steps, jobVars,
     queue, vars, history
<1> QED BY <1>1, <1>2, <1>3, <1>4, <1>5, <1>6, <1>7, <1>8, <1>9, <1>10, <1>11,
     <1>12, <1>13, <1>14, <1>15, <1>16, <1>17, <1>18, <1>19, <1>20, <1>21, <1>22,
     <1>23, <1>24, <1>25, <1>26, <1>27, <1>28, <1>29, <1>30, <1>31, <1>32 DEF
     JobNext, RequestStep, HandlerStep, QueueStep

\* No step takes back what a request stands for.
LEMMA RequestIsTrueInductive ==
  IndInv /\ JobInv /\ [JobNext]_allVars => RequestIsTrue'
<1> SUFFICES ASSUME IndInv, JobInv, [JobNext]_allVars PROVE RequestIsTrue'
  OBVIOUS
<1> USE DEF IndInv, TypeOK, JobInv, JobTypeOK, RequestIsTrue, RequestEnds, Statuses,
     jobVars, queue, vars, history
<1>1. ASSUME NEW m \in Msgs, Enqueue(m) PROVE RequestIsTrue'
  BY <1>1 DEF Enqueue, Request, Publish
<1>2. ASSUME NEW m \in Msgs, EnqueueUnconfirmed(m) PROVE RequestIsTrue'
  BY <1>2 DEF EnqueueUnconfirmed, Request, Publish, Doubt
<1>3. ASSUME NEW m \in Msgs, EnqueueLost(m) \/ NotEnqueued(m) PROVE RequestIsTrue'
  BY <1>3 DEF EnqueueLost, NotEnqueued, Request
<1>4. ASSUME NEW m \in Msgs, CreateRow(m) PROVE RequestIsTrue'
  BY <1>4 DEF CreateRow, Request
<1>5. ASSUME NEW m \in Msgs, QueuedHook(m) PROVE RequestIsTrue'
  BY <1>5 DEF QueuedHook, Request, Tell
<1>6. ASSUME NEW m \in Msgs, DirectPaced(m) PROVE RequestIsTrue'
  BY <1>6 DEF DirectPaced, Request
<1>7. ASSUME NEW m \in Msgs, DirectSend(m) PROVE RequestIsTrue'
  BY <1>7 DEF DirectSend, Request, SendReaches, Doubt
<1>8. ASSUME NEW m \in Msgs, DirectHook(m) PROVE RequestIsTrue'
  BY <1>8 DEF DirectHook, Request, Tell
<1>9. ASSUME NEW w \in AllWorkers, TakeJob(w) PROVE RequestIsTrue'
  BY <1>9 DEF TakeJob, Handler, Take
<1>10. ASSUME NEW w \in AllWorkers, CheckDuplicate(w) PROVE RequestIsTrue'
  BY <1>10 DEF CheckDuplicate, Handler, HandlerOk
<1>11. ASSUME NEW w \in AllWorkers, Paced(w) PROVE RequestIsTrue'
  BY <1>11 DEF Paced, Handler, HandlerErr, AfterError
<1>12. ASSUME NEW w \in AllWorkers, MarkProcessing(w) PROVE RequestIsTrue'
  BY <1>12 DEF MarkProcessing, Handler, UpdateStatus
<1>13. ASSUME NEW w \in AllWorkers, Send(w) PROVE RequestIsTrue'
  BY <1>13 DEF Send, Handler, SendReaches, Doubt
<1>14. ASSUME NEW w \in AllWorkers, RecordSent(w) PROVE RequestIsTrue'
  BY <1>14 DEF RecordSent, Handler, UpdateStatus
<1>15. ASSUME NEW w \in AllWorkers, MarkProcessed(w) PROVE RequestIsTrue'
  BY <1>15 DEF MarkProcessed, Handler
<1>16. ASSUME NEW w \in AllWorkers, RecordFailed(w) PROVE RequestIsTrue'
  BY <1>16 DEF RecordFailed, Handler, UpdateStatus
<1>17. ASSUME NEW w \in AllWorkers, StatusHook(w) PROVE RequestIsTrue'
  BY <1>17 DEF StatusHook, Handler, HandlerOk, HandlerErr, HandlerPanic, AfterError,
     Tell
<1>18. ASSUME NEW w \in AllWorkers, Notify(w) PROVE RequestIsTrue'
  BY <1>18 DEF Notify, Handler, HandlerOk, HandlerPanic
<1>19. ASSUME NEW w \in AllWorkers, PublishStored(w), UNCHANGED jobVars PROVE RequestIsTrue'
  BY <1>19 DEF PublishStored
<1>20. ASSUME NEW w \in AllWorkers, PublishLost(w), UNCHANGED jobVars PROVE RequestIsTrue'
  BY <1>20 DEF PublishLost
<1>21. ASSUME NEW w \in AllWorkers, PublishFailed(w), UNCHANGED jobVars PROVE RequestIsTrue'
  BY <1>21 DEF PublishFailed
<1>22. ASSUME NEW w \in AllWorkers, Ack(w), UNCHANGED jobVars PROVE RequestIsTrue'
  BY <1>22 DEF Ack, Finish
<1>23. ASSUME NEW w \in AllWorkers, Requeue(w), UNCHANGED jobVars PROVE RequestIsTrue'
  BY <1>23 DEF Requeue, Finish
<1>24. ASSUME NEW w \in AllWorkers, Reject(w), UNCHANGED jobVars PROVE RequestIsTrue'
  BY <1>24 DEF Reject, Finish
<1>25. ASSUME NEW w \in AllWorkers, WorkerExit(w), UNCHANGED jobVars PROVE RequestIsTrue'
  BY <1>25 DEF WorkerExit
<1>26. ASSUME NEW w \in AllWorkers, RetryInDoubt(w) PROVE RequestIsTrue'
  BY <1>26 DEF RetryInDoubt, PublishUnconfirmed, Doubt
<1>27. ASSUME NEW c \in broker, Expire(c), UNCHANGED jobVars PROVE RequestIsTrue'
  BY <1>27 DEF Expire
<1>28. CASE StartWorkers /\ UNCHANGED jobVars
  BY <1>28 DEF StartWorkers
<1>29. CASE Shutdown /\ UNCHANGED jobVars
  BY <1>29 DEF Shutdown
<1>30. CASE JobsConnectionLost
  BY <1>30 DEF JobsConnectionLost, ConnectionLost
<1>31. CASE JobsProcessEnds
  BY <1>31 DEF JobsProcessEnds, Drained, Killed, NewProcess
<1>32. CASE UNCHANGED allVars
  BY <1>32 DEF allVars
<1> HIDE DEF IndInv, TypeOK, JobInv, JobTypeOK, RequestIsTrue, RequestEnds,
     Statuses, jobVars, queue, vars, history
<1> QED BY <1>1, <1>2, <1>3, <1>4, <1>5, <1>6, <1>7, <1>8, <1>9, <1>10, <1>11,
     <1>12, <1>13, <1>14, <1>15, <1>16, <1>17, <1>18, <1>19, <1>20, <1>21, <1>22,
     <1>23, <1>24, <1>25, <1>26, <1>27, <1>28, <1>29, <1>30, <1>31, <1>32 DEF
     JobNext, RequestStep, HandlerStep, QueueStep

\* No step records a send that did not take place.
LEMMA SentIsTrueInductive ==
  IndInv /\ JobInv /\ [JobNext]_allVars => SentIsTrue'
<1> SUFFICES ASSUME IndInv, JobInv, [JobNext]_allVars PROVE SentIsTrue'
  OBVIOUS
<1> USE DEF IndInv, TypeOK, JobInv, JobTypeOK, SentIsTrue, RequestEnds, Statuses,
     Steps, Busy, jobVars, queue, vars, history
<1>1. ASSUME NEW m \in Msgs, Enqueue(m) PROVE SentIsTrue'
  BY <1>1 DEF Enqueue, Request, Publish
<1>2. ASSUME NEW m \in Msgs, EnqueueUnconfirmed(m) PROVE SentIsTrue'
  BY <1>2 DEF EnqueueUnconfirmed, Request, Publish, Doubt
<1>3. ASSUME NEW m \in Msgs, EnqueueLost(m) \/ NotEnqueued(m) PROVE SentIsTrue'
  BY <1>3 DEF EnqueueLost, NotEnqueued, Request
<1>4. ASSUME NEW m \in Msgs, CreateRow(m) PROVE SentIsTrue'
  BY <1>4 DEF CreateRow, Request
<1>5. ASSUME NEW m \in Msgs, QueuedHook(m) PROVE SentIsTrue'
  BY <1>5 DEF QueuedHook, Request, Tell
<1>6. ASSUME NEW m \in Msgs, DirectPaced(m) PROVE SentIsTrue'
  BY <1>6 DEF DirectPaced, Request
<1>7. ASSUME NEW m \in Msgs, DirectSend(m) PROVE SentIsTrue'
  <2>4. ASSUME NEW v \in AllWorkers, step[v] \in {"sentRow", "sentMark", "sentHook"}
        PROVE  job[v].msg \in Msgs /\ waSends[job[v].msg] > 0
    BY <2>4, HeldMessage
  <2>1. CASE Request(m, "send", "sentHook") /\ SendReaches(m)
    BY <1>7, <2>1, <2>4, OneSend DEF DirectSend, Request
  <2>2. CASE Request(m, "send", "failHook") /\ UNCHANGED waSends
    BY <1>7, <2>2 DEF DirectSend, Request
  <2>3. CASE Request(m, "send", "failHook") /\ SendReaches(m)
    BY <1>7, <2>3, <2>4, OneSend DEF DirectSend, Request
  <2> QED BY <1>7, <2>1, <2>2, <2>3 DEF DirectSend
<1>8. ASSUME NEW m \in Msgs, DirectHook(m) PROVE SentIsTrue'
  BY <1>8 DEF DirectHook, Request, Tell
<1>9. ASSUME NEW w \in AllWorkers, TakeJob(w) PROVE SentIsTrue'
  BY <1>9 DEF TakeJob, Handler, Take
<1>10. ASSUME NEW w \in AllWorkers, CheckDuplicate(w) PROVE SentIsTrue'
  BY <1>10 DEF CheckDuplicate, Handler, HandlerOk
<1>11. ASSUME NEW w \in AllWorkers, Paced(w) PROVE SentIsTrue'
  BY <1>11 DEF Paced, Handler, HandlerErr, AfterError
<1>12. ASSUME NEW w \in AllWorkers, MarkProcessing(w) PROVE SentIsTrue'
  BY <1>12 DEF MarkProcessing, Handler, UpdateStatus
<1>13. ASSUME NEW w \in AllWorkers, Send(w) PROVE SentIsTrue'
  <2>0. step[w] = "send" /\ job[w].msg \in Msgs
    BY <1>13, HeldMessage DEF Send, Handler
  <2>4. ASSUME NEW v \in AllWorkers, step'[v] \in {"sentRow", "sentMark", "sentHook"}, v # w
        PROVE  job[v].msg \in Msgs /\ waSends[job[v].msg] > 0
    BY <1>13, <2>4, HeldMessage DEF Send, Handler
  <2>1. CASE Handler(w, "send", "sentRow") /\ SendReaches(job[w].msg)
    BY <1>13, <2>0, <2>1, <2>4, OneSend DEF Send, Handler
  <2>2. CASE Handler(w, "send", "failRow") /\ UNCHANGED waSends
    BY <1>13, <2>2 DEF Send, Handler
  <2>3. CASE Handler(w, "send", "failRow") /\ SendReaches(job[w].msg)
    BY <1>13, <2>0, <2>3, <2>4, OneSend DEF Send, Handler
  <2> QED BY <1>13, <2>1, <2>2, <2>3 DEF Send
<1>14. ASSUME NEW w \in AllWorkers, RecordSent(w) PROVE SentIsTrue'
  BY <1>14 DEF RecordSent, Handler, UpdateStatus
<1>15. ASSUME NEW w \in AllWorkers, MarkProcessed(w) PROVE SentIsTrue'
  BY <1>15 DEF MarkProcessed, Handler
<1>16. ASSUME NEW w \in AllWorkers, RecordFailed(w) PROVE SentIsTrue'
  BY <1>16 DEF RecordFailed, Handler, UpdateStatus
<1>17. ASSUME NEW w \in AllWorkers, StatusHook(w) PROVE SentIsTrue'
  BY <1>17 DEF StatusHook, Handler, HandlerOk, HandlerErr, HandlerPanic, AfterError,
     Tell
<1>18. ASSUME NEW w \in AllWorkers, Notify(w) PROVE SentIsTrue'
  BY <1>18 DEF Notify, Handler, HandlerOk, HandlerPanic
<1>19. ASSUME NEW w \in AllWorkers, PublishStored(w), UNCHANGED jobVars PROVE SentIsTrue'
  BY <1>19 DEF PublishStored
<1>20. ASSUME NEW w \in AllWorkers, PublishLost(w), UNCHANGED jobVars PROVE SentIsTrue'
  BY <1>20 DEF PublishLost
<1>21. ASSUME NEW w \in AllWorkers, PublishFailed(w), UNCHANGED jobVars PROVE SentIsTrue'
  BY <1>21 DEF PublishFailed
<1>22. ASSUME NEW w \in AllWorkers, Ack(w), UNCHANGED jobVars PROVE SentIsTrue'
  BY <1>22 DEF Ack, Finish
<1>23. ASSUME NEW w \in AllWorkers, Requeue(w), UNCHANGED jobVars PROVE SentIsTrue'
  BY <1>23 DEF Requeue, Finish
<1>24. ASSUME NEW w \in AllWorkers, Reject(w), UNCHANGED jobVars PROVE SentIsTrue'
  BY <1>24 DEF Reject, Finish
<1>25. ASSUME NEW w \in AllWorkers, WorkerExit(w), UNCHANGED jobVars PROVE SentIsTrue'
  BY <1>25 DEF WorkerExit
<1>26. ASSUME NEW w \in AllWorkers, RetryInDoubt(w) PROVE SentIsTrue'
  BY <1>26 DEF RetryInDoubt, PublishUnconfirmed, Doubt
<1>27. ASSUME NEW c \in broker, Expire(c), UNCHANGED jobVars PROVE SentIsTrue'
  BY <1>27 DEF Expire
<1>28. CASE StartWorkers /\ UNCHANGED jobVars
  BY <1>28 DEF StartWorkers
<1>29. CASE Shutdown /\ UNCHANGED jobVars
  BY <1>29 DEF Shutdown
<1>30. CASE JobsConnectionLost
  BY <1>30 DEF JobsConnectionLost, ConnectionLost
<1>31. CASE JobsProcessEnds
  BY <1>31 DEF JobsProcessEnds, Drained, Killed, NewProcess
<1>32. CASE UNCHANGED allVars
  BY <1>32 DEF allVars
<1> HIDE DEF IndInv, TypeOK, JobInv, JobTypeOK, SentIsTrue, RequestEnds, Statuses,
     Steps, Busy, jobVars, queue, vars, history
<1> QED BY <1>1, <1>2, <1>3, <1>4, <1>5, <1>6, <1>7, <1>8, <1>9, <1>10, <1>11,
     <1>12, <1>13, <1>14, <1>15, <1>16, <1>17, <1>18, <1>19, <1>20, <1>21, <1>22,
     <1>23, <1>24, <1>25, <1>26, <1>27, <1>28, <1>29, <1>30, <1>31, <1>32 DEF
     JobNext, RequestStep, HandlerStep, QueueStep

\* No step concludes a job in silence.
LEMMA EndsAreKnownInductive ==
  IndInv /\ JobInv /\ [JobNext]_allVars => EndsAreKnown'
<1> SUFFICES ASSUME IndInv, JobInv, [JobNext]_allVars PROVE EndsAreKnown'
  OBVIOUS
<1> USE DEF IndInv, TypeOK, JobInv, JobTypeOK, HandlerOfHome, SentIsTrue,
     EndsAreKnown, Concluded, Steps, Busy, jobVars, queue, vars, history
<1>1. ASSUME NEW m \in Msgs, Enqueue(m) PROVE EndsAreKnown'
  BY <1>1 DEF Enqueue, Request, Publish
<1>2. ASSUME NEW m \in Msgs, EnqueueUnconfirmed(m) PROVE EndsAreKnown'
  BY <1>2 DEF EnqueueUnconfirmed, Request, Publish, Doubt
<1>3. ASSUME NEW m \in Msgs, EnqueueLost(m) \/ NotEnqueued(m) PROVE EndsAreKnown'
  BY <1>3 DEF EnqueueLost, NotEnqueued, Request
<1>4. ASSUME NEW m \in Msgs, CreateRow(m) PROVE EndsAreKnown'
  BY <1>4 DEF CreateRow, Request
<1>5. ASSUME NEW m \in Msgs, QueuedHook(m) PROVE EndsAreKnown'
  BY <1>5 DEF QueuedHook, Request, Tell
<1>6. ASSUME NEW m \in Msgs, DirectPaced(m) PROVE EndsAreKnown'
  BY <1>6 DEF DirectPaced, Request
<1>7. ASSUME NEW m \in Msgs, DirectSend(m) PROVE EndsAreKnown'
  BY <1>7 DEF DirectSend, Request, SendReaches, Doubt
<1>8. ASSUME NEW m \in Msgs, DirectHook(m) PROVE EndsAreKnown'
  BY <1>8 DEF DirectHook, Request, Tell
<1>9. ASSUME NEW w \in AllWorkers, TakeJob(w) PROVE EndsAreKnown'
  BY <1>9 DEF TakeJob, Handler, Take
<1>10. ASSUME NEW w \in AllWorkers, CheckDuplicate(w) PROVE EndsAreKnown'
  BY <1>10 DEF CheckDuplicate, Handler, HandlerOk
<1>11. ASSUME NEW w \in AllWorkers, Paced(w) PROVE EndsAreKnown'
  BY <1>11 DEF Paced, Handler, HandlerErr, AfterError
<1>12. ASSUME NEW w \in AllWorkers, MarkProcessing(w) PROVE EndsAreKnown'
  BY <1>12 DEF MarkProcessing, Handler, UpdateStatus
<1>13. ASSUME NEW w \in AllWorkers, Send(w) PROVE EndsAreKnown'
  BY <1>13 DEF Send, Handler, SendReaches, Doubt
<1>14. ASSUME NEW w \in AllWorkers, RecordSent(w) PROVE EndsAreKnown'
  BY <1>14 DEF RecordSent, Handler, UpdateStatus
<1>15. ASSUME NEW w \in AllWorkers, MarkProcessed(w) PROVE EndsAreKnown'
  BY <1>15 DEF MarkProcessed, Handler
<1>16. ASSUME NEW w \in AllWorkers, RecordFailed(w) PROVE EndsAreKnown'
  BY <1>16 DEF RecordFailed, Handler, UpdateStatus
<1>17. ASSUME NEW w \in AllWorkers, StatusHook(w) PROVE EndsAreKnown'
  BY <1>17 DEF StatusHook, Handler, HandlerOk, HandlerErr, HandlerPanic, AfterError,
     Tell
<1>18. ASSUME NEW w \in AllWorkers, Notify(w) PROVE EndsAreKnown'
  <2>1. job[w].msg \in Msgs /\ Home(w) = "dlq"
    BY <1>18, HeldMessage DEF Notify, Handler
  <2>2. Concluded' = Concluded \cup {job[w].msg}
    BY <1>18, <2>1 DEF Notify, HandlerOk, HandlerPanic
  <2>3. /\ \A m \in Msgs : ("failed" \in told[m] => "failed" \in told'[m]) /\ (m \in mute => m \in mute')
        /\ "failed" \in told'[job[w].msg] \/ job[w].msg \in mute'
    BY <1>18, <2>1 DEF Notify
  <2>4. waSends' = waSends
    BY <1>18 DEF Notify
  <2> HIDE DEF Concluded
  <2>5. Concluded \subseteq Msgs
    BY DEF Concluded
  <2> QED BY <2>1, <2>2, <2>3, <2>4, <2>5
<1>19. ASSUME NEW w \in AllWorkers, PublishStored(w), UNCHANGED jobVars PROVE EndsAreKnown'
  BY <1>19 DEF PublishStored
<1>20. ASSUME NEW w \in AllWorkers, PublishLost(w), UNCHANGED jobVars PROVE EndsAreKnown'
  BY <1>20 DEF PublishLost
<1>21. ASSUME NEW w \in AllWorkers, PublishFailed(w), UNCHANGED jobVars PROVE EndsAreKnown'
  BY <1>21 DEF PublishFailed
<1>22. ASSUME NEW w \in AllWorkers, Ack(w), UNCHANGED jobVars PROVE EndsAreKnown'
  BY <1>22 DEF Ack, Finish
<1>23. ASSUME NEW w \in AllWorkers, Requeue(w), UNCHANGED jobVars PROVE EndsAreKnown'
  BY <1>23 DEF Requeue, Finish
<1>24. ASSUME NEW w \in AllWorkers, Reject(w), UNCHANGED jobVars PROVE EndsAreKnown'
  BY <1>24 DEF Reject, Finish
<1>25. ASSUME NEW w \in AllWorkers, WorkerExit(w), UNCHANGED jobVars PROVE EndsAreKnown'
  BY <1>25 DEF WorkerExit
<1>26. ASSUME NEW w \in AllWorkers, RetryInDoubt(w) PROVE EndsAreKnown'
  BY <1>26 DEF RetryInDoubt, PublishUnconfirmed, Doubt
<1>27. ASSUME NEW c \in broker, Expire(c), UNCHANGED jobVars PROVE EndsAreKnown'
  BY <1>27 DEF Expire
<1>28. CASE StartWorkers /\ UNCHANGED jobVars
  BY <1>28 DEF StartWorkers
<1>29. CASE Shutdown /\ UNCHANGED jobVars
  BY <1>29 DEF Shutdown
<1>30. CASE JobsConnectionLost
  BY <1>30 DEF JobsConnectionLost, ConnectionLost
<1>31. CASE JobsProcessEnds
  BY <1>31 DEF JobsProcessEnds, Drained, Killed, NewProcess
<1>32. CASE UNCHANGED allVars
  BY <1>32 DEF allVars
<1> HIDE DEF IndInv, TypeOK, JobInv, JobTypeOK, HandlerOfHome, SentIsTrue,
     EndsAreKnown, Concluded, Steps, Busy, jobVars, queue, vars, history
<1> QED BY <1>1, <1>2, <1>3, <1>4, <1>5, <1>6, <1>7, <1>8, <1>9, <1>10, <1>11,
     <1>12, <1>13, <1>14, <1>15, <1>16, <1>17, <1>18, <1>19, <1>20, <1>21, <1>22,
     <1>23, <1>24, <1>25, <1>26, <1>27, <1>28, <1>29, <1>30, <1>31, <1>32 DEF
     JobNext, RequestStep, HandlerStep, QueueStep

-----------------------------------------------------------------------------
(* What follows *)

\* The inductive invariant holds in every reachable state.
LEMMA JobInvariance == JobSpec => []JobInv
<1>1. JobInit => JobInv
  <2> SUFFICES ASSUME JobInit PROVE JobInv
    OBVIOUS
  <2> USE DEF JobInit, Init
  <2>1. JobTypeOK /\ HandlerOfHome /\ SentIsTrue /\ RequestIsTrue
    BY DEF JobTypeOK, HandlerOfHome, SentIsTrue, RequestIsTrue, RequestEnds, Steps, Statuses
  <2>2. EndsAreKnown
    BY DEF EndsAreKnown, Concluded
  <2>3. broker = {} /\ {w \in AllWorkers : MaySend(w)} = {}
    BY DEF MaySend
  <2>4. \A m \in Msgs : Waiting(m) = {} /\ Runs(m) = {} /\ Ask(m) = 1
    BY <2>3 DEF Waiting, Runs, Ask
  <2>5. IsFiniteSet({}) /\ Cardinality({}) = 0
    BY FS_EmptySet
  <2>6. Finite
    BY <2>3, <2>5 DEF Finite
  <2>7. Budget
    BY <2>4, <2>5 DEF Budget, BudgetOf
  <2> QED BY <2>1, <2>2, <2>6, <2>7 DEF JobInv
<1>2. IndInv /\ JobInv /\ [JobNext]_allVars => JobInv'
  BY JobTypeInductive, HandlerOfHomeInductive, FiniteInductive, BudgetInductive,
     SentIsTrueInductive, RequestIsTrueInductive, EndsAreKnownInductive DEF JobInv
<1>3. JobSpec => []IndInv
  BY JobsRunOnQueue, Invariance, PTL
<1> QED BY <1>1, <1>2, <1>3, PTL DEF JobSpec

\* The job's variables keep their types, and a worker is inside Handle exactly
\* while processMessage waits for it.
THEOREM JobTypeCorrect == JobSpec => []JobTypeOK
BY JobInvariance, PTL DEF JobInv

\* For any number of jobs, workers, retries and faults, WhatsApp takes a message
\* at most once more than the system was left in doubt about it: neither retries
\* nor dead-lettering nor the direct fallback can send it twice by themselves.
THEOREM SendsAreAccountedFor == JobSpec => []SendsAccountedFor
<1>1. JobInv => SendsAccountedFor
  <2> SUFFICES ASSUME JobInv, NEW m \in Msgs PROVE waSends[m] <= 1 + doubts[m]
    BY DEF SendsAccountedFor
  <2>1. Cardinality(Waiting(m)) \in Nat /\ Cardinality(Runs(m)) \in Nat /\ Ask(m) \in Nat
    BY CountedFinite DEF JobInv, Ask
  <2>2. waSends[m] \in Nat /\ doubts[m] \in Nat /\ BudgetOf(m)
    BY DEF JobInv, JobTypeOK, Budget
  <2> QED BY <2>1, <2>2 DEF BudgetOf
<1> QED BY <1>1, JobInvariance, PTL

\* With publisher confirms no job ends in silence: it was sent, its request was
\* answered with an error or died, the client was told, or could not be told.
\* Without confirms a job or a retry can be lost (EnqueueLost, PublishLost).
THEOREM NoJobFailsSilently == JobSpec => []NoSilentFailure
<1>1. IndInv /\ JobInv => NoSilentFailure
  <2> SUFFICES ASSUME IndInv, JobInv, PublishConfirm, NEW m \in Msgs, Settled(m),
                      req[m] \notin {"error", "gone"}
               PROVE  waSends[m] > 0 \/ "failed" \in told[m] \/ m \in mute
    BY DEF NoSilentFailure
  <2>1. req[m] = "sent" \/ req[m] = "queued"
    BY DEF Settled, RequestEnds
  <2>2. CASE req[m] = "sent"
    BY <2>2 DEF JobInv, SentIsTrue
  <2>3. CASE req[m] = "queued"
    <3>1. m \in accepted /\ m \notin Owed
      BY <2>3 DEF JobInv, RequestIsTrue, Settled
    <3>2. m \in Concluded
      BY <3>1 DEF IndInv, Keeping, NoLoss
    <3> QED BY <3>2 DEF JobInv, EndsAreKnown
  <2> QED BY <2>1, <2>2, <2>3
<1>2. JobSpec => []IndInv
  BY JobsRunOnQueue, Invariance, PTL
<1> QED BY <1>1, <1>2, JobInvariance, PTL

\* While nothing put a job in doubt, no late handler run overwrites its completed
\* row: the one delivery that could have was spent on the send.
THEOREM CompletedRowStays == JobSpec => CompletedStays
<1>1. IndInv /\ JobInv /\ JobTypeOK' /\ [JobNext]_allVars =>
        [\A m \in Msgs :
           row[m] = "completed" /\ doubts'[m] = 0 => row'[m] = "completed"]_allVars
  <2> SUFFICES ASSUME IndInv, JobInv, JobTypeOK', [JobNext]_allVars, NEW m \in Msgs,
                      row[m] = "completed", doubts'[m] = 0
               PROVE  row'[m] = "completed"
    OBVIOUS
  <2>1. ASSUME NEW w \in AllWorkers, job[w].msg = m, MaySend(w), doubts' = doubts PROVE FALSE
    <3>1. /\ waSends[m] > 0 /\ waSends[m] \in Nat /\ doubts[m] = 0 /\ BudgetOf(m)
      BY <2>1 DEF JobInv, SentIsTrue, JobTypeOK, Budget
    <3>2. w \in Runs(m)
      BY <2>1 DEF Runs
    <3>3. /\ Cardinality(Waiting(m)) \in Nat /\ Cardinality(Runs(m)) \in Nat
          /\ IsFiniteSet(Runs(m)) /\ Ask(m) \in Nat
      BY CountedFinite DEF JobInv, Ask
    <3>4. Cardinality(Runs(m) \ {w}) \in Nat /\ Cardinality(Runs(m) \ {w}) + 1 <= Cardinality(Runs(m))
      BY <3>2, <3>3, OneLess
    <3> QED BY <3>1, <3>3, <3>4 DEF BudgetOf
  <2>2. ASSUME NEW k \in Msgs, RequestStep(k) PROVE row'[m] = "completed"
    <3>1. CASE CreateRow(k)
      BY <3>1 DEF CreateRow, Request, JobInv, RequestIsTrue, JobTypeOK
    <3> QED BY <2>2, <3>1 DEF RequestStep, Enqueue, EnqueueUnconfirmed, EnqueueLost, NotEnqueued, QueuedHook,
          DirectPaced, DirectSend, DirectHook
  <2>3. ASSUME NEW w \in AllWorkers, HandlerStep(w) PROVE row'[m] = "completed"
    <3>1. CASE MarkProcessing(w) \/ RecordFailed(w)
      <4>1. doubts' = doubts /\ MaySend(w)
        BY <3>1 DEF MarkProcessing, RecordFailed, Handler, MaySend, JobInv, JobTypeOK
      <4>2. job[w].msg # m
        BY <2>1, <4>1
      <4> QED BY <3>1, <4>2 DEF MarkProcessing, RecordFailed, UpdateStatus, JobInv, JobTypeOK
    <3>2. CASE RecordSent(w)
      BY <3>2 DEF RecordSent, UpdateStatus, JobInv, JobTypeOK
    <3> QED BY <2>3, <3>1, <3>2 DEF HandlerStep, TakeJob, CheckDuplicate, Paced, Send,
          MarkProcessed, StatusHook, Notify
  <2>4. ASSUME NEW w \in AllWorkers, QueueStep(w) \/ RetryInDoubt(w) PROVE row'[m] = "completed"
    BY <2>4 DEF QueueStep, RetryInDoubt, jobVars
  <2>5. CASE UNCHANGED jobVars \/ JobsConnectionLost \/ JobsProcessEnds \/ UNCHANGED allVars
    BY <2>5 DEF jobVars, JobsConnectionLost, JobsProcessEnds, allVars
  <2> QED BY <2>2, <2>3, <2>4, <2>5 DEF JobNext
<1>2. JobSpec => []IndInv
  BY JobsRunOnQueue, Invariance, PTL
<1>3. JobInv => JobTypeOK
  BY DEF JobInv
<1> QED BY <1>1, <1>2, <1>3, JobInvariance, PTL DEF JobSpec, CompletedStays
=============================================================================
