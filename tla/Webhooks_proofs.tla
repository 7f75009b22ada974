--------------------------- MODULE Webhooks_proofs ---------------------------
(***************************************************************************)
(* An event the queue has accepted is never lost for one of its            *)
(* destinations, for any number of events, subscriptions, workers and      *)
(* faults, unless an unconfirmed publish or another account's mark is to   *)
(* blame.                                                                  *)
(*                                                                         *)
(* The invariant is not inductive: that an acknowledged copy was           *)
(* superfluous depends on what the worker did before, and that a           *)
(* duplicate may be skipped depends on what its mark stands for.  Both are *)
(* said by Honest.                                                         *)
(*                                                                         *)
(* And without a fault no event reaches a destination twice: of the three  *)
(* ways to it, the queue, a goroutine and the loop of dispatch, at most    *)
(* one is open at a time, and none once the receiver has had the event.    *)
(***************************************************************************)
EXTENDS Webhooks, TLAPS

(* The receiver has had the event, or the delivery is lost in one of the   *)
(* two ways AtLeastOnce names.                                             *)
Had(e, u) == got[e][u] > 0 \/ <<e, u>> \in excused

(* The delivery of e to u no longer depends on the incoming-events queue.  *)
Settled(e, u) ==
    \/ Had(e, u)
    \/ <<e, u>> \in dead
    \/ \E c \in queue : c.ev = e /\ c.url = u

FannedOut(e) == \A u \in Wanted(e) : Settled(e, u)

(* What a worker's step says about the copy it holds.                      *)
WorkHonest(w) ==
    LET c == work[w].copy IN
    /\ work[w].pc = "subs" => c.url = NoUrl
    /\ work[w].pc = "fan" => c.url = NoUrl /\ \A u \in Wanted(c.ev) \ work[w].todo : Settled(c.ev, u)
    /\ work[w].pc = "send" => c.url # NoUrl
    /\ work[w].pc = "mark" => c.url # NoUrl /\ Had(c.ev, c.url)
    /\ work[w].pc = "ack" => IF c.url = NoUrl THEN FannedOut(c.ev) ELSE Had(c.ev, c.url)

(* What a mark in the dedup cache says.                                    *)
MarksHonest ==
    \A e \in Events :
        /\ <<"in", e, NoUrl>> \in marks => FannedOut(e)
        /\ \A u \in Urls : <<"out", e, u>> \in marks => Had(e, u)

AcceptedWanted == \A e \in Events, u \in Urls : <<e, u>> \in accepted => u \in Wanted(e)

Honest ==
    /\ TypeOK
    /\ AcceptedWanted
    /\ MarksHonest
    /\ \A w \in Workers : WorkHonest(w)
    /\ AtLeastOnce

-----------------------------------------------------------------------------
(* A stored copy is a copy for the event and the destination it was        *)
(* published for, and nothing leaves the queue by a publish.               *)
LEMMA StoredCopy ==
    ASSUME NEW e \in Events, NEW u \in Urls \cup {NoUrl}, Stored(e, u), queue \subseteq Copies
    PROVE  /\ queue \subseteq queue' /\ queue' \subseteq Copies
           /\ \E c \in queue' : c.ev = e /\ c.url = u
<1> DEFINE i == CHOOSE i \in FreeIds : TRUE
           c == NewCopy(e, u)
<1>1. i \in CopyIds BY DEF Stored, FreeIds
<1>2. c = [id |-> i, ev |-> e, url |-> u, tries |-> 0] BY DEF NewCopy
<1>3. c \in Copies BY <1>1, <1>2, WebhooksAssumption DEF Copies
<1>4. c.ev = e /\ c.url = u BY <1>2
<1> HIDE DEF c
<1>5. queue' = queue \cup {c} BY DEF Stored, c
<1> QED BY <1>3, <1>4, <1>5

(* The initial states satisfy the invariant.                               *)
LEMMA InitHonest == Init => Honest
<1> SUFFICES ASSUME Init PROVE Honest OBVIOUS
<1> USE DEF Init
<1>1. TypeOK BY DEF TypeOK, Idle, Jobs
<1>2. AcceptedWanted /\ AtLeastOnce BY DEF AcceptedWanted, AtLeastOnce
<1>3. MarksHonest BY DEF MarksHonest
<1>4. \A w \in Workers : WorkHonest(w) BY DEF WorkHonest, Idle
<1> QED BY <1>1, <1>2, <1>3, <1>4 DEF Honest

-----------------------------------------------------------------------------
(* A copy returned to the queue by a retry is still a copy of its delivery. *)
LEMMA RetriedCopy ==
    ASSUME NEW c \in Copies, c.tries < MaxRetries
    PROVE  /\ [c EXCEPT !.tries = @ + 1] \in Copies
           /\ [c EXCEPT !.tries = @ + 1].ev = c.ev
           /\ [c EXCEPT !.tries = @ + 1].url = c.url
BY WebhooksAssumption DEF Copies

(* The history of requests stays well typed and only grows.                *)
LEMMA ProcessedGrows ==
    ASSUME NEW e \in Events, NEW u, got \in [Events -> [Urls -> Nat]], Processed(e, u)
    PROVE  /\ got' \in [Events -> [Urls -> Nat]]
           /\ u \in Urls => got'[e][u] > 0
           /\ \A f \in Events, v \in Urls : got[f][v] > 0 => got'[f][v] > 0
<1> DEFINE g == [got[e] EXCEPT ![u] = got[e][u] + 1]
<1>1. got' = [got EXCEPT ![e] = g] BY DEF Processed
<1>2. got[e] \in [Urls -> Nat] /\ (u \in Urls => got[e][u] \in Nat) OBVIOUS
<1>3. g \in [Urls -> Nat]
  <2>1. g = [v \in Urls |-> IF v = u THEN got[e][u] + 1 ELSE got[e][v]] BY <1>2
  <2>2. \A v \in Urls : (IF v = u THEN got[e][u] + 1 ELSE got[e][v]) \in Nat BY <1>2
  <2> QED BY <2>1, <2>2
<1>4. u \in Urls => g[u] > 0 BY <1>2
<1>5. \A v \in Urls : got[e][v] > 0 => g[v] > 0 BY <1>2
<1> HIDE DEF g
<1> QED BY <1>1, <1>3, <1>4, <1>5

-----------------------------------------------------------------------------
(* Type correctness                                                        *)

(* A goroutine is spawned well typed, or not at all.                       *)
LEMMA SpawnedTasks ==
    ASSUME NEW e \in Events, tasks \subseteq Tasks, Direct(e) \/ \E u \in Urls : SendAsync(e, u)
    PROVE  tasks' \subseteq Tasks
<1>1. CASE Direct(e)
  <2> DEFINE d == [kind |-> "direct", ev |-> e, loaded |-> FALSE, todo |-> {}, tries |-> 0]
  <2>1. d \in Tasks BY DEF Tasks
  <2>2. tasks' \in {tasks, tasks \cup {d}} BY <1>1, Zenon DEF Direct
  <2> QED BY <2>1, <2>2
<1>2. ASSUME NEW u \in Urls, SendAsync(e, u) PROVE tasks' \subseteq Tasks
  <2> DEFINE a == [kind |-> "async", ev |-> e, loaded |-> TRUE, todo |-> {u}, tries |-> 0]
  <2>1. a \in Tasks BY DEF Tasks
  <2>2. tasks' \in {tasks, tasks \cup {a}} BY <1>2, Zenon DEF SendAsync
  <2> QED BY <2>1, <2>2
<1> QED BY <1>1, <1>2

JobsTyped == /\ work \in [Workers -> Jobs]
             /\ \A v \in Workers : work[v].pc # "idle" => work[v].copy \in Copies

(* A worker that changes its step, and perhaps what is left to do, keeps   *)
(* its type.                                                               *)
LEMMA WorkerMoves ==
    ASSUME NEW w \in Workers, JobsTyped, work[w].pc # "idle", NEW pc, NEW todo \in SUBSET Urls,
           pc \in {"subs", "fan", "send", "mark", "ack", "error"}, Goes(w, pc, todo)
    PROVE  /\ JobsTyped'
           /\ work'[w].pc = pc /\ work'[w].copy = work[w].copy /\ work'[w].todo = todo
           /\ \A v \in Workers : v # w => work'[v] = work[v]
<1> DEFINE r == [pc |-> pc, copy |-> work[w].copy, todo |-> todo, live |-> work[w].live]
<1>1. r \in Jobs /\ r.copy \in Copies BY DEF Jobs, JobsTyped
<1>0. r.pc = pc /\ r.copy = work[w].copy /\ r.todo = todo OBVIOUS
<1>2. work' = [work EXCEPT ![w] = r] BY DEF Goes
<1> HIDE DEF r
<1>3. work'[w] = r /\ \A v \in Workers : v # w => work'[v] = work[v] BY <1>2 DEF JobsTyped
<1>4. JobsTyped' BY <1>1, <1>2, <1>3 DEF JobsTyped
<1> QED BY <1>0, <1>3, <1>4

(* Every step keeps the types.                                             *)
LEMMA TypeStep == TypeOK /\ [Next]_vars => TypeOK'
<1> SUFFICES ASSUME TypeOK, [Next]_vars PROVE TypeOK' OBVIOUS
<1> USE DEF TypeOK
<1>1. ASSUME NEW m \in Messages, HandleMessage(m) PROVE TypeOK'
  <2>1. m \in Events /\ Wanted(m) \subseteq Urls BY DEF Events, Wanted
  <2>2. queue' \subseteq Copies BY <1>1, <2>1, StoredCopy DEF HandleMessage
  <2>3. tasks' \subseteq Tasks BY <1>1, <2>1, SpawnedTasks DEF HandleMessage
  <2>4. accepted' \subseteq Events \X Urls /\ excused' \subseteq Events \X Urls
    BY <1>1, <2>1 DEF HandleMessage
  <2> QED BY <1>1, <2>1, <2>2, <2>3, <2>4 DEF HandleMessage, Fault
<1>2. ASSUME NEW e \in Sessions, Dispatch(e) PROVE TypeOK'
  BY <1>2 DEF Dispatch, Events, Wanted
<1>3. ASSUME NEW e \in Events, Forgotten(e) PROVE TypeOK'
  BY <1>3 DEF Forgotten
<1>4. ASSUME NEW w \in Workers, WorkerStep(w) PROVE TypeOK'
  <2> JobsTyped /\ {} \in SUBSET Urls BY DEF JobsTyped
  <2>1. ASSUME NEW c \in queue, Take(w, c) PROVE TypeOK'
    BY <2>1 DEF Take, Jobs
  <2>2. CASE LoadSubs(w)
    <3>1. Wanted(work[w].copy.ev) \in SUBSET Urls BY DEF Wanted
    <3>2. JobsTyped'
      <4>1. CASE Goes(w, "fan", Wanted(work[w].copy.ev)) BY <2>2, <3>1, <4>1, WorkerMoves DEF LoadSubs
      <4>2. CASE Goes(w, "error", {}) BY <2>2, <4>2, WorkerMoves DEF LoadSubs
      <4> QED BY <2>2, <4>1, <4>2 DEF LoadSubs
    <3> QED BY <2>2, <3>2 DEF LoadSubs, Fault, JobsTyped
  <2>3. CASE Send(w)
    <3>1. work[w].copy.ev \in Events BY <2>3 DEF Send, Copies
    <3>2. JobsTyped'
      <4>1. CASE Goes(w, "mark", {}) BY <2>3, <4>1, WorkerMoves DEF Send
      <4>2. CASE Goes(w, "error", {}) BY <2>3, <4>2, WorkerMoves DEF Send
      <4> QED BY <2>3, <4>1, <4>2 DEF Send
    <3>3. got' \in [Events -> [Urls -> Nat]] BY <2>3, <3>1, ProcessedGrows DEF Send
    <3> QED BY <2>3, <3>2, <3>3 DEF Send, Fault, JobsTyped
  <2>4. CASE MarkProcessed(w)
    <3>1. JobsTyped' BY <2>4, WorkerMoves DEF MarkProcessed
    <3> QED BY <2>4, <3>1 DEF MarkProcessed, JobsTyped
  <2>5. CASE Ack(w)
    BY <2>5 DEF Ack, Idle, Jobs
  <2>6. CASE Retry(w)
    <3>1. work[w].copy \in Copies BY <2>6 DEF Retry
    <3>2. queue' \subseteq Copies BY <2>6, <3>1, RetriedCopy DEF Retry
    <3>3. dead' \subseteq Events \X Urls BY <2>6, <3>1 DEF Retry, Wanted, Copies
    <3> QED BY <2>6, <3>2, <3>3 DEF Retry, Idle, Jobs
  <2>7. ASSUME NEW u \in Urls, Fan(w, u) PROVE TypeOK'
    <3>1. work[w].copy.ev \in Events BY <2>7 DEF Fan, Copies
    <3>2. queue' \subseteq Copies BY <2>7, <3>1, StoredCopy DEF Fan
    <3>3. work[w].todo \ {u} \in SUBSET Urls BY DEF Jobs
    <3>4. JobsTyped'
      <4>1. CASE Goes(w, "fan", work[w].todo \ {u}) BY <2>7, <3>3, <4>1, WorkerMoves DEF Fan
      <4>2. CASE Goes(w, "error", {}) BY <2>7, <4>2, WorkerMoves DEF Fan
      <4> QED BY <2>7, <4>1, <4>2 DEF Fan
    <3>5. excused' \subseteq Events \X Urls BY <2>7, <3>1 DEF Fan
    <3> QED BY <2>7, <3>2, <3>4, <3>5 DEF Fan, Fault, JobsTyped
  <2> QED BY <1>4, <2>1, <2>2, <2>3, <2>4, <2>5, <2>6, <2>7 DEF WorkerStep
<1>5. CASE TaskStep
  <2>1. PICK t \in tasks : DirectLoad(t) \/ sendWithRetry(t) \/ \E u \in Urls : DirectSend(t, u)
    BY <1>5 DEF TaskStep
  <2>2. t \in Tasks OBVIOUS
  <2>3. CASE DirectLoad(t)
    <3>1. [t EXCEPT !.loaded = TRUE, !.todo = Wanted(t.ev)] \in Tasks BY <2>2 DEF Tasks, Wanted
    <3>2. tasks' \subseteq Tasks BY <2>3, <3>1 DEF DirectLoad
    <3> QED BY <2>3, <3>2 DEF DirectLoad, Fault
  <2>4. CASE sendWithRetry(t)
    <3>1. [t EXCEPT !.tries = @ + 1] \in Tasks BY <2>2 DEF Tasks
    <3>2. tasks' \subseteq Tasks BY <2>4, <3>1 DEF sendWithRetry
    <3>3. got' \in [Events -> [Urls -> Nat]] BY <2>2, <2>4, ProcessedGrows DEF sendWithRetry, Tasks
    <3> QED BY <2>4, <3>2, <3>3 DEF sendWithRetry, Fault
  <2>5. ASSUME NEW u \in Urls, DirectSend(t, u) PROVE TypeOK'
    <3>1. [t EXCEPT !.todo = @ \ {u}] \in Tasks BY <2>2 DEF Tasks
    <3>2. tasks' \subseteq Tasks BY <2>5, <3>1 DEF DirectSend
    <3>3. got' \in [Events -> [Urls -> Nat]] BY <2>2, <2>5, ProcessedGrows DEF DirectSend, Tasks
    <3> QED BY <2>5, <3>2, <3>3 DEF DirectSend
  <2> QED BY <2>1, <2>3, <2>4, <2>5
<1>6. CASE DispatchStep
  <2>1. PICK e \in Sessions, u \in Urls : DispatchOne(e, u) BY <1>6 DEF DispatchStep
  <2>2. e \in Events BY DEF Events
  <2>3. queue' \subseteq Copies BY <2>1, <2>2, StoredCopy DEF DispatchOne
  <2>4. tasks' \subseteq Tasks BY <2>1, <2>2, SpawnedTasks DEF DispatchOne
  <2>5. accepted' \subseteq Events \X Urls /\ excused' \subseteq Events \X Urls
    BY <2>1, <2>2 DEF DispatchOne
  <2> QED BY <2>1, <2>2, <2>3, <2>4, <2>5 DEF DispatchOne, Fault
<1>7. CASE QueueDown
  <2>1. work' \in [Workers -> Jobs]
    <3>1. work' = [w \in Workers |-> [work[w] EXCEPT !.live = FALSE]] BY <1>7 DEF QueueDown
    <3>2. ASSUME NEW w \in Workers PROVE [work[w] EXCEPT !.live = FALSE] \in Jobs
      <4>1. work[w] \in Jobs OBVIOUS
      <4> QED BY <4>1 DEF Jobs
    <3> QED BY <3>1, <3>2
  <2>2. \A v \in Workers : work'[v].copy = work[v].copy /\ work'[v].pc = work[v].pc
    BY <1>7 DEF QueueDown, Jobs
  <2>3. \A v \in Workers : work'[v].pc # "idle" => work'[v].copy \in Copies BY <2>2
  <2>4. up' \in BOOLEAN BY <1>7, Zenon DEF QueueDown
  <2>6. faults' \in Nat BY <1>7 DEF QueueDown, Fault
  <2>5. UNCHANGED <<arrived, queue, tasks, pending, got, dead, accepted, excused>> BY <1>7 DEF QueueDown
  <2> QED BY <2>1, <2>3, <2>4, <2>5, <2>6
<1>8. CASE QueueUp BY <1>8 DEF QueueUp
<1>9. CASE Crash BY <1>9 DEF Crash, Fault, Idle, Jobs
<1>10. ASSUME NEW k \in marks, sweepLocked(k) PROVE TypeOK' BY <1>10 DEF sweepLocked, Fault
<1>11. ASSUME NEW m \in Messages, NEW u \in Urls \cup {NoUrl}, OtherAccount(m, u) PROVE TypeOK'
  BY <1>11 DEF OtherAccount, Events
<1>12. CASE UNCHANGED vars BY <1>12 DEF vars
<1> QED BY <1>1, <1>2, <1>3, <1>4, <1>5, <1>6, <1>7, <1>8, <1>9, <1>10, <1>11, <1>12 DEF Next

-----------------------------------------------------------------------------
(* What no step undoes                                                     *)

(* The delivery of e to u still has something that stands for it.          *)
Open(e, u) == Settled(e, u) \/ \E c \in queue : c.ev = e /\ c.url = NoUrl

Kept ==
    \A e \in Events, u \in Urls :
        /\ Had(e, u) => Had(e, u)'
        /\ Settled(e, u) => Settled(e, u)'
        /\ Open(e, u) /\ u \in Wanted(e) => Open(e, u)'

(* A step that takes nothing from the queue, from the receivers' history   *)
(* and from the dead-letter queue undoes nothing.                          *)
LEMMA GrowthKeeps ==
    ASSUME queue \subseteq queue', dead \subseteq dead', excused \subseteq excused',
           \A e \in Events, u \in Urls : got[e][u] > 0 => got'[e][u] > 0
    PROVE  Kept
BY DEF Kept, Open, Settled, Had

(* A worker's statement outlives a step that undoes nothing.               *)
LEMMA WorkKept ==
    ASSUME TypeOK, Kept, NEW w \in Workers, WorkHonest(w),
           work'[w].pc = work[w].pc, work'[w].copy = work[w].copy, work'[w].todo = work[w].todo
    PROVE  WorkHonest(w)'
<1> DEFINE c == work[w].copy
<1> SUFFICES ASSUME work[w].pc # "idle" PROVE WorkHonest(w)' BY DEF WorkHonest
<1>1. c.ev \in Events /\ c.url \in Urls \cup {NoUrl} BY DEF TypeOK, Copies
<1>2. \A u \in Wanted(c.ev) : u \in Urls BY DEF Wanted
<1>3. \A u \in Wanted(c.ev) : Settled(c.ev, u) => Settled(c.ev, u)' BY <1>1, <1>2 DEF Kept
<1>4. c.url # NoUrl /\ Had(c.ev, c.url) => Had(c.ev, c.url)' BY <1>1 DEF Kept
<1>5. FannedOut(c.ev) => FannedOut(c.ev)' BY <1>3 DEF FannedOut
<1> QED BY <1>1, <1>3, <1>4, <1>5 DEF WorkHonest

(* The parts of the invariant that a step leaves alone still hold after it. *)
LEMMA Frame ==
    ASSUME Honest, TypeOK', Kept,
           \A e \in Events, u \in Urls :
               <<e, u>> \in accepted' => <<e, u>> \in accepted \/ (u \in Wanted(e) /\ Open(e, u)'),
           marks' \subseteq marks \/ MarksHonest',
           \A w \in Workers : work'[w] = work[w] \/ WorkHonest(w)'
    PROVE  Honest'
<1> USE DEF Honest
<1>1. AcceptedWanted' BY DEF AcceptedWanted, Wanted, Kind
<1>2. MarksHonest'
  <2> SUFFICES ASSUME marks' \subseteq marks PROVE MarksHonest' OBVIOUS
  <2>1. \A e \in Events : FannedOut(e) => FannedOut(e)' BY DEF FannedOut, Kept, Wanted
  <2> QED BY <2>1 DEF MarksHonest, Kept
<1>3. \A w \in Workers : WorkHonest(w)' BY WorkKept
<1>4. AtLeastOnce'
  <2>1. ASSUME NEW e \in Events, NEW u \in Urls, <<e, u>> \in accepted PROVE Open(e, u)'
    <3>1. Open(e, u) BY <2>1 DEF AtLeastOnce, Open, Settled, Had
    <3>2. u \in Wanted(e) BY <2>1 DEF AcceptedWanted
    <3> QED BY <3>1, <3>2 DEF Kept
  <2>2. \A e \in Events, u \in Urls : <<e, u>> \in accepted' => Open(e, u)' BY <2>1
  <2> QED BY <2>2 DEF AtLeastOnce, Open, Settled, Had
<1> QED BY <1>1, <1>2, <1>3, <1>4

-----------------------------------------------------------------------------
(* Each step keeps the invariant                                           *)

(* A message enters: a successful publish leaves a copy in the queue.      *)
LEMMA MessageHonest ==
    ASSUME Honest, TypeOK', NEW m \in Messages, HandleMessage(m) PROVE Honest'
<1>1. m \in Events /\ queue \subseteq Copies BY DEF Events, Honest, TypeOK
<1>2. queue \subseteq queue' BY <1>1, StoredCopy DEF HandleMessage
<1>3. Kept BY <1>2, GrowthKeeps DEF HandleMessage
<1>4. ASSUME NEW e \in Events, NEW u \in Urls, <<e, u>> \in accepted', <<e, u>> \notin accepted
      PROVE  u \in Wanted(e) /\ Open(e, u)'
  <2>1. e = m /\ u \in Wanted(m) /\ (Stored(m, NoUrl) \/ <<e, u>> \in excused')
    BY <1>4 DEF HandleMessage
  <2>2. CASE <<e, u>> \in excused' BY <2>1, <2>2 DEF Open, Settled, Had
  <2>3. CASE Stored(m, NoUrl)
    <3>1. \E c \in queue' : c.ev = m /\ c.url = NoUrl BY <1>1, <2>3, StoredCopy
    <3> QED BY <2>1, <3>1 DEF Open
  <2> QED BY <2>1, <2>2, <2>3
<1> QED BY <1>3, <1>4, Frame DEF HandleMessage

(* A lifecycle event is published for one destination.                     *)
LEMMA DispatchHonest ==
    ASSUME Honest, TypeOK', NEW e \in Sessions, NEW u \in Urls, u \in Wanted(e), DispatchOne(e, u)
    PROVE  Honest'
<1>1. e \in Events /\ queue \subseteq Copies BY DEF Events, Honest, TypeOK
<1>2. queue \subseteq queue' BY <1>1, StoredCopy DEF DispatchOne
<1>3. Kept BY <1>2, GrowthKeeps DEF DispatchOne
<1>4. ASSUME NEW f \in Events, NEW v \in Urls, <<f, v>> \in accepted', <<f, v>> \notin accepted
      PROVE  v \in Wanted(f) /\ Open(f, v)'
  <2>1. f = e /\ v = u /\ (Stored(e, u) \/ <<e, u>> \in excused') BY <1>4 DEF DispatchOne
  <2>2. CASE <<e, u>> \in excused' BY <2>1, <2>2 DEF Open, Settled, Had
  <2>3. CASE Stored(e, u)
    <3>1. \E c \in queue' : c.ev = e /\ c.url = u BY <1>1, <2>3, StoredCopy
    <3> QED BY <2>1, <3>1 DEF Open, Settled
  <2> QED BY <2>1, <2>2, <2>3
<1> QED BY <1>3, <1>4, Frame DEF DispatchOne

(* A worker's step.                                                        *)
LEMMA WorkerHonest ==
    ASSUME Honest, TypeOK', NEW w \in Workers, WorkerStep(w) PROVE Honest'
<1> PICK c : c = work[w].copy OBVIOUS
<1> JobsTyped /\ {} \in SUBSET Urls BY DEF JobsTyped, Honest, TypeOK
<1>0. work[w].pc # "idle" =>
        c \in Copies /\ c.ev \in Events /\ c.url \in Urls \cup {NoUrl} /\ Wanted(c.ev) \subseteq Urls
  BY DEF JobsTyped, Copies, Wanted
<1>h. WorkHonest(w) BY DEF Honest
<1>1. ASSUME NEW d \in queue, Take(w, d) PROVE Honest'
  <2>1. d.ev \in Events /\ d.url \in Urls \cup {NoUrl} BY DEF Honest, TypeOK, Copies
  <2>2. Kept BY <1>1, GrowthKeeps DEF Take
  <2>3. work'[w].copy = d /\ work'[w].pc \in {"ack", "subs", "send"} BY <1>1 DEF Take, JobsTyped
  <2>4. \A v \in Workers : v # w => work'[v] = work[v] BY <1>1 DEF Take, JobsTyped
  <2>5. WorkHonest(w)'
    <3>1. CASE webhookDedupKey(d) \in marks
      <4>1. work'[w].pc = "ack" BY <1>1, <3>1 DEF Take, JobsTyped
      <4>2. d.url = NoUrl => FannedOut(d.ev) BY <2>1, <3>1 DEF webhookDedupKey, MarksHonest, Honest
      <4>3. d.url # NoUrl => Had(d.ev, d.url)
        BY <2>1, <3>1 DEF webhookDedupKey, MarksHonest, Honest
      <4>4. FannedOut(d.ev) => FannedOut(d.ev)' BY <2>1, <2>2 DEF FannedOut, Kept, Wanted
      <4>5. d.url # NoUrl => Had(d.ev, d.url)' BY <2>1, <2>2, <4>3 DEF Kept
      <4> QED BY <2>3, <4>1, <4>2, <4>4, <4>5 DEF WorkHonest
    <3>2. CASE webhookDedupKey(d) \notin marks
      <4>1. work'[w].pc = IF d.url = NoUrl THEN "subs" ELSE "send" BY <1>1, <3>2 DEF Take, JobsTyped
      <4> QED BY <2>3, <4>1 DEF WorkHonest
    <3> QED BY <3>1, <3>2
  <2> QED BY <1>1, <2>2, <2>4, <2>5, Frame DEF Take
<1>2. CASE LoadSubs(w)
  <2>1. Kept BY <1>2, GrowthKeeps DEF LoadSubs
  <2>2. WorkHonest(w)' /\ \A v \in Workers : v # w => work'[v] = work[v]
    <3>1. CASE Goes(w, "fan", Wanted(c.ev))
      <4>1. /\ work'[w].pc = "fan" /\ work'[w].copy = c /\ work'[w].todo = Wanted(c.ev)
            /\ \A v \in Workers : v # w => work'[v] = work[v]
        BY <1>0, <1>2, <3>1, WorkerMoves DEF LoadSubs
      <4> QED BY <1>h, <1>2, <4>1 DEF LoadSubs, WorkHonest
    <3>2. CASE Goes(w, "error", {})
      <4>1. work'[w].pc = "error" /\ \A v \in Workers : v # w => work'[v] = work[v]
        BY <1>2, <3>2, WorkerMoves DEF LoadSubs
      <4> QED BY <4>1 DEF WorkHonest
    <3> QED BY <1>2, <3>1, <3>2 DEF LoadSubs
  <2> QED BY <1>2, <2>1, <2>2, Frame DEF LoadSubs
<1>3. CASE Send(w)
  <2>1. c.ev \in Events /\ c.url \in Urls BY <1>0, <1>h, <1>3 DEF Send, WorkHonest
  <2>2. got \in [Events -> [Urls -> Nat]] BY DEF Honest, TypeOK
  <2>3. Kept BY <1>3, <2>1, <2>2, ProcessedGrows, GrowthKeeps DEF Send
  <2>4. WorkHonest(w)' /\ \A v \in Workers : v # w => work'[v] = work[v]
    <3>1. CASE Goes(w, "mark", {}) /\ Processed(c.ev, c.url)
      <4>1. got'[c.ev][c.url] > 0 BY <2>1, <2>2, <3>1, ProcessedGrows
      <4>2. /\ work'[w].pc = "mark" /\ work'[w].copy = c
            /\ \A v \in Workers : v # w => work'[v] = work[v]
        BY <1>3, <3>1, WorkerMoves DEF Send
      <4> QED BY <2>1, <4>1, <4>2, WebhooksAssumption DEF WorkHonest, Had
    <3>2. CASE Goes(w, "error", {})
      <4>1. work'[w].pc = "error" /\ \A v \in Workers : v # w => work'[v] = work[v]
        BY <1>3, <3>2, WorkerMoves DEF Send
      <4> QED BY <4>1 DEF WorkHonest
    <3> QED BY <1>3, <3>1, <3>2 DEF Send
  <2> QED BY <1>3, <2>3, <2>4, Frame DEF Send
<1>4. CASE MarkProcessed(w)
  <2>1. Kept BY <1>4, GrowthKeeps DEF MarkProcessed
  <2>2. Goes(w, "ack", {}) /\ work[w].pc # "idle" BY <1>4 DEF MarkProcessed
  <2>3. work'[w].copy = c /\ work'[w].pc = "ack" /\ \A v \in Workers : v # w => work'[v] = work[v]
    BY <2>2, WorkerMoves
  <2>4. \/ c.url = NoUrl /\ FannedOut(c.ev)
        \/ c.url # NoUrl /\ Had(c.ev, c.url)
    BY <1>4, <1>h DEF MarkProcessed, WorkHonest, FannedOut
  <2>5. \A e \in Events : FannedOut(e) => FannedOut(e)' BY <2>1 DEF FannedOut, Kept, Wanted
  <2>7. marks' = marks \cup {webhookDedupKey(c)} /\ got' = got /\ excused' = excused
    BY <1>4 DEF MarkProcessed
  <2>6. WorkHonest(w)' BY <1>0, <2>2, <2>3, <2>4, <2>5, <2>7 DEF WorkHonest, Had
  <2>8. MarksHonest'
    <3>1. \A e \in Events : <<"in", e, NoUrl>> \in marks' => FannedOut(e)
      BY <2>4, <2>7 DEF MarksHonest, Honest, webhookDedupKey
    <3>2. \A e \in Events, u \in Urls : <<"out", e, u>> \in marks' => Had(e, u)
      BY <2>4, <2>7 DEF MarksHonest, Honest, webhookDedupKey
    <3> QED BY <2>5, <2>7, <3>1, <3>2 DEF MarksHonest, Had
  <2> QED BY <1>4, <2>1, <2>3, <2>6, <2>8, Frame DEF MarkProcessed
<1>5. CASE Ack(w)
  <2>1. \A v \in Workers : v # w => work'[v] = work[v] BY <1>5 DEF Ack, JobsTyped
  <2>2. WorkHonest(w)' BY <1>5 DEF Ack, WorkHonest, Idle, JobsTyped
  <2>3. \/ c.url = NoUrl /\ FannedOut(c.ev)
        \/ c.url # NoUrl /\ Had(c.ev, c.url)
    BY <1>5, <1>h DEF Ack, WorkHonest
  <2>4. queue \ {c} \subseteq queue' /\ UNCHANGED <<got, dead, excused>> BY <1>5 DEF Ack
  <2>5. ASSUME NEW e \in Events, NEW u \in Urls, Settled(e, u) PROVE Settled(e, u)'
    BY <2>3, <2>4, <2>5, WebhooksAssumption DEF Settled, Had
  <2>6. ASSUME NEW e \in Events, NEW u \in Urls, Open(e, u), u \in Wanted(e) PROVE Open(e, u)'
    <3>1. CASE Settled(e, u) BY <2>5, <3>1 DEF Open
    <3>2. CASE ~Settled(e, u)
      <4>1. PICK d \in queue : d.ev = e /\ d.url = NoUrl BY <2>6, <3>2 DEF Open
      <4>2. d # c BY <2>3, <2>6, <3>2, <4>1 DEF FannedOut
      <4> QED BY <2>4, <4>1, <4>2 DEF Open
    <3> QED BY <3>1, <3>2
  <2>7. Kept BY <2>4, <2>5, <2>6 DEF Kept, Had
  <2> QED BY <1>5, <2>1, <2>2, <2>7, Frame DEF Ack
<1>6. CASE Retry(w)
  <2>1. \A v \in Workers : v # w => work'[v] = work[v] BY <1>6 DEF Retry, JobsTyped
  <2>2. WorkHonest(w)' BY <1>6 DEF Retry, WorkHonest, Idle, JobsTyped
  <2>3. /\ queue \ {c} \subseteq queue' /\ UNCHANGED <<got, excused>> /\ dead \subseteq dead'
        /\ \/ queue \subseteq queue'
           \/ \E d \in queue' : d.ev = c.ev /\ d.url = c.url
           \/ {c.ev} \X (IF c.url = NoUrl THEN Wanted(c.ev) ELSE {c.url}) \subseteq dead'
    BY <1>0, <1>6, RetriedCopy DEF Retry
  <2>4. Kept BY <2>3, WebhooksAssumption DEF Kept, Open, Settled, Had
  <2> QED BY <1>6, <2>1, <2>2, <2>4, Frame DEF Retry
<1>7. ASSUME NEW u \in Urls, Fan(w, u) PROVE Honest'
  <2>0. work[w].pc = "fan" /\ c.ev \in Events /\ queue \subseteq Copies
    BY <1>0, <1>7 DEF Fan, Honest, TypeOK
  <2>1. queue \subseteq queue' BY <1>7, <2>0, StoredCopy DEF Fan
  <2>2. Kept BY <1>7, <2>1, GrowthKeeps DEF Fan
  <2>3. WorkHonest(w)' /\ \A v \in Workers : v # w => work'[v] = work[v]
    <3>1. CASE Goes(w, "fan", work[w].todo \ {u}) /\ (Stored(c.ev, u) \/ <<c.ev, u>> \in excused')
      <4>1. work[w].todo \ {u} \in SUBSET Urls BY DEF JobsTyped, Jobs
      <4>2. /\ work'[w].pc = "fan" /\ work'[w].copy = c /\ work'[w].todo = work[w].todo \ {u}
            /\ \A v \in Workers : v # w => work'[v] = work[v]
        BY <2>0, <3>1, <4>1, WorkerMoves
      <4>3. Settled(c.ev, u)' BY <2>0, <3>1, StoredCopy DEF Settled, Had
      <4>4. ASSUME NEW v \in Wanted(c.ev) \ (work[w].todo \ {u}) PROVE Settled(c.ev, v)'
        <5>1. v \in Urls BY DEF Wanted
        <5>2. v = u \/ Settled(c.ev, v) BY <1>h, <2>0 DEF WorkHonest
        <5> QED BY <2>0, <2>2, <4>3, <5>1, <5>2 DEF Kept
      <4> QED BY <1>h, <2>0, <4>2, <4>4 DEF WorkHonest
    <3>2. CASE Goes(w, "error", {})
      <4>1. work'[w].pc = "error" /\ \A v \in Workers : v # w => work'[v] = work[v]
        BY <2>0, <3>2, WorkerMoves
      <4> QED BY <4>1 DEF WorkHonest
    <3> QED BY <1>7, <3>1, <3>2 DEF Fan
  <2> QED BY <1>7, <2>2, <2>3, Frame DEF Fan
<1> QED BY <1>1, <1>2, <1>3, <1>4, <1>5, <1>6, <1>7 DEF WorkerStep

-----------------------------------------------------------------------------
(* dispatch only ever has destinations to do that ask for the event.       *)
PendingWanted == \A e \in Sessions : pending[e] \subseteq Wanted(e)

(* Every step keeps it so.                                                 *)
LEMMA PendingStep == TypeOK /\ PendingWanted /\ [Next]_vars => PendingWanted'
<1> SUFFICES ASSUME TypeOK, PendingWanted, [Next]_vars PROVE PendingWanted' OBVIOUS
<1> USE DEF PendingWanted, Wanted, Kind
<1>1. ASSUME NEW e \in Sessions, Dispatch(e) PROVE PendingWanted'
  BY <1>1 DEF Dispatch, TypeOK
<1>2. ASSUME NEW e \in Sessions, NEW u \in Urls, DispatchOne(e, u) PROVE PendingWanted'
  BY <1>2 DEF DispatchOne, TypeOK
<1>3. CASE Crash BY <1>3 DEF Crash
<1>4. CASE UNCHANGED pending BY <1>4
<1>5. \A m \in Messages : HandleMessage(m) => UNCHANGED pending BY DEF HandleMessage
<1>6. \A w \in Workers : WorkerStep(w) => UNCHANGED pending
  BY DEF WorkerStep, Take, LoadSubs, Send, MarkProcessed, Ack, Retry, Fan
<1>7. TaskStep => UNCHANGED pending BY DEF TaskStep, DirectLoad, sendWithRetry, DirectSend
<1>8. /\ \A e \in Events : Forgotten(e) => UNCHANGED pending
      /\ QueueDown \/ QueueUp => UNCHANGED pending
      /\ \A k \in marks : sweepLocked(k) => UNCHANGED pending
      /\ \A m \in Messages, u \in Urls \cup {NoUrl} : OtherAccount(m, u) => UNCHANGED pending
  BY DEF Forgotten, QueueDown, QueueUp, sweepLocked, OtherAccount
<1> QED BY <1>1, <1>2, <1>3, <1>4, <1>5, <1>6, <1>7, <1>8 DEF Next, vars, DispatchStep

(* The invariant is inductive.                                             *)
LEMMA HonestStep == Honest /\ PendingWanted /\ [Next]_vars => Honest'
<1> SUFFICES ASSUME Honest, PendingWanted, [Next]_vars PROVE Honest' OBVIOUS
<1> TypeOK' BY TypeStep DEF Honest
<1>1. ASSUME NEW m \in Messages, HandleMessage(m) PROVE Honest' BY <1>1, MessageHonest
<1>2. ASSUME NEW w \in Workers, WorkerStep(w) PROVE Honest' BY <1>2, WorkerHonest
<1>3. ASSUME NEW e \in Sessions, NEW u \in Urls, DispatchOne(e, u) PROVE Honest'
  BY <1>3, DispatchHonest DEF DispatchOne, PendingWanted
<1>4. CASE TaskStep
  <2>1. PICK t \in tasks : DirectLoad(t) \/ sendWithRetry(t) \/ \E u \in Urls : DirectSend(t, u)
    BY <1>4 DEF TaskStep
  <2>2. t.ev \in Events /\ got \in [Events -> [Urls -> Nat]] BY DEF Honest, TypeOK, Tasks
  <2>3. \A f \in Events, v \in Urls : got[f][v] > 0 => got'[f][v] > 0
    BY <2>1, <2>2, ProcessedGrows DEF DirectLoad, sendWithRetry, DirectSend
  <2>4. UNCHANGED <<queue, dead, accepted, excused, marks, work>>
    BY <2>1 DEF DirectLoad, sendWithRetry, DirectSend
  <2>5. Kept BY <2>3, <2>4, GrowthKeeps
  <2> QED BY <2>4, <2>5, Frame
<1>5. CASE QueueDown
  <2>1. Kept BY <1>5, GrowthKeeps DEF QueueDown
  <2>2. \A w \in Workers : /\ work'[w].pc = work[w].pc /\ work'[w].copy = work[w].copy
                            /\ work'[w].todo = work[w].todo
    BY <1>5 DEF QueueDown, Honest, TypeOK, Jobs
  <2>3. \A w \in Workers : WorkHonest(w)' BY <2>1, <2>2, WorkKept DEF Honest
  <2> QED BY <1>5, <2>1, <2>3, Frame DEF QueueDown
<1>6. CASE Crash
  <2>1. Kept BY <1>6, GrowthKeeps DEF Crash
  <2>2. \A w \in Workers : WorkHonest(w)' BY <1>6 DEF Crash, WorkHonest, Idle
  <2> QED BY <1>6, <2>1, <2>2, Frame DEF Crash
<1>7. CASE UNCHANGED <<queue, dead, got, accepted, excused, work>> /\ marks' \subseteq marks
  <2>1. Kept BY <1>7, GrowthKeeps
  <2> QED BY <1>7, <2>1, Frame
<1>8. /\ \A e \in Events : Forgotten(e) => UNCHANGED <<queue, dead, got, accepted, excused, work, marks>>
      /\ \A e \in Sessions : Dispatch(e) => UNCHANGED <<queue, dead, got, accepted, excused, work, marks>>
      /\ QueueUp \/ UNCHANGED vars => UNCHANGED <<queue, dead, got, accepted, excused, work, marks>>
  BY DEF Forgotten, Dispatch, QueueUp, vars
<1>9. \A k \in marks : sweepLocked(k) =>
        UNCHANGED <<queue, dead, got, accepted, excused, work>> /\ marks' \subseteq marks
  BY DEF sweepLocked
<1>10. ASSUME NEW m \in Messages, NEW u \in Urls \cup {NoUrl}, OtherAccount(m, u) PROVE Honest'
  <2>1. UNCHANGED <<queue, dead, got, accepted, work>> /\ excused \subseteq excused'
    BY <1>10 DEF OtherAccount
  <2>2. Kept BY <2>1, GrowthKeeps
  <2>3. PICK key : key = webhookDedupKey([ev |-> m, url |-> u]) OBVIOUS
  <2>4. key = <<IF u = NoUrl THEN "in" ELSE "out", m, u>> BY <2>3 DEF webhookDedupKey
  <2>5. marks' = marks \cup {key} BY <1>10, <2>3 DEF OtherAccount
  <2>6. ASSUME NEW e \in Events, <<"in", e, NoUrl>> \in marks' PROVE FannedOut(e)'
    <3>1. CASE <<"in", e, NoUrl>> \in marks
      <4>1. FannedOut(e) BY <3>1 DEF Honest, MarksHonest
      <4> QED BY <2>2, <4>1 DEF FannedOut, Kept, Wanted
    <3>2. CASE <<"in", e, NoUrl>> = key
      <4>1. e = m /\ u = NoUrl BY <2>4, <3>2
      <4>2. \A v \in Urls : <<e, v>> \in excused' BY <1>10, <4>1 DEF OtherAccount
      <4> QED BY <4>2 DEF FannedOut, Settled, Had, Wanted
    <3> QED BY <2>5, <2>6, <3>1, <3>2
  <2>7. ASSUME NEW e \in Events, NEW v \in Urls, <<"out", e, v>> \in marks' PROVE Had(e, v)'
    <3>1. CASE <<"out", e, v>> \in marks
      <4>1. Had(e, v) BY <3>1 DEF Honest, MarksHonest
      <4> QED BY <2>2, <4>1 DEF Kept
    <3>2. CASE <<"out", e, v>> = key
      <4>1. e = m /\ u = v /\ u # NoUrl BY <2>4, <3>2, WebhooksAssumption
      <4>2. <<e, v>> \in excused' BY <1>10, <4>1 DEF OtherAccount
      <4> QED BY <4>2 DEF Had
    <3> QED BY <2>5, <2>7, <3>1, <3>2
  <2>8. MarksHonest' BY <2>6, <2>7 DEF MarksHonest
  <2> QED BY <2>1, <2>2, <2>8, Frame
<1> QED BY <1>1, <1>2, <1>3, <1>4, <1>5, <1>6, <1>7, <1>8, <1>9, <1>10 DEF Next, DispatchStep

(* Every reachable state of the delivery pipeline is well typed.           *)
THEOREM TypeCorrect == Spec => []TypeOK
<1>1. Init => TypeOK BY InitHonest DEF Honest
<1> QED BY <1>1, TypeStep, PTL DEF Spec

(* An event the queue has accepted is never lost for one of its            *)
(* destinations, whatever crashes or fails, for any number of events,      *)
(* destinations, workers, retries and faults, with confirms or without,    *)
(* but for an unconfirmed publish the broker lost and for a dedup key that *)
(* another account's message with the same id has marked.                  *)
THEOREM NeverLost == Spec => []AtLeastOnce
<1>1. Init => Honest /\ PendingWanted BY InitHonest DEF Init, PendingWanted
<1>2. Honest /\ PendingWanted /\ [Next]_vars => (Honest /\ PendingWanted)'
  BY HonestStep, PendingStep DEF Honest
<1>3. Honest => AtLeastOnce BY DEF Honest
<1> QED BY <1>1, <1>2, <1>3, PTL DEF Spec

-----------------------------------------------------------------------------
(* The ring buffer                                                         *)

(* An index that is at most once around the ring.                          *)
LEMMA OnceAround ==
    ASSUME NEW n \in Nat \ {0}, NEW x \in Nat, x < n + n
    PROVE  x % n = IF x < n THEN x ELSE x - n
OBVIOUS

(* The ring holds the newest messages, the newest just behind its head.    *)
RingInv ==
    /\ pushed \in Seq(Messages)
    /\ ring \in [data : [0..(Cap - 1) -> Messages \cup {NoUrl}], head : 0..(Cap - 1), len : 0..Cap]
    /\ ring.len = IF Len(pushed) < Cap THEN Len(pushed) ELSE Cap
    /\ \A i \in 1..ring.len : ring.data[(ring.head + Cap - i) % Cap] = pushed[Len(pushed) + 1 - i]

(* A push keeps it so, below, at and beyond the capacity.                  *)
LEMMA PushKeepsRing ==
    ASSUME RingInv, NEW m \in Messages, Push(m) PROVE RingInv'
<1> DEFINE h == ring.head
           L == Len(pushed)
<1>0. Cap \in Nat \ {0} /\ h \in 0..(Cap - 1) /\ L \in Nat /\ ring.len \in 0..Cap
  BY WebhooksAssumption DEF RingInv
<1>1. /\ ring'.data = [ring.data EXCEPT ![h] = m]
      /\ ring'.head = (h + 1) % Cap
      /\ ring'.len = IF ring.len < Cap THEN ring.len + 1 ELSE ring.len
      /\ pushed' = Append(pushed, m)
  BY DEF Push
<1>2. ring'.head = IF h + 1 < Cap THEN h + 1 ELSE 0
  <2>0. PICK x \in Nat : x = h + 1 /\ x < Cap + Cap BY <1>0
  <2>1. x % Cap = IF x < Cap THEN x ELSE x - Cap BY <1>0, <2>0, OnceAround
  <2> QED BY <1>0, <1>1, <2>0, <2>1
<1>3. pushed' \in Seq(Messages) /\ Len(pushed') = L + 1
  BY <1>1 DEF RingInv
<1>4. ring' \in [data : [0..(Cap - 1) -> Messages \cup {NoUrl}], head : 0..(Cap - 1), len : 0..Cap]
  <2>1. ring'.data \in [0..(Cap - 1) -> Messages \cup {NoUrl}] BY <1>1 DEF RingInv
  <2>2. ring'.head \in 0..(Cap - 1) /\ ring'.len \in 0..Cap BY <1>0, <1>1, <1>2
  <2>3. ring' = [data |-> ring'.data, head |-> ring'.head, len |-> ring'.len] BY DEF Push
  <2> QED BY <2>1, <2>2, <2>3
<1>5. ring'.len = IF Len(pushed') < Cap THEN Len(pushed') ELSE Cap
  BY <1>0, <1>1, <1>3 DEF RingInv
<1>6. ASSUME NEW i \in 1..ring'.len
      PROVE  ring'.data[(ring'.head + Cap - i) % Cap] = pushed'[Len(pushed') + 1 - i]
  <2>0. i \in Nat /\ i >= 1 /\ i <= Cap BY <1>0, <1>1, <1>6
  <2> DEFINE x == ring'.head + Cap - i
  <2>1. x \in Nat /\ x < Cap + Cap BY <1>0, <1>2, <2>0
  <2>2. x % Cap = IF x < Cap THEN x ELSE x - Cap BY <1>0, <2>1, OnceAround
  <2>3. CASE i = 1
    <3>1. x % Cap = h BY <1>0, <1>2, <2>2, <2>3
    <3>2. ring'.data[h] = m BY <1>0, <1>1 DEF RingInv
    <3>3. pushed'[L + 1] = m BY <1>1 DEF RingInv
    <3> QED BY <1>0, <1>3, <2>3, <3>1, <3>2, <3>3
  <2>4. CASE i > 1
    <3> DEFINE y == h + Cap - (i - 1)
    <3>1. i - 1 \in 1..ring.len BY <1>0, <1>1, <1>6, <2>0, <2>4
    <3>2. y \in Nat /\ y < Cap + Cap BY <1>0, <2>0, <2>4
    <3>3. y % Cap = IF y < Cap THEN y ELSE y - Cap BY <1>0, <3>2, OnceAround
    <3>4. x % Cap = y % Cap /\ x % Cap # h /\ x % Cap \in 0..(Cap - 1)
      <4>1. PICK p : p = x % Cap OBVIOUS
      <4>2. PICK q : q = y % Cap OBVIOUS
      <4>3. p = IF x < Cap THEN x ELSE x - Cap BY <2>2, <4>1
      <4>4. q = IF y < Cap THEN y ELSE y - Cap BY <3>3, <4>2
      <4>5. p = q /\ p # h /\ p \in 0..(Cap - 1)
        <5>1. CASE h + 1 < Cap
          <6>1. x = h + 1 + Cap - i /\ y = h + 1 + Cap - i BY <1>0, <1>2, <2>0, <5>1
          <6>2. p = q BY <4>3, <4>4, <6>1
          <6>3. CASE i <= h + 1
            <7>1. p = h + 1 - i BY <1>0, <2>0, <4>3, <6>1, <6>3
            <7> QED BY <1>0, <2>0, <2>4, <6>2, <6>3, <7>1
          <6>4. CASE i > h + 1
            <7>1. p = h + 1 + Cap - i BY <1>0, <2>0, <4>3, <6>1, <6>4
            <7> QED BY <1>0, <2>0, <6>2, <6>4, <7>1
          <6> QED BY <1>0, <2>0, <6>3, <6>4
        <5>2. CASE h + 1 = Cap
          <6>1. x = Cap - i /\ y = Cap + Cap - i BY <1>0, <1>2, <2>0, <5>2
          <6>2. p = Cap - i /\ q = Cap - i BY <1>0, <2>0, <4>3, <4>4, <6>1
          <6> QED BY <1>0, <2>0, <2>4, <5>2, <6>2
        <5> QED BY <1>0, <5>1, <5>2
      <4> QED BY <4>1, <4>2, <4>5
    <3>5. ring'.data[x % Cap] = ring.data[x % Cap] BY <1>1, <3>4 DEF RingInv
    <3>6. ring.data[y % Cap] = pushed[L + 1 - (i - 1)] BY <3>1 DEF RingInv
    <3>7. L + 1 - (i - 1) \in 1..L BY <1>0, <3>1 DEF RingInv
    <3>8. pushed'[L + 1 - (i - 1)] = pushed[L + 1 - (i - 1)] BY <1>1, <3>7 DEF RingInv
    <3>9. Len(pushed') + 1 - i = L + 1 - (i - 1) BY <1>0, <1>3, <2>0
    <3> QED BY <3>4, <3>5, <3>6, <3>8, <3>9
  <2> QED BY <2>0, <2>3, <2>4
<1> QED BY <1>3, <1>4, <1>5, <1>6 DEF RingInv

(* Latest returns the newest messages, newest first, for every capacity    *)
(* and after any number of messages and crashes.                           *)
THEOREM LatestCorrect == Spec => []LatestIsNewest
<1>1. ASSUME ring = EmptyRing, pushed = <<>> PROVE RingInv
  BY <1>1, WebhooksAssumption DEF RingInv, EmptyRing
<1>2. RingInv /\ [Next]_vars => RingInv'
  <2> SUFFICES ASSUME RingInv, [Next]_vars PROVE RingInv' OBVIOUS
  <2>1. ASSUME NEW m \in Messages, HandleMessage(m) PROVE RingInv'
    BY <2>1, PushKeepsRing DEF HandleMessage
  <2>2. CASE Crash BY <2>2, WebhooksAssumption DEF Crash, RingInv, EmptyRing
  <2>3. CASE UNCHANGED <<ring, pushed>> BY <2>3 DEF RingInv
  <2>4. \A w \in Workers : WorkerStep(w) => UNCHANGED <<ring, pushed>>
    BY DEF WorkerStep, Take, LoadSubs, Send, MarkProcessed, Ack, Retry, Fan
  <2>5. TaskStep => UNCHANGED <<ring, pushed>> BY DEF TaskStep, DirectLoad, sendWithRetry, DirectSend
  <2>6. /\ \A e \in Events : Forgotten(e) => UNCHANGED <<ring, pushed>>
        /\ \A e \in Sessions : Dispatch(e) => UNCHANGED <<ring, pushed>>
        /\ \A k \in marks : sweepLocked(k) => UNCHANGED <<ring, pushed>>
        /\ \A m \in Messages, u \in Urls \cup {NoUrl} : OtherAccount(m, u) => UNCHANGED <<ring, pushed>>
        /\ DispatchStep \/ QueueDown \/ QueueUp \/ UNCHANGED vars => UNCHANGED <<ring, pushed>>
    BY DEF Forgotten, Dispatch, sweepLocked, OtherAccount, DispatchStep, DispatchOne, QueueDown,
           QueueUp, vars
  <2> QED BY <2>1, <2>2, <2>3, <2>4, <2>5, <2>6 DEF Next
<1>3. RingInv => LatestIsNewest
  <2> SUFFICES ASSUME RingInv, NEW n \in 0..(Cap + 1)
               PROVE  LET kept == IF Len(pushed) < Cap THEN Len(pushed) ELSE Cap
                          size == IF n < kept THEN n ELSE kept
                      IN  Latest(n) = [i \in 1..size |-> pushed[Len(pushed) + 1 - i]]
    BY DEF LatestIsNewest
  <2> DEFINE size == IF n < ring.len THEN n ELSE ring.len
  <2>1. size \in 0..ring.len /\ (IF n > ring.len THEN ring.len ELSE n) = size
    BY WebhooksAssumption DEF RingInv
  <2>2. \A i \in 1..size : ring.data[(ring.head + Cap - i) % Cap] = pushed[Len(pushed) + 1 - i]
    <3>1. \A i \in 1..size : i \in 1..ring.len BY <2>1, WebhooksAssumption DEF RingInv
    <3> QED BY <3>1 DEF RingInv
  <2>3. Latest(n) = [i \in 1..size |-> ring.data[(ring.head + Cap - i) % Cap]] BY <2>1 DEF Latest
  <2>4. Latest(n) = [i \in 1..size |-> pushed[Len(pushed) + 1 - i]] BY <2>2, <2>3
  <2> QED BY <2>4 DEF RingInv
<1> QED BY <1>1, <1>2, <1>3, PTL DEF Spec, Init

-----------------------------------------------------------------------------
(* Without a fault nobody is served twice                                  *)

(* A worker that has done its part of copy c for u.                        *)
Done(w, c, u) ==
    /\ work[w].copy = c
    /\ work[w].pc \in {"mark", "ack"} \/ (work[w].pc = "fan" /\ u \notin work[w].todo)

(* A queued copy that is yet to be sent, or fanned out, to u, and a        *)
(* goroutine that may yet send to u.                                       *)
CopyOwes(c, u) ==
    /\ IF c.url = NoUrl THEN u \in Wanted(c.ev) ELSE c.url = u
    /\ \A w \in Workers : ~Done(w, c, u)
TaskOwes(t, u) == IF t.kind = "direct" /\ ~t.loaded THEN u \in Wanted(t.ev) ELSE u \in t.todo

(* Everything that may yet bring e to u.                                   *)
CopyCarriers(e, u) == {c \in queue : c.ev = e /\ CopyOwes(c, u)}
TaskCarriers(e, u) == {t \in tasks : t.ev = e /\ TaskOwes(t, u)}
LoopCarriers(e, u) == {x \in {NoUrl} : e \in Sessions /\ u \in pending[e]}
Carriers(e, u) ==
    ({"copy"} \X CopyCarriers(e, u)) \cup ({"task"} \X TaskCarriers(e, u))
        \cup ({"loop"} \X LoopCarriers(e, u))

(* One carrier, or one request had, and never both.                        *)
OneWay(e, u) ==
    /\ got[e][u] <= 1
    /\ Carriers(e, u) # {} => got[e][u] = 0
    /\ \A x, y \in Carriers(e, u) : x = y

(* Nothing is on its way for an event that has not come.                   *)
NotYet(e) ==
    /\ \A c \in queue : c.ev # e
    /\ \A t \in tasks : t.ev # e
    /\ e \in Sessions => pending[e] = {}
    /\ \A u \in Urls : got[e][u] = 0

(* A busy worker's copy is queued, is its own, fails only at a receiver    *)
(* and is fanned out only to who asks for it.                              *)
Exclusive ==
    /\ \A w \in Workers : work[w].pc # "idle" =>
          /\ up /\ work[w].live /\ work[w].copy \in queue
          /\ work[w].pc = "error" => work[w].copy.url # NoUrl
          /\ work[w].pc = "fan" => work[w].todo \subseteq Wanted(work[w].copy.ev)
    /\ \A v, w \in Workers :
          work[v].pc # "idle" /\ work[w].pc # "idle" /\ work[v].copy = work[w].copy => v = w

Single ==
    /\ Exclusive
    /\ \A e \in Events : e \notin arrived => NotYet(e)
    /\ \A e \in Events, u \in Urls : OneWay(e, u)

SingleInv == faults = 0 => Single

(* How a step may change what is on its way: nothing new ...               *)
LEMMA OneWayKept ==
    ASSUME NEW e, NEW u, OneWay(e, u), got'[e][u] = got[e][u], Carriers(e, u)' \subseteq Carriers(e, u)
    PROVE  OneWay(e, u)'
BY DEF OneWay

(* ... one carrier handing over to another ...                             *)
LEMMA OneWayMoved ==
    ASSUME NEW e, NEW u, NEW x, NEW y, OneWay(e, u), got'[e][u] = got[e][u],
           x \in Carriers(e, u), Carriers(e, u)' \subseteq (Carriers(e, u) \ {x}) \cup {y}
    PROVE  OneWay(e, u)'
BY DEF OneWay

(* ... a carrier that delivers ...                                         *)
LEMMA OneWaySpent ==
    ASSUME NEW e, NEW u, NEW x, OneWay(e, u), got'[e][u] = got[e][u] + 1,
           x \in Carriers(e, u), Carriers(e, u)' \subseteq Carriers(e, u) \ {x}
    PROVE  OneWay(e, u)'
<1>1. got[e][u] = 0 /\ Carriers(e, u)' = {} BY DEF OneWay
<1> QED BY <1>1 DEF OneWay

(* ... or the first carrier.                                               *)
LEMMA OneWayStarted ==
    ASSUME NEW e, NEW u, NEW y, got'[e][u] = 0, Carriers(e, u)' \subseteq {y}
    PROVE  OneWay(e, u)'
BY DEF OneWay

(* Carriers shrink when each kind of them does.                            *)
LEMMA CarriersShrink ==
    ASSUME NEW e, NEW u, CopyCarriers(e, u)' \subseteq CopyCarriers(e, u),
           TaskCarriers(e, u)' \subseteq TaskCarriers(e, u),
           LoopCarriers(e, u)' \subseteq LoopCarriers(e, u)
    PROVE  Carriers(e, u)' \subseteq Carriers(e, u)
BY DEF Carriers

(* The copies ...                                                          *)
LEMMA CopiesSame ==
    ASSUME NEW e, NEW u, UNCHANGED <<queue, work>>
    PROVE  CopyCarriers(e, u)' = CopyCarriers(e, u)
BY DEF CopyCarriers, CopyOwes, Done, Wanted, Kind

(* ... the goroutines ...                                                  *)
LEMMA TasksSame ==
    ASSUME NEW e, NEW u, UNCHANGED tasks PROVE TaskCarriers(e, u)' = TaskCarriers(e, u)
BY DEF TaskCarriers, TaskOwes, Wanted, Kind

(* ... and the loops are as they were.                                     *)
LEMMA LoopsSame ==
    ASSUME NEW e, NEW u, UNCHANGED pending PROVE LoopCarriers(e, u)' = LoopCarriers(e, u)
BY DEF LoopCarriers

(* A publish adds one copy of the event for the destination.               *)
LEMMA StoredOne ==
    ASSUME NEW e \in Events, NEW u \in Urls \cup {NoUrl}, Stored(e, u)
    PROVE  \E n : n.ev = e /\ n.url = u /\ queue' = queue \cup {n}
<1>1. NewCopy(e, u).ev = e /\ NewCopy(e, u).url = u BY DEF NewCopy
<1> QED BY <1>1 DEF Stored

(* One request more.                                                       *)
LEMMA ProcessedOnce ==
    ASSUME NEW e \in Events, NEW u \in Urls, got \in [Events -> [Urls -> Nat]], Processed(e, u)
    PROVE  /\ got'[e][u] = got[e][u] + 1
           /\ \A f \in Events, v \in Urls : f # e \/ v # u => got'[f][v] = got[f][v]
<1> DEFINE g == [got[e] EXCEPT ![u] = got[e][u] + 1]
<1>1. got' = [got EXCEPT ![e] = g] BY DEF Processed
<1>2. g[u] = got[e][u] + 1 /\ \A v \in Urls : v # u => g[v] = got[e][v] OBVIOUS
<1> HIDE DEF g
<1> QED BY <1>1, <1>2

(* Without a fault, the count of faults was zero before.                   *)
LEMMA FaultCounts == TypeOK /\ Fault => faults' # 0
BY DEF TypeOK, Fault

-----------------------------------------------------------------------------
(* Each step keeps the single way                                          *)

(* A message: one copy or one goroutine, for an event that was not there.  *)
LEMMA MessageSingle ==
    ASSUME TypeOK, Single, NEW m \in Messages, HandleMessage(m), faults' = 0
    PROVE  Single'
<1>0. m \in Events /\ m \notin Sessions BY WebhooksAssumption DEF Events
<1>1. NotYet(m) BY <1>0 DEF HandleMessage, Single
<1>2. UNCHANGED <<work, pending, got, up>> /\ arrived' = arrived \cup {m} BY DEF HandleMessage
<1>3. \/ UNCHANGED tasks /\ \E n : n.ev = m /\ queue' = queue \cup {n}
      \/ UNCHANGED queue /\ \E t : t.ev = m /\ tasks' \subseteq tasks \cup {t}
  <2>1. CASE Stored(m, NoUrl) /\ UNCHANGED tasks BY <1>0, <2>1, StoredOne
  <2>2. CASE Direct(m) /\ UNCHANGED queue
    <3> DEFINE d == [kind |-> "direct", ev |-> m, loaded |-> FALSE, todo |-> {}, tries |-> 0]
    <3>1. tasks' \subseteq tasks \cup {d} BY <2>2, Zenon DEF Direct
    <3>2. d.ev = m OBVIOUS
    <3> QED BY <2>2, <3>1, <3>2
  <2> QED BY <2>1, <2>2, FaultCounts DEF HandleMessage
<1>4. Exclusive' BY <1>2, <1>3 DEF Exclusive, Single
<1>5. ASSUME NEW e \in Events, e \notin arrived' PROVE NotYet(e)'
  BY <1>2, <1>3, <1>5 DEF NotYet, Single
<1>6. ASSUME NEW e \in Events, NEW u \in Urls PROVE OneWay(e, u)'
  <2>1. OneWay(e, u) /\ got'[e][u] = got[e][u] BY <1>2 DEF Single
  <2>2. CASE e # m
    <3>1. CopyCarriers(e, u)' \subseteq CopyCarriers(e, u)
      BY <1>2, <1>3, <2>2 DEF CopyCarriers, CopyOwes, Done, Wanted, Kind
    <3>2. TaskCarriers(e, u)' \subseteq TaskCarriers(e, u)
      BY <1>3, <2>2 DEF TaskCarriers, TaskOwes, Wanted, Kind
    <3>3. Carriers(e, u)' \subseteq Carriers(e, u) BY <1>2, <3>1, <3>2, LoopsSame, CarriersShrink
    <3> QED BY <2>1, <3>3, OneWayKept
  <2>3. CASE e = m
    <3>1. got'[e][u] = 0 BY <1>1, <2>1, <2>3 DEF NotYet
    <3>2. LoopCarriers(e, u)' = {} BY <1>0, <2>3 DEF LoopCarriers
    <3>3. \E y : Carriers(e, u)' \subseteq {y}
      <4>1. ASSUME NEW n, UNCHANGED tasks, queue' = queue \cup {n}
            PROVE  Carriers(e, u)' \subseteq {<<"copy", n>>}
        <5>1. CopyCarriers(e, u)' \subseteq {n} BY <1>1, <2>3, <4>1 DEF CopyCarriers, NotYet
        <5>2. TaskCarriers(e, u)' = {} BY <1>1, <2>3, <4>1 DEF TaskCarriers, NotYet
        <5> QED BY <3>2, <5>1, <5>2 DEF Carriers
      <4>2. ASSUME NEW t, UNCHANGED queue, tasks' \subseteq tasks \cup {t}
            PROVE  Carriers(e, u)' \subseteq {<<"task", t>>}
        <5>1. CopyCarriers(e, u)' = {} BY <1>1, <2>3, <4>2 DEF CopyCarriers, NotYet
        <5>2. TaskCarriers(e, u)' \subseteq {t} BY <1>1, <2>3, <4>2 DEF TaskCarriers, NotYet
        <5> QED BY <3>2, <5>1, <5>2 DEF Carriers
      <4> QED BY <1>3, <4>1, <4>2
    <3> QED BY <3>1, <3>3, OneWayStarted
  <2> QED BY <2>2, <2>3
<1> QED BY <1>4, <1>5, <1>6 DEF Single

(* A lifecycle event: the loop over its destinations.                      *)
LEMMA EventSingle ==
    ASSUME TypeOK, Single, NEW e \in Sessions, Dispatch(e) PROVE Single'
<1>0. e \in Events BY DEF Events
<1>1. NotYet(e) BY <1>0 DEF Dispatch, Single
<1>2. /\ UNCHANGED <<work, queue, tasks, got, up>> /\ arrived' = arrived \cup {e}
      /\ \A f \in Sessions : f # e => pending'[f] = pending[f]
  BY DEF Dispatch, TypeOK
<1>3. Exclusive' BY <1>2 DEF Exclusive, Single
<1>4. ASSUME NEW f \in Events, f \notin arrived' PROVE NotYet(f)'
  BY <1>2, <1>4 DEF NotYet, Single
<1>5. ASSUME NEW f \in Events, NEW u \in Urls PROVE OneWay(f, u)'
  <2>1. OneWay(f, u) /\ got'[f][u] = got[f][u] BY <1>2 DEF Single
  <2>2. CASE f # e
    <3>1. LoopCarriers(f, u)' \subseteq LoopCarriers(f, u) BY <1>2, <2>2 DEF LoopCarriers
    <3>2. Carriers(f, u)' \subseteq Carriers(f, u)
      BY <1>2, <3>1, CopiesSame, TasksSame, CarriersShrink
    <3> QED BY <2>1, <3>2, OneWayKept
  <2>3. CASE f = e
    <3>1. got'[f][u] = 0 BY <1>1, <2>1, <2>3 DEF NotYet
    <3>2. CopyCarriers(f, u)' = {} /\ TaskCarriers(f, u)' = {}
      BY <1>1, <1>2, <2>3 DEF CopyCarriers, TaskCarriers, NotYet
    <3>3. LoopCarriers(f, u)' \subseteq {NoUrl} BY DEF LoopCarriers
    <3>4. Carriers(f, u)' \subseteq {<<"loop", NoUrl>>} BY <3>2, <3>3 DEF Carriers
    <3> QED BY <3>1, <3>4, OneWayStarted
  <2> QED BY <2>2, <2>3
<1> QED BY <1>3, <1>4, <1>5 DEF Single

(* The loop hands one destination over to a copy or a goroutine.           *)
LEMMA LoopSingle ==
    ASSUME TypeOK, Single, NEW e \in Sessions, NEW u \in Urls, DispatchOne(e, u), faults' = 0
    PROVE  Single'
<1>0. e \in Events BY DEF Events
<1>1. /\ UNCHANGED <<arrived, work, got, up>> /\ u \in pending[e]
      /\ pending'[e] = pending[e] \ {u} /\ \A f \in Sessions : f # e => pending'[f] = pending[f]
  BY DEF DispatchOne, TypeOK
<1>2. e \in arrived BY <1>0, <1>1 DEF Single, NotYet
<1>3. \/ UNCHANGED tasks /\ \E n : n.ev = e /\ n.url = u /\ queue' = queue \cup {n}
      \/ UNCHANGED queue /\ \E t : t.ev = e /\ t.todo = {u} /\ t.loaded /\ tasks' \subseteq tasks \cup {t}
  <2>1. CASE Stored(e, u) /\ UNCHANGED tasks BY <1>0, <2>1, StoredOne
  <2>2. CASE SendAsync(e, u) /\ UNCHANGED queue
    <3> DEFINE d == [kind |-> "async", ev |-> e, loaded |-> TRUE, todo |-> {u}, tries |-> 0]
    <3>1. tasks' \subseteq tasks \cup {d} BY <2>2, Zenon DEF SendAsync
    <3>2. d.ev = e /\ d.todo = {u} /\ d.loaded OBVIOUS
    <3> QED BY <2>2, <3>1, <3>2
  <2> QED BY <2>1, <2>2, FaultCounts DEF DispatchOne
<1>4. Exclusive' BY <1>1, <1>3 DEF Exclusive, Single
<1>5. ASSUME NEW f \in Events, f \notin arrived' PROVE NotYet(f)'
  BY <1>1, <1>2, <1>3, <1>5 DEF NotYet, Single
<1>6. ASSUME NEW f \in Events, NEW v \in Urls PROVE OneWay(f, v)'
  <2>1. OneWay(f, v) /\ got'[f][v] = got[f][v] BY <1>1 DEF Single
  <2>2. LoopCarriers(f, v)' \subseteq LoopCarriers(f, v) BY <1>1 DEF LoopCarriers
  <2>3. CASE f # e \/ v # u
    <3>1. CopyCarriers(f, v)' \subseteq CopyCarriers(f, v)
      BY <1>1, <1>3, <2>3, WebhooksAssumption DEF CopyCarriers, CopyOwes, Done, Wanted, Kind
    <3>2. TaskCarriers(f, v)' \subseteq TaskCarriers(f, v)
      BY <1>3, <2>3 DEF TaskCarriers, TaskOwes, Wanted, Kind
    <3>3. Carriers(f, v)' \subseteq Carriers(f, v) BY <2>2, <3>1, <3>2, CarriersShrink
    <3> QED BY <2>1, <3>3, OneWayKept
  <2>4. CASE f = e /\ v = u
    <3>1. <<"loop", NoUrl>> \in Carriers(f, v) BY <1>1, <2>4 DEF Carriers, LoopCarriers
    <3>2. LoopCarriers(f, v)' = {} BY <1>1, <2>4 DEF LoopCarriers
    <3>3. \E y : Carriers(f, v)' \subseteq (Carriers(f, v) \ {<<"loop", NoUrl>>}) \cup {y}
      <4>1. ASSUME NEW n, UNCHANGED tasks, queue' = queue \cup {n}
            PROVE  Carriers(f, v)' \subseteq (Carriers(f, v) \ {<<"loop", NoUrl>>}) \cup {<<"copy", n>>}
        <5>1. CopyCarriers(f, v)' \subseteq CopyCarriers(f, v) \cup {n}
          BY <1>1, <4>1 DEF CopyCarriers, CopyOwes, Done, Wanted, Kind
        <5> QED BY <3>2, <4>1, <5>1, TasksSame DEF Carriers
      <4>2. ASSUME NEW t, UNCHANGED queue, tasks' \subseteq tasks \cup {t}
            PROVE  Carriers(f, v)' \subseteq (Carriers(f, v) \ {<<"loop", NoUrl>>}) \cup {<<"task", t>>}
        <5>1. TaskCarriers(f, v)' \subseteq TaskCarriers(f, v) \cup {t}
          BY <4>2 DEF TaskCarriers, TaskOwes, Wanted, Kind
        <5> QED BY <1>1, <3>2, <4>2, <5>1, CopiesSame DEF Carriers
      <4> QED BY <1>3, <4>1, <4>2
    <3> QED BY <2>1, <3>1, <3>3, OneWayMoved
  <2> QED BY <2>3, <2>4
<1> QED BY <1>4, <1>5, <1>6 DEF Single

(* What every goroutine's step leaves alone.                               *)
LEMMA TaskFrame ==
    ASSUME TypeOK, Single, NEW t \in tasks, UNCHANGED <<arrived, up, queue, work, pending>>,
           \A s \in tasks' : s \in tasks \/ s.ev = t.ev,
           \A f \in Events, v \in Urls : f # t.ev => got'[f][v] = got[f][v],
           \A f \in Events, v \in Urls : OneWay(f, v)'
    PROVE  Single'
<1>1. t.ev \in Events BY DEF TypeOK, Tasks
<1>2. t.ev \in arrived BY <1>1 DEF Single, NotYet
<1>3. Exclusive' BY DEF Exclusive, Single
<1>4. ASSUME NEW f \in Events, f \notin arrived' PROVE NotYet(f)'
  BY <1>2, <1>4 DEF NotYet, Single
<1> QED BY <1>3, <1>4 DEF Single

(* A goroutine: it turns into what it owes, or sends and is done with it.  *)
LEMMA TaskSingle ==
    ASSUME TypeOK, Single, TaskStep, faults' = 0 PROVE Single'
<1>1. PICK t \in tasks : DirectLoad(t) \/ sendWithRetry(t) \/ \E u \in Urls : DirectSend(t, u)
  BY DEF TaskStep
<1>2. /\ t \in Tasks /\ t.ev \in Events /\ t.todo \subseteq Urls
      /\ got \in [Events -> [Urls -> Nat]]
  BY DEF TypeOK, Tasks
<1>3. UNCHANGED <<arrived, up, queue, work, pending>>
  BY <1>1 DEF DirectLoad, sendWithRetry, DirectSend
<1>4. ASSUME NEW f \in Events, NEW v \in Urls
      PROVE  /\ OneWay(f, v)
             /\ v \in t.todo /\ f = t.ev /\ (t.loaded \/ t.kind = "async") => <<"task", t>> \in Carriers(f, v)
             /\ TaskCarriers(f, v)' \subseteq TaskCarriers(f, v) => Carriers(f, v)' \subseteq Carriers(f, v)
             /\ TaskCarriers(f, v)' \subseteq TaskCarriers(f, v) \ {t} =>
                   Carriers(f, v)' \subseteq Carriers(f, v) \ {<<"task", t>>}
             /\ \A s : TaskCarriers(f, v)' \subseteq (TaskCarriers(f, v) \ {t}) \cup {s} =>
                   Carriers(f, v)' \subseteq (Carriers(f, v) \ {<<"task", t>>}) \cup {<<"task", s>>}
  <2>1. OneWay(f, v) BY DEF Single
  <2>2. v \in t.todo /\ f = t.ev /\ (t.loaded \/ t.kind = "async") => t \in TaskCarriers(f, v)
    BY DEF TaskCarriers, TaskOwes
  <2>3. CopyCarriers(f, v)' = CopyCarriers(f, v) /\ LoopCarriers(f, v)' = LoopCarriers(f, v)
    BY <1>3, CopiesSame, LoopsSame
  <2> QED BY <2>1, <2>2, <2>3 DEF Carriers
<1>5. CASE DirectLoad(t)
  <2> DEFINE s == [t EXCEPT !.loaded = TRUE, !.todo = Wanted(t.ev)]
  <2>1. UNCHANGED got BY <1>5 DEF DirectLoad
  <2>2. tasks' = tasks \ {t} \/ tasks' = (tasks \ {t}) \cup {s} BY <1>5 DEF DirectLoad
  <2>3. s.ev = t.ev /\ s.todo = Wanted(t.ev) /\ s.loaded /\ t.kind = "direct" /\ ~t.loaded
    BY <1>2, <1>5 DEF DirectLoad, Tasks
  <2> HIDE DEF s
  <2>4. ASSUME NEW f \in Events, NEW v \in Urls PROVE OneWay(f, v)'
    <3>1. CASE f = t.ev /\ v \in Wanted(f)
      <4>1. <<"task", t>> \in Carriers(f, v)
        BY <2>3, <3>1 DEF Carriers, TaskCarriers, TaskOwes
      <4>2. TaskCarriers(f, v)' \subseteq (TaskCarriers(f, v) \ {t}) \cup {s}
        BY <2>2 DEF TaskCarriers, TaskOwes, Wanted, Kind
      <4>3. Carriers(f, v)' \subseteq (Carriers(f, v) \ {<<"task", t>>}) \cup {<<"task", s>>}
        BY <1>4, <4>2
      <4>4. OneWay(f, v) /\ got'[f][v] = got[f][v] BY <1>4, <2>1
      <4> QED BY <4>1, <4>3, <4>4, OneWayMoved
    <3>2. CASE f # t.ev \/ v \notin Wanted(f)
      <4>1. s \in TaskCarriers(f, v)' => FALSE
        BY <2>3, <3>2 DEF TaskCarriers, TaskOwes, Wanted, Kind
      <4>2. TaskCarriers(f, v)' \subseteq TaskCarriers(f, v)
        BY <2>2, <4>1 DEF TaskCarriers, TaskOwes, Wanted, Kind
      <4> QED BY <1>4, <2>1, <4>2, OneWayKept
    <3> QED BY <3>1, <3>2
  <2> QED BY <1>3, <2>1, <2>2, <2>3, <2>4, TaskFrame
<1>6. CASE sendWithRetry(t)
  <2> DEFINE s == [t EXCEPT !.tries = @ + 1]
  <2>0. t.kind = "async" BY <1>6 DEF sendWithRetry
  <2>1. s.ev = t.ev /\ s.todo = t.todo /\ s.kind = "async" BY <1>2, <2>0 DEF Tasks
  <2> HIDE DEF s
  <2>2. CASE tasks' = tasks \ {t} /\ \E u \in t.todo : Processed(t.ev, u)
    <3>1. PICK u \in t.todo : Processed(t.ev, u) BY <2>2
    <3>2. /\ got'[t.ev][u] = got[t.ev][u] + 1
          /\ \A f \in Events, v \in Urls : f # t.ev \/ v # u => got'[f][v] = got[f][v]
      BY <1>2, <3>1, ProcessedOnce
    <3>3. ASSUME NEW f \in Events, NEW v \in Urls PROVE OneWay(f, v)'
      <4>1. TaskCarriers(f, v)' \subseteq TaskCarriers(f, v) \ {t}
        BY <2>2 DEF TaskCarriers, TaskOwes, Wanted, Kind
      <4>2. CASE f = t.ev /\ v = u
        <5>1. <<"task", t>> \in Carriers(f, v) BY <1>4, <2>0, <4>2
        <5> QED BY <1>4, <3>2, <4>1, <4>2, <5>1, OneWaySpent
      <4>3. CASE f # t.ev \/ v # u
        BY <1>4, <3>2, <4>1, <4>3, OneWayKept
      <4> QED BY <4>2, <4>3
    <3> QED BY <1>3, <2>2, <3>2, <3>3, TaskFrame
  <2>3. CASE UNCHANGED got /\ tasks' \in {tasks \ {t}, (tasks \ {t}) \cup {s}}
    <3>1. ASSUME NEW f \in Events, NEW v \in Urls PROVE OneWay(f, v)'
      <4>1. TaskCarriers(f, v)' \subseteq (TaskCarriers(f, v) \ {t}) \cup {s}
        BY <2>3 DEF TaskCarriers, TaskOwes, Wanted, Kind
      <4>2. CASE f = t.ev /\ v \in t.todo
        <5>1. <<"task", t>> \in Carriers(f, v) BY <1>4, <2>0, <4>2
        <5>2. Carriers(f, v)' \subseteq (Carriers(f, v) \ {<<"task", t>>}) \cup {<<"task", s>>}
          BY <1>4, <4>1
        <5>3. OneWay(f, v) /\ got'[f][v] = got[f][v] BY <1>4, <2>3
        <5> QED BY <5>1, <5>2, <5>3, OneWayMoved
      <4>3. CASE f # t.ev \/ v \notin t.todo
        <5>1. s \notin TaskCarriers(f, v)' BY <2>1, <4>3 DEF TaskCarriers, TaskOwes
        <5> QED BY <1>4, <2>3, <4>1, <5>1, OneWayKept
      <4> QED BY <4>2, <4>3
    <3> QED BY <1>3, <2>1, <2>3, <3>1, TaskFrame
  <2> QED BY <1>6, <2>2, <2>3, FaultCounts DEF sendWithRetry, s
<1>7. ASSUME NEW u \in Urls, DirectSend(t, u) PROVE Single'
  <2> DEFINE s == [t EXCEPT !.todo = @ \ {u}]
  <2>0. t.kind = "direct" /\ t.loaded /\ u \in t.todo BY <1>7 DEF DirectSend
  <2>1. s.ev = t.ev /\ s.todo = t.todo \ {u} /\ s.loaded BY <1>2, <2>0 DEF Tasks
  <2>2. tasks' = tasks \ {t} \/ tasks' = (tasks \ {t}) \cup {s} BY <1>7 DEF DirectSend
  <2> HIDE DEF s
  <2>3. \/ UNCHANGED got
        \/ /\ got'[t.ev][u] = got[t.ev][u] + 1
           /\ \A f \in Events, v \in Urls : f # t.ev \/ v # u => got'[f][v] = got[f][v]
    BY <1>2, <1>7, ProcessedOnce DEF DirectSend
  <2>4. ASSUME NEW f \in Events, NEW v \in Urls PROVE OneWay(f, v)'
    <3>1. TaskCarriers(f, v)' \subseteq (TaskCarriers(f, v) \ {t}) \cup {s}
      BY <2>2 DEF TaskCarriers, TaskOwes, Wanted, Kind
    <3>2. f # t.ev \/ v \notin t.todo \/ v = u => s \notin TaskCarriers(f, v)'
      BY <2>1 DEF TaskCarriers, TaskOwes
    <3>3. CASE f = t.ev /\ v = u
      <4>1. <<"task", t>> \in Carriers(f, v) BY <1>4, <2>0, <3>3
      <4>2. TaskCarriers(f, v)' \subseteq TaskCarriers(f, v) \ {t} BY <3>1, <3>2, <3>3
      <4>3. CASE UNCHANGED got BY <1>4, <4>2, <4>3, OneWayKept
      <4>4. CASE got'[t.ev][u] = got[t.ev][u] + 1 BY <1>4, <3>3, <4>1, <4>2, <4>4, OneWaySpent
      <4> QED BY <2>3, <4>3, <4>4
    <3>4. CASE f = t.ev /\ v # u /\ v \in t.todo
      <4>1. <<"task", t>> \in Carriers(f, v) BY <1>4, <2>0, <3>4
      <4>2. Carriers(f, v)' \subseteq (Carriers(f, v) \ {<<"task", t>>}) \cup {<<"task", s>>}
        BY <1>4, <3>1
      <4>3. OneWay(f, v) /\ got'[f][v] = got[f][v] BY <1>4, <2>3, <3>4
      <4> QED BY <4>1, <4>2, <4>3, OneWayMoved
    <3>5. CASE f # t.ev \/ v \notin t.todo
      <4>1. v # u \/ f # t.ev BY <2>0, <3>5
      <4> QED BY <1>4, <2>3, <3>1, <3>2, <3>5, <4>1, OneWayKept
    <3> QED BY <3>3, <3>4, <3>5
  <2> QED BY <1>3, <2>1, <2>2, <2>3, <2>4, TaskFrame
<1> QED BY <1>1, <1>5, <1>6, <1>7

(* What a worker's step has to show: which copies are queued after it, who *)
(* holds them, and what the workers have done with them.                   *)
LEMMA WorkerFrame ==
    ASSUME TypeOK, Single, Exclusive', UNCHANGED <<arrived, tasks, pending>>,
           NEW e \in Events, e \in arrived,
           \A c \in queue' : c \in queue \/ c.ev = e,
           \A f \in Events, v \in Urls : f # e => got'[f][v] = got[f][v],
           \A f \in Events, v \in Urls : OneWay(f, v)'
    PROVE  Single'
<1>1. ASSUME NEW f \in Events, f \notin arrived' PROVE NotYet(f)'
  BY <1>1 DEF NotYet, Single
<1> QED BY <1>1 DEF Single

(* A busy worker's copy, and what the others have to do with it.           *)
LEMMA HeldCopy ==
    ASSUME TypeOK, Single, NEW w \in Workers, work[w].pc # "idle", NEW c, c = work[w].copy
    PROVE  /\ c \in queue /\ c \in Copies /\ c.ev \in Events /\ c.ev \in arrived
           /\ c.url \in Urls \cup {NoUrl} /\ Wanted(c.ev) \subseteq Urls
           /\ up /\ work[w].live
           /\ \A v \in Workers, u \in Urls : v # w => ~Done(v, c, u)
<1>1. c \in queue /\ up /\ work[w].live BY DEF Single, Exclusive
<1>2. c \in Copies BY <1>1 DEF TypeOK
<1>3. c.ev \in Events /\ c.url \in Urls \cup {NoUrl} BY <1>2 DEF Copies
<1>4. c.ev \in arrived BY <1>1, <1>3 DEF Single, NotYet
<1>5. ASSUME NEW v \in Workers, NEW u \in Urls, v # w PROVE ~Done(v, c, u)
  BY <1>5 DEF Single, Exclusive, Done
<1> QED BY <1>1, <1>2, <1>3, <1>4, <1>5 DEF Wanted

(* Carriers of which only the copies change.                               *)
LEMMA CopyMoves ==
    ASSUME NEW e, NEW u, UNCHANGED <<tasks, pending>>
    PROVE  /\ CopyCarriers(e, u)' \subseteq CopyCarriers(e, u) => Carriers(e, u)' \subseteq Carriers(e, u)
           /\ \A c : CopyCarriers(e, u)' \subseteq CopyCarriers(e, u) \ {c} =>
                        Carriers(e, u)' \subseteq Carriers(e, u) \ {<<"copy", c>>}
           /\ \A c \in CopyCarriers(e, u) : <<"copy", c>> \in Carriers(e, u)
<1>1. TaskCarriers(e, u)' = TaskCarriers(e, u) /\ LoopCarriers(e, u)' = LoopCarriers(e, u)
  BY TasksSame, LoopsSame
<1> QED BY <1>1 DEF Carriers

(* A worker that only moves on: nothing is owed that was not.              *)
LEMMA MovesOn ==
    ASSUME TypeOK, Single, NEW w \in Workers, UNCHANGED <<arrived, up, queue, tasks, pending, got>>,
           \A v \in Workers : v # w => work'[v] = work[v],
           work'[w].live, up, work'[w].copy \in queue,
           work'[w].pc = "error" => work'[w].copy.url # NoUrl,
           work'[w].pc = "fan" => work'[w].todo \subseteq Wanted(work'[w].copy.ev),
           \A v \in Workers : v # w /\ work[v].pc # "idle" => work[v].copy # work'[w].copy,
           \A c \in queue, u \in Urls : Done(w, c, u) => Done(w, c, u)'
    PROVE  Single'
<1>1. Exclusive' BY DEF Single, Exclusive
<1>2. ASSUME NEW f \in Events, NEW v \in Urls PROVE OneWay(f, v)'
  <2>1. \A c \in queue, x \in Workers : Done(x, c, v) => Done(x, c, v)' BY DEF Done
  <2>2. CopyCarriers(f, v)' \subseteq CopyCarriers(f, v)
    BY <2>1 DEF CopyCarriers, CopyOwes, Wanted, Kind
  <2>3. OneWay(f, v) BY DEF Single
  <2> QED BY <2>2, <2>3, CopyMoves, OneWayKept
<1>3. work'[w].copy.ev \in Events BY DEF TypeOK, Copies
<1>4. work'[w].copy.ev \in arrived BY <1>3 DEF Single, NotYet
<1> QED BY <1>1, <1>2, <1>3, <1>4, WorkerFrame

(* A worker's step.                                                        *)
LEMMA WorkerSingle ==
    ASSUME Honest, Single, NEW w \in Workers, WorkerStep(w), faults' = 0 PROVE Single'
<1> PICK c : c = work[w].copy OBVIOUS
<1>t. TypeOK /\ JobsTyped /\ {} \in SUBSET Urls /\ WorkHonest(w) BY DEF JobsTyped, Honest, TypeOK
<1>x. /\ \A v \in Workers : work[v].pc # "idle" => work[v].live /\ work[v].copy \in queue
      /\ \A v \in Workers : v # w /\ work[v].pc # "idle" /\ work[w].pc # "idle" => work[v].copy # c
  BY DEF Single, Exclusive
<1>1. ASSUME NEW d \in queue, Take(w, d) PROVE Single'
  <2>1. /\ UNCHANGED <<arrived, up, queue, tasks, pending, got>> /\ up
        /\ \A v \in Workers : v # w => work'[v] = work[v]
        /\ work'[w].copy = d /\ work'[w].live /\ work'[w].pc \in {"ack", "subs", "send"}
    BY <1>1, <1>t DEF Take, JobsTyped
  <2>2. \A v \in Workers : v # w /\ work[v].pc # "idle" => work[v].copy # d
    BY <1>1, <1>x DEF Take, Held
  <2>3. \A b \in queue, u \in Urls : ~Done(w, b, u) BY <1>1 DEF Take, Done
  <2> QED BY <1>t, <2>1, <2>2, <2>3, MovesOn
<1>2. CASE LoadSubs(w)
  <2>1. Wanted(c.ev) \in SUBSET Urls /\ work[w].pc = "subs" BY <1>2 DEF LoadSubs, Wanted
  <2>2. Goes(w, "fan", Wanted(c.ev)) BY <1>2, <1>t, FaultCounts DEF LoadSubs
  <2>3. /\ work'[w].pc = "fan" /\ work'[w].copy = c /\ work'[w].todo = Wanted(c.ev)
        /\ \A v \in Workers : v # w => work'[v] = work[v]
    BY <1>t, <2>1, <2>2, WorkerMoves
  <2>4. work'[w].live BY <1>t, <1>x, <2>1, <2>2 DEF Goes, JobsTyped
  <2>5. \A b \in queue, u \in Urls : ~Done(w, b, u) BY <2>1 DEF Done
  <2>6. up /\ UNCHANGED <<arrived, up, queue, tasks, pending, got>>
    BY <1>2, <1>t, <2>1, HeldCopy DEF LoadSubs
  <2> QED BY <1>t, <1>x, <2>1, <2>3, <2>4, <2>5, <2>6, MovesOn
<1>3. CASE Send(w)
  <2>0. work[w].pc = "send" /\ c.url # NoUrl BY <1>3, <1>t DEF Send, WorkHonest
  <2>1. /\ c \in queue /\ c.ev \in Events /\ c.url \in Urls /\ c.ev \in arrived /\ up /\ work[w].live
        /\ \A v \in Workers, u \in Urls : v # w => ~Done(v, c, u)
    BY <1>t, <2>0, HeldCopy
  <2>2. UNCHANGED <<arrived, up, queue, tasks, pending>> BY <1>3 DEF Send
  <2>3. \A b \in queue, u \in Urls : ~Done(w, b, u) BY <2>0 DEF Done
  <2>4. ASSUME Goes(w, "error", {}), UNCHANGED got PROVE Single'
    <3>1. /\ work'[w].pc = "error" /\ work'[w].copy = c
          /\ \A v \in Workers : v # w => work'[v] = work[v]
      BY <1>t, <2>0, <2>4, WorkerMoves
    <3>2. work'[w].live BY <1>t, <2>1, <2>4 DEF Goes, JobsTyped
    <3> QED BY <1>t, <1>x, <2>0, <2>1, <2>2, <2>3, <2>4, <3>1, <3>2, MovesOn
  <2>5. ASSUME Goes(w, "mark", {}), Processed(c.ev, c.url) PROVE Single'
    <3>1. /\ work'[w].pc = "mark" /\ work'[w].copy = c
          /\ \A v \in Workers : v # w => work'[v] = work[v]
      BY <1>t, <2>0, <2>5, WorkerMoves
    <3>2. work'[w].live BY <1>t, <2>1, <2>5 DEF Goes, JobsTyped
    <3>3. Exclusive' BY <1>x, <2>0, <2>1, <2>2, <3>1, <3>2 DEF Single, Exclusive
    <3>4. /\ got'[c.ev][c.url] = got[c.ev][c.url] + 1
          /\ \A f \in Events, v \in Urls : f # c.ev \/ v # c.url => got'[f][v] = got[f][v]
      BY <1>t, <2>1, <2>5, ProcessedOnce DEF TypeOK
    <3>5. ASSUME NEW f \in Events, NEW u \in Urls PROVE OneWay(f, u)'
      <4>1. \A b \in queue, v \in Workers : Done(v, b, u) => Done(v, b, u)'
        BY <2>3, <3>1 DEF Done
      <4>2. CopyCarriers(f, u)' \subseteq CopyCarriers(f, u)
        BY <2>2, <4>1 DEF CopyCarriers, CopyOwes, Wanted, Kind
      <4>3. c \notin CopyCarriers(f, u)' BY <3>1 DEF CopyCarriers, CopyOwes, Done
      <4>4. OneWay(f, u) BY DEF Single
      <4>5. CASE f = c.ev /\ u = c.url
        <5>1. c \in CopyCarriers(f, u) BY <2>0, <2>1, <2>3, <4>5 DEF CopyCarriers, CopyOwes
        <5>2. <<"copy", c>> \in Carriers(f, u) BY <5>1 DEF Carriers
        <5>3. Carriers(f, u)' \subseteq Carriers(f, u) \ {<<"copy", c>>}
          BY <2>2, <4>2, <4>3, CopyMoves
        <5> QED BY <3>4, <4>4, <4>5, <5>2, <5>3, OneWaySpent
      <4>6. CASE f # c.ev \/ u # c.url
        <5>1. Carriers(f, u)' \subseteq Carriers(f, u) BY <2>2, <4>2, CopyMoves
        <5> QED BY <3>4, <4>4, <4>6, <5>1, OneWayKept
      <4> QED BY <4>5, <4>6
    <3> QED BY <1>t, <2>1, <2>2, <3>3, <3>4, <3>5, WorkerFrame
  <2> QED BY <1>3, <1>t, <2>4, <2>5, FaultCounts DEF Send
<1>4. CASE MarkProcessed(w)
  <2>1. Goes(w, "ack", {}) /\ work[w].pc # "idle" BY <1>4 DEF MarkProcessed
  <2>2. /\ work'[w].pc = "ack" /\ work'[w].copy = c
        /\ \A v \in Workers : v # w => work'[v] = work[v]
    BY <1>t, <2>1, WorkerMoves
  <2>3. work'[w].live BY <1>t, <1>x, <2>1 DEF Goes, JobsTyped
  <2>4. \A b \in queue, u \in Urls : Done(w, b, u) => Done(w, b, u)' BY <2>2 DEF Done
  <2>5. up /\ c \in queue /\ UNCHANGED <<arrived, up, queue, tasks, pending, got>>
    BY <1>4, <1>t, <2>1, HeldCopy DEF MarkProcessed
  <2> QED BY <1>t, <1>x, <2>1, <2>2, <2>3, <2>4, <2>5, MovesOn
<1>5. ASSUME UNCHANGED <<arrived, up, tasks, pending, got>>, work' = [work EXCEPT ![w] = Idle],
             work[w].pc \in {"ack", "error"}, queue' = queue \ {c}
      PROVE  Single'
  <2>1. c.ev \in Events /\ c.ev \in arrived BY <1>5, <1>t, HeldCopy
  <2>2. work'[w].pc = "idle" /\ \A v \in Workers : v # w => work'[v] = work[v]
    BY <1>5, <1>t DEF JobsTyped, Idle
  <2>3. Exclusive' BY <1>5, <1>x, <2>2 DEF Single, Exclusive
  <2>4. ASSUME NEW f \in Events, NEW u \in Urls PROVE OneWay(f, u)'
    <3>1. \A b \in queue', v \in Workers : Done(v, b, u) => Done(v, b, u)' BY <1>5, <2>2 DEF Done
    <3>2. CopyCarriers(f, u)' \subseteq CopyCarriers(f, u)
      BY <1>5, <3>1 DEF CopyCarriers, CopyOwes, Wanted, Kind
    <3>3. Carriers(f, u)' \subseteq Carriers(f, u) BY <1>5, <3>2, CopyMoves
    <3>4. OneWay(f, u) /\ got'[f][u] = got[f][u] BY <1>5 DEF Single
    <3> QED BY <3>3, <3>4, OneWayKept
  <2> QED BY <1>5, <1>t, <2>1, <2>3, <2>4, WorkerFrame
<1>6. CASE Ack(w)
  <2>1. work[w].pc = "ack" /\ work[w].live BY <1>6, <1>x DEF Ack
  <2> QED BY <1>5, <1>6, <2>1 DEF Ack
<1>7. CASE Retry(w)
  <2>0. work[w].pc = "error" /\ c.url # NoUrl BY <1>7 DEF Retry, Single, Exclusive
  <2>1. /\ c \in queue /\ c \in Copies /\ c.ev \in Events /\ c.url \in Urls /\ c.ev \in arrived
        /\ work[w].live /\ \A v \in Workers, u \in Urls : v # w => ~Done(v, c, u)
    BY <1>t, <2>0, HeldCopy
  <2>2. UNCHANGED <<arrived, up, tasks, pending, got>> /\ work' = [work EXCEPT ![w] = Idle]
    BY <1>7 DEF Retry
  <2>3. CASE queue' = queue \ {c} BY <1>5, <2>0, <2>2, <2>3
  <2>4. ASSUME NEW n, n.ev = c.ev, n.url = c.url, queue' = (queue \ {c}) \cup {n} PROVE Single'
    <3>1. work'[w].pc = "idle" /\ \A v \in Workers : v # w => work'[v] = work[v]
      BY <1>t, <2>2 DEF JobsTyped, Idle
    <3>2. Exclusive' BY <1>x, <2>0, <2>2, <2>4, <3>1 DEF Single, Exclusive
    <3>3. ASSUME NEW f \in Events, NEW u \in Urls PROVE OneWay(f, u)'
      <4>1. \A b \in queue', v \in Workers : Done(v, b, u) => Done(v, b, u)'
        BY <2>0, <3>1 DEF Done
      <4>2. CopyCarriers(f, u)' \subseteq (CopyCarriers(f, u) \ {c}) \cup {n}
        BY <2>4, <4>1 DEF CopyCarriers, CopyOwes, Wanted, Kind
      <4>3. OneWay(f, u) /\ got'[f][u] = got[f][u] BY <2>2 DEF Single
      <4>4. CASE f = c.ev /\ u = c.url
        <5>1. ~Done(w, c, u) BY <2>0 DEF Done
        <5>2. c \in CopyCarriers(f, u) BY <2>0, <2>1, <4>4, <5>1 DEF CopyCarriers, CopyOwes
        <5>3. <<"copy", c>> \in Carriers(f, u) BY <5>2 DEF Carriers
        <5>4. Carriers(f, u)' \subseteq (Carriers(f, u) \ {<<"copy", c>>}) \cup {<<"copy", n>>}
          <6>1. TaskCarriers(f, u)' = TaskCarriers(f, u) /\ LoopCarriers(f, u)' = LoopCarriers(f, u)
            BY <2>2, TasksSame, LoopsSame
          <6> QED BY <4>2, <6>1 DEF Carriers
        <5> QED BY <4>3, <5>3, <5>4, OneWayMoved
      <4>5. CASE f # c.ev \/ u # c.url
        <5>1. n \notin CopyCarriers(f, u)' BY <2>0, <2>4, <4>5 DEF CopyCarriers, CopyOwes
        <5>2. Carriers(f, u)' \subseteq Carriers(f, u) BY <2>2, <4>2, <5>1, CopyMoves
        <5> QED BY <4>3, <5>2, OneWayKept
      <4> QED BY <4>4, <4>5
    <3> QED BY <1>t, <2>1, <2>2, <2>4, <3>2, <3>3, WorkerFrame
  <2>5. CASE c.tries < MaxRetries /\ queue' = (queue \ {c}) \cup {[c EXCEPT !.tries = @ + 1]}
    <3>1. [c EXCEPT !.tries = @ + 1].ev = c.ev /\ [c EXCEPT !.tries = @ + 1].url = c.url
      BY <2>1, <2>5, RetriedCopy
    <3> QED BY <2>4, <2>5, <3>1
  <2> QED BY <1>7, <2>1, <2>3, <2>5 DEF Retry
<1>8. ASSUME NEW u \in Urls, Fan(w, u) PROVE Single'
  <2>0. /\ work[w].pc = "fan" /\ c.url = NoUrl /\ u \in work[w].todo
        /\ work[w].todo \subseteq Wanted(c.ev)
    BY <1>8, <1>t DEF Fan, WorkHonest, Single, Exclusive
  <2>1. /\ c \in queue /\ c.ev \in Events /\ c.ev \in arrived /\ up /\ work[w].live
        /\ \A v \in Workers, x \in Urls : v # w => ~Done(v, c, x)
    BY <1>t, <2>0, HeldCopy
  <2>2. UNCHANGED <<arrived, up, tasks, pending, got>> BY <1>8 DEF Fan
  <2>3. Stored(c.ev, u) /\ Goes(w, "fan", work[w].todo \ {u})
    BY <1>8, <1>t, <2>1, FaultCounts DEF Fan
  <2>4. PICK n : n.ev = c.ev /\ n.url = u /\ queue' = queue \cup {n} BY <2>1, <2>3, StoredOne
  <2>5. work[w].todo \ {u} \in SUBSET Urls BY <1>t DEF JobsTyped, Jobs
  <2>6. /\ work'[w].pc = "fan" /\ work'[w].copy = c /\ work'[w].todo = work[w].todo \ {u}
        /\ \A v \in Workers : v # w => work'[v] = work[v]
    BY <1>t, <2>0, <2>3, <2>5, WorkerMoves
  <2>7. work'[w].live BY <1>t, <2>1, <2>3 DEF Goes, JobsTyped
  <2>8. Exclusive' BY <1>x, <2>0, <2>1, <2>2, <2>4, <2>6, <2>7 DEF Single, Exclusive
  <2>9. ASSUME NEW f \in Events, NEW x \in Urls PROVE OneWay(f, x)'
    <3>1. \A b \in queue', v \in Workers : Done(v, b, x) => Done(v, b, x)'
      BY <2>0, <2>6 DEF Done
    <3>2. CopyCarriers(f, x)' \subseteq CopyCarriers(f, x) \cup {n}
      BY <2>4, <3>1 DEF CopyCarriers, CopyOwes, Wanted, Kind
    <3>3. OneWay(f, x) /\ got'[f][x] = got[f][x] BY <2>2 DEF Single
    <3>4. CASE f = c.ev /\ x = u
      <4>1. ~Done(w, c, x) BY <2>0, <3>4 DEF Done
      <4>2. c \in CopyCarriers(f, x) BY <2>0, <2>1, <3>4, <4>1 DEF CopyCarriers, CopyOwes
      <4>3. <<"copy", c>> \in Carriers(f, x) BY <4>2 DEF Carriers
      <4>4. c \notin CopyCarriers(f, x)' BY <2>6, <3>4 DEF CopyCarriers, CopyOwes, Done
      <4>5. CopyCarriers(f, x)' \subseteq (CopyCarriers(f, x) \ {c}) \cup {n} BY <3>2, <4>4
      <4>6. Carriers(f, x)' \subseteq (Carriers(f, x) \ {<<"copy", c>>}) \cup {<<"copy", n>>}
        <5>1. TaskCarriers(f, x)' = TaskCarriers(f, x) /\ LoopCarriers(f, x)' = LoopCarriers(f, x)
          BY <2>2, TasksSame, LoopsSame
        <5> QED BY <4>5, <5>1 DEF Carriers
      <4> QED BY <3>3, <4>3, <4>6, OneWayMoved
    <3>5. CASE f # c.ev \/ x # u
      <4>1. n \notin CopyCarriers(f, x)' BY <2>4, <3>5, WebhooksAssumption DEF CopyCarriers, CopyOwes
      <4>2. Carriers(f, x)' \subseteq Carriers(f, x) BY <2>2, <3>2, <4>1, CopyMoves
      <4> QED BY <3>3, <4>2, OneWayKept
    <3> QED BY <3>4, <3>5
  <2> QED BY <1>t, <2>1, <2>2, <2>4, <2>8, <2>9, WorkerFrame
<1> QED BY <1>1, <1>2, <1>3, <1>4, <1>6, <1>7, <1>8 DEF WorkerStep

(* The invariant holds at the start ...                                    *)
LEMMA SingleInit == Init => SingleInv
<1> SUFFICES ASSUME Init PROVE Single BY DEF SingleInv
<1> USE DEF Init
<1>1. Exclusive BY DEF Exclusive, Idle
<1>2. \A e \in Events : NotYet(e) BY DEF NotYet
<1>3. \A e \in Events, u \in Urls : Carriers(e, u) = {}
  BY DEF Carriers, CopyCarriers, TaskCarriers, LoopCarriers
<1>4. \A e \in Events, u \in Urls : OneWay(e, u) BY <1>3 DEF OneWay
<1> QED BY <1>1, <1>2, <1>4 DEF Single

(* ... and after every step without a fault.                               *)
LEMMA SingleStep == Honest /\ SingleInv /\ [Next]_vars => SingleInv'
<1> SUFFICES ASSUME Honest, SingleInv, [Next]_vars, faults' = 0 PROVE Single' BY DEF SingleInv
<1>0. TypeOK BY DEF Honest
<1>1. faults' = faults \/ Fault
  <2>1. \A w \in Workers : WorkerStep(w) => faults' = faults \/ Fault
    BY DEF WorkerStep, Take, LoadSubs, Send, MarkProcessed, Ack, Retry, Fan
  <2>2. TaskStep => faults' = faults \/ Fault BY DEF TaskStep, DirectLoad, sendWithRetry, DirectSend
  <2>3. \A m \in Messages : HandleMessage(m) => faults' = faults \/ Fault BY DEF HandleMessage
  <2>4. DispatchStep => faults' = faults \/ Fault BY DEF DispatchStep, DispatchOne
  <2> QED BY <2>1, <2>2, <2>3, <2>4
          DEF Next, vars, Dispatch, Forgotten, QueueDown, QueueUp, Crash, sweepLocked,
              OtherAccount
<1>2. ~Fault /\ Single BY <1>0, <1>1, FaultCounts DEF SingleInv
<1>3. ASSUME NEW e \in Sessions, NEW u \in Urls, DispatchOne(e, u) PROVE Single'
  BY <1>0, <1>2, <1>3, LoopSingle
<1>4. ASSUME UNCHANGED <<work, queue, tasks, pending, got>>, up => up', arrived \subseteq arrived'
      PROVE  Single'
  <2>1. Exclusive' BY <1>2, <1>4 DEF Single, Exclusive
  <2>2. \A e \in Events : e \notin arrived' => NotYet(e)' BY <1>2, <1>4 DEF Single, NotYet
  <2>3. ASSUME NEW e \in Events, NEW u \in Urls PROVE OneWay(e, u)'
    <3>1. Carriers(e, u)' \subseteq Carriers(e, u)
      BY <1>4, CopiesSame, TasksSame, LoopsSame, CarriersShrink
    <3>2. OneWay(e, u) /\ got'[e][u] = got[e][u] BY <1>2, <1>4 DEF Single
    <3> QED BY <3>1, <3>2, OneWayKept
  <2> QED BY <2>1, <2>2, <2>3 DEF Single
<1>5. CASE QueueUp BY <1>4, <1>5 DEF QueueUp
<1>6. ASSUME NEW e \in Events, Forgotten(e) PROVE Single' BY <1>4, <1>6 DEF Forgotten
<1>7. CASE UNCHANGED vars BY <1>4, <1>7 DEF vars
<1>8. ASSUME NEW m \in Messages, HandleMessage(m) PROVE Single' BY <1>0, <1>2, <1>8, MessageSingle
<1>9. ASSUME NEW e \in Sessions, Dispatch(e) PROVE Single' BY <1>0, <1>2, <1>9, EventSingle
<1>10. ASSUME NEW w \in Workers, WorkerStep(w) PROVE Single' BY <1>2, <1>10, WorkerSingle
<1>11. CASE TaskStep BY <1>0, <1>2, <1>11, TaskSingle
<1>12. ~QueueDown /\ ~Crash /\ \A k \in marks : ~sweepLocked(k)
  BY <1>2 DEF QueueDown, Crash, sweepLocked
<1>13. ASSUME NEW m \in Messages, NEW u \in Urls \cup {NoUrl}, OtherAccount(m, u) PROVE Single'
  BY <1>4, <1>13 DEF OtherAccount
<1> QED BY <1>3, <1>5, <1>6, <1>7, <1>8, <1>9, <1>10, <1>11, <1>12, <1>13 DEF Next, DispatchStep

(* Without a fault no receiver gets an event twice, for any number of      *)
(* events, destinations and workers, however the queue, its retries and    *)
(* the direct deliveries interleave (handler.go 96-134, 299-321).          *)
THEOREM NoDuplicates == Spec => []OnceWithoutFaults
<1>1. Init => Honest /\ PendingWanted /\ SingleInv
  BY InitHonest, SingleInit DEF Init, PendingWanted
<1>2. Honest /\ PendingWanted /\ SingleInv /\ [Next]_vars => (Honest /\ PendingWanted /\ SingleInv)'
  BY HonestStep, PendingStep, SingleStep DEF Honest
<1>3. SingleInv => OnceWithoutFaults BY DEF SingleInv, Single, OneWay, OnceWithoutFaults
<1> QED BY <1>1, <1>2, <1>3, PTL DEF Spec
=============================================================================
