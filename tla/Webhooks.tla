------------------------------ MODULE Webhooks ------------------------------
(***************************************************************************)
(* What becomes of an event of one account: the in-memory ring buffer      *)
(* (incoming_buffer.go), the hand-over to the queue or to a goroutine      *)
(* (whatsapp/handler.go), the fan-out to the account's subscriptions       *)
(* (incoming_event_handler.go), the delivery workers with their dedup      *)
(* cache (webhook_delivery_handler.go, dedup.go) and the direct sender     *)
(* (webhook_sender.go).                                                    *)
(*                                                                         *)
(* The two queues are used at the level AtLeastOnceQueue and WorkerPool    *)
(* describe: a copy stays until it is acknowledged, an error retries it a  *)
(* bounded number of times and then dead-letters it, and a lost channel    *)
(* makes it deliverable again while its old worker runs on.                *)
(***************************************************************************)
EXTENDS Naturals, FiniteSets, Sequences

CONSTANTS
    Messages,       \* incoming messages, by message id
    Sessions,       \* lifecycle events, by trace id
    Urls,           \* the subscriptions' destinations
    Filter,         \* url -> the kinds of event it asks for, none meaning all
    NoUrl,          \* the destination of a copy in the incoming-events queue
    CopyIds,        \* bound: copies in both queues
    Workers,
    MaxRetries,     \* QueueMaxRetries
    PublishConfirm, \* RabbitMQPublishConfirm
    SendRetries,    \* the direct sender's maxRetries
    DirectSlots, AsyncSlots,    \* the two semaphores
    Cap,            \* IncomingMessageBufferSize
    MaxFaults       \* bound: outages, crashes, failed reads and publishes

Events == Messages \cup Sessions
Kinds == {"message", "session"}

ASSUME WebhooksAssumption ==
    /\ NoUrl \notin Urls /\ Messages \cap Sessions = {}
    /\ Filter \in [Urls -> SUBSET Kinds]
    /\ PublishConfirm \in BOOLEAN
    /\ MaxRetries \in Nat /\ SendRetries \in Nat /\ MaxFaults \in Nat
    /\ DirectSlots \in Nat /\ AsyncSlots \in Nat /\ Cap \in Nat \ {0}

VARIABLES
    arrived,        \* events HandleEvent has been called with
    ring,           \* the ring buffer: data, head, len
    pushed,         \* history: the messages pushed since the process started
    up,             \* the queue is healthy
    queue,          \* copies in the incoming-events and webhook-delivery queues
    marks,          \* keys in the dedup cache
    work,           \* worker -> step, copy, destinations to do, channel alive
    pending,        \* lifecycle event -> destinations dispatch has yet to do
    tasks,          \* goroutines that hold a semaphore slot
    got,            \* history: event -> url -> requests the receiver processed
    dead,           \* history: <<event, url>> given up into the DLQ
    accepted,       \* history: <<event, url>> the queue has taken charge of
    excused,        \* history: <<event, url>> whose unconfirmed publish was lost,
                    \* or whose dedup key another account's message has marked
    faults

vars == <<arrived, ring, pushed, up, queue, marks, work, pending, tasks, got, dead,
          accepted, excused, faults>>

Copies == [id : CopyIds, ev : Events, url : Urls \cup {NoUrl}, tries : 0..MaxRetries]
Tasks == [kind : {"direct", "async"}, ev : Events, loaded : BOOLEAN, todo : SUBSET Urls, tries : Nat]
Jobs == [pc : {"idle", "subs", "fan", "send", "mark", "ack", "error"},
         copy : Copies \cup {NoUrl}, todo : SUBSET Urls, live : BOOLEAN]
EmptyRing == [data |-> [i \in 0..(Cap - 1) |-> NoUrl], head |-> 0, len |-> 0]
Idle == [pc |-> "idle", copy |-> NoUrl, todo |-> {}, live |-> FALSE]

Fault == faults < MaxFaults /\ faults' = faults + 1

-----------------------------------------------------------------------------
(* EventMatches and GetWebhookSubscriptions                                *)
Kind(e) == IF e \in Messages THEN "message" ELSE "session"
Wanted(e) == {u \in Urls : Filter[u] = {} \/ Kind(e) \in Filter[u]}

(* A publish that the broker stores.                                       *)
FreeIds == CopyIds \ {c.id : c \in queue}
NewCopy(e, u) == [id |-> CHOOSE i \in FreeIds : TRUE, ev |-> e, url |-> u, tries |-> 0]
Stored(e, u) == FreeIds # {} /\ queue' = queue \cup {NewCopy(e, u)}

Processed(e, u) == got' = [got EXCEPT ![e][u] = @ + 1]

-----------------------------------------------------------------------------
(* The ring buffer                                                         *)

Push(m) ==
    /\ ring' = [data |-> [ring.data EXCEPT ![ring.head] = m],
                head |-> (ring.head + 1) % Cap,
                len |-> IF ring.len < Cap THEN ring.len + 1 ELSE ring.len]
    /\ pushed' = Append(pushed, m)

(* Mutant: the first message read is the slot written next.                *)
Latest_fromHead(n) ==
    [i \in 1..(IF n > ring.len THEN ring.len ELSE n) |-> ring.data[(ring.head + Cap + 1 - i) % Cap]]

Latest(n) ==
    [i \in 1..(IF n > ring.len THEN ring.len ELSE n) |-> ring.data[(ring.head + Cap - i) % Cap]]

-----------------------------------------------------------------------------
(* HandleEvent, for a message: buffer, then queue or goroutine             *)

(* asyncDeliverWebhook: without a slot the event is dropped.               *)
Direct(m) ==
    tasks' = IF Cardinality({t \in tasks : t.kind = "direct"}) < DirectSlots
             THEN tasks \cup {[kind |-> "direct", ev |-> m, loaded |-> FALSE, todo |-> {}, tries |-> 0]}
             ELSE tasks

(* Published; published but reported as failed, which sends it twice; not  *)
(* published; or reported as published and not stored, which confirms      *)
(* would have told.                                                        *)
HandleMessage(m) ==
    /\ m \notin arrived
    /\ arrived' = arrived \cup {m}
    /\ Push(m)
    /\ \/ /\ up /\ Stored(m, NoUrl)
          /\ accepted' = accepted \cup ({m} \X Wanted(m))
          /\ UNCHANGED <<tasks, excused, faults>>
       \/ /\ up /\ Fault /\ ~PublishConfirm
          /\ accepted' = accepted \cup ({m} \X Wanted(m))
          /\ excused' = excused \cup ({m} \X Wanted(m))
          /\ UNCHANGED <<queue, tasks>>
       \/ up /\ Fault /\ Stored(m, NoUrl) /\ Direct(m) /\ UNCHANGED <<accepted, excused>>
       \/ up /\ Fault /\ Direct(m) /\ UNCHANGED <<queue, accepted, excused>>
       \/ ~up /\ Direct(m) /\ UNCHANGED <<queue, accepted, excused, faults>>
    /\ UNCHANGED <<up, marks, work, pending, got, dead>>

(* The account has no client in the map any more, or no device: the        *)
(* message is logged and forgotten; a lifecycle event without a JID, or    *)
(* one whose subscriptions cannot be read, is no more than logged.         *)
Forgotten(e) ==
    /\ e \notin arrived
    /\ arrived' = arrived \cup {e}
    /\ UNCHANGED <<ring, pushed, up, queue, marks, work, pending, tasks, got, dead,
                   accepted, faults, excused>>

(* deliverWebhook: subscriptions are read once, each one gets one attempt. *)
DirectLoad(t) ==
    /\ t.kind = "direct" /\ ~t.loaded
    /\ \/ /\ Wanted(t.ev) # {} /\ UNCHANGED faults
          /\ tasks' = (tasks \ {t}) \cup {[t EXCEPT !.loaded = TRUE, !.todo = Wanted(t.ev)]}
       \/ Wanted(t.ev) = {} /\ tasks' = tasks \ {t} /\ UNCHANGED faults
       \/ Fault /\ tasks' = tasks \ {t}
    /\ UNCHANGED <<arrived, ring, pushed, up, queue, marks, work, pending, got, dead,
                   accepted, excused>>

DirectSend(t, u) ==
    /\ t.kind = "direct" /\ t.loaded /\ u \in t.todo
    /\ tasks' = (tasks \ {t}) \cup
                (IF t.todo = {u} THEN {} ELSE {[t EXCEPT !.todo = @ \ {u}]})
    /\ Processed(t.ev, u) \/ UNCHANGED got
    /\ UNCHANGED <<arrived, ring, pushed, up, queue, marks, work, pending, dead,
                   accepted, faults, excused>>

-----------------------------------------------------------------------------
(* dispatch, for a lifecycle event                                         *)

Dispatch(e) ==
    /\ e \notin arrived
    /\ arrived' = arrived \cup {e}
    /\ pending' = [pending EXCEPT ![e] = Wanted(e)]
    /\ UNCHANGED <<ring, pushed, up, queue, marks, work, tasks, got, dead, accepted,
                   faults, excused>>

(* SendAsync: without a slot the delivery is dropped.                      *)
SendAsync(e, u) ==
    tasks' = IF Cardinality({t \in tasks : t.kind = "async"}) < AsyncSlots
             THEN tasks \cup {[kind |-> "async", ev |-> e, loaded |-> TRUE, todo |-> {u}, tries |-> 0]}
             ELSE tasks

(* Mutant: the loop does not go on to the next destination after the       *)
(* publish.                                                                *)
DispatchOne_noContinue(e, u) ==
    /\ u \in pending[e]
    /\ pending' = [pending EXCEPT ![e] = @ \ {u}]
    /\ up /\ Stored(e, u) /\ accepted' = accepted \cup {<<e, u>>} /\ SendAsync(e, u)
    /\ UNCHANGED <<arrived, ring, pushed, up, marks, work, got, dead, faults, excused>>

DispatchOne(e, u) ==
    /\ u \in pending[e]
    /\ pending' = [pending EXCEPT ![e] = @ \ {u}]
    /\ \/ /\ up /\ Stored(e, u)
          /\ accepted' = accepted \cup {<<e, u>>}
          /\ UNCHANGED <<tasks, excused, faults>>
       \/ /\ up /\ Fault /\ ~PublishConfirm
          /\ accepted' = accepted \cup {<<e, u>>}
          /\ excused' = excused \cup {<<e, u>>}
          /\ UNCHANGED <<queue, tasks>>
       \/ up /\ Fault /\ Stored(e, u) /\ SendAsync(e, u) /\ UNCHANGED <<accepted, excused>>
       \/ up /\ Fault /\ SendAsync(e, u) /\ UNCHANGED <<queue, accepted, excused>>
       \/ ~up /\ SendAsync(e, u) /\ UNCHANGED <<queue, accepted, excused, faults>>
    /\ UNCHANGED <<arrived, ring, pushed, up, marks, work, got, dead>>

(* Mutant: the goroutine ends without releasing its slot.                  *)
sendWithRetry_keepSlot(t) ==
    /\ t.kind = "async" /\ \E u \in t.todo : Processed(t.ev, u)
    /\ tasks' = (tasks \ {t}) \cup {[t EXCEPT !.todo = {}]}
    /\ UNCHANGED <<arrived, ring, pushed, up, queue, marks, work, pending, dead,
                   accepted, faults, excused>>

(* sendWithRetry: a failed attempt is repeated, up to SendRetries times,   *)
(* unless the budget of the whole has run out.                             *)
sendWithRetry(t) ==
    /\ t.kind = "async"
    /\ \/ \E u \in t.todo : Processed(t.ev, u) /\ tasks' = tasks \ {t} /\ UNCHANGED faults
       \/ /\ \/ /\ t.tries < SendRetries
                /\ tasks' = (tasks \ {t}) \cup {[t EXCEPT !.tries = @ + 1]}
             \/ tasks' = tasks \ {t}
          /\ \/ UNCHANGED <<got, faults>>
             \/ Fault /\ \E u \in t.todo : Processed(t.ev, u)
    /\ UNCHANGED <<arrived, ring, pushed, up, queue, marks, work, pending, dead, accepted, excused>>

-----------------------------------------------------------------------------
(* The workers                                                             *)

(* Mutant: the dedup key leaves the destination out.                       *)
webhookDedupKey_messageOnly(c) == <<IF c.url = NoUrl THEN "in" ELSE "out", c.ev, NoUrl>>

(* The dedup key: the message id in one queue, message id and url in the   *)
(* other.  The account is no part of it.                                   *)
webhookDedupKey(c) == <<IF c.url = NoUrl THEN "in" ELSE "out", c.ev, c.url>>

(* The cache is shared by all accounts: another account in the same group  *)
(* has received the message with the same id, and its copy is done with.   *)
OtherAccount(m, u) ==
    LET key == webhookDedupKey([ev |-> m, url |-> u]) IN
    /\ key \notin marks
    /\ marks' = marks \cup {key}
    /\ excused' = excused \cup ({m} \X (IF u = NoUrl THEN Urls ELSE {u}))
    /\ UNCHANGED <<arrived, ring, pushed, up, queue, work, pending, tasks, got, dead, accepted,
                   faults>>

Held(c) == \E w \in Workers : work[w].live /\ work[w].pc # "idle" /\ work[w].copy = c

(* A delivery begins with the dedup check.                                 *)
Take(w, c) ==
    /\ up /\ work[w].pc = "idle" /\ ~Held(c)
    /\ work' = [work EXCEPT ![w] =
                  [pc |-> IF webhookDedupKey(c) \in marks THEN "ack"
                          ELSE IF c.url = NoUrl THEN "subs" ELSE "send",
                   copy |-> c, todo |-> {}, live |-> TRUE]]
    /\ UNCHANGED <<arrived, ring, pushed, up, queue, marks, pending, tasks, got, dead,
                   accepted, faults, excused>>

Goes(w, pc, todo) ==
    work' = [work EXCEPT ![w] = [pc |-> pc, copy |-> work[w].copy, todo |-> todo, live |-> work[w].live]]

(* IncomingEventHandler: read the subscriptions, publish to each, mark.    *)
LoadSubs(w) ==
    /\ work[w].pc = "subs"
    /\ \/ Goes(w, "fan", Wanted(work[w].copy.ev)) /\ UNCHANGED faults
       \/ Fault /\ Goes(w, "error", {})
    /\ UNCHANGED <<arrived, ring, pushed, up, queue, marks, pending, tasks, got, dead,
                   accepted, excused>>

Fan(w, u) ==
    LET e == work[w].copy.ev IN
    /\ work[w].pc = "fan" /\ u \in work[w].todo
    /\ \/ /\ up /\ Stored(e, u)
          /\ Goes(w, "fan", work[w].todo \ {u})
          /\ UNCHANGED <<excused, faults>>
       \/ /\ up /\ Fault /\ ~PublishConfirm
          /\ excused' = excused \cup {<<e, u>>}
          /\ Goes(w, "fan", work[w].todo \ {u})
          /\ UNCHANGED queue
       \/ up /\ Fault /\ Stored(e, u) /\ Goes(w, "error", {}) /\ UNCHANGED excused
       \/ up /\ Fault /\ Goes(w, "error", {}) /\ UNCHANGED <<queue, excused>>
       \/ ~up /\ Goes(w, "error", {}) /\ UNCHANGED <<queue, excused, faults>>
    /\ UNCHANGED <<arrived, ring, pushed, up, marks, pending, tasks, got, dead, accepted>>

(* WebhookDeliveryHandler: send, then mark.  A receiver may process a      *)
(* request whose answer is lost.                                           *)
Send(w) ==
    /\ work[w].pc = "send"
    /\ \/ Processed(work[w].copy.ev, work[w].copy.url) /\ Goes(w, "mark", {}) /\ UNCHANGED faults
       \/ Fault /\ Processed(work[w].copy.ev, work[w].copy.url) /\ Goes(w, "error", {})
       \/ UNCHANGED <<got, faults>> /\ Goes(w, "error", {})
    /\ UNCHANGED <<arrived, ring, pushed, up, queue, marks, pending, tasks, dead,
                   accepted, excused>>

MarkProcessed(w) ==
    /\ work[w].pc = "mark" \/ (work[w].pc = "fan" /\ work[w].todo = {})
    /\ marks' = marks \cup {webhookDedupKey(work[w].copy)}
    /\ Goes(w, "ack", {})
    /\ UNCHANGED <<arrived, ring, pushed, up, queue, pending, tasks, got, dead, accepted,
                   faults, excused>>

(* The end of processMessage, which WorkerPool has in detail.              *)
Ack(w) ==
    /\ work[w].pc = "ack"
    /\ queue' = IF work[w].live THEN queue \ {work[w].copy} ELSE queue
    /\ work' = [work EXCEPT ![w] = Idle]
    /\ UNCHANGED <<arrived, ring, pushed, up, marks, pending, tasks, got, dead, accepted,
                   faults, excused>>

Retry(w) ==
    LET c == work[w].copy IN
    /\ work[w].pc = "error"
    /\ work' = [work EXCEPT ![w] = Idle]
    /\ \/ /\ work[w].live /\ c.tries < MaxRetries
          /\ queue' = (queue \ {c}) \cup {[c EXCEPT !.tries = @ + 1]}
          /\ UNCHANGED dead
       \/ /\ work[w].live /\ c.tries = MaxRetries
          /\ queue' = queue \ {c}
          /\ dead' = dead \cup ({c.ev} \X (IF c.url = NoUrl THEN Wanted(c.ev) ELSE {c.url}))
       \/ ~work[w].live /\ UNCHANGED <<queue, dead>>
    /\ UNCHANGED <<arrived, ring, pushed, up, marks, pending, tasks, got, accepted,
                   faults, excused>>

-----------------------------------------------------------------------------
(* Faults                                                                  *)

QueueDown ==
    /\ up /\ Fault
    /\ up' = FALSE
    /\ work' = [w \in Workers |-> [work[w] EXCEPT !.live = FALSE]]
    /\ UNCHANGED <<arrived, ring, pushed, queue, marks, pending, tasks, got, dead,
                   accepted, excused>>

QueueUp ==
    /\ ~up
    /\ up' = TRUE
    /\ UNCHANGED <<arrived, ring, pushed, queue, marks, work, pending, tasks, got, dead,
                   accepted, faults, excused>>

(* The process dies: what is in memory is gone, the queues are not.        *)
Crash ==
    /\ Fault
    /\ ring' = EmptyRing /\ pushed' = <<>> /\ marks' = {} /\ tasks' = {}
    /\ work' = [w \in Workers |-> Idle] /\ pending' = [e \in Sessions |-> {}]
    /\ UNCHANGED <<arrived, up, queue, got, dead, accepted, excused>>

(* The TTL of a dedup entry runs out.                                      *)
sweepLocked(k) ==
    /\ k \in marks /\ Fault
    /\ marks' = marks \ {k}
    /\ UNCHANGED <<arrived, ring, pushed, up, queue, work, pending, tasks, got, dead,
                   accepted, excused>>

-----------------------------------------------------------------------------
Init ==
    /\ arrived = {} /\ ring = EmptyRing /\ pushed = <<>>
    /\ up \in BOOLEAN
    /\ queue = {} /\ marks = {} /\ tasks = {} /\ dead = {} /\ accepted = {}
    /\ excused = {}
    /\ work = [w \in Workers |-> Idle] /\ pending = [e \in Sessions |-> {}]
    /\ got = [e \in Events |-> [u \in Urls |-> 0]]
    /\ faults = 0

WorkerStep(w) ==
    \/ \E c \in queue : Take(w, c)
    \/ LoadSubs(w) \/ Send(w) \/ MarkProcessed(w) \/ Ack(w) \/ Retry(w)
    \/ \E u \in Urls : Fan(w, u)

TaskStep ==
    \E t \in tasks : DirectLoad(t) \/ sendWithRetry(t) \/ \E u \in Urls : DirectSend(t, u)

DispatchStep == \E e \in Sessions, u \in Urls : DispatchOne(e, u)

Next ==
    \/ \E m \in Messages : HandleMessage(m)
    \/ \E e \in Sessions : Dispatch(e)
    \/ \E e \in Events : Forgotten(e)
    \/ \E w \in Workers : WorkerStep(w)
    \/ TaskStep
    \/ DispatchStep
    \/ QueueDown \/ QueueUp \/ Crash
    \/ \E k \in marks : sweepLocked(k)
    \/ \E m \in Messages, u \in Urls \cup {NoUrl} : OtherAccount(m, u)

(* Goroutines run and a request ends (it has a timeout).  Nothing promises *)
(* that the queue comes back: the monitor of the connection may be gone.   *)
Fairness ==
    /\ \A w \in Workers : WF_vars(WorkerStep(w))
    /\ WF_vars(TaskStep) /\ WF_vars(DispatchStep)

Spec == Init /\ [][Next]_vars /\ Fairness

-----------------------------------------------------------------------------
(* Properties                                                              *)

(* The variables hold what they may.                                       *)
TypeOK ==
    /\ arrived \subseteq Events /\ up \in BOOLEAN /\ faults \in Nat
    /\ queue \subseteq Copies /\ tasks \subseteq Tasks
    /\ work \in [Workers -> Jobs]
    /\ \A w \in Workers : work[w].pc # "idle" => work[w].copy \in Copies
    /\ pending \in [Sessions -> SUBSET Urls]
    /\ got \in [Events -> [Urls -> Nat]]
    /\ dead \subseteq Events \X Urls /\ accepted \subseteq Events \X Urls
    /\ excused \subseteq Events \X Urls

(* An event the queue has accepted is never lost for one of its            *)
(* destinations: until the receiver has had it, or that delivery is in the *)
(* dead-letter queue, a copy of it is queued, whichever half of a fan-out  *)
(* fails and whoever crashes, and no sibling delivery passes for it in the *)
(* dedup cache (incoming_event_handler.go 72-90, webhook_delivery_handler  *)
(* .go 31-49).  Two things lose one: without publisher confirms a publish  *)
(* that was reported stored and was not (rabbitmq.go 429-439), and another *)
(* account's message with the same id, which marks the same key.           *)
AtLeastOnce ==
    \A e \in Events, u \in Urls :
        <<e, u>> \in accepted \ excused =>
            \/ got[e][u] > 0
            \/ <<e, u>> \in dead
            \/ \E c \in queue : c.ev = e /\ c.url \in {u, NoUrl}

(* Without a fault no receiver gets an event twice, although queue, retry  *)
(* and direct delivery are three ways to it (handler.go 96-134, 299-321).  *)
OnceWithoutFaults == faults = 0 => \A e \in Events, u \in Urls : got[e][u] <= 1

(* Latest returns the newest messages, newest first, for any limit, below, *)
(* at and beyond the capacity (incoming_buffer.go 68-84).                  *)
LatestIsNewest ==
    \A n \in 0..(Cap + 1) :
        LET kept == IF Len(pushed) < Cap THEN Len(pushed) ELSE Cap
            size == IF n < kept THEN n ELSE kept
        IN  Latest(n) = [i \in 1..size |-> pushed[Len(pushed) + 1 - i]]

(* No goroutine keeps its semaphore slot for ever, with the queue or       *)
(* without it, and unless the queue stays away for good every accepted     *)
(* delivery is settled in the end: dead-lettered, had by its receiver, or  *)
(* lost in one of the two ways above (webhook_sender.go 166-185,           *)
(* handler.go 344-354, worker_pool.go).                                    *)
HooksSettle ==
    /\ []<>(tasks = {})
    /\ \/ <>[]~up
       \/ []<>(\A p \in accepted \ excused : got[p[1]][p[2]] > 0 \/ p \in dead)
=============================================================================
