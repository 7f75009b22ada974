--------------------------- MODULE Idempotency_proofs ---------------------------
(***************************************************************************)
(* Proofs that the Idempotency-Key middleware sends again only after an    *)
(* error, and replays only what was sent, for any number of requests, any  *)
(* timeouts and any bounds, as long as no row is removed for its age.      *)
(***************************************************************************)
EXTENDS Idempotency, TLAPS

\* A request only deletes a stale row after it gave up on owning one.
EvictorsUnrecorded == \A r \in Requests : pc[r] = "evict" => r \in unrecorded

\* Only an owner goes on to record or to clean up.
CleanersOwn == \A r \in Requests : pc[r] \in {"record", "cleanup"} => r \notin unrecorded

Owners == Requests \ unrecorded

\* A request that did not fail open and runs, records or cleans up owns the row.
RunnersOwn ==
  \A r \in Owners : pc[r] \in {"run", "record", "cleanup"} => row # NoRow /\ row.by = r

\* So does one that sent, unless it was answered with an error; it is about to
\* record or over.
SendersOwn ==
  \A i \in 1..Len(sends) :
    \/ sends[i] \in errored \cup unrecorded
    \/ row # NoRow /\ row.by = sends[i] /\ pc[sends[i]] \in {"record", "done"}

\* It sent as the owner of the row, and was answered with success.
Answered(r) == Sent(r) /\ r \notin errored \cup unrecorded

\* The row describes its owner, and is completed only by one that sent.
RowDescribesOwner ==
  row # NoRow => /\ row.hash = Hash[row.by]
                 /\ row.status = "completed" => Answered(row.by)

RecordersSent == \A r \in Requests : pc[r] = "record" => Answered(r)

ReplaysFaithful ==
  \A p \in replayed : Hash[p[1]] = Hash[p[2]] /\ Answered(p[2])

\* A handler runs once per request: before it is over, nothing was sent or
\* answered for the request.
FreshRequests ==
  \A r \in Requests :
    pc[r] \in {"new", "loser", "evict", "run"} => r \notin errored /\ ~ Sent(r)

SendsOrdered ==
  \A i, j \in 1..Len(sends) :
    i < j => sends[i] \in errored \/ {sends[i], sends[j]} \cap unrecorded # {}

Ownership == /\ RunnersOwn /\ SendersOwn /\ RowDescribesOwner /\ RecordersSent
             /\ ReplaysFaithful /\ SendsOrdered

\* The inductive invariant: while no row was removed for its age, the row is
\* owned by the one request that may have sent and was not answered an error.
IndInv == /\ TypeOK /\ EvictorsUnrecorded /\ CleanersOwn /\ FreshRequests
          /\ (~ lapsed => Ownership)

-----------------------------------------------------------------------------

\* Every step of a request, of the sweeper and of the clock keeps the types.
LEMMA TypeInductive == TypeOK /\ [Next]_vars => TypeOK'
<1> SUFFICES ASSUME TypeOK, [Next]_vars PROVE TypeOK'
  OBVIOUS
<1> USE TimesAssumption, NoRowAssumption
<1>1. ASSUME NEW r \in Requests, RequestStep(r) PROVE TypeOK'
  <2>1. ASSUME NEW p \in States, Goto(r, p) PROVE pc' \in [Requests -> States]
    BY <2>1 DEF TypeOK, Goto
  <2>2. PendingRow(r) \in Row
    BY DEF TypeOK, PendingRow, Row, Hashes
  <2>3. CASE TryInsertPending(r)
    BY <2>1, <2>2, <2>3 DEF TypeOK, TryInsertPending, States
  <2>4. CASE InsertFails(r)
    BY <2>1, <2>2, <2>4 DEF TypeOK, InsertFails, Fault, States
  <2>5. CASE LookupMisses(r)
    BY <2>1, <2>5 DEF TypeOK, LookupMisses, Fault, States
  <2>6. CASE LookupStale(r)
    BY <2>1, <2>6 DEF TypeOK, LookupStale, States
  <2>7. CASE Evict(r)
    <3>1. lapsed' \in BOOLEAN
      <4>1. lapsed' = (lapsed \/ row # NoRow) \/ lapsed' = lapsed
        BY <2>7, Zenon DEF Evict
      <4>2. (lapsed \/ row # NoRow) \in BOOLEAN /\ lapsed \in BOOLEAN
        BY Zenon DEF TypeOK
      <4> QED BY <4>1, <4>2, Zenon
    <3>2. row' \in Row \cup {NoRow} /\ faults' \in 0..MaxFaults
      <4>1. UNCHANGED faults \/ Fault
        BY <2>7, Zenon DEF Evict
      <4>2. row' \in {row, NoRow}
        BY <2>7, Zenon DEF Evict
      <4> QED BY <4>1, <4>2 DEF TypeOK, Fault
    <3> QED BY <2>1, <2>7, <3>1, <3>2 DEF TypeOK, Evict, States
  <2>8. CASE Reject(r)
    BY <2>1, <2>8 DEF TypeOK, Reject, States
  <2>9. CASE Replay(r)
    BY <2>1, <2>9 DEF TypeOK, Replay, States, Row
  <2>10. CASE HandlerSends(r)
    BY <2>1, <2>10 DEF TypeOK, HandlerSends, States
  <2>11. CASE HandlerFails(r)
    BY <2>1, <2>11 DEF TypeOK, HandlerFails, States
  <2>12. CASE Complete(r)
    <3>1. row # NoRow => [row EXCEPT !.status = "completed", !.by = r] \in Row
      BY DEF TypeOK, Row
    <3> QED BY <2>1, <2>12, <3>1 DEF TypeOK, Complete, Fault, States
  <2>13. CASE Cleanup(r)
    BY <2>1, <2>13 DEF TypeOK, Cleanup, Fault, States
  <2>14. CASE Die(r)
    BY <2>1, <2>14 DEF TypeOK, Die, Fault, States
  <2> QED BY <1>1, <2>3, <2>4, <2>5, <2>6, <2>7, <2>8, <2>9, <2>10, <2>11,
             <2>12, <2>13, <2>14 DEF RequestStep
<1>2. CASE Sweep
  BY <1>2 DEF TypeOK, Sweep
<1>3. CASE Tick
  BY <1>3 DEF TypeOK, Tick
<1>4. CASE UNCHANGED vars
  BY <1>4 DEF TypeOK, vars
<1> QED BY <1>1, <1>2, <1>3, <1>4 DEF Next

\* Only a request that is already unrecorded reaches the deletion of a row, and
\* only one that is not records.
LEMMA EvictorsInductive ==
  TypeOK /\ EvictorsUnrecorded /\ CleanersOwn /\ [Next]_vars
    => EvictorsUnrecorded' /\ CleanersOwn'
BY DEF CleanersOwn, TypeOK, EvictorsUnrecorded, Next, vars, RequestStep, Goto, Fault,
       TryInsertPending, InsertFails, LookupMisses, LookupStale, Evict, Reject,
       Replay, HandlerSends, HandlerFails, Complete, Cleanup, Die, Sweep, Tick

\* What a send adds to the log.
LEMMA AppendSends ==
  ASSUME TypeOK, NEW r \in Requests, sends' = Append(sends, r)
  PROVE  /\ Len(sends') = Len(sends) + 1 /\ Len(sends) \in Nat
         /\ \A i \in 1..Len(sends) : sends'[i] = sends[i]
         /\ sends'[Len(sends) + 1] = r
         /\ \A s : Sent(s)' <=> (Sent(s) \/ s = r)
<1>1. sends \in Seq(Requests) /\ Len(sends) \in Nat
  BY DEF TypeOK
<1>2. /\ Len(sends') = Len(sends) + 1
      /\ \A i \in 1..Len(sends) : sends'[i] = sends[i]
      /\ sends'[Len(sends) + 1] = r
  BY <1>1
<1>3. ASSUME NEW s PROVE Sent(s)' <=> (Sent(s) \/ s = r)
  BY <1>1, <1>2 DEF Sent
<1> QED BY <1>1, <1>2, <1>3

\* Nobody sends or is answered an error before its handler is over, and nobody
\* goes back.
LEMMA FreshInductive == TypeOK /\ FreshRequests /\ [Next]_vars => FreshRequests'
<1> SUFFICES ASSUME TypeOK, FreshRequests, [Next]_vars PROVE FreshRequests'
  OBVIOUS
<1>1. ASSUME NEW r \in Requests, RequestStep(r) PROVE FreshRequests'
  <2>1. \/ UNCHANGED sends
        \/ sends' = Append(sends, r) /\ pc'[r] \notin {"new", "loser", "evict", "run"}
    BY <1>1 DEF RequestStep, Goto, Fault, TypeOK, TryInsertPending, InsertFails,
       LookupMisses, LookupStale, Evict, Reject, Replay, HandlerSends, HandlerFails,
       Complete, Cleanup, Die
  <2>2. \A s : Sent(s)' => Sent(s) \/ (s = r /\ pc'[r] \notin {"new", "loser", "evict", "run"})
    BY <2>1, AppendSends DEF Sent
  <2>3. \/ UNCHANGED errored
        \/ errored' = errored \cup {r} /\ pc'[r] \notin {"new", "loser", "evict", "run"}
    BY <1>1 DEF RequestStep, Goto, Fault, TypeOK, TryInsertPending, InsertFails,
       LookupMisses, LookupStale, Evict, Reject, Replay, HandlerSends, HandlerFails,
       Complete, Cleanup, Die
  <2>4. \A s \in Requests : s # r => pc'[s] = pc[s]
    BY <1>1 DEF RequestStep, Goto, Fault, TypeOK, TryInsertPending, InsertFails,
       LookupMisses, LookupStale, Evict, Reject, Replay, HandlerSends, HandlerFails,
       Complete, Cleanup, Die
  <2>5. pc'[r] \in {"new", "loser", "evict", "run"} => pc[r] \in {"new", "loser", "evict", "run"}
    BY <1>1 DEF RequestStep, Goto, Fault, TypeOK, TryInsertPending, InsertFails,
       LookupMisses, LookupStale, Evict, Reject, Replay, HandlerSends, HandlerFails,
       Complete, Cleanup, Die
  <2> QED BY <2>2, <2>3, <2>4, <2>5 DEF FreshRequests
<1>2. CASE Sweep \/ Tick \/ UNCHANGED vars
  BY <1>2 DEF Sweep, Tick, vars, FreshRequests, Sent
<1> QED BY <1>1, <1>2 DEF Next

\* A row removed for its age stays noted.
LEMMA LapsedForever == TypeOK /\ [Next]_vars /\ ~ lapsed' => ~ lapsed
<1> SUFFICES ASSUME TypeOK, [Next]_vars, ~ lapsed' PROVE ~ lapsed
  OBVIOUS
<1>1. UNCHANGED lapsed \/ Sweep \/ \E r \in Requests : Evict(r)
  BY DEF Next, vars, RequestStep, TryInsertPending, InsertFails, LookupMisses,
     LookupStale, Reject, Replay, HandlerSends, HandlerFails, Complete,
     Cleanup, Die, Tick
<1>2. ~ Sweep
  BY Zenon DEF Sweep
<1>3. ASSUME NEW r \in Requests, Evict(r) PROVE ~ lapsed
  <2>1. lapsed' = (lapsed \/ row # NoRow) \/ lapsed' = lapsed
    BY <1>3, Zenon DEF Evict
  <2> QED BY <2>1, Zenon
<1> QED BY <1>1, <1>2, <1>3, Zenon

\* A request joins the unrecorded ones before it sends, so no answered sender is
\* lost from view.
LEMMA SendsKept ==
  ASSUME IndInv, Ownership, NEW r \in Requests,
         pc[r] \in {"new", "loser", "evict", "run"},
         unrecorded' = unrecorded \cup {r}, UNCHANGED <<sends, errored, replayed>>
  PROVE  ReplaysFaithful' /\ SendsOrdered' /\ \A s : Answered(s)' <=> Answered(s)
<1>1. ~ Sent(r)
  BY DEF IndInv, FreshRequests
<1>2. \A s : Answered(s)' <=> Answered(s)
  BY <1>1 DEF Answered, Sent
<1>3. ReplaysFaithful'
  BY <1>2 DEF ReplaysFaithful, Ownership
<1>4. SendsOrdered'
  BY DEF SendsOrdered, Ownership
<1> QED BY <1>2, <1>3, <1>4

\* Ownership of the row passes from request to request only through NoRow.
LEMMA OwnershipInductive ==
  IndInv /\ [Next]_vars /\ ~ lapsed' => Ownership'
<1> SUFFICES ASSUME IndInv, [Next]_vars, ~ lapsed' PROVE Ownership'
  OBVIOUS
<1>0. Ownership /\ TypeOK /\ EvictorsUnrecorded /\ CleanersOwn /\ FreshRequests
  BY LapsedForever DEF IndInv
<1> USE <1>0, NoRowAssumption
<1>1. ASSUME NEW r \in Requests, RequestStep(r) PROVE Ownership'
  <2>0. PendingRow(r) \in Row /\ PendingRow(r) # NoRow
    BY DEF PendingRow, Row, Hashes, TypeOK
  <2>a. ASSUME row = NoRow
        PROVE  /\ \A s \in Owners : pc[s] \notin {"run", "record", "cleanup"}
               /\ \A i \in 1..Len(sends) : sends[i] \in errored \cup unrecorded
    BY <2>a DEF Ownership, SendersOwn, RunnersOwn
  <2>1. CASE TryInsertPending(r)
    <3>0. SendsOrdered' /\ ReplaysFaithful' /\ \A s : Answered(s)' <=> Answered(s)
      BY <2>1 DEF TryInsertPending, SendsOrdered, ReplaysFaithful, Answered, Sent, Ownership
    <3>1. CASE row = NoRow
      <4>1. row' = PendingRow(r)
        BY <2>1, <3>1 DEF TryInsertPending
      <4>2. RunnersOwn' /\ RecordersSent'
        BY <2>1, <2>a, <2>0, <3>0, <3>1, <4>1 DEF TryInsertPending, Goto, Ownership,
           RunnersOwn, RecordersSent, Owners, PendingRow, TypeOK
      <4>3. SendersOwn' /\ RowDescribesOwner'
        BY <2>1, <2>a, <2>0, <3>0, <3>1, <4>1 DEF TryInsertPending,
           SendersOwn, RowDescribesOwner, PendingRow, TypeOK
      <4> QED BY <3>0, <4>2, <4>3 DEF Ownership
    <3>2. CASE row # NoRow
      BY <2>1, <3>0, <3>2 DEF TryInsertPending, Goto, Ownership, RunnersOwn, SendersOwn,
         RowDescribesOwner, RecordersSent, Owners, TypeOK
    <3> QED BY <3>1, <3>2
  <2>2. CASE InsertFails(r)
    <3>0. ReplaysFaithful' /\ SendsOrdered' /\ \A s : Answered(s)' <=> Answered(s)
      BY <2>2, SendsKept DEF InsertFails
    <3>1. CASE UNCHANGED row
      BY <2>2, <3>0, <3>1 DEF InsertFails, Goto, Ownership, RunnersOwn, SendersOwn,
         RowDescribesOwner, RecordersSent, Owners, TypeOK
    <3>2. CASE row = NoRow /\ row' = PendingRow(r)
      <4>1. RunnersOwn' /\ RecordersSent'
        BY <2>2, <2>a, <3>0, <3>2 DEF InsertFails, Goto, Ownership, RunnersOwn,
           RecordersSent, Owners, TypeOK
      <4>2. SendersOwn' /\ RowDescribesOwner'
        BY <2>2, <2>a, <2>0, <3>0, <3>2 DEF InsertFails, SendersOwn, RowDescribesOwner,
           PendingRow, TypeOK
      <4> QED BY <3>0, <4>1, <4>2 DEF Ownership
    <3> QED BY <2>2, <3>1, <3>2 DEF InsertFails
  <2>3. CASE LookupMisses(r) \/ LookupStale(r)
    <3>0. ReplaysFaithful' /\ SendsOrdered' /\ \A s : Answered(s)' <=> Answered(s)
      BY <2>3, SendsKept DEF LookupMisses, LookupStale
    <3> QED BY <2>3, <3>0 DEF LookupMisses, LookupStale, Goto, Ownership, RunnersOwn,
               SendersOwn, RowDescribesOwner, RecordersSent, Owners, TypeOK
  <2>4. CASE Evict(r)
    <3>0. r \in unrecorded /\ UNCHANGED <<sends, errored, unrecorded, replayed>>
      BY <2>4 DEF Evict, EvictorsUnrecorded
    <3>1. UNCHANGED row
      <4>1. CASE row # NoRow /\ lapsed' = (lapsed \/ row # NoRow)
        BY <4>1, Zenon
      <4> QED BY <2>4, <4>1 DEF Evict
    <3>2. ReplaysFaithful' /\ SendsOrdered' /\ \A s : Answered(s)' <=> Answered(s)
      BY <3>0 DEF SendsOrdered, ReplaysFaithful, Answered, Sent, Ownership
    <3> QED BY <2>4, <3>0, <3>1, <3>2 DEF Evict, Goto, Ownership, RunnersOwn,
               SendersOwn, RowDescribesOwner, RecordersSent, Owners, TypeOK
  <2>5. CASE Reject(r)
    BY <2>5 DEF Reject, Goto, Ownership, RunnersOwn, SendersOwn, RowDescribesOwner,
       RecordersSent, ReplaysFaithful, SendsOrdered, Owners, Answered, Sent, TypeOK
  <2>6. CASE Replay(r)
    <3>1. Hash[r] = Hash[row.by] /\ Answered(row.by)
      BY <2>6 DEF Replay, Ownership, RowDescribesOwner
    <3>2. SendsOrdered' /\ \A s : Answered(s)' <=> Answered(s)
      BY <2>6 DEF Replay, SendsOrdered, Answered, Sent, Ownership
    <3>3. ReplaysFaithful'
      BY <2>6, <3>1, <3>2 DEF Replay, ReplaysFaithful, Ownership
    <3> QED BY <2>6, <3>2, <3>3 DEF Replay, Goto, Ownership, RunnersOwn, SendersOwn,
               RowDescribesOwner, RecordersSent, Owners, TypeOK
  <2>7. ASSUME pc[r] = "run", sends' = Append(sends, r), UNCHANGED <<row, unrecorded, replayed>>,
               errored' \in {errored, errored \cup {r}},
               NEW p \in {"record", "cleanup", "done"}, Goto(r, p),
               p = "record" => r \notin unrecorded /\ UNCHANGED errored,
               r \in unrecorded \/ r \in errored' \/ p \in {"record", "done"}
        PROVE  Ownership'
    <3>0. r \notin errored /\ ~ Sent(r)
      BY <2>7 DEF FreshRequests
    <3>1. r \in Owners => /\ row # NoRow /\ row.by = r
                          /\ \A i \in 1..Len(sends) : sends[i] \in errored \cup unrecorded
      BY <2>7, <3>0 DEF Ownership, RunnersOwn, SendersOwn, Sent
    <3>2. \A s : s # r => (Answered(s)' <=> Answered(s))
      BY <2>7, AppendSends DEF Answered
    <3>3. ~ Answered(r)
      BY <3>0 DEF Answered
    <3>4. \A s : Answered(s) => Answered(s)'
      BY <3>2, <3>3
    <3>5. ReplaysFaithful' /\ RowDescribesOwner'
      BY <2>7, <3>4 DEF ReplaysFaithful, RowDescribesOwner, Ownership
    <3>6. p = "record" => Answered(r)'
      BY <2>7, <3>0, AppendSends DEF Answered
    <3>7. RecordersSent' /\ RunnersOwn'
      BY <2>7, <3>4, <3>6 DEF RecordersSent, RunnersOwn, Owners, Goto, TypeOK, Ownership
    <3>8. SendsOrdered'
      BY <2>7, <3>1, AppendSends DEF SendsOrdered, Owners, Ownership
    <3>9. SendersOwn'
      <4> SUFFICES ASSUME NEW i \in 1..Len(sends'), sends'[i] \notin (errored \cup unrecorded)'
                   PROVE  row' # NoRow /\ row'.by = sends'[i] /\ pc'[sends'[i]] \in {"record", "done"}
        BY DEF SendersOwn
      <4>1. CASE i = Len(sends) + 1
        BY <2>7, <3>1, <4>1, AppendSends DEF Owners, Goto, TypeOK
      <4>2. CASE i \in 1..Len(sends)
        <5>1. sends'[i] = sends[i] /\ sends[i] \notin errored \cup unrecorded
          BY <2>7, <4>2, AppendSends
        <5>2. sends[i] # r
          BY <3>0, <4>2 DEF Sent
        <5> QED BY <2>7, <4>2, <5>1, <5>2 DEF SendersOwn, Ownership, Goto, TypeOK
      <4> QED BY <2>7, <4>1, <4>2, AppendSends
    <3> QED BY <3>5, <3>7, <3>8, <3>9 DEF Ownership
  <2>8. CASE HandlerSends(r)
    BY <2>7, <2>8 DEF HandlerSends
  <2>9. CASE HandlerFails(r)
    <3>1. CASE sends' = Append(sends, r)
      BY <2>7, <2>9, <3>1 DEF HandlerFails
    <3>2. CASE sends' = sends
      <4>0. ~ Sent(r)
        BY <2>9 DEF HandlerFails, FreshRequests
      <4>1. \A s : Answered(s)' <=> Answered(s)
        BY <2>9, <3>2, <4>0 DEF HandlerFails, Answered, Sent
      <4>2. \A i \in 1..Len(sends) : sends[i] # r
        BY <4>0 DEF Sent
      <4>3. SendsOrdered' /\ ReplaysFaithful' /\ RowDescribesOwner'
        BY <2>9, <3>2, <4>1 DEF HandlerFails, SendsOrdered, ReplaysFaithful,
           RowDescribesOwner, Ownership
      <4>4. RunnersOwn' /\ RecordersSent'
        BY <2>9, <4>1 DEF HandlerFails, Goto, RunnersOwn, RecordersSent, Owners,
           Ownership, TypeOK
      <4>5. SendersOwn'
        BY <2>9, <3>2, <4>2 DEF HandlerFails, Goto, SendersOwn, Ownership, TypeOK
      <4> QED BY <4>3, <4>4, <4>5 DEF Ownership
    <3> QED BY <2>9, <3>1, <3>2 DEF HandlerFails
  <2>10. CASE Complete(r)
    <3>1. row # NoRow /\ row \in Row /\ row.by = r /\ Answered(r)
      BY <2>10 DEF Complete, Ownership, RunnersOwn, RecordersSent, Answered, Owners, TypeOK
    <3>2. row' = row \/ row' = [row EXCEPT !.status = "completed", !.by = r]
      BY <2>10, <3>1 DEF Complete
    <3>3. row' \in Row /\ row'.by = r /\ row'.hash = row.hash
      <4>1. CASE row' = row
        BY <3>1, <4>1
      <4>2. CASE row' = [row EXCEPT !.status = "completed", !.by = r]
        BY <3>1, <4>2 DEF Row
      <4> QED BY <3>2, <4>1, <4>2
    <3>4. SendsOrdered' /\ ReplaysFaithful' /\ \A s : Answered(s)' <=> Answered(s)
      BY <2>10 DEF Complete, SendsOrdered, ReplaysFaithful, Answered, Sent, Ownership
    <3> QED BY <2>10, <3>1, <3>3, <3>4 DEF Complete, Goto, Ownership, RunnersOwn,
               SendersOwn, RowDescribesOwner, RecordersSent, Owners, TypeOK
  <2>11. CASE Cleanup(r)
    <3>0. SendsOrdered' /\ ReplaysFaithful' /\ \A s : Answered(s)' <=> Answered(s)
      BY <2>11 DEF Cleanup, SendsOrdered, ReplaysFaithful, Answered, Sent, Ownership
    <3>1. CASE UNCHANGED row
      BY <2>11, <3>0, <3>1 DEF Cleanup, Goto, Ownership, RunnersOwn, SendersOwn,
         RowDescribesOwner, RecordersSent, Owners, TypeOK
    <3>2. CASE row' = NoRow
      <4>0. r \in Owners /\ row.by = r /\ row # NoRow
        BY <2>11 DEF Cleanup, CleanersOwn, RunnersOwn, Ownership, Owners
      <4>1. \A i \in 1..Len(sends) : sends[i] \in errored \cup unrecorded
        BY <2>11, <4>0 DEF Cleanup, Ownership, SendersOwn
      <4>2. \A s \in Owners : pc'[s] \notin {"run", "record", "cleanup"}
        BY <2>11, <4>0 DEF Cleanup, Goto, Ownership, RunnersOwn, Owners, TypeOK
      <4> QED BY <2>11, <3>0, <3>2, <4>1, <4>2 DEF Cleanup, Goto, Ownership, RunnersOwn,
                 SendersOwn, RowDescribesOwner, RecordersSent, Owners, TypeOK
    <3> QED BY <2>11, <3>1, <3>2 DEF Cleanup
  <2>12. CASE Die(r)
    <3>1. CASE pc[r] = "run" /\ sends' = Append(sends, r)
      BY <2>7, <2>12, <3>1 DEF Die
    <3>2. CASE UNCHANGED sends
      <4>1. SendsOrdered' /\ ReplaysFaithful' /\ \A s : Answered(s)' <=> Answered(s)
        BY <2>12, <3>2 DEF Die, SendsOrdered, ReplaysFaithful, Answered, Sent, Ownership
      <4> QED BY <2>12, <3>2, <4>1 DEF Die, Fault, Goto, Ownership, RunnersOwn,
                 SendersOwn, RowDescribesOwner, RecordersSent, Owners, TypeOK
    <3> QED BY <2>12, <3>1, <3>2 DEF Die
  <2> QED BY <1>1, <2>1, <2>2, <2>3, <2>4, <2>5, <2>6, <2>8, <2>9, <2>10, <2>11,
             <2>12 DEF RequestStep
<1>2. CASE Sweep
  BY <1>2, Zenon DEF Sweep
<1>3. CASE Tick \/ UNCHANGED vars
  BY <1>3 DEF Tick, vars, Ownership, RunnersOwn, SendersOwn, RowDescribesOwner,
     RecordersSent, ReplaysFaithful, SendsOrdered, Owners, Answered, Sent
<1> QED BY <1>1, <1>2, <1>3 DEF Next

\* The inductive invariant holds in every reachable state.
THEOREM Invariance == Spec => []IndInv
<1>1. Init => IndInv
  <2> SUFFICES ASSUME Init PROVE IndInv
    OBVIOUS
  <2>1. TypeOK
    <3>1. lapsed \in BOOLEAN
      BY Zenon DEF Init
    <3>2. now \in 0..MaxTime /\ faults \in 0..MaxFaults
      BY TimesAssumption DEF Init
    <3>3. pc \in [Requests -> States]
      BY DEF Init, States
    <3> QED BY <3>1, <3>2, <3>3 DEF Init, TypeOK
  <2>2. EvictorsUnrecorded /\ CleanersOwn /\ FreshRequests
    BY DEF Init, EvictorsUnrecorded, CleanersOwn, FreshRequests, Sent
  <2>3. Ownership
    <3>1. SendersOwn /\ SendsOrdered
      BY DEF Init, SendersOwn, SendsOrdered
    <3>2. RunnersOwn /\ RecordersSent
      BY DEF Init, RunnersOwn, RecordersSent, Owners
    <3>3. RowDescribesOwner /\ ReplaysFaithful
      BY DEF Init, RowDescribesOwner, ReplaysFaithful
    <3> QED BY <3>1, <3>2, <3>3 DEF Ownership
  <2> QED BY <2>1, <2>2, <2>3 DEF IndInv
<1>2. IndInv /\ [Next]_vars => IndInv'
  BY TypeInductive, EvictorsInductive, FreshInductive, OwnershipInductive DEF IndInv
<1> QED BY <1>1, <1>2, PTL DEF Spec

\* Every request is in a state of the handler's control flow, and the stored row
\* and the clocks hold what they may (Handler, the idempotency_keys table).
THEOREM TypeCorrect == Spec => []TypeOK
<1>1. IndInv => TypeOK
  BY DEF IndInv
<1> QED BY <1>1, Invariance, PTL

\* As long as no row is removed for its age, a second send for the key follows a
\* first one answered with an error, or one of the two ran without the row,
\* whatever requests race, fail or die (Handler, runAndRecord, replayOrReject).
THEOREM SentOnceHolds == Spec => []SentOnceWhenRecorded
<1>1. IndInv => SentOnceWhenRecorded
  BY DEF IndInv, Ownership, SendsOrdered, SentOnceWhenRecorded
<1> QED BY <1>1, Invariance, PTL

\* A stored response is replayed only to a request with the same body, and only
\* if the request it answers really sent, with success (replayOrReject).
THEOREM ReplayFaithfulHolds == Spec => []ReplayFaithfulWhenRecorded
<1>1. IndInv => ReplayFaithfulWhenRecorded
  BY DEF IndInv, Ownership, ReplaysFaithful, Answered, ReplayFaithfulWhenRecorded
<1> QED BY <1>1, Invariance, PTL
=============================================================================
