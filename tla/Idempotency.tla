------------------------------ MODULE Idempotency ------------------------------
(***************************************************************************)
(* The Idempotency-Key middleware (internal/middleware/idempotency.go)     *)
(* over one (phone_number, idempotency_key) pair: requests that carry the  *)
(* key race on one row of the idempotency_keys table.  Every SQL statement *)
(* is one step; requests may run on different instances that share the     *)
(* database, and any of them may die between two statements.               *)
(***************************************************************************)
EXTENDS Naturals, Sequences

CONSTANTS Requests,        \* requests carrying the key
          Hash,            \* requestHash of each: method, path and body
          PendingTimeout,  \* pendingTimeout, in clock ticks
          TTL,             \* ttl, in clock ticks
          MaxTime,         \* bound: clock ticks
          MaxFaults,       \* bound: failed SQL statements and lost requests
          NoRow            \* no row for the key

ASSUME TimesAssumption == /\ PendingTimeout \in Nat /\ TTL \in Nat
                          /\ MaxTime \in Nat /\ MaxFaults \in Nat

Hashes == {Hash[r] : r \in Requests}

\* A row; by is the request whose response is stored, the request itself
\* while the row is pending.
Row == [hash : Hashes, status : {"pending", "completed"}, by : Requests,
        created : 0..MaxTime]

ASSUME NoRowAssumption == NoRow \notin Row

VARIABLES
  row,        \* the row of the key, or NoRow
  pc,         \* where each request is
  now,        \* the clock
  faults,
  sends,      \* the requests whose handler sent (or enqueued) the message, in order
  errored,    \* requests whose handler answered with an error or no 2xx status
  unrecorded, \* requests that run without owning the row
  replayed,   \* pairs <<r, s>>: r was answered with the stored response of s
  lapsed      \* a row was removed for its age, whatever its owner was doing

vars == <<row, pc, now, faults, sends, errored, unrecorded, replayed, lapsed>>

States == {"new", "loser", "evict", "run", "record", "cleanup", "done"}

Init ==
  /\ row = NoRow
  /\ pc = [r \in Requests |-> "new"]
  /\ now = 0 /\ faults = 0
  /\ sends = <<>> /\ errored = {} /\ unrecorded = {} /\ replayed = {}
  /\ lapsed = FALSE

Goto(r, p) == pc' = [pc EXCEPT ![r] = p]
Fault == faults < MaxFaults /\ faults' = faults + 1

-----------------------------------------------------------------------------
(* Handler *)

PendingRow(r) == [hash |-> Hash[r], status |-> "pending", by |-> r, created |-> now]

\* Seeded defect: the insert is an upsert, so every request owns the row.
TryInsertUpserts(r) ==
  /\ pc[r] = "new"
  /\ row' = PendingRow(r)
  /\ Goto(r, "run")
  /\ UNCHANGED <<now, faults, sends, errored, unrecorded, replayed, lapsed>>

\* tryInsertPending: INSERT ... ON CONFLICT DO NOTHING.
TryInsertPending(r) ==
  /\ pc[r] = "new"
  /\ \/ /\ row = NoRow
        /\ row' = PendingRow(r)
        /\ Goto(r, "run")
     \/ /\ row # NoRow
        /\ UNCHANGED row
        /\ Goto(r, "loser")
  /\ UNCHANGED <<now, faults, sends, errored, unrecorded, replayed, lapsed>>

\* The insert reported an error, having stored the row or not: the middleware
\* fails open.
InsertFails(r) ==
  /\ pc[r] = "new" /\ Fault
  /\ \/ UNCHANGED row
     \/ row = NoRow /\ row' = PendingRow(r)
  /\ Goto(r, "run")
  /\ unrecorded' = unrecorded \cup {r}
  /\ UNCHANGED <<now, sends, errored, replayed, lapsed>>

-----------------------------------------------------------------------------
(* replayOrReject *)

Age == now - row.created

\* get found nothing, or failed: just proceed.
LookupMisses(r) ==
  /\ pc[r] = "loser"
  /\ \/ row = NoRow /\ UNCHANGED faults
     \/ row # NoRow /\ Fault
  /\ Goto(r, "run")
  /\ unrecorded' = unrecorded \cup {r}
  /\ UNCHANGED <<row, now, sends, errored, replayed, lapsed>>

\* The row read is expired, or pending for too long: it will be deleted and
\* the request runs without inserting a row of its own.
Stale(r) == \/ Age > TTL
            \/ row.hash = Hash[r] /\ row.status = "pending" /\ Age > PendingTimeout

LookupStale(r) ==
  /\ pc[r] = "loser" /\ row # NoRow
  /\ Stale(r)
  /\ Goto(r, "evict")
  /\ unrecorded' = unrecorded \cup {r}
  /\ UNCHANGED <<row, now, faults, sends, errored, replayed, lapsed>>

\* The deletion is keyed by (phone, key) alone: it removes whatever row is
\* there by now.
Evict(r) ==
  /\ pc[r] = "evict"
  /\ \/ row' = NoRow /\ lapsed' = (lapsed \/ row # NoRow) /\ UNCHANGED faults
     \/ UNCHANGED <<row, lapsed>> /\ Fault
  /\ Goto(r, "run")
  /\ UNCHANGED <<now, sends, errored, unrecorded, replayed>>

\* 422 for another body, 409 while the owner is in progress.
Reject(r) ==
  /\ pc[r] = "loser" /\ row # NoRow
  /\ Age <= TTL
  /\ \/ row.hash # Hash[r]
     \/ row.hash = Hash[r] /\ row.status = "pending" /\ Age <= PendingTimeout
  /\ Goto(r, "done")
  /\ UNCHANGED <<row, now, faults, sends, errored, unrecorded, replayed, lapsed>>

\* Seeded defect: the stored response is replayed whatever the body was.
ReplayAnyBody(r) ==
  /\ pc[r] = "loser" /\ row # NoRow
  /\ Age <= TTL
  /\ row.status = "completed"
  /\ replayed' = replayed \cup {<<r, row.by>>}
  /\ Goto(r, "done")
  /\ UNCHANGED <<row, now, faults, sends, errored, unrecorded, lapsed>>

Replay(r) ==
  /\ pc[r] = "loser" /\ row # NoRow
  /\ Age <= TTL
  /\ row.hash = Hash[r] /\ row.status = "completed"
  /\ replayed' = replayed \cup {<<r, row.by>>}
  /\ Goto(r, "done")
  /\ UNCHANGED <<row, now, faults, sends, errored, unrecorded, lapsed>>

-----------------------------------------------------------------------------
(* runAndRecord, and c.Next() for requests that run unrecorded *)

\* The send handler succeeds.  Only the owner of the row goes on to record.
HandlerSends(r) ==
  /\ pc[r] = "run"
  /\ sends' = Append(sends, r)
  /\ Goto(r, IF r \in unrecorded THEN "done" ELSE "record")
  /\ UNCHANGED <<row, now, faults, errored, unrecorded, replayed, lapsed>>

\* The send handler returns an error or a status that is not 2xx.  It may have
\* sent all the same: the server's answer was lost (504), or the job was
\* enqueued and the confirmation was not.
HandlerFails(r) ==
  /\ pc[r] = "run"
  /\ errored' = errored \cup {r}
  /\ sends' \in {sends, Append(sends, r)}
  /\ Goto(r, IF r \in unrecorded THEN "done" ELSE "cleanup")
  /\ UNCHANGED <<row, now, faults, unrecorded, replayed, lapsed>>

\* Seeded defect: complete writes a status that nothing reads.
CompleteMistyped(r) ==
  /\ pc[r] = "record"
  /\ row' = IF row = NoRow THEN NoRow
            ELSE [row EXCEPT !.status = "complete", !.by = r]
  /\ Goto(r, "done")
  /\ UNCHANGED <<now, faults, sends, errored, unrecorded, replayed, lapsed>>

\* complete: UPDATE ... WHERE (phone, key), a no-op if the row is gone.
Complete(r) ==
  /\ pc[r] = "record"
  /\ \/ /\ row' = IF row = NoRow THEN NoRow
                  ELSE [row EXCEPT !.status = "completed", !.by = r]
        /\ UNCHANGED faults
     \/ UNCHANGED row /\ Fault
  /\ Goto(r, "done")
  /\ UNCHANGED <<now, sends, errored, unrecorded, replayed, lapsed>>

\* delete after a failed handler.
Cleanup(r) ==
  /\ pc[r] = "cleanup"
  /\ \/ row' = NoRow /\ UNCHANGED faults
     \/ UNCHANGED row /\ Fault
  /\ Goto(r, "done")
  /\ UNCHANGED <<now, sends, errored, unrecorded, replayed, lapsed>>

-----------------------------------------------------------------------------
(* Environment *)

\* The instance handling r dies, within the handler before or after the send.
Die(r) ==
  /\ pc[r] \in {"loser", "evict", "run", "record", "cleanup"} /\ Fault
  /\ \/ UNCHANGED sends
     \/ pc[r] = "run" /\ sends' = Append(sends, r)
  /\ Goto(r, "done")
  /\ UNCHANGED <<row, now, errored, unrecorded, replayed, lapsed>>

\* sweepLoop: DELETE ... WHERE created_at < now - ttl.
Sweep ==
  /\ row # NoRow /\ Age > TTL
  /\ row' = NoRow
  /\ lapsed' = TRUE
  /\ UNCHANGED <<pc, now, faults, sends, errored, unrecorded, replayed>>

Tick ==
  /\ now < MaxTime
  /\ now' = now + 1
  /\ UNCHANGED <<row, pc, faults, sends, errored, unrecorded, replayed, lapsed>>

RequestStep(r) ==
  \/ TryInsertPending(r) \/ InsertFails(r)
  \/ LookupMisses(r) \/ LookupStale(r) \/ Evict(r) \/ Reject(r) \/ Replay(r)
  \/ HandlerSends(r) \/ HandlerFails(r) \/ Complete(r) \/ Cleanup(r) \/ Die(r)

Next == (\E r \in Requests : RequestStep(r)) \/ Sweep \/ Tick

Spec == Init /\ [][Next]_vars

-----------------------------------------------------------------------------
(* Properties *)

\* Every variable keeps its type.
TypeOK ==
  /\ row \in Row \cup {NoRow}
  /\ pc \in [Requests -> States]
  /\ now \in 0..MaxTime /\ faults \in 0..MaxFaults
  /\ sends \in Seq(Requests)
  /\ errored \subseteq Requests /\ unrecorded \subseteq Requests
  /\ replayed \subseteq Requests \X Requests
  /\ lapsed \in BOOLEAN

Sent(r) == \E i \in 1..Len(sends) : sends[i] = r

\* As long as no row is removed for its age, the message goes out a second time
\* for the key only after the first sender was answered with an error, or when
\* one of the two ran without the row because the middleware failed open,
\* whatever requests race, fail or die in the middle: after a recorded sender
\* that was answered with success, or died, no other owner of the row sends
\* (runAndRecord deletes the row on an error only).
SentOnceWhenRecorded ==
  ~ lapsed => \A i, j \in 1..Len(sends) :
                i < j => \/ sends[i] \in errored
                         \/ {sends[i], sends[j]} \cap unrecorded # {}

\* ... and a replayed response is the response to a request with the same body
\* that owned the row, really sent and was answered with success.
ReplayFaithfulWhenRecorded ==
  ~ lapsed => \A p \in replayed : /\ Hash[p[1]] = Hash[p[2]]
                                  /\ Sent(p[2])
                                  /\ p[2] \notin errored \cup unrecorded
=============================================================================
