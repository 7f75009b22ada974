-------------------------------- MODULE Pacer --------------------------------
(***************************************************************************)
(* The outbound pacer, pkg/ratelimiter/pacer.go, with its two limiters:    *)
(* the token bucket of the account (tokenbucket.go) and the fixed window   *)
(* of each recipient (memory.go), and the ban gate, which reads the        *)
(* persisted session status (BanState, session_inventory.go).              *)
(*                                                                         *)
(* One account: buckets and windows of different accounts share nothing.   *)
(* Time is a count of ticks.  Tokens are counted in units, of which an     *)
(* operation costs Cost and a tick brings Rate, so that the ratio may be   *)
(* any fraction.  Every caller spends one token.                           *)
(*                                                                         *)
(* Each call of a limiter holds the limiter's mutex and is one step; what  *)
(* other callers do between the steps of Wait is not restricted.           *)
(***************************************************************************)
EXTENDS Naturals

CONSTANTS
    Callers,        \* concurrent callers of Wait
    Recipients,
    NoRecipient,    \* the empty recipient of account-wide operations
    Account,        \* the key of the legacy limiter used when pacing is off
    Rate, Burst, Cost,
    MaxWait, Jitter,
    Limit, Window,  \* slots per recipient and window
    BanHold,        \* how long a ban without an end is taken to last
    MaxClock        \* bound: ticks of the clock

ASSUME PacerAssumption ==
    /\ Rate \in Nat \ {0} /\ Burst \in Nat /\ Cost \in Nat \ {0} /\ Cost <= Burst
    /\ MaxWait \in Nat /\ Jitter \in Nat
    /\ Limit \in Nat /\ Window \in Nat
    /\ BanHold \in Nat /\ MaxClock \in Nat
    /\ NoRecipient \notin Recipients /\ Account \notin Recipients \cup {NoRecipient}

VARIABLES
    mode,           \* OUTBOUND_PACE_ENABLED and _MODE: "pace", "reject", "off"
    clock,
    status,         \* the account's session_status row
    bucket,         \* the account's entry of the token bucket
    windows,        \* key -> entry of a fixed-window limiter
    call,           \* caller -> where it is in Wait
    spent,          \* history: units spent from the bucket since time s
    slots           \* history: slots of a key taken since time s

pacerVars == <<mode, clock, bucket, windows, call, spent, slots>>
allPacerVars == <<pacerVars, status>>

Times == 0..MaxClock
Keys == Recipients \cup {Account}
States == {"none", "connected", "disconnected", "logged_out", "banned", "reachout_timelocked"}
Statuses == [state : States, open : BOOLEAN, until : Nat, at : Times]
Calls == [pc : {"idle", "gate", "recipient", "account", "sleeping", "cleared", "fallback"},
          to : Recipients \cup {NoRecipient}, gate : Times, deadline : Nat, wake : Nat]

Idle == [pc |-> "idle", to |-> NoRecipient, gate |-> 0, deadline |-> 0, wake |-> 0]
Least(a, b) == IF a <= b THEN a ELSE b

-----------------------------------------------------------------------------
(* The limiters                                                            *)

(* The tokens AllowN finds: a new entry is full, an old one is refilled    *)
(* for the time since its last refill.                                     *)
Tokens ==
    IF bucket.known THEN Least(Burst, bucket.tokens + Rate * (clock - bucket.last))
    ELSE Burst

(* Mutant: the time of the refill is not kept.                             *)
SpendTokens_keepLast ==
    /\ bucket' = [known |-> TRUE, tokens |-> Tokens - Cost,
                  last |-> IF bucket.known THEN bucket.last ELSE clock]
    /\ spent' = [s \in Times |-> IF s <= clock THEN spent[s] + Cost ELSE spent[s]]

(* TokenBucketLimiter.AllowN: the refill is kept, the cost is taken only   *)
(* if it can be paid.                                                      *)
SpendTokens ==
    /\ bucket' = [known |-> TRUE, tokens |-> Tokens - Cost, last |-> clock]
    /\ spent' = [s \in Times |-> IF s <= clock THEN spent[s] + Cost ELSE spent[s]]
RefuseTokens ==
    /\ bucket' = [known |-> TRUE, tokens |-> Tokens, last |-> clock]
    /\ UNCHANGED spent

RetryAfter == (Cost - Tokens + Rate - 1) \div Rate

(* Mutant: the window ends one instant early.                              *)
Entry_early(k) ==
    IF windows[k].known /\ clock < windows[k].start + Window THEN windows[k]
    ELSE [known |-> TRUE, start |-> clock, count |-> 0]

(* MemoryLimiter.AllowN: a window over is replaced by one that starts now. *)
Entry(k) ==
    IF windows[k].known /\ clock <= windows[k].start + Window THEN windows[k]
    ELSE [known |-> TRUE, start |-> clock, count |-> 0]

SlotFree(k) == Entry(k).count + 1 <= Limit

TakeSlot(k) ==
    /\ windows' = [windows EXCEPT ![k] = [Entry(k) EXCEPT !.count = @ + 1]]
    /\ slots' = [slots EXCEPT ![k] =
                    [s \in Times |-> IF s <= clock THEN slots[k][s] + 1 ELSE slots[k][s]]]
RefuseSlot(k) ==
    /\ windows' = [windows EXCEPT ![k] = Entry(k)]
    /\ UNCHANGED slots

(* BanState: a ban whose end was not reported is held for BanHold.         *)
BanEnd == IF status.open THEN status.at + BanHold ELSE status.until
Banned == status.state = "banned" /\ BanEnd > clock

-----------------------------------------------------------------------------
(* Wait                                                                    *)

(* Caller c goes on as x, or at pc, or returns.                            *)
Becomes(c, x) == call' = [call EXCEPT ![c] = x]
Goes(c, pc) == Becomes(c, [call[c] EXCEPT !.pc = pc])
Leaves(c) == Becomes(c, Idle)

Wait(c, r) ==
    /\ call[c].pc = "idle"
    /\ Becomes(c, [call[c] EXCEPT !.pc = IF mode = "off" THEN "fallback" ELSE "gate", !.to = r])
    /\ UNCHANGED <<mode, clock, status, bucket, windows, spent, slots>>

(* Mutant: a ban without a reported end is no ban.                         *)
BanGate_openIsOver(c) ==
    /\ call[c].pc = "gate"
    /\ IF Banned /\ ~status.open THEN Leaves(c)
       ELSE Becomes(c, [call[c] EXCEPT !.pc = "recipient", !.gate = clock])
    /\ UNCHANGED <<mode, clock, status, bucket, windows, spent, slots>>

(* 1. The ban gate, looked at once.  A row that cannot be read is no ban:  *)
(* the gate has then seen nothing later than time 0.                       *)
BanGate(c) ==
    /\ call[c].pc = "gate"
    /\ \/ Banned /\ Leaves(c)
       \/ ~Banned /\ Becomes(c, [call[c] EXCEPT !.pc = "recipient", !.gate = clock])
       \/ Becomes(c, [call[c] EXCEPT !.pc = "recipient", !.gate = 0])
    /\ UNCHANGED <<mode, clock, status, bucket, windows, spent, slots>>

(* 2. The recipient's slot is taken before the account bucket is asked.    *)
RecipientCap(c) ==
    LET k == call[c].to
        goOn == Becomes(c, [call[c] EXCEPT !.pc = "account", !.deadline = clock + MaxWait])
    IN
    /\ call[c].pc = "recipient"
    /\ \/ k = NoRecipient /\ goOn /\ UNCHANGED <<windows, slots>>
       \/ k # NoRecipient /\ SlotFree(k) /\ TakeSlot(k) /\ goOn
       \/ k # NoRecipient /\ ~SlotFree(k) /\ RefuseSlot(k) /\ Leaves(c)
    /\ UNCHANGED <<mode, clock, status, bucket, spent>>

(* 3. The account bucket: cleared, rejected, or asleep until tokens should *)
(* be there or the deadline has come.                                      *)
Sleep(c) ==
    \E j \in 0..(IF Jitter = 0 THEN 0 ELSE Jitter - 1) :
        Becomes(c, [call[c] EXCEPT !.pc = "sleeping",
                                   !.wake = Least(clock + RetryAfter + j, call[c].deadline)])

(* Mutant: a bucket that is not empty is enough.                           *)
AccountBucket_anyToken(c) ==
    /\ call[c].pc = "account"
    /\ \/ Tokens > 0 /\ SpendTokens /\ Goes(c, "cleared")
       \/ Tokens = 0 /\ RefuseTokens /\ Leaves(c)
    /\ UNCHANGED <<mode, clock, status, windows, slots>>

AccountBucket(c) ==
    /\ call[c].pc = "account"
    /\ \/ Tokens >= Cost /\ SpendTokens /\ Goes(c, "cleared")
       \/ Tokens < Cost /\ RefuseTokens
          /\ IF mode = "reject" \/ call[c].deadline <= clock
             THEN Leaves(c) ELSE Sleep(c)
    /\ UNCHANGED <<mode, clock, status, windows, slots>>

Wake(c) ==
    /\ call[c].pc = "sleeping" /\ clock >= call[c].wake
    /\ Goes(c, "account")
    /\ UNCHANGED <<mode, clock, status, bucket, windows, spent, slots>>

(* The request's context ends during the sleep.                            *)
Cancel(c) ==
    /\ call[c].pc = "sleeping"
    /\ Leaves(c)
    /\ UNCHANGED <<mode, clock, status, bucket, windows, spent, slots>>

(* Pacing off: the legacy limiter of the account decides.                  *)
fallbackReject(c) ==
    /\ call[c].pc = "fallback"
    /\ \/ SlotFree(Account) /\ TakeSlot(Account) /\ Goes(c, "cleared")
       \/ ~SlotFree(Account) /\ RefuseSlot(Account) /\ Leaves(c)
    /\ UNCHANGED <<mode, clock, status, bucket, spent>>

(* The caller performs the operation it was cleared for.                   *)
Return(c) ==
    /\ call[c].pc = "cleared"
    /\ Leaves(c)
    /\ UNCHANGED <<mode, clock, status, bucket, windows, spent, slots>>

Tick ==
    /\ clock < MaxClock
    /\ clock' = clock + 1
    /\ UNCHANGED <<mode, status, bucket, windows, call, spent, slots>>

(* The process restarts: limiters and callers are gone, the row is not.    *)
NoSpending == [s \in Times |-> 0]
RestartPacer ==
    /\ bucket' = [known |-> FALSE, tokens |-> 0, last |-> 0]
    /\ windows' = [k \in Keys |-> [known |-> FALSE, start |-> 0, count |-> 0]]
    /\ call' = [c \in Callers |-> Idle]
    /\ spent' = NoSpending /\ slots' = [k \in Keys |-> NoSpending]
    /\ UNCHANGED <<mode, clock>>

(* UpsertSessionStatus, whoever calls it: any new row, stamped with now.   *)
StatusWritten ==
    /\ status' \in Statuses /\ status'.at = clock
    /\ UNCHANGED pacerVars

-----------------------------------------------------------------------------
PacerInit ==
    /\ mode \in {"pace", "reject", "off"}
    /\ clock = 0
    /\ status = [state |-> "none", open |-> FALSE, until |-> 0, at |-> 0]
    /\ bucket = [known |-> FALSE, tokens |-> 0, last |-> 0]
    /\ windows = [k \in Keys |-> [known |-> FALSE, start |-> 0, count |-> 0]]
    /\ call = [c \in Callers |-> Idle]
    /\ spent = NoSpending /\ slots = [k \in Keys |-> NoSpending]

WaitSteps ==
    \E c \in Callers :
        \/ \E r \in Recipients \cup {NoRecipient} : Wait(c, r)
        \/ BanGate(c)
        \/ RecipientCap(c)
        \/ AccountBucket(c)
        \/ Wake(c)
        \/ Cancel(c)
        \/ fallbackReject(c)
        \/ Return(c)

PacerNext ==
    \/ WaitSteps
    \/ Tick
    \/ RestartPacer /\ UNCHANGED status
    \/ StatusWritten

PacerSpec == PacerInit /\ [][PacerNext]_allPacerVars

-----------------------------------------------------------------------------
(* Properties                                                              *)

(* Types: every call is at a known point of Wait, and the limiters' stored  *)
(* numbers stay within what was configured.                                *)
PacerTypeOK ==
    /\ mode \in {"pace", "reject", "off"}
    /\ clock \in Times
    /\ status \in Statuses
    /\ bucket \in [known : BOOLEAN, tokens : 0..Burst, last : Times]
    /\ windows \in [Keys -> [known : BOOLEAN, start : Times, count : 0..Limit]]
    /\ call \in [Callers -> Calls]
    /\ spent \in [Times -> Nat]
    /\ slots \in [Keys -> [Times -> Nat]]

(* Anti-spam rate: from any moment s on, the account has been cleared for  *)
(* no more than a full bucket and what the rate has brought since, however *)
(* the callers interleave and retry (tokenbucket.go 72-106: a denial       *)
(* deducts nothing, a refill is capped).                                   *)
RateBound == \A s \in Times : s <= clock => spent[s] <= Burst + Rate * (clock - s)

(* In no stretch of a window's length are twice the limit of a recipient's *)
(* slots taken: a fixed window admits the limit on both sides of its edge, *)
(* but it starts with its first slot, which a stretch across the edge      *)
(* misses (memory.go 35-71).                                               *)
RecipientBound ==
    \A k \in Keys : \A s \in Times :
        s <= clock /\ clock - s <= Window => slots[k][s] = 0 \/ slots[k][s] < 2 * Limit

(* A call that is past the gate while the account is banned read the row   *)
(* before the ban was recorded, or could not read it: neither waiting nor  *)
(* the row of a ban without an end lets a later call in.                   *)
GateBeforeBan ==
    \A c \in Callers :
        call[c].pc \in {"recipient", "account", "sleeping", "cleared"} /\ mode # "off" /\ Banned
            => call[c].gate <= status.at

(* A paced call never sleeps beyond MaxWait after it was given its slot,   *)
(* jitter included (pacer.go 137-141).                                     *)
SleepBounded ==
    \A c \in Callers :
        call[c].pc = "sleeping" =>
            call[c].wake <= call[c].deadline /\ call[c].deadline <= clock + MaxWait
=============================================================================
