---------------------------- MODULE Pacer_proofs ----------------------------
(***************************************************************************)
(* The pacer's bounds for every number of callers and recipients, every    *)
(* rate, burst, cost, window and limit.  The invariants speak about the    *)
(* present; the proofs strengthen them with what the limiters remember:    *)
(*   TokensLeft   the tokens left and those spent since s add up to no     *)
(*                more than a full bucket and the refill since s;          *)
(*   WindowFacts  what the slots taken since s can be, given where the     *)
(*                current window started and how many it has counted;      *)
(*   GateFacts    no gate was looked at in the future, a sleeper's         *)
(*                deadline is near, and only "off" falls back.             *)
(***************************************************************************)
EXTENDS Pacer, TLAPS

TokensLeft ==
    /\ bucket.last <= clock
    /\ \A s \in Times : s <= clock => spent[s] + Tokens <= Burst + Rate * (clock - s)
    /\ \A s \in Times : s > clock => spent[s] = 0

WindowFacts(k) ==
    LET w == windows[k] IN
    /\ w.start <= clock
    /\ \A s \in Times : s > clock \/ ~w.known => slots[k][s] = 0
    /\ w.known => w.count > 0 \/ Limit = 0
    /\ w.known => \A s \in Times : s > w.start => slots[k][s] = 0 \/ slots[k][s] < w.count
    /\ w.known => \A s \in Times : s <= w.start /\ w.start - s <= Window =>
                     slots[k][s] = 0 \/ slots[k][s] < Limit + w.count

GateFacts ==
    \A c \in Callers :
        /\ call[c].gate <= clock
        /\ call[c].pc \in {"account", "sleeping"} => call[c].deadline <= clock + MaxWait
        /\ call[c].pc = "fallback" => mode = "off"

-----------------------------------------------------------------------------
(* Arithmetic the solver does not find by itself.                          *)
LEMMA Products ==
    ASSUME NEW r \in Nat, NEW a \in Nat
    PROVE  r * a \in Nat /\ r * (a + 1) = r * a + r
  OBVIOUS

(* The tokens AllowN finds are a number the bucket can hold.               *)
LEMMA TokensType ==
    ASSUME PacerTypeOK, bucket.last <= clock
    PROVE  /\ Tokens \in 0..Burst
           /\ clock - bucket.last \in Nat
           /\ Rate * (clock - bucket.last) \in Nat
  <1>1. clock - bucket.last \in Nat
    BY DEF PacerTypeOK, Times
  <1>2. Rate * (clock - bucket.last) \in Nat
    BY <1>1, Products, PacerAssumption
  <1> DEFINE refill == Rate * (clock - bucket.last)
  <1>3. refill \in Nat
    BY <1>2
  <1> HIDE DEF refill
  <1>4. bucket.known \in BOOLEAN /\ bucket.tokens \in 0..Burst
    BY DEF PacerTypeOK
  <1>5. Tokens = IF bucket.known THEN Least(Burst, bucket.tokens + refill) ELSE Burst
    BY DEF Tokens, refill
  <1>6. Tokens \in 0..Burst
    BY <1>3, <1>4, <1>5, PacerAssumption DEF Least
  <1> QED BY <1>1, <1>2, <1>6

(* A window AllowN goes on with, or a new one, is an entry.                *)
LEMMA EntryType ==
    ASSUME PacerTypeOK, NEW k \in Keys
    PROVE  Entry(k) \in [known : BOOLEAN, start : Times, count : 0..Limit]
  BY PacerAssumption DEF PacerTypeOK, Entry, Times

-----------------------------------------------------------------------------
(* Type correctness, with the order of the bucket's clock it rests on.     *)
TypeInv == PacerTypeOK /\ bucket.last <= clock

LEMMA SpendType ==
    ASSUME TypeInv, SpendTokens, Tokens >= Cost
    PROVE  /\ bucket' \in [known : BOOLEAN, tokens : 0..Burst, last : Times]
           /\ bucket'.last = clock
           /\ spent' \in [Times -> Nat]
  <1>1. Tokens - Cost \in 0..Burst
    BY TokensType, PacerAssumption DEF TypeInv
  <1>2. bucket' = [known |-> TRUE, tokens |-> Tokens - Cost, last |-> clock] /\ clock \in Times
    BY DEF TypeInv, PacerTypeOK, SpendTokens
  <1>3. spent' \in [Times -> Nat]
    BY PacerAssumption DEF TypeInv, PacerTypeOK, SpendTokens, Times
  <1> QED BY <1>1, <1>2, <1>3

LEMMA RefuseType ==
    ASSUME TypeInv, RefuseTokens
    PROVE  /\ bucket' \in [known : BOOLEAN, tokens : 0..Burst, last : Times]
           /\ bucket'.last = clock
           /\ spent' \in [Times -> Nat]
  BY TokensType, PacerAssumption DEF TypeInv, PacerTypeOK, RefuseTokens, Times

LEMMA TakeType ==
    ASSUME TypeInv, NEW k \in Keys, SlotFree(k), TakeSlot(k)
    PROVE  /\ windows' \in [Keys -> [known : BOOLEAN, start : Times, count : 0..Limit]]
           /\ slots' \in [Keys -> [Times -> Nat]]
  <1>1. Entry(k) \in [known : BOOLEAN, start : Times, count : 0..Limit]
    BY EntryType DEF TypeInv
  <1>2. [Entry(k) EXCEPT !.count = @ + 1] \in [known : BOOLEAN, start : Times, count : 0..Limit]
    BY <1>1, PacerAssumption DEF SlotFree
  <1>3. windows' \in [Keys -> [known : BOOLEAN, start : Times, count : 0..Limit]]
    BY <1>2 DEF TypeInv, PacerTypeOK, TakeSlot
  <1>4. slots' \in [Keys -> [Times -> Nat]]
    BY DEF TypeInv, PacerTypeOK, TakeSlot
  <1> QED BY <1>3, <1>4

LEMMA RefuseSlotType ==
    ASSUME TypeInv, NEW k \in Keys, RefuseSlot(k)
    PROVE  /\ windows' \in [Keys -> [known : BOOLEAN, start : Times, count : 0..Limit]]
           /\ slots' \in [Keys -> [Times -> Nat]]
  BY EntryType DEF TypeInv, PacerTypeOK, RefuseSlot

LEMMA RetryType ==
    ASSUME TypeInv, Tokens < Cost
    PROVE  RetryAfter \in Nat
  <1>1. Tokens \in Nat /\ Cost - Tokens + Rate - 1 \in Nat
    BY TokensType, PacerAssumption DEF TypeInv
  <1> QED BY <1>1, PacerAssumption DEF RetryAfter

LEMMA CallType ==
    ASSUME TypeInv, NEW c \in Callers, NEW x \in Calls, Becomes(c, x)
    PROVE  call' \in [Callers -> Calls]
  BY DEF TypeInv, PacerTypeOK, Becomes

LEMMA Zero == 0 \in Times /\ Idle \in Calls
  <1>1. 0 \in Times
    BY PacerAssumption DEF Times
  <1> QED BY <1>1 DEF Calls, Idle

LEMMA CallTypes ==
    ASSUME TypeInv, NEW c \in Callers
    PROVE  /\ call[c] \in Calls /\ Idle \in Calls
           /\ \A pc \in {"recipient", "account", "sleeping", "cleared"} :
                 [call[c] EXCEPT !.pc = pc] \in Calls
  <1>1. call[c] \in Calls
    BY DEF TypeInv, PacerTypeOK
  <1>2. \A pc \in {"recipient", "account", "sleeping", "cleared"} :
           [call[c] EXCEPT !.pc = pc] \in Calls
    BY <1>1 DEF Calls
  <1> QED BY <1>1, <1>2, Zero

LEMMA TypeInit == PacerInit => TypeInv
  <1> SUFFICES ASSUME PacerInit PROVE TypeInv
    OBVIOUS
  <1> USE PacerAssumption, Zero
  <1>1. status \in Statuses
    BY DEF PacerInit, Statuses, States
  <1>2. call \in [Callers -> Calls]
    BY DEF PacerInit
  <1>3. /\ mode \in {"pace", "reject", "off"} /\ clock \in Times /\ bucket.last <= clock
        /\ windows \in [Keys -> [known : BOOLEAN, start : Times, count : 0..Limit]]
        /\ bucket \in [known : BOOLEAN, tokens : 0..Burst, last : Times]
        /\ spent \in [Times -> Nat] /\ slots \in [Keys -> [Times -> Nat]]
    BY DEF PacerInit, NoSpending
  <1> QED BY <1>1, <1>2, <1>3 DEF TypeInv, PacerTypeOK

(* The three fields Wait fills in on its way.                              *)
LEMMA FieldTypes ==
    ASSUME NEW x \in Calls, NEW pc \in {"recipient", "account", "sleeping"},
           NEW t \in Times, NEW n \in Nat
    PROVE  /\ [x EXCEPT !.pc = pc, !.gate = t] \in Calls
           /\ [x EXCEPT !.pc = pc, !.deadline = n] \in Calls
           /\ [x EXCEPT !.pc = pc, !.wake = n] \in Calls
  <1>1. [x EXCEPT !.pc = pc, !.gate = t] \in Calls
    BY DEF Calls
  <1>2. [x EXCEPT !.pc = pc, !.deadline = n] \in Calls
    BY DEF Calls
  <1>3. [x EXCEPT !.pc = pc, !.wake = n] \in Calls
    BY DEF Calls
  <1> QED BY <1>1, <1>2, <1>3

LEMMA TypeNext == TypeInv /\ [PacerNext]_allPacerVars => TypeInv'
  <1> SUFFICES ASSUME TypeInv, [PacerNext]_allPacerVars PROVE TypeInv'
    OBVIOUS
  <1> USE PacerAssumption
  <1>0. clock \in Nat /\ clock \in Times /\ bucket.last <= clock
    BY DEF TypeInv, PacerTypeOK, Times
  <1>1. ASSUME NEW c \in Callers, NEW r \in Recipients \cup {NoRecipient}, Wait(c, r)
        PROVE  TypeInv'
    <2>1. [call[c] EXCEPT !.pc = IF mode = "off" THEN "fallback" ELSE "gate", !.to = r] \in Calls
      BY CallTypes DEF Calls
    <2>2. call' \in [Callers -> Calls]
      BY <1>1, <2>1, CallType DEF Wait
    <2> QED BY <1>1, <2>2 DEF Wait, TypeInv, PacerTypeOK
  <1>2. ASSUME NEW c \in Callers, BanGate(c) PROVE TypeInv'
    <2>1. /\ [call[c] EXCEPT !.pc = "recipient", !.gate = clock] \in Calls
          /\ [call[c] EXCEPT !.pc = "recipient", !.gate = 0] \in Calls
      BY <1>0, Zero, CallTypes, FieldTypes
    <2>2. call' \in [Callers -> Calls]
      BY <1>2, <2>1, CallType, CallTypes DEF BanGate, Leaves
    <2> QED BY <1>2, <2>2 DEF BanGate, TypeInv, PacerTypeOK
  <1>3. ASSUME NEW c \in Callers, RecipientCap(c) PROVE TypeInv'
    <2>1. call[c].to \in Recipients \cup {NoRecipient}
      BY CallTypes DEF Calls
    <2>2. /\ windows' \in [Keys -> [known : BOOLEAN, start : Times, count : 0..Limit]]
          /\ slots' \in [Keys -> [Times -> Nat]]
      <3>1. CASE call[c].to = NoRecipient
        BY <1>3, <3>1 DEF RecipientCap, TypeInv, PacerTypeOK
      <3>2. CASE call[c].to # NoRecipient
        <4>1. call[c].to \in Keys
          BY <2>1, <3>2 DEF Keys
        <4> QED BY <1>3, <3>2, <4>1, TakeType, RefuseSlotType DEF RecipientCap
      <3> QED BY <3>1, <3>2
    <2>3. [call[c] EXCEPT !.pc = "account", !.deadline = clock + MaxWait] \in Calls
      <3>1. clock + MaxWait \in Nat
        BY <1>0
      <3> QED BY <3>1, CallTypes, FieldTypes, Zero
    <2>4. call' \in [Callers -> Calls]
      BY <1>3, <2>3, CallType, CallTypes DEF RecipientCap, Leaves
    <2> QED BY <1>3, <2>2, <2>4 DEF RecipientCap, TypeInv, PacerTypeOK
  <1>4. ASSUME NEW c \in Callers, AccountBucket(c) PROVE TypeInv'
    <2>1. /\ bucket' \in [known : BOOLEAN, tokens : 0..Burst, last : Times]
          /\ bucket'.last = clock
          /\ spent' \in [Times -> Nat]
      BY <1>4, SpendType, RefuseType DEF AccountBucket
    <2>2. call' \in [Callers -> Calls]
      <3>1. CASE Tokens < Cost /\ Sleep(c)
        <4>1. PICK j \in 0..(IF Jitter = 0 THEN 0 ELSE Jitter - 1) :
                Becomes(c, [call[c] EXCEPT !.pc = "sleeping",
                              !.wake = Least(clock + RetryAfter + j, call[c].deadline)])
          BY <3>1 DEF Sleep
        <4>2. Least(clock + RetryAfter + j, call[c].deadline) \in Nat
          <5>1. RetryAfter \in Nat /\ j \in Nat /\ call[c].deadline \in Nat
            <6>1. RetryAfter \in Nat
              BY <3>1, RetryType
            <6>2. j \in Nat
              BY <4>1
            <6>3. call[c].deadline \in Nat
              BY CallTypes DEF Calls
            <6> QED BY <6>1, <6>2, <6>3
          <5> QED BY <5>1, <1>0 DEF Least
        <4>3. [call[c] EXCEPT !.pc = "sleeping",
                 !.wake = Least(clock + RetryAfter + j, call[c].deadline)] \in Calls
          BY <4>2, CallTypes, FieldTypes, Zero
        <4> QED BY <4>1, <4>3, CallType
      <3>2. CASE Goes(c, "cleared") \/ Leaves(c)
        BY <3>2, CallType, CallTypes DEF Goes, Leaves
      <3> QED BY <1>4, <3>1, <3>2 DEF AccountBucket
    <2>3. bucket'.last <= clock'
      BY <1>0, <1>4, <2>1 DEF AccountBucket
    <2> QED BY <1>4, <2>1, <2>2, <2>3 DEF AccountBucket, TypeInv, PacerTypeOK
  <1>5. ASSUME NEW c \in Callers, Wake(c) PROVE TypeInv'
    <2>1. call' \in [Callers -> Calls]
      BY <1>5, CallType, CallTypes DEF Wake, Goes
    <2> QED BY <1>5, <2>1 DEF Wake, TypeInv, PacerTypeOK
  <1>6. ASSUME NEW c \in Callers, Cancel(c) PROVE TypeInv'
    <2>1. call' \in [Callers -> Calls]
      BY <1>6, CallType, CallTypes DEF Cancel, Leaves
    <2> QED BY <1>6, <2>1 DEF Cancel, TypeInv, PacerTypeOK
  <1>7. ASSUME NEW c \in Callers, fallbackReject(c) PROVE TypeInv'
    <2>1. Account \in Keys
      BY DEF Keys
    <2>2. /\ windows' \in [Keys -> [known : BOOLEAN, start : Times, count : 0..Limit]]
          /\ slots' \in [Keys -> [Times -> Nat]]
      BY <1>7, <2>1, TakeType, RefuseSlotType DEF fallbackReject
    <2>3. call' \in [Callers -> Calls]
      BY <1>7, CallType, CallTypes DEF fallbackReject, Goes, Leaves
    <2> QED BY <1>7, <2>2, <2>3 DEF fallbackReject, TypeInv, PacerTypeOK
  <1>8. ASSUME NEW c \in Callers, Return(c) PROVE TypeInv'
    <2>1. call' \in [Callers -> Calls]
      BY <1>8, CallType, CallTypes DEF Return, Leaves
    <2> QED BY <1>8, <2>1 DEF Return, TypeInv, PacerTypeOK
  <1>9. CASE Tick
    <2>1. clock' \in Times /\ bucket'.last <= clock'
      BY <1>0, <1>9 DEF Tick, TypeInv, PacerTypeOK, Times
    <2> QED BY <1>9, <2>1 DEF Tick, TypeInv, PacerTypeOK
  <1>10. CASE RestartPacer /\ UNCHANGED status
    <2>1. 0 \in Times /\ Idle \in Calls
      BY DEF Times, Calls, Idle
    <2>2. call' \in [Callers -> Calls]
      BY <1>10, <2>1 DEF RestartPacer
    <2>3. /\ windows' \in [Keys -> [known : BOOLEAN, start : Times, count : 0..Limit]]
          /\ bucket' \in [known : BOOLEAN, tokens : 0..Burst, last : Times]
          /\ bucket'.last <= clock' /\ clock' = clock /\ mode' = mode
          /\ spent' \in [Times -> Nat] /\ slots' \in [Keys -> [Times -> Nat]]
      BY <1>0, <1>10, <2>1 DEF RestartPacer, NoSpending
    <2> QED BY <1>10, <2>2, <2>3 DEF TypeInv, PacerTypeOK
  <1>11. CASE StatusWritten
    BY <1>11 DEF TypeInv, PacerTypeOK, StatusWritten, pacerVars
  <1>12. CASE UNCHANGED allPacerVars
    BY <1>12 DEF TypeInv, PacerTypeOK, allPacerVars, pacerVars
  <1>13. ASSUME WaitSteps PROVE TypeInv'
    BY <1>1, <1>2, <1>3, <1>4, <1>5, <1>6, <1>7, <1>8, <1>13 DEF WaitSteps
  <1> QED BY <1>9, <1>10, <1>11, <1>12, <1>13 DEF PacerNext

(* The pacer's state is well formed: no bucket below zero or above its     *)
(* burst, no window above its limit (tokenbucket.go 72-106, memory.go).    *)
THEOREM PacerTypeCorrect == PacerSpec => []PacerTypeOK
  <1>1. TypeInv => PacerTypeOK
    BY DEF TypeInv
  <1> QED BY <1>1, TypeInit, TypeNext, PTL DEF PacerSpec

-----------------------------------------------------------------------------
(* The rate of the account                                                 *)

LEMMA TokensInit == PacerInit => TokensLeft
  <1> SUFFICES ASSUME PacerInit PROVE TokensLeft
    OBVIOUS
  <1>1. clock = 0 /\ bucket.last = 0 /\ Tokens = Burst /\ spent = [s \in Times |-> 0]
    BY DEF PacerInit, Tokens, NoSpending
  <1>2. ASSUME NEW s \in Times, s <= clock PROVE spent[s] + Tokens <= Burst + Rate * (clock - s)
    <2>1. s = 0 /\ Rate * (clock - s) = 0
      BY <1>1, <1>2, PacerAssumption DEF Times
    <2> QED BY <1>1, <2>1, PacerAssumption
  <1>3. ASSUME NEW s \in Times, s > clock PROVE spent[s] = 0
    BY <1>1
  <1>4. bucket.last <= clock
    BY <1>1
  <1> QED BY <1>2, <1>3, <1>4 DEF TokensLeft

(* After AllowN nothing is to be refilled.                                 *)
LEMMA TokensAfter ==
    ASSUME TypeInv, NEW t \in 0..Burst, clock' = clock,
           bucket' = [known |-> TRUE, tokens |-> t, last |-> clock]
    PROVE  Tokens' = t /\ bucket'.last <= clock'
  <1>1. clock \in Nat /\ clock - clock = 0 /\ Rate * (clock - clock) = 0
    BY PacerAssumption DEF TypeInv, PacerTypeOK, Times
  <1>2. Tokens' = Least(Burst, t + Rate * (clock - clock))
    BY DEF Tokens
  <1> QED BY <1>1, <1>2, PacerAssumption DEF Least

(* A tick brings at most Rate.                                             *)
LEMMA TokensTick ==
    ASSUME TypeInv, Tick
    PROVE  Tokens' <= Tokens + Rate /\ Tokens' <= Burst /\ Tokens' \in Nat
  <1> DEFINE a == clock - bucket.last
  <1>1. a \in Nat /\ clock \in Nat /\ bucket.last \in Nat
    BY DEF TypeInv, PacerTypeOK, Times
  <1>2. clock' - bucket'.last = a + 1
    BY <1>1 DEF Tick
  <1>3. Rate * a \in Nat /\ Rate * (a + 1) = Rate * a + Rate
    BY <1>1, Products, PacerAssumption
  <1>4. Tokens = IF bucket.known THEN Least(Burst, bucket.tokens + Rate * a) ELSE Burst
    BY DEF Tokens
  <1>5. Tokens' = IF bucket.known THEN Least(Burst, bucket.tokens + Rate * (a + 1)) ELSE Burst
    BY <1>2 DEF Tokens, Tick
  <1> DEFINE ra == Rate * a
             rb == Rate * (a + 1)
  <1>6. ra \in Nat /\ rb = ra + Rate
    BY <1>3
  <1>7. bucket.known \in BOOLEAN /\ bucket.tokens \in Nat
    BY PacerAssumption DEF TypeInv, PacerTypeOK
  <1>8. /\ Tokens = IF bucket.known THEN Least(Burst, bucket.tokens + ra) ELSE Burst
        /\ Tokens' = IF bucket.known THEN Least(Burst, bucket.tokens + rb) ELSE Burst
    BY <1>4, <1>5
  <1> HIDE DEF ra, rb, a
  <1> QED BY <1>6, <1>7, <1>8, PacerAssumption DEF Least

LEMMA TokensSpend ==
    ASSUME TypeInv, TokensLeft, SpendTokens, Tokens >= Cost, clock' = clock
    PROVE  TokensLeft'
  <1>1. Tokens - Cost \in 0..Burst /\ Tokens \in Nat
    BY TokensType, PacerAssumption DEF TypeInv
  <1>2. Tokens' = Tokens - Cost /\ bucket'.last <= clock'
    BY <1>1, TokensAfter DEF SpendTokens
  <1>3. clock \in Nat /\ spent \in [Times -> Nat]
    BY DEF TypeInv, PacerTypeOK, Times
  <1>4. ASSUME NEW s \in Times, s <= clock'
        PROVE  spent'[s] + Tokens' <= Burst + Rate * (clock' - s)
    <2> DEFINE refill == Rate * (clock - s)
    <2>1. spent[s] + Tokens <= Burst + refill /\ spent[s] \in Nat /\ spent'[s] = spent[s] + Cost
      BY <1>3, <1>4 DEF TokensLeft, SpendTokens
    <2>2. refill \in Nat
      <3>1. clock - s \in Nat
        BY <1>3, <1>4 DEF Times
      <3> QED BY <3>1, Products, PacerAssumption
    <2>3. Rate * (clock' - s) = refill
      OBVIOUS
    <2> HIDE DEF refill
    <2> QED BY <1>1, <1>2, <2>1, <2>2, <2>3, PacerAssumption
  <1>5. ASSUME NEW s \in Times, s > clock' PROVE spent'[s] = 0
    <2>1. s \in Nat /\ ~(s <= clock) /\ s > clock
      BY <1>3, <1>5 DEF Times
    <2> QED BY <2>1 DEF TokensLeft, SpendTokens
  <1> QED BY <1>2, <1>4, <1>5 DEF TokensLeft

LEMMA TokensRefuse ==
    ASSUME TypeInv, TokensLeft, RefuseTokens, clock' = clock
    PROVE  TokensLeft'
  <1>1. Tokens' = Tokens /\ bucket'.last <= clock'
    BY TokensType, TokensAfter DEF RefuseTokens, TypeInv
  <1> QED BY <1>1 DEF TokensLeft, RefuseTokens

LEMMA TokensNext == TypeInv /\ TokensLeft /\ [PacerNext]_allPacerVars => TokensLeft'
  <1> SUFFICES ASSUME TypeInv, TokensLeft, [PacerNext]_allPacerVars PROVE TokensLeft'
    OBVIOUS
  <1>0. clock \in Nat /\ spent \in [Times -> Nat] /\ Tokens \in Nat
    <2>1. Tokens \in 0..Burst
      BY TokensType DEF TypeInv
    <2>2. clock \in Nat /\ spent \in [Times -> Nat]
      BY DEF TypeInv, PacerTypeOK, Times
    <2> QED BY <2>1, <2>2, PacerAssumption
  <1>1. ASSUME NEW c \in Callers, AccountBucket(c) PROVE TokensLeft'
    BY <1>1, TokensSpend, TokensRefuse DEF AccountBucket
  <1>2. CASE Tick
    <2>1. bucket'.last <= clock'
      BY <1>0, <1>2 DEF Tick, TypeInv, PacerTypeOK, Times
    <2>2. ASSUME NEW s \in Times, s <= clock'
          PROVE  spent'[s] + Tokens' <= Burst + Rate * (clock' - s)
      <3>1. CASE s <= clock
        <4> DEFINE refill == Rate * (clock - s)
                   refill1 == Rate * (clock' - s)
        <4>1. clock - s \in Nat /\ clock' - s = (clock - s) + 1
          BY <1>0, <1>2, <3>1 DEF Tick, Times
        <4>2. refill \in Nat /\ refill1 = refill + Rate
          BY <4>1, Products, PacerAssumption
        <4>3. spent[s] + Tokens <= Burst + refill /\ spent'[s] = spent[s] /\ spent[s] \in Nat
          BY <1>0, <1>2, <3>1 DEF TokensLeft, Tick
        <4>4. Tokens' <= Tokens + Rate /\ Tokens' \in Nat
          BY <1>2, TokensTick
        <4>5. spent'[s] + Tokens' <= Burst + refill1
          <5> HIDE DEF refill, refill1
          <5> QED BY <1>0, <4>2, <4>3, <4>4, PacerAssumption
        <4> QED BY <4>5
      <3>2. CASE ~(s <= clock)
        <4>1. s = clock' /\ s > clock /\ Rate * (clock' - s) = 0
          BY <1>0, <1>2, <2>2, <3>2, PacerAssumption DEF Tick, Times
        <4>2. spent'[s] = 0
          BY <1>2, <4>1 DEF TokensLeft, Tick
        <4> QED BY <1>2, <4>1, <4>2, TokensTick, PacerAssumption
      <3> QED BY <3>1, <3>2
    <2>3. ASSUME NEW s \in Times, s > clock' PROVE spent'[s] = 0
      <3>1. s > clock
        BY <1>0, <1>2, <2>3 DEF Tick, Times
      <3> QED BY <1>2, <3>1 DEF TokensLeft, Tick
    <2> QED BY <2>1, <2>2, <2>3 DEF TokensLeft
  <1>3. CASE RestartPacer
    <2>1. /\ clock' = clock /\ bucket'.last <= clock'
          /\ Tokens' = Burst /\ spent' = [s \in Times |-> 0]
      BY <1>0, <1>3 DEF RestartPacer, Tokens, NoSpending
    <2>2. ASSUME NEW s \in Times, s <= clock'
          PROVE  spent'[s] + Tokens' <= Burst + Rate * (clock' - s)
      <3>1. clock' - s \in Nat
        BY <1>0, <2>1, <2>2 DEF Times
      <3>2. Rate * (clock' - s) \in Nat
        BY <3>1, Products, PacerAssumption
      <3> QED BY <2>1, <3>2, PacerAssumption
    <2> QED BY <2>1, <2>2 DEF TokensLeft
  <1>4. CASE UNCHANGED <<bucket, clock, spent>>
    BY <1>4 DEF TokensLeft, Tokens
  <1>5. ASSUME WaitSteps PROVE TokensLeft'
    <2>1. (\E c \in Callers : AccountBucket(c)) \/ UNCHANGED <<bucket, clock, spent>>
      BY <1>5 DEF WaitSteps, Wait, BanGate, RecipientCap, Wake, Cancel, fallbackReject, Return
    <2> QED BY <1>1, <1>4, <2>1
  <1> QED BY <1>2, <1>3, <1>4, <1>5 DEF PacerNext, StatusWritten, pacerVars, allPacerVars

(* The anti-spam rate holds from every moment on (tokenbucket.go 72-106):  *)
(* neither retries, nor sleeping callers, nor interleaving double-spend.   *)
THEOREM RateBounded == PacerSpec => []RateBound
  <1>1. TypeInv /\ TokensLeft => RateBound
    <2> SUFFICES ASSUME TypeInv, TokensLeft, NEW s \in Times, s <= clock
                 PROVE  spent[s] <= Burst + Rate * (clock - s)
      BY DEF RateBound
    <2> DEFINE refill == Rate * (clock - s)
    <2>1. spent[s] + Tokens <= Burst + refill /\ Tokens \in Nat /\ spent[s] \in Nat
      BY TokensType, PacerAssumption DEF TokensLeft, TypeInv, PacerTypeOK
    <2>2. refill \in Nat
      <3>1. clock - s \in Nat
        BY DEF TypeInv, PacerTypeOK, Times
      <3> QED BY <3>1, Products, PacerAssumption
    <2> HIDE DEF refill
    <2>3. spent[s] <= Burst + refill
      BY <2>1, <2>2, PacerAssumption
    <2> QED BY <2>3 DEF refill
  <1> QED BY <1>1, TypeInit, TypeNext, TokensInit, TokensNext, PTL DEF PacerSpec

-----------------------------------------------------------------------------
(* The slots of a recipient                                                *)

LEMMA WindowTypes ==
    ASSUME TypeInv, NEW k \in Keys
    PROVE  /\ clock \in Nat /\ clock \in Times /\ Times \subseteq Nat
           /\ windows[k].start \in Nat /\ windows[k].count \in Nat
           /\ windows[k].count <= Limit /\ windows[k].known \in BOOLEAN
           /\ slots[k] \in [Times -> Nat]
  <1>1. windows[k] \in [known : BOOLEAN, start : Times, count : 0..Limit]
    BY DEF TypeInv, PacerTypeOK
  <1>2. clock \in Times /\ Times \subseteq Nat /\ slots[k] \in [Times -> Nat]
    BY DEF TypeInv, PacerTypeOK, Times
  <1>3. /\ windows[k].start \in Times /\ windows[k].count \in 0..Limit
        /\ windows[k].known \in BOOLEAN
    BY <1>1
  <1>4. windows[k].count \in Nat /\ windows[k].count <= Limit
    BY <1>3, PacerAssumption
  <1> QED BY <1>2, <1>3, <1>4

(* The slots taken since a moment less than a window before now, when the  *)
(* current window is over: some of its own, never the first.               *)
LEMMA OverFacts ==
    ASSUME TypeInv, NEW k \in Keys, WindowFacts(k), NEW s \in Times,
           windows[k].known => clock > windows[k].start + Window,
           s <= clock, clock - s <= Window
    PROVE  slots[k][s] = 0 \/ slots[k][s] < windows[k].count
  <1>1. /\ clock \in Nat /\ s \in Nat /\ windows[k].start \in Nat
        /\ windows[k].known \in BOOLEAN
    BY DEF TypeInv, PacerTypeOK, Times
  <1>2. CASE windows[k].known
    <2>1. s > windows[k].start
      BY <1>1, <1>2, PacerAssumption
    <2> QED BY <1>2, <2>1 DEF WindowFacts
  <1>3. CASE ~windows[k].known
    BY <1>3 DEF WindowFacts
  <1> QED BY <1>1, <1>2, <1>3

LEMMA SlotTaken ==
    ASSUME TypeInv, NEW k \in Keys, WindowFacts(k), SlotFree(k), TakeSlot(k), clock' = clock
    PROVE  WindowFacts(k)'
  <1> DEFINE w == windows[k]
             n == windows'[k]
  <1>1. /\ clock \in Nat /\ clock \in Times /\ w.start \in Nat /\ w.count \in Nat
        /\ w.count <= Limit /\ w.known \in BOOLEAN
        /\ slots[k] \in [Times -> Nat] /\ Times \subseteq Nat
    BY WindowTypes
  <1>2. n = [Entry(k) EXCEPT !.count = @ + 1]
    BY DEF TakeSlot, TypeInv, PacerTypeOK
  <1>3. \A s \in Times : slots'[k][s] = IF s <= clock THEN slots[k][s] + 1 ELSE slots[k][s]
    BY DEF TakeSlot, TypeInv, PacerTypeOK
  <1>4. CASE w.known /\ clock <= w.start + Window
    <2>1. Entry(k) = w
      BY <1>4 DEF Entry
    <2>2. w \in [known : BOOLEAN, start : Times, count : 0..Limit]
      BY DEF TypeInv, PacerTypeOK
    <2>3. n.known /\ n.start = w.start /\ n.count = w.count + 1
      BY <1>2, <1>4, <2>1, <2>2
    <2>4. w.count > 0 /\ Limit > 0
      BY <1>1, <1>4, <2>1, PacerAssumption DEF SlotFree, WindowFacts
    <2>5. ASSUME NEW s \in Times, s > clock PROVE slots'[k][s] = 0
      <3>1. slots[k][s] = 0 /\ ~(s <= clock)
        BY <1>1, <2>5 DEF WindowFacts
      <3> QED BY <1>3, <3>1
    <2>6. ASSUME NEW s \in Times, s > n.start PROVE slots'[k][s] = 0 \/ slots'[k][s] < n.count
      <3>1. (slots[k][s] = 0 \/ slots[k][s] < w.count) /\ slots[k][s] \in Nat
        BY <1>1, <1>4, <2>3, <2>6 DEF WindowFacts
      <3>2. slots'[k][s] = slots[k][s] + 1 \/ slots'[k][s] = slots[k][s]
        BY <1>3
      <3> QED BY <1>1, <2>3, <2>4, <3>1, <3>2
    <2>7. ASSUME NEW s \in Times, s <= n.start, n.start - s <= Window
          PROVE  slots'[k][s] = 0 \/ slots'[k][s] < Limit + n.count
      <3>1. (slots[k][s] = 0 \/ slots[k][s] < Limit + w.count) /\ slots[k][s] \in Nat
        BY <1>1, <1>4, <2>3, <2>7 DEF WindowFacts
      <3>2. slots'[k][s] = slots[k][s] + 1 \/ slots'[k][s] = slots[k][s]
        BY <1>3
      <3> QED BY <1>1, <2>3, <2>4, <3>1, <3>2, PacerAssumption
    <2>8. n.start <= clock /\ n.count > 0
      BY <1>1, <2>3 DEF WindowFacts
    <2> QED BY <2>3, <2>5, <2>6, <2>7, <2>8 DEF WindowFacts
  <1>5. CASE ~(w.known /\ clock <= w.start + Window)
    <2>1. Entry(k) = [known |-> TRUE, start |-> clock, count |-> 0]
      BY <1>5 DEF Entry
    <2>2. n.known /\ n.start = clock /\ n.count = 1 /\ Limit > 0
      BY <1>2, <2>1, PacerAssumption DEF SlotFree
    <2>3. ASSUME NEW s \in Times, s > clock PROVE slots'[k][s] = 0
      <3>1. slots[k][s] = 0 /\ ~(s <= clock)
        BY <1>1, <2>3 DEF WindowFacts
      <3> QED BY <1>3, <3>1
    <2>4. ASSUME NEW s \in Times, s <= clock, clock - s <= Window
          PROVE  slots'[k][s] < Limit + 1
      <3>1. w.known => clock > w.start + Window
        BY <1>1, <1>5, PacerAssumption
      <3>2. slots[k][s] = 0 \/ slots[k][s] < w.count
        BY <2>4, <3>1, OverFacts
      <3>3. slots'[k][s] = slots[k][s] + 1 /\ slots[k][s] \in Nat
        BY <1>1, <1>3, <2>4
      <3> QED BY <1>1, <2>2, <3>2, <3>3, PacerAssumption
    <2> QED BY <2>2, <2>3, <2>4, <1>1 DEF WindowFacts
  <1> QED BY <1>4, <1>5

LEMMA SlotRefused ==
    ASSUME TypeInv, NEW k \in Keys, WindowFacts(k), ~SlotFree(k), RefuseSlot(k), clock' = clock
    PROVE  WindowFacts(k)'
  <1> DEFINE w == windows[k]
  <1>1. /\ clock \in Nat /\ w.start \in Nat /\ w.count \in Nat
        /\ w.count <= Limit /\ w.known \in BOOLEAN
        /\ slots[k] \in [Times -> Nat] /\ Times \subseteq Nat
    BY WindowTypes
  <1>2. windows'[k] = Entry(k) /\ slots' = slots
    BY DEF RefuseSlot, TypeInv, PacerTypeOK
  <1>3. CASE w.known /\ clock <= w.start + Window
    BY <1>2, <1>3 DEF Entry, WindowFacts
  <1>4. CASE ~(w.known /\ clock <= w.start + Window)
    <2>1. Entry(k) = [known |-> TRUE, start |-> clock, count |-> 0]
      BY <1>4 DEF Entry
    <2>2. Limit = 0 /\ w.count = 0
      BY <1>1, <2>1, PacerAssumption DEF SlotFree
    <2>3. ASSUME NEW s \in Times, s <= clock, clock - s <= Window PROVE slots[k][s] = 0
      <3>1. w.known => clock > w.start + Window
        BY <1>1, <1>4, PacerAssumption
      <3>2. slots[k][s] = 0 \/ slots[k][s] < w.count
        BY <2>3, <3>1, OverFacts
      <3> QED BY <1>1, <2>2, <3>2
    <2>4. ASSUME NEW s \in Times, s > clock PROVE slots[k][s] = 0
      BY <2>4 DEF WindowFacts
    <2>5. windows'[k].start = clock /\ windows'[k].count = 0 /\ slots'[k] = slots[k]
      BY <1>2, <2>1
    <2>6. ASSUME NEW s \in Times, s > clock \/ ~windows'[k].known
          PROVE  slots'[k][s] = 0
      BY <1>2, <2>1, <2>4, <2>5, <2>6
    <2>7. ASSUME NEW s \in Times, s > windows'[k].start
          PROVE  slots'[k][s] = 0
      BY <2>4, <2>5, <2>7
    <2>8. ASSUME NEW s \in Times, s <= windows'[k].start, windows'[k].start - s <= Window
          PROVE  slots'[k][s] = 0
      BY <2>3, <2>5, <2>8
    <2>9. windows'[k].start <= clock'
      BY <1>1, <2>5
    <2> QED BY <2>2, <2>6, <2>7, <2>8, <2>9 DEF WindowFacts
  <1> QED BY <1>3, <1>4

LEMMA WindowsInit == PacerInit => \A k \in Keys : WindowFacts(k)
  BY PacerAssumption DEF PacerInit, WindowFacts, NoSpending

LEMMA WindowsNext ==
    TypeInv /\ (\A k \in Keys : WindowFacts(k)) /\ [PacerNext]_allPacerVars
        => (\A k \in Keys : WindowFacts(k))'
  <1> SUFFICES ASSUME TypeInv, \A k \in Keys : WindowFacts(k), [PacerNext]_allPacerVars,
                      NEW k \in Keys
               PROVE  WindowFacts(k)'
    OBVIOUS
  <1>0. clock \in Nat /\ Times \subseteq Nat /\ windows[k].start \in Nat
    BY DEF TypeInv, PacerTypeOK, Times
  <1>1. ASSUME NEW l \in Keys, l # k, TakeSlot(l) \/ RefuseSlot(l), clock' = clock
        PROVE  WindowFacts(k)'
    <2>1. windows'[k] = windows[k] /\ slots'[k] = slots[k]
      BY <1>1 DEF TakeSlot, RefuseSlot, TypeInv, PacerTypeOK
    <2> QED BY <1>1, <2>1 DEF WindowFacts
  <1>2. CASE UNCHANGED <<windows, slots, clock>>
    BY <1>2 DEF WindowFacts
  <1>3. ASSUME NEW l \in Keys, clock' = clock,
               (SlotFree(l) /\ TakeSlot(l)) \/ (~SlotFree(l) /\ RefuseSlot(l))
        PROVE  WindowFacts(k)'
    BY <1>1, <1>3, SlotTaken, SlotRefused
  <1>4. ASSUME NEW c \in Callers, RecipientCap(c) PROVE WindowFacts(k)'
    <2>1. call[c].to \in Recipients \cup {NoRecipient} /\ clock' = clock
      BY <1>4, CallTypes DEF Calls, RecipientCap
    <2>2. CASE call[c].to = NoRecipient
      BY <1>2, <1>4, <2>2 DEF RecipientCap
    <2>3. CASE call[c].to # NoRecipient
      BY <1>3, <1>4, <2>1, <2>3 DEF RecipientCap, Keys
    <2> QED BY <2>2, <2>3
  <1>5. ASSUME NEW c \in Callers, fallbackReject(c) PROVE WindowFacts(k)'
    BY <1>3, <1>5 DEF fallbackReject, Keys
  <1>6. CASE Tick
    <2>1. windows' = windows /\ slots' = slots /\ clock' = clock + 1
      BY <1>6 DEF Tick
    <2>2. ASSUME NEW s \in Times, s > clock' PROVE slots[k][s] = 0
      <3>1. s > clock
        BY <1>0, <2>1, <2>2
      <3> QED BY <3>1 DEF WindowFacts
    <2>3. windows[k].start <= clock'
      BY <1>0, <2>1 DEF WindowFacts
    <2> QED BY <2>1, <2>2, <2>3 DEF WindowFacts
  <1>7. CASE RestartPacer
    BY <1>0, <1>7 DEF RestartPacer, WindowFacts, NoSpending
  <1>8. ASSUME WaitSteps PROVE WindowFacts(k)'
    <2>1. \/ \E c \in Callers : RecipientCap(c) \/ fallbackReject(c)
          \/ UNCHANGED <<windows, slots, clock>>
      BY <1>8 DEF WaitSteps, Wait, BanGate, AccountBucket, Wake, Cancel, Return
    <2> QED BY <1>2, <1>4, <1>5, <2>1
  <1> QED BY <1>2, <1>6, <1>7, <1>8 DEF PacerNext, StatusWritten, pacerVars, allPacerVars

(* A recipient is sent fewer than twice the limit in any stretch of a      *)
(* window's length, whatever the limit and the window (memory.go 35-71).   *)
THEOREM RecipientBounded == PacerSpec => []RecipientBound
  <1>1. TypeInv /\ (\A k \in Keys : WindowFacts(k)) => RecipientBound
    <2> SUFFICES ASSUME TypeInv, NEW k \in Keys, WindowFacts(k), NEW s \in Times,
                        s <= clock, clock - s <= Window
                 PROVE  slots[k][s] = 0 \/ slots[k][s] < 2 * Limit
      BY DEF RecipientBound
    <2>1. /\ clock \in Nat /\ s \in Nat /\ windows[k].start \in Nat /\ windows[k].count \in Nat
          /\ windows[k].count <= Limit /\ windows[k].known \in BOOLEAN /\ slots[k][s] \in Nat
      BY WindowTypes
    <2>2. CASE ~windows[k].known
      BY <2>2 DEF WindowFacts
    <2>3. CASE windows[k].known /\ s > windows[k].start
      <3>1. slots[k][s] = 0 \/ slots[k][s] < windows[k].count
        BY <2>3 DEF WindowFacts
      <3> QED BY <2>1, <3>1, PacerAssumption
    <2>4. CASE windows[k].known /\ ~(s > windows[k].start)
      <3>1. s <= windows[k].start /\ windows[k].start - s <= Window
        BY <2>1, <2>4, PacerAssumption DEF WindowFacts
      <3>2. slots[k][s] = 0 \/ slots[k][s] < Limit + windows[k].count
        BY <2>4, <3>1 DEF WindowFacts
      <3> QED BY <2>1, <3>2, PacerAssumption
    <2> QED BY <2>1, <2>2, <2>3, <2>4
  <1> QED BY <1>1, TypeInit, TypeNext, WindowsInit, WindowsNext, PTL DEF PacerSpec

-----------------------------------------------------------------------------
(* The ban gate and the sleep                                              *)

GateInv == GateFacts /\ GateBeforeBan /\ SleepBounded

LEMMA GateInit == PacerInit => GateInv
  BY DEF PacerInit, GateInv, GateFacts, GateBeforeBan, SleepBounded, Idle

(* A caller that did not move, while the clock may have.                   *)
LEMMA GateStays ==
    ASSUME TypeInv, GateInv, NEW c \in Callers, call'[c] = call[c],
           mode' = mode, status' = status, clock' \in Nat, clock <= clock'
    PROVE  /\ call[c].gate <= clock'
           /\ call[c].pc \in {"account", "sleeping"} => call[c].deadline <= clock' + MaxWait
           /\ Banned' => Banned
  <1>1. /\ clock \in Nat /\ call[c].gate \in Nat /\ call[c].deadline \in Nat
        /\ status \in Statuses
    BY CallTypes DEF TypeInv, PacerTypeOK, Calls, Times
  <1>2. BanEnd \in Nat
    BY <1>1, PacerAssumption DEF BanEnd, Statuses, Times
  <1>3. BanEnd' = BanEnd
    BY DEF BanEnd
  <1> QED BY <1>1, <1>2, <1>3, PacerAssumption DEF GateInv, GateFacts, Banned

LEMMA GateNext == TypeInv /\ GateInv /\ [PacerNext]_allPacerVars => GateInv'
  <1> SUFFICES ASSUME TypeInv, GateInv, [PacerNext]_allPacerVars, NEW d \in Callers
               PROVE  /\ call'[d].gate <= clock'
                      /\ call'[d].pc \in {"account", "sleeping"} =>
                            call'[d].deadline <= clock' + MaxWait
                      /\ call'[d].pc \in {"recipient", "account", "sleeping", "cleared"}
                         /\ mode' # "off" /\ Banned' => call'[d].gate <= status'.at
                      /\ call'[d].pc = "sleeping" => call'[d].wake <= call'[d].deadline
                      /\ call'[d].pc = "fallback" => mode' = "off"
    BY DEF GateInv, GateFacts, GateBeforeBan, SleepBounded
  <1> DEFINE Good(x) == /\ x.gate <= clock
                        /\ x.pc \in {"account", "sleeping"} => x.deadline <= clock + MaxWait
                        /\ x.pc \in {"recipient", "account", "sleeping", "cleared"}
                           /\ mode # "off" /\ Banned => x.gate <= status.at
                        /\ x.pc = "sleeping" => x.wake <= x.deadline
                        /\ x.pc = "fallback" => mode = "off"
  <1>0. /\ clock \in Nat /\ clock \in Times /\ call \in [Callers -> Calls] /\ call[d] \in Calls
        /\ status.at \in Nat /\ call[d].gate \in Nat
    <2>1. clock \in Times /\ call \in [Callers -> Calls] /\ status \in Statuses
      BY DEF TypeInv, PacerTypeOK
    <2> QED BY <2>1 DEF Calls, Statuses, Times
  <1>1. Good(call[d])
    BY DEF GateInv, GateFacts, GateBeforeBan, SleepBounded
  <1>2. Good(Idle)
    BY <1>0 DEF Idle
  <1>3. ASSUME NEW c \in Callers, NEW x, Becomes(c, x), Good(x), UNCHANGED <<mode, clock, status>>
        PROVE  Good(call[d])'
    <2>1. call'[d] = IF d = c THEN x ELSE call[d]
      BY <1>0, <1>3 DEF Becomes
    <2>2. Banned' = Banned
      BY <1>3 DEF Banned, BanEnd
    <2> QED BY <1>1, <1>3, <2>1, <2>2
  <1>4. ASSUME NEW c \in Callers, NEW r \in Recipients \cup {NoRecipient}, Wait(c, r)
        PROVE  Good(call[d])'
    <2> DEFINE x == [call[c] EXCEPT !.pc = IF mode = "off" THEN "fallback" ELSE "gate", !.to = r]
    <2>1. x.pc = (IF mode = "off" THEN "fallback" ELSE "gate") /\ x.gate = call[c].gate
      BY <1>0 DEF Calls
    <2>2. Good(x)
      BY <2>1 DEF GateInv, GateFacts
    <2> HIDE DEF x
    <2>3. Becomes(c, x) /\ UNCHANGED <<mode, clock, status>>
      BY <1>4 DEF Wait, x
    <2> QED BY <1>3, <2>2, <2>3
  <1>5. ASSUME NEW c \in Callers, BanGate(c) PROVE Good(call[d])'
    <2> DEFINE x(g) == [call[c] EXCEPT !.pc = "recipient", !.gate = g]
    <2>1. \A g : x(g).pc = "recipient" /\ x(g).gate = g
      BY <1>0 DEF Calls
    <2>2. Good(x(0)) /\ (~Banned => Good(x(clock)))
      BY <1>0, <2>1
    <2>3. UNCHANGED <<mode, clock, status>>
      BY <1>5 DEF BanGate
    <2>4. (Becomes(c, Idle) \/ Becomes(c, x(0)) \/ (~Banned /\ Becomes(c, x(clock))))
      BY <1>5 DEF BanGate, Leaves
    <2> HIDE DEF x
    <2> QED BY <1>2, <1>3, <2>2, <2>3, <2>4
  <1>6. ASSUME NEW c \in Callers, RecipientCap(c) PROVE Good(call[d])'
    <2> DEFINE x == [call[c] EXCEPT !.pc = "account", !.deadline = clock + MaxWait]
    <2>1. x.pc = "account" /\ x.gate = call[c].gate /\ x.deadline = clock + MaxWait
      BY <1>0 DEF Calls
    <2>2. call[c].pc = "recipient" /\ UNCHANGED <<mode, clock, status>>
      BY <1>6 DEF RecipientCap
    <2>3. Good(x)
      <3>1. call[c].gate <= clock /\ (mode # "off" /\ Banned => call[c].gate <= status.at)
        BY <2>2 DEF GateInv, GateFacts, GateBeforeBan
      <3>2. x.deadline <= clock + MaxWait
        BY <1>0, <2>1, PacerAssumption
      <3> QED BY <2>1, <3>1, <3>2
    <2>4. Becomes(c, Idle) \/ Becomes(c, x)
      BY <1>6 DEF RecipientCap, Leaves
    <2> HIDE DEF x
    <2> QED BY <1>2, <1>3, <2>2, <2>3, <2>4
  <1>7. ASSUME NEW c \in Callers, NEW pc \in {"account", "cleared"}, Goes(c, pc),
               call[c].pc \in {"account", "sleeping"}, UNCHANGED <<mode, clock, status>>
        PROVE  Good(call[d])'
    <2> DEFINE x == [call[c] EXCEPT !.pc = pc]
    <2>1. x.pc = pc /\ x.gate = call[c].gate /\ x.deadline = call[c].deadline
      BY <1>0 DEF Calls
    <2>2. Good(x)
      BY <1>7, <2>1 DEF GateInv, GateFacts, GateBeforeBan
    <2>3. Becomes(c, x)
      BY <1>7 DEF Goes
    <2> HIDE DEF x
    <2> QED BY <1>3, <1>7, <2>2, <2>3
  <1>8. ASSUME NEW c \in Callers, AccountBucket(c) PROVE Good(call[d])'
    <2>1. call[c].pc = "account" /\ UNCHANGED <<mode, clock, status>>
      BY <1>8 DEF AccountBucket
    <2>2. CASE Tokens < Cost /\ Sleep(c)
      <3>1. PICK j \in 0..(IF Jitter = 0 THEN 0 ELSE Jitter - 1) :
              Becomes(c, [call[c] EXCEPT !.pc = "sleeping",
                            !.wake = Least(clock + RetryAfter + j, call[c].deadline)])
        BY <2>2 DEF Sleep
      <3> DEFINE t == clock + RetryAfter + j
                 x == [call[c] EXCEPT !.pc = "sleeping", !.wake = Least(t, call[c].deadline)]
      <3>2. /\ x.pc = "sleeping" /\ x.gate = call[c].gate /\ x.deadline = call[c].deadline
            /\ x.wake = Least(t, call[c].deadline)
        BY <1>0 DEF Calls
      <3>3. t \in Nat /\ call[c].deadline \in Nat
        <4>1. RetryAfter \in Nat
          BY <2>2, RetryType
        <4>2. j \in Nat /\ call[c].deadline \in Nat
          BY <1>0, PacerAssumption DEF Calls
        <4> QED BY <1>0, <4>1, <4>2
      <3>4. Least(t, call[c].deadline) <= call[c].deadline
        <4> HIDE DEF t
        <4> QED BY <3>3 DEF Least
      <3>5. Good(x)
        BY <2>1, <3>2, <3>4 DEF GateInv, GateFacts, GateBeforeBan
      <3>6. Becomes(c, x)
        BY <3>1
      <3> HIDE DEF x
      <3> QED BY <1>3, <2>1, <3>5, <3>6
    <2>3. CASE Goes(c, "cleared") \/ Leaves(c)
      BY <1>2, <1>3, <1>7, <2>1, <2>3 DEF Leaves
    <2> QED BY <1>8, <2>2, <2>3 DEF AccountBucket
  <1>9. ASSUME NEW c \in Callers, Wake(c) PROVE Good(call[d])'
    BY <1>7, <1>9 DEF Wake
  <1>10. ASSUME NEW c \in Callers, Cancel(c) \/ Return(c) PROVE Good(call[d])'
    BY <1>2, <1>3, <1>10 DEF Cancel, Return, Leaves
  <1>11. ASSUME NEW c \in Callers, fallbackReject(c) PROVE Good(call[d])'
    <2> DEFINE x == [call[c] EXCEPT !.pc = "cleared"]
    <2>1. x.pc = "cleared" /\ x.gate = call[c].gate
      BY <1>0 DEF Calls
    <2>2. call[c].pc = "fallback" /\ UNCHANGED <<mode, clock, status>>
      BY <1>11 DEF fallbackReject
    <2>3. Good(x)
      BY <2>1, <2>2 DEF GateInv, GateFacts
    <2>4. Becomes(c, Idle) \/ Becomes(c, x)
      BY <1>11 DEF fallbackReject, Goes, Leaves
    <2> HIDE DEF x
    <2> QED BY <1>2, <1>3, <2>2, <2>3, <2>4
  <1>12. CASE UNCHANGED <<mode, status, call>> /\ clock' \in Nat /\ clock <= clock'
    <2>1. /\ call[d].gate <= clock'
          /\ call[d].pc \in {"account", "sleeping"} => call[d].deadline <= clock' + MaxWait
          /\ Banned' => Banned
      BY <1>12, GateStays
    <2> QED BY <1>1, <1>12, <2>1
  <1>13. CASE Tick
    BY <1>0, <1>12, <1>13 DEF Tick
  <1>14. CASE RestartPacer /\ UNCHANGED status
    <2>1. call'[d] = Idle /\ UNCHANGED <<mode, clock, status>>
      BY <1>14 DEF RestartPacer
    <2>2. Banned' = Banned
      BY <2>1 DEF Banned, BanEnd
    <2> QED BY <1>2, <2>1, <2>2
  <1>15. CASE StatusWritten
    <2>1. call' = call /\ mode' = mode /\ clock' = clock /\ status'.at = clock
      BY <1>15 DEF StatusWritten, pacerVars
    <2> QED BY <1>1, <2>1
  <1>16. CASE UNCHANGED allPacerVars
    BY <1>0, <1>12, <1>16 DEF allPacerVars, pacerVars
  <1>17. ASSUME WaitSteps PROVE Good(call[d])'
    BY <1>4, <1>5, <1>6, <1>8, <1>9, <1>10, <1>11, <1>17 DEF WaitSteps
  <1>18. Good(call[d])'
    BY <1>13, <1>14, <1>15, <1>16, <1>17 DEF PacerNext
  <1> QED BY <1>18

(* The ban gate is restart-safe and race-free as far as it can be: a call  *)
(* past it during a ban read the row before the ban was written, or could  *)
(* not read it (pacer.go 90-96, session_inventory.go 193-211).             *)
THEOREM GateHolds == PacerSpec => []GateBeforeBan
  <1>1. GateInv => GateBeforeBan
    BY DEF GateInv
  <1> QED BY <1>1, TypeInit, TypeNext, GateInit, GateNext, PTL DEF PacerSpec

(* No caller sleeps past the deadline of its wait (pacer.go 123-143).      *)
THEOREM SleepIsBounded == PacerSpec => []SleepBounded
  <1>1. GateInv => SleepBounded
    BY DEF GateInv
  <1> QED BY <1>1, TypeInit, TypeNext, GateInit, GateNext, PTL DEF PacerSpec
=============================================================================
