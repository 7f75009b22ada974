--------------------------- MODULE Session_proofs ---------------------------
(***************************************************************************)
(* The sessions of a phone and the sends that go out on them, together,    *)
(* implement the pacer: the only thing the session code does to the        *)
(* pacer's state is to write the status row, stamped with the time of the  *)
(* write.  So every bound of Pacer_proofs holds of the composition, for    *)
(* any number of clients, devices, requests and callers.                   *)
(*                                                                         *)
(* The second part is about the sessions themselves: which client the map  *)
(* holds, and whether a phone that has a device is asked to pair again.    *)
(***************************************************************************)
EXTENDS Session, Pacer_proofs

(* What the step to the pacer rests on: only known events reach a handler. *)
InboxOK == inbox \in [Clients -> Seq(Events)]

(* An event more, be it emitted to one client ...                          *)
LEMMA InboxKept ==
    ASSUME InboxOK, NEW c \in Clients, NEW e \in Events, Emit(c, e)
    PROVE  InboxOK'
  BY DEF InboxOK, Emit

(* ... or to every rival of a client that connects.                        *)
LEMMA ReplacedKept ==
    ASSUME InboxOK, NEW c, GoesUp(c)
    PROVE  InboxOK'
  <1>1. "stream_replaced" \in Events
    BY DEF Events, Evicting
  <1>2. \A o \in Clients : Append(inbox[o], "stream_replaced") \in Seq(Events) /\ inbox[o] \in Seq(Events)
    BY <1>1 DEF InboxOK
  <1> QED BY <1>2 DEF InboxOK, GoesUp

(* Every step puts only known events into an inbox.                        *)
LEMMA InboxNext == InboxOK /\ [Next]_vars => InboxOK'
  <1> SUFFICES ASSUME InboxOK, [Next]_vars PROVE InboxOK'
    OBVIOUS
  <1>1. CASE UNCHANGED inbox
    BY <1>1 DEF InboxOK
  <1>2. CASE Api
    <2>1. ASSUME NEW r \in Requests, Connect(r), ~UNCHANGED inbox PROVE InboxOK'
      <3>1. GoesUp(request[r].client)
        BY <2>1 DEF Connect
      <3> QED BY <2>1, <3>1, ReplacedKept
    <2> QED BY <1>1, <1>2, <2>1
            DEF Api, RegisterClient, findDeviceByPhone, InitClient, Begin, Logout, LogoutWipe, EvictEntry
  <1>3. CASE WhatsApp
    <2> SUFFICES ASSUME NEW c \in Clients,
                        \/ \E d \in Devices : Pair(c, d)
                        \/ ServerLogout(c) \/ StoreDelete(c) \/ AutoReconnect(c)
                        \/ \E e \in Events : Ban(c, e) \/ Drop(c, e) \/ Timelock(c, e)
                        \/ HandleEvent(c) \/ Evict(c)
                 PROVE  InboxOK'
      BY <1>3 DEF WhatsApp
    <2>1. ASSUME NEW d \in Devices, Pair(c, d) PROVE InboxOK'
      BY <2>1, InboxKept DEF Pair, Events
    <2>2. CASE ServerLogout(c)
      BY <2>2, InboxKept DEF ServerLogout, Events, Evicting
    <2>3. CASE AutoReconnect(c)
      BY <2>3, ReplacedKept DEF AutoReconnect
    <2>4. ASSUME NEW e \in Events, Ban(c, e) \/ Drop(c, e) \/ Timelock(c, e) PROVE InboxOK'
      BY <2>4, InboxKept DEF Ban, Drop, Timelock
    <2>5. CASE HandleEvent(c)
      <3>1. inbox[c] # <<>> /\ inbox[c] \in Seq(Events) /\ inbox' = [inbox EXCEPT ![c] = Tail(@)]
        BY <2>5 DEF HandleEvent, InboxOK
      <3>2. Tail(inbox[c]) \in Seq(Events)
        BY <3>1
      <3> QED BY <3>1, <3>2 DEF InboxOK
    <2>6. CASE StoreDelete(c) \/ Evict(c)
      BY <1>1, <2>6 DEF StoreDelete, Evict
    <2> QED BY <2>1, <2>2, <2>3, <2>4, <2>5, <2>6
  <1>4. CASE Restart
    <2>1. inbox' = [c \in Clients |-> <<>>]
      BY <1>4, Zenon DEF Restart
    <2>2. <<>> \in Seq(Events)
      OBVIOUS
    <2> QED BY <2>1, <2>2 DEF InboxOK
  <1>5. CASE DisconnectAll \/ UNCHANGED sessionVars \/ UNCHANGED vars
    BY <1>1, <1>5 DEF DisconnectAll, sessionVars, vars
  <1> QED BY <1>2, <1>3, <1>4, <1>5 DEF Next

(* The row a handler writes is a status row of now.                        *)
LEMMA RowIsStatus ==
    ASSUME TypeInv, NEW e \in Events \ {"connected", "disconnected"}
    PROVE  RowOf(e) \in Statuses /\ RowOf(e).at = clock
  <1>1. clock \in Times /\ clock + BanLength \in Nat /\ 0 \in Nat
    BY SessionAssumption DEF TypeInv, PacerTypeOK, Times
  <1>2. \A st \in States, open \in BOOLEAN, until \in Nat :
           Row(st, open, until) \in Statuses /\ Row(st, open, until).at = clock
    BY <1>1 DEF Row, Statuses
  <1>3. {"logged_out", "banned", "reachout_timelocked", "connected", "disconnected"} \subseteq States
    BY DEF States
  <1>4. CASE e = "logged_out"
    BY <1>1, <1>2, <1>3, <1>4 DEF RowOf
  <1>5. CASE e = "banned"
    BY <1>1, <1>2, <1>3, <1>5 DEF RowOf
  <1>6. CASE e = "banned_open"
    BY <1>1, <1>2, <1>3, <1>6 DEF RowOf
  <1>7. CASE e = "timelock"
    BY <1>1, <1>2, <1>3, <1>7 DEF RowOf
  <1>8. CASE e = "timelock_cleared"
    BY <1>1, <1>2, <1>3, <1>8 DEF RowOf
  <1>9. CASE e \in {"connect_failure", "stream_replaced"}
    BY <1>1, <1>2, <1>3, <1>9 DEF RowOf
  <1> QED BY <1>4, <1>5, <1>6, <1>7, <1>8, <1>9 DEF Events, Evicting

(* Every step is a step of the pacer or leaves it alone.                   *)
LEMMA StepsPace == TypeInv /\ InboxOK /\ [Next]_vars => [PacerNext]_allPacerVars
  <1> SUFFICES ASSUME TypeInv, InboxOK, [Next]_vars PROVE [PacerNext]_allPacerVars
    OBVIOUS
  <1>1. CASE Api
    BY <1>1 DEF Api, RegisterClient, findDeviceByPhone, InitClient, Begin, Connect, Logout,
       LogoutWipe, EvictEntry
  <1>2. ASSUME NEW c \in Clients, HandleEvent(c) PROVE [PacerNext]_allPacerVars
    <2>1. inbox[c] # <<>> /\ inbox[c] \in Seq(Events)
      BY <1>2 DEF HandleEvent, InboxOK
    <2>2. Head(inbox[c]) \in Events
      BY <2>1
    <2>3. UNCHANGED pacerVars
      BY <1>2 DEF HandleEvent
    <2>4. UNCHANGED status \/ (Head(inbox[c]) \notin {"connected", "disconnected"}
                               /\ status' = RowOf(Head(inbox[c])))
      BY <1>2 DEF HandleEvent
    <2>5. UNCHANGED status \/ (status' \in Statuses /\ status'.at = clock)
      BY <2>2, <2>4, RowIsStatus
    <2> QED BY <2>3, <2>5 DEF PacerNext, StatusWritten, allPacerVars
  <1>3. CASE WhatsApp
    BY <1>2, <1>3 DEF WhatsApp, Pair, ServerLogout, StoreDelete, AutoReconnect, Ban, Drop,
                      Timelock, Evict
  <1>4. CASE Restart
    BY <1>4 DEF Restart, PacerNext
  <1>5. CASE DisconnectAll \/ UNCHANGED vars
    BY <1>5 DEF DisconnectAll, vars
  <1>6. CASE WaitSteps \/ Tick
    BY <1>6 DEF PacerNext
  <1> QED BY <1>1, <1>3, <1>4, <1>5, <1>6 DEF Next

(* And the start is a start of the pacer.                                  *)
LEMMA InitPaces == Init => PacerInit /\ TypeInv /\ InboxOK
  <1>1. Init => PacerInit
    BY DEF Init
  <1>2. Init => InboxOK
    BY DEF Init, InboxOK
  <1> QED BY <1>1, <1>2, TypeInit

(* Whatever the sessions do, the pacer works as specified: nobody else     *)
(* touches its limiters, and the row its gate reads carries the time it    *)
(* was written at (handler.go 336-342, session_inventory.go 193-211).      *)
THEOREM SessionsPace == Spec => ImplementsPacer
  <1>1. TypeInv /\ InboxOK /\ [Next]_vars => TypeInv' /\ InboxOK'
    BY StepsPace, TypeNext, InboxNext
  <1> QED BY <1>1, InitPaces, StepsPace, PTL DEF Spec, PacerSpec, ImplementsPacer

(* The rate, the recipient bound and the gate hold of the whole.           *)
THEOREM SessionsBounded == Spec => [](RateBound /\ RecipientBound /\ GateBeforeBan /\ SleepBounded)
  BY SessionsPace, RateBounded, RecipientBounded, GateHolds, SleepIsBounded, PTL DEF ImplementsPacer

-----------------------------------------------------------------------------
(* The sessions themselves                                                 *)

ClientRecords == [dev : Devices \cup {None}, up : BOOLEAN, retry : BOOLEAN, deleted : BOOLEAN]
ClientSteps == {"connect", "logout", "wipe", "evict"}
RequestRecords == [pc : {"idle", "lookup", "create"} \cup ClientSteps,
                   client : Clients \cup {None}, dev : Devices \cup {None}]

(* Types: a login or logout under way has read a client.                   *)
SessionTypes ==
    /\ cli \in [Clients -> ClientRecords]
    /\ stored \in Clients \cup {None}
    /\ rows \subseteq Devices /\ doomed \subseteq Clients /\ revoked \subseteq Devices
    /\ request \in [Requests -> RequestRecords]
    /\ \A r \in Requests : request[r].pc \in ClientSteps => request[r].client \in Clients
    /\ handling \in [Clients -> Evicting \cup {None}]
    /\ \A c \in Clients : Len(inbox[c]) <= MaxInbox

NoRace == oddities \cap {"two inits", "wrong client evicted", "stale pointer"} = {}

(* A client is connected or reconnects by itself, never both.  Without a   *)
(* race only the client in the map does either, and not while an eviction  *)
(* is due on its behalf.                                                   *)
Visible ==
    /\ \A c \in Clients : ~(cli[c].up /\ cli[c].retry)
    /\ NoRace => \A c \in Clients :
                    cli[c].up \/ cli[c].retry => c = stored /\ ~EvictionDue(c)

(* Without a race, the client a logout is cleaning up after, or a login    *)
(* found deleted, stays down until its entry is evicted.                   *)
CleanersDown ==
    NoRace => \A r \in Requests :
                 request[r].pc \in {"wipe", "evict"} =>
                    ~cli[request[r].client].up /\ ~cli[request[r].client].retry

(* A request that is about to make a client without a device has found no  *)
(* row, and no row has appeared since.                                     *)
Restoring ==
    /\ RestoresPairing
    /\ oddities = {} => \A r \in Requests :
          request[r].pc = "create" /\ request[r].dev = None => rows = {}

SessionInv == SessionTypes /\ InboxOK /\ Visible /\ CleanersDown /\ Restoring

(* A client without a connection keeps its device; nobody else changes.    *)
LEMMA OfflineFacts ==
    ASSUME cli \in [Clients -> ClientRecords], NEW c \in Clients
    PROVE  /\ Offline(c) \in [Clients -> ClientRecords]
           /\ ~Offline(c)[c].up /\ ~Offline(c)[c].retry
           /\ \A o \in Clients : /\ Offline(c)[o].dev = cli[o].dev
                                 /\ Offline(c)[o].deleted = cli[o].deleted
                                 /\ o # c => Offline(c)[o] = cli[o]
  BY DEF Offline, ClientRecords

(* The connection is lost ...                                              *)
LEMMA DownFacts ==
    ASSUME cli \in [Clients -> ClientRecords], NEW c \in Clients,
           NEW new, new = [cli EXCEPT ![c].up = FALSE]
    PROVE  /\ new \in [Clients -> ClientRecords]
           /\ ~new[c].up /\ new[c].retry = cli[c].retry /\ new[c].dev = cli[c].dev /\ new[c].deleted = cli[c].deleted
           /\ \A o \in Clients : o # c => new[o] = cli[o]
  BY DEF ClientRecords

(* ... or lost with a retry to come.                                       *)
LEMMA DropFacts ==
    ASSUME cli \in [Clients -> ClientRecords], NEW c \in Clients,
           NEW new, new = [cli EXCEPT ![c].up = FALSE, ![c].retry = TRUE]
    PROVE  /\ new \in [Clients -> ClientRecords]
           /\ ~new[c].up /\ new[c].retry /\ new[c].dev = cli[c].dev /\ new[c].deleted = cli[c].deleted
           /\ \A o \in Clients : o # c => new[o] = cli[o]
  BY DEF ClientRecords

(* A device is paired.                                                     *)
LEMMA PairFacts ==
    ASSUME cli \in [Clients -> ClientRecords], NEW c \in Clients, NEW d \in Devices,
           NEW new, new = [cli EXCEPT ![c].dev = d]
    PROVE  /\ new \in [Clients -> ClientRecords]
           /\ new[c].up = cli[c].up /\ new[c].retry = cli[c].retry /\ new[c].dev = d /\ new[c].deleted = cli[c].deleted
           /\ \A o \in Clients : o # c => new[o] = cli[o]
  BY DEF ClientRecords

(* A client whose device is deleted.                                       *)
LEMMA GoneFacts ==
    ASSUME cli \in [Clients -> ClientRecords], NEW c \in Clients,
           NEW gone, gone = [cli EXCEPT ![c] = [NoClient EXCEPT !.deleted = TRUE]]
    PROVE  /\ gone \in [Clients -> ClientRecords]
           /\ ~gone[c].up /\ ~gone[c].retry /\ gone[c].deleted
           /\ \A o \in Clients : o # c => gone[o] = cli[o]
  BY DEF NoClient, ClientRecords

(* A request that is over.                                                 *)
LEMMA RequestOver ==
    ASSUME SessionTypes, NEW r \in Requests, request' = [request EXCEPT ![r] = NoRequest]
    PROVE  /\ request' \in [Requests -> RequestRecords]
           /\ request'[r].pc = "idle"
           /\ \A q \in Requests : q # r => request'[q] = request[q]
  BY DEF SessionTypes, RequestRecords, ClientSteps, NoRequest

(* A request that goes on with the client it has read.                     *)
LEMMA RequestGoesOn ==
    ASSUME SessionTypes, NEW r \in Requests, NEW p \in {"wipe", "evict"},
           request' = [request EXCEPT ![r].pc = p]
    PROVE  /\ request' \in [Requests -> RequestRecords]
           /\ request'[r].pc = p /\ request'[r].client = request[r].client
           /\ \A q \in Requests : q # r => request'[q] = request[q]
  <1>1. request[r] \in RequestRecords
    BY DEF SessionTypes
  <1>2. request'[r] = [pc |-> p, client |-> request[r].client, dev |-> request[r].dev]
    BY <1>1 DEF RequestRecords, SessionTypes
  <1>3. request'[r] \in RequestRecords
    BY <1>1, <1>2 DEF RequestRecords, ClientSteps
  <1> QED BY <1>2, <1>3 DEF SessionTypes

(* A client whose device is deleted while it may be connected.             *)
LEMMA WipeFacts ==
    ASSUME cli \in [Clients -> ClientRecords], NEW c \in Clients,
           NEW new, new = [cli EXCEPT ![c].dev = None, ![c].deleted = TRUE]
    PROVE  /\ new \in [Clients -> ClientRecords]
           /\ new[c].deleted /\ new[c].up = cli[c].up /\ new[c].retry = cli[c].retry
           /\ \A o \in Clients : o # c => new[o] = cli[o]
  BY DEF ClientRecords

(* A request that has looked for a device.                                 *)
LEMMA RequestFound ==
    ASSUME request \in [Requests -> RequestRecords], NEW r \in Requests, NEW d \in Devices \cup {None},
           request' = [request EXCEPT ![r].pc = "create", ![r].dev = d]
    PROVE  /\ request' \in [Requests -> RequestRecords]
           /\ request'[r].pc = "create" /\ request'[r].dev = d
           /\ \A q \in Requests : q # r => request'[q] = request[q]
  <1>1. request[r] \in RequestRecords
    OBVIOUS
  <1>2. request'[r] = [pc |-> "create", client |-> request[r].client, dev |-> d]
    BY <1>1 DEF RequestRecords
  <1>3. request'[r] \in RequestRecords
    BY <1>1, <1>2 DEF RequestRecords, ClientSteps
  <1> QED BY <1>2, <1>3

(* An event more in one inbox: nobody else's eviction becomes due.         *)
LEMMA EmitFacts ==
    ASSUME InboxOK, NEW c \in Clients, NEW e \in Events, Emit(c, e), HasRoom(c),
           MaxInbox \in Nat, UNCHANGED handling
    PROVE  /\ Len(inbox'[c]) <= MaxInbox
           /\ \A o \in Clients : o # c => inbox'[o] = inbox[o] /\ (EvictionDue(o)' <=> EvictionDue(o))
           /\ e \notin Evicting => (EvictionDue(c)' <=> EvictionDue(c))
  <1>1. /\ inbox[c] \in Seq(Events) /\ inbox'[c] = Append(inbox[c], e)
        /\ \A o \in Clients : o # c => inbox'[o] = inbox[o]
    BY DEF InboxOK, Emit
  <1>2. Len(inbox'[c]) <= MaxInbox
    BY <1>1 DEF HasRoom
  <1>3. \A o \in Clients : o # c => (EvictionDue(o)' <=> EvictionDue(o))
    BY <1>1 DEF EvictionDue
  <1>4. ASSUME e \notin Evicting PROVE EvictionDue(c)' <=> EvictionDue(c)
    <2>1. DOMAIN inbox'[c] = 1 .. Len(inbox[c]) + 1 /\ DOMAIN inbox[c] = 1 .. Len(inbox[c])
      BY <1>1
    <2>2. /\ \A i \in 1 .. Len(inbox[c]) : inbox'[c][i] = inbox[c][i]
          /\ inbox'[c][Len(inbox[c]) + 1] = e
      BY <1>1
    <2>3. Len(inbox[c]) \in Nat
      BY <1>1
    <2>4. (\E i \in DOMAIN inbox'[c] : inbox'[c][i] \in Evicting)
             <=> (\E i \in DOMAIN inbox[c] : inbox[c][i] \in Evicting)
      BY <1>4, <2>1, <2>2, <2>3
    <2> QED BY <2>4 DEF EvictionDue
  <1> QED BY <1>1, <1>2, <1>3, <1>4

(* A client that connects: its rivals go down and have an event waiting    *)
(* that evicts them; everybody else is as before.                          *)
LEMMA GoesUpFacts ==
    ASSUME InboxOK, SessionTypes, NEW c \in Clients, GoesUp(c), MaxInbox \in Nat, UNCHANGED handling
    PROVE  /\ cli' \in [Clients -> ClientRecords]
           /\ cli'[c].up /\ ~cli'[c].retry
           /\ \A o \in Clients : /\ cli'[o].dev = cli[o].dev /\ cli'[o].deleted = cli[o].deleted
                                 /\ o # c => (cli'[o].up => cli[o].up) /\ cli'[o].retry = cli[o].retry
                                 /\ Len(inbox'[o]) <= MaxInbox
                                 /\ (o = c \/ cli'[o].up \/ ~cli[o].up) =>
                                        (EvictionDue(o)' <=> EvictionDue(o))
  <1> DEFINE Rivals == {o \in Clients \ {c} : cli[o].up /\ cli[o].dev # None /\ cli[o].dev = cli[c].dev}
  <1> USE DEF SessionTypes
  <1>1. /\ \A o \in Rivals : HasRoom(o)
        /\ cli' = [o \in Clients |-> IF o = c THEN [cli[o] EXCEPT !.up = TRUE, !.retry = FALSE]
                                     ELSE IF o \in Rivals THEN [cli[o] EXCEPT !.up = FALSE]
                                     ELSE cli[o]]
        /\ inbox' = [o \in Clients |-> IF o \in Rivals THEN Append(inbox[o], "stream_replaced")
                                       ELSE inbox[o]]
    BY DEF GoesUp
  <1>2. c \notin Rivals /\ \A o \in Rivals : o \in Clients /\ cli[o].up
    OBVIOUS
  <1> HIDE DEF Rivals
  <1>3. cli' \in [Clients -> ClientRecords] /\ cli'[c].up /\ ~cli'[c].retry
    BY <1>1, <1>2 DEF ClientRecords
  <1>4. ASSUME NEW o \in Clients
        PROVE  /\ cli'[o].dev = cli[o].dev /\ cli'[o].deleted = cli[o].deleted
               /\ o # c => (cli'[o].up => cli[o].up) /\ cli'[o].retry = cli[o].retry
               /\ o \in Rivals => ~cli'[o].up
    BY <1>1, <1>2 DEF ClientRecords
  <1>5. ASSUME NEW o \in Clients PROVE Len(inbox'[o]) <= MaxInbox
    <2>1. inbox[o] \in Seq(Events) /\ Len(inbox[o]) <= MaxInbox
      BY DEF InboxOK
    <2>2. CASE o \in Rivals
      <3>1. "stream_replaced" \in Events
        BY DEF Events, Evicting
      <3>2. Len(Append(inbox[o], "stream_replaced")) = Len(inbox[o]) + 1 /\ Len(inbox[o]) \in Nat
        BY <2>1, <3>1
      <3>3. Len(inbox[o]) < MaxInbox /\ inbox'[o] = Append(inbox[o], "stream_replaced")
        BY <1>1, <2>2 DEF HasRoom
      <3> QED BY <3>2, <3>3
    <2>3. CASE o \notin Rivals
      BY <1>1, <2>1, <2>3
    <2> QED BY <2>2, <2>3
  <1>6. ASSUME NEW o \in Clients, o = c \/ cli'[o].up \/ ~cli[o].up
        PROVE  EvictionDue(o)' <=> EvictionDue(o)
    <2>1. o \notin Rivals
      BY <1>2, <1>4, <1>6
    <2>2. inbox'[o] = inbox[o]
      BY <1>1, <2>1
    <2> QED BY <2>2 DEF EvictionDue
  <1> QED BY <1>3, <1>4, <1>5, <1>6

(* The oldest event is taken from an inbox: what was due stays due.        *)
LEMMA HandleFacts ==
    ASSUME InboxOK, SessionTypes, NEW c \in Clients, HandleEvent(c), MaxInbox \in Nat
    PROVE  /\ handling' \in [Clients -> Evicting \cup {None}]
           /\ \A o \in Clients : Len(inbox'[o]) <= MaxInbox
           /\ \A o \in Clients : EvictionDue(o)' => EvictionDue(o)
  <1>1. /\ inbox[c] \in Seq(Events) /\ inbox[c] # <<>> /\ inbox'[c] = Tail(inbox[c])
        /\ \A o \in Clients : o # c => inbox'[o] = inbox[o] /\ handling'[o] = handling[o]
        /\ handling[c] = None /\ (Head(inbox[c]) \notin Evicting => handling'[c] = None)
        /\ handling' \in [Clients -> Evicting \cup {None}]
        /\ \A o \in Clients : Len(inbox[o]) <= MaxInbox
    BY DEF InboxOK, SessionTypes, HandleEvent
  <1>2. Len(inbox[c]) \in Nat \ {0} /\ Len(Tail(inbox[c])) = Len(inbox[c]) - 1
        /\ DOMAIN Tail(inbox[c]) = 1 .. Len(inbox[c]) - 1 /\ DOMAIN inbox[c] = 1 .. Len(inbox[c])
        /\ Head(inbox[c]) = inbox[c][1]
    BY <1>1
  <1>3. \A i \in 1 .. Len(inbox[c]) - 1 : Tail(inbox[c])[i] = inbox[c][i + 1]
    BY <1>1
  <1>4. ASSUME NEW o \in Clients PROVE Len(inbox'[o]) <= MaxInbox
    <2>1. Len(inbox[c]) <= MaxInbox /\ Len(inbox'[c]) = Len(inbox[c]) - 1
      BY <1>1, <1>2
    <2>2. Len(inbox'[c]) <= MaxInbox
      BY <1>2, <2>1
    <2> QED BY <1>1, <2>2
  <1>5. ASSUME EvictionDue(c)' PROVE EvictionDue(c)
    <2>1. CASE handling'[c] # None
      <3>1. 1 \in DOMAIN inbox[c] /\ inbox[c][1] \in Evicting
        BY <1>1, <1>2, <2>1
      <3> QED BY <3>1 DEF EvictionDue
    <2>2. CASE handling'[c] = None
      <3>1. PICK i \in DOMAIN Tail(inbox[c]) : Tail(inbox[c])[i] \in Evicting
        BY <1>1, <1>5, <2>2 DEF EvictionDue
      <3>2. i + 1 \in DOMAIN inbox[c] /\ inbox[c][i + 1] \in Evicting
        BY <1>2, <1>3, <3>1
      <3> QED BY <3>2 DEF EvictionDue
    <2> QED BY <2>1, <2>2
  <1>6. \A o \in Clients : o # c => (EvictionDue(o)' => EvictionDue(o))
    BY <1>1 DEF EvictionDue
  <1> QED BY <1>1, <1>4, <1>5, <1>6

(* A race that is noted stays noted.                                       *)
LEMMA NoRaceBefore == ASSUME oddities \subseteq oddities', NoRace' PROVE NoRace
  BY DEF NoRace

(* A step after which no client is alive that was not, with no eviction    *)
(* newly due for one that still is, keeps the sessions visible ...         *)
LEMMA VisibleKept ==
    ASSUME Visible, UNCHANGED stored, oddities \subseteq oddities',
           \A o \in Clients :
              /\ ~(cli'[o].up /\ cli'[o].retry)
              /\ cli'[o].up \/ cli'[o].retry =>
                    (cli[o].up \/ cli[o].retry) /\ (EvictionDue(o)' => EvictionDue(o))
    PROVE  Visible'
  <1>1. ASSUME NoRace', NEW o \in Clients, cli'[o].up \/ cli'[o].retry
        PROVE  o = stored' /\ ~EvictionDue(o)'
    <2>1. NoRace
      BY <1>1, NoRaceBefore
    <2>2. (cli[o].up \/ cli[o].retry) /\ (EvictionDue(o)' => EvictionDue(o))
      BY <1>1
    <2> QED BY <2>1, <2>2 DEF Visible
  <1> QED BY <1>1 DEF Visible

(* ... and so does an eviction on behalf of a client that is not alive,    *)
(* unless it throws another client out, which is a race.                   *)
LEMMA VisibleEvicted ==
    ASSUME Visible, NEW c \in Clients, EvictFor(c),
           \A o \in Clients : /\ ~(cli'[o].up /\ cli'[o].retry)
                              /\ cli'[o].up \/ cli'[o].retry => cli[o].up \/ cli[o].retry,
           NoRace => ~cli'[c].up /\ ~cli'[c].retry
    PROVE  Visible'
  <1>1. /\ oddities \subseteq oddities'
        /\ NoRace' => stored \in {None, c}
    BY DEF EvictFor, Note, NoRace
  <1>2. ASSUME NoRace', NEW o \in Clients, cli'[o].up \/ cli'[o].retry
        PROVE  FALSE
    <2>1. NoRace /\ stored \in {None, c}
      BY <1>1, <1>2, NoRaceBefore
    <2>2. o = stored /\ o # c
      BY <1>2, <2>1 DEF Visible
    <2> QED BY <2>1, <2>2, SessionAssumption
  <1> QED BY <1>2 DEF Visible

(* Without a race an evicted client is not alive.                          *)
LEMMA DueIsDown ==
    ASSUME Visible, NoRace, NEW c \in Clients, EvictionDue(c)
    PROVE  ~cli[c].up /\ ~cli[c].retry
  BY DEF Visible

(* A step that makes no client anew, adds no device row and brings no      *)
(* request to the point of making a client keeps what was restored.        *)
LEMMA RestoringKept ==
    ASSUME SessionTypes, Restoring, oddities \subseteq oddities', rows' \subseteq rows,
           stored' \in {stored, None},
           \A o \in Clients : \/ cli'[o].deleted
                              \/ cli'[o].dev = cli[o].dev /\ cli'[o].deleted = cli[o].deleted,
           \A q \in Requests : request'[q].pc = "create" => request'[q] = request[q]
    PROVE  Restoring'
  <1>1. ASSUME oddities' = {}, stored' # None, cli'[stored'].dev = None, ~cli'[stored'].deleted
        PROVE  rows' = {}
    <2>1. oddities = {} /\ stored' = stored /\ stored \in Clients
      BY <1>1 DEF SessionTypes
    <2>2. cli[stored].dev = None /\ ~cli[stored].deleted
      BY <1>1, <2>1
    <2>3. rows = {}
      BY <1>1, <2>1, <2>2 DEF Restoring, RestoresPairing
    <2> QED BY <2>3
  <1>2. ASSUME oddities' = {}, NEW q \in Requests, request'[q].pc = "create", request'[q].dev = None
        PROVE  rows' = {}
    <2>1. oddities = {} /\ request[q].pc = "create" /\ request[q].dev = None
      BY <1>2
    <2>2. rows = {}
      BY <2>1 DEF Restoring
    <2> QED BY <2>2
  <1> QED BY <1>1, <1>2 DEF Restoring, RestoresPairing

(* Every step keeps the types.                                             *)
LEMMA SessionTypesNext == InboxOK /\ SessionTypes /\ [Next]_vars => SessionTypes'
  <1> SUFFICES ASSUME InboxOK, SessionTypes, [Next]_vars PROVE SessionTypes'
    OBVIOUS
  <1> USE SessionAssumption DEF SessionTypes
  <1>1. ASSUME NEW r \in Requests, RegisterClient(r) PROVE SessionTypes'
    BY <1>1 DEF RegisterClient, RequestRecords, ClientSteps
  <1>2. ASSUME NEW r \in Requests, findDeviceByPhone(r) PROVE SessionTypes'
    <2>1. PICK d \in Devices \cup {None} :
             request' = [request EXCEPT ![r].pc = "create", ![r].dev = d]
      BY <1>2 DEF findDeviceByPhone
    <2>2. /\ request' \in [Requests -> RequestRecords] /\ request'[r].pc = "create"
          /\ \A q \in Requests : q # r => request'[q] = request[q]
      BY <2>1, RequestFound
    <2>3. \A q \in Requests : request'[q].pc \in ClientSteps => request'[q].client \in Clients
      BY <2>2 DEF ClientSteps
    <2> QED BY <1>2, <2>2, <2>3 DEF findDeviceByPhone
  <1>3. ASSUME NEW r \in Requests, NEW c \in Clients, InitClient(r, c) PROVE SessionTypes'
    BY <1>3 DEF InitClient, Unused, NoClient, NoRequest, Note, RequestRecords,
       ClientSteps, ClientRecords
  <1>4. ASSUME NEW r \in Requests, NEW pc \in {"connect", "logout"}, Begin(r, pc) PROVE SessionTypes'
    BY <1>4 DEF Begin, RequestRecords, ClientSteps
  <1>5. ASSUME NEW r \in Requests, Connect(r) PROVE SessionTypes'
    <2> DEFINE c == request[r].client
    <2>1. c \in Clients
      BY <1>5 DEF Connect, ClientSteps
    <2>2. /\ request' \in [Requests -> RequestRecords]
          /\ \A q \in Requests : request'[q].pc \in ClientSteps => request'[q].client \in Clients
      <3>1. CASE request' = [request EXCEPT ![r] = NoRequest]
        BY <3>1, RequestOver DEF ClientSteps
      <3>2. CASE request' = [request EXCEPT ![r].pc = "evict"]
        BY <2>1, <3>2, RequestGoesOn
      <3> QED BY <1>5, <3>1, <3>2 DEF Connect
    <2> HIDE DEF c
    <2>3. UNCHANGED <<stored, rows, handling, doomed, revoked>>
      BY <1>5 DEF Connect
    <2>4. cli' \in [Clients -> ClientRecords] /\ \A o \in Clients : Len(inbox'[o]) <= MaxInbox
      <3>1. CASE cli' = Offline(c) /\ UNCHANGED inbox
        BY <2>1, <3>1, OfflineFacts
      <3>2. CASE GoesUp(c)
        BY <2>1, <2>3, <3>2, GoesUpFacts
      <3> QED BY <1>5, <3>1, <3>2 DEF Connect, c
    <2> QED BY <2>2, <2>3, <2>4
  <1>6. ASSUME NEW r \in Requests, Logout(r) \/ LogoutWipe(r) PROVE SessionTypes'
    <2> DEFINE c == request[r].client
    <2>1. c \in Clients
      BY <1>6 DEF Logout, LogoutWipe, ClientSteps
    <2>2. /\ request' \in [Requests -> RequestRecords]
          /\ \A q \in Requests : request'[q].pc \in ClientSteps => request'[q].client \in Clients
      <3>1. CASE request' = [request EXCEPT ![r] = NoRequest]
        BY <3>1, RequestOver DEF ClientSteps
      <3>2. ASSUME NEW p \in {"wipe", "evict"}, request' = [request EXCEPT ![r].pc = p]
            PROVE  /\ request' \in [Requests -> RequestRecords]
                   /\ \A q \in Requests : request'[q].pc \in ClientSteps => request'[q].client \in Clients
        BY <2>1, <3>2, RequestGoesOn
      <3> QED BY <1>6, <3>1, <3>2 DEF Logout, LogoutWipe
    <2> HIDE DEF c
    <2>3. UNCHANGED stored /\ rows' \subseteq rows /\ UNCHANGED <<inbox, handling, doomed, revoked>>
      BY <1>6 DEF Logout, LogoutWipe
    <2>4. \/ cli' = Offline(c) \/ cli' = [cli EXCEPT ![c] = [NoClient EXCEPT !.deleted = TRUE]]
          \/ cli' = [cli EXCEPT ![c].dev = None, ![c].deleted = TRUE] \/ UNCHANGED cli
      BY <1>6 DEF Logout, LogoutWipe, c
    <2>5. cli' \in [Clients -> ClientRecords]
      <3>1. CASE cli' = Offline(c)
        BY <2>1, <3>1, OfflineFacts
      <3>2. CASE cli' = [cli EXCEPT ![c] = [NoClient EXCEPT !.deleted = TRUE]]
        BY <2>1, <3>2, GoneFacts
      <3>3. CASE cli' = [cli EXCEPT ![c].dev = None, ![c].deleted = TRUE]
        BY <2>1, <3>3, WipeFacts
      <3> QED BY <2>4, <3>1, <3>2, <3>3
    <2> QED BY <2>2, <2>3, <2>5
  <1>20. ASSUME NEW r \in Requests, EvictEntry(r) PROVE SessionTypes'
    <2>1. /\ request' \in [Requests -> RequestRecords]
          /\ \A q \in Requests : request'[q].pc \in ClientSteps => request'[q].client \in Clients
      <3>1. request' = [request EXCEPT ![r] = NoRequest]
        BY <1>20 DEF EvictEntry
      <3> QED BY <3>1, RequestOver DEF ClientSteps
    <2> QED BY <1>20, <2>1 DEF EvictEntry, EvictFor
  <1>7. ASSUME NEW c \in Clients, NEW d \in Devices, Pair(c, d) PROVE SessionTypes'
    <2>1. /\ "connected" \in Events /\ Emit(c, "connected") /\ HasRoom(c)
          /\ UNCHANGED <<stored, request, handling>>
      BY <1>7 DEF Pair, Events, Evicting
    <2>2. \A o \in Clients : Len(inbox'[o]) <= MaxInbox
      BY <2>1, EmitFacts
    <2>3. cli' \in [Clients -> ClientRecords]
      BY <1>7, PairFacts DEF Pair
    <2>4. rows' \subseteq Devices /\ doomed' \subseteq Clients /\ revoked' \subseteq Devices
      BY <1>7 DEF Pair, ClientRecords
    <2> QED BY <2>1, <2>2, <2>3, <2>4
  <1>8. ASSUME NEW c \in Clients, ServerLogout(c) PROVE SessionTypes'
    <2>1. /\ "logged_out" \in Events /\ Emit(c, "logged_out") /\ HasRoom(c)
          /\ UNCHANGED <<stored, request, handling>>
      BY <1>8 DEF ServerLogout, Events, Evicting
    <2>2. \A o \in Clients : Len(inbox'[o]) <= MaxInbox
      BY <2>1, EmitFacts
    <2>3. cli' \in [Clients -> ClientRecords]
      BY <1>8, DownFacts DEF ServerLogout
    <2>4. rows' \subseteq Devices /\ doomed' \subseteq Clients /\ revoked' \subseteq Devices
      BY <1>8 DEF ServerLogout, ClientRecords
    <2> QED BY <2>1, <2>2, <2>3, <2>4
  <1>9. ASSUME NEW c \in Clients, StoreDelete(c) PROVE SessionTypes'
    BY <1>9 DEF StoreDelete, NoClient, ClientRecords
  <1>10. ASSUME NEW c \in Clients, AutoReconnect(c) PROVE SessionTypes'
    <2>1. GoesUp(c) /\ UNCHANGED <<stored, rows, request, handling, doomed, revoked>>
      BY <1>10 DEF AutoReconnect
    <2>2. cli' \in [Clients -> ClientRecords] /\ \A o \in Clients : Len(inbox'[o]) <= MaxInbox
      BY <2>1, GoesUpFacts
    <2> QED BY <2>1, <2>2
  <1>11. ASSUME NEW c \in Clients, NEW e \in Events, Ban(c, e) PROVE SessionTypes'
    <2>1. /\ e \in Events /\ Emit(c, e) /\ HasRoom(c)
          /\ UNCHANGED <<stored, request, handling>>
      BY <1>11 DEF Ban, Events, Evicting
    <2>2. \A o \in Clients : Len(inbox'[o]) <= MaxInbox
      BY <2>1, EmitFacts
    <2>3. cli' \in [Clients -> ClientRecords]
      BY <1>11, DownFacts DEF Ban
    <2>4. rows' \subseteq Devices /\ doomed' \subseteq Clients /\ revoked' \subseteq Devices
      BY <1>11 DEF Ban, ClientRecords
    <2> QED BY <2>1, <2>2, <2>3, <2>4
  <1>12. ASSUME NEW c \in Clients, NEW e \in Events, Drop(c, e) PROVE SessionTypes'
    <2>1. /\ e \in Events /\ Emit(c, e) /\ HasRoom(c)
          /\ UNCHANGED <<stored, request, handling>>
      BY <1>12 DEF Drop, Events, Evicting
    <2>2. \A o \in Clients : Len(inbox'[o]) <= MaxInbox
      BY <2>1, EmitFacts
    <2>3. cli' \in [Clients -> ClientRecords]
      BY <1>12, DropFacts DEF Drop
    <2>4. rows' \subseteq Devices /\ doomed' \subseteq Clients /\ revoked' \subseteq Devices
      BY <1>12 DEF Drop, ClientRecords
    <2> QED BY <2>1, <2>2, <2>3, <2>4
  <1>13. ASSUME NEW c \in Clients, NEW e \in Events, Timelock(c, e) PROVE SessionTypes'
    <2>1. /\ e \in Events /\ Emit(c, e) /\ HasRoom(c)
          /\ UNCHANGED <<stored, request, handling>>
      BY <1>13 DEF Timelock, Events, Evicting
    <2>2. \A o \in Clients : Len(inbox'[o]) <= MaxInbox
      BY <2>1, EmitFacts
    <2>3. cli' \in [Clients -> ClientRecords]
      BY <1>13 DEF Timelock
    <2>4. rows' \subseteq Devices /\ doomed' \subseteq Clients /\ revoked' \subseteq Devices
      BY <1>13 DEF Timelock, ClientRecords
    <2> QED BY <2>1, <2>2, <2>3, <2>4
  <1>14. ASSUME NEW c \in Clients, HandleEvent(c) PROVE SessionTypes'
    BY <1>14, HandleFacts DEF HandleEvent
  <1>15. ASSUME NEW c \in Clients, Evict(c) PROVE SessionTypes'
    BY <1>15 DEF Evict, EvictFor, Note
  <1>16. CASE Restart
    <2>1. /\ inbox' = [c \in Clients |-> <<>>] /\ handling' = [c \in Clients |-> None]
          /\ request' = [r \in Requests |-> NoRequest] /\ doomed' = {}
          /\ UNCHANGED <<rows, revoked>>
      BY <1>16, Zenon DEF Restart
    <2>2. stored' \in Clients \cup {None}
      BY <1>16 DEF Restart
    <2>3. cli' \in [Clients -> ClientRecords]
      <3>1. CASE cli' = [c \in Clients |-> NoClient]
        BY <3>1 DEF NoClient, ClientRecords
      <3>2. ASSUME NEW d \in rows, NEW up \in BOOLEAN, NEW c \in Clients,
                   cli' = [[o \in Clients |-> NoClient] EXCEPT ![c].dev = d, ![c].up = up]
            PROVE  cli' \in [Clients -> ClientRecords]
        BY <3>2 DEF NoClient, ClientRecords
      <3> QED BY <1>16, <3>1, <3>2 DEF Restart
    <2>4. request' \in [Requests -> RequestRecords] /\ \A r \in Requests : request'[r].pc = "idle"
      BY <2>1 DEF NoRequest, RequestRecords
    <2>5. \A c \in Clients : Len(inbox'[c]) <= MaxInbox
      BY <2>1
    <2> QED BY <2>1, <2>2, <2>3, <2>4, <2>5 DEF ClientSteps
  <1>17. CASE DisconnectAll
    <2>1. stored \in Clients /\ cli' = Offline(stored)
          /\ UNCHANGED <<stored, rows, request, inbox, handling, doomed, revoked>>
      BY <1>17 DEF DisconnectAll
    <2>2. cli' \in [Clients -> ClientRecords]
      BY <2>1, OfflineFacts
    <2> QED BY <2>1, <2>2
  <1>18. CASE UNCHANGED sessionVars
    BY <1>18 DEF sessionVars
  <1>19. CASE UNCHANGED vars
    BY <1>19 DEF vars, sessionVars
  <1> HIDE DEF SessionTypes
  <1> QED BY <1>1, <1>2, <1>3, <1>4, <1>5, <1>6, <1>7, <1>8, <1>9, <1>10, <1>11,
       <1>12, <1>13, <1>14, <1>15, <1>16, <1>17, <1>18, <1>19, <1>20 DEF Next, Api,
       WhatsApp

(* Every step keeps the sessions visible.                                  *)
LEMMA VisibleNext == InboxOK /\ SessionTypes /\ Visible /\ CleanersDown /\ [Next]_vars => Visible'
  <1> SUFFICES ASSUME InboxOK, SessionTypes, Visible, CleanersDown, [Next]_vars PROVE Visible'
    OBVIOUS
  <1> USE SessionAssumption DEF SessionTypes
  <1>1. ASSUME NEW r \in Requests, RegisterClient(r) PROVE Visible'
    <2>1. UNCHANGED <<cli, stored, inbox, handling>> /\ oddities \subseteq oddities'
      BY <1>1 DEF RegisterClient
    <2>2. \A o \in Clients : /\ ~(cli'[o].up /\ cli'[o].retry)
                             /\ cli'[o].up \/ cli'[o].retry => cli[o].up \/ cli[o].retry
      BY <2>1 DEF Visible
    <2>3. \A o \in Clients : EvictionDue(o)' <=> EvictionDue(o)
      BY <2>1 DEF EvictionDue
    <2> QED BY <2>1, <2>2, <2>3, VisibleKept
  <1>2. ASSUME NEW r \in Requests, findDeviceByPhone(r) PROVE Visible'
    <2>1. UNCHANGED <<cli, stored, inbox, handling>> /\ oddities \subseteq oddities'
      BY <1>2 DEF findDeviceByPhone
    <2>2. \A o \in Clients : /\ ~(cli'[o].up /\ cli'[o].retry)
                             /\ cli'[o].up \/ cli'[o].retry => cli[o].up \/ cli[o].retry
      BY <2>1 DEF Visible
    <2>3. \A o \in Clients : EvictionDue(o)' <=> EvictionDue(o)
      BY <2>1 DEF EvictionDue
    <2> QED BY <2>1, <2>2, <2>3, VisibleKept
  <1>3. ASSUME NEW r \in Requests, NEW c \in Clients, InitClient(r, c) PROVE Visible'
    <2>1. /\ cli'[c].up = FALSE /\ cli'[c].retry = FALSE
          /\ \A o \in Clients : o # c => cli'[o] = cli[o]
      BY <1>3 DEF InitClient, NoClient
    <2>2. oddities \subseteq oddities' /\ (NoRace' => stored = None)
      BY <1>3 DEF InitClient, Note, NoRace
    <2>3. ASSUME NoRace', NEW o \in Clients, cli'[o].up \/ cli'[o].retry PROVE FALSE
      <3>1. NoRace /\ stored = None
        BY <2>2, <2>3, NoRaceBefore
      <3> QED BY <2>1, <2>3, <3>1, SessionAssumption DEF Visible
    <2> QED BY <2>1, <2>3 DEF Visible
  <1>4. ASSUME NEW r \in Requests, NEW pc \in {"connect", "logout"}, Begin(r, pc) PROVE Visible'
    <2>1. UNCHANGED <<cli, stored, inbox, handling>> /\ oddities \subseteq oddities'
      BY <1>4 DEF Begin
    <2>2. \A o \in Clients : /\ ~(cli'[o].up /\ cli'[o].retry)
                             /\ cli'[o].up \/ cli'[o].retry => cli[o].up \/ cli[o].retry
      BY <2>1 DEF Visible
    <2>3. \A o \in Clients : EvictionDue(o)' <=> EvictionDue(o)
      BY <2>1 DEF EvictionDue
    <2> QED BY <2>1, <2>2, <2>3, VisibleKept
  <1>5. ASSUME NEW r \in Requests, Connect(r) PROVE Visible'
    <2> DEFINE c == request[r].client
    <2>1. c \in Clients /\ UNCHANGED handling
      BY <1>5 DEF Connect, ClientSteps
    <2> HIDE DEF c
    <2>3. ASSUME GoesUp(c), UNCHANGED stored,
                 Note("stale pointer", stored # c \/ EvictionDue(c) \/ CleanupDue(c))
          PROVE  Visible'
      <3>1. oddities \subseteq oddities' /\ (NoRace' => stored = c /\ ~EvictionDue(c))
        BY <2>3 DEF Note, NoRace
      <3>2. /\ cli'[c].up /\ ~cli'[c].retry
            /\ \A o \in Clients :
                  /\ o # c => (cli'[o].up => cli[o].up) /\ cli'[o].retry = cli[o].retry
                  /\ (o = c \/ cli'[o].up \/ ~cli[o].up) => (EvictionDue(o)' <=> EvictionDue(o))
        BY <2>1, <2>3, GoesUpFacts
      <3>3. \A o \in Clients : ~(cli'[o].up /\ cli'[o].retry)
        BY <3>2 DEF Visible
      <3>4. ASSUME NoRace', NEW o \in Clients, cli'[o].up \/ cli'[o].retry
            PROVE  o = stored' /\ ~EvictionDue(o)'
        <4>1. NoRace /\ stored = c /\ ~EvictionDue(c)
          BY <3>1, <3>4, NoRaceBefore
        <4>2. o = c
          BY <3>2, <3>4, <4>1 DEF Visible
        <4> QED BY <2>1, <2>3, <3>2, <4>1, <4>2
      <3> QED BY <3>3, <3>4 DEF Visible
    <2>4. ASSUME cli' = Offline(c), UNCHANGED <<inbox, stored, oddities>> PROVE Visible'
      <3>1. \A o \in Clients : /\ ~(cli'[o].up /\ cli'[o].retry)
                               /\ cli'[o].up \/ cli'[o].retry => cli[o].up \/ cli[o].retry
        BY <2>1, <2>4, OfflineFacts DEF Visible
      <3>2. \A o \in Clients : EvictionDue(o)' <=> EvictionDue(o)
        BY <2>1, <2>4 DEF EvictionDue
      <3> QED BY <2>4, <3>1, <3>2, VisibleKept
    <2> QED BY <1>5, <2>3, <2>4 DEF Connect, c
  <1>6. ASSUME NEW r \in Requests, Logout(r) \/ LogoutWipe(r) PROVE Visible'
    <2> DEFINE c == request[r].client
    <2>1. c \in Clients /\ UNCHANGED <<stored, oddities, inbox, handling>>
      BY <1>6 DEF Logout, LogoutWipe, ClientSteps
    <2>2. \/ cli' = Offline(c) \/ cli' = [cli EXCEPT ![c] = [NoClient EXCEPT !.deleted = TRUE]]
          \/ cli' = [cli EXCEPT ![c].dev = None, ![c].deleted = TRUE] \/ UNCHANGED cli
      BY <1>6 DEF Logout, LogoutWipe
    <2> HIDE DEF c
    <2>3. \A o \in Clients : /\ ~(cli'[o].up /\ cli'[o].retry)
                             /\ cli'[o].up \/ cli'[o].retry => cli[o].up \/ cli[o].retry
      <3>1. CASE cli' = Offline(c)
        BY <2>1, <3>1, OfflineFacts DEF Visible
      <3>2. CASE cli' = [cli EXCEPT ![c] = [NoClient EXCEPT !.deleted = TRUE]]
        <4>1. ~cli'[c].up /\ ~cli'[c].retry /\ \A o \in Clients : o # c => cli'[o] = cli[o]
          BY <2>1, <3>2, GoneFacts
        <4> QED BY <4>1 DEF Visible
      <3>3. CASE cli' = [cli EXCEPT ![c].dev = None, ![c].deleted = TRUE]
        <4>1. /\ cli'[c].up = cli[c].up /\ cli'[c].retry = cli[c].retry
              /\ \A o \in Clients : o # c => cli'[o] = cli[o]
          BY <2>1, <3>3, WipeFacts
        <4> QED BY <4>1 DEF Visible
      <3>4. CASE UNCHANGED cli
        BY <3>4 DEF Visible
      <3> QED BY <2>2, <3>1, <3>2, <3>3, <3>4
    <2>4. \A o \in Clients : EvictionDue(o)' <=> EvictionDue(o)
      BY <2>1 DEF EvictionDue
    <2> QED BY <2>1, <2>3, <2>4, VisibleKept
  <1>20. ASSUME NEW r \in Requests, EvictEntry(r) PROVE Visible'
    <2> DEFINE c == request[r].client
    <2>1. c \in Clients /\ EvictFor(c) /\ UNCHANGED cli
      BY <1>20 DEF EvictEntry, ClientSteps
    <2>2. NoRace => ~cli'[c].up /\ ~cli'[c].retry
      BY <1>20, <2>1 DEF EvictEntry, CleanersDown
    <2>3. \A o \in Clients : /\ ~(cli'[o].up /\ cli'[o].retry)
                             /\ cli'[o].up \/ cli'[o].retry => cli[o].up \/ cli[o].retry
      BY <2>1 DEF Visible
    <2> HIDE DEF c
    <2> QED BY <2>1, <2>2, <2>3, VisibleEvicted
  <1>7. ASSUME NEW c \in Clients, NEW d \in Devices, Pair(c, d) PROVE Visible'
    <2>1. /\ "connected" \in Events /\ Emit(c, "connected") /\ HasRoom(c) /\ UNCHANGED <<stored, handling>>
          /\ oddities \subseteq oddities'
      BY <1>7 DEF Pair, Events, Evicting, Note
    <2>2. cli'[c].up = cli[c].up /\ cli'[c].retry = cli[c].retry
          /\ \A o \in Clients : o # c => cli'[o] = cli[o]
      <3>1. cli' = [cli EXCEPT ![c].dev = d]
        BY <1>7 DEF Pair
      <3> QED BY <3>1, PairFacts
    <2>3. \A o \in Clients : /\ ~(cli'[o].up /\ cli'[o].retry)
                             /\ cli'[o].up \/ cli'[o].retry => cli[o].up \/ cli[o].retry
      BY <1>7, <2>2 DEF Visible, Pair
    <2>4. \A o \in Clients : cli'[o].up \/ cli'[o].retry => (EvictionDue(o)' => EvictionDue(o))
      <3>1. "connected" \notin Evicting
        BY <1>7 DEF Evicting, Pair
      <3> QED BY <2>1, <3>1, EmitFacts
    <2> QED BY <2>1, <2>3, <2>4, VisibleKept
  <1>8. ASSUME NEW c \in Clients, ServerLogout(c) PROVE Visible'
    <2>1. /\ "logged_out" \in Events /\ Emit(c, "logged_out") /\ HasRoom(c) /\ UNCHANGED <<stored, handling>>
          /\ oddities \subseteq oddities'
      BY <1>8 DEF ServerLogout, Events, Evicting, Note
    <2>2. ~cli'[c].up /\ cli'[c].retry = cli[c].retry
          /\ \A o \in Clients : o # c => cli'[o] = cli[o]
      BY <1>8, DownFacts DEF ServerLogout
    <2>3. \A o \in Clients : /\ ~(cli'[o].up /\ cli'[o].retry)
                             /\ cli'[o].up \/ cli'[o].retry => cli[o].up \/ cli[o].retry
      BY <1>8, <2>2 DEF Visible, ServerLogout
    <2>4. \A o \in Clients : cli'[o].up \/ cli'[o].retry => (EvictionDue(o)' => EvictionDue(o))
      <3>1. ~cli'[c].up /\ ~cli'[c].retry
        BY <1>8, <2>2 DEF Visible, ServerLogout
      <3> QED BY <2>1, <3>1, EmitFacts
    <2> QED BY <2>1, <2>3, <2>4, VisibleKept
  <1>9. ASSUME NEW c \in Clients, StoreDelete(c) PROVE Visible'
    <2>1. UNCHANGED <<stored, inbox, handling, oddities>>
      BY <1>9 DEF StoreDelete
    <2>2. ~cli'[c].up /\ ~cli'[c].retry /\ \A o \in Clients : o # c => cli'[o] = cli[o]
      BY <1>9, GoneFacts DEF StoreDelete
    <2>3. \A o \in Clients : /\ ~(cli'[o].up /\ cli'[o].retry)
                             /\ cli'[o].up \/ cli'[o].retry => cli[o].up \/ cli[o].retry
      BY <2>2 DEF Visible
    <2>4. \A o \in Clients : EvictionDue(o)' <=> EvictionDue(o)
      BY <2>1 DEF EvictionDue
    <2> QED BY <2>1, <2>3, <2>4, VisibleKept
  <1>10. ASSUME NEW c \in Clients, AutoReconnect(c) PROVE Visible'
    <2>1. GoesUp(c) /\ cli[c].retry /\ UNCHANGED <<stored, handling, oddities>>
      BY <1>10 DEF AutoReconnect
    <2>2. /\ cli'[c].up /\ ~cli'[c].retry
          /\ \A o \in Clients :
                /\ o # c => (cli'[o].up => cli[o].up) /\ cli'[o].retry = cli[o].retry
                /\ (o = c \/ cli'[o].up \/ ~cli[o].up) => (EvictionDue(o)' <=> EvictionDue(o))
      BY <2>1, GoesUpFacts
    <2>3. \A o \in Clients :
             /\ ~(cli'[o].up /\ cli'[o].retry)
             /\ cli'[o].up \/ cli'[o].retry =>
                   (cli[o].up \/ cli[o].retry) /\ (EvictionDue(o)' => EvictionDue(o))
      BY <2>1, <2>2 DEF Visible
    <2> QED BY <2>1, <2>3, VisibleKept
  <1>11. ASSUME NEW c \in Clients, NEW e \in Events, Ban(c, e) PROVE Visible'
    <2>1. /\ e \in Events /\ Emit(c, e) /\ HasRoom(c) /\ UNCHANGED <<stored, handling>>
          /\ oddities \subseteq oddities'
      BY <1>11 DEF Ban, Events, Evicting, Note
    <2>2. ~cli'[c].up /\ cli'[c].retry = cli[c].retry
          /\ \A o \in Clients : o # c => cli'[o] = cli[o]
      BY <1>11, DownFacts DEF Ban
    <2>3. \A o \in Clients : /\ ~(cli'[o].up /\ cli'[o].retry)
                             /\ cli'[o].up \/ cli'[o].retry => cli[o].up \/ cli[o].retry
      BY <1>11, <2>2 DEF Visible, Ban
    <2>4. \A o \in Clients : cli'[o].up \/ cli'[o].retry => (EvictionDue(o)' => EvictionDue(o))
      <3>1. ~cli'[c].up /\ ~cli'[c].retry
        BY <1>11, <2>2 DEF Visible, Ban
      <3> QED BY <2>1, <3>1, EmitFacts
    <2> QED BY <2>1, <2>3, <2>4, VisibleKept
  <1>12. ASSUME NEW c \in Clients, NEW e \in Events, Drop(c, e) PROVE Visible'
    <2>1. /\ e \in Events /\ Emit(c, e) /\ HasRoom(c) /\ UNCHANGED <<stored, handling>>
          /\ oddities \subseteq oddities'
      BY <1>12 DEF Drop, Events, Evicting, Note
    <2>2. ~cli'[c].up /\ cli'[c].retry
          /\ \A o \in Clients : o # c => cli'[o] = cli[o]
      BY <1>12, DropFacts DEF Drop
    <2>3. \A o \in Clients : /\ ~(cli'[o].up /\ cli'[o].retry)
                             /\ cli'[o].up \/ cli'[o].retry => cli[o].up \/ cli[o].retry
      BY <1>12, <2>2 DEF Visible, Drop
    <2>4. \A o \in Clients : cli'[o].up \/ cli'[o].retry => (EvictionDue(o)' => EvictionDue(o))
      <3>1. e \notin Evicting
        BY <1>12 DEF Evicting, Drop
      <3> QED BY <2>1, <3>1, EmitFacts
    <2> QED BY <2>1, <2>3, <2>4, VisibleKept
  <1>13. ASSUME NEW c \in Clients, NEW e \in Events, Timelock(c, e) PROVE Visible'
    <2>1. /\ e \in Events /\ Emit(c, e) /\ HasRoom(c) /\ UNCHANGED <<stored, handling>>
          /\ oddities \subseteq oddities'
      BY <1>13 DEF Timelock, Events, Evicting, Note
    <2>2. cli'[c] = cli[c]
          /\ \A o \in Clients : o # c => cli'[o] = cli[o]
      BY <1>13 DEF Timelock
    <2>3. \A o \in Clients : /\ ~(cli'[o].up /\ cli'[o].retry)
                             /\ cli'[o].up \/ cli'[o].retry => cli[o].up \/ cli[o].retry
      BY <1>13, <2>2 DEF Visible, Timelock
    <2>4. \A o \in Clients : cli'[o].up \/ cli'[o].retry => (EvictionDue(o)' => EvictionDue(o))
      <3>1. e \notin Evicting
        BY <1>13 DEF Evicting, Timelock
      <3> QED BY <2>1, <3>1, EmitFacts
    <2> QED BY <2>1, <2>3, <2>4, VisibleKept
  <1>14. ASSUME NEW c \in Clients, HandleEvent(c) PROVE Visible'
    <2>1. UNCHANGED <<cli, stored, oddities>>
      BY <1>14 DEF HandleEvent
    <2>2. \A o \in Clients : EvictionDue(o)' => EvictionDue(o)
      BY <1>14, HandleFacts
    <2>3. \A o \in Clients : ~(cli'[o].up /\ cli'[o].retry)
      BY <2>1 DEF Visible
    <2> QED BY <2>1, <2>2, <2>3, VisibleKept
  <1>15. ASSUME NEW c \in Clients, Evict(c) PROVE Visible'
    <2>1. EvictFor(c) /\ UNCHANGED cli /\ EvictionDue(c)
      BY <1>15 DEF Evict, EvictionDue
    <2>2. \A o \in Clients : /\ ~(cli'[o].up /\ cli'[o].retry)
                             /\ cli'[o].up \/ cli'[o].retry => cli[o].up \/ cli[o].retry
      BY <2>1 DEF Visible
    <2>3. NoRace => ~cli'[c].up /\ ~cli'[c].retry
      BY <2>1, DueIsDown
    <2> QED BY <2>1, <2>2, <2>3, VisibleEvicted
  <1>16. CASE Restart
    <2>1. inbox' = [c \in Clients |-> <<>>] /\ handling' = [c \in Clients |-> None]
      BY <1>16, Zenon DEF Restart
    <2>2. \A c \in Clients : ~EvictionDue(c)'
      BY <2>1 DEF EvictionDue
    <2>3. \A c \in Clients : ~cli'[c].retry /\ (cli'[c].up => c = stored')
      <3>1. CASE cli' = [c \in Clients |-> NoClient]
        BY <3>1 DEF NoClient
      <3>2. ASSUME NEW d \in rows, NEW up \in BOOLEAN, NEW c \in Clients, stored' = c,
                   cli' = [[o \in Clients |-> NoClient] EXCEPT ![c].dev = d, ![c].up = up]
            PROVE  \A o \in Clients : ~cli'[o].retry /\ (cli'[o].up => o = stored')
        BY <3>2 DEF NoClient
      <3> QED BY <1>16, <3>1, <3>2 DEF Restart
    <2> QED BY <2>2, <2>3 DEF Visible
  <1>17. CASE DisconnectAll
    <2>1. stored \in Clients /\ cli' = Offline(stored) /\ UNCHANGED <<stored, inbox, handling, oddities>>
      BY <1>17 DEF DisconnectAll
    <2>2. \A o \in Clients : /\ ~(cli'[o].up /\ cli'[o].retry)
                             /\ cli'[o].up \/ cli'[o].retry => cli[o].up \/ cli[o].retry
      BY <2>1, OfflineFacts DEF Visible
    <2>3. \A o \in Clients : EvictionDue(o)' <=> EvictionDue(o)
      BY <2>1 DEF EvictionDue
    <2> QED BY <2>1, <2>2, <2>3, VisibleKept
  <1>18. CASE UNCHANGED sessionVars
    <2>1. UNCHANGED <<cli, stored, inbox, handling>> /\ oddities \subseteq oddities'
      BY <1>18 DEF sessionVars
    <2>2. \A o \in Clients : /\ ~(cli'[o].up /\ cli'[o].retry)
                             /\ cli'[o].up \/ cli'[o].retry => cli[o].up \/ cli[o].retry
      BY <2>1 DEF Visible
    <2>3. \A o \in Clients : EvictionDue(o)' <=> EvictionDue(o)
      BY <2>1 DEF EvictionDue
    <2> QED BY <2>1, <2>2, <2>3, VisibleKept
  <1>19. CASE UNCHANGED vars
    <2>1. UNCHANGED <<cli, stored, inbox, handling>> /\ oddities \subseteq oddities'
      BY <1>19 DEF vars, sessionVars
    <2>2. \A o \in Clients : /\ ~(cli'[o].up /\ cli'[o].retry)
                             /\ cli'[o].up \/ cli'[o].retry => cli[o].up \/ cli[o].retry
      BY <2>1 DEF Visible
    <2>3. \A o \in Clients : EvictionDue(o)' <=> EvictionDue(o)
      BY <2>1 DEF EvictionDue
    <2> QED BY <2>1, <2>2, <2>3, VisibleKept
  <1> HIDE DEF SessionTypes
  <1> QED BY <1>1, <1>2, <1>3, <1>4, <1>5, <1>6, <1>7, <1>8, <1>9, <1>10, <1>11,
       <1>12, <1>13, <1>14, <1>15, <1>16, <1>17, <1>18, <1>19, <1>20 DEF Next, Api,
       WhatsApp

(* No client comes alive that was not, and no cleanup begins for one that  *)
(* stays alive.                                                            *)
LEMMA CleanersKept ==
    ASSUME CleanersDown, SessionTypes, oddities \subseteq oddities',
           \A o \in Clients : cli'[o].up \/ cli'[o].retry => cli[o].up \/ cli[o].retry,
           \A q \in Requests : request'[q].pc \in {"wipe", "evict"} =>
              \/ /\ request[q].pc \in {"wipe", "evict"}
                 /\ request'[q].client = request[q].client
              \/ ~cli'[request'[q].client].up /\ ~cli'[request'[q].client].retry
    PROVE  CleanersDown'
  <1>1. ASSUME NoRace', NEW q \in Requests, request'[q].pc \in {"wipe", "evict"}
        PROVE  ~cli'[request'[q].client].up /\ ~cli'[request'[q].client].retry
    <2>1. NoRace
      BY <1>1, NoRaceBefore
    <2>2. CASE request[q].pc \in {"wipe", "evict"} /\ request'[q].client = request[q].client
      <3>1. request[q].client \in Clients
        BY <2>2 DEF SessionTypes, ClientSteps
      <3>2. ~cli[request[q].client].up /\ ~cli[request[q].client].retry
        BY <2>1, <2>2 DEF CleanersDown
      <3> QED BY <2>2, <3>1, <3>2
    <2> QED BY <1>1, <2>2
  <1> QED BY <1>1 DEF CleanersDown

(* Every step leaves the client of a cleanup down, or is a race.           *)
LEMMA CleanersNext == InboxOK /\ SessionTypes /\ CleanersDown /\ [Next]_vars => CleanersDown'
  <1> SUFFICES ASSUME InboxOK, SessionTypes, CleanersDown, [Next]_vars PROVE CleanersDown'
    OBVIOUS
  <1>t. cli \in [Clients -> ClientRecords] /\ request \in [Requests -> RequestRecords]
    BY DEF SessionTypes
  <1>1. ASSUME NEW r \in Requests, RegisterClient(r) \/ findDeviceByPhone(r)
                                   \/ \E step \in {"connect", "logout"} : Begin(r, step)
        PROVE  CleanersDown'
    <2>1. UNCHANGED cli /\ oddities \subseteq oddities'
      BY <1>1 DEF RegisterClient, findDeviceByPhone, Begin
    <2>2. \A q \in Requests : request'[q].pc \in {"wipe", "evict"} => request'[q] = request[q]
      <3>1. CASE RegisterClient(r)
        BY <3>1, <1>t DEF RegisterClient, RequestRecords
      <3>2. CASE findDeviceByPhone(r)
        <4>1. PICK d \in Devices \cup {None} :
                 request' = [request EXCEPT ![r].pc = "create", ![r].dev = d]
          BY <3>2 DEF findDeviceByPhone, SessionTypes
        <4> QED BY <4>1, <1>t, RequestFound
      <3>3. ASSUME NEW step \in {"connect", "logout"}, Begin(r, step)
            PROVE  \A q \in Requests : request'[q].pc \in {"wipe", "evict"} => request'[q] = request[q]
        BY <3>3, <1>t DEF Begin, RequestRecords
      <3> QED BY <1>1, <3>1, <3>2, <3>3
    <2> QED BY <2>1, <2>2, CleanersKept
  <1>2. ASSUME NEW r \in Requests, NEW c \in Clients, InitClient(r, c) PROVE CleanersDown'
    <2>1. \A o \in Clients : cli'[o].up \/ cli'[o].retry => cli[o].up \/ cli[o].retry
      BY <1>2, <1>t DEF InitClient, NoClient
    <2>2. request'[r].pc = "idle" /\ \A q \in Requests : q # r => request'[q] = request[q]
      BY <1>2, RequestOver DEF InitClient
    <2>3. oddities \subseteq oddities'
      BY <1>2 DEF InitClient, Note
    <2> QED BY <2>1, <2>2, <2>3, CleanersKept
  <1>3. ASSUME NEW r \in Requests, Connect(r) PROVE CleanersDown'
    <2> DEFINE c == request[r].client
    <2>1. c \in Clients /\ UNCHANGED handling
      BY <1>3 DEF Connect, SessionTypes, ClientSteps
    <2> HIDE DEF c
    <2>2. ASSUME cli' = Offline(c), request' = [request EXCEPT ![r].pc = "evict"], UNCHANGED oddities
          PROVE  CleanersDown'
      <3>1. \A o \in Clients : cli'[o].up \/ cli'[o].retry => cli[o].up \/ cli[o].retry
        BY <2>1, <2>2, <1>t, OfflineFacts
      <3>2. ~cli'[c].up /\ ~cli'[c].retry
        BY <2>1, <2>2, <1>t, OfflineFacts
      <3>3. request'[r].client = c /\ \A q \in Requests : q # r => request'[q] = request[q]
        BY <2>2, RequestGoesOn DEF c
      <3> QED BY <2>2, <3>1, <3>2, <3>3, CleanersKept
    <2>3. ASSUME GoesUp(c), request' = [request EXCEPT ![r] = NoRequest],
                 Note("stale pointer", stored # c \/ EvictionDue(c) \/ CleanupDue(c))
          PROVE  CleanersDown'
      <3>1. request'[r].pc = "idle" /\ \A q \in Requests : q # r => request'[q] = request[q]
        BY <2>3, RequestOver
      <3>2. ASSUME NoRace', NEW q \in Requests, request'[q].pc \in {"wipe", "evict"}
            PROVE  ~cli'[request'[q].client].up /\ ~cli'[request'[q].client].retry
        <4>1. oddities \subseteq oddities' /\ ~CleanupDue(c)
          BY <2>3, <3>2 DEF Note, NoRace
        <4>2. NoRace
          BY <3>2, <4>1, NoRaceBefore
        <4>3. request'[q] = request[q] /\ request[q].client # c
          BY <3>1, <3>2, <4>1 DEF CleanupDue
        <4>4. request[q].client \in Clients
          BY <3>2, <4>3 DEF SessionTypes, ClientSteps
        <4>5. ~cli[request[q].client].up /\ ~cli[request[q].client].retry
          BY <3>2, <4>2, <4>3 DEF CleanersDown
        <4> QED BY <2>1, <2>3, <4>3, <4>4, <4>5, GoesUpFacts, SessionAssumption
      <3> QED BY <3>2 DEF CleanersDown
    <2>4. ASSUME cli' = Offline(c), request' = [request EXCEPT ![r] = NoRequest], UNCHANGED oddities
          PROVE  CleanersDown'
      <3>1. \A o \in Clients : cli'[o].up \/ cli'[o].retry => cli[o].up \/ cli[o].retry
        BY <2>1, <2>4, <1>t, OfflineFacts
      <3>2. request'[r].pc = "idle" /\ \A q \in Requests : q # r => request'[q] = request[q]
        BY <2>4, RequestOver
      <3> QED BY <2>4, <3>1, <3>2, CleanersKept
    <2> QED BY <1>3, <2>2, <2>3, <2>4 DEF Connect, c
  <1>4. ASSUME NEW r \in Requests, Logout(r) PROVE CleanersDown'
    <2> DEFINE c == request[r].client
    <2>1. c \in Clients /\ UNCHANGED oddities
      BY <1>4 DEF Logout, SessionTypes, ClientSteps
    <2> HIDE DEF c
    <2>2. ASSUME cli' = [cli EXCEPT ![c] = [NoClient EXCEPT !.deleted = TRUE]],
                 request' = [request EXCEPT ![r] = NoRequest]
          PROVE  CleanersDown'
      <3>1. \A o \in Clients : cli'[o].up \/ cli'[o].retry => cli[o].up \/ cli[o].retry
        BY <2>1, <2>2, <1>t, GoneFacts
      <3>2. request'[r].pc = "idle" /\ \A q \in Requests : q # r => request'[q] = request[q]
        BY <2>2, RequestOver
      <3> QED BY <2>1, <3>1, <3>2, CleanersKept
    <2>3. ASSUME cli' = Offline(c), request' = [request EXCEPT ![r].pc = "wipe"] PROVE CleanersDown'
      <3>1. \A o \in Clients : cli'[o].up \/ cli'[o].retry => cli[o].up \/ cli[o].retry
        BY <2>1, <2>3, <1>t, OfflineFacts
      <3>2. ~cli'[c].up /\ ~cli'[c].retry
        BY <2>1, <2>3, <1>t, OfflineFacts
      <3>3. request'[r].client = c /\ \A q \in Requests : q # r => request'[q] = request[q]
        BY <2>3, RequestGoesOn DEF c
      <3> QED BY <2>1, <3>1, <3>2, <3>3, CleanersKept
    <2> QED BY <1>4, <2>2, <2>3 DEF Logout, c
  <1>5. ASSUME NEW r \in Requests, LogoutWipe(r) PROVE CleanersDown'
    <2> DEFINE c == request[r].client
    <2>1. /\ c \in Clients /\ UNCHANGED oddities /\ request[r].pc = "wipe"
          /\ request' = [request EXCEPT ![r].pc = "evict"]
      BY <1>5 DEF LogoutWipe, SessionTypes, ClientSteps
    <2>2. cli' = [cli EXCEPT ![c].dev = None, ![c].deleted = TRUE] \/ UNCHANGED cli
      BY <1>5 DEF LogoutWipe
    <2>3. request'[r].client = c /\ \A q \in Requests : q # r => request'[q] = request[q]
      BY <2>1, RequestGoesOn
    <2>4. \A o \in Clients : cli'[o].up \/ cli'[o].retry => cli[o].up \/ cli[o].retry
      BY <2>1, <2>2, <1>t, WipeFacts
    <2> QED BY <2>1, <2>3, <2>4, CleanersKept
  <1>6. ASSUME NEW r \in Requests, EvictEntry(r) PROVE CleanersDown'
    <2>1. UNCHANGED cli /\ oddities \subseteq oddities' /\ request' = [request EXCEPT ![r] = NoRequest]
      BY <1>6 DEF EvictEntry, EvictFor, Note
    <2>2. request'[r].pc = "idle" /\ \A q \in Requests : q # r => request'[q] = request[q]
      BY <2>1, RequestOver
    <2> QED BY <2>1, <2>2, CleanersKept
  <1>7. ASSUME NEW c \in Clients, AutoReconnect(c) PROVE CleanersDown'
    <2>1. cli[c].retry /\ GoesUp(c) /\ UNCHANGED <<request, handling, oddities>>
      BY <1>7 DEF AutoReconnect
    <2>2. \A o \in Clients : cli'[o].up \/ cli'[o].retry => cli[o].up \/ cli[o].retry
      BY <2>1, GoesUpFacts, SessionAssumption
    <2> QED BY <2>1, <2>2, CleanersKept
  <1>8. ASSUME NEW c \in Clients,
               \/ \E d \in Devices : Pair(c, d)
               \/ ServerLogout(c) \/ StoreDelete(c)
               \/ \E e \in Events : Ban(c, e) \/ Drop(c, e) \/ Timelock(c, e)
               \/ HandleEvent(c) \/ Evict(c)
        PROVE  CleanersDown'
    <2>1. UNCHANGED request /\ oddities \subseteq oddities'
      BY <1>8 DEF Pair, ServerLogout, StoreDelete, Ban, Drop, Timelock, HandleEvent, Evict,
         EvictFor, Note
    <2>2. \A o \in Clients : cli'[o].up \/ cli'[o].retry => cli[o].up \/ cli[o].retry
      BY <1>8, <1>t DEF Pair, ServerLogout, StoreDelete, Ban, Drop, Timelock, HandleEvent, Evict,
         NoClient, ClientRecords
    <2> QED BY <2>1, <2>2, CleanersKept
  <1>9. CASE Restart
    <2>1. request' = [r \in Requests |-> NoRequest]
      BY <1>9, Zenon DEF Restart
    <2>2. \A r \in Requests : request'[r].pc = "idle"
      BY <2>1 DEF NoRequest
    <2> QED BY <2>2 DEF CleanersDown
  <1>10. CASE DisconnectAll
    <2>1. cli' = Offline(stored) /\ stored \in Clients /\ UNCHANGED <<request, oddities>>
      BY <1>10 DEF DisconnectAll, SessionTypes
    <2>2. \A o \in Clients : cli'[o].up \/ cli'[o].retry => cli[o].up \/ cli[o].retry
      BY <2>1, <1>t, OfflineFacts
    <2> QED BY <2>1, <2>2, CleanersKept
  <1>11. CASE UNCHANGED sessionVars
    BY <1>11, CleanersKept DEF sessionVars
  <1>12. CASE UNCHANGED vars
    BY <1>11, <1>12 DEF vars
  <1> QED BY <1>1, <1>2, <1>3, <1>4, <1>5, <1>6, <1>7, <1>8, <1>9, <1>10, <1>11, <1>12
          DEF Next, Api, WhatsApp

(* Every step keeps what a restart or a login restores.                    *)
LEMMA RestoringNext == InboxOK /\ SessionTypes /\ Visible /\ Restoring /\ [Next]_vars => Restoring'
  <1> SUFFICES ASSUME InboxOK, SessionTypes, Visible, Restoring, [Next]_vars PROVE Restoring'
    OBVIOUS
  <1> USE SessionAssumption DEF SessionTypes
  <1>1. ASSUME NEW r \in Requests, RegisterClient(r) PROVE Restoring'
    <2>1. oddities \subseteq oddities' /\ rows' \subseteq rows /\ stored' \in {stored, None}
      BY <1>1 DEF RegisterClient
    <2>2. \A o \in Clients : \/ cli'[o].deleted
                             \/ cli'[o].dev = cli[o].dev /\ cli'[o].deleted = cli[o].deleted
      BY <1>1 DEF RegisterClient
    <2>3. \A q \in Requests : request'[q].pc = "create" => request'[q] = request[q]
      BY <1>1 DEF RegisterClient, RequestRecords, ClientSteps
    <2> QED BY <2>1, <2>2, <2>3, RestoringKept
  <1>2. ASSUME NEW r \in Requests, findDeviceByPhone(r) PROVE Restoring'
    <2>1. UNCHANGED <<cli, stored, rows>> /\ oddities \subseteq oddities'
      BY <1>2 DEF findDeviceByPhone
    <2>2. PICK d \in Devices \cup {None} :
             /\ request' = [request EXCEPT ![r].pc = "create", ![r].dev = d]
             /\ oddities' = {} /\ d = None => rows = {}
      BY <1>2 DEF findDeviceByPhone
    <2>3. request'[r].dev = d /\ \A q \in Requests : q # r => request'[q] = request[q]
      BY <2>2, RequestFound
    <2>4. RestoresPairing'
      BY <2>1 DEF Restoring, RestoresPairing
    <2>5. ASSUME oddities' = {}, NEW q \in Requests, request'[q].pc = "create", request'[q].dev = None
          PROVE  rows' = {}
      <3>1. CASE q = r
        BY <2>1, <2>2, <2>3, <2>5, <3>1
      <3>2. CASE q # r
        BY <2>1, <2>3, <2>5, <3>2 DEF Restoring
      <3> QED BY <3>1, <3>2
    <2> QED BY <2>4, <2>5 DEF Restoring
  <1>3. ASSUME NEW r \in Requests, NEW c \in Clients, InitClient(r, c) PROVE Restoring'
    <2>1. /\ cli'[c].dev = request[r].dev /\ stored' = c /\ UNCHANGED rows
          /\ request[r].pc = "create" /\ request' = [request EXCEPT ![r] = NoRequest]
      BY <1>3 DEF InitClient, NoClient
    <2>2. oddities \subseteq oddities'
      BY <1>3 DEF InitClient, Note
    <2>3. request'[r].pc = "idle" /\ \A q \in Requests : q # r => request'[q] = request[q]
      BY <2>1, RequestOver
    <2>4. ASSUME oddities' = {}, cli'[stored'].dev = None PROVE rows' = {}
      <3>1. oddities = {} /\ request[r].dev = None
        BY <2>1, <2>2, <2>4
      <3> QED BY <2>1, <3>1 DEF Restoring
    <2>5. ASSUME oddities' = {}, NEW q \in Requests, request'[q].pc = "create", request'[q].dev = None
          PROVE  rows' = {}
      <3>1. oddities = {} /\ request[q].pc = "create" /\ request[q].dev = None
        BY <2>2, <2>3, <2>5
      <3> QED BY <2>1, <3>1 DEF Restoring
    <2> QED BY <2>4, <2>5 DEF Restoring, RestoresPairing
  <1>4. ASSUME NEW r \in Requests, NEW pc \in {"connect", "logout"}, Begin(r, pc) PROVE Restoring'
    <2>1. oddities \subseteq oddities' /\ rows' \subseteq rows /\ stored' \in {stored, None}
      BY <1>4 DEF Begin
    <2>2. \A o \in Clients : \/ cli'[o].deleted
                             \/ cli'[o].dev = cli[o].dev /\ cli'[o].deleted = cli[o].deleted
      BY <1>4 DEF Begin
    <2>3. \A q \in Requests : request'[q].pc = "create" => request'[q] = request[q]
      BY <1>4 DEF Begin, RequestRecords
    <2> QED BY <2>1, <2>2, <2>3, RestoringKept
  <1>5. ASSUME NEW r \in Requests, Connect(r) PROVE Restoring'
    <2>1. oddities \subseteq oddities' /\ rows' \subseteq rows /\ stored' \in {stored, None}
      BY <1>5 DEF Connect, Note
    <2>2. \A o \in Clients : \/ cli'[o].deleted
                             \/ cli'[o].dev = cli[o].dev /\ cli'[o].deleted = cli[o].deleted
      <3> DEFINE c == request[r].client
      <3>1. c \in Clients /\ UNCHANGED handling
        BY <1>5 DEF Connect, ClientSteps
      <3> HIDE DEF c
      <3>2. CASE cli' = Offline(c)
        BY <3>1, <3>2, OfflineFacts
      <3>3. CASE GoesUp(c)
        BY <3>1, <3>3, GoesUpFacts
      <3> QED BY <1>5, <3>2, <3>3 DEF Connect, c
    <2>3. \A q \in Requests : request'[q].pc = "create" => request'[q] = request[q]
      <3>1. CASE request' = [request EXCEPT ![r] = NoRequest]
        BY <3>1, RequestOver
      <3>2. CASE request' = [request EXCEPT ![r].pc = "evict"]
        BY <3>2, RequestGoesOn
      <3> QED BY <1>5, <3>1, <3>2 DEF Connect
    <2> QED BY <2>1, <2>2, <2>3, RestoringKept
  <1>6. ASSUME NEW r \in Requests, Logout(r) \/ LogoutWipe(r) PROVE Restoring'
    <2>1. UNCHANGED oddities /\ rows' \subseteq rows /\ UNCHANGED stored
      BY <1>6 DEF Logout, LogoutWipe
    <2>2. \A o \in Clients : \/ cli'[o].deleted
                             \/ cli'[o].dev = cli[o].dev /\ cli'[o].deleted = cli[o].deleted
      <3> DEFINE c == request[r].client
      <3>1. c \in Clients
        BY <1>6 DEF Logout, LogoutWipe, ClientSteps
      <3>2. \/ cli' = Offline(c) \/ cli' = [cli EXCEPT ![c] = [NoClient EXCEPT !.deleted = TRUE]]
            \/ cli' = [cli EXCEPT ![c].dev = None, ![c].deleted = TRUE] \/ UNCHANGED cli
        BY <1>6 DEF Logout, LogoutWipe
      <3> HIDE DEF c
      <3>3. CASE cli' = Offline(c)
        BY <3>1, <3>3, OfflineFacts
      <3>4. CASE cli' = [cli EXCEPT ![c] = [NoClient EXCEPT !.deleted = TRUE]]
        BY <3>1, <3>4, GoneFacts
      <3>5. CASE cli' = [cli EXCEPT ![c].dev = None, ![c].deleted = TRUE]
        BY <3>1, <3>5, WipeFacts
      <3> QED BY <3>2, <3>3, <3>4, <3>5
    <2>3. \A q \in Requests : request'[q].pc = "create" => request'[q] = request[q]
      <3>1. CASE request' = [request EXCEPT ![r] = NoRequest]
        BY <3>1, RequestOver
      <3>2. ASSUME NEW p \in {"wipe", "evict"}, request' = [request EXCEPT ![r].pc = p]
            PROVE  \A q \in Requests : request'[q].pc = "create" => request'[q] = request[q]
        BY <3>2, RequestGoesOn
      <3> QED BY <1>6, <3>1, <3>2 DEF Logout, LogoutWipe
    <2> QED BY <2>1, <2>2, <2>3, RestoringKept
  <1>20. ASSUME NEW r \in Requests, EvictEntry(r) PROVE Restoring'
    <2>1. oddities \subseteq oddities' /\ UNCHANGED <<rows, cli>> /\ stored' \in {stored, None}
      BY <1>20 DEF EvictEntry, EvictFor, Note
    <2>2. \A q \in Requests : request'[q].pc = "create" => request'[q] = request[q]
      <3>1. request' = [request EXCEPT ![r] = NoRequest]
        BY <1>20 DEF EvictEntry
      <3> QED BY <3>1, RequestOver
    <2> QED BY <2>1, <2>2, RestoringKept
  <1>7. ASSUME NEW c \in Clients, NEW d \in Devices, Pair(c, d) PROVE Restoring'
    <2>1. cli' = [cli EXCEPT ![c].dev = d] /\ cli[c].up /\ UNCHANGED <<stored, request>>
      BY <1>7 DEF Pair
    <2>2. oddities \subseteq oddities' /\ (oddities' = {} => \A q \in Requests : request[q].pc # "create")
      BY <1>7 DEF Pair, Note
    <2>3. cli'[c].dev = d /\ d # None
      BY <2>1, PairFacts
    <2>4. oddities' = {} => stored = c
      <3>1. oddities' = {} => NoRace
        BY <2>2 DEF NoRace
      <3> QED BY <2>1, <3>1 DEF Visible
    <2>5. RestoresPairing'
      BY <2>1, <2>3, <2>4 DEF RestoresPairing
    <2> QED BY <2>1, <2>2, <2>5 DEF Restoring
  <1>8. ASSUME NEW c \in Clients, ServerLogout(c) PROVE Restoring'
    <2>1. oddities \subseteq oddities' /\ rows' \subseteq rows /\ stored' \in {stored, None}
      BY <1>8 DEF ServerLogout
    <2>2. \A o \in Clients : \/ cli'[o].deleted
                             \/ cli'[o].dev = cli[o].dev /\ cli'[o].deleted = cli[o].deleted
      <3>1. cli' = [cli EXCEPT ![c].up = FALSE]
        BY <1>8 DEF ServerLogout
      <3> QED BY <3>1, DownFacts
    <2>3. \A q \in Requests : request'[q].pc = "create" => request'[q] = request[q]
      BY <1>8 DEF ServerLogout
    <2> QED BY <2>1, <2>2, <2>3, RestoringKept
  <1>9. ASSUME NEW c \in Clients, StoreDelete(c) PROVE Restoring'
    <2>1. oddities \subseteq oddities' /\ rows' \subseteq rows /\ stored' \in {stored, None}
      BY <1>9 DEF StoreDelete
    <2>2. \A o \in Clients : \/ cli'[o].deleted
                             \/ cli'[o].dev = cli[o].dev /\ cli'[o].deleted = cli[o].deleted
      <3>1. cli' = [cli EXCEPT ![c] = [NoClient EXCEPT !.deleted = TRUE]]
        BY <1>9 DEF StoreDelete
      <3> QED BY <3>1, GoneFacts
    <2>3. \A q \in Requests : request'[q].pc = "create" => request'[q] = request[q]
      BY <1>9 DEF StoreDelete
    <2> QED BY <2>1, <2>2, <2>3, RestoringKept
  <1>10. ASSUME NEW c \in Clients, AutoReconnect(c) PROVE Restoring'
    <2>1. oddities \subseteq oddities' /\ rows' \subseteq rows /\ stored' \in {stored, None}
      BY <1>10 DEF AutoReconnect
    <2>2. \A o \in Clients : \/ cli'[o].deleted
                             \/ cli'[o].dev = cli[o].dev /\ cli'[o].deleted = cli[o].deleted
      <3>1. GoesUp(c) /\ UNCHANGED handling
        BY <1>10 DEF AutoReconnect
      <3> QED BY <3>1, GoesUpFacts
    <2>3. \A q \in Requests : request'[q].pc = "create" => request'[q] = request[q]
      BY <1>10 DEF AutoReconnect
    <2> QED BY <2>1, <2>2, <2>3, RestoringKept
  <1>11. ASSUME NEW c \in Clients, NEW e \in Events, Ban(c, e) PROVE Restoring'
    <2>1. oddities \subseteq oddities' /\ rows' \subseteq rows /\ stored' \in {stored, None}
      BY <1>11 DEF Ban
    <2>2. \A o \in Clients : \/ cli'[o].deleted
                             \/ cli'[o].dev = cli[o].dev /\ cli'[o].deleted = cli[o].deleted
      <3>1. cli' = [cli EXCEPT ![c].up = FALSE]
        BY <1>11 DEF Ban
      <3> QED BY <3>1, DownFacts
    <2>3. \A q \in Requests : request'[q].pc = "create" => request'[q] = request[q]
      BY <1>11 DEF Ban
    <2> QED BY <2>1, <2>2, <2>3, RestoringKept
  <1>12. ASSUME NEW c \in Clients, NEW e \in Events, Drop(c, e) PROVE Restoring'
    <2>1. oddities \subseteq oddities' /\ rows' \subseteq rows /\ stored' \in {stored, None}
      BY <1>12 DEF Drop
    <2>2. \A o \in Clients : \/ cli'[o].deleted
                             \/ cli'[o].dev = cli[o].dev /\ cli'[o].deleted = cli[o].deleted
      <3>1. cli' = [cli EXCEPT ![c].up = FALSE, ![c].retry = TRUE]
        BY <1>12 DEF Drop
      <3> QED BY <3>1, DropFacts
    <2>3. \A q \in Requests : request'[q].pc = "create" => request'[q] = request[q]
      BY <1>12 DEF Drop
    <2> QED BY <2>1, <2>2, <2>3, RestoringKept
  <1>13. ASSUME NEW c \in Clients, NEW e \in Events, Timelock(c, e) PROVE Restoring'
    <2>1. oddities \subseteq oddities' /\ rows' \subseteq rows /\ stored' \in {stored, None}
      BY <1>13 DEF Timelock
    <2>2. \A o \in Clients : \/ cli'[o].deleted
                             \/ cli'[o].dev = cli[o].dev /\ cli'[o].deleted = cli[o].deleted
      BY <1>13 DEF Timelock
    <2>3. \A q \in Requests : request'[q].pc = "create" => request'[q] = request[q]
      BY <1>13 DEF Timelock
    <2> QED BY <2>1, <2>2, <2>3, RestoringKept
  <1>14. ASSUME NEW c \in Clients, HandleEvent(c) PROVE Restoring'
    <2>1. oddities \subseteq oddities' /\ rows' \subseteq rows /\ stored' \in {stored, None}
      BY <1>14 DEF HandleEvent
    <2>2. \A o \in Clients : \/ cli'[o].deleted
                             \/ cli'[o].dev = cli[o].dev /\ cli'[o].deleted = cli[o].deleted
      BY <1>14 DEF HandleEvent
    <2>3. \A q \in Requests : request'[q].pc = "create" => request'[q] = request[q]
      BY <1>14 DEF HandleEvent
    <2> QED BY <2>1, <2>2, <2>3, RestoringKept
  <1>15. ASSUME NEW c \in Clients, Evict(c) PROVE Restoring'
    <2>1. oddities \subseteq oddities' /\ rows' \subseteq rows /\ stored' \in {stored, None}
      BY <1>15 DEF Evict, EvictFor, Note
    <2>2. \A o \in Clients : \/ cli'[o].deleted
                             \/ cli'[o].dev = cli[o].dev /\ cli'[o].deleted = cli[o].deleted
      BY <1>15 DEF Evict
    <2>3. \A q \in Requests : request'[q].pc = "create" => request'[q] = request[q]
      BY <1>15 DEF Evict
    <2> QED BY <2>1, <2>2, <2>3, RestoringKept
  <1>16. CASE Restart
    <2>1. request' = [r \in Requests |-> NoRequest]
      BY <1>16, Zenon DEF Restart
    <2>2. \A r \in Requests : request'[r].pc = "idle"
      BY <2>1 DEF NoRequest
    <2>3. stored' # None => cli'[stored'].dev # None
      <3>1. ASSUME NEW d \in rows, NEW up \in BOOLEAN, NEW c \in Clients, stored' = c,
                   cli' = [[o \in Clients |-> NoClient] EXCEPT ![c].dev = d, ![c].up = up]
            PROVE  cli'[stored'].dev # None
        BY <3>1 DEF NoClient
      <3> QED BY <1>16, <3>1 DEF Restart
    <2> QED BY <2>2, <2>3 DEF Restoring, RestoresPairing
  <1>17. CASE DisconnectAll
    <2>1. oddities \subseteq oddities' /\ rows' \subseteq rows /\ stored' \in {stored, None}
      BY <1>17 DEF DisconnectAll
    <2>2. \A o \in Clients : \/ cli'[o].deleted
                             \/ cli'[o].dev = cli[o].dev /\ cli'[o].deleted = cli[o].deleted
      <3>1. stored \in Clients /\ cli' = Offline(stored)
        BY <1>17 DEF DisconnectAll
      <3> QED BY <3>1, OfflineFacts
    <2>3. \A q \in Requests : request'[q].pc = "create" => request'[q] = request[q]
      BY <1>17 DEF DisconnectAll
    <2> QED BY <2>1, <2>2, <2>3, RestoringKept
  <1>18. CASE UNCHANGED sessionVars
    <2>1. oddities \subseteq oddities' /\ rows' \subseteq rows /\ stored' \in {stored, None}
      BY <1>18 DEF sessionVars
    <2>2. \A o \in Clients : \/ cli'[o].deleted
                             \/ cli'[o].dev = cli[o].dev /\ cli'[o].deleted = cli[o].deleted
      BY <1>18 DEF sessionVars
    <2>3. \A q \in Requests : request'[q].pc = "create" => request'[q] = request[q]
      BY <1>18 DEF sessionVars
    <2> QED BY <2>1, <2>2, <2>3, RestoringKept
  <1>19. CASE UNCHANGED vars
    <2>1. oddities \subseteq oddities' /\ rows' \subseteq rows /\ stored' \in {stored, None}
      BY <1>19 DEF vars, sessionVars
    <2>2. \A o \in Clients : \/ cli'[o].deleted
                             \/ cli'[o].dev = cli[o].dev /\ cli'[o].deleted = cli[o].deleted
      BY <1>19 DEF vars, sessionVars
    <2>3. \A q \in Requests : request'[q].pc = "create" => request'[q] = request[q]
      BY <1>19 DEF vars, sessionVars
    <2> QED BY <2>1, <2>2, <2>3, RestoringKept
  <1> HIDE DEF SessionTypes
  <1> QED BY <1>1, <1>2, <1>3, <1>4, <1>5, <1>6, <1>7, <1>8, <1>9, <1>10, <1>11,
       <1>12, <1>13, <1>14, <1>15, <1>16, <1>17, <1>18, <1>19, <1>20 DEF Next, Api,
       WhatsApp

(* The invariant holds before the first request ...                        *)
LEMMA SessionInit == Init => SessionInv
  <1> SUFFICES ASSUME Init PROVE SessionInv
    OBVIOUS
  <1>1. /\ cli = [c \in Clients |-> NoClient] /\ stored = None /\ rows = {}
        /\ request = [r \in Requests |-> NoRequest]
        /\ inbox = [c \in Clients |-> <<>>] /\ handling = [c \in Clients |-> None]
        /\ doomed = {} /\ revoked = {}
    BY DEF Init
  <1>2. InboxOK
    BY InitPaces
  <1>3. SessionTypes
    <2>1. cli \in [Clients -> ClientRecords]
      BY <1>1 DEF NoClient, ClientRecords
    <2>2. request \in [Requests -> RequestRecords] /\ \A r \in Requests : request[r].pc = "idle"
      BY <1>1 DEF NoRequest, RequestRecords, ClientSteps
    <2>3. \A c \in Clients : Len(inbox[c]) <= MaxInbox
      BY <1>1, SessionAssumption
    <2> QED BY <1>1, <2>1, <2>2, <2>3 DEF SessionTypes, ClientSteps
  <1>4. Visible
    BY <1>1 DEF Visible, NoClient
  <1>6. CleanersDown
    BY <1>1 DEF CleanersDown, NoRequest
  <1>5. Restoring
    BY <1>1 DEF Restoring, RestoresPairing
  <1> QED BY <1>2, <1>3, <1>4, <1>5, <1>6 DEF SessionInv

(* ... and ever after.                                                     *)
LEMMA SessionInvariance == Spec => []SessionInv
  <1>1. SessionInv /\ [Next]_vars => SessionInv'
    BY InboxNext, SessionTypesNext, VisibleNext, CleanersNext, RestoringNext DEF SessionInv
  <1> QED BY <1>1, SessionInit, PTL DEF Spec

(* The variables hold what they may, those of the pacer included: a        *)
(* handler reads only known events, and no inbox exceeds its bound.        *)
THEOREM SessionTypeCorrect == Spec => []TypeOK
  <1>1. SessionInv /\ PacerTypeOK => TypeOK
    BY DEF SessionInv, SessionTypes, InboxOK, TypeOK, ClientRecords
  <1>2. Spec => []PacerTypeOK
    BY SessionsPace, PacerTypeCorrect, PTL DEF ImplementsPacer
  <1> QED BY <1>1, <1>2, SessionInvariance, PTL

(* With any number of clients and requests, a connected client is the one  *)
(* in the map unless one of the three races has happened, a login between  *)
(* a logout's Disconnect and its clients.Delete among them: those are all  *)
(* there are (client.go 122, 332-387 and 407-415, handler.go 142).         *)
THEOREM NoClientHidden == Spec => []NoHiddenClient
  <1>1. SessionInv => NoHiddenClient
    BY DEF SessionInv, Visible, NoRace, NoHiddenClient
  <1> QED BY <1>1, SessionInvariance, PTL

(* A phone with a device row is never served by a client that has to be    *)
(* paired again, unless a lookup failed or a race happened (client.go      *)
(* 124-131).                                                               *)
THEOREM PairingRestored == Spec => []RestoresPairing
  <1>1. SessionInv => RestoresPairing
    BY DEF SessionInv, Restoring
  <1> QED BY <1>1, SessionInvariance, PTL
=============================================================================
