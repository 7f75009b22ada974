------------------------------- MODULE Session -------------------------------
(***************************************************************************)
(* The WhatsApp session of one phone number: the clients map of            *)
(* client_store.go, InitClient, logins and logout of client.go, the        *)
(* lifecycle events of handler.go, the restore of manager.go and the       *)
(* inventory of session_inventory.go, composed with the outbound pacer,    *)
(* whose ban gate reads the status row the lifecycle events write.         *)
(*                                                                         *)
(* The map holds at most one client per phone, and every handler finds it  *)
(* by phone: a client that was replaced in the map may still be running    *)
(* and its events still arrive.  Device ids stand for JIDs.  The behaviour *)
(* of whatsmeow and of the server is external.                             *)
(***************************************************************************)
EXTENDS Pacer, Sequences

CONSTANTS
    Clients,        \* whatsmeow.Client objects that exist at the same time
    Devices,        \* device identities
    Requests,       \* API requests under way
    None,           \* no client, no device (a nil pointer)
    BanLength,      \* how long a ban with a reported end lasts
    MaxInbox        \* bound: events of a client not yet handled

ASSUME SessionAssumption ==
    /\ None \notin Clients \cup Devices
    /\ BanLength \in Nat /\ MaxInbox \in Nat \ {0}

VARIABLES
    cli,            \* client -> device, connected, reconnecting by itself, device deleted
    stored,         \* the phone's entry of the clients map
    rows,           \* device rows of the phone in the database
    request,        \* request -> step, and the client or device it has read
    inbox,          \* client -> events dispatched and not yet handled
    handling,       \* client -> the event whose handler has yet to evict
    doomed,         \* clients whose device whatsmeow is about to delete
    revoked,        \* devices the server has logged out: it accepts them no more
    oddities        \* history: the races that have happened

sessionVars == <<cli, stored, rows, request, inbox, handling, doomed, revoked, oddities>>
vars == <<allPacerVars, sessionVars>>

NoClient == [dev |-> None, up |-> FALSE, retry |-> FALSE, deleted |-> FALSE]
NoRequest == [pc |-> "idle", client |-> None, dev |-> None]
Evicting == {"logged_out", "banned", "banned_open", "stream_replaced"}
Events == Evicting \cup {"connect_failure", "timelock", "timelock_cleared", "connected", "disconnected"}

(* A client object nobody refers to any more, to be made anew.             *)
Unused(c) ==
    /\ stored # c /\ ~cli[c].up /\ ~cli[c].retry /\ c \notin doomed
    /\ inbox[c] = <<>> /\ handling[c] = None
    /\ \A r \in Requests : request[r].client # c
FreshDevice(d) == d \notin rows /\ \A c \in Clients : cli[c].dev # d

Emit(c, e) == inbox' = [inbox EXCEPT ![c] = Append(@, e)]
HasRoom(c) == Len(inbox[c]) < MaxInbox

(* A client without a connection, and c connected: another client on the   *)
(* same device loses its stream.                                           *)
Offline(c) == [cli EXCEPT ![c].up = FALSE, ![c].retry = FALSE]
GoesUp(c) ==
    LET rivals == {o \in Clients \ {c} : cli[o].up /\ cli[o].dev # None /\ cli[o].dev = cli[c].dev} IN
    /\ cli[c].dev \notin revoked
    /\ \A o \in rivals : HasRoom(o)
    /\ cli' = [o \in Clients |-> IF o = c THEN [cli[o] EXCEPT !.up = TRUE, !.retry = FALSE]
                                 ELSE IF o \in rivals THEN [cli[o] EXCEPT !.up = FALSE]
                                 ELSE cli[o]]
    /\ inbox' = [o \in Clients |-> IF o \in rivals THEN Append(inbox[o], "stream_replaced")
                                   ELSE inbox[o]]

(* History: a race has happened.                                           *)
Note(race, happened) == oddities' = IF happened THEN oddities \cup {race} ELSE oddities
CleanupDue(c) == \E r \in Requests : request[r].pc \in {"wipe", "evict"} /\ request[r].client = c
EvictionDue(c) == handling[c] # None \/ \E i \in DOMAIN inbox[c] : inbox[c][i] \in Evicting

(* clients.Delete(phoneNumber) on behalf of c: whichever client the phone  *)
(* has by now is out of the map.                                           *)
EvictFor(c) == stored' = None /\ Note("wrong client evicted", stored \notin {None, c})

-----------------------------------------------------------------------------
(* InitClient, through RegisterClient                                      *)

(* The map is looked at first ...                                          *)
RegisterClient(r) ==
    /\ request[r].pc = "idle"
    /\ stored = None
    /\ request' = [request EXCEPT ![r].pc = "lookup"]
    /\ UNCHANGED <<allPacerVars, cli, stored, rows, inbox, handling, doomed, oddities, revoked>>

(* Mutant: a registered phone always gets a new device.                    *)
findDeviceByPhone_never(r) ==
    /\ request[r].pc = "lookup"
    /\ request' = [request EXCEPT ![r].pc = "create", ![r].dev = None]
    /\ UNCHANGED <<allPacerVars, cli, stored, rows, inbox, handling, doomed, oddities, revoked>>

(* ... then the device rows: a paired device is restored, and a lookup     *)
(* that fails is taken for none ...                                        *)
findDeviceByPhone(r) ==
    /\ request[r].pc = "lookup"
    /\ \/ \E d \in (IF rows = {} THEN {None} ELSE rows) :
             /\ request' = [request EXCEPT ![r].pc = "create", ![r].dev = d]
             /\ UNCHANGED oddities
       \/ /\ request' = [request EXCEPT ![r].pc = "create", ![r].dev = None]
          /\ oddities' = oddities \cup {"lookup failed"}
    /\ UNCHANGED <<allPacerVars, cli, stored, rows, inbox, handling, doomed, revoked>>

(* ... and the new client is put in the map, whatever is there by now.     *)
InitClient(r, c) ==
    /\ request[r].pc = "create"
    /\ Unused(c)
    /\ cli' = [cli EXCEPT ![c] = [NoClient EXCEPT !.dev = request[r].dev]]
    /\ stored' = c
    /\ request' = [request EXCEPT ![r] = NoRequest]
    /\ Note("two inits", stored # None)
    /\ UNCHANGED <<allPacerVars, rows, inbox, handling, doomed, revoked>>

-----------------------------------------------------------------------------
(* Login, reconnect and logout act on the client they have read            *)

Begin(r, step) ==
    /\ request[r].pc = "idle"
    /\ stored # None
    /\ request' = [request EXCEPT ![r].pc = step, ![r].client = stored]
    /\ UNCHANGED <<allPacerVars, cli, stored, rows, inbox, handling, doomed, oddities, revoked>>

(* LoginQRCode, LoginPairCode and Reconnect: disconnect, then connect.  A  *)
(* deleted device fails for good and the phone's entry is to be evicted;   *)
(* other failures leave it.                                                *)
Connect(r) ==
    LET c == request[r].client IN
    /\ request[r].pc = "connect"
    /\ \/ /\ cli[c].deleted
          /\ cli' = Offline(c)
          /\ request' = [request EXCEPT ![r].pc = "evict"]
          /\ UNCHANGED <<inbox, oddities>>
       \/ /\ ~cli[c].deleted
          /\ GoesUp(c)
          /\ Note("stale pointer", stored # c \/ EvictionDue(c) \/ CleanupDue(c))
          /\ request' = [request EXCEPT ![r] = NoRequest]
       \/ /\ ~cli[c].deleted
          /\ cli' = Offline(c)
          /\ request' = [request EXCEPT ![r] = NoRequest]
          /\ UNCHANGED <<inbox, oddities>>
    /\ UNCHANGED <<allPacerVars, stored, rows, handling, doomed, revoked>>

(* Mutant: the local cleanup does not disconnect.                          *)
Logout_stillUp(r) ==
    /\ request[r].pc = "logout"
    /\ request' = [request EXCEPT ![r].pc = "wipe"]
    /\ UNCHANGED <<allPacerVars, cli, stored, rows, inbox, handling, doomed, oddities, revoked>>

(* Logout: the server is told, the device is deleted and the client stays  *)
(* in the map; when the server cannot be told, the client is disconnected, *)
(* and the cleanup goes on from there ...                                  *)
Logout(r) ==
    LET c == request[r].client IN
    /\ request[r].pc = "logout"
    /\ \/ /\ cli[c].up /\ cli[c].dev # None
          /\ cli' = [cli EXCEPT ![c] = [NoClient EXCEPT !.deleted = TRUE]]
          /\ rows' = rows \ {cli[c].dev}
          /\ request' = [request EXCEPT ![r] = NoRequest]
       \/ /\ cli' = Offline(c)
          /\ request' = [request EXCEPT ![r].pc = "wipe"]
          /\ UNCHANGED rows
    /\ UNCHANGED <<allPacerVars, stored, inbox, handling, doomed, oddities, revoked>>

(* ... with the deletion of its device, which may fail ...                 *)
LogoutWipe(r) ==
    LET c == request[r].client IN
    /\ request[r].pc = "wipe"
    /\ request' = [request EXCEPT ![r].pc = "evict"]
    /\ \/ /\ cli[c].dev # None
          /\ cli' = [cli EXCEPT ![c].dev = None, ![c].deleted = TRUE]
          /\ rows' = rows \ {cli[c].dev}
       \/ UNCHANGED <<cli, rows>>
    /\ UNCHANGED <<allPacerVars, stored, inbox, handling, doomed, oddities, revoked>>

(* ... and the phone's entry, as after a login on a deleted device.        *)
EvictEntry(r) ==
    /\ request[r].pc = "evict"
    /\ request' = [request EXCEPT ![r] = NoRequest]
    /\ EvictFor(request[r].client)
    /\ UNCHANGED <<allPacerVars, cli, rows, inbox, handling, doomed, revoked>>

-----------------------------------------------------------------------------
(* whatsmeow and the server                                                *)

(* The user scans the code: a device row appears.                          *)
Pair(c, d) ==
    /\ cli[c].up /\ cli[c].dev = None /\ ~cli[c].deleted
    /\ FreshDevice(d) /\ HasRoom(c)
    /\ cli' = [cli EXCEPT ![c].dev = d]
    /\ rows' = rows \cup {d} /\ revoked' = revoked \ {d}
    /\ Emit(c, "connected")
    /\ Note("paired during init", \E r \in Requests : request[r].pc = "create")
    /\ UNCHANGED <<allPacerVars, stored, request, handling, doomed>>

(* The session ends on the server: the event is dispatched while the       *)
(* device is being deleted.                                                *)
ServerLogout(c) ==
    /\ cli[c].up /\ cli[c].dev # None /\ HasRoom(c)
    /\ cli' = [cli EXCEPT ![c].up = FALSE]
    /\ doomed' = doomed \cup {c} /\ revoked' = revoked \cup {cli[c].dev}
    /\ Emit(c, "logged_out")
    /\ UNCHANGED <<allPacerVars, stored, rows, request, handling, oddities>>

StoreDelete(c) ==
    /\ c \in doomed
    /\ doomed' = doomed \ {c}
    /\ rows' = rows \ {cli[c].dev}
    /\ cli' = [cli EXCEPT ![c] = [NoClient EXCEPT !.deleted = TRUE]]
    /\ UNCHANGED <<allPacerVars, stored, request, inbox, handling, oddities, revoked>>

(* Events that end the connection, and the ones that do not.               *)
Ban(c, e) ==
    /\ e \in {"banned", "banned_open"}
    /\ cli[c].up /\ cli[c].dev # None /\ HasRoom(c)
    /\ cli' = [cli EXCEPT ![c].up = FALSE]
    /\ Emit(c, e)
    /\ UNCHANGED <<allPacerVars, stored, rows, request, handling, doomed, oddities, revoked>>

Drop(c, e) ==
    /\ e \in {"connect_failure", "disconnected"}
    /\ cli[c].up /\ HasRoom(c)
    /\ cli' = [cli EXCEPT ![c].up = FALSE, ![c].retry = TRUE]
    /\ Emit(c, e)
    /\ UNCHANGED <<allPacerVars, stored, rows, request, handling, doomed, oddities, revoked>>

(* EnableAutoReconnect.                                                    *)
AutoReconnect(c) ==
    /\ cli[c].retry
    /\ GoesUp(c)
    /\ UNCHANGED <<allPacerVars, stored, rows, request, handling, doomed, oddities, revoked>>

Timelock(c, e) ==
    /\ e \in {"timelock", "timelock_cleared"}
    /\ cli[c].up /\ cli[c].dev # None /\ HasRoom(c)
    /\ Emit(c, e)
    /\ UNCHANGED <<allPacerVars, cli, stored, rows, request, handling, doomed, oddities, revoked>>

-----------------------------------------------------------------------------
(* HandleEvent                                                             *)

(* Mutant: the row's updated_at is not written again.                      *)
Row_keepStamp(state, open, until) ==
    [state |-> state, open |-> open, until |-> until, at |-> status.at]

Row(state, open, until) == [state |-> state, open |-> open, until |-> until, at |-> clock]
RowOf(e) ==
    CASE e = "logged_out" -> Row("logged_out", FALSE, 0)
      [] e = "banned" -> Row("banned", FALSE, clock + BanLength)
      [] e = "banned_open" -> Row("banned", TRUE, 0)
      [] e = "timelock" -> Row("reachout_timelocked", FALSE, 0)
      [] e = "timelock_cleared" -> Row("connected", FALSE, 0)
      [] e \in {"connect_failure", "stream_replaced"} -> Row("disconnected", FALSE, 0)

(* The row is written (a failed write is only logged); connected and       *)
(* disconnected write none.  Eviction, where it follows, is a later step.  *)
HandleEvent(c) ==
    LET e == Head(inbox[c]) IN
    /\ inbox[c] # <<>> /\ handling[c] = None
    /\ inbox' = [inbox EXCEPT ![c] = Tail(@)]
    /\ \/ e \notin {"connected", "disconnected"} /\ status' = RowOf(e)
       \/ UNCHANGED status
    /\ handling' = IF e \in Evicting THEN [handling EXCEPT ![c] = e] ELSE handling
    /\ UNCHANGED <<pacerVars, cli, stored, rows, request, doomed, oddities, revoked>>

Evict(c) ==
    /\ handling[c] # None
    /\ handling' = [handling EXCEPT ![c] = None]
    /\ EvictFor(c)
    /\ UNCHANGED <<allPacerVars, cli, rows, request, inbox, doomed, revoked>>

-----------------------------------------------------------------------------
(* NewManager after a restart: the device rows are restored and connected. *)
Restart ==
    /\ RestartPacer
    /\ inbox' = [c \in Clients |-> <<>>] /\ handling' = [c \in Clients |-> None]
    /\ request' = [r \in Requests |-> NoRequest]
    /\ doomed' = {} /\ oddities' = {}
    /\ \/ rows = {} /\ stored' = None /\ cli' = [c \in Clients |-> NoClient]
       \/ \E d \in rows, up \in BOOLEAN :
             \E c \in Clients :
                /\ up => d \notin revoked
                /\ stored' = c
                /\ cli' = [[o \in Clients |-> NoClient] EXCEPT ![c].dev = d, ![c].up = up]
    /\ UNCHANGED <<status, rows, revoked>>

(* DisconnectAll at shutdown reaches the clients in the map.               *)
DisconnectAll ==
    /\ stored # None
    /\ cli' = Offline(stored)
    /\ UNCHANGED <<allPacerVars, stored, rows, request, inbox, handling, doomed, oddities, revoked>>

(* The state the inventory reports for the phone.                          *)
deriveItem ==
    LET banUnexpired == status.state = "banned" /\ (status.open \/ status.until > clock) IN
    IF status.state = "logged_out" \/ banUnexpired THEN status.state
    ELSE IF stored # None
    THEN IF cli[stored].dev = None THEN "never_paired"
         ELSE IF cli[stored].up THEN "connected" ELSE "disconnected"
    ELSE IF status.state \in {"banned", "none"} THEN "disconnected" ELSE status.state

-----------------------------------------------------------------------------
Init ==
    /\ PacerInit
    /\ cli = [c \in Clients |-> NoClient] /\ stored = None /\ rows = {}
    /\ request = [r \in Requests |-> NoRequest]
    /\ inbox = [c \in Clients |-> <<>>] /\ handling = [c \in Clients |-> None]
    /\ doomed = {} /\ revoked = {} /\ oddities = {}

Api ==
    \E r \in Requests :
        \/ RegisterClient(r)
        \/ findDeviceByPhone(r)
        \/ \E c \in Clients : InitClient(r, c)
        \/ \E step \in {"connect", "logout"} : Begin(r, step)
        \/ Connect(r)
        \/ Logout(r)
        \/ LogoutWipe(r)
        \/ EvictEntry(r)

WhatsApp ==
    \E c \in Clients :
          \/ \E d \in Devices : Pair(c, d)
          \/ ServerLogout(c)
          \/ StoreDelete(c)
          \/ AutoReconnect(c)
          \/ \E e \in Events : Ban(c, e) \/ Drop(c, e) \/ Timelock(c, e)
          \/ HandleEvent(c)
          \/ Evict(c)

Next ==
    \/ Api
    \/ WhatsApp
    \/ Restart
    \/ DisconnectAll
    \/ (WaitSteps \/ Tick) /\ UNCHANGED sessionVars

Spec == Init /\ [][Next]_vars

-----------------------------------------------------------------------------
(* Properties                                                              *)

(* The variables hold what they may.                                       *)
TypeOK ==
    /\ PacerTypeOK
    /\ cli \in [Clients -> [dev : Devices \cup {None}, up : BOOLEAN,
                        retry : BOOLEAN, deleted : BOOLEAN]]
    /\ stored \in Clients \cup {None}
    /\ rows \subseteq Devices /\ doomed \subseteq Clients /\ revoked \subseteq Devices
    /\ \A c \in Clients :
          /\ handling[c] \in Evicting \cup {None}
          /\ Len(inbox[c]) <= MaxInbox /\ \A i \in DOMAIN inbox[c] : inbox[c][i] \in Events

(* A connected client is the one in the map, where login, logout and       *)
(* shutdown find it, unless one of three races has happened: two InitClient *)
(* calls passed the check (client.go 122), a handler or an error evicted a *)
(* client it was not about (handler.go 142), or a request connected the    *)
(* client it had read although that was evicted or about to be, by an      *)
(* event or by a logout between its Disconnect and its clients.Delete      *)
(* (client.go 407-415).                                                    *)
NoHiddenClient ==
    oddities \cap {"two inits", "wrong client evicted", "stale pointer"} = {}
        => \A c \in Clients : cli[c].up => c = stored

(* A phone that has a device row is never served by a client that would    *)
(* have to be paired again, unless the lookup failed or a race happened    *)
(* (client.go 124-131: a persisted session is restored, not orphaned).     *)
RestoresPairing ==
    oddities = {} /\ stored # None =>
        (cli[stored].dev = None /\ ~cli[stored].deleted => rows = {})

(* The inventory is honest about a session that works: once no event is    *)
(* waiting, with no ban recorded and no race behind it, a paired and       *)
(* connected client is reported as connected (session_inventory.go 21).    *)
InventoryHonest ==
    /\ oddities = {} /\ stored # None /\ status.state # "banned"
    /\ \A c \in Clients : inbox[c] = <<>> /\ handling[c] = None
    => (cli[stored].up /\ cli[stored].dev # None => deriveItem = "connected")

(* Sessions and sends together are a pacer whose status row is written by  *)
(* somebody.                                                               *)
ImplementsPacer == PacerSpec
=============================================================================
