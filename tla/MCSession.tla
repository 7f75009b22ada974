------------------------------ MODULE MCSession ------------------------------
EXTENDS Session, TLC
CONSTANTS MaxWrites

(* A run either follows one connected session whose account is sent from   *)
(* and banned, with the clock running, or the life of the sessions with    *)
(* the clock stopped and nothing sent.                                     *)
VARIABLES focus, writes

MCInit ==
    /\ writes = 0
    /\ \/ focus = "sessions" /\ Init /\ mode = "pace"
       \/ /\ focus = "sending"
          /\ PacerInit
          /\ \E c \in Clients, d \in Devices :
                /\ cli = [[o \in Clients |-> NoClient] EXCEPT ![c].dev = d, ![c].up = TRUE]
                /\ stored = c /\ rows = {d}
          /\ request = [r \in Requests |-> NoRequest]
          /\ inbox = [c \in Clients |-> <<>>] /\ handling = [c \in Clients |-> None]
          /\ doomed = {} /\ revoked = {} /\ oddities = {}

(* The events of a run, and once a race has happened a run has nothing     *)
(* more to show.                                                           *)
Seen == IF focus = "sending" THEN {"banned", "banned_open", "timelock"}
        ELSE {"logged_out", "stream_replaced", "timelock", "connected", "disconnected"}

MCNext ==
    /\ Next
    /\ UNCHANGED focus
    /\ writes' = IF status' = status \/ focus = "sessions" THEN writes ELSE writes + 1
    /\ \A c \in Clients : \A i \in DOMAIN inbox'[c] : inbox'[c][i] \in Seen
    /\ focus = "sessions" =>
           /\ UNCHANGED <<clock, call>>
           /\ oddities = {}
           /\ status'.state \in {"none", "logged_out"}
    /\ focus = "sending" =>
           /\ UNCHANGED <<request, doomed, stored>>
           /\ mode # "pace" => UNCHANGED sessionVars
           /\ mode = "pace" =>
                 \A c \in Callers : call'[c].pc # "idle" => call'[c].to \in Recipients
           /\ writes = MaxWrites => UNCHANGED <<status, inbox>>
           /\ \A c \in Clients : cli[c].up /\ ~cli'[c].up => inbox' # inbox

MCSpec == MCInit /\ [][MCNext]_<<vars, focus, writes>>

Symmetry ==
    Permutations(Clients) \cup Permutations(Devices) \cup
    Permutations(Requests) \cup Permutations(Callers)
=============================================================================
