-------------------------- MODULE AtLeastOnceQueue --------------------------
(***************************************************************************)
(* What the queue package promises to its callers, with the broker, the    *)
(* workers and the connection hidden: a message that was accepted stays    *)
(* owed until some handler has concluded it, and a message that is no      *)
(* longer owed never comes back.  Being concluded more than once, or being *)
(* owed again after a conclusion, is allowed (delivery is at least once).  *)
(***************************************************************************)
CONSTANT Msgs

VARIABLES accepted,   \* messages the broker has stored at least once
          owed,       \* messages of which the broker still has a copy
          concluded   \* messages some handler run has disposed of

vars == <<accepted, owed, concluded>>

Init == /\ accepted = {}
        /\ owed = {}
        /\ concluded = {}

Accept(m) == /\ m \notin accepted
             /\ accepted' = accepted \cup {m}
             /\ owed' = owed \cup {m}
             /\ UNCHANGED concluded

Conclude(m) == /\ m \in accepted
               /\ concluded' = concluded \cup {m}
               /\ UNCHANGED <<accepted, owed>>

Release(m) == /\ m \in owed \cap concluded
              /\ owed' = owed \ {m}
              /\ UNCHANGED <<accepted, concluded>>

Next == \E m \in Msgs : Accept(m) \/ Conclude(m) \/ Release(m)

Spec == Init /\ [][Next]_vars
=============================================================================
