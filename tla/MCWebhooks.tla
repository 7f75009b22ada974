----------------------------- MODULE MCWebhooks -----------------------------
EXTENDS Webhooks, TLC
CONSTANTS u1, u2, m1

(* One destination asks for everything, the other for messages only.       *)
MCFilter == u1 :> {} @@ u2 :> {"message"}

(* A run either fills the ring buffer with the queue down, or follows the  *)
(* deliveries of one message or of one lifecycle event, or those of a      *)
(* message that another account receives as well, without other faults.    *)
VARIABLE focus

MCInit ==
    /\ Init
    /\ \/ focus = "buffer" /\ ~up
       \/ focus \in {"message", "session", "shared"}

MCNext ==
    /\ Next
    /\ UNCHANGED focus
    /\ focus = "buffer" => ~up'
    /\ focus \in {"message", "shared"} => arrived' \subseteq {m1}
    /\ focus = "session" => arrived' \subseteq Sessions
    /\ focus = "shared" => faults' = 0
    /\ (\E m \in Messages, u \in Urls \cup {NoUrl} : OtherAccount(m, u)) =>
           focus = "shared" /\ excused' \subseteq {m1} \X Urls

MCSpec == MCInit /\ [][MCNext]_<<vars, focus>> /\ Fairness
=============================================================================
