--------------------------------- MODULE Rpc ---------------------------------
(* What method calls promise, whatever the messages look like: a call is        *)
(* answered at most once, and only after it was made; one that waits for its    *)
(* answer gets it in the end or is lost: alone, when its result cannot be       *)
(* written, or with others, when the caller or the service comes to an end.     *)
CONSTANT Calls
VARIABLE status   \* [Calls -> {"idle", "waiting", "oneway", "answered", "lost"}]

Init == status = [c \in Calls |-> "idle"]

Becomes(c, s) == status' = [status EXCEPT ![c] = s]

Issue(c)  == status[c] = "idle" /\ \E s \in {"waiting", "oneway"} : Becomes(c, s)
Answer(c) == status[c] \in {"waiting", "oneway"} /\ Becomes(c, "answered")
Lose(S)   == /\ S # {} /\ \A c \in S : status[c] = "waiting"
             /\ status' = [c \in Calls |-> IF c \in S THEN "lost" ELSE status[c]]

Next == \/ \E c \in Calls : Issue(c) \/ Answer(c)
        \/ \E S \in SUBSET Calls : Lose(S)

Settles(c) == status[c] = "waiting" /\ (Answer(c) \/ Lose({c}))

Spec == Init /\ [][Next]_status /\ \A c \in Calls : WF_status(Settles(c))
===============================================================================
