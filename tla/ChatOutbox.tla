------------------------------ MODULE ChatOutbox ------------------------------
(***************************************************************************)
(* What the scheduled messages of one author promise, without passes,      *)
(* claims, retries, files or faults: each row waits until it is delivered, *)
(* refused or withdrawn, for good; a request is posted once at most, for a *)
(* row that waits; and only what was posted is said to be delivered.       *)
(***************************************************************************)
EXTENDS Sequences

CONSTANTS Rows, Clients

VARIABLES
    box,  \* "unasked", "waiting", "delivered", "refused" or "withdrawn"
    of,   \* the request of each row
    log   \* the requests in the thread, in order

vars == <<box, of, log>>
Posted(c) == \E i \in DOMAIN log : log[i] = c

Init ==
    /\ box = [r \in Rows |-> "unasked"]
    /\ of \in [Rows -> Clients]
    /\ log = <<>>

\* The row goes from one state to another and nothing else changes.
Moves(r, from, to) ==
    /\ box[r] = from /\ box' = [box EXCEPT ![r] = to]
    /\ UNCHANGED <<of, log>>

Ask(r) == Moves(r, "unasked", "waiting")

Post(r) ==
    /\ box[r] = "waiting" /\ ~Posted(of[r])
    /\ log' = Append(log, of[r])
    /\ UNCHANGED <<box, of>>

Deliver(r) == Posted(of[r]) /\ Moves(r, "waiting", "delivered")
Refuse(r) == Moves(r, "waiting", "refused")
Withdraw(r) == Moves(r, "waiting", "withdrawn")

Next == \E r \in Rows : Ask(r) \/ Post(r) \/ Deliver(r) \/ Refuse(r) \/ Withdraw(r)

Spec == Init /\ [][Next]_vars
===============================================================================
