--------------------------- MODULE OfflinePromise ---------------------------
(***************************************************************************)
(* What offline synchronisation promises of the changes people make,       *)
(* without devices, queues, posts, replays, a ledger or faults: they are   *)
(* made one after another; each one made offline waits until it is         *)
(* confirmed or withdrawn, for good; only what was answered is confirmed;  *)
(* and an answer is the one given before, while nothing crowds the server. *)
(* A change made while others are being answered is unsure until it waits  *)
(* like the rest: the answer of those others may lose it, and nothing else *)
(* loses a change.                                                         *)
(***************************************************************************)
EXTENDS Integers

CONSTANTS MaxChanges, Statuses

VARIABLES
    place,    \* "unmade", "online", "waiting", "unsure", "lost", "confirmed" or "dropped"
    answers,  \* what each change was ever answered
    crowded   \* did anything overlap with a replay?

vars == <<place, answers, crowded>>
Changes == 1..MaxChanges

Init ==
    /\ place = [n \in Changes |-> "unmade"]
    /\ answers = [n \in Changes |-> {}]
    /\ crowded = FALSE

\* The next change is made, without a connection or with one.
Make(n, where) ==
    /\ place[n] = "unmade" /\ \A k \in Changes : k < n => place[k] # "unmade"
    /\ place' = [place EXCEPT ![n] = where]
    /\ answers' = answers
Take(n) == (Make(n, "waiting") \/ Make(n, "unsure")) /\ crowded' = crowded
Online(n) == Make(n, "online") /\ crowded' \in {crowded, TRUE}

Crowd ==
    /\ crowded' = TRUE
    /\ UNCHANGED <<place, answers>>

\* The server answers some of the changes made offline, whatever became of them since.
Answer ==
    /\ answers' \in [Changes -> SUBSET Statuses]
    /\ \A n \in Changes : answers'[n] # answers[n] =>
        /\ place[n] \in {"waiting", "confirmed", "dropped"}
        /\ \E a \in Statuses : answers'[n] = answers[n] \cup {a}
        /\ crowded \/ answers[n] = {}
    /\ UNCHANGED <<place, crowded>>

\* Some of those in one place go to another and nothing else changes.
Move(some, from, to) ==
    /\ \A n \in some : place[n] \in from
    /\ place' = [n \in Changes |-> IF n \in some THEN to ELSE place[n]]
    /\ UNCHANGED <<answers, crowded>>
Withdraw(some) == Move(some, {"waiting", "unsure"}, "dropped")
Keep(some) == Move(some, {"unsure"}, "waiting")

\* What was answered is confirmed, and what was made meanwhile is lost.
Confirm(some, late) ==
    /\ \A n \in some : place[n] = "waiting" /\ answers[n] # {}
    /\ \A n \in late : place[n] = "unsure"
    /\ place' = [n \in Changes |-> IF n \in some THEN "confirmed"
                                   ELSE IF n \in late THEN "lost" ELSE place[n]]
    /\ UNCHANGED <<answers, crowded>>

Next ==
    \/ \E n \in Changes : Take(n) \/ Online(n)
    \/ Crowd \/ Answer
    \/ \E some \in SUBSET Changes : Withdraw(some) \/ Keep(some)
    \/ \E some, late \in SUBSET Changes : Confirm(some, late)

Spec == Init /\ [][Next]_vars
=============================================================================
