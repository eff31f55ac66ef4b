----------------------------- MODULE CallLifecycle -----------------------------
(***************************************************************************)
(* What the calls of the chat promise, without requests, retries or        *)
(* effects: a call rings, is answered and ends for good; a conversation    *)
(* has one live call; each person holds one seat from one tab; and a call  *)
(* that ended is logged at most once, with the outcome it ended with.      *)
(***************************************************************************)
EXTENDS Naturals

CONSTANTS Calls, Convs, Users, Tabs, NoTab, NoConv, Outcomes

VARIABLES
    phase,    \* "none", "ringing", "active" or "ended"
    conv,     \* the conversation of the call
    seat,     \* the tab each person is in the call from
    outcome,  \* how it ended
    log       \* what its conversation says of it

vars == <<phase, conv, seat, outcome, log>>
Live(c) == phase[c] \in {"ringing", "active"}

Init ==
    /\ phase = [c \in Calls |-> "none"]
    /\ conv = [c \in Calls |-> NoConv]
    /\ seat = [c \in Calls |-> [u \in Users |-> NoTab]]
    /\ outcome = [c \in Calls |-> "none"]
    /\ log = [c \in Calls |-> "none"]

Start(c, k, u, t) ==
    /\ phase[c] = "none" /\ \A d \in Calls : Live(d) => conv[d] # k
    /\ phase' = [phase EXCEPT ![c] = "ringing"]
    /\ conv' = [conv EXCEPT ![c] = k]
    /\ seat' = [seat EXCEPT ![c] = [w \in Users |-> IF w = u THEN t ELSE NoTab]]
    /\ UNCHANGED <<outcome, log>>

Enter(c, u, t) ==
    /\ Live(c) /\ seat[c][u] = NoTab
    /\ phase' = [phase EXCEPT ![c] = "active"]
    /\ seat' = [seat EXCEPT ![c] = [w \in Users |-> IF w = u THEN t ELSE seat[c][w]]]
    /\ UNCHANGED <<conv, outcome, log>>

\* Some of those in an active call go and somebody stays.
Exit(c, gone) ==
    /\ phase[c] = "active"
    /\ \E u \in Users \ gone : seat[c][u] # NoTab
    /\ seat' = [seat EXCEPT ![c] = [w \in Users |-> IF w \in gone THEN NoTab ELSE seat[c][w]]]
    /\ UNCHANGED <<phase, conv, outcome, log>>

End(c, o) ==
    /\ Live(c)
    /\ phase' = [phase EXCEPT ![c] = "ended"]
    /\ seat' = [seat EXCEPT ![c] = [w \in Users |-> NoTab]]
    /\ outcome' = [outcome EXCEPT ![c] = o]
    /\ UNCHANGED <<conv, log>>

Log(c) ==
    /\ phase[c] = "ended" /\ log[c] = "none"
    /\ log' = [log EXCEPT ![c] = outcome[c]]
    /\ UNCHANGED <<phase, conv, seat, outcome>>

Next == \E c \in Calls :
    \/ \E k \in Convs, u \in Users, t \in Tabs : Start(c, k, u, t)
    \/ \E u \in Users, t \in Tabs : Enter(c, u, t)
    \/ \E gone \in SUBSET Users : Exit(c, gone)
    \/ \E o \in Outcomes : End(c, o)
    \/ Log(c)

Spec == Init /\ [][Next]_vars
=============================================================================
