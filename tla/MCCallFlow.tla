------------------------------ MODULE MCCallFlow ------------------------------
(* Small instances of CallFlow. *)
EXTENDS CallFlow, TLC

CONSTANTS ana, beto, carla, direct, group

\* One direct conversation.
DirectMembers == [k \in Convs |-> {ana, beto}]
DirectKind == [k \in Convs |-> "direct"]
DirectSymmetry == Permutations(Tabs) \cup Permutations(Procs)

\* Ana calls Beto from any of her tabs and nobody has answered yet: the call is
\* in, its effects have run and its ring timer is armed.
RingingInit ==
    /\ \E t \in Tabs : calls = [c \in Calls |-> NewCall(direct, "direct", ana, t, {beto}, {})]
    /\ activeCall = [k \in Convs |-> CHOOSE c \in Calls : TRUE]
    /\ messages = [c \in Calls |-> "none"]
    /\ notified = [c \in Calls |-> {}]
    /\ intervals = [c \in Calls |-> [u \in Users |-> 0]]
    /\ due = {} /\ ringTimers = Calls
    /\ frames = [p \in Procs \cup {Sweeper} |-> Idle]
    /\ graceTimers = [c \in Calls |-> [u \in Users |-> NoTab]]
    /\ presence = [c \in Calls |-> [u \in Users |-> Unseen]]
    /\ room = [c \in Calls |-> {}]
    /\ pass = NoPass /\ asked = 0 /\ faults = 0
    /\ joins = [c \in Calls |-> [u \in Users |-> IF u = ana THEN 1 ELSE 0]]
\* A request later: Beto has answered, the ring timer is gone and Ana's socket has just
\* been lost, so her grace timer is armed.
LostInit ==
    /\ \E t, s \in Tabs : calls = [c \in Calls |->
            Written(NewCall(direct, "direct", ana, t, {beto}, {}), [type |-> "accept", user |-> beto, tab |-> s])]
    /\ activeCall = [k \in Convs |-> CHOOSE c \in Calls : TRUE]
    /\ messages = [c \in Calls |-> "none"]
    /\ notified = [c \in Calls |-> {}]
    /\ intervals = [c \in Calls |-> [u \in Users |-> 0]]
    /\ due = {} /\ ringTimers = {}
    /\ frames = [p \in Procs \cup {Sweeper} |-> Idle]
    /\ graceTimers = [c \in Calls |-> [u \in Users |-> IF u = ana THEN calls[c].legs[u].tab ELSE NoTab]]
    /\ presence = [c \in Calls |-> [u \in Users |-> [Unseen EXCEPT !.tab = graceTimers[c][u]]]]
    /\ room = [c \in Calls |-> {}]
    /\ pass = NoPass /\ asked = 1 /\ faults = 0
    /\ joins = [c \in Calls |-> [u \in Users |-> 1]]
RingingSpec == (RingingInit \/ LostInit) /\ [][Next]_vars

\* One group.
GroupMembers == [k \in Convs |-> {ana, beto, carla}]
GroupKind == [k \in Convs |-> "group"]
GroupSymmetry == Permutations(Users) \cup Permutations(Procs)

\* Two direct conversations of Ana's.
TwoMembers == [k \in Convs |-> IF k = direct THEN {ana, beto} ELSE {ana, carla}]
TwoKind == [k \in Convs |-> "direct"]
\* Beto and his conversation may be swapped for Carla and hers.
Swapped == [x \in {beto, carla, direct, group} |->
    CASE x = beto -> carla [] x = carla -> beto [] x = direct -> group [] x = group -> direct]
TwoSymmetry == Permutations(Procs) \cup Permutations(Calls) \cup {Swapped}

\* Three requests and a restart later: Ana and Beto are talking, Carla's call rings
\* Ana, whose leg waits, and one request is left (an answer of Ana's leaves Beto).
BusyInit ==
    /\ \E f \in [Convs -> Calls], t \in Tabs :
        /\ f[direct] # f[group]
        /\ activeCall = f
        /\ calls = [c \in Calls |->
            IF c = f[direct]
            THEN Written(NewCall(direct, "direct", ana, t, {beto}, {}), [type |-> "accept", user |-> beto, tab |-> t])
            ELSE NewCall(group, "direct", carla, t, {ana}, {ana})]
    /\ messages = [c \in Calls |-> "none"]
    /\ notified = [c \in Calls |-> {}]
    /\ intervals = [c \in Calls |-> [u \in Users |-> 0]]
    /\ due = {} /\ ringTimers = {}
    /\ frames = [p \in Procs \cup {Sweeper} |-> Idle]
    /\ graceTimers = [c \in Calls |-> [u \in Users |-> NoTab]]
    /\ presence = [c \in Calls |-> [u \in Users |-> Unseen]]
    /\ room = [c \in Calls |-> {}]
    /\ pass = NoPass /\ asked = MaxRequests - 1 /\ faults = MaxFaults
    /\ joins = [c \in Calls |-> [u \in Users |-> IF u \in Joined(calls[c]) THEN 1 ELSE 0]]
RedialSpec == (Init \/ BusyInit) /\ [][Next]_vars
=============================================================================
