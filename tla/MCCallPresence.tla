---------------------------- MODULE MCCallPresence ----------------------------
(* A direct call of two people with their sockets. *)
EXTENDS CallPresence, TLC

CONSTANTS ana, beto, direct

DirectMembers == [k \in Convs |-> {ana, beto}]
DirectKind == [k \in Convs |-> "direct"]
DirectSymmetry == Permutations(Tabs) \cup Permutations(Procs) \cup Permutations(Users)

\* From a call both have just answered, before anybody attaches.
Answered == Written(
    NewCall(direct, "direct", ana, CHOOSE t \in Tabs : TRUE, {beto}, {}),
    [type |-> "accept", user |-> beto, tab |-> CHOOSE t \in Tabs : TRUE])
AnsweredInit ==
    /\ calls = [c \in Calls |-> Answered]
    /\ activeCall = [k \in Convs |-> CHOOSE c \in Calls : TRUE]
    /\ messages = [c \in Calls |-> "none"]
    /\ notified = [c \in Calls |-> {}]
    /\ intervals = [c \in Calls |-> [u \in Users |-> 0]]
    /\ due = {} /\ ringTimers = {}
    /\ frames = [p \in Procs \cup {Sweeper} |-> Idle]
    /\ graceTimers = [c \in Calls |-> [u \in Users |-> NoTab]]
    /\ presence = [c \in Calls |-> [u \in Users |-> Unseen]]
    /\ room = [c \in Calls |-> {}]
    /\ pass = NoPass /\ asked = MaxRequests /\ faults = 0
    /\ joins = [c \in Calls |-> [u \in Users |-> 1]]
    /\ online = {} /\ attaching = {} /\ ghosts = {} /\ losing = {} /\ opened = 0
\* ... or from nothing at all.
MCInit == PresenceInit \/ AnsweredInit
MCFairSpec == MCInit /\ [][PresenceNext]_allvars /\ PresenceFairness
=============================================================================
