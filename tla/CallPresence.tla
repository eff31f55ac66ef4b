----------------------------- MODULE CallPresence -----------------------------
(***************************************************************************)
(* The sockets of a chat call (src/imperium/calls-realtime.ts) over        *)
(* CallFlow: a tab whose leg is joined attaches to the room of the call,   *)
(* and a socket that drops detaches it and starts the grace of the network *)
(* (call:attach, on_close, note_network_lost).  Attaching reads the row    *)
(* and then waits for the name of the user before it enters the room, and  *)
(* noting the loss waits for the row before it arms the timer.             *)
(***************************************************************************)
EXTENDS CallFlow

CONSTANT MaxSockets  \* bound: sockets ever opened
ASSUME SocketAssumption == MaxSockets \in Nat

VARIABLES
    online,     \* the tabs with a socket open
    attaching,  \* attaches past their check; FALSE: the socket they came from is gone
    ghosts,     \* members of a room whose session is gone
    losing,     \* losses not noted yet
    opened      \* sockets opened so far

sockets == <<online, attaching, ghosts, losing, opened>>
allvars == <<vars, sockets>>

Tab == Users \X Tabs
PresenceTypeOK ==
    /\ online \subseteq Tab
    /\ attaching \subseteq Rows \X Users \X Tabs \X BOOLEAN
    /\ ghosts \subseteq Rows \X Users \X Tabs
    /\ losing \subseteq Rows \X Users \X Tabs
    /\ opened \in 0..MaxSockets

PresenceInit ==
    Init /\ online = {} /\ attaching = {} /\ ghosts = {} /\ losing = {} /\ opened = 0

\* Mutant: any socket may attach to any id.
JoinedUnchecked(c, u, t) == TRUE
\* Mutant: a live call is enough.
JoinedLive(c, u, t) == c \in Rows /\ Live(calls[c])
JoinedFrom(c, u, t) ==
    c \in Rows /\ Live(calls[c]) /\ u \in Joined(calls[c]) /\ calls[c].legs[u].tab = t

SocketOpens(u, t) ==
    /\ <<u, t>> \notin online /\ opened < MaxSockets
    /\ opened' = opened + 1
    /\ online' = online \cup {<<u, t>>}
    /\ UNCHANGED <<vars, attaching, ghosts, losing>>

\* on_attach up to its last await ...
AttachReads(c, u, t) ==
    /\ <<u, t>> \in online /\ JoinedFrom(c, u, t)
    /\ attaching' = attaching \cup {<<c, u, t, TRUE>>}
    /\ UNCHANGED <<vars, online, ghosts, losing, opened>>

\* ... and after it: the room, then mark_leg_attached.
AttachEnds(c, u, t, alive) ==
    /\ <<c, u, t, alive>> \in attaching
    /\ attaching' = attaching \ {<<c, u, t, alive>>}
    /\ room' = [room EXCEPT ![c] = @ \cup {<<u, t>>}]
    /\ ghosts' = IF alive THEN ghosts \ {<<c, u, t>>} ELSE ghosts \cup {<<c, u, t>>}
    /\ presence' = [presence EXCEPT ![c][u] = [tab |-> t, attached |-> TRUE, old |-> FALSE]]
    /\ graceTimers' = [graceTimers EXCEPT ![c][u] = NoTab]
    /\ UNCHANGED <<tables, due, frames, ringTimers, pass, budget, joins, online, losing, opened>>

\* on_close: the rooms this session is in lose the leg (mark_leg_detached).
SocketCloses(u, t) ==
    LET left == {c \in Calls : <<u, t>> \in room[c] /\ <<c, u, t>> \notin ghosts} IN
    /\ <<u, t>> \in online
    /\ online' = online \ {<<u, t>>}
    /\ attaching' = {<<a[1], a[2], a[3], a[4] /\ <<a[2], a[3]>> # <<u, t>> >> : a \in attaching}
    /\ room' = [c \in Calls |-> IF c \in left THEN room[c] \ {<<u, t>>} ELSE room[c]]
    /\ presence' = [c \in Calls |-> IF c \in left /\ presence[c][u].tab = t
            THEN [presence[c] EXCEPT ![u] = [Unseen EXCEPT !.tab = t]] ELSE presence[c]]
    /\ losing' = losing \cup (left \X {u} \X {t})
    /\ UNCHANGED <<tables, due, frames, ringTimers, graceTimers, pass, budget, joins, ghosts, opened>>

\* note_network_lost, when it has read the row.
LossNoted(c, u, t) ==
    /\ <<c, u, t>> \in losing
    /\ losing' = losing \ {<<c, u, t>>}
    /\ graceTimers' = IF JoinedFrom(c, u, t) THEN [graceTimers EXCEPT ![c][u] = t] ELSE graceTimers
    /\ UNCHANGED <<tables, due, frames, ringTimers, presence, room, pass, budget, joins,
                   online, attaching, ghosts, opened>>

AttachOrLoss == \E c \in Calls, u \in Users, t \in Tabs :
    LossNoted(c, u, t) \/ \E alive \in BOOLEAN : AttachEnds(c, u, t, alive)

PresenceNext ==
    \/ FlowStep /\ UNCHANGED sockets
    \/ Restart /\ online' = {} /\ attaching' = {} /\ ghosts' = {} /\ losing' = {} /\ UNCHANGED opened
    \/ \E u \in Users, t \in Tabs : SocketOpens(u, t) \/ SocketCloses(u, t)
    \/ \E c \in Calls, u \in Users, t \in Tabs : AttachReads(c, u, t)
    \/ AttachOrLoss

PresenceSpec == PresenceInit /\ [][PresenceNext]_allvars

PresenceFairness ==
    /\ \A p \in Procs \cup {Sweeper} : WF_allvars(Step(p) /\ UNCHANGED sockets)
    /\ \A c \in Calls : WF_allvars(RingWindowPasses(c) /\ UNCHANGED sockets)
    /\ \A c \in Calls, u \in Users : WF_allvars(GracePasses(c, u) /\ UNCHANGED sockets)
    /\ WF_allvars((SweepBegins \/ SweepEnds \/ \E c \in Calls : SweepCall(c)) /\ UNCHANGED sockets)
    /\ WF_allvars(AttachOrLoss)
PresenceFairSpec == PresenceSpec /\ PresenceFairness

-----------------------------------------------------------------------------
(* Properties *)

\* Nobody is in the room of a call they never entered, however late the attach
\* that put them there ends.
RoomEntered == \A c \in Calls : \A m \in room[c] : joins[c][m[1]] > 0

\* A leg that leg_presence holds absent either attaches again or is taken out.
AbsentLegsGo == \A c \in Calls, u \in Users, t \in Tabs :
    (JoinedFrom(c, u, t) /\ presence[c][u] = [tab |-> t, attached |-> FALSE, old |-> TRUE])
        ~> (~JoinedFrom(c, u, t) \/ presence[c][u].attached)

\* leg_presence says whether the leg is attached to the room: never that a leg
\* in the room is absent.
AttachedIsSeen == \A c \in Calls, u \in Users, t \in Tabs :
    JoinedFrom(c, u, t) /\ <<u, t>> \in room[c]
        => presence[c][u].tab # t \/ presence[c][u].attached

\* Attaching stops the grace timer of the leg: no timer is armed for a leg that
\* is in the room with its socket.
GraceOnlyWhileGone == \A c \in Calls, u \in Users :
    LET t == graceTimers[c][u] IN <<u, t>> \in room[c] => <<c, u, t>> \in ghosts

\* Publishing a call takes out of its room only legs that are no longer joined.
SyncSparesJoined == [][\A c \in Calls, u \in Users, t \in Tabs :
    <<u, t>> \in room[c] /\ <<u, t>> \notin room'[c] /\ <<u, t>> \in online'
        => ~JoinedFrom(c, u, t)]_allvars

\* When its socket drops the leg goes out of the room: nobody is in a room
\* without a socket.
RoomIsOnline == \A c \in Calls : room[c] \subseteq online
=============================================================================
