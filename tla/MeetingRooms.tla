---------------------------- MODULE MeetingRooms ----------------------------
(***************************************************************************)
(* A meeting in progress (src/imperium/meetings-flow.ts and the socket     *)
(* handlers of src/imperium/calls-realtime.ts): its call and the calls of  *)
(* its breakout rooms, the rooms in memory, and the requests that wait for *)
(* the database between reading and changing them.  A step of a request is *)
(* what it does between two awaits.                                        *)
(***************************************************************************)
EXTENDS MeetingRoom, Sequences

CONSTANTS
    Host, Invited,
    Main,             \* the call of the meeting; the model ends with it
    Requests,         \* requests the server handles at once
    LobbyFor,         \* settings.lobby: "all", "guests", "none"
    WaitForHost,      \* settings.wait_for_host
    MayUnmute,        \* settings.allow_unmute
    MuteOnEntry,      \* settings.mute_on_entry
    Given,            \* the orders the staff give in the instance
    MaxAsked, MaxMoves, MaxFaults   \* bounds: requests, moves of sockets, failures

ASSUME MeetingAssumption ==
    /\ Host \in People \ Guests /\ Invited \subseteq People \ Guests /\ Host \in Invited
    /\ Main \notin Smalls /\ Given \subseteq Order
    /\ LobbyFor \in {"all", "guests", "none"} 
    /\ WaitForHost \in BOOLEAN /\ MayUnmute \in BOOLEAN /\ MuteOnEntry \in BOOLEAN
    /\ {MaxAsked, MaxMoves, MaxFaults} \subseteq Nat

VARIABLES
    rooms,      \* the rooms in memory
    row,        \* the calls: written, then told to the room, then to the meeting
    doc,        \* the row of the meeting
    children,   \* breakout_children of the main room
    listed,     \* is children still the list the map holds?
    timer,      \* breakout_timers: is one armed?
    ticking,    \* what a breakouts_tick under way has left to do
    closing,    \* calls that a close_breakout_calls under way has left to end
    idle,       \* rooms the sweep has found empty for too long
    frames,     \* requests under way
    asked, moves, faults,
    kicked      \* history: people whose expulsion with a block was ordered

memory == <<rooms, children, listed, timer, ticking, closing, idle>>
tables == <<row, doc>>
counters == <<asked, moves, faults>>
vars == <<memory, tables, frames, counters, kicked>>

RoomIds == {Main} \cup Smalls
NoRoom == [NewRoom EXCEPT !.stage = "absent"]
NoFrame == [pc |-> "idle"]
Exists(r) == rooms[r] # NoRoom
Current(r) == IF Exists(r) THEN rooms[r] ELSE NewRoom

TypeOK ==
    /\ \A r \in RoomIds : rooms[r] \in Room \/ rooms[r] = NoRoom
    /\ row \in [RoomIds -> {"none", "active", "ended", "told", "closed"}]
    /\ doc.blocked \subseteq People /\ doc.cohosts \subseteq People \ Guests
    /\ children \in Seq(Smalls) /\ listed \in BOOLEAN
    /\ timer \in BOOLEAN /\ ticking \in {"no", "rearm", "end", "ended"}
    /\ closing \subseteq Smalls /\ idle \subseteq RoomIds
    /\ \A q \in Requests : frames[q].pc \in
        {"idle", "found", "called", "grow", "arrived", "welcome", "asked", "events", "expel",
         "opening", "placing", "edited", "cohosts"}
    /\ asked \in 0..MaxAsked /\ moves \in 0..MaxMoves /\ faults \in 0..MaxFaults
    /\ kicked \subseteq People

Init ==
    /\ rooms = [r \in RoomIds |-> NoRoom]
    /\ row = [r \in RoomIds |-> "none"]
    /\ doc = [blocked |-> {}, cohosts |-> {}]
    /\ children = <<>> /\ listed = FALSE /\ timer = FALSE
    /\ ticking = "no" /\ closing = {} /\ idle = {}
    /\ frames = [q \in Requests |-> NoFrame]
    /\ asked = 0 /\ moves = 0 /\ faults = 0 /\ kicked = {}

Becomes(q, f) == frames' = [frames EXCEPT ![q] = f]
Ends(q) == Becomes(q, NoFrame)
SetRoom(r, new) == rooms' = [rooms EXCEPT ![r] = new]
Armed(r, new) == IF r = Main THEN new.stage \in {"open", "closing"} ELSE timer

-----------------------------------------------------------------------------
(* join_meeting *)

DocRole(p) ==
    IF p \in Guests THEN "guest" ELSE IF p = Host THEN "host"
    ELSE IF p \in doc.cohosts THEN "cohost" ELSE "participant"

JoinAsks(q, p) ==
    /\ frames[q].pc = "idle" /\ asked < MaxAsked
    /\ p \notin doc.blocked
    /\ p \in Guests \cup Invited \/ LobbyFor # "none"
    /\ asked' = asked + 1
    /\ Becomes(q, [pc |-> "found", who |-> p, role |-> DocRole(p)])
    /\ UNCHANGED <<memory, tables, moves, faults, kicked>>

\* meeting_call: the call that is alive, or a new one.
MeetingCall(q) ==
    /\ frames[q].pc = "found"
    /\ IF row[Main] \in {"none", "active"}
       THEN /\ row' = [row EXCEPT ![Main] = "active"]
            /\ Becomes(q, [frames[q] EXCEPT !.pc = "called"])
       ELSE Ends(q) /\ UNCHANGED row
    /\ UNCHANGED <<memory, doc, counters, kicked>>

OpenRoom(r, small, allow, blocked) ==
    IF Exists(r) THEN rooms[r]
    ELSE [NewRoom EXCEPT !.small = small, !.allow = allow, !.blocked = blocked]

NeedsApproval(p, role) ==
    role \notin Staff /\ IF p \in Guests THEN LobbyFor # "none"
                         ELSE p \notin Invited \/ LobbyFor = "all"
\* Mutant: the lobby does not look whether the host is here.
HostAwayAlways(room, role) == role \notin Staff /\ WaitForHost
HostAway(room, role) == role \notin Staff /\ WaitForHost /\ AdmittedStaff(room) = {}

\* After the last read: the room is opened, and who has to wait waits.
JoinDecides(q) ==
    LET f == frames[q]
        room == OpenRoom(Main, FALSE, MayUnmute, doc.blocked)
        enters == MayEnter(room, f.who) /\ (room.locked => f.role \in Staff)
                  /\ ~IsAdmitted(room, f.who)
        waits == NeedsApproval(f.who, f.role) \/ HostAway(room, f.role)
        reason == IF NeedsApproval(f.who, f.role) THEN "approval" ELSE "host"
    IN
    /\ f.pc = "called"
    /\ SetRoom(Main, IF enters /\ waits THEN Wait(room, f.who, reason) ELSE room)
    /\ IF enters /\ ~waits THEN Becomes(q, [f EXCEPT !.pc = "grow"]) ELSE Ends(q)
    /\ UNCHANGED <<children, listed, timer, ticking, closing, idle, tables, counters, kicked>>

\* grow_meeting_call found the room full or the call ended.
JoinFails(q) ==
    /\ frames[q].pc = "grow"
    /\ \/ row[Main] # "active" /\ UNCHANGED faults
       \/ faults < MaxFaults /\ faults' = faults + 1
    /\ Ends(q)
    /\ UNCHANGED <<memory, tables, asked, moves, kicked>>

\* ... or it did not, and the person is admitted directly.
JoinEnters(q) ==
    LET f == frames[q] room == Current(Main) IN
    /\ f.pc = "grow"
    /\ IF MayEnter(room, f.who)
       THEN /\ SetRoom(Main, AdmitPerson(room, f.who, f.role))
            /\ IF f.role \in Staff THEN Becomes(q, [pc |-> "arrived"])
               ELSE Ends(q)
       ELSE Ends(q) /\ UNCHANGED rooms
    /\ UNCHANGED <<children, listed, timer, ticking, closing, idle, tables, counters, kicked>>

\* Mutant: the host lets in whoever waits.
WaitingForAnything == {p \in People : Waiting(Current(Main), p)}
WaitingForHost == {p \in People : Current(Main).lobby[p] = "host"}
\* admit_waiting_for_host: the lobby is read once, then each is admitted.
WelcomeReads(q) ==
    /\ frames[q].pc = "arrived"
    /\ IF WaitingForHost = {} THEN Ends(q)
       ELSE Becomes(q, [pc |-> "welcome", left |-> WaitingForHost])
    /\ UNCHANGED <<memory, tables, counters, kicked>>
Welcome(q) ==
    /\ frames[q].pc = "welcome"
    /\ \E p \in frames[q].left :
        LET room == Current(Main) rest == frames[q].left \ {p} IN
        /\ IF rest = {} THEN Ends(q) ELSE Becomes(q, [frames[q] EXCEPT !.left = rest])
        /\ \/ /\ UNCHANGED faults
              /\ rooms' = IF row[Main] = "active" /\ Waiting(room, p)
                          THEN [rooms EXCEPT ![Main] = AdmitWaiting(room, {p})] ELSE rooms
           \/ faults < MaxFaults /\ faults' = faults + 1 /\ UNCHANGED rooms
    /\ UNCHANGED <<children, listed, timer, ticking, closing, idle, tables, asked, moves, kicked>>

-----------------------------------------------------------------------------
(* The sockets: what on_attach, on_media, on_hand, on_close and leave_call do *)
(* after their last await, if they have one.                                  *)

Mine(r, new) ==
    /\ rooms[r] # new /\ SetRoom(r, new)
    /\ moves < MaxMoves /\ moves' = moves + 1
    /\ UNCHANGED <<children, listed, timer, ticking, closing, idle, tables, frames,
                   asked, faults, kicked>>

OnAttach(r, l) ==
    LET room == rooms[r] p == OwnerOf[l] IN
    /\ Exists(r) /\ IsAdmitted(room, p) /\ MayEnter(room, p)
    /\ Mine(r, Attach(room, l, room.admitted[p], ~MuteOnEntry))
OnMedia(r, l, mic) == Exists(r) /\ MaySpeak(rooms[r], l, mic) /\ Mine(r, Media(rooms[r], l, mic))
OnHand(r, l) ==
    /\ Exists(r) /\ Attached(rooms[r], l)
    /\ Mine(r, IF OwnerOf[l] \in rooms[r].hands THEN LowerHands(rooms[r], {OwnerOf[l]})
               ELSE RaiseHand(rooms[r], l))
OnLeave(r, l) == Exists(r) /\ Attached(rooms[r], l) /\ Mine(r, Detach(rooms[r], l))
LeaveLobby(p) == Exists(Main) /\ Waiting(rooms[Main], p) /\ Mine(Main, Leave(rooms[Main], p))
OnClose(l) ==
    /\ \E r \in RoomIds : Exists(r) /\ Attached(rooms[r], l)
    /\ rooms' = [r \in RoomIds |-> IF Exists(r) THEN Detach(rooms[r], l) ELSE rooms[r]]
    /\ moves < MaxMoves /\ moves' = moves + 1
    /\ UNCHANGED <<children, listed, timer, ticking, closing, idle, tables, frames,
                   asked, faults, kicked>>

-----------------------------------------------------------------------------
(* run_host_command *)

OrderAsks(q, r, l, o) ==
    /\ frames[q].pc = "idle" /\ asked < MaxAsked
    /\ Exists(r) /\ Attached(rooms[r], l) /\ row[r] = "active"
    /\ rooms[r].members[l].role \in Staff
    /\ asked' = asked + 1
    /\ Becomes(q, [pc |-> "asked", room |-> r, who |-> OwnerOf[l],
                   role |-> rooms[r].members[l].role, order |-> o])
    /\ UNCHANGED <<memory, tables, moves, faults, kicked>>

NextOf(f, new) ==
    CASE f.order.type = "kick" ->
            [pc |-> "events", room |-> f.room, who |-> f.order.who, block |-> f.order.block]
      [] f.order.type = "breakouts_open" ->
            [pc |-> "opening", snapshot |-> new, left |-> Smalls]
      [] OTHER -> NoFrame

\* With the role the sender had when they sent it.
OrderRuns(q) ==
    LET f == frames[q]
        room == Current(f.room)
        new == Ordered(room, f.order)
        done == MayOrder(room, f.who, f.role, f.order)
    IN
    /\ f.pc = "asked"
    /\ IF done
       THEN /\ SetRoom(f.room, new)
            /\ Becomes(q, NextOf(f, new))
            /\ timer' = IF f.order.type = "breakouts_close" THEN Armed(f.room, new) ELSE timer
            /\ row' = IF f.order.type = "end" /\ row[f.room] = "active"
                      THEN [row EXCEPT ![f.room] = "ended"] ELSE row
            /\ children' = IF f.order.type = "breakouts_open" THEN <<>> ELSE children
            /\ listed' = (listed \/ f.order.type = "breakouts_open")
            /\ kicked' = IF f.order.type = "kick" /\ f.order.block
                         THEN kicked \cup {f.order.who} ELSE kicked
       ELSE Ends(q) /\ UNCHANGED <<rooms, timer, row, children, listed, kicked>>
    /\ UNCHANGED <<ticking, closing, idle, doc, counters>>

\* grow_meeting_call, or any statement before the order runs, fails.
OrderFails(q) ==
    /\ frames[q].pc = "asked" /\ faults < MaxFaults
    /\ faults' = faults + 1 /\ Ends(q)
    /\ UNCHANGED <<memory, tables, asked, moves, kicked>>

AllRooms(r) ==
    LET main == IF rooms[r].small THEN Main ELSE r
    IN  <<main>> \o IF main = Main THEN children ELSE <<>>

\* after_room_events writes the block; the other rooms are listed after it, and when it
\* fails they are not.
BlockSaved(q) ==
    LET f == frames[q] IN
    /\ f.pc = "events"
    /\ \/ /\ doc' = IF f.block THEN [doc EXCEPT !.blocked = @ \cup {f.who}] ELSE doc
          /\ Becomes(q, [pc |-> "expel", room |-> f.room, who |-> f.who, block |-> f.block,
                         left |-> AllRooms(f.room)])
          /\ UNCHANGED faults
       \/ f.block /\ faults < MaxFaults /\ faults' = faults + 1 /\ Ends(q) /\ UNCHANGED doc
    /\ UNCHANGED <<memory, row, asked, moves, kicked>>

\* expel_from_other_rooms, one room at a time.
ExpelNext(q) ==
    LET f == frames[q] r == Head(f.left) IN
    /\ f.pc = "expel"
    /\ IF f.left = <<>> THEN Ends(q) /\ UNCHANGED rooms
       ELSE /\ Becomes(q, [f EXCEPT !.left = Tail(@)])
            /\ rooms' = IF r # f.room /\ Exists(r)
                        THEN [rooms EXCEPT ![r] = Expel(rooms[r], f.who, f.block)] ELSE rooms
    /\ UNCHANGED <<children, listed, timer, ticking, closing, idle, tables, counters, kicked>>

-----------------------------------------------------------------------------
(* The breakout rooms *)

\* Mutant: the list is forgotten and nothing else.
CloseNothing(who) == {}
\* close_breakout_calls: the list is forgotten, then each call is ended.
ToClose(who) == who

\* open_breakout_calls: the row of the next small room, then its room with the
\* policy and the blocks the main room had when the order ran ...
SmallOpens(q) ==
    LET f == frames[q] IN
    /\ f.pc = "opening"
    /\ \E s \in f.left :
        /\ row' = [row EXCEPT ![s] = "active"]
        /\ children' = IF listed THEN Append(children, s) ELSE children
        /\ SetRoom(s, OpenRoom(s, TRUE, f.snapshot.allow, f.snapshot.blocked))
        /\ Becomes(q, [pc |-> "placing", snapshot |-> f.snapshot, left |-> f.left \ {s}, small |-> s])
    /\ UNCHANGED <<listed, timer, ticking, closing, idle, doc, counters, kicked>>

\* ... and, when the call has room for them, its people and the staff are admitted;
\* after the last one schedule_breakouts arms the timer.
Placed(f) ==
    {p \in People : /\ IsAdmitted(f.snapshot, p) /\ MayEnter(Current(f.small), p)
                    /\ p \in f.snapshot.places[f.small] \/ f.snapshot.admitted[p] \in Staff}
SmallAdmits(q) ==
    LET f == frames[q] room == Current(f.small) IN
    /\ f.pc = "placing"
    /\ f.snapshot.places[f.small] # {} => row[f.small] = "active"
    /\ SetRoom(f.small, IF Placed(f) = {} THEN rooms[f.small]
        ELSE AdmitEach(room, Placed(f), f.snapshot.admitted))
    /\ IF f.left = {} THEN Ends(q) /\ timer' = Armed(Main, Current(Main))
       ELSE Becomes(q, [pc |-> "opening", snapshot |-> f.snapshot, left |-> f.left]) /\ UNCHANGED timer
    /\ UNCHANGED <<children, listed, ticking, closing, idle, tables, counters, kicked>>

\* A statement of the opening fails: what was opened is closed.
OpeningFails(q) ==
    LET f == frames[q] IN
    /\ \/ f.pc \in {"opening", "placing"} /\ faults < MaxFaults /\ faults' = faults + 1
       \/ /\ f.pc = "placing" /\ f.snapshot.places[f.small] # {} /\ row[f.small] # "active"
          /\ UNCHANGED faults
    /\ SetRoom(Main, EndBreakouts(Current(Main)))
    /\ children' = <<>> /\ listed' = FALSE /\ timer' = FALSE
    /\ closing' = closing \cup ToClose(Smalls \ f.left)
    /\ Ends(q)
    /\ UNCHANGED <<ticking, idle, tables, asked, moves, kicked>>

\* breakouts_tick: the command, and what follows it after reading the call.
TimerFires ==
    /\ timer /\ ticking = "no"
    /\ timer' = FALSE
    /\ IF Exists(Main)
       THEN /\ SetRoom(Main, Tick(rooms[Main]))
            /\ ticking' = CASE rooms[Main].stage = "open" -> "rearm"
                            [] rooms[Main].stage = "closing" -> "end"
                            [] OTHER -> "no"
       ELSE UNCHANGED <<rooms, ticking>>
    /\ UNCHANGED <<children, listed, closing, idle, tables, frames, counters, kicked>>
\* The reading succeeds, and either there is only the timer to arm again or the rooms are
\* closed first ...
TickReads ==
    /\ ticking \in {"rearm", "end"} /\ row[Main] = "active"
    /\ IF ticking = "rearm"
       THEN ticking' = "no" /\ timer' = Armed(Main, Current(Main)) /\ UNCHANGED <<children, listed, closing>>
       ELSE /\ ticking' = "ended" /\ children' = <<>> /\ listed' = FALSE /\ timer' = FALSE
            /\ closing' = closing \cup ToClose(Smalls)
    /\ UNCHANGED faults
\* ... or it fails ...
TickFails ==
    /\ ticking \in {"rearm", "end"} /\ ticking' = "no"
    /\ \/ row[Main] # "active" /\ UNCHANGED faults
       \/ faults < MaxFaults /\ faults' = faults + 1
    /\ UNCHANGED <<timer, children, listed, closing>>
\* ... and after closing them schedule_breakouts looks whether others were opened meanwhile.
TickRearms ==
    /\ ticking = "ended" /\ ticking' = "no"
    /\ timer' = Armed(Main, Current(Main))
    /\ UNCHANGED <<children, listed, closing, faults>>
TickGoesOn ==
    /\ TickReads \/ TickFails \/ TickRearms
    /\ UNCHANGED <<rooms, idle, tables, frames, asked, moves, kicked>>

-----------------------------------------------------------------------------
(* The calls: their end, told to the room and then to the meeting, and the sweep *)

CloserEnds(s) ==
    /\ s \in closing /\ closing' = closing \ {s}
    /\ row' = IF row[s] = "active" THEN [row EXCEPT ![s] = "ended"] ELSE row
    /\ UNCHANGED <<rooms, children, listed, timer, ticking, idle, doc, frames, counters, kicked>>

\* publish_update of the ended call: sync_room_with_call closes its room.
RoomTold(r) ==
    /\ row[r] = "ended" /\ row' = [row EXCEPT ![r] = "told"]
    /\ SetRoom(r, NoRoom)
    /\ UNCHANGED <<children, listed, timer, ticking, closing, idle, doc, frames, counters, kicked>>

\* on_meeting_call_closed.
CallClosed(r) ==
    /\ row[r] = "told" /\ row' = [row EXCEPT ![r] = "closed"]
    /\ IF r = Main /\ listed
       THEN /\ closing' = closing \cup {children[i] : i \in 1..Len(children)}
            /\ children' = <<>> /\ listed' = FALSE /\ timer' = FALSE
       ELSE UNCHANGED <<closing, children, listed, timer>>
    /\ UNCHANGED <<rooms, ticking, idle, doc, frames, counters, kicked>>

\* meeting_room_idle, of a room that has been so for the whole grace: longer
\* than any request takes.
RoomIdle(r) ==
    /\ Exists(r) => /\ \A l \in Legs : ~Attached(rooms[r], l)
                    /\ \A p \in People : ~Waiting(rooms[r], p)
    /\ ~(Exists(r) /\ rooms[r].small /\ Current(Main).stage # "none")
SweepSees(r) ==
    /\ row[r] = "active" /\ r \notin idle /\ RoomIdle(r)
    /\ \A q \in Requests : frames[q].pc = "idle"
    /\ idle' = idle \cup {r}
    /\ UNCHANGED <<rooms, children, listed, timer, ticking, closing, tables, frames, counters, kicked>>
SweepEnds(r) ==
    /\ r \in idle /\ idle' = idle \ {r}
    /\ row' = IF row[r] = "active" THEN [row EXCEPT ![r] = "ended"] ELSE row
    /\ UNCHANGED <<rooms, children, listed, timer, ticking, closing, doc, frames, counters, kicked>>

-----------------------------------------------------------------------------
(* update_meeting: another list of cohosts *)

EditCohosts(q, p) ==
    /\ frames[q].pc = "idle" /\ asked < MaxAsked /\ p \in Invited \ {Host}
    /\ asked' = asked + 1
    /\ doc' = [doc EXCEPT !.cohosts = IF p \in @ THEN @ \ {p} ELSE @ \cup {p}]
    /\ Becomes(q, [pc |-> "edited", who |-> p,
                   role |-> IF p \in doc.cohosts THEN "participant" ELSE "cohost"])
    /\ UNCHANGED <<memory, row, moves, faults, kicked>>

\* sync_live_cohosts: the live room and the small ones.
CohostsRead(q) ==
    /\ frames[q].pc = "edited"
    /\ IF Exists(Main) /\ row[Main] # "closed"
       THEN Becomes(q, [pc |-> "cohosts", who |-> frames[q].who, role |-> frames[q].role,
                       left |-> <<Main>> \o children]) ELSE Ends(q)
    /\ UNCHANGED <<memory, tables, counters, kicked>>
CohostNext(q) ==
    LET f == frames[q]
        r == Head(f.left)
        o == [type |-> "set_role", who |-> f.who, role |-> f.role]
    IN
    /\ f.pc = "cohosts"
    /\ IF f.left = <<>> THEN Ends(q) /\ UNCHANGED rooms
       ELSE /\ Becomes(q, [f EXCEPT !.left = Tail(@)])
            /\ rooms' = IF row[r] = "active" /\ MayOrder(Current(r), Host, "host", o)
                        THEN [rooms EXCEPT ![r] = Ordered(Current(r), o)] ELSE rooms
    /\ UNCHANGED <<children, listed, timer, ticking, closing, idle, tables, counters, kicked>>

-----------------------------------------------------------------------------
RequestStep(q) ==
    \/ MeetingCall(q) \/ JoinDecides(q) \/ JoinFails(q) \/ JoinEnters(q)
    \/ WelcomeReads(q) \/ Welcome(q)
    \/ OrderRuns(q) \/ OrderFails(q) \/ BlockSaved(q) \/ ExpelNext(q)
    \/ SmallOpens(q) \/ SmallAdmits(q) \/ OpeningFails(q)
    \/ CohostsRead(q) \/ CohostNext(q)

SocketStep ==
    \/ \E r \in RoomIds, l \in Legs :
        OnAttach(r, l) \/ OnHand(r, l) \/ OnLeave(r, l) \/ \E mic \in BOOLEAN : OnMedia(r, l, mic)
    \/ \E p \in People : LeaveLobby(p)
    \/ \E l \in Legs : OnClose(l)

ServerStep ==
    \/ TimerFires \/ TickGoesOn
    \/ \E s \in Smalls : CloserEnds(s)
    \/ \E r \in RoomIds : RoomTold(r) \/ CallClosed(r) \/ SweepEnds(r)

Next ==
    \/ \E q \in Requests :
        \/ RequestStep(q)
        \/ \E p \in People : JoinAsks(q, p) \/ EditCohosts(q, p)
        \/ \E r \in RoomIds, l \in Legs, o \in Given : OrderAsks(q, r, l, o)
    \/ SocketStep
    \/ ServerStep
    \/ \E r \in RoomIds : SweepSees(r)

Spec == Init /\ [][Next]_vars
\* Requests go on; timers fire, and what they and the calls have begun is done.
Fairness == WF_vars(ServerStep) /\ \A q \in Requests : WF_vars(RequestStep(q))
FairSpec == Spec /\ Fairness

-----------------------------------------------------------------------------
(* Properties *)

\* Nobody who is kept out of a room is in it, admitted to it or waiting for it,
\* whatever was under way when they were expelled.
BlockedOut == \A r \in RoomIds : \A p \in rooms[r].blocked :
    ~IsAdmitted(rooms[r], p) /\ ~Waiting(rooms[r], p) /\ LegsIn(rooms[r], p) = {}

\* Whoever has a tab in a room, its floor, its spotlight or a place in a small room
\* is admitted to it, and nobody is admitted and waiting at once.
InsideIsAdmitted == \A r \in RoomIds :
    /\ \A l \in Legs : Attached(rooms[r], l) => IsAdmitted(rooms[r], OwnerOf[l])
    /\ rooms[r].floor # NoOne => IsAdmitted(rooms[r], rooms[r].floor)
    /\ \A p \in rooms[r].spotlight : IsAdmitted(rooms[r], p)
    /\ \A s \in Smalls : \A p \in rooms[r].places[s] : IsAdmitted(rooms[r], p)
    /\ \A p \in People : ~(IsAdmitted(rooms[r], p) /\ Waiting(rooms[r], p))

\* The queue of hands is that of the tabs in the room that show one, over every
\* way to come in again or to leave.
HandsMatch == \A r \in RoomIds :
    rooms[r].hands = {OwnerOf[l] : l \in {k \in Legs : rooms[r].members[k].hand}}

\* A guest never moderates, in any room.
GuestsDoNotModerate == \A r \in RoomIds : AdmittedStaff(rooms[r]) \cap Guests = {}

\* Nobody can keep out who organises, from any room.
HostNeverBarred ==
    Host \notin kicked /\ Host \notin doc.blocked /\ \A r \in RoomIds : Host \notin rooms[r].blocked

\* While the microphones may not be opened again, somebody silenced who does not
\* moderate stays so: not by coming in again, nor from another tab.  The role is
\* that of their tabs too: a join that was under way may have left them another.
Silenced(room, p) ==
    ~room.allow /\ \A l \in LegsIn(room, p) :
        LET m == room.members[l] IN m.hard /\ ~m.mic /\ m.role \notin Staff
SilenceHolds == [][\A r \in RoomIds : \A p \in People :
    Exists(r) /\ Exists(r)' /\ Silenced(rooms[r], p) /\ ~rooms'[r].allow
        /\ rooms'[r].admitted[p] \notin Staff => Silenced(rooms'[r], p)]_vars

\* Who only waits for the host enters when somebody who moderates has arrived,
\* unless a statement fails on the way.
HostWaitersEnter ==
    (row[Main] = "active" /\ AdmittedStaff(rooms[Main]) # {} /\ WaitingForHost # {})
        ~> (WaitingForHost = {} \/ row[Main] # "active" \/ faults > 0)

\* While the meeting goes on its breakout rooms come to an end, and with them
\* their calls, unless a statement fails on the way.
BreakoutsEnd ==
    (row[Main] = "active" /\ rooms[Main].stage \in {"open", "closing"})
        ~> ((\A s \in Smalls : row[s] # "active") \/ row[Main] # "active" \/ faults > 0)

\* The rooms of a meeting implement MeetingDoor: through every wait of a request, what it
\* read before and the sweeps, nobody gets in, moderates or is thrown out but by whoever may.
ErrandsOf(f) ==
    IF f.pc = "asked" THEN {[is |-> "word", room |-> f.room, of |-> f.role]}
    ELSE IF f.pc \in {"edited", "cohosts"} THEN {[is |-> "word", room |-> r, of |-> "host"] : r \in RoomIds}
    ELSE IF f.pc \in {"events", "expel"} THEN {[is |-> "going", who |-> f.who, block |-> f.block]}
    ELSE IF f.pc \in {"opening", "placing"} THEN {[is |-> "parting", roles |-> f.snapshot.admitted]}
    ELSE IF f.pc \in {"arrived", "welcome"} THEN {[is |-> "arrival"]} ELSE {}
Errands ==
    (UNION {ErrandsOf(frames[q]) : q \in Requests})
        \cup {[is |-> "deserted", room |-> r] : r \in idle}
        \cup {[is |-> "over", room |-> r] : r \in {x \in RoomIds : row[x] = "ended"}}
RolesNow == [r \in RoomIds |-> rooms[r].admitted]
WaitsNow == [r \in RoomIds |-> rooms[r].lobby]
BarredNow == [r \in RoomIds |-> rooms[r].blocked]
SeatsNow == [r \in RoomIds |-> [l \in Legs |-> rooms[r].members[l].role]]
NeedApproval == {p \in People : NeedsApproval(p, "participant")}
Door == INSTANCE MeetingDoor WITH
    role <- RolesNow, wait <- WaitsNow, barred <- BarredNow, seat <- SeatsNow,
    errands <- Errands, Tabs <- Legs, Rooms <- RoomIds
Refinement == Door!Spec

\* An expulsion holds for the whole meeting: once it is over, whoever was
\* expelled and blocked is in none of its rooms.
ExpelledStaysOut ==
    \A p \in kicked : (\A q \in Requests : frames[q].pc \notin {"events", "expel"})
        => \A r \in RoomIds : ~IsAdmitted(rooms[r], p) /\ LegsIn(rooms[r], p) = {}
=============================================================================
