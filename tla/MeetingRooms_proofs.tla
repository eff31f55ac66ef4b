------------------------ MODULE MeetingRooms_proofs ------------------------
(***************************************************************************)
(* What holds of every room of a meeting however its requests interleave:  *)
(* IInv says it of the rooms and of what each request under way carries    *)
(* from before its last await.                                             *)
(***************************************************************************)
EXTENDS MeetingRooms, MeetingRoom_proofs

RoomsOf(v) ==
    /\ v \in [RoomIds -> Room \cup {NoRoom}]
    /\ \A r \in RoomIds : v[r] = NoRoom \/ RoomOK(v[r])

\* What a request carries.  A request to come in never gives a guest a role
\* that moderates; the rooms a request walks are rooms of the meeting; the main
\* room as it was when the breakout rooms were ordered is a consistent room.
JoinFrame == [pc : {"found", "called", "grow"}, who : People, role : Roles]
FrameOK(f) ==
    /\ f.pc \in {"idle", "found", "called", "grow", "arrived", "welcome", "asked", "events",
                 "expel", "opening", "placing", "edited", "cohosts"}
    /\ f.pc \in {"found", "called", "grow"} =>
        f \in JoinFrame /\ (f.who \in Guests => f.role \notin Staff)
    /\ f.pc = "welcome" => f \in [pc : {"welcome"}, left : SUBSET People]
    /\ f.pc = "asked" => f.room \in RoomIds /\ f.order \in Order
    /\ f.pc = "events" => f.room \in RoomIds /\ f.who \in People /\ f.block \in BOOLEAN
    /\ f.pc = "expel" =>
        f \in [pc : {"expel"}, room : RoomIds, who : People, block : BOOLEAN, left : Seq(RoomIds)]
    /\ f.pc \in {"opening", "placing"} => RoomOK(f.snapshot) /\ f.left \subseteq Smalls
    /\ f.pc = "placing" => f.small \in Smalls
    /\ f.pc \in {"edited", "cohosts"} => f.who \in People /\ f.role \in {"cohost", "participant"}
    /\ f.pc = "cohosts" =>
        f \in [pc : {"cohosts"}, who : People, role : {"cohost", "participant"}, left : Seq(RoomIds)]

FramesOf(v) == v = [q \in Requests |-> v[q]] /\ \A q \in Requests : FrameOK(v[q])

RestOf ==
    /\ row \in [RoomIds -> {"none", "active", "ended", "told", "closed"}]
    /\ doc \in [blocked : SUBSET People, cohosts : SUBSET (People \ Guests)]
    /\ children \in Seq(Smalls) /\ listed \in BOOLEAN
    /\ timer \in BOOLEAN /\ ticking \in {"no", "rearm", "end", "ended"}
    /\ closing \subseteq Smalls /\ idle \subseteq RoomIds
    /\ asked \in 0..MaxAsked /\ moves \in 0..MaxMoves /\ faults \in 0..MaxFaults
    /\ kicked \subseteq People

IInv == RoomsOf(rooms) /\ FramesOf(frames) /\ RestOf

-----------------------------------------------------------------------------
LEMMA NoRoomFields ==
    /\ NoRoom \notin Room
    /\ NoRoom.hands = {} /\ NoRoom.blocked = {} /\ NoRoom.floor = NoOne /\ NoRoom.spotlight = {}
    /\ NoRoom.members = [l \in Legs |-> NoMember] /\ NoRoom.small = FALSE
    /\ NoRoom.admitted = [p \in People |-> NoRole] /\ NoRoom.lobby = [p \in People |-> NoRole]
    /\ NoRoom.places = [s \in Smalls |-> {}] /\ NoRoom.stage = "absent"
  BY DEF NoRoom, NewRoom, Room

LEMMA RoomOfIds ==
    ASSUME RoomsOf(rooms), NEW r \in RoomIds
    PROVE  /\ RoomOK(Current(r))
           /\ Exists(r) => RoomOK(rooms[r]) /\ Current(r) = rooms[r]
  BY NewRoomOK DEF RoomsOf, Current, Exists

LEMMA SetRoomOK ==
    ASSUME RoomsOf(rooms), NEW r \in RoomIds, NEW new, RoomOK(new) \/ new = NoRoom
    PROVE  RoomsOf([rooms EXCEPT ![r] = new])
  BY DEF RoomsOf, RoomOK

LEMMA BecomesOK ==
    ASSUME FramesOf(frames), NEW q \in Requests, NEW f, FrameOK(f), Becomes(q, f)
    PROVE  FramesOf(frames')
  BY DEF FramesOf, Becomes

LEMMA EndsOK ==
    ASSUME FramesOf(frames), NEW q \in Requests, Ends(q)
    PROVE  FramesOf(frames')
  <1>1. FrameOK(NoFrame)
    BY DEF FrameOK, NoFrame
  <1>2. QED
    BY <1>1, BecomesOK DEF Ends

LEMMA NoChildren == <<>> \in Seq(Smalls)
  OBVIOUS

LEMMA ArmedType ==
    ASSUME timer \in BOOLEAN, NEW r, NEW n
    PROVE  Armed(r, n) \in BOOLEAN
  <1>1. CASE r = Main
    <2>1. Armed(r, n) = (n.stage \in {"open", "closing"})
      BY <1>1 DEF Armed
    <2>2. (n.stage \in {"open", "closing"}) \in BOOLEAN
      OBVIOUS
    <2>3. QED
      BY <2>1, <2>2
  <1>2. CASE r # Main
    BY <1>2 DEF Armed
  <1>3. QED
    BY <1>1, <1>2

\* A room that opens takes the blocks it is given, and nobody is in it yet.
LEMMA OpenRoomOK ==
    ASSUME RoomsOf(rooms), NEW r \in RoomIds, NEW small \in BOOLEAN, NEW allow \in BOOLEAN,
           NEW blocked \in SUBSET People
    PROVE  RoomOK(OpenRoom(r, small, allow, blocked))
  <1> DEFINE n == [NewRoom EXCEPT !.small = small, !.allow = allow, !.blocked = blocked]
  <1>1. CASE Exists(r)
    BY <1>1, RoomOfIds DEF OpenRoom
  <1>2. CASE ~Exists(r)
    <2>1. /\ n \in Room /\ n.members = NewRoom.members /\ n.hands = NewRoom.hands
          /\ n.admitted = NewRoom.admitted /\ n.lobby = NewRoom.lobby
          /\ n.floor = NewRoom.floor /\ n.spotlight = NewRoom.spotlight
          /\ n.places = NewRoom.places /\ n.blocked = blocked
      BY NewRoomOK DEF Room
    <2>2. \A p \in People : ~IsAdmitted(NewRoom, p) /\ ~Waiting(NewRoom, p)
      BY DEF NewRoom, IsAdmitted, Waiting
    <2> HIDE DEF n
    <2>3. LegsOK(n) /\ PlacesOK(n) /\ StaffOK(n)
      BY <2>1, NewRoomOK DEF RoomOK, LegsOK, PlacesOK, StaffOK, IsAdmitted, Attached
    <2>4. PeopleOK(n)
      BY <2>1, <2>2 DEF PeopleOK, IsAdmitted, Waiting
    <2>5. QED
      BY <2>1, <2>3, <2>4, <1>2 DEF RoomOK, OpenRoom, n
  <1>3. QED
    BY <1>1, <1>2

-----------------------------------------------------------------------------
(* One lemma per group of actions *)

LEMMA JoinKeeps ==
    ASSUME IInv, NEW q \in Requests,
           (\E p \in People : JoinAsks(q, p)) \/ MeetingCall(q) \/ JoinDecides(q)
           \/ JoinFails(q) \/ JoinEnters(q)
    PROVE  IInv'
  <1>1. RoomsOf(rooms) /\ FramesOf(frames) /\ RestOf /\ FrameOK(frames[q])
    BY DEF IInv, FramesOf
  <1>2. ASSUME NEW p \in People, JoinAsks(q, p) PROVE IInv'
    <2> DEFINE f == [pc |-> "found", who |-> p, role |-> DocRole(p)]
    <2>1. DocRole(p) \in Roles /\ (p \in Guests => DocRole(p) \notin Staff)
      BY DEF DocRole, Roles, Staff
    <2>2. FrameOK(f)
      BY <2>1 DEF FrameOK, JoinFrame
    <2>3. FramesOf(frames')
      BY <1>1, <1>2, <2>2, BecomesOK DEF JoinAsks
    <2>4. RestOf' /\ RoomsOf(rooms')
      BY <1>1, <1>2, MeetingAssumption DEF JoinAsks, RestOf, memory, tables
    <2>5. QED
      BY <2>3, <2>4 DEF IInv
  <1>3. ASSUME MeetingCall(q) PROVE IInv'
    <2> DEFINE f == [frames[q] EXCEPT !.pc = "called"]
    <2>1. FrameOK(f)
      BY <1>1, <1>3 DEF FrameOK, JoinFrame, MeetingCall
    <2>2. FramesOf(frames')
      BY <1>1, <1>3, <2>1, BecomesOK, EndsOK DEF MeetingCall
    <2>3. RestOf' /\ RoomsOf(rooms')
      BY <1>1, <1>3 DEF MeetingCall, RestOf, memory, counters, RoomIds
    <2>4. QED
      BY <2>2, <2>3 DEF IInv
  <1>4. ASSUME JoinDecides(q) PROVE IInv'
    <2> DEFINE f == frames[q]
               room == OpenRoom(Main, FALSE, MayUnmute, doc.blocked)
               reason == IF NeedsApproval(f.who, f.role) THEN "approval" ELSE "host"
               g == [f EXCEPT !.pc = "grow"]
    <2>1. f \in JoinFrame /\ f.who \in People /\ FrameOK(g)
      BY <1>1, <1>4 DEF FrameOK, JoinFrame, JoinDecides
    <2>2. Main \in RoomIds /\ doc.blocked \in SUBSET People
      BY <1>1 DEF RoomIds, RestOf
    <2>3. RoomOK(room)
      BY <1>1, <2>2, OpenRoomOK, MeetingAssumption
    <2>4. reason \in Reasons
      BY DEF Reasons
    <2> HIDE DEF reason, room
    <2>5. MayEnter(room, f.who) => RoomOK(Wait(room, f.who, reason))
      BY <2>1, <2>3, <2>4, WaitOK
    <2>6. FramesOf(frames')
      BY <1>1, <1>4, <2>1, BecomesOK, EndsOK DEF JoinDecides
    <2>7. RoomsOf(rooms')
      BY <1>1, <1>4, <2>2, <2>3, <2>5, SetRoomOK DEF JoinDecides, SetRoom, room, reason
    <2>8. RestOf'
      BY <1>1, <1>4 DEF JoinDecides, RestOf, tables, counters
    <2>9. QED
      BY <2>6, <2>7, <2>8 DEF IInv
  <1>5. ASSUME JoinFails(q) PROVE IInv'
    <2>1. FramesOf(frames')
      BY <1>1, <1>5, EndsOK DEF JoinFails
    <2>2. RestOf' /\ RoomsOf(rooms')
      BY <1>1, <1>5, MeetingAssumption DEF JoinFails, RestOf, memory, tables
    <2>3. QED
      BY <2>1, <2>2 DEF IInv
  <1>6. ASSUME JoinEnters(q) PROVE IInv'
    <2> DEFINE f == frames[q]
               room == Current(Main)
    <2>1. f \in JoinFrame /\ f.who \in People /\ f.role \in Roles
          /\ (f.who \in Guests => f.role \notin Staff)
      BY <1>1, <1>6 DEF FrameOK, JoinFrame, JoinEnters
    <2>2. Main \in RoomIds /\ RoomOK(room)
      BY <1>1, RoomOfIds DEF RoomIds
    <2> HIDE DEF room
    <2>3. MayEnter(room, f.who) => RoomOK(AdmitPerson(room, f.who, f.role))
      BY <2>1, <2>2, AdmitPersonOK DEF MayEnter
    <2>4. FrameOK([pc |-> "arrived"])
      BY DEF FrameOK
    <2>5. FramesOf(frames')
      BY <1>1, <1>6, <2>4, BecomesOK, EndsOK DEF JoinEnters
    <2>6. RoomsOf(rooms')
      BY <1>1, <1>6, <2>2, <2>3, SetRoomOK DEF JoinEnters, SetRoom, room
    <2>7. RestOf'
      BY <1>1, <1>6 DEF JoinEnters, RestOf, tables, counters
    <2>8. QED
      BY <2>5, <2>6, <2>7 DEF IInv
  <1>7. QED
    BY <1>2, <1>3, <1>4, <1>5, <1>6

LEMMA WelcomeKeeps ==
    ASSUME IInv, NEW q \in Requests, WelcomeReads(q) \/ Welcome(q)
    PROVE  IInv'
  <1>1. RoomsOf(rooms) /\ FramesOf(frames) /\ RestOf /\ FrameOK(frames[q])
    BY DEF IInv, FramesOf
  <1>2. ASSUME WelcomeReads(q) PROVE IInv'
    <2>1. FrameOK([pc |-> "welcome", left |-> WaitingForHost])
      BY DEF FrameOK, WaitingForHost
    <2>2. FramesOf(frames')
      BY <1>1, <1>2, <2>1, BecomesOK, EndsOK DEF WelcomeReads
    <2>3. RestOf' /\ RoomsOf(rooms')
      BY <1>1, <1>2 DEF WelcomeReads, RestOf, memory, tables, counters
    <2>4. QED
      BY <2>2, <2>3 DEF IInv
  <1>3. ASSUME Welcome(q) PROVE IInv'
    <2>1. PICK p \in frames[q].left :
            LET room == Current(Main) rest == frames[q].left \ {p} IN
            /\ IF rest = {} THEN Ends(q) ELSE Becomes(q, [frames[q] EXCEPT !.left = rest])
            /\ \/ /\ UNCHANGED faults
                  /\ rooms' = IF row[Main] = "active" /\ Waiting(room, p)
                              THEN [rooms EXCEPT ![Main] = AdmitWaiting(room, {p})] ELSE rooms
               \/ faults < MaxFaults /\ faults' = faults + 1 /\ UNCHANGED rooms
      BY <1>3 DEF Welcome
    <2> DEFINE room == Current(Main)
               f == [frames[q] EXCEPT !.left = @ \ {p}]
    <2>2. frames[q] \in [pc : {"welcome"}, left : SUBSET People] /\ p \in People
      BY <1>1, <1>3, <2>1 DEF FrameOK, Welcome
    <2>3. FrameOK(f)
      BY <2>2 DEF FrameOK
    <2>4. FramesOf(frames')
      BY <1>1, <2>1, <2>2, <2>3, BecomesOK, EndsOK
    <2>5. Main \in RoomIds /\ RoomOK(room)
      BY <1>1, RoomOfIds DEF RoomIds
    <2> HIDE DEF room
    <2>6. Waiting(room, p) => RoomOK(AdmitWaiting(room, {p}))
      <3>1. {p} \in SUBSET People
        BY <2>2
      <3>2. QED
        BY <2>5, <3>1, AdmitWaitingOK
    <2>7. RoomsOf(rooms')
      BY <1>1, <2>1, <2>5, <2>6, SetRoomOK DEF room
    <2>8. faults' \in 0..MaxFaults
      BY <1>1, <2>1, MeetingAssumption DEF RestOf
    <2>9. RestOf'
      BY <1>1, <1>3, <2>8 DEF Welcome, RestOf, tables
    <2>10. QED
      BY <2>4, <2>7, <2>9 DEF IInv
  <1>4. QED
    BY <1>2, <1>3

\* A command of a tab or of the server on one room, once the room stays consistent.
LEMMA MineKeeps ==
    ASSUME IInv, NEW r \in RoomIds, NEW new, RoomOK(new), Mine(r, new)
    PROVE  IInv'
  <1>1. RoomsOf(rooms')
    BY SetRoomOK DEF IInv, Mine, SetRoom
  <1>2. RestOf' /\ FramesOf(frames')
    BY MeetingAssumption DEF IInv, Mine, RestOf, tables
  <1>3. QED
    BY <1>1, <1>2 DEF IInv

LEMMA SocketKeeps ==
    ASSUME IInv, SocketStep
    PROVE  IInv'
  <1>1. RoomsOf(rooms) /\ \A r \in RoomIds : Exists(r) => RoomOK(rooms[r])
    BY RoomOfIds DEF IInv
  <1>2. ASSUME NEW r \in RoomIds, NEW l \in Legs, OnAttach(r, l) PROVE IInv'
    <2>0. (~MuteOnEntry) \in BOOLEAN
      BY MeetingAssumption
    <2>1. RoomOK(Attach(rooms[r], l, rooms[r].admitted[OwnerOf[l]], ~MuteOnEntry))
      BY <1>1, <1>2, <2>0, AttachOK DEF OnAttach
    <2>2. QED
      BY <1>2, <2>1, MineKeeps DEF OnAttach
  <1>3. ASSUME NEW r \in RoomIds, NEW l \in Legs, OnHand(r, l) PROVE IInv'
    <2> DEFINE n == IF OwnerOf[l] \in rooms[r].hands THEN LowerHands(rooms[r], {OwnerOf[l]})
                    ELSE RaiseHand(rooms[r], l)
    <2>1. RoomOK(n)
      BY <1>1, <1>3, LowerOK, RaiseHandOK DEF OnHand
    <2>2. QED
      BY <1>3, <2>1, MineKeeps DEF OnHand
  <1>4. ASSUME NEW r \in RoomIds, NEW l \in Legs, OnLeave(r, l) PROVE IInv'
    <2>1. RoomOK(Detach(rooms[r], l))
      BY <1>1, <1>4, DetachOK DEF OnLeave
    <2>2. QED
      BY <1>4, <2>1, MineKeeps DEF OnLeave
  <1>5. ASSUME NEW r \in RoomIds, NEW l \in Legs, NEW mic \in BOOLEAN, OnMedia(r, l, mic)
        PROVE  IInv'
    <2>1. RoomOK(Media(rooms[r], l, mic))
      BY <1>1, <1>5, MediaOK DEF OnMedia, MaySpeak
    <2>2. QED
      BY <1>5, <2>1, MineKeeps DEF OnMedia
  <1>6. ASSUME NEW p \in People, LeaveLobby(p) PROVE IInv'
    <2>1. RoomOK(Leave(rooms[Main], p)) /\ Main \in RoomIds
      BY <1>1, <1>6, LeaveOK DEF LeaveLobby, RoomIds
    <2>2. QED
      BY <1>6, <2>1, MineKeeps DEF LeaveLobby
  <1>7. ASSUME NEW l \in Legs, OnClose(l) PROVE IInv'
    <2>1. \A r \in RoomIds : Exists(r) => RoomOK(Detach(rooms[r], l))
      BY <1>1, DetachOK
    <2>2. \A r \in RoomIds : rooms'[r] = NoRoom \/ RoomOK(rooms'[r])
      BY <1>7, <2>1 DEF OnClose, Exists
    <2>3. rooms' \in [RoomIds -> Room \cup {NoRoom}]
      BY <1>7, <2>1 DEF OnClose, RoomOK, Exists
    <2>4. RestOf' /\ FramesOf(frames')
      BY <1>7, MeetingAssumption DEF IInv, OnClose, RestOf, tables
    <2>5. QED
      BY <2>2, <2>3, <2>4 DEF IInv, RoomsOf
  <1>8. QED
    BY <1>2, <1>3, <1>4, <1>5, <1>6, <1>7 DEF SocketStep

LEMMA OrderKeeps ==
    ASSUME IInv, NEW q \in Requests,
           (\E r \in RoomIds, l \in Legs, o \in Given : OrderAsks(q, r, l, o))
           \/ OrderRuns(q) \/ OrderFails(q) \/ BlockSaved(q) \/ ExpelNext(q)
    PROVE  IInv'
  <1>1. RoomsOf(rooms) /\ FramesOf(frames) /\ RestOf /\ FrameOK(frames[q])
    BY DEF IInv, FramesOf
  <1>2. ASSUME NEW r \in RoomIds, NEW l \in Legs, NEW o \in Given, OrderAsks(q, r, l, o)
        PROVE  IInv'
    <2> DEFINE f == [pc |-> "asked", room |-> r, who |-> OwnerOf[l],
                     role |-> rooms[r].members[l].role, order |-> o]
    <2>1. FrameOK(f)
      BY MeetingAssumption DEF FrameOK
    <2> HIDE DEF f
    <2>2. Becomes(q, f)
      BY <1>2 DEF OrderAsks, f
    <2>3. FramesOf(frames')
      BY <1>1, <2>1, <2>2, BecomesOK
    <2>4. RestOf' /\ RoomsOf(rooms')
      BY <1>1, <1>2, MeetingAssumption DEF OrderAsks, RestOf, memory, tables
    <2>5. QED
      BY <2>3, <2>4 DEF IInv
  <1>3. ASSUME OrderRuns(q) PROVE IInv'
    <2> DEFINE f == frames[q]
               room == Current(f.room)
               new == Ordered(room, f.order)
               done == MayOrder(room, f.who, f.role, f.order)
    <2>1. f.room \in RoomIds /\ f.order \in Order
      BY <1>1, <1>3 DEF FrameOK, OrderRuns
    <2>2. RoomOK(room)
      BY <1>1, <2>1, RoomOfIds
    <2>3. done => RoomOK(new)
      BY <2>1, <2>2, OrderedOK
    <2>4. done => FrameOK(NextOf(f, new))
      <3> HIDE DEF new
      <3>1. f.order.type = "kick" => f.order.who \in People /\ f.order.block \in BOOLEAN
        BY <2>1, OrderShape
      <3>2. QED
        BY <2>1, <2>3, <3>1 DEF NextOf, FrameOK, NoFrame
    <2> HIDE DEF new, room
    <2>5. CASE done
      <3>1. SetRoom(f.room, new) /\ Becomes(q, NextOf(f, new))
        BY <1>3, <2>5 DEF OrderRuns, new, room
      <3>2. RoomsOf(rooms')
        BY <1>1, <2>1, <2>3, <2>5, <3>1, SetRoomOK DEF SetRoom
      <3>3. FramesOf(frames')
        BY <1>1, <2>4, <2>5, <3>1, BecomesOK
      <3>4. /\ timer' = (IF f.order.type = "breakouts_close" THEN Armed(f.room, new) ELSE timer)
            /\ row' = (IF f.order.type = "end" /\ row[f.room] = "active"
                       THEN [row EXCEPT ![f.room] = "ended"] ELSE row)
            /\ children' = (IF f.order.type = "breakouts_open" THEN <<>> ELSE children)
            /\ listed' = (listed \/ f.order.type = "breakouts_open")
            /\ kicked' = (IF f.order.type = "kick" /\ f.order.block
                          THEN kicked \cup {f.order.who} ELSE kicked)
            /\ UNCHANGED <<ticking, closing, idle, doc, counters>>
        BY <1>3, <2>5 DEF OrderRuns, new, room
      <3>5. f.order.type = "kick" => f.order.who \in People
        BY <2>1, OrderShape
      <3>6. timer' \in BOOLEAN
        BY <1>1, <3>4, ArmedType DEF RestOf
      <3>7. RestOf'
        BY <1>1, <2>1, <3>4, <3>5, <3>6 DEF RestOf, counters
      <3>8. QED
        BY <3>2, <3>3, <3>7 DEF IInv
    <2>6. CASE ~done
      <3>1. Ends(q) /\ UNCHANGED <<rooms, timer, row, children, listed, kicked>>
            /\ UNCHANGED <<ticking, closing, idle, doc, counters>>
        BY <1>3, <2>6 DEF OrderRuns, new, room
      <3>2. QED
        BY <1>1, <3>1, EndsOK DEF IInv, RestOf, counters
    <2>7. QED
      BY <2>5, <2>6
  <1>4. ASSUME OrderFails(q) PROVE IInv'
    <2>1. FramesOf(frames')
      BY <1>1, <1>4, EndsOK DEF OrderFails
    <2>2. RestOf' /\ RoomsOf(rooms')
      BY <1>1, <1>4, MeetingAssumption DEF OrderFails, RestOf, memory, tables
    <2>3. QED
      BY <2>1, <2>2 DEF IInv
  <1>5. ASSUME BlockSaved(q) PROVE IInv'
    <2> DEFINE f == frames[q]
               g == [pc |-> "expel", room |-> f.room, who |-> f.who, block |-> f.block,
                     left |-> AllRooms(f.room)]
    <2>1. f.room \in RoomIds /\ f.who \in People /\ f.block \in BOOLEAN
      BY <1>1, <1>5 DEF FrameOK, BlockSaved
    <2>2. children \in Seq(RoomIds) /\ Main \in RoomIds
      BY <1>1 DEF RestOf, RoomIds
    <2>3. AllRooms(f.room) \in Seq(RoomIds)
      BY <2>1, <2>2 DEF AllRooms
    <2>4. FrameOK(g)
      BY <2>1, <2>3 DEF FrameOK
    <2>5. FramesOf(frames')
      BY <1>1, <1>5, <2>4, BecomesOK, EndsOK DEF BlockSaved
    <2>6. RestOf' /\ RoomsOf(rooms')
      BY <1>1, <1>5, <2>1, MeetingAssumption DEF BlockSaved, RestOf, memory
    <2>7. QED
      BY <2>5, <2>6 DEF IInv
  <1>6. ASSUME ExpelNext(q) PROVE IInv'
    <2> DEFINE f == frames[q]
               r == Head(f.left)
               g == [f EXCEPT !.left = Tail(@)]
    <2>1. f \in [pc : {"expel"}, room : RoomIds, who : People, block : BOOLEAN, left : Seq(RoomIds)]
      BY <1>1, <1>6 DEF FrameOK, ExpelNext
    <2>2. CASE f.left = <<>>
      <3>1. Ends(q) /\ UNCHANGED rooms
        BY <1>6, <2>2 DEF ExpelNext
      <3>2. QED
        BY <1>1, <1>6, <3>1, EndsOK DEF IInv, RestOf, ExpelNext, tables, counters
    <2>3. CASE f.left # <<>>
      <3>1. r \in RoomIds /\ Tail(f.left) \in Seq(RoomIds)
        BY <2>1, <2>3
      <3>2. FrameOK(g)
        BY <2>1, <3>1 DEF FrameOK
      <3>3. FramesOf(frames')
        BY <1>1, <1>6, <2>3, <3>2, BecomesOK DEF ExpelNext
      <3>4. Exists(r) => RoomOK(Expel(rooms[r], f.who, f.block))
        BY <1>1, <2>1, <3>1, RoomOfIds, ExpelOK
      <3>5. RoomsOf(rooms')
        BY <1>1, <1>6, <2>3, <3>1, <3>4, SetRoomOK DEF ExpelNext
      <3>6. RestOf'
        BY <1>1, <1>6 DEF RestOf, ExpelNext, tables, counters
      <3>7. QED
        BY <3>3, <3>5, <3>6 DEF IInv
    <2>4. QED
      BY <2>2, <2>3
  <1>7. QED
    BY <1>2, <1>3, <1>4, <1>5, <1>6

LEMMA SmallKeeps ==
    ASSUME IInv, NEW q \in Requests, SmallOpens(q) \/ SmallAdmits(q) \/ OpeningFails(q)
    PROVE  IInv'
  <1>1. RoomsOf(rooms) /\ FramesOf(frames) /\ RestOf /\ FrameOK(frames[q])
    BY DEF IInv, FramesOf
  <1>2. ASSUME SmallOpens(q) PROVE IInv'
    <2>1. PICK s \in frames[q].left :
            /\ row' = [row EXCEPT ![s] = "active"]
            /\ children' = IF listed THEN Append(children, s) ELSE children
            /\ SetRoom(s, OpenRoom(s, TRUE, frames[q].snapshot.allow, frames[q].snapshot.blocked))
            /\ Becomes(q, [pc |-> "placing", snapshot |-> frames[q].snapshot,
                           left |-> frames[q].left \ {s}, small |-> s])
      BY <1>2 DEF SmallOpens
    <2> DEFINE snap == frames[q].snapshot
               f == [pc |-> "placing", snapshot |-> snap, left |-> frames[q].left \ {s}, small |-> s]
    <2>2. RoomOK(snap) /\ frames[q].left \subseteq Smalls
      BY <1>1, <1>2 DEF FrameOK, SmallOpens
    <2>3. s \in Smalls /\ s \in RoomIds
      BY <2>2 DEF RoomIds
    <2>4. snap.allow \in BOOLEAN /\ snap.blocked \in SUBSET People
      BY <2>2 DEF RoomOK, Room
    <2>5. RoomOK(OpenRoom(s, TRUE, snap.allow, snap.blocked))
      BY <1>1, <2>3, <2>4, OpenRoomOK
    <2>6. FrameOK(f)
      BY <2>2, <2>3 DEF FrameOK
    <2>7. RoomsOf(rooms')
      BY <1>1, <2>1, <2>3, <2>5, SetRoomOK DEF SetRoom
    <2>8. FramesOf(frames')
      BY <1>1, <2>1, <2>6, BecomesOK
    <2>9. children' \in Seq(Smalls) /\ row' \in [RoomIds -> {"none", "active", "ended", "told", "closed"}]
      BY <1>1, <2>1, <2>3 DEF RestOf
    <2>10. RestOf'
      BY <1>1, <1>2, <2>9 DEF RestOf, SmallOpens, counters
    <2>11. QED
      BY <2>7, <2>8, <2>10 DEF IInv
  <1>3. ASSUME SmallAdmits(q) PROVE IInv'
    <2> DEFINE f == frames[q]
               room == Current(f.small)
               g == [pc |-> "opening", snapshot |-> f.snapshot, left |-> f.left]
    <2>1. RoomOK(f.snapshot) /\ f.left \subseteq Smalls /\ f.small \in RoomIds
      BY <1>1, <1>3 DEF FrameOK, SmallAdmits, RoomIds
    <2>2. RoomOK(room)
      BY <1>1, <2>1, RoomOfIds
    <2> HIDE DEF room
    <2>3. Placed(f) \in SUBSET People /\ \A p \in Placed(f) :
            /\ f.snapshot.admitted[p] \in Roles /\ p \notin room.blocked
            /\ p \in Guests => f.snapshot.admitted[p] \notin Staff
      BY <2>1 DEF Placed, MayEnter, IsAdmitted, RoomOK, Room, StaffOK, room
    <2>4. RoomOK(AdmitEach(room, Placed(f), f.snapshot.admitted))
      BY <2>2, <2>3, AdmitEachOK
    <2>5. RoomsOf(rooms')
      <3>1. CASE Placed(f) = {}
        <4>1. rooms' = [rooms EXCEPT ![f.small] = rooms[f.small]]
          BY <1>3, <3>1 DEF SmallAdmits, SetRoom
        <4>2. QED
          BY <1>1, <2>1, <4>1, SetRoomOK DEF RoomsOf
      <3>2. CASE Placed(f) # {}
        <4>1. rooms' = [rooms EXCEPT ![f.small] = AdmitEach(room, Placed(f), f.snapshot.admitted)]
          BY <1>3, <3>2 DEF SmallAdmits, SetRoom, room
        <4>2. QED
          BY <1>1, <2>1, <2>4, <4>1, SetRoomOK
      <3>3. QED
        BY <3>1, <3>2
    <2>6. FrameOK(g)
      BY <2>1 DEF FrameOK
    <2>7. FramesOf(frames')
      BY <1>1, <1>3, <2>6, BecomesOK, EndsOK DEF SmallAdmits
    <2>8. timer' \in BOOLEAN
      BY <1>1, <1>3, ArmedType DEF SmallAdmits, RestOf
    <2>9. RestOf'
      BY <1>1, <1>3, <2>8 DEF SmallAdmits, RestOf, tables, counters
    <2>10. QED
      BY <2>5, <2>7, <2>9 DEF IInv
  <1>4. ASSUME OpeningFails(q) PROVE IInv'
    <2>1. Main \in RoomIds /\ RoomOK(EndBreakouts(Current(Main)))
      BY <1>1, RoomOfIds, EndBreakoutsOK DEF RoomIds
    <2>2. RoomsOf(rooms')
      BY <1>1, <1>4, <2>1, SetRoomOK DEF OpeningFails, SetRoom
    <2>3. FramesOf(frames')
      BY <1>1, <1>4, EndsOK DEF OpeningFails
    <2>4. children' \in Seq(Smalls) /\ closing' \subseteq Smalls /\ faults' \in 0..MaxFaults
      BY <1>1, <1>4, MeetingAssumption DEF OpeningFails, RestOf, ToClose
    <2>5. RestOf'
      BY <1>1, <1>4, <2>4 DEF OpeningFails, RestOf, tables
    <2>6. QED
      BY <2>2, <2>3, <2>5 DEF IInv
  <1>5. QED
    BY <1>2, <1>3, <1>4

LEMMA ServerKeeps ==
    ASSUME IInv, ServerStep
    PROVE  IInv'
  <1>1. RoomsOf(rooms) /\ FramesOf(frames) /\ RestOf
    BY DEF IInv
  <1>2. ASSUME TimerFires PROVE IInv'
    <2>1. Main \in RoomIds /\ (Exists(Main) => RoomOK(Tick(rooms[Main])))
      BY <1>1, RoomOfIds, TickOK DEF RoomIds
    <2>2. RoomsOf(rooms')
      BY <1>1, <1>2, <2>1, SetRoomOK DEF TimerFires, SetRoom
    <2>3. timer' \in BOOLEAN /\ ticking' \in {"no", "rearm", "end", "ended"}
      BY <1>1, <1>2 DEF TimerFires, RestOf
    <2>4. RestOf' /\ FramesOf(frames')
      BY <1>1, <1>2, <2>3 DEF TimerFires, RestOf, tables, counters
    <2>5. QED
      BY <2>2, <2>4 DEF IInv
  <1>3. ASSUME TickGoesOn PROVE IInv'
    <2>1. timer' \in BOOLEAN
      BY <1>1, <1>3, ArmedType DEF TickGoesOn, TickReads, TickFails, TickRearms, RestOf
    <2>2. children' \in Seq(Smalls) /\ listed' \in BOOLEAN /\ closing' \subseteq Smalls
      <3>1. \/ UNCHANGED <<children, listed, closing>>
            \/ children' = <<>> /\ listed' = FALSE /\ closing' = closing \cup Smalls
        BY <1>3 DEF TickGoesOn, TickReads, TickFails, TickRearms, ToClose
      <3>2. children \in Seq(Smalls) /\ listed \in BOOLEAN /\ closing \subseteq Smalls
        BY <1>1 DEF RestOf
      <3>3. QED
        BY <3>1, <3>2, NoChildren
    <2>3. faults' \in 0..MaxFaults
      BY <1>1, <1>3, MeetingAssumption DEF TickGoesOn, TickReads, TickFails, TickRearms, RestOf
    <2>4. RestOf' /\ FramesOf(frames') /\ RoomsOf(rooms')
      BY <1>1, <1>3, <2>1, <2>2, <2>3 DEF TickGoesOn, TickReads, TickFails, TickRearms, RestOf, tables
    <2>5. QED
      BY <2>4 DEF IInv
  <1>4. ASSUME NEW s \in Smalls, CloserEnds(s) PROVE IInv'
    BY <1>1, <1>4 DEF CloserEnds, RestOf, counters, IInv, RoomIds
  <1>5. ASSUME NEW r \in RoomIds, RoomTold(r) PROVE IInv'
    <2>1. RoomsOf(rooms')
      BY <1>1, <1>5, SetRoomOK DEF RoomTold, SetRoom
    <2>2. RestOf' /\ FramesOf(frames')
      BY <1>1, <1>5 DEF RoomTold, RestOf, counters
    <2>3. QED
      BY <2>1, <2>2 DEF IInv
  <1>6. ASSUME NEW r \in RoomIds, CallClosed(r) PROVE IInv'
    <2>1. {children[i] : i \in 1..Len(children)} \subseteq Smalls
      BY <1>1 DEF RestOf
    <2>2. children' \in Seq(Smalls) /\ closing' \subseteq Smalls /\ listed' \in BOOLEAN
          /\ timer' \in BOOLEAN /\ row' \in [RoomIds -> {"none", "active", "ended", "told", "closed"}]
      <3>1. \/ UNCHANGED <<closing, children, listed, timer>>
            \/ /\ closing' = closing \cup {children[i] : i \in 1..Len(children)}
               /\ children' = <<>> /\ listed' = FALSE /\ timer' = FALSE
        BY <1>6 DEF CallClosed
      <3>2. row' = [row EXCEPT ![r] = "closed"]
        BY <1>6 DEF CallClosed
      <3>3. children \in Seq(Smalls) /\ listed \in BOOLEAN /\ closing \subseteq Smalls
            /\ timer \in BOOLEAN /\ row \in [RoomIds -> {"none", "active", "ended", "told", "closed"}]
        BY <1>1 DEF RestOf
      <3>4. QED
        BY <2>1, <3>1, <3>2, <3>3, NoChildren
    <2>3. RestOf' /\ FramesOf(frames') /\ RoomsOf(rooms')
      BY <1>1, <1>6, <2>2 DEF CallClosed, RestOf, counters
    <2>4. QED
      BY <2>3 DEF IInv
  <1>7. ASSUME NEW r \in RoomIds, SweepEnds(r) PROVE IInv'
    BY <1>1, <1>7 DEF SweepEnds, RestOf, counters, IInv
  <1>8. QED
    BY <1>2, <1>3, <1>4, <1>5, <1>6, <1>7 DEF ServerStep

LEMMA CohostKeeps ==
    ASSUME IInv, NEW q \in Requests,
           (\E p \in People : EditCohosts(q, p)) \/ CohostsRead(q) \/ CohostNext(q)
    PROVE  IInv'
  <1>1. RoomsOf(rooms) /\ FramesOf(frames) /\ RestOf /\ FrameOK(frames[q])
    BY DEF IInv, FramesOf
  <1>2. ASSUME NEW p \in People, EditCohosts(q, p) PROVE IInv'
    <2> DEFINE f == [pc |-> "edited", who |-> p,
                     role |-> IF p \in doc.cohosts THEN "participant" ELSE "cohost"]
    <2>1. FrameOK(f)
      BY DEF FrameOK
    <2>2. FramesOf(frames')
      BY <1>1, <1>2, <2>1, BecomesOK DEF EditCohosts
    <2>3. p \in People \ Guests
      BY <1>2, MeetingAssumption DEF EditCohosts
    <2>4. doc' \in [blocked : SUBSET People, cohosts : SUBSET (People \ Guests)]
      BY <1>1, <1>2, <2>3 DEF EditCohosts, RestOf
    <2>5. RestOf' /\ RoomsOf(rooms')
      BY <1>1, <1>2, <2>4, MeetingAssumption DEF EditCohosts, RestOf, memory
    <2>6. QED
      BY <2>2, <2>5 DEF IInv
  <1>3. ASSUME CohostsRead(q) PROVE IInv'
    <2> DEFINE f == [pc |-> "cohosts", who |-> frames[q].who, role |-> frames[q].role,
                     left |-> <<Main>> \o children]
    <2>1. children \in Seq(RoomIds) /\ <<Main>> \in Seq(RoomIds)
      BY <1>1 DEF RestOf, RoomIds
    <2>2. <<Main>> \o children \in Seq(RoomIds)
      BY <2>1
    <2>3. FrameOK(f)
      BY <1>1, <1>3, <2>2 DEF FrameOK, CohostsRead
    <2>4. FramesOf(frames')
      BY <1>1, <1>3, <2>3, BecomesOK, EndsOK DEF CohostsRead
    <2>5. RestOf' /\ RoomsOf(rooms')
      BY <1>1, <1>3 DEF CohostsRead, RestOf, memory, tables, counters
    <2>6. QED
      BY <2>4, <2>5 DEF IInv
  <1>4. ASSUME CohostNext(q) PROVE IInv'
    <2> DEFINE f == frames[q]
               r == Head(f.left)
               g == [f EXCEPT !.left = Tail(@)]
               o == [type |-> "set_role", who |-> f.who, role |-> f.role]
    <2>1. f \in [pc : {"cohosts"}, who : People, role : {"cohost", "participant"}, left : Seq(RoomIds)]
      BY <1>1, <1>4 DEF FrameOK, CohostNext
    <2>2. CASE f.left = <<>>
      <3>1. Ends(q) /\ UNCHANGED rooms
        BY <1>4, <2>2 DEF CohostNext
      <3>2. QED
        BY <1>1, <1>4, <3>1, EndsOK DEF IInv, RestOf, CohostNext, tables, counters
    <2>3. CASE f.left # <<>>
      <3>1. r \in RoomIds /\ Tail(f.left) \in Seq(RoomIds)
        BY <2>1, <2>3
      <3>2. FrameOK(g)
        BY <2>1, <3>1 DEF FrameOK
      <3>3. FramesOf(frames')
        BY <1>1, <1>4, <2>3, <3>2, BecomesOK DEF CohostNext
      <3>4. o \in Order
        BY <2>1 DEF Order
      <3>5. MayOrder(Current(r), Host, "host", o) => RoomOK(Ordered(Current(r), o))
        <4> HIDE DEF o
        <4>1. QED
          BY <1>1, <3>1, <3>4, RoomOfIds, OrderedOK
      <3>6. RoomsOf(rooms')
        BY <1>1, <1>4, <2>3, <3>1, <3>5, SetRoomOK DEF CohostNext
      <3>7. RestOf'
        BY <1>1, <1>4 DEF RestOf, CohostNext, tables, counters
      <3>8. QED
        BY <3>3, <3>6, <3>7 DEF IInv
    <2>4. QED
      BY <2>2, <2>3
  <1>5. QED
    BY <1>2, <1>3, <1>4

-----------------------------------------------------------------------------
LEMMA InitIInv == Init => IInv
  <1> SUFFICES ASSUME Init PROVE IInv
    OBVIOUS
  <1>1. RoomsOf(rooms)
    BY DEF Init, RoomsOf
  <1>2. FrameOK(NoFrame)
    BY DEF FrameOK, NoFrame
  <1>3. FramesOf(frames)
    BY <1>2 DEF Init, FramesOf
  <1>4. RestOf
    <2>1. row \in [RoomIds -> {"none", "active", "ended", "told", "closed"}]
          /\ doc \in [blocked : SUBSET People, cohosts : SUBSET (People \ Guests)]
      BY DEF Init
    <2>2. /\ children \in Seq(Smalls) /\ listed \in BOOLEAN
          /\ timer \in BOOLEAN /\ ticking \in {"no", "rearm", "end", "ended"}
          /\ closing \subseteq Smalls /\ idle \subseteq RoomIds /\ kicked \subseteq People
      BY NoChildren DEF Init
    <2>3. asked \in 0..MaxAsked /\ moves \in 0..MaxMoves /\ faults \in 0..MaxFaults
      BY MeetingAssumption DEF Init
    <2>4. QED
      BY <2>1, <2>2, <2>3 DEF RestOf
  <1>5. QED
    BY <1>1, <1>3, <1>4 DEF IInv

LEMMA NextIInv == IInv /\ [Next]_vars => IInv'
  <1> SUFFICES ASSUME IInv, [Next]_vars PROVE IInv'
    OBVIOUS
  <1>1. ASSUME NEW q \in Requests, RequestStep(q) PROVE IInv'
    BY <1>1, JoinKeeps, WelcomeKeeps, OrderKeeps, SmallKeeps, CohostKeeps DEF RequestStep
  <1>2. ASSUME NEW q \in Requests, NEW p \in People, JoinAsks(q, p) \/ EditCohosts(q, p)
        PROVE  IInv'
    BY <1>2, JoinKeeps, CohostKeeps
  <1>3. ASSUME NEW q \in Requests, NEW r \in RoomIds, NEW l \in Legs, NEW o \in Given,
               OrderAsks(q, r, l, o)
        PROVE  IInv'
    BY <1>3, OrderKeeps
  <1>4. ASSUME NEW r \in RoomIds, SweepSees(r) PROVE IInv'
    <2>1. RoomsOf(rooms') /\ FramesOf(frames')
      BY <1>4 DEF SweepSees, IInv
    <2>2. RestOf'
      BY <1>4 DEF SweepSees, IInv, RestOf, tables, counters
    <2>3. QED
      BY <2>1, <2>2 DEF IInv
  <1>5. CASE UNCHANGED vars
    BY <1>5 DEF vars, memory, tables, counters, IInv, RestOf
  <1>6. QED
    BY <1>1, <1>2, <1>3, <1>4, <1>5, SocketKeeps, ServerKeeps DEF Next

\* Every room stays consistent, and every request carries what it may.
THEOREM Invariance == Spec => []IInv
  <1>1. QED
    BY InitIInv, NextIInv, PTL DEF Spec

-----------------------------------------------------------------------------
\* Of a room that does not exist every property of a room holds.
LEMMA RoomInvariant ==
    ASSUME RoomsOf(rooms), NEW r \in RoomIds
    PROVE  /\ LegsOK(rooms[r]) /\ PeopleOK(rooms[r]) /\ PlacesOK(rooms[r]) /\ StaffOK(rooms[r])
           /\ rooms[r].members \in [Legs -> Member] /\ rooms[r].blocked \subseteq People
           /\ rooms[r].hands \subseteq People
  <1>1. CASE rooms[r] = NoRoom
    <2>1. NoMember \in Member /\ NoMember.role = NoRole
      BY DEF NoMember, Member
    <2>2. /\ \A l \in Legs : ~Attached(NoRoom, l) /\ NoRoom.members[l] = NoMember
          /\ \A p \in People : ~IsAdmitted(NoRoom, p) /\ ~Waiting(NoRoom, p)
      BY <2>1, NoRoomFields DEF Attached, IsAdmitted, Waiting
    <2>3. LegsOK(NoRoom) /\ PeopleOK(NoRoom) /\ PlacesOK(NoRoom)
      BY <2>2, NoRoomFields DEF LegsOK, PeopleOK, PlacesOK
    <2>4. StaffOK(NoRoom)
      BY NoRoomFields, RoomAssumption DEF StaffOK, Staff, NoRole
    <2>5. QED
      BY <1>1, <2>1, <2>3, <2>4, NoRoomFields
  <1>2. CASE RoomOK(rooms[r])
    BY <1>2 DEF RoomOK, Room
  <1>3. QED
    BY <1>1, <1>2 DEF RoomsOf

\* Every variable keeps its type: see TypeOK in MeetingRooms.
THEOREM TypeCorrect == Spec => []TypeOK
  <1>1. IInv => TypeOK
    BY DEF IInv, RoomsOf, FramesOf, FrameOK, RestOf, TypeOK, RoomOK
  <1>2. QED
    BY <1>1, Invariance, PTL

\* Nobody who is kept out of a room is in it (expel, join_meeting, open_breakout_calls).
THEOREM KeptOut == Spec => []BlockedOut
  <1>1. IInv => BlockedOut
    <2>1. SUFFICES ASSUME IInv, NEW r \in RoomIds, NEW p \in rooms[r].blocked
                   PROVE  ~IsAdmitted(rooms[r], p) /\ ~Waiting(rooms[r], p)
                          /\ LegsIn(rooms[r], p) = {}
      BY DEF BlockedOut
    <2>2. LegsOK(rooms[r]) /\ PeopleOK(rooms[r])
      BY <2>1, RoomInvariant DEF IInv
    <2>3. ~IsAdmitted(rooms[r], p) /\ ~Waiting(rooms[r], p)
      BY <2>2 DEF PeopleOK
    <2>4. LegsIn(rooms[r], p) = {}
      BY <2>2, <2>3 DEF LegsOK, LegsIn
    <2>5. QED
      BY <2>3, <2>4
  <1>2. QED
    BY <1>1, Invariance, PTL

\* Whoever has a tab in a room, its floor, its spotlight or a place is admitted to it,
\* and nobody admitted waits (expel, set_role, attach, detach).
THEOREM Admission == Spec => []InsideIsAdmitted
  <1>1. IInv => InsideIsAdmitted
    BY RoomInvariant DEF IInv, InsideIsAdmitted, LegsOK, PeopleOK, PlacesOK
  <1>2. QED
    BY <1>1, Invariance, PTL

\* The queue of hands is that of the tabs that show one (raise_hand, lower_hands, detach).
THEOREM Hands == Spec => []HandsMatch
  <1>1. IInv => HandsMatch
    <2>1. SUFFICES ASSUME IInv, NEW r \in RoomIds
                   PROVE  rooms[r].hands = {OwnerOf[l] : l \in {k \in Legs : rooms[r].members[k].hand}}
      BY DEF HandsMatch
    <2>2. LegsOK(rooms[r]) /\ rooms[r].members \in [Legs -> Member] /\ rooms[r].hands \subseteq People
      BY <2>1, RoomInvariant DEF IInv
    <2>3. ASSUME NEW l \in Legs, rooms[r].members[l].hand
          PROVE  OwnerOf[l] \in rooms[r].hands
      <3>1. NoMember.hand = FALSE
        BY DEF NoMember
      <3>2. Attached(rooms[r], l)
        BY <2>2, <2>3, <3>1 DEF LegsOK
      <3>3. rooms[r].members[l].hand = (OwnerOf[l] \in rooms[r].hands)
        BY <2>2, <3>2 DEF LegsOK
      <3>4. QED
        BY <2>3, <3>3
    <2>4. ASSUME NEW p \in rooms[r].hands
          PROVE  \E l \in Legs : OwnerOf[l] = p /\ rooms[r].members[l].hand
      <3>1. PICK l \in Legs : OwnerOf[l] = p /\ Attached(rooms[r], l)
        BY <2>2 DEF LegsOK
      <3>2. rooms[r].members[l].hand = (OwnerOf[l] \in rooms[r].hands)
        BY <2>2, <3>1 DEF LegsOK
      <3>3. (OwnerOf[l] \in rooms[r].hands) = TRUE
        BY <3>1
      <3>4. QED
        BY <3>1, <3>2, <3>3
    <2>5. QED
      BY <2>3, <2>4
  <1>2. QED
    BY <1>1, Invariance, PTL

\* No guest moderates, in any room (MaySetRole, the roles of join_meeting).
THEOREM Guesthood == Spec => []GuestsDoNotModerate
  <1>1. IInv => GuestsDoNotModerate
    BY RoomInvariant DEF IInv, GuestsDoNotModerate, StaffOK, AdmittedStaff
  <1>2. QED
    BY <1>1, Invariance, PTL

-----------------------------------------------------------------------------
(* Who organises *)

\* In a room who organises is host or is not in it at all, and is not kept out.
HostOK(r) == r.admitted[Host] \in {NoRole, "host"} /\ ~Waiting(r, Host) /\ Host \notin r.blocked
HostFrame(f) ==
    /\ f.pc \in {"found", "called", "grow"} => (f.who = Host => f.role = "host")
    /\ f.pc \in {"events", "expel"} => f.who # Host
    /\ f.pc \in {"opening", "placing"} => HostOK(f.snapshot)
HInv ==
    /\ \A r \in RoomIds : HostOK(rooms[r])
    /\ \A q \in Requests : HostFrame(frames[q])
    /\ Host \notin doc.blocked /\ Host \notin kicked

LEMMA HostIs == Host \in People /\ Host \notin Guests /\ DocRole(Host) = "host"
  BY MeetingAssumption DEF DocRole

\* Whatever leaves the standing of who organises as it was.
LEMMA HostSame ==
    ASSUME NEW r, NEW n, HostOK(r), n.admitted[Host] = r.admitted[Host],
           n.lobby[Host] = r.lobby[Host], Host \in n.blocked => Host \in r.blocked
    PROVE  HostOK(n)
  BY DEF HostOK, Waiting

LEMMA HostOpens ==
    ASSUME NEW r \in RoomIds, NEW small, NEW allow, NEW blocked, Host \notin blocked,
           HostOK(rooms[r])
    PROVE  HostOK(OpenRoom(r, small, allow, blocked)) /\ HostOK(Current(r))
  <1>1. HostOK([NewRoom EXCEPT !.small = small, !.allow = allow, !.blocked = blocked])
        /\ HostOK(NewRoom)
    BY HostIs DEF NewRoom, HostOK, Waiting
  <1>2. QED
    BY <1>1 DEF OpenRoom, Current

\* What does not say who is admitted, waits or is kept out.
LEMMA StandingKept ==
    ASSUME NEW r \in Room, NEW who, NEW change, NEW allow, NEW hands
    PROVE  /\ SamePeople(WithLegsOf(r, who, change), r)
           /\ SamePeople(WithLegsOf([r EXCEPT !.allow = allow], who, change), r)
           /\ SamePeople(WithLegsOf([r EXCEPT !.hands = hands], who, change), r)
  BY DEF Room, WithLegsOf, SamePeople

LEMMA SocketStanding ==
    ASSUME NEW r \in Room, NEW l \in Legs, NEW role, NEW mic
    PROVE  /\ SamePeople(Attach(r, l, role, mic), r) /\ SamePeople(Media(r, l, mic), r)
           /\ SamePeople(RaiseHand(r, l), r) /\ SamePeople(LowerHands(r, {OwnerOf[l]}), r)
           /\ SamePeople(Detach(r, l), r)
  <1>1. SamePeople(r, r)
    BY DEF SamePeople
  <1>2. SamePeople(Attach(r, l, role, mic), r) /\ SamePeople(Media(r, l, mic), r)
    BY DEF Attach, Media, Room, SamePeople
  <1>3. SamePeople(RaiseHand(r, l), r) /\ SamePeople(LowerHands(r, {OwnerOf[l]}), r)
    BY <1>1, StandingKept DEF RaiseHand, LowerHands
  <1>4. SamePeople(Detach(r, l), r)
    <2> DEFINE n == [r EXCEPT !.members[l] = NoMember]
    <2>1. n \in Room /\ SamePeople(n, r)
      <3>1. NoMember \in Member
        BY DEF NoMember, Member
      <3>2. QED
        BY <3>1 DEF Room, SamePeople
    <2> HIDE DEF n
    <2>2. SamePeople(LowerHands(n, {OwnerOf[l]}), n)
      BY <2>1, StandingKept DEF LowerHands
    <2>3. SamePeople(LowerHands(n, {OwnerOf[l]}), r)
      BY <2>1, <2>2 DEF SamePeople
    <2>4. QED
      BY <2>1, <2>3 DEF Detach, n
  <1>5. QED
    BY <1>2, <1>3, <1>4

LEMMA HostStands ==
    ASSUME NEW r, NEW n, HostOK(r), SamePeople(n, r)
    PROVE  HostOK(n)
  BY HostSame DEF SamePeople

\* Admission, refusal, a new role and an expulsion of somebody else.
LEMMA OthersEnter ==
    ASSUME NEW r \in Room, HostOK(r), NEW who \in SUBSET People, Host \notin who, NEW role
    PROVE  HostOK(AdmitEach(r, who, role))
  <1> DEFINE n == AdmitEach(r, who, role)
  <1>1. /\ n.admitted = [p \in People |-> IF p \in who THEN role[p] ELSE r.admitted[p]]
        /\ n.lobby = [p \in People |-> IF p \in who THEN NoRole ELSE r.lobby[p]]
        /\ n.blocked = r.blocked
    BY DEF AdmitEach, Room
  <1> HIDE DEF n
  <1>2. HostOK(n)
    BY <1>1, HostSame, HostIs
  <1>3. QED
    BY <1>2 DEF n

LEMMA OtherEnters ==
    ASSUME NEW r \in Room, HostOK(r), NEW p \in People, p # Host, NEW role
    PROVE  HostOK(AdmitPerson(r, p, role))
  <1> DEFINE n == AdmitPerson(r, p, role)
  <1>1. /\ n.admitted = [r.admitted EXCEPT ![p] = role] /\ n.blocked = r.blocked
        /\ n.lobby = [r.lobby EXCEPT ![p] = NoRole]
    BY DEF AdmitPerson, Room
  <1> HIDE DEF n
  <1>2. n.admitted[Host] = r.admitted[Host] /\ n.lobby[Host] = r.lobby[Host]
    BY <1>1, HostIs DEF Room
  <1>3. HostOK(n)
    BY <1>1, <1>2, HostSame
  <1>4. QED
    BY <1>3 DEF n

LEMMA OtherWaits ==
    ASSUME NEW r \in Room, HostOK(r), NEW p \in People, p # Host, NEW reason
    PROVE  HostOK([r EXCEPT !.lobby[p] = reason])
  <1> DEFINE n == [r EXCEPT !.lobby[p] = reason]
  <1>1. /\ n.admitted = r.admitted /\ n.blocked = r.blocked
        /\ n.lobby = [r.lobby EXCEPT ![p] = reason]
    BY DEF Room
  <1> HIDE DEF n
  <1>2. n.lobby[Host] = r.lobby[Host]
    BY <1>1, HostIs DEF Room
  <1>3. HostOK(n)
    BY <1>1, <1>2, HostSame
  <1>4. QED
    BY <1>3 DEF n

LEMMA OtherGoes ==
    ASSUME NEW r \in Room, HostOK(r), NEW p \in People, p # Host, NEW block \in BOOLEAN
    PROVE  HostOK(Expel(r, p, block))
  <1> DEFINE n == Expel(r, p, block)
  <1>1. /\ n.admitted = [r.admitted EXCEPT ![p] = NoRole]
        /\ n.lobby = [r.lobby EXCEPT ![p] = NoRole]
        /\ n.blocked = IF block THEN r.blocked \cup {p} ELSE r.blocked
    BY DEF Expel, Room
  <1> HIDE DEF n
  <1>2. /\ n.admitted[Host] = r.admitted[Host] /\ n.lobby[Host] = r.lobby[Host]
        /\ Host \in n.blocked => Host \in r.blocked
    BY <1>1, HostIs DEF Room
  <1>3. HostOK(n)
    BY <1>2, HostSame
  <1>4. QED
    BY <1>3 DEF n

LEMMA OtherRole ==
    ASSUME NEW r \in Room, HostOK(r), NEW p \in People, p # Host, NEW new
    PROVE  HostOK(SetRole(r, p, new))
  <1> DEFINE given == IF new = "participant" /\ p \in Guests THEN "guest" ELSE new
             change == [m \in Member |-> [m EXCEPT !.role = given]]
             b == AdmitPerson(r, p, given)
             n == WithLegsOf(b, {p}, change)
  <1>1. SetRole(r, p, new) = n
    BY DEF SetRole
  <1> HIDE DEF given, change
  <1>2. n.admitted = b.admitted /\ n.lobby = b.lobby /\ n.blocked = b.blocked
    BY DEF WithLegsOf, AdmitPerson, Room
  <1>3. HostOK(b)
    BY OtherEnters
  <1> HIDE DEF n, b
  <1>4. HostOK(n)
    BY <1>2, <1>3, HostSame
  <1>5. QED
    BY <1>1, <1>4

\* No order that is accepted acts on the standing of who organises.
LEMMA OrderHost ==
    ASSUME NEW r, RoomOK(r), HostOK(r), NEW a, NEW role, NEW o \in Order, MayOrder(r, a, role, o)
    PROVE  HostOK(Ordered(r, o)) /\ (o.type = "kick" => o.who # Host)
  <1> DEFINE t == o.type
  <1>0. r \in Room /\ SamePeople(r, r)
    BY DEF RoomOK, SamePeople
  <1>1. CASE t = "kick"
    <2>1. "who" \in DOMAIN o /\ o.who \in People /\ o.block \in BOOLEAN
      BY <1>1 DEF Order
    <2>2. ASSUME o.who = Host PROVE FALSE
      <3>1. r.admitted[Host] = NoRole
        BY <1>1, <2>1, <2>2 DEF MayOrder, Untouchable, HostOK
      <3>2. LegsIn(r, Host) = {} /\ ~Waiting(r, Host) /\ ~IsAdmitted(r, Host)
        BY <3>1 DEF RoomOK, LegsOK, LegsIn, IsAdmitted, HostOK
      <3>3. QED
        BY <1>1, <2>2, <3>2 DEF MayOrder
    <2>3. HostOK(Expel(r, o.who, o.block))
      BY <1>0, <2>1, <2>2, OtherGoes
    <2>4. QED
      BY <1>1, <2>2, <2>3 DEF Ordered
  <1>2. CASE t = "set_role"
    <2>1. o.who \in People /\ MaySetRole(r, role, o.who, o.role)
      BY <1>2, OrderShape DEF MayOrder
    <2>2. o.who # Host
      BY <2>1 DEF MaySetRole, HostOK
    <2>3. HostOK(SetRole(r, o.who, o.role))
      BY <1>0, <2>1, <2>2, OtherRole
    <2>4. QED
      BY <1>2, <2>3 DEF Ordered
  <1>3. CASE t \in {"admit", "deny", "admit_all"}
    <2>1. t # "admit_all" => o.who \in People /\ o.who # Host
      BY <1>3, OrderShape DEF MayOrder, HostOK
    <2> DEFINE who == IF t = "admit_all" THEN {p \in People : Waiting(r, p)} ELSE {o.who}
    <2>2. who \in SUBSET People /\ Host \notin who
      BY <2>1, <1>3 DEF HostOK
    <2> HIDE DEF who
    <2>3. HostOK(AdmitWaiting(r, who))
      BY <1>0, <2>2, OthersEnter DEF AdmitWaiting
    <2>4. CASE t = "deny"
      <3>1. HostOK([r EXCEPT !.lobby[o.who] = NoRole])
        BY <1>0, <2>1, <2>4, OtherWaits
      <3>2. QED
        BY <2>4, <3>1 DEF Ordered
    <2>5. CASE t = "admit"
      BY <2>3, <2>5 DEF Ordered, who
    <2>6. CASE t = "admit_all"
      BY <2>3, <2>6 DEF Ordered, who
    <2>7. QED
      BY <1>3, <2>4, <2>5, <2>6
  <1>4. CASE t \in {"mute", "mute_all", "allow_unmute", "lower_hand", "lower_all_hands"}
    <2>1. SamePeople(Ordered(r, o), r)
      BY <1>0, <1>4, StandingKept
         DEF Ordered, Mute, MuteAll, AllowUnmute, LowerHands
    <2>2. QED
      BY <1>4, <2>1, HostStands
  <1>5. CASE t = "grant_floor"
    <2> DEFINE n == [r EXCEPT !.floor = o.who]
    <2>1. n \in Room /\ n.admitted = r.admitted /\ n.lobby = r.lobby /\ n.blocked = r.blocked
      BY <1>0, <1>5, OrderShape DEF Room
    <2> HIDE DEF n
    <2>2. SamePeople(LowerHands(n, {o.who}), n)
      BY <2>1, StandingKept DEF LowerHands
    <2>3. HostOK(LowerHands(n, {o.who}))
      BY <2>1, <2>2, HostSame DEF SamePeople
    <2>4. QED
      BY <1>5, <2>3 DEF Ordered, n
  <1>6. CASE t \in {"lock", "revoke_floor", "spotlight", "breakouts_open", "breakouts_close", "end"}
    <2> DEFINE n == Ordered(r, o)
    <2>1. n.admitted = r.admitted /\ n.lobby = r.lobby /\ n.blocked = r.blocked
      BY <1>0, <1>6 DEF Ordered, Room
    <2> HIDE DEF n
    <2>2. HostOK(n)
      BY <2>1, HostSame
    <2>3. QED
      BY <1>6, <2>2 DEF n
  <1>7. QED
    BY <1>1, <1>2, <1>3, <1>4, <1>5, <1>6, OrderShape

-----------------------------------------------------------------------------
LEMMA HostFrames ==
    ASSUME FramesOf(frames), NEW q \in Requests, NEW f,
           \A k \in Requests : HostFrame(frames[k]), HostFrame(f), Becomes(q, f)
    PROVE  \A k \in Requests : HostFrame(frames'[k])
  BY DEF FramesOf, Becomes

LEMMA HostEnds ==
    ASSUME FramesOf(frames), NEW q \in Requests, \A k \in Requests : HostFrame(frames[k]), Ends(q)
    PROVE  \A k \in Requests : HostFrame(frames'[k])
  <1>1. HostFrame(NoFrame)
    BY DEF HostFrame, NoFrame
  <1>2. QED
    BY <1>1, HostFrames DEF Ends

LEMMA HostRooms ==
    ASSUME RoomsOf(rooms), NEW r \in RoomIds, NEW new, HostOK(new),
           \A k \in RoomIds : HostOK(rooms[k])
    PROVE  \A k \in RoomIds : HostOK([rooms EXCEPT ![r] = new][k])
  BY DEF RoomsOf

LEMMA TimesKept ==
    ASSUME NEW r \in Room, HostOK(r)
    PROVE  HostOK(EndBreakouts(r)) /\ HostOK(Tick(r))
  <1> DEFINE e == EndBreakouts(r)
             c == [r EXCEPT !.stage = "closing"]
  <1>1. /\ e.admitted = r.admitted /\ e.lobby = r.lobby /\ e.blocked = r.blocked
        /\ c.admitted = r.admitted /\ c.lobby = r.lobby /\ c.blocked = r.blocked
    BY DEF EndBreakouts, Room
  <1> HIDE DEF e, c
  <1>2. HostOK(e) /\ HostOK(c)
    BY <1>1, HostSame
  <1>3. QED
    BY <1>2 DEF Tick, e, c

LEMMA JoinHost ==
    ASSUME IInv, HInv, NEW q \in Requests,
           (\E p \in People : JoinAsks(q, p)) \/ MeetingCall(q) \/ JoinDecides(q)
           \/ JoinFails(q) \/ JoinEnters(q)
    PROVE  HInv'
  <1>1. /\ RoomsOf(rooms) /\ FramesOf(frames) /\ FrameOK(frames[q]) /\ HostFrame(frames[q])
        /\ Main \in RoomIds /\ \A k \in RoomIds : HostOK(rooms[k])
        /\ \A k \in Requests : HostFrame(frames[k])
        /\ Host \notin doc.blocked /\ Host \notin kicked
    BY DEF IInv, FramesOf, HInv, RoomIds
  <1>2. ASSUME NEW p \in People, JoinAsks(q, p) PROVE HInv'
    <2>1. HostFrame([pc |-> "found", who |-> p, role |-> DocRole(p)])
      BY HostIs DEF HostFrame
    <2>2. \A k \in Requests : HostFrame(frames'[k])
      BY <1>1, <1>2, <2>1, HostFrames DEF JoinAsks
    <2>3. QED
      BY <1>1, <1>2, <2>2 DEF JoinAsks, HInv, memory, tables
  <1>3. ASSUME MeetingCall(q) PROVE HInv'
    <2>1. HostFrame([frames[q] EXCEPT !.pc = "called"])
      BY <1>1, <1>3 DEF MeetingCall, FrameOK, JoinFrame, HostFrame
    <2>2. \A k \in Requests : HostFrame(frames'[k])
      BY <1>1, <1>3, <2>1, HostFrames, HostEnds DEF MeetingCall
    <2>3. QED
      BY <1>1, <1>3, <2>2 DEF MeetingCall, HInv, memory
  <1>4. ASSUME JoinDecides(q) PROVE HInv'
    <2> DEFINE f == frames[q]
               room == OpenRoom(Main, FALSE, MayUnmute, doc.blocked)
               waits == NeedsApproval(f.who, f.role) \/ HostAway(room, f.role)
               reason == IF NeedsApproval(f.who, f.role) THEN "approval" ELSE "host"
    <2>1. f \in JoinFrame /\ (f.who = Host => f.role = "host")
      BY <1>1, <1>4 DEF JoinDecides, FrameOK, HostFrame
    <2>2. HostOK(room)
      BY <1>1, HostOpens
    <2>3. RoomOK(room)
      BY <1>1, OpenRoomOK, MeetingAssumption DEF IInv, RestOf
    <2>4. waits => f.who # Host
      BY <2>1 DEF NeedsApproval, HostAway, Staff
    <2> HIDE DEF room, reason
    <2>5. waits => HostOK(Wait(room, f.who, reason))
      BY <2>1, <2>2, <2>3, <2>4, OtherWaits DEF Wait, RoomOK, JoinFrame
    <2>6. \E n : SetRoom(Main, n) /\ HostOK(n)
      BY <1>4, <2>2, <2>5 DEF JoinDecides, room, reason
    <2>7. \A k \in RoomIds : HostOK(rooms'[k])
      BY <1>1, <2>6, HostRooms DEF SetRoom
    <2>8. HostFrame([f EXCEPT !.pc = "grow"])
      BY <2>1 DEF HostFrame, JoinFrame
    <2>9. \A k \in Requests : HostFrame(frames'[k])
      BY <1>1, <1>4, <2>8, HostFrames, HostEnds DEF JoinDecides
    <2>10. QED
      BY <1>1, <1>4, <2>7, <2>9 DEF JoinDecides, HInv, tables
  <1>5. ASSUME JoinFails(q) PROVE HInv'
    <2>1. \A k \in Requests : HostFrame(frames'[k])
      BY <1>1, <1>5, HostEnds DEF JoinFails
    <2>2. QED
      BY <1>1, <1>5, <2>1 DEF JoinFails, HInv, memory, tables
  <1>6. ASSUME JoinEnters(q) PROVE HInv'
    <2> DEFINE f == frames[q]
               room == Current(Main)
    <2>1. f \in JoinFrame /\ (f.who = Host => f.role = "host") /\ f.who \in People
      BY <1>1, <1>6 DEF JoinEnters, FrameOK, HostFrame, JoinFrame
    <2>2. HostOK(room) /\ RoomOK(room)
      BY <1>1, HostOpens, RoomOfIds
    <2> HIDE DEF room
    <2>3. HostOK(AdmitPerson(room, f.who, f.role))
      <3>1. CASE f.who = Host
        <4> DEFINE n == AdmitPerson(room, Host, "host")
        <4>1. /\ n.admitted = [room.admitted EXCEPT ![Host] = "host"]
              /\ n.lobby = [room.lobby EXCEPT ![Host] = NoRole] /\ n.blocked = room.blocked
          BY <2>2 DEF AdmitPerson, RoomOK, Room
        <4> HIDE DEF n
        <4>2. n.admitted[Host] = "host" /\ n.lobby[Host] = NoRole
          BY <4>1, <2>2, HostIs DEF RoomOK, Room
        <4>3. HostOK(n)
          BY <4>1, <4>2, <2>2 DEF HostOK, Waiting
        <4>4. QED
          BY <4>3, <3>1, <2>1 DEF n
      <3>2. CASE f.who # Host
        BY <2>1, <2>2, <3>2, OtherEnters DEF RoomOK
      <3>3. QED
        BY <3>1, <3>2
    <2>4. \A k \in RoomIds : HostOK(rooms'[k])
      BY <1>1, <1>6, <2>3, HostRooms DEF JoinEnters, SetRoom, room
    <2>5. HostFrame([pc |-> "arrived"])
      BY DEF HostFrame
    <2>6. \A k \in Requests : HostFrame(frames'[k])
      BY <1>1, <1>6, <2>5, HostFrames, HostEnds DEF JoinEnters
    <2>7. QED
      BY <1>1, <1>6, <2>4, <2>6 DEF JoinEnters, HInv, tables
  <1>7. QED
    BY <1>2, <1>3, <1>4, <1>5, <1>6

LEMMA WelcomeHost ==
    ASSUME IInv, HInv, NEW q \in Requests, WelcomeReads(q) \/ Welcome(q)
    PROVE  HInv'
  <1>1. /\ RoomsOf(rooms) /\ FramesOf(frames) /\ FrameOK(frames[q])
        /\ Main \in RoomIds /\ \A k \in RoomIds : HostOK(rooms[k])
        /\ \A k \in Requests : HostFrame(frames[k])
        /\ Host \notin doc.blocked /\ Host \notin kicked
    BY DEF IInv, FramesOf, HInv, RoomIds
  <1>2. ASSUME WelcomeReads(q) PROVE HInv'
    <2>1. HostFrame([pc |-> "welcome", left |-> WaitingForHost])
      BY DEF HostFrame
    <2>2. \A k \in Requests : HostFrame(frames'[k])
      BY <1>1, <1>2, <2>1, HostFrames, HostEnds DEF WelcomeReads
    <2>3. QED
      BY <1>1, <1>2, <2>2 DEF WelcomeReads, HInv, memory, tables
  <1>3. ASSUME Welcome(q) PROVE HInv'
    <2>0. frames[q] \in [pc : {"welcome"}, left : SUBSET People]
      BY <1>1, <1>3 DEF FrameOK, Welcome
    <2>1. PICK p \in frames[q].left :
            LET room == Current(Main) rest == frames[q].left \ {p} IN
            /\ IF rest = {} THEN Ends(q) ELSE Becomes(q, [frames[q] EXCEPT !.left = rest])
            /\ \/ rooms' = IF row[Main] = "active" /\ Waiting(room, p)
                           THEN [rooms EXCEPT ![Main] = AdmitWaiting(room, {p})] ELSE rooms
               \/ UNCHANGED rooms
      BY <1>3 DEF Welcome
    <2> DEFINE room == Current(Main)
               who == {p}
    <2>2. HostOK(room) /\ RoomOK(room)
      BY <1>1, HostOpens, RoomOfIds
    <2> HIDE DEF room
    <2>3. Waiting(room, p) => HostOK(AdmitWaiting(room, {p}))
      <3>1. SUFFICES ASSUME Waiting(room, p) PROVE HostOK(AdmitWaiting(room, who))
        OBVIOUS
      <3>2. who \in SUBSET People /\ Host \notin who
        BY <2>0, <2>1, <2>2, <3>1 DEF HostOK
      <3> HIDE DEF who
      <3>3. QED
        BY <2>2, <3>2, OthersEnter DEF AdmitWaiting, RoomOK
    <2>4. \A k \in RoomIds : HostOK(rooms'[k])
      BY <1>1, <2>1, <2>3, HostRooms DEF room
    <2>5. HostFrame([frames[q] EXCEPT !.left = @ \ {p}])
      BY <2>0 DEF HostFrame
    <2>6. \A k \in Requests : HostFrame(frames'[k])
      BY <1>1, <2>0, <2>1, <2>5, HostFrames, HostEnds
    <2>7. QED
      BY <1>1, <1>3, <2>4, <2>6 DEF Welcome, HInv, tables
  <1>4. QED
    BY <1>2, <1>3

LEMMA OrdersHost ==
    ASSUME IInv, HInv, NEW q \in Requests,
           (\E r \in RoomIds, l \in Legs, o \in Given : OrderAsks(q, r, l, o))
           \/ OrderRuns(q) \/ OrderFails(q) \/ BlockSaved(q) \/ ExpelNext(q)
    PROVE  HInv'
  <1>1. /\ RoomsOf(rooms) /\ FramesOf(frames) /\ FrameOK(frames[q]) /\ HostFrame(frames[q])
        /\ \A k \in RoomIds : HostOK(rooms[k])
        /\ \A k \in Requests : HostFrame(frames[k])
        /\ Host \notin doc.blocked /\ Host \notin kicked
    BY DEF IInv, FramesOf, HInv, RoomIds
  <1>2. ASSUME NEW r \in RoomIds, NEW l \in Legs, NEW o \in Given, OrderAsks(q, r, l, o)
        PROVE  HInv'
    <2> DEFINE f == [pc |-> "asked", room |-> r, who |-> OwnerOf[l],
                     role |-> rooms[r].members[l].role, order |-> o]
    <2>1. HostFrame(f)
      BY DEF HostFrame
    <2> HIDE DEF f
    <2>2. Becomes(q, f)
      BY <1>2 DEF OrderAsks, f
    <2>3. \A k \in Requests : HostFrame(frames'[k])
      BY <1>1, <2>1, <2>2, HostFrames
    <2>4. QED
      BY <1>1, <1>2, <2>3 DEF OrderAsks, HInv, memory, tables
  <1>3. ASSUME OrderRuns(q) PROVE HInv'
    <2> DEFINE f == frames[q]
               room == Current(f.room)
               new == Ordered(room, f.order)
               done == MayOrder(room, f.who, f.role, f.order)
    <2>1. f.room \in RoomIds /\ f.order \in Order
      BY <1>1, <1>3 DEF FrameOK, OrderRuns
    <2>2. RoomOK(room) /\ HostOK(room)
      BY <1>1, <2>1, RoomOfIds, HostOpens
    <2>3. done => HostOK(new) /\ (f.order.type = "kick" => f.order.who # Host)
      BY <2>1, <2>2, OrderHost
    <2> HIDE DEF new, room
    <2>4. done => HostFrame(NextOf(f, new))
      BY <2>3 DEF NextOf, HostFrame, NoFrame
    <2>5. CASE done
      <3>1. SetRoom(f.room, new) /\ Becomes(q, NextOf(f, new)) /\ UNCHANGED doc
            /\ kicked' = (IF f.order.type = "kick" /\ f.order.block
                          THEN kicked \cup {f.order.who} ELSE kicked)
        BY <1>3, <2>5 DEF OrderRuns, new, room
      <3>2. \A k \in RoomIds : HostOK(rooms'[k])
        BY <1>1, <2>1, <2>3, <2>5, <3>1, HostRooms DEF SetRoom
      <3>3. \A k \in Requests : HostFrame(frames'[k])
        BY <1>1, <2>4, <2>5, <3>1, HostFrames
      <3>4. QED
        BY <1>1, <2>3, <2>5, <3>1, <3>2, <3>3 DEF HInv
    <2>6. CASE ~done
      <3>1. Ends(q) /\ UNCHANGED <<rooms, kicked, doc>>
        BY <1>3, <2>6 DEF OrderRuns, new, room
      <3>2. \A k \in Requests : HostFrame(frames'[k])
        BY <1>1, <3>1, HostEnds
      <3>3. QED
        BY <1>1, <3>1, <3>2 DEF HInv
    <2>7. QED
      BY <2>5, <2>6
  <1>4. ASSUME OrderFails(q) PROVE HInv'
    <2>1. \A k \in Requests : HostFrame(frames'[k])
      BY <1>1, <1>4, HostEnds DEF OrderFails
    <2>2. QED
      BY <1>1, <1>4, <2>1 DEF OrderFails, HInv, memory, tables
  <1>5. ASSUME BlockSaved(q) PROVE HInv'
    <2> DEFINE f == frames[q]
               g == [pc |-> "expel", room |-> f.room, who |-> f.who, block |-> f.block,
                     left |-> AllRooms(f.room)]
    <2>1. f.who # Host /\ HostFrame(g)
      BY <1>1, <1>5 DEF BlockSaved, HostFrame
    <2>2. \A k \in Requests : HostFrame(frames'[k])
      BY <1>1, <1>5, <2>1, HostFrames, HostEnds DEF BlockSaved
    <2>3. Host \notin doc'.blocked
      BY <1>1, <1>5, <2>1 DEF BlockSaved, IInv, RestOf
    <2>4. QED
      BY <1>1, <1>5, <2>2, <2>3 DEF BlockSaved, HInv, memory
  <1>6. ASSUME ExpelNext(q) PROVE HInv'
    <2> DEFINE f == frames[q]
               r == Head(f.left)
               g == [f EXCEPT !.left = Tail(@)]
    <2>1. f \in [pc : {"expel"}, room : RoomIds, who : People, block : BOOLEAN, left : Seq(RoomIds)]
          /\ f.who # Host
      BY <1>1, <1>6 DEF FrameOK, ExpelNext, HostFrame
    <2>2. CASE f.left = <<>>
      <3>1. Ends(q) /\ UNCHANGED rooms
        BY <1>6, <2>2 DEF ExpelNext
      <3>2. \A k \in Requests : HostFrame(frames'[k])
        BY <1>1, <3>1, HostEnds
      <3>3. QED
        BY <1>1, <1>6, <3>1, <3>2 DEF HInv, ExpelNext, tables
    <2>3. CASE f.left # <<>>
      <3>1. r \in RoomIds
        BY <2>1, <2>3
      <3>2. HostFrame(g)
        BY <2>1 DEF HostFrame
      <3>3. \A k \in Requests : HostFrame(frames'[k])
        BY <1>1, <1>6, <2>3, <3>2, HostFrames DEF ExpelNext
      <3>4. Exists(r) => HostOK(Expel(rooms[r], f.who, f.block))
        BY <1>1, <2>1, <3>1, RoomOfIds, OtherGoes DEF RoomOK
      <3>5. \A k \in RoomIds : HostOK(rooms'[k])
        BY <1>1, <1>6, <2>3, <3>1, <3>4, HostRooms DEF ExpelNext
      <3>6. QED
        BY <1>1, <1>6, <3>3, <3>5 DEF HInv, ExpelNext, tables
    <2>4. QED
      BY <2>2, <2>3
  <1>7. QED
    BY <1>2, <1>3, <1>4, <1>5, <1>6

LEMMA SmallHost ==
    ASSUME IInv, HInv, NEW q \in Requests, SmallOpens(q) \/ SmallAdmits(q) \/ OpeningFails(q)
    PROVE  HInv'
  <1>1. /\ RoomsOf(rooms) /\ FramesOf(frames) /\ FrameOK(frames[q]) /\ HostFrame(frames[q])
        /\ \A k \in RoomIds : HostOK(rooms[k])
        /\ \A k \in Requests : HostFrame(frames[k])
        /\ Host \notin doc.blocked /\ Host \notin kicked
    BY DEF IInv, FramesOf, HInv
  <1>2. ASSUME SmallOpens(q) PROVE HInv'
    <2> DEFINE snap == frames[q].snapshot
    <2>1. PICK s \in frames[q].left :
            /\ SetRoom(s, OpenRoom(s, TRUE, snap.allow, snap.blocked))
            /\ Becomes(q, [pc |-> "placing", snapshot |-> snap,
                           left |-> frames[q].left \ {s}, small |-> s])
      BY <1>2 DEF SmallOpens
    <2>2. HostOK(snap) /\ s \in RoomIds
      BY <1>1, <1>2, <2>1 DEF FrameOK, HostFrame, SmallOpens, RoomIds
    <2>3. HostOK(OpenRoom(s, TRUE, snap.allow, snap.blocked))
      BY <1>1, <2>2, HostOpens DEF HostOK
    <2>4. \A k \in RoomIds : HostOK(rooms'[k])
      BY <1>1, <2>1, <2>2, <2>3, HostRooms DEF SetRoom
    <2>5. HostFrame([pc |-> "placing", snapshot |-> snap,
                     left |-> frames[q].left \ {s}, small |-> s])
      BY <2>2 DEF HostFrame
    <2>6. \A k \in Requests : HostFrame(frames'[k])
      BY <1>1, <2>1, <2>5, HostFrames
    <2>7. QED
      BY <1>1, <1>2, <2>4, <2>6 DEF HInv, SmallOpens
  <1>3. ASSUME SmallAdmits(q) PROVE HInv'
    <2> DEFINE f == frames[q]
               room == Current(f.small)
               n == AdmitEach(room, Placed(f), f.snapshot.admitted)
    <2>1. HostOK(f.snapshot) /\ f.small \in RoomIds
      BY <1>1, <1>3 DEF FrameOK, HostFrame, SmallAdmits, RoomIds
    <2>2. RoomOK(room) /\ HostOK(room)
      BY <1>1, <2>1, RoomOfIds, HostOpens
    <2> HIDE DEF room
    <2>3. Placed(f) \in SUBSET People /\ (Host \in Placed(f) => f.snapshot.admitted[Host] = "host")
      BY <2>1 DEF Placed, IsAdmitted, HostOK
    <2>4. HostOK(n)
      <3>1. /\ n.admitted = [p \in People |-> IF p \in Placed(f) THEN f.snapshot.admitted[p]
                                              ELSE room.admitted[p]]
            /\ n.lobby = [p \in People |-> IF p \in Placed(f) THEN NoRole ELSE room.lobby[p]]
            /\ n.blocked = room.blocked
        BY <2>2 DEF AdmitEach, RoomOK, Room
      <3> HIDE DEF n
      <3>2. /\ n.admitted[Host] \in {NoRole, "host"} /\ n.lobby[Host] = NoRole
        BY <3>1, <2>2, <2>3, HostIs DEF HostOK, Waiting
      <3>3. QED
        BY <3>1, <3>2, <2>2 DEF HostOK, Waiting
    <2>5. \A k \in RoomIds : HostOK(rooms'[k])
      <3> HIDE DEF n
      <3>1. SetRoom(f.small, IF Placed(f) = {} THEN rooms[f.small] ELSE n)
        BY <1>3 DEF SmallAdmits, n, room
      <3>2. QED
        BY <1>1, <2>1, <2>4, <3>1, HostRooms DEF SetRoom
    <2>6. HostFrame([pc |-> "opening", snapshot |-> f.snapshot, left |-> f.left])
      BY <2>1 DEF HostFrame
    <2>7. \A k \in Requests : HostFrame(frames'[k])
      BY <1>1, <1>3, <2>6, HostFrames, HostEnds DEF SmallAdmits
    <2>8. QED
      BY <1>1, <1>3, <2>5, <2>7 DEF HInv, SmallAdmits, tables
  <1>4. ASSUME OpeningFails(q) PROVE HInv'
    <2>1. Main \in RoomIds /\ RoomOK(Current(Main)) /\ HostOK(Current(Main))
      BY <1>1, RoomOfIds, HostOpens DEF RoomIds
    <2>2. HostOK(EndBreakouts(Current(Main)))
      BY <2>1, TimesKept DEF RoomOK
    <2>3. \A k \in RoomIds : HostOK(rooms'[k])
      BY <1>1, <1>4, <2>1, <2>2, HostRooms DEF OpeningFails, SetRoom
    <2>4. \A k \in Requests : HostFrame(frames'[k])
      BY <1>1, <1>4, HostEnds DEF OpeningFails
    <2>5. QED
      BY <1>1, <1>4, <2>3, <2>4 DEF HInv, OpeningFails, tables
  <1>5. QED
    BY <1>2, <1>3, <1>4

LEMMA CohostHost ==
    ASSUME IInv, HInv, NEW q \in Requests,
           (\E p \in People : EditCohosts(q, p)) \/ CohostsRead(q) \/ CohostNext(q)
    PROVE  HInv'
  <1>1. /\ RoomsOf(rooms) /\ FramesOf(frames) /\ FrameOK(frames[q])
        /\ \A k \in RoomIds : HostOK(rooms[k])
        /\ \A k \in Requests : HostFrame(frames[k])
        /\ Host \notin doc.blocked /\ Host \notin kicked
    BY DEF IInv, FramesOf, HInv
  <1>2. ASSUME NEW p \in People, EditCohosts(q, p) PROVE HInv'
    <2>1. HostFrame([pc |-> "edited", who |-> p,
                     role |-> IF p \in doc.cohosts THEN "participant" ELSE "cohost"])
      BY DEF HostFrame
    <2>2. \A k \in Requests : HostFrame(frames'[k])
      BY <1>1, <1>2, <2>1, HostFrames DEF EditCohosts
    <2>3. doc'.blocked = doc.blocked
      BY <1>2 DEF EditCohosts, IInv, RestOf
    <2>4. QED
      BY <1>1, <1>2, <2>2, <2>3 DEF HInv, EditCohosts, memory
  <1>3. ASSUME CohostsRead(q) PROVE HInv'
    <2>1. HostFrame([pc |-> "cohosts", who |-> frames[q].who, role |-> frames[q].role,
                     left |-> <<Main>> \o children])
      BY DEF HostFrame
    <2>2. \A k \in Requests : HostFrame(frames'[k])
      BY <1>1, <1>3, <2>1, HostFrames, HostEnds DEF CohostsRead
    <2>3. QED
      BY <1>1, <1>3, <2>2 DEF HInv, CohostsRead, memory, tables
  <1>4. ASSUME CohostNext(q) PROVE HInv'
    <2> DEFINE f == frames[q]
               r == Head(f.left)
               g == [f EXCEPT !.left = Tail(@)]
               o == [type |-> "set_role", who |-> f.who, role |-> f.role]
    <2>1. f \in [pc : {"cohosts"}, who : People, role : {"cohost", "participant"}, left : Seq(RoomIds)]
      BY <1>1, <1>4 DEF FrameOK, CohostNext
    <2>2. CASE f.left = <<>>
      <3>1. Ends(q) /\ UNCHANGED rooms
        BY <1>4, <2>2 DEF CohostNext
      <3>2. \A k \in Requests : HostFrame(frames'[k])
        BY <1>1, <3>1, HostEnds
      <3>3. QED
        BY <1>1, <1>4, <3>1, <3>2 DEF HInv, CohostNext, tables
    <2>3. CASE f.left # <<>>
      <3>1. r \in RoomIds
        BY <2>1, <2>3
      <3>2. HostFrame(g)
        BY <2>1 DEF HostFrame
      <3>3. \A k \in Requests : HostFrame(frames'[k])
        BY <1>1, <1>4, <2>3, <3>2, HostFrames DEF CohostNext
      <3>4. o \in Order
        BY <2>1 DEF Order
      <3>5. MayOrder(Current(r), Host, "host", o) => HostOK(Ordered(Current(r), o))
        <4> HIDE DEF o
        <4>1. QED
          BY <1>1, <3>1, <3>4, RoomOfIds, HostOpens, OrderHost
      <3>6. \A k \in RoomIds : HostOK(rooms'[k])
        BY <1>1, <1>4, <2>3, <3>1, <3>5, HostRooms DEF CohostNext
      <3>7. QED
        BY <1>1, <1>4, <3>3, <3>6 DEF HInv, CohostNext, tables
    <2>4. QED
      BY <2>2, <2>3
  <1>5. QED
    BY <1>2, <1>3, <1>4

\* A command of a tab or of the server on one room, once it leaves who organises alone.
LEMMA MineHost ==
    ASSUME IInv, HInv, NEW r \in RoomIds, NEW new, HostOK(new), Mine(r, new)
    PROVE  HInv'
  BY HostRooms DEF IInv, HInv, Mine, SetRoom, tables

LEMMA SocketHost ==
    ASSUME IInv, HInv, SocketStep
    PROVE  HInv'
  <1>1. /\ \A r \in RoomIds : Exists(r) => rooms[r] \in Room
        /\ \A r \in RoomIds : HostOK(rooms[r])
    BY RoomOfIds DEF IInv, HInv, RoomOK
  <1>2. ASSUME NEW r \in RoomIds, NEW l \in Legs, Exists(r)
        PROVE  /\ \A role, mic : HostOK(Attach(rooms[r], l, role, mic))
               /\ \A mic : HostOK(Media(rooms[r], l, mic))
               /\ HostOK(RaiseHand(rooms[r], l)) /\ HostOK(LowerHands(rooms[r], {OwnerOf[l]}))
               /\ HostOK(Detach(rooms[r], l))
    BY <1>1, <1>2, SocketStanding, HostStands
  <1>3. ASSUME NEW r \in RoomIds, NEW l \in Legs, OnAttach(r, l) PROVE HInv'
    BY <1>2, <1>3, MineHost DEF OnAttach
  <1>4. ASSUME NEW r \in RoomIds, NEW l \in Legs, OnHand(r, l) PROVE HInv'
    BY <1>2, <1>4, MineHost DEF OnHand
  <1>5. ASSUME NEW r \in RoomIds, NEW l \in Legs, OnLeave(r, l) PROVE HInv'
    BY <1>2, <1>5, MineHost DEF OnLeave
  <1>6. ASSUME NEW r \in RoomIds, NEW l \in Legs, NEW mic \in BOOLEAN, OnMedia(r, l, mic)
        PROVE  HInv'
    BY <1>2, <1>6, MineHost DEF OnMedia
  <1>7. ASSUME NEW p \in People, LeaveLobby(p) PROVE HInv'
    <2>1. Main \in RoomIds /\ rooms[Main] \in Room /\ HostOK(rooms[Main])
          /\ Waiting(rooms[Main], p) /\ Mine(Main, Leave(rooms[Main], p))
      BY <1>1, <1>7 DEF LeaveLobby, RoomIds
    <2> DEFINE n == [rooms[Main] EXCEPT !.members = LegsOut(rooms[Main], p),
                                        !.lobby[p] = NoRole, !.hands = @ \ {p}]
    <2>2. n.admitted = rooms[Main].admitted /\ n.blocked = rooms[Main].blocked
          /\ n.lobby = [rooms[Main].lobby EXCEPT ![p] = NoRole]
      BY <2>1 DEF Room
    <2>3. Leave(rooms[Main], p) = n
      BY <2>1 DEF Leave
    <2> HIDE DEF n
    <2>4. p # Host
      BY <2>1 DEF HostOK
    <2>5. n.lobby[Host] = rooms[Main].lobby[Host]
      BY <2>1, <2>2, <2>4 DEF Room
    <2>6. HostOK(n)
      BY <2>1, <2>2, <2>5, HostSame
    <2>7. QED
      BY <2>1, <2>3, <2>6, MineHost
  <1>8. ASSUME NEW l \in Legs, OnClose(l) PROVE HInv'
    <2>1. \A r \in RoomIds : HostOK(rooms'[r])
      BY <1>1, <1>2, <1>8 DEF OnClose
    <2>2. QED
      BY <1>8, <2>1 DEF OnClose, HInv, tables
  <1>9. QED
    BY <1>3, <1>4, <1>5, <1>6, <1>7, <1>8 DEF SocketStep

LEMMA ServerHost ==
    ASSUME IInv, HInv, ServerStep
    PROVE  HInv'
  <1>1. /\ RoomsOf(rooms) /\ \A k \in RoomIds : HostOK(rooms[k])
        /\ \A k \in Requests : HostFrame(frames[k])
        /\ Host \notin doc.blocked /\ Host \notin kicked /\ Main \in RoomIds
    BY DEF IInv, HInv, RoomIds
  <1>2. ASSUME TimerFires PROVE HInv'
    <2>1. Exists(Main) => HostOK(Tick(rooms[Main]))
      BY <1>1, RoomOfIds, TimesKept DEF RoomOK
    <2>2. \A k \in RoomIds : HostOK(rooms'[k])
      BY <1>1, <1>2, <2>1, HostRooms DEF TimerFires, SetRoom
    <2>3. QED
      BY <1>1, <1>2, <2>2 DEF TimerFires, HInv, tables
  <1>3. ASSUME TickGoesOn PROVE HInv'
    BY <1>1, <1>3 DEF TickGoesOn, TickReads, TickFails, TickRearms, HInv, tables
  <1>4. ASSUME NEW s \in Smalls, CloserEnds(s) PROVE HInv'
    BY <1>1, <1>4 DEF CloserEnds, HInv
  <1>5. ASSUME NEW r \in RoomIds, RoomTold(r) PROVE HInv'
    <2>1. HostOK(NoRoom)
      BY NoRoomFields, HostIs DEF HostOK, Waiting
    <2>2. \A k \in RoomIds : HostOK(rooms'[k])
      BY <1>1, <1>5, <2>1, HostRooms DEF RoomTold, SetRoom
    <2>3. QED
      BY <1>1, <1>5, <2>2 DEF RoomTold, HInv
  <1>6. ASSUME NEW r \in RoomIds, CallClosed(r) PROVE HInv'
    BY <1>1, <1>6 DEF CallClosed, HInv
  <1>7. ASSUME NEW r \in RoomIds, SweepEnds(r) PROVE HInv'
    BY <1>1, <1>7 DEF SweepEnds, HInv
  <1>8. QED
    BY <1>2, <1>3, <1>4, <1>5, <1>6, <1>7 DEF ServerStep

LEMMA InitHInv == Init => HInv
  <1>1. HostOK(NoRoom) /\ HostFrame(NoFrame)
    BY NoRoomFields, HostIs DEF HostOK, Waiting, HostFrame, NoFrame
  <1>2. QED
    BY <1>1 DEF Init, HInv

LEMMA NextHInv == IInv /\ HInv /\ [Next]_vars => HInv'
  <1> SUFFICES ASSUME IInv, HInv, [Next]_vars PROVE HInv'
    OBVIOUS
  <1>1. ASSUME NEW q \in Requests, RequestStep(q) PROVE HInv'
    BY <1>1, JoinHost, WelcomeHost, OrdersHost, SmallHost, CohostHost DEF RequestStep
  <1>2. ASSUME NEW q \in Requests, NEW p \in People, JoinAsks(q, p) \/ EditCohosts(q, p)
        PROVE  HInv'
    BY <1>2, JoinHost, CohostHost
  <1>3. ASSUME NEW q \in Requests, NEW r \in RoomIds, NEW l \in Legs, NEW o \in Given,
               OrderAsks(q, r, l, o)
        PROVE  HInv'
    BY <1>3, OrdersHost
  <1>4. ASSUME NEW r \in RoomIds, SweepSees(r) PROVE HInv'
    BY <1>4 DEF SweepSees, HInv, tables
  <1>5. CASE UNCHANGED vars
    BY <1>5 DEF vars, memory, tables, HInv
  <1>6. QED
    BY <1>1, <1>2, <1>3, <1>4, <1>5, SocketHost, ServerHost DEF Next

\* Nobody can keep out who organises: no cohost, from no room, whatever role they
\* had when they ordered it, and no request that was under way (host_command).
THEOREM HostStays == Spec => []HostNeverBarred
  <1>1. HInv => HostNeverBarred
    BY DEF HInv, HostOK, HostNeverBarred
  <1>2. Spec => []HInv
    BY InitHInv, NextHInv, Invariance, PTL DEF Spec
  <1>3. QED
    BY <1>1, <1>2, PTL

-----------------------------------------------------------------------------
(* Silence *)

Calm(m) == m.hard /\ ~m.mic /\ m.role \notin Staff
\* The change from r to n that SilenceHolds allows for one person.
Quiet(n, r, p) ==
    Silenced(r, p) /\ ~n.allow /\ n.admitted[p] \notin Staff => Silenced(n, p)

\* No tab comes in, and a calm one stays calm.
LEMMA QuietLegs ==
    ASSUME NEW r, NEW n, NEW p,
           \A l \in Legs : OwnerOf[l] = p /\ Attached(n, l) /\ ~n.allow /\ n.admitted[p] \notin Staff =>
                Attached(r, l) /\ (Calm(r.members[l]) => Calm(n.members[l]))
    PROVE  Quiet(n, r, p)
  <1> SUFFICES ASSUME Silenced(r, p), ~n.allow, n.admitted[p] \notin Staff
               PROVE  Silenced(n, p)
    BY DEF Quiet
  <1>1. ASSUME NEW l \in LegsIn(n, p) PROVE Calm(n.members[l])
    <2>1. l \in Legs /\ OwnerOf[l] = p /\ Attached(n, l)
      BY DEF LegsIn
    <2>2. l \in LegsIn(r, p) /\ (Calm(r.members[l]) => Calm(n.members[l]))
      BY <2>1 DEF LegsIn
    <2>3. Calm(r.members[l])
      BY <2>2 DEF Silenced, Calm
    <2>4. QED
      BY <2>2, <2>3
  <1>2. QED
    BY <1>1 DEF Silenced, Calm

LEMMA QuietSame ==
    ASSUME NEW r, NEW n, NEW p, n.members = r.members
    PROVE  Quiet(n, r, p)
  BY QuietLegs DEF Attached

\* A change of the tabs of some people that keeps a calm tab calm.
LEMMA QuietChange ==
    ASSUME NEW r, NEW b \in Room, b.members = r.members, NEW who, NEW p,
           NEW change \in [Member -> Member],
           \A m \in Member : Calm(m) => Calm(change[m])
    PROVE  Quiet(WithLegsOf(b, who, change), r, p)
  <1> DEFINE n == WithLegsOf(b, who, change)
  <1>1. n.members = [l \in Legs |-> IF OwnerOf[l] \in who /\ Attached(b, l)
                                    THEN change[b.members[l]] ELSE b.members[l]]
    BY WithLegsOfType
  <1> HIDE DEF n
  <1>2. ASSUME NEW l \in Legs, OwnerOf[l] = p, Attached(n, l)
        PROVE  Attached(r, l) /\ (Calm(r.members[l]) => Calm(n.members[l]))
    <2>1. b.members[l] \in Member
      BY DEF Room
    <2>2. Attached(r, l)
      BY <1>1, <1>2 DEF Attached
    <2>3. Calm(r.members[l]) => Calm(n.members[l])
      BY <1>1, <2>1
    <2>4. QED
      BY <2>2, <2>3
  <1>3. Quiet(n, r, p)
    BY <1>2, QuietLegs
  <1>4. QED
    BY <1>3 DEF n

LEMMA HandsType ==
    /\ HandDown \in [Member -> Member] /\ HandUp \in [Member -> Member]
    /\ \A m \in Member : Calm(m) => Calm(HandDown[m]) /\ Calm(HandUp[m])
  BY DEF HandDown, HandUp, Member, Calm

LEMMA QuietLower ==
    ASSUME NEW r, NEW b \in Room, b.members = r.members, NEW who, NEW p
    PROVE  Quiet(LowerHands(b, who), r, p)
  <1> DEFINE c == [b EXCEPT !.hands = @ \ who]
  <1>1. c \in Room /\ c.members = r.members
    BY DEF Room
  <1> HIDE DEF c
  <1>2. Quiet(WithLegsOf(c, who, HandDown), r, p)
    BY <1>1, HandsType, QuietChange
  <1>3. QED
    BY <1>2 DEF LowerHands, c

LEMMA QuietRaise ==
    ASSUME NEW r \in Room, NEW l \in Legs, NEW p
    PROVE  Quiet(RaiseHand(r, l), r, p)
  <1> DEFINE c == [r EXCEPT !.hands = @ \cup {OwnerOf[l]}]
             n == WithLegsOf(c, {OwnerOf[l]}, HandUp)
  <1>1. c \in Room /\ c.members = r.members
    BY RoomAssumption DEF Room
  <1> HIDE DEF c
  <1>2. Quiet(n, r, p)
    BY <1>1, HandsType, QuietChange
  <1> HIDE DEF n
  <1>3. Quiet(r, r, p)
    BY QuietSame
  <1>4. RaiseHand(r, l) = r \/ RaiseHand(r, l) = n
    BY DEF RaiseHand, n, c
  <1>5. QED
    BY <1>2, <1>3, <1>4

LEMMA QuietOut ==
    ASSUME NEW r \in Room, NEW n, NEW p, NEW q,
           n.members = LegsOut(r, q)
    PROVE  Quiet(n, r, p)
  <1>1. \A l \in Legs : n.members[l] = NoMember \/ n.members[l] = r.members[l]
    BY LegsOutType
  <1>2. NoMember.role = NoRole
    BY DEF NoMember
  <1>3. QED
    BY <1>1, <1>2, QuietLegs DEF Attached

LEMMA QuietDetach ==
    ASSUME NEW r \in Room, NEW l \in Legs, NEW p
    PROVE  Quiet(Detach(r, l), r, p)
  <1> DEFINE b == [r EXCEPT !.members[l] = NoMember]
             c == [b EXCEPT !.hands = @ \ {OwnerOf[l]}]
             n == WithLegsOf(c, {OwnerOf[l]}, HandDown)
  <1>1. NoMember.role = NoRole /\ NoMember \in Member
    BY DEF NoMember, Member
  <1>2. /\ b \in Room /\ c \in Room /\ c.members = b.members
        /\ b.allow = r.allow /\ b.admitted = r.admitted
        /\ \A k \in Legs : b.members[k] = NoMember \/ b.members[k] = r.members[k]
    BY <1>1 DEF Room
  <1> HIDE DEF b, c
  <1>3. Quiet(b, r, p)
    BY <1>1, <1>2, QuietLegs DEF Attached
  <1>4. n.members = [k \in Legs |-> IF OwnerOf[k] \in {OwnerOf[l]} /\ Attached(c, k)
                                    THEN HandDown[c.members[k]] ELSE c.members[k]]
    BY <1>2, HandsType, WithLegsOfType
  <1> HIDE DEF n
  <1>5. Quiet(n, r, p)
    <2>1. ASSUME NEW k \in Legs, OwnerOf[k] = p, Attached(n, k)
          PROVE  Attached(r, k) /\ (Calm(r.members[k]) => Calm(n.members[k]))
      <3>1. Attached(c, k) /\ c.members[k] \in Member
        BY <1>2, <1>4, <2>1 DEF Attached, Room
      <3>2. c.members[k] = r.members[k]
        BY <1>1, <1>2, <3>1 DEF Attached
      <3>3. Calm(r.members[k]) => Calm(n.members[k])
        BY <1>4, <3>1, <3>2, HandsType
      <3>4. QED
        BY <3>1, <3>2, <3>3 DEF Attached
    <2>2. QED
      BY <2>1, QuietLegs
  <1>6. Detach(r, l) = b \/ Detach(r, l) = n
    BY DEF Detach, LowerHands, b, c, n
  <1>7. QED
    BY <1>3, <1>5, <1>6

\* Another tab of somebody silenced comes in silenced.
LEMMA QuietAttach ==
    ASSUME NEW r \in Room, NEW l \in Legs, NEW p, NEW mic
    PROVE  Quiet(Attach(r, l, r.admitted[OwnerOf[l]], mic), r, p)
  <1> DEFINE role == r.admitted[OwnerOf[l]]
             hard == EntersSilenced(r, role)
             m == [role |-> role, mic |-> mic /\ ~hard, hard |-> hard, hand |-> OwnerOf[l] \in r.hands]
             n == [r EXCEPT !.members[l] = m]
  <1>1. Quiet(r, r, p)
    BY QuietSame
  <1>2. Quiet(n, r, p)
    <2> SUFFICES ASSUME Silenced(r, p), n.admitted[p] \notin Staff, ~n.allow PROVE Silenced(n, p)
      BY DEF Quiet
    <2>1. ~r.allow /\ r.admitted[p] \notin Staff
      BY DEF Room
    <2>2. OwnerOf[l] = p => Calm(m)
      <3>1. SUFFICES ASSUME OwnerOf[l] = p PROVE Calm(m)
        OBVIOUS
      <3>2. hard = TRUE
        BY <2>1, <3>1 DEF EntersSilenced
      <3>3. m.role \notin Staff /\ m.hard = TRUE /\ m.mic = FALSE
        BY <2>1, <3>1, <3>2
      <3>4. QED
        BY <3>3 DEF Calm
    <2>3. \A k \in Legs : n.members[k] = IF k = l THEN m ELSE r.members[k]
      BY DEF Room
    <2> HIDE DEF n, m
    <2>4. ASSUME NEW k \in LegsIn(n, p) PROVE Calm(n.members[k])
      BY <2>2, <2>3 DEF LegsIn, Attached, Silenced, Calm
    <2>5. QED
      BY <2>4 DEF Silenced, Calm
  <1>3. Attach(r, l, role, mic) = r \/ Attach(r, l, role, mic) = n
    BY DEF Attach
  <1> HIDE DEF n, role
  <1>4. QED
    BY <1>1, <1>2, <1>3 DEF role

LEMMA QuietMedia ==
    ASSUME NEW r \in Room, NEW l \in Legs, NEW p, NEW mic \in BOOLEAN, MaySpeak(r, l, mic)
    PROVE  Quiet(Media(r, l, mic), r, p)
  <1> DEFINE n == Media(r, l, mic)
             m == [r.members[l] EXCEPT !.mic = mic]
  <1>1. /\ \A k \in Legs : n.members[k] = IF k = l THEN m ELSE r.members[k]
        /\ r.members[l] \in Member
    BY DEF Media, Room
  <1>2. m.role = r.members[l].role /\ m.hard = r.members[l].hard /\ m.mic = mic
    BY <1>1 DEF Member
  <1>3. Calm(r.members[l]) => Calm(m)
    BY <1>2 DEF Calm, MaySpeak
  <1> HIDE DEF n, m
  <1>4. Quiet(n, r, p)
    BY <1>1, <1>2, <1>3, QuietLegs DEF Attached
  <1>5. QED
    BY <1>4 DEF n

\* Muting somebody silenced leaves them silenced: none of their tabs moderates.
LEMMA QuietMute ==
    ASSUME NEW r \in Room, NEW t \in People, NEW first \in LegsIn(r, t), NEW p
    PROVE  Quiet(Mute(r, t, first), r, p)
  <1> SUFFICES ASSUME Silenced(r, p) PROVE Quiet(Mute(r, t, first), r, p)
    BY DEF Quiet
  <1> DEFINE hard == ~r.allow /\ r.members[first].role \notin Staff
             change == [m \in Member |-> SilenceAs(hard, m)]
             n == WithLegsOf(r, {t}, change)
  <1>0. Mute(r, t, first) = n
    BY DEF Mute
  <1>1. hard \in BOOLEAN
    OBVIOUS
  <1>2. hard => \A m \in Member : Calm(m) => Calm(SilenceAs(hard, m))
    BY DEF Calm, SilenceAs, Member
  <1>3. r.members[first].role \notin Staff /\ ~r.allow => hard
    OBVIOUS
  <1> HIDE DEF hard
  <1>4. change \in [Member -> Member]
    BY <1>1, SilenceKeeps
  <1>5. /\ n.members = [l \in Legs |-> IF OwnerOf[l] \in {t} /\ Attached(r, l)
                                       THEN change[r.members[l]] ELSE r.members[l]]
        /\ n.allow = r.allow
    <2> HIDE DEF change
    <2>1. QED
      BY <1>4, WithLegsOfType DEF WithLegsOf, Room
  <1>6. \A m \in Member : change[m] = SilenceAs(hard, m)
    OBVIOUS
  <1> HIDE DEF n, change
  <1>7. ASSUME NEW l \in Legs, OwnerOf[l] = p, Attached(n, l), ~n.allow
        PROVE  Attached(r, l) /\ (Calm(r.members[l]) => Calm(n.members[l]))
    <2>1. r.members[l] \in Member
      BY DEF Room
    <2>2. Attached(r, l)
      BY <1>5, <1>7 DEF Attached
    <2>3. ASSUME Calm(r.members[l]) PROVE Calm(n.members[l])
      <3>1. CASE p # t
        BY <1>5, <1>7, <2>3, <3>1
      <3>2. CASE p = t
        <4>1. r.members[first].role \notin Staff
          BY <3>2 DEF Silenced
        <4>2. hard
          BY <1>3, <1>5, <1>7, <4>1
        <4>3. n.members[l] = SilenceAs(hard, r.members[l])
          BY <1>5, <1>6, <1>7, <2>1, <2>2, <3>2
        <4>4. QED
          BY <1>2, <2>1, <2>3, <4>2, <4>3
      <3>3. QED
        BY <3>1, <3>2
    <2>4. QED
      BY <2>2, <2>3
  <1>8. QED
    BY <1>0, <1>7, QuietLegs

LEMMA QuietMuteAll ==
    ASSUME NEW r \in Room, NEW allow \in BOOLEAN, NEW p
    PROVE  Quiet(MuteAll(r, allow), r, p)
  <1> DEFINE b == [r EXCEPT !.allow = allow]
             change == [m \in Member |-> IF m.role \in Staff THEN m ELSE SilenceAs(~allow, m)]
             n == WithLegsOf(b, People, change)
  <1>0. MuteAll(r, allow) = n
    BY DEF MuteAll
  <1>1. b \in Room /\ b.members = r.members /\ b.allow = allow
    BY DEF Room
  <1>2. change \in [Member -> Member]
    BY SilenceKeeps
  <1>3. ~allow => \A m \in Member : Calm(m) => Calm(change[m])
    BY DEF Calm, SilenceAs, Member
  <1> HIDE DEF b, change
  <1>4. n.allow = allow
    BY <1>1 DEF WithLegsOf, Room
  <1>5. ~allow => Quiet(n, r, p)
    BY <1>1, <1>2, <1>3, QuietChange
  <1> HIDE DEF n
  <1>6. allow => Quiet(n, r, p)
    BY <1>4 DEF Quiet
  <1>7. QED
    BY <1>0, <1>5, <1>6

LEMMA QuietAllow ==
    ASSUME NEW r \in Room, NEW p
    PROVE  Quiet(AllowUnmute(r), r, p)
  <1>1. AllowUnmute(r).allow = TRUE
    BY DEF AllowUnmute, WithLegsOf, Room
  <1>2. QED
    BY <1>1 DEF Quiet

\* Another role is that of the tabs too.
LEMMA QuietRole ==
    ASSUME NEW r \in Room, NEW t \in People, NEW p,
           NEW new \in {"cohost", "presenter", "participant"}
    PROVE  Quiet(SetRole(r, t, new), r, p)
  <1> DEFINE given == IF new = "participant" /\ t \in Guests THEN "guest" ELSE new
             change == [m \in Member |-> [m EXCEPT !.role = given]]
             b == AdmitPerson(r, t, given)
             n == WithLegsOf(b, {t}, change)
  <1>0. SetRole(r, t, new) = n
    BY DEF SetRole
  <1>1. given \in Roles
    BY DEF Roles
  <1> HIDE DEF given
  <1>2. /\ b \in Room /\ b.members = r.members /\ b.admitted = [r.admitted EXCEPT ![t] = given]
    BY <1>1 DEF AdmitPerson, Room
  <1> HIDE DEF b
  <1>3. change \in [Member -> Member]
        /\ \A m \in Member : /\ change[m].hard = m.hard /\ change[m].mic = m.mic
                             /\ change[m].role = given
    BY <1>1 DEF Member
  <1> HIDE DEF change
  <1>4. /\ n.members = [l \in Legs |-> IF OwnerOf[l] \in {t} /\ Attached(b, l)
                                       THEN change[b.members[l]] ELSE b.members[l]]
        /\ n.admitted = b.admitted
    BY <1>2, <1>3, WithLegsOfType DEF SamePeople
  <1> HIDE DEF n
  <1>5. ASSUME NEW l \in Legs, OwnerOf[l] = p, Attached(n, l), n.admitted[p] \notin Staff
        PROVE  Attached(r, l) /\ (Calm(r.members[l]) => Calm(n.members[l]))
    <2>1. r.members[l] \in Member /\ Attached(r, l)
      BY <1>2, <1>4, <1>5 DEF Attached, Room
    <2>2. CASE p # t
      BY <1>2, <1>4, <1>5, <2>1, <2>2
    <2>3. CASE p = t
      <3>1. given \notin Staff
        BY <1>2, <1>4, <1>5, <2>3 DEF Room
      <3>2. n.members[l] = change[r.members[l]]
        BY <1>2, <1>4, <1>5, <2>1, <2>3 DEF Attached
      <3>3. QED
        BY <1>3, <2>1, <3>1, <3>2 DEF Calm
    <2>4. QED
      BY <2>2, <2>3
  <1>6. QED
    BY <1>0, <1>5, QuietLegs

\* No order that is accepted lifts a silence that it does not allow to be lifted.
LEMMA OrderQuiet ==
    ASSUME NEW r \in Room, NEW a, NEW role, NEW o \in Order, MayOrder(r, a, role, o), NEW p
    PROVE  Quiet(Ordered(r, o), r, p)
  <1> DEFINE t == o.type
             n == Ordered(r, o)
  <1>1. CASE t \in {"admit", "admit_all", "deny", "lock", "revoke_floor", "spotlight",
                    "breakouts_open", "breakouts_close", "end"}
    <2>1. n.members = r.members
      BY <1>1 DEF Ordered, AdmitWaiting, AdmitEach, Room
    <2>2. QED
      BY <2>1, QuietSame
  <1>2. CASE t = "mute"
    BY <1>2, OrderShape, QuietMute DEF Ordered, MayOrder
  <1>3. CASE t = "mute_all"
    BY <1>3, OrderShape, QuietMuteAll DEF Ordered
  <1>4. CASE t = "allow_unmute"
    BY <1>4, QuietAllow DEF Ordered
  <1>5. CASE t = "kick"
    <2>1. n.members = LegsOut(r, o.who)
      BY <1>5 DEF Ordered, Expel, Room
    <2> HIDE DEF n
    <2>2. Quiet(n, r, p)
      BY <2>1, QuietOut
    <2>3. QED
      BY <2>2 DEF n
  <1>6. CASE t \in {"grant_floor", "lower_hand", "lower_all_hands"}
    <2> DEFINE b == IF t = "grant_floor" THEN [r EXCEPT !.floor = o.who] ELSE r
               who == IF t = "lower_all_hands" THEN r.hands ELSE {o.who}
    <2>1. n = LowerHands(b, who)
      BY <1>6 DEF Ordered
    <2>2. b \in Room /\ b.members = r.members
      BY <1>6, OrderShape DEF Room
    <2> HIDE DEF b, who
    <2>3. QED
      BY <2>1, <2>2, QuietLower
  <1>7. CASE t = "set_role"
    BY <1>7, OrderShape, QuietRole DEF Ordered
  <1>8. QED
    BY <1>1, <1>2, <1>3, <1>4, <1>5, <1>6, <1>7, OrderShape

\* What a step of the meeting does to a room that goes on.
QuietStep ==
    \A r \in RoomIds : Exists(r) =>
        rooms'[r] = NoRoom \/ \A p \in People : Quiet(rooms'[r], rooms[r], p)

LEMMA QuietSet ==
    ASSUME RoomsOf(rooms), NEW r \in RoomIds, NEW new,
           Exists(r) => new = NoRoom \/ \A p \in People : Quiet(new, rooms[r], p),
           rooms' = [rooms EXCEPT ![r] = new]
    PROVE  QuietStep
  BY QuietSame DEF QuietStep, RoomsOf

LEMMA QuietStays ==
    ASSUME UNCHANGED rooms
    PROVE  QuietStep
  BY QuietSame DEF QuietStep

LEMMA QuietOrder ==
    ASSUME RoomsOf(rooms), NEW r \in RoomIds, NEW a, NEW role, NEW o \in Order,
           MayOrder(Current(r), a, role, o),
           rooms' = [rooms EXCEPT ![r] = Ordered(Current(r), o)]
    PROVE  QuietStep
  <1>1. Exists(r) => \A p \in People : Quiet(Ordered(Current(r), o), rooms[r], p)
    BY RoomOfIds, OrderQuiet DEF RoomOK
  <1>2. QED
    BY <1>1, QuietSet

LEMMA RequestQuiet ==
    ASSUME IInv, NEW q \in Requests, RequestStep(q)
    PROVE  QuietStep
  <1>1. /\ RoomsOf(rooms) /\ FrameOK(frames[q]) /\ Main \in RoomIds
        /\ \A r \in RoomIds : Exists(r) => rooms[r] \in Room /\ Current(r) = rooms[r]
    BY RoomOfIds DEF IInv, FramesOf, RoomIds, RoomOK
  <1>2. CASE MeetingCall(q) \/ JoinFails(q) \/ WelcomeReads(q) \/ OrderFails(q) \/ BlockSaved(q)
             \/ CohostsRead(q)
    BY <1>2, QuietStays
       DEF MeetingCall, JoinFails, WelcomeReads, OrderFails, BlockSaved, CohostsRead, memory
  <1>3. CASE JoinDecides(q)
    <2> DEFINE f == frames[q]
               room == OpenRoom(Main, FALSE, MayUnmute, doc.blocked)
               reason == IF NeedsApproval(f.who, f.role) THEN "approval" ELSE "host"
               w == Wait(room, f.who, reason)
    <2>1. Exists(Main) => room.members = rooms[Main].members /\ w.members = rooms[Main].members
      BY <1>1 DEF OpenRoom, Wait, Room
    <2> HIDE DEF room, w
    <2>2. rooms' = [rooms EXCEPT ![Main] = w] \/ rooms' = [rooms EXCEPT ![Main] = room]
      BY <1>3 DEF JoinDecides, SetRoom, room, w
    <2>3. Exists(Main) => \A p \in People : Quiet(room, rooms[Main], p) /\ Quiet(w, rooms[Main], p)
      BY <2>1, QuietSame
    <2>4. QED
      BY <1>1, <2>2, <2>3, QuietSet
  <1>4. CASE JoinEnters(q)
    <2> DEFINE n == AdmitPerson(Current(Main), frames[q].who, frames[q].role)
    <2>1. Exists(Main) => n.members = rooms[Main].members
      BY <1>1 DEF AdmitPerson, Room
    <2> HIDE DEF n
    <2>2. rooms' = [rooms EXCEPT ![Main] = n] \/ UNCHANGED rooms
      BY <1>4 DEF JoinEnters, SetRoom, n
    <2>3. Exists(Main) => \A p \in People : Quiet(n, rooms[Main], p)
      BY <2>1, QuietSame
    <2>4. QED
      BY <1>1, <2>2, <2>3, QuietSet, QuietStays
  <1>5. CASE Welcome(q)
    <2>1. PICK p : rooms' = [rooms EXCEPT ![Main] = AdmitWaiting(Current(Main), {p})]
                   \/ UNCHANGED rooms
      BY <1>5 DEF Welcome
    <2> DEFINE n == AdmitWaiting(Current(Main), {p})
    <2>2. Exists(Main) => n.members = rooms[Main].members
      BY <1>1 DEF AdmitWaiting, AdmitEach, Room
    <2> HIDE DEF n
    <2>3. Exists(Main) => \A k \in People : Quiet(n, rooms[Main], k)
      BY <2>2, QuietSame
    <2>4. QED
      BY <1>1, <2>1, <2>3, QuietSet, QuietStays DEF n
  <1>6. CASE OrderRuns(q)
    <2>1. frames[q].room \in RoomIds /\ frames[q].order \in Order
      BY <1>1, <1>6 DEF FrameOK, OrderRuns
    <2>2. \/ /\ rooms' = [rooms EXCEPT ![frames[q].room] =
                            Ordered(Current(frames[q].room), frames[q].order)]
             /\ MayOrder(Current(frames[q].room), frames[q].who, frames[q].role, frames[q].order)
          \/ UNCHANGED rooms
      BY <1>6 DEF OrderRuns, SetRoom
    <2>3. QED
      BY <1>1, <2>1, <2>2, QuietOrder, QuietStays
  <1>7. CASE ExpelNext(q)
    <2> DEFINE f == frames[q]
               r == Head(f.left)
               n == Expel(rooms[r], f.who, f.block)
    <2>1. CASE f.left = <<>> \/ UNCHANGED rooms
      BY <1>7, <2>1, QuietStays DEF ExpelNext
    <2>2. CASE f.left # <<>> /\ ~UNCHANGED rooms
      <3>1. f \in [pc : {"expel"}, room : RoomIds, who : People, block : BOOLEAN, left : Seq(RoomIds)]
        BY <1>1, <1>7 DEF FrameOK, ExpelNext
      <3>2. r \in RoomIds /\ Exists(r) /\ rooms' = [rooms EXCEPT ![r] = n]
        BY <1>7, <2>2, <3>1 DEF ExpelNext
      <3>3. n.members = LegsOut(rooms[r], f.who) /\ rooms[r] \in Room
        BY <1>1, <3>2 DEF Expel, Room
      <3> HIDE DEF n
      <3>4. \A p \in People : Quiet(n, rooms[r], p)
        BY <3>3, QuietOut
      <3>5. QED
        BY <1>1, <3>2, <3>4, QuietSet
    <2>3. QED
      BY <2>1, <2>2
  <1>8. CASE SmallOpens(q)
    <2> DEFINE snap == frames[q].snapshot
    <2>1. PICK s \in frames[q].left :
            rooms' = [rooms EXCEPT ![s] = OpenRoom(s, TRUE, snap.allow, snap.blocked)]
      BY <1>8 DEF SmallOpens, SetRoom
    <2>2. s \in RoomIds
      BY <1>1, <1>8, <2>1 DEF FrameOK, SmallOpens, RoomIds
    <2>3. Exists(s) => OpenRoom(s, TRUE, snap.allow, snap.blocked).members = rooms[s].members
      BY DEF OpenRoom
    <2>4. QED
      BY <1>1, <2>1, <2>2, <2>3, QuietSet, QuietSame
  <1>9. CASE SmallAdmits(q)
    <2> DEFINE f == frames[q]
               n == AdmitEach(Current(f.small), Placed(f), f.snapshot.admitted)
    <2>1. f.small \in RoomIds
      BY <1>1, <1>9 DEF FrameOK, SmallAdmits, RoomIds
    <2>2. Exists(f.small) => n.members = rooms[f.small].members
      BY <1>1, <2>1 DEF AdmitEach, Room
    <2> HIDE DEF n
    <2>3. rooms' = [rooms EXCEPT ![f.small] = n] \/ rooms' = [rooms EXCEPT ![f.small] = rooms[f.small]]
      BY <1>9 DEF SmallAdmits, SetRoom, n
    <2>4. QED
      BY <1>1, <2>1, <2>2, <2>3, QuietSet, QuietSame
  <1>10. CASE OpeningFails(q)
    <2>1. Exists(Main) => EndBreakouts(Current(Main)).members = rooms[Main].members
      BY <1>1 DEF EndBreakouts, Room
    <2>2. QED
      BY <1>1, <1>10, <2>1, QuietSet, QuietSame DEF OpeningFails, SetRoom
  <1>11. CASE CohostNext(q)
    <2> DEFINE f == frames[q]
               r == Head(f.left)
               o == [type |-> "set_role", who |-> f.who, role |-> f.role]
    <2>1. CASE UNCHANGED rooms
      BY <2>1, QuietStays
    <2>2. CASE ~UNCHANGED rooms
      <3>1. f \in [pc : {"cohosts"}, who : People, role : {"cohost", "participant"}, left : Seq(RoomIds)]
        BY <1>1, <1>11 DEF FrameOK, CohostNext
      <3>2. /\ f.left # <<>> /\ rooms' = [rooms EXCEPT ![r] = Ordered(Current(r), o)]
            /\ MayOrder(Current(r), Host, "host", o)
        BY <1>11, <2>2 DEF CohostNext
      <3>3. r \in RoomIds /\ o \in Order
        BY <3>1, <3>2 DEF Order
      <3> HIDE DEF o
      <3>4. QED
        BY <1>1, <3>2, <3>3, QuietOrder
    <2>3. QED
      BY <2>1, <2>2
  <1>12. QED
    BY <1>2, <1>3, <1>4, <1>5, <1>6, <1>7, <1>8, <1>9, <1>10, <1>11 DEF RequestStep

LEMMA SocketQuiet ==
    ASSUME IInv, SocketStep
    PROVE  QuietStep
  <1>1. RoomsOf(rooms) /\ Main \in RoomIds /\ \A r \in RoomIds : Exists(r) => rooms[r] \in Room
    BY RoomOfIds DEF IInv, RoomIds, RoomOK
  <1>2. ASSUME NEW r \in RoomIds, NEW new, Mine(r, new), \A p \in People : Quiet(new, rooms[r], p)
        PROVE  QuietStep
    BY <1>1, <1>2, QuietSet DEF Mine, SetRoom
  <1>3. ASSUME NEW r \in RoomIds, NEW l \in Legs, OnAttach(r, l) PROVE QuietStep
    BY <1>1, <1>2, <1>3, QuietAttach DEF OnAttach
  <1>4. ASSUME NEW r \in RoomIds, NEW l \in Legs, OnHand(r, l) PROVE QuietStep
    BY <1>1, <1>2, <1>4, QuietLower, QuietRaise DEF OnHand
  <1>5. ASSUME NEW r \in RoomIds, NEW l \in Legs, OnLeave(r, l) PROVE QuietStep
    BY <1>1, <1>2, <1>5, QuietDetach DEF OnLeave
  <1>6. ASSUME NEW r \in RoomIds, NEW l \in Legs, NEW mic \in BOOLEAN, OnMedia(r, l, mic)
        PROVE  QuietStep
    BY <1>1, <1>2, <1>6, QuietMedia DEF OnMedia
  <1>7. ASSUME NEW p \in People, LeaveLobby(p) PROVE QuietStep
    <2> DEFINE r == rooms[Main]
               n == Leave(r, p)
    <2>1. r \in Room /\ Mine(Main, n)
      BY <1>1, <1>7 DEF LeaveLobby
    <2>2. n.members = LegsOut(r, p) \/ n.members = r.members
      BY <2>1 DEF Leave, Room
    <2> HIDE DEF n
    <2>3. \A k \in People : Quiet(n, r, k)
      BY <2>1, <2>2, QuietOut, QuietSame
    <2>4. QED
      BY <1>1, <1>2, <2>1, <2>3
  <1>8. ASSUME NEW l \in Legs, OnClose(l) PROVE QuietStep
    BY <1>1, <1>8, QuietDetach DEF OnClose, QuietStep
  <1>9. QED
    BY <1>3, <1>4, <1>5, <1>6, <1>7, <1>8 DEF SocketStep

LEMMA ServerQuiet ==
    ASSUME IInv, ServerStep
    PROVE  QuietStep
  <1>1. RoomsOf(rooms) /\ Main \in RoomIds /\ \A r \in RoomIds : Exists(r) => rooms[r] \in Room
    BY RoomOfIds DEF IInv, RoomIds, RoomOK
  <1>2. CASE TimerFires
    <2>1. Exists(Main) => Tick(rooms[Main]).members = rooms[Main].members
      BY <1>1 DEF Tick, EndBreakouts, Room
    <2>2. QED
      BY <1>1, <1>2, <2>1, QuietSet, QuietSame, QuietStays DEF TimerFires, SetRoom
  <1>3. ASSUME NEW r \in RoomIds, RoomTold(r) PROVE QuietStep
    BY <1>1, <1>3, QuietSet DEF RoomTold, SetRoom
  <1>4. CASE UNCHANGED rooms
    BY <1>4, QuietStays
  <1>5. QED
    BY <1>2, <1>3, <1>4 DEF ServerStep, TickGoesOn, CloserEnds, CallClosed, SweepEnds

\* Somebody silenced who does not moderate stays silenced while the microphones
\* may not be opened again, whatever anybody does (attach, set_media, mute, set_role).
THEOREM SilenceKept == Spec => SilenceHolds
  <1>1. ASSUME IInv, [Next]_vars PROVE QuietStep
    <2>1. ASSUME NEW q \in Requests,
                 (\E p \in People : JoinAsks(q, p) \/ EditCohosts(q, p))
                 \/ \E r \in RoomIds, l \in Legs, o \in Given : OrderAsks(q, r, l, o)
          PROVE  QuietStep
      BY <2>1, QuietStays DEF JoinAsks, EditCohosts, OrderAsks, memory
    <2>2. ASSUME NEW r \in RoomIds, SweepSees(r) PROVE QuietStep
      BY <2>2, QuietStays DEF SweepSees
    <2>3. CASE UNCHANGED vars
      BY <2>3, QuietStays DEF vars, memory
    <2>4. QED
      BY <1>1, <2>1, <2>2, <2>3, RequestQuiet, SocketQuiet, ServerQuiet DEF Next
  <1>2. QuietStep => [\A r \in RoomIds : \A p \in People :
            Exists(r) /\ Exists(r)' /\ Silenced(rooms[r], p) /\ ~rooms'[r].allow
                /\ rooms'[r].admitted[p] \notin Staff => Silenced(rooms'[r], p)]_vars
    BY DEF QuietStep, Quiet, Exists
  <1>3. QED
    BY <1>1, <1>2, Invariance, PTL DEF Spec, SilenceHolds

-----------------------------------------------------------------------------
(* At the doors *)

Seats(r) == [l \in Legs |-> r.members[l].role]
\* Who is what, who waits, who is kept out and which tabs sit are as they were.
SameDoors(n, r) ==
    n.admitted = r.admitted /\ n.lobby = r.lobby /\ n.blocked = r.blocked /\ Seats(n) = Seats(r)

LEMMA CurrentDoors ==
    ASSUME NEW r \in RoomIds
    PROVE  SameDoors(Current(r), rooms[r])
  BY DEF SameDoors, Current, Exists, NoRoom, NewRoom, Seats

DoorsStand == UNCHANGED <<RolesNow, WaitsNow, BarredNow, SeatsNow>>

\* One room changes at a time.
LEMMA DoorsSet ==
    ASSUME RoomsOf(rooms), NEW r \in RoomIds, NEW n, rooms' = [rooms EXCEPT ![r] = n]
    PROVE  /\ RolesNow' = [RolesNow EXCEPT ![r] = n.admitted]
           /\ WaitsNow' = [WaitsNow EXCEPT ![r] = n.lobby]
           /\ BarredNow' = [BarredNow EXCEPT ![r] = n.blocked]
           /\ SeatsNow' = [SeatsNow EXCEPT ![r] = Seats(n)]
           /\ BarredNow'[r] = n.blocked
  <1>1. /\ RolesNow' = [RolesNow EXCEPT ![r] = n.admitted]
        /\ WaitsNow' = [WaitsNow EXCEPT ![r] = n.lobby]
        /\ BarredNow' = [BarredNow EXCEPT ![r] = n.blocked]
        /\ SeatsNow' = [SeatsNow EXCEPT ![r] = Seats(n)]
    BY DEF RoomsOf, RolesNow, WaitsNow, BarredNow, SeatsNow, Seats
  <1>2. BarredNow'[r] = n.blocked
    BY DEF RoomsOf, BarredNow
  <1> QED BY <1>1, <1>2

LEMMA DoorsKept ==
    ASSUME RoomsOf(rooms), NEW r \in RoomIds, NEW n, rooms' = [rooms EXCEPT ![r] = n]
    PROVE  /\ n.admitted = rooms[r].admitted => UNCHANGED RolesNow
           /\ n.lobby = rooms[r].lobby => UNCHANGED WaitsNow
           /\ n.blocked = rooms[r].blocked => UNCHANGED BarredNow
           /\ Seats(n) = Seats(rooms[r]) => UNCHANGED SeatsNow
  <1>1. \A k \in RoomIds : rooms'[k] = IF k = r THEN n ELSE rooms[k]
    BY DEF RoomsOf
  <1>2. n.admitted = rooms[r].admitted => UNCHANGED RolesNow
    BY <1>1 DEF RolesNow
  <1>3. n.lobby = rooms[r].lobby => UNCHANGED WaitsNow
    BY <1>1 DEF WaitsNow
  <1>4. n.blocked = rooms[r].blocked => UNCHANGED BarredNow
    BY <1>1 DEF BarredNow
  <1>5. ASSUME Seats(n) = Seats(rooms[r]) PROVE UNCHANGED SeatsNow
    <2>1. \A k \in RoomIds : Seats(rooms'[k]) = Seats(rooms[k])
      BY <1>1, <1>5
    <2>2. SeatsNow = [k \in RoomIds |-> Seats(rooms[k])]
      BY DEF SeatsNow, Seats
    <2>3. SeatsNow' = [k \in RoomIds |-> Seats(rooms'[k])]
      BY DEF SeatsNow, Seats
    <2> QED BY <2>1, <2>2, <2>3
  <1> QED BY <1>2, <1>3, <1>4, <1>5

LEMMA DoorsAre ==
    ASSUME NEW r \in RoomIds
    PROVE  /\ RolesNow[r] = rooms[r].admitted /\ WaitsNow[r] = rooms[r].lobby
           /\ BarredNow[r] = rooms[r].blocked /\ SeatsNow[r] = Seats(rooms[r])
  BY DEF RolesNow, WaitsNow, BarredNow, SeatsNow, Seats

LEMMA DoorsStay ==
    ASSUME \/ UNCHANGED rooms
           \/ RoomsOf(rooms) /\ \E r \in RoomIds : \E n :
                SameDoors(n, rooms[r]) /\ rooms' = [rooms EXCEPT ![r] = n]
    PROVE  DoorsStand
  <1>1. CASE UNCHANGED rooms
    BY <1>1 DEF DoorsStand, RolesNow, WaitsNow, BarredNow, SeatsNow
  <1>2. ASSUME RoomsOf(rooms), NEW r \in RoomIds, NEW n, SameDoors(n, rooms[r]),
               rooms' = [rooms EXCEPT ![r] = n]
        PROVE  DoorsStand
    BY <1>2, DoorsKept DEF DoorsStand, SameDoors
  <1> QED BY <1>1, <1>2

\* The errands are those of the requests, what the sweep has seen and the calls that are over.
Calls(new) ==
    /\ \A r \in RoomIds : row'[r] = "ended" => row[r] = "ended" \/ Door!Over(r) \in new
    /\ \A r \in idle' : r \in idle \/ Door!Deserted(r) \in new

LEMMA ErrandIs ==
    ASSUME NEW q \in Requests
    PROVE  ErrandsOf(frames[q]) \subseteq Errands
  BY DEF Errands

LEMMA ErrandsGo ==
    ASSUME NEW new, Calls(new),
           \A q \in Requests : ErrandsOf(frames'[q]) \subseteq ErrandsOf(frames[q]) \cup new
    PROVE  Door!Goes(new)
  <1>1. \A q \in Requests : ErrandsOf(frames[q])' = ErrandsOf(frames'[q])
    BY DEF ErrandsOf
  <1> DEFINE old == {Door!Over(r) : r \in {x \in RoomIds : row[x] = "ended"}}
             now == {Door!Over(r) : r \in {x \in RoomIds : row'[x] = "ended"}}
             seen == {Door!Deserted(r) : r \in idle}
             sees == {Door!Deserted(r) : r \in idle'}
             was == UNION {ErrandsOf(frames[q]) : q \in Requests}
             goes == UNION {ErrandsOf(frames'[q]) : q \in Requests}
  <1>2. Errands = was \cup seen \cup old
    BY DEF Errands, Door!Over, Door!Deserted
  <1>3. Errands' = goes \cup sees \cup now
    <2>1. goes = (UNION {ErrandsOf(frames[q]) : q \in Requests})'
      BY <1>1
    <2>2. Errands' = (UNION {ErrandsOf(frames[q]) : q \in Requests})' \cup sees \cup now
      BY DEF Errands, Door!Over, Door!Deserted
    <2> QED BY <2>1, <2>2
  <1>4. now \subseteq old \cup new
    BY DEF Calls
  <1>5. sees \subseteq seen \cup new
    BY DEF Calls
  <1>6. goes \subseteq was \cup new
    OBVIOUS
  <1> HIDE DEF old, now, seen, sees, was, goes
  <1> QED BY <1>2, <1>3, <1>4, <1>5, <1>6 DEF Door!Goes

LEMMA ErrandBegins ==
    ASSUME FramesOf(frames), NEW q \in Requests, NEW f, Becomes(q, f), NEW new, Calls(new),
           ErrandsOf(f) \subseteq ErrandsOf(frames[q]) \cup new
    PROVE  Door!Goes(new)
  <1>1. \A k \in Requests : (frames'[k] = f /\ k = q) \/ frames'[k] = frames[k]
    BY DEF Becomes, FramesOf
  <1> QED BY <1>1, ErrandsGo

LEMMA ErrandEnds ==
    ASSUME FramesOf(frames), NEW q \in Requests, Ends(q), NEW new, Calls(new)
    PROVE  Door!Goes(new)
  <1>1. ErrandsOf(NoFrame) = {}
    BY DEF ErrandsOf, NoFrame
  <1> QED BY <1>1, ErrandBegins DEF Ends

LEMMA CallsStay ==
    ASSUME UNCHANGED <<row, idle>>, NEW new
    PROVE  Calls(new)
  BY DEF Calls

\* Steps the promise does not see.
LEMMA Silent ==
    ASSUME DoorsStand, Door!Goes({})
    PROVE  Door!Next
  BY DEF Door!Next, Door!doors, DoorsStand

-----------------------------------------------------------------------------
(* What the commands of a room change at its door *)

\* A command that goes through the tabs without touching their roles.
LEMMA TabsSameDoors ==
    ASSUME NEW r, NEW b \in Room, SameDoors(b, r), NEW who, NEW change \in [Member -> Member],
           \A m \in Member : change[m].role = m.role
    PROVE  SameDoors(WithLegsOf(b, who, change), r)
  <1> DEFINE n == WithLegsOf(b, who, change)
  <1>1. /\ n.members = [l \in Legs |-> IF OwnerOf[l] \in who /\ Attached(b, l)
                                       THEN change[b.members[l]] ELSE b.members[l]]
        /\ SamePeople(n, b)
    BY WithLegsOfType
  <1>2. \A l \in Legs : b.members[l] \in Member
    BY DEF Room
  <1> HIDE DEF n
  <1>3. \A l \in Legs : n.members[l].role = b.members[l].role
    BY <1>1, <1>2
  <1>4. SameDoors(n, b)
    BY <1>1, <1>3 DEF SameDoors, Seats, SamePeople
  <1> QED BY <1>4 DEF SameDoors, n

LEMMA LowerDoors ==
    ASSUME NEW r, NEW b \in Room, SameDoors(b, r), NEW who
    PROVE  SameDoors(LowerHands(b, who), r)
  <1> DEFINE c == [b EXCEPT !.hands = @ \ who]
  <1>1. c \in Room /\ SameDoors(c, r)
    BY DEF Room, SameDoors, Seats
  <1> HIDE DEF c
  <1>2. \A m \in Member : HandDown[m].role = m.role
    BY DEF HandDown, Member
  <1> QED BY <1>1, <1>2, HandsType, TabsSameDoors DEF LowerHands, c

LEMMA RaiseDoors ==
    ASSUME NEW r \in Room, NEW l \in Legs
    PROVE  SameDoors(RaiseHand(r, l), r)
  <1> DEFINE c == [r EXCEPT !.hands = @ \cup {OwnerOf[l]}]
  <1>1. c \in Room /\ SameDoors(c, r) /\ SameDoors(r, r)
    BY RoomAssumption DEF Room, SameDoors, Seats
  <1> HIDE DEF c
  <1>2. \A m \in Member : HandUp[m].role = m.role
    BY DEF HandUp, Member
  <1>3. SameDoors(WithLegsOf(c, {OwnerOf[l]}, HandUp), r)
    BY <1>1, <1>2, HandsType, TabsSameDoors
  <1> QED BY <1>1, <1>3 DEF RaiseHand, c

LEMMA MediaDoors ==
    ASSUME NEW r \in Room, NEW l \in Legs, NEW mic
    PROVE  SameDoors(Media(r, l, mic), r)
  <1> DEFINE n == Media(r, l, mic)
  <1>1. /\ n.admitted = r.admitted /\ n.lobby = r.lobby /\ n.blocked = r.blocked
        /\ n.members = [r.members EXCEPT ![l].mic = mic]
    BY DEF Media, Room
  <1>2. \A k \in Legs : r.members[k] \in Member /\ r.members \in [Legs -> Member]
    BY DEF Room
  <1> HIDE DEF n
  <1>3. \A k \in Legs : n.members[k].role = r.members[k].role
    BY <1>1, <1>2 DEF Member
  <1> QED BY <1>1, <1>3 DEF SameDoors, Seats, n

\* A tab sits with the role its owner has ...
LEMMA AttachDoors ==
    ASSUME NEW r \in Room, NEW l \in Legs, NEW role \in Roles, NEW mic \in BOOLEAN
    PROVE  LET n == Attach(r, l, role, mic) IN
           /\ n.admitted = r.admitted /\ n.lobby = r.lobby /\ n.blocked = r.blocked
           /\ n = r \/ Seats(n) = [Seats(r) EXCEPT ![l] = role]
  BY DEF Attach, Room, Seats

\* ... and leaves no other one when it goes.
LEMMA DetachDoors ==
    ASSUME NEW r \in Room, NEW l \in Legs
    PROVE  LET n == Detach(r, l) IN
           /\ n.admitted = r.admitted /\ n.lobby = r.lobby /\ n.blocked = r.blocked
           /\ Seats(n) = [Seats(r) EXCEPT ![l] = NoRole]
  <1> DEFINE b == [r EXCEPT !.members[l] = NoMember]
  <1>1. NoMember.role = NoRole /\ NoMember \in Member
    BY DEF NoMember, Member
  <1>2. /\ b \in Room /\ b.admitted = r.admitted /\ b.lobby = r.lobby /\ b.blocked = r.blocked
        /\ b.members = [r.members EXCEPT ![l] = NoMember] /\ r.members \in [Legs -> Member]
    BY <1>1 DEF Room
  <1> HIDE DEF b
  <1>3. Seats(b) = [Seats(r) EXCEPT ![l] = NoRole]
    BY <1>1, <1>2 DEF Seats
  <1>4. SameDoors(b, b)
    BY DEF SameDoors
  <1>5. SameDoors(LowerHands(b, {OwnerOf[l]}), b)
    BY <1>2, <1>4, LowerDoors
  <1>6. Detach(r, l) = b \/ Detach(r, l) = LowerHands(b, {OwnerOf[l]})
    BY DEF Detach, b
  <1> QED BY <1>2, <1>3, <1>5, <1>6 DEF SameDoors

\* An order about media, hands, places or the room itself.
LEMMA OrderDoors ==
    ASSUME NEW r, RoomOK(r), NEW o \in Order,
           o.type \notin {"admit", "deny", "admit_all", "kick", "set_role"}
    PROVE  SameDoors(Ordered(r, o), r)
  <1>1. r \in Room /\ SameDoors(r, r) /\ r.hands \subseteq People
    BY DEF RoomOK, SameDoors, Room
  <1>2. CASE o.type = "mute"
    <2> DEFINE hard == ~r.allow /\ r.members[o.first].role \notin Staff
               change == [m \in Member |-> SilenceAs(hard, m)]
    <2>1. hard \in BOOLEAN
      OBVIOUS
    <2> HIDE DEF hard
    <2>2. change \in [Member -> Member] /\ \A m \in Member : change[m].role = m.role
      BY <2>1, SilenceKeeps
    <2> HIDE DEF change
    <2>3. SameDoors(WithLegsOf(r, {o.who}, change), r)
      BY <1>1, <2>2, TabsSameDoors
    <2> QED BY <1>2, <2>3 DEF Ordered, Mute, change, hard
  <1>3. CASE o.type \in {"mute_all", "allow_unmute"}
    <2> DEFINE allow == IF o.type = "mute_all" THEN o.allow ELSE TRUE
               b == [r EXCEPT !.allow = allow]
               Silenced1 == [m \in Member |-> IF m.role \in Staff THEN m ELSE SilenceAs(~allow, m)]
               Freed == [m \in Member |-> [m EXCEPT !.hard = FALSE]]
    <2>1. allow \in BOOLEAN /\ b \in Room /\ SameDoors(b, r)
      BY <1>1, <1>3, OrderShape DEF Room, SameDoors, Seats
    <2>2. Silenced1 \in [Member -> Member] /\ \A m \in Member : Silenced1[m].role = m.role
      BY <2>1, SilenceKeeps
    <2>3. Freed \in [Member -> Member] /\ \A m \in Member : Freed[m].role = m.role
      BY DEF Member
    <2> HIDE DEF Silenced1, Freed, b
    <2>4. SameDoors(WithLegsOf(b, People, Silenced1), r) /\ SameDoors(WithLegsOf(b, People, Freed), r)
      BY <2>1, <2>2, <2>3, TabsSameDoors
    <2> QED BY <1>3, <2>4 DEF Ordered, MuteAll, AllowUnmute, Silenced1, Freed, b
  <1>4. CASE o.type = "grant_floor"
    <2> DEFINE b == [r EXCEPT !.floor = o.who]
    <2>1. b \in Room /\ SameDoors(b, r)
      BY <1>1, <1>4, OrderShape DEF Room, SameDoors, Seats
    <2> HIDE DEF b
    <2> QED BY <1>4, <2>1, LowerDoors DEF Ordered, b
  <1>5. CASE o.type \in {"lower_hand", "lower_all_hands"}
    BY <1>1, <1>5, LowerDoors DEF Ordered
  <1>6. CASE o.type \in {"lock", "revoke_floor", "spotlight", "breakouts_open", "breakouts_close", "end"}
    BY <1>1, <1>6 DEF Ordered, Room, SameDoors, Seats
  <1> QED BY <1>2, <1>3, <1>4, <1>5, <1>6, OrderShape

\* Who comes in, goes out and gets another role.
LEMMA AdmitDoors ==
    ASSUME NEW r \in Room, NEW who, NEW as
    PROVE  LET n == AdmitEach(r, who, as) IN
           /\ n.admitted = [p \in People |-> IF p \in who THEN as[p] ELSE r.admitted[p]]
           /\ n.lobby = [p \in People |-> IF p \in who THEN NoRole ELSE r.lobby[p]]
           /\ n.blocked = r.blocked /\ Seats(n) = Seats(r)
  BY DEF AdmitEach, Room, Seats

LEMMA EnterDoors ==
    ASSUME NEW r \in Room, NEW p \in People, NEW as
    PROVE  LET n == AdmitPerson(r, p, as) IN
           /\ n.admitted = [k \in People |-> IF k \in {p} THEN as ELSE r.admitted[k]]
           /\ n.lobby = [k \in People |-> IF k \in {p} THEN NoRole ELSE r.lobby[k]]
           /\ n.blocked = r.blocked /\ Seats(n) = Seats(r)
  BY DEF AdmitPerson, Room, Seats

LEMMA ExpelDoors ==
    ASSUME NEW r, RoomOK(r), NEW p \in People, NEW block \in BOOLEAN,
           NEW n, n = Expel(r, p, block)
    PROVE  /\ n.admitted = [r.admitted EXCEPT ![p] = NoRole]
           /\ n.lobby = [r.lobby EXCEPT ![p] = NoRole]
           /\ (block => n.blocked = r.blocked \cup {p}) /\ (~block => n.blocked = r.blocked)
           /\ Seats(n) = [l \in Legs |-> IF OwnerOf[l] = p THEN NoRole ELSE Seats(r)[l]]
  <1>1. /\ n.admitted = [r.admitted EXCEPT ![p] = NoRole]
        /\ n.lobby = [r.lobby EXCEPT ![p] = NoRole]
        /\ (block => n.blocked = r.blocked \cup {p}) /\ (~block => n.blocked = r.blocked)
        /\ n.members = LegsOut(r, p)
    BY DEF Expel, RoomOK, Room
  <1>2. NoMember.role = NoRole
    BY DEF NoMember
  <1>3. Seats(n) = [l \in Legs |-> IF OwnerOf[l] = p THEN NoRole ELSE Seats(r)[l]]
    BY <1>1, <1>2 DEF Seats, LegsOut
  <1> QED BY <1>1, <1>3

LEMMA RoleDoors ==
    ASSUME NEW r, RoomOK(r), NEW p \in People, IsAdmitted(r, p),
           NEW new \in {"cohost", "presenter", "participant"},
           NEW given, given = IF new = "participant" /\ p \in Guests THEN "guest" ELSE new
    PROVE  LET n == SetRole(r, p, new) IN
           /\ n.admitted = [r.admitted EXCEPT ![p] = given]
           /\ n.lobby = r.lobby /\ n.blocked = r.blocked
           /\ Seats(n) = [l \in Legs |-> IF OwnerOf[l] = p /\ Seats(r)[l] # NoRole THEN given
                                         ELSE Seats(r)[l]]
  <1> DEFINE b == AdmitPerson(r, p, given)
             change == [m \in Member |-> [m EXCEPT !.role = given]]
             n == WithLegsOf(b, {p}, change)
  <1>1. given \in Roles /\ r \in Room /\ r.members \in [Legs -> Member]
    BY DEF Roles, RoomOK, Room
  <1>2. r.lobby[p] = NoRole /\ r.lobby \in [People -> Reasons \cup {NoRole}]
    BY DEF RoomOK, PeopleOK, Waiting, Room
  <1>3. /\ b \in Room /\ b.admitted = [r.admitted EXCEPT ![p] = given] /\ b.blocked = r.blocked
        /\ b.members = r.members
    BY <1>1 DEF AdmitPerson, Room
  <1>4. b.lobby = [r.lobby EXCEPT ![p] = NoRole]
    BY <1>1 DEF AdmitPerson, Room
  <1>5. b.lobby = r.lobby
    BY <1>2, <1>4
  <1>6. /\ change \in [Member -> Member]
        /\ \A m \in Member : change[m].role = given
    BY <1>1 DEF Member
  <1> HIDE DEF b, change
  <1>7. /\ SamePeople(n, b)
        /\ n.members = [l \in Legs |-> IF OwnerOf[l] \in {p} /\ Attached(b, l)
                                       THEN change[b.members[l]] ELSE b.members[l]]
    BY <1>3, <1>6, WithLegsOfType
  <1> HIDE DEF n
  <1>8. \A l \in Legs : n.members[l].role =
            IF OwnerOf[l] = p /\ r.members[l].role # NoRole THEN given ELSE r.members[l].role
    BY <1>1, <1>3, <1>6, <1>7 DEF Attached
  <1>9. Seats(n) = [l \in Legs |-> IF OwnerOf[l] = p /\ Seats(r)[l] # NoRole THEN given
                                   ELSE Seats(r)[l]]
    BY <1>8 DEF Seats
  <1>10. SetRole(r, p, new) = n
    BY DEF SetRole, n, b, change
  <1> QED BY <1>3, <1>5, <1>7, <1>9, <1>10 DEF SamePeople

\* Somebody who waits has no tab in the room: leaving the lobby is all they do.
LEMMA LeaveDoors ==
    ASSUME NEW r, RoomOK(r), NEW p \in People, Waiting(r, p)
    PROVE  LET n == Leave(r, p) IN
           /\ n.admitted = r.admitted /\ n.lobby = [r.lobby EXCEPT ![p] = NoRole]
           /\ n.blocked = r.blocked /\ Seats(n) = Seats(r)
  <1> DEFINE n == Leave(r, p)
  <1>1. /\ n.admitted = r.admitted /\ n.lobby = [r.lobby EXCEPT ![p] = NoRole]
        /\ n.blocked = r.blocked /\ n.members = LegsOut(r, p)
    BY DEF Leave, RoomOK, Room
  <1>2. \A l \in Legs : OwnerOf[l] = p => r.members[l] = NoMember
    BY DEF RoomOK, LegsOK, PeopleOK, IsAdmitted, Attached
  <1> HIDE DEF n
  <1>3. Seats(n) = Seats(r)
    BY <1>1, <1>2 DEF Seats, LegsOut
  <1> QED BY <1>1, <1>3 DEF n

LEMMA OpenDoors ==
    ASSUME NEW r \in RoomIds, NEW small \in BOOLEAN, NEW allow \in BOOLEAN,
           NEW blocked \in SUBSET People
    PROVE  LET n == OpenRoom(r, small, allow, blocked) IN
           /\ n.admitted = rooms[r].admitted /\ n.lobby = rooms[r].lobby
           /\ Seats(n) = Seats(rooms[r])
           /\ \/ n.blocked = rooms[r].blocked
              \/ /\ rooms[r] = NoRoom /\ n.blocked = blocked
  <1>1. CASE Exists(r)
    BY <1>1 DEF OpenRoom
  <1>2. CASE ~Exists(r)
    BY <1>2 DEF OpenRoom, Exists, NoRoom, NewRoom, Seats
  <1> QED BY <1>1, <1>2

-----------------------------------------------------------------------------
(* Each request, socket and timer is a step at the door *)

\* The role somebody comes with is one they may have; who is let in without an order
\* needs none.
DoorFrame(f) ==
    /\ f.pc \in {"found", "called", "grow"} => f.role \in Door!MayBe(f.who)
    /\ f.pc = "grow" => ~NeedsApproval(f.who, f.role)
    /\ f.pc = "welcome" => f.left \cap NeedApproval = {}
DInv ==
    /\ \A p \in People : rooms[Main].lobby[p] = "host" => p \notin NeedApproval
    /\ \A q \in Requests : DoorFrame(frames[q])
DoorStep == Door!Next /\ \A q \in Requests : DoorFrame(frames'[q])

LEMMA NeedIs ==
    ASSUME NEW p \in People, NEW role
    PROVE  NeedsApproval(p, role) <=> role \notin Staff /\ p \in NeedApproval
  BY DEF NeedsApproval, NeedApproval, Staff

LEMMA DoorBegins ==
    ASSUME FramesOf(frames), DInv, NEW q \in Requests, NEW f, Becomes(q, f), DoorFrame(f)
    PROVE  \A k \in Requests : DoorFrame(frames'[k])
  BY DEF FramesOf, Becomes, DInv

LEMMA DoorEnds ==
    ASSUME FramesOf(frames), DInv, NEW q \in Requests, Ends(q)
    PROVE  \A k \in Requests : DoorFrame(frames'[k])
  <1>1. DoorFrame(NoFrame)
    BY DEF DoorFrame, NoFrame
  <1> QED BY <1>1, DoorBegins DEF Ends

LEMMA ComesIs ==
    ASSUME RoomsOf(rooms), NEW r \in RoomIds, NEW n, rooms' = [rooms EXCEPT ![r] = n],
           NEW who, NEW as,
           n.admitted = [p \in People |-> IF p \in who THEN as[p] ELSE rooms[r].admitted[p]],
           n.lobby = [p \in People |-> IF p \in who THEN NoRole ELSE rooms[r].lobby[p]],
           n.blocked = rooms[r].blocked, Seats(n) = Seats(rooms[r]),
           who \cap rooms[r].blocked = {}
    PROVE  Door!Comes(r, who, as)
  <1>1. /\ RolesNow' = [RolesNow EXCEPT ![r] = n.admitted]
        /\ WaitsNow' = [WaitsNow EXCEPT ![r] = n.lobby]
        /\ BarredNow' = [BarredNow EXCEPT ![r] = n.blocked]
        /\ SeatsNow' = [SeatsNow EXCEPT ![r] = Seats(n)]
    BY DoorsSet
  <1>2. UNCHANGED <<BarredNow, SeatsNow>>
    BY DoorsKept
  <1> QED BY <1>1, <1>2, DoorsAre DEF Door!Comes, NoRole

LEMMA OpensIs ==
    ASSUME RoomsOf(rooms), NEW r \in RoomIds, NEW n, rooms' = [rooms EXCEPT ![r] = n],
           NEW blocked \in SUBSET People, Host \notin blocked,
           \/ n.blocked = rooms[r].blocked
           \/ rooms[r] = NoRoom /\ n.blocked = blocked
    PROVE  Door!Opens(r) /\ BarredNow'[r] = n.blocked
  <1>1. BarredNow' = [BarredNow EXCEPT ![r] = n.blocked] /\ BarredNow'[r] = n.blocked
    BY DoorsSet
  <1>2. CASE n.blocked = rooms[r].blocked
    BY <1>1, <1>2, DoorsKept DEF Door!Opens
  <1>3. CASE rooms[r] = NoRoom /\ n.blocked = blocked
    <2>1. Door!Empty(r)
      <3>1. /\ RolesNow[r] = [p \in People |-> NoRole] /\ WaitsNow[r] = [p \in People |-> NoRole]
            /\ SeatsNow[r] = [l \in Legs |-> NoRole]
        BY <1>3, DoorsAre, NoRoomFields DEF Seats, NoMember
      <3> QED BY <3>1 DEF Door!Empty, NoRole
    <2> QED BY <1>1, <1>3, <2>1 DEF Door!Opens
  <1> QED BY <1>2, <1>3

LEMMA JoinDoor ==
    ASSUME IInv, HInv, DInv, NEW q \in Requests,
           \/ \E p \in People : JoinAsks(q, p)
           \/ MeetingCall(q) \/ JoinDecides(q) \/ JoinFails(q) \/ JoinEnters(q)
    PROVE  DoorStep
  <1> DEFINE f == frames[q]
  <1>0. /\ RoomsOf(rooms) /\ FramesOf(frames) /\ FrameOK(f) /\ DoorFrame(f) /\ Main \in RoomIds
        /\ RestOf
    BY DEF IInv, FramesOf, DInv, RoomIds
  <1>1. ASSUME NEW p \in People, JoinAsks(q, p) PROVE DoorStep
    <2> DEFINE g == [pc |-> "found", who |-> p, role |-> DocRole(p)]
    <2>1. Becomes(q, g) /\ DoorFrame(g) /\ ErrandsOf(g) = {}
      BY <1>1 DEF JoinAsks, DoorFrame, DocRole, Door!MayBe, ErrandsOf
    <2>2. DoorsStand /\ Calls({})
      BY <1>1, DoorsStay, CallsStay DEF JoinAsks, memory, tables
    <2> QED BY <1>0, <2>1, <2>2, ErrandBegins, DoorBegins, Silent DEF DoorStep
  <1>2. CASE MeetingCall(q)
    <2> DEFINE g == [f EXCEPT !.pc = "called"]
    <2>1. f \in JoinFrame
      BY <1>0, <1>2 DEF MeetingCall, FrameOK
    <2>2. g.pc = "called" /\ g.who = f.who /\ g.role = f.role
      BY <2>1 DEF JoinFrame
    <2>3. DoorFrame(g) /\ ErrandsOf(g) = {}
      BY <1>0, <1>2, <2>2 DEF MeetingCall, DoorFrame, ErrandsOf
    <2>4. DoorsStand
      BY <1>2, DoorsStay DEF MeetingCall, memory
    <2>5. Calls({})
      BY <1>0, <1>2 DEF MeetingCall, memory, Calls, RestOf
    <2> HIDE DEF g
    <2>6. Becomes(q, g) \/ Ends(q)
      BY <1>2 DEF MeetingCall, g
    <2> QED BY <1>0, <2>3, <2>4, <2>5, <2>6, ErrandBegins, ErrandEnds, DoorBegins, DoorEnds, Silent
            DEF DoorStep
  <1>3. CASE JoinDecides(q)
    <2> DEFINE room == OpenRoom(Main, FALSE, MayUnmute, doc.blocked)
               enters == MayEnter(room, f.who) /\ (room.locked => f.role \in Staff)
                         /\ ~IsAdmitted(room, f.who)
               waits == NeedsApproval(f.who, f.role) \/ HostAway(room, f.role)
               reason == IF NeedsApproval(f.who, f.role) THEN "approval" ELSE "host"
               g == [f EXCEPT !.pc = "grow"]
               w == Wait(room, f.who, reason)
    <2>1. /\ f.pc = "called" /\ UNCHANGED <<row, idle>>
          /\ rooms' = [rooms EXCEPT ![Main] = IF enters /\ waits THEN w ELSE room]
          /\ IF enters /\ ~waits THEN Becomes(q, g) ELSE Ends(q)
      BY <1>3 DEF JoinDecides, SetRoom, tables
    <2>2. f \in JoinFrame /\ f.who \in People
      BY <1>0, <2>1 DEF FrameOK, JoinFrame
    <2>3. g.pc = "grow" /\ g.who = f.who /\ g.role = f.role
      BY <2>2 DEF JoinFrame
    <2>4. doc.blocked \in SUBSET People /\ Host \notin doc.blocked
      BY <1>0 DEF HInv, RestOf
    <2>5. /\ room.admitted = rooms[Main].admitted /\ room.lobby = rooms[Main].lobby
          /\ Seats(room) = Seats(rooms[Main]) /\ RoomOK(room)
          /\ \/ room.blocked = rooms[Main].blocked
             \/ rooms[Main] = NoRoom /\ room.blocked = doc.blocked
      <3>1. RoomOK(room)
        BY <1>0, <2>4, OpenRoomOK, MeetingAssumption
      <3>2. /\ room.admitted = rooms[Main].admitted /\ room.lobby = rooms[Main].lobby
            /\ Seats(room) = Seats(rooms[Main])
            /\ \/ room.blocked = rooms[Main].blocked
               \/ rooms[Main] = NoRoom /\ room.blocked = doc.blocked
        <4>1. MayUnmute \in BOOLEAN
          BY MeetingAssumption
        <4> QED BY <1>0, <2>4, <4>1, OpenDoors
      <3> QED BY <3>1, <3>2
    <2>6. waits => reason = IF f.who \in NeedApproval THEN "approval" ELSE "host"
      BY <2>2, NeedIs DEF HostAway
    <2>7. Door!Goes({})
      <3>1. ErrandsOf(g) = {}
        BY <2>3 DEF ErrandsOf
      <3> HIDE DEF g, enters, waits
      <3> QED BY <1>0, <2>1, <3>1, CallsStay, ErrandBegins, ErrandEnds
    <2>8. \A k \in Requests : DoorFrame(frames'[k])
      <3>1. ~waits => DoorFrame(g)
        BY <1>0, <2>1, <2>3 DEF DoorFrame
      <3> HIDE DEF g, enters, waits
      <3> QED BY <1>0, <2>1, <3>1, DoorBegins, DoorEnds
    <2> HIDE DEF room, g
    <2>9. CASE enters /\ waits
      <3>1. /\ w.admitted = room.admitted /\ w.blocked = room.blocked /\ Seats(w) = Seats(room)
            /\ w.lobby = [room.lobby EXCEPT ![f.who] = reason]
        BY <2>5, <2>9 DEF Wait, Room, RoomOK, Seats
      <3> HIDE DEF w
      <3>2. Door!Opens(Main) /\ BarredNow'[Main] = w.blocked
        <4>1. rooms' = [rooms EXCEPT ![Main] = w]
          BY <2>1, <2>9
        <4>2. \/ w.blocked = rooms[Main].blocked
              \/ rooms[Main] = NoRoom /\ w.blocked = doc.blocked
          BY <2>5, <3>1
        <4> HIDE DEF enters, waits
        <4> QED BY <1>0, <2>4, <4>1, <4>2, OpensIs
      <3>3. /\ RolesNow' = [RolesNow EXCEPT ![Main] = w.admitted]
            /\ WaitsNow' = [WaitsNow EXCEPT ![Main] = w.lobby]
            /\ SeatsNow' = [SeatsNow EXCEPT ![Main] = Seats(w)]
        BY <1>0, <2>1, <2>9, DoorsSet
      <3>4. UNCHANGED <<RolesNow, SeatsNow>>
        BY <1>0, <2>1, <2>5, <2>9, <3>1, DoorsKept
      <3>5. WaitsNow' = [WaitsNow EXCEPT ![Main][f.who] =
                            IF f.who \in NeedApproval THEN "approval" ELSE "host"]
        BY <1>0, <2>5, <2>6, <2>9, <3>1, <3>3, DoorsAre
      <3>6. RolesNow[Main][f.who] = "none" /\ f.who \notin w.blocked
        BY <1>0, <2>5, <2>9, <3>1, DoorsAre DEF IsAdmitted, MayEnter, NoRole
      <3>7. Door!Knock(f.who)
        BY <2>7, <3>2, <3>4, <3>5, <3>6 DEF Door!Knock
      <3> QED BY <2>2, <2>8, <3>7 DEF DoorStep, Door!Next
    <2>10. CASE ~(enters /\ waits)
      <3>1. rooms' = [rooms EXCEPT ![Main] = room]
        BY <2>1, <2>10
      <3>2. Door!Opens(Main)
        BY <1>0, <2>4, <2>5, <3>1, OpensIs
      <3>3. UNCHANGED <<RolesNow, WaitsNow, SeatsNow>>
        BY <1>0, <2>5, <3>1, DoorsKept
      <3>4. Door!Open(Main)
        BY <2>7, <3>2, <3>3 DEF Door!Open
      <3> QED BY <1>0, <2>8, <3>4 DEF DoorStep, Door!Next
    <2> QED BY <2>9, <2>10
  <1>4. CASE JoinFails(q)
    <2>1. Ends(q) /\ DoorsStand /\ Calls({})
      BY <1>4, DoorsStay, CallsStay DEF JoinFails, memory, tables
    <2> QED BY <1>0, <2>1, ErrandEnds, DoorEnds, Silent DEF DoorStep
  <1>5. CASE JoinEnters(q)
    <2> DEFINE room == Current(Main)
               n == AdmitPerson(room, f.who, f.role)
    <2>1. f.who \in People /\ f.role \in Door!MayBe(f.who) /\ ~NeedsApproval(f.who, f.role)
      BY <1>0, <1>5 DEF JoinEnters, FrameOK, JoinFrame, DoorFrame
    <2>2. Calls({}) /\ Calls({Door!Arrival})
      BY <1>5, CallsStay DEF JoinEnters, tables
    <2>3. CASE MayEnter(room, f.who)
      <3>1. RoomOK(room) /\ SameDoors(room, rooms[Main])
        BY <1>0, RoomOfIds, CurrentDoors
      <3>2. /\ n.admitted = [k \in People |-> IF k \in {f.who} THEN f.role ELSE room.admitted[k]]
            /\ n.lobby = [k \in People |-> IF k \in {f.who} THEN NoRole ELSE room.lobby[k]]
            /\ n.blocked = room.blocked /\ Seats(n) = Seats(room)
        BY <2>1, <3>1, EnterDoors DEF RoomOK
      <3>3. rooms' = [rooms EXCEPT ![Main] = n]
        BY <1>5, <2>3 DEF JoinEnters, SetRoom
      <3>4. {f.who} \cap rooms[Main].blocked = {}
        BY <2>3, <3>1 DEF MayEnter, SameDoors
      <3> HIDE DEF n, room
      <3> DEFINE as == [x \in {f.who} |-> f.role]
      <3>5. \A k \in {f.who} : as[k] = f.role
        OBVIOUS
      <3> HIDE DEF as
      <3>6. Door!Comes(Main, {f.who}, as)
        <4>1. /\ n.admitted = [k \in People |-> IF k \in {f.who} THEN as[k]
                                               ELSE rooms[Main].admitted[k]]
              /\ n.lobby = [k \in People |-> IF k \in {f.who} THEN NoRole
                                            ELSE rooms[Main].lobby[k]]
              /\ n.blocked = rooms[Main].blocked /\ Seats(n) = Seats(rooms[Main])
          BY <3>1, <3>2, <3>5 DEF SameDoors
        <4> QED BY <1>0, <3>3, <3>4, <4>1, ComesIs
      <3>7. CASE f.role \in Staff
        <4> DEFINE g == [pc |-> "arrived"]
        <4>1. Becomes(q, g) /\ DoorFrame(g) /\ ErrandsOf(g) = {Door!Arrival}
          BY <1>5, <2>3, <3>7 DEF JoinEnters, room, DoorFrame, ErrandsOf, Door!Arrival
        <4>2. Door!Goes({Door!Arrival}) /\ \A k \in Requests : DoorFrame(frames'[k])
          BY <1>0, <2>2, <4>1, ErrandBegins, DoorBegins
        <4>3. Door!Enter(f.who, f.role)
          BY <3>6, <3>7, <4>2 DEF Door!Enter, Door!Moderators, Staff, as
        <4> QED BY <2>1, <4>2, <4>3 DEF DoorStep, Door!Next
      <3>8. CASE f.role \notin Staff
        <4>1. Ends(q)
          BY <1>5, <2>3, <3>8 DEF JoinEnters, room
        <4>2. Door!Goes({}) /\ \A k \in Requests : DoorFrame(frames'[k])
          BY <1>0, <2>2, <4>1, ErrandEnds, DoorEnds
        <4>3. f.who \notin NeedApproval
          BY <2>1, <3>8, NeedIs
        <4>4. Door!Enter(f.who, f.role)
          BY <3>6, <3>8, <4>2, <4>3 DEF Door!Enter, Door!Moderators, Staff, as
        <4> QED BY <2>1, <4>2, <4>4 DEF DoorStep, Door!Next
      <3> QED BY <3>7, <3>8
    <2>4. CASE ~MayEnter(room, f.who)
      <3>1. Ends(q) /\ DoorsStand
        BY <1>5, <2>4, DoorsStay DEF JoinEnters
      <3> QED BY <1>0, <2>2, <3>1, ErrandEnds, DoorEnds, Silent DEF DoorStep
    <2> QED BY <2>3, <2>4
  <1> QED BY <1>1, <1>2, <1>3, <1>4, <1>5

\* Whoever waits comes in with the lowest role they may have.
LEMMA AdmitsDoor ==
    ASSUME RoomsOf(rooms), NEW r \in RoomIds, NEW who \in SUBSET People,
           \A p \in who : Waiting(Current(r), p),
           rooms' = [rooms EXCEPT ![r] = AdmitWaiting(Current(r), who)]
    PROVE  /\ Door!Comes(r, who, [p \in who |-> Door!Lowest(p)])
           /\ \A p \in who : WaitsNow[r][p] # "none"
  <1> DEFINE as == [p \in who |-> Door!Lowest(p)]
             c == Current(r)
             n == AdmitEach(c, who, as)
  <1>1. RoomOK(c) /\ c \in Room /\ SameDoors(c, rooms[r])
    BY RoomOfIds, CurrentDoors DEF RoomOK
  <1>2. as = [p \in who |-> WaitingRole(p)]
    BY DEF Door!Lowest, WaitingRole
  <1> HIDE DEF as
  <1>3. rooms' = [rooms EXCEPT ![r] = n]
    BY <1>2 DEF AdmitWaiting
  <1>4. /\ n.admitted = [p \in People |-> IF p \in who THEN as[p] ELSE c.admitted[p]]
        /\ n.lobby = [p \in People |-> IF p \in who THEN NoRole ELSE c.lobby[p]]
        /\ n.blocked = c.blocked /\ Seats(n) = Seats(c)
    BY <1>1, AdmitDoors
  <1>5. who \cap rooms[r].blocked = {}
    BY <1>1 DEF RoomOK, PeopleOK, SameDoors
  <1>6. \A p \in who : WaitsNow[r][p] # "none"
    BY <1>1, DoorsAre DEF SameDoors, Waiting, NoRole
  <1> HIDE DEF n, c
  <1>7. Door!Comes(r, who, as)
    BY <1>1, <1>3, <1>4, <1>5, ComesIs DEF SameDoors
  <1> QED BY <1>6, <1>7 DEF as

LEMMA WelcomeDoor ==
    ASSUME IInv, DInv, NEW q \in Requests, WelcomeReads(q) \/ Welcome(q)
    PROVE  DoorStep
  <1> DEFINE f == frames[q]
  <1>0. /\ RoomsOf(rooms) /\ FramesOf(frames) /\ FrameOK(f) /\ DoorFrame(f) /\ Main \in RoomIds
    BY DEF IInv, FramesOf, DInv, RoomIds
  <1>1. CASE WelcomeReads(q)
    <2> DEFINE g == [pc |-> "welcome", left |-> WaitingForHost]
    <2>1. WaitingForHost \cap NeedApproval = {}
      BY <1>0, CurrentDoors DEF DInv, WaitingForHost, SameDoors
    <2>2. DoorFrame(g) /\ ErrandsOf(g) = ErrandsOf(f)
      BY <1>1, <2>1 DEF WelcomeReads, DoorFrame, ErrandsOf
    <2>3. DoorsStand /\ Calls({})
      BY <1>1, DoorsStay, CallsStay DEF WelcomeReads, memory, tables
    <2> HIDE DEF g
    <2>4. Becomes(q, g) \/ Ends(q)
      BY <1>1 DEF WelcomeReads, g
    <2> QED BY <1>0, <2>2, <2>3, <2>4, ErrandBegins, ErrandEnds, DoorBegins, DoorEnds, Silent
            DEF DoorStep
  <1>2. CASE Welcome(q)
    <2>1. PICK p \in f.left :
            /\ IF f.left \ {p} = {} THEN Ends(q) ELSE Becomes(q, [f EXCEPT !.left = f.left \ {p}])
            /\ \/ UNCHANGED rooms
               \/ /\ Waiting(Current(Main), p)
                  /\ rooms' = [rooms EXCEPT ![Main] = AdmitWaiting(Current(Main), {p})]
      BY <1>2 DEF Welcome
    <2> DEFINE g == [f EXCEPT !.left = f.left \ {p}]
    <2>2. /\ f.pc = "welcome" /\ p \in People /\ p \notin NeedApproval
          /\ g.pc = "welcome" /\ g.left \cap NeedApproval = {}
      BY <1>0, <1>2, <2>1 DEF Welcome, FrameOK, DoorFrame
    <2>3. DoorFrame(g) /\ ErrandsOf(g) = ErrandsOf(f) /\ ErrandsOf(f) = {Door!Arrival}
      BY <2>2 DEF DoorFrame, ErrandsOf, Door!Arrival
    <2>4. Calls({})
      BY <1>2, CallsStay DEF Welcome, tables
    <2> HIDE DEF g
    <2>5. Becomes(q, g) \/ Ends(q)
      BY <2>1 DEF g
    <2>6. Door!Goes({}) /\ \A k \in Requests : DoorFrame(frames'[k])
      BY <1>0, <2>3, <2>4, <2>5, ErrandBegins, ErrandEnds, DoorBegins, DoorEnds
    <2>7. CASE UNCHANGED rooms
      BY <2>6, <2>7, DoorsStay, Silent DEF DoorStep
    <2>8. CASE /\ Waiting(Current(Main), p)
               /\ rooms' = [rooms EXCEPT ![Main] = AdmitWaiting(Current(Main), {p})]
      <3>1. {p} \in SUBSET People /\ \A k \in {p} : Waiting(Current(Main), k)
        BY <2>2, <2>8
      <3>2. Door!Comes(Main, {p}, [x \in {p} |-> Door!Lowest(x)]) /\ WaitsNow[Main][p] # "none"
        BY <1>0, <2>8, <3>1, AdmitsDoor
      <3>3. Door!Arrival \in Errands
        BY <2>3, ErrandIs
      <3>4. Door!Welcome(p)
        BY <2>2, <2>6, <3>2, <3>3 DEF Door!Welcome
      <3> QED BY <2>2, <2>6, <3>4 DEF DoorStep, Door!Next
    <2> QED BY <2>1, <2>7, <2>8
  <1> QED BY <1>1, <1>2

\* Somebody goes out of a room, with all they have there.
LEMMA GoesOutIs ==
    ASSUME RoomsOf(rooms), NEW r \in RoomIds, NEW p \in People, NEW block \in BOOLEAN,
           NEW c, RoomOK(c), SameDoors(c, rooms[r]), rooms' = [rooms EXCEPT ![r] = Expel(c, p, block)]
    PROVE  Door!GoesOut(r, p, block)
  <1> DEFINE n == Expel(c, p, block)
  <1>1. /\ n.admitted = [rooms[r].admitted EXCEPT ![p] = NoRole]
        /\ n.lobby = [rooms[r].lobby EXCEPT ![p] = NoRole]
        /\ n.blocked = (IF block THEN rooms[r].blocked \cup {p} ELSE rooms[r].blocked)
        /\ Seats(n) = [l \in Legs |-> IF OwnerOf[l] = p THEN NoRole ELSE Seats(rooms[r])[l]]
    <2>1. /\ n.admitted = [c.admitted EXCEPT ![p] = NoRole]
          /\ n.lobby = [c.lobby EXCEPT ![p] = NoRole]
          /\ (block => n.blocked = c.blocked \cup {p}) /\ (~block => n.blocked = c.blocked)
          /\ Seats(n) = [l \in Legs |-> IF OwnerOf[l] = p THEN NoRole ELSE Seats(c)[l]]
      <3>1. n = Expel(c, p, block)
        OBVIOUS
      <3> HIDE DEF n
      <3> QED BY <3>1, ExpelDoors
    <2> HIDE DEF n
    <2> QED BY <2>1 DEF SameDoors
  <1>2. rooms' = [rooms EXCEPT ![r] = n]
    OBVIOUS
  <1> HIDE DEF n
  <1>3. /\ RolesNow' = [RolesNow EXCEPT ![r] = n.admitted]
        /\ WaitsNow' = [WaitsNow EXCEPT ![r] = n.lobby]
        /\ BarredNow' = [BarredNow EXCEPT ![r] = n.blocked]
        /\ SeatsNow' = [SeatsNow EXCEPT ![r] = Seats(n)]
    BY <1>2, DoorsSet
  <1>4. /\ RolesNow' = [RolesNow EXCEPT ![r] = [RolesNow[r] EXCEPT ![p] = "none"]]
        /\ WaitsNow' = [WaitsNow EXCEPT ![r] = [WaitsNow[r] EXCEPT ![p] = "none"]]
    BY <1>1, <1>3, DoorsAre DEF NoRole
  <1>5. /\ BarredNow' = [BarredNow EXCEPT ![r] = IF block THEN BarredNow[r] \cup {p} ELSE BarredNow[r]]
        /\ SeatsNow' = [SeatsNow EXCEPT ![r] =
                [l \in Legs |-> IF OwnerOf[l] = p THEN "none" ELSE SeatsNow[r][l]]]
    BY <1>1, <1>3, DoorsAre DEF NoRole
  <1> QED BY <1>4, <1>5 DEF Door!GoesOut

\* Somebody gets another role, and so do the tabs they sit with.
LEMMA AppointIs ==
    ASSUME RoomsOf(rooms), NEW r \in RoomIds, NEW a, NEW role, NEW o \in Order,
           o.type = "set_role", MayOrder(Current(r), a, role, o),
           rooms' = [rooms EXCEPT ![r] = Ordered(Current(r), o)],
           Door!Word(r, role) \in Errands, Door!Goes({})
    PROVE  Door!Next
  <1> DEFINE c == Current(r)
             p == o.who
             new == IF o.role = "participant" /\ p \in Guests THEN "guest" ELSE o.role
             n == SetRole(c, p, o.role)
  <1>1. RoomOK(c) /\ SameDoors(c, rooms[r]) /\ p \in People
        /\ o.role \in {"cohost", "presenter", "participant"}
    BY RoomOfIds, CurrentDoors, OrderShape
  <1>2. /\ role \in Staff /\ c.admitted[p] \notin {NoRole, "host"}
        /\ o.role = "cohost" => role = "host" /\ p \notin Guests
        /\ c.admitted[p] = "cohost" => role = "host"
    BY DEF MayOrder, MaySetRole
  <1>3. Ordered(c, o) = n
    BY DEF Ordered
  <1>4. /\ n.admitted = [c.admitted EXCEPT ![p] = new]
        /\ n.lobby = c.lobby /\ n.blocked = c.blocked
        /\ Seats(n) = [l \in Legs |-> IF OwnerOf[l] = p /\ Seats(c)[l] # NoRole THEN new
                                      ELSE Seats(c)[l]]
    <2>1. IsAdmitted(c, p)
      BY <1>2 DEF IsAdmitted
    <2>2. new = IF o.role = "participant" /\ p \in Guests THEN "guest" ELSE o.role
      OBVIOUS
    <2> HIDE DEF c, new
    <2> QED BY <1>1, <2>1, <2>2, RoleDoors
  <1>5. new = "cohost" <=> o.role = "cohost"
    BY <1>1
  <1>6. new \in {"cohost", "presenter", Door!Lowest(p)}
    BY <1>1 DEF Door!Lowest
  <1>7. rooms' = [rooms EXCEPT ![r] = n]
    BY <1>3
  <1>8. RolesNow[r][p] = c.admitted[p]
    BY <1>1, DoorsAre DEF SameDoors
  <1> HIDE DEF new, n, c
  <1>9. Door!Said(r, IF "cohost" \in {RolesNow[r][p], new} THEN {"host"} ELSE Door!Moderators)
    BY <1>2, <1>5, <1>8 DEF Door!Said, Door!Moderators, Staff
  <1>10. UNCHANGED <<WaitsNow, BarredNow>>
    <2>1. n.lobby = rooms[r].lobby /\ n.blocked = rooms[r].blocked
      BY <1>1, <1>4 DEF SameDoors
    <2> QED BY <1>7, <2>1, DoorsKept
  <1>11. /\ RolesNow' = [RolesNow EXCEPT ![r] = n.admitted]
         /\ SeatsNow' = [SeatsNow EXCEPT ![r] = Seats(n)]
    BY <1>7, DoorsSet
  <1>12. RolesNow' = [RolesNow EXCEPT ![r] = [RolesNow[r] EXCEPT ![p] = new]]
    BY <1>1, <1>4, <1>11, DoorsAre DEF SameDoors
  <1>13. SeatsNow' = [SeatsNow EXCEPT ![r] =
            [l \in Legs |-> IF OwnerOf[l] = p /\ SeatsNow[r][l] # "none" THEN new ELSE SeatsNow[r][l]]]
    <2>1. Seats(c) = SeatsNow[r]
      BY <1>1, DoorsAre DEF SameDoors
    <2> QED BY <1>4, <1>11, <2>1 DEF NoRole
  <1>14. Door!Appoint(r, p, new)
    BY <1>2, <1>5, <1>8, <1>9, <1>10, <1>12, <1>13 DEF Door!Appoint, NoRole
  <1> QED BY <1>1, <1>6, <1>14 DEF Door!Next

\* An order is run with the word its sender gave when they sat as a moderator.
LEMMA OrderRunsDoor ==
    ASSUME IInv, HInv, DInv, NEW q \in Requests, OrderRuns(q)
    PROVE  DoorStep
  <1> DEFINE f == frames[q]
             r == f.room
             o == f.order
             c == Current(r)
             n == Ordered(c, o)
             g == NextOf(f, n)
             done == MayOrder(c, f.who, f.role, o)
  <1>1. /\ RoomsOf(rooms) /\ FramesOf(frames) /\ f.pc = "asked" /\ r \in RoomIds /\ o \in Order
    BY DEF IInv, FramesOf, OrderRuns, FrameOK
  <1>2. RoomOK(c) /\ SameDoors(c, rooms[r])
    BY <1>1, RoomOfIds, CurrentDoors
  <1>3. Door!Word(r, f.role) \in Errands
    BY <1>1, ErrandIs DEF ErrandsOf, Door!Word
  <1>4. /\ done => rooms' = [rooms EXCEPT ![r] = n] /\ Becomes(q, g)
        /\ done => row' = IF o.type = "end" /\ row[r] = "active" THEN [row EXCEPT ![r] = "ended"]
                          ELSE row
        /\ ~done => Ends(q) /\ UNCHANGED <<rooms, row>>
        /\ UNCHANGED idle
    BY DEF OrderRuns, SetRoom
  <1> HIDE DEF g, done
  <1>5. CASE ~done
    <2>1. Ends(q) /\ DoorsStand /\ Calls({})
      BY <1>4, <1>5, DoorsStay, CallsStay
    <2> QED BY <1>1, <2>1, ErrandEnds, DoorEnds, Silent DEF DoorStep
  <1>6. CASE done
    <2>1. /\ rooms' = [rooms EXCEPT ![r] = n] /\ Becomes(q, g)
          /\ row' = IF o.type = "end" /\ row[r] = "active" THEN [row EXCEPT ![r] = "ended"] ELSE row
      BY <1>4, <1>6
    <2>2. f.role \in Staff /\ MayOrder(c, f.who, f.role, o)
      BY <1>6 DEF done, MayOrder
    <2>3. Door!Said(r, Door!Moderators)
      BY <1>3, <2>2 DEF Door!Said, Door!Moderators, Staff
    <2>4. DoorFrame(g)
      BY DEF g, NextOf, DoorFrame, NoFrame
    <2>5. \A k \in Requests : DoorFrame(frames'[k])
      BY <1>1, <2>1, <2>4, DoorBegins
    <2>6. o.type # "end" => \A new : Calls(new)
      BY <1>4, <2>1, CallsStay
    <2>7. o.type \notin {"kick", "breakouts_open"} => ErrandsOf(g) = {}
      BY DEF g, NextOf, ErrandsOf, NoFrame
    <2>8. o.type \notin {"kick", "breakouts_open", "end"} => Door!Goes({})
      BY <1>1, <2>1, <2>6, <2>7, ErrandBegins
    <2>9. o.type \notin {"admit", "deny", "admit_all", "kick", "set_role"} => DoorsStand
      <3>1. ASSUME o.type \notin {"admit", "deny", "admit_all", "kick", "set_role"}
            PROVE  SameDoors(n, rooms[r])
        <4>1. SameDoors(n, c)
          BY <1>1, <1>2, <3>1, OrderDoors
        <4> HIDE DEF n, c
        <4> QED BY <1>2, <4>1 DEF SameDoors
      <3> HIDE DEF n
      <3> QED BY <1>1, <2>1, <3>1, DoorsStay
    <2>10. CASE o.type \notin {"admit", "deny", "admit_all", "kick", "set_role", "breakouts_open", "end"}
      BY <2>5, <2>8, <2>9, <2>10, Silent DEF DoorStep
    <2>11. CASE o.type \in {"admit", "admit_all"}
      <3> DEFINE who == IF o.type = "admit" THEN {o.who} ELSE {p \in People : Waiting(c, p)}
      <3>1. who \in SUBSET People /\ \A p \in who : Waiting(c, p)
        BY <1>1, <2>2, <2>11, OrderShape DEF MayOrder
      <3>2. n = AdmitWaiting(c, who)
        BY <2>11 DEF Ordered
      <3> HIDE DEF who, n
      <3>3. /\ Door!Comes(r, who, [p \in who |-> Door!Lowest(p)])
            /\ \A p \in who : WaitsNow[r][p] # "none"
        BY <1>1, <2>1, <3>1, <3>2, AdmitsDoor
      <3>4. Door!Admit(r, who)
        BY <2>3, <2>8, <2>11, <3>3 DEF Door!Admit
      <3> QED BY <1>1, <2>5, <3>1, <3>4 DEF DoorStep, Door!Next
    <2>12. CASE o.type = "deny"
      <3>1. o.who \in People /\ Waiting(c, o.who)
        BY <1>1, <2>2, <2>12, OrderShape DEF MayOrder
      <3>2. /\ n.admitted = c.admitted /\ n.blocked = c.blocked /\ Seats(n) = Seats(c)
            /\ n.lobby = [c.lobby EXCEPT ![o.who] = NoRole]
        BY <1>2, <2>12 DEF Ordered, RoomOK, Room, Seats
      <3> HIDE DEF n, c
      <3>3. UNCHANGED <<RolesNow, BarredNow, SeatsNow>>
        <4>1. /\ n.admitted = rooms[r].admitted /\ n.blocked = rooms[r].blocked
              /\ Seats(n) = Seats(rooms[r])
          BY <1>2, <3>2 DEF SameDoors
        <4> QED BY <1>1, <2>1, <4>1, DoorsKept
      <3>4. WaitsNow' = [WaitsNow EXCEPT ![r] = [WaitsNow[r] EXCEPT ![o.who] = "none"]]
        <4>1. WaitsNow' = [WaitsNow EXCEPT ![r] = n.lobby]
          BY <1>1, <2>1, DoorsSet
        <4>2. c.lobby = WaitsNow[r]
          BY <1>1, <1>2, DoorsAre DEF SameDoors
        <4> QED BY <3>2, <4>1, <4>2 DEF NoRole
      <3>5. WaitsNow[r][o.who] # "none"
        BY <1>1, <1>2, <3>1, DoorsAre DEF SameDoors, Waiting, NoRole
      <3>6. Door!Quit(r, o.who)
        BY <2>8, <2>12, <3>3, <3>4, <3>5 DEF Door!Quit
      <3> QED BY <1>1, <2>5, <3>1, <3>6 DEF DoorStep, Door!Next
    <2>13. CASE o.type = "kick"
      <3> DEFINE p == o.who
      <3>1. p \in People /\ o.block \in BOOLEAN
        BY <1>1, <2>13, OrderShape
      <3>2. p # Host
        <4>1. HostOK(c)
          BY <1>1, HostOpens DEF HInv
        <4> HIDE DEF c, n
        <4> QED BY <1>1, <1>2, <2>2, <2>13, <4>1, OrderHost
      <3>3. n = Expel(c, p, o.block)
        BY <2>13 DEF Ordered
      <3>4. p # f.who /\ ~Untouchable(c, f.who, f.role, p)
        BY <1>1, <2>2, <2>13 DEF MayOrder, Order
      <3>5. RolesNow[r][p] = "cohost" => f.role = "host"
        BY <1>1, <1>2, <2>2, <3>4, DoorsAre DEF SameDoors, Untouchable, Staff
      <3>6. Door!Said(r, IF RolesNow[r][p] = "cohost" THEN {"host"} ELSE Door!Moderators)
        BY <1>3, <2>2, <3>5 DEF Door!Said, Door!Moderators, Staff
      <3>7. ErrandsOf(g) = {Door!Going(p, o.block)}
        BY <2>13 DEF g, NextOf, ErrandsOf, Door!Going
      <3>8. Door!Goes({Door!Going(p, o.block)})
        BY <1>1, <2>1, <2>6, <2>13, <3>7, ErrandBegins
      <3> HIDE DEF n, c, p
      <3>9. Door!GoesOut(r, p, o.block)
        BY <1>1, <1>2, <2>1, <3>1, <3>3, GoesOutIs
      <3>10. Door!Expel(r, p, o.block)
        BY <3>2, <3>6, <3>8, <3>9 DEF Door!Expel
      <3> QED BY <1>1, <2>5, <3>1, <3>10 DEF DoorStep, Door!Next
    <2>14. CASE o.type = "set_role"
      BY <1>1, <1>3, <2>1, <2>2, <2>5, <2>8, <2>14, AppointIs DEF DoorStep
    <2>15. CASE o.type = "breakouts_open"
      <3>1. n.admitted = RolesNow[r]
        <4>1. SameDoors(n, c)
          BY <1>1, <1>2, <2>15, OrderDoors
        <4> HIDE DEF n, c
        <4> QED BY <1>1, <1>2, <4>1, DoorsAre DEF SameDoors
      <3>2. ErrandsOf(g) = {Door!Parting(RolesNow[r])}
        BY <2>15, <3>1 DEF g, NextOf, ErrandsOf, Door!Parting
      <3>3. Door!Goes({Door!Parting(RolesNow[r])})
        BY <1>1, <2>1, <2>6, <2>15, <3>2, ErrandBegins
      <3>4. Door!Part(r)
        BY <2>3, <3>3 DEF Door!Part
      <3> QED BY <1>1, <2>5, <2>9, <2>15, <3>4 DEF DoorStep, Door!Next, Door!doors, DoorsStand
    <2>16. CASE o.type = "end"
      <3>1. Door!Said(r, {"host"})
        BY <1>3, <2>2, <2>16 DEF MayOrder, Door!Said
      <3>2. Calls({Door!Over(r)})
        BY <1>1, <1>4, <2>1, <2>16 DEF Calls, IInv, RestOf
      <3>3. Door!Goes({Door!Over(r)})
        BY <1>1, <2>1, <2>7, <2>16, <3>2, ErrandBegins
      <3>4. Door!End(r)
        BY <3>1, <3>3 DEF Door!End
      <3> QED BY <1>1, <2>5, <2>9, <2>16, <3>4 DEF DoorStep, Door!Next, Door!doors, DoorsStand
    <2> QED BY <2>10, <2>11, <2>12, <2>13, <2>14, <2>15, <2>16
  <1> QED BY <1>5, <1>6

LEMMA OrdersDoor ==
    ASSUME IInv, HInv, DInv, NEW q \in Requests,
           \/ \E r \in RoomIds, l \in Legs, o \in Given : OrderAsks(q, r, l, o)
           \/ OrderFails(q) \/ BlockSaved(q) \/ ExpelNext(q)
    PROVE  DoorStep
  <1> DEFINE f == frames[q]
  <1>0. RoomsOf(rooms) /\ FramesOf(frames) /\ FrameOK(f) /\ DoorFrame(f)
    BY DEF IInv, FramesOf, DInv
  <1>1. ASSUME NEW r \in RoomIds, NEW l \in Legs, NEW o \in Given, OrderAsks(q, r, l, o)
        PROVE  DoorStep
    <2> DEFINE role == rooms[r].members[l].role
               g == [pc |-> "asked", room |-> r, who |-> OwnerOf[l], role |-> role, order |-> o]
    <2>1. role \in Door!Moderators /\ SeatsNow[r][l] = role
      BY <1>1, DoorsAre DEF OrderAsks, Door!Moderators, Staff, Seats
    <2>2. Becomes(q, g) /\ DoorFrame(g) /\ ErrandsOf(g) = {Door!Word(r, role)}
      BY <1>1 DEF OrderAsks, DoorFrame, ErrandsOf, Door!Word
    <2>3. DoorsStand /\ Calls({Door!Word(r, role)})
      BY <1>1, DoorsStay, CallsStay DEF OrderAsks, memory, tables
    <2> HIDE DEF g, role
    <2>4. Door!Goes({Door!Word(r, role)}) /\ \A k \in Requests : DoorFrame(frames'[k])
      BY <1>0, <2>2, <2>3, ErrandBegins, DoorBegins
    <2>5. Door!Speak(r, l)
      BY <2>1, <2>4 DEF Door!Speak
    <2> QED BY <2>3, <2>4, <2>5 DEF DoorStep, Door!Next, Door!doors, DoorsStand
  <1>2. CASE OrderFails(q)
    <2>1. Ends(q) /\ DoorsStand /\ Calls({})
      BY <1>2, DoorsStay, CallsStay DEF OrderFails, memory, tables
    <2> QED BY <1>0, <2>1, ErrandEnds, DoorEnds, Silent DEF DoorStep
  <1>3. CASE BlockSaved(q)
    <2> DEFINE g == [pc |-> "expel", room |-> f.room, who |-> f.who, block |-> f.block,
                     left |-> AllRooms(f.room)]
    <2>1. Becomes(q, g) \/ Ends(q)
      BY <1>3 DEF BlockSaved
    <2>2. DoorFrame(g) /\ ErrandsOf(g) = ErrandsOf(f)
      BY <1>3 DEF BlockSaved, DoorFrame, ErrandsOf
    <2>3. DoorsStand /\ Calls({})
      BY <1>3, DoorsStay, CallsStay DEF BlockSaved, memory
    <2> HIDE DEF g
    <2>4. CASE Becomes(q, g)
      BY <1>0, <2>2, <2>3, <2>4, ErrandBegins, DoorBegins, Silent DEF DoorStep
    <2>5. CASE Ends(q)
      BY <1>0, <2>3, <2>5, ErrandEnds, DoorEnds, Silent DEF DoorStep
    <2> QED BY <2>1, <2>4, <2>5
  <1>4. CASE ExpelNext(q)
    <2> DEFINE r == Head(f.left)
               g == [f EXCEPT !.left = Tail(@)]
    <2>1. /\ f \in [pc : {"expel"}, room : RoomIds, who : People, block : BOOLEAN,
                    left : Seq(RoomIds)]
      BY <1>0, <1>4 DEF ExpelNext, FrameOK
    <2>2. g.pc = f.pc /\ g.who = f.who /\ g.block = f.block /\ f.pc = "expel"
      BY <2>1
    <2>3. DoorFrame(g) /\ ErrandsOf(g) = ErrandsOf(f)
      BY <2>2 DEF DoorFrame, ErrandsOf
    <2>4. ErrandsOf(f) = {Door!Going(f.who, f.block)}
      BY <2>2 DEF ErrandsOf, Door!Going
    <2>5. Calls({})
      BY <1>4, CallsStay DEF ExpelNext, tables
    <2> HIDE DEF g
    <2>6. Becomes(q, g) \/ Ends(q)
      BY <1>4 DEF ExpelNext, g
    <2>7. Door!Goes({}) /\ \A k \in Requests : DoorFrame(frames'[k])
      BY <1>0, <2>3, <2>5, <2>6, ErrandBegins, ErrandEnds, DoorBegins, DoorEnds
    <2>8. CASE UNCHANGED rooms
      BY <2>7, <2>8, DoorsStay, Silent DEF DoorStep
    <2>9. CASE ~UNCHANGED rooms
      <3>1. /\ f.left # <<>> /\ Exists(r)
            /\ rooms' = [rooms EXCEPT ![r] = Expel(rooms[r], f.who, f.block)]
        BY <1>4, <2>9 DEF ExpelNext
      <3>2. r \in RoomIds
        BY <2>1, <3>1
      <3>3. RoomOK(rooms[r]) /\ SameDoors(rooms[r], rooms[r])
        BY <1>0, <3>1, <3>2, RoomOfIds DEF SameDoors
      <3>4. Door!GoesOut(r, f.who, f.block)
        BY <1>0, <2>1, <3>1, <3>2, <3>3, GoesOutIs
      <3>5. Door!ExpelToo(r, f.who, f.block)
        BY <2>4, <2>7, <3>4, ErrandIs DEF Door!ExpelToo
      <3> QED BY <2>1, <2>7, <3>2, <3>5 DEF DoorStep, Door!Next
    <2> QED BY <2>8, <2>9
  <1> QED BY <1>1, <1>2, <1>3, <1>4

LEMMA SmallDoor ==
    ASSUME IInv, HInv, DInv, NEW q \in Requests, SmallOpens(q) \/ SmallAdmits(q) \/ OpeningFails(q)
    PROVE  DoorStep
  <1> DEFINE f == frames[q]
  <1>0. RoomsOf(rooms) /\ FramesOf(frames) /\ FrameOK(f) /\ HostFrame(f) /\ Main \in RoomIds
    BY DEF IInv, FramesOf, HInv, RoomIds
  <1>1. CASE SmallOpens(q)
    <2>1. PICK s \in f.left :
            /\ row' = [row EXCEPT ![s] = "active"]
            /\ rooms' = [rooms EXCEPT ![s] = OpenRoom(s, TRUE, f.snapshot.allow, f.snapshot.blocked)]
            /\ Becomes(q, [pc |-> "placing", snapshot |-> f.snapshot, left |-> f.left \ {s},
                           small |-> s])
      BY <1>1 DEF SmallOpens, SetRoom
    <2> DEFINE allow == f.snapshot.allow
               blocked == f.snapshot.blocked
               n == OpenRoom(s, TRUE, allow, blocked)
               g == [pc |-> "placing", snapshot |-> f.snapshot, left |-> f.left \ {s}, small |-> s]
    <2>2. f.pc = "opening" /\ s \in RoomIds
      BY <1>0, <1>1, <2>1 DEF SmallOpens, FrameOK, RoomIds
    <2>3. f.snapshot.blocked \in SUBSET People /\ f.snapshot.allow \in BOOLEAN
          /\ Host \notin f.snapshot.blocked
      BY <1>0, <2>2 DEF FrameOK, RoomOK, Room, HostFrame, HostOK
    <2>4. DoorFrame(g) /\ ErrandsOf(g) = ErrandsOf(f)
      BY <2>2 DEF DoorFrame, ErrandsOf
    <2>5. Calls({})
      BY <1>1, <2>1, <2>2 DEF SmallOpens, Calls, IInv, RestOf
    <2>6. Becomes(q, g)
      BY <2>1
    <2> HIDE DEF g
    <2>7. Door!Goes({}) /\ \A k \in Requests : DoorFrame(frames'[k])
      BY <1>0, <2>4, <2>5, <2>6, ErrandBegins, DoorBegins
    <2>8. rooms' = [rooms EXCEPT ![s] = n]
      BY <2>1
    <2>9. /\ n.admitted = rooms[s].admitted /\ n.lobby = rooms[s].lobby
          /\ Seats(n) = Seats(rooms[s])
          /\ \/ n.blocked = rooms[s].blocked
             \/ rooms[s] = NoRoom /\ n.blocked = blocked
      <3>1. allow \in BOOLEAN
        BY <2>3
      <3>2. blocked \in SUBSET People
        BY <2>3
      <3> HIDE DEF allow, blocked
      <3> QED BY <2>2, <3>1, <3>2, OpenDoors
    <2> HIDE DEF n
    <2>10. Door!Opens(s)
      BY <1>0, <2>2, <2>3, <2>8, <2>9, OpensIs
    <2>11. UNCHANGED <<RolesNow, WaitsNow, SeatsNow>>
      BY <1>0, <2>2, <2>8, <2>9, DoorsKept
    <2>12. Door!Open(s)
      BY <2>7, <2>10, <2>11 DEF Door!Open
    <2> QED BY <2>2, <2>7, <2>12 DEF DoorStep, Door!Next
  <1>2. CASE SmallAdmits(q)
    <2> DEFINE s == f.small
               who == Placed(f)
               c == Current(s)
               n == AdmitEach(c, who, f.snapshot.admitted)
               g == [pc |-> "opening", snapshot |-> f.snapshot, left |-> f.left]
    <2>1. f.pc = "placing" /\ s \in RoomIds
      BY <1>0, <1>2 DEF SmallAdmits, FrameOK, RoomIds
    <2>2. DoorFrame(g) /\ ErrandsOf(g) = ErrandsOf(f) /\ ErrandsOf(f) = {Door!Parting(f.snapshot.admitted)}
      BY <2>1 DEF DoorFrame, ErrandsOf, Door!Parting
    <2>3. Calls({})
      BY <1>2, CallsStay DEF SmallAdmits, tables
    <2> HIDE DEF g
    <2>4. Becomes(q, g) \/ Ends(q)
      BY <1>2 DEF SmallAdmits, g
    <2>5. Door!Goes({}) /\ \A k \in Requests : DoorFrame(frames'[k])
      BY <1>0, <2>2, <2>3, <2>4, ErrandBegins, ErrandEnds, DoorBegins, DoorEnds
    <2>6. CASE who = {}
      <3>1. rooms' = [rooms EXCEPT ![s] = rooms[s]] /\ SameDoors(rooms[s], rooms[s])
        BY <1>2, <2>6 DEF SmallAdmits, SetRoom, SameDoors
      <3> QED BY <1>0, <2>1, <2>5, <3>1, DoorsStay, Silent DEF DoorStep
    <2>7. CASE who # {}
      <3>1. rooms' = [rooms EXCEPT ![s] = n]
        BY <1>2, <2>7 DEF SmallAdmits, SetRoom
      <3>2. RoomOK(c) /\ c \in Room /\ SameDoors(c, rooms[s])
        BY <1>0, <2>1, RoomOfIds, CurrentDoors DEF RoomOK
      <3>3. who \in SUBSET People /\ \A p \in who : f.snapshot.admitted[p] # "none" /\ p \notin c.blocked
        BY DEF Placed, IsAdmitted, MayEnter, NoRole
      <3> HIDE DEF who, c
      <3>4. /\ n.admitted = [p \in People |-> IF p \in who THEN f.snapshot.admitted[p] ELSE c.admitted[p]]
            /\ n.lobby = [p \in People |-> IF p \in who THEN NoRole ELSE c.lobby[p]]
            /\ n.blocked = c.blocked /\ Seats(n) = Seats(c)
        BY <3>2, AdmitDoors
      <3> HIDE DEF n
      <3>5. Door!Comes(s, who, f.snapshot.admitted)
        <4> DEFINE as == f.snapshot.admitted
        <4>1. /\ n.admitted = [p \in People |-> IF p \in who THEN as[p] ELSE rooms[s].admitted[p]]
              /\ n.lobby = [p \in People |-> IF p \in who THEN NoRole ELSE rooms[s].lobby[p]]
              /\ n.blocked = rooms[s].blocked /\ Seats(n) = Seats(rooms[s])
              /\ who \cap rooms[s].blocked = {}
          BY <3>2, <3>3, <3>4 DEF SameDoors
        <4> HIDE DEF as
        <4>2. Door!Comes(s, who, as)
          BY <1>0, <2>1, <3>1, <4>1, ComesIs
        <4> QED BY <4>2 DEF as
      <3> DEFINE e == Door!Parting(f.snapshot.admitted)
      <3>6. e \in Errands /\ e.is = "parting" /\ e.roles = f.snapshot.admitted
        BY <2>2, ErrandIs DEF Door!Parting
      <3>7. Door!Place(s, who, e.roles)
        BY <2>5, <3>3, <3>5, <3>6 DEF Door!Place
      <3> HIDE DEF e
      <3> QED BY <2>1, <2>5, <3>3, <3>6, <3>7 DEF DoorStep, Door!Next
    <2> QED BY <2>6, <2>7
  <1>3. CASE OpeningFails(q)
    <2>1. Ends(q) /\ Calls({}) /\ rooms' = [rooms EXCEPT ![Main] = EndBreakouts(Current(Main))]
      BY <1>3, CallsStay DEF OpeningFails, SetRoom, tables
    <2>2. RoomOK(Current(Main)) /\ SameDoors(Current(Main), rooms[Main])
      BY <1>0, RoomOfIds, CurrentDoors
    <2>3. SameDoors(EndBreakouts(Current(Main)), rooms[Main])
      BY <2>2 DEF EndBreakouts, RoomOK, Room, SameDoors, Seats
    <2>4. DoorsStand
      BY <1>0, <2>1, <2>3, DoorsStay
    <2> QED BY <1>0, <2>1, <2>4, ErrandEnds, DoorEnds, Silent DEF DoorStep
  <1> QED BY <1>1, <1>2, <1>3

LEMMA CohostDoor ==
    ASSUME IInv, DInv, NEW q \in Requests,
           (\E p \in People : EditCohosts(q, p)) \/ CohostsRead(q) \/ CohostNext(q)
    PROVE  DoorStep
  <1> DEFINE f == frames[q]
             words == {Door!Word(r, "host") : r \in RoomIds}
  <1>0. RoomsOf(rooms) /\ FramesOf(frames) /\ FrameOK(f)
    BY DEF IInv, FramesOf
  <1>1. ASSUME NEW p \in People, EditCohosts(q, p) PROVE DoorStep
    <2> DEFINE g == [pc |-> "edited", who |-> p,
                     role |-> IF p \in doc.cohosts THEN "participant" ELSE "cohost"]
    <2>1. Becomes(q, g) /\ DoorFrame(g) /\ ErrandsOf(g) = words
      BY <1>1 DEF EditCohosts, DoorFrame, ErrandsOf, Door!Word
    <2>2. DoorsStand /\ Calls(words)
      BY <1>1, DoorsStay, CallsStay DEF EditCohosts, memory
    <2> HIDE DEF g, words
    <2>3. Door!Goes(words) /\ \A k \in Requests : DoorFrame(frames'[k])
      BY <1>0, <2>1, <2>2, ErrandBegins, DoorBegins
    <2>4. Door!Edit
      BY <2>3 DEF Door!Edit, words
    <2> QED BY <2>2, <2>3, <2>4 DEF DoorStep, Door!Next, Door!doors, DoorsStand
  <1>2. CASE CohostsRead(q)
    <2> DEFINE g == [pc |-> "cohosts", who |-> f.who, role |-> f.role, left |-> <<Main>> \o children]
    <2>1. DoorFrame(g) /\ ErrandsOf(g) = ErrandsOf(f)
      BY <1>2 DEF CohostsRead, DoorFrame, ErrandsOf
    <2>2. DoorsStand /\ Calls({})
      BY <1>2, DoorsStay, CallsStay DEF CohostsRead, memory, tables
    <2> HIDE DEF g
    <2>3. Becomes(q, g) \/ Ends(q)
      BY <1>2 DEF CohostsRead, g
    <2> QED BY <1>0, <2>1, <2>2, <2>3, ErrandBegins, ErrandEnds, DoorBegins, DoorEnds, Silent
            DEF DoorStep
  <1>3. CASE CohostNext(q)
    <2> DEFINE r == Head(f.left)
               o == [type |-> "set_role", who |-> f.who, role |-> f.role]
               g == [f EXCEPT !.left = Tail(@)]
    <2>1. f \in [pc : {"cohosts"}, who : People, role : {"cohost", "participant"}, left : Seq(RoomIds)]
      BY <1>0, <1>3 DEF CohostNext, FrameOK
    <2>2. g.pc = "cohosts" /\ f.pc = "cohosts"
      BY <2>1
    <2>3. DoorFrame(g) /\ ErrandsOf(g) = words /\ ErrandsOf(f) = words
      BY <2>2 DEF DoorFrame, ErrandsOf, Door!Word
    <2>4. Calls({})
      BY <1>3, CallsStay DEF CohostNext, tables
    <2> HIDE DEF g
    <2>5. Becomes(q, g) \/ Ends(q)
      BY <1>3 DEF CohostNext, g
    <2>6. Door!Goes({}) /\ \A k \in Requests : DoorFrame(frames'[k])
      BY <1>0, <2>3, <2>4, <2>5, ErrandBegins, ErrandEnds, DoorBegins, DoorEnds
    <2>7. CASE UNCHANGED rooms
      BY <2>6, <2>7, DoorsStay, Silent DEF DoorStep
    <2>8. CASE ~UNCHANGED rooms
      <3>1. /\ f.left # <<>> /\ MayOrder(Current(r), Host, "host", o)
            /\ rooms' = [rooms EXCEPT ![r] = Ordered(Current(r), o)]
        BY <1>3, <2>8 DEF CohostNext
      <3>2. r \in RoomIds
        BY <2>1, <3>1
      <3>3. o \in Order /\ o.type = "set_role"
        BY <2>1 DEF Order
      <3>4. Door!Word(r, "host") \in Errands
        BY <2>3, <3>2, ErrandIs
      <3> HIDE DEF o, r, words
      <3> QED BY <1>0, <2>6, <3>1, <3>2, <3>3, <3>4, AppointIs DEF DoorStep
    <2> QED BY <2>7, <2>8
  <1> QED BY <1>1, <1>2, <1>3

\* A command of a tab: the tabs ask nothing, and no request takes a step.
LEMMA MineDoor ==
    ASSUME IInv, DInv, NEW r \in RoomIds, NEW n, Mine(r, n)
    PROVE  /\ RoomsOf(rooms) /\ rooms' = [rooms EXCEPT ![r] = n] /\ n # rooms[r]
           /\ Door!Goes({}) /\ \A k \in Requests : DoorFrame(frames'[k])
           /\ SameDoors(n, rooms[r]) => DoorStep
  <1>1. RoomsOf(rooms) /\ rooms' = [rooms EXCEPT ![r] = n] /\ n # rooms[r] /\ UNCHANGED frames
    BY DEF IInv, Mine, SetRoom
  <1>2. Calls({})
    BY CallsStay DEF Mine, tables
  <1>3. Door!Goes({}) /\ \A k \in Requests : DoorFrame(frames'[k])
    BY <1>1, <1>2, ErrandsGo DEF DInv
  <1>4. SameDoors(n, rooms[r]) => DoorsStand
    BY <1>1, DoorsStay
  <1> QED BY <1>1, <1>3, <1>4, Silent DEF DoorStep

LEMMA SocketDoor ==
    ASSUME IInv, DInv, SocketStep
    PROVE  DoorStep
  <1>0. /\ RoomsOf(rooms) /\ Main \in RoomIds
        /\ \A r \in RoomIds : Exists(r) => RoomOK(rooms[r]) /\ rooms[r] \in Room
    BY RoomOfIds DEF IInv, RoomIds, RoomOK
  <1>1. ASSUME NEW r \in RoomIds, NEW l \in Legs, OnAttach(r, l) PROVE DoorStep
    <2> DEFINE p == OwnerOf[l]
               role == rooms[r].admitted[p]
               n == Attach(rooms[r], l, role, ~MuteOnEntry)
    <2>1. Mine(r, n) /\ rooms[r] \in Room /\ IsAdmitted(rooms[r], p) /\ p \notin rooms[r].blocked
      BY <1>0, <1>1 DEF OnAttach, MayEnter
    <2> HIDE DEF role
    <2>2. /\ n.admitted = rooms[r].admitted /\ n.lobby = rooms[r].lobby
          /\ n.blocked = rooms[r].blocked
          /\ n = rooms[r] \/ Seats(n) = [Seats(rooms[r]) EXCEPT ![l] = role]
      <3>1. role \in Roles
        BY <2>1, RoomAssumption DEF role, Room, IsAdmitted
      <3> QED BY <2>1, <3>1, AttachDoors
    <2> HIDE DEF n
    <2>3. /\ rooms' = [rooms EXCEPT ![r] = n] /\ n # rooms[r]
          /\ Door!Goes({}) /\ \A k \in Requests : DoorFrame(frames'[k])
      BY <2>1, MineDoor
    <2>4. UNCHANGED <<RolesNow, WaitsNow, BarredNow>>
      BY <1>0, <2>2, <2>3, DoorsKept
    <2>5. SeatsNow' = [SeatsNow EXCEPT ![r] = [SeatsNow[r] EXCEPT ![l] = role]]
      <3>1. SeatsNow' = [SeatsNow EXCEPT ![r] = Seats(n)]
        BY <1>0, <2>3, DoorsSet
      <3>2. Seats(rooms[r]) = SeatsNow[r]
        BY DoorsAre
      <3> QED BY <2>2, <2>3, <3>1, <3>2
    <2>6. role = RolesNow[r][p] /\ role # "none" /\ p \notin BarredNow[r]
      BY <2>1, DoorsAre DEF role, IsAdmitted, NoRole
    <2>7. Door!Sit(r, l)
      BY <2>3, <2>4, <2>5, <2>6 DEF Door!Sit
    <2> QED BY <2>3, <2>7 DEF DoorStep, Door!Next
  <1>2. ASSUME NEW r \in RoomIds, NEW l \in Legs, OnHand(r, l) PROVE DoorStep
    <2> DEFINE n == IF OwnerOf[l] \in rooms[r].hands THEN LowerHands(rooms[r], {OwnerOf[l]})
                    ELSE RaiseHand(rooms[r], l)
    <2>1. Mine(r, n) /\ rooms[r] \in Room /\ SameDoors(rooms[r], rooms[r])
      BY <1>0, <1>2 DEF OnHand, SameDoors
    <2>2. SameDoors(n, rooms[r])
      BY <2>1, LowerDoors, RaiseDoors
    <2> HIDE DEF n
    <2> QED BY <2>1, <2>2, MineDoor
  <1>3. ASSUME NEW r \in RoomIds, NEW l \in Legs, OnLeave(r, l) PROVE DoorStep
    <2> DEFINE n == Detach(rooms[r], l)
    <2>1. Mine(r, n) /\ rooms[r] \in Room /\ Attached(rooms[r], l)
      BY <1>0, <1>3 DEF OnLeave
    <2>2. /\ n.admitted = rooms[r].admitted /\ n.lobby = rooms[r].lobby
          /\ n.blocked = rooms[r].blocked /\ Seats(n) = [Seats(rooms[r]) EXCEPT ![l] = NoRole]
      BY <2>1, DetachDoors
    <2> HIDE DEF n
    <2>3. /\ rooms' = [rooms EXCEPT ![r] = n]
          /\ Door!Goes({}) /\ \A k \in Requests : DoorFrame(frames'[k])
      BY <2>1, MineDoor
    <2>4. UNCHANGED <<RolesNow, WaitsNow, BarredNow>>
      BY <1>0, <2>2, <2>3, DoorsKept
    <2>5. SeatsNow' = [SeatsNow EXCEPT ![r] = [SeatsNow[r] EXCEPT ![l] = "none"]]
      <3>1. SeatsNow' = [SeatsNow EXCEPT ![r] = Seats(n)]
        BY <1>0, <2>3, DoorsSet
      <3>2. Seats(rooms[r]) = SeatsNow[r]
        BY DoorsAre
      <3> QED BY <2>2, <3>1, <3>2 DEF NoRole
    <2>6. SeatsNow' = [k \in RoomIds |-> IF SeatsNow'[k][l] = "none"
                                         THEN [SeatsNow[k] EXCEPT ![l] = "none"] ELSE SeatsNow[k]]
      <3>1. \A k \in RoomIds : SeatsNow[k] = [x \in Legs |-> SeatsNow[k][x]]
        BY DEF SeatsNow
      <3>2. SeatsNow' = [k \in RoomIds |-> SeatsNow'[k]]
        BY DEF SeatsNow
      <3>3. ASSUME NEW k \in RoomIds
            PROVE  SeatsNow'[k] = IF SeatsNow'[k][l] = "none"
                                  THEN [SeatsNow[k] EXCEPT ![l] = "none"] ELSE SeatsNow[k]
        <4>1. CASE k = r
          <5>1. SeatsNow'[k] = [SeatsNow[k] EXCEPT ![l] = "none"]
            BY <2>5, <4>1 DEF SeatsNow
          <5> QED BY <3>1, <5>1
        <4>2. CASE k # r
          <5>1. SeatsNow'[k] = SeatsNow[k]
            BY <2>5, <4>2 DEF SeatsNow
          <5> QED BY <3>1, <5>1
        <4> QED BY <4>1, <4>2
      <3> QED BY <3>2, <3>3
    <2>7. SeatsNow[r][l] # "none"
      BY <2>1, DoorsAre DEF Attached, Seats, NoRole
    <2>8. Door!Rise(l)
      BY <2>3, <2>4, <2>6, <2>7 DEF Door!Rise
    <2> QED BY <2>3, <2>8 DEF DoorStep, Door!Next
  <1>4. ASSUME NEW r \in RoomIds, NEW l \in Legs, NEW mic \in BOOLEAN, OnMedia(r, l, mic)
        PROVE  DoorStep
    <2>1. Mine(r, Media(rooms[r], l, mic)) /\ rooms[r] \in Room
      BY <1>0, <1>4 DEF OnMedia
    <2> QED BY <2>1, MediaDoors, MineDoor
  <1>5. ASSUME NEW p \in People, LeaveLobby(p) PROVE DoorStep
    <2> DEFINE n == Leave(rooms[Main], p)
    <2>1. Mine(Main, n) /\ RoomOK(rooms[Main]) /\ Waiting(rooms[Main], p)
      BY <1>0, <1>5 DEF LeaveLobby
    <2>2. /\ n.admitted = rooms[Main].admitted /\ n.lobby = [rooms[Main].lobby EXCEPT ![p] = NoRole]
          /\ n.blocked = rooms[Main].blocked /\ Seats(n) = Seats(rooms[Main])
      BY <2>1, LeaveDoors
    <2> HIDE DEF n
    <2>3. /\ rooms' = [rooms EXCEPT ![Main] = n]
          /\ Door!Goes({}) /\ \A k \in Requests : DoorFrame(frames'[k])
      BY <1>0, <2>1, MineDoor
    <2>4. UNCHANGED <<RolesNow, BarredNow, SeatsNow>>
      BY <1>0, <2>2, <2>3, DoorsKept
    <2>5. WaitsNow' = [WaitsNow EXCEPT ![Main] = [WaitsNow[Main] EXCEPT ![p] = "none"]]
      <3>1. WaitsNow' = [WaitsNow EXCEPT ![Main] = n.lobby] /\ rooms[Main].lobby = WaitsNow[Main]
        <4>1. WaitsNow' = [WaitsNow EXCEPT ![Main] = n.lobby]
          BY <1>0, <2>3, DoorsSet
        <4>2. rooms[Main].lobby = WaitsNow[Main]
          BY <1>0, DoorsAre
        <4> QED BY <4>1, <4>2
      <3> QED BY <2>2, <3>1 DEF NoRole
    <2>6. WaitsNow[Main][p] # "none"
      BY <1>0, <2>1, DoorsAre DEF Waiting, NoRole
    <2>7. Door!Quit(Main, p)
      BY <2>3, <2>4, <2>5, <2>6 DEF Door!Quit
    <2> QED BY <1>0, <2>3, <2>7 DEF DoorStep, Door!Next
  <1>6. ASSUME NEW l \in Legs, OnClose(l) PROVE DoorStep
    <2>1. /\ rooms' = [r \in RoomIds |-> IF Exists(r) THEN Detach(rooms[r], l) ELSE rooms[r]]
          /\ UNCHANGED <<frames, row, idle>>
          /\ \E r \in RoomIds : Exists(r) /\ Attached(rooms[r], l)
      BY <1>6 DEF OnClose, tables
    <2>2. Calls({})
      BY <2>1, CallsStay
    <2>3. Door!Goes({}) /\ \A k \in Requests : DoorFrame(frames'[k])
      BY <2>1, <2>2, ErrandsGo DEF DInv
    <2>4. ASSUME NEW r \in RoomIds
          PROVE  /\ rooms'[r].admitted = rooms[r].admitted /\ rooms'[r].lobby = rooms[r].lobby
                 /\ rooms'[r].blocked = rooms[r].blocked
                 /\ Seats(rooms'[r]) = [Seats(rooms[r]) EXCEPT ![l] = NoRole]
      <3>1. CASE Exists(r)
        BY <1>0, <2>1, <3>1, DetachDoors
      <3>2. CASE ~Exists(r)
        <4>1. rooms'[r] = rooms[r] /\ rooms[r] = NoRoom
          BY <2>1, <3>2 DEF Exists
        <4>2. Seats(NoRoom) = [Seats(NoRoom) EXCEPT ![l] = NoRole]
          BY NoRoomFields DEF Seats, NoMember
        <4> QED BY <4>1, <4>2
      <3> QED BY <3>1, <3>2
    <2>5. UNCHANGED <<RolesNow, WaitsNow, BarredNow>>
      BY <2>4 DEF RolesNow, WaitsNow, BarredNow
    <2>6. SeatsNow' = [r \in RoomIds |-> [SeatsNow[r] EXCEPT ![l] = "none"]]
      <3>1. SeatsNow' = [r \in RoomIds |-> Seats(rooms'[r])]
        BY DEF SeatsNow, Seats
      <3>2. \A r \in RoomIds : Seats(rooms[r]) = SeatsNow[r]
        BY DoorsAre
      <3> QED BY <2>4, <3>1, <3>2 DEF NoRole
    <2>7. \A r \in RoomIds : SeatsNow'[r][l] = "none"
      <3>1. \A k \in RoomIds : SeatsNow[k] = [x \in Legs |-> SeatsNow[k][x]]
        BY DEF SeatsNow
      <3>2. \A k \in RoomIds : SeatsNow'[k] = [SeatsNow[k] EXCEPT ![l] = "none"]
        BY <2>6
      <3> QED BY <3>1, <3>2
    <2>8. SeatsNow' = [r \in RoomIds |-> IF SeatsNow'[r][l] = "none"
                                         THEN [SeatsNow[r] EXCEPT ![l] = "none"] ELSE SeatsNow[r]]
      BY <2>6, <2>7
    <2>9. \E r \in RoomIds : SeatsNow[r][l] # "none"
      BY <2>1, DoorsAre DEF Attached, Seats, NoRole
    <2>10. Door!Rise(l)
      BY <2>3, <2>5, <2>8, <2>9 DEF Door!Rise
    <2> QED BY <2>3, <2>10 DEF DoorStep, Door!Next
  <1> QED BY <1>1, <1>2, <1>3, <1>4, <1>5, <1>6 DEF SocketStep

\* The server itself and the sweep: the requests take no step.
LEMMA ServerDoor ==
    ASSUME IInv, DInv, ServerStep \/ \E r \in RoomIds : SweepSees(r)
    PROVE  DoorStep
  <1>0. RoomsOf(rooms) /\ Main \in RoomIds /\ Smalls \subseteq RoomIds /\ RestOf
    BY DEF IInv, RoomIds
  <1>1. UNCHANGED frames
    BY DEF ServerStep, TimerFires, TickGoesOn, CloserEnds, RoomTold, CallClosed, SweepEnds, SweepSees
  <1>2. /\ \A k \in Requests : DoorFrame(frames'[k])
        /\ \A new : Calls(new) => Door!Goes(new)
    BY <1>1, ErrandsGo DEF DInv
  <1>3. CASE TimerFires
    <2>1. /\ Calls({})
          /\ \/ UNCHANGED rooms
             \/ Exists(Main) /\ rooms' = [rooms EXCEPT ![Main] = Tick(rooms[Main])]
      BY <1>3, CallsStay DEF TimerFires, SetRoom, tables
    <2>2. Exists(Main) => SameDoors(Tick(rooms[Main]), rooms[Main])
      <3>1. Exists(Main) => rooms[Main] \in Room
        BY <1>0, RoomOfIds DEF RoomOK
      <3> QED BY <3>1 DEF Tick, EndBreakouts, Room, SameDoors, Seats
    <2> QED BY <1>0, <1>2, <2>1, <2>2, DoorsStay, Silent DEF DoorStep
  <1>4. CASE TickGoesOn
    BY <1>2, <1>4, CallsStay, DoorsStay, Silent DEF TickGoesOn, TickReads, TickFails, TickRearms, tables, DoorStep
  <1>5. ASSUME NEW r \in RoomIds, row' = row \/ row' = [row EXCEPT ![r] = "ended"],
               idle' \subseteq idle, UNCHANGED rooms,
               r = Main => Door!Deserted(r) \in Errands
        PROVE  DoorStep
    <2>1. Door!Goes({Door!Over(r)})
      BY <1>0, <1>2, <1>5 DEF Calls, RestOf
    <2>2. Door!End(r)
      BY <1>5, <2>1 DEF Door!End
    <2> QED BY <1>2, <1>5, <2>2, DoorsStay DEF DoorStep, Door!Next, Door!doors, DoorsStand
  <1>6. ASSUME NEW s \in Smalls, CloserEnds(s) PROVE DoorStep
    BY <1>0, <1>5, <1>6, MeetingAssumption DEF CloserEnds
  <1>7. ASSUME NEW r \in RoomIds, SweepEnds(r) PROVE DoorStep
    <2>1. Door!Deserted(r) \in Errands
      BY <1>7 DEF SweepEnds, Errands, Door!Deserted
    <2> QED BY <1>5, <1>7, <2>1 DEF SweepEnds
  <1>8. ASSUME NEW r \in RoomIds, RoomTold(r) PROVE DoorStep
    <2>1. rooms' = [rooms EXCEPT ![r] = NoRoom] /\ row[r] = "ended" /\ Calls({})
      BY <1>0, <1>8 DEF RoomTold, SetRoom, Calls, RestOf
    <2>2. Door!Over(r) \in Errands
      BY <2>1 DEF Errands, Door!Over
    <2>3. /\ NoRoom.admitted = [p \in People |-> "none"] /\ NoRoom.lobby = [p \in People |-> "none"]
          /\ NoRoom.blocked = {} /\ Seats(NoRoom) = [l \in Legs |-> "none"]
      BY NoRoomFields DEF Seats, NoMember, NoRole
    <2>4. /\ RolesNow' = [RolesNow EXCEPT ![r] = [p \in People |-> "none"]]
          /\ WaitsNow' = [WaitsNow EXCEPT ![r] = [p \in People |-> "none"]]
          /\ BarredNow' = [BarredNow EXCEPT ![r] = {}]
          /\ SeatsNow' = [SeatsNow EXCEPT ![r] = [l \in Legs |-> "none"]]
      <3> DEFINE n == NoRoom
      <3>1. rooms' = [rooms EXCEPT ![r] = n]
        BY <2>1
      <3>2. /\ n.admitted = [p \in People |-> "none"] /\ n.lobby = [p \in People |-> "none"]
            /\ n.blocked = {} /\ Seats(n) = [l \in Legs |-> "none"]
        BY <2>3
      <3> HIDE DEF n
      <3>3. /\ RolesNow' = [RolesNow EXCEPT ![r] = n.admitted]
            /\ WaitsNow' = [WaitsNow EXCEPT ![r] = n.lobby]
            /\ BarredNow' = [BarredNow EXCEPT ![r] = n.blocked]
            /\ SeatsNow' = [SeatsNow EXCEPT ![r] = Seats(n)]
        BY <1>0, <3>1, DoorsSet
      <3> QED BY <3>2, <3>3
    <2>5. Door!Close(r)
      BY <1>2, <2>1, <2>2, <2>4 DEF Door!Close
    <2> QED BY <1>2, <2>5 DEF DoorStep, Door!Next
  <1>9. ASSUME NEW r \in RoomIds, CallClosed(r) PROVE DoorStep
    <2>1. Calls({}) /\ UNCHANGED rooms
      BY <1>0, <1>9 DEF CallClosed, Calls, RestOf
    <2> QED BY <1>2, <2>1, DoorsStay, Silent DEF DoorStep
  <1>10. ASSUME NEW r \in RoomIds, SweepSees(r) PROVE DoorStep
    <2>1. RoomIdle(r) /\ UNCHANGED rooms /\ Calls({Door!Deserted(r)})
      BY <1>10 DEF SweepSees, Calls, tables
    <2>2. /\ \A p \in People : WaitsNow[r][p] = "none"
          /\ \A l \in Legs : SeatsNow[r][l] = "none"
      <3>1. /\ \A p \in People : rooms[r].lobby[p] = NoRole
            /\ \A l \in Legs : rooms[r].members[l].role = NoRole
        BY <2>1, NoRoomFields DEF RoomIdle, Exists, Attached, Waiting, NoMember
      <3> QED BY <3>1, DoorsAre DEF Seats, NoRole
    <2>3. Door!Desert(r)
      BY <1>2, <2>1, <2>2 DEF Door!Desert
    <2> QED BY <1>2, <2>1, <2>3, DoorsStay DEF DoorStep, Door!Next, Door!doors, DoorsStand
  <1> QED BY <1>3, <1>4, <1>6, <1>7, <1>8, <1>9, <1>10 DEF ServerStep

LEMMA NextDoor ==
    ASSUME IInv, HInv, DInv, Next
    PROVE  DoorStep
  <1>1. ASSUME NEW q \in Requests, RequestStep(q) PROVE DoorStep
    BY <1>1, JoinDoor, WelcomeDoor, OrderRunsDoor, OrdersDoor, SmallDoor, CohostDoor DEF RequestStep
  <1>2. ASSUME NEW q \in Requests, NEW p \in People, JoinAsks(q, p) \/ EditCohosts(q, p)
        PROVE  DoorStep
    BY <1>2, JoinDoor, CohostDoor
  <1>3. ASSUME NEW q \in Requests, NEW r \in RoomIds, NEW l \in Legs, NEW o \in Given,
               OrderAsks(q, r, l, o)
        PROVE  DoorStep
    BY <1>3, OrdersDoor
  <1> QED BY <1>1, <1>2, <1>3, SocketDoor, ServerDoor DEF Next

\* Nobody who needs approval is told to wait for the host only.
LEMMA DoorWaits ==
    ASSUME Main \in RoomIds, WaitsNow \in [RoomIds -> [People -> Reasons \cup {NoRole}]],
           \A p \in People : WaitsNow[Main][p] = "host" => p \notin NeedApproval,
           Door!Next
    PROVE  \A p \in People : WaitsNow'[Main][p] = "host" => p \notin NeedApproval
  <1> SUFFICES ASSUME NEW k \in People, WaitsNow'[Main][k] = "host", k \in NeedApproval
               PROVE  FALSE
    OBVIOUS
  <1>1. ASSUME WaitsNow' = WaitsNow PROVE FALSE
    BY <1>1
  <1>2. ASSUME NEW p \in People, Door!Knock(p) PROVE FALSE
    BY <1>2 DEF Door!Knock
  <1>3. ASSUME NEW r \in RoomIds, NEW p \in People, WaitsNow' = [WaitsNow EXCEPT ![r][p] = "none"]
        PROVE  FALSE
    BY <1>3
  <1>4. ASSUME NEW r \in RoomIds, NEW who, NEW as, Door!Comes(r, who, as) PROVE FALSE
    BY <1>4 DEF Door!Comes
  <1>5. ASSUME NEW r \in RoomIds, Door!Close(r) PROVE FALSE
    BY <1>5 DEF Door!Close
  <1>6. CASE UNCHANGED Door!doors
    BY <1>1, <1>6 DEF Door!doors
  <1>7. ASSUME NEW l \in Legs, Door!Rise(l) \/ \E r \in RoomIds : Door!Sit(r, l) PROVE FALSE
    BY <1>1, <1>7 DEF Door!Rise, Door!Sit
  <1>8. ASSUME NEW r \in RoomIds, Door!Open(r) PROVE FALSE
    BY <1>1, <1>8 DEF Door!Open
  <1>9. ASSUME NEW p \in People, Door!Welcome(p) \/ \E as \in Door!MayBe(p) : Door!Enter(p, as)
        PROVE  FALSE
    BY <1>4, <1>9 DEF Door!Welcome, Door!Enter
  <1>10. ASSUME NEW r \in RoomIds, NEW p \in People,
                \/ Door!Quit(r, p)
                \/ \E new \in {"cohost", "presenter", Door!Lowest(p)} : Door!Appoint(r, p, new)
                \/ \E block \in BOOLEAN : Door!Expel(r, p, block) \/ Door!ExpelToo(r, p, block)
         PROVE  FALSE
    BY <1>1, <1>3, <1>10 DEF Door!Quit, Door!Appoint, Door!Expel, Door!ExpelToo, Door!GoesOut
  <1>11. ASSUME NEW r \in RoomIds, NEW who \in SUBSET People,
                \/ Door!Admit(r, who)
                \/ \E e \in Errands : e.is = "parting" /\ Door!Place(r, who, e.roles)
         PROVE  FALSE
    BY <1>4, <1>11 DEF Door!Admit, Door!Place
  <1> QED BY <1>2, <1>5, <1>6, <1>7, <1>8, <1>9, <1>10, <1>11 DEF Door!Next

LEMMA InitDInv == Init => DInv /\ Door!Init
  <1> SUFFICES ASSUME Init PROVE DInv /\ Door!Init
    OBVIOUS
  <1>1. /\ rooms = [r \in RoomIds |-> NoRoom] /\ Main \in RoomIds
        /\ \A q \in Requests : frames[q] = NoFrame
        /\ idle = {} /\ \A r \in RoomIds : row[r] # "ended"
    BY DEF Init, RoomIds
  <1>2. DoorFrame(NoFrame) /\ ErrandsOf(NoFrame) = {}
    BY DEF DoorFrame, ErrandsOf, NoFrame
  <1>3. DInv
    BY <1>1, <1>2, NoRoomFields DEF DInv, NoRole
  <1>4. RolesNow = [r \in RoomIds |-> [p \in People |-> "none"]] /\ WaitsNow = RolesNow
    BY <1>1, NoRoomFields DEF RolesNow, WaitsNow, NoRole
  <1>5. BarredNow = [r \in RoomIds |-> {}] /\ SeatsNow = [r \in RoomIds |-> [l \in Legs |-> "none"]]
    BY <1>1, NoRoomFields DEF BarredNow, SeatsNow, NoMember, NoRole
  <1>6. Errands = {}
    BY <1>1, <1>2 DEF Errands
  <1> QED BY <1>3, <1>4, <1>5, <1>6 DEF Door!Init

LEMMA NextDInv == IInv /\ HInv /\ DInv /\ [Next]_vars => DInv' /\ [Door!Next]_(Door!vars)
  <1> SUFFICES ASSUME IInv, HInv, DInv, [Next]_vars PROVE DInv' /\ [Door!Next]_(Door!vars)
    OBVIOUS
  <1>1. CASE Next
    <2>1. Door!Next /\ \A k \in Requests : DoorFrame(frames'[k])
      BY <1>1, NextDoor DEF DoorStep
    <2>2. Main \in RoomIds /\ WaitsNow \in [RoomIds -> [People -> Reasons \cup {NoRole}]]
      BY NoRoomFields DEF IInv, RoomsOf, RoomIds, WaitsNow, Room, RoomOK
    <2>3. \A p \in People : WaitsNow[Main][p] = "host" => p \notin NeedApproval
      BY <2>2, DoorsAre DEF DInv
    <2>4. \A p \in People : WaitsNow'[Main][p] = "host" => p \notin NeedApproval
      BY <2>1, <2>2, <2>3, DoorWaits
    <2>5. WaitsNow'[Main] = rooms'[Main].lobby /\ NeedApproval' = NeedApproval
      BY <2>2 DEF WaitsNow, NeedApproval, NeedsApproval
    <2>6. \A k \in Requests : DoorFrame(frames[k])'
      BY <2>1 DEF DoorFrame, Door!MayBe, NeedApproval, NeedsApproval
    <2> QED BY <2>1, <2>4, <2>5, <2>6 DEF DInv
  <1>2. CASE UNCHANGED vars
    <2>1. UNCHANGED <<rooms, row, idle, frames>>
      BY <1>2 DEF vars, memory, tables
    <2>2. DInv'
      BY <2>1 DEF DInv, DoorFrame, Door!MayBe, NeedApproval, NeedsApproval
    <2>3. DoorsStand
      BY <2>1, DoorsStay
    <2>4. Errands' = Errands
      BY <2>1 DEF Errands, ErrandsOf
    <2> QED BY <2>2, <2>3, <2>4 DEF DoorsStand, Door!vars, Door!doors
  <1> QED BY <1>1, <1>2

\* A meeting implements MeetingDoor, for any number of people, tabs, rooms and requests:
\* however requests, tabs, timers, sweeps and faults interleave, nobody comes in, is
\* made something, goes out or has the meeting ended but by what the promise allows.
THEOREM Implements == Spec => Refinement
  <1>1. Spec => []HInv
    BY InitHInv, NextHInv, Invariance, PTL DEF Spec
  <1>2. QED
    BY <1>1, InitDInv, NextDInv, Invariance, PTL DEF Spec, Refinement, Door!Spec

=============================================================================
