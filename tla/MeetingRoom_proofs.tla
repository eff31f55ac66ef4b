------------------------- MODULE MeetingRoom_proofs -------------------------
(***************************************************************************)
(* What every command keeps true of a room, with any number of people,     *)
(* tabs and breakout rooms.                                                *)
(***************************************************************************)
EXTENDS MeetingRoom, TLAPS

\* A tab in the room is that of somebody admitted, and shows a hand when its
\* owner is in the queue; a tab out of the room keeps nothing of it.
LegsOK(r) ==
    /\ \A l \in Legs : Attached(r, l) => /\ IsAdmitted(r, OwnerOf[l])
                                         /\ r.members[l].hand = (OwnerOf[l] \in r.hands)
    /\ \A l \in Legs : ~Attached(r, l) => r.members[l] = NoMember
    /\ \A p \in r.hands : \E l \in Legs : OwnerOf[l] = p /\ Attached(r, l)

\* A person is kept out, admitted or waiting, one at most.
PeopleOK(r) ==
    /\ \A p \in People : ~(IsAdmitted(r, p) /\ Waiting(r, p))
    /\ \A p \in r.blocked : ~IsAdmitted(r, p) /\ ~Waiting(r, p)

\* What a room gives, it gives to people it has admitted.
PlacesOK(r) ==
    /\ r.floor # NoOne => IsAdmitted(r, r.floor)
    /\ \A p \in r.spotlight : IsAdmitted(r, p)
    /\ \A s \in Smalls : \A p \in r.places[s] : IsAdmitted(r, p)

StaffOK(r) == \A p \in Guests : r.admitted[p] \notin Staff

RoomOK(r) == r \in Room /\ LegsOK(r) /\ PeopleOK(r) /\ PlacesOK(r) /\ StaffOK(r)

-----------------------------------------------------------------------------
\* The room a call begins with.
LEMMA NewRoomOK == NewRoom \in Room /\ RoomOK(NewRoom)
  <1>1. NewRoom \in Room
    BY RoomAssumption DEF NewRoom, Room, NoMember, Member, NoRole
  <1>2. \A l \in Legs : ~Attached(NewRoom, l) /\ NewRoom.members[l] = NoMember
    BY DEF NewRoom, Attached, NoMember
  <1>3. \A p \in People : ~IsAdmitted(NewRoom, p) /\ ~Waiting(NewRoom, p)
    BY DEF NewRoom, IsAdmitted, Waiting
  <1>4. LegsOK(NewRoom)
    BY <1>2 DEF LegsOK, NewRoom
  <1>5. PeopleOK(NewRoom)
    BY <1>3 DEF PeopleOK, NewRoom
  <1>6. PlacesOK(NewRoom)
    BY DEF PlacesOK, NewRoom
  <1>7. StaffOK(NewRoom)
    BY RoomAssumption DEF StaffOK, NewRoom, Staff, NoRole
  <1>8. QED
    BY <1>1, <1>4, <1>5, <1>6, <1>7 DEF RoomOK

\* A tab comes in.
LEMMA AttachOK ==
    ASSUME NEW r, RoomOK(r), NEW l \in Legs, IsAdmitted(r, OwnerOf[l]), NEW mic \in BOOLEAN
    PROVE  RoomOK(Attach(r, l, r.admitted[OwnerOf[l]], mic))
  <1> DEFINE role == r.admitted[OwnerOf[l]]
             hard == EntersSilenced(r, role)
             m == [role |-> role, mic |-> mic /\ ~hard, hard |-> hard, hand |-> OwnerOf[l] \in r.hands]
             n == [r EXCEPT !.members[l] = m]
  <1>0. CASE Attached(r, l)
    BY <1>0 DEF Attach
  <1>1. CASE ~Attached(r, l)
    <2>1. Attach(r, l, role, mic) = n
      BY <1>1 DEF Attach
    <2>2. /\ r \in Room /\ OwnerOf[l] \in People /\ role \in Roles /\ role # NoRole
          /\ hard \in BOOLEAN
      BY RoomAssumption DEF RoomOK, Room, IsAdmitted, EntersSilenced, Staff
    <2>3. m \in Member
      BY <2>2 DEF Member
    <2>4. n \in Room
      BY <2>2, <2>3 DEF Room
    <2> HIDE DEF m
    <2>5. /\ n.members = [r.members EXCEPT ![l] = m] /\ n.hands = r.hands
          /\ n.admitted = r.admitted /\ n.lobby = r.lobby /\ n.blocked = r.blocked
          /\ n.floor = r.floor /\ n.spotlight = r.spotlight /\ n.places = r.places
      BY <2>2 DEF Room
    <2> HIDE DEF n
    <2>6. m.role # NoRole /\ m.hand = (OwnerOf[l] \in r.hands)
      BY <2>2 DEF m
    <2>7. LegsOK(n)
      BY <2>2, <2>5, <2>6 DEF RoomOK, LegsOK, Attached, IsAdmitted, Room
    <2>8. PeopleOK(n) /\ PlacesOK(n) /\ StaffOK(n)
      BY <2>5 DEF RoomOK, PeopleOK, PlacesOK, StaffOK, IsAdmitted, Waiting
    <2>9. QED
      BY <2>1, <2>4, <2>7, <2>8 DEF RoomOK
  <1>2. QED
    BY <1>0, <1>1

-----------------------------------------------------------------------------
(* What the other operators change, in the parts of RoomOK *)

TabsOK(r) ==
    /\ \A l \in Legs : Attached(r, l) => /\ IsAdmitted(r, OwnerOf[l])
                                         /\ r.members[l].hand = (OwnerOf[l] \in r.hands)
    /\ \A l \in Legs : ~Attached(r, l) => r.members[l] = NoMember

RestOK(r) == PeopleOK(r) /\ PlacesOK(r) /\ StaffOK(r)

\* The same people, with the same places.
SamePeople(n, r) ==
    /\ n.admitted = r.admitted /\ n.lobby = r.lobby /\ n.blocked = r.blocked
    /\ n.floor = r.floor /\ n.spotlight = r.spotlight /\ n.places = r.places

LEMMA RestKept ==
    ASSUME NEW r, NEW n, SamePeople(n, r), RestOK(r)
    PROVE  RestOK(n)
  BY DEF SamePeople, RestOK, PeopleOK, PlacesOK, StaffOK, IsAdmitted, Waiting

\* A change of the tabs of some people is a change of those tabs and no other thing.
LEMMA WithLegsOfType ==
    ASSUME NEW r \in Room, NEW who, NEW change \in [Member -> Member]
    PROVE  LET n == WithLegsOf(r, who, change) IN
           /\ n \in Room /\ SamePeople(n, r) /\ n.hands = r.hands
           /\ n.members = [l \in Legs |-> IF OwnerOf[l] \in who /\ Attached(r, l)
                                          THEN change[r.members[l]] ELSE r.members[l]]
  <1> DEFINE n == WithLegsOf(r, who, change)
             M == [l \in Legs |-> IF OwnerOf[l] \in who /\ Attached(r, l)
                                  THEN change[r.members[l]] ELSE r.members[l]]
  <1>1. r.members \in [Legs -> Member]
    BY DEF Room
  <1>2. M \in [Legs -> Member]
    BY <1>1
  <1>3. n = [r EXCEPT !.members = M]
    BY DEF WithLegsOf, Room
  <1> HIDE DEF M, n
  <1>4. n \in Room
    BY <1>2, <1>3 DEF Room
  <1>5. n.members = M /\ n.hands = r.hands /\ SamePeople(n, r)
    BY <1>3 DEF Room, SamePeople
  <1>6. QED
    BY <1>4, <1>5 DEF M, n

\* A change that leaves a tab in the room and its hand as it was keeps the room.
LEMMA ChangeOK ==
    ASSUME NEW r, RoomOK(r), NEW who, NEW change \in [Member -> Member],
           \A m \in Member : m.role # NoRole =>
                change[m].role # NoRole /\ change[m].hand = m.hand
    PROVE  RoomOK(WithLegsOf(r, who, change))
  <1> DEFINE n == WithLegsOf(r, who, change)
  <1>1. r \in Room /\ r.members \in [Legs -> Member]
    BY DEF RoomOK, Room
  <1>2. /\ n \in Room /\ SamePeople(n, r) /\ n.hands = r.hands
        /\ n.members = [l \in Legs |-> IF OwnerOf[l] \in who /\ Attached(r, l)
                                       THEN change[r.members[l]] ELSE r.members[l]]
    BY <1>1, WithLegsOfType
  <1> HIDE DEF n
  <1>3. \A l \in Legs : /\ Attached(n, l) <=> Attached(r, l)
                        /\ Attached(r, l) => n.members[l].hand = r.members[l].hand
                        /\ ~Attached(r, l) => n.members[l] = r.members[l]
    BY <1>1, <1>2 DEF Attached
  <1>4. LegsOK(n)
    BY <1>2, <1>3 DEF RoomOK, LegsOK, SamePeople, IsAdmitted
  <1>5. RestOK(n)
    BY <1>2, RestKept DEF RoomOK, RestOK
  <1>6. QED
    BY <1>2, <1>4, <1>5 DEF RoomOK, RestOK, n

\* Hands go down: those that stay are of people in the room.
LEMMA LowerHandsOK ==
    ASSUME NEW r \in Room, NEW who, TabsOK(r), RestOK(r),
           \A p \in r.hands \ who : \E l \in Legs : OwnerOf[l] = p /\ Attached(r, l)
    PROVE  RoomOK(LowerHands(r, who))
  <1> DEFINE b == [r EXCEPT !.hands = @ \ who]
             n == WithLegsOf(b, who, HandDown)
  <1>1. LowerHands(r, who) = n
    BY DEF LowerHands
  <1>2. b \in Room /\ b.members = r.members /\ b.hands = r.hands \ who /\ SamePeople(b, r)
    BY DEF Room, SamePeople
  <1>3. HandDown \in [Member -> Member]
    BY DEF HandDown, Member
  <1> HIDE DEF b
  <1>4. /\ n \in Room /\ SamePeople(n, b) /\ n.hands = b.hands
        /\ n.members = [l \in Legs |-> IF OwnerOf[l] \in who /\ Attached(b, l)
                                       THEN HandDown[b.members[l]] ELSE b.members[l]]
    BY <1>2, <1>3, WithLegsOfType
  <1> HIDE DEF n
  <1>5. \A l \in Legs :
            /\ Attached(n, l) <=> Attached(r, l)
            /\ Attached(r, l) /\ OwnerOf[l] \in who => n.members[l].hand = FALSE
            /\ OwnerOf[l] \notin who => n.members[l] = r.members[l]
            /\ ~Attached(r, l) => n.members[l] = r.members[l]
    <2>1. \A m \in Member : HandDown[m].role = m.role /\ HandDown[m].hand = FALSE
      BY DEF HandDown, Member
    <2>2. r.members \in [Legs -> Member]
      BY DEF Room
    <2>3. \A l \in Legs : Attached(b, l) <=> Attached(r, l)
      BY <1>2 DEF Attached
    <2>4. \A l \in Legs : n.members[l] =
              IF OwnerOf[l] \in who /\ Attached(r, l) THEN HandDown[r.members[l]] ELSE r.members[l]
      BY <2>3, <1>2, <1>4
    <2>5. QED
      BY <2>1, <2>2, <2>4 DEF Attached
  <1>6. SamePeople(n, r) /\ n.hands = r.hands \ who
    BY <1>2, <1>4 DEF SamePeople
  <1>7. LegsOK(n)
    <2>1. \A l \in Legs : Attached(n, l) => IsAdmitted(n, OwnerOf[l])
      BY <1>5, <1>6 DEF TabsOK, SamePeople, IsAdmitted
    <2>2. ASSUME NEW l \in Legs, Attached(n, l)
          PROVE  n.members[l].hand = (OwnerOf[l] \in n.hands)
      <3>1. CASE OwnerOf[l] \in who
        <4>1. n.members[l].hand = FALSE
          BY <3>1, <2>2, <1>5
        <4>2. (OwnerOf[l] \in n.hands) = FALSE
          BY <3>1, <1>6
        <4>3. QED
          BY <4>1, <4>2
      <3>2. CASE OwnerOf[l] \notin who
        BY <3>2, <2>2, <1>5, <1>6 DEF TabsOK
      <3>3. QED
        BY <3>1, <3>2
    <2>3. \A l \in Legs : ~Attached(n, l) => n.members[l] = NoMember
      BY <1>5 DEF TabsOK
    <2>4. \A p \in n.hands : \E l \in Legs : OwnerOf[l] = p /\ Attached(n, l)
      BY <1>5, <1>6
    <2>5. QED
      BY <2>1, <2>2, <2>3, <2>4 DEF LegsOK
  <1>8. RestOK(n)
    BY <1>6, RestKept
  <1>9. QED
    BY <1>1, <1>4, <1>7, <1>8 DEF RoomOK, RestOK

LEMMA LowerOK ==
    ASSUME NEW r, RoomOK(r), NEW who
    PROVE  RoomOK(LowerHands(r, who))
  BY LowerHandsOK DEF RoomOK, LegsOK, TabsOK, RestOK

\* The last tab of somebody takes their hand with it.
LEMMA DetachOK ==
    ASSUME NEW r, RoomOK(r), NEW l \in Legs
    PROVE  RoomOK(Detach(r, l))
  <1> DEFINE n == [r EXCEPT !.members[l] = NoMember]
             p == OwnerOf[l]
  <1>1. r \in Room /\ n \in Room /\ SamePeople(n, r) /\ n.hands = r.hands
        /\ n.members = [r.members EXCEPT ![l] = NoMember]
    BY DEF RoomOK, Room, SamePeople, NoMember, Member
  <1> HIDE DEF n
  <1>2. NoMember.role = NoRole
    BY DEF NoMember
  <1>3. ~Attached(n, l) /\ n.members[l] = NoMember
        /\ \A k \in Legs \ {l} : n.members[k] = r.members[k]
    BY <1>1, <1>2 DEF Attached, Room
  <1>4. \A k \in Legs \ {l} : Attached(n, k) <=> Attached(r, k)
    BY <1>3 DEF Attached
  <1>5. TabsOK(n)
    BY <1>1, <1>3, <1>4 DEF RoomOK, LegsOK, TabsOK, SamePeople, IsAdmitted
  <1>6. RestOK(n)
    BY <1>1, RestKept DEF RoomOK, RestOK
  <1>7. CASE Attached(r, l) /\ LegsIn(n, p) = {}
    <2>1. \A q \in n.hands \ {p} : \E k \in Legs : OwnerOf[k] = q /\ Attached(n, k)
      BY <1>1, <1>4 DEF RoomOK, LegsOK
    <2>2. RoomOK(LowerHands(n, {p}))
      BY <2>1, <1>1, <1>5, <1>6, LowerHandsOK
    <2>3. QED
      BY <2>2, <1>7 DEF Detach, n
  <1>8. CASE ~(Attached(r, l) /\ LegsIn(n, p) = {})
    <2>1. \A q \in n.hands : \E k \in Legs : OwnerOf[k] = q /\ Attached(n, k)
      <3>1. CASE ~Attached(r, l)
        BY <3>1, <1>1, <1>4 DEF RoomOK, LegsOK
      <3>2. CASE LegsIn(n, p) # {}
        BY <3>2, <1>1, <1>4 DEF RoomOK, LegsOK, LegsIn
      <3>3. QED
        BY <3>1, <3>2, <1>8
    <2>2. RoomOK(n)
      BY <2>1, <1>1, <1>5, <1>6 DEF RoomOK, TabsOK, LegsOK, RestOK
    <2>3. QED
      BY <2>2, <1>8 DEF Detach, n
  <1>9. QED
    BY <1>7, <1>8

LEMMA MediaOK ==
    ASSUME NEW r, RoomOK(r), NEW l \in Legs, Attached(r, l), NEW mic \in BOOLEAN
    PROVE  RoomOK(Media(r, l, mic))
  <1> DEFINE n == Media(r, l, mic)
  <1>1. /\ n \in Room /\ SamePeople(n, r) /\ n.hands = r.hands
        /\ n.members = [r.members EXCEPT ![l].mic = mic]
    <2>1. r.members \in [Legs -> Member] /\ r \in Room
      BY DEF RoomOK, Room
    <2>2. [r.members EXCEPT ![l].mic = mic] \in [Legs -> Member]
      BY <2>1 DEF Member
    <2>3. n = [r EXCEPT !.members = [r.members EXCEPT ![l].mic = mic]]
      BY <2>1 DEF Media, Room
    <2>4. QED
      BY <2>1, <2>2, <2>3 DEF Room, SamePeople
  <1> HIDE DEF n
  <1>2. \A k \in Legs : /\ Attached(n, k) <=> Attached(r, k)
                        /\ n.members[k].hand = r.members[k].hand
                        /\ ~Attached(r, k) => n.members[k] = r.members[k]
    BY <1>1 DEF RoomOK, Room, Attached, Member
  <1>3. LegsOK(n)
    BY <1>1, <1>2 DEF RoomOK, LegsOK, SamePeople, IsAdmitted
  <1>4. RestOK(n)
    BY <1>1, RestKept DEF RoomOK, RestOK
  <1>5. QED
    BY <1>1, <1>3, <1>4 DEF RoomOK, RestOK, n

\* Who waits is neither admitted nor kept out.
LEMMA WaitOK ==
    ASSUME NEW r, RoomOK(r), NEW p \in People, MayEnter(r, p), NEW reason \in Reasons
    PROVE  RoomOK(Wait(r, p, reason))
  <1> DEFINE n == [r EXCEPT !.lobby[p] = reason]
  <1>1. CASE IsAdmitted(r, p)
    BY <1>1 DEF Wait
  <1>2. CASE ~IsAdmitted(r, p)
    <2>1. /\ r \in Room /\ n \in Room /\ n.lobby = [r.lobby EXCEPT ![p] = reason]
          /\ n.admitted = r.admitted /\ n.members = r.members /\ n.hands = r.hands
          /\ n.blocked = r.blocked /\ n.floor = r.floor /\ n.spotlight = r.spotlight
          /\ n.places = r.places
      BY DEF RoomOK, Room
    <2> HIDE DEF n
    <2>2. LegsOK(n) /\ PlacesOK(n) /\ StaffOK(n)
      BY <2>1 DEF RoomOK, LegsOK, PlacesOK, StaffOK, IsAdmitted, Attached
    <2>3. PeopleOK(n)
      BY <2>1, <1>2 DEF RoomOK, PeopleOK, IsAdmitted, Waiting, MayEnter, Room
    <2>4. QED
      BY <2>1, <2>2, <2>3, <1>2 DEF RoomOK, Wait, n
  <1>3. QED
    BY <1>1, <1>2

\* What admission gives: a role that a guest may have, to people not kept out.
LEMMA AdmittedOK ==
    ASSUME NEW r, RoomOK(r), NEW n \in Room, NEW who \in SUBSET People,
           n.members = r.members, n.hands = r.hands, n.blocked = r.blocked,
           n.floor = r.floor, n.spotlight = r.spotlight, n.places = r.places,
           \A p \in who : p \notin r.blocked /\ IsAdmitted(n, p) /\ ~Waiting(n, p)
                          /\ (p \in Guests => n.admitted[p] \notin Staff),
           \A p \in People \ who : n.admitted[p] = r.admitted[p] /\ n.lobby[p] = r.lobby[p]
    PROVE  RoomOK(n)
  <1>1. r \in Room /\ LegsOK(r) /\ PeopleOK(r) /\ PlacesOK(r) /\ StaffOK(r)
    BY DEF RoomOK
  <1>2. \A p \in People : IsAdmitted(r, p) => IsAdmitted(n, p)
    BY DEF IsAdmitted
  <1>3. LegsOK(n)
    BY <1>1, <1>2, RoomAssumption DEF LegsOK, Attached
  <1>4. PeopleOK(n)
    BY <1>1 DEF PeopleOK, IsAdmitted, Waiting, Room
  <1>5. PlacesOK(n)
    BY <1>1, <1>2 DEF PlacesOK, Room
  <1>6. StaffOK(n)
    BY <1>1, RoomAssumption DEF StaffOK
  <1>7. QED
    BY <1>3, <1>4, <1>5, <1>6 DEF RoomOK

LEMMA AdmitPersonOK ==
    ASSUME NEW r, RoomOK(r), NEW p \in People, p \notin r.blocked, NEW role \in Roles,
           p \in Guests => role \notin Staff
    PROVE  RoomOK(AdmitPerson(r, p, role))
  <1> DEFINE n == AdmitPerson(r, p, role)
  <1>1. /\ r \in Room /\ n \in Room /\ n.admitted = [r.admitted EXCEPT ![p] = role]
        /\ n.lobby = [r.lobby EXCEPT ![p] = NoRole]
        /\ n.members = r.members /\ n.hands = r.hands /\ n.blocked = r.blocked
        /\ n.floor = r.floor /\ n.spotlight = r.spotlight /\ n.places = r.places
    BY DEF RoomOK, Room, AdmitPerson
  <1> HIDE DEF n
  <1>2. role # NoRole
    BY DEF Roles, NoRole
  <1>3. IsAdmitted(n, p) /\ ~Waiting(n, p) /\ n.admitted[p] = role
    BY <1>1, <1>2 DEF IsAdmitted, Waiting, Room
  <1>4. \A q \in People \ {p} : n.admitted[q] = r.admitted[q] /\ n.lobby[q] = r.lobby[q]
    BY <1>1 DEF Room
  <1>5. RoomOK(n)
    <2> DEFINE who == {p}
    <2>1. /\ who \in SUBSET People
          /\ \A q \in who : /\ q \notin r.blocked /\ IsAdmitted(n, q) /\ ~Waiting(n, q)
                            /\ q \in Guests => n.admitted[q] \notin Staff
          /\ \A q \in People \ who : n.admitted[q] = r.admitted[q] /\ n.lobby[q] = r.lobby[q]
      BY <1>3, <1>4
    <2> HIDE DEF who
    <2>2. QED
      BY <2>1, <1>1, AdmittedOK
  <1>6. QED
    BY <1>5 DEF n

LEMMA AdmitEachOK ==
    ASSUME NEW r, RoomOK(r), NEW who \in SUBSET People, NEW role,
           \A p \in who : role[p] \in Roles /\ p \notin r.blocked
                          /\ (p \in Guests => role[p] \notin Staff)
    PROVE  RoomOK(AdmitEach(r, who, role))
  <1> DEFINE n == AdmitEach(r, who, role)
  <1>1. /\ r \in Room /\ n \in Room
        /\ n.admitted = [p \in People |-> IF p \in who THEN role[p] ELSE r.admitted[p]]
        /\ n.lobby = [p \in People |-> IF p \in who THEN NoRole ELSE r.lobby[p]]
        /\ n.members = r.members /\ n.hands = r.hands /\ n.blocked = r.blocked
        /\ n.floor = r.floor /\ n.spotlight = r.spotlight /\ n.places = r.places
    BY DEF RoomOK, Room, AdmitEach
  <1> HIDE DEF n
  <1>2. NoRole \notin Roles
    BY DEF Roles, NoRole
  <1>3. \A p \in who : IsAdmitted(n, p) /\ ~Waiting(n, p) /\ n.admitted[p] = role[p]
    BY <1>1, <1>2 DEF IsAdmitted, Waiting
  <1>4. \A q \in People \ who : n.admitted[q] = r.admitted[q] /\ n.lobby[q] = r.lobby[q]
    BY <1>1
  <1>5. RoomOK(n)
    BY <1>1, <1>3, <1>4, AdmittedOK
  <1>6. QED
    BY <1>5 DEF n

LEMMA AdmitWaitingOK ==
    ASSUME NEW r, RoomOK(r), NEW who \in SUBSET People, \A p \in who : Waiting(r, p)
    PROVE  RoomOK(AdmitWaiting(r, who))
  <1> DEFINE role == [p \in who |-> WaitingRole(p)]
  <1>1. \A p \in who : role[p] \in Roles /\ role[p] \notin Staff
    BY DEF WaitingRole, Roles, Staff
  <1>2. \A p \in who : p \notin r.blocked
    BY DEF RoomOK, PeopleOK
  <1> HIDE DEF role
  <1>3. RoomOK(AdmitEach(r, who, role))
    BY <1>1, <1>2, AdmitEachOK
  <1>4. QED
    BY <1>3 DEF AdmitWaiting, role

\* Every tab of one person goes out.
LEMMA LegsOutType ==
    ASSUME NEW r \in Room, NEW p
    PROVE  /\ LegsOut(r, p) \in [Legs -> Member]
           /\ \A l \in Legs : LegsOut(r, p)[l] = IF OwnerOf[l] = p THEN NoMember ELSE r.members[l]
  <1>1. NoMember \in Member /\ r.members \in [Legs -> Member]
    BY DEF Room, NoMember, Member
  <1>2. QED
    BY <1>1 DEF LegsOut

\* The room without the tabs, the hand and the wait of one person.
LEMMA WithoutOK ==
    ASSUME NEW r, RoomOK(r), NEW n \in Room, NEW p \in People,
           n.members = LegsOut(r, p), n.hands = r.hands \ {p}, ~Waiting(n, p),
           \A q \in People \ {p} : n.admitted[q] = r.admitted[q] /\ n.lobby[q] = r.lobby[q]
    PROVE  LegsOK(n) /\ \A q \in People : ~(IsAdmitted(n, q) /\ Waiting(n, q))
  <1>1. r \in Room /\ LegsOK(r) /\ PeopleOK(r)
    BY DEF RoomOK
  <1>2. NoMember.role = NoRole
    BY DEF NoMember
  <1>3. \A l \in Legs : n.members[l] = IF OwnerOf[l] = p THEN NoMember ELSE r.members[l]
    BY <1>1, LegsOutType
  <1>4. \A l \in Legs : Attached(n, l) <=> Attached(r, l) /\ OwnerOf[l] # p
    BY <1>2, <1>3 DEF Attached
  <1>5. \A l \in Legs : Attached(n, l) =>
            /\ IsAdmitted(n, OwnerOf[l])
            /\ n.members[l].hand = (OwnerOf[l] \in n.hands)
    BY <1>1, <1>3, <1>4, RoomAssumption DEF LegsOK, IsAdmitted
  <1>6. \A l \in Legs : ~Attached(n, l) => n.members[l] = NoMember
    BY <1>1, <1>3, <1>4 DEF LegsOK
  <1>7. \A q \in n.hands : \E l \in Legs : OwnerOf[l] = q /\ Attached(n, l)
    BY <1>1, <1>4 DEF LegsOK
  <1>8. \A q \in People : ~(IsAdmitted(n, q) /\ Waiting(n, q))
    BY <1>1 DEF PeopleOK, IsAdmitted, Waiting
  <1>9. QED
    BY <1>5, <1>6, <1>7, <1>8 DEF LegsOK

LEMMA LeaveOK ==
    ASSUME NEW r, RoomOK(r), NEW p \in People
    PROVE  RoomOK(Leave(r, p))
  <1> DEFINE n == [r EXCEPT !.members = LegsOut(r, p), !.lobby[p] = NoRole, !.hands = @ \ {p}]
  <1>1. /\ r \in Room /\ n \in Room /\ n.members = LegsOut(r, p) /\ n.hands = r.hands \ {p}
        /\ n.lobby = [r.lobby EXCEPT ![p] = NoRole]
        /\ n.admitted = r.admitted /\ n.blocked = r.blocked
        /\ n.floor = r.floor /\ n.spotlight = r.spotlight /\ n.places = r.places
    BY LegsOutType DEF RoomOK, Room
  <1> HIDE DEF n
  <1>2. /\ ~Waiting(n, p)
        /\ \A q \in People \ {p} : n.admitted[q] = r.admitted[q] /\ n.lobby[q] = r.lobby[q]
    BY <1>1 DEF Waiting, Room
  <1>3. LegsOK(n) /\ \A q \in People : ~(IsAdmitted(n, q) /\ Waiting(n, q))
    BY <1>1, <1>2, WithoutOK
  <1>4. PeopleOK(n)
    <2>1. \A q \in r.blocked : q \in People /\ ~IsAdmitted(r, q) /\ ~Waiting(r, q)
      BY <1>1 DEF RoomOK, PeopleOK, Room
    <2>2. \A q \in n.blocked : ~IsAdmitted(n, q) /\ ~Waiting(n, q)
      BY <2>1, <1>1, <1>2 DEF IsAdmitted, Waiting
    <2>3. QED
      BY <2>2, <1>3 DEF PeopleOK
  <1>5. PlacesOK(n) /\ StaffOK(n)
    BY <1>1 DEF RoomOK, PlacesOK, StaffOK, IsAdmitted
  <1>6. RoomOK(n)
    BY <1>1, <1>3, <1>4, <1>5 DEF RoomOK
  <1>7. QED
    BY <1>6 DEF Leave, n

LEMMA ExpelOK ==
    ASSUME NEW r, RoomOK(r), NEW p \in People, NEW block \in BOOLEAN
    PROVE  /\ RoomOK(Expel(r, p, block))
           /\ ~IsAdmitted(Expel(r, p, block), p) /\ LegsIn(Expel(r, p, block), p) = {}
           /\ block => p \in Expel(r, p, block).blocked
  <1> DEFINE n == Expel(r, p, block)
  <1>1. /\ r \in Room /\ n \in Room /\ n.members = LegsOut(r, p) /\ n.hands = r.hands \ {p}
        /\ n.lobby = [r.lobby EXCEPT ![p] = NoRole]
        /\ n.admitted = [r.admitted EXCEPT ![p] = NoRole]
        /\ n.blocked = (IF block THEN r.blocked \cup {p} ELSE r.blocked)
        /\ n.floor = (IF r.floor = p THEN NoOne ELSE r.floor) /\ n.spotlight = r.spotlight \ {p}
        /\ n.places = [s \in Smalls |-> r.places[s] \ {p}]
    BY LegsOutType DEF RoomOK, Room, Expel
  <1> HIDE DEF n
  <1>2. /\ ~Waiting(n, p) /\ ~IsAdmitted(n, p)
        /\ \A q \in People \ {p} : n.admitted[q] = r.admitted[q] /\ n.lobby[q] = r.lobby[q]
    BY <1>1 DEF Waiting, IsAdmitted, Room
  <1>3. LegsOK(n) /\ \A q \in People : ~(IsAdmitted(n, q) /\ Waiting(n, q))
    <2>1. n \in Room /\ n.members = LegsOut(r, p) /\ n.hands = r.hands \ {p}
      BY <1>1
    <2>2. QED
      BY <2>1, <1>2, WithoutOK
  <1>4. PeopleOK(n)
    <2>1. \A q \in r.blocked : q \in People /\ ~IsAdmitted(r, q) /\ ~Waiting(r, q)
      BY <1>1 DEF RoomOK, PeopleOK, Room
    <2>2. \A q \in n.blocked : ~IsAdmitted(n, q) /\ ~Waiting(n, q)
      BY <2>1, <1>1, <1>2 DEF IsAdmitted, Waiting
    <2>3. QED
      BY <2>2, <1>3 DEF PeopleOK
  <1>5. PlacesOK(n)
    <2>1. r.places \in [Smalls -> SUBSET People] /\ r.spotlight \subseteq People
          /\ r.floor \in People \cup {NoOne}
      BY <1>1 DEF Room
    <2>2. \A q \in People : IsAdmitted(r, q) /\ q # p => IsAdmitted(n, q)
      BY <1>2 DEF IsAdmitted
    <2>3. n.floor # NoOne => IsAdmitted(n, n.floor)
      BY <2>1, <2>2, <1>1 DEF RoomOK, PlacesOK
    <2>4. \A q \in n.spotlight : IsAdmitted(n, q)
      BY <2>1, <2>2, <1>1 DEF RoomOK, PlacesOK
    <2>5. \A s \in Smalls : \A q \in n.places[s] : IsAdmitted(n, q)
      BY <2>1, <2>2, <1>1 DEF RoomOK, PlacesOK
    <2>6. QED
      BY <2>3, <2>4, <2>5 DEF PlacesOK
  <1>6. StaffOK(n)
    BY <1>1, <1>2, RoomAssumption DEF RoomOK, StaffOK, IsAdmitted, Staff, NoRole
  <1>7. RoomOK(n)
    BY <1>1, <1>3, <1>4, <1>5, <1>6 DEF RoomOK
  <1>8. LegsIn(n, p) = {}
    BY <1>2, <1>3 DEF LegsIn, LegsOK
  <1>9. block => p \in n.blocked
    BY <1>1
  <1>10. QED
    BY <1>2, <1>7, <1>8, <1>9 DEF n

LEMMA RaiseHandOK ==
    ASSUME NEW r, RoomOK(r), NEW l \in Legs, Attached(r, l)
    PROVE  RoomOK(RaiseHand(r, l))
  <1> DEFINE p == OwnerOf[l]
             b == [r EXCEPT !.hands = @ \cup {p}]
             n == WithLegsOf(b, {p}, HandUp)
  <1>1. CASE p \in r.hands
    BY <1>1 DEF RaiseHand
  <1>2. CASE p \notin r.hands
    <2>1. /\ r \in Room /\ b \in Room /\ b.members = r.members /\ b.hands = r.hands \cup {p}
          /\ SamePeople(b, r) /\ p \in People /\ r.members \in [Legs -> Member]
      BY RoomAssumption DEF RoomOK, Room, SamePeople
    <2>2. HandUp \in [Member -> Member]
      BY DEF HandUp, Member
    <2> HIDE DEF b
    <2>3. /\ n \in Room /\ SamePeople(n, b) /\ n.hands = b.hands
          /\ n.members = [k \in Legs |-> IF OwnerOf[k] \in {p} /\ Attached(b, k)
                                         THEN HandUp[b.members[k]] ELSE b.members[k]]
      BY <2>1, <2>2, WithLegsOfType
    <2> HIDE DEF n
    <2>4. \A m \in Member : HandUp[m].role = m.role /\ HandUp[m].hand = TRUE
      BY DEF HandUp, Member
    <2>5. \A k \in Legs : Attached(b, k) <=> Attached(r, k)
      BY <2>1 DEF Attached
    <2>6. \A k \in Legs : n.members[k] =
              IF OwnerOf[k] = p /\ Attached(r, k) THEN HandUp[r.members[k]] ELSE r.members[k]
      BY <2>1, <2>3, <2>5
    <2>7. \A k \in Legs : Attached(n, k) <=> Attached(r, k)
      BY <2>1, <2>4, <2>6 DEF Attached
    <2>8. SamePeople(n, r) /\ n.hands = r.hands \cup {p}
      BY <2>1, <2>3 DEF SamePeople
    <2>9. ASSUME NEW k \in Legs, Attached(n, k)
          PROVE  n.members[k].hand = (OwnerOf[k] \in n.hands)
      <3>1. CASE OwnerOf[k] = p
        <4>1. n.members[k].hand = TRUE
          BY <3>1, <2>1, <2>4, <2>6, <2>7, <2>9
        <4>2. (OwnerOf[k] \in n.hands) = TRUE
          BY <3>1, <2>8
        <4>3. QED
          BY <4>1, <4>2
      <3>2. CASE OwnerOf[k] # p
        BY <3>2, <2>6, <2>7, <2>8, <2>9 DEF RoomOK, LegsOK
      <3>3. QED
        BY <3>1, <3>2
    <2>10. \A k \in Legs : Attached(n, k) => IsAdmitted(n, OwnerOf[k])
      BY <2>7, <2>8 DEF RoomOK, LegsOK, SamePeople, IsAdmitted
    <2>11. \A k \in Legs : ~Attached(n, k) => n.members[k] = NoMember
      BY <2>6, <2>7 DEF RoomOK, LegsOK
    <2>12. \A q \in n.hands : \E k \in Legs : OwnerOf[k] = q /\ Attached(n, k)
      BY <2>7, <2>8 DEF RoomOK, LegsOK
    <2>13. LegsOK(n)
      BY <2>9, <2>10, <2>11, <2>12 DEF LegsOK
    <2>14. RestOK(n)
      BY <2>8, RestKept DEF RoomOK, RestOK
    <2>15. RoomOK(n)
      BY <2>3, <2>13, <2>14 DEF RoomOK, RestOK
    <2>16. QED
      BY <2>15, <1>2 DEF RaiseHand, n, b
  <1>3. QED
    BY <1>1, <1>2

\* Another policy, stage, floor, spotlight or list of places, given to people admitted.
LEMMA GivenOK ==
    ASSUME NEW r, RoomOK(r), NEW n \in Room,
           n.members = r.members, n.hands = r.hands, n.blocked = r.blocked,
           n.admitted = r.admitted, n.lobby = r.lobby, PlacesOK(n)
    PROVE  RoomOK(n)
  BY DEF RoomOK, LegsOK, PeopleOK, StaffOK, IsAdmitted, Waiting, Attached

LEMMA EndBreakoutsOK ==
    ASSUME NEW r, RoomOK(r)
    PROVE  RoomOK(EndBreakouts(r))
  <1> DEFINE n == EndBreakouts(r)
  <1>1. /\ r \in Room /\ n \in Room /\ n.members = r.members /\ n.hands = r.hands
        /\ n.blocked = r.blocked /\ n.admitted = r.admitted /\ n.lobby = r.lobby
        /\ n.floor = r.floor /\ n.spotlight = r.spotlight /\ n.places = [s \in Smalls |-> {}]
    BY DEF RoomOK, Room, EndBreakouts
  <1> HIDE DEF n
  <1>2. PlacesOK(n)
    BY <1>1 DEF RoomOK, PlacesOK, IsAdmitted
  <1>3. QED
    BY <1>1, <1>2, GivenOK DEF n

LEMMA TickOK ==
    ASSUME NEW r, RoomOK(r)
    PROVE  RoomOK(Tick(r))
  <1> DEFINE n == [r EXCEPT !.stage = "closing"]
  <1>1. /\ n \in Room /\ n.members = r.members /\ n.hands = r.hands
        /\ n.blocked = r.blocked /\ n.admitted = r.admitted /\ n.lobby = r.lobby
        /\ n.floor = r.floor /\ n.spotlight = r.spotlight /\ n.places = r.places
    BY DEF RoomOK, Room
  <1> HIDE DEF n
  <1>2. PlacesOK(n)
    BY <1>1 DEF RoomOK, PlacesOK, IsAdmitted
  <1>3. RoomOK(n)
    BY <1>1, <1>2, GivenOK
  <1>4. QED
    BY <1>3, EndBreakoutsOK DEF Tick, n

-----------------------------------------------------------------------------
(* The orders *)

LEMMA OrderShape ==
    ASSUME NEW o \in Order
    PROVE  /\ o.type \in {"admit", "deny", "mute", "grant_floor", "revoke_floor", "lower_hand",
                          "kick", "set_role"} => o.who \in People
           /\ o.type = "mute" => o.first \in Legs
           /\ o.type = "mute_all" => o.allow \in BOOLEAN
           /\ o.type = "kick" => o.block \in BOOLEAN
           /\ o.type = "lock" => o.locked \in BOOLEAN
           /\ o.type = "spotlight" => o.keys \in SUBSET People
           /\ o.type = "set_role" => o.role \in {"cohost", "presenter", "participant"}
           /\ o.type = "breakouts_open" => o.places \in [Smalls -> SUBSET People]
           /\ o.type \in {"admit", "deny", "mute", "grant_floor", "revoke_floor", "lower_hand",
                 "admit_all", "allow_unmute", "lower_all_hands", "breakouts_close", "end",
                 "mute_all", "kick", "lock", "spotlight", "set_role", "breakouts_open"}
  BY DEF Order

LEMMA SilenceKeeps ==
    ASSUME NEW hard \in BOOLEAN, NEW m \in Member
    PROVE  /\ SilenceAs(hard, m) \in Member
           /\ SilenceAs(hard, m).role = m.role /\ SilenceAs(hard, m).hand = m.hand
  BY DEF SilenceAs, Member

LEMMA MuteOK ==
    ASSUME NEW r, RoomOK(r), NEW p \in People, NEW first
    PROVE  RoomOK(Mute(r, p, first))
  <1> DEFINE hard == ~r.allow /\ r.members[first].role \notin Staff
             change == [m \in Member |-> SilenceAs(hard, m)]
  <1>1. hard \in BOOLEAN
    OBVIOUS
  <1> HIDE DEF hard
  <1>2. change \in [Member -> Member] /\ \A m \in Member : m.role # NoRole =>
            change[m].role # NoRole /\ change[m].hand = m.hand
    BY <1>1, SilenceKeeps
  <1> HIDE DEF change
  <1>3. RoomOK(WithLegsOf(r, {p}, change))
    BY <1>2, ChangeOK
  <1>4. QED
    BY <1>3 DEF Mute, change, hard

\* Another policy of the microphones.
LEMMA AllowOK ==
    ASSUME NEW r, RoomOK(r), NEW allow \in BOOLEAN
    PROVE  RoomOK([r EXCEPT !.allow = allow])
  <1> DEFINE n == [r EXCEPT !.allow = allow]
  <1>1. /\ n \in Room /\ n.members = r.members /\ n.hands = r.hands
        /\ n.blocked = r.blocked /\ n.admitted = r.admitted /\ n.lobby = r.lobby
        /\ n.floor = r.floor /\ n.spotlight = r.spotlight /\ n.places = r.places
    BY DEF RoomOK, Room
  <1> HIDE DEF n
  <1>2. PlacesOK(n)
    BY <1>1 DEF RoomOK, PlacesOK, IsAdmitted
  <1>3. QED
    BY <1>1, <1>2, GivenOK DEF n

LEMMA MuteAllOK ==
    ASSUME NEW r, RoomOK(r), NEW allow \in BOOLEAN
    PROVE  RoomOK(MuteAll(r, allow))
  <1> DEFINE b == [r EXCEPT !.allow = allow]
             change == [m \in Member |-> IF m.role \in Staff THEN m ELSE SilenceAs(~allow, m)]
  <1>1. RoomOK(b)
    BY AllowOK
  <1>2. change \in [Member -> Member] /\ \A m \in Member : m.role # NoRole =>
            change[m].role # NoRole /\ change[m].hand = m.hand
    BY SilenceKeeps
  <1> HIDE DEF change, b
  <1>3. RoomOK(WithLegsOf(b, People, change))
    BY <1>1, <1>2, ChangeOK
  <1>4. QED
    BY <1>3 DEF MuteAll, change, b

LEMMA AllowUnmuteOK ==
    ASSUME NEW r, RoomOK(r)
    PROVE  RoomOK(AllowUnmute(r))
  <1> DEFINE b == [r EXCEPT !.allow = TRUE]
             change == [m \in Member |-> [m EXCEPT !.hard = FALSE]]
  <1>1. RoomOK(b)
    BY AllowOK
  <1>2. change \in [Member -> Member] /\ \A m \in Member : m.role # NoRole =>
            change[m].role # NoRole /\ change[m].hand = m.hand
    BY DEF Member
  <1> HIDE DEF change, b
  <1>3. RoomOK(WithLegsOf(b, People, change))
    BY <1>1, <1>2, ChangeOK
  <1>4. QED
    BY <1>3 DEF AllowUnmute, change, b

LEMMA SetRoleOK ==
    ASSUME NEW r, RoomOK(r), NEW p \in People, NEW role,
           NEW new \in {"cohost", "presenter", "participant"}, MaySetRole(r, role, p, new)
    PROVE  RoomOK(SetRole(r, p, new))
  <1> DEFINE given == IF new = "participant" /\ p \in Guests THEN "guest" ELSE new
             b == AdmitPerson(r, p, given)
             change == [m \in Member |-> [m EXCEPT !.role = given]]
  <1>1. given \in Roles /\ (p \in Guests => given \notin Staff)
    BY DEF MaySetRole, Roles, Staff
  <1>2. p \notin r.blocked
    BY DEF MaySetRole, RoomOK, PeopleOK, IsAdmitted
  <1> HIDE DEF given
  <1>3. RoomOK(b)
    BY <1>1, <1>2, AdmitPersonOK
  <1>4. change \in [Member -> Member] /\ \A m \in Member : m.role # NoRole =>
            change[m].role # NoRole /\ change[m].hand = m.hand
    BY <1>1 DEF Member, Roles, NoRole
  <1> HIDE DEF change, b
  <1>5. RoomOK(WithLegsOf(b, {p}, change))
    BY <1>3, <1>4, ChangeOK
  <1>6. QED
    BY <1>5 DEF SetRole, change, b, given

LEMMA DenyOK ==
    ASSUME NEW r, RoomOK(r), NEW p \in People
    PROVE  RoomOK([r EXCEPT !.lobby[p] = NoRole])
  <1> DEFINE n == [r EXCEPT !.lobby[p] = NoRole]
  <1>1. /\ r \in Room /\ n \in Room /\ n.members = r.members /\ n.hands = r.hands
        /\ n.blocked = r.blocked /\ n.admitted = r.admitted
        /\ n.lobby = [r.lobby EXCEPT ![p] = NoRole]
        /\ n.floor = r.floor /\ n.spotlight = r.spotlight /\ n.places = r.places
    BY DEF RoomOK, Room
  <1> HIDE DEF n
  <1>2. LegsOK(n) /\ PlacesOK(n) /\ StaffOK(n)
    BY <1>1 DEF RoomOK, LegsOK, PlacesOK, StaffOK, IsAdmitted, Attached
  <1>3. PeopleOK(n)
    BY <1>1 DEF RoomOK, PeopleOK, IsAdmitted, Waiting, Room
  <1>4. QED
    BY <1>1, <1>2, <1>3 DEF RoomOK, n

LEMMA LockOK ==
    ASSUME NEW r, RoomOK(r), NEW locked \in BOOLEAN
    PROVE  RoomOK([r EXCEPT !.locked = locked])
  <1> DEFINE n == [r EXCEPT !.locked = locked]
  <1>1. /\ n \in Room /\ n.members = r.members /\ n.hands = r.hands
        /\ n.blocked = r.blocked /\ n.admitted = r.admitted /\ n.lobby = r.lobby
        /\ n.floor = r.floor /\ n.spotlight = r.spotlight /\ n.places = r.places
    BY DEF RoomOK, Room
  <1> HIDE DEF n
  <1>2. PlacesOK(n)
    BY <1>1 DEF RoomOK, PlacesOK, IsAdmitted
  <1>3. QED
    BY <1>1, <1>2, GivenOK DEF n

LEMMA FloorOK ==
    ASSUME NEW r, RoomOK(r), NEW p, p # NoOne => p \in People /\ IsAdmitted(r, p)
    PROVE  RoomOK([r EXCEPT !.floor = p])
  <1> DEFINE n == [r EXCEPT !.floor = p]
  <1>1. /\ n \in Room /\ n.members = r.members /\ n.hands = r.hands
        /\ n.blocked = r.blocked /\ n.admitted = r.admitted /\ n.lobby = r.lobby
        /\ n.floor = p /\ n.spotlight = r.spotlight /\ n.places = r.places
    BY DEF RoomOK, Room
  <1> HIDE DEF n
  <1>2. PlacesOK(n)
    BY <1>1 DEF RoomOK, PlacesOK, IsAdmitted
  <1>3. QED
    BY <1>1, <1>2, GivenOK DEF n

LEMMA SpotlightOK ==
    ASSUME NEW r, RoomOK(r), NEW keys \in SUBSET People, \A p \in keys : IsAdmitted(r, p)
    PROVE  RoomOK([r EXCEPT !.spotlight = keys])
  <1> DEFINE n == [r EXCEPT !.spotlight = keys]
  <1>1. /\ n \in Room /\ n.members = r.members /\ n.hands = r.hands
        /\ n.blocked = r.blocked /\ n.admitted = r.admitted /\ n.lobby = r.lobby
        /\ n.floor = r.floor /\ n.spotlight = keys /\ n.places = r.places
    BY DEF RoomOK, Room
  <1> HIDE DEF n
  <1>2. PlacesOK(n)
    BY <1>1 DEF RoomOK, PlacesOK, IsAdmitted
  <1>3. QED
    BY <1>1, <1>2, GivenOK DEF n

LEMMA StageOK ==
    ASSUME NEW r, RoomOK(r), NEW stage \in {"open", "closing"},
           NEW places \in [Smalls -> SUBSET People],
           \A s \in Smalls : \A p \in places[s] : IsAdmitted(r, p)
    PROVE  RoomOK([r EXCEPT !.stage = stage, !.places = places])
  <1> DEFINE n == [r EXCEPT !.stage = stage, !.places = places]
  <1>1. /\ n \in Room /\ n.members = r.members /\ n.hands = r.hands
        /\ n.blocked = r.blocked /\ n.admitted = r.admitted /\ n.lobby = r.lobby
        /\ n.floor = r.floor /\ n.spotlight = r.spotlight /\ n.places = places
    BY DEF RoomOK, Room
  <1> HIDE DEF n
  <1>2. PlacesOK(n)
    BY <1>1 DEF RoomOK, PlacesOK, IsAdmitted
  <1>3. QED
    BY <1>1, <1>2, GivenOK DEF n

\* Whatever order is accepted, from whoever moderates, leaves the room consistent:
\* who is kept out is not in it, who is in it is admitted, hands, floor, spotlight
\* and small rooms belong to people admitted, and no guest moderates.
THEOREM OrderedOK ==
    ASSUME NEW r, RoomOK(r), NEW a, NEW role, NEW o \in Order, MayOrder(r, a, role, o)
    PROVE  RoomOK(Ordered(r, o))
  <1> DEFINE t == o.type
  <1>0. r \in Room
    BY DEF RoomOK
  <1>1. CASE t = "admit"
    <2>1. o.who \in People /\ Waiting(r, o.who)
      BY <1>1, OrderShape DEF MayOrder
    <2>2. {o.who} \in SUBSET People /\ \A p \in {o.who} : Waiting(r, p)
      BY <2>1
    <2>3. RoomOK(AdmitWaiting(r, {o.who}))
      BY <2>2, AdmitWaitingOK
    <2>4. QED
      BY <1>1, <2>3 DEF Ordered
  <1>2. CASE t = "deny"
    BY <1>2, OrderShape, DenyOK DEF Ordered
  <1>3. CASE t = "admit_all"
    <2>1. RoomOK(AdmitWaiting(r, {p \in People : Waiting(r, p)}))
      BY AdmitWaitingOK
    <2>2. QED
      BY <1>3, <2>1 DEF Ordered
  <1>4. CASE t = "mute"
    BY <1>4, OrderShape, MuteOK DEF Ordered
  <1>5. CASE t = "mute_all"
    BY <1>5, OrderShape, MuteAllOK DEF Ordered
  <1>6. CASE t = "allow_unmute"
    BY <1>6, AllowUnmuteOK DEF Ordered
  <1>7. CASE t = "kick"
    BY <1>7, OrderShape, ExpelOK DEF Ordered
  <1>8. CASE t = "lock"
    BY <1>8, OrderShape, LockOK DEF Ordered
  <1>9. CASE t = "grant_floor"
    <2>1. RoomOK([r EXCEPT !.floor = o.who])
      BY <1>9, OrderShape, FloorOK DEF MayOrder
    <2>2. RoomOK(LowerHands([r EXCEPT !.floor = o.who], {o.who}))
      BY <2>1, LowerOK
    <2>3. QED
      BY <1>9, <2>2 DEF Ordered
  <1>10. CASE t = "revoke_floor"
    <2> DEFINE p == IF r.floor = o.who THEN NoOne ELSE r.floor
    <2>1. p # NoOne => p \in People /\ IsAdmitted(r, p)
      BY <1>0 DEF RoomOK, PlacesOK, Room
    <2>2. Ordered(r, o) = [r EXCEPT !.floor = p]
      BY <1>10 DEF Ordered
    <2> HIDE DEF p
    <2>3. QED
      BY <2>1, <2>2, FloorOK
  <1>11. CASE t = "lower_hand"
    BY <1>11, LowerOK DEF Ordered
  <1>12. CASE t = "lower_all_hands"
    BY <1>12, LowerOK DEF Ordered
  <1>13. CASE t = "spotlight"
    BY <1>13, OrderShape, SpotlightOK DEF Ordered, MayOrder
  <1>14. CASE t = "set_role"
    <2>1. MaySetRole(r, role, o.who, o.role)
      BY <1>14 DEF MayOrder
    <2>2. RoomOK(SetRole(r, o.who, o.role))
      BY <2>1, <1>14, OrderShape, SetRoleOK
    <2>3. QED
      BY <1>14, <2>2 DEF Ordered
  <1>15. CASE t = "breakouts_open"
    <2>1. /\ o.places \in [Smalls -> SUBSET People]
          /\ \A s \in Smalls : \A p \in o.places[s] : IsAdmitted(r, p)
      BY <1>15, OrderShape DEF MayOrder, MayOpenBreakouts
    <2>2. RoomOK([r EXCEPT !.stage = "open", !.places = o.places])
      BY <2>1, StageOK
    <2>3. QED
      BY <1>15, <2>2 DEF Ordered
  <1>16. CASE t = "breakouts_close"
    <2>1. /\ r.places \in [Smalls -> SUBSET People]
          /\ \A s \in Smalls : \A p \in r.places[s] : IsAdmitted(r, p)
      BY <1>0 DEF RoomOK, PlacesOK, Room
    <2>2. RoomOK([r EXCEPT !.stage = "closing", !.places = r.places])
      BY <2>1, StageOK
    <2>3. [r EXCEPT !.stage = "closing", !.places = r.places] = [r EXCEPT !.stage = "closing"]
      BY <1>0 DEF Room
    <2>4. QED
      BY <1>16, <2>2, <2>3 DEF Ordered
  <1>17. CASE t = "end"
    BY <1>17 DEF Ordered
  <1>18. QED
    BY <1>1, <1>2, <1>3, <1>4, <1>5, <1>6, <1>7, <1>8, <1>9, <1>10, <1>11, <1>12, <1>13,
       <1>14, <1>15, <1>16, <1>17, OrderShape
=============================================================================
