---------------------------- MODULE MeetingRoom ----------------------------
(***************************************************************************)
(* One room of a meeting and the commands it takes                         *)
(* (src/imperium/call-room.ts, apply_room_command): pure operators from a  *)
(* room to a room, each with the condition under which it is accepted.     *)
(* Camera, screen, board, signals, captions and the notice of a recording  *)
(* have the guards of the microphone or no guard, and are left out; the    *)
(* hands are a set, their order being that of the server's clock.          *)
(***************************************************************************)
EXTENDS Naturals, FiniteSets

CONSTANTS
    People, Guests, NoOne,
    Legs, OwnerOf,      \* the tabs and whose they are
    Smalls              \* ids of the breakout rooms

ASSUME RoomAssumption ==
    /\ Guests \subseteq People /\ NoOne \notin People
    /\ OwnerOf \in [Legs -> People]

NoRole == "none"
Roles == {"host", "cohost", "presenter", "participant", "guest"}
Staff == {"host", "cohost"}
Reasons == {"host", "approval"}
SpotlightMax == 9

\* A leg out of the room is a leg with no role in it.
Member == [role : Roles \cup {NoRole}, mic : BOOLEAN, hard : BOOLEAN, hand : BOOLEAN]
NoMember == [role |-> NoRole, mic |-> FALSE, hard |-> FALSE, hand |-> FALSE]

Room == [small : BOOLEAN, members : [Legs -> Member], allow : BOOLEAN, locked : BOOLEAN,
         floor : People \cup {NoOne}, spotlight : SUBSET People, hands : SUBSET People,
         admitted : [People -> Roles \cup {NoRole}], lobby : [People -> Reasons \cup {NoRole}],
         blocked : SUBSET People,
         stage : {"none", "open", "closing"}, places : [Smalls -> SUBSET People]]

NewRoom == [small |-> FALSE, members |-> [l \in Legs |-> NoMember], allow |-> TRUE,
            locked |-> FALSE, floor |-> NoOne, spotlight |-> {}, hands |-> {},
            admitted |-> [p \in People |-> NoRole], lobby |-> [p \in People |-> NoRole],
            blocked |-> {}, stage |-> "none", places |-> [s \in Smalls |-> {}]]

Attached(r, l) == r.members[l].role # NoRole
LegsIn(r, p) == {l \in Legs : OwnerOf[l] = p /\ Attached(r, l)}
IsAdmitted(r, p) == r.admitted[p] # NoRole
Waiting(r, p) == r.lobby[p] # NoRole
AdmittedStaff(r) == {p \in People : r.admitted[p] \in Staff}

-----------------------------------------------------------------------------
(* What anyone may ask of the room *)

\* Mutant: who is kept out may wait.
MayEnterAnyway(r, p) == TRUE
MayEnter(r, p) == p \notin r.blocked

\* Mutant: reconnecting lifts the silence.
SilencedNever(r, role) == FALSE
EntersSilenced(r, role) == ~r.allow /\ role \notin Staff

Attach(r, l, role, mic) ==
    LET hard == EntersSilenced(r, role) IN
    IF Attached(r, l) THEN r
    ELSE [r EXCEPT !.members[l] = [role |-> role, mic |-> mic /\ ~hard, hard |-> hard,
                                   hand |-> OwnerOf[l] \in r.hands]]

WithLegsOf(r, who, change) ==
    [r EXCEPT !.members = [l \in Legs |->
        IF OwnerOf[l] \in who /\ Attached(r, l) THEN change[@[l]] ELSE @[l]]]

HandDown == [m \in Member |-> [m EXCEPT !.hand = FALSE]]
LowerHands(r, who) ==
    WithLegsOf([r EXCEPT !.hands = @ \ who], who, HandDown)

\* Mutant: the hand stays up.
DetachOnly(r, l) == [r EXCEPT !.members[l] = NoMember]
Detach(r, l) ==
    LET left == [r EXCEPT !.members[l] = NoMember]
        p == OwnerOf[l] IN
    IF Attached(r, l) /\ LegsIn(left, p) = {} THEN LowerHands(left, {p}) ELSE left

MaySpeak(r, l, mic) == Attached(r, l) /\ (mic => ~r.members[l].hard)
Media(r, l, mic) == [r EXCEPT !.members[l].mic = mic]

Wait(r, p, reason) == IF IsAdmitted(r, p) THEN r ELSE [r EXCEPT !.lobby[p] = reason]

AdmitPerson(r, p, role) == [r EXCEPT !.admitted[p] = role, !.lobby[p] = NoRole]
AdmitEach(r, who, role) ==
    [r EXCEPT !.admitted = [p \in People |-> IF p \in who THEN role[p] ELSE @[p]],
              !.lobby = [p \in People |-> IF p \in who THEN NoRole ELSE @[p]]]

LegsOut(r, p) == [l \in Legs |-> IF OwnerOf[l] = p THEN NoMember ELSE r.members[l]]
Leave(r, p) ==
    IF LegsIn(r, p) = {} /\ ~Waiting(r, p) THEN r
    ELSE [r EXCEPT !.members = LegsOut(r, p), !.lobby[p] = NoRole, !.hands = @ \ {p}]

HandUp == [m \in Member |-> [m EXCEPT !.hand = TRUE]]
RaiseHand(r, l) ==
    LET p == OwnerOf[l] IN
    IF p \in r.hands THEN r ELSE WithLegsOf([r EXCEPT !.hands = @ \cup {p}], {p}, HandUp)

\* Mutant: the floor, the spotlight and the small room are kept.
ExpelFromRoom(r, p, block) ==
    [r EXCEPT !.members = LegsOut(r, p), !.admitted[p] = NoRole, !.lobby[p] = NoRole,
              !.hands = @ \ {p}, !.blocked = IF block THEN @ \cup {p} ELSE @]
\* Nothing to take from who is not known here, except their place in a small room.
Expel(r, p, block) ==
    [r EXCEPT !.members = LegsOut(r, p), !.admitted[p] = NoRole, !.lobby[p] = NoRole,
              !.hands = @ \ {p}, !.spotlight = @ \ {p},
              !.floor = IF @ = p THEN NoOne ELSE @,
              !.blocked = IF block THEN @ \cup {p} ELSE @,
              !.places = [s \in Smalls |-> @[s] \ {p}]]

EndBreakouts(r) == [r EXCEPT !.stage = "none", !.places = [s \in Smalls |-> {}]]
Tick(r) ==
    IF r.stage = "open" THEN [r EXCEPT !.stage = "closing"] ELSE EndBreakouts(r)

-----------------------------------------------------------------------------
(* What whoever moderates may order (host_command) *)

Order ==
    [type : {"admit", "deny", "grant_floor", "revoke_floor", "lower_hand"}, who : People]
    \cup [type : {"mute"}, who : People, first : Legs]   \* first: of the tabs of who in the room
    \cup [type : {"admit_all", "allow_unmute", "lower_all_hands", "breakouts_close", "end"}]
    \cup [type : {"mute_all"}, allow : BOOLEAN]
    \cup [type : {"kick"}, who : People, block : BOOLEAN]
    \cup [type : {"lock"}, locked : BOOLEAN]
    \cup [type : {"spotlight"}, keys : SUBSET People]
    \cup [type : {"set_role"}, who : People, role : {"cohost", "presenter", "participant"}]
    \cup [type : {"breakouts_open"}, places : [Smalls -> SUBSET People]]

\* Mutant: a cohost may act on anybody.
Touchable(r, a, role, p) == FALSE
\* Nobody acts on the host, nor a cohost on another.
Untouchable(r, a, role, p) ==
    p # a /\ (r.admitted[p] = "host" \/ (role = "cohost" /\ r.admitted[p] = "cohost"))

MayOpenBreakouts(r, a, role, places) ==
    /\ ~r.small /\ r.stage = "none" /\ Smalls # {}
    /\ \A s \in Smalls : \A p \in places[s] :
        /\ IsAdmitted(r, p) /\ ~Untouchable(r, a, role, p)
        /\ \A t \in Smalls \ {s} : p \notin places[t]

MaySetRole(r, role, p, new) ==
    /\ r.admitted[p] \notin {NoRole, "host"}
    /\ new = "cohost" => role = "host" /\ p \notin Guests
    /\ r.admitted[p] = "cohost" => role = "host"

MayOrder(r, a, role, o) ==
    /\ role \in Staff
    /\ "who" \in DOMAIN o => ~Untouchable(r, a, role, o.who)
    /\ o.type \in {"admit", "deny"} => Waiting(r, o.who)
    /\ o.type = "mute" => o.first \in LegsIn(r, o.who)
    /\ o.type = "kick" =>
        o.who # a /\ (LegsIn(r, o.who) # {} \/ Waiting(r, o.who) \/ IsAdmitted(r, o.who))
    /\ o.type \in {"grant_floor", "revoke_floor"} => IsAdmitted(r, o.who)
    /\ o.type = "spotlight" =>
        Cardinality(o.keys) <= SpotlightMax /\ \A p \in o.keys : IsAdmitted(r, p)
    /\ o.type = "set_role" => MaySetRole(r, role, o.who, o.role)
    /\ o.type = "breakouts_open" => MayOpenBreakouts(r, a, role, o.places)
    /\ o.type = "breakouts_close" => r.stage # "none"
    /\ o.type = "end" => role = "host"

\* Who waits is never staff: the role they will have.
WaitingRole(p) == IF p \in Guests THEN "guest" ELSE "participant"
\* Mutant: what they waited for becomes their role.
AdmitForReason(r, who) ==
    [r EXCEPT !.admitted = [p \in People |-> IF p \in who THEN r.lobby[p] ELSE @[p]],
              !.lobby = [p \in People |-> IF p \in who THEN NoRole ELSE @[p]]]
AdmitWaiting(r, who) == AdmitEach(r, who, [p \in who |-> WaitingRole(p)])

SilenceAs(hard, m) == [m EXCEPT !.mic = FALSE, !.hard = hard]
\* The role that counts is that of the first of their tabs.
Mute(r, p, first) ==
    LET hard == ~r.allow /\ r.members[first].role \notin Staff
    IN  WithLegsOf(r, {p}, [m \in Member |-> SilenceAs(hard, m)])

MuteAll(r, allow) ==
    LET Silenced == [m \in Member |->
            IF m.role \in Staff THEN m ELSE SilenceAs(~allow, m)]
    IN  WithLegsOf([r EXCEPT !.allow = allow], People, Silenced)

AllowUnmute(r) ==
    WithLegsOf([r EXCEPT !.allow = TRUE], People, [m \in Member |-> [m EXCEPT !.hard = FALSE]])

SetRole(r, p, new) ==
    LET role == IF new = "participant" /\ p \in Guests THEN "guest" ELSE new
    IN  WithLegsOf(AdmitPerson(r, p, role), {p}, [m \in Member |-> [m EXCEPT !.role = role]])

Ordered(r, o) ==
    CASE o.type = "admit"        -> AdmitWaiting(r, {o.who})
      [] o.type = "deny"         -> [r EXCEPT !.lobby[o.who] = NoRole]
      [] o.type = "admit_all"    -> AdmitWaiting(r, {p \in People : Waiting(r, p)})
      [] o.type = "mute"         -> Mute(r, o.who, o.first)
      [] o.type = "mute_all"     -> MuteAll(r, o.allow)
      [] o.type = "allow_unmute" -> AllowUnmute(r)
      [] o.type = "kick"         -> Expel(r, o.who, o.block)
      [] o.type = "lock"         -> [r EXCEPT !.locked = o.locked]
      [] o.type = "grant_floor"  -> LowerHands([r EXCEPT !.floor = o.who], {o.who})
      [] o.type = "revoke_floor" -> [r EXCEPT !.floor = IF @ = o.who THEN NoOne ELSE @]
      [] o.type = "lower_hand"   -> LowerHands(r, {o.who})
      [] o.type = "lower_all_hands" -> LowerHands(r, r.hands)
      [] o.type = "spotlight"    -> [r EXCEPT !.spotlight = o.keys]
      [] o.type = "set_role"     -> SetRole(r, o.who, o.role)
      [] o.type = "breakouts_open"  -> [r EXCEPT !.stage = "open", !.places = o.places]
      [] o.type = "breakouts_close" -> [r EXCEPT !.stage = "closing"]
      [] o.type = "end"          -> r
=============================================================================
