---------------------------- MODULE MeetingDoor ----------------------------
(***************************************************************************)
(* What a meeting promises at its doors, without requests that wait,       *)
(* media, hands, timers or faults: who may be in each room and as what.    *)
(* People come to the main room at once, by an order or because somebody   *)
(* who moderates has arrived; they sit with the role they have, change it  *)
(* and go out only by the word of one who sat as a moderator; to another   *)
(* room they go with the role they had when the people were parted; and    *)
(* the meeting ends by the word of a host or deserted.                     *)
(***************************************************************************)
CONSTANTS
    People, Guests, Host,
    NeedApproval,       \* people somebody has to let in
    Tabs, OwnerOf,
    Rooms, Main

Moderators == {"host", "cohost"}

VARIABLES
    role, wait, barred,  \* of each room: who is what, waits for what, is kept out
    seat,                \* of each room: the role each tab sits with
    errands              \* what was said, seen or begun and still has to be done

doors == <<role, wait, barred, seat>>
vars == <<doors, errands>>

Word(r, a) == [is |-> "word", room |-> r, of |-> a]
Going(p, block) == [is |-> "going", who |-> p, block |-> block]
Parting(as) == [is |-> "parting", roles |-> as]
Arrival == [is |-> "arrival"]
Deserted(r) == [is |-> "deserted", room |-> r]
Over(r) == [is |-> "over", room |-> r]

Said(r, by) == \E a \in by : Word(r, a) \in errands
\* Any errand may be done with or forgotten; no other begins but these.
Goes(new) == errands' \subseteq errands \cup new

Init ==
    /\ role = [r \in Rooms |-> [p \in People |-> "none"]] /\ wait = role
    /\ barred = [r \in Rooms |-> {}]
    /\ seat = [r \in Rooms |-> [t \in Tabs |-> "none"]]
    /\ errands = {}

MayBe(p) ==
    IF p \in Guests THEN {"guest"} ELSE IF p = Host THEN {"host"} ELSE {"cohost", "participant"}
Lowest(p) == IF p \in Guests THEN "guest" ELSE "participant"

\* A room nobody is in may open with people kept out of it.
Empty(r) ==
    /\ \A p \in People : role[r][p] = "none" /\ wait[r][p] = "none"
    /\ \A t \in Tabs : seat[r][t] = "none"
Opens(r) ==
    \/ barred' = barred
    \/ /\ Empty(r) /\ Host \notin barred'[r] /\ barred'[r] \subseteq People
       /\ barred' = [barred EXCEPT ![r] = barred'[r]]
Open(r) == Opens(r) /\ UNCHANGED <<role, wait, seat>> /\ Goes({})

Knock(p) ==
    /\ role[Main][p] = "none" /\ Opens(Main) /\ p \notin barred'[Main]
    /\ wait' = [wait EXCEPT ![Main][p] = IF p \in NeedApproval THEN "approval" ELSE "host"]
    /\ UNCHANGED <<role, seat>> /\ Goes({})
Quit(r, p) ==
    /\ wait[r][p] # "none" /\ wait' = [wait EXCEPT ![r][p] = "none"]
    /\ UNCHANGED <<role, barred, seat>> /\ Goes({})

Comes(r, who, as) ==
    /\ who \cap barred[r] = {}
    /\ role' = [role EXCEPT ![r] = [p \in People |-> IF p \in who THEN as[p] ELSE @[p]]]
    /\ wait' = [wait EXCEPT ![r] = [p \in People |-> IF p \in who THEN "none" ELSE @[p]]]
    /\ UNCHANGED <<barred, seat>>
Enter(p, as) ==
    /\ p \in NeedApproval => as \in Moderators
    /\ Comes(Main, {p}, [x \in {p} |-> as])
    /\ Goes(IF as \in Moderators THEN {Arrival} ELSE {})
\* Who only waits for the host comes in when one who moderates arrives ...
Welcome(p) ==
    /\ Arrival \in errands /\ wait[Main][p] # "none" /\ p \notin NeedApproval
    /\ Comes(Main, {p}, [x \in {p} |-> Lowest(x)]) /\ Goes({})
\* ... and who needs approval, by an order.
Admit(r, who) ==
    /\ Said(r, Moderators) /\ \A p \in who : wait[r][p] # "none"
    /\ Comes(r, who, [p \in who |-> Lowest(p)]) /\ Goes({})
Place(r, who, as) ==
    /\ Parting(as) \in errands /\ \A p \in who : as[p] # "none"
    /\ Comes(r, who, as) /\ Goes({})

\* Only the word of a host makes a cohost, or a cohost something else.
Appoint(r, p, new) ==
    /\ role[r][p] \notin {"none", "host"}
    /\ new = "cohost" => p \notin Guests
    /\ Said(r, IF "cohost" \in {role[r][p], new} THEN {"host"} ELSE Moderators)
    /\ role' = [role EXCEPT ![r][p] = new]
    /\ seat' = [seat EXCEPT ![r] =
            [t \in Tabs |-> IF OwnerOf[t] = p /\ @[t] # "none" THEN new ELSE @[t]]]
    /\ UNCHANGED <<wait, barred>> /\ Goes({})

GoesOut(r, p, block) ==
    /\ role' = [role EXCEPT ![r][p] = "none"] /\ wait' = [wait EXCEPT ![r][p] = "none"]
    /\ seat' = [seat EXCEPT ![r] = [t \in Tabs |-> IF OwnerOf[t] = p THEN "none" ELSE @[t]]]
    /\ barred' = [barred EXCEPT ![r] = IF block THEN @ \cup {p} ELSE @]
Expel(r, p, block) ==
    /\ p # Host /\ Said(r, IF role[r][p] = "cohost" THEN {"host"} ELSE Moderators)
    /\ GoesOut(r, p, block) /\ Goes({Going(p, block)})
ExpelToo(r, p, block) == Going(p, block) \in errands /\ GoesOut(r, p, block) /\ Goes({})

Sit(r, t) ==
    /\ role[r][OwnerOf[t]] # "none" /\ OwnerOf[t] \notin barred[r]
    /\ seat' = [seat EXCEPT ![r][t] = role[r][OwnerOf[t]]]
    /\ UNCHANGED <<role, wait, barred>> /\ Goes({})
\* A tab leaves one room, or all of them.
Rise(t) ==
    /\ \E r \in Rooms : seat[r][t] # "none"
    /\ seat' = [r \in Rooms |-> IF seat'[r][t] = "none" THEN [seat[r] EXCEPT ![t] = "none"]
                               ELSE seat[r]]
    /\ UNCHANGED <<role, wait, barred>> /\ Goes({})

Close(r) ==
    /\ Over(r) \in errands
    /\ role' = [role EXCEPT ![r] = [p \in People |-> "none"]]
    /\ wait' = [wait EXCEPT ![r] = [p \in People |-> "none"]]
    /\ barred' = [barred EXCEPT ![r] = {}]
    /\ seat' = [seat EXCEPT ![r] = [t \in Tabs |-> "none"]] /\ Goes({})

\* What is said, seen or begun.  An edit of the list of cohosts is the word of the host.
Speak(r, t) == seat[r][t] \in Moderators /\ Goes({Word(r, seat[r][t])})
Edit == Goes({Word(r, "host") : r \in Rooms})
Part(r) == Said(r, Moderators) /\ Goes({Parting(role[r])})
Desert(r) ==
    /\ (\A p \in People : wait[r][p] = "none") /\ \A t \in Tabs : seat[r][t] = "none"
    /\ Goes({Deserted(r)})
End(r) ==
    /\ r = Main => Said(r, {"host"}) \/ Deserted(r) \in errands
    /\ Goes({Over(r)})

Next ==
    \/ /\ UNCHANGED doors
       /\ \/ Goes({}) \/ Edit
          \/ \E r \in Rooms : Part(r) \/ Desert(r) \/ End(r) \/ \E t \in Tabs : Speak(r, t)
    \/ \E t \in Tabs : Rise(t) \/ \E r \in Rooms : Sit(r, t)
    \/ \E r \in Rooms : Open(r) \/ Close(r)
    \/ \E p \in People : Knock(p) \/ Welcome(p) \/ \E as \in MayBe(p) : Enter(p, as)
    \/ \E r \in Rooms, p \in People :
        \/ Quit(r, p) \/ \E new \in {"cohost", "presenter", Lowest(p)} : Appoint(r, p, new)
        \/ \E block \in BOOLEAN : Expel(r, p, block) \/ ExpelToo(r, p, block)
    \/ \E r \in Rooms, who \in SUBSET People :
        Admit(r, who) \/ \E e \in errands : e.is = "parting" /\ Place(r, who, e.roles)

Spec == Init /\ [][Next]_vars
=============================================================================
