------------------------------ MODULE CallState ------------------------------
(***************************************************************************)
(* The state machine of a chat call (src/imperium/call-state.ts): given    *)
(* the call that was read and an event, the call that follows and the      *)
(* effects the flow runs once it is written.  Pure operators, no state.    *)
(*                                                                         *)
(* A call has one leg per person.  A leg keeps the tab (leg_id) that       *)
(* answered only while it is joined: the code never reads the device of    *)
(* any other leg.  Times are left out; `due' says that the ring window had *)
(* passed at the instant the event was handled.  Only `create' makes legs  *)
(* ring and it invites all of them at one instant, so they fall due        *)
(* together and the branch that re-arms the timer for the rest is empty.   *)
(***************************************************************************)
EXTENDS Naturals, FiniteSets

CONSTANTS
    Users,      \* people
    Tabs,       \* leg ids: the browser tabs a person may answer from
    NoTab,      \* the device of a leg nobody has joined
    Convs,      \* conversations
    MaxLegs,    \* MAX_LEGS
    MeshMax,    \* settings.mesh_max
    ClassMax,   \* settings.class_max
    Sfu         \* is there a media server?

ASSUME TabAssumption == NoTab \notin Tabs
ASSUME LimitAssumption ==
    /\ MaxLegs \in Nat \ {0}
    /\ MeshMax \in Nat \ {0}
    /\ ClassMax \in Nat
    /\ Sfu \in BOOLEAN

LegStates == {"none", "ringing", "joined", "left", "declined", "missed", "cancelled"}
Kinds == {"direct", "group"}
Topologies == {"mesh", "star", "sfu"}
Reasons == {"completed", "declined", "no_answer", "cancelled", "busy",
            "ended_by_host", "interrupted"}
Outcomes == {"completed", "missed", "declined", "cancelled", "busy", "failed"}

Leg == [st : LegStates, tab : Tabs \cup {NoTab}, busy : BOOLEAN]
Call == [state : {"ringing", "active", "ended"}, v : Nat, kind : Kinds,
         topology : Topologies, conv : Convs, initiator : Users,
         legs : [Users -> Leg], answered : BOOLEAN,
         reason : Reasons \cup {"none"}]

Joined(call) == {u \in Users : call.legs[u].st = "joined"}
Ringing(call) == {u \in Users : call.legs[u].st = "ringing"}
\* participant_ids: everyone who ever had a leg.
Participants(call) == {u \in Users : call.legs[u].st # "none"}
Live(call) == call.state \in {"ringing", "active"}
AtMostOne(S) == \A a, b \in S : a = b

Outcome(reason) ==
    CASE reason \in {"completed", "ended_by_host"} -> "completed"
      [] reason = "no_answer" -> "missed"
      [] reason = "interrupted" -> "failed"
      [] OTHER -> reason

(***************************************************************************)
(* The effects of a transition, in the order run_effects runs them: the    *)
(* update (emit), the ring timer, the grace timers that stop, the person   *)
(* who leaves their other calls, the message with its missed notices, and  *)
(* whose attendance is saved.                                              *)
(***************************************************************************)
Effects == [ring : {"keep", "start", "clear"}, calm : SUBSET Users,
            others : SUBSET Users, message : Outcomes \cup {"none"},
            notify : SUBSET Users, attend : SUBSET Users]
EmitOnly == [ring |-> "keep", calm |-> {}, others |-> {}, message |-> "none",
             notify |-> {}, attend |-> {}]

Result == [code : {"done", "same", "refused"}, call : Call, fx : Effects]
Done(call, fx) == [code |-> "done", call |-> call, fx |-> fx]
Same(call) == [code |-> "same", call |-> call, fx |-> EmitOnly]
Refused(call) == [code |-> "refused", call |-> call, fx |-> EmitOnly]

\* The legs of S move to state st; a leg that is not joined has no tab.
MoveLegs(legs, S, st) ==
    [u \in Users |-> IF u \in S THEN [legs[u] EXCEPT !.st = st, !.tab = NoTab] ELSE legs[u]]

DecideTopology(joinedNext) ==
    CASE Sfu /\ joinedNext >= 3   -> "sfu"
      [] joinedNext <= MeshMax    -> "mesh"
      [] joinedNext <= ClassMax   -> "star"
      [] OTHER                    -> "room_full"

\* Mutant: the media server is left when the call shrinks.
NextTopologyShrinks(call) ==
    IF call.kind = "direct" THEN "mesh" ELSE DecideTopology(Cardinality(Joined(call)) + 1)

NextTopology(call) ==
    LET decided == DecideTopology(Cardinality(Joined(call)) + 1) IN
    CASE call.kind = "direct" -> "mesh"
      [] call.kind # "direct" /\ call.topology = "sfu" /\ decided # "room_full" -> "sfu"
      [] OTHER -> decided

\* Mutant: whoever talked and left counts as having missed the call.
MissedOrLeft(call, legs) ==
    {u \in Users \ {call.initiator} : legs[u].st \in {"missed", "cancelled", "left"}}

Missed(call, legs) ==
    {u \in Users \ {call.initiator} : legs[u].st \in {"missed", "cancelled"}}

Finish(call, reason, ringingTo) ==
    LET present == Joined(call)
        legs    == MoveLegs(MoveLegs(call.legs, present, "left"), Ringing(call), ringingTo)
    IN Done([call EXCEPT !.legs = legs, !.state = "ended", !.reason = reason],
            [ring |-> "clear", calm |-> present, others |-> {},
             message |-> Outcome(reason),
             notify |-> IF call.kind = "direct" THEN Missed(call, legs) ELSE {},
             attend |-> present])

NewCall(conv, kind, initiator, tab, invitees, busy) ==
    [state |-> "ringing", v |-> 0, kind |-> kind, topology |-> "mesh", conv |-> conv,
     initiator |-> initiator, answered |-> FALSE, reason |-> "none",
     legs |-> [u \in Users |->
        [st   |-> IF u = initiator THEN "joined" ELSE IF u \in invitees THEN "ringing" ELSE "none",
         tab  |-> IF u = initiator THEN tab ELSE NoTab,
         busy |-> u \in (invitees \ {initiator}) \cap busy]]]

(***************************************************************************)
(* Answering (accept) or entering a group call (join): the first tab of    *)
(* each person wins.                                                       *)
(***************************************************************************)

\* Mutant: an ended call can still be answered.
NeverTooLate(call) == FALSE
TooLate(call) == call.state = "ended"

AnswerRefused(call, ev) ==
    LET leg == call.legs[ev.user] IN
    \/ TooLate(call)
    \/ leg.st = "joined" /\ leg.tab # ev.tab
    \/ /\ leg.st # "joined"
       /\ \/ leg.st # "ringing" /\ (ev.type = "accept" \/ call.kind = "direct")
          \/ leg.st = "none" /\ Cardinality(Participants(call)) >= MaxLegs
          \/ NextTopology(call) = "room_full"

Answer(call, ev) ==
    LET leg  == call.legs[ev.user]
        legs == [call.legs EXCEPT ![ev.user] = [st |-> "joined", tab |-> ev.tab, busy |-> FALSE]]
        next == [call EXCEPT !.legs = legs, !.topology = NextTopology(call),
                             !.state = "active", !.answered = TRUE]
    IN IF AnswerRefused(call, ev) THEN Refused(call)
       ELSE IF leg.st = "joined" THEN Same(call)
       ELSE Done(next, [EmitOnly EXCEPT
                !.ring = IF Ringing(next) = {} THEN "clear" ELSE "keep",
                !.others = IF leg.busy THEN {ev.user} ELSE {}])

DeclineEnds(call) ==
    \/ call.kind = "direct"
    \/ call.state = "ringing" /\ Ringing(call) = {} /\ AtMostOne(Joined(call))

Decline(call, ev) ==
    LET next == [call EXCEPT !.legs = MoveLegs(call.legs, {ev.user}, "declined")]
    IN IF call.state = "ended" \/ call.legs[ev.user].st # "ringing" THEN Refused(call)
       ELSE IF DeclineEnds(next) THEN Finish(next, "declined", "cancelled")
       ELSE Done(next, [EmitOnly EXCEPT !.ring = IF Ringing(next) = {} THEN "clear" ELSE "keep"])

\* Mutant: a direct call goes on with one person in it.
OverWhenEmpty(call, remaining) == remaining = {}
Over(call, remaining) == IF call.kind = "direct" THEN AtMostOne(remaining) ELSE remaining = {}

ExitEffects(gone) == [EmitOnly EXCEPT !.calm = gone, !.attend = gone]

(***************************************************************************)
(* The joined legs of `gone' leave.  In a direct call nobody is left to    *)
(* talk to; a group call is over when it is empty.  finish counts whoever  *)
(* has just left among those present, so it may take the call as it was.   *)
(***************************************************************************)
Exit(call, gone, network) ==
    LET remaining == Joined(call) \ gone
        reason    == CASE call.state = "ringing" -> "cancelled"
                       [] call.state # "ringing" /\ network -> "interrupted"
                       [] OTHER -> "completed"
    IN IF Over(call, remaining) THEN Finish(call, reason, "cancelled")
       ELSE Done([call EXCEPT !.legs = MoveLegs(call.legs, gone, "left")],
                 ExitEffects(gone))

\* Mutant: any tab of the person can leave for the one that answered.
AnyLeg(call, ev) == call.legs[ev.user].st = "joined"
OwnLeg(call, ev) == call.legs[ev.user].st = "joined" /\ call.legs[ev.user].tab = ev.tab

Leave(call, ev) ==
    IF call.state = "ended" \/ ~OwnLeg(call, ev) THEN Same(call)
    ELSE Exit(call, {ev.user}, ev.network)

RingTimeout(call, due) ==
    LET busy == \E u \in Ringing(call) : call.legs[u].busy
        next == [call EXCEPT !.legs = MoveLegs(call.legs, Ringing(call), "missed")]
    IN IF call.state = "ended" \/ ~due \/ Ringing(call) = {} THEN Same(call)
       ELSE IF call.state = "ringing" /\ AtMostOne(Joined(call))
            THEN Finish(next, IF call.kind = "direct" /\ busy THEN "busy" ELSE "no_answer", "missed")
       ELSE Done(next, EmitOnly)

(***************************************************************************)
(* The sweep: what rang too long, the joined legs in `stale', and a call   *)
(* with nobody in it.  Taking the stale legs out one by one, as the code   *)
(* does, ends in the same call with the same effects as all at once.       *)
(***************************************************************************)
Sweep(call, ev) ==
    LET rung == RingTimeout(call, ev.due)
        gone == ev.stale \cap Joined(rung.call)
    IN IF rung.call.state = "ended" THEN rung
       ELSE IF gone # {} THEN Exit(rung.call, gone, TRUE)
       ELSE IF Joined(rung.call) = {} THEN Finish(rung.call, "interrupted", "cancelled")
       ELSE rung

Cancel(call, ev) ==
    IF call.initiator # ev.user \/ call.state # "ringing" THEN Refused(call)
    ELSE Finish(call, "cancelled", "cancelled")

EndForAll(call, ev) ==
    IF call.state = "ended" THEN Same(call)
    ELSE IF call.kind = "direct" \/ call.initiator # ev.user THEN Refused(call)
    ELSE Finish(call, "ended_by_host", "cancelled")

Event ==
    [type : {"accept", "join", "decline"}, user : Users, tab : Tabs]
        \cup [type : {"leave"}, user : Users, tab : Tabs, network : BOOLEAN]
        \cup [type : {"cancel", "end"}, user : Users]
        \cup [type : {"ring_timeout"}, due : BOOLEAN]
        \cup [type : {"sweep"}, due : BOOLEAN, stale : SUBSET Users]

Transition(call, ev) ==
    CASE ev.type \in {"accept", "join"} -> Answer(call, ev)
      [] ev.type = "decline"            -> Decline(call, ev)
      [] ev.type = "leave"              -> Leave(call, ev)
      [] ev.type = "cancel"             -> Cancel(call, ev)
      [] ev.type = "end"                -> EndForAll(call, ev)
      [] ev.type = "ring_timeout"       -> RingTimeout(call, ev.due)
      [] OTHER                          -> Sweep(call, ev)
-----------------------------------------------------------------------------
(***************************************************************************)
(* What a call says hangs together: it rings while only whoever started it *)
(* is in and somebody still rings; an active one has somebody in it, and a *)
(* direct one both; an ended one has nobody in it nor ringing.             *)
(***************************************************************************)
RingingOK(call) == call.state = "ringing" =>
    Joined(call) = {call.initiator} /\ Ringing(call) # {} /\ ~call.answered
ActiveOK(call) == call.state = "active" =>
    /\ Joined(call) # {} /\ call.answered
    /\ call.kind = "direct" => Joined(call) = Participants(call)
EndedOK(call) == call.state = "ended" => Joined(call) = {} /\ Ringing(call) = {}
ReasonOK(call) == (call.reason = "none") <=> Live(call)
TabOK(call) == \A u \in Users : (call.legs[u].st = "joined") <=> (call.legs[u].tab # NoTab)
DirectOK(call) == call.kind = "direct" => AtMostOne(Participants(call) \ {call.initiator})
CallOK(call) == RingingOK(call) /\ ActiveOK(call) /\ EndedOK(call) /\ ReasonOK(call)
                /\ TabOK(call) /\ DirectOK(call)
=============================================================================
