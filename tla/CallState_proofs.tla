--------------------------- MODULE CallState_proofs ---------------------------
(***************************************************************************)
(* What CallState!Transition does to any call and any event: its result is *)
(* well formed, it keeps a call that hangs together so, and it changes     *)
(* nothing that a caller relies on.                                        *)
(***************************************************************************)
EXTENDS CallState, TLAPS

\* What a transition does to the call it was given, whatever the event.
Keeps(call, r) ==
    /\ r \in Result /\ CallOK(r.call)
    /\ r.call.v = call.v /\ r.call.conv = call.conv
    /\ \A u \in Joined(call) \cap Joined(r.call) : r.call.legs[u].tab = call.legs[u].tab
    /\ r.code = "done" => Live(call)

\* Moving legs leaves them well formed.
LEMMA MoveLegsType ==
    ASSUME NEW legs \in [Users -> Leg], NEW S, NEW st \in LegStates
    PROVE  MoveLegs(legs, S, st) \in [Users -> Leg]
  BY DEF MoveLegs, Leg

\* Every reason to end has an outcome.
LEMMA OutcomeType == \A reason \in Reasons : Outcome(reason) \in Outcomes
  BY DEF Reasons, Outcomes, Outcome

\* The end of a call is a result.
LEMMA FinishType ==
    ASSUME NEW call \in Call, NEW reason \in Reasons, NEW st \in LegStates
    PROVE  /\ Finish(call, reason, st) \in Result
           /\ Finish(call, reason, st).call.v = call.v
           /\ Finish(call, reason, st).call.conv = call.conv
  <1> DEFINE legs == MoveLegs(MoveLegs(call.legs, Joined(call), "left"), Ringing(call), st)
             fx == [ring |-> "clear", calm |-> Joined(call), others |-> {},
                    message |-> Outcome(reason),
                    notify |-> IF call.kind = "direct" THEN Missed(call, legs) ELSE {},
                    attend |-> Joined(call)]
             next == [call EXCEPT !.legs = legs, !.state = "ended", !.reason = reason]
  <1>1. legs \in [Users -> Leg]
    <2>1. MoveLegs(call.legs, Joined(call), "left") \in [Users -> Leg]
      BY MoveLegsType DEF Call, LegStates
    <2> QED BY <2>1, MoveLegsType
  <1>2. fx \in Effects
    <2>1. Outcome(reason) \in Outcomes BY OutcomeType
    <2>2. Joined(call) \subseteq Users /\ Missed(call, legs) \subseteq Users
      BY DEF Joined, Missed
    <2> QED BY <2>1, <2>2 DEF Effects
  <1> HIDE DEF legs, fx
  <1>3. next \in Call /\ next.v = call.v /\ next.conv = call.conv
    BY <1>1 DEF Call
  <1>4. Finish(call, reason, st) = [code |-> "done", call |-> next, fx |-> fx]
    BY DEF Finish, Done, fx, legs
  <1> HIDE DEF next
  <1> QED BY <1>2, <1>3, <1>4 DEF Result

\* ... with nobody in it, none of its legs ringing and a reason.
LEMMA FinishEnds ==
    ASSUME NEW call \in Call, NEW reason \in Reasons, NEW st \in {"cancelled", "missed"},
           TabOK(call), DirectOK(call)
    PROVE  /\ CallOK(Finish(call, reason, st).call)
           /\ Joined(Finish(call, reason, st).call) = {}
  <1> DEFINE legs == MoveLegs(MoveLegs(call.legs, Joined(call), "left"), Ringing(call), st)
             next == [call EXCEPT !.legs = legs, !.state = "ended", !.reason = reason]
  <1>1. Finish(call, reason, st).call = next
    BY DEF Finish, Done
  <1>2. \A u \in Users :
          /\ legs[u].st \notin {"joined", "ringing"}
          /\ legs[u].tab = NoTab
          /\ legs[u].st # "none" <=> call.legs[u].st # "none"
    BY DEF MoveLegs, Joined, Ringing, TabOK, Call, Leg
  <1>3. /\ next.legs = legs /\ next.state = "ended" /\ next.reason = reason
        /\ next.kind = call.kind /\ next.initiator = call.initiator
    BY DEF Call
  <1> HIDE DEF legs, next
  <1>4. Joined(next) = {} /\ Ringing(next) = {} /\ Participants(next) = Participants(call)
    BY <1>2, <1>3 DEF Joined, Ringing, Participants
  <1>5. next.reason # "none" /\ ~Live(next)
    BY <1>3 DEF Live, Reasons
  <1>6. TabOK(next)
    BY <1>2, <1>3 DEF TabOK
  <1> QED
    BY <1>1, <1>3, <1>4, <1>5, <1>6
       DEF CallOK, RingingOK, ActiveOK, EndedOK, ReasonOK, DirectOK, Live

\* A call that is refused or already answered changes nothing; any other answer
\* is well formed.
LEMMA AnswerType ==
    ASSUME NEW call \in Call,
           NEW ev \in [type : {"accept", "join", "decline"}, user : Users, tab : Tabs]
    PROVE  /\ Answer(call, ev) \in Result
           /\ Answer(call, ev).call.v = call.v
           /\ Answer(call, ev).call.conv = call.conv
  <1>1. CASE AnswerRefused(call, ev)
    BY <1>1 DEF Answer, Refused, Result, Effects, EmitOnly
  <1>2. CASE ~AnswerRefused(call, ev) /\ call.legs[ev.user].st = "joined"
    BY <1>2 DEF Answer, Same, Result, Effects, EmitOnly
  <1>3. CASE ~AnswerRefused(call, ev) /\ call.legs[ev.user].st # "joined"
    <2> DEFINE legs == [call.legs EXCEPT ![ev.user] = [st |-> "joined", tab |-> ev.tab, busy |-> FALSE]]
               next == [call EXCEPT !.legs = legs, !.topology = NextTopology(call),
                                    !.state = "active", !.answered = TRUE]
               fx == [EmitOnly EXCEPT !.ring = IF Ringing(next) = {} THEN "clear" ELSE "keep",
                                      !.others = IF call.legs[ev.user].busy THEN {ev.user} ELSE {}]
    <2>1. legs \in [Users -> Leg]
      BY DEF Call, Leg, LegStates
    <2>2. NextTopology(call) \in Topologies
      <3>1. NextTopology(call) # "room_full" BY <1>3 DEF AnswerRefused
      <3> QED BY <3>1 DEF NextTopology, DecideTopology, Topologies
    <2>3. fx \in Effects
      BY DEF EmitOnly, Effects
    <2>4. Answer(call, ev) = [code |-> "done", call |-> next, fx |-> fx]
      BY <1>3 DEF Answer, Done
    <2> HIDE DEF legs, fx
    <2>5. next \in Call /\ next.v = call.v /\ next.conv = call.conv
      BY <2>1, <2>2 DEF Call
    <2> HIDE DEF next
    <2> QED BY <2>3, <2>4, <2>5 DEF Result
  <1> QED BY <1>1, <1>2, <1>3

\* Whoever answers a call that hangs together enters one that does: in a direct
\* call both are in, because nobody else was ever invited.
LEMMA AnswerOK ==
    ASSUME NEW call \in Call, CallOK(call),
           NEW ev \in [type : {"accept", "join", "decline"}, user : Users, tab : Tabs]
    PROVE  CallOK(Answer(call, ev).call)
  <1>1. CASE AnswerRefused(call, ev) \/ call.legs[ev.user].st = "joined"
    BY <1>1 DEF Answer, Refused, Same
  <1>2. CASE ~(AnswerRefused(call, ev) \/ call.legs[ev.user].st = "joined")
    <2> DEFINE legs == [call.legs EXCEPT ![ev.user] = [st |-> "joined", tab |-> ev.tab, busy |-> FALSE]]
               next == [call EXCEPT !.legs = legs, !.topology = NextTopology(call),
                                    !.state = "active", !.answered = TRUE]
    <2>1. Answer(call, ev).call = next
      BY <1>2 DEF Answer, Done
    <2>2. /\ call.state \in {"ringing", "active"}
          /\ call.kind = "direct" => call.legs[ev.user].st = "ringing"
      BY <1>2 DEF AnswerRefused, TooLate, Call
    <2>3. \A u \in Users : legs[u] = IF u = ev.user
            THEN [st |-> "joined", tab |-> ev.tab, busy |-> FALSE] ELSE call.legs[u]
      BY DEF Call
    <2>4. /\ next.legs = legs /\ next.state = "active" /\ next.answered = TRUE
          /\ next.kind = call.kind /\ next.initiator = call.initiator
          /\ next.reason = call.reason
      BY DEF Call
    <2> HIDE DEF legs, next
    <2>5. /\ Joined(next) = Joined(call) \cup {ev.user}
          /\ Participants(next) = Participants(call) \cup {ev.user}
      BY <2>3, <2>4 DEF Joined, Participants
    <2>6. call.kind = "direct" => Participants(next) = Participants(call)
      BY <2>2, <2>5 DEF Participants
    <2>7. ASSUME call.kind = "direct" PROVE Joined(next) = Participants(next)
      <3>1. call.state = "ringing"
        BY <2>2, <2>7 DEF CallOK, ActiveOK, Joined, Participants
      <3>2. /\ Joined(call) = {call.initiator}
            /\ AtMostOne(Participants(call) \ {call.initiator})
            /\ ev.user \in Participants(call) \ {call.initiator}
            /\ call.initiator \in Participants(call)
        BY <3>1, <2>2, <2>7 DEF CallOK, RingingOK, DirectOK, Participants, Joined
      <3>3. Participants(call) = {call.initiator, ev.user}
        BY <3>2 DEF AtMostOne
      <3> QED BY <3>2, <3>3, <2>5, <2>6, <2>7
    <2>8. TabOK(next)
      BY <2>3, <2>4, TabAssumption DEF TabOK, CallOK
    <2>9. RingingOK(next) /\ ActiveOK(next) /\ EndedOK(next)
      BY <2>4, <2>5, <2>7 DEF RingingOK, ActiveOK, EndedOK
    <2>10. ReasonOK(next)
      BY <2>2, <2>4 DEF ReasonOK, Live, CallOK
    <2>11. DirectOK(next)
      BY <2>4, <2>6 DEF DirectOK, CallOK
    <2> QED BY <2>1, <2>8, <2>9, <2>10, <2>11 DEF CallOK
  <1> QED BY <1>1, <1>2

\* An answer keeps what has to be kept: the tab of whoever was in, too.
LEMMA AnswerKeeps ==
    ASSUME NEW call \in Call, CallOK(call),
           NEW ev \in [type : {"accept", "join", "decline"}, user : Users, tab : Tabs]
    PROVE  Keeps(call, Answer(call, ev))
  <1>1. \A u \in Joined(call) : Answer(call, ev).call.legs[u].tab = call.legs[u].tab
    <2>1. CASE AnswerRefused(call, ev) \/ call.legs[ev.user].st = "joined"
      BY <2>1 DEF Answer, Refused, Same
    <2>2. CASE ~(AnswerRefused(call, ev) \/ call.legs[ev.user].st = "joined")
      <3>1. Answer(call, ev).call.legs =
              [call.legs EXCEPT ![ev.user] = [st |-> "joined", tab |-> ev.tab, busy |-> FALSE]]
        BY <2>2 DEF Answer, Done, Call
      <3> QED BY <2>2, <3>1 DEF Joined, Call
    <2> QED BY <2>1, <2>2
  <1>2. Answer(call, ev).code = "done" => Live(call)
    BY DEF Answer, AnswerRefused, TooLate, Refused, Same, Live, Call
  <1> QED BY <1>1, <1>2, AnswerType, AnswerOK DEF Keeps

\* Legs that ring move to where nobody is in.
LEMMA RingingMoved ==
    ASSUME NEW call \in Call, CallOK(call), NEW S \in SUBSET Ringing(call),
           NEW st \in {"declined", "missed"}
    PROVE  LET next == [call EXCEPT !.legs = MoveLegs(call.legs, S, st)] IN
           /\ next \in Call /\ TabOK(next) /\ DirectOK(next)
           /\ next.legs = MoveLegs(call.legs, S, st)
           /\ next.state = call.state /\ next.v = call.v /\ next.conv = call.conv
           /\ next.kind = call.kind /\ next.initiator = call.initiator
           /\ next.reason = call.reason /\ next.answered = call.answered
           /\ Joined(next) = Joined(call) /\ Ringing(next) = Ringing(call) \ S
           /\ Participants(next) = Participants(call)
  <1> DEFINE legs == MoveLegs(call.legs, S, st)
             next == [call EXCEPT !.legs = legs]
  <1>1. legs \in [Users -> Leg]
    BY MoveLegsType DEF Call, LegStates
  <1>2. \A u \in Users : legs[u].st = (IF u \in S THEN st ELSE call.legs[u].st)
                      /\ legs[u].tab = (IF u \in S THEN NoTab ELSE call.legs[u].tab)
    BY DEF MoveLegs, Call, Leg
  <1> HIDE DEF legs
  <1>3. /\ next \in Call /\ next.legs = legs
        /\ next.state = call.state /\ next.v = call.v /\ next.conv = call.conv
        /\ next.kind = call.kind /\ next.initiator = call.initiator
        /\ next.reason = call.reason /\ next.answered = call.answered
    BY <1>1 DEF Call
  <1> HIDE DEF next
  <1>4. /\ Joined(next) = Joined(call) /\ Ringing(next) = Ringing(call) \ S
        /\ Participants(next) = Participants(call)
    BY <1>2, <1>3 DEF Joined, Ringing, Participants
  <1>5. TabOK(next) /\ DirectOK(next)
    BY <1>2, <1>3, <1>4 DEF TabOK, DirectOK, CallOK, Ringing
  <1> QED BY <1>3, <1>4, <1>5 DEF next, legs

\* Ending a call, after some of its ringing legs moved or not.
LEMMA FinishKeeps ==
    ASSUME NEW call \in Call, Live(call),
           NEW next \in Call, TabOK(next), DirectOK(next),
           next.v = call.v, next.conv = call.conv,
           NEW reason \in Reasons, NEW st \in {"cancelled", "missed"}
    PROVE  Keeps(call, Finish(next, reason, st))
  <1>1. st \in LegStates BY DEF LegStates
  <1> QED BY <1>1, FinishType, FinishEnds DEF Keeps

\* A result that leaves the call as it was.
LEMMA UnchangedKeeps ==
    ASSUME NEW call \in Call, CallOK(call)
    PROVE  Keeps(call, Same(call)) /\ Keeps(call, Refused(call))
  BY DEF Keeps, Same, Refused, Result, Effects, EmitOnly

\* Declining: a call that goes on still rings for somebody or has somebody in.
LEMMA DeclineKeeps ==
    ASSUME NEW call \in Call, CallOK(call),
           NEW ev \in [type : {"accept", "join", "decline"}, user : Users, tab : Tabs]
    PROVE  Keeps(call, Decline(call, ev))
  <1> DEFINE legs == MoveLegs(call.legs, {ev.user}, "declined")
             next == [call EXCEPT !.legs = legs]
  <1>1. CASE call.state = "ended" \/ call.legs[ev.user].st # "ringing"
    BY <1>1, UnchangedKeeps DEF Decline
  <1>2. CASE ~(call.state = "ended" \/ call.legs[ev.user].st # "ringing")
    <2>1. {ev.user} \in SUBSET Ringing(call)
      BY <1>2 DEF Ringing
    <2>2. /\ next \in Call /\ TabOK(next) /\ DirectOK(next) /\ next.legs = legs
          /\ next.state = call.state /\ next.v = call.v /\ next.conv = call.conv
          /\ next.kind = call.kind /\ next.initiator = call.initiator
          /\ next.reason = call.reason /\ next.answered = call.answered
          /\ Joined(next) = Joined(call) /\ Participants(next) = Participants(call)
      BY <2>1, RingingMoved
    <2>3. Live(call)
      BY <1>2 DEF Live, Call
    <2>4. \A u \in Joined(call) : legs[u].tab = call.legs[u].tab
      BY <1>2 DEF Joined, MoveLegs
    <2>5. Decline(call, ev) = IF DeclineEnds(next) THEN Finish(next, "declined", "cancelled")
            ELSE Done(next, [EmitOnly EXCEPT !.ring = IF Ringing(next) = {} THEN "clear" ELSE "keep"])
      BY <1>2 DEF Decline
    <2> HIDE DEF legs, next
    <2>6. CASE DeclineEnds(next)
      BY <2>2, <2>3, <2>5, <2>6, FinishKeeps DEF Reasons
    <2>7. CASE ~DeclineEnds(next)
      <3> DEFINE fx == [EmitOnly EXCEPT !.ring = IF Ringing(next) = {} THEN "clear" ELSE "keep"]
      <3>1. Decline(call, ev) = [code |-> "done", call |-> next, fx |-> fx]
        BY <2>5, <2>7 DEF Done
      <3>2. fx \in Effects
        BY DEF Effects, EmitOnly
      <3>3. CallOK(next)
        <4>1. RingingOK(next)
          BY <2>2, <2>7 DEF DeclineEnds, CallOK, RingingOK, AtMostOne
        <4>2. ActiveOK(next)
          BY <2>2 DEF CallOK, ActiveOK
        <4>3. EndedOK(next) /\ ReasonOK(next)
          BY <1>2, <2>2 DEF CallOK, EndedOK, ReasonOK, Live
        <4> QED BY <2>2, <4>1, <4>2, <4>3 DEF CallOK
      <3> HIDE DEF fx
      <3> QED BY <2>2, <2>3, <2>4, <3>1, <3>2, <3>3 DEF Result, Keeps
    <2> QED BY <2>6, <2>7
  <1> QED BY <1>1, <1>2

\* Somebody in a live call goes: it is over, or it is a group call in progress
\* with somebody left in it.  A call that rings has only its initiator in, and a
\* direct one in progress only two people.
LEMMA ExitKeeps ==
    ASSUME NEW call \in Call, CallOK(call), Live(call),
           NEW gone \in SUBSET Joined(call), gone # {}, NEW network \in BOOLEAN
    PROVE  Keeps(call, Exit(call, gone, network))
  <1> DEFINE remaining == Joined(call) \ gone
             reason == CASE call.state = "ringing" -> "cancelled"
                         [] call.state # "ringing" /\ network -> "interrupted"
                         [] OTHER -> "completed"
             legs == MoveLegs(call.legs, gone, "left")
             next == [call EXCEPT !.legs = legs]
  <1>1. reason \in Reasons
    BY DEF Reasons
  <1>2. Exit(call, gone, network) = IF Over(call, remaining)
            THEN Finish(call, reason, "cancelled") ELSE Done(next, ExitEffects(gone))
    BY DEF Exit
  <1> HIDE DEF reason
  <1>3. CASE Over(call, remaining)
    BY <1>1, <1>2, <1>3, FinishKeeps DEF CallOK
  <1>4. CASE ~Over(call, remaining)
    <2>1. call.state = "active"
      <3>1. call.state = "ringing" => remaining = {}
        BY DEF CallOK, RingingOK
      <3>2. remaining # {}
        BY <1>4 DEF Over, AtMostOne
      <3> QED BY <3>1, <3>2 DEF Live
    <2>2. call.kind = "group"
      <3>1. ASSUME call.kind = "direct" PROVE FALSE
        <4>1. Joined(call) = Participants(call)
          BY <2>1, <3>1 DEF CallOK, ActiveOK
        <4>2. AtMostOne(Joined(call) \ {call.initiator})
          BY <3>1, <4>1 DEF CallOK, DirectOK
        <4>3. AtMostOne(remaining)
          BY <4>2 DEF AtMostOne
        <4> QED BY <1>4, <3>1, <4>3 DEF Over
      <3> QED BY <3>1 DEF Call, Kinds
    <2>3. remaining # {}
      BY <1>4, <2>2 DEF Over
    <2>4. legs \in [Users -> Leg]
      BY MoveLegsType DEF Call, LegStates
    <2>5. \A u \in Users : /\ legs[u].st = (IF u \in gone THEN "left" ELSE call.legs[u].st)
                           /\ legs[u].tab = (IF u \in gone THEN NoTab ELSE call.legs[u].tab)
      BY DEF MoveLegs, Call, Leg
    <2>6. ExitEffects(gone) \in Effects
      BY DEF ExitEffects, Effects, EmitOnly, Joined
    <2>7. Exit(call, gone, network) = [code |-> "done", call |-> next, fx |-> ExitEffects(gone)]
      BY <1>2, <1>4 DEF Done
    <2> HIDE DEF legs
    <2>8. /\ next \in Call /\ next.legs = legs
          /\ next.state = call.state /\ next.v = call.v /\ next.conv = call.conv
          /\ next.kind = call.kind /\ next.reason = call.reason /\ next.answered = call.answered
      BY <2>4 DEF Call
    <2> HIDE DEF next
    <2>9. Joined(next) = remaining
      BY <2>5, <2>8 DEF Joined
    <2>10. TabOK(next)
      BY <2>5, <2>8 DEF TabOK, CallOK
    <2>11. CallOK(next)
      <3>1. RingingOK(next) /\ EndedOK(next) /\ DirectOK(next)
        BY <2>1, <2>2, <2>8 DEF RingingOK, EndedOK, DirectOK
      <3>2. ActiveOK(next)
        BY <2>1, <2>2, <2>3, <2>8, <2>9 DEF ActiveOK, CallOK
      <3>3. ReasonOK(next)
        BY <2>8 DEF ReasonOK, CallOK, Live
      <3> QED BY <2>10, <3>1, <3>2, <3>3 DEF CallOK
    <2>12. \A u \in Joined(next) : next.legs[u].tab = call.legs[u].tab
      BY <2>5, <2>8, <2>9 DEF Joined
    <2> QED BY <2>6, <2>7, <2>8, <2>11, <2>12 DEF Keeps, Result
  <1> QED BY <1>3, <1>4

\* A ring window that passes moves nobody who is in.
LEMMA RingTimeoutKeeps ==
    ASSUME NEW call \in Call, CallOK(call), NEW due \in BOOLEAN
    PROVE  Keeps(call, RingTimeout(call, due))
  <1> DEFINE busy == \E u \in Ringing(call) : call.legs[u].busy
             legs == MoveLegs(call.legs, Ringing(call), "missed")
             next == [call EXCEPT !.legs = legs]
             reason == IF call.kind = "direct" /\ busy THEN "busy" ELSE "no_answer"
  <1>1. CASE call.state = "ended" \/ ~due \/ Ringing(call) = {}
    BY <1>1, UnchangedKeeps DEF RingTimeout
  <1>2. CASE ~(call.state = "ended" \/ ~due \/ Ringing(call) = {})
    <2>1. Live(call)
      BY <1>2 DEF Live, Call
    <2>2. /\ next \in Call /\ TabOK(next) /\ DirectOK(next) /\ next.legs = legs
          /\ next.state = call.state /\ next.v = call.v /\ next.conv = call.conv
          /\ next.kind = call.kind /\ next.initiator = call.initiator
          /\ next.reason = call.reason /\ next.answered = call.answered
          /\ Joined(next) = Joined(call) /\ Participants(next) = Participants(call)
      BY RingingMoved
    <2>3. \A u \in Joined(call) : legs[u].tab = call.legs[u].tab
      BY DEF Joined, Ringing, MoveLegs
    <2>4. RingTimeout(call, due) = IF call.state = "ringing" /\ AtMostOne(Joined(call))
            THEN Finish(next, reason, "missed") ELSE Done(next, EmitOnly)
      BY <1>2 DEF RingTimeout
    <2>5. reason \in Reasons
      BY DEF Reasons
    <2> HIDE DEF next, legs, reason
    <2>6. CASE call.state = "ringing"
      <3>1. AtMostOne(Joined(call))
        BY <2>6 DEF CallOK, RingingOK, AtMostOne
      <3> QED BY <2>1, <2>2, <2>4, <2>5, <2>6, <3>1, FinishKeeps
    <2>7. CASE call.state # "ringing"
      <3>1. CallOK(next)
        <4>1. RingingOK(next)
          BY <2>2, <2>7 DEF RingingOK
        <4>2. ActiveOK(next)
          BY <2>2 DEF CallOK, ActiveOK
        <4>3. EndedOK(next) /\ ReasonOK(next)
          BY <1>2, <2>2 DEF CallOK, EndedOK, ReasonOK, Live
        <4> QED BY <2>2, <4>1, <4>2, <4>3 DEF CallOK
      <3>2. EmitOnly \in Effects
        BY DEF EmitOnly, Effects
      <3>3. RingTimeout(call, due) = [code |-> "done", call |-> next, fx |-> EmitOnly]
        BY <2>4, <2>7 DEF Done
      <3> QED BY <2>1, <2>2, <2>3, <3>1, <3>2, <3>3 DEF Keeps, Result
    <2> QED BY <2>6, <2>7
  <1> QED BY <1>1, <1>2

\* A sweep is a ring window that passes and then, of what it leaves, an exit or an
\* end: each of the two keeps the call.
LEMMA SweepKeeps ==
    ASSUME NEW call \in Call, CallOK(call),
           NEW ev \in [type : {"sweep"}, due : BOOLEAN, stale : SUBSET Users]
    PROVE  Keeps(call, Sweep(call, ev))
  <1> DEFINE rung == RingTimeout(call, ev.due)
             gone == ev.stale \cap Joined(rung.call)
  <1>1. Keeps(call, rung)
    BY RingTimeoutKeeps
  <1>2. rung.call \in Call /\ CallOK(rung.call)
    BY <1>1 DEF Keeps, Result
  <1>3. Live(rung.call) => Live(call)
    <2>1. rung.code # "done" => rung.call = call
      BY DEF RingTimeout, Same, Done, Finish
    <2> QED BY <1>1, <2>1, <1>2 DEF Keeps
  <1>4. Sweep(call, ev) = IF rung.call.state = "ended" THEN rung
       ELSE IF gone # {} THEN Exit(rung.call, gone, TRUE)
       ELSE IF Joined(rung.call) = {} THEN Finish(rung.call, "interrupted", "cancelled")
       ELSE rung
    BY DEF Sweep
  <1>5. \A u \in Joined(rung.call) : u \in Joined(call)
    BY DEF RingTimeout, Finish, Done, Same, MoveLegs, Joined, Ringing, Call
  <1> HIDE DEF rung, gone
  <1>6. CASE rung.call.state = "ended"
    BY <1>1, <1>4, <1>6
  <1>7. CASE rung.call.state # "ended" /\ gone # {}
    <2>1. Live(rung.call)
      BY <1>2, <1>7 DEF Live, Call
    <2>2. Keeps(rung.call, Exit(rung.call, gone, TRUE))
      BY <1>2, <1>7, <2>1, ExitKeeps DEF gone
    <2>3. \A u \in Joined(Exit(rung.call, gone, TRUE).call) : u \in Joined(rung.call)
      BY <1>2 DEF Exit, Finish, Done, MoveLegs, Joined, Ringing, Call
    <2> QED BY <1>1, <1>3, <1>4, <1>7, <2>1, <2>2, <2>3, <1>5 DEF Keeps
  <1>8. CASE rung.call.state # "ended" /\ gone = {} /\ Joined(rung.call) = {}
    <2>1. Live(rung.call)
      BY <1>2, <1>8 DEF Live, Call
    <2> QED BY <1>1, <1>2, <1>3, <1>4, <1>8, <2>1, FinishKeeps DEF Keeps, CallOK, Reasons
  <1>9. CASE rung.call.state # "ended" /\ gone = {} /\ Joined(rung.call) # {}
    BY <1>1, <1>4, <1>9
  <1> QED BY <1>6, <1>7, <1>8, <1>9

\* Every transition keeps a call that hangs together, whatever the event.
THEOREM TransitionKeeps ==
    ASSUME NEW call \in Call, CallOK(call), NEW ev \in Event
    PROVE  Keeps(call, Transition(call, ev))
  <1>1. CASE ev.type \in {"accept", "join"}
    <2>1. ev \in [type : {"accept", "join", "decline"}, user : Users, tab : Tabs]
      BY <1>1 DEF Event
    <2> QED BY <1>1, <2>1, AnswerKeeps DEF Transition
  <1>2. CASE ev.type = "decline"
    <2>1. ev \in [type : {"accept", "join", "decline"}, user : Users, tab : Tabs]
      BY <1>2 DEF Event
    <2> QED BY <1>2, <2>1, DeclineKeeps DEF Transition
  <1>3. CASE ev.type = "leave"
    <2>1. ev \in [type : {"leave"}, user : Users, tab : Tabs, network : BOOLEAN]
      BY <1>3 DEF Event
    <2>2. Transition(call, ev) = Leave(call, ev)
      BY <1>3 DEF Transition
    <2>3. CASE call.state = "ended" \/ ~OwnLeg(call, ev)
      BY <2>2, <2>3, UnchangedKeeps DEF Leave
    <2>4. CASE ~(call.state = "ended" \/ ~OwnLeg(call, ev))
      <3>1. Live(call) /\ {ev.user} \in SUBSET Joined(call)
        BY <2>1, <2>4 DEF OwnLeg, Joined, Live, Call
      <3> QED BY <2>1, <2>2, <2>4, <3>1, ExitKeeps DEF Leave
    <2> QED BY <2>3, <2>4
  <1>4. CASE ev.type = "cancel"
    <2>1. CASE call.initiator # ev.user \/ call.state # "ringing"
      BY <1>4, <2>1, UnchangedKeeps DEF Transition, Cancel
    <2>2. CASE ~(call.initiator # ev.user \/ call.state # "ringing")
      BY <1>4, <2>2, FinishKeeps DEF Transition, Cancel, Live, CallOK, Reasons
    <2> QED BY <2>1, <2>2
  <1>5. CASE ev.type = "end"
    <2>1. CASE call.state = "ended" \/ call.kind = "direct" \/ call.initiator # ev.user
      BY <1>5, <2>1, UnchangedKeeps DEF Transition, EndForAll
    <2>2. CASE ~(call.state = "ended" \/ call.kind = "direct" \/ call.initiator # ev.user)
      <3>1. Live(call)
        BY <2>2 DEF Live, Call
      <3> QED BY <1>5, <2>2, <3>1, FinishKeeps DEF Transition, EndForAll, CallOK, Reasons
    <2> QED BY <2>1, <2>2
  <1>6. CASE ev.type = "ring_timeout"
    <2>1. ev \in [type : {"ring_timeout"}, due : BOOLEAN]
      BY <1>6 DEF Event
    <2> QED BY <1>6, <2>1, RingTimeoutKeeps DEF Transition
  <1>7. CASE ev.type = "sweep"
    <2>1. ev \in [type : {"sweep"}, due : BOOLEAN, stale : SUBSET Users]
      BY <1>7 DEF Event
    <2> QED BY <1>7, <2>1, SweepKeeps DEF Transition
  <1>8. ev.type \in {"accept", "join", "decline", "leave", "cancel", "end", "ring_timeout", "sweep"}
    BY DEF Event
  <1> QED BY <1>1, <1>2, <1>3, <1>4, <1>5, <1>6, <1>7, <1>8

\* What create_call inserts hangs together: somebody rings, and in a direct
\* conversation only the other one.
LEMMA NewCallOK ==
    ASSUME NEW conv \in Convs, NEW kind \in Kinds, NEW initiator \in Users, NEW tab \in Tabs,
           NEW invitees \in SUBSET (Users \ {initiator}), NEW busy,
           invitees # {}, kind = "direct" => AtMostOne(invitees)
    PROVE  /\ NewCall(conv, kind, initiator, tab, invitees, busy) \in Call
           /\ CallOK(NewCall(conv, kind, initiator, tab, invitees, busy))
  <1> DEFINE call == NewCall(conv, kind, initiator, tab, invitees, busy)
  <1>1. \A u \in Users :
          /\ call.legs[u].st =
                (IF u = initiator THEN "joined" ELSE IF u \in invitees THEN "ringing" ELSE "none")
          /\ call.legs[u].tab = (IF u = initiator THEN tab ELSE NoTab)
    BY DEF NewCall
  <1>2. call.legs \in [Users -> Leg]
    BY DEF NewCall, Leg, LegStates
  <1>3. /\ call.state = "ringing" /\ call.kind = kind /\ call.initiator = initiator
        /\ call.answered = FALSE /\ call.reason = "none"
    BY DEF NewCall
  <1>4. call \in Call
    BY <1>2 DEF NewCall, Call, Topologies
  <1> HIDE DEF call
  <1>5. /\ Joined(call) = {initiator} /\ Ringing(call) = invitees
        /\ Participants(call) = invitees \cup {initiator}
    BY <1>1 DEF Joined, Ringing, Participants
  <1>6. TabOK(call)
    BY <1>1, TabAssumption DEF TabOK
  <1>7. RingingOK(call) /\ ActiveOK(call) /\ EndedOK(call) /\ ReasonOK(call)
    BY <1>3, <1>5 DEF RingingOK, ActiveOK, EndedOK, ReasonOK, Live
  <1>8. DirectOK(call)
    BY <1>3, <1>5 DEF DirectOK, AtMostOne
  <1> QED BY <1>4, <1>6, <1>7, <1>8 DEF CallOK, call
=============================================================================
