-------------------------- MODULE CallLifecycle_proofs --------------------------
(***************************************************************************)
(* CallFlow implements CallLifecycle, and what a conversation says of a    *)
(* call is true: its message carries the outcome of the row, and a missed  *)
(* notice reaches only people of a direct call who never entered it.       *)
(*                                                                         *)
(* Both rest on what a frame carries from the row it wrote to the effects  *)
(* it runs afterwards, when others may have come and gone: only the frame  *)
(* that ended the call carries a message, and an ended row is final.       *)
(***************************************************************************)
EXTENDS CallFlow_proofs

-----------------------------------------------------------------------------
(* What a transition does to the seats of a call and what it announces *)

Entered(call, u) == call.legs[u].st \in {"joined", "left"}
Outside(call, u) == ~Entered(call, u)

SeatsKept(call, next) == \A u \in Users : next.legs[u].tab = call.legs[u].tab

\* The four things that may happen to a live call.
Ends(next) == next.state = "ended"
Stays(call, next) == next.state = call.state /\ SeatsKept(call, next)
Enters(call, next) == \E u \in Users, t \in Tabs :
    /\ call.legs[u].tab = NoTab /\ next.state = "active"
    /\ \A w \in Users : next.legs[w].tab = IF w = u THEN t ELSE call.legs[w].tab
Exits(call, next) == \E gone \in SUBSET Users :
    /\ call.state = "active" /\ next.state = "active"
    /\ \E u \in Users \ gone : call.legs[u].tab # NoTab
    /\ \A w \in Users : next.legs[w].tab = IF w \in gone THEN NoTab ELSE call.legs[w].tab

\* What the effects say is true of the call they come with.
Announces(r) ==
    /\ r.fx.message # "none" => Ends(r.call) /\ r.fx.message = Outcome(r.call.reason)
    /\ \A u \in r.fx.notify : Ends(r.call) /\ r.call.kind = "direct" /\ Outside(r.call, u)

\* A group call that is on the media server stays there, and a direct one never is.
TopologyKept(call, next) ==
    /\ next.kind = call.kind
    /\ call.kind = "direct" /\ call.topology # "sfu" => next.topology # "sfu"
    /\ call.kind # "direct" /\ call.topology = "sfu" => next.topology = "sfu"

\* Whoever goes out, and nobody else, has their attendance saved.
Attends(before, r) ==
    /\ \A u \in Users : u \in r.fx.attend <=> u \in before /\ u \notin Joined(r.call)
    /\ r.fx.others # {} => r.fx.attend = {}

Moves(call, r) ==
    /\ Announces(r) /\ TopologyKept(call, r.call) /\ Attends(Joined(call), r)
    /\ \A u \in Users : Entered(call, u) => Entered(r.call, u)
    /\ Ends(r.call) \/ Stays(call, r.call) \/ Enters(call, r.call) \/ Exits(call, r.call)

\* Refusing or repeating moves nothing.
LEMMA UnchangedMoves ==
    ASSUME NEW call \in Call
    PROVE  Moves(call, Same(call)) /\ Moves(call, Refused(call))
  BY DEF Moves, Announces, TopologyKept, Attends, Same, Refused, EmitOnly, Stays, SeatsKept

\* The end of a call carries its outcome, and notifies whoever never entered it.
LEMMA FinishMoves ==
    ASSUME NEW call \in Call, NEW reason \in Reasons, NEW st \in {"cancelled", "missed"}
    PROVE  Moves(call, Finish(call, reason, st))
  <1> DEFINE legs == MoveLegs(MoveLegs(call.legs, Joined(call), "left"), Ringing(call), st)
             next == [call EXCEPT !.legs = legs, !.state = "ended", !.reason = reason]
             fx == [ring |-> "clear", calm |-> Joined(call), others |-> {},
                    message |-> Outcome(reason),
                    notify |-> IF call.kind = "direct" THEN Missed(call, legs) ELSE {},
                    attend |-> Joined(call)]
  <1>1. Finish(call, reason, st) = [code |-> "done", call |-> next, fx |-> fx]
    BY DEF Finish, Done
  <1>2. /\ next.legs = legs /\ next.state = "ended" /\ next.reason = reason
        /\ next.kind = call.kind /\ next.topology = call.topology
    BY DEF Call
  <1>3. \A u \in Users :
          legs[u].st \notin {"joined", "ringing"} /\ (Entered(call, u) => legs[u].st = "left")
    BY DEF Entered, MoveLegs, Joined, Ringing, Call, Leg
  <1>4. \A u \in Missed(call, legs) : u \in Users /\ legs[u].st \in {"missed", "cancelled"}
    BY DEF Missed
  <1> HIDE DEF legs, next
  <1>5. \A u \in fx.notify : next.kind = "direct" /\ Outside(next, u)
    BY <1>2, <1>4 DEF Outside, Entered
  <1>6. \A u \in Users : Entered(call, u) => Entered(next, u)
    BY <1>2, <1>3 DEF Entered
  <1>7. fx.message = Outcome(reason) /\ fx.attend = Joined(call) /\ fx.others = {}
    OBVIOUS
  <1>8. Joined(next) = {}
    BY <1>2, <1>3 DEF Joined
  <1> HIDE DEF fx
  <1> QED BY <1>1, <1>2, <1>5, <1>6, <1>7, <1>8 DEF Moves, Announces, TopologyKept, Attends, Ends

\* Ending a call after some of its legs that rang moved.
LEMMA FinishMovesFrom ==
    ASSUME NEW call, NEW next \in Call, \A u \in Users : Entered(call, u) => Entered(next, u),
           TopologyKept(call, next), Joined(next) = Joined(call),
           NEW reason \in Reasons, NEW st \in {"cancelled", "missed"}
    PROVE  Moves(call, Finish(next, reason, st))
  <1>1. Moves(next, Finish(next, reason, st)) BY FinishMoves
  <1>2. Finish(next, reason, st).call.state = "ended"
    BY DEF Finish, Done, Call
  <1> QED BY <1>1, <1>2 DEF Moves, TopologyKept, Ends

\* Whoever answers takes the one seat that changes.
LEMMA AnswerMoves ==
    ASSUME NEW call \in Call, CallOK(call),
           NEW ev \in [type : {"accept", "join", "decline"}, user : Users, tab : Tabs]
    PROVE  Moves(call, Answer(call, ev))
  <1>1. CASE AnswerRefused(call, ev) \/ call.legs[ev.user].st = "joined"
    BY <1>1, UnchangedMoves DEF Answer
  <1>2. CASE ~(AnswerRefused(call, ev) \/ call.legs[ev.user].st = "joined")
    <2> DEFINE legs == [call.legs EXCEPT ![ev.user] = [st |-> "joined", tab |-> ev.tab, busy |-> FALSE]]
               next == [call EXCEPT !.legs = legs, !.topology = NextTopology(call),
                                    !.state = "active", !.answered = TRUE]
               fx == [EmitOnly EXCEPT !.ring = IF Ringing(next) = {} THEN "clear" ELSE "keep",
                                      !.others = IF call.legs[ev.user].busy THEN {ev.user} ELSE {}]
    <2>1. Answer(call, ev) = [code |-> "done", call |-> next, fx |-> fx]
      BY <1>2 DEF Answer, Done
    <2>2. fx.message = "none" /\ fx.notify = {} /\ fx.attend = {}
      BY DEF EmitOnly
    <2>3. /\ next.legs = legs /\ next.state = "active" /\ next.kind = call.kind
          /\ next.topology = NextTopology(call)
      BY DEF Call
    <2>4. \A w \in Users : legs[w] = IF w = ev.user
            THEN [st |-> "joined", tab |-> ev.tab, busy |-> FALSE] ELSE call.legs[w]
      BY DEF Call
    <2>5. call.legs[ev.user].tab = NoTab
      BY <1>2 DEF CallOK, TabOK
    <2> HIDE DEF legs, next, fx
    <2>6. Enters(call, next)
      BY <2>3, <2>4, <2>5 DEF Enters
    <2>7. \A u \in Users : Entered(call, u) => Entered(next, u)
      BY <2>3, <2>4 DEF Entered
    <2>8. TopologyKept(call, next)
      <3>1. NextTopology(call) # "room_full"
        BY <1>2 DEF AnswerRefused
      <3> QED BY <2>3, <3>1 DEF TopologyKept, NextTopology
    <2>9. Joined(call) \subseteq Joined(next)
      BY <2>3, <2>4 DEF Joined
    <2> QED BY <2>1, <2>2, <2>6, <2>7, <2>8, <2>9 DEF Moves, Announces, Attends
  <1> QED BY <1>1, <1>2

\* Legs that ring have no seat: moving them takes nobody's.
LEMMA RingingSeats ==
    ASSUME NEW call \in Call, CallOK(call), NEW S \in SUBSET Ringing(call),
           NEW st \in {"declined", "missed"}
    PROVE  LET next == [call EXCEPT !.legs = MoveLegs(call.legs, S, st)] IN
           /\ next \in Call /\ next.state = call.state /\ next.kind = call.kind
           /\ SeatsKept(call, next) /\ TopologyKept(call, next) /\ Joined(next) = Joined(call)
           /\ \A u \in Users : Entered(call, u) => Entered(next, u)
  <1> DEFINE legs == MoveLegs(call.legs, S, st)
             next == [call EXCEPT !.legs = legs]
  <1>1. legs \in [Users -> Leg]
    BY MoveLegsType DEF Call, LegStates
  <1>2. \A u \in S : u \in Users /\ call.legs[u].st = "ringing" /\ call.legs[u].tab = NoTab
    BY DEF Ringing, CallOK, TabOK
  <1>3. \A u \in Users : legs[u].tab = (IF u \in S THEN NoTab ELSE call.legs[u].tab)
                      /\ (u \notin S => legs[u].st = call.legs[u].st)
    BY DEF MoveLegs, Call, Leg
  <1> HIDE DEF legs
  <1>4. /\ next \in Call /\ next.legs = legs /\ next.state = call.state
        /\ next.kind = call.kind /\ next.topology = call.topology
    BY <1>1 DEF Call
  <1> HIDE DEF next
  <1>5. SeatsKept(call, next)
    BY <1>2, <1>3, <1>4 DEF SeatsKept
  <1>6. \A u \in Users : Entered(call, u) => Entered(next, u)
    BY <1>2, <1>3, <1>4 DEF Entered
  <1>7. \A u \in Users : legs[u].st = (IF u \in S THEN st ELSE call.legs[u].st)
    BY DEF legs, MoveLegs, Call, Leg
  <1>8. Joined(next) = Joined(call)
    BY <1>2, <1>4, <1>7 DEF Joined
  <1> QED BY <1>4, <1>5, <1>6, <1>8 DEF next, legs, TopologyKept

\* Declining ends the call or takes nobody's seat.
LEMMA DeclineMoves ==
    ASSUME NEW call \in Call, CallOK(call),
           NEW ev \in [type : {"accept", "join", "decline"}, user : Users, tab : Tabs]
    PROVE  Moves(call, Decline(call, ev))
  <1> DEFINE next == [call EXCEPT !.legs = MoveLegs(call.legs, {ev.user}, "declined")]
             fx == [EmitOnly EXCEPT !.ring = IF Ringing(next) = {} THEN "clear" ELSE "keep"]
  <1>1. CASE call.state = "ended" \/ call.legs[ev.user].st # "ringing"
    BY <1>1, UnchangedMoves DEF Decline
  <1>2. CASE ~(call.state = "ended" \/ call.legs[ev.user].st # "ringing")
    <2>1. {ev.user} \in SUBSET Ringing(call)
      BY <1>2 DEF Ringing
    <2>2. /\ next \in Call /\ next.state = call.state /\ SeatsKept(call, next)
          /\ TopologyKept(call, next) /\ Joined(next) = Joined(call)
          /\ \A u \in Users : Entered(call, u) => Entered(next, u)
      BY <2>1, RingingSeats
    <2>3. fx.message = "none" /\ fx.notify = {} /\ fx.attend = {}
      BY DEF EmitOnly
    <2>4. Decline(call, ev) = IF DeclineEnds(next) THEN Finish(next, "declined", "cancelled")
                              ELSE Done(next, fx)
      BY <1>2 DEF Decline
    <2> HIDE DEF next, fx
    <2>5. CASE DeclineEnds(next)
      BY <2>2, <2>4, <2>5, FinishMovesFrom DEF Reasons
    <2>6. CASE ~DeclineEnds(next)
      <3>1. Decline(call, ev) = [code |-> "done", call |-> next, fx |-> fx]
        BY <2>4, <2>6 DEF Done
      <3> QED BY <2>2, <2>3, <3>1 DEF Moves, Announces, Attends, Stays
    <2> QED BY <2>5, <2>6
  <1> QED BY <1>1, <1>2

\* Some of those in a live call go: it ends, or somebody stays.
LEMMA ExitMoves ==
    ASSUME NEW call \in Call, CallOK(call), Live(call),
           NEW gone \in SUBSET Joined(call), gone # {}, NEW network \in BOOLEAN
    PROVE  Moves(call, Exit(call, gone, network))
  <1> DEFINE remaining == Joined(call) \ gone
             reason == CASE call.state = "ringing" -> "cancelled"
                         [] call.state # "ringing" /\ network -> "interrupted"
                         [] OTHER -> "completed"
             legs == MoveLegs(call.legs, gone, "left")
             next == [call EXCEPT !.legs = legs]
  <1>1. reason \in Reasons
    BY DEF Reasons
  <1>2. Exit(call, gone, network) = IF Over(call, remaining)
            THEN Finish(call, reason, "cancelled") ELSE Done(next, ExitEffects(gone))
    BY DEF Exit
  <1> HIDE DEF reason
  <1>3. CASE Over(call, remaining)
    BY <1>1, <1>2, <1>3, FinishMoves
  <1>4. CASE ~Over(call, remaining)
    <2>1. remaining # {}
      BY <1>4 DEF Over, AtMostOne
    <2>2. call.state = "active"
      BY <2>1 DEF CallOK, RingingOK, Live
    <2>3. \A u \in remaining : u \in Users \ gone /\ call.legs[u].tab # NoTab
      BY DEF Joined, CallOK, TabOK
    <2>4. \A u \in Users : /\ legs[u].st = (IF u \in gone THEN "left" ELSE call.legs[u].st)
                           /\ legs[u].tab = (IF u \in gone THEN NoTab ELSE call.legs[u].tab)
      BY DEF MoveLegs, Call, Leg
    <2>5. Exit(call, gone, network) = [code |-> "done", call |-> next, fx |-> ExitEffects(gone)]
      BY <1>2, <1>4 DEF Done
    <2>6. /\ ExitEffects(gone).message = "none" /\ ExitEffects(gone).notify = {}
          /\ ExitEffects(gone).attend = gone /\ ExitEffects(gone).others = {}
      BY DEF ExitEffects, EmitOnly
    <2>7. gone \in SUBSET Users
      BY DEF Joined
    <2> HIDE DEF legs, remaining
    <2>8. /\ next.legs = legs /\ next.state = call.state
          /\ next.kind = call.kind /\ next.topology = call.topology
      BY DEF Call
    <2> HIDE DEF next
    <2>9. Exits(call, next)
      BY <2>1, <2>2, <2>3, <2>4, <2>7, <2>8 DEF Exits
    <2>10. \A u \in Users : Entered(call, u) => Entered(next, u)
      BY <2>4, <2>8 DEF Entered
    <2>11. Joined(next) = Joined(call) \ gone
      BY <2>4, <2>8 DEF Joined
    <2> QED BY <2>5, <2>6, <2>8, <2>9, <2>10, <2>11 DEF Moves, Announces, TopologyKept, Attends
  <1> QED BY <1>3, <1>4

\* A ring window that passes ends the call or takes nobody's seat.
LEMMA RingTimeoutMoves ==
    ASSUME NEW call \in Call, CallOK(call), NEW passed \in BOOLEAN
    PROVE  /\ Moves(call, RingTimeout(call, passed))
           /\ RingTimeout(call, passed).call.state # "ended" =>
                Stays(call, RingTimeout(call, passed).call) /\ Joined(RingTimeout(call, passed).call) = Joined(call)
  <1> DEFINE busy == \E u \in Ringing(call) : call.legs[u].busy
             next == [call EXCEPT !.legs = MoveLegs(call.legs, Ringing(call), "missed")]
             reason == IF call.kind = "direct" /\ busy THEN "busy" ELSE "no_answer"
             rung == RingTimeout(call, passed)
  <1>1. CASE call.state = "ended" \/ ~passed \/ Ringing(call) = {}
    BY <1>1, UnchangedMoves DEF RingTimeout, Same, Stays, SeatsKept
  <1>2. CASE ~(call.state = "ended" \/ ~passed \/ Ringing(call) = {})
    <2>1. /\ next \in Call /\ next.state = call.state /\ SeatsKept(call, next)
          /\ TopologyKept(call, next) /\ Joined(next) = Joined(call)
          /\ \A u \in Users : Entered(call, u) => Entered(next, u)
      BY RingingSeats
    <2>2. rung = IF call.state = "ringing" /\ AtMostOne(Joined(call))
                 THEN Finish(next, reason, "missed") ELSE Done(next, EmitOnly)
      BY <1>2 DEF RingTimeout
    <2>3. reason \in Reasons
      BY DEF Reasons
    <2> HIDE DEF next, reason, rung
    <2>4. CASE call.state = "ringing" /\ AtMostOne(Joined(call))
      <3>1. Finish(next, reason, "missed").call.state = "ended"
        BY <2>1 DEF Finish, Done, Call
      <3>2. Moves(call, Finish(next, reason, "missed"))
        BY <2>1, <2>3, FinishMovesFrom
      <3> QED BY <2>2, <2>4, <3>1, <3>2 DEF rung
    <2>5. CASE ~(call.state = "ringing" /\ AtMostOne(Joined(call)))
      <3>1. rung = [code |-> "done", call |-> next, fx |-> EmitOnly]
        BY <2>2, <2>5 DEF Done
      <3>2. EmitOnly.message = "none" /\ EmitOnly.notify = {} /\ EmitOnly.attend = {}
        BY DEF EmitOnly
      <3>3. Stays(call, next)
        BY <2>1 DEF Stays
      <3> QED BY <2>1, <3>1, <3>2, <3>3 DEF Moves, Announces, Attends, rung
    <2> QED BY <2>4, <2>5
  <1> QED BY <1>1, <1>2

\* Two steps, the first of which takes no seat, move what the second moves.
LEMMA StaysThenMoves ==
    ASSUME NEW call, NEW next, NEW r, Stays(call, next),
           \A u \in Users : Entered(call, u) => Entered(next, u), TopologyKept(call, next),
           Joined(next) = Joined(call), Moves(next, r)
    PROVE  Moves(call, r)
  <1>1. Stays(next, r.call) => Stays(call, r.call)
    BY DEF Stays, SeatsKept
  <1>2. Enters(next, r.call) => Enters(call, r.call)
    BY DEF Stays, SeatsKept, Enters
  <1>3. Exits(next, r.call) => Exits(call, r.call)
    BY DEF Stays, SeatsKept, Exits
  <1>4. TopologyKept(call, r.call)
    BY DEF Moves, TopologyKept
  <1> QED BY <1>1, <1>2, <1>3, <1>4 DEF Moves

\* A sweep ends the call, or takes out the legs it found absent, or nobody.
LEMMA SweepMoves ==
    ASSUME NEW call \in Call, CallOK(call),
           NEW ev \in [type : {"sweep"}, due : BOOLEAN, stale : SUBSET Users]
    PROVE  Moves(call, Sweep(call, ev))
  <1> DEFINE rung == RingTimeout(call, ev.due)
             gone == ev.stale \cap Joined(rung.call)
  <1>1. /\ Moves(call, rung)
        /\ rung.call.state # "ended" => Stays(call, rung.call) /\ Joined(rung.call) = Joined(call)
    BY RingTimeoutMoves
  <1>2. rung.call \in Call /\ CallOK(rung.call)
    BY RingTimeoutKeeps DEF Keeps, Result
  <1>3. Sweep(call, ev) = IF rung.call.state = "ended" THEN rung
       ELSE IF gone # {} THEN Exit(rung.call, gone, TRUE)
       ELSE IF Joined(rung.call) = {} THEN Finish(rung.call, "interrupted", "cancelled")
       ELSE rung
    BY DEF Sweep
  <1> HIDE DEF rung
  <1>4. CASE rung.call.state = "ended" \/ (gone = {} /\ Joined(rung.call) # {})
    BY <1>1, <1>3, <1>4
  <1>5. CASE rung.call.state # "ended" /\ gone # {}
    <2>1. Live(rung.call) /\ gone \in SUBSET Joined(rung.call)
      BY <1>2, <1>5 DEF Live, Call
    <2>2. Moves(rung.call, Exit(rung.call, gone, TRUE))
      BY <1>2, <1>5, <2>1, ExitMoves
    <2>3. (\A u \in Users : Entered(call, u) => Entered(rung.call, u)) /\ TopologyKept(call, rung.call)
      BY <1>1 DEF Moves
    <2>4. Moves(call, Exit(rung.call, gone, TRUE))
      BY <1>1, <1>5, <2>2, <2>3, StaysThenMoves
    <2> QED BY <1>3, <1>5, <2>4
  <1>6. CASE rung.call.state # "ended" /\ gone = {} /\ Joined(rung.call) = {}
    <2>1. /\ \A u \in Users : Entered(call, u) => Entered(rung.call, u)
          /\ TopologyKept(call, rung.call) /\ Joined(rung.call) = Joined(call)
      BY <1>1, <1>6 DEF Moves
    <2>2. "interrupted" \in Reasons
      BY DEF Reasons
    <2>3. Moves(call, Finish(rung.call, "interrupted", "cancelled"))
      BY <1>2, <2>1, <2>2, FinishMovesFrom
    <2> QED BY <1>3, <1>6, <2>3
  <1> QED BY <1>4, <1>5, <1>6

\* Whatever the event, a call ends, stays with the same people, is entered by one
\* or left by some, and what its effects announce is true of it.
THEOREM TransitionMoves ==
    ASSUME NEW call \in Call, CallOK(call), NEW ev \in Event
    PROVE  Moves(call, Transition(call, ev))
  <1>1. CASE ev.type \in {"accept", "join", "decline"}
    <2>1. ev \in [type : {"accept", "join", "decline"}, user : Users, tab : Tabs]
      BY <1>1 DEF Event
    <2> QED BY <1>1, <2>1, AnswerMoves, DeclineMoves DEF Transition
  <1>2. CASE ev.type = "leave"
    <2>1. ev \in [type : {"leave"}, user : Users, tab : Tabs, network : BOOLEAN]
      BY <1>2 DEF Event
    <2>2. Transition(call, ev) = Leave(call, ev)
      BY <1>2 DEF Transition
    <2>3. CASE call.state = "ended" \/ ~OwnLeg(call, ev)
      BY <2>2, <2>3, UnchangedMoves DEF Leave
    <2>4. CASE ~(call.state = "ended" \/ ~OwnLeg(call, ev))
      <3>1. Live(call) /\ {ev.user} \in SUBSET Joined(call)
        BY <2>1, <2>4 DEF OwnLeg, Joined, Live, Call
      <3> QED BY <2>1, <2>2, <2>4, <3>1, ExitMoves DEF Leave
    <2> QED BY <2>3, <2>4
  <1>3. CASE ev.type = "cancel"
    BY <1>3, UnchangedMoves, FinishMoves DEF Transition, Cancel, Reasons
  <1>4. CASE ev.type = "end"
    BY <1>4, UnchangedMoves, FinishMoves DEF Transition, EndForAll, Reasons
  <1>5. CASE ev.type = "ring_timeout"
    <2>1. ev \in [type : {"ring_timeout"}, due : BOOLEAN]
      BY <1>5 DEF Event
    <2> QED BY <1>5, <2>1, RingTimeoutMoves DEF Transition
  <1>6. CASE ev.type = "sweep"
    <2>1. ev \in [type : {"sweep"}, due : BOOLEAN, stale : SUBSET Users]
      BY <1>6 DEF Event
    <2> QED BY <1>6, <2>1, SweepMoves DEF Transition
  <1>7. ev.type \in {"accept", "join", "decline", "leave", "cancel", "end", "ring_timeout", "sweep"}
    BY DEF Event
  <1> QED BY <1>1, <1>2, <1>3, <1>4, <1>5, <1>6, <1>7

-----------------------------------------------------------------------------
(* What frames, messages and notices say is true *)

\* What the effects of a frame announce, of the row as it is.
Announced(call, fx) ==
    /\ fx.message # "none" => ~Live(call) /\ fx.message = Outcome(call.reason)
    /\ \A u \in fx.notify : ~Live(call) /\ call.kind = "direct" /\ Outside(call, u)

\* A frame inserts a call that rings, writes what was not refused, and announces
\* what is true.
FrameTrue(rows, f) ==
    /\ f.pc = "insert" => f.row.state = "ringing" /\ f.row.topology = "mesh"
    /\ f.pc = "write" => Transition(f.snap, f.ev).code = "done"
    /\ f.pc \in EffectPcs => Announced(rows[f.call], f.fx)
FramesTrue == \A p \in Processes : FrameTrue(calls, frames[p])

\* Nobody is counted as having entered a call whose row does not say so.
EntrancesOK == \A c \in Calls, u \in Users :
    joins[c][u] = 0 \/ (c \in Rows /\ Entered(calls[c], u))

LogOK == \A c \in Calls :
    /\ messages[c] # "none" => c \in Rows /\ ~Live(calls[c]) /\ messages[c] = Outcome(calls[c].reason)
    /\ \A u \in notified[c] :
            c \in Rows /\ ~Live(calls[c]) /\ calls[c].kind = "direct" /\ Outside(calls[c], u)

TopologyOK == \A c \in Rows : calls[c].kind = "direct" => calls[c].topology # "sfu"

LInv == FramesTrue /\ EntrancesOK /\ LogOK /\ TopologyOK

\* Frames that carry no row nor effects.
LEMMA SilentFrame ==
    ASSUME NEW rows, NEW f, f.pc \in {"idle", "check", "load"}
    PROVE  FrameTrue(rows, f)
  BY DEF FrameTrue, EffectPcs

\* Going on to the calls that are still to be left.
LEMMA NextOfSilent == ASSUME NEW rest, NEW g \in NextOf(rest) PROVE g.pc \in {"idle", "load"}
  <1>1. CASE rest = {}
    BY <1>1 DEF NextOf, Idle
  <1>2. CASE rest # {}
    <2>1. PICK r \in rest : g = [LoadFrame(r[1], r[2]) EXCEPT !.rest = rest \ {r}]
      BY <1>2 DEF NextOf
    <2> QED BY <2>1 DEF LoadFrame
  <1> QED BY <1>1, <1>2

\* The frames after a process goes on with f and the rows stay.
LEMMA TrueStep ==
    ASSUME IInv, LInv, NEW p \in Processes, NEW f, FrameTrue(calls, f), Becomes(p, f), calls' = calls
    PROVE  FramesTrue'
  BY DEF IInv, TypeOK, LInv, FramesTrue, Becomes, Processes

\* An effect done leaves the rest of them with the same frame.
LEMMA ContinueTrue ==
    ASSUME IInv, LInv, NEW p \in Processes, frames[p].pc \in EffectPcs, Continue(p), calls' = calls
    PROVE  FramesTrue'
  <1> DEFINE f == frames[p]
             pc == After(f.pc, f.fx)
             g == [f EXCEPT !.pc = pc]
  <1>1. f \in EffectFrame /\ FrameTrue(calls, f)
    BY EffectFrameOf DEF LInv, FramesTrue
  <1>2. CASE pc = "end"
    <2>1. PICK h \in NextOf(f.rest) : Becomes(p, h)
      BY <1>2 DEF Continue
    <2>2. FrameTrue(calls, h)
      BY NextOfSilent, SilentFrame
    <2> QED BY <2>1, <2>2, TrueStep
  <1>3. CASE pc # "end"
    <2>1. Becomes(p, g)
      BY <1>3 DEF Continue
    <2>2. pc \in EffectPcs
      BY <1>3 DEF After, AfterTimers, AfterMessage, EffectPcs
    <2>3. g.pc = pc /\ g.call = f.call /\ g.fx = f.fx
      BY <1>1 DEF EffectFrame
    <2>4. FrameTrue(calls, g)
      BY <1>1, <2>2, <2>3 DEF FrameTrue, EffectPcs
    <2> QED BY <2>1, <2>4, TrueStep
  <1> QED BY <1>2, <1>3

\* Steps that write no row, message nor notice.
LEMMA CalmLog ==
    ASSUME IInv, LInv, FramesTrue', calls' = calls, joins' = joins, messages' = messages,
           notified' = notified
    PROVE  LInv'
  BY DEF LInv, EntrancesOK, LogOK, TopologyOK, Rows

\* What a frame writes over a row nobody wrote since ends it, or leaves its people
\* where they were, or lets one in or some out; and its effects say so.
LEMMA WrittenMoves ==
    ASSUME IInv, NEW p \in Processes, frames[p].pc = "write",
           Unwritten(frames[p].call, frames[p].snap)
    PROVE  LET old == calls[frames[p].call]
               row == Written(frames[p].snap, frames[p].ev)
           IN
           /\ Announced(row, Transition(frames[p].snap, frames[p].ev).fx)
           /\ TopologyKept(old, row)
           /\ Attends(Joined(old), [call |-> row, fx |-> Transition(frames[p].snap, frames[p].ev).fx])
           /\ \A u \in Users : Entered(old, u) => Entered(row, u)
           /\ Ends(row) \/ Stays(old, row) \/ Enters(old, row) \/ Exits(old, row)
  <1> DEFINE f == frames[p]
             r == Transition(f.snap, f.ev)
             next == r.call
             row == [next EXCEPT !.v = f.snap.v + 1]
  <1>1. /\ f \in WriteFrame /\ f.call \in Rows /\ f.snap = calls[f.call]
        /\ f.snap \in Call /\ CallOK(f.snap) /\ f.ev \in Event
    BY WrittenRow DEF IInv, TypeOK, CallsOK, WriteFrame
  <1>2. Moves(f.snap, r)
    BY <1>1, TransitionMoves
  <1>3. next \in Call
    BY <1>1, TransitionKeeps DEF Keeps, Result
  <1> HIDE DEF r
  <1>4. /\ row.state = next.state /\ row.legs = next.legs /\ row.reason = next.reason
        /\ row.kind = next.kind /\ row.topology = next.topology
    BY <1>3 DEF Call
  <1>5. row = Written(f.snap, f.ev)
    BY DEF Written, r
  <1> HIDE DEF row
  <1>6. Announced(row, r.fx)
    BY <1>2, <1>4 DEF Moves, Announces, Announced, Ends, Live, Outside, Entered
  <1>7. \A u \in Users : Entered(f.snap, u) => Entered(row, u)
    BY <1>2, <1>4 DEF Moves, Entered
  <1>8. Ends(row) \/ Stays(f.snap, row) \/ Enters(f.snap, row) \/ Exits(f.snap, row)
    BY <1>2, <1>4 DEF Moves, Ends, Stays, SeatsKept, Enters, Exits
  <1>9. TopologyKept(f.snap, row)
    BY <1>2, <1>4 DEF Moves, TopologyKept
  <1>10. Attends(Joined(f.snap), [call |-> row, fx |-> r.fx])
    BY <1>2, <1>4 DEF Moves, Attends, Joined
  <1> QED BY <1>1, <1>5, <1>6, <1>7, <1>8, <1>9, <1>10 DEF r

\* Writing a live row: nobody had announced anything of it.
LEMMA StoreLog ==
    ASSUME IInv, LInv, NEW p \in Processes, frames[p].pc = "write",
           Unwritten(frames[p].call, frames[p].snap),
           Store(frames[p].call, Written(frames[p].snap, frames[p].ev)),
           NEW h, FrameTrue(calls', h), Becomes(p, h), messages' = messages, notified' = notified
    PROVE  LInv'
  <1> DEFINE c == frames[p].call
             row == Written(frames[p].snap, frames[p].ev)
  <1>1. c \in Rows /\ c \in Calls /\ Live(calls[c]) /\ row \in Call
    BY WrittenRow
  <1>2. /\ \A u \in Users : Entered(calls[c], u) => Entered(row, u)
        /\ TopologyKept(calls[c], row)
    BY WrittenMoves
  <1>3. /\ calls' = [calls EXCEPT ![c] = row]
        /\ joins' = [joins EXCEPT ![c] =
               [u \in Users |-> @[u] + IF u \in Joined(row) \ Joined(calls[c]) THEN 1 ELSE 0]]
    BY DEF Store
  <1> HIDE DEF c, row
  <1>4. Rows' = Rows /\ \A d \in Rows : calls'[d] = IF d = c THEN row ELSE calls[d]
    BY <1>3 DEF Rows, IInv, TypeOK
  <1>5. \A q \in Processes : FrameTrue(calls', frames[q])
    <2> SUFFICES ASSUME NEW q \in Processes PROVE FrameTrue(calls', frames[q])
      OBVIOUS
    <2>1. FrameTrue(calls, frames[q])
      BY DEF LInv, FramesTrue
    <2>2. frames[q].pc \in EffectPcs => frames[q].call \in Rows
      BY EffectFrameOf
    <2> QED BY <1>1, <1>4, <2>1, <2>2 DEF FrameTrue, Announced
  <1>6. FramesTrue'
    BY <1>5 DEF IInv, TypeOK, FramesTrue, Becomes, Processes
  <1>7. EntrancesOK'
    <2> SUFFICES ASSUME NEW d \in Calls, NEW u \in Users
                 PROVE  joins'[d][u] = 0 \/ (d \in Rows /\ Entered(calls'[d], u))
      BY <1>4 DEF EntrancesOK
    <2>1. joins[d][u] = 0 \/ (d \in Rows /\ Entered(calls[d], u))
      BY DEF LInv, EntrancesOK
    <2>2. CASE d # c
      BY <1>3, <1>4, <2>1, <2>2 DEF IInv, TypeOK, Entered
    <2>3. CASE d = c /\ ~Entered(row, u)
      <3>1. u \notin Joined(row) /\ joins[c][u] = 0
        BY <1>2, <2>1, <2>3 DEF Entered, Joined
      <3> QED BY <1>1, <1>3, <2>3, <3>1 DEF IInv, TypeOK
    <2>4. CASE d = c /\ Entered(row, u)
      BY <1>1, <1>4, <2>4
    <2> QED BY <2>2, <2>3, <2>4
  <1>8. LogOK'
    BY <1>1, <1>4 DEF LInv, LogOK
  <1>9. TopologyOK'
    BY <1>1, <1>2, <1>4 DEF LInv, TopologyOK, TopologyKept
  <1> QED BY <1>6, <1>7, <1>8, <1>9 DEF LInv

\* The insert makes a row nobody has said anything of.
LEMMA InsertLog == ASSUME IInv, LInv, NEW p \in Processes, InsertCall(p) PROVE LInv'
  <1> DEFINE row == frames[p].row
  <1>1. row \in Call /\ CallOK(row) /\ row.state = "ringing" /\ row.topology = "mesh"
    BY FrameByPc DEF IInv, TypeOK, FramesOK, FrameOK, InsertFrame, Processes, InsertCall,
                     LInv, FramesTrue, FrameTrue
  <1>2. messages' = messages /\ notified' = notified
    BY DEF InsertCall
  <1>3. CASE UniqueViolation(row)
    <2>1. Becomes(p, Idle) /\ calls' = calls /\ joins' = joins
      BY <1>3 DEF InsertCall
    <2>2. FrameTrue(calls, Idle)
      BY SilentFrame DEF Idle
    <2> QED BY <1>2, <2>1, <2>2, TrueStep, CalmLog
  <1>4. CASE ~UniqueViolation(row)
    <2> DEFINE frameOf(c) == [pc |-> "sync", call |-> c, row |-> row, rest |-> {},
                              fx |-> [EmitOnly EXCEPT !.ring = "start"]]
    <2>1. PICK c \in Calls \ Rows :
            /\ calls' = [d \in Rows \cup {c} |-> IF d = c THEN row ELSE calls[d]]
            /\ joins' = [joins EXCEPT ![c][row.initiator] = @ + 1]
            /\ Becomes(p, frameOf(c))
      BY <1>4 DEF InsertCall
    <2>2. /\ Rows' = Rows \cup {c} /\ calls'[c] = row
          /\ \A d \in Rows : calls'[d] = calls[d]
      BY <2>1 DEF Rows
    <2>3. FrameTrue(calls', frameOf(c))
      BY DEF FrameTrue, Announced, EmitOnly
    <2>4. \A q \in Processes : FrameTrue(calls', frames[q])
      <3> SUFFICES ASSUME NEW q \in Processes PROVE FrameTrue(calls', frames[q])
        OBVIOUS
      <3>1. FrameTrue(calls, frames[q])
        BY DEF LInv, FramesTrue
      <3>2. frames[q].pc \in EffectPcs => frames[q].call \in Rows
        BY EffectFrameOf
      <3> QED BY <2>2, <3>1, <3>2 DEF FrameTrue
    <2> HIDE DEF frameOf
    <2>5. FramesTrue'
      BY <2>1, <2>3, <2>4 DEF IInv, TypeOK, FramesTrue, Becomes, Processes
    <2>6. EntrancesOK'
      <3>1. row.initiator \in Users /\ Entered(row, row.initiator)
        BY <1>1 DEF Call, CallOK, RingingOK, Joined, Entered
      <3> HIDE DEF row
      <3> SUFFICES ASSUME NEW d \in Calls, NEW u \in Users
                   PROVE  joins'[d][u] = 0 \/ (d \in Rows' /\ Entered(calls'[d], u))
        BY DEF EntrancesOK
      <3>2. joins[d][u] = 0 \/ (d \in Rows /\ Entered(calls[d], u))
        BY DEF LInv, EntrancesOK
      <3>3. CASE d = c /\ u = row.initiator
        BY <2>2, <3>1, <3>3
      <3>4. CASE ~(d = c /\ u = row.initiator)
        <4>1. joins'[d][u] = joins[d][u]
          BY <2>1, <3>1, <3>4 DEF IInv, TypeOK
        <4> QED BY <2>2, <3>2, <4>1 DEF Entered
      <3> QED BY <3>3, <3>4
    <2>7. LogOK'
      BY <1>2, <2>2 DEF LInv, LogOK, Outside, Entered
    <2>8. TopologyOK'
      BY <1>1, <2>2 DEF LInv, TopologyOK
    <2> QED BY <2>5, <2>6, <2>7, <2>8 DEF LInv
  <1> QED BY <1>3, <1>4

\* The message says what the row says, because the frame that carries it does.
Says(p) == LET f == frames[p] IN
    /\ f.pc = "message" /\ calls' = calls /\ joins' = joins
    /\ \/ messages' = messages
       \/ messages[f.call] = "none" /\ messages' = [messages EXCEPT ![f.call] = f.fx.message]
    /\ \/ notified' = notified
       \/ notified' = [notified EXCEPT ![f.call] = @ \cup f.fx.notify]

\* It keeps what is said true.
LEMMA SaysLog == ASSUME IInv, LInv, NEW p \in Processes, Says(p), FramesTrue' PROVE LInv'
  <1> DEFINE f == frames[p]
  <1>1. /\ f.call \in Calls /\ f.call \in Rows /\ Announced(calls[f.call], f.fx)
        /\ messages \in [Calls -> Outcomes \cup {"none"}] /\ notified \in [Calls -> SUBSET Users]
    BY EffectFrameOf DEF Says, EffectPcs, LInv, FramesTrue, FrameTrue, IInv, TypeOK
  <1>2. Rows' = Rows /\ calls' = calls /\ joins' = joins
    BY DEF Says, Rows
  <1>3. ASSUME NEW c \in Calls, messages'[c] # "none"
        PROVE  c \in Rows /\ ~Live(calls[c]) /\ messages'[c] = Outcome(calls[c].reason)
    <2>1. messages'[c] = messages[c] \/ (c = f.call /\ messages'[c] = f.fx.message)
      BY <1>1 DEF Says
    <2> QED BY <1>1, <1>3, <2>1 DEF Announced, LInv, LogOK
  <1>4. ASSUME NEW c \in Calls, NEW u \in notified'[c]
        PROVE  c \in Rows /\ ~Live(calls[c]) /\ calls[c].kind = "direct" /\ Outside(calls[c], u)
    <2>1. u \in notified[c] \/ (c = f.call /\ u \in f.fx.notify)
      BY <1>1, <1>4 DEF Says
    <2> QED BY <1>1, <1>4, <2>1 DEF Announced, LInv, LogOK
  <1>5. LogOK'
    BY <1>2, <1>3, <1>4 DEF LogOK
  <1>6. EntrancesOK' /\ TopologyOK'
    BY <1>2 DEF LInv, EntrancesOK, TopologyOK
  <1> QED BY <1>5, <1>6 DEF LInv

-----------------------------------------------------------------------------
(* Every step is one of four: it inserts a row, it writes one, it may say   *)
(* how a call ended, or it touches neither rows nor messages               *)

Stores(p) == LET f == frames[p] IN
    /\ f.pc = "write" /\ Unwritten(f.call, f.snap) /\ Store(f.call, Written(f.snap, f.ev))
    /\ messages' = messages /\ notified' = notified

Calm == calls' = calls /\ joins' = joins /\ messages' = messages /\ notified' = notified

\* A request touches nothing.
LEMMA RequestCalm ==
    ASSUME IInv, LInv, Request
    PROVE  Calm /\ \E p \in Processes : \E f : FrameTrue(calls, f) /\ Becomes(p, f)
  <1> DEFINE Goal == Calm /\ \E p \in Processes : \E f : FrameTrue(calls, f) /\ Becomes(p, f)
  <1>1. ASSUME NEW p \in Procs, NEW c, NEW ev, AskFor(p, c, ev) PROVE Goal
    <2>1. LoadFrame(c, ev).pc = "load"
      BY DEF LoadFrame
    <2>2. FrameTrue(calls, LoadFrame(c, ev)) /\ p \in Processes
      BY <2>1, SilentFrame DEF Processes
    <2> HIDE DEF Calm
    <2>3. Calm /\ Becomes(p, LoadFrame(c, ev))
      BY <1>1 DEF AskFor, Calm, tables
    <2> QED BY <2>2, <2>3
  <1>2. ASSUME NEW p \in Procs, NEW k, NEW u, NEW t, StartCall(p, k, u, t) PROVE Goal
    <2>1. PICK wanted :
            Becomes(p, [pc |-> "check", ev |-> [conv |-> k, user |-> u, tab |-> t, wanted |-> wanted]])
      BY <1>2 DEF StartCall
    <2> DEFINE f == [pc |-> "check", ev |-> [conv |-> k, user |-> u, tab |-> t, wanted |-> wanted]]
    <2>2. FrameTrue(calls, f) /\ p \in Processes
      BY SilentFrame DEF Processes
    <2>3. Calm
      BY <1>2 DEF StartCall, Calm, tables
    <2> QED BY <2>1, <2>2, <2>3
  <1> HIDE DEF Goal
  <1>3. ASSUME NEW p \in Procs, NEW c, NEW u, NEW t,
               AcceptCall(p, c, u, t) \/ JoinCall(p, c, u, t) \/ DeclineCall(p, c, u, t)
                    \/ LeaveCall(p, c, u, t)
        PROVE  Goal
    BY <1>1, <1>3, Zenon DEF AcceptCall, JoinCall, DeclineCall, LeaveCall
  <1>4. ASSUME NEW p \in Procs, NEW c, NEW u, CancelCall(p, c, u) \/ EndCall(p, c, u) PROVE Goal
    BY <1>1, <1>4, Zenon DEF CancelCall, EndCall
  <1>5. Goal
    BY <1>2, <1>3, <1>4, Zenon DEF Request
  <1> QED BY <1>5 DEF Goal

\* A step that writes no row and says nothing.
LEMMA StepCalm ==
    ASSUME IInv, LInv, NEW p \in Processes,
           CheckCall(p) \/ Load(p) \/ SyncRoom(p) \/ SetActiveCall(p) \/ SetTimers(p)
                \/ LeaveOtherCalls(p) \/ SaveAttendance(p) \/ StatementFails(p)
    PROVE  Calm /\ FramesTrue'
  <1>1. Calm
    BY DEF CheckCall, Load, SyncRoom, SetActiveCall, SetTimers, LeaveOtherCalls, SaveAttendance,
           StatementFails, Calm, tables
  <1>2. calls' = calls
    BY <1>1 DEF Calm
  <1>3. FrameTrue(calls, Idle)
    BY SilentFrame DEF Idle
  <1>4. CASE CheckCall(p)
    <2> DEFINE ev == frames[p].ev
               busy == {u \in ev.wanted : JoinedElsewhere(u)}
               row == NewCall(ev.conv, Kind[ev.conv], ev.user, ev.tab, ev.wanted, busy)
    <2>1. row.state = "ringing" /\ row.topology = "mesh"
      BY DEF NewCall
    <2>2. PICK f \in {Idle, [pc |-> "insert", row |-> row]} : Becomes(p, f)
      BY <1>4 DEF CheckCall
    <2> HIDE DEF row
    <2>3. FrameTrue(calls, f)
      BY <1>3, <2>1, <2>2 DEF FrameTrue, EffectPcs
    <2> QED BY <1>1, <1>2, <2>2, <2>3, TrueStep
  <1>5. CASE Load(p)
    <2> DEFINE f == frames[p]
               g == [pc |-> "write", call |-> f.call, ev |-> f.ev, tries |-> f.tries,
                     rest |-> f.rest, snap |-> calls[f.call]]
    <2>1. f \in LoadingFrame /\ f.call \in Rows /\ f.call \in Calls /\ f.ev \in Event
      BY <1>5, FrameByPc DEF IInv, TypeOK, FramesOK, FrameOK, Processes, Load, LoadingFrame, Rows
    <2>2. Transition(calls[f.call], f.ev).code \in {"done", "same", "refused"}
      BY <2>1, TransitionKeeps DEF Keeps, Result, IInv, TypeOK, CallsOK
    <2>3. \/ Becomes(p, Idle)
          \/ Becomes(p, g) /\ Transition(calls[f.call], f.ev).code = "done"
          \/ \E h \in NextOf(f.rest) : Becomes(p, h)
      BY <1>5, <2>2 DEF Load
    <2>4. /\ Transition(calls[f.call], f.ev).code = "done" => FrameTrue(calls, g)
          /\ \A h \in NextOf(f.rest) : FrameTrue(calls, h)
      BY SilentFrame, NextOfSilent DEF FrameTrue, EffectPcs
    <2> HIDE DEF g
    <2> QED BY <1>1, <1>2, <1>3, <2>3, <2>4, TrueStep
  <1>6. CASE SyncRoom(p) \/ SetActiveCall(p) \/ SetTimers(p) \/ SaveAttendance(p)
    <2>1. frames[p].pc \in EffectPcs /\ Continue(p)
      BY <1>6 DEF SyncRoom, SetActiveCall, SetTimers, SaveAttendance, EffectPcs
    <2> QED BY <1>1, <1>2, <2>1, ContinueTrue
  <1>7. CASE LeaveOtherCalls(p)
    <2>1. \E rest : \E g \in NextOf(rest) : Becomes(p, g)
      BY <1>7 DEF LeaveOtherCalls
    <2>2. PICK g : g.pc \in {"idle", "load"} /\ Becomes(p, g)
      BY <2>1, NextOfSilent
    <2>3. FrameTrue(calls, g)
      BY <2>2, SilentFrame
    <2> QED BY <1>1, <1>2, <2>2, <2>3, TrueStep
  <1>8. CASE StatementFails(p)
    <2>1. Becomes(p, Idle)
      BY <1>8 DEF StatementFails
    <2> QED BY <1>1, <1>2, <1>3, <2>1, TrueStep
  <1> QED BY <1>4, <1>5, <1>6, <1>7, <1>8

\* A compare-and-swap that is not refused carries the effects of what it wrote.
LEMMA WriteKind ==
    ASSUME IInv, LInv, NEW p \in Processes, Write(p) \/ AnswerLost(p)
    PROVE  \/ Calm /\ FramesTrue'
           \/ Stores(p) /\ \E h : FrameTrue(calls', h) /\ Becomes(p, h)
  <1> DEFINE f == frames[p]
             row == Written(f.snap, f.ev)
             fx == Transition(f.snap, f.ev).fx
             g == [pc |-> "sync", call |-> f.call, row |-> row, rest |-> f.rest, fx |-> fx]
             again == [pc |-> "load", call |-> f.call, ev |-> f.ev, tries |-> f.tries + 1, rest |-> f.rest]
  <1>1. \A rows : FrameTrue(rows, Idle) /\ FrameTrue(rows, again)
    BY SilentFrame DEF Idle
  <1>2. CASE Write(p) /\ Unwritten(f.call, f.snap)
    <2>1. f.pc = "write" /\ Store(f.call, row) /\ Becomes(p, g) /\ Stores(p)
      BY <1>2 DEF Write, Stores
    <2>2. f.call \in Rows /\ Announced(row, fx)
      BY <1>2, <2>1, WrittenRow, WrittenMoves
    <2> HIDE DEF row, fx
    <2>3. calls'[f.call] = row
      BY <2>1, <2>2 DEF Store, IInv, TypeOK
    <2>4. FrameTrue(calls', g)
      BY <2>2, <2>3 DEF FrameTrue
    <2> QED BY <2>1, <2>4
  <1>3. CASE Write(p) /\ ~Unwritten(f.call, f.snap)
    <2>1. Calm /\ (Becomes(p, Idle) \/ Becomes(p, again))
      BY <1>3 DEF Write, Calm
    <2> HIDE DEF again
    <2> QED BY <1>1, <2>1, TrueStep DEF Calm
  <1>4. CASE AnswerLost(p)
    <2>1. Stores(p) /\ Becomes(p, Idle)
      BY <1>4 DEF AnswerLost, Stores
    <2> QED BY <1>1, <2>1
  <1> QED BY <1>2, <1>3, <1>4

\* The message is posted, or a failed effect left it posted and its notices not.
LEMMA SayKind ==
    ASSUME IInv, LInv, NEW p \in Processes, PostMessage(p) \/ EffectFails(p)
    PROVE  (Calm \/ Says(p)) /\ FramesTrue'
  <1> DEFINE f == frames[p]
  <1>1. f.pc \in EffectPcs /\ calls' = calls
    BY DEF PostMessage, EffectFails, EffectPcs
  <1>2. f \in EffectFrame /\ FrameTrue(calls, f)
    BY <1>1, EffectFrameOf DEF LInv, FramesTrue
  <1>3. Calm \/ Says(p)
    <2>1. CASE PostMessage(p)
      BY <2>1 DEF PostMessage, Says
    <2>2. CASE EffectFails(p)
      BY <2>2 DEF EffectFails, Says, Calm
    <2> QED BY <2>1, <2>2
  <1>4. FramesTrue'
    <2>1. CASE Continue(p)
      BY <1>1, <2>1, ContinueTrue
    <2>2. CASE Becomes(p, Idle)
      <3>1. FrameTrue(calls, Idle)
        BY SilentFrame DEF Idle
      <3> QED BY <1>1, <2>2, <3>1, TrueStep
    <2>3. CASE Becomes(p, [f EXCEPT !.pc = "timers"])
      <3> DEFINE g == [f EXCEPT !.pc = "timers"]
      <3>1. g.pc = "timers" /\ g.call = f.call /\ g.fx = f.fx
        BY <1>2 DEF EffectFrame
      <3>2. FrameTrue(calls, g)
        BY <1>1, <1>2, <3>1 DEF FrameTrue, EffectPcs
      <3> QED BY <1>1, <2>3, <3>2, TrueStep
    <2>4. Continue(p) \/ Becomes(p, Idle) \/ Becomes(p, [f EXCEPT !.pc = "timers"])
      BY DEF PostMessage, EffectFails
    <2> QED BY <2>1, <2>2, <2>3, <2>4
  <1> QED BY <1>3, <1>4

\* Timers, sweeps and restarts start or forget frames and touch nothing else.
LEMMA TimersCalm ==
    ASSUME IInv, LInv,
           \/ \E c \in Calls : RingWindowPasses(c) \/ SweepCall(c)
           \/ \E c \in Calls, p \in Procs : RingTimerFires(p, c) \/ \E u \in Users : GraceTimerFires(p, c, u)
           \/ \E c \in Calls, u \in Users : GracePasses(c, u)
           \/ SweepBegins \/ SweepEnds \/ Restart \/ UNCHANGED vars
    PROVE  Calm /\ FramesTrue'
  <1>1. Calm
    BY DEF RingWindowPasses, SweepCall, RingTimerFires, GraceTimerFires, GracePasses, SweepBegins,
           SweepEnds, Restart, vars, Calm, tables
  <1>2. \A c, ev : FrameTrue(calls, LoadFrame(c, ev))
    BY SilentFrame DEF LoadFrame
  <1>3. \/ frames' = frames
        \/ frames' = [p \in Processes |-> Idle]
        \/ \E p \in Processes : \E c, ev : Becomes(p, LoadFrame(c, ev))
    <2>1. ASSUME NEW c \in Calls, SweepCall(c)
          PROVE  \E p \in Processes : \E d, ev : Becomes(p, LoadFrame(d, ev))
      BY <2>1 DEF SweepCall, Processes
    <2>2. ASSUME NEW c \in Calls, NEW p \in Procs, RingTimerFires(p, c)
          PROVE  \E q \in Processes : \E d, ev : Becomes(q, LoadFrame(d, ev))
      BY <2>2 DEF RingTimerFires, Processes
    <2>3. ASSUME NEW c \in Calls, NEW p \in Procs, NEW u \in Users, GraceTimerFires(p, c, u)
          PROVE  \E q \in Processes : \E d, ev : Becomes(q, LoadFrame(d, ev))
      BY <2>3 DEF GraceTimerFires, Processes
    <2>4. CASE Restart
      BY <2>4 DEF Restart, Processes
    <2>5. CASE \/ \E c \in Calls : RingWindowPasses(c)
               \/ \E c \in Calls, u \in Users : GracePasses(c, u)
               \/ SweepBegins \/ SweepEnds \/ UNCHANGED vars
      BY <2>5 DEF RingWindowPasses, GracePasses, SweepBegins, SweepEnds, vars
    <2> QED BY <2>1, <2>2, <2>3, <2>4, <2>5
  <1>4. FramesTrue'
    <2>1. CASE frames' = frames
      BY <1>1, <2>1 DEF Calm, LInv, FramesTrue
    <2>2. CASE frames' = [p \in Processes |-> Idle]
      BY <2>2, SilentFrame DEF FramesTrue, Idle
    <2>3. CASE \E p \in Processes : \E c, ev : Becomes(p, LoadFrame(c, ev))
      BY <1>1, <1>2, <2>3, TrueStep DEF Calm
    <2> QED BY <1>3, <2>1, <2>2, <2>3
  <1> QED BY <1>1, <1>4

\* Those are all the steps there are.
LEMMA StepKind ==
    ASSUME IInv, LInv, [Next]_vars
    PROVE  \/ Calm /\ FramesTrue'
           \/ \E p \in Processes : InsertCall(p)
           \/ \E p \in Processes : Stores(p) /\ \E h : FrameTrue(calls', h) /\ Becomes(p, h)
           \/ \E p \in Processes : Says(p) /\ FramesTrue'
  <1>1. CASE Request
    BY <1>1, RequestCalm, TrueStep DEF Calm
  <1>2. ASSUME NEW p \in Processes, Step(p)
        PROVE  \/ Calm /\ FramesTrue'
               \/ InsertCall(p)
               \/ Stores(p) /\ (\E h : FrameTrue(calls', h) /\ Becomes(p, h))
               \/ Says(p) /\ FramesTrue'
    BY <1>2, StepCalm, WriteKind, SayKind DEF Step
  <1>3. ASSUME NEW p \in Processes, StatementFails(p) \/ AnswerLost(p) \/ EffectFails(p)
        PROVE  \/ Calm /\ FramesTrue'
               \/ Stores(p) /\ (\E h : FrameTrue(calls', h) /\ Becomes(p, h))
               \/ Says(p) /\ FramesTrue'
    BY <1>3, StepCalm, WriteKind, SayKind
  <1>4. CASE \/ \E c \in Calls : RingWindowPasses(c) \/ SweepCall(c)
             \/ \E c \in Calls, p \in Procs : RingTimerFires(p, c) \/ \E u \in Users : GraceTimerFires(p, c, u)
             \/ \E c \in Calls, u \in Users : GracePasses(c, u)
             \/ SweepBegins \/ SweepEnds \/ Restart \/ UNCHANGED vars
    BY <1>4, TimersCalm
  <1> QED BY <1>1, <1>2, <1>3, <1>4 DEF Next, FlowStep, Processes

\* Nothing is said at the start.
LEMMA InitLInv == ASSUME Init PROVE LInv
  <1>1. FramesTrue
    BY SilentFrame DEF Init, FramesTrue, Idle, Processes
  <1>2. EntrancesOK /\ LogOK /\ TopologyOK
    BY DEF Init, EntrancesOK, LogOK, TopologyOK, Rows
  <1> QED BY <1>1, <1>2 DEF LInv

\* Every step keeps what is said true.
LEMMA NextLInv == ASSUME IInv, LInv, [Next]_vars PROVE LInv'
  <1>1. CASE Calm /\ FramesTrue'
    BY <1>1, CalmLog DEF Calm
  <1>2. ASSUME NEW p \in Processes, Stores(p), NEW h, FrameTrue(calls', h), Becomes(p, h) PROVE LInv'
    BY <1>2, StoreLog DEF Stores
  <1> QED BY <1>1, <1>2, StepKind, InsertLog, SaysLog

\* What is said of a call is said once it is over and is true of it.
THEOREM LogInvariance == Spec => []LInv
  <1>1. Init => LInv
    BY InitLInv
  <1>2. IInv /\ LInv /\ [Next]_vars => LInv'
    BY NextLInv
  <1> QED BY <1>1, <1>2, Invariance, PTL DEF Spec

\* The message of a call says how it ended, and its missed notice reaches only
\* people of a direct call who never entered it, whatever was lost or came late.
THEOREM MessagesOK == Spec => []MessageOK
  <1>1. IInv /\ LInv => MessageOK
    BY DEF IInv, TypeOK, LInv, LogOK, EntrancesOK, MessageOK, Outside
  <1> QED BY <1>1, Invariance, LogInvariance, PTL

\* Once a group call is on the media server, it stays there.
THEOREM SfuStays == Spec => SfuIsKept
  <1>1. ASSUME IInv, LInv, [Next]_vars, NEW c \in Rows, calls[c].topology = "sfu"
        PROVE  calls'[c].topology = "sfu"
    <2>1. CASE Calm \/ \E p \in Processes : Says(p)
      BY <1>1, <2>1 DEF Calm, Says
    <2>2. ASSUME NEW p \in Processes, InsertCall(p) PROVE calls'[c] = calls[c]
      BY <2>2 DEF InsertCall, Rows
    <2>3. ASSUME NEW p \in Processes, Stores(p) PROVE calls'[c].topology = "sfu"
      <3> DEFINE d == frames[p].call
                 row == Written(frames[p].snap, frames[p].ev)
      <3>1. d \in Rows /\ TopologyKept(calls[d], row) /\ calls' = [calls EXCEPT ![d] = row]
        BY <1>1, <2>3, WrittenRow, WrittenMoves DEF Stores, Store
      <3> HIDE DEF d, row
      <3>2. calls'[c] = IF c = d THEN row ELSE calls[c]
        BY <1>1, <3>1 DEF IInv, TypeOK
      <3> QED BY <1>1, <3>1, <3>2 DEF TopologyKept, LInv, TopologyOK
    <2> QED BY <1>1, <2>1, <2>2, <2>3, StepKind
  <1>2. IInv /\ LInv /\ [Next]_vars =>
            [\A c \in Rows : calls[c].topology = "sfu" => calls'[c].topology = "sfu"]_vars
    BY <1>1
  <1> QED BY <1>2, Invariance, LogInvariance, PTL DEF Spec, SfuIsKept

\* Only its own compare-and-swap takes a frame from deciding to its effects.
LEMMA ToEffects ==
    ASSUME IInv, [Next]_vars, NEW p \in Processes, frames[p].pc = "write", frames'[p].pc = "sync"
    PROVE  Write(p) /\ Unwritten(frames[p].call, frames[p].snap)
  <1> DEFINE Goal == Write(p) /\ Unwritten(frames[p].call, frames[p].snap)
  <1>1. \A q \in Processes : \A f : Becomes(q, f) => frames'[p] = IF q = p THEN f ELSE frames[p]
    BY DEF IInv, TypeOK, Becomes, Processes
  <1>2. frames'[p] # frames[p] /\ frames[p] # Idle
    BY DEF Idle
  <1>3. \A q \in Processes : \A f : Becomes(q, f) => q = p /\ f.pc = "sync"
    BY <1>1, <1>2
  <1>4. \A q \in Processes : Continue(q) => q = p
    BY <1>3, Zenon DEF Continue
  <1>5. ~\E q \in Processes : Becomes(q, Idle)
    BY <1>3 DEF Idle
  <1>6. \A q \in Procs : Free(q) => ~\E f : Becomes(q, f)
    BY <1>2, <1>3 DEF Free, Processes
  <1>7. ~Request
    <2>1. \A q, c, ev : ~AskFor(q, c, ev)
      BY <1>6 DEF AskFor, Free
    <2>2. \A q, k, u, t : ~StartCall(q, k, u, t)
      BY <1>6 DEF StartCall, Free
    <2> QED
      BY <2>1, <2>2, Zenon
         DEF Request, AcceptCall, JoinCall, DeclineCall, LeaveCall, CancelCall, EndCall
  <1>8. ASSUME NEW q \in Processes, Step(q) PROVE Goal
    <2>1. CASE Write(q)
      <3>1. q = p
        BY <1>3, <2>1, Zenon DEF Write
      <3>2. Unwritten(frames[p].call, frames[p].snap)
        <4> DEFINE again == [pc |-> "load", call |-> frames[p].call, ev |-> frames[p].ev,
                             tries |-> frames[p].tries + 1, rest |-> frames[p].rest]
        <4>1. again.pc # "sync" /\ Idle.pc # "sync"
          BY DEF Idle
        <4> HIDE DEF again
        <4>2. ~(Becomes(p, Idle) \/ Becomes(p, again))
          BY <1>3, <4>1
        <4> QED BY <2>1, <3>1, <4>2 DEF Write, again
      <3> QED BY <2>1, <3>1, <3>2
    <2>2. CASE CheckCall(q) \/ InsertCall(q) \/ Load(q) \/ LeaveOtherCalls(q)
      <3>1. frames[q].pc # "write" /\ \E f : Becomes(q, f)
        <4>1. CASE CheckCall(q)
          BY <4>1 DEF CheckCall
        <4>2. CASE InsertCall(q)
          BY <4>2 DEF InsertCall
        <4>3. CASE Load(q)
          <5>1. frames'[p] # frames[p] /\ frames[q].pc = "load"
            BY <1>2, <4>3 DEF Load
          <5>2. \E f : Becomes(q, f)
            <6>1. frames[q] \in LoadingFrame /\ FrameOK(calls, frames[q])
              BY <5>1, FrameByPc DEF IInv, TypeOK, FramesOK, Processes
            <6>2. Transition(calls[frames[q].call], frames[q].ev).code \in {"done", "same", "refused"}
              BY <5>1, <6>1, TransitionKeeps
                 DEF Keeps, Result, IInv, TypeOK, CallsOK, FrameOK, LoadingFrame, Rows
            <6> QED BY <4>3, <6>2 DEF Load
          <5> QED BY <5>1, <5>2
        <4>4. CASE LeaveOtherCalls(q)
          BY <4>4 DEF LeaveOtherCalls
        <4> QED BY <2>2, <4>1, <4>2, <4>3, <4>4
      <3> QED BY <1>3, <3>1
    <2>3. CASE SyncRoom(q) \/ SetActiveCall(q) \/ SetTimers(q) \/ PostMessage(q) \/ SaveAttendance(q)
      <3>1. frames[q].pc # "write" /\ Continue(q)
        BY <2>3 DEF SyncRoom, SetActiveCall, SetTimers, PostMessage, SaveAttendance
      <3> QED BY <1>4, <3>1
    <2> QED BY <1>8, <2>1, <2>2, <2>3 DEF Step
  <1>9. ASSUME NEW q \in Processes, StatementFails(q) \/ AnswerLost(q) \/ EffectFails(q) PROVE FALSE
    <2>1. EffectFails(q)
      BY <1>5, <1>9 DEF StatementFails, AnswerLost
    <2>2. frames[q].pc # "write" /\ (Continue(q) \/ \E f : Becomes(q, f))
      BY <2>1 DEF EffectFails
    <2> QED BY <1>3, <1>4, <2>2
  <1>10. ~\E c \in Calls, q \in Procs : RingTimerFires(q, c) \/ \E u \in Users : GraceTimerFires(q, c, u)
    BY <1>6 DEF RingTimerFires, GraceTimerFires
  <1>11. ~\E c \in Calls : SweepCall(c)
    <2>1. frames[Sweeper] = Idle => ~\E f : Becomes(Sweeper, f)
      BY <1>2, <1>3 DEF Processes
    <2> QED BY <2>1 DEF SweepCall
  <1>12. ~Restart
    BY DEF Restart, Idle, Processes
  <1>13. ~(\/ \E c \in Calls : RingWindowPasses(c)
           \/ \E c \in Calls, u \in Users : GracePasses(c, u)
           \/ SweepBegins \/ SweepEnds \/ UNCHANGED vars)
    BY <1>2 DEF RingWindowPasses, GracePasses, SweepBegins, SweepEnds, vars
  <1> QED BY <1>7, <1>8, <1>9, <1>10, <1>11, <1>12, <1>13 DEF Next, FlowStep, Processes

\* Whoever is in a call is taken out only by their own tab.
THEOREM OwnTabLeaves == Spec => LeaveFromOwnTab
  <1>1. ASSUME IInv, LInv, [Next]_vars, NEW p \in Procs,
               frames[p].pc = "write", frames'[p].pc = "sync", frames[p].ev.type = "leave"
        PROVE  calls[frames[p].call].legs[frames[p].ev.user].tab = frames[p].ev.tab
    <2> DEFINE f == frames[p]
    <2>1. p \in Processes
      BY DEF Processes
    <2>2. Unwritten(f.call, f.snap)
      BY <1>1, <2>1, ToEffects
    <2>3. f.snap = calls[f.call]
      BY <1>1, <2>1, <2>2, WrittenRow
    <2>4. Leave(f.snap, f.ev).code = "done"
      BY <1>1, <2>1 DEF LInv, FramesTrue, FrameTrue, Transition
    <2>5. OwnLeg(f.snap, f.ev)
      BY <2>4 DEF Leave, Same
    <2> QED BY <2>3, <2>5 DEF OwnLeg
  <1>2. IInv /\ LInv /\ [Next]_vars =>
            [\A p \in Procs :
                LET f == frames[p] IN
                f.pc = "write" /\ frames'[p].pc = "sync" /\ f.ev.type = "leave"
                    => calls[f.call].legs[f.ev.user].tab = f.ev.tab]_vars
    BY <1>1
  <1> QED BY <1>2, Invariance, LogInvariance, PTL DEF Spec, LeaveFromOwnTab

-----------------------------------------------------------------------------
(* The refinement *)

\* What CallLifecycle sees of the tables.
Phases == [c \in Calls |-> PhaseOf(c)]
Places == [c \in Calls |-> IF c \in Rows THEN calls[c].conv ELSE NoConv]
Seats == [c \in Calls |-> [u \in Users |-> IF c \in Rows THEN calls[c].legs[u].tab ELSE NoTab]]
Ended == [c \in Calls |-> IF c \in Rows /\ ~Live(calls[c]) THEN Outcome(calls[c].reason) ELSE "none"]

\* What the steps of CallLifecycle are.
LEMMA LifecycleSteps ==
    ASSUME NEW c \in Calls
    PROVE  /\ \A k \in Convs, u \in Users, t \in Tabs : Lifecycle!Start(c, k, u, t) => Lifecycle!Next
           /\ \A u \in Users, t \in Tabs : Lifecycle!Enter(c, u, t) => Lifecycle!Next
           /\ \A gone \in SUBSET Users : Lifecycle!Exit(c, gone) => Lifecycle!Next
           /\ \A o \in Outcomes : Lifecycle!End(c, o) => Lifecycle!Next
           /\ Lifecycle!Log(c) => Lifecycle!Next
  BY Zenon DEF Lifecycle!Next

\* Nothing changes for CallLifecycle while neither the rows nor the messages do.
LEMMA CalmMaps == ASSUME Calm PROVE UNCHANGED Lifecycle!vars
  <1>1. calls' = calls /\ messages' = messages
    BY DEF Calm
  <1> QED BY <1>1 DEF Lifecycle!vars, PhaseOf, Rows, Live

\* Inserting a row starts a call.
LEMMA InsertMaps ==
    ASSUME IInv, LInv, NEW p \in Processes, InsertCall(p)
    PROVE  [Lifecycle!Next]_Lifecycle!vars
  <1> DEFINE row == frames[p].row
  <1>1. row \in Call /\ CallOK(row) /\ row.state = "ringing" /\ row.topology = "mesh"
    BY FrameByPc DEF IInv, TypeOK, FramesOK, FrameOK, InsertFrame, Processes, InsertCall,
                     LInv, FramesTrue, FrameTrue
  <1>2. messages' = messages /\ notified' = notified
    BY DEF InsertCall
  <1>3. CASE UniqueViolation(row)
    <2>1. Calm
      BY <1>2, <1>3 DEF InsertCall, Calm
    <2> QED BY <2>1, CalmMaps
  <1>4. CASE ~UniqueViolation(row)
    <2>1. PICK c \in Calls \ Rows : calls' = [d \in Rows \cup {c} |-> IF d = c THEN row ELSE calls[d]]
      BY <1>4 DEF InsertCall
    <2>2. /\ Rows' = Rows \cup {c} /\ calls'[c] = row
          /\ \A d \in Rows : calls'[d] = calls[d]
      BY <2>1 DEF Rows
    <2>3. PICK k \in Convs, u \in Users : k = row.conv /\ Joined(row) = {u}
      BY <1>1 DEF Call, CallOK, RingingOK
    <2>4. PICK t \in Tabs : \A w \in Users : row.legs[w].tab = IF w = u THEN t ELSE NoTab
      <3>1. \A w \in Users : (w = u) <=> (row.legs[w].tab # NoTab)
        BY <1>1, <2>3 DEF CallOK, TabOK, Joined
      <3>2. \A w \in Users : row.legs[w].tab \in Tabs \cup {NoTab}
        BY <1>1 DEF Call, Leg
      <3> QED BY <2>3, <3>1, <3>2
    <2>5. \A d \in LiveIds : calls[d].conv # k
      BY <1>4, <2>3 DEF UniqueViolation
    <2> HIDE DEF row
    <2>6. Phases[c] = "none" /\ \A d \in Calls : Phases[d] \in {"ringing", "active"} => Places[d] # k
      BY <2>1, <2>5 DEF Phases, Places, PhaseOf, LiveIds, Live
    <2>7. Phases' = [Phases EXCEPT ![c] = "ringing"]
      BY <1>1, <2>2 DEF Phases, PhaseOf
    <2>8. Places' = [Places EXCEPT ![c] = k]
      BY <2>2, <2>3 DEF Places
    <2>9. Seats' = [Seats EXCEPT ![c] = [w \in Users |-> IF w = u THEN t ELSE NoTab]]
      BY <2>2, <2>4 DEF Seats
    <2>10. Ended' = Ended
      BY <1>1, <2>1, <2>2 DEF Ended, Live
    <2>11. Lifecycle!Start(c, k, u, t)
      BY <1>2, <2>6, <2>7, <2>8, <2>9, <2>10
         DEF Lifecycle!Start, Lifecycle!Live, Phases, Places, Seats, Ended
    <2> QED BY <2>11, LifecycleSteps
  <1> QED BY <1>3, <1>4

\* Writing a row ends the call, lets one in or some out, or moves no seat.
LEMMA StoreMaps ==
    ASSUME IInv, NEW p \in Processes, Stores(p)
    PROVE  [Lifecycle!Next]_Lifecycle!vars
  <1>1. PICK c \in Calls, row \in Call :
            c = frames[p].call /\ row = Written(frames[p].snap, frames[p].ev)
    BY WrittenRow DEF Stores
  <1> DEFINE old == calls[c]
  <1>2. /\ c \in Rows /\ Live(old) /\ old \in Call /\ CallOK(row) /\ row.conv = old.conv
        /\ Ends(row) \/ Stays(old, row) \/ Enters(old, row) \/ Exits(old, row)
    BY <1>1, WrittenRow, WrittenMoves DEF Stores, IInv, TypeOK
  <1>3. calls' = [calls EXCEPT ![c] = row] /\ messages' = messages
    BY <1>1 DEF Stores, Store
  <1>4. Rows' = Rows /\ \A d \in Rows : calls'[d] = IF d = c THEN row ELSE calls[d]
    BY <1>3 DEF Rows, IInv, TypeOK
  <1>5. Phases' = [Phases EXCEPT ![c] = row.state] /\ Phases[c] = old.state
    BY <1>2, <1>4 DEF Phases, PhaseOf
  <1>6. Places' = Places
    BY <1>2, <1>4 DEF Places
  <1>7. /\ Seats' = [Seats EXCEPT ![c] = [w \in Users |-> row.legs[w].tab]]
        /\ \A w \in Users : Seats[c][w] = old.legs[w].tab
    BY <1>2, <1>4 DEF Seats
  <1>8. /\ Ended' = [Ended EXCEPT ![c] = IF Live(row) THEN "none" ELSE Outcome(row.reason)]
        /\ Ended[c] = "none"
    BY <1>2, <1>4 DEF Ended
  <1>9. Phases[c] \in {"ringing", "active"}
    BY <1>2, <1>5 DEF Live
  <1> DEFINE bar == <<Phases, Places, Seats, Ended, messages>>
  <1>10. CASE Ends(row)
    <2>1. ~Live(row) /\ row.reason \in Reasons
      BY <1>2, <1>10 DEF Ends, Live, CallOK, ReasonOK, Call
    <2>2. PICK o \in Outcomes : o = Outcome(row.reason)
      BY <2>1, OutcomeType
    <2>3. \A w \in Users : row.legs[w].tab = NoTab
      BY <1>2, <1>10 DEF Ends, CallOK, EndedOK, TabOK, Joined
    <2>4. Seats' = [Seats EXCEPT ![c] = [w \in Users |-> NoTab]]
      BY <1>7, <2>3
    <2>5. /\ Phases' = [Phases EXCEPT ![c] = "ended"]
          /\ Ended' = [Ended EXCEPT ![c] = o]
      BY <1>5, <1>8, <1>10, <2>1, <2>2 DEF Ends
    <2>6. Lifecycle!End(c, o)
      BY <1>3, <1>6, <1>9, <2>4, <2>5
         DEF Lifecycle!End, Lifecycle!Live, Phases, Places, Seats, Ended
    <2> QED BY <2>6, LifecycleSteps
  <1>11. ASSUME ~Ends(row) PROVE Ended' = Ended
    <2>1. Live(row)
      BY <1>2, <1>11 DEF Ends, Live, Call
    <2>2. Ended \in [Calls -> {Ended[d] : d \in Calls}]
      BY DEF Ended
    <2> QED BY <1>8, <2>1, <2>2
  <1>12. CASE ~Ends(row) /\ Stays(old, row)
    <2>1. Phases' = Phases
      BY <1>5, <1>12 DEF Stays, Phases
    <2>2. Seats' = Seats
      <3>1. \A w \in Users : row.legs[w].tab = old.legs[w].tab
        BY <1>12 DEF Stays, SeatsKept
      <3> QED BY <1>2, <1>4, <3>1 DEF Seats
    <2>3. bar' = bar
      BY <1>3, <1>6, <1>11, <1>12, <2>1, <2>2
    <2> QED BY <2>3 DEF Lifecycle!vars, Phases, Places, Seats, Ended
  <1>13. CASE ~Ends(row) /\ Enters(old, row)
    <2>1. PICK u \in Users, t \in Tabs :
            /\ old.legs[u].tab = NoTab /\ row.state = "active"
            /\ \A w \in Users : row.legs[w].tab = IF w = u THEN t ELSE old.legs[w].tab
      BY <1>13 DEF Enters
    <2>2. /\ Phases' = [Phases EXCEPT ![c] = "active"]
          /\ Seats[c][u] = NoTab
          /\ Seats' = [Seats EXCEPT ![c] = [w \in Users |-> IF w = u THEN t ELSE Seats[c][w]]]
      BY <1>5, <1>7, <2>1
    <2>3. Lifecycle!Enter(c, u, t)
      BY <1>3, <1>6, <1>9, <1>11, <1>13, <2>2
         DEF Lifecycle!Enter, Lifecycle!Live, Phases, Places, Seats, Ended
    <2> QED BY <2>3, LifecycleSteps
  <1>14. CASE ~Ends(row) /\ Exits(old, row)
    <2>1. PICK gone \in SUBSET Users :
            /\ old.state = "active" /\ row.state = "active"
            /\ \E u \in Users \ gone : old.legs[u].tab # NoTab
            /\ \A w \in Users : row.legs[w].tab = IF w \in gone THEN NoTab ELSE old.legs[w].tab
      BY <1>14 DEF Exits
    <2>2. /\ Phases[c] = "active" /\ \E u \in Users \ gone : Seats[c][u] # NoTab
          /\ Seats' = [Seats EXCEPT ![c] = [w \in Users |-> IF w \in gone THEN NoTab ELSE Seats[c][w]]]
      BY <1>5, <1>7, <2>1
    <2>3. Phases' = Phases
      BY <1>5, <2>1 DEF Phases
    <2>4. Lifecycle!Exit(c, gone)
      BY <1>3, <1>6, <1>11, <1>14, <2>2, <2>3
         DEF Lifecycle!Exit, Phases, Places, Seats, Ended
    <2> QED BY <2>4, LifecycleSteps
  <1> QED BY <1>2, <1>10, <1>12, <1>13, <1>14

\* Posting the message logs the call with the outcome it ended with.
LEMMA SaysMaps ==
    ASSUME IInv, LInv, NEW p \in Processes, Says(p)
    PROVE  [Lifecycle!Next]_Lifecycle!vars
  <1> DEFINE f == frames[p]
  <1>1. PICK c \in Calls :
            c = f.call /\ c \in Rows /\ Announced(calls[c], f.fx) /\ calls[c] \in Call
    BY EffectFrameOf DEF Says, EffectPcs, LInv, FramesTrue, FrameTrue, IInv, TypeOK
  <1>2. calls' = calls
    BY DEF Says
  <1>3. messages \in [Calls -> Outcomes \cup {"none"}]
    BY DEF IInv, TypeOK
  <1>4. Phases' = Phases /\ Places' = Places /\ Seats' = Seats /\ Ended' = Ended
    BY <1>2 DEF Phases, Places, Seats, Ended, PhaseOf, Rows, Live
  <1>5. CASE messages' = messages
    BY <1>4, <1>5 DEF Lifecycle!vars, Phases, Places, Seats, Ended
  <1>6. CASE messages' # messages
    <2>1. messages[c] = "none" /\ messages' = [messages EXCEPT ![c] = f.fx.message]
      BY <1>1, <1>6 DEF Says
    <2>2. f.fx.message # "none"
      BY <1>3, <1>6, <2>1
    <2>3. Phases[c] = "ended" /\ Ended[c] = f.fx.message
      BY <1>1, <2>2 DEF Announced, Phases, PhaseOf, Ended, Live, Call
    <2> HIDE DEF f
    <2>4. messages' = [messages EXCEPT ![c] = Ended[c]]
      BY <2>1, <2>3
    <2>5. Lifecycle!Log(c)
      BY <1>4, <2>1, <2>3, <2>4 DEF Lifecycle!Log, Phases, Places, Seats, Ended
    <2> QED BY <2>5, LifecycleSteps
  <1> QED BY <1>5, <1>6

\* CallFlow implements CallLifecycle: every interleaving of requests, timers,
\* sweeps and faults is a run of calls that ring, are entered and left, end for
\* good and are logged once with the outcome they ended with.
THEOREM Implements == Spec => Refinement
  <1>1. Init => Lifecycle!Init
    BY DEF Init, Lifecycle!Init, PhaseOf, Rows
  <1>2. IInv /\ LInv /\ [Next]_vars => [Lifecycle!Next]_Lifecycle!vars
    BY StepKind, CalmMaps, InsertMaps, StoreMaps, SaysMaps
  <1> QED BY <1>1, <1>2, Invariance, LogInvariance, PTL DEF Spec, Refinement, Lifecycle!Spec
=============================================================================
