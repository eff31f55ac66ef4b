--------------------------- MODULE CallFlow_proofs ---------------------------
(***************************************************************************)
(* What every execution of CallFlow keeps, with any number of calls,       *)
(* people, tabs and processes: the rows hang together, a conversation has  *)
(* one live call, a frame never writes over what it has not read, and a    *)
(* call that ended stays as it is.                                         *)
(*                                                                         *)
(* The inductive invariant adds to the properties what each frame knows:   *)
(* the rows it names exist, what it is about to insert hangs together and  *)
(* what it is about to write was decided on a live call.                   *)
(***************************************************************************)
EXTENDS CallFlow, CallState_proofs

Processes == Procs \cup {Sweeper}

\* What a frame knows, given the rows of the table.
FrameOK(rows, f) ==
    /\ f.pc = "check" => /\ f.ev.wanted # {}
                         /\ f.ev.user \in Members[f.ev.conv]
                         /\ f.ev.wanted \subseteq Members[f.ev.conv] \ {f.ev.user}
    /\ f.pc = "insert" => CallOK(f.row)
    /\ f.pc \in {"load", "write"} \cup EffectPcs =>
            f.call \in DOMAIN rows /\ \A r \in f.rest : r[1] \in DOMAIN rows
    /\ f.pc = "write" =>
            /\ Live(f.snap) /\ f.snap.v <= rows[f.call].v
            /\ f.snap.v = rows[f.call].v => f.snap = rows[f.call]

FramesOK == \A p \in Processes : FrameOK(calls, frames[p])

\* Timers and sweeps are about rows that exist.
TimersOK ==
    /\ ringTimers \subseteq Rows
    /\ \A c \in Calls, u \in Users : graceTimers[c][u] # NoTab => c \in Rows
    /\ DOMAIN pass.todo \subseteq Rows

IInv == TypeOK /\ CallsOK /\ OneLiveCall /\ FramesOK /\ TimersOK

-----------------------------------------------------------------------------
(* Frames *)

\* The pc of a frame says which kind of frame it is.
LEMMA FrameByPc ==
    ASSUME NEW f \in Frame
    PROVE  /\ f.pc = "check" => f \in CheckFrame
           /\ f.pc = "insert" => f \in InsertFrame
           /\ f.pc = "load" => f \in LoadingFrame
           /\ f.pc = "write" => f \in WriteFrame
           /\ f.pc \in EffectPcs => f \in EffectFrame
           /\ f.pc \notin {"check", "insert", "load", "write"} \cup EffectPcs => f = Idle
  BY DEF Frame, Idle, CheckFrame, InsertFrame, LoadingFrame, WriteFrame, EffectFrame, EffectPcs

\* Doing nothing asks for nothing.
LEMMA IdleOK == ASSUME NEW rows PROVE Idle \in Frame /\ FrameOK(rows, Idle)
  BY DEF Frame, Idle, FrameOK, EffectPcs

\* Starting to work on a call that exists.
LEMMA LoadFrameOK ==
    ASSUME NEW rows, NEW c \in Calls, c \in DOMAIN rows, NEW ev \in Event
    PROVE  LoadFrame(c, ev) \in Frame /\ FrameOK(rows, LoadFrame(c, ev))
  <1>1. LoadFrame(c, ev) \in LoadingFrame
    BY FlowAssumption DEF LoadFrame, LoadingFrame, Rest
  <1>2. FrameOK(rows, LoadFrame(c, ev))
    BY DEF LoadFrame, FrameOK, EffectPcs
  <1> QED BY <1>1, <1>2 DEF Frame

\* Going on to the calls that are still to be left.
LEMMA NextOfOK ==
    ASSUME NEW rows, NEW rest \in Rest, \A r \in rest : r[1] \in DOMAIN rows, NEW g \in NextOf(rest)
    PROVE  g \in Frame /\ FrameOK(rows, g)
  <1>1. CASE rest = {}
    BY <1>1, IdleOK DEF NextOf
  <1>2. CASE rest # {}
    <2>1. PICK r \in rest : g = [LoadFrame(r[1], r[2]) EXCEPT !.rest = rest \ {r}]
      BY <1>2 DEF NextOf
    <2>2. r[1] \in Calls /\ r[2] \in Event /\ r[1] \in DOMAIN rows
      BY DEF Rest
    <2>3. g = [pc |-> "load", call |-> r[1], ev |-> r[2], tries |-> 0, rest |-> rest \ {r}]
      BY <2>1 DEF LoadFrame
    <2>4. g \in LoadingFrame
      BY <2>2, <2>3, FlowAssumption DEF LoadingFrame, Rest
    <2>5. FrameOK(rows, g)
      BY <2>2, <2>3 DEF FrameOK, EffectPcs
    <2> QED BY <2>4, <2>5 DEF Frame
  <1> QED BY <1>1, <1>2

\* The frames after a process goes on with f and the rows stay.
LEMMA FrameStep ==
    ASSUME IInv, NEW p \in Processes, NEW f \in Frame, FrameOK(calls, f), Becomes(p, f),
           calls' = calls
    PROVE  frames' \in [Processes -> Frame] /\ FramesOK'
  BY DEF IInv, TypeOK, FramesOK, Becomes, Processes

\* An effect done takes the frame to the next one or to the end.
LEMMA ContinueStep ==
    ASSUME IInv, NEW p \in Processes, frames[p].pc \in EffectPcs, Continue(p), calls' = calls
    PROVE  frames' \in [Processes -> Frame] /\ FramesOK'
  <1> DEFINE f == frames[p]
             pc == After(f.pc, f.fx)
  <1>1. f \in EffectFrame /\ FrameOK(calls, f)
    BY FrameByPc DEF IInv, TypeOK, FramesOK, Processes
  <1>2. f.rest \in Rest /\ \A r \in f.rest : r[1] \in DOMAIN calls
    BY <1>1 DEF FrameOK, EffectFrame
  <1>3. CASE pc = "end"
    <2>1. PICK g \in NextOf(f.rest) : Becomes(p, g)
      BY <1>3 DEF Continue
    <2>2. g \in Frame /\ FrameOK(calls, g)
      BY <1>2, NextOfOK
    <2> QED BY <2>1, <2>2, FrameStep
  <1>4. CASE pc # "end"
    <2> DEFINE g == [f EXCEPT !.pc = pc]
    <2>1. Becomes(p, g)
      BY <1>4 DEF Continue
    <2>2. pc \in EffectPcs
      BY <1>4 DEF After, AfterTimers, AfterMessage, EffectPcs
    <2>3. g \in EffectFrame
      BY <1>1, <2>2 DEF EffectFrame
    <2>4. FrameOK(calls, g)
      BY <1>1, <2>2 DEF FrameOK, EffectFrame, EffectPcs
    <2> QED BY <2>1, <2>3, <2>4, FrameStep DEF Frame
  <1> QED BY <1>3, <1>4

-----------------------------------------------------------------------------
(* Steps that write no row *)

\* What holds of the rows holds while nobody writes them.
LEMMA CalmRows ==
    ASSUME IInv, calls' = calls
    PROVE  /\ (Rows \subseteq Calls /\ calls \in [Rows -> Call])'
           /\ CallsOK' /\ OneLiveCall'
  BY DEF IInv, TypeOK, CallsOK, OneLiveCall, Rows, LiveIds

\* An idle process may start on a call that exists.
LEMMA AskForStep ==
    ASSUME IInv, NEW p \in Processes, NEW c \in Rows, NEW ev \in Event, AskFor(p, c, ev)
    PROVE  IInv'
  <1>1. calls' = calls /\ Becomes(p, LoadFrame(c, ev))
    BY DEF AskFor, tables
  <1>2. c \in Calls BY DEF IInv, TypeOK
  <1>3. frames' \in [Processes -> Frame] /\ FramesOK'
    BY <1>1, <1>2, LoadFrameOK, FrameStep DEF Rows
  <1>4. TypeOK'
    BY <1>1, <1>3, CalmRows, FlowAssumption
       DEF AskFor, Ask, IInv, TypeOK, Processes, tables, memory
  <1>5. TimersOK'
    BY <1>1 DEF AskFor, IInv, TimersOK, Rows, memory
  <1> QED BY <1>1, <1>3, <1>4, <1>5, CalmRows DEF IInv

\* A request starts a call or asks for something on one.
LEMMA RequestStep == ASSUME IInv, Request PROVE IInv'
  <1>1. ASSUME NEW p \in Procs, NEW k \in Convs, NEW u \in Users, NEW t \in Tabs, StartCall(p, k, u, t)
        PROVE  IInv'
    <2>1. PICK wanted \in SUBSET (Members[k] \ {u}) :
            /\ wanted # {}
            /\ Becomes(p, [pc |-> "check", ev |-> [conv |-> k, user |-> u, tab |-> t, wanted |-> wanted]])
      BY <1>1 DEF StartCall
    <2> DEFINE f == [pc |-> "check", ev |-> [conv |-> k, user |-> u, tab |-> t, wanted |-> wanted]]
    <2>2. Members[k] \subseteq Users
      BY FlowAssumption
    <2>3. f \in Frame
      BY <2>2 DEF Frame, CheckFrame
    <2>4. FrameOK(calls, f)
      BY <1>1, <2>1 DEF FrameOK, StartCall, EffectPcs
    <2>5. calls' = calls /\ p \in Processes
      BY <1>1 DEF StartCall, tables, Processes
    <2>6. frames' \in [Processes -> Frame] /\ FramesOK'
      BY <2>1, <2>3, <2>4, <2>5, FrameStep
    <2>7. TypeOK'
      BY <1>1, <2>5, <2>6, CalmRows, FlowAssumption
         DEF StartCall, Ask, IInv, TypeOK, Processes, tables, memory
    <2>8. TimersOK'
      BY <1>1, <2>5 DEF StartCall, IInv, TimersOK, Rows, memory
    <2> QED BY <2>5, <2>6, <2>7, <2>8, CalmRows DEF IInv
  <1>2. ASSUME NEW p \in Procs, NEW u \in Users, NEW c \in Rows, NEW t \in Tabs,
               AcceptCall(p, c, u, t) \/ JoinCall(p, c, u, t) \/ DeclineCall(p, c, u, t)
                    \/ LeaveCall(p, c, u, t)
        PROVE  IInv'
    <2>1. \E ev \in Event : AskFor(p, c, ev)
      <3>1. [type |-> "accept", user |-> u, tab |-> t] \in Event BY DEF Event
      <3>2. [type |-> "join", user |-> u, tab |-> t] \in Event BY DEF Event
      <3>3. [type |-> "decline", user |-> u, tab |-> t] \in Event BY DEF Event
      <3>4. \A network \in BOOLEAN :
              [type |-> "leave", user |-> u, tab |-> t, network |-> network] \in Event
        BY DEF Event
      <3> QED BY <1>2, <3>1, <3>2, <3>3, <3>4 DEF AcceptCall, JoinCall, DeclineCall, LeaveCall
    <2> QED BY <2>1, AskForStep DEF Processes
  <1>3. ASSUME NEW p \in Procs, NEW u \in Users, NEW c \in Rows, CancelCall(p, c, u) \/ EndCall(p, c, u)
        PROVE  IInv'
    <2>1. \E ev \in Event : AskFor(p, c, ev)
      <3>1. [type |-> "cancel", user |-> u] \in Event BY DEF Event
      <3>2. [type |-> "end", user |-> u] \in Event BY DEF Event
      <3> QED BY <1>3, <3>1, <3>2 DEF CancelCall, EndCall
    <2> QED BY <2>1, AskForStep DEF Processes
  <1> QED BY <1>1, <1>2, <1>3 DEF Request

\* The check of create_call prepares a call that hangs together.
LEMMA CheckStep == ASSUME IInv, NEW p \in Processes, CheckCall(p) PROVE IInv'
  <1> DEFINE ev == frames[p].ev
             busy == {u \in ev.wanted : JoinedElsewhere(u)}
             row == NewCall(ev.conv, Kind[ev.conv], ev.user, ev.tab, ev.wanted, busy)
  <1>1. frames[p] \in CheckFrame /\ FrameOK(calls, frames[p]) /\ frames[p].pc = "check"
    BY FrameByPc DEF IInv, TypeOK, FramesOK, Processes, CheckCall
  <1>2. /\ ev.conv \in Convs /\ ev.user \in Users /\ ev.tab \in Tabs
        /\ ev.wanted \in SUBSET (Users \ {ev.user}) /\ ev.wanted # {}
        /\ ev.wanted \subseteq Members[ev.conv] \ {ev.user} /\ ev.user \in Members[ev.conv]
    BY <1>1 DEF CheckFrame, FrameOK
  <1>3. Kind[ev.conv] \in Kinds /\ (Kind[ev.conv] = "direct" => AtMostOne(ev.wanted))
    BY <1>2, FlowAssumption DEF AtMostOne
  <1> HIDE DEF busy
  <1>4. row \in Call /\ CallOK(row)
    BY <1>2, <1>3, NewCallOK
  <1>5. PICK f \in {Idle, [pc |-> "insert", row |-> row]} : Becomes(p, f)
    BY DEF CheckCall, busy
  <1> HIDE DEF row, ev
  <1>6. f \in Frame /\ FrameOK(calls, f)
    BY <1>4, <1>5, IdleOK DEF Frame, InsertFrame, FrameOK, EffectPcs
  <1>7. calls' = calls
    BY DEF CheckCall, tables
  <1>8. frames' \in [Processes -> Frame] /\ FramesOK'
    BY <1>5, <1>6, <1>7, FrameStep
  <1>9. TypeOK'
    BY <1>7, <1>8, CalmRows DEF CheckCall, IInv, TypeOK, Processes, tables, memory, budget
  <1>10. TimersOK'
    BY <1>7 DEF CheckCall, IInv, TimersOK, Rows, memory
  <1> QED BY <1>7, <1>8, <1>9, <1>10, CalmRows DEF IInv

\* Loading decides on the row as it is: what it will write was decided on a live
\* call.
LEMMA LoadStep == ASSUME IInv, NEW p \in Processes, Load(p) PROVE IInv'
  <1> DEFINE f == frames[p]
             r == Transition(calls[f.call], f.ev)
             g == [pc |-> "write", call |-> f.call, ev |-> f.ev, tries |-> f.tries,
                   rest |-> f.rest, snap |-> calls[f.call]]
  <1>1. f \in LoadingFrame /\ FrameOK(calls, f) /\ f.pc = "load"
    BY FrameByPc DEF IInv, TypeOK, FramesOK, Processes, Load
  <1>2. /\ f.call \in Rows /\ f.call \in Calls /\ f.ev \in Event /\ f.tries \in 0..CasRetries
        /\ f.rest \in Rest /\ \A q \in f.rest : q[1] \in DOMAIN calls
    BY <1>1 DEF LoadingFrame, FrameOK, Rows
  <1>3. calls[f.call] \in Call /\ CallOK(calls[f.call])
    BY <1>2 DEF IInv, TypeOK, CallsOK
  <1>4. Keeps(calls[f.call], r)
    BY <1>2, <1>3, TransitionKeeps
  <1>5. calls' = calls
    BY DEF Load, tables
  <1>6. \E h \in Frame : FrameOK(calls, h) /\ Becomes(p, h)
    <2>1. CASE r.code = "refused"
      BY <2>1, IdleOK DEF Load
    <2>2. CASE r.code = "same"
      <3>1. \E h \in NextOf(f.rest) : Becomes(p, h)
        BY <2>2 DEF Load
      <3> QED BY <1>2, <3>1, NextOfOK
    <2>3. CASE r.code = "done"
      <3>1. Becomes(p, g)
        BY <2>3 DEF Load
      <3>2. g \in WriteFrame
        BY <1>2, <1>3 DEF WriteFrame
      <3>3. Live(calls[f.call]) /\ calls[f.call].v \in Nat
        BY <1>3, <1>4, <2>3 DEF Keeps, Call
      <3>4. FrameOK(calls, g)
        BY <1>2, <3>3 DEF FrameOK, EffectPcs, Rows
      <3> QED BY <3>1, <3>2, <3>4 DEF Frame
    <2>4. r.code \in {"done", "same", "refused"}
      BY <1>4 DEF Keeps, Result
    <2> QED BY <2>1, <2>2, <2>3, <2>4
  <1>7. frames' \in [Processes -> Frame] /\ FramesOK'
    BY <1>5, <1>6, FrameStep
  <1>8. TypeOK'
    BY <1>5, <1>7, CalmRows DEF Load, Quiet, IInv, TypeOK, Processes, tables, memory, budget
  <1>9. TimersOK'
    BY <1>5 DEF Load, IInv, TimersOK, Rows, memory
  <1> QED BY <1>5, <1>7, <1>8, <1>9, CalmRows DEF IInv

-----------------------------------------------------------------------------
(* Steps that write a row *)

\* The insert finds no live call in the conversation, so it makes the only one.
LEMMA InsertStep == ASSUME IInv, NEW p \in Processes, InsertCall(p) PROVE IInv'
  <1> DEFINE row == frames[p].row
  <1>1. frames[p] \in InsertFrame /\ FrameOK(calls, frames[p]) /\ frames[p].pc = "insert"
    BY FrameByPc DEF IInv, TypeOK, FramesOK, Processes, InsertCall
  <1>2. row \in Call /\ CallOK(row)
    BY <1>1 DEF InsertFrame, FrameOK
  <1>3. row.initiator \in Users
    BY <1>2 DEF Call
  <1>4. CASE UniqueViolation(row)
    <2>1. Becomes(p, Idle) /\ calls' = calls /\ joins' = joins
      BY <1>4 DEF InsertCall
    <2>2. frames' \in [Processes -> Frame] /\ FramesOK'
      BY <2>1, IdleOK, FrameStep
    <2>3. TypeOK'
      BY <2>1, <2>2, CalmRows DEF InsertCall, IInv, TypeOK, Processes, memory, budget
    <2>4. TimersOK'
      BY <2>1 DEF InsertCall, IInv, TimersOK, Rows, memory
    <2> QED BY <2>1, <2>2, <2>3, <2>4, CalmRows DEF IInv
  <1>5. CASE ~UniqueViolation(row)
    <2> DEFINE frameOf(c) == [pc |-> "sync", call |-> c, row |-> row, rest |-> {},
                              fx |-> [EmitOnly EXCEPT !.ring = "start"]]
    <2>1. PICK c \in Calls \ Rows :
            /\ calls' = [d \in Rows \cup {c} |-> IF d = c THEN row ELSE calls[d]]
            /\ joins' = [joins EXCEPT ![c][row.initiator] = @ + 1]
            /\ Becomes(p, frameOf(c))
      BY <1>5 DEF InsertCall
    <2>2. /\ Rows' = Rows \cup {c} /\ calls'[c] = row
          /\ \A d \in Rows : calls'[d] = calls[d]
      BY <2>1 DEF Rows
    <2>3. (Rows \subseteq Calls /\ calls \in [Rows -> Call])' /\ CallsOK'
      BY <1>2, <2>1, <2>2 DEF IInv, TypeOK, CallsOK
    <2>4. OneLiveCall'
      <3>1. \A d \in LiveIds : calls[d].conv # row.conv
        BY <1>5 DEF UniqueViolation
      <3>2. \A d \in LiveIds' : d = c \/ (d \in LiveIds /\ calls'[d] = calls[d])
        BY <2>2 DEF LiveIds
      <3> QED BY <2>2, <3>1, <3>2 DEF OneLiveCall, IInv
    <2>5. frameOf(c) \in Frame /\ FrameOK(calls', frameOf(c))
      <3>1. frameOf(c) \in EffectFrame
        BY <1>2 DEF EffectFrame, EffectPcs, Effects, EmitOnly, Rest
      <3>2. FrameOK(calls', frameOf(c))
        BY <2>2 DEF FrameOK, EffectPcs, Rows
      <3> QED BY <3>1, <3>2 DEF Frame
    <2> HIDE DEF row, frameOf
    <2>6. \A q \in Processes : FrameOK(calls', frames[q])
      <3> SUFFICES ASSUME NEW q \in Processes PROVE FrameOK(calls', frames[q])
        OBVIOUS
      <3>1. FrameOK(calls, frames[q])
        BY DEF IInv, FramesOK
      <3> QED BY <2>2, <3>1 DEF FrameOK, Rows, EffectPcs
    <2>7. frames' \in [Processes -> Frame] /\ FramesOK'
      BY <2>1, <2>5, <2>6 DEF IInv, TypeOK, FramesOK, Becomes, Processes
    <2>8. joins' \in [Calls -> [Users -> Nat]]
      BY <1>3, <2>1 DEF IInv, TypeOK
    <2>9. TypeOK'
      BY <2>3, <2>7, <2>8 DEF InsertCall, IInv, TypeOK, Processes, memory, budget
    <2>10. TimersOK'
      BY <2>2 DEF InsertCall, IInv, TimersOK, memory
    <2> QED BY <2>3, <2>4, <2>7, <2>9, <2>10 DEF IInv
  <1> QED BY <1>4, <1>5

\* What a frame writes over a row nobody wrote since: a row that hangs together,
\* of the same conversation, one version later, of a call that was live.
LEMMA WrittenRow ==
    ASSUME IInv, NEW p \in Processes, frames[p].pc = "write",
           Unwritten(frames[p].call, frames[p].snap)
    PROVE  LET c == frames[p].call
               row == Written(frames[p].snap, frames[p].ev)
           IN
           /\ frames[p] \in WriteFrame /\ FrameOK(calls, frames[p])
           /\ c \in Rows /\ c \in Calls /\ Live(calls[c])
           /\ frames[p].snap = calls[c]
           /\ row \in Call /\ CallOK(row)
           /\ row.v = calls[c].v + 1 /\ row.conv = calls[c].conv
           /\ \A u \in Joined(calls[c]) \cap Joined(row) : row.legs[u].tab = calls[c].legs[u].tab
           /\ Transition(frames[p].snap, frames[p].ev).fx \in Effects
  <1> DEFINE f == frames[p]
             next == Transition(f.snap, f.ev).call
             row == [next EXCEPT !.v = f.snap.v + 1]
  <1>1. f \in WriteFrame /\ FrameOK(calls, f)
    BY FrameByPc DEF IInv, TypeOK, FramesOK, Processes
  <1>2. /\ f.call \in Rows /\ f.call \in Calls /\ f.ev \in Event
        /\ Live(f.snap) /\ f.snap = calls[f.call]
    BY <1>1 DEF WriteFrame, FrameOK, Rows, Unwritten
  <1>3. f.snap \in Call /\ CallOK(f.snap) /\ f.snap.v \in Nat
    BY <1>2 DEF IInv, TypeOK, CallsOK, Call
  <1>4. Keeps(f.snap, Transition(f.snap, f.ev))
    BY <1>2, <1>3, TransitionKeeps
  <1>5. next \in Call /\ CallOK(next) /\ next.conv = f.snap.conv
    BY <1>4 DEF Keeps, Result
  <1>6. \A u \in Joined(f.snap) \cap Joined(next) : next.legs[u].tab = f.snap.legs[u].tab
    BY <1>4 DEF Keeps
  <1>7. Transition(f.snap, f.ev).fx \in Effects
    BY <1>4 DEF Keeps, Result
  <1> HIDE DEF next
  <1>8. /\ row \in Call /\ row.v = f.snap.v + 1 /\ row.conv = next.conv
        /\ row.state = next.state /\ row.kind = next.kind /\ row.legs = next.legs
        /\ row.initiator = next.initiator /\ row.answered = next.answered
        /\ row.reason = next.reason
    BY <1>3, <1>5 DEF Call
  <1> HIDE DEF row
  <1>9. Joined(row) = Joined(next) /\ Ringing(row) = Ringing(next) /\ Participants(row) = Participants(next)
    BY <1>8 DEF Joined, Ringing, Participants
  <1>10. CallOK(row)
    <2>1. RingingOK(row) /\ ActiveOK(row)
      BY <1>5, <1>8, <1>9 DEF CallOK, RingingOK, ActiveOK
    <2>2. EndedOK(row) /\ DirectOK(row)
      BY <1>5, <1>8, <1>9 DEF CallOK, EndedOK, DirectOK
    <2>3. ReasonOK(row) /\ TabOK(row)
      BY <1>5, <1>8 DEF CallOK, ReasonOK, TabOK, Live
    <2> QED BY <2>1, <2>2, <2>3 DEF CallOK
  <1>11. row = Written(f.snap, f.ev)
    BY DEF row, next, Written
  <1> QED BY <1>1, <1>2, <1>5, <1>6, <1>7, <1>8, <1>9, <1>10, <1>11

\* Writing it keeps the table, and what every other frame knows: a frame that
\* held the row as it was will be refused.
LEMMA StoreStep ==
    ASSUME IInv, NEW p \in Processes, frames[p].pc = "write",
           Unwritten(frames[p].call, frames[p].snap),
           Store(frames[p].call, Written(frames[p].snap, frames[p].ev)),
           NEW h \in Frame, FrameOK(calls', h), Becomes(p, h)
    PROVE  /\ (Rows \subseteq Calls /\ calls \in [Rows -> Call])'
           /\ Rows' = Rows /\ joins' \in [Calls -> [Users -> Nat]]
           /\ CallsOK' /\ OneLiveCall'
           /\ frames' \in [Processes -> Frame] /\ FramesOK'
  <1> DEFINE c == frames[p].call
             row == Written(frames[p].snap, frames[p].ev)
  <1>1. /\ c \in Rows /\ c \in Calls /\ Live(calls[c]) /\ calls[c] \in Call
        /\ row \in Call /\ CallOK(row) /\ row.v = calls[c].v + 1 /\ row.conv = calls[c].conv
    BY WrittenRow DEF IInv, TypeOK
  <1>2. /\ calls' = [calls EXCEPT ![c] = row]
        /\ joins' = [joins EXCEPT ![c] =
               [u \in Users |-> @[u] + IF u \in Joined(row) \ Joined(calls[c]) THEN 1 ELSE 0]]
    BY DEF Store
  <1> HIDE DEF c, row
  <1>3. Rows' = Rows /\ \A d \in Rows : calls'[d] = IF d = c THEN row ELSE calls[d]
    BY <1>2 DEF Rows, IInv, TypeOK
  <1>4. (Rows \subseteq Calls /\ calls \in [Rows -> Call])' /\ CallsOK'
    BY <1>1, <1>2, <1>3 DEF IInv, TypeOK, CallsOK
  <1>5. OneLiveCall'
    <2>1. \A d \in LiveIds' : d \in LiveIds /\ calls'[d].conv = calls[d].conv
      BY <1>1, <1>3 DEF LiveIds
    <2> QED BY <2>1 DEF OneLiveCall, IInv
  <1>6. joins' \in [Calls -> [Users -> Nat]]
    BY <1>1, <1>2 DEF IInv, TypeOK
  <1>7. \A q \in Processes : FrameOK(calls', frames[q])
    <2> SUFFICES ASSUME NEW q \in Processes PROVE FrameOK(calls', frames[q])
      OBVIOUS
    <2>1. FrameOK(calls, frames[q]) /\ frames[q] \in Frame
      BY DEF IInv, FramesOK, TypeOK, Processes
    <2>2. DOMAIN calls' = DOMAIN calls
      BY <1>3 DEF Rows
    <2>3. frames[q].pc = "write" /\ frames[q].call = c => frames[q].snap.v < calls'[c].v
      <3>1. frames[q].pc = "write" => frames[q].snap \in Call
        BY <2>1, FrameByPc DEF WriteFrame
      <3> QED BY <1>1, <1>3, <2>1, <3>1 DEF FrameOK, Call
    <2>4. frames[q].pc = "write" => frames[q].snap.v \in Nat /\ frames[q].call \in Rows
      BY <2>1, FrameByPc DEF WriteFrame, Call, FrameOK, Rows
    <2>5. calls'[c].v \in Nat
      BY <1>1, <1>3 DEF Call
    <2> QED BY <1>3, <2>1, <2>2, <2>3, <2>4, <2>5 DEF FrameOK
  <1>8. frames' \in [Processes -> Frame] /\ FramesOK'
    BY <1>7 DEF IInv, TypeOK, FramesOK, Becomes, Processes
  <1> QED BY <1>3, <1>4, <1>5, <1>6, <1>8

\* The compare-and-swap of apply_event.
LEMMA WriteStep == ASSUME IInv, NEW p \in Processes, Write(p) PROVE IInv'
  <1> DEFINE f == frames[p]
             row == Written(f.snap, f.ev)
             fx == Transition(f.snap, f.ev).fx
             g == [pc |-> "sync", call |-> f.call, row |-> row, rest |-> f.rest, fx |-> fx]
             again == [pc |-> "load", call |-> f.call, ev |-> f.ev, tries |-> f.tries + 1, rest |-> f.rest]
  <1>1. f \in WriteFrame /\ FrameOK(calls, f) /\ f.pc = "write"
    BY FrameByPc DEF IInv, TypeOK, FramesOK, Processes, Write
  <1>2. /\ f.call \in Rows /\ f.call \in Calls /\ f.ev \in Event /\ f.tries \in 0..CasRetries
        /\ f.rest \in Rest /\ \A q \in f.rest : q[1] \in DOMAIN calls
    BY <1>1 DEF WriteFrame, FrameOK, Rows
  <1>3. CASE Unwritten(f.call, f.snap)
    <2>1. Store(f.call, row) /\ Becomes(p, g)
      BY <1>3 DEF Write
    <2>2. row \in Call /\ fx \in Effects
      BY <1>1, <1>3, WrittenRow
    <2> HIDE DEF row, fx
    <2>3. g \in EffectFrame
      BY <1>2, <2>2 DEF EffectFrame, EffectPcs
    <2>4. DOMAIN calls' = DOMAIN calls
      BY <1>2, <2>1 DEF Store, IInv, TypeOK
    <2>5. FrameOK(calls', g)
      BY <1>2, <2>4 DEF FrameOK, EffectPcs, Rows
    <2>6. /\ (Rows \subseteq Calls /\ calls \in [Rows -> Call])'
          /\ Rows' = Rows /\ joins' \in [Calls -> [Users -> Nat]]
          /\ CallsOK' /\ OneLiveCall'
          /\ frames' \in [Processes -> Frame] /\ FramesOK'
      BY <1>1, <1>3, <2>1, <2>3, <2>5, StoreStep DEF Frame, row
    <2>7. TypeOK'
      BY <2>6 DEF Write, Quiet, IInv, TypeOK, Processes, memory, budget
    <2>8. TimersOK'
      BY <2>6 DEF Write, IInv, TimersOK, memory
    <2> QED BY <2>6, <2>7, <2>8 DEF IInv
  <1>4. CASE ~Unwritten(f.call, f.snap)
    <2>1. /\ calls' = calls /\ joins' = joins
          /\ Becomes(p, IF Exhausted(f.tries) THEN Idle ELSE again)
      BY <1>4 DEF Write
    <2>2. CASE Exhausted(f.tries)
      <3> QED BY <2>1, <2>2, IdleOK, FrameStep, CalmRows
           DEF Write, Quiet, IInv, TypeOK, TimersOK, Rows, Processes, memory, budget
    <2>3. CASE ~Exhausted(f.tries)
      <3>1. again \in LoadingFrame
        BY <1>2, <2>3, FlowAssumption DEF LoadingFrame, Exhausted
      <3>2. FrameOK(calls, again)
        BY <1>2 DEF FrameOK, EffectPcs, Rows
      <3>3. frames' \in [Processes -> Frame] /\ FramesOK'
        BY <2>1, <2>3, <3>1, <3>2, FrameStep DEF Frame
      <3> QED BY <2>1, <3>3, CalmRows
           DEF Write, Quiet, IInv, TypeOK, TimersOK, Rows, Processes, memory, budget
    <2> QED BY <2>2, <2>3
  <1> QED BY <1>3, <1>4

-----------------------------------------------------------------------------
(* Effects *)

\* What the frame of an effect holds.
LEMMA EffectFrameOf ==
    ASSUME IInv, NEW p \in Processes, frames[p].pc \in EffectPcs
    PROVE  /\ frames[p] \in EffectFrame /\ FrameOK(calls, frames[p])
           /\ frames[p].call \in Calls /\ frames[p].call \in Rows
           /\ frames[p].row \in Call /\ frames[p].fx \in Effects
  BY FrameByPc DEF IInv, TypeOK, FramesOK, Processes, EffectFrame, FrameOK, Rows

\* Each effect changes one table or one part of the memory.
LEMMA EffectStep ==
    ASSUME IInv, NEW p \in Processes,
           SyncRoom(p) \/ SetActiveCall(p) \/ SetTimers(p) \/ PostMessage(p) \/ SaveAttendance(p)
    PROVE  IInv'
  <1> DEFINE f == frames[p]
  <1>1. f.pc \in EffectPcs /\ calls' = calls /\ Continue(p)
    BY DEF SyncRoom, SetActiveCall, SetTimers, PostMessage, SaveAttendance, EffectPcs, tables
  <1>2. f.call \in Calls /\ f.call \in Rows /\ f.row \in Call /\ f.fx \in Effects
    BY <1>1, EffectFrameOf
  <1>3. frames' \in [Processes -> Frame] /\ FramesOK'
    BY <1>1, ContinueStep
  <1> HIDE DEF f
  <1>4. CASE SyncRoom(p)
    BY <1>1, <1>2, <1>3, <1>4, CalmRows
       DEF SyncRoom, Quiet, IInv, TypeOK, TimersOK, Rows, Processes, tables, memory, budget, f
  <1>5. CASE SetActiveCall(p)
    <2>1. f.row.conv \in Convs
      BY <1>2 DEF Call
    <2>2. activeCall' \in [Convs -> Calls \cup {NoCall}]
      BY <1>2, <1>5, <2>1 DEF SetActiveCall, IInv, TypeOK, f
    <2> QED
      BY <1>1, <1>3, <1>5, <2>2, CalmRows
         DEF SetActiveCall, Quiet, IInv, TypeOK, TimersOK, Rows, Processes, memory, budget
  <1>6. CASE SetTimers(p)
    <2>1. ringTimers' \subseteq Rows
      BY <1>2, <1>6 DEF SetTimers, IInv, TimersOK, f
    <2>2. /\ graceTimers' \in [Calls -> [Users -> Tabs \cup {NoTab}]]
          /\ \A c \in Calls, u \in Users : graceTimers'[c][u] # NoTab => c \in Rows
      BY <1>2, <1>6 DEF SetTimers, IInv, TypeOK, TimersOK, f
    <2>3. Rows \subseteq Calls /\ Rows' = Rows
      BY <1>1 DEF IInv, TypeOK, Rows
    <2>4. TimersOK'
      BY <1>6, <2>1, <2>2, <2>3 DEF SetTimers, IInv, TimersOK
    <2>5. TypeOK'
      BY <1>1, <1>3, <1>6, <2>1, <2>2, <2>3, CalmRows
         DEF SetTimers, Quiet, IInv, TypeOK, Processes, tables, budget
    <2> QED BY <1>1, <1>3, <2>4, <2>5, CalmRows DEF IInv
  <1>7. CASE PostMessage(p)
    <2>1. f.fx.message \in Outcomes \cup {"none"} /\ f.fx.notify \subseteq Users
      BY <1>2 DEF Effects
    <2>2. messages' \in [Calls -> Outcomes \cup {"none"}]
      BY <1>2, <1>7, <2>1 DEF PostMessage, IInv, TypeOK, f
    <2>3. notified' \in [Calls -> SUBSET Users]
      <3>1. notified \in [Calls -> SUBSET Users]
        BY DEF IInv, TypeOK
      <3>2. \/ notified' = notified
            \/ notified' = [notified EXCEPT ![f.call] = @ \cup f.fx.notify]
        BY <1>7 DEF PostMessage, f
      <3> QED BY <1>2, <2>1, <3>1, <3>2
    <2> QED
      BY <1>1, <1>3, <1>7, <2>2, <2>3, CalmRows
         DEF PostMessage, Quiet, IInv, TypeOK, TimersOK, Rows, Processes, memory, budget
  <1>8. CASE SaveAttendance(p)
    <2>1. intervals' \in [Calls -> [Users -> Nat]]
      BY <1>2, <1>8 DEF SaveAttendance, Saved, IInv, TypeOK, f
    <2> QED
      BY <1>1, <1>3, <1>8, <2>1, CalmRows
         DEF SaveAttendance, Quiet, IInv, TypeOK, TimersOK, Rows, Processes, memory, budget
  <1> QED BY <1>4, <1>5, <1>6, <1>7, <1>8

\* The calls that are left are ones the person is in, from the tab they are in.
LEMMA LeaveOthersStep == ASSUME IInv, NEW p \in Processes, LeaveOtherCalls(p) PROVE IInv'
  <1> DEFINE f == frames[p]
             others == {m \in (LiveIds \ {f.call}) \X f.fx.others : m[2] \in Joined(calls[m[1]])}
             leaveOf(c, u) == [type |-> "leave", user |-> u, tab |-> calls[c].legs[u].tab, network |-> FALSE]
             rest == {<<m[1], leaveOf(m[1], m[2])>> : m \in others}
  <1>1. calls' = calls /\ f.pc = "others"
    BY DEF LeaveOtherCalls, tables
  <1>2. PICK g \in NextOf(rest) : Becomes(p, g)
    BY DEF LeaveOtherCalls
  <1>3. \A m \in others : m[1] \in Rows /\ m[1] \in Calls /\ leaveOf(m[1], m[2]) \in Event
    <2> SUFFICES ASSUME NEW m \in others
                 PROVE  m[1] \in Rows /\ m[1] \in Calls /\ leaveOf(m[1], m[2]) \in Event
      OBVIOUS
    <2>1. m[1] \in Rows /\ m[2] \in Joined(calls[m[1]])
      BY DEF LiveIds
    <2>2. m[1] \in Calls /\ calls[m[1]] \in Call /\ TabOK(calls[m[1]])
      BY <2>1 DEF IInv, TypeOK, CallsOK, CallOK
    <2>3. m[2] \in Users /\ calls[m[1]].legs[m[2]] \in Leg
      BY <2>1, <2>2 DEF Joined, Call
    <2>4. calls[m[1]].legs[m[2]].tab \in Tabs
      BY <2>1, <2>2, <2>3 DEF Joined, TabOK, Leg
    <2> QED BY <2>1, <2>2, <2>3, <2>4 DEF Event
  <1> HIDE DEF leaveOf, others
  <1>4. rest \in Rest /\ \A r \in rest : r[1] \in DOMAIN calls
    BY <1>3 DEF Rest, Rows
  <1>5. g \in Frame /\ FrameOK(calls, g)
    BY <1>2, <1>4, NextOfOK
  <1>6. frames' \in [Processes -> Frame] /\ FramesOK'
    BY <1>1, <1>2, <1>5, FrameStep
  <1>7. TypeOK'
    BY <1>1, <1>6, CalmRows DEF LeaveOtherCalls, Quiet, IInv, TypeOK, Processes, tables, memory, budget
  <1>8. TimersOK'
    BY <1>1 DEF LeaveOtherCalls, IInv, TimersOK, Rows, memory
  <1> QED BY <1>1, <1>6, <1>7, <1>8, CalmRows DEF IInv

-----------------------------------------------------------------------------
(* Timers and the sweeper *)

\* Time passes and timers fire for calls that exist.
LEMMA TimerStep ==
    ASSUME IInv,
           \/ \E c \in Calls : RingWindowPasses(c)
           \/ \E c \in Calls, p \in Procs : RingTimerFires(p, c) \/ \E u \in Users : GraceTimerFires(p, c, u)
           \/ \E c \in Calls, u \in Users : GracePasses(c, u)
    PROVE  IInv'
  <1>1. ASSUME NEW c \in Calls, RingWindowPasses(c) PROVE IInv'
    <2>1. calls' = calls /\ frames' = frames
      BY <1>1 DEF RingWindowPasses, tables
    <2>2. FramesOK'
      BY <2>1 DEF IInv, FramesOK
    <2> QED
      BY <1>1, <2>1, <2>2, CalmRows
         DEF RingWindowPasses, IInv, TypeOK, TimersOK, Rows, tables, memory, budget
  <1>2. ASSUME NEW c \in Calls, NEW p \in Procs, RingTimerFires(p, c) PROVE IInv'
    <2> DEFINE ev == [type |-> "ring_timeout", due |-> c \in due]
    <2>1. calls' = calls /\ Becomes(p, LoadFrame(c, ev)) /\ p \in Processes
      BY <1>2 DEF RingTimerFires, tables, Processes
    <2>2. c \in DOMAIN calls /\ ev \in Event
      BY <1>2 DEF RingTimerFires, IInv, TimersOK, Rows, Event
    <2> HIDE DEF ev
    <2>3. frames' \in [Processes -> Frame] /\ FramesOK'
      BY <2>1, <2>2, LoadFrameOK, FrameStep
    <2> QED
      BY <1>2, <2>1, <2>3, CalmRows
         DEF RingTimerFires, Quiet, IInv, TypeOK, TimersOK, Rows, Processes, tables, budget
  <1>3. ASSUME NEW c \in Calls, NEW p \in Procs, NEW u \in Users, GraceTimerFires(p, c, u) PROVE IInv'
    <2> DEFINE ev == [type |-> "leave", user |-> u, tab |-> graceTimers[c][u], network |-> TRUE]
    <2>1. calls' = calls /\ Becomes(p, LoadFrame(c, ev)) /\ p \in Processes
      BY <1>3 DEF GraceTimerFires, tables, Processes
    <2>2. graceTimers[c][u] \in Tabs
      BY <1>3 DEF GraceTimerFires, IInv, TypeOK
    <2>3. c \in DOMAIN calls /\ ev \in Event
      BY <1>3, <2>2 DEF GraceTimerFires, IInv, TimersOK, Rows, Event
    <2> HIDE DEF ev
    <2>4. frames' \in [Processes -> Frame] /\ FramesOK'
      BY <2>1, <2>3, LoadFrameOK, FrameStep
    <2>5. /\ graceTimers' \in [Calls -> [Users -> Tabs \cup {NoTab}]]
          /\ \A d \in Calls, v \in Users : graceTimers'[d][v] # NoTab => d \in Rows
      BY <1>3 DEF GraceTimerFires, IInv, TypeOK, TimersOK
    <2>6. TimersOK'
      BY <1>3, <2>1, <2>5 DEF GraceTimerFires, IInv, TimersOK, Rows
    <2>7. TypeOK'
      BY <1>3, <2>1, <2>4, <2>5, CalmRows
         DEF GraceTimerFires, Quiet, IInv, TypeOK, Processes, tables, budget
    <2> QED BY <2>1, <2>4, <2>6, <2>7, CalmRows DEF IInv
  <1>4. ASSUME NEW c \in Calls, NEW u \in Users, GracePasses(c, u) PROVE IInv'
    <2>1. calls' = calls /\ frames' = frames
      BY <1>4 DEF GracePasses, tables
    <2>2. FramesOK'
      BY <2>1 DEF IInv, FramesOK
    <2>3. presence' \in [Calls -> [Users -> Seen]]
      <3>1. presence \in [Calls -> [Users -> Seen]]
        BY DEF IInv, TypeOK
      <3>2. presence' = [presence EXCEPT ![c] = [presence[c] EXCEPT ![u] = [presence[c][u] EXCEPT !.old = TRUE]]]
        BY <1>4 DEF GracePasses
      <3>3. presence[c][u] \in Seen
        BY <3>1
      <3>4. \A seen \in Seen : [seen EXCEPT !.old = TRUE] \in Seen
        BY DEF Seen
      <3> QED BY <3>1, <3>2, <3>3, <3>4
    <2> QED
      BY <1>4, <2>1, <2>2, <2>3, CalmRows
         DEF GracePasses, Quiet, IInv, TypeOK, TimersOK, Rows, tables, budget
  <1> QED BY <1>1, <1>2, <1>3, <1>4

\* The sweeper works on the rows it read, which exist.
LEMMA SweeperStep ==
    ASSUME IInv, SweepBegins \/ SweepEnds \/ \E c \in Calls : SweepCall(c)
    PROVE  IInv'
  <1>1. CASE SweepBegins
    <2>1. calls' = calls /\ frames' = frames
      BY <1>1 DEF SweepBegins, tables
    <2>2. FramesOK'
      BY <2>1 DEF IInv, FramesOK
    <2> DEFINE todo == [c \in LiveIds |-> [u \in Users |->
                    IF u \in Joined(calls[c]) THEN calls[c].legs[u].tab ELSE NoTab]]
    <2>3. todo \in [LiveIds -> [Users -> Tabs \cup {NoTab}]] /\ LiveIds \in SUBSET Calls
      BY DEF IInv, TypeOK, LiveIds, Call, Leg
    <2>4. pass' = [on |-> TRUE, seen |-> {}, due |-> due, todo |-> todo]
      BY <1>1 DEF SweepBegins
    <2> HIDE DEF todo
    <2>5. pass' \in Pass
      BY <2>3, <2>4 DEF Pass, IInv, TypeOK
    <2>6. DOMAIN pass'.todo \subseteq Rows
      BY <2>3, <2>4 DEF LiveIds
    <2> QED
      BY <1>1, <2>1, <2>2, <2>5, <2>6, CalmRows
         DEF SweepBegins, Quiet, IInv, TypeOK, TimersOK, Rows, tables, memory, budget
  <1>2. CASE SweepEnds
    <2>1. calls' = calls /\ frames' = frames /\ pass' = NoPass
      BY <1>2 DEF SweepEnds, tables
    <2>2. FramesOK'
      BY <2>1 DEF IInv, FramesOK
    <2>3. presence' \in [Calls -> [Users -> Seen]]
      BY <1>2 DEF SweepEnds, IInv, TypeOK, Unseen, Seen
    <2>4. pass' \in Pass /\ DOMAIN pass'.todo = {}
      BY <2>1 DEF Pass, NoPass
    <2> QED
      BY <1>2, <2>1, <2>2, <2>3, <2>4, CalmRows
         DEF SweepEnds, Quiet, IInv, TypeOK, TimersOK, Rows, tables, budget
  <1>3. ASSUME NEW c \in Calls, SweepCall(c) PROVE IInv'
    <2> DEFINE tabs == pass.todo[c]
               in == {u \in Users : tabs[u] # NoTab}
               fresh == {u \in in : presence[c][u].tab # tabs[u]}
               ev == [type |-> "sweep", due |-> c \in pass.due,
                      stale |-> {u \in in : Absent(c, u, tabs[u])}]
               todo == [d \in DOMAIN pass.todo \ {c} |-> pass.todo[d]]
    <2>1. /\ calls' = calls /\ Becomes(Sweeper, LoadFrame(c, ev)) /\ Sweeper \in Processes
          /\ c \in DOMAIN pass.todo /\ pass.on
          /\ presence' = [presence EXCEPT ![c] = [u \in Users |->
                IF u \in fresh THEN [Unseen EXCEPT !.tab = tabs[u]] ELSE @[u]]]
          /\ pass' = [pass EXCEPT !.todo = todo, !.seen = @ \cup ({c} \X in)]
      BY <1>3 DEF SweepCall, tables, Processes
    <2>2. c \in DOMAIN calls /\ ev \in Event
      BY <2>1 DEF IInv, TimersOK, Rows, Event
    <2>3. PICK S \in SUBSET Calls :
            /\ pass.todo \in [S -> [Users -> Tabs \cup {NoTab}]]
            /\ pass \in [on : {TRUE}, seen : SUBSET (Calls \X Users), due : SUBSET Calls,
                         todo : [S -> [Users -> Tabs \cup {NoTab}]]]
      <3>1. pass # NoPass
        BY <2>1 DEF NoPass
      <3>2. pass \in [on : {TRUE}, seen : SUBSET (Calls \X Users), due : SUBSET Calls,
                     todo : UNION {[S -> [Users -> Tabs \cup {NoTab}]] : S \in SUBSET Calls}]
        BY <3>1 DEF IInv, TypeOK, Pass
      <3>3. PICK S \in SUBSET Calls : pass.todo \in [S -> [Users -> Tabs \cup {NoTab}]]
        BY <3>2
      <3>4. pass \in [on : {TRUE}, seen : SUBSET (Calls \X Users), due : SUBSET Calls,
                     todo : [S -> [Users -> Tabs \cup {NoTab}]]]
        BY <3>2, <3>3
      <3> QED BY <3>3, <3>4
    <2>4. tabs \in [Users -> Tabs \cup {NoTab}]
      BY <2>1, <2>3
    <2>5. todo \in [S \ {c} -> [Users -> Tabs \cup {NoTab}]] /\ S \ {c} \in SUBSET Calls
      BY <2>3
    <2>6. in \subseteq Users
      OBVIOUS
    <2> HIDE DEF ev, todo, tabs, in
    <2>7. pass' \in [on : {TRUE}, seen : SUBSET (Calls \X Users), due : SUBSET Calls,
                     todo : [S \ {c} -> [Users -> Tabs \cup {NoTab}]]]
          /\ pass'.todo = todo
      BY <2>1, <2>3, <2>5, <2>6
    <2>8. pass' \in Pass
      BY <2>5, <2>7 DEF Pass
    <2>9. DOMAIN pass'.todo \subseteq Rows
      BY <2>3, <2>5, <2>7 DEF IInv, TimersOK
    <2>10. presence' \in [Calls -> [Users -> Seen]]
      <3>1. presence \in [Calls -> [Users -> Seen]]
        BY DEF IInv, TypeOK
      <3>2. \A u \in Users : [Unseen EXCEPT !.tab = tabs[u]] \in Seen
        BY <2>4 DEF Unseen, Seen
      <3> QED BY <2>1, <3>1, <3>2
    <2>11. frames' \in [Processes -> Frame] /\ FramesOK'
      BY <2>1, <2>2, LoadFrameOK, FrameStep
    <2> QED
      BY <1>3, <2>1, <2>8, <2>9, <2>10, <2>11, CalmRows
         DEF SweepCall, Quiet, IInv, TypeOK, TimersOK, Rows, Processes, tables, budget
  <1> QED BY <1>1, <1>2, <1>3

-----------------------------------------------------------------------------
(* Faults *)

\* A restart forgets everything but the tables.
LEMMA RestartStep == ASSUME IInv, Restart PROVE IInv'
  <1>1. /\ calls' = calls /\ frames' = [p \in Processes |-> Idle]
        /\ ringTimers' = {} /\ pass' = NoPass
        /\ graceTimers' = [c \in Calls |-> [u \in Users |-> NoTab]]
    BY DEF Restart, tables, Processes
  <1>2. frames' \in [Processes -> Frame] /\ FramesOK'
    BY <1>1, IdleOK DEF FramesOK
  <1>3. pass' \in Pass /\ DOMAIN pass'.todo = {}
    BY <1>1 DEF Pass, NoPass
  <1>4. faults' \in 0..MaxFaults
    BY FlowAssumption DEF Restart, Fault, IInv, TypeOK
  <1>5. presence' \in [Calls -> [Users -> Seen]] /\ room' \in [Calls -> SUBSET (Users \X Tabs)]
    BY DEF Restart, Unseen, Seen
  <1>6. TypeOK'
    BY <1>1, <1>2, <1>3, <1>4, <1>5, CalmRows DEF Restart, IInv, TypeOK, Processes, tables
  <1>7. TimersOK'
    BY <1>1, <1>3 DEF TimersOK
  <1> QED BY <1>1, <1>2, <1>6, <1>7, CalmRows DEF IInv

\* A failed statement or effect, and a write whose answer is lost.
LEMMA FaultStep ==
    ASSUME IInv, NEW p \in Processes, StatementFails(p) \/ AnswerLost(p) \/ EffectFails(p)
    PROVE  IInv'
  <1> DEFINE f == frames[p]
  <1>1. faults' \in 0..MaxFaults
    BY FlowAssumption DEF StatementFails, AnswerLost, EffectFails, Fault, IInv, TypeOK
  <1>2. CASE StatementFails(p)
    <2>1. calls' = calls /\ Becomes(p, Idle)
      BY <1>2 DEF StatementFails, tables
    <2>2. frames' \in [Processes -> Frame] /\ FramesOK'
      BY <2>1, IdleOK, FrameStep
    <2> QED
      BY <1>1, <1>2, <2>1, <2>2, CalmRows
         DEF StatementFails, IInv, TypeOK, TimersOK, Rows, Processes, tables, memory
  <1>3. CASE AnswerLost(p)
    <2>1. /\ f.pc = "write" /\ Unwritten(f.call, f.snap)
          /\ Store(f.call, Written(f.snap, f.ev)) /\ Becomes(p, Idle)
      BY <1>3 DEF AnswerLost
    <2>2. /\ (Rows \subseteq Calls /\ calls \in [Rows -> Call])'
          /\ Rows' = Rows /\ joins' \in [Calls -> [Users -> Nat]]
          /\ CallsOK' /\ OneLiveCall'
          /\ frames' \in [Processes -> Frame] /\ FramesOK'
      BY <2>1, IdleOK, StoreStep
    <2>3. TypeOK'
      BY <1>1, <1>3, <2>2 DEF AnswerLost, IInv, TypeOK, Processes, memory
    <2>4. TimersOK'
      BY <1>3, <2>2 DEF AnswerLost, IInv, TimersOK, memory
    <2> QED BY <2>2, <2>3, <2>4 DEF IInv
  <1>4. CASE EffectFails(p)
    <2>1. calls' = calls /\ f.pc \in EffectPcs
      BY <1>4 DEF EffectFails, EffectPcs
    <2>2. /\ f \in EffectFrame /\ FrameOK(calls, f)
          /\ f.call \in Calls /\ f.fx \in Effects
      BY <2>1, EffectFrameOf
    <2>3. frames' \in [Processes -> Frame] /\ FramesOK'
      <3>1. CASE Continue(p)
        BY <2>1, <3>1, ContinueStep
      <3>2. CASE Becomes(p, Idle)
        BY <2>1, <3>2, IdleOK, FrameStep
      <3>3. CASE Becomes(p, [f EXCEPT !.pc = "timers"])
        <4> DEFINE g == [f EXCEPT !.pc = "timers"]
        <4>1. g \in EffectFrame
          BY <2>2 DEF EffectFrame, EffectPcs
        <4>2. FrameOK(calls, g)
          BY <2>1, <2>2 DEF FrameOK, EffectFrame, EffectPcs
        <4> QED BY <2>1, <3>3, <4>1, <4>2, FrameStep DEF Frame
      <3> QED BY <1>4, <3>1, <3>2, <3>3 DEF EffectFails
    <2> HIDE DEF f
    <2>4. messages' \in [Calls -> Outcomes \cup {"none"}]
      BY <1>4, <2>2 DEF EffectFails, IInv, TypeOK, Effects, f
    <2>5. intervals' \in [Calls -> [Users -> Nat]]
      <3>1. intervals' = intervals \/ \E S \in SUBSET f.fx.attend : intervals' = Saved(f.call, S)
        BY <1>4 DEF EffectFails, f
      <3>2. \A S : Saved(f.call, S) \in [Calls -> [Users -> Nat]]
        BY <2>2 DEF Saved, IInv, TypeOK
      <3> QED BY <3>1, <3>2 DEF IInv, TypeOK
    <2>6. TypeOK'
      BY <1>1, <1>4, <2>1, <2>3, <2>4, <2>5, CalmRows
         DEF EffectFails, IInv, TypeOK, Processes, memory
    <2>7. TimersOK'
      BY <1>4, <2>1 DEF EffectFails, IInv, TimersOK, Rows, memory
    <2> QED BY <2>1, <2>3, <2>6, <2>7, CalmRows DEF IInv
  <1> QED BY <1>2, <1>3, <1>4

-----------------------------------------------------------------------------
(* The invariant and what follows from it *)

\* The invariant holds at the start.
LEMMA InitIInv == ASSUME Init PROVE IInv
  <1>1. Rows = {} /\ LiveIds = {}
    BY DEF Init, Rows, LiveIds
  <1>2. frames \in [Processes -> Frame] /\ FramesOK
    BY IdleOK DEF Init, FramesOK, Processes
  <1>3. pass \in Pass /\ DOMAIN pass.todo = {}
    BY DEF Init, Pass, NoPass
  <1>4. presence \in [Calls -> [Users -> Seen]]
    BY DEF Init, Unseen, Seen
  <1>5. calls \in [Rows -> Call]
    BY <1>1 DEF Init
  <1>6. TypeOK
    BY <1>1, <1>2, <1>3, <1>4, <1>5, FlowAssumption DEF Init, TypeOK, Processes
  <1>7. CallsOK /\ OneLiveCall
    BY <1>1 DEF CallsOK, OneLiveCall
  <1>8. TimersOK
    BY <1>3 DEF Init, TimersOK
  <1> QED BY <1>2, <1>6, <1>7, <1>8 DEF IInv

\* Every step keeps the invariant.
LEMMA NextIInv == ASSUME IInv, [Next]_vars PROVE IInv'
  <1>1. CASE Request
    BY <1>1, RequestStep
  <1>2. ASSUME NEW p \in Processes, Step(p) PROVE IInv'
    BY <1>2, CheckStep, InsertStep, LoadStep, WriteStep, EffectStep, LeaveOthersStep DEF Step
  <1>3. ASSUME NEW p \in Processes, StatementFails(p) \/ AnswerLost(p) \/ EffectFails(p) PROVE IInv'
    BY <1>3, FaultStep
  <1>4. CASE \/ \E c \in Calls : RingWindowPasses(c)
             \/ \E c \in Calls, p \in Procs : RingTimerFires(p, c) \/ \E u \in Users : GraceTimerFires(p, c, u)
             \/ \E c \in Calls, u \in Users : GracePasses(c, u)
    BY <1>4, TimerStep
  <1>5. CASE SweepBegins \/ SweepEnds \/ \E c \in Calls : SweepCall(c)
    BY <1>5, SweeperStep
  <1>6. CASE Restart
    BY <1>6, RestartStep
  <1>7. CASE UNCHANGED vars
    <2>1. calls' = calls /\ frames' = frames
      BY <1>7 DEF vars, tables
    <2>2. FramesOK'
      BY <2>1 DEF IInv, FramesOK
    <2> QED
      BY <1>7, <2>1, <2>2, CalmRows
         DEF vars, IInv, TypeOK, TimersOK, Rows, tables, memory, budget
  <1> QED BY <1>1, <1>2, <1>3, <1>4, <1>5, <1>6, <1>7 DEF Next, FlowStep, Processes

\* The invariant holds of every execution.
THEOREM Invariance == Spec => []IInv
  <1>1. Init => IInv
    BY InitIInv
  <1>2. IInv /\ [Next]_vars => IInv'
    BY NextIInv
  <1> QED BY <1>1, <1>2, PTL DEF Spec

\* Every variable keeps its type.
THEOREM TypeCorrect == Spec => []TypeOK
  <1>1. IInv => TypeOK
    BY DEF IInv
  <1> QED BY <1>1, Invariance, PTL

\* Every row of chat-calls hangs together, whatever the interleaving of requests,
\* timers, sweeps and faults.
THEOREM CallsStayOK == Spec => []CallsOK
  <1>1. IInv => CallsOK
    BY DEF IInv
  <1> QED BY <1>1, Invariance, PTL

\* A conversation never has two live calls.
THEOREM OneLivePerConversation == Spec => []OneLiveCall
  <1>1. IInv => OneLiveCall
    BY DEF IInv
  <1> QED BY <1>1, Invariance, PTL

\* A frame about to write holds the row as it is or will be refused.
THEOREM SnapshotsOK == Spec => []SnapshotOK
  <1>1. IInv => SnapshotOK
    BY DEF IInv, FramesOK, FrameOK, SnapshotOK, Processes, Rows
  <1> QED BY <1>1, Invariance, PTL

\* Only a compare-and-swap changes a row that exists, and it changes one that was
\* live and leaves everybody who stays in it at the tab they answered from.
LEMMA RowStep ==
    ASSUME IInv, [Next]_vars, NEW c \in Rows
    PROVE  \/ calls'[c] = calls[c]
           \/ /\ Live(calls[c])
              /\ \A u \in Joined(calls[c]) \cap Joined(calls'[c]) :
                    calls'[c].legs[u].tab = calls[c].legs[u].tab
  <1> DEFINE Goal == \/ calls'[c] = calls[c]
                     \/ /\ Live(calls[c])
                        /\ \A u \in Joined(calls[c]) \cap Joined(calls'[c]) :
                              calls'[c].legs[u].tab = calls[c].legs[u].tab
  <1>1. CASE calls' = calls
    BY <1>1
  <1>2. ASSUME NEW p \in Processes, InsertCall(p) PROVE Goal
    BY <1>2 DEF InsertCall, Rows
  <1>3. ASSUME NEW p \in Processes, frames[p].pc = "write",
               Unwritten(frames[p].call, frames[p].snap),
               Store(frames[p].call, Written(frames[p].snap, frames[p].ev))
        PROVE  Goal
    <2> DEFINE d == frames[p].call
               row == Written(frames[p].snap, frames[p].ev)
    <2>1. /\ d \in Rows /\ Live(calls[d])
          /\ \A u \in Joined(calls[d]) \cap Joined(row) : row.legs[u].tab = calls[d].legs[u].tab
      BY <1>3, WrittenRow
    <2>2. calls' = [calls EXCEPT ![d] = row]
      BY <1>3 DEF Store
    <2> HIDE DEF d, row
    <2>3. calls'[c] = IF c = d THEN row ELSE calls[c]
      BY <2>1, <2>2 DEF IInv, TypeOK
    <2> QED BY <2>1, <2>3
  <1>4. CASE Request
    <2>0. \A p, d, ev : AskFor(p, d, ev) => calls' = calls
      BY DEF AskFor, tables
    <2>2. ASSUME NEW p, NEW k, NEW u, NEW t, StartCall(p, k, u, t)
          PROVE  calls' = calls
      BY <2>2 DEF StartCall, tables
    <2>3. ASSUME NEW p, NEW d, NEW u, NEW t,
                 AcceptCall(p, d, u, t) \/ JoinCall(p, d, u, t) \/ DeclineCall(p, d, u, t)
                    \/ LeaveCall(p, d, u, t)
          PROVE  calls' = calls
      BY <2>0, <2>3, Zenon DEF AcceptCall, JoinCall, DeclineCall, LeaveCall
    <2>4. ASSUME NEW p, NEW d, NEW u, CancelCall(p, d, u) \/ EndCall(p, d, u)
          PROVE  calls' = calls
      BY <2>0, <2>4, Zenon DEF CancelCall, EndCall
    <2>1. calls' = calls
      BY <1>4, <2>2, <2>3, <2>4, Zenon DEF Request
    <2> QED BY <1>1, <2>1
  <1>5. ASSUME NEW p \in Processes, Step(p) PROVE Goal
    <2>1. CASE InsertCall(p)
      BY <2>1, <1>2
    <2>2. CASE Write(p)
      <3>1. CASE Unwritten(frames[p].call, frames[p].snap)
        BY <2>2, <3>1, <1>3 DEF Write
      <3>2. CASE ~Unwritten(frames[p].call, frames[p].snap)
        BY <2>2, <3>2, <1>1 DEF Write
      <3> QED BY <3>1, <3>2
    <2>3. CASE ~InsertCall(p) /\ ~Write(p)
      <3>1. calls' = calls
        BY <1>5, <2>3 DEF Step, CheckCall, Load, SyncRoom, SetActiveCall, SetTimers, LeaveOtherCalls,
                          PostMessage, SaveAttendance, tables
      <3> QED BY <1>1, <3>1
    <2> QED BY <2>1, <2>2, <2>3
  <1>6. ASSUME NEW p \in Processes, StatementFails(p) \/ AnswerLost(p) \/ EffectFails(p) PROVE Goal
    <2>1. CASE AnswerLost(p)
      BY <2>1, <1>3 DEF AnswerLost
    <2>2. CASE StatementFails(p) \/ EffectFails(p)
      BY <2>2, <1>1 DEF StatementFails, EffectFails, tables
    <2> QED BY <1>6, <2>1, <2>2
  <1>7. CASE \/ \E d \in Calls : RingWindowPasses(d) \/ SweepCall(d)
             \/ \E d \in Calls, p \in Procs : RingTimerFires(p, d) \/ \E u \in Users : GraceTimerFires(p, d, u)
             \/ \E d \in Calls, u \in Users : GracePasses(d, u)
             \/ SweepBegins \/ SweepEnds \/ Restart \/ UNCHANGED vars
    BY <1>7, <1>1 DEF RingWindowPasses, SweepCall, RingTimerFires, GraceTimerFires, GracePasses,
                      SweepBegins, SweepEnds, Restart, vars, tables
  <1> QED BY <1>4, <1>5, <1>6, <1>7 DEF Next, FlowStep, Processes

\* A call that ended stays as it is: no late answer, timer or sweep writes it.
THEOREM EndedStays == Spec => EndedIsFinal
  <1>1. IInv /\ [Next]_vars => [\A c \in Rows \ LiveIds : calls'[c] = calls[c]]_vars
    BY RowStep DEF LiveIds
  <1> QED BY <1>1, Invariance, PTL DEF Spec, EndedIsFinal

\* Whoever is in a call stays in it from the tab that answered first.
THEOREM FirstTabStays == Spec => FirstTabWins
  <1>1. IInv /\ [Next]_vars => [\A c \in Rows : \A u \in Joined(calls[c]) \cap Joined(calls'[c]) :
            calls'[c].legs[u].tab = calls[c].legs[u].tab]_vars
    BY RowStep
  <1> QED BY <1>1, Invariance, PTL DEF Spec, FirstTabWins
=============================================================================
