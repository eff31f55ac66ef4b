------------------------ MODULE CallAttendance_proofs ------------------------
(***************************************************************************)
(* Every entrance in a call ends up as one attendance interval             *)
(* (AttendanceExact).  The intervals saved, the frames that still owe one  *)
(* and whoever is in the call are balanced against the entrances: a        *)
(* compare-and-swap moves a person from the call to what its frame owes,   *)
(* save_attendance moves that to the table, a fault only loses.            *)
(***************************************************************************)
EXTENDS CallLifecycle_proofs, CallPresence, FiniteSetTheorems

Owing == {"sync", "active", "timers", "message", "attend"}

\* f has still to save an interval of u in c.
Owes(f, c, u) == f.pc \in Owing /\ f.call = c /\ u \in f.fx.attend
Owed(f, c, u) == IF Owes(f, c, u) THEN 1 ELSE 0

\* Whoever leaves the other calls has nobody's attendance to save.
Single(f) == f.pc \in EffectPcs /\ f.fx.others # {} => f.fx.attend = {}

Counted(c, u) == intervals[c][u] + Cardinality(Pending(c, u)) + In(c, u)
BalanceOf(c, u) ==
    /\ IsFiniteSet(Pending(c, u)) /\ Counted(c, u) <= joins[c][u]
    /\ faults = 0 => Counted(c, u) = joins[c][u]

AInv ==
    /\ \A p \in Processes : Single(frames[p])
    /\ \A c \in Calls, u \in Users : BalanceOf(c, u)

\* What is known before every step and after it.
Known == IInv /\ LInv /\ AInv /\ IInv'

\* The step moves no more intervals of u in c than there were, and without
\* faults as many; p goes on with f.
Balances(f, g, c, u) ==
    /\ intervals'[c][u] + Owed(g, c, u) + In(c, u)' + joins[c][u]
            <= intervals[c][u] + Owed(f, c, u) + In(c, u) + joins'[c][u]
    /\ faults' = 0 =>
        /\ faults = 0
        /\ intervals'[c][u] + Owed(g, c, u) + In(c, u)' + joins[c][u]
            = intervals[c][u] + Owed(f, c, u) + In(c, u) + joins'[c][u]

\* The numbers of the balance are natural numbers.
LEMMA Numbers ==
    ASSUME Known, NEW c \in Calls, NEW u \in Users
    PROVE  /\ intervals[c][u] \in Nat /\ intervals'[c][u] \in Nat
           /\ joins[c][u] \in Nat /\ joins'[c][u] \in Nat
           /\ In(c, u) \in 0..1 /\ In(c, u)' \in 0..1
           /\ faults \in Nat /\ faults' \in Nat
           /\ \A f : Owed(f, c, u) \in 0..1
           /\ IsFiniteSet(Pending(c, u)) /\ Cardinality(Pending(c, u)) \in Nat
  <1>1. /\ intervals[c][u] \in Nat /\ intervals'[c][u] \in Nat
        /\ joins[c][u] \in Nat /\ joins'[c][u] \in Nat
    BY DEF Known, IInv, TypeOK
  <1>2. In(c, u) \in 0..1 /\ In(c, u)' \in 0..1 /\ \A f : Owed(f, c, u) \in 0..1
    BY DEF In, Owed
  <1>3. faults \in Nat /\ faults' \in Nat
    BY FlowAssumption DEF Known, IInv, TypeOK
  <1>4. IsFiniteSet(Pending(c, u)) /\ Cardinality(Pending(c, u)) \in Nat
    BY FS_CardinalityType DEF Known, AInv, BalanceOf
  <1> QED BY <1>1, <1>2, <1>3, <1>4

\* What a process owes changes only with its frame.
LEMMA PendingStep ==
    ASSUME Known, NEW p \in Processes, NEW g, Becomes(p, g), NEW c \in Calls, NEW u \in Users
    PROVE  /\ IsFiniteSet(Pending(c, u)')
           /\ Cardinality(Pending(c, u)') + Owed(frames[p], c, u)
                = Cardinality(Pending(c, u)) + Owed(g, c, u)
  <1> DEFINE before == Pending(c, u)
             after == Pending(c, u)'
  <1>1. before = {q \in Processes : Owes(frames[q], c, u)}
    BY DEF Pending, Owes, Owing, Processes
  <1>2. after = {q \in Processes : Owes(frames'[q], c, u)}
    BY DEF Pending, Owes, Owing, Processes
  <1>3. \A q \in Processes : frames'[q] = IF q = p THEN g ELSE frames[q]
    BY DEF Known, IInv, TypeOK, Becomes, Processes
  <1>4. after = (before \ {p}) \cup (IF Owes(g, c, u) THEN {p} ELSE {})
    BY <1>1, <1>2, <1>3
  <1>5. p \in before <=> Owes(frames[p], c, u)
    BY <1>1
  <1>6. IsFiniteSet(before) /\ Cardinality(before) \in Nat
    BY Numbers
  <1> HIDE DEF before, after
  <1>7. /\ IsFiniteSet(before \ {p})
        /\ Cardinality(before \ {p}) = IF p \in before THEN Cardinality(before) - 1 ELSE Cardinality(before)
    BY <1>6, FS_RemoveElement
  <1>8. /\ IsFiniteSet((before \ {p}) \cup {p})
        /\ Cardinality((before \ {p}) \cup {p}) = Cardinality(before \ {p}) + 1
    BY <1>7, FS_AddElement
  <1>9. CASE Owes(g, c, u)
    <2>1. after = (before \ {p}) \cup {p}
      BY <1>4, <1>9
    <2> QED BY <1>5, <1>6, <1>7, <1>8, <1>9, <2>1 DEF Owed, before, after
  <1>10. CASE ~Owes(g, c, u)
    <2>1. after = before \ {p}
      BY <1>4, <1>10
    <2> QED BY <1>5, <1>6, <1>7, <1>10, <2>1 DEF Owed, before, after
  <1> QED BY <1>9, <1>10

\* A step of one process that balances keeps the account.
LEMMA BalancedStep ==
    ASSUME Known, NEW p \in Processes, NEW g, Becomes(p, g), Single(g),
           \A c \in Calls, u \in Users : Balances(frames[p], g, c, u)
    PROVE  AInv'
  <1>1. \A q \in Processes : Single(frames'[q])
    BY DEF Known, AInv, IInv, TypeOK, Becomes, Processes
  <1>2. ASSUME NEW c \in Calls, NEW u \in Users PROVE BalanceOf(c, u)'
    <2> DEFINE i == intervals[c][u]    i1 == intervals'[c][u]
               j == joins[c][u]        j1 == joins'[c][u]
               n == In(c, u)           n1 == In(c, u)'
               k == Cardinality(Pending(c, u))
               k1 == Cardinality(Pending(c, u)')
               o == Owed(frames[p], c, u)
               o1 == Owed(g, c, u)
    <2>1. /\ i \in Nat /\ i1 \in Nat /\ j \in Nat /\ j1 \in Nat /\ n \in 0..1 /\ n1 \in 0..1
          /\ o \in 0..1 /\ o1 \in 0..1 /\ k \in Nat
      BY Numbers
    <2>2. IsFiniteSet(Pending(c, u)') /\ k1 + o = k + o1
      BY PendingStep
    <2>3. k1 \in Nat
      BY <2>2, FS_CardinalityType
    <2>4. i + k + n <= j /\ (faults = 0 => i + k + n = j)
      BY DEF Known, AInv, BalanceOf, Counted
    <2>5. /\ i1 + o1 + n1 + j <= i + o + n + j1
          /\ faults' = 0 => faults = 0 /\ i1 + o1 + n1 + j = i + o + n + j1
      BY DEF Balances
    <2> HIDE DEF i, i1, j, j1, n, n1, k, k1, o, o1
    <2>6. i1 + k1 + n1 <= j1 /\ (faults' = 0 => i1 + k1 + n1 = j1)
      BY <2>1, <2>2, <2>3, <2>4, <2>5
    <2> QED BY <2>2, <2>6 DEF BalanceOf, Counted, i1, j1, n1, k1
  <1> QED BY <1>1, <1>2 DEF AInv

-----------------------------------------------------------------------------
(* Steps that move nobody *)

\* Rows, entrances and intervals are as they were; a fault may have happened.
Settled == calls' = calls /\ joins' = joins /\ intervals' = intervals
Faultless == faults' = faults
Faulty == faults' = faults + 1

\* Who is in a call depends on its row alone.
LEMMA SettledIn ==
    ASSUME Settled, NEW c, NEW u
    PROVE  In(c, u)' = In(c, u) /\ joins'[c][u] = joins[c][u] /\ intervals'[c][u] = intervals[c][u]
  BY DEF Settled, In, Rows

\* A frame that owes what the one before owed.
LEMMA SettledStep ==
    ASSUME Known, Settled, Faultless \/ Faulty, NEW p \in Processes, NEW g, Becomes(p, g), Single(g),
           \A c \in Calls, u \in Users : Owed(g, c, u) = Owed(frames[p], c, u)
    PROVE  AInv'
  <1>1. ASSUME NEW c \in Calls, NEW u \in Users PROVE Balances(frames[p], g, c, u)
    <2>1. /\ In(c, u)' = In(c, u) /\ joins'[c][u] = joins[c][u] /\ intervals'[c][u] = intervals[c][u]
          /\ Owed(g, c, u) = Owed(frames[p], c, u)
      BY SettledIn
    <2>2. /\ intervals[c][u] \in Nat /\ joins[c][u] \in Nat /\ In(c, u) \in 0..1
          /\ Owed(frames[p], c, u) \in 0..1 /\ faults \in Nat
      BY Numbers
    <2>3. faults' = 0 => faults = 0
      BY <2>2 DEF Faultless, Faulty
    <2> QED BY <2>1, <2>2, <2>3 DEF Balances
  <1> QED BY <1>1, BalancedStep

\* A frame that owes nothing goes on to another one.
LEMMA PlainStep ==
    ASSUME Known, Settled, Faultless \/ Faulty, NEW p \in Processes, frames[p].pc \notin Owing,
           NEW g, g.pc \notin EffectPcs, Becomes(p, g)
    PROVE  AInv'
  <1>1. Single(g) /\ \A c, u : Owed(g, c, u) = 0 /\ Owed(frames[p], c, u) = 0
    BY DEF Single, Owed, Owes, Owing, EffectPcs
  <1> QED BY <1>1, SettledStep

\* Nobody's frame changes.
LEMMA StillStep == ASSUME Known, Settled, Faultless, frames' = frames PROVE AInv'
  <1>1. \A p \in Processes : Single(frames'[p])
    BY DEF Known, AInv
  <1>2. ASSUME NEW c \in Calls, NEW u \in Users PROVE BalanceOf(c, u)'
    <2>1. In(c, u)' = In(c, u) /\ joins'[c][u] = joins[c][u] /\ intervals'[c][u] = intervals[c][u]
      BY SettledIn
    <2>2. Pending(c, u)' = Pending(c, u)
      BY DEF Pending
    <2> QED BY <2>1, <2>2 DEF Known, AInv, BalanceOf, Counted, Faultless
  <1> QED BY <1>1, <1>2 DEF AInv

\* An effect that saves nobody's attendance leaves it for later if there is any.
LEMMA ContinueOwes ==
    ASSUME Known, NEW p \in Processes, frames[p].pc \in Owing \ {"attend"}, Continue(p)
    PROVE  \E g : /\ Becomes(p, g) /\ Single(g)
                  /\ \A c \in Calls, u \in Users : Owed(g, c, u) = Owed(frames[p], c, u)
  <1> DEFINE f == frames[p]
             pc == After(f.pc, f.fx)
             g == [f EXCEPT !.pc = pc]
  <1>1. f \in EffectFrame /\ Single(f) /\ f.pc \in EffectPcs
    BY EffectFrameOf DEF Known, AInv, Owing, EffectPcs
  <1>2. CASE pc = "end"
    <2>1. PICK h \in NextOf(f.rest) : Becomes(p, h)
      BY <1>2 DEF Continue
    <2>2. h.pc \in {"idle", "load"}
      BY NextOfSilent
    <2>3. f.fx.attend = {}
      BY <1>2 DEF After, AfterTimers, AfterMessage, Owing
    <2>4. Single(h) /\ \A c, u : Owed(h, c, u) = 0 /\ Owed(f, c, u) = 0
      BY <2>2, <2>3 DEF Single, Owed, Owes, Owing, EffectPcs
    <2> QED BY <2>1, <2>4
  <1>3. CASE pc # "end"
    <2>1. Becomes(p, g)
      BY <1>3 DEF Continue
    <2>2. g.pc = pc /\ g.call = f.call /\ g.fx = f.fx
      BY <1>1 DEF EffectFrame
    <2>3. pc \in Owing \/ (pc = "others" /\ f.fx.others # {})
      BY <1>3 DEF After, AfterTimers, AfterMessage, Owing
    <2>4. Single(g)
      BY <1>1, <2>2 DEF Single
    <2>5. \A c, u : Owed(g, c, u) = Owed(f, c, u)
      BY <1>1, <2>2, <2>3 DEF Owed, Owes, Single
    <2> QED BY <2>1, <2>4, <2>5
  <1> QED BY <1>2, <1>3

\* Once the attendance is saved nothing is owed.
LEMMA AttendEnds ==
    ASSUME NEW p \in Processes, frames[p].pc = "attend", Continue(p)
    PROVE  \E g : Becomes(p, g) /\ Single(g) /\ \A c, u : Owed(g, c, u) = 0
  <1>1. After(frames[p].pc, frames[p].fx) = "end"
    BY DEF After
  <1>2. PICK g \in NextOf(frames[p].rest) : Becomes(p, g)
    BY <1>1 DEF Continue
  <1>3. g.pc \in {"idle", "load"}
    BY NextOfSilent
  <1>4. Single(g) /\ \A c, u : Owed(g, c, u) = 0
    BY <1>3 DEF Single, Owed, Owes, Owing, EffectPcs
  <1> QED BY <1>2, <1>4

\* A process that owes nothing goes on to a frame without effects.
Plainly == \E p \in Processes : \E g :
    frames[p].pc \notin Owing /\ g.pc \notin EffectPcs /\ Becomes(p, g)

LoadsPlain == \A c, ev : LoadFrame(c, ev).pc \notin EffectPcs
LEMMA LoadPlain == LoadsPlain /\ Idle.pc \notin Owing /\ Idle.pc \notin EffectPcs
  BY DEF LoadsPlain, LoadFrame, Idle, Owing, EffectPcs

\* A request starts a frame and moves nobody.
LEMMA RequestPlain == ASSUME Request PROVE Settled /\ Faultless /\ Plainly
  <1> DEFINE Goal == Settled /\ Faultless /\ Plainly
  <1>1. ASSUME NEW p \in Procs, NEW c, NEW ev, AskFor(p, c, ev) PROVE Goal
    <2>1. Becomes(p, LoadFrame(c, ev)) /\ frames[p] = Idle /\ p \in Processes
      BY <1>1 DEF AskFor, Free, Processes
    <2>2. Plainly
      BY <2>1, LoadPlain DEF Plainly, LoadsPlain
    <2>3. Settled /\ Faultless
      BY <1>1 DEF AskFor, Settled, Faultless, tables
    <2> QED BY <2>2, <2>3
  <1>2. ASSUME NEW p \in Procs, NEW k, NEW u, NEW t, StartCall(p, k, u, t) PROVE Goal
    <2>1. PICK wanted :
            Becomes(p, [pc |-> "check", ev |-> [conv |-> k, user |-> u, tab |-> t, wanted |-> wanted]])
      BY <1>2 DEF StartCall
    <2> DEFINE g == [pc |-> "check", ev |-> [conv |-> k, user |-> u, tab |-> t, wanted |-> wanted]]
    <2>2. g.pc \notin EffectPcs /\ frames[p] = Idle /\ p \in Processes
      BY <1>2 DEF EffectPcs, StartCall, Free, Processes
    <2> HIDE DEF g
    <2>3. Plainly
      BY <2>1, <2>2, LoadPlain DEF Plainly, g
    <2>4. Settled /\ Faultless
      BY <1>2 DEF StartCall, Settled, Faultless, tables
    <2> QED BY <2>3, <2>4
  <1> HIDE DEF Goal
  <1>3. ASSUME NEW p \in Procs, NEW u \in Users, NEW c \in Rows, NEW t \in Tabs,
               AcceptCall(p, c, u, t) \/ JoinCall(p, c, u, t) \/ DeclineCall(p, c, u, t) \/ LeaveCall(p, c, u, t)
        PROVE  Goal
    BY <1>1, <1>3 DEF AcceptCall, JoinCall, DeclineCall, LeaveCall
  <1>4. ASSUME NEW p \in Procs, NEW u \in Users, NEW c \in Rows, CancelCall(p, c, u) \/ EndCall(p, c, u)
        PROVE  Goal
    BY <1>1, <1>4 DEF CancelCall, EndCall
  <1>5. Goal
    BY <1>2, <1>3, <1>4 DEF Request
  <1> QED BY <1>5 DEF Goal

\* Deciding writes no row: what was checked or loaded is about to be written.
LEMMA DecidePlain ==
    ASSUME IInv, NEW p \in Processes, CheckCall(p) \/ Load(p) \/ LeaveOtherCalls(p)
    PROVE  Settled /\ Faultless /\ Plainly
  <1> DEFINE f == frames[p]
  <1>1. Settled /\ Faultless
    BY DEF CheckCall, Load, LeaveOtherCalls, Settled, Faultless, tables, budget, Quiet
  <1>2. f.pc \notin Owing
    BY DEF CheckCall, Load, LeaveOtherCalls, Owing
  <1>3. ASSUME NEW rest, NEW g \in NextOf(rest), Becomes(p, g) PROVE Plainly
    BY <1>2, <1>3, NextOfSilent DEF Plainly, EffectPcs
  <1>4. ASSUME Becomes(p, Idle) PROVE Plainly
    BY <1>2, <1>4, LoadPlain DEF Plainly
  <1>5. CASE CheckCall(p)
    <2>1. PICK g : Becomes(p, g) /\ (g = Idle \/ g.pc = "insert")
      BY <1>5 DEF CheckCall
    <2>2. g.pc \notin EffectPcs
      BY <2>1, LoadPlain DEF EffectPcs
    <2> QED BY <1>1, <1>2, <2>1, <2>2 DEF Plainly
  <1>6. CASE Load(p)
    <2> DEFINE g == [pc |-> "write", call |-> f.call, ev |-> f.ev, tries |-> f.tries,
                     rest |-> f.rest, snap |-> calls[f.call]]
    <2>1. f \in LoadingFrame /\ f.call \in Rows /\ f.call \in Calls /\ f.ev \in Event
      BY <1>6, FrameByPc DEF IInv, TypeOK, FramesOK, FrameOK, Processes, Load, LoadingFrame, Rows
    <2>2. Transition(calls[f.call], f.ev).code \in {"done", "same", "refused"}
      BY <2>1, TransitionKeeps DEF Keeps, Result, IInv, TypeOK, CallsOK
    <2>3. Becomes(p, Idle) \/ Becomes(p, g) \/ \E h \in NextOf(f.rest) : Becomes(p, h)
      BY <1>6, <2>2 DEF Load
    <2>4. g.pc \notin EffectPcs
      BY DEF EffectPcs
    <2> HIDE DEF g
    <2>5. Becomes(p, g) => Plainly
      BY <1>2, <2>4 DEF Plainly
    <2> QED BY <1>1, <1>3, <1>4, <2>3, <2>5
  <1>7. CASE LeaveOtherCalls(p)
    <2>1. \E rest : \E g \in NextOf(rest) : Becomes(p, g)
      BY <1>7 DEF LeaveOtherCalls
    <2> QED BY <1>1, <1>3, <2>1
  <1> QED BY <1>5, <1>6, <1>7

\* Timers and the sweeper start frames and move nobody.
LEMMA TimersPlain ==
    ASSUME \/ \E c \in Calls : RingWindowPasses(c) \/ SweepCall(c)
           \/ \E c \in Calls, p \in Procs : RingTimerFires(p, c) \/ \E u \in Users : GraceTimerFires(p, c, u)
           \/ \E c \in Calls, u \in Users : GracePasses(c, u)
           \/ SweepBegins \/ SweepEnds \/ UNCHANGED vars
    PROVE  Settled /\ Faultless /\ (frames' = frames \/ Plainly)
  <1>1. Settled /\ Faultless
    BY DEF RingWindowPasses, SweepCall, RingTimerFires, GraceTimerFires, GracePasses, SweepBegins,
           SweepEnds, vars, Settled, Faultless, tables, budget, Quiet
  <1>2. ASSUME NEW p \in Processes, frames[p] = Idle, NEW c, NEW ev, Becomes(p, LoadFrame(c, ev)) PROVE Plainly
    BY <1>2, LoadPlain DEF Plainly, LoadsPlain
  <1>3. CASE \E c \in Calls : SweepCall(c)
    BY <1>1, <1>2, <1>3 DEF SweepCall, Processes
  <1>4. CASE \E c \in Calls, p \in Procs : RingTimerFires(p, c) \/ \E u \in Users : GraceTimerFires(p, c, u)
    BY <1>1, <1>2, <1>4 DEF RingTimerFires, GraceTimerFires, Free, Processes
  <1>5. CASE \/ \E c \in Calls : RingWindowPasses(c)
             \/ \E c \in Calls, u \in Users : GracePasses(c, u)
             \/ SweepBegins \/ SweepEnds \/ UNCHANGED vars
    BY <1>1, <1>5 DEF RingWindowPasses, GracePasses, SweepBegins, SweepEnds, vars
  <1> QED BY <1>3, <1>4, <1>5

-----------------------------------------------------------------------------
(* Steps that move somebody *)

\* Whoever calls enters the call that is inserted, and nobody else.
LEMMA InsertBalances == ASSUME Known, NEW p \in Processes, InsertCall(p) PROVE AInv'
  <1> DEFINE row == frames[p].row
             frameOf(c) == [pc |-> "sync", call |-> c, row |-> row, rest |-> {},
                            fx |-> [EmitOnly EXCEPT !.ring = "start"]]
  <1>1. /\ row \in Call /\ CallOK(row) /\ row.state = "ringing"
        /\ row.initiator \in Users
    BY FrameByPc DEF Known, IInv, TypeOK, FramesOK, FrameOK, InsertFrame, Processes, InsertCall,
                     LInv, FramesTrue, FrameTrue, Call
  <1>2. Joined(row) = {row.initiator}
    BY <1>1 DEF CallOK, RingingOK
  <1>3. intervals' = intervals /\ Faultless /\ frames[p].pc \notin Owing
    BY DEF InsertCall, Faultless, budget, Owing
  <1>4. CASE UniqueViolation(row)
    BY <1>3, <1>4, LoadPlain, PlainStep DEF InsertCall, Settled
  <1>5. CASE ~UniqueViolation(row)
    <2>1. PICK c \in Calls \ Rows :
            /\ calls' = [d \in Rows \cup {c} |-> IF d = c THEN row ELSE calls[d]]
            /\ joins' = [joins EXCEPT ![c][row.initiator] = @ + 1]
            /\ Becomes(p, frameOf(c))
      BY <1>5 DEF InsertCall
    <2>2. /\ Rows' = Rows \cup {c} /\ calls'[c] = row
          /\ \A d \in Rows : calls'[d] = calls[d]
      BY <2>1 DEF Rows
    <2>3. Single(frameOf(c)) /\ \A d, u : Owed(frameOf(c), d, u) = 0 /\ Owed(frames[p], d, u) = 0
      BY <1>3 DEF Single, EmitOnly, Owed, Owes
    <2>4. \A d \in Calls, u \in Users :
            joins'[d][u] = joins[d][u] + (IF d = c /\ u = row.initiator THEN 1 ELSE 0)
      BY <1>1, <2>1 DEF Known, IInv, TypeOK
    <2> HIDE DEF row, frameOf
    <2>5. \A d \in Calls, u \in Users :
            In(d, u)' = In(d, u) + (IF d = c /\ u = row.initiator THEN 1 ELSE 0)
      BY <1>2, <2>1, <2>2 DEF In
    <2>6. ASSUME NEW d \in Calls, NEW u \in Users PROVE Balances(frames[p], frameOf(c), d, u)
      <3> DEFINE one == IF d = c /\ u = row.initiator THEN 1 ELSE 0
      <3>1. /\ joins'[d][u] = joins[d][u] + one /\ In(d, u)' = In(d, u) + one
            /\ intervals'[d][u] = intervals[d][u] /\ faults' = faults
            /\ Owed(frameOf(c), d, u) = 0 /\ Owed(frames[p], d, u) = 0
        BY <1>3, <2>3, <2>4, <2>5 DEF Faultless
      <3>2. one \in 0..1 /\ intervals[d][u] \in Nat /\ joins[d][u] \in Nat /\ In(d, u) \in 0..1
        BY Numbers
      <3> HIDE DEF one
      <3> QED BY <3>1, <3>2 DEF Balances
    <2> QED BY <2>1, <2>3, <2>6, BalancedStep
  <1> QED BY <1>4, <1>5

\* A compare-and-swap moves whoever goes out from the call to what its frame owes,
\* and counts whoever comes in.
LEMMA StoreMoves ==
    ASSUME Known, NEW p \in Processes, frames[p].pc = "write",
           Unwritten(frames[p].call, frames[p].snap),
           Store(frames[p].call, Written(frames[p].snap, frames[p].ev)),
           NEW fx, fx = Transition(frames[p].snap, frames[p].ev).fx,
           NEW d \in Calls, NEW u \in Users
    PROVE  In(d, u)' + (IF d = frames[p].call /\ u \in fx.attend THEN 1 ELSE 0) + joins[d][u]
              = In(d, u) + joins'[d][u]
  <1> DEFINE c == frames[p].call
             row == Written(frames[p].snap, frames[p].ev)
  <1>1. c \in Rows /\ c \in Calls
    BY WrittenRow DEF Known
  <1>2. u \in fx.attend <=> u \in Joined(calls[c]) /\ u \notin Joined(row)
    BY WrittenMoves DEF Known, Attends
  <1>3. /\ calls' = [calls EXCEPT ![c] = row]
        /\ joins' = [joins EXCEPT ![c] =
               [w \in Users |-> @[w] + IF w \in Joined(row) \ Joined(calls[c]) THEN 1 ELSE 0]]
    BY DEF Store
  <1> HIDE DEF c, row
  <1>4. Rows' = Rows /\ \A e \in Rows : calls'[e] = IF e = c THEN row ELSE calls[e]
    BY <1>3 DEF Rows, Known, IInv, TypeOK
  <1>5. joins'[d][u] = joins[d][u] + IF d = c /\ u \in Joined(row) \ Joined(calls[c]) THEN 1 ELSE 0
    BY <1>1, <1>3, Numbers DEF Known, IInv, TypeOK
  <1>6. joins[d][u] \in Nat
    BY Numbers
  <1>7. CASE d # c
    BY <1>4, <1>5, <1>6, <1>7 DEF In, c
  <1>8. CASE d = c
    BY <1>1, <1>2, <1>4, <1>5, <1>6, <1>8 DEF In, c
  <1> QED BY <1>7, <1>8

\* Writing keeps the account; an answer that was lost leaves it short.
LEMMA WriteBalances == ASSUME Known, NEW p \in Processes, Write(p) \/ AnswerLost(p) PROVE AInv'
  <1> DEFINE f == frames[p]
             row == Written(f.snap, f.ev)
             fx == Transition(f.snap, f.ev).fx
             g == [pc |-> "sync", call |-> f.call, row |-> row, rest |-> f.rest, fx |-> fx]
             again == [pc |-> "load", call |-> f.call, ev |-> f.ev, tries |-> f.tries + 1, rest |-> f.rest]
  <1>1. f.pc = "write" /\ f.pc \notin Owing /\ intervals' = intervals
    BY DEF Write, AnswerLost, Owing
  <1>2. \A c, u : Owed(f, c, u) = 0 /\ Owed(Idle, c, u) = 0
    BY <1>1, LoadPlain DEF Owed, Owes
  <1>3. CASE Write(p) /\ ~Unwritten(f.call, f.snap)
    <2>1. Settled /\ Faultless /\ (Becomes(p, Idle) \/ Becomes(p, again))
      BY <1>1, <1>3 DEF Write, Settled, Faultless, Quiet, budget
    <2>2. again.pc \notin EffectPcs
      BY DEF EffectPcs
    <2> HIDE DEF again
    <2> QED BY <1>1, <2>1, <2>2, LoadPlain, PlainStep
  <1>4. CASE Write(p) /\ Unwritten(f.call, f.snap)
    <2>1. Store(f.call, row) /\ Becomes(p, g) /\ faults' = faults
      BY <1>4 DEF Write, Quiet, budget
    <2>2. fx.others # {} => fx.attend = {}
      BY <1>1, <1>4, WrittenMoves DEF Known, Attends
    <2>3. \A c \in Calls, u \in Users :
            In(c, u)' + (IF c = f.call /\ u \in fx.attend THEN 1 ELSE 0) + joins[c][u]
                = In(c, u) + joins'[c][u]
      BY <1>1, <1>4, <2>1, StoreMoves
    <2> HIDE DEF row, fx
    <2>4. Single(g) /\ \A c, u : Owed(g, c, u) = IF c = f.call /\ u \in fx.attend THEN 1 ELSE 0
      BY <2>2 DEF Single, Owed, Owes, Owing
    <2> HIDE DEF g
    <2>5. ASSUME NEW c \in Calls, NEW u \in Users PROVE Balances(f, g, c, u)
      <3>1. /\ In(c, u)' + Owed(g, c, u) + joins[c][u] = In(c, u) + joins'[c][u]
            /\ Owed(f, c, u) = 0 /\ intervals'[c][u] = intervals[c][u] /\ faults' = faults
        BY <1>1, <1>2, <2>1, <2>3, <2>4
      <3>2. /\ intervals[c][u] \in Nat /\ joins[c][u] \in Nat /\ joins'[c][u] \in Nat
            /\ In(c, u) \in 0..1 /\ In(c, u)' \in 0..1 /\ Owed(g, c, u) \in 0..1
        BY Numbers
      <3> QED BY <3>1, <3>2 DEF Balances
    <2> QED BY <2>1, <2>4, <2>5, BalancedStep
  <1>5. CASE AnswerLost(p)
    <2>1. Store(f.call, row) /\ Becomes(p, Idle) /\ faults' = faults + 1 /\ Unwritten(f.call, f.snap)
      BY <1>5 DEF AnswerLost, Fault
    <2>2. \A c \in Calls, u \in Users :
            In(c, u)' + (IF c = f.call /\ u \in fx.attend THEN 1 ELSE 0) + joins[c][u]
                = In(c, u) + joins'[c][u]
      BY <1>1, <2>1, StoreMoves
    <2>3. ASSUME NEW c \in Calls, NEW u \in Users PROVE Balances(f, Idle, c, u)
      <3> DEFINE out == IF c = f.call /\ u \in fx.attend THEN 1 ELSE 0
      <3>1. /\ In(c, u)' + out + joins[c][u] = In(c, u) + joins'[c][u]
            /\ Owed(f, c, u) = 0 /\ Owed(Idle, c, u) = 0 /\ intervals'[c][u] = intervals[c][u]
            /\ faults' = faults + 1 /\ out \in 0..1
        BY <1>1, <1>2, <2>1, <2>2
      <3>2. /\ intervals[c][u] \in Nat /\ joins[c][u] \in Nat /\ joins'[c][u] \in Nat
            /\ In(c, u) \in 0..1 /\ In(c, u)' \in 0..1 /\ faults \in Nat
        BY Numbers
      <3> HIDE DEF out
      <3> QED BY <3>1, <3>2 DEF Balances
    <2>4. Single(Idle)
      BY LoadPlain DEF Single
    <2> QED BY <2>1, <2>3, <2>4, BalancedStep
  <1> QED BY <1>3, <1>4, <1>5

\* An interval saved is owed no longer; whatever a failure does not save is lost.
LEMMA SaveBalances ==
    ASSUME Known, NEW p \in Processes, frames[p].pc = "attend", Continue(p),
           calls' = calls, joins' = joins,
           NEW S \in SUBSET frames[p].fx.attend, intervals' = Saved(frames[p].call, S),
           (Faultless /\ S = frames[p].fx.attend) \/ Faulty
    PROVE  AInv'
  <1> DEFINE f == frames[p]
  <1>1. PICK g : Becomes(p, g) /\ Single(g) /\ \A c, u : Owed(g, c, u) = 0
    BY AttendEnds
  <1>2. f.call \in Calls
    BY EffectFrameOf DEF Known, EffectPcs
  <1>3. \A c \in Calls, u \in Users :
          intervals'[c][u] = intervals[c][u] + (IF c = f.call /\ u \in S THEN 1 ELSE 0)
    <2> SUFFICES ASSUME NEW c \in Calls, NEW u \in Users
                 PROVE  intervals'[c][u] = intervals[c][u] + (IF c = f.call /\ u \in S THEN 1 ELSE 0)
      OBVIOUS
    <2>1. intervals[c][u] \in Nat
      BY Numbers
    <2> QED BY <1>2, <2>1 DEF Saved, Known, IInv, TypeOK
  <1>4. \A c, u : Owed(f, c, u) = IF c = f.call /\ u \in f.fx.attend THEN 1 ELSE 0
    BY DEF Owed, Owes, Owing
  <1>5. ASSUME NEW c \in Calls, NEW u \in Users PROVE Balances(f, g, c, u)
    <2> DEFINE one == IF c = f.call /\ u \in S THEN 1 ELSE 0
    <2>1. /\ In(c, u)' = In(c, u) /\ joins'[c][u] = joins[c][u] /\ Owed(g, c, u) = 0
          /\ intervals'[c][u] = intervals[c][u] + one /\ one \in 0..1 /\ one <= Owed(f, c, u)
          /\ S = f.fx.attend => one = Owed(f, c, u)
      BY <1>1, <1>3, <1>4 DEF In, Rows
    <2>2. /\ intervals[c][u] \in Nat /\ joins[c][u] \in Nat /\ In(c, u) \in 0..1
          /\ Owed(f, c, u) \in 0..1 /\ faults \in Nat
      BY Numbers
    <2> HIDE DEF one
    <2>3. CASE Faultless /\ S = f.fx.attend
      BY <2>1, <2>2, <2>3 DEF Balances, Faultless
    <2>4. CASE Faulty
      BY <2>1, <2>2, <2>4 DEF Balances, Faulty
    <2> QED BY <2>3, <2>4
  <1> QED BY <1>1, <1>5, BalancedStep

\* The effects, one after the other, keep the account.
LEMMA EffectBalances ==
    ASSUME Known, NEW p \in Processes,
           SyncRoom(p) \/ SetActiveCall(p) \/ SetTimers(p) \/ PostMessage(p) \/ SaveAttendance(p)
    PROVE  AInv'
  <1>1. CASE SyncRoom(p) \/ SetActiveCall(p) \/ SetTimers(p) \/ PostMessage(p)
    <2>1. Settled /\ Faultless /\ frames[p].pc \in Owing \ {"attend"} /\ Continue(p)
      BY <1>1 DEF SyncRoom, SetActiveCall, SetTimers, PostMessage, Settled, Faultless, tables, budget,
                  Quiet, Owing
    <2> QED BY <2>1, ContinueOwes, SettledStep
  <1>2. CASE SaveAttendance(p)
    <2>1. /\ frames[p].pc = "attend" /\ Continue(p) /\ calls' = calls /\ joins' = joins
          /\ intervals' = Saved(frames[p].call, frames[p].fx.attend) /\ Faultless
      BY <1>2 DEF SaveAttendance, Faultless, Quiet, budget
    <2> QED BY <2>1, SaveBalances
  <1> QED BY <1>1, <1>2

\* A failed effect is skipped: what it owed stays owed, or is lost.
LEMMA FailureBalances == ASSUME Known, NEW p \in Processes, EffectFails(p) PROVE AInv'
  <1> DEFINE f == frames[p]
  <1>1. Faulty /\ calls' = calls /\ joins' = joins
    BY DEF EffectFails, Fault, Faulty
  <1>2. CASE f.pc \in {"sync", "active"}
    <2> DEFINE g == [f EXCEPT !.pc = "timers"]
    <2>1. Settled /\ Becomes(p, g)
      BY <1>1, <1>2 DEF EffectFails, Settled
    <2>2. f \in EffectFrame /\ Single(f)
      BY <1>2, EffectFrameOf DEF Known, AInv, EffectPcs
    <2>3. g.pc = "timers" /\ g.call = f.call /\ g.fx = f.fx
      BY <2>2 DEF EffectFrame
    <2>4. Single(g) /\ \A c, u : Owed(g, c, u) = Owed(f, c, u)
      BY <1>2, <2>2, <2>3 DEF Single, Owed, Owes, Owing, EffectPcs
    <2> QED BY <1>1, <2>1, <2>4, SettledStep
  <1>3. CASE f.pc = "others"
    <2>1. Settled /\ Becomes(p, Idle)
      BY <1>1, <1>3 DEF EffectFails, Settled
    <2> QED BY <1>1, <1>3, <2>1, LoadPlain, PlainStep DEF Owing
  <1>4. CASE f.pc = "message"
    <2>1. Settled /\ Continue(p)
      BY <1>1, <1>4 DEF EffectFails, Settled
    <2>2. f.pc \in Owing \ {"attend"}
      BY <1>4 DEF Owing
    <2> QED BY <1>1, <2>1, <2>2, ContinueOwes, SettledStep
  <1>5. CASE f.pc = "attend"
    <2>1. Continue(p) /\ \E S \in SUBSET f.fx.attend : intervals' = Saved(f.call, S)
      BY <1>5 DEF EffectFails
    <2> QED BY <1>1, <1>5, <2>1, SaveBalances
  <1> QED BY <1>2, <1>3, <1>4, <1>5 DEF EffectFails

\* A restart forgets what was owed.
LEMMA RestartBalances == ASSUME Known, Restart PROVE AInv'
  <1>1. Settled /\ Faulty /\ frames' = [p \in Processes |-> Idle]
    BY DEF Restart, Settled, Faulty, Fault, tables, Processes
  <1>2. \A p \in Processes : Single(frames'[p])
    BY <1>1, LoadPlain DEF Single
  <1>3. ASSUME NEW c \in Calls, NEW u \in Users PROVE BalanceOf(c, u)'
    <2>1. Pending(c, u)' = {}
      BY <1>1 DEF Pending, Processes, Idle
    <2>2. In(c, u)' = In(c, u) /\ joins'[c][u] = joins[c][u] /\ intervals'[c][u] = intervals[c][u]
      BY <1>1, SettledIn
    <2>3. /\ intervals[c][u] \in Nat /\ joins[c][u] \in Nat /\ In(c, u) \in 0..1
          /\ faults \in Nat /\ faults' = faults + 1 /\ Cardinality(Pending(c, u)) \in Nat
      BY <1>1, Numbers DEF Faulty
    <2>4. Counted(c, u) <= joins[c][u]
      BY DEF Known, AInv, BalanceOf
    <2>5. IsFiniteSet(Pending(c, u)') /\ Cardinality(Pending(c, u)') = 0
      BY <2>1, FS_EmptySet
    <2> QED BY <2>2, <2>3, <2>4, <2>5 DEF BalanceOf, Counted
  <1> QED BY <1>2, <1>3 DEF AInv

\* Nobody has entered anything at the start.
LEMMA InitAInv == ASSUME Init PROVE AInv
  <1>1. \A p \in Processes : frames[p] = Idle
    BY DEF Init, Processes
  <1>2. ASSUME NEW c \in Calls, NEW u \in Users PROVE BalanceOf(c, u)
    <2>1. Pending(c, u) = {}
      BY <1>1 DEF Pending, Processes, Idle
    <2>2. In(c, u) = 0 /\ intervals[c][u] = 0 /\ joins[c][u] = 0
      BY DEF Init, In, Rows
    <2> QED BY <2>1, <2>2, FS_EmptySet DEF BalanceOf, Counted
  <1> QED BY <1>1, <1>2, LoadPlain DEF AInv, Single

\* Every step keeps the account.
LEMMA NextAInv == ASSUME IInv, LInv, AInv, [Next]_vars PROVE AInv'
  <1>1. Known
    BY NextIInv DEF Known
  <1>2. ASSUME Settled, Faultless \/ Faulty, Plainly PROVE AInv'
    BY <1>1, <1>2, PlainStep DEF Plainly
  <1>3. CASE Request
    BY <1>2, <1>3, RequestPlain
  <1>4. ASSUME NEW p \in Processes, Step(p) PROVE AInv'
    <2>1. CASE CheckCall(p) \/ Load(p) \/ LeaveOtherCalls(p)
      BY <1>2, <2>1, DecidePlain
    <2>2. CASE InsertCall(p) \/ Write(p)
      BY <1>1, <2>2, InsertBalances, WriteBalances
    <2>3. CASE SyncRoom(p) \/ SetActiveCall(p) \/ SetTimers(p) \/ PostMessage(p) \/ SaveAttendance(p)
      BY <1>1, <2>3, EffectBalances
    <2> QED BY <1>4, <2>1, <2>2, <2>3 DEF Step
  <1>5. ASSUME NEW p \in Processes, StatementFails(p) \/ AnswerLost(p) \/ EffectFails(p) PROVE AInv'
    <2>1. CASE StatementFails(p)
      <3>1. Settled /\ Faulty /\ frames[p].pc \notin Owing /\ Becomes(p, Idle)
        BY <2>1 DEF StatementFails, Settled, Faulty, Fault, tables, Owing
      <3> QED BY <1>1, <3>1, LoadPlain, PlainStep
    <2> QED BY <1>1, <1>5, <2>1, WriteBalances, FailureBalances
  <1>6. CASE \/ \E c \in Calls : RingWindowPasses(c) \/ SweepCall(c)
             \/ \E c \in Calls, p \in Procs : RingTimerFires(p, c) \/ \E u \in Users : GraceTimerFires(p, c, u)
             \/ \E c \in Calls, u \in Users : GracePasses(c, u)
             \/ SweepBegins \/ SweepEnds \/ UNCHANGED vars
    BY <1>1, <1>2, <1>6, TimersPlain, StillStep
  <1>7. CASE Restart
    BY <1>1, <1>7, RestartBalances
  <1> QED BY <1>3, <1>4, <1>5, <1>6, <1>7 DEF Next, FlowStep, Processes

\* Each time a person enters a call one interval of attendance is saved, is owed by
\* one frame, or is still to come because the person is in the call; a fault may
\* lose it and nothing saves it twice.
THEOREM AttendanceAddsUp == Spec => []AttendanceExact
  <1>1. Init => AInv
    BY InitAInv
  <1>2. IInv /\ LInv /\ AInv /\ [Next]_vars => AInv'
    BY NextAInv
  <1>3. AInv => AttendanceExact
    <2> SUFFICES ASSUME AInv, NEW c \in Calls, NEW u \in Users
                 PROVE  LET counted == intervals[c][u] + Cardinality(Pending(c, u)) + In(c, u) IN
                        IF faults = 0 THEN counted = joins[c][u] ELSE counted <= joins[c][u]
      BY DEF AttendanceExact
    <2> QED BY DEF AInv, BalanceOf, Counted
  <1> QED BY <1>1, <1>2, <1>3, Invariance, LogInvariance, PTL DEF Spec

-----------------------------------------------------------------------------
(* The sockets over the flow *)

\* What a socket does is seen in the rooms, the presence and the grace timers.
SocketStep == UNCHANGED <<tables, due, frames, ringTimers, pass, budget, joins>>

\* Whoever is in a room, or past the check of an attach, has entered the call.
EnteredRoom == \A c \in Calls : \A m \in room[c] : joins[c][m[1]] > 0
EnteredAttach == \A a \in attaching : joins[a[1]][a[2]] > 0
SInv == PresenceTypeOK /\ EnteredRoom /\ EnteredAttach

\* Everything kept of a call with its sockets.
Kept == IInv /\ LInv /\ AInv /\ SInv

\* Whoever is in a call has entered it.
LEMMA JoinedEntered ==
    ASSUME Kept, NEW c \in Calls, NEW u \in Users, NEW t, JoinedFrom(c, u, t)
    PROVE  joins[c][u] > 0
  <1>1. In(c, u) = 1
    BY DEF JoinedFrom, In
  <1>2. /\ IsFiniteSet(Pending(c, u)) /\ Counted(c, u) <= joins[c][u]
    BY DEF Kept, AInv, BalanceOf
  <1>3. Cardinality(Pending(c, u)) \in Nat /\ intervals[c][u] \in Nat /\ joins[c][u] \in Nat
    BY <1>2, FS_CardinalityType DEF Kept, IInv, TypeOK
  <1> QED BY <1>1, <1>2, <1>3 DEF Counted

\* Whoever has entered a call names a row.
LEMMA EnteredRow ==
    ASSUME Kept, NEW c \in Calls, NEW u \in Users, joins[c][u] > 0
    PROVE  c \in Rows
  BY DEF Kept, LInv, EntrancesOK

\* Socket steps keep the flow as it is but for the rooms, presence and timers.
LEMMA SocketKeepsFlow ==
    ASSUME Kept, SocketStep,
           room' \in [Calls -> SUBSET (Users \X Tabs)],
           presence' \in [Calls -> [Users -> Seen]],
           graceTimers' \in [Calls -> [Users -> Tabs \cup {NoTab}]],
           \A c \in Calls, u \in Users : graceTimers'[c][u] # NoTab => c \in Rows
    PROVE  IInv' /\ LInv' /\ AInv'
  <1>1. calls' = calls /\ frames' = frames /\ joins' = joins
    BY DEF SocketStep, tables
  <1>2. FramesOK'
    BY <1>1 DEF Kept, IInv, FramesOK
  <1>3. CallsOK' /\ OneLiveCall'
    BY <1>1, CalmRows DEF Kept, IInv
  <1>4. TypeOK'
    BY <1>1, <1>3, CalmRows DEF Kept, SocketStep, IInv, TypeOK, Rows, tables, budget
  <1>5. TimersOK'
    BY <1>1 DEF Kept, SocketStep, IInv, TimersOK, Rows
  <1>6. FramesTrue'
    BY <1>1 DEF Kept, LInv, FramesTrue
  <1>7. LInv'
    BY <1>1, <1>6, CalmLog DEF Kept, SocketStep, tables
  <1>8. \A p \in Processes : Single(frames'[p])
    BY <1>1 DEF Kept, AInv
  <1>9. ASSUME NEW c \in Calls, NEW u \in Users PROVE BalanceOf(c, u)'
    <2>1. Pending(c, u)' = Pending(c, u) /\ In(c, u)' = In(c, u)
      BY <1>1 DEF Pending, In, Rows
    <2> QED BY <1>1, <2>1 DEF Kept, AInv, BalanceOf, Counted, SocketStep, tables, budget
  <1> QED BY <1>2, <1>3, <1>4, <1>5, <1>7, <1>8, <1>9 DEF IInv, AInv

\* A socket opens.
LEMMA OpenKeeps ==
    ASSUME Kept, NEW u \in Users, NEW t \in Tabs, SocketOpens(u, t)
    PROVE  Kept' /\ SocketStep
  <1>1. vars' = vars /\ SocketStep
    BY DEF SocketOpens, vars, memory, SocketStep
  <1>2. IInv' /\ LInv' /\ AInv'
    BY <1>1, SocketKeepsFlow DEF Kept, IInv, TypeOK, TimersOK, vars, memory
  <1>3. joins' = joins /\ room' = room /\ Rows' = Rows
    BY <1>1 DEF vars, memory, tables, Rows
  <1>4. PresenceTypeOK'
    BY <1>3, SocketAssumption DEF Kept, SInv, SocketOpens, PresenceTypeOK, Tab
  <1> QED BY <1>1, <1>2, <1>3, <1>4 DEF Kept, SInv, SocketOpens, EnteredRoom, EnteredAttach

\* An attach passes its check: the person is in the call.
LEMMA ReadKeeps ==
    ASSUME Kept, NEW c \in Calls, NEW u \in Users, NEW t \in Tabs, AttachReads(c, u, t)
    PROVE  Kept' /\ SocketStep
  <1>1. vars' = vars /\ SocketStep
    BY DEF AttachReads, vars, memory, SocketStep
  <1>2. IInv' /\ LInv' /\ AInv'
    BY <1>1, SocketKeepsFlow DEF Kept, IInv, TypeOK, TimersOK, vars, memory
  <1>3. joins' = joins /\ room' = room /\ Rows' = Rows
    BY <1>1 DEF vars, memory, tables, Rows
  <1>4. joins[c][u] > 0 /\ c \in Rows
    <2>1. JoinedFrom(c, u, t)
      BY DEF AttachReads
    <2>2. c \in Rows
      BY <2>1 DEF JoinedFrom
    <2> QED BY <2>1, <2>2, JoinedEntered
  <1> DEFINE yes == TRUE
             a == <<c, u, t, yes>>
  <1>5. yes \in BOOLEAN /\ attaching' = attaching \cup {a}
    BY DEF AttachReads
  <1> HIDE DEF yes
  <1>6. a \in Rows \X Users \X Tabs \X BOOLEAN /\ a[1] = c /\ a[2] = u
    BY <1>4, <1>5
  <1> HIDE DEF a
  <1>7. UNCHANGED <<online, ghosts, losing, opened>>
    BY DEF AttachReads
  <1>8. PresenceTypeOK'
    BY <1>3, <1>5, <1>6, <1>7 DEF Kept, SInv, PresenceTypeOK, Tab
  <1>9. EnteredAttach'
    BY <1>3, <1>4, <1>5, <1>6 DEF Kept, SInv, EnteredAttach
  <1> QED BY <1>1, <1>2, <1>3, <1>8, <1>9 DEF Kept, SInv, EnteredRoom

\* Whoever passed the check enters the room, however late.
LEMMA AttachKeeps ==
    ASSUME Kept, NEW c \in Calls, NEW u \in Users, NEW t \in Tabs, NEW alive \in BOOLEAN,
           AttachEnds(c, u, t, alive)
    PROVE  Kept' /\ SocketStep
  <1>1. SocketStep /\ joins' = joins /\ Rows' = Rows
    BY DEF AttachEnds, SocketStep, tables, Rows
  <1>2. joins[c][u] > 0 /\ c \in Rows
    BY EnteredRow DEF AttachEnds, Kept, SInv, EnteredAttach
  <1>3. /\ room' \in [Calls -> SUBSET (Users \X Tabs)]
        /\ \A d \in Calls : room'[d] \subseteq room[d] \cup (IF d = c THEN {<<u, t>>} ELSE {})
    BY DEF AttachEnds, Kept, IInv, TypeOK
  <1>4. /\ graceTimers' \in [Calls -> [Users -> Tabs \cup {NoTab}]]
        /\ \A d \in Calls, v \in Users : graceTimers'[d][v] # NoTab => d \in Rows
    BY DEF AttachEnds, Kept, IInv, TypeOK, TimersOK
  <1>5. presence' \in [Calls -> [Users -> Seen]]
    BY DEF AttachEnds, Kept, IInv, TypeOK, Seen
  <1>6. IInv' /\ LInv' /\ AInv'
    BY <1>1, <1>3, <1>4, <1>5, SocketKeepsFlow
  <1>7. PresenceTypeOK'
    BY <1>1, <1>2 DEF AttachEnds, Kept, SInv, PresenceTypeOK
  <1>8. EnteredRoom'
    BY <1>1, <1>2, <1>3 DEF Kept, SInv, EnteredRoom
  <1>9. EnteredAttach'
    BY <1>1 DEF AttachEnds, Kept, SInv, EnteredAttach
  <1> QED BY <1>1, <1>6, <1>7, <1>8, <1>9 DEF Kept, SInv

\* A socket that drops takes its legs out of the rooms they were in.
LEMMA CloseKeeps ==
    ASSUME Kept, NEW u \in Users, NEW t \in Tabs, SocketCloses(u, t)
    PROVE  Kept' /\ SocketStep
  <1> DEFINE left == {c \in Calls : <<u, t>> \in room[c] /\ <<c, u, t>> \notin ghosts}
  <1>1. SocketStep /\ joins' = joins /\ Rows' = Rows /\ graceTimers' = graceTimers
    BY DEF SocketCloses, SocketStep, tables, Rows
  <1>2. /\ room' \in [Calls -> SUBSET (Users \X Tabs)]
        /\ \A d \in Calls : room'[d] \subseteq room[d]
    <2>1. room' = [c \in Calls |-> IF c \in left THEN room[c] \ {<<u, t>>} ELSE room[c]]
      BY DEF SocketCloses
    <2> HIDE DEF left
    <2> QED BY <2>1 DEF Kept, IInv, TypeOK
  <1>3. presence' \in [Calls -> [Users -> Seen]]
    <2>1. presence' = [c \in Calls |-> IF c \in left /\ presence[c][u].tab = t
            THEN [presence[c] EXCEPT ![u] = [Unseen EXCEPT !.tab = t]] ELSE presence[c]]
      BY DEF SocketCloses
    <2>2. [Unseen EXCEPT !.tab = t] \in Seen
      BY DEF Unseen, Seen
    <2> HIDE DEF left
    <2> QED BY <2>1, <2>2 DEF Kept, IInv, TypeOK
  <1>4. IInv' /\ LInv' /\ AInv'
    BY <1>1, <1>2, <1>3, SocketKeepsFlow DEF Kept, IInv, TypeOK, TimersOK
  <1>5. left \subseteq Rows
    <2> SUFFICES ASSUME NEW c \in left PROVE c \in Rows
      OBVIOUS
    <2>1. joins[c][u] > 0
      BY DEF Kept, SInv, EnteredRoom
    <2> QED BY <2>1, EnteredRow
  <1>6. /\ attaching' \subseteq Rows \X Users \X Tabs \X BOOLEAN
        /\ \A a \in attaching' : \E b \in attaching : a[1] = b[1] /\ a[2] = b[2]
    <2>1. attaching' = {<<a[1], a[2], a[3], a[4] /\ <<a[2], a[3]>> # <<u, t>> >> : a \in attaching}
      BY DEF SocketCloses
    <2>2. \A a \in attaching : a[1] \in Rows /\ a[2] \in Users /\ a[3] \in Tabs
      BY DEF Kept, SInv, PresenceTypeOK
    <2>3. ASSUME NEW a \in attaching'
          PROVE  /\ a \in Rows \X Users \X Tabs \X BOOLEAN
                 /\ \E b \in attaching : a[1] = b[1] /\ a[2] = b[2]
      <3>1. PICK b \in attaching : a = <<b[1], b[2], b[3], b[4] /\ <<b[2], b[3]>> # <<u, t>> >>
        BY <2>1
      <3> DEFINE alive == b[4] /\ <<b[2], b[3]>> # <<u, t>>
      <3>2. a = <<b[1], b[2], b[3], alive>> /\ alive \in BOOLEAN
        BY <3>1
      <3> HIDE DEF alive
      <3> QED BY <2>2, <3>2
    <2> QED BY <2>3
  <1>7. PresenceTypeOK'
    <2>1. losing' = losing \cup (left \X {u} \X {t})
      BY DEF SocketCloses
    <2>2. losing' \subseteq Rows \X Users \X Tabs
      BY <1>5, <2>1 DEF Kept, SInv, PresenceTypeOK
    <2> QED BY <1>1, <1>6, <2>2 DEF SocketCloses, Kept, SInv, PresenceTypeOK
  <1>8. EnteredRoom'
    BY <1>1, <1>2 DEF Kept, SInv, EnteredRoom
  <1>9. EnteredAttach'
    BY <1>1, <1>6 DEF Kept, SInv, EnteredAttach
  <1> QED BY <1>1, <1>4, <1>7, <1>8, <1>9 DEF Kept, SInv

\* A loss arms the timer of a leg that is in the call.
LEMMA LossKeeps ==
    ASSUME Kept, NEW c \in Calls, NEW u \in Users, NEW t \in Tabs, LossNoted(c, u, t)
    PROVE  Kept' /\ SocketStep
  <1>1. SocketStep /\ joins' = joins /\ Rows' = Rows /\ room' = room /\ presence' = presence
    BY DEF LossNoted, SocketStep, tables, Rows
  <1>2. /\ graceTimers' \in [Calls -> [Users -> Tabs \cup {NoTab}]]
        /\ \A d \in Calls, v \in Users : graceTimers'[d][v] # NoTab => d \in Rows
    <2>1. CASE JoinedFrom(c, u, t)
      <3>1. c \in Rows
        BY <2>1 DEF JoinedFrom
      <3>2. graceTimers' = [graceTimers EXCEPT ![c][u] = t]
        BY <2>1 DEF LossNoted
      <3> QED BY <3>1, <3>2 DEF Kept, IInv, TypeOK, TimersOK
    <2>2. CASE ~JoinedFrom(c, u, t)
      BY <2>2 DEF LossNoted, Kept, IInv, TypeOK, TimersOK
    <2> QED BY <2>1, <2>2
  <1>3. IInv' /\ LInv' /\ AInv'
    BY <1>1, <1>2, SocketKeepsFlow DEF Kept, IInv, TypeOK
  <1>4. SInv'
    BY <1>1 DEF LossNoted, Kept, SInv, PresenceTypeOK, EnteredRoom, EnteredAttach
  <1> QED BY <1>1, <1>3, <1>4 DEF Kept

\* Rows and entrances only grow, and the flow puts nobody in a room.
Advances ==
    /\ Rows \subseteq Rows'
    /\ \A c \in Calls, u \in Users : joins'[c][u] >= joins[c][u]
    /\ \A c \in Calls : room'[c] \subseteq room[c]

LEMMA FlowAdvances == ASSUME IInv, LInv, FlowStep \/ Restart PROVE Advances
  <1>0. \A c \in Calls, u \in Users : joins[c][u] \in Nat
    BY DEF IInv, TypeOK
  <1>1. ASSUME calls' = calls, joins' = joins, room' = room PROVE Advances
    BY <1>0, <1>1 DEF Advances, Rows
  <1>2. ASSUME NEW p \in Processes, InsertCall(p) PROVE Advances
    <2> DEFINE row == frames[p].row
    <2>1. room' = room
      BY <1>2 DEF InsertCall, memory
    <2>2. CASE calls' = calls /\ joins' = joins
      BY <1>1, <2>1, <2>2
    <2>3. CASE \E c \in Calls \ Rows :
                 /\ calls' = [d \in Rows \cup {c} |-> IF d = c THEN row ELSE calls[d]]
                 /\ joins' = [joins EXCEPT ![c][row.initiator] = @ + 1]
      <3>1. PICK c \in Calls \ Rows :
                 /\ calls' = [d \in Rows \cup {c} |-> IF d = c THEN row ELSE calls[d]]
                 /\ joins' = [joins EXCEPT ![c][row.initiator] = @ + 1]
        BY <2>3
      <3>2. Rows \subseteq Rows'
        BY <3>1 DEF Rows
      <3>3. \A d \in Calls, u \in Users : joins'[d][u] = joins[d][u] \/ joins'[d][u] = joins[d][u] + 1
        BY <3>1 DEF IInv, TypeOK
      <3> QED BY <1>0, <2>1, <3>2, <3>3 DEF Advances
    <2> QED BY <1>2, <2>2, <2>3 DEF InsertCall
  <1>3. ASSUME NEW p \in Processes, frames[p].pc = "write",
               Store(frames[p].call, Written(frames[p].snap, frames[p].ev)), room' = room
        PROVE  Advances
    <2> DEFINE c == frames[p].call
               new(u) == IF u \in Joined(Written(frames[p].snap, frames[p].ev)) \ Joined(calls[c])
                         THEN 1 ELSE 0
    <2>1. calls' = [calls EXCEPT ![c] = Written(frames[p].snap, frames[p].ev)]
      BY <1>3 DEF Store
    <2>2. joins' = [joins EXCEPT ![c] = [u \in Users |-> joins[c][u] + new(u)]]
      BY <1>3 DEF Store
    <2>3. \A u : new(u) \in 0..1
      OBVIOUS
    <2> HIDE DEF new, c
    <2>4. \A d \in Calls, u \in Users : joins'[d][u] = joins[d][u] \/ joins'[d][u] = joins[d][u] + new(u)
      BY <2>2 DEF IInv, TypeOK
    <2> QED BY <1>0, <1>3, <2>1, <2>3, <2>4 DEF Advances, Rows
  <1>4. CASE Request
    <2> DEFINE Still == calls' = calls /\ joins' = joins /\ room' = room
    <2>1. \A p, c, ev : AskFor(p, c, ev) => Still
      BY DEF AskFor, tables, memory
    <2>2. \A p, k, u, t : StartCall(p, k, u, t) => Still
      BY DEF StartCall, tables, memory
    <2> HIDE DEF Still
    <2>3. Still
      BY <1>4, <2>1, <2>2, Zenon
         DEF Request, AcceptCall, JoinCall, DeclineCall, LeaveCall, CancelCall, EndCall
    <2> QED BY <1>1, <2>3 DEF Still
  <1>5. ASSUME NEW p \in Processes, Step(p) PROVE Advances
    <2>1. CASE InsertCall(p)
      BY <1>2, <2>1
    <2>2. CASE Write(p)
      BY <1>1, <1>3, <2>2 DEF Write, memory
    <2>3. CASE SyncRoom(p)
      <3>1. calls' = calls /\ joins' = joins
        BY <2>3 DEF SyncRoom, tables
      <3>2. \A c \in Calls : room'[c] \subseteq room[c]
        BY <2>3 DEF SyncRoom, IInv, TypeOK
      <3> QED BY <1>0, <3>1, <3>2 DEF Advances, Rows
    <2>4. CASE ~InsertCall(p) /\ ~Write(p) /\ ~SyncRoom(p)
      <3>1. calls' = calls /\ joins' = joins /\ room' = room
        BY <1>5, <2>4 DEF Step, CheckCall, Load, SetActiveCall, SetTimers, LeaveOtherCalls,
                          PostMessage, SaveAttendance, tables, memory
      <3> QED BY <1>1, <3>1
    <2> QED BY <2>1, <2>2, <2>3, <2>4
  <1>6. ASSUME NEW p \in Processes, StatementFails(p) \/ AnswerLost(p) \/ EffectFails(p) PROVE Advances
    <2>1. CASE AnswerLost(p)
      BY <2>1, <1>3 DEF AnswerLost, memory
    <2>2. CASE StatementFails(p) \/ EffectFails(p)
      BY <2>2, <1>1 DEF StatementFails, EffectFails, tables, memory
    <2> QED BY <1>6, <2>1, <2>2
  <1>7. CASE \/ \E d \in Calls : RingWindowPasses(d) \/ SweepCall(d)
             \/ \E d \in Calls, p \in Procs : RingTimerFires(p, d) \/ \E u \in Users : GraceTimerFires(p, d, u)
             \/ \E d \in Calls, u \in Users : GracePasses(d, u)
             \/ SweepBegins \/ SweepEnds
    BY <1>7, <1>1 DEF RingWindowPasses, SweepCall, RingTimerFires, GraceTimerFires, GracePasses,
                      SweepBegins, SweepEnds, tables, memory
  <1>8. CASE Restart
    BY <1>0, <1>8 DEF Restart, Advances, Rows, tables
  <1> QED BY <1>4, <1>5, <1>6, <1>7, <1>8 DEF FlowStep, Processes

\* A step of the flow leaves the sockets where they were, or closes them all.
LEMMA FlowKeepsSockets ==
    ASSUME Kept, FlowStep \/ Restart,
           attaching' \subseteq attaching, ghosts' \subseteq ghosts, losing' \subseteq losing,
           online' \subseteq online, opened' = opened
    PROVE  Kept'
  <1>1. IInv' /\ LInv' /\ AInv'
    BY NextIInv, NextLInv, NextAInv DEF Kept, Next
  <1>2. Advances
    BY FlowAdvances DEF Kept
  <1>3. PresenceTypeOK'
    <2>1. Rows \subseteq Rows'
      BY <1>2 DEF Advances
    <2> QED BY <2>1 DEF Kept, SInv, PresenceTypeOK, Tab
  <1>4. \A c \in Calls, u \in Users : joins[c][u] > 0 => joins'[c][u] > 0
    <2> SUFFICES ASSUME NEW c \in Calls, NEW u \in Users, joins[c][u] > 0 PROVE joins'[c][u] > 0
      OBVIOUS
    <2>1. joins[c][u] \in Nat /\ joins'[c][u] \in Nat /\ joins'[c][u] >= joins[c][u]
      BY <1>1, <1>2 DEF Advances, Kept, IInv, TypeOK
    <2> QED BY <2>1
  <1>5. EnteredRoom'
    <2> SUFFICES ASSUME NEW c \in Calls, NEW m \in room'[c] PROVE joins'[c][m[1]] > 0
      BY DEF EnteredRoom
    <2>1. m \in room[c] /\ m[1] \in Users
      BY <1>2 DEF Advances, Kept, IInv, TypeOK
    <2>2. joins[c][m[1]] > 0
      BY <2>1 DEF Kept, SInv, EnteredRoom
    <2> QED BY <1>4, <2>1, <2>2
  <1>6. EnteredAttach'
    <2> SUFFICES ASSUME NEW a \in attaching' PROVE joins'[a[1]][a[2]] > 0
      BY DEF EnteredAttach
    <2>1. a \in attaching /\ a[1] \in Calls /\ a[2] \in Users
      BY DEF Kept, SInv, PresenceTypeOK, IInv, TypeOK
    <2>2. joins[a[1]][a[2]] > 0
      BY <2>1 DEF Kept, SInv, EnteredAttach
    <2> QED BY <1>4, <2>1, <2>2
  <1> QED BY <1>1, <1>3, <1>5, <1>6 DEF Kept, SInv

\* A step with sockets is one of the flow or one that the flow only sees in the rooms.
LEMMA PresenceStep ==
    ASSUME Kept, [PresenceNext]_allvars
    PROVE  Kept' /\ ([Next]_vars \/ SocketStep)
  <1>1. CASE FlowStep /\ UNCHANGED sockets
    BY <1>1, FlowKeepsSockets DEF sockets, Next
  <1>2. CASE Restart /\ online' = {} /\ attaching' = {} /\ ghosts' = {} /\ losing' = {} /\ UNCHANGED opened
    BY <1>2, FlowKeepsSockets DEF Next
  <1>3. ASSUME NEW u \in Users, NEW t \in Tabs, SocketCloses(u, t) PROVE Kept' /\ SocketStep
    BY <1>3, CloseKeeps
  <1>4. ASSUME NEW u \in Users, NEW t \in Tabs, SocketOpens(u, t) PROVE Kept' /\ SocketStep
    BY <1>4, OpenKeeps
  <1>5. ASSUME NEW c \in Calls, NEW u \in Users, NEW t \in Tabs, AttachReads(c, u, t)
        PROVE  Kept' /\ SocketStep
    BY <1>5, ReadKeeps
  <1>6. CASE AttachOrLoss
    BY <1>6, AttachKeeps, LossKeeps DEF AttachOrLoss
  <1>7. CASE UNCHANGED allvars
    <2>1. vars' = vars /\ SocketStep
      BY <1>7 DEF allvars, vars, memory, SocketStep
    <2>2. IInv' /\ LInv' /\ AInv'
      BY <2>1, SocketKeepsFlow DEF Kept, IInv, TypeOK, TimersOK, vars, memory
    <2>3. SInv'
      BY <1>7 DEF allvars, vars, memory, tables, sockets, Kept, SInv, PresenceTypeOK, Rows,
                  EnteredRoom, EnteredAttach
    <2> QED BY <2>1, <2>2, <2>3 DEF Kept
  <1> QED BY <1>1, <1>2, <1>3, <1>4, <1>5, <1>6, <1>7 DEF PresenceNext

\* No socket is open at the start.
LEMMA InitKept == ASSUME PresenceInit PROVE Kept
  <1>1. IInv /\ LInv /\ AInv
    BY InitIInv, InitLInv, InitAInv DEF PresenceInit
  <1>2. SInv
    BY SocketAssumption DEF PresenceInit, Init, SInv, PresenceTypeOK, EnteredRoom, EnteredAttach
  <1> QED BY <1>1, <1>2 DEF Kept

\* With its sockets a call keeps everything the flow keeps, and whoever is in a
\* room, or about to be, has entered the call.
THEOREM PresenceInvariance == PresenceSpec => []Kept
  <1>1. PresenceInit => Kept
    BY InitKept
  <1>2. Kept /\ [PresenceNext]_allvars => Kept'
    BY PresenceStep
  <1> QED BY <1>1, <1>2, PTL DEF PresenceSpec

\* The types of the sockets hold with any number of them.
THEOREM PresenceTypes == PresenceSpec => []PresenceTypeOK
  <1>1. Kept => PresenceTypeOK
    BY DEF Kept, SInv
  <1> QED BY <1>1, PresenceInvariance, PTL

\* Nobody is in the room of a call they never entered, however late the attach that
\* put them there ends.
THEOREM OnlyWhoEntered == PresenceSpec => []RoomEntered
  <1>1. Kept => RoomEntered
    BY DEF Kept, SInv, EnteredRoom, RoomEntered
  <1> QED BY <1>1, PresenceInvariance, PTL

\* The sockets take nothing from the flow: calls with their sockets implement the
\* life of a call too.
THEOREM PresenceImplements == PresenceSpec => Refinement
  <1>1. PresenceInit => Lifecycle!Init
    BY DEF PresenceInit, Init, Lifecycle!Init, PhaseOf, Rows
  <1>2. IInv /\ LInv /\ [Next]_vars => [Lifecycle!Next]_Lifecycle!vars
    BY StepKind, CalmMaps, InsertMaps, StoreMaps, SaysMaps
  <1>3. SocketStep => UNCHANGED Lifecycle!vars
    BY CalmMaps DEF SocketStep, Calm, tables
  <1>4. Kept /\ [PresenceNext]_allvars => [Lifecycle!Next]_Lifecycle!vars
    BY <1>2, <1>3, PresenceStep DEF Kept
  <1> QED BY <1>1, <1>4, PresenceInvariance, PTL DEF PresenceSpec, Refinement, Lifecycle!Spec
=============================================================================
