------------------------------- MODULE CallFlow -------------------------------
(***************************************************************************)
(* The chat call flow (src/imperium/calls-flow.ts): requests, timers and   *)
(* the sweeper load a call, decide with CallState and write it with a      *)
(* compare-and-swap on v; whoever writes it runs its effects afterwards,   *)
(* one awaited step at a time.  A restart loses every request in flight,   *)
(* the timers, leg_presence and the rooms; the tables stay.                *)
(*                                                                         *)
(* A frame is one run of apply_event (or create_call) by a process.  Every *)
(* await of the code is a step boundary here; what runs between two awaits *)
(* is one action.                                                          *)
(***************************************************************************)
EXTENDS CallState

CONSTANTS
    Calls,        \* ids that new_id may give
    NoCall,       \* a conversation that announces no call
    Members,      \* Members[k]: the active members of conversation k
    Kind,         \* Kind[k]: direct or group
    Procs,        \* requests and timers being handled at once
    Sweeper,      \* the process of start_call_sweeper
    CasRetries,   \* CAS_RETRIES
    MaxRequests,  \* bound: requests users ever make
    MaxFaults     \* bound: restarts, failed statements and failed effects

ASSUME FlowAssumption ==
    /\ NoCall \notin Calls
    /\ Members \in [Convs -> SUBSET Users]
    /\ Kind \in [Convs -> Kinds]
    /\ \A k \in Convs : Kind[k] = "direct" =>
            \A u \in Members[k] : AtMostOne(Members[k] \ {u})
    /\ Sweeper \notin Procs
    /\ CasRetries \in Nat /\ MaxRequests \in Nat /\ MaxFaults \in Nat

VARIABLES
    calls,       \* the rows of chat-calls that exist: a partial function
    activeCall,  \* payload.activeCall of each conversation
    messages,    \* the call message of each call, by its outcome
    notified,    \* who got the missed notice of each call
    intervals,   \* attendance intervals saved, by call and person
    due,         \* calls whose ring window has passed
    frames,      \* what each process is doing
    ringTimers,  \* ring_timers: the calls with one armed
    graceTimers, \* grace_timers: the tab each armed one would take out
    presence,    \* leg_presence
    room,        \* who is attached to the room of each call, and from which tab
    pass,        \* the sweep in progress: the rows it read and the legs it saw
    asked,       \* requests made so far
    faults,      \* faults suffered so far
    joins        \* history: how many times each person entered each call

tables == <<calls, activeCall, messages, notified, intervals>>
memory == <<ringTimers, graceTimers, presence, room>>
budget == <<asked, faults>>
vars == <<tables, due, frames, memory, pass, budget, joins>>

Rows == DOMAIN calls
LiveIds == {c \in Rows : Live(calls[c])}
Idle == [pc |-> "idle"]
NoPass == [on |-> FALSE, todo |-> [c \in {} |-> {}], seen |-> {}]
Unseen == [tab |-> NoTab, attached |-> FALSE, old |-> FALSE]

\* What a process may be doing: creating a call, deciding on one, running the
\* effects of what it wrote.  `rest' is what leave_other_calls has still to leave.
CheckFrame == [pc : {"check"}, ev : [conv : Convs, user : Users, tab : Tabs, wanted : SUBSET Users]]
InsertFrame == [pc : {"insert"}, row : Call]
Rest == SUBSET (Calls \X Event)
LoadingFrame == [pc : {"load"}, call : Calls, ev : Event, tries : 0..CasRetries, rest : Rest]
WriteFrame == [pc : {"write"}, call : Calls, ev : Event, tries : 0..CasRetries, rest : Rest, snap : Call]
EffectPcs == {"sync", "active", "timers", "others", "message", "attend"}
EffectFrame == [pc : EffectPcs, call : Calls, row : Call, fx : Effects, rest : Rest]
Frame == {Idle} \cup CheckFrame \cup InsertFrame \cup LoadingFrame \cup WriteFrame \cup EffectFrame

Seen == [tab : Tabs \cup {NoTab}, attached : BOOLEAN, old : BOOLEAN]
Pass == {NoPass} \cup
    [on : {TRUE}, seen : SUBSET (Calls \X Users), due : SUBSET Calls,
     todo : UNION {[S -> [Users -> Tabs \cup {NoTab}]] : S \in SUBSET Calls}]

TypeOK ==
    /\ Rows \subseteq Calls /\ calls \in [Rows -> Call]
    /\ activeCall \in [Convs -> Calls \cup {NoCall}]
    /\ messages \in [Calls -> Outcomes \cup {"none"}]
    /\ notified \in [Calls -> SUBSET Users]
    /\ intervals \in [Calls -> [Users -> Nat]]
    /\ due \subseteq Calls
    /\ frames \in [Procs \cup {Sweeper} -> Frame]
    /\ ringTimers \subseteq Calls
    /\ graceTimers \in [Calls -> [Users -> Tabs \cup {NoTab}]]
    /\ presence \in [Calls -> [Users -> Seen]]
    /\ room \in [Calls -> SUBSET (Users \X Tabs)]
    /\ pass \in Pass
    /\ asked \in 0..MaxRequests /\ faults \in 0..MaxFaults
    /\ joins \in [Calls -> [Users -> Nat]]

Init ==
    /\ calls = [c \in {} |-> {}]
    /\ activeCall = [k \in Convs |-> NoCall]
    /\ messages = [c \in Calls |-> "none"]
    /\ notified = [c \in Calls |-> {}]
    /\ intervals = [c \in Calls |-> [u \in Users |-> 0]]
    /\ due = {}
    /\ frames = [p \in Procs \cup {Sweeper} |-> Idle]
    /\ ringTimers = {}
    /\ graceTimers = [c \in Calls |-> [u \in Users |-> NoTab]]
    /\ presence = [c \in Calls |-> [u \in Users |-> Unseen]]
    /\ room = [c \in Calls |-> {}]
    /\ pass = NoPass
    /\ asked = 0 /\ faults = 0
    /\ joins = [c \in Calls |-> [u \in Users |-> 0]]

-----------------------------------------------------------------------------
(* Frames *)

LoadFrame(c, ev) == [pc |-> "load", call |-> c, ev |-> ev, tries |-> 0, rest |-> {}]

\* The frame is done: on to the next call leave_other_calls has to leave.
NextOf(rest) ==
    IF rest = {} THEN {Idle}
    ELSE {[LoadFrame(r[1], r[2]) EXCEPT !.rest = rest \ {r}] : r \in rest}

Becomes(p, f) == frames' = [frames EXCEPT ![p] = f]

\* Where run_effects goes after `pc', skipping the effects it does not have.  The
\* effect leave_other_calls comes alone: only an answer has it.
AfterMessage(fx) == IF fx.attend # {} THEN "attend" ELSE "end"

\* Mutant: the message of the call is never posted.
AfterTimersNoMessage(fx) == IF fx.others # {} THEN "others" ELSE AfterMessage(fx)
AfterTimers(fx) ==
    IF fx.others # {} THEN "others"
    ELSE IF fx.message # "none" THEN "message"
    ELSE AfterMessage(fx)

After(pc, fx) ==
    CASE pc = "sync"    -> "active"
      [] pc = "active"  -> "timers"
      [] pc = "timers"  -> AfterTimers(fx)
      [] pc = "message" -> AfterMessage(fx)
      [] OTHER          -> "end"

Continue(p) ==
    LET f  == frames[p]
        pc == After(f.pc, f.fx)
    IN IF pc = "end" THEN \E g \in NextOf(f.rest) : Becomes(p, g)
       ELSE Becomes(p, [f EXCEPT !.pc = pc])

-----------------------------------------------------------------------------
(* Requests *)

Free(p) == p \in Procs /\ frames[p] = Idle
Ask == asked < MaxRequests /\ asked' = asked + 1

\* create_call: whoever calls is a member and there is somebody to call.
StartCall(p, k, u, t) ==
    /\ Free(p) /\ Ask /\ u \in Members[k]
    /\ \E wanted \in SUBSET (Members[k] \ {u}) :
        /\ wanted # {} /\ Cardinality(wanted) < MaxLegs
        /\ Becomes(p, [pc |-> "check", ev |-> [conv |-> k, user |-> u, tab |-> t, wanted |-> wanted]])
    /\ UNCHANGED <<tables, due, memory, pass, faults, joins>>

JoinedElsewhere(u) == \E c \in LiveIds : u \in Joined(calls[c])

\* live_call_for_conversation and live_calls_with, taken as one read.
CheckCall(p) ==
    LET ev == frames[p].ev
        refused == \/ \E c \in LiveIds : calls[c].conv = ev.conv
                   \/ JoinedElsewhere(ev.user)
    IN
    /\ frames[p].pc = "check"
    /\ Becomes(p, IF refused THEN Idle
         ELSE [pc |-> "insert",
               row |-> NewCall(ev.conv, Kind[ev.conv], ev.user, ev.tab, ev.wanted,
                               {u \in ev.wanted : JoinedElsewhere(u)})])
    /\ UNCHANGED <<tables, due, memory, pass, budget, joins>>

\* Mutant: no unique index.
NoUniqueIndex(row) == FALSE
UniqueViolation(row) == \E c \in LiveIds : calls[c].conv = row.conv

\* The insert; uq_chat_calls_live_conversation refuses a second live call.
InsertCall(p) ==
    LET row == frames[p].row IN
    /\ frames[p].pc = "insert"
    /\ IF UniqueViolation(row)
       THEN Becomes(p, Idle) /\ UNCHANGED <<calls, joins>>
       ELSE \E c \in Calls \ Rows :
            /\ calls' = [d \in Rows \cup {c} |-> IF d = c THEN row ELSE calls[d]]
            /\ joins' = [joins EXCEPT ![c][row.initiator] = @ + 1]
            /\ Becomes(p, [pc |-> "sync", call |-> c, row |-> row, rest |-> {},
                           fx |-> [EmitOnly EXCEPT !.ring = "start"]])
    /\ UNCHANGED <<activeCall, messages, notified, intervals, due, memory, pass, budget>>

\* A request on a call whose id the client knows from a call_update or from
\* read_active_calls; a tab may ask at any time, also for what is already over.
AskFor(p, c, ev) ==
    /\ Free(p) /\ Ask /\ c \in Rows
    /\ Becomes(p, LoadFrame(c, ev))
    /\ UNCHANGED <<tables, due, memory, pass, faults, joins>>

AcceptCall(p, c, u, t) ==
    u \in Members[calls[c].conv] /\ AskFor(p, c, [type |-> "accept", user |-> u, tab |-> t])
JoinCall(p, c, u, t) ==
    u \in Members[calls[c].conv] /\ AskFor(p, c, [type |-> "join", user |-> u, tab |-> t])
DeclineCall(p, c, u, t) == AskFor(p, c, [type |-> "decline", user |-> u, tab |-> t])
LeaveCall(p, c, u, t) == \E network \in BOOLEAN :
    AskFor(p, c, [type |-> "leave", user |-> u, tab |-> t, network |-> network])
CancelCall(p, c, u) == AskFor(p, c, [type |-> "cancel", user |-> u])
EndCall(p, c, u) == AskFor(p, c, [type |-> "end", user |-> u])

Request == \E p \in Procs, u \in Users :
    \/ \E k \in Convs, t \in Tabs : StartCall(p, k, u, t)
    \/ \E c \in Rows, t \in Tabs :
        AcceptCall(p, c, u, t) \/ JoinCall(p, c, u, t) \/ DeclineCall(p, c, u, t) \/ LeaveCall(p, c, u, t)
    \/ \E c \in Rows : CancelCall(p, c, u) \/ EndCall(p, c, u)

-----------------------------------------------------------------------------
(* apply_event *)

\* What a step leaves alone besides what it names.
Quiet == UNCHANGED <<due, budget>>

Load(p) ==
    LET f == frames[p]
        r == Transition(calls[f.call], f.ev)
    IN
    /\ f.pc = "load"
    /\ CASE r.code = "refused" -> Becomes(p, Idle)
         [] r.code = "same"    -> \E g \in NextOf(f.rest) : Becomes(p, g)
         [] r.code = "done"    -> Becomes(p, [pc |-> "write", call |-> f.call, ev |-> f.ev,
                                    tries |-> f.tries, rest |-> f.rest, snap |-> calls[f.call]])
    /\ UNCHANGED <<tables, memory, pass, joins>> /\ Quiet

\* update_versioned: what was decided on `snap', if nobody wrote the row since.
Written(snap, ev) == [Transition(snap, ev).call EXCEPT !.v = snap.v + 1]
Store(c, row) ==
    /\ calls' = [calls EXCEPT ![c] = row]
    /\ joins' = [joins EXCEPT ![c] =
            [u \in Users |-> @[u] + IF u \in Joined(row) \ Joined(calls[c]) THEN 1 ELSE 0]]

\* Mutant: last writer wins.
LastWriterWins(c, snap) == TRUE
Unwritten(c, snap) == calls[c].v = snap.v

\* Mutant: one retry too many.
ExhaustedLate(tries) == tries > CasRetries
Exhausted(tries) == tries = CasRetries

Write(p) ==
    LET f   == frames[p]
        row == Written(f.snap, f.ev)
    IN
    /\ f.pc = "write"
    /\ \/ /\ Unwritten(f.call, f.snap)
          /\ Store(f.call, row)
          /\ Becomes(p, [pc |-> "sync", call |-> f.call, row |-> row, rest |-> f.rest,
                         fx |-> Transition(f.snap, f.ev).fx])
       \/ /\ ~Unwritten(f.call, f.snap)
          /\ Becomes(p, IF Exhausted(f.tries) THEN Idle
                ELSE [pc |-> "load", call |-> f.call, ev |-> f.ev,
                      tries |-> f.tries + 1, rest |-> f.rest])
          /\ UNCHANGED <<calls, joins>>
    /\ UNCHANGED <<activeCall, messages, notified, intervals, memory, pass>> /\ Quiet

-----------------------------------------------------------------------------
(* run_effects *)

\* publish_update, once it knows the members: sync_room_with_call.
SyncRoom(p) ==
    LET f == frames[p]
        live == {<<u, f.row.legs[u].tab>> : u \in Joined(f.row)}
    IN
    /\ f.pc = "sync"
    /\ room' = [room EXCEPT ![f.call] = @ \cap live]
    /\ Continue(p)
    /\ UNCHANGED <<tables, ringTimers, graceTimers, presence, pass, joins>> /\ Quiet

\* chat_set_active_call: a live call is announced without looking at what is there.
SetActiveCall(p) ==
    LET f == frames[p]
        k == f.row.conv
    IN
    /\ f.pc = "active"
    /\ activeCall' = [activeCall EXCEPT ![k] =
            IF Live(f.row) THEN f.call ELSE IF @ = f.call THEN NoCall ELSE @]
    /\ Continue(p)
    /\ UNCHANGED <<calls, messages, notified, intervals, memory, pass, joins>> /\ Quiet

\* start_ring_timer, clear_ring_timer and clear_grace_timer.
SetTimers(p) ==
    LET f == frames[p] IN
    /\ f.pc = "timers"
    /\ ringTimers' = CASE f.fx.ring = "start" -> ringTimers \cup {f.call}
                       [] f.fx.ring = "clear" -> ringTimers \ {f.call}
                       [] OTHER -> ringTimers
    /\ graceTimers' = [graceTimers EXCEPT ![f.call] =
            [u \in Users |-> IF u \in f.fx.calm THEN NoTab ELSE @[u]]]
    /\ Continue(p)
    /\ UNCHANGED <<tables, presence, room, pass, joins>> /\ Quiet

\* leave_other_calls: the calls the person is in, left one after the other.
LeaveOtherCalls(p) ==
    LET f == frames[p]
        others == {m \in (LiveIds \ {f.call}) \X f.fx.others : m[2] \in Joined(calls[m[1]])}
        LeaveOf(c, u) == [type |-> "leave", user |-> u, tab |-> calls[c].legs[u].tab, network |-> FALSE]
    IN
    /\ f.pc = "others"
    /\ \E g \in NextOf({<<m[1], LeaveOf(m[1], m[2])>> : m \in others}) : Becomes(p, g)
    /\ UNCHANGED <<tables, memory, pass, joins>> /\ Quiet

\* post_call_message, whose client_id is the call's, and notify_missed if it is new.
PostMessage(p) ==
    LET f == frames[p] IN
    /\ f.pc = "message"
    /\ IF messages[f.call] = "none"
       THEN /\ messages' = [messages EXCEPT ![f.call] = f.fx.message]
            /\ notified' = [notified EXCEPT ![f.call] = @ \cup f.fx.notify]
       ELSE UNCHANGED <<messages, notified>>
    /\ Continue(p)
    /\ UNCHANGED <<calls, activeCall, intervals, memory, pass, joins>> /\ Quiet

\* save_attendance: one interval for each person who went out.
Saved(c, S) == [intervals EXCEPT ![c] = [u \in Users |-> @[u] + IF u \in S THEN 1 ELSE 0]]
SaveAttendance(p) ==
    LET f == frames[p] IN
    /\ f.pc = "attend"
    /\ intervals' = Saved(f.call, f.fx.attend)
    /\ Continue(p)
    /\ UNCHANGED <<calls, activeCall, messages, notified, memory, pass, joins>> /\ Quiet

Step(p) ==
    \/ CheckCall(p) \/ InsertCall(p) \/ Load(p) \/ Write(p)
    \/ SyncRoom(p) \/ SetActiveCall(p) \/ SetTimers(p)
    \/ LeaveOtherCalls(p) \/ PostMessage(p) \/ SaveAttendance(p)

-----------------------------------------------------------------------------
(* Timers and the sweeper *)

RingWindowPasses(c) ==
    /\ c \in LiveIds \ due
    /\ due' = due \cup {c}
    /\ UNCHANGED <<tables, frames, memory, pass, budget, joins>>

\* ring_out: the window may not have passed if the setting grew meanwhile.
RingTimerFires(p, c) ==
    /\ Free(p) /\ c \in ringTimers
    /\ ringTimers' = ringTimers \ {c}
    /\ Becomes(p, LoadFrame(c, [type |-> "ring_timeout", due |-> c \in due]))
    /\ UNCHANGED <<tables, graceTimers, presence, room, pass, joins>> /\ Quiet

GraceTimerFires(p, c, u) ==
    /\ Free(p) /\ graceTimers[c][u] # NoTab
    /\ graceTimers' = [graceTimers EXCEPT ![c][u] = NoTab]
    /\ Becomes(p, LoadFrame(c, [type |-> "leave", user |-> u, tab |-> graceTimers[c][u], network |-> TRUE]))
    /\ UNCHANGED <<tables, ringTimers, presence, room, pass, joins>> /\ Quiet

\* GRACE_S go by since the leg was last seen.
GracePasses(c, u) ==
    /\ presence[c][u].tab # NoTab /\ ~presence[c][u].attached /\ ~presence[c][u].old
    /\ presence' = [presence EXCEPT ![c][u].old = TRUE]
    /\ UNCHANGED <<tables, frames, ringTimers, graceTimers, room, pass, joins>> /\ Quiet

\* sweep_calls reads the live rows ...
SweepBegins ==
    /\ ~pass.on
    /\ pass' = [on |-> TRUE, seen |-> {}, due |-> due,
                todo |-> [c \in LiveIds |-> [u \in Users |->
                    IF u \in Joined(calls[c]) THEN calls[c].legs[u].tab ELSE NoTab]]]
    /\ UNCHANGED <<tables, frames, memory, joins>> /\ Quiet

\* ... judges the legs of each one (leg_stale) and applies the event ...

\* Mutant: only legs attached to their room are judged absent.
AbsentIfAttached(c, u, tab) == presence[c][u].tab = tab /\ presence[c][u].attached
Absent(c, u, tab) == presence[c][u].tab = tab /\ ~presence[c][u].attached /\ presence[c][u].old
SweepCall(c) ==
    /\ pass.on /\ frames[Sweeper] = Idle /\ c \in DOMAIN pass.todo
    /\ LET tabs  == pass.todo[c]
           in    == {u \in Users : tabs[u] # NoTab}
           fresh == {u \in in : presence[c][u].tab # tabs[u]}
       IN /\ presence' = [presence EXCEPT ![c] = [u \in Users |->
                IF u \in fresh THEN [Unseen EXCEPT !.tab = tabs[u]] ELSE @[u]]]
          /\ pass' = [pass EXCEPT !.todo = [d \in DOMAIN pass.todo \ {c} |-> pass.todo[d]],
                                  !.seen = @ \cup ({c} \X in)]
          /\ Becomes(Sweeper, LoadFrame(c, [type |-> "sweep", due |-> c \in pass.due,
                stale |-> {u \in in : Absent(c, u, tabs[u])}]))
    /\ UNCHANGED <<tables, ringTimers, graceTimers, room, joins>> /\ Quiet

\* ... and forgets every leg it did not see.
SweepEnds ==
    /\ pass.on /\ frames[Sweeper] = Idle /\ DOMAIN pass.todo = {}
    /\ presence' = [c \in Calls |-> [u \in Users |->
            IF <<c, u>> \in pass.seen THEN presence[c][u] ELSE Unseen]]
    /\ pass' = NoPass
    /\ UNCHANGED <<tables, frames, ringTimers, graceTimers, room, joins>> /\ Quiet

-----------------------------------------------------------------------------
(* Faults *)

Fault == faults < MaxFaults /\ faults' = faults + 1

Restart ==
    /\ Fault
    /\ frames' = [p \in Procs \cup {Sweeper} |-> Idle]
    /\ ringTimers' = {}
    /\ graceTimers' = [c \in Calls |-> [u \in Users |-> NoTab]]
    /\ presence' = [c \in Calls |-> [u \in Users |-> Unseen]]
    /\ room' = [c \in Calls |-> {}]
    /\ pass' = NoPass
    /\ UNCHANGED <<tables, due, asked, joins>>

\* A statement fails before it changes anything: the request answers an error.
StatementFails(p) ==
    /\ Fault /\ frames[p].pc \in {"check", "insert", "load", "write"}
    /\ Becomes(p, Idle)
    /\ UNCHANGED <<tables, due, memory, pass, asked, joins>>

\* The row is written and the answer is lost: no effect runs.
AnswerLost(p) ==
    LET f == frames[p] IN
    /\ Fault /\ f.pc = "write" /\ Unwritten(f.call, f.snap)
    /\ Store(f.call, Written(f.snap, f.ev))
    /\ Becomes(p, Idle)
    /\ UNCHANGED <<activeCall, messages, notified, intervals, due, memory, pass, asked>>

\* A failed effect is reported and the rest run.
EffectFails(p) ==
    LET f == frames[p] IN
    /\ Fault
    /\ \/ /\ f.pc \in {"sync", "active"}
          /\ Becomes(p, [f EXCEPT !.pc = "timers"])
          /\ UNCHANGED <<messages, intervals>>
       \/ /\ f.pc = "others" /\ Becomes(p, Idle)
          /\ UNCHANGED <<messages, intervals>>
       \/ /\ f.pc = "message" /\ Continue(p)
          \* the message may be in and its missed notices not
          /\ \/ UNCHANGED messages
             \/ messages[f.call] = "none" /\ messages' = [messages EXCEPT ![f.call] = f.fx.message]
          /\ UNCHANGED intervals
       \/ /\ f.pc = "attend" /\ Continue(p)
          /\ \E S \in SUBSET f.fx.attend : S # f.fx.attend /\ intervals' = Saved(f.call, S)
          /\ UNCHANGED messages
    /\ UNCHANGED <<calls, activeCall, notified, due, memory, pass, asked, joins>>

-----------------------------------------------------------------------------
FlowStep ==
    \/ Request
    \/ \E p \in Procs \cup {Sweeper} : Step(p) \/ StatementFails(p) \/ AnswerLost(p) \/ EffectFails(p)
    \/ \E c \in Calls : RingWindowPasses(c) \/ SweepCall(c)
    \/ \E c \in Calls, p \in Procs : RingTimerFires(p, c) \/ \E u \in Users : GraceTimerFires(p, c, u)
    \/ \E c \in Calls, u \in Users : GracePasses(c, u)
    \/ SweepBegins \/ SweepEnds

Next == FlowStep \/ Restart

Spec == Init /\ [][Next]_vars

\* The sweeper and whatever is being handled go on, and time passes.
Fairness ==
    /\ \A p \in Procs \cup {Sweeper} : WF_vars(Step(p))
    /\ \A c \in Calls : WF_vars(RingWindowPasses(c))
    /\ WF_vars(\E c \in Calls : SweepCall(c))
    /\ \A c \in Calls, u \in Users : WF_vars(GracePasses(c, u))
    /\ WF_vars(SweepBegins) /\ WF_vars(SweepEnds)
FairSpec == Spec /\ Fairness

-----------------------------------------------------------------------------
(* Properties *)

\* Every row that is written hangs together (CallState).
CallsOK == \A c \in Rows : CallOK(calls[c])

\* Two rows of one conversation are never both live.
OneLiveCall == \A c, d \in LiveIds : calls[c].conv = calls[d].conv => c = d

\* A frame about to write holds the row as it is, or will be refused.
SnapshotOK == \A p \in Procs \cup {Sweeper} : frames[p].pc = "write" =>
    LET f == frames[p] IN
    /\ f.call \in Rows /\ f.snap.v <= calls[f.call].v
    /\ f.snap.v = calls[f.call].v => f.snap = calls[f.call]

\* The message of a call says how the call ended, and its missed notice
\* reaches only people of a direct call who never entered it.
MessageOK == \A c \in Calls :
    /\ messages[c] # "none" =>
        c \in Rows /\ ~Live(calls[c]) /\ messages[c] = Outcome(calls[c].reason)
    /\ \A u \in notified[c] : calls[c].kind = "direct" /\ joins[c][u] = 0

\* Without faults each entrance ends up as one attendance interval: saved,
\* about to be saved by the frame that wrote the exit, or still in the call.
Pending(c, u) == {p \in Procs \cup {Sweeper} :
    /\ frames[p].pc \in {"sync", "active", "timers", "message", "attend"}
    /\ frames[p].call = c /\ u \in frames[p].fx.attend}
In(c, u) == IF c \in Rows /\ u \in Joined(calls[c]) THEN 1 ELSE 0
AttendanceExact == \A c \in Calls, u \in Users :
    LET counted == intervals[c][u] + Cardinality(Pending(c, u)) + In(c, u) IN
    IF faults = 0 THEN counted = joins[c][u] ELSE counted <= joins[c][u]

\* The row of a call that ended never changes again: no late answer, timer or
\* sweep that had read it before brings it back.
EndedIsFinal == [][\A c \in Rows \ LiveIds : calls'[c] = calls[c]]_vars

\* Whoever is in a call stays in it from the tab that answered first, even when
\* two tabs answer at once.
FirstTabWins == [][\A c \in Rows : \A u \in Joined(calls[c]) \cap Joined(calls'[c]) :
    calls'[c].legs[u].tab = calls[c].legs[u].tab]_vars

\* Once a call is on the media server, it stays there while people come and go.
SfuIsKept == [][\A c \in Rows : calls[c].topology = "sfu" => calls'[c].topology = "sfu"]_vars

\* Every live call that nobody is seen attached to gets to its end, whatever was
\* lost on the way: the sweeper does what the timers did not.
EveryCallEnds == \A c \in Calls :
    (c \in LiveIds) ~> (c \in Rows \ LiveIds \/ \E u \in Users : presence[c][u].attached)

\* Whoever is in a call is taken out only by their own tab: neither closing
\* another one nor the grace of one that was lost touches it.
LeaveFromOwnTab == [][\A p \in Procs :
    LET f == frames[p] IN
    f.pc = "write" /\ frames'[p].pc = "sync" /\ f.ev.type = "leave"
        => calls[f.call].legs[f.ev.user].tab = f.ev.tab]_vars

\* Without faults, every call that ended leaves its message in the conversation.
EveryEndIsLogged == \A c \in Calls :
    (c \in Rows \ LiveIds) ~> (messages[c] # "none" \/ faults > 0)

\* CallFlow implements CallLifecycle.
NoConv == "none"
PhaseOf(c) == IF c \in Rows THEN calls[c].state ELSE "none"
Lifecycle == INSTANCE CallLifecycle WITH
    phase   <- [c \in Calls |-> PhaseOf(c)],
    conv    <- [c \in Calls |-> IF c \in Rows THEN calls[c].conv ELSE NoConv],
    seat    <- [c \in Calls |-> [u \in Users |-> IF c \in Rows THEN calls[c].legs[u].tab ELSE NoTab]],
    outcome <- [c \in Calls |-> IF c \in Rows /\ ~Live(calls[c]) THEN Outcome(calls[c].reason) ELSE "none"],
    log     <- messages
Refinement == Lifecycle!Spec

\* The conversation announces a live call or none (chat_set_active_call).
AnnouncedIsLive == \A k \in Convs :
    (\A p \in Procs \cup {Sweeper} : frames[p] = Idle) /\ faults = 0
        => activeCall[k] = NoCall \/ activeCall[k] \in LiveIds

\* Whoever answers while in another call leaves the one before: once nothing
\* is in flight, nobody is in two calls.
OneCallPerPerson ==
    (\A p \in Procs \cup {Sweeper} : frames[p] = Idle) /\ faults = 0
        => \A u \in Users : AtMostOne({c \in Rows : u \in Joined(calls[c])})
=============================================================================
