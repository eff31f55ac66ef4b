# Verification of Imperium core

TLA+ models of four parts of Imperium core (`src/src/imperium`) where several actors
work on one piece of state: the calls of the chat, the meetings that grow out of
them, the offline synchronisation of devices and the scheduled messages; TLC
configurations that check them on small instances, and proofs checked by TLAPS.
Source paths below are relative to `src/src/imperium/` unless they say otherwise.

1. [Inventory of the system](#1-inventory-of-the-system)
2. [Modules and how they correspond to the code](#2-modules)
3. [What each run checks](#3-runs)
4. [What is proved](#4-proofs)
5. [Abstractions, and what is not modelled](#5-abstractions)
6. [Findings](#6-findings)
7. [Plan](#7-plan)

## 1. Inventory of the system

Imperium core is the server of an ERP: a TypeScript program run by Bun over
PostgreSQL, with a generic store and CRUD router on which every business flow is
built. One process serves requests concurrently; every `await` on the database is a
point where another request, a timer or a socket event may run. The flows protect
themselves with versioned rows (`update_versioned`), unique indexes and, in a few
places, transactions.

| Component | State | Operations | Hard behaviour | Properties that make it correct |
|---|---|---|---|---|
| Call state machine (`call-state.ts`) | none: a pure function of call and event | create, accept, join, decline, leave, cancel, end, ring_timeout, sweep (and grow, open_meeting) | any order of events, numeric limits of legs and topology | a call's parts never contradict each other |
| Call flow (`calls-flow.ts`) | rows of `chat-calls`, `activeCall` of conversations, attendance, call messages; in memory `ring_timers`, `grace_timers`, `leg_presence` | `create_call`, `accept_call`, `join_call`, `decline_call`, `leave_call`, `cancel_call`, `end_call`, timers, `sweep_calls` | read, decide, compare-and-swap, retry; effects after the write, in several awaited steps; restart; failures of effects | first tab wins, ended is final, one live call per conversation, one message and exact attendance per call, every call ends |
| Call sockets and room (`calls-realtime.ts`, `call-room.ts`) | rooms of attached legs, sockets | attach, detach, close, relays, lobby | sockets that drop between two awaits | the room, `leg_presence` and the row agree |
| Meetings (`meetings-flow.ts`, `call-room.ts`) | rows of meetings and of their calls; in memory the rooms with lobby, roles, hands, blocks and breakout rooms, the list of breakout calls and their timer | join, admit, order (host commands), open and close breakout rooms, expel, edit the cohosts, idle sweep | requests that decide on a room, await the database and change it later; expulsion over several rooms; a timer between two stages | nobody enters without admission, who is expelled stays out, silence holds, breakout rooms end |
| Scheduled messages (`chat-flow.ts`, `chat-jobs.ts`) | rows of `chat-scheduled`, the thread, uploads and what they are bound to | schedule, edit, cancel, claim, send, retry, release | two statements between insert and end of a row; crash; author against the pass; 429 | every request once in the thread, every row settles, what is cancelled is not sent |
| Chat (`chat-flow.ts`, `chat-access.ts`, `chat-realtime.ts`, `stories-flow.ts`) | conversations, members, messages, read positions | send, edit, delete, read, forward, drafts | idempotent sends, read counters | every message once, counters that match |
| Offline synchronisation (`offline/`) | the device's store and queue, the server's ledger | enqueue, flush, replay a batch, merge, review | lost answers, repeated batches, two devices, a queue that grows while it is flushed | each mutation applied once, none lost, confirmation means applied |
| Change feed (`offline/windows.ts`) | change log, cursors | page through changes | transactions that commit out of order | no change skipped |
| Store, CRUD, router, actions | every table | find, insert, update, soft delete, actions | versioned updates, hooks that fail half-way | lost updates refused |
| Authentication, groups, record rules | sessions, attempts, PINs | login, limits, filters | limits under concurrent attempts | the limit is never exceeded |
| Sockets and notifications (`socket-stub.ts`, `notifications.ts`) | sessions, rooms, queue of retries | emit, connect, disconnect | delivery is best effort | - |
| Installable apps, "subjects" (`subjects-admin.ts`, `subject-*.ts`, `app-registry*.ts`) | installed versions, containers, menus | install, update, uninstall, auto-update | a step that fails after others were done | no half-installed app is left as installed |
| Point of sale (`pos-*.ts`) | cash sessions, tickets, layaways, credits | open, sell, return, close | closing while selling, repeated tickets | the cash count adds up |
| Inventory (`inventory-*.ts`) | lots, stock, kardex | receive, exit, pick, count | two exits of the last unit | stock never negative and equal to the kardex |
| Purchasing, delivery, invoicing, payroll, tickets | documents with a status | status changes | mostly one actor at a time | documents only move forward |
| Numbering (`increment-normalize.ts`) | counters | next folio | two at once | no folio twice |
| Database administration (`db-admin-*.ts`) | backups, restore gate | back up, upload, restore | requests during a restore | no write during a restore |
| Background jobs (`background-job.ts`) | a progress notice per installation | create, update | check then insert | one notice per installation |

Interaction in the parts modelled. Calls: a client asks over HTTP
(`calls-flow.ts`), the flow decides with `call-state.ts`, writes with the store's
compare-and-swap, and then publishes the call to the sockets of the members,
trims the room, arms or clears timers, posts the call's message into the chat and
saves attendance. Sockets attach to the room and feed `leg_presence`; the sweeper reads
`leg_presence` and the live rows every few seconds and sends the flow the event
`sweep`.

Meetings: `join_meeting` and `run_host_command` read the meeting and its call, then
apply a command to the room in memory (`run_room_command`), and carry what follows
to the row of the meeting, to the breakout rooms and to their calls; the end of a
call closes its room and, through `on_meeting_call_closed`, the breakout calls.

Synchronisation: a device queues mutations in `localStorage` and posts them; the
server replays a batch in one transaction against a ledger keyed by client and
sequence number, and mirrors the rows to the tables of their resource outside of it.

Scheduled messages: the author creates, edits and cancels rows over HTTP; every 30 s
a pass of `chat-jobs.ts` claims those that are due, sends each through
`create_chat_message` and writes what became of it.

Calls come first because they are where the program is most concurrent: five kinds
of actor (requests, ring timers, grace timers, the sweeper, sockets) race on one row and on
four pieces of memory that a restart loses. Meetings add requests that change memory
after an await; synchronisation and scheduled messages add retries over statements that may
have been done.

## 2. Modules

| Module | Models | Kind |
|---|---|---|
| `CallState` | `call-state.ts` | operators |
| `CallFlow` | `calls-flow.ts`, and the statements of `store.ts`, `call-room.ts` and `chat-flow.ts` it runs | state machine, extends `CallState` |
| `CallPresence` | `calls-realtime.ts` (attach and close) and `note_network_lost` | state machine over `CallFlow` |
| `CallLifecycle` | what calls promise, without requests or races | abstract specification |
| `MeetingRoom` | `apply_room_command` of `call-room.ts` | operators |
| `MeetingRooms` | the requests of `meetings-flow.ts`, the socket handlers of `calls-realtime.ts` and the sweep over the rooms of a meeting | state machine, extends `MeetingRoom` |
| `MeetingDoor` | what a meeting promises at its doors, without requests that wait, media, hands, timers or faults | abstract specification |
| `OfflineSync` | `offline/device.ts`, `pouch-bridge.ts`, `durable.ts`, `apply.ts` | state machine |
| `OfflinePromise` | what the synchronisation promises, without devices, queues, replays or faults | abstract specification |
| `ChatScheduled` | the scheduled messages of `chat-flow.ts`, the pass of `chat-jobs.ts` and their statements in `store.ts` | state machine |
| `ChatOutbox` | what the scheduled messages promise, without passes, claims or faults | abstract specification |
| `MCCallFlow`, `MCCallPresence`, `MCMeetingRooms`, `MCOfflineSync`, `MCChatScheduled` | small instances | for TLC |
| `CallState_proofs`, `CallFlow_proofs`, `CallLifecycle_proofs`, `CallAttendance_proofs`, `MeetingRoom_proofs`, `MeetingRooms_proofs`, `OfflineSync_proofs`, `ChatScheduled_proofs` | theorems | for TLAPS |

### CallState

`Transition(call, ev)` is `transition` of the code: it gives a code (`done`, `same`
for an event that changes nothing, `refused` for an error), the call that follows and
its effects. A call is a record with one leg per person: its state, the tab (`leg_id`)
that answered while it is joined, and whether it was created as waiting (`busy`).
`EmitOnly`, `Finish` and `ExitEffects` build the effects in the order `run_effects` runs them.

### CallFlow

The variables are the tables (`calls`, `activeCall`, `messages`, `notified`,
`intervals`), the memory of the process (`ringTimers`, `graceTimers`, `presence`,
`room`), the sweep in progress (`pass`) and `frames`: what each request, timer or the
sweeper is doing. A frame's `pc` is the await it stands at:

```
create_call   check -> insert -> (effects)
apply_event   load  -> write  -> (effects)        write -> load on a lost compare-and-swap
effects       sync -> active -> timers -> others | message -> attend
```

| Action | Code |
|---|---|
| `StartCall`, `CheckCall`, `InsertCall` | `create_call`: the request, its checks, the insert |
| `AcceptCall`, `JoinCall`, `DeclineCall`, `LeaveCall`, `CancelCall`, `EndCall` | the handlers: what they ask `apply_event` for |
| `Load` | `load_call` and `transition` |
| `Write` | `update_versioned`: on a lost write back to `Load`, up to `CAS_RETRIES` |
| `SyncRoom`, `SetActiveCall` | `publish_update` |
| `SetTimers` | the timers among the effects, which no await separates |
| `LeaveOtherCalls` | `leave_other_calls`, which runs `apply_event` once per call: the frame keeps the ones to come in `rest` |
| `PostMessage` | `post_call_message` and `notify_missed` |
| `SaveAttendance` | `save_attendance` |
| `RingTimerFires`, `GraceTimerFires` | the callbacks of `arm` |
| `SweepBegins`, `SweepCall`, `SweepEnds` | `sweep_calls`, one call at a time |
| `RingWindowPasses`, `GracePasses` | the clock |
| `Restart`, `StatementFails`, `AnswerLost`, `EffectFails` | faults |

Any frame may be at any step, so a request from a second tab, a timer and the sweeper
interleave freely at every await. `AnswerLost` is a write that commits and whose answer never
arrives; `EffectFails` follows `run_effects`, which reports a failing effect and goes on.

### CallPresence

Adds the sockets. `AttachReads` is `on_attach` up to its last await and `AttachEnds`
what follows, so a socket may close, a call may end or a sweep may pass in between;
`SocketCloses` is `on_close`; `LossNoted` is `note_network_lost` once it has read the row.

### CallLifecycle

The abstract specification: a call rings, is answered and ends for good; a
conversation has at most one live call; each person sits in a call from one tab and
does not change seat; the call is logged at most once, with the outcome it ended
with. `CallFlow!Refinement` states that the flow implements it under the mapping
`phase = state of the row`, `seat = tab of the leg`, `log = messages`: every step of
requests, timers, the sweeper and faults is a step of `CallLifecycle` or leaves it unchanged. `Implements` proves it.

### MeetingRoom and MeetingRooms

`MeetingRoom` has one operator per command of the room (`Attach`, `Detach`, `Media`,
`Wait`, `AdmitPerson`, `Leave`, `RaiseHand`, `Expel`, `Tick`) and, for the orders of
the staff, `MayOrder` (what the code refuses) and `Ordered` (what it does). A room is a
record: the attached tabs with role, microphone, silence and hand, the lobby, who is admitted and as
what, who is blocked, the floor, the spotlight and the places in small rooms.

`MeetingRooms` has the rooms in memory, the rows of the calls (`row`: `active`, then
`ended`, `told` to the room and `closed` for the meeting, the three things the end of a call does one
after the other), the row of the meeting (`doc`), the list of breakout calls, which
`listed` says is still the one the map holds, their timer, what a tick and a closing under way have left to do,
and the requests (`frames`). Two settings of the meeting are constants: whether people may open their microphone (`MayUnmute`) and
whether they come in without it (`MuteOnEntry`). A step of a request is what it does between two awaits:

```
join_meeting      found -> called -> (the lobby) | grow -> arrived -> welcome, one by one
run_host_command  asked -> events -> expel, room by room | opening <-> placing, room by room
update_meeting    edited -> cohosts, room by room
```

| Action | Code |
|---|---|
| `JoinAsks`, `MeetingCall`, `JoinDecides`, `JoinFails`, `JoinEnters` | `join_meeting`, `meeting_call`, `open_room` |
| `WelcomeReads`, `Welcome` | `admit_waiting_for_host` |
| `OrderAsks`, `OrderRuns`, `OrderFails`, `BlockSaved`, `ExpelNext` | `run_host_command`, `after_room_events`, `expel_from_other_rooms` |
| `SmallOpens`, `SmallAdmits`, `OpeningFails` | `open_breakout_calls` |
| `TimerFires`, `TickReads`, `TickFails`, `TickRearms` | `breakouts_tick` before its awaits, after them, when one fails, and when it arms the timer again |
| `CloserEnds`, `RoomTold`, `CallClosed` | `close_breakout_calls`, `sync_room_with_call`, `on_meeting_call_closed` |
| `SweepSees`, `SweepEnds` | `meeting_idle` and the sweep of `calls-flow.ts` |
| `EditCohosts`, `CohostsRead`, `CohostNext` | `update_meeting`, `sync_live_cohosts` |
| `OnAttach`, `OnMedia`, `OnHand`, `OnLeave`, `LeaveLobby`, `OnClose` | the socket handlers |

`MeetingDoor` is who may be in each room and as what: the roles, the lobby, the blocks and the role each tab sits with. Somebody
enters the main room with a role they may have, and who needs approval only by an order; they are admitted by the word of one who sits
as a moderator, or because somebody who moderates has arrived; only the word of a host makes a cohost or expels one, and none expels the host;
into a breakout room people go with the role they had when the main room was parted; and the meeting ends by the word of a host or
deserted. What was said, seen or begun and still has to be done is an errand, and an errand may be done late or never: a cohost who
is demoted while their order waits still moderates once, as in the code. `Refinement` maps the model to it: the doors are the rooms as they are,
and the errands are what the requests under way carry over their awaits (`ErrandsOf`: the role an order was sent with, an edit of the cohosts,
the person an expulsion still has to take out of other rooms, the roles a snapshot of the main room gave, an arrival that still has somebody to
welcome), the rooms the sweep has found idle and the calls that are over. So a request that lets in who needs approval, an order that runs with
a role nobody sat with, a late expulsion of somebody else or a call that ends by itself is no step of `MeetingDoor`.

### OfflineSync

`device` is the record in `localStorage` (queue, next number, what already entered the
queue, local rows), `flush` a flush under way with the copy it read, `frames` the batches
the server replays, `store` the tables, `ledger` the answers by client and number. `QueueCreate`,
`QueueEdit` and `ForgetDoc` are what the application does to the queue; `FlushBegins`,
`FlushEnds` and `PostFails` are `flush_device_queue`, which writes back the copy it read;
`LookInLedger`, `ApplyMutation`, `PutRow`, `PutLedger`, `MirrorRow` and `Commit` are `replay_durable`, one statement
each, with the locks of the two tables it writes in its transaction (`Waits`, `DeadlockBroken`); `StoreRefuses`,
`BatchFails` roll it back; `EditOnline` is an edit of somebody connected. The n-th change
writes the value n, so the values of a field say in which order changes came to be. A creation fills some of the fields and leaves the
others `Blank`; an edit carries the value its form showed, and over a blank `OthersTouched` holds nobody to have touched the field, as
`base[field] ?? current[field]` does. The application may queue and forget during a flush, and the answer writes the copy back over it.
`noted` is a history of the numbers the ledger took from a device itself, and not from another one of the same client id.
What a filter of the code leaves in a queue is `Keep`, which says position by position what `SelectSeq` computes by
recursion: the proofs have to reason about it.

`OfflinePromise` is what a person may expect of all that: each change has a place and the answers it was ever given. A change made
offline waits; it is confirmed only if it was answered, or withdrawn, and stays there
for good; and an answer is the one given before, unless something overlaps with a replay (`crowded`). A change made while others are being
answered is "unsure": it comes to wait like the rest if the post fails, and is "lost" if the answer arrives. So the promise says what is not lost, and
that is all the code ensures: whatever waits when a flush begins. `Refinement` maps the model to it: the place of a change is
"unsure" while a queue holds it and the flush under way does not (`Late`), "waiting" while a queue holds it otherwise, what became of it once it is settled, and
"lost" when it was queued and no queue holds it any more (`PlaceOf`). So a flush that drops what it did not have confirmed, a replay that
answers differently the second time, or an answer that confirms what was never answered or revives what was withdrawn is no step of `OfflinePromise`.
`QueueCreate`, `QueueEdit`, `EditOnline`, `Commit`, `FlushEnds` and `ForgetDoc` are its steps; the rest of the replay stutters, or crowds.

### ChatScheduled

The rows (`scheduled`), the thread, what each upload is bound to, and `job`: the
process and its pass. The pass stands at

```
boot -> idle -> next -> lookup -> checks -> insert -> finish -> tell -> next ... -> drain -> idle
```

| Action | Code |
|---|---|
| `Schedule`, `BindFiles`, `Edit`, `Cancel`, `Discard` | `create_`, `update_`, `cancel_scheduled_message`, `discard_uploads` |
| `UploadGoes` | `delete_chat_upload`, `discard_orphan_uploads` |
| `FirstPass`, `Claim`, `BatchEnds` | `close_pending_jobs`, `chat_claim_due`, `drain` |
| `Begin`, `Lookup`, `Deny`, `Accept`, `Limit`, `Insert` | `send_scheduled` through `create_chat_message` |
| `Finish`, `Tell` | `chat_update_scheduled` and the notice of a refusal |
| `SendFails`, `PassFails`, `ClaimLost`, `Crash`, `Start` | a statement fails, and with it or not the one that lets go; the answer to a claim is lost; the process dies |
| `TimeComes`, `ChangeStanding` | the clock; others change the author's place in the conversation |

`job.taken` is the text each row had when it was claimed, which is the one that is sent.
`job.held` is a history of the rows the pass put back.

`ChatOutbox` is the abstract specification: every row is unasked, waiting, delivered, refused or withdrawn (`box`), and `log` is
the sequence of requests in the thread. `Refinement` reads `box` off the state of the row (pending and sending are both
waiting, cancelled and removed both withdrawn) and `log` off the thread. Only `Schedule`, `BindFiles`, `Cancel`, `Insert` and
`Finish` are steps of it; edits, claims, releases, retries, 429s and crashes are stutters.

## 3. Runs

| Run | Instance | Checks |
|---|---|---|
| `call_direct` | 2 people with 2 tabs each, 1 call, from when it rings and from when it is answered and a socket has just been lost, 2 processes and the sweeper, 2 requests, 1 fault | `TypeOK`, `CallsOK`, `MessageOK`, `AttendanceExact`, `EndedIsFinal`, `FirstTabWins`, `LeaveFromOwnTab` |
| `call_group` | 3 people in a group, media server on, 1 process and the sweeper, 4 requests | `SfuIsKept`, `Refinement` |
| `call_redial` | 2 direct conversations of one person, 2 calls, 2 processes, 2 requests from nothing, or 1 from a call in progress with a second one ringing | `OneLiveCall` |
| `call_presence` | 2 people with a socket, from nothing and from a call just answered, 1 request, 1 socket opened, 1 fault, with fairness | `PresenceTypeOK`, `RoomEntered`, `AbsentLegsGo`, `EveryCallEnds`, `EveryEndIsLogged` |
| `call_two` | the same people and processes, 2 requests from nothing | `OneCallPerPerson`, violated |
| `meeting_inside` | a host, an invited person and a guest, one tab of the host and one of the invited person, open microphones allowed, one breakout room, 2 requests at once of 4, 3 moves of sockets, the orders that change who is in, who moderates and who may speak | `TypeOK`, `BlockedOut`, `InsideIsAdmitted`, `HandsMatch`, `HostNeverBarred`, `SilenceHolds`, `Refinement` |
| `meeting_ends` | the same people, who come in muted and may not unmute, the orders that open and close breakout rooms, end the meeting and expel, 4 requests, 2 moves, 1 fault, with fairness | `HostWaitersEnter`, `BreakoutsEnd` |
| `meeting_expelled` | the same with no fault | `ExpelledStaysOut`, violated |
| `sync_alone` | 1 device, 2 documents of one field, one of which the store refuses, 2 replays at once, 3 changes, 1 fault, with fairness | `TypeOK`, `StoredUnlessShared`, `Refinement`, `NeverGoesBack`, `EveryChangeLeaves` |
| `sync_devices` | 2 devices, 2 documents, 2 changes, no fault | `ConfirmedIsStored`, violated |
| `chat_sent` | 2 rows of two requests or of one sent again, 1 file, batches of 2, 2 attempts, 1 edit, one fault of each kind, with fairness | `TypeOK`, `SentOnce`, `NothingStuck`, `WaitsItsTurn`, `RefusedIsTold`, `AuthorIsHeard`, `FilesKept`, `Refinement`, `Settles` |
| `chat_cancelled` | the same with one crash and nothing else | `CancelledIsGone`, violated |

What the properties of calls say:

- `CallsOK`: in every row, a ringing call has only its initiator in and somebody who
  rings, an active one has somebody in it (a direct one, both), an ended one has nobody
  in it or ringing, and only ended ones have a reason.
- `EndedIsFinal`, `FirstTabWins`, `LeaveFromOwnTab`, `SfuIsKept`: what no step of anybody may do to a row.
- `OneLiveCall`: two live calls in a conversation never coexist, whoever calls at once.
- `OneCallPerPerson`: nobody is in two calls; a test says so, and two starts at once refute it.
- `MessageOK`: the message of a call carries the outcome of its row, and the missed
  notice reaches only people of a direct call who never entered it.
- `AttendanceExact`: entrances and attendance intervals match: without faults exactly,
  counting those still in and those about to be saved; with faults, never more intervals
  than entrances.
- `EveryCallEnds`, `AbsentLegsGo`, `EveryEndIsLogged`: liveness; whatever is lost, the
  sweeper ends a call nobody is seen in.
- `RoomEntered`: nobody is in a room whose call they never entered.

Of meetings:

- `BlockedOut`, `InsideIsAdmitted`: who is kept out of a room is not in it, not admitted and not waiting; who has a
  tab, the floor, the spotlight or a place in it is admitted, through every way of leaving, being expelled and coming
  in again, and nobody admitted waits.
- `HandsMatch`: the queue of hands is that of the tabs that show one.
- `Refinement`: the meeting is a `MeetingDoor`. Nobody comes in, is made something, goes out or has the meeting ended but by whoever
  may, although what a request decides on was read before it waited.
- `HostNeverBarred`: no order, from any room and however late it runs, bars the host.
- `SilenceHolds`: nobody silenced gets the microphone back by a second tab, a new
  entrance or anything but an order that gives it. It speaks of people all of whose tabs are without a staff role (see the
  [observations](#6-findings): a proof attempt found what happens otherwise).
- `HostWaitersEnter`, `BreakoutsEnd`: liveness, while the call is alive and nothing
  failed: who waits only for the host gets in, and the calls of breakout rooms end. A failed statement breaks both,
  and the properties say so (`faults > 0`): `breakouts_tick` ends the rooms in memory before it reads
  the call, so what fails after that is not tried again.
- `ExpelledStaysOut`: an expulsion with a block holds in every room of the meeting once it is over.

Of synchronisation:

- `ConfirmedIsStored`: a document whose creation was confirmed is in the table. Two devices refute it.
- `StoredUnlessShared`: it is, and stays there, unless the ledger only ever took its number from another device of the same client id. With
  one device that is never so, and in `sync_alone` it says the same as `ConfirmedIsStored`.
- `Refinement`: the synchronisation is an `OfflinePromise`. A change that waits when a flush begins waits until it is confirmed or withdrawn, for good,
  and a mutation gets one answer however often it is posted; only what is queued during a flush may be lost.
- `NeverGoesBack`: no replay brings back a value an edit had replaced. It, and the one answer of the promise, speak of executions
  where no two replays overlap and nobody edits during one (`overlapped`), and it lets be the field of an edit made over a blank (`BlindTo`), which the code
  applies over any value; TLC refutes it without either.
- `EveryChangeLeaves`: liveness, except for a device that holds a document the store refuses, which posts the same batch for ever.

Of scheduled messages:

- `SentOnce`: neither a row nor a request is in the thread twice, after any crash, failure or repetition.
- `Refinement`: the scheduled messages are a `ChatOutbox`. A closed row is closed for good, a request is posted once and only while a row
  waits with it, and no row says it was sent before its request is in the thread.
- `NothingStuck`: a claimed row is in the hands of the pass or of the next start, unless the database was
  away when the pass wanted to let it go: then it waits for a restart.
- `WaitsItsTurn`: a row answered 429 is not taken again by the pass that put it back.
- `RefusedIsTold`: a refusal is notified, while nothing breaks; a crash between the two loses the notice.
- `AuthorIsHeard`, `FilesKept`: what was cancelled is not in the thread, what was sent has the last text its author gave
  it and has its files, while nothing breaks.
- `Settles`: liveness; every row is sent, refused or cancelled in the end, after any crash and any number of 429.

`SnapshotOK` (whoever is about to write holds the row as it is, or an older version), `GuestsDoNotModerate` (no guest moderates, in any room), `OneAnswer` (a mutation has
one answer while nothing overlaps), `SentIsInThread` (a row
that was sent names a message of its request) and `ClosedStaysClosed` (nobody changes a row that is sent, refused or cancelled) are proved and in no run.

**Bounds.** `MaxRequests`, `MaxAsked`, `MaxChanges` and `MaxEdits` bound what people ask, `MaxFaults` what fails,
`MaxSockets` and `MaxMoves` what sockets do; `v`, `joins` and `intervals` are bounded through them.
Two processes are enough for every race between two writers, and the sweeper is a third one;
from a call that rings, with its timer armed, two requests are two tabs of a person that answer at once, or an answer that
meets a hang-up, while the sweep reads and the timer fires (`RingingInit`); from an answered one whose
initiator has lost her socket, one more request meets her grace timer (`LostInit`).
`call_redial` starts from nothing and from `BusyInit`, what three requests and a restart lead to, so that one more request reaches `leave_other_calls`. `CasRetries = 1` instead of 3
reaches both the retry and the giving up with fewer writers; nothing else in the code depends on the number.
`MaxLegs`, `MeshMax` and `ClassMax` are those of the code. `EffectFails` of
`leave_other_calls` is not reached by the passing runs: `call_redial`, the one with other
calls to leave, has no faults, because its 2 million states are what the bound on time allows.
In meetings, two requests at once are the race of one that waits and one that changes the room;
four of them let a person join, the host order, and both happen again. Three moves let somebody attach, drop and attach again. One breakout room is enough for an expulsion that
meets an opening, because the order of rooms does not matter to it. In `sync_alone`, three changes make a creation and
two edits of it, or an edit of each side; the fault is any statement that fails or an answer that is lost, after which the batch is posted again while its first replay may still run. In `chat_sent`, two rows are
what a batch, a repeated request or a 429 that returns need, and `Attempts = 2` instead of 5 reaches both the retry and the last refusal;
a batch of 2 is full with both rows and not with one.

**Symmetry** is used where the instance treats the permuted values alike and no
liveness is checked. In `call_group`, `call_redial` and the violation runs the sets
permuted are those the membership does not tell apart (in `call_redial` and `call_two`, one friend and their conversation for the other friend and theirs, which is
sound from `BusyInit` too: the steps and the invariant treat both alike); in `call_direct` the tabs and the processes, since any tab may have called.

**Fairness.** Weak fairness on each frame's next step: the runtime resumes an await
that is answered. On the sweep: `start_call_sweeper` sets an interval that is never
cleared. On the ring window and the grace: time passes. None on requests, sockets or faults. `Step` is
fair per process and not per action, because a process has one step at a time.
In meetings, each request goes on and the server does what it has begun: timers fire, calls that ended are
told to their rooms; the sweep of empty rooms owes nothing there.
In synchronisation, replays go on, a device that holds something posts again (`flush_device_queue` is called whenever the
connection returns), and the lock of a row is given in the end to whoever waits for it, which is strong fairness of the two
statements that take locks: PostgreSQL queues those who wait.
In scheduled messages, the pass goes on and returns every 30 s, the process is started again, time passes, and a request that
has inserted its row goes on to its files; edits, cancellations and faults owe nothing.

**Deadlock.** Checked in the runs of calls, where there is always a sweep to begin, and of scheduled
messages, where others may always silence the author. In meetings and synchronisation people stop asking when the bound is
reached and everything may rest, so `CHECK_DEADLOCK FALSE`; that nothing waits for ever is what the liveness properties say there.

## 4. Proofs

`CallState_proofs` proves that transitions keep what a call says of itself:
`TransitionKeeps`, for every call in `Call` with `CallOK` and every event in `Event`, with a lemma
for each family of events (`AnswerKeeps`, `DeclineKeeps`, `ExitKeeps`, `RingTimeoutKeeps`,
`SweepKeeps`, `FinishKeeps`) and `NewCallOK` for `create`.

`CallFlow_proofs` proves, for any people, tabs, conversations, processes and bounds
that satisfy `FlowAssumption`, `TabAssumption` and `LimitAssumption`:

| Theorem | States |
|---|---|
| `TypeCorrect` | `Spec => []TypeOK` |
| `CallsStayOK` | `Spec => []CallsOK` |
| `OneLivePerConversation` | `Spec => []OneLiveCall` |
| `SnapshotsOK` | `Spec => []SnapshotOK` |
| `EndedStays` | `Spec => EndedIsFinal` |
| `FirstTabStays` | `Spec => FirstTabWins` |

They rest on `Invariance`: `Spec => []IInv` with

```
IInv == TypeOK /\ CallsOK /\ OneLiveCall /\ FramesOK /\ TimersOK
```

None of the properties is inductive alone. `CallsOK` needs `FramesOK`: the row a frame
holds hangs together too, a frame about to write holds the present row whenever the
version is the same, and a transition that is not refused was computed from a live
call. `FramesOK` needs in turn that versions never go back. `OneLiveCall` survives
a write because a transition never revives a call or changes its conversation,
and an insert because of the unique index. `TimersOK` says that timers and sweeps
speak of calls that exist, so that what fires loads an existing row.
`RowStep` then says what one step may do to one row, and the two action properties follow.

The type of a call bounds neither `v` nor the number of legs, so the proofs cover
any number of retries, faults and requests.

`CallLifecycle_proofs` proves what calls announce and that the flow implements `CallLifecycle`:

| Theorem | States |
|---|---|
| `MessagesOK` | `Spec => []MessageOK` |
| `SfuStays` | `Spec => SfuIsKept` |
| `OwnTabLeaves` | `Spec => LeaveFromOwnTab` |
| `Implements` | `Spec => Refinement` |

`Moves` says of a transition what the refinement needs: it ends the call, lets one person in, lets some out or leaves
everybody at their place, and its effects announce the outcome only if it ended the call, notify only people who never entered it, and save the attendance of
exactly those who went out. `TransitionMoves` proves it for every event, with a lemma for each family of them. `LogInvariance` is
`Spec => []LInv`, with

```
LInv == FramesTrue /\ EntrancesOK /\ LogOK /\ TopologyOK
```

`FramesTrue` says that what a frame has still to announce is true of the row in the table: the frame that ended the
call carries its outcome, and the row is final from then on (`EndedStays`), so it is still true when a late
`post_call_message` runs. `EntrancesOK` ties the history of entrances to the legs, where whoever once entered is never `missed` again. `StepKind`
divides the steps into those that insert a row, write one, say how a call ended or touch none of it; each maps to
one action of `CallLifecycle` or to a stutter.

`CallAttendance_proofs` proves `AttendanceAddsUp`: `Spec => []AttendanceExact`. Its invariant `AInv` is the property
with the frames that owe an interval counted in a finite set, and `Single`: whoever leaves the other calls owes nothing, so
going from the timers to `leave_other_calls`, which never saves attendance, loses none. A step balances (`Balances`) when it moves between the call, what its frame
owes and the table no more than there was, and exactly that while nothing failed.
The same module proves of `CallPresence`, the flow with its sockets:

| Theorem | States |
|---|---|
| `PresenceTypes` | `PresenceSpec => []PresenceTypeOK` |
| `OnlyWhoEntered` | `PresenceSpec => []RoomEntered` |
| `PresenceImplements` | `PresenceSpec => Refinement` |

`PresenceInvariance` is `PresenceSpec => []Kept`: the invariants of the flow, which a socket cannot disturb because it writes no row (`SocketStep`),
and `SInv`: whoever is in a room, or past the check of an attach that still waits, has entered that call. That survives the await of `on_attach`
because entrances are never taken back, although the leg may be; that a leg which is joined was entered comes from the account of attendance.
Every step of a socket is a stutter of `CallLifecycle`.

`MeetingRoom_proofs` proves `OrderedOK`: an order that is accepted leaves a consistent
room consistent, for every order and every room, with a lemma per command. `MeetingRooms_proofs` proves,
for any people, tabs, breakout rooms, requests and bounds:

| Theorem | States |
|---|---|
| `TypeCorrect` | `Spec => []TypeOK` |
| `KeptOut` | `Spec => []BlockedOut` |
| `Admission` | `Spec => []InsideIsAdmitted` |
| `Hands` | `Spec => []HandsMatch` |
| `Guesthood` | `Spec => []GuestsDoNotModerate` |
| `HostStays` | `Spec => []HostNeverBarred` |
| `SilenceKept` | `Spec => SilenceHolds` |
| `Implements` | `Spec => Refinement` |

The first five rest on `IInv == RoomsOf(rooms) /\ FramesOf(frames) /\ RestOf`: every room is
consistent, and so is what a request carries over an await. The second part is what makes it inductive: an opening of
breakout rooms admits people from a snapshot of the main room, a join admits with a role it
read before, and neither looks again; that the snapshot is a consistent room and the
role fits the person is all they have.

`HostStays` adds `HInv`: in every room, and in the snapshot that an opening carries over its awaits, who organises is host or not in it,
does not wait and is not blocked; an expulsion on its way never names them; a join that carries them carries the role of host; and the row of the meeting does not block them.
An order is refused for the host when it runs, so what it then carries to the other rooms and to the row has to remember it.
`SilenceKept` is an action property. `Calm` is what it asks of a tab and `Quiet` the change it allows to one person in one room:
each command of `MeetingRoom` is shown quiet, a calm tab staying calm and a new one of a silenced person coming in calm, and then each request, socket and timer (`QuietStep`).

`Implements` adds `DInv` to `IInv` and `HInv`: the role a join carries over its awaits is one its person may have, a join that has decided
to enter needs no approval, nobody who needs approval waits only for the host, and whoever is being welcomed needs none. Of each command
of the room a lemma says which doors it touches (`OrderDoors`, `ExpelDoors`, `RoleDoors`, ...); `DoorsSet` carries the change of one room to the four
functions of the promise; and `ErrandBegins` gives what a step adds to the errands, whoever else has one. Then each request, socket, timer and sweep is shown
to be a step of `MeetingDoor` or a stutter (`JoinDoor`, `OrdersDoor`, `SmallDoor`, `CohostDoor`, `SocketDoor`, `ServerDoor`). That nobody who needs approval waits
only for the host is proved from the promise itself (`DoorWaits`): only a knock makes anybody wait.
`HInv` is what keeps a late expulsion from naming the host, and `IInv` what keeps an opening from placing somebody who is kept out of the room it opens.

`ChatScheduled_proofs` proves, for any rows, requests, files, sizes of batch, attempts and faults:

| Theorem | States |
|---|---|
| `TypeCorrect` | `Spec => []TypeOK` |
| `Once` | `Spec => []SentOnce` |
| `Sent` | `Spec => []SentIsInThread` |
| `Held` | `Spec => []NothingStuck` |
| `Turns` | `Spec => []WaitsItsTurn` |
| `Told` | `Spec => []RefusedIsTold` |
| `Heard` | `Spec => []AuthorIsHeard` |
| `Kept` | `Spec => []FilesKept` |
| `Final` | `Spec => ClosedStaysClosed` |
| `Implements` | `Spec => Refinement` |

with

```
IInv == TypeOK /\ HandsOK /\ CreatingOK /\ CountingOK /\ VerdictOK /\ ThreadOK /\ NothingStuck /\ CalmOK
```

`HandsOK` says that a row in the hands of the pass is claimed, due, and has the text
it was claimed with: it is why an edit never meets a row that is being sent. `VerdictOK` says that a
pass about to write "sent" names a message of the row's request, and `ThreadOK` that a message has the request of its row
and a request one message. `CalmOK` is what stands while nothing has broken and a fault ends: a message in the thread
belongs to a row that is sent or about to say so, and the files of a row that is not closed are bound to it.
`CountingOK` bounds the attempts, without which the type does not hold.
`Implements` rests on the same invariant, one lemma per kind of step: a step that keeps the requests of the rows and goes at
most between pending and sending is a stutter (`RowsStay`), one that writes a row is the step of the outbox its new state names
(`RowMoves`), `HandsOK` makes the row of an `Insert` or a `Finish` one that waits, and `VerdictOK` gives the delivered row its message.

`OfflineSync_proofs` proves, for any devices, documents, fields, requests handled at once, changes and faults:

| Theorem | States |
|---|---|
| `TypeCorrect` | `Spec => []TypeOK` |
| `SavedForGood` | `Spec => []StoredUnlessShared` |
| `AnsweredOnce` | `Spec => []OneAnswer` |
| `ValuesAdvance` | `Spec => NeverGoesBack` |
| `Implements` | `Spec => Refinement` |

None has a hypothesis beyond `SyncAssumption`: queueing during a flush, devices of one client id and edits over a blank are all in `Spec`. What
the code does not ensure there is in the statements: `StoredUnlessShared` exempts the number that only another device noted, `NeverGoesBack` the field of
a blind edit, and the promise has "unsure" and "lost".

A chapter of lemmas comes first: what `Keep` keeps, what a mutation makes of a row, and what each action makes of the state
(`LookIs`, `PutIs`, `CommitIs`, ...), so that no later proof opens an action again. The invariants are layers over
`Typing`, `Spec => [](TInv /\ Heard)`, where `Heard` says that a posted flush has at most one replay to answer it, and `TInv` that a replay has
as many results as it has gone through mutations:

| Layer | Says |
|---|---|
| `Numbers` | a number of a device is one mutation wherever it still is (queue, copy of the flush, batch of a replay that nobody hears any more), was given before its next one, and an edit is of an older value than it writes |
| `Known` | values in the table, on devices and in replays are of changes already made |
| `Saved` | what the ledger took from a device itself is below the numbers it still gives (`NotedBelow`); a creation it took is in the table (`NotedStored`), and one replayed and not yet noted is there or the same replay has it still to mirror (`ReplayStored`); what is answered or promised is in the ledger |
| `Consistent` | while nothing overlaps there is one replay, its results agree with the ledger, and what was told of a mutation is what the ledger has |
| `Onward` | while nothing overlaps, what the replay has still to mirror is not behind the table nor behind what it put before, and what it is about to put is not behind what it read, but in fields it edits blindly (`Sighted`) |
| `OneHome`, `Made`, `Waiting`, `Resting`, `Recent`, `Answered` | the layers of the refinement: a change is of one device; the changes made are the first ones; what a copy, a batch or a queue holds has the fate that says so; an answer on its way is one the server remembers having given |

`StoredUnlessShared` is not inductive because a device is confirmed by what an earlier attempt noted: `Saved` follows a creation
from the statement that put its row through the ledger to the answer, and `Limit` bounds the numbers the ledger may know by those the flush under way leaves free, so
a new number never finds an old answer of its own device, also where the answer takes numbers back that were given during the flush. `Onward` is where posting a batch again is dealt with: a creation
leaves the row it finds, an edit that saw a value is applied over its base or over itself only, and both are at least what was there.

`Implements` needs `Consistent` besides its own layers: it makes the answer a `Commit` tells the one told before. `OneHome` is why a change
that one device confirms cannot wait in another, `Answered` why
what a `FlushEnds` takes out of the queue was told before, and `Resting` and `Recent` why what it overwrites is what was made during the flush. `Moved` says what any step may do to the fates and
answers, whatever action it is, and `MovedIs` maps that to the action of `OfflinePromise`.

Only model-checked: liveness (`EveryCallEnds`, `AbsentLegsGo`, `EveryEndIsLogged`, `HostWaitersEnter`, `BreakoutsEnd`,
`EveryChangeLeaves`, `Settles`), which TLAPS does not reach.

## 5. Abstractions

Calls:

- Times are left out. `due` says that the ring window of a call has passed, and
  `old` that a leg has not been seen for the grace; the clock is an action that sets them.
  Everybody a call rings is invited at one instant (only `create` makes legs ring), so they fall due together.
- A leg keeps its tab only while it is joined: the code reads the device of no other leg.
- The membership of a conversation is fixed while calls run; roles, rate limits
  and the shape of requests are left out: what they refuse never becomes a request.
- A request on a call is possible on any row, also one that ended.
- `create_call` reads the live call of the conversation and the live calls of the people
  in two statements; the model takes them as one. What changes between them is
  caught by the unique index, or is the race of two starts by one person ([observed](#6-findings)) anyway.
- The order of effects within one state change that no await separates is one step (`SetTimers`).
- Sweeping the legs of a call one by one ends in the same row and effects as all at once.
- The media server is external: only whether a call uses it is modelled.
- `grow` and `open_meeting` of `call-state.ts` and the recording are not modelled; the room of a plain call is the
  set of its attached tabs.
- `messages` stands for the chat message whose client id is derived from the call: posting it
  again finds the one that is there.

Meetings:

- One meeting with one call; the model ends with it. The process does not restart: every room in memory would be gone.
- Camera, screen, board, signals and captions have the guards of the microphone or none; the recording has a life of its own. All are left out.
- Hands are a set: their order is that of the server's clock.
- Breakout rooms are opened once per meeting: their ids are new ones every time, and the model has one set.
- The call of the meeting is a row with the state it has; `CallFlow` models how it gets there. `grow_meeting_call` accepts or fails.
- `meeting_idle` needs a grace longer than any request, so the sweep sees a room empty only when no request is under way (`SweepSees`).

Synchronisation:

- A document has one route of its marker: two resources under one id are not modelled, nor the fallback to `imperium_sync_row` and
  the deletion of rows.
- `mirror_resource_store` finds the row and inserts or updates it: one step, since nobody else creates it. `store.update` writes the whole row, as the code does.
- A post that never arrives changes nothing, so only lost answers are faults of the network.
- Stock, folios and the CFDI of `apply.ts` build their result in tables `replay_durable` keeps nowhere; they are left out.
- The local session with its PIN, the bootstrap of catalogues and the review screens are not modelled.

Scheduled messages:

- One author and one conversation. A conversation that disappears is the author out of it: both refuse the message.
- An author edits and cancels a row once its creation was answered: its id comes with the answer.
- `delete_chat_upload` reads the upload and removes it: one step. In between, the upload may be bound to a row; see the observations.
- The reads of a send before its insert are one step each for the person, the earlier message and what may be sent.
- The order of rows within a claim (`send_at`) and the limit of 20 batches in a pass are left out: any order, and as many as there are.
- There is one process, so between `Lookup` and `Insert` nobody inserts the same request, and the unique index is not met.
- Polls, mentions, quotes and who sees the list change what is refused and nothing else.

Not modelled at all, with the reason for each, are the components `PROJECT.json` lists as `not_modelled`: flows of documents
that one person moves at a time, arithmetic and XML of invoices, rendering, file and container administration, and the CRUD
layer, whose concurrent part (`update_versioned`) is modelled where calls use it. The program has 99 000 lines, most of them of
that kind; the models cover the flows where actors interleave.

## 6. Findings

Four runs find what the code says of itself violated; the lines contradicted are quoted in `PROJECT.json`.

- `call_two`: `create_call` looks whether the caller is in another call and inserts later: who starts calls in two conversations at once is in both.
- `sync_devices`: every device starts with the client id `device` and number 1, and the ledger is
  keyed by them: the first mutation of a second device gets the answer given to the first one, is
  taken for applied and leaves the queue.
- `meeting_expelled`: breakout rooms are opened one await at a time from a snapshot. Somebody expelled with a block meanwhile is
  admitted to the rooms that open afterwards.
- `chat_cancelled`: a crash, or a failing statement, between the insert of a scheduled message and the end of its row makes
  the row pending again. Its author may cancel it: it is in the thread, cancelled, and its files are removed.

Observed with TLC while modelling, and in no run: the first two need nothing to fail.

- A late publish sets `activeCall` from the row it wrote, whatever the row is by now: a conversation may go on announcing a
  call that ended (`AnnouncedIsLive`).
- A leg is marked as waiting only if its person is in another call when it is
  *created*: whoever answers another call while it rings, and then answers it, stays in both; so does whoever answers while `leave_other_calls` gives up after its retries.
- The end of a sweep deletes from `leg_presence` every leg it had not read, including one that attached while it ran (`AttachedIsSeen`).
- `note_network_lost` arms the grace timer after an await; a socket that came back meanwhile is taken out 30 s later (`GraceOnlyWhileGone`).
- A socket that drops between the awaits of `on_attach` leaves its leg attached with nobody behind it (`RoomIsOnline`).
- A late publish of an old row takes out of the room somebody who attached after it (`SyncSparesJoined`).
- A change queued while a flush awaits its answer is lost when the answer arrives: "no place is lost" is refuted in 11 steps. Its number is given
  again, and its document may be queued once more. Forgetting during a flush is harmless: whatever is forgotten was posted, and the answer confirms the whole batch.
- An edit over a field nobody had filled goes over any value that came meanwhile and answers "applied" (`NeverGoesBack` without `BlindTo`).
- Somebody made cohost while their join waits keeps the role of a participant on that tab: the room has them among the staff, and
  `mute`, which looks at the role of the tab (`call-room.ts:485-500`), takes the hard silence off them (`SilenceHolds` without its condition on roles).
- A row edited online while a replay mirrors it is written over without a conflict (`NeverGoesBack` without `overlapped`).
- A cohost retired while they join moderates until the call ends, and calls of breakout rooms opened while the main call ends go on until they are idle.
- `breakouts_tick` that fails after the rooms are ended in memory leaves their calls (`BreakoutsEnd` without `faults > 0`).
- Rows claimed when the database goes away wait for a restart (`NothingStuck` without the outage); the text edited after a send was
  interrupted is accepted and never sent (`AuthorIsHeard` without `Undisturbed`); a message that was sent before its
  author lost the conversation is told as refused when its row is tried again.
- A request scheduled twice whose binding was interrupted: cancelling one row removes the files of the other.

## 7. Plan

Done: the calls with their sockets, the synchronisation of devices, the scheduled messages and the meetings in progress, each with its abstract specification; and the proofs above.
In order of importance, what is left:

1. **`ChatThread`**: editing, deleting and quoting messages, read marks and counters, and a client that catches up from `rev` and `seq`.
2. **`ChangeFeed`**: `offline/windows.ts`. Transactions with a commit order different from their
   numbering; no change is skipped by a cursor.
3. **Cash sessions** (`pos-session-flow.ts`) and **stock** (`inventory-exit.ts`, `inventory-kardex.ts`): two exits of the last unit.
4. **Subjects**: install, update and uninstall with failures between steps.
5. **Claims of the other jobs** (`chat-jobs.ts`): messages and stories that expire, which release what fails as scheduled messages do, and reminders, which do not.
