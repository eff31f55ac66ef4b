--------------------------- MODULE ChatScheduled ----------------------------
(***************************************************************************)
(* The scheduled messages of one author in one conversation                *)
(* (src/imperium/chat-flow.ts, chat-jobs.ts and the statements of store.ts *)
(* they run): rows that wait for their time, the pass of the job that      *)
(* claims and sends them, and the author, who edits and cancels meanwhile. *)
(* A step is one statement or what lies between two awaits.  The process   *)
(* may die and start again, and statements may fail.                       *)
(***************************************************************************)
EXTENDS Naturals, FiniteSets, Sequences

CONSTANTS
    Rows,             \* the rows of chat-scheduled the author may create
    NoRow,
    Clients,          \* the client_ids of their requests
    Carried,          \* which requests the rows may carry: one sent again makes two rows
    Uploads,          \* the files uploaded for them
    FilesOf,          \* the attachment_ids of the request of each client_id
    Batch,            \* BATCH: how many rows a claim takes
    Attempts,         \* SCHEDULED_ATTEMPTS
    MaxEdits,         \* bound: edits of rows
    MaxFaults         \* bound: faults of each kind

Faults == {"crash", "failure", "outage"}

ASSUME ScheduledAssumption ==
    /\ NoRow \notin Rows /\ Rows \cap {"free", "gone", "message"} = {}
    /\ FilesOf \in [Clients -> SUBSET Uploads] /\ Carried \subseteq [Rows -> Clients]
    /\ {Batch, Attempts} \subseteq Nat \ {0}
    /\ MaxEdits \in Nat /\ MaxFaults \in [Faults -> Nat]

VARIABLES
    scheduled,  \* the rows
    thread,     \* the messages of the author in the conversation, in order of seq
    uploads,    \* what each upload is bound to
    standing,   \* of the author: a member who may write, one who may not, no member
    creating,   \* rows inserted by a request that has not bound its files yet
    discards,   \* uploads a cancellation under way has left to remove
    job,        \* the process and its pass over the rows
    told,       \* rows whose failure was notified
    edits, faults

author == <<creating, discards, edits>>
vars == <<scheduled, thread, uploads, standing, job, told, author, faults>>

Texts == {"written", "edited"}
Closed == {"sent", "failed", "cancelled", "removed"}
States == {"none", "pending", "sending"} \cup Closed
Row == [client : Clients, text : Texts, state : States, due : BOOLEAN, attempts : 0..Attempts, sent : Nat]
Message == [client : Clients, text : Texts, row : Rows]
Holders == {"free", "gone", "message"} \cup Rows
Working == {"lookup", "checks", "insert", "finish", "tell"}
Job == [pc : {"off", "boot", "idle", "drain", "next"} \cup Working,
        todo : SUBSET Rows, full : BOOLEAN, row : Rows \cup {NoRow},
        taken : [Rows -> Texts], verdict : {"none", "pending", "sent", "failed"},
        seq : Nat, held : SUBSET Rows]

\* The process between two passes, before its first one, or down.
At(pc) == [pc |-> pc, todo |-> {}, full |-> FALSE, row |-> NoRow,
           taken |-> [r \in Rows |-> "written"], verdict |-> "none", seq |-> 0, held |-> {}]

TypeOK ==
    /\ scheduled \in [Rows -> Row] /\ thread \in Seq(Message)
    /\ uploads \in [Uploads -> Holders] /\ standing \in {"in", "muted", "out"}
    /\ creating \subseteq Rows /\ discards \subseteq Uploads
    /\ job \in Job /\ told \subseteq Rows
    /\ edits \in 0..MaxEdits
    /\ faults \in [Faults -> Nat] /\ \A k \in Faults : faults[k] <= MaxFaults[k]

Init ==
    /\ \E client \in Carried :
        scheduled = [r \in Rows |-> [client |-> client[r], text |-> "written", state |-> "none",
                                     due |-> FALSE, attempts |-> 0, sent |-> 0]]
    /\ thread = <<>> /\ uploads = [u \in Uploads |-> "free"] /\ standing = "in"
    /\ creating = {} /\ discards = {}
    /\ job = At("boot") /\ told = {}
    /\ edits = 0 /\ faults = [k \in Faults |-> 0]

State(r) == scheduled[r].state
Files(r) == FilesOf[scheduled[r].client]
Due == {r \in Rows : State(r) = "pending" /\ scheduled[r].due}
Up == job.pc # "off"

\* Mutant: the client_id of a message is not looked for.
SeqOfNone(client) == 0
\* The message of a client_id, deleted or not; 0 when there is none.
SeqOf(client) ==
    LET at == {i \in DOMAIN thread : thread[i].client = client}
    IN  IF at = {} THEN 0 ELSE CHOOSE i \in at : TRUE

SetRow(r, row) == scheduled' = [scheduled EXCEPT ![r] = row]
Fault(k) == faults[k] < MaxFaults[k] /\ faults' = [faults EXCEPT ![k] = @ + 1]

---------------------------------------------------------------------------
(* The author.  A row is edited and cancelled by its id, which the answer  *)
(* of its creation carries.                                                *)

FilesFree(r) == \A u \in Files(r) : uploads[u] = "free"

Schedule(r) ==
    /\ Up /\ State(r) = "none" /\ standing = "in" /\ FilesFree(r)
    /\ SetRow(r, [scheduled[r] EXCEPT !.state = "pending"])
    /\ creating' = creating \cup {r}
    /\ UNCHANGED <<thread, uploads, standing, job, told, discards, edits, faults>>

\* All the files or none; without them the row is taken back.
BindFiles(r) ==
    /\ r \in creating /\ creating' = creating \ {r}
    /\ IF FilesFree(r)
       THEN /\ uploads' = [u \in Uploads |-> IF u \in Files(r) THEN r ELSE uploads[u]]
            /\ UNCHANGED scheduled
       ELSE /\ SetRow(r, [scheduled[r] EXCEPT !.state = "removed"])
            /\ UNCHANGED uploads
    /\ UNCHANGED <<thread, standing, job, told, discards, edits, faults>>

\* Mutant: the statement that edits and cancels forgets that the row may be claimed.
MayChangeClaimed(r) == State(r) \in {"pending", "sending"}

MayChange(r) == State(r) = "pending"

Edit(r) ==
    /\ Up /\ MayChange(r) /\ r \notin creating /\ standing # "out" /\ edits < MaxEdits
    /\ \E text \in Texts, later \in BOOLEAN :
        SetRow(r, [scheduled[r] EXCEPT !.text = text, !.due = @ /\ ~later])
    /\ edits' = edits + 1
    /\ UNCHANGED <<thread, uploads, standing, job, told, creating, discards, faults>>

Cancel(r) ==
    /\ Up /\ MayChange(r) /\ r \notin creating
    /\ SetRow(r, [scheduled[r] EXCEPT !.state = "cancelled"])
    /\ discards' = discards \cup {u \in Files(r) : uploads[u] # "gone"}
    /\ UNCHANGED <<thread, uploads, standing, job, told, creating, edits, faults>>

\* The file and its row go, whatever the row is bound to by now.
Discard(u) ==
    /\ u \in discards /\ discards' = discards \ {u}
    /\ uploads' = [uploads EXCEPT ![u] = "gone"]
    /\ UNCHANGED <<scheduled, thread, standing, job, told, creating, edits, faults>>

\* Mutant: an upload is removed without looking at what it is bound to.
MayDeleteBound(u) == uploads[u] # "gone"

MayDelete(u) == uploads[u] = "free"

\* delete_chat_upload, and the pass over the uploads nobody bound in a day.
UploadGoes(u) ==
    /\ MayDelete(u) /\ Up /\ uploads' = [uploads EXCEPT ![u] = "gone"]
    /\ UNCHANGED <<scheduled, thread, standing, job, told, author, faults>>

\* Others silence the author, take them out of the conversation or bring them back.
ChangeStanding ==
    /\ standing' \in {"in", "muted", "out"} \ {standing}
    /\ UNCHANGED <<scheduled, thread, uploads, job, told, author, faults>>

\* A pass compares send_at with the time it began.
TimeComes(r) ==
    /\ job.pc \in {"off", "boot", "idle"} /\ State(r) = "pending" /\ r \notin creating
    /\ ~scheduled[r].due /\ SetRow(r, [scheduled[r] EXCEPT !.due = TRUE])
    /\ UNCHANGED <<thread, uploads, standing, job, told, author, faults>>

---------------------------------------------------------------------------
(* The pass.                                                               *)

Unclaimed(rs) == [r \in Rows |-> IF r \in rs /\ State(r) = "sending"
                                 THEN [scheduled[r] EXCEPT !.state = "pending"] ELSE scheduled[r]]
Claimed(rs) == [r \in Rows |-> IF r \in rs THEN [scheduled[r] EXCEPT !.state = "sending"] ELSE scheduled[r]]

\* What an earlier process left claimed.
ReleasedAtStart == Unclaimed(Rows)

FirstPass ==
    /\ job.pc = "boot" /\ job' = At("idle")
    /\ scheduled' = ReleasedAtStart
    /\ UNCHANGED <<thread, uploads, standing, told, author, faults>>

Taken == {rs \in SUBSET Due : rs # {} /\ (rs = Due \/ Cardinality(rs) = Batch) /\ Cardinality(rs) <= Batch}

Claim ==
    /\ job.pc \in {"idle", "drain"}
    /\ \E rs \in Taken :
        /\ scheduled' = Claimed(rs)
        /\ job' = [job EXCEPT !.pc = "next", !.todo = rs, !.full = (Cardinality(rs) = Batch),
                              !.taken = [r \in Rows |-> IF r \in rs THEN scheduled[r].text ELSE "written"]]
    /\ UNCHANGED <<thread, uploads, standing, told, author, faults>>

\* A full batch is followed by another one.
BatchEnds ==
    /\ \/ job.pc = "next" /\ job.todo = {}
       \/ job.pc = "drain" /\ Due = {}
    /\ job' = IF job.pc = "next" /\ job.full THEN [job EXCEPT !.pc = "drain"] ELSE At("idle")
    /\ UNCHANGED <<scheduled, thread, uploads, standing, told, author, faults>>

Concludes(verdict, seq) == job' = [job EXCEPT !.pc = "finish", !.verdict = verdict, !.seq = seq]
GoesOn(pc) == job' = [job EXCEPT !.pc = pc]
NextRow(held) == job' = [job EXCEPT !.pc = "next", !.row = NoRow, !.verdict = "none", !.seq = 0,
                              !.taken[job.row] = "written",
                              !.held = @ \cup held]

\* The author and their membership are read.
Begin(r) ==
    /\ job.pc = "next" /\ r \in job.todo
    /\ job' = [job EXCEPT !.row = r, !.todo = @ \ {r},
                          !.pc = IF standing = "out" THEN "finish" ELSE "lookup",
                          !.verdict = IF standing = "out" THEN "failed" ELSE "none"]
    /\ UNCHANGED <<scheduled, thread, uploads, standing, told, author, faults>>

Lookup ==
    /\ job.pc = "lookup"
    /\ LET seq == SeqOf(scheduled[job.row].client)
       IN  IF seq # 0 THEN Concludes("sent", seq) ELSE GoesOn("checks")
    /\ UNCHANGED <<scheduled, thread, uploads, standing, told, author, faults>>

MaySend(r) == standing = "in" /\ \A u \in Files(r) : uploads[u] \in {"free", r}

Deny ==
    /\ job.pc = "checks" /\ ~MaySend(job.row)
    /\ Concludes("failed", 0)
    /\ UNCHANGED <<scheduled, thread, uploads, standing, told, author, faults>>

Accept ==
    /\ job.pc = "checks" /\ MaySend(job.row)
    /\ GoesOn("insert")
    /\ UNCHANGED <<scheduled, thread, uploads, standing, told, author, faults>>

\* Mutant: any answer that is no error counts as sent.
AfterLimitSent(r) == "sent"

AfterLimit(r) == IF scheduled[r].attempts + 1 < Attempts THEN "pending" ELSE "failed"

\* The slow mode and the rate of sending answer 429 for as long as they please.
Limit ==
    /\ job.pc = "checks" /\ MaySend(job.row)
    /\ Concludes(AfterLimit(job.row), 0)
    /\ UNCHANGED <<scheduled, thread, uploads, standing, told, author, faults>>

\* Mutant: the message goes without the client_id of the request.
NewMessageNameless(r) == [client |-> "", text |-> job.taken[r], row |-> r]

NewMessage(r) == [client |-> scheduled[r].client, text |-> job.taken[r], row |-> r]

\* A client_id that is taken gives the message that has it.
Insert ==
    /\ job.pc = "insert"
    /\ LET r == job.row
           seq == SeqOf(NewMessage(r).client)
       IN  IF seq # 0 THEN Concludes("sent", seq) /\ UNCHANGED <<thread, uploads>>
           ELSE /\ thread' = Append(thread, NewMessage(r))
                /\ uploads' = [u \in Uploads |-> IF u \in Files(r) /\ uploads[u] \in {"free", r}
                                                 THEN "message" ELSE uploads[u]]
                /\ Concludes("sent", Len(thread'))
    /\ UNCHANGED <<scheduled, standing, told, author, faults>>

\* Mutant: the attempts are not written.
NotCounted(r) == scheduled[r].attempts

Counted(r) == scheduled[r].attempts + 1
\* Mutant: send_at is not moved when the server asks to wait.
StillDueAlways(r) == scheduled[r].due

StillDue(r) == scheduled[r].due /\ job.verdict # "pending"
\* Mutant: a refusal is written and nobody is told.
AfterFinishSilent == NextRow({})

AfterFinish == IF job.verdict = "failed" THEN GoesOn("tell")
               ELSE NextRow(IF job.verdict = "pending" THEN {job.row} ELSE {})

Finish ==
    /\ job.pc = "finish"
    /\ LET r == job.row
       IN  IF State(r) = "sending"
           THEN SetRow(r, [scheduled[r] EXCEPT !.state = job.verdict, !.sent = job.seq,
                                               !.attempts = Counted(r), !.due = StillDue(r)])
           ELSE UNCHANGED scheduled
    /\ AfterFinish
    /\ UNCHANGED <<thread, uploads, standing, told, author, faults>>

Tell ==
    /\ job.pc = "tell" /\ told' = told \cup {job.row} /\ NextRow({})
    /\ UNCHANGED <<scheduled, thread, uploads, standing, author, faults>>

\* Mutant: the row that failed is not let go.
NotReleased(r) == scheduled

Released(r) == Unclaimed({r})

\* A statement of send_scheduled fails: the row is let go and the next one follows.
SendFails ==
    /\ job.pc \in Working /\ Fault("failure")
    /\ scheduled' = Released(job.row) /\ NextRow({})
    /\ UNCHANGED <<thread, uploads, standing, told, author>>

\* The database does not answer: letting go fails too, and the pass is over.
PassFails ==
    /\ job.pc \in Working /\ Fault("outage")
    /\ job' = At("idle")
    /\ UNCHANGED <<scheduled, thread, uploads, standing, told, author>>

\* The claim is committed and its answer is lost.
ClaimLost ==
    /\ job.pc \in {"idle", "drain"} /\ Fault("outage")
    /\ \E rs \in Taken : scheduled' = Claimed(rs)
    /\ job' = At("idle")
    /\ UNCHANGED <<thread, uploads, standing, told, author>>

Crash ==
    /\ Up /\ Fault("crash")
    /\ job' = At("off") /\ creating' = {} /\ discards' = {}
    /\ UNCHANGED <<scheduled, thread, uploads, standing, told, edits>>

Start ==
    /\ ~Up /\ job' = At("boot")
    /\ UNCHANGED <<scheduled, thread, uploads, standing, told, author, faults>>

JobStep ==
    \/ FirstPass \/ Claim \/ BatchEnds \/ Lookup \/ Deny \/ Accept \/ Limit
    \/ Insert \/ Finish \/ Tell \/ Start
    \/ \E r \in Rows : Begin(r)

Next ==
    \/ JobStep
    \/ \E r \in Rows : Schedule(r) \/ BindFiles(r) \/ Edit(r) \/ Cancel(r) \/ TimeComes(r)
    \/ \E u \in Uploads : Discard(u) \/ UploadGoes(u)
    \/ ChangeStanding
    \/ SendFails \/ PassFails \/ ClaimLost \/ Crash

\* The interval goes on ticking, the process is started again, time passes and
\* a request that has begun goes on; nothing else is owed.
Fairness ==
    /\ WF_vars(JobStep)
    /\ \A r \in Rows : WF_vars(BindFiles(r)) /\ WF_vars(TimeComes(r))

Spec == Init /\ [][Next]_vars /\ Fairness

---------------------------------------------------------------------------
(* Properties.                                                             *)

Undisturbed == \A k \in Faults : faults[k] = 0

\* Whatever fails, dies and is tried again, a request is one message: neither
\* its row nor its client_id is in the thread twice (chat_message_by_client_id
\* and the unique index behind chat_insert_message).
SentOnce ==
    \A i, j \in DOMAIN thread :
        thread[i].client = thread[j].client \/ thread[i].row = thread[j].row => i = j

\* A row that says it was sent names a message of its own request.
SentIsInThread ==
    \A r \in Rows : State(r) = "sent" =>
        /\ scheduled[r].sent \in DOMAIN thread
        /\ thread[scheduled[r].sent].client = scheduled[r].client

\* No row stays claimed with nobody at it: the pass has it in its hands, or the
\* process has not released yet what an earlier one left, unless the pass was cut
\* short where it cannot let go (chat-jobs.ts: send_due_scheduled, close_pending_jobs).
NothingStuck ==
    \A r \in Rows : State(r) = "sending" =>
        \/ job.pc \in {"off", "boot"}
        \/ r \in job.todo
        \/ job.pc \in Working /\ job.row = r
        \/ faults["outage"] > 0

\* A row that was answered 429 is not taken again by the same pass, which would
\* spend its attempts at once (send_scheduled).
WaitsItsTurn == job.held \cap (job.todo \cup (IF job.pc \in {"lookup", "checks", "insert"} THEN {job.row} ELSE {})) = {}

\* Whoever's message is refused is told, unless something broke in between.
RefusedIsTold ==
    \A r \in Rows : State(r) = "failed" /\ Undisturbed =>
        r \in told \/ (job.pc = "tell" /\ job.row = r)

\* What was cancelled is not in the thread and what was sent has the last text,
\* while nothing breaks: the author and the pass never both have the row.
CancelledIsGone == \A i \in DOMAIN thread : State(thread[i].row) # "cancelled"
AuthorIsHeard ==
    Undisturbed =>
        /\ CancelledIsGone
        /\ \A i \in DOMAIN thread : thread[i].text = scheduled[thread[i].row].text

\* A message keeps its files, while nothing breaks: what a cancellation, a deletion
\* and the cleaning of unbound uploads remove is never in the thread.
FilesKept ==
    Undisturbed => \A i \in DOMAIN thread : \A u \in FilesOf[thread[i].client] : uploads[u] = "message"

\* ChatScheduled implements ChatOutbox: whatever is claimed, tried again, edited or
\* lost in a crash, a row waits until it is delivered, refused or withdrawn, and a
\* request is posted once, for a row that waits, before the row says so.
BoxOf(r) ==
    CASE State(r) = "none" -> "unasked"
      [] State(r) \in {"pending", "sending"} -> "waiting"
      [] State(r) = "sent" -> "delivered"
      [] State(r) = "failed" -> "refused"
      [] State(r) \in {"cancelled", "removed"} -> "withdrawn"
Outbox == INSTANCE ChatOutbox WITH
    box <- [r \in Rows |-> BoxOf(r)],
    of  <- [r \in Rows |-> scheduled[r].client],
    log <- [i \in DOMAIN thread |-> thread[i].client]
Refinement == Outbox!Spec

\* Nobody changes a row that is sent, refused or cancelled: not its author, not
\* the pass and not the release at the start.
ClosedStaysClosed ==
    [][\A r \in Rows : State(r) \in Closed => scheduled'[r] = scheduled[r]]_vars

\* Every scheduled message is sent, refused or cancelled in the end, however often
\* the server asks to wait, and after any crash (SCHEDULED_ATTEMPTS, close_pending_jobs).
Settles ==
    \A r \in Rows : State(r) = "pending" ~> (State(r) \in Closed \/ faults["outage"] > 0)
=============================================================================
