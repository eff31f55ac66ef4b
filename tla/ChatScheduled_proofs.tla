------------------------ MODULE ChatScheduled_proofs ------------------------
(***************************************************************************)
(* What holds of the scheduled messages for any number of rows, requests,  *)
(* files and faults.                                                       *)
(***************************************************************************)
EXTENDS ChatScheduled, SequenceTheorems, TLAPS

\* The rows the pass has claimed and not finished.
InHand == job.todo \cup {r \in Rows : job.pc \in Working \ {"tell"} /\ r = job.row}

HandsOK ==
    /\ job.pc \in Working => job.row \in Rows /\ job.row \notin job.todo
    /\ job.pc \notin Working \cup {"next"} => job.todo = {}
    /\ \A r \in InHand : State(r) = "sending" /\ job.taken[r] = scheduled[r].text /\ scheduled[r].due
    /\ job.pc = "tell" => State(job.row) = "failed"
    /\ \A r \in job.held : ~scheduled[r].due
    /\ job.pc \in {"off", "boot", "idle"} => job.held = {}

CreatingOK ==
    /\ \A r \in creating : State(r) = "pending" /\ ~scheduled[r].due
    /\ \A r \in Rows : State(r) = "none" => ~scheduled[r].due

CountingOK ==
    /\ \A r \in Rows : State(r) \in {"none", "pending", "sending"} => scheduled[r].attempts < Attempts
    /\ job.pc = "finish" /\ job.verdict = "pending" => scheduled[job.row].attempts + 1 < Attempts

VerdictOK ==
    job.pc = "finish" =>
        /\ job.verdict # "none"
        /\ job.verdict = "sent" =>
            job.seq \in DOMAIN thread /\ thread[job.seq].client = scheduled[job.row].client

ThreadOK ==
    /\ \A i \in DOMAIN thread : thread[i].client = scheduled[thread[i].row].client
    /\ \A i, j \in DOMAIN thread : thread[i].client = thread[j].client => i = j
    /\ SentIsInThread

\* The row whose message is in the thread and which is about to say so.
Finishing(r) == job.pc = "finish" /\ job.row = r /\ job.verdict = "sent"

\* While nothing has broken.
CalmOK ==
    Undisturbed =>
        /\ \A i \in DOMAIN thread :
            /\ State(thread[i].row) = "sent" \/ Finishing(thread[i].row)
            /\ thread[i].text = scheduled[thread[i].row].text
            /\ \A u \in FilesOf[thread[i].client] : uploads[u] = "message"
        /\ \A r \in Rows \ creating : State(r) \in {"pending", "sending"} =>
            Finishing(r) \/ \A u \in Files(r) : uploads[u] = r
        /\ \A u \in discards : uploads[u] \in Rows /\ State(uploads[u]) = "cancelled"
        /\ RefusedIsTold

IInv ==
    /\ TypeOK /\ HandsOK /\ CreatingOK /\ CountingOK /\ VerdictOK /\ ThreadOK
    /\ NothingStuck /\ CalmOK

---------------------------------------------------------------------------
(* What the helpers of the steps leave.                                    *)

\* A step changes at most the state of the row, and what it says of its message.
StateOnly(r) ==
    /\ scheduled'[r].client = scheduled[r].client /\ scheduled'[r].text = scheduled[r].text
    /\ scheduled'[r].attempts = scheduled[r].attempts /\ scheduled'[r].due = scheduled[r].due
    /\ scheduled'[r].sent = scheduled[r].sent

LEMMA AtOK ==
  ASSUME NEW pc \in {"off", "boot", "idle"}
  PROVE  /\ At(pc) \in Job
         /\ At(pc).pc = pc /\ At(pc).todo = {} /\ At(pc).held = {}
  BY DEF At, Job, Texts

LEMMA SetRowOK ==
  ASSUME scheduled \in [Rows -> Row], NEW r \in Rows, NEW row \in Row, SetRow(r, row)
  PROVE  /\ scheduled' \in [Rows -> Row] /\ scheduled'[r] = row
         /\ \A q \in Rows : q # r => scheduled'[q] = scheduled[q]
  BY DEF SetRow

LEMMA UnclaimedOK ==
  ASSUME scheduled \in [Rows -> Row], NEW rs, scheduled' = Unclaimed(rs)
  PROVE  /\ scheduled' \in [Rows -> Row]
         /\ \A r \in Rows :
             /\ StateOnly(r)
             /\ scheduled'[r].state = IF r \in rs /\ State(r) = "sending" THEN "pending" ELSE State(r)
<1>1. \A r \in Rows : [scheduled[r] EXCEPT !.state = "pending"] \in Row
  BY DEF Row, States
<1>2. scheduled' \in [Rows -> Row]
  BY <1>1 DEF Unclaimed
<1>3. ASSUME NEW r \in Rows
      PROVE  StateOnly(r) /\ scheduled'[r].state = IF r \in rs /\ State(r) = "sending" THEN "pending" ELSE State(r)
  <2>1. CASE r \in rs /\ State(r) = "sending"
    <3>1. scheduled'[r] = [scheduled[r] EXCEPT !.state = "pending"]
      BY <2>1 DEF Unclaimed
    <3>. QED  BY <2>1, <3>1 DEF Row, StateOnly
  <2>2. CASE ~(r \in rs /\ State(r) = "sending")
    <3>1. scheduled'[r] = scheduled[r]
      BY <2>2 DEF Unclaimed
    <3>. QED  BY <2>2, <3>1 DEF StateOnly, State
  <2>. QED  BY <2>1, <2>2
<1>. QED  BY <1>2, <1>3

LEMMA ClaimedOK ==
  ASSUME scheduled \in [Rows -> Row], NEW rs, scheduled' = Claimed(rs)
  PROVE  /\ scheduled' \in [Rows -> Row]
         /\ \A r \in Rows :
             /\ StateOnly(r)
             /\ scheduled'[r].state = IF r \in rs THEN "sending" ELSE State(r)
<1>1. \A r \in Rows : [scheduled[r] EXCEPT !.state = "sending"] \in Row
  BY DEF Row, States
<1>2. scheduled' \in [Rows -> Row]
  BY <1>1 DEF Claimed
<1>3. ASSUME NEW r \in Rows
      PROVE  StateOnly(r) /\ scheduled'[r].state = IF r \in rs THEN "sending" ELSE State(r)
  <2>1. CASE r \in rs
    <3>1. scheduled'[r] = [scheduled[r] EXCEPT !.state = "sending"]
      BY <2>1 DEF Claimed
    <3>. QED  BY <2>1, <3>1 DEF Row, StateOnly
  <2>2. CASE r \notin rs
    <3>1. scheduled'[r] = scheduled[r]
      BY <2>2 DEF Claimed
    <3>. QED  BY <2>2, <3>1 DEF StateOnly, State
  <2>. QED  BY <2>1, <2>2
<1>. QED  BY <1>2, <1>3

LEMMA GoesOnOK ==
  ASSUME job \in Job, NEW pc \in {"checks", "insert", "tell"}, GoesOn(pc)
  PROVE  /\ job' \in Job /\ job'.pc = pc
         /\ job'.todo = job.todo /\ job'.row = job.row /\ job'.taken = job.taken
         /\ job'.held = job.held /\ job'.verdict = job.verdict /\ job'.seq = job.seq
  BY DEF GoesOn, Job, Working

LEMMA ConcludesOK ==
  ASSUME job \in Job, NEW verdict \in {"pending", "sent", "failed"}, NEW seq \in Nat, Concludes(verdict, seq)
  PROVE  /\ job' \in Job /\ job'.pc = "finish" /\ job'.verdict = verdict /\ job'.seq = seq
         /\ job'.todo = job.todo /\ job'.row = job.row /\ job'.taken = job.taken /\ job'.held = job.held
  BY DEF Concludes, Job, Working

LEMMA NextRowOK ==
  ASSUME job \in Job, job.row \in Rows, NEW held \in SUBSET Rows, NextRow(held)
  PROVE  /\ job' \in Job /\ job'.pc = "next"
         /\ job'.todo = job.todo /\ job'.held = job.held \cup held
         /\ \A r \in Rows : r # job.row => job'.taken[r] = job.taken[r]
<1>1. [job.taken EXCEPT ![job.row] = "written"] \in [Rows -> Texts]
  BY DEF Job, Texts
<1>2. job' = [job EXCEPT !.pc = "next", !.row = NoRow, !.verdict = "none", !.seq = 0,
                         !.taken = [job.taken EXCEPT ![job.row] = "written"], !.held = job.held \cup held]
  BY DEF NextRow, Job
<1>. HIDE DEF NextRow
<1>. QED  BY <1>1, <1>2 DEF Job, Working

LEMMA ElementOK == ASSUME NEW S, NEW s \in Seq(S), NEW i \in DOMAIN s PROVE s[i] \in S
  OBVIOUS

LEMMA ThreadKept ==
  ASSUME TypeOK, ThreadOK, thread' = thread,
         \A r \in Rows : scheduled'[r].client = scheduled[r].client,
         \A r \in Rows : scheduled'[r].state = "sent" =>
            State(r) = "sent" /\ scheduled'[r].sent = scheduled[r].sent
  PROVE  ThreadOK'
<1>1. \A i \in DOMAIN thread : thread[i].row \in Rows
  <2>1. \A i \in DOMAIN thread : thread[i] \in Message
    BY ElementOK DEF TypeOK
  <2>. QED  BY <2>1 DEF Message
<1>. QED  BY <1>1 DEF ThreadOK, SentIsInThread, State

LEMMA FaultOK ==
  ASSUME TypeOK, NEW k \in Faults, Fault(k)
  PROVE  /\ faults' \in [Faults -> Nat] /\ \A l \in Faults : faults'[l] <= MaxFaults[l]
         /\ ~Undisturbed' /\ CalmOK'
<1>1. faults \in [Faults -> Nat] /\ faults[k] \in Nat /\ MaxFaults[k] \in Nat
  BY ScheduledAssumption DEF TypeOK
<1>2. faults' = [faults EXCEPT ![k] = faults[k] + 1] /\ faults[k] < MaxFaults[k]
  BY DEF Fault
<1>3. faults' \in [Faults -> Nat] /\ faults'[k] = faults[k] + 1
  BY <1>1, <1>2
<1>4. \A l \in Faults : faults'[l] <= MaxFaults[l]
  BY <1>1, <1>2, ScheduledAssumption DEF TypeOK
<1>5. ~Undisturbed'
  BY <1>1, <1>3 DEF Undisturbed
<1>. QED  BY <1>3, <1>4, <1>5 DEF CalmOK

LEMMA TypesOK ==
  ASSUME TypeOK
  PROVE  /\ job \in Job /\ scheduled \in [Rows -> Row]
         /\ job.todo \in SUBSET Rows /\ job.held \in SUBSET Rows /\ job.taken \in [Rows -> Texts]
         /\ job.seq \in Nat /\ job.row \in Rows \cup {NoRow}
         /\ \A i \in DOMAIN thread : thread[i].row \in Rows /\ thread[i].client \in Clients
         /\ \A r \in Rows : scheduled[r].client \in Clients /\ scheduled[r].attempts \in 0..Attempts
                            /\ scheduled[r].due \in BOOLEAN
<1>1. \A i \in DOMAIN thread : thread[i].row \in Rows /\ thread[i].client \in Clients
  <2>1. \A i \in DOMAIN thread : thread[i] \in Message
    BY ElementOK DEF TypeOK
  <2>. QED  BY <2>1 DEF Message
<1>2. job \in Job /\ scheduled \in [Rows -> Row]
  BY DEF TypeOK
<1>. QED  BY <1>1, <1>2 DEF Job, Row

---------------------------------------------------------------------------
(* The author.                                                             *)

\* A row that is not in the hands of the pass changes, and keeps its request.
LEMMA AuthorRow ==
  ASSUME IInv, NEW r \in Rows, NEW row \in Row, SetRow(r, row),
         thread' = thread, job' = job, faults' = faults,
         State(r) \in {"none", "pending"}, row.state \in {"pending", "cancelled", "removed"},
         row.client = scheduled[r].client, row.attempts = scheduled[r].attempts,
         row.due => r \notin job.held
  PROVE  /\ scheduled' \in [Rows -> Row] /\ scheduled'[r] = row
         /\ \A q \in Rows : q # r => scheduled'[q] = scheduled[q]
         /\ HandsOK' /\ CountingOK' /\ VerdictOK' /\ ThreadOK' /\ NothingStuck'
<1>1. TypeOK /\ HandsOK /\ CountingOK /\ VerdictOK /\ ThreadOK /\ NothingStuck
  BY DEF IInv
<1>2. job \in Job /\ scheduled \in [Rows -> Row] /\ job.todo \in SUBSET Rows /\ job.held \in SUBSET Rows
  BY <1>1, TypesOK
<1>3. /\ scheduled' \in [Rows -> Row] /\ scheduled'[r] = row
      /\ \A q \in Rows : q # r => scheduled'[q] = scheduled[q]
  BY <1>2, SetRowOK
<1>4. HandsOK'
  <2>1. r \notin InHand /\ InHand' = InHand /\ InHand \subseteq Rows
    BY <1>1, <1>2 DEF HandsOK, InHand, State
  <2>2. \A q \in InHand : scheduled'[q] = scheduled[q]
    BY <2>1, <1>3
  <2>3. job.pc = "tell" => job.row \in Rows /\ job.row # r
    BY <1>1 DEF HandsOK, State, Working
  <2>4. \A q \in job.held : ~scheduled'[q].due
    BY <1>1, <1>2, <1>3 DEF HandsOK
  <2>. QED  BY <1>1, <1>3, <2>1, <2>2, <2>3, <2>4 DEF HandsOK, State
<1>5. CountingOK'
  <2>1. \A q \in Rows : scheduled'[q].attempts = scheduled[q].attempts
    BY <1>3
  <2>2. \A q \in Rows : scheduled'[q].state \in {"none", "pending", "sending"} => State(q) \in {"none", "pending", "sending"}
    BY <1>3 DEF State
  <2>3. job.pc = "finish" => job.row \in Rows
    BY <1>1 DEF HandsOK, Working
  <2>. QED  BY <1>1, <2>1, <2>2, <2>3 DEF CountingOK, State
<1>6. \A q \in Rows : scheduled'[q].client = scheduled[q].client
  BY <1>3
<1>7. VerdictOK'
  BY <1>1, <1>6 DEF VerdictOK, HandsOK, Working
<1>8. ThreadOK'
  BY <1>1, <1>3, <1>6, ThreadKept DEF State
<1>9. NothingStuck'
  BY <1>1, <1>3 DEF NothingStuck, State
<1>. QED  BY <1>3, <1>4, <1>5, <1>7, <1>8, <1>9

LEMMA ScheduleStep == ASSUME IInv, NEW r \in Rows, Schedule(r) PROVE IInv'
<1> DEFINE row == [scheduled[r] EXCEPT !.state = "pending"]
<1>1. TypeOK /\ CreatingOK /\ CalmOK /\ HandsOK
  BY DEF IInv
<1>2. /\ State(r) = "none" /\ SetRow(r, row) /\ creating' = creating \cup {r}
      /\ UNCHANGED <<thread, uploads, standing, job, told, discards, edits, faults>>
  BY DEF Schedule
<1>3. row \in Row /\ row.state = "pending" /\ row.client = scheduled[r].client /\ row.text = scheduled[r].text
      /\ row.attempts = scheduled[r].attempts /\ row.due = scheduled[r].due /\ row.sent = scheduled[r].sent
  BY <1>1, TypesOK DEF Row, States
<1>4. /\ scheduled' \in [Rows -> Row] /\ scheduled'[r] = row
      /\ \A q \in Rows : q # r => scheduled'[q] = scheduled[q]
      /\ HandsOK' /\ CountingOK' /\ VerdictOK' /\ ThreadOK' /\ NothingStuck'
  BY <1>1, <1>2, <1>3, AuthorRow DEF CreatingOK
<1>5. TypeOK'
  BY <1>1, <1>2, <1>4 DEF TypeOK
<1>6. CreatingOK'
  BY <1>1, <1>2, <1>3, <1>4 DEF CreatingOK, State, TypeOK
<1>7. CalmOK'
  <2>1. \A i \in DOMAIN thread : Undisturbed => thread[i].row \in Rows \ {r}
    BY <1>1, <1>2, TypesOK DEF CalmOK, Finishing, HandsOK, InHand, State, Working
  <2>2. \A q \in Rows \ creating' : q # r /\ q \in Rows \ creating
    BY <1>2
  <2>3. Undisturbed => \A u \in discards : uploads[u] \in Rows \ {r}
    BY <1>1, <1>2 DEF CalmOK
  <2>4. scheduled'[r].state = "pending"
    BY <1>3, <1>4
  <2>. HIDE DEF row
  <2>. QED  BY <1>1, <1>2, <1>4, <2>1, <2>2, <2>3, <2>4 DEF CalmOK, Undisturbed, Finishing, RefusedIsTold, State, Files
<1>. QED  BY <1>4, <1>5, <1>6, <1>7 DEF IInv

LEMMA BindFilesStep == ASSUME IInv, NEW r \in Rows, BindFiles(r) PROVE IInv'
<1> DEFINE row == [scheduled[r] EXCEPT !.state = "removed"]
<1>1. TypeOK /\ CreatingOK /\ CalmOK /\ HandsOK
  BY DEF IInv
<1>2. /\ r \in creating /\ creating' = creating \ {r}
      /\ UNCHANGED <<thread, standing, job, told, discards, edits, faults>>
  BY DEF BindFiles
<1>3. State(r) = "pending"
  BY <1>1, <1>2 DEF CreatingOK
<1>4. \A i \in DOMAIN thread : Undisturbed => thread[i].row \in Rows \ {r}
  BY <1>1, <1>3, TypesOK DEF CalmOK, Finishing, HandsOK, InHand, State, Working
<1>5. CASE FilesFree(r)
  <2>1. scheduled' = scheduled /\ uploads' = [u \in Uploads |-> IF u \in Files(r) THEN r ELSE uploads[u]]
    BY <1>5 DEF BindFiles
  <2>2. TypeOK'
    BY <1>1, <1>2, <2>1 DEF TypeOK, Holders
  <2>3. HandsOK' /\ CreatingOK' /\ CountingOK' /\ VerdictOK' /\ ThreadOK' /\ NothingStuck'
    BY <1>2, <2>1 DEF IInv, HandsOK, InHand, CreatingOK, CountingOK, VerdictOK, ThreadOK, SentIsInThread,
        NothingStuck, State
  <2>4. CalmOK'
    <3>1. SUFFICES ASSUME Undisturbed' PROVE CalmOK'
      BY DEF CalmOK
    <3>2. Undisturbed
      BY <1>2, <3>1 DEF Undisturbed
    <3>3. \A q \in Rows : Files(q) \in SUBSET Uploads
      BY <1>1, TypesOK, ScheduledAssumption DEF Files
    <3>4. \A u \in Uploads : uploads[u] # "free" => uploads'[u] = uploads[u]
      BY <1>5, <2>1 DEF FilesFree
    <3>5. \A i \in DOMAIN thread : FilesOf[thread[i].client] \in SUBSET Uploads
      BY <1>1, TypesOK, ScheduledAssumption
    <3>6. \A u \in discards : uploads[u] \in Rows /\ State(uploads[u]) = "cancelled" /\ u \in Uploads
      BY <1>1, <3>2 DEF CalmOK, TypeOK
    <3>7. \A u \in discards : uploads'[u] = uploads[u]
      BY <3>4, <3>6, ScheduledAssumption
    <3>8. \A i \in DOMAIN thread : \A u \in FilesOf[thread[i].client] : uploads'[u] = "message"
      BY <1>1, <3>2, <3>4, <3>5 DEF CalmOK
    <3>9. \A q \in Rows \ creating' : State(q) \in {"pending", "sending"} =>
             Finishing(q) \/ \A u \in Files(q) : uploads'[u] = q
      <4>1. SUFFICES ASSUME NEW q \in Rows \ creating', State(q) \in {"pending", "sending"}, ~Finishing(q),
                            NEW u \in Files(q)
                     PROVE  uploads'[u] = q
        OBVIOUS
      <4>2. CASE q = r
        BY <2>1, <3>3, <4>2
      <4>3. CASE q # r
        <5>1. uploads[u] = q
          BY <1>1, <1>2, <3>2, <4>1, <4>3 DEF CalmOK
        <5>. QED  BY <3>3, <3>4, <5>1, ScheduledAssumption
      <4>. QED  BY <4>2, <4>3
    <3>. QED  BY <1>1, <1>2, <2>1, <3>2, <3>6, <3>7, <3>8, <3>9
              DEF CalmOK, Finishing, RefusedIsTold, State, Files, Undisturbed
  <2>. QED  BY <2>2, <2>3, <2>4 DEF IInv
<1>6. CASE ~FilesFree(r)
  <2>1. SetRow(r, row) /\ uploads' = uploads
    BY <1>6 DEF BindFiles
  <2>2. row \in Row /\ row.state = "removed" /\ row.client = scheduled[r].client /\ row.text = scheduled[r].text
        /\ row.attempts = scheduled[r].attempts /\ row.due = scheduled[r].due /\ row.sent = scheduled[r].sent
    BY <1>1, TypesOK DEF Row, States, Closed
  <2>3. /\ scheduled' \in [Rows -> Row] /\ scheduled'[r] = row
        /\ \A q \in Rows : q # r => scheduled'[q] = scheduled[q]
        /\ HandsOK' /\ CountingOK' /\ VerdictOK' /\ ThreadOK' /\ NothingStuck'
    BY <1>1, <1>2, <1>3, <2>1, <2>2, AuthorRow DEF CreatingOK
  <2>4. TypeOK'
    BY <1>1, <1>2, <2>1, <2>3 DEF TypeOK
  <2>5. CreatingOK'
    BY <1>1, <1>2, <2>2, <2>3 DEF CreatingOK, State, TypeOK
  <2>6. CalmOK'
    <3>1. scheduled'[r].state = "removed"
      BY <2>2, <2>3
    <3>2. Undisturbed => \A u \in discards : uploads[u] \in Rows \ {r}
      BY <1>1, <1>3 DEF CalmOK
    <3>3. \A q \in Rows \ creating' : q # r => q \in Rows \ creating
      BY <1>2
    <3>. HIDE DEF row
    <3>. QED  BY <1>1, <1>2, <1>4, <2>1, <2>3, <3>1, <3>2, <3>3
              DEF CalmOK, Undisturbed, Finishing, RefusedIsTold, State, Files
  <2>. QED  BY <2>3, <2>4, <2>5, <2>6 DEF IInv
<1>. QED  BY <1>5, <1>6

LEMMA EditStep == ASSUME IInv, NEW r \in Rows, Edit(r) PROVE IInv'
<1>1. TypeOK /\ CreatingOK /\ CalmOK /\ HandsOK
  BY DEF IInv
<1>2. /\ State(r) = "pending" /\ r \notin creating /\ edits < MaxEdits /\ edits' = edits + 1
      /\ UNCHANGED <<thread, uploads, standing, job, told, creating, discards, faults>>
  BY DEF Edit, MayChange
<1>3. PICK text \in Texts, later \in BOOLEAN :
         SetRow(r, [scheduled[r] EXCEPT !.text = text, !.due = scheduled[r].due /\ ~later])
  BY <1>1, TypesOK DEF Edit, Row
<1> DEFINE row == [scheduled[r] EXCEPT !.text = text, !.due = scheduled[r].due /\ ~later]
<1>4. row \in Row /\ row.state = "pending" /\ row.client = scheduled[r].client
      /\ row.attempts = scheduled[r].attempts /\ (row.due => scheduled[r].due)
  BY <1>1, <1>2, TypesOK DEF Row, State
<1>5. row.due => r \notin job.held
  BY <1>1, <1>4 DEF HandsOK
<1>. HIDE DEF row
<1>6. /\ scheduled' \in [Rows -> Row] /\ scheduled'[r] = row
      /\ \A q \in Rows : q # r => scheduled'[q] = scheduled[q]
      /\ HandsOK' /\ CountingOK' /\ VerdictOK' /\ ThreadOK' /\ NothingStuck'
  <2>1. SetRow(r, row)
    BY <1>3 DEF row
  <2>. QED  BY <1>2, <1>4, <1>5, <2>1, AuthorRow
<1>7. TypeOK'
  BY <1>1, <1>2, <1>6, ScheduledAssumption DEF TypeOK
<1>8. CreatingOK'
  BY <1>1, <1>2, <1>4, <1>6 DEF CreatingOK, State, TypeOK
<1>9. CalmOK'
  <2>1. \A i \in DOMAIN thread : Undisturbed => thread[i].row \in Rows \ {r}
    BY <1>1, <1>2, TypesOK DEF CalmOK, Finishing, HandsOK, InHand, State, Working
  <2>. QED  BY <1>1, <1>2, <1>4, <1>6, <2>1 DEF CalmOK, Undisturbed, Finishing, RefusedIsTold, State, Files
<1>. QED  BY <1>6, <1>7, <1>8, <1>9 DEF IInv

LEMMA CancelStep == ASSUME IInv, NEW r \in Rows, Cancel(r) PROVE IInv'
<1> DEFINE row == [scheduled[r] EXCEPT !.state = "cancelled"]
<1>1. TypeOK /\ CreatingOK /\ CalmOK /\ HandsOK
  BY DEF IInv
<1>2. /\ State(r) = "pending" /\ r \notin creating /\ SetRow(r, row)
      /\ discards' = discards \cup {u \in Files(r) : uploads[u] # "gone"}
      /\ UNCHANGED <<thread, uploads, standing, job, told, creating, edits, faults>>
  BY DEF Cancel, MayChange
<1>3. row \in Row /\ row.state = "cancelled" /\ row.client = scheduled[r].client /\ row.text = scheduled[r].text
      /\ row.attempts = scheduled[r].attempts /\ row.due = scheduled[r].due /\ row.sent = scheduled[r].sent
  BY <1>1, TypesOK DEF Row, States, Closed
<1>4. row.due => r \notin job.held
  BY <1>1, <1>3 DEF HandsOK
<1>. HIDE DEF row
<1>5. /\ scheduled' \in [Rows -> Row] /\ scheduled'[r] = row
      /\ \A q \in Rows : q # r => scheduled'[q] = scheduled[q]
      /\ HandsOK' /\ CountingOK' /\ VerdictOK' /\ ThreadOK' /\ NothingStuck'
  BY <1>2, <1>3, <1>4, AuthorRow
<1>6. Files(r) \in SUBSET Uploads
  BY <1>1, TypesOK, ScheduledAssumption DEF Files
<1>7. TypeOK'
  BY <1>1, <1>2, <1>5, <1>6 DEF TypeOK
<1>8. CreatingOK'
  BY <1>1, <1>2, <1>3, <1>5 DEF CreatingOK, State, TypeOK
<1>9. CalmOK'
  <2>1. SUFFICES ASSUME Undisturbed' PROVE CalmOK'
    BY DEF CalmOK
  <2>2. Undisturbed
    BY <1>2, <2>1 DEF Undisturbed
  <2>3. ~Finishing(r) /\ \A u \in Files(r) : uploads[u] = r
    BY <1>1, <1>2, <2>2 DEF CalmOK, Finishing, HandsOK, InHand, State, Working
  <2>4. \A i \in DOMAIN thread : thread[i].row \in Rows \ {r}
    BY <1>1, <1>2, <2>2, <2>3, TypesOK DEF CalmOK, State
  <2>5. \A u \in discards' : uploads[u] \in Rows /\ scheduled'[uploads[u]].state = "cancelled"
    BY <1>1, <1>2, <1>3, <1>5, <2>2, <2>3 DEF CalmOK, State
  <2>. QED  BY <1>1, <1>2, <1>3, <1>5, <2>2, <2>4, <2>5 DEF CalmOK, Undisturbed, Finishing, RefusedIsTold, State, Files
<1>. QED  BY <1>5, <1>7, <1>8, <1>9 DEF IInv

LEMMA TimeComesStep == ASSUME IInv, NEW r \in Rows, TimeComes(r) PROVE IInv'
<1> DEFINE row == [scheduled[r] EXCEPT !.due = TRUE]
<1>1. TypeOK /\ CreatingOK /\ CalmOK /\ HandsOK
  BY DEF IInv
<1>2. /\ job.pc \in {"off", "boot", "idle"} /\ State(r) = "pending" /\ r \notin creating /\ SetRow(r, row)
      /\ UNCHANGED <<thread, uploads, standing, job, told, author, faults>>
  BY DEF TimeComes
<1>3. row \in Row /\ row.state = "pending" /\ row.client = scheduled[r].client /\ row.text = scheduled[r].text
      /\ row.attempts = scheduled[r].attempts /\ row.sent = scheduled[r].sent
  BY <1>1, <1>2, TypesOK DEF Row, State
<1>4. r \notin job.held
  BY <1>1, <1>2 DEF HandsOK
<1>. HIDE DEF row
<1>5. /\ scheduled' \in [Rows -> Row] /\ scheduled'[r] = row
      /\ \A q \in Rows : q # r => scheduled'[q] = scheduled[q]
      /\ HandsOK' /\ CountingOK' /\ VerdictOK' /\ ThreadOK' /\ NothingStuck'
  BY <1>2, <1>3, <1>4, AuthorRow
<1>6. TypeOK'
  BY <1>1, <1>2, <1>5 DEF TypeOK, author
<1>7. CreatingOK'
  BY <1>1, <1>2, <1>3, <1>5 DEF CreatingOK, State, TypeOK, author
<1>8. CalmOK'
  BY <1>1, <1>2, <1>3, <1>5, TypesOK DEF CalmOK, Undisturbed, Finishing, RefusedIsTold, State, Files, author
<1>. QED  BY <1>5, <1>6, <1>7, <1>8 DEF IInv

\* What moves only the uploads or the standing of the author.
LEMMA OthersStep ==
  ASSUME IInv, \/ ChangeStanding \/ \E u \in Uploads : Discard(u) \/ UploadGoes(u)
  PROVE  IInv'
<1>1. TypeOK /\ CalmOK
  BY DEF IInv
<1>2. UNCHANGED <<scheduled, thread, job, told, creating, edits, faults>>
  BY DEF ChangeStanding, Discard, UploadGoes, author
<1>3. /\ uploads' \in [Uploads -> Holders] /\ discards' \in SUBSET discards
      /\ standing' \in {"in", "muted", "out"}
  BY <1>1 DEF TypeOK, ChangeStanding, Discard, UploadGoes, author, Holders
<1>4. TypeOK'
  BY <1>1, <1>2, <1>3 DEF TypeOK
<1>5. HandsOK' /\ CreatingOK' /\ CountingOK' /\ VerdictOK' /\ ThreadOK' /\ NothingStuck'
  BY <1>2 DEF IInv, HandsOK, InHand, CreatingOK, CountingOK, VerdictOK, ThreadOK, SentIsInThread,
      NothingStuck, State
<1>6. CalmOK'
  <2>1. SUFFICES ASSUME Undisturbed' PROVE CalmOK'
    BY DEF CalmOK
  <2>2. Undisturbed
    BY <1>2, <2>1 DEF Undisturbed
  <2>3. CASE uploads' = uploads
    BY <1>1, <1>2, <1>3, <2>2, <2>3 DEF CalmOK, Undisturbed, Finishing, RefusedIsTold, State, Files
  <2>4. CASE \E u \in Uploads : Discard(u) \/ UploadGoes(u)
    <3>1. PICK v \in Uploads : Discard(v) \/ UploadGoes(v)
      BY <2>4
    <3>2. /\ uploads' = [uploads EXCEPT ![v] = "gone"]
          /\ \/ uploads[v] = "free" /\ discards' = discards
             \/ v \in discards /\ discards' = discards \ {v}
      BY <3>1 DEF Discard, UploadGoes, MayDelete, author
    <3>3. uploads[v] = "free" \/ (uploads[v] \in Rows /\ State(uploads[v]) = "cancelled")
      BY <1>1, <2>2, <3>2 DEF CalmOK
    <3>4. uploads[v] # "message"
      BY <3>3, ScheduledAssumption
    <3>5. \A r \in Rows : State(r) \in {"pending", "sending"} => uploads[v] # r
      BY <3>3, ScheduledAssumption
    <3>6. \A u \in discards' : u # v
      BY <1>1, <2>2, <3>2, ScheduledAssumption DEF CalmOK
    <3>7. \A u \in Uploads : u # v => uploads'[u] = uploads[u]
      BY <1>1, <3>2 DEF TypeOK
    <3>8. /\ \A r \in Rows : Files(r) \in SUBSET Uploads
          /\ \A i \in DOMAIN thread : FilesOf[thread[i].client] \in SUBSET Uploads
      BY <1>1, TypesOK, ScheduledAssumption DEF Files
    <3>9. \A u \in discards' : uploads'[u] = uploads[u] /\ u \in discards
      BY <1>1, <1>3, <3>6, <3>7 DEF TypeOK
    <3>10. \A i \in DOMAIN thread : \A u \in FilesOf[thread[i].client] : uploads'[u] = "message"
      BY <1>1, <2>2, <3>4, <3>7, <3>8 DEF CalmOK
    <3>11. \A r \in Rows \ creating : State(r) \in {"pending", "sending"} =>
             Finishing(r) \/ \A u \in Files(r) : uploads'[u] = r
      BY <1>1, <2>2, <3>5, <3>7, <3>8 DEF CalmOK
    <3>. QED  BY <1>1, <1>2, <2>2, <3>9, <3>10, <3>11
              DEF CalmOK, Undisturbed, Finishing, RefusedIsTold, State, Files
  <2>. QED  BY <2>3, <2>4 DEF ChangeStanding
<1>. QED  BY <1>4, <1>5, <1>6 DEF IInv

---------------------------------------------------------------------------
(* The pass.                                                               *)

\* A step of the pass that touches neither the rows nor what is in the thread.
LEMMA JobOnly ==
  ASSUME IInv, UNCHANGED <<scheduled, thread, uploads, standing, author, faults>>,
         job' \in Job, told' \in SUBSET Rows, HandsOK', VerdictOK',
         job'.pc = "finish" /\ job'.verdict = "pending" => scheduled[job'.row].attempts + 1 < Attempts,
         NothingStuck', CalmOK'
  PROVE  IInv'
<1>1. TypeOK'
  BY DEF IInv, TypeOK, author
<1>2. CreatingOK' /\ CountingOK' /\ ThreadOK'
  BY DEF IInv, CreatingOK, CountingOK, ThreadOK, SentIsInThread, State, author
<1>. QED  BY <1>1, <1>2 DEF IInv

\* While nothing has broken, a step keeps that if no row that was about to say
\* it is in the thread is forgotten and no refusal goes untold.
LEMMA CalmKept ==
  ASSUME IInv, UNCHANGED <<scheduled, thread, uploads, author, faults>>,
         \A r \in Rows : Finishing(r) => Finishing(r)',
         RefusedIsTold'
  PROVE  CalmOK'
<1>1. TypeOK /\ CalmOK
  BY DEF IInv
<1>2. \A i \in DOMAIN thread : thread[i].row \in Rows
  BY <1>1, TypesOK
<1>3. creating' = creating /\ discards' = discards
  BY DEF author
<1>4. SUFFICES ASSUME Undisturbed' PROVE CalmOK'
  BY DEF CalmOK
<1>5. Undisturbed
  BY <1>4 DEF Undisturbed
<1>6. \A i \in DOMAIN thread :
        /\ State(thread[i].row) = "sent" \/ Finishing(thread[i].row)'
        /\ thread[i].text = scheduled[thread[i].row].text
        /\ \A u \in FilesOf[thread[i].client] : uploads[u] = "message"
  BY <1>1, <1>2, <1>5 DEF CalmOK
<1>7. \A r \in Rows \ creating : State(r) \in {"pending", "sending"} =>
        Finishing(r)' \/ \A u \in Files(r) : uploads[u] = r
  BY <1>1, <1>5 DEF CalmOK
<1>8. \A u \in discards : uploads[u] \in Rows /\ State(uploads[u]) = "cancelled"
  BY <1>1, <1>5 DEF CalmOK
<1>. QED  BY <1>3, <1>6, <1>7, <1>8 DEF CalmOK, State, Files

LEMMA BatchEndsStep == ASSUME IInv, BatchEnds PROVE IInv'
<1>1. TypeOK /\ HandsOK /\ NothingStuck /\ CalmOK /\ job \in Job
  BY TypesOK DEF IInv
<1>2. /\ job.pc \in {"next", "drain"} /\ job.todo = {}
      /\ UNCHANGED <<scheduled, thread, uploads, standing, told, author, faults>>
  BY <1>1 DEF BatchEnds, HandsOK, Working
<1>3. job' \in Job /\ job'.pc \in {"idle", "drain"} /\ job'.todo = {} /\ (job'.held = {} \/ job'.held = job.held)
      /\ (job'.pc = "idle" => job'.held = {})
  <2>1. CASE job' = At("idle")
    BY <2>1, AtOK
  <2>2. CASE job' = [job EXCEPT !.pc = "drain"]
    BY <1>1, <1>2, <2>2 DEF Job
  <2>. QED  BY <2>1, <2>2 DEF BatchEnds
<1>4. HandsOK' /\ VerdictOK' /\ NothingStuck'
  BY <1>1, <1>2, <1>3 DEF HandsOK, InHand, VerdictOK, NothingStuck, State, Working
<1>5. RefusedIsTold' /\ \A r \in Rows : ~Finishing(r)
  BY <1>1, <1>2 DEF RefusedIsTold, CalmOK, Undisturbed, Finishing, State
<1>6. CalmOK'
  BY <1>2, <1>5, CalmKept
<1>. QED  BY <1>1, <1>2, <1>3, <1>4, <1>6, JobOnly DEF TypeOK

LEMMA BeginStep == ASSUME IInv, NEW r \in Rows, Begin(r) PROVE IInv'
<1>1. TypeOK /\ HandsOK /\ NothingStuck /\ CalmOK /\ job \in Job
  BY TypesOK DEF IInv
<1>2. /\ job.pc = "next" /\ r \in job.todo
      /\ UNCHANGED <<scheduled, thread, uploads, standing, told, author, faults>>
  BY DEF Begin
<1>3. /\ job' \in Job /\ job'.row = r /\ job'.todo = job.todo \ {r} /\ job'.taken = job.taken /\ job'.held = job.held
      /\ job'.pc \in {"finish", "lookup"} /\ (job'.pc = "finish" => job'.verdict = "failed")
  BY <1>1 DEF Begin, Job, Working
<1>4. HandsOK' /\ VerdictOK' /\ NothingStuck'
  BY <1>1, <1>2, <1>3 DEF HandsOK, InHand, VerdictOK, NothingStuck, State, Working
<1>5. RefusedIsTold' /\ \A q \in Rows : ~Finishing(q)
  BY <1>1, <1>2 DEF RefusedIsTold, CalmOK, Undisturbed, Finishing, State
<1>6. CalmOK'
  BY <1>2, <1>5, CalmKept
<1>. QED  BY <1>1, <1>2, <1>3, <1>4, <1>6, JobOnly DEF TypeOK

\* A step that goes on with the row in hand.
LEMMA RowStep ==
  ASSUME IInv, UNCHANGED <<scheduled, thread, uploads, standing, told, author, faults>>,
         job.pc \in {"lookup", "checks"},
         \/ \E pc \in {"checks", "insert"} : GoesOn(pc)
         \/ \E verdict \in {"pending", "sent", "failed"}, seq \in Nat :
              /\ Concludes(verdict, seq)
              /\ verdict = "pending" => scheduled[job.row].attempts + 1 < Attempts
              /\ verdict = "sent" => seq \in DOMAIN thread /\ thread[seq].client = scheduled[job.row].client
  PROVE  IInv'
<1>1. TypeOK /\ HandsOK /\ NothingStuck /\ CalmOK /\ job \in Job
  BY TypesOK DEF IInv
<1>2. /\ job' \in Job /\ job'.row = job.row /\ job'.todo = job.todo /\ job'.taken = job.taken /\ job'.held = job.held
      /\ job'.pc \in {"checks", "insert", "finish"}
      /\ job'.pc = "finish" =>
           /\ job'.verdict # "none"
           /\ job'.verdict = "pending" => scheduled[job.row].attempts + 1 < Attempts
           /\ job'.verdict = "sent" => job'.seq \in DOMAIN thread /\ thread[job'.seq].client = scheduled[job.row].client
  <2>1. ASSUME NEW pc \in {"checks", "insert"}, GoesOn(pc) PROVE <1>2!:
    BY <1>1, <2>1, GoesOnOK
  <2>2. ASSUME NEW verdict \in {"pending", "sent", "failed"}, NEW seq \in Nat, Concludes(verdict, seq),
               verdict = "pending" => scheduled[job.row].attempts + 1 < Attempts,
               verdict = "sent" => seq \in DOMAIN thread /\ thread[seq].client = scheduled[job.row].client
        PROVE  <1>2!:
    BY <1>1, <2>2, ConcludesOK
  <2>. QED  BY <2>1, <2>2
<1>3. HandsOK' /\ VerdictOK' /\ NothingStuck'
  BY <1>1, <1>2 DEF HandsOK, InHand, VerdictOK, NothingStuck, State, Working
<1>4. RefusedIsTold' /\ \A q \in Rows : ~Finishing(q)
  BY <1>1 DEF RefusedIsTold, CalmOK, Undisturbed, Finishing, State
<1>5. CalmOK'
  BY <1>4, CalmKept
<1>. QED  BY <1>1, <1>2, <1>3, <1>5, JobOnly DEF TypeOK

LEMMA SeqOfOK ==
  ASSUME TypeOK, NEW client
  PROVE  /\ SeqOf(client) \in Nat
         /\ SeqOf(client) # 0 => SeqOf(client) \in DOMAIN thread /\ thread[SeqOf(client)].client = client
         /\ SeqOf(client) = 0 => \A i \in DOMAIN thread : thread[i].client # client
<1>1. DOMAIN thread \in SUBSET (Nat \ {0})
  BY DEF TypeOK
<1>. QED  BY <1>1 DEF SeqOf

LEMMA LookupStep == ASSUME IInv, Lookup PROVE IInv'
<1>1. TypeOK
  BY DEF IInv
<1> DEFINE seq == SeqOf(scheduled[job.row].client)
<1>2. seq \in Nat /\ (seq # 0 => seq \in DOMAIN thread /\ thread[seq].client = scheduled[job.row].client)
  BY <1>1, SeqOfOK
<1>3. /\ job.pc = "lookup" /\ UNCHANGED <<scheduled, thread, uploads, standing, told, author, faults>>
      /\ (seq # 0 /\ Concludes("sent", seq)) \/ GoesOn("checks")
  BY DEF Lookup
<1>. HIDE DEF seq
<1>. QED  BY <1>2, <1>3, RowStep

LEMMA ChecksStep == ASSUME IInv, Deny \/ Accept \/ Limit PROVE IInv'
<1>1. job.pc = "checks" /\ UNCHANGED <<scheduled, thread, uploads, standing, told, author, faults>>
  BY DEF Deny, Accept, Limit
<1>2. GoesOn("insert") \/ Concludes("failed", 0)
      \/ (Concludes("pending", 0) /\ scheduled[job.row].attempts + 1 < Attempts)
  BY DEF Deny, Accept, Limit, AfterLimit
<1>. QED  BY <1>1, <1>2, RowStep

LEMMA TellStep == ASSUME IInv, Tell PROVE IInv'
<1>1. TypeOK /\ HandsOK /\ NothingStuck /\ CalmOK /\ job \in Job
  BY TypesOK DEF IInv
<1>2. /\ job.pc = "tell" /\ told' = told \cup {job.row} /\ NextRow({})
      /\ UNCHANGED <<scheduled, thread, uploads, standing, author, faults>>
  BY DEF Tell
<1>3. job.row \in Rows /\ job.row \notin job.todo /\ State(job.row) = "failed"
  BY <1>1, <1>2 DEF HandsOK, Working
<1>4. /\ job' \in Job /\ job'.pc = "next" /\ job'.todo = job.todo /\ job'.held = job.held
      /\ \A r \in Rows : r # job.row => job'.taken[r] = job.taken[r]
  BY <1>1, <1>2, <1>3, NextRowOK
<1>5. job.todo \in SUBSET Rows
  BY <1>1 DEF Job
<1>6. HandsOK'
  BY <1>1, <1>2, <1>3, <1>4, <1>5 DEF HandsOK, InHand, State, Working
<1>7. VerdictOK' /\ NothingStuck'
  BY <1>1, <1>2, <1>3, <1>4 DEF VerdictOK, NothingStuck, State, Working
<1>8. RefusedIsTold' /\ \A q \in Rows : ~Finishing(q)
  BY <1>1, <1>2 DEF RefusedIsTold, CalmOK, Undisturbed, Finishing, State
<1>9. CalmOK'
  BY <1>2, <1>8, CalmKept
<1>. QED  BY <1>1, <1>2, <1>3, <1>4, <1>6, <1>7, <1>9, JobOnly DEF TypeOK

\* The process goes down, comes up or gives the pass up; rows stay as they are.
LEMMA ProcessStep == ASSUME IInv, PassFails \/ Crash \/ Start PROVE IInv'
<1>1. TypeOK /\ HandsOK /\ NothingStuck /\ CalmOK /\ job \in Job
  BY TypesOK DEF IInv
<1>2. /\ UNCHANGED <<scheduled, thread, uploads, standing, told, edits>>
      /\ creating' \in SUBSET creating /\ discards' \in SUBSET discards
  BY DEF PassFails, Crash, Start, author
<1>3. PICK pc \in {"off", "boot", "idle"} : job' = At(pc)
  BY DEF PassFails, Crash, Start
<1>4. job' \in Job /\ job'.pc \in {"off", "boot", "idle"} /\ job'.todo = {} /\ job'.held = {}
  BY <1>3, AtOK
<1>5. /\ faults' \in [Faults -> Nat] /\ \A k \in Faults : faults'[k] <= MaxFaults[k]
      /\ CalmOK'
  <2>1. CASE PassFails \/ Crash
    BY <1>1, <2>1, FaultOK DEF PassFails, Crash, Faults
  <2>2. CASE Start
    <3>1. RefusedIsTold' /\ \A r \in Rows : ~Finishing(r)
      BY <1>1, <2>2 DEF Start, Up, RefusedIsTold, CalmOK, Undisturbed, Finishing, State
    <3>. QED  BY <1>1, <2>2, <3>1, CalmKept DEF Start, TypeOK
  <2>. QED  BY <2>1, <2>2
<1>6. TypeOK'
  BY <1>1, <1>2, <1>4, <1>5 DEF TypeOK
<1>7. HandsOK' /\ VerdictOK' /\ CreatingOK' /\ CountingOK' /\ ThreadOK'
  BY <1>2, <1>4 DEF IInv, HandsOK, InHand, VerdictOK, CreatingOK, CountingOK, ThreadOK, SentIsInThread, State, Working
<1>8. NothingStuck'
  <2>1. CASE Crash \/ Start
    BY <2>1, AtOK DEF Crash, Start, NothingStuck
  <2>2. CASE PassFails
    <3>1. faults["outage"] \in Nat /\ faults' = [faults EXCEPT !["outage"] = faults["outage"] + 1]
      BY <1>1, <2>2 DEF PassFails, Fault, TypeOK, Faults
    <3>2. faults'["outage"] > 0
      BY <1>1, <3>1 DEF TypeOK, Faults
    <3>. QED  BY <3>2 DEF NothingStuck
  <2>. QED  BY <2>1, <2>2
<1>. QED  BY <1>5, <1>6, <1>7, <1>8 DEF IInv

LEMMA FirstPassStep == ASSUME IInv, FirstPass PROVE IInv'
<1>1. TypeOK /\ HandsOK /\ CreatingOK /\ CountingOK /\ ThreadOK /\ CalmOK /\ job \in Job /\ scheduled \in [Rows -> Row]
  BY TypesOK DEF IInv
<1>2. /\ job.pc = "boot" /\ UNCHANGED <<thread, uploads, standing, told, author, faults>>
      /\ creating' = creating /\ discards' = discards /\ edits' = edits
  BY DEF FirstPass, author
<1>3. job' \in Job /\ job'.pc = "idle" /\ job'.todo = {} /\ job'.held = {}
  BY AtOK DEF FirstPass
<1>4. /\ scheduled' \in [Rows -> Row]
      /\ \A r \in Rows : StateOnly(r) /\ scheduled'[r].state = IF State(r) = "sending" THEN "pending" ELSE State(r)
  <2>1. scheduled' = Unclaimed(Rows)
    BY DEF FirstPass, ReleasedAtStart
  <2>. QED  BY <1>1, <2>1, UnclaimedOK
<1>5. TypeOK'
  BY <1>1, <1>2, <1>3, <1>4 DEF TypeOK
<1>6. HandsOK' /\ VerdictOK' /\ CreatingOK'
  BY <1>1, <1>2, <1>3, <1>4 DEF HandsOK, InHand, VerdictOK, CreatingOK, StateOnly, State, Working, TypeOK
<1>7. CountingOK' /\ NothingStuck'
  BY <1>1, <1>3, <1>4 DEF CountingOK, NothingStuck, StateOnly, State
<1>8. ThreadOK'
  BY <1>1, <1>2, <1>4, ThreadKept DEF StateOnly, State
<1>9. CalmOK'
  <2>1. \A i \in DOMAIN thread : thread[i].row \in Rows
    BY <1>1, TypesOK
  <2>. QED  BY <1>1, <1>2, <1>3, <1>4, <2>1 DEF CalmOK, Undisturbed, Finishing, RefusedIsTold, StateOnly, State, Files
<1>. QED  BY <1>5, <1>6, <1>7, <1>8, <1>9 DEF IInv

\* Whether the claim is answered or not.
LEMMA ClaimedRows ==
  ASSUME IInv, NEW rs \in Taken, scheduled' = Claimed(rs), job.pc \in {"idle", "drain"},
         UNCHANGED <<thread, uploads, standing, told, author>>
  PROVE  /\ rs \in SUBSET Rows /\ \A r \in rs : State(r) = "pending" /\ scheduled[r].due /\ r \notin creating
         /\ scheduled' \in [Rows -> Row]
         /\ \A r \in Rows : StateOnly(r) /\ scheduled'[r].state = IF r \in rs THEN "sending" ELSE State(r)
         /\ CreatingOK' /\ ThreadOK'
         /\ \A r \in Rows : scheduled'[r].state \in {"none", "pending", "sending"} => scheduled'[r].attempts < Attempts
         /\ \A r \in job.held : ~scheduled'[r].due
<1>1. TypeOK /\ HandsOK /\ CreatingOK /\ CountingOK /\ ThreadOK /\ scheduled \in [Rows -> Row] /\ job.held \in SUBSET Rows
  BY TypesOK DEF IInv
<1>2. rs \in SUBSET Rows /\ \A r \in rs : State(r) = "pending" /\ scheduled[r].due /\ r \notin creating
  BY <1>1 DEF Taken, Due, CreatingOK
<1>3. /\ scheduled' \in [Rows -> Row]
      /\ \A r \in Rows : StateOnly(r) /\ scheduled'[r].state = IF r \in rs THEN "sending" ELSE State(r)
  BY <1>1, ClaimedOK
<1>4. CreatingOK'
  BY <1>1, <1>2, <1>3 DEF CreatingOK, StateOnly, State, author, TypeOK
<1>5. ThreadOK'
  BY <1>1, <1>3, ThreadKept DEF StateOnly, State
<1>6. \A r \in Rows : scheduled'[r].state \in {"none", "pending", "sending"} => scheduled'[r].attempts < Attempts
  BY <1>1, <1>2, <1>3 DEF CountingOK, StateOnly, State
<1>7. \A r \in job.held : ~scheduled'[r].due
  BY <1>1, <1>3 DEF HandsOK, StateOnly
<1>. QED  BY <1>2, <1>3, <1>4, <1>5, <1>6, <1>7

LEMMA ClaimStep == ASSUME IInv, Claim PROVE IInv'
<1>1. TypeOK /\ HandsOK /\ NothingStuck /\ CalmOK /\ job \in Job /\ scheduled \in [Rows -> Row]
  BY TypesOK DEF IInv
<1>2. /\ job.pc \in {"idle", "drain"} /\ UNCHANGED <<thread, uploads, standing, told, author, faults>>
      /\ creating' = creating /\ discards' = discards /\ edits' = edits
  BY DEF Claim, author
<1>3. PICK rs \in Taken :
        /\ scheduled' = Claimed(rs)
        /\ job' = [job EXCEPT !.pc = "next", !.todo = rs, !.full = (Cardinality(rs) = Batch),
                              !.taken = [r \in Rows |-> IF r \in rs THEN scheduled[r].text ELSE "written"]]
  BY DEF Claim
<1>4. /\ rs \in SUBSET Rows /\ \A r \in rs : State(r) = "pending" /\ scheduled[r].due /\ r \notin creating
      /\ scheduled' \in [Rows -> Row]
      /\ \A r \in Rows : StateOnly(r) /\ scheduled'[r].state = IF r \in rs THEN "sending" ELSE State(r)
      /\ CreatingOK' /\ ThreadOK'
      /\ \A r \in Rows : scheduled'[r].state \in {"none", "pending", "sending"} => scheduled'[r].attempts < Attempts
      /\ \A r \in job.held : ~scheduled'[r].due
  BY <1>2, <1>3, ClaimedRows
<1>5. /\ job' \in Job /\ job'.pc = "next" /\ job'.todo = rs /\ job'.held = job.held
      /\ \A r \in rs : job'.taken[r] = scheduled[r].text
  <2>1. [r \in Rows |-> IF r \in rs THEN scheduled[r].text ELSE "written"] \in [Rows -> Texts]
    BY <1>1 DEF Row, Texts
  <2>2. (Cardinality(rs) = Batch) \in BOOLEAN
    OBVIOUS
  <2>. QED  BY <1>1, <1>3, <1>4, <2>1, <2>2 DEF Job
<1>6. TypeOK'
  BY <1>1, <1>2, <1>4, <1>5 DEF TypeOK
<1>7. HandsOK'
  BY <1>4, <1>5 DEF HandsOK, InHand, StateOnly, State, Working
<1>8. VerdictOK' /\ CountingOK'
  BY <1>4, <1>5 DEF VerdictOK, CountingOK, State
<1>9. NothingStuck'
  <2>1. job.todo = {} /\ job.pc \notin Working
    BY <1>1, <1>2 DEF HandsOK, Working
  <2>. QED  BY <1>1, <1>2, <1>4, <1>5, <2>1 DEF NothingStuck, State
<1>10. CalmOK'
  <2>1. \A i \in DOMAIN thread : thread[i].row \in Rows
    BY <1>1, TypesOK
  <2>2. \A r \in Rows : ~Finishing(r)
    BY <1>2 DEF Finishing
  <2>3. Undisturbed => \A u \in discards : uploads[u] \notin rs
    BY <1>1, <1>4 DEF CalmOK
  <2>4. Undisturbed => \A i \in DOMAIN thread : thread[i].row \notin rs
    BY <1>1, <1>4, <2>2 DEF CalmOK
  <2>5. RefusedIsTold'
    BY <1>1, <1>2, <1>4 DEF RefusedIsTold, CalmOK, Undisturbed, State
  <2>. QED  BY <1>1, <1>2, <1>4, <2>1, <2>2, <2>3, <2>4, <2>5 DEF CalmOK, Undisturbed, StateOnly, State, Files
<1>. QED  BY <1>4, <1>6, <1>7, <1>8, <1>9, <1>10 DEF IInv

LEMMA ClaimLostStep == ASSUME IInv, ClaimLost PROVE IInv'
<1>1. TypeOK /\ job \in Job
  BY TypesOK DEF IInv
<1>2. /\ job.pc \in {"idle", "drain"} /\ Fault("outage") /\ job' = At("idle")
      /\ UNCHANGED <<thread, uploads, standing, told, author>>
      /\ creating' = creating /\ discards' = discards /\ edits' = edits
  BY DEF ClaimLost, author
<1>3. PICK rs \in Taken : scheduled' = Claimed(rs)
  BY DEF ClaimLost
<1>4. /\ scheduled' \in [Rows -> Row] /\ CreatingOK' /\ ThreadOK'
      /\ \A r \in Rows : scheduled'[r].state \in {"none", "pending", "sending"} => scheduled'[r].attempts < Attempts
  BY <1>2, <1>3, ClaimedRows
<1>5. job' \in Job /\ job'.pc = "idle" /\ job'.todo = {} /\ job'.held = {}
  BY <1>2, AtOK
<1>6. /\ faults' \in [Faults -> Nat] /\ \A k \in Faults : faults'[k] <= MaxFaults[k]
      /\ CalmOK'
  BY <1>1, <1>2, FaultOK DEF Faults
<1>7. TypeOK'
  BY <1>1, <1>2, <1>4, <1>5, <1>6 DEF TypeOK
<1>8. HandsOK' /\ VerdictOK' /\ CountingOK'
  BY <1>4, <1>5 DEF HandsOK, InHand, VerdictOK, CountingOK, State, Working
<1>9. NothingStuck'
  <2>1. faults["outage"] \in Nat /\ faults' = [faults EXCEPT !["outage"] = faults["outage"] + 1]
    BY <1>1, <1>2 DEF Fault, TypeOK, Faults
  <2>2. faults'["outage"] > 0
    BY <1>1, <2>1 DEF TypeOK, Faults
  <2>. QED  BY <2>2 DEF NothingStuck
<1>. QED  BY <1>4, <1>6, <1>7, <1>8, <1>9 DEF IInv

LEMMA SendFailsStep == ASSUME IInv, SendFails PROVE IInv'
<1>1. TypeOK /\ HandsOK /\ CreatingOK /\ CountingOK /\ ThreadOK /\ NothingStuck
      /\ job \in Job /\ scheduled \in [Rows -> Row] /\ job.todo \in SUBSET Rows /\ job.held \in SUBSET Rows
  BY TypesOK DEF IInv
<1>2. /\ job.pc \in Working /\ Fault("failure") /\ scheduled' = Unclaimed({job.row}) /\ NextRow({})
      /\ UNCHANGED <<thread, uploads, standing, told, author>>
      /\ creating' = creating /\ discards' = discards /\ edits' = edits
  BY DEF SendFails, Released, author
<1>3. job.row \in Rows /\ job.row \notin job.todo
  BY <1>1, <1>2 DEF HandsOK
<1>4. /\ scheduled' \in [Rows -> Row]
      /\ \A r \in Rows : StateOnly(r)
           /\ scheduled'[r].state = IF r = job.row /\ State(r) = "sending" THEN "pending" ELSE State(r)
  <2>1. /\ scheduled' \in [Rows -> Row]
        /\ \A r \in Rows : StateOnly(r)
             /\ scheduled'[r].state = IF r \in {job.row} /\ State(r) = "sending" THEN "pending" ELSE State(r)
    BY <1>1, <1>2, UnclaimedOK
  <2>. QED  BY <2>1
<1>5. /\ job' \in Job /\ job'.pc = "next" /\ job'.todo = job.todo /\ job'.held = job.held
      /\ \A r \in Rows : r # job.row => job'.taken[r] = job.taken[r]
  BY <1>1, <1>2, <1>3, NextRowOK
<1>6. /\ faults' \in [Faults -> Nat] /\ \A k \in Faults : faults'[k] <= MaxFaults[k]
      /\ CalmOK'
  BY <1>1, <1>2, FaultOK DEF Faults
<1>7. TypeOK'
  BY <1>1, <1>2, <1>4, <1>5, <1>6 DEF TypeOK
<1>8. HandsOK'
  BY <1>1, <1>3, <1>4, <1>5 DEF HandsOK, InHand, StateOnly, State, Working
<1>9. CreatingOK' /\ VerdictOK' /\ CountingOK'
  BY <1>1, <1>2, <1>4, <1>5 DEF CreatingOK, VerdictOK, CountingOK, StateOnly, State, TypeOK
<1>10. ThreadOK'
  BY <1>1, <1>2, <1>4, ThreadKept DEF StateOnly, State
<1>11. NothingStuck'
  <2>1. faults'["outage"] = faults["outage"]
    BY <1>1, <1>2 DEF Fault, TypeOK, Faults
  <2>. QED  BY <1>1, <1>2, <1>4, <1>5, <2>1 DEF NothingStuck, State, Working
<1>. QED  BY <1>6, <1>7, <1>8, <1>9, <1>10, <1>11 DEF IInv

LEMMA InsertStep == ASSUME IInv, Insert PROVE IInv'
<1> DEFINE r == job.row
           seq == SeqOf(scheduled[r].client)
<1>1. TypeOK /\ HandsOK /\ CreatingOK /\ CountingOK /\ ThreadOK /\ NothingStuck /\ CalmOK
      /\ job \in Job /\ scheduled \in [Rows -> Row]
  BY TypesOK DEF IInv
<1>2. job.pc = "insert" /\ UNCHANGED <<scheduled, standing, told, author, faults>>
      /\ creating' = creating /\ discards' = discards /\ edits' = edits
  BY DEF Insert, author
<1>3. r \in Rows /\ State(r) = "sending" /\ job.taken[r] = scheduled[r].text /\ r \notin creating
  BY <1>1, <1>2 DEF HandsOK, InHand, CreatingOK, Working
<1>4. seq \in Nat /\ (seq # 0 => seq \in DOMAIN thread /\ thread[seq].client = scheduled[r].client)
      /\ (seq = 0 => \A i \in DOMAIN thread : thread[i].client # scheduled[r].client)
  BY <1>1, SeqOfOK
<1>5. \A q \in Rows : ~Finishing(q)
  BY <1>2 DEF Finishing
<1>6. \A n \in Nat : Concludes("sent", n) =>
        /\ job' \in Job /\ job'.pc = "finish" /\ job'.verdict = "sent" /\ job'.seq = n
        /\ job'.todo = job.todo /\ job'.row = r /\ job'.taken = job.taken /\ job'.held = job.held
  BY <1>1, ConcludesOK
<1>7. job'.pc = "finish" /\ job'.verdict = "sent" /\ job'.row = r /\ job'.todo = job.todo
      /\ job'.held = job.held /\ job'.taken = job.taken /\ job' \in Job =>
        HandsOK' /\ NothingStuck' /\ CountingOK' /\ CreatingOK' /\ RefusedIsTold' /\ Finishing(r)'
  BY <1>1, <1>2, <1>3 DEF HandsOK, InHand, NothingStuck, CountingOK, CreatingOK, RefusedIsTold, CalmOK,
     Undisturbed, Finishing, State, Working
<1>8. CASE seq # 0
  <2>1. Concludes("sent", seq) /\ UNCHANGED <<thread, uploads>>
    BY <1>8 DEF Insert, NewMessage
  <2>2. /\ job' \in Job /\ job'.pc = "finish" /\ job'.verdict = "sent" /\ job'.seq = seq /\ job'.row = r
        /\ HandsOK' /\ NothingStuck' /\ CountingOK' /\ CreatingOK' /\ RefusedIsTold'
    BY <1>4, <1>6, <1>7, <2>1
  <2>3. VerdictOK'
    BY <1>2, <1>4, <1>8, <2>1, <2>2 DEF VerdictOK
  <2>4. CalmOK'
    BY <1>2, <1>5, <2>1, <2>2, CalmKept
  <2>. QED  BY <1>1, <1>2, <2>1, <2>2, <2>3, <2>4, JobOnly DEF TypeOK, CountingOK
<1>9. CASE seq = 0
  <2> DEFINE new == NewMessage(r)
  <2>1. /\ thread' = Append(thread, new) /\ Concludes("sent", Len(thread'))
        /\ uploads' = [u \in Uploads |-> IF u \in Files(r) /\ uploads[u] \in {"free", r} THEN "message" ELSE uploads[u]]
    BY <1>9 DEF Insert, NewMessage
  <2>2. new \in Message /\ new.client = scheduled[r].client /\ new.text = scheduled[r].text /\ new.row = r
    BY <1>1, <1>3, TypesOK DEF NewMessage, Message, Row
  <2>. HIDE DEF new
  <2>3. /\ thread \in Seq(Message) /\ thread' \in Seq(Message) /\ Len(thread') = Len(thread) + 1 /\ Len(thread) \in Nat
        /\ DOMAIN thread' = DOMAIN thread \cup {Len(thread')} /\ Len(thread') \notin DOMAIN thread
        /\ thread'[Len(thread')] = new /\ \A i \in DOMAIN thread : thread'[i] = thread[i]
    <3>1. thread \in Seq(Message)
      BY <1>1 DEF TypeOK
    <3>. QED  BY <2>1, <2>2, <3>1
  <2>4. /\ job' \in Job /\ job'.pc = "finish" /\ job'.verdict = "sent" /\ job'.seq = Len(thread') /\ job'.row = r
        /\ HandsOK' /\ NothingStuck' /\ CountingOK' /\ CreatingOK' /\ RefusedIsTold' /\ Finishing(r)'
    BY <1>6, <1>7, <2>1, <2>3
  <2>5. uploads' \in [Uploads -> Holders]
    BY <1>1, <2>1 DEF TypeOK, Holders
  <2>6. TypeOK'
    BY <1>1, <1>2, <2>3, <2>4, <2>5 DEF TypeOK
  <2>7. VerdictOK'
    BY <1>2, <2>2, <2>3, <2>4 DEF VerdictOK
  <2>8. ThreadOK'
    <3>1. \A i \in DOMAIN thread : thread[i].row \in Rows
      BY <1>1, TypesOK
    <3>2. \A i \in DOMAIN thread' : thread'[i].client = scheduled[thread'[i].row].client
      BY <1>1, <2>2, <2>3 DEF ThreadOK
    <3>3. \A i, j \in DOMAIN thread' : thread'[i].client = thread'[j].client => i = j
      BY <1>1, <1>4, <1>9, <2>2, <2>3 DEF ThreadOK
    <3>4. SentIsInThread'
      BY <1>1, <1>2, <2>3 DEF ThreadOK, SentIsInThread, State
    <3>. QED  BY <1>2, <3>2, <3>3, <3>4 DEF ThreadOK
  <2>9. CalmOK'
    <3>1. SUFFICES ASSUME Undisturbed' PROVE CalmOK'
      BY DEF CalmOK
    <3>2. Undisturbed
      BY <1>2, <3>1 DEF Undisturbed
    <3>3. \A i \in DOMAIN thread : State(thread[i].row) = "sent"
      BY <1>1, <1>5, <3>2, TypesOK DEF CalmOK
    <3>4. \A u \in Files(r) : uploads[u] = r /\ u \in Uploads
      BY <1>1, <1>3, <1>5, <3>2, TypesOK, ScheduledAssumption DEF CalmOK, Files
    <3>5. \A i \in DOMAIN thread : \A u \in FilesOf[thread[i].client] : uploads[u] = "message" /\ u \in Uploads
      BY <1>1, <3>2, TypesOK, ScheduledAssumption DEF CalmOK
    <3>6. \A u \in Uploads : uploads'[u] = uploads[u] \/ (uploads[u] \in {"free", r} /\ uploads'[u] = "message")
      BY <2>1
    <3>7. \A i \in DOMAIN thread' : \A u \in FilesOf[thread'[i].client] : uploads'[u] = "message"
      <4>1. ASSUME NEW i \in DOMAIN thread, NEW u \in FilesOf[thread[i].client] PROVE uploads'[u] = "message"
        BY <2>1, <3>5, <4>1
      <4>2. \A u \in FilesOf[new.client] : uploads'[u] = "message"
        BY <2>1, <2>2, <3>4 DEF Files
      <4>. QED  BY <2>3, <4>1, <4>2
    <3>8. \A i \in DOMAIN thread' :
            /\ State(thread[i].row)' = "sent" \/ Finishing(thread[i].row)'
            /\ thread'[i].text = scheduled'[thread'[i].row].text
      <4>1. \A i \in DOMAIN thread : thread[i].text = scheduled[thread[i].row].text
        BY <1>1, <3>2 DEF CalmOK
      <4>2. ASSUME NEW i \in DOMAIN thread
            PROVE  State(thread[i].row)' = "sent" /\ thread'[i].text = scheduled'[thread'[i].row].text
        <5>1. thread'[i] = thread[i] /\ scheduled' = scheduled
          BY <1>2, <2>3
        <5>. QED  BY <3>3, <4>1, <5>1 DEF State
      <4>3. ASSUME NEW i \in DOMAIN thread', i = Len(thread')
            PROVE  Finishing(thread[i].row)' /\ thread'[i].text = scheduled'[thread'[i].row].text
        <5>1. thread'[i].row = r /\ thread'[i].text = scheduled'[r].text
          BY <1>2, <2>2, <2>3, <4>3
        <5>. QED  BY <2>4, <5>1 DEF Finishing
      <4>. QED  BY <2>3, <4>2, <4>3
    <3>9. \A q \in Rows \ creating : State(q) \in {"pending", "sending"} =>
            Finishing(q)' \/ \A u \in Files(q) : uploads'[u] = q
      <4>1. SUFFICES ASSUME NEW q \in Rows \ creating, State(q) \in {"pending", "sending"}, q # r, NEW u \in Files(q)
                     PROVE  uploads'[u] = q
        BY <2>4
      <4>2. uploads[u] = q /\ u \in Uploads
        BY <1>1, <1>5, <3>2, <4>1, TypesOK, ScheduledAssumption DEF CalmOK, Files
      <4>. QED  BY <3>6, <4>1, <4>2, ScheduledAssumption
    <3>10. \A u \in discards : uploads'[u] \in Rows /\ State(uploads'[u]) = "cancelled"
      <4>1. \A u \in discards : u \in Uploads /\ uploads[u] \in Rows /\ State(uploads[u]) = "cancelled"
        BY <1>1, <3>2 DEF CalmOK, TypeOK
      <4>2. \A u \in discards : uploads[u] \notin {"free", r}
        BY <1>3, <4>1, ScheduledAssumption
      <4>. QED  BY <3>6, <4>1, <4>2
    <3>11. scheduled' = scheduled /\ creating' = creating /\ discards' = discards
      BY <1>2
    <3>12. /\ \A i \in DOMAIN thread' :
             /\ State(thread[i].row)' = "sent" \/ Finishing(thread[i].row)'
             /\ thread'[i].text = scheduled'[thread'[i].row].text
             /\ \A u \in FilesOf[thread'[i].client] : uploads'[u] = "message"
      BY <3>7, <3>8
    <3>13. \A q \in Rows \ creating' : State(q)' \in {"pending", "sending"} =>
            Finishing(q)' \/ \A u \in Files(q)' : uploads'[u] = q
      BY <3>9, <3>11 DEF State, Files
    <3>14. \A u \in discards' : uploads'[u] \in Rows /\ State(uploads[u])' = "cancelled"
      BY <3>10, <3>11 DEF State
    <3>. QED  BY <2>4, <3>12, <3>13, <3>14 DEF CalmOK
  <2>. QED  BY <2>4, <2>6, <2>7, <2>8, <2>9 DEF IInv
<1>. QED  BY <1>8, <1>9

LEMMA FinishStep == ASSUME IInv, Finish PROVE IInv'
<1> DEFINE r == job.row
           v == job.verdict
           row == [scheduled[r] EXCEPT !.state = v, !.sent = job.seq, !.attempts = Counted(r), !.due = StillDue(r)]
<1>1. TypeOK /\ HandsOK /\ CreatingOK /\ CountingOK /\ ThreadOK /\ VerdictOK /\ NothingStuck /\ CalmOK
      /\ job \in Job /\ scheduled \in [Rows -> Row] /\ job.todo \in SUBSET Rows /\ job.held \in SUBSET Rows
  BY TypesOK DEF IInv
<1>2. job.pc = "finish" /\ UNCHANGED <<thread, uploads, standing, told, author, faults>>
      /\ creating' = creating /\ discards' = discards /\ edits' = edits
  BY DEF Finish, author
<1>3. r \in Rows /\ r \notin job.todo /\ State(r) = "sending" /\ r \notin creating
  BY <1>1, <1>2 DEF HandsOK, InHand, CreatingOK, Working
<1>4. v \in {"pending", "sent", "failed"}
  BY <1>1, <1>2 DEF VerdictOK, Job
<1>5. scheduled[r].attempts + 1 \in 0..Attempts /\ (v = "pending" => scheduled[r].attempts + 1 < Attempts)
  <2>1. scheduled[r].attempts \in 0..Attempts /\ scheduled[r].attempts < Attempts /\ Attempts \in Nat
    BY <1>1, <1>3, TypesOK, ScheduledAssumption DEF CountingOK
  <2>. QED  BY <1>1, <1>2, <2>1 DEF CountingOK
<1>6. /\ row \in Row /\ row.state = v /\ row.client = scheduled[r].client /\ row.text = scheduled[r].text
      /\ row.attempts = scheduled[r].attempts + 1 /\ row.sent = job.seq
      /\ (v = "pending" => ~row.due)
  <2>1. StillDue(r) \in BOOLEAN /\ (v = "pending" => ~StillDue(r)) /\ Counted(r) = scheduled[r].attempts + 1
    BY <1>1, <1>3, TypesOK DEF StillDue, Counted
  <2>2. scheduled[r] \in Row /\ job.seq \in Nat /\ v \in States
    BY <1>1, <1>3, <1>4, TypesOK DEF States, Closed
  <2>. QED  BY <1>5, <2>1, <2>2 DEF Row
<1>7. SetRow(r, row) /\ AfterFinish
  BY <1>2, <1>3 DEF Finish
<1>. HIDE DEF row
<1>8. /\ scheduled' \in [Rows -> Row] /\ scheduled'[r] = row
      /\ \A q \in Rows : q # r => scheduled'[q] = scheduled[q]
  BY <1>1, <1>3, <1>6, <1>7, SetRowOK
<1>9. /\ job' \in Job /\ job'.todo = job.todo
      /\ job'.pc = IF v = "failed" THEN "tell" ELSE "next"
      /\ (v = "failed" => job'.row = r)
      /\ job'.held = job.held \cup (IF v = "pending" THEN {r} ELSE {})
      /\ \A q \in Rows : q # r => job'.taken[q] = job.taken[q]
  <2>1. CASE v = "failed"
    BY <1>1, <1>7, <2>1, GoesOnOK DEF AfterFinish
  <2>2. CASE v # "failed"
    BY <1>1, <1>3, <1>7, <2>2, NextRowOK DEF AfterFinish
  <2>. QED  BY <2>1, <2>2
<1>10. TypeOK'
  BY <1>1, <1>2, <1>8, <1>9 DEF TypeOK
<1>11. HandsOK'
  <2>1. InHand' = job.todo /\ \A q \in job.todo : q # r /\ q \in Rows
    BY <1>1, <1>3, <1>4, <1>9 DEF InHand, Working
  <2>2. \A q \in job.todo : scheduled'[q] = scheduled[q] /\ job'.taken[q] = job.taken[q]
    BY <1>8, <1>9, <2>1
  <2>3. \A q \in InHand' : scheduled'[q].state = "sending" /\ job'.taken[q] = scheduled'[q].text /\ scheduled'[q].due
    BY <1>1, <2>1, <2>2 DEF HandsOK, InHand, State
  <2>4. \A q \in job'.held : ~scheduled'[q].due
    <3>1. r \notin job.held
      <4>1. r \in InHand
        BY <1>2, <1>3 DEF InHand, Working
      <4>. QED  BY <1>1, <4>1 DEF HandsOK
    <3>2. \A q \in job.held : q \in Rows /\ q # r /\ ~scheduled[q].due
      BY <1>1, <3>1 DEF HandsOK
    <3>3. \A q \in job.held : ~scheduled'[q].due
      BY <1>8, <3>2
    <3>4. v = "pending" => ~scheduled'[r].due
      BY <1>6, <1>8
    <3>. QED  BY <1>9, <3>3, <3>4
  <2>. QED  BY <1>3, <1>4, <1>6, <1>8, <1>9, <2>3, <2>4 DEF HandsOK, State, Working
<1>12. CreatingOK'
  BY <1>1, <1>2, <1>3, <1>4, <1>6, <1>8 DEF CreatingOK, State, TypeOK
<1>13. CountingOK' /\ VerdictOK'
  BY <1>1, <1>4, <1>5, <1>6, <1>8, <1>9 DEF CountingOK, VerdictOK, State
<1>14. ThreadOK'
  <2>1. \A i \in DOMAIN thread : thread[i].row \in Rows
    BY <1>1, TypesOK
  <2>2. \A q \in Rows : scheduled'[q].client = scheduled[q].client
    BY <1>6, <1>8
  <2>3. SentIsInThread'
    BY <1>1, <1>2, <1>6, <1>8 DEF ThreadOK, VerdictOK, SentIsInThread, State
  <2>. QED  BY <1>1, <1>2, <2>1, <2>2, <2>3 DEF ThreadOK
<1>15. NothingStuck'
  BY <1>1, <1>2, <1>4, <1>6, <1>8, <1>9 DEF NothingStuck, State, Working
<1>16. CalmOK'
  <2>1. SUFFICES ASSUME Undisturbed' PROVE CalmOK'
    BY DEF CalmOK
  <2>2. Undisturbed
    BY <1>2, <2>1 DEF Undisturbed
  <2>3. \A q \in Rows : scheduled'[q].client = scheduled[q].client /\ scheduled'[q].text = scheduled[q].text
    BY <1>6, <1>8
  <2>4. \A i \in DOMAIN thread : thread[i].row \in Rows
    BY <1>1, TypesOK
  <2>5. \A i \in DOMAIN thread : scheduled'[thread[i].row].state = "sent"
    BY <1>1, <1>6, <1>8, <1>3, <2>2, <2>4 DEF CalmOK, Finishing, State
  <2>6. \A u \in discards : uploads[u] \in Rows \ {r} /\ State(uploads[u]) = "cancelled"
    BY <1>1, <1>3, <2>2 DEF CalmOK
  <2>7. \A q \in Rows \ creating : scheduled'[q].state \in {"pending", "sending"} => \A u \in Files(q) : uploads[u] = q
    BY <1>1, <1>3, <1>4, <1>6, <1>8, <2>2 DEF CalmOK, Finishing, State
  <2>8. RefusedIsTold'
    BY <1>1, <1>2, <1>3, <1>4, <1>6, <1>8, <1>9, <2>2 DEF CalmOK, RefusedIsTold, State
  <2>. QED  BY <1>1, <1>2, <1>8, <2>2, <2>3, <2>4, <2>5, <2>6, <2>7, <2>8 DEF CalmOK, State, Files
<1>. QED  BY <1>10, <1>11, <1>12, <1>13, <1>14, <1>15, <1>16 DEF IInv

---------------------------------------------------------------------------
(* The theorems.                                                           *)

LEMMA InitOK == Init => IInv
<1>1. SUFFICES ASSUME Init PROVE IInv
  OBVIOUS
<1>2. PICK client \in Carried :
        scheduled = [r \in Rows |-> [client |-> client[r], text |-> "written", state |-> "none",
                                     due |-> FALSE, attempts |-> 0, sent |-> 0]]
  BY <1>1 DEF Init
<1>3. client \in [Rows -> Clients] /\ Attempts \in Nat \ {0}
  BY ScheduledAssumption
<1>4. scheduled \in [Rows -> Row]
  BY <1>2, <1>3 DEF Row, Texts, States
<1>5. \A r \in Rows : scheduled[r].state = "none" /\ scheduled[r].attempts = 0 /\ ~scheduled[r].due
  BY <1>2
<1>6. job \in Job /\ job.pc = "boot" /\ job.todo = {} /\ job.held = {}
  BY <1>1, AtOK DEF Init
<1>7. thread = <<>> /\ DOMAIN thread = {} /\ thread \in Seq(Message) /\ discards = {} /\ creating = {}
  BY <1>1 DEF Init
<1>8. faults \in [Faults -> Nat] /\ \A k \in Faults : faults[k] <= MaxFaults[k]
  BY <1>1, ScheduledAssumption DEF Init
<1>9. TypeOK
  BY <1>1, <1>4, <1>6, <1>7, <1>8, ScheduledAssumption DEF TypeOK, Init, Holders
<1>10. HandsOK /\ CreatingOK /\ CountingOK /\ VerdictOK
  BY <1>3, <1>5, <1>6, <1>7 DEF HandsOK, InHand, CreatingOK, CountingOK, VerdictOK, State, Working
<1>11. ThreadOK /\ NothingStuck /\ CalmOK
  BY <1>5, <1>6, <1>7 DEF ThreadOK, SentIsInThread, NothingStuck, CalmOK, RefusedIsTold, State, Files
<1>. QED  BY <1>9, <1>10, <1>11 DEF IInv

LEMMA StutterOK == ASSUME IInv, UNCHANGED vars PROVE IInv'
  BY DEF IInv, vars, author, TypeOK, HandsOK, InHand, CreatingOK, CountingOK, VerdictOK, ThreadOK, SentIsInThread,
     NothingStuck, CalmOK, Undisturbed, Finishing, RefusedIsTold, State, Files

\* The inductive invariant: who holds each row, what the pass is about to say of
\* it, which message is whose, and what stands while nothing has broken.
THEOREM Invariance == Spec => []IInv
<1>1. ASSUME IInv, [Next]_vars PROVE IInv'
  <2>1. CASE JobStep
    BY <1>1, <2>1, FirstPassStep, ClaimStep, BatchEndsStep, LookupStep, ChecksStep, InsertStep, FinishStep,
       TellStep, ProcessStep, BeginStep DEF JobStep
  <2>2. CASE \E r \in Rows : Schedule(r) \/ BindFiles(r) \/ Edit(r) \/ Cancel(r) \/ TimeComes(r)
    BY <1>1, <2>2, ScheduleStep, BindFilesStep, EditStep, CancelStep, TimeComesStep
  <2>3. CASE ChangeStanding \/ \E u \in Uploads : Discard(u) \/ UploadGoes(u)
    BY <1>1, <2>3, OthersStep
  <2>4. CASE SendFails \/ PassFails \/ ClaimLost \/ Crash
    BY <1>1, <2>4, SendFailsStep, ProcessStep, ClaimLostStep
  <2>5. CASE UNCHANGED vars
    BY <1>1, <2>5, StutterOK
  <2>. QED  BY <1>1, <2>1, <2>2, <2>3, <2>4, <2>5 DEF Next
<1>. QED  BY <1>1, InitOK, PTL DEF Spec

\* The types hold for any number of rows, requests, files and faults.
THEOREM TypeCorrect == Spec => []TypeOK
  BY Invariance, PTL DEF IInv

\* No request is in the thread twice, whatever fails and however often it is tried.
THEOREM Once == Spec => []SentOnce
<1>1. IInv => SentOnce
  <2>1. SUFFICES ASSUME IInv, NEW i \in DOMAIN thread, NEW j \in DOMAIN thread,
                        thread[i].client = thread[j].client \/ thread[i].row = thread[j].row
                 PROVE  i = j
    BY DEF SentOnce
  <2>2. thread[i].client = thread[j].client
    BY <2>1 DEF IInv, ThreadOK
  <2>. QED  BY <2>1, <2>2 DEF IInv, ThreadOK
<1>. QED  BY <1>1, Invariance, PTL

\* A row that says it was sent names a message of its request.
THEOREM Sent == Spec => []SentIsInThread
<1>1. IInv => SentIsInThread
  BY DEF IInv, ThreadOK
<1>. QED  BY <1>1, Invariance, PTL

\* Every claimed row is in the hands of the pass or of the next start.
THEOREM Held == Spec => []NothingStuck
<1>1. IInv => NothingStuck
  BY DEF IInv
<1>. QED  BY <1>1, Invariance, PTL

\* No row held back by a 429 is taken again in the same pass.
THEOREM Turns == Spec => []WaitsItsTurn
<1>1. IInv => WaitsItsTurn
  <2>1. SUFFICES ASSUME IInv PROVE WaitsItsTurn
    OBVIOUS
  <2>2. \A r \in InHand : scheduled[r].due
    BY <2>1 DEF IInv, HandsOK
  <2>3. \A r \in job.held : ~scheduled[r].due
    BY <2>1 DEF IInv, HandsOK
  <2>4. job.pc \in {"lookup", "checks", "insert"} => job.row \in InHand
    BY <2>1 DEF IInv, HandsOK, InHand, Working
  <2>. QED  BY <2>2, <2>3, <2>4 DEF WaitsItsTurn, InHand
<1>. QED  BY <1>1, Invariance, PTL

\* While nothing breaks, whoever's message is refused is told.
THEOREM Told == Spec => []RefusedIsTold
<1>1. IInv => RefusedIsTold
  BY DEF IInv, CalmOK, RefusedIsTold
<1>. QED  BY <1>1, Invariance, PTL

\* While nothing breaks, what was cancelled is not in the thread and what was
\* sent has the last text its author gave it.
THEOREM Heard == Spec => []AuthorIsHeard
<1>1. IInv => AuthorIsHeard
  <2>1. SUFFICES ASSUME IInv, Undisturbed PROVE AuthorIsHeard
    BY DEF AuthorIsHeard
  <2>2. \A r \in Rows : Finishing(r) => State(r) = "sending"
    BY <2>1 DEF IInv, HandsOK, InHand, Finishing, Working
  <2>3. \A i \in DOMAIN thread : thread[i].row \in Rows
    BY <2>1, TypesOK DEF IInv
  <2>. QED  BY <2>1, <2>2, <2>3 DEF IInv, CalmOK, AuthorIsHeard, CancelledIsGone
<1>. QED  BY <1>1, Invariance, PTL

\* While nothing breaks, every message has its files.
THEOREM Kept == Spec => []FilesKept
<1>1. IInv => FilesKept
  BY DEF IInv, CalmOK, FilesKept
<1>. QED  BY <1>1, Invariance, PTL

\* Nobody changes a row that is sent, refused or cancelled.
THEOREM Final == Spec => ClosedStaysClosed
<1>1. ASSUME IInv, [Next]_vars, NEW r \in Rows, State(r) \in Closed PROVE scheduled'[r] = scheduled[r]
  <2>1. TypeOK /\ HandsOK /\ CreatingOK /\ scheduled \in [Rows -> Row]
    BY <1>1, TypesOK DEF IInv
  <2>2. ASSUME NEW q \in Rows, q # r, NEW row, SetRow(q, row) PROVE scheduled'[r] = scheduled[r]
    BY <2>1, <2>2 DEF SetRow
  <2>3. CASE \E q \in Rows : Schedule(q) \/ BindFiles(q) \/ Edit(q) \/ Cancel(q) \/ TimeComes(q)
    <3>1. PICK q \in Rows : Schedule(q) \/ BindFiles(q) \/ Edit(q) \/ Cancel(q) \/ TimeComes(q)
      BY <2>3
    <3>2. State(q) \in {"none", "pending"}
      BY <2>1, <3>1 DEF Schedule, BindFiles, Edit, Cancel, TimeComes, MayChange, CreatingOK
    <3>3. q # r
      BY <1>1, <3>2 DEF Closed
    <3>4. (\E row : SetRow(q, row)) \/ scheduled' = scheduled
      BY <3>1 DEF Schedule, BindFiles, Edit, Cancel, TimeComes
    <3>. QED  BY <2>2, <3>3, <3>4
  <2>4. CASE Finish
    <3>1. job.row \in Rows /\ State(job.row) = "sending"
      BY <2>1, <2>4 DEF Finish, HandsOK, InHand, Working
    <3>2. job.row # r /\ \E row : SetRow(job.row, row)
      BY <1>1, <2>4, <3>1 DEF Finish, Closed
    <3>. QED  BY <2>2, <3>1, <3>2
  <2>5. CASE FirstPass \/ SendFails
    BY <1>1, <2>5 DEF FirstPass, SendFails, ReleasedAtStart, Released, Unclaimed, Closed
  <2>6. CASE Claim \/ ClaimLost
    <3>1. PICK rs \in Taken : scheduled' = Claimed(rs)
      BY <2>6 DEF Claim, ClaimLost
    <3>2. r \notin rs
      BY <1>1, <3>1 DEF Taken, Due, Closed
    <3>. QED  BY <3>1, <3>2 DEF Claimed
  <2>7. CASE UNCHANGED scheduled
    BY <2>7
  <2>. QED  BY <1>1, <2>3, <2>4, <2>5, <2>6, <2>7
            DEF Next, JobStep, Discard, UploadGoes, ChangeStanding, PassFails, Crash, Start, BatchEnds, Lookup,
                Deny, Accept, Limit, Insert, Tell, Begin, vars
<1>2. ASSUME IInv, [Next]_vars
      PROVE  [\A r \in Rows : State(r) \in Closed => scheduled'[r] = scheduled[r]]_vars
  BY <1>1, <1>2
<1>. QED  BY <1>2, Invariance, PTL DEF Spec, ClosedStaysClosed

---------------------------------------------------------------------------
(* The refinement of ChatOutbox.                                           *)

LEMMA LogGrows ==
  ASSUME NEW s \in Seq(Message), NEW m \in Message
  PROVE  [i \in DOMAIN Append(s, m) |-> Append(s, m)[i].client]
           = Append([i \in DOMAIN s |-> s[i].client], m.client)
<1> DEFINE t == Append(s, m)
           log == [i \in DOMAIN s |-> s[i].client]
           grown == [i \in DOMAIN t |-> t[i].client]
<1>1. /\ t \in Seq(Message) /\ Len(t) = Len(s) + 1
      /\ \A i \in 1..Len(s) : t[i] = s[i]
      /\ t[Len(s) + 1] = m
  BY AppendProperties
<1>2. Len(s) \in Nat /\ DOMAIN s = 1..Len(s) /\ DOMAIN t = 1..(Len(s) + 1)
  BY <1>1
<1>3. \A i \in 1..Len(s) : s[i].client \in Clients
  <2>1. \A i \in 1..Len(s) : s[i] \in Message
    BY <1>2, ElementOK
  <2>. QED  BY <2>1 DEF Message
<1>4. m.client \in Clients
  BY DEF Message
<1>5. log \in Seq(Clients) /\ Len(log) = Len(s)
  BY <1>2, <1>3
<1>6. /\ Append(log, m.client) \in Seq(Clients) /\ Len(Append(log, m.client)) = Len(s) + 1
      /\ \A i \in 1..Len(s) : Append(log, m.client)[i] = log[i]
      /\ Append(log, m.client)[Len(s) + 1] = m.client
  BY <1>4, <1>5, AppendProperties
<1>7. \A i \in 1..Len(s) : log[i] = s[i].client /\ grown[i] = s[i].client
  BY <1>1, <1>2
<1>8. grown[Len(s) + 1] = m.client
  BY <1>1, <1>2
<1>9. grown \in Seq(Clients) /\ Len(grown) = Len(s) + 1
  <2>1. \A i \in 1..(Len(s) + 1) : t[i].client \in Clients
    BY <1>1, <1>2, <1>3, <1>4
  <2>. QED  BY <1>2, <2>1
<1>. HIDE DEF t, log, grown
<1>10. \A i \in 1..(Len(s) + 1) : grown[i] = Append(log, m.client)[i]
  BY <1>2, <1>6, <1>7, <1>8
<1>11. grown = Append(log, m.client)
  BY <1>6, <1>9, <1>10, SeqEqual
<1>. QED  BY <1>11 DEF t, log, grown

\* Rows that keep their request and go at most between pending and sending.
LEMMA RowsStay ==
  ASSUME thread' = thread,
         \A r \in Rows : scheduled'[r].client = scheduled[r].client,
         \A r \in Rows : \/ scheduled'[r].state = State(r)
                         \/ {State(r), scheduled'[r].state} \subseteq {"pending", "sending"}
  PROVE  UNCHANGED Outbox!vars
<1>1. \A r \in Rows : BoxOf(r)' = BoxOf(r)
  BY DEF BoxOf, State
<1>. QED  BY <1>1 DEF Outbox!vars

LEMMA RowMoves ==
  ASSUME scheduled \in [Rows -> Row], NEW r \in Rows, NEW row \in Row, SetRow(r, row),
         row.client = scheduled[r].client, thread' = thread
  PROVE  /\ State(r) = "none" /\ row.state = "pending" => Outbox!Ask(r)
         /\ State(r) \in {"pending", "sending"} =>
             /\ row.state \in {"pending", "sending"} => UNCHANGED Outbox!vars
             /\ row.state \in {"cancelled", "removed"} => Outbox!Withdraw(r)
             /\ row.state = "sent" => Outbox!Moves(r, "waiting", "delivered")
             /\ row.state = "failed" => Outbox!Refuse(r)
<1>1. scheduled'[r] = row /\ \A q \in Rows : q # r => scheduled'[q] = scheduled[q]
  BY SetRowOK
<1>2. \A q \in Rows : q # r => BoxOf(q)' = BoxOf(q)
  BY <1>1 DEF BoxOf, State
<1>3. \A q \in Rows : scheduled'[q].client = scheduled[q].client
  BY <1>1
<1>4. ASSUME NEW from, NEW to, BoxOf(r) = from, BoxOf(r)' = to PROVE Outbox!Moves(r, from, to)
  BY <1>2, <1>3, <1>4 DEF Outbox!Moves
<1>5. /\ State(r) = "none" => BoxOf(r) = "unasked"
      /\ State(r) \in {"pending", "sending"} => BoxOf(r) = "waiting"
  BY DEF BoxOf
<1>6. /\ row.state \in {"pending", "sending"} => BoxOf(r)' = "waiting"
      /\ row.state \in {"cancelled", "removed"} => BoxOf(r)' = "withdrawn"
      /\ row.state = "sent" => BoxOf(r)' = "delivered"
      /\ row.state = "failed" => BoxOf(r)' = "refused"
  BY <1>1 DEF BoxOf, State
<1>7. State(r) \in {"pending", "sending"} /\ row.state \in {"pending", "sending"} => UNCHANGED Outbox!vars
  BY <1>1, <1>3, RowsStay DEF State
<1>. QED  BY <1>4, <1>5, <1>6, <1>7 DEF Outbox!Ask, Outbox!Withdraw, Outbox!Refuse

LEMMA AuthorMaps ==
  ASSUME IInv, NEW r \in Rows, Schedule(r) \/ BindFiles(r) \/ Edit(r) \/ Cancel(r) \/ TimeComes(r)
  PROVE  [Outbox!Next]_Outbox!vars
<1>1. scheduled \in [Rows -> Row] /\ scheduled[r] \in Row /\ CreatingOK
  BY TypesOK DEF IInv
<1>2. CASE Schedule(r)
  <2> DEFINE row == [scheduled[r] EXCEPT !.state = "pending"]
  <2>1. row \in Row /\ row.state = "pending" /\ row.client = scheduled[r].client
    BY <1>1 DEF Row, States
  <2>2. SetRow(r, row) /\ State(r) = "none" /\ thread' = thread
    BY <1>2 DEF Schedule
  <2>. HIDE DEF row
  <2>. QED  BY <1>1, <2>1, <2>2, RowMoves DEF Outbox!Next
<1>3. CASE BindFiles(r)
  <2> DEFINE row == [scheduled[r] EXCEPT !.state = "removed"]
  <2>1. row \in Row /\ row.state = "removed" /\ row.client = scheduled[r].client
    BY <1>1 DEF Row, States, Closed
  <2>2. thread' = thread /\ State(r) = "pending" /\ (SetRow(r, row) \/ scheduled' = scheduled)
    BY <1>1, <1>3 DEF BindFiles, CreatingOK
  <2>. HIDE DEF row
  <2>3. CASE SetRow(r, row)
    BY <1>1, <2>1, <2>2, <2>3, RowMoves DEF Outbox!Next
  <2>4. CASE scheduled' = scheduled
    BY <2>2, <2>4, RowsStay DEF State
  <2>. QED  BY <2>2, <2>3, <2>4
<1>4. CASE Edit(r)
  <2>1. PICK text \in Texts, later \in BOOLEAN :
          SetRow(r, [scheduled[r] EXCEPT !.text = text, !.due = scheduled[r].due /\ ~later])
    BY <1>4 DEF Edit
  <2> DEFINE row == [scheduled[r] EXCEPT !.text = text, !.due = scheduled[r].due /\ ~later]
  <2>2. row \in Row /\ row.state = State(r) /\ row.client = scheduled[r].client
    BY <1>1 DEF Row, State
  <2>3. SetRow(r, row) /\ State(r) = "pending" /\ thread' = thread
    BY <1>4, <2>1 DEF Edit, MayChange
  <2>. HIDE DEF row
  <2>. QED  BY <1>1, <2>2, <2>3, RowMoves
<1>5. CASE Cancel(r)
  <2> DEFINE row == [scheduled[r] EXCEPT !.state = "cancelled"]
  <2>1. row \in Row /\ row.state = "cancelled" /\ row.client = scheduled[r].client
    BY <1>1 DEF Row, States, Closed
  <2>2. SetRow(r, row) /\ State(r) = "pending" /\ thread' = thread
    BY <1>5 DEF Cancel, MayChange
  <2>. HIDE DEF row
  <2>. QED  BY <1>1, <2>1, <2>2, RowMoves DEF Outbox!Next
<1>6. CASE TimeComes(r)
  <2> DEFINE row == [scheduled[r] EXCEPT !.due = TRUE]
  <2>1. row \in Row /\ row.state = State(r) /\ row.client = scheduled[r].client
    BY <1>1 DEF Row, State
  <2>2. SetRow(r, row) /\ State(r) = "pending" /\ thread' = thread
    BY <1>6 DEF TimeComes
  <2>. HIDE DEF row
  <2>. QED  BY <1>1, <2>1, <2>2, RowMoves
<1>. QED  BY <1>2, <1>3, <1>4, <1>5, <1>6

LEMMA ClaimMaps == ASSUME IInv, FirstPass \/ SendFails \/ Claim \/ ClaimLost PROVE UNCHANGED Outbox!vars
<1>1. scheduled \in [Rows -> Row]
  BY TypesOK DEF IInv
<1>2. CASE FirstPass \/ SendFails
  <2>1. thread' = thread /\ \E rs : scheduled' = Unclaimed(rs)
    BY <1>2 DEF FirstPass, SendFails, ReleasedAtStart, Released
  <2>2. PICK rs : scheduled' = Unclaimed(rs)
    BY <2>1
  <2>3. \A r \in Rows :
          /\ scheduled'[r].client = scheduled[r].client
          /\ scheduled'[r].state = IF r \in rs /\ State(r) = "sending" THEN "pending" ELSE State(r)
    BY <1>1, <2>2, UnclaimedOK DEF StateOnly
  <2>. QED  BY <2>1, <2>3, RowsStay
<1>3. CASE Claim \/ ClaimLost
  <2>1. thread' = thread /\ \E rs \in Taken : scheduled' = Claimed(rs)
    BY <1>3 DEF Claim, ClaimLost
  <2>2. PICK rs \in Taken : scheduled' = Claimed(rs)
    BY <2>1
  <2>3. \A r \in rs : State(r) = "pending"
    BY <2>2 DEF Taken, Due
  <2>4. \A r \in Rows :
          /\ scheduled'[r].client = scheduled[r].client
          /\ scheduled'[r].state = IF r \in rs THEN "sending" ELSE State(r)
    BY <1>1, <2>2, ClaimedOK DEF StateOnly
  <2>. QED  BY <2>1, <2>3, <2>4, RowsStay
<1>. QED  BY <1>2, <1>3

LEMMA InsertMaps == ASSUME IInv, Insert PROVE [Outbox!Next]_Outbox!vars
<1>1. TypeOK /\ HandsOK /\ thread \in Seq(Message) /\ job.taken \in [Rows -> Texts]
  BY TypesOK DEF IInv, TypeOK
<1>2. PICK r \in Rows : r = job.row /\ State(r) = "sending"
  BY <1>1 DEF Insert, HandsOK, InHand, Working
<1>3. PICK c \in Clients : c = scheduled[r].client
  BY <1>1, TypesOK
<1>4. scheduled' = scheduled
  BY DEF Insert
<1>5. CASE SeqOf(c) # 0
  <2>1. thread' = thread
    BY <1>2, <1>3, <1>5 DEF Insert, NewMessage
  <2>. QED  BY <1>4, <2>1, RowsStay DEF State
<1>6. CASE SeqOf(c) = 0
  <2>1. thread' = Append(thread, NewMessage(r)) /\ NewMessage(r).client = c
    BY <1>2, <1>3, <1>6 DEF Insert, NewMessage
  <2>2. NewMessage(r) \in Message
    BY <1>1, <1>3 DEF NewMessage, Message
  <2>3. [i \in DOMAIN thread' |-> thread'[i].client] = Append([i \in DOMAIN thread |-> thread[i].client], c)
    BY <1>1, <2>1, <2>2, LogGrows
  <2>4. \A i \in DOMAIN thread : thread[i].client # c
    BY <1>1, <1>6, SeqOfOK
  <2>5. BoxOf(r) = "waiting"
    BY <1>2 DEF BoxOf
  <2>6. \A q \in Rows : BoxOf(q)' = BoxOf(q) /\ scheduled'[q].client = scheduled[q].client
    BY <1>4 DEF BoxOf, State
  <2>7. Outbox!Post(r)
    BY <1>3, <2>3, <2>4, <2>5, <2>6 DEF Outbox!Post, Outbox!Posted
  <2>. QED  BY <2>7 DEF Outbox!Next
<1>. QED  BY <1>5, <1>6

LEMMA FinishMaps == ASSUME IInv, Finish PROVE [Outbox!Next]_Outbox!vars
<1> DEFINE r == job.row
           v == job.verdict
           row == [scheduled[r] EXCEPT !.state = v, !.sent = job.seq, !.attempts = Counted(r), !.due = StillDue(r)]
<1>1. TypeOK /\ HandsOK /\ CountingOK /\ VerdictOK /\ job \in Job /\ scheduled \in [Rows -> Row]
  BY TypesOK DEF IInv
<1>2. job.pc = "finish" /\ thread' = thread /\ r \in Rows /\ State(r) = "sending"
  BY <1>1 DEF Finish, HandsOK, InHand, Working
<1>3. v \in {"pending", "sent", "failed"}
  BY <1>1, <1>2 DEF VerdictOK, Job
<1>4. row \in Row /\ row.state = v /\ row.client = scheduled[r].client
  <2>1. scheduled[r].attempts \in 0..Attempts /\ scheduled[r].attempts < Attempts /\ Attempts \in Nat
    BY <1>1, <1>2, TypesOK, ScheduledAssumption DEF CountingOK
  <2>2. Counted(r) \in 0..Attempts
    BY <2>1 DEF Counted
  <2>3. StillDue(r) \in BOOLEAN
    BY <1>1, <1>2, TypesOK DEF StillDue
  <2>4. scheduled[r] \in Row /\ job.seq \in Nat /\ v \in States
    BY <1>1, <1>2, <1>3, TypesOK DEF States, Closed
  <2>. QED  BY <2>2, <2>3, <2>4 DEF Row
<1>5. SetRow(r, row)
  BY <1>2 DEF Finish
<1>. HIDE DEF row
<1>6. CASE v = "pending"
  BY <1>1, <1>2, <1>4, <1>5, <1>6, RowMoves
<1>7. CASE v = "failed"
  BY <1>1, <1>2, <1>4, <1>5, <1>7, RowMoves DEF Outbox!Next
<1>8. CASE v = "sent"
  <2>1. Outbox!Moves(r, "waiting", "delivered")
    BY <1>1, <1>2, <1>4, <1>5, <1>8, RowMoves
  <2>2. job.seq \in DOMAIN thread /\ thread[job.seq].client = scheduled[r].client
    BY <1>1, <1>2, <1>8 DEF VerdictOK
  <2>3. Outbox!Posted(scheduled[r].client)
    BY <2>2 DEF Outbox!Posted
  <2>4. Outbox!Deliver(r)
    BY <1>2, <2>1, <2>3 DEF Outbox!Deliver
  <2>. QED  BY <1>2, <2>4 DEF Outbox!Next
<1>. QED  BY <1>3, <1>6, <1>7, <1>8

LEMMA InitMaps == ASSUME Init PROVE Outbox!Init
<1>1. PICK client \in Carried :
        scheduled = [r \in Rows |-> [client |-> client[r], text |-> "written", state |-> "none",
                                     due |-> FALSE, attempts |-> 0, sent |-> 0]]
  BY DEF Init
<1>2. client \in [Rows -> Clients]
  BY ScheduledAssumption
<1>3. [r \in Rows |-> scheduled[r].client] \in [Rows -> Clients]
  BY <1>1, <1>2
<1>4. \A r \in Rows : BoxOf(r) = "unasked"
  BY <1>1 DEF BoxOf, State
<1>5. thread = <<>>
  BY DEF Init
<1>6. [i \in DOMAIN thread |-> thread[i].client] = <<>>
  BY <1>5
<1>. QED  BY <1>3, <1>4, <1>6 DEF Outbox!Init

\* ChatScheduled implements ChatOutbox: under any edits, cancellations, passes,
\* failures and crashes, a row waits until it is delivered, refused or withdrawn,
\* for good, and a request is posted once at most, before its row says so.
THEOREM Implements == Spec => Refinement
<1>1. ASSUME IInv, [Next]_vars PROVE [Outbox!Next]_Outbox!vars
  <2>1. CASE \E r \in Rows : Schedule(r) \/ BindFiles(r) \/ Edit(r) \/ Cancel(r) \/ TimeComes(r)
    BY <1>1, <2>1, AuthorMaps
  <2>2. CASE FirstPass \/ SendFails \/ Claim \/ ClaimLost
    BY <1>1, <2>2, ClaimMaps
  <2>3. CASE Insert \/ Finish
    BY <1>1, <2>3, InsertMaps, FinishMaps
  <2>4. CASE UNCHANGED <<scheduled, thread>>
    BY <2>4, RowsStay DEF State
  <2>. QED  BY <1>1, <2>1, <2>2, <2>3, <2>4
            DEF Next, JobStep, Discard, UploadGoes, ChangeStanding, PassFails, Crash, Start, BatchEnds, Lookup,
                Deny, Accept, Limit, Tell, Begin, vars
<1>. QED  BY <1>1, InitMaps, Invariance, PTL DEF Spec, Refinement, Outbox!Spec

=============================================================================
