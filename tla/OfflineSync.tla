---------------------------- MODULE OfflineSync ----------------------------
(* Offline synchronisation (offline/): devices that queue mutations in       *)
(* localStorage (device.ts, pouch-bridge.ts), post them in batches, and a    *)
(* server that replays a batch in one transaction with a ledger and mirrors  *)
(* the rows to the tables of their resource outside of it (durable.ts).      *)
EXTENDS Integers, Sequences, FiniteSets, SequencesExt

CONSTANTS
    Devices, ClientOf,      \* client_id of each device: "device" for all of them
    Docs, Fields, NoRow,
    Incomplete,             \* documents guard_store_insert refuses
    Workers,                \* requests the server handles at once
    MaxChanges,             \* bound: mutations queued and edits made online
    MaxFaults               \* bound

ASSUME SyncAssumption ==
    /\ NoRow \notin [Fields -> Nat]
    /\ Incomplete \subseteq Docs
    /\ MaxChanges \in Nat /\ MaxFaults \in Nat

VARIABLES
    device,     \* the record in localStorage
    flush,      \* flush_device_queue under way on each device
    frames,     \* replay_durable under way on the server
    store,      \* rows of the resources' tables
    ledger,     \* imperium_sync_ledger: status by client and sequence number
    changes,    \* changes made so far; the n-th writes the value n
    faults,
    fate,       \* history: what became of each change
    promised,   \* history: the creations confirmed to a device
    noted,      \* history: which numbers of a device the ledger noted for itself
    told,       \* history: what the server answered to each change
    overlapped  \* history: did anything else touch the rows during a replay?

serverVars == <<frames, store, ledger>>
historyVars == <<fate, promised, noted, told, overlapped>>
vars == <<device, flush, serverVars, changes, faults, historyVars>>

Clients == {ClientOf[d] : d \in Devices}
Row == [Fields -> 0..MaxChanges]
Rows == Row \cup {NoRow}
Seqs == 1..(MaxChanges + 1)

\* A field that is absent from a row, or null in it.
Blank == 0

\* NamedMutation. A change writes its own number: in the fields the new document fills,
\* or in the one that is edited.
Creation == [client : Clients, seq : Seqs, name : {"record.create"}, doc : Docs,
             fills : SUBSET Fields, change : 1..MaxChanges]
Edit == [client : Clients, seq : Seqs, name : {"edit"}, doc : Docs, field : Fields,
         base : 0..MaxChanges, change : 1..MaxChanges]
Mutation == Creation \cup Edit

Statuses == {"applied", "conflict", "rejected"}
NoStatus == "none"

Device ==
    [pending : Seq(Mutation), next : Seqs, migrated : SUBSET Docs,
     local : [Docs -> Rows]]

NoFlush == [pc |-> "idle", copy |-> <<>>, results |-> <<>>]
NoResult == [status |-> NoStatus, row |-> NoRow]
NoFrame == [pc |-> "idle", device |-> NoRow, batch |-> <<>>, result |-> NoResult,
            results |-> <<>>, staged |-> <<>>, mirrored |-> 0, heard |-> FALSE]

TypeOK ==
    /\ device \in [Devices -> Device]
    /\ \A d \in Devices :
        /\ flush[d].pc \in {"idle", "posted", "answered"}
        /\ flush[d].pc # "idle" => flush[d].copy \in Device
        /\ flush[d].results \in Seq(Statuses)
    /\ \A w \in Workers :
        /\ frames[w].pc \in {"idle", "look", "apply", "put", "note", "mirror"}
        /\ frames[w].batch \in Seq(Mutation)
        /\ frames[w].results \in Seq(Statuses)
        /\ frames[w].staged \in Seq([doc : Docs, row : Row])
    /\ store \in [Docs -> Rows]
    /\ ledger \in [Clients -> [Seqs -> Statuses \cup {NoStatus}]]
    /\ changes \in 0..MaxChanges /\ faults \in 0..MaxFaults
    /\ fate \in [1..MaxChanges -> {"unmade", "online", "queued", "confirmed", "dropped"}]
    /\ promised \subseteq [device : Devices, seq : Seqs, doc : Docs]
    /\ noted \subseteq Devices \X Seqs
    /\ told \in [1..MaxChanges -> SUBSET Statuses]
    /\ overlapped \in BOOLEAN

Init ==
    /\ device = [d \in Devices |-> [pending |-> <<>>, next |-> 1, migrated |-> {},
                                    local |-> [i \in Docs |-> NoRow]]]
    /\ flush = [d \in Devices |-> NoFlush]
    /\ frames = [w \in Workers |-> NoFrame]
    /\ store = [i \in Docs |-> NoRow]
    /\ ledger = [c \in Clients |-> [s \in Seqs |-> NoStatus]]
    /\ changes = 0 /\ faults = 0
    /\ fate = [n \in 1..MaxChanges |-> "unmade"]
    /\ promised = {} /\ noted = {}
    /\ told = [n \in 1..MaxChanges |-> {}]
    /\ overlapped = FALSE

-----------------------------------------------------------------------------
(* apply.ts: what a mutation makes of a row.                                 *)

\* Mutant: a creation that builds no row.
CreateWithoutFields(row, m) == [status |-> "applied", row |-> row]

NewRow(m) == [f \in Fields |-> IF f \in m.fills THEN m.change ELSE Blank]
CreateRecord(row, m) ==
    [status |-> "applied", row |-> IF row = NoRow THEN NewRow(m) ELSE row]

\* Mutant: an edit overwrites whatever it finds.
EditWithoutBase(row, m) ==
    IF row = NoRow THEN [status |-> "rejected", row |-> NoRow]
    ELSE [status |-> "applied", row |-> [row EXCEPT ![m.field] = m.change]]

\* base[field] ?? current[field]: over a blank, nobody is held to have touched the field.
OthersTouched(row, m) == m.base # Blank /\ row[m.field] # m.base

EditRecord(row, m) ==
    IF row = NoRow THEN [status |-> "rejected", row |-> NoRow]
    ELSE IF OthersTouched(row, m) /\ row[m.field] # m.change
         THEN [status |-> "conflict", row |-> row]
         ELSE [status |-> "applied", row |-> [row EXCEPT ![m.field] = m.change]]

Execute(row, m) ==
    IF m.name = "record.create" THEN CreateRecord(row, m) ELSE EditRecord(row, m)

-----------------------------------------------------------------------------
(* The device. Each of these reads, changes and writes localStorage at once. *)

\* enqueue_mutation: numbered, applied to the local rows and put in the queue.
EnqueueMutation(d, m, migrated) ==
    LET old == device[d] IN
    /\ changes < MaxChanges
    /\ device' = [device EXCEPT ![d] =
        [pending |-> Append(old.pending, m), next |-> old.next + 1, migrated |-> migrated,
         local |-> [old.local EXCEPT ![m.doc] = Execute(old.local[m.doc], m).row]]]
    /\ changes' = m.change
    /\ fate' = [fate EXCEPT ![m.change] = "queued"]
    /\ UNCHANGED <<flush, serverVars, faults, promised, noted, told, overlapped>>

\* note_pouch_create and enqueue_alta_document: a document enters the queue once.
QueueCreate(d, doc) ==
    /\ doc \notin device[d].migrated
    /\ \E fills \in SUBSET Fields :
        EnqueueMutation(d,
            [client |-> ClientOf[d], seq |-> device[d].next, name |-> "record.create",
             doc |-> doc, fills |-> fills, change |-> changes + 1],
            device[d].migrated \cup {doc})

\* enqueue_alta_edit: over what the form showed, a local row or the server's.
QueueEdit(d, doc, field) ==
    \E row \in {device[d].local[doc], store[doc]} \ {NoRow} :
        EnqueueMutation(d,
            [client |-> ClientOf[d], seq |-> device[d].next, name |-> "edit", doc |-> doc,
             field |-> field, base |-> row[field], change |-> changes + 1],
            device[d].migrated)

Forgotten(m, doc) == m.name = "record.create" /\ m.doc = doc

\* What is left of s at the positions of S, in order: filter, said position by position.
Keep(s, S) ==
    LET place(i) == Cardinality({j \in S : j <= i})
    IN [n \in 1..Cardinality(S) |-> s[CHOOSE i \in S : place(i) = n]]

\* forget_pouch_doc: the document was sent on its own or discarded. A batch on its way
\* still holds it.
ForgetDoc(d, doc) ==
    LET pending == device[d].pending
        created == {i \in DOMAIN pending :
                        pending[i].name = "record.create" /\ pending[i].doc = doc}
    IN /\ created # {}
       /\ device' = [device EXCEPT ![d].pending =
            Keep(@, {i \in DOMAIN @ : ~Forgotten(@[i], doc)})]
       /\ fate' = [n \in DOMAIN fate |->
            IF n \in {pending[i].change : i \in created} THEN "dropped" ELSE fate[n]]
       /\ UNCHANGED <<flush, serverVars, changes, faults, promised, noted, told, overlapped>>

Replaying == \E w \in Workers : frames[w].pc # "idle"

\* flush_device_queue reads the device and posts what it holds, and handle_sync_http
\* begins to replay it. A post that never arrives changes nothing.
FlushBegins(d, w) ==
    /\ flush[d].pc = "idle"
    /\ device[d].pending # <<>>
    /\ frames[w].pc = "idle"
    /\ flush' = [flush EXCEPT ![d] = [NoFlush EXCEPT !.pc = "posted", !.copy = device[d]]]
    /\ frames' = [frames EXCEPT ![w] = [NoFrame EXCEPT
            !.pc = "look", !.device = d, !.batch = device[d].pending, !.heard = TRUE]]
    /\ overlapped' = (overlapped \/ Replaying)
    /\ UNCHANGED <<device, store, ledger, changes, faults, fate, promised, noted, told>>

\* Mutant: what was refused or in conflict stays in the queue.
AppliedSeqs(fl) ==
    {fl.copy.pending[i].seq : i \in
        {j \in DOMAIN fl.results \cap DOMAIN fl.copy.pending : fl.results[j] = "applied"}}
\* confirmed_seqs: every status an answer can carry is final.
ConfirmedSeqs(fl) ==
    {fl.copy.pending[i].seq : i \in DOMAIN fl.results \cap DOMAIN fl.copy.pending}

\* The answer arrives: the device that was read, less what is confirmed, is written back
\* over whatever was queued since.
FlushEnds(d) ==
    LET pending == flush[d].copy.pending
        kept == {i \in DOMAIN pending : pending[i].seq \notin ConfirmedSeqs(flush[d])}
        gone == {pending[i] : i \in DOMAIN pending \ kept}
    IN /\ flush[d].pc = "answered"
       /\ device' = [device EXCEPT ![d] = [flush[d].copy EXCEPT !.pending = Keep(pending, kept)]]
       /\ fate' = [n \in DOMAIN fate |->
            IF fate[n] = "queued" /\ n \in {m.change : m \in gone} THEN "confirmed" ELSE fate[n]]
       /\ promised' = promised \cup {[device |-> d, seq |-> m.seq, doc |-> m.doc] :
                                        m \in {g \in gone : g.name = "record.create"}}
       /\ flush' = [flush EXCEPT ![d] = NoFlush]
       /\ UNCHANGED <<serverVars, changes, faults, noted, told, overlapped>>

Unheard(d) == [w \in Workers |->
    IF frames[w].device = d THEN [frames[w] EXCEPT !.heard = FALSE] ELSE frames[w]]

\* The connection is lost before the answer arrives; the server goes on with the batch.
PostFails(d) ==
    /\ flush[d].pc # "idle"
    /\ faults < MaxFaults
    /\ faults' = faults + 1
    /\ flush' = [flush EXCEPT ![d] = NoFlush]
    /\ frames' = Unheard(d)
    /\ UNCHANGED <<device, store, ledger, changes, historyVars>>

-----------------------------------------------------------------------------
(* The server: one transaction for each batch.                               *)

Current(fr) == fr.batch[Len(fr.results) + 1]
AfterResult(fr) == IF Len(fr.results) = Len(fr.batch) THEN "mirror" ELSE "look"
WithResult(fr, status) ==
    LET next == [fr EXCEPT !.results = Append(@, status)]
    IN [next EXCEPT !.pc = AfterResult(next)]

\* Mutant: the ledger is not asked.
NeverPrior(m) == NoStatus
\* get_ledger: the sequence numbers of a batch differ, so what it noted is not asked again.
Prior(m) == ledger[m.client][m.seq]

LookInLedger(w) ==
    LET fr == frames[w]
        prior == Prior(Current(fr))
    IN /\ fr.pc = "look"
       /\ frames' = [frames EXCEPT ![w] =
            IF prior = NoStatus THEN [fr EXCEPT !.pc = "apply"] ELSE WithResult(fr, prior)]
       /\ UNCHANGED <<device, flush, store, ledger, changes, faults, historyVars>>

\* get_row of mirror_resource_store: the row this batch put last, or the live one.
Puts(fr, doc) == {i \in DOMAIN fr.staged : fr.staged[i].doc = doc}
GetRow(fr, doc) ==
    IF Puts(fr, doc) = {} THEN store[doc] ELSE fr.staged[Max(Puts(fr, doc))].row

\* get_row and apply_mutation_batch; a refused mutation puts no row.
ApplyMutation(w) ==
    LET fr == frames[w]
        m == Current(fr)
        result == Execute(GetRow(fr, m.doc), m)
    IN /\ fr.pc = "apply"
       /\ frames' = [frames EXCEPT ![w] = [fr EXCEPT !.result = result,
            !.pc = IF result.status = "rejected" THEN "note" ELSE "put"]]
       /\ UNCHANGED <<device, flush, store, ledger, changes, faults, historyVars>>

\* A statement waits for the transaction that wrote the same row or ledger entry.
Noted(fr) == {i \in DOMAIN fr.results : ledger[fr.batch[i].client][fr.batch[i].seq] = NoStatus}
Waits(w, v) ==
    /\ w # v
    /\ \/ frames[w].pc = "put" /\ Puts(frames[v], Current(frames[w]).doc) # {}
       \/ /\ frames[w].pc = "note"
          /\ \E i \in Noted(frames[v]) :
                /\ frames[v].batch[i].client = Current(frames[w]).client
                /\ frames[v].batch[i].seq = Current(frames[w]).seq
Blocked(w) == \E v \in Workers : Waits(w, v)

PutRow(w) ==
    LET fr == frames[w] IN
    /\ fr.pc = "put"
    /\ ~Blocked(w)
    /\ frames' = [frames EXCEPT ![w] = [fr EXCEPT !.pc = "note",
            !.staged = Append(@, [doc |-> Current(fr).doc, row |-> fr.result.row])]]
    /\ UNCHANGED <<device, flush, store, ledger, changes, faults, historyVars>>

\* put_ledger, ON CONFLICT DO NOTHING; the result pushed is the one computed.
PutLedger(w) ==
    /\ frames[w].pc = "note"
    /\ ~Blocked(w)
    /\ frames' = [frames EXCEPT ![w] =
            WithResult([frames[w] EXCEPT !.result = NoResult], frames[w].result.status)]
    /\ UNCHANGED <<device, flush, store, ledger, changes, faults, historyVars>>

\* Mutant: the last row of a batch is not mirrored.
MirroringAllButLast(fr) == fr.pc = "mirror" /\ fr.mirrored + 1 < Len(fr.staged)
Mirroring(fr) == fr.pc = "mirror" /\ fr.mirrored < Len(fr.staged)
NextStaged(fr) == fr.staged[fr.mirrored + 1]

\* find_id, then insert or update of the resource's table, outside the transaction.
MirrorRow(w) ==
    LET item == NextStaged(frames[w]) IN
    /\ Mirroring(frames[w])
    /\ item.doc \notin Incomplete
    /\ store' = [store EXCEPT ![item.doc] = item.row]
    /\ frames' = [frames EXCEPT ![w].mirrored = @ + 1]
    /\ UNCHANGED <<device, flush, ledger, changes, faults, historyVars>>

\* The transaction is rolled back and the request answered with an error, which
\* leaves the device as it was.
RolledBack(w) ==
    /\ frames' = [frames EXCEPT ![w] = NoFrame]
    /\ flush' = IF frames[w].heard THEN [flush EXCEPT ![frames[w].device] = NoFlush] ELSE flush
    /\ UNCHANGED <<device, store, ledger, changes, historyVars>>

\* guard_store_insert throws, or its counterpart in update.
StoreRefuses(w) ==
    /\ Mirroring(frames[w])
    /\ NextStaged(frames[w]).doc \in Incomplete
    /\ RolledBack(w)
    /\ UNCHANGED faults

\* Two transactions wait for each other and the database ends one.
DeadlockBroken(w) ==
    /\ \E v \in Workers : Waits(w, v) /\ Waits(v, w)
    /\ RolledBack(w)
    /\ UNCHANGED faults

\* A statement fails, or the process dies.
BatchFails(w) ==
    /\ frames[w].pc # "idle"
    /\ faults < MaxFaults
    /\ faults' = faults + 1
    /\ RolledBack(w)

Commit(w) ==
    LET fr == frames[w] IN
    /\ fr.pc = "mirror" /\ ~Mirroring(fr)
    /\ ledger' = [c \in Clients |-> [s \in Seqs |->
            LET new == {i \in Noted(fr) : fr.batch[i].client = c /\ fr.batch[i].seq = s}
            IN IF new = {} THEN ledger[c][s] ELSE fr.results[CHOOSE i \in new : TRUE]]]
    /\ noted' = noted \cup {<<fr.device, fr.batch[i].seq>> : i \in Noted(fr)}
    /\ told' = [n \in 1..MaxChanges |->
            told[n] \cup {fr.results[i] : i \in {j \in DOMAIN fr.batch : fr.batch[j].change = n}}]
    /\ flush' = IF fr.heard
                THEN [flush EXCEPT ![fr.device].pc = "answered", ![fr.device].results = fr.results]
                ELSE flush
    /\ frames' = [frames EXCEPT ![w] = NoFrame]
    /\ UNCHANGED <<device, store, changes, faults, fate, promised, overlapped>>

\* Somebody who is connected edits the same document.
EditOnline(doc, field) ==
    /\ changes < MaxChanges
    /\ store[doc] # NoRow
    /\ changes' = changes + 1
    /\ store' = [store EXCEPT ![doc][field] = changes']
    /\ fate' = [fate EXCEPT ![changes'] = "online"]
    /\ overlapped' = (overlapped \/ Replaying)
    /\ UNCHANGED <<device, flush, frames, ledger, faults, promised, noted, told>>

-----------------------------------------------------------------------------
ReplayStep(w) ==
    \/ LookInLedger(w) \/ ApplyMutation(w) \/ PutRow(w) \/ PutLedger(w)
    \/ MirrorRow(w) \/ StoreRefuses(w) \/ DeadlockBroken(w) \/ Commit(w)

Next ==
    \/ \E d \in Devices :
        \/ \E doc \in Docs :
            \/ QueueCreate(d, doc) \/ ForgetDoc(d, doc)
            \/ \E f \in Fields : QueueEdit(d, doc, f)
        \/ \E w \in Workers : FlushBegins(d, w)
        \/ FlushEnds(d) \/ PostFails(d)
    \/ \E w \in Workers : ReplayStep(w) \/ BatchFails(w)
    \/ \E doc \in Docs, f \in Fields : EditOnline(doc, f)

Spec == Init /\ [][Next]_vars

\* Each await goes on, the database gives a lock to whoever waits for it, and a
\* device that holds something tries again.
Fairness ==
    /\ \A w \in Workers : WF_vars(ReplayStep(w)) /\ SF_vars(PutRow(w) \/ PutLedger(w))
    /\ \A d \in Devices :
        /\ WF_vars(\E w \in Workers : FlushBegins(d, w)) /\ WF_vars(FlushEnds(d))

FairSpec == Spec /\ Fairness

-----------------------------------------------------------------------------
(* Properties.                                                               *)

Pending(d) == Range(device[d].pending)

\* A document whose creation was confirmed to a device is in the server's table.
ConfirmedIsStored == \A p \in promised : store[p.doc] # NoRow

\* It is there, and stays there, unless the number of its creation is one that the
\* ledger took from another device and never from its own.
StoredUnlessShared == \A p \in promised : store[p.doc] # NoRow \/ <<p.device, p.seq>> \notin noted

\* An edit whose form showed nothing in its field is on its way to the row.
BlindTo(doc, f) == \E w \in Workers : \E m \in Range(frames[w].batch) :
    m.name = "edit" /\ m.doc = doc /\ m.field = f /\ m.base = Blank

\* The values of a field only follow one another: neither a batch posted again nor one
\* cut half-way brings back what an edit had already replaced. Only two replays at once,
\* an edit during one, or one made over a blank may.
NeverGoesBack ==
    [][~overlapped' => \A doc \in Docs, f \in Fields :
        store[doc] # NoRow => store'[doc][f] >= store[doc][f] \/ BlindTo(doc, f)]_vars

\* A mutation gets one answer, however often it is posted and whatever happens to
\* the row in between, unless two attempts are replayed at once.
OneAnswer == ~overlapped => \A n \in 1..MaxChanges : Cardinality(told[n]) <= 1

\* OfflineSync implements OfflinePromise: no lost answer, failure, repetition or race of
\* two replays loses a change that waits, confirms one the server never answered or
\* brings back one that was settled. What is queued while a flush awaits its answer is
\* unsure: the answer loses it, a failure of the post saves it.
Held(n) == \E d \in Devices : \E m \in Pending(d) : m.change = n
Late(n) == \E d \in Devices :
    /\ flush[d].pc # "idle"
    /\ \E m \in Pending(d) \ Range(flush[d].copy.pending) : m.change = n
PlaceOf(n) ==
    IF Held(n) THEN IF Late(n) THEN "unsure" ELSE "waiting"
    ELSE IF fate[n] = "queued" THEN "lost" ELSE fate[n]
Promise == INSTANCE OfflinePromise WITH
    place <- [n \in 1..MaxChanges |-> PlaceOf(n)], answers <- told, crowded <- overlapped
Refinement == Promise!Spec

\* Every change leaves the queue in the end, unless the device insists on a
\* document the server refuses.
EveryChangeLeaves ==
    \A d \in Devices, n \in 1..MaxChanges :
        (\E m \in Pending(d) : m.change = n) ~>
            \/ \A m \in Pending(d) : m.change # n
            \/ \E m \in Pending(d) : m.doc \in Incomplete
=============================================================================
