------------------------- MODULE OfflineSync_proofs -------------------------
(* What holds of the synchronisation for any number of devices, documents,   *)
(* requests, changes and faults.                                             *)
EXTENDS OfflineSync, FiniteSetTheorems, TLAPS

Promises == [device : Devices, seq : Seqs, doc : Docs]
Results == [status : Statuses \cup {NoStatus}, row : Rows]
Items == [doc : Docs, row : Row]
Flushes == [pc : {"idle", "posted", "answered"}, copy : Device \cup {<<>>}, results : Seq(Statuses)]
Replays == [pc : {"idle", "look", "apply", "put", "note", "mirror"}, device : Devices \cup {NoRow},
            batch : Seq(Mutation), result : Results, results : Seq(Statuses),
            staged : Seq(Items), mirrored : Nat, heard : BOOLEAN]

\* What each part is, the parts TypeOK does not look into included.
Typed ==
    /\ device \in [Devices -> Device]
    /\ flush \in [Devices -> Flushes]
    /\ frames \in [Workers -> Replays]
    /\ store \in [Docs -> Rows]
    /\ ledger \in [Clients -> [Seqs -> Statuses \cup {NoStatus}]]
    /\ changes \in 0..MaxChanges /\ faults \in 0..MaxFaults
    /\ fate \in [1..MaxChanges -> {"unmade", "online", "queued", "confirmed", "dropped"}]
    /\ promised \subseteq Promises /\ noted \subseteq Devices \X Seqs
    /\ told \in [1..MaxChanges -> SUBSET Statuses]
    /\ overlapped \in BOOLEAN

\* A number is given for each change, so the numbers never run out.
Numbered == \A d \in Devices : device[d].next <= changes + 1
Copied == \A d \in Devices : flush[d].pc # "idle" =>
    /\ flush[d].copy \in Device /\ flush[d].copy.next <= device[d].next

\* How far a replay has got.
ReplayOK(fr) ==
    /\ Len(fr.results) <= Len(fr.batch)
    /\ fr.pc # "idle" => fr.device \in Devices
    /\ fr.pc \in {"look", "apply", "put", "note"} =>
            Len(fr.results) < Len(fr.batch) /\ fr.mirrored = 0
    /\ fr.pc = "mirror" => Len(fr.results) = Len(fr.batch)
    /\ fr.pc \in {"put", "note"} => fr.result.status \in Statuses
    /\ fr.pc = "put" => fr.result.row \in Row
    /\ fr.mirrored <= Len(fr.staged)
ReplaysOK == \A w \in Workers : ReplayOK(frames[w])

TInv == Typed /\ Numbered /\ Copied /\ ReplaysOK

-----------------------------------------------------------------------------
(* The helpers *)

\* The place of each element of a finite set of numbers among them.
LEMMA Places ==
    ASSUME NEW S, IsFiniteSet(S), S \subseteq Nat
    PROVE  /\ Cardinality(S) \in Nat
           /\ \A i \in S : Cardinality({j \in S : j <= i}) \in 1..Cardinality(S)
           /\ \A n \in 1..Cardinality(S) : \E i \in S : Cardinality({j \in S : j <= i}) = n
           /\ \A i, k \in S :
                Cardinality({j \in S : j <= i}) = Cardinality({j \in S : j <= k}) => i = k
  <1> DEFINE upto(i) == {j \in S : j <= i}
             place == [i \in S |-> Cardinality(upto(i))]
             T == 1..Cardinality(S)
  <1>1. Cardinality(S) \in Nat
    BY FS_CardinalityType
  <1>2. ASSUME NEW i \in S
        PROVE  IsFiniteSet(upto(i)) /\ Cardinality(upto(i)) \in T
    <2>1. IsFiniteSet(upto(i)) /\ Cardinality(upto(i)) <= Cardinality(S)
      <3>1. upto(i) \in SUBSET S
        OBVIOUS
      <3> QED BY <3>1, FS_Subset
    <2>2. Cardinality(upto(i)) \in Nat /\ Cardinality(upto(i)) # 0
      <3>1. i \in upto(i)
        OBVIOUS
      <3> QED BY <2>1, <3>1, FS_CardinalityType, FS_EmptySet
    <2> QED BY <1>1, <2>1, <2>2
  <1>3. ASSUME NEW i \in S, NEW k \in S, i < k PROVE Cardinality(upto(i)) # Cardinality(upto(k))
    <2>1. i \in Nat /\ k \in Nat
      OBVIOUS
    <2>2. \A j \in S : j \in Nat /\ (j <= i => j <= k)
      BY <1>3, <2>1
    <2>3. k \notin upto(i) /\ k \in upto(k)
      BY <1>3, <2>1
    <2>4. upto(i) \in SUBSET upto(k)
      BY <2>2
    <2> HIDE DEF upto
    <2> QED BY <1>2, <2>3, <2>4, FS_Subset
  <1> HIDE DEF upto
  <1>4. place \in [S -> T]
    BY <1>2
  <1>5. \A i, k \in S : place[i] = place[k] => i = k
    BY <1>3
  <1>6. place \in Injection(S, T)
    BY <1>4, <1>5 DEF Injection, IsInjective
  <1>7. IsFiniteSet(T) /\ Cardinality(T) = Cardinality(S)
    BY <1>1, FS_Interval
  <1>8. place \in Surjection(S, T)
    BY <1>6, <1>7, FS_Injection
  <1>9. \A n \in T : \E i \in S : place[i] = n
    BY <1>8 DEF Surjection
  <1> QED BY <1>1, <1>2, <1>5, <1>9 DEF upto

\* The positions of a sequence are finitely many numbers.
LEMMA Positions ==
    ASSUME NEW T, NEW s \in Seq(T), NEW S \in SUBSET DOMAIN s
    PROVE  IsFiniteSet(S) /\ S \subseteq Nat
  <1>1. DOMAIN s = 1..Len(s) /\ Len(s) \in Nat
    OBVIOUS
  <1>2. IsFiniteSet(1..Len(s))
    BY <1>1, FS_Interval
  <1> QED BY <1>1, <1>2, FS_Subset

\* Keep keeps what is at the positions and nothing else, each position once.
LEMMA KeepIs ==
    ASSUME NEW T, NEW s \in Seq(T), NEW S \in SUBSET DOMAIN s
    PROVE  /\ Keep(s, S) \in Seq(T)
           /\ \A i \in S : \E n \in DOMAIN Keep(s, S) : Keep(s, S)[n] = s[i]
           /\ \E at \in [DOMAIN Keep(s, S) -> S] :
                /\ \A n \in DOMAIN Keep(s, S) : Keep(s, S)[n] = s[at[n]]
                /\ \A n, k \in DOMAIN Keep(s, S) : at[n] = at[k] => n = k
  <1> DEFINE N == Cardinality(S)
             place(i) == Cardinality({j \in S : j <= i})
             at == [n \in 1..N |-> CHOOSE i \in S : place(i) = n]
             kept == [n \in 1..N |-> s[CHOOSE i \in S : place(i) = n]]
  <1>1. /\ N \in Nat
        /\ \A i \in S : place(i) \in 1..N
        /\ \A n \in 1..N : \E i \in S : place(i) = n
        /\ \A i, k \in S : place(i) = place(k) => i = k
    BY Positions, Places
  <1>2. Keep(s, S) = kept
    BY DEF Keep
  <1> HIDE DEF place
  <1>3. \A n \in 1..N : at[n] \in S /\ place(at[n]) = n /\ kept[n] = s[at[n]]
    <2> SUFFICES ASSUME NEW n \in 1..N
                 PROVE  at[n] \in S /\ place(at[n]) = n /\ kept[n] = s[at[n]]
      OBVIOUS
    <2>1. at[n] = (CHOOSE i \in S : place(i) = n) /\ kept[n] = s[at[n]]
      OBVIOUS
    <2>2. \E i \in S : place(i) = n
      BY <1>1
    <2> HIDE DEF at, kept
    <2> QED BY <2>1, <2>2
  <1>4. kept \in Seq(T)
    <2>1. \A n \in 1..N : kept[n] \in T
      BY <1>3
    <2> QED BY <1>1, <2>1
  <1>5. at \in [1..N -> S] /\ DOMAIN kept = 1..N
    BY <1>3
  <1>6. \A n, k \in 1..N : at[n] = at[k] => n = k
    BY <1>3
  <1>7. \A i \in S : \E n \in 1..N : kept[n] = s[i]
    <2> SUFFICES ASSUME NEW i \in S PROVE \E n \in 1..N : kept[n] = s[i]
      OBVIOUS
    <2> DEFINE n == place(i)
    <2>1. n \in 1..N
      BY <1>1
    <2>2. at[n] = i
      <3>1. at[n] \in S /\ place(at[n]) = place(i)
        BY <1>3, <2>1
      <3> QED BY <1>1, <3>1
    <2> QED BY <1>3, <2>1, <2>2
  <1> HIDE DEF at, kept, N
  <1>8. \E f \in [1..N -> S] :
            /\ \A n \in 1..N : kept[n] = s[f[n]]
            /\ \A n, k \in 1..N : f[n] = f[k] => n = k
    BY <1>3, <1>5, <1>6
  <1> DEFINE dom == 1..N
  <1>9. DOMAIN Keep(s, S) = dom
    BY <1>2, <1>5
  <1>10. /\ \A i \in S : \E n \in dom : Keep(s, S)[n] = s[i]
         /\ \E f \in [dom -> S] :
                /\ \A n \in dom : Keep(s, S)[n] = s[f[n]]
                /\ \A n, k \in dom : f[n] = f[k] => n = k
    BY <1>2, <1>7, <1>8
  <1> HIDE DEF dom
  <1> QED BY <1>2, <1>4, <1>9, <1>10

\* A finite set of numbers that is not empty has a greatest one.
LEMMA MaxIs ==
    ASSUME NEW S, IsFiniteSet(S), S \subseteq Nat, S # {}
    PROVE  Max(S) \in S /\ \A i \in S : i <= Max(S)
  <1>0. Cardinality(S) \in Nat /\ Cardinality(S) # 0
    BY FS_CardinalityType, FS_EmptySet
  <1>1. Cardinality(S) \in 1..Cardinality(S)
    BY <1>0
  <1>2. PICK i \in S : Cardinality({j \in S : j <= i}) = Cardinality(S)
    BY <1>1, Places
  <1> DEFINE upto == {j \in S : j <= i}
  <1>3. upto \in SUBSET S
    OBVIOUS
  <1>4. upto = S
    BY <1>2, <1>3, FS_Subset
  <1>5. i \in Nat /\ \A j \in S : j \in Nat /\ j <= i
    BY <1>4
  <1>6. \E x \in S : \A y \in S : x >= y
    BY <1>5
  <1>7. Max(S) \in S /\ \A y \in S : Max(S) >= y
    BY <1>6 DEF Max
  <1> QED BY <1>7

\* What every mutation has.
LEMMA MutationIs ==
    ASSUME NEW m \in Mutation
    PROVE  /\ m.client \in Clients /\ m.seq \in Seqs /\ m.doc \in Docs /\ m.change \in 1..MaxChanges
           /\ m.name \in {"record.create", "edit"}
           /\ m.name = "edit" => m.field \in Fields /\ m.base \in 0..MaxChanges
  BY DEF Mutation, Creation, Edit

\* A row that is there is not NoRow.
LEMMA RowIs ==
    /\ NoRow \notin Row /\ \A r \in Row : r \in [Fields -> 0..MaxChanges] /\ r # NoRow
    /\ \A r \in Rows : r # NoRow => r \in Row
  <1>1. Row \subseteq [Fields -> Nat]
    BY SyncAssumption DEF Row
  <1> QED BY <1>1, SyncAssumption DEF Row, Rows

\* The row of a new document.
LEMMA NewRowIs ==
    ASSUME NEW m \in Mutation
    PROVE  NewRow(m) \in Row
  <1>1. m.change \in 0..MaxChanges /\ Blank \in 0..MaxChanges
    <2>1. m.change \in 1..MaxChanges
      BY MutationIs
    <2> QED BY <2>1, SyncAssumption DEF Blank
  <1> QED BY <1>1 DEF NewRow, Row

\* What a mutation makes of a row is a row, and nothing only of what was not there.
LEMMA ExecuteIs ==
    ASSUME NEW row \in Rows, NEW m \in Mutation
    PROVE  LET r == Execute(row, m) IN
           /\ r \in Results /\ r.status \in Statuses /\ r.row \in Rows
           /\ r.status # "rejected" => r.row \in Row
           /\ m.name = "record.create" => r.status = "applied"
  <1>1. CASE m.name = "record.create"
    BY <1>1, RowIs, NewRowIs DEF Execute, CreateRecord, Results, Statuses, Rows
  <1>2. CASE m.name # "record.create"
    <2>1. m.field \in Fields /\ m.change \in 0..MaxChanges
      <3>1. m.change \in 1..MaxChanges
        BY MutationIs
      <3> QED BY <1>2, <3>1, MutationIs, SyncAssumption
    <2>2. CASE row = NoRow
      BY <1>2, <2>2 DEF Execute, EditRecord, Results, Statuses, Rows
    <2>3. CASE row # NoRow
      <3> DEFINE new == [row EXCEPT ![m.field] = m.change]
      <3>1. row \in Row
        BY <2>3, RowIs
      <3>2. new \in Row
        BY <2>1, <3>1 DEF Row
      <3> HIDE DEF new
      <3>3. \/ Execute(row, m) = [status |-> "conflict", row |-> row]
            \/ Execute(row, m) = [status |-> "applied", row |-> new]
        BY <1>2, <2>3 DEF Execute, EditRecord, new
      <3> QED BY <1>2, <3>1, <3>2, <3>3 DEF Results, Statuses, Rows
    <2> QED BY <2>2, <2>3
  <1> QED BY <1>1, <1>2

\* A replay under way is at one of its mutations.
LEMMA CurrentIs ==
    ASSUME NEW fr \in Replays, Len(fr.results) < Len(fr.batch)
    PROVE  /\ Len(fr.results) + 1 \in DOMAIN fr.batch
           /\ Current(fr) = fr.batch[Len(fr.results) + 1] /\ Current(fr) \in Mutation
  <1>1. fr.results \in Seq(Statuses) /\ fr.batch \in Seq(Mutation)
    BY DEF Replays
  <1>2. Len(fr.results) + 1 \in DOMAIN fr.batch
    BY <1>1
  <1> QED BY <1>1, <1>2 DEF Current

\* The row that a replay sees.
LEMMA GetRowIs ==
    ASSUME NEW fr \in Replays, NEW doc \in Docs, store \in [Docs -> Rows]
    PROVE  /\ GetRow(fr, doc) \in Rows
           /\ Puts(fr, doc) = {} => GetRow(fr, doc) = store[doc]
           /\ Puts(fr, doc) # {} =>
                \E i \in Puts(fr, doc) :
                    /\ GetRow(fr, doc) = fr.staged[i].row /\ GetRow(fr, doc) \in Row
                    /\ \A j \in Puts(fr, doc) : j <= i
  <1>1. fr.staged \in Seq(Items)
    BY DEF Replays
  <1>2. CASE Puts(fr, doc) = {}
    BY <1>2 DEF GetRow
  <1>3. CASE Puts(fr, doc) # {}
    <2> DEFINE i == Max(Puts(fr, doc))
    <2>1. Puts(fr, doc) \in SUBSET DOMAIN fr.staged
      BY DEF Puts
    <2>2. i \in Puts(fr, doc) /\ \A j \in Puts(fr, doc) : j <= i
      BY <1>1, <1>3, <2>1, Positions, MaxIs
    <2>3. GetRow(fr, doc) = fr.staged[i].row
      BY <1>3 DEF GetRow
    <2> HIDE DEF i
    <2>4. fr.staged[i] \in Items
      BY <1>1, <2>1, <2>2
    <2> QED BY <1>3, <2>2, <2>3, <2>4 DEF Items, Rows
  <1> QED BY <1>2, <1>3

\* A result more.
LEMMA WithResultIs ==
    ASSUME NEW fr \in Replays, Len(fr.results) < Len(fr.batch), NEW status \in Statuses
    PROVE  LET g == WithResult(fr, status) IN
           /\ g \in Replays
           /\ g.device = fr.device /\ g.batch = fr.batch /\ g.result = fr.result
           /\ g.staged = fr.staged /\ g.mirrored = fr.mirrored /\ g.heard = fr.heard
           /\ g.results = Append(fr.results, status)
           /\ Len(g.results) = Len(fr.results) + 1 /\ Len(g.results) <= Len(g.batch)
           /\ g.pc \in {"look", "mirror"}
           /\ g.pc = "mirror" <=> Len(g.results) = Len(g.batch)
  <1> DEFINE next == [fr EXCEPT !.results = Append(@, status)]
             g == [next EXCEPT !.pc = AfterResult(next)]
  <1>1. fr.results \in Seq(Statuses) /\ fr.batch \in Seq(Mutation)
    BY DEF Replays
  <1>2. Append(fr.results, status) \in Seq(Statuses) /\ Len(Append(fr.results, status)) = Len(fr.results) + 1
    BY <1>1
  <1>3. /\ next \in Replays /\ next.results = Append(fr.results, status)
        /\ next.device = fr.device /\ next.batch = fr.batch /\ next.result = fr.result
        /\ next.staged = fr.staged /\ next.mirrored = fr.mirrored /\ next.heard = fr.heard
    BY <1>2 DEF Replays
  <1>4. AfterResult(next) = IF Len(next.results) = Len(next.batch) THEN "mirror" ELSE "look"
    BY DEF AfterResult
  <1> HIDE DEF next
  <1>5. /\ g \in Replays /\ g.results = next.results
        /\ g.device = next.device /\ g.batch = next.batch /\ g.result = next.result
        /\ g.staged = next.staged /\ g.mirrored = next.mirrored /\ g.heard = next.heard
        /\ g.pc = AfterResult(next)
    BY <1>3, <1>4 DEF Replays
  <1>6. g = WithResult(fr, status)
    BY DEF WithResult, next
  <1> HIDE DEF g
  <1> QED BY <1>1, <1>2, <1>3, <1>4, <1>5, <1>6

\* What there is when no flush or replay is under way.
LEMMA NoneIs ==
    /\ NoFlush \in Flushes /\ NoFlush.pc = "idle" /\ NoFlush.results = <<>>
    /\ NoFrame \in Replays /\ NoFrame.pc = "idle" /\ ReplayOK(NoFrame)
    /\ NoFrame.results = <<>> /\ NoFrame.staged = <<>> /\ NoFrame.mirrored = 0
  <1>1. <<>> \in Seq(Statuses) /\ <<>> \in Seq(Items) /\ <<>> \in Seq(Mutation)
        /\ FALSE \in BOOLEAN /\ NoResult \in Results
    BY DEF NoResult, Results, Rows
  <1>2. NoFlush \in Flushes /\ NoFlush.pc = "idle" /\ NoFlush.results = <<>>
    BY <1>1 DEF NoFlush, Flushes
  <1>3. /\ NoFrame \in Replays /\ NoFrame.pc = "idle" /\ NoFrame.results = <<>>
        /\ NoFrame.batch = <<>> /\ NoFrame.staged = <<>> /\ NoFrame.mirrored = 0
    BY <1>1 DEF NoFrame, Replays
  <1>4. ReplayOK(NoFrame)
    BY <1>3 DEF ReplayOK
  <1> QED BY <1>2, <1>3, <1>4

-----------------------------------------------------------------------------
(* What each step of a replay makes of it *)

\* The replay of w goes on as g and nothing but the rows may change besides.
Advance(w, g) ==
    /\ frames' = [frames EXCEPT ![w] = g]
    /\ UNCHANGED <<device, flush, ledger, changes, faults, historyVars>>

\* It is the same batch of the same device.
Kin(fr, g) ==
    /\ g \in Replays /\ ReplayOK(g) /\ g.pc # "idle"
    /\ g.device = fr.device /\ g.batch = fr.batch /\ g.heard = fr.heard

\* A mutation gets its result, and the next one is looked at.
Answers(fr, g, status) ==
    /\ g.results = Append(fr.results, status) /\ g.staged = fr.staged /\ g.mirrored = fr.mirrored
    /\ g.pc \in {"look", "mirror"} /\ status \in Statuses

LEMMA LookIs ==
    ASSUME TInv, NEW w \in Workers, LookInLedger(w)
    PROVE  LET fr == frames[w] m == Current(fr) IN
           /\ fr.pc = "look" /\ Len(fr.results) + 1 \in DOMAIN fr.batch
           /\ m = fr.batch[Len(fr.results) + 1] /\ m \in Mutation
           /\ store' = store
           /\ \E g : /\ Advance(w, g) /\ Kin(fr, g)
                     /\ \/ /\ ledger[m.client][m.seq] = NoStatus /\ g.pc = "apply"
                           /\ g.results = fr.results /\ g.staged = fr.staged /\ g.mirrored = fr.mirrored
                        \/ Answers(fr, g, ledger[m.client][m.seq])
  <1> DEFINE fr == frames[w]
             m == Current(fr)
             prior == ledger[m.client][m.seq]
             looked == [fr EXCEPT !.pc = "apply"]
  <1>1. fr \in Replays /\ ReplayOK(fr) /\ fr.pc = "look"
    BY DEF TInv, Typed, ReplaysOK, LookInLedger
  <1>2. Len(fr.results) < Len(fr.batch) /\ fr.device \in Devices /\ fr.mirrored = 0
    BY <1>1 DEF ReplayOK
  <1>3. /\ Len(fr.results) + 1 \in DOMAIN fr.batch
        /\ m = fr.batch[Len(fr.results) + 1] /\ m \in Mutation
    BY <1>1, <1>2, CurrentIs
  <1>4. prior \in Statuses \cup {NoStatus}
    <2>1. m.client \in Clients /\ m.seq \in Seqs
      BY <1>3, MutationIs
    <2> QED BY <2>1 DEF TInv, Typed
  <1>5. store' = store /\ UNCHANGED <<device, flush, ledger, changes, faults, historyVars>>
    BY DEF LookInLedger
  <1> HIDE DEF m
  <1>6. CASE prior = NoStatus
    <2>1. frames' = [frames EXCEPT ![w] = looked]
      BY <1>6 DEF LookInLedger, Prior, m
    <2>2. /\ looked \in Replays /\ looked.pc = "apply" /\ looked.results = fr.results
          /\ looked.staged = fr.staged /\ looked.mirrored = fr.mirrored
          /\ looked.device = fr.device /\ looked.batch = fr.batch /\ looked.heard = fr.heard
      BY <1>1 DEF Replays
    <2> HIDE DEF looked
    <2>3. ReplayOK(looked)
      BY <1>1, <1>2, <2>2 DEF ReplayOK
    <2>4. Advance(w, looked) /\ Kin(fr, looked)
      BY <1>5, <2>1, <2>2, <2>3 DEF Advance, Kin
    <2> QED BY <1>1, <1>3, <1>5, <1>6, <2>2, <2>4 DEF m
  <1>7. CASE prior # NoStatus
    <2> DEFINE g == WithResult(fr, prior)
    <2>1. frames' = [frames EXCEPT ![w] = g]
      BY <1>7 DEF LookInLedger, Prior, m
    <2>2. prior \in Statuses
      BY <1>4, <1>7
    <2>3. /\ g \in Replays /\ g.device = fr.device /\ g.batch = fr.batch /\ g.heard = fr.heard
          /\ g.staged = fr.staged /\ g.mirrored = fr.mirrored
          /\ g.results = Append(fr.results, prior)
          /\ Len(g.results) = Len(fr.results) + 1 /\ Len(g.results) <= Len(g.batch)
          /\ g.pc \in {"look", "mirror"}
          /\ g.pc = "mirror" <=> Len(g.results) = Len(g.batch)
      BY <1>1, <1>2, <2>2, WithResultIs
    <2> HIDE DEF g
    <2>4. ReplayOK(g)
      BY <1>1, <1>2, <2>3 DEF ReplayOK, Replays
    <2>5. Advance(w, g) /\ Kin(fr, g) /\ Answers(fr, g, prior)
      BY <1>1, <1>5, <2>1, <2>2, <2>3, <2>4 DEF Advance, Kin, Answers
    <2> QED BY <1>1, <1>3, <1>5, <2>5 DEF m
  <1> QED BY <1>6, <1>7

LEMMA ApplyIs ==
    ASSUME TInv, NEW w \in Workers, ApplyMutation(w)
    PROVE  LET fr == frames[w] m == Current(fr) IN
           /\ fr.pc = "apply" /\ fr.mirrored = 0 /\ Len(fr.results) + 1 \in DOMAIN fr.batch
           /\ m = fr.batch[Len(fr.results) + 1] /\ m \in Mutation
           /\ GetRow(fr, m.doc) \in Rows
           /\ store' = store
           /\ \E g : /\ Advance(w, g) /\ Kin(fr, g)
                     /\ g.results = fr.results /\ g.staged = fr.staged /\ g.mirrored = fr.mirrored
                     /\ g.result = Execute(GetRow(fr, m.doc), m)
                     /\ g.pc = IF g.result.status = "rejected" THEN "note" ELSE "put"
  <1> DEFINE fr == frames[w]
             m == Current(fr)
             result == Execute(GetRow(fr, m.doc), m)
             g == [fr EXCEPT !.result = result,
                             !.pc = IF result.status = "rejected" THEN "note" ELSE "put"]
  <1>1. fr \in Replays /\ ReplayOK(fr) /\ fr.pc = "apply"
    BY DEF TInv, Typed, ReplaysOK, ApplyMutation
  <1>2. Len(fr.results) < Len(fr.batch) /\ fr.device \in Devices /\ fr.mirrored = 0
    BY <1>1 DEF ReplayOK
  <1>3. /\ Len(fr.results) + 1 \in DOMAIN fr.batch
        /\ m = fr.batch[Len(fr.results) + 1] /\ m \in Mutation
    BY <1>1, <1>2, CurrentIs
  <1>4. GetRow(fr, m.doc) \in Rows
    BY <1>1, <1>3, MutationIs, GetRowIs DEF TInv, Typed
  <1>5. /\ result \in Results /\ result.status \in Statuses
        /\ result.status # "rejected" => result.row \in Row
    BY <1>3, <1>4, ExecuteIs
  <1>6. /\ store' = store /\ UNCHANGED <<device, flush, ledger, changes, faults, historyVars>>
        /\ frames' = [frames EXCEPT ![w] = g]
    BY DEF ApplyMutation
  <1> HIDE DEF m, result
  <1>7. /\ g \in Replays /\ g.results = fr.results /\ g.result = result
        /\ g.pc = IF result.status = "rejected" THEN "note" ELSE "put"
        /\ g.staged = fr.staged /\ g.mirrored = fr.mirrored
        /\ g.device = fr.device /\ g.batch = fr.batch /\ g.heard = fr.heard
    BY <1>1, <1>5 DEF Replays
  <1> HIDE DEF g
  <1>8. ReplayOK(g)
    BY <1>1, <1>2, <1>5, <1>7 DEF ReplayOK, Replays
  <1>9. Advance(w, g) /\ Kin(fr, g)
    BY <1>6, <1>7, <1>8 DEF Advance, Kin
  <1> QED BY <1>1, <1>2, <1>3, <1>4, <1>6, <1>7, <1>9 DEF m, result

LEMMA PutIs ==
    ASSUME TInv, NEW w \in Workers, PutRow(w)
    PROVE  LET fr == frames[w] m == Current(fr) item == [doc |-> m.doc, row |-> fr.result.row] IN
           /\ fr.pc = "put" /\ fr.mirrored = 0 /\ Len(fr.results) + 1 \in DOMAIN fr.batch
           /\ m = fr.batch[Len(fr.results) + 1] /\ m \in Mutation
           /\ item \in Items /\ store' = store
           /\ \E g : /\ Advance(w, g) /\ Kin(fr, g)
                     /\ g.results = fr.results /\ g.mirrored = fr.mirrored
                     /\ g.staged = Append(fr.staged, item) /\ g.result = fr.result
                     /\ g.pc = "note"
  <1> DEFINE fr == frames[w]
             m == Current(fr)
             item == [doc |-> m.doc, row |-> fr.result.row]
             g == [fr EXCEPT !.pc = "note", !.staged = Append(@, item)]
  <1>1. fr \in Replays /\ ReplayOK(fr) /\ fr.pc = "put"
    BY DEF TInv, Typed, ReplaysOK, PutRow
  <1>2. /\ Len(fr.results) < Len(fr.batch) /\ fr.device \in Devices /\ fr.mirrored = 0
        /\ fr.result.row \in Row /\ fr.result.status \in Statuses
    BY <1>1 DEF ReplayOK
  <1>3. /\ Len(fr.results) + 1 \in DOMAIN fr.batch
        /\ m = fr.batch[Len(fr.results) + 1] /\ m \in Mutation
    BY <1>1, <1>2, CurrentIs
  <1>4. item \in Items
    BY <1>2, <1>3, MutationIs DEF Items
  <1>5. /\ store' = store /\ UNCHANGED <<device, flush, ledger, changes, faults, historyVars>>
        /\ frames' = [frames EXCEPT ![w] = g]
    BY DEF PutRow
  <1> HIDE DEF m, item
  <1>6. fr.staged \in Seq(Items) /\ Append(fr.staged, item) \in Seq(Items)
    BY <1>1, <1>4 DEF Replays
  <1>7. /\ g \in Replays /\ g.results = fr.results /\ g.result = fr.result /\ g.pc = "note"
        /\ g.staged = Append(fr.staged, item) /\ g.mirrored = fr.mirrored
        /\ g.device = fr.device /\ g.batch = fr.batch /\ g.heard = fr.heard
    BY <1>1, <1>6 DEF Replays
  <1>8. Len(g.staged) = Len(fr.staged) + 1 /\ Len(fr.staged) \in Nat
    BY <1>6, <1>7
  <1> HIDE DEF g
  <1>9. ReplayOK(g)
    BY <1>1, <1>2, <1>7, <1>8 DEF ReplayOK
  <1>10. Advance(w, g) /\ Kin(fr, g)
    BY <1>5, <1>7, <1>9 DEF Advance, Kin
  <1> QED BY <1>1, <1>2, <1>3, <1>4, <1>5, <1>7, <1>10 DEF m, item

LEMMA NoteIs ==
    ASSUME TInv, NEW w \in Workers, PutLedger(w)
    PROVE  LET fr == frames[w] m == Current(fr) IN
           /\ fr.pc = "note" /\ fr.mirrored = 0 /\ Len(fr.results) + 1 \in DOMAIN fr.batch
           /\ m = fr.batch[Len(fr.results) + 1] /\ m \in Mutation
           /\ store' = store
           /\ \E g : Advance(w, g) /\ Kin(fr, g) /\ Answers(fr, g, fr.result.status)
  <1> DEFINE fr == frames[w]
             m == Current(fr)
             bare == [fr EXCEPT !.result = NoResult]
             g == WithResult(bare, fr.result.status)
  <1>1. fr \in Replays /\ ReplayOK(fr) /\ fr.pc = "note"
    BY DEF TInv, Typed, ReplaysOK, PutLedger
  <1>2. /\ Len(fr.results) < Len(fr.batch) /\ fr.device \in Devices /\ fr.mirrored = 0
        /\ fr.result.status \in Statuses
    BY <1>1 DEF ReplayOK
  <1>3. /\ Len(fr.results) + 1 \in DOMAIN fr.batch
        /\ m = fr.batch[Len(fr.results) + 1] /\ m \in Mutation
    BY <1>1, <1>2, CurrentIs
  <1>4. /\ store' = store /\ UNCHANGED <<device, flush, ledger, changes, faults, historyVars>>
        /\ frames' = [frames EXCEPT ![w] = g]
    BY DEF PutLedger
  <1>5. NoResult \in Results
    BY DEF NoResult, Results, Rows
  <1>6. /\ bare \in Replays /\ bare.results = fr.results /\ bare.staged = fr.staged
        /\ bare.mirrored = fr.mirrored
        /\ bare.device = fr.device /\ bare.batch = fr.batch /\ bare.heard = fr.heard
    BY <1>1, <1>5 DEF Replays
  <1> HIDE DEF bare, m
  <1>7. /\ g \in Replays /\ g.device = fr.device /\ g.batch = fr.batch /\ g.heard = fr.heard
        /\ g.staged = fr.staged /\ g.mirrored = fr.mirrored
        /\ g.results = Append(fr.results, fr.result.status)
        /\ Len(g.results) = Len(fr.results) + 1 /\ Len(g.results) <= Len(g.batch)
        /\ g.pc \in {"look", "mirror"}
        /\ g.pc = "mirror" <=> Len(g.results) = Len(g.batch)
    <2>1. Len(bare.results) < Len(bare.batch)
      BY <1>2, <1>6
    <2> DEFINE status == fr.result.status
    <2>2. status \in Statuses /\ g = WithResult(bare, status)
      BY <1>2
    <2> HIDE DEF status, g
    <2>3. /\ g \in Replays /\ g.device = bare.device /\ g.batch = bare.batch /\ g.heard = bare.heard
          /\ g.staged = bare.staged /\ g.mirrored = bare.mirrored
          /\ g.results = Append(bare.results, status)
          /\ Len(g.results) = Len(bare.results) + 1 /\ Len(g.results) <= Len(g.batch)
          /\ g.pc \in {"look", "mirror"}
          /\ g.pc = "mirror" <=> Len(g.results) = Len(g.batch)
      BY <1>6, <2>1, <2>2, WithResultIs
    <2> QED BY <1>6, <2>3 DEF status
  <1> HIDE DEF g
  <1>8. ReplayOK(g)
    BY <1>1, <1>2, <1>7 DEF ReplayOK, Replays
  <1>9. Advance(w, g) /\ Kin(fr, g) /\ Answers(fr, g, fr.result.status)
    BY <1>2, <1>4, <1>7, <1>8 DEF Advance, Kin, Answers
  <1> QED BY <1>1, <1>2, <1>3, <1>4, <1>9 DEF m

LEMMA MirrorIs ==
    ASSUME TInv, NEW w \in Workers, MirrorRow(w)
    PROVE  LET fr == frames[w] item == fr.staged[fr.mirrored + 1] IN
           /\ fr.pc = "mirror" /\ fr.mirrored + 1 \in DOMAIN fr.staged
           /\ item.doc \in Docs /\ item.row \in Row
           /\ store' = [store EXCEPT ![item.doc] = item.row]
           /\ store' \in [Docs -> Rows]
           /\ \E g : /\ Advance(w, g) /\ Kin(fr, g)
                     /\ g.results = fr.results /\ g.staged = fr.staged
                     /\ g.mirrored = fr.mirrored + 1 /\ g.pc = "mirror"
  <1> DEFINE fr == frames[w]
             item == fr.staged[fr.mirrored + 1]
             g == [fr EXCEPT !.mirrored = @ + 1]
  <1>1. fr \in Replays /\ ReplayOK(fr) /\ fr.pc = "mirror" /\ fr.mirrored < Len(fr.staged)
    BY DEF TInv, Typed, ReplaysOK, MirrorRow, Mirroring
  <1>2. fr.staged \in Seq(Items) /\ fr.mirrored \in Nat
    BY <1>1 DEF Replays
  <1>3. fr.mirrored + 1 \in DOMAIN fr.staged /\ item \in Items
    BY <1>1, <1>2
  <1>4. item.doc \in Docs /\ item.row \in Row
    BY <1>3 DEF Items
  <1>5. store' = [store EXCEPT ![item.doc] = item.row]
    BY DEF MirrorRow, NextStaged
  <1>6. UNCHANGED <<device, flush, ledger, changes, faults, historyVars>>
    BY DEF MirrorRow
  <1>7. frames' = [frames EXCEPT ![w] = g]
    BY DEF MirrorRow, TInv, Typed
  <1> HIDE DEF item
  <1>8. store' \in [Docs -> Rows]
    BY <1>4, <1>5 DEF TInv, Typed, Rows
  <1>9. /\ g \in Replays /\ g.results = fr.results /\ g.pc = "mirror"
        /\ g.staged = fr.staged /\ g.mirrored = fr.mirrored + 1
        /\ g.device = fr.device /\ g.batch = fr.batch /\ g.heard = fr.heard
    BY <1>1, <1>2 DEF Replays
  <1> HIDE DEF g
  <1>10. ReplayOK(g)
    BY <1>1, <1>2, <1>9 DEF ReplayOK, Replays
  <1>11. Advance(w, g) /\ Kin(fr, g)
    BY <1>6, <1>7, <1>9, <1>10 DEF Advance, Kin
  <1> QED BY <1>1, <1>3, <1>4, <1>5, <1>8, <1>9, <1>11 DEF item

\* Every step of a replay but its end goes on with it.
LEMMA AdvanceTyped ==
    ASSUME TInv, NEW w \in Workers, NEW g, Advance(w, g), Kin(frames[w], g),
           store' \in [Docs -> Rows]
    PROVE  TInv'
  <1>1. frames' \in [Workers -> Replays]
    BY DEF Advance, Kin, TInv, Typed
  <1>2. Typed'
    BY <1>1 DEF Advance, historyVars, TInv, Typed
  <1>3. ReplaysOK'
    BY DEF Advance, Kin, TInv, Typed, ReplaysOK
  <1> QED BY <1>2, <1>3 DEF Advance, historyVars, TInv, Numbered, Copied

-----------------------------------------------------------------------------
(* What each step of a device makes of it *)

\* The mutation that goes into the queue.
Fresh(d, m) ==
    /\ m \in Mutation /\ m.client = ClientOf[d]
    /\ m.seq = device[d].next /\ m.change = changes + 1

\* An edit is made over a row the device has or was shown.
OverWhatIsSeen(d, m) == m.name = "edit" =>
    \E row \in {device[d].local[m.doc], store[m.doc]} \ {NoRow} : m.base = row[m.field]

LEMMA QueueIs ==
    ASSUME TInv, NEW d \in Devices, NEW doc \in Docs,
           QueueCreate(d, doc) \/ \E f \in Fields : QueueEdit(d, doc, f)
    PROVE  \E m : \E migrated \in SUBSET Docs :
                Fresh(d, m) /\ OverWhatIsSeen(d, m) /\ EnqueueMutation(d, m, migrated)
  <1>0. changes < MaxChanges
    BY DEF QueueCreate, QueueEdit, EnqueueMutation
  <1>1. /\ device[d] \in Device /\ device[d].next \in Seqs /\ device[d].migrated \in SUBSET Docs
        /\ device[d].local \in [Docs -> Rows]
        /\ store[doc] \in Rows /\ ClientOf[d] \in Clients /\ changes \in Nat
    BY SyncAssumption DEF TInv, Typed, Device, Clients
  <1>2. changes + 1 \in 1..MaxChanges
    BY <1>0, <1>1, SyncAssumption
  <1>3. CASE QueueCreate(d, doc)
    <2>0. PICK fills \in SUBSET Fields :
            EnqueueMutation(d,
                [client |-> ClientOf[d], seq |-> device[d].next, name |-> "record.create",
                 doc |-> doc, fills |-> fills, change |-> changes + 1],
                device[d].migrated \cup {doc})
      BY <1>3 DEF QueueCreate
    <2> DEFINE m == [client |-> ClientOf[d], seq |-> device[d].next, name |-> "record.create",
                     doc |-> doc, fills |-> fills, change |-> changes + 1]
    <2>1. m \in Creation
      BY <1>1, <1>2 DEF Creation
    <2>2. EnqueueMutation(d, m, device[d].migrated \cup {doc})
      BY <2>0
    <2>3. m.client = ClientOf[d] /\ m.seq = device[d].next /\ m.change = changes + 1 /\ m.name # "edit"
      OBVIOUS
    <2> HIDE DEF m
    <2>4. m \in Mutation
      BY <2>1 DEF Mutation
    <2>5. Fresh(d, m) /\ OverWhatIsSeen(d, m)
      BY <2>3, <2>4 DEF Fresh, OverWhatIsSeen
    <2> QED BY <1>1, <1>2, <2>2, <2>5
  <1>4. ASSUME NEW f \in Fields, QueueEdit(d, doc, f)
        PROVE  \E m : \E migrated \in SUBSET Docs :
                Fresh(d, m) /\ OverWhatIsSeen(d, m) /\ EnqueueMutation(d, m, migrated)
    <2>1. PICK row \in {device[d].local[doc], store[doc]} \ {NoRow} :
            EnqueueMutation(d,
                [client |-> ClientOf[d], seq |-> device[d].next, name |-> "edit", doc |-> doc,
                 field |-> f, base |-> row[f], change |-> changes + 1],
                device[d].migrated)
      BY <1>4 DEF QueueEdit
    <2> DEFINE m == [client |-> ClientOf[d], seq |-> device[d].next, name |-> "edit", doc |-> doc,
                     field |-> f, base |-> row[f], change |-> changes + 1]
    <2>2. row[f] \in 0..MaxChanges
      <3>1. row \in Rows /\ row # NoRow
        BY <1>1, <2>1
      <3>2. row \in Row
        BY <3>1, RowIs
      <3> QED BY <3>2 DEF Row
    <2>3. m \in Edit
      BY <1>1, <1>2, <2>2 DEF Edit
    <2>4. EnqueueMutation(d, m, device[d].migrated)
      BY <2>1
    <2>5. /\ m.client = ClientOf[d] /\ m.seq = device[d].next /\ m.change = changes + 1
          /\ m.doc = doc /\ m.field = f /\ m.base = row[f]
      OBVIOUS
    <2> HIDE DEF m
    <2>6. m \in Mutation
      BY <2>3 DEF Mutation
    <2>7. Fresh(d, m) /\ OverWhatIsSeen(d, m)
      BY <2>1, <2>5, <2>6 DEF Fresh, OverWhatIsSeen
    <2> QED BY <1>1, <1>2, <2>4, <2>7
  <1> QED BY <1>3, <1>4

LEMMA EnqueueIs ==
    ASSUME TInv, NEW d \in Devices, NEW m, NEW migrated \in SUBSET Docs,
           Fresh(d, m), EnqueueMutation(d, m, migrated)
    PROVE  /\ TInv'
           /\ \A e \in Devices : e # d => device'[e] = device[e]
           /\ device'[d].pending = Append(device[d].pending, m)
           /\ device'[d].next = device[d].next + 1
           /\ device'[d].local = [device[d].local EXCEPT ![m.doc] = Execute(device[d].local[m.doc], m).row]
           /\ changes' = changes + 1 /\ changes < MaxChanges
           /\ fate' = [fate EXCEPT ![changes + 1] = "queued"]
           /\ UNCHANGED <<flush, serverVars, faults, promised, noted, told, overlapped>>
  <1> DEFINE old == device[d]
             local == [old.local EXCEPT ![m.doc] = Execute(old.local[m.doc], m).row]
             new == [pending |-> Append(old.pending, m), next |-> old.next + 1,
                     migrated |-> migrated, local |-> local]
  <1>1. /\ old.pending \in Seq(Mutation) /\ old.next \in Seqs /\ old.local \in [Docs -> Rows]
        /\ changes \in Nat /\ changes < MaxChanges /\ MaxChanges \in Nat
        /\ old.next <= changes + 1
    BY SyncAssumption DEF TInv, Typed, Numbered, Device, EnqueueMutation
  <1>2. m \in Mutation /\ m.doc \in Docs /\ m.change = changes + 1
    BY MutationIs DEF Fresh
  <1>3. local \in [Docs -> Rows]
    <2>1. Execute(old.local[m.doc], m).row \in Rows
      BY <1>1, <1>2, ExecuteIs
    <2> QED BY <1>1, <2>1
  <1>4. /\ device' = [device EXCEPT ![d] = new]
        /\ changes' = changes + 1 /\ fate' = [fate EXCEPT ![changes + 1] = "queued"]
        /\ UNCHANGED <<flush, serverVars, faults, promised, noted, told, overlapped>>
    BY <1>2 DEF EnqueueMutation
  <1>5. Append(old.pending, m) \in Seq(Mutation) /\ old.next + 1 \in Seqs
    BY <1>1, <1>2 DEF Seqs
  <1> HIDE DEF local
  <1>6. new \in Device
    BY <1>3, <1>5 DEF Device
  <1>7. /\ new.pending = Append(old.pending, m) /\ new.next = old.next + 1 /\ new.local = local
    OBVIOUS
  <1> HIDE DEF new, old
  <1>8. /\ device' \in [Devices -> Device] /\ device'[d] = new
        /\ \A e \in Devices : e # d => device'[e] = device[e]
    BY <1>4, <1>6 DEF TInv, Typed
  <1>9. changes' \in 0..MaxChanges /\ changes + 1 \in 1..MaxChanges
    BY <1>1, <1>4
  <1>10. fate' \in [1..MaxChanges -> {"unmade", "online", "queued", "confirmed", "dropped"}]
    BY <1>4, <1>9 DEF TInv, Typed
  <1>11. Typed'
    BY <1>4, <1>8, <1>9, <1>10 DEF TInv, Typed, serverVars
  <1>12. \A e \in Devices : device[e].next \in Nat /\ device[e].next <= changes + 1
    BY SyncAssumption DEF TInv, Typed, Numbered, Device, Seqs
  <1>13. Numbered'
    <2> SUFFICES ASSUME NEW e \in Devices PROVE device'[e].next <= changes' + 1
      BY DEF Numbered
    <2>1. device'[e].next = device[e].next \/ device'[e].next = device[e].next + 1
      BY <1>7, <1>8 DEF old
    <2> QED BY <1>1, <1>4, <1>12, <2>1
  <1>14. Copied'
    <2> SUFFICES ASSUME NEW e \in Devices, flush'[e].pc # "idle"
                 PROVE  flush'[e].copy \in Device /\ flush'[e].copy.next <= device'[e].next
      BY DEF Copied
    <2>1. flush'[e] = flush[e]
      BY <1>4
    <2>2. flush[e].copy \in Device /\ flush[e].copy.next <= device[e].next
      BY <2>1 DEF TInv, Copied
    <2>3. flush[e].copy.next \in Nat
      BY <2>2 DEF Device, Seqs
    <2>4. device'[e].next = device[e].next \/ device'[e].next = device[e].next + 1
      BY <1>7, <1>8 DEF old
    <2> QED BY <1>12, <2>1, <2>2, <2>3, <2>4
  <1>15. ReplaysOK'
    BY <1>4 DEF serverVars, TInv, ReplaysOK
  <1> QED BY <1>1, <1>4, <1>7, <1>8, <1>11, <1>13, <1>14, <1>15 DEF TInv, old, local

LEMMA ForgetIs ==
    ASSUME TInv, NEW d \in Devices, NEW doc \in Docs, ForgetDoc(d, doc)
    PROVE  /\ TInv'
           /\ \A e \in Devices : e # d => device'[e] = device[e]
           /\ device'[d].next = device[d].next /\ device'[d].local = device[d].local
           /\ \E S \in SUBSET DOMAIN device[d].pending :
                /\ device'[d].pending = Keep(device[d].pending, S)
                /\ \A i \in DOMAIN device[d].pending \ S :
                    LET n == device[d].pending[i].change IN n \in 1..MaxChanges /\ fate'[n] = "dropped"
           /\ \A n \in 1..MaxChanges : fate'[n] = fate[n] \/ fate'[n] = "dropped"
           /\ UNCHANGED <<flush, serverVars, changes, faults, promised, noted, told, overlapped>>
  <1> DEFINE old == device[d]
             S == {i \in DOMAIN old.pending : ~Forgotten(old.pending[i], doc)}
             created == {i \in DOMAIN old.pending :
                            old.pending[i].name = "record.create" /\ old.pending[i].doc = doc}
             gone == {old.pending[i].change : i \in created}
             new == [old EXCEPT !.pending = Keep(old.pending, S)]
  <1>1. old \in Device /\ old.pending \in Seq(Mutation)
    BY DEF TInv, Typed, Device
  <1>2. /\ device' = [device EXCEPT ![d].pending =
                Keep(device[d].pending, {i \in DOMAIN device[d].pending : ~Forgotten(device[d].pending[i], doc)})]
        /\ fate' = [n \in DOMAIN fate |-> IF n \in gone THEN "dropped" ELSE fate[n]]
        /\ UNCHANGED <<flush, serverVars, changes, faults, promised, noted, told, overlapped>>
    BY DEF ForgetDoc
  <1>3. device' = [device EXCEPT ![d] = new]
    BY <1>2
  <1>4. S \in SUBSET DOMAIN old.pending
    OBVIOUS
  <1>5. Keep(old.pending, S) \in Seq(Mutation)
    BY <1>1, <1>4, KeepIs
  <1>6. \A i \in DOMAIN old.pending \ S : old.pending[i].change \in gone
    BY DEF Forgotten
  <1>7. \A i \in DOMAIN old.pending : old.pending[i].change \in 1..MaxChanges
    <2> SUFFICES ASSUME NEW i \in DOMAIN old.pending PROVE old.pending[i].change \in 1..MaxChanges
      OBVIOUS
    <2>1. old.pending[i] \in Mutation
      BY <1>1
    <2> QED BY <2>1, MutationIs
  <1> HIDE DEF S, gone
  <1>8. /\ new \in Device /\ new.next = old.next /\ new.local = old.local
        /\ new.pending = Keep(old.pending, S)
    BY <1>1, <1>5 DEF Device
  <1> HIDE DEF new
  <1>9. /\ device' \in [Devices -> Device] /\ device'[d] = new
        /\ \A e \in Devices : e # d => device'[e] = device[e]
    BY <1>3, <1>8 DEF TInv, Typed
  <1>10. /\ fate' \in [1..MaxChanges -> {"unmade", "online", "queued", "confirmed", "dropped"}]
         /\ \A n \in 1..MaxChanges : fate'[n] = IF n \in gone THEN "dropped" ELSE fate[n]
    BY <1>2 DEF TInv, Typed
  <1>11. Typed'
    BY <1>2, <1>9, <1>10 DEF TInv, Typed, serverVars
  <1>12. \A e \in Devices : device'[e].next = device[e].next
    BY <1>8, <1>9
  <1>13. Numbered' /\ Copied'
    BY <1>2, <1>12 DEF TInv, Numbered, Copied
  <1>14. ReplaysOK'
    BY <1>2 DEF serverVars, TInv, ReplaysOK
  <1> QED BY <1>2, <1>4, <1>6, <1>7, <1>8, <1>9, <1>10, <1>11, <1>13, <1>14 DEF TInv

LEMMA FlushBeginsIs ==
    ASSUME TInv, NEW d \in Devices, NEW w \in Workers, FlushBegins(d, w)
    PROVE  \E fr \in Replays, fl \in Flushes :
           /\ TInv'
           /\ flush[d].pc = "idle" /\ frames[w].pc = "idle"
           /\ flush' = [flush EXCEPT ![d] = fl] /\ frames' = [frames EXCEPT ![w] = fr]
           /\ fl.pc = "posted" /\ fl.copy = device[d] /\ fl.results = <<>>
           /\ fr.pc = "look" /\ fr.device = d /\ fr.batch = device[d].pending /\ fr.heard
           /\ fr.results = <<>> /\ fr.staged = <<>> /\ fr.mirrored = 0
           /\ overlapped' = (overlapped \/ Replaying)
           /\ UNCHANGED <<device, store, ledger, changes, faults, fate, promised, noted, told>>
  <1> DEFINE fr == [NoFrame EXCEPT !.pc = "look", !.device = d, !.batch = device[d].pending,
                                   !.heard = TRUE]
             fl == [NoFlush EXCEPT !.pc = "posted", !.copy = device[d]]
  <1>1. /\ flush[d].pc = "idle" /\ frames[w].pc = "idle" /\ device[d].pending # <<>>
        /\ flush' = [flush EXCEPT ![d] = fl] /\ frames' = [frames EXCEPT ![w] = fr]
        /\ overlapped' = (overlapped \/ Replaying)
        /\ UNCHANGED <<device, store, ledger, changes, faults, fate, promised, noted, told>>
    BY DEF FlushBegins
  <1>2. /\ device[d] \in Device /\ device[d].pending \in Seq(Mutation) /\ device[d].next \in Nat
        /\ Len(device[d].pending) > 0
    BY <1>1 DEF TInv, Typed, Device, Seqs
  <1>3. /\ fl \in Flushes /\ fl.pc = "posted" /\ fl.copy = device[d] /\ fl.results = <<>>
    <2> DEFINE none == NoFlush
    <2>1. none \in Flushes /\ none.results = <<>>
      BY NoneIs
    <2> HIDE DEF none
    <2>2. /\ [none EXCEPT !.pc = "posted", !.copy = device[d]] \in Flushes
          /\ [none EXCEPT !.pc = "posted", !.copy = device[d]].pc = "posted"
          /\ [none EXCEPT !.pc = "posted", !.copy = device[d]].copy = device[d]
          /\ [none EXCEPT !.pc = "posted", !.copy = device[d]].results = none.results
      BY <1>2, <2>1 DEF Flushes
    <2> QED BY <2>1, <2>2 DEF none
  <1>5. /\ fr \in Replays
        /\ fr.pc = "look" /\ fr.device = d /\ fr.batch = device[d].pending /\ fr.heard
        /\ fr.results = <<>> /\ fr.staged = <<>> /\ fr.mirrored = 0
    <2> DEFINE none == NoFrame
               heard == TRUE
               new == [none EXCEPT !.pc = "look", !.device = d, !.batch = device[d].pending,
                                   !.heard = heard]
    <2>1. none \in Replays /\ none.results = <<>> /\ none.staged = <<>> /\ none.mirrored = 0
      BY NoneIs
    <2>2. heard \in BOOLEAN /\ heard
      OBVIOUS
    <2> HIDE DEF none, heard
    <2>3. /\ new \in Replays
          /\ new.pc = "look" /\ new.device = d /\ new.batch = device[d].pending /\ new.heard = heard
          /\ new.results = none.results /\ new.staged = none.staged /\ new.mirrored = none.mirrored
      BY <1>2, <2>1, <2>2 DEF Replays
    <2> HIDE DEF new
    <2>4. new = fr
      BY DEF new, none, heard
    <2> HIDE DEF fr
    <2> QED BY <2>1, <2>2, <2>3, <2>4
  <1> HIDE DEF fr, fl
  <1>6. ReplayOK(fr)
    BY <1>2, <1>5 DEF ReplayOK
  <1>7. flush' \in [Devices -> Flushes] /\ frames' \in [Workers -> Replays]
    BY <1>1, <1>3, <1>5 DEF TInv, Typed
  <1>8. overlapped' \in BOOLEAN
    BY <1>1 DEF TInv, Typed, Replaying
  <1>9. Typed'
    BY <1>1, <1>7, <1>8 DEF TInv, Typed
  <1>10. Numbered' /\ Copied' /\ ReplaysOK'
    BY <1>1, <1>2, <1>3, <1>6 DEF TInv, Typed, Numbered, Copied, ReplaysOK
  <1> QED BY <1>1, <1>3, <1>5, <1>9, <1>10 DEF TInv

\* The devices and replays when the answer arrives.
LEMMA FlushEndsIs ==
    ASSUME TInv, NEW d \in Devices, FlushEnds(d)
    PROVE  LET fl == flush[d]
               pending == fl.copy.pending
               kept == {i \in DOMAIN pending : pending[i].seq \notin ConfirmedSeqs(fl)}
           IN
           /\ TInv'
           /\ fl.pc = "answered" /\ fl.copy \in Device /\ fl.copy.next <= device[d].next
           /\ \A e \in Devices : e # d => device'[e] = device[e]
           /\ device'[d].next = fl.copy.next /\ device'[d].local = fl.copy.local
           /\ device'[d].pending = Keep(pending, kept)
           /\ \A i \in DOMAIN pending \ kept :
                LET n == pending[i].change IN n \in 1..MaxChanges /\ fate'[n] # "queued"
           /\ \A n \in 1..MaxChanges : fate'[n] = fate[n] \/ (fate[n] = "queued" /\ fate'[n] = "confirmed")
           /\ \A n \in 1..MaxChanges : fate'[n] # fate[n] => \E i \in DOMAIN pending \ kept : pending[i].change = n
           /\ \A p \in promised' : p \in promised \/ \E i \in DOMAIN pending \ kept :
                pending[i].name = "record.create" /\ p.doc = pending[i].doc
                    /\ p.seq = pending[i].seq /\ p.device = d
           /\ flush' = [flush EXCEPT ![d] = NoFlush]
           /\ UNCHANGED <<serverVars, changes, faults, noted, told, overlapped>>
  <1> DEFINE fl == flush[d]
             pending == fl.copy.pending
             kept == {i \in DOMAIN pending : pending[i].seq \notin ConfirmedSeqs(fl)}
             gone == {pending[i] : i \in DOMAIN pending \ kept}
             new == [fl.copy EXCEPT !.pending = Keep(pending, kept)]
             created == {[device |-> d, seq |-> m.seq, doc |-> m.doc] :
                            m \in {g \in gone : g.name = "record.create"}}
  <1>1. /\ fl.pc = "answered"
        /\ device' = [device EXCEPT ![d] = new]
        /\ fate' = [n \in DOMAIN fate |-> IF fate[n] = "queued" /\ n \in {m.change : m \in gone}
                                             THEN "confirmed" ELSE fate[n]]
        /\ promised' = promised \cup created
        /\ flush' = [flush EXCEPT ![d] = NoFlush]
        /\ UNCHANGED <<serverVars, changes, faults, noted, told, overlapped>>
    BY DEF FlushEnds
  <1>2. fl.copy \in Device /\ fl.copy.next <= device[d].next
    BY <1>1 DEF TInv, Copied
  <1>3. pending \in Seq(Mutation) /\ kept \in SUBSET DOMAIN pending
    BY <1>2 DEF Device
  <1>4. Keep(pending, kept) \in Seq(Mutation)
    BY <1>3, KeepIs
  <1>5. \A i \in DOMAIN pending :
            pending[i].change \in 1..MaxChanges /\ pending[i].doc \in Docs /\ pending[i].seq \in Seqs
    <2> SUFFICES ASSUME NEW i \in DOMAIN pending
                 PROVE  pending[i].change \in 1..MaxChanges /\ pending[i].doc \in Docs
                            /\ pending[i].seq \in Seqs
      OBVIOUS
    <2>1. pending[i] \in Mutation
      BY <1>3
    <2> QED BY <2>1, MutationIs
  <1>6. \A p \in created : \E i \in DOMAIN pending \ kept :
            pending[i].name = "record.create" /\ p.doc = pending[i].doc
                /\ p.seq = pending[i].seq /\ p.device = d
    OBVIOUS
  <1>7. created \subseteq Promises
    BY <1>5 DEF Promises
  <1>8. \A n : n \in {m.change : m \in gone} <=> \E i \in DOMAIN pending \ kept : pending[i].change = n
    OBVIOUS
  <1> HIDE DEF kept, gone, created
  <1>9. /\ new \in Device /\ new.next = fl.copy.next /\ new.local = fl.copy.local
        /\ new.pending = Keep(pending, kept)
    BY <1>2, <1>4 DEF Device
  <1> HIDE DEF new
  <1>10. /\ device' \in [Devices -> Device] /\ device'[d] = new
         /\ \A e \in Devices : e # d => device'[e] = device[e]
    BY <1>1, <1>9 DEF TInv, Typed
  <1>11. /\ fate' \in [1..MaxChanges -> {"unmade", "online", "queued", "confirmed", "dropped"}]
         /\ \A n \in 1..MaxChanges :
                fate'[n] = IF fate[n] = "queued" /\ n \in {m.change : m \in gone}
                           THEN "confirmed" ELSE fate[n]
    BY <1>1 DEF TInv, Typed
  <1>12. NoFlush \in Flushes /\ NoFlush.pc = "idle"
    BY NoneIs
  <1>13. flush' \in [Devices -> Flushes]
    BY <1>1, <1>12 DEF TInv, Typed
  <1>14. promised' \subseteq Promises
    BY <1>1, <1>7 DEF TInv, Typed
  <1>15. Typed'
    BY <1>1, <1>10, <1>11, <1>13, <1>14 DEF TInv, Typed, serverVars
  <1>16. Numbered'
    <2> SUFFICES ASSUME NEW e \in Devices PROVE device'[e].next <= changes + 1
      BY <1>1 DEF Numbered
    <2>1. device[e].next <= changes + 1 /\ device[e].next \in Nat /\ changes \in Nat
      BY SyncAssumption DEF TInv, Typed, Numbered, Device, Seqs
    <2>2. fl.copy.next \in Nat
      BY <1>2 DEF Device, Seqs
    <2>3. CASE e = d
      BY <1>2, <1>9, <1>10, <2>1, <2>2, <2>3
    <2>4. CASE e # d
      BY <1>10, <2>1, <2>4
    <2> QED BY <2>3, <2>4
  <1>17. Copied'
    <2> SUFFICES ASSUME NEW e \in Devices, flush'[e].pc # "idle"
                 PROVE  flush'[e].copy \in Device /\ flush'[e].copy.next <= device'[e].next
      BY DEF Copied
    <2>1. e # d /\ flush'[e] = flush[e]
      BY <1>1, <1>12 DEF TInv, Typed
    <2> QED BY <1>10, <2>1 DEF TInv, Copied
  <1>18. ReplaysOK'
    BY <1>1 DEF serverVars, TInv, ReplaysOK
  <1>19. TInv'
    BY <1>15, <1>16, <1>17, <1>18 DEF TInv
  <1>20. \A p \in promised' : p \in promised \/ \E i \in DOMAIN pending \ kept :
            pending[i].name = "record.create" /\ p.doc = pending[i].doc
                /\ p.seq = pending[i].seq /\ p.device = d
    BY <1>1, <1>6
  <1>21. /\ \A i \in DOMAIN pending \ kept :
                LET n == pending[i].change IN n \in 1..MaxChanges /\ fate'[n] # "queued"
         /\ \A n \in 1..MaxChanges : fate'[n] = fate[n] \/ (fate[n] = "queued" /\ fate'[n] = "confirmed")
         /\ \A n \in 1..MaxChanges : fate'[n] # fate[n] =>
                \E i \in DOMAIN pending \ kept : pending[i].change = n
    BY <1>5, <1>8, <1>11
  <1> QED BY <1>1, <1>2, <1>9, <1>10, <1>19, <1>20, <1>21 DEF kept

\* Nothing but who is waited for changes in a replay.
Same(fr, g) ==
    /\ g.pc = fr.pc /\ g.device = fr.device /\ g.batch = fr.batch /\ g.result = fr.result
    /\ g.results = fr.results /\ g.staged = fr.staged /\ g.mirrored = fr.mirrored

LEMMA PostFailsIs ==
    ASSUME TInv, NEW d \in Devices, PostFails(d)
    PROVE  /\ TInv'
           /\ flush[d].pc # "idle"
           /\ flush' = [flush EXCEPT ![d] = NoFlush] /\ NoFlush.pc = "idle"
           /\ \A w \in Workers :
                /\ Same(frames[w], frames'[w])
                /\ frames'[w].heard => frames[w].heard /\ frames[w].device # d
           /\ UNCHANGED <<device, store, ledger, changes, historyVars>>
  <1>1. /\ flush[d].pc # "idle" /\ faults < MaxFaults /\ faults' = faults + 1
        /\ flush' = [flush EXCEPT ![d] = NoFlush] /\ frames' = Unheard(d)
        /\ UNCHANGED <<device, store, ledger, changes, historyVars>>
    BY DEF PostFails
  <1>2. NoFlush \in Flushes /\ NoFlush.pc = "idle"
    BY NoneIs
  <1>3. ASSUME NEW w \in Workers
        PROVE  /\ frames'[w] \in Replays /\ Same(frames[w], frames'[w])
               /\ frames'[w].heard => frames[w].heard /\ frames[w].device # d
    <2> DEFINE no == FALSE
               g == [frames[w] EXCEPT !.heard = no]
    <2>1. frames[w] \in Replays
      BY DEF TInv, Typed
    <2>2. frames'[w] = IF frames[w].device = d THEN g ELSE frames[w]
      BY <1>1 DEF Unheard
    <2>3. no \in BOOLEAN /\ ~no
      OBVIOUS
    <2> HIDE DEF no
    <2>4. g \in Replays /\ Same(frames[w], g) /\ g.heard = no
      BY <2>1, <2>3 DEF Replays, Same
    <2> HIDE DEF g
    <2>5. Same(frames[w], frames[w])
      BY DEF Same
    <2>6. CASE frames[w].device = d
      <3>1. frames'[w] = g
        BY <2>2, <2>6
      <3> QED BY <2>3, <2>4, <3>1
    <2>7. CASE frames[w].device # d
      <3>1. frames'[w] = frames[w]
        BY <2>2, <2>7
      <3> QED BY <2>1, <2>5, <2>7, <3>1
    <2> QED BY <2>6, <2>7
  <1>4. frames' \in [Workers -> Replays]
    <2>1. frames' = [w \in Workers |-> frames'[w]]
      BY <1>1 DEF Unheard
    <2> QED BY <1>3, <2>1
  <1>5. Typed'
    <2>1. faults' \in 0..MaxFaults
      BY <1>1, SyncAssumption DEF TInv, Typed
    <2> QED BY <1>1, <1>2, <1>4, <2>1 DEF historyVars, TInv, Typed
  <1>6. Numbered' /\ Copied'
    BY <1>1, <1>2 DEF TInv, Typed, Numbered, Copied
  <1>7. ReplaysOK'
    <2> SUFFICES ASSUME NEW w \in Workers PROVE ReplayOK(frames'[w])
      BY DEF ReplaysOK
    <2>1. ReplayOK(frames[w]) /\ Same(frames[w], frames'[w])
      BY <1>3 DEF TInv, ReplaysOK
    <2> QED BY <2>1 DEF ReplayOK, Same
  <1> QED BY <1>1, <1>2, <1>3, <1>5, <1>6, <1>7 DEF TInv

\* A batch that ends without an answer to keep.
LEMMA RolledIs ==
    ASSUME TInv, NEW w \in Workers, frames[w].pc # "idle", RolledBack(w), faults' \in 0..MaxFaults
    PROVE  /\ TInv'
           /\ frames' = [frames EXCEPT ![w] = NoFrame]
           /\ \A d \in Devices :
                \/ flush'[d] = flush[d] /\ ~(frames[w].heard /\ frames[w].device = d)
                \/ flush'[d] = NoFlush /\ frames[w].heard /\ frames[w].device = d
           /\ UNCHANGED <<device, store, ledger, changes, historyVars>>
  <1>1. /\ frames' = [frames EXCEPT ![w] = NoFrame]
        /\ flush' = IF frames[w].heard THEN [flush EXCEPT ![frames[w].device] = NoFlush] ELSE flush
        /\ UNCHANGED <<device, store, ledger, changes, historyVars>>
    BY DEF RolledBack
  <1>2. frames[w].device \in Devices
    BY DEF TInv, ReplaysOK, ReplayOK
  <1>3. /\ flush' \in [Devices -> Flushes]
        /\ \A d \in Devices :
                \/ flush'[d] = flush[d] /\ ~(frames[w].heard /\ frames[w].device = d)
                \/ flush'[d] = NoFlush /\ frames[w].heard /\ frames[w].device = d
    <2>1. CASE frames[w].heard
      <3>1. flush' = [flush EXCEPT ![frames[w].device] = NoFlush]
        BY <1>1, <2>1
      <3> QED BY <1>2, <2>1, <3>1, NoneIs DEF TInv, Typed
    <2>2. CASE ~frames[w].heard
      <3>1. flush' = flush
        BY <1>1, <2>2
      <3> QED BY <2>2, <3>1 DEF TInv, Typed
    <2> QED BY <2>1, <2>2
  <1>4. frames' \in [Workers -> Replays] /\ ReplaysOK'
    BY <1>1, NoneIs DEF TInv, Typed, ReplaysOK
  <1>5. Typed'
    BY <1>1, <1>3, <1>4 DEF historyVars, TInv, Typed
  <1>6. Numbered' /\ Copied'
    BY <1>1, <1>3, NoneIs DEF TInv, Numbered, Copied
  <1> QED BY <1>1, <1>3, <1>4, <1>5, <1>6 DEF TInv

\* The requests that roll back: one that is refused, one of two that wait for each
\* other, one that fails.
LEMMA RollsBack ==
    ASSUME TInv, NEW w \in Workers, StoreRefuses(w) \/ DeadlockBroken(w) \/ BatchFails(w)
    PROVE  frames[w].pc # "idle" /\ RolledBack(w) /\ faults' \in 0..MaxFaults
  <1>1. CASE StoreRefuses(w)
    BY <1>1 DEF StoreRefuses, Mirroring, TInv, Typed
  <1>2. CASE DeadlockBroken(w)
    BY <1>2 DEF DeadlockBroken, Waits, TInv, Typed
  <1>3. CASE BatchFails(w)
    BY <1>3, SyncAssumption DEF BatchFails, TInv, Typed
  <1> QED BY <1>1, <1>2, <1>3

-----------------------------------------------------------------------------
(* A request whose answer is waited for is the one its device posted *)

Waited(w, d) == frames[w].pc # "idle" /\ frames[w].heard /\ frames[w].device = d

Heard ==
    /\ \A d \in Devices, w \in Workers : Waited(w, d) =>
        flush[d].pc = "posted" /\ flush[d].copy.pending = frames[w].batch
    /\ \A d \in Devices, v, w \in Workers : Waited(v, d) /\ Waited(w, d) => v = w

LEMMA CommitIs ==
    ASSUME TInv, Heard, NEW w \in Workers, Commit(w)
    PROVE  LET fr == frames[w] IN
           /\ TInv'
           /\ fr \in Replays /\ fr.pc = "mirror" /\ Len(fr.results) = Len(fr.batch)
           /\ DOMAIN fr.results = DOMAIN fr.batch /\ fr.mirrored = Len(fr.staged)
           /\ frames' = [frames EXCEPT ![w] = NoFrame]
           /\ \A c \in Clients, s \in Seqs :
                \/ /\ ledger'[c][s] = ledger[c][s]
                   /\ \A i \in DOMAIN fr.batch :
                        fr.batch[i].client = c /\ fr.batch[i].seq = s => ledger[c][s] # NoStatus
                \/ /\ ledger[c][s] = NoStatus
                   /\ \E i \in DOMAIN fr.batch :
                        /\ fr.batch[i].client = c /\ fr.batch[i].seq = s
                        /\ ledger'[c][s] = fr.results[i] /\ fr.results[i] \in Statuses
           /\ \A n \in 1..MaxChanges : told'[n] =
                told[n] \cup {fr.results[i] : i \in {j \in DOMAIN fr.batch : fr.batch[j].change = n}}
           /\ \A d \in Devices :
                \/ flush'[d] = flush[d] /\ ~Waited(w, d)
                \/ /\ Waited(w, d) /\ flush'[d].pc = "answered"
                   /\ flush'[d].copy = flush[d].copy /\ flush'[d].results = fr.results
           /\ noted \subseteq noted'
           /\ \A d \in Devices, s \in Seqs : <<d, s>> \in noted' \ noted =>
                /\ d = fr.device
                /\ \E i \in DOMAIN fr.batch : fr.batch[i].seq = s
                        /\ ledger[fr.batch[i].client][s] = NoStatus
           /\ UNCHANGED <<device, store, changes, faults, fate, promised, overlapped>>
  <1> DEFINE fr == frames[w]
  <1>1. fr \in Replays /\ ReplayOK(fr) /\ fr.pc = "mirror" /\ ~(fr.mirrored < Len(fr.staged))
    BY DEF TInv, Typed, ReplaysOK, Commit, Mirroring
  <1>2. /\ fr.results \in Seq(Statuses) /\ fr.batch \in Seq(Mutation) /\ fr.staged \in Seq(Items)
        /\ fr.mirrored \in Nat /\ Len(fr.results) = Len(fr.batch) /\ fr.mirrored = Len(fr.staged)
        /\ fr.device \in Devices
    BY <1>1 DEF Replays, ReplayOK
  <1>3. /\ DOMAIN fr.results = DOMAIN fr.batch /\ \A i \in DOMAIN fr.batch : fr.results[i] \in Statuses
    BY <1>2
  <1>4. /\ ledger' = [c \in Clients |-> [s \in Seqs |->
                LET new == {i \in Noted(fr) : fr.batch[i].client = c /\ fr.batch[i].seq = s}
                IN IF new = {} THEN ledger[c][s] ELSE fr.results[CHOOSE i \in new : TRUE]]]
        /\ told' = [n \in 1..MaxChanges |->
                told[n] \cup {fr.results[i] : i \in {j \in DOMAIN fr.batch : fr.batch[j].change = n}}]
        /\ noted' = noted \cup {<<fr.device, fr.batch[i].seq>> : i \in Noted(fr)}
        /\ flush' = IF fr.heard
                    THEN [flush EXCEPT ![fr.device].pc = "answered", ![fr.device].results = fr.results]
                    ELSE flush
        /\ frames' = [frames EXCEPT ![w] = NoFrame]
        /\ UNCHANGED <<device, store, changes, faults, fate, promised, overlapped>>
    BY DEF Commit
  <1>5. ASSUME NEW c \in Clients, NEW s \in Seqs
        PROVE  /\ ledger'[c][s] \in Statuses \cup {NoStatus}
               /\ \/ /\ ledger'[c][s] = ledger[c][s]
                     /\ \A i \in DOMAIN fr.batch :
                        fr.batch[i].client = c /\ fr.batch[i].seq = s => ledger[c][s] # NoStatus
                  \/ /\ ledger[c][s] = NoStatus
                     /\ \E i \in DOMAIN fr.batch :
                            /\ fr.batch[i].client = c /\ fr.batch[i].seq = s
                            /\ ledger'[c][s] = fr.results[i] /\ fr.results[i] \in Statuses
    <2> DEFINE new == {i \in Noted(fr) : fr.batch[i].client = c /\ fr.batch[i].seq = s}
               first == CHOOSE i \in new : TRUE
    <2>1. ledger'[c][s] = IF new = {} THEN ledger[c][s] ELSE fr.results[first]
      BY <1>4
    <2>2. ledger[c][s] \in Statuses \cup {NoStatus}
      BY DEF TInv, Typed
    <2>3. Noted(fr) = {i \in DOMAIN fr.batch : ledger[fr.batch[i].client][fr.batch[i].seq] = NoStatus}
      BY <1>3 DEF Noted
    <2>4. CASE new = {}
      BY <2>1, <2>2, <2>3, <2>4
    <2>5. CASE new # {}
      <3>1. first \in new
        BY <2>5
      <3> HIDE DEF first
      <3>2. /\ first \in DOMAIN fr.batch /\ fr.batch[first].client = c /\ fr.batch[first].seq = s
            /\ ledger[c][s] = NoStatus
        BY <2>3, <3>1
      <3> QED BY <1>3, <2>1, <2>5, <3>2
    <2> QED BY <2>4, <2>5
  <1>6. ledger' \in [Clients -> [Seqs -> Statuses \cup {NoStatus}]]
    <2>1. ledger' = [c \in Clients |-> [s \in Seqs |-> ledger'[c][s]]]
      BY <1>4
    <2> QED BY <1>5, <2>1
  <1>7. told' \in [1..MaxChanges -> SUBSET Statuses]
    <2> SUFFICES ASSUME NEW n \in 1..MaxChanges
                 PROVE  told[n] \cup {fr.results[i] : i \in {j \in DOMAIN fr.batch : fr.batch[j].change = n}}
                            \in SUBSET Statuses
      BY <1>4
    <2>1. told[n] \in SUBSET Statuses
      BY DEF TInv, Typed
    <2> QED BY <1>3, <2>1
  <1>8. ASSUME NEW d \in Devices
        PROVE  /\ flush'[d] \in Flushes
               /\ \/ flush'[d] = flush[d] /\ ~Waited(w, d)
                  \/ /\ Waited(w, d) /\ flush'[d].pc = "answered"
                     /\ flush'[d].copy = flush[d].copy /\ flush'[d].results = fr.results
    <2>1. flush \in [Devices -> Flushes]
      BY DEF TInv, Typed
    <2>2. CASE fr.heard /\ fr.device = d
      <3> DEFINE f == flush[d]
                 g == [f EXCEPT !.pc = "answered", !.results = fr.results]
      <3>1. flush' = [flush EXCEPT ![d].pc = "answered", ![d].results = fr.results]
        BY <1>4, <2>2
      <3>2. flush'[d] = [flush[d] EXCEPT !.pc = "answered", !.results = fr.results]
        BY <2>1, <3>1
      <3>3. f \in Flushes /\ flush'[d] = g
        BY <2>1, <3>2
      <3> HIDE DEF f
      <3>4. g \in Flushes /\ g.pc = "answered" /\ g.copy = f.copy /\ g.results = fr.results
        BY <1>2, <3>3 DEF Flushes
      <3> HIDE DEF g
      <3>5. Waited(w, d)
        BY <1>1, <2>2 DEF Waited
      <3> QED BY <3>3, <3>4, <3>5 DEF f
    <2>3. CASE ~(fr.heard /\ fr.device = d)
      <3>1. ~Waited(w, d)
        BY <2>3 DEF Waited
      <3>2. flush'[d] = flush[d]
        <4>1. CASE fr.heard
          <5>1. fr.device # d
            BY <2>3, <4>1
          <5>2. flush' = [flush EXCEPT ![fr.device].pc = "answered", ![fr.device].results = fr.results]
            BY <1>4, <4>1
          <5> QED BY <2>1, <5>1, <5>2
        <4>2. CASE ~fr.heard
          BY <1>4, <4>2
        <4> QED BY <4>1, <4>2
      <3> QED BY <2>1, <3>1, <3>2
    <2> QED BY <2>2, <2>3
  <1>9. flush' \in [Devices -> Flushes]
    <2>1. flush' = [d \in Devices |-> flush'[d]]
      <3>1. flush = [d \in Devices |-> flush[d]]
        BY DEF TInv, Typed
      <3>2. CASE fr.heard
        BY <1>4, <3>1, <3>2
      <3>3. CASE ~fr.heard
        <4>1. flush' = flush
          BY <1>4, <3>3
        <4> QED BY <3>1, <4>1
      <3> QED BY <3>2, <3>3
    <2> QED BY <1>8, <2>1
  <1>10. frames' \in [Workers -> Replays] /\ ReplaysOK'
    BY <1>4, NoneIs DEF TInv, Typed, ReplaysOK
  <1>19. \A i \in Noted(fr) : fr.batch[i].seq \in Seqs /\ i \in DOMAIN fr.batch
                /\ ledger[fr.batch[i].client][fr.batch[i].seq] = NoStatus
    <2> SUFFICES ASSUME NEW i \in Noted(fr)
                 PROVE  fr.batch[i].seq \in Seqs /\ i \in DOMAIN fr.batch
                        /\ ledger[fr.batch[i].client][fr.batch[i].seq] = NoStatus
      OBVIOUS
    <2>1. i \in DOMAIN fr.batch /\ ledger[fr.batch[i].client][fr.batch[i].seq] = NoStatus
      BY <1>3 DEF Noted
    <2>2. fr.batch[i] \in Mutation
      BY <1>2, <2>1
    <2> QED BY <2>1, <2>2, MutationIs
  <1>20. noted' \subseteq Devices \X Seqs
    BY <1>2, <1>4, <1>19 DEF TInv, Typed
  <1>21. /\ noted \subseteq noted'
         /\ \A d \in Devices, s \in Seqs : <<d, s>> \in noted' \ noted =>
                /\ d = fr.device
                /\ \E i \in DOMAIN fr.batch : fr.batch[i].seq = s
                        /\ ledger[fr.batch[i].client][s] = NoStatus
    BY <1>4, <1>19
  <1>11. Typed'
    BY <1>4, <1>6, <1>7, <1>9, <1>10, <1>20 DEF TInv, Typed
  <1>12. Copied'
    <2> SUFFICES ASSUME NEW d \in Devices, flush'[d].pc # "idle"
                 PROVE  flush'[d].copy \in Device /\ flush'[d].copy.next <= device[d].next
      BY <1>4 DEF Copied
    <2>1. flush[d].pc # "idle" /\ flush'[d].copy = flush[d].copy
      BY <1>8 DEF Heard
    <2> QED BY <2>1 DEF TInv, Copied
  <1>13. Numbered'
    BY <1>4 DEF TInv, Numbered
  <1>14. TInv'
    BY <1>10, <1>11, <1>12, <1>13 DEF TInv
  <1>15. \A n \in 1..MaxChanges : told'[n] =
            told[n] \cup {fr.results[i] : i \in {j \in DOMAIN fr.batch : fr.batch[j].change = n}}
    BY <1>4
  <1>16. /\ fr \in Replays /\ fr.pc = "mirror" /\ Len(fr.results) = Len(fr.batch)
         /\ DOMAIN fr.results = DOMAIN fr.batch /\ fr.mirrored = Len(fr.staged)
         /\ frames' = [frames EXCEPT ![w] = NoFrame]
         /\ UNCHANGED <<device, store, changes, faults, fate, promised, overlapped>>
    BY <1>1, <1>2, <1>3, <1>4
  <1>17. /\ \A c \in Clients, s \in Seqs :
                \/ /\ ledger'[c][s] = ledger[c][s]
                   /\ \A i \in DOMAIN fr.batch :
                        fr.batch[i].client = c /\ fr.batch[i].seq = s => ledger[c][s] # NoStatus
                \/ /\ ledger[c][s] = NoStatus
                   /\ \E i \in DOMAIN fr.batch :
                        /\ fr.batch[i].client = c /\ fr.batch[i].seq = s
                        /\ ledger'[c][s] = fr.results[i] /\ fr.results[i] \in Statuses
    BY <1>5
  <1>18. \A d \in Devices :
            \/ flush'[d] = flush[d] /\ ~Waited(w, d)
            \/ /\ Waited(w, d) /\ flush'[d].pc = "answered"
               /\ flush'[d].copy = flush[d].copy /\ flush'[d].results = fr.results
    BY <1>8
  <1> HIDE DEF fr
  <1> QED BY <1>14, <1>15, <1>16, <1>17, <1>18, <1>21, Zenon DEF fr

LEMMA EditOnlineIs ==
    ASSUME TInv, NEW doc \in Docs, NEW f \in Fields, EditOnline(doc, f)
    PROVE  /\ TInv'
           /\ changes < MaxChanges /\ changes' = changes + 1 /\ changes' \in 1..MaxChanges
           /\ store[doc] \in Row
           /\ store' = [store EXCEPT ![doc] = [store[doc] EXCEPT ![f] = changes + 1]]
           /\ store'[doc] \in Row
           /\ fate' = [fate EXCEPT ![changes + 1] = "online"]
           /\ overlapped' = (overlapped \/ Replaying)
           /\ UNCHANGED <<device, flush, frames, ledger, faults, promised, noted, told>>
  <1> DEFINE new == [store[doc] EXCEPT ![f] = changes + 1]
  <1>1. /\ changes < MaxChanges /\ changes' = changes + 1 /\ store[doc] # NoRow
        /\ store' = [store EXCEPT ![doc][f] = changes'] /\ fate' = [fate EXCEPT ![changes'] = "online"]
        /\ overlapped' = (overlapped \/ Replaying)
        /\ UNCHANGED <<device, flush, frames, ledger, faults, promised, noted, told>>
    BY DEF EditOnline
  <1>2. changes \in Nat /\ changes + 1 \in 1..MaxChanges /\ changes + 1 \in 0..MaxChanges
    BY <1>1, SyncAssumption DEF TInv, Typed
  <1>3. store[doc] \in Row
    BY <1>1, RowIs DEF TInv, Typed
  <1>4. new \in Row
    BY <1>2, <1>3 DEF Row
  <1>5. store' = [store EXCEPT ![doc] = new]
    BY <1>1 DEF TInv, Typed
  <1> HIDE DEF new
  <1>6. store' \in [Docs -> Rows] /\ store'[doc] = new
    BY <1>4, <1>5 DEF TInv, Typed, Rows
  <1>7. fate' \in [1..MaxChanges -> {"unmade", "online", "queued", "confirmed", "dropped"}]
    BY <1>1, <1>2 DEF TInv, Typed
  <1>8. overlapped' \in BOOLEAN
    BY <1>1 DEF TInv, Typed, Replaying
  <1>9. Typed'
    BY <1>1, <1>2, <1>6, <1>7, <1>8 DEF TInv, Typed
  <1>10. Numbered'
    <2> SUFFICES ASSUME NEW d \in Devices PROVE device[d].next <= changes + 1 + 1
      BY <1>1 DEF Numbered
    <2>1. device[d].next \in Nat /\ device[d].next <= changes + 1
      BY SyncAssumption DEF TInv, Typed, Numbered, Device, Seqs
    <2> QED BY <1>2, <2>1
  <1>11. Copied' /\ ReplaysOK'
    BY <1>1 DEF TInv, Copied, ReplaysOK
  <1> QED BY <1>1, <1>2, <1>3, <1>4, <1>5, <1>6, <1>9, <1>10, <1>11 DEF TInv, new

-----------------------------------------------------------------------------
(* The types *)

Goes(w) == LookInLedger(w) \/ ApplyMutation(w) \/ PutRow(w) \/ PutLedger(w) \/ MirrorRow(w)
RollsBackAt(w) == StoreRefuses(w) \/ DeadlockBroken(w) \/ BatchFails(w)
Queues(d, doc) == QueueCreate(d, doc) \/ \E f \in Fields : QueueEdit(d, doc, f)

LEMMA Cases ==
    ASSUME [Next]_vars
    PROVE  \/ UNCHANGED vars
           \/ \E d \in Devices, doc \in Docs : Queues(d, doc)
           \/ \E d \in Devices, doc \in Docs : ForgetDoc(d, doc)
           \/ \E d \in Devices, w \in Workers : FlushBegins(d, w)
           \/ \E d \in Devices : FlushEnds(d)
           \/ \E d \in Devices : PostFails(d)
           \/ \E w \in Workers : Goes(w)
           \/ \E w \in Workers : RollsBackAt(w)
           \/ \E w \in Workers : Commit(w)
           \/ \E doc \in Docs, f \in Fields : EditOnline(doc, f)
  BY Zenon DEF Next, ReplayStep, Queues, Goes, RollsBackAt

LEMMA GoesIs ==
    ASSUME TInv, NEW w \in Workers, Goes(w)
    PROVE  /\ frames[w].pc # "idle" /\ store' \in [Docs -> Rows]
           /\ \E g : Advance(w, g) /\ Kin(frames[w], g)
  <1>0. store \in [Docs -> Rows]
    BY DEF TInv, Typed
  <1>1. CASE LookInLedger(w)
    <2>1. frames[w].pc = "look" /\ store' = store /\ \E g : Advance(w, g) /\ Kin(frames[w], g)
      BY <1>1, LookIs
    <2> QED BY <1>0, <2>1
  <1>2. CASE ApplyMutation(w)
    <2>1. frames[w].pc = "apply" /\ store' = store /\ \E g : Advance(w, g) /\ Kin(frames[w], g)
      BY <1>2, ApplyIs
    <2> QED BY <1>0, <2>1
  <1>3. CASE PutRow(w)
    <2>1. frames[w].pc = "put" /\ store' = store /\ \E g : Advance(w, g) /\ Kin(frames[w], g)
      BY <1>3, PutIs
    <2> QED BY <1>0, <2>1
  <1>4. CASE PutLedger(w)
    <2>1. frames[w].pc = "note" /\ store' = store /\ \E g : Advance(w, g) /\ Kin(frames[w], g)
      BY <1>4, NoteIs
    <2> QED BY <1>0, <2>1
  <1>5. CASE MirrorRow(w)
    <2>1. /\ frames[w].pc = "mirror" /\ store' \in [Docs -> Rows]
          /\ \E g : Advance(w, g) /\ Kin(frames[w], g)
      BY <1>5, MirrorIs
    <2> QED BY <2>1
  <1> QED BY <1>1, <1>2, <1>3, <1>4, <1>5 DEF Goes

LEMMA AdvanceHeard ==
    ASSUME TInv, Heard, NEW w \in Workers, NEW g, frames[w].pc # "idle",
           Advance(w, g), Kin(frames[w], g)
    PROVE  Heard'
  <1>1. frames' = [frames EXCEPT ![w] = g] /\ flush' = flush /\ frames \in [Workers -> Replays]
    BY DEF Advance, TInv, Typed
  <1>2. \A v \in Workers, d \in Devices :
            Waited(v, d)' <=> Waited(v, d)
    BY <1>1 DEF Waited, Kin
  <1>3. \A v \in Workers : frames'[v].batch = frames[v].batch
    BY <1>1 DEF Kin
  <1> QED BY <1>1, <1>2, <1>3 DEF Heard

LEMMA NextTyped ==
    ASSUME TInv, Heard, [Next]_vars
    PROVE  TInv' /\ Heard'
  <1>0. frames \in [Workers -> Replays] /\ flush \in [Devices -> Flushes]
    BY DEF TInv, Typed
  <1>1. CASE UNCHANGED vars
    <2>1. UNCHANGED <<device, flush, frames, store, ledger, changes, faults, fate, promised, noted, told, overlapped>>
      BY <1>1 DEF vars, serverVars, historyVars
    <2>2. TInv'
      BY <2>1 DEF TInv, Typed, Numbered, Copied, ReplaysOK
    <2> QED BY <2>1, <2>2 DEF Heard, Waited
  <1>2. ASSUME NEW d \in Devices, NEW doc \in Docs, Queues(d, doc)
        PROVE  TInv' /\ Heard'
    <2>1. PICK m : \E migrated \in SUBSET Docs :
                Fresh(d, m) /\ EnqueueMutation(d, m, migrated)
      BY <1>2, QueueIs DEF Queues
    <2>2. TInv' /\ UNCHANGED <<flush, serverVars>>
      BY <2>1, EnqueueIs
    <2> QED BY <2>2 DEF serverVars, Heard, Waited
  <1>3. ASSUME NEW d \in Devices, NEW doc \in Docs, ForgetDoc(d, doc)
        PROVE  TInv' /\ Heard'
    <2>1. TInv' /\ UNCHANGED <<flush, serverVars>>
      BY <1>3, ForgetIs
    <2> QED BY <2>1 DEF serverVars, Heard, Waited
  <1>4. ASSUME NEW d \in Devices, NEW w \in Workers, FlushBegins(d, w)
        PROVE  TInv' /\ Heard'
    <2>1. PICK fr \in Replays, fl \in Flushes :
          /\ TInv' /\ flush[d].pc = "idle"
          /\ flush' = [flush EXCEPT ![d] = fl] /\ frames' = [frames EXCEPT ![w] = fr]
          /\ fl.pc = "posted" /\ fl.copy = device[d]
          /\ fr.pc = "look" /\ fr.device = d /\ fr.batch = device[d].pending /\ fr.heard
      BY <1>4, FlushBeginsIs
    <2>2. \A v \in Workers : ~Waited(v, d)
      BY <2>1 DEF Heard
    <2>3. \A v \in Workers : v # w => frames'[v] = frames[v]
      BY <1>0, <2>1
    <2>4. \A e \in Devices : e # d => flush'[e] = flush[e]
      BY <1>0, <2>1
    <2>5. frames'[w] = fr /\ flush'[d] = fl
      BY <1>0, <2>1
    <2>6. \A v \in Workers : v # w => \A e \in Devices : Waited(v, e)' => Waited(v, e) /\ e # d
      BY <2>2, <2>3 DEF Waited
    <2>7. \A e \in Devices : Waited(w, e)' => e = d
      BY <2>1, <2>5 DEF Waited
    <2> QED BY <2>1, <2>3, <2>4, <2>5, <2>6, <2>7 DEF Heard
  <1>5. ASSUME NEW d \in Devices, FlushEnds(d)
        PROVE  TInv' /\ Heard'
    <2>1. TInv' /\ flush[d].pc = "answered" /\ flush' = [flush EXCEPT ![d] = NoFlush] /\ frames' = frames
      BY <1>5, FlushEndsIs DEF serverVars
    <2>2. \A v \in Workers : ~Waited(v, d)
      BY <2>1 DEF Heard
    <2>3. \A v \in Workers, e \in Devices : Waited(v, e)' <=> Waited(v, e)
      BY <2>1 DEF Waited
    <2> QED BY <1>0, <2>1, <2>2, <2>3 DEF Heard
  <1>6. ASSUME NEW d \in Devices, PostFails(d)
        PROVE  TInv' /\ Heard'
    <2>1. /\ TInv' /\ flush' = [flush EXCEPT ![d] = NoFlush]
          /\ \A w \in Workers :
                /\ Same(frames[w], frames'[w])
                /\ frames'[w].heard => frames[w].heard /\ frames[w].device # d
      BY <1>6, PostFailsIs
    <2>2. \A v \in Workers, e \in Devices : Waited(v, e)' => Waited(v, e) /\ e # d
      BY <2>1 DEF Waited, Same
    <2>3. \A v \in Workers : frames'[v].batch = frames[v].batch
      BY <2>1 DEF Same
    <2> QED BY <1>0, <2>1, <2>2, <2>3 DEF Heard
  <1>7. ASSUME NEW w \in Workers, Goes(w)
        PROVE  TInv' /\ Heard'
    BY <1>7, GoesIs, AdvanceTyped, AdvanceHeard
  <1>8. ASSUME NEW w \in Workers, RollsBackAt(w)
        PROVE  TInv' /\ Heard'
    <2>1. frames[w].pc # "idle" /\ RolledBack(w) /\ faults' \in 0..MaxFaults
      BY <1>8, RollsBack DEF RollsBackAt
    <2>2. /\ TInv' /\ frames' = [frames EXCEPT ![w] = NoFrame]
          /\ \A d \in Devices :
                \/ flush'[d] = flush[d]
                \/ flush'[d] = NoFlush /\ frames[w].heard /\ frames[w].device = d
      BY <2>1, RolledIs
    <2>3. \A v \in Workers, e \in Devices : Waited(v, e)' => Waited(v, e) /\ v # w
      BY <1>0, <2>2, NoneIs DEF Waited
    <2>4. \A v \in Workers : v # w => frames'[v] = frames[v]
      BY <1>0, <2>2
    <2>5. \A v \in Workers, e \in Devices : Waited(v, e)' => flush'[e] = flush[e]
      BY <2>1, <2>2, <2>3 DEF Heard, Waited
    <2> QED BY <2>2, <2>3, <2>4, <2>5 DEF Heard
  <1>9. ASSUME NEW w \in Workers, Commit(w)
        PROVE  TInv' /\ Heard'
    <2>1. /\ TInv' /\ frames' = [frames EXCEPT ![w] = NoFrame]
          /\ \A d \in Devices : flush'[d] = flush[d] \/ Waited(w, d)
      BY <1>9, CommitIs
    <2>2. \A v \in Workers, e \in Devices : Waited(v, e)' => Waited(v, e) /\ v # w
      BY <1>0, <2>1, NoneIs DEF Waited
    <2>3. \A v \in Workers : v # w => frames'[v] = frames[v]
      BY <1>0, <2>1
    <2>4. \A v \in Workers, e \in Devices : Waited(v, e)' => flush'[e] = flush[e]
      BY <2>1, <2>2 DEF Heard
    <2> QED BY <2>1, <2>2, <2>3, <2>4 DEF Heard
  <1>10. ASSUME NEW doc \in Docs, NEW f \in Fields, EditOnline(doc, f)
         PROVE  TInv' /\ Heard'
    <2>1. TInv' /\ UNCHANGED <<flush, frames>>
      BY <1>10, EditOnlineIs
    <2> QED BY <2>1 DEF Heard, Waited
  <1> QED BY <1>1, <1>2, <1>3, <1>4, <1>5, <1>6, <1>7, <1>8, <1>9, <1>10, Cases

LEMMA InitTyped ==
    ASSUME Init
    PROVE  TInv /\ Heard
  <1>1. /\ \A d \in Devices : device[d] = [pending |-> <<>>, next |-> 1, migrated |-> {},
                                           local |-> [i \in Docs |-> NoRow]]
        /\ \A d \in Devices : flush[d] = NoFlush
        /\ \A w \in Workers : frames[w] = NoFrame
        /\ changes = 0
    BY DEF Init
  <1>2. [pending |-> <<>>, next |-> 1, migrated |-> {}, local |-> [i \in Docs |-> NoRow]] \in Device
    <2>1. <<>> \in Seq(Mutation) /\ 1 \in Seqs /\ [i \in Docs |-> NoRow] \in [Docs -> Rows]
      BY SyncAssumption DEF Seqs, Rows
    <2> QED BY <2>1 DEF Device
  <1>3. device \in [Devices -> Device] /\ flush \in [Devices -> Flushes] /\ frames \in [Workers -> Replays]
    BY <1>2, NoneIs DEF Init
  <1>4. store \in [Docs -> Rows]
    BY DEF Init, Rows
  <1>5. /\ ledger \in [Clients -> [Seqs -> Statuses \cup {NoStatus}]]
        /\ fate \in [1..MaxChanges -> {"unmade", "online", "queued", "confirmed", "dropped"}]
        /\ told \in [1..MaxChanges -> SUBSET Statuses]
    BY DEF Init
  <1>6. changes \in 0..MaxChanges /\ faults \in 0..MaxFaults
        /\ promised \subseteq Promises /\ noted \subseteq Devices \X Seqs
    BY SyncAssumption DEF Init
  <1>7. overlapped \in BOOLEAN
    BY DEF Init
  <1>8. Typed
    BY <1>3, <1>4, <1>5, <1>6, <1>7 DEF Typed
  <1>9. Numbered /\ Copied /\ ReplaysOK
    BY <1>1, NoneIs DEF Numbered, Copied, ReplaysOK
  <1>10. Heard
    BY <1>1, NoneIs DEF Heard, Waited
  <1> QED BY <1>8, <1>9, <1>10 DEF TInv

THEOREM Typing == Spec => [](TInv /\ Heard)
  <1>1. Init => TInv /\ Heard
    BY InitTyped
  <1>2. TInv /\ Heard /\ [Next]_vars => (TInv /\ Heard)'
    BY NextTyped
  <1> QED BY <1>1, <1>2, PTL DEF Spec

LEMMA TypesFollow ==
    ASSUME TInv
    PROVE  TypeOK
  <1>1. ASSUME NEW w \in Workers
        PROVE  /\ frames[w].pc \in {"idle", "look", "apply", "put", "note", "mirror"}
               /\ frames[w].batch \in Seq(Mutation) /\ frames[w].results \in Seq(Statuses)
               /\ frames[w].staged \in Seq([doc : Docs, row : Row])
    BY DEF TInv, Typed, Replays, Items
  <1>2. ASSUME NEW d \in Devices
        PROVE  /\ flush[d].pc \in {"idle", "posted", "answered"}
               /\ flush[d].pc # "idle" => flush[d].copy \in Device
               /\ flush[d].results \in Seq(Statuses)
    BY DEF TInv, Typed, Copied, Flushes
  <1>3. /\ device \in [Devices -> Device] /\ store \in [Docs -> Rows]
        /\ ledger \in [Clients -> [Seqs -> Statuses \cup {NoStatus}]]
        /\ changes \in 0..MaxChanges /\ faults \in 0..MaxFaults
        /\ fate \in [1..MaxChanges -> {"unmade", "online", "queued", "confirmed", "dropped"}]
        /\ promised \subseteq Promises /\ noted \subseteq Devices \X Seqs /\ told \in [1..MaxChanges -> SUBSET Statuses]
        /\ overlapped \in BOOLEAN
    BY DEF TInv, Typed
  <1> QED BY <1>1, <1>2, <1>3 DEF TypeOK, Promises

\* The types hold.
THEOREM TypeCorrect == Spec => []TypeOK
  BY Typing, TypesFollow, PTL

-----------------------------------------------------------------------------
(* A number stands for one mutation *)

In(s, m) == \E i \in DOMAIN s : s[i] = m
Distinct(s) == \A i, j \in DOMAIN s : s[i].seq = s[j].seq => i = j

\* What a device has posted and may still be replayed or answered, and what it knows of.
Copies(d, m) == flush[d].pc # "idle" /\ In(flush[d].copy.pending, m)
Carries(w, d, m) == frames[w].pc # "idle" /\ frames[w].device = d /\ In(frames[w].batch, m)
Sent(d, m) == Copies(d, m) \/ \E w \in Workers : Carries(w, d, m)
Around(d, m) == In(device[d].pending, m) \/ Sent(d, m)

\* The numbers a device has sent are below this one.
Limit(d) == IF flush[d].pc = "idle" THEN device[d].next ELSE flush[d].copy.next

OneNumber == \A d \in Devices : \A m, n \in Mutation :
    Around(d, m) /\ Around(d, n) /\ m.seq = n.seq => m = n
OneChange == \A d, e \in Devices : \A m, n \in Mutation :
    Around(d, m) /\ Around(e, n) /\ m.change = n.change => m = n
InOrder == \A d \in Devices : \A m \in Mutation :
    /\ Around(d, m) =>
        /\ m.client = ClientOf[d] /\ m.seq < device[d].next
        /\ m.change <= changes /\ (m.name = "edit" => m.base < m.change)
    /\ Sent(d, m) => m.seq < Limit(d)
Once ==
    /\ \A d \in Devices :
        /\ Distinct(device[d].pending)
        /\ flush[d].pc # "idle" => Distinct(flush[d].copy.pending)
    /\ \A w \in Workers : frames[w].pc # "idle" => Distinct(frames[w].batch)

\* The values a device, the server or a replay shows are those of changes already made.
Past(row, n) == row # NoRow => \A f \in Fields : row[f] <= n
ReplayPast(fr, n) ==
    /\ \A i \in DOMAIN fr.staged : Past(fr.staged[i].row, n)
    /\ fr.pc = "put" => Past(fr.result.row, n)
KnownStore == \A doc \in Docs : Past(store[doc], changes)
KnownDevices == \A d \in Devices, doc \in Docs :
    /\ Past(device[d].local[doc], changes)
    /\ flush[d].pc # "idle" => Past(flush[d].copy.local[doc], changes)
KnownReplays == \A w \in Workers : ReplayPast(frames[w], changes)
Known == KnownStore /\ KnownDevices /\ KnownReplays

Numbers == OneNumber /\ OneChange /\ InOrder /\ Once

\* The steps that bring no mutation to where it was not.
Quiet ==
    /\ device' = device /\ changes' \in {changes, changes + 1}
    /\ \A d \in Devices : flush'[d].pc = "idle" \/
            (flush[d].pc # "idle" /\ flush'[d].copy = flush[d].copy)
    /\ \A w \in Workers : frames'[w].pc = "idle" \/
            (frames[w].pc # "idle" /\ frames'[w].device = frames[w].device
                /\ frames'[w].batch = frames[w].batch)

LEMMA QuietCases ==
    ASSUME TInv, Heard, [Next]_vars
    PROVE  \/ Quiet
           \/ \E d \in Devices, doc \in Docs : Queues(d, doc)
           \/ \E d \in Devices, doc \in Docs : ForgetDoc(d, doc)
           \/ \E d \in Devices, w \in Workers : FlushBegins(d, w)
           \/ \E d \in Devices : FlushEnds(d)
  <1>0. frames \in [Workers -> Replays] /\ flush \in [Devices -> Flushes]
    BY DEF TInv, Typed
  <1>1. CASE UNCHANGED vars
    BY <1>1 DEF vars, serverVars, Quiet
  <1>2. ASSUME NEW d \in Devices, PostFails(d)
        PROVE  Quiet
    <2>1. /\ flush' = [flush EXCEPT ![d] = NoFlush] /\ NoFlush.pc = "idle"
          /\ \A w \in Workers : Same(frames[w], frames'[w])
          /\ UNCHANGED <<device, changes>>
      BY <1>2, PostFailsIs
    <2>2. \A e \in Devices : flush'[e] = NoFlush \/ flush'[e] = flush[e]
      BY <1>0, <2>1
    <2> QED BY <2>1, <2>2 DEF Quiet, Same
  <1>3. ASSUME NEW w \in Workers, Goes(w)
        PROVE  Quiet
    <2>1. PICK g : Advance(w, g) /\ Kin(frames[w], g) /\ frames[w].pc # "idle"
      BY <1>3, GoesIs
    <2>2. frames' = [frames EXCEPT ![w] = g] /\ UNCHANGED <<device, changes, flush>>
      BY <2>1 DEF Advance
    <2>3. \A v \in Workers : frames'[v] = frames[v] \/ (v = w /\ frames'[v] = g)
      BY <1>0, <2>2
    <2> QED BY <2>1, <2>2, <2>3 DEF Quiet, Kin
  <1>4. ASSUME NEW w \in Workers, RollsBackAt(w)
        PROVE  Quiet
    <2>1. frames[w].pc # "idle" /\ RolledBack(w) /\ faults' \in 0..MaxFaults
      BY <1>4, RollsBack DEF RollsBackAt
    <2>2. /\ frames' = [frames EXCEPT ![w] = NoFrame]
          /\ \A d \in Devices : flush'[d] = flush[d] \/ flush'[d] = NoFlush
          /\ UNCHANGED <<device, changes>>
      BY <2>1, RolledIs
    <2>3. \A v \in Workers : frames'[v] = frames[v] \/ frames'[v] = NoFrame
      BY <1>0, <2>2
    <2> QED BY <2>2, <2>3, NoneIs DEF Quiet
  <1>5. ASSUME NEW w \in Workers, Commit(w)
        PROVE  Quiet
    <2>1. /\ frames' = [frames EXCEPT ![w] = NoFrame]
          /\ \A d \in Devices :
                flush'[d] = flush[d] \/ (Waited(w, d) /\ flush'[d].copy = flush[d].copy)
          /\ UNCHANGED <<device, changes>>
      BY <1>5, CommitIs
    <2>2. \A v \in Workers : frames'[v] = frames[v] \/ frames'[v] = NoFrame
      BY <1>0, <2>1
    <2>3. \A d \in Devices : Waited(w, d) => flush[d].pc # "idle"
      BY DEF Heard
    <2> QED BY <2>1, <2>2, <2>3, NoneIs DEF Quiet
  <1>6. ASSUME NEW doc \in Docs, NEW f \in Fields, EditOnline(doc, f)
        PROVE  Quiet
    <2>1. changes' = changes + 1 /\ UNCHANGED <<device, flush, frames>>
      BY <1>6, EditOnlineIs
    <2> QED BY <2>1 DEF Quiet
  <1> QED BY <1>1, <1>2, <1>3, <1>4, <1>5, <1>6, Cases

LEMMA AroundQuiet ==
    ASSUME Quiet, NEW d \in Devices, NEW m
    PROVE  (Around(d, m)' => Around(d, m)) /\ (Sent(d, m)' => Sent(d, m))
  BY DEF Quiet, Around, Sent, Copies, Carries

\* Where no mutation comes to, the numbers stay in order.
LEMMA Shrinks ==
    ASSUME TInv, TInv', Numbers, Once', changes' \in {changes, changes + 1},
           \A d \in Devices : \A m \in Mutation :
                /\ Around(d, m)' => Around(d, m) /\ m.seq < device'[d].next
                /\ Sent(d, m)' => m.seq < Limit(d)'
    PROVE  Numbers'
  <1>1. OneNumber' /\ OneChange'
    BY DEF Numbers, OneNumber, OneChange
  <1>2. InOrder'
    <2> SUFFICES ASSUME NEW d \in Devices, NEW m \in Mutation
                 PROVE  /\ Around(d, m)' =>
                            /\ m.client = ClientOf[d] /\ m.seq < device'[d].next
                            /\ m.change <= changes' /\ (m.name = "edit" => m.base < m.change)
                        /\ Sent(d, m)' => m.seq < Limit(d)'
      BY DEF InOrder
    <2>1. m.change \in Nat /\ changes \in Nat
      BY MutationIs, SyncAssumption DEF TInv, Typed
    <2> QED BY <2>1 DEF Numbers, InOrder
  <1> QED BY <1>1, <1>2 DEF Numbers

LEMMA NumbersQuiet ==
    ASSUME TInv, TInv', Numbers, Quiet
    PROVE  Numbers'
  <1>1. Once'
    BY DEF Numbers, Once, Quiet
  <1>2. ASSUME NEW d \in Devices, NEW m \in Mutation
        PROVE  /\ Around(d, m)' => Around(d, m) /\ m.seq < device'[d].next
               /\ Sent(d, m)' => m.seq < Limit(d)'
    <2>1. m.seq \in Nat
      BY MutationIs DEF Seqs
    <2>2. ASSUME Around(d, m)'
          PROVE  Around(d, m) /\ m.seq < device'[d].next
      BY <2>2, AroundQuiet DEF Numbers, InOrder, Quiet
    <2>3. ASSUME Sent(d, m)'
          PROVE  m.seq < Limit(d)'
      <3>1. m.seq < Limit(d) /\ m.seq < device[d].next
        BY <2>3, AroundQuiet DEF Numbers, InOrder, Around
      <3>2. Limit(d)' \in {Limit(d), device[d].next}
        BY DEF Limit, Quiet
      <3> QED BY <3>1, <3>2
    <2> QED BY <2>2, <2>3
  <1>3. changes' \in {changes, changes + 1}
    BY DEF Quiet
  <1> QED BY <1>1, <1>2, <1>3, Shrinks

LEMMA AppendIn ==
    ASSUME NEW s \in Seq(Mutation), NEW m \in Mutation
    PROVE  /\ \A n : In(Append(s, m), n) <=> In(s, n) \/ n = m
           /\ Distinct(s) /\ (\A i \in DOMAIN s : s[i].seq # m.seq) => Distinct(Append(s, m))
  <1>1. DOMAIN s = 1..Len(s) /\ Len(s) \in Nat /\ DOMAIN Append(s, m) = 1..(Len(s) + 1)
    OBVIOUS
  <1>2. \A i \in DOMAIN s : i \in DOMAIN Append(s, m) /\ Append(s, m)[i] = s[i]
    BY <1>1
  <1>3. Len(s) + 1 \in DOMAIN Append(s, m) /\ Append(s, m)[Len(s) + 1] = m
    BY <1>1
  <1>4. \A i \in DOMAIN Append(s, m) : i \in DOMAIN s \/ i = Len(s) + 1
    BY <1>1
  <1> QED BY <1>2, <1>3, <1>4 DEF In, Distinct

LEMMA KeepIn ==
    ASSUME NEW s \in Seq(Mutation), NEW S \in SUBSET DOMAIN s
    PROVE  /\ \A n : In(Keep(s, S), n) => In(s, n)
           /\ Distinct(s) => Distinct(Keep(s, S))
  <1>1. PICK at \in [DOMAIN Keep(s, S) -> S] :
            /\ \A n \in DOMAIN Keep(s, S) : Keep(s, S)[n] = s[at[n]]
            /\ \A n, k \in DOMAIN Keep(s, S) : at[n] = at[k] => n = k
    BY KeepIs
  <1>2. \A n \in DOMAIN Keep(s, S) : at[n] \in DOMAIN s
    OBVIOUS
  <1> QED BY <1>1, <1>2 DEF In, Distinct

LEMMA InMutation ==
    ASSUME NEW s \in Seq(Mutation), NEW m, In(s, m)
    PROVE  m \in Mutation
  BY DEF In

\* The numbers below which everything is, as numbers.
LEMMA LimitIs ==
    ASSUME TInv, NEW d \in Devices
    PROVE  /\ device[d].pending \in Seq(Mutation) /\ device[d].local \in [Docs -> Rows]
           /\ device[d].next \in Nat /\ Limit(d) \in Nat /\ Limit(d) <= device[d].next
           /\ flush[d].pc # "idle" =>
                /\ flush[d].copy.pending \in Seq(Mutation) /\ flush[d].copy.next \in Nat
                /\ flush[d].copy.local \in [Docs -> Rows]
  BY DEF TInv, Typed, Copied, Device, Seqs, Limit

\* A new mutation takes the next number and the next change.
LEMMA NumbersQueues ==
    ASSUME TInv, Numbers, Known, NEW d \in Devices, NEW doc \in Docs, Queues(d, doc)
    PROVE  Numbers'
  <1>1. PICK m : \E migrated \in SUBSET Docs :
            Fresh(d, m) /\ OverWhatIsSeen(d, m) /\ EnqueueMutation(d, m, migrated)
    BY QueueIs DEF Queues
  <1>2. /\ TInv' /\ \A e \in Devices : e # d => device'[e] = device[e]
        /\ device'[d].pending = Append(device[d].pending, m)
        /\ device'[d].next = device[d].next + 1
        /\ changes' = changes + 1 /\ UNCHANGED <<flush, frames>>
    BY <1>1, EnqueueIs DEF serverVars
  <1>3. m \in Mutation /\ m.client = ClientOf[d] /\ m.seq = device[d].next /\ m.change = changes + 1
    BY <1>1 DEF Fresh
  <1>4. changes \in Nat
    BY SyncAssumption DEF TInv, Typed
  <1>5. m.name = "edit" => m.base < m.change
    <2> SUFFICES ASSUME m.name = "edit" PROVE m.base < m.change
      OBVIOUS
    <2>1. PICK row \in {device[d].local[m.doc], store[m.doc]} \ {NoRow} : m.base = row[m.field]
      BY <1>1 DEF OverWhatIsSeen
    <2>2. m.doc \in Docs /\ m.field \in Fields /\ m.base \in Nat
      BY <1>3, MutationIs, SyncAssumption
    <2>3. row[m.field] <= changes
      BY <2>1, <2>2 DEF Known, KnownStore, KnownDevices, Past
    <2> QED BY <1>3, <1>4, <2>1, <2>2, <2>3
  <1>6. \A e \in Devices : \A n :
            /\ Sent(e, n)' <=> Sent(e, n)
            /\ Around(e, n)' <=> Around(e, n) \/ (e = d /\ n = m)
    <2> SUFFICES ASSUME NEW e \in Devices, NEW n
                 PROVE  /\ Sent(e, n)' <=> Sent(e, n)
                        /\ Around(e, n)' <=> Around(e, n) \/ (e = d /\ n = m)
      OBVIOUS
    <2>1. Sent(e, n)' <=> Sent(e, n)
      BY <1>2 DEF Sent, Copies, Carries
    <2>2. CASE e # d
      BY <1>2, <2>1, <2>2 DEF Around
    <2>3. CASE e = d
      <3>1. In(device'[d].pending, n) <=> In(device[d].pending, n) \/ n = m
        BY <1>2, <1>3, LimitIs, AppendIn
      <3> QED BY <2>1, <2>3, <3>1 DEF Around
    <2> QED BY <2>1, <2>2, <2>3
  <1>7. \A e \in Devices : \A n \in Mutation : Around(e, n) =>
            /\ n.seq \in Nat /\ n.change \in Nat /\ n.change <= changes
            /\ n.seq < device[e].next /\ device[e].next \in Nat
    BY MutationIs, LimitIs, SyncAssumption DEF Numbers, InOrder, Seqs
  <1>8. OneNumber'
    <2> SUFFICES ASSUME NEW e \in Devices, NEW n \in Mutation, NEW k \in Mutation,
                        Around(e, n)', Around(e, k)', n.seq = k.seq
                 PROVE  n = k
      BY DEF OneNumber
    <2>1. CASE Around(e, n) /\ Around(e, k)
      BY <2>1 DEF Numbers, OneNumber
    <2>2. CASE e = d /\ (n = m \/ k = m)
      BY <1>3, <1>6, <1>7, <2>2
    <2> QED BY <1>6, <2>1, <2>2
  <1>9. OneChange'
    <2> SUFFICES ASSUME NEW e \in Devices, NEW b \in Devices, NEW n \in Mutation, NEW k \in Mutation,
                        Around(e, n)', Around(b, k)', n.change = k.change
                 PROVE  n = k
      BY DEF OneChange
    <2>1. CASE Around(e, n) /\ Around(b, k)
      BY <2>1 DEF Numbers, OneChange
    <2>2. CASE n = m \/ k = m
      BY <1>3, <1>4, <1>6, <1>7, <2>2
    <2> QED BY <1>6, <2>1, <2>2
  <1>10. InOrder'
    <2> SUFFICES ASSUME NEW e \in Devices, NEW n \in Mutation
                 PROVE  /\ Around(e, n)' =>
                            /\ n.client = ClientOf[e] /\ n.seq < device'[e].next
                            /\ n.change <= changes' /\ (n.name = "edit" => n.base < n.change)
                        /\ Sent(e, n)' => n.seq < Limit(e)'
      BY DEF InOrder
    <2>1. device[e].next \in Nat /\ device'[e].next \in {device[e].next, device[e].next + 1}
      BY <1>2, LimitIs
    <2>2. ASSUME Around(e, n)
          PROVE  /\ n.client = ClientOf[e] /\ n.seq < device'[e].next
                 /\ n.change <= changes' /\ (n.name = "edit" => n.base < n.change)
      BY <1>2, <1>4, <1>7, <2>1, <2>2 DEF Numbers, InOrder
    <2>3. ASSUME e = d, n = m
          PROVE  /\ n.client = ClientOf[e] /\ n.seq < device'[e].next
                 /\ n.change <= changes' /\ (n.name = "edit" => n.base < n.change)
      BY <1>2, <1>3, <1>4, <1>5, <2>1, <2>3
    <2>4. ASSUME Sent(e, n)
          PROVE  n.seq < Limit(e)'
      <3>1. n.seq < Limit(e) /\ n.seq \in Nat /\ Limit(e) \in Nat
        BY <2>4, <1>7, LimitIs DEF Numbers, InOrder, Around
      <3>2. Limit(e)' = Limit(e) \/ Limit(e)' = Limit(e) + 1
        BY <1>2, <2>1 DEF Limit
      <3> QED BY <3>1, <3>2
    <2> QED BY <1>6, <2>2, <2>3, <2>4
  <1>11. Once'
    <2>1. \A i \in DOMAIN device[d].pending : device[d].pending[i].seq # m.seq
      <3> SUFFICES ASSUME NEW i \in DOMAIN device[d].pending
                   PROVE  device[d].pending[i].seq # m.seq
        OBVIOUS
      <3>1. device[d].pending[i] \in Mutation /\ Around(d, device[d].pending[i])
        BY LimitIs DEF Around, In
      <3> QED BY <1>3, <1>7, <3>1
    <2>2. Distinct(device'[d].pending)
      BY <1>2, <1>3, <2>1, LimitIs, AppendIn DEF Numbers, Once
    <2> QED BY <1>2, <2>2 DEF Numbers, Once
  <1> QED BY <1>8, <1>9, <1>10, <1>11 DEF Numbers

\* What the devices know of and the limits of their numbers, where a mutation is
\* forgotten, posted or confirmed.
LEMMA ForgetAround ==
    ASSUME TInv, NEW d \in Devices, NEW doc \in Docs, ForgetDoc(d, doc), NEW e \in Devices
    PROVE  /\ Limit(e)' = Limit(e) /\ device'[e].next = device[e].next
           /\ \A m : (Sent(e, m)' => Sent(e, m)) /\ (Around(e, m)' => Around(e, m))
  <1>1. /\ \A b \in Devices : b # d => device'[b] = device[b]
        /\ device'[d].next = device[d].next /\ UNCHANGED <<flush, frames, changes>>
    BY ForgetIs DEF serverVars
  <1>2. \A n : In(device'[d].pending, n) => In(device[d].pending, n)
    BY ForgetIs, LimitIs, KeepIn
  <1> QED BY <1>1, <1>2 DEF Around, Sent, Copies, Carries, Limit

LEMMA FlushBeginsAround ==
    ASSUME TInv, NEW d \in Devices, NEW w \in Workers, FlushBegins(d, w), NEW e \in Devices
    PROVE  /\ Limit(e)' = Limit(e) /\ device' = device /\ (e = d => Limit(e) = device[e].next)
           /\ \A m : (Sent(e, m)' => Sent(e, m) \/ e = d) /\ (Around(e, m)' => Around(e, m))
  <1>0. frames \in [Workers -> Replays] /\ flush \in [Devices -> Flushes]
    BY DEF TInv, Typed
  <1>1. PICK fr \in Replays, fl \in Flushes :
            /\ flush[d].pc = "idle"
            /\ flush' = [flush EXCEPT ![d] = fl] /\ frames' = [frames EXCEPT ![w] = fr]
            /\ fl.pc = "posted" /\ fl.copy = device[d]
            /\ fr.device = d /\ fr.batch = device[d].pending /\ device' = device
    BY FlushBeginsIs
  <1>2. /\ flush'[d] = fl /\ \A b \in Devices : b # d => flush'[b] = flush[b]
        /\ frames'[w] = fr /\ \A v \in Workers : v # w => frames'[v] = frames[v]
    BY <1>0, <1>1
  <1>3. ASSUME NEW m
        PROVE  (Sent(e, m)' => Sent(e, m) \/ e = d) /\ (Around(e, m)' => Around(e, m))
    <2>1. Copies(e, m)' => Around(e, m) /\ (Copies(e, m) \/ e = d)
      BY <1>1, <1>2 DEF Copies, Around, Sent
    <2>2. \A v \in Workers : Carries(v, e, m)' => Around(e, m) /\ (Carries(v, e, m) \/ e = d)
      BY <1>1, <1>2 DEF Carries, Around, Sent
    <2>3. Sent(e, m)' => Around(e, m) /\ (Sent(e, m) \/ e = d)
      BY <2>1, <2>2 DEF Sent
    <2> QED BY <1>1, <2>3 DEF Around
  <1>4. Limit(e)' = Limit(e) /\ (e = d => Limit(e) = device[e].next)
    BY <1>1, <1>2 DEF Limit
  <1> QED BY <1>1, <1>3, <1>4

LEMMA FlushEndsAround ==
    ASSUME TInv, NEW d \in Devices, FlushEnds(d), NEW e \in Devices
    PROVE  /\ Limit(e)' = Limit(e)
           /\ (e = d => device'[e].next = Limit(e)) /\ (e # d => device'[e] = device[e])
           /\ \A m : /\ Sent(e, m)' => Sent(e, m)
                     /\ Around(e, m)' => Around(e, m) /\ (Sent(e, m) \/ e # d)
  <1> DEFINE pending == flush[d].copy.pending
             kept == {i \in DOMAIN pending : pending[i].seq \notin ConfirmedSeqs(flush[d])}
  <1>0. flush \in [Devices -> Flushes]
    BY DEF TInv, Typed
  <1>1. /\ flush[d].pc = "answered"
        /\ \A b \in Devices : b # d => device'[b] = device[b]
        /\ device'[d].next = flush[d].copy.next /\ device'[d].pending = Keep(pending, kept)
        /\ flush' = [flush EXCEPT ![d] = NoFlush] /\ frames' = frames
    BY FlushEndsIs DEF serverVars
  <1>2. flush'[d].pc = "idle" /\ \A b \in Devices : b # d => flush'[b] = flush[b]
    BY <1>0, <1>1, NoneIs
  <1>3. pending \in Seq(Mutation) /\ kept \in SUBSET DOMAIN pending
    BY <1>1, LimitIs
  <1> HIDE DEF kept
  <1>4. \A n : In(device'[d].pending, n) => In(pending, n)
    BY <1>1, <1>3, KeepIn
  <1>5. ASSUME NEW m
        PROVE  /\ Sent(e, m)' => Sent(e, m)
               /\ Around(e, m)' => Around(e, m) /\ (Sent(e, m) \/ e # d)
    <2>1. Sent(e, m)' => Sent(e, m)
      BY <1>1, <1>2 DEF Sent, Copies, Carries
    <2>2. CASE e = d
      BY <1>1, <1>4, <2>1, <2>2 DEF Around, Sent, Copies
    <2>3. CASE e # d
      BY <1>1, <2>1, <2>3 DEF Around
    <2> QED BY <2>1, <2>2, <2>3
  <1>6. /\ Limit(e)' = Limit(e)
        /\ (e = d => device'[e].next = Limit(e)) /\ (e # d => device'[e] = device[e])
    BY <1>1, <1>2 DEF Limit
  <1> QED BY <1>5, <1>6

LEMMA NumbersForget ==
    ASSUME TInv, Numbers, NEW d \in Devices, NEW doc \in Docs, ForgetDoc(d, doc)
    PROVE  Numbers'
  <1>1. /\ TInv' /\ \A e \in Devices : e # d => device'[e] = device[e]
        /\ UNCHANGED <<flush, frames, changes>>
    BY ForgetIs DEF serverVars
  <1>2. Distinct(device'[d].pending)
    BY ForgetIs, LimitIs, KeepIn DEF Numbers, Once
  <1>3. Once'
    BY <1>1, <1>2 DEF Numbers, Once
  <1>4. \A e \in Devices : \A m \in Mutation :
            /\ Around(e, m)' => Around(e, m) /\ m.seq < device'[e].next
            /\ Sent(e, m)' => m.seq < Limit(e)'
    BY ForgetAround DEF Numbers, InOrder
  <1> QED BY <1>1, <1>3, <1>4, Shrinks

LEMMA NumbersFlushBegins ==
    ASSUME TInv, Numbers, NEW d \in Devices, NEW w \in Workers, FlushBegins(d, w)
    PROVE  Numbers'
  <1>1. PICK fr \in Replays, fl \in Flushes :
            /\ TInv' /\ flush' = [flush EXCEPT ![d] = fl] /\ frames' = [frames EXCEPT ![w] = fr]
            /\ fl.copy = device[d] /\ fr.batch = device[d].pending /\ UNCHANGED <<device, changes>>
    BY FlushBeginsIs
  <1>2. Once'
    BY <1>1 DEF TInv, Typed, Numbers, Once
  <1>3. ASSUME NEW e \in Devices, NEW m \in Mutation
        PROVE  /\ Around(e, m)' => Around(e, m) /\ m.seq < device'[e].next
               /\ Sent(e, m)' => m.seq < Limit(e)'
    <2>1. /\ Limit(e)' = Limit(e) /\ device' = device /\ (e = d => Limit(e) = device[e].next)
          /\ (Sent(e, m)' => Sent(e, m) \/ e = d) /\ (Around(e, m)' => Around(e, m))
      BY FlushBeginsAround
    <2>2. Sent(e, m)' => Around(e, m)'
      BY DEF Around
    <2> QED BY <2>1, <2>2 DEF Numbers, InOrder
  <1> QED BY <1>1, <1>2, <1>3, Shrinks

LEMMA NumbersFlushEnds ==
    ASSUME TInv, Numbers, NEW d \in Devices, FlushEnds(d)
    PROVE  Numbers'
  <1> DEFINE pending == flush[d].copy.pending
             kept == {i \in DOMAIN pending : pending[i].seq \notin ConfirmedSeqs(flush[d])}
  <1>1. /\ TInv' /\ flush[d].pc = "answered"
        /\ \A e \in Devices : e # d => device'[e] = device[e]
        /\ device'[d].pending = Keep(pending, kept)
        /\ flush' = [flush EXCEPT ![d] = NoFlush] /\ UNCHANGED <<frames, changes>>
    BY FlushEndsIs DEF serverVars
  <1>2. pending \in Seq(Mutation) /\ kept \in SUBSET DOMAIN pending
    BY <1>1, LimitIs
  <1> HIDE DEF kept
  <1>3. Distinct(device'[d].pending)
    BY <1>1, <1>2, KeepIn DEF Numbers, Once
  <1>4. Once'
    BY <1>1, <1>3, NoneIs DEF TInv, Typed, Numbers, Once
  <1>5. ASSUME NEW e \in Devices, NEW m \in Mutation
        PROVE  /\ Around(e, m)' => Around(e, m) /\ m.seq < device'[e].next
               /\ Sent(e, m)' => m.seq < Limit(e)'
    BY FlushEndsAround DEF Numbers, InOrder
  <1> QED BY <1>1, <1>4, <1>5, Shrinks

LEMMA NumbersNext ==
    ASSUME TInv, Heard, Numbers, Known, [Next]_vars
    PROVE  Numbers'
  BY NextTyped, QuietCases, NumbersQuiet, NumbersQueues, NumbersForget, NumbersFlushBegins,
     NumbersFlushEnds

LEMMA LimitQuiet ==
    ASSUME TInv, Quiet, NEW d \in Devices
    PROVE  Limit(d)' \in {Limit(d), device[d].next}
  BY DEF Limit, Quiet

\* A device comes to know of its new mutations only, and its limit does not go back.
LEMMA AroundNext ==
    ASSUME TInv, Heard, [Next]_vars, NEW d \in Devices
    PROVE  /\ Limit(d) <= Limit(d)'
           /\ \A m \in Mutation : Around(d, m)' =>
                Around(d, m) \/ (Fresh(d, m) /\ UNCHANGED <<flush, serverVars, promised, noted, told, overlapped>>)
  <1>0. Limit(d) \in Nat /\ device[d].next \in Nat /\ Limit(d) <= device[d].next
    BY LimitIs
  <1>1. CASE Quiet
    BY <1>0, <1>1, LimitQuiet, AroundQuiet
  <1>2. ASSUME NEW e \in Devices, NEW doc \in Docs, Queues(e, doc)
        PROVE  /\ Limit(d) <= Limit(d)'
               /\ \A m \in Mutation : Around(d, m)' => Around(d, m) \/
                    (Fresh(d, m) /\ UNCHANGED <<flush, serverVars, promised, noted, told, overlapped>>)
    <2>1. PICK n : \E migrated \in SUBSET Docs :
                Fresh(e, n) /\ EnqueueMutation(e, n, migrated)
      BY <1>2, QueueIs DEF Queues
    <2>2. /\ \A b \in Devices : b # e => device'[b] = device[b]
          /\ device'[e].pending = Append(device[e].pending, n)
          /\ device'[e].next = device[e].next + 1
          /\ UNCHANGED <<flush, serverVars, promised, noted, told, overlapped>>
      BY <2>1, EnqueueIs
    <2>3. n \in Mutation
      BY <2>1 DEF Fresh
    <2>4. \A m : In(device'[e].pending, m) => In(device[e].pending, m) \/ m = n
      BY <2>2, <2>3, LimitIs, AppendIn
    <2>5. \A m : Around(d, m)' => Around(d, m) \/ (d = e /\ m = n)
      BY <2>2, <2>4 DEF serverVars, Around, Sent, Copies, Carries
    <2>6. Limit(d)' = Limit(d) \/ Limit(d)' = Limit(d) + 1
      BY <1>0, <2>2 DEF Limit
    <2> QED BY <1>0, <2>1, <2>2, <2>5, <2>6
  <1>3. ASSUME NEW e \in Devices, NEW doc \in Docs, ForgetDoc(e, doc)
        PROVE  /\ Limit(d) <= Limit(d)'
               /\ \A m \in Mutation : Around(d, m)' => Around(d, m)
    BY <1>0, <1>3, ForgetAround
  <1>4. ASSUME NEW e \in Devices, NEW w \in Workers, FlushBegins(e, w)
        PROVE  /\ Limit(d) <= Limit(d)'
               /\ \A m \in Mutation : Around(d, m)' => Around(d, m)
    BY <1>0, <1>4, FlushBeginsAround
  <1>5. ASSUME NEW e \in Devices, FlushEnds(e)
        PROVE  /\ Limit(d) <= Limit(d)'
               /\ \A m \in Mutation : Around(d, m)' => Around(d, m)
    BY <1>0, <1>5, FlushEndsAround
  <1> QED BY <1>1, <1>2, <1>3, <1>4, <1>5, QuietCases

LEMMA PastGrows ==
    ASSUME NEW row \in Rows, NEW n \in Nat, NEW k \in Nat, n <= k, Past(row, n)
    PROVE  Past(row, k)
  <1> SUFFICES ASSUME row # NoRow, NEW f \in Fields PROVE row[f] <= k
    BY DEF Past
  <1>1. row \in Row
    BY RowIs
  <1>2. row[f] \in Nat /\ row[f] <= n
    BY <1>1, SyncAssumption DEF Row, Past
  <1> QED BY <1>2

LEMMA ReplayPastGrows ==
    ASSUME NEW fr \in Replays, ReplayOK(fr), NEW n \in Nat, NEW k \in Nat, n <= k, ReplayPast(fr, n)
    PROVE  ReplayPast(fr, k)
  <1>1. ASSUME NEW i \in DOMAIN fr.staged PROVE Past(fr.staged[i].row, k)
    <2>1. fr.staged[i] \in Items
      BY DEF Replays
    <2>2. fr.staged[i].row \in Rows
      BY <2>1 DEF Items, Rows
    <2> QED BY <2>2, PastGrows DEF ReplayPast
  <1>2. ASSUME fr.pc = "put" PROVE Past(fr.result.row, k)
    <2>1. fr.result.row \in Rows
      BY <1>2 DEF ReplayOK, Rows
    <2> QED BY <1>2, <2>1, PastGrows DEF ReplayPast
  <1> QED BY <1>1, <1>2 DEF ReplayPast

\* A mutation writes its own change at most.
LEMMA ExecutePast ==
    ASSUME NEW row \in Rows, NEW m \in Mutation, NEW n \in Nat, Past(row, n), m.change <= n
    PROVE  Past(Execute(row, m).row, n)
  <1>1. CASE m.name = "record.create"
    <2>1. m.change \in Nat /\ Blank <= n
      BY MutationIs DEF Blank
    <2>2. Past(NewRow(m), n)
      BY <2>1 DEF Past, NewRow
    <2> QED BY <1>1, <2>2 DEF Execute, CreateRecord
  <1>2. CASE m.name # "record.create"
    <2>1. m.field \in Fields
      BY <1>2, MutationIs
    <2>2. CASE row = NoRow
      BY <1>2, <2>2 DEF Execute, EditRecord, Past
    <2>3. CASE row # NoRow
      <3> DEFINE new == [row EXCEPT ![m.field] = m.change]
      <3>1. row \in Row
        BY <2>3, RowIs
      <3>2. \A f \in Fields : new[f] <= n
        BY <2>1, <2>3, <3>1 DEF Past, Row
      <3> HIDE DEF new
      <3>3. Execute(row, m).row \in {row, new}
        BY <1>2, <2>3 DEF Execute, EditRecord, new
      <3> QED BY <3>2, <3>3 DEF Past
    <2> QED BY <2>2, <2>3
  <1> QED BY <1>1, <1>2

LEMMA GetRowPast ==
    ASSUME TInv, Known, NEW w \in Workers, NEW doc \in Docs
    PROVE  GetRow(frames[w], doc) \in Rows /\ Past(GetRow(frames[w], doc), changes)
  <1>1. frames[w] \in Replays /\ store \in [Docs -> Rows]
    BY DEF TInv, Typed
  <1>2. CASE Puts(frames[w], doc) = {}
    BY <1>1, <1>2, GetRowIs DEF Known, KnownStore
  <1>3. CASE Puts(frames[w], doc) # {}
    <2>1. PICK i \in Puts(frames[w], doc) : GetRow(frames[w], doc) = frames[w].staged[i].row
      BY <1>1, <1>3, GetRowIs
    <2>2. i \in DOMAIN frames[w].staged
      BY DEF Puts
    <2> QED BY <1>1, <2>1, <2>2, GetRowIs DEF Known, KnownReplays, ReplayPast
  <1> QED BY <1>2, <1>3

LEMMA AppendItem ==
    ASSUME NEW s \in Seq(Items), NEW item \in Items
    PROVE  /\ DOMAIN Append(s, item) = 1..(Len(s) + 1) /\ Len(s) \in Nat /\ DOMAIN s = 1..Len(s)
           /\ \A i \in DOMAIN s : Append(s, item)[i] = s[i]
           /\ Append(s, item)[Len(s) + 1] = item
  OBVIOUS

\* What is at work in a step of a replay: the mutation is one of its device's.
LEMMA CarriedIs ==
    ASSUME TInv, Numbers, NEW w \in Workers, frames[w].pc # "idle", NEW i \in DOMAIN frames[w].batch
    PROVE  LET m == frames[w].batch[i] d == frames[w].device IN
           /\ m \in Mutation /\ d \in Devices /\ Carries(w, d, m) /\ Sent(d, m) /\ Around(d, m)
           /\ m.client = ClientOf[d] /\ m.change \in Nat /\ m.change <= changes /\ m.seq < Limit(d)
           /\ m.name = "edit" => m.base < m.change
  <1> DEFINE m == frames[w].batch[i]
             d == frames[w].device
  <1>1. d \in Devices
    BY DEF TInv, ReplaysOK, ReplayOK
  <1>2. m \in Mutation
    BY DEF TInv, Typed, Replays
  <1>3. Carries(w, d, m)
    BY DEF Carries, In
  <1> HIDE DEF m, d
  <1>4. Sent(d, m) /\ Around(d, m) /\ m.change \in Nat
    BY <1>2, <1>3, MutationIs DEF Sent, Around
  <1> QED BY <1>1, <1>2, <1>3, <1>4 DEF Numbers, InOrder, m, d

LEMMA KnownGoes ==
    ASSUME TInv, Numbers, Known, NEW w \in Workers, Goes(w)
    PROVE  Known'
  <1> DEFINE fr == frames[w]
  <1>0. /\ frames \in [Workers -> Replays] /\ fr \in Replays /\ fr.staged \in Seq(Items)
        /\ ReplayPast(fr, changes) /\ store \in [Docs -> Rows]
    BY DEF TInv, Typed, Replays, Known, KnownReplays
  <1>1. ASSUME NEW g, Advance(w, g), ReplayPast(g, changes), KnownStore'
        PROVE  Known'
    <2>1. \A v \in Workers : frames'[v] = frames[v] \/ frames'[v] = g
      BY <1>0, <1>1 DEF Advance
    <2>2. UNCHANGED <<device, flush, changes>>
      BY <1>1 DEF Advance
    <2>3. KnownReplays'
      BY <1>1, <2>1, <2>2 DEF Known, KnownReplays
    <2>4. KnownDevices'
      BY <2>2 DEF Known, KnownDevices
    <2> QED BY <1>1, <2>3, <2>4 DEF Known
  <1>2. CASE LookInLedger(w)
    <2>1. PICK g : Advance(w, g) /\ g.staged = fr.staged /\ g.pc # "put" /\ store' = store
      BY <1>2, LookIs DEF Answers
    <2> QED BY <1>0, <1>1, <2>1 DEF ReplayPast, Known, KnownStore, Advance
  <1>3. CASE ApplyMutation(w)
    <2> DEFINE m == Current(fr)
    <2>1. PICK g : /\ Advance(w, g) /\ g.staged = fr.staged /\ store' = store
                   /\ g.result = Execute(GetRow(fr, m.doc), m)
      BY <1>3, ApplyIs
    <2>2. /\ fr.pc = "apply" /\ Len(fr.results) + 1 \in DOMAIN fr.batch
          /\ m = fr.batch[Len(fr.results) + 1] /\ m \in Mutation /\ m.doc \in Docs
      BY <1>3, ApplyIs, MutationIs
    <2>3. m.change <= changes /\ changes \in Nat
      BY <2>2, CarriedIs, SyncAssumption DEF TInv, Typed
    <2>4. Past(GetRow(fr, m.doc), changes) /\ GetRow(fr, m.doc) \in Rows
      BY <2>2, GetRowPast
    <2> HIDE DEF m, fr
    <2>5. Past(g.result.row, changes)
      BY <2>1, <2>2, <2>3, <2>4, ExecutePast
    <2> QED BY <1>0, <1>1, <2>1, <2>5 DEF ReplayPast, Known, KnownStore, Advance
  <1>4. CASE PutRow(w)
    <2> DEFINE item == [doc |-> Current(fr).doc, row |-> fr.result.row]
    <2>1. PICK g : /\ Advance(w, g) /\ g.staged = Append(fr.staged, item) /\ g.pc = "note"
                   /\ store' = store
      BY <1>4, PutIs
    <2>2. item \in Items /\ item.row = fr.result.row /\ Past(fr.result.row, changes)
      BY <1>0, <1>4, PutIs DEF ReplayPast
    <2> HIDE DEF item, fr
    <2>3. \A i \in DOMAIN g.staged : Past(g.staged[i].row, changes)
      <3> SUFFICES ASSUME NEW i \in DOMAIN g.staged PROVE Past(g.staged[i].row, changes)
        OBVIOUS
      <3>1. i \in DOMAIN fr.staged \/ i = Len(fr.staged) + 1
        BY <1>0, <2>1, <2>2, AppendItem
      <3>2. CASE i \in DOMAIN fr.staged
        BY <1>0, <2>1, <2>2, <3>2, AppendItem DEF ReplayPast
      <3>3. CASE i = Len(fr.staged) + 1
        BY <1>0, <2>1, <2>2, <3>3, AppendItem
      <3> QED BY <3>1, <3>2, <3>3
    <2> QED BY <1>1, <2>1, <2>3 DEF ReplayPast, Known, KnownStore, Advance
  <1>5. CASE PutLedger(w)
    <2>1. PICK g : Advance(w, g) /\ g.staged = fr.staged /\ g.pc # "put" /\ store' = store
      BY <1>5, NoteIs DEF Answers
    <2> QED BY <1>0, <1>1, <2>1 DEF ReplayPast, Known, KnownStore, Advance
  <1>6. CASE MirrorRow(w)
    <2> DEFINE item == fr.staged[fr.mirrored + 1]
    <2>1. PICK g : Advance(w, g) /\ g.staged = fr.staged /\ g.pc = "mirror"
      BY <1>6, MirrorIs
    <2>2. /\ fr.mirrored + 1 \in DOMAIN fr.staged
          /\ item.doc \in Docs /\ store' = [store EXCEPT ![item.doc] = item.row]
      BY <1>6, MirrorIs
    <2>3. Past(item.row, changes)
      BY <1>0, <2>2 DEF ReplayPast
    <2> HIDE DEF item
    <2>4. KnownStore'
      BY <1>0, <2>1, <2>2, <2>3 DEF Known, KnownStore, Advance
    <2> QED BY <1>0, <1>1, <2>1, <2>4 DEF ReplayPast
  <1> QED BY <1>2, <1>3, <1>4, <1>5, <1>6 DEF Goes

\* Where nothing is written the values stay, whatever becomes of the changes.
LEMMA KnownStays ==
    ASSUME TInv, TInv', Known, changes <= changes',
           \A doc \in Docs : store'[doc] = store[doc] \/ Past(store'[doc], changes'),
           \A w \in Workers : \/ frames'[w].staged = <<>> /\ frames'[w].pc # "put"
                              \/ Same(frames[w], frames'[w]),
           \A d \in Devices, doc \in Docs :
                /\ \/ Past(device'[d].local[doc], changes')
                   \/ device'[d].local[doc] = device[d].local[doc]
                   \/ flush[d].pc # "idle" /\ device'[d].local[doc] = flush[d].copy.local[doc]
                /\ \/ flush'[d].pc = "idle"
                   \/ flush[d].pc # "idle" /\ flush'[d].copy = flush[d].copy
                   \/ flush'[d].copy.local[doc] = device[d].local[doc]
    PROVE  Known'
  <1>0. changes \in Nat /\ changes' \in Nat
    BY SyncAssumption DEF TInv, Typed
  <1>1. KnownStore'
    <2> SUFFICES ASSUME NEW doc \in Docs PROVE Past(store'[doc], changes')
      BY DEF KnownStore
    <2>1. store[doc] \in Rows /\ Past(store[doc], changes)
      BY DEF TInv, Typed, Known, KnownStore
    <2>2. Past(store[doc], changes')
      BY <1>0, <2>1, PastGrows
    <2> QED BY <2>2
  <1>2. KnownReplays'
    <2> SUFFICES ASSUME NEW w \in Workers PROVE ReplayPast(frames'[w], changes')
      BY DEF KnownReplays
    <2>1. frames[w] \in Replays /\ ReplayOK(frames[w]) /\ ReplayPast(frames[w], changes)
      BY DEF TInv, Typed, ReplaysOK, Known, KnownReplays
    <2>2. ReplayPast(frames[w], changes')
      BY <1>0, <2>1, ReplayPastGrows
    <2>3. CASE Same(frames[w], frames'[w])
      BY <2>2, <2>3 DEF Same, ReplayPast
    <2>4. CASE frames'[w].staged = <<>> /\ frames'[w].pc # "put"
      <3>1. DOMAIN frames'[w].staged = {}
        BY <2>4
      <3> QED BY <2>4, <3>1 DEF ReplayPast
    <2> QED BY <2>3, <2>4
  <1>3. KnownDevices'
    <2> SUFFICES ASSUME NEW d \in Devices, NEW doc \in Docs
                 PROVE  /\ Past(device'[d].local[doc], changes')
                        /\ flush'[d].pc # "idle" => Past(flush'[d].copy.local[doc], changes')
      BY DEF KnownDevices
    <2>1. device[d].local[doc] \in Rows /\ Past(device[d].local[doc], changes)
      BY LimitIs DEF Known, KnownDevices
    <2>2. flush[d].pc # "idle" =>
            flush[d].copy.local[doc] \in Rows /\ Past(flush[d].copy.local[doc], changes)
      BY LimitIs DEF Known, KnownDevices
    <2>3. Past(device[d].local[doc], changes')
      BY <1>0, <2>1, PastGrows
    <2>4. flush[d].pc # "idle" => Past(flush[d].copy.local[doc], changes')
      BY <1>0, <2>2, PastGrows
    <2> QED BY <2>3, <2>4
  <1> QED BY <1>1, <1>2, <1>3 DEF Known

LEMMA SameIs == \A fr : Same(fr, fr)
  BY DEF Same

LEMMA KnownNext ==
    ASSUME TInv, Heard, Numbers, Known, [Next]_vars
    PROVE  Known'
  <1>0. /\ TInv' /\ changes \in Nat
        /\ frames \in [Workers -> Replays] /\ flush \in [Devices -> Flushes] /\ store \in [Docs -> Rows]
    BY NextTyped, SyncAssumption DEF TInv, Typed
  <1>1. CASE UNCHANGED vars
    <2>1. UNCHANGED <<device, flush, frames, store, changes>>
      BY <1>1 DEF vars, serverVars
    <2> QED BY <2>1 DEF Known, KnownStore, KnownDevices, KnownReplays
  <1>2. ASSUME NEW d \in Devices, NEW doc \in Docs, Queues(d, doc)
        PROVE  Known'
    <2>1. PICK m : \E migrated \in SUBSET Docs :
                Fresh(d, m) /\ EnqueueMutation(d, m, migrated)
      BY <1>2, QueueIs DEF Queues
    <2> DEFINE row == device[d].local[m.doc]
    <2>2. /\ \A e \in Devices : e # d => device'[e] = device[e]
          /\ device'[d].local = [device[d].local EXCEPT ![m.doc] = Execute(row, m).row]
          /\ changes' = changes + 1 /\ UNCHANGED <<flush, frames, store>>
      BY <2>1, EnqueueIs DEF serverVars
    <2>3. m \in Mutation /\ m.doc \in Docs /\ m.change = changes + 1
      BY <2>1, MutationIs DEF Fresh
    <2>4. row \in Rows /\ Past(row, changes)
      BY <2>3, LimitIs DEF Known, KnownDevices
    <2> HIDE DEF row
    <2>5. Past(row, changes + 1)
      BY <1>0, <2>4, PastGrows
    <2>6. Past(Execute(row, m).row, changes + 1)
      BY <1>0, <2>3, <2>4, <2>5, ExecutePast
    <2>7. \A e \in Devices, i \in Docs :
            Past(device'[e].local[i], changes') \/ device'[e].local[i] = device[e].local[i]
      BY <2>2, <2>3, <2>6, LimitIs
    <2> QED BY <1>0, <2>2, <2>7, KnownStays, SameIs
  <1>3. ASSUME NEW d \in Devices, NEW doc \in Docs, ForgetDoc(d, doc)
        PROVE  Known'
    <2>1. /\ \A e \in Devices : device'[e].local = device[e].local
          /\ UNCHANGED <<flush, frames, store, changes>>
      BY <1>3, ForgetIs DEF serverVars
    <2> QED BY <2>1 DEF Known, KnownStore, KnownDevices, KnownReplays
  <1>4. ASSUME NEW d \in Devices, NEW w \in Workers, FlushBegins(d, w)
        PROVE  Known'
    <2>1. PICK fr \in Replays, fl \in Flushes :
            /\ flush' = [flush EXCEPT ![d] = fl] /\ frames' = [frames EXCEPT ![w] = fr]
            /\ fl.copy = device[d] /\ fr.pc = "look" /\ fr.staged = <<>>
            /\ UNCHANGED <<device, store, changes>>
      BY <1>4, FlushBeginsIs
    <2>2. /\ \A v \in Workers : frames'[v] = frames[v] \/ frames'[v] = fr
          /\ \A e \in Devices : flush'[e] = flush[e] \/ (e = d /\ flush'[e] = fl)
      BY <1>0, <2>1
    <2> QED BY <1>0, <2>1, <2>2, KnownStays, SameIs
  <1>5. ASSUME NEW d \in Devices, FlushEnds(d)
        PROVE  Known'
    <2>1. /\ flush[d].pc = "answered" /\ \A e \in Devices : e # d => device'[e] = device[e]
          /\ device'[d].local = flush[d].copy.local
          /\ flush' = [flush EXCEPT ![d] = NoFlush] /\ UNCHANGED <<frames, store, changes>>
      BY <1>5, FlushEndsIs DEF serverVars
    <2>2. \A e \in Devices : flush'[e] = flush[e] \/ flush'[e].pc = "idle"
      BY <1>0, <2>1, NoneIs
    <2> QED BY <1>0, <2>1, <2>2, KnownStays, SameIs
  <1>6. ASSUME NEW d \in Devices, PostFails(d)
        PROVE  Known'
    <2>1. /\ flush' = [flush EXCEPT ![d] = NoFlush] /\ \A w \in Workers : Same(frames[w], frames'[w])
          /\ UNCHANGED <<device, store, changes>>
      BY <1>6, PostFailsIs
    <2>2. \A e \in Devices : flush'[e] = flush[e] \/ flush'[e].pc = "idle"
      BY <1>0, <2>1, NoneIs
    <2> QED BY <1>0, <2>1, <2>2, KnownStays
  <1>7. ASSUME NEW w \in Workers, Goes(w)
        PROVE  Known'
    BY <1>7, KnownGoes
  <1>8. ASSUME NEW w \in Workers, RollsBackAt(w)
        PROVE  Known'
    <2>1. frames[w].pc # "idle" /\ RolledBack(w) /\ faults' \in 0..MaxFaults
      BY <1>8, RollsBack DEF RollsBackAt
    <2>2. /\ frames' = [frames EXCEPT ![w] = NoFrame]
          /\ \A d \in Devices : flush'[d] = flush[d] \/ flush'[d] = NoFlush
          /\ UNCHANGED <<device, store, changes>>
      BY <2>1, RolledIs
    <2>3. \A v \in Workers : frames'[v] = frames[v] \/ (frames'[v].staged = <<>> /\ frames'[v].pc # "put")
      BY <1>0, <2>2, NoneIs
    <2>4. \A e \in Devices : flush'[e] = flush[e] \/ flush'[e].pc = "idle"
      BY <2>2, NoneIs
    <2> QED BY <1>0, <2>2, <2>3, <2>4, KnownStays, SameIs
  <1>9. ASSUME NEW w \in Workers, Commit(w)
        PROVE  Known'
    <2>1. /\ frames' = [frames EXCEPT ![w] = NoFrame]
          /\ \A d \in Devices :
                flush'[d] = flush[d] \/ (Waited(w, d) /\ flush'[d].copy = flush[d].copy)
          /\ UNCHANGED <<device, store, changes>>
      BY <1>9, CommitIs
    <2>2. \A v \in Workers : frames'[v] = frames[v] \/ (frames'[v].staged = <<>> /\ frames'[v].pc # "put")
      BY <1>0, <2>1, NoneIs
    <2>3. \A d \in Devices : flush'[d] = flush[d] \/ (flush[d].pc # "idle" /\ flush'[d].copy = flush[d].copy)
      BY <2>1 DEF Heard
    <2> QED BY <1>0, <2>1, <2>2, <2>3, KnownStays, SameIs
  <1>10. ASSUME NEW doc \in Docs, NEW f \in Fields, EditOnline(doc, f)
         PROVE  Known'
    <2> DEFINE new == [store[doc] EXCEPT ![f] = changes + 1]
    <2>1. /\ store' = [store EXCEPT ![doc] = new] /\ store[doc] \in Row
          /\ changes' = changes + 1 /\ UNCHANGED <<device, flush, frames>>
      BY <1>10, EditOnlineIs
    <2>2. \A g \in Fields : store[doc][g] \in Nat /\ store[doc][g] <= changes
      BY <2>1, RowIs, SyncAssumption DEF Known, KnownStore, Past, Row
    <2>3. Past(new, changes')
      BY <1>0, <2>1, <2>2 DEF Past, Row
    <2> HIDE DEF new
    <2>4. \A i \in Docs : store'[i] = store[i] \/ Past(store'[i], changes')
      BY <1>0, <2>1, <2>3
    <2> QED BY <1>0, <2>1, <2>4, KnownStays, SameIs
  <1> QED BY <1>1, <1>2, <1>3, <1>4, <1>5, <1>6, <1>7, <1>8, <1>9, <1>10, Cases

LEMMA InitNumbers ==
    ASSUME Init
    PROVE  Numbers /\ Known
  <1>1. /\ \A d \in Devices : /\ flush[d].pc = "idle" /\ device[d].pending = <<>>
                              /\ \A doc \in Docs : device[d].local[doc] = NoRow
        /\ \A w \in Workers : frames[w].pc = "idle" /\ frames[w].staged = <<>>
        /\ \A doc \in Docs : store[doc] = NoRow
        /\ changes = 0
    BY NoneIs DEF Init
  <1>2. \A d \in Devices : \A m : ~Around(d, m)
    BY <1>1 DEF Around, Sent, Copies, Carries, In
  <1>3. OneNumber /\ OneChange
    BY <1>2 DEF OneNumber, OneChange
  <1>4. InOrder
    BY <1>2 DEF InOrder, Around
  <1>5. Once
    BY <1>1 DEF Once, Distinct
  <1>6. Known
    BY <1>1 DEF Known, KnownStore, KnownDevices, KnownReplays, ReplayPast, Past
  <1> QED BY <1>3, <1>4, <1>5, <1>6 DEF Numbers

-----------------------------------------------------------------------------
(* What is confirmed is stored *)

\* The row of doc is in its table, or w has it still to mirror.
Coming(w, doc) ==
    \/ store[doc] # NoRow
    \/ \E j \in DOMAIN frames[w].staged :
            j > frames[w].mirrored /\ frames[w].staged[j].doc = doc

\* The mutations of a batch that w has replayed, the one to be noted included.
Replayed(w, i) ==
    /\ frames[w].pc # "idle" /\ i \in DOMAIN frames[w].batch
    /\ i <= Len(frames[w].results) \/ (frames[w].pc = "note" /\ i = Len(frames[w].results) + 1)

\* What the ledger takes from a device is below its limit, and a creation it took is in
\* the table; one it has not got yet is, or is to be mirrored, where it was replayed.
NotedBelow == \A d \in Devices, s \in Seqs : <<d, s>> \in noted => s < Limit(d)
NotedStored == \A d \in Devices : \A m \in Mutation :
    Around(d, m) /\ m.name = "record.create" /\ <<d, m.seq>> \in noted => store[m.doc] # NoRow
Open(w, i) == ledger[frames[w].batch[i].client][frames[w].batch[i].seq] = NoStatus
ReplayStored == \A w \in Workers, i \in Nat, doc \in Docs :
    /\ Replayed(w, i) /\ Open(w, i)
    /\ frames[w].batch[i].name = "record.create" /\ frames[w].batch[i].doc = doc
    => Coming(w, doc)

\* What is answered, and what was promised, is in the ledger.
AnswerNoted == \A d \in Devices : flush[d].pc = "answered" =>
    \A i \in DOMAIN flush[d].results \cap DOMAIN flush[d].copy.pending :
        ledger[flush[d].copy.pending[i].client][flush[d].copy.pending[i].seq] # NoStatus
PromiseNoted == \A p \in promised : ledger[ClientOf[p.device]][p.seq] # NoStatus

Saved ==
    NotedBelow /\ NotedStored /\ ReplayStored /\ AnswerNoted /\ PromiseNoted /\ StoredUnlessShared

\* Which steps touch what: only a commit writes the ledger and tells, only a mirrored
\* row or an edit online changes a row, only the end of a flush promises.
LEMMA Untouched ==
    ASSUME TInv, Heard, [Next]_vars
    PROVE  /\ changes <= changes' /\ (overlapped => overlapped')
           /\ UNCHANGED <<ledger, noted, told>> \/ \E w \in Workers : Commit(w)
           /\ \/ store' = store
              \/ \E w \in Workers : MirrorRow(w)
              \/ \E doc \in Docs, f \in Fields : EditOnline(doc, f)
           /\ promised' = promised \/ \E d \in Devices : FlushEnds(d)
           /\ \/ \A d \in Devices : flush'[d].pc = "answered" => flush'[d] = flush[d]
              \/ \E w \in Workers : Commit(w)
  <1>0. changes \in Nat /\ flush \in [Devices -> Flushes] /\ overlapped \in BOOLEAN
    BY SyncAssumption DEF TInv, Typed
  <1>1. CASE UNCHANGED vars
    BY <1>0, <1>1 DEF vars, serverVars, historyVars
  <1>2. ASSUME NEW d \in Devices, NEW doc \in Docs, Queues(d, doc)
        PROVE  changes' = changes + 1 /\ UNCHANGED <<flush, store, ledger, promised, noted, told, overlapped>>
    <2>1. PICK m : \E migrated \in SUBSET Docs :
                Fresh(d, m) /\ EnqueueMutation(d, m, migrated)
      BY <1>2, QueueIs DEF Queues
    <2> QED BY <2>1, EnqueueIs DEF serverVars
  <1>3. ASSUME NEW d \in Devices, NEW doc \in Docs, ForgetDoc(d, doc)
        PROVE  UNCHANGED <<changes, flush, store, ledger, promised, noted, told, overlapped>>
    BY <1>3, ForgetIs DEF serverVars
  <1>4. ASSUME NEW d \in Devices, NEW w \in Workers, FlushBegins(d, w)
        PROVE  /\ UNCHANGED <<changes, store, ledger, promised, noted, told>> /\ (overlapped => overlapped')
               /\ \A e \in Devices : flush'[e].pc = "answered" => flush'[e] = flush[e]
    <2>1. PICK fl \in Flushes :
            /\ flush' = [flush EXCEPT ![d] = fl] /\ fl.pc = "posted"
            /\ overlapped' = (overlapped \/ Replaying)
            /\ UNCHANGED <<changes, store, ledger, promised, noted, told>>
      BY <1>4, FlushBeginsIs
    <2>2. \A e \in Devices : flush'[e] = flush[e] \/ flush'[e] = fl
      BY <1>0, <2>1
    <2> QED BY <1>0, <2>1, <2>2
  <1>5. ASSUME NEW d \in Devices, FlushEnds(d)
        PROVE  /\ UNCHANGED <<changes, store, ledger, noted, told, overlapped>>
               /\ \A e \in Devices : flush'[e].pc = "answered" => flush'[e] = flush[e]
    <2>1. /\ flush' = [flush EXCEPT ![d] = NoFlush]
          /\ UNCHANGED <<changes, store, ledger, noted, told, overlapped>>
      BY <1>5, FlushEndsIs DEF serverVars
    <2> QED BY <1>0, <2>1, NoneIs
  <1>6. ASSUME NEW d \in Devices, PostFails(d)
        PROVE  /\ UNCHANGED <<changes, store, ledger, promised, noted, told, overlapped>>
               /\ \A e \in Devices : flush'[e].pc = "answered" => flush'[e] = flush[e]
    <2>1. /\ flush' = [flush EXCEPT ![d] = NoFlush]
          /\ UNCHANGED <<changes, store, ledger, promised, noted, told, overlapped>>
      BY <1>6, PostFailsIs DEF historyVars
    <2> QED BY <1>0, <2>1, NoneIs
  <1>7. ASSUME NEW w \in Workers, Goes(w)
        PROVE  /\ UNCHANGED <<changes, flush, ledger, promised, noted, told, overlapped>>
               /\ store' = store \/ MirrorRow(w)
    <2>1. UNCHANGED <<changes, flush, ledger, promised, noted, told, overlapped>>
      BY <1>7, GoesIs DEF Advance, historyVars
    <2>2. LookInLedger(w) \/ ApplyMutation(w) \/ PutRow(w) \/ PutLedger(w) => store' = store
      BY LookIs, ApplyIs, PutIs, NoteIs
    <2> QED BY <1>7, <2>1, <2>2 DEF Goes
  <1>8. ASSUME NEW w \in Workers, RollsBackAt(w)
        PROVE  /\ UNCHANGED <<changes, store, ledger, promised, noted, told, overlapped>>
               /\ \A e \in Devices : flush'[e].pc = "answered" => flush'[e] = flush[e]
    BY <1>8, RollsBack, RolledIs, NoneIs DEF RollsBackAt, historyVars
  <1>9. ASSUME NEW w \in Workers, Commit(w)
        PROVE  UNCHANGED <<changes, store, promised, overlapped>>
    BY <1>9, CommitIs
  <1>10. ASSUME NEW doc \in Docs, NEW f \in Fields, EditOnline(doc, f)
         PROVE  /\ changes' = changes + 1 /\ UNCHANGED <<flush, ledger, promised, noted, told>>
                /\ overlapped => overlapped'
    BY <1>0, <1>10, EditOnlineIs
  <1> QED BY <1>0, <1>1, <1>2, <1>3, <1>4, <1>5, <1>6, <1>7, <1>8, <1>9, <1>10, Cases

\* No step takes a row away.
LEMMA StoreRises ==
    ASSUME TInv, Heard, [Next]_vars, NEW doc \in Docs, store[doc] # NoRow
    PROVE  store'[doc] # NoRow
  <1>0. store \in [Docs -> Rows]
    BY DEF TInv, Typed
  <1>1. ASSUME NEW w \in Workers, MirrorRow(w)
        PROVE  store'[doc] # NoRow
    <2> DEFINE item == frames[w].staged[frames[w].mirrored + 1]
    <2>1. item.doc \in Docs /\ item.row \in Row /\ store' = [store EXCEPT ![item.doc] = item.row]
      BY <1>1, MirrorIs
    <2> HIDE DEF item
    <2> QED BY <1>0, <2>1, RowIs
  <1>2. ASSUME NEW i \in Docs, NEW f \in Fields, EditOnline(i, f)
        PROVE  store'[doc] # NoRow
    <2>1. store' = [store EXCEPT ![i] = [store[i] EXCEPT ![f] = changes + 1]] /\ store'[i] \in Row
      BY <1>2, EditOnlineIs
    <2> QED BY <1>0, <2>1, RowIs
  <1> QED BY <1>1, <1>2, Untouched

\* What the ledger has it keeps, and so it does whose number it was.
LEMMA LedgerKeeps ==
    ASSUME TInv, Heard, [Next]_vars
    PROVE  /\ \A c \in Clients, s \in Seqs : ledger[c][s] # NoStatus => ledger'[c][s] # NoStatus
           /\ noted \subseteq noted'
  <1>1. ASSUME NEW w \in Workers, Commit(w)
        PROVE  /\ \A c \in Clients, s \in Seqs : ledger[c][s] # NoStatus => ledger'[c][s] # NoStatus
               /\ noted \subseteq noted'
    BY <1>1, CommitIs
  <1> QED BY <1>1, Untouched

\* A commit leaves all of its batch in the ledger.
LEMMA CommitNotes ==
    ASSUME TInv, Heard, Numbers, NEW w \in Workers, Commit(w), NEW i \in DOMAIN frames[w].batch
    PROVE  ledger'[frames[w].batch[i].client][frames[w].batch[i].seq] # NoStatus
  <1> DEFINE m == frames[w].batch[i]
  <1>1. frames[w].pc = "mirror"
    BY CommitIs
  <1>2. m.client \in Clients /\ m.seq \in Seqs
    BY <1>1, CarriedIs, MutationIs
  <1>3. \A k \in Statuses : k # NoStatus
    BY DEF Statuses, NoStatus
  <1>4. CASE ledger'[m.client][m.seq] = ledger[m.client][m.seq] /\ ledger[m.client][m.seq] # NoStatus
    BY <1>4
  <1>5. CASE ledger'[m.client][m.seq] \in Statuses
    BY <1>3, <1>5
  <1> QED BY <1>2, <1>4, <1>5, CommitIs

\* What the ledger takes from a device is one of its mutations, which was replayed.
LEMMA NotedIs ==
    ASSUME TInv, Heard, Numbers, [Next]_vars, NEW d \in Devices, NEW s \in Seqs,
           <<d, s>> \in noted', <<d, s>> \notin noted
    PROVE  \E w \in Workers : \E i \in DOMAIN frames[w].batch :
            /\ Commit(w) /\ frames[w].pc = "mirror" /\ frames[w].device = d
            /\ Len(frames[w].results) = Len(frames[w].batch)
            /\ frames[w].mirrored = Len(frames[w].staged)
            /\ frames[w].batch[i].seq = s /\ Open(w, i) /\ s < Limit(d)
            /\ frames[w].batch[i].client = ClientOf[d]
            /\ \A m \in Mutation : Around(d, m) /\ m.seq = s => m = frames[w].batch[i]
  <1>1. PICK w \in Workers : Commit(w)
    BY Untouched
  <1>2. /\ frames[w].pc = "mirror" /\ Len(frames[w].results) = Len(frames[w].batch)
        /\ frames[w].mirrored = Len(frames[w].staged)
    BY <1>1, CommitIs
  <1>3. /\ frames[w].device = d
        /\ \E i \in DOMAIN frames[w].batch : frames[w].batch[i].seq = s
                /\ ledger[frames[w].batch[i].client][s] = NoStatus
    BY <1>1, CommitIs
  <1>4. PICK i \in DOMAIN frames[w].batch : frames[w].batch[i].seq = s
                /\ ledger[frames[w].batch[i].client][s] = NoStatus
    BY <1>3
  <1>5. /\ frames[w].batch[i] \in Mutation /\ Around(d, frames[w].batch[i]) /\ s < Limit(d)
        /\ frames[w].batch[i].client = ClientOf[d]
    BY <1>2, <1>3, <1>4, CarriedIs
  <1>6. \A m \in Mutation : Around(d, m) /\ m.seq = s => m = frames[w].batch[i]
    BY <1>4, <1>5 DEF Numbers, OneNumber
  <1> QED BY <1>1, <1>2, <1>3, <1>4, <1>5, <1>6 DEF Open

LEMMA NotedSaved ==
    ASSUME TInv, Heard, Numbers, Saved, [Next]_vars
    PROVE  NotedBelow' /\ NotedStored'
  <1>1. ASSUME NEW d \in Devices, NEW s \in Seqs, <<d, s>> \in noted'
        PROVE  s < Limit(d)'
    <2>1. s \in Nat /\ Limit(d) \in Nat /\ Limit(d)' \in Nat /\ Limit(d) <= Limit(d)'
      <3>1. TInv'
        BY NextTyped
      <3>2. Limit(d)' \in Nat
        BY <3>1 DEF TInv, Typed, Copied, Device, Seqs, Limit
      <3> QED BY <3>2, LimitIs, AroundNext DEF Seqs
    <2>2. s < Limit(d)
      BY <1>1, NotedIs DEF Saved, NotedBelow
    <2> QED BY <2>1, <2>2
  <1>2. ASSUME NEW d \in Devices, NEW m \in Mutation, Around(d, m)', m.name = "record.create",
               <<d, m.seq>> \in noted'
        PROVE  store'[m.doc] # NoRow
    <2>1. m.doc \in Docs /\ m.seq \in Seqs /\ m.seq \in Nat
      BY MutationIs DEF Seqs
    <2>2. CASE Fresh(d, m) /\ UNCHANGED <<flush, serverVars, promised, noted, told, overlapped>>
      <3>1. <<d, m.seq>> \in noted /\ m.seq = device[d].next
        BY <1>2, <2>2 DEF Fresh
      <3>2. m.seq < Limit(d) /\ Limit(d) <= device[d].next /\ Limit(d) \in Nat /\ device[d].next \in Nat
        BY <2>1, <3>1, LimitIs DEF Saved, NotedBelow
      <3> QED BY <3>1, <3>2
    <2>3. CASE Around(d, m)
      <3>1. CASE <<d, m.seq>> \in noted
        <4>1. store[m.doc] # NoRow
          BY <1>2, <2>3, <3>1 DEF Saved, NotedStored
        <4> QED BY <2>1, <4>1, StoreRises
      <3>2. CASE <<d, m.seq>> \notin noted
        <4>0. PICK w \in Workers : \E i \in DOMAIN frames[w].batch :
                /\ frames[w].pc = "mirror" /\ Len(frames[w].results) = Len(frames[w].batch)
                /\ frames[w].mirrored = Len(frames[w].staged)
                /\ Open(w, i) /\ m = frames[w].batch[i]
          BY <1>2, <2>1, <2>3, <3>2, NotedIs
        <4>1. PICK i \in DOMAIN frames[w].batch :
                /\ frames[w].pc = "mirror" /\ Len(frames[w].results) = Len(frames[w].batch)
                /\ frames[w].mirrored = Len(frames[w].staged)
                /\ Open(w, i) /\ m = frames[w].batch[i]
          BY <4>0
        <4>2. i \in Nat /\ i <= Len(frames[w].batch)
          BY DEF TInv, Typed, Replays
        <4>3. Coming(w, m.doc)
          BY <1>2, <2>1, <4>1, <4>2 DEF Saved, ReplayStored, Replayed
        <4>4. ~ \E j \in DOMAIN frames[w].staged : j > frames[w].mirrored
          <5>1. frames[w].staged \in Seq(Items)
            BY DEF TInv, Typed, Replays
          <5> QED BY <4>1, <5>1
        <4>5. store[m.doc] # NoRow
          BY <4>3, <4>4 DEF Coming
        <4> QED BY <2>1, <4>5, StoreRises
      <3> QED BY <3>1, <3>2
    <2> QED BY <1>2, <2>2, <2>3, AroundNext
  <1> QED BY <1>1, <1>2 DEF NotedBelow, NotedStored

\* A replay that does not go on stays what it was, ends or begins.
LEMMA FrameStays ==
    ASSUME TInv, Heard, [Next]_vars, NEW w \in Workers, ~Goes(w)
    PROVE  \/ Same(frames[w], frames'[w])
           \/ frames'[w].pc = "idle"
           \/ frames'[w].pc = "look" /\ frames'[w].results = <<>> /\ frames'[w].staged = <<>>
  <1>0. frames \in [Workers -> Replays]
    BY DEF TInv, Typed
  <1>1. CASE UNCHANGED vars
    BY <1>1, SameIs DEF vars, serverVars
  <1>2. ASSUME NEW d \in Devices, NEW doc \in Docs, Queues(d, doc)
        PROVE  frames' = frames
    <2>1. PICK m : \E migrated \in SUBSET Docs :
                Fresh(d, m) /\ EnqueueMutation(d, m, migrated)
      BY <1>2, QueueIs DEF Queues
    <2> QED BY <2>1, EnqueueIs DEF serverVars
  <1>3. ASSUME NEW d \in Devices, NEW doc \in Docs, ForgetDoc(d, doc)
        PROVE  frames' = frames
    BY <1>3, ForgetIs DEF serverVars
  <1>4. ASSUME NEW d \in Devices, NEW v \in Workers, FlushBegins(d, v)
        PROVE  \/ frames'[w] = frames[w]
               \/ frames'[w].pc = "look" /\ frames'[w].results = <<>> /\ frames'[w].staged = <<>>
    <2>1. PICK fr \in Replays : /\ frames' = [frames EXCEPT ![v] = fr]
                                /\ fr.pc = "look" /\ fr.results = <<>> /\ fr.staged = <<>>
      BY <1>4, FlushBeginsIs
    <2> QED BY <1>0, <2>1
  <1>5. ASSUME NEW d \in Devices, FlushEnds(d)
        PROVE  frames' = frames
    BY <1>5, FlushEndsIs DEF serverVars
  <1>6. ASSUME NEW d \in Devices, PostFails(d)
        PROVE  Same(frames[w], frames'[w])
    BY <1>6, PostFailsIs
  <1>7. ASSUME NEW v \in Workers, Goes(v)
        PROVE  frames'[w] = frames[w]
    <2>1. v # w
      BY <1>7
    <2> QED BY <1>0, <1>7, <2>1, GoesIs DEF Advance
  <1>8. ASSUME NEW v \in Workers, RollsBackAt(v) \/ Commit(v)
        PROVE  frames'[w] = frames[w] \/ frames'[w].pc = "idle"
    <2>1. frames' = [frames EXCEPT ![v] = NoFrame]
      BY <1>8, RollsBack, RolledIs, CommitIs DEF RollsBackAt
    <2> QED BY <1>0, <2>1, NoneIs
  <1>9. ASSUME NEW doc \in Docs, NEW f \in Fields, EditOnline(doc, f)
        PROVE  frames' = frames
    BY <1>9, EditOnlineIs
  <1> QED BY <1>1, <1>2, <1>3, <1>4, <1>5, <1>6, <1>7, <1>8, <1>9, Cases, SameIs

\* What a replay has dealt with stays stored, or to be mirrored.
LEMMA ReplaysSaved ==
    ASSUME TInv, Heard, Numbers, Saved, [Next]_vars, NEW w \in Workers, NEW i \in Nat,
           NEW doc \in Docs, ~Goes(w), Replayed(w, i)', Open(w, i)',
           frames'[w].batch[i].name = "record.create", frames'[w].batch[i].doc = doc
    PROVE  Coming(w, doc)'
  <1>1. TInv'
    BY NextTyped
  <1>2. i \in DOMAIN frames'[w].batch /\ frames'[w].batch \in Seq(Mutation)
    BY <1>1 DEF Replayed, TInv, Typed, Replays
  <1>3. i >= 1
    BY <1>2
  <1>4. Same(frames[w], frames'[w])
    <2>1. CASE frames'[w].pc = "look" /\ frames'[w].results = <<>>
      <3>1. Len(frames'[w].results) = 0
        BY <2>1
      <3> QED BY <1>3, <2>1, <3>1 DEF Replayed
    <2> QED BY <2>1, FrameStays DEF Replayed
  <1>5. /\ Replayed(w, i)
        /\ frames[w].batch[i].name = "record.create" /\ frames[w].batch[i].doc = doc
    BY <1>4 DEF Replayed, Same
  <1>10. Open(w, i)
    <2>1. frames'[w].batch[i] = frames[w].batch[i] /\ frames[w].pc # "idle"
      BY <1>4, <1>5 DEF Same, Replayed
    <2>2. frames[w].batch[i].client \in Clients /\ frames[w].batch[i].seq \in Seqs
      BY <1>5, <2>1, CarriedIs, MutationIs DEF Replayed
    <2> QED BY <2>1, <2>2, LedgerKeeps DEF Open
  <1>6. Coming(w, doc)
    BY <1>5, <1>10 DEF Saved, ReplayStored
  <1>7. frames'[w].staged = frames[w].staged /\ frames'[w].mirrored = frames[w].mirrored
    BY <1>4 DEF Same
  <1>8. CASE store[doc] # NoRow
    BY <1>8, StoreRises DEF Coming
  <1>9. CASE store[doc] = NoRow
    BY <1>6, <1>7, <1>9 DEF Coming
  <1> QED BY <1>8, <1>9

LEMMA ReplayGoes ==
    ASSUME TInv, Heard, Numbers, Saved, [Next]_vars, NEW w \in Workers, NEW i \in Nat,
           NEW doc \in Docs, Goes(w), Replayed(w, i)', Open(w, i)',
           frames'[w].batch[i].name = "record.create", frames'[w].batch[i].doc = doc
    PROVE  Coming(w, doc)'
  <1> DEFINE fr == frames[w]
             m == Current(fr)
             at == Len(fr.results) + 1
  <1>0. /\ frames \in [Workers -> Replays] /\ fr \in Replays /\ fr.results \in Seq(Statuses)
        /\ fr.staged \in Seq(Items) /\ fr.mirrored \in Nat /\ Len(fr.results) \in Nat
    BY DEF TInv, Typed, Replays
  <1>1. ASSUME NEW g, Advance(w, g), Kin(fr, g)
        PROVE  frames'[w] = g /\ g.batch = fr.batch /\ g \in Replays /\ g.results \in Seq(Statuses)
    BY <1>0, <1>1 DEF Advance, Kin, Replays
  <1>11. Open(w, i)
    <2>1. PICK g : Advance(w, g) /\ Kin(fr, g)
      BY GoesIs
    <2> QED BY <1>1, <2>1 DEF Open, Advance
  <1>2. ASSUME Replayed(w, i), fr.batch[i].name = "record.create", fr.batch[i].doc = doc
        PROVE  Coming(w, doc)
    BY <1>2, <1>11 DEF Saved, ReplayStored
  <1>3. ASSUME NEW j \in DOMAIN frames'[w].staged, j > frames'[w].mirrored, frames'[w].staged[j].doc = doc
        PROVE  Coming(w, doc)'
    BY <1>3 DEF Coming
  <1>4. ASSUME store[doc] # NoRow
        PROVE  Coming(w, doc)'
    BY <1>4, StoreRises DEF Coming
  <1>5. ASSUME Coming(w, doc), frames'[w].staged = fr.staged, frames'[w].mirrored = fr.mirrored
        PROVE  Coming(w, doc)'
    BY <1>4, <1>5 DEF Coming
  <1>6. CASE LookInLedger(w)
    <2>1. fr.pc = "look" /\ at \in DOMAIN fr.batch /\ m = fr.batch[at] /\ m \in Mutation
      BY <1>6, LookIs
    <2>2. PICK g : /\ Advance(w, g) /\ Kin(fr, g)
                   /\ g.staged = fr.staged /\ g.mirrored = fr.mirrored
                   /\ \/ g.pc = "apply" /\ g.results = fr.results
                      \/ Answers(fr, g, ledger[m.client][m.seq])
      BY <1>6, LookIs DEF Answers
    <2>3. frames'[w] = g /\ g.batch = fr.batch
      BY <1>1, <2>2
    <2>4. CASE g.pc = "apply" /\ g.results = fr.results
      <3>1. Replayed(w, i)
        BY <2>1, <2>3, <2>4 DEF Replayed
      <3> QED BY <1>2, <1>5, <2>2, <2>3, <3>1
    <2>5. CASE Answers(fr, g, ledger[m.client][m.seq])
      <3>1. /\ g.pc \in {"look", "mirror"} /\ Len(g.results) = Len(fr.results) + 1
            /\ ledger[m.client][m.seq] \in Statuses
        BY <1>0, <2>5 DEF Answers
      <3>2. CASE i = at
        <4>1. ledger[m.client][m.seq] # NoStatus
          BY <3>1 DEF Statuses, NoStatus
        <4> QED BY <1>11, <2>1, <3>2, <4>1 DEF Open
      <3>3. CASE i # at
        <4>1. i <= Len(fr.results)
          BY <1>0, <2>3, <3>1, <3>3 DEF Replayed
        <4>2. Replayed(w, i)
          BY <2>1, <2>3, <4>1 DEF Replayed
        <4> QED BY <1>2, <1>5, <2>2, <2>3, <4>2
      <3> QED BY <3>2, <3>3
    <2> QED BY <2>2, <2>4, <2>5
  <1>7. CASE ApplyMutation(w)
    <2>1. /\ fr.pc = "apply" /\ at \in DOMAIN fr.batch /\ m = fr.batch[at] /\ m \in Mutation
          /\ GetRow(fr, m.doc) \in Rows
      BY <1>7, ApplyIs
    <2>2. PICK g : /\ Advance(w, g) /\ Kin(fr, g)
                   /\ g.results = fr.results /\ g.staged = fr.staged /\ g.mirrored = fr.mirrored
                   /\ g.result = Execute(GetRow(fr, m.doc), m)
                   /\ g.pc = IF g.result.status = "rejected" THEN "note" ELSE "put"
      BY <1>7, ApplyIs
    <2>3. frames'[w] = g /\ g.batch = fr.batch
      BY <1>1, <2>2
    <2>4. i <= Len(fr.results)
      <3>1. CASE g.pc = "put"
        BY <2>2, <2>3, <3>1 DEF Replayed
      <3>2. CASE g.pc # "put"
        <4>1. g.result.status = "rejected"
          BY <2>2, <3>2
        <4>2. m.name # "record.create"
          BY <2>1, <2>2, <4>1, ExecuteIs
        <4>3. i # at
          BY <2>1, <2>3, <4>2
        <4> QED BY <2>2, <2>3, <4>3 DEF Replayed
      <3> QED BY <3>1, <3>2
    <2>5. Replayed(w, i)
      BY <2>1, <2>3, <2>4 DEF Replayed
    <2> QED BY <1>2, <1>5, <2>2, <2>3, <2>5
  <1>8. CASE PutRow(w)
    <2> DEFINE item == [doc |-> m.doc, row |-> fr.result.row]
    <2>1. /\ fr.pc = "put" /\ fr.mirrored = 0 /\ at \in DOMAIN fr.batch /\ m = fr.batch[at]
          /\ item \in Items
      BY <1>8, PutIs
    <2>2. PICK g : /\ Advance(w, g) /\ Kin(fr, g)
                   /\ g.results = fr.results /\ g.mirrored = fr.mirrored
                   /\ g.staged = Append(fr.staged, item)
      BY <1>8, PutIs
    <2>3. frames'[w] = g /\ g.batch = fr.batch
      BY <1>1, <2>2
    <2>4. item.doc = m.doc
      OBVIOUS
    <2> HIDE DEF item
    <2>5. CASE i = at
      <3>1. /\ Len(fr.staged) + 1 \in DOMAIN g.staged /\ g.staged[Len(fr.staged) + 1] = item
            /\ Len(fr.staged) + 1 > g.mirrored
        BY <1>0, <2>1, <2>2, AppendItem
      <3>2. m.doc = doc
        BY <2>1, <2>3, <2>5
      <3> QED BY <1>3, <2>3, <2>4, <3>1, <3>2
    <2>6. CASE i # at
      <3>1. Replayed(w, i)
        BY <1>0, <2>1, <2>2, <2>3, <2>6 DEF Replayed
      <3>2. Coming(w, doc)
        BY <1>2, <2>3, <3>1
      <3>3. CASE store[doc] # NoRow
        BY <1>4, <3>3
      <3>4. CASE store[doc] = NoRow
        <4>1. PICK j \in DOMAIN fr.staged : j > fr.mirrored /\ fr.staged[j].doc = doc
          BY <3>2, <3>4 DEF Coming
        <4>2. j \in DOMAIN g.staged /\ g.staged[j] = fr.staged[j]
          BY <1>0, <2>1, <2>2, <4>1, AppendItem
        <4> QED BY <1>3, <2>2, <2>3, <4>1, <4>2
      <3> QED BY <3>3, <3>4
    <2> QED BY <2>5, <2>6
  <1>9. CASE PutLedger(w)
    <2>1. fr.pc = "note" /\ at \in DOMAIN fr.batch
      BY <1>9, NoteIs
    <2>2. PICK g : /\ Advance(w, g) /\ Kin(fr, g) /\ Answers(fr, g, fr.result.status)
      BY <1>9, NoteIs
    <2>3. frames'[w] = g /\ g.batch = fr.batch
      BY <1>1, <2>2
    <2>4. /\ g.pc \in {"look", "mirror"} /\ Len(g.results) = Len(fr.results) + 1
          /\ g.staged = fr.staged /\ g.mirrored = fr.mirrored
      BY <1>0, <2>2 DEF Answers
    <2>5. Replayed(w, i)
      BY <1>0, <2>1, <2>3, <2>4 DEF Replayed
    <2> QED BY <1>2, <1>5, <2>3, <2>4, <2>5
  <1>10. CASE MirrorRow(w)
    <2> DEFINE item == fr.staged[fr.mirrored + 1]
    <2>1. /\ fr.pc = "mirror" /\ item.doc \in Docs /\ item.row \in Row
          /\ store' = [store EXCEPT ![item.doc] = item.row]
      BY <1>10, MirrorIs
    <2>2. PICK g : /\ Advance(w, g) /\ Kin(fr, g)
                   /\ g.results = fr.results /\ g.staged = fr.staged
                   /\ g.mirrored = fr.mirrored + 1 /\ g.pc = "mirror"
      BY <1>10, MirrorIs
    <2>3. frames'[w] = g /\ g.batch = fr.batch
      BY <1>1, <2>2
    <2>4. Replayed(w, i)
      BY <2>1, <2>2, <2>3 DEF Replayed
    <2>5. Coming(w, doc)
      BY <1>2, <2>3, <2>4
    <2>6. CASE store[doc] # NoRow
      BY <1>4, <2>6
    <2>7. CASE store[doc] = NoRow
      <3>1. PICK j \in DOMAIN fr.staged : j > fr.mirrored /\ fr.staged[j].doc = doc
        BY <2>5, <2>7 DEF Coming
      <3>2. CASE j = fr.mirrored + 1
        <4>1. item.doc = doc
          BY <3>1, <3>2
        <4> HIDE DEF item
        <4>2. store'[doc] # NoRow
          BY <2>1, <4>1, RowIs DEF TInv, Typed
        <4> QED BY <4>2 DEF Coming
      <3>3. CASE j # fr.mirrored + 1
        <4>1. j \in DOMAIN g.staged /\ j > g.mirrored /\ g.staged[j].doc = doc
          BY <1>0, <2>2, <3>1, <3>3
        <4> QED BY <1>3, <2>3, <4>1
      <3> QED BY <3>2, <3>3
    <2> QED BY <2>6, <2>7
  <1> QED BY <1>6, <1>7, <1>8, <1>9, <1>10 DEF Goes

\* The statuses a device is given are those of what it posted.
LEMMA AnswersSaved ==
    ASSUME TInv, Heard, Numbers, Saved, [Next]_vars
    PROVE  AnswerNoted'
  <1> SUFFICES ASSUME NEW d \in Devices, flush'[d].pc = "answered",
                      NEW i \in DOMAIN flush'[d].results \cap DOMAIN flush'[d].copy.pending
               PROVE  ledger'[flush'[d].copy.pending[i].client][flush'[d].copy.pending[i].seq] # NoStatus
    BY DEF AnswerNoted
  <1>1. flush'[d].copy.pending[i].client \in Clients /\ flush'[d].copy.pending[i].seq \in Seqs
    <2>1. flush'[d].copy.pending \in Seq(Mutation)
      BY NextTyped DEF TInv, Copied, Device
    <2>2. flush'[d].copy.pending[i] \in Mutation
      BY <2>1
    <2> QED BY <2>2, MutationIs
  <1>2. CASE flush'[d] = flush[d]
    <2>1. ledger[flush'[d].copy.pending[i].client][flush'[d].copy.pending[i].seq] # NoStatus
      BY <1>2 DEF Saved, AnswerNoted
    <2> QED BY <1>1, <2>1, LedgerKeeps
  <1>3. ASSUME NEW w \in Workers, Commit(w), flush'[d] # flush[d]
        PROVE  ledger'[flush'[d].copy.pending[i].client][flush'[d].copy.pending[i].seq] # NoStatus
    <2>1. /\ DOMAIN frames[w].results = DOMAIN frames[w].batch
          /\ Waited(w, d) /\ flush'[d].copy = flush[d].copy /\ flush'[d].results = frames[w].results
      BY <1>3, CommitIs
    <2>2. flush'[d].copy.pending = frames[w].batch
      BY <2>1 DEF Heard
    <2> QED BY <1>3, <2>1, <2>2, CommitNotes
  <1> QED BY <1>2, <1>3, Untouched

\* What a device takes out of its queue was answered: the ledger has it, and if it took
\* it from this device it is stored.
LEMMA PromisesSaved ==
    ASSUME TInv, Heard, Numbers, Saved, [Next]_vars
    PROVE  PromiseNoted' /\ StoredUnlessShared'
  <1> SUFFICES ASSUME NEW p \in promised'
               PROVE  /\ ledger'[ClientOf[p.device]][p.seq] # NoStatus
                      /\ store'[p.doc] # NoRow \/ <<p.device, p.seq>> \notin noted'
    BY DEF PromiseNoted, StoredUnlessShared
  <1>0. p.device \in Devices /\ p.seq \in Seqs /\ p.doc \in Docs /\ ClientOf[p.device] \in Clients
    <2>1. p \in Promises
      BY NextTyped DEF TInv, Typed
    <2> QED BY <2>1 DEF Promises, Clients
  <1>1. ASSUME ledger[ClientOf[p.device]][p.seq] # NoStatus,
               <<p.device, p.seq>> \in noted => store[p.doc] # NoRow
        PROVE  /\ ledger'[ClientOf[p.device]][p.seq] # NoStatus
               /\ store'[p.doc] # NoRow \/ <<p.device, p.seq>> \notin noted'
    <2>1. ledger'[ClientOf[p.device]][p.seq] # NoStatus
      BY <1>0, <1>1, LedgerKeeps
    <2>2. <<p.device, p.seq>> \in noted' => <<p.device, p.seq>> \in noted
      BY <1>0, <1>1, NotedIs DEF Open
    <2> QED BY <1>0, <1>1, <2>1, <2>2, StoreRises
  <1>2. CASE p \in promised
    BY <1>1, <1>2 DEF Saved, PromiseNoted, StoredUnlessShared
  <1>3. ASSUME NEW d \in Devices, FlushEnds(d), p \notin promised
        PROVE  /\ ledger[ClientOf[p.device]][p.seq] # NoStatus
               /\ <<p.device, p.seq>> \in noted => store[p.doc] # NoRow
    <2> DEFINE fl == flush[d]
               pending == fl.copy.pending
               kept == {i \in DOMAIN pending : pending[i].seq \notin ConfirmedSeqs(fl)}
    <2>1. /\ fl.pc = "answered"
          /\ \E i \in DOMAIN pending \ kept : pending[i].name = "record.create" /\ p.doc = pending[i].doc
                    /\ p.seq = pending[i].seq /\ p.device = d
      BY <1>3, FlushEndsIs
    <2>2. PICK i \in DOMAIN pending \ kept :
            /\ pending[i].name = "record.create" /\ pending[i].doc = p.doc
            /\ pending[i].seq = p.seq /\ p.device = d
      BY <2>1
    <2>3. pending[i].seq \in ConfirmedSeqs(fl)
      BY <2>2
    <2>4. PICK k \in DOMAIN fl.results \cap DOMAIN pending : pending[k].seq = pending[i].seq
      BY <2>3 DEF ConfirmedSeqs
    <2>5. k = i
      BY <2>1, <2>2, <2>4 DEF Numbers, Once, Distinct
    <2>6. pending[i] \in Mutation /\ Around(d, pending[i])
      <3>1. pending \in Seq(Mutation)
        BY <2>1, LimitIs
      <3> QED BY <2>1, <2>2, <3>1 DEF Around, Sent, Copies, In
    <2>7. pending[i].client = ClientOf[d]
      BY <2>6 DEF Numbers, InOrder
    <2>8. ledger[pending[i].client][pending[i].seq] # NoStatus
      BY <2>1, <2>4, <2>5 DEF Saved, AnswerNoted
    <2>9. <<d, pending[i].seq>> \in noted => store[pending[i].doc] # NoRow
      BY <2>2, <2>6 DEF Saved, NotedStored
    <2> HIDE DEF fl, pending, kept
    <2> QED BY <2>2, <2>7, <2>8, <2>9
  <1> QED BY <1>1, <1>2, <1>3, Untouched

\* A document whose creation a device was told is done is in the table of the server, and
\* stays there, unless the ledger has its number from another device and never had it from
\* this one: the one thing that can go wrong is that two devices share their numbers.
THEOREM SavedForGood == Spec => []StoredUnlessShared
  <1> DEFINE Inv == TInv /\ Heard /\ Numbers /\ Known /\ Saved
  <1>1. Init => Inv
    <2> SUFFICES ASSUME Init PROVE Saved
      BY InitTyped, InitNumbers
    <2>1. /\ \A d \in Devices : flush[d].pc = "idle"
          /\ \A w \in Workers : frames[w].pc = "idle"
          /\ promised = {} /\ noted = {}
      BY NoneIs DEF Init
    <2> QED BY <2>1 DEF Saved, NotedBelow, NotedStored, ReplayStored, Replayed, AnswerNoted,
                        PromiseNoted, StoredUnlessShared
  <1>2. Inv /\ [Next]_vars => Inv'
    <2> SUFFICES ASSUME Inv, [Next]_vars PROVE Inv'
      OBVIOUS
    <2>1. ReplayStored'
      BY ReplaysSaved, ReplayGoes DEF ReplayStored
    <2>2. Saved'
      BY <2>1, NotedSaved, AnswersSaved, PromisesSaved DEF Saved
    <2> QED BY <2>2, NextTyped, NumbersNext, KnownNext
  <1>3. Inv => StoredUnlessShared
    BY DEF Saved
  <1> HIDE DEF Inv
  <1> QED BY <1>1, <1>2, <1>3, PTL DEF Spec

-----------------------------------------------------------------------------
(* One answer for each mutation *)

OneLive == \A v, w \in Workers : frames[v].pc # "idle" /\ frames[w].pc # "idle" => v = w
ToldOne == \A n \in 1..MaxChanges : \A a, b \in told[n] : a = b
Untold == \A n \in 1..MaxChanges : n > changes => told[n] = {}

\* What was told of a mutation is what the ledger has of it.
ToldNoted == \A d \in Devices : \A m \in Mutation :
    Around(d, m) => \A a \in told[m.change] : ledger[m.client][m.seq] = a

\* A replay's results are those of the ledger, where it has one.
Agrees == \A w \in Workers : \A i \in DOMAIN frames[w].results :
    LET m == frames[w].batch[i] IN
        frames[w].pc # "idle" => ledger[m.client][m.seq] \in {NoStatus, frames[w].results[i]}
Unnoted == \A w \in Workers : frames[w].pc \in {"apply", "put", "note"} =>
    LET m == frames[w].batch[Len(frames[w].results) + 1] IN ledger[m.client][m.seq] = NoStatus

Consistent == OneLive /\ ToldOne /\ Untold /\ ToldNoted /\ Agrees /\ Unnoted

\* Nothing begins, and nobody edits, while a lone replay is under way.
LEMMA LoneLive ==
    ASSUME TInv, Heard, [Next]_vars, ~overlapped, OneLive, ~overlapped'
    PROVE  /\ OneLive'
           /\ \/ \A w \in Workers : frames'[w].pc # "idle" => frames[w].pc # "idle"
              \/ \A w \in Workers : frames[w].pc = "idle"
  <1>0. frames \in [Workers -> Replays]
    BY DEF TInv, Typed
  <1>1. CASE Quiet
    BY <1>1 DEF Quiet, OneLive
  <1>2. ASSUME NEW d \in Devices, NEW doc \in Docs, Queues(d, doc)
        PROVE  frames' = frames
    <2>1. PICK m : \E migrated \in SUBSET Docs :
                Fresh(d, m) /\ EnqueueMutation(d, m, migrated)
      BY <1>2, QueueIs DEF Queues
    <2> QED BY <2>1, EnqueueIs DEF serverVars
  <1>3. ASSUME NEW d \in Devices, NEW doc \in Docs, ForgetDoc(d, doc)
        PROVE  frames' = frames
    BY <1>3, ForgetIs DEF serverVars
  <1>4. ASSUME NEW d \in Devices, NEW w \in Workers, FlushBegins(d, w)
        PROVE  OneLive' /\ \A v \in Workers : frames[v].pc = "idle"
    <2>1. PICK fr \in Replays :
            frames' = [frames EXCEPT ![w] = fr] /\ overlapped' = (overlapped \/ Replaying)
      BY <1>4, FlushBeginsIs
    <2>2. ~Replaying
      BY <2>1
    <2>3. \A v \in Workers : frames[v].pc = "idle"
      BY <2>2 DEF Replaying
    <2>4. \A v \in Workers : v # w => frames'[v].pc = "idle"
      BY <1>0, <2>1, <2>3
    <2> QED BY <2>3, <2>4 DEF OneLive
  <1>5. ASSUME NEW d \in Devices, FlushEnds(d)
        PROVE  frames' = frames
    BY <1>5, FlushEndsIs DEF serverVars
  <1> QED BY <1>1, <1>2, <1>3, <1>4, <1>5, QuietCases DEF OneLive

\* What the last Result of g is, and the ones before.
LEMMA AppendStatus ==
    ASSUME NEW s \in Seq(Statuses), NEW a \in Statuses
    PROVE  /\ DOMAIN Append(s, a) = 1..(Len(s) + 1) /\ Len(s) \in Nat /\ DOMAIN s = 1..Len(s)
           /\ Len(Append(s, a)) = Len(s) + 1
           /\ \A i \in DOMAIN s : Append(s, a)[i] = s[i]
           /\ Append(s, a)[Len(s) + 1] = a
  OBVIOUS

\* A replay that goes on takes the status of the ledger, or gives one where it has none.
LEMMA GoesAgrees ==
    ASSUME TInv, Agrees, Unnoted, NEW w \in Workers, Goes(w)
    PROVE  Agrees' /\ Unnoted'
  <1> DEFINE fr == frames[w]
             at == Len(fr.results) + 1
             m == fr.batch[at]
             entry(k) == ledger[fr.batch[k].client][fr.batch[k].seq]
  <1>0. /\ frames \in [Workers -> Replays] /\ fr \in Replays /\ fr.results \in Seq(Statuses)
        /\ Len(fr.results) \in Nat /\ fr.result.status \in Statuses \cup {NoStatus}
    BY DEF TInv, Typed, Replays, Results
  <1>7. fr.pc # "idle"
    BY GoesIs
  <1>1. ASSUME NEW g, Advance(w, g), Kin(fr, g),
               \/ /\ g.results = fr.results
                  /\ g.pc \in {"apply", "put", "note"} => entry(at) = NoStatus
               \/ \E status \in Statuses : Answers(fr, g, status) /\ entry(at) \in {NoStatus, status}
        PROVE  Agrees' /\ Unnoted'
    <2>1. /\ frames'[w] = g /\ (\A v \in Workers : v # w => frames'[v] = frames[v])
          /\ ledger' = ledger /\ g.batch = fr.batch
      BY <1>0, <1>1 DEF Advance, Kin
    <2>2. CASE /\ g.results = fr.results
               /\ g.pc \in {"apply", "put", "note"} => entry(at) = NoStatus
      <3>1. Agrees'
        BY <1>7, <2>1, <2>2 DEF Agrees
      <3>2. Unnoted'
        BY <2>1, <2>2 DEF Unnoted
      <3> QED BY <3>1, <3>2
    <2>3. ASSUME NEW status \in Statuses, Answers(fr, g, status), entry(at) \in {NoStatus, status}
          PROVE  Agrees' /\ Unnoted'
      <3>1. g.results = Append(fr.results, status) /\ g.pc \in {"look", "mirror"}
        BY <2>3 DEF Answers
      <3>2. \A i \in DOMAIN g.results : entry(i) \in {NoStatus, g.results[i]}
        <4> SUFFICES ASSUME NEW i \in DOMAIN g.results PROVE entry(i) \in {NoStatus, g.results[i]}
          OBVIOUS
        <4>1. i \in DOMAIN fr.results \/ i = at
          BY <1>0, <3>1, AppendStatus
        <4>2. CASE i = at
          <5>1. g.results[i] = status
            BY <1>0, <3>1, <4>2, AppendStatus
          <5> QED BY <2>3, <4>2, <5>1
        <4>3. CASE i \in DOMAIN fr.results
          <5>1. g.results[i] = fr.results[i]
            BY <1>0, <3>1, <4>3, AppendStatus
          <5>2. entry(i) \in {NoStatus, fr.results[i]}
            BY <1>7, <4>3 DEF Agrees
          <5> QED BY <5>1, <5>2
        <4> QED BY <4>1, <4>2, <4>3
      <3>3. Agrees'
        BY <2>1, <3>2 DEF Agrees
      <3>4. Unnoted'
        BY <2>1, <3>1 DEF Unnoted
      <3> QED BY <3>3, <3>4
    <2> QED BY <1>1, <2>2, <2>3
  <1>2. CASE LookInLedger(w)
    <2>1. PICK g : /\ Advance(w, g) /\ Kin(fr, g)
                   /\ \/ /\ ledger[Current(fr).client][Current(fr).seq] = NoStatus /\ g.pc = "apply"
                         /\ g.results = fr.results
                      \/ Answers(fr, g, ledger[Current(fr).client][Current(fr).seq])
      BY <1>2, LookIs
    <2>2. Current(fr) = m
      BY DEF Current
    <2>3. CASE Answers(fr, g, ledger[Current(fr).client][Current(fr).seq])
      <3>1. entry(at) \in Statuses
        BY <2>2, <2>3 DEF Answers
      <3> QED BY <1>1, <2>1, <2>2, <2>3, <3>1
    <2>4. CASE ~Answers(fr, g, ledger[Current(fr).client][Current(fr).seq])
      BY <1>1, <2>1, <2>2, <2>4
    <2> QED BY <2>3, <2>4
  <1>3. CASE ApplyMutation(w)
    <2>1. PICK g : Advance(w, g) /\ Kin(fr, g) /\ g.results = fr.results
      BY <1>3, ApplyIs
    <2>2. fr.pc = "apply"
      BY <1>3, ApplyIs
    <2>3. entry(at) = NoStatus
      BY <2>2 DEF Unnoted
    <2> QED BY <1>1, <2>1, <2>3
  <1>4. CASE PutRow(w)
    <2>1. PICK g : Advance(w, g) /\ Kin(fr, g) /\ g.results = fr.results
      BY <1>4, PutIs
    <2>2. fr.pc = "put"
      BY <1>4, PutIs
    <2>3. entry(at) = NoStatus
      BY <2>2 DEF Unnoted
    <2> QED BY <1>1, <2>1, <2>3
  <1>5. CASE PutLedger(w)
    <2>1. PICK g : Advance(w, g) /\ Kin(fr, g) /\ Answers(fr, g, fr.result.status)
      BY <1>5, NoteIs
    <2>2. fr.pc = "note"
      BY <1>5, NoteIs
    <2>3. entry(at) = NoStatus /\ fr.result.status \in Statuses
      BY <2>1, <2>2 DEF Unnoted, Answers
    <2> QED BY <1>1, <2>1, <2>3
  <1>6. CASE MirrorRow(w)
    <2>1. PICK g : Advance(w, g) /\ Kin(fr, g) /\ g.results = fr.results /\ g.pc = "mirror"
      BY <1>6, MirrorIs
    <2> QED BY <1>1, <2>1
  <1> QED BY <1>2, <1>3, <1>4, <1>5, <1>6 DEF Goes

LEMMA AgreesNext ==
    ASSUME TInv, Heard, [Next]_vars, OneLive, Agrees, Unnoted
    PROVE  Agrees' /\ Unnoted'
  <1>1. CASE \E w \in Workers : Goes(w)
    BY <1>1, GoesAgrees
  <1>2. ASSUME NEW w \in Workers, Commit(w)
        PROVE  Agrees' /\ Unnoted'
    <2>1. frames' = [frames EXCEPT ![w] = NoFrame] /\ frames[w].pc = "mirror"
      BY <1>2, CommitIs
    <2>2. \A v \in Workers : frames'[v].pc = "idle"
      BY <2>1, NoneIs DEF TInv, Typed, OneLive
    <2> QED BY <2>2 DEF Agrees, Unnoted
  <1>3. CASE (~ \E w \in Workers : Goes(w)) /\ ledger' = ledger
    <2>1. \A w \in Workers :
            \/ Same(frames[w], frames'[w])
            \/ frames'[w].pc = "idle"
            \/ frames'[w].pc = "look" /\ frames'[w].results = <<>> /\ frames'[w].staged = <<>>
      BY <1>3, FrameStays
    <2>2. Agrees'
      <3> SUFFICES ASSUME NEW w \in Workers, NEW i \in DOMAIN frames'[w].results,
                          frames'[w].pc # "idle"
                   PROVE  ledger'[frames'[w].batch[i].client][frames'[w].batch[i].seq]
                                \in {NoStatus, frames'[w].results[i]}
        BY DEF Agrees
      <3>1. Same(frames[w], frames'[w])
        BY <2>1
      <3> QED BY <1>3, <3>1 DEF Agrees, Same
    <2>3. Unnoted'
      <3> SUFFICES ASSUME NEW w \in Workers, frames'[w].pc \in {"apply", "put", "note"}
                   PROVE  LET m == frames'[w].batch[Len(frames'[w].results) + 1] IN
                          ledger'[m.client][m.seq] = NoStatus
        BY DEF Unnoted
      <3>1. Same(frames[w], frames'[w])
        BY <2>1
      <3> QED BY <1>3, <3>1 DEF Unnoted, Same
    <2> QED BY <2>2, <2>3
  <1> QED BY <1>1, <1>2, <1>3, Untouched

\* What is committed is what was answered.
LEMMA CommitAgrees ==
    ASSUME TInv, Heard, Numbers, Agrees, NEW w \in Workers, Commit(w),
           NEW i \in DOMAIN frames[w].batch
    PROVE  ledger'[frames[w].batch[i].client][frames[w].batch[i].seq] = frames[w].results[i]
  <1> DEFINE fr == frames[w]
             m == fr.batch[i]
             old == ledger[m.client][m.seq]
             new == ledger'[m.client][m.seq]
  <1>1. fr \in Replays /\ fr.pc = "mirror" /\ DOMAIN fr.results = DOMAIN fr.batch
    BY CommitIs
  <1>2. m \in Mutation /\ m.client \in Clients /\ m.seq \in Seqs
    BY <1>1, CarriedIs, MutationIs
  <1>3. old \in {NoStatus, fr.results[i]}
    BY <1>1 DEF Agrees
  <1>4. \/ new = old /\ old # NoStatus
        \/ \E k \in DOMAIN fr.batch : fr.batch[k].seq = m.seq /\ new = fr.results[k]
    BY <1>2, CommitIs
  <1>5. \A k \in DOMAIN fr.batch : fr.batch[k].seq = m.seq => k = i
    BY <1>1 DEF Numbers, Once, Distinct
  <1> QED BY <1>3, <1>4, <1>5

LEMMA ToldNext ==
    ASSUME TInv, Heard, Numbers, [Next]_vars, Consistent
    PROVE  ToldOne' /\ Untold' /\ ToldNoted'
  <1>0. changes \in Nat /\ TInv' /\ changes' \in Nat /\ changes <= changes'
    BY NextTyped, Untouched, SyncAssumption DEF TInv, Typed
  <1>1. CASE UNCHANGED <<ledger, told>>
    <2>1. ToldOne'
      BY <1>1 DEF Consistent, ToldOne
    <2>2. Untold'
      BY <1>0, <1>1 DEF Consistent, Untold
    <2>3. ToldNoted'
      <3> SUFFICES ASSUME NEW d \in Devices, NEW m \in Mutation, Around(d, m)', NEW a \in told[m.change]
                   PROVE  ledger[m.client][m.seq] = a
        BY <1>1 DEF ToldNoted
      <3>1. CASE Around(d, m)
        BY <3>1 DEF Consistent, ToldNoted
      <3>2. CASE Fresh(d, m)
        <4>1. m.change \in 1..MaxChanges /\ m.change > changes
          BY <1>0, <3>2, MutationIs DEF Fresh
        <4> QED BY <4>1 DEF Consistent, Untold
      <3> QED BY <3>1, <3>2, AroundNext
    <2> QED BY <2>1, <2>2, <2>3
  <1>2. ASSUME NEW w \in Workers, Commit(w)
        PROVE  ToldOne' /\ Untold' /\ ToldNoted'
    <2> DEFINE fr == frames[w]
    <2>1. /\ fr.pc = "mirror" /\ fr \in Replays /\ frames' = [frames EXCEPT ![w] = NoFrame]
          /\ changes' = changes
          /\ \A n \in 1..MaxChanges : told'[n] =
                told[n] \cup {fr.results[i] : i \in {j \in DOMAIN fr.batch : fr.batch[j].change = n}}
      BY <1>2, CommitIs
    <2>2. \A i \in DOMAIN fr.batch :
            /\ fr.batch[i] \in Mutation /\ fr.device \in Devices /\ Around(fr.device, fr.batch[i])
            /\ fr.batch[i].change \in Nat /\ fr.batch[i].change <= changes
            /\ ledger'[fr.batch[i].client][fr.batch[i].seq] = fr.results[i]
      BY <1>2, <2>1, CarriedIs, CommitAgrees DEF Consistent
    <2>3. \A d \in Devices : \A m \in Mutation : Around(d, m)' => Around(d, m)
      <3>1. frames' # frames
        BY <2>1, NoneIs DEF TInv, Typed
      <3> QED BY <3>1, AroundNext DEF serverVars
    <2>4. ASSUME NEW d \in Devices, NEW m \in Mutation, Around(d, m), NEW a \in told'[m.change]
          PROVE  ledger'[m.client][m.seq] = a
      <3>1. m.change \in 1..MaxChanges /\ m.client \in Clients /\ m.seq \in Seqs
        BY MutationIs
      <3>2. CASE a \in told[m.change]
        <4>1. ledger[m.client][m.seq] = a
          BY <2>4, <3>2 DEF Consistent, ToldNoted
        <4>2. a \in Statuses
          BY <3>1, <3>2 DEF TInv, Typed
        <4>3. a # NoStatus
          BY <4>2 DEF Statuses, NoStatus
        <4> QED BY <1>2, <3>1, <4>1, <4>3, CommitIs
      <3>3. CASE a \notin told[m.change]
        <4>1. PICK i \in DOMAIN fr.batch : fr.batch[i].change = m.change /\ a = fr.results[i]
          BY <2>1, <2>4, <3>1, <3>3
        <4>2. fr.batch[i] = m
          BY <2>2, <2>4, <4>1 DEF Numbers, OneChange
        <4> QED BY <2>2, <4>1, <4>2
      <3> QED BY <3>2, <3>3
    <2>5. ToldNoted'
      BY <2>3, <2>4 DEF ToldNoted
    <2>6. ToldOne'
      <3> SUFFICES ASSUME NEW n \in 1..MaxChanges, NEW a \in told'[n], NEW b \in told'[n]
                   PROVE  a = b
        BY DEF ToldOne
      <3>1. CASE \E k \in DOMAIN fr.batch : fr.batch[k].change = n
        <4>1. PICK k \in DOMAIN fr.batch : fr.batch[k].change = n
          BY <3>1
        <4>2. fr.batch[k] \in Mutation /\ Around(fr.device, fr.batch[k]) /\ fr.device \in Devices
          BY <2>2, <4>1
        <4> QED BY <2>4, <4>1, <4>2
      <3>2. CASE ~ \E k \in DOMAIN fr.batch : fr.batch[k].change = n
        <4>1. {j \in DOMAIN fr.batch : fr.batch[j].change = n} = {}
          BY <3>2
        <4>2. told'[n] = told[n] \cup {fr.results[i] : i \in {j \in DOMAIN fr.batch : fr.batch[j].change = n}}
          BY <2>1
        <4>3. told'[n] = told[n]
          <5>1. ASSUME NEW x \in told'[n] PROVE x \in told[n]
            BY <5>1, <4>1, <4>2
          <5> QED BY <5>1, <4>2
        <4> QED BY <4>3 DEF Consistent, ToldOne
      <3> QED BY <3>1, <3>2
    <2>7. Untold'
      <3> SUFFICES ASSUME NEW n \in 1..MaxChanges, n > changes PROVE told'[n] = {}
        BY <2>1 DEF Untold
      <3>1. ~ \E k \in DOMAIN fr.batch : fr.batch[k].change = n
        BY <1>0, <2>2
      <3> QED BY <2>1, <3>1 DEF Consistent, Untold
    <2> QED BY <2>5, <2>6, <2>7
  <1> QED BY <1>1, <1>2, Untouched

LEMMA ConsistentNext ==
    ASSUME TInv, Heard, Numbers, [Next]_vars, ~overlapped => Consistent
    PROVE  ~overlapped' => Consistent'
  <1> SUFFICES ASSUME ~overlapped' PROVE Consistent'
    OBVIOUS
  <1>1. ~overlapped
    BY Untouched
  <1>2. Consistent
    BY <1>1
  <1>3. OneLive'
    BY <1>1, <1>2, LoneLive DEF Consistent
  <1>4. Agrees' /\ Unnoted'
    BY <1>2, AgreesNext DEF Consistent
  <1>5. ToldOne' /\ Untold' /\ ToldNoted'
    BY <1>2, ToldNext
  <1> QED BY <1>3, <1>4, <1>5 DEF Consistent

\* Unless two attempts are replayed at once, a mutation is answered in one way.
THEOREM AnsweredOnce == Spec => []OneAnswer
  <1> DEFINE Inv == TInv /\ Heard /\ Numbers /\ Known /\ (~overlapped => Consistent)
  <1>1. Init => Inv
    <2> SUFFICES ASSUME Init PROVE Consistent
      BY InitTyped, InitNumbers
    <2>1. /\ \A w \in Workers : frames[w].pc = "idle"
          /\ \A n \in 1..MaxChanges : told[n] = {}
      BY NoneIs DEF Init
    <2>2. ToldNoted
      BY <2>1, MutationIs DEF ToldNoted
    <2> QED BY <2>1, <2>2 DEF Consistent, OneLive, ToldOne, Untold, Agrees, Unnoted
  <1>2. Inv /\ [Next]_vars => Inv'
    <2> SUFFICES ASSUME Inv, [Next]_vars PROVE Inv'
      OBVIOUS
    <2>1. ~overlapped' => Consistent'
      BY ConsistentNext
    <2> QED BY <2>1, NextTyped, NumbersNext, KnownNext
  <1>3. Inv => OneAnswer
    <2> SUFFICES ASSUME Inv, ~overlapped, NEW n \in 1..MaxChanges
                 PROVE  Cardinality(told[n]) <= 1
      BY DEF OneAnswer
    <2>1. \A a, b \in told[n] : a = b
      BY DEF Consistent, ToldOne
    <2>2. CASE told[n] = {}
      BY <2>2, FS_EmptySet
    <2>3. CASE told[n] # {}
      <3>1. PICK a \in told[n] : told[n] = {a}
        BY <2>1, <2>3
      <3>2. Cardinality({a}) = 1
        BY FS_Singleton
      <3> QED BY <3>1, <3>2
    <2> QED BY <2>2, <2>3
  <1> HIDE DEF Inv
  <1> QED BY <1>1, <1>2, <1>3, PTL DEF Spec

-----------------------------------------------------------------------------
(* No value comes back *)

\* The fields a batch does not write over a blank.
Sighted(batch, doc) == {f \in Fields : ~ \E m \in Range(batch) :
    m.name = "edit" /\ m.doc = doc /\ m.field = f /\ m.base = Blank}

\* No such field of new shows an earlier change than it did in old.
AtLeast(new, old, seen) == old # NoRow => \A f \in seen : new[f] >= old[f]

\* What a replay has still to mirror is not behind the table, nor behind what the same
\* replay put before it; the row it is about to put is not behind the one it read.
OverStore(fr) == \A j \in DOMAIN fr.staged :
    LET doc == fr.staged[j].doc IN
    fr.mirrored < j => AtLeast(fr.staged[j].row, store[doc], Sighted(fr.batch, doc))
OverBefore(fr) == \A j, k \in DOMAIN fr.staged :
    LET doc == fr.staged[j].doc IN
    fr.mirrored < j /\ j < k /\ doc = fr.staged[k].doc =>
        AtLeast(fr.staged[k].row, fr.staged[j].row, Sighted(fr.batch, doc))
OverSeen(fr) == fr.pc = "put" =>
    LET doc == fr.batch[Len(fr.results) + 1].doc
    IN AtLeast(fr.result.row, GetRow(fr, doc), Sighted(fr.batch, doc))
Onward == \A w \in Workers : frames[w].pc # "idle" =>
    OverStore(frames[w]) /\ OverBefore(frames[w]) /\ OverSeen(frames[w])

LEMMA AtLeastIs ==
    ASSUME NEW seen \in SUBSET Fields
    PROVE  /\ \A a \in Rows : AtLeast(a, a, seen)
           /\ \A a \in Rows, b \in Row, c \in Row :
                AtLeast(b, a, seen) /\ AtLeast(c, b, seen) => AtLeast(c, a, seen)
  <1>0. MaxChanges \in Nat
    BY SyncAssumption
  <1>1. ASSUME NEW a \in Rows
        PROVE  AtLeast(a, a, seen)
    <2> SUFFICES ASSUME a # NoRow, NEW f \in seen PROVE a[f] >= a[f]
      BY DEF AtLeast
    <2>1. a[f] \in 0..MaxChanges
      BY RowIs
    <2> QED BY <1>0, <2>1
  <1>2. ASSUME NEW a \in Rows, NEW b \in Row, NEW c \in Row, AtLeast(b, a, seen), AtLeast(c, b, seen)
        PROVE  AtLeast(c, a, seen)
    <2> SUFFICES ASSUME a # NoRow, NEW f \in seen PROVE c[f] >= a[f]
      BY DEF AtLeast
    <2>1. a[f] \in 0..MaxChanges /\ b[f] \in 0..MaxChanges /\ c[f] \in 0..MaxChanges /\ b # NoRow
      BY RowIs
    <2>2. c[f] >= b[f] /\ b[f] >= a[f]
      BY <1>2, <2>1 DEF AtLeast
    <2> QED BY <1>0, <2>1, <2>2
  <1> QED BY <1>1, <1>2

\* A mutation that is applied takes no value back, but where it was made over a blank.
LEMMA ExecuteAtLeast ==
    ASSUME NEW row \in Rows, NEW m \in Mutation, m.name = "edit" => m.base < m.change,
           NEW seen \in SUBSET Fields, m.name = "edit" /\ m.base = Blank => m.field \notin seen
    PROVE  AtLeast(Execute(row, m).row, row, seen)
  <1>1. CASE m.name = "record.create"
    <2>1. row # NoRow => Execute(row, m).row = row
      BY <1>1 DEF Execute, CreateRecord
    <2>2. AtLeast(row, row, seen)
      BY AtLeastIs
    <2> QED BY <2>1, <2>2 DEF AtLeast
  <1>2. CASE m.name # "record.create"
    <2>0. /\ MaxChanges \in Nat /\ m.field \in Fields /\ m.base \in 0..MaxChanges
          /\ m.change \in 1..MaxChanges /\ m.base < m.change /\ m.name = "edit"
      BY <1>2, MutationIs, SyncAssumption
    <2> SUFFICES ASSUME row # NoRow, NEW f \in seen PROVE Execute(row, m).row[f] >= row[f]
      BY DEF AtLeast
    <2> DEFINE new == [row EXCEPT ![m.field] = m.change]
    <2>1. row \in [Fields -> 0..MaxChanges] /\ row[f] \in 0..MaxChanges
      BY RowIs
    <2>2. \/ Execute(row, m).row = row
          \/ Execute(row, m).row = new /\ (m.base = Blank \/ row[m.field] \in {m.base, m.change})
      BY <1>2 DEF Execute, EditRecord, OthersTouched
    <2>3. new[f] = IF f = m.field THEN m.change ELSE row[f]
      BY <2>1
    <2>4. f = m.field => m.base # Blank
      BY <2>0
    <2> HIDE DEF new
    <2> QED BY <2>0, <2>1, <2>2, <2>3, <2>4
  <1> QED BY <1>1, <1>2

\* What one replay puts is ahead of everything it has put or read.
LEMMA PutOnward ==
    ASSUME TInv, NEW w \in Workers, PutRow(w), OverStore(frames[w]), OverBefore(frames[w]),
           OverSeen(frames[w])
    PROVE  OverStore(frames[w])' /\ OverBefore(frames[w])'
  <1> DEFINE fr == frames[w]
             m == Current(fr)
             item == [doc |-> m.doc, row |-> fr.result.row]
             last == Len(fr.staged) + 1
             seen(doc) == Sighted(fr.batch, doc)
  <1>0. /\ frames \in [Workers -> Replays] /\ fr \in Replays /\ fr.staged \in Seq(Items)
        /\ store \in [Docs -> Rows]
    BY DEF TInv, Typed, Replays
  <1>1. /\ fr.pc = "put" /\ fr.mirrored = 0
        /\ m = fr.batch[Len(fr.results) + 1] /\ m \in Mutation
        /\ item \in Items /\ store' = store
    BY PutIs
  <1>2. PICK g : /\ Advance(w, g) /\ g.mirrored = fr.mirrored /\ g.staged = Append(fr.staged, item)
                 /\ g.batch = fr.batch
    BY PutIs DEF Kin
  <1>3. item.doc = m.doc /\ item.row = fr.result.row /\ item.row \in Row /\ m.doc \in Docs
    BY <1>1, MutationIs DEF Items
  <1>4. AtLeast(item.row, GetRow(fr, m.doc), seen(m.doc))
    BY <1>1, <1>3 DEF OverSeen
  <1>12. \A doc : seen(doc) \in SUBSET Fields /\ Sighted(fr.batch, doc) = seen(doc)
    BY DEF Sighted
  <1> HIDE DEF item, m, seen
  <1>5. frames'[w] = g /\ g.mirrored = 0 /\ \A doc : Sighted(g.batch, doc) = seen(doc)
    BY <1>0, <1>1, <1>2, <1>12 DEF Advance
  <1>6. /\ DOMAIN g.staged = 1..last /\ Len(fr.staged) \in Nat /\ DOMAIN fr.staged = 1..Len(fr.staged)
        /\ \A i \in DOMAIN fr.staged : g.staged[i] = fr.staged[i] /\ fr.staged[i] \in Items
        /\ g.staged[last] = item
    BY <1>0, <1>1, <1>2, AppendItem
  <1>7. /\ AtLeast(item.row, store[m.doc], seen(m.doc))
        /\ \A j \in Puts(fr, m.doc) : AtLeast(item.row, fr.staged[j].row, seen(m.doc))
    <2>1. CASE Puts(fr, m.doc) = {}
      BY <1>0, <1>3, <1>4, <2>1, GetRowIs
    <2>2. CASE Puts(fr, m.doc) # {}
      <3>1. PICK i \in Puts(fr, m.doc) :
                /\ GetRow(fr, m.doc) = fr.staged[i].row
                /\ \A j \in Puts(fr, m.doc) : j <= i
        BY <1>0, <1>3, <2>2, GetRowIs
      <3>2. /\ i \in DOMAIN fr.staged /\ i \in Nat /\ i > 0 /\ fr.staged[i].doc = m.doc
            /\ fr.staged[i].row \in Row
        BY <1>6, <3>1 DEF Puts, Items
      <3>3. AtLeast(item.row, fr.staged[i].row, seen(m.doc)) /\ store[m.doc] \in Rows
        BY <1>0, <1>3, <1>4, <3>1
      <3>4. AtLeast(fr.staged[i].row, store[m.doc], seen(m.doc))
        BY <1>1, <1>12, <3>2 DEF OverStore
      <3>5. ASSUME NEW j \in Puts(fr, m.doc)
            PROVE  AtLeast(item.row, fr.staged[j].row, seen(m.doc))
        <4>1. /\ j \in DOMAIN fr.staged /\ j \in Nat /\ j > 0 /\ fr.staged[j].doc = m.doc
              /\ fr.staged[j].row \in Row /\ j <= i
          BY <1>6, <3>1 DEF Puts, Items
        <4>2. CASE j = i
          BY <3>3, <4>2
        <4>3. CASE j # i
          <5>1. AtLeast(fr.staged[i].row, fr.staged[j].row, seen(m.doc))
            BY <1>1, <1>12, <3>2, <4>1, <4>3 DEF OverBefore
          <5> QED BY <1>3, <1>12, <3>2, <3>3, <4>1, <5>1, AtLeastIs, RowIs DEF Rows
        <4> QED BY <4>2, <4>3
      <3>6. AtLeast(item.row, store[m.doc], seen(m.doc))
        BY <1>3, <1>12, <3>2, <3>3, <3>4, AtLeastIs
      <3> QED BY <3>5, <3>6
    <2> QED BY <2>1, <2>2
  <1>8. ASSUME NEW j \in DOMAIN g.staged, 0 < j
        PROVE  AtLeast(g.staged[j].row, store[g.staged[j].doc], seen(g.staged[j].doc))
    <2>1. CASE j = last
      BY <1>3, <1>6, <1>7, <2>1
    <2>2. CASE j # last
      <3>1. j \in DOMAIN fr.staged
        BY <1>6, <2>2
      <3>2. AtLeast(fr.staged[j].row, store[fr.staged[j].doc], seen(fr.staged[j].doc))
        BY <1>1, <1>8, <1>12, <3>1 DEF OverStore
      <3> QED BY <1>6, <3>1, <3>2
    <2> QED BY <2>1, <2>2
  <1>9. ASSUME NEW j \in DOMAIN g.staged, NEW k \in DOMAIN g.staged, 0 < j, j < k,
               g.staged[j].doc = g.staged[k].doc
        PROVE  AtLeast(g.staged[k].row, g.staged[j].row, seen(g.staged[j].doc))
    <2>1. j \in DOMAIN fr.staged /\ g.staged[j] = fr.staged[j]
      BY <1>6, <1>9
    <2>2. CASE k = last
      <3>1. j \in Puts(fr, m.doc) /\ g.staged[j].doc = m.doc
        BY <1>3, <1>6, <1>9, <2>1, <2>2 DEF Puts
      <3>2. AtLeast(item.row, g.staged[j].row, seen(g.staged[j].doc))
        BY <1>7, <2>1, <3>1
      <3> QED BY <1>6, <2>2, <3>2
    <2>3. CASE k # last
      <3>1. k \in DOMAIN fr.staged
        BY <1>6, <2>3
      <3>2. AtLeast(fr.staged[k].row, fr.staged[j].row, seen(fr.staged[j].doc))
        BY <1>1, <1>6, <1>9, <1>12, <2>1, <3>1 DEF OverBefore
      <3> QED BY <1>6, <2>1, <3>1, <3>2
    <2> QED BY <2>2, <2>3
  <1>10. OverStore(frames[w])'
    BY <1>1, <1>5, <1>8 DEF OverStore
  <1>11. OverBefore(frames[w])'
    BY <1>5, <1>9 DEF OverBefore
  <1> QED BY <1>10, <1>11

\* A replay that goes on keeps ahead of the table.
LEMMA GoesOnward ==
    ASSUME TInv, Numbers, NEW w \in Workers, Goes(w), OverStore(frames[w]), OverBefore(frames[w]),
           OverSeen(frames[w])
    PROVE  OverStore(frames[w])' /\ OverBefore(frames[w])' /\ OverSeen(frames[w])'
  <1> DEFINE fr == frames[w]
  <1>0. /\ frames \in [Workers -> Replays] /\ fr \in Replays /\ fr.staged \in Seq(Items)
        /\ store \in [Docs -> Rows]
    BY DEF TInv, Typed, Replays
  <1>1. ASSUME NEW g, Advance(w, g), Kin(fr, g), g.staged = fr.staged,
               g.mirrored = fr.mirrored, g.pc # "put",
               store' = store
        PROVE  OverStore(frames[w])' /\ OverBefore(frames[w])' /\ OverSeen(frames[w])'
    <2>1. frames'[w] = g /\ g.batch = fr.batch
      BY <1>0, <1>1 DEF Advance, Kin
    <2>2. OverStore(frames[w])'
      BY <1>1, <2>1 DEF OverStore
    <2>3. OverBefore(frames[w])'
      BY <1>1, <2>1 DEF OverBefore
    <2>4. OverSeen(frames[w])'
      BY <1>1, <2>1 DEF OverSeen
    <2> QED BY <2>2, <2>3, <2>4
  <1>2. CASE LookInLedger(w)
    <2>1. PICK g : /\ Advance(w, g) /\ Kin(fr, g) /\ g.staged = fr.staged /\ g.mirrored = fr.mirrored
                   /\ g.pc # "put" /\ store' = store
      BY <1>2, LookIs DEF Answers
    <2> QED BY <1>1, <2>1
  <1>3. CASE ApplyMutation(w)
    <2> DEFINE m == Current(fr)
    <2>1. PICK g : /\ Advance(w, g) /\ Kin(fr, g) /\ g.results = fr.results
                   /\ g.staged = fr.staged /\ g.mirrored = fr.mirrored
                   /\ g.result = Execute(GetRow(fr, m.doc), m)
      BY <1>3, ApplyIs
    <2>2. /\ fr.pc = "apply" /\ store' = store /\ Len(fr.results) + 1 \in DOMAIN fr.batch
          /\ m = fr.batch[Len(fr.results) + 1] /\ m \in Mutation /\ GetRow(fr, m.doc) \in Rows
      BY <1>3, ApplyIs
    <2>3. m.name = "edit" => m.base < m.change
      BY <2>2, CarriedIs
    <2> HIDE DEF m
    <2>10. /\ Sighted(fr.batch, m.doc) \in SUBSET Fields
           /\ m.name = "edit" /\ m.base = Blank => m.field \notin Sighted(fr.batch, m.doc)
      <3>1. m \in Range(fr.batch)
        BY <2>2 DEF Range
      <3> QED BY <3>1 DEF Sighted
    <2>4. AtLeast(g.result.row, GetRow(fr, m.doc), Sighted(fr.batch, m.doc))
      BY <2>1, <2>2, <2>3, <2>10, ExecuteAtLeast
    <2>5. frames'[w] = g /\ g.batch = fr.batch
      BY <1>0, <2>1 DEF Advance, Kin
    <2>6. OverStore(frames[w])'
      BY <2>1, <2>2, <2>5 DEF OverStore
    <2>7. OverBefore(frames[w])'
      BY <2>1, <2>5 DEF OverBefore
    <2>8. \A doc : GetRow(frames[w], doc)' = GetRow(fr, doc)
      BY <2>1, <2>2, <2>5 DEF GetRow, Puts
    <2>9. OverSeen(frames[w])'
      BY <2>1, <2>2, <2>4, <2>5, <2>8 DEF OverSeen
    <2> QED BY <2>6, <2>7, <2>9
  <1>4. CASE PutRow(w)
    <2>1. PICK g : Advance(w, g) /\ g.pc = "note"
      BY <1>4, PutIs
    <2>2. frames'[w] = g
      BY <1>0, <2>1 DEF Advance
    <2>3. OverSeen(frames[w])'
      BY <2>1, <2>2 DEF OverSeen
    <2> QED BY <1>4, <2>3, PutOnward
  <1>5. CASE PutLedger(w)
    <2>1. PICK g : /\ Advance(w, g) /\ Kin(fr, g) /\ g.staged = fr.staged /\ g.mirrored = fr.mirrored
                   /\ g.pc # "put" /\ store' = store
      BY <1>5, NoteIs DEF Answers
    <2> QED BY <1>1, <2>1
  <1>6. CASE MirrorRow(w)
    <2> DEFINE item == fr.staged[fr.mirrored + 1]
    <2>1. PICK g : /\ Advance(w, g) /\ g.staged = fr.staged /\ g.mirrored = fr.mirrored + 1
                   /\ g.pc = "mirror" /\ g.batch = fr.batch
      BY <1>6, MirrorIs DEF Kin
    <2>2. /\ fr.mirrored + 1 \in DOMAIN fr.staged
          /\ item.doc \in Docs /\ store' = [store EXCEPT ![item.doc] = item.row]
      BY <1>6, MirrorIs
    <2>3. frames'[w] = g
      BY <1>0, <2>1 DEF Advance
    <2>4. fr.mirrored \in Nat /\ DOMAIN fr.staged \subseteq Nat
      BY <1>0 DEF Replays
    <2>5. ASSUME NEW j \in DOMAIN fr.staged, fr.mirrored + 1 < j
          PROVE  AtLeast(fr.staged[j].row, store'[fr.staged[j].doc], Sighted(fr.batch, fr.staged[j].doc))
      <3>1. fr.mirrored < j /\ fr.mirrored < fr.mirrored + 1
        BY <2>4, <2>5
      <3>2. fr.staged[j].doc \in Docs
        <4>1. fr.staged[j] \in Items
          BY <1>0
        <4> QED BY <4>1 DEF Items
      <3>3. CASE fr.staged[j].doc = item.doc
        <4>1. AtLeast(fr.staged[j].row, item.row, Sighted(fr.batch, item.doc))
          BY <2>2, <2>5, <3>1, <3>3 DEF OverBefore
        <4>2. store'[fr.staged[j].doc] = item.row
          BY <1>0, <2>2, <3>3
        <4> QED BY <3>3, <4>1, <4>2
      <3>4. CASE fr.staged[j].doc # item.doc
        <4>1. AtLeast(fr.staged[j].row, store[fr.staged[j].doc], Sighted(fr.batch, fr.staged[j].doc))
          BY <3>1 DEF OverStore
        <4>2. store'[fr.staged[j].doc] = store[fr.staged[j].doc]
          BY <1>0, <2>2, <3>2, <3>4
        <4> QED BY <4>1, <4>2
      <3> QED BY <3>3, <3>4
    <2>6. OverStore(frames[w])'
      BY <2>1, <2>3, <2>5 DEF OverStore
    <2>7. ASSUME NEW j \in DOMAIN fr.staged, fr.mirrored + 1 < j
          PROVE  fr.mirrored < j
      BY <2>4, <2>7
    <2>8. OverBefore(frames[w])'
      BY <2>1, <2>3, <2>7 DEF OverBefore
    <2>9. OverSeen(frames[w])'
      BY <2>1, <2>3 DEF OverSeen
    <2> QED BY <2>6, <2>8, <2>9
  <1> QED BY <1>2, <1>3, <1>4, <1>5, <1>6 DEF Goes

LEMMA OnwardNext ==
    ASSUME TInv, Heard, Numbers, Onward, OneLive, ~overlapped, [Next]_vars, ~overlapped'
    PROVE  Onward'
  <1>0. frames \in [Workers -> Replays]
    BY DEF TInv, Typed
  <1> SUFFICES ASSUME NEW v \in Workers, frames'[v].pc # "idle"
               PROVE  OverStore(frames[v])' /\ OverBefore(frames[v])' /\ OverSeen(frames[v])'
    BY DEF Onward
  <1>1. CASE Goes(v)
    <2>1. OverStore(frames[v]) /\ OverBefore(frames[v]) /\ OverSeen(frames[v])
      BY <1>1, GoesIs DEF Onward
    <2> QED BY <1>1, <2>1, GoesOnward
  <1>2. CASE ~Goes(v)
    <2>1. CASE frames'[v].pc = "look" /\ frames'[v].staged = <<>>
      <3>1. DOMAIN frames'[v].staged = {}
        BY <2>1
      <3> QED BY <2>1, <3>1 DEF OverStore, OverBefore, OverSeen
    <2>2. CASE Same(frames[v], frames'[v])
      <3>1. /\ frames[v].pc # "idle"
            /\ OverStore(frames[v]) /\ OverBefore(frames[v]) /\ OverSeen(frames[v])
        BY <2>2 DEF Same, Onward
      <3>2. store' = store
        <4>1. ASSUME NEW w \in Workers, MirrorRow(w) PROVE FALSE
          <5>1. w # v /\ frames[w].pc # "idle"
            BY <1>2, <4>1, MirrorIs DEF Goes
          <5> QED BY <3>1, <5>1 DEF OneLive
        <4>2. ASSUME NEW doc \in Docs, NEW f \in Fields, EditOnline(doc, f) PROVE FALSE
          <5>1. ~Replaying
            BY <4>2, EditOnlineIs
          <5> QED BY <3>1, <5>1 DEF Replaying
        <4> QED BY <4>1, <4>2, Untouched
      <3>3. OverStore(frames[v])'
        BY <2>2, <3>1, <3>2 DEF OverStore, Same
      <3>4. OverBefore(frames[v])'
        BY <2>2, <3>1 DEF OverBefore, Same
      <3>5. \A doc : GetRow(frames[v], doc)' = GetRow(frames[v], doc)
        BY <2>2, <3>2 DEF GetRow, Puts, Same
      <3>6. OverSeen(frames[v])'
        BY <2>2, <3>1, <3>5 DEF OverSeen, Same
      <3> QED BY <3>3, <3>4, <3>6
    <2> QED BY <1>2, <2>1, <2>2, FrameStays
  <1> QED BY <1>1, <1>2

\* Unless two replays overlap, or an edit and a replay, no step of the system takes a
\* field of a stored row back to an earlier change: neither a batch that is posted
\* again nor one that a failure cut half-way mirrors what an edit had replaced. What may
\* is an edit made over a blank, which is held against nothing.
THEOREM ValuesAdvance == Spec => NeverGoesBack
  <1> DEFINE Inv == TInv /\ Heard /\ Numbers /\ Known /\ (~overlapped => OneLive /\ Onward)
             Forward == ~overlapped' => \A doc \in Docs, f \in Fields :
                            store[doc] # NoRow =>
                                store'[doc][f] >= store[doc][f] \/ BlindTo(doc, f)
  <1>1. Init => Inv
    <2> SUFFICES ASSUME Init PROVE OneLive /\ Onward
      BY InitTyped, InitNumbers
    <2>1. \A w \in Workers : frames[w].pc = "idle"
      BY NoneIs DEF Init
    <2> QED BY <2>1 DEF OneLive, Onward
  <1>2. Inv /\ [Next]_vars => Inv'
    <2> SUFFICES ASSUME Inv, [Next]_vars PROVE Inv'
      OBVIOUS
    <2>1. ASSUME ~overlapped' PROVE OneLive' /\ Onward'
      <3>1. ~overlapped
        BY <2>1, Untouched
      <3> QED BY <2>1, <3>1, LoneLive, OnwardNext
    <2> QED BY <2>1, NextTyped, NumbersNext, KnownNext
  <1>3. Inv /\ [Next]_vars => Forward
    <2> SUFFICES ASSUME Inv, [Next]_vars, ~overlapped', NEW doc \in Docs, NEW f \in Fields,
                        store[doc] # NoRow, ~BlindTo(doc, f)
                 PROVE  store'[doc][f] >= store[doc][f]
      OBVIOUS
    <2>0. /\ store \in [Docs -> Rows] /\ frames \in [Workers -> Replays] /\ changes \in Nat
          /\ MaxChanges \in Nat /\ store[doc] \in Row /\ store[doc][f] \in 0..MaxChanges
      BY SyncAssumption, RowIs DEF TInv, Typed
    <2>1. OneLive /\ Onward
      BY Untouched
    <2>2. CASE store' = store
      BY <2>0, <2>2
    <2>3. ASSUME NEW w \in Workers, MirrorRow(w)
          PROVE  store'[doc][f] >= store[doc][f]
      <3> DEFINE fr == frames[w]
                 item == fr.staged[fr.mirrored + 1]
      <3>1. /\ fr.pc = "mirror" /\ fr.mirrored + 1 \in DOMAIN fr.staged
            /\ item.doc \in Docs /\ item.row \in Row
            /\ store' = [store EXCEPT ![item.doc] = item.row]
        BY <2>3, MirrorIs
      <3>2. fr.mirrored < fr.mirrored + 1
        BY <2>0 DEF Replays
      <3>3. AtLeast(item.row, store[item.doc], Sighted(fr.batch, item.doc))
        BY <2>1, <3>1, <3>2 DEF Onward, OverStore
      <3>5. f \in Sighted(fr.batch, doc)
        BY DEF BlindTo, Sighted
      <3> HIDE DEF item
      <3>4. store'[doc] = IF doc = item.doc THEN item.row ELSE store[doc]
        BY <2>0, <3>1
      <3> QED BY <2>0, <3>3, <3>4, <3>5 DEF AtLeast
    <2>4. ASSUME NEW i \in Docs, NEW g \in Fields, EditOnline(i, g)
          PROVE  store'[doc][f] >= store[doc][f]
      <3>1. store' = [store EXCEPT ![i] = [store[i] EXCEPT ![g] = changes + 1]]
        BY <2>4, EditOnlineIs
      <3>2. store[doc][f] <= changes
        BY DEF Known, KnownStore, Past
      <3>3. store[doc] \in [Fields -> 0..MaxChanges]
        BY <2>0 DEF Row
      <3>4. store'[doc][f] = IF doc = i /\ f = g THEN changes + 1 ELSE store[doc][f]
        BY <2>0, <3>1, <3>3
      <3> QED BY <2>0, <3>2, <3>4
    <2> QED BY <2>2, <2>3, <2>4, Untouched
  <1> HIDE DEF Inv
  <1> QED BY <1>1, <1>2, <1>3, PTL DEF Spec, NeverGoesBack

-----------------------------------------------------------------------------
(* What offline synchronisation promises *)

\* A mutation is of one device only.
OneHome == \A d, e \in Devices : \A m \in Mutation : Around(d, m) /\ Around(e, m) => d = e
\* What is made, what waits in a queue and what was ever posted can be told by its fate.
Made == \A n \in 1..MaxChanges : fate[n] = "unmade" <=> n > changes
Waiting == \A d \in Devices : \A m \in Mutation :
    /\ In(device[d].pending, m) => fate[m.change] = "queued"
    /\ Around(d, m) => fate[m.change] \in {"queued", "confirmed", "dropped"}
\* What was posted is in the queue until it is settled, and what is in the queue and not in
\* the copy that was posted came after it.
Resting == \A d \in Devices : \A m \in Mutation :
    Sent(d, m) /\ fate[m.change] = "queued" => In(device[d].pending, m)
Recent == \A d \in Devices : \A m \in Mutation :
    flush[d].pc # "idle" /\ In(device[d].pending, m) /\ m.seq < Limit(d) =>
        In(flush[d].copy.pending, m)
\* An answer on its way to a device answers all it posted, and the server remembers it.
Answered == \A d \in Devices : flush[d].pc = "answered" =>
    /\ DOMAIN flush[d].results = DOMAIN flush[d].copy.pending
    /\ \A i \in DOMAIN flush[d].results : told[flush[d].copy.pending[i].change] # {}

Kept == OneHome /\ Made /\ Waiting /\ Resting /\ Recent /\ Answered

LEMMA HomeNext ==
    ASSUME TInv, Heard, Numbers, OneHome, [Next]_vars
    PROVE  OneHome'
  <1> SUFFICES ASSUME NEW d \in Devices, NEW e \in Devices, NEW m \in Mutation,
                      Around(d, m)', Around(e, m)'
               PROVE  d = e
    BY DEF OneHome
  <1>1. CASE Around(d, m) /\ Around(e, m)
    BY <1>1 DEF OneHome
  <1>2. CASE ~(Around(d, m) /\ Around(e, m))
    <2>1. PICK b \in Devices, doc \in Docs : Queues(b, doc)
      BY <1>2, QuietCases, AroundQuiet, ForgetAround, FlushBeginsAround, FlushEndsAround
    <2>2. PICK n : \E migrated \in SUBSET Docs :
                Fresh(b, n) /\ EnqueueMutation(b, n, migrated)
      BY <2>1, QueueIs DEF Queues
    <2>3. /\ \A c \in Devices : c # b => device'[c] = device[c]
          /\ UNCHANGED <<flush, serverVars>>
      BY <2>2, EnqueueIs
    <2>4. \A c \in Devices : c # b => (Around(c, m)' => Around(c, m))
      BY <2>3 DEF serverVars, Around, Sent, Copies, Carries
    <2>5. \A c \in Devices : Around(c, m) => m.change <= changes
      BY DEF Numbers, InOrder
    <2>6. ASSUME NEW c \in Devices, Around(c, m)', ~Around(c, m)
          PROVE  c = b /\ m.change = changes + 1
      BY <2>4, <2>6, AroundNext DEF Fresh
    <2>7. changes \in Nat /\ ~(changes + 1 <= changes)
      BY SyncAssumption DEF TInv, Typed
    <2> QED BY <1>2, <2>5, <2>6, <2>7
  <1> QED BY <1>1, <1>2

\* A change is one mutation of one device.
LEMMA OneOwner ==
    ASSUME Numbers, OneHome, NEW d \in Devices, NEW e \in Devices, NEW m \in Mutation,
           NEW k \in Mutation, Around(d, m), Around(e, k), m.change = k.change
    PROVE  d = e /\ m = k
  <1>1. m = k
    BY DEF Numbers, OneChange
  <1> QED BY <1>1 DEF OneHome

LEMMA RecentNext ==
    ASSUME TInv, Heard, Recent, [Next]_vars
    PROVE  Recent'
  <1>0. flush \in [Devices -> Flushes]
    BY DEF TInv, Typed
  <1> SUFFICES ASSUME NEW d \in Devices, NEW m \in Mutation, flush'[d].pc # "idle",
                      In(device'[d].pending, m), m.seq < Limit(d)'
               PROVE  In(flush'[d].copy.pending, m)
    BY DEF Recent
  <1>1. ASSUME flush[d].pc # "idle", flush'[d].copy = flush[d].copy, In(device[d].pending, m)
        PROVE  In(flush'[d].copy.pending, m)
    <2>1. m.seq < Limit(d)
      BY <1>1 DEF Limit
    <2> QED BY <1>1, <2>1 DEF Recent
  <1>2. CASE Quiet
    BY <1>1, <1>2 DEF Quiet
  <1>3. ASSUME NEW b \in Devices, NEW doc \in Docs, Queues(b, doc)
        PROVE  In(flush'[d].copy.pending, m)
    <2>1. PICK n : \E migrated \in SUBSET Docs :
                Fresh(b, n) /\ EnqueueMutation(b, n, migrated)
      BY <1>3, QueueIs DEF Queues
    <2>2. /\ \A e \in Devices : e # b => device'[e] = device[e]
          /\ device'[b].pending = Append(device[b].pending, n) /\ flush' = flush
      BY <2>1, EnqueueIs
    <2>3. d = b /\ m = n => ~(m.seq < Limit(d)')
      <3>1. Limit(d)' = Limit(d) /\ n.seq \in Nat
        BY <2>1, <2>2, MutationIs DEF Limit, Fresh, Seqs
      <3> QED BY <2>1, <3>1, LimitIs DEF Fresh
    <2>4. In(device[d].pending, m)
      <3>1. n \in Mutation
        BY <2>1 DEF Fresh
      <3>2. \A k : In(device'[b].pending, k) => In(device[b].pending, k) \/ k = n
        BY <2>2, <3>1, LimitIs, AppendIn
      <3> QED BY <2>2, <2>3, <3>2
    <2> QED BY <1>1, <2>2, <2>4
  <1>4. ASSUME NEW b \in Devices, NEW doc \in Docs, ForgetDoc(b, doc)
        PROVE  In(flush'[d].copy.pending, m)
    <2>1. /\ \A e \in Devices : e # b => device'[e] = device[e]
          /\ \E S \in SUBSET DOMAIN device[b].pending : device'[b].pending = Keep(device[b].pending, S)
          /\ flush' = flush
      BY <1>4, ForgetIs
    <2>2. In(device[d].pending, m)
      BY <2>1, LimitIs, KeepIn
    <2> QED BY <1>1, <2>1, <2>2
  <1>5. ASSUME NEW b \in Devices, NEW w \in Workers, FlushBegins(b, w)
        PROVE  In(flush'[d].copy.pending, m)
    <2>1. PICK fl \in Flushes :
            flush' = [flush EXCEPT ![b] = fl] /\ fl.copy = device[b] /\ device' = device
      BY <1>5, FlushBeginsIs
    <2>2. CASE d = b
      BY <1>0, <2>1, <2>2
    <2>3. CASE d # b
      BY <1>0, <1>1, <2>1, <2>3
    <2> QED BY <2>2, <2>3
  <1>6. ASSUME NEW b \in Devices, FlushEnds(b)
        PROVE  In(flush'[d].copy.pending, m)
    <2>1. /\ \A e \in Devices : e # b => device'[e] = device[e]
          /\ flush' = [flush EXCEPT ![b] = NoFlush]
      BY <1>6, FlushEndsIs
    <2>2. d # b /\ flush'[d] = flush[d]
      BY <1>0, <2>1, NoneIs
    <2> QED BY <1>1, <2>1, <2>2
  <1> QED BY <1>2, <1>3, <1>4, <1>5, <1>6, QuietCases

LEMMA AnsweredNext ==
    ASSUME TInv, Heard, Answered, [Next]_vars
    PROVE  Answered'
  <1> SUFFICES ASSUME NEW d \in Devices, flush'[d].pc = "answered"
               PROVE  /\ DOMAIN flush'[d].results = DOMAIN flush'[d].copy.pending
                      /\ \A i \in DOMAIN flush'[d].results :
                            told'[flush'[d].copy.pending[i].change] # {}
    BY DEF Answered
  <1>1. CASE \A w \in Workers : ~Commit(w)
    <2>1. flush'[d] = flush[d] /\ told' = told
      BY <1>1, Untouched
    <2> QED BY <2>1 DEF Answered
  <1>2. ASSUME NEW w \in Workers, Commit(w)
        PROVE  /\ DOMAIN flush'[d].results = DOMAIN flush'[d].copy.pending
               /\ \A i \in DOMAIN flush'[d].results :
                    told'[flush'[d].copy.pending[i].change] # {}
    <2> DEFINE fr == frames[w]
    <2>1. /\ fr \in Replays /\ DOMAIN fr.results = DOMAIN fr.batch
          /\ \A n \in 1..MaxChanges : told'[n] =
                told[n] \cup {fr.results[k] : k \in {j \in DOMAIN fr.batch : fr.batch[j].change = n}}
          /\ \/ flush'[d] = flush[d]
             \/ Waited(w, d) /\ flush'[d].copy = flush[d].copy /\ flush'[d].results = fr.results
      BY <1>2, CommitIs
    <2>2. \A i \in DOMAIN flush'[d].copy.pending :
            flush'[d].copy.pending[i].change \in 1..MaxChanges
      <3>1. flush'[d].copy.pending \in Seq(Mutation)
        BY NextTyped DEF TInv, Copied, Device
      <3>2. \A i \in DOMAIN flush'[d].copy.pending : flush'[d].copy.pending[i] \in Mutation
        BY <3>1
      <3> QED BY <3>2, MutationIs
    <2>3. CASE flush'[d] = flush[d]
      BY <2>1, <2>2, <2>3 DEF Answered
    <2>4. CASE Waited(w, d) /\ flush'[d].copy = flush[d].copy /\ flush'[d].results = fr.results
      <3>1. flush'[d].copy.pending = fr.batch /\ DOMAIN flush'[d].results = DOMAIN fr.batch
        BY <2>1, <2>4 DEF Heard
      <3>2. \A i \in DOMAIN fr.batch : fr.results[i] \in told'[fr.batch[i].change]
        BY <2>1, <2>2, <3>1
      <3> QED BY <3>1, <3>2
    <2> QED BY <2>1, <2>3, <2>4
  <1> QED BY <1>1, <1>2

-----------------------------------------------------------------------------
(* Where the promise sees a change *)

\* A mutation that came into the queue while a flush awaits its answer.
LateIn(d, m) ==
    flush[d].pc # "idle" /\ In(device[d].pending, m) /\ ~In(flush[d].copy.pending, m)
SomeHolds(n) == \E d \in Devices : \E m \in Mutation : In(device[d].pending, m) /\ m.change = n
SomeLate(n) == \E d \in Devices : \E m \in Mutation : LateIn(d, m) /\ m.change = n

LEMMA HeldIs ==
    ASSUME TInv, TInv', NEW n
    PROVE  /\ (Held(n) <=> SomeHolds(n)) /\ (Held(n)' <=> SomeHolds(n)')
           /\ (Late(n) <=> SomeLate(n)) /\ (Late(n)' <=> SomeLate(n)')
  <1>1. \A s, m : m \in Range(s) <=> In(s, m)
    BY DEF Range, In
  <1>2. \A d \in Devices : \A m :
            /\ In(device[d].pending, m) => m \in Mutation
            /\ In(device'[d].pending, m) => m \in Mutation
    <2>1. \A d \in Devices : device[d].pending \in Seq(Mutation) /\ device'[d].pending \in Seq(Mutation)
      BY DEF TInv, Typed, Device
    <2> QED BY <2>1, InMutation
  <1>3. (Held(n) <=> SomeHolds(n)) /\ (Held(n)' <=> SomeHolds(n)')
    BY <1>1, <1>2 DEF Held, SomeHolds, Pending
  <1>4. (Late(n) <=> SomeLate(n)) /\ (Late(n)' <=> SomeLate(n)')
    BY <1>1, <1>2 DEF Late, SomeLate, LateIn, Pending
  <1> QED BY <1>3, <1>4

\* What is held was queued, and it is late only where it is held.
LEMMA PlaceIs ==
    ASSUME TInv, TInv', Numbers, Made, Waiting, NEW n \in 1..MaxChanges
    PROVE  /\ Late(n) => Held(n)
           /\ Held(n) => fate[n] = "queued" /\ PlaceOf(n) = IF Late(n) THEN "unsure" ELSE "waiting"
           /\ ~Held(n) => PlaceOf(n) = IF fate[n] = "queued" THEN "lost" ELSE fate[n]
           /\ n > changes => ~Held(n) /\ PlaceOf(n) = "unmade"
           /\ n <= changes => PlaceOf(n) # "unmade"
  <1>1. (Held(n) <=> SomeHolds(n)) /\ (Late(n) <=> SomeLate(n))
    BY HeldIs
  <1>2. Late(n) => Held(n)
    BY <1>1 DEF SomeHolds, SomeLate, LateIn
  <1>3. Held(n) => fate[n] = "queued" /\ ~(n > changes)
    <2> SUFFICES ASSUME Held(n) PROVE fate[n] = "queued" /\ ~(n > changes)
      OBVIOUS
    <2>1. fate[n] = "queued"
      BY <1>1 DEF SomeHolds, Waiting
    <2> QED BY <2>1 DEF Made
  <1>4. n \in Nat /\ changes \in Nat
    BY SyncAssumption DEF TInv, Typed
  <1> QED BY <1>2, <1>3, <1>4 DEF Made, PlaceOf

\* Where only posts end or none does, what was unsure may wait again.
LEMMA Loosened ==
    ASSUME TInv, TInv', UNCHANGED <<device, fate>>,
           \A d \in Devices : \A m \in Mutation : LateIn(d, m)' => LateIn(d, m)
    PROVE  \A n \in 1..MaxChanges : PlaceOf(n)' # PlaceOf(n) =>
                PlaceOf(n) = "unsure" /\ PlaceOf(n)' = "waiting"
  <1> SUFFICES ASSUME NEW n \in 1..MaxChanges
               PROVE  PlaceOf(n)' # PlaceOf(n) => PlaceOf(n) = "unsure" /\ PlaceOf(n)' = "waiting"
    OBVIOUS
  <1>1. Held(n)' <=> Held(n)
    BY HeldIs DEF SomeHolds
  <1>2. Late(n)' => Late(n)
    BY HeldIs DEF SomeLate
  <1> QED BY <1>1, <1>2 DEF PlaceOf

LEMMA Unmoved ==
    ASSUME TInv, TInv', UNCHANGED <<device, fate>>,
           \A d \in Devices : \A m \in Mutation : LateIn(d, m)' <=> LateIn(d, m)
    PROVE  \A n \in 1..MaxChanges : PlaceOf(n)' = PlaceOf(n)
  <1> SUFFICES ASSUME NEW n \in 1..MaxChanges PROVE PlaceOf(n)' = PlaceOf(n)
    OBVIOUS
  <1>1. Held(n)' <=> Held(n)
    BY HeldIs DEF SomeHolds
  <1>2. Late(n)' <=> Late(n)
    BY HeldIs DEF SomeLate
  <1> QED BY <1>1, <1>2 DEF PlaceOf

\* The steps after which every change has the fate it had.
LEMMA Unsettled ==
    ASSUME Made, Waiting, Resting, UNCHANGED <<device, changes, fate>>,
           \A e \in Devices : \A m : Around(e, m)' => Around(e, m)
    PROVE  Made' /\ Waiting' /\ Resting'
  <1>1. \A m \in Mutation : m.change \in 1..MaxChanges
    BY MutationIs
  <1>2. \A e \in Devices : \A m : Sent(e, m)' => In(device[e].pending, m) \/ Sent(e, m)
    BY DEF Around
  <1> QED BY <1>1, <1>2 DEF Made, Waiting, Resting

\* The next change is made.
MadeAs(where) ==
    /\ changes + 1 \in 1..MaxChanges /\ PlaceOf(changes + 1) = "unmade"
    /\ \A n \in 1..MaxChanges : n < changes + 1 => PlaceOf(n) # "unmade"
    /\ \A n \in 1..MaxChanges : PlaceOf(n)' = IF n = changes + 1 THEN where ELSE PlaceOf(n)

\* A change queued is the next one; it waits, or is unsure while a flush is under way.
LEMMA QueuedIs ==
    ASSUME TInv, Heard, Numbers, Made, Waiting, Resting, [Next]_vars, NEW d \in Devices,
           NEW doc \in Docs, Queues(d, doc)
    PROVE  /\ Made' /\ Waiting' /\ Resting'
           /\ MadeAs("waiting") \/ MadeAs("unsure")
           /\ UNCHANGED <<told, overlapped>>
  <1>1. PICK m : \E migrated \in SUBSET Docs :
            Fresh(d, m) /\ EnqueueMutation(d, m, migrated)
    BY QueueIs DEF Queues
  <1>2. /\ \A e \in Devices : e # d => device'[e] = device[e]
        /\ device'[d].pending = Append(device[d].pending, m)
        /\ changes' = changes + 1 /\ changes < MaxChanges
        /\ fate' = [fate EXCEPT ![changes + 1] = "queued"]
        /\ TInv' /\ UNCHANGED <<flush, frames, told, overlapped>>
    BY <1>1, EnqueueIs DEF serverVars
  <1>3. m \in Mutation /\ m.change = changes + 1
    BY <1>1 DEF Fresh
  <1>4. changes \in Nat /\ MaxChanges \in Nat /\ changes + 1 \in 1..MaxChanges
    BY <1>2, SyncAssumption DEF TInv, Typed
  <1>5. \A n \in 1..MaxChanges : fate'[n] = IF n = changes + 1 THEN "queued" ELSE fate[n]
    BY <1>2 DEF TInv, Typed
  <1>6. Made'
    BY <1>2, <1>4, <1>5 DEF Made
  <1>7. \A e \in Devices : \A n :
            In(device'[e].pending, n) <=> In(device[e].pending, n) \/ (e = d /\ n = m)
    <2>1. \A n : In(device'[d].pending, n) <=> In(device[d].pending, n) \/ n = m
      BY <1>2, <1>3, LimitIs, AppendIn
    <2> QED BY <1>2, <2>1
  <1>8. \A e \in Devices : \A n : Sent(e, n)' <=> Sent(e, n)
    BY <1>2 DEF Sent, Copies, Carries
  <1>9. ASSUME NEW e \in Devices, NEW n \in Mutation, Around(e, n)
        PROVE  n.change \in 1..MaxChanges /\ n.change <= changes /\ fate'[n.change] = fate[n.change]
    <2>1. n.change \in 1..MaxChanges /\ n.change <= changes
      BY <1>9, MutationIs DEF Numbers, InOrder
    <2> QED BY <1>4, <1>5, <2>1
  <1>10. Waiting'
    <2> SUFFICES ASSUME NEW e \in Devices, NEW n \in Mutation
                 PROVE  /\ In(device'[e].pending, n) => fate'[n.change] = "queued"
                        /\ Around(e, n)' => fate'[n.change] \in {"queued", "confirmed", "dropped"}
      BY DEF Waiting
    <2>1. CASE Around(e, n)
      <3>1. fate'[n.change] = fate[n.change] /\ n # m
        BY <1>3, <1>4, <1>9, <2>1
      <3> QED BY <1>7, <2>1, <3>1 DEF Waiting
    <2>2. CASE ~Around(e, n)
      <3>1. Around(e, n)' => n = m
        BY <1>7, <1>8, <2>2 DEF Around
      <3>2. fate'[m.change] = "queued"
        BY <1>3, <1>4, <1>5
      <3> QED BY <3>1, <3>2 DEF Around
    <2> QED BY <2>1, <2>2
  <1>11. Resting'
    <2> SUFFICES ASSUME NEW e \in Devices, NEW n \in Mutation, Sent(e, n), fate'[n.change] = "queued"
                 PROVE  In(device'[e].pending, n)
      BY <1>8 DEF Resting
    <2>1. fate[n.change] = "queued"
      BY <1>9 DEF Around
    <2> QED BY <1>7, <2>1 DEF Resting
  <1>12. PlaceOf(changes + 1) = "unmade"
         /\ \A n \in 1..MaxChanges : n < changes + 1 => PlaceOf(n) # "unmade"
    BY <1>2, <1>4, PlaceIs
  <1>13. ASSUME NEW n \in 1..MaxChanges, n # changes + 1
         PROVE  PlaceOf(n)' = PlaceOf(n)
    <2>1. Held(n)' <=> Held(n)
      BY <1>2, <1>3, <1>7, <1>13, HeldIs DEF SomeHolds
    <2>2. \A e \in Devices : \A k \in Mutation : k.change = n => (LateIn(e, k)' <=> LateIn(e, k))
      BY <1>2, <1>3, <1>7, <1>13 DEF LateIn
    <2>3. Late(n)' <=> Late(n)
      BY <1>2, <2>2, HeldIs DEF SomeLate
    <2> QED BY <1>5, <1>13, <2>1, <2>3 DEF PlaceOf
  <1>14. ASSUME NEW n \in 1..MaxChanges, n = changes + 1
         PROVE  PlaceOf(n)' \in {"waiting", "unsure"}
    <2>1. Held(n)'
      <3>1. SomeHolds(n)'
        BY <1>3, <1>7, <1>14 DEF SomeHolds
      <3> QED BY <1>2, <3>1, HeldIs
    <2> QED BY <2>1 DEF PlaceOf
  <1>15. MadeAs("waiting") \/ MadeAs("unsure")
    <2>1. PICK n \in 1..MaxChanges : n = changes + 1
      BY <1>4
    <2>2. CASE PlaceOf(n)' = "waiting"
      BY <1>4, <1>12, <1>13, <2>1, <2>2 DEF MadeAs
    <2>3. CASE PlaceOf(n)' = "unsure"
      BY <1>4, <1>12, <1>13, <2>1, <2>3 DEF MadeAs
    <2> QED BY <1>14, <2>1, <2>2, <2>3
  <1> QED BY <1>2, <1>6, <1>10, <1>11, <1>15

LEMMA OnlineIs ==
    ASSUME TInv, Heard, Numbers, Made, Waiting, Resting, [Next]_vars, NEW doc \in Docs,
           NEW f \in Fields, EditOnline(doc, f)
    PROVE  /\ Made' /\ Waiting' /\ Resting' /\ MadeAs("online")
           /\ told' = told /\ overlapped' = (overlapped \/ Replaying)
  <1>1. /\ changes < MaxChanges /\ changes' = changes + 1
        /\ fate' = [fate EXCEPT ![changes + 1] = "online"]
        /\ told' = told /\ overlapped' = (overlapped \/ Replaying)
        /\ TInv' /\ UNCHANGED <<device, flush, frames>>
    BY EditOnlineIs
  <1>2. changes \in Nat /\ MaxChanges \in Nat /\ changes + 1 \in 1..MaxChanges
    BY <1>1, SyncAssumption DEF TInv, Typed
  <1>3. \A n \in 1..MaxChanges : fate'[n] = IF n = changes + 1 THEN "online" ELSE fate[n]
    BY <1>1 DEF TInv, Typed
  <1>4. Made'
    BY <1>1, <1>2, <1>3 DEF Made
  <1>5. ASSUME NEW e \in Devices, NEW n \in Mutation, Around(e, n)
        PROVE  fate'[n.change] = fate[n.change]
    <2>1. n.change \in 1..MaxChanges /\ n.change <= changes
      BY <1>5, MutationIs DEF Numbers, InOrder
    <2> QED BY <1>2, <1>3, <2>1
  <1>6. \A e \in Devices : \A n : (Around(e, n)' <=> Around(e, n)) /\ (Sent(e, n)' <=> Sent(e, n))
    BY <1>1 DEF Around, Sent, Copies, Carries
  <1>7. Waiting' /\ Resting'
    BY <1>1, <1>5, <1>6 DEF Waiting, Resting, Around
  <1>8. /\ ~Held(changes + 1) /\ PlaceOf(changes + 1) = "unmade"
        /\ \A n \in 1..MaxChanges : n < changes + 1 => PlaceOf(n) # "unmade"
    BY <1>1, <1>2, PlaceIs
  <1>9. \A n : (Held(n)' <=> Held(n)) /\ (Late(n)' <=> Late(n))
    BY <1>1 DEF Held, Late, Pending
  <1>10. \A n \in 1..MaxChanges : PlaceOf(n)' = IF n = changes + 1 THEN "online" ELSE PlaceOf(n)
    BY <1>3, <1>8, <1>9 DEF PlaceOf
  <1>11. MadeAs("online")
    BY <1>2, <1>8, <1>10 DEF MadeAs
  <1> QED BY <1>1, <1>4, <1>7, <1>11

\* What a device puts aside when it forgets a document, and nothing else, is dropped.
LEMMA ForgottenIs ==
    ASSUME TInv, Heard, Numbers, OneHome, Made, Waiting, Resting, NEW d \in Devices,
           NEW doc \in Docs, ForgetDoc(d, doc)
    PROVE  /\ Made' /\ Waiting' /\ Resting' /\ UNCHANGED <<told, overlapped>>
           /\ \A n \in 1..MaxChanges : PlaceOf(n)' # PlaceOf(n) =>
                PlaceOf(n) \in {"waiting", "unsure"} /\ PlaceOf(n)' = "dropped"
  <1> DEFINE pending == device[d].pending
             created == {i \in DOMAIN pending :
                            pending[i].name = "record.create" /\ pending[i].doc = doc}
  <1>1. /\ TInv' /\ \A e \in Devices : e # d => device'[e] = device[e]
        /\ UNCHANGED <<flush, changes, told, overlapped>>
        /\ \E S \in SUBSET DOMAIN pending :
                /\ device'[d].pending = Keep(pending, S)
                /\ \A i \in DOMAIN pending \ S :
                    LET n == pending[i].change IN n \in 1..MaxChanges /\ fate'[n] = "dropped"
        /\ \A e \in Devices : \A m :
                (Around(e, m)' => Around(e, m)) /\ (Sent(e, m)' => Sent(e, m))
    BY ForgetIs, ForgetAround
  <1>2. pending \in Seq(Mutation)
    BY LimitIs
  <1>3. \A m : In(device'[d].pending, m) => In(pending, m)
    BY <1>1, <1>2, KeepIn
  <1>4. ASSUME NEW m \in Mutation, In(pending, m), fate'[m.change] = "queued"
        PROVE  In(device'[d].pending, m)
    <2>1. PICK S \in SUBSET DOMAIN pending :
                /\ device'[d].pending = Keep(pending, S)
                /\ \A i \in DOMAIN pending \ S : fate'[pending[i].change] = "dropped"
      BY <1>1
    <2>2. PICK i \in DOMAIN pending : pending[i] = m
      BY <1>4 DEF In
    <2>3. i \in S
      BY <1>4, <2>1, <2>2
    <2>4. PICK n \in DOMAIN Keep(pending, S) : Keep(pending, S)[n] = pending[i]
      BY <1>2, <2>3, KeepIs
    <2> QED BY <2>1, <2>2, <2>4 DEF In
  <1>5. ASSUME NEW n \in 1..MaxChanges, fate'[n] # fate[n]
        PROVE  /\ fate'[n] = "dropped" /\ fate[n] = "queued"
               /\ \E i \in created : In(pending, pending[i]) /\ pending[i].change = n
                                        /\ pending[i] \in Mutation
    <2>1. /\ fate' = [k \in DOMAIN fate |->
                IF k \in {pending[i].change : i \in created} THEN "dropped" ELSE fate[k]]
          /\ DOMAIN fate = 1..MaxChanges
      BY DEF ForgetDoc, TInv, Typed
    <2>2. PICK i \in created : pending[i].change = n /\ fate'[n] = "dropped"
      BY <1>5, <2>1
    <2>3. pending[i] \in Mutation /\ In(pending, pending[i])
      BY <1>2 DEF In
    <2> QED BY <2>2, <2>3 DEF Waiting
  <1>6. ASSUME NEW i \in created
        PROVE  ~In(device'[d].pending, pending[i])
    <2> DEFINE S == {k \in DOMAIN pending : ~Forgotten(pending[k], doc)}
               new == [device[d] EXCEPT !.pending = Keep(pending, S)]
    <2>1. device' = [device EXCEPT ![d].pending =
                Keep(device[d].pending, {k \in DOMAIN device[d].pending : ~Forgotten(device[d].pending[k], doc)})]
      BY DEF ForgetDoc
    <2>2. device' = [device EXCEPT ![d] = new]
      BY <2>1
    <2>3. device'[d].pending = Keep(pending, S)
      BY <2>2 DEF TInv, Typed, Device
    <2>4. S \in SUBSET DOMAIN pending
      OBVIOUS
    <2>5. \A k \in S : pending[k] # pending[i]
      BY DEF Forgotten
    <2> HIDE DEF S, created, pending
    <2>6. \E at \in [DOMAIN Keep(pending, S) -> S] :
                \A n \in DOMAIN Keep(pending, S) : Keep(pending, S)[n] = pending[at[n]]
      BY <1>2, <2>4, KeepIs
    <2> QED BY <2>3, <2>5, <2>6 DEF In
  <1> HIDE DEF pending, created
  <1>7. Made'
    BY <1>1, <1>5 DEF Made
  <1>8. Waiting'
    <2> SUFFICES ASSUME NEW e \in Devices, NEW m \in Mutation
                 PROVE  /\ In(device'[e].pending, m) => fate'[m.change] = "queued"
                        /\ Around(e, m)' => fate'[m.change] \in {"queued", "confirmed", "dropped"}
      BY DEF Waiting
    <2>0. m.change \in 1..MaxChanges
      BY MutationIs
    <2>1. Around(e, m)' => fate'[m.change] \in {"queued", "confirmed", "dropped"}
      BY <1>1, <1>5, <2>0 DEF Waiting
    <2>2. ASSUME In(device'[e].pending, m) PROVE fate'[m.change] = "queued"
      <3>1. In(device[e].pending, m) /\ Around(e, m)
        BY <1>1, <1>3, <2>2 DEF Around, pending
      <3>2. ASSUME fate'[m.change] # fate[m.change] PROVE FALSE
        <4>1. PICK i \in created :
                In(pending, pending[i]) /\ pending[i].change = m.change /\ pending[i] \in Mutation
          BY <1>5, <2>0, <3>2
        <4>2. e = d /\ pending[i] = m
          BY <3>1, <4>1, OneOwner DEF Around, pending
        <4> QED BY <1>6, <2>2, <4>2
      <3> QED BY <3>1, <3>2 DEF Waiting
    <2> QED BY <2>1, <2>2
  <1>9. ASSUME NEW e \in Devices, NEW m \in Mutation, In(device[e].pending, m),
               fate'[m.change] = "queued"
        PROVE  In(device'[e].pending, m)
    BY <1>1, <1>4, <1>9 DEF pending
  <1>10. Resting'
    <2> SUFFICES ASSUME NEW e \in Devices, NEW m \in Mutation, Sent(e, m), fate'[m.change] = "queued"
                 PROVE  In(device'[e].pending, m)
      BY <1>1 DEF Resting
    <2>1. m.change \in 1..MaxChanges
      BY MutationIs
    <2>2. fate[m.change] = "queued"
      BY <1>5, <2>1
    <2> QED BY <1>9, <2>2 DEF Resting
  <1>11. \A e \in Devices : \A m : In(device'[e].pending, m) => In(device[e].pending, m)
    BY <1>1, <1>3 DEF pending
  <1>12. ASSUME NEW n \in 1..MaxChanges, PlaceOf(n)' # PlaceOf(n)
         PROVE  PlaceOf(n) \in {"waiting", "unsure"} /\ PlaceOf(n)' = "dropped"
    <2>1. CASE fate'[n] # fate[n]
      <3>1. SomeHolds(n)
        BY <1>5, <2>1 DEF SomeHolds, pending
      <3>2. Held(n)
        BY <1>1, <3>1, HeldIs
      <3>3. ~SomeHolds(n)'
        BY <1>5, <1>8, <2>1 DEF SomeHolds, Waiting
      <3>4. ~Held(n)'
        BY <1>1, <3>3, HeldIs
      <3> QED BY <1>5, <2>1, <3>2, <3>4 DEF PlaceOf
    <2>2. CASE fate'[n] = fate[n] /\ fate[n] = "queued"
      <3>1. SomeHolds(n)' <=> SomeHolds(n)
        BY <1>9, <1>11, <2>2 DEF SomeHolds
      <3>2. \A e \in Devices : \A m \in Mutation : m.change = n => (LateIn(e, m)' <=> LateIn(e, m))
        BY <1>1, <1>9, <1>11, <2>2 DEF LateIn
      <3>3. SomeLate(n)' <=> SomeLate(n)
        BY <3>2 DEF SomeLate
      <3>4. (Held(n)' <=> Held(n)) /\ (Late(n)' <=> Late(n))
        BY <1>1, <3>1, <3>3, HeldIs
      <3> QED BY <1>12, <2>2, <3>4 DEF PlaceOf
    <2>3. CASE fate'[n] = fate[n] /\ fate[n] # "queued"
      <3>1. ~SomeHolds(n) /\ ~SomeHolds(n)'
        BY <1>8, <2>3 DEF SomeHolds, Waiting
      <3>2. ~Held(n) /\ ~Held(n)'
        BY <1>1, <3>1, HeldIs
      <3> QED BY <1>12, <2>3, <3>2 DEF PlaceOf
    <2> QED BY <2>1, <2>2, <2>3
  <1> QED BY <1>1, <1>7, <1>8, <1>10, <1>12

\* The answer confirms all that was posted and was not settled, and what came into the
\* queue after it is lost; nothing else changes.
LEMMA EndedIs ==
    ASSUME TInv, Heard, Numbers, Kept, NEW d \in Devices, FlushEnds(d)
    PROVE  /\ Made' /\ Waiting' /\ Resting' /\ UNCHANGED <<told, overlapped>>
           /\ \A n \in 1..MaxChanges : PlaceOf(n)' # PlaceOf(n) =>
                \/ PlaceOf(n) = "waiting" /\ PlaceOf(n)' = "confirmed" /\ told[n] # {}
                \/ PlaceOf(n) = "unsure" /\ PlaceOf(n)' = "lost"
  <1> DEFINE copy == flush[d].copy.pending
             kept == {i \in DOMAIN copy : copy[i].seq \notin ConfirmedSeqs(flush[d])}
  <1>1. /\ TInv' /\ flush[d].pc = "answered" /\ \A e \in Devices : e # d => device'[e] = device[e]
        /\ device'[d].pending = Keep(copy, kept)
        /\ \A i \in DOMAIN copy \ kept : fate'[copy[i].change] # "queued"
        /\ \A n \in 1..MaxChanges : fate'[n] = fate[n] \/ (fate[n] = "queued" /\ fate'[n] = "confirmed")
        /\ \A n \in 1..MaxChanges : fate'[n] # fate[n] => \E i \in DOMAIN copy \ kept : copy[i].change = n
        /\ flush' = [flush EXCEPT ![d] = NoFlush]
        /\ UNCHANGED <<changes, told, overlapped>>
    BY FlushEndsIs
  <1>2. copy \in Seq(Mutation) /\ DOMAIN flush[d].results = DOMAIN copy
    BY <1>1, LimitIs DEF Kept, Answered
  <1>3. kept = {}
    BY <1>2 DEF ConfirmedSeqs
  <1>4. \A m : ~In(device'[d].pending, m)
    <2>1. \E at \in [DOMAIN Keep(copy, {}) -> {}] :
                \A n \in DOMAIN Keep(copy, {}) : Keep(copy, {})[n] = copy[at[n]]
      <3> HIDE DEF copy
      <3>1. {} \in SUBSET DOMAIN copy
        OBVIOUS
      <3> QED BY <1>2, <3>1, KeepIs
    <2> QED BY <1>1, <1>3, <2>1 DEF In
  <1>5. ASSUME NEW m \in Mutation, In(copy, m)
        PROVE  fate'[m.change] # "queued" /\ Sent(d, m) /\ Around(d, m)
    BY <1>1, <1>3, <1>5 DEF In, Around, Sent, Copies
  <1>6. ASSUME NEW n \in 1..MaxChanges, fate'[n] # fate[n]
        PROVE  /\ fate[n] = "queued" /\ fate'[n] = "confirmed" /\ told[n] # {}
               /\ \E m \in Mutation : In(copy, m) /\ m.change = n
    <2>1. PICK i \in DOMAIN copy : copy[i].change = n
      BY <1>1, <1>6
    <2>2. copy[i] \in Mutation /\ In(copy, copy[i])
      BY <1>2 DEF In
    <2>3. told[n] # {}
      BY <1>1, <1>2, <2>1 DEF Kept, Answered
    <2> QED BY <1>1, <1>6, <2>1, <2>2, <2>3
  <1>7. flush'[d].pc = "idle" /\ \A e \in Devices : e # d => flush'[e] = flush[e]
    BY <1>1, NoneIs DEF TInv, Typed
  <1>8. \A e \in Devices : \A m : (Around(e, m)' => Around(e, m)) /\ (Sent(e, m)' => Sent(e, m))
    BY FlushEndsAround
  <1>9. ASSUME NEW m \in Mutation, In(device[d].pending, m), ~In(copy, m)
        PROVE  LateIn(d, m) /\ fate'[m.change] = fate[m.change]
    <2>1. LateIn(d, m)
      BY <1>1, <1>9 DEF LateIn
    <2>2. ASSUME fate'[m.change] # fate[m.change] PROVE FALSE
      <3>1. m.change \in 1..MaxChanges /\ Around(d, m)
        BY <1>9, MutationIs DEF Around
      <3>2. PICK k \in Mutation : In(copy, k) /\ k.change = m.change
        BY <1>6, <2>2, <3>1
      <3>3. k = m
        BY <1>5, <3>1, <3>2, OneOwner DEF Kept
      <3> QED BY <1>9, <3>2, <3>3
    <2> QED BY <2>1, <2>2
  <1>10. ASSUME NEW e \in Devices, e # d, NEW m \in Mutation, In(device[e].pending, m)
         PROVE  fate'[m.change] = fate[m.change]
    <2>1. m.change \in 1..MaxChanges /\ Around(e, m)
      BY <1>10, MutationIs DEF Around
    <2>2. ASSUME fate'[m.change] # fate[m.change] PROVE FALSE
      <3>1. PICK k \in Mutation : In(copy, k) /\ k.change = m.change
        BY <1>6, <2>1, <2>2
      <3>2. e = d
        BY <1>5, <2>1, <3>1, OneOwner DEF Kept
      <3> QED BY <1>10, <3>2
    <2> QED BY <2>2
  <1> HIDE DEF copy, kept
  <1>11. Made'
    BY <1>1, <1>6 DEF Kept, Made
  <1>12. Waiting'
    <2> SUFFICES ASSUME NEW e \in Devices, NEW m \in Mutation
                 PROVE  /\ In(device'[e].pending, m) => fate'[m.change] = "queued"
                        /\ Around(e, m)' => fate'[m.change] \in {"queued", "confirmed", "dropped"}
      BY DEF Waiting
    <2>1. m.change \in 1..MaxChanges
      BY MutationIs
    <2>2. Around(e, m)' => fate'[m.change] \in {"queued", "confirmed", "dropped"}
      BY <1>6, <1>8, <2>1 DEF Kept, Waiting
    <2>3. ASSUME In(device'[e].pending, m) PROVE fate'[m.change] = "queued"
      BY <1>1, <1>4, <1>10, <2>3 DEF Kept, Waiting
    <2> QED BY <2>2, <2>3
  <1>13. Resting'
    <2> SUFFICES ASSUME NEW e \in Devices, NEW m \in Mutation, Sent(e, m), fate'[m.change] = "queued"
                 PROVE  In(device'[e].pending, m)
      BY <1>8 DEF Resting
    <2>1. m.change \in 1..MaxChanges
      BY MutationIs
    <2>2. In(device[e].pending, m)
      BY <1>6, <2>1 DEF Kept, Resting
    <2>3. e # d
      <3> SUFFICES ASSUME e = d PROVE FALSE
        OBVIOUS
      <3>1. m.seq < Limit(d)
        BY DEF Numbers, InOrder
      <3>2. In(copy, m)
        BY <1>1, <2>2, <3>1 DEF Kept, Recent, copy
      <3> QED BY <1>5, <3>2
    <2> QED BY <1>1, <2>2, <2>3
  <1>14. ASSUME NEW n \in 1..MaxChanges, PlaceOf(n)' # PlaceOf(n)
         PROVE  \/ PlaceOf(n) = "waiting" /\ PlaceOf(n)' = "confirmed" /\ told[n] # {}
                \/ PlaceOf(n) = "unsure" /\ PlaceOf(n)' = "lost"
    <2>0. /\ (Held(n) <=> SomeHolds(n)) /\ (Held(n)' <=> SomeHolds(n)')
          /\ (Late(n) <=> SomeLate(n)) /\ (Late(n)' <=> SomeLate(n)')
      BY <1>1, HeldIs
    <2>1. CASE fate'[n] # fate[n]
      <3>1. PICK m \in Mutation : In(copy, m) /\ m.change = n
        BY <1>6, <2>1
      <3>2. fate[n] = "queued" /\ fate'[n] = "confirmed" /\ told[n] # {}
        BY <1>6, <2>1
      <3>3. In(device[d].pending, m) /\ Around(d, m)
        BY <1>5, <3>1, <3>2 DEF Kept, Resting
      <3>4. SomeHolds(n)
        BY <3>1, <3>3 DEF SomeHolds
      <3>5. ~SomeLate(n)
        <4> SUFFICES ASSUME NEW e \in Devices, NEW k \in Mutation, LateIn(e, k), k.change = n
                     PROVE  FALSE
          BY DEF SomeLate
        <4>1. Around(e, k)
          BY DEF LateIn, Around
        <4>2. e = d /\ k = m
          BY <3>1, <3>3, <4>1, OneOwner DEF Kept
        <4> QED BY <3>1, <4>2 DEF LateIn, copy
      <3>6. ~SomeHolds(n)'
        BY <1>12, <3>2 DEF SomeHolds, Waiting
      <3> QED BY <2>0, <3>2, <3>4, <3>5, <3>6 DEF PlaceOf
    <2>2. CASE fate'[n] = fate[n] /\ fate[n] # "queued"
      <3>1. ~SomeHolds(n) /\ ~SomeHolds(n)'
        BY <1>12, <2>2 DEF SomeHolds, Kept, Waiting
      <3> QED BY <1>14, <2>0, <2>2, <3>1 DEF PlaceOf
    <2>3. ASSUME fate'[n] = fate[n], fate[n] = "queued", NEW e \in Devices, e # d,
                 NEW m \in Mutation, In(device[e].pending, m), m.change = n
          PROVE  FALSE
      <3>1. Around(e, m) /\ In(device'[e].pending, m)
        BY <1>1, <2>3 DEF Around
      <3>2. SomeHolds(n) /\ SomeHolds(n)'
        BY <2>3, <3>1 DEF SomeHolds
      <3>3. SomeLate(n) => LateIn(e, m)
        <4> SUFFICES ASSUME NEW b \in Devices, NEW k \in Mutation, LateIn(b, k), k.change = n
                     PROVE  LateIn(e, m)
          BY DEF SomeLate
        <4>1. Around(b, k)
          BY DEF LateIn, Around
        <4> QED BY <2>3, <3>1, <4>1, OneOwner DEF Kept
      <3>4. SomeLate(n)' => LateIn(e, m)'
        <4> SUFFICES ASSUME NEW b \in Devices, NEW k \in Mutation, LateIn(b, k)', k.change = n
                     PROVE  LateIn(e, m)'
          BY DEF SomeLate
        <4>1. Around(b, k)
          BY <1>8 DEF LateIn, Around
        <4> QED BY <2>3, <3>1, <4>1, OneOwner DEF Kept
      <3>5. LateIn(e, m)' <=> LateIn(e, m)
        BY <1>1, <1>7, <2>3 DEF LateIn
      <3>6. (LateIn(e, m) => SomeLate(n)) /\ (LateIn(e, m)' => SomeLate(n)')
        BY <2>3 DEF SomeLate
      <3> QED BY <1>14, <2>0, <2>3, <3>2, <3>3, <3>4, <3>5, <3>6 DEF PlaceOf
    <2>4. CASE fate'[n] = fate[n] /\ fate[n] = "queued"
      <3>1. ~SomeHolds(n)'
        BY <1>1, <1>4, <2>3, <2>4 DEF SomeHolds
      <3>2. SomeHolds(n) => SomeLate(n)
        <4> SUFFICES ASSUME NEW e \in Devices, NEW m \in Mutation, In(device[e].pending, m), m.change = n
                     PROVE  SomeLate(n)
          BY DEF SomeHolds
        <4>1. e = d
          BY <2>3, <2>4
        <4>2. ~In(copy, m)
          BY <1>5, <2>4
        <4>3. LateIn(d, m)
          BY <1>9, <4>1, <4>2
        <4> QED BY <4>3 DEF SomeLate
      <3> QED BY <1>14, <2>0, <2>4, <3>1, <3>2 DEF PlaceOf
    <2> QED BY <2>1, <2>2, <2>4
  <1> QED BY <1>1, <1>11, <1>12, <1>13, <1>14

\* A commit answers what waits, or what was settled since, and once unless replays overlap.
LEMMA CommitTells ==
    ASSUME TInv, Heard, Numbers, Kept, ~overlapped => Consistent, [Next]_vars,
           NEW w \in Workers, Commit(w), NEW n \in 1..MaxChanges, told'[n] # told[n]
    PROVE  /\ PlaceOf(n) \in {"waiting", "confirmed", "dropped"}
           /\ \E a \in Statuses : told'[n] = told[n] \cup {a}
           /\ overlapped \/ told[n] = {}
  <1> DEFINE fr == frames[w]
             of == {j \in DOMAIN fr.batch : fr.batch[j].change = n}
  <1>1. /\ fr \in Replays /\ fr.pc = "mirror" /\ DOMAIN fr.results = DOMAIN fr.batch
        /\ told'[n] = told[n] \cup {fr.results[i] : i \in of} /\ overlapped' = overlapped
    BY CommitIs
  <1>2. PICK i \in of : TRUE
    BY <1>1
  <1>3. /\ fr.batch[i] \in Mutation /\ fr.device \in Devices /\ Around(fr.device, fr.batch[i])
        /\ fr.batch[i].change = n
    BY <1>1, <1>2, CarriedIs
  <1>4. ASSUME NEW j \in of PROVE j = i
    <2>1. fr.batch[j] \in Mutation /\ Around(fr.device, fr.batch[j]) /\ fr.batch[j].change = n
      BY <1>1, CarriedIs
    <2>2. fr.batch[j] = fr.batch[i]
      BY <1>3, <2>1 DEF Numbers, OneChange
    <2>3. Distinct(fr.batch)
      BY <1>1 DEF Numbers, Once
    <2> QED BY <1>2, <2>2, <2>3 DEF Distinct
  <1>5. told'[n] = told[n] \cup {fr.results[i]}
    BY <1>1, <1>2, <1>4
  <1>6. fr.results[i] \in Statuses
    BY <1>1, <1>2 DEF Replays
  <1>7. ASSUME ~overlapped PROVE told[n] = {}
    <2>1. \A a, b \in told'[n] : a = b
      BY <1>1, <1>7, ConsistentNext DEF Consistent, ToldOne
    <2> QED BY <1>5, <2>1
  <1>8. PlaceOf(n) \in {"waiting", "confirmed", "dropped"}
    <2> DEFINE d == fr.device
               m == fr.batch[i]
    <2>1. /\ m \in Mutation /\ d \in Devices /\ Around(d, m) /\ Sent(d, m) /\ m.change = n
          /\ m.seq < Limit(d) /\ TInv'
      BY <1>1, <1>2, <1>3, CarriedIs, NextTyped
    <2> HIDE DEF d, m, fr
    <2>2. fate[n] \in {"queued", "confirmed", "dropped"}
      BY <2>1 DEF Kept, Waiting
    <2>3. CASE fate[n] = "queued"
      <3>1. In(device[d].pending, m)
        BY <2>1, <2>3 DEF Kept, Resting
      <3>2. SomeHolds(n)
        BY <2>1, <3>1 DEF SomeHolds
      <3>3. ~SomeLate(n)
        <4> SUFFICES ASSUME NEW e \in Devices, NEW k \in Mutation, LateIn(e, k), k.change = n
                     PROVE  FALSE
          BY DEF SomeLate
        <4>1. Around(e, k)
          BY DEF LateIn, Around
        <4>2. e = d /\ k = m
          BY <2>1, <4>1, OneOwner DEF Kept
        <4> QED BY <2>1, <4>2 DEF LateIn, Kept, Recent
      <3> QED BY <2>1, <3>2, <3>3, HeldIs DEF PlaceOf
    <2>4. CASE fate[n] # "queued"
      <3>1. ~SomeHolds(n)
        BY <2>4 DEF SomeHolds, Kept, Waiting
      <3> QED BY <2>1, <2>2, <2>4, <3>1, HeldIs DEF PlaceOf
    <2> QED BY <2>3, <2>4
  <1> QED BY <1>5, <1>6, <1>7, <1>8

\* Some changes go from one place to another, the server tells nothing, nothing overlaps.
Shifts(from, to) == \A n \in 1..MaxChanges :
    PlaceOf(n)' # PlaceOf(n) => PlaceOf(n) \in from /\ PlaceOf(n)' = to

\* What a step may do to the places and the answers of the changes.
Still == \A n \in 1..MaxChanges : PlaceOf(n)' = PlaceOf(n)
Moved ==
    \/ Still /\ told' = told /\ overlapped' \in {overlapped, TRUE}
    \/ /\ MadeAs("waiting") \/ MadeAs("unsure")
       /\ UNCHANGED <<told, overlapped>>
    \/ MadeAs("online") /\ told' = told /\ overlapped' \in {overlapped, TRUE}
    \/ /\ Shifts({"waiting", "unsure"}, "dropped") \/ Shifts({"unsure"}, "waiting")
       /\ UNCHANGED <<told, overlapped>>
    \/ /\ \A n \in 1..MaxChanges : PlaceOf(n)' # PlaceOf(n) =>
            \/ PlaceOf(n) = "waiting" /\ PlaceOf(n)' = "confirmed" /\ told[n] # {}
            \/ PlaceOf(n) = "unsure" /\ PlaceOf(n)' = "lost"
       /\ UNCHANGED <<told, overlapped>>
    \/ /\ Still /\ overlapped' = overlapped
       /\ \A n \in 1..MaxChanges : told'[n] # told[n] =>
            /\ PlaceOf(n) \in {"waiting", "confirmed", "dropped"}
            /\ \E a \in Statuses : told'[n] = told[n] \cup {a}
            /\ overlapped \/ told[n] = {}

LEMMA KeptNext ==
    ASSUME TInv, Heard, Numbers, Known, ~overlapped => Consistent, Kept, [Next]_vars
    PROVE  Kept' /\ Moved
  <1>0. OneHome' /\ Answered' /\ Recent'
    BY HomeNext, AnsweredNext, RecentNext DEF Kept
  <1>1. TInv' /\ overlapped' \in {overlapped, TRUE}
    <2>1. TInv' /\ overlapped \in BOOLEAN /\ overlapped' \in BOOLEAN /\ (overlapped => overlapped')
      BY NextTyped, Untouched DEF TInv, Typed
    <2> QED BY <2>1
  <1> SUFFICES Made' /\ Waiting' /\ Resting' /\ Moved
    BY <1>0 DEF Kept
  <1>2. ASSUME UNCHANGED <<device, changes, fate>>,
               \A e \in Devices : \A m : Around(e, m)' => Around(e, m)
        PROVE  Made' /\ Waiting' /\ Resting'
    BY <1>2, Unsettled DEF Kept
  <1>3. ASSUME UNCHANGED <<device, fate>>, flush' = flush
        PROVE  Still
    <2>1. \A e \in Devices : \A m \in Mutation : LateIn(e, m)' <=> LateIn(e, m)
      BY <1>3 DEF LateIn
    <2> QED BY <1>1, <1>3, <2>1, Unmoved DEF Still
  <1>4. ASSUME UNCHANGED <<device, fate, told, overlapped>>,
               \A e \in Devices : flush'[e] = flush[e] \/ flush'[e].pc = "idle"
        PROVE  Moved
    <2>1. \A e \in Devices : \A m \in Mutation : LateIn(e, m)' => LateIn(e, m)
      BY <1>4 DEF LateIn
    <2>2. Shifts({"unsure"}, "waiting")
      BY <1>1, <1>4, <2>1, Loosened DEF Shifts
    <2> QED BY <1>4, <2>2 DEF Moved
  <1>5. ASSUME NEW d \in Devices, NEW doc \in Docs, Queues(d, doc)
        PROVE  Made' /\ Waiting' /\ Resting' /\ Moved
    BY <1>5, QueuedIs DEF Kept, Moved
  <1>6. ASSUME NEW d \in Devices, NEW doc \in Docs, ForgetDoc(d, doc)
        PROVE  Made' /\ Waiting' /\ Resting' /\ Moved
    BY <1>6, ForgottenIs DEF Kept, Moved, Shifts
  <1>7. ASSUME NEW d \in Devices, NEW w \in Workers, FlushBegins(d, w)
        PROVE  Made' /\ Waiting' /\ Resting' /\ Moved
    <2>1. PICK fl \in Flushes :
            /\ flush' = [flush EXCEPT ![d] = fl] /\ fl.copy = device[d] /\ flush[d].pc = "idle"
            /\ UNCHANGED <<device, changes, fate, told>>
      BY <1>7, FlushBeginsIs
    <2>2. \A e \in Devices : \A m : Around(e, m)' => Around(e, m)
      BY <1>7, FlushBeginsAround
    <2>3. \A e \in Devices : \A m \in Mutation : LateIn(e, m)' <=> LateIn(e, m)
      <3>1. flush'[d] = fl /\ \A e \in Devices : e # d => flush'[e] = flush[e]
        BY <2>1 DEF TInv, Typed
      <3> QED BY <2>1, <3>1 DEF LateIn
    <2>4. Still
      BY <1>1, <2>1, <2>3, Unmoved DEF Still
    <2> QED BY <1>1, <1>2, <2>1, <2>2, <2>4 DEF Moved
  <1>8. ASSUME NEW d \in Devices, FlushEnds(d)
        PROVE  Made' /\ Waiting' /\ Resting' /\ Moved
    BY <1>8, EndedIs DEF Moved
  <1>9. ASSUME NEW doc \in Docs, NEW f \in Fields, EditOnline(doc, f)
        PROVE  Made' /\ Waiting' /\ Resting' /\ Moved
    BY <1>1, <1>9, OnlineIs DEF Kept, Moved
  <1>10. ASSUME Quiet, NEW w \in Workers, Commit(w)
         PROVE  Made' /\ Waiting' /\ Resting' /\ Moved
    <2>1. /\ UNCHANGED <<device, changes, fate, overlapped>>
          /\ \A e \in Devices : flush'[e] = flush[e] \/
                (Waited(w, e) /\ flush'[e].copy = flush[e].copy /\ flush'[e].pc = "answered")
      BY <1>10, CommitIs
    <2>2. \A e \in Devices : \A m \in Mutation : LateIn(e, m)' <=> LateIn(e, m)
      <3>1. \A e \in Devices : Waited(w, e) => flush[e].pc # "idle"
        BY DEF Heard
      <3> QED BY <2>1, <3>1 DEF LateIn
    <2>3. Still
      BY <1>1, <2>1, <2>2, Unmoved DEF Still
    <2>4. \A n \in 1..MaxChanges : told'[n] # told[n] =>
            /\ PlaceOf(n) \in {"waiting", "confirmed", "dropped"}
            /\ \E a \in Statuses : told'[n] = told[n] \cup {a}
            /\ overlapped \/ told[n] = {}
      BY <1>10, CommitTells
    <2> QED BY <1>2, <1>10, <2>1, <2>3, <2>4, AroundQuiet DEF Moved
  <1>11. CASE UNCHANGED vars
    <2>1. UNCHANGED <<device, changes, fate, told, overlapped, flush, frames>>
      BY <1>11 DEF vars, serverVars, historyVars
    <2>2. \A e \in Devices : \A m : Around(e, m)' => Around(e, m)
      BY <2>1 DEF Around, Sent, Copies, Carries
    <2> QED BY <1>2, <1>3, <2>1, <2>2 DEF Moved
  <1>12. ASSUME Quiet, NEW d \in Devices, PostFails(d)
         PROVE  Made' /\ Waiting' /\ Resting' /\ Moved
    <2>1. /\ UNCHANGED <<device, changes, fate, told, overlapped>>
          /\ flush' = [flush EXCEPT ![d] = NoFlush] /\ NoFlush.pc = "idle"
      BY <1>12, PostFailsIs DEF historyVars
    <2>2. \A e \in Devices : flush'[e] = flush[e] \/ flush'[e].pc = "idle"
      BY <2>1 DEF TInv, Typed
    <2> QED BY <1>2, <1>4, <1>12, <2>1, <2>2, AroundQuiet
  <1>13. ASSUME Quiet, NEW w \in Workers, Goes(w)
         PROVE  Made' /\ Waiting' /\ Resting' /\ Moved
    <2>1. UNCHANGED <<device, flush, changes, fate, told, overlapped>>
      BY <1>13, GoesIs DEF Advance, historyVars
    <2> QED BY <1>2, <1>3, <1>13, <2>1, AroundQuiet DEF Moved
  <1>14. ASSUME Quiet, NEW w \in Workers, RollsBackAt(w)
         PROVE  Made' /\ Waiting' /\ Resting' /\ Moved
    <2>1. frames[w].pc # "idle" /\ RolledBack(w) /\ faults' \in 0..MaxFaults
      BY <1>14, RollsBack DEF RollsBackAt
    <2>2. /\ UNCHANGED <<device, changes, fate, told, overlapped>>
          /\ \A e \in Devices : flush'[e] = flush[e] \/ flush'[e] = NoFlush
      BY <2>1, RolledIs DEF historyVars
    <2>3. \A e \in Devices : flush'[e] = flush[e] \/ flush'[e].pc = "idle"
      BY <2>2, NoneIs
    <2> QED BY <1>2, <1>4, <1>14, <2>2, <2>3, AroundQuiet
  <1>15. CASE Quiet
    BY <1>5, <1>6, <1>7, <1>8, <1>9, <1>10, <1>11, <1>12, <1>13, <1>14, <1>15, Cases
  <1> QED BY <1>5, <1>6, <1>7, <1>8, <1>15, QuietCases

\* What the promise sees of a state.
Seen == [n \in 1..MaxChanges |-> PlaceOf(n)]

\* What a step makes of the changes is a step of the promise.
LEMMA MovedIs ==
    ASSUME TInv, TInv', Moved
    PROVE  [Promise!Next]_(Promise!vars)
  <1> DEFINE gone(to) == {n \in 1..MaxChanges : PlaceOf(n)' # PlaceOf(n) /\ PlaceOf(n)' = to}
  <1>0. /\ told' \in [1..MaxChanges -> SUBSET Statuses]
        /\ Promise!Changes = 1..MaxChanges
    BY DEF TInv, Typed, Promise!Changes
  <1>1. /\ Promise!vars = <<Seen, told, overlapped>>
        /\ Promise!vars' = <<Seen', told', overlapped'>>
    BY DEF Promise!vars, Seen
  <1>2. /\ Seen = [n \in 1..MaxChanges |-> PlaceOf(n)]
        /\ Seen' = [n \in 1..MaxChanges |-> PlaceOf(n)']
    BY DEF Seen
  <1>3. Still => Seen' = Seen
    BY <1>2 DEF Still
  <1>4. CASE Still /\ told' = told /\ overlapped' \in {overlapped, TRUE}
    <2>1. CASE overlapped' = overlapped
      BY <1>1, <1>3, <1>4, <2>1
    <2>2. CASE overlapped' = TRUE
      <3>1. Promise!Crowd
        BY <1>3, <1>4, <2>2 DEF Promise!Crowd, Seen
      <3> QED BY <3>1 DEF Promise!Next
    <2> QED BY <1>4, <2>1, <2>2
  <1>5. ASSUME NEW where, MadeAs(where), told' = told
        PROVE  Promise!Make(changes + 1, where) /\ changes + 1 \in Promise!Changes
    <2>1. /\ changes + 1 \in 1..MaxChanges /\ Seen[changes + 1] = "unmade"
          /\ \A k \in 1..MaxChanges : k < changes + 1 => Seen[k] # "unmade"
      BY <1>2, <1>5 DEF MadeAs
    <2>2. Seen' = [Seen EXCEPT ![changes + 1] = where]
      BY <1>2, <1>5 DEF MadeAs
    <2> QED BY <1>0, <1>5, <2>1, <2>2 DEF Promise!Make, Seen
  <1>6. CASE (MadeAs("waiting") \/ MadeAs("unsure")) /\ UNCHANGED <<told, overlapped>>
    <2>1. Promise!Take(changes + 1) /\ changes + 1 \in Promise!Changes
      BY <1>5, <1>6 DEF Promise!Take
    <2> QED BY <2>1 DEF Promise!Next
  <1>7. CASE MadeAs("online") /\ told' = told /\ overlapped' \in {overlapped, TRUE}
    <2>1. Promise!Online(changes + 1) /\ changes + 1 \in Promise!Changes
      BY <1>5, <1>7 DEF Promise!Online
    <2> QED BY <2>1 DEF Promise!Next
  <1>8. ASSUME NEW from, NEW to, Shifts(from, to), UNCHANGED <<told, overlapped>>
        PROVE  Promise!Move(gone(to), from, to) /\ gone(to) \in SUBSET Promise!Changes
    <2>1. \A n \in gone(to) : Seen[n] \in from
      BY <1>2, <1>8 DEF Shifts
    <2>2. Seen' = [n \in 1..MaxChanges |-> IF n \in gone(to) THEN to ELSE Seen[n]]
      BY <1>2, <1>8 DEF Shifts
    <2> QED BY <1>0, <1>8, <2>1, <2>2 DEF Promise!Move, Seen
  <1>9. CASE /\ Shifts({"waiting", "unsure"}, "dropped") \/ Shifts({"unsure"}, "waiting")
             /\ UNCHANGED <<told, overlapped>>
    <2>1. CASE Shifts({"waiting", "unsure"}, "dropped")
      <3>1. Promise!Withdraw(gone("dropped")) /\ gone("dropped") \in SUBSET Promise!Changes
        BY <1>8, <1>9, <2>1 DEF Promise!Withdraw
      <3> QED BY <3>1 DEF Promise!Next
    <2>2. CASE Shifts({"unsure"}, "waiting")
      <3>1. Promise!Keep(gone("waiting")) /\ gone("waiting") \in SUBSET Promise!Changes
        BY <1>8, <1>9, <2>2 DEF Promise!Keep
      <3> QED BY <3>1 DEF Promise!Next
    <2> QED BY <1>9, <2>1, <2>2
  <1>10. CASE /\ UNCHANGED <<told, overlapped>>
              /\ \A n \in 1..MaxChanges : PlaceOf(n)' # PlaceOf(n) =>
                    \/ PlaceOf(n) = "waiting" /\ PlaceOf(n)' = "confirmed" /\ told[n] # {}
                    \/ PlaceOf(n) = "unsure" /\ PlaceOf(n)' = "lost"
    <2> DEFINE some == gone("confirmed")
               late == gone("lost")
    <2>1. /\ \A n \in some : Seen[n] = "waiting" /\ told[n] # {}
          /\ \A n \in late : Seen[n] = "unsure"
      BY <1>2, <1>10
    <2>2. Seen' = [n \in 1..MaxChanges |-> IF n \in some THEN "confirmed"
                                           ELSE IF n \in late THEN "lost" ELSE Seen[n]]
      BY <1>2, <1>10
    <2>3. some \in SUBSET Promise!Changes /\ late \in SUBSET Promise!Changes
      BY <1>0
    <2> HIDE DEF some, late
    <2>4. Promise!Confirm(some, late)
      BY <1>0, <1>10, <2>1, <2>2 DEF Promise!Confirm, Seen
    <2> QED BY <2>3, <2>4 DEF Promise!Next
  <1>11. CASE /\ Still /\ overlapped' = overlapped
              /\ \A n \in 1..MaxChanges : told'[n] # told[n] =>
                    /\ PlaceOf(n) \in {"waiting", "confirmed", "dropped"}
                    /\ \E a \in Statuses : told'[n] = told[n] \cup {a}
                    /\ overlapped \/ told[n] = {}
    <2>1. \A n \in 1..MaxChanges : told'[n] # told[n] =>
                    /\ Seen[n] \in {"waiting", "confirmed", "dropped"}
                    /\ \E a \in Statuses : told'[n] = told[n] \cup {a}
                    /\ overlapped \/ told[n] = {}
      BY <1>2, <1>11
    <2>2. Promise!Answer
      BY <1>0, <1>3, <1>11, <2>1 DEF Promise!Answer, Seen
    <2> QED BY <2>2 DEF Promise!Next
  <1> QED BY <1>4, <1>6, <1>7, <1>9, <1>10, <1>11 DEF Moved

\* The synchronisation implements OfflinePromise: every step of devices, posts, replays,
\* rollbacks and faults makes a change, answers, keeps, confirms, loses or withdraws some as
\* the promise allows, crowds the server, or is a stutter.
THEOREM Implements == Spec => Refinement
  <1> DEFINE Inv == /\ TInv /\ Heard /\ Numbers /\ Known /\ (~overlapped => Consistent) /\ Kept
  <1>0. ASSUME Init
        PROVE  /\ \A d \in Devices : device[d].pending = <<>> /\ flush[d].pc = "idle"
               /\ \A w \in Workers : frames[w].pc = "idle"
               /\ fate = [n \in 1..MaxChanges |-> "unmade"] /\ told = [n \in 1..MaxChanges |-> {}]
               /\ changes = 0 /\ overlapped = FALSE
    BY <1>0, NoneIs DEF Init
  <1>1. Init => Inv
    <2> SUFFICES ASSUME Init PROVE Consistent /\ Kept
      BY InitTyped, InitNumbers
    <2>1. \A d \in Devices : \A m : ~Around(d, m)
      BY <1>0 DEF Around, Sent, Copies, Carries, In
    <2>2. Consistent
      <3>1. ToldNoted
        BY <2>1 DEF ToldNoted
      <3> QED BY <1>0, <3>1 DEF Consistent, OneLive, ToldOne, Untold, Agrees, Unnoted
    <2>3. OneHome /\ Waiting /\ Resting
      BY <2>1 DEF OneHome, Waiting, Resting, Around
    <2>4. Made /\ Answered /\ Recent
      BY <1>0, SyncAssumption DEF Made, Answered, Recent
    <2> QED BY <2>2, <2>3, <2>4 DEF Kept
  <1>2. Inv /\ [Next]_vars => Inv' /\ Moved
    <2> SUFFICES ASSUME Inv, [Next]_vars PROVE Inv' /\ Moved
      OBVIOUS
    <2>1. ~overlapped' => Consistent'
      BY ConsistentNext
    <2> QED BY <2>1, NextTyped, NumbersNext, KnownNext, KeptNext
  <1>3. Init => Promise!Init
    <2> SUFFICES ASSUME Init PROVE Promise!Init
      OBVIOUS
    <2>1. \A n \in 1..MaxChanges : PlaceOf(n) = "unmade"
      BY <1>0 DEF PlaceOf, Held, Pending, Range
    <2> QED BY <1>0, <2>1 DEF Promise!Init, Promise!Changes
  <1>4. Inv /\ Inv' /\ Moved => [Promise!Next]_(Promise!vars)
    BY MovedIs
  <1> HIDE DEF Inv
  <1> QED BY <1>1, <1>2, <1>3, <1>4, PTL DEF Spec, Refinement, Promise!Spec

=============================================================================
