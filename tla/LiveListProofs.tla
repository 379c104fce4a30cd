---------------------------- MODULE LiveListProofs ---------------------------
(* Proofs about LiveList: no row is listed twice; and a tab that subscribed *)
(* before it loaded its list follows the table once its changes are worked  *)
(* off.                                                                     *)
EXTENDS LiveList, PickTheorems, SequenceTheorems

-----------------------------------------------------------------------------
(* What the operators on a list return. *)

(* Versions are numbers, whatever the bound on the writes. *)
RowStates == {"never", "live", "hidden", "gone"}
StoredRow == [st: RowStates, ver: Nat]
Listed    == [id: Pks, ver: Nat]
Distinct(rows) == \A i, j \in DOMAIN rows : rows[i].id = rows[j].id => i = j

LEMMA ListOf ==
  ASSUME NEW S, NEW s \in Seq(S)
  PROVE  /\ Len(s) \in Nat /\ DOMAIN s = 1 .. Len(s)
         /\ \A i \in DOMAIN s : s[i] \in S
OBVIOUS

LEMMA IdsAre ==
  ASSUME NEW rows, NEW p
  PROVE  p \in Ids(rows) <=> \E r \in Contents(rows) : r.id = p
BY DEF Ids, Contents

LEMMA ContentsType ==
  ASSUME NEW rows \in Seq(Listed) PROVE Contents(rows) \subseteq Listed
BY ListOf DEF Contents

(* remove_list_row takes out the row, and no other. *)
LEMMA RemovedIs ==
  ASSUME NEW rows \in Seq(Listed), NEW p
  PROVE  /\ Removed(rows, p) \in Seq(Listed)
         /\ Contents(Removed(rows, p)) = { r \in Contents(rows) : r.id # p }
         /\ Distinct(rows) => Distinct(Removed(rows, p))
<1> DEFINE at == { i \in DOMAIN rows : rows[i].id # p }
           out == Removed(rows, p)
           n == Cardinality(at)
           pos == Positions(at)
<1>1. at \in SUBSET (DOMAIN rows) /\ out = Picked(rows, at)
  BY DEF Removed
<1> HIDE DEF out
<1>2. \A i \in at : rows[i].id # p
  OBVIOUS
<1>3. \A i \in DOMAIN rows : rows[i].id # p => i \in at
  OBVIOUS
<1> HIDE DEF at
<1>4. /\ out \in Seq(Listed) /\ n \in Nat /\ DOMAIN out = 1 .. n
      /\ pos \in [1 .. n -> at] /\ Increasing(pos)
  BY <1>1, PickedIs
<1>5. \A k \in at : \E i \in 1 .. n : pos[i] = k
  BY <1>1, PickedIs
<1>6. \A i \in 1 .. n : out[i] = rows[pos[i]]
  BY <1>1, PickedIs
<1> HIDE DEF n, pos
<1>7. Contents(out) = { r \in Contents(rows) : r.id # p }
  <2>1. \A i \in 1 .. n : pos[i] \in at /\ pos[i] \in DOMAIN rows
    BY <1>1, <1>4
  <2>2. ASSUME NEW r \in Contents(out)
        PROVE  r \in Contents(rows) /\ r.id # p
    <3>1. PICK i \in 1 .. n : r = out[i]
      BY <1>4 DEF Contents
    <3>2. r = rows[pos[i]] /\ pos[i] \in at /\ pos[i] \in DOMAIN rows
      BY <1>6, <2>1, <3>1
    <3>3. r \in Contents(rows)
      BY <3>2 DEF Contents
    <3> QED
      BY <1>2, <3>2, <3>3
  <2>3. ASSUME NEW r \in Contents(rows), r.id # p
        PROVE  r \in Contents(out)
    <3>1. PICK k \in DOMAIN rows : r = rows[k]
      BY DEF Contents
    <3>2. PICK i \in 1 .. n : pos[i] = k
      BY <1>3, <1>5, <2>3, <3>1
    <3>3. r = out[i] /\ i \in DOMAIN out
      BY <1>4, <1>6, <3>1, <3>2
    <3> QED
      BY <3>3 DEF Contents
  <2> QED
    BY <2>2, <2>3
<1>8. ASSUME Distinct(rows) PROVE Distinct(out)
  <2> SUFFICES ASSUME NEW i \in 1 .. n, NEW j \in 1 .. n, out[i].id = out[j].id
               PROVE  i = j
    BY <1>4 DEF Distinct
  <2>1. pos[i] = pos[j]
    BY <1>1, <1>4, <1>6, <1>8 DEF Distinct
  <2>2. at \subseteq Nat
    BY <1>1, ListOf
  <2>3. pos[i] \in Nat /\ pos[j] \in Nat
    BY <1>4, <2>2
  <2>4. ~(i < j) /\ ~(j < i)
    BY <1>4, <2>1, <2>3 DEF Increasing
  <2> QED
    BY <1>4, <2>4
<1> QED
  BY <1>4, <1>7, <1>8 DEF out

(* patch_list_row puts the row in its place, or at the end if it was        *)
(* created.                                                                 *)
LEMMA PatchedIs ==
  ASSUME NEW rows \in Seq(Listed), NEW row \in Listed, NEW wasCreate \in BOOLEAN
  PROVE  /\ Patched(rows, row, wasCreate) \in Seq(Listed)
         /\ Contents(Patched(rows, row, wasCreate)) =
              IF wasCreate \/ row.id \in Ids(rows)
              THEN { r \in Contents(rows) : r.id # row.id } \cup {row}
              ELSE Contents(rows)
         /\ Distinct(rows) => Distinct(Patched(rows, row, wasCreate))
<1> DEFINE out == Patched(rows, row, wasCreate)
<1>0. /\ Len(rows) \in Nat /\ DOMAIN rows = 1 .. Len(rows)
      /\ \A i \in DOMAIN rows : rows[i] \in Listed
  BY ListOf
<1>1. CASE row.id \in Ids(rows)
  <2>1. out = [i \in DOMAIN rows |-> IF rows[i].id = row.id THEN row ELSE rows[i]]
    BY <1>1 DEF Patched
  <2> HIDE DEF out
  <2>2. out \in [1 .. Len(rows) -> Listed]
    BY <1>0, <2>1
  <2>3. out \in Seq(Listed) /\ DOMAIN out = DOMAIN rows
    BY <1>0, <2>2
  <2>4. \A i \in DOMAIN rows : out[i] = IF rows[i].id = row.id THEN row ELSE rows[i]
    BY <2>1
  <2>5. PICK k \in DOMAIN rows : rows[k].id = row.id
    BY <1>1 DEF Ids
  <2>6. Contents(out) = { r \in Contents(rows) : r.id # row.id } \cup {row}
    <3>1. \A r \in Contents(out) : r = row \/ (r \in Contents(rows) /\ r.id # row.id)
      BY <2>3, <2>4 DEF Contents
    <3>2. \A r \in Contents(rows) : r.id # row.id => r \in Contents(out)
      BY <2>3, <2>4 DEF Contents
    <3>3. row \in Contents(out)
      BY <2>3, <2>4, <2>5 DEF Contents
    <3> QED
      BY <3>1, <3>2, <3>3
  <2>7. Distinct(rows) => Distinct(out)
    <3>1. \A i \in DOMAIN rows : out[i].id = rows[i].id
      BY <2>4
    <3> QED
      BY <2>3, <3>1 DEF Distinct
  <2> QED
    BY <1>1, <2>3, <2>6, <2>7 DEF out
<1>2. CASE row.id \notin Ids(rows) /\ wasCreate
  <2>1. out = Append(rows, row)
    BY <1>2 DEF Patched
  <2> HIDE DEF out
  <2>2. /\ out \in Seq(Listed) /\ DOMAIN out = 1 .. Len(rows) + 1
        /\ \A i \in 1 .. Len(rows) : out[i] = rows[i]
        /\ out[Len(rows) + 1] = row
    BY <1>0, <2>1
  <2>3. \A i \in 1 .. Len(rows) : rows[i].id # row.id
    BY <1>0, <1>2 DEF Ids
  <2>4. \A i \in DOMAIN out : i \in 1 .. Len(rows) \/ i = Len(rows) + 1
    BY <1>0, <2>2
  <2>5. Contents(out) = { r \in Contents(rows) : r.id # row.id } \cup {row}
    <3>1. \A r \in Contents(out) : r = row \/ (r \in Contents(rows) /\ r.id # row.id)
      BY <1>0, <2>2, <2>3, <2>4 DEF Contents
    <3>2. \A r \in Contents(rows) : r \in Contents(out)
      BY <1>0, <2>2 DEF Contents
    <3>3. row \in Contents(out)
      BY <1>0, <2>2 DEF Contents
    <3> QED
      BY <3>1, <3>2, <3>3
  <2>6. Distinct(rows) => Distinct(out)
    BY <1>0, <2>2, <2>3, <2>4 DEF Distinct
  <2> QED
    BY <1>2, <2>2, <2>5, <2>6 DEF out
<1>3. CASE row.id \notin Ids(rows) /\ ~wasCreate
  BY <1>3 DEF Patched
<1> QED
  BY <1>1, <1>2, <1>3

(* What a query returns: the elements of a set, each once. *)
LEMMA SetToSeqIs ==
  ASSUME NEW S, IsFiniteSet(S)
  PROVE  /\ SetToSeq(S) \in Seq(S)
         /\ Contents(SetToSeq(S)) = S
         /\ IsInjective(SetToSeq(S))
<1> DEFINE n == Cardinality(S)
           out == SetToSeq(S)
<1>1. n \in Nat /\ ExistsBijection(1 .. n, S)
  BY FS_CardinalityType
<1>2. PICK f \in Bijection(1 .. n, S) : TRUE
  BY <1>1 DEF ExistsBijection
<1>3. f \in [1 .. n -> S] /\ IsInjective(f)
  BY <1>2 DEF Bijection, Injection
<1>4. out \in [1 .. n -> S] /\ IsInjective(out)
  BY <1>3 DEF SetToSeq
<1> HIDE DEF out
<1>5. out \in Seq(S) /\ DOMAIN out = 1 .. n
  BY <1>1, <1>4
<1>6. out \in Injection(1 .. n, S)
  BY <1>4 DEF Injection
<1>7. out \in Surjection(1 .. n, S)
  <2>1. IsFiniteSet(1 .. n) /\ Cardinality(1 .. n) = n
    BY <1>1, FS_Interval
  <2> QED
    BY <1>6, <2>1, FS_Injection
<1>8. Contents(out) = S
  BY <1>4, <1>5, <1>7 DEF Surjection, Contents
<1> QED
  BY <1>4, <1>5, <1>8 DEF out

-----------------------------------------------------------------------------
(* Types, for any number of writes, and no row twice.                       *)

ThreadPCs == {"idle", "fetched", "signal", "sending", "commit", "done"}
ThreadRec == [pc: ThreadPCs, pk: Pks, kind: Kinds, row: StoredRow, to: SUBSET Tabs]
LiveRec   == [pc: {"off", "wait", "got"}, change: Change]
FgRec     == [pc: {"idle", "writing", "count", "fetch"},
              op: {"load", "create", "update", "delete"},
              pk: Pks, fresh: BOOLEAN]

Types ==
  /\ db \in [Pks -> StoredRow]
  /\ writes \in Nat
  /\ thread \in [Threads -> ThreadRec]
  /\ subs \subseteq Tabs
  /\ queue \in [Tabs -> Seq(Change)]
  /\ live \in [Tabs -> LiveRec]
  /\ fg \in [Tabs -> FgRec]
  /\ list \in [Tabs -> Seq(Listed)]
  /\ loaded \subseteq Tabs
  /\ raced \subseteq Tabs
  /\ undone \subseteq Pks
  /\ entered \in [Tabs -> SUBSET Pks]

AllDistinct == \A t \in Tabs : Distinct(list[t])

LEMMA AnyPkType == AnyPk \in Pks
BY ConstantsAssumption DEF AnyPk

LEMMA IdleTypes ==
  IdleThread \in ThreadRec /\ IdleFg \in FgRec /\ NoChange \in Change
BY AnyPkType DEF IdleThread, IdleFg, NoChange, ThreadRec, FgRec, Change, Kinds,
   ThreadPCs, StoredRow, RowStates, Absent

(* The table as a list: finite, its rows are Listed, an id is there once.   *)
LEMMA TableAsList ==
  ASSUME Types
  PROVE  /\ SetToSeq(Table) \in Seq(Listed)
         /\ Contents(SetToSeq(Table)) = Table
         /\ Distinct(SetToSeq(Table))
<1> DEFINE shown == { q \in Pks : Shown(q) }
           F == [p \in Pks |-> [id |-> p, ver |-> db[p].ver]]
           out == SetToSeq(Table)
<1>1. IsFiniteSet(shown)
  BY ConstantsAssumption, FS_Subset
<1>2. Table = { F[p] : p \in shown }
  BY DEF Table
<1>3. IsFiniteSet(Table)
  <2> DEFINE f == [p \in shown |-> F[p]]
  <2>1. f \in Surjection(shown, Table)
    BY <1>2 DEF Surjection
  <2> QED
    BY <1>1, <2>1, FS_Surjection
<1>4. Table \subseteq Listed
  BY DEF Table, Listed, Types, StoredRow
<1>5. \A r, q \in Table : r.id = q.id => r = q
  BY DEF Table
<1>6. out \in Seq(Table) /\ Contents(out) = Table /\ IsInjective(out)
  BY <1>3, SetToSeqIs
<1> HIDE DEF out
<1>7. out \in Seq(Listed)
  BY <1>4, <1>6
<1>8. \A i \in DOMAIN out : out[i] \in Table
  BY <1>6 DEF Contents
<1>9. Distinct(out)
  BY <1>5, <1>6, <1>8 DEF Distinct, IsInjective
<1> QED
  BY <1>6, <1>7, <1>9 DEF out

(* What a commit does to the rows an update has brought into the scope.     *)
LEMMA CommittedIs ==
  ASSUME Types, NEW p \in Pks, NEW row \in StoredRow, Committed(p, row)
  PROVE  /\ db' \in [Pks -> StoredRow] /\ entered' \in [Tabs -> SUBSET Pks]
         /\ db'[p] = row /\ \A q \in Pks \ {p} : db'[q] = db[q]
         /\ \A t \in Tabs : /\ row.st = "live" => entered[t] \subseteq entered'[t]
                            /\ row.st = "live" /\ db[p].st = "hidden" => p \in entered'[t]
                            /\ entered[t] \subseteq entered'[t] \cup {p}
<1>1. /\ db' \in [Pks -> StoredRow]
      /\ db'[p] = row /\ \A q \in Pks \ {p} : db'[q] = db[q]
  BY DEF Committed, Types
<1>2. \A t \in Tabs : /\ entered[t] \subseteq Pks
                     /\ entered'[t] = IF row.st # "live" THEN entered[t] \ {p}
                                      ELSE IF db[p].st = "hidden" THEN entered[t] \cup {p}
                                      ELSE entered[t]
  BY DEF Committed, Types
<1>3. \A t \in Tabs : entered'[t] \subseteq Pks
  BY <1>2
<1>4. entered' \in [Tabs -> SUBSET Pks]
  BY <1>3 DEF Committed
<1> QED
  BY <1>1, <1>2, <1>4

(* Each step writes well-typed threads.                                     *)
LEMMA WroteTypes ==
  ASSUME Types, NEW w \in Threads, NEW p \in Pks, NEW k \in Kinds,
         NEW row \in [st: RowStates, ver: {writes + 1}], Wrote(w, p, k, row)
  PROVE  /\ db' \in [Pks -> StoredRow] /\ writes' \in Nat
         /\ thread' \in [Threads -> ThreadRec] /\ entered' \in [Tabs -> SUBSET Pks]
<1>1. row \in StoredRow /\ writes' \in Nat
  BY DEF Types, Wrote, StoredRow
<1>2. db' \in [Pks -> StoredRow] /\ entered' \in [Tabs -> SUBSET Pks]
  BY <1>1, CommittedIs DEF Types, Wrote
<1>3. thread'[w] \in ThreadRec
  BY <1>1 DEF Types, Wrote, ThreadRec, ThreadPCs
<1>4. thread' \in [Threads -> ThreadRec]
  BY <1>3 DEF Types, Wrote
<1> QED
  BY <1>1, <1>2, <1>4

LEMMA RowWriteTypes ==
  ASSUME Types, NEW w \in Threads,
         (\E p \in Pks : Insert(w, p)) \/ Save(w) \/ Erase(w)
  PROVE  /\ db' \in [Pks -> StoredRow] /\ writes' \in Nat
         /\ thread' \in [Threads -> ThreadRec] /\ entered' \in [Tabs -> SUBSET Pks]
<1>1. \A st \in RowStates :
        [st |-> st, ver |-> writes + 1] \in [st: RowStates, ver: {writes + 1}]
  OBVIOUS
<1>2. \A p \in Pks : SavedKind(p) \in Kinds
  BY DEF SavedKind, Kinds
<1>3. CASE \E p \in Pks : Insert(w, p)
  <2>1. PICK p \in Pks, st \in {"live", "hidden"} :
          Wrote(w, p, SavedKind(p), [st |-> st, ver |-> writes + 1])
    BY <1>3 DEF Insert
  <2>2. st \in RowStates
    BY DEF RowStates
  <2> QED
    BY <1>1, <1>2, <2>1, <2>2, WroteTypes
<1>4. CASE Save(w)
  <2>1. thread[w].pk \in Pks
    BY DEF Types, ThreadRec
  <2>2. PICK st \in {"live", "hidden"} :
          Wrote(w, thread[w].pk, SavedKind(thread[w].pk), [st |-> st, ver |-> writes + 1])
    BY <1>4 DEF Save
  <2>3. st \in RowStates
    BY DEF RowStates
  <2> QED
    BY <1>1, <1>2, <2>1, <2>2, <2>3, WroteTypes
<1>5. CASE Erase(w)
  <2>1. thread[w].pk \in Pks /\ "gone" \in RowStates /\ "deleted" \in Kinds
    BY DEF Types, ThreadRec, RowStates, Kinds
  <2>2. Wrote(w, thread[w].pk, "deleted", [st |-> "gone", ver |-> writes + 1])
    BY <1>5 DEF Erase
  <2> QED
    BY <1>1, <2>1, <2>2, WroteTypes
<1> QED
  BY <1>3, <1>4, <1>5

LEMMA GetTypes ==
  ASSUME Types, NEW w \in Threads, NEW p \in Pks, NEW k \in Kinds, Get(w, p, k)
  PROVE  thread' \in [Threads -> ThreadRec] /\ UNCHANGED <<db, writes, entered>>
<1>1. thread'[w] \in ThreadRec
  BY AnyPkType DEF Get, Types, IdleThread, ThreadRec, ThreadPCs, StoredRow,
     RowStates, Absent, Kinds
<1> QED
  BY <1>1 DEF Get, Types

LEMMA ThreadStepTypes ==
  ASSUME Types, NEW w \in Threads, ThreadStep(w)
  PROVE  Types'
<1>1. thread[w] \in ThreadRec /\ subs \in SUBSET Tabs
  BY DEF Types
<1>2. Finished(w) \in ThreadRec
  BY <1>1, IdleTypes DEF Finished, ThreadRec, ThreadPCs
<1>3. CASE Publish(w)
  <2>1. thread'[w] \in ThreadRec
    BY <1>1, <1>3 DEF Publish, Types, ThreadRec, ThreadPCs
  <2> QED
    BY <1>3, <2>1 DEF Publish, Types
<1>4. CASE \E t \in Tabs : Send(w, t)
  <2> PICK t \in Tabs : Send(w, t)
    BY <1>4
  <2>1. thread'[w] \in ThreadRec
    BY <1>1 DEF Send, Types, ThreadRec
  <2>2. [pk |-> thread[w].pk, kind |-> thread[w].kind] \in Change
    BY <1>1 DEF ThreadRec, Change
  <2>3. queue' \in [Tabs -> Seq(Change)]
    BY <2>2 DEF Send, Types
  <2> QED
    BY <2>1, <2>3 DEF Send, Types
<1>5. CASE Sent(w)
  <2>1. thread'[w] \in ThreadRec
    BY <1>1, <1>2, <1>5 DEF Sent, Types, ThreadRec, ThreadPCs
  <2> QED
    BY <1>5, <2>1 DEF Sent, Types
<1>6. CASE EndTransaction(w)
  <2>1. thread[w].row \in StoredRow /\ thread[w].pk \in Pks
    BY <1>1 DEF ThreadRec
  <2>2. db' \in [Pks -> StoredRow] /\ entered' \in [Tabs -> SUBSET Pks]
    BY <1>6, <2>1, CommittedIs DEF EndTransaction, Types
  <2>3. raced' \subseteq Tabs /\ undone' \subseteq Pks
    BY <1>6, <2>1 DEF EndTransaction, Types
  <2> QED
    BY <1>2, <1>6, <2>2, <2>3 DEF EndTransaction, Types
<1> QED
  BY <1>3, <1>4, <1>5, <1>6 DEF ThreadStep

(* Applying a change keeps a list a list.                                   *)
LEMMA AppliedIs ==
  ASSUME Types, NEW t \in Tabs, NEW c \in Change
  PROVE  /\ Applied(t, c) \in Seq(Listed)
         /\ Distinct(list[t]) => Distinct(Applied(t, c))
<1>1. [id |-> c.pk, ver |-> db[c.pk].ver] \in Listed
  BY DEF Types, Change, StoredRow, Listed
<1>2. list[t] \in Seq(Listed) /\ (c.kind = "created") \in BOOLEAN
  BY DEF Types
<1>3. CASE c.kind = "deleted" \/ ~Shown(c.pk)
  BY <1>2, <1>3, RemovedIs DEF Applied
<1>4. CASE ~(c.kind = "deleted" \/ ~Shown(c.pk))
  BY <1>1, <1>2, <1>4, PatchedIs DEF Applied
<1> QED
  BY <1>3, <1>4

LEMMA ListSetTypes ==
  ASSUME Types, AllDistinct, NEW t \in Tabs, NEW rows \in Seq(Listed), Distinct(rows),
         ListSet(t, rows)
  PROVE  /\ list' \in [Tabs -> Seq(Listed)] /\ loaded' \subseteq Tabs
         /\ raced' \subseteq Tabs /\ fg' \in [Tabs -> FgRec]
         /\ entered' \in [Tabs -> SUBSET Pks]
         /\ AllDistinct'
<1>1. list' \in [Tabs -> Seq(Listed)]
  BY DEF ListSet, Types
<1>2. loaded' \subseteq Tabs /\ raced' \subseteq Tabs /\ entered' \in [Tabs -> SUBSET Pks]
  BY DEF ListSet, Types
<1>3. fg' \in [Tabs -> FgRec]
  BY IdleTypes DEF ListSet, Types
<1>4. \A x \in Tabs : list'[x] = IF x = t THEN rows ELSE list[x]
  BY DEF ListSet, Types
<1>5. \A x \in Tabs : Distinct(list'[x])
  BY <1>4 DEF AllDistinct
<1> QED
  BY <1>1, <1>2, <1>3, <1>5 DEF AllDistinct

LEMMA EmptyList == <<>> \in Seq(Listed) /\ Distinct(<<>>) /\ Contents(<<>>) = {}
BY DEF Distinct, Contents

LEMMA TabStepTypes ==
  ASSUME Types, AllDistinct, NEW t \in Tabs, TabStep(t)
  PROVE  Types' /\ AllDistinct'
<1> t \in Threads
  BY DEF Threads
<1>0. live[t] \in LiveRec /\ fg[t] \in FgRec /\ thread[t] \in ThreadRec /\ list[t] \in Seq(Listed)
  BY DEF Types
<1>1. CASE TakeChange(t)
  <2>1. Head(queue[t]) \in Change /\ Tail(queue[t]) \in Seq(Change)
    BY <1>1 DEF TakeChange, Types
  <2>2. live' \in [Tabs -> LiveRec] /\ queue' \in [Tabs -> Seq(Change)]
    BY <1>1, <2>1 DEF TakeChange, Types, LiveRec
  <2> QED
    BY <1>1, <2>2 DEF TakeChange, Types, AllDistinct
<1>2. CASE ApplyChange(t)
  <2> DEFINE c == live[t].change
             rows == Applied(t, c)
  <2>1. c \in Change
    BY <1>0 DEF LiveRec
  <2>2. rows \in Seq(Listed) /\ Distinct(rows)
    BY <2>1, AppliedIs DEF AllDistinct
  <2>3. list' = [list EXCEPT ![t] = rows]
    BY <1>2 DEF ApplyChange
  <2> HIDE DEF rows
  <2>4. list' \in [Tabs -> Seq(Listed)]
    BY <2>2, <2>3 DEF Types
  <2>5. \A x \in Tabs : list'[x] = IF x = t THEN rows ELSE list[x]
    BY <2>3 DEF Types
  <2>6. AllDistinct'
    BY <2>2, <2>5 DEF AllDistinct
  <2>7. live' \in [Tabs -> LiveRec]
    BY <1>2, IdleTypes DEF ApplyChange, Types, LiveRec
  <2>8. raced' \subseteq Tabs
    BY <1>2 DEF ApplyChange, Types
  <2> QED
    BY <1>2, <2>4, <2>6, <2>7, <2>8 DEF ApplyChange, Types
<1>3. CASE CountRows(t)
  <2>1. CASE \E p \in Pks : Shown(p)
    <3>1. fg' = [fg EXCEPT ![t].pc = "fetch"]
      BY <1>3, <2>1 DEF CountRows
    <3>2. fg' \in [Tabs -> FgRec]
      BY <1>0, <3>1 DEF Types, FgRec
    <3> QED
      BY <1>3, <2>1, <3>2 DEF CountRows, Types, AllDistinct
  <2>2. CASE ~(\E p \in Pks : Shown(p))
    <3>1. ListSet(t, <<>>)
      BY <1>3, <2>2 DEF CountRows
    <3> QED
      BY <1>3, <3>1, EmptyList, ListSetTypes DEF CountRows, Types
  <2> QED
    BY <2>1, <2>2
<1>4. CASE FetchRows(t)
  <2>1. ListSet(t, SetToSeq(Table))
    BY <1>4 DEF FetchRows
  <2> QED
    BY <1>4, <2>1, TableAsList, ListSetTypes DEF FetchRows, Types
<1>5. CASE OwnWrite(t)
  <2>1. /\ db' \in [Pks -> StoredRow] /\ writes' \in Nat
        /\ thread' \in [Threads -> ThreadRec] /\ entered' \in [Tabs -> SUBSET Pks]
    BY <1>5, RowWriteTypes DEF OwnWrite
  <2>2. fg' \in [Tabs -> FgRec]
    BY <1>0, <1>5 DEF OwnWrite, Types, FgRec
  <2> QED
    BY <1>5, <2>1, <2>2 DEF OwnWrite, Types, AllDistinct
<1>6. CASE PatchOwn(t)
  <2> DEFINE p == fg[t].pk
             row == [id |-> p, ver |-> thread[t].row.ver]
             cr == fg[t].op = "create"
             rows == IF fg[t].op = "delete" THEN Removed(list[t], p)
                     ELSE Patched(list[t], row, cr)
  <2>1. row \in Listed /\ cr \in BOOLEAN
    BY <1>0 DEF FgRec, ThreadRec, StoredRow, Listed
  <2>2. rows \in Seq(Listed) /\ Distinct(rows)
    <3>1. CASE fg[t].op = "delete"
      BY <1>0, <3>1, RemovedIs DEF AllDistinct
    <3>2. CASE fg[t].op # "delete"
      <4> HIDE DEF row, cr
      <4>1. rows = Patched(list[t], row, cr)
        BY <3>2
      <4> QED
        BY <1>0, <2>1, <4>1, PatchedIs DEF AllDistinct
    <3> QED
      BY <3>1, <3>2
  <2>3. list' = list \/ list' = [list EXCEPT ![t] = rows]
    BY <1>6 DEF PatchOwn
  <2> HIDE DEF rows
  <2>4. list' \in [Tabs -> Seq(Listed)]
    BY <2>2, <2>3 DEF Types
  <2>5. \A x \in Tabs : list'[x] = list[x] \/ list'[x] = rows
    BY <2>3 DEF Types
  <2>6. AllDistinct'
    BY <2>2, <2>5 DEF AllDistinct
  <2>7. fg' \in [Tabs -> FgRec]
    <3>1. fg' = [fg EXCEPT ![t].pc = "count"] \/ fg' = [fg EXCEPT ![t] = IdleFg]
      BY <1>6 DEF PatchOwn
    <3>2. [fg EXCEPT ![t].pc = "count"] \in [Tabs -> FgRec]
      BY <1>0 DEF Types, FgRec
    <3>3. [fg EXCEPT ![t] = IdleFg] \in [Tabs -> FgRec]
      BY IdleTypes DEF Types
    <3> QED
      BY <3>1, <3>2, <3>3
  <2>8. thread' \in [Threads -> ThreadRec]
    BY <1>6, IdleTypes DEF PatchOwn, Types
  <2> QED
    BY <1>6, <2>4, <2>6, <2>7, <2>8 DEF PatchOwn, Types
<1> QED
  BY <1>1, <1>2, <1>3, <1>4, <1>5, <1>6 DEF TabStep

LEMMA VisitTypes ==
  ASSUME Types, AllDistinct, NEW t \in Tabs,
         \/ LiveSubscribe(t) \/ StartLoad(t) \/ Leave(t)
         \/ \E op \in {"create", "update", "delete"}, p \in Pks : StartWrite(t, op, p)
  PROVE  Types' /\ AllDistinct'
<1> t \in Threads
  BY DEF Threads
<1>0. live[t] \in LiveRec /\ fg[t] \in FgRec
  BY DEF Types
<1>1. CASE LiveSubscribe(t)
  <2>1. subs' \subseteq Tabs /\ queue' \in [Tabs -> Seq(Change)]
    BY <1>1 DEF LiveSubscribe, Types
  <2>2. live' \in [Tabs -> LiveRec]
    BY <1>0, <1>1 DEF LiveSubscribe, Types, LiveRec
  <2> QED
    BY <1>1, <2>1, <2>2 DEF LiveSubscribe, Types, AllDistinct
<1>2. CASE StartLoad(t)
  <2>1. fg'[t] \in FgRec
    BY <1>2, AnyPkType DEF StartLoad, IdleFg, Types, FgRec
  <2>2. fg' \in [Tabs -> FgRec]
    BY <1>2, <2>1 DEF StartLoad, Types
  <2> QED
    BY <1>2, <2>2 DEF StartLoad, Types, AllDistinct
<1>3. CASE Leave(t)
  <2>1. subs' \subseteq Tabs /\ loaded' \subseteq Tabs /\ queue' \in [Tabs -> Seq(Change)]
    BY <1>3 DEF Leave, Types
  <2>2. live' \in [Tabs -> LiveRec] /\ fg' \in [Tabs -> FgRec]
    BY <1>0, <1>3, IdleTypes DEF Leave, Types, LiveRec, FgRec
  <2>a. \A w \in Threads : thread[w] \in ThreadRec
    BY DEF Types
  <2>3. \A w \in Threads : [thread[w] EXCEPT !.to = @ \ {t}] \in ThreadRec
    BY <2>a DEF ThreadRec
  <2>4. thread' \in [Threads -> ThreadRec]
    BY <1>3, <2>3 DEF Leave
  <2> QED
    BY <1>3, <2>1, <2>2, <2>4 DEF Leave, Types, AllDistinct
<1>4. CASE \E op \in {"create", "update", "delete"}, p \in Pks : StartWrite(t, op, p)
  <2> PICK op \in {"create", "update", "delete"}, p \in Pks : StartWrite(t, op, p)
    BY <1>4
  <2>1. fg' \in [Tabs -> FgRec]
    BY DEF StartWrite, Types, FgRec
  <2>2. Insert(t, p) \/ Get(t, p, "updated") \/ Get(t, p, "deleted")
    BY DEF StartWrite
  <2>3. "updated" \in Kinds /\ "deleted" \in Kinds
    BY DEF Kinds
  <2>4. /\ db' \in [Pks -> StoredRow] /\ writes' \in Nat
        /\ thread' \in [Threads -> ThreadRec] /\ entered' \in [Tabs -> SUBSET Pks]
    BY <2>2, <2>3, RowWriteTypes, GetTypes DEF Types
  <2> QED
    BY <2>1, <2>4 DEF StartWrite, Types, AllDistinct
<1> QED
  BY <1>1, <1>2, <1>3, <1>4

LEMMA TypesInit ==
  ASSUME Init PROVE Types /\ AllDistinct
<1>1. Types
  BY IdleTypes DEF Init, Types, StoredRow, RowStates, Absent, LiveRec
<1>2. AllDistinct
  BY EmptyList DEF Init, AllDistinct
<1> QED
  BY <1>1, <1>2

LEMMA TypesNext ==
  ASSUME Types, AllDistinct, [Next]_vars
  PROVE  Types' /\ AllDistinct'
<1>1. ASSUME NEW w \in Writers, OtherWrites(w) PROVE Types' /\ AllDistinct'
  <2>1. w \in Threads
    BY DEF Threads
  <2>2. "updated" \in Kinds /\ "deleted" \in Kinds
    BY DEF Kinds
  <2>3. /\ db' \in [Pks -> StoredRow] /\ writes' \in Nat
        /\ thread' \in [Threads -> ThreadRec] /\ entered' \in [Tabs -> SUBSET Pks]
    BY <1>1, <2>1, <2>2, RowWriteTypes, GetTypes DEF OtherWrites, Types
  <2> QED
    BY <1>1, <2>3 DEF OtherWrites, Types, AllDistinct
<1>2. ASSUME NEW w \in Threads, ThreadStep(w) PROVE Types' /\ AllDistinct'
  <2>1. list' = list
    BY <1>2 DEF ThreadStep, Publish, Send, Sent, EndTransaction
  <2> QED
    BY <1>2, <2>1, ThreadStepTypes DEF AllDistinct
<1>3. CASE UNCHANGED vars
  BY <1>3 DEF vars, Types, AllDistinct
<1> QED
  BY <1>1, <1>2, <1>3, TabStepTypes, VisitTypes DEF Next

(* apply_live_change (live/state.py) and a save of the tab patch one list   *)
(* (state/mixins/list.py): whatever is created, changed or deleted, by      *)
(* whomever, and whenever its change arrives, a row is in the list once.    *)
THEOREM RowsListedOnce == Spec => []NoDuplicateRows
<1>1. Init => Types /\ AllDistinct
  BY TypesInit
<1>2. (Types /\ AllDistinct) /\ [Next]_vars => (Types /\ AllDistinct)'
  BY TypesNext
<1>3. AllDistinct => NoDuplicateRows
  BY DEF AllDistinct, Distinct, NoDuplicateRows
<1> QED
  BY <1>1, <1>2, <1>3, PTL DEF Spec

-----------------------------------------------------------------------------
(* Why a list may differ from the table.  The operators take the parts of   *)
(* the state they are about as arguments: th the threads, d the table, s    *)
(* the changes a tab has received and not applied, f its foreground event.  *)

Pend(l, q) == IF l.pc = "got" THEN <<l.change>> \o q ELSE q
Awaits(s, p, k) == \E i \in DOMAIN s : s[i].pk = p /\ s[i].kind = k

(* The writes of w are not committed; t has been sent its change.           *)
Open(th, w) ==
  th[w].pc \in {"signal", "sending", "commit"} /\ InTransaction(w, th[w].kind)
Passed(th, w, t) ==
  th[w].pc = "commit" \/ (th[w].pc = "sending" /\ t \notin th[w].to)

(* A change that will still be sent to t.                                   *)
Coming(th, t, p, k) == \E w \in Threads :
  /\ th[w].pk = p /\ th[w].kind = k
  /\ th[w].pc = "signal" \/ (th[w].pc = "sending" /\ t \in th[w].to)

OpenWrite(th, p, k) == \E w \in Threads :
  Open(th, w) /\ th[w].pk = p /\ th[w].kind = k

(* The last deletion in s is followed by a creation.                        *)
Answered(s, p) == \A i \in DOMAIN s :
  s[i].pk = p /\ s[i].kind = "deleted" =>
    \E j \in DOMAIN s : j > i /\ s[j].pk = p /\ s[j].kind = "created"

(* Every deletion of a row that came back is answered, unless the row is    *)
(* being deleted again or its creation is still to be sent.                 *)
DeletionsAnswered(d, th, un, t, s) == \A p \in Pks \ un :
  /\ d[p].st \in {"live", "hidden"} \/ OpenWrite(th, p, "created")
  /\ ~OpenWrite(th, p, "deleted")
  /\ ~Coming(th, t, p, "created")
  => Answered(s, p)

(* A row of the table that is not listed is being deleted, or will be       *)
(* heard of, or is one whose deletion will be heard of and was undone, or   *)
(* one that an update brought into the scope.                               *)
MissingExplained(d, th, un, en, t, s, rows) == \A p \in Pks :
  d[p].st = "live" /\ p \notin Ids(rows) =>
    \/ OpenWrite(th, p, "deleted")
    \/ Coming(th, t, p, "created")
    \/ Awaits(s, p, "created")
    \/ p \in un /\ Awaits(s, p, "deleted")
    \/ p \in en

(* A listed row is as in the table, or a change of it will be heard of.     *)
ListedExplained(d, th, t, s, rows) == \A e \in Contents(rows) :
  \/ d[e.id].st = "live" /\ d[e.id].ver = e.ver
  \/ \E k \in Kinds : Coming(th, t, e.id, k) \/ Awaits(s, e.id, k)

(* A change sent before its commit is still to be applied, or is a deletion *)
(* of a row that is not listed and that the tab is not about to list.       *)
EarlyAwaited(th, f, t, s, rows) == \A w \in Threads :
  Open(th, w) /\ Passed(th, w, t) =>
    \/ Awaits(s, th[w].pk, th[w].kind)
    \/ /\ th[w].kind = "deleted"
       /\ th[w].pk \notin Ids(rows)
       /\ ~(f.pc = "writing" /\ f.pk = th[w].pk /\ th[t].pc # "fetched")

(* The tab's own write comes back to it as a change, after the foreground   *)
(* event: until then no change is applied.                                  *)
OwnAwaited(th, f, t, s) ==
  f.pc = "writing" /\ (Passed(th, t, t) \/ th[t].pc = "done") =>
    Awaits(s, th[t].pk, th[t].kind)

ThreadOk(d, th, su, w) ==
  /\ th[w].to \subseteq su
  /\ th[w].pc = "done" => w \in Tabs
  /\ th[w].pc = "fetched" => th[w].kind # "created"
  /\ th[w].pc = "commit" => Open(th, w)
  /\ Open(th, w) /\ th[w].kind = "updated" => d[th[w].pk].st \in {"live", "hidden"}
  /\ th[w].pc \in {"signal", "sending", "commit"} =>
       (th[w].kind = "deleted" <=> th[w].row.st = "gone")

(* The database locks a row for one transaction.                            *)
LockedOnce(th) == \A w, x \in Threads :
  Open(th, w) /\ Open(th, x) /\ th[w].pk = th[x].pk => w = x

TabOk(th, su, l, q, f, t) ==
  /\ f.pc = "writing" => /\ th[t].pc # "idle" /\ th[t].pk = f.pk
                         /\ f.op = "delete" <=> th[t].kind = "deleted"
  /\ f.pc # "writing" => th[t].pc = "idle"
  /\ l.pc = "off" <=> t \notin su
  /\ t \notin su => q = <<>>
  /\ f.fresh => t \in su

Heard(t) == Pend(live[t], queue[t])
Reliable == (subs \cap loaded) \ raced

Structure ==
  /\ loaded \subseteq subs
  /\ LockedOnce(thread)
  /\ \A w \in Threads : ThreadOk(db, thread, subs, w)
  /\ \A t \in Tabs : TabOk(thread, subs, live[t], queue[t], fg[t], t)

Explained ==
  /\ \A t \in subs : DeletionsAnswered(db, thread, undone, t, Heard(t))
  /\ \A t \in subs \cap loaded : OwnAwaited(thread, fg[t], t, Heard(t))
  /\ \A t \in Reliable :
       /\ MissingExplained(db, thread, undone, entered[t], t, Heard(t), list[t])
       /\ ListedExplained(db, thread, t, Heard(t), list[t])
       /\ EarlyAwaited(thread, fg[t], t, Heard(t), list[t])

SyncInv == Types /\ Structure /\ Explained

(* What a tab has heard of after a change is put, taken or applied.         *)
LEMMA SeqFacts ==
  ASSUME NEW S, NEW s \in Seq(S), NEW c \in S
  PROVE  /\ Append(s, c) \in Seq(S) /\ DOMAIN Append(s, c) = 1 .. Len(s) + 1
         /\ \A i \in 1 .. Len(s) : Append(s, c)[i] = s[i]
         /\ Append(s, c)[Len(s) + 1] = c
OBVIOUS
LEMMA TailFacts ==
  ASSUME NEW S, NEW s \in Seq(S), s # <<>>
  PROVE  /\ Head(s) \in S /\ Tail(s) \in Seq(S)
         /\ Head(s) = s[1] /\ Len(s) \in Nat /\ 1 \in 1 .. Len(s)
         /\ DOMAIN Tail(s) = 1 .. Len(s) - 1
         /\ \A i \in 1 .. Len(s) - 1 : Tail(s)[i] = s[i + 1]
OBVIOUS

LEMMA AwaitsAppend ==
  ASSUME NEW s \in Seq(Change), NEW c \in Change, NEW p, NEW k
  PROVE  Awaits(Append(s, c), p, k) <=> Awaits(s, p, k) \/ (c.pk = p /\ c.kind = k)
<1> DEFINE z == Append(s, c)
<1>1. /\ Len(s) \in Nat /\ DOMAIN s = 1 .. Len(s)
      /\ DOMAIN z = 1 .. Len(s) + 1
      /\ \A i \in 1 .. Len(s) : z[i] = s[i]
      /\ z[Len(s) + 1] = c
  BY SeqFacts
<1> HIDE DEF z
<1>2. \A i \in DOMAIN z : i \in 1 .. Len(s) \/ i = Len(s) + 1
  BY <1>1
<1>3. Awaits(z, p, k) => Awaits(s, p, k) \/ (c.pk = p /\ c.kind = k)
  BY <1>1, <1>2 DEF Awaits
<1>4. Awaits(s, p, k) => Awaits(z, p, k)
  BY <1>1 DEF Awaits
<1>5. c.pk = p /\ c.kind = k => Awaits(z, p, k)
  BY <1>1 DEF Awaits
<1> QED
  BY <1>3, <1>4, <1>5 DEF z

LEMMA AwaitsTail ==
  ASSUME NEW s \in Seq(Change), s # <<>>, NEW p, NEW k
  PROVE  Awaits(s, p, k) <=>
           Awaits(Tail(s), p, k) \/ (Head(s).pk = p /\ Head(s).kind = k)
<1> DEFINE z == Tail(s)
<1>1. /\ Len(s) \in Nat /\ DOMAIN s = 1 .. Len(s)
      /\ DOMAIN z = 1 .. Len(s) - 1
      /\ \A i \in 1 .. Len(s) - 1 : z[i] = s[i + 1]
      /\ Head(s) = s[1] /\ 1 \in 1 .. Len(s)
  BY TailFacts
<1> HIDE DEF z
<1>2. \A i \in DOMAIN s : i = 1 \/ (i - 1 \in DOMAIN z /\ z[i - 1] = s[i])
  BY <1>1
<1>3. Awaits(s, p, k) => Awaits(z, p, k) \/ (Head(s).pk = p /\ Head(s).kind = k)
  BY <1>1, <1>2 DEF Awaits
<1>4. Awaits(z, p, k) => Awaits(s, p, k)
  <2> SUFFICES ASSUME NEW i \in DOMAIN z, z[i].pk = p, z[i].kind = k
               PROVE  Awaits(s, p, k)
    BY DEF Awaits
  <2>1. i + 1 \in DOMAIN s /\ s[i + 1] = z[i]
    BY <1>1
  <2> QED
    BY <2>1 DEF Awaits
<1>5. Head(s).pk = p /\ Head(s).kind = k => Awaits(s, p, k)
  BY <1>1 DEF Awaits
<1> QED
  BY <1>3, <1>4, <1>5 DEF z

(* A change put at the end keeps the deletions answered, unless it is one.  *)
LEMMA AnsweredAppend ==
  ASSUME NEW s \in Seq(Change), NEW c \in Change, NEW p,
         \/ Answered(s, p) /\ ~(c.pk = p /\ c.kind = "deleted")
         \/ c.pk = p /\ c.kind = "created"
  PROVE  Answered(Append(s, c), p)
<1> DEFINE z == Append(s, c)
<1>1. /\ Len(s) \in Nat /\ DOMAIN s = 1 .. Len(s)
      /\ DOMAIN z = 1 .. Len(s) + 1
      /\ \A i \in 1 .. Len(s) : z[i] = s[i]
      /\ z[Len(s) + 1] = c
  BY SeqFacts
<1> HIDE DEF z
<1> SUFFICES ASSUME NEW i \in DOMAIN z, z[i].pk = p, z[i].kind = "deleted"
             PROVE  \E j \in DOMAIN z : j > i /\ z[j].pk = p /\ z[j].kind = "created"
  BY DEF Answered, z
<1>2. i \in 1 .. Len(s)
  BY <1>1
<1>3. CASE c.pk = p /\ c.kind = "created"
  BY <1>1, <1>2, <1>3
<1>4. CASE Answered(s, p)
  <2>1. PICK j \in DOMAIN s : j > i /\ s[j].pk = p /\ s[j].kind = "created"
    BY <1>1, <1>2, <1>4 DEF Answered
  <2> QED
    BY <1>1, <2>1
<1> QED
  BY <1>3, <1>4

LEMMA AnsweredTail ==
  ASSUME NEW s \in Seq(Change), s # <<>>, NEW p, Answered(s, p)
  PROVE  /\ Answered(Tail(s), p)
         /\ Head(s).pk = p /\ Head(s).kind = "deleted" => Awaits(Tail(s), p, "created")
<1> DEFINE z == Tail(s)
<1>1. /\ Len(s) \in Nat /\ DOMAIN s = 1 .. Len(s)
      /\ DOMAIN z = 1 .. Len(s) - 1
      /\ \A i \in 1 .. Len(s) - 1 : z[i] = s[i + 1]
      /\ Head(s) = s[1] /\ 1 \in 1 .. Len(s)
  BY TailFacts
<1> HIDE DEF z
<1>2. \A i \in DOMAIN s : i > 1 => i - 1 \in DOMAIN z /\ z[i - 1] = s[i]
  BY <1>1
<1>3. Answered(z, p)
  <2> SUFFICES ASSUME NEW i \in DOMAIN z, z[i].pk = p, z[i].kind = "deleted"
               PROVE  \E j \in DOMAIN z : j > i /\ z[j].pk = p /\ z[j].kind = "created"
    BY DEF Answered
  <2>1. i \in Nat /\ i >= 1 /\ i + 1 \in DOMAIN s /\ s[i + 1] = z[i]
    BY <1>1
  <2>2. PICK j \in DOMAIN s : j > i + 1 /\ s[j].pk = p /\ s[j].kind = "created"
    BY <2>1 DEF Answered
  <2>3. j - 1 \in DOMAIN z /\ j - 1 > i /\ z[j - 1] = s[j]
    BY <1>1, <1>2, <2>1, <2>2
  <2> QED
    BY <2>2, <2>3
<1>4. ASSUME Head(s).pk = p, Head(s).kind = "deleted" PROVE Awaits(z, p, "created")
  <2>1. PICK j \in DOMAIN s : j > 1 /\ s[j].pk = p /\ s[j].kind = "created"
    BY <1>1, <1>4 DEF Answered
  <2>2. j - 1 \in DOMAIN z /\ z[j - 1] = s[j]
    BY <1>2, <2>1
  <2> QED
    BY <2>1, <2>2 DEF Awaits
<1> QED
  BY <1>3, <1>4 DEF z

LEMMA AnsweredAwaits ==
  ASSUME NEW s, NEW p, Answered(s, p), Awaits(s, p, "deleted")
  PROVE  Awaits(s, p, "created")
BY DEF Answered, Awaits

(* A change taken from the queue stays heard of; the one applied was first. *)
LEMMA PendFacts ==
  ASSUME NEW l \in LiveRec, NEW q \in Seq(Change)
  PROVE  /\ Pend(l, q) \in Seq(Change)
         /\ l.pc = "got" => /\ Pend(l, q) # <<>>
                            /\ Head(Pend(l, q)) = l.change /\ Tail(Pend(l, q)) = q
         /\ \A c \in Change : Pend(l, Append(q, c)) = Append(Pend(l, q), c)
<1>1. l.change \in Change
  BY DEF LiveRec
<1>2. CASE l.pc = "got"
  <2> DEFINE c1 == l.change
  <2>1. c1 \in Change
    BY <1>1
  <2>2. Pend(l, q) = <<c1>> \o q /\ \A z : Pend(l, z) = <<c1>> \o z
    BY <1>2 DEF Pend
  <2> HIDE DEF c1
  <2>3. <<c1>> \o q \in Seq(Change) /\ <<c1>> \o q # <<>>
    BY <2>1
  <2>4. Head(<<c1>> \o q) = c1 /\ Tail(<<c1>> \o q) = q
    BY <2>1
  <2>5. \A c \in Change : <<c1>> \o Append(q, c) = Append(<<c1>> \o q, c)
    BY <2>1
  <2> QED
    BY <2>2, <2>3, <2>4, <2>5 DEF c1
<1>3. CASE l.pc # "got"
  BY <1>3 DEF Pend
<1> QED
  BY <1>2, <1>3

LEMMA PendTake ==
  ASSUME NEW q \in Seq(Change), q # <<>>
  PROVE  <<Head(q)>> \o Tail(q) = q
OBVIOUS

-----------------------------------------------------------------------------
(* What a step changes, as far as the explanations go.                      *)

(* Threads that promise t at least as much, and have the same deletions     *)
(* open and no new creations.                                               *)
Alike(th, h, t) ==
  /\ \A p \in Pks, k \in Kinds : Coming(h, t, p, k) <=> Coming(th, t, p, k)
  /\ \A p \in Pks : OpenWrite(h, p, "deleted") <=> OpenWrite(th, p, "deleted")
  /\ \A p \in Pks : OpenWrite(h, p, "created") => OpenWrite(th, p, "created")

LEMMA AlikeKeeps ==
  ASSUME NEW d, NEW th, NEW h, NEW un, NEW en, NEW t, NEW s, NEW rows \in Seq(Listed),
         Alike(th, h, t)
  PROVE  /\ DeletionsAnswered(d, th, un, t, s) => DeletionsAnswered(d, h, un, t, s)
         /\ MissingExplained(d, th, un, en, t, s, rows)
              => MissingExplained(d, h, un, en, t, s, rows)
         /\ ListedExplained(d, th, t, s, rows) => ListedExplained(d, h, t, s, rows)
<1>1. "created" \in Kinds /\ "deleted" \in Kinds
  BY DEF Kinds
<1>2. DeletionsAnswered(d, th, un, t, s) => DeletionsAnswered(d, h, un, t, s)
  BY <1>1 DEF Alike, DeletionsAnswered
<1>3. MissingExplained(d, th, un, en, t, s, rows) => MissingExplained(d, h, un, en, t, s, rows)
  BY <1>1 DEF Alike, MissingExplained
<1>4. \A e \in Contents(rows) : e.id \in Pks
  BY ContentsType DEF Listed
<1>5. ListedExplained(d, th, t, s, rows) => ListedExplained(d, h, t, s, rows)
  BY <1>1, <1>4 DEF Alike, ListedExplained
<1> QED
  BY <1>2, <1>3, <1>5

(* No thread is newly open and passed, and t is not newly about to list.    *)
NoNewPassed(th, h, f, g, t) ==
  \A w \in Threads : Open(h, w) /\ Passed(h, w, t) =>
    /\ Open(th, w) /\ Passed(th, w, t)
    /\ h[w].pk = th[w].pk /\ h[w].kind = th[w].kind
    /\ g.pc = "writing" /\ g.pk = h[w].pk /\ h[t].pc # "fetched"
         => f.pc = "writing" /\ f.pk = h[w].pk /\ th[t].pc # "fetched"

LEMMA EarlyKept ==
  ASSUME NEW th, NEW h, NEW f, NEW g, NEW t, NEW s, NEW rows,
         NoNewPassed(th, h, f, g, t), EarlyAwaited(th, f, t, s, rows)
  PROVE  EarlyAwaited(h, g, t, s, rows)
BY DEF NoNewPassed, EarlyAwaited

(* Only thread w differs, and before and after it owes no change and has    *)
(* nothing open.                                                            *)
Silent(th, w) == th[w].pc \in {"idle", "fetched", "done"}

LEMMA SilentAlike ==
  ASSUME NEW th, NEW h, NEW w, Silent(th, w), Silent(h, w), NEW t,
         \A x \in Threads \ {w} : h[x] = th[x]
  PROVE  /\ Alike(th, h, t)
         /\ \A x \in Threads : Open(h, x) => x # w /\ Open(th, x)
         /\ \A x \in Threads : Open(th, x) => x # w /\ Open(h, x)
         /\ \A x \in Threads : Passed(h, x, t) => x # w /\ Passed(th, x, t)
<1>1. ~Open(th, w) /\ ~Open(h, w)
  BY DEF Silent, Open
<1>2. \A x \in Threads \ {w} : Open(h, x) <=> Open(th, x)
  BY DEF Open
<1>3. \A p \in Pks, k \in Kinds : Coming(h, t, p, k) <=> Coming(th, t, p, k)
  BY DEF Coming, Silent
<1>4. \A p, k : OpenWrite(h, p, k) <=> OpenWrite(th, p, k)
  BY <1>1, <1>2 DEF OpenWrite
<1>5. \A x \in Threads : Passed(h, x, t) => x # w /\ Passed(th, x, t)
  BY DEF Passed, Silent
<1> QED
  BY <1>1, <1>2, <1>3, <1>4, <1>5 DEF Alike

(* Only thread w differs; it stays what it was to t, to the lock and to the *)
(* table.                                                                   *)
LEMMA SameOwedAlike ==
  ASSUME NEW th, NEW h, NEW w \in Threads, NEW t,
         \A x \in Threads \ {w} : h[x] = th[x],
         h[w].pk = th[w].pk, h[w].kind = th[w].kind, Open(h, w) <=> Open(th, w),
         (h[w].pc = "signal" \/ (h[w].pc = "sending" /\ t \in h[w].to))
           <=> (th[w].pc = "signal" \/ (th[w].pc = "sending" /\ t \in th[w].to))
  PROVE  /\ Alike(th, h, t)
         /\ \A x \in Threads : Open(h, x) <=> Open(th, x)
<1>2. \A x \in Threads : Open(h, x) <=> Open(th, x)
  BY DEF Open
<1>3. \A p \in Pks, k \in Kinds : Coming(h, t, p, k) <=> Coming(th, t, p, k)
  BY DEF Coming
<1>4. \A x \in Threads : h[x].pk = th[x].pk /\ h[x].kind = th[x].kind
  OBVIOUS
<1>5. \A p, k : OpenWrite(h, p, k) <=> OpenWrite(th, p, k)
  BY <1>2, <1>4 DEF OpenWrite
<1> QED
  BY <1>2, <1>3, <1>5 DEF Alike

(* What save() and delete() may write: a deletion leaves the row gone; an   *)
(* update finds a row.                                                      *)
Writable(p, k, row) ==
  /\ k = "deleted" <=> row.st = "gone"
  /\ k = "updated" => Exists(p)

LEMMA WroteIs ==
  ASSUME Types, NEW w \in Threads, NEW p \in Pks, NEW k \in Kinds, NEW row \in StoredRow,
         thread[w].pc \in {"idle", "fetched"}, Wrote(w, p, k, row)
  PROVE  /\ \A x \in Threads \ {w} : thread'[x] = thread[x]
         /\ thread'[w].pc = "signal" /\ thread'[w].pk = p /\ thread'[w].kind = k
         /\ thread'[w].row = row /\ thread'[w].to = {}
         /\ \A q \in Pks \ {p} : db'[q] = db[q]
         /\ db'[p] = IF InTransaction(w, k) THEN db[p] ELSE row
         /\ \A t \in Tabs : /\ row.st = "live" => entered[t] \subseteq entered'[t]
                            /\ entered[t] \subseteq entered'[t] \cup {p}
                            /\ InTransaction(w, k) => entered'[t] = entered[t]
                            /\ ~InTransaction(w, k) /\ row.st = "live"
                                 /\ db[p].st = "hidden" => p \in entered'[t]
         /\ \A x \in Threads : Open(thread, x) => x # w /\ thread[x].pk # p
<1>1. \A x \in Threads : Open(thread, x) => x # w /\ thread[x].pk # p
  <2>1. ~Open(thread, w)
    BY DEF Open
  <2> QED
    BY <2>1 DEF Wrote, Locked, Uncommitted, Open
<1>2. \A x \in Threads \ {w} : thread'[x] = thread[x]
  BY DEF Wrote, Types
<1>3. /\ thread'[w].pc = "signal" /\ thread'[w].pk = p /\ thread'[w].kind = k
      /\ thread'[w].row = row /\ thread'[w].to = {}
  BY DEF Wrote, Types
<1>4. /\ \A q \in Pks \ {p} : db'[q] = db[q]
      /\ db'[p] = IF InTransaction(w, k) THEN db[p] ELSE row
      /\ \A t \in Tabs : /\ row.st = "live" => entered[t] \subseteq entered'[t]
                         /\ entered[t] \subseteq entered'[t] \cup {p}
                         /\ InTransaction(w, k) => entered'[t] = entered[t]
                         /\ ~InTransaction(w, k) /\ row.st = "live"
                              /\ db[p].st = "hidden" => p \in entered'[t]
  <2>1. CASE InTransaction(w, k)
    BY <2>1 DEF Wrote
  <2>2. CASE ~InTransaction(w, k)
    <3>1. Committed(p, row)
      BY <2>2 DEF Wrote
    <3> QED
      BY <2>2, <3>1, CommittedIs
  <2> QED
    BY <2>1, <2>2
<1> QED
  BY <1>1, <1>2, <1>3, <1>4

(* The write promises every tab its change.                                 *)
LEMMA WroteOwes ==
  ASSUME Types, NEW w \in Threads, NEW p \in Pks, NEW k \in Kinds, NEW row \in StoredRow,
         thread[w].pc \in {"idle", "fetched"}, Wrote(w, p, k, row)
  PROVE  /\ \A t, q, j : Coming(thread', t, q, j) <=> Coming(thread, t, q, j) \/ (q = p /\ j = k)
         /\ \A q, j : OpenWrite(thread', q, j) <=>
              OpenWrite(thread, q, j) \/ (q = p /\ j = k /\ InTransaction(w, k))
         /\ \A j : ~OpenWrite(thread, p, j)
<1> DEFINE th == thread
           h == thread'
<1>1. /\ \A x \in Threads \ {w} : h[x] = th[x]
      /\ h[w].pc = "signal" /\ h[w].pk = p /\ h[w].kind = k
      /\ \A x \in Threads : Open(th, x) => x # w /\ th[x].pk # p
      /\ th[w].pc \in {"idle", "fetched"}
  BY WroteIs
<1> HIDE DEF th, h
<1>2. \A t, q, j : Coming(h, t, q, j) <=> Coming(th, t, q, j) \/ (q = p /\ j = k)
  BY <1>1 DEF Coming
<1>3. Open(h, w) <=> InTransaction(w, k)
  BY <1>1 DEF Open
<1>4. \A x \in Threads \ {w} : Open(h, x) <=> Open(th, x)
  BY <1>1 DEF Open
<1>5. \A q, j : OpenWrite(h, q, j) <=>
        OpenWrite(th, q, j) \/ (q = p /\ j = k /\ InTransaction(w, k))
  BY <1>1, <1>3, <1>4 DEF OpenWrite
<1>6. \A j : ~OpenWrite(th, p, j)
  BY <1>1 DEF OpenWrite
<1> QED
  BY <1>2, <1>5, <1>6 DEF th, h

LEMMA WroteKeepsTab ==
  ASSUME Types, NEW w \in Threads, NEW p \in Pks, NEW k \in Kinds, NEW row \in StoredRow,
         thread[w].pc \in {"idle", "fetched"}, Wrote(w, p, k, row), Writable(p, k, row),
         NEW t \in Tabs, NEW s, NEW rows \in Seq(Listed), NEW un
  PROVE  /\ DeletionsAnswered(db, thread, un, t, s)
              => DeletionsAnswered(db', thread', un, t, s)
         /\ MissingExplained(db, thread, un, entered[t], t, s, rows)
              => MissingExplained(db', thread', un, entered'[t], t, s, rows)
         /\ ListedExplained(db, thread, t, s, rows)
              => ListedExplained(db', thread', t, s, rows)
<1> DEFINE th == thread
           h == thread'
           d == db
           e == db'
           open == InTransaction(w, k)
           en == entered[t]
           ne == entered'[t]
<1>1. /\ \A q \in Pks \ {p} : e[q] = d[q]
      /\ e[p] = IF open THEN d[p] ELSE row
      /\ en \subseteq ne \cup {p} /\ (row.st = "live" => en \subseteq ne)
      /\ open => ne = en
      /\ ~open /\ row.st = "live" /\ d[p].st = "hidden" => p \in ne
  BY WroteIs
<1>2. /\ \A q, j : Coming(h, t, q, j) <=> Coming(th, t, q, j) \/ (q = p /\ j = k)
      /\ \A q, j : OpenWrite(h, q, j) <=>
           OpenWrite(th, q, j) \/ (q = p /\ j = k /\ open)
      /\ \A j : ~OpenWrite(th, p, j)
  BY WroteOwes
<1>3. /\ k = "deleted" <=> row.st = "gone"
      /\ k = "updated" => d[p].st \in {"live", "hidden"}
      /\ k \in {"created", "updated", "deleted"}
      /\ k = "deleted" => open
  BY DEF Writable, Exists, Kinds, InTransaction
<1> HIDE DEF th, h, d, e, open, en, ne
<1>4. DeletionsAnswered(d, th, un, t, s) => DeletionsAnswered(e, h, un, t, s)
  <2> SUFFICES ASSUME DeletionsAnswered(d, th, un, t, s), NEW q \in Pks \ un,
                      e[q].st \in {"live", "hidden"} \/ OpenWrite(h, q, "created"),
                      ~OpenWrite(h, q, "deleted"), ~Coming(h, t, q, "created")
               PROVE  Answered(s, q)
    BY DEF DeletionsAnswered
  <2>1. ~OpenWrite(th, q, "deleted") /\ ~Coming(th, t, q, "created")
    BY <1>2
  <2>2. d[q].st \in {"live", "hidden"} \/ OpenWrite(th, q, "created")
    <3>1. CASE q # p
      BY <1>1, <1>2, <3>1
    <3>2. CASE q = p
      <4>1. k = "updated"
        BY <1>2, <1>3, <3>2
      <4> QED
        BY <1>3, <3>2, <4>1
    <3> QED
      BY <3>1, <3>2
  <2> QED
    BY <2>1, <2>2 DEF DeletionsAnswered
<1>5. MissingExplained(d, th, un, en, t, s, rows) => MissingExplained(e, h, un, ne, t, s, rows)
  <2> SUFFICES ASSUME MissingExplained(d, th, un, en, t, s, rows), NEW q \in Pks,
                      e[q].st = "live", q \notin Ids(rows)
               PROVE  \/ OpenWrite(h, q, "deleted") \/ Coming(h, t, q, "created")
                      \/ Awaits(s, q, "created") \/ (q \in un /\ Awaits(s, q, "deleted"))
                      \/ q \in ne
    BY DEF MissingExplained
  <2>1. CASE d[q].st = "live"
    <3>1. q \in en => q \in ne
      BY <1>1
    <3> QED
      BY <1>2, <2>1, <3>1 DEF MissingExplained
  <2>2. CASE d[q].st # "live"
    <3>1. q = p /\ ~open /\ row.st = "live"
      BY <1>1, <2>2
    <3>2. k = "created" \/ d[p].st = "hidden"
      BY <1>3, <2>2, <3>1
    <3> QED
      BY <1>1, <1>2, <3>1, <3>2
  <2> QED
    BY <2>1, <2>2
<1>6. ListedExplained(d, th, t, s, rows) => ListedExplained(e, h, t, s, rows)
  <2> SUFFICES ASSUME ListedExplained(d, th, t, s, rows), NEW r \in Contents(rows)
               PROVE  \/ e[r.id].st = "live" /\ e[r.id].ver = r.ver
                      \/ \E j \in Kinds : Coming(h, t, r.id, j) \/ Awaits(s, r.id, j)
    BY DEF ListedExplained
  <2>1. r.id \in Pks
    BY ContentsType DEF Listed
  <2>2. CASE r.id = p
    BY <1>2, <2>2
  <2>3. CASE r.id # p
    BY <1>1, <1>2, <2>1, <2>3 DEF ListedExplained
  <2> QED
    BY <2>2, <2>3
<1> QED
  BY <1>4, <1>5, <1>6 DEF th, h, d, e, en, ne

LEMMA InsertIs ==
  ASSUME Types, NEW w \in Threads, NEW p \in Pks, Insert(w, p)
  PROVE  \E row \in StoredRow :
           /\ Wrote(w, p, "created", row) /\ Writable(p, "created", row)
           /\ thread[w].pc = "idle"
<1>1. SavedKind(p) = "created"
  BY DEF Insert, SavedKind, Exists
<1>2. PICK st \in {"live", "hidden"} :
        Wrote(w, p, SavedKind(p), [st |-> st, ver |-> writes + 1])
  BY DEF Insert
<1> DEFINE row == [st |-> st, ver |-> writes + 1]
<1>3. row \in StoredRow /\ row.st = st
  BY DEF Types, StoredRow, RowStates
<1> HIDE DEF row
<1>4. Wrote(w, p, "created", row)
  BY <1>1, <1>2 DEF row
<1>5. Writable(p, "created", row)
  BY <1>3 DEF Writable
<1> QED
  BY <1>3, <1>4, <1>5 DEF Insert

LEMMA RewriteIs ==
  ASSUME Types, NEW w \in Threads, Save(w) \/ Erase(w)
  PROVE  \E k \in Kinds, row \in StoredRow :
           /\ Wrote(w, thread[w].pk, k, row) /\ Writable(thread[w].pk, k, row)
           /\ thread[w].pc = "fetched"
           /\ k = "deleted" <=> thread[w].kind = "deleted"
<1> DEFINE p == thread[w].pk
<1>0. p \in Pks
  BY DEF Types, ThreadRec
<1>1. CASE Save(w)
  <2>1. PICK st \in {"live", "hidden"} :
          Wrote(w, p, SavedKind(p), [st |-> st, ver |-> writes + 1])
    BY <1>1 DEF Save
  <2> DEFINE row == [st |-> st, ver |-> writes + 1]
             k == SavedKind(p)
  <2>2. row \in StoredRow /\ row.st = st
    BY <2>1 DEF Types, StoredRow, RowStates
  <2>3. st # "gone"
    OBVIOUS
  <2>4. k \in Kinds /\ k # "deleted"
    BY DEF SavedKind, Kinds
  <2>5. k = "updated" => Exists(p)
    BY DEF SavedKind
  <2>6. Wrote(w, p, k, row)
    BY <2>1
  <2> HIDE DEF row, k
  <2>7. Writable(p, k, row)
    BY <2>2, <2>3, <2>4, <2>5 DEF Writable
  <2> QED
    BY <1>1, <2>2, <2>4, <2>6, <2>7 DEF Save
<1>2. CASE Erase(w)
  <2> DEFINE row == [st |-> "gone", ver |-> writes + 1]
  <2>1. row \in StoredRow /\ row.st = "gone"
    BY DEF Types, StoredRow, RowStates
  <2>2. Wrote(w, p, "deleted", row)
    BY <1>2 DEF Erase
  <2> HIDE DEF row
  <2>3. Writable(p, "deleted", row) /\ "deleted" \in Kinds
    BY <2>1 DEF Writable, Kinds
  <2> QED
    BY <1>2, <2>1, <2>2, <2>3 DEF Erase
<1> QED
  BY <1>1, <1>2

LEMMA WroteKeepsThreads ==
  ASSUME Types, NEW w \in Threads, NEW p \in Pks, NEW k \in Kinds, NEW row \in StoredRow,
         thread[w].pc \in {"idle", "fetched"}, Wrote(w, p, k, row), Writable(p, k, row),
         LockedOnce(thread), \A x \in Threads : ThreadOk(db, thread, subs, x)
  PROVE  LockedOnce(thread') /\ \A x \in Threads : ThreadOk(db', thread', subs, x)
<1> DEFINE th == thread
           h == thread'
           d == db
           e == db'
<1>1. /\ \A x \in Threads \ {w} : h[x] = th[x]
      /\ h[w].pc = "signal" /\ h[w].pk = p /\ h[w].kind = k
      /\ h[w].row = row /\ h[w].to = {}
      /\ \A q \in Pks \ {p} : e[q] = d[q]
      /\ e[p] = IF InTransaction(w, k) THEN d[p] ELSE row
      /\ \A x \in Threads : Open(th, x) => x # w /\ th[x].pk # p
  BY WroteIs
<1>2. \A x \in Threads : th[x].pk \in Pks
  BY DEF Types, ThreadRec
<1>3. /\ k = "deleted" <=> row.st = "gone"
      /\ k = "updated" => d[p].st \in {"live", "hidden"}
  BY DEF Writable, Exists
<1> HIDE DEF th, h, d, e
<1>4. \A x \in Threads \ {w} : Open(h, x) <=> Open(th, x)
  BY <1>1 DEF Open
<1>5. LockedOnce(h)
  <2>1. LockedOnce(th)
    BY DEF th
  <2>2. \A x \in Threads \ {w} : Open(h, x) => h[x].pk # h[w].pk
    BY <1>1, <1>4
  <2>3. \A x, y \in Threads \ {w} : Open(h, x) /\ Open(h, y) /\ h[x].pk = h[y].pk => x = y
    BY <1>1, <1>4, <2>1 DEF LockedOnce
  <2> QED
    BY <2>2, <2>3 DEF LockedOnce
<1>6. ThreadOk(e, h, subs, w)
  <2>1. Open(h, w) => InTransaction(w, k)
    BY <1>1 DEF Open
  <2> QED
    BY <1>1, <1>3, <2>1 DEF ThreadOk
<1>7. ASSUME NEW x \in Threads \ {w} PROVE ThreadOk(e, h, subs, x)
  <2>1. ThreadOk(d, th, subs, x)
    BY DEF d, th
  <2>2. h[x] = th[x] /\ (Open(h, x) <=> Open(th, x))
    BY <1>1, <1>4
  <2>3. Open(th, x) => e[th[x].pk] = d[th[x].pk]
    BY <1>1, <1>2
  <2> QED
    BY <2>1, <2>2, <2>3 DEF ThreadOk
<1> QED
  BY <1>5, <1>6, <1>7 DEF h, e

LEMMA WroteKeepsOwn ==
  ASSUME Types, NEW w \in Threads, NEW p \in Pks, NEW k \in Kinds, NEW row \in StoredRow,
         thread[w].pc \in {"idle", "fetched"}, Wrote(w, p, k, row),
         NEW t \in Threads, NEW f, NEW g, NEW s, NEW rows,
         (t # w /\ g = f) \/ (t = w /\ g.pk = p)
  PROVE  /\ EarlyAwaited(thread, f, t, s, rows) => EarlyAwaited(thread', g, t, s, rows)
         /\ OwnAwaited(thread, f, t, s) => OwnAwaited(thread', g, t, s)
<1> DEFINE th == thread
           h == thread'
<1>1. /\ \A x \in Threads \ {w} : h[x] = th[x]
      /\ h[w].pc = "signal" /\ h[w].pk = p /\ h[w].kind = k /\ h[w].to = {}
      /\ \A x \in Threads : Open(th, x) => x # w /\ th[x].pk # p
  BY WroteIs
<1> HIDE DEF th, h
<1>2. ~Passed(h, w, t)
  BY <1>1 DEF Passed
<1>3. \A x \in Threads \ {w} :
        (Open(h, x) <=> Open(th, x)) /\ (Passed(h, x, t) <=> Passed(th, x, t))
  BY <1>1 DEF Open, Passed
<1>4. NoNewPassed(th, h, f, g, t)
  <2> SUFFICES ASSUME NEW x \in Threads, Open(h, x), Passed(h, x, t)
               PROVE  /\ Open(th, x) /\ Passed(th, x, t)
                      /\ h[x].pk = th[x].pk /\ h[x].kind = th[x].kind
                      /\ g.pc = "writing" /\ g.pk = h[x].pk /\ h[t].pc # "fetched"
                           => f.pc = "writing" /\ f.pk = h[x].pk /\ th[t].pc # "fetched"
    BY DEF NoNewPassed
  <2>1. x # w /\ h[x] = th[x] /\ Open(th, x) /\ Passed(th, x, t) /\ th[x].pk # p
    BY <1>1, <1>2, <1>3
  <2> QED
    BY <1>1, <2>1
<1>5. EarlyAwaited(th, f, t, s, rows) => EarlyAwaited(h, g, t, s, rows)
  BY <1>4, EarlyKept
<1>6. OwnAwaited(th, f, t, s) => OwnAwaited(h, g, t, s)
  <2>1. CASE t # w
    BY <1>1, <1>3, <2>1 DEF OwnAwaited
  <2>2. CASE t = w
    BY <1>1, <1>2, <2>2 DEF OwnAwaited
  <2> QED
    BY <2>1, <2>2
<1> QED
  BY <1>5, <1>6 DEF th, h

(* A row is written, by another request or by a tab that owns the write.    *)
LEMMA WriteKeeps ==
  ASSUME SyncInv, NEW w \in Threads, NEW p \in Pks, NEW k \in Kinds,
         NEW row \in StoredRow, thread[w].pc \in {"idle", "fetched"},
         Wrote(w, p, k, row), Writable(p, k, row),
         UNCHANGED <<subs, queue, live, list, loaded, raced, undone>>,
         \A t \in Tabs :
           \/ t # w /\ fg'[t] = fg[t]
           \/ /\ t = w /\ fg'[t].pc = "writing" /\ fg'[t].pk = p
              /\ fg'[t].op = "delete" <=> k = "deleted"
              /\ fg'[t].fresh => t \in subs
  PROVE  Structure' /\ Explained'
<1>0. /\ Types /\ Structure /\ Explained /\ Reliable \subseteq Tabs
      /\ \A t \in Tabs : t \in Threads /\ list[t] \in Seq(Listed)
      /\ subs \subseteq Tabs
  BY DEF SyncInv, Types, Reliable, Threads
<1>1. \A t \in Tabs : Pend(live'[t], queue'[t]) = Heard(t)
  BY DEF Heard
<1>2. \A t \in Tabs : (t # w /\ fg'[t] = fg[t]) \/ (t = w /\ fg'[t].pk = p)
  OBVIOUS
<1>3. LockedOnce(thread') /\ \A x \in Threads : ThreadOk(db', thread', subs', x)
  BY <1>0, WroteKeepsThreads DEF Structure
<1>4. ASSUME NEW t \in Tabs
      PROVE  TabOk(thread', subs', live'[t], queue'[t], fg'[t], t)
  <2>1. TabOk(thread, subs, live[t], queue[t], fg[t], t)
    BY <1>0 DEF Structure
  <2>2. /\ \A x \in Threads \ {w} : thread'[x] = thread[x]
        /\ thread'[w].pc = "signal" /\ thread'[w].pk = p /\ thread'[w].kind = k
    BY <1>0, WroteIs
  <2>3. CASE t # w /\ fg'[t] = fg[t]
    BY <1>0, <2>1, <2>2, <2>3 DEF TabOk
  <2>4. CASE t = w
    BY <1>0, <2>1, <2>2, <2>4 DEF TabOk
  <2> QED
    BY <2>3, <2>4
<1>5. Structure'
  BY <1>0, <1>3, <1>4 DEF Structure
<1>6. \A t \in subs : DeletionsAnswered(db', thread', undone', t, Heard(t))
  BY <1>0, WroteKeepsTab DEF Explained
<1>7. \A t \in subs \cap loaded : OwnAwaited(thread', fg'[t], t, Heard(t))
  BY <1>0, <1>2, WroteKeepsOwn DEF Explained
<1>8. \A t \in Reliable :
        /\ MissingExplained(db', thread', undone', entered'[t], t, Heard(t), list'[t])
        /\ ListedExplained(db', thread', t, Heard(t), list'[t])
  BY <1>0, WroteKeepsTab DEF Explained
<1>9. \A t \in Reliable : EarlyAwaited(thread', fg'[t], t, Heard(t), list'[t])
  BY <1>0, <1>2, WroteKeepsOwn DEF Explained
<1>10. Explained'
  BY <1>0, <1>1, <1>6, <1>7, <1>8, <1>9 DEF Explained, Heard, Reliable
<1> QED
  BY <1>5, <1>10

(* A list that t could show now.                                            *)
Accounted(t, rows) ==
  /\ MissingExplained(db, thread, undone, entered[t], t, Heard(t), rows)
  /\ ListedExplained(db, thread, t, Heard(t), rows)
  /\ EarlyAwaited(thread, fg[t], t, Heard(t), rows)

(* A thread that owes nothing turns to something else it owes nothing for;  *)
(* if it is a tab's, the tab's foreground event may go on and patch the     *)
(* list.                                                                    *)
LEMMA SilentKeeps ==
  ASSUME SyncInv, NEW w \in Threads, Silent(thread, w),
         thread'[w].pc \in {"idle", "fetched"},
         \A x \in Threads \ {w} : thread'[x] = thread[x],
         thread'[w].to \subseteq subs,
         thread'[w].pc = "fetched" => thread'[w].kind # "created",
         UNCHANGED <<db, subs, queue, live, loaded, raced, undone, entered>>,
         \A t \in Tabs : \/ list'[t] = list[t]
                        \/ /\ t = w /\ list'[t] \in Seq(Listed)
                           /\ t \in Reliable => Accounted(t, list'[t]),
         \A t \in Tabs \ {w} : fg'[t] = fg[t],
         \A t \in Tabs \cap {w} : TabOk(thread', subs, live[t], queue[t], fg'[t], t)
  PROVE  Structure' /\ Explained'
<1> DEFINE th == thread
           h == thread'
<1>0. /\ Types /\ Structure /\ Explained /\ Reliable \subseteq Tabs
      /\ \A t \in Tabs : t \in Threads /\ list'[t] \in Seq(Listed)
      /\ subs \subseteq Tabs
  BY DEF SyncInv, Types, Reliable, Threads
<1>1. \A t \in Tabs : Pend(live'[t], queue'[t]) = Heard(t)
  BY DEF Heard
<1>2. Silent(th, w) /\ Silent(h, w) /\ \A x \in Threads \ {w} : h[x] = th[x]
  BY DEF Silent
<1>3. \A t \in Tabs :
        /\ Alike(th, h, t)
        /\ \A x \in Threads : Open(h, x) => x # w /\ Open(th, x)
        /\ \A x \in Threads : Passed(h, x, t) => x # w /\ Passed(th, x, t)
  BY <1>2, SilentAlike
<1>4. \A x \in Threads : Open(h, x) => x # w /\ Open(th, x)
  <2>1. ~Open(h, w)
    BY <1>2 DEF Open, Silent
  <2> QED
    BY <1>2, <2>1 DEF Open
<1>5. \A t \in Tabs : TabOk(h, subs, live[t], queue[t], fg'[t], t)
  <2> SUFFICES ASSUME NEW t \in Tabs, t # w
               PROVE  TabOk(h, subs, live[t], queue[t], fg'[t], t)
    OBVIOUS
  <2>1. TabOk(th, subs, live[t], queue[t], fg[t], t)
    BY <1>0 DEF Structure
  <2>2. h[t] = th[t] /\ fg'[t] = fg[t]
    BY <1>0
  <2> QED
    BY <2>1, <2>2 DEF TabOk
<1>6. LockedOnce(h)
  BY <1>0, <1>2, <1>4 DEF LockedOnce, Structure
<1>7. \A x \in Threads : ThreadOk(db, h, subs, x)
  <2>1. ASSUME NEW x \in Threads \ {w} PROVE ThreadOk(db, h, subs, x)
    <3>1. h[x] = th[x] /\ ThreadOk(db, th, subs, x) /\ (Open(h, x) <=> Open(th, x))
      BY <1>0, <1>2 DEF Structure, Open
    <3> QED
      BY <3>1 DEF ThreadOk
  <2>2. ThreadOk(db, h, subs, w)
    BY <1>4 DEF ThreadOk
  <2> QED
    BY <2>1, <2>2
<1>8. Structure'
  BY <1>0, <1>5, <1>6, <1>7 DEF Structure
<1>9. ASSUME NEW t \in Tabs
      PROVE  NoNewPassed(th, h, fg[t], fg'[t], t)
             /\ \A s : OwnAwaited(th, fg[t], t, s) => OwnAwaited(h, fg'[t], t, s)
  <2>1. /\ \A x \in Threads : Open(h, x) => x # w /\ Open(th, x)
        /\ \A x \in Threads : Passed(h, x, t) => x # w /\ Passed(th, x, t)
    BY <1>3
  <2>2. CASE t # w
    <3>1. h[t] = th[t] /\ fg'[t] = fg[t]
      BY <1>0, <2>2
    <3>2. NoNewPassed(th, h, fg[t], fg'[t], t)
      BY <1>2, <2>1, <3>1 DEF NoNewPassed
    <3>3. \A s : OwnAwaited(th, fg[t], t, s) => OwnAwaited(h, fg'[t], t, s)
      BY <1>0, <2>1, <3>1 DEF OwnAwaited
    <3> QED
      BY <3>2, <3>3
  <2>3. CASE t = w
    <3>1. fg'[t].pc = "writing" => h[t].pc = "fetched"
      BY <1>5, <2>3 DEF TabOk
    <3>2. NoNewPassed(th, h, fg[t], fg'[t], t)
      BY <1>2, <2>1, <3>1 DEF NoNewPassed
    <3>3. \A s : OwnAwaited(h, fg'[t], t, s)
      BY <3>1 DEF OwnAwaited, Passed
    <3> QED
      BY <3>2, <3>3
  <2> QED
    BY <2>2, <2>3
<1>10. \A t \in subs : DeletionsAnswered(db, h, undone, t, Heard(t))
  BY <1>0, <1>3, AlikeKeeps DEF Explained
<1>11. \A t \in subs \cap loaded : OwnAwaited(h, fg'[t], t, Heard(t))
  BY <1>0, <1>9 DEF Explained
<1>a. \A t \in Reliable :
        /\ MissingExplained(db, th, undone, entered[t], t, Heard(t), list'[t])
        /\ ListedExplained(db, th, t, Heard(t), list'[t])
        /\ EarlyAwaited(th, fg[t], t, Heard(t), list'[t])
  <2> SUFFICES ASSUME NEW t \in Reliable
               PROVE  /\ MissingExplained(db, th, undone, entered[t], t, Heard(t), list'[t])
                      /\ ListedExplained(db, th, t, Heard(t), list'[t])
                      /\ EarlyAwaited(th, fg[t], t, Heard(t), list'[t])
    OBVIOUS
  <2>1. CASE list'[t] = list[t]
    BY <1>0, <2>1 DEF Explained
  <2>2. CASE list'[t] # list[t]
    BY <1>0, <2>2 DEF Accounted
  <2> QED
    BY <2>1, <2>2
<1>12. \A t \in Reliable :
         /\ MissingExplained(db, h, undone, entered[t], t, Heard(t), list'[t])
         /\ ListedExplained(db, h, t, Heard(t), list'[t])
  BY <1>0, <1>3, <1>a, AlikeKeeps
<1>13. \A t \in Reliable : EarlyAwaited(h, fg'[t], t, Heard(t), list'[t])
  BY <1>0, <1>9, <1>a, EarlyKept
<1>14. Explained'
  BY <1>0, <1>1, <1>10, <1>11, <1>12, <1>13 DEF Explained, Heard, Reliable
<1> QED
  BY <1>8, <1>14

LEMMA GetIs ==
  ASSUME Types, NEW w \in Threads, NEW p \in Pks, NEW k \in Kinds, Get(w, p, k)
  PROVE  /\ thread[w].pc = "idle" /\ k # "created"
         /\ \A x \in Threads \ {w} : thread'[x] = thread[x]
         /\ thread'[w].pc = "fetched" /\ thread'[w].pk = p /\ thread'[w].kind = k
         /\ thread'[w].to = {} /\ db' = db /\ entered' = entered
<1>1. thread[w].pc = "idle" /\ k # "created" /\ \A x \in Threads \ {w} : thread'[x] = thread[x]
  BY DEF Get, Types
<1>2. /\ thread'[w].pc = "fetched" /\ thread'[w].pk = p /\ thread'[w].kind = k
      /\ thread'[w].to = {}
  BY DEF Get, Types, IdleThread
<1>3. db' = db /\ entered' = entered
  BY DEF Get
<1> QED
  BY <1>1, <1>2, <1>3

LEMMA OtherWritesKeep ==
  ASSUME SyncInv, NEW w \in Writers, OtherWrites(w)
  PROVE  Structure' /\ Explained'
<1>0. Types /\ w \in Threads /\ w \notin Tabs
  BY ConstantsAssumption DEF SyncInv, Threads
<1>1. CASE \E p \in Pks : Insert(w, p)
  <2> PICK p \in Pks : Insert(w, p)
    BY <1>1
  <2>1. PICK row \in StoredRow :
          /\ Wrote(w, p, "created", row) /\ Writable(p, "created", row)
          /\ thread[w].pc = "idle"
    BY <1>0, InsertIs
  <2> QED
    BY <1>0, <2>1, WriteKeeps DEF OtherWrites, Kinds
<1>2. CASE Save(w) \/ Erase(w)
  <2>1. PICK k \in Kinds, row \in StoredRow :
          /\ Wrote(w, thread[w].pk, k, row) /\ Writable(thread[w].pk, k, row)
          /\ thread[w].pc = "fetched"
    BY <1>0, <1>2, RewriteIs
  <2>2. thread[w].pk \in Pks
    BY <1>0 DEF Types, ThreadRec
  <2> QED
    BY <1>0, <2>1, <2>2, WriteKeeps DEF OtherWrites
<1>3. CASE \E p \in Pks : Get(w, p, "updated") \/ Get(w, p, "deleted")
  <2> PICK p \in Pks, k \in {"updated", "deleted"} : Get(w, p, k)
    BY <1>3
  <2>1. k \in Kinds
    BY DEF Kinds
  <2>2. /\ thread[w].pc = "idle" /\ k # "created"
        /\ \A x \in Threads \ {w} : thread'[x] = thread[x]
        /\ thread'[w].pc = "fetched" /\ thread'[w].kind = k /\ thread'[w].to = {}
        /\ db' = db /\ entered' = entered
    BY <1>0, <2>1, GetIs
  <2> QED
    BY <1>0, <2>2, SilentKeeps DEF OtherWrites, Silent
<1> QED
  BY <1>1, <1>2, <1>3 DEF OtherWrites

LEMMA TabIs ==
  ASSUME SyncInv, NEW t \in Tabs
  PROVE  /\ t \in Threads /\ TabOk(thread, subs, live[t], queue[t], fg[t], t)
         /\ ThreadOk(db, thread, subs, t)
         /\ live[t] \in LiveRec /\ fg[t] \in FgRec /\ thread[t] \in ThreadRec
         /\ queue[t] \in Seq(Change) /\ list[t] \in Seq(Listed)
<1>1. t \in Threads
  BY DEF Threads
<1> QED
  BY <1>1 DEF SyncInv, Structure, Types

LEMMA StartWriteKeeps ==
  ASSUME SyncInv, NEW t \in Tabs, NEW op \in {"create", "update", "delete"},
         NEW p \in Pks, StartWrite(t, op, p)
  PROVE  Structure' /\ Explained'
<1>0. Types /\ t \in Threads /\ TabOk(thread, subs, live[t], queue[t], fg[t], t)
  BY TabIs DEF SyncInv
<1>1. /\ \A x \in Tabs \ {t} : fg'[x] = fg[x]
      /\ fg'[t].pc = "writing" /\ fg'[t].op = op /\ fg'[t].pk = p /\ fg'[t].fresh = FALSE
  BY <1>0 DEF StartWrite, Types
<1>2. CASE op = "create"
  <2>1. Insert(t, p)
    BY <1>2 DEF StartWrite
  <2>2. PICK row \in StoredRow :
          /\ Wrote(t, p, "created", row) /\ Writable(p, "created", row)
          /\ thread[t].pc = "idle"
    BY <1>0, <2>1, InsertIs
  <2> QED
    BY <1>0, <1>1, <1>2, <2>2, WriteKeeps DEF StartWrite, Kinds
<1>3. CASE op # "create"
  <2> DEFINE k == IF op = "update" THEN "updated" ELSE "deleted"
  <2>1. Get(t, p, k) /\ k \in Kinds /\ (op = "delete" <=> k = "deleted")
    BY <1>3 DEF StartWrite, Kinds
  <2> HIDE DEF k
  <2>2. /\ thread[t].pc = "idle" /\ k # "created"
        /\ \A x \in Threads \ {t} : thread'[x] = thread[x]
        /\ thread'[t].pc = "fetched" /\ thread'[t].pk = p /\ thread'[t].kind = k
        /\ thread'[t].to = {} /\ db' = db /\ entered' = entered
    BY <1>0, <2>1, GetIs
  <2>3. TabOk(thread', subs, live[t], queue[t], fg'[t], t)
    BY <1>0, <1>1, <2>1, <2>2 DEF TabOk
  <2> QED
    BY <1>0, <1>1, <2>2, <2>3, SilentKeeps DEF StartWrite, Silent
<1> QED
  BY <1>2, <1>3

LEMMA OwnWriteKeeps ==
  ASSUME SyncInv, NEW t \in Tabs, OwnWrite(t)
  PROVE  Structure' /\ Explained'
<1>0. Types /\ t \in Threads /\ TabOk(thread, subs, live[t], queue[t], fg[t], t)
  BY TabIs DEF SyncInv
<1>1. /\ \A x \in Tabs \ {t} : fg'[x] = fg[x]
      /\ fg'[t].pc = "writing" /\ fg'[t].op = fg[t].op /\ fg'[t].pk = fg[t].pk
      /\ fg'[t].fresh = FALSE
  BY <1>0 DEF OwnWrite, Types, FgRec
<1>2. PICK k \in Kinds, row \in StoredRow :
        /\ Wrote(t, thread[t].pk, k, row) /\ Writable(thread[t].pk, k, row)
        /\ thread[t].pc = "fetched"
        /\ k = "deleted" <=> thread[t].kind = "deleted"
  BY <1>0, RewriteIs DEF OwnWrite
<1>3. /\ thread[t].pk \in Pks /\ thread[t].pk = fg[t].pk
      /\ fg[t].op = "delete" <=> thread[t].kind = "deleted"
  BY <1>0 DEF Types, ThreadRec, TabOk, OwnWrite
<1> QED
  BY <1>0, <1>1, <1>2, <1>3, WriteKeeps DEF OwnWrite

LEMMA StartLoadKeeps ==
  ASSUME SubscribeFirst, SyncInv, NEW t \in Tabs, StartLoad(t)
  PROVE  Structure' /\ Explained'
<1>0. /\ Types /\ t \in Threads /\ TabOk(thread, subs, live[t], queue[t], fg[t], t)
      /\ ThreadOk(db, thread, subs, t)
  BY TabIs DEF SyncInv
<1>1. /\ \A x \in Tabs \ {t} : fg'[x] = fg[x]
      /\ fg'[t].pc = "count" /\ t \in subs
  BY <1>0 DEF StartLoad, Types, IdleFg
<1>2. thread[t].pc = "idle" /\ TabOk(thread, subs, live[t], queue[t], fg'[t], t)
  BY <1>0, <1>1 DEF TabOk, StartLoad
<1>3. thread[t].to \subseteq subs
  BY <1>0 DEF ThreadOk
<1> QED
  BY <1>0, <1>1, <1>2, <1>3, SilentKeeps DEF StartLoad, Silent

LEMMA CountSomeKeeps ==
  ASSUME SyncInv, NEW t \in Tabs, CountRows(t), \E p \in Pks : Shown(p)
  PROVE  Structure' /\ Explained'
<1>0. /\ Types /\ t \in Threads /\ TabOk(thread, subs, live[t], queue[t], fg[t], t)
      /\ ThreadOk(db, thread, subs, t)
  BY TabIs DEF SyncInv
<1>1. fg' = [fg EXCEPT ![t].pc = "fetch"] /\ UNCHANGED <<list, loaded, raced, entered>>
  BY DEF CountRows
<1>2. /\ \A x \in Tabs \ {t} : fg'[x] = fg[x]
      /\ fg'[t].pc = "fetch" /\ fg'[t].fresh = fg[t].fresh
  BY <1>0, <1>1 DEF Types, FgRec
<1>3. thread[t].pc = "idle" /\ TabOk(thread, subs, live[t], queue[t], fg'[t], t)
  BY <1>0, <1>2 DEF TabOk, CountRows
<1>4. thread[t].to \subseteq subs
  BY <1>0 DEF ThreadOk
<1> QED
  BY <1>0, <1>1, <1>2, <1>3, <1>4, SilentKeeps DEF CountRows, Silent

-----------------------------------------------------------------------------
(* Publishing and ending a write.                                           *)

(* A thread goes on with a write it has begun; what it owes the tabs stays, *)
(* and its write is open no longer than before.                             *)
LEMMA ThreadTurnKeeps ==
  ASSUME SyncInv, NEW w \in Threads,
         \A x \in Threads \ {w} : thread'[x] = thread[x],
         UNCHANGED <<db, subs, queue, live, fg, list, loaded, raced, undone, entered>>,
         \A t \in subs : Alike(thread, thread', t),
         ThreadOk(db, thread', subs, w),
         Open(thread', w) => Open(thread, w),
         w \in Tabs \/ Open(thread', w) =>
           thread'[w].pk = thread[w].pk /\ thread'[w].kind = thread[w].kind,
         \A t \in subs : thread'[w].pc = "done" \/ Passed(thread', w, t) =>
                           thread[w].pc = "done" \/ Passed(thread, w, t),
         ~Silent(thread, w), thread'[w].pc # "fetched",
         w \in Tabs => thread'[w].pc # "idle"
  PROVE  Structure' /\ Explained'
<1> DEFINE th == thread
           h == thread'
<1>0. /\ Types /\ Structure /\ Explained /\ Reliable \subseteq subs
      /\ \A t \in Tabs : t \in Threads /\ list[t] \in Seq(Listed)
      /\ subs \subseteq Tabs
  BY DEF SyncInv, Types, Reliable, Threads
<1>1. /\ th[w].pc \notin {"idle", "fetched", "done"} /\ h[w].pc # "fetched"
      /\ \A t \in subs : Passed(h, w, t) => Passed(th, w, t)
  BY DEF Silent
<1>2. \A x \in Threads : Open(h, x) =>
        Open(th, x) /\ h[x].pk = th[x].pk /\ h[x].kind = th[x].kind
  BY DEF Open
<1>3. LockedOnce(h)
  BY <1>0, <1>2 DEF LockedOnce, Structure
<1>4. \A x \in Threads : ThreadOk(db, h, subs, x)
  <2> SUFFICES ASSUME NEW x \in Threads \ {w} PROVE ThreadOk(db, h, subs, x)
    OBVIOUS
  <2>1. h[x] = th[x] /\ ThreadOk(db, th, subs, x)
    BY <1>0 DEF Structure
  <2> QED
    BY <2>1 DEF ThreadOk, Open
<1>5. \A t \in Tabs : /\ h[t].pk = th[t].pk /\ h[t].kind = th[t].kind
                      /\ h[t].pc = "idle" <=> th[t].pc = "idle"
                      /\ h[t].pc = "fetched" <=> th[t].pc = "fetched"
  <2> SUFFICES ASSUME NEW t \in Tabs
               PROVE  /\ h[t].pk = th[t].pk /\ h[t].kind = th[t].kind
                      /\ h[t].pc = "idle" <=> th[t].pc = "idle"
                      /\ h[t].pc = "fetched" <=> th[t].pc = "fetched"
    OBVIOUS
  <2>1. CASE t = w
    BY <1>1, <2>1
  <2>2. CASE t # w
    BY <1>0, <2>2
  <2> QED
    BY <2>1, <2>2
<1>6. \A t \in Tabs : TabOk(h, subs, live[t], queue[t], fg[t], t)
  BY <1>0, <1>5 DEF TabOk, Structure
<1>7. Structure'
  BY <1>0, <1>3, <1>4, <1>6 DEF Structure
<1>8. \A t \in subs : NoNewPassed(th, h, fg[t], fg[t], t)
  <2> SUFFICES ASSUME NEW t \in subs, NEW x \in Threads, Open(h, x), Passed(h, x, t)
               PROVE  /\ Open(th, x) /\ Passed(th, x, t)
                      /\ h[x].pk = th[x].pk /\ h[x].kind = th[x].kind
                      /\ h[t].pc # "fetched" => th[t].pc # "fetched"
    BY DEF NoNewPassed
  <2>1. Passed(th, x, t)
    <3>1. CASE x = w
      BY <1>1, <3>1
    <3>2. CASE x # w
      BY <3>2 DEF Passed
    <3> QED
      BY <3>1, <3>2
  <2> QED
    BY <1>0, <1>2, <1>5, <2>1
<1>9. \A t \in subs \cap loaded : OwnAwaited(h, fg[t], t, Heard(t))
  <2> SUFFICES ASSUME NEW t \in subs \cap loaded
               PROVE  OwnAwaited(h, fg[t], t, Heard(t))
    OBVIOUS
  <2>1. OwnAwaited(th, fg[t], t, Heard(t)) /\ t \in Tabs /\ t \in Threads
    BY <1>0 DEF Explained
  <2>2. h[t].pc = "done" \/ Passed(h, t, t) => th[t].pc = "done" \/ Passed(th, t, t)
    <3>1. CASE t = w
      BY <3>1
    <3>2. CASE t # w
      BY <2>1, <3>2 DEF Passed
    <3> QED
      BY <3>1, <3>2
  <2> QED
    BY <1>5, <2>1, <2>2 DEF OwnAwaited
<1>10. \A t \in subs : DeletionsAnswered(db, h, undone, t, Heard(t))
  BY <1>0, AlikeKeeps DEF Explained
<1>11. \A t \in Reliable :
         /\ MissingExplained(db, h, undone, entered[t], t, Heard(t), list[t])
         /\ ListedExplained(db, h, t, Heard(t), list[t])
  BY <1>0, AlikeKeeps DEF Explained
<1>12. \A t \in Reliable : EarlyAwaited(h, fg[t], t, Heard(t), list[t])
  BY <1>0, <1>8, EarlyKept DEF Explained
<1>13. Explained'
  BY <1>9, <1>10, <1>11, <1>12 DEF Explained, Heard, Reliable
<1> QED
  BY <1>7, <1>13

LEMMA PublishKeeps ==
  ASSUME SyncInv, NEW w \in Threads, Publish(w)
  PROVE  Structure' /\ Explained'
<1> DEFINE th == thread
           h == thread'
<1>0. Types /\ Structure /\ subs \subseteq Tabs /\ ThreadOk(db, th, subs, w)
  BY DEF SyncInv, Types, Structure
<1>1. /\ \A x \in Threads \ {w} : h[x] = th[x]
      /\ th[w].pc = "signal"
      /\ h[w].pc = "sending" /\ h[w].to = subs /\ h[w].pk = th[w].pk
      /\ h[w].kind = th[w].kind /\ h[w].row = th[w].row
  BY <1>0 DEF Publish, Types, ThreadRec
<1>2. Open(h, w) <=> Open(th, w)
  BY <1>1 DEF Open
<1>3. \A t \in subs : Alike(th, h, t) /\ ~Passed(h, w, t)
  BY <1>1, <1>2, SameOwedAlike DEF Passed
<1>4. ThreadOk(db, h, subs, w)
  BY <1>0, <1>1, <1>2 DEF ThreadOk
<1>5. ~Silent(th, w)
  BY <1>1 DEF Silent
<1> QED
  BY <1>1, <1>2, <1>3, <1>4, <1>5, ThreadTurnKeeps DEF Publish

LEMMA SendKeeps ==
  ASSUME SyncInv, NEW w \in Threads, NEW t0 \in Tabs, Send(w, t0)
  PROVE  Structure' /\ Explained'
<1> DEFINE th == thread
           h == thread'
           c == [pk |-> th[w].pk, kind |-> th[w].kind]
<1>0. /\ Types /\ Structure /\ Explained /\ Reliable \subseteq subs
      /\ \A t \in Tabs : t \in Threads /\ list[t] \in Seq(Listed)
      /\ subs \subseteq Tabs
  BY DEF SyncInv, Types, Reliable, Threads
<1>1. /\ \A x \in Threads \ {w} : h[x] = th[x]
      /\ th[w].pc = "sending" /\ t0 \in th[w].to
      /\ h[w].pc = "sending" /\ h[w].to = th[w].to \ {t0} /\ h[w].pk = th[w].pk
      /\ h[w].kind = th[w].kind /\ h[w].row = th[w].row
  BY <1>0 DEF Send, Types, ThreadRec
<1>2. \A x \in Threads : Open(h, x) <=> Open(th, x)
  BY <1>1 DEF Open
<1>3. t0 \in subs
  BY <1>0, <1>1 DEF Structure, ThreadOk
<1>4. /\ c \in Change /\ c.pk = th[w].pk /\ c.kind = th[w].kind
      /\ th[w].pk \in Pks /\ th[w].kind \in Kinds
  BY <1>0 DEF Types, ThreadRec, Change
<1>5. /\ queue'[t0] = Append(queue[t0], c)
      /\ \A t \in Tabs \ {t0} : queue'[t] = queue[t]
  BY <1>0 DEF Send, Types
<1> HIDE DEF c
<1>6. /\ Heard(t0) \in Seq(Change)
      /\ Pend(live[t0], queue'[t0]) = Append(Heard(t0), c)
      /\ \A t \in Tabs \ {t0} : Pend(live[t], queue'[t]) = Heard(t)
  BY <1>0, <1>4, <1>5, TabIs, PendFacts DEF Heard
<1>7. LockedOnce(h)
  BY <1>0, <1>1, <1>2 DEF LockedOnce, Structure
<1>8. \A x \in Threads : ThreadOk(db, h, subs, x)
  BY <1>0, <1>1, <1>2 DEF ThreadOk, Structure
<1>9. \A t \in Tabs : TabOk(h, subs, live[t], queue'[t], fg[t], t)
  <2> SUFFICES ASSUME NEW t \in Tabs PROVE TabOk(h, subs, live[t], queue'[t], fg[t], t)
    OBVIOUS
  <2>1. TabOk(th, subs, live[t], queue[t], fg[t], t)
    BY <1>0 DEF Structure
  <2>2. h[t].pc = th[t].pc /\ h[t].pk = th[t].pk /\ h[t].kind = th[t].kind
    BY <1>0, <1>1
  <2>3. t \notin subs => queue'[t] = queue[t]
    BY <1>3, <1>5
  <2> QED
    BY <2>1, <2>2, <2>3 DEF TabOk
<1>10. Structure'
  BY <1>0, <1>7, <1>8, <1>9 DEF Structure, Send
<1>11. \A t \in Tabs \ {t0} : Alike(th, h, t)
  BY <1>1, <1>2, SameOwedAlike
<1>12. \A t \in Tabs \ {t0} : NoNewPassed(th, h, fg[t], fg[t], t)
  BY <1>0, <1>1, <1>2 DEF NoNewPassed, Passed
<1>13. \A p, k : Coming(th, t0, p, k) =>
          Coming(h, t0, p, k) \/ (p = th[w].pk /\ k = th[w].kind)
  BY <1>1 DEF Coming
<1>14. \A p, k : Awaits(Append(Heard(t0), c), p, k) <=>
         Awaits(Heard(t0), p, k) \/ (p = th[w].pk /\ k = th[w].kind)
  BY <1>4, <1>6, AwaitsAppend
<1>15. \A p, k : OpenWrite(h, p, k) <=> OpenWrite(th, p, k)
  BY <1>1, <1>2 DEF OpenWrite
<1> DEFINE s == Heard(t0)
           z == Append(s, c)
           rows == list[t0]
<1>16. DeletionsAnswered(db, h, undone, t0, z)
  <2> SUFFICES ASSUME NEW p \in Pks \ undone,
                      db[p].st \in {"live", "hidden"} \/ OpenWrite(h, p, "created"),
                      ~OpenWrite(h, p, "deleted"), ~Coming(h, t0, p, "created")
               PROVE  Answered(z, p)
    BY DEF DeletionsAnswered
  <2>1. ~(c.pk = p /\ c.kind = "deleted")
    BY <1>1, <1>4, <1>15 DEF OpenWrite, Open, InTransaction
  <2>2. CASE c.pk = p /\ c.kind = "created"
    BY <1>4, <1>6, <2>2, AnsweredAppend
  <2>3. CASE ~(c.pk = p /\ c.kind = "created")
    <3>1. ~Coming(th, t0, p, "created")
      BY <1>4, <1>13, <2>3
    <3>2. DeletionsAnswered(db, th, undone, t0, s)
      BY <1>0, <1>3 DEF Explained
    <3>3. Answered(s, p)
      BY <1>15, <3>1, <3>2 DEF DeletionsAnswered
    <3> QED
      BY <1>4, <1>6, <2>1, <3>3, AnsweredAppend
  <2> QED
    BY <2>2, <2>3
<1>17. ASSUME t0 \in Reliable
       PROVE  /\ MissingExplained(db, h, undone, entered[t0], t0, z, rows)
              /\ ListedExplained(db, h, t0, z, rows)
              /\ EarlyAwaited(h, fg[t0], t0, z, rows)
  <2>0. /\ MissingExplained(db, th, undone, entered[t0], t0, s, rows)
        /\ ListedExplained(db, th, t0, s, rows)
        /\ EarlyAwaited(th, fg[t0], t0, s, rows)
    BY <1>0, <1>17 DEF Explained
  <2> HIDE DEF s, z, rows, th, h
  <2>a. \A p, k : Awaits(z, p, k) <=> Awaits(s, p, k) \/ (p = th[w].pk /\ k = th[w].kind)
    BY <1>14 DEF s, z
  <2>1. MissingExplained(db, h, undone, entered[t0], t0, z, rows)
    BY <2>0, <2>a, <1>13, <1>15 DEF MissingExplained
  <2>2. ListedExplained(db, h, t0, z, rows)
    BY <2>0, <2>a, <1>13 DEF ListedExplained
  <2>3. \A x \in Threads \ {w} : Passed(h, x, t0) <=> Passed(th, x, t0)
    BY <1>1 DEF Passed
  <2>4. h[t0].pc # "fetched" => th[t0].pc # "fetched"
    BY <1>0, <1>1
  <2>5. EarlyAwaited(h, fg[t0], t0, z, rows)
    BY <2>0, <2>a, <2>3, <2>4, <1>1, <1>2 DEF EarlyAwaited
  <2> QED
    BY <2>1, <2>2, <2>5
<1>18. ASSUME t0 \in loaded PROVE OwnAwaited(h, fg[t0], t0, z)
  <2>1. OwnAwaited(th, fg[t0], t0, s)
    BY <1>0, <1>3, <1>18 DEF Explained
  <2>2. CASE t0 = w
    BY <1>1, <1>14, <2>2 DEF OwnAwaited
  <2>3. CASE t0 # w
    BY <1>0, <1>1, <1>14, <2>1, <2>3 DEF OwnAwaited, Passed
  <2> QED
    BY <2>2, <2>3
<1>19. \A t \in (subs \cap loaded) \ {t0} : OwnAwaited(h, fg[t], t, Heard(t))
  <2> SUFFICES ASSUME NEW t \in (subs \cap loaded) \ {t0}
               PROVE  OwnAwaited(h, fg[t], t, Heard(t))
    OBVIOUS
  <2>1. OwnAwaited(th, fg[t], t, Heard(t)) /\ t \in Threads
    BY <1>0 DEF Explained
  <2>2. h[t].pc = th[t].pc /\ h[t].pk = th[t].pk /\ h[t].kind = th[t].kind
    BY <1>1, <2>1
  <2>3. Passed(h, t, t) <=> Passed(th, t, t)
    BY <1>1, <2>1 DEF Passed
  <2> QED
    BY <2>1, <2>2, <2>3 DEF OwnAwaited
<1>20. \A t \in subs \ {t0} : DeletionsAnswered(db, h, undone, t, Heard(t))
  BY <1>0, <1>11, AlikeKeeps DEF Explained
<1>21. \A t \in Reliable \ {t0} :
         /\ MissingExplained(db, h, undone, entered[t], t, Heard(t), list[t])
         /\ ListedExplained(db, h, t, Heard(t), list[t])
  BY <1>0, <1>11, AlikeKeeps DEF Explained
<1>22. \A t \in Reliable \ {t0} : EarlyAwaited(h, fg[t], t, Heard(t), list[t])
  BY <1>0, <1>12, EarlyKept DEF Explained
<1> HIDE DEF z, s, rows, th, h
<1>23. /\ \A t \in subs : DeletionsAnswered(db, h, undone, t, Pend(live[t], queue'[t]))
       /\ \A t \in subs \cap loaded : OwnAwaited(h, fg[t], t, Pend(live[t], queue'[t]))
       /\ \A t \in Reliable :
            /\ MissingExplained(db, h, undone, entered[t], t, Pend(live[t], queue'[t]), list[t])
            /\ ListedExplained(db, h, t, Pend(live[t], queue'[t]), list[t])
            /\ EarlyAwaited(h, fg[t], t, Pend(live[t], queue'[t]), list[t])
  BY <1>0, <1>6, <1>16, <1>17, <1>18, <1>19, <1>20, <1>21, <1>22 DEF z, s, rows
<1>24. Explained'
  BY <1>23 DEF Explained, Heard, Reliable, Send, h
<1> QED
  BY <1>10, <1>24

(* A thread that owes t nothing and has no deletion open ends its write.    *)
LEMMA EndAlike ==
  ASSUME NEW th, NEW h, NEW w \in Threads, NEW t,
         \A x \in Threads \ {w} : h[x] = th[x],
         ~Open(h, w), ~(Open(th, w) /\ th[w].kind = "deleted"),
         ~(h[w].pc = "signal" \/ (h[w].pc = "sending" /\ t \in h[w].to)),
         ~(th[w].pc = "signal" \/ (th[w].pc = "sending" /\ t \in th[w].to))
  PROVE  Alike(th, h, t)
<1>1. \A p \in Pks, k \in Kinds : Coming(h, t, p, k) <=> Coming(th, t, p, k)
  BY DEF Coming
<1>2. \A x \in Threads \ {w} : Open(h, x) <=> Open(th, x)
  BY DEF Open
<1>3. \A p : OpenWrite(h, p, "deleted") <=> OpenWrite(th, p, "deleted")
  BY <1>2 DEF OpenWrite
<1>4. \A p : OpenWrite(h, p, "created") => OpenWrite(th, p, "created")
  BY <1>2 DEF OpenWrite
<1> QED
  BY <1>1, <1>3, <1>4 DEF Alike

(* A finished thread of a tab remembers what it wrote.                      *)
LEMMA FinishedIs ==
  ASSUME Types, NEW w \in Threads
  PROVE  /\ Finished(w).pc \in {"idle", "done"} /\ Finished(w).to \subseteq thread[w].to
         /\ w \in Tabs => /\ Finished(w).pc = "done" /\ Finished(w).pk = thread[w].pk
                          /\ Finished(w).kind = thread[w].kind
         /\ w \notin Tabs => Finished(w).pc = "idle"
<1>1. CASE w \in Writers
  BY <1>1, ConstantsAssumption DEF Finished, IdleThread
<1>2. CASE w \notin Writers
  <2>1. w \in Tabs /\ Finished(w) = [thread[w] EXCEPT !.pc = "done"]
    BY <1>2 DEF Finished, Threads
  <2> QED
    BY <2>1 DEF Types, ThreadRec
<1> QED
  BY <1>1, <1>2

LEMMA SentKeeps ==
  ASSUME SyncInv, NEW w \in Threads, Sent(w)
  PROVE  Structure' /\ Explained'
<1> DEFINE th == thread
           h == thread'
<1>0. Types /\ Structure /\ subs \subseteq Tabs /\ ThreadOk(db, th, subs, w)
  BY DEF SyncInv, Types, Structure
<1>1. /\ \A x \in Threads \ {w} : h[x] = th[x]
      /\ th[w].pc = "sending" /\ th[w].to = {}
  BY <1>0 DEF Sent, Types
<1>2. ~Silent(th, w) /\ \A t : Passed(th, w, t)
  BY <1>1 DEF Silent, Passed
<1>3. CASE Open(th, w)
  <2>1. /\ h[w].pc = "commit" /\ h[w].to = {} /\ h[w].pk = th[w].pk
        /\ h[w].kind = th[w].kind /\ h[w].row = th[w].row
    BY <1>0, <1>1, <1>3 DEF Sent, Types, ThreadRec, Uncommitted, Open
  <2>2. Open(h, w)
    BY <1>3, <2>1 DEF Open
  <2>3. \A t \in subs : Alike(th, h, t)
    BY <1>1, <1>3, <2>1, <2>2, SameOwedAlike
  <2>4. ThreadOk(db, h, subs, w)
    BY <1>0, <1>1, <1>3, <2>1, <2>2 DEF ThreadOk
  <2> QED
    BY <1>1, <1>2, <1>3, <2>1, <2>3, <2>4, ThreadTurnKeeps DEF Sent
<1>4. CASE ~Open(th, w)
  <2>1. h[w] = Finished(w)
    BY <1>0, <1>1, <1>4 DEF Sent, Types, Uncommitted, Open
  <2>2. /\ h[w].pc \in {"idle", "done"} /\ h[w].to \subseteq {}
        /\ w \in Tabs => /\ h[w].pc = "done" /\ h[w].pk = th[w].pk
                         /\ h[w].kind = th[w].kind
        /\ w \notin Tabs => h[w].pc = "idle"
    BY <1>0, <1>1, <2>1, FinishedIs
  <2>3. ~Open(h, w)
    BY <2>2 DEF Open
  <2>4. \A t \in subs : Alike(th, h, t)
    BY <1>1, <1>4, <2>2, <2>3, EndAlike
  <2>5. ThreadOk(db, h, subs, w)
    BY <2>2, <2>3 DEF ThreadOk
  <2> QED
    BY <1>1, <1>2, <2>2, <2>3, <2>4, <2>5, ThreadTurnKeeps DEF Sent
<1> QED
  BY <1>3, <1>4

(* A commit shows the row to others; a rolled back deletion leaves every    *)
(* tab that is connected unreliable.                                        *)
LEMMA EndIs ==
  ASSUME SyncInv, NEW w \in Threads, EndTransaction(w)
  PROVE  LET p == thread[w].pk  k == thread[w].kind IN
         /\ \A x \in Threads \ {w} : thread'[x] = thread[x]
         /\ thread[w].pc = "commit" /\ Open(thread, w) /\ p \in Pks /\ k \in Kinds
         /\ thread'[w].pc \in {"idle", "done"} /\ thread'[w].to \subseteq subs
         /\ w \in Tabs => /\ thread'[w].pc = "done" /\ thread'[w].pk = p
                          /\ thread'[w].kind = k
         /\ w \notin Tabs => thread'[w].pc = "idle"
         /\ \A t, q, j : Coming(thread', t, q, j) <=> Coming(thread, t, q, j)
         /\ \A q, j : q # p => (OpenWrite(thread', q, j) <=> OpenWrite(thread, q, j))
         /\ \A j : ~OpenWrite(thread', p, j)
         /\ \A j : OpenWrite(thread, p, j) <=> j = k
         /\ \A x \in Threads : Open(thread', x) => x # w /\ Open(thread, x)
<1> DEFINE th == thread
           h == thread'
           p == th[w].pk
           k == th[w].kind
<1>0. Types /\ Structure /\ ThreadOk(db, th, subs, w) /\ LockedOnce(th)
  BY DEF SyncInv, Types, Structure
<1>1. /\ \A x \in Threads \ {w} : h[x] = th[x]
      /\ th[w].pc = "commit" /\ h[w] = Finished(w)
  BY <1>0 DEF EndTransaction, Types
<1>2. Open(th, w) /\ th[w].to \subseteq subs /\ p \in Pks /\ k \in Kinds
  BY <1>0, <1>1 DEF ThreadOk, Types, ThreadRec
<1>3. /\ h[w].pc \in {"idle", "done"} /\ h[w].to \subseteq subs
      /\ w \in Tabs => /\ h[w].pc = "done" /\ h[w].pk = p
                       /\ h[w].kind = k
      /\ w \notin Tabs => h[w].pc = "idle"
  BY <1>0, <1>1, <1>2, FinishedIs
<1> HIDE DEF h, th
<1>4. ~Open(h, w) /\ \A x \in Threads \ {w} : Open(h, x) <=> Open(th, x)
  BY <1>1, <1>3 DEF Open
<1>5. \A t, q, j : Coming(h, t, q, j) <=> Coming(th, t, q, j)
  BY <1>1, <1>3 DEF Coming
<1>6. \A x \in Threads : Open(th, x) /\ th[x].pk = p => x = w
  BY <1>0, <1>2 DEF LockedOnce
<1>7. \A q, j : q # p => (OpenWrite(h, q, j) <=> OpenWrite(th, q, j))
  BY <1>1, <1>4 DEF OpenWrite
<1>8. \A j : ~OpenWrite(h, p, j)
  BY <1>1, <1>4, <1>6 DEF OpenWrite
<1>9. \A j : OpenWrite(th, p, j) <=> j = k
  BY <1>2, <1>6 DEF OpenWrite
<1> QED
  BY <1>1, <1>2, <1>3, <1>4, <1>5, <1>7, <1>8, <1>9 DEF h, th

LEMMA EndKeepsThreads ==
  ASSUME SyncInv, NEW w \in Threads, EndTransaction(w)
  PROVE  Structure'
<1> DEFINE th == thread
           h == thread'
           p == th[w].pk
<1>0. Types /\ Structure /\ LockedOnce(th)
  BY DEF SyncInv, Structure
<1>1. /\ \A x \in Threads \ {w} : h[x] = th[x]
      /\ th[w].pc = "commit" /\ Open(th, w) /\ p \in Pks
      /\ h[w].pc \in {"idle", "done"} /\ h[w].to \subseteq subs
      /\ w \in Tabs => /\ h[w].pc = "done" /\ h[w].pk = p
                       /\ h[w].kind = th[w].kind
      /\ w \notin Tabs => h[w].pc = "idle"
      /\ \A x \in Threads : Open(h, x) => x # w /\ Open(th, x)
  BY EndIs
<1>2. \A q \in Pks \ {p} : db'[q] = db[q]
  BY <1>0 DEF EndTransaction, Committed, Types
<1>3. LockedOnce(h)
  BY <1>0, <1>1 DEF LockedOnce
<1>4. ASSUME NEW x \in Threads PROVE ThreadOk(db', h, subs, x)
  <2>1. CASE x = w
    BY <1>1, <2>1 DEF ThreadOk
  <2>2. CASE x # w
    <3>1. h[x] = th[x] /\ ThreadOk(db, th, subs, x) /\ th[x].pk \in Pks
      BY <1>0, <1>1, <2>2 DEF Structure, Types, ThreadRec
    <3>2. Open(th, x) => th[x].pk # p
      BY <1>0, <1>1, <2>2 DEF LockedOnce
    <3>3. Open(h, x) <=> Open(th, x)
      BY <3>1 DEF Open
    <3> QED
      BY <1>2, <3>1, <3>2, <3>3 DEF ThreadOk
  <2> QED
    BY <2>1, <2>2
<1>5. ASSUME NEW t \in Tabs PROVE TabOk(h, subs, live[t], queue[t], fg[t], t)
  <2>1. TabOk(th, subs, live[t], queue[t], fg[t], t) /\ t \in Threads
    BY <1>0 DEF Structure, Threads
  <2>2. /\ h[t].pk = th[t].pk /\ h[t].kind = th[t].kind
        /\ h[t].pc = "idle" <=> th[t].pc = "idle"
    <3>1. CASE t = w
      BY <1>1, <3>1
    <3>2. CASE t # w
      BY <1>1, <2>1, <3>2
    <3> QED
      BY <3>1, <3>2
  <2> QED
    BY <2>1, <2>2 DEF TabOk
<1> QED
  BY <1>0, <1>3, <1>4, <1>5 DEF Structure, EndTransaction

(* A tab that was sent the change before the commit still explains what it  *)
(* shows after it.                                                          *)
LEMMA CommitExplained ==
  ASSUME SyncInv, NEW w \in Threads, EndTransaction(w),
         Committed(thread[w].pk, thread[w].row),
         NEW t \in subs, NEW s, NEW rows \in Seq(Listed), NEW un, NEW f
  PROVE  /\ DeletionsAnswered(db, thread, un, t, s)
              => DeletionsAnswered(db', thread', un, t, s)
         /\ EarlyAwaited(thread, f, t, s, rows) =>
              /\ MissingExplained(db, thread, un, entered[t], t, s, rows)
                   => MissingExplained(db', thread', un, entered'[t], t, s, rows)
              /\ ListedExplained(db, thread, t, s, rows)
                   => ListedExplained(db', thread', t, s, rows)
<1> DEFINE th == thread
           h == thread'
           d == db
           e == db'
           p == th[w].pk
           k == th[w].kind
           row == th[w].row
           en == entered[t]
           ne == entered'[t]
<1>0. Types /\ ThreadOk(d, th, subs, w) /\ t \in Tabs /\ row \in StoredRow
  BY DEF SyncInv, Structure, Types, ThreadRec
<1>1. /\ th[w].pc = "commit" /\ Open(th, w) /\ p \in Pks /\ k \in Kinds
      /\ \A q, j : Coming(h, t, q, j) <=> Coming(th, t, q, j)
      /\ \A q, j : q # p => (OpenWrite(h, q, j) <=> OpenWrite(th, q, j))
      /\ \A j : ~OpenWrite(h, p, j)
      /\ \A j : OpenWrite(th, p, j) <=> j = k
  BY EndIs
<1>2. /\ e[p] = row /\ \A q \in Pks \ {p} : e[q] = d[q]
      /\ en \subseteq ne \cup {p} /\ (row.st = "live" => en \subseteq ne)
      /\ row.st = "live" /\ d[p].st = "hidden" => p \in ne
  BY <1>0, <1>1, CommittedIs
<1>3. /\ k = "deleted" <=> row.st = "gone"
      /\ k = "updated" => d[p].st \in {"live", "hidden"}
      /\ k \in {"created", "updated", "deleted"}
  BY <1>0, <1>1 DEF ThreadOk, Kinds
<1>4. Passed(th, w, t)
  BY <1>1 DEF Passed
<1> DEFINE early == EarlyAwaited(th, f, t, s, rows)
<1>5. early => Awaits(s, p, k) \/ (k = "deleted" /\ p \notin Ids(rows))
  BY <1>1, <1>4 DEF EarlyAwaited
<1> HIDE DEF th, h, d, e, p, k, row, early, en, ne
<1>6. DeletionsAnswered(d, th, un, t, s) => DeletionsAnswered(e, h, un, t, s)
  <2> SUFFICES ASSUME DeletionsAnswered(d, th, un, t, s), NEW q \in Pks \ un,
                      e[q].st \in {"live", "hidden"} \/ OpenWrite(h, q, "created"),
                      ~OpenWrite(h, q, "deleted"), ~Coming(h, t, q, "created")
               PROVE  Answered(s, q)
    BY DEF DeletionsAnswered
  <2>1. CASE q # p
    BY <1>1, <1>2, <2>1 DEF DeletionsAnswered
  <2>2. CASE q = p
    <3>1. row.st # "gone" /\ k # "deleted"
      BY <1>1, <1>2, <1>3, <2>2
    <3>2. d[p].st \in {"live", "hidden"} \/ OpenWrite(th, p, "created")
      BY <1>1, <1>3, <3>1
    <3>3. ~OpenWrite(th, p, "deleted") /\ ~Coming(th, t, p, "created")
      BY <1>1, <2>2, <3>1
    <3> QED
      BY <2>2, <3>2, <3>3 DEF DeletionsAnswered
  <2> QED
    BY <2>1, <2>2
<1>7. ASSUME early, MissingExplained(d, th, un, en, t, s, rows)
      PROVE  MissingExplained(e, h, un, ne, t, s, rows)
  <2> SUFFICES ASSUME NEW q \in Pks, e[q].st = "live", q \notin Ids(rows)
               PROVE  \/ OpenWrite(h, q, "deleted") \/ Coming(h, t, q, "created")
                      \/ Awaits(s, q, "created") \/ (q \in un /\ Awaits(s, q, "deleted"))
                      \/ q \in ne
    BY DEF MissingExplained
  <2>1. CASE q # p
    BY <1>1, <1>2, <1>7, <2>1 DEF MissingExplained
  <2>2. CASE q = p
    <3>1. row.st = "live" /\ k # "deleted"
      BY <1>2, <1>3, <2>2
    <3>2. CASE k = "created"
      BY <1>5, <1>7, <2>2, <3>2
    <3>3. CASE k = "updated"
      <4>1. ~OpenWrite(th, p, "deleted")
        BY <1>1, <1>3, <3>1, <3>3
      <4>2. CASE d[p].st = "hidden"
        BY <1>2, <2>2, <3>1, <4>2
      <4>3. CASE d[p].st = "live"
        BY <1>1, <1>2, <1>7, <2>2, <3>1, <4>1, <4>3 DEF MissingExplained
      <4> QED
        BY <1>3, <3>3, <4>2, <4>3
    <3> QED
      BY <1>3, <3>1, <3>2, <3>3
  <2> QED
    BY <2>1, <2>2
<1>8. ASSUME early, ListedExplained(d, th, t, s, rows)
      PROVE  ListedExplained(e, h, t, s, rows)
  <2> SUFFICES ASSUME NEW r \in Contents(rows)
               PROVE  \/ e[r.id].st = "live" /\ e[r.id].ver = r.ver
                      \/ \E j \in Kinds : Coming(h, t, r.id, j) \/ Awaits(s, r.id, j)
    BY DEF ListedExplained
  <2>1. r.id \in Pks /\ r.id \in Ids(rows)
    BY ContentsType, IdsAre DEF Listed
  <2>2. CASE r.id = p
    <3>1. Awaits(s, p, k)
      BY <1>5, <1>8, <2>1, <2>2
    <3> QED
      BY <1>1, <2>2, <3>1
  <2>3. CASE r.id # p
    BY <1>1, <1>2, <1>8, <2>1, <2>3 DEF ListedExplained
  <2> QED
    BY <2>2, <2>3
<1> QED
  BY <1>6, <1>7, <1>8 DEF th, h, d, e, early, en, ne

LEMMA EndKeepsOwn ==
  ASSUME SyncInv, NEW w \in Threads, EndTransaction(w), NEW t \in Tabs, NEW s, NEW rows
  PROVE  /\ EarlyAwaited(thread, fg[t], t, s, rows) => EarlyAwaited(thread', fg[t], t, s, rows)
         /\ OwnAwaited(thread, fg[t], t, s) => OwnAwaited(thread', fg[t], t, s)
<1> DEFINE th == thread
           h == thread'
<1>1. /\ \A x \in Threads \ {w} : h[x] = th[x]
      /\ th[w].pc = "commit" /\ t \in Threads
      /\ h[w].pc \in {"idle", "done"}
      /\ w \in Tabs => /\ h[w].pc = "done" /\ h[w].pk = th[w].pk
                       /\ h[w].kind = th[w].kind
      /\ \A x \in Threads : Open(h, x) => x # w /\ Open(th, x)
  BY EndIs DEF Threads
<1> HIDE DEF th, h
<1>2. \A x \in Threads \ {w} : Passed(h, x, t) <=> Passed(th, x, t)
  BY <1>1 DEF Passed
<1>3. NoNewPassed(th, h, fg[t], fg[t], t)
  <2>1. h[t].pc # "fetched" => th[t].pc # "fetched"
    BY <1>1
  <2> QED
    BY <1>1, <1>2, <2>1 DEF NoNewPassed
<1>4. OwnAwaited(th, fg[t], t, s) => OwnAwaited(h, fg[t], t, s)
  <2>1. CASE t = w
    BY <1>1, <2>1 DEF OwnAwaited, Passed
  <2>2. CASE t # w
    BY <1>1, <1>2, <2>2 DEF OwnAwaited
  <2> QED
    BY <2>1, <2>2
<1> QED
  BY <1>3, <1>4, EarlyKept DEF th, h

LEMMA EndKeeps ==
  ASSUME SyncInv, NEW w \in Threads, EndTransaction(w)
  PROVE  Structure' /\ Explained'
<1> DEFINE h == thread'
           p == thread[w].pk
<1>0. /\ Types /\ Structure /\ Explained /\ Reliable \subseteq subs /\ subs \subseteq Tabs
      /\ \A t \in Tabs : list[t] \in Seq(Listed)
  BY DEF SyncInv, Types, Reliable
<1>1. Structure'
  BY EndKeepsThreads
<1>2. /\ \A t \in subs \cap loaded : OwnAwaited(h, fg[t], t, Heard(t))
      /\ \A t \in Reliable : EarlyAwaited(h, fg[t], t, Heard(t), list[t])
  BY <1>0, EndKeepsOwn DEF Explained
<1>3. UNCHANGED <<subs, queue, live, fg, list, loaded>>
  BY DEF EndTransaction
<1>4. CASE Committed(p, thread[w].row) /\ UNCHANGED <<raced, undone>>
  <2>1. \A t \in subs : DeletionsAnswered(db', h, undone, t, Heard(t))
    BY <1>0, <1>4, CommitExplained, EmptyList DEF Explained
  <2>2. \A t \in Reliable :
          /\ MissingExplained(db', h, undone, entered'[t], t, Heard(t), list[t])
          /\ ListedExplained(db', h, t, Heard(t), list[t])
    BY <1>0, <1>4, CommitExplained DEF Explained
  <2>3. Explained'
    BY <1>2, <1>3, <1>4, <2>1, <2>2 DEF Explained, Heard, Reliable
  <2> QED
    BY <1>1, <2>3
<1>5. CASE UNCHANGED <<db, entered>> /\ thread[w].kind = "deleted"
           /\ raced' = raced \cup subs /\ undone' = undone \cup {p}
  <2>1. ASSUME NEW t \in subs PROVE DeletionsAnswered(db, h, undone', t, Heard(t))
    <3>1. DeletionsAnswered(db, thread, undone, t, Heard(t))
      BY <1>0, <2>1 DEF Explained
    <3>2. /\ \A q, j : Coming(h, t, q, j) <=> Coming(thread, t, q, j)
          /\ \A q, j : q # p => (OpenWrite(h, q, j) <=> OpenWrite(thread, q, j))
      BY EndIs
    <3>3. \A q \in Pks \ undone' : q \in Pks \ undone /\ q # p
      BY <1>5
    <3> HIDE DEF p, h
    <3> QED
      BY <3>1, <3>2, <3>3 DEF DeletionsAnswered
  <2>2. Reliable' = {}
    BY <1>3, <1>5 DEF Reliable
  <2>3. Explained'
    BY <1>2, <1>3, <1>5, <2>1, <2>2 DEF Explained, Heard
  <2> QED
    BY <1>1, <2>3
<1>6. CASE UNCHANGED <<db, entered>> /\ thread[w].kind # "deleted" /\ UNCHANGED <<raced, undone>>
  <2>1. \A t \in subs : Alike(thread, h, t)
    BY SMTT(30), <1>6, EndIs DEF Alike
  <2>2. \A t \in subs : DeletionsAnswered(db, h, undone, t, Heard(t))
    BY <1>0, <2>1, AlikeKeeps, EmptyList DEF Explained
  <2>3. \A t \in Reliable :
          /\ MissingExplained(db, h, undone, entered[t], t, Heard(t), list[t])
          /\ ListedExplained(db, h, t, Heard(t), list[t])
    BY <1>0, <2>1, AlikeKeeps DEF Explained
  <2>4. Explained'
    BY <1>2, <1>3, <1>6, <2>2, <2>3 DEF Explained, Heard, Reliable
  <2> QED
    BY <1>1, <2>4
<1> QED
  BY <1>4, <1>5, <1>6 DEF EndTransaction

-----------------------------------------------------------------------------
(* Steps of one tab.                                                        *)

LEMMA TabTurnKeeps ==
  ASSUME SyncInv, NEW t0 \in Tabs, UNCHANGED <<db, thread, undone>>,
         subs \subseteq subs', subs' \subseteq subs \cup {t0},
         loaded' \subseteq subs', loaded' \subseteq loaded \cup {t0},
         raced \subseteq raced' \cup {t0},
         \A t \in Tabs \ {t0} : /\ queue'[t] = queue[t] /\ live'[t] = live[t]
                                /\ fg'[t] = fg[t] /\ list'[t] = list[t]
                                /\ entered'[t] = entered[t],
         TabOk(thread, subs', live'[t0], queue'[t0], fg'[t0], t0),
         NEW s, s = Pend(live'[t0], queue'[t0]),
         t0 \in subs' => DeletionsAnswered(db, thread, undone, t0, s),
         t0 \in loaded' => OwnAwaited(thread, fg'[t0], t0, s),
         t0 \in loaded' \ raced' =>
           /\ MissingExplained(db, thread, undone, entered'[t0], t0, s, list'[t0])
           /\ ListedExplained(db, thread, t0, s, list'[t0])
           /\ EarlyAwaited(thread, fg'[t0], t0, s, list'[t0])
  PROVE  Structure' /\ Explained'
<1>0. Structure /\ Explained /\ subs' \subseteq Tabs
  BY DEF SyncInv, Types
<1>1. \A w \in Threads : ThreadOk(db, thread, subs', w)
  <2>1. \A w \in Threads : ThreadOk(db, thread, subs, w)
    BY <1>0 DEF Structure
  <2> QED
    BY <2>1 DEF ThreadOk
<1>2. \A t \in Tabs : TabOk(thread, subs', live'[t], queue'[t], fg'[t], t)
  <2> SUFFICES ASSUME NEW t \in Tabs \ {t0}
               PROVE  TabOk(thread, subs', live'[t], queue'[t], fg'[t], t)
    OBVIOUS
  <2>1. TabOk(thread, subs, live[t], queue[t], fg[t], t)
    BY <1>0 DEF Structure
  <2>2. t \in subs' <=> t \in subs
    OBVIOUS
  <2>3. queue'[t] = queue[t] /\ live'[t] = live[t] /\ fg'[t] = fg[t]
    OBVIOUS
  <2> QED
    BY <2>1, <2>2, <2>3 DEF TabOk
<1>3. Structure'
  BY <1>0, <1>1, <1>2 DEF Structure
<1>4. \A t \in Tabs \ {t0} : Pend(live'[t], queue'[t]) = Heard(t)
  BY DEF Heard
<1>5. \A t \in subs' : DeletionsAnswered(db, thread, undone, t, Pend(live'[t], queue'[t]))
  BY <1>0, <1>4 DEF Explained
<1>6. \A t \in subs' \cap loaded' :
        OwnAwaited(thread, fg'[t], t, Pend(live'[t], queue'[t]))
  BY <1>0, <1>4 DEF Explained
<1>7. \A t \in (subs' \cap loaded') \ raced' :
        /\ MissingExplained(db, thread, undone, entered'[t], t, Pend(live'[t], queue'[t]), list'[t])
        /\ ListedExplained(db, thread, t, Pend(live'[t], queue'[t]), list'[t])
        /\ EarlyAwaited(thread, fg'[t], t, Pend(live'[t], queue'[t]), list'[t])
  <2> SUFFICES ASSUME NEW t \in (subs' \cap loaded') \ raced', t # t0
               PROVE
                 /\ MissingExplained(db, thread, undone, entered'[t], t, Pend(live'[t], queue'[t]), list'[t])
                 /\ ListedExplained(db, thread, t, Pend(live'[t], queue'[t]), list'[t])
                 /\ EarlyAwaited(thread, fg'[t], t, Pend(live'[t], queue'[t]), list'[t])
    OBVIOUS
  <2>1. t \in Reliable /\ t \in Tabs
    BY <1>0 DEF Reliable
  <2>2. Pend(live'[t], queue'[t]) = Heard(t) /\ list'[t] = list[t] /\ fg'[t] = fg[t]
        /\ entered'[t] = entered[t]
    BY <1>4, <2>1
  <2> QED
    BY <1>0, <2>1, <2>2 DEF Explained
<1>8. Explained'
  BY <1>5, <1>6, <1>7 DEF Explained, Heard, Reliable
<1> QED
  BY <1>3, <1>8

LEMMA LiveSubscribeKeeps ==
  ASSUME SubscribeFirst, SyncInv, NEW t \in Tabs, LiveSubscribe(t)
  PROVE  Structure' /\ Explained'
<1>0. Types /\ Structure /\ TabOk(thread, subs, live[t], queue[t], fg[t], t)
  BY TabIs DEF SyncInv
<1>1. /\ subs' = subs \cup {t} /\ queue'[t] = <<>> /\ live'[t].pc = "wait"
      /\ \A x \in Tabs \ {t} : queue'[x] = queue[x] /\ live'[x] = live[x]
  BY <1>0 DEF LiveSubscribe, Types, LiveRec
<1>2. t \notin loaded
  BY <1>0 DEF Structure, TabOk, LiveSubscribe
<1>3. TabOk(thread, subs', live'[t], queue'[t], fg[t], t)
  BY <1>0, <1>1 DEF TabOk
<1>4. Pend(live'[t], queue'[t]) = <<>>
  BY <1>1 DEF Pend
<1>5. DeletionsAnswered(db, thread, undone, t, <<>>)
  BY DEF DeletionsAnswered, Answered
<1> QED
  BY <1>0, <1>1, <1>2, <1>3, <1>4, <1>5, TabTurnKeeps DEF LiveSubscribe, Structure

LEMMA TakeChangeKeeps ==
  ASSUME SyncInv, NEW t \in Tabs, TakeChange(t)
  PROVE  Structure' /\ Explained'
<1>0. /\ Types /\ Structure /\ Explained /\ TabOk(thread, subs, live[t], queue[t], fg[t], t)
      /\ queue[t] \in Seq(Change)
  BY TabIs DEF SyncInv
<1>1. /\ live'[t].pc = "got" /\ live'[t].change = Head(queue[t])
      /\ queue'[t] = Tail(queue[t])
      /\ \A x \in Tabs \ {t} : queue'[x] = queue[x] /\ live'[x] = live[x]
  BY <1>0 DEF TakeChange, Types
<1>2. TabOk(thread, subs, live'[t], queue'[t], fg[t], t)
  BY <1>0, <1>1 DEF TabOk, TakeChange
<1>3. Pend(live'[t], queue'[t]) = Heard(t)
  <2>1. Pend(live'[t], queue'[t]) = <<Head(queue[t])>> \o Tail(queue[t])
    BY <1>1 DEF Pend
  <2>2. Heard(t) = queue[t]
    BY DEF Heard, Pend, TakeChange
  <2> QED
    BY <1>0, <2>1, <2>2, PendTake DEF TakeChange
<1>4. /\ t \in subs => DeletionsAnswered(db, thread, undone, t, Heard(t))
      /\ t \in loaded => OwnAwaited(thread, fg[t], t, Heard(t))
      /\ t \in loaded \ raced =>
           /\ MissingExplained(db, thread, undone, entered[t], t, Heard(t), list[t])
           /\ ListedExplained(db, thread, t, Heard(t), list[t])
           /\ EarlyAwaited(thread, fg[t], t, Heard(t), list[t])
  BY <1>0 DEF Explained, Structure, Reliable
<1> QED
  BY <1>0, <1>1, <1>2, <1>3, <1>4, TabTurnKeeps DEF TakeChange, Structure

(* A load that no transaction overlaps shows the table.                     *)
LEMMA ListSetKeeps ==
  ASSUME SyncInv, NEW t \in Tabs, NEW rows, Contents(rows) = Table,
         ListSet(t, rows), fg[t].pc # "writing",
         UNCHANGED <<db, writes, thread, subs, queue, live, undone>>
  PROVE  Structure' /\ Explained'
<1>0. /\ Types /\ Structure /\ Explained /\ TabOk(thread, subs, live[t], queue[t], fg[t], t)
      /\ fg[t].fresh \in BOOLEAN
  BY TabIs DEF SyncInv, FgRec
<1>1. /\ list'[t] = rows /\ \A x \in Tabs \ {t} : list'[x] = list[x]
      /\ fg'[t] = IdleFg /\ \A x \in Tabs \ {t} : fg'[x] = fg[x]
      /\ loaded' = IF fg[t].fresh THEN loaded \cup {t} ELSE loaded
      /\ raced' = IF ReadTooEarly THEN raced \cup {t} ELSE raced \ {t}
      /\ \A x \in Tabs \ {t} : entered'[x] = entered[x]
  BY <1>0 DEF ListSet, Types
<1>2. /\ fg'[t].pc = "idle" /\ fg'[t].fresh = FALSE
  BY <1>1 DEF IdleFg
<1>3. TabOk(thread, subs, live[t], queue[t], fg'[t], t)
  BY <1>0, <1>2 DEF TabOk
<1>4. loaded' \subseteq subs /\ loaded' \subseteq loaded \cup {t}
  BY <1>0, <1>1 DEF TabOk, Structure
<1>5. t \in subs => DeletionsAnswered(db, thread, undone, t, Heard(t))
  BY <1>0 DEF Explained
<1>6. OwnAwaited(thread, fg'[t], t, Heard(t))
  BY <1>2 DEF OwnAwaited
<1>7. \A p \in Pks : Shown(p) => p \in Ids(rows)
  <2> SUFFICES ASSUME NEW p \in Pks, Shown(p) PROVE p \in Ids(rows)
    OBVIOUS
  <2>1. [id |-> p, ver |-> db[p].ver] \in Contents(rows)
    BY DEF Table
  <2>2. [id |-> p, ver |-> db[p].ver].id = p
    OBVIOUS
  <2> QED
    BY <2>1, <2>2, IdsAre
<1>8. MissingExplained(db, thread, undone, entered'[t], t, Heard(t), rows)
  BY <1>7 DEF MissingExplained, Shown
<1>9. ListedExplained(db, thread, t, Heard(t), rows)
  <2>1. \A r \in Table : db[r.id].st = "live" /\ db[r.id].ver = r.ver
    BY DEF Table, Shown
  <2> QED
    BY <2>1 DEF ListedExplained
<1>10. ASSUME t \notin raced' PROVE EarlyAwaited(thread, fg'[t], t, Heard(t), rows)
  <2>1. ~ReadTooEarly
    BY <1>1, <1>10
  <2>2. \A w \in Threads : Open(thread, w) => ~Passed(thread, w, t)
    BY <2>1 DEF ReadTooEarly, Uncommitted, Open, Passed
  <2> QED
    BY <2>2 DEF EarlyAwaited
<1>11. raced \subseteq raced' \cup {t}
  BY <1>1
<1>12. Heard(t) = Pend(live'[t], queue'[t])
  BY DEF Heard
<1> QED
  BY <1>0, <1>1, <1>3, <1>4, <1>5, <1>6, <1>8, <1>9, <1>10, <1>11, <1>12, TabTurnKeeps

LEMMA LoadKeeps ==
  ASSUME SyncInv, NEW t \in Tabs, CountRows(t) \/ FetchRows(t)
  PROVE  Structure' /\ Explained'
<1>1. CASE CountRows(t) /\ \E p \in Pks : Shown(p)
  BY <1>1, CountSomeKeeps
<1>2. CASE CountRows(t) /\ ~\E p \in Pks : Shown(p)
  <2>1. Contents(<<>>) = Table
    BY <1>2, EmptyList DEF Table
  <2> QED
    BY <1>2, <2>1, ListSetKeeps DEF CountRows
<1>3. CASE FetchRows(t)
  BY <1>3, TableAsList, ListSetKeeps DEF FetchRows, SyncInv
<1> QED
  BY <1>1, <1>2, <1>3

-----------------------------------------------------------------------------
(* Patching a list.                                                         *)

LEMMA IdsRemoved ==
  ASSUME NEW rows \in Seq(Listed), NEW p
  PROVE  \A q : q \in Ids(Removed(rows, p)) <=> q \in Ids(rows) /\ q # p
<1> DEFINE out == Removed(rows, p)
<1>1. Contents(out) = { r \in Contents(rows) : r.id # p }
  BY RemovedIs
<1> HIDE DEF out
<1>2. \A q : q \in Ids(out) <=> q \in Ids(rows) /\ q # p
  BY <1>1, IdsAre
<1> QED
  BY <1>2 DEF out

LEMMA IdsPatched ==
  ASSUME NEW rows \in Seq(Listed), NEW row \in Listed, NEW wasCreate \in BOOLEAN
  PROVE  \A q : q \in Ids(Patched(rows, row, wasCreate)) <=>
                  q \in Ids(rows) \/ (wasCreate /\ q = row.id)
<1> DEFINE out == Patched(rows, row, wasCreate)
<1>1. Contents(out) = IF wasCreate \/ row.id \in Ids(rows)
                      THEN { r \in Contents(rows) : r.id # row.id } \cup {row}
                      ELSE Contents(rows)
  BY PatchedIs
<1> HIDE DEF out
<1>2. CASE wasCreate \/ row.id \in Ids(rows)
  <2>1. \A r : r \in Contents(out) <=> (r \in Contents(rows) /\ r.id # row.id) \/ r = row
    BY <1>1, <1>2
  <2>2. \A q : q \in Ids(out) <=> q = row.id \/ (q \in Ids(rows) /\ q # row.id)
    BY <2>1, IdsAre
  <2> QED
    BY <1>2, <2>2 DEF out
<1>3. CASE ~(wasCreate \/ row.id \in Ids(rows))
  <2>1. Contents(out) = Contents(rows)
    BY <1>1, <1>3
  <2>2. \A q : q \in Ids(out) <=> q \in Ids(rows)
    BY <2>1, IdsAre
  <2> QED
    BY <1>3, <2>2 DEF out
<1> QED
  BY <1>2, <1>3

(* Rows of a patched list are the patched row or were there.                *)
LEMMA PatchedRows ==
  ASSUME NEW rows \in Seq(Listed), NEW row \in Listed, NEW wasCreate \in BOOLEAN
  PROVE  \A r \in Contents(Patched(rows, row, wasCreate)) :
           r = row \/ (r \in Contents(rows) /\ r.id # row.id)
<1>1. CASE wasCreate \/ row.id \in Ids(rows)
  BY <1>1, PatchedIs
<1>2. CASE ~(wasCreate \/ row.id \in Ids(rows))
  <2>1. Contents(Patched(rows, row, wasCreate)) = Contents(rows)
    BY <1>2, PatchedIs
  <2>2. \A r \in Contents(rows) : r.id # row.id
    BY <1>2, IdsAre
  <2> QED
    BY <2>1, <2>2
<1> QED
  BY <1>1, <1>2

(* The row a change is about is read again and listed as it is, or taken    *)
(* out.                                                                     *)
LEMMA AppliedFacts ==
  ASSUME Types, NEW t \in Tabs, NEW c \in Change
  PROVE  LET rows == list[t]  out == Applied(t, c)
             drop == c.kind = "deleted" \/ ~Shown(c.pk)
         IN
         /\ \A q : q # c.pk => (q \in Ids(out) <=> q \in Ids(rows))
         /\ drop => c.pk \notin Ids(out)
         /\ ~drop => (c.pk \in Ids(out) <=> c.pk \in Ids(rows) \/ c.kind = "created")
         /\ \A r \in Contents(out) :
              \/ r \in Contents(rows) /\ r.id # c.pk
              \/ ~drop /\ r.id = c.pk /\ r.ver = db[c.pk].ver
<1> DEFINE rows == list[t]
           out == Applied(t, c)
           drop == c.kind = "deleted" \/ ~Shown(c.pk)
           row == [id |-> c.pk, ver |-> db[c.pk].ver]
           cr == c.kind = "created"
<1>1. row \in Listed /\ row.id = c.pk /\ row.ver = db[c.pk].ver
  BY DEF Types, Change, StoredRow, Listed
<1>2. rows \in Seq(Listed) /\ cr \in BOOLEAN
  BY DEF Types
<1>3. CASE drop
  <2>1. out = Removed(rows, c.pk)
    BY <1>3 DEF Applied
  <2>2. /\ \A q : q \in Ids(out) <=> q \in Ids(rows) /\ q # c.pk
        /\ Contents(out) = { r \in Contents(rows) : r.id # c.pk }
    BY <1>2, <2>1, IdsRemoved, RemovedIs
  <2> HIDE DEF out
  <2> QED
    BY <1>3, <2>2 DEF out
<1>4. CASE ~drop
  <2>1. out = Patched(rows, row, cr)
    BY <1>4 DEF Applied
  <2> HIDE DEF out, row, cr
  <2>2. /\ \A q : q \in Ids(out) <=> q \in Ids(rows) \/ (cr /\ q = row.id)
        /\ \A r \in Contents(out) : r = row \/ (r \in Contents(rows) /\ r.id # row.id)
    BY <1>1, <1>2, <2>1, IdsPatched, PatchedRows
  <2> QED
    BY <1>1, <1>4, <2>2 DEF out, cr
<1> QED
  BY <1>3, <1>4

LEMMA ApplyChangeKeeps ==
  ASSUME SyncInv, NEW t \in Tabs, ApplyChange(t)
  PROVE  Structure' /\ Explained'
<1> DEFINE c == live[t].change
           s == Heard(t)
           z == queue[t]
           rows == list[t]
           out == Applied(t, c)
           th == thread
           drop == c.kind = "deleted" \/ ~Shown(c.pk)
<1>0. /\ Types /\ Structure /\ Explained /\ TabOk(thread, subs, live[t], queue[t], fg[t], t)
      /\ queue[t] \in Seq(Change) /\ live[t] \in LiveRec /\ t \in Threads
      /\ live[t].pc = "got" /\ fg[t].pc = "idle" /\ t \in subs
      /\ rows \in Seq(Listed)
  BY TabIs DEF SyncInv, ApplyChange, TabOk
<1>1. c \in Change /\ c.pk \in Pks /\ c.kind \in Kinds
  BY <1>0 DEF LiveRec, Change
<1>2. /\ s \in Seq(Change) /\ s # <<>> /\ Head(s) = c /\ Tail(s) = z
  BY <1>0, PendFacts DEF Heard
<1>3. /\ list'[t] = out /\ \A x \in Tabs \ {t} : list'[x] = list[x]
      /\ live'[t].pc = "wait" /\ \A x \in Tabs \ {t} : live'[x] = live[x]
      /\ raced \subseteq raced' /\ raced' \subseteq raced \cup {t}
  BY <1>0 DEF ApplyChange, Types
<1>4. t \notin raced' => /\ t \notin raced
                         /\ c.kind = "deleted" => c.pk \notin undone
                         /\ c.kind # "deleted" => ~ReadTooEarly
  BY <1>0 DEF ApplyChange, Types
<1>5. TabOk(th, subs, live'[t], queue[t], fg[t], t)
  BY <1>0, <1>3 DEF TabOk
<1>6. Pend(live'[t], queue[t]) = z
  BY <1>3 DEF Pend
<1>7. /\ \A p, k : Awaits(s, p, k) <=> Awaits(z, p, k) \/ (c.pk = p /\ c.kind = k)
      /\ \A p : Answered(s, p) => Answered(z, p)
      /\ \A p : Answered(s, p) /\ c.pk = p /\ c.kind = "deleted" => Awaits(z, p, "created")
  <2> HIDE DEF c, s, z
  <2>1. ASSUME NEW p, NEW k
        PROVE  Awaits(s, p, k) <=> Awaits(z, p, k) \/ (c.pk = p /\ c.kind = k)
    <3>1. Awaits(s, p, k) <=> Awaits(Tail(s), p, k) \/ (Head(s).pk = p /\ Head(s).kind = k)
      BY <1>2, AwaitsTail
    <3> QED
      BY <1>2, <3>1
  <2>2. ASSUME NEW p, Answered(s, p)
        PROVE  /\ Answered(z, p)
               /\ c.pk = p /\ c.kind = "deleted" => Awaits(z, p, "created")
    <3>1. /\ Answered(Tail(s), p)
          /\ Head(s).pk = p /\ Head(s).kind = "deleted" => Awaits(Tail(s), p, "created")
      BY <1>2, <2>2, AnsweredTail
    <3> QED
      BY <1>2, <3>1
  <2> QED
    BY <2>1, <2>2
<1>8. DeletionsAnswered(db, th, undone, t, s)
  BY <1>0 DEF Explained
<1>9. /\ \A q : q # c.pk => (q \in Ids(out) <=> q \in Ids(rows))
      /\ drop => c.pk \notin Ids(out)
      /\ ~drop => (c.pk \in Ids(out) <=> c.pk \in Ids(rows) \/ c.kind = "created")
      /\ \A r \in Contents(out) :
           \/ r \in Contents(rows) /\ r.id # c.pk
           \/ ~drop /\ r.id = c.pk /\ r.ver = db[c.pk].ver
  BY <1>0, <1>1, AppliedFacts
<1> HIDE DEF c, s, z, rows, out
<1>10. DeletionsAnswered(db, th, undone, t, z)
  BY <1>7, <1>8 DEF DeletionsAnswered
<1>11. OwnAwaited(th, fg[t], t, z)
  BY <1>0 DEF OwnAwaited
<1>12. ASSUME t \in loaded, t \notin raced'
       PROVE  /\ MissingExplained(db, th, undone, entered[t], t, z, out)
              /\ ListedExplained(db, th, t, z, out)
              /\ EarlyAwaited(th, fg[t], t, z, out)
  <2>0. /\ MissingExplained(db, th, undone, entered[t], t, s, rows)
        /\ ListedExplained(db, th, t, s, rows)
        /\ EarlyAwaited(th, fg[t], t, s, rows)
    BY <1>0, <1>4, <1>12 DEF Explained, Reliable, s, rows
  <2>1. MissingExplained(db, th, undone, entered[t], t, z, out)
    <3> SUFFICES ASSUME NEW p \in Pks, db[p].st = "live", p \notin Ids(out)
                 PROVE  \/ OpenWrite(th, p, "deleted") \/ Coming(th, t, p, "created")
                        \/ Awaits(z, p, "created") \/ (p \in undone /\ Awaits(z, p, "deleted"))
                        \/ p \in entered[t]
      BY DEF MissingExplained
    <3>1. CASE p # c.pk
      BY <1>7, <1>9, <2>0, <3>1 DEF MissingExplained
    <3>2. CASE p = c.pk /\ c.kind = "deleted"
      <4>1. p \in Pks \ undone
        BY <1>4, <1>12, <3>2
      <4> QED
        BY <1>7, <1>8, <3>2, <4>1 DEF DeletionsAnswered
    <3>3. CASE p = c.pk /\ c.kind # "deleted"
      <4>1. ~drop
        BY <3>3 DEF Shown
      <4>2. c.kind # "created" /\ p \notin Ids(rows)
        BY <1>9, <3>3, <4>1
      <4> QED
        BY <1>7, <2>0, <3>3, <4>2 DEF MissingExplained
    <3> QED
      BY <3>1, <3>2, <3>3
  <2>2. ListedExplained(db, th, t, z, out)
    <3> SUFFICES ASSUME NEW r \in Contents(out)
                 PROVE  \/ db[r.id].st = "live" /\ db[r.id].ver = r.ver
                        \/ \E j \in Kinds : Coming(th, t, r.id, j) \/ Awaits(z, r.id, j)
      BY DEF ListedExplained
    <3>1. CASE r \in Contents(rows) /\ r.id # c.pk
      BY <1>7, <2>0, <3>1 DEF ListedExplained
    <3>2. CASE ~drop /\ r.id = c.pk /\ r.ver = db[c.pk].ver
      BY <3>2 DEF Shown
    <3> QED
      BY <1>9, <3>1, <3>2
  <2>3. EarlyAwaited(th, fg[t], t, z, out)
    <3> SUFFICES ASSUME NEW w \in Threads, Open(th, w), Passed(th, w, t)
                 PROVE  \/ Awaits(z, th[w].pk, th[w].kind)
                        \/ th[w].kind = "deleted" /\ th[w].pk \notin Ids(out)
      BY <1>0 DEF EarlyAwaited
    <3>1. ReadTooEarly
      BY DEF ReadTooEarly, Uncommitted, Open, Passed
    <3>2. c.kind = "deleted"
      BY <1>4, <1>12, <3>1
    <3>3. \A q : q \in Ids(out) => q \in Ids(rows) /\ q # c.pk
      BY <1>9, <3>2
    <3>4. \/ Awaits(s, th[w].pk, th[w].kind)
          \/ th[w].kind = "deleted" /\ th[w].pk \notin Ids(rows)
      BY <2>0 DEF EarlyAwaited
    <3>5. CASE Awaits(z, th[w].pk, th[w].kind)
      BY <3>5
    <3>6. CASE c.pk = th[w].pk /\ c.kind = th[w].kind
      BY <3>2, <3>3, <3>6
    <3>7. CASE th[w].kind = "deleted" /\ th[w].pk \notin Ids(rows)
      BY <3>3, <3>7
    <3> QED
      BY <1>7, <3>4, <3>5, <3>6, <3>7
  <2> QED
    BY <2>1, <2>2, <2>3
<1>13. /\ z = Pend(live'[t], queue'[t]) /\ fg' = fg
       /\ UNCHANGED <<db, thread, undone, entered, subs, loaded, queue>>
  BY <1>6 DEF ApplyChange
<1> QED
  BY <1>0, <1>3, <1>5, <1>10, <1>11, <1>12, <1>13, TabTurnKeeps DEF Structure, z

(* The tab's own write, once it is over, is among the changes it will hear  *)
(* of: patching the list with it needs no other explanation.                *)
LEMMA OwnDeletionAccounted ==
  ASSUME SyncInv, NEW t \in Reliable, NEW p \in Pks,
         fg[t].pc = "writing", thread[t].pc = "done", thread[t].pk = p,
         thread[t].kind = "deleted"
  PROVE  Accounted(t, Removed(list[t], p))
<1> DEFINE rows == list[t]
           out == Removed(list[t], p)
           s == Heard(t)
           th == thread
<1>0. /\ t \in subs \cap loaded /\ rows \in Seq(Listed) /\ Explained
  BY TabIs DEF SyncInv, Types, Reliable
<1>1. /\ MissingExplained(db, th, undone, entered[t], t, s, rows)
      /\ ListedExplained(db, th, t, s, rows)
      /\ EarlyAwaited(th, fg[t], t, s, rows)
      /\ DeletionsAnswered(db, th, undone, t, s)
      /\ OwnAwaited(th, fg[t], t, s)
  BY <1>0 DEF Explained
<1>2. Awaits(s, p, "deleted")
  BY <1>1 DEF OwnAwaited
<1>3. \A q : q \in Ids(out) <=> q \in Ids(rows) /\ q # p
  BY <1>0, IdsRemoved
<1>4. \A r \in Contents(out) : r \in Contents(rows)
  BY <1>0, RemovedIs
<1> HIDE DEF rows, out, s, th
<1>5. MissingExplained(db, th, undone, entered[t], t, s, out)
  <2> SUFFICES ASSUME NEW q \in Pks, db[q].st = "live", q \notin Ids(out)
               PROVE  \/ OpenWrite(th, q, "deleted") \/ Coming(th, t, q, "created")
                      \/ Awaits(s, q, "created") \/ (q \in undone /\ Awaits(s, q, "deleted"))
                      \/ q \in entered[t]
    BY DEF MissingExplained
  <2>1. CASE q # p
    BY <1>1, <1>3, <2>1 DEF MissingExplained
  <2>2. CASE q = p
    <3>1. ASSUME p \notin undone, ~OpenWrite(th, p, "deleted"), ~Coming(th, t, p, "created")
          PROVE  Awaits(s, p, "created")
      <4>1. Answered(s, p)
        BY <1>1, <2>2, <3>1 DEF DeletionsAnswered
      <4> QED
        BY <1>2, <4>1, AnsweredAwaits
    <3> QED
      BY <1>2, <2>2, <3>1
  <2> QED
    BY <2>1, <2>2
<1>6. ListedExplained(db, th, t, s, out)
  BY <1>1, <1>4 DEF ListedExplained
<1>7. EarlyAwaited(th, fg[t], t, s, out)
  BY <1>1, <1>3 DEF EarlyAwaited
<1> QED
  BY <1>5, <1>6, <1>7 DEF Accounted, s, th, out

LEMMA OwnSaveAccounted ==
  ASSUME SyncInv, NEW t \in Reliable, NEW p \in Pks, NEW row \in Listed, row.id = p,
         fg[t].pc = "writing", fg[t].pk = p, thread[t].pc = "done", thread[t].pk = p,
         NEW wasCreate \in BOOLEAN
  PROVE  Accounted(t, Patched(list[t], row, wasCreate))
<1> DEFINE rows == list[t]
           out == Patched(list[t], row, wasCreate)
           s == Heard(t)
           th == thread
<1>0. /\ t \in subs \cap loaded /\ rows \in Seq(Listed) /\ Explained
      /\ th[t].kind \in Kinds
  BY TabIs DEF SyncInv, Types, Reliable, ThreadRec
<1>1. /\ MissingExplained(db, th, undone, entered[t], t, s, rows)
      /\ ListedExplained(db, th, t, s, rows)
      /\ EarlyAwaited(th, fg[t], t, s, rows)
      /\ OwnAwaited(th, fg[t], t, s)
  BY <1>0 DEF Explained
<1>2. Awaits(s, p, th[t].kind)
  BY <1>1 DEF OwnAwaited
<1>3. \A q : q \in Ids(out) <=> q \in Ids(rows) \/ (wasCreate /\ q = p)
  BY <1>0, IdsPatched
<1>4. \A r \in Contents(out) : r.id = p \/ r \in Contents(rows)
  BY <1>0, PatchedRows
<1> HIDE DEF rows, out, s
<1>5. MissingExplained(db, th, undone, entered[t], t, s, out)
  BY <1>1, <1>3 DEF MissingExplained
<1>6. ListedExplained(db, th, t, s, out)
  BY <1>0, <1>1, <1>2, <1>4 DEF ListedExplained
<1>7. EarlyAwaited(th, fg[t], t, s, out)
  BY <1>1, <1>3 DEF EarlyAwaited
<1> QED
  BY <1>5, <1>6, <1>7 DEF Accounted, s, out

LEMMA PatchOwnKeeps ==
  ASSUME SyncInv, NEW t \in Tabs, PatchOwn(t)
  PROVE  Structure' /\ Explained'
<1> DEFINE p == fg[t].pk
           row == [id |-> p, ver |-> thread[t].row.ver]
           cr == fg[t].op = "create"
           rows == IF fg[t].op = "delete" THEN Removed(list[t], p)
                   ELSE Patched(list[t], row, cr)
<1>0. /\ Types /\ t \in Threads /\ TabOk(thread, subs, live[t], queue[t], fg[t], t)
      /\ list[t] \in Seq(Listed) /\ p \in Pks /\ fg[t] \in FgRec
      /\ fg[t].pc = "writing" /\ thread[t].pc = "done"
  BY TabIs DEF SyncInv, FgRec, PatchOwn
<1>1. /\ \A x \in Threads \ {t} : thread'[x] = thread[x]
      /\ thread'[t].pc = "idle" /\ thread'[t].to = {}
  BY <1>0 DEF PatchOwn, Types, IdleThread
<1>2. thread[t].pk = p /\ (fg[t].op = "delete" <=> thread[t].kind = "deleted")
  BY <1>0 DEF TabOk
<1>3. row \in Listed /\ row.id = p /\ cr \in BOOLEAN
  BY <1>0 DEF Types, ThreadRec, StoredRow, Listed
<1>4. /\ \A x \in Tabs \ {t} : fg'[x] = fg[x]
      /\ fg'[t].pc \in {"idle", "count"}
      /\ fg'[t].fresh = FALSE \/ fg'[t].fresh = fg[t].fresh
  BY <1>0 DEF PatchOwn, Types, IdleFg, FgRec
<1>5. TabOk(thread', subs, live[t], queue[t], fg'[t], t)
  BY <1>0, <1>1, <1>4 DEF TabOk
<1>6. rows \in Seq(Listed)
  <2>1. CASE fg[t].op = "delete"
    BY <1>0, <2>1, RemovedIs
  <2>2. CASE fg[t].op # "delete"
    <3> HIDE DEF row, cr
    <3>1. rows = Patched(list[t], row, cr)
      BY <2>2
    <3> QED
      BY <1>0, <1>3, <3>1, PatchedIs
  <2> QED
    BY <2>1, <2>2
<1>7. ASSUME t \in Reliable PROVE Accounted(t, rows)
  <2>1. CASE fg[t].op = "delete"
    BY <1>0, <1>2, <1>7, <2>1, OwnDeletionAccounted
  <2>2. CASE fg[t].op # "delete"
    <3> HIDE DEF row, cr
    <3>1. rows = Patched(list[t], row, cr)
      BY <2>2
    <3> QED
      BY <1>0, <1>2, <1>3, <1>7, <3>1, OwnSaveAccounted
  <2> QED
    BY <2>1, <2>2
<1>8. list' = list \/ list' = [list EXCEPT ![t] = rows]
  BY DEF PatchOwn
<1> HIDE DEF rows
<1>9. \A x \in Tabs : \/ list'[x] = list[x]
                      \/ /\ x = t /\ list'[x] \in Seq(Listed)
                         /\ x \in Reliable => Accounted(x, list'[x])
  BY <1>0, <1>6, <1>7, <1>8 DEF Types
<1>10. Silent(thread, t)
  BY <1>0 DEF Silent
<1>11. UNCHANGED <<db, subs, queue, live, loaded, raced, undone, entered>>
  BY DEF PatchOwn
<1> QED
  BY <1>0, <1>1, <1>4, <1>5, <1>9, <1>10, <1>11, SilentKeeps

LEMMA LeaveKeeps ==
  ASSUME SyncInv, NEW t0 \in Tabs, Leave(t0)
  PROVE  Structure' /\ Explained'
<1> DEFINE th == thread
           h == thread'
<1>0. /\ Types /\ Structure /\ Explained /\ Reliable \subseteq subs
      /\ \A t \in Tabs : t \in Threads /\ list[t] \in Seq(Listed)
      /\ subs \subseteq Tabs
  BY DEF SyncInv, Types, Reliable, Threads
<1>1. \A w \in Threads :
        /\ h[w].pc = th[w].pc /\ h[w].pk = th[w].pk /\ h[w].kind = th[w].kind
        /\ h[w].row = th[w].row /\ h[w].to = th[w].to \ {t0}
  BY <1>0 DEF Leave, Types, ThreadRec
<1>2. /\ subs' = subs \ {t0} /\ loaded' = loaded \ {t0}
      /\ queue'[t0] = <<>> /\ live'[t0].pc = "off"
      /\ fg'[t0].pc = fg[t0].pc /\ fg'[t0].pk = fg[t0].pk /\ fg'[t0].op = fg[t0].op
      /\ fg'[t0].fresh = FALSE
      /\ \A t \in Tabs \ {t0} :
           queue'[t] = queue[t] /\ live'[t] = live[t] /\ fg'[t] = fg[t]
  BY <1>0 DEF Leave, Types, FgRec
<1>3. \A x \in Threads : Open(h, x) <=> Open(th, x)
  BY <1>1 DEF Open
<1>4. \A t \in Tabs \ {t0} : Alike(th, h, t)
  <2>1. \A t \in Tabs \ {t0}, p \in Pks, k \in Kinds : Coming(h, t, p, k) <=> Coming(th, t, p, k)
    BY <1>1 DEF Coming
  <2>2. \A p, k : OpenWrite(h, p, k) <=> OpenWrite(th, p, k)
    BY <1>1, <1>3 DEF OpenWrite
  <2> QED
    BY <2>1, <2>2 DEF Alike
<1>5. \A t \in Tabs \ {t0}, x \in Threads : Passed(h, x, t) <=> Passed(th, x, t)
  BY <1>1 DEF Passed
<1>6. LockedOnce(h)
  BY <1>0, <1>1, <1>3 DEF LockedOnce, Structure
<1>7. \A x \in Threads : ThreadOk(db, h, subs', x)
  <2> SUFFICES ASSUME NEW x \in Threads PROVE ThreadOk(db, h, subs', x)
    OBVIOUS
  <2>1. ThreadOk(db, th, subs, x)
    BY <1>0 DEF Structure
  <2> QED
    BY <1>1, <1>2, <1>3, <2>1 DEF ThreadOk
<1>8. \A t \in Tabs : TabOk(h, subs', live'[t], queue'[t], fg'[t], t)
  <2> SUFFICES ASSUME NEW t \in Tabs PROVE TabOk(h, subs', live'[t], queue'[t], fg'[t], t)
    OBVIOUS
  <2>1. TabOk(th, subs, live[t], queue[t], fg[t], t)
    BY <1>0 DEF Structure
  <2>2. h[t].pc = th[t].pc /\ h[t].pk = th[t].pk /\ h[t].kind = th[t].kind
    BY <1>0, <1>1
  <2>3. CASE t = t0
    BY <1>2, <2>1, <2>2, <2>3 DEF TabOk
  <2>4. CASE t # t0
    BY <1>2, <2>1, <2>2, <2>4 DEF TabOk
  <2> QED
    BY <2>3, <2>4
<1>9. Structure'
  BY <1>0, <1>2, <1>6, <1>7, <1>8 DEF Structure, Leave
<1>10. \A t \in Tabs \ {t0} : NoNewPassed(th, h, fg[t], fg[t], t)
  BY <1>0, <1>1, <1>3, <1>5 DEF NoNewPassed
<1>11. \A t \in (subs \cap loaded) \ {t0} : OwnAwaited(h, fg[t], t, Heard(t))
  <2> SUFFICES ASSUME NEW t \in (subs \cap loaded) \ {t0}
               PROVE  OwnAwaited(h, fg[t], t, Heard(t))
    OBVIOUS
  <2>1. OwnAwaited(th, fg[t], t, Heard(t)) /\ t \in Threads /\ t \in Tabs
    BY <1>0 DEF Explained
  <2> QED
    BY <1>1, <1>5, <2>1 DEF OwnAwaited
<1>12. \A t \in subs \ {t0} : DeletionsAnswered(db, h, undone, t, Heard(t))
  BY <1>0, <1>4, AlikeKeeps DEF Explained
<1>13. \A t \in Reliable \ {t0} :
         /\ MissingExplained(db, h, undone, entered[t], t, Heard(t), list[t])
         /\ ListedExplained(db, h, t, Heard(t), list[t])
  BY <1>0, <1>4, AlikeKeeps DEF Explained
<1>14. \A t \in Reliable \ {t0} : EarlyAwaited(h, fg[t], t, Heard(t), list[t])
  BY <1>0, <1>10, EarlyKept DEF Explained
<1>15. \A t \in Tabs \ {t0} : Pend(live'[t], queue'[t]) = Heard(t) /\ fg'[t] = fg[t]
  BY <1>2 DEF Heard
<1>16. UNCHANGED <<db, undone, list, raced, entered>>
  BY DEF Leave
<1> HIDE DEF h, th
<1>17. Explained'
  BY <1>0, <1>2, <1>11, <1>12, <1>13, <1>14, <1>15, <1>16 DEF Explained, Heard, Reliable, h
<1> QED
  BY <1>9, <1>17

-----------------------------------------------------------------------------

LEMMA SyncInit == ASSUME Init PROVE SyncInv
<1>1. Types
  BY TypesInit
<1>2. \A w \in Threads : thread[w] = IdleThread
  BY DEF Init
<1>3. \A w \in Threads : thread[w].pc = "idle" /\ thread[w].to = {}
  BY <1>2 DEF IdleThread
<1>4. \A w \in Threads : ~Open(thread, w)
  BY <1>3 DEF Open
<1>5. subs = {} /\ loaded = {} /\ Reliable = {}
  BY DEF Init, Reliable
<1>6. \A w \in Threads : ThreadOk(db, thread, subs, w)
  BY <1>3, <1>4 DEF ThreadOk
<1>7. \A t \in Tabs : TabOk(thread, subs, live[t], queue[t], fg[t], t)
  <2> SUFFICES ASSUME NEW t \in Tabs
               PROVE  TabOk(thread, subs, live[t], queue[t], fg[t], t)
    OBVIOUS
  <2>1. t \in Threads /\ live[t].pc = "off" /\ queue[t] = <<>> /\ fg[t] = IdleFg
    BY DEF Threads, Init
  <2>2. fg[t].pc = "idle" /\ fg[t].fresh = FALSE
    BY <2>1 DEF IdleFg
  <2> QED
    BY <1>3, <1>5, <2>1, <2>2 DEF TabOk
<1>8. Structure
  BY <1>4, <1>5, <1>6, <1>7 DEF Structure, LockedOnce
<1> QED
  BY <1>1, <1>5, <1>8 DEF SyncInv, Explained

LEMMA SyncNext ==
  ASSUME SubscribeFirst, SyncInv, AllDistinct, [Next]_vars
  PROVE  SyncInv'
<1>1. Types'
  BY TypesNext DEF SyncInv
<1>2. CASE \E w \in Writers : OtherWrites(w)
  BY <1>1, <1>2, OtherWritesKeep DEF SyncInv
<1>3. CASE \E w \in Threads : ThreadStep(w)
  BY <1>1, <1>3, PublishKeeps, SendKeeps, SentKeeps, EndKeeps DEF SyncInv, ThreadStep
<1>4. CASE \E t \in Tabs : TabStep(t)
  BY <1>1, <1>4, TakeChangeKeeps, ApplyChangeKeeps, LoadKeeps, OwnWriteKeeps, PatchOwnKeeps
     DEF SyncInv, TabStep
<1>5. CASE \E t \in Tabs : LiveSubscribe(t) \/ StartLoad(t) \/ Leave(t)
  BY <1>1, <1>5, LiveSubscribeKeeps, StartLoadKeeps, LeaveKeeps DEF SyncInv
<1>6. CASE \E t \in Tabs, op \in {"create", "update", "delete"}, p \in Pks :
             StartWrite(t, op, p)
  BY <1>1, <1>6, StartWriteKeeps DEF SyncInv
<1>7. CASE UNCHANGED vars
  BY <1>7 DEF vars, SyncInv, Types, Structure, Explained, Heard, Reliable
<1> QED
  BY <1>2, <1>3, <1>4, <1>5, <1>6, <1>7 DEF Next

(* When nothing is under way, nothing explains a difference.                *)
LEMMA QuietSynced ==
  ASSUME SyncInv PROVE InSync
<1> SUFFICES ASSUME NEW t \in Tabs \ raced, t \in loaded, Quiet(t)
             PROVE  Follows(t)
  BY DEF InSync, Synced
<1>1. t \in Reliable /\ Types /\ Explained /\ list[t] \in Seq(Listed)
  BY DEF SyncInv, Types, Reliable, Quiet
<1>2. Heard(t) = <<>>
  BY DEF Heard, Pend, Quiet
<1>3. \A p, k : ~Awaits(<<>>, p, k)
  BY DEF Awaits
<1>4. \A p, k : ~Coming(thread, t, p, k) /\ ~OpenWrite(thread, p, k)
  BY DEF Coming, OpenWrite, Open, Quiet
<1>5. \A p \in Pks \ entered[t] : Shown(p) => p \in Ids(list[t])
  BY <1>1, <1>2, <1>3, <1>4 DEF Explained, MissingExplained, Shown
<1>6. \A r \in Contents(list[t]) : Shown(r.id) /\ db[r.id].ver = r.ver
  BY <1>1, <1>2, <1>3, <1>4 DEF Explained, ListedExplained, Shown
<1>7. \A r \in Contents(list[t]) :
        r.id \in Pks /\ r = [id |-> r.id, ver |-> r.ver]
  <2>1. \A r \in Listed : r.id \in Pks /\ r = [id |-> r.id, ver |-> r.ver]
    BY DEF Listed
  <2> QED
    BY <1>1, <2>1, ContentsType
<1>8. Contents(list[t]) \subseteq Table
  BY <1>6, <1>7 DEF Table
<1> QED
  BY <1>5, <1>8 DEF Follows

(* live_subscribe before the load, apply_live_change reading the row again: *)
(* a tab that has worked off its changes lists rows as they are in the      *)
(* table, and all but those that an update brought into the scope since the *)
(* load (patch_list_row ignores these), whatever the order of its own       *)
(* events, of other requests, of commits and rollbacks - unless it read a   *)
(* row between its publication and its commit or heard of a deletion that   *)
(* was rolled back, which the code does not prevent.                        *)
THEOREM ListFollowsTable ==
  ASSUME SubscribeFirst PROVE Spec => []InSync
<1>1. Init => SyncInv /\ AllDistinct
  BY SyncInit, TypesInit
<1>2. (SyncInv /\ AllDistinct) /\ [Next]_vars => (SyncInv /\ AllDistinct)'
  BY SyncNext, TypesNext DEF SyncInv
<1>3. SyncInv => InSync
  BY QuietSynced
<1> QED
  BY <1>1, <1>2, <1>3, PTL DEF Spec
=============================================================================
