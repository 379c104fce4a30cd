--------------------------- MODULE ModelStateProofs --------------------------
(* Proofs about ModelState: types; the form never edits a row that was      *)
(* deleted nor is inserted twice; the list is what loading it would show.   *)
EXTENDS ModelState, PickTheorems, SequenceTheorems

-----------------------------------------------------------------------------
(* The inductive invariant. *)

(* An event under way knows its row, and the values it is to store; what it *)
(* is about to write or erase was inserted.                                 *)
EventOK ==
  /\ ev.pc \in {"insert", "retrieve", "update"} => ev.data \in Values
  /\ ev.pc \in {"find", "retrieve", "update", "get", "erase"} => ev.pk \in Pks
  /\ ev.pc \in {"update", "erase"} => ev.pk \in 1 .. rows

(* No row is there, or was deleted, before its number was given out. *)
RowsOK == \A p \in Pks : p \notin 1 .. rows => db[p] = Blank /\ p \notin erased

(* What this state deleted stays deleted: neither the form nor a save that  *)
(* found its row before another request deleted it brings it back.          *)
ErasedOK ==
  /\ \A p \in erased : db[p] = Blank
  /\ editing \notin erased
  /\ ev.pc = "update" => ev.pk \notin erased

IInv == TypeOK /\ EventOK /\ RowsOK /\ ErasedOK /\ NoSecondInsert

-----------------------------------------------------------------------------
(* What the helpers return. *)

(* Rows are numbered from one; no number says that none is edited. *)
LEMMA Numbers ==
  /\ MaxRows \in Nat /\ MaxUpdates \in Nat /\ MaxPageSize \in Nat \ {0}
  /\ NotEditing \notin Pks /\ Pks \subseteq Nat
  BY ConstantsAssumption DEF Pks, NotEditing

(* A page is not empty and no longer than max_page_size. *)
LEMMA SizeType ==
  ASSUME TypeOK PROVE Size \in Nat \ {0} /\ opts.paginate_by \in Nat
<1>1. opts.paginate_by \in Nat
  BY ConstantsAssumption DEF TypeOK
<1>2. (IF pageSize = 0 THEN opts.paginate_by ELSE pageSize) \in Nat
  BY <1>1, ConstantsAssumption DEF TypeOK
<1> QED
  BY <1>1, <1>2, ConstantsAssumption DEF Size, IntMin, IntMax

LEMMA ClampedSizeType ==
  ASSUME NEW size \in Int PROVE ClampedSize(size) \in 1 .. MaxPageSize
  BY ConstantsAssumption DEF ClampedSize, IntMin, IntMax

(* There is a page for every number of rows. *)
LEMMA PageCountType ==
  ASSUME TypeOK, NEW total \in Nat
  PROVE  /\ PageCountOf(total) \in Nat \ {0}
         /\ ClampedPage(total) \in Nat \ {0}
<1>1. Size \in Nat \ {0} /\ page \in Nat \ {0}
  BY SizeType DEF TypeOK
<1>2. total + Size - 1 \in Nat
  BY <1>1
<1>3. (total + Size - 1) \div Size \in Nat
  BY <1>1, <1>2
<1>4. PageCountOf(total) \in Nat \ {0}
  BY <1>3 DEF PageCountOf, IntMax
<1> QED
  BY <1>1, <1>4 DEF ClampedPage, IntMin

(* The rows of any table as a sequence, those a search matches, and the     *)
(* query of a list: all of these are functions of the table and the search. *)
Cell == [id: Pks, val: Values \cup {Blank}]
Tables == [Pks -> Values \cup {Blank}]
NewestOf(d) == [i \in Pks |-> [id |-> MaxRows + 1 - i, val |-> d[MaxRows + 1 - i]]]
Matched(d, s, p) == d[p] # Blank /\ s \in {Blank, d[p]}
MatchesOf(d, s) == { i \in Pks : Matched(d, s, MaxRows + 1 - i) }
QueryOf(d, s) == Picked(NewestOf(d), MatchesOf(d, s))

(* A row's number counts from the other end. *)
LEMMA Mirrored ==
  \A i \in Pks : MaxRows + 1 - i \in Pks /\ MaxRows + 1 - (MaxRows + 1 - i) = i
BY Numbers DEF Pks

LEMMA NewestIs ==
  ASSUME NEW d \in Tables, NEW s
  PROVE  /\ NewestOf(d) \in Seq(Cell) /\ DOMAIN NewestOf(d) = Pks
         /\ MatchesOf(d, s) \in SUBSET (DOMAIN NewestOf(d))
<1>1. \A i \in Pks : NewestOf(d)[i] \in Cell
  BY Mirrored DEF NewestOf, Cell, Tables
<1>2. NewestOf(d) \in [1 .. MaxRows -> Cell]
  BY <1>1 DEF NewestOf, Pks
<1>3. NewestOf(d) \in Seq(Cell)
  BY <1>2, ConstantsAssumption
<1> QED
  BY <1>3 DEF NewestOf, MatchesOf

(* Where the rows of a query come from. *)
LEMMA QueryPicks ==
  ASSUME NEW d \in Tables, NEW s
  PROVE  LET n == Cardinality(MatchesOf(d, s))
             pos == Positions(MatchesOf(d, s))
         IN /\ n \in Nat /\ QueryOf(d, s) \in Seq(Cell)
            /\ Len(QueryOf(d, s)) = n /\ DOMAIN QueryOf(d, s) = 1 .. n
            /\ \A i, j \in 1 .. n : i < j => pos[i] < pos[j]
            /\ \A k \in MatchesOf(d, s) : \E i \in 1 .. n : pos[i] = k
            /\ \A i \in 1 .. n :
                 /\ pos[i] \in MatchesOf(d, s) /\ pos[i] \in Pks
                 /\ QueryOf(d, s)[i] = NewestOf(d)[pos[i]]
<1> DEFINE at == MatchesOf(d, s)
           n == Cardinality(at)
           pos == Positions(at)
           rs == QueryOf(d, s)
<1>1. rs = Picked(NewestOf(d), at)
  BY DEF QueryOf
<1>2. NewestOf(d) \in Seq(Cell) /\ at \in SUBSET (DOMAIN NewestOf(d)) /\ at \in SUBSET Pks
  BY NewestIs
<1> HIDE DEF at, rs
<1>3. /\ rs \in Seq(Cell) /\ n \in Nat /\ Len(rs) = n /\ DOMAIN rs = 1 .. n
      /\ pos \in [1 .. n -> at] /\ Increasing(pos)
  BY <1>1, <1>2, PickedIs
<1>4. \A k \in at : \E i \in 1 .. n : pos[i] = k
  BY <1>2, PickedIs
<1>5. \A i \in 1 .. n : rs[i] = NewestOf(d)[pos[i]]
  BY <1>1, <1>2, PickedIs
<1>6. \A i, j \in 1 .. n : i < j => pos[i] < pos[j]
  BY <1>3 DEF Increasing
<1>7. \A i \in 1 .. n : pos[i] \in at /\ pos[i] \in Pks
  BY <1>2, <1>3
<1> QED
  BY <1>3, <1>4, <1>5, <1>6, <1>7 DEF at, rs

(* The query has every matching row, newest first. *)
LEMMA QueryIs ==
  ASSUME NEW d \in Tables, NEW s
  PROVE  /\ QueryOf(d, s) \in Seq(Row)
         /\ Len(QueryOf(d, s)) \in Nat
         /\ DOMAIN QueryOf(d, s) = 1 .. Len(QueryOf(d, s))
         /\ \A i, j \in DOMAIN QueryOf(d, s) :
              i < j => QueryOf(d, s)[i].id > QueryOf(d, s)[j].id
         /\ \A i \in DOMAIN QueryOf(d, s) :
              /\ QueryOf(d, s)[i].val = d[QueryOf(d, s)[i].id]
              /\ Matched(d, s, QueryOf(d, s)[i].id)
         /\ \A p \in Pks : Matched(d, s, p) =>
              \E i \in DOMAIN QueryOf(d, s) : QueryOf(d, s)[i].id = p
<1> DEFINE n == Cardinality(MatchesOf(d, s))
           pos == Positions(MatchesOf(d, s))
           rs == QueryOf(d, s)
<1>3. /\ rs \in Seq(Cell) /\ n \in Nat /\ Len(rs) = n /\ DOMAIN rs = 1 .. n
      /\ \A i, j \in 1 .. n : i < j => pos[i] < pos[j]
      /\ \A k \in MatchesOf(d, s) : \E i \in 1 .. n : pos[i] = k
      /\ \A i \in 1 .. n : /\ pos[i] \in MatchesOf(d, s) /\ pos[i] \in Pks
                           /\ rs[i] = NewestOf(d)[pos[i]]
  BY QueryPicks
<1> HIDE DEF n, pos, rs
<1>4. \A i \in 1 .. n : /\ rs[i].id = MaxRows + 1 - pos[i]
                        /\ rs[i].val = d[MaxRows + 1 - pos[i]]
                        /\ Matched(d, s, MaxRows + 1 - pos[i])
                        /\ rs[i].id \in Pks
  <2> SUFFICES ASSUME NEW i \in 1 .. n
               PROVE  /\ rs[i].id = MaxRows + 1 - pos[i]
                      /\ rs[i].val = d[MaxRows + 1 - pos[i]]
                      /\ Matched(d, s, MaxRows + 1 - pos[i])
                      /\ rs[i].id \in Pks
    OBVIOUS
  <2>1. pos[i] \in MatchesOf(d, s) /\ pos[i] \in Pks /\ rs[i] = NewestOf(d)[pos[i]]
    BY <1>3
  <2>2. rs[i] = [id |-> MaxRows + 1 - pos[i], val |-> d[MaxRows + 1 - pos[i]]]
    BY <2>1 DEF NewestOf
  <2>3. MaxRows + 1 - pos[i] \in Pks
    BY <2>1, Mirrored
  <2> QED
    BY <2>1, <2>2, <2>3 DEF MatchesOf
<1>5. \A i \in 1 .. n : rs[i] \in Row
  <2> SUFFICES ASSUME NEW i \in 1 .. n PROVE rs[i] \in Row
    OBVIOUS
  <2>1. rs[i] \in Cell
    BY <1>3
  <2>2. rs[i].val # Blank
    BY <1>4 DEF Matched
  <2> QED
    BY <2>1, <2>2 DEF Cell, Row
<1>6. rs \in Seq(Row)
  <2>1. rs = [i \in 1 .. n |-> rs[i]]
    BY <1>3
  <2>2. rs \in [1 .. n -> Row]
    BY <1>5, <2>1
  <2> QED
    BY <1>3, <2>2
<1>7. ASSUME NEW i \in 1 .. n, NEW j \in 1 .. n, i < j PROVE rs[i].id > rs[j].id
  <2>1. pos[i] < pos[j]
    BY <1>3, <1>7
  <2>2. pos[i] \in Nat /\ pos[j] \in Nat /\ MaxRows \in Nat
    BY <1>3, Numbers
  <2>3. rs[i].id = MaxRows + 1 - pos[i] /\ rs[j].id = MaxRows + 1 - pos[j]
    BY <1>4
  <2> QED
    BY <2>1, <2>2, <2>3
<1>8. ASSUME NEW p \in Pks, Matched(d, s, p)
      PROVE  \E i \in 1 .. n : rs[i].id = p
  <2> DEFINE k == MaxRows + 1 - p
  <2>1. k \in Pks /\ MaxRows + 1 - k = p
    BY Mirrored
  <2>2. k \in MatchesOf(d, s)
    BY <1>8, <2>1 DEF MatchesOf
  <2>3. PICK i \in 1 .. n : pos[i] = k
    BY <1>3, <2>2
  <2> QED
    BY <1>4, <2>1, <2>3
<1>9. \A i \in 1 .. n : rs[i].val = d[rs[i].id] /\ Matched(d, s, rs[i].id)
  BY <1>4
<1> QED
  BY <1>3, <1>6, <1>7, <1>8, <1>9 DEF rs

(* Which query the model's is, before and after a step. *)
LEMMA ScopedIs ==
  /\ ScopedQuery = QueryOf(db, search)
  /\ ScopedQuery' = QueryOf(db', search')
BY DEF ScopedQuery, QueryOf, Newest, NewestOf, Matching, MatchesOf, Matched, Pks

LEMMA ScopedType ==
  ASSUME TypeOK PROVE ScopedQuery \in Seq(Row) /\ Len(ScopedQuery) \in Nat
BY ScopedIs, QueryIs DEF TypeOK, Tables

(* What a page shows of a sequence of rows. *)
PageStart(n) == IF Paginated THEN (n - 1) * Size + 1 ELSE 1
PageEnd(rs, n) == IF Paginated THEN IntMin(n * Size, Len(rs)) ELSE Len(rs)

LEMMA PageIs ==
  ASSUME TypeOK, NEW rs \in Seq(Row), NEW n \in Nat \ {0}
  PROVE  /\ PageOf(rs, n) \in Seq(Row)
         /\ PageStart(n) \in Nat \ {0} /\ PageEnd(rs, n) \in 0 .. Len(rs)
         /\ Len(PageOf(rs, n)) = IF PageStart(n) <= PageEnd(rs, n)
                                 THEN PageEnd(rs, n) - PageStart(n) + 1 ELSE 0
         /\ \A i \in 1 .. PageEnd(rs, n) - PageStart(n) + 1 :
              PageOf(rs, n)[i] = rs[PageStart(n) + i - 1]
<1> DEFINE lo == PageStart(n)
           hi == PageEnd(rs, n)
<1>1. Len(rs) \in Nat /\ Size \in Nat \ {0} /\ DOMAIN rs = 1 .. Len(rs)
  BY SizeType
<1>2. (n - 1) * Size \in Nat /\ n * Size \in Nat
  BY <1>1
<1>3. lo \in Nat \ {0} /\ hi \in 0 .. Len(rs)
  BY <1>1, <1>2 DEF PageStart, PageEnd, IntMin
<1>4. PageOf(rs, n) = SubSeq(rs, lo, hi)
  <2>1. CASE Paginated
    BY <2>1 DEF PageOf, PageStart, PageEnd
  <2>2. CASE ~Paginated
    <3>1. SubSeq(rs, 1, Len(rs)) = rs
      BY SubSeqFull
    <3> QED
      BY <2>2, <3>1 DEF PageOf, PageStart, PageEnd
  <2> QED
    BY <2>1, <2>2
<1> HIDE DEF lo, hi
<1>5. \A i \in lo .. hi : rs[i] \in Row
  BY <1>1, <1>3
<1>6. lo \in Int /\ hi \in Int
  BY <1>3
<1>7. /\ SubSeq(rs, lo, hi) \in Seq(Row)
      /\ Len(SubSeq(rs, lo, hi)) = IF lo <= hi THEN hi - lo + 1 ELSE 0
      /\ \A i \in 1 .. hi - lo + 1 : SubSeq(rs, lo, hi)[i] = rs[lo + i - 1]
  BY <1>5, <1>6, SubSeqProperties
<1> QED
  BY <1>3, <1>4, <1>7 DEF lo, hi

-----------------------------------------------------------------------------
(* Steps. *)

Events == [pc: {"idle"} \cup Awaiting, act: {"none", "load", "save", "delete", "edit"},
           pk: Pks \cup {NotEditing}, data: Values \cup {Blank}]

(* Between events, nothing is under way. *)
LEMMA IdleEvent == Idle \in Events /\ Idle.pc = "idle"
  BY DEF Idle, Events

(* An event is begun. *)
LEMMA BeginEvent ==
  ASSUME NEW step \in Awaiting, NEW act \in {"load", "save", "delete", "edit"},
         NEW pk \in Pks \cup {NotEditing}, NEW data \in Values \cup {Blank},
         Begin(step, act, pk, data)
  PROVE  /\ ev' \in Events /\ ev'.pc = step /\ ev'.pk = pk /\ ev'.data = data
         /\ ev.pc = "idle"
  BY DEF Begin, Events, Awaiting

(* An event goes on. *)
LEMMA GoEvent ==
  ASSUME TypeOK, NEW step \in Awaiting, Go(step)
  PROVE  ev' \in Events /\ ev'.pc = step /\ ev'.pk = ev.pk /\ ev'.data = ev.data
  BY DEF TypeOK, Go, Events, Awaiting

(* A step that leaves the form and the table alone. *)
LEMMA Untouched ==
  ASSUME IInv, UNCHANGED <<opts, form, table>>,
         ev' \in Events, EventOK', ev'.pc = "update" => ev'.pk \notin erased,
         list' \in Seq(Row), page' \in Nat \ {0},
         pageSize' \in 1 .. MaxPageSize \cup {opts.paginate_by},
         pageCount' \in Nat, totalCount' \in Nat, search' \in Values \cup {Blank},
         error' \in BOOLEAN, clean' \in BOOLEAN
  PROVE  IInv'
<1>1. TypeOK'
  BY DEF IInv, TypeOK, form, table, Events
<1>2. RowsOK' /\ ErasedOK' /\ NoSecondInsert'
  BY DEF IInv, RowsOK, ErasedOK, NoSecondInsert, form, table
<1> QED
  BY <1>1, <1>2 DEF IInv

(* A list is to be loaded. *)
LEMMA LoadStep ==
  ASSUME IInv, opts' = opts, StartLoad, UNCHANGED <<list, form, table>>,
         page' \in Nat \ {0},
         pageSize' \in 1 .. MaxPageSize \cup {opts.paginate_by},
         pageCount' \in Nat, totalCount' \in Nat, search' \in Values \cup {Blank}
  PROVE  IInv'
<1>1. ev' \in Events /\ ev'.pc = "count"
  BY BeginEvent DEF StartLoad, Awaiting
<1>2. EventOK'
  BY <1>1 DEF EventOK
<1>3. error' \in BOOLEAN /\ clean' \in BOOLEAN
  BY DEF StartLoad
<1>4. list' \in Seq(Row)
  BY DEF IInv, TypeOK
<1> QED
  BY <1>1, <1>2, <1>3, <1>4, Untouched

LEMMA ListEventStep ==
  ASSUME IInv, opts' = opts, ListEvent PROVE IInv'
<1>1. /\ page \in Nat \ {0} /\ pageCount \in Nat /\ totalCount \in Nat
      /\ pageSize \in 1 .. MaxPageSize \cup {opts.paginate_by}
      /\ search \in Values \cup {Blank}
  BY DEF IInv, TypeOK
<1>2. ASSUME NEW n \in Nat \ {0},
             NEW size \in 1 .. MaxPageSize \cup {opts.paginate_by},
             Reloads(n, size)
      PROVE  IInv'
  BY <1>1, <1>2, LoadStep DEF Reloads
<1>3. CASE Refresh
  BY <1>1, <1>3, LoadStep DEF Refresh, view
<1>4. CASE NextPage
  <2>1. page + 1 \in Nat \ {0}
    BY <1>1
  <2> QED
    BY <1>1, <1>2, <1>4, <2>1 DEF NextPage
<1>5. CASE PrevPage
  <2>1. page - 1 \in Nat \ {0}
    BY <1>1, <1>5 DEF PrevPage
  <2> QED
    BY <1>1, <1>2, <1>5, <2>1 DEF PrevPage
<1>6. CASE GoToPage
  <2>1. PICK n \in Pages :
          Reloads(IntMax(1, IntMin(n, IntMax(1, pageCount))), pageSize)
    BY <1>6 DEF GoToPage
  <2>2. n \in Nat
    BY Numbers DEF Pages
  <2>3. IntMax(1, IntMin(n, IntMax(1, pageCount))) \in Nat \ {0}
    BY <1>1, <2>2 DEF IntMin, IntMax
  <2> QED
    BY <1>1, <1>2, <2>1, <2>3
<1>7. CASE SetPageSize
  <2>1. PICK size \in 0 .. MaxPageSize + 1 : Reloads(1, ClampedSize(size))
    BY <1>7 DEF SetPageSize
  <2>2. ClampedSize(size) \in 1 .. MaxPageSize
    BY <2>1, ClampedSizeType
  <2> QED
    BY <1>2, <2>1, <2>2
<1>8. CASE Paginate
  <2>1. PICK n \in Pages, size \in 1 .. MaxPageSize :
          Reloads(IntMax(1, n), ClampedSize(size))
    BY <1>8 DEF Paginate
  <2>2. ClampedSize(size) \in 1 .. MaxPageSize
    BY <2>1, ClampedSizeType
  <2>3. n \in Nat
    BY Numbers DEF Pages
  <2>4. IntMax(1, n) \in Nat \ {0}
    BY <2>3 DEF IntMax
  <2> QED
    BY <1>2, <2>1, <2>2, <2>4
<1>9. CASE SetSearch
  <2>1. page' \in Nat \ {0}
    BY <1>1, <1>9 DEF SetSearch
  <2> QED
    BY <1>1, <1>9, <2>1, LoadStep DEF SetSearch
<1> QED
  BY <1>3, <1>4, <1>5, <1>6, <1>7, <1>8, <1>9 DEF ListEvent

LEMMA CountRowsStep ==
  ASSUME IInv, opts' = opts, CountRows PROVE IInv'
<1> DEFINE total == Len(ScopedQuery)
<1>1. TypeOK /\ total \in Nat
  BY ScopedType DEF IInv
<1> HIDE DEF total
<1>2. PageCountOf(total) \in Nat \ {0} /\ ClampedPage(total) \in Nat \ {0}
  BY <1>1, PageCountType
<1>3. /\ UNCHANGED <<pageSize, search, form, table>>
      /\ error' \in BOOLEAN /\ clean' \in BOOLEAN
      /\ IF Paginated
         THEN /\ page' = ClampedPage(total)
              /\ pageCount' = PageCountOf(total)
              /\ totalCount' = total
         ELSE UNCHANGED <<page, pageCount, totalCount>>
      /\ IF total = 0 THEN list' = <<>> /\ ev' = Idle
                      ELSE UNCHANGED list /\ Go("fetch")
  BY DEF CountRows, total
<1>4. /\ page' \in Nat \ {0} /\ pageCount' \in Nat /\ totalCount' \in Nat
      /\ pageSize' \in 1 .. MaxPageSize \cup {opts.paginate_by}
      /\ search' \in Values \cup {Blank}
  BY <1>1, <1>2, <1>3 DEF TypeOK
<1>5. list' \in Seq(Row)
  <2>1. <<>> \in Seq(Row)
    OBVIOUS
  <2> QED
    BY <1>1, <1>3, <2>1 DEF TypeOK
<1>6. ev' \in Events /\ ev'.pc \in {"idle", "fetch"}
  BY <1>1, <1>3, IdleEvent, GoEvent DEF Awaiting
<1>7. EventOK'
  BY <1>6 DEF EventOK
<1> QED
  BY <1>3, <1>4, <1>5, <1>6, <1>7, Untouched

LEMMA FetchRowsStep ==
  ASSUME IInv, opts' = opts, FetchRows PROVE IInv'
<1>1. TypeOK /\ page \in Nat \ {0} /\ ScopedQuery \in Seq(Row)
  BY ScopedType DEF IInv, TypeOK
<1>2. list' \in Seq(Row)
  BY <1>1, PageIs DEF FetchRows
<1>3. ev' \in Events /\ ev'.pc = "idle"
  BY IdleEvent DEF FetchRows
<1>4. EventOK'
  BY <1>3 DEF EventOK
<1>5. /\ UNCHANGED <<form, table, page, pageSize, pageCount, totalCount>>
      /\ UNCHANGED <<search, error, clean>>
  BY DEF FetchRows
<1>6. /\ page' \in Nat \ {0} /\ pageCount' \in Nat /\ totalCount' \in Nat
      /\ pageSize' \in 1 .. MaxPageSize \cup {opts.paginate_by}
      /\ search' \in Values \cup {Blank} /\ error' \in BOOLEAN /\ clean' \in BOOLEAN
  BY <1>1, <1>5 DEF TypeOK
<1> QED
  BY <1>2, <1>3, <1>4, <1>5, <1>6, Untouched

(* A step that leaves the list's vars alone too. *)
LEMMA EventOnly ==
  ASSUME IInv, UNCHANGED <<opts, view, form, table>>,
         ev' \in Events, EventOK', ev'.pc = "update" => ev'.pk \notin erased,
         error' \in BOOLEAN, clean' \in BOOLEAN
  PROVE  IInv'
<1>1. /\ list' \in Seq(Row) /\ page' \in Nat \ {0}
      /\ pageSize' \in 1 .. MaxPageSize \cup {opts.paginate_by}
      /\ pageCount' \in Nat /\ totalCount' \in Nat /\ search' \in Values \cup {Blank}
  BY DEF IInv, TypeOK, view
<1> QED
  BY <1>1, Untouched

LEMMA RaisesStep ==
  ASSUME IInv, opts' = opts, Raises PROVE IInv'
<1>1. ev' \in Events /\ ev'.pc = "idle"
  BY IdleEvent DEF Raises
<1>2. EventOK'
  BY <1>1 DEF EventOK
<1> QED
  BY <1>1, <1>2, EventOnly DEF Raises

LEMMA StartEditStep ==
  ASSUME IInv, opts' = opts, NEW p \in Pks, StartEdit(p) PROVE IInv'
<1>1. ev' \in Events /\ ev'.pc = "find" /\ ev'.pk = p
  BY BeginEvent DEF StartEdit, Awaiting
<1>2. EventOK'
  BY <1>1 DEF EventOK
<1>3. error' \in BOOLEAN /\ clean' \in BOOLEAN
  BY DEF StartEdit, IInv, TypeOK
<1> QED
  BY <1>1, <1>2, <1>3, EventOnly DEF StartEdit

LEMMA DeleteStep ==
  ASSUME IInv, opts' = opts, NEW p \in Pks, Delete(p) PROVE IInv'
<1>1. ev' \in Events /\ ev'.pc = "get" /\ ev'.pk = p
  BY BeginEvent DEF Delete, Awaiting
<1>2. EventOK'
  BY <1>1 DEF EventOK
<1>3. error' \in BOOLEAN /\ clean' \in BOOLEAN
  BY DEF Delete, IInv, TypeOK
<1> QED
  BY <1>1, <1>2, <1>3, EventOnly DEF Delete

(* A row that is there was given a number, and this state has not deleted   *)
(* it.                                                                      *)
LEMMA ExistingRow ==
  ASSUME IInv, NEW p \in Pks, Exists(p)
  PROVE  p \in 1 .. rows /\ p \notin erased
  BY DEF IInv, RowsOK, ErasedOK, Exists

LEMMA RetrieveRowStep ==
  ASSUME IInv, opts' = opts, RetrieveRow PROVE IInv'
<1>1. ev.pk \in Pks /\ ev.data \in Values /\ TypeOK
  BY DEF RetrieveRow, IInv, EventOK
<1>2. UNCHANGED <<view, form, table, clean>>
  BY DEF RetrieveRow
<1>3. CASE Exists(ev.pk)
  <2>1. ev' \in Events /\ ev'.pc = "update" /\ ev'.pk = ev.pk /\ ev'.data = ev.data
    BY <1>1, <1>3, GoEvent DEF RetrieveRow, Awaiting
  <2>2. ev.pk \in 1 .. rows /\ ev.pk \notin erased
    BY <1>1, <1>3, ExistingRow
  <2>3. EventOK'
    BY <1>1, <1>2, <2>1, <2>2 DEF EventOK, table
  <2>4. error' \in BOOLEAN /\ clean' \in BOOLEAN
    BY <1>1, <1>2, <1>3 DEF RetrieveRow, TypeOK
  <2> QED
    BY <1>2, <2>1, <2>2, <2>3, <2>4, EventOnly
<1>4. CASE ~Exists(ev.pk)
  <2>1. ev' \in Events /\ ev'.pc = "idle"
    BY <1>4, IdleEvent DEF RetrieveRow
  <2>2. EventOK'
    BY <2>1 DEF EventOK
  <2>3. error' \in BOOLEAN /\ clean' \in BOOLEAN
    BY <1>1, <1>2, <1>4 DEF RetrieveRow, TypeOK
  <2> QED
    BY <1>2, <2>1, <2>2, <2>3, EventOnly
<1> QED
  BY <1>3, <1>4

LEMMA GetRowStep ==
  ASSUME IInv, opts' = opts, GetRow PROVE IInv'
<1>1. ev.pk \in Pks /\ TypeOK
  BY DEF GetRow, IInv, EventOK
<1>2. UNCHANGED <<view, form, table, error, clean>>
  BY DEF GetRow
<1>3. error' \in BOOLEAN /\ clean' \in BOOLEAN
  BY <1>1, <1>2 DEF TypeOK
<1>4. CASE Exists(ev.pk)
  <2>1. ev' \in Events /\ ev'.pc = "erase" /\ ev'.pk = ev.pk
    BY <1>1, <1>4, GoEvent DEF GetRow, Awaiting
  <2>2. ev.pk \in 1 .. rows
    BY <1>1, <1>4, ExistingRow
  <2>3. EventOK'
    BY <1>1, <1>2, <2>1, <2>2 DEF EventOK, table
  <2> QED
    BY <1>2, <1>3, <2>1, <2>3, EventOnly
<1>5. CASE ~Exists(ev.pk)
  <2>1. ev' \in Events /\ ev'.pc = "idle"
    BY <1>5, IdleEvent DEF GetRow
  <2>2. EventOK'
    BY <2>1 DEF EventOK
  <2> QED
    BY <1>2, <1>3, <2>1, <2>2, EventOnly
<1> QED
  BY <1>4, <1>5

-----------------------------------------------------------------------------
(* Steps of the form. *)

(* A step that leaves the list and the table alone. *)
LEMMA FormStep ==
  ASSUME IInv, UNCHANGED <<opts, view, table>>,
         ev' \in Events, EventOK', ev'.pc = "update" => ev'.pk \notin erased,
         editing' \in Pks \cup {NotEditing}, editing' \notin erased,
         field' \in Values \cup {Blank}, stored' \in BOOLEAN,
         stored' => field' = Blank,
         error' \in BOOLEAN, clean' \in BOOLEAN
  PROVE  IInv'
<1>1. TypeOK'
  BY DEF IInv, TypeOK, view, table, Events
<1>2. RowsOK' /\ ErasedOK' /\ NoSecondInsert'
  BY DEF IInv, RowsOK, ErasedOK, NoSecondInsert, table
<1> QED
  BY <1>1, <1>2 DEF IInv

(* The same event goes on, or none. *)
LEMMA SameEvent ==
  ASSUME IInv, UNCHANGED <<ev, table>>
  PROVE  ev' \in Events /\ EventOK' /\ (ev'.pc = "update" => ev'.pk \notin erased)
  BY DEF IInv, TypeOK, Events, EventOK, ErasedOK, table

LEMMA SetFieldStep ==
  ASSUME IInv, opts' = opts, SetField PROVE IInv'
<1>1. /\ UNCHANGED <<view, editing, table, error, ev, clean>>
      /\ field' \in Values \cup {Blank} /\ stored' = FALSE
  BY DEF SetField
<1>2. /\ editing' \in Pks \cup {NotEditing} /\ editing' \notin erased
      /\ error' \in BOOLEAN /\ clean' \in BOOLEAN
  BY <1>1 DEF IInv, TypeOK, ErasedOK
<1> QED
  BY <1>1, <1>2, SameEvent, FormStep

LEMMA CancelEditStep ==
  ASSUME IInv, opts' = opts, CancelEdit PROVE IInv'
<1>1. /\ UNCHANGED <<view, table, ev, clean>>
      /\ editing' = NotEditing /\ field' = Blank /\ stored' = FALSE /\ error' = FALSE
  BY DEF CancelEdit, FormReset
<1>2. NotEditing \notin erased /\ clean' \in BOOLEAN
  BY <1>1, Numbers DEF IInv, TypeOK
<1> QED
  BY <1>1, <1>2, SameEvent, FormStep

LEMMA FindRowStep ==
  ASSUME IInv, opts' = opts, FindRow PROVE IInv'
<1>1. ev.pk \in Pks /\ TypeOK
  BY DEF FindRow, IInv, EventOK
<1>2. UNCHANGED <<view, table, clean>>
  BY DEF FindRow
<1>3. clean' \in BOOLEAN
  BY <1>1, <1>2 DEF TypeOK
<1>4. CASE Exists(ev.pk)
  <2>1. /\ editing' = ev.pk /\ field' = db[ev.pk] /\ stored' = FALSE
        /\ ev' = Idle /\ UNCHANGED error
    BY <1>4 DEF FindRow
  <2>2. ev' \in Events /\ ev'.pc = "idle"
    BY <2>1, IdleEvent
  <2>3. EventOK'
    BY <2>2 DEF EventOK
  <2>4. editing' \notin erased
    BY <1>1, <1>4, <2>1, ExistingRow
  <2>5. field' \in Values \cup {Blank} /\ error' \in BOOLEAN
    BY <1>1, <2>1 DEF TypeOK
  <2> QED
    BY <1>1, <1>2, <1>3, <2>1, <2>2, <2>3, <2>4, <2>5, FormStep
<1>5. CASE ~Exists(ev.pk)
  <2>1. error' = TRUE /\ Go("count") /\ UNCHANGED form
    BY <1>5 DEF FindRow
  <2>2. ev' \in Events /\ ev'.pc = "count"
    BY <1>1, <2>1, GoEvent DEF Awaiting
  <2>3. EventOK'
    BY <2>2 DEF EventOK
  <2> QED
    BY <1>2, <1>3, <2>1, <2>2, <2>3, EventOnly
<1> QED
  BY <1>4, <1>5

(* The form is validated and a save begun, of a new row or of the row that  *)
(* is being edited.                                                         *)
LEMMA SaveStep ==
  ASSUME IInv, opts' = opts, NEW id \in {editing, NotEditing},
         NEW v \in Values \cup {Blank}, Save(id, v)
  PROVE  IInv'
<1>1. /\ ev.pc = "idle" /\ editing' = id /\ field' = v
      /\ stored' = (stored /\ field = v)
      /\ UNCHANGED <<view, table, clean>>
  BY DEF Save
<1>2. /\ editing' \in Pks \cup {NotEditing} /\ editing' \notin erased
      /\ clean' \in BOOLEAN
  BY <1>1, Numbers DEF IInv, TypeOK, ErasedOK
<1>3. stored' \in BOOLEAN /\ (stored' => field' = Blank)
  BY <1>1 DEF IInv, NoSecondInsert
<1>4. CASE v = Blank
  <2>1. error' = TRUE /\ ev' = ev
    BY <1>4 DEF Save
  <2> QED
    BY <1>1, <1>2, <1>3, <2>1, SameEvent, FormStep
<1>5. CASE v # Blank
  <2> DEFINE step == IF id = NotEditing THEN "insert" ELSE "retrieve"
  <2>1. Begin(step, "save", id, v) /\ error' = error
    BY <1>5 DEF Save
  <2>2. step \in Awaiting
    BY DEF Awaiting
  <2>3. id \in Pks \cup {NotEditing}
    BY <1>1, <1>2
  <2>4. ev' \in Events /\ ev'.pc = step /\ ev'.pk = id /\ ev'.data = v
    <3> HIDE DEF step
    <3> QED
      BY <2>1, <2>2, <2>3, BeginEvent
  <2>5. EventOK'
    BY <1>5, <2>3, <2>4 DEF EventOK
  <2>6. error' \in BOOLEAN /\ ev'.pc # "update"
    BY <2>1, <2>4 DEF IInv, TypeOK
  <2> QED
    BY <1>1, <1>2, <1>3, <2>4, <2>5, <2>6, FormStep
<1> QED
  BY <1>4, <1>5

-----------------------------------------------------------------------------
(* Steps that write the table. *)

(* A list with one of its rows replaced. *)
Replaced(rs, row) == [i \in DOMAIN rs |-> IF rs[i].id = row.id THEN row ELSE rs[i]]

LEMMA ReplacedIs ==
  ASSUME NEW rs \in Seq(Row), NEW row \in Row
  PROVE  /\ Replaced(rs, row) \in Seq(Row)
         /\ DOMAIN Replaced(rs, row) = DOMAIN rs
         /\ \A i \in DOMAIN rs :
              Replaced(rs, row)[i] = IF rs[i].id = row.id THEN row ELSE rs[i]
<1>1. DOMAIN rs = 1 .. Len(rs) /\ Len(rs) \in Nat
  OBVIOUS
<1>2. \A i \in 1 .. Len(rs) : rs[i] \in Row
  OBVIOUS
<1>3. Replaced(rs, row) \in [1 .. Len(rs) -> Row]
  BY <1>1, <1>2 DEF Replaced
<1>4. Replaced(rs, row) \in Seq(Row)
  BY <1>1, <1>3
<1> QED
  BY <1>4 DEF Replaced

LEMMA PatchedType ==
  ASSUME TypeOK, NEW row \in Row, NEW wasCreate, Patched(row, wasCreate)
  PROVE  list' \in Seq(Row) /\ totalCount' \in Nat
<1>1. list \in Seq(Row) /\ totalCount \in Nat
  BY DEF TypeOK
<1>2. CASE list' = Replaced(list, row) /\ UNCHANGED totalCount
  BY <1>1, <1>2, ReplacedIs
<1>3. CASE list' = <<row>> \o list /\ totalCount' = totalCount + 1
  <2>1. <<row>> \in Seq(Row)
    OBVIOUS
  <2> QED
    BY <1>1, <1>3, <2>1, ConcatProperties
<1> QED
  BY <1>2, <1>3 DEF Patched, Replaced

(* A row is inserted or updated. *)
LEMMA SavedStep ==
  ASSUME IInv, opts' = opts, NEW p \in Pks, NEW v \in Values,
         NEW wasCreate \in BOOLEAN, Saved(p, v, wasCreate),
         rows' \in 0 .. MaxRows, rows' >= rows, updates' = updates,
         p \in 1 .. rows', p \notin erased
  PROVE  IInv'
<1> DEFINE row == [id |-> p, val |-> v]
<1>1. row \in Row /\ TypeOK /\ rows \in 0 .. MaxRows
  BY DEF Row, IInv, TypeOK
<1>2. /\ db' = [db EXCEPT ![p] = v]
      /\ editing' = NotEditing /\ field' = Blank /\ stored' = wasCreate
      /\ error' = FALSE
      /\ UNCHANGED <<page, pageSize, pageCount, search, erased, clean>>
      /\ IF CanPatch(p, wasCreate)
         THEN Patched(row, wasCreate) /\ ev' = Idle
         ELSE Go("count") /\ UNCHANGED <<list, totalCount>>
  BY DEF Saved, FormSaved, FormReset
<1> HIDE DEF row
<1>3. /\ list' \in Seq(Row) /\ totalCount' \in Nat
      /\ ev' \in Events /\ ev'.pc \in {"idle", "count"}
  <2>1. CASE CanPatch(p, wasCreate)
    BY <1>1, <1>2, <2>1, IdleEvent, PatchedType
  <2>2. CASE ~CanPatch(p, wasCreate)
    <3>1. Go("count") /\ UNCHANGED <<list, totalCount>>
      BY <1>2, <2>2
    <3>2. ev' \in Events /\ ev'.pc = "count"
      BY <1>1, <3>1, GoEvent DEF Awaiting
    <3> QED
      BY <1>1, <3>1, <3>2 DEF TypeOK
  <2> QED
    BY <2>1, <2>2
<1>4. EventOK'
  BY <1>3 DEF EventOK
<1>5. db' \in [Pks -> Values \cup {Blank}]
  BY <1>1, <1>2 DEF TypeOK
<1>6. TypeOK'
  BY <1>1, <1>2, <1>3, <1>5 DEF TypeOK, Events
<1>7. \A x \in Pks : x # p => db'[x] = db[x]
  BY <1>1, <1>2 DEF TypeOK
<1>8. \A x \in Pks : x \notin 1 .. rows' => x \notin 1 .. rows /\ x # p
  BY <1>1, Numbers DEF Pks
<1>9. RowsOK'
  BY <1>2, <1>7, <1>8 DEF IInv, RowsOK
<1>10. ErasedOK'
  <2>1. erased \subseteq Pks
    BY <1>1 DEF TypeOK
  <2>2. \A x \in erased : db'[x] = Blank
    BY <1>7, <2>1 DEF IInv, ErasedOK
  <2>3. NotEditing \notin erased
    BY <2>1, Numbers
  <2> QED
    BY <1>2, <1>3, <2>2, <2>3 DEF ErasedOK
<1>11. NoSecondInsert'
  BY <1>2 DEF NoSecondInsert
<1> QED
  BY <1>4, <1>6, <1>9, <1>10, <1>11 DEF IInv

LEMMA InsertRowStep ==
  ASSUME IInv, opts' = opts, InsertRow PROVE IInv'
<1>1. /\ rows < MaxRows /\ rows' = rows + 1 /\ Saved(rows', ev.data, TRUE)
      /\ updates' = updates
  BY DEF InsertRow
<1>2. rows \in 0 .. MaxRows /\ ev.data \in Values
  BY DEF InsertRow, IInv, TypeOK, EventOK
<1>3. /\ rows' \in 0 .. MaxRows /\ rows' >= rows /\ rows' \in 1 .. rows'
      /\ rows' \in Pks /\ rows' \notin 1 .. rows
  BY <1>1, <1>2, Numbers DEF Pks
<1>4. rows' \notin erased
  BY <1>3 DEF IInv, RowsOK
<1> QED
  BY <1>1, <1>2, <1>3, <1>4, SavedStep

LEMMA UpdateRowStep ==
  ASSUME IInv, opts' = opts, UpdateRow PROVE IInv'
<1>1. /\ ev.pk \in Pks /\ ev.data \in Values /\ ev.pk \in 1 .. rows
      /\ ev.pk \notin erased /\ rows \in 0 .. MaxRows
  BY DEF UpdateRow, IInv, TypeOK, EventOK, ErasedOK
<1>2. Saved(ev.pk, ev.data, FALSE) /\ UNCHANGED <<rows, updates>>
  BY DEF UpdateRow
<1>3. rows' >= rows /\ ev.pk \in 1 .. rows' /\ rows' \in 0 .. MaxRows
  BY <1>1, <1>2
<1> QED
  BY <1>1, <1>2, <1>3, SavedStep

(* The list without a row. *)
Others(rs, p) == { i \in DOMAIN rs : rs[i].id # p }

LEMMA EraseRowStep ==
  ASSUME IInv, opts' = opts, EraseRow PROVE IInv'
<1> DEFINE p == ev.pk
<1>1. p \in Pks /\ p \in 1 .. rows /\ TypeOK
  BY DEF EraseRow, IInv, EventOK
<1>2. /\ db' = [db EXCEPT ![p] = Blank] /\ erased' = erased \cup {p}
      /\ IF editing = p
         THEN editing' = NotEditing /\ field' = Blank /\ stored' = FALSE /\ error' = FALSE
         ELSE UNCHANGED <<editing, field, stored, error>>
      /\ UNCHANGED <<page, pageSize, pageCount, search, rows, updates, clean>>
  BY DEF EraseRow, LeavesEdit, FormReset, form
<1>3. \/ /\ list' = Picked(list, Others(list, p))
         /\ totalCount' = LessOne(totalCount) /\ ev' = Idle
      \/ Go("count") /\ UNCHANGED <<list, totalCount>>
  BY DEF EraseRow, Others
<1> HIDE DEF p
<1>4. /\ list' \in Seq(Row) /\ totalCount' \in Nat
      /\ ev' \in Events /\ ev'.pc \in {"idle", "count"}
  <2>1. list \in Seq(Row) /\ totalCount \in Nat
    BY <1>1 DEF TypeOK
  <2>2. Others(list, p) \in SUBSET (DOMAIN list)
    BY DEF Others
  <2>3. Picked(list, Others(list, p)) \in Seq(Row)
    BY <2>1, <2>2, PickedIs
  <2>4. LessOne(totalCount) \in Nat
    BY <2>1 DEF LessOne, IntMax
  <2>5. Go("count") => ev' \in Events /\ ev'.pc = "count"
    BY <1>1, GoEvent DEF Awaiting
  <2> QED
    BY <1>3, <2>1, <2>3, <2>4, <2>5, IdleEvent
<1>5. EventOK'
  BY <1>4 DEF EventOK
<1>6. db' \in [Pks -> Values \cup {Blank}]
  BY <1>1, <1>2 DEF TypeOK
<1>7. /\ editing' \in Pks \cup {NotEditing} /\ field' \in Values \cup {Blank}
      /\ stored' \in BOOLEAN /\ error' \in BOOLEAN
  BY <1>1, <1>2 DEF TypeOK
<1>8. TypeOK'
  BY <1>1, <1>2, <1>4, <1>6, <1>7 DEF TypeOK, Events
<1>9. db'[p] = Blank /\ \A x \in Pks : x # p => db'[x] = db[x]
  BY <1>1, <1>2 DEF TypeOK
<1>10. RowsOK'
  BY <1>1, <1>2, <1>9 DEF IInv, RowsOK
<1>11. ErasedOK'
  <2>1. erased \subseteq Pks
    BY <1>1 DEF TypeOK
  <2>2. \A x \in erased' : db'[x] = Blank
    BY <1>2, <1>9, <2>1 DEF IInv, ErasedOK
  <2>3. editing' \notin erased'
    BY <1>1, <1>2, <2>1, Numbers DEF IInv, ErasedOK
  <2> QED
    BY <1>4, <2>2, <2>3 DEF ErasedOK
<1>12. NoSecondInsert'
  BY <1>2 DEF IInv, NoSecondInsert
<1> QED
  BY <1>5, <1>8, <1>10, <1>11, <1>12 DEF IInv

(* Other requests insert rows under new numbers, and update and delete      *)
(* those that are there.                                                    *)
LEMMA OtherWritesStep ==
  ASSUME IInv, opts' = opts, OtherWrites PROVE IInv'
<1>1. clean' = FALSE /\ UNCHANGED <<view, form, erased, error, ev>>
  BY DEF OtherWrites
<1>2. TypeOK /\ rows \in 0 .. MaxRows /\ db \in [Pks -> Values \cup {Blank}]
  BY DEF IInv, TypeOK
<1>3. PICK p \in Pks, v \in Values \cup {Blank} :
        /\ db' = [db EXCEPT ![p] = v]
        /\ rows' \in 0 .. MaxRows /\ rows' \in {rows, rows + 1}
        /\ updates' \in 0 .. MaxUpdates
        /\ p \in 1 .. rows'
        /\ p \notin erased
  <2>1. CASE \E v \in Values :
               /\ rows + (IF ev.pc = "insert" THEN 1 ELSE 0) < MaxRows
               /\ rows' = rows + 1
               /\ db' = [db EXCEPT ![rows'] = v]
               /\ UNCHANGED updates
    <3>1. PICK v \in Values :
            /\ rows + (IF ev.pc = "insert" THEN 1 ELSE 0) < MaxRows
            /\ rows' = rows + 1
            /\ db' = [db EXCEPT ![rows'] = v]
            /\ updates' = updates
      BY <2>1
    <3>5. rows < MaxRows
      <4>1. CASE ev.pc = "insert"
        <5>1. rows + 1 < MaxRows
          BY <3>1, <4>1
        <5> QED
          BY <1>2, <5>1, Numbers
      <4>2. CASE ev.pc # "insert"
        <5>1. rows + 0 < MaxRows
          BY <3>1, <4>2
        <5> QED
          BY <1>2, <5>1, Numbers
      <4> QED
        BY <4>1, <4>2
    <3>2. /\ rows' \in 0 .. MaxRows /\ rows' \in Pks /\ rows' \in 1 .. rows'
          /\ rows' \notin 1 .. rows
      BY <1>2, <3>1, <3>5, Numbers DEF Pks
    <3>3. rows' \notin erased
      BY <3>2 DEF IInv, RowsOK
    <3>4. updates' \in 0 .. MaxUpdates
      BY <1>2, <3>1 DEF TypeOK
    <3> QED
      BY <3>1, <3>2, <3>3, <3>4
  <2>2. CASE \E p \in Pks, v \in Values :
               /\ Exists(p)
               /\ updates < MaxUpdates
               /\ updates' = updates + 1
               /\ db' = [db EXCEPT ![p] = v]
               /\ UNCHANGED rows
    <3>1. PICK p \in Pks, v \in Values :
               /\ Exists(p)
               /\ updates < MaxUpdates
               /\ updates' = updates + 1
               /\ db' = [db EXCEPT ![p] = v]
               /\ rows' = rows
      BY <2>2
    <3>2. updates' \in 0 .. MaxUpdates
      BY <1>2, <3>1, Numbers DEF TypeOK
    <3> QED
      BY <1>2, <3>1, <3>2, ExistingRow
  <2>3. CASE \E p \in Pks :
               /\ Exists(p)
               /\ db' = [db EXCEPT ![p] = Blank]
               /\ UNCHANGED <<rows, updates>>
    <3>1. PICK p \in Pks :
               /\ Exists(p)
               /\ db' = [db EXCEPT ![p] = Blank]
               /\ rows' = rows /\ updates' = updates
      BY <2>3
    <3>2. updates' \in 0 .. MaxUpdates
      BY <1>2, <3>1 DEF TypeOK
    <3> QED
      BY <1>2, <3>1, <3>2, ExistingRow
  <2> QED
    BY <2>1, <2>2, <2>3 DEF OtherWrites
<1>4. db' \in [Pks -> Values \cup {Blank}]
  BY <1>2, <1>3
<1>5. TypeOK'
  BY <1>1, <1>2, <1>3, <1>4 DEF TypeOK, view, form
<1>6. \A x \in Pks : x # p => db'[x] = db[x]
  BY <1>2, <1>3
<1>7. \A x \in Pks : x \notin 1 .. rows' => x \notin 1 .. rows /\ x # p
  BY <1>2, <1>3, Numbers DEF Pks
<1>8. RowsOK'
  BY <1>1, <1>6, <1>7 DEF IInv, RowsOK
<1>9. ErasedOK'
  <2>1. erased \subseteq Pks
    BY <1>2 DEF TypeOK
  <2>2. \A x \in erased : db'[x] = Blank
    BY <1>3, <1>6, <2>1 DEF IInv, ErasedOK
  <2> QED
    BY <1>1, <2>2 DEF IInv, ErasedOK, form
<1>10. NoSecondInsert'
  BY <1>1 DEF IInv, NoSecondInsert, form
<1>11. EventOK'
  <2>1. ev.pk \in 1 .. rows => ev.pk \in 1 .. rows'
    BY <1>2, <1>3
  <2> QED
    BY <1>1, <2>1 DEF IInv, EventOK
<1> QED
  BY <1>5, <1>8, <1>9, <1>10, <1>11 DEF IInv

-----------------------------------------------------------------------------
(* The invariant. *)

LEMMA InitIInv == Init => IInv
<1> SUFFICES ASSUME Init PROVE IInv
  OBVIOUS
<1>1. <<>> \in Seq(Row)
  OBVIOUS
<1>2. Idle \in Events /\ Idle.pc = "idle" /\ opts.paginate_by \in Nat
  BY IdleEvent, ConstantsAssumption DEF Init
<1>3. TypeOK
  <2>1. opts \in Options /\ pageSize = opts.paginate_by /\ ev = Idle
    BY DEF Init
  <2>2. db \in [Pks -> Values \cup {Blank}]
    BY DEF Init
  <2>3. /\ rows \in 0 .. MaxRows /\ updates \in 0 .. MaxUpdates
        /\ page \in Nat \ {0} /\ pageCount \in Nat /\ totalCount \in Nat
    BY Numbers DEF Init
  <2>4. /\ list \in Seq(Row) /\ erased \subseteq Pks
        /\ search \in Values \cup {Blank} /\ field \in Values \cup {Blank}
        /\ editing \in Pks \cup {NotEditing}
        /\ error \in BOOLEAN /\ clean \in BOOLEAN /\ stored \in BOOLEAN
    BY <1>1 DEF Init
  <2>5. ev \in Events /\ {error, clean, stored} \subseteq BOOLEAN
    BY <1>2, <2>1, <2>4
  <2>6. pageSize \in 1 .. MaxPageSize \cup {opts.paginate_by}
    BY <2>1
  <2> QED
    BY <2>1, <2>2, <2>3, <2>4, <2>5, <2>6 DEF TypeOK, Events
<1>4. EventOK
  BY <1>2 DEF Init, EventOK
<1>5. RowsOK
  BY DEF Init, RowsOK
<1>6. ErasedOK /\ NoSecondInsert
  BY DEF Init, ErasedOK, NoSecondInsert
<1> QED
  BY <1>3, <1>4, <1>5, <1>6 DEF IInv

(* The rows of a list are rows. *)
LEMMA IdsType == TypeOK => Ids(list) \subseteq Pks
<1> SUFFICES ASSUME TypeOK, NEW i \in DOMAIN list PROVE list[i].id \in Pks
  BY DEF Ids
<1>1. list \in Seq(Row)
  BY DEF TypeOK
<1>2. list[i] \in Row
  BY <1>1
<1> QED
  BY <1>2 DEF Row

LEMMA NextIInv == IInv /\ [Next]_vars => IInv'
<1> SUFFICES ASSUME IInv, [Next]_vars PROVE IInv'
  OBVIOUS
<1>1. CASE UNCHANGED vars
  <2>1. UNCHANGED <<opts, view, form, table, error, ev, clean>>
    BY <1>1 DEF vars
  <2>2. error' \in BOOLEAN /\ clean' \in BOOLEAN
    BY <2>1 DEF IInv, TypeOK
  <2> QED
    BY <2>1, <2>2, SameEvent, EventOnly
<1>2. CASE Next
  <2>1. opts' = opts
    BY <1>2 DEF Next
  <2>2. CASE ListEvent
    BY <2>1, <2>2, ListEventStep
  <2>3. CASE FormEvent
    <3>1. CASE SetField \/ CancelEdit
      BY <2>1, <3>1, SetFieldStep, CancelEditStep
    <3>2. CASE \E id \in {editing, NotEditing}, v \in Values \cup {Blank} :
                 Save(id, v)
      BY <2>1, <3>2, SaveStep
    <3>3. CASE \E p \in Ids(list) : StartEdit(p)
      BY <2>1, <3>3, IdsType, StartEditStep DEF IInv
    <3>4. CASE \E p \in Ids(list) \cup ({editing} \ {NotEditing}) : Delete(p)
      <4>1. PICK p \in Ids(list) \cup ({editing} \ {NotEditing}) : Delete(p)
        BY <3>4
      <4>2. p \in Pks
        BY IdsType DEF IInv, TypeOK
      <4> QED
        BY <2>1, <4>1, <4>2, DeleteStep
    <3> QED
      BY <2>3, <3>1, <3>2, <3>3, <3>4 DEF FormEvent
  <2>4. CASE Step
    BY <2>1, <2>4, CountRowsStep, FetchRowsStep, FindRowStep, RetrieveRowStep,
       InsertRowStep, UpdateRowStep, GetRowStep, EraseRowStep DEF Step
  <2>5. CASE Raises \/ OtherWrites
    BY <2>1, <2>5, RaisesStep, OtherWritesStep
  <2> QED
    BY <1>2, <2>2, <2>3, <2>4, <2>5 DEF Next
<1> QED
  BY <1>1, <1>2

(* The types of a state's vars. *)
THEOREM TypeCorrect == Spec => []TypeOK
<1>1. IInv => TypeOK
  BY DEF IInv
<1> QED
  BY InitIInv, NextIInv, <1>1, PTL DEF Spec

(* The form never edits a row that this state deleted, whatever failed      *)
(* after the deletion (handle_delete).                                      *)
THEOREM ErasedNotEdited == Spec => []NoErasedEdit
<1>1. IInv => NoErasedEdit
  BY DEF IInv, ErasedOK, NoErasedEdit
<1> QED
  BY InitIInv, NextIInv, <1>1, PTL DEF Spec

(* Once a form is inserted it is empty, whatever fails after the insertion  *)
(* (DispatchMixin._handle_save).                                            *)
THEOREM InsertedOnce == Spec => []NoSecondInsert
<1>1. IInv => NoSecondInsert
  BY DEF IInv
<1> QED
  BY InitIInv, NextIInv, <1>1, PTL DEF Spec
-----------------------------------------------------------------------------
(* The list is its page: what classes that do not patch what a search found *)
(* promise.                                                                 *)

NoPatchedSearch == \A o \in Options : ~(o.searchable /\ o.incremental)

(* The positions of the page shown, of a query of so many rows. *)
PageIndices(total) ==
  { i \in 1 .. total : Paginated => (i - 1) \div Size = page - 1 }

Newest1st(rs) == \A i, j \in DOMAIN rs : i < j => rs[i].id > rs[j].id

(* The list shows its page, and the page vars agree with the table. *)
Listed ==
  /\ ToSet(list) = { ScopedQuery[i] : i \in PageIndices(Len(ScopedQuery)) }
  /\ Newest1st(list)

Counted ==
  Paginated =>
    /\ totalCount = Len(ScopedQuery)
    /\ page <= pageCount
    /\ totalCount > 0 => list # <<>>

(* So it is not only between events, but until the list is loaded again.    *)
Shown == clean /\ ev.pc \notin {"count", "fetch"} => Listed /\ Counted

(* Between counting and fetching, the page is one there is. *)
Fetching ==
  clean /\ ev.pc = "fetch" /\ Paginated =>
    /\ totalCount = Len(ScopedQuery)
    /\ pageCount = PageCountOf(totalCount)
    /\ page <= pageCount

SearchOK == search # Blank => opts.searchable

(* A row is gone when it is saved only if another request deleted it. *)
UpdateOK == clean /\ ev.pc = "update" => Exists(ev.pk)

ListInv == Shown /\ Fetching /\ SearchOK /\ UpdateOK

(* Division counts pages. *)
LEMMA OnPage ==
  ASSUME NEW i \in Nat \ {0}, NEW n \in Nat \ {0}, NEW s \in Nat \ {0}
  PROVE  (i - 1) \div s = n - 1 <=> (n - 1) * s + 1 <= i /\ i <= n * s
<1> DEFINE q == (i - 1) \div s
<1>1. i - 1 \in Nat
  OBVIOUS
<1>2. q \in Nat /\ q * s <= i - 1 /\ i - 1 < q * s + s
  BY <1>1
<1>3. n * s = (n - 1) * s + s /\ (n - 1) * s \in Nat
  OBVIOUS
<1> HIDE DEF q
<1>4. ASSUME q = n - 1 PROVE (n - 1) * s + 1 <= i /\ i <= n * s
  <2>1. q * s = (n - 1) * s
    BY <1>4
  <2> QED
    BY <1>2, <1>3, <2>1
<1>5. ASSUME (n - 1) * s + 1 <= i, i <= n * s PROVE q = n - 1
  <2>1. CASE q < n - 1
    <3>1. (q + 1) * s <= (n - 1) * s
      BY <1>2, <2>1
    <3>2. (q + 1) * s = q * s + s
      BY <1>2
    <3> QED
      BY <1>2, <1>3, <1>5, <3>1, <3>2
  <2>2. CASE q > n - 1
    <3>1. n * s <= q * s
      BY <1>2, <2>2
    <3> QED
      BY <1>2, <1>3, <1>5, <3>1
  <2> QED
    BY <1>2, <2>1, <2>2
<1> QED
  BY <1>4, <1>5 DEF q

(* A page that is counted has a row. *)
LEMMA LastPage ==
  ASSUME TypeOK, NEW total \in Nat \ {0}, NEW n \in Nat \ {0}, n <= PageCountOf(total)
  PROVE  (n - 1) * Size + 1 <= total /\ n * Size >= (n - 1) * Size + 1
<1> DEFINE s == Size
           q == (total + s - 1) \div s
<1>1. s \in Nat \ {0}
  BY SizeType
<1>2. PageCountOf(total) = IF 1 > q THEN 1 ELSE q
  BY DEF PageCountOf, IntMax
<1> HIDE DEF s, q
<1>3. total + s - 1 \in Nat
  BY <1>1
<1>4. q \in Nat /\ q * s <= total + s - 1 /\ total + s - 1 < q * s + s
  BY <1>1, <1>3 DEF q
<1>5. (n - 1) * s \in Nat /\ n * s = (n - 1) * s + s
  BY <1>1
<1>6. q >= 1
  <2>1. CASE q = 0
    <3>1. q * s = 0
      BY <1>1, <2>1
    <3> QED
      BY <1>1, <1>4, <3>1
  <2> QED
    BY <1>4, <2>1
<1>7. n <= q
  BY <1>2, <1>4, <1>6
<1>8. n * s <= q * s
  BY <1>1, <1>4, <1>7
<1>9. (n - 1) * s + 1 <= total /\ n * s >= (n - 1) * s + 1
  BY <1>1, <1>4, <1>5, <1>8
<1> QED
  BY <1>9 DEF s

(* Steps that disturb neither the query nor the list. *)
LEMMA SameSize ==
  ASSUME UNCHANGED <<opts, pageSize>> PROVE Size' = Size /\ Paginated' = Paginated
BY DEF Size, Paginated, IntMin, IntMax

LEMMA SameQuery ==
  ASSUME UNCHANGED <<db, search>> PROVE ScopedQuery' = ScopedQuery
BY ScopedIs

LEMMA SameIndices ==
  ASSUME UNCHANGED <<opts, page, pageSize>>, NEW total
  PROVE  PageIndices(total)' = PageIndices(total)
BY SameSize DEF PageIndices

LEMMA SameList ==
  ASSUME UNCHANGED <<opts, view, db>>
  PROVE  Listed' = Listed /\ Counted' = Counted
<1>1. UNCHANGED <<list, page, pageSize, pageCount, totalCount, search>>
  BY DEF view
<1>2. ScopedQuery' = ScopedQuery
  BY <1>1, SameQuery
<1>3. Size' = Size /\ Paginated' = Paginated
  BY <1>1, SameSize
<1>4. Listed' = Listed
  BY <1>1, <1>2, <1>3 DEF Listed, PageIndices, Newest1st
<1> QED
  BY <1>1, <1>2, <1>3, <1>4 DEF Counted

(* Another request, a failure or a new page: the list may be anything. *)
LEMMA Dirty ==
  ASSUME clean' = FALSE, SearchOK' PROVE ListInv'
BY DEF ListInv, Shown, Fetching, UpdateOK

LEMMA ListKept ==
  ASSUME ListInv, UNCHANGED <<opts, view, db, clean>>,
         ev.pc \notin {"count", "fetch"}, ev'.pc # "fetch",
         clean /\ ev'.pc = "update" => Exists(ev'.pk)
  PROVE  ListInv'
<1>1. Listed' = Listed /\ Counted' = Counted
  BY SameList
<1>2. Shown'
  BY <1>1 DEF ListInv, Shown
<1>3. Fetching' /\ UpdateOK'
  BY DEF Fetching, UpdateOK, Exists
<1>4. SearchOK'
  BY DEF ListInv, SearchOK, view
<1> QED
  BY <1>2, <1>3, <1>4 DEF ListInv
(* Without rows there is nothing to show, and else the page is one there    *)
(* is.                                                                      *)
LEMMA CountRowsLists ==
  ASSUME IInv, ListInv, opts' = opts, CountRows PROVE ListInv'
<1> DEFINE total == Len(ScopedQuery)
<1>1. TypeOK /\ total \in Nat
  BY ScopedType DEF IInv
<1>2. /\ UNCHANGED <<db, pageSize, search>> /\ clean' = TRUE
      /\ Paginated => /\ page' = ClampedPage(total)
                      /\ pageCount' = PageCountOf(total)
                      /\ totalCount' = total
      /\ IF total = 0 THEN list' = <<>> /\ ev' = Idle
                      ELSE UNCHANGED list /\ Go("fetch")
  BY DEF CountRows, table
<1>3. ScopedQuery' = ScopedQuery /\ Size' = Size /\ Paginated' = Paginated
  BY <1>2, SameQuery, SameSize
<1>4. total' = total /\ PageCountOf(total)' = PageCountOf(total)
  BY <1>3 DEF PageCountOf
<1>5. Paginated => page' <= pageCount'
  <2>1. PageCountOf(total) \in Nat /\ page \in Nat
    BY <1>1, PageCountType DEF TypeOK
  <2> HIDE DEF total
  <2> QED
    BY <1>2, <2>1 DEF ClampedPage, IntMin
<1>6. SearchOK'
  BY <1>2 DEF ListInv, SearchOK
<1>7. CASE total = 0
  <2>1. list' = <<>> /\ ev'.pc = "idle"
    BY <1>2, <1>7 DEF Idle
  <2>2. Listed'
    <3>1. PageIndices(Len(ScopedQuery))' = {}
      BY <1>4, <1>7 DEF PageIndices
    <3>2. ToSet(list') = {} /\ DOMAIN list' = {}
      BY <2>1 DEF ToSet
    <3> QED
      BY <3>1, <3>2 DEF Listed, Newest1st
  <2>3. Counted'
    <3>1. Paginated' => totalCount' = Len(ScopedQuery)' /\ page' <= pageCount'
      BY <1>2, <1>3, <1>5
    <3>2. Paginated' => totalCount' = 0
      BY <1>2, <1>3, <1>7
    <3> QED
      BY <3>1, <3>2 DEF Counted
  <2> QED
    BY <1>6, <2>1, <2>2, <2>3 DEF ListInv, Shown, Fetching, UpdateOK
<1>8. CASE total # 0
  <2>1. ev'.pc = "fetch"
    <3>1. Go("fetch")
      BY <1>2, <1>8
    <3> QED
      BY <1>1, <3>1, GoEvent DEF Awaiting
  <2>2. Fetching'
    BY <1>2, <1>3, <1>4, <1>5 DEF Fetching
  <2> QED
    BY <1>6, <2>1, <2>2 DEF ListInv, Shown, UpdateOK
<1> QED
  BY <1>7, <1>8

(* The elements of a page. *)
LEMMA PageHas ==
  ASSUME TypeOK, NEW rs \in Seq(Row), NEW i \in 1 .. Len(rs)
  PROVE  i \in PageIndices(Len(rs)) <=>
           PageStart(page) <= i /\ i <= PageEnd(rs, page)
<1>1. Len(rs) \in Nat /\ Size \in Nat \ {0} /\ page \in Nat \ {0}
  BY SizeType DEF TypeOK
<1>2. i \in Nat \ {0} /\ page * Size \in Nat
  BY <1>1
<1>3. CASE Paginated
  <2>1. (i - 1) \div Size = page - 1 <=>
          (page - 1) * Size + 1 <= i /\ i <= page * Size
    BY <1>1, <1>2, OnPage
  <2>2. i <= page * Size <=> i <= IntMin(page * Size, Len(rs))
    BY <1>1, <1>2 DEF IntMin
  <2> QED
    BY <1>3, <2>1, <2>2 DEF PageIndices, PageStart, PageEnd
<1>4. CASE ~Paginated
  BY <1>1, <1>2, <1>4 DEF PageIndices, PageStart, PageEnd
<1> QED
  BY <1>3, <1>4

LEMMA PageShows ==
  ASSUME TypeOK, NEW rs \in Seq(Row), Newest1st(rs)
  PROVE  /\ ToSet(PageOf(rs, page)) = { rs[i] : i \in PageIndices(Len(rs)) }
         /\ Newest1st(PageOf(rs, page))
<1> DEFINE lo == PageStart(page)
           hi == PageEnd(rs, page)
           out == PageOf(rs, page)
<1>1. Len(rs) \in Nat /\ DOMAIN rs = 1 .. Len(rs) /\ page \in Nat \ {0}
  BY DEF TypeOK
<1>2. /\ out \in Seq(Row) /\ lo \in Nat \ {0} /\ hi \in 0 .. Len(rs)
      /\ Len(out) = IF lo <= hi THEN hi - lo + 1 ELSE 0
      /\ \A k \in 1 .. hi - lo + 1 : out[k] = rs[lo + k - 1]
  BY <1>1, PageIs
<1>3. \A i \in 1 .. Len(rs) : i \in PageIndices(Len(rs)) <=> lo <= i /\ i <= hi
  BY PageHas
<1> HIDE DEF lo, hi, out
<1>4. DOMAIN out = 1 .. hi - lo + 1
  <2>1. DOMAIN out = 1 .. Len(out)
    BY <1>2
  <2> QED
    BY <1>2, <2>1
<1>5. \A k \in DOMAIN out : lo + k - 1 \in 1 .. Len(rs) /\ lo <= lo + k - 1
                            /\ lo + k - 1 <= hi /\ k \in Nat
  BY <1>1, <1>2, <1>4
<1>6. \A k \in DOMAIN out : out[k] = rs[lo + k - 1]
                            /\ lo + k - 1 \in PageIndices(Len(rs))
  BY <1>2, <1>3, <1>4, <1>5
<1>7. ASSUME NEW i \in PageIndices(Len(rs))
      PROVE  \E k \in DOMAIN out : out[k] = rs[i]
  <2>1. i \in 1 .. Len(rs)
    BY DEF PageIndices
  <2>2. lo <= i /\ i <= hi
    BY <1>3, <2>1
  <2>3. i - lo + 1 \in 1 .. hi - lo + 1 /\ lo + (i - lo + 1) - 1 = i
    BY <1>2, <2>1, <2>2
  <2> QED
    BY <1>2, <1>4, <2>3
<1>8. ToSet(out) = { rs[i] : i \in PageIndices(Len(rs)) }
  BY <1>6, <1>7 DEF ToSet
<1>9. Newest1st(out)
  <2> SUFFICES ASSUME NEW i \in DOMAIN out, NEW j \in DOMAIN out, i < j
               PROVE  out[i].id > out[j].id
    BY DEF Newest1st
  <2>1. /\ lo + i - 1 \in DOMAIN rs /\ lo + j - 1 \in DOMAIN rs
        /\ lo + i - 1 < lo + j - 1
    BY SMTT(30), <1>1, <1>2, <1>5
  <2>2. rs[lo + i - 1].id > rs[lo + j - 1].id
    BY <2>1 DEF Newest1st
  <2> QED
    BY <1>6, <2>2
<1> QED
  BY <1>8, <1>9 DEF out

(* What is fetched is the page, and not empty as long as it was counted. *)
LEMMA FetchRowsLists ==
  ASSUME IInv, ListInv, opts' = opts, FetchRows PROVE ListInv'
<1> DEFINE rs == ScopedQuery
<1>1. TypeOK /\ rs \in Seq(Row) /\ Len(rs) \in Nat /\ page \in Nat \ {0}
  BY ScopedType DEF IInv, TypeOK
<1>2. /\ UNCHANGED <<db, page, pageSize, pageCount, totalCount, search, clean>>
      /\ list' = PageOf(rs, page) /\ ev'.pc = "idle" /\ ev.pc = "fetch"
  BY DEF FetchRows, table, Idle
<1>3. ScopedQuery' = rs /\ Size' = Size /\ Paginated' = Paginated
  BY <1>2, SameQuery, SameSize
<1>4. PageIndices(Len(ScopedQuery))' = PageIndices(Len(rs))
  BY <1>2, <1>3 DEF PageIndices
<1>5. SearchOK'
  BY <1>2 DEF ListInv, SearchOK
<1>6. Newest1st(rs)
  <2>1. db \in Tables /\ rs = QueryOf(db, search)
    BY <1>1, ScopedIs DEF TypeOK, Tables
  <2> QED
    BY <2>1, QueryIs DEF Newest1st
<1> HIDE DEF rs
<1>7. Listed'
  BY <1>1, <1>2, <1>3, <1>4, <1>6, PageShows DEF Listed, Newest1st
<1>8. ASSUME clean, Paginated PROVE Counted'
  <2>1. /\ totalCount = Len(rs) /\ pageCount = PageCountOf(totalCount)
        /\ page <= pageCount
    BY <1>2, <1>8 DEF ListInv, Fetching, rs
  <2>2. ASSUME totalCount > 0 PROVE list' # <<>>
    <3>1. Len(rs) \in Nat \ {0} /\ page <= PageCountOf(Len(rs))
      BY <1>1, <2>1, <2>2
    <3>2. (page - 1) * Size + 1 <= Len(rs) /\ page * Size >= (page - 1) * Size + 1
      BY <1>1, <3>1, LastPage
    <3>3. PageStart(page) <= PageEnd(rs, page)
      BY <1>8, <3>2 DEF PageStart, PageEnd, IntMin
    <3>4. Len(list') = PageEnd(rs, page) - PageStart(page) + 1
          /\ PageEnd(rs, page) \in Nat /\ PageStart(page) \in Nat
      BY <1>1, <1>2, <3>3, PageIs
    <3>5. Len(list') # 0
      BY <3>3, <3>4
    <3> QED
      BY <3>5
  <2> QED
    BY <1>2, <1>3, <2>1, <2>2 DEF Counted, rs
<1>9. clean => Counted'
  BY <1>3, <1>8 DEF Counted
<1> QED
  BY <1>2, <1>5, <1>7, <1>9 DEF ListInv, Shown, Fetching, UpdateOK
(* What a query finds, as a set. *)
Found(d, s) == { r \in Row : d[r.id] = r.val /\ Matched(d, s, r.id) }

LEMMA QuerySet ==
  ASSUME NEW d \in Tables, NEW s
  PROVE  { QueryOf(d, s)[i] : i \in 1 .. Len(QueryOf(d, s)) } = Found(d, s)
<1> DEFINE rs == QueryOf(d, s)
<1>1. /\ rs \in Seq(Row) /\ DOMAIN rs = 1 .. Len(rs)
      /\ \A i \in DOMAIN rs : rs[i].val = d[rs[i].id] /\ Matched(d, s, rs[i].id)
  BY QueryIs
<1>2. \A p \in Pks : Matched(d, s, p) => \E i \in DOMAIN rs : rs[i].id = p
  BY QueryIs
<1> HIDE DEF rs
<1>3. \A i \in 1 .. Len(rs) : rs[i] \in Row
  BY <1>1
<1>4. \A i \in 1 .. Len(rs) : rs[i] \in Found(d, s)
  BY <1>1, <1>3 DEF Found
<1>5. ASSUME NEW r \in Found(d, s) PROVE \E i \in 1 .. Len(rs) : rs[i] = r
  <2>1. r \in Row /\ d[r.id] = r.val /\ Matched(d, s, r.id) /\ r.id \in Pks
    BY DEF Found, Row
  <2>2. PICK i \in DOMAIN rs : rs[i].id = r.id
    BY <1>2, <2>1
  <2>3. rs[i] \in Row /\ rs[i].val = r.val
    BY <1>1, <1>3, <2>1, <2>2
  <2>4. rs[i] = r
    BY <2>1, <2>2, <2>3 DEF Row
  <2> QED
    BY <1>1, <2>4
<1> QED
  BY <1>4, <1>5 DEF rs

(* Without pages, the list shows whatever the query finds. *)
LEMMA ListedAll ==
  /\ db \in Tables /\ ~Paginated =>
       (Listed <=> ToSet(list) = Found(db, search) /\ Newest1st(list))
  /\ db' \in Tables /\ ~Paginated' =>
       (Listed' <=> ToSet(list') = Found(db', search') /\ Newest1st(list'))
<1>1. ASSUME db \in Tables, ~Paginated
      PROVE  Listed <=> ToSet(list) = Found(db, search) /\ Newest1st(list)
  <2>1. PageIndices(Len(ScopedQuery)) = 1 .. Len(ScopedQuery)
    BY <1>1 DEF PageIndices
  <2>2. { ScopedQuery[i] : i \in 1 .. Len(ScopedQuery) } = Found(db, search)
    BY <1>1, ScopedIs, QuerySet
  <2> QED
    BY <2>1, <2>2 DEF Listed
<1>2. ASSUME db' \in Tables, ~Paginated'
      PROVE  Listed' <=> ToSet(list') = Found(db', search') /\ Newest1st(list')
  <2>1. PageIndices(Len(ScopedQuery))' = 1 .. Len(ScopedQuery')
    BY <1>2 DEF PageIndices
  <2>2. { ScopedQuery'[i] : i \in 1 .. Len(ScopedQuery') } = Found(db', search')
    BY <1>2, ScopedIs, QuerySet
  <2> QED
    BY <2>1, <2>2 DEF Listed, Newest1st
<1> QED
  BY <1>1, <1>2

(* Only rows that are there are listed. *)
LEMMA ListedRows ==
  ASSUME TypeOK, Listed, NEW k \in DOMAIN list
  PROVE  list[k].id \in Pks /\ Exists(list[k].id)
<1>1. db \in Tables /\ ScopedQuery = QueryOf(db, search)
  BY ScopedIs DEF TypeOK, Tables
<1>2. list[k] \in ToSet(list)
  BY DEF ToSet
<1>3. list[k] \in { ScopedQuery[i] : i \in 1 .. Len(ScopedQuery) }
  BY <1>2 DEF Listed, PageIndices
<1>4. list[k] \in Found(db, search)
  BY <1>1, <1>3, QuerySet
<1> QED
  BY <1>4 DEF Found, Matched, Exists, Row

(* Updating a row that is there changes it in its place, when nothing is    *)
(* searched for.                                                            *)
LEMMA UpdatedQuery ==
  ASSUME NEW d \in Tables, NEW e \in Tables, NEW p \in Pks, NEW v \in Values,
         d[p] # Blank, e[p] = v, \A q \in Pks : q # p => e[q] = d[q]
  PROVE  /\ Len(QueryOf(e, Blank)) = Len(QueryOf(d, Blank))
         /\ \A i \in 1 .. Len(QueryOf(d, Blank)) :
              QueryOf(e, Blank)[i] =
                IF QueryOf(d, Blank)[i].id = p THEN [id |-> p, val |-> v]
                                               ELSE QueryOf(d, Blank)[i]
<1> DEFINE n == Cardinality(MatchesOf(d, Blank))
           pos == Positions(MatchesOf(d, Blank))
<1>1. v # Blank
  BY ConstantsAssumption
<1>2. \A q \in Pks : Matched(e, Blank, q) <=> Matched(d, Blank, q)
  BY <1>1 DEF Matched, Tables
<1>3. MatchesOf(e, Blank) = MatchesOf(d, Blank)
  BY <1>2, Mirrored DEF MatchesOf
<1>4. /\ Len(QueryOf(d, Blank)) = n /\ Len(QueryOf(e, Blank)) = n
      /\ \A i \in 1 .. n : /\ pos[i] \in Pks
                           /\ QueryOf(d, Blank)[i] = NewestOf(d)[pos[i]]
  BY <1>3, QueryPicks
<1>5. \A i \in 1 .. n : QueryOf(e, Blank)[i] = NewestOf(e)[pos[i]]
  BY <1>3, QueryPicks
<1> HIDE DEF n, pos
<1>6. \A k \in Pks : NewestOf(e)[k] = IF NewestOf(d)[k].id = p
                                      THEN [id |-> p, val |-> v] ELSE NewestOf(d)[k]
  <2> SUFFICES ASSUME NEW k \in Pks
               PROVE  NewestOf(e)[k] = IF NewestOf(d)[k].id = p
                                       THEN [id |-> p, val |-> v] ELSE NewestOf(d)[k]
    OBVIOUS
  <2>1. /\ MaxRows + 1 - k \in Pks
        /\ NewestOf(d)[k] = [id |-> MaxRows + 1 - k, val |-> d[MaxRows + 1 - k]]
        /\ NewestOf(e)[k] = [id |-> MaxRows + 1 - k, val |-> e[MaxRows + 1 - k]]
    BY Mirrored DEF NewestOf
  <2> QED
    BY <2>1 DEF Tables
<1>7. ASSUME NEW i \in 1 .. n
      PROVE  QueryOf(e, Blank)[i] =
               IF QueryOf(d, Blank)[i].id = p THEN [id |-> p, val |-> v]
                                              ELSE QueryOf(d, Blank)[i]
  <2>1. pos[i] \in Pks /\ QueryOf(d, Blank)[i] = NewestOf(d)[pos[i]]
    BY <1>4
  <2>2. QueryOf(e, Blank)[i] = NewestOf(e)[pos[i]]
    BY <1>5
  <2> QED
    BY <1>6, <2>1, <2>2
<1> QED
  BY <1>4, <1>7

(* So the list may be updated in its place too, a page or not. *)
LEMMA ReplacedLists ==
  ASSUME TypeOK, Listed, Counted, opts' = opts, search = Blank,
         UNCHANGED <<page, pageSize, pageCount, totalCount, search>>,
         NEW p \in Pks, NEW v \in Values, Exists(p), db' = [db EXCEPT ![p] = v],
         list' = [i \in DOMAIN list |->
                    IF list[i].id = p THEN [id |-> p, val |-> v] ELSE list[i]]
  PROVE  Listed' /\ Counted'
<1> DEFINE rs == ScopedQuery
           at == PageIndices(Len(rs))
           upd(r) == IF r.id = p THEN [id |-> p, val |-> v] ELSE r
<1>1. db \in Tables /\ db' \in Tables
  BY DEF TypeOK, Tables
<1>2. rs = QueryOf(db, Blank) /\ ScopedQuery' = QueryOf(db', Blank)
  BY ScopedIs
<1>3. db[p] # Blank
  BY DEF Exists
<1> HIDE DEF rs
<1>4. Len(ScopedQuery') = Len(rs)
      /\ \A i \in 1 .. Len(rs) : ScopedQuery'[i] = upd(rs[i])
  <2> DEFINE d == db
             e == db'
  <2>1. /\ d \in Tables /\ e \in Tables /\ d[p] # Blank
        /\ e[p] = v /\ \A q \in Pks : q # p => e[q] = d[q]
    BY <1>1, <1>3 DEF Tables
  <2>2. rs = QueryOf(d, Blank) /\ ScopedQuery' = QueryOf(e, Blank)
    BY <1>2
  <2> HIDE DEF d, e
  <2>3. /\ Len(QueryOf(e, Blank)) = Len(QueryOf(d, Blank))
        /\ \A i \in 1 .. Len(QueryOf(d, Blank)) :
             QueryOf(e, Blank)[i] =
               IF QueryOf(d, Blank)[i].id = p THEN [id |-> p, val |-> v]
                                              ELSE QueryOf(d, Blank)[i]
    BY <2>1, UpdatedQuery
  <2> QED
    BY <2>2, <2>3
<1>5. Size' = Size /\ Paginated' = Paginated
  BY SameSize
<1>6. PageIndices(Len(ScopedQuery))' = at /\ at \subseteq 1 .. Len(rs)
  BY <1>4, <1>5 DEF PageIndices
<1>7. ToSet(list) = { rs[i] : i \in at } /\ Newest1st(list)
  BY DEF Listed, rs
<1> HIDE DEF at, upd
<1>8. DOMAIN list' = DOMAIN list /\ \A k \in DOMAIN list : list'[k] = upd(list[k])
  BY DEF upd
<1>9. ToSet(list') = { ScopedQuery'[i] : i \in at }
  <2>1. ASSUME NEW k \in DOMAIN list PROVE \E i \in at : list'[k] = ScopedQuery'[i]
    <3>1. PICK i \in at : list[k] = rs[i]
      BY <1>7 DEF ToSet
    <3> QED
      BY <1>4, <1>6, <1>8, <3>1
  <2>2. ASSUME NEW i \in at PROVE \E k \in DOMAIN list : list'[k] = ScopedQuery'[i]
    <3>1. PICK k \in DOMAIN list : list[k] = rs[i]
      BY <1>7 DEF ToSet
    <3> QED
      BY <1>4, <1>6, <1>8, <3>1
  <2> QED
    BY <1>8, <2>1, <2>2 DEF ToSet
<1>10. Newest1st(list')
  <2>1. \A k \in DOMAIN list : list'[k].id = list[k].id
    BY <1>8 DEF upd
  <2> QED
    BY <1>7, <1>8, <2>1 DEF Newest1st
<1>11. Listed'
  BY <1>6, <1>9, <1>10 DEF Listed, Newest1st
<1>12. list # <<>> => list' # <<>>
  <2>1. list \in Seq(Row)
    BY DEF TypeOK
  <2>2. list # <<>> => DOMAIN list # {}
    BY <2>1
  <2> QED
    BY <1>8, <2>2
<1> QED
  BY <1>4, <1>5, <1>11, <1>12 DEF Counted, rs

(* A new row goes in front, as it is the newest. *)
LEMMA InsertedLists ==
  ASSUME TypeOK, Listed, ~Paginated, opts' = opts, search = Blank, search' = Blank,
         NEW p \in Pks, NEW v \in Values,
         \A q \in Pks : Exists(q) => q < p,
         db' = [db EXCEPT ![p] = v],
         list' = <<[id |-> p, val |-> v]>> \o list
  PROVE  Listed' /\ Counted'
<1> DEFINE row == [id |-> p, val |-> v]
<1>1. db \in Tables /\ db' \in Tables /\ ~Paginated' /\ v # Blank /\ p \in Nat
  BY ConstantsAssumption, Numbers DEF TypeOK, Tables, Paginated
<1>2. ToSet(list) = Found(db, Blank) /\ Newest1st(list)
  BY <1>1, ListedAll
<1>3. row \in Row /\ list \in Seq(Row) /\ row.id = p /\ row.val = v
  BY DEF Row, TypeOK
<1> HIDE DEF row
<1>4. Len(list) \in Nat /\ DOMAIN list = 1 .. Len(list)
  BY <1>3
<1>5. /\ DOMAIN list' = 1 .. Len(list) + 1 /\ list'[1] = row
      /\ \A k \in 2 .. Len(list) + 1 : list'[k] = list[k - 1]
  <2>1. <<row>> \in Seq(Row) /\ Len(<<row>>) = 1 /\ <<row>>[1] = row
    BY <1>3
  <2>2. list' = <<row>> \o list
    BY DEF row
  <2> QED
    BY <1>3, <1>4, <2>1, <2>2, ConcatProperties
<1>6. ToSet(list') = {row} \cup ToSet(list)
  <2>1. \A k \in DOMAIN list' : k # 1 => k - 1 \in DOMAIN list /\ list'[k] = list[k - 1]
    BY <1>4, <1>5
  <2>2. \A k \in DOMAIN list : k + 1 \in DOMAIN list' /\ list'[k + 1] = list[k]
    BY <1>4, <1>5
  <2>3. 1 \in DOMAIN list'
    BY <1>4, <1>5
  <2>4. \A r \in ToSet(list') : r \in {row} \cup ToSet(list)
    BY <1>5, <2>1 DEF ToSet
  <2>5. row \in ToSet(list')
    BY <1>5, <2>3 DEF ToSet
  <2>6. ASSUME NEW k \in DOMAIN list PROVE list[k] \in ToSet(list')
    BY <2>2 DEF ToSet
  <2>7. \A r \in ToSet(list) : r \in ToSet(list')
    BY <2>6 DEF ToSet
  <2> QED
    BY <2>4, <2>5, <2>7
<1>7. Found(db', Blank) = {row} \cup Found(db, Blank)
  <2>1. db[p] = Blank
    BY <1>1 DEF Exists
  <2>2. \A r \in Row : db'[r.id] = r.val /\ Matched(db', Blank, r.id) <=>
                       r = row \/ (db[r.id] = r.val /\ Matched(db, Blank, r.id))
    <3> SUFFICES ASSUME NEW r \in Row
                 PROVE  db'[r.id] = r.val /\ Matched(db', Blank, r.id) <=>
                        r = row \/ (db[r.id] = r.val /\ Matched(db, Blank, r.id))
      OBVIOUS
    <3>1. CASE r.id = p
      <4>1. db'[r.id] = v
        BY <1>1, <3>1 DEF Tables
      <4>2. r = row <=> r.val = v
        BY <1>3, <3>1 DEF Row
      <4> QED
        BY <1>1, <2>1, <3>1, <4>1, <4>2 DEF Matched
    <3>2. CASE r.id # p
      <4>1. db'[r.id] = db[r.id] /\ r # row
        BY <1>1, <1>3, <3>2 DEF Tables, Row
      <4> QED
        BY <4>1 DEF Matched
    <3> QED
      BY <3>1, <3>2
  <2> QED
    BY <1>3, <2>2 DEF Found
<1>8. Newest1st(list')
  <2>1. \A k \in DOMAIN list : list[k].id < p /\ list[k].id \in Nat
    BY ListedRows, Numbers
  <2> SUFFICES ASSUME NEW i \in DOMAIN list', NEW j \in DOMAIN list', i < j
               PROVE  list'[i].id > list'[j].id
    BY DEF Newest1st
  <2>2. j - 1 \in DOMAIN list /\ list'[j] = list[j - 1]
    BY <1>4, <1>5
  <2>3. CASE i = 1
    BY <1>1, <1>3, <1>5, <2>1, <2>2, <2>3
  <2>4. CASE i # 1
    <3>1. i - 1 \in DOMAIN list /\ list'[i] = list[i - 1] /\ i - 1 < j - 1
      BY <1>4, <1>5, <2>4
    <3> QED
      BY <1>2, <2>2, <3>1 DEF Newest1st
  <2> QED
    BY <2>3, <2>4
<1>9. Listed'
  BY <1>1, <1>2, <1>6, <1>7, <1>8, ListedAll
<1> QED
  BY <1>1, <1>9 DEF Counted

(* A row that is erased is taken out. *)
LEMMA ErasedLists ==
  ASSUME TypeOK, Listed, ~Paginated, opts' = opts, search = Blank, search' = Blank,
         NEW p \in Pks, db' = [db EXCEPT ![p] = Blank],
         list' = Picked(list, Others(list, p))
  PROVE  Listed' /\ Counted'
<1> DEFINE at == Others(list, p)
           n == Cardinality(at)
           pos == Positions(at)
<1>1. db \in Tables /\ db' \in Tables /\ ~Paginated' /\ list \in Seq(Row)
  BY DEF TypeOK, Tables, Paginated
<1>2. ToSet(list) = Found(db, Blank) /\ Newest1st(list)
  BY <1>1, ListedAll
<1>3. at \in SUBSET (DOMAIN list)
  BY DEF Others
<1> HIDE DEF at
<1>4. /\ n \in Nat /\ DOMAIN list' = 1 .. n
      /\ pos \in [1 .. n -> at] /\ Increasing(pos)
  BY <1>1, <1>3, PickedIs DEF at
<1>5. \A k \in at : \E i \in 1 .. n : pos[i] = k
  BY ZenonT(40), <1>1, <1>3, PickedIs
<1>6. \A i \in 1 .. n : list'[i] = list[pos[i]]
  BY <1>1, <1>3, PickedIs DEF at
<1> HIDE DEF n, pos
<1>7. ToSet(list') = { r \in ToSet(list) : r.id # p }
  <2>1. \A i \in 1 .. n : pos[i] \in DOMAIN list /\ list'[i].id # p
    BY <1>3, <1>4, <1>6 DEF at, Others
  <2>2. \A k \in DOMAIN list : list[k].id # p => \E i \in 1 .. n : list'[i] = list[k]
    BY <1>5, <1>6 DEF at, Others
  <2>3. \A r \in ToSet(list') : r \in ToSet(list) /\ r.id # p
    BY <1>4, <1>6, <2>1 DEF ToSet
  <2>4. \A r \in ToSet(list) : r.id # p => r \in ToSet(list')
    BY <1>4, <2>2 DEF ToSet
  <2> QED
    BY <2>3, <2>4
<1>8. Found(db', Blank) = { r \in Found(db, Blank) : r.id # p }
  <2>1. \A q \in Pks : db'[q] = IF q = p THEN Blank ELSE db[q]
    BY <1>1 DEF Tables
  <2>2. \A q \in Pks : Matched(db', Blank, q) <=> q # p /\ Matched(db, Blank, q)
    BY <2>1 DEF Matched
  <2>3. \A r \in Row : r.id \in Pks
    BY DEF Row
  <2>4. \A r \in Row : r \in Found(db', Blank) <=> r \in Found(db, Blank) /\ r.id # p
    BY <2>1, <2>2, <2>3 DEF Found
  <2> QED
    BY <2>4 DEF Found
<1>9. Newest1st(list')
  <2> SUFFICES ASSUME NEW i \in DOMAIN list', NEW j \in DOMAIN list', i < j
               PROVE  list'[i].id > list'[j].id
    BY DEF Newest1st
  <2>1. pos[i] < pos[j] /\ pos[i] \in DOMAIN list /\ pos[j] \in DOMAIN list
    BY <1>3, <1>4 DEF Increasing
  <2> QED
    BY <1>2, <1>4, <1>6, <2>1 DEF Newest1st
<1>10. Listed'
  BY <1>1, <1>2, <1>7, <1>8, <1>9, ListedAll
<1> QED
  BY <1>1, <1>10 DEF Counted
(* A class that patches its lists searches for nothing. *)
LEMMA NothingSought ==
  ASSUME NoPatchedSearch, TypeOK, SearchOK, opts.incremental PROVE search = Blank
BY DEF NoPatchedSearch, TypeOK, SearchOK

(* A saved row is patched in, or the list is loaded again. *)
LEMMA SavedLists ==
  ASSUME NoPatchedSearch, IInv, ListInv, opts' = opts,
         NEW p \in Pks, NEW v \in Values, NEW wasCreate \in BOOLEAN,
         Saved(p, v, wasCreate), ev.pc \notin {"count", "fetch"},
         wasCreate => \A q \in Pks : Exists(q) => q < p,
         clean /\ ~wasCreate => Exists(p)
  PROVE  ListInv'
<1> DEFINE row == [id |-> p, val |-> v]
<1>1. TypeOK /\ SearchOK /\ Pks \subseteq Nat
  BY Numbers DEF IInv, ListInv
<1>2. /\ db' = [db EXCEPT ![p] = v]
      /\ UNCHANGED <<page, pageSize, pageCount, search, clean>>
  BY DEF Saved
<1>3. SearchOK'
  BY <1>2 DEF ListInv, SearchOK
<1>4. CASE ~CanPatch(p, wasCreate)
  <2>1. Go("count")
    BY <1>4 DEF Saved
  <2>2. ev'.pc = "count"
    BY <1>1, <2>1, GoEvent DEF Awaiting
  <2> QED
    BY <1>3, <2>2 DEF ListInv, Shown, Fetching, UpdateOK
<1>5. CASE CanPatch(p, wasCreate)
  <2>1. Patched(row, wasCreate) /\ ev'.pc = "idle"
    BY <1>5 DEF Saved, Idle
  <2>2. search = Blank
    BY <1>1, <1>5, NothingSought DEF CanPatch
  <2>3. ASSUME clean PROVE Listed' /\ Counted'
    <3>1. Listed /\ Counted
      BY <2>3 DEF ListInv, Shown
    <3>2. CASE p \in Ids(list)
      <4>1. PICK k \in DOMAIN list : list[k].id = p
        BY <3>2 DEF Ids
      <4>2. Exists(p)
        BY <1>1, <3>1, <4>1, ListedRows
      <4>3. row.id = p
        OBVIOUS
      <4>4. /\ totalCount' = totalCount
            /\ list' = [i \in DOMAIN list |-> IF list[i].id = p THEN row ELSE list[i]]
        BY <2>1, <3>2, <4>3 DEF Patched
      <4> QED
        BY <1>1, <1>2, <2>2, <3>1, <4>2, <4>4, ReplacedLists
    <3>3. CASE p \notin Ids(list)
      <4>1. wasCreate /\ ~Paginated
        BY <1>5, <3>3 DEF CanPatch
      <4>2. row.id = p
        OBVIOUS
      <4>3. list' = <<row>> \o list
        BY <2>1, <3>3, <4>2 DEF Patched
      <4> QED
        BY <1>1, <1>2, <2>2, <3>1, <4>1, <4>3, InsertedLists
    <3> QED
      BY <3>2, <3>3
  <2> QED
    BY <1>2, <1>3, <2>1, <2>3 DEF ListInv, Shown, Fetching, UpdateOK
<1> QED
  BY <1>4, <1>5

LEMMA InsertRowLists ==
  ASSUME NoPatchedSearch, IInv, ListInv, opts' = opts, InsertRow PROVE ListInv'
<1>1. /\ rows < MaxRows /\ rows' = rows + 1 /\ Saved(rows', ev.data, TRUE)
      /\ ev.pc = "insert"
  BY DEF InsertRow
<1>2. rows \in 0 .. MaxRows /\ ev.data \in Values
  BY <1>1 DEF IInv, TypeOK, EventOK
<1>3. rows' \in Pks /\ rows' \in 1 .. rows' /\ rows' \notin 1 .. rows
  BY <1>1, <1>2, Numbers DEF Pks
<1>4. ASSUME NEW q \in Pks, Exists(q) PROVE q < rows'
  <2>1. q \in 1 .. rows
    BY <1>4 DEF IInv, RowsOK, Exists
  <2> QED
    BY <1>1, <1>2, <2>1
<1> QED
  BY <1>1, <1>2, <1>3, <1>4, SavedLists

LEMMA UpdateRowLists ==
  ASSUME NoPatchedSearch, IInv, ListInv, opts' = opts, UpdateRow PROVE ListInv'
<1>1. /\ Saved(ev.pk, ev.data, FALSE) /\ ev.pc = "update"
      /\ ev.pk \in Pks /\ ev.data \in Values
  BY DEF UpdateRow, IInv, EventOK
<1>2. clean => Exists(ev.pk)
  BY <1>1 DEF ListInv, UpdateOK
<1> QED
  BY <1>1, <1>2, SavedLists

LEMMA EraseRowLists ==
  ASSUME NoPatchedSearch, IInv, ListInv, opts' = opts, EraseRow PROVE ListInv'
<1> DEFINE p == ev.pk
<1>1. /\ TypeOK /\ SearchOK /\ p \in Pks /\ ev.pc = "erase"
      /\ db' = [db EXCEPT ![p] = Blank]
      /\ UNCHANGED <<search, clean>>
  BY DEF EraseRow, IInv, ListInv, EventOK
<1>2. SearchOK'
  BY <1>1 DEF ListInv, SearchOK
<1>3. CASE opts.incremental /\ ~Paginated /\ p \in Ids(list)
  <2>1. list' = Picked(list, Others(list, p)) /\ ev'.pc = "idle"
    BY <1>3 DEF EraseRow, Others, Idle
  <2>2. search = Blank
    BY <1>1, <1>3, NothingSought
  <2>3. ASSUME clean PROVE Listed' /\ Counted'
    <3>1. Listed
      BY <1>1, <2>3 DEF ListInv, Shown
    <3> HIDE DEF p
    <3> QED
      BY <1>1, <1>3, <2>1, <2>2, <3>1, ErasedLists
  <2> QED
    BY <1>1, <1>2, <2>1, <2>3 DEF ListInv, Shown, Fetching, UpdateOK
<1>4. CASE ~(opts.incremental /\ ~Paginated /\ p \in Ids(list))
  <2>1. Go("count")
    BY <1>4 DEF EraseRow
  <2>2. ev'.pc = "count"
    BY <1>1, <2>1, GoEvent DEF Awaiting
  <2> QED
    BY <1>2, <2>2 DEF ListInv, Shown, Fetching, UpdateOK
<1> QED
  BY <1>3, <1>4

(* Events that are to load the list. *)
LEMMA ListEventLists ==
  ASSUME ListInv, opts' = opts, ListEvent PROVE ListInv'
<1>1. clean' = FALSE
  BY DEF ListEvent, Refresh, NextPage, PrevPage, GoToPage, SetPageSize, Paginate,
         SetSearch, Reloads, StartLoad
<1>2. search' = search \/ opts.searchable
  BY DEF ListEvent, Refresh, NextPage, PrevPage, GoToPage, SetPageSize, Paginate,
         SetSearch, Reloads, view
<1>3. SearchOK'
  BY <1>2 DEF ListInv, SearchOK
<1> QED
  BY <1>1, <1>3, Dirty

(* Events of the form, up to what they write. *)
LEMMA FormEventLists ==
  ASSUME IInv, ListInv, opts' = opts, FormEvent PROVE ListInv'
<1>1. /\ ev.pc = "idle" /\ UNCHANGED <<view, db, clean>>
      /\ ev'.pc \notin {"fetch", "update"}
  <2>1. CASE SetField \/ CancelEdit
    BY <2>1 DEF SetField, CancelEdit, table
  <2>2. CASE \E id \in {editing, NotEditing}, v \in Values \cup {Blank} :
               Save(id, v)
    <3>1. PICK id \in {editing, NotEditing}, v \in Values \cup {Blank} : Save(id, v)
      BY <2>2
    <3>2. ev.pc = "idle" /\ UNCHANGED <<view, db, clean>>
      BY <3>1 DEF Save, table
    <3>3. CASE v = Blank
      <4>1. ev' = ev
        BY <3>1, <3>3 DEF Save
      <4> QED
        BY <3>2, <4>1
    <3>4. CASE v # Blank
      <4>1. Begin(IF id = NotEditing THEN "insert" ELSE "retrieve", "save", id, v)
        BY <3>1, <3>4 DEF Save
      <4>2. ev'.pc = IF id = NotEditing THEN "insert" ELSE "retrieve"
        BY <4>1 DEF Begin
      <4> QED
        BY <3>2, <4>2
    <3> QED
      BY <3>2, <3>3, <3>4
  <2>3. CASE \E p \in Ids(list) : StartEdit(p)
    BY <2>3 DEF StartEdit, Begin, table
  <2>4. CASE \E p \in Ids(list) \cup ({editing} \ {NotEditing}) : Delete(p)
    BY <2>4 DEF Delete, Begin, table
  <2> QED
    BY <2>1, <2>2, <2>3, <2>4 DEF FormEvent
<1> QED
  BY <1>1, ListKept

LEMMA FindRowLists ==
  ASSUME IInv, ListInv, opts' = opts, FindRow PROVE ListInv'
<1>1. ev.pc = "find" /\ UNCHANGED <<view, db, clean>> /\ TypeOK
  BY DEF FindRow, table, IInv
<1>2. ev' = Idle \/ Go("count")
  BY DEF FindRow
<1>3. ev'.pc \in {"idle", "count"}
  BY <1>1, <1>2, GoEvent DEF Awaiting, Idle
<1> QED
  BY <1>1, <1>3, ListKept

LEMMA RetrieveRowLists ==
  ASSUME IInv, ListInv, opts' = opts, RetrieveRow PROVE ListInv'
<1>1. ev.pc = "retrieve" /\ UNCHANGED <<view, db, clean>> /\ TypeOK
  BY DEF RetrieveRow, table, IInv
<1>2. ev' = Idle \/ (Go("update") /\ Exists(ev.pk))
  BY DEF RetrieveRow
<1>3. ev'.pc = "idle" \/ (ev'.pc = "update" /\ ev'.pk = ev.pk /\ Exists(ev.pk))
  BY <1>1, <1>2, GoEvent DEF Awaiting, Idle
<1> QED
  BY <1>1, <1>3, ListKept

LEMMA GetRowLists ==
  ASSUME IInv, ListInv, opts' = opts, GetRow PROVE ListInv'
<1>1. ev.pc = "get" /\ UNCHANGED <<view, db, clean>> /\ TypeOK
  BY DEF GetRow, table, IInv
<1>2. ev' = Idle \/ Go("erase")
  BY DEF GetRow
<1>3. ev'.pc \in {"idle", "erase"}
  BY <1>1, <1>2, GoEvent DEF Awaiting, Idle
<1> QED
  BY <1>1, <1>3, ListKept

(* Nothing changes. *)
LEMMA ListStutters ==
  ASSUME ListInv, UNCHANGED vars PROVE ListInv'
<1>1. UNCHANGED <<opts, view, db, ev, clean>>
  BY DEF vars, table
<1>2. UNCHANGED <<page, pageSize, pageCount, totalCount, search>>
  BY <1>1 DEF view
<1>3. Listed' = Listed /\ Counted' = Counted
  BY <1>1, SameList
<1>4. ScopedQuery' = ScopedQuery /\ Size' = Size /\ Paginated' = Paginated
  BY <1>1, <1>2, SameQuery, SameSize
<1>5. Shown'
  BY <1>1, <1>3 DEF ListInv, Shown
<1>6. Fetching'
  BY <1>1, <1>2, <1>4 DEF ListInv, Fetching, PageCountOf
<1>7. SearchOK' /\ UpdateOK'
  BY <1>1, <1>2 DEF ListInv, SearchOK, UpdateOK, Exists
<1> QED
  BY <1>5, <1>6, <1>7 DEF ListInv

LEMMA NextListInv ==
  ASSUME NoPatchedSearch PROVE IInv /\ ListInv /\ [Next]_vars => ListInv'
<1> SUFFICES ASSUME IInv, ListInv, [Next]_vars PROVE ListInv'
  OBVIOUS
<1>1. CASE UNCHANGED vars
  BY <1>1, ListStutters
<1>2. CASE Next
  <2>1. opts' = opts
    BY <1>2 DEF Next
  <2>2. CASE ListEvent
    BY <2>1, <2>2, ListEventLists
  <2>3. CASE FormEvent
    BY <2>1, <2>3, FormEventLists
  <2>4. CASE Step
    BY <2>1, <2>4, CountRowsLists, FetchRowsLists, FindRowLists, RetrieveRowLists,
       InsertRowLists, UpdateRowLists, GetRowLists, EraseRowLists DEF Step
  <2>5. CASE Raises \/ OtherWrites
    <3>1. clean' = FALSE /\ search' = search
      BY <2>5 DEF Raises, OtherWrites, view
    <3>2. SearchOK'
      BY <2>1, <3>1 DEF ListInv, SearchOK
    <3> QED
      BY <3>1, <3>2, Dirty
  <2> QED
    BY <1>2, <2>2, <2>3, <2>4, <2>5 DEF Next
<1> QED
  BY <1>1, <1>2

LEMMA ListInvariant ==
  ASSUME NoPatchedSearch PROVE Spec => []ListInv
<1>1. Init => ListInv
  BY DEF Init, ListInv, Shown, Fetching, SearchOK, UpdateOK, Idle
<1>2. IInv /\ ListInv /\ [Next]_vars => ListInv'
  BY NextListInv
<1> QED
  BY InitIInv, NextIInv, <1>1, <1>2, PTL DEF Spec

(* Between events a list that nobody else wrote to is what loading it again *)
(* would show, if the class that patches it does not search: every patch is *)
(* as good as the reload it spares (ListMixin.patch_list_row,               *)
(* remove_list_row).                                                        *)
THEOREM ListsArePages ==
  ASSUME NoPatchedSearch PROVE Spec => []ListIsPage
<1>1. IInv /\ ListInv => ListIsPage
  <2> SUFFICES ASSUME IInv, ListInv, ev.pc = "idle", clean
               PROVE  LET rs == ScopedQuery
                          at == { i \in DOMAIN rs :
                                    Paginated => (i - 1) \div Size = page - 1 }
                      IN /\ ToSet(list) = { rs[i] : i \in at }
                         /\ \A i, j \in DOMAIN list : i < j => list[i].id > list[j].id
    BY DEF ListIsPage
  <2>1. Listed
    BY DEF ListInv, Shown
  <2>2. DOMAIN ScopedQuery = 1 .. Len(ScopedQuery)
    BY ScopedType DEF IInv
  <2> QED
    BY <2>1, <2>2 DEF Listed, PageIndices, Newest1st
<1> QED
  BY InitIInv, NextIInv, ListInvariant, <1>1, PTL DEF Spec

(* The page shown is one there is, of a count that is right, and it is not  *)
(* empty while there are rows (update_pagination_meta).                     *)
THEOREM PageVarsRight ==
  ASSUME NoPatchedSearch PROVE Spec => []PageVarsAgree
<1>1. ListInv => PageVarsAgree
  BY DEF ListInv, Shown, Counted, PageVarsAgree
<1> QED
  BY ListInvariant, <1>1, PTL
=============================================================================
