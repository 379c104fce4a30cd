----------------------------- MODULE ModelState ------------------------------
(* A ModelState: the list, page, search and form vars of one tab, and the  *)
(* events that read and write its model's table while other requests write *)
(* the same table.                                                         *)
(*                                                                         *)
(* The events of a tab run one at a time.  Each await of the ORM is a step *)
(* of its own: other requests write between the steps, and a step may      *)
(* raise, which dispatch() turns into the error var.  The model has one    *)
(* required text field and orders its rows by "-created_at"; rows are      *)
(* numbered in the order they are created.                                 *)
(*                                                                         *)
(* An operator named Op_Variant is Op with a plausible mistake in it; no   *)
(* action uses it.                                                         *)
EXTENDS Integers, Sequences, FiniteSets, SequencesExt, Picks

CONSTANTS
  Values,       \* values of the field
  Blank,        \* the empty value
  MaxRows,      \* bound on the rows ever created
  MaxUpdates,   \* bound on the updates of existing rows
  MaxPageSize,  \* max_page_size
  Options,      \* Meta options: paginate_by (0 for none), whether there are
                \* search_fields, incremental_updates
  Failing       \* the options of those classes whose backend may raise

ASSUME ConstantsAssumption ==
  /\ Blank \notin Values
  /\ {MaxRows, MaxUpdates} \subseteq Nat
  /\ MaxPageSize \in Nat \ {0}
  /\ Options \subseteq [paginate_by: Nat, searchable: BOOLEAN, incremental: BOOLEAN]
  /\ Failing \subseteq Options

VARIABLES
  opts,       \* the options of the state's class
  db,         \* the field of every row that exists
  rows,       \* rows created so far
  updates,    \* updates so far
  list,       \* the list var
  page, pageSize, pageCount, totalCount,
  search,     \* the search text or filter; Blank for none
  editing,    \* editing_id
  field,      \* the form's field
  error,      \* whether the error var is set
  ev,         \* the event under way
  clean,      \* history: no other request wrote since the list was loaded,
              \* and no load failed
  erased,     \* history: rows this state deleted
  stored      \* history: the form as it stands was inserted as a row

view   == <<list, page, pageSize, pageCount, totalCount, search>>
form   == <<editing, field, stored>>
table  == <<db, rows, updates, erased>>
vars   == <<opts, view, form, table, error, ev, clean>>

Pks == 1..MaxRows
NotEditing == -1
Row == [id: Pks, val: Values]
Paginated == opts.paginate_by > 0
Awaiting == {"count", "fetch", "retrieve", "update", "insert", "get", "erase", "find"}

TypeOK ==
  /\ opts \in Options
  /\ db \in [Pks -> Values \cup {Blank}]
  /\ rows \in 0..MaxRows
  /\ updates \in 0..MaxUpdates
  /\ list \in Seq(Row)
  /\ page \in Nat \ {0} /\ pageSize \in 1..MaxPageSize \cup {opts.paginate_by}
  /\ pageCount \in Nat /\ totalCount \in Nat
  /\ search \in Values \cup {Blank}
  /\ editing \in Pks \cup {NotEditing}
  /\ field \in Values \cup {Blank}
  /\ ev \in [pc: {"idle"} \cup Awaiting,
             act: {"none", "load", "save", "delete", "edit"},
             pk: Pks \cup {NotEditing}, data: Values \cup {Blank}]
  /\ {error, clean, stored} \subseteq BOOLEAN
  /\ erased \subseteq Pks

Idle == [pc |-> "idle", act |-> "none", pk |-> NotEditing, data |-> Blank]

Init ==
  /\ opts \in Options
  /\ db = [p \in Pks |-> Blank]
  /\ rows = 0 /\ updates = 0 /\ erased = {}
  /\ list = <<>>
  /\ page = 1 /\ pageSize = opts.paginate_by /\ pageCount = 0 /\ totalCount = 0
  /\ search = Blank
  /\ editing = NotEditing /\ field = Blank /\ stored = FALSE
  /\ error = FALSE /\ clean = FALSE
  /\ ev = Idle

-----------------------------------------------------------------------------
(* The table. *)

Exists(p) == db[p] # Blank

(* get_scoped_queryset: the rows the search leaves, newest first. *)
Matching(v) == v # Blank /\ search \in {Blank, v}
Newest == \* every row, newest first
  [i \in Pks |-> [id |-> MaxRows + 1 - i, val |-> db[MaxRows + 1 - i]]]
ScopedQuery == Picked(Newest, { i \in Pks : Matching(Newest[i].val) })

IntMin(a, b) == IF a < b THEN a ELSE b
IntMax(a, b) == IF a > b THEN a ELSE b

(* get_page_size, get_page. *)
Size == IntMin(IntMax(1, IF pageSize = 0 THEN opts.paginate_by ELSE pageSize), MaxPageSize)

(* paginate_queryset: queryset[start : start + size]. *)
PageOf(rs, n) ==
  IF Paginated
  THEN SubSeq(rs, (n - 1) * Size + 1, IntMin(n * Size, Len(rs)))
  ELSE rs

PageCountOf(total) == IntMax(1, (total + Size - 1) \div Size)

(* update_pagination_meta brings the page back into range. *)
ClampedPage_Unclamped(total) == page
ClampedPage(total) == IntMin(page, PageCountOf(total))

Ids(rs) == { rs[i].id : i \in DOMAIN rs }

-----------------------------------------------------------------------------
(* Events are handed to dispatch() one after the other. *)

Begin(step, act, pk, data) ==
  /\ ev.pc = "idle"
  /\ ev' = [pc |-> step, act |-> act, pk |-> pk, data |-> data]

Go(step) == ev' = [ev EXCEPT !.pc = step]

(* dispatch(): an exception ends the action and sets the error var. *)
Raises ==
  /\ ev.pc # "idle"
  /\ opts \in Failing
  /\ ev' = Idle
  /\ error' = TRUE
  /\ clean' = FALSE
  /\ UNCHANGED <<view, form, table>>

(* load_list clears the error var and lists the rows. *)
StartLoad ==
  /\ Begin("count", "load", NotEditing, Blank)
  /\ error' = FALSE
  /\ clean' = FALSE

Refresh ==
  /\ StartLoad
  /\ UNCHANGED <<view, form, table>>

Reloads(n, size) ==
  /\ StartLoad
  /\ page' = n /\ pageSize' = size
  /\ UNCHANGED <<list, pageCount, totalCount, search, form, table>>

NextPage == Paginated /\ page < pageCount /\ Reloads(page + 1, pageSize)
PrevPage == Paginated /\ page > 1 /\ Reloads(page - 1, pageSize)

(* Bound: pages up to one past any that exists are asked for. *)
Pages == 0..MaxRows + 1
ClampedSize(size) == IntMin(IntMax(1, size), MaxPageSize)

GoToPage ==
  /\ Paginated
  /\ \E n \in Pages : Reloads(IntMax(1, IntMin(n, IntMax(1, pageCount))), pageSize)

SetPageSize ==
  /\ Paginated
  /\ \E size \in 0..MaxPageSize + 1 : Reloads(1, ClampedSize(size))

Paginate ==
  /\ Paginated
  /\ \E n \in Pages, size \in 1..MaxPageSize : Reloads(IntMax(1, n), ClampedSize(size))

(* set_search and clear_search reset the page, filter and clear_filter     *)
(* leave it.                                                               *)
SetSearch ==
  /\ opts.searchable
  /\ StartLoad
  /\ search' \in Values \cup {Blank}
  /\ page' \in {page, IF Paginated THEN 1 ELSE page}
  /\ UNCHANGED <<list, pageSize, pageCount, totalCount, form, table>>

(* serialize_queryset counts, sets the page vars, and then fetches. *)
CountRows ==
  /\ ev.pc = "count"
  /\ error' = FALSE
  /\ clean' = TRUE
  /\ LET total == Len(ScopedQuery) IN
     /\ IF Paginated
        THEN /\ page' = ClampedPage(total)
             /\ pageCount' = PageCountOf(total)
             /\ totalCount' = total
        ELSE UNCHANGED <<page, pageCount, totalCount>>
     /\ IF total = 0 THEN list' = <<>> /\ ev' = Idle
                     ELSE UNCHANGED list /\ Go("fetch")
  /\ UNCHANGED <<pageSize, search, form, table>>

FetchRows ==
  /\ ev.pc = "fetch"
  /\ list' = PageOf(ScopedQuery, page)
  /\ ev' = Idle
  /\ UNCHANGED <<page, pageSize, pageCount, totalCount, search, form, table, error, clean>>

-----------------------------------------------------------------------------
(* The form. *)

SetField ==
  /\ ev.pc = "idle"
  /\ field' \in Values \cup {Blank}
  /\ stored' = FALSE
  /\ UNCHANGED <<view, editing, table, error, ev, clean>>

(* reset_state_fields. *)
FormReset == editing' = NotEditing /\ field' = Blank

CancelEdit ==
  /\ ev.pc = "idle"
  /\ FormReset
  /\ stored' = FALSE
  /\ error' = FALSE
  /\ UNCHANGED <<view, table, ev, clean>>

(* start_edit and load(pk). *)
StartEdit(p) ==
  /\ Begin("find", "edit", p, Blank)
  /\ error' = FALSE
  /\ UNCHANGED <<view, form, table, clean>>

FindRow ==
  /\ ev.pc = "find"
  /\ IF Exists(ev.pk)
     THEN /\ editing' = ev.pk /\ field' = db[ev.pk] /\ stored' = FALSE
          /\ ev' = Idle
          /\ UNCHANGED error
     ELSE /\ error' = TRUE \* load_list clears it again
          /\ Go("count")
          /\ UNCHANGED form
  /\ UNCHANGED <<view, table, clean>>

(* save() creates or updates; create() leaves edit mode first; the submit  *)
(* handler of a form fills in the field first.                             *)
Save(id, v) ==
  /\ ev.pc = "idle"
  /\ editing' = id /\ field' = v
  /\ stored' = (stored /\ field = v)
  /\ IF v = Blank
     THEN error' = TRUE /\ UNCHANGED ev \* on_state_invalid
     ELSE /\ Begin(IF id = NotEditing THEN "insert" ELSE "retrieve", "save", id, v)
          /\ UNCHANGED error
  /\ UNCHANGED <<view, table, clean>>

(* aget raises DoesNotExist. *)
RetrieveRow ==
  /\ ev.pc = "retrieve"
  /\ IF Exists(ev.pk) THEN Go("update") /\ UNCHANGED error
                      ELSE ev' = Idle /\ error' = TRUE
  /\ UNCHANGED <<view, form, table, clean>>

(* What a saved row does to the form: reset_after_save. *)
FormSaved_Kept == UNCHANGED <<editing, field>>
FormSaved == FormReset

(* apply_saved_row replaces a listed row; without pages a new one goes to  *)
(* the front, as the ordering says.  Otherwise the list is loaded again.   *)
Patched(row, wasCreate) ==
  \/ /\ row.id \in Ids(list)
     /\ list' = [i \in DOMAIN list |-> IF list[i].id = row.id THEN row ELSE list[i]]
     /\ UNCHANGED totalCount
  \/ /\ row.id \notin Ids(list)
     /\ wasCreate
     /\ list' = <<row>> \o list
     /\ totalCount' = totalCount + 1

CanPatch_AnyPage(p, wasCreate) == opts.incremental /\ (p \in Ids(list) \/ wasCreate)
CanPatch(p, wasCreate) ==
  opts.incremental /\ (p \in Ids(list) \/ (wasCreate /\ ~Paginated))

Saved(p, v, wasCreate) ==
  /\ db' = [db EXCEPT ![p] = v]
  /\ FormSaved
  /\ stored' = wasCreate
  /\ error' = FALSE
  /\ IF CanPatch(p, wasCreate)
     THEN Patched([id |-> p, val |-> v], wasCreate) /\ ev' = Idle
     ELSE Go("count") /\ UNCHANGED <<list, totalCount>>
  /\ UNCHANGED <<page, pageSize, pageCount, search, erased, clean>>

InsertRow ==
  /\ ev.pc = "insert"
  /\ rows < MaxRows
  /\ rows' = rows + 1
  /\ Saved(rows', ev.data, TRUE)
  /\ UNCHANGED updates

(* asave() writes the row although it may be gone by now. *)
UpdateRow ==
  /\ ev.pc = "update"
  /\ Saved(ev.pk, ev.data, FALSE)
  /\ UNCHANGED <<rows, updates>>

(* delete(pk), and delete() of the row being edited. *)
Delete(p) ==
  /\ Begin("get", "delete", p, Blank)
  /\ error' = FALSE
  /\ UNCHANGED <<view, form, table, clean>>

GetRow ==
  /\ ev.pc = "get"
  /\ IF Exists(ev.pk) THEN Go("erase") ELSE ev' = Idle
  /\ UNCHANGED <<view, form, table, error, clean>>

(* _bump_total_count(-1). *)
LessOne_Unbounded(n) == n - 1
LessOne(n) == IntMax(0, n - 1)

(* Deleting the row that is being edited leaves edit mode. *)
LeavesEdit_Never(p) == FALSE
LeavesEdit(p) == editing = p

EraseRow ==
  /\ ev.pc = "erase"
  /\ db' = [db EXCEPT ![ev.pk] = Blank]
  /\ erased' = erased \cup {ev.pk}
  /\ IF LeavesEdit(ev.pk) THEN FormReset /\ stored' = FALSE /\ error' = FALSE
                          ELSE UNCHANGED <<form, error>>
  /\ IF opts.incremental /\ ~Paginated /\ ev.pk \in Ids(list)
     THEN /\ list' = Picked(list, { i \in DOMAIN list : list[i].id # ev.pk })
          /\ totalCount' = LessOne(totalCount)
          /\ ev' = Idle
     ELSE Go("count") /\ UNCHANGED <<list, totalCount>>
  /\ UNCHANGED <<page, pageSize, pageCount, search, rows, updates, clean>>

-----------------------------------------------------------------------------
(* Other requests. *)

OtherWrites ==
  /\ clean' = FALSE
  /\ \/ \E v \in Values :
          /\ rows + (IF ev.pc = "insert" THEN 1 ELSE 0) < MaxRows
          /\ rows' = rows + 1
          /\ db' = [db EXCEPT ![rows'] = v]
          /\ UNCHANGED updates
     \/ \E p \in Pks, v \in Values :
          /\ Exists(p)
          /\ updates < MaxUpdates
          /\ updates' = updates + 1
          /\ db' = [db EXCEPT ![p] = v]
          /\ UNCHANGED rows
     \/ \E p \in Pks :
          /\ Exists(p)
          /\ db' = [db EXCEPT ![p] = Blank]
          /\ UNCHANGED <<rows, updates>>
  /\ UNCHANGED <<view, form, erased, error, ev>>

-----------------------------------------------------------------------------
ListEvent ==
  \/ Refresh \/ NextPage \/ PrevPage \/ GoToPage \/ SetPageSize \/ Paginate
  \/ SetSearch

FormEvent ==
  \/ SetField \/ CancelEdit
  \/ \E id \in {editing, NotEditing}, v \in Values \cup {Blank} :
       /\ id = NotEditing => rows < MaxRows \* Bound
       /\ Save(id, v)
  \/ \E p \in Ids(list) : StartEdit(p)
  \/ \E p \in Ids(list) \cup ({editing} \ {NotEditing}) : Delete(p)

Step ==
  \/ CountRows \/ FetchRows \/ FindRow \/ RetrieveRow \/ InsertRow \/ UpdateRow
  \/ GetRow \/ EraseRow

Next ==
  /\ ListEvent \/ FormEvent \/ Step \/ Raises \/ OtherWrites
  /\ UNCHANGED opts

Spec == Init /\ [][Next]_vars

-----------------------------------------------------------------------------
(* Correctness. *)

(* Between events, unless another request wrote since the load, the list   *)
(* is what loading it again would show: patching it after a save or a      *)
(* delete is as good as the reload it spares (ListMixin.patch_list_row).   *)
ListIsPage ==
  ev.pc = "idle" /\ clean =>
    LET rs == ScopedQuery
        at == { i \in DOMAIN rs : Paginated => (i - 1) \div Size = page - 1 }
    IN /\ ToSet(list) = { rs[i] : i \in at }
       /\ \A i, j \in DOMAIN list : i < j => list[i].id > list[j].id

(* The page vars agree with the table, and the page shown is not empty     *)
(* while there are rows: deletions and searches bring the page back into   *)
(* range (update_pagination_meta).                                         *)
PageVarsAgree ==
  ev.pc = "idle" /\ clean /\ Paginated =>
    /\ totalCount = Len(ScopedQuery)
    /\ page <= pageCount
    /\ totalCount > 0 => list # <<>>

(* The form never edits a row that this state itself deleted, whatever     *)
(* failed after the deletion (handle_delete).                              *)
NoErasedEdit == ev.pc = "idle" => editing \notin erased

(* A save that is repeated after an error does not insert the same form    *)
(* twice: once the row is in the table the form is empty, although loading *)
(* the list may still fail (DispatchMixin._handle_save).                   *)
NoSecondInsert == stored => field = Blank

=============================================================================
