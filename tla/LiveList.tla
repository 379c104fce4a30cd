------------------------------ MODULE LiveList -------------------------------
(* A list kept in step with a table by LiveListMixin.                      *)
(*                                                                         *)
(* Threads write rows through the ORM; the post_save and post_delete       *)
(* handlers publish a change to the broadcaster, which schedules it on the *)
(* queue of every subscribed tab.  A background task of the tab takes the  *)
(* changes one at a time, reads the row again and patches the list var.    *)
(* Foreground events of the same tab load the list, or save and delete     *)
(* rows and patch the list themselves.  Whoever works on a tab's list      *)
(* holds the tab's state lock, so reading a row and patching the list with *)
(* it are one step here.  The list is not paginated.                       *)
(*                                                                         *)
(* An operator named Op_Variant is Op with a plausible mistake in it; no   *)
(* action uses it.                                                         *)
EXTENDS Naturals, Sequences, FiniteSets, SequencesExt, Picks

CONSTANTS
  Tabs,            \* states with a live list
  Writers,         \* threads of other requests
  Pks,             \* primary keys
  MaxWrites,       \* bound on the writes of a behaviour
  SubscribeFirst,  \* on_load=[live_subscribe, load], not [load, live_subscribe]
  Transactions     \* writers run in transactions (ATOMIC_REQUESTS)

ASSUME ConstantsAssumption ==
  /\ Tabs \cap Writers = {}
  /\ Pks # {} /\ IsFiniteSet(Pks)
  /\ MaxWrites \in Nat
  /\ {SubscribeFirst, Transactions} \subseteq BOOLEAN

VARIABLES
  db,      \* the table
  writes,  \* writes so far: each row version is numbered
  thread,  \* what each thread does to the table
  subs,    \* tabs registered with the broadcaster
  queue,   \* changes scheduled on or put into a tab's queue
  live,    \* the background task of each tab
  fg,      \* the foreground event of each tab, which holds the state lock
  list,    \* the list var of each tab
  loaded,  \* history: tabs whose list was loaded during this visit
  raced,   \* history: tabs that read a row before its change was committed,
           \* or heard of a deletion that was rolled back, and have not
           \* loaded the list since
  undone,  \* history: rows whose published deletion was rolled back
  entered  \* history: rows an update has brought into the scope since each
           \* tab last loaded its list

vars == <<db, writes, thread, subs, queue, live, fg, list, loaded, raced, undone,
          entered>>

Threads == Writers \cup Tabs
Version == 0..MaxWrites

(* never: not inserted yet; hidden: outside the scoped queryset. *)
DbRow  == [st: {"never", "live", "hidden", "gone"}, ver: Version]
Kinds  == {"created", "updated", "deleted"}
Change == [pk: Pks, kind: Kinds]
ListRow == [id: Pks, ver: Version]

(* fetched: the instance is in memory; signal: the handler is about to     *)
(* publish; sending: to the tabs in to; commit: about to commit; done: a   *)
(* tab's write is over and its list is to be patched.                      *)
Thread == [pc: {"idle", "fetched", "signal", "sending", "commit", "done"},
           pk: Pks, kind: Kinds, row: DbRow, to: SUBSET Tabs]

TypeOK ==
  /\ db \in [Pks -> DbRow]
  /\ writes \in Version
  /\ thread \in [Threads -> Thread]
  /\ subs \subseteq Tabs
  /\ queue \in [Tabs -> Seq(Change)]
  /\ live \in [Tabs -> [pc: {"off", "wait", "got"}, change: Change]]
  /\ fg \in [Tabs -> [pc: {"idle", "writing", "count", "fetch"},
                      op: {"load", "create", "update", "delete"},
                      pk: Pks, fresh: BOOLEAN]]
  /\ list \in [Tabs -> Seq(ListRow)]
  /\ loaded \subseteq Tabs
  /\ raced \subseteq Tabs
  /\ undone \subseteq Pks
  /\ entered \in [Tabs -> SUBSET Pks]

AnyPk == CHOOSE p \in Pks : TRUE
Absent == [st |-> "never", ver |-> 0]
NoChange == [pk |-> AnyPk, kind |-> "updated"]
IdleThread == [pc |-> "idle", pk |-> AnyPk, kind |-> "updated", row |-> Absent,
               to |-> {}]
IdleFg == [pc |-> "idle", op |-> "load", pk |-> AnyPk, fresh |-> FALSE]

Init ==
  /\ db = [p \in Pks |-> Absent]
  /\ writes = 0
  /\ thread = [w \in Threads |-> IdleThread]
  /\ subs = {}
  /\ queue = [t \in Tabs |-> <<>>]
  /\ live = [t \in Tabs |-> [pc |-> "off", change |-> NoChange]]
  /\ fg = [t \in Tabs |-> IdleFg]
  /\ list = [t \in Tabs |-> <<>>]
  /\ loaded = {}
  /\ raced = {}
  /\ undone = {}
  /\ entered = [t \in Tabs |-> {}]

-----------------------------------------------------------------------------
(* The list var. *)

Ids(rows) == { rows[i].id : i \in DOMAIN rows }
Contents(rows) == { rows[i] : i \in DOMAIN rows }

(* patch_list_row: replace the row in place, else append a created one. *)
Patched_Appends(rows, row, wasCreate) ==
  IF wasCreate THEN Append(rows, row)
  ELSE [i \in DOMAIN rows |-> IF rows[i].id = row.id THEN row ELSE rows[i]]
Patched(rows, row, wasCreate) ==
  IF row.id \in Ids(rows)
  THEN [i \in DOMAIN rows |-> IF rows[i].id = row.id THEN row ELSE rows[i]]
  ELSE IF wasCreate THEN Append(rows, row) ELSE rows

(* remove_list_row. *)
Removed(rows, p) == Picked(rows, { i \in DOMAIN rows : rows[i].id # p })

Shown(p) == db[p].st = "live"
Table == { [id |-> p, ver |-> db[p].ver] : p \in { q \in Pks : Shown(q) } }

-----------------------------------------------------------------------------
(* Writing rows. *)

(* Bound: rows are numbered to MaxWrites; an instance in memory will be    *)
(* written.                                                                *)
MayWrite ==
  writes + Cardinality({ w \in Threads : thread[w].pc = "fetched" }) < MaxWrites

Exists(p) == db[p].st \in {"live", "hidden"}

(* Model.delete() is atomic and sends post_delete inside its transaction;  *)
(* save() sends post_save after its own one.                               *)
InTransaction(w, kind) == kind = "deleted" \/ (Transactions /\ w \in Writers)

(* Written, maybe published, and not committed: the database holds the row *)
(* lock, and others read the row as it was.                                *)
Uncommitted(w) ==
  /\ thread[w].pc \in {"signal", "sending", "commit"}
  /\ InTransaction(w, thread[w].kind)
Locked(p) == \E w \in Threads : Uncommitted(w) /\ thread[w].pk = p

(* Reading the table now misses a write that was published already. *)
ReadTooEarly == \E w \in Threads : Uncommitted(w) /\ thread[w].pc # "signal"

(* Others see the row from now on. *)
Committed(p, row) ==
  /\ db' = [db EXCEPT ![p] = row]
  /\ entered' = [t \in Tabs |-> IF row.st # "live" THEN entered[t] \ {p}
                                ELSE IF db[p].st = "hidden" THEN entered[t] \cup {p}
                                ELSE entered[t]]

Wrote(w, p, kind, row) ==
  /\ ~Locked(p)
  /\ writes' = writes + 1
  /\ IF InTransaction(w, kind) THEN UNCHANGED <<db, entered>> ELSE Committed(p,
                                                row)
  /\ thread' = [thread EXCEPT ![w] = [pc |-> "signal", pk |-> p, kind |-> kind,
                                      row |-> row, to |-> {}]]

(* _on_save tells an insert from an update. *)
SavedKind(p) == IF Exists(p) THEN "updated" ELSE "created"

(* objects.create; a fresh row may be outside the scope of the lists. *)
Insert(w, p) ==
  /\ MayWrite
  /\ thread[w].pc = "idle"
  /\ db[p].st = "never"
  /\ \A x \in Threads : thread[x].pc # "idle" => thread[x].pk # p
  /\ \E st \in {"live", "hidden"} :
       Wrote(w, p, SavedKind(p), [st |-> st, ver |-> writes + 1])

(* objects.get before a save() or a delete(). *)
Get(w, p, kind) ==
  /\ MayWrite
  /\ thread[w].pc = "idle"
  /\ kind \in {"updated", "deleted"}
  /\ Exists(p)
  /\ thread' = [thread EXCEPT ![w] = [IdleThread EXCEPT !.pc = "fetched",
                                        !.pk = p, !.kind = kind]]
  /\ UNCHANGED <<db, writes, entered>>

(* instance.save() writes every field: the row may leave the scope of the  *)
(* lists or enter it.  A row deleted meanwhile is inserted again, and      *)
(* post_save says created.                                                 *)
Save(w) ==
  /\ thread[w].pc = "fetched"
  /\ thread[w].kind = "updated"
  /\ LET p == thread[w].pk IN
     \E st \in {"live", "hidden"} :
       Wrote(w, p, SavedKind(p), [st |-> st, ver |-> writes + 1])

(* instance.delete() signals whether or not the row was still there. *)
Erase(w) ==
  /\ thread[w].pc = "fetched"
  /\ thread[w].kind = "deleted"
  /\ Wrote(w, thread[w].pk, "deleted", [st |-> "gone", ver |-> writes + 1])

(* LiveBroadcaster.publish: the subscribers are copied under the lock. *)
Publish(w) ==
  /\ thread[w].pc = "signal"
  /\ thread' = [thread EXCEPT ![w].pc = "sending", ![w].to = subs]
  /\ UNCHANGED <<db, writes, subs, queue, live, fg, list, loaded, raced,
                 undone,
                 entered>>

(* call_soon_threadsafe(queue.put_nowait, change). *)
Send(w, t) ==
  /\ thread[w].pc = "sending"
  /\ t \in thread[w].to
  /\ thread' = [thread EXCEPT ![w].to = @ \ {t}]
  /\ queue' = [queue EXCEPT ![t] =
                  Append(@, [pk |-> thread[w].pk, kind |-> thread[w].kind])]
  /\ UNCHANGED <<db, writes, subs, live, fg, list, loaded, raced, undone,
                 entered>>

Finished(w) == IF w \in Writers THEN IdleThread ELSE [thread[w] EXCEPT !.pc = "done"]

Sent(w) ==
  /\ thread[w].pc = "sending"
  /\ thread[w].to = {}
  /\ thread' = [thread EXCEPT ![w] =
                  IF Uncommitted(w) THEN [@ EXCEPT !.pc = "commit"] ELSE Finished(w)]
  /\ UNCHANGED <<db, writes, subs, queue, live, fg, list, loaded, raced,
                 undone, entered>>

(* The transaction ends: a commit, or a rollback of the request. *)
EndTransaction(w) ==
  /\ thread[w].pc = "commit"
  /\ \/ /\ Committed(thread[w].pk, thread[w].row)
        /\ UNCHANGED <<raced, undone>>
     \/ /\ Transactions /\ w \in Writers
        /\ IF thread[w].kind = "deleted"
           THEN raced' = raced \cup subs /\ undone' = undone \cup {thread[w].pk}
           ELSE UNCHANGED <<raced, undone>>
        /\ UNCHANGED <<db, entered>>
  /\ thread' = [thread EXCEPT ![w] = Finished(w)]
  /\ UNCHANGED <<writes, subs, queue, live, fg, list, loaded>>

(* Another request begins or goes on writing. *)
OtherWrites(w) ==
  /\ \/ \E p \in Pks : Insert(w, p) \/ Get(w, p, "updated") \/ Get(w, p, "deleted")
     \/ Save(w)
     \/ Erase(w)
  /\ UNCHANGED <<subs, queue, live, fg, list, loaded, raced, undone>>

-----------------------------------------------------------------------------
(* The background task. *)

(* live_subscribe registers the model's signals and subscribes. *)
LiveSubscribe(t) ==
  /\ live[t].pc = "off"
  /\ SubscribeFirst \/ t \in loaded
  /\ subs' = subs \cup {t}
  /\ queue' = [queue EXCEPT ![t] = <<>>]
  /\ live' = [live EXCEPT ![t].pc = "wait"]
  /\ UNCHANGED <<db, writes, thread, fg, list, loaded, raced, undone, entered>>

(* await queue.get() *)
TakeChange_InPairs(t) ==
  /\ live[t].pc = "wait"
  /\ Len(queue[t]) >= 2
  /\ live' = [live EXCEPT ![t] = [pc |-> "got", change |-> Head(queue[t])]]
  /\ queue' = [queue EXCEPT ![t] = Tail(@)]
  /\ UNCHANGED <<db, writes, thread, subs, fg, list, loaded, raced, undone,
                 entered>>
TakeChange(t) ==
  /\ live[t].pc = "wait"
  /\ queue[t] # <<>>
  /\ live' = [live EXCEPT ![t] = [pc |-> "got", change |-> Head(queue[t])]]
  /\ queue' = [queue EXCEPT ![t] = Tail(@)]
  /\ UNCHANGED <<db, writes, thread, subs, fg, list, loaded, raced, undone,
                 entered>>

(* apply_live_change under the state lock. *)
Applied_Unread(t, change) ==
  IF change.kind # "created" THEN Removed(list[t], change.pk)
  ELSE Patched(list[t], [id |-> change.pk, ver |-> db[change.pk].ver], TRUE)
Applied(t, change) ==
  IF change.kind = "deleted" \/ ~Shown(change.pk)
  THEN Removed(list[t], change.pk)
  ELSE Patched(list[t], [id |-> change.pk, ver |-> db[change.pk].ver],
               change.kind = "created")

ApplyChange(t) ==
  /\ live[t].pc = "got"
  /\ fg[t].pc = "idle"
  /\ list' = [list EXCEPT ![t] = Applied(t, live[t].change)]
  /\ live' = [live EXCEPT ![t] = [pc |-> "wait", change |-> NoChange]]
  /\ LET untimely == IF live[t].change.kind = "deleted"
                     THEN live[t].change.pk \in undone ELSE ReadTooEarly
     IN raced' = IF untimely THEN raced \cup {t} ELSE raced
  /\ UNCHANGED <<db, writes, thread, subs, queue, fg, loaded, undone, entered>>

(* The client disconnects: the task is cancelled and unsubscribes; what is *)
(* still sent goes to a queue nobody reads.  The list stays in the state;  *)
(* a foreground event under way goes on.                                   *)
Leave(t) ==
  /\ t \in subs \cup loaded
  /\ subs' = subs \ {t}
  /\ queue' = [queue EXCEPT ![t] = <<>>]
  /\ live' = [live EXCEPT ![t] = [pc |-> "off", change |-> NoChange]]
  /\ loaded' = loaded \ {t}
  /\ fg' = [fg EXCEPT ![t].fresh = FALSE]
  /\ thread' = [w \in Threads |-> [thread[w] EXCEPT !.to = @ \ {t}]]
  /\ UNCHANGED <<db, writes, list, raced, undone, entered>>

-----------------------------------------------------------------------------
(* Foreground events. *)

StartLoad(t) ==
  /\ fg[t].pc = "idle"
  /\ SubscribeFirst => t \in subs
  /\ fg' = [fg EXCEPT ![t] = [IdleFg EXCEPT !.pc = "count", !.fresh = TRUE]]
  /\ UNCHANGED <<db, writes, thread, subs, queue, live, list, loaded, raced,
                 undone, entered>>

ListSet(t, rows) ==
  /\ list' = [list EXCEPT ![t] = rows]
  /\ loaded' = IF fg[t].fresh THEN loaded \cup {t} ELSE loaded
  /\ raced' = IF ReadTooEarly THEN raced \cup {t} ELSE raced \ {t}
  /\ entered' = [entered EXCEPT ![t] = {}]
  /\ fg' = [fg EXCEPT ![t] = IdleFg]

(* serialize_queryset counts the rows first: none, and the list is empty. *)
CountRows(t) ==
  /\ fg[t].pc = "count"
  /\ IF \E p \in Pks : Shown(p)
     THEN /\ fg' = [fg EXCEPT ![t].pc = "fetch"]
          /\ UNCHANGED <<list, loaded, raced, entered>>
     ELSE ListSet(t, <<>>)
  /\ UNCHANGED <<db, writes, thread, subs, queue, live, undone>>

FetchRows(t) ==
  /\ fg[t].pc = "fetch"
  /\ ListSet(t, SetToSeq(Table))
  /\ UNCHANGED <<db, writes, thread, subs, queue, live, undone>>

(* _handle_save and handle_delete of the tab's own state: create, or get   *)
(* and then save or delete.  A row that is not there ends the action.      *)
StartWrite(t, op, p) ==
  /\ fg[t].pc = "idle"
  /\ fg' = [fg EXCEPT ![t] = [pc |-> "writing", op |-> op, pk |-> p,
                              fresh |-> FALSE]]
  /\ CASE op = "create" -> Insert(t, p)
       [] op = "update" -> Get(t, p, "updated")
       [] op = "delete" -> Get(t, p, "deleted")
  /\ UNCHANGED <<subs, queue, live, list, loaded, raced, undone>>

OwnWrite(t) ==
  /\ fg[t].pc = "writing"
  /\ Save(t) \/ Erase(t)
  /\ fg' = [fg EXCEPT ![t].fresh = FALSE]
  /\ UNCHANGED <<subs, queue, live, list, loaded, raced, undone>>

(* apply_saved_row, remove_row: the list is patched with what was written; *)
(* when that is not possible it is loaded again.                           *)
PatchOwn(t) ==
  /\ fg[t].pc = "writing"
  /\ thread[t].pc = "done"
  /\ LET p   == fg[t].pk
         row == [id |-> p, ver |-> thread[t].row.ver]
     IN IF fg[t].op # "create" /\ p \notin Ids(list[t])
        THEN /\ fg' = [fg EXCEPT ![t].pc = "count"]
             /\ UNCHANGED list
        ELSE /\ list' = [list EXCEPT ![t] =
                           IF fg[t].op = "delete" THEN Removed(@, p)
                           ELSE Patched(@, row, fg[t].op = "create")]
             /\ fg' = [fg EXCEPT ![t] = IdleFg]
  /\ thread' = [thread EXCEPT ![t] = IdleThread]
  /\ UNCHANGED <<db, writes, subs, queue, live, loaded, raced, undone,
                 entered>>

-----------------------------------------------------------------------------
ThreadStep(w) ==
  \/ Publish(w)
  \/ \E t \in Tabs : Send(w, t)
  \/ Sent(w)
  \/ EndTransaction(w)

TabStep(t) ==
  \/ TakeChange(t) \/ ApplyChange(t)
  \/ CountRows(t) \/ FetchRows(t)
  \/ OwnWrite(t) \/ PatchOwn(t)

Next ==
  \/ \E w \in Writers : OtherWrites(w)
  \/ \E w \in Threads : ThreadStep(w)
  \/ \E t \in Tabs :
       \/ TabStep(t)
       \/ LiveSubscribe(t) \/ StartLoad(t) \/ Leave(t)
       \/ \E op \in {"create", "update", "delete"}, p \in Pks : StartWrite(t, op, p)

Spec == Init /\ [][Next]_vars

(* Code that was begun is finished; users and other requests owe nothing   *)
(* but the end of what they began.                                         *)
FairSpec ==
  /\ Spec
  /\ \A w \in Threads : WF_vars(ThreadStep(w))
  /\ \A t \in Tabs : WF_vars(TabStep(t))
  /\ \A w \in Writers : WF_vars((Save(w) \/ Erase(w)) /\ OtherWrites(w))

-----------------------------------------------------------------------------
(* Correctness. *)

(* Nothing that could still change t's list is under way. *)
Quiet(t) ==
  /\ \A w \in Threads : thread[w].pc = "idle"
  /\ t \in subs
  /\ queue[t] = <<>>
  /\ live[t].pc = "wait"
  /\ fg[t].pc = "idle"

(* What a list should show: rows of the table as they are, and all of them *)
(* but those that an update brought into the scope after the load:         *)
(* patch_list_row puts an updated row only where the row already is: an    *)
(* update "replaces the row if it is on the current page",                 *)
(* docs/advanced/live-updates.md:35.                                       *)
Follows(t) ==
  /\ Contents(list[t]) \subseteq Table
  /\ \A p \in Pks \ entered[t] : Shown(p) => p \in Ids(list[t])

(* A list that was loaded during the visit and has worked off its changes  *)
(* follows the table: no write is missed, whatever order its change        *)
(* arrived in relative to other writes, loads and the tab's own events.    *)
Synced(t) == t \in loaded /\ Quiet(t) => Follows(t)

(* So it is for a tab that never read a row between the publication and    *)
(* the commit of its change, nor heard of a deletion that was rolled back  *)
(* (apply_live_change reads the row again, live_subscribe precedes the     *)
(* load).                                                                  *)
InSync == \A t \in Tabs \ raced : Synced(t)

(* So it should be for every tab: live updates keep "a ModelState list var *)
(* in sync with Django model changes", docs/advanced/live-updates.md:3.    *)
AlwaysInSync == \A t \in Tabs : Synced(t)

(* No row is listed twice, although a tab's own create reaches its list    *)
(* once by the event and once more as a live change.                       *)
NoDuplicateRows ==
  \A t \in Tabs : \A i, j \in DOMAIN list[t] :
    list[t][i].id = list[t][j].id => i = j

(* A visit that lasts ends up following the table, but for changes it      *)
(* heard of too early: every change is delivered and applied at last.      *)
ListConverges ==
  \A t \in Tabs :
    <>[](t \in (subs \cap loaded) \ raced) => <>[]Follows(t)

=============================================================================
