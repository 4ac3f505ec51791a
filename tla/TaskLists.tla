----------------------------- MODULE TaskLists -----------------------------
(***************************************************************************)
(* One account's lists and tasks: API handlers on READ COMMITTED           *)
(* transactions, the worker's purge, and the export's snapshot.            *)
(*                                                                         *)
(* A task is named by its created_at rank. deletedFor[t] is                *)
(* now() - deleted_at in days, saturating once the row has expired.        *)
(* A reorder's vector of ids, which has no repeats, is the function from   *)
(* each id to its place. Reorder's writes appear at its commit.            *)
(***************************************************************************)
EXTENDS Integers, FiniteSets, Functions

CONSTANTS
    Lists, Inbox,       \* list ids that may be inserted; the default list
    Tasks,              \* task ids, in the order of their created_at
    Handlers,           \* API requests in flight that take several statements
    NoList, NoTask, Null,
    Retention,          \* TASK_RETENTION_DAYS
    PurgeLimit          \* PURGE_BATCH_SIZE

ASSUME ListsAssumption == Inbox \in Lists /\ NoList \notin Lists
ASSUME TasksAssumption ==
    /\ Tasks \subseteq Nat /\ IsFiniteSet(Tasks)
    /\ NoTask \notin Tasks /\ Null \notin Nat
ASSUME LimitsAssumption == Retention \in Nat /\ PurgeLimit \in Nat \ {0}

VARIABLES
    account,            \* the users row: "live" or "gone"
    list,               \* lists rows: "new", "live" or "gone"
    row,                \* tasks rows: "new", "inserting", "live" or "gone"
    home, position,     \* list_id, position
    completed,          \* completed_at IS NOT NULL
    deletedFor,         \* Null while deleted_at IS NULL
    step, onList,       \* where a handler stands, and the list it is about
    making, number,     \* the row being inserted; its position, or the count
    order,              \* the vector a reorder writes
    snapshot,           \* what an export's transaction sees
    known,              \* ghost: rows that were in the list when t's INSERT began
    lastOrder           \* ghost: the last reorder committed for a list

taskVars == <<row, home, position, completed, deletedFor>>
handlerVars == <<step, onList, making, number, order, snapshot>>
vars == <<account, list, taskVars, handlerVars, known, lastOrder>>

IsOrder(o) == DOMAIN o \subseteq Tasks /\ o \in [DOMAIN o -> Nat]
Steps == {"idle", "deleting", "counted", "creating", "inserting",
          "reordering", "written", "exporting"}
NoOrder == [t \in {} |-> 0]
NoSnapshot == [lists |-> {}, tasks |-> {}]

\* register has committed the user and the default list in one transaction.
Init ==
    /\ account = "live"
    /\ list = [l \in Lists |-> IF l = Inbox THEN "live" ELSE "new"]
    /\ row = [t \in Tasks |-> "new"]
    /\ home = [t \in Tasks |-> Inbox]
    /\ position = [t \in Tasks |-> 0]
    /\ completed = [t \in Tasks |-> FALSE]
    /\ deletedFor = [t \in Tasks |-> Null]
    /\ step = [h \in Handlers |-> "idle"]
    /\ onList = [h \in Handlers |-> NoList]
    /\ making = [h \in Handlers |-> NoTask]
    /\ number = [h \in Handlers |-> 0]
    /\ order = [h \in Handlers |-> NoOrder]
    /\ snapshot = [h \in Handlers |-> NoSnapshot]
    /\ known = [t \in Tasks |-> {}]
    /\ lastOrder = [l \in Lists |-> NoOrder]

-----------------------------------------------------------------------------
(* Rows, locks and the steps every handler has.                            *)

\* WHERE list_id = ...: completed and soft-deleted rows included.
RowsOf(l) == {t \in Tasks : row[t] = "live" /\ home[t] = l}

\* WHERE completed_at IS NULL AND deleted_at IS NULL
ActiveOf(l) == {t \in RowsOf(l) : ~completed[t] /\ deletedFor[t] = Null}

\* Rows a reorder has updated and not committed; other writers wait for them.
LockedBy(h) == IF step[h] = "written" THEN {t \in DOMAIN order[h] : row[t] = "live"} ELSE {}
Locked == UNION {LockedBy(h) : h \in Handlers}

\* DELETE: the rows and their columns are gone.
Remove(S) ==
    /\ row' = [t \in Tasks |-> IF t \in S THEN "gone" ELSE row[t]]
    /\ position' = [t \in Tasks |-> IF t \in S THEN 0 ELSE position[t]]
    /\ completed' = [t \in Tasks |-> t \notin S /\ completed[t]]
    /\ deletedFor' = [t \in Tasks |-> IF t \in S THEN Null ELSE deletedFor[t]]
    /\ UNCHANGED home

\* DbService.transaction ends in COMMIT or ROLLBACK; the request is over.
Finish(h) ==
    /\ step' = [step EXCEPT ![h] = "idle"]
    /\ onList' = [onList EXCEPT ![h] = NoList]
    /\ making' = [making EXCEPT ![h] = NoTask]
    /\ number' = [number EXCEPT ![h] = 0]
    /\ order' = [order EXCEPT ![h] = NoOrder]
    /\ snapshot' = [snapshot EXCEPT ![h] = NoSnapshot]

\* A check of the list passed; the handler goes on to its next statement.
Begin(h, l, next) ==
    /\ step[h] = "idle"
    /\ list[l] = "live"
    /\ step' = [step EXCEPT ![h] = next]
    /\ onList' = [onList EXCEPT ![h] = l]

\* A statement fails (bad input, lost connection, deadlock victim): ROLLBACK.
Fail(h) ==
    /\ step[h] # "idle"
    /\ row' = [t \in Tasks |-> IF t = making[h] THEN "gone" ELSE row[t]]
    /\ Finish(h)
    /\ UNCHANGED <<account, list, home, position, completed, deletedFor, known, lastOrder>>

-----------------------------------------------------------------------------
(* Lists.                                                                  *)

CreateList(l) ==
    /\ account = "live"
    /\ list[l] = "new"
    /\ list' = [list EXCEPT ![l] = "live"]
    /\ UNCHANGED <<account, taskVars, handlerVars, known, lastOrder>>

\* ListsService.delete: findOwned, and the default list is refused ...
DeleteCheck(h, l) ==
    /\ l # Inbox
    /\ Begin(h, l, "deleting")
    /\ UNCHANGED <<account, list, taskVars, making, number, order, snapshot, known, lastOrder>>

\* ... countTasks, with a snapshot of its own ...
DeleteCount(h) ==
    /\ step[h] = "deleting"
    /\ step' = [step EXCEPT ![h] = "counted"]
    /\ number' = [number EXCEPT ![h] = Cardinality(RowsOf(onList[h]))]
    /\ UNCHANGED <<account, list, taskVars, onList, making, order, snapshot, known, lastOrder>>

\* Deviation (only what the list view shows goes): caught by TasksHaveHomes.
CascadeVisible(l) == {t \in RowsOf(l) : deletedFor[t] = Null}

\* tasks.list_id REFERENCES lists(id) ON DELETE CASCADE
Cascade(l) == RowsOf(l)

\* ... deleteById and COMMIT. It waits for locked rows, and does not mind if
\* the list is gone by now.
DeleteList(h) ==
    /\ step[h] = "counted"
    /\ Cascade(onList[h]) \cap Locked = {}
    /\ list' = [list EXCEPT ![onList[h]] = "gone"]
    /\ Remove(Cascade(onList[h]))
    /\ Finish(h)
    /\ UNCHANGED <<account, known, lastOrder>>

\* DELETE FROM users cascades to lists and tasks.
DeleteAccount ==
    /\ account = "live"
    /\ Locked = {}
    /\ account' = "gone"
    /\ list' = [l \in Lists |-> "gone"]
    /\ Remove({t \in Tasks : row[t] = "live"})
    /\ UNCHANGED <<handlerVars, known, lastOrder>>

-----------------------------------------------------------------------------
(* TasksService.create.                                                    *)

CreateCheck(h, l) ==
    /\ Begin(h, l, "creating")
    /\ UNCHANGED <<account, list, taskVars, making, number, order, snapshot, known, lastOrder>>

\* The rows MAX(position) ranges over.
MaxOver(l) == RowsOf(l)

\* Deviation (no COALESCE, so the first task has no position): caught by TypeOK.
NextOrNull(S) ==
    IF S = {} THEN {Null}
    ELSE {n \in {position[t] + 1 : t \in S} : \A t \in S : position[t] < n}

\* Deviation (a new task goes on top): caught by CreatedLast.
NextOnTop(S) ==
    {n \in {0} \cup {position[t] - 1 : t \in S} : \A t \in S : n < position[t]}

\* COALESCE(MAX(position) + 1, 0): the set of that one number.
NextPosition(S) ==
    {n \in {0} \cup {position[t] + 1 : t \in S} : \A t \in S : position[t] < n}

\* INSERT ... SELECT begins: created_at and the snapshot MAX reads are fixed.
InsertStart(h, t) ==
    /\ step[h] = "creating"
    /\ row[t] = "new" /\ \A s \in Tasks : s < t => row[s] # "new"
    /\ step' = [step EXCEPT ![h] = "inserting"]
    /\ making' = [making EXCEPT ![h] = t]
    /\ \E n \in NextPosition(MaxOver(onList[h])) : number' = [number EXCEPT ![h] = n]
    /\ row' = [row EXCEPT ![t] = "inserting"]
    /\ home' = [home EXCEPT ![t] = onList[h]]
    /\ known' = [known EXCEPT ![t] = RowsOf(onList[h])]
    /\ UNCHANGED <<account, list, position, completed, deletedFor, onList, order, snapshot, lastOrder>>

\* Deviation (no foreign key): caught by TasksHaveHomes.
ParentIgnored(l) == TRUE

\* The foreign keys hold when the statement ends.
ParentExists(l) == list[l] = "live"

InsertCommit(h) ==
    /\ step[h] = "inserting"
    /\ ParentExists(onList[h])
    /\ row' = [row EXCEPT ![making[h]] = "live"]
    /\ position' = [position EXCEPT ![making[h]] = number[h]]
    /\ Finish(h)
    /\ UNCHANGED <<account, list, home, completed, deletedFor, known, lastOrder>>

-----------------------------------------------------------------------------
(* TasksService.reorder.                                                   *)

\* In its transaction: the list is there, and the submitted vector is exactly
\* its active set, in some order.
ReorderCheck(h, l) ==
    /\ Begin(h, l, "reordering")
    /\ \E o \in Injection(ActiveOf(l), 0..(Cardinality(ActiveOf(l)) - 1)) :
        order' = [order EXCEPT ![h] = o]
    /\ UNCHANGED <<account, list, taskVars, making, number, snapshot, known, lastOrder>>

\* setPositions: waits until no other reorder holds any of the rows.
SetPositions(h) ==
    /\ step[h] = "reordering"
    /\ DOMAIN order[h] \cap Locked = {}
    /\ step' = [step EXCEPT ![h] = "written"]
    /\ UNCHANGED <<account, list, taskVars, onList, making, number, order, snapshot, known, lastOrder>>

\* Deviation (rows completed or deleted since the check keep their old
\* position): caught by LastReorderStands.
StillActive(h) == DOMAIN order[h] \cap ActiveOf(onList[h])

\* WHERE t.id = ordered.id AND t.list_id = ...: whatever the row's status is now.
Renumbered(h) == DOMAIN order[h] \cap RowsOf(onList[h])

\* The closing readView finds the list, and the transaction commits.
CommitOrder(h) ==
    /\ step[h] = "written"
    /\ list[onList[h]] = "live"
    /\ position' = [t \in Tasks |-> IF t \in Renumbered(h) THEN order[h][t] ELSE position[t]]
    /\ lastOrder' = [lastOrder EXCEPT ![onList[h]] = order[h]]
    /\ known' = [t \in Tasks |-> IF home[t] = onList[h] THEN {} ELSE known[t]]
    /\ Finish(h)
    /\ UNCHANGED <<account, list, row, home, completed, deletedFor>>

-----------------------------------------------------------------------------
(* The operations of one UPDATE: complete, reopen, delete, restore.        *)

\* Only a row nobody holds can be updated now; the statement waits otherwise.
Writable(t) == row[t] = "live" /\ t \notin Locked

SetCompletion(t, c) ==
    /\ Writable(t)
    /\ deletedFor[t] = Null
    /\ completed' = [completed EXCEPT ![t] = c]
    /\ UNCHANGED <<account, list, row, home, position, deletedFor, handlerVars, known, lastOrder>>

\* COALESCE(deleted_at, now())
Stamped(old) == IF old = Null THEN 0 ELSE old

SoftDelete(t) ==
    /\ Writable(t)
    /\ deletedFor' = [deletedFor EXCEPT ![t] = Stamped(@)]
    /\ UNCHANGED <<account, list, row, home, position, completed, handlerVars, known, lastOrder>>

Restore(t) ==
    /\ Writable(t)
    /\ deletedFor' = [deletedFor EXCEPT ![t] = Null]
    /\ UNCHANGED <<account, list, row, home, position, completed, handlerVars, known, lastOrder>>

-----------------------------------------------------------------------------
(* The worker's purge and the clock.                                       *)

\* Deviation (<= for <): caught by PurgeOnlyExpired.
ExpiredOrDue == {t \in Tasks : row[t] = "live" /\ deletedFor[t] # Null /\ deletedFor[t] >= Retention}

\* Deviation (a completed task is not purged): caught by ExpiredPurged.
ExpiredActive ==
    {t \in Tasks : row[t] = "live" /\ ~completed[t] /\ deletedFor[t] # Null /\ deletedFor[t] > Retention}

\* deleted_at IS NOT NULL AND deleted_at < now() - make_interval(days => ...)
Expired == {t \in Tasks : row[t] = "live" /\ deletedFor[t] # Null /\ deletedFor[t] > Retention}

\* ORDER BY deleted_at LIMIT; rows past Retention are not told apart.
IsBatch(B, rows) ==
    /\ B \subseteq rows
    /\ \/ B = rows /\ Cardinality(B) <= PurgeLimit
       \/ Cardinality(B) = PurgeLimit

\* One batch of TaskPurgeService.purge: FOR UPDATE SKIP LOCKED.
Purge ==
    /\ Expired \ Locked # {}
    /\ \E B \in SUBSET (Expired \ Locked) :
        /\ IsBatch(B, Expired \ Locked)
        /\ Remove(B)
    /\ UNCHANGED <<account, list, handlerVars, known, lastOrder>>

Ticks(t) == row[t] = "live" /\ deletedFor[t] # Null /\ deletedFor[t] <= Retention

Tick ==
    /\ \E t \in Tasks : Ticks(t)
    /\ deletedFor' = [t \in Tasks |-> IF Ticks(t) THEN deletedFor[t] + 1 ELSE deletedFor[t]]
    /\ UNCHANGED <<account, list, row, home, position, completed, handlerVars, known, lastOrder>>

-----------------------------------------------------------------------------
(* AccountExportRepository.readAll.                                        *)

\* REPEATABLE READ: the first query, of the account, fixes what all three see.
ExportStart(h) ==
    /\ step[h] = "idle"
    /\ account = "live"
    /\ step' = [step EXCEPT ![h] = "exporting"]
    /\ snapshot' = [snapshot EXCEPT ![h] =
           [lists |-> {l \in Lists : list[l] = "live"},
            tasks |-> {t \in Tasks : row[t] = "live" /\ deletedFor[t] = Null}]]
    /\ UNCHANGED <<account, list, taskVars, onList, making, number, order, known, lastOrder>>

\* Deviation (READ COMMITTED): caught by ExportConsistent.
TasksReadNow(h) == {t \in Tasks : row[t] = "live" /\ deletedFor[t] = Null}

ListsRead(h) == snapshot[h].lists
TasksRead(h) == snapshot[h].tasks

\* AccountExportService.export puts each task under its list.
ExportEnd(h) ==
    /\ step[h] = "exporting"
    /\ \A t \in TasksRead(h) : home[t] \in ListsRead(h)
    /\ Finish(h)
    /\ UNCHANGED <<account, list, taskVars, known, lastOrder>>

-----------------------------------------------------------------------------

Next ==
    \/ \E l \in Lists : CreateList(l)
    \/ \E h \in Handlers, l \in Lists : DeleteCheck(h, l)
    \/ \E h \in Handlers : DeleteCount(h)
    \/ \E h \in Handlers : DeleteList(h)
    \/ DeleteAccount
    \/ \E h \in Handlers, l \in Lists : CreateCheck(h, l)
    \/ \E h \in Handlers, t \in Tasks : InsertStart(h, t)
    \/ \E h \in Handlers : InsertCommit(h)
    \/ \E h \in Handlers, l \in Lists : ReorderCheck(h, l)
    \/ \E h \in Handlers : SetPositions(h)
    \/ \E h \in Handlers : CommitOrder(h)
    \/ \E t \in Tasks, c \in BOOLEAN : SetCompletion(t, c)
    \/ \E t \in Tasks : SoftDelete(t)
    \/ \E t \in Tasks : Restore(t)
    \/ Purge
    \/ Tick
    \/ \E h \in Handlers : ExportStart(h)
    \/ \E h \in Handlers : ExportEnd(h)
    \/ \E h \in Handlers : Fail(h)

Spec == Init /\ [][Next]_vars

\* Cloud Scheduler keeps running the worker, time passes, and a statement or
\* transaction that can end does.
Fairness ==
    /\ WF_vars(Purge)
    /\ WF_vars(Tick)
    /\ \A h \in Handlers :
        /\ WF_vars(InsertCommit(h) \/ Fail(h))
        /\ WF_vars(CommitOrder(h) \/ Fail(h))

FairSpec == Spec /\ Fairness

-----------------------------------------------------------------------------
(* Properties.                                                             *)

TypeOK ==
    /\ account \in {"live", "gone"}
    /\ list \in [Lists -> {"new", "live", "gone"}]
    /\ row \in [Tasks -> {"new", "inserting", "live", "gone"}]
    /\ home \in [Tasks -> Lists]
    /\ position \in [Tasks -> Nat]
    /\ completed \in [Tasks -> BOOLEAN]
    /\ deletedFor \in [Tasks -> 0..(Retention + 1) \cup {Null}]
    /\ step \in [Handlers -> Steps]
    /\ onList \in [Handlers -> Lists \cup {NoList}]
    /\ \A h \in Handlers : step[h] \notin {"idle", "exporting"} => onList[h] \in Lists
    /\ making \in [Handlers -> Tasks \cup {NoTask}]
    /\ number \in [Handlers -> Nat]
    /\ DOMAIN order = Handlers /\ \A h \in Handlers : IsOrder(order[h])
    /\ snapshot \in [Handlers -> [lists : SUBSET Lists, tasks : SUBSET Tasks]]
    /\ known \in [Tasks -> SUBSET Tasks]
    /\ DOMAIN lastOrder = Lists /\ \A l \in Lists : IsOrder(lastOrder[l])

\* The list view's order: position, then created_at.
Before(s, t) == position[s] < position[t] \/ (position[s] = position[t] /\ s < t)

\* An account that exists has its default list, whatever the order of
\* deletions: FR-LIST-004 is kept by one check in a transaction.
DefaultListKept == account = "live" => list[Inbox] = "live"

\* A stored task's list exists: creations that checked the list before it was
\* deleted, and soft-deleted rows the list view hides, included.
TasksHaveHomes == \A t \in Tasks : row[t] = "live" => list[home[t]] = "live"

\* Of the rows the last reorder of a list arranged, those still stored stand in
\* that arrangement, also when they were completed or deleted while the
\* reorder was in flight and came back later.
LastReorderStands ==
    \A l \in Lists : \A s, t \in DOMAIN lastOrder[l] :
        /\ row[s] = "live" /\ row[t] = "live"
        /\ lastOrder[l][s] < lastOrder[l][t]
        => Before(s, t)

\* Until the next reorder, a new task stands behind every row that was in the
\* list when its INSERT began, one that is restored or reopened later included.
CreatedLast ==
    \A t \in Tasks : \A s \in known[t] :
        row[t] = "live" /\ row[s] = "live" => Before(s, t)

\* Every task an export reads belongs to a list the export read: its
\* ExportIntegrityError branch is never taken.
ExportConsistent ==
    \A h \in Handlers : step[h] = "exporting" =>
        \A t \in TasksRead(h) : home[t] \in ListsRead(h)

\* While a task stays deleted its retention clock only runs forward.
ClockNeverRestarts ==
    [][\A t \in Tasks :
        deletedFor[t] # Null /\ deletedFor'[t] # Null => deletedFor'[t] >= deletedFor[t]]_vars

\* A row whose list stays is removed only if it was committed, deleted, and has
\* been deleted for longer than the retention window.
PurgeOnlyExpired ==
    [][\A t \in Tasks :
        row[t] = "live" /\ row'[t] = "gone" /\ list'[home[t]] = "live"
            => deletedFor[t] # Null /\ deletedFor[t] > Retention]_vars

\* A soft-deleted task does not stay for ever: it is restored or removed.
ExpiredPurged ==
    \A t \in Tasks :
        row[t] = "live" /\ deletedFor[t] # Null ~> row[t] # "live" \/ deletedFor[t] = Null
=============================================================================
