---------------------------- MODULE TaskIslands ----------------------------
(***************************************************************************)
(* One browser tab on one list: the client islands of the list view (rows, *)
(* check boxes, reordering, quick add), the task panel over it (fields,    *)
(* completion, deletion) and the undo snackbar above both.                 *)
(*                                                                         *)
(* Every island sends its request, goes on, and handles the answer with    *)
(* what it captured; answers come in any order. What the server stores is  *)
(* seen through the answers and through router.refresh().                  *)
(***************************************************************************)
EXTENDS Integers, FiniteSets, SequencesExt

CONSTANTS
    Tasks,              \* task ids; Stocked are in the list at the start
    Stocked,
    Slots,              \* requests of the tab that may be in flight at once
    Fields,             \* the fields of TaskDetail that are edited
    Window,             \* UNDO_WINDOW_MS
    MaxActs,            \* bound: requests of the tab and writes of other devices
    MaxLost             \* bound: requests that fail, or whose answer is lost

ASSUME TasksAssumption ==
    0 \notin Tasks /\ Stocked \subseteq Tasks /\ Tasks \subseteq Nat /\ Slots \subseteq Nat /\ IsFiniteSet(Stocked)
ASSUME FieldsAssumption == Fields \subseteq {"title", "dueAt", "priority"}
ASSUME LimitsAssumption == Window \in Nat \ {0} /\ MaxActs \in Nat /\ MaxLost \in Nat

VARIABLES
    active, done, trash,    \* the stored list: active tasks in order, completed, soft-deleted
    row,                    \* the stored title and priority of each task
    trail,                  \* the tab's history, the current route last
    backs,                  \* router.back() calls the browser has not performed yet
    props,                  \* what the list view was last rendered with
    refresh,                \* router.refresh(): asked for, and what it has read
    board,                  \* ActiveTasks: optimistic order (<<>> for null) and error
    box,                    \* TaskCheckbox of each row and of the panel
    composer,               \* QuickAdd
    panel,                  \* TaskDetail and TaskDelete, of the task on the route
    snack,                  \* UndoHost
    flight,                 \* the tab's requests, or Free
    acts, lost,             \* counters for the bounds
    behind,                 \* ghost: a stored change no refresh was asked for
    contended               \* ghost: tasks completed or reopened other than by one box at a time

store == <<active, done, trash, row>>
client == <<props, refresh, board, box, composer, panel, snack>>
ghosts == <<behind, contended>>
vars == <<store, trail, backs, client, flight, acts, lost, ghosts>>

\* GET /lists/{id}/tasks
View == [active |-> active, done |-> done \ trash]

\* Routes: a task's panel has the task's id.
None == 0
List == 0
Elsewhere == -1
Sections == {"active", "done", "panel"}
PlainRow == [title |-> "a", dueAt |-> "unset", priority |-> "unset"]

\* A slot with no request; a request sets the fields it needs.
Free == [kind |-> "free", answer |-> "none", alive |-> TRUE, task |-> None,
         section |-> "panel", next |-> FALSE,       \* a tick
         vector |-> <<>>, previous |-> <<>>,        \* a reorder
         field |-> "none", value |-> "",            \* a save; the title of a create
         saved |-> PlainRow, completed |-> FALSE]   \* what a save is answered with

ClearBox == [mark |-> "none", pending |-> FALSE]
NoBoxes == [s \in Sections |-> [t \in Tasks |-> ClearBox]]
NoBoard == [order |-> <<>>, error |-> FALSE]
NoDraft == [title |-> "", submitting |-> FALSE, error |-> FALSE]
NoRefresh == [asked |-> FALSE, reading |-> FALSE, view |-> View, gone |-> None]

\* GET /tasks/{id}, into a fresh TaskDetail; not-found renders the failure view.
Closed == [task |-> None, shown |-> PlainRow, checked |-> FALSE, typed |-> "a", focused |-> FALSE,
           saving |-> "none", failed |-> {}, overlapped |-> FALSE,
           confirming |-> FALSE, submitting |-> FALSE, error |-> FALSE]

NoSnack == [task |-> None, pending |-> FALSE, error |-> FALSE, paused |-> FALSE,
            remaining |-> Window, elapsed |-> 0, shownFor |-> 0, arriving |-> FALSE]

\* The tab after a hard navigation to a list route: the list with its first props.
FreshTab ==
    /\ trail = <<Elsewhere, List>> /\ backs = 0
    /\ props = View
    /\ refresh = NoRefresh
    /\ board = NoBoard /\ box = NoBoxes /\ composer = NoDraft
    /\ panel = Closed
    /\ snack = NoSnack

Arrangements == {s \in [1..Cardinality(Stocked) -> Stocked] : IsInjective(s) /\ ToSet(s) = Stocked}

Init ==
    /\ active \in Arrangements /\ done = {} /\ trash = {}
    /\ row = [t \in Tasks |-> PlainRow]
    /\ FreshTab
    /\ flight = [i \in Slots |-> Free]
    /\ acts = 0 /\ lost = 0
    /\ behind = FALSE /\ contended = {}

-----------------------------------------------------------------------------
(* What is on the screen.                                                  *)

Route == Last(trail)
OnList == Route = List
InPanel == Route \in Tasks
Mounted == Route # Elsewhere /\ List \in ToSet(trail)

\* order ?? tasks
Rows == IF board.order = <<>> THEN props.active ELSE board.order

\* The rows ListView renders in a section, with a view and an order.
RowsOf(s, view, order) ==
    CASE s = "active" -> IF view.active = <<>> THEN {} ELSE ToSet(IF order = <<>> THEN view.active ELSE order)
      [] s = "done" -> view.done
      [] s = "panel" -> IF InPanel THEN {Route} ELSE {}

\* The box as it is drawn: optimistic ?? completed.
Checked(s, t) ==
    CASE box[s][t].mark = "done" -> TRUE
      [] box[s][t].mark = "open" -> FALSE
      [] OTHER -> IF s = "panel" THEN panel.checked ELSE s = "done"

\* The boxes of the rows that stay; a row that goes takes its box with it ...
BoxesIn(rows) == [s \in Sections |-> [t \in Tasks |-> IF t \in rows[s] THEN box[s][t] ELSE ClearBox]]
Unmounted(rows) == {i \in Slots : flight[i].kind = "toggle" /\ flight[i].task \notin rows[flight[i].section]}

\* ... and the requests whose island is unmounted set no state with their answer.
Orphan(fl, dead) == [i \in Slots |-> IF i \in dead THEN [fl[i] EXCEPT !.alive = FALSE] ELSE fl[i]]

Ask == refresh' = [refresh EXCEPT !.asked = TRUE]

-----------------------------------------------------------------------------
(* The requests and the server.                                            *)

Idle(i) == flight[i].kind = "free"

\* Bound: once all requests are out nothing new is typed, opened or asked for.
Active == acts < MaxActs

\* fetch(): the lowest free slot.
Send(q) ==
    /\ Active
    /\ acts' = acts + 1
    /\ \E i \in Slots :
        /\ Idle(i) /\ \A j \in Slots : Idle(j) => i <= j
        /\ flight' = [flight EXCEPT ![i] = q]
    /\ UNCHANGED <<store, trail, backs, lost, behind>>

Waiting(i, kind) == flight[i].kind = kind /\ flight[i].answer = "none"
Reply(i, a) == flight' = [flight EXCEPT ![i].answer = a]
ServerOnly == UNCHANGED <<trail, backs, client, acts, lost, ghosts>>

\* TasksService.reorder: exactly the active set, or 400.
ServeReorder(i) ==
    /\ Waiting(i, "reorder")
    /\ IF ToSet(flight[i].vector) = ToSet(active)
       THEN active' = flight[i].vector /\ Reply(i, "ok")
       ELSE Reply(i, "stale") /\ UNCHANGED active
    /\ UNCHANGED <<done, trash, row>>
    /\ ServerOnly

\* A task that becomes active comes in at the place its position gives it.
Rejoined(t) == {InsertAt(active, k, t) : k \in 1..(Len(active) + 1)}

Without(t) ==
    IF t \in ToSet(active) THEN RemoveAt(active, CHOOSE k \in DOMAIN active : active[k] = t) ELSE active

Completed(t, c) ==
    /\ done' = IF c THEN done \cup {t} ELSE done \ {t}
    /\ IF c THEN active' = Without(t)
       ELSE IF t \in ToSet(active) THEN UNCHANGED active ELSE active' \in Rejoined(t)

Present(t) == t \in (ToSet(active) \cup done) \ trash

\* complete / reopen; 404 for a task that is not there.
ServeToggle(i) ==
    /\ Waiting(i, "toggle")
    /\ IF Present(flight[i].task)
       THEN Completed(flight[i].task, flight[i].next) /\ Reply(i, "ok")
       ELSE Reply(i, "gone") /\ UNCHANGED <<active, done>>
    /\ UNCHANGED <<trash, row>>
    /\ ServerOnly

\* PATCH with one field; an empty title is refused; the reply carries the whole row.
ServeSave(i) ==
    LET t == flight[i].task IN
    /\ Waiting(i, "save")
    /\ IF flight[i].field = "title" /\ flight[i].value = ""
       THEN Reply(i, "invalid") /\ UNCHANGED row
       ELSE IF Present(t)
       THEN /\ row' = [row EXCEPT ![t] = [@ EXCEPT ![flight[i].field] = flight[i].value]]
            /\ flight' = [flight EXCEPT ![i].answer = "ok", ![i].saved = row'[t],
                                        ![i].completed = t \in done]
       ELSE Reply(i, "gone") /\ UNCHANGED row
    /\ UNCHANGED <<active, done, trash>>
    /\ ServerOnly

\* An empty title is refused; a new task goes to the end.
ServeCreate(i) ==
    /\ Waiting(i, "create")
    /\ IF flight[i].value = ""
       THEN Reply(i, "invalid") /\ UNCHANGED active
       ELSE \E t \in Tasks \ (ToSet(active) \cup done \cup trash) :
                active' = Append(active, t) /\ Reply(i, "ok")
    /\ UNCHANGED <<done, trash, row>>
    /\ ServerOnly

Trashed(t) == trash' = trash \cup {t} /\ active' = Without(t)

\* DELETE again answers 200 as well.
ServeDelete(i) ==
    /\ Waiting(i, "delete")
    /\ Trashed(flight[i].task) /\ Reply(i, "ok")
    /\ UNCHANGED <<done, row>>
    /\ ServerOnly

ServeRestore(i) ==
    LET t == flight[i].task IN
    /\ Waiting(i, "restore")
    /\ trash' = trash \ {t}
    /\ IF t \in trash \ done THEN active' \in Rejoined(t) ELSE UNCHANGED active
    /\ Reply(i, "ok")
    /\ UNCHANGED <<done, row>>
    /\ ServerOnly

\* The BFF or the API fails, or the request was served and its answer is lost.
Fault(i) ==
    /\ ~Idle(i) /\ flight[i].answer \in {"none", "ok"}
    /\ lost < MaxLost
    /\ lost' = lost + 1
    /\ Reply(i, "fail")
    /\ behind' = (behind \/ flight[i].answer = "ok")
    /\ UNCHANGED <<store, trail, backs, client, acts, contended>>

\* SessionGuard: the session has ended.
Refuse(i) ==
    /\ ~Idle(i) /\ flight[i].answer = "none"
    /\ lost < MaxLost
    /\ lost' = lost + 1
    /\ Reply(i, "unauthenticated")
    /\ UNCHANGED <<store, trail, backs, client, acts, ghosts>>

\* Another device completes, reopens, deletes or reorders.
OtherDevice(t) ==
    /\ Active /\ Present(t)
    /\ acts' = acts + 1
    /\ \/ \E c \in BOOLEAN : Completed(t, c) /\ UNCHANGED trash
       \/ Trashed(t) /\ UNCHANGED done
       \/ active' = Append(Without(t), t) /\ t \notin done /\ UNCHANGED <<done, trash>>
    /\ behind' = TRUE
    /\ contended' = contended \cup {t}
    /\ UNCHANGED <<row, trail, backs, client, flight, lost>>

-----------------------------------------------------------------------------
(* Answers: what every handler does first.                                 *)

Got(i, kind) == flight[i].kind = kind /\ flight[i].answer \notin {"none", "unauthenticated"}
Ok(i) == flight[i].answer = "ok"
Land(i) == flight' = [flight EXCEPT ![i] = Free]

\* An island's handler changes the island, and may ask for a refresh.
Local(island) == UNCHANGED <<store, trail, backs, acts, lost, ghosts, props>> /\ UNCHANGED island

\* 401: window.location.assign("/signin") ends the document and its requests (what
\* they still do to the store is another device's doing). Signing in starts a new one.
SignInAgain(i) ==
    /\ flight[i].answer = "unauthenticated"
    /\ flight' = [j \in Slots |-> Free]
    /\ trail' = <<Elsewhere, List>> /\ backs' = 0
    /\ props' = View
    /\ refresh' = NoRefresh
    /\ board' = NoBoard /\ box' = NoBoxes /\ composer' = NoDraft
    /\ panel' = Closed
    /\ snack' = NoSnack
    /\ behind' = FALSE /\ contended' = {}
    /\ UNCHANGED <<store, acts, lost>>

-----------------------------------------------------------------------------
(* ActiveTasks: keyboard moves and drags.                                  *)

\* Deviation (the dragged row is not taken out first): caught by TypeOK.
MovesTwice ==
    LET n == Len(Rows) IN
    {InsertAt(Rows, m, Rows[k]) : k \in 1..n, m \in 1..n} \ {Rows}

\* Fewer than two rows have no handles. Moves reachable by the buttons and by a
\* drop before the row at target; the drop that changes nothing is no move.
Moves ==
    LET n == Len(Rows)
        swapped(k) == [Rows EXCEPT ![k] = Rows[k + 1], ![k + 1] = Rows[k]]
        dropped(from, target) == InsertAt(RemoveAt(Rows, from),
                                          IF from < target THEN target - 1 ELSE target, Rows[from])
    IN  ({swapped(k) : k \in 1..(n - 1)} \cup {dropped(k, m) : k \in 1..n, m \in 1..n}) \ {Rows}

Persist ==
    /\ Active /\ OnList /\ props.active # <<>>
    /\ \E next \in Moves :
        /\ board' = [order |-> next, error |-> FALSE]
        /\ Send([Free EXCEPT !.kind = "reorder", !.vector = next, !.previous = Rows])
    /\ UNCHANGED <<contended, props, refresh, box, composer, panel, snack>>

\* Deviation (a refused order stays on the screen): caught by ShownIsStored.
KeepOrder(i) == board

\* Back to the rows this write was made from; those that came since are unmounted, and
\* one that has gone to the other section by then is shown in both.
Rollback(i) == [order |-> flight[i].previous, error |-> TRUE]

Reordered(i) ==
    LET next == IF Ok(i) \/ ~flight[i].alive THEN board ELSE Rollback(i)
        rows == [s \in Sections |-> RowsOf(s, props, next.order)]
    IN
    /\ Got(i, "reorder")
    /\ board' = next
    /\ box' = BoxesIn(rows)
    /\ flight' = Orphan([flight EXCEPT ![i] = Free], Unmounted(rows))
    /\ IF flight[i].answer \in {"ok", "stale"} THEN Ask ELSE UNCHANGED refresh
    /\ Local(<<composer, panel, snack>>)

-----------------------------------------------------------------------------
(* TaskCheckbox, in a row of either section and in the panel.              *)

HasBox(s, t) ==
    IF s = "panel" THEN InPanel /\ panel.task = t ELSE OnList /\ t \in RowsOf(s, props, board.order)

\* Ticked in the panel, in another row of the same task, or by a box that was unmounted
\* before its answer.
TickedElsewhere(s, t) ==
    \/ s = "panel"
    \/ \E o \in Sections \ {s} : box[o][t].mark # "none"
    \/ \E i \in Slots : flight[i].kind = "toggle" /\ flight[i].task = t

Toggle(s, t) ==
    /\ Active /\ HasBox(s, t) /\ ~box[s][t].pending
    /\ box' = [box EXCEPT ![s][t] = [mark |-> IF Checked(s, t) THEN "open" ELSE "done",
                                     pending |-> TRUE]]
    /\ Send([Free EXCEPT !.kind = "toggle", !.task = t, !.section = s, !.next = ~Checked(s, t)])
    /\ contended' = IF TickedElsewhere(s, t) THEN contended \cup {t} ELSE contended
    /\ UNCHANGED <<props, refresh, board, composer, panel, snack>>

\* Deviation (no finally): caught by NothingLeftWaiting.
BoxLeftPending(b, ok) == [mark |-> IF ok THEN b.mark ELSE "none", pending |-> ~ok]

\* The optimistic value stays after a success and goes after a failure.
BoxAfter(b, ok) == [mark |-> IF ok THEN b.mark ELSE "none", pending |-> FALSE]

Toggled(i) ==
    /\ Got(i, "toggle")
    /\ Land(i)
    /\ box' = IF flight[i].alive
              THEN [box EXCEPT ![flight[i].section][flight[i].task] = BoxAfter(@, Ok(i))]
              ELSE box
    /\ IF Ok(i) THEN Ask ELSE UNCHANGED refresh
    /\ Local(<<board, composer, panel, snack>>)

-----------------------------------------------------------------------------
(* QuickAdd. The text stays editable while a create is in flight.          *)

TypeDraft ==
    /\ Active /\ OnList
    /\ \E text \in {"", "b"} : composer' = [composer EXCEPT !.title = text]
    /\ composer' # composer
    /\ UNCHANGED <<store, trail, backs, flight, acts, lost, ghosts, props, refresh, board, box, panel, snack>>

Submit ==
    /\ OnList /\ ~composer.submitting
    /\ composer' = [composer EXCEPT !.submitting = TRUE, !.error = FALSE]
    /\ Send([Free EXCEPT !.kind = "create", !.value = composer.title])
    /\ UNCHANGED <<contended, props, refresh, board, box, panel, snack>>

Created(i) ==
    /\ Got(i, "create")
    /\ Land(i)
    /\ composer' = IF ~flight[i].alive THEN composer
                   ELSE [title |-> IF Ok(i) THEN "" ELSE composer.title,
                         submitting |-> FALSE, error |-> ~Ok(i)]
    /\ IF Ok(i) THEN Ask ELSE UNCHANGED refresh
    /\ Local(<<board, box, panel, snack>>)

-----------------------------------------------------------------------------
(* Navigation: the panel is a route over the list, left by popping history. *)

\* UndoHost sees the pathname change: the first one after a deletion asks for a refresh.
Arrive ==
    /\ IF snack.arriving THEN Ask ELSE UNCHANGED refresh
    /\ snack' = [snack EXCEPT !.arriving = FALSE]

OpenPanel(t) ==
    /\ Active /\ OnList /\ \E s \in Sections : HasBox(s, t)
    /\ trail' = Append(trail, t)
    /\ panel' = IF ~Present(t) THEN Closed
                ELSE [Closed EXCEPT !.task = t, !.shown = row[t], !.typed = row[t].title,
                                    !.checked = t \in done,
                                    !.overlapped = \E i \in Slots : flight[i].kind = "save"]
    /\ Arrive
    /\ UNCHANGED <<store, backs, flight, acts, lost, ghosts, props, board, box, composer>>

\* A history entry is popped: from the panel to the list, from the list out of it.
Popped ==
    /\ trail' = IF Len(trail) > 1 THEN Front(trail) ELSE trail
    /\ panel' = Closed
    /\ flight' = Orphan(flight, {i \in Slots :
                      \/ flight[i].kind \in {"save", "delete"}
                      \/ flight[i].kind = "toggle" /\ flight[i].section = "panel"
                      \/ OnList /\ flight[i].kind \in {"reorder", "toggle", "create"}})
    /\ IF OnList
       THEN board' = NoBoard /\ box' = NoBoxes /\ composer' = NoDraft
       ELSE /\ box' = [box EXCEPT !["panel"] = [t \in Tasks |-> ClearBox]]
            /\ UNCHANGED <<board, composer>>
    /\ UNCHANGED <<store, acts, lost, ghosts, props>>

\* The close button, the scrim and Esc; the confirmation dialog keeps Esc to itself
\* while it has the focus, which it loses when its buttons are disabled. From the
\* list, any link or the browser's back button.
Back ==
    /\ Mounted /\ (panel.confirming => panel.submitting)
    /\ Popped
    /\ Arrive
    /\ UNCHANGED backs

\* The router.back() of a deletion: whatever the tab is on by then is popped. Out of the
\* list the entries below are elsewhere too.
GoBack ==
    /\ backs > 0 /\ backs' = backs - 1
    /\ Popped
    /\ IF Route # Elsewhere THEN Arrive ELSE UNCHANGED <<refresh, snack>>

\* A link to the list fetches it anew.
Return ==
    /\ Route = Elsewhere
    /\ trail' = Append(trail, List)
    /\ props' = View
    /\ behind' = FALSE
    /\ refresh' = [NoRefresh EXCEPT !.asked = snack.arriving]
    /\ snack' = [snack EXCEPT !.arriving = FALSE]
    /\ UNCHANGED <<store, backs, flight, acts, lost, contended, board, box, composer, panel>>

\* The refresh that was asked for reads the views ...
RefreshRead ==
    /\ refresh.asked /\ ~refresh.reading /\ Mounted
    /\ refresh' = [asked |-> FALSE, reading |-> TRUE, view |-> View,
                   gone |-> IF InPanel /\ ~Present(Route) THEN Route ELSE None]
    /\ behind' = FALSE
    /\ UNCHANGED <<store, trail, backs, flight, acts, lost, contended, props, board, box, composer, panel, snack>>

\* Deviation (the optimistic order is kept over new rows): caught by ShownIsStored.
KeepsOrder(view) == board

\* New rows drop the optimistic order; an error stays while ActiveTasks is mounted.
BoardAfter(view) == [order |-> <<>>, error |-> view.active # <<>> /\ board.error]

\* ... and later renders them: rows that left their section are unmounted, the
\* panel keeps what it has unless its task is gone.
RefreshApply ==
    LET next == BoardAfter(refresh.view)
        gone == InPanel /\ refresh.gone = Route
        rows == [s \in Sections |-> IF s = "panel" /\ gone THEN {} ELSE RowsOf(s, refresh.view, next.order)]
    IN
    /\ refresh.reading /\ Mounted
    /\ refresh' = [refresh EXCEPT !.reading = FALSE, !.gone = None]
    /\ props' = refresh.view
    /\ board' = next
    /\ box' = BoxesIn(rows)
    /\ panel' = IF gone THEN Closed ELSE panel
    /\ flight' = Orphan(flight, Unmounted(rows) \cup {i \in Slots :
                      \/ flight[i].kind = "reorder" /\ refresh.view.active = <<>>
                      \/ flight[i].kind \in {"save", "delete"} /\ gone})
    /\ UNCHANGED <<store, trail, backs, acts, lost, ghosts, composer, snack>>

\* SyncProvider asks after a change signal, a focus or a reconnection.
AskRefresh ==
    /\ (Active \/ behind) /\ ~refresh.asked /\ Mounted
    /\ Ask
    /\ UNCHANGED <<store, trail, backs, flight, acts, lost, ghosts, props, board, box, composer, panel, snack>>

-----------------------------------------------------------------------------
(* TaskDetail: one PATCH per field, one `saving` flag for all.             *)

OnPanel == InPanel /\ panel.task # None

\* Clicks and typing reach the panel unless the confirmation dialog covers it.
Reachable == OnPanel /\ ~panel.confirming

Save(field, value) ==
    /\ panel' = [panel EXCEPT !.saving = field, !.failed = @ \ {field}, !.focused = FALSE,
                              !.overlapped = @ \/ panel.saving # "none"]
    /\ Send([Free EXCEPT !.kind = "save", !.task = panel.task, !.field = field, !.value = value])
    /\ UNCHANGED <<contended, props, refresh, board, box, composer, snack>>

TypeTitle ==
    /\ Active /\ Reachable /\ "title" \in Fields /\ panel.saving # "title"
    /\ \E text \in {"a", "b", ""} \ {panel.typed} :
            panel' = [panel EXCEPT !.typed = text, !.focused = TRUE]
    /\ UNCHANGED <<store, trail, backs, flight, acts, lost, ghosts, props, refresh, board, box, composer, snack>>

\* Leaving the field is the submit, when there is something to save.
Blur ==
    /\ OnPanel /\ panel.focused
    /\ IF panel.typed # panel.shown.title THEN Save("title", panel.typed)
       ELSE /\ panel' = [panel EXCEPT !.focused = FALSE]
            /\ UNCHANGED <<store, trail, backs, flight, acts, lost, ghosts,
                           props, refresh, board, box, composer, snack>>

\* The due date is set or cleared, a priority picked: saved at once.
Pick(field) ==
    /\ Reachable /\ ~panel.focused /\ field # "title" /\ panel.saving # field
    /\ \E v \in {"set", "unset"} \ {panel.shown[field]} : Save(field, v)

\* Deviation (the saved row is not shown): caught by ShownIsStored.
ShowsNothing(p, i) == p

\* The answer's row replaces every field, the title being typed included.
ShowsSaved(p, i) ==
    [p EXCEPT !.shown = flight[i].saved, !.typed = flight[i].saved.title,
              !.checked = flight[i].completed]

Saved(i) ==
    /\ Got(i, "save")
    /\ Land(i)
    /\ panel' = IF ~flight[i].alive THEN panel
                ELSE [IF Ok(i) THEN ShowsSaved(panel, i)
                               ELSE [panel EXCEPT !.failed = @ \cup {flight[i].field}]
                      EXCEPT !.saving = "none"]
    /\ IF Ok(i) THEN Ask ELSE UNCHANGED refresh
    /\ Local(<<board, box, composer, snack>>)

-----------------------------------------------------------------------------
(* TaskDelete and UndoHost.                                                *)

\* The confirmation opens, and closes without deleting; a request goes on.
Confirming(open) ==
    /\ OnPanel /\ ~panel.focused /\ panel.confirming # open /\ (open => Active)
    /\ panel' = [panel EXCEPT !.confirming = open, !.error = @ /\ open]
    /\ UNCHANGED <<store, trail, backs, flight, acts, lost, ghosts, props, refresh, board, box, composer, snack>>

ConfirmDelete ==
    /\ OnPanel /\ panel.confirming /\ ~panel.submitting
    /\ panel' = [panel EXCEPT !.submitting = TRUE, !.error = FALSE]
    /\ Send([Free EXCEPT !.kind = "delete", !.task = panel.task])
    /\ UNCHANGED <<contended, props, refresh, board, box, composer, snack>>

\* deleted(): the effect cleanup of a running countdown comes after the reset and
\* takes the elapsed time off the new window.
Announce(t) ==
    [NoSnack EXCEPT !.task = t, !.arriving = TRUE,
                    !.remaining = IF snack.task # None /\ ~snack.paused
                                  THEN Window - snack.elapsed ELSE Window]

\* Success announces and asks the browser to go back, wherever the tab is by then; the
\* dialog says Deleting until it does.
Deleted(i) ==
    /\ Got(i, "delete")
    /\ Land(i)
    /\ IF Ok(i)
       THEN /\ snack' = Announce(flight[i].task)
            /\ backs' = backs + 1
            /\ UNCHANGED panel
       ELSE /\ panel' = IF flight[i].alive THEN [panel EXCEPT !.submitting = FALSE, !.error = TRUE]
                        ELSE panel
            /\ UNCHANGED <<snack, backs>>
    /\ UNCHANGED <<store, trail, acts, lost, ghosts, props, refresh, board, box, composer>>

Running == snack.task # None /\ ~snack.paused

SnackOnly ==
    UNCHANGED <<store, trail, backs, flight, acts, lost, ghosts, props, refresh, board, box, composer, panel>>

\* Deviation (pausing restarts the window): caught by WindowNotRestarted.
FullAgain == [snack EXCEPT !.paused = TRUE, !.remaining = Window, !.elapsed = 0]

\* The effect's cleanup keeps what is left.
StoppedClock == [snack EXCEPT !.paused = TRUE, !.remaining = @ - snack.elapsed, !.elapsed = 0]

\* Pointer or focus on the snackbar stops the clock; leaving it restarts the clock,
\* unless an undo has failed.
Hover == Running /\ snack' = StoppedClock /\ SnackOnly
Leave ==
    /\ snack.task # None /\ snack.paused /\ ~snack.error
    /\ snack' = [snack EXCEPT !.paused = FALSE]
    /\ SnackOnly

Tick ==
    /\ Running /\ snack.elapsed < snack.remaining
    /\ snack' = [snack EXCEPT !.elapsed = @ + 1, !.shownFor = @ + 1]
    /\ SnackOnly

TimerDue == Running /\ snack.elapsed >= snack.remaining
Expire == TimerDue /\ snack' = [NoSnack EXCEPT !.arriving = snack.arriving] /\ SnackOnly

\* Clearing the error does not restart a stopped clock.
Undo ==
    /\ snack.task # None /\ ~snack.pending
    /\ snack' = [snack EXCEPT !.pending = TRUE, !.error = FALSE]
    /\ Send([Free EXCEPT !.kind = "restore", !.task = snack.task])
    /\ UNCHANGED <<contended, props, refresh, board, box, composer, panel>>

\* Success takes away whichever snackbar is shown by now; failure keeps it.
Undone(i) ==
    /\ Got(i, "restore")
    /\ Land(i)
    /\ snack' = IF Ok(i) THEN [NoSnack EXCEPT !.arriving = snack.arriving]
                ELSE IF snack.task = None THEN snack
                ELSE [IF Running THEN StoppedClock ELSE snack EXCEPT !.pending = FALSE, !.error = TRUE]
    /\ IF Ok(i) THEN Ask ELSE UNCHANGED refresh
    /\ Local(<<board, box, composer, panel>>)

-----------------------------------------------------------------------------
Serve(i) ==
    \/ ServeReorder(i) \/ ServeToggle(i) \/ ServeSave(i) \/ ServeCreate(i)
    \/ ServeDelete(i) \/ ServeRestore(i)

Answer(i) ==
    \/ Reordered(i) \/ Toggled(i) \/ Saved(i) \/ Created(i) \/ Deleted(i) \/ Undone(i)
    \/ SignInAgain(i)

Next ==
    \/ \E i \in Slots : Serve(i)
    \/ \E i \in Slots : Fault(i)
    \/ \E i \in Slots : Refuse(i)
    \/ \E i \in Slots : Answer(i)
    \/ \E t \in Tasks : OtherDevice(t)
    \/ Persist
    \/ \E s \in Sections, t \in Tasks : Toggle(s, t)
    \/ TypeDraft
    \/ Submit
    \/ \E t \in Tasks : OpenPanel(t)
    \/ Back
    \/ GoBack
    \/ Return
    \/ RefreshRead
    \/ RefreshApply
    \/ AskRefresh
    \/ TypeTitle
    \/ Blur
    \/ \E f \in Fields : Pick(f)
    \/ \E open \in BOOLEAN : Confirming(open)
    \/ ConfirmDelete
    \/ Hover
    \/ Leave
    \/ Tick
    \/ Expire
    \/ Undo

Spec == Init /\ [][Next]_vars

-----------------------------------------------------------------------------
(* Properties.                                                             *)

Views == [active : Seq(Tasks), done : SUBSET Tasks]
Trails == {<<Elsewhere>>, <<Elsewhere, List>>} \cup {<<Elsewhere, List, t>> : t \in Tasks}
Values == {"", "a", "b", "set", "unset"}
RowType == [title : Values, dueAt : Values, priority : Values]
Kinds == {"free", "reorder", "toggle", "save", "create", "delete", "restore"}
Answers == {"none", "ok", "invalid", "gone", "stale", "fail", "unauthenticated"}
Request == [kind : Kinds, answer : Answers, alive : BOOLEAN, task : Tasks \cup {None},
            section : Sections, next : BOOLEAN, vector : Seq(Tasks), previous : Seq(Tasks),
            field : Fields \cup {"none"}, value : Values, saved : RowType, completed : BOOLEAN]

TypeOK ==
    /\ active \in Seq(Tasks) /\ IsInjective(active)
    /\ done \subseteq Tasks /\ trash \subseteq Tasks
    /\ done \cap ToSet(active) = {} /\ trash \cap ToSet(active) = {}
    /\ row \in [Tasks -> RowType]
    /\ trail \in Trails /\ backs \in Nat
    /\ props \in Views /\ refresh.view \in Views
    /\ refresh.asked \in BOOLEAN /\ refresh.reading \in BOOLEAN /\ refresh.gone \in Tasks \cup {None}
    /\ board \in [order : Seq(Tasks), error : BOOLEAN]
    /\ box \in [Sections -> [Tasks -> [mark : {"none", "open", "done"}, pending : BOOLEAN]]]
    /\ composer \in [title : {"", "b"}, submitting : BOOLEAN, error : BOOLEAN]
    /\ panel \in [task : Tasks \cup {None}, shown : RowType, checked : BOOLEAN, typed : Values,
                  focused : BOOLEAN, saving : Fields \cup {"none"}, failed : SUBSET Fields,
                  overlapped : BOOLEAN, confirming : BOOLEAN, submitting : BOOLEAN, error : BOOLEAN]
    /\ snack \in [task : Tasks \cup {None}, pending : BOOLEAN, error : BOOLEAN, paused : BOOLEAN,
                  remaining : 0..Window, elapsed : 0..Window, shownFor : 0..(2 * Window),
                  arriving : BOOLEAN]
    /\ flight \in [Slots -> Request]
    /\ acts \in 0..MaxActs /\ lost \in 0..MaxLost
    /\ behind \in BOOLEAN /\ contended \subseteq Tasks

\* Everything was answered, the tab is where it was sent, and every refresh that was asked
\* for has rendered.
Quiet ==
    (\A i \in Slots : Idle(i)) /\ backs = 0 /\ ~refresh.asked /\ ~refresh.reading /\ ~behind /\ Mounted

\* When the tab is quiet, what it shows is what is stored: the order and the sections of
\* the list, the boxes, and the fields of the panel. Refreshes, going back and answers out
\* of order come to that however they interleave. Outside it are an order or a field with
\* an error on the screen, the boxes of contended tasks (ticked in two places, or by another
\* device), and the fields of a panel in which two saves have overlapped.
ShownIsStored ==
    Quiet =>
        /\ ~board.error => Rows = active
        /\ props.done = done \ trash
        /\ \A s \in {"active", "done"} : \A t \in RowsOf(s, props, <<>>) \ contended :
               Checked(s, t) = (t \in done)
        /\ OnPanel /\ ~panel.overlapped /\ panel.failed = {} => panel.shown = row[panel.task]

\* With no request out and nothing to go back from, no control is left disabled: not by a
\* failure, by an answer that came after its island had gone, nor by an island mounted
\* again in between.
NothingLeftWaiting ==
    (\A i \in Slots : Idle(i)) /\ backs = 0 =>
        /\ \A s \in Sections, t \in Tasks : ~box[s][t].pending
        /\ ~composer.submitting /\ panel.saving = "none" /\ ~panel.submitting /\ ~snack.pending

\* The countdown is kept as time left: pausing and resuming never shows a snackbar
\* for longer than the window (undo-snackbar.tsx, "does not restart the window").
WindowNotRestarted == snack.shownFor <= Window
=============================================================================
