------------------------------ MODULE Sidebar ------------------------------
(***************************************************************************)
(* One account's lists and the sidebar of one tab: the rows and their      *)
(* menus (ListsNav), the dialog that creates, renames and deletes          *)
(* (ListDialog), and the drawer around them (ShellFrame). The sidebar does *)
(* not wait: a dialog can be closed and another opened, a list moved and   *)
(* moved again, before an answer is in.                                    *)
(***************************************************************************)
EXTENDS Integers, FiniteSets, SequencesExt

CONSTANTS
    Lists, Inbox,       \* list ids; the default list
    Stocked,            \* the lists there are at the start
    Names,              \* valid names, and "" for one the server refuses
    Plain,              \* the name lists have at the start
    Narrow,             \* below the breakpoint the sidebar is a drawer
    Slots,              \* requests of the tab that may be in flight at once
    MaxActs,            \* bound: what the user and other devices do
    MaxLost             \* bound: requests that fail, or whose answer is lost

ASSUME ListsAssumption ==
    Inbox \in Stocked /\ Stocked \subseteq Lists /\ Lists \subseteq Nat \ {0} /\ IsFiniteSet(Stocked)
ASSUME NamesAssumption == Plain \in Names /\ Plain # ""
ASSUME LimitsAssumption == Narrow \in BOOLEAN /\ Slots \subseteq Nat /\ MaxActs \in Nat /\ MaxLost \in Nat

VARIABLES
    order, position,    \* the stored lists as they are read, and lists.position
    name,               \* their names
    props,              \* the lists ListsNav was rendered with, or its error
    refresh,            \* router.refresh(): asked for, and what it has read
    nav,                \* ListsNav and the drawer
    dialog,             \* ListDialog
    flight,             \* the tab's requests, or Free
    acts, lost,         \* counters for the bounds
    made, removed,      \* ghosts: the lists ever created, and deleted
    arranged,           \* ghost: the last move that was stored, and the lists its check read
    behind              \* ghost: a stored change no read has seen, and none was asked for

store == <<order, position, name, made, removed, arranged>>
client == <<props, refresh, nav, dialog>>
vars == <<store, client, flight, acts, lost, behind>>

None == 0
Free == [kind |-> "free", answer |-> "none"]
Quiet == [menu |-> None, toast |-> None, timers |-> 0, error |-> FALSE, drawer |-> FALSE]
NoDialog == [kind |-> "none", list |-> None, submitting |-> FALSE, field |-> FALSE, form |-> FALSE]

\* GET /lists, in position order, and fetchLists when it fails.
View == [ok |-> TRUE, order |-> order, name |-> name]
Failure == [ok |-> FALSE, order |-> <<>>, name |-> [l \in Lists |-> Plain]]
NoRefresh == [asked |-> FALSE, reading |-> FALSE, view |-> Failure]

PlaceIn(s, l) == CHOOSE k \in DOMAIN s : s[k] = l

\* The default list comes first, until it is moved.
Arrangements == {s \in [1..Cardinality(Stocked) -> Stocked] :
                    IsInjective(s) /\ ToSet(s) = Stocked /\ s[1] = Inbox}

Init ==
    /\ order \in Arrangements
    /\ position = [l \in Lists |-> IF l \in Stocked THEN PlaceIn(order, l) - 1 ELSE 0]
    /\ arranged = [vector |-> order, owned |-> Stocked]
    /\ name = [l \in Lists |-> Plain]
    /\ made = Stocked /\ removed = {}
    /\ props = View
    /\ refresh = NoRefresh
    /\ nav = Quiet /\ dialog = NoDialog
    /\ flight = [i \in Slots |-> Free]
    /\ acts = 0 /\ lost = 0
    /\ behind = FALSE

-----------------------------------------------------------------------------
(* The server.                                                             *)

Idle(i) == flight[i].kind = "free"
Waiting(i, kind) == flight[i].kind = kind /\ flight[i].answer = "none"
Reply(i, a) == flight' = [flight EXCEPT ![i].answer = a]
ServerOnly == UNCHANGED <<client, acts, lost, behind>>
Stored(l) == l \in ToSet(order)

\* Lists are named in the order of created_at.
Newest(l) == \A m \in made : m < l

\* A list is inserted behind the others, at MAX(position) + 1 or at 0.
Inserted(l, text) ==
    /\ order' = Append(order, l)
    /\ position' = [position EXCEPT ![l] = IF order = <<>> THEN 0 ELSE position[Last(order)] + 1]
    /\ name' = [name EXCEPT ![l] = text]
    /\ made' = made \cup {l}
    /\ UNCHANGED <<removed, arranged>>

Without(l) == RemoveAt(order, PlaceIn(order, l))

\* The row goes with its position; the others keep theirs.
Deleted(l) ==
    /\ order' = Without(l)
    /\ position' = [position EXCEPT ![l] = 0]
    /\ removed' = removed \cup {l}
    /\ UNCHANGED <<name, made, arranged>>

\* The UPDATE of a vector: the rows that are still there are numbered as in it, the others
\* keep their positions, no row comes or goes.
Renumbered(vector) ==
    [l \in Lists |-> IF l \in ToSet(vector) \cap ToSet(order) THEN PlaceIn(vector, l) - 1 ELSE position[l]]

\* ORDER BY position, created_at.
Before(pos, l, m) == pos[l] < pos[m] \/ (pos[l] = pos[m] /\ l < m)
Sorted(pos) ==
    {s \in [DOMAIN order -> ToSet(order)] :
        /\ IsInjective(s) /\ ToSet(s) = ToSet(order)
        /\ \A j, k \in DOMAIN s : j < k => Before(pos, s[j], s[k])}

Arrange(vector, owned) ==
    /\ position' = Renumbered(vector)
    /\ order' \in Sorted(Renumbered(vector))
    /\ arranged' = [vector |-> vector, owned |-> owned]
    /\ UNCHANGED <<name, made, removed>>

\* Deviation (blank names are stored): caught by TypeOK.
AnyName(text) == TRUE

\* normalizeName.
ValidName(text) == text # ""

\* ListsService.create.
ServeCreate(i) ==
    /\ Waiting(i, "create")
    /\ IF ~ValidName(flight[i].text)
       THEN Reply(i, "invalid") /\ UNCHANGED store
       ELSE \E l \in Lists \ made : Newest(l) /\ Inserted(l, flight[i].text) /\ Reply(i, "ok")
    /\ ServerOnly

\* ListsService.rename: the default list as well.
ServeRename(i) ==
    LET l == flight[i].list IN
    /\ Waiting(i, "rename")
    /\ IF ~ValidName(flight[i].text) THEN Reply(i, "invalid") /\ UNCHANGED name
       ELSE IF Stored(l) THEN Reply(i, "ok") /\ name' = [name EXCEPT ![l] = flight[i].text]
       ELSE Reply(i, "gone") /\ UNCHANGED name
    /\ UNCHANGED <<order, position, made, removed, arranged>>
    /\ ServerOnly

\* ListsService.delete: 409 for the default list.
ServeDelete(i) ==
    LET l == flight[i].list IN
    /\ Waiting(i, "delete")
    /\ IF ~Stored(l) THEN Reply(i, "gone") /\ UNCHANGED store
       ELSE IF l = Inbox THEN Reply(i, "fail") /\ UNCHANGED store
       ELSE Deleted(l) /\ Reply(i, "ok")
    /\ ServerOnly

\* Deviation (only foreign ids are refused): caught by LastMoveStands.
OwnLists(vector) == ToSet(vector) \subseteq made

\* The vector is the caller's set, each list once.
WholeSet(vector) == ToSet(vector) = ToSet(order) /\ Len(vector) = Len(order)

\* ListsService.reorder reads the caller's lists ...
CheckMove(i) ==
    /\ Waiting(i, "move") /\ flight[i].owned = {}
    /\ IF WholeSet(flight[i].vector)
       THEN flight' = [flight EXCEPT ![i].owned = ToSet(order)]
       ELSE Reply(i, "invalid")
    /\ UNCHANGED store
    /\ ServerOnly

\* ... and setPositions writes what has been checked, whatever has come or gone since.
SetPositions(i) ==
    /\ Waiting(i, "move") /\ flight[i].owned # {}
    /\ Arrange(flight[i].vector, flight[i].owned)
    /\ Reply(i, "ok")
    /\ ServerOnly

\* The BFF or the API fails, or the request was served and its answer is lost.
Fault(i) ==
    /\ ~Idle(i) /\ flight[i].answer \in {"none", "ok"}
    /\ lost < MaxLost
    /\ lost' = lost + 1
    /\ Reply(i, "fail")
    /\ behind' = (behind \/ flight[i].answer = "ok")
    /\ UNCHANGED <<store, client, acts>>

\* SessionGuard: the session has ended.
Refuse(i) ==
    /\ ~Idle(i) /\ flight[i].answer = "none" /\ flight[i].owned = {}
    /\ lost < MaxLost
    /\ lost' = lost + 1
    /\ Reply(i, "unauthenticated")
    /\ UNCHANGED <<store, client, acts, behind>>

Happens == acts < MaxActs /\ acts' = acts + 1

\* Another device creates, renames, deletes or moves to the front.
OtherDevice(l) ==
    /\ Happens
    /\ \/ l \notin made /\ Newest(l) /\ Inserted(l, Plain)
       \/ \E text \in Names \ {"", name[l]} :
            /\ Stored(l) /\ name' = [name EXCEPT ![l] = text]
            /\ UNCHANGED <<order, position, made, removed, arranged>>
       \/ Stored(l) /\ l # Inbox /\ Deleted(l)
       \/ Stored(l) /\ Arrange(<<l>> \o Without(l), ToSet(order))
    /\ behind' = TRUE
    /\ UNCHANGED <<client, flight, lost>>

-----------------------------------------------------------------------------
(* The document.                                                           *)

\* On a narrow screen the sidebar is behind the drawer; a dialog covers it anyway.
Reachable == (Narrow => nav.drawer) /\ dialog.kind = "none"

\* Bound: once all requests are out nothing new is opened.
Active == acts < MaxActs

ClientOnly == UNCHANGED <<store, acts, lost, behind>>
AskRefresh == refresh' = [refresh EXCEPT !.asked = TRUE]

\* The requests of a closed dialog, and those of a sidebar that is unmounted.
Orphaned == [i \in Slots |-> IF Idle(i) THEN Free ELSE [flight[i] EXCEPT !.alive = FALSE]]
Adrift == [i \in Slots |-> IF Idle(i) THEN Free ELSE [flight[i] EXCEPT !.alive = FALSE, !.mounted = FALSE]]

\* fetch(): the lowest free slot. A dialog's request keeps the list and the name it was made with.
Send(kind, l, text, vector) ==
    /\ Happens
    /\ \E i \in Slots :
        /\ Idle(i) /\ \A j \in Slots : Idle(j) => i <= j
        /\ flight' = [flight EXCEPT ![i] =
               [kind |-> kind, list |-> l, text |-> text, vector |-> vector, owned |-> {},
                answer |-> "none", alive |-> TRUE, mounted |-> TRUE]]
    /\ UNCHANGED <<store, lost, behind>>

\* The shell is rendered again on the server ...
Read ==
    /\ refresh.asked /\ ~refresh.reading
    /\ \E view \in {View, Failure} : refresh' = [asked |-> FALSE, reading |-> TRUE, view |-> view]
    /\ behind' = FALSE
    /\ UNCHANGED <<store, props, nav, dialog, flight, acts, lost>>

\* ... and the islands keep their state.
Render ==
    /\ refresh.reading
    /\ props' = refresh.view
    /\ refresh' = [refresh EXCEPT !.reading = FALSE, !.view = Failure]
    /\ UNCHANGED <<nav, dialog, flight>> /\ ClientOnly

\* A refresh someone else asks for: Retry, SyncProvider, another island.
Refresh ==
    /\ ~refresh.asked
    /\ Happens
    /\ AskRefresh
    /\ UNCHANGED <<store, props, nav, dialog, flight, lost, behind>>

\* A link to another route: each page renders a shell of its own.
Navigate ==
    /\ Reachable
    /\ Happens
    /\ \E view \in {View, Failure} : props' = view
    /\ refresh' = NoRefresh /\ nav' = Quiet /\ UNCHANGED dialog
    /\ flight' = Adrift
    /\ behind' = FALSE
    /\ UNCHANGED <<store, lost>>

\* 401: window.location.assign("/signin"); what is in flight is another device's doing.
SignInAgain(i) ==
    /\ flight[i].answer = "unauthenticated"
    /\ flight' = [j \in Slots |-> Free]
    /\ props' = View /\ refresh' = NoRefresh /\ nav' = Quiet /\ dialog' = NoDialog
    /\ behind' = FALSE
    /\ UNCHANGED <<store, acts, lost>>

-----------------------------------------------------------------------------
(* ShellFrame and ListsNav.                                                *)

NavOnly == UNCHANGED <<props, refresh, dialog, flight>> /\ ClientOnly

\* The hamburger; the scrim, Esc, or the search trigger.
Drawer ==
    /\ Narrow /\ dialog.kind = "none"
    /\ nav' = [nav EXCEPT !.drawer = ~@]
    /\ NavOnly

\* One menu at a time.
Menu(l) ==
    /\ Active /\ Reachable /\ l \in ToSet(props.order)
    /\ nav' = [nav EXCEPT !.menu = IF @ = l THEN None ELSE l]
    /\ NavOnly

\* The rows ListsNav was rendered with, two neighbours swapped; none at the ends.
Moves(l) ==
    LET n == Len(props.order)
        swapped(k) == [props.order EXCEPT ![k] = props.order[k + 1], ![k + 1] = props.order[k]]
    IN  {swapped(k) : k \in {j \in 1..(n - 1) : l \in {props.order[j], props.order[j + 1]}}}

\* Move up or down. A second move does not wait for the first, nor for its refresh.
Move(l) ==
    /\ Reachable /\ nav.menu = l
    /\ \E vector \in Moves(l) : Send("move", None, "", vector)
    /\ nav' = [nav EXCEPT !.menu = None, !.error = FALSE]
    /\ UNCHANGED <<props, refresh, dialog>>

Got(i) == flight[i].answer \notin {"none", "unauthenticated"}
Land(i) == flight' = [flight EXCEPT ![i] = Free]

Moved(i) ==
    /\ flight[i].kind = "move" /\ Got(i)
    /\ Land(i)
    /\ IF flight[i].answer = "ok"
       THEN AskRefresh /\ UNCHANGED nav
       ELSE nav' = [nav EXCEPT !.error = @ \/ flight[i].mounted] /\ UNCHANGED refresh
    /\ UNCHANGED <<props, dialog>> /\ ClientOnly

\* Every toast has a timer of its own, which clears whatever is shown.
ToastExpires ==
    /\ nav.timers > 0
    /\ nav' = [nav EXCEPT !.timers = @ - 1, !.toast = None]
    /\ NavOnly

-----------------------------------------------------------------------------
(* ListDialog.                                                             *)

\* "New list", or an item of a menu; Delete is not offered for the default list
\* and closes the drawer first.
OpenDialog(kind, l) ==
    /\ Active /\ Reachable
    /\ IF kind = "create" THEN l = None
       ELSE l # None /\ nav.menu = l /\ l \in ToSet(props.order) /\ (kind = "delete" => l # Inbox)
    /\ dialog' = [NoDialog EXCEPT !.kind = kind, !.list = l]
    /\ nav' = [nav EXCEPT !.menu = IF kind = "create" THEN @ ELSE None,
                          !.drawer = @ /\ kind # "delete"]
    /\ UNCHANGED <<props, refresh, flight>> /\ ClientOnly

\* Cancel or the scrim, or Esc, which an open drawer hears too. Nothing is aborted.
CloseDialog ==
    /\ dialog.kind # "none"
    /\ dialog' = NoDialog
    /\ \E drawer \in {nav.drawer, FALSE} : nav' = [nav EXCEPT !.drawer = drawer]
    /\ flight' = Orphaned
    /\ UNCHANGED <<props, refresh>> /\ ClientOnly

\* The button is disabled while submitting; Enter in the field is not, and the field
\* stays editable: the name is whatever has been typed by then.
Submit ==
    /\ dialog.kind # "none"
    /\ dialog.kind = "delete" => ~dialog.submitting
    /\ dialog' = [dialog EXCEPT !.submitting = TRUE, !.field = FALSE, !.form = FALSE]
    /\ \E text \in IF dialog.kind = "delete" THEN {""} ELSE Names :
        Send(dialog.kind, dialog.list, text, <<>>)
    /\ UNCHANGED <<props, refresh, nav>>

\* Deviation (the sidebar is not read again): caught by SidebarFollows.
CloseOnly(i, toast) ==
    /\ IF flight[i].mounted
       THEN /\ dialog' = NoDialog
            /\ nav' = [nav EXCEPT !.menu = None, !.toast = IF toast = None THEN @ ELSE toast,
                                  !.timers = IF toast = None THEN @ ELSE @ + 1]
            /\ flight' = [Orphaned EXCEPT ![i] = Free]
       ELSE Land(i) /\ UNCHANGED <<dialog, nav>>
    /\ UNCHANGED refresh

\* onDone closes the dialog that is open, whichever it is.
AfterMutation(i, toast) ==
    /\ IF flight[i].mounted
       THEN /\ dialog' = NoDialog
            /\ nav' = [nav EXCEPT !.menu = None, !.toast = IF toast = None THEN @ ELSE toast,
                                  !.timers = IF toast = None THEN @ ELSE @ + 1]
            /\ flight' = [Orphaned EXCEPT ![i] = Free]
       ELSE Land(i) /\ UNCHANGED <<dialog, nav>>
    /\ AskRefresh

\* Deviation (no finally): caught by SaysWhatIsSo.
LeftSubmitting(i) == [dialog EXCEPT !.field = @ \/ flight[i].answer = "invalid",
                                    !.form = @ \/ flight[i].answer # "invalid"]

\* An error under the field or above it; what was typed stays.
WithError(i) == [dialog EXCEPT !.field = @ \/ flight[i].answer = "invalid",
                               !.form = @ \/ flight[i].answer # "invalid", !.submitting = FALSE]

\* A list that is gone is as good as deleted.
Answered(i) ==
    LET met == flight[i].answer = "ok" \/ (flight[i].answer = "gone" /\ flight[i].kind = "delete") IN
    /\ flight[i].kind \in {"create", "rename", "delete"} /\ Got(i)
    /\ IF met
       THEN AfterMutation(i, IF flight[i].kind = "delete" /\ flight[i].answer = "ok" THEN flight[i].list ELSE None)
       ELSE /\ Land(i)
            /\ dialog' = IF flight[i].alive THEN WithError(i) ELSE dialog
            /\ UNCHANGED <<nav, refresh>>
    /\ UNCHANGED props /\ ClientOnly

-----------------------------------------------------------------------------

Next ==
    \/ Read \/ Render \/ Refresh \/ Navigate \/ Drawer \/ ToastExpires
    \/ CloseDialog \/ Submit
    \/ \E l \in Lists : Menu(l) \/ Move(l) \/ OtherDevice(l)
    \/ \E kind \in {"create", "rename", "delete"}, l \in Lists \cup {None} : OpenDialog(kind, l)
    \/ \E i \in Slots : ServeCreate(i) \/ ServeRename(i) \/ ServeDelete(i) \/ CheckMove(i) \/ SetPositions(i)
                        \/ Fault(i) \/ Refuse(i) \/ Moved(i) \/ Answered(i) \/ SignInAgain(i)

Spec == Init /\ [][Next]_vars

-----------------------------------------------------------------------------

\* Type invariant.
TypeOK ==
    /\ order \in Seq(Lists) /\ position \in [Lists -> Nat] /\ name \in [Lists -> Names \ {""}]
    /\ props.order \in Seq(Lists) /\ props.ok \in BOOLEAN
    /\ refresh.asked \in BOOLEAN /\ refresh.reading \in BOOLEAN
    /\ nav.menu \in Lists \cup {None} /\ nav.toast \in Lists \cup {None} /\ nav.timers \in Nat
    /\ dialog.kind \in {"none", "create", "rename", "delete"}
    /\ acts \in 0..MaxActs /\ lost \in 0..MaxLost
    /\ made \subseteq Lists /\ removed \subseteq made

\* The move that was stored last stands: the lists that were there when it was checked are in
\* the order it asked for, whatever lists were created, deleted or moved between its check,
\* its UPDATE and now, and whatever order the screen it was made on had been rendered with
\* (ListsService.reorder, "the whole vector is rewritten").
LastMoveStands ==
    \A j, k \in DOMAIN order :
        j < k /\ {order[j], order[k]} \subseteq arranged.owned =>
            \E m, n \in DOMAIN arranged.vector :
                m < n /\ arranged.vector[m] = order[j] /\ arranged.vector[n] = order[k]

\* Once the tab's requests are answered and its refreshes rendered, the sidebar shows the
\* stored order and names, unless another device or a lost answer has changed them since
\* (afterMutation and move ask for a refresh, also for what a closed dialog had sent).
SidebarFollows ==
    (\A i \in Slots : Idle(i)) /\ ~refresh.asked /\ ~refresh.reading /\ ~behind /\ props.ok =>
        props.order = order /\ \A l \in ToSet(order) : props.name[l] = name[l]

\* The dialog says Saving or Deleting only while a request of its own is out, whatever was
\* closed, resubmitted or answered late; a toast names a list that is deleted.
SaysWhatIsSo ==
    /\ dialog.submitting =>
        \E i \in Slots : flight[i].kind = dialog.kind /\ flight[i].alive /\ flight[i].list = dialog.list
    /\ nav.toast # None => nav.toast \in removed
=============================================================================
