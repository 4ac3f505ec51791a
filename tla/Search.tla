------------------------------- MODULE Search -------------------------------
(***************************************************************************)
(* One account's tasks, the query behind GET /search and GET /views/{view} *)
(* (predicates, order, keyset cursor), and its two readers in one tab: the *)
(* search overlay and the smart view screen. Tasks change, time passes and *)
(* answers arrive in any order between two pages.                          *)
(***************************************************************************)
EXTENDS Integers, FiniteSets, SequencesExt

CONSTANTS
    Tasks,              \* task ids, in the order of uuid comparison
    CreatedAt,          \* created_at of each task
    Titled,             \* the tasks whose title contains the keyword
    MaxNow,             \* bound: the last instant
    NoDue,              \* due_at IS NULL
    Dues,               \* the due dates tasks have at the start
    Day,                \* the calendar day of an instant in the caller's zone
    Limit,              \* SEARCH_PAGE_SIZE
    Statuses, Buckets,  \* the filters the overlay is used with
    Views,              \* the smart views that are visited
    Slots,              \* requests of the tab that may be in flight at once
    MaxActs,            \* bound: what the user does
    MaxChanges          \* bound: changes of tasks, and requests that fail

Instants == 0..MaxNow

ASSUME TasksAssumption == Tasks \subseteq Nat /\ Titled \subseteq Tasks /\ CreatedAt \in [Tasks -> Nat]
ASSUME DuesAssumption == NoDue \notin Int /\ Dues \subseteq Instants \cup {NoDue}
ASSUME DayAssumption == Day \in [Instants -> Int] /\ \A i, j \in Instants : i < j => Day[i] <= Day[j]
ASSUME LimitsAssumption == MaxNow \in Nat /\ Limit \in Nat \ {0} /\ MaxActs \in Nat /\ MaxChanges \in Nat /\ Slots \subseteq Nat
ASSUME FiltersAssumption ==
    /\ Statuses \subseteq {"active", "completed", "overdue"}
    /\ Buckets \subseteq {"today", "upcoming", "overdue", "none"}
    /\ Views \subseteq {"today", "upcoming", "overdue", "all"}

VARIABLES
    task,               \* the stored tasks
    now,
    overlay,            \* SearchOverlay
    screen,             \* SmartViewScreen on the route of a view
    seed,               \* a server render of the view that is on its way
    flight,             \* the tab's requests, or Free
    acts, changes       \* counters for the bounds

vars == <<task, now, overlay, screen, seed, flight, acts, changes>>

Task == [due : Instants \cup {NoDue}, done : BOOLEAN, gone : BOOLEAN]

-----------------------------------------------------------------------------
(* The query. A question is what the overlay sends or a view stands for;   *)
(* "" is an absent criterion.                                              *)

Question == [q : {"", "keyword"}, status : {"", "active", "completed", "overdue"},
             due : {"", "today", "upcoming", "overdue", "none"}]
NoQuestion == [q |-> "", status |-> "", due |-> ""]

Dated(t) == task[t].due # NoDue
Overdue(t) == ~task[t].done /\ Dated(t) /\ task[t].due < now

StatusHolds(status, t) ==
    CASE status = "" -> TRUE
      [] status = "active" -> ~task[t].done
      [] status = "completed" -> task[t].done
      [] status = "overdue" -> Overdue(t)

\* Deviation (upcoming starts the day after tomorrow): caught by DueViewsPartition.
DueFromTomorrow(bucket, t) ==
    CASE bucket = "" -> TRUE
      [] bucket = "today" -> Dated(t) /\ Day[task[t].due] = Day[now]
      [] bucket = "upcoming" -> Dated(t) /\ Day[task[t].due] > Day[now] + 1
      [] bucket = "overdue" -> Overdue(t)
      [] bucket = "none" -> ~Dated(t)

\* today and upcoming compare days of the zone, overdue compares instants.
DueHolds(bucket, t) ==
    CASE bucket = "" -> TRUE
      [] bucket = "today" -> Dated(t) /\ Day[task[t].due] = Day[now]
      [] bucket = "upcoming" -> Dated(t) /\ Day[task[t].due] > Day[now]
      [] bucket = "overdue" -> Overdue(t)
      [] bucket = "none" -> ~Dated(t)

\* Soft-deleted tasks (and those not created yet) are in no answer.
Matches(c, t) ==
    /\ ~task[t].gone
    /\ c.q = "" \/ t \in Titled
    /\ StatusHolds(c.status, t)
    /\ DueHolds(c.due, t)

\* ORDER BY due_at ASC, id ASC, or created_at DESC, id DESC.
Key(sort, t) == IF sort = "due" THEN <<task[t].due, t>> ELSE <<-CreatedAt[t], -t>>

Precedes(k, l) == k[1] < l[1] \/ (k[1] = l[1] /\ k[2] < l[2])

\* Deviation (the sort key alone, without the id): caught by PagesExact.
BeyondByKey(cursor, k) == cursor = <<>> \/ cursor[1] < k[1]

\* The cursor is the key of the last row of the page before, <<>> for none.
Beyond(cursor, k) == cursor = <<>> \/ Precedes(cursor, k)

\* ORDER BY ... LIMIT n: the first n of the tasks of rest, or all of them.
FirstOf(n, rest, sort) ==
    LET Before(t, u) == Precedes(Key(sort, t), Key(sort, u)) IN
    {s \in SeqOf(rest, n) :
        /\ \A k, l \in DOMAIN s : k < l => Before(s[k], s[l])
        /\ \A k \in DOMAIN s, t \in rest \ ToSet(s) : Before(s[k], t)
        /\ Len(s) = n \/ ToSet(s) = rest}

\* What follows the cursor.
Rest(c, sort, cursor) == {t \in Tasks : Matches(c, t) /\ Beyond(cursor, Key(sort, t))}

\* Deviation (the extra row is not dropped): caught by TypeOK.
PagesAndOne(c, sort, cursor) ==
    {[rows |-> s, next |-> IF Len(s) > Limit THEN Key(sort, s[Limit]) ELSE <<>>] :
        s \in FirstOf(Limit + 1, Rest(c, sort, cursor), sort)}

\* One page, of LIMIT n + 1 rows all but the extra one, and a cursor only when there was
\* an extra one. There is one such page: no two tasks have the same key.
Pages(c, sort, cursor) ==
    LET rest == Rest(c, sort, cursor) IN
    {[rows |-> s, next |-> IF ToSet(s) = rest THEN <<>> ELSE Key(sort, Last(s))] :
        s \in FirstOf(Limit, rest, sort)}

\* Rows and next cursor of a request that has no answer yet.
NoPage == [rows |-> <<>>, next |-> <<>>]

\* The view -> criteria mapping.
CriteriaFor(view) == [q |-> "", status |-> "active", due |-> IF view = "all" THEN "" ELSE view]
SortOf(view) == IF view = "all" THEN "newest" ELSE "due"

HasCriteria(c) == c.q # "" \/ c.status # "" \/ c.due # ""

-----------------------------------------------------------------------------
(* The tab. asked is what the overlay's fields hold; from is a ghost: the  *)
(* questions whose answers its rows come from. On the screen, kept is a    *)
(* ghost: the tasks that have matched, unchanged, since the first page was *)
(* read; crossed: a page asked for before it was added to it.              *)

Free == [kind |-> "free", state |-> "none"]

Closed == [open |-> FALSE, asked |-> NoQuestion, id |-> 0, timer |-> FALSE, rows |-> <<>>, cursor |-> <<>>,
           loading |-> FALSE, more |-> FALSE, error |-> FALSE, searched |-> FALSE, from |-> {}]

\* A screen mounted with a first page, or SmartViewFailure.
Mount(view, page) ==
    [view |-> view, ok |-> page.ok, first |-> page.rows, appended |-> <<>>, cursor |-> page.next,
     more |-> FALSE, error |-> FALSE, kept |-> page.kept, crossed |-> FALSE]

\* What the server component renders a view with: its first page.
FirstPages(view) ==
    {[ok |-> TRUE, rows |-> page.rows, next |-> page.next,
      kept |-> {t \in Tasks : Matches(CriteriaFor(view), t)}, due |-> FALSE] :
        page \in Pages(CriteriaFor(view), SortOf(view), <<>>)}
FailedPage == [ok |-> FALSE, rows |-> <<>>, next |-> <<>>, kept |-> {}, due |-> FALSE]
NoSeed == FailedPage

Init ==
    /\ task \in [Tasks -> [due : Dues, done : {FALSE}, gone : {FALSE}]]
    /\ now = 0
    /\ overlay = Closed
    /\ \E view \in Views : \E page \in FirstPages(view) : screen = Mount(view, page)
    /\ seed = NoSeed
    /\ flight = [i \in Slots |-> Free]
    /\ acts = 0 /\ changes = 0

-----------------------------------------------------------------------------
(* What is on the screen.                                                  *)

Region ==
    CASE ~HasCriteria(overlay.asked) -> "idle"
      [] HasCriteria(overlay.asked) /\ overlay.loading /\ overlay.rows = <<>> -> "loading"
      [] HasCriteria(overlay.asked) /\ ~overlay.loading /\ overlay.searched /\ overlay.rows = <<>> -> "empty"
      [] OTHER -> "results"

Shown == screen.first \o screen.appended

Idle(i) == flight[i].kind = "free"

\* fetch(): the lowest free slot. Bound: MaxActs.
Send(kind, c, sort, cursor, id) ==
    \E i \in Slots :
        /\ Idle(i) /\ \A j \in Slots : Idle(j) => i <= j
        /\ flight' = [flight EXCEPT ![i] =
               [kind |-> kind, c |-> c, sort |-> sort, cursor |-> cursor, id |-> id,
                state |-> "sent", page |-> NoPage, alive |-> TRUE, crossing |-> FALSE]]

UserActs == acts < MaxActs /\ acts' = acts + 1
Happens == changes < MaxChanges /\ changes' = changes + 1

\* Requests whose component is unmounted: their answers set no state, and an
\* overtaken search is not looked at.
Orphaned(kinds) ==
    [i \in Slots |->
        IF flight[i].kind \notin kinds THEN flight[i]
        ELSE IF flight[i].kind = "search" /\ flight[i].id # overlay.id THEN Free
        ELSE [flight[i] EXCEPT !.alive = FALSE]]

-----------------------------------------------------------------------------
(* The server.                                                             *)

\* SearchService.search and ViewsService.view; parseCriteria refuses no criteria.
Serve(i) ==
    /\ flight[i].state = "sent"
    /\ IF HasCriteria(flight[i].c)
       THEN \E page \in Pages(flight[i].c, flight[i].sort, flight[i].cursor) :
                flight' = [flight EXCEPT ![i].state = "ok", ![i].page = page]
       ELSE flight' = [flight EXCEPT ![i].state = "fail"]
    /\ UNCHANGED <<task, now, overlay, screen, seed, acts, changes>>

\* The BFF, the API or the network fails, or the session has ended.
Fault(i) ==
    /\ Happens
    /\ flight[i].state = "sent"
    /\ \E state \in {"fail", "unauthenticated"} : flight' = [flight EXCEPT ![i].state = state]
    /\ UNCHANGED <<task, now, overlay, screen, seed, acts>>

\* The ghosts of the first page shown and of the one on its way.
StillKept(page, S) == [page EXCEPT !.kept = @ \cap S]

\* A task is created, edited, completed, reopened, deleted or restored, here or elsewhere.
Change(t) ==
    /\ Happens
    /\ \/ task' = [task EXCEPT ![t].done = ~@]
       \/ task' = [task EXCEPT ![t].gone = ~@]
       \/ \E due \in Instants \cup {NoDue} : due # task[t].due /\ task' = [task EXCEPT ![t].due = due]
    /\ screen' = StillKept(screen, Tasks \ {t})
    /\ seed' = StillKept(seed, Tasks \ {t})
    /\ UNCHANGED <<now, overlay, flight, acts>>

\* Time passes: tasks become overdue, and a day may begin.
Tick ==
    /\ now < MaxNow
    /\ now' = now + 1
    /\ UNCHANGED <<task, overlay, flight, acts, changes>>
    /\ \E c \in {CriteriaFor(screen.view)} :
        LET S == {t \in Tasks : Matches(c, t)'} IN
        screen' = StillKept(screen, S) /\ seed' = StillKept(seed, S)

-----------------------------------------------------------------------------
(* SearchOverlay.                                                          *)


\* The rest of the tab and the server.
OverlayOnly == UNCHANGED <<task, now, screen, seed, changes>>

\* The shell's search button, or Ctrl/Cmd+K.
Open ==
    /\ ~overlay.open
    /\ overlay' = [Closed EXCEPT !.open = TRUE]
    /\ UNCHANGED <<flight, acts>> /\ OverlayOnly

\* applyCriteria and the effect after it: the debounce starts again, or the panel
\* goes back to idle and forgets.
Applied(c) ==
    LET next == [overlay EXCEPT !.asked = c, !.id = @ + 1, !.error = FALSE] IN
    IF HasCriteria(c) THEN [next EXCEPT !.timer = TRUE, !.loading = TRUE]
    ELSE [next EXCEPT !.timer = FALSE, !.loading = FALSE, !.searched = FALSE,
                      !.rows = <<>>, !.cursor = <<>>, !.from = {}]

\* The keyword or one filter is changed, or an empty result's filters are cleared.
Ask ==
    /\ overlay.open
    /\ UserActs
    /\ \E c \in Question :
        /\ c # overlay.asked
        /\ c.status \in Statuses \cup {""} /\ c.due \in Buckets \cup {""}
        /\ \/ Cardinality({f \in DOMAIN c : c[f] # overlay.asked[f]}) = 1
           \/ Region = "empty" /\ c = [NoQuestion EXCEPT !.q = overlay.asked.q]
        /\ overlay' = Applied(c)
    /\ UNCHANGED flight /\ OverlayOnly

\* The debounce ends: the request carries its number.
Fire ==
    /\ overlay.timer
    /\ overlay' = [overlay EXCEPT !.timer = FALSE]
    /\ Send("search", overlay.asked, "newest", <<>>, overlay.id)
    /\ UNCHANGED acts /\ OverlayOnly

\* Deviation (no requestId): caught by AnswersLatest.
AnyAnswer(i) == flight[i].alive

Latest(i) == flight[i].alive /\ flight[i].id = overlay.id

Answered(i, kind) == flight[i].kind = kind /\ flight[i].state \in {"ok", "fail"}
Ok(i) == flight[i].state = "ok"
Land(i) == flight' = [flight EXCEPT ![i] = Free]

\* The answer replaces the rows, or its failure is shown over them.
Searched(i) ==
    /\ Answered(i, "search")
    /\ Land(i)
    /\ overlay' =
        IF ~Latest(i) THEN overlay
        ELSE IF Ok(i)
        THEN [overlay EXCEPT !.rows = flight[i].page.rows, !.cursor = flight[i].page.next, !.error = FALSE,
                             !.loading = FALSE, !.searched = TRUE, !.from = {flight[i].c}]
        ELSE [overlay EXCEPT !.error = TRUE, !.loading = FALSE, !.searched = TRUE]
    /\ UNCHANGED acts /\ OverlayOnly

\* Load more: the fields as they are now, with the cursor of the rows shown.
LoadMore ==
    /\ overlay.open /\ Region = "results" /\ overlay.cursor # <<>> /\ ~overlay.more
    /\ UserActs
    /\ overlay' = [overlay EXCEPT !.more = TRUE]
    /\ Send("more", overlay.asked, "newest", overlay.cursor, 0)
    /\ OverlayOnly

\* Appended to whatever is shown by then.
MoreLoaded(i) ==
    /\ Answered(i, "more")
    /\ Land(i)
    /\ overlay' =
        IF ~flight[i].alive THEN overlay
        ELSE IF Ok(i)
        THEN [overlay EXCEPT !.rows = @ \o flight[i].page.rows, !.cursor = flight[i].page.next,
                             !.more = FALSE, !.from = @ \cup {flight[i].c}]
        ELSE [overlay EXCEPT !.error = TRUE, !.more = FALSE]
    /\ UNCHANGED acts /\ OverlayOnly

\* Esc, the scrim, or a result that is opened.
Close ==
    /\ overlay.open
    /\ UserActs
    /\ overlay' = Closed
    /\ flight' = Orphaned({"search", "more"})
    /\ OverlayOnly

-----------------------------------------------------------------------------
(* SmartViewScreen.                                                        *)

ScreenOnly == UNCHANGED <<task, now, overlay, changes>>

\* A link to a view: a new screen, from a page the server has just read or failed to.
Visit(view) ==
    /\ ~overlay.open
    /\ UserActs
    /\ \E page \in FirstPages(view) \cup {FailedPage} : screen' = Mount(view, page)
    /\ seed' = NoSeed
    /\ flight' = Orphaned({"view"})
    /\ ScreenOnly

\* Load more, with the view's cursor.
LoadMoreOfView ==
    /\ ~overlay.open /\ Shown # <<>> /\ screen.cursor # <<>> /\ ~screen.more
    /\ UserActs
    /\ screen' = [screen EXCEPT !.more = TRUE, !.error = FALSE]
    /\ Send("view", CriteriaFor(screen.view), SortOf(screen.view), screen.cursor, 0)
    /\ UNCHANGED seed /\ ScreenOnly

\* Appended to the first page of the moment.
ViewLoaded(i) ==
    /\ Answered(i, "view")
    /\ Land(i)
    /\ screen' =
        IF ~flight[i].alive THEN screen
        ELSE IF Ok(i)
        THEN [screen EXCEPT !.appended = @ \o flight[i].page.rows, !.cursor = flight[i].page.next,
                            !.more = FALSE, !.crossed = @ \/ flight[i].crossing]
        ELSE [screen EXCEPT !.error = TRUE, !.more = FALSE]
    /\ UNCHANGED <<seed, acts>> /\ ScreenOnly

\* router.refresh(): a completed row, a change signal, or Retry. The page is read ...
SeedRead ==
    /\ ~seed.due
    /\ UserActs
    /\ \E page \in FirstPages(screen.view) \cup {FailedPage} : seed' = [page EXCEPT !.due = TRUE]
    /\ UNCHANGED <<screen, flight>> /\ ScreenOnly

\* Deviation (appended pages are kept under a new first page): caught by PagesExact.
KeepsAppended(page) == [Mount(screen.view, page) EXCEPT !.appended = screen.appended, !.more = screen.more]

\* A new first page drops the appended ones; the rest of the state stays.
Reseeded(page) == [Mount(screen.view, page) EXCEPT !.more = screen.more, !.error = screen.error]

\* ... and rendered: a failed one, or one after a failed one, mounts anew.
SeedRender ==
    LET same == seed.ok /\ screen.ok IN
    /\ seed.due
    /\ screen' = IF same THEN Reseeded(seed) ELSE Mount(screen.view, seed)
    /\ flight' = [i \in Slots |->
            IF flight[i].kind # "view" THEN flight[i]
            ELSE IF same THEN [flight[i] EXCEPT !.crossing = TRUE]
            ELSE [flight[i] EXCEPT !.alive = FALSE]]
    /\ seed' = NoSeed
    /\ UNCHANGED acts /\ ScreenOnly

\* 401: window.location.assign("/signin"), except for an overtaken search. Signing
\* in again leads back to a view.
SignInAgain(i) ==
    /\ flight[i].state = "unauthenticated"
    /\ IF flight[i].kind = "search" /\ flight[i].alive /\ ~Latest(i)
       THEN Land(i) /\ UNCHANGED <<overlay, screen, seed>>
       ELSE /\ flight' = [j \in Slots |-> Free]
            /\ overlay' = Closed
            /\ \E page \in FirstPages(screen.view) : screen' = Mount(screen.view, page)
            /\ seed' = NoSeed
    /\ UNCHANGED <<task, now, acts, changes>>

-----------------------------------------------------------------------------

Next ==
    \/ Open \/ Ask \/ Fire \/ LoadMore \/ Close
    \/ \E view \in Views : Visit(view)
    \/ LoadMoreOfView \/ SeedRead \/ SeedRender
    \/ \E i \in Slots : Serve(i) \/ Fault(i) \/ Searched(i) \/ MoreLoaded(i) \/ ViewLoaded(i) \/ SignInAgain(i)
    \/ \E t \in Tasks : Change(t)
    \/ Tick

Spec == Init /\ [][Next]_vars

-----------------------------------------------------------------------------

\* Type invariant.
TypeOK ==
    /\ task \in [Tasks -> Task] /\ now \in Instants
    /\ overlay.asked \in Question /\ overlay.from \subseteq Question /\ overlay.id \in Nat
    /\ \A f \in {"open", "timer", "loading", "more", "error", "searched"} : overlay[f] \in BOOLEAN
    /\ overlay.rows \in Seq(Tasks) /\ screen.first \in Seq(Tasks) /\ screen.appended \in Seq(Tasks)
    /\ screen.kept \subseteq Tasks /\ seed.kept \subseteq Tasks
    /\ Len(screen.first) <= Limit
    /\ \A i \in Slots : Idle(i) \/ flight[i].page.rows \in Seq(Tasks)
    /\ acts \in 0..MaxActs /\ changes \in 0..MaxChanges

\* Whatever the time and the zone, an active task with a due date is in exactly one of
\* today and upcoming, or its day is over and it is in overdue; one that is still to come
\* is never overdue (the day predicates against the instant predicate of OVERDUE).
DueViewsPartition ==
    \A t \in Tasks :
        LET in(view) == Matches(CriteriaFor(view), t) IN
        /\ in("all") /\ Dated(t) => in("today") \/ in("upcoming") \/ in("overdue")
        /\ ~(in("upcoming") /\ (in("today") \/ in("overdue")))
        /\ in("today") \/ in("upcoming") \/ in("overdue") => in("all")

\* Paging loses nothing and repeats nothing, whatever changes between two pages: a task that
\* has been in the view, unchanged, since its first page was read is on the screen exactly
\* once if the pages have reached it, and never otherwise (the keyset cursor). A page that was
\* asked for before the first page was replaced is appended all the same, and left out here.
PagesExact ==
    screen.ok /\ ~screen.crossed =>
        \A t \in screen.kept :
            Cardinality({k \in DOMAIN Shown : Shown[k] = t})
                = IF screen.cursor = <<>> \/ ~Precedes(screen.cursor, Key(SortOf(screen.view), t)) THEN 1 ELSE 0

\* The overlay never settles on another question's answer: unless an error says so, a panel that
\* has stopped loading shows rows of the question in its fields, and one that is loading
\* has the debounce or the newest request still to come (requestId).
AnswersLatest ==
    overlay.open /\ HasCriteria(overlay.asked) =>
        IF overlay.loading
        THEN overlay.timer \/ \E i \in Slots : flight[i].kind = "search" /\ Latest(i) /\ flight[i].c = overlay.asked
        ELSE overlay.error \/ overlay.asked \in overlay.from
=============================================================================
