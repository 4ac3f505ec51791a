---------------------------- MODULE SearchProofs ----------------------------
(***************************************************************************)
(* What holds of the query, the overlay and the smart views for every      *)
(* account, zone and page size: the due views cover the dated tasks, the   *)
(* overlay never settles on another question's answer, and the pages of a  *)
(* view show what stays in it once, whatever changes between them.         *)
(***************************************************************************)
EXTENDS Search, FiniteSetTheorems, SequenceTheorems, TLAPS

OverlayFields == {"open", "asked", "id", "timer", "rows", "cursor", "loading", "more", "error", "searched", "from"}
CallFields == {"kind", "c", "sort", "cursor", "id", "state", "page", "alive", "crossing"}

Calls(i) == flight[i].kind \in {"search", "more", "view"}

\* The shapes of the variables that actions update in part.
Shape ==
    /\ DOMAIN overlay = OverlayFields
    /\ overlay.id \in Nat
    /\ DOMAIN flight = Slots
    /\ \A i \in Slots : Calls(i) => DOMAIN flight[i] = CallFields
    /\ \A i \in Slots : Calls(i) \/ flight[i] = Free

\* A mounted search belongs to the open overlay and to a number it has given; the
\* newest number belongs to the question in the fields, whose debounce is over.
Numbered ==
    \A i \in Slots : flight[i].kind = "search" /\ flight[i].alive =>
        /\ overlay.open
        /\ flight[i].id \in Nat /\ flight[i].id <= overlay.id
        /\ flight[i].id = overlay.id => flight[i].c = overlay.asked /\ ~overlay.timer

\* The debounce runs for a question of the open overlay.
Debounced == overlay.timer => overlay.open /\ overlay.loading /\ HasCriteria(overlay.asked)

IInv == Shape /\ Numbered /\ Debounced /\ AnswersLatest

\* The stored tasks and the clock.
StoredOK == task \in [Tasks -> Task] /\ now \in Instants

-----------------------------------------------------------------------------

\* The tasks keep their type and the clock its range.
LEMMA StoredInvariant == Spec => []StoredOK
<1> USE DEF StoredOK
<1>1. Init => StoredOK
    <2>1. Dues \subseteq Instants \cup {NoDue}
        BY DuesAssumption
    <2>2. Init => task \in [Tasks -> Task]
        BY <2>1 DEF Init, Task
    <2>3. Init => now \in Instants
        BY LimitsAssumption DEF Init, Instants
    <2>4. QED
        BY <2>2, <2>3
<1>2. StoredOK /\ [Next]_vars => StoredOK'
    <2> SUFFICES ASSUME StoredOK, [Next]_vars PROVE StoredOK'
        OBVIOUS
    <2>1. CASE \E t \in Tasks : Change(t)
        <3>1. PICK t \in Tasks : Change(t)
            BY <2>1
        <3>2. task[t] \in Task /\ now' = now
            BY <3>1 DEF Change
        <3>3. PICK r \in Task : task' = [task EXCEPT ![t] = r]
            <4>1. CASE task' = [task EXCEPT ![t].done = ~@]
                <5>1. [task[t] EXCEPT !.done = ~@] \in Task
                    BY <3>2 DEF Task
                <5>2. QED
                    BY <4>1, <5>1
            <4>2. CASE task' = [task EXCEPT ![t].gone = ~@]
                <5>1. [task[t] EXCEPT !.gone = ~@] \in Task
                    BY <3>2 DEF Task
                <5>2. QED
                    BY <4>2, <5>1
            <4>3. CASE \E due \in Instants \cup {NoDue} : task' = [task EXCEPT ![t].due = due]
                <5>1. \A due \in Instants \cup {NoDue} : [task[t] EXCEPT !.due = due] \in Task
                    BY <3>2 DEF Task
                <5>2. QED
                    BY <4>3, <5>1
            <4>4. QED
                BY <3>1, <4>1, <4>2, <4>3 DEF Change
        <3>4. QED
            BY <3>2, <3>3
    <2>2. CASE Tick
        BY <2>2, LimitsAssumption DEF Tick, Instants
    <2>3. CASE UNCHANGED <<task, now>>
        BY <2>3
    <2>4. Open \/ Ask \/ Fire \/ LoadMore \/ Close => UNCHANGED <<task, now>>
        BY DEF Open, Ask, Fire, LoadMore, Close, OverlayOnly
    <2>5. (\E view \in Views : Visit(view)) \/ LoadMoreOfView \/ SeedRead \/ SeedRender => UNCHANGED <<task, now>>
        BY DEF Visit, LoadMoreOfView, SeedRead, SeedRender, ScreenOnly
    <2>6. ASSUME NEW i \in Slots, Serve(i) \/ Fault(i) \/ Searched(i) \/ MoreLoaded(i) \/ ViewLoaded(i) \/ SignInAgain(i)
          PROVE  UNCHANGED <<task, now>>
        BY <2>6 DEF Serve, Fault, Searched, MoreLoaded, ViewLoaded, SignInAgain, OverlayOnly, ScreenOnly
    <2>7. UNCHANGED vars => UNCHANGED <<task, now>>
        BY DEF vars
    <2>8. QED
        <3>1. Next \/ UNCHANGED vars
            OBVIOUS
        <3>2. \/ Open \/ Ask \/ Fire \/ LoadMore \/ Close
              \/ (\E view \in Views : Visit(view)) \/ LoadMoreOfView \/ SeedRead \/ SeedRender
              \/ \E i \in Slots : Serve(i) \/ Fault(i) \/ Searched(i) \/ MoreLoaded(i) \/ ViewLoaded(i) \/ SignInAgain(i)
              \/ \E t \in Tasks : Change(t)
              \/ Tick
              \/ UNCHANGED vars
            BY <3>1, Zenon DEF Next
        <3>3. QED
            BY <2>1, <2>2, <2>3, <2>4, <2>5, <2>6, <2>7, <3>2
<1>3. QED
    BY <1>1, <1>2, PTL DEF Spec

\* The criteria of the four views.
LEMMA ViewCriteria ==
    ASSUME NEW t \in Tasks, StoredOK
    PROVE  /\ Matches(CriteriaFor("all"), t) <=> ~task[t].gone /\ ~task[t].done
           /\ Matches(CriteriaFor("today"), t)
                <=> ~task[t].gone /\ ~task[t].done /\ Dated(t) /\ Day[task[t].due] = Day[now]
           /\ Matches(CriteriaFor("upcoming"), t)
                <=> ~task[t].gone /\ ~task[t].done /\ Dated(t) /\ Day[task[t].due] > Day[now]
           /\ Matches(CriteriaFor("overdue"), t) <=> ~task[t].gone /\ Overdue(t)
<1>1. \A view \in {"all", "today", "upcoming", "overdue"} :
        Matches(CriteriaFor(view), t)
            <=> ~task[t].gone /\ ~task[t].done /\ DueHolds(IF view = "all" THEN "" ELSE view, t)
    BY DEF Matches, CriteriaFor, StatusHolds
<1>2. /\ DueHolds("", t)
      /\ DueHolds("today", t) <=> Dated(t) /\ Day[task[t].due] = Day[now]
      /\ DueHolds("upcoming", t) <=> Dated(t) /\ Day[task[t].due] > Day[now]
      /\ DueHolds("overdue", t) <=> Overdue(t)
    BY DEF DueHolds
<1>3. Overdue(t) => ~task[t].done
    BY DEF Overdue
<1>4. QED
    BY <1>1, <1>2, <1>3

\* Every zone whose days follow each other, every clock and every due date (DueViewsPartition).
THEOREM DueViews == Spec => []DueViewsPartition
<1>1. StoredOK => DueViewsPartition
    <2> SUFFICES ASSUME StoredOK, NEW t \in Tasks
                 PROVE  /\ Matches(CriteriaFor("all"), t) /\ Dated(t) =>
                             Matches(CriteriaFor("today"), t) \/ Matches(CriteriaFor("upcoming"), t)
                                 \/ Matches(CriteriaFor("overdue"), t)
                        /\ ~(Matches(CriteriaFor("upcoming"), t)
                               /\ (Matches(CriteriaFor("today"), t) \/ Matches(CriteriaFor("overdue"), t)))
                        /\ Matches(CriteriaFor("today"), t) \/ Matches(CriteriaFor("upcoming"), t)
                             \/ Matches(CriteriaFor("overdue"), t) => Matches(CriteriaFor("all"), t)
        BY DEF DueViewsPartition
    <2>1. Dated(t) => task[t].due \in Instants
        BY DEF StoredOK, Task, Dated
    <2>2. Dated(t) => /\ Day[task[t].due] \in Int /\ Day[now] \in Int
                      /\ Day[task[t].due] < Day[now] => task[t].due < now
                      /\ task[t].due < now => Day[task[t].due] <= Day[now]
        BY <2>1, DayAssumption DEF StoredOK, Instants
    <2>3. Overdue(t) <=> ~task[t].done /\ Dated(t) /\ task[t].due < now
        BY DEF Overdue
    <2>4. Dated(t) => \/ Day[task[t].due] = Day[now] \/ Day[task[t].due] > Day[now] \/ task[t].due < now
        BY <2>2
    <2>5. Dated(t) => ~(Day[task[t].due] > Day[now] /\ (Day[task[t].due] = Day[now] \/ task[t].due < now))
        BY <2>2
    <2>6. QED
        BY <2>3, <2>4, <2>5, ViewCriteria
<1>2. QED
    BY <1>1, StoredInvariant, PTL

-----------------------------------------------------------------------------
(* The overlay.                                                            *)

\* A call sent: the other calls stay, the new one has every field.
Sent(i, kind, c, id) ==
    /\ flight[i].kind = "free"
    /\ flight'[i].kind = kind /\ flight'[i].c = c /\ flight'[i].id = id
    /\ flight'[i].alive = TRUE /\ DOMAIN flight'[i] = CallFields
    /\ DOMAIN flight' = Slots /\ \A j \in Slots \ {i} : flight'[j] = flight[j]

\* A request is a call of its own: no other call is touched.
LEMMA Sending ==
    ASSUME Shape, NEW kind \in {"search", "more", "view"}, NEW c, NEW sort, NEW cursor, NEW id,
           Send(kind, c, sort, cursor, id)
    PROVE  \E i \in Slots : Sent(i, kind, c, id)
    BY DEF Send, Sent, Shape, Idle, CallFields

\* A call whose answer has been dealt with: the others stay.
LEMMA Landing ==
    ASSUME Shape, NEW i \in Slots, Land(i)
    PROVE  /\ flight'[i] = Free /\ DOMAIN flight' = Slots
           /\ \A j \in Slots \ {i} : flight'[j] = flight[j]
    BY DEF Land, Shape

\* Steps that leave the overlay alone, and every call's kind, question and number; no
\* search is unmounted by them.
CallsStay ==
    /\ overlay' = overlay
    /\ DOMAIN flight' = Slots
    /\ \A i \in Slots :
        \/ flight'[i] = flight[i]
        \/ /\ flight'[i].kind = flight[i].kind /\ Calls(i)
           /\ DOMAIN flight'[i] = CallFields
           /\ flight'[i].c = flight[i].c /\ flight'[i].id = flight[i].id
           /\ flight[i].kind = "search" => flight'[i].alive = flight[i].alive

\* Such a step keeps the invariant.
LEMMA Undisturbed == ASSUME IInv, CallsStay PROVE IInv'
<1> USE DEF IInv, CallsStay
<1>1. Shape'
    BY DEF Shape, Calls
<1>2. Numbered'
    BY DEF Numbered, Calls
<1>3. Debounced'
    BY DEF Debounced
<1>4. AnswersLatest'
    BY DEF AnswersLatest, Latest
<1>5. QED
    BY <1>1, <1>2, <1>3, <1>4

\* One proof per action that touches the overlay or its searches.
LEMMA OverlayStep == IInv /\ [Next]_vars => IInv'
<1> SUFFICES ASSUME IInv, [Next]_vars PROVE IInv'
    OBVIOUS
<1>s. Shape /\ Numbered /\ Debounced /\ AnswersLatest
    BY DEF IInv
<1>f. \A i \in Slots : flight[i].kind = "free" => ~Calls(i)
    BY DEF Calls
<1>1. CASE Open
    <2>1. overlay' = [Closed EXCEPT !.open = TRUE] /\ flight' = flight /\ ~overlay.open
        BY <1>1 DEF Open
    <2>2. Shape'
        BY <1>s, <2>1 DEF Shape, Calls, Closed, OverlayFields
    <2>3. Numbered'
        BY <1>s, <2>1 DEF Numbered
    <2>4. Debounced' /\ AnswersLatest'
        BY <2>1 DEF Debounced, AnswersLatest, Closed, HasCriteria, NoQuestion
    <2>5. QED
        BY <2>2, <2>3, <2>4 DEF IInv
<1>2. CASE Ask
    <2>1. PICK c \in Question : overlay' = Applied(c)
        BY <1>2 DEF Ask
    <2>2. flight' = flight /\ overlay.open
        BY <1>2 DEF Ask
    <2>3. /\ DOMAIN overlay' = OverlayFields /\ overlay'.open /\ overlay'.asked = c
          /\ overlay'.id = overlay.id + 1
          /\ overlay'.timer <=> HasCriteria(c)
          /\ overlay'.loading <=> HasCriteria(c)
        <3>1. CASE HasCriteria(c)
            BY <3>1, <2>1, <2>2, <1>s DEF Applied, Shape, OverlayFields
        <3>2. CASE ~HasCriteria(c)
            BY <3>2, <2>1, <2>2, <1>s DEF Applied, Shape, OverlayFields
        <3>3. QED
            BY <3>1, <3>2
    <2>4. HasCriteria(c) \in BOOLEAN
        BY DEF HasCriteria
    <2>5. Shape'
        BY <1>s, <2>2, <2>3, <2>4 DEF Shape, Calls
    <2>6. Numbered'
        BY <1>s, <2>2, <2>3 DEF Numbered, Shape
    <2>7. Debounced' /\ AnswersLatest'
        BY <2>3, <2>4 DEF Debounced, AnswersLatest
    <2>8. QED
        BY <2>5, <2>6, <2>7 DEF IInv
<1>3. CASE Fire
    <2>1. /\ overlay' = [overlay EXCEPT !.timer = FALSE] /\ overlay.timer
          /\ Send("search", overlay.asked, "newest", <<>>, overlay.id)
        BY <1>3 DEF Fire
    <2>2. PICK i \in Slots : Sent(i, "search", overlay.asked, overlay.id)
        BY <2>1, <1>s, Sending, Zenon
    <2>3. /\ DOMAIN overlay' = OverlayFields /\ overlay'.timer = FALSE
          /\ overlay'.open = overlay.open /\ overlay'.asked = overlay.asked /\ overlay'.id = overlay.id
          /\ overlay'.loading = overlay.loading
        BY <2>1, <1>s DEF Shape, OverlayFields
    <2>4. overlay.open /\ overlay.loading
        BY <2>1, <1>s DEF Debounced
    <2>5. Shape'
        BY <1>s, <2>2, <2>3 DEF Sent, Shape, Calls
    <2>6. Numbered'
        BY <1>s, <2>2, <2>3, <2>4 DEF Sent, Numbered, Shape
    <2>7. Debounced' /\ AnswersLatest'
        BY <2>2, <2>3, <2>4 DEF Sent, Debounced, AnswersLatest, Latest
    <2>8. QED
        BY <2>5, <2>6, <2>7 DEF IInv
<1>4. CASE LoadMore
    <2>1. /\ overlay' = [overlay EXCEPT !.more = TRUE]
          /\ Send("more", overlay.asked, "newest", overlay.cursor, 0)
        BY <1>4 DEF LoadMore
    <2>2. PICK i \in Slots : Sent(i, "more", overlay.asked, 0)
        BY <2>1, <1>s, Sending, Zenon
    <2>3. DOMAIN overlay' = OverlayFields /\ \A f \in OverlayFields \ {"more"} : overlay'[f] = overlay[f]
        BY <2>1, <1>s DEF Shape
    <2>4. /\ overlay'.open = overlay.open /\ overlay'.asked = overlay.asked /\ overlay'.id = overlay.id
          /\ overlay'.loading = overlay.loading /\ overlay'.timer = overlay.timer
          /\ overlay'.error = overlay.error /\ overlay'.from = overlay.from
        BY <2>3 DEF OverlayFields
    <2>5. Shape'
        BY <1>s, <2>2, <2>3, <2>4 DEF Sent, Shape, Calls
    <2>6. Numbered'
        BY <1>s, <2>2, <2>4 DEF Sent, Numbered
    <2>7. Debounced'
        BY <1>s, <2>4 DEF Debounced
    <2>8. AnswersLatest'
        BY <1>s, <2>2, <2>4 DEF Sent, AnswersLatest, Latest
    <2>9. QED
        BY <2>5, <2>6, <2>7, <2>8 DEF IInv
<1>5. CASE Close
    <2>1. overlay' = Closed /\ flight' = Orphaned({"search", "more"})
        BY <1>5 DEF Close
    <2>2. ASSUME NEW i \in Slots
          PROVE  /\ flight'[i].kind = "search" => ~flight'[i].alive
                 /\ Calls(i)' => DOMAIN flight'[i] = CallFields
                 /\ Calls(i)' \/ flight'[i] = Free
        <3>1. CASE flight[i].kind \notin {"search", "more"}
            <4>1. flight'[i] = flight[i]
                BY <2>1, <3>1 DEF Orphaned
            <4>2. QED
                BY <3>1, <4>1, <1>s DEF Shape, Calls
        <3>2. CASE flight[i].kind \in {"search", "more"} /\ flight'[i] = Free
            BY <3>2 DEF Free, Calls
        <3>3. CASE flight[i].kind \in {"search", "more"} /\ flight'[i] = [flight[i] EXCEPT !.alive = FALSE]
            BY <3>3, <1>s DEF Shape, Calls, CallFields
        <3>4. QED
            BY <3>1, <3>2, <3>3, <2>1 DEF Orphaned
    <2>3. DOMAIN flight' = Slots
        BY <2>1 DEF Orphaned
    <2>4. Shape'
        BY <2>1, <2>2, <2>3 DEF Shape, Closed, OverlayFields
    <2>5. Numbered'
        BY <2>2 DEF Numbered
    <2>6. Debounced' /\ AnswersLatest'
        BY <2>1 DEF Debounced, AnswersLatest, Closed
    <2>7. QED
        BY <2>4, <2>5, <2>6 DEF IInv
<1>6. ASSUME NEW i \in Slots, Searched(i) PROVE IInv'
    <2>1. flight[i].kind = "search" /\ Land(i)
        BY <1>6 DEF Searched, Answered
    <2>2. /\ flight'[i] = Free /\ DOMAIN flight' = Slots
          /\ \A j \in Slots \ {i} : flight'[j] = flight[j]
        BY <2>1, <1>s, Landing
    <2>3. CASE ~Latest(i)
        <3>1. overlay' = overlay
            BY <1>6, <2>3 DEF Searched
        <3>2. Shape' /\ Numbered' /\ Debounced'
            BY <1>s, <2>2, <3>1 DEF Shape, Numbered, Debounced, Calls, Free
        <3>3. AnswersLatest'
            BY <1>s, <2>2, <2>3, <3>1 DEF AnswersLatest, Latest
        <3>4. QED
            BY <3>2, <3>3 DEF IInv
    <2>4. CASE Latest(i)
        <3>1. overlay.open /\ flight[i].c = overlay.asked
            BY <2>1, <2>4, <1>s DEF Numbered, Latest
        <3>2. /\ DOMAIN overlay' = OverlayFields
              /\ overlay'.open = overlay.open /\ overlay'.asked = overlay.asked /\ overlay'.id = overlay.id
              /\ overlay'.loading = FALSE /\ overlay'.timer = overlay.timer
              /\ overlay'.error \/ overlay.asked \in overlay'.from
            <4>1. CASE Ok(i)
                BY <4>1, <1>6, <2>4, <3>1, <1>s DEF Searched, Shape, OverlayFields
            <4>2. CASE ~Ok(i)
                BY <4>2, <1>6, <2>4, <3>1, <1>s DEF Searched, Shape, OverlayFields
            <4>3. QED
                BY <4>1, <4>2
        <3>3. ~overlay.timer
            BY <2>1, <2>4, <1>s DEF Numbered, Latest
        <3>4. Shape' /\ Numbered'
            <4>1. Shape'
                BY <1>s, <2>2, <3>2 DEF Shape, Calls, Free
            <4>2. Numbered'
                BY <1>s, <2>2, <3>2 DEF Numbered, Free
            <4>3. QED
                BY <4>1, <4>2
        <3>5. Debounced' /\ AnswersLatest'
            BY <3>2, <3>3 DEF Debounced, AnswersLatest
        <3>6. QED
            BY <3>4, <3>5 DEF IInv
    <2>5. QED
        BY <2>3, <2>4
<1>7. ASSUME NEW i \in Slots, MoreLoaded(i) PROVE IInv'
    <2>1. flight[i].kind = "more" /\ Land(i)
        BY <1>7 DEF MoreLoaded, Answered
    <2>2. /\ flight'[i] = Free /\ DOMAIN flight' = Slots
          /\ \A j \in Slots \ {i} : flight'[j] = flight[j]
        BY <2>1, <1>s, Landing
    <2>3. /\ DOMAIN overlay' = OverlayFields
          /\ overlay'.open = overlay.open /\ overlay'.asked = overlay.asked /\ overlay'.id = overlay.id
          /\ overlay'.loading = overlay.loading /\ overlay'.timer = overlay.timer
          /\ overlay'.error = overlay.error \/ overlay'.error = TRUE
          /\ overlay.from \subseteq overlay'.from
        <3>1. CASE ~flight[i].alive
            BY <3>1, <1>7, <1>s DEF MoreLoaded, Shape
        <3>2. CASE flight[i].alive /\ Ok(i)
            BY <3>2, <1>7, <1>s DEF MoreLoaded, Shape, OverlayFields
        <3>3. CASE flight[i].alive /\ ~Ok(i)
            BY <3>3, <1>7, <1>s DEF MoreLoaded, Shape, OverlayFields
        <3>4. QED
            BY <3>1, <3>2, <3>3
    <2>4. Shape' /\ Numbered' /\ Debounced'
        BY <1>s, <2>2, <2>3 DEF Shape, Numbered, Debounced, Calls, Free
    <2>5. AnswersLatest'
        BY <1>s, <2>1, <2>2, <2>3 DEF AnswersLatest, Latest
    <2>6. QED
        BY <2>4, <2>5 DEF IInv
<1>8. ASSUME NEW i \in Slots, ViewLoaded(i) PROVE IInv'
    <2>1. flight[i].kind = "view" /\ Land(i) /\ overlay' = overlay
        BY <1>8 DEF ViewLoaded, Answered, ScreenOnly
    <2>2. /\ flight'[i] = Free /\ DOMAIN flight' = Slots
          /\ \A j \in Slots \ {i} : flight'[j] = flight[j]
        BY <2>1, <1>s, Landing
    <2>3. Shape' /\ Numbered' /\ Debounced'
        BY <1>s, <2>1, <2>2 DEF Shape, Numbered, Debounced, Calls, Free
    <2>4. AnswersLatest'
        BY <1>s, <2>1, <2>2 DEF AnswersLatest, Latest
    <2>5. QED
        BY <2>3, <2>4 DEF IInv
<1>9. ASSUME NEW i \in Slots, Serve(i) \/ Fault(i) PROVE IInv'
    <2>1. flight[i].state = "sent" /\ overlay' = overlay
        BY <1>9 DEF Serve, Fault
    <2>2. Calls(i) /\ DOMAIN flight[i] = CallFields
        BY <2>1, <1>s DEF Shape, Free
    <2>3. CASE Fault(i)
        <3>1. PICK state : flight' = [flight EXCEPT ![i].state = state]
            BY <2>3 DEF Fault
        <3>2. CallsStay
            BY <2>1, <2>2, <3>1, <1>s DEF CallsStay, Shape, CallFields
        <3>3. QED
            BY <3>2, Undisturbed
    <2>4. CASE Serve(i)
        <3>1. \/ \E page : flight' = [flight EXCEPT ![i] = [flight[i] EXCEPT !.state = "ok", !.page = page]]
              \/ flight' = [flight EXCEPT ![i] = [flight[i] EXCEPT !.state = "fail"]]
            BY <2>4 DEF Serve
        <3>2. ASSUME NEW page, flight' = [flight EXCEPT ![i] = [flight[i] EXCEPT !.state = "ok", !.page = page]]
              PROVE  IInv'
            <4>1. CallsStay
                BY <2>1, <2>2, <3>2, <1>s DEF CallsStay, Shape, CallFields
            <4>2. QED
                BY <4>1, Undisturbed
        <3>3. CASE flight' = [flight EXCEPT ![i] = [flight[i] EXCEPT !.state = "fail"]]
            <4>1. CallsStay
                BY <2>1, <2>2, <3>3, <1>s DEF CallsStay, Shape, CallFields
            <4>2. QED
                BY <4>1, Undisturbed
        <3>4. QED
            BY <3>1, <3>2, <3>3
    <2>5. QED
        BY <1>9, <2>3, <2>4
<1>10. ASSUME NEW i \in Slots, SignInAgain(i) PROVE IInv'
    <2>1. CASE overlay' = Closed /\ flight' = [j \in Slots |-> Free]
        BY <2>1 DEF IInv, Shape, Numbered, Debounced, AnswersLatest, Calls, Closed, Free, OverlayFields, HasCriteria, NoQuestion
    <2>2. CASE flight[i].kind = "search" /\ ~Latest(i) /\ Land(i) /\ overlay' = overlay
        <3>1. /\ flight'[i] = Free /\ DOMAIN flight' = Slots
              /\ \A j \in Slots \ {i} : flight'[j] = flight[j]
            BY <2>2, <1>s, Landing
        <3>2. Shape' /\ Numbered' /\ Debounced'
            BY <1>s, <2>2, <3>1 DEF Shape, Numbered, Debounced, Calls, Free
        <3>3. AnswersLatest'
            BY <1>s, <2>2, <3>1 DEF AnswersLatest, Latest
        <3>4. QED
            BY <3>2, <3>3 DEF IInv
    <2>3. QED
        BY <1>10, <2>1, <2>2 DEF SignInAgain
<1>11. ASSUME NEW view \in Views, Visit(view) PROVE IInv'
    <2>1. overlay' = overlay /\ flight' = Orphaned({"view"})
        BY <1>11 DEF Visit, ScreenOnly
    <2>2. CallsStay
        BY <2>1, <1>s DEF CallsStay, Orphaned, Shape, Calls, CallFields
    <2>3. QED
        BY <2>2, Undisturbed
<1>12. CASE LoadMoreOfView
    <2>1. overlay' = overlay
        BY <1>12 DEF LoadMoreOfView, ScreenOnly
    <2>2. PICK i \in Slots : Sent(i, "view", CriteriaFor(screen.view), 0)
        BY <1>12, <1>s, Sending, Zenon DEF LoadMoreOfView
    <2>3. Shape' /\ Numbered' /\ Debounced'
        BY <1>s, <2>1, <2>2 DEF Sent, Shape, Numbered, Debounced, Calls
    <2>4. AnswersLatest'
        BY <1>s, <2>1, <2>2 DEF Sent, AnswersLatest, Latest
    <2>5. QED
        BY <2>3, <2>4 DEF IInv
<1>13. CASE SeedRender
    <2>1. overlay' = overlay
        BY <1>13 DEF SeedRender, ScreenOnly
    <2>2. CallsStay
        BY <2>1, <1>13, <1>s DEF SeedRender, CallsStay, Shape, Calls, CallFields
    <2>3. QED
        BY <2>2, Undisturbed
<1>14. CASE UNCHANGED <<overlay, flight>>
    <2>1. CallsStay
        BY <1>14, <1>s DEF CallsStay, Shape
    <2>2. QED
        BY <2>1, Undisturbed
<1>15. SeedRead \/ Tick \/ (\E t \in Tasks : Change(t)) \/ UNCHANGED vars => UNCHANGED <<overlay, flight>>
    BY DEF SeedRead, Tick, Change, ScreenOnly, vars
<1>16. QED
    BY <1>1, <1>2, <1>3, <1>4, <1>5, <1>6, <1>7, <1>8, <1>9, <1>10, <1>11, <1>12, <1>13, <1>14, <1>15, Zenon DEF Next

\* For any number of requests in flight: the overlay shows the newest question's answer,
\* its failure, or that it is loading (AnswersLatest).
THEOREM OverlayHonest == Spec => []AnswersLatest
<1>1. Init => IInv
    <2>1. Init => overlay = Closed /\ flight = [i \in Slots |-> Free]
        BY DEF Init
    <2>2. Init => Shape
        BY <2>1 DEF Shape, Calls, Closed, Free, OverlayFields
    <2>3. Init => Numbered /\ Debounced /\ AnswersLatest
        BY <2>1 DEF Numbered, Debounced, AnswersLatest, Closed, Free
    <2>4. QED
        BY <2>2, <2>3 DEF IInv
<1>2. IInv => AnswersLatest
    BY DEF IInv
<1>3. QED
    BY <1>1, <1>2, OverlayStep, PTL DEF Spec

-----------------------------------------------------------------------------
(* The types of the tab's state.                                           *)

\* A key, or no cursor.
Keyed == Int \X Int
Cursors == {<<>>} \cup Keyed
PageType == [rows : Seq(Tasks), next : Cursors]
OverlayType ==
    [open : BOOLEAN, asked : Question, id : Nat, timer : BOOLEAN, rows : Seq(Tasks), cursor : Cursors,
     loading : BOOLEAN, more : BOOLEAN, error : BOOLEAN, searched : BOOLEAN, from : SUBSET Question]
ScreenType ==
    [view : Views, ok : BOOLEAN, first : Seq(Tasks), appended : Seq(Tasks), cursor : Cursors,
     more : BOOLEAN, error : BOOLEAN, kept : SUBSET Tasks, crossed : BOOLEAN]
SeedType == [ok : BOOLEAN, rows : Seq(Tasks), next : Cursors, kept : SUBSET Tasks, due : BOOLEAN]

\* Only dated tasks are asked for in the order of their dates.
SortFits(sort, c) == sort = "newest" \/ (sort = "due" /\ c.due \in {"today", "upcoming", "overdue"})
CallType ==
    [kind : {"search", "more", "view"}, c : Question, sort : {"newest", "due"}, cursor : Cursors,
     id : Nat, state : {"sent", "ok", "fail", "unauthenticated"}, page : PageType,
     alive : BOOLEAN, crossing : BOOLEAN]

CallsTyped ==
    /\ flight \in [Slots -> CallType \cup {Free}]
    /\ \A i \in Slots : flight[i] # Free => SortFits(flight[i].sort, flight[i].c)
Typed ==
    /\ overlay \in OverlayType
    /\ screen \in ScreenType /\ Len(screen.first) <= Limit
    /\ seed \in SeedType /\ Len(seed.rows) <= Limit
    /\ CallsTyped
    /\ acts \in 0..MaxActs /\ changes \in 0..MaxChanges

-----------------------------------------------------------------------------
(* The pages of a view. A task is past when it is not beyond the last row; *)
(* the rows shown hold the tasks kept exactly when they are past, each     *)
(* once, and a page on its way holds those between its cursor and its own  *)
(* last row.                                                               *)

Matching(v) == {t \in Tasks : Matches(CriteriaFor(v), t)}
Keys(v) == [t \in Tasks |-> Key(SortOf(v), t)]

Past(next, k) == next = <<>> \/ ~Precedes(next, k)

Once(rows, S) == \A k, l \in DOMAIN rows : rows[k] = rows[l] /\ rows[k] \in S => k = l

Exact(rows, next, kept, key) ==
    /\ Once(rows, kept)
    /\ \A t \in kept : t \in ToSet(rows) <=> Past(next, key[t])

Continues(page, cursor, kept, key) ==
    /\ Once(page.rows, kept)
    /\ \A t \in kept : t \in ToSet(page.rows) <=> ~Past(cursor, key[t]) /\ Past(page.next, key[t])
    /\ \A t \in kept : Past(cursor, key[t]) => Past(page.next, key[t])

\* A first page of the view, just read or on its way.
FirstOK(page, v) ==
    /\ page \in SeedType /\ Len(page.rows) <= Limit
    /\ page.kept \subseteq Matching(v)
    /\ Exact(page.rows, page.next, page.kept, Keys(v))

ScreenOK(v) ==
    /\ screen.kept \subseteq Matching(v)
    /\ ~screen.crossed => Exact(Shown, screen.cursor, screen.kept, Keys(v))

\* A view's request that is still listened to, and one asked for from the rows shown.
Heeded(i) == flight[i].kind = "view" /\ flight[i].alive
Current(i) == Heeded(i) /\ ~flight[i].crossing

CallOK(i, v) ==
    /\ flight[i].c = CriteriaFor(v) /\ flight[i].sort = SortOf(v)
    /\ flight[i].cursor = screen.cursor /\ screen.cursor # <<>>
    /\ flight[i].state = "ok" => Continues(flight[i].page, screen.cursor, screen.kept, Keys(v))

HeededOK ==
    /\ \A i \in Slots : Heeded(i) => screen.more
    /\ \A i, j \in Slots : Heeded(i) /\ Heeded(j) => i = j

Paged(v) == FirstOK(seed, v) /\ ScreenOK(v) /\ HeededOK /\ \A i \in Slots : Current(i) => CallOK(i, v)

TabOK == Typed /\ \A v \in Views : screen.view = v => Paged(v)

-----------------------------------------------------------------------------

\* Rows appended to rows that were appended are appended to the first ones.
LEMMA RowsJoin ==
    \A s, t, u \in Seq(Tasks) : (s \o t) \o u = s \o (t \o u)
<1>1. SUFFICES ASSUME NEW S, NEW s \in Seq(S), NEW t \in Seq(S), NEW u \in Seq(S)
               PROVE  (s \o t) \o u = s \o (t \o u)
    OBVIOUS
<1>2. QED
    BY ConcatAssociative, SMT

\* Keys are ordered, each before or after any other.
LEMMA KeysOrdered ==
    ASSUME NEW a \in Keyed, NEW b \in Keyed, NEW d \in Keyed
    PROVE  /\ ~Precedes(a, a)
           /\ Precedes(a, b) /\ Precedes(b, d) => Precedes(a, d)
           /\ Precedes(a, b) => ~Precedes(b, a)
           /\ a # b => Precedes(a, b) \/ Precedes(b, a)
<1>1. a[1] \in Int /\ a[2] \in Int /\ b[1] \in Int /\ b[2] \in Int /\ d[1] \in Int /\ d[2] \in Int
    BY DEF Keyed
<1>2. a = <<a[1], a[2]>> /\ b = <<b[1], b[2]>>
    BY DEF Keyed
<1>3. ~Precedes(a, a) /\ (Precedes(a, b) /\ Precedes(b, d) => Precedes(a, d)) /\ (Precedes(a, b) => ~Precedes(b, a))
    BY <1>1 DEF Precedes
<1>4. a[1] # b[1] \/ a[2] # b[2] => Precedes(a, b) \/ Precedes(b, a)
    BY <1>1 DEF Precedes
<1>5. a # b => a[1] # b[1] \/ a[2] # b[2]
    BY <1>2
<1>6. QED
    BY <1>3, <1>4, <1>5

\* No cursor is not a key.
LEMMA NoKey == ASSUME NEW k \in Keyed PROVE k # <<>>
BY DEF Keyed

\* The key of a task that matches.
LEMMA KeyOK ==
    ASSUME StoredOK, NEW c, NEW t \in Tasks, Matches(c, t), NEW sort, SortFits(sort, c)
    PROVE  Key(sort, t) \in Keyed
<1>1. CreatedAt[t] \in Nat /\ t \in Nat
    BY TasksAssumption
<1>2. CASE sort = "newest"
    BY <1>1, <1>2 DEF Key, Keyed
<1>3. CASE sort = "due" /\ c.due \in {"today", "upcoming", "overdue"}
    <2>1. Dated(t)
        BY <1>3 DEF Matches, DueHolds, Overdue
    <2>2. task[t].due \in Int
        <3>1. task[t].due \in Instants \cup {NoDue}
            BY DEF StoredOK, Task
        <3>2. QED
            BY <2>1, <3>1 DEF Dated, Instants
    <2>3. QED
        BY <1>1, <1>3, <2>2 DEF Key, Keyed
<1>4. QED
    BY <1>2, <1>3 DEF SortFits

\* The criteria and the order of a view.
LEMMA ViewOK ==
    ASSUME NEW v \in Views
    PROVE  /\ CriteriaFor(v) \in Question /\ SortOf(v) \in {"newest", "due"}
           /\ SortFits(SortOf(v), CriteriaFor(v)) /\ HasCriteria(CriteriaFor(v))
<1>1. v \in {"today", "upcoming", "overdue", "all"}
    BY FiltersAssumption
<1>2. QED
    BY <1>1 DEF CriteriaFor, Question, SortOf, SortFits, HasCriteria

\* What ORDER BY ... LIMIT returns.
LEMMA FirstOfOK ==
    ASSUME NEW n \in Nat, NEW rest \in SUBSET Tasks, NEW sort, NEW s \in FirstOf(n, rest, sort)
    PROVE  /\ s \in Seq(Tasks) /\ Len(s) \in Nat /\ Len(s) <= n /\ DOMAIN s = 1..Len(s) /\ ToSet(s) \subseteq rest
           /\ \A k, l \in DOMAIN s : k < l => Precedes(Key(sort, s[k]), Key(sort, s[l]))
           /\ \A k \in DOMAIN s, t \in rest \ ToSet(s) : Precedes(Key(sort, s[k]), Key(sort, t))
           /\ Len(s) = n \/ ToSet(s) = rest
<1>1. s \in SeqOf(rest, n)
    BY DEF FirstOf
<1>2. PICK m \in 0..n : s \in [1..m -> rest]
    BY <1>1 DEF SeqOf
<1>3. s \in [1..m -> Tasks] /\ m \in Nat
    BY <1>2
<1>4. s \in Seq(Tasks)
    BY <1>3, SeqDef
<1>5. Len(s) = m /\ DOMAIN s = 1..m
    BY <1>2, <1>3, <1>4, LenProperties
<1>6. ToSet(s) \subseteq rest
    BY <1>2 DEF ToSet
<1>7. QED
    BY <1>2, <1>4, <1>5, <1>6 DEF FirstOf

\* What one page holds, of the tasks that are left.
LEMMA PagesOK ==
    ASSUME StoredOK, NEW c, NEW sort, SortFits(sort, c), NEW cursor,
           NEW page \in Pages(c, sort, cursor), NEW rest, rest = Rest(c, sort, cursor)
    PROVE  /\ page \in PageType /\ Len(page.rows) <= Limit /\ ToSet(page.rows) \subseteq rest
           /\ \A k, l \in DOMAIN page.rows : page.rows[k] = page.rows[l] => k = l
           /\ \A t \in rest : t \in ToSet(page.rows) <=> Past(page.next, Key(sort, t))
           /\ page.next = <<>> \/ \E t \in rest : page.next = Key(sort, t)
<1>1. rest \in SUBSET Tasks /\ \A t \in rest : Matches(c, t) /\ Key(sort, t) \in Keyed
    BY KeyOK DEF Rest
<1>2. PICK s \in FirstOf(Limit, rest, sort) :
        page = [rows |-> s, next |-> IF ToSet(s) = rest THEN <<>> ELSE Key(sort, Last(s))]
    BY DEF Pages
<1>3. Limit \in Nat /\ Limit # 0
    BY LimitsAssumption
<1>4. /\ s \in Seq(Tasks) /\ Len(s) \in Nat /\ Len(s) <= Limit /\ DOMAIN s = 1..Len(s) /\ ToSet(s) \subseteq rest
      /\ \A k, l \in DOMAIN s : k < l => Precedes(Key(sort, s[k]), Key(sort, s[l]))
      /\ \A k \in DOMAIN s, t \in rest \ ToSet(s) : Precedes(Key(sort, s[k]), Key(sort, t))
      /\ Len(s) = Limit \/ ToSet(s) = rest
    BY <1>1, <1>3, FirstOfOK
<1>5. \A k \in DOMAIN s : s[k] \in rest /\ Key(sort, s[k]) \in Keyed
    BY <1>1, <1>4 DEF ToSet
<1>6. \A k, l \in DOMAIN s : s[k] = s[l] => k = l
    <2> SUFFICES ASSUME NEW k \in DOMAIN s, NEW l \in DOMAIN s, s[k] = s[l], k < l PROVE FALSE
        BY <1>4
    <2>1. Precedes(Key(sort, s[k]), Key(sort, s[k]))
        BY <1>4
    <2>2. QED
        BY <1>5, <2>1, KeysOrdered
<1>7. CASE ToSet(s) = rest
    <2>1. page.rows = s /\ page.next = <<>>
        BY <1>2, <1>7
    <2>2. page \in PageType
        BY <1>2, <1>4, <1>7 DEF PageType, Cursors
    <2>3. \A t \in rest : t \in ToSet(page.rows) <=> Past(page.next, Key(sort, t))
        BY <1>7, <2>1 DEF Past
    <2>4. QED
        BY <1>4, <1>6, <2>1, <2>2, <2>3
<1>8. CASE ToSet(s) # rest
    <2>1. PICK n \in DOMAIN s : n = Len(s) /\ Last(s) = s[n]
        BY <1>3, <1>4, <1>8 DEF Last
    <2>2. PICK last \in Keyed : last = Key(sort, s[n])
        BY <1>5
    <2>3. page.rows = s /\ page.next = last
        BY <1>2, <1>8, <2>1, <2>2
    <2>4. page \in PageType
        <3>1. page = [rows |-> s, next |-> last]
            BY <1>2, <1>8, <2>1, <2>2
        <3>2. QED
            BY <1>4, <3>1 DEF PageType, Cursors
    <2>5. last # <<>>
        BY NoKey
    <2>6. ASSUME NEW t \in rest PROVE t \in ToSet(s) <=> ~Precedes(last, Key(sort, t))
        <3>1. ASSUME t \in ToSet(s) PROVE ~Precedes(last, Key(sort, t))
            <4>1. PICK k \in DOMAIN s : s[k] = t
                BY <3>1 DEF ToSet
            <4>2. k = n \/ k < n
                BY <1>4, <2>1
            <4>3. k = n \/ Precedes(Key(sort, t), last)
                BY <1>4, <2>2, <4>1, <4>2
            <4>4. k = n => Key(sort, t) = last
                BY <2>2, <4>1
            <4>5. QED
                BY <1>1, <4>3, <4>4, KeysOrdered
        <3>2. ASSUME t \notin ToSet(s) PROVE Precedes(last, Key(sort, t))
            BY <1>4, <2>2, <3>2
        <3>3. QED
            BY <3>1, <3>2
    <2>7. \A t \in rest : t \in ToSet(page.rows) <=> Past(page.next, Key(sort, t))
        BY <2>3, <2>5, <2>6 DEF Past
    <2>8. \E t \in rest : page.next = Key(sort, t)
        BY <1>5, <2>2, <2>3
    <2>9. QED
        BY <1>4, <1>6, <2>3, <2>4, <2>7, <2>8
<1>9. QED
    BY <1>7, <1>8

\* What the server renders a view with.
LEMMA FirstPageOK ==
    ASSUME StoredOK, NEW v \in Views, NEW page \in FirstPages(v)
    PROVE  FirstOK(page, v) /\ page.ok
<1> DEFINE c == CriteriaFor(v)
           sort == SortOf(v)
<1>1. PICK p \in Pages(c, sort, <<>>) :
        page = [ok |-> TRUE, rows |-> p.rows, next |-> p.next, kept |-> {t \in Tasks : Matches(c, t)}, due |-> FALSE]
    BY DEF FirstPages
<1>2. PICK rest : rest = Rest(c, sort, <<>>)
    OBVIOUS
<1>3. /\ p \in PageType /\ Len(p.rows) <= Limit
      /\ \A k, l \in DOMAIN p.rows : p.rows[k] = p.rows[l] => k = l
      /\ \A t \in rest : t \in ToSet(p.rows) <=> Past(p.next, Key(sort, t))
    <2>1. SortFits(sort, c)
        BY ViewOK
    <2> HIDE DEF c, sort
    <2>2. QED
        BY <1>1, <1>2, <2>1, PagesOK
<1>4. Matching(v) = rest /\ rest \subseteq Tasks
    BY <1>2 DEF Matching, Rest, Beyond
<1>5. page.rows = p.rows /\ page.next = p.next /\ page.kept = rest /\ page.ok
    BY <1>1, <1>4 DEF Matching
<1>6. page \in SeedType
    BY <1>1, <1>3, <1>4 DEF Matching, SeedType, PageType
<1>7. Exact(p.rows, p.next, rest, Keys(v))
    BY <1>3, <1>4 DEF Exact, Once, Keys
<1>8. QED
    BY <1>3, <1>4, <1>5, <1>6, <1>7 DEF FirstOK

\* No page at all.
LEMMA FailedOK ==
    ASSUME NEW v
    PROVE  FirstOK(FailedPage, v)
<1>1. <<>> \in Seq(Tasks) /\ Len(<<>>) = 0
    BY EmptySeq
<1>2. FailedPage \in SeedType
    BY <1>1 DEF FailedPage, SeedType, Cursors
<1>3. QED
    BY <1>1, <1>2, LimitsAssumption DEF FirstOK, FailedPage, Exact, Once

\* What the server answers with the cursor of the rows shown.
LEMMA NextPageOK ==
    ASSUME StoredOK, NEW v \in Views, NEW cursor \in Keyed, NEW kept, kept \subseteq Matching(v),
           NEW page \in Pages(CriteriaFor(v), SortOf(v), cursor)
    PROVE  page \in PageType /\ Continues(page, cursor, kept, Keys(v))
<1> DEFINE c == CriteriaFor(v)
           sort == SortOf(v)
<1>1. PICK rest : rest = Rest(c, sort, cursor)
    OBVIOUS
<1>2. SortFits(sort, c)
    BY ViewOK
<1>3. /\ page \in PageType /\ ToSet(page.rows) \subseteq rest
      /\ \A k, l \in DOMAIN page.rows : page.rows[k] = page.rows[l] => k = l
      /\ \A t \in rest : t \in ToSet(page.rows) <=> Past(page.next, Key(sort, t))
      /\ page.next = <<>> \/ \E t \in rest : page.next = Key(sort, t)
    <2>1. page \in Pages(c, sort, cursor)
        OBVIOUS
    <2> HIDE DEF c, sort
    <2>2. QED
        BY <1>1, <1>2, <2>1, PagesOK
<1>4. cursor # <<>>
    BY NoKey
<1>5. \A t \in kept : t \in Tasks /\ Matches(c, t) /\ Keys(v)[t] = Key(sort, t) /\ Key(sort, t) \in Keyed
    BY <1>2, KeyOK DEF Matching, Keys
<1>6. \A t \in kept : t \in rest <=> ~Past(cursor, Keys(v)[t])
    BY <1>1, <1>4, <1>5 DEF Rest, Beyond, Past
<1>7. \A t \in kept : t \in ToSet(page.rows) <=> ~Past(cursor, Keys(v)[t]) /\ Past(page.next, Keys(v)[t])
    BY <1>3, <1>5, <1>6
<1>8. ASSUME NEW t \in kept, Past(cursor, Keys(v)[t]), page.next # <<>>
      PROVE  Past(page.next, Keys(v)[t])
    <2>1. PICK u \in rest : page.next = Key(sort, u)
        BY <1>3, <1>8
    <2>2. Precedes(cursor, page.next) /\ page.next \in Keyed
        BY <1>1, <1>2, <1>4, <2>1, KeyOK DEF Rest, Beyond
    <2>3. ~Precedes(cursor, Keys(v)[t])
        BY <1>4, <1>8 DEF Past
    <2>4. ~Precedes(page.next, Keys(v)[t])
        BY <1>5, <2>2, <2>3, KeysOrdered
    <2>5. QED
        BY <2>4 DEF Past
<1>9. QED
    BY <1>3, <1>7, <1>8 DEF Continues, Once, Past

\* A page that continues the rows, appended to them.
LEMMA Joined ==
    ASSUME NEW rows \in Seq(Tasks), NEW page \in PageType, NEW cursor, NEW kept, NEW key,
           Exact(rows, cursor, kept, key), Continues(page, cursor, kept, key)
    PROVE  Exact(rows \o page.rows, page.next, kept, key)
<1>1. page.rows \in Seq(Tasks)
    BY DEF PageType
<1>2. PICK more \in Seq(Tasks) : more = page.rows
    BY <1>1
<1>3. PICK all \in Seq(Tasks) :
        /\ all = rows \o more /\ Len(all) = Len(rows) + Len(more)
        /\ \A k \in 1..(Len(rows) + Len(more)) : all[k] = IF k <= Len(rows) THEN rows[k] ELSE more[k - Len(rows)]
    <2>1. /\ rows \o more \in Seq(Tasks) /\ Len(rows \o more) = Len(rows) + Len(more)
          /\ \A k \in 1..(Len(rows) + Len(more)) :
                (rows \o more)[k] = IF k <= Len(rows) THEN rows[k] ELSE more[k - Len(rows)]
        BY ConcatProperties
    <2>2. QED
        BY <2>1, Zenon
<1>4. /\ DOMAIN rows = 1..Len(rows) /\ DOMAIN more = 1..Len(more) /\ DOMAIN all = 1..(Len(rows) + Len(more))
      /\ Len(rows) \in Nat /\ Len(more) \in Nat
    BY <1>3, LenProperties
<1>5. ASSUME NEW k \in DOMAIN all
      PROVE  \/ k \in DOMAIN rows /\ all[k] = rows[k] /\ all[k] \in ToSet(rows)
             \/ k > Len(rows) /\ k - Len(rows) \in DOMAIN more /\ all[k] = more[k - Len(rows)] /\ all[k] \in ToSet(more)
    <2>1. CASE k <= Len(rows)
        BY <1>3, <1>4, <2>1 DEF ToSet
    <2>2. CASE ~(k <= Len(rows))
        <3>1. k > Len(rows) /\ k - Len(rows) \in DOMAIN more
            BY <1>4, <2>2
        <3>2. QED
            BY <1>3, <1>4, <2>2, <3>1 DEF ToSet
    <2>3. QED
        BY <2>1, <2>2
<1>6. \A t : t \in ToSet(rows) => t \in ToSet(all)
    BY <1>3, <1>4 DEF ToSet
<1>7. \A t : t \in ToSet(more) => t \in ToSet(all)
    <2> SUFFICES ASSUME NEW k \in DOMAIN more PROVE more[k] \in ToSet(all)
        BY DEF ToSet
    <2>1. Len(rows) + k \in 1..(Len(rows) + Len(more)) /\ ~(Len(rows) + k <= Len(rows)) /\ (Len(rows) + k) - Len(rows) = k
        BY <1>4
    <2>2. all[Len(rows) + k] = more[k]
        BY <1>3, <2>1
    <2>3. QED
        BY <1>4, <2>1, <2>2 DEF ToSet
<1>8. \A t : t \in ToSet(all) => t \in ToSet(rows) \/ t \in ToSet(more)
    BY <1>5 DEF ToSet
<1>9. /\ \A t \in kept : t \in ToSet(rows) <=> Past(cursor, key[t])
      /\ \A t \in kept : t \in ToSet(more) <=> ~Past(cursor, key[t]) /\ Past(page.next, key[t])
      /\ \A t \in kept : Past(cursor, key[t]) => Past(page.next, key[t])
      /\ Once(rows, kept) /\ Once(more, kept)
    BY <1>2 DEF Exact, Continues
<1>10. Once(all, kept)
    <2> SUFFICES ASSUME NEW k \in DOMAIN all, NEW l \in DOMAIN all, all[k] = all[l], all[k] \in kept PROVE k = l
        BY DEF Once
    <2>1. ~(all[k] \in ToSet(rows) /\ all[k] \in ToSet(more))
        BY <1>9
    <2>2. CASE k \in DOMAIN rows /\ all[k] = rows[k] /\ l \in DOMAIN rows /\ all[l] = rows[l]
        BY <1>9, <2>2 DEF Once
    <2>3. CASE /\ k > Len(rows) /\ k - Len(rows) \in DOMAIN more /\ all[k] = more[k - Len(rows)]
               /\ l > Len(rows) /\ l - Len(rows) \in DOMAIN more /\ all[l] = more[l - Len(rows)]
        <3>1. k - Len(rows) = l - Len(rows)
            BY <1>9, <2>3 DEF Once
        <3>2. QED
            BY <1>4, <3>1
    <2>4. QED
        BY <1>5, <2>1, <2>2, <2>3
<1>11. \A t \in kept : t \in ToSet(all) <=> Past(page.next, key[t])
    BY <1>6, <1>7, <1>8, <1>9
<1>12. QED
    BY <1>2, <1>3, <1>10, <1>11 DEF Exact

-----------------------------------------------------------------------------
(* What steps have in common.                                              *)

\* The tasks and the time are what they were.
LEMMA SameTasks ==
    ASSUME UNCHANGED <<task, now>>, NEW v
    PROVE  Matching(v)' = Matching(v) /\ Keys(v)' = Keys(v)
<1>1. Matching(v)' = Matching(v)
    BY DEF Matching, Matches, StatusHolds, DueHolds, Overdue, Dated
<1>2. Keys(v)' = Keys(v)
    BY DEF Keys, Key
<1>3. QED
    BY <1>1, <1>2

\* Fewer tasks are kept, whose keys are what they were.
LEMMA Fewer ==
    ASSUME NEW kept, NEW fewer, fewer \subseteq kept, NEW key, NEW later,
           \A t \in fewer : later[t] = key[t], NEW rows, NEW page, NEW next
    PROVE  /\ Exact(rows, next, kept, key) => Exact(rows, next, fewer, later)
           /\ Continues(page, next, kept, key) => Continues(page, next, fewer, later)
BY DEF Exact, Continues, Once

\* A screen is mounted.
LEMMA MountedOK ==
    ASSUME NEW v \in Views, NEW page, FirstOK(page, v), UNCHANGED <<task, now>>, screen' = Mount(v, page)
    PROVE  /\ screen' \in ScreenType /\ Len(screen'.first) <= Limit /\ ScreenOK(v)'
           /\ screen'.view = v /\ ~screen'.more
<1>1. page \in SeedType /\ Len(page.rows) <= Limit
    BY DEF FirstOK
<1>2. <<>> \in Seq(Tasks) /\ page.rows \in Seq(Tasks) /\ page.rows \o <<>> = page.rows
    BY <1>1, EmptySeq, ConcatEmptySeq DEF SeedType
<1>3. /\ screen'.first = page.rows /\ screen'.appended = <<>> /\ screen'.cursor = page.next
      /\ screen'.kept = page.kept /\ screen'.view = v /\ screen'.more = FALSE
    BY DEF Mount
<1>4. screen' \in ScreenType
    BY <1>1, <1>2 DEF Mount, ScreenType, SeedType
<1>5. Shown' = page.rows
    BY <1>2, <1>3 DEF Shown
<1>6. ScreenOK(v)'
    BY <1>3, <1>5, SameTasks DEF ScreenOK, FirstOK
<1>7. QED
    BY <1>1, <1>3, <1>4, <1>6

\* A call goes out.
LEMMA SentCall ==
    ASSUME CallsTyped, NEW kind \in {"search", "more", "view"}, NEW c \in Question, NEW sort \in {"newest", "due"},
           NEW cursor \in Cursors, NEW id \in Nat, SortFits(sort, c), Send(kind, c, sort, cursor, id)
    PROVE  /\ CallsTyped'
           /\ \E i \in Slots :
                /\ flight[i] = Free
                /\ flight'[i].kind = kind /\ flight'[i].c = c /\ flight'[i].sort = sort
                /\ flight'[i].cursor = cursor /\ flight'[i].state = "sent"
                /\ \A j \in Slots : j # i => flight'[j] = flight[j]
<1> DEFINE q == [kind |-> kind, c |-> c, sort |-> sort, cursor |-> cursor, id |-> id,
                 state |-> "sent", page |-> NoPage, alive |-> TRUE, crossing |-> FALSE]
<1>1. PICK i \in Slots : Idle(i) /\ flight' = [flight EXCEPT ![i] = q]
    BY Zenon DEF Send
<1>2. NoPage \in PageType
    BY EmptySeq DEF NoPage, PageType, Cursors
<1>3. /\ q \in CallType /\ SortFits(q.sort, q.c) /\ q.kind = kind /\ q.c = c /\ q.sort = sort
      /\ q.cursor = cursor /\ q.state = "sent"
    BY <1>2 DEF CallType
<1> HIDE DEF q
<1>4. flight[i] = Free
    BY <1>1 DEF CallsTyped, CallType, Idle
<1>5. flight'[i] = q /\ \A j \in Slots : j # i => flight'[j] = flight[j]
    BY <1>1 DEF CallsTyped
<1>6. CallsTyped'
    BY <1>1, <1>3, <1>5 DEF CallsTyped
<1>7. QED
    BY <1>3, <1>4, <1>5, <1>6

\* A call is over.
LEMMA LandedCall ==
    ASSUME CallsTyped, NEW i \in Slots, Land(i)
    PROVE  CallsTyped' /\ flight'[i] = Free /\ \A j \in Slots : j # i => flight'[j] = flight[j]
BY DEF CallsTyped, Land

\* Calls are unmounted.
LEMMA OrphanedCalls ==
    ASSUME CallsTyped, NEW kinds, flight' = Orphaned(kinds)
    PROVE  /\ CallsTyped'
           /\ \A i \in Slots : \/ flight'[i] = flight[i] /\ flight[i].kind \notin kinds
                               \/ ~Heeded(i)'
<1>1. ASSUME NEW i \in Slots
      PROVE  /\ flight'[i] \in CallType \cup {Free}
             /\ flight'[i] # Free => SortFits(flight'[i].sort, flight'[i].c)
             /\ (flight'[i] = flight[i] /\ flight[i].kind \notin kinds) \/ ~Heeded(i)'
    <2>1. flight[i] \in CallType \cup {Free} /\ (flight[i] # Free => SortFits(flight[i].sort, flight[i].c))
        BY DEF CallsTyped
    <2>2. CASE flight'[i] = flight[i] /\ flight[i].kind \notin kinds
        BY <2>1, <2>2
    <2>3. CASE flight'[i] = Free
        BY <2>3 DEF Free, Heeded
    <2>4. CASE flight'[i] = [flight[i] EXCEPT !.alive = FALSE] /\ flight[i] \in CallType
        <3>1. /\ [flight[i] EXCEPT !.alive = FALSE] \in CallType
              /\ flight'[i].alive = FALSE /\ flight'[i].sort = flight[i].sort /\ flight'[i].c = flight[i].c
            BY <2>4 DEF CallType
        <3>2. flight[i] # Free
            BY <2>4 DEF CallType, Free
        <3>3. QED
            BY <2>1, <2>4, <3>1, <3>2 DEF Heeded
    <2>5. CASE flight'[i] = [flight[i] EXCEPT !.alive = FALSE] /\ flight[i] = Free
        <3>1. flight'[i] = Free
            BY <2>5 DEF Free
        <3>2. QED
            BY <3>1 DEF Free, Heeded
    <2>6. QED
        BY <2>1, <2>2, <2>3, <2>4, <2>5 DEF Orphaned
<1>2. flight' = [i \in Slots |-> flight'[i]]
    BY DEF Orphaned
<1>3. flight' \in [Slots -> CallType \cup {Free}]
    BY <1>1, <1>2
<1>4. QED
    BY <1>1, <1>3 DEF CallsTyped

\* No view's pages or requests change.
LEMMA PagesStay ==
    ASSUME TabOK, UNCHANGED <<task, now, screen, seed, changes>>, overlay' \in OverlayType, CallsTyped',
           acts' \in 0..MaxActs, \A i \in Slots : Heeded(i)' => flight'[i] = flight[i]
    PROVE  TabOK'
<1>1. Typed'
    BY DEF TabOK, Typed
<1>2. ASSUME NEW v \in Views, screen'.view = v
      PROVE  Paged(v)'
    <2>1. Paged(v) /\ Matching(v)' = Matching(v) /\ Keys(v)' = Keys(v)
        BY <1>2, SameTasks DEF TabOK
    <2>2. FirstOK(seed, v)'
        BY <2>1 DEF Paged, FirstOK
    <2>3. ScreenOK(v)'
        BY <2>1 DEF Paged, ScreenOK, Shown
    <2>4. \A i \in Slots : Heeded(i)' => Heeded(i)
        BY DEF Heeded
    <2>5. HeededOK'
        BY <2>1, <2>4 DEF Paged, HeededOK
    <2>6. ASSUME NEW i \in Slots, Current(i)' PROVE CallOK(i, v)'
        <3>1. flight'[i] = flight[i]
            BY <2>6 DEF Current
        <3>2. Current(i)
            BY <2>6, <3>1 DEF Current, Heeded
        <3>3. CallOK(i, v)
            BY <2>1, <3>2 DEF Paged
        <3>4. QED
            BY <2>1, <3>1, <3>3 DEF CallOK
    <2>7. QED
        BY <2>2, <2>3, <2>5, <2>6 DEF Paged
<1>3. QED
    BY <1>1, <1>2 DEF TabOK

-----------------------------------------------------------------------------
(* The steps of the overlay.                                               *)

\* Asking, loading more and closing in the overlay.
LEMMA OverlayPages ==
    ASSUME TabOK, Open \/ Ask \/ Fire \/ LoadMore \/ Close
    PROVE  TabOK'
<1>1. /\ overlay \in OverlayType /\ CallsTyped /\ acts \in 0..MaxActs /\ MaxActs \in Nat
    BY LimitsAssumption DEF TabOK, Typed
<1>2. NoQuestion \in Question
    BY DEF NoQuestion, Question
<1>3. Closed \in OverlayType
    BY <1>2, EmptySeq DEF Closed, OverlayType, Cursors
<1>4. UserActs => acts' \in 0..MaxActs
    BY <1>1 DEF UserActs
<1>5. ASSUME flight' = flight
      PROVE  CallsTyped' /\ \A i \in Slots : Heeded(i)' => flight'[i] = flight[i]
    BY <1>1, <1>5 DEF CallsTyped
<1>6. CASE Open
    <2>1. overlay' \in OverlayType
        BY <1>3, <1>6 DEF Open, OverlayType
    <2>2. UNCHANGED <<task, now, screen, seed, changes, flight, acts>>
        BY <1>6 DEF Open, OverlayOnly
    <2>3. QED
        BY <1>1, <1>5, <2>1, <2>2, PagesStay
<1>7. CASE Ask
    <2>1. PICK c \in Question : overlay' = Applied(c)
        BY <1>7 DEF Ask
    <2>2. overlay' \in OverlayType
        <3>1. <<>> \in Seq(Tasks) /\ <<>> \in Cursors
            BY EmptySeq DEF Cursors
        <3>2. overlay.id \in Nat
            BY <1>1, Zenon DEF OverlayType
        <3>3. PICK n \in Nat : n = overlay.id + 1
            BY <3>2
        <3>4. PICK next \in OverlayType : next = [overlay EXCEPT !.asked = c, !.id = n, !.error = FALSE]
            BY <1>1 DEF OverlayType
        <3>5. \/ overlay' = [next EXCEPT !.timer = TRUE, !.loading = TRUE]
              \/ overlay' = [next EXCEPT !.timer = FALSE, !.loading = FALSE, !.searched = FALSE,
                                         !.rows = <<>>, !.cursor = <<>>, !.from = {}]
            BY <2>1, <3>3, <3>4, Zenon DEF Applied
        <3>6. QED
            BY <3>1, <3>5 DEF OverlayType
    <2>3. UNCHANGED <<task, now, screen, seed, changes, flight>> /\ acts' \in 0..MaxActs
        BY <1>4, <1>7 DEF Ask, OverlayOnly
    <2>4. QED
        BY <1>5, <2>2, <2>3, PagesStay
<1>8. CASE Fire
    <2>1. overlay' \in OverlayType
        BY <1>1, <1>8 DEF Fire, OverlayType
    <2>2. /\ UNCHANGED <<task, now, screen, seed, changes, acts>>
          /\ Send("search", overlay.asked, "newest", <<>>, overlay.id)
        BY <1>8 DEF Fire, OverlayOnly
    <2>3. CallsTyped' /\ \E i \in Slots : /\ flight[i] = Free /\ flight'[i].kind = "search"
                                          /\ \A j \in Slots : j # i => flight'[j] = flight[j]
        <3>1. overlay.asked \in Question /\ overlay.id \in Nat
            BY <1>1, Zenon DEF OverlayType
        <3>2. /\ <<>> \in Cursors /\ SortFits("newest", overlay.asked)
              /\ "search" \in {"search", "more", "view"} /\ "newest" \in {"newest", "due"}
            BY DEF Cursors, SortFits
        <3>3. /\ CallsTyped'
              /\ \E i \in Slots :
                    /\ flight[i] = Free
                    /\ flight'[i].kind = "search" /\ flight'[i].c = overlay.asked /\ flight'[i].sort = "newest"
                    /\ flight'[i].cursor = <<>> /\ flight'[i].state = "sent"
                    /\ \A j \in Slots : j # i => flight'[j] = flight[j]
            BY <1>1, <2>2, <3>1, <3>2, SentCall
        <3>4. QED
            BY <3>3, Zenon
    <2>4. \A i \in Slots : Heeded(i)' => flight'[i] = flight[i]
        BY <2>3 DEF Heeded
    <2>5. QED
        BY <1>1, <2>1, <2>2, <2>3, <2>4, PagesStay
<1>9. CASE LoadMore
    <2>1. overlay' \in OverlayType
        BY <1>1, <1>9 DEF LoadMore, OverlayType
    <2>2. /\ UNCHANGED <<task, now, screen, seed, changes>> /\ acts' \in 0..MaxActs
          /\ Send("more", overlay.asked, "newest", overlay.cursor, 0)
        BY <1>4, <1>9 DEF LoadMore, OverlayOnly
    <2>3. CallsTyped' /\ \E i \in Slots : /\ flight[i] = Free /\ flight'[i].kind = "more"
                                          /\ \A j \in Slots : j # i => flight'[j] = flight[j]
        <3>1. overlay.asked \in Question /\ overlay.cursor \in Cursors
            BY <1>1, Zenon DEF OverlayType
        <3>2. /\ 0 \in Nat /\ SortFits("newest", overlay.asked)
              /\ "more" \in {"search", "more", "view"} /\ "newest" \in {"newest", "due"}
            BY DEF SortFits
        <3>3. /\ CallsTyped'
              /\ \E i \in Slots :
                    /\ flight[i] = Free
                    /\ flight'[i].kind = "more" /\ flight'[i].c = overlay.asked /\ flight'[i].sort = "newest"
                    /\ flight'[i].cursor = overlay.cursor /\ flight'[i].state = "sent"
                    /\ \A j \in Slots : j # i => flight'[j] = flight[j]
            BY <1>1, <2>2, <3>1, <3>2, SentCall
        <3>4. QED
            BY <3>3, Zenon
    <2>4. \A i \in Slots : Heeded(i)' => flight'[i] = flight[i]
        BY <2>3 DEF Heeded
    <2>5. QED
        BY <2>1, <2>2, <2>3, <2>4, PagesStay
<1>10. CASE Close
    <2>1. /\ UNCHANGED <<task, now, screen, seed, changes>> /\ acts' \in 0..MaxActs
          /\ overlay' = Closed /\ flight' = Orphaned({"search", "more"})
        BY <1>4, <1>10 DEF Close, OverlayOnly
    <2>2. CallsTyped' /\ \A i \in Slots : Heeded(i)' => flight'[i] = flight[i]
        BY <1>1, <2>1, OrphanedCalls
    <2>3. QED
        BY <1>3, <2>1, <2>2, PagesStay
<1>11. QED
    BY <1>6, <1>7, <1>8, <1>9, <1>10

\* The answers to the overlay.
LEMMA OverlayAnswers ==
    ASSUME TabOK, NEW i \in Slots, Searched(i) \/ MoreLoaded(i)
    PROVE  TabOK'
<1>1. overlay \in OverlayType /\ CallsTyped /\ acts \in 0..MaxActs
    BY DEF TabOK, Typed
<1>2. /\ flight[i].kind \in {"search", "more"} /\ Land(i)
      /\ UNCHANGED <<task, now, screen, seed, changes, acts>>
    BY DEF Searched, MoreLoaded, Answered, OverlayOnly
<1>3. flight[i] \in CallType
    BY <1>1, <1>2 DEF CallsTyped, Free
<1>4. PICK rows \in Seq(Tasks), next \in Cursors, c \in Question :
        flight[i].page.rows = rows /\ flight[i].page.next = next /\ flight[i].c = c
    BY <1>3 DEF CallType, PageType
<1>5. overlay' \in OverlayType
    <2>1. CASE Searched(i)
        <3>1. \/ overlay' = overlay
              \/ overlay' = [overlay EXCEPT !.rows = rows, !.cursor = next, !.error = FALSE,
                                            !.loading = FALSE, !.searched = TRUE, !.from = {c}]
              \/ overlay' = [overlay EXCEPT !.error = TRUE, !.loading = FALSE, !.searched = TRUE]
            <4>1. overlay' =
                    IF ~Latest(i) THEN overlay
                    ELSE IF Ok(i)
                    THEN [overlay EXCEPT !.rows = flight[i].page.rows, !.cursor = flight[i].page.next, !.error = FALSE,
                                         !.loading = FALSE, !.searched = TRUE, !.from = {flight[i].c}]
                    ELSE [overlay EXCEPT !.error = TRUE, !.loading = FALSE, !.searched = TRUE]
                BY <2>1, Zenon DEF Searched
            <4>2. QED
                BY <1>4, <4>1
        <3>2. /\ {c} \in SUBSET Question
              /\ [overlay EXCEPT !.error = TRUE, !.loading = FALSE, !.searched = TRUE] \in OverlayType
            BY <1>1 DEF OverlayType
        <3>3. ASSUME NEW from \in SUBSET Question
              PROVE  [overlay EXCEPT !.rows = rows, !.cursor = next, !.error = FALSE,
                                     !.loading = FALSE, !.searched = TRUE, !.from = from] \in OverlayType
            BY <1>1 DEF OverlayType
        <3>4. QED
            BY <1>1, <3>1, <3>2, <3>3, Zenon
    <2>2. CASE MoreLoaded(i)
        <3>1. overlay.rows \in Seq(Tasks) /\ overlay.from \subseteq Question
            BY <1>1 DEF OverlayType
        <3>2. PICK all \in Seq(Tasks) : all = overlay.rows \o rows
            BY <3>1, ConcatProperties
        <3>3. \/ overlay' = overlay
              \/ overlay' = [overlay EXCEPT !.rows = all, !.cursor = next, !.more = FALSE,
                                            !.from = overlay.from \cup {c}]
              \/ overlay' = [overlay EXCEPT !.error = TRUE, !.more = FALSE]
            <4>1. overlay' =
                    IF ~flight[i].alive THEN overlay
                    ELSE IF Ok(i)
                    THEN [overlay EXCEPT !.rows = @ \o flight[i].page.rows, !.cursor = flight[i].page.next,
                                         !.more = FALSE, !.from = @ \cup {flight[i].c}]
                    ELSE [overlay EXCEPT !.error = TRUE, !.more = FALSE]
                BY <2>2, Zenon DEF MoreLoaded
            <4>2. QED
                BY <1>4, <3>2, <4>1
        <3>4. /\ overlay.from \cup {c} \in SUBSET Question
              /\ [overlay EXCEPT !.error = TRUE, !.more = FALSE] \in OverlayType
            BY <1>1, <3>1 DEF OverlayType
        <3>5. ASSUME NEW from \in SUBSET Question
              PROVE  [overlay EXCEPT !.rows = all, !.cursor = next, !.more = FALSE, !.from = from] \in OverlayType
            BY <1>1 DEF OverlayType
        <3>6. QED
            BY <1>1, <3>3, <3>4, <3>5, Zenon
    <2>3. QED
        BY <2>1, <2>2
<1>6. CallsTyped' /\ \A j \in Slots : Heeded(j)' => flight'[j] = flight[j]
    <2>1. CallsTyped' /\ flight'[i] = Free /\ \A j \in Slots : j # i => flight'[j] = flight[j]
        BY <1>1, <1>2, LandedCall
    <2>2. QED
        BY <2>1 DEF Heeded, Free
<1>7. QED
    BY <1>1, <1>2, <1>5, <1>6, PagesStay

-----------------------------------------------------------------------------
(* The server, the tasks and the time.                                     *)

\* One call is answered, or fails; the others stay.
LEMMA AnsweredPages ==
    ASSUME StoredOK, TabOK, NEW i \in Slots, Serve(i) \/ Fault(i)
    PROVE  TabOK'
<1>1. CallsTyped /\ changes \in 0..MaxChanges /\ MaxChanges \in Nat /\ screen \in ScreenType
    BY LimitsAssumption DEF TabOK, Typed
<1>2. flight[i].state = "sent" /\ UNCHANGED <<task, now, overlay, screen, seed, acts>>
    BY DEF Serve, Fault
<1>3. changes' \in 0..MaxChanges
    BY <1>1 DEF Serve, Fault, Happens
<1>4. flight[i] \in CallType /\ SortFits(flight[i].sort, flight[i].c) /\ flight[i] # Free
    BY <1>1, <1>2 DEF CallsTyped, Free
<1>5. PICK v \in Views : screen.view = v
    BY <1>1 DEF ScreenType
<1>6. Paged(v) /\ Matching(v)' = Matching(v) /\ Keys(v)' = Keys(v)
    BY <1>2, <1>5, SameTasks DEF TabOK
<1>7. PICK q \in CallType :
        /\ flight' = [flight EXCEPT ![i] = q]
        /\ q.kind = flight[i].kind /\ q.c = flight[i].c /\ q.sort = flight[i].sort /\ q.cursor = flight[i].cursor
        /\ q.alive = flight[i].alive /\ q.crossing = flight[i].crossing
        /\ q.state = "ok" => q.page \in Pages(q.c, q.sort, q.cursor)
    <2>1. CASE \E page \in Pages(flight[i].c, flight[i].sort, flight[i].cursor) :
                    flight' = [flight EXCEPT ![i].state = "ok", ![i].page = page]
        <3>1. PICK page \in Pages(flight[i].c, flight[i].sort, flight[i].cursor) :
                    flight' = [flight EXCEPT ![i].state = "ok", ![i].page = page]
            BY <2>1
        <3>2. page \in PageType
            BY <1>4, PagesOK
        <3>3. PICK q : q = [flight[i] EXCEPT !.state = "ok", !.page = page]
            OBVIOUS
        <3>4. /\ q \in CallType /\ q.page = page
              /\ q.kind = flight[i].kind /\ q.c = flight[i].c /\ q.sort = flight[i].sort /\ q.cursor = flight[i].cursor
              /\ q.alive = flight[i].alive /\ q.crossing = flight[i].crossing
            BY <1>4, <3>2, <3>3 DEF CallType
        <3>5. flight' = [flight EXCEPT ![i] = q]
            BY <1>1, <3>1, <3>3 DEF CallsTyped
        <3>6. QED
            BY <3>1, <3>4, <3>5
    <2>2. CASE \E state \in {"fail", "unauthenticated"} : flight' = [flight EXCEPT ![i].state = state]
        <3>1. PICK state \in {"fail", "unauthenticated"} : flight' = [flight EXCEPT ![i].state = state]
            BY <2>2
        <3>2. PICK q : q = [flight[i] EXCEPT !.state = state]
            OBVIOUS
        <3>3. /\ q \in CallType /\ q.state # "ok"
              /\ q.kind = flight[i].kind /\ q.c = flight[i].c /\ q.sort = flight[i].sort /\ q.cursor = flight[i].cursor
              /\ q.alive = flight[i].alive /\ q.crossing = flight[i].crossing
            BY <1>4, <3>2 DEF CallType
        <3>4. flight' = [flight EXCEPT ![i] = q]
            BY <1>1, <3>1, <3>2 DEF CallsTyped
        <3>5. QED
            BY <3>3, <3>4
    <2>3. QED
        BY <2>1, <2>2 DEF Serve, Fault
<1>8. flight'[i] = q /\ \A j \in Slots : j # i => flight'[j] = flight[j]
    BY <1>1, <1>7 DEF CallsTyped
<1>9. CallsTyped'
    <2>1. flight' \in [Slots -> CallType \cup {Free}]
        BY <1>1, <1>7 DEF CallsTyped
    <2>2. \A j \in Slots : flight'[j] # Free => SortFits(flight'[j].sort, flight'[j].c)
        BY <1>1, <1>4, <1>7, <1>8 DEF CallsTyped
    <2>3. QED
        BY <2>1, <2>2 DEF CallsTyped
<1>10. Typed'
    BY <1>2, <1>3, <1>9 DEF TabOK, Typed
<1>11. \A j \in Slots : (Heeded(j)' <=> Heeded(j)) /\ (Current(j)' <=> Current(j))
    BY <1>7, <1>8 DEF Heeded, Current
<1>12. FirstOK(seed, v)' /\ ScreenOK(v)' /\ HeededOK'
    <2>1. FirstOK(seed, v)'
        BY <1>2, <1>6 DEF Paged, FirstOK
    <2>2. ScreenOK(v)'
        BY <1>2, <1>6 DEF Paged, ScreenOK, Shown
    <2>3. HeededOK'
        BY <1>2, <1>6, <1>11 DEF Paged, HeededOK
    <2>4. QED
        BY <2>1, <2>2, <2>3
<1>13. ASSUME NEW j \in Slots, Current(j)' PROVE CallOK(j, v)'
    <2>1. CallOK(j, v)
        BY <1>6, <1>11, <1>13 DEF Paged
    <2>2. CASE j # i
        BY <1>2, <1>6, <1>8, <2>1, <2>2 DEF CallOK
    <2>3. CASE j = i
        <3>1. /\ q.c = CriteriaFor(v) /\ q.sort = SortOf(v) /\ q.cursor = screen.cursor /\ screen.cursor # <<>>
            BY <1>7, <2>1, <2>3 DEF CallOK
        <3>2. screen.cursor \in Keyed
            BY <1>1, <3>1 DEF ScreenType, Cursors
        <3>3. q.state = "ok" => Continues(q.page, screen.cursor, screen.kept, Keys(v))
            BY <1>6, <1>7, <3>1, <3>2, NextPageOK DEF Paged, ScreenOK
        <3>4. QED
            BY <1>2, <1>6, <1>8, <2>3, <3>1, <3>3 DEF CallOK
    <2>4. QED
        BY <2>2, <2>3
<1>14. Paged(v)'
    BY <1>12, <1>13 DEF Paged
<1>15. screen'.view = v
    BY <1>2, <1>5
<1>16. QED
    BY <1>10, <1>14, <1>15 DEF TabOK

\* Some tasks are kept no longer; those that are have their keys and match.
LEMMA KeptPages ==
    ASSUME TabOK, NEW v \in Views, screen.view = v, NEW S,
           screen' = StillKept(screen, S), seed' = StillKept(seed, S),
           UNCHANGED <<overlay, flight, acts>>, changes' \in 0..MaxChanges,
           \A t \in S \cap (screen.kept \cup seed.kept) : t \in Matching(v)' /\ Keys(v)'[t] = Keys(v)[t]
    PROVE  TabOK'
<1>1. Typed /\ Paged(v)
    BY DEF TabOK
<1>2. screen \in ScreenType /\ seed \in SeedType
    BY <1>1 DEF Typed
<1>3. /\ screen' \in ScreenType /\ screen'.kept = screen.kept \cap S
      /\ screen'.view = v /\ screen'.first = screen.first /\ screen'.appended = screen.appended
      /\ screen'.cursor = screen.cursor /\ screen'.more = screen.more /\ screen'.crossed = screen.crossed
    BY <1>2 DEF StillKept, ScreenType
<1>4. /\ seed' \in SeedType /\ seed'.kept = seed.kept \cap S
      /\ seed'.rows = seed.rows /\ seed'.next = seed.next
    BY <1>2 DEF StillKept, SeedType
<1>5. Typed'
    BY <1>1, <1>3, <1>4 DEF Typed, CallsTyped
<1>6. FirstOK(seed, v)'
    <2>1. Exact(seed.rows, seed.next, seed.kept \cap S, Keys(v)')
        <3>1. Exact(seed.rows, seed.next, seed.kept, Keys(v))
            BY <1>1 DEF Paged, FirstOK
        <3>2. QED
            BY <3>1, Fewer
    <2>2. Len(seed.rows) <= Limit
        BY <1>1 DEF Typed
    <2>3. seed.kept \cap S \subseteq Matching(v)'
        OBVIOUS
    <2>4. QED
        BY <1>4, <2>1, <2>2, <2>3 DEF FirstOK
<1>7. ScreenOK(v)'
    <2>1. Shown' = Shown
        BY <1>3 DEF Shown
    <2>2. ~screen.crossed => Exact(Shown, screen.cursor, screen.kept \cap S, Keys(v)')
        <3>1. ~screen.crossed => Exact(Shown, screen.cursor, screen.kept, Keys(v))
            BY <1>1 DEF Paged, ScreenOK
        <3>2. QED
            BY <3>1, Fewer
    <2>3. screen.kept \cap S \subseteq Matching(v)'
        OBVIOUS
    <2>4. QED
        BY <1>3, <2>1, <2>2, <2>3 DEF ScreenOK
<1>8. HeededOK'
    BY <1>1, <1>3 DEF Paged, HeededOK, Heeded
<1>9. ASSUME NEW i \in Slots, Current(i)' PROVE CallOK(i, v)'
    <2>1. CallOK(i, v)
        BY <1>1, <1>9 DEF Paged, Current, Heeded
    <2>2. flight[i].state = "ok" => Continues(flight[i].page, screen.cursor, screen.kept \cap S, Keys(v)')
        <3>1. ASSUME flight[i].state = "ok"
              PROVE  Continues(flight[i].page, screen.cursor, screen.kept, Keys(v))
            BY <2>1, <3>1 DEF CallOK
        <3>2. PICK fewer, later : /\ fewer = screen.kept \cap S /\ later = Keys(v)'
                                  /\ fewer \subseteq screen.kept /\ \A t \in fewer : later[t] = Keys(v)[t]
            <4>1. screen.kept \cap S \subseteq screen.kept /\ \A t \in screen.kept \cap S : Keys(v)'[t] = Keys(v)[t]
                OBVIOUS
            <4>2. QED
                BY <4>1, Zenon
        <3>3. ASSUME flight[i].state = "ok"
              PROVE  Continues(flight[i].page, screen.cursor, fewer, later)
            <4>1. PICK page, cursor, kept, key :
                    /\ page = flight[i].page /\ cursor = screen.cursor /\ kept = screen.kept /\ key = Keys(v)
                OBVIOUS
            <4>2. Continues(page, cursor, fewer, later)
                <5>1. Continues(page, cursor, kept, key) /\ fewer \subseteq kept /\ \A t \in fewer : later[t] = key[t]
                    BY <3>1, <3>2, <3>3, <4>1, Zenon
                <5>2. QED
                    BY <5>1, Fewer
            <4>3. QED
                BY <4>1, <4>2
        <3>4. QED
            BY <3>2, <3>3
    <2>3. QED
        BY <1>3, <2>1, <2>2 DEF CallOK
<1>10. QED
    BY <1>3, <1>5, <1>6, <1>7, <1>8, <1>9 DEF TabOK, Paged

\* A task that did not change matches and is ordered as before.
LEMMA SameTask ==
    ASSUME NEW t \in Tasks, task'[t] = task[t], now' = now, NEW v
    PROVE  (t \in Matching(v)' <=> t \in Matching(v)) /\ Keys(v)'[t] = Keys(v)[t]
<1>1. t \in Matching(v)' <=> t \in Matching(v)
    BY DEF Matching, Matches, StatusHolds, DueHolds, Overdue, Dated
<1>2. Keys(v)'[t] = Keys(v)[t]
    BY DEF Keys, Key
<1>3. QED
    BY <1>1, <1>2

\* A task changes: it is kept no longer.
LEMMA ChangedPages ==
    ASSUME StoredOK, TabOK, NEW t \in Tasks, Change(t)
    PROVE  TabOK'
<1>1. screen \in ScreenType /\ seed \in SeedType /\ changes \in 0..MaxChanges /\ MaxChanges \in Nat
    BY LimitsAssumption DEF TabOK, Typed
<1>2. PICK v \in Views : screen.view = v
    BY <1>1 DEF ScreenType
<1>3. /\ screen' = StillKept(screen, Tasks \ {t}) /\ seed' = StillKept(seed, Tasks \ {t})
      /\ UNCHANGED <<now, overlay, flight, acts>> /\ Happens
    BY DEF Change
<1>4. changes' \in 0..MaxChanges
    BY <1>1, <1>3 DEF Happens
<1>5. \A u \in Tasks \ {t} : task'[u] = task[u]
    BY DEF Change, StoredOK
<1>6. screen.kept \cup seed.kept \subseteq Matching(v) /\ Matching(v) \subseteq Tasks
    <2>1. Paged(v)
        BY <1>2 DEF TabOK
    <2>2. QED
        BY <2>1 DEF Paged, ScreenOK, FirstOK, Matching
<1>7. \A u \in (Tasks \ {t}) \cap (screen.kept \cup seed.kept) : u \in Matching(v)' /\ Keys(v)'[u] = Keys(v)[u]
    BY <1>3, <1>5, <1>6, SameTask
<1>8. QED
    BY <1>2, <1>3, <1>4, <1>7, KeptPages

\* Time passes: what matches no more is kept no longer.
LEMMA TickedPages ==
    ASSUME TabOK, Tick
    PROVE  TabOK'
<1>1. screen \in ScreenType /\ seed \in SeedType /\ changes \in 0..MaxChanges
    BY DEF TabOK, Typed
<1>2. PICK v \in Views : screen.view = v
    BY <1>1 DEF ScreenType
<1>3. screen' = StillKept(screen, Matching(v)') /\ seed' = StillKept(seed, Matching(v)')
    <2>1. PICK c : /\ c = CriteriaFor(v)
                   /\ screen' = StillKept(screen, {t \in Tasks : Matches(c, t)'})
                   /\ seed' = StillKept(seed, {t \in Tasks : Matches(c, t)'})
        BY <1>2, Zenon DEF Tick
    <2>2. \A t \in Tasks : Matches(c, t)' <=> Matches(CriteriaFor(v), t)'
        BY <2>1
    <2>3. {t \in Tasks : Matches(c, t)'} = Matching(v)'
        BY <2>2 DEF Matching
    <2>4. QED
        BY <2>1, <2>3
<1>4. UNCHANGED <<task, overlay, flight, acts, changes>>
    BY DEF Tick
<1>5. Keys(v)' = Keys(v)
    BY <1>4 DEF Keys, Key
<1>6. PICK S : S = Matching(v)'
    OBVIOUS
<1>7. QED
    BY <1>1, <1>2, <1>3, <1>4, <1>5, <1>6, KeptPages

-----------------------------------------------------------------------------
(* The steps of the screen.                                                *)

\* A first page, or none, as a view is visited or refreshed.
LEMMA ReadOK ==
    ASSUME StoredOK, NEW v \in Views, NEW page \in FirstPages(v) \cup {FailedPage}
    PROVE  FirstOK(page, v)
BY FirstPageOK, FailedOK

\* A screen is mounted and nothing that was sent before it is listened to.
LEMMA MountedPages ==
    ASSUME StoredOK, TabOK, NEW v \in Views, NEW page, FirstOK(page, v), screen' = Mount(v, page),
           seed' = NoSeed, UNCHANGED <<task, now, changes>>, overlay' \in OverlayType, acts' \in 0..MaxActs,
           CallsTyped', \A i \in Slots : ~Heeded(i)'
    PROVE  TabOK'
<1>1. /\ screen' \in ScreenType /\ Len(screen'.first) <= Limit /\ ScreenOK(v)' /\ screen'.view = v
    BY MountedOK
<1>2. FirstOK(NoSeed, v)
    BY FailedOK DEF NoSeed
<1>3. FirstOK(seed, v)'
    BY <1>2, SameTasks DEF FirstOK
<1>4. seed' \in SeedType /\ Len(seed'.rows) <= Limit
    BY <1>2 DEF FirstOK
<1>5. Typed'
    BY <1>1, <1>4 DEF TabOK, Typed
<1>6. HeededOK' /\ \A i \in Slots : ~Current(i)'
    BY DEF HeededOK, Current
<1>7. QED
    BY <1>1, <1>3, <1>5, <1>6 DEF TabOK, Paged

\* A link to a view.
LEMMA VisitPages ==
    ASSUME StoredOK, TabOK, NEW v \in Views, Visit(v)
    PROVE  TabOK'
<1>1. PICK page \in FirstPages(v) \cup {FailedPage} : screen' = Mount(v, page)
    BY Zenon DEF Visit
<1>2. /\ seed' = NoSeed /\ UNCHANGED <<task, now, overlay, changes>> /\ flight' = Orphaned({"view"}) /\ UserActs
    BY DEF Visit, ScreenOnly
<1>3. overlay \in OverlayType /\ CallsTyped /\ acts \in 0..MaxActs /\ MaxActs \in Nat
    BY LimitsAssumption DEF TabOK, Typed
<1>4. acts' \in 0..MaxActs
    BY <1>2, <1>3 DEF UserActs
<1>5. CallsTyped' /\ \A i \in Slots : ~Heeded(i)'
    <2>1. CallsTyped' /\ \A i \in Slots : (flight'[i] = flight[i] /\ flight[i].kind \notin {"view"}) \/ ~Heeded(i)'
        BY <1>2, <1>3, OrphanedCalls
    <2>2. QED
        BY <2>1 DEF Heeded
<1>6. QED
    BY <1>1, <1>2, <1>3, <1>4, <1>5, ReadOK, MountedPages

\* A session that has ended: the tab starts again.
LEMMA SignInPages ==
    ASSUME StoredOK, TabOK, NEW i \in Slots, SignInAgain(i)
    PROVE  TabOK'
<1>1. screen \in ScreenType /\ overlay \in OverlayType /\ CallsTyped /\ acts \in 0..MaxActs
    BY DEF TabOK, Typed
<1>2. UNCHANGED <<task, now, acts, changes>>
    BY DEF SignInAgain
<1>3. CASE flight[i].kind = "search" /\ Land(i) /\ UNCHANGED <<overlay, screen, seed>>
    <2>1. CallsTyped' /\ flight'[i] = Free /\ \A j \in Slots : j # i => flight'[j] = flight[j]
        BY <1>1, <1>3, LandedCall
    <2>2. \A j \in Slots : Heeded(j)' => flight'[j] = flight[j]
        BY <2>1 DEF Heeded, Free
    <2>3. QED
        BY <1>1, <1>2, <1>3, <2>1, <2>2, PagesStay
<1>4. CASE /\ flight' = [j \in Slots |-> Free] /\ overlay' = Closed /\ seed' = NoSeed
           /\ \E page \in FirstPages(screen.view) : screen' = Mount(screen.view, page)
    <2>1. PICK v \in Views : v = screen.view
        BY <1>1 DEF ScreenType
    <2>2. PICK page \in FirstPages(v) : screen' = Mount(v, page)
        BY <1>4, <2>1
    <2>3. overlay' \in OverlayType
        <3>1. NoQuestion \in Question
            BY DEF NoQuestion, Question
        <3>2. QED
            BY <1>4, <3>1, EmptySeq DEF Closed, OverlayType, Cursors
    <2>4. CallsTyped' /\ \A j \in Slots : ~Heeded(j)'
        BY <1>4 DEF CallsTyped, Heeded, Free
    <2>5. QED
        BY <1>1, <1>2, <1>4, <2>2, <2>3, <2>4, FirstPageOK, MountedPages
<1>5. QED
    BY <1>3, <1>4 DEF SignInAgain

\* The next page is asked for: no request of this screen was listened to.
LEMMA LoadMorePages ==
    ASSUME StoredOK, TabOK, LoadMoreOfView
    PROVE  TabOK'
<1>1. screen \in ScreenType /\ CallsTyped /\ acts \in 0..MaxActs /\ MaxActs \in Nat
    BY LimitsAssumption DEF TabOK, Typed
<1>2. PICK v \in Views : v = screen.view
    BY <1>1 DEF ScreenType
<1>3. /\ screen.cursor # <<>> /\ ~screen.more /\ screen' = [screen EXCEPT !.more = TRUE, !.error = FALSE]
      /\ UNCHANGED <<task, now, overlay, changes, seed>> /\ UserActs
    BY DEF LoadMoreOfView, ScreenOnly
<1>4. Paged(v) /\ Typed /\ Matching(v)' = Matching(v) /\ Keys(v)' = Keys(v)
    BY <1>2, <1>3, SameTasks DEF TabOK
<1>5. \A j \in Slots : ~Heeded(j)
    BY <1>3, <1>4 DEF Paged, HeededOK
<1>6. /\ screen' \in ScreenType /\ screen'.more /\ screen'.view = v /\ screen'.kept = screen.kept
      /\ screen'.first = screen.first /\ screen'.appended = screen.appended
      /\ screen'.cursor = screen.cursor /\ screen'.crossed = screen.crossed
    BY <1>1, <1>2, <1>3 DEF ScreenType
<1>7. PICK c \in Question, sort \in {"newest", "due"}, cursor \in Cursors :
        c = CriteriaFor(v) /\ sort = SortOf(v) /\ cursor = screen.cursor /\ SortFits(sort, c)
    <2>1. screen.cursor \in Cursors
        BY <1>1, Zenon DEF ScreenType
    <2>2. QED
        BY <2>1, ViewOK
<1>8. Send("view", c, sort, cursor, 0)
    BY <1>2, <1>7, Zenon DEF LoadMoreOfView
<1>9. CallsTyped' /\ \E i \in Slots :
        /\ flight[i] = Free
        /\ flight'[i].kind = "view" /\ flight'[i].c = c /\ flight'[i].sort = sort
        /\ flight'[i].cursor = cursor /\ flight'[i].state = "sent"
        /\ \A j \in Slots : j # i => flight'[j] = flight[j]
    BY <1>1, <1>7, <1>8, SentCall
<1>10. PICK i \in Slots : /\ flight'[i].kind = "view" /\ flight'[i].c = c /\ flight'[i].sort = sort
                          /\ flight'[i].cursor = cursor /\ flight'[i].state = "sent"
                          /\ \A j \in Slots : j # i => flight'[j] = flight[j]
    BY <1>9, Zenon
<1>11. acts' \in 0..MaxActs
    BY <1>1, <1>3 DEF UserActs
<1>12. Typed'
    BY <1>3, <1>4, <1>6, <1>9, <1>11 DEF Typed
<1>13. FirstOK(seed, v)'
    BY <1>3, <1>4 DEF Paged, FirstOK
<1>14. ScreenOK(v)'
    BY <1>4, <1>6 DEF Paged, ScreenOK, Shown
<1>15. \A j \in Slots : Heeded(j)' => j = i
    BY <1>5, <1>10 DEF Heeded
<1>16. HeededOK'
    BY <1>6, <1>15 DEF HeededOK
<1>17. \A j \in Slots : Current(j)' => CallOK(j, v)'
    BY <1>3, <1>6, <1>7, <1>10, <1>15 DEF Current, CallOK
<1>18. QED
    BY <1>6, <1>12, <1>13, <1>14, <1>16, <1>17 DEF TabOK, Paged

\* The next page arrives: nothing else is listened to any more.
LEMMA LoadedPages ==
    ASSUME StoredOK, TabOK, NEW i \in Slots, ViewLoaded(i)
    PROVE  TabOK'
<1>1. screen \in ScreenType /\ CallsTyped /\ acts \in 0..MaxActs /\ overlay \in OverlayType
    BY DEF TabOK, Typed
<1>2. flight[i].kind = "view" /\ Land(i) /\ UNCHANGED <<task, now, overlay, changes, seed, acts>>
    BY DEF ViewLoaded, Answered, ScreenOnly
<1>3. CallsTyped' /\ flight'[i] = Free /\ \A j \in Slots : j # i => flight'[j] = flight[j]
    BY <1>1, <1>2, LandedCall
<1>4. CASE ~flight[i].alive
    <2>1. screen' = screen
        BY <1>4 DEF ViewLoaded
    <2>2. \A j \in Slots : Heeded(j)' => flight'[j] = flight[j]
        BY <1>3 DEF Heeded, Free
    <2>3. QED
        BY <1>1, <1>2, <1>3, <2>1, <2>2, PagesStay
<1>5. CASE flight[i].alive
    <2>1. PICK v \in Views : v = screen.view
        BY <1>1 DEF ScreenType
    <2>2. Paged(v) /\ Typed /\ Matching(v)' = Matching(v) /\ Keys(v)' = Keys(v)
        BY <1>2, <2>1, SameTasks DEF TabOK
    <2>3. Heeded(i)
        BY <1>2, <1>5 DEF Heeded
    <2>4. \A j \in Slots : ~Heeded(j)'
        <3>1. \A j \in Slots : Heeded(j) => j = i
            BY <2>2, <2>3 DEF Paged, HeededOK
        <3>2. QED
            BY <1>3, <3>1 DEF Heeded, Free
    <2>5. HeededOK' /\ \A j \in Slots : ~Current(j)'
        BY <2>4 DEF HeededOK, Current
    <2>6. FirstOK(seed, v)'
        BY <1>2, <2>2 DEF Paged, FirstOK
    <2>7. screen' \in ScreenType /\ Len(screen'.first) <= Limit /\ ScreenOK(v)' /\ screen'.view = v
        <3>1. CASE ~Ok(i)
            <4>1. screen' = [screen EXCEPT !.error = TRUE, !.more = FALSE]
                BY <1>5, <3>1 DEF ViewLoaded
            <4>2. /\ screen' \in ScreenType /\ screen'.view = v /\ screen'.kept = screen.kept
                  /\ screen'.first = screen.first /\ screen'.appended = screen.appended
                  /\ screen'.cursor = screen.cursor /\ screen'.crossed = screen.crossed
                BY <1>1, <2>1, <4>1 DEF ScreenType
            <4>3. ScreenOK(v)'
                BY <2>2, <4>2 DEF Paged, ScreenOK, Shown
            <4>4. QED
                BY <2>2, <4>2, <4>3 DEF Typed
        <3>2. CASE Ok(i)
            <4>1. flight[i] \in CallType
                BY <1>1, <1>2 DEF CallsTyped, Free
            <4>2. PICK page \in PageType, crossing \in BOOLEAN :
                    page = flight[i].page /\ (crossing <=> flight[i].crossing)
                BY <4>1 DEF CallType
            <4>3. PICK first \in Seq(Tasks), appended \in Seq(Tasks), rows \in Seq(Tasks), next \in Cursors :
                    first = screen.first /\ appended = screen.appended /\ rows = page.rows /\ next = page.next
                BY <1>1 DEF ScreenType, PageType
            <4>4. PICK longer \in Seq(Tasks) : longer = appended \o rows
                BY ConcatProperties
            <4>5. /\ screen'.view = v /\ screen'.kept = screen.kept /\ screen'.first = first
                  /\ screen'.appended = longer /\ screen'.cursor = next
                  /\ screen'.crossed = (screen.crossed \/ flight[i].crossing) /\ screen' \in ScreenType
                <5>1. screen' = [screen EXCEPT !.appended = longer, !.cursor = next, !.more = FALSE,
                                               !.crossed = screen.crossed \/ flight[i].crossing]
                    <6>1. screen' = [screen EXCEPT !.appended = @ \o flight[i].page.rows, !.cursor = flight[i].page.next,
                                                   !.more = FALSE, !.crossed = @ \/ flight[i].crossing]
                        BY <1>5, <3>2, Zenon DEF ViewLoaded
                    <6>2. QED
                        BY <4>2, <4>3, <4>4, <6>1
                <5>2. PICK crossed \in BOOLEAN : crossed = (screen.crossed \/ flight[i].crossing)
                    <6>1. (screen.crossed \/ flight[i].crossing) \in BOOLEAN
                        OBVIOUS
                    <6>2. QED
                        BY <6>1, Zenon
                <5>3. screen' = [screen EXCEPT !.appended = longer, !.cursor = next, !.more = FALSE, !.crossed = crossed]
                    BY <5>1, <5>2, Zenon
                <5>4. /\ screen'.view = v /\ screen'.kept = screen.kept /\ screen'.first = first
                      /\ screen'.appended = longer /\ screen'.cursor = next
                      /\ screen'.crossed = crossed /\ screen' \in ScreenType
                    BY <1>1, <2>1, <4>3, <5>3 DEF ScreenType
                <5>5. QED
                    BY <5>2, <5>4, Zenon
            <4>6. Shown' = Shown \o rows
                <5>1. (first \o appended) \o rows = first \o (appended \o rows)
                    BY RowsJoin, Zenon
                <5>2. (screen'.first \o screen'.appended) = (screen.first \o screen.appended) \o rows
                    BY <4>3, <4>4, <4>5, <5>1, Zenon
                <5>3. QED
                    BY <5>2, Zenon DEF Shown
            <4>7. ASSUME ~screen.crossed, ~flight[i].crossing
                  PROVE  Exact(Shown \o rows, next, screen.kept, Keys(v))
                <5>1. CallOK(i, v)
                    BY <2>2, <2>3, <4>7 DEF Paged, Current
                <5>2. Continues(page, screen.cursor, screen.kept, Keys(v))
                    BY <3>2, <4>2, <5>1 DEF CallOK, Ok
                <5>3. Exact(Shown, screen.cursor, screen.kept, Keys(v))
                    BY <2>2, <4>7 DEF Paged, ScreenOK
                <5>4. PICK shown \in Seq(Tasks) : shown = Shown
                    <6>1. first \o appended \in Seq(Tasks)
                        BY ConcatProperties
                    <6>2. QED
                        BY <4>3, <6>1 DEF Shown
                <5>5. Exact(shown \o page.rows, page.next, screen.kept, Keys(v))
                    BY <5>2, <5>3, <5>4, Joined, Zenon
                <5>6. QED
                    BY <4>3, <5>4, <5>5
            <4>8. screen'.crossed \/ (~screen.crossed /\ ~flight[i].crossing)
                BY <4>5
            <4>9. ScreenOK(v)'
                BY <2>2, <4>5, <4>6, <4>7, <4>8 DEF Paged, ScreenOK
            <4>10. QED
                BY <2>2, <4>3, <4>5, <4>9 DEF Typed
        <3>3. QED
            BY <3>1, <3>2
    <2>8. Typed'
        BY <1>2, <1>3, <2>2, <2>7 DEF Typed
    <2>9. QED
        BY <2>5, <2>6, <2>7, <2>8 DEF TabOK, Paged
<1>6. QED
    BY <1>4, <1>5

\* A refresh reads the first page.
LEMMA SeedReadPages ==
    ASSUME StoredOK, TabOK, SeedRead
    PROVE  TabOK'
<1>1. screen \in ScreenType /\ CallsTyped /\ acts \in 0..MaxActs /\ MaxActs \in Nat
    BY LimitsAssumption DEF TabOK, Typed
<1>2. PICK v \in Views : v = screen.view
    BY <1>1 DEF ScreenType
<1>3. PICK page \in FirstPages(v) \cup {FailedPage} : seed' = [page EXCEPT !.due = TRUE]
    BY <1>2 DEF SeedRead
<1>4. UNCHANGED <<task, now, overlay, changes, screen, flight>> /\ UserActs
    BY DEF SeedRead, ScreenOnly
<1>5. Paged(v) /\ Typed /\ Matching(v)' = Matching(v) /\ Keys(v)' = Keys(v)
    BY <1>2, <1>4, SameTasks DEF TabOK
<1>6. FirstOK(page, v)
    BY ReadOK
<1>7. /\ seed' \in SeedType /\ seed'.rows = page.rows /\ seed'.next = page.next /\ seed'.kept = page.kept
    BY <1>3, <1>6 DEF FirstOK, SeedType
<1>8. FirstOK(seed, v)'
    BY <1>5, <1>6, <1>7 DEF FirstOK
<1>9. acts' \in 0..MaxActs
    BY <1>1, <1>4 DEF UserActs
<1>10. Typed'
    BY <1>4, <1>5, <1>6, <1>7, <1>9 DEF Typed, FirstOK, CallsTyped
<1>11. ScreenOK(v)'
    BY <1>4, <1>5 DEF Paged, ScreenOK, Shown
<1>12. HeededOK' /\ \A i \in Slots : Current(i)' => CallOK(i, v)'
    BY <1>4, <1>5 DEF Paged, HeededOK, Heeded, Current, CallOK
<1>13. screen'.view = v
    BY <1>2, <1>4
<1>14. QED
    BY <1>8, <1>10, <1>11, <1>12, <1>13 DEF TabOK, Paged

\* It is rendered: what was asked for before is not counted as a page of the new rows.
LEMMA SeedRenderPages ==
    ASSUME StoredOK, TabOK, SeedRender
    PROVE  TabOK'
<1> DEFINE same == seed.ok /\ screen.ok
<1>1. screen \in ScreenType /\ CallsTyped /\ acts \in 0..MaxActs /\ overlay \in OverlayType
    BY DEF TabOK, Typed
<1>2. PICK v \in Views : v = screen.view
    BY <1>1 DEF ScreenType
<1>3. UNCHANGED <<task, now, overlay, changes, acts>> /\ seed' = NoSeed
    BY DEF SeedRender, ScreenOnly
<1>4. Paged(v) /\ Typed /\ Matching(v)' = Matching(v) /\ Keys(v)' = Keys(v)
    BY <1>2, <1>3, SameTasks DEF TabOK
<1>5. FirstOK(seed, v) /\ seed \in SeedType
    BY <1>4 DEF Paged, FirstOK
<1>6. /\ CallsTyped'
      /\ \A i \in Slots : Heeded(i)' => same /\ Heeded(i) /\ flight'[i].crossing
    <2>1. ASSUME NEW i \in Slots
          PROVE  /\ flight'[i] \in CallType \cup {Free}
                 /\ flight'[i] # Free => SortFits(flight'[i].sort, flight'[i].c)
                 /\ Heeded(i)' => same /\ Heeded(i) /\ flight'[i].crossing
        <3>1. flight[i] \in CallType \cup {Free} /\ (flight[i] # Free => SortFits(flight[i].sort, flight[i].c))
            BY <1>1 DEF CallsTyped
        <3>2. CASE flight[i].kind # "view"
            <4>1. flight'[i] = flight[i]
                BY <3>2 DEF SeedRender
            <4>2. QED
                BY <3>1, <3>2, <4>1 DEF Heeded
        <3>3. CASE flight[i].kind = "view"
            <4>1. flight[i] \in CallType /\ flight[i] # Free
                BY <3>1, <3>3 DEF Free
            <4>2. CASE same
                <5>1. flight'[i] = [flight[i] EXCEPT !.crossing = TRUE]
                    BY <3>3, <4>2 DEF SeedRender
                <5>2. /\ flight'[i] \in CallType /\ flight'[i].crossing /\ flight'[i].alive = flight[i].alive
                      /\ flight'[i].sort = flight[i].sort /\ flight'[i].c = flight[i].c
                    BY <4>1, <5>1 DEF CallType
                <5>3. QED
                    BY <3>1, <3>3, <4>1, <4>2, <5>2 DEF Heeded
            <4>3. CASE ~same
                <5>1. flight'[i] = [flight[i] EXCEPT !.alive = FALSE]
                    BY <3>3, <4>3 DEF SeedRender
                <5>2. /\ flight'[i] \in CallType /\ flight'[i].alive = FALSE
                      /\ flight'[i].sort = flight[i].sort /\ flight'[i].c = flight[i].c
                    BY <4>1, <5>1 DEF CallType
                <5>3. QED
                    BY <3>1, <4>1, <5>2 DEF Heeded
            <4>4. QED
                BY <4>2, <4>3
        <3>4. QED
            BY <3>2, <3>3
    <2>2. flight' = [i \in Slots |-> flight'[i]]
        BY DEF SeedRender
    <2>3. flight' \in [Slots -> CallType \cup {Free}]
        BY <2>1, <2>2
    <2>4. QED
        BY <2>1, <2>3 DEF CallsTyped
<1>7. CASE ~same
    <2>1. screen' = Mount(v, seed)
        BY <1>2, <1>7 DEF SeedRender
    <2>2. \A i \in Slots : ~Heeded(i)'
        BY <1>6, <1>7
    <2>3. QED
        BY <1>1, <1>3, <1>5, <1>6, <2>1, <2>2, MountedPages
<1>8. CASE same
    <2>1. screen' = Reseeded(seed)
        BY <1>8 DEF SeedRender
    <2>2. /\ screen'.view = v /\ screen'.kept = seed.kept /\ screen'.first = seed.rows
          /\ screen'.appended = <<>> /\ screen'.cursor = seed.next /\ screen'.more = screen.more
        BY <1>2, <2>1 DEF Reseeded, Mount
    <2>3. <<>> \in Seq(Tasks) /\ seed.rows \in Seq(Tasks) /\ seed.rows \o <<>> = seed.rows
        BY <1>5, EmptySeq, ConcatEmptySeq DEF SeedType
    <2>4. screen' \in ScreenType
        <3>1. screen.more \in BOOLEAN /\ screen.error \in BOOLEAN /\ seed.ok \in BOOLEAN
            BY <1>1, <1>5, Zenon DEF ScreenType, SeedType
        <3>2. PICK more \in BOOLEAN, error \in BOOLEAN, ok \in BOOLEAN :
                more = screen.more /\ error = screen.error /\ ok = seed.ok
            BY <3>1, Zenon
        <3>3. screen' = [view |-> v, ok |-> ok, first |-> seed.rows, appended |-> <<>>, cursor |-> seed.next,
                         more |-> more, error |-> error, kept |-> seed.kept, crossed |-> FALSE]
            <4>1. screen' = [[view |-> v, ok |-> ok, first |-> seed.rows, appended |-> <<>>, cursor |-> seed.next,
                              more |-> FALSE, error |-> FALSE, kept |-> seed.kept, crossed |-> FALSE]
                                EXCEPT !.more = more, !.error = error]
                BY <1>2, <2>1, <3>2, Zenon DEF Reseeded, Mount
            <4>2. QED
                BY <4>1
        <3>4. seed.next \in Cursors /\ seed.kept \in SUBSET Tasks
            BY <1>5, Zenon DEF SeedType
        <3>5. QED
            BY <2>3, <3>3, <3>4 DEF ScreenType
    <2>5. Shown' = seed.rows
        BY <2>2, <2>3 DEF Shown
    <2>6. ScreenOK(v)'
        BY <1>4, <1>5, <2>2, <2>5 DEF ScreenOK, FirstOK
    <2>7. FirstOK(NoSeed, v)
        BY FailedOK DEF NoSeed
    <2>8. FirstOK(seed, v)'
        BY <1>3, <1>4, <2>7 DEF FirstOK
    <2>9. HeededOK'
        BY <1>4, <1>6, <2>2 DEF Paged, HeededOK
    <2>10. \A i \in Slots : ~Current(i)'
        BY <1>6 DEF Current
    <2>11. Typed'
        <3>1. seed' \in SeedType /\ Len(seed'.rows) <= Limit /\ Len(screen'.first) <= Limit
            BY <1>3, <1>5, <2>2, <2>7 DEF FirstOK
        <3>2. QED
            BY <1>3, <1>4, <1>6, <2>4, <3>1 DEF Typed
    <2>12. QED
        BY <2>2, <2>6, <2>8, <2>9, <2>10, <2>11 DEF TabOK, Paged
<1>9. QED
    BY <1>7, <1>8

-----------------------------------------------------------------------------

\* The first render.
LEMMA TabInit ==
    ASSUME Init, StoredOK
    PROVE  TabOK
<1>0. PICK v \in Views : \E page \in FirstPages(v) : screen = Mount(v, page)
    BY Zenon DEF Init
<1>1. PICK page \in FirstPages(v) : screen = Mount(v, page)
    BY <1>0
<1>2. FirstOK(page, v) /\ FirstOK(NoSeed, v)
    BY FirstPageOK, FailedOK DEF NoSeed
<1>3. /\ overlay = Closed /\ seed = NoSeed /\ flight = [i \in Slots |-> Free] /\ acts = 0 /\ changes = 0
    BY DEF Init
<1>4. <<>> \in Seq(Tasks) /\ page.rows \in Seq(Tasks) /\ page.rows \o <<>> = page.rows /\ page \in SeedType
    BY <1>2, EmptySeq, ConcatEmptySeq DEF FirstOK, SeedType
<1>5. /\ screen.first = page.rows /\ screen.appended = <<>> /\ screen.cursor = page.next
      /\ screen.kept = page.kept /\ screen.view = v /\ screen \in ScreenType
    BY <1>1, <1>4 DEF Mount, ScreenType, SeedType
<1>6. Shown = page.rows
    BY <1>4, <1>5 DEF Shown
<1>7. ScreenOK(v)
    BY <1>2, <1>5, <1>6 DEF ScreenOK, FirstOK
<1>8. overlay \in OverlayType
    <2>1. NoQuestion \in Question
        BY DEF NoQuestion, Question
    <2>2. QED
        BY <1>3, <1>4, <2>1 DEF Closed, OverlayType, Cursors
<1>9. CallsTyped /\ \A i \in Slots : ~Heeded(i)
    BY <1>3 DEF CallsTyped, Heeded, Free
<1>10. HeededOK /\ \A i \in Slots : ~Current(i)
    BY <1>9 DEF HeededOK, Current
<1>11. acts \in 0..MaxActs /\ changes \in 0..MaxChanges
    BY <1>3, LimitsAssumption
<1>12. Typed
    BY <1>2, <1>3, <1>5, <1>8, <1>9, <1>11 DEF Typed, FirstOK
<1>13. QED
    BY <1>2, <1>3, <1>5, <1>7, <1>10, <1>12 DEF TabOK, Paged

\* Every step.
LEMMA TabStep == StoredOK /\ TabOK /\ [Next]_vars => TabOK'
<1> SUFFICES ASSUME StoredOK, TabOK, [Next]_vars PROVE TabOK'
    OBVIOUS
<1>1. CASE Open \/ Ask \/ Fire \/ LoadMore \/ Close
    BY <1>1, OverlayPages
<1>2. CASE \E v \in Views : Visit(v)
    BY <1>2, VisitPages
<1>3. CASE LoadMoreOfView
    BY <1>3, LoadMorePages
<1>4. CASE SeedRead
    BY <1>4, SeedReadPages
<1>5. CASE SeedRender
    BY <1>5, SeedRenderPages
<1>6. ASSUME NEW i \in Slots, Serve(i) \/ Fault(i) PROVE TabOK'
    BY <1>6, AnsweredPages
<1>7. ASSUME NEW i \in Slots, Searched(i) \/ MoreLoaded(i) PROVE TabOK'
    BY <1>7, OverlayAnswers
<1>8. ASSUME NEW i \in Slots, ViewLoaded(i) PROVE TabOK'
    BY <1>8, LoadedPages
<1>9. ASSUME NEW i \in Slots, SignInAgain(i) PROVE TabOK'
    BY <1>9, SignInPages
<1>10. ASSUME NEW t \in Tasks, Change(t) PROVE TabOK'
    BY <1>10, ChangedPages
<1>11. CASE Tick
    BY <1>11, TickedPages
<1>12. CASE UNCHANGED vars
    <2>1. UNCHANGED <<task, now, screen, seed, changes>> /\ UNCHANGED <<overlay, flight, acts>>
        BY <1>12 DEF vars
    <2>2. overlay \in OverlayType /\ CallsTyped /\ acts \in 0..MaxActs
        BY DEF TabOK, Typed
    <2>3. CallsTyped'
        BY <2>1, <2>2 DEF CallsTyped
    <2>4. QED
        BY <2>1, <2>2, <2>3, PagesStay
<1>13. QED
    BY <1>1, <1>2, <1>3, <1>4, <1>5, <1>6, <1>7, <1>8, <1>9, <1>10, <1>11, <1>12, Zenon DEF Next

\* The invariant holds in every reachable state.
LEMMA TabInvariant == Spec => [](StoredOK /\ TabOK)
<1>1. Spec => []StoredOK
    BY StoredInvariant
<1>2. Init /\ StoredOK => TabOK
    BY TabInit
<1>3. StoredOK /\ TabOK /\ [Next]_vars => TabOK'
    BY TabStep
<1>4. QED
    BY <1>1, <1>2, <1>3, PTL DEF Spec

\* The tasks, the overlay, the screen and every page are well formed, and a page has at
\* most Limit rows (TypeOK).
THEOREM TypeCorrect == Spec => []TypeOK
<1>1. StoredOK /\ TabOK => TypeOK
    <2> SUFFICES ASSUME StoredOK, TabOK PROVE TypeOK
        OBVIOUS
    <2>1. overlay \in OverlayType /\ screen \in ScreenType /\ seed \in SeedType /\ Typed /\ CallsTyped
        BY DEF TabOK, Typed
    <2>2. /\ overlay.asked \in Question /\ overlay.from \subseteq Question /\ overlay.id \in Nat
          /\ overlay.rows \in Seq(Tasks)
        BY <2>1 DEF OverlayType
    <2>3. \A f \in {"open", "timer", "loading", "more", "error", "searched"} : overlay[f] \in BOOLEAN
        BY <2>1, Zenon DEF OverlayType
    <2>4. screen.first \in Seq(Tasks) /\ screen.appended \in Seq(Tasks) /\ screen.kept \subseteq Tasks
        BY <2>1 DEF ScreenType
    <2>5. seed.kept \subseteq Tasks
        BY <2>1 DEF SeedType
    <2>6. \A i \in Slots : Idle(i) \/ flight[i].page.rows \in Seq(Tasks)
        BY <2>1 DEF CallsTyped, CallType, PageType, Idle, Free
    <2>7. QED
        BY <2>1, <2>2, <2>3, <2>4, <2>5, <2>6 DEF TypeOK, StoredOK, Typed
<1>2. QED
    BY <1>1, TabInvariant, PTL

\* However tasks change, days pass and pages overlap, for every page size: what has been in
\* a view since its first page is shown once when the pages have reached it, and is still
\* to come when they have not (PagesExact).
THEOREM PagingIsExact == Spec => []PagesExact
<1>1. StoredOK /\ TabOK => PagesExact
    <2> SUFFICES ASSUME StoredOK, TabOK, ~screen.crossed, NEW t \in screen.kept
                 PROVE  Cardinality({k \in DOMAIN Shown : Shown[k] = t})
                            = IF screen.cursor = <<>> \/ ~Precedes(screen.cursor, Key(SortOf(screen.view), t))
                              THEN 1 ELSE 0
        BY DEF PagesExact
    <2>1. screen \in ScreenType
        BY DEF TabOK, Typed
    <2>2. PICK v \in Views : v = screen.view
        BY <2>1 DEF ScreenType
    <2>3. Exact(Shown, screen.cursor, screen.kept, Keys(v))
        BY <2>2 DEF TabOK, Paged, ScreenOK
    <2>4. t \in Tasks
        BY <2>1 DEF ScreenType
    <2>5. Keys(v)[t] = Key(SortOf(screen.view), t)
        BY <2>2, <2>4 DEF Keys
    <2>6. t \in ToSet(Shown) <=> Past(screen.cursor, Keys(v)[t])
        BY <2>3 DEF Exact
    <2>7. CASE t \in ToSet(Shown)
        <3>1. PICK k \in DOMAIN Shown : Shown[k] = t
            BY <2>7 DEF ToSet
        <3>2. {l \in DOMAIN Shown : Shown[l] = t} = {k}
            BY <2>3, <3>1 DEF Exact, Once
        <3>3. Cardinality({k}) = 1
            BY FS_Singleton
        <3>4. QED
            BY <2>5, <2>6, <2>7, <3>2, <3>3 DEF Past
    <2>8. CASE t \notin ToSet(Shown)
        <3>1. {l \in DOMAIN Shown : Shown[l] = t} = {}
            BY <2>8 DEF ToSet
        <3>2. QED
            BY <2>5, <2>6, <2>8, <3>1, FS_EmptySet DEF Past
    <2>9. QED
        BY <2>7, <2>8
<1>2. QED
    BY <1>1, TabInvariant, PTL
=============================================================================
