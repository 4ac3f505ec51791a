--------------------------- MODULE TaskListsProofs ---------------------------
(***************************************************************************)
(* Safety of the lists and tasks for every number of lists, tasks and      *)
(* requests, and every retention window.                                   *)
(***************************************************************************)
EXTENDS TaskLists, FiniteSetTheorems, TLAPS

-----------------------------------------------------------------------------
(* Type correctness.                                                       *)

RowTypes ==
    /\ row \in [Tasks -> {"new", "inserting", "live", "gone"}]
    /\ home \in [Tasks -> Lists]
    /\ position \in [Tasks -> Nat]
    /\ completed \in [Tasks -> BOOLEAN]
    /\ deletedFor \in [Tasks -> 0..(Retention + 1) \cup {Null}]

HandlerTypes ==
    /\ step \in [Handlers -> Steps]
    /\ onList \in [Handlers -> Lists \cup {NoList}]
    /\ \A h \in Handlers : step[h] \notin {"idle", "exporting"} => onList[h] \in Lists
    /\ making \in [Handlers -> Tasks \cup {NoTask}]
    /\ number \in [Handlers -> Nat]
    /\ DOMAIN order = Handlers /\ \A h \in Handlers : IsOrder(order[h])
    /\ snapshot \in [Handlers -> [lists : SUBSET Lists, tasks : SUBSET Tasks]]

OtherTypes ==
    /\ account \in {"live", "gone"}
    /\ list \in [Lists -> {"new", "live", "gone"}]
    /\ known \in [Tasks -> SUBSET Tasks]
    /\ DOMAIN lastOrder = Lists /\ \A l \in Lists : IsOrder(lastOrder[l])

\* The type invariant, in its parts.
LEMMA TypeParts == TypeOK <=> RowTypes /\ HandlerTypes /\ OtherTypes
BY DEF TypeOK, RowTypes, HandlerTypes, Steps, OtherTypes

\* The empty vector is a vector.
LEMMA NoOrderType == IsOrder(NoOrder) /\ DOMAIN NoOrder = {}
BY DEF NoOrder, IsOrder

\* How many tasks a set of them has is a number.
LEMMA CountType ==
    ASSUME NEW S \in SUBSET Tasks
    PROVE  Cardinality(S) \in Nat
<1>1. IsFiniteSet(S)
  BY TasksAssumption, FS_Subset
<1>2. QED
  BY <1>1, FS_CardinalityType

\* The number an INSERT computes is a position behind every row it saw.
LEMMA NextPositionType ==
    ASSUME TypeOK, NEW S \in SUBSET Tasks, NEW n \in NextPosition(S)
    PROVE  n \in Nat /\ \A t \in S : position[t] < n
BY DEF NextPosition, TypeOK

\* A handler that is done is well formed.
LEMMA FinishType ==
    ASSUME HandlerTypes, NEW h \in Handlers, Finish(h)
    PROVE  HandlerTypes'
<1>1. \A g \in Handlers : IsOrder(order'[g])
  <2> SUFFICES ASSUME NEW g \in Handlers PROVE IsOrder(order'[g])
    OBVIOUS
  <2>1. order'[g] = IF g = h THEN NoOrder ELSE order[g]
    BY DEF Finish, HandlerTypes, Steps
  <2>2. QED
    BY <2>1, NoOrderType DEF HandlerTypes
<1>2. DOMAIN order' = Handlers
  BY DEF Finish, HandlerTypes, Steps
<1>3. snapshot' \in [Handlers -> [lists : SUBSET Lists, tasks : SUBSET Tasks]]
  BY DEF Finish, HandlerTypes, NoSnapshot
<1>4. /\ step' \in [Handlers -> Steps]
      /\ onList' \in [Handlers -> Lists \cup {NoList}]
      /\ making' \in [Handlers -> Tasks \cup {NoTask}]
      /\ number' \in [Handlers -> Nat]
      /\ \A g \in Handlers : step'[g] \notin {"idle", "exporting"} => onList'[g] \in Lists
  BY DEF Finish, HandlerTypes, Steps
<1>5. \A g \in Handlers : IsOrder(order[g])'
  BY <1>1 DEF IsOrder
<1>6. QED
  BY <1>2, <1>3, <1>4, <1>5 DEF HandlerTypes

\* Rows that are removed are well formed.
LEMMA RemoveType ==
    ASSUME RowTypes, NEW S, Remove(S)
    PROVE  RowTypes'
BY DEF RowTypes, Remove

\* The initial state is well typed.
LEMMA TypeInit == Init => TypeOK
<1> SUFFICES ASSUME Init PROVE TypeOK
  OBVIOUS
<1>1. RowTypes
  BY ListsAssumption, LimitsAssumption DEF Init, RowTypes
<1>2. HandlerTypes
  BY NoOrderType DEF Init, HandlerTypes, Steps, NoSnapshot
<1>3. OtherTypes
  BY NoOrderType DEF Init, OtherTypes
<1>4. QED
  BY <1>1, <1>2, <1>3, TypeParts

\* Every step keeps the types.
LEMMA TypeStep == TypeOK /\ [Next]_vars => TypeOK'
<1> SUFFICES ASSUME RowTypes, HandlerTypes, OtherTypes, TypeOK, [Next]_vars
             PROVE  RowTypes' /\ HandlerTypes' /\ OtherTypes'
  BY TypeParts, PTL
<1>1. ASSUME NEW l \in Lists, CreateList(l)
      PROVE  RowTypes' /\ HandlerTypes' /\ OtherTypes'
  BY <1>1 DEF CreateList, RowTypes, HandlerTypes, Steps, OtherTypes, taskVars, handlerVars, IsOrder
<1>2. ASSUME NEW h \in Handlers, NEW l \in Lists, DeleteCheck(h, l)
      PROVE  RowTypes' /\ HandlerTypes' /\ OtherTypes'
  BY <1>2 DEF DeleteCheck, Begin, RowTypes, HandlerTypes, Steps, OtherTypes, taskVars, IsOrder
<1>3. ASSUME NEW h \in Handlers, DeleteCount(h)
      PROVE  RowTypes' /\ HandlerTypes' /\ OtherTypes'
  <2>1. Cardinality(RowsOf(onList[h])) \in Nat
    BY CountType DEF RowsOf
  <2>2. QED
    BY <1>3, <2>1 DEF DeleteCount, RowTypes, HandlerTypes, Steps, OtherTypes, taskVars, IsOrder
<1>4. ASSUME NEW h \in Handlers, DeleteList(h)
      PROVE  RowTypes' /\ HandlerTypes' /\ OtherTypes'
  <2>1. RowTypes' /\ HandlerTypes'
    BY <1>4, RemoveType, FinishType DEF DeleteList
  <2>2. OtherTypes'
    BY <1>4 DEF DeleteList, OtherTypes, IsOrder
  <2>3. QED
    BY <2>1, <2>2
<1>5. ASSUME DeleteAccount
      PROVE  RowTypes' /\ HandlerTypes' /\ OtherTypes'
  <2>1. RowTypes'
    BY <1>5, RemoveType DEF DeleteAccount
  <2>2. HandlerTypes' /\ OtherTypes'
    BY <1>5 DEF DeleteAccount, HandlerTypes, OtherTypes, handlerVars, IsOrder
  <2>3. QED
    BY <2>1, <2>2
<1>6. ASSUME NEW h \in Handlers, NEW l \in Lists, CreateCheck(h, l)
      PROVE  RowTypes' /\ HandlerTypes' /\ OtherTypes'
  BY <1>6 DEF CreateCheck, Begin, RowTypes, HandlerTypes, Steps, OtherTypes, taskVars, IsOrder
<1>7. ASSUME NEW h \in Handlers, NEW t \in Tasks, InsertStart(h, t)
      PROVE  RowTypes' /\ HandlerTypes' /\ OtherTypes'
  <2>1. RowsOf(onList[h]) \in SUBSET Tasks
    BY DEF RowsOf
  <2>2. PICK n \in NextPosition(MaxOver(onList[h])) : number' = [number EXCEPT ![h] = n]
    BY <1>7 DEF InsertStart
  <2>3. n \in Nat
    BY <2>1, <2>2, NextPositionType DEF MaxOver
  <2>4. onList[h] \in Lists
    BY <1>7 DEF InsertStart, HandlerTypes
  <2>5. QED
    BY <1>7, <2>1, <2>2, <2>3, <2>4 DEF InsertStart, RowTypes, HandlerTypes, Steps, OtherTypes, IsOrder
<1>8. ASSUME NEW h \in Handlers, InsertCommit(h)
      PROVE  RowTypes' /\ HandlerTypes' /\ OtherTypes'
  <2>1. HandlerTypes'
    BY <1>8, FinishType DEF InsertCommit
  <2>2. RowTypes' /\ OtherTypes'
    BY <1>8 DEF InsertCommit, RowTypes, HandlerTypes, Steps, OtherTypes, IsOrder
  <2>3. QED
    BY <2>1, <2>2
<1>9. ASSUME NEW h \in Handlers, NEW l \in Lists, ReorderCheck(h, l)
      PROVE  RowTypes' /\ HandlerTypes' /\ OtherTypes'
  <2> DEFINE A == ActiveOf(l)
  <2>1. PICK o \in Injection(A, 0..(Cardinality(A) - 1)) : order' = [order EXCEPT ![h] = o]
    BY <1>9 DEF ReorderCheck
  <2>2. A \in SUBSET Tasks /\ Cardinality(A) \in Nat
    BY CountType DEF ActiveOf, RowsOf
  <2>3. o \in [A -> 0..(Cardinality(A) - 1)]
    BY <2>1 DEF Injection
  <2> HIDE DEF A
  <2>4. IsOrder(o)
    BY <2>2, <2>3 DEF IsOrder
  <2>5. DOMAIN order' = Handlers /\ \A g \in Handlers : order'[g] = IF g = h THEN o ELSE order[g]
    BY <2>1 DEF HandlerTypes
  <2>6. \A g \in Handlers : IsOrder(order'[g])
    BY <2>4, <2>5 DEF HandlerTypes
  <2>7. \A g \in Handlers : IsOrder(order[g])'
    BY <2>6 DEF IsOrder
  <2>8. QED
    BY <1>9, <2>5, <2>7 DEF ReorderCheck, Begin, RowTypes, HandlerTypes, Steps, OtherTypes, taskVars, IsOrder
<1>10. ASSUME NEW h \in Handlers, SetPositions(h)
       PROVE  RowTypes' /\ HandlerTypes' /\ OtherTypes'
  BY <1>10 DEF SetPositions, RowTypes, HandlerTypes, Steps, OtherTypes, taskVars, IsOrder
<1>11. ASSUME NEW h \in Handlers, CommitOrder(h)
       PROVE  RowTypes' /\ HandlerTypes' /\ OtherTypes'
  <2>1. HandlerTypes'
    BY <1>11, FinishType DEF CommitOrder
  <2>2. IsOrder(order[h])
    BY DEF HandlerTypes
  <2>3. \A t \in Renumbered(h) : order[h][t] \in Nat
    BY <2>2 DEF IsOrder, Renumbered
  <2>4. RowTypes'
    BY <1>11, <2>3 DEF CommitOrder, RowTypes
  <2>5. DOMAIN lastOrder' = Lists
    BY <1>11 DEF CommitOrder, OtherTypes
  <2>6. \A l \in Lists : IsOrder(lastOrder[l])'
    <3> SUFFICES ASSUME NEW l \in Lists PROVE IsOrder(lastOrder'[l])
      BY DEF IsOrder
    <3>1. lastOrder'[l] = IF l = onList[h] THEN order[h] ELSE lastOrder[l]
      BY <1>11 DEF CommitOrder, OtherTypes
    <3>2. QED
      BY <2>2, <3>1 DEF OtherTypes
  <2>7. OtherTypes'
    BY <1>11, <2>5, <2>6 DEF CommitOrder, OtherTypes
  <2>8. QED
    BY <2>1, <2>4, <2>7
<1>12. ASSUME NEW t \in Tasks, NEW c \in BOOLEAN, SetCompletion(t, c)
       PROVE  RowTypes' /\ HandlerTypes' /\ OtherTypes'
  BY <1>12 DEF SetCompletion, RowTypes, HandlerTypes, Steps, OtherTypes, handlerVars, IsOrder
<1>13. ASSUME NEW t \in Tasks, SoftDelete(t)
       PROVE  RowTypes' /\ HandlerTypes' /\ OtherTypes'
  BY <1>13, LimitsAssumption
     DEF SoftDelete, Stamped, RowTypes, HandlerTypes, Steps, OtherTypes, handlerVars, IsOrder
<1>14. ASSUME NEW t \in Tasks, Restore(t)
       PROVE  RowTypes' /\ HandlerTypes' /\ OtherTypes'
  BY <1>14 DEF Restore, RowTypes, HandlerTypes, Steps, OtherTypes, handlerVars, IsOrder
<1>15. ASSUME Purge
       PROVE  RowTypes' /\ HandlerTypes' /\ OtherTypes'
  <2>1. RowTypes'
    BY <1>15, RemoveType DEF Purge
  <2>2. HandlerTypes' /\ OtherTypes'
    BY <1>15 DEF Purge, HandlerTypes, OtherTypes, handlerVars, IsOrder
  <2>3. QED
    BY <2>1, <2>2
<1>16. ASSUME Tick
       PROVE  RowTypes' /\ HandlerTypes' /\ OtherTypes'
  <2>1. \A t \in Tasks : Ticks(t) => deletedFor[t] + 1 \in 0..(Retention + 1)
    BY LimitsAssumption, TasksAssumption DEF Ticks, RowTypes
  <2>2. RowTypes'
    BY <1>16, <2>1 DEF Tick, RowTypes
  <2>3. HandlerTypes' /\ OtherTypes'
    BY <1>16 DEF Tick, HandlerTypes, OtherTypes, handlerVars, IsOrder
  <2>4. QED
    BY <2>2, <2>3
<1>17. ASSUME NEW h \in Handlers, ExportStart(h)
       PROVE  RowTypes' /\ HandlerTypes' /\ OtherTypes'
  BY <1>17 DEF ExportStart, RowTypes, HandlerTypes, Steps, OtherTypes, taskVars, IsOrder
<1>18. ASSUME NEW h \in Handlers, ExportEnd(h)
       PROVE  RowTypes' /\ HandlerTypes' /\ OtherTypes'
  <2>1. HandlerTypes'
    BY <1>18, FinishType DEF ExportEnd
  <2>2. QED
    BY <1>18, <2>1 DEF ExportEnd, RowTypes, OtherTypes, taskVars, IsOrder
<1>19. ASSUME NEW h \in Handlers, Fail(h)
       PROVE  RowTypes' /\ HandlerTypes' /\ OtherTypes'
  <2>1. HandlerTypes'
    BY <1>19, FinishType DEF Fail
  <2>2. QED
    BY <1>19, <2>1 DEF Fail, RowTypes, OtherTypes, IsOrder
<1>20. ASSUME UNCHANGED vars
       PROVE  RowTypes' /\ HandlerTypes' /\ OtherTypes'
  BY <1>20 DEF vars, taskVars, handlerVars, RowTypes, HandlerTypes, Steps, OtherTypes, IsOrder
<1>21. QED
  BY <1>1, <1>2, <1>3, <1>4, <1>5, <1>6, <1>7, <1>8, <1>9, <1>10, <1>11, <1>12,
     <1>13, <1>14, <1>15, <1>16, <1>17, <1>18, <1>19, <1>20 DEF Next

\* Every variable keeps its type: in particular the first task of a list gets a
\* position although MAX finds none.
THEOREM TypeCorrect == Spec => []TypeOK
<1>1. Init => TypeOK
  BY TypeInit
<1>2. TypeOK /\ [Next]_vars => TypeOK'
  BY TypeStep
<1>3. QED
  BY <1>1, <1>2, PTL DEF Spec

-----------------------------------------------------------------------------
(* The inductive invariant.                                                *)

\* A row an INSERT has committed; it may have been deleted since.
Stored(t) == row[t] \in {"live", "gone"}

\* A row in flight is the row of one handler, which knows its list.
Inserts(h, t) ==
    /\ t \in Tasks
    /\ row[t] = "inserting"
    /\ home[t] = onList[h]

InsertInv ==
    /\ \A h \in Handlers : IF step[h] = "inserting" THEN Inserts(h, making[h]) ELSE making[h] = NoTask
    /\ \A g, h \in Handlers : step[g] = "inserting" /\ step[h] = "inserting" /\ making[g] = making[h] => g = h

\* The default list passes no check of a deletion.
DefaultInv == \A h \in Handlers : step[h] \in {"deleting", "counted"} => onList[h] # Inbox

\* A vector names stored rows of its list, and the rows still live have the
\* place it gave them.
OrderInv ==
    /\ \A h \in Handlers : step[h] \in {"reordering", "written"} =>
        \A t \in DOMAIN order[h] : Stored(t) /\ home[t] = onList[h]
    /\ \A l \in Lists : \A t \in DOMAIN lastOrder[l] :
        /\ Stored(t) /\ home[t] = l
        /\ row[t] = "live" => position[t] = lastOrder[l][t]

\* A snapshot is closed under the foreign key, and its tasks do not move.
SnapshotInv ==
    \A h \in Handlers : \A t \in snapshot[h].tasks :
        Stored(t) /\ home[t] \in snapshot[h].lists

\* What an INSERT saw stands before the number it computed.
KnownInv ==
    \A t \in Tasks : \A s \in known[t] :
        /\ Stored(s) /\ home[s] = home[t]
        /\ row[s] = "live" /\ row[t] = "live" => position[s] < position[t]
        /\ \A h \in Handlers :
            row[s] = "live" /\ step[h] = "inserting" /\ making[h] = t => position[s] < number[h]

IInv ==
    /\ TypeOK
    /\ DefaultListKept /\ TasksHaveHomes
    /\ InsertInv /\ DefaultInv /\ OrderInv /\ SnapshotInv /\ KnownInv

-----------------------------------------------------------------------------
(* What the parts of the actions do.                                       *)

\* What a handler that is done leaves behind.
LEMMA FinishFacts ==
    ASSUME TypeOK, NEW h \in Handlers, Finish(h)
    PROVE  \A g \in Handlers :
            /\ step'[g] = IF g = h THEN "idle" ELSE step[g]
            /\ onList'[g] = IF g = h THEN NoList ELSE onList[g]
            /\ making'[g] = IF g = h THEN NoTask ELSE making[g]
            /\ number'[g] = IF g = h THEN 0 ELSE number[g]
            /\ order'[g] = IF g = h THEN NoOrder ELSE order[g]
            /\ snapshot'[g] = IF g = h THEN NoSnapshot ELSE snapshot[g]
BY DEF TypeOK, Finish

\* What is left of the rows that are removed.
LEMMA RemoveFacts ==
    ASSUME TypeOK, NEW S, Remove(S)
    PROVE  /\ home' = home
           /\ \A t \in Tasks :
                /\ row'[t] = IF t \in S THEN "gone" ELSE row[t]
                /\ position'[t] = IF t \in S THEN 0 ELSE position[t]
BY DEF TypeOK, Remove

\* The types the steps below use.
LEMMA Types ==
    ASSUME TypeOK
    PROVE  /\ row \in [Tasks -> {"new", "inserting", "live", "gone"}]
           /\ home \in [Tasks -> Lists]
           /\ list \in [Lists -> {"new", "live", "gone"}]
           /\ step \in [Handlers -> Steps]
           /\ onList \in [Handlers -> Lists \cup {NoList}]
           /\ making \in [Handlers -> Tasks \cup {NoTask}]
           /\ \A h \in Handlers : step[h] \notin {"idle", "exporting"} => onList[h] \in Lists
BY DEF TypeOK

\* The default list stays while the account does, and no row loses its list.
LEMMA HomesStep ==
    ASSUME IInv, [Next]_vars
    PROVE  DefaultListKept' /\ TasksHaveHomes'
<1> USE DEF IInv, TypeOK, Steps, DefaultListKept, TasksHaveHomes, InsertInv, Inserts, DefaultInv
<1>1. ASSUME NEW l \in Lists, CreateList(l) PROVE DefaultListKept' /\ TasksHaveHomes'
  BY <1>1 DEF CreateList, taskVars, handlerVars
<1>2. ASSUME NEW h \in Handlers, NEW l \in Lists, DeleteCheck(h, l) PROVE DefaultListKept' /\ TasksHaveHomes'
  BY <1>2 DEF DeleteCheck, Begin, taskVars, handlerVars
<1>3. ASSUME NEW h \in Handlers, DeleteCount(h) PROVE DefaultListKept' /\ TasksHaveHomes'
  BY <1>3 DEF DeleteCount, taskVars, handlerVars
<1>4. ASSUME NEW h \in Handlers, DeleteList(h) PROVE DefaultListKept' /\ TasksHaveHomes'
  <2>1. onList[h] \in Lists /\ onList[h] # Inbox
    BY <1>4 DEF DeleteList
  <2>2. /\ home' = home /\ account' = account
        /\ \A l \in Lists : list'[l] = IF l = onList[h] THEN "gone" ELSE list[l]
        /\ \A t \in Tasks : row'[t] = IF t \in RowsOf(onList[h]) THEN "gone" ELSE row[t]
    BY <1>4, RemoveFacts DEF DeleteList, Cascade
  <2>3. \A t \in Tasks : home[t] \in Lists
    OBVIOUS
  <2>4. QED
    BY <2>1, <2>2, <2>3, ListsAssumption DEF RowsOf
<1>5. ASSUME DeleteAccount PROVE DefaultListKept' /\ TasksHaveHomes'
  <2>1. /\ account' = "gone" /\ home' = home
        /\ \A t \in Tasks : row'[t] = IF t \in {u \in Tasks : row[u] = "live"} THEN "gone" ELSE row[t]
    BY <1>5, RemoveFacts DEF DeleteAccount
  <2>2. \A t \in Tasks : row'[t] # "live"
    BY <2>1
  <2>3. QED
    BY <2>1, <2>2
<1>6. ASSUME NEW h \in Handlers, NEW l \in Lists, CreateCheck(h, l) PROVE DefaultListKept' /\ TasksHaveHomes'
  BY <1>6 DEF CreateCheck, Begin, taskVars, handlerVars
<1>7. ASSUME NEW h \in Handlers, NEW t \in Tasks, InsertStart(h, t) PROVE DefaultListKept' /\ TasksHaveHomes'
  BY <1>7 DEF InsertStart, taskVars, handlerVars
<1>8. ASSUME NEW h \in Handlers, InsertCommit(h) PROVE DefaultListKept' /\ TasksHaveHomes'
  BY <1>8, FinishFacts DEF InsertCommit, ParentExists, taskVars, handlerVars
<1>9. ASSUME NEW h \in Handlers, NEW l \in Lists, ReorderCheck(h, l) PROVE DefaultListKept' /\ TasksHaveHomes'
  BY <1>9 DEF ReorderCheck, Begin, taskVars, handlerVars
<1>10. ASSUME NEW h \in Handlers, SetPositions(h) PROVE DefaultListKept' /\ TasksHaveHomes'
  BY <1>10 DEF SetPositions, taskVars, handlerVars
<1>11. ASSUME NEW h \in Handlers, CommitOrder(h) PROVE DefaultListKept' /\ TasksHaveHomes'
  BY <1>11, FinishFacts DEF CommitOrder, Renumbered, RowsOf, taskVars, handlerVars
<1>12. ASSUME NEW t \in Tasks, NEW c \in BOOLEAN, SetCompletion(t, c) PROVE DefaultListKept' /\ TasksHaveHomes'
  BY <1>12 DEF SetCompletion, taskVars, handlerVars
<1>13. ASSUME NEW t \in Tasks, SoftDelete(t) PROVE DefaultListKept' /\ TasksHaveHomes'
  BY <1>13 DEF SoftDelete, taskVars, handlerVars
<1>14. ASSUME NEW t \in Tasks, Restore(t) PROVE DefaultListKept' /\ TasksHaveHomes'
  BY <1>14 DEF Restore, taskVars, handlerVars
<1>15. ASSUME Purge PROVE DefaultListKept' /\ TasksHaveHomes'
  BY <1>15, RemoveFacts DEF Purge, taskVars, handlerVars
<1>16. ASSUME Tick PROVE DefaultListKept' /\ TasksHaveHomes'
  BY <1>16 DEF Tick, taskVars, handlerVars
<1>17. ASSUME NEW h \in Handlers, ExportStart(h) PROVE DefaultListKept' /\ TasksHaveHomes'
  BY <1>17 DEF ExportStart, taskVars, handlerVars
<1>18. ASSUME NEW h \in Handlers, ExportEnd(h) PROVE DefaultListKept' /\ TasksHaveHomes'
  BY <1>18, FinishFacts DEF ExportEnd, taskVars, handlerVars
<1>19. ASSUME NEW h \in Handlers, Fail(h) PROVE DefaultListKept' /\ TasksHaveHomes'
  BY <1>19, FinishFacts DEF Fail, taskVars, handlerVars
<1>20. ASSUME UNCHANGED vars PROVE DefaultListKept' /\ TasksHaveHomes'
  BY <1>20 DEF vars, taskVars, handlerVars
<1>21. QED
  BY <1>1, <1>2, <1>3, <1>4, <1>5, <1>6, <1>7, <1>8, <1>9, <1>10, <1>11,
     <1>12, <1>13, <1>14, <1>15, <1>16, <1>17, <1>18, <1>19, <1>20 DEF Next

\* A handler that deletes was refused the default list.
LEMMA DefaultStep ==
    ASSUME IInv, [Next]_vars
    PROVE  DefaultInv'
<1> USE DEF IInv, TypeOK, Steps, DefaultInv
<1>1. ASSUME NEW l \in Lists, CreateList(l) PROVE DefaultInv'
  BY <1>1 DEF CreateList, taskVars, handlerVars
<1>2. ASSUME NEW h \in Handlers, NEW l \in Lists, DeleteCheck(h, l) PROVE DefaultInv'
  BY <1>2 DEF DeleteCheck, Begin, taskVars, handlerVars
<1>3. ASSUME NEW h \in Handlers, DeleteCount(h) PROVE DefaultInv'
  BY <1>3 DEF DeleteCount, taskVars, handlerVars
<1>4. ASSUME NEW h \in Handlers, DeleteList(h) PROVE DefaultInv'
  BY <1>4, FinishFacts, RemoveFacts DEF DeleteList, Cascade, taskVars, handlerVars
<1>5. ASSUME DeleteAccount PROVE DefaultInv'
  BY <1>5, RemoveFacts DEF DeleteAccount, taskVars, handlerVars
<1>6. ASSUME NEW h \in Handlers, NEW l \in Lists, CreateCheck(h, l) PROVE DefaultInv'
  BY <1>6 DEF CreateCheck, Begin, taskVars, handlerVars
<1>7. ASSUME NEW h \in Handlers, NEW t \in Tasks, InsertStart(h, t) PROVE DefaultInv'
  BY <1>7 DEF InsertStart, taskVars, handlerVars
<1>8. ASSUME NEW h \in Handlers, InsertCommit(h) PROVE DefaultInv'
  BY <1>8, FinishFacts DEF InsertCommit, ParentExists, taskVars, handlerVars
<1>9. ASSUME NEW h \in Handlers, NEW l \in Lists, ReorderCheck(h, l) PROVE DefaultInv'
  BY <1>9 DEF ReorderCheck, Begin, taskVars, handlerVars
<1>10. ASSUME NEW h \in Handlers, SetPositions(h) PROVE DefaultInv'
  BY <1>10 DEF SetPositions, taskVars, handlerVars
<1>11. ASSUME NEW h \in Handlers, CommitOrder(h) PROVE DefaultInv'
  BY <1>11, FinishFacts DEF CommitOrder, Renumbered, RowsOf, taskVars, handlerVars
<1>12. ASSUME NEW t \in Tasks, NEW c \in BOOLEAN, SetCompletion(t, c) PROVE DefaultInv'
  BY <1>12 DEF SetCompletion, taskVars, handlerVars
<1>13. ASSUME NEW t \in Tasks, SoftDelete(t) PROVE DefaultInv'
  BY <1>13 DEF SoftDelete, taskVars, handlerVars
<1>14. ASSUME NEW t \in Tasks, Restore(t) PROVE DefaultInv'
  BY <1>14 DEF Restore, taskVars, handlerVars
<1>15. ASSUME Purge PROVE DefaultInv'
  BY <1>15, RemoveFacts DEF Purge, taskVars, handlerVars
<1>16. ASSUME Tick PROVE DefaultInv'
  BY <1>16 DEF Tick, taskVars, handlerVars
<1>17. ASSUME NEW h \in Handlers, ExportStart(h) PROVE DefaultInv'
  BY <1>17 DEF ExportStart, taskVars, handlerVars
<1>18. ASSUME NEW h \in Handlers, ExportEnd(h) PROVE DefaultInv'
  BY <1>18, FinishFacts DEF ExportEnd, taskVars, handlerVars
<1>19. ASSUME NEW h \in Handlers, Fail(h) PROVE DefaultInv'
  BY <1>19, FinishFacts DEF Fail, taskVars, handlerVars
<1>20. ASSUME UNCHANGED vars PROVE DefaultInv'
  BY <1>20 DEF vars, taskVars, handlerVars
<1>21. QED
  BY <1>1, <1>2, <1>3, <1>4, <1>5, <1>6, <1>7, <1>8, <1>9, <1>10, <1>11,
     <1>12, <1>13, <1>14, <1>15, <1>16, <1>17, <1>18, <1>19, <1>20 DEF Next

\* Each row in flight belongs to one handler.
LEMMA InsertStep ==
    ASSUME IInv, [Next]_vars
    PROVE  InsertInv'
<1> USE Types DEF IInv, Steps, InsertInv, Inserts
<1>1. ASSUME NEW l \in Lists, CreateList(l) PROVE InsertInv'
  BY <1>1 DEF CreateList, taskVars, handlerVars
<1>2. ASSUME NEW h \in Handlers, NEW l \in Lists, DeleteCheck(h, l) PROVE InsertInv'
  BY <1>2 DEF DeleteCheck, Begin, taskVars, handlerVars
<1>3. ASSUME NEW h \in Handlers, DeleteCount(h) PROVE InsertInv'
  BY <1>3 DEF DeleteCount, taskVars, handlerVars
<1>4. ASSUME NEW h \in Handlers, DeleteList(h) PROVE InsertInv'
  <2>1. \A g \in Handlers :
            /\ step'[g] = IF g = h THEN "idle" ELSE step[g]
            /\ onList'[g] = IF g = h THEN NoList ELSE onList[g]
            /\ making'[g] = IF g = h THEN NoTask ELSE making[g]
    BY <1>4, FinishFacts DEF DeleteList
  <2>2. home' = home /\ \A t \in Tasks : row'[t] = "inserting" <=> row[t] = "inserting"
    BY <1>4, RemoveFacts DEF DeleteList, Cascade, RowsOf
  <2>3. QED
    BY <2>1, <2>2
<1>5. ASSUME DeleteAccount PROVE InsertInv'
  <2>1. home' = home /\ \A t \in Tasks : row'[t] = "inserting" <=> row[t] = "inserting"
    BY <1>5, RemoveFacts DEF DeleteAccount
  <2>2. QED
    BY <1>5, <2>1 DEF DeleteAccount, handlerVars
<1>6. ASSUME NEW h \in Handlers, NEW l \in Lists, CreateCheck(h, l) PROVE InsertInv'
  BY <1>6 DEF CreateCheck, Begin, taskVars, handlerVars
<1>7. ASSUME NEW h \in Handlers, NEW t \in Tasks, InsertStart(h, t) PROVE InsertInv'
  <2>1. \A g \in Handlers :
            /\ step'[g] = IF g = h THEN "inserting" ELSE step[g]
            /\ onList'[g] = onList[g]
            /\ making'[g] = IF g = h THEN t ELSE making[g]
    BY <1>7 DEF InsertStart
  <2>2. \A s \in Tasks :
            /\ row'[s] = IF s = t THEN "inserting" ELSE row[s]
            /\ home'[s] = IF s = t THEN onList[h] ELSE home[s]
    BY <1>7 DEF InsertStart
  <2>3. row[t] = "new"
    BY <1>7 DEF InsertStart
  <2>4. \A g \in Handlers : step[g] = "inserting" => making[g] # t
    BY <2>3
  <2>5. QED
    BY <2>1, <2>2, <2>4
<1>8. ASSUME NEW h \in Handlers, InsertCommit(h) PROVE InsertInv'
  <2>1. \A g \in Handlers :
            /\ step'[g] = IF g = h THEN "idle" ELSE step[g]
            /\ onList'[g] = IF g = h THEN NoList ELSE onList[g]
            /\ making'[g] = IF g = h THEN NoTask ELSE making[g]
    BY <1>8, FinishFacts DEF InsertCommit
  <2>2. home' = home /\ \A t \in Tasks : row'[t] = IF t = making[h] THEN "live" ELSE row[t]
    BY <1>8 DEF InsertCommit
  <2>3. step[h] = "inserting"
    BY <1>8 DEF InsertCommit
  <2>4. QED
    BY <2>1, <2>2, <2>3
<1>9. ASSUME NEW h \in Handlers, NEW l \in Lists, ReorderCheck(h, l) PROVE InsertInv'
  BY <1>9 DEF ReorderCheck, Begin, taskVars, handlerVars
<1>10. ASSUME NEW h \in Handlers, SetPositions(h) PROVE InsertInv'
  BY <1>10 DEF SetPositions, taskVars, handlerVars
<1>11. ASSUME NEW h \in Handlers, CommitOrder(h) PROVE InsertInv'
  <2>1. \A g \in Handlers :
            /\ step'[g] = IF g = h THEN "idle" ELSE step[g]
            /\ onList'[g] = IF g = h THEN NoList ELSE onList[g]
            /\ making'[g] = IF g = h THEN NoTask ELSE making[g]
    BY <1>11, FinishFacts DEF CommitOrder
  <2>2. QED
    BY <1>11, <2>1 DEF CommitOrder
<1>12. ASSUME NEW t \in Tasks, NEW c \in BOOLEAN, SetCompletion(t, c) PROVE InsertInv'
  BY <1>12 DEF SetCompletion, taskVars, handlerVars
<1>13. ASSUME NEW t \in Tasks, SoftDelete(t) PROVE InsertInv'
  BY <1>13 DEF SoftDelete, taskVars, handlerVars
<1>14. ASSUME NEW t \in Tasks, Restore(t) PROVE InsertInv'
  BY <1>14 DEF Restore, taskVars, handlerVars
<1>15. ASSUME Purge PROVE InsertInv'
  <2>1. home' = home /\ \A t \in Tasks : row'[t] = "inserting" <=> row[t] = "inserting"
    BY <1>15, RemoveFacts DEF Purge, Expired
  <2>2. QED
    BY <1>15, <2>1 DEF Purge, handlerVars
<1>16. ASSUME Tick PROVE InsertInv'
  BY <1>16 DEF Tick, taskVars, handlerVars
<1>17. ASSUME NEW h \in Handlers, ExportStart(h) PROVE InsertInv'
  BY <1>17 DEF ExportStart, taskVars, handlerVars
<1>18. ASSUME NEW h \in Handlers, ExportEnd(h) PROVE InsertInv'
  <2>1. \A g \in Handlers :
            /\ step'[g] = IF g = h THEN "idle" ELSE step[g]
            /\ onList'[g] = IF g = h THEN NoList ELSE onList[g]
            /\ making'[g] = IF g = h THEN NoTask ELSE making[g]
    BY <1>18, FinishFacts DEF ExportEnd
  <2>2. QED
    BY <1>18, <2>1 DEF ExportEnd, taskVars
<1>19. ASSUME NEW h \in Handlers, Fail(h) PROVE InsertInv'
  <2>1. \A g \in Handlers :
            /\ step'[g] = IF g = h THEN "idle" ELSE step[g]
            /\ onList'[g] = IF g = h THEN NoList ELSE onList[g]
            /\ making'[g] = IF g = h THEN NoTask ELSE making[g]
    BY <1>19, FinishFacts DEF Fail
  <2>2. home' = home /\ \A t \in Tasks : row'[t] = IF t = making[h] THEN "gone" ELSE row[t]
    BY <1>19 DEF Fail
  <2>3. \A g \in Handlers : g # h /\ step[g] = "inserting" => making[g] # making[h] /\ making[g] \in Tasks
    BY TasksAssumption
  <2>4. QED
    BY <2>1, <2>2, <2>3
<1>20. ASSUME UNCHANGED vars PROVE InsertInv'
  BY <1>20 DEF vars, taskVars, handlerVars
<1>21. QED
  BY <1>1, <1>2, <1>3, <1>4, <1>5, <1>6, <1>7, <1>8, <1>9, <1>10, <1>11,
     <1>12, <1>13, <1>14, <1>15, <1>16, <1>17, <1>18, <1>19, <1>20 DEF Next

-----------------------------------------------------------------------------
(* Stored rows.                                                            *)

\* A stored row never moves, and never comes back once it is gone.
LEMMA StoredStep ==
    ASSUME IInv, [Next]_vars
    PROVE  \A t \in Tasks : Stored(t) =>
            /\ Stored(t)' /\ home'[t] = home[t]
            /\ row'[t] = "live" => row[t] = "live"
<1> DEFINE Keeps == \A t \in Tasks : Stored(t) =>
            /\ Stored(t)' /\ home'[t] = home[t]
            /\ row'[t] = "live" => row[t] = "live"
<1> USE Types DEF IInv, Stored
<1>1. ASSUME NEW l \in Lists, CreateList(l) PROVE Keeps
  BY <1>1 DEF CreateList, taskVars, handlerVars
<1>2. ASSUME NEW h \in Handlers, NEW l \in Lists, DeleteCheck(h, l) PROVE Keeps
  BY <1>2 DEF DeleteCheck, Begin, taskVars, handlerVars
<1>3. ASSUME NEW h \in Handlers, DeleteCount(h) PROVE Keeps
  BY <1>3 DEF DeleteCount, taskVars, handlerVars
<1>4. ASSUME NEW h \in Handlers, DeleteList(h) PROVE Keeps
  <2>1. home' = home /\ \A t \in Tasks : row'[t] \in {row[t], "gone"}
    BY <1>4, RemoveFacts DEF DeleteList
  <2>2. \A t \in Tasks : row'[t] = "gone" \/ row'[t] = row[t]
    BY <2>1
  <2>3. QED
    BY <2>1, <2>2
<1>5. ASSUME DeleteAccount PROVE Keeps
  BY <1>5, RemoveFacts DEF DeleteAccount, taskVars, handlerVars
<1>6. ASSUME NEW h \in Handlers, NEW l \in Lists, CreateCheck(h, l) PROVE Keeps
  BY <1>6 DEF CreateCheck, Begin, taskVars, handlerVars
<1>7. ASSUME NEW h \in Handlers, NEW t \in Tasks, InsertStart(h, t) PROVE Keeps
  BY <1>7 DEF InsertStart, taskVars, handlerVars
<1>8. ASSUME NEW h \in Handlers, InsertCommit(h) PROVE Keeps
  <2>1. row[making[h]] = "inserting" /\ making[h] \in Tasks
    BY <1>8 DEF InsertCommit, InsertInv, Inserts
  <2>2. home' = home /\ \A t \in Tasks : row'[t] = IF t = making[h] THEN "live" ELSE row[t]
    BY <1>8 DEF InsertCommit
  <2>3. QED
    BY <2>1, <2>2
<1>9. ASSUME NEW h \in Handlers, NEW l \in Lists, ReorderCheck(h, l) PROVE Keeps
  BY <1>9 DEF ReorderCheck, Begin, taskVars, handlerVars
<1>10. ASSUME NEW h \in Handlers, SetPositions(h) PROVE Keeps
  BY <1>10 DEF SetPositions, taskVars, handlerVars
<1>11. ASSUME NEW h \in Handlers, CommitOrder(h) PROVE Keeps
  BY <1>11, FinishFacts DEF CommitOrder, Renumbered, RowsOf, taskVars, handlerVars
<1>12. ASSUME NEW t \in Tasks, NEW c \in BOOLEAN, SetCompletion(t, c) PROVE Keeps
  BY <1>12 DEF SetCompletion, taskVars, handlerVars
<1>13. ASSUME NEW t \in Tasks, SoftDelete(t) PROVE Keeps
  BY <1>13 DEF SoftDelete, taskVars, handlerVars
<1>14. ASSUME NEW t \in Tasks, Restore(t) PROVE Keeps
  BY <1>14 DEF Restore, taskVars, handlerVars
<1>15. ASSUME Purge PROVE Keeps
  BY <1>15, RemoveFacts DEF Purge, taskVars, handlerVars
<1>16. ASSUME Tick PROVE Keeps
  BY <1>16 DEF Tick, taskVars, handlerVars
<1>17. ASSUME NEW h \in Handlers, ExportStart(h) PROVE Keeps
  BY <1>17 DEF ExportStart, taskVars, handlerVars
<1>18. ASSUME NEW h \in Handlers, ExportEnd(h) PROVE Keeps
  BY <1>18, FinishFacts DEF ExportEnd, taskVars, handlerVars
<1>19. ASSUME NEW h \in Handlers, Fail(h) PROVE Keeps
  <2>1. making[h] \in Tasks => row[making[h]] = "inserting"
    BY TasksAssumption DEF InsertInv, Inserts
  <2>2. home' = home /\ \A t \in Tasks : row'[t] = IF t = making[h] THEN "gone" ELSE row[t]
    BY <1>19 DEF Fail
  <2>3. QED
    BY <2>1, <2>2
<1>20. ASSUME UNCHANGED vars PROVE Keeps
  BY <1>20 DEF vars, taskVars, handlerVars
<1>21. QED
  BY <1>1, <1>2, <1>3, <1>4, <1>5, <1>6, <1>7, <1>8, <1>9, <1>10, <1>11,
     <1>12, <1>13, <1>14, <1>15, <1>16, <1>17, <1>18, <1>19, <1>20 DEF Next

\* The position of a live row changes only when a reorder commits.
LEMMA PositionStep ==
    ASSUME IInv, [Next]_vars, \A h \in Handlers : ~CommitOrder(h)
    PROVE  \A t \in Tasks : Stored(t) /\ row'[t] = "live" => position'[t] = position[t]
<1> DEFINE Keeps == \A t \in Tasks : Stored(t) /\ row'[t] = "live" => position'[t] = position[t]
<1> USE Types DEF IInv, Stored
<1>1. ASSUME NEW l \in Lists, CreateList(l) PROVE Keeps
  BY <1>1 DEF CreateList, taskVars, handlerVars
<1>2. ASSUME NEW h \in Handlers, NEW l \in Lists, DeleteCheck(h, l) PROVE Keeps
  BY <1>2 DEF DeleteCheck, Begin, taskVars, handlerVars
<1>3. ASSUME NEW h \in Handlers, DeleteCount(h) PROVE Keeps
  BY <1>3 DEF DeleteCount, taskVars, handlerVars
<1>4. ASSUME NEW h \in Handlers, DeleteList(h) PROVE Keeps
  <2>1. \A t \in Tasks : row'[t] = "gone" \/ position'[t] = position[t]
    BY <1>4, RemoveFacts DEF DeleteList
  <2>2. QED
    BY <2>1
<1>5. ASSUME DeleteAccount PROVE Keeps
  <2>1. \A t \in Tasks : row'[t] = "gone" \/ position'[t] = position[t]
    BY <1>5, RemoveFacts DEF DeleteAccount
  <2>2. QED
    BY <2>1
<1>6. ASSUME NEW h \in Handlers, NEW l \in Lists, CreateCheck(h, l) PROVE Keeps
  BY <1>6 DEF CreateCheck, Begin, taskVars, handlerVars
<1>7. ASSUME NEW h \in Handlers, NEW t \in Tasks, InsertStart(h, t) PROVE Keeps
  BY <1>7 DEF InsertStart, taskVars, handlerVars
<1>8. ASSUME NEW h \in Handlers, InsertCommit(h) PROVE Keeps
  <2>1. row[making[h]] = "inserting"
    BY <1>8 DEF InsertCommit, InsertInv, Inserts
  <2>2. \A t \in Tasks : t # making[h] => position'[t] = position[t]
    BY <1>8 DEF InsertCommit, TypeOK
  <2>3. QED
    BY <2>1, <2>2
<1>9. ASSUME NEW h \in Handlers, NEW l \in Lists, ReorderCheck(h, l) PROVE Keeps
  BY <1>9 DEF ReorderCheck, Begin, taskVars, handlerVars
<1>10. ASSUME NEW h \in Handlers, SetPositions(h) PROVE Keeps
  BY <1>10 DEF SetPositions, taskVars, handlerVars
<1>11. ASSUME NEW h \in Handlers, CommitOrder(h) PROVE Keeps
  BY <1>11
<1>12. ASSUME NEW t \in Tasks, NEW c \in BOOLEAN, SetCompletion(t, c) PROVE Keeps
  BY <1>12 DEF SetCompletion, taskVars, handlerVars
<1>13. ASSUME NEW t \in Tasks, SoftDelete(t) PROVE Keeps
  BY <1>13 DEF SoftDelete, taskVars, handlerVars
<1>14. ASSUME NEW t \in Tasks, Restore(t) PROVE Keeps
  BY <1>14 DEF Restore, taskVars, handlerVars
<1>15. ASSUME Purge PROVE Keeps
  <2>1. \A t \in Tasks : row'[t] = "gone" \/ position'[t] = position[t]
    BY <1>15, RemoveFacts DEF Purge
  <2>2. QED
    BY <2>1
<1>16. ASSUME Tick PROVE Keeps
  BY <1>16 DEF Tick, taskVars, handlerVars
<1>17. ASSUME NEW h \in Handlers, ExportStart(h) PROVE Keeps
  BY <1>17 DEF ExportStart, taskVars, handlerVars
<1>18. ASSUME NEW h \in Handlers, ExportEnd(h) PROVE Keeps
  BY <1>18, FinishFacts DEF ExportEnd, taskVars, handlerVars
<1>19. ASSUME NEW h \in Handlers, Fail(h) PROVE Keeps
  BY <1>19, FinishFacts DEF Fail, taskVars, handlerVars
<1>20. ASSUME UNCHANGED vars PROVE Keeps
  BY <1>20 DEF vars, taskVars, handlerVars
<1>21. QED
  BY <1>1, <1>2, <1>3, <1>4, <1>5, <1>6, <1>7, <1>8, <1>9, <1>10, <1>11,
     <1>12, <1>13, <1>14, <1>15, <1>16, <1>17, <1>18, <1>19, <1>20 DEF Next

-----------------------------------------------------------------------------
(* Orders and snapshots.                                                   *)

\* Only ReorderCheck gives a handler a vector.
LEMMA VectorKept ==
    ASSUME IInv, [Next]_vars, \A h \in Handlers, l \in Lists : ~ReorderCheck(h, l)
    PROVE  \A g \in Handlers : step'[g] \in {"reordering", "written"} =>
            /\ step[g] \in {"reordering", "written"}
            /\ order'[g] = order[g] /\ onList'[g] = onList[g]
<1> DEFINE Same == \A g \in Handlers : step'[g] \in {"reordering", "written"} =>
            /\ step[g] \in {"reordering", "written"}
            /\ order'[g] = order[g] /\ onList'[g] = onList[g]
<1> USE Types DEF IInv
<1>1. ASSUME NEW l \in Lists, CreateList(l) PROVE Same
  BY <1>1 DEF CreateList, taskVars, handlerVars
<1>2. ASSUME NEW h \in Handlers, NEW l \in Lists, DeleteCheck(h, l) PROVE Same
  BY <1>2 DEF DeleteCheck, Begin, taskVars, handlerVars
<1>3. ASSUME NEW h \in Handlers, DeleteCount(h) PROVE Same
  BY <1>3 DEF DeleteCount, taskVars, handlerVars
<1>4. ASSUME NEW h \in Handlers, DeleteList(h) PROVE Same
  BY <1>4, FinishFacts, RemoveFacts DEF DeleteList, Cascade, taskVars, handlerVars
<1>5. ASSUME DeleteAccount PROVE Same
  BY <1>5, RemoveFacts DEF DeleteAccount, taskVars, handlerVars
<1>6. ASSUME NEW h \in Handlers, NEW l \in Lists, CreateCheck(h, l) PROVE Same
  BY <1>6 DEF CreateCheck, Begin, taskVars, handlerVars
<1>7. ASSUME NEW h \in Handlers, NEW t \in Tasks, InsertStart(h, t) PROVE Same
  BY <1>7 DEF InsertStart, taskVars, handlerVars
<1>8. ASSUME NEW h \in Handlers, InsertCommit(h) PROVE Same
  BY <1>8, FinishFacts DEF InsertCommit, ParentExists, taskVars, handlerVars
<1>9. ASSUME NEW h \in Handlers, NEW l \in Lists, ReorderCheck(h, l) PROVE Same
  BY <1>9
<1>10. ASSUME NEW h \in Handlers, SetPositions(h) PROVE Same
  BY <1>10 DEF SetPositions, taskVars, handlerVars
<1>11. ASSUME NEW h \in Handlers, CommitOrder(h) PROVE Same
  BY <1>11, FinishFacts DEF CommitOrder, Renumbered, RowsOf, taskVars, handlerVars
<1>12. ASSUME NEW t \in Tasks, NEW c \in BOOLEAN, SetCompletion(t, c) PROVE Same
  BY <1>12 DEF SetCompletion, taskVars, handlerVars
<1>13. ASSUME NEW t \in Tasks, SoftDelete(t) PROVE Same
  BY <1>13 DEF SoftDelete, taskVars, handlerVars
<1>14. ASSUME NEW t \in Tasks, Restore(t) PROVE Same
  BY <1>14 DEF Restore, taskVars, handlerVars
<1>15. ASSUME Purge PROVE Same
  BY <1>15, RemoveFacts DEF Purge, taskVars, handlerVars
<1>16. ASSUME Tick PROVE Same
  BY <1>16 DEF Tick, taskVars, handlerVars
<1>17. ASSUME NEW h \in Handlers, ExportStart(h) PROVE Same
  BY <1>17 DEF ExportStart, taskVars, handlerVars
<1>18. ASSUME NEW h \in Handlers, ExportEnd(h) PROVE Same
  BY <1>18, FinishFacts DEF ExportEnd, taskVars, handlerVars
<1>19. ASSUME NEW h \in Handlers, Fail(h) PROVE Same
  BY <1>19, FinishFacts DEF Fail, taskVars, handlerVars
<1>20. ASSUME UNCHANGED vars PROVE Same
  BY <1>20 DEF vars, taskVars, handlerVars
<1>21. QED
  BY <1>1, <1>2, <1>3, <1>4, <1>5, <1>6, <1>7, <1>8, <1>9, <1>10, <1>11,
     <1>12, <1>13, <1>14, <1>15, <1>16, <1>17, <1>18, <1>19, <1>20 DEF Next

\* Every step keeps what a reorder has read in its list, and the last order as it was stored.
LEMMA OrderStep ==
    ASSUME IInv, [Next]_vars
    PROVE  OrderInv'
<1>1. \A g \in Handlers : step'[g] \in {"reordering", "written"} =>
        \A t \in DOMAIN order'[g] : Stored(t)' /\ home'[t] = onList'[g]
  <2>1. CASE \A h \in Handlers, l \in Lists : ~ReorderCheck(h, l)
    <3> SUFFICES ASSUME NEW g \in Handlers, step'[g] \in {"reordering", "written"},
                        NEW t \in DOMAIN order'[g]
                 PROVE  Stored(t)' /\ home'[t] = onList'[g]
      OBVIOUS
    <3>1. step[g] \in {"reordering", "written"} /\ order'[g] = order[g] /\ onList'[g] = onList[g]
      BY <2>1, VectorKept
    <3>2. t \in Tasks /\ Stored(t) /\ home[t] = onList[g]
      BY <3>1 DEF IInv, OrderInv, TypeOK, IsOrder
    <3>3. QED
      BY <3>1, <3>2, StoredStep
  <2>2. ASSUME NEW h \in Handlers, NEW l \in Lists, ReorderCheck(h, l),
               NEW g \in Handlers, step'[g] \in {"reordering", "written"},
               NEW t \in DOMAIN order'[g]
        PROVE  Stored(t)' /\ home'[t] = onList'[g]
    <3>1. PICK o \in Injection(ActiveOf(l), 0..(Cardinality(ActiveOf(l)) - 1)) :
            order' = [order EXCEPT ![h] = o]
      BY <2>2 DEF ReorderCheck
    <3>2. DOMAIN o = ActiveOf(l)
      BY <3>1 DEF Injection
    <3>3. row' = row /\ home' = home
      BY <2>2 DEF ReorderCheck, taskVars
    <3>4. CASE g = h
      <4>1. onList'[g] = l /\ order'[g] = o
        BY <2>2, <3>1, <3>4 DEF ReorderCheck, Begin, IInv, TypeOK
      <4>2. t \in Tasks /\ row[t] = "live" /\ home[t] = l
        BY <2>2, <3>2, <4>1 DEF ActiveOf, RowsOf
      <4>3. QED
        BY <3>3, <4>1, <4>2 DEF Stored
    <3>5. CASE g # h
      <4>1. step[g] = step'[g] /\ onList'[g] = onList[g] /\ order'[g] = order[g]
        BY <2>2, <3>1, <3>5 DEF ReorderCheck, Begin, IInv, TypeOK
      <4>2. Stored(t) /\ home[t] = onList[g]
        BY <2>2, <4>1 DEF IInv, OrderInv
      <4>3. QED
        BY <3>3, <4>1, <4>2 DEF Stored
    <3>6. QED
      BY <3>4, <3>5
  <2>3. QED
    BY <2>1, <2>2
<1>2. \A l \in Lists : \A t \in DOMAIN lastOrder'[l] :
        /\ Stored(t)' /\ home'[t] = l
        /\ row'[t] = "live" => position'[t] = lastOrder'[l][t]
  <2> SUFFICES ASSUME NEW l \in Lists, NEW t \in DOMAIN lastOrder'[l]
               PROVE  /\ Stored(t)' /\ home'[t] = l
                      /\ row'[t] = "live" => position'[t] = lastOrder'[l][t]
    OBVIOUS
  <2>1. CASE \A h \in Handlers : ~CommitOrder(h)
    <3>1. lastOrder' = lastOrder
      BY <2>1 DEF Next, CreateList, DeleteCheck, DeleteCount, DeleteList, DeleteAccount, CreateCheck,
                  InsertStart, InsertCommit, ReorderCheck, SetPositions, SetCompletion, SoftDelete,
                  Restore, Purge, Tick, ExportStart, ExportEnd, Fail, vars
    <3>2. /\ t \in Tasks /\ Stored(t) /\ home[t] = l
          /\ row[t] = "live" => position[t] = lastOrder[l][t]
      BY <3>1 DEF IInv, OrderInv, TypeOK, IsOrder
    <3>3. row'[t] = "live" => row[t] = "live" /\ position'[t] = position[t]
      BY <2>1, <3>2, StoredStep, PositionStep
    <3>4. QED
      BY <3>1, <3>2, <3>3, StoredStep
  <2>2. ASSUME NEW h \in Handlers, CommitOrder(h)
        PROVE  /\ Stored(t)' /\ home'[t] = l
               /\ row'[t] = "live" => position'[t] = lastOrder'[l][t]
    <3>1. /\ row' = row /\ home' = home
          /\ lastOrder'[l] = IF l = onList[h] THEN order[h] ELSE lastOrder[l]
          /\ \A s \in Tasks : position'[s] = IF s \in Renumbered(h) THEN order[h][s] ELSE position[s]
          /\ step[h] = "written"
      BY <2>2 DEF CommitOrder, IInv, TypeOK
    <3>2. CASE l = onList[h]
      <4>1. t \in Tasks /\ Stored(t) /\ home[t] = l
        BY <3>1, <3>2 DEF IInv, OrderInv, TypeOK, IsOrder
      <4>2. QED
        BY <3>1, <3>2, <4>1 DEF Renumbered, RowsOf, Stored
    <3>3. CASE l # onList[h]
      <4>1. /\ t \in Tasks /\ Stored(t) /\ home[t] = l
            /\ row[t] = "live" => position[t] = lastOrder[l][t]
        BY <3>1, <3>3 DEF IInv, OrderInv, TypeOK, IsOrder
      <4>2. QED
        BY <3>1, <3>3, <4>1 DEF Renumbered, RowsOf, Stored
    <3>4. QED
      BY <3>2, <3>3
  <2>3. QED
    BY <2>1, <2>2
<1>3. QED
  BY <1>1, <1>2 DEF OrderInv, Stored

\* Only ExportStart takes a snapshot.
LEMMA SnapshotKept ==
    ASSUME IInv, [Next]_vars, \A h \in Handlers : ~ExportStart(h)
    PROVE  \A g \in Handlers : snapshot'[g] \in {snapshot[g], NoSnapshot}
<1> DEFINE Same == \A g \in Handlers : snapshot'[g] \in {snapshot[g], NoSnapshot}
<1> USE DEF IInv
<1>1. ASSUME NEW l \in Lists, CreateList(l) PROVE Same
  BY <1>1 DEF CreateList, taskVars, handlerVars
<1>2. ASSUME NEW h \in Handlers, NEW l \in Lists, DeleteCheck(h, l) PROVE Same
  BY <1>2 DEF DeleteCheck, Begin, taskVars, handlerVars
<1>3. ASSUME NEW h \in Handlers, DeleteCount(h) PROVE Same
  BY <1>3 DEF DeleteCount, taskVars, handlerVars
<1>4. ASSUME NEW h \in Handlers, DeleteList(h) PROVE Same
  BY <1>4, FinishFacts, RemoveFacts DEF DeleteList, Cascade, taskVars, handlerVars
<1>5. ASSUME DeleteAccount PROVE Same
  BY <1>5, RemoveFacts DEF DeleteAccount, taskVars, handlerVars
<1>6. ASSUME NEW h \in Handlers, NEW l \in Lists, CreateCheck(h, l) PROVE Same
  BY <1>6 DEF CreateCheck, Begin, taskVars, handlerVars
<1>7. ASSUME NEW h \in Handlers, NEW t \in Tasks, InsertStart(h, t) PROVE Same
  BY <1>7 DEF InsertStart, taskVars, handlerVars
<1>8. ASSUME NEW h \in Handlers, InsertCommit(h) PROVE Same
  BY <1>8, FinishFacts DEF InsertCommit, ParentExists, taskVars, handlerVars
<1>9. ASSUME NEW h \in Handlers, NEW l \in Lists, ReorderCheck(h, l) PROVE Same
  BY <1>9 DEF ReorderCheck, Begin, taskVars, handlerVars
<1>10. ASSUME NEW h \in Handlers, SetPositions(h) PROVE Same
  BY <1>10 DEF SetPositions, taskVars, handlerVars
<1>11. ASSUME NEW h \in Handlers, CommitOrder(h) PROVE Same
  BY <1>11, FinishFacts DEF CommitOrder, Renumbered, RowsOf, taskVars, handlerVars
<1>12. ASSUME NEW t \in Tasks, NEW c \in BOOLEAN, SetCompletion(t, c) PROVE Same
  BY <1>12 DEF SetCompletion, taskVars, handlerVars
<1>13. ASSUME NEW t \in Tasks, SoftDelete(t) PROVE Same
  BY <1>13 DEF SoftDelete, taskVars, handlerVars
<1>14. ASSUME NEW t \in Tasks, Restore(t) PROVE Same
  BY <1>14 DEF Restore, taskVars, handlerVars
<1>15. ASSUME Purge PROVE Same
  BY <1>15, RemoveFacts DEF Purge, taskVars, handlerVars
<1>16. ASSUME Tick PROVE Same
  BY <1>16 DEF Tick, taskVars, handlerVars
<1>17. ASSUME NEW h \in Handlers, ExportStart(h) PROVE Same
  BY <1>17
<1>18. ASSUME NEW h \in Handlers, ExportEnd(h) PROVE Same
  BY <1>18, FinishFacts DEF ExportEnd, taskVars, handlerVars
<1>19. ASSUME NEW h \in Handlers, Fail(h) PROVE Same
  BY <1>19, FinishFacts DEF Fail, taskVars, handlerVars
<1>20. ASSUME UNCHANGED vars PROVE Same
  BY <1>20 DEF vars, taskVars, handlerVars
<1>21. QED
  BY <1>1, <1>2, <1>3, <1>4, <1>5, <1>6, <1>7, <1>8, <1>9, <1>10, <1>11,
     <1>12, <1>13, <1>14, <1>15, <1>16, <1>17, <1>18, <1>19, <1>20 DEF Next

\* Every step keeps the rows of a snapshot in its lists.
LEMMA SnapshotStep ==
    ASSUME IInv, [Next]_vars
    PROVE  SnapshotInv'
<1> SUFFICES ASSUME NEW g \in Handlers, NEW t \in snapshot'[g].tasks
             PROVE  Stored(t)' /\ home'[t] \in snapshot'[g].lists
  BY DEF SnapshotInv, Stored
<1>1. CASE \A h \in Handlers : ~ExportStart(h)
  <2>1. snapshot'[g] = snapshot[g]
    BY <1>1, SnapshotKept DEF NoSnapshot
  <2>2. t \in Tasks /\ Stored(t) /\ home[t] \in snapshot[g].lists
    BY <2>1 DEF IInv, SnapshotInv, TypeOK
  <2>3. QED
    BY <2>1, <2>2, StoredStep
<1>2. ASSUME NEW h \in Handlers, ExportStart(h)
      PROVE  Stored(t)' /\ home'[t] \in snapshot'[g].lists
  <2>1. row' = row /\ home' = home
    BY <1>2 DEF ExportStart, taskVars
  <2>2. CASE g = h
    <3>1. /\ snapshot'[g].lists = {l \in Lists : list[l] = "live"}
          /\ snapshot'[g].tasks = {s \in Tasks : row[s] = "live" /\ deletedFor[s] = Null}
      BY <1>2, <2>2 DEF ExportStart, IInv, TypeOK
    <3>2. t \in Tasks /\ row[t] = "live"
      BY <3>1
    <3>3. home[t] \in Lists /\ list[home[t]] = "live"
      BY <3>2 DEF IInv, TypeOK, TasksHaveHomes
    <3>4. QED
      BY <2>1, <3>1, <3>2, <3>3 DEF Stored
  <2>3. CASE g # h
    <3>1. snapshot'[g] = snapshot[g]
      BY <1>2, <2>3 DEF ExportStart, IInv, TypeOK
    <3>2. QED
      BY <2>1, <3>1 DEF IInv, SnapshotInv, Stored
  <2>4. QED
    BY <2>2, <2>3
<1>3. QED
  BY <1>1, <1>2

-----------------------------------------------------------------------------
(* What an INSERT saw.                                                     *)

\* Only InsertStart gives a handler a row and a number for it.
LEMMA NumberKept ==
    ASSUME IInv, [Next]_vars, \A h \in Handlers, t \in Tasks : ~InsertStart(h, t)
    PROVE  \A g \in Handlers : step'[g] = "inserting" =>
            step[g] = "inserting" /\ making'[g] = making[g] /\ number'[g] = number[g]
<1> DEFINE Same == \A g \in Handlers : step'[g] = "inserting" =>
            step[g] = "inserting" /\ making'[g] = making[g] /\ number'[g] = number[g]
<1> USE Types DEF IInv
<1>1. ASSUME NEW l \in Lists, CreateList(l) PROVE Same
  BY <1>1 DEF CreateList, taskVars, handlerVars
<1>2. ASSUME NEW h \in Handlers, NEW l \in Lists, DeleteCheck(h, l) PROVE Same
  BY <1>2 DEF DeleteCheck, Begin, taskVars, handlerVars
<1>3. ASSUME NEW h \in Handlers, DeleteCount(h) PROVE Same
  <2>1. \A g \in Handlers : g # h => step'[g] = step[g] /\ number'[g] = number[g]
    BY <1>3 DEF DeleteCount, TypeOK
  <2>2. step'[h] = "counted" /\ making' = making
    BY <1>3 DEF DeleteCount
  <2>3. QED
    BY <2>1, <2>2
<1>4. ASSUME NEW h \in Handlers, DeleteList(h) PROVE Same
  BY <1>4, FinishFacts, RemoveFacts DEF DeleteList, Cascade, taskVars, handlerVars
<1>5. ASSUME DeleteAccount PROVE Same
  BY <1>5, RemoveFacts DEF DeleteAccount, taskVars, handlerVars
<1>6. ASSUME NEW h \in Handlers, NEW l \in Lists, CreateCheck(h, l) PROVE Same
  BY <1>6 DEF CreateCheck, Begin, taskVars, handlerVars
<1>7. ASSUME NEW h \in Handlers, NEW t \in Tasks, InsertStart(h, t) PROVE Same
  BY <1>7
<1>8. ASSUME NEW h \in Handlers, InsertCommit(h) PROVE Same
  BY <1>8, FinishFacts DEF InsertCommit, ParentExists, taskVars, handlerVars
<1>9. ASSUME NEW h \in Handlers, NEW l \in Lists, ReorderCheck(h, l) PROVE Same
  BY <1>9 DEF ReorderCheck, Begin, taskVars, handlerVars
<1>10. ASSUME NEW h \in Handlers, SetPositions(h) PROVE Same
  BY <1>10 DEF SetPositions, taskVars, handlerVars
<1>11. ASSUME NEW h \in Handlers, CommitOrder(h) PROVE Same
  BY <1>11, FinishFacts DEF CommitOrder, Renumbered, RowsOf, taskVars, handlerVars
<1>12. ASSUME NEW t \in Tasks, NEW c \in BOOLEAN, SetCompletion(t, c) PROVE Same
  BY <1>12 DEF SetCompletion, taskVars, handlerVars
<1>13. ASSUME NEW t \in Tasks, SoftDelete(t) PROVE Same
  BY <1>13 DEF SoftDelete, taskVars, handlerVars
<1>14. ASSUME NEW t \in Tasks, Restore(t) PROVE Same
  BY <1>14 DEF Restore, taskVars, handlerVars
<1>15. ASSUME Purge PROVE Same
  BY <1>15, RemoveFacts DEF Purge, taskVars, handlerVars
<1>16. ASSUME Tick PROVE Same
  BY <1>16 DEF Tick, taskVars, handlerVars
<1>17. ASSUME NEW h \in Handlers, ExportStart(h) PROVE Same
  BY <1>17 DEF ExportStart, taskVars, handlerVars
<1>18. ASSUME NEW h \in Handlers, ExportEnd(h) PROVE Same
  BY <1>18, FinishFacts DEF ExportEnd, taskVars, handlerVars
<1>19. ASSUME NEW h \in Handlers, Fail(h) PROVE Same
  BY <1>19, FinishFacts DEF Fail, taskVars, handlerVars
<1>20. ASSUME UNCHANGED vars PROVE Same
  BY <1>20 DEF vars, taskVars, handlerVars
<1>21. QED
  BY <1>1, <1>2, <1>3, <1>4, <1>5, <1>6, <1>7, <1>8, <1>9, <1>10, <1>11,
     <1>12, <1>13, <1>14, <1>15, <1>16, <1>17, <1>18, <1>19, <1>20 DEF Next

\* Only InsertCommit makes a row live.
LEMMA LiveKept ==
    ASSUME IInv, [Next]_vars, \A h \in Handlers : ~InsertCommit(h)
    PROVE  \A t \in Tasks : row'[t] = "live" => row[t] = "live"
<1> DEFINE Same == \A t \in Tasks : row'[t] = "live" => row[t] = "live"
<1> USE Types DEF IInv
<1>1. ASSUME NEW l \in Lists, CreateList(l) PROVE Same
  BY <1>1 DEF CreateList, taskVars, handlerVars
<1>2. ASSUME NEW h \in Handlers, NEW l \in Lists, DeleteCheck(h, l) PROVE Same
  BY <1>2 DEF DeleteCheck, Begin, taskVars, handlerVars
<1>3. ASSUME NEW h \in Handlers, DeleteCount(h) PROVE Same
  BY <1>3 DEF DeleteCount, taskVars, handlerVars
<1>4. ASSUME NEW h \in Handlers, DeleteList(h) PROVE Same
  BY <1>4, FinishFacts, RemoveFacts DEF DeleteList, Cascade, taskVars, handlerVars
<1>5. ASSUME DeleteAccount PROVE Same
  BY <1>5, RemoveFacts DEF DeleteAccount, taskVars, handlerVars
<1>6. ASSUME NEW h \in Handlers, NEW l \in Lists, CreateCheck(h, l) PROVE Same
  BY <1>6 DEF CreateCheck, Begin, taskVars, handlerVars
<1>7. ASSUME NEW h \in Handlers, NEW t \in Tasks, InsertStart(h, t) PROVE Same
  BY <1>7 DEF InsertStart, taskVars, handlerVars
<1>8. ASSUME NEW h \in Handlers, InsertCommit(h) PROVE Same
  BY <1>8
<1>9. ASSUME NEW h \in Handlers, NEW l \in Lists, ReorderCheck(h, l) PROVE Same
  BY <1>9 DEF ReorderCheck, Begin, taskVars, handlerVars
<1>10. ASSUME NEW h \in Handlers, SetPositions(h) PROVE Same
  BY <1>10 DEF SetPositions, taskVars, handlerVars
<1>11. ASSUME NEW h \in Handlers, CommitOrder(h) PROVE Same
  BY <1>11, FinishFacts DEF CommitOrder, Renumbered, RowsOf, taskVars, handlerVars
<1>12. ASSUME NEW t \in Tasks, NEW c \in BOOLEAN, SetCompletion(t, c) PROVE Same
  BY <1>12 DEF SetCompletion, taskVars, handlerVars
<1>13. ASSUME NEW t \in Tasks, SoftDelete(t) PROVE Same
  BY <1>13 DEF SoftDelete, taskVars, handlerVars
<1>14. ASSUME NEW t \in Tasks, Restore(t) PROVE Same
  BY <1>14 DEF Restore, taskVars, handlerVars
<1>15. ASSUME Purge PROVE Same
  BY <1>15, RemoveFacts DEF Purge, taskVars, handlerVars
<1>16. ASSUME Tick PROVE Same
  BY <1>16 DEF Tick, taskVars, handlerVars
<1>17. ASSUME NEW h \in Handlers, ExportStart(h) PROVE Same
  BY <1>17 DEF ExportStart, taskVars, handlerVars
<1>18. ASSUME NEW h \in Handlers, ExportEnd(h) PROVE Same
  BY <1>18, FinishFacts DEF ExportEnd, taskVars, handlerVars
<1>19. ASSUME NEW h \in Handlers, Fail(h) PROVE Same
  BY <1>19, FinishFacts DEF Fail, taskVars, handlerVars
<1>20. ASSUME UNCHANGED vars PROVE Same
  BY <1>20 DEF vars, taskVars, handlerVars
<1>21. QED
  BY <1>1, <1>2, <1>3, <1>4, <1>5, <1>6, <1>7, <1>8, <1>9, <1>10, <1>11,
     <1>12, <1>13, <1>14, <1>15, <1>16, <1>17, <1>18, <1>19, <1>20 DEF Next

\* Only InsertStart and CommitOrder change what is known of a row.
LEMMA KnownKept ==
    ASSUME [Next]_vars,
           \A h \in Handlers, t \in Tasks : ~InsertStart(h, t),
           \A h \in Handlers : ~CommitOrder(h)
    PROVE  known' = known
BY DEF Next, CreateList, DeleteCheck, DeleteCount, DeleteList, DeleteAccount, CreateCheck,
       InsertCommit, ReorderCheck, SetPositions, SetCompletion, SoftDelete,
       Restore, Purge, Tick, ExportStart, ExportEnd, Fail, vars

\* KnownInv for one pair of rows.
KnownPair(s, t) ==
    /\ Stored(s) /\ home[s] = home[t]
    /\ row[s] = "live" /\ row[t] = "live" => position[s] < position[t]
    /\ \A h \in Handlers :
        row[s] = "live" /\ step[h] = "inserting" /\ making[h] = t => position[s] < number[h]

\* Every step keeps a task behind those its creation has seen.
LEMMA KnownStep ==
    ASSUME IInv, [Next]_vars
    PROVE  KnownInv'
<1> SUFFICES ASSUME NEW t \in Tasks, NEW s \in known'[t]
             PROVE  KnownPair(s, t)'
  BY DEF KnownInv, KnownPair
<1>1. CASE /\ \A h \in Handlers, u \in Tasks : ~InsertStart(h, u)
           /\ \A h \in Handlers : ~CommitOrder(h)
  <2>1. s \in known[t] /\ s \in Tasks
    BY <1>1, KnownKept DEF IInv, TypeOK
  <2>2. KnownPair(s, t)
    BY <2>1 DEF IInv, KnownInv, KnownPair
  <2>3. /\ Stored(s)' /\ home'[s] = home[s]
        /\ row'[s] = "live" => row[s] = "live" /\ position'[s] = position[s]
    BY <1>1, <2>1, <2>2, StoredStep, PositionStep DEF KnownPair
  <2>4. home'[t] = home[t]
    BY <1>1 DEF Next, CreateList, DeleteCheck, DeleteCount, DeleteList, DeleteAccount, CreateCheck,
       InsertCommit, ReorderCheck, SetPositions, SetCompletion, SoftDelete, Remove, taskVars,
       Restore, Purge, Tick, ExportStart, ExportEnd, Fail, vars
  <2>5. \A h \in Handlers : step'[h] = "inserting" =>
            step[h] = "inserting" /\ making'[h] = making[h] /\ number'[h] = number[h]
    BY <1>1, NumberKept
  <2>6. row'[s] = "live" /\ row'[t] = "live" => position'[s] < position'[t]
    <3>1. CASE row[t] = "live"
      <4>1. Stored(t)
        BY <3>1 DEF Stored
      <4>2. row'[t] = "live" => position'[t] = position[t]
        BY <1>1, <4>1, PositionStep
      <4>3. QED
        BY <2>2, <2>3, <3>1, <4>2 DEF KnownPair
    <3>2. CASE \E h \in Handlers : InsertCommit(h) /\ making[h] = t
      <4>1. PICK h \in Handlers : InsertCommit(h) /\ making[h] = t
        BY <3>2
      <4>2. position'[t] = number[h] /\ step[h] = "inserting"
        BY <4>1 DEF InsertCommit, IInv, TypeOK
      <4>3. QED
        BY <2>2, <2>3, <4>1, <4>2 DEF KnownPair
    <3>3. CASE row[t] # "live" /\ ~\E h \in Handlers : InsertCommit(h) /\ making[h] = t
      <4>1. row'[t] # "live"
        <5>1. CASE \A h \in Handlers : ~InsertCommit(h)
          BY <3>3, <5>1, LiveKept
        <5>2. ASSUME NEW h \in Handlers, InsertCommit(h) PROVE row'[t] # "live"
          BY <3>3, <5>2 DEF InsertCommit, IInv, TypeOK
        <5>3. QED
          BY <5>1, <5>2
      <4>2. QED
        BY <4>1
    <3>4. QED
      BY <3>1, <3>2, <3>3
  <2>7. QED
    BY <2>2, <2>3, <2>4, <2>5, <2>6 DEF KnownPair, Stored
<1>2. ASSUME NEW h \in Handlers, CommitOrder(h)
      PROVE  KnownPair(s, t)'
  <2>1. /\ row' = row /\ home' = home
        /\ known'[t] = IF home[t] = onList[h] THEN {} ELSE known[t]
        /\ \A u \in Tasks : position'[u] = IF u \in Renumbered(h) THEN order[h][u] ELSE position[u]
    BY <1>2 DEF CommitOrder
  <2>2. home[t] # onList[h] /\ s \in known[t] /\ s \in Tasks
    BY <2>1 DEF IInv, TypeOK
  <2>3. KnownPair(s, t)
    BY <2>2 DEF IInv, KnownInv, KnownPair
  <2>4. position'[t] = position[t] /\ position'[s] = position[s]
    BY <2>1, <2>2, <2>3 DEF KnownPair, Renumbered, RowsOf
  <2>5. \A g \in Handlers : step'[g] = "inserting" =>
            step[g] = "inserting" /\ making'[g] = making[g] /\ number'[g] = number[g]
    BY <1>2, FinishFacts DEF CommitOrder, IInv
  <2>6. QED
    BY <2>1, <2>3, <2>4, <2>5 DEF KnownPair, Stored
<1>3. ASSUME NEW h \in Handlers, NEW u \in Tasks, InsertStart(h, u)
      PROVE  KnownPair(s, t)'
  <2>1. /\ \A v \in Tasks : row'[v] = IF v = u THEN "inserting" ELSE row[v]
        /\ \A v \in Tasks : home'[v] = IF v = u THEN onList[h] ELSE home[v]
        /\ \A v \in Tasks : known'[v] = IF v = u THEN RowsOf(onList[h]) ELSE known[v]
        /\ position' = position /\ row[u] = "new" /\ step[h] = "creating"
    BY <1>3 DEF InsertStart, IInv, TypeOK
  <2>2. PICK n \in NextPosition(RowsOf(onList[h])) : number' = [number EXCEPT ![h] = n]
    BY <1>3 DEF InsertStart, MaxOver
  <2>3. /\ \A g \in Handlers : step'[g] = IF g = h THEN "inserting" ELSE step[g]
        /\ \A g \in Handlers : making'[g] = IF g = h THEN u ELSE making[g]
        /\ \A g \in Handlers : number'[g] = IF g = h THEN n ELSE number[g]
    BY <1>3, <2>2 DEF InsertStart, IInv, TypeOK
  <2>4. \A g \in Handlers : step[g] = "inserting" => making[g] # u
    BY <2>1 DEF IInv, InsertInv, Inserts
  <2>5. CASE t = u
    <3>1. s \in Tasks /\ row[s] = "live" /\ home[s] = onList[h]
      BY <2>1, <2>5 DEF RowsOf
    <3>2. position[s] < n
      <4>1. RowsOf(onList[h]) \in SUBSET Tasks /\ s \in RowsOf(onList[h])
        BY <3>1 DEF RowsOf
      <4>2. QED
        BY <2>2, <4>1, NextPositionType DEF IInv
    <3>3. \A g \in Handlers : step'[g] = "inserting" /\ making'[g] = t => g = h
      BY <2>3, <2>4, <2>5
    <3>4. QED
      BY <2>1, <2>3, <2>5, <3>1, <3>2, <3>3 DEF KnownPair, Stored
  <2>6. CASE t # u
    <3>1. s \in known[t] /\ s \in Tasks
      BY <2>1, <2>6 DEF IInv, TypeOK
    <3>2. KnownPair(s, t)
      BY <3>1 DEF IInv, KnownInv, KnownPair
    <3>3. s # u
      BY <2>1, <3>2 DEF KnownPair, Stored
    <3>4. QED
      BY <2>1, <2>3, <2>6, <3>1, <3>2, <3>3 DEF KnownPair, Stored
  <2>7. QED
    BY <2>5, <2>6
<1>4. QED
  BY <1>1, <1>2, <1>3

-----------------------------------------------------------------------------
(* The theorems.                                                           *)

\* The invariant holds at the start.
LEMMA IInit == Init => IInv
<1> SUFFICES ASSUME Init PROVE IInv
  OBVIOUS
<1>1. TypeOK
  BY TypeInit
<1>2. DefaultListKept /\ TasksHaveHomes /\ InsertInv /\ DefaultInv /\ SnapshotInv /\ KnownInv
  BY ListsAssumption
     DEF Init, DefaultListKept, TasksHaveHomes, InsertInv, DefaultInv, SnapshotInv, KnownInv, NoSnapshot
<1>3. OrderInv
  BY NoOrderType DEF Init, OrderInv
<1>4. QED
  BY <1>1, <1>2, <1>3 DEF IInv

\* IInv is inductive, and holds in every reachable state.
THEOREM SafetyInductive == Spec => []IInv
<1>1. Init => IInv
  BY IInit
<1>2. IInv /\ [Next]_vars => IInv'
  <2> SUFFICES ASSUME IInv, [Next]_vars PROVE IInv'
    OBVIOUS
  <2>1. TypeOK'
    BY TypeStep DEF IInv
  <2>2. QED
    BY <2>1, HomesStep, DefaultStep, InsertStep, OrderStep, SnapshotStep, KnownStep DEF IInv
<1>3. QED
  BY <1>1, <1>2, PTL DEF Spec

\* No interleaving of creations, deletions of lists and deletions of the account
\* loses the default list or leaves a task without its list.
THEOREM ListsAndTasksStayTogether == Spec => [](DefaultListKept /\ TasksHaveHomes)
<1>1. IInv => DefaultListKept /\ TasksHaveHomes
  BY DEF IInv
<1>2. QED
  BY <1>1, SafetyInductive, PTL

\* The rows the last reorder arranged keep its arrangement, for any number of
\* tasks and of requests in flight.
THEOREM ReordersStand == Spec => []LastReorderStands
<1>1. IInv => LastReorderStands
  <2> SUFFICES ASSUME IInv, NEW l \in Lists, NEW s \in DOMAIN lastOrder[l], NEW t \in DOMAIN lastOrder[l],
                      row[s] = "live", row[t] = "live", lastOrder[l][s] < lastOrder[l][t]
               PROVE  Before(s, t)
    BY DEF LastReorderStands
  <2>1. position[s] = lastOrder[l][s] /\ position[t] = lastOrder[l][t]
    BY DEF IInv, OrderInv
  <2>2. QED
    BY <2>1 DEF Before
<1>2. QED
  BY <1>1, SafetyInductive, PTL

\* A new task stands last until the next reorder, whatever is restored.
THEOREM NewTasksStandLast == Spec => []CreatedLast
<1>1. IInv => CreatedLast
  BY DEF IInv, KnownInv, CreatedLast, Before
<1>2. QED
  BY <1>1, SafetyInductive, PTL

\* An export never meets a task without its list.
THEOREM ExportsAreConsistent == Spec => []ExportConsistent
<1>1. IInv => ExportConsistent
  BY DEF IInv, SnapshotInv, ExportConsistent, TasksRead, ListsRead
<1>2. QED
  BY <1>1, SafetyInductive, PTL

\* A committed row of a list that stays is removed only by the purge, and only
\* past the retention window.
THEOREM PurgesAreDue == Spec => PurgeOnlyExpired
<1> DEFINE Due == \A t \in Tasks :
        row[t] = "live" /\ row'[t] = "gone" /\ list'[home[t]] = "live"
            => deletedFor[t] # Null /\ deletedFor[t] > Retention
<1>1. IInv /\ [Next]_vars => Due
  <2> SUFFICES ASSUME IInv, [Next]_vars PROVE Due
    OBVIOUS
  <2> USE DEF IInv, TypeOK
  <2>1. ASSUME NEW l \in Lists, CreateList(l) PROVE Due
    BY <2>1 DEF CreateList, taskVars, handlerVars
  <2>2. ASSUME NEW h \in Handlers, NEW l \in Lists, DeleteCheck(h, l) PROVE Due
    BY <2>2 DEF DeleteCheck, Begin, taskVars, handlerVars
  <2>3. ASSUME NEW h \in Handlers, DeleteCount(h) PROVE Due
    BY <2>3 DEF DeleteCount, taskVars, handlerVars
  <2>4. ASSUME NEW h \in Handlers, DeleteList(h) PROVE Due
    <3>1. /\ list'[onList[h]] = "gone"
          /\ \A t \in Tasks : row'[t] = IF t \in RowsOf(onList[h]) THEN "gone" ELSE row[t]
      BY <2>4, RemoveFacts DEF DeleteList, Cascade
    <3>2. QED
      BY <3>1 DEF RowsOf
  <2>5. ASSUME DeleteAccount PROVE Due
    <3>1. \A l \in Lists : list'[l] = "gone"
      BY <2>5 DEF DeleteAccount
    <3>2. QED
      BY <3>1
  <2>6. ASSUME NEW h \in Handlers, NEW l \in Lists, CreateCheck(h, l) PROVE Due
    BY <2>6 DEF CreateCheck, Begin, taskVars, handlerVars
  <2>7. ASSUME NEW h \in Handlers, NEW t \in Tasks, InsertStart(h, t) PROVE Due
    BY <2>7 DEF InsertStart, taskVars, handlerVars
  <2>8. ASSUME NEW h \in Handlers, InsertCommit(h) PROVE Due
    BY <2>8, FinishFacts DEF InsertCommit, ParentExists, taskVars, handlerVars
  <2>9. ASSUME NEW h \in Handlers, NEW l \in Lists, ReorderCheck(h, l) PROVE Due
    BY <2>9 DEF ReorderCheck, Begin, taskVars, handlerVars
  <2>10. ASSUME NEW h \in Handlers, SetPositions(h) PROVE Due
    BY <2>10 DEF SetPositions, taskVars, handlerVars
  <2>11. ASSUME NEW h \in Handlers, CommitOrder(h) PROVE Due
    BY <2>11, FinishFacts DEF CommitOrder, Renumbered, RowsOf, taskVars, handlerVars
  <2>12. ASSUME NEW t \in Tasks, NEW c \in BOOLEAN, SetCompletion(t, c) PROVE Due
    BY <2>12 DEF SetCompletion, taskVars, handlerVars
  <2>13. ASSUME NEW t \in Tasks, SoftDelete(t) PROVE Due
    BY <2>13 DEF SoftDelete, taskVars, handlerVars
  <2>14. ASSUME NEW t \in Tasks, Restore(t) PROVE Due
    BY <2>14 DEF Restore, taskVars, handlerVars
  <2>15. ASSUME Purge PROVE Due
    <3>1. PICK B \in SUBSET (Expired \ Locked) : Remove(B)
      BY <2>15 DEF Purge
    <3>2. \A t \in Tasks : row'[t] = IF t \in B THEN "gone" ELSE row[t]
      BY <3>1, RemoveFacts
    <3>3. QED
      BY <3>1, <3>2 DEF Expired
  <2>16. ASSUME Tick PROVE Due
    BY <2>16 DEF Tick, taskVars, handlerVars
  <2>17. ASSUME NEW h \in Handlers, ExportStart(h) PROVE Due
    BY <2>17 DEF ExportStart, taskVars, handlerVars
  <2>18. ASSUME NEW h \in Handlers, ExportEnd(h) PROVE Due
    BY <2>18, FinishFacts DEF ExportEnd, taskVars, handlerVars
  <2>19. ASSUME NEW h \in Handlers, Fail(h) PROVE Due
    <3>1. \A t \in Tasks : row'[t] = IF t = making[h] THEN "gone" ELSE row[t]
      BY <2>19 DEF Fail
    <3>2. making[h] \in Tasks => row[making[h]] = "inserting"
      BY TasksAssumption DEF InsertInv, Inserts
    <3>3. QED
      BY <3>1, <3>2
  <2>20. ASSUME UNCHANGED vars PROVE Due
    BY <2>20 DEF vars, taskVars, handlerVars
  <2>21. QED
    BY <2>1, <2>2, <2>3, <2>4, <2>5, <2>6, <2>7, <2>8, <2>9, <2>10, <2>11,
       <2>12, <2>13, <2>14, <2>15, <2>16, <2>17, <2>18, <2>19, <2>20 DEF Next
<1>2. QED
  BY <1>1, SafetyInductive, PTL DEF Spec, PurgeOnlyExpired

\* The retention clock of a task that stays deleted never goes back.
THEOREM ClocksRunForward == Spec => ClockNeverRestarts
<1> DEFINE Forward == \A t \in Tasks :
        deletedFor[t] # Null /\ deletedFor'[t] # Null => deletedFor'[t] >= deletedFor[t]
<1>1. TypeOK /\ [Next]_vars => Forward
  <2> SUFFICES ASSUME TypeOK, [Next]_vars PROVE Forward
    OBVIOUS
  <2>0. \A t \in Tasks : deletedFor[t] # Null => deletedFor[t] \in Nat
    BY LimitsAssumption DEF TypeOK
  <2>1. ASSUME NEW t \in Tasks, SoftDelete(t) PROVE Forward
    BY <2>0, <2>1 DEF SoftDelete, Stamped, TypeOK
  <2>2. ASSUME NEW t \in Tasks, Restore(t) PROVE Forward
    BY <2>0, <2>2 DEF Restore, TypeOK
  <2>3. ASSUME Tick PROVE Forward
    BY <2>0, <2>3 DEF Tick
  <2>4. ASSUME NEW S, Remove(S) PROVE Forward
    BY <2>0, <2>4 DEF Remove
  <2>5. ASSUME UNCHANGED deletedFor PROVE Forward
    BY <2>0, <2>5
  <2>6. QED
    BY <2>1, <2>2, <2>3, <2>4, <2>5
       DEF Next, CreateList, DeleteCheck, DeleteCount, DeleteList, DeleteAccount, CreateCheck, InsertStart,
           InsertCommit, ReorderCheck, SetPositions, CommitOrder, SetCompletion, taskVars,
           Purge, ExportStart, ExportEnd, Fail, vars
<1>2. QED
  BY <1>1, TypeCorrect, PTL DEF Spec, ClockNeverRestarts
=============================================================================
