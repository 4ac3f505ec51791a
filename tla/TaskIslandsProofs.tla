------------------------- MODULE TaskIslandsProofs -------------------------
(***************************************************************************)
(* What holds of the list view, the task panel and the undo snackbar for   *)
(* every set of tasks, fields and requests in flight: what a quiet tab     *)
(* shows is what is stored, nothing is left disabled, and the offer to     *)
(* undo is not kept open by pausing it.                                    *)
(***************************************************************************)
EXTENDS TaskIslands, FiniteSetTheorems, SequenceTheorems, TLAPS

-----------------------------------------------------------------------------
(* Sequences without repetition.                                           *)

\* An element that is not there yet, appended.
LEMMA Appended ==
    ASSUME NEW S, NEW s \in Seq(S), IsInjective(s), NEW e \in S, e \notin ToSet(s)
    PROVE  /\ Append(s, e) \in Seq(S)
           /\ IsInjective(Append(s, e))
           /\ ToSet(Append(s, e)) = ToSet(s) \cup {e}
<1> DEFINE t == Append(s, e)
<1>1. t \in Seq(S) /\ Len(t) = Len(s) + 1 /\ t[Len(s) + 1] = e
    BY AppendProperties
<1>2. \A k \in 1..Len(s) : t[k] = s[k]
    BY AppendProperties
<1>3. DOMAIN s = 1..Len(s) /\ DOMAIN t = 1..(Len(s) + 1) /\ Len(s) \in Nat
    BY <1>1, LenProperties
<1>4. \A a \in DOMAIN t : a \in DOMAIN s \/ a = Len(s) + 1
    BY <1>3
<1>5. ToSet(t) = ToSet(s) \cup {e}
    BY <1>1, <1>2, <1>3, <1>4 DEF ToSet
<1>6. IsInjective(t)
    <2> SUFFICES ASSUME NEW a \in DOMAIN t, NEW b \in DOMAIN t, t[a] = t[b]
                 PROVE  a = b
        BY DEF IsInjective
    <2>1. \A k \in DOMAIN s : s[k] # e
        BY DEF ToSet
    <2>2. QED
        BY <1>1, <1>2, <1>3, <1>4, <2>1 DEF IsInjective
<1>7. QED
    BY <1>1, <1>5, <1>6

\* An element taken out.
LEMMA TakenOut ==
    ASSUME NEW S, NEW s \in Seq(S), IsInjective(s), NEW k \in DOMAIN s
    PROVE  /\ RemoveAt(s, k) \in Seq(S)
           /\ IsInjective(RemoveAt(s, k))
           /\ ToSet(RemoveAt(s, k)) = ToSet(s) \ {s[k]}
           /\ Len(RemoveAt(s, k)) = Len(s) - 1
<1> DEFINE t == RemoveAt(s, k)
           n == Len(s)
<1>1. n \in Nat /\ DOMAIN s = 1..n /\ k \in 1..n /\ \A j \in 1..n : s[j] \in S
    BY LenProperties, ElementOfSeq
<1>2. PICK p \in Seq(S) : /\ p = SubSeq(s, 1, k - 1) /\ Len(p) = k - 1
                         /\ \A j \in 1..(k - 1) : p[j] = s[j]
    <2>1. /\ SubSeq(s, 1, k - 1) \in Seq(S) /\ Len(SubSeq(s, 1, k - 1)) = IF 1 <= k - 1 THEN (k - 1) - 1 + 1 ELSE 0
          /\ \A j \in 1..((k - 1) - 1 + 1) : SubSeq(s, 1, k - 1)[j] = s[1 + j - 1]
        <3>1. 1 \in Int /\ k - 1 \in Int /\ \A j \in 1..(k - 1) : s[j] \in S
            BY <1>1
        <3>2. QED
            BY <3>1, SubSeqProperties
    <2>2. \A j \in 1..(k - 1) : 1 + j - 1 = j /\ j \in 1..((k - 1) - 1 + 1)
        BY <1>1
    <2>3. Len(SubSeq(s, 1, k - 1)) = k - 1
        BY <1>1, <2>1
    <2>4. QED
        BY <2>1, <2>2, <2>3
<1>3. PICK q \in Seq(S) : /\ q = SubSeq(s, k + 1, n) /\ Len(q) = n - k
                         /\ \A j \in 1..(n - k) : q[j] = s[k + j]
    <2>1. /\ SubSeq(s, k + 1, n) \in Seq(S) /\ Len(SubSeq(s, k + 1, n)) = n - k
          /\ \A j \in 1..(n - k) : SubSeq(s, k + 1, n)[j] = s[(k + 1) + j - 1]
        <3>1. k + 1 \in Int /\ n \in Int /\ \A j \in (k + 1)..n : s[j] \in S
            BY <1>1
        <3>2. /\ SubSeq(s, k + 1, n) \in Seq(S)
              /\ Len(SubSeq(s, k + 1, n)) = IF k + 1 <= n THEN n - (k + 1) + 1 ELSE 0
              /\ \A j \in 1..(n - (k + 1) + 1) : SubSeq(s, k + 1, n)[j] = s[(k + 1) + j - 1]
            BY <3>1, SubSeqProperties
        <3>3. n - (k + 1) + 1 = n - k /\ (~(k + 1 <= n) => n - k = 0)
            BY <1>1
        <3>4. QED
            BY <3>2, <3>3
    <2>2. \A j \in 1..(n - k) : (k + 1) + j - 1 = k + j
        BY <1>1
    <2>3. QED
        BY <2>1, <2>2
<1>0. t = p \o q
    BY <1>2, <1>3 DEF RemoveAt
<1> HIDE DEF t
<1>10. /\ t \in Seq(S) /\ Len(t) = Len(p) + Len(q)
       /\ \A j \in 1..(Len(p) + Len(q)) : t[j] = IF j <= Len(p) THEN p[j] ELSE q[j - Len(p)]
    <2>1. /\ p \o q \in Seq(S) /\ Len(p \o q) = Len(p) + Len(q)
          /\ \A j \in 1..(Len(p) + Len(q)) : (p \o q)[j] = IF j <= Len(p) THEN p[j] ELSE q[j - Len(p)]
        BY ConcatProperties
    <2>2. QED
        BY <1>0, <2>1, Zenon
<1>4. t \in Seq(S) /\ Len(t) = n - 1
    <2>1. Len(t) = (k - 1) + (n - k)
        BY <1>10, <1>2, <1>3
    <2>2. n \in Nat /\ k \in Nat
        BY <1>1
    <2>3. Len(t) = n - 1
        BY <2>1, <2>2
    <2>4. QED
        BY <1>10, <2>3, Zenon
<1>5. \A j \in 1..(n - 1) : t[j] = IF j < k THEN s[j] ELSE s[j + 1]
    <2> TAKE j \in 1..(n - 1)
    <2>0. t[j] = IF j <= Len(p) THEN p[j] ELSE q[j - Len(p)]
        <3>1. j \in 1..(Len(p) + Len(q))
            BY <1>1, <1>2, <1>3
        <3>2. QED
            BY <3>1, <1>10
    <2>1. CASE j < k
        <3>1. j <= Len(p) /\ j \in 1..(k - 1)
            BY <1>1, <1>2, <2>1
        <3>2. QED
            BY <1>2, <2>0, <2>1, <3>1
    <2>2. CASE ~(j < k)
        <3>1. j - (k - 1) \in 1..(n - k) /\ k + (j - (k - 1)) = j + 1
            BY <1>1, <2>2
        <3>2. QED
            <4>1. ~(j <= Len(p)) /\ j - Len(p) = j - (k - 1)
                BY <1>1, <1>2, <2>2
            <4>2. QED
                BY <1>3, <2>0, <2>2, <3>1, <4>1
    <2>3. QED
        BY <2>1, <2>2
<1>6. DOMAIN t = 1..(n - 1)
    BY <1>1, <1>4, LenProperties
<1>7. IsInjective(t)
    <2> SUFFICES ASSUME NEW a \in 1..(n - 1), NEW b \in 1..(n - 1), t[a] = t[b]
                 PROVE  a = b
        BY <1>6 DEF IsInjective
    <2> DEFINE at(j) == IF j < k THEN j ELSE j + 1
    <2>1. \A j \in 1..(n - 1) : at(j) \in DOMAIN s /\ t[j] = s[at(j)]
        BY <1>1, <1>5
    <2>2. at(a) = at(b)
        BY <2>1 DEF IsInjective
    <2>3. QED
        BY <1>1, <2>2
<1>8. ToSet(t) = ToSet(s) \ {s[k]}
    <2>1. ASSUME NEW j \in 1..(n - 1) PROVE t[j] \in ToSet(s) /\ t[j] # s[k]
        <3>1. PICK m \in 1..n : m # k /\ t[j] = s[m]
            <4>1. CASE j < k
                <5>1. j \in 1..n /\ j # k
                    BY <1>1, <4>1
                <5>2. QED
                    BY <1>5, <4>1, <5>1
            <4>2. CASE ~(j < k)
                <5>1. j + 1 \in 1..n /\ j + 1 # k
                    BY <1>1, <4>2
                <5>2. QED
                    BY <1>5, <4>2, <5>1
            <4>3. QED
                BY <4>1, <4>2
        <3>2. QED
            BY <3>1, <1>1 DEF IsInjective, ToSet
    <2>2. ASSUME NEW m \in DOMAIN s, m # k PROVE s[m] \in ToSet(t)
        <3>1. PICK j \in 1..(n - 1) : t[j] = s[m]
            <4>1. CASE m < k
                <5>1. m \in 1..(n - 1)
                    BY <1>1, <4>1
                <5>2. QED
                    BY <1>5, <4>1, <5>1
            <4>2. CASE ~(m < k)
                <5>1. m - 1 \in 1..(n - 1) /\ ~(m - 1 < k) /\ (m - 1) + 1 = m
                    BY <1>1, <2>2, <4>2
                <5>2. QED
                    BY <1>5, <5>1
            <4>3. QED
                BY <4>1, <4>2
        <3>2. QED
            BY <1>6, <3>1 DEF ToSet
    <2>3. QED
        BY <1>6, <2>1, <2>2 DEF ToSet
<1>9. QED
    BY <1>4, <1>7, <1>8 DEF t

\* An element that is not there yet, put in at any place.
LEMMA PutIn ==
    ASSUME NEW S, NEW s \in Seq(S), IsInjective(s), NEW e \in S, e \notin ToSet(s),
           NEW k \in 1..(Len(s) + 1)
    PROVE  /\ InsertAt(s, k, e) \in Seq(S)
           /\ IsInjective(InsertAt(s, k, e))
           /\ ToSet(InsertAt(s, k, e)) = ToSet(s) \cup {e}
<1> DEFINE t == InsertAt(s, k, e)
           n == Len(s)
           h == <<e>>
<1>1. n \in Nat /\ DOMAIN s = 1..n /\ k \in 1..(n + 1) /\ \A j \in 1..n : s[j] \in S
    BY LenProperties, ElementOfSeq
<1>2. PICK p \in Seq(S) : /\ p = SubSeq(s, 1, k - 1) /\ Len(p) = k - 1
                         /\ \A j \in 1..(k - 1) : p[j] = s[j]
    <2>1. /\ SubSeq(s, 1, k - 1) \in Seq(S) /\ Len(SubSeq(s, 1, k - 1)) = IF 1 <= k - 1 THEN (k - 1) - 1 + 1 ELSE 0
          /\ \A j \in 1..((k - 1) - 1 + 1) : SubSeq(s, 1, k - 1)[j] = s[1 + j - 1]
        <3>1. 1 \in Int /\ k - 1 \in Int /\ \A j \in 1..(k - 1) : s[j] \in S
            BY <1>1
        <3>2. QED
            BY <3>1, SubSeqProperties
    <2>2. \A j \in 1..(k - 1) : 1 + j - 1 = j /\ j \in 1..((k - 1) - 1 + 1)
        BY <1>1
    <2>3. Len(SubSeq(s, 1, k - 1)) = k - 1
        BY <1>1, <2>1
    <2>4. QED
        BY <2>1, <2>2, <2>3
<1>3. PICK q \in Seq(S) : /\ q = SubSeq(s, k, n) /\ Len(q) = n - k + 1
                         /\ \A j \in 1..(n - k + 1) : q[j] = s[k + j - 1]
    <2>1. k \in Int /\ n \in Int /\ \A j \in k..n : s[j] \in S
        BY <1>1
    <2>2. /\ SubSeq(s, k, n) \in Seq(S)
          /\ Len(SubSeq(s, k, n)) = IF k <= n THEN n - k + 1 ELSE 0
          /\ \A j \in 1..(n - k + 1) : SubSeq(s, k, n)[j] = s[k + j - 1]
        BY <2>1, SubSeqProperties
    <2>3. ~(k <= n) => n - k + 1 = 0
        BY <1>1
    <2>4. QED
        BY <2>2, <2>3
<1>4. h \in Seq(S) /\ Len(h) = 1 /\ h[1] = e
    OBVIOUS
<1>5. t = (p \o h) \o q
    BY <1>2, <1>3 DEF InsertAt
<1> HIDE DEF t, h
<1>6. PICK ph \in Seq(S) : /\ ph = p \o h /\ Len(ph) = k
                          /\ ph[k] = e /\ \A j \in 1..(k - 1) : ph[j] = s[j]
    <2>1. /\ p \o h \in Seq(S) /\ Len(p \o h) = Len(p) + Len(h)
          /\ \A j \in 1..(Len(p) + Len(h)) : (p \o h)[j] = IF j <= Len(p) THEN p[j] ELSE h[j - Len(p)]
        BY <1>4, ConcatProperties
    <2>2. Len(p) + Len(h) = k /\ k \in 1..k /\ ~(k <= Len(p)) /\ k - Len(p) = 1
        BY <1>1, <1>2, <1>4
    <2>3. \A j \in 1..(k - 1) : j \in 1..k /\ j <= Len(p)
        BY <1>1, <1>2
    <2>4. (p \o h)[k] = e
        BY <1>4, <2>1, <2>2
    <2>5. \A j \in 1..(k - 1) : (p \o h)[j] = s[j]
        BY <1>2, <2>1, <2>2, <2>3
    <2>6. QED
        BY <2>1, <2>2, <2>4, <2>5
<1>7. /\ t \in Seq(S) /\ Len(t) = n + 1 /\ t[k] = e
      /\ \A j \in 1..(k - 1) : t[j] = s[j]
      /\ \A j \in (k + 1)..(n + 1) : t[j] = s[j - 1]
    <2>1. /\ ph \o q \in Seq(S) /\ Len(ph \o q) = Len(ph) + Len(q)
          /\ \A j \in 1..(Len(ph) + Len(q)) : (ph \o q)[j] = IF j <= Len(ph) THEN ph[j] ELSE q[j - Len(ph)]
        BY ConcatProperties
    <2>2. t = ph \o q /\ Len(ph) + Len(q) = n + 1
        BY <1>1, <1>3, <1>5, <1>6
    <2>3. \A j \in 1..k : j \in 1..(n + 1) /\ j <= Len(ph)
        BY <1>1, <1>6
    <2>4. ASSUME NEW j \in (k + 1)..(n + 1) PROVE t[j] = s[j - 1]
        <3>1. j \in 1..(n + 1) /\ ~(j <= Len(ph)) /\ j - Len(ph) = j - k /\ j - k \in 1..(n - k + 1)
            BY <1>1, <1>6
        <3>2. k + (j - k) - 1 = j - 1
            BY <1>1
        <3>3. t[j] = q[j - k]
            BY <2>1, <2>2, <3>1
        <3>4. q[j - k] = s[k + (j - k) - 1]
            BY <1>3, <3>1
        <3>5. QED
            BY <3>2, <3>3, <3>4, Zenon
    <2>5. \A j \in 1..k : t[j] = ph[j]
        BY <2>1, <2>2, <2>3
    <2>6. k \in 1..k /\ \A j \in 1..(k - 1) : j \in 1..k
        BY <1>1
    <2>7. QED
        BY <1>6, <2>1, <2>2, <2>4, <2>5, <2>6
<1>8. DOMAIN t = 1..(n + 1)
    BY <1>1, <1>7, LenProperties
<1>9. \A j \in 1..(n + 1) : \/ j = k
                            \/ j \in 1..(k - 1) /\ j \in 1..n
                            \/ j \in (k + 1)..(n + 1) /\ j - 1 \in 1..n /\ ~(j - 1 < k)
    BY <1>1
<1>10. \A j \in 1..n : s[j] # e
    BY <1>1 DEF ToSet
<1>11. IsInjective(t)
    <2> SUFFICES ASSUME NEW a \in 1..(n + 1), NEW b \in 1..(n + 1), t[a] = t[b]
                 PROVE  a = b
        BY <1>8 DEF IsInjective
    <2>1. \A c \in 1..(n + 1) : t[c] = e => c = k
        BY <1>7, <1>9, <1>10
    <2>2. CASE a = k \/ b = k
        BY <1>7, <2>1, <2>2
    <2>3. CASE a # k /\ b # k
        <3> DEFINE at(j) == IF j < k THEN j ELSE j - 1
        <3>1. ASSUME NEW j \in 1..(n + 1), j # k PROVE at(j) \in DOMAIN s /\ t[j] = s[at(j)]
            <4>1. CASE j < k
                <5>1. j \in 1..(k - 1) /\ j \in 1..n
                    BY <1>1, <4>1
                <5>2. QED
                    BY <1>1, <1>7, <4>1, <5>1
            <4>2. CASE ~(j < k)
                <5>1. j \in (k + 1)..(n + 1) /\ j - 1 \in 1..n
                    BY <1>1, <3>1, <4>2
                <5>2. QED
                    BY <1>1, <1>7, <4>2, <5>1
            <4>3. QED
                BY <4>1, <4>2
        <3>2. at(a) = at(b)
            BY <2>3, <3>1 DEF IsInjective
        <3>3. QED
            BY <1>1, <2>3, <3>2
    <2>4. QED
        BY <2>2, <2>3
<1>12. ToSet(t) = ToSet(s) \cup {e}
    <2>1. \A j \in 1..(n + 1) : t[j] \in ToSet(s) \cup {e}
        BY <1>1, <1>7, <1>9 DEF ToSet
    <2>2. ASSUME NEW j \in 1..n PROVE s[j] \in ToSet(t)
        <3>1. CASE j < k
            <4>1. j \in 1..(k - 1) /\ j \in 1..(n + 1)
                BY <1>1, <3>1
            <4>2. QED
                BY <1>7, <1>8, <4>1 DEF ToSet
        <3>2. CASE ~(j < k)
            <4>1. j + 1 \in (k + 1)..(n + 1) /\ (j + 1) - 1 = j /\ j + 1 \in 1..(n + 1)
                BY <1>1, <3>2
            <4>2. t[j + 1] = s[j]
                BY <1>7, <4>1
            <4>3. QED
                BY <1>8, <4>1, <4>2 DEF ToSet
        <3>3. QED
            BY <3>1, <3>2
    <2>3. e \in ToSet(t)
        <3>1. k \in 1..(n + 1)
            BY <1>1
        <3>2. QED
            BY <1>7, <1>8, <3>1 DEF ToSet
    <2>4. QED
        BY <1>1, <1>8, <2>1, <2>2, <2>3 DEF ToSet
<1>13. QED
    BY <1>7, <1>11, <1>12 DEF t

-----------------------------------------------------------------------------
(* The inductive invariant.                                                *)

\* Rows in an order, each once.
Orders == {s \in Seq(Tasks) : IsInjective(s)}
Shown == [active : Orders, done : SUBSET Tasks]

StoreOK ==
    /\ active \in Orders /\ done \subseteq Tasks /\ trash \subseteq Tasks
    /\ done \cap ToSet(active) = {} /\ trash \cap ToSet(active) = {}
    /\ row \in [Tasks -> RowType]

BoxType == [mark : {"none", "open", "done"}, pending : BOOLEAN]
BoardType == [order : Orders, error : BOOLEAN]
DraftType == [title : {"", "b"}, submitting : BOOLEAN, error : BOOLEAN]
PanelType == [task : Tasks \cup {None}, shown : RowType, checked : BOOLEAN, typed : Values,
              focused : BOOLEAN, saving : Fields \cup {"none"}, failed : SUBSET Fields,
              overlapped : BOOLEAN, confirming : BOOLEAN, submitting : BOOLEAN, error : BOOLEAN]
SnackType == [task : Tasks \cup {None}, pending : BOOLEAN, error : BOOLEAN, paused : BOOLEAN,
              remaining : 0..Window, elapsed : 0..Window, shownFor : 0..Window, arriving : BOOLEAN]
RefreshType == [asked : BOOLEAN, reading : BOOLEAN, view : Shown, gone : Tasks \cup {None}]

ListOK ==
    /\ trail \in Trails /\ backs \in Nat
    /\ props \in Shown /\ refresh \in RefreshType
    /\ board \in BoardType
    /\ box \in [Sections -> [Tasks -> BoxType]]
    /\ composer \in DraftType

PanelTyped == panel \in PanelType /\ (panel.focused => "title" \in Fields)

\* What has been shown and what is left of it never exceed the window.
SnackOK ==
    /\ snack \in SnackType
    /\ snack.elapsed <= snack.remaining
    /\ snack.shownFor + snack.remaining <= Window + snack.elapsed

Sent == [kind : Kinds, answer : Answers, alive : BOOLEAN, task : Tasks \cup {None},
         section : Sections, next : BOOLEAN, vector : Orders, previous : Orders,
         field : Fields \cup {"none"}, value : Values, saved : RowType, completed : BOOLEAN]
RequestsOK ==
    /\ flight \in [Slots -> Sent]
    /\ \A i \in Slots :
        /\ flight[i].kind = "free" => flight[i].answer = "none"
        /\ flight[i].kind \in {"toggle", "save", "delete", "restore"} => flight[i].task \in Tasks
        /\ flight[i].kind = "save" => flight[i].field \in Fields

BoundsOK == acts \in 0..MaxActs /\ lost \in 0..MaxLost /\ behind \in BOOLEAN /\ contended \subseteq Tasks

TypeInv == StoreOK /\ ListOK /\ PanelTyped /\ SnackOK /\ RequestsOK /\ BoundsOK

\* What a render would show is what is stored.
Current(v) == v.active = active /\ v.done = done \ trash

\* A deletion was announced: leaving the panel, or coming back to the list, will ask.
Expected == snack.arriving /\ (backs > 0 \/ Route = Elsewhere)

\* Rows that are not up to date have something on its way: a change nobody is told of, a
\* refresh, an answer or a route that will ask for one, or a render.
Covered ==
    \/ behind \/ refresh.asked \/ Expected
    \/ \E i \in Slots : flight[i].answer = "ok"
    \/ refresh.reading /\ Current(refresh.view)
    \/ ~refresh.reading /\ Current(props)

\* A request of an island that is there.
Out(kind) == \E i \in Slots : flight[i].kind = kind /\ flight[i].alive

\* An order that is only on the screen has its request out, a refresh coming, or an error
\* over it; a list that is not there has none.
BoardOK ==
    /\ Route = Elsewhere => board.order = <<>> /\ ~Out("reorder")
    /\ board.order # <<>> /\ ~board.error => refresh.asked \/ refresh.reading \/ Out("reorder")

Ticking(i, t) == flight[i].kind = "toggle" /\ flight[i].task = t

\* The mark would move the task to the other section; the store has it there.
Wrong(s, t) == box[s][t].mark = IF s = "active" THEN "done" ELSE "open"
Away(s, t) == IF s = "active" THEN t \in done ELSE t \notin done

\* A mark against its section is stored, or is the only request for its task.
TicksOK ==
    \A t \in Tasks \ contended :
        /\ \A i, j \in Slots : Ticking(i, t) /\ Ticking(j, t) => i = j
        /\ \A s \in {"active", "done"} : Wrong(s, t) =>
            /\ \A i \in Slots : Ticking(i, t) =>
                /\ flight[i].section = s /\ flight[i].alive /\ flight[i].next = (s = "active")
                /\ flight[i].answer = "ok" => Away(s, t)
            /\ (\E i \in Slots : Ticking(i, t)) \/ Away(s, t)

\* The panel's copy is stored, or its only save is out or has failed.
PanelOK ==
    panel.task # None /\ ~panel.overlapped =>
        /\ \A i, j \in Slots : flight[i].kind = "save" /\ flight[j].kind = "save" => i = j
        /\ \A i \in Slots : flight[i].kind = "save" =>
            /\ flight[i].alive /\ panel.saving # "none" /\ flight[i].task = panel.task
            /\ flight[i].answer = "ok" => flight[i].saved = row[panel.task]
        /\ (\A i \in Slots : flight[i].kind # "save") /\ panel.failed = {} =>
            panel.shown = row[panel.task]

\* Whatever is disabled waits for a request of its own that is out, or to be left.
BoxesWait ==
    \A s \in Sections, t \in Tasks : box[s][t].pending =>
        \E i \in Slots : Ticking(i, t) /\ flight[i].section = s /\ flight[i].alive
DraftWaits == composer.submitting => Out("create")
PanelWaits ==
    /\ panel.saving # "none" => Out("save")
    /\ panel.submitting => Out("delete") \/ backs > 0
SnackWaits ==
    /\ snack.pending => \E i \in Slots : flight[i].kind = "restore"
    /\ snack.task = None => ~snack.pending
WaitsOK == BoxesWait /\ DraftWaits /\ PanelWaits /\ SnackWaits

IInv == TypeInv /\ Covered /\ BoardOK /\ TicksOK /\ PanelOK /\ WaitsOK

-----------------------------------------------------------------------------
(* The stored list.                                                        *)

\* A list of tasks without one of them.
LEMMA WithoutOne ==
    ASSUME StoreOK, NEW t \in Tasks
    PROVE  Without(t) \in Orders /\ ToSet(Without(t)) = ToSet(active) \ {t}
<1>1. active \in Seq(Tasks) /\ IsInjective(active)
    BY DEF StoreOK, Orders
<1>2. CASE t \in ToSet(active)
    <2>1. PICK k \in DOMAIN active : k = (CHOOSE m \in DOMAIN active : active[m] = t) /\ active[k] = t
        BY <1>2 DEF ToSet
    <2>2. Without(t) = RemoveAt(active, k)
        BY <1>2, <2>1 DEF Without
    <2>3. QED
        BY <1>1, <2>1, <2>2, TakenOut DEF Orders
<1>3. CASE t \notin ToSet(active)
    BY <1>1, <1>3 DEF Without, Orders
<1>4. QED
    BY <1>2, <1>3

\* A reopened task is back in the list once.
LEMMA RejoinedOne ==
    ASSUME StoreOK, NEW t \in Tasks, t \notin ToSet(active), NEW o \in Rejoined(t)
    PROVE  o \in Orders /\ ToSet(o) = ToSet(active) \cup {t}
<1>1. active \in Seq(Tasks) /\ IsInjective(active)
    BY DEF StoreOK, Orders
<1>2. PICK k \in 1..(Len(active) + 1) : o = InsertAt(active, k, t)
    BY DEF Rejoined
<1>3. QED
    BY <1>1, <1>2, PutIn DEF Orders

\* A new or restored task is in the list once.
LEMMA AppendedOne ==
    ASSUME NEW o \in Orders, NEW t \in Tasks, t \notin ToSet(o)
    PROVE  Append(o, t) \in Orders /\ ToSet(Append(o, t)) = ToSet(o) \cup {t}
BY Appended DEF Orders

\* A task that is not deleted is completed or reopened.
LEMMA CompletedKept ==
    ASSUME StoreOK, NEW t \in Tasks, t \notin trash, NEW c \in BOOLEAN, Completed(t, c),
           UNCHANGED <<trash, row>>
    PROVE  StoreOK'
<1>1. CASE c
    <2>1. active' = Without(t) /\ done' = done \cup {t}
        BY <1>1 DEF Completed
    <2>2. active' \in Orders /\ ToSet(active') = ToSet(active) \ {t}
        BY <2>1, WithoutOne
    <2>3. QED
        BY <2>1, <2>2 DEF StoreOK
<1>2. CASE ~c /\ t \in ToSet(active)
    BY <1>2 DEF Completed, StoreOK
<1>3. CASE ~c /\ t \notin ToSet(active)
    <2>1. active' \in Rejoined(t) /\ done' = done \ {t}
        BY <1>3 DEF Completed
    <2>2. active' \in Orders /\ ToSet(active') = ToSet(active) \cup {t}
        BY <1>3, <2>1, RejoinedOne
    <2>3. QED
        BY <2>1, <2>2 DEF StoreOK
<1>4. QED
    BY <1>1, <1>2, <1>3

\* A deletion takes the task out of the list or keeps it among the completed.
LEMMA TrashedKept ==
    ASSUME StoreOK, NEW t \in Tasks, Trashed(t), UNCHANGED <<done, row>>
    PROVE  StoreOK'
<1>1. active' = Without(t) /\ trash' = trash \cup {t}
    BY DEF Trashed
<1>2. active' \in Orders /\ ToSet(active') = ToSet(active) \ {t}
    BY <1>1, WithoutOne
<1>3. QED
    BY <1>1, <1>2 DEF StoreOK

\* Nothing is stored.
LEMMA StoreSame ==
    ASSUME StoreOK, UNCHANGED store
    PROVE  StoreOK'
BY DEF StoreOK, store

\* What a read of the list shows.
LEMMA ViewShown ==
    ASSUME StoreOK
    PROVE  View \in Shown /\ Current(View)
BY DEF StoreOK, View, Shown, Current

\* One field of a stored row is replaced.
LEMMA RowSaved ==
    ASSUME NEW r \in RowType, NEW f \in Fields, NEW v \in Values
    PROVE  [r EXCEPT ![f] = v] \in RowType
<1>1. f \in {"title", "dueAt", "priority"}
    BY FieldsAssumption
<1>2. CASE f = "title"
    BY <1>2 DEF RowType
<1>3. CASE f = "dueAt"
    BY <1>3 DEF RowType
<1>4. CASE f = "priority"
    BY <1>4 DEF RowType
<1>5. QED
    BY <1>1, <1>2, <1>3, <1>4

-----------------------------------------------------------------------------
(* Requests.                                                               *)

\* Two records of the same request.
Like(q, r) ==
    /\ q.kind = r.kind /\ q.task = r.task /\ q.section = r.section
    /\ q.next = r.next /\ q.field = r.field

\* A slot without a request.
LEMMA FreeSlot == Free \in Sent /\ Free.kind = "free" /\ Free.answer = "none" /\ Free.alive
<1>1. <<>> \in Orders
    BY EmptySeq DEF Orders, IsInjective
<1>2. PlainRow \in RowType
    BY DEF PlainRow, RowType, Values
<1>3. QED
    BY <1>1, <1>2 DEF Free, Sent, Kinds, Answers, Sections, Values

\* A request is answered: nothing else of it changes.
Heard(i, a) ==
    /\ flight'[i].answer = a /\ Like(flight'[i], flight[i]) /\ flight'[i].alive = flight[i].alive
    /\ \A j \in Slots : j # i => flight'[j] = flight[j]

\* What is answered was sent.
LEMMA AnsweredKept ==
    ASSUME RequestsOK, NEW i \in Slots, ~Idle(i), flight' \in [Slots -> Sent], NEW a, Heard(i, a)
    PROVE  RequestsOK'
BY DEF RequestsOK, Heard, Like, Idle

\* The server's answer.
LEMMA Replied ==
    ASSUME RequestsOK, NEW i \in Slots, ~Idle(i), NEW a \in Answers, Reply(i, a)
    PROVE  RequestsOK' /\ Heard(i, a) /\ flight'[i].saved = flight[i].saved
<1>1. flight[i] \in Sent
    BY DEF RequestsOK
<1> DEFINE r == [flight[i] EXCEPT !.answer = a]
<1>2. r \in Sent /\ r.answer = a /\ Like(r, flight[i]) /\ r.alive = flight[i].alive /\ r.saved = flight[i].saved
    BY <1>1 DEF Sent, Like
<1>3. flight' = [flight EXCEPT ![i] = r]
    BY DEF Reply
<1> HIDE DEF r
<1>4. flight' \in [Slots -> Sent] /\ flight'[i] = r /\ \A j \in Slots : j # i => flight'[j] = flight[j]
    BY <1>2, <1>3 DEF RequestsOK
<1>5. Heard(i, a)
    BY <1>2, <1>4 DEF Heard
<1>6. QED
    BY <1>2, <1>4, <1>5, AnsweredKept

\* A request is sent in a slot that was free.
Taken(i, q) == Idle(i) /\ flight'[i] = q /\ \A j \in Slots : j # i => flight'[j] = flight[j]

\* A request goes out through a free slot.
LEMMA SentOne ==
    ASSUME RequestsOK, BoundsOK, NEW q \in Sent, Send(q),
           q.kind = "free" => q.answer = "none",
           q.kind \in {"toggle", "save", "delete", "restore"} => q.task \in Tasks,
           q.kind = "save" => q.field \in Fields
    PROVE  /\ RequestsOK' /\ (contended' \subseteq Tasks => BoundsOK')
           /\ UNCHANGED <<store, trail, backs, lost, behind>>
           /\ \E i \in Slots : Taken(i, q)
<1>1. PICK i \in Slots : Idle(i) /\ flight' = [flight EXCEPT ![i] = q]
    BY Zenon DEF Send
<1>2. UNCHANGED <<store, trail, backs, lost, behind>> /\ acts < MaxActs /\ acts' = acts + 1
    BY Zenon DEF Send, Active
<1>3. flight' \in [Slots -> Sent] /\ flight'[i] = q /\ \A j \in Slots : j # i => flight'[j] = flight[j]
    BY <1>1 DEF RequestsOK
<1>4. RequestsOK'
    BY <1>3 DEF RequestsOK
<1>5. acts' \in 0..MaxActs
    BY <1>2, LimitsAssumption DEF BoundsOK
<1>6. contended' \subseteq Tasks => BoundsOK'
    BY <1>2, <1>5 DEF BoundsOK
<1>7. QED
    BY <1>1, <1>2, <1>3, <1>4, <1>6 DEF Taken

\* An answer is taken.
Gone(i) == flight'[i] = Free /\ \A j \in Slots : j # i => flight'[j] = flight[j]

\* An answer is taken and its slot is free again.
LEMMA LandedOne ==
    ASSUME RequestsOK, NEW i \in Slots, Land(i)
    PROVE  RequestsOK' /\ Gone(i)
<1>1. flight' \in [Slots -> Sent] /\ Gone(i)
    BY FreeSlot DEF Land, RequestsOK, Gone
<1>2. QED
    BY <1>1, FreeSlot DEF RequestsOK, Gone

\* Islands are unmounted under their requests.
Cut(fl, dead, j) ==
    /\ Like(flight'[j], fl[j]) /\ flight'[j].answer = fl[j].answer /\ flight'[j].saved = fl[j].saved
    /\ j \in dead => ~flight'[j].alive
    /\ j \notin dead => flight'[j].alive = fl[j].alive

\* The requests of unmounted islands stay, with nobody to hear them.
LEMMA OrphanedOnes ==
    ASSUME NEW fl \in [Slots -> Sent], NEW dead \in SUBSET Slots, flight' = Orphan(fl, dead)
    PROVE  flight' \in [Slots -> Sent] /\ \A j \in Slots : Cut(fl, dead, j)
<1>1. ASSUME NEW j \in Slots
      PROVE  flight'[j] = IF j \in dead THEN [fl[j] EXCEPT !.alive = FALSE] ELSE fl[j]
    BY DEF Orphan
<1>2. ASSUME NEW j \in Slots
      PROVE  LET r == [fl[j] EXCEPT !.alive = FALSE] IN
             /\ r \in Sent /\ Like(r, fl[j]) /\ r.answer = fl[j].answer /\ r.saved = fl[j].saved /\ ~r.alive
    BY DEF Sent, Like
<1>3. ASSUME NEW j \in Slots PROVE flight'[j] \in Sent /\ Cut(fl, dead, j)
    <2>1. CASE j \in dead
        BY <1>1, <1>2, <2>1 DEF Cut
    <2>2. CASE j \notin dead
        <3>1. flight'[j] = fl[j]
            BY <1>1, <2>2
        <3>2. fl[j] \in Sent
            OBVIOUS
        <3>3. QED
            BY <2>2, <3>1, <3>2 DEF Cut, Like
    <2>3. QED
        BY <2>1, <2>2
<1>4. flight' \in [Slots -> Sent]
    BY <1>3 DEF Orphan
<1>5. QED
    BY <1>3, <1>4

\* The same of the requests now in flight.
LEMMA OrphanedKept ==
    ASSUME RequestsOK, NEW dead \in SUBSET Slots, flight' = Orphan(flight, dead)
    PROVE  RequestsOK' /\ \A j \in Slots : Cut(flight, dead, j)
<1>1. flight' \in [Slots -> Sent] /\ \A j \in Slots : Cut(flight, dead, j)
    BY OrphanedOnes DEF RequestsOK
<1>2. QED
    BY <1>1 DEF RequestsOK, Cut, Like

\* One answer is taken while islands are unmounted under others.
LEMMA LandedOrphaned ==
    ASSUME RequestsOK, NEW i \in Slots, NEW dead \in SUBSET Slots,
           flight' = Orphan([flight EXCEPT ![i] = Free], dead)
    PROVE  /\ RequestsOK'
           /\ flight'[i].kind = "free" /\ flight'[i].answer = "none"
           /\ \A j \in Slots : j # i => Cut(flight, dead, j)
<1> DEFINE fl == [flight EXCEPT ![i] = Free]
<1>1. fl \in [Slots -> Sent] /\ fl[i] = Free /\ \A j \in Slots : j # i => fl[j] = flight[j]
    BY FreeSlot DEF RequestsOK
<1>2. flight' = Orphan(fl, dead)
    OBVIOUS
<1> HIDE DEF fl
<1>3. flight' \in [Slots -> Sent] /\ \A j \in Slots : Cut(fl, dead, j)
    BY <1>1, <1>2, OrphanedOnes
<1>4. \A j \in Slots : j # i => Cut(flight, dead, j)
    BY <1>1, <1>3 DEF Cut
<1>5. flight'[i].kind = "free" /\ flight'[i].answer = "none"
    BY <1>1, <1>3, FreeSlot DEF Cut, Like
<1>6. ASSUME NEW j \in Slots
      PROVE  /\ flight'[j].kind = "free" => flight'[j].answer = "none"
             /\ flight'[j].kind \in {"toggle", "save", "delete", "restore"} => flight'[j].task \in Tasks
             /\ flight'[j].kind = "save" => flight'[j].field \in Fields
    <2>1. CASE j = i
        BY <1>5, <2>1
    <2>2. CASE j # i
        BY <1>4, <2>2 DEF RequestsOK, Cut, Like
    <2>3. QED
        BY <2>1, <2>2
<1>7. RequestsOK'
    BY <1>3, <1>6 DEF RequestsOK
<1>8. QED
    BY <1>4, <1>5, <1>7

-----------------------------------------------------------------------------
(* The server's steps.                                                     *)

\* What the server does about a request: nothing, or with an ok.
Serves(i, a) ==
    /\ a \in Answers /\ ~Idle(i) /\ flight[i].answer = "none" /\ Heard(i, a)
    /\ a # "ok" => UNCHANGED store
    /\ flight[i].kind = "toggle" /\ a = "ok" =>
        done' = IF flight[i].next THEN done \cup {flight[i].task} ELSE done \ {flight[i].task}
    /\ flight[i].kind # "toggle" => done' = done
    /\ flight[i].kind # "save" => row' = row
    /\ flight[i].kind = "save" /\ a = "ok" => flight'[i].saved = row'[flight[i].task]

ServeKept(i) ==
    /\ StoreOK' /\ RequestsOK'
    /\ \E a \in Answers : Serves(i, a)

\* A request that is refused.
LEMMA RefusedKept ==
    ASSUME TypeInv, NEW i \in Slots, ~Idle(i), flight[i].answer = "none",
           NEW a \in Answers \ {"ok"}, Reply(i, a), UNCHANGED store
    PROVE  ServeKept(i)
<1>1. RequestsOK' /\ Heard(i, a)
    BY Replied DEF TypeInv
<1>2. StoreOK'
    BY StoreSame DEF TypeInv
<1>3. Serves(i, a)
    BY <1>1 DEF Serves, store
<1>4. QED
    BY <1>1, <1>2, <1>3 DEF ServeKept

\* The service of a reorder.
LEMMA ServeReorderKept ==
    ASSUME TypeInv, NEW i \in Slots, ServeReorder(i)
    PROVE  ServeKept(i)
<1>1. flight[i].kind = "reorder" /\ flight[i].answer = "none" /\ ~Idle(i)
    BY DEF ServeReorder, Waiting, Idle
<1>2. flight[i].vector \in Orders /\ StoreOK /\ RequestsOK
    BY DEF TypeInv, RequestsOK, Sent
<1>3. CASE ToSet(flight[i].vector) = ToSet(active)
    <2>1. active' = flight[i].vector /\ Reply(i, "ok") /\ UNCHANGED <<done, trash, row>>
        BY <1>3 DEF ServeReorder
    <2>2. "ok" \in Answers
        BY DEF Answers
    <2>3. RequestsOK' /\ Heard(i, "ok")
        BY <1>1, <1>2, <2>1, <2>2, Replied
    <2>4. StoreOK'
        BY <1>2, <1>3, <2>1 DEF StoreOK
    <2>5. Serves(i, "ok")
        BY <1>1, <2>1, <2>2, <2>3 DEF Serves
    <2>6. QED
        BY <2>2, <2>3, <2>4, <2>5 DEF ServeKept
<1>4. CASE ToSet(flight[i].vector) # ToSet(active)
    <2>1. Reply(i, "stale") /\ UNCHANGED store /\ "stale" \in Answers \ {"ok"}
        BY <1>4 DEF ServeReorder, store, Answers
    <2>2. QED
        BY <1>1, <2>1, RefusedKept
<1>5. QED
    BY <1>3, <1>4

\* The service of a tick.
LEMMA ServeToggleKept ==
    ASSUME TypeInv, NEW i \in Slots, ServeToggle(i)
    PROVE  ServeKept(i)
<1> DEFINE t == flight[i].task
<1>1. flight[i].kind = "toggle" /\ flight[i].answer = "none" /\ ~Idle(i)
    BY DEF ServeToggle, Waiting, Idle
<1>2. t \in Tasks /\ flight[i].next \in BOOLEAN /\ StoreOK /\ RequestsOK
    BY <1>1 DEF TypeInv, RequestsOK, Sent
<1>3. CASE Present(t)
    <2>1. Completed(t, flight[i].next) /\ Reply(i, "ok") /\ UNCHANGED <<trash, row>>
        BY <1>3, Zenon DEF ServeToggle
    <2>2. "ok" \in Answers /\ t \notin trash
        BY <1>3 DEF Answers, Present
    <2>3. RequestsOK' /\ Heard(i, "ok")
        BY <1>1, <1>2, <2>1, <2>2, Replied
    <2>4. StoreOK'
        BY <1>2, <2>1, <2>2, CompletedKept
    <2>5. Serves(i, "ok")
        BY <1>1, <2>1, <2>2, <2>3 DEF Serves, Completed
    <2>6. QED
        BY <2>2, <2>3, <2>4, <2>5 DEF ServeKept
<1>4. CASE ~Present(t)
    <2>1. Reply(i, "gone") /\ UNCHANGED <<active, done>> /\ UNCHANGED <<trash, row>>
        BY <1>4, Zenon DEF ServeToggle
    <2>2. UNCHANGED store /\ "gone" \in Answers \ {"ok"}
        BY <2>1 DEF store, Answers
    <2>3. QED
        BY <1>1, <2>1, <2>2, RefusedKept
<1>5. QED
    BY <1>3, <1>4

\* The service of a field's update.
LEMMA ServeSaveKept ==
    ASSUME TypeInv, NEW i \in Slots, ServeSave(i)
    PROVE  ServeKept(i)
<1> DEFINE t == flight[i].task
           f == flight[i].field
           v == flight[i].value
<1>1. flight[i].kind = "save" /\ flight[i].answer = "none" /\ ~Idle(i)
    BY DEF ServeSave, Waiting, Idle
<1>2. flight[i] \in Sent /\ t \in Tasks /\ f \in Fields /\ v \in Values /\ StoreOK /\ RequestsOK
    BY <1>1 DEF TypeInv, RequestsOK, Sent
<1>3. UNCHANGED <<active, done, trash>>
    BY DEF ServeSave
<1>4. CASE (f = "title" /\ v = "") \/ ~Present(t)
    <2>1. (Reply(i, "invalid") \/ Reply(i, "gone")) /\ UNCHANGED row
        BY <1>4, Zenon DEF ServeSave
    <2>2. UNCHANGED store /\ "invalid" \in Answers \ {"ok"} /\ "gone" \in Answers \ {"ok"}
        BY <1>3, <2>1 DEF store, Answers
    <2>3. QED
        BY <1>1, <2>1, <2>2, RefusedKept
<1>5. CASE ~(f = "title" /\ v = "") /\ Present(t)
    <2>1. row' = [row EXCEPT ![t] = [row[t] EXCEPT ![f] = v]]
        BY <1>5, Zenon DEF ServeSave
    <2>2. flight' = [flight EXCEPT ![i].answer = "ok", ![i].saved = row'[t], ![i].completed = t \in done]
        BY <1>5, Zenon DEF ServeSave
    <2>3. [row[t] EXCEPT ![f] = v] \in RowType
        BY <1>2, RowSaved DEF StoreOK
    <2>4. row' \in [Tasks -> RowType]
        BY <1>2, <2>1, <2>3 DEF StoreOK
    <2>5. StoreOK'
        BY <1>2, <1>3, <2>4 DEF StoreOK
    <2>6. PICK d \in BOOLEAN : flight' = [flight EXCEPT ![i].answer = "ok", ![i].saved = row'[t], ![i].completed = d]
        <3>1. (t \in done) \in BOOLEAN
            OBVIOUS
        <3>2. QED
            BY <2>2, <3>1, Zenon
    <2>7. PICK r \in Sent : /\ r = [flight[i] EXCEPT !.answer = "ok", !.saved = row'[t], !.completed = d]
                            /\ r.answer = "ok" /\ r.saved = row'[t] /\ Like(r, flight[i]) /\ r.alive = flight[i].alive
        <3> DEFINE r == [flight[i] EXCEPT !.answer = "ok", !.saved = row'[t], !.completed = d]
        <3>1. row'[t] \in RowType /\ "ok" \in Answers
            BY <1>2, <2>4 DEF Answers
        <3>2. r \in Sent
            BY <1>2, <3>1 DEF Sent
        <3>3. r.answer = "ok" /\ r.saved = row'[t] /\ Like(r, flight[i]) /\ r.alive = flight[i].alive
            BY <1>2 DEF Sent, Like
        <3>4. QED
            BY <3>2, <3>3
    <2>8. flight' = [flight EXCEPT ![i] = r]
        BY <2>6, <2>7
    <2>9. flight' \in [Slots -> Sent] /\ flight'[i] = r /\ \A j \in Slots : j # i => flight'[j] = flight[j]
        BY <1>2, <2>8 DEF RequestsOK
    <2>10. Heard(i, "ok") /\ flight'[i].saved = row'[t]
        BY <2>7, <2>9 DEF Heard
    <2>11. RequestsOK'
        BY <1>1, <1>2, <2>9, <2>10, AnsweredKept
    <2>12. Serves(i, "ok")
        BY <1>1, <1>3, <2>10 DEF Serves, Answers
    <2>13. QED
        BY <2>5, <2>11, <2>12 DEF ServeKept, Answers
<1>6. QED
    BY <1>4, <1>5

\* The service of a creation.
LEMMA ServeCreateKept ==
    ASSUME TypeInv, NEW i \in Slots, ServeCreate(i)
    PROVE  ServeKept(i)
<1>1. flight[i].kind = "create" /\ flight[i].answer = "none" /\ ~Idle(i)
    BY DEF ServeCreate, Waiting, Idle
<1>2. StoreOK /\ RequestsOK /\ UNCHANGED <<done, trash, row>>
    BY DEF TypeInv, ServeCreate
<1>3. CASE flight[i].value = ""
    <2>1. Reply(i, "invalid") /\ UNCHANGED active
        BY <1>3, Zenon DEF ServeCreate
    <2>2. UNCHANGED store /\ "invalid" \in Answers \ {"ok"}
        BY <1>2, <2>1 DEF store, Answers
    <2>3. QED
        BY <1>1, <2>1, <2>2, RefusedKept
<1>4. CASE flight[i].value # ""
    <2>1. PICK t \in Tasks \ (ToSet(active) \cup done \cup trash) : active' = Append(active, t) /\ Reply(i, "ok")
        BY <1>4, Zenon DEF ServeCreate
    <2>2. active' \in Orders /\ ToSet(active') = ToSet(active) \cup {t}
        BY <1>2, <2>1, AppendedOne DEF StoreOK
    <2>3. StoreOK'
        BY <1>2, <2>1, <2>2 DEF StoreOK
    <2>4. "ok" \in Answers
        BY DEF Answers
    <2>5. RequestsOK' /\ Heard(i, "ok")
        BY <1>1, <1>2, <2>1, <2>4, Replied
    <2>6. Serves(i, "ok")
        BY <1>1, <1>2, <2>4, <2>5 DEF Serves
    <2>7. QED
        BY <2>3, <2>4, <2>5, <2>6 DEF ServeKept
<1>5. QED
    BY <1>3, <1>4

\* The service of a deletion.
LEMMA ServeDeleteKept ==
    ASSUME TypeInv, NEW i \in Slots, ServeDelete(i)
    PROVE  ServeKept(i)
<1>1. flight[i].kind = "delete" /\ flight[i].answer = "none" /\ ~Idle(i)
    BY DEF ServeDelete, Waiting, Idle
<1>2. StoreOK /\ RequestsOK /\ flight[i].task \in Tasks
    BY <1>1 DEF TypeInv, RequestsOK
<1>3. Trashed(flight[i].task) /\ Reply(i, "ok") /\ UNCHANGED <<done, row>> /\ "ok" \in Answers
    BY DEF ServeDelete, Answers
<1>4. StoreOK'
    BY <1>2, <1>3, TrashedKept
<1>5. RequestsOK' /\ Heard(i, "ok")
    BY <1>1, <1>2, <1>3, Replied
<1>6. Serves(i, "ok")
    BY <1>1, <1>3, <1>5 DEF Serves
<1>7. QED
    BY <1>3, <1>4, <1>5, <1>6 DEF ServeKept

\* The service of a restore.
LEMMA ServeRestoreKept ==
    ASSUME TypeInv, NEW i \in Slots, ServeRestore(i)
    PROVE  ServeKept(i)
<1> DEFINE t == flight[i].task
<1>1. flight[i].kind = "restore" /\ flight[i].answer = "none" /\ ~Idle(i)
    BY DEF ServeRestore, Waiting, Idle
<1>2. StoreOK /\ RequestsOK /\ t \in Tasks
    BY <1>1 DEF TypeInv, RequestsOK
<1>3. trash' = trash \ {t} /\ Reply(i, "ok") /\ UNCHANGED <<done, row>> /\ "ok" \in Answers
    BY DEF ServeRestore, Answers
<1>4. StoreOK'
    <2>1. CASE t \in trash \ done
        <3>1. active' \in Rejoined(t)
            BY <2>1, Zenon DEF ServeRestore
        <3>2. active' \in Orders /\ ToSet(active') = ToSet(active) \cup {t}
            BY <1>2, <2>1, <3>1, RejoinedOne DEF StoreOK
        <3>3. QED
            BY <1>2, <1>3, <2>1, <3>2 DEF StoreOK
    <2>2. CASE t \notin trash \ done
        <3>1. active' = active
            BY <2>2, Zenon DEF ServeRestore
        <3>2. QED
            BY <1>2, <1>3, <3>1 DEF StoreOK
    <2>3. QED
        BY <2>1, <2>2
<1>5. RequestsOK' /\ Heard(i, "ok")
    BY <1>1, <1>2, <1>3, Replied
<1>6. Serves(i, "ok")
    BY <1>1, <1>3, <1>5 DEF Serves
<1>7. QED
    BY <1>3, <1>4, <1>5, <1>6 DEF ServeKept

\* The request fails, or its session has ended.
LEMMA FailedKept ==
    ASSUME TypeInv, NEW i \in Slots, Fault(i) \/ Refuse(i)
    PROVE  /\ StoreOK' /\ RequestsOK' /\ BoundsOK'
           /\ UNCHANGED store /\ UNCHANGED <<trail, backs>> /\ UNCHANGED client /\ UNCHANGED contended /\ ~Idle(i)
           /\ \E a \in Answers \ {"ok"} : Heard(i, a)
           /\ flight'[i].saved = flight[i].saved
           /\ (behind => behind') /\ (flight[i].answer = "ok" => behind')
<1>1. /\ ~Idle(i) /\ UNCHANGED <<store, trail, backs, client, acts, contended>>
      /\ lost < MaxLost /\ lost' = lost + 1
    BY DEF Fault, Refuse, ghosts
<1>2. PICK a \in Answers \ {"ok"} : Reply(i, a)
    BY DEF Fault, Refuse, Answers
<1>3. RequestsOK' /\ Heard(i, a) /\ flight'[i].saved = flight[i].saved
    BY <1>1, <1>2, Replied DEF TypeInv
<1>4. behind' \in BOOLEAN
    <2>1. CASE Fault(i)
        BY <2>1 DEF Fault
    <2>2. CASE Refuse(i)
        BY <2>2 DEF Refuse, ghosts, TypeInv, BoundsOK
    <2>3. QED
        BY <2>1, <2>2
<1>5. BoundsOK'
    BY <1>1, <1>4, LimitsAssumption DEF TypeInv, BoundsOK
<1>6. StoreOK'
    BY <1>1, StoreSame DEF TypeInv
<1>7. (behind => behind') /\ (flight[i].answer = "ok" => behind')
    <2>1. CASE Fault(i)
        BY <2>1, Zenon DEF Fault
    <2>2. CASE Refuse(i)
        BY <2>2 DEF Refuse, ghosts
    <2>3. QED
        BY <2>1, <2>2
<1>8. QED
    BY <1>1, <1>2, <1>3, <1>5, <1>6, <1>7

\* What another device stores.
LEMMA OtherDeviceKept ==
    ASSUME TypeInv, NEW t \in Tasks, OtherDevice(t)
    PROVE  /\ StoreOK' /\ BoundsOK' /\ behind' /\ contended' = contended \cup {t}
           /\ UNCHANGED <<row, trail, backs, client, flight>>
           /\ \A u \in Tasks \ {t} : u \in done' <=> u \in done
<1>1. /\ Present(t) /\ behind' = TRUE /\ contended' = contended \cup {t}
      /\ UNCHANGED <<row, trail, backs, client, flight, lost>> /\ acts < MaxActs /\ acts' = acts + 1
    BY DEF OtherDevice, Active
<1>2. StoreOK /\ t \notin trash
    BY <1>1 DEF TypeInv, Present
<1>3. CASE \E c \in BOOLEAN : Completed(t, c) /\ UNCHANGED trash
    <2>1. PICK c \in BOOLEAN : Completed(t, c) /\ UNCHANGED trash
        BY <1>3
    <2>2. StoreOK'
        BY <1>1, <1>2, <2>1, CompletedKept
    <2>3. \A u \in Tasks \ {t} : u \in done' <=> u \in done
        BY <2>1 DEF Completed
    <2>4. QED
        BY <1>1, <2>2, <2>3, LimitsAssumption DEF TypeInv, BoundsOK
<1>4. CASE Trashed(t) /\ UNCHANGED done
    <2>1. StoreOK'
        BY <1>1, <1>2, <1>4, TrashedKept
    <2>2. QED
        BY <1>1, <1>4, <2>1, LimitsAssumption DEF TypeInv, BoundsOK
<1>5. CASE active' = Append(Without(t), t) /\ t \notin done /\ UNCHANGED <<done, trash>>
    <2>1. Without(t) \in Orders /\ ToSet(Without(t)) = ToSet(active) \ {t}
        BY <1>2, WithoutOne
    <2>2. active' \in Orders /\ ToSet(active') = (ToSet(active) \ {t}) \cup {t}
        BY <1>5, <2>1, AppendedOne
    <2>3. StoreOK'
        BY <1>1, <1>2, <1>5, <2>2 DEF StoreOK
    <2>4. QED
        BY <1>1, <1>5, <2>3, LimitsAssumption DEF TypeInv, BoundsOK
<1>6. QED
    BY <1>3, <1>4, <1>5, Zenon DEF OtherDevice

-----------------------------------------------------------------------------
(* What a step leaves alone.                                               *)

\* The requests of a kind are what they were, but for a failure.
KindSame(kind) ==
    \A j \in Slots :
        /\ flight'[j].kind = kind <=> flight[j].kind = kind
        /\ flight[j].kind = kind =>
            /\ Like(flight'[j], flight[j]) /\ flight'[j].alive = flight[j].alive
            /\ flight'[j].saved = flight[j].saved
            /\ flight'[j].answer = "ok" => flight[j].answer = "ok"

\* No request changes.
LEMMA KindsUnchanged ==
    ASSUME NEW kind, flight' = flight
    PROVE  KindSame(kind)
BY DEF KindSame, Like

\* A request of another kind is sent.
LEMMA KindsTaken ==
    ASSUME NEW i \in Slots, NEW q, Taken(i, q), NEW kind, kind # q.kind, kind # "free"
    PROVE  KindSame(kind)
BY DEF KindSame, Like, Taken, Idle

\* A request of another kind is over.
LEMMA KindsGone ==
    ASSUME NEW i \in Slots, Gone(i), NEW kind, kind # flight[i].kind, kind # "free"
    PROVE  KindSame(kind)
BY FreeSlot DEF KindSame, Like, Gone

\* A request of another kind is answered, or one fails.
LEMMA KindsHeard ==
    ASSUME NEW i \in Slots, NEW a, Heard(i, a), NEW kind,
           kind # flight[i].kind \/ (a # "ok" /\ flight'[i].saved = flight[i].saved)
    PROVE  KindSame(kind)
BY DEF KindSame, Like, Heard

\* Unless one is unmounted.
LEMMA KindsCut ==
    ASSUME NEW dead, \A j \in Slots : Cut(flight, dead, j),
           NEW kind, \A j \in Slots \cap dead : flight[j].kind # kind
    PROVE  KindSame(kind)
BY DEF KindSame, Like, Cut

\* A kind that did not change is out as before.
LEMMA OutStill ==
    ASSUME NEW kind, KindSame(kind)
    PROVE  Out(kind)' <=> Out(kind)
BY DEF Out, KindSame

\* Nothing is stored, shown or forgotten.
LEMMA CoveredStill ==
    ASSUME Covered, UNCHANGED <<active, done, trash, props>>, behind => behind',
           refresh.asked => refresh'.asked,
           refresh'.reading = refresh.reading, refresh'.view = refresh.view,
           snack.arriving => \/ refresh'.asked
                             \/ snack'.arriving /\ trail' = trail /\ (backs' = backs \/ Route = Elsewhere),
           \A j \in Slots : flight[j].answer = "ok" =>
               flight'[j].answer = "ok" \/ behind' \/ refresh'.asked
    PROVE  Covered'
<1>1. CASE behind \/ refresh.asked
    BY <1>1 DEF Covered
<1>2. CASE \E j \in Slots : flight[j].answer = "ok"
    BY <1>2 DEF Covered
<1>3. CASE refresh.reading /\ Current(refresh.view)
    BY <1>3 DEF Covered, Current
<1>4. CASE ~refresh.reading /\ Current(props)
    BY <1>4 DEF Covered, Current
<1>5. CASE Expected
    BY <1>5 DEF Covered, Expected, Route
<1>6. QED
    BY <1>1, <1>2, <1>3, <1>4, <1>5 DEF Covered

\* No reorder starts or ends.
LEMMA BoardStill ==
    ASSUME BoardOK, trail' = trail, board' = board, KindSame("reorder"),
           refresh.asked \/ refresh.reading => refresh'.asked \/ refresh'.reading
    PROVE  BoardOK'
<1>1. Out("reorder")' <=> Out("reorder")
    BY OutStill
<1>2. QED
    BY <1>1 DEF BoardOK, Route

\* No tick is sent or served; one that is answered takes its mark away, or was stored.
LEMMA TicksStill ==
    ASSUME TicksOK, done' = done, contended \subseteq contended',
           \A j \in Slots : flight'[j].kind = "toggle" =>
               /\ Like(flight'[j], flight[j])
               /\ flight'[j].answer = "ok" => flight[j].answer = "ok",
           \A s \in {"active", "done"}, t \in Tasks : Wrong(s, t)' =>
               /\ Wrong(s, t)
               /\ \A j \in Slots : Ticking(j, t) /\ flight[j].section = s /\ flight[j].alive =>
                    IF flight'[j].kind = "toggle" THEN flight'[j].alive ELSE flight[j].answer = "ok"
    PROVE  TicksOK'
<1> SUFFICES ASSUME NEW t \in Tasks, t \notin contended'
             PROVE  /\ \A i, j \in Slots : Ticking(i, t)' /\ Ticking(j, t)' => i = j
                    /\ \A s \in {"active", "done"} : Wrong(s, t)' =>
                        /\ \A i \in Slots : Ticking(i, t)' =>
                            /\ flight'[i].section = s /\ flight'[i].alive /\ flight'[i].next = (s = "active")
                            /\ flight'[i].answer = "ok" => Away(s, t)'
                        /\ (\E i \in Slots : Ticking(i, t)') \/ Away(s, t)'
    BY DEF TicksOK
<1>1. t \notin contended
    OBVIOUS
<1>2. \A i \in Slots : Ticking(i, t)' => Ticking(i, t)
    BY DEF Ticking, Like
<1>3. \A i, j \in Slots : Ticking(i, t)' /\ Ticking(j, t)' => i = j
    BY <1>1, <1>2 DEF TicksOK
<1>4. ASSUME NEW s \in {"active", "done"}, Wrong(s, t)'
      PROVE  /\ \A i \in Slots : Ticking(i, t)' =>
                /\ flight'[i].section = s /\ flight'[i].alive /\ flight'[i].next = (s = "active")
                /\ flight'[i].answer = "ok" => Away(s, t)'
             /\ (\E i \in Slots : Ticking(i, t)') \/ Away(s, t)'
    <2>1. Wrong(s, t)
        BY <1>4
    <2>2. Away(s, t)' <=> Away(s, t)
        BY DEF Away
    <2>3. \A j \in Slots : Ticking(j, t) =>
            /\ flight[j].section = s /\ flight[j].alive /\ flight[j].next = (s = "active")
            /\ flight[j].answer = "ok" => Away(s, t)
        BY <1>1, <2>1 DEF TicksOK
    <2>4. \A j \in Slots : Ticking(j, t) =>
            IF flight'[j].kind = "toggle" THEN flight'[j].alive ELSE flight[j].answer = "ok"
        BY <1>4, <2>3
    <2>5. ASSUME NEW i \in Slots, Ticking(i, t)'
          PROVE  /\ flight'[i].section = s /\ flight'[i].alive /\ flight'[i].next = (s = "active")
                 /\ flight'[i].answer = "ok" => Away(s, t)'
        BY <1>2, <2>2, <2>3, <2>4, <2>5 DEF Ticking, Like
    <2>6. (\E i \in Slots : Ticking(i, t)') \/ Away(s, t)'
        <3>1. CASE Away(s, t)
            BY <2>2, <3>1
        <3>2. CASE \E i \in Slots : Ticking(i, t)
            <4>1. PICK i \in Slots : Ticking(i, t)
                BY <3>2
            <4>2. CASE flight'[i].kind = "toggle"
                BY <4>1, <4>2 DEF Ticking, Like
            <4>3. CASE flight'[i].kind # "toggle"
                BY <2>2, <2>3, <2>4, <4>1, <4>3
            <4>4. QED
                BY <4>2, <4>3
        <3>3. QED
            BY <1>1, <2>1, <3>1, <3>2 DEF TicksOK
    <2>7. QED
        BY <2>5, <2>6
<1>5. QED
    BY <1>3, <1>4

\* No tick is answered well and no box changes.
LEMMA TicksSame ==
    ASSUME TicksOK, done' = done, contended \subseteq contended', box' = box, KindSame("toggle")
    PROVE  TicksOK'
<1>1. \A j \in Slots : flight'[j].kind = "toggle" =>
        /\ Like(flight'[j], flight[j])
        /\ flight'[j].answer = "ok" => flight[j].answer = "ok"
    BY DEF KindSame
<1>2. \A s \in {"active", "done"}, t \in Tasks : Wrong(s, t)' =>
        /\ Wrong(s, t)
        /\ \A j \in Slots : Ticking(j, t) /\ flight[j].section = s /\ flight[j].alive =>
             IF flight'[j].kind = "toggle" THEN flight'[j].alive ELSE flight[j].answer = "ok"
    BY DEF KindSame, Wrong, Ticking
<1>3. QED
    BY <1>1, <1>2, TicksStill

\* No save changes, and nothing of the panel it would write.
LEMMA PanelStill ==
    ASSUME PanelOK, row' = row, KindSame("save"),
           panel'.task = panel.task, panel'.overlapped = panel.overlapped, panel'.saving = panel.saving,
           panel'.failed = panel.failed, panel'.shown = panel.shown
    PROVE  PanelOK'
<1> SUFFICES ASSUME panel.task # None, ~panel.overlapped
             PROVE  /\ \A i, j \in Slots : flight'[i].kind = "save" /\ flight'[j].kind = "save" => i = j
                    /\ \A i \in Slots : flight'[i].kind = "save" =>
                        /\ flight'[i].alive /\ panel.saving # "none" /\ flight'[i].task = panel.task
                        /\ flight'[i].answer = "ok" => flight'[i].saved = row[panel.task]
                    /\ (\A i \in Slots : flight'[i].kind # "save") /\ panel.failed = {} =>
                        panel.shown = row[panel.task]
    BY DEF PanelOK
<1>1. QED
    BY DEF PanelOK, KindSame, Like

\* A panel that is closed.
LEMMA PanelGone ==
    ASSUME panel' = Closed
    PROVE  PanelOK' /\ PanelWaits' /\ PanelTyped'
<1>1. PlainRow \in RowType
    BY DEF PlainRow, RowType, Values
<1>2. QED
    BY <1>1 DEF PanelOK, PanelWaits, PanelTyped, PanelType, Closed, Values

\* The boxes wait as before.
LEMMA BoxesStill ==
    ASSUME BoxesWait, box' = box, KindSame("toggle")
    PROVE  BoxesWait'
BY DEF BoxesWait, KindSame, Ticking, Like

\* The quick add waits as before, or stopped.
LEMMA DraftStill ==
    ASSUME DraftWaits, composer'.submitting => composer.submitting, KindSame("create")
    PROVE  DraftWaits'
BY OutStill DEF DraftWaits

\* The panel waits as before.
LEMMA PanelWaitsStill ==
    ASSUME PanelWaits, panel'.saving = panel.saving, panel'.submitting = panel.submitting,
           backs' = backs, KindSame("save"), KindSame("delete")
    PROVE  PanelWaits'
BY OutStill DEF PanelWaits

\* The snackbar waits as before, or stopped.
LEMMA SnackWaitsStill ==
    ASSUME SnackWaits, KindSame("restore"), snack'.pending => snack.pending /\ snack'.task # None
    PROVE  SnackWaits'
BY DEF SnackWaits, KindSame

-----------------------------------------------------------------------------
(* Steps of one island that send nothing and take no answer.               *)

\* A step of the client that sends and takes nothing.
LEMMA LocalStep ==
    ASSUME IInv, UNCHANGED <<store, trail, backs, flight, acts, lost, contended, props, board, box>>,
           refresh' \in RefreshType, behind' \in BOOLEAN, Covered',
           refresh.asked \/ refresh.reading => refresh'.asked \/ refresh'.reading,
           composer' \in DraftType, composer'.submitting => composer.submitting,
           PanelTyped', panel'.task = panel.task, panel'.overlapped = panel.overlapped,
           panel'.saving = panel.saving, panel'.failed = panel.failed,
           panel'.shown = panel.shown, panel'.submitting = panel.submitting,
           SnackOK', snack'.pending => snack.pending /\ snack'.task # None
    PROVE  IInv'
<1>1. StoreOK' /\ ListOK' /\ RequestsOK' /\ BoundsOK'
    <2>1. StoreOK'
        BY StoreSame DEF IInv, TypeInv
    <2>2. ListOK'
        BY DEF IInv, TypeInv, ListOK
    <2>3. RequestsOK'
        BY DEF IInv, TypeInv, RequestsOK
    <2>4. BoundsOK'
        BY DEF IInv, TypeInv, BoundsOK
    <2>5. QED
        BY <2>1, <2>2, <2>3, <2>4
<1>2. TypeInv'
    BY <1>1 DEF TypeInv
<1>3. /\ KindSame("reorder") /\ KindSame("toggle") /\ KindSame("save")
      /\ KindSame("create") /\ KindSame("delete") /\ KindSame("restore")
    BY KindsUnchanged
<1>4. BoardOK'
    BY <1>3, BoardStill DEF IInv
<1>5. TicksOK'
    BY <1>3, TicksSame DEF IInv, store
<1>6. PanelOK'
    BY <1>3, PanelStill DEF IInv, store
<1>7. BoxesWait' /\ DraftWaits' /\ PanelWaits' /\ SnackWaits'
    BY <1>3, BoxesStill, DraftStill, PanelWaitsStill, SnackWaitsStill DEF IInv, WaitsOK
<1>8. QED
    BY <1>2, <1>4, <1>5, <1>6, <1>7 DEF IInv, WaitsOK

\* One that leaves the refresh alone leaves the list covered.
LEMMA CoveredSame ==
    ASSUME Covered, UNCHANGED <<store, trail, backs, flight, behind, props, refresh>>,
           snack'.arriving = snack.arriving
    PROVE  Covered'
BY DEF Covered, Expected, Route, Current, store

\* A step of the snackbar alone.
LEMMA SnackStep ==
    ASSUME IInv, SnackOnly, SnackOK', snack'.pending => snack.pending /\ snack'.task # None,
           snack'.arriving = snack.arriving
    PROVE  IInv'
<1>1. /\ UNCHANGED <<store, trail, backs, flight, acts, lost, contended, props, board, box>>
      /\ UNCHANGED <<refresh, behind, composer, panel>>
    BY DEF SnackOnly, ghosts
<1>2. Covered'
    BY <1>1, CoveredSame DEF IInv
<1>3. refresh \in RefreshType /\ behind \in BOOLEAN /\ composer \in DraftType /\ PanelTyped
    BY DEF IInv, TypeInv, ListOK, BoundsOK
<1>4. PanelTyped'
    BY <1>1, <1>3 DEF PanelTyped
<1>5. QED
    BY <1>1, <1>2, <1>3, <1>4, LocalStep

\* A clock that is stopped keeps what is left of the window.
LEMMA StoppedOK ==
    ASSUME SnackOK
    PROVE  /\ StoppedClock \in SnackType /\ StoppedClock.elapsed <= StoppedClock.remaining
           /\ StoppedClock.shownFor + StoppedClock.remaining <= Window + StoppedClock.elapsed
           /\ StoppedClock.task = snack.task /\ StoppedClock.pending = snack.pending
           /\ StoppedClock.arriving = snack.arriving
<1>1. /\ snack \in SnackType /\ snack.elapsed \in 0..Window /\ snack.remaining \in 0..Window
      /\ snack.shownFor \in 0..Window
    BY DEF SnackOK, SnackType
<1>2. snack.remaining - snack.elapsed \in 0..Window
    BY <1>1, LimitsAssumption DEF SnackOK
<1>3. /\ StoppedClock.elapsed = 0 /\ StoppedClock.remaining = snack.remaining - snack.elapsed
      /\ StoppedClock.shownFor = snack.shownFor
      /\ StoppedClock.task = snack.task /\ StoppedClock.pending = snack.pending
      /\ StoppedClock.arriving = snack.arriving
    BY <1>1 DEF StoppedClock, SnackType
<1>4. 0 \in 0..Window
    BY LimitsAssumption
<1>5. StoppedClock \in SnackType
    BY <1>1, <1>2, <1>4 DEF StoppedClock, SnackType
<1>6. QED
    <2>1. 0 <= snack.remaining - snack.elapsed
        BY <1>2, LimitsAssumption
    <2>2. snack.shownFor + (snack.remaining - snack.elapsed) <= Window + 0
        BY <1>1, LimitsAssumption DEF SnackOK
    <2>3. QED
        BY <1>3, <1>5, <2>1, <2>2

\* No snackbar, or a new one with the time that is left.
LEMMA FreshSnack ==
    ASSUME NEW r \in 0..Window, NEW t \in Tasks \cup {None}, NEW a \in BOOLEAN,
           snack' = [task |-> t, pending |-> FALSE, error |-> FALSE, paused |-> FALSE,
                     remaining |-> r, elapsed |-> 0, shownFor |-> 0, arriving |-> a]
    PROVE  SnackOK' /\ SnackWaits' /\ ~snack'.pending /\ snack'.arriving = a
<1>1. r \in Nat /\ r <= Window /\ 0 \in 0..Window
    BY LimitsAssumption
<1>2. /\ snack'.elapsed = 0 /\ snack'.remaining = r /\ snack'.shownFor = 0 /\ ~snack'.pending
    OBVIOUS
<1>3. snack' \in SnackType
    BY <1>1 DEF SnackType
<1>4. SnackOK'
    BY <1>1, <1>2, <1>3, LimitsAssumption DEF SnackOK
<1>5. QED
    BY <1>2, <1>4 DEF SnackWaits

\* The pointer or the focus enters the snackbar.
LEMMA HoverKept ==
    ASSUME IInv, Hover
    PROVE  IInv'
<1>1. SnackOnly /\ snack' = StoppedClock /\ snack.task # None
    BY DEF Hover, Running
<1>2. SnackOK' /\ snack'.task = snack.task /\ snack'.pending = snack.pending
      /\ snack'.arriving = snack.arriving
    BY <1>1, StoppedOK DEF IInv, TypeInv, SnackOK
<1>3. QED
    BY <1>1, <1>2, SnackStep

\* They leave it.
LEMMA LeaveKept ==
    ASSUME IInv, Leave
    PROVE  IInv'
<1>1. SnackOnly /\ snack' = [snack EXCEPT !.paused = FALSE] /\ snack.task # None
    BY DEF Leave
<1>2. SnackOK
    BY DEF IInv, TypeInv
<1>3. snack' \in SnackType /\ snack'.task = snack.task /\ snack'.pending = snack.pending
      /\ snack'.elapsed = snack.elapsed /\ snack'.remaining = snack.remaining /\ snack'.shownFor = snack.shownFor
      /\ snack'.arriving = snack.arriving
    BY <1>1, <1>2 DEF SnackOK, SnackType
<1>4. SnackOK'
    BY <1>2, <1>3 DEF SnackOK
<1>5. QED
    BY <1>1, <1>3, <1>4, SnackStep

\* Its clock runs.
LEMMA TickKept ==
    ASSUME IInv, Tick
    PROVE  IInv'
<1>1. /\ SnackOnly /\ snack' = [snack EXCEPT !.elapsed = @ + 1, !.shownFor = @ + 1]
      /\ snack.task # None /\ snack.elapsed < snack.remaining
    BY DEF Tick, Running
<1>2. SnackOK
    BY DEF IInv, TypeInv
<1>3. snack \in SnackType /\ snack.elapsed \in 0..Window /\ snack.remaining \in 0..Window /\ snack.shownFor \in 0..Window
    BY <1>2 DEF SnackOK, SnackType
<1>4. snack.elapsed + 1 \in 0..Window /\ snack.shownFor + 1 \in 0..Window
    BY <1>1, <1>2, <1>3, LimitsAssumption DEF SnackOK
<1>5. snack' \in SnackType /\ snack'.task = snack.task /\ snack'.pending = snack.pending
      /\ snack'.elapsed = snack.elapsed + 1 /\ snack'.remaining = snack.remaining
      /\ snack'.shownFor = snack.shownFor + 1 /\ snack'.arriving = snack.arriving
    BY <1>1, <1>3, <1>4 DEF SnackType
<1>6. SnackOK'
    BY <1>1, <1>2, <1>3, <1>5, LimitsAssumption DEF SnackOK
<1>7. QED
    BY <1>1, <1>5, <1>6, SnackStep

\* Its time is up.
LEMMA ExpireKept ==
    ASSUME IInv, Expire
    PROVE  IInv'
<1>1. SnackOnly /\ snack' = [NoSnack EXCEPT !.arriving = snack.arriving]
    BY DEF Expire
<1>2. Window \in 0..Window /\ None \in Tasks \cup {None} /\ snack.arriving \in BOOLEAN
    BY LimitsAssumption DEF IInv, TypeInv, SnackOK, SnackType
<1>4. snack' = [task |-> None, pending |-> FALSE, error |-> FALSE, paused |-> FALSE,
                remaining |-> Window, elapsed |-> 0, shownFor |-> 0, arriving |-> snack.arriving]
    BY <1>1 DEF NoSnack
<1>3. SnackOK' /\ ~snack'.pending /\ snack'.arriving = snack.arriving
    BY <1>2, <1>4, FreshSnack
<1>5. QED
    BY <1>1, <1>3, SnackStep

\* TaskDetail and TaskDelete, with nothing sent.
LEMMA PanelStep ==
    ASSUME IInv, UNCHANGED <<store, trail, backs, flight, acts, lost, ghosts, props, refresh, board, box, composer, snack>>,
           PanelTyped', panel'.task = panel.task, panel'.overlapped = panel.overlapped,
           panel'.saving = panel.saving, panel'.failed = panel.failed,
           panel'.shown = panel.shown, panel'.submitting = panel.submitting
    PROVE  IInv'
<1>1. /\ UNCHANGED <<store, trail, backs, flight, acts, lost, contended, props, board, box>>
      /\ UNCHANGED <<refresh, behind, composer, snack>>
    BY DEF ghosts
<1>2. Covered'
    BY <1>1, CoveredSame DEF IInv
<1>3. refresh \in RefreshType /\ behind \in BOOLEAN /\ composer \in DraftType /\ SnackOK
    BY DEF IInv, TypeInv, ListOK, BoundsOK
<1>4. SnackOK'
    BY <1>1, <1>3 DEF SnackOK
<1>5. snack'.pending => snack.pending /\ snack'.task # None
    BY <1>1 DEF IInv, WaitsOK, SnackWaits
<1>6. QED
    BY <1>1, <1>2, <1>3, <1>4, <1>5, LocalStep

\* Typing in the panel's title.
LEMMA TypeTitleKept ==
    ASSUME IInv, TypeTitle
    PROVE  IInv'
<1>1. /\ "title" \in Fields
      /\ \E text \in {"a", "b", ""} : panel' = [panel EXCEPT !.typed = text, !.focused = TRUE]
    BY DEF TypeTitle
<1>2. UNCHANGED <<store, trail, backs, flight, acts, lost, ghosts, props, refresh, board, box, composer, snack>>
    BY DEF TypeTitle
<1>3. panel \in PanelType /\ \A text \in {"a", "b", ""} : text \in Values
    BY DEF IInv, TypeInv, PanelTyped, Values
<1>4. /\ PanelTyped' /\ panel'.task = panel.task /\ panel'.overlapped = panel.overlapped
      /\ panel'.saving = panel.saving /\ panel'.failed = panel.failed
      /\ panel'.shown = panel.shown /\ panel'.submitting = panel.submitting
    BY <1>1, <1>3 DEF PanelTyped, PanelType
<1>5. QED
    BY <1>2, <1>4, PanelStep

\* The deletion's card is opened or closed.
LEMMA ConfirmingKept ==
    ASSUME IInv, NEW open \in BOOLEAN, Confirming(open)
    PROVE  IInv'
<1>1. PICK e \in BOOLEAN : panel' = [panel EXCEPT !.confirming = open, !.error = e]
    <2>1. (panel.error /\ open) \in BOOLEAN
        OBVIOUS
    <2>2. panel' = [panel EXCEPT !.confirming = open, !.error = @ /\ open]
        BY Zenon DEF Confirming
    <2>3. QED
        BY <2>1, <2>2, Zenon
<1>2. UNCHANGED <<store, trail, backs, flight, acts, lost, ghosts, props, refresh, board, box, composer, snack>>
    BY DEF Confirming
<1>3. PanelTyped
    BY DEF IInv, TypeInv
<1>4. /\ PanelTyped' /\ panel'.task = panel.task /\ panel'.overlapped = panel.overlapped
      /\ panel'.saving = panel.saving /\ panel'.failed = panel.failed
      /\ panel'.shown = panel.shown /\ panel'.submitting = panel.submitting
    BY <1>1, <1>3 DEF PanelTyped, PanelType
<1>5. QED
    BY <1>2, <1>4, PanelStep

\* Leaving a title that was not changed.
LEMMA LeftKept ==
    ASSUME IInv, panel' = [panel EXCEPT !.focused = FALSE],
           UNCHANGED <<store, trail, backs, flight, acts, lost, ghosts, props, refresh, board, box, composer, snack>>
    PROVE  IInv'
<1>1. panel \in PanelType
    BY DEF IInv, TypeInv, PanelTyped
<1>2. /\ PanelTyped' /\ panel'.task = panel.task /\ panel'.overlapped = panel.overlapped
      /\ panel'.saving = panel.saving /\ panel'.failed = panel.failed
      /\ panel'.shown = panel.shown /\ panel'.submitting = panel.submitting
    BY <1>1 DEF PanelTyped, PanelType
<1>3. QED
    BY <1>2, PanelStep

\* Typing in the quick add.
LEMMA TypeDraftKept ==
    ASSUME IInv, TypeDraft
    PROVE  IInv'
<1>1. PICK text \in {"", "b"} : composer' = [composer EXCEPT !.title = text]
    BY DEF TypeDraft
<1>2. /\ UNCHANGED <<store, trail, backs, flight, acts, lost, contended, props, board, box>>
      /\ UNCHANGED <<refresh, behind, panel, snack>>
    BY DEF TypeDraft, ghosts
<1>3. /\ composer \in DraftType /\ refresh \in RefreshType /\ behind \in BOOLEAN /\ SnackOK /\ PanelTyped
    BY DEF IInv, TypeInv, ListOK, BoundsOK
<1>4. composer' \in DraftType /\ composer'.submitting = composer.submitting
    BY <1>1, <1>3 DEF DraftType
<1>5. SnackOK' /\ PanelTyped'
    BY <1>2, <1>3 DEF SnackOK, PanelTyped
<1>6. snack'.pending => snack.pending /\ snack'.task # None
    BY <1>2 DEF IInv, WaitsOK, SnackWaits
<1>7. Covered'
    BY <1>2, CoveredSame DEF IInv
<1>8. QED
    BY <1>2, <1>3, <1>4, <1>5, <1>6, <1>7, LocalStep

\* router.refresh() is called, or reads.
LEMMA RefreshStep ==
    ASSUME IInv, UNCHANGED <<store, trail, backs, flight, acts, lost, contended, props, board, box, composer, panel, snack>>,
           behind' \in BOOLEAN, refresh' \in RefreshType, Covered', refresh'.asked \/ refresh'.reading
    PROVE  IInv'
<1>1. composer \in DraftType /\ SnackOK /\ PanelTyped
    BY DEF IInv, TypeInv, ListOK
<1>2. SnackOK' /\ PanelTyped'
    BY <1>1 DEF SnackOK, PanelTyped
<1>3. snack'.pending => snack.pending /\ snack'.task # None
    BY DEF IInv, WaitsOK, SnackWaits
<1>4. QED
    BY <1>1, <1>2, <1>3, LocalStep

\* A change signal asks for a refresh.
LEMMA AskRefreshKept ==
    ASSUME IInv, AskRefresh
    PROVE  IInv'
<1>1. /\ UNCHANGED <<store, trail, backs, flight, acts, lost, contended, props, board, box, composer, panel, snack>>
      /\ behind' = behind /\ refresh' = [refresh EXCEPT !.asked = TRUE]
    BY DEF AskRefresh, ghosts, Ask
<1>2. refresh \in RefreshType /\ behind \in BOOLEAN
    BY DEF IInv, TypeInv, ListOK, BoundsOK
<1>3. refresh' \in RefreshType /\ refresh'.asked
    BY <1>1, <1>2 DEF RefreshType
<1>4. Covered'
    BY <1>3 DEF Covered
<1>5. QED
    BY <1>1, <1>2, <1>3, <1>4, RefreshStep

\* The refresh reads the list.
LEMMA RefreshReadKept ==
    ASSUME IInv, RefreshRead
    PROVE  IInv'
<1>1. PICK g \in Tasks \cup {None} : refresh' = [asked |-> FALSE, reading |-> TRUE, view |-> View, gone |-> g]
    <2>1. (IF InPanel /\ ~Present(Route) THEN Route ELSE None) \in Tasks \cup {None}
        BY DEF InPanel
    <2>2. QED
        BY <2>1, Zenon DEF RefreshRead
<1>2. /\ UNCHANGED <<store, trail, backs, flight, acts, lost, contended, props, board, box, composer, panel, snack>>
      /\ behind' = FALSE
    BY DEF RefreshRead
<1>3. View \in Shown /\ Current(View)
    BY ViewShown DEF IInv, TypeInv
<1>4. refresh' \in RefreshType /\ refresh'.reading /\ refresh'.view = View
    BY <1>1, <1>3 DEF RefreshType
<1>5. Covered'
    <2>1. Current(View)'
        BY DEF Current, View
    <2>2. View' = View
        BY <1>2 DEF View, store
    <2>3. QED
        BY <1>4, <2>1, <2>2 DEF Covered, Current
<1>6. QED
    BY <1>1, <1>2, <1>4, <1>5, RefreshStep

-----------------------------------------------------------------------------
(* The invariant, when the server acts.                                    *)

\* Nothing of the client changes.
LEMMA ClientSame ==
    ASSUME TypeInv, UNCHANGED <<trail, backs, client>>
    PROVE  ListOK' /\ PanelTyped' /\ SnackOK'
BY DEF TypeInv, ListOK, PanelTyped, SnackOK, client

\* An answer changes nothing that waits for it.
LEMMA HeardWaits ==
    ASSUME WaitsOK, BoardOK, UNCHANGED <<trail, backs, client>>, NEW i \in Slots, NEW a, Heard(i, a)
    PROVE  WaitsOK' /\ BoardOK'
<1>1. \A j \in Slots : flight'[j].kind = flight[j].kind /\ flight'[j].task = flight[j].task
                       /\ flight'[j].section = flight[j].section /\ flight'[j].alive = flight[j].alive
    BY DEF Heard, Like
<1>2. /\ Out("reorder")' <=> Out("reorder")
      /\ Out("create")' <=> Out("create")
      /\ Out("save")' <=> Out("save")
      /\ Out("delete")' <=> Out("delete")
    BY <1>1 DEF Out
<1>3. BoardOK'
    BY <1>2 DEF BoardOK, Route, client
<1>4. BoxesWait'
    BY <1>1 DEF WaitsOK, BoxesWait, Ticking, client
<1>5. DraftWaits' /\ PanelWaits'
    BY <1>2 DEF WaitsOK, DraftWaits, PanelWaits, client
<1>6. SnackWaits'
    BY <1>1 DEF WaitsOK, SnackWaits, client
<1>7. QED
    BY <1>3, <1>4, <1>5, <1>6 DEF WaitsOK

\* Any service keeps the invariant.
LEMMA ServeIsKept ==
    ASSUME IInv, NEW i \in Slots, Serve(i)
    PROVE  IInv'
<1>1. ServeKept(i)
    BY ServeReorderKept, ServeToggleKept, ServeSaveKept, ServeCreateKept,
       ServeDeleteKept, ServeRestoreKept DEF Serve, IInv
<1>2. PICK a \in Answers : Serves(i, a)
    BY <1>1 DEF ServeKept
<1>3. UNCHANGED <<trail, backs, client, acts, lost, ghosts>>
    BY DEF Serve, ServerOnly, ServeReorder, ServeToggle, ServeSave, ServeCreate, ServeDelete, ServeRestore
<1>4. TypeInv'
    <2>1. ListOK' /\ PanelTyped' /\ SnackOK'
        BY <1>3, ClientSame DEF IInv
    <2>2. BoundsOK'
        BY <1>3 DEF IInv, TypeInv, BoundsOK, ghosts
    <2>3. QED
        BY <1>1, <2>1, <2>2 DEF ServeKept, TypeInv
<1>5. /\ ~Idle(i) /\ flight[i].answer = "none" /\ Heard(i, a)
      /\ \A j \in Slots : Like(flight'[j], flight[j]) /\ flight'[j].alive = flight[j].alive
      /\ \A j \in Slots : j # i => flight'[j] = flight[j]
    BY <1>2 DEF Serves, Heard, Like
<1>6. Covered'
    <2>1. CASE a = "ok"
        BY <1>5, <2>1 DEF Covered, Heard
    <2>2. CASE a # "ok"
        <3>1. /\ UNCHANGED <<active, done, trash, props, trail, backs, snack>>
              /\ behind' = behind /\ refresh' = refresh
            BY <1>2, <1>3, <2>2 DEF Serves, store, client, ghosts
        <3>2. \A j \in Slots : flight[j].answer = "ok" => flight'[j].answer = "ok"
            BY <1>5
        <3>3. QED
            BY <3>1, <3>2, CoveredStill DEF IInv
    <2>3. QED
        BY <2>1, <2>2
<1>7. TicksOK'
    <2>1. contended' = contended /\ box' = box
        BY <1>3 DEF client, ghosts
    <2>2. \A s \in {"active", "done"}, u \in Tasks : Wrong(s, u)' <=> Wrong(s, u)
        BY <2>1 DEF Wrong
    <2>3. CASE flight[i].kind # "toggle" \/ a # "ok"
        <3>1. done' = done
            BY <1>2, <2>3 DEF Serves, store
        <3>2. \A j \in Slots : flight'[j].kind = "toggle" =>
                /\ Like(flight'[j], flight[j])
                /\ flight'[j].answer = "ok" => flight[j].answer = "ok"
            BY <1>5, <2>3 DEF Heard, Like
        <3>3. \A s \in {"active", "done"}, u \in Tasks : Wrong(s, u)' =>
                /\ Wrong(s, u)
                /\ \A j \in Slots : Ticking(j, u) /\ flight[j].section = s /\ flight[j].alive =>
                     IF flight'[j].kind = "toggle" THEN flight'[j].alive ELSE flight[j].answer = "ok"
            BY <1>5, <2>2 DEF Like, Ticking
        <3>4. QED
            BY <2>1, <3>1, <3>2, <3>3, TicksStill DEF IInv
    <2>4. CASE flight[i].kind = "toggle" /\ a = "ok"
        <3> SUFFICES ASSUME NEW u \in Tasks, u \notin contended
                     PROVE  /\ \A k, j \in Slots : Ticking(k, u)' /\ Ticking(j, u)' => k = j
                            /\ \A s \in {"active", "done"} : Wrong(s, u)' =>
                                /\ \A k \in Slots : Ticking(k, u)' =>
                                    /\ flight'[k].section = s /\ flight'[k].alive /\ flight'[k].next = (s = "active")
                                    /\ flight'[k].answer = "ok" => Away(s, u)'
                                /\ (\E k \in Slots : Ticking(k, u)') \/ Away(s, u)'
            BY <2>1 DEF TicksOK
        <3>1. \A k \in Slots : Ticking(k, u)' <=> Ticking(k, u)
            BY <1>5 DEF Ticking, Like
        <3>2. \A k, j \in Slots : Ticking(k, u) /\ Ticking(j, u) => k = j
            BY DEF IInv, TicksOK
        <3>3. done' = IF flight[i].next THEN done \cup {flight[i].task} ELSE done \ {flight[i].task}
            BY <1>2, <2>4 DEF Serves
        <3>4. ASSUME NEW s \in {"active", "done"}, Wrong(s, u)
              PROVE  /\ \A k \in Slots : Ticking(k, u) =>
                            /\ flight'[k].section = s /\ flight'[k].alive /\ flight'[k].next = (s = "active")
                            /\ flight'[k].answer = "ok" => Away(s, u)'
                     /\ (\E k \in Slots : Ticking(k, u)) \/ Away(s, u)'
            <4>1. /\ \A k \in Slots : Ticking(k, u) =>
                        /\ flight[k].section = s /\ flight[k].alive /\ flight[k].next = (s = "active")
                        /\ flight[k].answer = "ok" => Away(s, u)
                  /\ (\E k \in Slots : Ticking(k, u)) \/ Away(s, u)
                BY <3>4 DEF IInv, TicksOK
            <4>2. CASE Ticking(i, u)
                <5>1. Away(s, u)'
                    BY <3>3, <4>1, <4>2 DEF Away, Ticking
                <5>2. QED
                    BY <1>5, <4>1, <4>2, <5>1 DEF Like
            <4>3. CASE ~Ticking(i, u)
                <5>1. Away(s, u)' <=> Away(s, u)
                    BY <2>4, <3>3, <4>3 DEF Away, Ticking
                <5>2. \A k \in Slots : Ticking(k, u) => flight'[k] = flight[k]
                    BY <1>5, <4>3
                <5>3. QED
                    BY <4>1, <5>1, <5>2
            <4>4. QED
                BY <4>2, <4>3
        <3>5. QED
            BY <2>2, <3>1, <3>2, <3>4
    <2>5. QED
        BY <2>3, <2>4
<1>8. PanelOK'
    <2>1. panel' = panel
        BY <1>3 DEF client
    <2>2. CASE flight[i].kind # "save"
        <3>1. row' = row /\ KindSame("save")
            BY <1>2, <1>5, <2>2, KindsHeard DEF Serves
        <3>2. QED
            BY <2>1, <3>1, PanelStill DEF IInv
    <2>3. CASE flight[i].kind = "save"
        <3> SUFFICES ASSUME panel.task # None, ~panel.overlapped
                     PROVE  /\ \A k, j \in Slots : flight'[k].kind = "save" /\ flight'[j].kind = "save" => k = j
                            /\ \A k \in Slots : flight'[k].kind = "save" =>
                                /\ flight'[k].alive /\ panel.saving # "none" /\ flight'[k].task = panel.task
                                /\ flight'[k].answer = "ok" => flight'[k].saved = row'[panel.task]
                            /\ ~(\A k \in Slots : flight'[k].kind # "save")
            BY <2>1 DEF PanelOK
        <3>1. /\ \A k, j \in Slots : flight[k].kind = "save" /\ flight[j].kind = "save" => k = j
              /\ \A k \in Slots : flight[k].kind = "save" =>
                    flight[k].alive /\ panel.saving # "none" /\ flight[k].task = panel.task
            BY DEF IInv, PanelOK
        <3>2. a = "ok" => flight'[i].saved = row'[panel.task]
            BY <1>2, <2>3, <3>1 DEF Serves
        <3>3. \A k \in Slots : flight'[k].kind = flight[k].kind /\ flight'[k].task = flight[k].task
            BY <1>5 DEF Like
        <3>4. \A k \in Slots : flight'[k].kind = "save" => k = i
            BY <2>3, <3>1, <3>3
        <3>5. flight'[i].answer = a /\ flight'[i].kind = "save"
            BY <1>5, <2>3, <3>3 DEF Heard
        <3>6. QED
            BY <1>5, <2>3, <3>1, <3>2, <3>3, <3>4, <3>5
    <2>4. QED
        BY <2>2, <2>3
<1>9. WaitsOK' /\ BoardOK'
    BY <1>3, <1>5, HeardWaits DEF IInv
<1>10. QED
    BY <1>4, <1>6, <1>7, <1>8, <1>9 DEF IInv

\* A request that is lost or refused.
LEMMA FailureIsKept ==
    ASSUME IInv, NEW i \in Slots, Fault(i) \/ Refuse(i)
    PROVE  IInv'
<1>1. /\ StoreOK' /\ RequestsOK' /\ BoundsOK'
      /\ UNCHANGED store /\ UNCHANGED <<trail, backs>> /\ UNCHANGED client /\ UNCHANGED contended
      /\ flight'[i].saved = flight[i].saved
      /\ (behind => behind') /\ (flight[i].answer = "ok" => behind')
      /\ \E a \in Answers \ {"ok"} : Heard(i, a)
    BY FailedKept DEF IInv
<1>2. PICK a \in Answers \ {"ok"} : Heard(i, a)
    BY <1>1
<1>3. TypeInv'
    <2>1. ListOK' /\ PanelTyped' /\ SnackOK'
        BY <1>1, ClientSame DEF IInv
    <2>2. QED
        BY <1>1, <2>1 DEF TypeInv
<1>4. KindSame("toggle") /\ KindSame("save")
    BY <1>1, <1>2, KindsHeard
<1>5. Covered'
    <2>1. UNCHANGED <<active, done, trash, props, trail, backs, snack>> /\ refresh' = refresh
        BY <1>1 DEF store, client
    <2>2. \A j \in Slots : flight[j].answer = "ok" => flight'[j].answer = "ok" \/ behind'
        BY <1>1, <1>2 DEF Heard
    <2>3. QED
        BY <1>1, <2>1, <2>2, CoveredStill DEF IInv
<1>6. TicksOK'
    BY <1>1, <1>4, TicksSame DEF IInv, store, client
<1>7. PanelOK'
    BY <1>1, <1>4, PanelStill DEF IInv, store, client
<1>8. WaitsOK' /\ BoardOK'
    BY <1>1, <1>2, HeardWaits DEF IInv
<1>9. QED
    BY <1>3, <1>5, <1>6, <1>7, <1>8 DEF IInv

\* Another device changes the list.
LEMMA OtherDeviceIsKept ==
    ASSUME IInv, NEW t \in Tasks, OtherDevice(t)
    PROVE  IInv'
<1>1. /\ StoreOK' /\ BoundsOK' /\ behind' /\ contended' = contended \cup {t}
      /\ UNCHANGED <<row, trail, backs, client, flight>>
      /\ \A u \in Tasks \ {t} : u \in done' <=> u \in done
    BY OtherDeviceKept DEF IInv
<1>2. TypeInv'
    <2>1. ListOK' /\ PanelTyped' /\ SnackOK'
        BY <1>1, ClientSame DEF IInv
    <2>2. RequestsOK'
        BY <1>1 DEF IInv, TypeInv, RequestsOK
    <2>3. QED
        BY <1>1, <2>1, <2>2 DEF TypeInv
<1>3. Covered'
    BY <1>1 DEF Covered
<1>4. /\ KindSame("reorder") /\ KindSame("save") /\ KindSame("toggle")
      /\ KindSame("create") /\ KindSame("delete") /\ KindSame("restore")
    BY <1>1, KindsUnchanged
<1>5. BoardOK'
    BY <1>1, <1>4, BoardStill DEF IInv, client
<1>6. TicksOK'
    <2> SUFFICES ASSUME NEW u \in Tasks, u \notin contended'
                 PROVE  /\ \A k, j \in Slots : Ticking(k, u)' /\ Ticking(j, u)' => k = j
                        /\ \A s \in {"active", "done"} : Wrong(s, u)' =>
                            /\ \A k \in Slots : Ticking(k, u)' =>
                                /\ flight'[k].section = s /\ flight'[k].alive /\ flight'[k].next = (s = "active")
                                /\ flight'[k].answer = "ok" => Away(s, u)'
                            /\ (\E k \in Slots : Ticking(k, u)') \/ Away(s, u)'
        BY DEF TicksOK
    <2>1. u \notin contended /\ u # t
        BY <1>1
    <2>2. flight' = flight /\ box' = box /\ (u \in done' <=> u \in done)
        BY <1>1, <2>1 DEF client
    <2>3. /\ \A k \in Slots : Ticking(k, u)' <=> Ticking(k, u)
          /\ \A s \in {"active", "done"} : (Wrong(s, u)' <=> Wrong(s, u)) /\ (Away(s, u)' <=> Away(s, u))
        BY <2>2 DEF Ticking, Wrong, Away
    <2>4. QED
        BY <2>1, <2>2, <2>3 DEF IInv, TicksOK
<1>7. PanelOK'
    BY <1>1, <1>4, PanelStill DEF IInv, client
<1>8. WaitsOK'
    <2>1. BoxesWait'
        BY <1>1, <1>4, BoxesStill DEF IInv, WaitsOK, client
    <2>2. DraftWaits'
        BY <1>1, <1>4, DraftStill DEF IInv, WaitsOK, client
    <2>3. PanelWaits'
        BY <1>1, <1>4, PanelWaitsStill DEF IInv, WaitsOK, client
    <2>4. SnackWaits'
        BY <1>1 DEF IInv, WaitsOK, SnackWaits, client
    <2>5. QED
        BY <2>1, <2>2, <2>3, <2>4 DEF WaitsOK
<1>9. QED
    BY <1>2, <1>3, <1>5, <1>6, <1>7, <1>8 DEF IInv

-----------------------------------------------------------------------------
(* The orders a row can be moved to.                                       *)

\* Two elements change places.
LEMMA Swapped ==
    ASSUME NEW S, NEW s \in Seq(S), IsInjective(s), NEW k \in 1..(Len(s) - 1)
    PROVE  LET t == [s EXCEPT ![k] = s[k + 1], ![k + 1] = s[k]] IN t \in Seq(S) /\ IsInjective(t)
<1> DEFINE n == Len(s)
           u == [s EXCEPT ![k] = s[k + 1]]
           t == [u EXCEPT ![k + 1] = s[k]]
<1>1. n \in Nat /\ DOMAIN s = 1..n /\ k \in 1..n /\ k + 1 \in 1..n /\ \A j \in 1..n : s[j] \in S
    BY LenProperties, ElementOfSeq
<1>2. u \in Seq(S) /\ Len(u) = n /\ \A j \in 1..n : u[j] = IF j = k THEN s[k + 1] ELSE s[j]
    BY <1>1, ExceptSeq
<1>3. t \in Seq(S) /\ Len(t) = n /\ \A j \in 1..n : t[j] = IF j = k + 1 THEN s[k] ELSE u[j]
    BY <1>1, <1>2, ExceptSeq
<1>4. DOMAIN t = 1..n
    BY <1>3, LenProperties
<1> DEFINE at(j) == IF j = k THEN k + 1 ELSE IF j = k + 1 THEN k ELSE j
<1>5. \A j \in 1..n : at(j) \in DOMAIN s /\ t[j] = s[at(j)]
    BY <1>1, <1>2, <1>3
<1>6. IsInjective(t)
    <2> SUFFICES ASSUME NEW a \in 1..n, NEW b \in 1..n, t[a] = t[b]
                 PROVE  a = b
        BY <1>4 DEF IsInjective
    <2>1. at(a) = at(b)
        BY <1>5 DEF IsInjective
    <2>2. k # k + 1 /\ \A j \in 1..n : (at(j) = k + 1 <=> j = k) /\ (at(j) = k <=> j = k + 1)
        BY <1>1
    <2>3. QED
        BY <2>1, <2>2
<1>7. QED
    BY <1>3, <1>6

\* One element is dropped before another.
LEMMA Dropped ==
    ASSUME NEW S, NEW s \in Seq(S), IsInjective(s), NEW k \in 1..Len(s), NEW m \in 1..Len(s)
    PROVE  LET t == InsertAt(RemoveAt(s, k), IF k < m THEN m - 1 ELSE m, s[k]) IN
           t \in Seq(S) /\ IsInjective(t)
<1> DEFINE r == RemoveAt(s, k)
<1>1. k \in DOMAIN s /\ s[k] \in S /\ Len(s) \in Nat
    BY LenProperties, ElementOfSeq
<1>2. r \in Seq(S) /\ IsInjective(r) /\ s[k] \notin ToSet(r) /\ Len(r) = Len(s) - 1
    BY <1>1, TakenOut
<1>3. PICK p \in 1..(Len(r) + 1) : p = IF k < m THEN m - 1 ELSE m
    BY <1>1, <1>2
<1> HIDE DEF r
<1>4. InsertAt(r, p, s[k]) \in Seq(S) /\ IsInjective(InsertAt(r, p, s[k]))
    BY <1>1, <1>2, PutIn
<1>5. QED
    BY <1>3, <1>4, Zenon DEF r

\* The rows shown are tasks, each once.
LEMMA RowsOK ==
    ASSUME TypeInv
    PROVE  Rows \in Orders
BY DEF TypeInv, ListOK, Shown, BoardType, Rows

\* So are the rows after a move.
LEMMA MovesOK ==
    ASSUME TypeInv, NEW next \in Moves
    PROVE  next \in Orders
<1>1. Rows \in Seq(Tasks) /\ IsInjective(Rows)
    BY RowsOK DEF Orders
<1>2. ASSUME NEW k \in 1..(Len(Rows) - 1), next = [Rows EXCEPT ![k] = Rows[k + 1], ![k + 1] = Rows[k]]
      PROVE  next \in Orders
    <2>1. next \in Seq(Tasks) /\ IsInjective(next)
        BY <1>1, <1>2, Swapped, Zenon
    <2>2. QED
        BY <2>1 DEF Orders
<1>3. ASSUME NEW k \in 1..Len(Rows), NEW m \in 1..Len(Rows),
             next = InsertAt(RemoveAt(Rows, k), IF k < m THEN m - 1 ELSE m, Rows[k])
      PROVE  next \in Orders
    <2>1. next \in Seq(Tasks) /\ IsInjective(next)
        BY <1>1, <1>3, Dropped, Zenon
    <2>2. QED
        BY <2>1 DEF Orders
<1>4. \/ \E k \in 1..(Len(Rows) - 1) : next = [Rows EXCEPT ![k] = Rows[k + 1], ![k + 1] = Rows[k]]
      \/ \E k \in 1..Len(Rows), m \in 1..Len(Rows) :
            next = InsertAt(RemoveAt(Rows, k), IF k < m THEN m - 1 ELSE m, Rows[k])
    BY DEF Moves
<1>5. QED
    BY <1>2, <1>3, <1>4

-----------------------------------------------------------------------------
(* The invariant, when a request is sent.                                  *)

\* What every sending step has in common.
LEMMA SendKept ==
    ASSUME IInv, NEW q \in Sent, Send(q), q.answer = "none", q.kind # "free", q.alive,
           q.kind \in {"toggle", "save", "delete", "restore"} => q.task \in Tasks,
           q.kind = "save" => q.field \in Fields,
           UNCHANGED <<props, refresh>>, contended' \subseteq Tasks, snack'.arriving = snack.arriving
    PROVE  /\ StoreOK' /\ RequestsOK' /\ BoundsOK' /\ Covered'
           /\ UNCHANGED <<store, trail, backs>>
           /\ \E i \in Slots : Taken(i, q)
           /\ \A kind : kind # q.kind /\ kind # "free" => KindSame(kind)
           /\ Out(q.kind)'
<1>1. /\ RequestsOK' /\ BoundsOK' /\ UNCHANGED <<store, trail, backs, lost, behind>>
      /\ \E i \in Slots : Taken(i, q)
    BY SentOne DEF IInv, TypeInv
<1>2. PICK i \in Slots : Taken(i, q)
    BY <1>1
<1>3. StoreOK'
    BY <1>1, StoreSame DEF IInv, TypeInv
<1>4. Covered'
    <2>1. \A j \in Slots : flight[j].answer = "ok" => flight'[j].answer = "ok"
        BY <1>2 DEF Taken, Idle, IInv, TypeInv, RequestsOK
    <2>2. UNCHANGED <<active, done, trash, props>>
        BY <1>1 DEF store
    <2>3. QED
        BY <1>1, <2>1, <2>2, CoveredStill DEF IInv
<1>5. \A kind : kind # q.kind /\ kind # "free" => KindSame(kind)
    BY <1>2, KindsTaken
<1>6. Out(q.kind)'
    BY <1>2 DEF Out, Taken
<1>7. QED
    BY <1>1, <1>3, <1>4, <1>5, <1>6

\* A reorder is sent.
LEMMA PersistKept ==
    ASSUME IInv, Persist
    PROVE  IInv'
<1>1. PICK next \in Moves : /\ board' = [order |-> next, error |-> FALSE]
                            /\ Send([Free EXCEPT !.kind = "reorder", !.vector = next, !.previous = Rows])
    BY Zenon DEF Persist
<1>2. UNCHANGED <<contended, props, refresh, box, composer, panel, snack>> /\ Route = List
    BY DEF Persist, OnList
<1>3. next \in Orders /\ Rows \in Orders
    BY MovesOK, RowsOK DEF IInv
<1>4. PICK q \in Sent : /\ q = [Free EXCEPT !.kind = "reorder", !.vector = next, !.previous = Rows]
                        /\ q.kind = "reorder" /\ q.answer = "none" /\ q.alive
    <2> DEFINE q == [Free EXCEPT !.kind = "reorder", !.vector = next, !.previous = Rows]
    <2>1. q \in Sent
        BY <1>3, FreeSlot DEF Sent, Kinds
    <2>2. q.kind = "reorder" /\ q.answer = "none"
        BY <1>3, FreeSlot DEF Sent
    <2>3. q.alive
        BY FreeSlot DEF Sent
    <2>4. QED
        BY <2>1, <2>2, <2>3
<1>5. contended' \subseteq Tasks
    BY <1>2 DEF IInv, TypeInv, BoundsOK
<1>6. Send(q)
    BY <1>1, <1>4, Zenon
<1>7. /\ StoreOK' /\ RequestsOK' /\ BoundsOK' /\ Covered'
      /\ UNCHANGED <<store, trail, backs>>
      /\ \A kind : kind # q.kind /\ kind # "free" => KindSame(kind)
      /\ Out("reorder")'
    BY <1>2, <1>4, <1>5, <1>6, SendKept
<1>8. /\ KindSame("toggle") /\ KindSame("save") /\ KindSame("create")
      /\ KindSame("delete") /\ KindSame("restore")
    BY <1>4, <1>7
<1>9. TypeInv'
    <2>1. ListOK'
        BY <1>1, <1>2, <1>3, <1>7 DEF IInv, TypeInv, ListOK, BoardType
    <2>2. PanelTyped' /\ SnackOK'
        BY <1>2 DEF IInv, TypeInv, PanelTyped, SnackOK
    <2>3. QED
        BY <1>7, <2>1, <2>2 DEF TypeInv
<1>10. BoardOK'
    <2>1. Route' # Elsewhere
        BY <1>2, <1>7 DEF Route, List, Elsewhere
    <2>2. QED
        BY <1>7, <2>1 DEF BoardOK
<1>11. TicksOK'
    BY <1>2, <1>7, <1>8, TicksSame DEF IInv, store
<1>12. PanelOK'
    BY <1>2, <1>7, <1>8, PanelStill DEF IInv, store
<1>13. WaitsOK'
    <2>1. BoxesWait' /\ DraftWaits' /\ PanelWaits'
        BY <1>2, <1>7, <1>8, BoxesStill, DraftStill, PanelWaitsStill DEF IInv, WaitsOK
    <2>2. SnackWaits'
        BY <1>2, <1>8, SnackWaitsStill DEF IInv, WaitsOK, SnackWaits
    <2>3. QED
        BY <2>1, <2>2 DEF WaitsOK
<1>14. QED
    BY <1>7, <1>9, <1>10, <1>11, <1>12, <1>13 DEF IInv

\* A task is submitted.
LEMMA SubmitKept ==
    ASSUME IInv, Submit
    PROVE  IInv'
<1>1. /\ composer' = [composer EXCEPT !.submitting = TRUE, !.error = FALSE]
      /\ Send([Free EXCEPT !.kind = "create", !.value = composer.title])
      /\ UNCHANGED <<contended, props, refresh, board, box, panel, snack>>
    BY Zenon DEF Submit
<1>2. composer \in DraftType
    BY DEF IInv, TypeInv, ListOK
<1>3. PICK q \in Sent : /\ q = [Free EXCEPT !.kind = "create", !.value = composer.title]
                        /\ q.kind = "create" /\ q.answer = "none" /\ q.alive
    <2> DEFINE q == [Free EXCEPT !.kind = "create", !.value = composer.title]
    <2>1. q \in Sent
        BY <1>2, FreeSlot DEF Sent, Kinds, DraftType, Values
    <2>2. q.kind = "create" /\ q.answer = "none"
        BY <1>2, FreeSlot DEF Sent, DraftType, Values
    <2>3. q.alive
        BY FreeSlot DEF Sent
    <2>4. QED
        BY <2>1, <2>2, <2>3
<1>4. contended' \subseteq Tasks
    BY <1>1 DEF IInv, TypeInv, BoundsOK
<1>5. Send(q)
    BY <1>1, <1>3, Zenon
<1>6. /\ StoreOK' /\ RequestsOK' /\ BoundsOK' /\ Covered'
      /\ UNCHANGED <<store, trail, backs>>
      /\ \A kind : kind # q.kind /\ kind # "free" => KindSame(kind)
      /\ Out("create")'
    BY <1>1, <1>3, <1>4, <1>5, SendKept
<1>7. /\ KindSame("toggle") /\ KindSame("save") /\ KindSame("reorder")
      /\ KindSame("delete") /\ KindSame("restore")
    BY <1>3, <1>6
<1>8. TypeInv'
    <2>1. composer' \in DraftType
        BY <1>1, <1>2 DEF DraftType
    <2>2. ListOK'
        BY <1>1, <1>6, <2>1 DEF IInv, TypeInv, ListOK
    <2>3. PanelTyped' /\ SnackOK'
        BY <1>1 DEF IInv, TypeInv, PanelTyped, SnackOK
    <2>4. QED
        BY <1>6, <2>2, <2>3 DEF TypeInv
<1>9. BoardOK'
    BY <1>1, <1>6, <1>7, BoardStill DEF IInv
<1>10. TicksOK'
    BY <1>1, <1>6, <1>7, TicksSame DEF IInv, store
<1>11. PanelOK'
    BY <1>1, <1>6, <1>7, PanelStill DEF IInv, store
<1>12. WaitsOK'
    <2>1. BoxesWait' /\ PanelWaits'
        BY <1>1, <1>6, <1>7, BoxesStill, PanelWaitsStill DEF IInv, WaitsOK
    <2>2. DraftWaits'
        BY <1>6 DEF DraftWaits
    <2>3. SnackWaits'
        BY <1>1, <1>7, SnackWaitsStill DEF IInv, WaitsOK, SnackWaits
    <2>4. QED
        BY <2>1, <2>2, <2>3 DEF WaitsOK
<1>13. QED
    BY <1>6, <1>8, <1>9, <1>10, <1>11, <1>12 DEF IInv

\* A deletion is sent.
LEMMA ConfirmDeleteKept ==
    ASSUME IInv, ConfirmDelete
    PROVE  IInv'
<1>1. /\ panel' = [panel EXCEPT !.submitting = TRUE, !.error = FALSE]
      /\ Send([Free EXCEPT !.kind = "delete", !.task = panel.task])
      /\ UNCHANGED <<contended, props, refresh, board, box, composer, snack>>
      /\ panel.task # None
    BY Zenon DEF ConfirmDelete, OnPanel
<1>2. PanelTyped /\ panel \in PanelType
    BY DEF IInv, TypeInv, PanelTyped
<1>3. PICK q \in Sent : /\ q = [Free EXCEPT !.kind = "delete", !.task = panel.task]
                        /\ q.kind = "delete" /\ q.answer = "none" /\ q.alive /\ q.task \in Tasks
    <2> DEFINE q == [Free EXCEPT !.kind = "delete", !.task = panel.task]
    <2>1. q \in Sent
        BY <1>1, <1>2, FreeSlot DEF Sent, Kinds, PanelType
    <2>2. q.kind = "delete" /\ q.answer = "none" /\ q.task \in Tasks
        BY <1>1, <1>2, FreeSlot DEF Sent, PanelType
    <2>3. q.alive
        BY FreeSlot DEF Sent
    <2>4. QED
        BY <2>1, <2>2, <2>3
<1>4. contended' \subseteq Tasks
    BY <1>1 DEF IInv, TypeInv, BoundsOK
<1>5. Send(q)
    BY <1>1, <1>3, Zenon
<1>6. /\ StoreOK' /\ RequestsOK' /\ BoundsOK' /\ Covered'
      /\ UNCHANGED <<store, trail, backs>>
      /\ \A kind : kind # q.kind /\ kind # "free" => KindSame(kind)
      /\ Out("delete")'
    BY <1>1, <1>3, <1>4, <1>5, SendKept
<1>7. /\ KindSame("toggle") /\ KindSame("save") /\ KindSame("reorder")
      /\ KindSame("create") /\ KindSame("restore")
    BY <1>3, <1>6
<1>8. /\ PanelTyped' /\ panel'.task = panel.task /\ panel'.overlapped = panel.overlapped
      /\ panel'.saving = panel.saving /\ panel'.failed = panel.failed /\ panel'.shown = panel.shown
    BY <1>1, <1>2 DEF PanelTyped, PanelType
<1>9. TypeInv'
    <2>1. ListOK'
        BY <1>1, <1>6 DEF IInv, TypeInv, ListOK
    <2>2. SnackOK'
        BY <1>1 DEF IInv, TypeInv, SnackOK
    <2>3. QED
        BY <1>6, <1>8, <2>1, <2>2 DEF TypeInv
<1>10. BoardOK'
    BY <1>1, <1>6, <1>7, BoardStill DEF IInv
<1>11. TicksOK'
    BY <1>1, <1>6, <1>7, TicksSame DEF IInv, store
<1>12. PanelOK'
    BY <1>1, <1>6, <1>7, <1>8, PanelStill DEF IInv, store
<1>13. WaitsOK'
    <2>1. BoxesWait' /\ DraftWaits'
        BY <1>1, <1>7, BoxesStill, DraftStill DEF IInv, WaitsOK
    <2>2. PanelWaits'
        BY <1>6, <1>7, <1>8, OutStill DEF PanelWaits, IInv, WaitsOK
    <2>3. SnackWaits'
        BY <1>1, <1>7, SnackWaitsStill DEF IInv, WaitsOK, SnackWaits
    <2>4. QED
        BY <2>1, <2>2, <2>3 DEF WaitsOK
<1>14. QED
    BY <1>6, <1>9, <1>10, <1>11, <1>12, <1>13 DEF IInv

\* An undo is sent.
LEMMA UndoKept ==
    ASSUME IInv, Undo
    PROVE  IInv'
<1>1. /\ snack' = [snack EXCEPT !.pending = TRUE, !.error = FALSE]
      /\ Send([Free EXCEPT !.kind = "restore", !.task = snack.task])
      /\ UNCHANGED <<contended, props, refresh, board, box, composer, panel>>
      /\ snack.task # None
    BY Zenon DEF Undo
<1>2. SnackOK /\ snack \in SnackType
    BY DEF IInv, TypeInv, SnackOK
<1>3. PICK q \in Sent : /\ q = [Free EXCEPT !.kind = "restore", !.task = snack.task]
                        /\ q.kind = "restore" /\ q.answer = "none" /\ q.alive /\ q.task \in Tasks
    <2> DEFINE q == [Free EXCEPT !.kind = "restore", !.task = snack.task]
    <2>1. q \in Sent
        BY <1>1, <1>2, FreeSlot DEF Sent, Kinds, SnackType
    <2>2. q.kind = "restore" /\ q.answer = "none" /\ q.task \in Tasks
        BY <1>1, <1>2, FreeSlot DEF Sent, SnackType
    <2>3. q.alive
        BY FreeSlot DEF Sent
    <2>4. QED
        BY <2>1, <2>2, <2>3
<1>4. contended' \subseteq Tasks /\ snack'.arriving = snack.arriving
    BY <1>1, <1>2 DEF IInv, TypeInv, BoundsOK, SnackType
<1>5. Send(q)
    BY <1>1, <1>3, Zenon
<1>6. /\ StoreOK' /\ RequestsOK' /\ BoundsOK' /\ Covered'
      /\ UNCHANGED <<store, trail, backs>>
      /\ \A kind : kind # q.kind /\ kind # "free" => KindSame(kind)
      /\ Out("restore")'
    BY <1>1, <1>3, <1>4, <1>5, SendKept
<1>7. /\ KindSame("toggle") /\ KindSame("save") /\ KindSame("reorder")
      /\ KindSame("create") /\ KindSame("delete")
    BY <1>3, <1>6
<1>8. /\ snack' \in SnackType /\ snack'.task = snack.task
      /\ snack'.elapsed = snack.elapsed /\ snack'.remaining = snack.remaining /\ snack'.shownFor = snack.shownFor
    BY <1>1, <1>2 DEF SnackType
<1>9. TypeInv'
    <2>1. ListOK' /\ PanelTyped'
        BY <1>1, <1>6 DEF IInv, TypeInv, ListOK, PanelTyped
    <2>2. SnackOK'
        BY <1>2, <1>8 DEF SnackOK
    <2>3. QED
        BY <1>6, <2>1, <2>2 DEF TypeInv
<1>10. BoardOK'
    BY <1>1, <1>6, <1>7, BoardStill DEF IInv
<1>11. TicksOK'
    BY <1>1, <1>6, <1>7, TicksSame DEF IInv, store
<1>12. PanelOK'
    BY <1>1, <1>6, <1>7, PanelStill DEF IInv, store
<1>13. WaitsOK'
    <2>1. BoxesWait' /\ DraftWaits' /\ PanelWaits'
        BY <1>1, <1>6, <1>7, BoxesStill, DraftStill, PanelWaitsStill DEF IInv, WaitsOK
    <2>2. SnackWaits'
        BY <1>1, <1>6, <1>8 DEF SnackWaits, Out
    <2>3. QED
        BY <2>1, <2>2 DEF WaitsOK
<1>14. QED
    BY <1>6, <1>9, <1>10, <1>11, <1>12, <1>13 DEF IInv

\* What a box shows is a choice.
LEMMA CheckedTyped ==
    ASSUME TypeInv, NEW s \in Sections, NEW t \in Tasks
    PROVE  \E c \in BOOLEAN : c = Checked(s, t)
<1>1. panel.checked \in BOOLEAN
    BY DEF TypeInv, PanelTyped, PanelType
<1>2. CASE box[s][t].mark = "done"
    BY <1>2 DEF Checked
<1>3. CASE box[s][t].mark = "open"
    BY <1>3 DEF Checked
<1>4. CASE box[s][t].mark \notin {"done", "open"}
    <2>1. Checked(s, t) = IF s = "panel" THEN panel.checked ELSE s = "done"
        BY <1>4 DEF Checked
    <2>2. CASE s = "panel"
        BY <1>1, <2>1, <2>2
    <2>3. CASE s # "panel"
        BY <2>1, <2>3
    <2>4. QED
        BY <2>2, <2>3
<1>5. QED
    BY <1>2, <1>3, <1>4

\* A tick is sent.
LEMMA ToggleKept ==
    ASSUME IInv, NEW s \in Sections, NEW t \in Tasks, Toggle(s, t)
    PROVE  IInv'
<1>1. PICK c, n \in BOOLEAN : c = Checked(s, t) /\ n = ~Checked(s, t)
    <2>1. PICK c \in BOOLEAN : c = Checked(s, t)
        BY CheckedTyped DEF IInv
    <2>2. PICK n \in BOOLEAN : n = ~Checked(s, t)
        OBVIOUS
    <2>3. QED
        BY <2>1, <2>2, Zenon
<1> DEFINE m == IF c THEN "open" ELSE "done"
<1>2. /\ box' = [box EXCEPT ![s][t] = [mark |-> m, pending |-> TRUE]]
      /\ Send([Free EXCEPT !.kind = "toggle", !.task = t, !.section = s, !.next = n])
    BY <1>1, Zenon DEF Toggle
<1>3. contended' = (IF TickedElsewhere(s, t) THEN contended \cup {t} ELSE contended)
    BY DEF Toggle
<1>4. UNCHANGED <<props, refresh, board, composer, panel, snack>>
    BY DEF Toggle
<1>5. PICK q \in Sent : /\ q = [Free EXCEPT !.kind = "toggle", !.task = t, !.section = s, !.next = n]
                        /\ q.kind = "toggle" /\ q.answer = "none" /\ q.alive
                        /\ q.task = t /\ q.section = s /\ (q.next <=> ~c)
    <2> DEFINE q == [Free EXCEPT !.kind = "toggle", !.task = t, !.section = s, !.next = n]
    <2>1. q \in Sent
        BY FreeSlot DEF Sent, Kinds
    <2>2. q.kind = "toggle" /\ q.answer = "none" /\ q.task = t /\ q.section = s
        BY FreeSlot DEF Sent
    <2>3. q.alive
        BY FreeSlot DEF Sent
    <2>4. q.next = n
        BY FreeSlot DEF Sent
    <2>5. QED
        BY <1>1, <2>1, <2>2, <2>3, <2>4
<1>6. contended' \subseteq Tasks /\ contended \subseteq contended'
    BY <1>3 DEF IInv, TypeInv, BoundsOK
<1>7. Send(q)
    BY <1>2, <1>5, Zenon
<1>8. /\ StoreOK' /\ RequestsOK' /\ BoundsOK' /\ Covered'
      /\ UNCHANGED <<store, trail, backs>>
      /\ \E i \in Slots : Taken(i, q)
      /\ \A kind : kind # q.kind /\ kind # "free" => KindSame(kind)
    BY <1>4, <1>5, <1>6, <1>7, SendKept
<1>9. PICK i \in Slots : Idle(i) /\ flight'[i] = q /\ \A j \in Slots : j # i => flight'[j] = flight[j]
    BY <1>8 DEF Taken
<1>10. /\ KindSame("reorder") /\ KindSame("save") /\ KindSame("create")
       /\ KindSame("delete") /\ KindSame("restore")
    BY <1>5, <1>8
<1>11. /\ box' \in [Sections -> [Tasks -> BoxType]]
       /\ box'[s][t].mark = m /\ box'[s][t].pending
       /\ \A o \in Sections, u \in Tasks : o # s \/ u # t => box'[o][u] = box[o][u]
    <2>1. [mark |-> m, pending |-> TRUE] \in BoxType
        BY DEF BoxType
    <2>2. box \in [Sections -> [Tasks -> BoxType]]
        BY DEF IInv, TypeInv, ListOK
    <2> HIDE DEF m
    <2>3. box' = [box EXCEPT ![s] = [box[s] EXCEPT ![t] = [mark |-> m, pending |-> TRUE]]]
        BY <1>2
    <2>4. /\ [box[s] EXCEPT ![t] = [mark |-> m, pending |-> TRUE]] \in [Tasks -> BoxType]
          /\ \A u \in Tasks : [box[s] EXCEPT ![t] = [mark |-> m, pending |-> TRUE]][u] =
                                  IF u = t THEN [mark |-> m, pending |-> TRUE] ELSE box[s][u]
        BY <2>1, <2>2
    <2>5. QED
        BY <2>2, <2>3, <2>4
<1>12. TypeInv'
    <2>1. ListOK'
        BY <1>4, <1>8, <1>11 DEF IInv, TypeInv, ListOK
    <2>2. PanelTyped' /\ SnackOK'
        BY <1>4 DEF IInv, TypeInv, PanelTyped, SnackOK
    <2>3. QED
        BY <1>8, <2>1, <2>2 DEF TypeInv
<1>13. BoardOK'
    BY <1>4, <1>8, <1>10, BoardStill DEF IInv
<1>14. PanelOK'
    BY <1>4, <1>8, <1>10, PanelStill DEF IInv, store
<1>15. WaitsOK'
    <2>1. BoxesWait'
        <3> SUFFICES ASSUME NEW o \in Sections, NEW u \in Tasks, box'[o][u].pending
                     PROVE  \E j \in Slots : Ticking(j, u)' /\ flight'[j].section = o /\ flight'[j].alive
            BY DEF BoxesWait
        <3>1. CASE o = s /\ u = t
            BY <1>5, <1>9, <3>1 DEF Ticking
        <3>2. CASE o # s \/ u # t
            <4>1. PICK j \in Slots : Ticking(j, u) /\ flight[j].section = o /\ flight[j].alive
                BY <1>11, <3>2 DEF IInv, WaitsOK, BoxesWait
            <4>2. j # i
                BY <1>9, <4>1 DEF Idle, Ticking
            <4>3. QED
                BY <1>9, <4>1, <4>2 DEF Ticking
        <3>3. QED
            BY <3>1, <3>2
    <2>2. DraftWaits' /\ PanelWaits'
        BY <1>4, <1>8, <1>10, DraftStill, PanelWaitsStill DEF IInv, WaitsOK
    <2>3. SnackWaits'
        BY <1>4, <1>10, SnackWaitsStill DEF IInv, WaitsOK, SnackWaits
    <2>4. QED
        BY <2>1, <2>2, <2>3 DEF WaitsOK
<1>16. TicksOK'
    <2> SUFFICES ASSUME NEW u \in Tasks, u \notin contended'
                 PROVE  /\ \A k, j \in Slots : Ticking(k, u)' /\ Ticking(j, u)' => k = j
                        /\ \A o \in {"active", "done"} : Wrong(o, u)' =>
                            /\ \A k \in Slots : Ticking(k, u)' =>
                                /\ flight'[k].section = o /\ flight'[k].alive /\ flight'[k].next = (o = "active")
                                /\ flight'[k].answer = "ok" => Away(o, u)'
                            /\ (\E k \in Slots : Ticking(k, u)') \/ Away(o, u)'
        BY DEF TicksOK
    <2>1. u \notin contended
        BY <1>6
    <2>2. CASE u # t
        <3>1. \A k \in Slots : Ticking(k, u)' <=> Ticking(k, u)
            <4>1. flight[i].kind = "free" /\ flight'[i].task = t
                BY <1>5, <1>9 DEF Idle
            <4>2. QED
                BY <1>9, <2>2, <4>1 DEF Ticking
        <3>2. \A k \in Slots : Ticking(k, u) => flight'[k] = flight[k]
            BY <1>9 DEF Ticking, Idle
        <3>3. \A o \in {"active", "done"} : (Wrong(o, u)' <=> Wrong(o, u)) /\ (Away(o, u)' <=> Away(o, u))
            BY <1>8, <1>11, <2>2 DEF Wrong, Away, Sections, store
        <3>4. QED
            BY <2>1, <3>1, <3>2, <3>3 DEF IInv, TicksOK
    <2>3. CASE u = t
        <3>1. /\ s # "panel" /\ \A o \in Sections \ {s} : box[o][t].mark = "none"
              /\ \A k \in Slots : ~Ticking(k, t)
            <4>1. ~TickedElsewhere(s, t)
                BY <1>3, <2>3
            <4>2. QED
                BY <4>1 DEF TickedElsewhere, Ticking
        <3>2. \A k \in Slots : Ticking(k, t)' <=> k = i
            BY <1>5, <1>9, <3>1 DEF Ticking
        <3>3. ASSUME NEW o \in {"active", "done"}, Wrong(o, t)'
              PROVE  o = s /\ (q.next <=> o = "active")
            <4>1. o = s
                BY <1>11, <3>1, <3>3 DEF Wrong, Sections
            <4>2. m = IF s = "active" THEN "done" ELSE "open"
                BY <1>11, <3>3, <4>1 DEF Wrong
            <4>3. QED
                BY <1>5, <4>1, <4>2
        <3>4. \A o \in {"active", "done"} : (q.next <=> o = "active") => q.next = (o = "active")
            <4>1. q.next \in BOOLEAN
                BY DEF Sent
            <4>2. QED
                BY <4>1
        <3>5. QED
            BY <1>5, <1>9, <2>3, <3>2, <3>3, <3>4
    <2>4. QED
        BY <2>2, <2>3
<1>17. QED
    BY <1>8, <1>12, <1>13, <1>14, <1>15, <1>16 DEF IInv

\* A field is saved.
LEMMA SaveKept ==
    ASSUME IInv, NEW f \in Fields, NEW v \in Values, panel.task # None, Save(f, v)
    PROVE  IInv'
<1>1. /\ Send([Free EXCEPT !.kind = "save", !.task = panel.task, !.field = f, !.value = v])
      /\ UNCHANGED <<contended, props, refresh, board, box, composer, snack>>
    BY Zenon DEF Save
<1>2. PICK o \in BOOLEAN : /\ o = (panel.overlapped \/ panel.saving # "none")
                           /\ panel' = [panel EXCEPT !.saving = f, !.failed = @ \ {f}, !.focused = FALSE,
                                                     !.overlapped = o]
    <2>1. (panel.overlapped \/ panel.saving # "none") \in BOOLEAN
        OBVIOUS
    <2>2. QED
        BY <2>1, Zenon DEF Save
<1>3. panel \in PanelType
    BY DEF IInv, TypeInv, PanelTyped
<1>4. PICK q \in Sent : /\ q = [Free EXCEPT !.kind = "save", !.task = panel.task, !.field = f, !.value = v]
                        /\ q.kind = "save" /\ q.answer = "none" /\ q.alive
                        /\ q.task = panel.task /\ q.task \in Tasks /\ q.field = f
    <2> DEFINE q == [Free EXCEPT !.kind = "save", !.task = panel.task, !.field = f, !.value = v]
    <2>1. q \in Sent
        BY <1>3, FreeSlot DEF Sent, Kinds, PanelType
    <2>2. q.kind = "save" /\ q.answer = "none" /\ q.task = panel.task /\ q.task \in Tasks /\ q.field = f
        BY <1>3, FreeSlot DEF Sent, PanelType
    <2>3. q.alive
        BY FreeSlot DEF Sent
    <2>4. QED
        BY <2>1, <2>2, <2>3
<1>5. contended' \subseteq Tasks
    BY <1>1 DEF IInv, TypeInv, BoundsOK
<1>6. Send(q)
    BY <1>1, <1>4, Zenon
<1>7. /\ StoreOK' /\ RequestsOK' /\ BoundsOK' /\ Covered'
      /\ UNCHANGED <<store, trail, backs>>
      /\ \E i \in Slots : Taken(i, q)
      /\ \A kind : kind # q.kind /\ kind # "free" => KindSame(kind)
      /\ Out("save")'
    BY <1>1, <1>4, <1>5, <1>6, SendKept
<1>8. PICK i \in Slots : Idle(i) /\ flight'[i] = q /\ \A j \in Slots : j # i => flight'[j] = flight[j]
    BY <1>7 DEF Taken
<1>9. /\ KindSame("toggle") /\ KindSame("create") /\ KindSame("reorder")
      /\ KindSame("delete") /\ KindSame("restore")
    BY <1>4, <1>7
<1>10. /\ PanelTyped' /\ panel'.task = panel.task /\ panel'.saving = f
       /\ panel'.submitting = panel.submitting /\ (panel'.overlapped <=> o)
    <2>1. PanelTyped'
        BY <1>2, <1>3 DEF PanelTyped, PanelType
    <2>2. panel'.task = panel.task /\ panel'.saving = f /\ panel'.submitting = panel.submitting
        BY <1>2, <1>3 DEF PanelType
    <2>3. panel'.overlapped = o
        BY <1>2, <1>3 DEF PanelType
    <2>4. QED
        BY <2>1, <2>2, <2>3
<1>11. f # "none"
    BY FieldsAssumption
<1>12. TypeInv'
    <2>1. ListOK'
        BY <1>1, <1>7 DEF IInv, TypeInv, ListOK
    <2>2. SnackOK'
        BY <1>1 DEF IInv, TypeInv, SnackOK
    <2>3. QED
        BY <1>7, <1>10, <2>1, <2>2 DEF TypeInv
<1>13. BoardOK'
    BY <1>1, <1>7, <1>9, BoardStill DEF IInv
<1>14. TicksOK'
    BY <1>1, <1>7, <1>9, TicksSame DEF IInv, store
<1>15. PanelOK'
    <2> SUFFICES ASSUME ~panel'.overlapped
                 PROVE  /\ \A k, j \in Slots : flight'[k].kind = "save" /\ flight'[j].kind = "save" => k = j
                        /\ \A k \in Slots : flight'[k].kind = "save" =>
                            /\ flight'[k].alive /\ panel'.saving # "none" /\ flight'[k].task = panel'.task
                            /\ flight'[k].answer = "ok" => flight'[k].saved = row'[panel'.task]
                        /\ ~(\A k \in Slots : flight'[k].kind # "save")
        BY DEF PanelOK
    <2>1. ~panel.overlapped /\ panel.saving = "none"
        BY <1>2, <1>10
    <2>2. \A k \in Slots : flight[k].kind # "save"
        BY <2>1 DEF IInv, PanelOK
    <2>3. \A k \in Slots : flight'[k].kind = "save" <=> k = i
        BY <1>4, <1>8, <2>2
    <2>4. QED
        BY <1>4, <1>8, <1>10, <1>11, <2>3
<1>16. WaitsOK'
    <2>1. BoxesWait' /\ DraftWaits'
        BY <1>1, <1>9, BoxesStill, DraftStill DEF IInv, WaitsOK
    <2>2. PanelWaits'
        BY <1>7, <1>9, <1>10, OutStill DEF PanelWaits, IInv, WaitsOK
    <2>3. SnackWaits'
        BY <1>1, <1>9, SnackWaitsStill DEF IInv, WaitsOK, SnackWaits
    <2>4. QED
        BY <2>1, <2>2, <2>3 DEF WaitsOK
<1>17. QED
    BY <1>7, <1>12, <1>13, <1>14, <1>15, <1>16 DEF IInv

\* The title loses the focus.
LEMMA BlurKept ==
    ASSUME IInv, Blur
    PROVE  IInv'
<1>1. panel.task # None /\ "title" \in Fields
    BY DEF Blur, OnPanel, IInv, TypeInv, PanelTyped
<1>2. panel.typed \in Values
    BY DEF IInv, TypeInv, PanelTyped, PanelType
<1>3. CASE panel.typed # panel.shown.title
    <2>1. Save("title", panel.typed)
        BY <1>3, Zenon DEF Blur
    <2>2. QED
        BY <1>1, <1>2, <2>1, SaveKept
<1>4. CASE panel.typed = panel.shown.title
    <2>1. /\ panel' = [panel EXCEPT !.focused = FALSE]
          /\ UNCHANGED <<store, trail, backs, flight, acts, lost, ghosts, props, refresh, board, box, composer, snack>>
        BY <1>4, Zenon DEF Blur
    <2>2. QED
        BY <2>1, LeftKept
<1>5. QED
    BY <1>3, <1>4

\* A due date or a priority is picked.
LEMMA PickKept ==
    ASSUME IInv, NEW f \in Fields, Pick(f)
    PROVE  IInv'
<1>1. panel.task # None
    BY DEF Pick, Reachable, OnPanel
<1>2. PICK v \in {"set", "unset"} : Save(f, v)
    BY Zenon DEF Pick
<1>3. v \in Values
    BY DEF Values
<1>4. QED
    BY <1>1, <1>2, <1>3, SaveKept

-----------------------------------------------------------------------------
(* The invariant, when an answer is taken.                                 *)

\* A refresh is asked for, or left alone.
LEMMA AskKept ==
    ASSUME refresh \in RefreshType, Ask \/ UNCHANGED refresh
    PROVE  /\ refresh' \in RefreshType
           /\ refresh.asked => refresh'.asked
           /\ refresh'.reading = refresh.reading /\ refresh'.view = refresh.view
           /\ refresh.asked \/ refresh.reading => refresh'.asked \/ refresh'.reading
           /\ Ask => refresh'.asked
BY DEF Ask, RefreshType

\* What every answered step has in common.
LEMMA LandKept ==
    ASSUME IInv, NEW i \in Slots, NEW kind, kind # "free", Got(i, kind), Land(i),
           IF Ok(i) THEN Ask ELSE UNCHANGED refresh, snack'.arriving = snack.arriving,
           UNCHANGED <<store, trail, backs, acts, lost, ghosts, props>>
    PROVE  /\ StoreOK' /\ RequestsOK' /\ BoundsOK' /\ Covered' /\ refresh' \in RefreshType
           /\ refresh.asked \/ refresh.reading => refresh'.asked \/ refresh'.reading
           /\ flight[i].kind = kind /\ Gone(i)
           /\ \A k : k # kind /\ k # "free" => KindSame(k)
           /\ UNCHANGED <<done, row, trail, backs, props, contended>>
<1>1. RequestsOK' /\ Gone(i)
    BY LandedOne DEF IInv, TypeInv
<1>2. flight[i].kind = kind
    BY DEF Got
<1>3. StoreOK'
    BY StoreSame DEF IInv, TypeInv
<1>4. BoundsOK'
    BY DEF IInv, TypeInv, BoundsOK, ghosts
<1>5. Ask \/ UNCHANGED refresh
    OBVIOUS
<1>6. /\ refresh' \in RefreshType
      /\ refresh.asked => refresh'.asked
      /\ refresh'.reading = refresh.reading /\ refresh'.view = refresh.view
      /\ refresh.asked \/ refresh.reading => refresh'.asked \/ refresh'.reading
      /\ Ask => refresh'.asked
    BY <1>5, AskKept DEF IInv, TypeInv, ListOK
<1>7. Covered'
    <2>1. \A j \in Slots : flight[j].answer = "ok" => flight'[j].answer = "ok" \/ refresh'.asked
        BY <1>1, <1>6 DEF Gone, Ok
    <2>2. UNCHANGED <<active, done, trash, props>> /\ behind' = behind
        BY DEF store, ghosts
    <2>3. QED
        BY <1>6, <2>1, <2>2, CoveredStill DEF IInv
<1>8. \A k : k # kind /\ k # "free" => KindSame(k)
    BY <1>1, <1>2, KindsGone
<1>9. QED
    BY <1>1, <1>2, <1>3, <1>4, <1>6, <1>7, <1>8 DEF store, ghosts

\* The answer to a tick.
LEMMA ToggledKept ==
    ASSUME IInv, NEW i \in Slots, Toggled(i)
    PROVE  IInv'
<1> DEFINE s == flight[i].section
           t == flight[i].task
<1>1. /\ Got(i, "toggle") /\ Land(i) /\ (IF Ok(i) THEN Ask ELSE UNCHANGED refresh)
      /\ UNCHANGED <<store, trail, backs, acts, lost, ghosts, props>>
      /\ UNCHANGED <<board, composer, panel, snack>>
      /\ box' = IF flight[i].alive THEN [box EXCEPT ![s][t] = BoxAfter(@, Ok(i))] ELSE box
    BY Zenon DEF Toggled, Local
<1>2. /\ StoreOK' /\ RequestsOK' /\ BoundsOK' /\ Covered' /\ refresh' \in RefreshType
      /\ refresh.asked \/ refresh.reading => refresh'.asked \/ refresh'.reading
      /\ flight[i].kind = "toggle" /\ Gone(i)
      /\ \A k : k # "toggle" /\ k # "free" => KindSame(k)
      /\ UNCHANGED <<done, row, trail, backs, props, contended>>
    BY <1>1, LandKept
<1>3. /\ KindSame("reorder") /\ KindSame("save") /\ KindSame("create")
      /\ KindSame("delete") /\ KindSame("restore")
    BY <1>2
<1>4. s \in Sections /\ t \in Tasks /\ box \in [Sections -> [Tasks -> BoxType]]
    <2>1. flight[i] \in Sent /\ t \in Tasks
        BY <1>2 DEF IInv, TypeInv, RequestsOK
    <2>2. flight[i].section \in Sections
        BY <2>1 DEF Sent
    <2>3. box \in [Sections -> [Tasks -> BoxType]]
        BY Zenon DEF IInv, TypeInv, ListOK
    <2>4. QED
        BY <2>1, <2>2, <2>3
<1>5. /\ box' \in [Sections -> [Tasks -> BoxType]]
      /\ \A o \in Sections, u \in Tasks :
            \/ o = s /\ u = t /\ flight[i].alive
            \/ box'[o][u] = box[o][u]
      /\ flight[i].alive => ~box'[s][t].pending /\ box'[s][t].mark \in {"none", IF Ok(i) THEN box[s][t].mark ELSE "none"}
    <2>1. CASE ~flight[i].alive
        <3>1. box' = box
            BY <1>1, <2>1, Zenon
        <3>2. QED
            BY <1>4, <2>1, <3>1
    <2>2. CASE flight[i].alive
        <3>1. PICK b \in BoxType : /\ b = BoxAfter(box[s][t], Ok(i))
                                   /\ ~b.pending /\ b.mark = IF Ok(i) THEN box[s][t].mark ELSE "none"
            <4>1. box[s][t] \in BoxType
                BY <1>4
            <4>2. BoxAfter(box[s][t], Ok(i)) \in BoxType
                BY <4>1 DEF BoxAfter, BoxType
            <4>3. QED
                BY <4>2 DEF BoxAfter
        <3>2. box' = [box EXCEPT ![s] = [box[s] EXCEPT ![t] = b]]
            BY <1>1, <2>2, <3>1, Zenon
        <3>3. [box[s] EXCEPT ![t] = b] \in [Tasks -> BoxType] /\ \A u \in Tasks :
                [box[s] EXCEPT ![t] = b][u] = IF u = t THEN b ELSE box[s][u]
            BY <1>4
        <3>4. QED
            BY <1>4, <2>2, <3>1, <3>2, <3>3
    <2>3. QED
        BY <2>1, <2>2
<1>6. TypeInv'
    <2>1. ListOK'
        BY <1>1, <1>2, <1>5 DEF IInv, TypeInv, ListOK
    <2>2. PanelTyped' /\ SnackOK'
        <3>1. panel' = panel /\ snack' = snack
            BY <1>1
        <3>2. PanelTyped /\ SnackOK
            BY Zenon DEF IInv, TypeInv
        <3>3. QED
            BY <3>1, <3>2, Zenon DEF PanelTyped, SnackOK
    <2>3. QED
        BY <1>2, <2>1, <2>2, Zenon DEF TypeInv
<1>7. BoardOK'
    BY <1>1, <1>2, <1>3, BoardStill DEF IInv
<1>8. TicksOK'
    <2>1. \A j \in Slots : flight'[j].kind = "toggle" => flight'[j] = flight[j]
        BY <1>2, FreeSlot DEF Gone
    <2>2. ASSUME NEW o \in {"active", "done"}, NEW u \in Tasks, Wrong(o, u)'
          PROVE  /\ Wrong(o, u)
                 /\ \A j \in Slots : Ticking(j, u) /\ flight[j].section = o /\ flight[j].alive =>
                      IF flight'[j].kind = "toggle" THEN flight'[j].alive ELSE flight[j].answer = "ok"
        <3>1. o \in Sections /\ box'[o][u].mark # "none" /\ box'[o][u].mark = IF o = "active" THEN "done" ELSE "open"
            <4>1. o \in Sections
                BY <2>2 DEF Sections
            <4>2. QED
                BY <2>2, <4>1 DEF Wrong
        <3>2. Wrong(o, u)
            BY <1>5, <3>1 DEF Wrong
        <3>3. ASSUME NEW j \in Slots, Ticking(j, u), flight[j].section = o, flight[j].alive
              PROVE  IF flight'[j].kind = "toggle" THEN flight'[j].alive ELSE flight[j].answer = "ok"
            <4>1. CASE j = i
                <5>0. u = t /\ o = s /\ flight[i].alive
                    BY <3>3, <4>1 DEF Ticking
                <5>1. Ok(i)
                    BY <1>5, <3>1, <5>0
                <5>2. flight'[j].kind = "free"
                    BY <1>2, <4>1, FreeSlot DEF Gone
                <5>3. QED
                    BY <4>1, <5>1, <5>2 DEF Ok
            <4>2. CASE j # i
                <5>1. flight'[j] = flight[j]
                    BY <1>2, <4>2 DEF Gone
                <5>2. QED
                    BY <3>3, <5>1 DEF Ticking
            <4>3. QED
                BY <4>1, <4>2
        <3>4. QED
            BY <3>2, <3>3
    <2>3. QED
        BY <1>2, <2>1, <2>2, TicksStill DEF IInv, Like
<1>9. PanelOK'
    BY <1>1, <1>2, <1>3, PanelStill DEF IInv
<1>10. WaitsOK'
    <2>1. BoxesWait'
        <3> SUFFICES ASSUME NEW o \in Sections, NEW u \in Tasks, box'[o][u].pending
                     PROVE  \E j \in Slots : Ticking(j, u)' /\ flight'[j].section = o /\ flight'[j].alive
            BY DEF BoxesWait
        <3>1. ~(o = s /\ u = t /\ flight[i].alive) /\ box[o][u].pending
            BY <1>5
        <3>2. PICK j \in Slots : Ticking(j, u) /\ flight[j].section = o /\ flight[j].alive
            BY <3>1 DEF IInv, WaitsOK, BoxesWait
        <3>3. j # i
            BY <3>1, <3>2 DEF Ticking
        <3>4. flight'[j] = flight[j]
            BY <1>2, <3>3 DEF Gone
        <3>5. QED
            BY <3>2, <3>4 DEF Ticking
    <2>2. DraftWaits' /\ PanelWaits'
        BY <1>1, <1>3, DraftStill, PanelWaitsStill DEF IInv, WaitsOK
    <2>3. SnackWaits'
        BY <1>1, <1>3, SnackWaitsStill DEF IInv, WaitsOK, SnackWaits
    <2>4. QED
        BY <2>1, <2>2, <2>3 DEF WaitsOK
<1>11. QED
    BY <1>2, <1>6, <1>7, <1>8, <1>9, <1>10 DEF IInv

\* What is out but for one request that is answered.
LEMMA OutLeft ==
    ASSUME NEW i \in Slots, Gone(i), ~flight[i].alive, NEW kind, Out(kind)
    PROVE  Out(kind)'
BY DEF Out, Gone

\* The answer to a creation.
LEMMA CreatedKept ==
    ASSUME IInv, NEW i \in Slots, Created(i)
    PROVE  IInv'
<1>1. /\ Got(i, "create") /\ Land(i) /\ (IF Ok(i) THEN Ask ELSE UNCHANGED refresh)
      /\ UNCHANGED <<store, trail, backs, acts, lost, ghosts, props>>
      /\ UNCHANGED <<board, box, panel, snack>>
    BY Zenon DEF Created, Local
<1>2. /\ StoreOK' /\ RequestsOK' /\ BoundsOK' /\ Covered' /\ refresh' \in RefreshType
      /\ refresh.asked \/ refresh.reading => refresh'.asked \/ refresh'.reading
      /\ Gone(i)
      /\ \A k : k # "create" /\ k # "free" => KindSame(k)
      /\ UNCHANGED <<done, row, trail, backs, props, contended>>
    BY <1>1, LandKept
<1>3. /\ KindSame("reorder") /\ KindSame("save") /\ KindSame("toggle")
      /\ KindSame("delete") /\ KindSame("restore")
    BY <1>2
<1>4. composer' \in DraftType /\ DraftWaits'
    <2>1. composer \in DraftType
        BY DEF IInv, TypeInv, ListOK
    <2>2. CASE ~flight[i].alive
        <3>1. composer' = composer
            BY <2>2 DEF Created
        <3>2. DraftWaits'
            BY <1>2, <2>2, <3>1, OutLeft DEF IInv, WaitsOK, DraftWaits
        <3>3. QED
            BY <2>1, <3>1, <3>2
    <2>3. CASE flight[i].alive
        <3>1. PICK e \in BOOLEAN :
                composer' = [title |-> IF Ok(i) THEN "" ELSE composer.title, submitting |-> FALSE, error |-> e]
            <4>1. (~Ok(i)) \in BOOLEAN
                OBVIOUS
            <4>2. QED
                BY <2>3, <4>1, Zenon DEF Created
        <3>2. QED
            BY <2>1, <3>1 DEF DraftType, DraftWaits
    <2>4. QED
        BY <2>2, <2>3
<1>5. TypeInv'
    <2>1. ListOK'
        BY <1>1, <1>2, <1>4 DEF IInv, TypeInv, ListOK
    <2>2. PanelTyped' /\ SnackOK'
        BY <1>1 DEF IInv, TypeInv, PanelTyped, SnackOK
    <2>3. QED
        BY <1>2, <2>1, <2>2 DEF TypeInv
<1>6. BoardOK'
    BY <1>1, <1>2, <1>3, BoardStill DEF IInv
<1>7. TicksOK'
    BY <1>1, <1>2, <1>3, TicksSame DEF IInv
<1>8. PanelOK'
    BY <1>1, <1>2, <1>3, PanelStill DEF IInv
<1>9. WaitsOK'
    <2>1. BoxesWait' /\ PanelWaits'
        BY <1>1, <1>3, BoxesStill, PanelWaitsStill DEF IInv, WaitsOK
    <2>2. SnackWaits'
        BY <1>1, <1>3, SnackWaitsStill DEF IInv, WaitsOK, SnackWaits
    <2>3. QED
        BY <1>4, <2>1, <2>2 DEF WaitsOK
<1>10. QED
    BY <1>2, <1>5, <1>6, <1>7, <1>8, <1>9 DEF IInv

\* The answer to a save.
LEMMA SavedKept ==
    ASSUME IInv, NEW i \in Slots, Saved(i)
    PROVE  IInv'
<1>1. /\ Got(i, "save") /\ Land(i) /\ (IF Ok(i) THEN Ask ELSE UNCHANGED refresh)
      /\ UNCHANGED <<store, trail, backs, acts, lost, ghosts, props>>
      /\ UNCHANGED <<board, box, composer, snack>>
    BY Zenon DEF Saved, Local
<1>2. /\ StoreOK' /\ RequestsOK' /\ BoundsOK' /\ Covered' /\ refresh' \in RefreshType
      /\ refresh.asked \/ refresh.reading => refresh'.asked \/ refresh'.reading
      /\ flight[i].kind = "save" /\ Gone(i)
      /\ \A k : k # "save" /\ k # "free" => KindSame(k)
      /\ UNCHANGED <<done, row, trail, backs, props, contended>>
    BY <1>1, LandKept
<1>3. /\ KindSame("reorder") /\ KindSame("create") /\ KindSame("toggle")
      /\ KindSame("delete") /\ KindSame("restore")
    BY <1>2
<1>4. flight[i] \in Sent /\ flight[i].field \in Fields /\ PanelTyped /\ panel \in PanelType
    BY <1>2 DEF IInv, TypeInv, RequestsOK, PanelTyped
<1>5. PanelTyped' /\ PanelOK' /\ PanelWaits'
    <2>1. CASE ~flight[i].alive
        <3>1. panel' = panel
            BY <2>1 DEF Saved
        <3>2. PanelTyped'
            BY <1>4, <3>1 DEF PanelTyped
        <3>3. panel.task = None \/ panel.overlapped
            BY <1>2, <2>1 DEF IInv, PanelOK
        <3>4. PanelOK'
            BY <3>1, <3>3 DEF PanelOK
        <3>5. PanelWaits'
            BY <1>2, <1>3, <2>1, <3>1, OutLeft, OutStill DEF IInv, WaitsOK, PanelWaits
        <3>6. QED
            BY <3>2, <3>4, <3>5
    <2>2. ASSUME flight[i].alive, panel'.saving = "none", panel'.submitting = panel.submitting,
                 panel'.task = panel.task, panel'.overlapped = panel.overlapped,
                 panel'.failed = {} => Ok(i) /\ panel'.shown = flight[i].saved
          PROVE  PanelOK' /\ PanelWaits'
        <3>1. PanelWaits'
            BY <1>2, <1>3, <2>2, OutStill DEF IInv, WaitsOK, PanelWaits
        <3>2. PanelOK'
            <4> SUFFICES ASSUME panel.task # None, ~panel.overlapped
                         PROVE  /\ \A j \in Slots : flight'[j].kind # "save"
                                /\ panel'.failed = {} => panel'.shown = row'[panel'.task]
                BY <2>2 DEF PanelOK
            <4>1. /\ \A j \in Slots : flight[j].kind = "save" => j = i
                  /\ flight[i].answer = "ok" => flight[i].saved = row[panel.task]
                BY <1>2 DEF IInv, PanelOK
            <4>2. \A j \in Slots : flight'[j].kind # "save"
                BY <1>2, <4>1, FreeSlot DEF Gone
            <4>3. QED
                BY <1>2, <2>2, <4>1, <4>2 DEF Ok
        <3>3. QED
            BY <3>1, <3>2
    <2>3. CASE flight[i].alive /\ Ok(i)
        <3>1. panel' = [panel EXCEPT !.shown = flight[i].saved, !.typed = flight[i].saved.title,
                                     !.checked = flight[i].completed, !.saving = "none"]
            <4>1. panel' = [ShowsSaved(panel, i) EXCEPT !.saving = "none"]
                BY <2>3, Zenon DEF Saved
            <4>2. QED
                BY <1>4, <4>1 DEF ShowsSaved, PanelType
        <3>2. flight[i].saved \in RowType /\ flight[i].saved.title \in Values /\ flight[i].completed \in BOOLEAN
            BY <1>4 DEF Sent, RowType
        <3>3. PanelTyped'
            BY <1>4, <3>1, <3>2 DEF PanelTyped, PanelType
        <3>4. /\ panel'.saving = "none" /\ panel'.submitting = panel.submitting
              /\ panel'.task = panel.task /\ panel'.overlapped = panel.overlapped
              /\ panel'.shown = flight[i].saved
            BY <1>4, <3>1 DEF PanelType
        <3>5. QED
            BY <2>2, <2>3, <3>3, <3>4
    <2>4. CASE flight[i].alive /\ ~Ok(i)
        <3>1. panel' = [panel EXCEPT !.failed = @ \cup {flight[i].field}, !.saving = "none"]
            <4>1. panel' = [[panel EXCEPT !.failed = @ \cup {flight[i].field}] EXCEPT !.saving = "none"]
                BY <2>4, Zenon DEF Saved
            <4>2. QED
                BY <1>4, <4>1 DEF PanelType
        <3>2. PanelTyped'
            BY <1>4, <3>1 DEF PanelTyped, PanelType
        <3>3. /\ panel'.saving = "none" /\ panel'.submitting = panel.submitting
              /\ panel'.task = panel.task /\ panel'.overlapped = panel.overlapped
              /\ flight[i].field \in panel'.failed
            BY <1>4, <3>1 DEF PanelType
        <3>4. QED
            BY <2>2, <2>4, <3>2, <3>3
    <2>5. QED
        BY <2>1, <2>3, <2>4
<1>6. TypeInv'
    <2>1. ListOK'
        BY <1>1, <1>2 DEF IInv, TypeInv, ListOK
    <2>2. SnackOK'
        BY <1>1 DEF IInv, TypeInv, SnackOK
    <2>3. QED
        BY <1>2, <1>5, <2>1, <2>2 DEF TypeInv
<1>7. BoardOK'
    BY <1>1, <1>2, <1>3, BoardStill DEF IInv
<1>8. TicksOK'
    BY <1>1, <1>2, <1>3, TicksSame DEF IInv
<1>9. WaitsOK'
    <2>1. BoxesWait' /\ DraftWaits'
        BY <1>1, <1>3, BoxesStill, DraftStill DEF IInv, WaitsOK
    <2>2. SnackWaits'
        BY <1>1, <1>3, SnackWaitsStill DEF IInv, WaitsOK, SnackWaits
    <2>3. QED
        BY <1>5, <2>1, <2>2 DEF WaitsOK
<1>10. QED
    BY <1>2, <1>5, <1>6, <1>7, <1>8, <1>9 DEF IInv

\* The answer to an undo.
LEMMA UndoneKept ==
    ASSUME IInv, NEW i \in Slots, Undone(i)
    PROVE  IInv'
<1>1. /\ Got(i, "restore") /\ Land(i) /\ (IF Ok(i) THEN Ask ELSE UNCHANGED refresh)
      /\ UNCHANGED <<store, trail, backs, acts, lost, ghosts, props>>
      /\ UNCHANGED <<board, box, composer, panel>>
    BY Zenon DEF Undone, Local
<1>0. snack'.arriving = snack.arriving
    <2>1. SnackOK /\ snack \in SnackType /\ StoppedClock \in SnackType /\ StoppedClock.arriving = snack.arriving
        BY StoppedOK DEF IInv, TypeInv, SnackOK
    <2>2. CASE Ok(i)
        <3>1. snack' = [NoSnack EXCEPT !.arriving = snack.arriving]
            BY <2>2, Zenon DEF Undone
        <3>2. QED
            BY <3>1 DEF NoSnack
    <2>3. CASE ~Ok(i) /\ snack.task = None
        BY <2>3, Zenon DEF Undone
    <2>4. CASE ~Ok(i) /\ snack.task # None
        <3>1. PICK c : c \in {snack, StoppedClock} /\ snack' = [c EXCEPT !.pending = FALSE, !.error = TRUE]
            BY <2>4, Zenon DEF Undone
        <3>2. QED
            BY <2>1, <3>1 DEF SnackType
    <2>5. QED
        BY <2>2, <2>3, <2>4
<1>2. /\ StoreOK' /\ RequestsOK' /\ BoundsOK' /\ Covered' /\ refresh' \in RefreshType
      /\ refresh.asked \/ refresh.reading => refresh'.asked \/ refresh'.reading
      /\ Gone(i)
      /\ \A k : k # "restore" /\ k # "free" => KindSame(k)
      /\ UNCHANGED <<done, row, trail, backs, props, contended>>
    BY <1>0, <1>1, LandKept
<1>3. /\ KindSame("reorder") /\ KindSame("create") /\ KindSame("toggle")
      /\ KindSame("delete") /\ KindSame("save")
    BY <1>2
<1>4. SnackOK' /\ SnackWaits'
    <2>1. SnackOK /\ SnackWaits
        BY DEF IInv, TypeInv, WaitsOK
    <2>2. CASE Ok(i)
        <3>1. snack.arriving \in BOOLEAN /\ Window \in 0..Window /\ None \in Tasks \cup {None}
            BY <2>1, LimitsAssumption DEF SnackOK, SnackType
        <3>2. snack' = [NoSnack EXCEPT !.arriving = snack.arriving]
            BY <2>2, Zenon DEF Undone
        <3>3. snack' = [task |-> None, pending |-> FALSE, error |-> FALSE, paused |-> FALSE,
                        remaining |-> Window, elapsed |-> 0, shownFor |-> 0, arriving |-> snack.arriving]
            BY <3>2 DEF NoSnack
        <3>4. QED
            BY <3>1, <3>3, FreshSnack
    <2>3. CASE ~Ok(i) /\ snack.task = None
        <3>1. snack' = snack
            BY <2>3, Zenon DEF Undone
        <3>2. QED
            BY <2>1, <2>3, <3>1 DEF SnackOK, SnackWaits
    <2>4. CASE ~Ok(i) /\ snack.task # None
        <3>1. PICK c : /\ c \in SnackType /\ c.elapsed <= c.remaining
                       /\ c.shownFor + c.remaining <= Window + c.elapsed
                       /\ snack' = [c EXCEPT !.pending = FALSE, !.error = TRUE]
            <4>1. snack' = [IF Running THEN StoppedClock ELSE snack EXCEPT !.pending = FALSE, !.error = TRUE]
                BY <2>4, Zenon DEF Undone
            <4>2. CASE Running
                <5>1. /\ StoppedClock \in SnackType /\ StoppedClock.elapsed <= StoppedClock.remaining
                      /\ StoppedClock.shownFor + StoppedClock.remaining <= Window + StoppedClock.elapsed
                    BY <2>1, StoppedOK
                <5>2. snack' = [StoppedClock EXCEPT !.pending = FALSE, !.error = TRUE]
                    BY <4>1, <4>2, Zenon
                <5>3. QED
                    BY <5>1, <5>2, Zenon
            <4>3. CASE ~Running
                <5>1. snack' = [snack EXCEPT !.pending = FALSE, !.error = TRUE]
                    BY <4>1, <4>3, Zenon
                <5>2. QED
                    BY <2>1, <5>1, Zenon DEF SnackOK
            <4>4. QED
                BY <4>2, <4>3
        <3>2. /\ snack' \in SnackType /\ ~snack'.pending
              /\ snack'.elapsed = c.elapsed /\ snack'.remaining = c.remaining /\ snack'.shownFor = c.shownFor
            BY <3>1 DEF SnackType
        <3>3. QED
            BY <3>1, <3>2 DEF SnackOK, SnackWaits
    <2>5. QED
        BY <2>2, <2>3, <2>4
<1>5. TypeInv'
    <2>1. ListOK' /\ PanelTyped'
        BY <1>1, <1>2 DEF IInv, TypeInv, ListOK, PanelTyped
    <2>2. QED
        BY <1>2, <1>4, <2>1 DEF TypeInv
<1>6. BoardOK'
    BY <1>1, <1>2, <1>3, BoardStill DEF IInv
<1>7. TicksOK'
    BY <1>1, <1>2, <1>3, TicksSame DEF IInv
<1>8. PanelOK'
    BY <1>1, <1>2, <1>3, PanelStill DEF IInv
<1>9. WaitsOK'
    <2>1. BoxesWait' /\ DraftWaits' /\ PanelWaits'
        BY <1>1, <1>3, BoxesStill, DraftStill, PanelWaitsStill DEF IInv, WaitsOK
    <2>2. QED
        BY <1>4, <2>1 DEF WaitsOK
<1>10. QED
    BY <1>2, <1>5, <1>6, <1>7, <1>8, <1>9 DEF IInv

-----------------------------------------------------------------------------
(* The invariant, when rows come and go.                                   *)

\* The boxes of the rows that go are cleared, and their requests set no state.
LEMMA RowsGo ==
    ASSUME IInv, NEW rows, NEW dead, box' = BoxesIn(rows), UNCHANGED <<done, contended>>,
           \A j \in Slots : flight'[j].kind = "toggle" <=> flight[j].kind = "toggle",
           \A j \in Slots : flight[j].kind = "toggle" => Cut(flight, dead, j),
           \A j \in Slots : flight[j].kind = "toggle" /\ j \in dead => j \in Unmounted(rows)
    PROVE  box' \in [Sections -> [Tasks -> BoxType]] /\ BoxesWait' /\ TicksOK'
<1>1. box \in [Sections -> [Tasks -> BoxType]] /\ ClearBox \in BoxType
    BY DEF IInv, TypeInv, ListOK, ClearBox, BoxType
<1>2. \A s \in Sections, t \in Tasks : box'[s][t] = IF t \in rows[s] THEN box[s][t] ELSE ClearBox
    BY DEF BoxesIn
<1>3. box' \in [Sections -> [Tasks -> BoxType]]
    BY <1>1 DEF BoxesIn
<1>4. \A s \in Sections, t \in Tasks : box'[s][t].pending \/ box'[s][t].mark # "none" =>
            t \in rows[s] /\ box'[s][t] = box[s][t]
    BY <1>2 DEF ClearBox
<1>5. ASSUME NEW s \in Sections, NEW t \in Tasks, t \in rows[s], NEW j \in Slots, Ticking(j, t),
             flight[j].section = s, flight[j].alive
      PROVE  flight'[j].alive /\ Ticking(j, t)' /\ flight'[j].section = s
    <2>1. j \notin Unmounted(rows)
        BY <1>5 DEF Unmounted, Ticking
    <2>2. Cut(flight, dead, j) /\ j \notin dead
        BY <1>5, <2>1 DEF Ticking
    <2>3. QED
        BY <1>5, <2>2 DEF Cut, Like, Ticking
<1>6. BoxesWait'
    <2> SUFFICES ASSUME NEW s \in Sections, NEW t \in Tasks, box'[s][t].pending
                 PROVE  \E j \in Slots : Ticking(j, t)' /\ flight'[j].section = s /\ flight'[j].alive
        BY DEF BoxesWait
    <2>1. t \in rows[s] /\ box[s][t].pending
        BY <1>4
    <2>2. PICK j \in Slots : Ticking(j, t) /\ flight[j].section = s /\ flight[j].alive
        BY <2>1 DEF IInv, WaitsOK, BoxesWait
    <2>3. QED
        BY <1>5, <2>1, <2>2
<1>7. TicksOK'
    <2>1. \A j \in Slots : flight'[j].kind = "toggle" =>
            /\ Like(flight'[j], flight[j])
            /\ flight'[j].answer = "ok" => flight[j].answer = "ok"
        BY DEF Cut
    <2>2. ASSUME NEW s \in {"active", "done"}, NEW t \in Tasks, Wrong(s, t)'
          PROVE  /\ Wrong(s, t)
                 /\ \A j \in Slots : Ticking(j, t) /\ flight[j].section = s /\ flight[j].alive =>
                      IF flight'[j].kind = "toggle" THEN flight'[j].alive ELSE flight[j].answer = "ok"
        <3>1. s \in Sections /\ t \in rows[s] /\ box'[s][t] = box[s][t]
            BY <1>4, <2>2 DEF Wrong, Sections
        <3>2. Wrong(s, t)
            BY <2>2, <3>1 DEF Wrong
        <3>3. ASSUME NEW j \in Slots, Ticking(j, t), flight[j].section = s, flight[j].alive
              PROVE  flight'[j].alive /\ flight'[j].kind = "toggle"
            BY <1>5, <3>1, <3>3 DEF Ticking
        <3>4. QED
            BY <3>2, <3>3
    <2>3. QED
        BY <2>1, <2>2, TicksStill DEF IInv
<1>8. QED
    BY <1>3, <1>6, <1>7

\* The answer to a reorder.
LEMMA ReorderedKept ==
    ASSUME IInv, NEW i \in Slots, Reordered(i)
    PROVE  IInv'
<1>1. PICK next, rows : /\ next = (IF Ok(i) \/ ~flight[i].alive THEN board ELSE Rollback(i))
                        /\ rows = [s \in Sections |-> RowsOf(s, props, next.order)]
                        /\ board' = next /\ box' = BoxesIn(rows)
                        /\ flight' = Orphan([flight EXCEPT ![i] = Free], Unmounted(rows))
    BY Zenon DEF Reordered
<1>2. /\ Got(i, "reorder")
      /\ IF flight[i].answer \in {"ok", "stale"} THEN Ask ELSE UNCHANGED refresh
      /\ UNCHANGED <<store, trail, backs, acts, lost, ghosts, props>>
      /\ UNCHANGED <<composer, panel, snack>>
    BY Zenon DEF Reordered, Local
<1> DEFINE dead == Unmounted(rows)
<1>3. dead \in SUBSET Slots /\ \A j \in dead : flight[j].kind = "toggle"
    BY DEF Unmounted
<1> HIDE DEF dead
<1>4. flight[i].kind = "reorder" /\ flight[i] \in Sent
    BY <1>2 DEF Got, IInv, TypeInv, RequestsOK
<1>5. /\ RequestsOK'
      /\ flight'[i].kind = "free" /\ flight'[i].answer = "none"
      /\ \A j \in Slots : j # i => Cut(flight, dead, j)
    BY <1>1, <1>3, LandedOrphaned DEF IInv, TypeInv, dead
<1>6. /\ refresh' \in RefreshType
      /\ refresh.asked => refresh'.asked
      /\ refresh'.reading = refresh.reading /\ refresh'.view = refresh.view
      /\ refresh.asked \/ refresh.reading => refresh'.asked \/ refresh'.reading
      /\ flight[i].answer \in {"ok", "stale"} => refresh'.asked
    BY <1>2, AskKept DEF IInv, TypeInv, ListOK
<1>7. Covered'
    <2>1. \A j \in Slots : flight[j].answer = "ok" => flight'[j].answer = "ok" \/ refresh'.asked
        BY <1>5, <1>6 DEF Cut
    <2>2. UNCHANGED <<active, done, trash, props, trail, backs, snack>> /\ behind' = behind
        BY <1>2 DEF store, ghosts
    <2>3. QED
        BY <1>6, <2>1, <2>2, CoveredStill DEF IInv
<1>8. /\ \A j \in Slots : flight'[j].kind = "toggle" <=> flight[j].kind = "toggle"
      /\ \A j \in Slots : flight[j].kind = "toggle" => Cut(flight, dead, j)
      /\ \A j \in Slots : flight[j].kind = "toggle" /\ j \in dead => j \in Unmounted(rows)
    BY <1>4, <1>5 DEF Cut, Like, dead
<1>9. box' \in [Sections -> [Tasks -> BoxType]] /\ BoxesWait' /\ TicksOK'
    <2>1. UNCHANGED <<done, contended>>
        BY <1>2 DEF store, ghosts
    <2>2. QED
        BY <1>1, <1>8, <2>1, RowsGo
<1>10. KindSame("save") /\ KindSame("create") /\ KindSame("delete") /\ KindSame("restore")
    BY <1>3, <1>4, <1>5 DEF KindSame, Cut, Like
<1>11. \/ board' = board /\ (Ok(i) \/ ~flight[i].alive)
       \/ board' = [order |-> flight[i].previous, error |-> TRUE] /\ flight[i].alive
    BY <1>1, Zenon DEF Rollback
<1>12. board' \in BoardType
    <2>1. board \in BoardType /\ flight[i].previous \in Orders
        BY <1>4 DEF IInv, TypeInv, ListOK, Sent
    <2>2. [order |-> flight[i].previous, error |-> TRUE] \in BoardType
        BY <2>1 DEF BoardType
    <2>3. QED
        BY <1>11, <2>1, <2>2, Zenon
<1>13. BoardOK'
    <2>1. Out("reorder")' => Out("reorder")
        BY <1>5 DEF Out, Cut, Like
    <2>2. Route = Elsewhere => ~flight[i].alive
        BY <1>4 DEF IInv, BoardOK, Out
    <2>3. Route' = Route
        BY <1>2 DEF Route
    <2>4. CASE board' = board /\ Ok(i)
        <3>1. refresh'.asked
            BY <1>6, <2>4 DEF Ok
        <3>2. QED
            BY <2>1, <2>3, <2>4, <3>1 DEF IInv, BoardOK
    <2>5. CASE board' = board /\ ~flight[i].alive
        <3>1. Out("reorder") => Out("reorder")'
            <4> SUFFICES ASSUME NEW j \in Slots, flight[j].kind = "reorder", flight[j].alive
                         PROVE  flight'[j].kind = "reorder" /\ flight'[j].alive
                BY DEF Out
            <4>1. j # i /\ j \notin dead
                BY <1>3, <2>5
            <4>2. QED
                BY <1>5, <4>1 DEF Cut, Like
        <3>2. QED
            BY <1>6, <2>1, <2>3, <2>5, <3>1 DEF IInv, BoardOK
    <2>6. CASE board' = [order |-> flight[i].previous, error |-> TRUE] /\ flight[i].alive
        BY <2>2, <2>3, <2>6 DEF BoardOK
    <2>7. QED
        BY <1>11, <2>4, <2>5, <2>6
<1>14. TypeInv'
    <2>1. StoreOK'
        BY <1>2, StoreSame DEF IInv, TypeInv
    <2>2. ListOK'
        BY <1>2, <1>6, <1>9, <1>12 DEF IInv, TypeInv, ListOK
    <2>3. PanelTyped' /\ SnackOK'
        BY <1>2 DEF IInv, TypeInv, PanelTyped, SnackOK
    <2>4. BoundsOK'
        BY <1>2 DEF IInv, TypeInv, BoundsOK, ghosts
    <2>5. QED
        BY <1>5, <2>1, <2>2, <2>3, <2>4 DEF TypeInv
<1>15. PanelOK'
    BY <1>2, <1>10, PanelStill DEF IInv, store
<1>16. WaitsOK'
    <2>1. DraftWaits' /\ PanelWaits'
        BY <1>2, <1>10, DraftStill, PanelWaitsStill DEF IInv, WaitsOK
    <2>2. SnackWaits'
        BY <1>2, <1>10, SnackWaitsStill DEF IInv, WaitsOK, SnackWaits
    <2>3. QED
        BY <1>9, <2>1, <2>2 DEF WaitsOK
<1>17. QED
    BY <1>7, <1>9, <1>13, <1>14, <1>15, <1>16 DEF IInv

\* The refreshed list is rendered.
LEMMA RefreshApplyKept ==
    ASSUME IInv, RefreshApply
    PROVE  IInv'
<1>1. PICK next, gone, rows :
        /\ next = BoardAfter(refresh.view) /\ board' = next
        /\ gone \in BOOLEAN
        /\ panel' = IF gone THEN Closed ELSE panel
        /\ box' = BoxesIn(rows)
        /\ flight' = Orphan(flight, Unmounted(rows) \cup {i \in Slots :
                          \/ flight[i].kind = "reorder" /\ refresh.view.active = <<>>
                          \/ flight[i].kind \in {"save", "delete"} /\ gone})
    <2>1. (InPanel /\ refresh.gone = Route) \in BOOLEAN
        OBVIOUS
    <2>2. QED
        BY <2>1, Zenon DEF RefreshApply
<1>2. /\ refresh.reading /\ Mounted
      /\ refresh' = [refresh EXCEPT !.reading = FALSE, !.gone = None]
      /\ props' = refresh.view
      /\ UNCHANGED <<store, trail, backs, acts, lost, ghosts, composer, snack>>
    BY Zenon DEF RefreshApply
<1> DEFINE dead == Unmounted(rows) \cup {i \in Slots :
                          \/ flight[i].kind = "reorder" /\ refresh.view.active = <<>>
                          \/ flight[i].kind \in {"save", "delete"} /\ gone}
<1>3. /\ dead \in SUBSET Slots
      /\ \A j \in dead : flight[j].kind \in {"toggle", "reorder", "save", "delete"}
      /\ \A j \in dead : flight[j].kind \in {"save", "delete"} => gone
      /\ \A j \in dead : flight[j].kind = "toggle" => j \in Unmounted(rows)
    BY DEF Unmounted
<1>4. flight' = Orphan(flight, dead)
    BY <1>1
<1> HIDE DEF dead
<1>5. RequestsOK' /\ \A j \in Slots : Cut(flight, dead, j)
    BY <1>3, <1>4, OrphanedKept DEF IInv, TypeInv
<1>6. refresh' \in RefreshType /\ ~refresh'.reading /\ refresh'.asked = refresh.asked
      /\ refresh.view \in Shown
    BY <1>2 DEF IInv, TypeInv, ListOK, RefreshType
<1>7. Covered'
    <2>1. CASE behind \/ refresh.asked
        BY <1>2, <1>6, <2>1 DEF Covered, ghosts
    <2>2. CASE \E j \in Slots : flight[j].answer = "ok"
        BY <1>5, <2>2 DEF Covered, Cut
    <2>3. CASE Current(refresh.view)
        BY <1>2, <1>6, <2>3 DEF Covered, Current, store
    <2>4. CASE Expected
        BY <1>2, <2>4 DEF Covered, Expected, Route
    <2>5. QED
        BY <1>2, <2>1, <2>2, <2>3, <2>4 DEF IInv, Covered
<1>8. box' \in [Sections -> [Tasks -> BoxType]] /\ BoxesWait' /\ TicksOK'
    <2>1. UNCHANGED <<done, contended>>
        BY <1>2 DEF store, ghosts
    <2>2. /\ \A j \in Slots : flight'[j].kind = "toggle" <=> flight[j].kind = "toggle"
          /\ \A j \in Slots : flight[j].kind = "toggle" /\ j \in dead => j \in Unmounted(rows)
        BY <1>3, <1>5 DEF Cut, Like
    <2>3. QED
        BY <1>1, <1>5, <2>1, <2>2, RowsGo
<1>9. KindSame("create") /\ KindSame("restore")
    BY <1>3, <1>5, KindsCut
<1>10. ~gone => KindSame("save") /\ KindSame("delete")
    BY <1>3, <1>5, KindsCut
<1>11. PanelTyped' /\ PanelOK' /\ PanelWaits'
    <2>1. CASE gone
        BY <1>1, <2>1, PanelGone
    <2>2. CASE ~gone
        <3>1. panel' = panel /\ row' = row
            BY <1>1, <1>2, <2>2 DEF store
        <3>2. PanelOK' /\ PanelWaits'
            BY <1>2, <1>10, <2>2, <3>1, PanelStill, PanelWaitsStill DEF IInv, WaitsOK
        <3>3. QED
            BY <3>1, <3>2 DEF IInv, TypeInv, PanelTyped
    <2>3. QED
        BY <1>1, <2>1, <2>2
<1>12. board' \in BoardType /\ board'.order = <<>>
    <2>1. PICK e \in BOOLEAN : board' = [order |-> <<>>, error |-> e]
        <3>1. (refresh.view.active # <<>> /\ board.error) \in BOOLEAN
            OBVIOUS
        <3>2. QED
            BY <1>1, <3>1, Zenon DEF BoardAfter
    <2>2. <<>> \in Orders
        BY EmptySeq DEF Orders, IsInjective
    <2>3. QED
        BY <2>1, <2>2 DEF BoardType
<1>13. BoardOK'
    <2>1. Route' # Elsewhere
        BY <1>2 DEF Mounted, Route
    <2>2. QED
        BY <1>12, <2>1 DEF BoardOK
<1>14. TypeInv'
    <2>1. StoreOK'
        BY <1>2, StoreSame DEF IInv, TypeInv
    <2>2. ListOK'
        BY <1>2, <1>6, <1>8, <1>12 DEF IInv, TypeInv, ListOK
    <2>3. SnackOK'
        BY <1>2 DEF IInv, TypeInv, SnackOK
    <2>4. BoundsOK'
        BY <1>2 DEF IInv, TypeInv, BoundsOK, ghosts
    <2>5. QED
        BY <1>5, <1>11, <2>1, <2>2, <2>3, <2>4 DEF TypeInv
<1>15. WaitsOK'
    <2>1. DraftWaits'
        BY <1>2, <1>9, DraftStill DEF IInv, WaitsOK
    <2>2. SnackWaits'
        BY <1>2, <1>9, SnackWaitsStill DEF IInv, WaitsOK, SnackWaits
    <2>3. QED
        BY <1>8, <1>11, <2>1, <2>2 DEF WaitsOK
<1>16. QED
    BY <1>7, <1>8, <1>11, <1>13, <1>14, <1>15 DEF IInv

-----------------------------------------------------------------------------
(* The invariant, when the route changes.                                  *)

\* The three places the tab can be.
LEMMA Places ==
    ASSUME trail \in Trails
    PROVE  \/ trail = <<Elsewhere>> /\ Route = Elsewhere /\ Len(trail) = 1
           \/ trail = <<Elsewhere, List>> /\ Route = List /\ Len(trail) = 2
           \/ \E t \in Tasks : trail = <<Elsewhere, List, t>> /\ Route = t /\ Len(trail) = 3
<1>1. CASE trail = <<Elsewhere>>
    BY <1>1 DEF Route, Last
<1>2. CASE trail = <<Elsewhere, List>>
    BY <1>2 DEF Route, Last
<1>3. CASE \E t \in Tasks : trail = <<Elsewhere, List, t>>
    BY <1>3 DEF Route, Last
<1>4. QED
    BY <1>1, <1>2, <1>3 DEF Trails

\* No task has the id of another route.
LEMMA Apart == List # Elsewhere /\ \A t \in Tasks : t # List /\ t # Elsewhere /\ t # None
<1>1. \A t \in Tasks : t \in Nat /\ t # 0
    BY TasksAssumption
<1>2. QED
    BY <1>1 DEF List, Elsewhere, None

\* All but the last.
LEMMA FrontOf ==
    ASSUME NEW s \in Seq(Int), NEW r \in Seq(Int), Len(s) = Len(r) + 1,
           \A j \in 1..Len(r) : r[j] = s[j]
    PROVE  Front(s) = r
<1> DEFINE m == Len(s) - 1
<1>1. Len(r) \in Nat /\ m = Len(r) /\ 1 \in Int /\ m \in Int /\ \A j \in 1..m : s[j] \in Int
    BY LenProperties, ElementOfSeq
<1>2. /\ SubSeq(s, 1, m) \in Seq(Int)
      /\ Len(SubSeq(s, 1, m)) = IF 1 <= m THEN m - 1 + 1 ELSE 0
      /\ \A j \in 1..(m - 1 + 1) : SubSeq(s, 1, m)[j] = s[1 + j - 1]
    BY <1>1, SubSeqProperties
<1>3. m - 1 + 1 = m /\ (~(1 <= m) => m = 0) /\ \A j \in 1..m : 1 + j - 1 = j
    BY <1>1
<1>4. Len(SubSeq(s, 1, m)) = Len(r)
    BY <1>1, <1>2, <1>3
<1>5. \A j \in 1..Len(r) : SubSeq(s, 1, m)[j] = r[j]
    BY <1>1, <1>2, <1>3
<1>6. SubSeq(s, 1, m) = r
    BY <1>2, <1>4, <1>5, SeqEqual
<1>7. QED
    BY <1>6 DEF Front

\* router.back() from the list, and from the panel.
LEMMA BackOut == Front(<<Elsewhere, List>>) = <<Elsewhere>>
<1> DEFINE s == <<Elsewhere, List>>
           r == <<Elsewhere>>
<1>1. s \in Seq(Int) /\ r \in Seq(Int) /\ Len(s) = 2 /\ Len(r) = 1 /\ r[1] = s[1]
    BY DEF Elsewhere, List
<1>2. \A j \in 1..1 : r[j] = s[j]
    BY <1>1
<1>3. Len(s) = Len(r) + 1 /\ 1..Len(r) = 1..1
    BY <1>1
<1> HIDE DEF s, r
<1>4. Front(s) = r
    BY <1>1, <1>2, <1>3, FrontOf
<1>5. QED
    BY <1>4 DEF s, r

\* Back from a panel.
LEMMA BackToList ==
    ASSUME NEW t \in Tasks
    PROVE  Front(<<Elsewhere, List, t>>) = <<Elsewhere, List>>
<1> DEFINE s == <<Elsewhere, List, t>>
           r == <<Elsewhere, List>>
<1>1. t \in Int
    BY TasksAssumption
<1>2. s \in Seq(Int) /\ r \in Seq(Int) /\ Len(s) = 3 /\ Len(r) = 2 /\ r[1] = s[1] /\ r[2] = s[2]
    BY <1>1 DEF Elsewhere, List
<1>3. \A j \in 1..2 : r[j] = s[j]
    BY <1>2
<1>4. Len(s) = Len(r) + 1 /\ 1..Len(r) = 1..2
    BY <1>2
<1> HIDE DEF s, r
<1>5. Front(s) = r
    BY <1>2, <1>3, <1>4, FrontOf
<1>6. QED
    BY <1>5 DEF s, r

\* One entry more.
LEMMA Pushed ==
    ASSUME NEW s \in Seq(Int), NEW r \in Seq(Int), NEW e \in Int, Len(r) = Len(s) + 1,
           \A j \in 1..Len(s) : r[j] = s[j], r[Len(s) + 1] = e
    PROVE  Append(s, e) = r
<1>1. /\ Append(s, e) \in Seq(Int) /\ Len(Append(s, e)) = Len(s) + 1
      /\ \A j \in 1..Len(s) : Append(s, e)[j] = s[j]
      /\ Append(s, e)[Len(s) + 1] = e
    BY AppendProperties
<1>2. \A j \in 1..(Len(s) + 1) : j \in 1..Len(s) \/ j = Len(s) + 1
    BY LenProperties
<1>3. \A j \in 1..Len(r) : Append(s, e)[j] = r[j]
    BY <1>1, <1>2
<1>4. QED
    BY <1>1, <1>3, SeqEqual

\* A second entry after one other.
LEMMA PushedSecond ==
    ASSUME NEW s \in Seq(Int), NEW r \in Seq(Int), NEW e \in Int,
           Len(s) = 1, Len(r) = 2, r[1] = s[1], r[2] = e
    PROVE  Append(s, e) = r
<1>1. Len(r) = Len(s) + 1 /\ r[Len(s) + 1] = e
    OBVIOUS
<1>2. \A j \in 1..Len(s) : r[j] = s[j]
    OBVIOUS
<1>3. QED
    BY <1>1, <1>2, Pushed, Zenon

\* A third after two others.
LEMMA PushedThird ==
    ASSUME NEW s \in Seq(Int), NEW r \in Seq(Int), NEW e \in Int,
           Len(s) = 2, Len(r) = 3, r[1] = s[1], r[2] = s[2], r[3] = e
    PROVE  Append(s, e) = r
<1>1. Len(r) = Len(s) + 1 /\ r[Len(s) + 1] = e
    OBVIOUS
<1>2. \A j \in 1..Len(s) : r[j] = s[j]
    OBVIOUS
<1>3. QED
    BY <1>1, <1>2, Pushed, Zenon

\* A link to the list.
LEMMA IntoList == Append(<<Elsewhere>>, List) = <<Elsewhere, List>>
<1> DEFINE s == <<Elsewhere>>
           r == <<Elsewhere, List>>
<1>1. s \in Seq(Int) /\ List \in Int /\ r \in Seq(Int) /\ Len(s) = 1 /\ Len(r) = 2 /\ r[1] = s[1] /\ r[2] = List
    BY DEF Elsewhere, List
<1> HIDE DEF s, r
<1>2. Append(s, List) = r
    BY <1>1, PushedSecond, Zenon
<1>3. QED
    BY <1>2 DEF s, r

\* And from a row to its panel.
LEMMA IntoPanel ==
    ASSUME NEW t \in Tasks
    PROVE  Append(<<Elsewhere, List>>, t) = <<Elsewhere, List, t>>
<1> DEFINE s == <<Elsewhere, List>>
           r == <<Elsewhere, List, t>>
<1>1. t \in Int
    BY TasksAssumption
<1>2. /\ s \in Seq(Int) /\ r \in Seq(Int) /\ Len(s) = 2 /\ Len(r) = 3
      /\ r[1] = s[1] /\ r[2] = s[2] /\ r[3] = t
    BY <1>1 DEF Elsewhere, List
<1> HIDE DEF s, r
<1>3. Append(s, t) = r
    BY <1>1, <1>2, PushedThird, Zenon
<1>4. QED
    BY <1>3 DEF s, r

\* What leaving a route does, on its own or after a deletion.
LEMMA PoppedKept ==
    ASSUME IInv, Popped, refresh' \in RefreshType, backs' \in Nat,
           refresh.asked \/ refresh.reading => refresh'.asked \/ refresh'.reading
    PROVE  /\ ListOK' /\ PanelTyped' /\ RequestsOK' /\ StoreOK' /\ BoundsOK'
           /\ BoardOK' /\ TicksOK' /\ PanelOK' /\ BoxesWait' /\ DraftWaits' /\ PanelWaits'
           /\ KindSame("restore")
           /\ \A j \in Slots : flight'[j].answer = flight[j].answer
           /\ UNCHANGED <<active, done, trash, props, behind>>
<1> DEFINE dead == {i \in Slots :
                      \/ flight[i].kind \in {"save", "delete"}
                      \/ flight[i].kind = "toggle" /\ flight[i].section = "panel"
                      \/ OnList /\ flight[i].kind \in {"reorder", "toggle", "create"}}
<1>0. UNCHANGED <<store, acts, lost, ghosts, props>> /\ UNCHANGED <<done, contended, props, row, active, trash, behind>>
    BY DEF Popped, store, ghosts
<1>1. flight' = Orphan(flight, dead) /\ flight \in [Slots -> Sent]
    BY Zenon DEF Popped, IInv, TypeInv, RequestsOK
<1>2. /\ dead \in SUBSET Slots
      /\ \A j \in dead : flight[j].kind \notin {"restore", "free"}
      /\ ~OnList => \A j \in dead : flight[j].kind \notin {"reorder", "create"}
      /\ ~OnList => \A j \in dead : flight[j].kind = "toggle" => flight[j].section = "panel"
      /\ OnList => \A j \in Slots : flight[j].kind = "reorder" => j \in dead
    OBVIOUS
<1> HIDE DEF dead
<1>3. flight' \in [Slots -> Sent] /\ \A j \in Slots : Cut(flight, dead, j)
    BY <1>1, <1>2, OrphanedOnes
<1>4. ASSUME NEW j \in Slots
      PROVE  /\ Cut(flight, dead, j)
             /\ flight'[j].kind = "free" => flight'[j].answer = "none"
             /\ flight'[j].kind \in {"toggle", "save", "delete", "restore"} => flight'[j].task \in Tasks
             /\ flight'[j].kind = "save" => flight'[j].field \in Fields
    BY <1>3 DEF Cut, Like, IInv, TypeInv, RequestsOK
<1>14. StoreOK' /\ BoundsOK'
    BY <1>0, StoreSame DEF IInv, TypeInv, BoundsOK
<1>5. RequestsOK'
    BY <1>3, <1>4 DEF RequestsOK
<1>6. KindSame("restore")
    BY <1>2, <1>4 DEF KindSame, Cut, Like
<1>7. PanelTyped' /\ PanelOK' /\ PanelWaits'
    <2>1. panel' = Closed
        BY DEF Popped
    <2>2. QED
        BY <2>1, PanelGone
<1>8. \/ trail = <<Elsewhere>> /\ Route = Elsewhere /\ trail' = trail /\ ~OnList
      \/ trail = <<Elsewhere, List>> /\ trail' = <<Elsewhere>> /\ OnList
      \/ trail' = <<Elsewhere, List>> /\ ~OnList
    <2>1. trail' = IF Len(trail) > 1 THEN Front(trail) ELSE trail
        BY DEF Popped
    <2>2. trail \in Trails
        BY DEF IInv, TypeInv, ListOK
    <2>3. CASE trail = <<Elsewhere>> /\ Route = Elsewhere /\ Len(trail) = 1
        BY <2>1, <2>3, Apart DEF OnList
    <2>4. CASE trail = <<Elsewhere, List>> /\ Route = List /\ Len(trail) = 2
        BY <2>1, <2>4, BackOut DEF OnList
    <2>5. CASE \E t \in Tasks : trail = <<Elsewhere, List, t>> /\ Route = t /\ Len(trail) = 3
        BY <2>1, <2>5, BackToList, Apart DEF OnList
    <2>6. QED
        BY <2>2, <2>3, <2>4, <2>5, Places
<1>9. trail' \in Trails
    BY <1>8 DEF Trails
<1>10. /\ box \in [Sections -> [Tasks -> BoxType]] /\ NoBoxes \in [Sections -> [Tasks -> BoxType]]
       /\ ClearBox \in BoxType /\ ~ClearBox.pending /\ ClearBox.mark = "none"
       /\ board \in BoardType /\ composer \in DraftType /\ NoBoard \in BoardType /\ NoDraft \in DraftType
    <2>1. <<>> \in Orders
        BY EmptySeq DEF Orders, IsInjective
    <2>2. ClearBox \in BoxType /\ ~ClearBox.pending /\ ClearBox.mark = "none"
        BY DEF ClearBox, BoxType
    <2>3. NoBoard \in BoardType /\ NoDraft \in DraftType
        BY <2>1 DEF NoBoard, BoardType, NoDraft, DraftType
    <2>4. NoBoxes \in [Sections -> [Tasks -> BoxType]]
        BY <2>2 DEF NoBoxes
    <2>5. QED
        BY <2>2, <2>3, <2>4 DEF IInv, TypeInv, ListOK
<1>11. CASE OnList
    <2>1. board' = NoBoard /\ box' = NoBoxes /\ composer' = NoDraft /\ trail' = <<Elsewhere>>
        BY <1>8, <1>11, Apart DEF Popped, OnList
    <2>2. \A s \in Sections, t \in Tasks : box'[s][t] = ClearBox
        BY <2>1 DEF NoBoxes
    <2>3. ListOK'
        BY <1>0, <1>9, <1>10, <2>1 DEF IInv, TypeInv, ListOK
    <2>4. BoardOK'
        <3>1. ~Out("reorder")'
            BY <1>2, <1>3, <1>11 DEF Out, Cut, Like
        <3>2. QED
            BY <2>1, <3>1 DEF BoardOK, NoBoard
    <2>5. BoxesWait' /\ DraftWaits'
        BY <1>10, <2>1, <2>2 DEF BoxesWait, DraftWaits, NoDraft
    <2>6. TicksOK'
        <3>1. \A j \in Slots : flight'[j].kind = "toggle" =>
                /\ Like(flight'[j], flight[j])
                /\ flight'[j].answer = "ok" => flight[j].answer = "ok"
            BY <1>4 DEF Cut, Like
        <3>2. \A s \in {"active", "done"}, t \in Tasks : ~Wrong(s, t)'
            BY <1>10, <2>2 DEF Wrong, Sections
        <3>3. QED
            BY <1>0, <3>1, <3>2, TicksStill DEF IInv
    <2>7. QED
        BY <1>0, <1>4, <1>5, <1>6, <1>7, <1>14, <2>3, <2>4, <2>5, <2>6 DEF Cut
<1>12. CASE ~OnList
    <2>1. /\ box' = [box EXCEPT !["panel"] = [t \in Tasks |-> ClearBox]]
          /\ board' = board /\ composer' = composer
        BY <1>12, Zenon DEF Popped
    <2>2. /\ box' \in [Sections -> [Tasks -> BoxType]]
          /\ \A t \in Tasks : box'["panel"][t] = ClearBox
          /\ \A s \in Sections \ {"panel"}, t \in Tasks : box'[s][t] = box[s][t]
        BY <1>10, <2>1 DEF Sections
    <2>3. ListOK'
        BY <1>0, <1>9, <1>10, <2>1, <2>2 DEF IInv, TypeInv, ListOK
    <2>4. \A j \in Slots : flight[j].kind \in {"reorder", "create"} =>
            /\ flight'[j].kind = flight[j].kind /\ flight'[j].alive = flight[j].alive
        BY <1>2, <1>4, <1>12 DEF Cut, Like
    <2>5. \A j \in Slots : flight'[j].kind \in {"reorder", "create"} => flight[j].kind = flight'[j].kind
        BY <1>4 DEF Cut, Like
    <2>6. Out("reorder")' <=> Out("reorder")
        BY <2>4, <2>5 DEF Out
    <2>7. BoardOK'
        <3>1. Route' = Elsewhere => Route = Elsewhere
            <4>1. CASE trail = <<Elsewhere>> /\ Route = Elsewhere /\ trail' = trail
                BY <4>1
            <4>2. CASE trail' = <<Elsewhere, List>>
                BY <4>2, Apart DEF Route, Last
            <4>3. QED
                BY <1>8, <1>12, <4>1, <4>2
        <3>2. QED
            BY <2>1, <2>6, <3>1 DEF IInv, BoardOK
    <2>8. DraftWaits'
        <3>1. Out("create") => Out("create")'
            BY <2>4 DEF Out
        <3>2. QED
            BY <2>1, <3>1 DEF IInv, WaitsOK, DraftWaits
    <2>9. \A s \in Sections \ {"panel"}, j \in Slots :
            flight[j].kind = "toggle" /\ flight[j].section = s /\ flight[j].alive =>
                flight'[j].kind = "toggle" /\ Like(flight'[j], flight[j]) /\ flight'[j].alive
        BY <1>2, <1>4, <1>12 DEF Cut, Like
    <2>10. BoxesWait'
        <3> SUFFICES ASSUME NEW s \in Sections, NEW t \in Tasks, box'[s][t].pending
                     PROVE  \E j \in Slots : Ticking(j, t)' /\ flight'[j].section = s /\ flight'[j].alive
            BY DEF BoxesWait
        <3>1. s # "panel" /\ box[s][t].pending
            BY <1>10, <2>2
        <3>2. PICK j \in Slots : Ticking(j, t) /\ flight[j].section = s /\ flight[j].alive
            BY <3>1 DEF IInv, WaitsOK, BoxesWait
        <3>3. QED
            BY <2>9, <3>1, <3>2 DEF Ticking, Like
    <2>11. TicksOK'
        <3>1. \A j \in Slots : flight'[j].kind = "toggle" =>
                /\ Like(flight'[j], flight[j])
                /\ flight'[j].answer = "ok" => flight[j].answer = "ok"
            BY <1>4 DEF Cut, Like
        <3>2. \A s \in {"active", "done"}, t \in Tasks : Wrong(s, t)' <=> Wrong(s, t)
            BY <2>2 DEF Wrong, Sections
        <3>3. \A s \in {"active", "done"}, t \in Tasks : Wrong(s, t)' =>
                /\ Wrong(s, t)
                /\ \A j \in Slots : Ticking(j, t) /\ flight[j].section = s /\ flight[j].alive =>
                     IF flight'[j].kind = "toggle" THEN flight'[j].alive ELSE flight[j].answer = "ok"
            BY <2>9, <3>2 DEF Ticking, Sections
        <3>4. QED
            BY <1>0, <3>1, <3>3, TicksStill DEF IInv
    <2>12. QED
        BY <1>0, <1>4, <1>5, <1>6, <1>7, <1>14, <2>3, <2>7, <2>8, <2>10, <2>11 DEF Cut
<1>13. QED
    BY <1>0, <1>11, <1>12, <1>14

\* The snackbar's navigation is over.
LEMMA SnackArrived ==
    ASSUME SnackOK, SnackWaits, snack' = [snack EXCEPT !.arriving = FALSE]
    PROVE  SnackOK' /\ (KindSame("restore") => SnackWaits')
<1>1. snack \in SnackType
    BY DEF SnackOK
<1>2. /\ snack' \in SnackType /\ snack'.task = snack.task /\ snack'.pending = snack.pending
      /\ snack'.elapsed = snack.elapsed /\ snack'.remaining = snack.remaining /\ snack'.shownFor = snack.shownFor
    BY <1>1 DEF SnackType
<1>3. SnackOK'
    BY <1>2 DEF SnackOK
<1>4. snack'.pending => snack.pending /\ snack'.task # None
    BY <1>2 DEF SnackWaits
<1>5. QED
    BY <1>3, <1>4, SnackWaitsStill

\* UndoHost sees the route change.
LEMMA Arrived ==
    ASSUME refresh \in RefreshType, SnackOK, SnackWaits, Arrive
    PROVE  /\ refresh' \in RefreshType
           /\ refresh.asked => refresh'.asked
           /\ refresh'.reading = refresh.reading /\ refresh'.view = refresh.view
           /\ refresh.asked \/ refresh.reading => refresh'.asked \/ refresh'.reading
           /\ snack.arriving => refresh'.asked
           /\ SnackOK' /\ (KindSame("restore") => SnackWaits')
<1>1. /\ refresh' \in RefreshType
      /\ refresh.asked => refresh'.asked
      /\ refresh'.reading = refresh.reading /\ refresh'.view = refresh.view
      /\ snack.arriving => refresh'.asked
    BY DEF Arrive, Ask, RefreshType
<1>2. snack' = [snack EXCEPT !.arriving = FALSE]
    BY DEF Arrive
<1>3. QED
    BY <1>1, <1>2, SnackArrived

\* The user goes back, or the browser does it for a deletion.
LEMMA BackKept ==
    ASSUME IInv, Back \/ GoBack
    PROVE  IInv'
<1>1. /\ Popped /\ backs' \in Nat
      /\ \/ Arrive
         \/ Route = Elsewhere /\ UNCHANGED <<refresh, snack>>
    BY DEF Back, GoBack, IInv, TypeInv, ListOK
<1>2. refresh \in RefreshType /\ SnackOK /\ SnackWaits
    BY DEF IInv, TypeInv, ListOK, WaitsOK
<1>3. /\ refresh' \in RefreshType
      /\ refresh.asked => refresh'.asked
      /\ refresh'.reading = refresh.reading /\ refresh'.view = refresh.view
      /\ refresh.asked \/ refresh.reading => refresh'.asked \/ refresh'.reading
      /\ snack.arriving => refresh'.asked \/ (Route = Elsewhere /\ snack'.arriving)
      /\ SnackOK' /\ (KindSame("restore") => SnackWaits')
    <2>1. CASE Arrive
        BY <1>2, <2>1, Arrived
    <2>2. CASE Route = Elsewhere /\ UNCHANGED <<refresh, snack>>
        BY <1>2, <2>2 DEF SnackOK, SnackWaits, KindSame
    <2>3. QED
        BY <1>1, <2>1, <2>2
<1>4. /\ ListOK' /\ PanelTyped' /\ RequestsOK' /\ StoreOK' /\ BoundsOK'
      /\ BoardOK' /\ TicksOK' /\ PanelOK' /\ BoxesWait' /\ DraftWaits' /\ PanelWaits'
      /\ KindSame("restore")
      /\ \A j \in Slots : flight'[j].answer = flight[j].answer
      /\ UNCHANGED <<active, done, trash, props, behind>>
    BY <1>1, <1>3, PoppedKept
<1>5. Route = Elsewhere => trail' = trail
    <2>1. trail \in Trails /\ trail' = IF Len(trail) > 1 THEN Front(trail) ELSE trail
        BY <1>1 DEF Popped, IInv, TypeInv, ListOK
    <2>2. Route = Elsewhere => ~(Len(trail) > 1)
        BY <2>1, Places, Apart
    <2>3. QED
        BY <2>1, <2>2
<1>6. Covered'
    BY <1>3, <1>4, <1>5, CoveredStill DEF IInv
<1>7. QED
    BY <1>3, <1>4, <1>6 DEF IInv, TypeInv, WaitsOK

\* The answer to a deletion.
LEMMA DeletedKept ==
    ASSUME IInv, NEW i \in Slots, Deleted(i)
    PROVE  IInv'
<1>1. /\ UNCHANGED <<store, trail, acts, lost, ghosts, props, refresh, board, box, composer>>
      /\ Got(i, "delete") /\ Land(i)
    BY Zenon DEF Deleted
<1>2. flight[i].kind = "delete" /\ RequestsOK
    BY <1>1 DEF Got, IInv, TypeInv
<1>3. StoreOK'
    BY <1>1, StoreSame DEF IInv, TypeInv
<1>4. BoundsOK'
    BY <1>1 DEF IInv, TypeInv, BoundsOK, ghosts
<1>5. UNCHANGED <<active, done, trash, row, props, contended>> /\ behind' = behind
    BY <1>1 DEF store, ghosts
<1>9. RequestsOK' /\ Gone(i)
    BY <1>1, <1>2, LandedOne
<1>10. /\ KindSame("reorder") /\ KindSame("create") /\ KindSame("toggle")
       /\ KindSame("restore") /\ KindSame("save")
    BY <1>2, <1>9, KindsGone
<1>11. BoardOK'
    BY <1>1, <1>10, BoardStill DEF IInv
<1>12. TicksOK'
    BY <1>1, <1>5, <1>10, TicksSame DEF IInv
<1>13. BoxesWait' /\ DraftWaits'
    BY <1>1, <1>10, BoxesStill, DraftStill DEF IInv, WaitsOK
<1>14. backs \in Nat /\ PanelTyped
    BY DEF IInv, TypeInv, ListOK
<1>6. CASE Ok(i)
    <2>1. snack' = Announce(flight[i].task) /\ backs' = backs + 1 /\ panel' = panel
        BY <1>6, Zenon DEF Deleted
    <2>2. backs' \in Nat /\ backs' > 0
        BY <1>14, <2>1
    <2>3. SnackOK' /\ SnackWaits' /\ snack'.arriving
        <3>1. PICK r \in 0..Window : r = IF snack.task # None /\ ~snack.paused THEN Window - snack.elapsed ELSE Window
            <4>1. snack.elapsed \in 0..Window
                BY DEF IInv, TypeInv, SnackOK, SnackType
            <4>2. Window - snack.elapsed \in 0..Window /\ Window \in 0..Window
                BY <4>1, LimitsAssumption
            <4>3. QED
                BY <4>2
        <3>2. flight[i].task \in Tasks
            BY <1>2 DEF RequestsOK
        <3>3. snack' = [NoSnack EXCEPT !.task = flight[i].task, !.arriving = TRUE, !.remaining = r]
            BY <2>1, <3>1, Zenon DEF Announce
        <3>4. snack' = [task |-> flight[i].task, pending |-> FALSE, error |-> FALSE, paused |-> FALSE,
                        remaining |-> r, elapsed |-> 0, shownFor |-> 0, arriving |-> TRUE]
            BY <3>3 DEF NoSnack
        <3>5. QED
            BY <3>2, <3>4, FreshSnack
    <2>4. Covered'
        BY <2>2, <2>3 DEF Covered, Expected
    <2>5. PanelWaits'
        BY <1>10, <2>1, <2>2, OutStill DEF IInv, WaitsOK, PanelWaits
    <2>6. PanelOK'
        BY <1>5, <1>10, <2>1, PanelStill DEF IInv
    <2>7. ListOK' /\ PanelTyped'
        BY <1>1, <1>14, <2>1, <2>2 DEF IInv, TypeInv, ListOK, PanelTyped
    <2>8. QED
        BY <1>3, <1>4, <1>9, <1>11, <1>12, <1>13, <2>3, <2>4, <2>5, <2>6, <2>7 DEF IInv, TypeInv, WaitsOK
<1>7. CASE ~Ok(i)
    <2>1. UNCHANGED <<trail, backs, refresh, board, box, composer, snack>>
        BY <1>1, <1>7, Zenon DEF Deleted
    <2>2. panel' = IF flight[i].alive THEN [panel EXCEPT !.submitting = FALSE, !.error = TRUE] ELSE panel
        BY <1>7, Zenon DEF Deleted
    <2>5. /\ PanelTyped' /\ panel'.task = panel.task /\ panel'.overlapped = panel.overlapped
          /\ panel'.saving = panel.saving /\ panel'.failed = panel.failed /\ panel'.shown = panel.shown
          /\ (panel'.submitting => panel.submitting /\ ~flight[i].alive)
        <3>1. PanelTyped /\ panel \in PanelType
            BY DEF IInv, TypeInv, PanelTyped
        <3>2. CASE flight[i].alive
            BY <2>2, <3>1, <3>2 DEF PanelTyped, PanelType
        <3>3. CASE ~flight[i].alive
            <4>1. panel' = panel
                BY <2>2, <3>3
            <4>2. QED
                BY <3>1, <3>3, <4>1 DEF PanelTyped
        <3>4. QED
            BY <3>2, <3>3
    <2>6. TypeInv'
        <3>1. ListOK'
            BY <1>1, <2>1 DEF IInv, TypeInv, ListOK
        <3>2. SnackOK'
            BY <2>1 DEF IInv, TypeInv, SnackOK
        <3>3. QED
            BY <1>3, <1>4, <1>9, <2>5, <3>1, <3>2 DEF TypeInv
    <2>7. Covered'
        <3>1. \A j \in Slots : flight[j].answer = "ok" => flight'[j].answer = "ok"
            BY <1>7, <1>9 DEF Gone, Ok
        <3>2. QED
            BY <1>5, <2>1, <3>1, CoveredStill DEF IInv
    <2>10. PanelOK'
        BY <1>5, <1>10, <2>5, PanelStill DEF IInv
    <2>11. WaitsOK'
        <3>2. PanelWaits'
            BY <1>9, <1>10, <2>1, <2>5, OutStill, OutLeft DEF IInv, WaitsOK, PanelWaits
        <3>3. SnackWaits'
            BY <1>10, <2>1, SnackWaitsStill DEF IInv, WaitsOK, SnackWaits
        <3>4. QED
            BY <1>13, <3>2, <3>3 DEF WaitsOK
    <2>12. QED
        BY <1>11, <1>12, <2>6, <2>7, <2>10, <2>11 DEF IInv
<1>8. QED
    BY <1>6, <1>7

\* A row's panel is opened.
LEMMA OpenPanelKept ==
    ASSUME IInv, NEW t \in Tasks, OpenPanel(t)
    PROVE  IInv'
<1>1. /\ Arrive
      /\ UNCHANGED <<store, backs, flight, acts, lost, ghosts, props, board, box, composer>>
      /\ trail' = Append(trail, t) /\ Route = List
    BY Zenon DEF OpenPanel, OnList
<1>2. PICK c, o \in BOOLEAN :
        /\ o <=> \E i \in Slots : flight[i].kind = "save"
        /\ panel' = IF ~Present(t) THEN Closed
                    ELSE [Closed EXCEPT !.task = t, !.shown = row[t], !.typed = row[t].title,
                                        !.checked = c, !.overlapped = o]
    <2>1. PICK c \in BOOLEAN : c = (t \in done)
        <3>1. (t \in done) \in BOOLEAN
            OBVIOUS
        <3>2. QED
            BY <3>1, Zenon
    <2>2. PICK o \in BOOLEAN : o = \E i \in Slots : flight[i].kind = "save"
        OBVIOUS
    <2>3. panel' = IF ~Present(t) THEN Closed
                   ELSE [Closed EXCEPT !.task = t, !.shown = row[t], !.typed = row[t].title,
                                       !.checked = c, !.overlapped = o]
        BY <2>1, <2>2, Zenon DEF OpenPanel
    <2>4. o <=> \E i \in Slots : flight[i].kind = "save"
        BY <2>2, Zenon
    <2>5. QED
        BY <2>3, <2>4
<1>3. /\ refresh' \in RefreshType
      /\ refresh.asked => refresh'.asked
      /\ refresh'.reading = refresh.reading /\ refresh'.view = refresh.view
      /\ refresh.asked \/ refresh.reading => refresh'.asked \/ refresh'.reading
      /\ snack.arriving => refresh'.asked
      /\ SnackOK' /\ (KindSame("restore") => SnackWaits')
    BY <1>1, Arrived DEF IInv, TypeInv, ListOK, WaitsOK
<1>4. /\ KindSame("reorder") /\ KindSame("toggle") /\ KindSame("create") /\ KindSame("restore")
    BY <1>1, KindsUnchanged
<1>5. trail' \in Trails /\ Route' = t
    <2>1. trail \in Trails
        BY DEF IInv, TypeInv, ListOK
    <2>2. trail = <<Elsewhere, List>>
        BY <1>1, <2>1, Places, Apart
    <2>3. trail' = <<Elsewhere, List, t>>
        BY <1>1, <2>2, IntoPanel
    <2>4. QED
        BY <2>3 DEF Trails, Route, Last
<1>6. PanelTyped' /\ PanelWaits' /\ PanelOK'
    <2>1. CASE ~Present(t)
        BY <1>2, <2>1, PanelGone
    <2>2. CASE Present(t)
        <3>1. panel' = [Closed EXCEPT !.task = t, !.shown = row[t], !.typed = row[t].title,
                                      !.checked = c, !.overlapped = o]
            BY <1>2, <2>2
        <3>2. PlainRow \in RowType /\ row[t] \in RowType /\ row[t].title \in Values
            BY DEF PlainRow, RowType, Values, IInv, TypeInv, StoreOK
        <3>3. panel' \in PanelType
            BY <3>1, <3>2 DEF Closed, PanelType, Values
        <3>4. /\ ~panel'.focused /\ panel'.saving = "none" /\ ~panel'.submitting
              /\ panel'.task = t /\ panel'.shown = row[t]
            BY <3>1 DEF Closed
        <3>5. panel'.overlapped = o
            BY <3>1 DEF Closed
        <3>6. PanelOK'
            <4>1. row' = row /\ flight' = flight
                BY <1>1 DEF store
            <4>2. ~panel'.overlapped => \A i \in Slots : flight'[i].kind # "save"
                BY <1>2, <3>5, <4>1
            <4>3. QED
                BY <3>4, <4>1, <4>2 DEF PanelOK
        <3>7. QED
            BY <3>3, <3>4, <3>6 DEF PanelTyped, PanelWaits
    <2>3. QED
        BY <2>1, <2>2
<1>7. TypeInv'
    <2>1. StoreOK'
        BY <1>1, StoreSame DEF IInv, TypeInv
    <2>2. ListOK'
        BY <1>1, <1>3, <1>5 DEF IInv, TypeInv, ListOK
    <2>4. RequestsOK'
        BY <1>1 DEF IInv, TypeInv, RequestsOK
    <2>5. BoundsOK'
        BY <1>1 DEF IInv, TypeInv, BoundsOK, ghosts
    <2>6. QED
        BY <1>3, <1>6, <2>1, <2>2, <2>4, <2>5 DEF TypeInv
<1>8. Covered'
    <2>1. UNCHANGED <<active, done, trash, props>> /\ behind' = behind /\ flight' = flight
        BY <1>1 DEF store, ghosts
    <2>2. QED
        BY <1>3, <2>1, CoveredStill DEF IInv
<1>9. BoardOK'
    <2>1. Route' # Elsewhere /\ Route # Elsewhere
        BY <1>1, <1>5, Apart
    <2>2. Out("reorder")' <=> Out("reorder")
        BY <1>4, OutStill
    <2>3. QED
        BY <1>1, <1>3, <2>1, <2>2 DEF IInv, BoardOK
<1>10. TicksOK'
    BY <1>1, <1>4, TicksSame DEF IInv, store, ghosts
<1>11. WaitsOK'
    <2>1. BoxesWait' /\ DraftWaits'
        BY <1>1, <1>4, BoxesStill, DraftStill DEF IInv, WaitsOK
    <2>2. QED
        BY <1>3, <1>4, <1>6, <2>1 DEF WaitsOK
<1>12. QED
    BY <1>6, <1>7, <1>8, <1>9, <1>10, <1>11 DEF IInv

\* The list is opened again.
LEMMA ReturnKept ==
    ASSUME IInv, Return
    PROVE  IInv'
<1>1. /\ Route = Elsewhere /\ trail' = Append(trail, List)
      /\ props' = View /\ behind' = FALSE
      /\ refresh' = [NoRefresh EXCEPT !.asked = snack.arriving]
      /\ snack' = [snack EXCEPT !.arriving = FALSE]
      /\ UNCHANGED <<store, backs, flight, acts, lost, contended, board, box, composer, panel>>
    BY Zenon DEF Return
<1>2. /\ KindSame("reorder") /\ KindSame("toggle") /\ KindSame("create")
      /\ KindSame("save") /\ KindSame("delete") /\ KindSame("restore")
    BY <1>1, KindsUnchanged
<1>3. trail' \in Trails /\ Route' = List
    <2>1. trail \in Trails
        BY DEF IInv, TypeInv, ListOK
    <2>2. trail = <<Elsewhere>>
        BY <1>1, <2>1, Places, Apart
    <2>3. trail' = <<Elsewhere, List>>
        BY <1>1, <2>2, IntoList
    <2>4. QED
        BY <2>3 DEF Trails, Route, Last
<1>4. View \in Shown /\ Current(View)
    BY ViewShown DEF IInv, TypeInv
<1>5. refresh' \in RefreshType /\ ~refresh'.reading
    <2>1. snack.arriving \in BOOLEAN
        BY DEF IInv, TypeInv, SnackOK, SnackType
    <2>2. QED
        BY <1>1, <1>4, <2>1 DEF NoRefresh, RefreshType
<1>6. Covered'
    <2>1. Current(View)'
        BY DEF Current, View
    <2>2. View' = View
        BY <1>1 DEF View, store
    <2>3. QED
        BY <1>1, <1>5, <2>1, <2>2 DEF Covered, Current
<1>7. TypeInv'
    <2>1. StoreOK'
        BY <1>1, StoreSame DEF IInv, TypeInv
    <2>2. ListOK'
        BY <1>1, <1>3, <1>4, <1>5 DEF IInv, TypeInv, ListOK
    <2>3. SnackOK'
        BY <1>1, <1>2, SnackArrived DEF IInv, TypeInv, WaitsOK
    <2>4. RequestsOK'
        BY <1>1 DEF IInv, TypeInv, RequestsOK
    <2>5. BoundsOK'
        BY <1>1 DEF IInv, TypeInv, BoundsOK
    <2>6. PanelTyped'
        BY <1>1 DEF IInv, TypeInv, PanelTyped
    <2>7. QED
        BY <2>1, <2>2, <2>3, <2>4, <2>5, <2>6 DEF TypeInv
<1>8. BoardOK'
    <2>1. Route' # Elsewhere /\ board'.order = <<>>
        BY <1>1, <1>3, Apart DEF IInv, BoardOK
    <2>2. QED
        BY <2>1 DEF BoardOK
<1>9. TicksOK'
    BY <1>1, <1>2, TicksSame DEF IInv, store
<1>10. PanelOK'
    BY <1>1, <1>2, PanelStill DEF IInv, store
<1>11. WaitsOK'
    <2>1. BoxesWait' /\ DraftWaits' /\ PanelWaits'
        BY <1>1, <1>2, BoxesStill, DraftStill, PanelWaitsStill DEF IInv, WaitsOK
    <2>2. SnackWaits'
        BY <1>1, <1>2, SnackArrived DEF IInv, TypeInv, WaitsOK
    <2>3. QED
        BY <2>1, <2>2 DEF WaitsOK
<1>12. QED
    BY <1>6, <1>7, <1>8, <1>9, <1>10, <1>11 DEF IInv

-----------------------------------------------------------------------------
(* A new document.                                                         *)

\* A list just fetched, with nothing sent yet.
NothingSent == flight = [i \in Slots |-> Free]

\* A fresh tab satisfies the invariant.
LEMMA FreshOK == StoreOK /\ BoundsOK /\ FreshTab /\ NothingSent => IInv
<1> SUFFICES ASSUME StoreOK, BoundsOK, FreshTab, NothingSent
             PROVE  IInv
    OBVIOUS
<1>1. /\ trail = <<Elsewhere, List>> /\ backs = 0 /\ props = View /\ refresh = NoRefresh
      /\ board = NoBoard /\ box = NoBoxes /\ composer = NoDraft
      /\ panel = Closed /\ snack = NoSnack
    BY DEF FreshTab
<1>2. flight = [i \in Slots |-> Free] /\ \A i \in Slots : flight[i] = Free
    BY DEF NothingSent
<1>3. View \in Shown /\ Current(View)
    BY ViewShown
<1>4. ListOK
    <2>1. <<>> \in Orders
        BY EmptySeq DEF Orders, IsInjective
    <2>2. trail \in Trails
        BY <1>1 DEF Trails
    <2>3. refresh \in RefreshType
        BY <1>1, <1>3 DEF NoRefresh, RefreshType
    <2>4. board \in BoardType /\ composer \in DraftType
        BY <1>1, <2>1 DEF NoBoard, BoardType, NoDraft, DraftType
    <2>5. ClearBox \in BoxType
        BY DEF ClearBox, BoxType
    <2>6. box \in [Sections -> [Tasks -> BoxType]]
        BY <1>1, <2>5 DEF NoBoxes
    <2>7. QED
        BY <1>1, <1>3, <2>2, <2>3, <2>4, <2>6 DEF ListOK
<1>5. PanelTyped /\ PanelOK /\ PanelWaits
    <2>1. PlainRow \in RowType
        BY DEF PlainRow, RowType, Values
    <2>2. QED
        BY <1>1, <2>1 DEF PanelOK, PanelWaits, PanelTyped, PanelType, Closed, Values
<1>6. SnackOK /\ SnackWaits
    <2>1. Window \in 0..Window /\ 0 \in 0..Window
        BY LimitsAssumption
    <2>2. snack \in SnackType
        BY <1>1, <2>1 DEF NoSnack, SnackType
    <2>3. snack.elapsed = 0 /\ snack.remaining = Window /\ snack.shownFor = 0 /\ ~snack.pending
        BY <1>1 DEF NoSnack
    <2>4. QED
        BY <2>2, <2>3, LimitsAssumption DEF SnackOK, SnackWaits
<1>7. RequestsOK
    BY <1>2, FreeSlot DEF RequestsOK
<1>8. Covered
    BY <1>1, <1>3 DEF Covered, NoRefresh
<1>9. BoardOK
    <2>1. Route = List
        BY <1>1 DEF Route, Last
    <2>2. QED
        BY <1>1, <2>1, Apart DEF BoardOK, NoBoard
<1>10. \A s \in Sections, t \in Tasks : box[s][t].mark = "none" /\ ~box[s][t].pending
    BY <1>1 DEF NoBoxes, ClearBox
<1>11. TicksOK
    <2>1. \A s \in {"active", "done"}, t \in Tasks : ~Wrong(s, t)
        BY <1>10 DEF Wrong, Sections
    <2>2. \A i \in Slots, t \in Tasks : ~Ticking(i, t)
        BY <1>2, FreeSlot DEF Ticking
    <2>3. QED
        BY <2>1, <2>2 DEF TicksOK
<1>12. BoxesWait /\ DraftWaits
    BY <1>1, <1>10 DEF BoxesWait, DraftWaits, NoDraft
<1>13. QED
    BY <1>4, <1>5, <1>6, <1>7, <1>8, <1>9, <1>11, <1>12 DEF IInv, TypeInv, WaitsOK

\* A session that has expired: the tab starts again.
LEMMA SignInKept ==
    ASSUME IInv, NEW i \in Slots, SignInAgain(i)
    PROVE  IInv'
<1>1. /\ FreshTab' /\ NothingSent'
      /\ behind' = FALSE /\ contended' = {} /\ UNCHANGED <<store, acts, lost>>
    <2>1. /\ trail' = <<Elsewhere, List>> /\ backs' = 0 /\ props' = View /\ refresh' = NoRefresh
          /\ board' = NoBoard /\ box' = NoBoxes /\ composer' = NoDraft
          /\ panel' = Closed /\ snack' = NoSnack
          /\ flight' = [j \in Slots |-> Free]
          /\ behind' = FALSE /\ contended' = {} /\ UNCHANGED <<store, acts, lost>>
        BY DEF SignInAgain
    <2>2. View' = View
        BY <2>1 DEF View, store
    <2>3. NoRefresh' = NoRefresh
        BY <2>2 DEF NoRefresh
    <2>4. QED
        BY <2>1, <2>2, <2>3 DEF FreshTab, NothingSent
<1>2. StoreOK'
    BY <1>1, StoreSame DEF IInv, TypeInv
<1>3. BoundsOK'
    BY <1>1 DEF IInv, TypeInv, BoundsOK
<1>4. QED
    BY <1>1, <1>2, <1>3, FreshOK, PTL

\* So does the first one.
LEMMA InitOK ==
    ASSUME Init
    PROVE  IInv
<1>1. active \in Orders /\ ToSet(active) \subseteq Tasks
    <2>1. PICK n \in Nat : n = Cardinality(Stocked)
        BY TasksAssumption, FS_CardinalityType
    <2>2. active \in [1..n -> Stocked] /\ IsInjective(active)
        BY <2>1 DEF Init, Arrangements
    <2>3. active \in [1..n -> Tasks]
        BY <2>2, TasksAssumption
    <2>4. active \in Seq(Tasks)
        BY <2>3, SeqDef
    <2>5. QED
        BY <2>2, <2>3, <2>4 DEF Orders, ToSet
<1>2. PlainRow \in RowType
    BY DEF PlainRow, RowType, Values
<1>3. StoreOK
    BY <1>1, <1>2 DEF Init, StoreOK
<1>4. BoundsOK
    <2>1. acts = 0 /\ lost = 0 /\ behind = FALSE /\ contended = {}
        BY DEF Init
    <2>2. acts \in 0..MaxActs /\ lost \in 0..MaxLost /\ contended \subseteq Tasks
        BY <2>1, LimitsAssumption
    <2>3. behind \in BOOLEAN
        BY <2>1, Zenon
    <2>4. QED
        BY <2>2, <2>3 DEF BoundsOK
<1>5. FreshTab /\ NothingSent
    BY DEF Init, NothingSent
<1>6. QED
    BY <1>3, <1>4, <1>5, FreshOK

-----------------------------------------------------------------------------
(* Every step keeps the invariant.                                         *)

\* Every answered step.
LEMMA AnswerKept ==
    ASSUME IInv, NEW i \in Slots, Answer(i)
    PROVE  IInv'
BY ReorderedKept, ToggledKept, SavedKept, CreatedKept, DeletedKept, UndoneKept, SignInKept DEF Answer

\* The tab on its list, and the way to and from it.
ListStep ==
    \/ Persist \/ TypeDraft \/ Submit \/ Back \/ GoBack \/ Return
    \/ RefreshRead \/ RefreshApply \/ AskRefresh
    \/ \E s \in Sections, t \in Tasks : Toggle(s, t)
    \/ \E t \in Tasks : OpenPanel(t)

\* The panel over it, and the snackbar.
PanelAct ==
    \/ TypeTitle \/ Blur \/ ConfirmDelete \/ Hover \/ Leave \/ Tick \/ Expire \/ Undo
    \/ \E f \in Fields : Pick(f)
    \/ \E open \in BOOLEAN : Confirming(open)

\* Every step of the list.
LEMMA ListStepKept ==
    ASSUME IInv, ListStep
    PROVE  IInv'
<1>1. CASE Persist \/ TypeDraft \/ Submit \/ Back \/ GoBack \/ Return
    BY <1>1, PersistKept, TypeDraftKept, SubmitKept, BackKept, ReturnKept
<1>2. CASE RefreshRead \/ RefreshApply \/ AskRefresh
    BY <1>2, RefreshReadKept, RefreshApplyKept, AskRefreshKept
<1>3. CASE \E s \in Sections, t \in Tasks : Toggle(s, t)
    BY <1>3, ToggleKept
<1>4. CASE \E t \in Tasks : OpenPanel(t)
    BY <1>4, OpenPanelKept
<1>5. QED
    BY <1>1, <1>2, <1>3, <1>4 DEF ListStep

\* Every step of the panel and the snackbar.
LEMMA PanelActKept ==
    ASSUME IInv, PanelAct
    PROVE  IInv'
<1>1. CASE TypeTitle \/ Blur \/ ConfirmDelete
    BY <1>1, TypeTitleKept, BlurKept, ConfirmDeleteKept
<1>2. CASE Hover \/ Leave \/ Tick \/ Expire \/ Undo
    BY <1>2, HoverKept, LeaveKept, TickKept, ExpireKept, UndoKept
<1>3. CASE \E f \in Fields : Pick(f)
    BY <1>3, PickKept
<1>4. CASE \E open \in BOOLEAN : Confirming(open)
    BY <1>4, ConfirmingKept
<1>5. QED
    BY <1>1, <1>2, <1>3, <1>4 DEF PanelAct

\* A step of something else.
LEMMA StutterKept ==
    ASSUME IInv, UNCHANGED vars
    PROVE  IInv'
<1>1. UNCHANGED <<store, trail, backs, client, flight, acts, lost, ghosts>>
    BY DEF vars
<1>2. TypeInv'
    BY <1>1, ClientSame, StoreSame DEF IInv, TypeInv, RequestsOK, BoundsOK, ghosts
<1>3. Covered'
    BY <1>1, CoveredSame DEF IInv, client, ghosts
<1>4. BoardOK'
    BY <1>1 DEF IInv, BoardOK, Out, Route, client
<1>5. /\ KindSame("reorder") /\ KindSame("toggle") /\ KindSame("create")
      /\ KindSame("save") /\ KindSame("delete") /\ KindSame("restore")
    BY <1>1, KindsUnchanged
<1>6. TicksOK'
    BY <1>1, <1>5, TicksSame DEF IInv, store, client, ghosts
<1>7. PanelOK'
    BY <1>1, <1>5, PanelStill DEF IInv, store, client
<1>8. WaitsOK'
    <2>1. BoxesWait' /\ DraftWaits' /\ PanelWaits'
        BY <1>1, <1>5, BoxesStill, DraftStill, PanelWaitsStill DEF IInv, WaitsOK, client
    <2>2. SnackWaits'
        BY <1>1 DEF IInv, WaitsOK, SnackWaits, client
    <2>3. QED
        BY <2>1, <2>2 DEF WaitsOK
<1>9. QED
    BY <1>2, <1>3, <1>4, <1>6, <1>7, <1>8 DEF IInv

\* The invariant holds in every reachable state.
LEMMA Inductive == Spec => []IInv
<1>1. Init => IInv
    BY InitOK
<1>2. IInv /\ [Next]_vars => IInv'
    <2> SUFFICES ASSUME IInv, [Next]_vars
                 PROVE  IInv'
        OBVIOUS
    <2>1. CASE \E i \in Slots : Serve(i)
        BY <2>1, ServeIsKept
    <2>2. CASE \E i \in Slots : Fault(i) \/ Refuse(i)
        BY <2>2, FailureIsKept
    <2>3. CASE \E i \in Slots : Answer(i)
        BY <2>3, AnswerKept
    <2>4. CASE \E t \in Tasks : OtherDevice(t)
        BY <2>4, OtherDeviceIsKept
    <2>5. CASE ListStep
        BY <2>5, ListStepKept
    <2>6. CASE PanelAct
        BY <2>6, PanelActKept
    <2>7. CASE UNCHANGED vars
        BY <2>7, StutterKept
    <2>8. Next => \/ \E i \in Slots : Serve(i)
                  \/ \E i \in Slots : Fault(i) \/ Refuse(i)
                  \/ \E i \in Slots : Answer(i)
                  \/ \E t \in Tasks : OtherDevice(t)
                  \/ ListStep \/ PanelAct
        BY Zenon DEF Next, ListStep, PanelAct
    <2>9. QED
        BY <2>1, <2>2, <2>3, <2>4, <2>5, <2>6, <2>7, <2>8
<1>3. QED
    BY <1>1, <1>2, PTL DEF Spec

-----------------------------------------------------------------------------
(* The properties.                                                         *)

\* Every state has its type: rows, orders and replies in flight never hold a task twice,
\* and the store never has a task in two places.
THEOREM TypeCorrect == Spec => []TypeOK
<1>1. IInv => TypeOK
    <2> SUFFICES ASSUME IInv
                 PROVE  TypeOK
        OBVIOUS
    <2>1. /\ active \in Seq(Tasks) /\ IsInjective(active)
          /\ done \subseteq Tasks /\ trash \subseteq Tasks
          /\ done \cap ToSet(active) = {} /\ trash \cap ToSet(active) = {}
          /\ row \in [Tasks -> RowType]
        BY DEF IInv, TypeInv, StoreOK, Orders
    <2>2. /\ trail \in Trails /\ backs \in Nat
          /\ props \in Views /\ refresh.view \in Views
          /\ refresh.asked \in BOOLEAN /\ refresh.reading \in BOOLEAN /\ refresh.gone \in Tasks \cup {None}
        BY DEF IInv, TypeInv, ListOK, RefreshType, Shown, Views, Orders
    <2>3. /\ board \in [order : Seq(Tasks), error : BOOLEAN]
          /\ box \in [Sections -> [Tasks -> [mark : {"none", "open", "done"}, pending : BOOLEAN]]]
          /\ composer \in [title : {"", "b"}, submitting : BOOLEAN, error : BOOLEAN]
        BY DEF IInv, TypeInv, ListOK, BoardType, BoxType, DraftType, Orders
    <2>4. panel \in [task : Tasks \cup {None}, shown : RowType, checked : BOOLEAN, typed : Values,
                     focused : BOOLEAN, saving : Fields \cup {"none"}, failed : SUBSET Fields,
                     overlapped : BOOLEAN, confirming : BOOLEAN, submitting : BOOLEAN, error : BOOLEAN]
        BY DEF IInv, TypeInv, PanelTyped, PanelType
    <2>5. snack \in [task : Tasks \cup {None}, pending : BOOLEAN, error : BOOLEAN, paused : BOOLEAN,
                     remaining : 0..Window, elapsed : 0..Window, shownFor : 0..(2 * Window),
                     arriving : BOOLEAN]
        <3>1. 0..Window \subseteq 0..(2 * Window)
            BY LimitsAssumption
        <3>2. snack \in SnackType
            BY DEF IInv, TypeInv, SnackOK
        <3>3. QED
            BY <3>1, <3>2 DEF SnackType
    <2>6. flight \in [Slots -> Request]
        <3>1. Sent \subseteq Request
            BY DEF Sent, Request, Orders
        <3>2. QED
            BY <3>1 DEF IInv, TypeInv, RequestsOK
    <2>7. acts \in 0..MaxActs /\ lost \in 0..MaxLost /\ behind \in BOOLEAN /\ contended \subseteq Tasks
        BY DEF IInv, TypeInv, BoundsOK
    <2>8. QED
        BY <2>1, <2>2, <2>3, <2>4, <2>5, <2>6, <2>7 DEF TypeOK
<1>2. QED
    BY <1>1, Inductive, PTL

\* However refreshes, answers and going back interleave, a quiet tab shows what is stored
\* (list-view.tsx, active-tasks.tsx, task-checkbox.tsx, task-detail.tsx). The theorem speaks
\* neither of an order or a field with its error on the screen, nor of the box of a
\* contended task, nor of a panel in which two saves have overlapped.
THEOREM QuietTabIsRight == Spec => []ShownIsStored
<1>1. IInv => ShownIsStored
    <2> SUFFICES ASSUME IInv, Quiet
                 PROVE  /\ ~board.error => Rows = active
                        /\ props.done = done \ trash
                        /\ \A s \in {"active", "done"} : \A t \in RowsOf(s, props, <<>>) \ contended :
                               Checked(s, t) = (t \in done)
                        /\ OnPanel /\ ~panel.overlapped /\ panel.failed = {} => panel.shown = row[panel.task]
        BY DEF ShownIsStored
    <2>1. \A i \in Slots : flight[i].kind = "free" /\ flight[i].answer = "none"
        BY DEF Quiet, Idle, IInv, TypeInv, RequestsOK
    <2>2. Current(props)
        BY <2>1 DEF IInv, Covered, Expected, Quiet, Mounted
    <2>3. ~board.error => board.order = <<>>
        BY <2>1 DEF IInv, BoardOK, Out, Quiet
    <2>4. ~board.error => Rows = active
        BY <2>2, <2>3 DEF Rows, Current
    <2>5. ASSUME NEW s \in {"active", "done"}, NEW t \in RowsOf(s, props, <<>>) \ contended
          PROVE  Checked(s, t) = (t \in done)
        <3>1. t \in Tasks /\ (t \in done <=> s = "done")
            <4>1. s = "active" => t \in ToSet(active)
                BY <2>2, <2>5 DEF RowsOf, Current
            <4>2. s = "done" => t \in done \ trash
                BY <2>2, <2>5 DEF RowsOf, Current
            <4>3. ToSet(active) \subseteq Tasks
                BY ElementOfSeq, LenProperties DEF IInv, TypeInv, StoreOK, Orders, ToSet
            <4>4. QED
                BY <4>1, <4>2, <4>3 DEF IInv, TypeInv, StoreOK
        <3>2. ~Wrong(s, t)
            <4>1. ~Away(s, t)
                BY <3>1 DEF Away
            <4>2. QED
                BY <2>1, <3>1, <4>1 DEF IInv, TicksOK, Ticking
        <3>3. box[s][t].mark \in {"none", "open", "done"}
            BY <3>1 DEF IInv, TypeInv, ListOK, BoxType, Sections
        <3>4. CASE s = "active"
            <4>1. Checked(s, t) = FALSE
                BY <3>2, <3>3, <3>4 DEF Checked, Wrong
            <4>2. (t \in done) = FALSE
                BY <3>1, <3>4
            <4>3. QED
                BY <4>1, <4>2
        <3>5. CASE s = "done"
            <4>1. Checked(s, t) = TRUE
                BY <3>2, <3>3, <3>5 DEF Checked, Wrong
            <4>2. (t \in done) = TRUE
                BY <3>1, <3>5
            <4>3. QED
                BY <4>1, <4>2
        <3>6. QED
            BY <3>4, <3>5
    <2>6. OnPanel /\ ~panel.overlapped /\ panel.failed = {} => panel.shown = row[panel.task]
        BY <2>1 DEF OnPanel, IInv, PanelOK
    <2>7. QED
        BY <2>2, <2>4, <2>5, <2>6 DEF Current
<1>2. QED
    BY <1>1, Inductive, PTL

\* No control waits for a request that is no longer out (the finally blocks of
\* task-checkbox.tsx, quick-add.tsx, task-detail.tsx, task-delete.tsx, undo-snackbar.tsx).
THEOREM NothingIsLeftWaiting == Spec => []NothingLeftWaiting
<1>1. IInv => NothingLeftWaiting
    <2> SUFFICES ASSUME IInv, \A i \in Slots : Idle(i), backs = 0
                 PROVE  /\ \A s \in Sections, t \in Tasks : ~box[s][t].pending
                        /\ ~composer.submitting /\ panel.saving = "none" /\ ~panel.submitting /\ ~snack.pending
        BY DEF NothingLeftWaiting
    <2>1. \A i \in Slots : flight[i].kind = "free"
        BY DEF Idle
    <2>2. \A s \in Sections, t \in Tasks : ~box[s][t].pending
        BY <2>1 DEF IInv, WaitsOK, BoxesWait, Ticking
    <2>3. ~composer.submitting /\ panel.saving = "none" /\ ~panel.submitting
        BY <2>1 DEF IInv, WaitsOK, DraftWaits, PanelWaits, Out
    <2>4. ~snack.pending
        BY <2>1 DEF IInv, WaitsOK, SnackWaits
    <2>5. QED
        BY <2>2, <2>3, <2>4
<1>2. QED
    BY <1>1, Inductive, PTL

\* The clock of the snackbar never counts more than the window, however often it is
\* stopped and started (undo-snackbar.tsx).
THEOREM WindowIsKept == Spec => []WindowNotRestarted
<1>1. IInv => WindowNotRestarted
    <2> SUFFICES ASSUME IInv
                 PROVE  snack.shownFor <= Window
        BY DEF WindowNotRestarted
    <2>1. snack.shownFor \in 0..Window
        BY DEF IInv, TypeInv, SnackOK, SnackType
    <2>2. QED
        BY <2>1, LimitsAssumption
<1>2. QED
    BY <1>1, Inductive, PTL
=============================================================================
