--------------------------- MODULE SidebarProofs ---------------------------
(***************************************************************************)
(* What holds of the sidebar for every set of lists, names and requests:   *)
(* the move stored last stands, and the dialog and the toast say what is   *)
(* so.                                                                     *)
(***************************************************************************)
EXTENDS Sidebar, FiniteSetTheorems, SequenceTheorems, TLAPS

-----------------------------------------------------------------------------
(* Sequences without repetition.                                           *)

\* An element that is not there yet, appended.
LEMMA Appended ==
    ASSUME NEW S, NEW s \in Seq(S), IsInjective(s), NEW e \in S, e \notin ToSet(s)
    PROVE  /\ Append(s, e) \in Seq(S)
           /\ IsInjective(Append(s, e))
           /\ ToSet(Append(s, e)) = ToSet(s) \cup {e}
<1> DEFINE t == Append(s, e)
<1>1. t \in Seq(S) /\ Len(t) = Len(s) + 1 /\ t[Len(s) + 1] = e
    BY AppendProperties
<1>2. \A k \in 1..Len(s) : t[k] = s[k]
    BY AppendProperties
<1>3. DOMAIN s = 1..Len(s) /\ DOMAIN t = 1..(Len(s) + 1) /\ Len(s) \in Nat
    BY <1>1, LenProperties
<1>4. \A a \in DOMAIN t : a \in DOMAIN s \/ a = Len(s) + 1
    BY <1>3
<1>5. ToSet(t) = ToSet(s) \cup {e}
    BY <1>1, <1>2, <1>3, <1>4 DEF ToSet
<1>6. IsInjective(t)
    <2> SUFFICES ASSUME NEW a \in DOMAIN t, NEW b \in DOMAIN t, t[a] = t[b]
                 PROVE  a = b
        BY DEF IsInjective
    <2>1. \A k \in DOMAIN s : s[k] # e
        BY DEF ToSet
    <2>2. QED
        BY <1>1, <1>2, <1>3, <1>4, <2>1 DEF IsInjective
<1>7. QED
    BY <1>1, <1>5, <1>6

\* An element taken out; the others stay in their order.
LEMMA TakenOut ==
    ASSUME NEW S, NEW s \in Seq(S), IsInjective(s), NEW k \in DOMAIN s
    PROVE  /\ RemoveAt(s, k) \in Seq(S)
           /\ IsInjective(RemoveAt(s, k))
           /\ ToSet(RemoveAt(s, k)) = ToSet(s) \ {s[k]}
           /\ \A a, b \in DOMAIN RemoveAt(s, k) :
                  a < b => \E c, d \in DOMAIN s : c < d /\ RemoveAt(s, k)[a] = s[c] /\ RemoveAt(s, k)[b] = s[d]
<1> DEFINE t == RemoveAt(s, k)
           n == Len(s)
<1>1. n \in Nat /\ DOMAIN s = 1..n /\ k \in 1..n /\ \A j \in 1..n : s[j] \in S
    BY LenProperties, ElementOfSeq
<1>2. PICK p \in Seq(S) : /\ p = SubSeq(s, 1, k - 1) /\ Len(p) = k - 1
                         /\ \A j \in 1..(k - 1) : p[j] = s[j]
    <2>1. /\ SubSeq(s, 1, k - 1) \in Seq(S) /\ Len(SubSeq(s, 1, k - 1)) = IF 1 <= k - 1 THEN (k - 1) - 1 + 1 ELSE 0
          /\ \A j \in 1..((k - 1) - 1 + 1) : SubSeq(s, 1, k - 1)[j] = s[1 + j - 1]
        <3>1. 1 \in Int /\ k - 1 \in Int /\ \A j \in 1..(k - 1) : s[j] \in S
            BY <1>1
        <3>2. QED
            BY <3>1, SubSeqProperties
    <2>2. \A j \in 1..(k - 1) : 1 + j - 1 = j /\ j \in 1..((k - 1) - 1 + 1)
        BY <1>1
    <2>3. Len(SubSeq(s, 1, k - 1)) = k - 1
        BY <1>1, <2>1
    <2>4. QED
        BY <2>1, <2>2, <2>3
<1>3. PICK q \in Seq(S) : /\ q = SubSeq(s, k + 1, n) /\ Len(q) = n - k
                         /\ \A j \in 1..(n - k) : q[j] = s[k + j]
    <2>1. /\ SubSeq(s, k + 1, n) \in Seq(S) /\ Len(SubSeq(s, k + 1, n)) = n - k
          /\ \A j \in 1..(n - k) : SubSeq(s, k + 1, n)[j] = s[(k + 1) + j - 1]
        <3>1. k + 1 \in Int /\ n \in Int /\ \A j \in (k + 1)..n : s[j] \in S
            BY <1>1
        <3>2. /\ SubSeq(s, k + 1, n) \in Seq(S)
              /\ Len(SubSeq(s, k + 1, n)) = IF k + 1 <= n THEN n - (k + 1) + 1 ELSE 0
              /\ \A j \in 1..(n - (k + 1) + 1) : SubSeq(s, k + 1, n)[j] = s[(k + 1) + j - 1]
            BY <3>1, SubSeqProperties
        <3>3. n - (k + 1) + 1 = n - k /\ (~(k + 1 <= n) => n - k = 0)
            BY <1>1
        <3>4. QED
            BY <3>2, <3>3
    <2>2. \A j \in 1..(n - k) : (k + 1) + j - 1 = k + j
        BY <1>1
    <2>3. QED
        BY <2>1, <2>2
<1>0. t = p \o q
    BY <1>2, <1>3 DEF RemoveAt
<1> HIDE DEF t
<1>10. /\ t \in Seq(S) /\ Len(t) = Len(p) + Len(q)
       /\ \A j \in 1..(Len(p) + Len(q)) : t[j] = IF j <= Len(p) THEN p[j] ELSE q[j - Len(p)]
    <2>1. /\ p \o q \in Seq(S) /\ Len(p \o q) = Len(p) + Len(q)
          /\ \A j \in 1..(Len(p) + Len(q)) : (p \o q)[j] = IF j <= Len(p) THEN p[j] ELSE q[j - Len(p)]
        BY ConcatProperties
    <2>2. QED
        BY <1>0, <2>1, Zenon
<1>4. t \in Seq(S) /\ Len(t) = n - 1
    <2>1. Len(t) = (k - 1) + (n - k)
        BY <1>10, <1>2, <1>3
    <2>2. n \in Nat /\ k \in Nat
        BY <1>1
    <2>3. Len(t) = n - 1
        BY <2>1, <2>2
    <2>4. QED
        BY <1>10, <2>3, Zenon
<1>5. \A j \in 1..(n - 1) : t[j] = IF j < k THEN s[j] ELSE s[j + 1]
    <2> TAKE j \in 1..(n - 1)
    <2>0. t[j] = IF j <= Len(p) THEN p[j] ELSE q[j - Len(p)]
        <3>1. j \in 1..(Len(p) + Len(q))
            BY <1>1, <1>2, <1>3
        <3>2. QED
            BY <3>1, <1>10
    <2>1. CASE j < k
        <3>1. j <= Len(p) /\ j \in 1..(k - 1)
            BY <1>1, <1>2, <2>1
        <3>2. QED
            BY <1>2, <2>0, <2>1, <3>1
    <2>2. CASE ~(j < k)
        <3>1. j - (k - 1) \in 1..(n - k) /\ k + (j - (k - 1)) = j + 1
            BY <1>1, <2>2
        <3>2. QED
            <4>1. ~(j <= Len(p)) /\ j - Len(p) = j - (k - 1)
                BY <1>1, <1>2, <2>2
            <4>2. QED
                BY <1>3, <2>0, <2>2, <3>1, <4>1
    <2>3. QED
        BY <2>1, <2>2
<1>6. DOMAIN t = 1..(n - 1)
    BY <1>1, <1>4, LenProperties
<1>7. IsInjective(t)
    <2> SUFFICES ASSUME NEW a \in 1..(n - 1), NEW b \in 1..(n - 1), t[a] = t[b]
                 PROVE  a = b
        BY <1>6 DEF IsInjective
    <2> DEFINE at(j) == IF j < k THEN j ELSE j + 1
    <2>1. \A j \in 1..(n - 1) : at(j) \in DOMAIN s /\ t[j] = s[at(j)]
        BY <1>1, <1>5
    <2>2. at(a) = at(b)
        BY <2>1 DEF IsInjective
    <2>3. QED
        BY <1>1, <2>2
<1>8. ToSet(t) = ToSet(s) \ {s[k]}
    <2>1. ASSUME NEW j \in 1..(n - 1) PROVE t[j] \in ToSet(s) /\ t[j] # s[k]
        <3>1. PICK m \in 1..n : m # k /\ t[j] = s[m]
            <4>1. CASE j < k
                <5>1. j \in 1..n /\ j # k
                    BY <1>1, <4>1
                <5>2. QED
                    BY <1>5, <4>1, <5>1
            <4>2. CASE ~(j < k)
                <5>1. j + 1 \in 1..n /\ j + 1 # k
                    BY <1>1, <4>2
                <5>2. QED
                    BY <1>5, <4>2, <5>1
            <4>3. QED
                BY <4>1, <4>2
        <3>2. QED
            BY <3>1, <1>1 DEF IsInjective, ToSet
    <2>2. ASSUME NEW m \in DOMAIN s, m # k PROVE s[m] \in ToSet(t)
        <3>1. PICK j \in 1..(n - 1) : t[j] = s[m]
            <4>1. CASE m < k
                <5>1. m \in 1..(n - 1)
                    BY <1>1, <4>1
                <5>2. QED
                    BY <1>5, <4>1, <5>1
            <4>2. CASE ~(m < k)
                <5>1. m - 1 \in 1..(n - 1) /\ ~(m - 1 < k) /\ (m - 1) + 1 = m
                    BY <1>1, <2>2, <4>2
                <5>2. QED
                    BY <1>5, <5>1
            <4>3. QED
                BY <4>1, <4>2
        <3>2. QED
            BY <1>6, <3>1 DEF ToSet
    <2>3. QED
        BY <1>6, <2>1, <2>2 DEF ToSet
<1>9. ASSUME NEW a \in DOMAIN t, NEW b \in DOMAIN t, a < b
      PROVE  \E c, d \in DOMAIN s : c < d /\ t[a] = s[c] /\ t[b] = s[d]
    <2> DEFINE at(j) == IF j < k THEN j ELSE j + 1
    <2>1. \A j \in 1..(n - 1) : at(j) \in DOMAIN s /\ t[j] = s[at(j)]
        BY <1>1, <1>5
    <2>2. at(a) < at(b)
        BY <1>1, <1>6, <1>9
    <2>4. at(a) \in DOMAIN s /\ at(b) \in DOMAIN s /\ t[a] = s[at(a)] /\ t[b] = s[at(b)]
        BY <1>6, <2>1
    <2> HIDE DEF at
    <2>3. QED
        BY <2>2, <2>4
<1>11. QED
    BY <1>4, <1>7, <1>8, <1>9 DEF t

\* An element that is not there, put in front.
LEMMA PutInFront ==
    ASSUME NEW S, NEW s \in Seq(S), IsInjective(s), NEW e \in S, e \notin ToSet(s)
    PROVE  /\ <<e>> \o s \in Seq(S)
           /\ IsInjective(<<e>> \o s)
           /\ ToSet(<<e>> \o s) = ToSet(s) \cup {e}
<1> DEFINE t == <<e>> \o s
           n == Len(s)
<1>1. n \in Nat /\ DOMAIN s = 1..n /\ <<e>> \in Seq(S) /\ Len(<<e>>) = 1 /\ <<e>>[1] = e
    BY LenProperties
<1> DEFINE h == <<e>>
<1>11. h \in Seq(S) /\ Len(h) = 1 /\ h[1] = e
    BY <1>1
<1>12. t = h \o s
    OBVIOUS
<1> HIDE DEF h, t
<1>13. /\ t \in Seq(S) /\ Len(t) = Len(h) + n
       /\ \A k \in 1..(Len(h) + n) : t[k] = IF k <= Len(h) THEN h[k] ELSE s[k - Len(h)]
    <2>1. /\ h \o s \in Seq(S) /\ Len(h \o s) = Len(h) + n
          /\ \A k \in 1..(Len(h) + n) : (h \o s)[k] = IF k <= Len(h) THEN h[k] ELSE s[k - Len(h)]
        BY <1>11, ConcatProperties
    <2>2. QED
        BY <1>12, <2>1, Zenon
<1>2. t \in Seq(S) /\ Len(t) = n + 1
    BY <1>1, <1>11, <1>13
<1>3. t[1] = e
    BY <1>1, <1>11, <1>13
<1>4. \A k \in 2..(n + 1) : t[k] = s[k - 1]
    BY <1>1, <1>11, <1>13
<1>5. DOMAIN t = 1..(n + 1)
    BY <1>1, <1>2, LenProperties
<1>6. \A k \in 1..(n + 1) : k = 1 \/ (k \in 2..(n + 1) /\ k - 1 \in DOMAIN s)
    BY <1>1
<1>7. \A k \in DOMAIN s : k + 1 \in 2..(n + 1) /\ (k + 1) - 1 = k /\ s[k] # e
    BY <1>1 DEF ToSet
<1>8. IsInjective(t)
    <2> SUFFICES ASSUME NEW a \in 1..(n + 1), NEW b \in 1..(n + 1), t[a] = t[b]
                 PROVE  a = b
        BY <1>5 DEF IsInjective
    <2>1. CASE a = 1
        BY <1>3, <1>4, <1>6, <1>7, <2>1
    <2>2. CASE b = 1
        BY <1>3, <1>4, <1>6, <1>7, <2>2
    <2>3. CASE a # 1 /\ b # 1
        <3>1. a - 1 = b - 1
            BY <1>4, <1>6, <2>3 DEF IsInjective
        <3>2. QED
            BY <3>1, <1>1
    <2>4. QED
        BY <2>1, <2>2, <2>3
<1>9. ToSet(t) = ToSet(s) \cup {e}
    <2>1. \A k \in 1..(n + 1) : t[k] \in ToSet(s) \cup {e}
        BY <1>3, <1>4, <1>6 DEF ToSet
    <2>2. \A k \in DOMAIN s : s[k] \in ToSet(t)
        <3> TAKE k \in DOMAIN s
        <3>1. k + 1 \in DOMAIN t /\ t[k + 1] = s[k]
            BY <1>1, <1>4, <1>5, <1>7
        <3>2. QED
            BY <3>1 DEF ToSet
    <2>3. e \in ToSet(t)
        BY <1>1, <1>3, <1>5 DEF ToSet
    <2>4. QED
        BY <1>5, <2>1, <2>2, <2>3 DEF ToSet
<1>10. QED
    BY <1>2, <1>8, <1>9 DEF t

\* Where an element is.
LEMMA Placed ==
    ASSUME NEW S, NEW s \in Seq(S), NEW e \in ToSet(s)
    PROVE  PlaceIn(s, e) \in DOMAIN s /\ PlaceIn(s, e) \in Nat \ {0} /\ s[PlaceIn(s, e)] = e
<1>1. \E k \in DOMAIN s : s[k] = e
    BY DEF ToSet
<1>2. PlaceIn(s, e) \in DOMAIN s /\ s[PlaceIn(s, e)] = e
    BY <1>1 DEF PlaceIn
<1>3. QED
    BY <1>2, LenProperties

-----------------------------------------------------------------------------
(* The inductive invariant.                                                *)

Kinds == {"create", "rename", "delete", "move"}
Answers == {"none", "ok", "invalid", "gone", "fail", "unauthenticated"}
ViewType == [ok : BOOLEAN, order : Seq(Lists), name : [Lists -> Names]]
Request == [kind : Kinds, list : Lists \cup {None}, text : Names \cup {""}, vector : Seq(Lists), owned : SUBSET Lists,
            answer : Answers, alive : BOOLEAN, mounted : BOOLEAN]

\* The lists are those that were created and not deleted, each once, the default list
\* among them: rows come and go only in the creations and the deletions.
RowsKept == IsInjective(order) /\ ToSet(order) = made \ removed /\ Inbox \in ToSet(order)

StoreOK ==
    /\ order \in Seq(Lists) /\ position \in [Lists -> Nat] /\ name \in [Lists -> Names \ {""}]
    /\ made \subseteq Lists /\ removed \subseteq made
    /\ RowsKept

ScreenOK ==
    /\ props \in ViewType
    /\ refresh \in [asked : BOOLEAN, reading : BOOLEAN, view : ViewType]
    /\ nav \in [menu : Lists \cup {None}, toast : Lists \cup {None}, timers : Nat,
                error : BOOLEAN, drawer : BOOLEAN]
    /\ dialog \in [kind : {"none", "create", "rename", "delete"}, list : Lists \cup {None},
                   submitting : BOOLEAN, field : BOOLEAN, form : BOOLEAN]

RequestsOK == flight \in [Slots -> Request \cup {Free}]
BoundsOK == acts \in 0..MaxActs /\ lost \in 0..MaxLost

\* The request the dialog is waiting for.
Own(i) == flight[i].kind = dialog.kind /\ flight[i].alive /\ flight[i].list = dialog.list

\* A sidebar that is gone takes its dialog's requests with it; a deletion that was
\* answered was performed.
HonestOK ==
    /\ SaysWhatIsSo
    /\ \A i \in Slots : ~Idle(i) =>
        /\ flight[i].alive => flight[i].mounted
        /\ flight[i].kind = "delete" /\ flight[i].answer = "ok" => flight[i].list \in removed

\* What a render would show is what is stored.
Current(v) == v.ok => v.order = order /\ \A l \in ToSet(order) : v.name[l] = name[l]

\* A sidebar that is not up to date has something on its way: another device's change
\* nobody is told of, a refresh, an answer that will ask for one, or a render.
Covered ==
    \/ behind \/ refresh.asked
    \/ \E i \in Slots : flight[i].answer = "ok"
    \/ refresh.reading /\ Current(refresh.view)
    \/ ~refresh.reading /\ Current(props)

\* The lists are read by their positions, and of the lists that the last move named each
\* that is left has the position that it gave it.
ArrangedOK ==
    /\ arranged.vector \in Seq(Lists) /\ arranged.owned \subseteq made
    /\ \A j, k \in DOMAIN order : j < k => Before(position, order[j], order[k])
    /\ \A l \in arranged.owned \cap ToSet(order) :
           l \in ToSet(arranged.vector) /\ position[l] = PlaceIn(arranged.vector, l) - 1

\* A move that has been checked names all the lists its check read.
ClaimsOK ==
    \A i \in Slots : ~Idle(i) => flight[i].owned \subseteq made \cap ToSet(flight[i].vector)

MoveOK == ArrangedOK /\ ClaimsOK

IInv == StoreOK /\ ScreenOK /\ RequestsOK /\ BoundsOK

-----------------------------------------------------------------------------
(* The stored order.                                                       *)

\* A list that is stored, taken out of the order.
LEMMA WithoutOne ==
    ASSUME StoreOK, NEW l \in Lists, Stored(l)
    PROVE  /\ Without(l) \in Seq(Lists) /\ IsInjective(Without(l))
           /\ ToSet(Without(l)) = ToSet(order) \ {l}
           /\ \A a, b \in DOMAIN Without(l) :
                  a < b => \E c, d \in DOMAIN order : c < d /\ Without(l)[a] = order[c] /\ Without(l)[b] = order[d]
<1>1. PICK k \in DOMAIN order : k = PlaceIn(order, l) /\ order[k] = l
    BY Placed DEF Stored, StoreOK
<1>2. Without(l) = RemoveAt(order, k)
    BY <1>1 DEF Without
<1>3. order \in Seq(Lists) /\ IsInjective(order)
    BY DEF StoreOK, RowsKept
<1>4. QED
    BY <1>1, <1>2, <1>3, TakenOut

\* The last list there is.
LEMMA LastOne ==
    ASSUME NEW S, NEW s \in Seq(S), s # <<>>
    PROVE  Len(s) \in DOMAIN s /\ Last(s) = s[Len(s)] /\ Last(s) \in S
<1>1. Len(s) \in Nat /\ Len(s) # 0
    BY LenProperties, EmptySeq
<1>2. Len(s) \in DOMAIN s
    BY <1>1, LenProperties
<1>3. QED
    BY <1>2, ElementOfSeq, LenProperties DEF Last

\* A new list is stored behind the others, with a position of its own.
LEMMA InsertedLast ==
    ASSUME order \in Seq(Lists), IsInjective(order), position \in [Lists -> Nat],
           NEW l \in Lists, l \notin ToSet(order), NEW text, Inserted(l, text)
    PROVE  /\ order' \in Seq(Lists) /\ IsInjective(order')
           /\ ToSet(order') = ToSet(order) \cup {l}
           /\ position' \in [Lists -> Nat]
<1> DEFINE p == IF order = <<>> THEN 0 ELSE position[Last(order)] + 1
<1>1. order' = Append(order, l) /\ position' = [position EXCEPT ![l] = p]
    BY DEF Inserted
<1>2. p \in Nat
    <2>1. CASE order = <<>>
        BY <2>1
    <2>2. CASE order # <<>>
        <3>1. position[Last(order)] \in Nat
            BY <2>2, LastOne
        <3>2. QED
            BY <2>2, <3>1
    <2>3. QED
        BY <2>1, <2>2
<1> HIDE DEF p
<1>3. QED
    BY <1>1, <1>2, Appended

LEMMA InsertedOne ==
    ASSUME StoreOK, NEW l \in Lists \ made, NEW text \in Names \ {""}, Inserted(l, text)
    PROVE  StoreOK'
<1>1. order \in Seq(Lists) /\ IsInjective(order) /\ position \in [Lists -> Nat] /\ l \notin ToSet(order)
    BY DEF StoreOK, RowsKept
<1>2. /\ order' \in Seq(Lists) /\ IsInjective(order')
      /\ ToSet(order') = ToSet(order) \cup {l}
      /\ position' \in [Lists -> Nat]
    BY <1>1, InsertedLast, Zenon
<1>3. name' \in [Lists -> Names \ {""}]
    BY DEF Inserted, StoreOK
<1>4. QED
    BY <1>2, <1>3 DEF Inserted, StoreOK, RowsKept

\* A list other than the default one is deleted.
LEMMA DeletedOne ==
    ASSUME StoreOK, NEW l \in Lists, Stored(l), l # Inbox, Deleted(l)
    PROVE  StoreOK'
<1>1. /\ order' \in Seq(Lists) /\ IsInjective(order')
      /\ ToSet(order') = ToSet(order) \ {l}
    <2>1. order' = Without(l)
        BY DEF Deleted
    <2>2. QED
        BY <2>1, WithoutOne
<1>2. l \in made \ removed
    BY DEF Stored, StoreOK, RowsKept
<1>3. position' \in [Lists -> Nat]
    BY DEF Deleted, StoreOK
<1>4. QED
    BY <1>1, <1>2, <1>3 DEF Deleted, StoreOK, RowsKept

\* A move leaves the same lists in some order.
LEMMA ArrangedOne ==
    ASSUME StoreOK, NEW vector \in Seq(Lists), NEW owned, Arrange(vector, owned)
    PROVE  StoreOK' /\ ToSet(order') = ToSet(order)
<1>1. order' \in Sorted(Renumbered(vector)) /\ position' = Renumbered(vector)
      /\ UNCHANGED <<name, made, removed>>
    BY DEF Arrange
<1>2. order' \in [DOMAIN order -> ToSet(order)] /\ IsInjective(order') /\ ToSet(order') = ToSet(order)
    BY <1>1 DEF Sorted
<1>3. order' \in Seq(Lists)
    <2>1. DOMAIN order = 1..Len(order) /\ Len(order) \in Nat
        BY LenProperties DEF StoreOK
    <2>2. ToSet(order) \subseteq Lists
        BY DEF StoreOK, RowsKept
    <2>3. order' \in [1..Len(order) -> Lists]
        BY <1>2, <2>1, <2>2
    <2>4. QED
        BY <2>1, <2>3, SeqDef
<1>4. position' \in [Lists -> Nat]
    <2>1. \A l \in ToSet(vector) : PlaceIn(vector, l) - 1 \in Nat
        <3> TAKE l \in ToSet(vector)
        <3>1. PlaceIn(vector, l) \in Nat \ {0}
            BY Placed
        <3>2. QED
            BY <3>1
    <2>2. QED
        BY <1>1, <2>1 DEF Renumbered, StoreOK
<1>5. QED
    BY <1>1, <1>2, <1>3, <1>4 DEF StoreOK, RowsKept

\* Only a name changes.
LEMMA Renamed ==
    ASSUME StoreOK, NEW l \in Lists \cup {None}, NEW text \in Names \ {""}, name' = [name EXCEPT ![l] = text],
           UNCHANGED <<order, position, made, removed>>
    PROVE  StoreOK'
BY DEF StoreOK, RowsKept

\* What the lists were at the start.
LEMMA StoredAtFirst == Init => StoreOK
<1> SUFFICES ASSUME Init PROVE StoreOK
    OBVIOUS
<1>1. Cardinality(Stocked) \in Nat
    BY ListsAssumption, FS_CardinalityType
<1>2. PICK n \in Nat : n = Cardinality(Stocked)
    BY <1>1
<1>3. order \in [1..n -> Stocked] /\ IsInjective(order) /\ ToSet(order) = Stocked
    BY <1>2 DEF Init, Arrangements
<1>4. order \in Seq(Lists)
    <2>1. order \in [1..n -> Lists]
        BY <1>3, ListsAssumption
    <2>2. QED
        BY <2>1, SeqDef
<1>5. position \in [Lists -> Nat]
    <2>1. \A l \in Stocked : PlaceIn(order, l) - 1 \in Nat
        <3> TAKE l \in Stocked
        <3>1. PlaceIn(order, l) \in Nat \ {0}
            BY <1>3, <1>4, Placed
        <3>2. QED
            BY <3>1
    <2>2. QED
        BY <2>1 DEF Init
<1>6. QED
    BY <1>3, <1>4, <1>5, ListsAssumption, NamesAssumption DEF Init, StoreOK, RowsKept

-----------------------------------------------------------------------------
(* Requests.                                                               *)

\* Answering a request changes nothing else of it.
LEMMA Replied ==
    ASSUME RequestsOK, NEW i \in Slots, ~Idle(i), NEW a \in Answers, Reply(i, a)
    PROVE  /\ RequestsOK'
           /\ \A j \in Slots : /\ flight'[j].kind = flight[j].kind /\ flight'[j].list = flight[j].list
                               /\ flight'[j].alive = flight[j].alive /\ flight'[j].mounted = flight[j].mounted
                               /\ flight'[j].vector = flight[j].vector /\ flight'[j].owned = flight[j].owned
                               /\ flight'[j].answer = IF j = i THEN a ELSE flight[j].answer
<1>1. flight[i] \in Request
    BY DEF RequestsOK, Idle, Free
<1>2. [flight[i] EXCEPT !.answer = a] \in Request
    BY <1>1 DEF Request
<1>3. flight' = [flight EXCEPT ![i] = [flight[i] EXCEPT !.answer = a]]
    BY DEF Reply
<1>4. \A j \in Slots : flight'[j] = IF j = i THEN [flight[i] EXCEPT !.answer = a] ELSE flight[j]
    BY <1>3 DEF RequestsOK
<1>5. RequestsOK'
    BY <1>2, <1>3 DEF RequestsOK
<1>6. QED
    BY <1>1, <1>4, <1>5 DEF Request

\* The requests a closed dialog or a sidebar that is gone leaves behind.
LEMMA LeftBehind ==
    ASSUME RequestsOK
    PROVE  /\ Orphaned \in [Slots -> Request \cup {Free}] /\ Adrift \in [Slots -> Request \cup {Free}]
           /\ \A j \in Slots : flight[j] # Free =>
                /\ Orphaned[j] \in Request /\ Orphaned[j].kind = flight[j].kind
                /\ Orphaned[j].answer = flight[j].answer /\ Orphaned[j].list = flight[j].list
                /\ Orphaned[j].vector = flight[j].vector /\ Orphaned[j].owned = flight[j].owned
                /\ ~Orphaned[j].alive /\ ~Adrift[j].alive
                /\ Adrift[j] \in Request /\ Adrift[j].kind = flight[j].kind
                /\ Adrift[j].answer = flight[j].answer /\ Adrift[j].list = flight[j].list
                /\ Adrift[j].vector = flight[j].vector /\ Adrift[j].owned = flight[j].owned
           /\ \A j \in Slots : flight[j] = Free => Orphaned[j] = Free /\ Adrift[j] = Free
<1>1. ASSUME NEW j \in Slots, flight[j] # Free
      PROVE  /\ flight[j] \in Request /\ ~Idle(j)
             /\ [flight[j] EXCEPT !.alive = FALSE] \in Request
             /\ [flight[j] EXCEPT !.alive = FALSE, !.mounted = FALSE] \in Request
    <2>1. flight[j] \in Request
        BY <1>1 DEF RequestsOK
    <2>2. QED
        BY <2>1 DEF Request, Kinds, Idle
<1>2. \A j \in Slots : flight[j] = Free => Idle(j)
    BY DEF Idle, Free
<1>3. ASSUME NEW j \in Slots, flight[j] # Free
      PROVE  /\ Orphaned[j] = [flight[j] EXCEPT !.alive = FALSE]
             /\ Adrift[j] = [flight[j] EXCEPT !.alive = FALSE, !.mounted = FALSE]
    BY <1>1, <1>3 DEF Orphaned, Adrift
<1>4. \A j \in Slots : flight[j] = Free => Orphaned[j] = Free /\ Adrift[j] = Free
    BY <1>2 DEF Orphaned, Adrift
<1>5. Orphaned \in [Slots -> Request \cup {Free}] /\ Adrift \in [Slots -> Request \cup {Free}]
    <2>1. \A j \in Slots : Orphaned[j] \in Request \cup {Free} /\ Adrift[j] \in Request \cup {Free}
        BY <1>1, <1>3, <1>4
    <2>2. QED
        BY <2>1 DEF Orphaned, Adrift
<1>6. ASSUME NEW j \in Slots, flight[j] # Free
      PROVE  /\ Orphaned[j] \in Request /\ Orphaned[j].kind = flight[j].kind
             /\ Orphaned[j].answer = flight[j].answer /\ Orphaned[j].list = flight[j].list
             /\ Orphaned[j].vector = flight[j].vector /\ Orphaned[j].owned = flight[j].owned
             /\ ~Orphaned[j].alive /\ ~Adrift[j].alive
             /\ Adrift[j] \in Request /\ Adrift[j].kind = flight[j].kind
             /\ Adrift[j].answer = flight[j].answer /\ Adrift[j].list = flight[j].list
             /\ Adrift[j].vector = flight[j].vector /\ Adrift[j].owned = flight[j].owned
    <2>1. /\ Orphaned[j] \in Request /\ Orphaned[j].kind = flight[j].kind
          /\ Orphaned[j].answer = flight[j].answer /\ Orphaned[j].list = flight[j].list
          /\ Orphaned[j].vector = flight[j].vector /\ Orphaned[j].owned = flight[j].owned
          /\ ~Orphaned[j].alive
        BY <1>1, <1>3, <1>6 DEF Request
    <2>2. /\ Adrift[j] \in Request /\ Adrift[j].kind = flight[j].kind /\ ~Adrift[j].alive
          /\ Adrift[j].answer = flight[j].answer /\ Adrift[j].list = flight[j].list
          /\ Adrift[j].vector = flight[j].vector /\ Adrift[j].owned = flight[j].owned
        BY <1>1, <1>3, <1>6 DEF Request
    <2>3. QED
        BY <2>1, <2>2
<1>7. QED
    BY <1>4, <1>5, <1>6

\* The bounds are kept by whoever counts an act.
LEMMA Counted ==
    ASSUME BoundsOK, Happens, lost' = lost
    PROVE  BoundsOK'
BY LimitsAssumption DEF Happens, BoundsOK

\* A step that sends a request in slot i.
SentAt(i, kind, l) ==
    /\ Idle(i) /\ flight'[i] \in Request
    /\ flight'[i].kind = kind /\ flight'[i].list = l
    /\ flight'[i].answer = "none" /\ flight'[i].alive /\ flight'[i].mounted /\ flight'[i].owned = {}
    /\ \A j \in Slots : j # i => flight'[j] = flight[j]

\* A request that is sent takes a slot that was free.
LEMMA Sent ==
    ASSUME RequestsOK, BoundsOK, NEW kind \in Kinds, NEW l \in Lists \cup {None},
           NEW text \in Names \cup {""}, NEW vector \in Seq(Lists), Send(kind, l, text, vector)
    PROVE  /\ RequestsOK' /\ BoundsOK'
           /\ \E i \in Slots : SentAt(i, kind, l)
<1> DEFINE r == [kind |-> kind, list |-> l, text |-> text, vector |-> vector, owned |-> {},
                 answer |-> "none", alive |-> TRUE, mounted |-> TRUE]
<1>1. PICK i \in Slots : Idle(i) /\ flight' = [flight EXCEPT ![i] = r]
    BY Zenon DEF Send
<1>2. r \in Request
    BY DEF Request, Answers
<1>3. r.kind = kind /\ r.list = l /\ r.answer = "none" /\ r.alive /\ r.mounted /\ r.owned = {}
    OBVIOUS
<1> HIDE DEF r
<1>4. flight'[i] = r /\ RequestsOK' /\ \A j \in Slots : j # i => flight'[j] = flight[j]
    BY <1>1, <1>2 DEF RequestsOK
<1>5. Happens /\ lost' = lost
    BY Zenon DEF Send
<1>6. QED
    BY <1>1, <1>2, <1>3, <1>4, <1>5, Counted DEF SentAt

\* A vector a move sends is a sequence of lists.
LEMMA MovesAreVectors ==
    ASSUME ScreenOK, NEW l \in Lists, NEW vector \in Moves(l)
    PROVE  vector \in Seq(Lists)
<1> DEFINE o == props.order
           n == Len(props.order)
<1>1. o \in Seq(Lists) /\ n \in Nat /\ DOMAIN o = 1..n
    BY LenProperties DEF ScreenOK, ViewType
<1>2. PICK k \in 1..(n - 1) : vector = [o EXCEPT ![k] = o[k + 1], ![k + 1] = o[k]]
    BY DEF Moves
<1>3. k \in 1..n /\ k + 1 \in 1..n
    BY <1>1, <1>2
<1>4. o \in [1..n -> Lists] /\ o[k] \in Lists /\ o[k + 1] \in Lists
    BY <1>1, <1>3, ElementOfSeq, LenProperties
<1>5. vector \in [1..n -> Lists]
    BY <1>2, <1>3, <1>4
<1>6. QED
    BY <1>1, <1>5, SeqDef

-----------------------------------------------------------------------------
(* The invariant is kept.                                                  *)

\* A store that is not touched stays well formed.
LEMMA StoreSame ==
    ASSUME StoreOK, UNCHANGED store
    PROVE  StoreOK'
BY DEF StoreOK, RowsKept, store

\* So does a screen.
LEMMA ScreenSame ==
    ASSUME ScreenOK, UNCHANGED client
    PROVE  ScreenOK'
BY DEF ScreenOK, client

\* What a read of the lists can give.
LEMMA Views ==
    ASSUME StoreOK
    PROVE  View \in ViewType /\ Failure \in ViewType /\ NoRefresh \in [asked : BOOLEAN, reading : BOOLEAN, view : ViewType]
<1>1. View \in ViewType
    BY DEF View, ViewType, StoreOK
<1>2. [l \in Lists |-> Plain] \in [Lists -> Names] /\ <<>> \in Seq(Lists)
    BY NamesAssumption, EmptySeq
<1>3. Failure \in ViewType
    BY <1>2 DEF Failure, ViewType
<1>4. QED
    BY <1>1, <1>3 DEF NoRefresh

\* A request in flight that waits for the answer to an operation.
LEMMA Underway ==
    ASSUME RequestsOK, NEW i \in Slots, ~Idle(i)
    PROVE  flight[i] \in Request
BY DEF RequestsOK, Idle, Free

\* A creation leaves the store well formed, and is answered.
LEMMA ServeCreateKept ==
    ASSUME IInv, NEW i \in Slots, ServeCreate(i)
    PROVE  StoreOK' /\ \E a \in Answers : Reply(i, a)
<1>1. flight[i] \in Request
    BY Underway DEF IInv, ServeCreate, Waiting, Idle
<1>2. CASE ~ValidName(flight[i].text)
    <2>1. Reply(i, "invalid") /\ UNCHANGED store
        BY <1>2, Zenon DEF ServeCreate
    <2>2. QED
        BY <2>1, StoreSame DEF IInv, Answers
<1>3. CASE ValidName(flight[i].text)
    <2>1. PICK l \in Lists \ made : Inserted(l, flight[i].text) /\ Reply(i, "ok")
        BY <1>3, Zenon DEF ServeCreate
    <2>2. flight[i].text \in Names \ {""}
        BY <1>1, <1>3 DEF Request, ValidName
    <2>3. QED
        BY <2>1, <2>2, InsertedOne DEF IInv, Answers
<1>4. QED
    BY <1>2, <1>3

\* So is a renaming.
LEMMA ServeRenameKept ==
    ASSUME IInv, NEW i \in Slots, ServeRename(i)
    PROVE  StoreOK' /\ \E a \in Answers : Reply(i, a)
<1> DEFINE l == flight[i].list
           text == flight[i].text
<1>1. flight[i] \in Request
    BY Underway DEF IInv, ServeRename, Waiting, Idle
<1>2. UNCHANGED <<order, position, made, removed, arranged>> /\ StoreOK
    BY DEF ServeRename, IInv
<1>3. CASE ValidName(text) /\ Stored(l)
    <2>1. Reply(i, "ok") /\ name' = [name EXCEPT ![l] = text]
        BY <1>3, Zenon DEF ServeRename
    <2>2. text \in Names \ {""} /\ l \in Lists \cup {None}
        BY <1>1, <1>3 DEF Request, ValidName
    <2>3. QED
        BY <1>2, <2>1, <2>2, Renamed DEF Answers
<1>4. CASE ~(ValidName(text) /\ Stored(l))
    <2>1. name' = name /\ (Reply(i, "invalid") \/ Reply(i, "gone"))
        BY <1>4, Zenon DEF ServeRename
    <2>2. QED
        BY <1>2, <2>1, StoreSame DEF store, Answers
<1>5. QED
    BY <1>3, <1>4

\* A deletion too; the list is gone when the answer says so.
LEMMA ServeDeleteKept ==
    ASSUME IInv, NEW i \in Slots, ServeDelete(i)
    PROVE  /\ StoreOK' /\ removed \subseteq removed'
           /\ \E a \in Answers : Reply(i, a) /\ (a = "ok" => flight[i].list \in removed')
<1> DEFINE l == flight[i].list
<1>1. flight[i] \in Request /\ StoreOK
    BY Underway DEF IInv, ServeDelete, Waiting, Idle
<1>2. CASE Stored(l) /\ l # Inbox
    <2>1. Deleted(l) /\ Reply(i, "ok")
        BY <1>2, Zenon DEF ServeDelete
    <2>2. l \in Lists
        BY <1>1, <1>2 DEF Stored, StoreOK, RowsKept
    <2>3. StoreOK'
        BY <1>1, <1>2, <2>1, <2>2, DeletedOne
    <2>4. QED
        BY <2>1, <2>3 DEF Deleted, Answers
<1>3. CASE ~(Stored(l) /\ l # Inbox)
    <2>1. UNCHANGED store /\ (Reply(i, "gone") \/ Reply(i, "fail"))
        BY <1>3, Zenon DEF ServeDelete
    <2>2. QED
        BY <1>1, <2>1, StoreSame DEF store, Answers
<1>4. QED
    BY <1>2, <1>3

\* The check of a move changes only its request: it is refused, or keeps the lists it read.
LEMMA CheckMoveKept ==
    ASSUME IInv, NEW i \in Slots, CheckMove(i)
    PROVE  /\ UNCHANGED <<store, client, acts, lost, behind>> /\ RequestsOK'
           /\ \A j \in Slots :
                /\ flight'[j].kind = flight[j].kind /\ flight'[j].list = flight[j].list
                /\ flight'[j].alive = flight[j].alive /\ flight'[j].mounted = flight[j].mounted
                /\ flight'[j].vector = flight[j].vector
                /\ \/ flight'[j].answer = flight[j].answer
                   \/ flight[j].answer = "none" /\ flight'[j].answer = "invalid"
                /\ \/ flight'[j].owned = flight[j].owned
                   \/ flight'[j].owned = ToSet(order) /\ ToSet(order) = ToSet(flight[j].vector)
<1>1. /\ ~Idle(i) /\ flight[i] \in Request /\ RequestsOK
      /\ flight[i].kind = "move" /\ flight[i].answer = "none"
    BY Underway DEF IInv, CheckMove, Waiting, Idle
<1>2. UNCHANGED <<store, client, acts, lost, behind>>
    BY DEF CheckMove, ServerOnly
<1>3. CASE WholeSet(flight[i].vector)
    <2>1. flight' = [flight EXCEPT ![i] = [flight[i] EXCEPT !.owned = ToSet(order)]]
        BY <1>3, Zenon DEF CheckMove
    <2>2. ToSet(order) \in SUBSET Lists
        BY DEF IInv, StoreOK, RowsKept
    <2>3. [flight[i] EXCEPT !.owned = ToSet(order)] \in Request
        BY <1>1, <2>2 DEF Request
    <2>4. RequestsOK'
        BY <1>1, <2>1, <2>3 DEF RequestsOK
    <2>5. \A j \in Slots : flight'[j] = IF j = i THEN [flight[i] EXCEPT !.owned = ToSet(order)] ELSE flight[j]
        BY <1>1, <2>1 DEF RequestsOK
    <2>6. DOMAIN flight[i] = {"kind", "list", "text", "vector", "owned", "answer", "alive", "mounted"}
        BY <1>1 DEF Request
    <2>7. LET q == [flight[i] EXCEPT !.owned = ToSet(order)] IN
          /\ q.kind = flight[i].kind /\ q.list = flight[i].list
          /\ q.alive = flight[i].alive /\ q.mounted = flight[i].mounted
          /\ q.vector = flight[i].vector /\ q.answer = flight[i].answer /\ q.owned = ToSet(order)
        BY <2>6
    <2>8. ToSet(order) = ToSet(flight[i].vector)
        BY <1>3 DEF WholeSet
    <2>9. ASSUME NEW j \in Slots
          PROVE  /\ flight'[j].kind = flight[j].kind /\ flight'[j].list = flight[j].list
                 /\ flight'[j].alive = flight[j].alive /\ flight'[j].mounted = flight[j].mounted
                 /\ flight'[j].vector = flight[j].vector
                 /\ flight'[j].answer = flight[j].answer
                 /\ \/ flight'[j].owned = flight[j].owned
                    \/ flight'[j].owned = ToSet(order) /\ ToSet(order) = ToSet(flight[j].vector)
        <3>1. CASE j = i
            BY <2>5, <2>7, <2>8, <3>1
        <3>2. CASE j # i
            BY <2>5, <3>2
        <3>3. QED
            BY <3>1, <3>2
    <2>10. QED
        BY <1>2, <2>4, <2>9
<1>4. CASE ~WholeSet(flight[i].vector)
    <2>1. Reply(i, "invalid")
        BY <1>4, Zenon DEF CheckMove
    <2>2. QED
        BY <1>1, <1>2, <2>1, Replied DEF Answers
<1>5. QED
    BY <1>3, <1>4

\* Its UPDATE numbers the rows that are still there.
LEMMA SetPositionsKept ==
    ASSUME IInv, NEW i \in Slots, SetPositions(i)
    PROVE  /\ StoreOK' /\ (\E a \in Answers : Reply(i, a))
           /\ flight[i].vector \in Seq(Lists) /\ Arrange(flight[i].vector, flight[i].owned)
<1>1. flight[i] \in Request
    BY Underway DEF IInv, SetPositions, Waiting, Idle
<1>2. flight[i].vector \in Seq(Lists)
    BY <1>1 DEF Request
<1>3. Arrange(flight[i].vector, flight[i].owned) /\ Reply(i, "ok")
    BY Zenon DEF SetPositions
<1>4. StoreOK'
    BY <1>2, <1>3, ArrangedOne DEF IInv
<1>5. QED
    BY <1>2, <1>3, <1>4 DEF Answers

\* The vector of a move to the front.
LEMMA FrontVector ==
    ASSUME StoreOK, NEW l \in Lists, Stored(l)
    PROVE  <<l>> \o Without(l) \in Seq(Lists) /\ ToSet(<<l>> \o Without(l)) = ToSet(order)
<1>1. PICK rest \in Seq(Lists) : rest = Without(l) /\ IsInjective(rest) /\ ToSet(rest) = ToSet(order) \ {l}
    BY WithoutOne
<1>2. <<l>> \o rest \in Seq(Lists) /\ ToSet(<<l>> \o rest) = ToSet(rest) \cup {l}
    BY <1>1, PutInFront
<1>3. QED
    BY <1>1, <1>2 DEF Stored

\* What another device does leaves the store well formed,
LEMMA OtherDeviceKept ==
    ASSUME IInv, NEW l \in Lists, OtherDevice(l)
    PROVE  StoreOK' /\ removed \subseteq removed'
<1>1. StoreOK
    BY DEF IInv
<1>2. CASE l \notin made /\ Newest(l) /\ Inserted(l, Plain)
    <2>1. Plain \in Names \ {""}
        BY NamesAssumption
    <2>2. StoreOK'
        BY <1>1, <1>2, <2>1, InsertedOne
    <2>3. QED
        BY <1>2, <2>2 DEF Inserted
<1>3. CASE \E text \in Names \ {"", name[l]} :
             Stored(l) /\ name' = [name EXCEPT ![l] = text] /\ UNCHANGED <<order, position, made, removed, arranged>>
    <2>1. PICK text \in Names \ {""} : name' = [name EXCEPT ![l] = text] /\ UNCHANGED <<order, position, made, removed>>
        BY <1>3
    <2>2. QED
        BY <1>1, <2>1, Renamed
<1>4. CASE Stored(l) /\ l # Inbox /\ Deleted(l)
    <2>1. StoreOK'
        BY <1>1, <1>4, DeletedOne
    <2>2. QED
        BY <1>4, <2>1 DEF Deleted
<1>5. CASE Stored(l) /\ Arrange(<<l>> \o Without(l), ToSet(order))
    <2>1. StoreOK'
        BY <1>1, <1>5, FrontVector, ArrangedOne
    <2>2. removed' = removed
        BY <1>5 DEF Arrange
    <2>3. QED
        BY <2>1, <2>2
<1>6. QED
    BY <1>2, <1>3, <1>4, <1>5, Zenon DEF OtherDevice

\* The steps of the server that answer a request.
LEMMA ServerKept ==
    ASSUME IInv, NEW i \in Slots,
           ServeCreate(i) \/ ServeRename(i) \/ ServeDelete(i) \/ SetPositions(i) \/ Fault(i) \/ Refuse(i)
    PROVE  IInv'
<1>1. ~Idle(i)
    BY Zenon DEF ServeCreate, ServeRename, ServeDelete, SetPositions, Fault, Refuse, Waiting, Idle
<1>2. UNCHANGED client
    BY DEF ServeCreate, ServeRename, ServeDelete, SetPositions, Fault, Refuse, ServerOnly
<1>3. ScreenOK'
    BY <1>2, ScreenSame DEF IInv
<1>4. StoreOK' /\ \E a \in Answers : Reply(i, a)
    <2>1. CASE ServeCreate(i)
        BY <2>1, ServeCreateKept
    <2>2. CASE ServeRename(i)
        BY <2>2, ServeRenameKept
    <2>3. CASE ServeDelete(i)
        BY <2>3, ServeDeleteKept
    <2>4. CASE SetPositions(i)
        BY <2>4, SetPositionsKept
    <2>5. CASE Fault(i) \/ Refuse(i)
        <3>1. UNCHANGED store /\ (Reply(i, "fail") \/ Reply(i, "unauthenticated"))
            BY <2>5 DEF Fault, Refuse
        <3>2. QED
            BY <3>1, StoreSame DEF IInv, Answers
    <2>6. QED
        BY <2>1, <2>2, <2>3, <2>4, <2>5
<1>5. RequestsOK'
    BY <1>1, <1>4, Replied DEF IInv
<1>6. BoundsOK'
    <2>1. CASE Fault(i) \/ Refuse(i)
        <3>1. acts' = acts /\ lost < MaxLost /\ lost' = lost + 1
            BY <2>1 DEF Fault, Refuse
        <3>2. QED
            BY <3>1, LimitsAssumption DEF IInv, BoundsOK
    <2>2. CASE ~(Fault(i) \/ Refuse(i))
        <3>1. UNCHANGED <<acts, lost>>
            BY <2>2 DEF ServeCreate, ServeRename, ServeDelete, SetPositions, ServerOnly
        <3>2. QED
            BY <3>1 DEF IInv, BoundsOK
    <2>3. QED
        BY <2>1, <2>2
<1>7. QED
    BY <1>3, <1>4, <1>5, <1>6 DEF IInv

\* A check answers nothing, or refuses.
LEMMA CheckMoveTyped ==
    ASSUME IInv, NEW i \in Slots, CheckMove(i)
    PROVE  IInv'
<1>1. UNCHANGED <<store, client, acts, lost>> /\ RequestsOK'
    BY CheckMoveKept
<1>2. QED
    BY <1>1, StoreSame, ScreenSame DEF IInv, BoundsOK

\* What another device does changes only the store.
LEMMA OtherDeviceTyped ==
    ASSUME IInv, NEW l \in Lists, OtherDevice(l)
    PROVE  IInv'
<1>1. UNCHANGED <<client, flight, lost>> /\ Happens
    BY Zenon DEF OtherDevice
<1>2. StoreOK' /\ ScreenOK'
    BY <1>1, OtherDeviceKept, ScreenSame DEF IInv
<1>3. RequestsOK' /\ BoundsOK'
    BY <1>1, Counted DEF IInv, RequestsOK
<1>4. QED
    BY <1>2, <1>3 DEF IInv

\* The steps of the document that send and receive nothing.
LEMMA ScreenKept ==
    ASSUME IInv, Read \/ Render \/ Refresh \/ Drawer \/ ToastExpires \/ (\E l \in Lists : Menu(l))
                 \/ (\E kind \in {"create", "rename", "delete"}, l \in Lists \cup {None} : OpenDialog(kind, l))
    PROVE  IInv' /\ UNCHANGED <<flight, removed>>
<1> USE DEF IInv, ScreenOK, NavOnly, ClientOnly, store
<1>1. CASE Read
    <2>1. UNCHANGED <<store, props, nav, dialog, flight, acts, lost>>
        BY <1>1 DEF Read
    <2>2. refresh' \in [asked : BOOLEAN, reading : BOOLEAN, view : ViewType]
        BY <1>1, Views DEF Read
    <2>3. QED
        BY <2>1, <2>2, StoreSame DEF RequestsOK, BoundsOK
<1>2. CASE Render
    <2>1. UNCHANGED <<nav, dialog, flight, store, acts, lost>>
        BY <1>2 DEF Render
    <2>2. props' \in ViewType /\ refresh' \in [asked : BOOLEAN, reading : BOOLEAN, view : ViewType]
        BY <1>2, Views DEF Render
    <2>3. QED
        BY <2>1, <2>2, StoreSame DEF RequestsOK, BoundsOK
<1>3. CASE Refresh
    <2>1. UNCHANGED <<store, props, nav, dialog, flight, lost>> /\ Happens
        BY <1>3 DEF Refresh
    <2>2. refresh' \in [asked : BOOLEAN, reading : BOOLEAN, view : ViewType]
        BY <1>3 DEF Refresh, AskRefresh
    <2>3. QED
        BY <2>1, <2>2, StoreSame, Counted DEF RequestsOK
<1>4. CASE Drawer
    <2>1. UNCHANGED <<props, refresh, dialog, flight, store, acts, lost>>
        BY <1>4 DEF Drawer
    <2>2. nav' = [nav EXCEPT !.drawer = ~@]
        BY <1>4 DEF Drawer
    <2>3. QED
        BY <2>1, <2>2, StoreSame DEF RequestsOK, BoundsOK
<1>5. CASE ToastExpires
    <2>1. UNCHANGED <<props, refresh, dialog, flight, store, acts, lost>>
        BY <1>5 DEF ToastExpires
    <2>2. nav.timers > 0 /\ nav' = [nav EXCEPT !.timers = @ - 1, !.toast = None]
        BY <1>5 DEF ToastExpires
    <2>3. nav.timers - 1 \in Nat
        BY <2>2
    <2>4. nav' \in [menu : Lists \cup {None}, toast : Lists \cup {None}, timers : Nat,
                   error : BOOLEAN, drawer : BOOLEAN]
        BY <2>2, <2>3
    <2>5. QED
        BY <2>1, <2>4, StoreSame DEF RequestsOK, BoundsOK
<1>6. ASSUME NEW l \in Lists, Menu(l) PROVE IInv' /\ UNCHANGED <<flight, removed>>
    <2>1. UNCHANGED <<props, refresh, dialog, flight, store, acts, lost>>
        BY <1>6 DEF Menu
    <2>2. nav' = [nav EXCEPT !.menu = IF @ = l THEN None ELSE l]
        BY <1>6 DEF Menu
    <2>3. QED
        BY <2>1, <2>2, StoreSame DEF RequestsOK, BoundsOK
<1>7. ASSUME NEW kind \in {"create", "rename", "delete"}, NEW l \in Lists \cup {None}, OpenDialog(kind, l)
      PROVE  IInv' /\ UNCHANGED <<flight, removed>>
    <2>1. UNCHANGED <<props, refresh, flight, store, acts, lost>>
        BY <1>7 DEF OpenDialog
    <2>2. dialog' = [NoDialog EXCEPT !.kind = kind, !.list = l]
        BY <1>7 DEF OpenDialog
    <2>3. nav' = [nav EXCEPT !.menu = IF kind = "create" THEN @ ELSE None,
                             !.drawer = @ /\ kind # "delete"]
        BY <1>7 DEF OpenDialog
    <2>4. QED
        BY <2>1, <2>2, <2>3, StoreSame DEF RequestsOK, BoundsOK, NoDialog
<1>8. QED
    BY <1>1, <1>2, <1>3, <1>4, <1>5, <1>6, <1>7, Zenon

\* The steps of the document that send, or let go of, requests.
LEMMA TrafficKept ==
    ASSUME IInv, Navigate \/ CloseDialog \/ Submit \/ (\E l \in Lists : Move(l))
                 \/ (\E i \in Slots : Moved(i) \/ Answered(i) \/ SignInAgain(i))
    PROVE  IInv'
<1> USE DEF IInv, ClientOnly, store
<1>0. /\ Quiet \in [menu : Lists \cup {None}, toast : Lists \cup {None}, timers : Nat,
                    error : BOOLEAN, drawer : BOOLEAN]
      /\ NoDialog \in [kind : {"none", "create", "rename", "delete"}, list : Lists \cup {None},
                       submitting : BOOLEAN, field : BOOLEAN, form : BOOLEAN]
    BY DEF Quiet, NoDialog
<1>1. CASE Navigate
    <2>1. UNCHANGED <<store, lost, dialog>> /\ Happens
        BY <1>1 DEF Navigate
    <2>2. (\E view \in {View, Failure} : props' = view) /\ refresh' = NoRefresh /\ nav' = Quiet /\ flight' = Adrift
        BY <1>1 DEF Navigate
    <2>3. ScreenOK'
        BY <1>0, <2>1, <2>2, Views DEF ScreenOK
    <2>4. QED
        BY <2>1, <2>2, <2>3, StoreSame, Counted, LeftBehind DEF RequestsOK
<1>2. CASE CloseDialog
    <2>1. UNCHANGED <<props, refresh, store, acts, lost>> /\ dialog' = NoDialog /\ flight' = Orphaned
        BY <1>2 DEF CloseDialog
    <2>2. \E drawer \in {nav.drawer, FALSE} : nav' = [nav EXCEPT !.drawer = drawer]
        BY <1>2 DEF CloseDialog
    <2>3. ScreenOK'
        BY <1>0, <2>1, <2>2 DEF ScreenOK
    <2>4. QED
        BY <2>1, <2>3, StoreSame, LeftBehind DEF RequestsOK, BoundsOK
<1>3. CASE Submit
    <2>1. dialog' = [dialog EXCEPT !.submitting = TRUE, !.field = FALSE, !.form = FALSE]
          /\ UNCHANGED <<props, refresh, nav>> /\ dialog.kind # "none"
        BY <1>3, Zenon DEF Submit
    <2>2. PICK text \in Names \cup {""} : Send(dialog.kind, dialog.list, text, <<>>)
        BY <1>3, Zenon DEF Submit
    <2>3. dialog.kind \in Kinds /\ dialog.list \in Lists \cup {None} /\ <<>> \in Seq(Lists)
        BY <2>1, EmptySeq DEF ScreenOK, Kinds
    <2>4. RequestsOK' /\ BoundsOK'
        BY <2>2, <2>3, Sent
    <2>5. UNCHANGED store
        BY <2>2, Zenon DEF Send
    <2>6. ScreenOK'
        BY <2>1 DEF ScreenOK
    <2>7. QED
        BY <2>4, <2>5, <2>6, StoreSame
<1>4. ASSUME NEW l \in Lists, Move(l) PROVE IInv'
    <2>1. PICK vector \in Moves(l) : Send("move", None, "", vector)
        BY <1>4, Zenon DEF Move
    <2>2. nav' = [nav EXCEPT !.menu = None, !.error = FALSE] /\ UNCHANGED <<props, refresh, dialog>>
        BY <1>4, Zenon DEF Move
    <2>3. vector \in Seq(Lists) /\ "move" \in Kinds /\ None \in Lists \cup {None} /\ "" \in Names \cup {""}
        BY MovesAreVectors DEF Kinds
    <2>4. RequestsOK' /\ BoundsOK'
        BY <2>1, <2>3, Sent
    <2>5. UNCHANGED store
        BY <2>1, Zenon DEF Send
    <2>6. ScreenOK'
        BY <2>2 DEF ScreenOK
    <2>7. QED
        BY <2>4, <2>5, <2>6, StoreSame
<1>5. ASSUME NEW i \in Slots, Moved(i) PROVE IInv'
    <2>1. UNCHANGED <<store, acts, lost, props, dialog>> /\ flight' = [flight EXCEPT ![i] = Free]
        BY <1>5 DEF Moved, Land
    <2>2. \/ refresh' = [refresh EXCEPT !.asked = TRUE] /\ nav' = nav
          \/ nav' = [nav EXCEPT !.error = @ \/ flight[i].mounted] /\ refresh' = refresh
        BY <1>5, Zenon DEF Moved, AskRefresh
    <2>3. flight[i].mounted \in BOOLEAN
        <3>1. flight[i] \in Request
            BY <1>5, Underway DEF Moved, Idle
        <3>2. QED
            BY <3>1 DEF Request
    <2>4. ScreenOK'
        BY <2>1, <2>2, <2>3 DEF ScreenOK
    <2>5. QED
        BY <2>1, <2>4, StoreSame DEF RequestsOK, BoundsOK
<1>6. ASSUME NEW i \in Slots, Answered(i) PROVE IInv'
    <2>1. UNCHANGED <<store, acts, lost, props>>
        BY <1>6 DEF Answered
    <2>2. flight[i] \in Request
        BY <1>6, Underway DEF Answered, Idle
    <2>3. CASE \E toast \in Lists \cup {None} : AfterMutation(i, toast)
        <3>1. PICK toast \in Lists \cup {None} : AfterMutation(i, toast)
            BY <2>3
        <3>2. refresh' = [refresh EXCEPT !.asked = TRUE]
            BY <3>1 DEF AfterMutation, AskRefresh
        <3>3. CASE flight[i].mounted
            <4>1. /\ dialog' = NoDialog
                  /\ nav' = [nav EXCEPT !.menu = None, !.toast = IF toast = None THEN @ ELSE toast,
                                        !.timers = IF toast = None THEN @ ELSE @ + 1]
                  /\ flight' = [Orphaned EXCEPT ![i] = Free]
                BY <3>1, <3>3, Zenon DEF AfterMutation
            <4>2. nav' \in [menu : Lists \cup {None}, toast : Lists \cup {None}, timers : Nat,
                            error : BOOLEAN, drawer : BOOLEAN]
                <5>1. CASE toast = None
                    BY <4>1, <5>1 DEF ScreenOK
                <5>2. CASE toast # None
                    <6>1. nav.timers + 1 \in Nat
                        BY DEF ScreenOK
                    <6>2. nav' = [nav EXCEPT !.menu = None, !.toast = toast, !.timers = @ + 1]
                        BY <4>1, <5>2
                    <6>3. QED
                        BY <6>1, <6>2 DEF ScreenOK
                <5>3. QED
                    BY <5>1, <5>2
            <4>3. ScreenOK'
                BY <1>0, <2>1, <3>2, <4>1, <4>2 DEF ScreenOK
            <4>4. RequestsOK'
                BY <4>1, LeftBehind DEF RequestsOK
            <4>5. QED
                BY <2>1, <4>3, <4>4, StoreSame DEF BoundsOK
        <3>4. CASE ~flight[i].mounted
            <4>1. UNCHANGED <<dialog, nav>> /\ flight' = [flight EXCEPT ![i] = Free]
                BY <3>1, <3>4, Zenon DEF AfterMutation, Land
            <4>2. QED
                BY <2>1, <3>2, <4>1, StoreSame DEF ScreenOK, RequestsOK, BoundsOK
        <3>5. QED
            BY <3>3, <3>4
    <2>4. CASE Land(i) /\ dialog' = (IF flight[i].alive THEN WithError(i) ELSE dialog) /\ UNCHANGED <<nav, refresh>>
        <3>1. WithError(i) \in [kind : {"none", "create", "rename", "delete"}, list : Lists \cup {None},
                                submitting : BOOLEAN, field : BOOLEAN, form : BOOLEAN]
            BY DEF WithError, ScreenOK
        <3>2. ScreenOK'
            BY <2>1, <2>4, <3>1 DEF ScreenOK
        <3>3. QED
            BY <2>1, <2>4, <3>2, StoreSame DEF Land, RequestsOK, BoundsOK
    <2>5. flight[i].list \in Lists \cup {None}
        BY <2>2 DEF Request
    <2>6. QED
        BY <1>6, <2>3, <2>4, <2>5, Zenon DEF Answered
<1>7. ASSUME NEW i \in Slots, SignInAgain(i) PROVE IInv'
    <2>1. /\ flight' = [j \in Slots |-> Free] /\ props' = View /\ refresh' = NoRefresh
          /\ nav' = Quiet /\ dialog' = NoDialog /\ UNCHANGED <<store, acts, lost>>
        BY <1>7 DEF SignInAgain
    <2>2. ScreenOK'
        BY <1>0, <2>1, Views DEF ScreenOK
    <2>3. QED
        BY <2>1, <2>2, StoreSame DEF RequestsOK, BoundsOK
<1>8. QED
    BY <1>1, <1>2, <1>3, <1>4, <1>5, <1>6, <1>7, Zenon

-----------------------------------------------------------------------------
(* The dialog and the toast.                                               *)

\* What the dialog waits for is still out, and nothing new is said.
LEMMA HonestStill ==
    ASSUME IInv, HonestOK, removed \subseteq removed',
           dialog' = dialog \/ ~dialog'.submitting,
           nav'.toast \in {nav.toast, None},
           \A j \in Slots :
               /\ flight'[j].kind = flight[j].kind /\ flight'[j].list = flight[j].list
               /\ flight'[j].alive = flight[j].alive /\ flight'[j].mounted = flight[j].mounted
               /\ \/ flight'[j].answer = flight[j].answer
                  \/ flight[j].kind = "delete" /\ flight'[j].answer = "ok" => flight[j].list \in removed'
    PROVE  HonestOK'
<1>1. dialog'.submitting => \E j \in Slots : Own(j)'
    BY DEF HonestOK, SaysWhatIsSo, Own
<1>2. nav'.toast # None => nav'.toast \in removed'
    BY DEF HonestOK, SaysWhatIsSo
<1>3. \A j \in Slots : flight'[j].kind # "free" =>
        /\ flight'[j].alive => flight'[j].mounted
        /\ flight'[j].kind = "delete" /\ flight'[j].answer = "ok" => flight'[j].list \in removed'
    BY DEF HonestOK, Idle
<1>4. QED
    BY <1>1, <1>2, <1>3 DEF HonestOK, SaysWhatIsSo, Idle, Own

\* The steps of the server keep the toast and the dialog honest.
LEMMA ServerHonest ==
    ASSUME IInv, HonestOK, NEW i \in Slots,
           ServeCreate(i) \/ ServeRename(i) \/ ServeDelete(i) \/ SetPositions(i) \/ Fault(i) \/ Refuse(i)
    PROVE  HonestOK'
<1>1. ~Idle(i) /\ RequestsOK
    BY Zenon DEF ServeCreate, ServeRename, ServeDelete, SetPositions, Fault, Refuse, Waiting, Idle, IInv
<1>2. UNCHANGED <<nav, dialog>>
    BY DEF ServeCreate, ServeRename, ServeDelete, SetPositions, Fault, Refuse, ServerOnly, client
<1>3. /\ removed \subseteq removed'
      /\ \E a \in Answers : Reply(i, a) /\ (flight[i].kind = "delete" /\ a = "ok" => flight[i].list \in removed')
    <2>1. CASE ServeDelete(i)
        BY <2>1, ServeDeleteKept, Zenon
    <2>2. CASE ServeCreate(i) \/ ServeRename(i) \/ SetPositions(i)
        <3>1. flight[i].kind # "delete"
            BY <2>2 DEF ServeCreate, ServeRename, SetPositions, Waiting
        <3>2. removed' = removed
            BY <2>2 DEF ServeCreate, ServeRename, SetPositions, Arrange, Inserted, store
        <3>3. \E a \in Answers : Reply(i, a)
            BY <2>2, ServeCreateKept, ServeRenameKept, SetPositionsKept, Zenon
        <3>4. QED
            BY <3>1, <3>2, <3>3, Zenon
    <2>3. CASE Fault(i) \/ Refuse(i)
        <3>1. removed' = removed /\ (Reply(i, "fail") \/ Reply(i, "unauthenticated"))
            BY <2>3 DEF Fault, Refuse, store
        <3>2. QED
            BY <3>1 DEF Answers
    <2>4. QED
        BY <2>1, <2>2, <2>3
<1>4. PICK a \in Answers : Reply(i, a) /\ (flight[i].kind = "delete" /\ a = "ok" => flight[i].list \in removed')
    BY <1>3
<1>5. \A j \in Slots :
          /\ flight'[j].kind = flight[j].kind /\ flight'[j].list = flight[j].list
          /\ flight'[j].alive = flight[j].alive /\ flight'[j].mounted = flight[j].mounted
          /\ flight'[j].answer = IF j = i THEN a ELSE flight[j].answer
    BY <1>1, <1>4, Replied
<1>6. \A j \in Slots : \/ flight'[j].answer = flight[j].answer
                       \/ flight[j].kind = "delete" /\ flight'[j].answer = "ok" => flight[j].list \in removed'
    BY <1>4, <1>5
<1>7. QED
    BY <1>2, <1>3, <1>5, <1>6, HonestStill

\* The check of a move tells the screen nothing yet.
LEMMA CheckMoveHonest ==
    ASSUME IInv, HonestOK, NEW i \in Slots, CheckMove(i)
    PROVE  HonestOK'
<1>1. /\ UNCHANGED <<store, client>>
      /\ \A j \in Slots :
           /\ flight'[j].kind = flight[j].kind /\ flight'[j].list = flight[j].list
           /\ flight'[j].alive = flight[j].alive /\ flight'[j].mounted = flight[j].mounted
           /\ \/ flight'[j].answer = flight[j].answer
              \/ flight[j].answer = "none" /\ flight'[j].answer = "invalid"
    BY CheckMoveKept
<1>2. UNCHANGED <<removed, dialog, nav>>
    BY <1>1 DEF store, client
<1>3. QED
    BY <1>1, <1>2, HonestStill

\* So do those that send and answer nothing,
LEMMA QuietHonest ==
    ASSUME IInv, HonestOK,
           \/ \E l \in Lists : OtherDevice(l) \/ Menu(l)
           \/ Read \/ Render \/ Refresh \/ Drawer \/ ToastExpires
           \/ \E kind \in {"create", "rename", "delete"}, l \in Lists \cup {None} : OpenDialog(kind, l)
    PROVE  HonestOK'
<1>1. flight' = flight /\ removed \subseteq removed'
    <2>1. CASE \E l \in Lists : OtherDevice(l)
        <3>1. PICK l \in Lists : OtherDevice(l)
            BY <2>1
        <3>2. UNCHANGED flight
            BY <3>1, Zenon DEF OtherDevice
        <3>3. QED
            BY <3>1, <3>2, OtherDeviceKept
    <2>2. CASE ~\E l \in Lists : OtherDevice(l)
        BY <2>2, ScreenKept, Zenon
    <2>3. QED
        BY <2>1, <2>2
<1>2. (dialog' = dialog \/ ~dialog'.submitting) /\ nav'.toast \in {nav.toast, None}
    <2>1. CASE UNCHANGED <<dialog, nav>>
        BY <2>1
    <2>2. CASE \E kind \in {"create", "rename", "delete"}, l \in Lists \cup {None} : OpenDialog(kind, l)
        <3>1. PICK kind \in {"create", "rename", "delete"}, l \in Lists \cup {None} : OpenDialog(kind, l)
            BY <2>2
        <3>2. dialog' = [NoDialog EXCEPT !.kind = kind, !.list = l]
            BY <3>1 DEF OpenDialog
        <3>3. nav' = [nav EXCEPT !.menu = IF kind = "create" THEN @ ELSE None,
                                 !.drawer = @ /\ kind # "delete"]
            BY <3>1 DEF OpenDialog
        <3>4. QED
            BY <3>2, <3>3 DEF NoDialog, IInv, ScreenOK
    <2>3. CASE Drawer \/ ToastExpires \/ \E l \in Lists : Menu(l)
        <3>1. dialog' = dialog
            BY <2>3, Zenon DEF Drawer, ToastExpires, Menu, NavOnly
        <3>2. \/ nav' = [nav EXCEPT !.drawer = ~@]
              \/ nav' = [nav EXCEPT !.timers = @ - 1, !.toast = None]
              \/ \E l \in Lists : nav' = [nav EXCEPT !.menu = IF @ = l THEN None ELSE l]
            BY <2>3, Zenon DEF Drawer, ToastExpires, Menu
        <3>3. nav'.toast \in {nav.toast, None}
            BY <3>2 DEF IInv, ScreenOK
        <3>4. QED
            BY <3>1, <3>3
    <2>4. CASE Read \/ Render \/ Refresh \/ \E l \in Lists : OtherDevice(l)
        <3>1. UNCHANGED <<dialog, nav>>
            BY <2>4, Zenon DEF Read, Render, Refresh, OtherDevice, client
        <3>2. QED
            BY <2>1, <3>1
    <2>5. QED
        BY <2>2, <2>3, <2>4, Zenon
<1>3. QED
    BY <1>1, <1>2, HonestStill

\* A request is sent.
LEMMA SentHonest ==
    ASSUME IInv, HonestOK, removed' = removed, nav'.toast = nav.toast,
           NEW i \in Slots, Idle(i), flight'[i].mounted, flight'[i].answer = "none",
           \A j \in Slots : j # i => flight'[j] = flight[j],
           \/ dialog' = dialog
           \/ Own(i)'
    PROVE  HonestOK'
<1>1. dialog'.submitting => \E j \in Slots : Own(j)'
    <2>1. CASE Own(i)'
        BY <2>1
    <2>2. CASE dialog' = dialog /\ dialog.submitting
        <3>1. PICK j \in Slots : Own(j)
            BY <2>2 DEF HonestOK, SaysWhatIsSo, Own
        <3>2. j # i
            BY <3>1 DEF Own, Idle, IInv, ScreenOK
        <3>3. flight'[j] = flight[j]
            BY <3>2
        <3>4. QED
            BY <2>2, <3>1, <3>3 DEF Own
    <2>3. QED
        BY <2>1, <2>2
<1>2. nav'.toast # None => nav'.toast \in removed'
    BY DEF HonestOK, SaysWhatIsSo
<1>3. \A j \in Slots : flight'[j].kind # "free" =>
        /\ flight'[j].alive => flight'[j].mounted
        /\ flight'[j].kind = "delete" /\ flight'[j].answer = "ok" => flight'[j].list \in removed'
    BY DEF HonestOK, Idle
<1>4. QED
    BY <1>1, <1>2, <1>3 DEF HonestOK, SaysWhatIsSo, Idle, Own

\* The dialog waits for nothing, and what was sent has nobody any more, or only a sidebar.
LEMMA LetGoHonest ==
    ASSUME IInv, HonestOK, removed' = removed, nav'.toast \in removed \cup {None}, ~dialog'.submitting,
           \A j \in Slots : \/ flight'[j] = Free
                            \/ flight[j] # Free /\ ~flight'[j].alive /\ flight'[j].kind = flight[j].kind
                               /\ flight'[j].answer = flight[j].answer /\ flight'[j].list = flight[j].list
    PROVE  HonestOK'
<1>1. ASSUME NEW j \in Slots, flight'[j].kind # "free"
      PROVE  /\ flight'[j].alive => flight'[j].mounted
             /\ flight'[j].kind = "delete" /\ flight'[j].answer = "ok" => flight'[j].list \in removed'
    <2>1. flight'[j] # Free
        BY <1>1 DEF Free
    <2>2. /\ flight[j] # Free /\ ~flight'[j].alive /\ flight'[j].kind = flight[j].kind
          /\ flight'[j].answer = flight[j].answer /\ flight'[j].list = flight[j].list
        BY <2>1
    <2>3. QED
        BY <1>1, <2>2 DEF HonestOK, Idle
<1>2. QED
    BY <1>1 DEF HonestOK, SaysWhatIsSo, Idle

\* An answer is taken; it is not the one the dialog waits for, or the dialog waits no more.
LEMMA LandedHonest ==
    ASSUME IInv, HonestOK, removed' = removed, nav'.toast = nav.toast,
           NEW i \in Slots, flight' = [flight EXCEPT ![i] = Free],
           \/ dialog' = dialog /\ ~Own(i)
           \/ ~dialog'.submitting
    PROVE  HonestOK'
<1>1. \A j \in Slots : flight'[j] = IF j = i THEN Free ELSE flight[j]
    BY DEF IInv, RequestsOK
<1>2. dialog'.submitting => \E j \in Slots : Own(j)'
    <2>1. CASE dialog' = dialog /\ ~Own(i) /\ dialog.submitting
        <3>1. PICK j \in Slots : Own(j)
            BY <2>1 DEF HonestOK, SaysWhatIsSo, Own
        <3>2. flight'[j] = flight[j]
            BY <1>1, <2>1, <3>1
        <3>3. QED
            BY <2>1, <3>1, <3>2 DEF Own
    <2>2. QED
        BY <2>1
<1>3. nav'.toast # None => nav'.toast \in removed'
    BY DEF HonestOK, SaysWhatIsSo
<1>4. \A j \in Slots : flight'[j].kind # "free" =>
        /\ flight'[j].alive => flight'[j].mounted
        /\ flight'[j].kind = "delete" /\ flight'[j].answer = "ok" => flight'[j].list \in removed'
    BY <1>1 DEF HonestOK, Idle, Free
<1>5. QED
    BY <1>2, <1>3, <1>4 DEF HonestOK, SaysWhatIsSo, Idle, Own

\* and those that do.
LEMMA TrafficHonest ==
    ASSUME IInv, HonestOK, Navigate \/ CloseDialog \/ Submit \/ (\E l \in Lists : Move(l))
                           \/ (\E i \in Slots : Moved(i) \/ Answered(i) \/ SignInAgain(i))
    PROVE  HonestOK'
<1> USE DEF ClientOnly, store
<1>0. RequestsOK /\ BoundsOK /\ ~NoDialog.submitting /\ Quiet.toast = None
    BY DEF IInv, NoDialog, Quiet
<1>1. CASE Navigate
    <2>1. dialog.kind = "none" /\ dialog' = dialog /\ removed' = removed /\ nav' = Quiet /\ flight' = Adrift
        BY <1>1 DEF Navigate, Reachable
    <2>2. ~dialog.submitting
        <3>1. \A j \in Slots : flight[j].kind # "none"
            <4> TAKE j \in Slots
            <4>1. flight[j] \in Request \/ flight[j] = Free
                BY <1>0 DEF RequestsOK
            <4>2. CASE flight[j] \in Request
                BY <4>2 DEF Request, Kinds
            <4>3. CASE flight[j] = Free
                BY <4>3 DEF Free
            <4>4. QED
                BY <4>1, <4>2, <4>3
        <3>2. QED
            BY <2>1, <3>1 DEF HonestOK, SaysWhatIsSo
    <2>3. QED
        BY <1>0, <2>1, <2>2, LeftBehind, LetGoHonest
<1>2. CASE CloseDialog
    <2>1. dialog' = NoDialog /\ removed' = removed /\ flight' = Orphaned
        BY <1>2 DEF CloseDialog
    <2>2. nav'.toast = nav.toast
        BY <1>2 DEF CloseDialog, IInv, ScreenOK
    <2>3. nav'.toast \in removed \cup {None}
        BY <2>2 DEF HonestOK, SaysWhatIsSo
    <2>4. QED
        BY <1>0, <2>1, <2>3, LeftBehind, LetGoHonest
<1>3. CASE Submit
    <2>1. dialog' = [dialog EXCEPT !.submitting = TRUE, !.field = FALSE, !.form = FALSE]
          /\ nav' = nav /\ dialog.kind # "none"
        BY <1>3, Zenon DEF Submit
    <2>2. PICK text \in Names \cup {""} : Send(dialog.kind, dialog.list, text, <<>>)
        BY <1>3, Zenon DEF Submit
    <2>3. dialog.kind \in Kinds /\ dialog.list \in Lists \cup {None} /\ <<>> \in Seq(Lists)
        BY <2>1, EmptySeq DEF IInv, ScreenOK, Kinds
    <2>4. PICK i \in Slots : SentAt(i, dialog.kind, dialog.list)
        BY <1>0, <2>2, <2>3, Sent, Zenon
    <2>5. removed' = removed
        BY <2>2, Zenon DEF Send
    <2>6. dialog'.kind = dialog.kind /\ dialog'.list = dialog.list
        BY <2>1 DEF IInv, ScreenOK
    <2>7. Own(i)'
        BY <2>4, <2>6 DEF Own, SentAt
    <2>8. QED
        BY <2>1, <2>4, <2>5, <2>7, SentHonest DEF SentAt
<1>4. ASSUME NEW l \in Lists, Move(l) PROVE HonestOK'
    <2>1. PICK vector \in Moves(l) : Send("move", None, "", vector)
        BY <1>4, Zenon DEF Move
    <2>2. nav' = [nav EXCEPT !.menu = None, !.error = FALSE] /\ dialog' = dialog
        BY <1>4, Zenon DEF Move
    <2>3. vector \in Seq(Lists) /\ "move" \in Kinds /\ None \in Lists \cup {None} /\ "" \in Names \cup {""}
        BY MovesAreVectors DEF Kinds, IInv
    <2>4. PICK i \in Slots : SentAt(i, "move", None)
        BY <1>0, <2>1, <2>3, Sent, Zenon
    <2>5. removed' = removed
        BY <2>1, Zenon DEF Send
    <2>6. nav'.toast = nav.toast
        BY <2>2 DEF IInv, ScreenOK
    <2>7. QED
        BY <2>2, <2>4, <2>5, <2>6, SentHonest DEF SentAt
<1>5. ASSUME NEW i \in Slots, Moved(i) PROVE HonestOK'
    <2>1. removed' = removed /\ dialog' = dialog /\ flight' = [flight EXCEPT ![i] = Free]
        BY <1>5 DEF Moved, Land
    <2>2. nav' = nav \/ nav' = [nav EXCEPT !.error = @ \/ flight[i].mounted]
        BY <1>5, Zenon DEF Moved
    <2>3. nav'.toast = nav.toast
        BY <2>2 DEF IInv, ScreenOK
    <2>4. ~Own(i)
        BY <1>5 DEF Moved, Own, IInv, ScreenOK
    <2>5. QED
        BY <2>1, <2>3, <2>4, LandedHonest
<1>6. ASSUME NEW i \in Slots, Answered(i) PROVE HonestOK'
    <2>1. removed' = removed /\ ~Idle(i)
        BY <1>6 DEF Answered, Idle
    <2>2. CASE \E toast \in (removed \cup {None}) : AfterMutation(i, toast)
        <3>1. PICK toast \in removed \cup {None} : AfterMutation(i, toast)
            BY <2>2
        <3>2. CASE flight[i].mounted
            <4>1. /\ dialog' = NoDialog
                  /\ nav' = [nav EXCEPT !.menu = None, !.toast = IF toast = None THEN @ ELSE toast,
                                        !.timers = IF toast = None THEN @ ELSE @ + 1]
                  /\ flight' = [Orphaned EXCEPT ![i] = Free]
                BY <3>1, <3>2, Zenon DEF AfterMutation
            <4>2. nav'.toast = IF toast = None THEN nav.toast ELSE toast
                BY <4>1 DEF IInv, ScreenOK
            <4>3. nav'.toast \in removed \cup {None}
                BY <4>2 DEF HonestOK, SaysWhatIsSo
            <4>4. \A j \in Slots : flight'[j] = IF j = i THEN Free ELSE Orphaned[j]
                BY <1>0, <4>1, LeftBehind
            <4>5. QED
                BY <1>0, <2>1, <4>1, <4>3, <4>4, LeftBehind, LetGoHonest
        <3>3. CASE ~flight[i].mounted
            <4>1. UNCHANGED <<dialog, nav>> /\ flight' = [flight EXCEPT ![i] = Free]
                BY <3>1, <3>3, Zenon DEF AfterMutation, Land
            <4>2. ~Own(i)
                BY <2>1, <3>3 DEF Own, HonestOK
            <4>3. QED
                BY <2>1, <4>1, <4>2, LandedHonest
        <3>4. QED
            BY <3>2, <3>3
    <2>3. CASE Land(i) /\ dialog' = (IF flight[i].alive THEN WithError(i) ELSE dialog) /\ UNCHANGED <<nav, refresh>>
        <3>1. CASE flight[i].alive
            <4>1. ~dialog'.submitting
                BY <2>3, <3>1 DEF WithError, IInv, ScreenOK
            <4>2. QED
                BY <2>1, <2>3, <4>1, LandedHonest DEF Land
        <3>2. CASE ~flight[i].alive
            BY <2>1, <2>3, <3>2, LandedHonest DEF Land, Own
        <3>3. QED
            BY <3>1, <3>2
    <2>4. flight[i].kind = "delete" /\ flight[i].answer = "ok" => flight[i].list \in removed
        BY <2>1 DEF HonestOK
    <2>5. QED
        BY <1>6, <2>2, <2>3, <2>4, Zenon DEF Answered
<1>7. ASSUME NEW i \in Slots, SignInAgain(i) PROVE HonestOK'
    <2>1. flight' = [j \in Slots |-> Free] /\ nav' = Quiet /\ dialog' = NoDialog /\ removed' = removed
        BY <1>7 DEF SignInAgain
    <2>2. QED
        BY <1>0, <2>1, LetGoHonest
<1>8. QED
    BY <1>1, <1>2, <1>3, <1>4, <1>5, <1>6, <1>7, Zenon

-----------------------------------------------------------------------------
(* What is shown.                                                          *)

\* What is stored and shown is what it was, and what is on its way still is.
LEMMA CoveredStill ==
    ASSUME Covered, UNCHANGED <<order, name, props>>, behind => behind',
           refresh.asked => refresh'.asked,
           refresh'.reading = refresh.reading, refresh'.view = refresh.view,
           \A j \in Slots : flight[j].answer = "ok" =>
               flight'[j].answer = "ok" \/ behind' \/ refresh'.asked
    PROVE  Covered'
<1>1. CASE behind \/ refresh.asked
    BY <1>1 DEF Covered
<1>2. CASE \E j \in Slots : flight[j].answer = "ok"
    BY <1>2 DEF Covered
<1>3. CASE refresh.reading /\ Current(refresh.view)
    BY <1>3 DEF Covered, Current
<1>4. CASE ~refresh.reading /\ Current(props)
    BY <1>4 DEF Covered, Current
<1>5. QED
    BY <1>1, <1>2, <1>3, <1>4 DEF Covered

\* A slot that is free, or waits for the server, has no answer to take.
LEMMA NoAnswerYet ==
    ASSUME RequestsOK, NEW i \in Slots, Idle(i)
    PROVE  flight[i].answer # "ok"
<1>1. flight[i] \notin Request
    BY DEF Idle, Request, Kinds
<1>2. QED
    BY <1>1 DEF RequestsOK, Free

\* The server changes what is stored only with an answer that will ask for a refresh.
LEMMA ServerCovered ==
    ASSUME IInv, Covered, NEW i \in Slots,
           ServeCreate(i) \/ ServeRename(i) \/ ServeDelete(i) \/ SetPositions(i) \/ Fault(i) \/ Refuse(i)
    PROVE  Covered'
<1>1. ~Idle(i) /\ RequestsOK
    BY Zenon DEF ServeCreate, ServeRename, ServeDelete, SetPositions, Fault, Refuse, Waiting, Idle, IInv
<1>2. UNCHANGED client
    BY DEF ServeCreate, ServeRename, ServeDelete, SetPositions, Fault, Refuse, ServerOnly
<1>3. CASE Reply(i, "ok")
    <2>1. flight'[i].answer = "ok"
        BY <1>1, <1>3, Replied DEF Answers
    <2>2. QED
        BY <2>1 DEF Covered
<1>4. CASE \E a \in {"invalid", "gone", "fail", "unauthenticated"} : Reply(i, a) /\ UNCHANGED <<order, name>>
    <2>1. PICK a \in Answers : Reply(i, a) /\ UNCHANGED <<order, name>>
        BY <1>4 DEF Answers
    <2>2. \A j \in Slots : flight'[j].answer = IF j = i THEN a ELSE flight[j].answer
        BY <1>1, <2>1, Replied
    <2>3. (behind => behind') /\ (flight[i].answer = "ok" => behind')
        <3>1. CASE Fault(i)
            BY <3>1, Zenon DEF Fault
        <3>4. CASE Refuse(i)
            BY <3>4 DEF Refuse
        <3>2. CASE ServeCreate(i) \/ ServeRename(i) \/ ServeDelete(i) \/ SetPositions(i)
            <4>1. flight[i].answer = "none" /\ behind' = behind
                BY <3>2, Zenon DEF ServeCreate, ServeRename, ServeDelete, SetPositions, ServerOnly, Waiting
            <4>2. QED
                BY <4>1
        <3>3. QED
            BY <3>1, <3>2, <3>4
    <2>4. QED
        BY <1>2, <2>1, <2>2, <2>3, CoveredStill DEF client
<1>5. Reply(i, "ok") \/ \E a \in {"invalid", "gone", "fail", "unauthenticated"} : Reply(i, a) /\ UNCHANGED <<order, name>>
    <2>1. CASE ServeCreate(i)
        BY <2>1 DEF ServeCreate, store
    <2>2. CASE ServeRename(i)
        BY <2>2 DEF ServeRename
    <2>3. CASE ServeDelete(i)
        BY <2>3 DEF ServeDelete, store
    <2>4. CASE SetPositions(i)
        BY <2>4 DEF SetPositions
    <2>5. CASE Fault(i) \/ Refuse(i)
        BY <2>5 DEF Fault, Refuse, store
    <2>6. QED
        BY <2>1, <2>2, <2>3, <2>4, <2>5
<1>6. QED
    BY <1>3, <1>4, <1>5

\* Nothing has happened when a move is checked.
LEMMA CheckMoveCovered ==
    ASSUME IInv, Covered, NEW i \in Slots, CheckMove(i)
    PROVE  Covered'
<1>1. /\ UNCHANGED <<store, client, behind>>
      /\ \A j \in Slots :
             \/ flight'[j].answer = flight[j].answer
             \/ flight[j].answer = "none" /\ flight'[j].answer = "invalid"
    BY CheckMoveKept
<1>2. UNCHANGED <<order, name, props, refresh, behind>>
    BY <1>1 DEF store, client
<1>3. QED
    BY <1>1, <1>2, CoveredStill

\* A read sees what is stored, and a render shows what was read.
LEMMA RenderCovered ==
    ASSUME IInv, Covered,
           Read \/ Render \/ Navigate \/ (\E i \in Slots : SignInAgain(i)) \/ (\E l \in Lists : OtherDevice(l))
    PROVE  Covered'
<1> USE DEF ClientOnly, store
<1>1. CASE Read
    <2>1. UNCHANGED <<order, name>>
        BY <1>1 DEF Read
    <2>2. PICK view \in {View, Failure} : refresh' = [asked |-> FALSE, reading |-> TRUE, view |-> view]
        BY <1>1 DEF Read
    <2>3. Current(refresh.view)' /\ refresh'.reading
        BY <2>1, <2>2 DEF Current, View, Failure
    <2>4. QED
        BY <2>3 DEF Covered, Current
<1>2. CASE Render
    <2>1. UNCHANGED <<order, name, flight, behind>> /\ props' = refresh.view /\ refresh.reading
        BY <1>2 DEF Render
    <2>2. refresh' = [refresh EXCEPT !.reading = FALSE, !.view = Failure]
        BY <1>2 DEF Render
    <2>3. ~refresh'.reading /\ (refresh.asked => refresh'.asked)
        BY <2>2 DEF IInv, ScreenOK
    <2>4. CASE Current(refresh.view)
        <3>1. Current(props)'
            BY <2>1, <2>4 DEF Current
        <3>2. QED
            BY <2>3, <3>1 DEF Covered
    <2>5. CASE behind \/ refresh.asked \/ \E i \in Slots : flight[i].answer = "ok"
        BY <2>1, <2>3, <2>5 DEF Covered
    <2>6. QED
        BY <2>1, <2>4, <2>5 DEF Covered
<1>3. CASE Navigate \/ \E i \in Slots : SignInAgain(i)
    <2>1. UNCHANGED <<order, name>> /\ refresh' = NoRefresh /\ (props' = View \/ props' = Failure)
        BY <1>3 DEF Navigate, SignInAgain
    <2>2. ~refresh'.reading
        BY <2>1 DEF NoRefresh
    <2>3. Current(props)'
        BY <2>1 DEF Current, View, Failure
    <2>4. QED
        BY <2>2, <2>3 DEF Covered
<1>4. CASE \E l \in Lists : OtherDevice(l)
    BY <1>4, Zenon DEF OtherDevice, Covered
<1>5. QED
    BY <1>1, <1>2, <1>3, <1>4

\* Nothing else the document does forgets what is on its way.
LEMMA ScreenCovered ==
    ASSUME IInv, Covered,
           \/ Refresh \/ Drawer \/ ToastExpires \/ CloseDialog \/ Submit
           \/ \E l \in Lists : Menu(l) \/ Move(l)
           \/ \E kind \in {"create", "rename", "delete"}, l \in Lists \cup {None} : OpenDialog(kind, l)
           \/ \E i \in Slots : Moved(i) \/ Answered(i)
    PROVE  Covered'
<1> USE DEF ClientOnly, store, NavOnly
<1>0. RequestsOK
    BY DEF IInv
<1>00. refresh' = refresh \/ refresh' = [refresh EXCEPT !.asked = TRUE] =>
           /\ refresh.asked => refresh'.asked
           /\ refresh'.reading = refresh.reading /\ refresh'.view = refresh.view
    BY DEF IInv, ScreenOK
<1>1. CASE Refresh
    <2>1. UNCHANGED <<order, name, props, flight, behind>> /\ refresh' = [refresh EXCEPT !.asked = TRUE]
        BY <1>1 DEF Refresh, AskRefresh
    <2>2. QED
        BY <2>1, <1>00, CoveredStill
<1>2. CASE Drawer \/ ToastExpires \/ (\E l \in Lists : Menu(l))
           \/ \E kind \in {"create", "rename", "delete"}, l \in Lists \cup {None} : OpenDialog(kind, l)
    <2>1. UNCHANGED <<order, name, props, refresh, flight, behind>>
        BY <1>2 DEF Drawer, ToastExpires, Menu, OpenDialog
    <2>2. QED
        BY <2>1, <1>00, CoveredStill
<1>3. CASE CloseDialog
    <2>1. UNCHANGED <<order, name, props, refresh, behind>> /\ flight' = Orphaned
        BY <1>3 DEF CloseDialog
    <2>2. \A j \in Slots : flight[j].answer = "ok" => flight'[j].answer = "ok"
        BY <1>0, <2>1, LeftBehind DEF Free
    <2>3. QED
        BY <2>1, <2>2, <1>00, CoveredStill
<1>4. CASE Submit \/ \E l \in Lists : Move(l)
    <2>1. UNCHANGED <<props, refresh>>
        BY <1>4, Zenon DEF Submit, Move
    <2>2. PICK kind, l, text, vector : Send(kind, l, text, vector)
        BY <1>4, Zenon DEF Submit, Move
    <2>3. UNCHANGED <<order, name, behind>>
        BY <2>2, Zenon DEF Send
    <2>4. PICK i \in Slots : Idle(i) /\ \A j \in Slots : j # i => flight'[j] = flight[j]
        <3>1. PICK i \in Slots : Idle(i) /\ \E r : flight' = [flight EXCEPT ![i] = r]
            BY <2>2, Zenon DEF Send
        <3>2. QED
            BY <1>0, <3>1 DEF RequestsOK
    <2>5. \A j \in Slots : flight[j].answer = "ok" => flight'[j].answer = "ok"
        BY <1>0, <2>4, NoAnswerYet
    <2>6. QED
        BY <2>1, <2>3, <2>5, <1>00, CoveredStill
<1>5. ASSUME NEW i \in Slots, Moved(i) PROVE Covered'
    <2>1. UNCHANGED <<order, name, props, behind>> /\ flight' = [flight EXCEPT ![i] = Free]
        BY <1>5 DEF Moved, Land
    <2>2. \A j \in Slots : j # i => flight'[j] = flight[j]
        BY <1>0, <2>1 DEF RequestsOK
    <2>3. IF flight[i].answer = "ok" THEN refresh' = [refresh EXCEPT !.asked = TRUE] ELSE refresh' = refresh
        BY <1>5, Zenon DEF Moved, AskRefresh
    <2>4. flight[i].answer = "ok" => refresh'.asked
        BY <2>3 DEF IInv, ScreenOK
    <2>5. QED
        BY <2>1, <2>2, <2>3, <2>4, <1>00, CoveredStill
<1>6. ASSUME NEW i \in Slots, Answered(i) PROVE Covered'
    <2>1. UNCHANGED <<order, name, props, behind>>
        BY <1>6 DEF Answered
    <2>2. CASE \E toast : AfterMutation(i, toast)
        <3>1. refresh' = [refresh EXCEPT !.asked = TRUE]
            BY <2>2, Zenon DEF AfterMutation, AskRefresh
        <3>2. refresh'.asked
            BY <3>1 DEF IInv, ScreenOK
        <3>3. QED
            BY <3>2 DEF Covered
    <2>3. CASE Land(i) /\ flight[i].answer # "ok" /\ refresh' = refresh
        <3>1. \A j \in Slots : j # i => flight'[j] = flight[j]
            BY <1>0, <2>3 DEF Land, RequestsOK
        <3>2. QED
            BY <2>1, <2>3, <3>1, <1>00, CoveredStill
    <2>4. QED
        BY <1>6, <2>2, <2>3, Zenon DEF Answered
<1>7. QED
    BY <1>1, <1>2, <1>3, <1>4, <1>5, <1>6, Zenon

-----------------------------------------------------------------------------
(* The move that was stored last.                                          *)

\* A list put behind the others is read behind them.
LEMMA InsertedSorted ==
    ASSUME StoreOK, ArrangedOK, NEW l \in Lists \ made, NEW text, Inserted(l, text)
    PROVE  ArrangedOK'
<1> DEFINE n == Len(order)
<1>1. /\ order \in Seq(Lists) /\ n \in Nat /\ DOMAIN order = 1..n /\ position \in [Lists -> Nat]
      /\ \A k \in 1..n : order[k] \in Lists /\ order[k] \in ToSet(order)
    <2>1. order \in Seq(Lists) /\ position \in [Lists -> Nat]
        BY DEF StoreOK
    <2>2. n \in Nat /\ DOMAIN order = 1..n
        BY <2>1, LenProperties
    <2>3. \A k \in 1..n : order[k] \in Lists
        BY <2>1, ElementOfSeq
    <2>4. QED
        BY <2>1, <2>2, <2>3 DEF ToSet
<1>2. l \notin ToSet(order) /\ order # <<>> /\ l \notin arranged.owned
    <2>1. l \notin ToSet(order) /\ l \notin arranged.owned /\ Inbox \in ToSet(order)
        BY DEF StoreOK, RowsKept, ArrangedOK
    <2>2. order # <<>>
        BY <2>1 DEF ToSet
    <2>3. QED
        BY <2>1, <2>2
<1>3. n \in DOMAIN order /\ Last(order) = order[n]
    BY <1>1, <1>2, LastOne
<1>4. order' = Append(order, l) /\ position' = [position EXCEPT ![l] = position[order[n]] + 1]
      /\ made' = made \cup {l} /\ arranged' = arranged
    BY <1>2, <1>3 DEF Inserted
<1>5. /\ DOMAIN order' = 1..(n + 1) /\ order'[n + 1] = l
      /\ \A k \in 1..n : order'[k] = order[k]
    BY <1>1, <1>4, AppendProperties, LenProperties
<1>6. \A m \in Lists : m # l => position'[m] = position[m]
    BY <1>1, <1>4
<1>7. \A k \in 1..n : order[k] # l /\ position'[order[k]] = position[order[k]]
    BY <1>1, <1>2, <1>6
<1>8. position'[l] = position[order[n]] + 1
    BY <1>1, <1>4
<1>9. ASSUME NEW j \in DOMAIN order', NEW k \in DOMAIN order', j < k
      PROVE  Before(position', order'[j], order'[k])
    <2>1. j \in 1..n
        BY <1>5, <1>9
    <2>2. CASE k \in 1..n
        BY <1>1, <1>5, <1>7, <2>1, <2>2, <1>9 DEF ArrangedOK, Before
    <2>3. CASE k = n + 1
        <3>1. position[order[j]] <= position[order[n]]
            <4>1. CASE j = n
                BY <1>1, <2>1, <4>1
            <4>2. CASE j < n
                BY <1>1, <1>3, <2>1, <4>2 DEF ArrangedOK, Before
            <4>3. QED
                BY <1>1, <2>1, <4>1, <4>2
        <3>2. position[order[j]] \in Nat /\ position[order[n]] \in Nat
            BY <1>1, <1>3, <2>1
        <3>3. position'[order[j]] < position'[l]
            BY <1>7, <1>8, <2>1, <3>1, <3>2
        <3>4. QED
            BY <1>5, <2>1, <2>3, <3>3 DEF Before
    <2>4. QED
        BY <1>1, <1>5, <2>2, <2>3
<1>10. ASSUME NEW m \in arranged'.owned \cap ToSet(order')
       PROVE  m \in ToSet(arranged'.vector) /\ position'[m] = PlaceIn(arranged'.vector, m) - 1
    <2>1. m # l
        BY <1>2, <1>4
    <2>2. m \in ToSet(order)
        <3>1. PICK k \in 1..(n + 1) : m = order'[k]
            BY <1>5 DEF ToSet
        <3>2. k \in 1..n
            BY <1>1, <1>5, <2>1, <3>1
        <3>3. QED
            BY <1>1, <1>5, <3>1, <3>2
    <2>3. m \in Lists
        BY <2>2 DEF StoreOK, RowsKept
    <2>4. QED
        BY <1>4, <1>6, <2>1, <2>2, <2>3 DEF ArrangedOK
<1>11. QED
    BY <1>4, <1>9, <1>10 DEF ArrangedOK

\* A list that goes leaves the others in their places.
LEMMA DeletedSorted ==
    ASSUME StoreOK, ArrangedOK, NEW l \in Lists, Stored(l), Deleted(l)
    PROVE  ArrangedOK'
<1>1. order' = Without(l) /\ position' = [position EXCEPT ![l] = 0] /\ made' = made /\ arranged' = arranged
    BY DEF Deleted
<1>2. /\ ToSet(order') = ToSet(order) \ {l}
      /\ \A a, b \in DOMAIN order' :
             a < b => \E c, d \in DOMAIN order : c < d /\ order'[a] = order[c] /\ order'[b] = order[d]
    BY <1>1, WithoutOne
<1>3. \A m \in ToSet(order') : position'[m] = position[m]
    BY <1>1, <1>2 DEF StoreOK, RowsKept
<1>4. ASSUME NEW j \in DOMAIN order', NEW k \in DOMAIN order', j < k
      PROVE  Before(position', order'[j], order'[k])
    <2>1. PICK c \in DOMAIN order, d \in DOMAIN order : c < d /\ order'[j] = order[c] /\ order'[k] = order[d]
        BY <1>2, <1>4
    <2>2. Before(position, order[c], order[d])
        BY <2>1 DEF ArrangedOK
    <2>3. order'[j] \in ToSet(order') /\ order'[k] \in ToSet(order')
        BY DEF ToSet
    <2>4. QED
        BY <1>3, <2>1, <2>2, <2>3 DEF Before
<1>5. QED
    BY <1>1, <1>2, <1>3, <1>4 DEF ArrangedOK

\* A move puts the lists its check read at the places of its vector.
LEMMA ArrangedSorted ==
    ASSUME StoreOK, NEW vector \in Seq(Lists), NEW owned \in SUBSET (made \cap ToSet(vector)),
           Arrange(vector, owned)
    PROVE  ArrangedOK'
<1>1. /\ position' = Renumbered(vector) /\ order' \in Sorted(Renumbered(vector))
      /\ arranged' = [vector |-> vector, owned |-> owned] /\ made' = made
    BY DEF Arrange
<1>2. ToSet(order') = ToSet(order) /\ \A j, k \in DOMAIN order' : j < k => Before(position', order'[j], order'[k])
    BY <1>1 DEF Sorted
<1>3. \A l \in owned \cap ToSet(order) : l \in ToSet(vector) /\ position'[l] = PlaceIn(vector, l) - 1
    BY <1>1 DEF Renumbered, StoreOK, RowsKept
<1>4. QED
    BY <1>1, <1>2, <1>3 DEF ArrangedOK

\* What has been checked stays so: lists do not stop having been made.
LEMMA ClaimsStill ==
    ASSUME ClaimsOK, made \subseteq made',
           \A j \in Slots : \/ flight'[j].kind = "free" \/ flight'[j].owned = {}
                            \/ /\ flight[j].kind # "free"
                               /\ flight'[j].owned = flight[j].owned /\ flight'[j].vector = flight[j].vector
    PROVE  ClaimsOK'
BY DEF ClaimsOK, Idle

\* What was stored at the start is in the order it is read in.
LEMMA MovesAtFirst == Init => MoveOK
<1> SUFFICES ASSUME Init PROVE MoveOK
    OBVIOUS
<1>1. order \in Seq(Lists) /\ IsInjective(order) /\ ToSet(order) = Stocked
    BY StoredAtFirst DEF Init, Arrangements, StoreOK
<1>2. \A k \in DOMAIN order : PlaceIn(order, order[k]) = k /\ order[k] \in Stocked
    <2> TAKE k \in DOMAIN order
    <2>1. order[k] \in ToSet(order)
        BY DEF ToSet
    <2>2. PlaceIn(order, order[k]) \in DOMAIN order /\ order[PlaceIn(order, order[k])] = order[k]
        BY <1>1, <2>1, Placed
    <2>3. QED
        BY <1>1, <2>1, <2>2 DEF IsInjective
<1>3. \A l \in Stocked : l \in Lists /\ position[l] = PlaceIn(order, l) - 1
    BY ListsAssumption DEF Init
<1>4. \A k \in DOMAIN order : position[order[k]] = k - 1 /\ k \in Nat
    BY <1>1, <1>2, <1>3, LenProperties
<1>5. \A j, k \in DOMAIN order : j < k => Before(position, order[j], order[k])
    BY <1>4 DEF Before
<1>6. arranged.vector = order /\ arranged.owned = Stocked /\ made = Stocked
    BY DEF Init
<1>7. ClaimsOK
    BY DEF Init, ClaimsOK, Idle, Free
<1>8. QED
    BY <1>1, <1>3, <1>5, <1>6, <1>7 DEF MoveOK, ArrangedOK

\* The server keeps the order that was asked for.
LEMMA ServerArranged ==
    ASSUME IInv, MoveOK, NEW i \in Slots,
           ServeCreate(i) \/ ServeRename(i) \/ ServeDelete(i) \/ SetPositions(i) \/ Fault(i) \/ Refuse(i)
    PROVE  MoveOK'
<1>1. ~Idle(i) /\ flight[i] \in Request /\ StoreOK /\ ArrangedOK /\ ClaimsOK
    BY Underway, Zenon DEF ServeCreate, ServeRename, ServeDelete, SetPositions, Fault, Refuse, Waiting, Idle, IInv, MoveOK
<1>2. ASSUME UNCHANGED <<order, position, made, arranged>> PROVE ArrangedOK' /\ made \subseteq made'
    BY <1>1, <1>2 DEF ArrangedOK, Before
<1>3. ArrangedOK' /\ made \subseteq made'
    <2>1. CASE ServeCreate(i)
        <3>1. CASE UNCHANGED store
            BY <1>2, <3>1 DEF store
        <3>2. CASE \E l \in Lists \ made : Inserted(l, flight[i].text)
            BY <1>1, <3>2, InsertedSorted DEF Inserted
        <3>3. QED
            BY <2>1, <3>1, <3>2, Zenon DEF ServeCreate
    <2>2. CASE ServeRename(i)
        BY <1>2, <2>2 DEF ServeRename
    <2>3. CASE ServeDelete(i)
        <3>1. CASE UNCHANGED store
            BY <1>2, <3>1 DEF store
        <3>2. CASE Stored(flight[i].list) /\ Deleted(flight[i].list)
            <4>1. flight[i].list \in Lists
                BY <1>1, <3>2 DEF Stored, StoreOK, RowsKept
            <4>2. QED
                BY <1>1, <3>2, <4>1, DeletedSorted DEF Deleted
        <3>3. QED
            BY <2>3, <3>1, <3>2, Zenon DEF ServeDelete
    <2>4. CASE SetPositions(i)
        <3>1. flight[i].vector \in Seq(Lists) /\ Arrange(flight[i].vector, flight[i].owned)
            BY <2>4, SetPositionsKept
        <3>2. flight[i].owned \in SUBSET (made \cap ToSet(flight[i].vector))
            BY <1>1 DEF ClaimsOK
        <3>3. QED
            BY <1>1, <3>1, <3>2, ArrangedSorted DEF Arrange
    <2>5. CASE Fault(i) \/ Refuse(i)
        BY <1>2, <2>5 DEF Fault, Refuse, store
    <2>6. QED
        BY <2>1, <2>2, <2>3, <2>4, <2>5
<1>4. PICK a \in Answers : Reply(i, a)
    <2>1. CASE ServeCreate(i) \/ ServeRename(i) \/ ServeDelete(i)
        BY <2>1, ServeCreateKept, ServeRenameKept, ServeDeleteKept, Zenon
    <2>2. CASE SetPositions(i)
        BY <2>2, SetPositionsKept, Zenon
    <2>3. CASE Fault(i) \/ Refuse(i)
        BY <2>3 DEF Fault, Refuse, Answers
    <2>4. QED
        BY <2>1, <2>2, <2>3
<1>5. \A j \in Slots : /\ flight'[j].kind = flight[j].kind
                        /\ flight'[j].owned = flight[j].owned /\ flight'[j].vector = flight[j].vector
    BY <1>1, <1>4, Replied DEF IInv
<1>6. ClaimsOK'
    BY <1>1, <1>3, <1>5, ClaimsStill
<1>7. QED
    BY <1>3, <1>6 DEF MoveOK

\* A check remembers only lists that are there and in the vector.
LEMMA CheckMoveArranged ==
    ASSUME IInv, MoveOK, NEW i \in Slots, CheckMove(i)
    PROVE  MoveOK'
<1>1. /\ UNCHANGED store
      /\ \A j \in Slots :
           /\ flight'[j].kind = flight[j].kind /\ flight'[j].vector = flight[j].vector
           /\ \/ flight'[j].owned = flight[j].owned
              \/ flight'[j].owned = ToSet(order) /\ ToSet(order) = ToSet(flight[j].vector)
    BY CheckMoveKept
<1>2. ToSet(order) \subseteq made
    BY DEF IInv, StoreOK, RowsKept
<1>3. ClaimsOK'
    BY <1>1, <1>2 DEF store, MoveOK, ClaimsOK, Idle
<1>4. ArrangedOK'
    BY <1>1 DEF store, MoveOK, ArrangedOK
<1>5. QED
    BY <1>3, <1>4 DEF MoveOK

\* Another device's changes too.
LEMMA OtherDeviceArranged ==
    ASSUME IInv, MoveOK, NEW l \in Lists, OtherDevice(l)
    PROVE  MoveOK'
<1>1. StoreOK /\ ArrangedOK /\ ClaimsOK /\ flight' = flight
    BY Zenon DEF IInv, MoveOK, OtherDevice
<1>2. ArrangedOK' /\ made \subseteq made'
    <2>1. CASE l \notin made /\ Newest(l) /\ Inserted(l, Plain)
        BY <1>1, <2>1, InsertedSorted DEF Inserted
    <2>2. CASE \E text \in Names \ {"", name[l]} :
                 Stored(l) /\ name' = [name EXCEPT ![l] = text] /\ UNCHANGED <<order, position, made, removed, arranged>>
        <3>1. UNCHANGED <<order, position, made, arranged>>
            BY <2>2
        <3>2. QED
            BY <1>1, <3>1 DEF ArrangedOK, Before
    <2>3. CASE Stored(l) /\ l # Inbox /\ Deleted(l)
        BY <1>1, <2>3, DeletedSorted DEF Deleted
    <2>4. CASE Stored(l) /\ Arrange(<<l>> \o Without(l), ToSet(order))
        <3>1. PICK vector \in Seq(Lists) : vector = <<l>> \o Without(l) /\ ToSet(vector) = ToSet(order)
            BY <1>1, <2>4, FrontVector
        <3>2. ToSet(order) \in SUBSET (made \cap ToSet(vector)) /\ Arrange(vector, ToSet(order))
            BY <1>1, <2>4, <3>1 DEF StoreOK, RowsKept
        <3>3. QED
            BY <1>1, <3>2, ArrangedSorted DEF Arrange
    <2>5. QED
        BY <2>1, <2>2, <2>3, <2>4, Zenon DEF OtherDevice
<1>3. ClaimsOK'
    BY <1>1, <1>2 DEF ClaimsOK, Idle
<1>4. QED
    BY <1>2, <1>3 DEF MoveOK

\* The document stores nothing, and forgets what was checked or leaves it.
LEMMA DocumentArranged ==
    ASSUME IInv, MoveOK,
           \/ Read \/ Render \/ Refresh \/ Drawer \/ ToastExpires \/ (\E l \in Lists : Menu(l))
           \/ \E kind \in {"create", "rename", "delete"}, l \in Lists \cup {None} : OpenDialog(kind, l)
           \/ Navigate \/ CloseDialog \/ Submit \/ (\E l \in Lists : Move(l))
           \/ \E i \in Slots : Moved(i) \/ Answered(i) \/ SignInAgain(i)
    PROVE  MoveOK'
<1>1. UNCHANGED store
    <2>1. CASE Submit \/ \E l \in Lists : Move(l)
        BY <2>1, Zenon DEF Submit, Move, Send
    <2>2. CASE ~(Submit \/ \E l \in Lists : Move(l))
        BY <2>2, Zenon DEF Read, Render, Refresh, Drawer, ToastExpires, Menu, OpenDialog, Navigate,
                           CloseDialog, Moved, Answered, SignInAgain, NavOnly, ClientOnly
    <2>3. QED
        BY <2>1, <2>2
<1>2. UNCHANGED <<order, position, made, arranged>>
    BY <1>1 DEF store
<1>3. RequestsOK /\ Free.kind = "free" /\ \A j \in Slots : flight[j] # Free => flight[j].kind # "free"
    BY DEF IInv, RequestsOK, Free, Request, Kinds
<1>4. \A j \in Slots : \/ flight'[j].kind = "free" \/ flight'[j].owned = {}
                        \/ /\ flight[j].kind # "free"
                           /\ flight'[j].owned = flight[j].owned /\ flight'[j].vector = flight[j].vector
    <2>1. CASE Read \/ Render \/ Refresh \/ Drawer \/ ToastExpires \/ (\E l \in Lists : Menu(l))
               \/ (\E kind \in {"create", "rename", "delete"}, l \in Lists \cup {None} : OpenDialog(kind, l))
        <3>1. flight' = flight
            BY <2>1, ScreenKept, Zenon
        <3>2. QED
            BY <1>3, <3>1
    <2>2. CASE Navigate \/ CloseDialog
        <3>1. flight' = Adrift \/ flight' = Orphaned
            BY <2>2 DEF Navigate, CloseDialog
        <3>2. QED
            BY <1>3, <3>1, LeftBehind
    <2>3. CASE Submit \/ \E l \in Lists : Move(l)
        <3>1. PICK kind, l, text, vector : Send(kind, l, text, vector)
            BY <2>3, Zenon DEF Submit, Move
        <3>2. PICK i \in Slots : flight' = [flight EXCEPT ![i] =
                   [kind |-> kind, list |-> l, text |-> text, vector |-> vector, owned |-> {},
                    answer |-> "none", alive |-> TRUE, mounted |-> TRUE]]
            BY <3>1, Zenon DEF Send
        <3>3. \A j \in Slots : flight'[j].owned = {} \/ flight'[j] = flight[j]
            BY <1>3, <3>2 DEF RequestsOK
        <3>4. QED
            BY <1>3, <3>3
    <2>4. ASSUME NEW i \in Slots, Moved(i) \/ Answered(i) \/ SignInAgain(i)
          PROVE  \A j \in Slots : \/ flight'[j].kind = "free" \/ flight'[j].owned = {}
                                  \/ /\ flight[j].kind # "free"
                                     /\ flight'[j].owned = flight[j].owned /\ flight'[j].vector = flight[j].vector
        <3>1. \/ flight' = [flight EXCEPT ![i] = Free] \/ flight' = [Orphaned EXCEPT ![i] = Free]
              \/ flight' = [j \in Slots |-> Free]
            BY <2>4, Zenon DEF Moved, Answered, SignInAgain, AfterMutation, Land
        <3>2. \A j \in Slots : flight'[j] = Free \/ flight'[j] = flight[j] \/ flight'[j] = Orphaned[j]
            BY <1>3, <3>1, LeftBehind DEF RequestsOK
        <3>3. QED
            BY <1>3, <3>2, LeftBehind
    <2>5. QED
        BY <2>1, <2>2, <2>3, <2>4, Zenon
<1>5. ClaimsOK'
    BY <1>2, <1>4, ClaimsStill DEF MoveOK
<1>6. QED
    BY <1>2, <1>5 DEF MoveOK, ArrangedOK

\* What every step keeps of the moves.
LEMMA MovesKept == IInv /\ MoveOK /\ [Next]_vars => MoveOK'
<1> SUFFICES ASSUME IInv, MoveOK, [Next]_vars PROVE MoveOK'
    OBVIOUS
<1>1. CASE \E i \in Slots : ServeCreate(i) \/ ServeRename(i) \/ ServeDelete(i) \/ SetPositions(i)
                          \/ Fault(i) \/ Refuse(i)
    BY <1>1, ServerArranged, Zenon
<1>2. CASE \E i \in Slots : CheckMove(i)
    BY <1>2, CheckMoveArranged, Zenon
<1>3. CASE \E l \in Lists : OtherDevice(l)
    BY <1>3, OtherDeviceArranged, Zenon
<1>4. CASE \/ Read \/ Render \/ Refresh \/ Drawer \/ ToastExpires \/ (\E l \in Lists : Menu(l))
           \/ \E kind \in {"create", "rename", "delete"}, l \in Lists \cup {None} : OpenDialog(kind, l)
           \/ Navigate \/ CloseDialog \/ Submit \/ (\E l \in Lists : Move(l))
           \/ \E i \in Slots : Moved(i) \/ Answered(i) \/ SignInAgain(i)
    BY <1>4, DocumentArranged, Zenon
<1>5. CASE UNCHANGED vars
    BY <1>5 DEF vars, store, MoveOK, ArrangedOK, ClaimsOK, Idle
<1>6. QED
    BY <1>1, <1>2, <1>3, <1>4, <1>5, Zenon DEF Next

\* What is read in the order of its positions is in the order the move asked for.
LEMMA MovesMean == IInv /\ MoveOK => LastMoveStands
<1> SUFFICES ASSUME IInv, MoveOK, NEW j \in DOMAIN order, NEW k \in DOMAIN order,
                    j < k, {order[j], order[k]} \subseteq arranged.owned
             PROVE  \E m, n \in DOMAIN arranged.vector :
                        m < n /\ arranged.vector[m] = order[j] /\ arranged.vector[n] = order[k]
    BY DEF LastMoveStands
<1> DEFINE v == arranged.vector
           m == PlaceIn(arranged.vector, order[j])
           n == PlaceIn(arranged.vector, order[k])
<1>1. order[j] \in ToSet(order) /\ order[k] \in ToSet(order)
    BY DEF ToSet
<1>2. /\ v \in Seq(Lists) /\ order[j] \in ToSet(v) /\ order[k] \in ToSet(v)
      /\ position[order[j]] = m - 1 /\ position[order[k]] = n - 1
    BY <1>1 DEF MoveOK, ArrangedOK
<1>3. /\ m \in DOMAIN v /\ m \in Nat /\ v[m] = order[j]
      /\ n \in DOMAIN v /\ n \in Nat /\ v[n] = order[k]
    BY <1>2, Placed
<1>4. order[j] # order[k]
    <2>1. j # k
        <3>1. DOMAIN order = 1..Len(order) /\ Len(order) \in Nat
            BY LenProperties DEF IInv, StoreOK
        <3>2. QED
            BY <3>1
    <2>2. QED
        BY <2>1 DEF IInv, StoreOK, RowsKept, IsInjective
<1>5. m # n
    BY <1>3, <1>4
<1>6. Before(position, order[j], order[k])
    BY DEF MoveOK, ArrangedOK
<1>7. m < n
    BY <1>2, <1>3, <1>5, <1>6 DEF Before
<1>8. QED
    BY <1>3, <1>7

-----------------------------------------------------------------------------
(* The theorems.                                                           *)

\* The invariants hold at the start.
LEMMA Begins == Init => IInv /\ HonestOK
<1> SUFFICES ASSUME Init PROVE IInv /\ HonestOK
    OBVIOUS
<1>1. StoreOK
    BY StoredAtFirst
<1>2. View \in ViewType /\ NoRefresh \in [asked : BOOLEAN, reading : BOOLEAN, view : ViewType]
    BY <1>1, Views
<1>3. ScreenOK
    BY <1>2 DEF Init, ScreenOK, Quiet, NoDialog
<1>4. RequestsOK /\ BoundsOK
    BY LimitsAssumption DEF Init, RequestsOK, BoundsOK
<1>5. HonestOK
    BY DEF Init, HonestOK, SaysWhatIsSo, Quiet, NoDialog, Idle, Free
<1>6. QED
    BY <1>1, <1>3, <1>4, <1>5 DEF IInv

\* Nothing happens.
LEMMA Stutters ==
    ASSUME IInv, UNCHANGED vars
    PROVE  IInv' /\ (HonestOK => HonestOK')
<1> USE DEF vars, store, client
<1>1. StoreOK' /\ ScreenOK'
    BY StoreSame, ScreenSame DEF IInv
<1>2. RequestsOK' /\ BoundsOK'
    BY DEF IInv, RequestsOK, BoundsOK
<1>3. HonestOK => HonestOK'
    BY DEF HonestOK, SaysWhatIsSo, Idle
<1>4. QED
    BY <1>1, <1>2, <1>3 DEF IInv

\* What every step keeps.
LEMMA Keeps == IInv /\ [Next]_vars => IInv' /\ (HonestOK => HonestOK')
<1> SUFFICES ASSUME IInv, [Next]_vars PROVE IInv' /\ (HonestOK => HonestOK')
    OBVIOUS
<1>1. CASE Read \/ Render \/ Refresh \/ Drawer \/ ToastExpires \/ (\E l \in Lists : Menu(l))
           \/ (\E kind \in {"create", "rename", "delete"}, l \in Lists \cup {None} : OpenDialog(kind, l))
    BY <1>1, ScreenKept, QuietHonest, Zenon
<1>2. CASE Navigate \/ CloseDialog \/ Submit \/ (\E l \in Lists : Move(l))
           \/ (\E i \in Slots : Moved(i) \/ Answered(i) \/ SignInAgain(i))
    BY <1>2, TrafficKept, TrafficHonest, Zenon
<1>3. ASSUME NEW l \in Lists, OtherDevice(l) PROVE IInv' /\ (HonestOK => HonestOK')
    BY <1>3, OtherDeviceTyped, QuietHonest, Zenon
<1>4. ASSUME NEW i \in Slots,
             ServeCreate(i) \/ ServeRename(i) \/ ServeDelete(i) \/ SetPositions(i) \/ Fault(i) \/ Refuse(i)
      PROVE  IInv' /\ (HonestOK => HonestOK')
    BY <1>4, ServerKept, ServerHonest, Zenon
<1>5. ASSUME NEW i \in Slots, CheckMove(i) PROVE IInv' /\ (HonestOK => HonestOK')
    BY <1>5, CheckMoveTyped, CheckMoveHonest
<1>6. CASE UNCHANGED vars
    BY <1>6, Stutters
<1>7. QED
    BY <1>1, <1>2, <1>3, <1>4, <1>5, <1>6, Zenon DEF Next

\* The state is well typed in every behaviour.
THEOREM TypeCorrect == Spec => []TypeOK
<1>1. IInv => TypeOK
    <2> SUFFICES ASSUME IInv PROVE TypeOK
        OBVIOUS
    <2>1. /\ props.order \in Seq(Lists) /\ props.ok \in BOOLEAN
          /\ refresh.asked \in BOOLEAN /\ refresh.reading \in BOOLEAN
          /\ nav.menu \in Lists \cup {None} /\ nav.toast \in Lists \cup {None} /\ nav.timers \in Nat
          /\ dialog.kind \in {"none", "create", "rename", "delete"}
        BY DEF IInv, ScreenOK, ViewType
    <2>2. QED
        BY <2>1 DEF IInv, StoreOK, BoundsOK, TypeOK
<1>2. QED
    BY <1>1, Begins, Keeps, PTL DEF Spec

\* The move that was stored last stands: of the lists its check had read, those that are
\* left are in the order it asked for, whatever was created, deleted, renamed or moved
\* between its check, its UPDATE and now, and however stale the screen it was made on
\* (ListsService.reorder, ListsRepository.setPositions and the insertion at MAX + 1).
THEOREM MovesStand == Spec => []LastMoveStands
<1>1. Init => MoveOK
    BY MovesAtFirst
<1>2. IInv /\ MoveOK /\ [Next]_vars => MoveOK'
    BY MovesKept
<1>3. IInv /\ MoveOK => LastMoveStands
    BY MovesMean
<1>4. QED
    BY <1>1, <1>2, <1>3, Begins, Keeps, PTL DEF Spec

\* The dialog says it is at work only while a request of its own is out, and the toast
\* names a list that is deleted (ListDialog.submit, ListsNav.afterMutation).
THEOREM DialogHonest == Spec => []SaysWhatIsSo
<1>1. HonestOK => SaysWhatIsSo
    BY DEF HonestOK
<1>2. QED
    BY <1>1, Begins, Keeps, PTL DEF Spec

\* Something is always on its way to a sidebar that is not up to date.
LEMMA CoveredAlways == Spec => []Covered
<1>1. Init => Covered
    BY DEF Init, Covered, Current, View, NoRefresh
<1>2. IInv /\ Covered /\ [Next]_vars => Covered'
    <2> SUFFICES ASSUME IInv, Covered, [Next]_vars PROVE Covered'
        OBVIOUS
    <2>1. CASE UNCHANGED vars
        BY <2>1, CoveredStill DEF vars, store, client
    <2>2. CASE \E i \in Slots : ServeCreate(i) \/ ServeRename(i) \/ ServeDelete(i) \/ SetPositions(i)
                              \/ Fault(i) \/ Refuse(i)
        BY <2>2, ServerCovered, Zenon
    <2>0. CASE \E i \in Slots : CheckMove(i)
        BY <2>0, CheckMoveCovered, Zenon
    <2>3. CASE Read \/ Render \/ Navigate \/ (\E i \in Slots : SignInAgain(i)) \/ (\E l \in Lists : OtherDevice(l))
        BY <2>3, RenderCovered, Zenon
    <2>4. CASE \/ Refresh \/ Drawer \/ ToastExpires \/ CloseDialog \/ Submit
               \/ \E l \in Lists : Menu(l) \/ Move(l)
               \/ \E kind \in {"create", "rename", "delete"}, l \in Lists \cup {None} : OpenDialog(kind, l)
               \/ \E i \in Slots : Moved(i) \/ Answered(i)
        BY <2>4, ScreenCovered, Zenon
    <2>5. QED
        BY <2>0, <2>1, <2>2, <2>3, <2>4, Zenon DEF Next
<1>3. QED
    BY <1>1, <1>2, Begins, Keeps, PTL DEF Spec

\* Once the tab's requests are answered and its refreshes rendered, the sidebar shows what
\* is stored, unless another device or a lost answer has changed it since: whichever dialog
\* was closed before its answer came, and however many moves overlapped (AfterMutation, move).
THEOREM SidebarCatchesUp == Spec => []SidebarFollows
<1>1. IInv /\ Covered => SidebarFollows
    BY NoAnswerYet DEF IInv, Covered, Current, SidebarFollows
<1>2. QED
    BY <1>1, CoveredAlways, Begins, Keeps, PTL DEF Spec
=============================================================================
