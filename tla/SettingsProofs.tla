--------------------------- MODULE SettingsProofs ---------------------------
(***************************************************************************)
(* What holds of the preferences and of the deletion for every profile and *)
(* every number of requests: the types, that the deletion screen tells the *)
(* truth about the account, and that the page, the mirror and the form     *)
(* follow the stored profile.                                              *)
(***************************************************************************)
EXTENDS Settings, TLAPS

-----------------------------------------------------------------------------
(* Types.                                                                  *)

Kinds == Writes \cup {"delete", "logout"}
Answers == {"none", "ok", "invalid", "wrong", "limited", "fail", "unauthenticated"}
Values == Themes \cup Zones \cup Names \cup {"none", "blank", "wrong", "right"}
Pages == {"signin", "home", "profile", "delete"}

Request == [kind : Kinds, value : Values, previous : Values, profile : Profile \cup {Nobody},
            answer : Answers, alive : BOOLEAN, valid : BOOLEAN]
RefreshType == [asked : BOOLEAN, reading : BOOLEAN, out : BOOLEAN,
                shell : Profile \cup {Nobody}, card : Profile \cup {Nobody}]
FormType == [theme : Themes, zone : Zones, name : Names, dirty : BOOLEAN,
             busy : Patches \cup {"none"}, seen : Profile]
DelType == [state : {"default", "confirming", "deleting", "confirmed"}, password : {"blank", "wrong", "right"},
            field : {"none", "empty", "wrong"}, alert : {"none", "failed", "limited"}]

\* A request carries a value of its column, and an accepted one the profile.
Sound(r) ==
    /\ r.kind = "theme" => r.value \in Themes /\ r.previous \in Themes
    /\ r.kind \in {"zone", "adopt"} => r.value \in Zones
    /\ r.kind = "name" => r.value \in Names
    /\ r.kind \in Writes /\ r.answer = "ok" => r.profile \in Profile
Requests == {r \in Request : Sound(r)}

ServerOK ==
    /\ account \in {"live", "gone"} /\ session \in BOOLEAN /\ (session => account = "live")
    /\ stored \in Profile

\* A profile page that was rendered again has a profile.
ShellOK ==
    /\ page \in Pages /\ shell \in Profile \cup {Nobody} /\ attempted \in BOOLEAN
    /\ painted \in Themes /\ cookie \in Themes \cup {"none"}
    /\ refresh \in RefreshType
    /\ refresh.reading /\ ~refresh.out /\ page = "profile" => refresh.card \in Profile

FormOK == form \in FormType
DelOK == del \in DelType
FlightOK == flight \in [Slots -> Requests \cup {Free}]
BoundsOK == acts \in 0..MaxActs /\ lost \in 0..MaxLost

TypeInv == ServerOK /\ ShellOK /\ FormOK /\ DelOK /\ FlightOK /\ BoundsOK

-----------------------------------------------------------------------------
(* Requests.                                                               *)

\* A request that is out is one of the tab's.
LEMMA Underway ==
    ASSUME FlightOK, NEW i \in Slots, ~Idle(i)
    PROVE  flight[i] \in Requests
BY DEF FlightOK, Idle, Free

\* Answering, refusing and abandoning a request leave the rest of it alone.
LEMMA Amended ==
    ASSUME NEW r \in Requests, NEW a \in Answers
    PROVE  /\ r.kind \notin Writes \/ a # "ok" => [r EXCEPT !.answer = a] \in Requests
           /\ [r EXCEPT !.answer = a].kind = r.kind /\ [r EXCEPT !.answer = a].alive = r.alive
           /\ [r EXCEPT !.answer = a].answer = a
           /\ [r EXCEPT !.valid = FALSE] \in Requests /\ [r EXCEPT !.alive = FALSE] \in Requests
           /\ [r EXCEPT !.valid = FALSE].kind = r.kind /\ [r EXCEPT !.valid = FALSE].alive = r.alive
           /\ [r EXCEPT !.valid = FALSE].answer = r.answer
           /\ [r EXCEPT !.alive = FALSE].kind = r.kind /\ [r EXCEPT !.alive = FALSE].answer = r.answer
           /\ ~[r EXCEPT !.alive = FALSE].alive
<1>1. r \in Request /\ Sound(r)
    BY DEF Requests
<1>2. /\ [r EXCEPT !.answer = a] \in Request /\ [r EXCEPT !.valid = FALSE] \in Request
      /\ [r EXCEPT !.alive = FALSE] \in Request
    BY <1>1 DEF Request
<1>3. r.kind \notin Writes \/ a # "ok" => Sound([r EXCEPT !.answer = a])
    BY <1>1 DEF Request, Sound
<1>4. Sound([r EXCEPT !.valid = FALSE]) /\ Sound([r EXCEPT !.alive = FALSE])
    BY <1>1 DEF Request, Sound
<1>5. /\ [r EXCEPT !.answer = a].kind = r.kind /\ [r EXCEPT !.answer = a].alive = r.alive
      /\ [r EXCEPT !.answer = a].answer = a
    BY <1>1 DEF Request
<1>6. /\ [r EXCEPT !.valid = FALSE].kind = r.kind /\ [r EXCEPT !.valid = FALSE].alive = r.alive
      /\ [r EXCEPT !.valid = FALSE].answer = r.answer
    BY <1>1 DEF Request
<1>7. /\ [r EXCEPT !.alive = FALSE].kind = r.kind /\ [r EXCEPT !.alive = FALSE].answer = r.answer
      /\ ~[r EXCEPT !.alive = FALSE].alive
    BY <1>1 DEF Request
<1>8. QED
    BY <1>2, <1>3, <1>4, <1>5, <1>6, <1>7 DEF Requests

\* A request whose session is cut off, or whose page is left, is the same otherwise.
LEMMA CutOff ==
    ASSUME FlightOK
    PROVE  /\ Cut \in [Slots -> Requests \cup {Free}]
           /\ \A j \in Slots : /\ Cut[j].kind = flight[j].kind /\ Cut[j].answer = flight[j].answer
                               /\ Cut[j].alive = flight[j].alive
                               /\ flight[j] \in Requests => Cut[j] \in Requests
<1>1. \A j \in Slots : Cut[j] = IF ~Idle(j) /\ flight[j].answer = "none" THEN [flight[j] EXCEPT !.valid = FALSE] ELSE flight[j]
    BY DEF Cut
<1>2. ASSUME NEW j \in Slots
      PROVE  /\ Cut[j].kind = flight[j].kind /\ Cut[j].answer = flight[j].answer
             /\ Cut[j].alive = flight[j].alive /\ Cut[j] \in Requests \cup {Free}
             /\ flight[j] \in Requests => Cut[j] \in Requests
    <2>1. CASE ~Idle(j) /\ flight[j].answer = "none"
        <3>1. flight[j] \in Requests /\ "none" \in Answers
            BY <2>1, Underway DEF Answers
        <3>2. Cut[j] = [flight[j] EXCEPT !.valid = FALSE]
            BY <1>1, <2>1
        <3>3. QED
            BY <3>1, <3>2, Amended
    <2>2. CASE ~(~Idle(j) /\ flight[j].answer = "none")
        <3>1. Cut[j] = flight[j]
            BY <1>1, <2>2
        <3>2. QED
            BY <3>1 DEF FlightOK
    <2>3. QED
        BY <2>1, <2>2
<1>3. Cut \in [Slots -> Requests \cup {Free}]
    BY <1>2 DEF Cut
<1>4. QED
    BY <1>2, <1>3

\* A request whose page is left is the same otherwise.
LEMMA Abandoned ==
    ASSUME FlightOK
    PROVE  /\ Orphaned \in [Slots -> Requests \cup {Free}]
           /\ \A j \in Slots : /\ Orphaned[j].kind = flight[j].kind /\ Orphaned[j].answer = flight[j].answer
<1>1. \A j \in Slots : Orphaned[j] = IF Idle(j) THEN Free ELSE [flight[j] EXCEPT !.alive = FALSE]
    BY DEF Orphaned
<1>2. ASSUME NEW j \in Slots
      PROVE  /\ Orphaned[j].kind = flight[j].kind /\ Orphaned[j].answer = flight[j].answer
             /\ Orphaned[j] \in Requests \cup {Free}
    <2>1. CASE ~Idle(j)
        <3>1. flight[j] \in Requests /\ "none" \in Answers
            BY <2>1, Underway DEF Answers
        <3>2. Orphaned[j] = [flight[j] EXCEPT !.alive = FALSE]
            BY <1>1, <2>1
        <3>3. QED
            BY <3>1, <3>2, Amended
    <2>2. CASE Idle(j)
        <3>1. flight[j] = Free
            BY <2>2 DEF FlightOK, Requests, Request, Idle, Kinds, Writes, Patches
        <3>2. QED
            BY <1>1, <2>2, <3>1
    <2>3. QED
        BY <2>1, <2>2
<1>3. Orphaned \in [Slots -> Requests \cup {Free}]
    BY <1>2 DEF Orphaned
<1>4. QED
    BY <1>2, <1>3

\* The bound is kept by whoever counts an act.
LEMMA Counted ==
    ASSUME BoundsOK, Happens, lost' = lost
    PROVE  BoundsOK'
BY LimitsAssumption DEF Happens, BoundsOK

\* A step that sends a request of a kind from slot i.
SentAt(i, kind) ==
    /\ Idle(i) /\ flight'[i].kind = kind /\ flight'[i].answer = "none" /\ flight'[i].alive
    /\ \A j \in Slots : j # i => flight'[j] = flight[j]

\* What may be sent: a value of the column.
Sendable(kind, value, previous) ==
    /\ kind \in Kinds /\ value \in Values /\ previous \in Values
    /\ kind = "theme" => value \in Themes /\ previous \in Themes
    /\ kind \in {"zone", "adopt"} => value \in Zones
    /\ kind = "name" => value \in Names

\* A request that is sent is well formed, and takes a slot of its own.
LEMMA Sent ==
    ASSUME FlightOK, BoundsOK, session \in BOOLEAN, NEW kind, NEW value, NEW previous,
           Sendable(kind, value, previous), Send(kind, value, previous)
    PROVE  FlightOK' /\ BoundsOK' /\ UNCHANGED server /\ \E i \in Slots : SentAt(i, kind)
<1> DEFINE r == [kind |-> kind, value |-> value, previous |-> previous, profile |-> Nobody,
                 answer |-> "none", alive |-> TRUE, valid |-> session]
<1>1. PICK i \in Slots : Idle(i) /\ flight' = [flight EXCEPT ![i] = r]
    BY Zenon DEF Send
<1>2. r \in Request
    BY DEF Request, Answers, Sendable
<1>3. r.kind = kind /\ r.value = value /\ r.previous = previous /\ r.answer = "none" /\ r.alive
    OBVIOUS
<1> HIDE DEF r
<1>4. r \in Requests
    BY <1>2, <1>3 DEF Requests, Sound, Sendable
<1>5. flight'[i] = r /\ FlightOK' /\ \A j \in Slots : j # i => flight'[j] = flight[j]
    BY <1>1, <1>4 DEF FlightOK
<1>6. Happens /\ Local
    BY Zenon DEF Send
<1>7. lost' = lost /\ UNCHANGED server
    BY <1>6 DEF Local
<1>8. QED
    BY <1>1, <1>3, <1>5, <1>6, <1>7, Counted DEF SentAt

-----------------------------------------------------------------------------
(* What the shell and the form are rendered with.                          *)

\* The zone shown is always one of the zones.
LEMMA Zoned ==
    ASSUME NEW z \in (Zones \ Refused) \cup {Unset}
    PROVE  Shown(z) \in Zones
BY ProfileAssumption DEF Shown

\* A form made of a profile, adjusted to one or settled on one is well formed.
LEMMA Forms ==
    ASSUME NEW p \in Profile, NEW f \in FormType
    PROVE  FormOf(p) \in FormType /\ Synced(f, p) \in FormType /\ Settled(f, p) \in FormType
<1>1. /\ p.theme \in Themes /\ p.name \in Names /\ p.zone \in (Zones \ Refused) \cup {Unset}
      /\ f.name \in Names
    BY DEF Profile, FormType
<1>2. Shown(p.zone) \in Zones
    BY <1>1, Zoned
<1>3. FormOf(p) \in FormType
    BY <1>1, <1>2 DEF FormOf, FormType
<1>4. Synced(f, p) \in FormType
    <2>1. CASE f.seen = p
        BY <2>1 DEF Synced
    <2>2. CASE f.seen # p /\ f.dirty
        <3>1. Synced(f, p) = [f EXCEPT !.seen = p, !.zone = Shown(p.zone), !.theme = p.theme, !.name = f.name]
            BY <2>2 DEF Synced
        <3>2. QED
            BY <1>1, <1>2, <3>1 DEF FormType
    <2>3. CASE f.seen # p /\ ~f.dirty
        <3>1. Synced(f, p) = [f EXCEPT !.seen = p, !.zone = Shown(p.zone), !.theme = p.theme, !.name = p.name]
            BY <2>3 DEF Synced
        <3>2. QED
            BY <1>1, <1>2, <3>1 DEF FormType
    <2>4. QED
        BY <2>1, <2>2, <2>3
<1>5. Settled(f, p) \in FormType
    BY <1>1, <1>2 DEF Settled, FormType
<1>6. QED
    BY <1>3, <1>4, <1>5

\* What a page can be rendered with.
LEMMA Rendered ==
    ASSUME ServerOK, NEW view \in Views
    PROVE  view \in Profile \cup {Nobody} /\ (view # Nobody => view \in Profile)
BY DEF ServerOK, Views

\* ThemeSync puts a theme on the page and in the mirror, or leaves them.
LEMMA Synchronised ==
    ASSUME painted \in Themes, cookie \in Themes \cup {"none"}, NEW view \in Profile \cup {Nobody}, SyncTheme(view)
    PROVE  painted' \in Themes /\ cookie' \in Themes \cup {"none"}
<1>1. CASE view = Nobody
    BY <1>1 DEF SyncTheme
<1>2. CASE view # Nobody
    <2>1. painted' = view.theme /\ cookie' = view.theme
        BY <1>2 DEF SyncTheme
    <2>2. view.theme \in Themes
        BY <1>2 DEF Profile
    <2>3. QED
        BY <2>1, <2>2
<1>3. QED
    BY <1>1, <1>2

\* What a page starts with is well formed.
LEMMA Fresh == NoRefresh \in RefreshType /\ NoScreen \in DelType /\ ~NoRefresh.reading
<1>1. NoRefresh \in RefreshType /\ ~NoRefresh.reading
    BY DEF NoRefresh, RefreshType
<1>2. NoScreen \in DelType
    BY DEF NoScreen, DelType
<1>3. QED
    BY <1>1, <1>2

\* The sign-in screen is shown.
LEMMA Left ==
    ASSUME TypeInv, Leave, painted' \in Themes, cookie' \in Themes \cup {"none"}
    PROVE  ShellOK' /\ FormOK' /\ DelOK'
<1>1. /\ page' = "signin" /\ shell' = Nobody /\ attempted' = FALSE
      /\ refresh' = NoRefresh /\ form' = FormOf(First) /\ del' = NoScreen
    BY DEF Leave
<1>2. ShellOK'
    BY <1>1, Fresh DEF ShellOK, Pages
<1>3. FormOK'
    BY <1>1, Forms, ProfileAssumption DEF TypeInv, FormOK
<1>4. DelOK'
    BY <1>1, Fresh DEF DelOK
<1>5. QED
    BY <1>2, <1>3, <1>4

\* Another page is shown.
LEMMA Arrived ==
    ASSUME TypeInv, NEW p \in Pages, NEW view \in Profile \cup {Nobody}, NEW card \in Profile, Arrive(p, view, card)
    PROVE  ShellOK' /\ FormOK' /\ DelOK'
<1>1. /\ page' = p /\ shell' = view /\ attempted' = FALSE
      /\ refresh' = NoRefresh /\ form' = FormOf(card) /\ del' = NoScreen
    BY Zenon DEF Arrive
<1>2. SyncTheme(view)
    BY Zenon DEF Arrive
<1>3. painted' \in Themes /\ cookie' \in Themes \cup {"none"}
    BY <1>2, Synchronised DEF TypeInv, ShellOK
<1>4. ShellOK'
    BY <1>1, <1>3, Fresh DEF ShellOK
<1>5. FormOK'
    BY <1>1, Forms DEF TypeInv, FormOK
<1>6. DelOK'
    BY <1>1, Fresh DEF DelOK
<1>7. QED
    BY <1>4, <1>5, <1>6

-----------------------------------------------------------------------------
(* Every step keeps the types.                                             *)

ScreenOK == ShellOK /\ FormOK /\ DelOK

\* A screen that is not touched stays well formed.
LEMMA ScreenSame ==
    ASSUME ScreenOK, UNCHANGED <<screen, cookie>>
    PROVE  ScreenOK'
BY DEF ScreenOK, ShellOK, FormOK, DelOK, screen

\* One request is answered; the session of the others may be cut off at that.
LEMMA Replied ==
    ASSUME FlightOK, NEW i \in Slots, ~Idle(i), NEW a \in Answers,
           flight[i].kind \notin Writes \/ a # "ok",
           \/ flight' = [flight EXCEPT ![i].answer = a]
           \/ flight' = [Cut EXCEPT ![i].answer = a]
    PROVE  /\ FlightOK'
           /\ \A j \in Slots : /\ flight'[j].kind = flight[j].kind /\ flight'[j].alive = flight[j].alive
                               /\ flight'[j].answer = IF j = i THEN a ELSE flight[j].answer
<1>1. PICK g \in [Slots -> Requests \cup {Free}] :
          /\ flight' = [g EXCEPT ![i].answer = a] /\ g[i] \in Requests
          /\ \A j \in Slots : g[j].kind = flight[j].kind /\ g[j].answer = flight[j].answer /\ g[j].alive = flight[j].alive
    <2>1. CASE flight' = [flight EXCEPT ![i].answer = a]
        <3>1. flight[i] \in Requests /\ flight \in [Slots -> Requests \cup {Free}]
            BY Underway DEF FlightOK
        <3>2. QED
            BY <2>1, <3>1
    <2>2. CASE flight' = [Cut EXCEPT ![i].answer = a]
        <3>1. Cut[i] \in Requests /\ Cut \in [Slots -> Requests \cup {Free}]
            BY Underway, CutOff
        <3>2. QED
            BY <2>2, <3>1, CutOff
    <2>3. QED
        BY <2>1, <2>2
<1>2. g[i].kind \notin Writes \/ a # "ok"
    BY <1>1
<1>3. [g[i] EXCEPT !.answer = a] \in Requests
    BY <1>1, <1>2, Amended
<1>4. /\ flight' = [g EXCEPT ![i] = [g[i] EXCEPT !.answer = a]]
      /\ \A j \in Slots : flight'[j] = IF j = i THEN [g[i] EXCEPT !.answer = a] ELSE g[j]
    BY <1>1
<1>5. FlightOK'
    BY <1>1, <1>3, <1>4 DEF FlightOK
<1>6. \A j \in Slots : /\ flight'[j].kind = g[j].kind /\ flight'[j].alive = g[j].alive
                       /\ flight'[j].answer = IF j = i THEN a ELSE g[j].answer
    BY <1>1, <1>4, Amended
<1>7. QED
    BY <1>1, <1>5, <1>6

\* What a write of the profile leaves in the database.
LEMMA Written ==
    ASSUME ServerOK, NEW i \in Slots, flight[i] \in Requests, flight[i].kind \in Writes, Accepts(flight[i].value),
           stored' = [stored EXCEPT ![Field(i)] = flight[i].value]
    PROVE  stored' \in Profile
<1> DEFINE v == flight[i].value
<1>1. stored \in Profile /\ v \notin Refused
    BY DEF ServerOK, Accepts
<1>2. CASE flight[i].kind = "theme"
    <2>1. v \in Themes \ Refused /\ stored' = [stored EXCEPT !.theme = v]
        BY <1>1, <1>2 DEF Field, Requests, Sound
    <2>2. QED
        BY <1>1, <2>1 DEF Profile
<1>3. CASE flight[i].kind \in {"zone", "adopt"}
    <2>1. v \in Zones \ Refused /\ stored' = [stored EXCEPT !.zone = v]
        BY <1>1, <1>3 DEF Field, Requests, Sound
    <2>2. QED
        BY <1>1, <2>1 DEF Profile
<1>4. CASE flight[i].kind = "name"
    <2>1. v \in Names \ Refused /\ stored' = [stored EXCEPT !.name = v]
        BY <1>1, <1>4 DEF Field, Requests, Sound
    <2>2. QED
        BY <1>1, <2>1 DEF Profile
<1>5. QED
    BY <1>2, <1>3, <1>4 DEF Writes, Patches

\* A save writes a value of its column, and answers with a profile.
LEMMA PatchTyped ==
    ASSUME TypeInv, NEW i \in Slots, ServePatch(i)
    PROVE  /\ ServerOK' /\ FlightOK' /\ UNCHANGED <<account, session>>
           /\ \A j \in Slots : /\ flight'[j].kind = flight[j].kind /\ flight'[j].alive = flight[j].alive
                               /\ j # i => flight'[j].answer = flight[j].answer
<1>1. /\ FlightOK /\ ServerOK /\ ~Idle(i) /\ flight[i] \in Requests /\ flight[i].kind \in Writes
      /\ UNCHANGED <<account, session>>
    <2>1. FlightOK /\ ServerOK
        BY DEF TypeInv
    <2>2. flight[i].kind \in Writes /\ UNCHANGED <<account, session>>
        BY Zenon DEF ServePatch, Waiting
    <2>3. ~Idle(i)
        BY <2>2 DEF Writes, Patches, Idle
    <2>4. QED
        BY <2>1, <2>2, <2>3, Underway
<1>2. CASE ~Accepts(flight[i].value)
    <2>1. flight' = [flight EXCEPT ![i].answer = "invalid"] /\ stored' = stored
        BY <1>2, Zenon DEF ServePatch
    <2>2. PICK a \in Answers : a # "ok" /\ flight' = [flight EXCEPT ![i].answer = a]
        BY <2>1 DEF Answers
    <2>3. FlightOK' /\ \A j \in Slots : /\ flight'[j].kind = flight[j].kind /\ flight'[j].alive = flight[j].alive
                                       /\ j # i => flight'[j].answer = flight[j].answer
        BY <1>1, <2>1, <2>2, Replied
    <2>4. QED
        BY <1>1, <2>1, <2>3 DEF ServerOK
<1>3. CASE Accepts(flight[i].value)
    <2>1. /\ stored' = [stored EXCEPT ![Field(i)] = flight[i].value]
          /\ flight' = [flight EXCEPT ![i].answer = "ok", ![i].profile = stored']
        BY <1>3, Zenon DEF ServePatch
    <2>2. stored' \in Profile
        BY <1>1, <1>3, <2>1, Written
    <2> DEFINE r == [flight[i] EXCEPT !.answer = "ok", !.profile = stored']
    <2>3. r \in Request /\ r.kind = flight[i].kind /\ r.alive = flight[i].alive
        BY <1>1, <2>2 DEF Requests, Request, Answers
    <2>4. r.value = flight[i].value /\ r.previous = flight[i].previous /\ r.profile = stored'
        BY <1>1 DEF Requests, Request
    <2>5. flight' = [flight EXCEPT ![i] = r]
        BY <1>1, <2>1 DEF FlightOK
    <2> HIDE DEF r
    <2>6. r \in Requests
        BY <1>1, <2>2, <2>3, <2>4 DEF Requests, Sound
    <2>7. FlightOK' /\ \A j \in Slots : flight'[j] = IF j = i THEN r ELSE flight[j]
        BY <1>1, <2>5, <2>6 DEF FlightOK
    <2>8. ServerOK'
        BY <1>1, <2>2 DEF ServerOK
    <2>9. QED
        BY <1>1, <2>3, <2>7, <2>8
<1>4. QED
    BY <1>2, <1>3

\* The steps of the server.
LEMMA ServerTyped ==
    ASSUME TypeInv, NEW i \in Slots,
           Refuse(i) \/ ServePatch(i) \/ ServeDelete(i) \/ ServeLogout(i) \/ Fault(i)
    PROVE  TypeInv'
<1> USE DEF TypeInv
<1>1. ScreenOK'
    <2>1. UNCHANGED <<screen, cookie>>
        BY Zenon DEF Refuse, ServePatch, ServeDelete, ServeLogout, Fault, ServerOnly
    <2>2. QED
        BY <2>1, ScreenSame DEF ScreenOK
<1>2. BoundsOK'
    <2>1. CASE Fault(i)
        <3>1. lost < MaxLost /\ lost' = lost + 1 /\ acts' = acts
            BY <2>1, Zenon DEF Fault
        <3>2. QED
            BY <3>1, LimitsAssumption DEF BoundsOK
    <2>2. CASE ~Fault(i)
        <3>1. UNCHANGED <<acts, lost>>
            BY <2>2, Zenon DEF Refuse, ServePatch, ServeDelete, ServeLogout, ServerOnly
        <3>2. QED
            BY <3>1 DEF BoundsOK
    <2>3. QED
        BY <2>1, <2>2
<1>3. ServerOK' /\ FlightOK'
    <2>1. CASE ServePatch(i)
        BY <2>1, PatchTyped
    <2>2. CASE Refuse(i) \/ Fault(i)
        <3>1. UNCHANGED server /\ ~Idle(i)
            BY <2>2, Zenon DEF Refuse, Fault, Waiting, Idle, Writes, Patches
        <3>2. \E a \in Answers : a # "ok" /\ flight' = [flight EXCEPT ![i].answer = a]
            BY <2>2 DEF Refuse, Fault, Answers
        <3>3. FlightOK'
            BY <3>1, <3>2, Replied
        <3>4. QED
            BY <3>1, <3>3 DEF ServerOK, server
    <2>3. CASE ServeDelete(i)
        <3>1. stored' = stored /\ flight[i].kind = "delete" /\ ~Idle(i)
            BY <2>3 DEF ServeDelete, Waiting, Idle
        <3>2. flight[i].kind \notin Writes
            BY <3>1 DEF Writes, Patches
        <3>3. \E a \in Answers : \/ flight' = [flight EXCEPT ![i].answer = a]
                                 \/ flight' = [Cut EXCEPT ![i].answer = a]
            BY <2>3 DEF ServeDelete, Answers
        <3>4. FlightOK'
            BY <3>1, <3>2, <3>3, Replied
        <3>5. UNCHANGED <<account, session>> \/ (account' = "gone" /\ session' = FALSE)
            BY <2>3 DEF ServeDelete
        <3>6. CASE UNCHANGED <<account, session>>
            BY <3>1, <3>4, <3>6 DEF ServerOK
        <3>7. CASE account' = "gone" /\ session' = FALSE
            BY <3>1, <3>4, <3>7 DEF ServerOK
        <3>8. QED
            BY <3>5, <3>6, <3>7
    <2>4. CASE ServeLogout(i)
        <3>1. UNCHANGED <<account, stored>> /\ session' = FALSE /\ flight[i].kind = "logout" /\ ~Idle(i)
            BY <2>4 DEF ServeLogout, Waiting, Idle
        <3>2. flight[i].kind \notin Writes /\ "ok" \in Answers
            BY <3>1 DEF Writes, Patches, Answers
        <3>3. flight' = [Cut EXCEPT ![i].answer = "ok"]
            BY <2>4 DEF ServeLogout
        <3>4. FlightOK'
            BY <3>1, <3>2, <3>3, Replied
        <3>5. QED
            BY <3>1, <3>4 DEF ServerOK
    <2>5. QED
        BY <2>1, <2>2, <2>3, <2>4
<1>4. QED
    BY <1>1, <1>2, <1>3 DEF ScreenOK

\* What another device does is well formed.
LEMMA OtherDeviceTyped ==
    ASSUME TypeInv, OtherDevice
    PROVE  TypeInv'
<1>1. Happens /\ UNCHANGED <<screen, cookie, lost>>
    BY Zenon DEF OtherDevice
<1>2. ScreenOK' /\ BoundsOK'
    BY <1>1, ScreenSame, Counted DEF ScreenOK, TypeInv
<1>3. ServerOK' /\ FlightOK'
    <2>1. CASE /\ \E p \in {[stored EXCEPT !.theme = t] : t \in Themes \ Refused}
                         \cup {[stored EXCEPT !.zone = z] : z \in Zones \ Refused}
                         \cup {[stored EXCEPT !.name = n] : n \in Names \ Refused} :
                   stored' = p /\ p # stored
               /\ UNCHANGED <<account, session, flight>>
        <3>1. stored' \in Profile
            BY <2>1 DEF TypeInv, ServerOK, Profile
        <3>2. QED
            BY <2>1, <3>1 DEF TypeInv, ServerOK, FlightOK
    <2>2. CASE session' = FALSE /\ flight' = Cut /\ account' \in {"live", "gone"} /\ stored' = stored
        <3>1. FlightOK'
            BY <2>2, CutOff DEF TypeInv, FlightOK
        <3>2. QED
            BY <2>2, <3>1 DEF TypeInv, ServerOK
    <2>3. QED
        BY <2>1, <2>2, Zenon DEF OtherDevice
<1>4. QED
    BY <1>2, <1>3 DEF ScreenOK, TypeInv

\* Refresh, Read, Render, and what they leave alone.
LEMMA RefreshTyped ==
    ASSUME TypeInv, Refresh \/ Read
    PROVE  TypeInv'
<1>1. CASE Refresh
    <2>1. /\ Happens /\ refresh' = [refresh EXCEPT !.asked = InShell]
          /\ UNCHANGED <<page, shell, attempted, painted, form, del, cookie, flight, account, session, stored, lost>>
        BY <1>1 DEF Refresh, AskRefresh, Local, server
    <2>2. /\ refresh' \in RefreshType /\ refresh'.reading = refresh.reading
          /\ refresh'.out = refresh.out /\ refresh'.card = refresh.card
        BY <2>1 DEF TypeInv, ShellOK, RefreshType, InShell
    <2>3. QED
        BY <2>1, <2>2, Counted DEF TypeInv, ServerOK, ShellOK, FormOK, DelOK, FlightOK
<1>2. CASE Read
    <2>1. UNCHANGED <<page, shell, attempted, painted, form, del, cookie, flight, account, session, stored, acts, lost>>
        BY <1>2 DEF Read, Local, server
    <2>2. PICK view \in Views, card \in Views :
              refresh' = [asked |-> FALSE, reading |-> TRUE, out |-> Out401(page, card),
                          shell |-> view, card |-> IF page = "profile" THEN card ELSE Nobody]
        BY <1>2, Zenon DEF Read
    <2>3. view \in Profile \cup {Nobody} /\ card \in Profile \cup {Nobody} /\ (card # Nobody => card \in Profile)
        BY Rendered DEF TypeInv
    <2>4. Out401(page, card) \in BOOLEAN /\ (page = "profile" /\ ~Out401(page, card) => card \in Profile)
        BY <2>3 DEF Out401, TypeInv, ServerOK
    <2>5. refresh'.out = Out401(page, card) /\ (page = "profile" => refresh'.card = card)
        BY <2>2
    <2>6. refresh' \in RefreshType
        BY <2>2, <2>3, <2>4 DEF RefreshType
    <2>7. QED
        BY <2>1, <2>4, <2>5, <2>6 DEF TypeInv, ServerOK, ShellOK, FormOK, DelOK, FlightOK, BoundsOK
<1>3. QED
    BY <1>1, <1>2

\* A page rendered again shows a profile, or is left.
LEMMA RenderTyped ==
    ASSUME TypeInv, Render
    PROVE  TypeInv'
<1>1. UNCHANGED <<account, session, stored, acts, lost>> /\ refresh.reading
    BY Zenon DEF Render, Local, server
<1>2. CASE refresh.out
    <2>1. Leave /\ flight' = Orphaned /\ UNCHANGED <<painted, cookie>>
        BY <1>2, Zenon DEF Render
    <2>2. ShellOK' /\ FormOK' /\ DelOK'
        BY <2>1, Left DEF TypeInv, ShellOK
    <2>3. FlightOK'
        BY <2>1, Abandoned DEF TypeInv, FlightOK
    <2>4. QED
        BY <1>1, <2>2, <2>3 DEF TypeInv, ServerOK, BoundsOK
<1>3. CASE ~refresh.out
    <2>1. /\ shell' = refresh.shell /\ refresh' = [NoRefresh EXCEPT !.asked = refresh.asked]
          /\ form' = (IF page = "profile" THEN Synced(form, refresh.card) ELSE form)
          /\ SyncTheme(refresh.shell) \/ UNCHANGED <<painted, cookie>>
          /\ UNCHANGED <<page, attempted, del, flight>>
        BY <1>3, Zenon DEF Render
    <2>2. refresh.shell \in Profile \cup {Nobody} /\ refresh.asked \in BOOLEAN
        BY DEF TypeInv, ShellOK, RefreshType
    <2>3. painted' \in Themes /\ cookie' \in Themes \cup {"none"}
        BY <2>1, <2>2, Synchronised DEF TypeInv, ShellOK
    <2>4. refresh' \in RefreshType /\ ~refresh'.reading
        BY <2>1, <2>2 DEF NoRefresh, RefreshType
    <2>5. ShellOK'
        BY <2>1, <2>2, <2>3, <2>4 DEF TypeInv, ShellOK
    <2>6. FormOK'
        <3>1. CASE page = "profile"
            <4>1. refresh.card \in Profile
                BY <1>1, <1>3, <3>1 DEF TypeInv, ShellOK
            <4>2. QED
                BY <2>1, <3>1, <4>1, Forms DEF TypeInv, FormOK
        <3>2. CASE page # "profile"
            BY <2>1, <3>2 DEF TypeInv, FormOK
        <3>3. QED
            BY <3>1, <3>2
    <2>7. QED
        BY <1>1, <2>1, <2>5, <2>6 DEF TypeInv, ServerOK, DelOK, FlightOK, BoundsOK
<1>4. QED
    BY <1>2, <1>3

\* So is a page that is gone to.
LEMMA NavigateTyped ==
    ASSUME TypeInv, SignIn \/ \E p \in Pages : Navigate(p)
    PROVE  TypeInv'
<1>1. CASE SignIn
    <2>1. Happens /\ session' = TRUE /\ account = "live" /\ UNCHANGED <<account, stored, flight, lost>>
        BY <1>1, Zenon DEF SignIn
    <2>2. PICK view \in {stored, Nobody} : Arrive("home", view, First)
        BY <1>1, Zenon DEF SignIn
    <2>3. ShellOK' /\ FormOK' /\ DelOK'
        <3>1. "home" \in Pages /\ view \in Profile \cup {Nobody}
            BY DEF Pages, TypeInv, ServerOK
        <3>2. QED
            BY <2>2, <3>1, Arrived, ProfileAssumption
    <2>4. QED
        BY <2>1, <2>3, Counted DEF TypeInv, ServerOK, FlightOK
<1>2. ASSUME NEW p \in Pages, Navigate(p) PROVE TypeInv'
    <2>1. Happens /\ flight' = Orphaned /\ UNCHANGED <<account, session, stored, lost>>
        BY <1>2, Zenon DEF Navigate, Local, server
    <2>2. PICK view \in Views, card \in Views :
              IF p = "signin" \/ Out401(p, card)
              THEN Leave /\ UNCHANGED <<painted, cookie, ghosts>>
              ELSE Arrive(p, view, IF p = "profile" THEN card ELSE First)
        BY <1>2, Zenon DEF Navigate
    <2>3. ShellOK' /\ FormOK' /\ DelOK'
        <3>1. CASE p = "signin" \/ Out401(p, card)
            <4>1. Leave /\ UNCHANGED <<painted, cookie>>
                BY <2>2, <3>1, Zenon
            <4>2. QED
                BY <4>1, Left DEF TypeInv, ShellOK
        <3>2. CASE ~(p = "signin" \/ Out401(p, card))
            <4>1. Arrive(p, view, IF p = "profile" THEN card ELSE First)
                BY <2>2, <3>2, Zenon
            <4>2. view \in Profile \cup {Nobody} /\ (IF p = "profile" THEN card ELSE First) \in Profile
                BY <3>2, Rendered, ProfileAssumption DEF TypeInv, Out401
            <4>3. QED
                BY <4>1, <4>2, Arrived
        <3>3. QED
            BY <3>1, <3>2
    <2>4. FlightOK'
        BY <2>1, Abandoned DEF TypeInv, FlightOK
    <2>5. QED
        BY <2>1, <2>3, <2>4, Counted DEF TypeInv, ServerOK
<1>3. QED
    BY <1>1, <1>2

\* The steps that send a request.
LEMMA SendersTyped ==
    ASSUME TypeInv, \/ Adopt \/ SignOut \/ SaveName \/ Confirm
                    \/ \E z \in Zones : SaveZone(z)
                    \/ \E t \in Themes : SaveTheme(t)
    PROVE  TypeInv'
<1>0. FlightOK /\ BoundsOK /\ session \in BOOLEAN
    BY DEF TypeInv, ServerOK
<1>1. CASE Adopt
    <2>1. Send("adopt", Detected, "none") /\ attempted' = TRUE
        BY <1>1, Zenon DEF Adopt, SendPatch
    <2>2. UNCHANGED <<page, shell, painted, refresh, form, del, cookie>>
        BY <1>1, Zenon DEF Adopt
    <2>3. Sendable("adopt", Detected, "none")
        BY ProfileAssumption DEF Sendable, Kinds, Writes, Values
    <2>4. FlightOK' /\ BoundsOK' /\ UNCHANGED server
        BY <1>0, <2>1, <2>3, Sent
    <2>5. QED
        BY <2>1, <2>2, <2>4 DEF TypeInv, ServerOK, ShellOK, FormOK, DelOK, server
<1>2. CASE SignOut
    <2>1. Send("logout", "none", "none") /\ UNCHANGED <<screen, cookie>>
        BY <1>2, Zenon DEF SignOut
    <2>2. Sendable("logout", "none", "none")
        BY DEF Sendable, Kinds, Values
    <2>3. FlightOK' /\ BoundsOK' /\ UNCHANGED server
        BY <1>0, <2>1, <2>2, Sent
    <2>4. QED
        BY <2>1, <2>3 DEF TypeInv, ServerOK, ShellOK, FormOK, DelOK, server, screen
<1>3. CASE SaveName
    <2>1. Send("name", form.name, "none") /\ form' = [form EXCEPT !.busy = "name"]
        BY <1>3, Zenon DEF SaveName, SendPatch
    <2>2. UNCHANGED <<page, shell, attempted, refresh, del, cookie, painted>>
        BY <1>3, Zenon DEF SaveName, FormOnly
    <2>3. Sendable("name", form.name, "none")
        BY DEF Sendable, Kinds, Writes, Patches, Values, TypeInv, FormOK, FormType
    <2>4. FlightOK' /\ BoundsOK' /\ UNCHANGED server
        BY <1>0, <2>1, <2>3, Sent
    <2>5. FormOK'
        BY <2>1 DEF TypeInv, FormOK, FormType, Patches
    <2>6. QED
        BY <2>2, <2>4, <2>5 DEF TypeInv, ServerOK, ShellOK, DelOK, server
<1>4. CASE Confirm
    <2>1. Send("delete", del.password, "none") /\ del' = [del EXCEPT !.state = "deleting"]
        BY <1>4, Zenon DEF Confirm
    <2>2. UNCHANGED <<page, shell, attempted, painted, refresh, form, cookie>>
        BY <1>4, Zenon DEF Confirm, ScreenOnly
    <2>3. Sendable("delete", del.password, "none")
        BY DEF Sendable, Kinds, Values, TypeInv, DelOK, DelType
    <2>4. FlightOK' /\ BoundsOK' /\ UNCHANGED server
        BY <1>0, <2>1, <2>3, Sent
    <2>5. DelOK'
        BY <2>1 DEF TypeInv, DelOK, DelType
    <2>6. QED
        BY <2>2, <2>4, <2>5 DEF TypeInv, ServerOK, ShellOK, FormOK, server
<1>5. ASSUME NEW z \in Zones, SaveZone(z) PROVE TypeInv'
    <2>1. Send("zone", z, "none") /\ form' = [form EXCEPT !.busy = "zone"]
        BY <1>5, Zenon DEF SaveZone, SendPatch
    <2>2. UNCHANGED <<page, shell, attempted, refresh, del, cookie, painted>>
        BY <1>5, Zenon DEF SaveZone, FormOnly
    <2>3. Sendable("zone", z, "none")
        BY DEF Sendable, Kinds, Writes, Patches, Values
    <2>4. FlightOK' /\ BoundsOK' /\ UNCHANGED server
        BY <1>0, <2>1, <2>3, Sent
    <2>5. FormOK'
        BY <2>1 DEF TypeInv, FormOK, FormType, Patches
    <2>6. QED
        BY <2>2, <2>4, <2>5 DEF TypeInv, ServerOK, ShellOK, DelOK, server
<1>6. ASSUME NEW t \in Themes, SaveTheme(t) PROVE TypeInv'
    <2>1. /\ Send("theme", t, form.theme) /\ form' = [form EXCEPT !.busy = "theme", !.theme = t]
          /\ painted' = t
        BY <1>6, Zenon DEF SaveTheme, SendPatch
    <2>2. UNCHANGED <<page, shell, attempted, refresh, del, cookie>>
        BY <1>6, Zenon DEF SaveTheme, FormOnly
    <2>3. Sendable("theme", t, form.theme)
        BY DEF Sendable, Kinds, Writes, Patches, Values, TypeInv, FormOK, FormType
    <2>4. FlightOK' /\ BoundsOK' /\ UNCHANGED server
        BY <1>0, <2>1, <2>3, Sent
    <2>5. FormOK'
        BY <2>1 DEF TypeInv, FormOK, FormType, Patches
    <2>6. QED
        BY <2>1, <2>2, <2>4, <2>5 DEF TypeInv, ServerOK, ShellOK, DelOK, server
<1>7. QED
    BY <1>1, <1>2, <1>3, <1>4, <1>5, <1>6, Zenon

\* The steps on the screen alone.
LEMMA TypingTyped ==
    ASSUME TypeInv, \/ Cancel
                    \/ \E text \in Names : TypeName(text)
                    \/ \E password \in {"blank", "wrong", "right"} : RequestDelete(password)
    PROVE  TypeInv'
<1>1. ASSUME NEW text \in Names, TypeName(text) PROVE TypeInv'
    <2>1. /\ form' = [form EXCEPT !.name = text, !.dirty = TRUE]
          /\ UNCHANGED <<page, shell, attempted, refresh, del, cookie, painted, flight, acts, lost, account, session, stored>>
        BY <1>1 DEF TypeName, FormOnly, Local, server
    <2>2. FormOK'
        BY <2>1 DEF TypeInv, FormOK, FormType
    <2>3. QED
        BY <2>1, <2>2 DEF TypeInv, ServerOK, ShellOK, DelOK, FlightOK, BoundsOK
<1>2. ASSUME NEW password \in {"blank", "wrong", "right"}, Cancel \/ RequestDelete(password)
      PROVE TypeInv'
    <2>1. UNCHANGED <<page, shell, attempted, painted, refresh, form, cookie, flight, acts, lost, account, session, stored>>
        BY <1>2 DEF Cancel, RequestDelete, ScreenOnly, Local, server
    <2>2. DelOK'
        <3>1. CASE Cancel
            BY <3>1 DEF Cancel, TypeInv, DelOK, DelType
        <3>2. CASE RequestDelete(password)
            BY <3>2 DEF RequestDelete, Checked, Cleared, TypeInv, DelOK, DelType
        <3>3. QED
            BY <1>2, <3>1, <3>2
    <2>3. QED
        BY <2>1, <2>2 DEF TypeInv, ServerOK, ShellOK, FormOK, FlightOK, BoundsOK
<1>3. QED
    BY <1>1, <1>2

\* An answer that is taken frees its slot only,
LEMMA Landed ==
    ASSUME FlightOK, NEW i \in Slots, flight' = [flight EXCEPT ![i] = Free]
    PROVE  FlightOK' /\ \A j \in Slots : flight'[j] = IF j = i THEN Free ELSE flight[j]
BY DEF FlightOK

\* or, when the page is left with it, abandons the others.
LEMMA LandedAlone ==
    ASSUME FlightOK, NEW i \in Slots, flight' = [Orphaned EXCEPT ![i] = Free]
    PROVE  /\ FlightOK'
           /\ \A j \in Slots : flight'[j] = IF j = i THEN Free ELSE Orphaned[j]
BY Abandoned DEF FlightOK

\* The steps that take an answer.
LEMMA AnswersTyped ==
    ASSUME TypeInv, NEW i \in Slots, Adopted(i) \/ SignedOut(i) \/ Answered(i)
    PROVE  TypeInv'
<1>0. FlightOK /\ UNCHANGED <<account, session, stored, acts, lost>>
    BY Zenon DEF Adopted, SignedOut, Answered, Local, server, TypeInv
<1>1. CASE Adopted(i)
    <2>1. /\ flight' = [flight EXCEPT ![i] = Free]
          /\ UNCHANGED <<page, shell, attempted, painted, form, del, cookie>>
        BY <1>1, Zenon DEF Adopted, Land
    <2>2. refresh' = refresh \/ refresh' = [refresh EXCEPT !.asked = InShell]
        BY <1>1, Zenon DEF Adopted, AskRefresh
    <2>3. /\ refresh' \in RefreshType /\ refresh'.reading = refresh.reading
          /\ refresh'.out = refresh.out /\ refresh'.card = refresh.card
        BY <2>2 DEF TypeInv, ShellOK, RefreshType, InShell
    <2>4. QED
        BY <1>0, <2>1, <2>3, Landed DEF TypeInv, ServerOK, ShellOK, FormOK, DelOK, BoundsOK
<1>2. CASE SignedOut(i)
    <2>1. flight' = [Orphaned EXCEPT ![i] = Free] /\ cookie' = "none" /\ Leave /\ painted' = painted
        BY <1>2, Zenon DEF SignedOut
    <2>2. painted' \in Themes /\ cookie' \in Themes \cup {"none"}
        BY <2>1 DEF TypeInv, ShellOK
    <2>3. QED
        BY <1>0, <2>1, <2>2, Left, LandedAlone DEF TypeInv, ServerOK, BoundsOK
<1>3. CASE Answered(i)
    <2>1. CASE flight[i].answer = "unauthenticated" /\ InShell
        <3>1. Leave /\ flight' = [Orphaned EXCEPT ![i] = Free] /\ UNCHANGED <<painted, cookie>>
            BY <1>3, <2>1, Zenon DEF Answered
        <3>2. painted' \in Themes /\ cookie' \in Themes \cup {"none"}
            BY <3>1 DEF TypeInv, ShellOK
        <3>3. QED
            BY <1>0, <3>1, <3>2, Left, LandedAlone DEF TypeInv, ServerOK, BoundsOK
    <2>2. CASE ~(flight[i].answer = "unauthenticated" /\ InShell)
        <3>1. /\ flight' = [flight EXCEPT ![i] = Free]
              /\ UNCHANGED <<page, shell, attempted, painted, refresh, form, cookie>>
              /\ del' = (IF flight[i].alive THEN Told(del, flight[i].answer) ELSE del)
            BY <1>3, <2>2, Zenon DEF Answered, Land, ScreenOnly
        <3>2. Told(del, flight[i].answer) \in DelType
            BY DEF Told, TypeInv, DelOK, DelType
        <3>3. QED
            BY <1>0, <3>1, <3>2, Landed DEF TypeInv, ServerOK, ShellOK, FormOK, DelOK, BoundsOK
    <2>3. QED
        BY <2>1, <2>2
<1>4. QED
    BY <1>1, <1>2, <1>3

\* A save's answer; the form and the theme follow it, or go back.
LEMMA SavedTyped ==
    ASSUME TypeInv, NEW i \in Slots, Saved(i)
    PROVE  TypeInv'
<1>0. FlightOK /\ UNCHANGED <<account, session, stored, acts, lost>>
    BY Zenon DEF Saved, Local, server, TypeInv
<1>1. flight[i] \in Requests /\ flight[i].kind \in Patches
    <2>1. flight[i].kind \in Patches
        BY Zenon DEF Saved, Got
    <2>2. ~Idle(i)
        BY <2>1 DEF Patches, Idle
    <2>3. QED
        BY <1>0, <2>1, <2>2, Underway
<1>2. CASE flight[i].answer = "ok"
    <2>1. /\ form' = (IF flight[i].alive THEN Settled(form, flight[i].profile) ELSE form)
          /\ cookie' = (IF flight[i].kind = "theme" THEN flight[i].value ELSE cookie)
          /\ refresh' = [refresh EXCEPT !.asked = InShell]
          /\ flight' = [flight EXCEPT ![i] = Free]
          /\ UNCHANGED <<page, shell, attempted, painted, del>>
        BY <1>2 DEF Saved, AskRefresh, Land
    <2>2. flight[i].profile \in Profile /\ (flight[i].kind = "theme" => flight[i].value \in Themes)
        BY <1>1, <1>2 DEF Requests, Sound, Writes
    <2>3. FormOK'
        BY <2>1, <2>2, Forms DEF TypeInv, FormOK
    <2>4. cookie' \in Themes \cup {"none"}
        BY <2>1, <2>2 DEF TypeInv, ShellOK
    <2>5. /\ refresh' \in RefreshType /\ refresh'.reading = refresh.reading
          /\ refresh'.out = refresh.out /\ refresh'.card = refresh.card
        BY <2>1 DEF TypeInv, ShellOK, RefreshType, InShell
    <2>6. ShellOK'
        BY <2>1, <2>4, <2>5 DEF TypeInv, ShellOK
    <2>7. QED
        BY <1>0, <2>1, <2>3, <2>6, Landed DEF TypeInv, ServerOK, DelOK, BoundsOK
<1>3. Repainted(i) \in Themes /\ Reverted(i) \in FormType
    <2>1. flight[i].kind = "theme" => flight[i].previous \in Themes
        BY <1>1 DEF Requests, Sound
    <2>2. QED
        BY <2>1 DEF Repainted, Reverted, TypeInv, ShellOK, FormOK, FormType
<1>4. CASE flight[i].answer = "unauthenticated" /\ InShell
    <2>1. flight' = [Orphaned EXCEPT ![i] = Free] /\ painted' = Repainted(i) /\ Leave /\ cookie' = cookie
        BY <1>4 DEF Saved
    <2>2. painted' \in Themes /\ cookie' \in Themes \cup {"none"}
        BY <1>3, <2>1 DEF TypeInv, ShellOK
    <2>3. QED
        BY <1>0, <2>1, <2>2, Left, LandedAlone DEF TypeInv, ServerOK, BoundsOK
<1>5. CASE flight[i].answer # "ok" /\ ~(flight[i].answer = "unauthenticated" /\ InShell)
    <2>1. /\ form' = (IF flight[i].alive THEN Reverted(i) ELSE form)
          /\ painted' = Repainted(i)
          /\ flight' = [flight EXCEPT ![i] = Free]
          /\ UNCHANGED <<page, shell, attempted, refresh, del, cookie>>
        BY <1>5 DEF Saved, Land
    <2>2. FormOK' /\ ShellOK'
        BY <1>3, <2>1 DEF TypeInv, FormOK, ShellOK
    <2>3. QED
        BY <1>0, <2>1, <2>2, Landed DEF TypeInv, ServerOK, DelOK, BoundsOK
<1>6. QED
    BY <1>2, <1>4, <1>5

-----------------------------------------------------------------------------
(* The deletion is told truly.                                             *)

Deletes(i) == flight[i].kind = "delete"
NoScold == del.field # "wrong" /\ del.alert # "failed"

\* Unless the tab may have missed it, there is one deletion at most, the account goes with
\* it, and the screen has no complaint while it is out; the deletion done, it is confirmed.
HeardOK ==
    /\ account = "gone" \/ (\E i \in Slots : Deletes(i)) => NoScold
    /\ \A i, j \in Slots : Deletes(i) /\ Deletes(j) => i = j
    /\ account = "gone" => \A i \in Slots : Deletes(i) => flight[i].answer = "ok"
    /\ account = "gone" /\ page = "delete" /\ (\A i \in Slots : ~Deletes(i)) => Confirmed

TruthOK ==
    /\ Confirmed => account = "gone"
    /\ \A i \in Slots : Deletes(i) /\ flight[i].answer = "ok" => account = "gone"
    /\ del.state = "deleting" => \E i \in Slots : Deletes(i) /\ flight[i].alive
    /\ del.state = "confirming" => NoScold
    /\ ~unheard => HeardOK

\* Nothing about a deletion changes.
LEMMA TruthStill ==
    ASSUME TruthOK, del' = del, account' = account, unheard => unheard',
           page' = page \/ page' # "delete",
           \A i \in Slots : /\ Deletes(i)' <=> Deletes(i)
                            /\ Deletes(i) => flight'[i].answer = flight[i].answer /\ flight'[i].alive = flight[i].alive
    PROVE  TruthOK'
<1>1. /\ Confirmed' => account' = "gone"
      /\ \A i \in Slots : Deletes(i)' /\ flight'[i].answer = "ok" => account' = "gone"
      /\ del'.state = "confirming" => NoScold'
    BY DEF TruthOK, Confirmed, NoScold
<1>2. del'.state = "deleting" => \E i \in Slots : Deletes(i)' /\ flight'[i].alive
    BY DEF TruthOK
<1>3. ~unheard' => HeardOK'
    <2> SUFFICES ASSUME ~unheard' PROVE HeardOK'
        OBVIOUS
    <2>1. HeardOK
        BY DEF TruthOK
    <2>2. QED
        BY <2>1 DEF HeardOK, NoScold, Confirmed
<1>4. QED
    BY <1>1, <1>2, <1>3 DEF TruthOK

\* The deletion screen is left for the sign-in screen.
LEMMA TruthLeft ==
    ASSUME TruthOK, Leave, account' = account, unheard => unheard',
           \A i \in Slots : Deletes(i)' => Deletes(i) /\ flight'[i].answer = flight[i].answer
    PROVE  TruthOK'
<1>1. del' = NoScreen /\ page' = "signin"
    BY DEF Leave
<1>2. del'.state = "default" /\ del'.field = "none" /\ del'.alert = "none"
    BY <1>1 DEF NoScreen
<1>3. \A i \in Slots : Deletes(i)' /\ flight'[i].answer = "ok" => account' = "gone"
    BY DEF TruthOK
<1>4. ~unheard' => HeardOK'
    <2> SUFFICES ASSUME ~unheard' PROVE HeardOK'
        OBVIOUS
    <2>1. HeardOK
        BY DEF TruthOK
    <2>2. QED
        BY <1>1, <1>2, <2>1 DEF HeardOK, NoScold
<1>5. QED
    BY <1>2, <1>3, <1>4 DEF TruthOK, Confirmed, NoScold

\* A page of a live account is shown.
LEMMA TruthArrived ==
    ASSUME TruthOK, NEW p, NEW view, NEW card, Arrive(p, view, card), account = "live", account' = account,
           \A i \in Slots : flight'[i].kind = flight[i].kind /\ flight'[i].answer = flight[i].answer
    PROVE  TruthOK'
<1>1. del' = NoScreen /\ unheard' = (unheard /\ (account = "gone" \/ Out({"delete"}) # {}))
    BY Zenon DEF Arrive
<1>2. del'.state = "default" /\ del'.field = "none" /\ del'.alert = "none"
    BY <1>1 DEF NoScreen
<1>3. \A i \in Slots : Deletes(i)' <=> Deletes(i)
    BY DEF Deletes
<1>4. \A i \in Slots : Deletes(i)' /\ flight'[i].answer = "ok" => account' = "gone"
    BY <1>3 DEF TruthOK
<1>5. ~unheard' => HeardOK'
    <2> SUFFICES ASSUME ~unheard' PROVE HeardOK'
        OBVIOUS
    <2>1. \A i, j \in Slots : Deletes(i) /\ Deletes(j) => i = j
        <3>1. CASE ~unheard
            BY <3>1 DEF TruthOK, HeardOK
        <3>2. CASE unheard
            <4>1. Out({"delete"}) = {}
                BY <1>1, <3>2
            <4>2. \A i \in Slots : ~Deletes(i)
                BY <4>1 DEF Out, Deletes
            <4>3. QED
                BY <4>2
        <3>3. QED
            BY <3>1, <3>2
    <2>2. QED
        BY <1>2, <1>3, <2>1 DEF HeardOK, NoScold
<1>6. QED
    BY <1>2, <1>4, <1>5 DEF TruthOK, Confirmed, NoScold

\* Of the server's steps, only those on a deletion matter.
LEMMA ServerTruth ==
    ASSUME TypeInv, TruthOK, NEW i \in Slots,
           Refuse(i) \/ ServePatch(i) \/ ServeDelete(i) \/ ServeLogout(i) \/ Fault(i)
    PROVE  TruthOK'
<1>0. FlightOK /\ del' = del /\ page' = page
    BY Zenon DEF TypeInv, Refuse, ServePatch, ServeDelete, ServeLogout, Fault, ServerOnly, screen
<1>1. CASE ServePatch(i)
    <2>1. ~Deletes(i) /\ unheard' = unheard
        BY <1>1 DEF ServePatch, Waiting, Deletes, Writes, Patches, ghosts
    <2>2. QED
        BY <1>0, <1>1, <2>1, PatchTyped, TruthStill DEF Deletes
<1>2. CASE ServeLogout(i)
    <2>1. /\ flight[i].kind = "logout" /\ flight' = [Cut EXCEPT ![i].answer = "ok"]
          /\ account' = account /\ unheard' = unheard
        BY <1>2 DEF ServeLogout, Waiting, ghosts
    <2>2. ~Idle(i) /\ flight[i].kind \notin Writes /\ "ok" \in Answers
        BY <2>1 DEF Idle, Writes, Patches, Answers
    <2>3. \A j \in Slots : /\ flight'[j].kind = flight[j].kind /\ flight'[j].alive = flight[j].alive
                           /\ flight'[j].answer = IF j = i THEN "ok" ELSE flight[j].answer
        BY <1>0, <2>1, <2>2, Replied
    <2>4. QED
        BY <1>0, <2>1, <2>3, TruthStill DEF Deletes
<1>3. CASE Refuse(i) \/ Fault(i)
    <2>1. account' = account /\ ~Idle(i)
        BY <1>3, Zenon DEF Refuse, Fault, Waiting, Idle, Writes, Patches, server
    <2>2. PICK a \in Answers : a \in {"unauthenticated", "fail"} /\ flight' = [flight EXCEPT ![i].answer = a]
        BY <1>3 DEF Refuse, Fault, Answers
    <2>3. \A j \in Slots : /\ flight'[j].kind = flight[j].kind /\ flight'[j].alive = flight[j].alive
                           /\ flight'[j].answer = IF j = i THEN a ELSE flight[j].answer
        BY <1>0, <2>1, <2>2, Replied
    <2>4. \A j \in Slots : Deletes(j)' <=> Deletes(j)
        BY <2>3 DEF Deletes
    <2>5. unheard => unheard'
        BY <1>3 DEF Refuse, Fault, ghosts
    <2>6. CASE ~Deletes(i)
        BY <1>0, <2>1, <2>3, <2>4, <2>5, <2>6, TruthStill DEF Deletes
    <2>7. CASE Deletes(i)
        <3>1. ~unheard' => ~unheard /\ flight[i].answer = "none"
            BY <1>3, <2>5, <2>7 DEF Refuse, Fault, Waiting, Deletes, ghosts
        <3>2. ~unheard' => HeardOK'
            <4> SUFFICES ASSUME ~unheard' PROVE HeardOK'
                OBVIOUS
            <4>1. HeardOK /\ flight[i].answer = "none"
                BY <3>1 DEF TruthOK
            <4>2. account # "gone"
                BY <2>7, <4>1 DEF HeardOK
            <4>3. QED
                BY <1>0, <2>1, <2>4, <4>1, <4>2 DEF HeardOK, NoScold
        <3>3. /\ Confirmed' => account' = "gone"
              /\ \A j \in Slots : Deletes(j)' /\ flight'[j].answer = "ok" => account' = "gone"
              /\ del'.state = "confirming" => NoScold'
            BY <1>0, <2>1, <2>2, <2>3, <2>4 DEF TruthOK, Confirmed, NoScold
        <3>4. del'.state = "deleting" => \E j \in Slots : Deletes(j)' /\ flight'[j].alive
            BY <1>0, <2>3, <2>4 DEF TruthOK
        <3>5. QED
            BY <3>2, <3>3, <3>4 DEF TruthOK
    <2>8. QED
        BY <2>6, <2>7
<1>4. CASE ServeDelete(i)
    <2>1. Deletes(i) /\ flight[i].answer = "none" /\ unheard' = unheard
        BY <1>4 DEF ServeDelete, Waiting, Deletes, ghosts
    <2>2. ~Idle(i) /\ flight[i].kind \notin Writes
        BY <2>1 DEF Deletes, Idle, Writes, Patches
    <2>3. PICK a \in Answers :
              /\ flight' = [flight EXCEPT ![i].answer = a] \/ flight' = [Cut EXCEPT ![i].answer = a]
              /\ \/ a \in {"limited", "wrong"} /\ account' = account
                 \/ a = "ok" /\ account' = "gone"
        BY <1>4 DEF ServeDelete, Answers
    <2>4. \A j \in Slots : /\ flight'[j].kind = flight[j].kind /\ flight'[j].alive = flight[j].alive
                           /\ flight'[j].answer = IF j = i THEN a ELSE flight[j].answer
        BY <1>0, <2>2, <2>3, Replied
    <2>5. \A j \in Slots : Deletes(j)' <=> Deletes(j)
        BY <2>4 DEF Deletes
    <2>6. ~unheard' => HeardOK'
        <3> SUFFICES ASSUME ~unheard' PROVE HeardOK'
            OBVIOUS
        <3>1. HeardOK /\ account # "gone"
            BY <2>1 DEF TruthOK, HeardOK
        <3>2. NoScold' /\ \A j, k \in Slots : Deletes(j)' /\ Deletes(k)' => j = k
            BY <1>0, <2>1, <2>5, <3>1 DEF HeardOK, NoScold
        <3>3. account' = "gone" => \A j \in Slots : Deletes(j)' => flight'[j].answer = "ok"
            BY <2>1, <2>3, <2>4, <2>5, <3>1 DEF HeardOK
        <3>4. Deletes(i)'
            BY <2>1, <2>5
        <3>5. QED
            BY <3>2, <3>3, <3>4 DEF HeardOK
    <2>7. /\ Confirmed' => account' = "gone"
          /\ \A j \in Slots : Deletes(j)' /\ flight'[j].answer = "ok" => account' = "gone"
          /\ del'.state = "confirming" => NoScold'
        BY <1>0, <2>3, <2>4, <2>5 DEF TruthOK, Confirmed, NoScold
    <2>8. del'.state = "deleting" => \E j \in Slots : Deletes(j)' /\ flight'[j].alive
        BY <1>0, <2>4, <2>5 DEF TruthOK
    <2>9. QED
        BY <2>6, <2>7, <2>8 DEF TruthOK
<1>5. QED
    BY <1>1, <1>2, <1>3, <1>4

\* Another device: a deletion of its own is not heard of.
LEMMA OtherDeviceTruth ==
    ASSUME TypeInv, TruthOK, OtherDevice
    PROVE  TruthOK'
<1>0. FlightOK /\ account = "live" /\ del' = del /\ page' = page
    BY Zenon DEF TypeInv, OtherDevice, screen
<1>1. CASE UNCHANGED <<account, session, flight, unheard>>
    BY <1>0, <1>1, TruthStill DEF Deletes
<1>2. CASE flight' = Cut /\ \E a \in {"live", "gone"} : account' = a /\ unheard' = (unheard \/ a = "gone")
    <2>1. \A j \in Slots : /\ flight'[j].kind = flight[j].kind /\ flight'[j].answer = flight[j].answer
                           /\ flight'[j].alive = flight[j].alive
        BY <1>0, <1>2, CutOff
    <2>2. CASE account' = "live" /\ (unheard => unheard')
        BY <1>0, <2>1, <2>2, TruthStill DEF Deletes
    <2>3. CASE account' = "gone" /\ unheard'
        <3>1. /\ del'.state = "deleting" => \E j \in Slots : Deletes(j)' /\ flight'[j].alive
              /\ del'.state = "confirming" => NoScold'
            BY <1>0, <2>1 DEF TruthOK, Deletes, NoScold
        <3>2. QED
            BY <2>3, <3>1 DEF TruthOK
    <2>4. QED
        BY <1>2, <2>2, <2>3
<1>3. QED
    BY <1>1, <1>2, Zenon DEF OtherDevice

\* The steps that neither send nor take an answer.
LEMMA ShellTruth ==
    ASSUME TypeInv, TruthOK,
           \/ SignIn \/ Refresh \/ Read \/ Render \/ Cancel
           \/ \E p \in Pages : Navigate(p)
           \/ \E text \in Names : TypeName(text)
           \/ \E password \in {"blank", "wrong", "right"} : RequestDelete(password)
    PROVE  TruthOK'
<1>0. FlightOK
    BY DEF TypeInv
<1>1. CASE Refresh \/ Read \/ \E text \in Names : TypeName(text)
    <2>1. UNCHANGED <<page, del, flight, account, unheard>>
        BY <1>1, Zenon DEF Refresh, Read, TypeName, FormOnly, Local, server, ghosts
    <2>2. QED
        BY <2>1, TruthStill DEF Deletes
<1>2. CASE Render
    <2>1. account' = account /\ unheard' = unheard
        BY <1>2, Zenon DEF Render, Local, server, ghosts
    <2>2. CASE refresh.out
        <3>1. Leave /\ flight' = Orphaned
            BY <1>2, <2>2, Zenon DEF Render
        <3>2. QED
            BY <1>0, <2>1, <3>1, Abandoned, TruthLeft DEF Deletes
    <2>3. CASE ~refresh.out
        <3>1. UNCHANGED <<page, del, flight>>
            BY <1>2, <2>3, Zenon DEF Render
        <3>2. QED
            BY <2>1, <3>1, TruthStill DEF Deletes
    <2>4. QED
        BY <2>2, <2>3
<1>3. CASE SignIn
    <2>1. account = "live" /\ account' = account /\ flight' = flight
        BY <1>3, Zenon DEF SignIn
    <2>2. PICK view \in {stored, Nobody} : Arrive("home", view, First)
        BY <1>3, Zenon DEF SignIn
    <2>3. QED
        BY <2>1, <2>2, TruthArrived
<1>4. ASSUME NEW p \in Pages, Navigate(p) PROVE TruthOK'
    <2>1. flight' = Orphaned /\ account' = account
        BY <1>4, Zenon DEF Navigate, Local, server
    <2>2. PICK view \in Views, card \in Views :
              IF p = "signin" \/ Out401(p, card)
              THEN Leave /\ UNCHANGED <<painted, cookie, ghosts>>
              ELSE Arrive(p, view, IF p = "profile" THEN card ELSE First)
        BY <1>4, Zenon DEF Navigate
    <2>3. CASE p = "signin" \/ Out401(p, card)
        <3>1. Leave /\ unheard' = unheard
            BY <2>2, <2>3, Zenon DEF ghosts
        <3>2. QED
            BY <1>0, <2>1, <3>1, Abandoned, TruthLeft DEF Deletes
    <2>4. CASE ~(p = "signin" \/ Out401(p, card))
        <3>1. Arrive(p, view, IF p = "profile" THEN card ELSE First)
            BY <2>2, <2>4, Zenon
        <3>2. account = "live"
            BY <2>4 DEF Out401, TypeInv, ServerOK
        <3>3. \A j \in Slots : flight'[j].kind = flight[j].kind /\ flight'[j].answer = flight[j].answer
            BY <1>0, <2>1, Abandoned
        <3>4. QED
            BY <2>1, <3>1, <3>2, <3>3, TruthArrived
    <2>5. QED
        BY <2>3, <2>4
<1>5. ASSUME NEW password \in {"blank", "wrong", "right"}, Cancel \/ RequestDelete(password)
      PROVE  TruthOK'
    <2>1. UNCHANGED <<page, flight, account, unheard>>
        BY <1>5, Zenon DEF Cancel, RequestDelete, ScreenOnly, Local, server, ghosts
    <2>2. /\ del.state # "confirmed" /\ del'.state # "confirmed"
          /\ del'.state = "deleting" => del.state = "deleting"
          /\ NoScold => NoScold'
          /\ del'.state = "confirming" => NoScold'
        <3>1. CASE Cancel
            BY <3>1 DEF Cancel, NoScold, TypeInv, DelOK, DelType
        <3>2. CASE RequestDelete(password)
            <4>1. CASE password = "blank"
                <5>1. /\ del' = [del EXCEPT !.alert = "none", !.password = password, !.field = "empty"]
                      /\ del.state \in {"default", "deleting"}
                    BY <3>2, <4>1 DEF RequestDelete, Checked, Cleared, TypeInv, DelOK, DelType
                <5>2. QED
                    BY <5>1 DEF NoScold, TypeInv, DelOK, DelType
            <4>2. CASE password # "blank"
                <5>1. /\ del' = [del EXCEPT !.alert = "none", !.password = password, !.field = "none", !.state = "confirming"]
                      /\ del.state \in {"default", "deleting"}
                    BY <3>2, <4>2 DEF RequestDelete, Checked, Cleared, TypeInv, DelOK, DelType
                <5>2. QED
                    BY <5>1 DEF NoScold, TypeInv, DelOK, DelType
            <4>3. QED
                BY <4>1, <4>2
        <3>3. QED
            BY <1>5, <3>1, <3>2
    <2>3. ~unheard' => HeardOK'
        <3> SUFFICES ASSUME ~unheard' PROVE HeardOK'
            OBVIOUS
        <3>1. HeardOK
            BY <2>1 DEF TruthOK
        <3>2. ~(account = "gone" /\ page = "delete" /\ (\A i \in Slots : ~Deletes(i)))
            BY <2>2, <3>1 DEF HeardOK, Confirmed
        <3>3. \A i \in Slots : Deletes(i)' <=> Deletes(i)
            BY <2>1 DEF Deletes
        <3>4. QED
            BY <2>1, <2>2, <3>1, <3>2, <3>3 DEF HeardOK
    <2>4. QED
        BY <2>1, <2>2, <2>3 DEF TruthOK, Confirmed, Deletes
<1>6. QED
    BY <1>1, <1>2, <1>3, <1>4, <1>5, Zenon

\* A request that is no deletion is sent.
LEMMA TruthSent ==
    ASSUME TruthOK, NEW kind, kind # "delete", NEW i \in Slots, SentAt(i, kind),
           UNCHANGED <<page, del, account, unheard>>
    PROVE  TruthOK'
<1>1. \A j \in Slots : /\ Deletes(j)' <=> Deletes(j)
                       /\ Deletes(j) => flight'[j].answer = flight[j].answer /\ flight'[j].alive = flight[j].alive
    BY DEF SentAt, Deletes, Idle
<1>2. QED
    BY <1>1, TruthStill

\* The steps that send a request.
LEMMA SendersTruth ==
    ASSUME TypeInv, TruthOK, \/ Adopt \/ SignOut \/ SaveName \/ Confirm
                             \/ \E z \in Zones : SaveZone(z)
                             \/ \E t \in Themes : SaveTheme(t)
    PROVE  TruthOK'
<1>0. FlightOK /\ BoundsOK /\ session \in BOOLEAN
    BY DEF TypeInv, ServerOK
<1>1. CASE ~Confirm
    <2>1. /\ UNCHANGED <<page, del, unheard>>
          /\ \E kind \in Kinds \ {"delete"}, value, previous \in Values :
                Sendable(kind, value, previous) /\ Send(kind, value, previous)
        <3>1. CASE Adopt
            <4>1. Sendable("adopt", Detected, "none")
                BY ProfileAssumption DEF Sendable, Kinds, Writes, Values
            <4>2. QED
                BY <3>1, <4>1 DEF Adopt, SendPatch, Sendable
        <3>2. CASE SignOut
            <4>1. Sendable("logout", "none", "none")
                BY DEF Sendable, Kinds, Values
            <4>2. QED
                BY <3>2, <4>1 DEF SignOut, Sendable, screen, ghosts
        <3>3. CASE SaveName
            <4>1. Sendable("name", form.name, "none")
                BY DEF Sendable, Kinds, Writes, Patches, Values, TypeInv, FormOK, FormType
            <4>2. QED
                BY <3>3, <4>1 DEF SaveName, SendPatch, FormOnly, Sendable
        <3>4. ASSUME NEW z \in Zones, SaveZone(z)
              PROVE  /\ UNCHANGED <<page, del, unheard>>
                     /\ \E kind \in Kinds \ {"delete"}, value, previous \in Values :
                           Sendable(kind, value, previous) /\ Send(kind, value, previous)
            <4>1. Sendable("zone", z, "none")
                BY DEF Sendable, Kinds, Writes, Patches, Values
            <4>2. QED
                BY <3>4, <4>1 DEF SaveZone, SendPatch, FormOnly, Sendable
        <3>5. ASSUME NEW t \in Themes, SaveTheme(t)
              PROVE  /\ UNCHANGED <<page, del, unheard>>
                     /\ \E kind \in Kinds \ {"delete"}, value, previous \in Values :
                           Sendable(kind, value, previous) /\ Send(kind, value, previous)
            <4>1. Sendable("theme", t, form.theme)
                BY DEF Sendable, Kinds, Writes, Patches, Values, TypeInv, FormOK, FormType
            <4>2. QED
                BY <3>5, <4>1 DEF SaveTheme, SendPatch, FormOnly, Sendable
        <3>6. QED
            BY <1>1, <3>1, <3>2, <3>3, <3>4, <3>5, Zenon
    <2>2. PICK kind \in Kinds \ {"delete"}, value \in Values, previous \in Values :
              Sendable(kind, value, previous) /\ Send(kind, value, previous)
        BY <2>1
    <2>3. UNCHANGED server /\ \E i \in Slots : SentAt(i, kind)
        BY <1>0, <2>2, Sent, Zenon
    <2>4. PICK i \in Slots : SentAt(i, kind)
        BY <2>3
    <2>5. kind # "delete" /\ account' = account
        BY <2>2, <2>3 DEF server
    <2>6. QED
        BY <2>1, <2>4, <2>5, TruthSent
<1>2. CASE Confirm
    <2>1. /\ Send("delete", del.password, "none") /\ del' = [del EXCEPT !.state = "deleting"]
          /\ page' = page /\ page = "delete" /\ del.state = "confirming"
          /\ unheard' = (unheard \/ Out({"delete"}) # {})
        BY <1>2, Zenon DEF Confirm, ScreenOnly, OnDelete
    <2>2. Sendable("delete", del.password, "none")
        BY DEF Sendable, Kinds, Values, TypeInv, DelOK, DelType
    <2>3. UNCHANGED server /\ \E i \in Slots : SentAt(i, "delete")
        BY <1>0, <2>1, <2>2, Sent, Zenon
    <2>4. PICK i \in Slots : SentAt(i, "delete")
        BY <2>3
    <2>5. account' = account
        BY <2>3 DEF server
    <2>6. del'.state = "deleting" /\ (NoScold => NoScold')
        BY <2>1 DEF TypeInv, DelOK, DelType, NoScold
    <2>7. Deletes(i)' /\ flight'[i].alive /\ flight'[i].answer = "none" /\ \A j \in Slots : j # i => flight'[j] = flight[j]
        BY <2>4 DEF SentAt, Deletes
    <2>8. \A j \in Slots : Deletes(j)' /\ flight'[j].answer = "ok" => account' = "gone"
        BY <2>5, <2>7 DEF TruthOK, Deletes
    <2>9. ~unheard' => HeardOK'
        <3> SUFFICES ASSUME ~unheard' PROVE HeardOK'
            OBVIOUS
        <3>1. HeardOK /\ Out({"delete"}) = {} /\ NoScold
            BY <2>1 DEF TruthOK
        <3>2. \A j \in Slots : ~Deletes(j)
            BY <3>1 DEF Out, Deletes
        <3>3. account # "gone"
            BY <2>1, <3>1, <3>2 DEF HeardOK, Confirmed
        <3>4. \A j \in Slots : Deletes(j)' => j = i
            BY <2>7, <3>2 DEF Deletes
        <3>5. QED
            BY <2>5, <2>6, <3>1, <3>3, <3>4 DEF HeardOK
    <2>10. QED
        BY <2>6, <2>7, <2>8, <2>9 DEF TruthOK, Confirmed
<1>3. QED
    BY <1>1, <1>2

\* What an answer that is taken leaves in flight.
LEMMA LandedFlight ==
    ASSUME FlightOK, NEW i \in Slots,
           flight' = [flight EXCEPT ![i] = Free] \/ flight' = [Orphaned EXCEPT ![i] = Free]
    PROVE  \A j \in Slots : /\ Deletes(j)' <=> j # i /\ Deletes(j)
                            /\ j # i => flight'[j].answer = flight[j].answer
<1>1. CASE flight' = [flight EXCEPT ![i] = Free]
    <2>1. \A j \in Slots : flight'[j] = IF j = i THEN Free ELSE flight[j]
        BY <1>1, Landed
    <2>2. Free.kind # "delete"
        BY DEF Free
    <2>3. QED
        BY <2>1, <2>2 DEF Deletes
<1>2. CASE flight' = [Orphaned EXCEPT ![i] = Free]
    <2>1. \A j \in Slots : flight'[j] = IF j = i THEN Free ELSE Orphaned[j]
        BY <1>2, LandedAlone
    <2>2. \A j \in Slots : Orphaned[j].kind = flight[j].kind /\ Orphaned[j].answer = flight[j].answer
        BY Abandoned
    <2>3. Free.kind # "delete"
        BY DEF Free
    <2>4. QED
        BY <2>1, <2>2, <2>3 DEF Deletes
<1>3. QED
    BY <1>1, <1>2

\* The answers to everything but a deletion.
LEMMA OthersLanded ==
    ASSUME TypeInv, TruthOK, NEW i \in Slots, Adopted(i) \/ SignedOut(i) \/ Saved(i)
    PROVE  TruthOK'
<1>0. FlightOK /\ account' = account /\ unheard' = unheard
    BY Zenon DEF TypeInv, Adopted, SignedOut, Saved, Local, server, ghosts
<1>1. ~Deletes(i)
    BY DEF Adopted, SignedOut, Saved, Got, Patches, Deletes
<1>2. CASE flight' = [flight EXCEPT ![i] = Free] /\ UNCHANGED <<page, del>>
    <2>1. \A j \in Slots : flight'[j] = IF j = i THEN Free ELSE flight[j]
        BY <1>0, <1>2, Landed
    <2>2. QED
        BY <1>0, <1>1, <1>2, <2>1, TruthStill DEF Deletes, Free
<1>3. CASE flight' = [Orphaned EXCEPT ![i] = Free] /\ Leave
    BY <1>0, <1>3, LandedFlight, TruthLeft
<1>4. QED
    <2>1. CASE Adopted(i)
        BY <1>2, <2>1 DEF Adopted, Land
    <2>2. CASE SignedOut(i)
        BY <1>3, <2>2 DEF SignedOut
    <2>3. CASE Saved(i)
        BY <1>2, <1>3, <2>3 DEF Saved, Land
    <2>4. QED
        BY <2>1, <2>2, <2>3

\* The answer to a deletion.
LEMMA AnsweredTruth ==
    ASSUME TypeInv, TruthOK, NEW i \in Slots, Answered(i)
    PROVE  TruthOK'
<1>0. FlightOK /\ account' = account /\ Deletes(i) /\ flight[i].answer # "none"
    BY Zenon DEF TypeInv, Answered, Got, Local, server, Deletes
<1>1. CASE flight[i].answer = "unauthenticated" /\ InShell
    <2>1. Leave /\ flight' = [Orphaned EXCEPT ![i] = Free] /\ unheard' = unheard
        BY <1>1, Zenon DEF Answered
    <2>2. QED
        BY <1>0, <2>1, LandedFlight, TruthLeft
<1>2. CASE ~(flight[i].answer = "unauthenticated" /\ InShell)
    <2>1. /\ flight' = [flight EXCEPT ![i] = Free] /\ page' = page
          /\ del' = (IF flight[i].alive THEN Told(del, flight[i].answer) ELSE del)
          /\ unheard' = (unheard \/ (flight[i].answer = "ok" /\ ~flight[i].alive))
        BY <1>2, Zenon DEF Answered, Land, ScreenOnly
    <2>2. \A j \in Slots : /\ flight'[j] = IF j = i THEN Free ELSE flight[j]
                           /\ Deletes(j)' <=> j # i /\ Deletes(j)
        BY <1>0, <2>1, Landed, LandedFlight
    <2>3. \A j \in Slots : Deletes(j)' /\ flight'[j].answer = "ok" => account' = "gone"
        BY <1>0, <2>2 DEF TruthOK
    <2>4. ASSUME ~unheard'
          PROVE  /\ HeardOK /\ ~(flight[i].answer = "ok" /\ ~flight[i].alive)
                 /\ account = "gone" => flight[i].answer = "ok" /\ flight[i].alive
                 /\ NoScold /\ \A j \in Slots : ~Deletes(j)'
        <3>1. ~unheard /\ ~(flight[i].answer = "ok" /\ ~flight[i].alive)
            BY <2>1, <2>4
        <3>2. HeardOK
            BY <3>1 DEF TruthOK
        <3>3. QED
            BY <1>0, <2>2, <3>1, <3>2 DEF HeardOK
    <2>5. CASE flight[i].alive
        <3>1. del' = Told(del, flight[i].answer)
            BY <2>1, <2>5
        <3>2. /\ del'.state \in {"default", "confirmed"}
              /\ del'.state = "confirmed" <=> flight[i].answer = "ok"
              /\ flight[i].answer = "ok" /\ NoScold => NoScold'
            BY <3>1 DEF Told, TypeInv, DelOK, DelType, NoScold
        <3>3. Confirmed' => account' = "gone"
            BY <1>0, <3>2 DEF Confirmed, TruthOK
        <3>4. ~unheard' => HeardOK'
            <4> SUFFICES ASSUME ~unheard' PROVE HeardOK'
                OBVIOUS
            <4>1. CASE account = "gone"
                BY <1>0, <2>4, <3>2, <4>1 DEF HeardOK, Confirmed
            <4>2. CASE account # "gone"
                BY <1>0, <2>4, <4>2 DEF HeardOK
            <4>3. QED
                BY <4>1, <4>2
        <3>5. QED
            BY <2>3, <3>2, <3>3, <3>4 DEF TruthOK
    <2>6. CASE ~flight[i].alive
        <3>1. del' = del
            BY <2>1, <2>6
        <3>2. ~unheard' => HeardOK'
            <4> SUFFICES ASSUME ~unheard' PROVE HeardOK'
                OBVIOUS
            <4>1. account # "gone"
                BY <2>4, <2>6
            <4>2. QED
                BY <1>0, <2>4, <4>1 DEF HeardOK
        <3>3. del'.state = "deleting" => \E j \in Slots : Deletes(j)' /\ flight'[j].alive
            BY <2>2, <2>6, <3>1 DEF TruthOK
        <3>4. /\ Confirmed' => account' = "gone"
              /\ del'.state = "confirming" => NoScold'
            BY <1>0, <3>1 DEF TruthOK, Confirmed, NoScold
        <3>5. QED
            BY <2>3, <3>2, <3>3, <3>4 DEF TruthOK
    <2>7. QED
        BY <2>5, <2>6
<1>3. QED
    BY <1>1, <1>2

-----------------------------------------------------------------------------
(* The theorems.                                                           *)

\* The invariants hold at the start.
LEMMA Begins == Init => TypeInv /\ TruthOK
<1> SUFFICES ASSUME Init PROVE TypeInv /\ TruthOK
    OBVIOUS
<1>1. First \in Profile /\ First.theme \in Themes
    BY ProfileAssumption DEF Profile
<1>2. ServerOK /\ BoundsOK /\ FlightOK
    BY <1>1, LimitsAssumption DEF Init, ServerOK, BoundsOK, FlightOK
<1>3. ShellOK
    BY <1>1, Fresh DEF Init, ShellOK, Pages
<1>4. DelOK
    BY Fresh DEF Init, DelOK
<1>5. FormOK
    <2>1. Shown(First.zone) \in Zones /\ First.name \in Names
        BY <1>1, Zoned DEF Profile
    <2>2. QED
        BY <1>1, <2>1 DEF Init, FormOK, FormOf, FormType
<1>6. TruthOK
    BY DEF Init, TruthOK, HeardOK, NoScold, NoScreen, Confirmed, Deletes, Free
<1>7. QED
    BY <1>2, <1>3, <1>4, <1>5, <1>6 DEF TypeInv

\* Nothing happens.
LEMMA Stutters ==
    ASSUME TypeInv, UNCHANGED vars
    PROVE  TypeInv' /\ (TruthOK => TruthOK')
<1> USE DEF vars, server, screen, ghosts
<1>1. TypeInv'
    BY DEF TypeInv, ServerOK, ShellOK, FormOK, DelOK, FlightOK, BoundsOK
<1>2. TruthOK => TruthOK'
    BY TruthStill DEF Deletes
<1>3. QED
    BY <1>1, <1>2

\* What every step keeps.
LEMMA Keeps == TypeInv /\ [Next]_vars => TypeInv' /\ (TruthOK => TruthOK')
<1> SUFFICES ASSUME TypeInv, [Next]_vars PROVE TypeInv' /\ (TruthOK => TruthOK')
    OBVIOUS
<1>1. CASE OtherDevice
    BY <1>1, OtherDeviceTyped, OtherDeviceTruth
<1>2. CASE Refresh \/ Read
    BY <1>2, RefreshTyped, ShellTruth, Zenon
<1>3. CASE Render
    BY <1>3, RenderTyped, ShellTruth, Zenon
<1>4. CASE SignIn \/ \E p \in Pages : Navigate(p)
    BY <1>4, NavigateTyped, ShellTruth, Zenon
<1>5. CASE \/ Cancel
           \/ \E text \in Names : TypeName(text)
           \/ \E password \in {"blank", "wrong", "right"} : RequestDelete(password)
    BY <1>5, TypingTyped, ShellTruth, Zenon
<1>6. CASE \/ Adopt \/ SignOut \/ SaveName \/ Confirm
           \/ \E z \in Zones : SaveZone(z)
           \/ \E t \in Themes : SaveTheme(t)
    BY <1>6, SendersTyped, SendersTruth, Zenon
<1>7. ASSUME NEW i \in Slots, Refuse(i) \/ ServePatch(i) \/ ServeDelete(i) \/ ServeLogout(i) \/ Fault(i)
      PROVE  TypeInv' /\ (TruthOK => TruthOK')
    BY <1>7, ServerTyped, ServerTruth, Zenon
<1>8. ASSUME NEW i \in Slots, Adopted(i) \/ SignedOut(i) \/ Saved(i) \/ Answered(i)
      PROVE  TypeInv' /\ (TruthOK => TruthOK')
    BY <1>8, AnswersTyped, SavedTyped, OthersLanded, AnsweredTruth, Zenon
<1>9. CASE UNCHANGED vars
    BY <1>9, Stutters
<1>10. QED
    BY <1>1, <1>2, <1>3, <1>4, <1>5, <1>6, <1>7, <1>8, <1>9, Zenon DEF Next, Pages

\* The state is well typed in every behaviour: whatever is saved, refused, taken back or
\* adopted, the stored profile, the page and the mirror hold values the API accepts.
THEOREM TypeCorrect == Spec => []TypeOK
<1>1. TypeInv => TypeOK
    <2> SUFFICES ASSUME TypeInv PROVE TypeOK
        OBVIOUS
    <2>1. form.busy \in Patches \cup {"none"} /\ form.seen \in Profile
        BY DEF TypeInv, FormOK, FormType
    <2>2. del.state \in {"default", "confirming", "deleting", "confirmed"}
        BY DEF TypeInv, DelOK, DelType
    <2>3. QED
        BY <2>1, <2>2 DEF TypeInv, ServerOK, ShellOK, BoundsOK, TypeOK, Pages
<1>2. QED
    BY <1>1, Begins, Keeps, PTL DEF Spec

\* The deletion screen says the account is deleted only when it is, waits only while a
\* request of its own is out, and says that nothing has been deleted, or that the password
\* is wrong, only over a live account unless an answer went astray (DeleteAccount.onConfirm).
THEOREM DeletionIsToldTruly == Spec => []DeletionToldTruly
<1>1. TruthOK => DeletionToldTruly
    <2> SUFFICES ASSUME TruthOK PROVE DeletionToldTruly
        OBVIOUS
    <2>1. del.state = "deleting" => \E i \in Out({"delete"}) : flight[i].alive
        BY DEF TruthOK, Deletes, Out
    <2>2. account = "gone" /\ ~unheard => del.field # "wrong" /\ del.alert # "failed"
        BY DEF TruthOK, HeardOK, NoScold
    <2>3. QED
        BY <2>1, <2>2 DEF TruthOK, DeletionToldTruly
<1>2. QED
    BY <1>1, Begins, Keeps, PTL DEF Spec
-----------------------------------------------------------------------------
(* The preferences follow what is stored.                                  *)

Writing(i) == flight[i].kind \in Writes
Theming(i) == flight[i].kind = "theme"
Done(i) == Writing(i) /\ flight[i].answer = "ok"

\* The row is as it was when the save was sent: nothing has written it.
Unserved(i) == Writing(i) /\ (flight[i].answer = "none" \/ (Theming(i) /\ flight[i].answer # "ok"))

\* The zone and the name of a form, or all of it, show a profile.
Placed(f, p) == f.zone = Shown(p.zone) /\ (f.dirty \/ f.name = p.name)
Shows(f, p) == f.theme = p.theme /\ Placed(f, p)

\* The page and the mirror wear a theme.
Worn(t) == painted = t /\ cookie = t

\* What a render has read, and what the screen was last rendered with, is what is stored.
Current(view) == view = stored \/ view = Nobody
FreshRead == refresh.out \/ (Current(refresh.shell) /\ (OnForm => refresh.card = stored))
FreshScreen == Current(shell) /\ (OnForm => form.seen = stored)

\* A later render will show what is stored.
CatchingUp == refresh.asked \/ (refresh.reading /\ FreshRead)

\* One save at a time, of the form or the shell on the screen.
OneSave ==
    /\ \A i, j \in Slots : Writing(i) /\ Writing(j) => i = j
    /\ \A i \in Slots : Writing(i) => flight[i].alive
    /\ \A i \in Slots : Done(i) => flight[i].profile = stored

\* What is stored has been read, or a read of it will be asked for.
Noticed == behind \/ refresh.asked \/ (\E i \in Slots : Done(i))
ReadOK ==
    /\ ~Noticed => IF refresh.reading THEN FreshRead ELSE FreshScreen
    /\ \A i \in Slots : Unserved(i) => FreshScreen /\ (refresh.reading => FreshRead)

\* No theme is being saved: the page wears what its shell was rendered with, and the form
\* shows what it was, unless a save has just changed it.
AtRest ==
    (\A i \in Slots : ~Theming(i)) =>
        /\ \/ shell = Nobody
           \/ Worn(shell.theme)
           \/ CatchingUp /\ shell.theme # stored.theme
        /\ OnForm => Shows(form, form.seen) \/ (CatchingUp /\ Shows(form, stored))

\* A theme is being saved: it can be taken back, or it is stored.
Trying(i) ==
    /\ flight[i].previous = stored.theme /\ flight[i].value # stored.theme
    /\ shell # Nobody => cookie = stored.theme
    /\ OnForm => Placed(form, stored)
Stored(i) ==
    /\ flight[i].value = stored.theme
    /\ shell # Nobody /\ shell.theme = stored.theme => painted = stored.theme
ThemeOK == \A i \in Slots : Theming(i) => IF flight[i].answer = "ok" THEN Stored(i) ELSE Trying(i)

FollowOK == InShell /\ ~crossed => OneSave /\ ReadOK /\ AtRest /\ ThemeOK

\* A profile has a theme, and is not the one that could not be fetched.
LEMMA Themed ==
    ASSUME NEW p \in Profile
    PROVE  p.theme # Nobody.theme /\ p # Nobody
<1>1. p.theme \in Themes
    BY DEF Profile
<1>2. Nobody.theme = "none"
    BY DEF Nobody
<1>3. QED
    BY <1>1, <1>2, ProfileAssumption

\* A save as it was.
SameSave(i) ==
    /\ Writing(i)' <=> Writing(i)
    /\ Writing(i) =>
        /\ flight'[i].kind = flight[i].kind /\ flight'[i].value = flight[i].value
        /\ flight'[i].previous = flight[i].previous /\ flight'[i].profile = flight[i].profile
        /\ flight'[i].answer = flight[i].answer /\ flight'[i].alive = flight[i].alive

\* The controls are not touched, but for a name being typed and the control waited for.
SameForm ==
    /\ form'.seen = form.seen /\ form'.theme = form.theme
    /\ form'.zone = form.zone /\ (form'.dirty \/ (form'.dirty = form.dirty /\ form'.name = form.name))
SameScreen == UNCHANGED <<page, shell, painted, cookie>> /\ SameForm

\* What the form shows it goes on showing.
LEMMA StillShown ==
    ASSUME SameForm, NEW p
    PROVE  /\ Placed(form, p) => Placed(form', p)
           /\ Shows(form, p) => Shows(form', p)
BY DEF SameForm, Placed, Shows

\* Saves that are as they were are as good as they were.
LEMMA SavesStill ==
    ASSUME NEW i \in Slots, SameSave(i)
    PROVE  /\ Writing(i)' <=> Writing(i)
           /\ Theming(i)' <=> Theming(i)
           /\ Done(i)' <=> Done(i)
           /\ Unserved(i)' <=> Unserved(i)
<1>1. /\ Theming(i) => Writing(i)
      /\ Theming(i)' => Writing(i)'
    BY DEF Theming, Writing, Writes, Patches
<1>2. QED
    BY <1>1 DEF SameSave, Theming, Done, Unserved

\* Nothing that is shown, stored, saved or read changes.
LEMMA FollowStill ==
    ASSUME FollowOK, SameScreen, UNCHANGED <<refresh, stored>>, behind => behind', crossed => crossed',
           \A i \in Slots : SameSave(i)
    PROVE  FollowOK'
<1> SUFFICES ASSUME InShell', ~crossed' PROVE (OneSave /\ ReadOK /\ AtRest /\ ThemeOK)'
    BY DEF FollowOK
<1>1. OneSave /\ ReadOK /\ AtRest /\ ThemeOK
    BY DEF FollowOK, InShell, SameScreen
<1>2. \A i \in Slots : /\ Writing(i)' <=> Writing(i)
                       /\ Theming(i)' <=> Theming(i)
                       /\ Done(i)' <=> Done(i)
                       /\ Unserved(i)' <=> Unserved(i)
    BY SavesStill
<1>3. \A i \in Slots : Theming(i) => Writing(i)
    BY DEF Theming, Writing, Writes, Patches
<1>4. /\ FreshRead' <=> FreshRead
      /\ FreshScreen' <=> FreshScreen
      /\ CatchingUp' <=> CatchingUp
      /\ OnForm' <=> OnForm
    BY DEF FreshRead, FreshScreen, CatchingUp, Current, OnForm, SameScreen, SameForm
<1>5. OneSave'
    BY <1>1, <1>2 DEF OneSave, SameSave, Done
<1>6. ReadOK'
    BY <1>1, <1>2, <1>4 DEF ReadOK, Noticed
<1>7. AtRest'
    <2> SUFFICES ASSUME \A i \in Slots : ~Theming(i)'
                 PROVE  /\ \/ shell' = Nobody
                           \/ Worn(shell.theme)'
                           \/ CatchingUp' /\ shell'.theme # stored'.theme
                        /\ OnForm' => Shows(form, form.seen)' \/ (CatchingUp' /\ Shows(form, stored)')
        BY DEF AtRest
    <2>1. /\ shell = Nobody \/ Worn(shell.theme) \/ (CatchingUp /\ shell.theme # stored.theme)
          /\ OnForm => Shows(form, form.seen) \/ (CatchingUp /\ Shows(form, stored))
        BY <1>1, <1>2 DEF AtRest
    <2>2. OnForm' => Shows(form, form.seen)' \/ (CatchingUp' /\ Shows(form, stored)')
        BY <1>4, <2>1, StillShown DEF SameScreen, SameForm
    <2>3. QED
        BY <1>4, <2>1, <2>2 DEF Worn, SameScreen
<1>8. ThemeOK'
    <2> SUFFICES ASSUME NEW i \in Slots, Theming(i)'
                 PROVE  IF flight'[i].answer = "ok" THEN Stored(i)' ELSE Trying(i)'
        BY DEF ThemeOK
    <2>1. /\ flight'[i].value = flight[i].value /\ flight'[i].previous = flight[i].previous
          /\ flight'[i].answer = flight[i].answer /\ Theming(i)
        BY <1>2, <1>3 DEF SameSave
    <2>2. IF flight[i].answer = "ok" THEN Stored(i) ELSE Trying(i)
        BY <1>1, <2>1 DEF ThemeOK
    <2>3. QED
        BY <1>4, <2>1, <2>2, StillShown DEF Stored, Trying, SameScreen
<1>9. QED
    BY <1>5, <1>6, <1>7, <1>8

\* Nothing follows anything on the sign-in screen.
LEMMA FollowGone ==
    ASSUME Leave
    PROVE  FollowOK'
BY DEF Leave, FollowOK, InShell

\* A save is refused, or fails; one that was made is not announced, and a theme is lost.
LEMMA SaveFailed ==
    ASSUME FollowOK, UNCHANGED <<page, shell, painted, cookie, form, refresh, stored>>,
           behind => behind', crossed => crossed',
           NEW i \in Slots, Writing(i), Writing(i)', flight'[i].answer \notin {"ok", "none"},
           flight'[i].kind = flight[i].kind, flight'[i].alive = flight[i].alive,
           flight'[i].value = flight[i].value, flight'[i].previous = flight[i].previous,
           flight[i].answer = "ok" => behind' /\ (Theming(i) => crossed'),
           \A j \in Slots : j # i => flight'[j] = flight[j]
    PROVE  FollowOK'
<1> SUFFICES ASSUME InShell', ~crossed' PROVE (OneSave /\ ReadOK /\ AtRest /\ ThemeOK)'
    BY DEF FollowOK
<1>1. OneSave /\ ReadOK /\ AtRest /\ ThemeOK
    BY DEF FollowOK, InShell
<1>2. \A j \in Slots : /\ Writing(j)' <=> Writing(j)
                       /\ Theming(j)' <=> Theming(j)
                       /\ Done(j)' <=> j # i /\ Done(j)
                       /\ Unserved(j)' => Unserved(j)
    BY DEF Writing, Theming, Done, Unserved
<1>3. /\ FreshRead' <=> FreshRead
      /\ FreshScreen' <=> FreshScreen
      /\ CatchingUp' <=> CatchingUp
      /\ OnForm' <=> OnForm
    BY DEF FreshRead, FreshScreen, CatchingUp, Current, OnForm
<1>4. OneSave'
    BY <1>1, <1>2 DEF OneSave, Done
<1>5. ReadOK'
    <2>1. Noticed => Noticed'
        BY <1>2 DEF Noticed, Done
    <2>2. QED
        BY <1>1, <1>2, <1>3, <2>1 DEF ReadOK
<1>6. AtRest'
    BY <1>1, <1>2, <1>3 DEF AtRest, Worn, Shows, Placed
<1>7. ThemeOK'
    <2> SUFFICES ASSUME NEW j \in Slots, Theming(j)'
                 PROVE  IF flight'[j].answer = "ok" THEN Stored(j)' ELSE Trying(j)'
        BY DEF ThemeOK
    <2>1. IF flight[j].answer = "ok" THEN Stored(j) ELSE Trying(j)
        BY <1>1, <1>2 DEF ThemeOK
    <2>2. CASE j = i
        BY <1>2, <1>3, <2>1, <2>2 DEF Trying, Placed
    <2>3. CASE j # i
        BY <1>3, <2>1, <2>3 DEF Stored, Trying, Placed
    <2>4. QED
        BY <2>2, <2>3
<1>8. QED
    BY <1>4, <1>5, <1>6, <1>7

\* A save is made: what was on the screen was what it replaces.
LEMMA SaveServed ==
    ASSUME TypeInv, FollowOK, NEW i \in Slots, ServePatch(i), Accepts(flight[i].value)
    PROVE  FollowOK'
<1> SUFFICES ASSUME InShell', ~crossed' PROVE (OneSave /\ ReadOK /\ AtRest /\ ThemeOK)'
    BY DEF FollowOK
<1>1. /\ Writing(i) /\ flight[i].answer = "none"
      /\ stored' = [stored EXCEPT ![Field(i)] = flight[i].value]
      /\ flight' = [flight EXCEPT ![i].answer = "ok", ![i].profile = stored']
      /\ UNCHANGED <<page, shell, painted, cookie, form, refresh, behind, crossed>>
    BY Zenon DEF ServePatch, Waiting, Writing, ServerOnly, screen, ghosts
<1>2. OneSave /\ ReadOK /\ AtRest /\ ThemeOK
    BY <1>1 DEF FollowOK, InShell
<1>3. flight[i] \in Requests /\ flight \in [Slots -> Requests \cup {Free}] /\ stored \in Profile
    <2>1. ~Idle(i)
        BY <1>1 DEF Writing, Writes, Patches, Idle
    <2>2. QED
        BY <2>1, Underway DEF TypeInv, FlightOK, ServerOK
<1>4. /\ flight'[i].kind = flight[i].kind /\ flight'[i].value = flight[i].value
      /\ flight'[i].alive = flight[i].alive /\ flight'[i].answer = "ok" /\ flight'[i].profile = stored'
      /\ \A j \in Slots : j # i => flight'[j] = flight[j]
    BY <1>1, <1>3 DEF Requests, Request
<1>5. \A j \in Slots : Writing(j)' => j = i
    BY <1>1, <1>2, <1>4 DEF OneSave, Writing
<1>6. /\ Done(i)' /\ Unserved(i) /\ \A j \in Slots : ~Unserved(j)'
    BY <1>1, <1>4, <1>5 DEF Done, Unserved, Writing
<1>7. FreshScreen
    BY <1>2, <1>6 DEF ReadOK
<1>8. OneSave'
    BY <1>1, <1>2, <1>4, <1>5 DEF OneSave, Done
<1>9. ReadOK'
    BY <1>6 DEF ReadOK, Noticed
<1>10. AtRest'
    <2> SUFFICES ASSUME \A j \in Slots : ~Theming(j)'
                 PROVE  /\ shell' = Nobody \/ Worn(shell.theme)'
                        /\ OnForm' => Shows(form, form.seen)'
        BY DEF AtRest
    <2>1. \A j \in Slots : ~Theming(j)
        BY <1>4 DEF Theming
    <2>2. /\ shell = Nobody \/ Worn(shell.theme) \/ (CatchingUp /\ shell.theme # stored.theme)
          /\ OnForm => Shows(form, form.seen) \/ (CatchingUp /\ Shows(form, stored))
        BY <1>2, <2>1 DEF AtRest
    <2>3. shell = Nobody \/ Worn(shell.theme)
        BY <1>7, <2>2 DEF FreshScreen, Current
    <2>4. OnForm => Shows(form, form.seen)
        BY <1>7, <2>2 DEF FreshScreen
    <2>5. QED
        BY <1>1, <2>3, <2>4 DEF Worn, Shows, Placed, OnForm
<1>11. ThemeOK'
    <2> SUFFICES ASSUME NEW j \in Slots, Theming(j)'
                 PROVE  flight'[j].answer = "ok" /\ Stored(j)'
        BY DEF ThemeOK
    <2>1. j = i /\ Theming(i)
        <3>1. Writing(j)'
            BY DEF Theming, Writing, Writes, Patches
        <3>2. QED
            BY <1>4, <1>5, <3>1 DEF Theming
    <2>2. Trying(i)
        BY <1>1, <1>2, <2>1 DEF ThemeOK
    <2>3. stored'.theme = flight[i].value
        BY <1>1, <1>3, <2>1 DEF Field, Theming, Profile
    <2>4. shell' # Nobody => shell'.theme # stored'.theme
        BY <1>1, <1>7, <2>2, <2>3 DEF FreshScreen, Current, Trying
    <2>5. QED
        BY <1>4, <2>1, <2>3, <2>4 DEF Stored
<1>12. QED
    BY <1>8, <1>9, <1>10, <1>11

\* Another device writes the row while this tab does nothing about it.
LEMMA ElsewhereWritten ==
    ASSUME FollowOK, UNCHANGED <<page, shell, painted, cookie, form, refresh, flight>>, behind',
           crossed' = (crossed \/ Unsettled)
    PROVE  FollowOK'
<1> SUFFICES ASSUME InShell', ~crossed' PROVE (OneSave /\ ReadOK /\ AtRest /\ ThemeOK)'
    BY DEF FollowOK
<1>1. OneSave /\ ReadOK /\ AtRest /\ ThemeOK
    BY DEF FollowOK, InShell
<1>2. ~Unsettled
    OBVIOUS
<1>3. ~refresh.asked /\ ~refresh.reading /\ \A i \in Slots : ~Writing(i)
    BY <1>2 DEF Unsettled, Out, Writing
<1>4. \A i \in Slots : ~Writing(i)' /\ ~Theming(i) /\ ~Theming(i)' /\ ~Done(i)' /\ ~Unserved(i)'
    BY <1>3 DEF Writing, Theming, Done, Unserved, Writes, Patches
<1>5. OneSave' /\ ReadOK' /\ ThemeOK'
    BY <1>4 DEF OneSave, ReadOK, ThemeOK, Noticed
<1>6. AtRest'
    BY <1>1, <1>3, <1>4 DEF AtRest, CatchingUp, Worn, Shows, Placed, OnForm
<1>7. QED
    BY <1>5, <1>6

\* What asking for a refresh changes.
LEMMA RefreshAsked ==
    ASSUME TypeInv, refresh' = [refresh EXCEPT !.asked = InShell], InShell
    PROVE  /\ refresh'.asked /\ refresh'.reading = refresh.reading /\ refresh'.out = refresh.out
           /\ refresh'.shell = refresh.shell /\ refresh'.card = refresh.card
<1>1. refresh \in RefreshType /\ InShell \in BOOLEAN
    BY DEF TypeInv, ShellOK, InShell
<1>2. QED
    BY <1>1 DEF RefreshType

\* After a refresh is asked for, what is stored will be shown.
LEMMA RefreshFollowed ==
    ASSUME TypeInv, FollowOK, Refresh
    PROVE  FollowOK'
<1> SUFFICES ASSUME InShell', ~crossed' PROVE (OneSave /\ ReadOK /\ AtRest /\ ThemeOK)'
    BY DEF FollowOK
<1>1. /\ refresh' = [refresh EXCEPT !.asked = InShell] /\ InShell
      /\ UNCHANGED <<page, shell, painted, form, cookie, flight, stored, behind, crossed>>
    BY DEF Refresh, AskRefresh, Local, server, ghosts
<1>2. OneSave /\ ReadOK /\ AtRest /\ ThemeOK
    BY <1>1 DEF FollowOK
<1>3. /\ refresh'.asked /\ refresh'.reading = refresh.reading /\ refresh'.out = refresh.out
      /\ refresh'.shell = refresh.shell /\ refresh'.card = refresh.card
    BY <1>1, RefreshAsked
<1>4. CatchingUp' /\ Noticed'
    BY <1>3 DEF CatchingUp, Noticed
<1>5. /\ FreshRead' <=> FreshRead
      /\ FreshScreen' <=> FreshScreen
      /\ OnForm' <=> OnForm
    BY <1>1, <1>3 DEF FreshRead, FreshScreen, Current, OnForm
<1>6. \A i \in Slots : /\ Writing(i)' <=> Writing(i)
                       /\ Theming(i)' <=> Theming(i)
                       /\ Done(i)' <=> Done(i)
                       /\ Unserved(i)' <=> Unserved(i)
                       /\ Trying(i)' <=> Trying(i)
                       /\ Stored(i)' <=> Stored(i)
    BY <1>1 DEF Writing, Theming, Done, Unserved, Trying, Stored, Placed, OnForm
<1>7. OneSave'
    BY <1>1, <1>2, <1>6 DEF OneSave
<1>8. ReadOK'
    BY <1>2, <1>3, <1>4, <1>5, <1>6 DEF ReadOK
<1>9. AtRest'
    BY <1>1, <1>2, <1>4, <1>5, <1>6 DEF AtRest, Worn, Shows, Placed
<1>10. ThemeOK'
    BY <1>1, <1>2, <1>6 DEF ThemeOK
<1>11. QED
    BY <1>7, <1>8, <1>9, <1>10

\* The page is read again: what it reads is what is stored.
LEMMA ReadFollowed ==
    ASSUME TypeInv, FollowOK, Read
    PROVE  FollowOK'
<1> SUFFICES ASSUME InShell', ~crossed' PROVE (OneSave /\ ReadOK /\ AtRest /\ ThemeOK)'
    BY DEF FollowOK
<1>1. UNCHANGED <<page, shell, painted, form, cookie, flight, stored, crossed>>
    BY DEF Read, Local, server
<1>2. OneSave /\ ReadOK /\ AtRest /\ ThemeOK
    BY <1>1 DEF FollowOK, InShell
<1>3. PICK view \in Views, card \in Views :
          refresh' = [asked |-> FALSE, reading |-> TRUE, out |-> Out401(page, card),
                      shell |-> view, card |-> IF page = "profile" THEN card ELSE Nobody]
    BY Zenon DEF Read
<1>4. /\ refresh'.reading /\ refresh'.shell = view /\ (refresh'.out <=> Out401(page, card))
      /\ (page = "profile" => refresh'.card = card)
    BY <1>3
<1>5. Current(view) /\ (Out401(page, card) \/ (OnForm => card = stored))
    BY DEF Views, Current, Out401, OnForm
<1>6. FreshRead' /\ CatchingUp' /\ (FreshScreen' <=> FreshScreen) /\ (OnForm' <=> OnForm)
    BY <1>1, <1>4, <1>5 DEF FreshRead, CatchingUp, FreshScreen, Current, OnForm
<1>7. \A i \in Slots : /\ Writing(i)' <=> Writing(i)
                       /\ Theming(i)' <=> Theming(i)
                       /\ Done(i)' <=> Done(i)
                       /\ Unserved(i)' <=> Unserved(i)
                       /\ Trying(i)' <=> Trying(i)
                       /\ Stored(i)' <=> Stored(i)
    BY <1>1 DEF Writing, Theming, Done, Unserved, Trying, Stored, Placed, OnForm
<1>8. OneSave'
    BY <1>1, <1>2, <1>7 DEF OneSave
<1>9. ReadOK'
    BY <1>2, <1>4, <1>6, <1>7 DEF ReadOK
<1>10. AtRest'
    BY <1>1, <1>2, <1>6, <1>7 DEF AtRest, Worn, Shows, Placed
<1>11. ThemeOK'
    BY <1>1, <1>2, <1>7 DEF ThemeOK
<1>12. QED
    BY <1>8, <1>9, <1>10, <1>11

\* What a form is adjusted to, it has seen and shows.
LEMMA SyncedForm ==
    ASSUME NEW f \in FormType, NEW p \in Profile
    PROVE  /\ Synced(f, p).seen = p
           /\ f.seen = p => Synced(f, p) = f
           /\ f.seen # p => Shows(Synced(f, p), p)
<1>1. CASE f.seen = p
    BY <1>1 DEF Synced
<1>2. CASE f.seen # p
    <2>1. Synced(f, p) = [f EXCEPT !.seen = p, !.zone = Shown(p.zone), !.theme = p.theme,
                                   !.name = IF f.dirty THEN @ ELSE p.name]
        BY <1>2 DEF Synced
    <2>2. /\ Synced(f, p).seen = p /\ Synced(f, p).zone = Shown(p.zone) /\ Synced(f, p).theme = p.theme
          /\ Synced(f, p).dirty = f.dirty /\ (f.dirty \/ Synced(f, p).name = p.name)
        BY <2>1 DEF FormType
    <2>3. QED
        BY <1>2, <2>2 DEF Shows, Placed
<1>3. QED
    BY <1>1, <1>2

\* The page is rendered again.
LEMMA RenderFollowed ==
    ASSUME TypeInv, FollowOK, Render, ~refresh.out
    PROVE  FollowOK'
<1> SUFFICES ASSUME InShell', ~crossed' PROVE (OneSave /\ ReadOK /\ AtRest /\ ThemeOK)'
    BY DEF FollowOK
<1>1. /\ shell' = refresh.shell /\ refresh' = [NoRefresh EXCEPT !.asked = refresh.asked]
      /\ form' = (IF page = "profile" THEN Synced(form, refresh.card) ELSE form)
      /\ IF refresh.shell.theme # shell.theme THEN SyncTheme(refresh.shell) ELSE UNCHANGED <<painted, cookie>>
      /\ UNCHANGED <<page, flight, stored, behind, crossed>>
      /\ refresh.reading
    BY DEF Render, Local, server, ghosts
<1>2. OneSave /\ ReadOK /\ AtRest /\ ThemeOK
    BY <1>1 DEF FollowOK, InShell
<1>3. /\ (refresh'.asked <=> refresh.asked) /\ ~refresh'.reading
      /\ shell \in Profile \cup {Nobody} /\ refresh.shell \in Profile \cup {Nobody}
      /\ stored \in Profile /\ form \in FormType
    BY <1>1 DEF TypeInv, ShellOK, ServerOK, FormOK, RefreshType, NoRefresh
<1>4. OnForm => /\ form'.seen = refresh.card
                /\ form.seen = refresh.card => form' = form
                /\ form.seen # refresh.card => Shows(form', refresh.card)
    <2>1. ASSUME OnForm PROVE refresh.card \in Profile
        BY <1>1, <2>1 DEF TypeInv, ShellOK, OnForm
    <2>2. QED
        BY <1>1, <1>3, <2>1, SyncedForm DEF OnForm
<1>5. ASSUME shell' # Nobody
      PROVE  \/ Worn(shell.theme)'
             \/ shell # Nobody /\ shell'.theme = shell.theme /\ UNCHANGED <<painted, cookie>>
    <2>1. shell'.theme # Nobody.theme
        BY <1>1, <1>3, <1>5, Themed
    <2>2. QED
        BY <1>1, <1>5, <2>1 DEF SyncTheme, Worn
<1>6. OnForm' <=> OnForm
    BY <1>1 DEF OnForm
<1>7. \A i \in Slots : /\ Writing(i)' <=> Writing(i)
                       /\ Theming(i)' <=> Theming(i)
                       /\ Done(i)' <=> Done(i)
                       /\ Unserved(i)' <=> Unserved(i)
    BY <1>1 DEF Writing, Theming, Done, Unserved
<1>8. FreshRead => FreshScreen'
    BY <1>1, <1>4, <1>6 DEF FreshRead, FreshScreen, Current
<1>9. OneSave'
    BY <1>1, <1>2, <1>7 DEF OneSave
<1>10. ReadOK'
    <2>1. Noticed' <=> Noticed
        BY <1>1, <1>3, <1>7 DEF Noticed
    <2>2. QED
        BY <1>1, <1>2, <1>3, <1>7, <1>8, <2>1 DEF ReadOK
<1>11. AtRest'
    <2> SUFFICES ASSUME \A i \in Slots : ~Theming(i)'
                 PROVE  /\ \/ shell' = Nobody
                           \/ Worn(shell.theme)'
                           \/ CatchingUp' /\ shell'.theme # stored'.theme
                        /\ OnForm' => Shows(form, form.seen)' \/ (CatchingUp' /\ Shows(form, stored)')
        BY DEF AtRest
    <2>1. /\ shell = Nobody \/ Worn(shell.theme) \/ (CatchingUp /\ shell.theme # stored.theme)
          /\ OnForm => Shows(form, form.seen) \/ (CatchingUp /\ Shows(form, stored))
        BY <1>2, <1>7 DEF AtRest
    <2>2. CatchingUp => CatchingUp' \/ FreshRead
        BY <1>3 DEF CatchingUp
    <2>3. ASSUME shell' # Nobody
          PROVE  Worn(shell.theme)' \/ (CatchingUp' /\ shell'.theme # stored'.theme)
        <3>1. CASE Worn(shell.theme)'
            BY <3>1
        <3>2. CASE shell # Nobody /\ shell'.theme = shell.theme /\ UNCHANGED <<painted, cookie>>
            <4>1. CASE Worn(shell.theme)
                BY <3>2, <4>1 DEF Worn
            <4>2. CASE CatchingUp /\ shell.theme # stored.theme
                <5>1. ~FreshRead
                    BY <1>1, <2>3, <3>2, <4>2 DEF FreshRead, Current
                <5>2. QED
                    BY <1>1, <2>2, <3>2, <4>2, <5>1
            <4>3. QED
                BY <2>1, <3>2, <4>1, <4>2
        <3>3. QED
            BY <1>5, <2>3, <3>1, <3>2
    <2>4. ASSUME OnForm
          PROVE  Shows(form, form.seen)' \/ (CatchingUp' /\ Shows(form, stored)')
        <3>1. CASE form.seen # refresh.card
            BY <1>4, <2>4, <3>1 DEF Shows, Placed
        <3>2. CASE form.seen = refresh.card
            <4>1. form' = form
                BY <1>4, <2>4, <3>2
            <4>2. CASE Shows(form, form.seen)
                BY <4>1, <4>2 DEF Shows, Placed
            <4>3. CASE CatchingUp /\ Shows(form, stored)
                <5>1. CASE FreshRead
                    <6>1. form.seen = stored
                        BY <2>4, <3>2, <5>1 DEF FreshRead
                    <6>2. QED
                        BY <4>1, <4>3, <6>1 DEF Shows, Placed
                <5>2. CASE CatchingUp'
                    BY <1>1, <4>1, <4>3, <5>2 DEF Shows, Placed
                <5>3. QED
                    BY <2>2, <4>3, <5>1, <5>2
            <4>4. QED
                BY <2>1, <2>4, <4>2, <4>3
        <3>3. QED
            BY <3>1, <3>2
    <2>5. QED
        BY <1>6, <2>3, <2>4
<1>12. ThemeOK'
    <2> SUFFICES ASSUME NEW i \in Slots, Theming(i)'
                 PROVE  IF flight'[i].answer = "ok" THEN Stored(i)' ELSE Trying(i)'
        BY DEF ThemeOK
    <2>1. IF flight[i].answer = "ok" THEN Stored(i) ELSE Trying(i)
        BY <1>2, <1>7 DEF ThemeOK
    <2>2. CASE flight[i].answer = "ok"
        <3>1. shell' # Nobody /\ shell'.theme = stored.theme => painted' = stored.theme
            BY <1>5, <2>1, <2>2 DEF Worn, Stored
        <3>2. QED
            BY <1>1, <2>1, <2>2, <3>1 DEF Stored
    <2>3. CASE flight[i].answer # "ok"
        <3>1. FreshScreen /\ FreshRead
            <4>1. Unserved(i)
                BY <1>7, <2>3 DEF Unserved, Theming, Writing, Writes, Patches
            <4>2. QED
                BY <1>1, <1>2, <4>1 DEF ReadOK
        <3>2. shell' # Nobody => cookie' = stored.theme
            <4>1. shell' # Nobody => shell' = stored
                BY <1>1, <3>1 DEF FreshRead, Current
            <4>2. QED
                BY <1>5, <2>1, <2>3, <4>1 DEF Worn, Trying
        <3>3. OnForm => Placed(form', stored)
            BY <1>4, <2>1, <2>3, <3>1 DEF FreshScreen, FreshRead, Trying
        <3>4. QED
            BY <1>1, <1>6, <2>1, <2>3, <3>2, <3>3 DEF Trying
    <2>4. QED
        BY <2>2, <2>3
<1>13. QED
    BY <1>9, <1>10, <1>11, <1>12

\* A session that ends changes no save.
LEMMA CutSaves ==
    ASSUME FlightOK, flight' = Cut
    PROVE  \A j \in Slots : SameSave(j)
<1> SUFFICES ASSUME NEW j \in Slots PROVE SameSave(j)
    OBVIOUS
<1>1. flight'[j] = IF ~Idle(j) /\ flight[j].answer = "none" THEN [flight[j] EXCEPT !.valid = FALSE] ELSE flight[j]
    BY DEF Cut
<1>2. CASE ~Idle(j)
    <2>1. flight[j] \in Request
        BY <1>2, Underway DEF Requests
    <2>2. QED
        BY <1>1, <2>1 DEF Request, SameSave, Writing
<1>3. CASE Idle(j)
    BY <1>1, <1>3 DEF SameSave, Writing
<1>4. QED
    BY <1>2, <1>3

\* An answer to a deletion or a sign-out changes no save.
LEMMA AnsweredAlone ==
    ASSUME FlightOK, NEW i \in Slots, flight[i].kind \in {"delete", "logout"}, NEW a,
           flight' = [flight EXCEPT ![i].answer = a] \/ flight' = [Cut EXCEPT ![i].answer = a]
    PROVE  \A j \in Slots : SameSave(j)
<1> SUFFICES ASSUME NEW j \in Slots PROVE SameSave(j)
    OBVIOUS
<1>1. PICK g \in [Slots -> Requests \cup {Free}] :
          /\ flight' = [g EXCEPT ![i].answer = a]
          /\ \A k \in Slots : /\ g[k].kind = flight[k].kind
                              /\ flight[k].kind \in Writes =>
                                  /\ g[k].value = flight[k].value /\ g[k].previous = flight[k].previous
                                  /\ g[k].profile = flight[k].profile /\ g[k].answer = flight[k].answer
                                  /\ g[k].alive = flight[k].alive
    <2>1. CASE flight' = [flight EXCEPT ![i].answer = a]
        BY <2>1 DEF FlightOK
    <2>2. CASE flight' = [Cut EXCEPT ![i].answer = a]
        <3>1. Cut \in [Slots -> Requests \cup {Free}] /\ \A k \in Slots : Cut[k].kind = flight[k].kind
            BY CutOff
        <3>2. ASSUME NEW k \in Slots, flight[k].kind \in Writes
              PROVE  /\ Cut[k].value = flight[k].value /\ Cut[k].previous = flight[k].previous
                     /\ Cut[k].profile = flight[k].profile /\ Cut[k].answer = flight[k].answer
                     /\ Cut[k].alive = flight[k].alive
            <4>1. ~Idle(k)
                BY <3>2 DEF Idle, Writes, Patches
            <4>2. flight[k] \in Request
                BY <4>1, Underway DEF Requests
            <4>3. Cut[k] = IF ~Idle(k) /\ flight[k].answer = "none" THEN [flight[k] EXCEPT !.valid = FALSE] ELSE flight[k]
                BY DEF Cut
            <4>4. QED
                BY <4>2, <4>3 DEF Request
        <3>3. QED
            BY <2>2, <3>1, <3>2
    <2>3. QED
        BY <2>1, <2>2
<1>2. CASE j = i
    <2>1. g[i].kind = flight[i].kind /\ ~Idle(i)
        BY <1>1 DEF Idle
    <2>2. g[i] \in Requests
        BY <1>1, <2>1 DEF Idle, Free
    <2>3. flight'[i].kind = flight[i].kind
        BY <1>1, <2>1, <2>2 DEF Requests, Request
    <2>4. QED
        BY <1>2, <2>3 DEF SameSave, Writing, Writes, Patches
<1>3. CASE j # i
    <2>1. flight'[j] = g[j]
        BY <1>1, <1>3
    <2>2. QED
        BY <1>1, <2>1 DEF SameSave, Writing
<1>4. QED
    BY <1>2, <1>3

\* The server's steps on a save are the ones above; the others leave the saves alone.
LEMMA ServerFollowed ==
    ASSUME TypeInv, FollowOK, NEW i \in Slots,
           Refuse(i) \/ ServePatch(i) \/ ServeDelete(i) \/ ServeLogout(i) \/ Fault(i)
    PROVE  FollowOK'
<1>0. FlightOK /\ UNCHANGED <<page, shell, painted, cookie, form, refresh>>
    BY Zenon DEF TypeInv, Refuse, ServePatch, ServeDelete, ServeLogout, Fault, ServerOnly, screen
<1>1. CASE ServePatch(i) /\ Accepts(flight[i].value)
    BY <1>1, SaveServed
<1>2. CASE \/ ServePatch(i) /\ ~Accepts(flight[i].value)
           \/ Refuse(i) \/ Fault(i)
    <2>1. ~Idle(i) /\ stored' = stored
        BY <1>2 DEF ServePatch, Refuse, Fault, Waiting, Idle, Writes, Patches, server
    <2>2. PICK a \in Answers : a \notin {"ok", "none"} /\ flight' = [flight EXCEPT ![i].answer = a]
        BY <1>2 DEF ServePatch, Refuse, Fault, Answers
    <2>3. flight[i] \in Requests /\ flight \in [Slots -> Requests \cup {Free}]
        BY <1>0, <2>1, Underway DEF FlightOK
    <2>4. /\ flight'[i].kind = flight[i].kind /\ flight'[i].alive = flight[i].alive
          /\ flight'[i].value = flight[i].value /\ flight'[i].previous = flight[i].previous
          /\ flight'[i].answer = a
          /\ \A j \in Slots : j # i => flight'[j] = flight[j]
        BY <2>2, <2>3 DEF Requests, Request
    <2>5. /\ behind => behind'
          /\ crossed => crossed'
          /\ flight[i].answer = "ok" => behind' /\ (Theming(i) => crossed')
        BY <1>2 DEF ServePatch, Refuse, Fault, Waiting, Theming, ghosts
    <2>6. CASE Writing(i)
        <3>1. Writing(i)'
            BY <2>4, <2>6 DEF Writing
        <3>2. QED
            BY <1>0, <2>1, <2>2, <2>4, <2>5, <2>6, <3>1, SaveFailed
    <2>7. CASE ~Writing(i)
        <3>1. \A j \in Slots : SameSave(j)
            BY <2>4, <2>7 DEF SameSave, Writing
        <3>2. QED
            BY <1>0, <2>1, <2>5, <3>1, FollowStill DEF SameScreen, SameForm
    <2>8. QED
        BY <2>6, <2>7
<1>3. CASE ServeDelete(i) \/ ServeLogout(i)
    <2>1. /\ stored' = stored /\ behind' = behind /\ crossed' = crossed
          /\ flight[i].kind \in {"delete", "logout"}
        BY <1>3 DEF ServeDelete, ServeLogout, Waiting, ghosts
    <2>2. \E a \in Answers : \/ flight' = [flight EXCEPT ![i].answer = a]
                             \/ flight' = [Cut EXCEPT ![i].answer = a]
        BY <1>3 DEF ServeDelete, ServeLogout, Answers
    <2>3. \A j \in Slots : SameSave(j)
        BY <1>0, <2>1, <2>2, AnsweredAlone
    <2>4. QED
        BY <1>0, <2>1, <2>3, FollowStill DEF SameScreen, SameForm
<1>4. QED
    BY <1>1, <1>2, <1>3

\* What another device does.
LEMMA OtherDeviceFollowed ==
    ASSUME TypeInv, FollowOK, OtherDevice
    PROVE  FollowOK'
<1>1. UNCHANGED <<page, shell, painted, cookie, form, refresh>>
    BY Zenon DEF OtherDevice, screen
<1>2. CASE behind' = TRUE /\ crossed' = (crossed \/ Unsettled) /\ flight' = flight
    BY <1>1, <1>2, ElsewhereWritten
<1>3. CASE flight' = Cut /\ UNCHANGED <<stored, behind, crossed>>
    <2>1. \A j \in Slots : SameSave(j)
        BY <1>3, CutSaves DEF TypeInv
    <2>2. QED
        BY <1>1, <1>3, <2>1, FollowStill DEF SameScreen, SameForm
<1>4. QED
    BY <1>2, <1>3, Zenon DEF OtherDevice

\* A page is shown: its shell and its form are made of what is stored.
LEMMA ArriveFollowed ==
    ASSUME TypeInv, NEW p \in Pages, NEW view, view = stored \/ view = Nobody, NEW card \in Profile,
           p = "profile" => card = stored, Arrive(p, view, card), stored' = stored,
           \A i \in Slots : flight'[i].kind = flight[i].kind
    PROVE  FollowOK'
<1> SUFFICES ASSUME InShell', ~crossed' PROVE (OneSave /\ ReadOK /\ AtRest /\ ThemeOK)'
    BY DEF FollowOK
<1>1. /\ page' = p /\ shell' = view /\ refresh' = NoRefresh /\ form' = FormOf(card)
      /\ SyncTheme(view) /\ crossed' = (Out(Writes) # {})
    BY Zenon DEF Arrive
<1>2. \A i \in Slots : ~Writing(i)' /\ ~Theming(i)' /\ ~Done(i)' /\ ~Unserved(i)'
    BY <1>1 DEF Out, Writing, Theming, Done, Unserved, Writes, Patches
<1>3. /\ form'.theme = card.theme /\ form'.zone = Shown(card.zone) /\ form'.name = card.name
      /\ form'.seen = card
    BY <1>1 DEF FormOf
<1>4. OneSave' /\ ThemeOK'
    BY <1>2 DEF OneSave, ThemeOK
<1>5. ReadOK'
    <2>1. ~refresh'.reading /\ FreshScreen'
        BY <1>1, <1>3 DEF NoRefresh, FreshScreen, Current, OnForm
    <2>2. QED
        BY <1>2, <2>1 DEF ReadOK
<1>6. AtRest'
    <2>1. view # Nobody => Worn(shell.theme)'
        BY <1>1 DEF SyncTheme, Worn
    <2>2. Shows(form, form.seen)'
        BY <1>3 DEF Shows, Placed
    <2>3. QED
        BY <1>1, <2>1, <2>2 DEF AtRest
<1>7. QED
    BY <1>4, <1>5, <1>6

\* A page that is gone to, or the sign-in screen.
LEMMA NavigateFollowed ==
    ASSUME TypeInv, SignIn \/ \E p \in Pages : Navigate(p)
    PROVE  FollowOK'
<1>1. CASE SignIn
    <2>1. flight' = flight /\ stored' = stored
        BY <1>1, Zenon DEF SignIn
    <2>2. PICK view \in {stored, Nobody} : Arrive("home", view, First)
        BY <1>1, Zenon DEF SignIn
    <2>3. "home" \in Pages
        BY DEF Pages
    <2>4. QED
        BY <2>1, <2>2, <2>3, ArriveFollowed, ProfileAssumption
<1>2. ASSUME NEW p \in Pages, Navigate(p) PROVE FollowOK'
    <2>1. flight' = Orphaned /\ stored' = stored
        BY <1>2, Zenon DEF Navigate, Local, server
    <2>2. PICK view \in Views, card \in Views :
              IF p = "signin" \/ Out401(p, card)
              THEN Leave /\ UNCHANGED <<painted, cookie, ghosts>>
              ELSE Arrive(p, view, IF p = "profile" THEN card ELSE First)
        BY <1>2, Zenon DEF Navigate
    <2>3. CASE p = "signin" \/ Out401(p, card)
        BY <2>2, <2>3, FollowGone
    <2>4. CASE ~(p = "signin" \/ Out401(p, card))
        <3>1. PICK mine \in Profile : mine = IF p = "profile" THEN card ELSE First
            BY <2>4, Rendered, ProfileAssumption DEF TypeInv, Out401
        <3>2. Arrive(p, view, mine)
            BY <2>2, <2>4, <3>1, Zenon
        <3>3. (view = stored \/ view = Nobody) /\ (p = "profile" => mine = stored)
            BY <2>4, <3>1 DEF Views, Out401
        <3>4. \A i \in Slots : flight'[i].kind = flight[i].kind
            BY <2>1, Abandoned DEF TypeInv
        <3>5. QED
            BY <2>1, <3>2, <3>3, <3>4, ArriveFollowed
    <2>5. QED
        BY <2>3, <2>4
<1>3. QED
    BY <1>1, <1>2

\* A save sent over a screen that shows what is stored.
LEMMA SaveSent ==
    ASSUME TypeInv, NEW kind \in Writes, NEW value, NEW previous,
           Sendable(kind, value, previous), SendPatch(kind, value, previous)
    PROVE  /\ stored' = stored /\ behind' = behind /\ crossed' = (crossed \/ behind \/ Unsettled)
           /\ \E i \in Slots : /\ SentAt(i, kind)
                               /\ flight'[i].value = value /\ flight'[i].previous = previous
<1> DEFINE r == [kind |-> kind, value |-> value, previous |-> previous, profile |-> Nobody,
                 answer |-> "none", alive |-> TRUE, valid |-> session]
<1>1. Send(kind, value, previous) /\ behind' = behind /\ crossed' = (crossed \/ behind \/ Unsettled)
    BY Zenon DEF SendPatch
<1>2. PICK i \in Slots : Idle(i) /\ flight' = [flight EXCEPT ![i] = r]
    BY <1>1, Zenon DEF Send
<1>3. stored' = stored
    BY <1>1, Zenon DEF Send, Local, server
<1>4. r.kind = kind /\ r.value = value /\ r.previous = previous /\ r.answer = "none" /\ r.alive
    OBVIOUS
<1> HIDE DEF r
<1>5. flight'[i] = r /\ \A j \in Slots : j # i => flight'[j] = flight[j]
    BY <1>2 DEF TypeInv, FlightOK
<1>6. QED
    BY <1>1, <1>2, <1>3, <1>4, <1>5 DEF SentAt

\* What holds of the screen then, and of the saves afterwards.
LEMMA FirstSave ==
    ASSUME TypeInv, FollowOK, NEW kind \in Writes, NEW i \in Slots, SentAt(i, kind), UNCHANGED <<page, shell, stored, refresh>>,
           form'.seen = form.seen,
           crossed' = (crossed \/ behind \/ Unsettled), InShell', ~crossed'
    PROVE  /\ FreshScreen /\ OneSave' /\ ReadOK'
           /\ \A j \in Slots : Theming(j)' => j = i
           /\ shell = Nobody \/ Worn(shell.theme)
           /\ OnForm => Shows(form, stored)
<1>1. OneSave /\ ReadOK /\ AtRest /\ ThemeOK
    BY DEF FollowOK, InShell
<1>2. ~behind /\ ~Unsettled
    OBVIOUS
<1>3. ~refresh.asked /\ ~refresh.reading /\ \A j \in Slots : ~Writing(j)
    BY <1>2 DEF Unsettled, Out, Writing
<1>4. /\ Writing(i)' /\ ~Done(i)' /\ flight'[i].alive
      /\ \A j \in Slots : j # i => ~Writing(j)' /\ ~Done(j)' /\ ~Unserved(j)'
    BY <1>3 DEF SentAt, Writing, Done, Unserved
<1>5. \A j \in Slots : ~Theming(j) /\ ~Done(j) /\ (Theming(j)' => Writing(j)')
    BY <1>3 DEF Theming, Done, Writing, Writes, Patches
<1>6. FreshScreen
    BY <1>1, <1>2, <1>3, <1>5 DEF ReadOK, Noticed
<1>7. FreshScreen'
    BY <1>6 DEF FreshScreen, Current, OnForm
<1>8. OneSave'
    BY <1>4 DEF OneSave
<1>9. ReadOK'
    BY <1>3, <1>7 DEF ReadOK
<1>10. /\ shell = Nobody \/ Worn(shell.theme)
       /\ OnForm => Shows(form, stored)
    BY <1>1, <1>3, <1>5, <1>6 DEF AtRest, CatchingUp, FreshScreen
<1>11. QED
    BY <1>4, <1>5, <1>6, <1>8, <1>9, <1>10

\* A save of anything but the theme.
LEMMA PlainSave ==
    ASSUME TypeInv, FollowOK, NEW kind \in Writes \ {"theme"}, NEW i \in Slots, SentAt(i, kind), SameScreen,
           UNCHANGED <<stored, refresh>>, crossed' = (crossed \/ behind \/ Unsettled)
    PROVE  FollowOK'
<1> SUFFICES ASSUME InShell', ~crossed' PROVE (OneSave /\ ReadOK /\ AtRest /\ ThemeOK)'
    BY DEF FollowOK
<1>1. kind \in Writes /\ form'.seen = form.seen /\ UNCHANGED <<page, shell, stored, refresh>>
    BY DEF SameScreen, SameForm
<1>2. /\ FreshScreen /\ OneSave' /\ ReadOK'
      /\ \A j \in Slots : Theming(j)' => j = i
      /\ shell = Nobody \/ Worn(shell.theme)
      /\ OnForm => Shows(form, stored)
    BY <1>1, FirstSave
<1>3. \A j \in Slots : ~Theming(j)'
    BY <1>2 DEF SentAt, Theming
<1>4. ThemeOK'
    BY <1>3 DEF ThemeOK
<1>5. OnForm' => Shows(form, form.seen)'
    <2>1. OnForm => Shows(form', stored) /\ form'.seen = stored
        BY <1>1, <1>2, StillShown DEF FreshScreen, SameScreen
    <2>2. QED
        BY <1>1, <2>1 DEF OnForm
<1>6. AtRest'
    BY <1>2, <1>5 DEF AtRest, Worn, SameScreen
<1>7. QED
    BY <1>2, <1>4, <1>6

\* The saves, and the adoption of the zone.
LEMMA SendersFollowed ==
    ASSUME TypeInv, FollowOK, \/ Adopt \/ SaveName
                              \/ \E z \in Zones : SaveZone(z)
                              \/ \E t \in Themes : SaveTheme(t)
    PROVE  FollowOK'
<1>0. form \in FormType
    BY DEF TypeInv, FormOK
<1>1. CASE Adopt
    <2>1. SendPatch("adopt", Detected, "none") /\ UNCHANGED <<page, shell, painted, refresh, form, cookie>>
        BY <1>1, Zenon DEF Adopt
    <2>2. Sendable("adopt", Detected, "none") /\ "adopt" \in Writes \ {"theme"}
        BY ProfileAssumption DEF Sendable, Kinds, Writes, Patches, Values
    <2>3. PICK i \in Slots : SentAt(i, "adopt") /\ stored' = stored /\ crossed' = (crossed \/ behind \/ Unsettled)
        BY <2>1, <2>2, SaveSent
    <2>4. QED
        BY <2>1, <2>2, <2>3, PlainSave DEF SameScreen, SameForm
<1>2. CASE SaveName
    <2>1. /\ SendPatch("name", form.name, "none") /\ UNCHANGED <<page, shell, painted, refresh, cookie>>
          /\ form' = [form EXCEPT !.busy = "name"]
        BY <1>2, Zenon DEF SaveName, FormOnly
    <2>2. Sendable("name", form.name, "none") /\ "name" \in Writes \ {"theme"}
        BY <1>0 DEF Sendable, Kinds, Writes, Patches, Values, FormType
    <2>3. PICK i \in Slots : SentAt(i, "name") /\ stored' = stored /\ crossed' = (crossed \/ behind \/ Unsettled)
        BY <2>1, <2>2, SaveSent
    <2>4. SameScreen
        BY <1>0, <2>1 DEF SameScreen, SameForm, FormType
    <2>5. QED
        BY <2>1, <2>2, <2>3, <2>4, PlainSave
<1>3. ASSUME NEW z \in Zones, SaveZone(z) PROVE FollowOK'
    <2>1. /\ SendPatch("zone", z, "none") /\ UNCHANGED <<page, shell, painted, refresh, cookie>>
          /\ form' = [form EXCEPT !.busy = "zone"]
        BY <1>3, Zenon DEF SaveZone, FormOnly
    <2>2. Sendable("zone", z, "none") /\ "zone" \in Writes \ {"theme"}
        BY DEF Sendable, Kinds, Writes, Patches, Values
    <2>3. PICK i \in Slots : SentAt(i, "zone") /\ stored' = stored /\ crossed' = (crossed \/ behind \/ Unsettled)
        BY <2>1, <2>2, SaveSent
    <2>4. SameScreen
        BY <1>0, <2>1 DEF SameScreen, SameForm, FormType
    <2>5. QED
        BY <2>1, <2>2, <2>3, <2>4, PlainSave
<1>4. ASSUME NEW t \in Themes, SaveTheme(t) PROVE FollowOK'
    <2> SUFFICES ASSUME InShell', ~crossed' PROVE (OneSave /\ ReadOK /\ AtRest /\ ThemeOK)'
        BY DEF FollowOK
    <2>1. /\ SendPatch("theme", t, form.theme) /\ UNCHANGED <<page, shell, refresh, cookie>>
          /\ form' = [form EXCEPT !.busy = "theme", !.theme = t]
          /\ OnForm /\ t # form.theme
        BY <1>4, Zenon DEF SaveTheme, FormOnly, Offered
    <2>2. Sendable("theme", t, form.theme) /\ "theme" \in Writes
        BY <1>0 DEF Sendable, Kinds, Writes, Patches, Values, FormType
    <2>3. PICK i \in Slots : /\ SentAt(i, "theme") /\ stored' = stored /\ crossed' = (crossed \/ behind \/ Unsettled)
                             /\ flight'[i].value = t /\ flight'[i].previous = form.theme
        BY <2>1, <2>2, SaveSent
    <2>4. form'.seen = form.seen /\ form'.zone = form.zone /\ form'.dirty = form.dirty /\ form'.name = form.name
        BY <1>0, <2>1 DEF FormType
    <2>5. /\ FreshScreen /\ OneSave' /\ ReadOK'
          /\ \A j \in Slots : Theming(j)' => j = i
          /\ shell = Nobody \/ Worn(shell.theme)
          /\ OnForm => Shows(form, stored)
        BY <2>1, <2>2, <2>3, <2>4, FirstSave
    <2>6. AtRest'
        BY <2>3 DEF AtRest, SentAt, Theming
    <2>7. Trying(i)'
        BY <2>1, <2>3, <2>4, <2>5 DEF Trying, FreshScreen, Current, Worn, Shows, Placed
    <2>8. ThemeOK'
        BY <2>3, <2>5, <2>7 DEF ThemeOK, SentAt
    <2>9. QED
        BY <2>5, <2>6, <2>8
<1>5. QED
    BY <1>1, <1>2, <1>3, <1>4

\* An answer is taken: the save is over, the others are as they were.
LEMMA SaveOver ==
    ASSUME TypeInv, FollowOK, NEW i \in Slots, Writing(i), InShell, ~crossed,
           flight' = [flight EXCEPT ![i] = Free]
    PROVE  \A j \in Slots : ~Writing(j)' /\ ~Theming(j)' /\ ~Done(j)' /\ ~Unserved(j)'
<1>1. \A j \in Slots : flight'[j] = IF j = i THEN Free ELSE flight[j]
    BY Landed DEF TypeInv
<1>2. \A j \in Slots : Writing(j) => j = i
    BY DEF FollowOK, OneSave
<1>3. \A j \in Slots : ~Writing(j)'
    BY <1>1, <1>2 DEF Writing, Free, Writes, Patches
<1>4. QED
    BY <1>3 DEF Writing, Theming, Done, Unserved, Writes, Patches

\* An accepted save is over: the form shows it, the mirror holds it, and a refresh is due.
LEMMA SaveAccepted ==
    ASSUME TypeInv, FollowOK, NEW i \in Slots, Done(i),
           flight' = [flight EXCEPT ![i] = Free], refresh' = [refresh EXCEPT !.asked = InShell],
           UNCHANGED <<page, shell, painted, stored, crossed>>,
           cookie' = IF Theming(i) THEN flight[i].value ELSE cookie,
           \/ form' = form /\ ~Theming(i)
           \/ form' = IF flight[i].alive THEN Settled(form, flight[i].profile) ELSE form
    PROVE  FollowOK'
<1> SUFFICES ASSUME InShell', ~crossed' PROVE (OneSave /\ ReadOK /\ AtRest /\ ThemeOK)'
    BY DEF FollowOK
<1>1. OneSave /\ ReadOK /\ AtRest /\ ThemeOK /\ InShell /\ ~crossed /\ Writing(i)
    BY DEF FollowOK, InShell, Done
<1>2. \A j \in Slots : ~Writing(j)' /\ ~Theming(j)' /\ ~Done(j)' /\ ~Unserved(j)'
    BY <1>1, SaveOver
<1>3. refresh'.asked
    BY <1>1, RefreshAsked
<1>4. CatchingUp' /\ Noticed'
    BY <1>3 DEF CatchingUp, Noticed
<1>5. OneSave' /\ ReadOK' /\ ThemeOK'
    BY <1>2, <1>4 DEF OneSave, ReadOK, ThemeOK
<1>6. flight[i].profile = stored /\ flight[i].alive /\ form \in FormType /\ flight[i].answer = "ok"
    BY <1>1 DEF OneSave, Done, TypeInv, FormOK
<1>7. ~Theming(i) => \A j \in Slots : ~Theming(j)
    <2>1. \A j \in Slots : Theming(j) => Writing(j)
        BY DEF Theming, Writing, Writes, Patches
    <2>2. QED
        BY <1>1, <2>1 DEF OneSave
<1>8. ASSUME shell # Nobody
      PROVE  Worn(shell.theme)' \/ shell.theme # stored.theme
    <2>1. CASE Theming(i)
        <3>1. Stored(i)
            BY <1>1, <1>6, <2>1 DEF ThemeOK
        <3>2. QED
            BY <1>8, <2>1, <3>1 DEF Stored, Worn
    <2>2. CASE ~Theming(i)
        BY <1>1, <1>7, <1>8, <2>2 DEF AtRest, Worn
    <2>3. QED
        BY <2>1, <2>2
<1>9. ASSUME OnForm
      PROVE  Shows(form, form.seen)' \/ Shows(form, stored)'
    <2>1. CASE form' = form /\ ~Theming(i)
        BY <1>1, <1>7, <1>9, <2>1 DEF AtRest, Shows, Placed
    <2>2. CASE form' = Settled(form, stored)
        <3>1. /\ form'.theme = stored.theme /\ form'.zone = Shown(stored.zone) /\ form'.name = stored.name
            BY <1>6, <2>2 DEF Settled, FormType
        <3>2. QED
            BY <3>1 DEF Shows, Placed
    <2>3. QED
        BY <1>6, <2>1, <2>2
<1>10. AtRest'
    BY <1>4, <1>8, <1>9 DEF AtRest, OnForm
<1>11. QED
    BY <1>5, <1>10

\* A save that was not accepted is over: a theme is taken back to what is stored.
LEMMA SaveRejected ==
    ASSUME TypeInv, FollowOK, NEW i \in Slots, Writing(i), flight[i].answer \notin {"none", "ok"},
           flight' = [flight EXCEPT ![i] = Free],
           UNCHANGED <<page, shell, cookie, refresh, stored, behind, crossed>>,
           painted' = Repainted(i), (form' = form /\ ~Theming(i)) \/ form' = (IF flight[i].alive THEN Reverted(i) ELSE form)
    PROVE  FollowOK'
<1> SUFFICES ASSUME InShell', ~crossed' PROVE (OneSave /\ ReadOK /\ AtRest /\ ThemeOK)'
    BY DEF FollowOK
<1>1. OneSave /\ ReadOK /\ AtRest /\ ThemeOK /\ InShell /\ ~crossed
    BY DEF FollowOK, InShell
<1>2. \A j \in Slots : ~Writing(j)' /\ ~Theming(j)' /\ ~Done(j)' /\ ~Unserved(j)'
    BY <1>1, SaveOver
<1>3. \A j \in Slots : ~Done(j)
    BY <1>1 DEF OneSave, Done
<1>4. /\ FreshRead' <=> FreshRead
      /\ CatchingUp' <=> CatchingUp
      /\ OnForm' <=> OnForm
    BY DEF FreshRead, CatchingUp, Current, OnForm
<1>5. form \in FormType /\ flight[i].alive
    BY <1>1 DEF OneSave, TypeInv, FormOK
<1>6. /\ form'.seen = form.seen /\ form'.zone = form.zone /\ form'.dirty = form.dirty /\ form'.name = form.name
      /\ form'.theme = IF Theming(i) THEN flight[i].previous ELSE form.theme
      /\ painted' = IF Theming(i) THEN flight[i].previous ELSE painted
    <2>1. CASE form' = form /\ ~Theming(i)
        BY <2>1 DEF Repainted, Theming
    <2>2. CASE form' = Reverted(i)
        BY <1>5, <2>2 DEF Repainted, Reverted, Theming, FormType
    <2>3. QED
        BY <1>5, <2>1, <2>2
<1>7. FreshScreen' <=> FreshScreen
    BY <1>4, <1>6 DEF FreshScreen, Current
<1>8. OneSave' /\ ThemeOK'
    BY <1>2 DEF OneSave, ThemeOK
<1>9. ReadOK'
    <2>1. Noticed' <=> Noticed
        BY <1>2, <1>3 DEF Noticed
    <2>2. QED
        BY <1>1, <1>2, <1>4, <1>7, <2>1 DEF ReadOK
<1>10. AtRest'
    <2>1. CASE Theming(i)
        <3>1. Trying(i) /\ FreshScreen
            BY <1>1, <2>1 DEF ThemeOK, ReadOK, Unserved
        <3>2. shell # Nobody => Worn(shell.theme)'
            BY <1>6, <2>1, <3>1 DEF Trying, FreshScreen, Current, Worn
        <3>3. OnForm => Shows(form, form.seen)'
            BY <1>6, <2>1, <3>1 DEF Trying, FreshScreen, Shows, Placed
        <3>4. QED
            BY <1>4, <3>2, <3>3 DEF AtRest
    <2>2. CASE ~Theming(i)
        <3>1. \A j \in Slots : Theming(j) => Writing(j)
            BY DEF Theming, Writing, Writes, Patches
        <3>2. \A j \in Slots : ~Theming(j)
            BY <1>1, <2>2, <3>1 DEF OneSave
        <3>3. /\ shell = Nobody \/ Worn(shell.theme) \/ (CatchingUp /\ shell.theme # stored.theme)
              /\ OnForm => Shows(form, form.seen) \/ (CatchingUp /\ Shows(form, stored))
            BY <1>1, <3>2 DEF AtRest
        <3>4. painted' = painted /\ form'.theme = form.theme
            BY <1>6, <2>2
        <3>5. shell' = Nobody \/ Worn(shell.theme)' \/ (CatchingUp' /\ shell'.theme # stored'.theme)
            BY <1>4, <3>3, <3>4 DEF Worn
        <3>6. OnForm' => Shows(form, form.seen)' \/ (CatchingUp' /\ Shows(form, stored)')
            BY <1>4, <1>6, <3>3, <3>4 DEF Shows, Placed
        <3>7. QED
            BY <3>5, <3>6 DEF AtRest
    <2>3. QED
        BY <2>1, <2>2
<1>11. QED
    BY <1>8, <1>9, <1>10

\* The answers to the saves, and to the rest.
LEMMA AnswersFollowed ==
    ASSUME TypeInv, FollowOK, NEW i \in Slots, Adopted(i) \/ SignedOut(i) \/ Saved(i) \/ Answered(i)
    PROVE  FollowOK'
<1>0. stored' = stored /\ behind' = behind /\ crossed' = crossed
    BY Zenon DEF Adopted, SignedOut, Saved, Answered, Local, server, ghosts
<1>1. CASE Adopted(i)
    <2>1. Writing(i) /\ ~Theming(i) /\ flight[i].answer # "none"
        BY <1>1 DEF Adopted, Got, Writing, Theming, Writes
    <2>2. flight' = [flight EXCEPT ![i] = Free] /\ UNCHANGED <<page, shell, painted, form, cookie>>
        BY <1>1, Zenon DEF Adopted, Land
    <2>3. CASE flight[i].answer = "ok"
        <3>1. refresh' = [refresh EXCEPT !.asked = InShell]
            BY <1>1, <2>3 DEF Adopted, AskRefresh
        <3>2. QED
            BY <1>0, <2>1, <2>2, <2>3, <3>1, SaveAccepted DEF Done
    <2>4. CASE flight[i].answer # "ok"
        <3>1. refresh' = refresh /\ painted' = Repainted(i)
            BY <1>1, <2>1, <2>2, <2>4 DEF Adopted, Repainted, Theming
        <3>2. QED
            BY <1>0, <2>1, <2>2, <2>4, <3>1, SaveRejected
    <2>5. QED
        BY <2>3, <2>4
<1>2. CASE SignedOut(i)
    BY <1>2, FollowGone DEF SignedOut
<1>3. CASE Saved(i)
    <2>1. Writing(i) /\ flight[i].answer # "none"
        BY <1>3 DEF Saved, Got, Writing, Writes
    <2>2. CASE flight[i].answer = "ok"
        <3>1. /\ form' = (IF flight[i].alive THEN Settled(form, flight[i].profile) ELSE form)
              /\ cookie' = (IF Theming(i) THEN flight[i].value ELSE cookie)
              /\ refresh' = [refresh EXCEPT !.asked = InShell]
              /\ flight' = [flight EXCEPT ![i] = Free]
              /\ UNCHANGED <<page, shell, painted>>
            BY <1>3, <2>2 DEF Saved, AskRefresh, Land, Theming
        <3>2. QED
            BY <1>0, <2>1, <2>2, <3>1, SaveAccepted DEF Done
    <2>3. CASE flight[i].answer = "unauthenticated" /\ InShell
        BY <1>3, <2>3, FollowGone DEF Saved
    <2>4. CASE flight[i].answer # "ok" /\ ~(flight[i].answer = "unauthenticated" /\ InShell)
        <3>1. /\ form' = (IF flight[i].alive THEN Reverted(i) ELSE form)
              /\ painted' = Repainted(i)
              /\ flight' = [flight EXCEPT ![i] = Free]
              /\ UNCHANGED <<page, shell, refresh, cookie>>
            BY <1>3, <2>4 DEF Saved, Land
        <3>2. QED
            BY <1>0, <2>1, <2>4, <3>1, SaveRejected
    <2>5. QED
        BY <2>2, <2>3, <2>4
<1>4. CASE Answered(i)
    <2>1. CASE flight[i].answer = "unauthenticated" /\ InShell
        BY <1>4, <2>1, FollowGone DEF Answered
    <2>2. CASE ~(flight[i].answer = "unauthenticated" /\ InShell)
        <3>1. /\ flight' = [flight EXCEPT ![i] = Free] /\ flight[i].kind = "delete"
              /\ UNCHANGED <<page, shell, painted, refresh, form, cookie>>
            BY <1>4, <2>2 DEF Answered, Land, ScreenOnly, Got
        <3>2. \A j \in Slots : flight'[j] = IF j = i THEN Free ELSE flight[j]
            BY <3>1, Landed DEF TypeInv
        <3>3. \A j \in Slots : SameSave(j)
            BY <3>1, <3>2 DEF SameSave, Writing, Writes, Patches, Free
        <3>4. QED
            BY <1>0, <3>1, <3>3, FollowStill DEF SameScreen, SameForm
    <2>3. QED
        BY <2>1, <2>2
<1>5. QED
    BY <1>1, <1>2, <1>3, <1>4

\* Steps that neither save nor show anything stored.
LEMMA IdlyFollowed ==
    ASSUME TypeInv, FollowOK, \/ SignOut \/ Cancel \/ Confirm \/ UNCHANGED vars
                              \/ \E text \in Names : TypeName(text)
                              \/ \E password \in {"blank", "wrong", "right"} : RequestDelete(password)
    PROVE  FollowOK'
<1>0. form \in FormType /\ FlightOK /\ BoundsOK /\ session \in BOOLEAN
    BY DEF TypeInv, FormOK, ServerOK
<1>1. CASE SignOut \/ Confirm
    <2>1. /\ UNCHANGED <<page, shell, painted, refresh, form, cookie, behind, crossed>>
          /\ \E kind \in {"logout", "delete"}, value \in Values :
                Sendable(kind, value, "none") /\ Send(kind, value, "none")
        <3>1. CASE SignOut
            <4>1. Sendable("logout", "none", "none")
                BY DEF Sendable, Kinds, Values
            <4>2. QED
                BY <3>1, <4>1 DEF SignOut, Sendable, screen, ghosts
        <3>2. CASE Confirm
            <4>1. Sendable("delete", del.password, "none")
                BY DEF Sendable, Kinds, Values, TypeInv, DelOK, DelType
            <4>2. QED
                BY <3>2, <4>1 DEF Confirm, ScreenOnly, Sendable
        <3>3. QED
            BY <1>1, <3>1, <3>2
    <2>2. PICK kind \in {"logout", "delete"}, value \in Values : Sendable(kind, value, "none") /\ Send(kind, value, "none")
        BY <2>1
    <2>3. UNCHANGED server /\ \E i \in Slots : SentAt(i, kind)
        BY <1>0, <2>2, Sent, Zenon
    <2>4. PICK i \in Slots : SentAt(i, kind)
        BY <2>3
    <2>5. \A j \in Slots : SameSave(j)
        BY <2>4 DEF SentAt, SameSave, Writing, Idle, Writes, Patches
    <2>6. QED
        BY <2>1, <2>3, <2>5, FollowStill DEF SameScreen, SameForm, server
<1>2. CASE Cancel \/ \E password \in {"blank", "wrong", "right"} : RequestDelete(password)
    <2>1. UNCHANGED <<page, shell, painted, refresh, form, cookie, behind, crossed, flight, stored>>
        BY <1>2 DEF Cancel, RequestDelete, ScreenOnly, Local, server, ghosts
    <2>2. QED
        BY <2>1, FollowStill DEF SameScreen, SameForm, SameSave, Writing
<1>3. ASSUME NEW text \in Names, TypeName(text) PROVE FollowOK'
    <2>1. /\ form' = [form EXCEPT !.name = text, !.dirty = TRUE]
          /\ UNCHANGED <<page, shell, painted, refresh, cookie, behind, crossed, flight, stored>>
        BY <1>3 DEF TypeName, FormOnly, Local, server, ghosts
    <2>2. SameScreen
        BY <1>0, <2>1 DEF SameScreen, SameForm, FormType
    <2>3. QED
        BY <2>1, <2>2, FollowStill DEF SameSave, Writing
<1>4. CASE UNCHANGED vars
    <2>1. UNCHANGED <<page, shell, painted, refresh, form, cookie, behind, crossed, flight, stored>>
        BY <1>4 DEF vars, server, screen, ghosts
    <2>2. QED
        BY <2>1, FollowStill DEF SameScreen, SameForm, SameSave, Writing
<1>5. QED
    BY <1>1, <1>2, <1>3, <1>4

\* At the start the page is as it is stored.
LEMMA FollowBegins == Init => FollowOK
<1> SUFFICES ASSUME Init PROVE FollowOK
    OBVIOUS
<1>1. \A i \in Slots : ~Writing(i) /\ ~Theming(i) /\ ~Done(i) /\ ~Unserved(i)
    BY DEF Init, Free, Writing, Theming, Done, Unserved, Writes, Patches
<1>2. OneSave /\ ThemeOK
    BY <1>1 DEF OneSave, ThemeOK
<1>3. page = "home" /\ shell = stored /\ ~refresh.reading /\ painted = stored.theme /\ cookie = stored.theme
    BY DEF Init, NoRefresh
<1>4. ReadOK /\ AtRest
    BY <1>1, <1>3 DEF ReadOK, AtRest, FreshScreen, Current, OnForm, Worn
<1>5. QED
    BY <1>2, <1>4 DEF FollowOK

\* What every step keeps.
LEMMA FollowKeeps == TypeInv /\ FollowOK /\ [Next]_vars => FollowOK'
<1> SUFFICES ASSUME TypeInv, FollowOK, [Next]_vars PROVE FollowOK'
    OBVIOUS
<1>1. CASE OtherDevice
    BY <1>1, OtherDeviceFollowed
<1>2. CASE Refresh
    BY <1>2, RefreshFollowed
<1>3. CASE Read
    BY <1>3, ReadFollowed
<1>4. CASE Render
    <2>1. CASE refresh.out
        BY <1>4, <2>1, FollowGone DEF Render
    <2>2. CASE ~refresh.out
        BY <1>4, <2>2, RenderFollowed
    <2>3. QED
        BY <2>1, <2>2
<1>5. CASE SignIn \/ \E p \in Pages : Navigate(p)
    BY <1>5, NavigateFollowed, Zenon
<1>6. CASE Adopt \/ SaveName \/ (\E z \in Zones : SaveZone(z)) \/ (\E t \in Themes : SaveTheme(t))
    BY <1>6, SendersFollowed, Zenon
<1>7. CASE \/ SignOut \/ Cancel \/ Confirm \/ UNCHANGED vars
           \/ \E text \in Names : TypeName(text)
           \/ \E password \in {"blank", "wrong", "right"} : RequestDelete(password)
    BY <1>7, IdlyFollowed, Zenon
<1>8. ASSUME NEW i \in Slots, Refuse(i) \/ ServePatch(i) \/ ServeDelete(i) \/ ServeLogout(i) \/ Fault(i)
      PROVE  FollowOK'
    BY <1>8, ServerFollowed
<1>9. ASSUME NEW i \in Slots, Adopted(i) \/ SignedOut(i) \/ Saved(i) \/ Answered(i)
      PROVE  FollowOK'
    BY <1>9, AnswersFollowed
<1>10. QED
    BY <1>1, <1>2, <1>3, <1>4, <1>5, <1>6, <1>7, <1>8, <1>9, Zenon DEF Next, Pages

\* Whatever is saved, refused, taken back, adopted or changed elsewhere: a tab that has
\* nothing left to save or read shows what is stored, unless a change is unseen (behind) or,
\* since the page was rendered, a write was sent or met while another write or a refresh
\* was under way, or a theme save was lost (crossed). It names PreferencesFollow.
THEOREM PreferencesAreFollowed == Spec => []PreferencesFollow
<1>1. FollowOK => PreferencesFollow
    <2> SUFFICES ASSUME FollowOK, InShell, shell # Nobody, ~Unsettled, ~behind, ~crossed
                 PROVE  /\ painted = stored.theme /\ cookie = stored.theme
                        /\ OnForm => /\ form.theme = stored.theme /\ form.zone = Shown(stored.zone)
                                     /\ form.dirty \/ form.name = stored.name
        BY DEF PreferencesFollow
    <2>1. ReadOK /\ AtRest
        BY DEF FollowOK
    <2>2. ~refresh.asked /\ ~refresh.reading /\ \A i \in Slots : ~Writing(i)
        BY DEF Unsettled, Out, Writing
    <2>3. \A i \in Slots : ~Done(i) /\ ~Theming(i)
        BY <2>2 DEF Done, Writing, Theming, Writes, Patches
    <2>4. FreshScreen
        BY <2>1, <2>2, <2>3 DEF ReadOK, Noticed
    <2>5. Worn(stored.theme) /\ (OnForm => Shows(form, stored))
        BY <2>1, <2>2, <2>3, <2>4 DEF AtRest, CatchingUp, FreshScreen, Current
    <2>6. QED
        BY <2>5 DEF Worn, Shows, Placed
<1>2. Init => TypeInv /\ FollowOK
    BY Begins, FollowBegins
<1>3. TypeInv /\ FollowOK /\ [Next]_vars => (TypeInv /\ FollowOK)'
    BY Keeps, FollowKeeps
<1>4. QED
    BY <1>1, <1>2, <1>3, PTL DEF Spec
=============================================================================
