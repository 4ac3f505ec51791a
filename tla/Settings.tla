------------------------------ MODULE Settings ------------------------------
(***************************************************************************)
(* One account's preferences and its deletion, as one tab sees them: the   *)
(* shell that applies the theme and adopts a time zone (ThemeSync,         *)
(* TimezoneAdoption), the form that changes them (ProfileForm), the screen *)
(* that deletes the account (DeleteAccount), sign-out and sign-in. The     *)
(* profile is read by every page and written field by field; each save     *)
(* answers with the whole profile, and answers cross each other, the       *)
(* refreshes they ask for and the user's way to another page.              *)
(***************************************************************************)
EXTENDS Naturals

CONSTANTS
    Themes, Zones, Names,   \* what the controls offer; "" is the blank name
    Refused,                \* values the API does not accept
    First,                  \* the profile at the start; its zone may be Unset
    Detected,               \* the browser's own zone
    Slots,                  \* requests of the tab that may be in flight at once
    MaxActs,                \* bound: what the user and other devices do
    MaxLost                 \* bound: requests that fail, or whose answer is lost

Unset == "unset"
Profile == [theme : Themes \ Refused, zone : (Zones \ Refused) \cup {Unset}, name : Names \ Refused]

ASSUME ProfileAssumption ==
    /\ "none" \notin Themes \* what the cleared mirror holds
    /\ Unset \notin Zones /\ "UTC" \in Zones /\ Detected \in Zones
    /\ "" \in Names /\ First \in Profile
ASSUME LimitsAssumption == Slots \subseteq Nat /\ MaxActs \in Nat /\ MaxLost \in Nat

VARIABLES
    account, session,       \* the account; whether the browser's session resolves
    stored,                 \* its profile
    page, shell, attempted, \* the page shown, the profile its shell was rendered with, the adoption
    painted, cookie,        \* the theme on :root, and its mirror for the next load
    refresh,                \* router.refresh(): asked for, and what it has read
    form,                   \* ProfileForm
    del,                    \* DeleteAccount
    flight,                 \* the tab's requests, or Free
    acts, lost,             \* counters for the bounds
    behind,                 \* ghost: a stored change no read has seen, and none was asked for
    crossed,                \* ghost: a save or an adoption was sent over an unsettled tab, a
                            \* change met one, or a theme save was lost (until the next page)
    unheard                 \* ghost: a deletion this screen was not, or not alone, told of

server == <<account, session, stored>>
screen == <<page, shell, attempted, painted, refresh, form, del>>
ghosts == <<behind, crossed, unheard>>
vars == <<server, screen, cookie, flight, acts, lost, ghosts>>

Nobody == [theme |-> "none", zone |-> Unset, name |-> ""]
Free == [kind |-> "free", answer |-> "none"]
NoRefresh == [asked |-> FALSE, reading |-> FALSE, out |-> FALSE, shell |-> Nobody, card |-> Nobody]

\* useState(profile...): what the controls start from.
Shown(zone) == IF zone = Unset THEN "UTC" ELSE zone
FormOf(p) == [theme |-> p.theme, zone |-> Shown(p.zone), name |-> p.name,
              dirty |-> FALSE, busy |-> "none", seen |-> p]
NoScreen == [state |-> "default", password |-> "blank", field |-> "none", alert |-> "none"]

Init ==
    /\ account = "live" /\ session = TRUE /\ stored = First
    /\ page = "home" /\ shell = First /\ attempted = FALSE
    /\ painted = First.theme /\ cookie = First.theme
    /\ refresh = NoRefresh /\ form = FormOf(First) /\ del = NoScreen
    /\ flight = [i \in Slots |-> Free]
    /\ acts = 0 /\ lost = 0
    /\ behind = FALSE /\ crossed = FALSE /\ unheard = FALSE

-----------------------------------------------------------------------------
(* The server.                                                             *)

Patches == {"theme", "zone", "name"}
Writes == Patches \cup {"adopt"}
Idle(i) == flight[i].kind = "free"
Out(kinds) == {i \in Slots : flight[i].kind \in kinds}
Waiting(i, kinds) == flight[i].kind \in kinds /\ flight[i].answer = "none"
ServerOnly == UNCHANGED <<screen, cookie, acts, lost>>

\* The session is gone for every request that has not been served.
Cut == [i \in Slots |-> IF ~Idle(i) /\ flight[i].answer = "none" THEN [flight[i] EXCEPT !.valid = FALSE] ELSE flight[i]]

\* A save, or a refresh, is under way.
Unsettled == Out(Writes) # {} \/ refresh.asked \/ refresh.reading

\* SessionGuard.
Refuse(i) ==
    /\ Waiting(i, Writes \cup {"delete"}) /\ ~flight[i].valid
    /\ flight' = [flight EXCEPT ![i].answer = "unauthenticated"]
    /\ UNCHANGED <<server, ghosts>> /\ ServerOnly

\* The column a request writes.
Field(i) == IF flight[i].kind = "adopt" THEN "zone" ELSE flight[i].kind

\* Deviation (the API stores what it is sent): caught by TypeOK.
AnyValue(v) == TRUE

\* normalizeDisplayName, validateTimezone, validateTheme.
Accepts(v) == v \notin Refused

\* PATCH /profile: one column, whatever it held, and the whole row in the answer.
ServePatch(i) ==
    /\ Waiting(i, Writes) /\ flight[i].valid
    /\ IF ~Accepts(flight[i].value)
       THEN flight' = [flight EXCEPT ![i].answer = "invalid"] /\ UNCHANGED stored
       ELSE /\ stored' = [stored EXCEPT ![Field(i)] = flight[i].value]
            /\ flight' = [flight EXCEPT ![i].answer = "ok", ![i].profile = stored']
    /\ UNCHANGED <<account, session, ghosts>> /\ ServerOnly

\* POST /account/delete: the limiter, the password, then the user and all that is theirs.
ServeDelete(i) ==
    /\ Waiting(i, {"delete"}) /\ flight[i].valid
    /\ \/ /\ flight' = [flight EXCEPT ![i].answer = "limited"]
          /\ UNCHANGED <<account, session>>
       \/ /\ flight[i].value # "right"
          /\ flight' = [flight EXCEPT ![i].answer = "wrong"]
          /\ UNCHANGED <<account, session>>
       \/ /\ flight[i].value = "right"
          /\ flight' = [Cut EXCEPT ![i].answer = "ok"]
          /\ account' = "gone" /\ session' = FALSE
    /\ UNCHANGED <<stored, ghosts>> /\ ServerOnly

\* POST /auth/logout: idempotent, and open to anyone.
ServeLogout(i) ==
    /\ Waiting(i, {"logout"})
    /\ flight' = [Cut EXCEPT ![i].answer = "ok"]
    /\ session' = FALSE
    /\ UNCHANGED <<account, stored, ghosts>> /\ ServerOnly

\* The BFF or the API fails, or the request was served and its answer is lost.
Fault(i) ==
    /\ ~Idle(i) /\ flight[i].answer \in {"none", "ok"}
    /\ lost < MaxLost /\ lost' = lost + 1
    /\ flight' = [flight EXCEPT ![i].answer = "fail"]
    /\ IF flight[i].answer = "ok"
       THEN /\ behind' = TRUE
            /\ crossed' = (crossed \/ flight[i].kind = "theme")
            /\ unheard' = (unheard \/ flight[i].kind = "delete")
       ELSE UNCHANGED ghosts
    /\ UNCHANGED <<server, screen, cookie, acts>>

Happens == acts < MaxActs /\ acts' = acts + 1

\* Another device changes the profile, ends the session (a new password), or deletes the account.
OtherDevice ==
    /\ account = "live" /\ Happens
    /\ \/ /\ \E p \in {[stored EXCEPT !.theme = t] : t \in Themes \ Refused}
                      \cup {[stored EXCEPT !.zone = z] : z \in Zones \ Refused}
                      \cup {[stored EXCEPT !.name = n] : n \in Names \ Refused} :
                stored' = p /\ p # stored
          /\ behind' = TRUE
          /\ crossed' = (crossed \/ Unsettled)
          /\ UNCHANGED <<account, session, flight, unheard>>
       \/ /\ session' = FALSE /\ flight' = Cut
          /\ \E a \in {"live", "gone"} : account' = a /\ unheard' = (unheard \/ a = "gone")
          /\ UNCHANGED <<stored, behind, crossed>>
    /\ UNCHANGED <<screen, cookie, lost>>

-----------------------------------------------------------------------------
(* The shell.                                                              *)

InShell == page # "signin"
Local == UNCHANGED <<server, lost>>
AskRefresh == refresh' = [refresh EXCEPT !.asked = InShell]

\* The islands of the page that is left: their requests go on without them.
Orphaned == [i \in Slots |-> IF Idle(i) THEN Free ELSE [flight[i] EXCEPT !.alive = FALSE]]

\* ThemeSync: a profile that could not be fetched leaves the theme alone.
SyncTheme(view) ==
    IF view = Nobody THEN UNCHANGED <<painted, cookie>>
    ELSE painted' = view.theme /\ cookie' = view.theme

\* Any page without a session, and the profile page without a profile, redirect.
Leave ==
    /\ page' = "signin" /\ shell' = Nobody /\ attempted' = FALSE
    /\ refresh' = NoRefresh /\ form' = FormOf(First) /\ del' = NoScreen

\* A page is rendered on the server and mounts a shell of its own.
Arrive(p, view, card) ==
    /\ page' = p /\ shell' = view /\ attempted' = FALSE
    /\ refresh' = NoRefresh /\ form' = FormOf(card) /\ del' = NoScreen
    /\ SyncTheme(view)
    /\ behind' = FALSE
    /\ crossed' = (Out(Writes) # {})
    /\ unheard' = (unheard /\ (account = "gone" \/ Out({"delete"}) # {}))

\* What a page is rendered with: its own profile, its shell's, or the way out.
Out401(p, card) == ~session \/ (p = "profile" /\ card = Nobody)
Views == IF session THEN {stored, Nobody} ELSE {Nobody}

\* The card that replaces the screen, with a link to the sign-in screen only.
Confirmed == del.state = "confirmed"

\* A link of the shell, or of the confirmation. Nothing in flight is aborted.
Navigate(p) ==
    /\ InShell /\ p # page /\ Happens
    /\ p = "signin" => Confirmed
    /\ flight' = Orphaned
    /\ \E view, card \in Views :
        IF p = "signin" \/ Out401(p, card)
        THEN Leave /\ UNCHANGED <<painted, cookie, ghosts>>
        ELSE Arrive(p, view, IF p = "profile" THEN card ELSE First)
    /\ Local

\* The sign-in screen; the right password lands on the home page.
SignIn ==
    /\ page = "signin" /\ account = "live" /\ Happens
    /\ session' = TRUE
    /\ \E view \in {stored, Nobody} : Arrive("home", view, First)
    /\ UNCHANGED <<account, stored, flight, lost>>

\* SyncProvider: focus, a signal, or its poll.
Refresh ==
    /\ InShell /\ ~refresh.asked
    /\ Happens
    /\ AskRefresh
    /\ UNCHANGED <<page, shell, attempted, painted, form, del, cookie, flight, ghosts>> /\ Local

\* The page is rendered again on the server ...
Read ==
    /\ refresh.asked /\ ~refresh.reading
    /\ \E view, card \in Views :
        refresh' = [asked |-> FALSE, reading |-> TRUE, out |-> Out401(page, card),
                    shell |-> view, card |-> IF page = "profile" THEN card ELSE Nobody]
    /\ behind' = FALSE
    /\ UNCHANGED <<page, shell, attempted, painted, form, del, cookie, flight, acts, crossed, unheard>> /\ Local

\* Deviation (the form keeps what it was mounted with): caught by PreferencesFollow.
Unsynced(f, p) == f

\* ProfileForm adjusts itself during render; a name being typed is left alone.
Synced(f, p) ==
    IF f.seen = p THEN f
    ELSE [f EXCEPT !.seen = p, !.zone = Shown(p.zone), !.theme = p.theme,
                   !.name = IF f.dirty THEN @ ELSE p.name]

\* ... and the islands keep their state, unless it redirects.
Render ==
    /\ refresh.reading
    /\ IF refresh.out
       THEN Leave /\ flight' = Orphaned /\ UNCHANGED <<painted, cookie>>
       ELSE /\ shell' = refresh.shell
            /\ IF refresh.shell.theme # shell.theme THEN SyncTheme(refresh.shell) ELSE UNCHANGED <<painted, cookie>>
            /\ form' = IF page = "profile" THEN Synced(form, refresh.card) ELSE form
            /\ refresh' = [NoRefresh EXCEPT !.asked = refresh.asked]
            /\ UNCHANGED <<page, attempted, del, flight>>
    /\ UNCHANGED <<acts, ghosts>> /\ Local

\* fetch(): the lowest free slot, with the session the browser has.
Send(kind, value, previous) ==
    /\ Happens
    /\ \E i \in Slots :
        /\ Idle(i) /\ \A j \in Slots : Idle(j) => i <= j
        /\ flight' = [flight EXCEPT ![i] =
             [kind |-> kind, value |-> value, previous |-> previous, profile |-> Nobody,
              answer |-> "none", alive |-> TRUE, valid |-> session]]
    /\ Local

\* A write sent before the tab shows the one before it, its own or another device's.
SendPatch(kind, value, previous) ==
    /\ Send(kind, value, previous)
    /\ crossed' = (crossed \/ behind \/ Unsettled)
    /\ UNCHANGED <<behind, unheard>>

Got(i, kinds) == flight[i].kind \in kinds /\ flight[i].answer # "none"
Land(i) == flight' = [flight EXCEPT ![i] = Free]

\* TimezoneAdoption: once in each shell, for a profile without a zone.
Adopt ==
    /\ InShell /\ ~attempted /\ shell # Nobody /\ shell.zone = Unset
    /\ attempted' = TRUE
    /\ SendPatch("adopt", Detected, "none")
    /\ UNCHANGED <<page, shell, painted, refresh, form, del, cookie>>

\* A failure is silent.
Adopted(i) ==
    /\ Got(i, {"adopt"}) /\ Land(i)
    /\ IF flight[i].answer = "ok" THEN AskRefresh ELSE UNCHANGED refresh
    /\ UNCHANGED <<page, shell, attempted, painted, form, del, cookie, acts, ghosts>> /\ Local

SignOut ==
    /\ InShell /\ Out({"logout"}) = {}
    /\ Send("logout", "none", "none")
    /\ UNCHANGED <<screen, cookie, ghosts>>

\* Whatever the answer: the mirror is cleared and the sign-in screen shown.
SignedOut(i) ==
    /\ Got(i, {"logout"})
    /\ flight' = [Orphaned EXCEPT ![i] = Free]
    /\ cookie' = "none" /\ Leave
    /\ UNCHANGED <<painted, acts, ghosts>> /\ Local

-----------------------------------------------------------------------------
(* ProfileForm.                                                            *)

OnForm == page = "profile"
FormOnly == UNCHANGED <<page, shell, attempted, refresh, del, cookie>>

TypeName(text) ==
    /\ OnForm /\ acts < MaxActs /\ text # form.name
    /\ form' = [form EXCEPT !.name = text, !.dirty = TRUE]
    /\ FormOnly /\ UNCHANGED <<painted, flight, acts, ghosts>> /\ Local

\* Save: a blank name is sent as null. Only the control of the last save waits for it.
SaveName ==
    /\ OnForm /\ form.busy # "name"
    /\ SendPatch("name", form.name, "none")
    /\ form' = [form EXCEPT !.busy = "name"]
    /\ FormOnly /\ UNCHANGED painted

\* The select keeps showing the old zone until the answer is in.
SaveZone(z) ==
    /\ OnForm /\ form.busy # "zone" /\ z # form.zone
    /\ SendPatch("zone", z, "none")
    /\ form' = [form EXCEPT !.busy = "zone"]
    /\ FormOnly /\ UNCHANGED painted

\* The radios, disabled while a save of theirs is the last one.
Offered(t) == OnForm /\ form.busy # "theme" /\ t # form.theme

\* onThemeChange: the whole product changes at once, and may have to change back.
SaveTheme(t) ==
    /\ Offered(t)
    /\ SendPatch("theme", t, form.theme)
    /\ form' = [form EXCEPT !.busy = "theme", !.theme = t]
    /\ painted' = t
    /\ FormOnly

\* The server's truth, for all three controls.
Settled(f, p) == [f EXCEPT !.theme = p.theme, !.zone = Shown(p.zone), !.name = p.name,
                           !.dirty = FALSE, !.busy = "none"]

\* A theme that was not accepted is taken back, to what the form showed before.
Reverted(i) == [form EXCEPT !.busy = "none", !.theme = IF flight[i].kind = "theme" THEN flight[i].previous ELSE @]
Repainted(i) == IF flight[i].kind = "theme" THEN flight[i].previous ELSE painted

\* save(): a form that is gone still refreshes, redirects, repaints and writes the mirror.
Saved(i) ==
    LET theme == flight[i].kind = "theme"
        set(f) == IF flight[i].alive THEN f ELSE form
    IN
    /\ Got(i, Patches)
    /\ IF flight[i].answer = "ok"
       THEN /\ form' = set(Settled(form, flight[i].profile))
            /\ cookie' = IF theme THEN flight[i].value ELSE cookie
            /\ AskRefresh /\ Land(i)
            /\ UNCHANGED <<page, shell, attempted, painted, del>>
       ELSE IF flight[i].answer = "unauthenticated" /\ InShell
       THEN /\ flight' = [Orphaned EXCEPT ![i] = Free]
            /\ painted' = Repainted(i)
            /\ Leave /\ UNCHANGED cookie
       ELSE /\ form' = set(Reverted(i))
            /\ painted' = Repainted(i)
            /\ Land(i)
            /\ UNCHANGED <<page, shell, attempted, refresh, del, cookie>>
    /\ UNCHANGED <<acts, ghosts>> /\ Local

-----------------------------------------------------------------------------
(* DeleteAccount.                                                          *)

OnDelete == page = "delete"
ScreenOnly == UNCHANGED <<page, shell, attempted, painted, refresh, form, cookie>>

\* Deviation (an old alert stays): caught by DeletionToldTruly.
Kept(d) == d

\* Every attempt, the alert's own "Try again" included, starts without the alert.
Cleared(d) == [d EXCEPT !.alert = "none"]

\* onRequestDelete: without a password there is nothing to confirm.
Checked(d, password) ==
    IF password = "blank"
    THEN [Cleared(d) EXCEPT !.password = password, !.field = "empty"]
    ELSE [Cleared(d) EXCEPT !.password = password, !.field = "none", !.state = "confirming"]

\* The page's button raises the dialog. While a request is out the dialog no longer
\* holds the focus, and the button can be reached with the keyboard.
RequestDelete(password) ==
    /\ OnDelete /\ del.state \in {"default", "deleting"} /\ acts < MaxActs
    /\ del' = Checked(del, password)
    /\ ScreenOnly /\ UNCHANGED <<flight, acts, ghosts>> /\ Local

\* Cancel, Esc, or the scrim.
Cancel ==
    /\ OnDelete /\ del.state = "confirming"
    /\ del' = [del EXCEPT !.state = "default"]
    /\ ScreenOnly /\ UNCHANGED <<flight, acts, ghosts>> /\ Local

Confirm ==
    /\ OnDelete /\ del.state = "confirming"
    /\ Send("delete", del.password, "none")
    /\ del' = [del EXCEPT !.state = "deleting"]
    /\ unheard' = (unheard \/ Out({"delete"}) # {})
    /\ ScreenOnly /\ UNCHANGED <<behind, crossed>>

\* onConfirm's continuation: every failure closes the dialog, whichever is open.
Told(d, answer) ==
    CASE answer = "ok" -> [d EXCEPT !.state = "confirmed"]
      [] answer = "wrong" -> [d EXCEPT !.state = "default", !.field = "wrong"]
      [] OTHER -> [d EXCEPT !.state = "default", !.alert = IF answer = "limited" THEN "limited" ELSE "failed"]

Answered(i) ==
    /\ Got(i, {"delete"})
    /\ IF flight[i].answer = "unauthenticated" /\ InShell
       THEN Leave /\ flight' = [Orphaned EXCEPT ![i] = Free] /\ UNCHANGED <<painted, cookie, unheard>>
       ELSE /\ Land(i) /\ ScreenOnly
            /\ del' = IF flight[i].alive THEN Told(del, flight[i].answer) ELSE del
            /\ unheard' = (unheard \/ (flight[i].answer = "ok" /\ ~flight[i].alive))
    /\ UNCHANGED <<acts, behind, crossed>> /\ Local

-----------------------------------------------------------------------------

Next ==
    \/ OtherDevice \/ SignIn \/ Refresh \/ Read \/ Render
    \/ Adopt \/ SignOut \/ SaveName \/ Cancel \/ Confirm
    \/ \E p \in {"home", "profile", "delete", "signin"} : Navigate(p)
    \/ \E text \in Names : TypeName(text)
    \/ \E z \in Zones : SaveZone(z)
    \/ \E t \in Themes : SaveTheme(t)
    \/ \E password \in {"blank", "wrong", "right"} : RequestDelete(password)
    \/ \E i \in Slots : ServePatch(i) \/ ServeDelete(i) \/ ServeLogout(i) \/ Refuse(i) \/ Fault(i)
                        \/ Adopted(i) \/ SignedOut(i) \/ Saved(i) \/ Answered(i)

Spec == Init /\ [][Next]_vars

-----------------------------------------------------------------------------

\* Type invariant.
TypeOK ==
    /\ account \in {"live", "gone"} /\ session \in BOOLEAN /\ (session => account = "live")
    /\ stored \in Profile /\ shell \in Profile \cup {Nobody}
    /\ page \in {"signin", "home", "profile", "delete"} /\ attempted \in BOOLEAN
    /\ painted \in Themes /\ cookie \in Themes \cup {"none"}
    /\ form.busy \in Patches \cup {"none"} /\ form.seen \in Profile
    /\ del.state \in {"default", "confirming", "deleting", "confirmed"}
    /\ acts \in 0..MaxActs /\ lost \in 0..MaxLost

\* Once the tab's writes are answered and its refreshes rendered, the theme on the page,
\* its mirror and every control of the form show the stored profile, a name being typed
\* excepted, whatever was refused, taken back or adopted (ui-design D1, D9). It is about
\* one write at a time. Outside it, until the next page is rendered, is a tab that sent a
\* save or an adoption while another write was out, a refresh was asked for or being read,
\* or a change was unseen; whose profile another device changed while a write or a refresh
\* was out; that was left with a write out; or that lost the answer to a theme save.
PreferencesFollow ==
    InShell /\ shell # Nobody /\ ~Unsettled
    /\ ~behind /\ ~crossed =>
        /\ painted = stored.theme /\ cookie = stored.theme
        /\ OnForm => /\ form.theme = stored.theme /\ form.zone = Shown(stored.zone)
                     /\ form.dirty \/ form.name = stored.name

\* The screen says the account is deleted only when it is, waits only while a request of its
\* own is out, and "Nothing has been deleted" stands only over a live account, unless the
\* answer was lost, two requests crossed or another device did it (DeleteAccount.onConfirm).
DeletionToldTruly ==
    /\ Confirmed => account = "gone"
    /\ del.state = "deleting" => \E i \in Out({"delete"}) : flight[i].alive
    /\ account = "gone" /\ ~unheard => del.field # "wrong" /\ del.alert # "failed"

\* FEAT-018 D10: with nothing else in flight, the confirmation stands until the user leaves it.
ConfirmationStays ==
    [][Confirmed /\ acts' = acts /\ (\A i \in Slots : Idle(i)) => Confirmed']_vars
=============================================================================
