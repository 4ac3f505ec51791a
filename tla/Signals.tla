------------------------------ MODULE Signals ------------------------------
(***************************************************************************)
(* How a write made on one device reaches the screen of another: the API   *)
(* publishes a signal after each write, behind a circuit breaker; the      *)
(* other device's SyncProvider refreshes on a signal, on focus, and, while *)
(* it has no socket, by polling.                                           *)
(*                                                                         *)
(* What is stored is a version, counting the writes. A timer is armed or   *)
(* not; how long it takes is left out, except for the breaker's openUntil  *)
(* (openFor is what is left of it). The provider's socket, its channel and *)
(* the router are external, and modelled by what SyncProvider sees of them.*)
(***************************************************************************)
EXTENDS Integers

CONSTANTS
    Writers,            \* writing requests in flight
    Threshold,          \* BREAKER_THRESHOLD
    OpenFor,            \* BREAKER_OPEN_MS
    MaxWrites,          \* bound: writes in a behaviour
    MaxFaults           \* bound: API restarts and failed refreshes in a behaviour

ASSUME LimitsAssumption ==
    /\ Threshold \in Nat \ {0} /\ OpenFor \in Nat \ {0}
    /\ MaxWrites \in Nat \ {0} /\ MaxFaults \in Nat

VARIABLES
    stored,             \* the version in the database
    request,            \* a writer: "idle", "committed" or "sending"
    failures,           \* consecutiveFailures, saturating at Threshold
    openFor,            \* openUntil - now, 0 when past
    inFlight,           \* signals on their way to the tab
    link,               \* the channel is joined, as the provider sees it
    socket,             \* connect(): "asking", "opening", "open" or "off"
    connected,          \* connected.current
    token,              \* the socket's token: "none", "valid" or "expired"
    tokenTimer,         \* refreshToken: "none", "armed" or "minting"
    visible,            \* document.visibilityState
    disposed,           \* disposed.current
    coalesce, poll,     \* coalesceTimer.current and pollTimer.current are set
    asked,              \* router.refresh() called and not begun
    answer,             \* the version a refresh has read, or None
    shown,              \* the version on the screen
    lost,               \* ghost: a signal lost to a connected tab that has not refreshed since
    faults

apiVars == <<request, failures, openFor>>
socketVars == <<socket, token, tokenTimer>>
routerVars == <<asked, answer, shown>>
vars == <<stored, apiVars, inFlight, link, socketVars, connected, visible, disposed, coalesce,
          poll, routerVars, lost, faults>>

None == -1

\* The page was rendered before it is mounted: a write may have come in between.
Init ==
    /\ stored \in 0..1
    /\ request = [w \in Writers |-> "idle"]
    /\ failures = 0 /\ openFor = 0
    /\ inFlight = 0 /\ link = FALSE
    /\ socket = "asking" /\ connected = FALSE
    /\ token = "none" /\ tokenTimer = "none"
    /\ visible \in BOOLEAN
    /\ disposed = FALSE
    /\ coalesce = FALSE /\ poll = visible
    /\ asked = FALSE /\ answer = None /\ shown = 0
    /\ lost = FALSE /\ faults = 0

-----------------------------------------------------------------------------
(* The API: ChangeSignalInterceptor and SupabaseRealtimePublisher.         *)

ClientUnchanged ==
    UNCHANGED <<link, socketVars, connected, visible, disposed, coalesce, poll, routerVars>>

\* The handler's write is committed; one that throws publishes nothing.
Commit(w) ==
    /\ request[w] = "idle" /\ stored < MaxWrites
    /\ stored' = stored + 1
    /\ request' = [request EXCEPT ![w] = "committed"]
    /\ UNCHANGED <<failures, openFor, inFlight, lost, faults>> /\ ClientUnchanged

\* The tab relies on signals: it does not poll, and its channel works.
Relying == connected /\ link

\* openUntil > now: the request answers without publishing ...
Skip(w) ==
    /\ request[w] = "committed" /\ openFor > 0
    /\ request' = [request EXCEPT ![w] = "idle"]
    /\ lost' = (lost \/ Relying)
    /\ UNCHANGED <<stored, failures, openFor, inFlight, faults>> /\ ClientUnchanged

\* ... or waits for the provider.
Send(w) ==
    /\ request[w] = "committed" /\ openFor = 0
    /\ request' = [request EXCEPT ![w] = "sending"]
    /\ UNCHANGED <<stored, failures, openFor, inFlight, lost, faults>> /\ ClientUnchanged

\* Deviation (openUntil is not reset): caught by BreakerEarned.
StillOpen == openFor

\* onSuccess, openUntil
Closed == 0

\* onSuccess: also of a publish that began before the breaker opened.
PublishOk(w) ==
    /\ request[w] = "sending"
    /\ request' = [request EXCEPT ![w] = "idle"]
    /\ failures' = 0
    /\ openFor' = Closed
    /\ inFlight' = IF link THEN inFlight + 1 ELSE inFlight
    /\ UNCHANGED <<stored, lost, faults>> /\ ClientUnchanged

\* Deviation (the count does not saturate): caught by TypeOK.
Counted(n) == n + 1

NextFailures(n) == IF n < Threshold THEN n + 1 ELSE n

\* onFailure: an error, a refusal or the timeout, after which the provider may
\* have broadcast all the same.
PublishFails(w) ==
    /\ request[w] = "sending"
    /\ request' = [request EXCEPT ![w] = "idle"]
    /\ failures' = NextFailures(failures)
    /\ openFor' = IF failures + 1 >= Threshold THEN OpenFor ELSE openFor
    /\ \/ link /\ inFlight' = inFlight + 1 /\ UNCHANGED lost
       \/ inFlight' = inFlight /\ lost' = (lost \/ Relying)
    /\ UNCHANGED <<stored, faults>> /\ ClientUnchanged

\* The instance dies between a commit and its publish; the breaker is memory.
ApiDies ==
    /\ faults < MaxFaults
    /\ faults' = faults + 1
    /\ lost' = (lost \/ (Relying /\ \E w \in Writers : request[w] # "idle"))
    /\ request' = [w \in Writers |-> "idle"]
    /\ failures' = 0 /\ openFor' = 0
    /\ UNCHANGED <<stored, inFlight>> /\ ClientUnchanged

Tick ==
    /\ openFor > 0
    /\ openFor' = openFor - 1
    /\ UNCHANGED <<stored, request, failures, inFlight, lost, faults>> /\ ClientUnchanged

-----------------------------------------------------------------------------
(* SyncProvider: what its timers and events call.                          *)

ApiUnchanged == UNCHANGED <<stored, apiVars, faults>>

\* scheduleRefresh: one refresh per burst.
ScheduleRefresh == coalesce' = (coalesce \/ ~disposed)

\* refreshNow
RefreshNow ==
    /\ coalesce' = (coalesce /\ disposed)
    /\ asked' = (asked \/ ~disposed)

\* Deviation (nextPollDelay ignores the socket): caught by PollIffBlind.
Sighted == visible'

\* nextPollDelay is not null.
Blind == ~connected' /\ visible'

\* scheduleNextPoll: the old timer is cleared, a new one armed if needed.
ScheduleNextPoll == poll' = (~disposed /\ Blind)

\* The coalescing timer fires.
CoalesceFires ==
    /\ coalesce
    /\ coalesce' = FALSE
    /\ asked' = TRUE
    /\ UNCHANGED <<inFlight, link, socketVars, connected, visible, disposed, poll, answer, shown,
                   lost>>
    /\ ApiUnchanged

\* The polling timer fires.
PollFires ==
    /\ poll
    /\ ScheduleRefresh
    /\ UNCHANGED <<inFlight, link, socketVars, connected, visible, disposed, routerVars, lost>>
    /\ ScheduleNextPoll
    /\ ApiUnchanged

\* onVisibility
Hide ==
    /\ visible /\ ~disposed
    /\ visible' = FALSE
    /\ UNCHANGED <<inFlight, link, socketVars, connected, disposed, coalesce, routerVars, lost>>
    /\ ScheduleNextPoll
    /\ ApiUnchanged

Show ==
    /\ ~visible /\ ~disposed
    /\ visible' = TRUE
    /\ RefreshNow
    /\ UNCHANGED <<inFlight, link, socketVars, connected, disposed, answer, shown, lost>>
    /\ ScheduleNextPoll
    /\ ApiUnchanged

\* onFocusOrOnline
FocusOrOnline ==
    /\ ~disposed
    /\ RefreshNow
    /\ UNCHANGED <<inFlight, link, socketVars, connected, visible, disposed, answer, shown, lost>>
    /\ ScheduleNextPoll
    /\ ApiUnchanged

\* Unmounting: timers are cleared, and a subscription is closed if there is one.
Dispose ==
    /\ ~disposed
    /\ disposed' = TRUE
    /\ coalesce' = FALSE /\ poll' = FALSE
    /\ tokenTimer' = IF tokenTimer = "armed" THEN "none" ELSE tokenTimer
    /\ socket' = IF socket = "open" THEN "off" ELSE socket
    /\ link' = FALSE /\ inFlight' = 0
    /\ UNCHANGED <<connected, token, visible, routerVars, lost>>
    /\ ApiUnchanged

-----------------------------------------------------------------------------
(* The socket: connect(), refreshToken() and subscribeToChanges().         *)

ScreenUnchanged ==
    UNCHANGED <<inFlight, connected, visible, disposed, coalesce, poll, routerVars, lost>>

\* connect(): no session, no provider, an error, or unmounted meanwhile ...
NoToken ==
    /\ socket = "asking"
    /\ socket' = "off"
    /\ UNCHANGED <<link, token, tokenTimer>> /\ ScreenUnchanged /\ ApiUnchanged

\* ... or a token, with which the channel is opened ...
TokenGiven ==
    /\ socket = "asking" /\ ~disposed
    /\ socket' = "opening" /\ token' = "valid"
    /\ UNCHANGED <<link, tokenTimer>> /\ ScreenUnchanged /\ ApiUnchanged

\* Deviation (disposed is not looked at again): caught by NothingAfterDispose.
KeepOpen == TRUE

\* disposed.current after the await
StillWanted == ~disposed

\* ... and kept, unless the tab was unmounted while it was being opened; or the
\* import or the opening fails.
Opened ==
    /\ socket = "opening"
    /\ socket' = IF StillWanted THEN "open" ELSE "off"
    /\ tokenTimer' = IF StillWanted THEN "armed" ELSE "none"
    /\ UNCHANGED <<link, token>> /\ ScreenUnchanged /\ ApiUnchanged

OpenFails ==
    /\ socket = "opening"
    /\ socket' = "off"
    /\ UNCHANGED <<link, token, tokenTimer>> /\ ScreenUnchanged /\ ApiUnchanged

\* refreshToken, at 80% of the lifetime ...
TokenTimerFires ==
    /\ tokenTimer = "armed"
    /\ tokenTimer' = "minting"
    /\ UNCHANGED <<link, socket, token>> /\ ScreenUnchanged /\ ApiUnchanged

\* ... sets the new token and is armed again ...
Minted ==
    /\ tokenTimer = "minting" /\ ~disposed
    /\ tokenTimer' = "armed" /\ token' = "valid"
    /\ UNCHANGED <<link, socket>> /\ ScreenUnchanged /\ ApiUnchanged

\* ... or, after any failure, never runs again.
NotMinted ==
    /\ tokenTimer = "minting"
    /\ tokenTimer' = "none"
    /\ UNCHANGED <<link, socket, token>> /\ ScreenUnchanged /\ ApiUnchanged

\* The provider joins the channel, first or again, if the token is valid.
Joined ==
    /\ socket = "open" /\ ~link /\ ~connected /\ token = "valid"
    /\ link' = TRUE
    /\ UNCHANGED socketVars /\ ScreenUnchanged /\ ApiUnchanged

\* Deviation (no refresh on reconnect): caught by StaleIsCovered.
NoCatchUp == coalesce' = coalesce

\* "A drop can lose signals, so the reconnect itself is a reason to refetch"
CatchUp == ScheduleRefresh

\* subscribe's callback: SUBSCRIBED.
Subscribed ==
    /\ link /\ ~connected
    /\ connected' = TRUE
    /\ UNCHANGED <<inFlight, link, socketVars, visible, disposed, routerVars, lost>>
    /\ CatchUp
    /\ ScheduleNextPoll
    /\ ApiUnchanged

\* The connection breaks, or the token expires: no one has noticed yet, and what
\* was on its way is gone.
Drop ==
    /\ link
    /\ link' = FALSE /\ inFlight' = 0
    /\ token' \in {token, "expired"}
    /\ UNCHANGED <<socket, tokenTimer, connected, visible, disposed, coalesce, poll, routerVars,
                   lost>>
    /\ ApiUnchanged

\* subscribe's callback: CHANNEL_ERROR, TIMED_OUT or CLOSED.
DropNoticed ==
    /\ connected /\ ~link
    /\ connected' = FALSE
    /\ UNCHANGED <<inFlight, link, socketVars, visible, disposed, coalesce, routerVars, lost>>
    /\ ScheduleNextPoll
    /\ ApiUnchanged

\* A signal arrives.
Deliver ==
    /\ inFlight > 0
    /\ inFlight' = inFlight - 1
    /\ ScheduleRefresh
    /\ UNCHANGED <<link, socketVars, connected, visible, disposed, poll, routerVars, lost>>
    /\ ApiUnchanged

-----------------------------------------------------------------------------
(* router.refresh(): one at a time, those asked for meanwhile follow.      *)

RefreshReads ==
    /\ asked /\ answer = None
    /\ asked' = FALSE /\ answer' = stored
    /\ lost' = FALSE
    /\ UNCHANGED <<inFlight, link, socketVars, connected, visible, disposed, coalesce, poll, shown>>
    /\ ApiUnchanged

RefreshShows ==
    /\ answer # None
    /\ shown' = answer /\ answer' = None
    /\ UNCHANGED <<inFlight, link, socketVars, connected, visible, disposed, coalesce, poll, asked,
                   lost>>
    /\ ApiUnchanged

\* The answer is an error, or does not come: the screen stays.
RefreshFails ==
    /\ answer # None /\ faults < MaxFaults
    /\ faults' = faults + 1
    /\ answer' = None
    /\ lost' = (lost \/ Relying)
    /\ UNCHANGED <<stored, apiVars, inFlight, link, socketVars, connected, visible, disposed,
                   coalesce, poll, asked, shown>>

-----------------------------------------------------------------------------

Next ==
    \/ \E w \in Writers : Commit(w)
    \/ \E w \in Writers : Skip(w)
    \/ \E w \in Writers : Send(w)
    \/ \E w \in Writers : PublishOk(w)
    \/ \E w \in Writers : PublishFails(w)
    \/ ApiDies
    \/ Tick
    \/ CoalesceFires
    \/ PollFires
    \/ Hide
    \/ Show
    \/ FocusOrOnline
    \/ Dispose
    \/ NoToken
    \/ TokenGiven
    \/ Opened
    \/ OpenFails
    \/ TokenTimerFires
    \/ Minted
    \/ NotMinted
    \/ Joined
    \/ Subscribed
    \/ Drop
    \/ DropNoticed
    \/ Deliver
    \/ RefreshReads
    \/ RefreshShows
    \/ RefreshFails

\* Requests end (the publish is capped), timers fire, messages arrive or are
\* dropped, a broken channel is noticed (heartbeat), refreshes end.
Fairness ==
    /\ \A w \in Writers : WF_vars(Skip(w) \/ Send(w))
    /\ \A w \in Writers : WF_vars(PublishOk(w) \/ PublishFails(w))
    /\ WF_vars(CoalesceFires)
    /\ WF_vars(PollFires)
    /\ WF_vars(Deliver)
    /\ WF_vars(DropNoticed)
    /\ WF_vars(RefreshReads)
    /\ WF_vars(RefreshShows \/ RefreshFails)

Spec == Init /\ [][Next]_vars
FairSpec == Spec /\ Fairness

-----------------------------------------------------------------------------
(* Properties.                                                             *)

TypeOK ==
    /\ stored \in 0..MaxWrites
    /\ request \in [Writers -> {"idle", "committed", "sending"}]
    /\ failures \in 0..Threshold
    /\ openFor \in 0..OpenFor
    /\ inFlight \in Nat
    /\ link \in BOOLEAN
    /\ socket \in {"asking", "opening", "open", "off"}
    /\ connected \in BOOLEAN
    /\ token \in {"none", "valid", "expired"}
    /\ tokenTimer \in {"none", "armed", "minting"}
    /\ visible \in BOOLEAN /\ disposed \in BOOLEAN
    /\ coalesce \in BOOLEAN /\ poll \in BOOLEAN
    /\ asked \in BOOLEAN
    /\ answer \in {None} \cup 0..MaxWrites
    /\ shown \in 0..MaxWrites
    /\ lost \in BOOLEAN
    /\ faults \in 0..MaxFaults

\* The fallback schedule runs exactly while the mounted tab is looked at and has
\* no socket, whichever of visibility, focus, connection and timers came last
\* (FEAT-019 D4).
PollIffBlind == ~disposed => (poll <=> visible /\ ~connected)

\* An unmounted tab holds no timer and no open socket, also when it was unmounted
\* while a token or the channel was awaited (FEAT-019 AC-10).
NothingAfterDispose ==
    disposed => ~coalesce /\ ~poll /\ tokenTimer # "armed" /\ socket # "open" /\ ~link

\* The breaker is open only after Threshold failures without a success between
\* them, also when publishes end in another order than they began (FEAT-019 D3).
BreakerEarned == openFor > 0 => failures = Threshold

\* A stale screen that is looked at always has something on its way to it: a
\* refresh, a timer, a signal, a request yet to publish, or a broken channel yet
\* to be noticed. The exception is a signal lost while the tab relied on it
\* ("coalesced, never dropped", sync-provider.tsx).
StaleIsCovered ==
    visible /\ ~disposed /\ shown < stored =>
        \/ asked \/ answer = stored
        \/ coalesce \/ poll
        \/ inFlight > 0
        \/ \E w \in Writers : request[w] # "idle"
        \/ connected /\ ~link
        \/ lost

\* A tab that stays mounted and looked at shows in the end what is stored, unless
\* the last signal it relied on was lost (NFR-PERF-004 without its bound).
Converges == <>[](visible /\ ~disposed /\ ~lost) => <>[](shown = stored)
=============================================================================
