# Formal model of the to-do application

A TLA+ development for the API, the worker and the web client of this
repository. TLC checks the specifications on small instances; TLAPS proves, for
every value of their constants, each safety property the passing runs check, and
that the outbox implements its abstract specification. Only liveness is
model-checked alone.

    tlc -workers 2 -config MCOutbox.cfg MCOutbox      # a run
    tlapm OutboxProofs.tla                            # a proof

Source paths below are relative to `src/`.

## 1. The system

Three processes share one PostgreSQL database: the API (`apps/api`, NestJS), the
worker (`apps/worker`, a job a scheduler starts again and again) and the web
client's backend-for-frontend (`apps/web`, Next.js), which has no state of its
own and forwards to the API. The browser keeps optimistic state. Several API
instances and several worker runs may be alive at the same time; nothing but the
database serialises them. `DbService.transaction` is BEGIN ... COMMIT at
PostgreSQL's default level, READ COMMITTED: every *statement* has a snapshot of
its own, so what a transaction read may be stale when it writes. Only the export
asks for REPEATABLE READ.

| Component | State | Operations | Correct when |
| --- | --- | --- | --- |
| Email outbox (`apps/worker/src/outbox`, `email-outbox.repository.ts`) | `email_outbox`: status, attempts, next_attempt_at | enqueue in the caller's transaction; claimDue, send, markSent, recordRetry, markFailed | outcomes are earned, a claim belongs to one run, no row is stranded |
| Tasks (`modules/tasks`) | `tasks`: list_id, position, completed_at, deleted_at | create, update, complete, reopen, delete, restore, reorder, findByList | every task has its list, an arrangement stands, new tasks go last |
| Lists (`modules/lists`) | `lists`: is_default, name, position | create, rename, delete (cascades to tasks), reorder | the account keeps its default list; replies tell what happened |
| Purge (`apps/worker/src/purge`) | reads deleted_at, deletes rows | batches until none is left | only tasks past the retention window go, and all of those do |
| Account export (`account-export.*`) | one snapshot | three reads, integrity check, a file | the file is one consistent state |
| Account deletion (`account-delete.*`) | `users` and everything under it | password check, one transaction | all of it goes or none of it |
| Accounts (`modules/auth`) | `users`: password, verification and reset token, failures, lock | register, verify, resend, signIn, forgot, reset, change | tokens and mails agree; locks are earned |
| Sessions (`common/authz`) | `sessions` | issue, resolve, revoke, revoke all | see Accounts |
| Rate limit, audit (`common`) | window counters; a log | one upsert; one insert | counts are atomic |
| Search and smart views (`modules/search`, `smart-view.tsx`) | none on the server; a first page and appended pages on the screen | first page, next page, refresh | no task is skipped or repeated while it stays put |
| Search overlay (`search-overlay.tsx`) | what is asked, a debounce, request numbers, rows | ask, load more, close | the answer shown is to the question shown |
| Change signals (`common/realtime`) | circuit breaker in memory | publish after a mutation | a failing broker never slows a request for long |
| Client synchronisation (`sync-provider.tsx`) | timers, connection | signal, poll, focus, online | what is shown is in the end what is stored |
| Task islands (`active-tasks.tsx`, `task-checkbox.tsx`, `quick-add.tsx`, `task-detail.tsx`, `undo-snackbar.tsx`) | optimistic order and boxes, drafts, a countdown, requests in flight | drag, complete, add, edit, delete, undo | a failed request leaves the stored state on screen |
| Lists navigation (`lists-nav.tsx`, `list-dialog.tsx`, `shell-frame.tsx`) | menu, dialog, toast, drawer | create, rename, delete, move | the move stored last stands; the dialog says what is so |
| Profile and account pages (`modules/profile`, `profile-form.tsx`, `theme-sync.tsx`, `timezone-adoption.tsx`, `delete-account.tsx`) | theme, zone and name; what the controls and `:root` show | save a field, adopt a zone, sign out, delete the account | what is shown is what is stored; the user is told the truth |
| Other forms, BFF routes | one request in flight each, or none | submit, redirect | |

How they interact: auth operations enqueue emails in their own transactions and
the worker drains them; deleting the account removes its emails and cascades to
lists, tasks and sessions; deleting a list cascades to tasks; the purge deletes
tasks while users delete, restore and reorder them; after every successful
mutation the API publishes a signal that tells the account's other clients to
read again.

What is hard here, and hard to test: statements of two requests interleave
inside their transactions; a check and the write it guards see different
snapshots; row locks make writers wait, and `SKIP LOCKED` makes them pass over;
a worker dies after a claim, or after a send and before it is recorded; two runs
overlap; statuses are written by id whatever the row has become; an email is
sent and the reply is lost; rows are deleted under a handler by a cascade or the
purge; clocks move dates past a boundary between two statements. `PROJECT.json`
lists each hazard at its line.

## 2. Modules

| Module | What it specifies | Theorems |
| --- | --- | --- |
| `Outbox`, `MCOutbox` | enqueueing and the drain | `OutboxProofs` |
| `Delivery` | what the outbox promises: at-least-once delivery with a budget | implemented by `Outbox`, proved in `OutboxProofs` |
| `TaskLists`, `MCTaskLists` | tasks, lists, purge, export, account deletion, statement by statement | `TaskListsProofs` |
| `Auth`, `MCAuth` | accounts, tokens, failures and locks, sessions, statement by statement | `AuthProofs` |
| `Signals`, `MCSignals` | circuit breaker, publish after commit, the client's coalescing, polling and focus | `SignalsProofs` |
| `TaskIslands`, `MCTaskIslands` | one tab on a list: optimistic rows, panel, undo, seeds from the server | `TaskIslandsProofs` |
| `Search`, `MCSearch` | the query and its keyset, the search overlay, the smart view screen | `SearchProofs` |
| `Sidebar`, `MCSidebar` | the lists' order and names, the navigation with its dialog and drawer | `SidebarProofs` |
| `Settings`, `MCSettings` | profile, theme, zone adoption, sign-out, the deletion screen | `SettingsProofs` |

They were taken in the order of what loses or corrupts a user's data: emails and
tasks first, then accounts, then what a browser shows. Each client module has
the server's side of its own requests in one action per request (`Serve...`):
what a request does between its statements is the subject of `TaskLists` and
`Auth`, and of no interest to a tab that only sees answers. The reorder of lists is
the exception: `TaskLists` does not have it, and `Sidebar` takes its check
(`CheckMove`) and its UPDATE (`SetPositions`) as two steps.

Every invariant and every action property of a passing run is a theorem about the
same definition. Still worth stating and proving: an abstract specification of what
a client module promises (an eventually consistent view), of the kind `Delivery` is
for the outbox.

The assumptions on the constants say only what the code's types and configuration
give: identifiers are numbers, and a null is not one of them; limits are natural
numbers, those the code divides or counts by are positive; the lists and tasks an
account begins with are finitely many. `DayAssumption` (section 8) and `"none"` not
being a theme (section 10) are the two that say more.

## 3. Outbox

**Correspondence.** `status`, `attempts`, `dueIn` and `owner` are the columns of
`email_outbox` (`dueIn[r]` is what is left of `next_attempt_at - now()`, `owner`
is the user id in the payload). `phase`, `batch`, `current` and `iteration` are
the locals of one `OutboxDrainService.drain()`; `lookedUp` is the user id that
`requestPasswordReset` or `resendVerification` read before its transaction
began. `Claim` is what `claimDue` returns of a row: the row *and the attempts it
had then*, which is what drain() later decides by.

One action per statement or awaited call: `ClaimDue` is the single UPDATE with
`FOR UPDATE SKIP LOCKED` (it counts the attempt and schedules the next one before
anything is sent, and may pass over rows another run is writing); `SendOk` and
`SendThrows` are render + send, and a send that throws may still have delivered;
`MarkSent`, `DeadLetter` and `RecordRetry` write by id, whatever the row has
become; `MarkSentThrows` is caught by the same `catch` as a failed send; `Abort`
is a crash or a throw inside the catch block. Every way a pass goes on (next
row, next batch, end) is `Advance`, part of the step that causes it. Registration,
the two-step requests and account deletion are the API's side.

`age`, `accepted` and `faults` are ghosts: time since a run's claim, claims the
provider accepted, and faults so far.

**Runs.**

| Run | Instance | Shows |
| --- | --- | --- |
| `outbox` | 2 rows, 2 accounts, 2 overlapping runs, batches of 2, 2 attempts | `ClaimsExclusive`, `OneSendPerClaim`, `OverlapNeedsSlowRun`, and that `Outbox` implements `Delivery` (`Delivers`) |
| `outbox_live` | 2 rows, 1 run, 1 late request, batches of 1, a capped loop, 1 fault anywhere | `PendingResolves` under fairness |
| `outbox_orphan` | 1 account, 1 request | a finding: an email row that outlives its account |

Two runs and two rows are enough for every pairwise race (a run overtaken on one
row while it sends another). Two attempts give a retry and a dead letter; a cap
above the base gives two different backoffs in `outbox_live`.

**Bounds.** `MaxFaults` caps crashes and failed status writes in a behaviour;
`Rows` caps the rows ever inserted; `age` saturates at the lease and `dueIn`
counts down to 0, so time needs no bound.

**Fairness.** Weak fairness of `Start` (the scheduler keeps starting the job, see
`deploy/cloudrun-worker-job.yaml`), of each awaited call returning (driver and
SMTP timeouts), and of the clock. No fairness of faults; they are only bounded.
`PendingResolves` needs nothing stronger because a claim of a due row is not
disabled by anyone for ever.

**Proved** (`OutboxProofs`). `TypeCorrect` first, which needs that the capped
power stays within `0..Cap`. `ClaimsExclusive` and `OneSendPerClaim` are not
inductive alone: a run could be about to claim an attempt another holds. The
strengthening says every claim held or accepted has an attempt *at most the row's
counter*, so a new claim (counter + 1) is new (`ClaimsCounted`). `OutcomeInv`
adds that a run in phase "marking" has had its claim accepted, from which
`SentWasAccepted` follows, and with the counters `FailedIsExhausted`: a
dead-lettered row has had all its attempts.
`OverlapNeedsSlowRun` rests on `LeaseInv`: a held claim is either as
old as the lease, or it is still the row's latest and the holder's age plus the
row's `dueIn` reach the lease, so the row cannot be due. `SettledForGood` is an
action property from the same invariant. `PendingResolves` is liveness and is
model-checked only.

**Refinement.** `Delivery` knows mails, tries and deliveries only: no runs, no
leases, no clock. `Delivers` instantiates it with a row's status (`pending` is
"queued", a row that is gone is "deleted"), `attempts` as tries, and the rows
with an accepted claim as delivered. `OutboxDelivers` proves that every step of
`Outbox` is a step of `Delivery` or a stutter: a claimed batch is one `Try`, an
overtaken run's `MarkSent` or `DeadLetter` is a late `Confirm` or `GiveUp`. That
a `GiveUp` needs `Enough` tries and a `Confirm` a delivery is what the
invariants above are for.

## 4. TaskLists

**Correspondence.** One account. `list`, `row`, `home`, `position`, `completed`
and `deletedFor` are the tables `lists` and `tasks` (`deletedFor[t]` is
`now() - deleted_at`, saturating once expired; tasks are named in the order of
`created_at`, which is the view's tie-break). `step`, `onList`, `making`,
`number`, `order` and `snapshot` are the locals of a request between two
statements. Handlers with one UPDATE (complete, reopen, delete, restore) are one
action; handlers with several statements are split at each of them:

- create: `CreateCheck`, then `InsertStart` (the statement's snapshot, hence
  `MAX(position)`) and `InsertCommit` (the foreign key is checked, the row appears);
- reorder: `ReorderCheck` (the list and its active set), `SetPositions` (row
  locks taken), `CommitOrder` (all of the vector appears at once);
- delete a list: `DeleteCheck`, `DeleteCount`, `DeleteList` with its cascade;
- export: `ExportStart` fixes what all three reads see, `ExportEnd` checks it.

`Fail` ends any of them with a rollback. A writer waits for rows that a reorder
has locked; the purge passes over them. `known` and `lastOrder` are ghosts: what
a new task's INSERT saw, and the last committed vector of a list.

**Runs.**

| Run | Instance | Shows |
| --- | --- | --- |
| `tasks` | 2 tasks, 2 lists, 2 requests in flight | `TasksHaveHomes`, `LastReorderStands`, `CreatedLast`, `ExportConsistent`, `PurgeOnlyExpired` |
| `tasks_live` | 2 tasks, 2 lists, 1 request, batches of 1 | `ExpiredPurged` under fairness |

Two requests meet in every pair of statements; two lists are the default one and
one that can be deleted; two tasks are one that is moved and one that is created
meanwhile. `Retention` is 1 day, so `deletedFor` is before, at and past the
boundary. The runs do not check deadlock: deleting the account is final and task
ids run out, so the instance does stop.

**Fairness.** The worker's next batch, time, and the end of statements and
transactions that hold something (`InsertCommit`, `CommitOrder`, or their
failure): a lock is not held for ever.

**Proved** (`TaskListsProofs`). `SafetyInductive` proves the invariant `IInv`:
types; a deletion that passed its check is not of the default list
(`DefaultInv`), which keeps the default list; a row being inserted belongs to one
handler, which knows its list (`InsertInv`), so the foreign key check at its
commit keeps `TasksHaveHomes`; a vector in flight names stored rows of its list,
and a row still live stands where the last committed vector of its list put it
(`OrderInv`); what an INSERT saw stands below the number it computed, before and
after its commit (`KnownInv`, which a committing reorder resets for its list); a
snapshot is closed under the foreign key (`SnapshotInv`), and stays so because a
row never changes its list. `LastReorderStands` follows from `OrderInv`,
`CreatedLast` from `KnownInv` and `ExportConsistent` from `SnapshotInv`: none of
the three is inductive alone, since what a handler read several steps ago decides
what it writes. The action properties (`PurgeOnlyExpired`, and that a task's
retention clock never restarts by itself) follow from the types and
`TasksHaveHomes`. `ExpiredPurged` is liveness and is model-checked only.

## 5. Auth

**Correspondence.** One users row: `account` says whether it exists, and
`password`, `verified`, `verificationToken`, `resetToken`, `failedLogins` and
`lock` are its columns (`lock` is `locked_until`: NULL, in the future, or past).
`session` is the table `sessions`, `mail` and `sentAgo` the link rows of
`email_outbox` with the age of `created_at`; a link token names its mail.
`expired` are the links past their own `expires_at`. `step` and `seen` are the
locals of a request between two statements. `failedLogins` saturates at
`MaxFailed`, since the code only asks whether the maximum is reached.

A request is split wherever another may write in between:

- sign-in: `SignInRead` (the row, and the lock on what it returned), then
  `RecordFailedLogin` (the stored count is incremented, the lock decided by the
  count that was *read*) or `ResetFailedLogin`, then `IssueSession`;
- verify, forgot: a read by the token or address, and a write by the id;
- resend: `ResendRead`, `ResendCheck` (the cooldown), `ResendCommit` (rotation and
  mail together);
- reset and change: a read, `ResetRevoke`/`ChangeRevoke` and
  `ResetCommit`/`ChangeCommit`. Between the two the users row is locked, so every
  other write of it waits (`UserLocked`), but a sign-in may insert a session the
  DELETE has not seen (`spared`);
- delete: `DeleteRead`, `DeleteCommit` with its cascade.

`Guard` is the session guard in front of the last two. `Fail` is any answer that
changes nothing, or a rollback. `LockEnds`, `LinkExpires`, `SessionExpires` and
`Tick` are the clock. Ghosts: `overlapped` (a failure since the last reset read
an older count), `failedEver`, `newest`, `outdated` (reset links older than the
password), `overtaken` and `late` (sign-ins and sessions that a new password
passed by), `proof` and `mailsBefore`.

**Run.** `auth` checks `SessionsProvePassword`, `NewestLinkIsLive`, `LockEarned`,
`LockUnlessOverlap` and `CooldownKept` with two requests of any kind, two links,
two sessions, two passwords, `MaxFailed` 2, `Cooldown` 1. Two requests meet in every pair of
statements; two failures are one below the maximum and at it; two passwords tell
an old one from a new one; two links are a live one and the one it replaced. A
third link makes the state space too large for a run of minutes, and the proofs
cover it. The run does not check deadlock: the deletion is final and ids run
out, so the instance does stop.

**Proved** (`AuthProofs`). `SafetyInductive` proves `IInv`. None of the
properties is inductive alone, since a request writes what it decided on a
reading several steps old. `ReadInv` says what of that reading still holds:
verified addresses stay verified, the password read is the stored one unless a
new one has been committed since, the count read is at most the failures ever
recorded, and a request behind the guard belongs to a verified account.
`SessionInv` follows from it (`SessionsOfVerifiedUsers`,
`SessionsProvePassword`, theorem `SessionsRest`), as does `LockInv`: a lock has
`MaxFailed` recorded failures behind it although the count that set it may be old
(`LocksAreEarned`), and a full count has a lock unless failures overlapped
(`FailuresAreAnswered`). `LinkInv` adds to `NewestLinkIsLive` and
`ResetLinksExpire` that an outdated link was once issued, so a fresh one is not
outdated. `CooldownInv` keeps what `ResendCheck` saw until `ResendCommit`: ages
only grow and rows do not come back; the action property `CooldownKept` follows.
Nothing here is liveness: a request may always stop.

## 6. Signals

**Correspondence.** `stored` is a version, the number of writes so far; `shown`
is the version on the screen of one tab of another device and `answer` the one a
`router.refresh()` in flight has read. `request` is a mutating request between
its commit and its reply; `failures` and `openFor` are the publisher's
`consecutiveFailures` (saturating at the threshold) and what is left of
`openUntil`. On the tab, `coalesce` and `poll` say whether the two timer refs are
set, `connected` and `disposed` are refs of `SyncProvider`, and `socket`, `token`
and `tokenTimer` stand for where `connect()` and `refreshToken()` are. `link` is
the truth about the channel, which `connected` follows late. `asked` is a refresh
the router has not begun.

Handlers are one action each, since a browser runs them to the end; the awaits of
`connect()` (`NoToken`, `TokenGiven`, `Opened`, `OpenFails`) and `refreshToken()`
(`TokenTimerFires`, `Minted`, `NotMinted`) are split. A publish that fails may
have been broadcast all the same. `ApiDies` loses the breaker and the signals yet
to be sent. The provider (`Drop`) and the router are external.

The ghost `lost` is set when a signal is lost to a tab that relies on it (it is
connected, so it does not poll) and cleared by the next reading. It is the one
way a screen stays stale, and the properties name it: a publish that is skipped,
fails or dies with its instance is not repeated, and a connected tab learns of
the write at its next signal, focus or reconnect.

**Run.** `signals` checks `PollIffBlind`, `NothingAfterDispose`, `BreakerEarned`,
`StaleIsCovered` and `Converges` with 2 requests, `Threshold` 2, 3 writes, so that two failures
open the breaker and a third request meets it open; one fault (restart or failed
refresh) anywhere. Intervals are left out, since any order of timers is allowed.
No deadlock check: writes run out and unmounting is final.

**Fairness** (`FairSpec`). Publishes end (`AbortSignal.timeout`), timers fire,
messages arrive or are dropped, a broken channel is noticed, refreshes end. None
is assumed of the breaker's clock, of joining, of focus or of token renewal:
polling alone must do.

**Proved** (`SignalsProofs`). `StaleIsCovered` is what `Converges` rests on: each
step hands what covers a stale screen to the next (commit, publish, signal,
coalescing timer, refresh), and where a signal is lost `PollIffBlind` gives the
polling timer, or the broken channel is yet to be noticed. It also needs
`ReadsInv`: a refresh never shows less than the screen has. `PollIffBlind`
(`PollsWhileBlind`), `NothingAfterDispose` (`NothingRunsUnmounted`) and
`BreakerEarned` are inductive with the types, since each of them is about the
result of an await and not only about its start: what `connect()` and
`refreshToken()` come back to is part of them. `Converges` is liveness and is
model-checked only.

## 7. Task islands

**Correspondence.** One tab on one list. `active` (in order), `done`, `trash` and
`row` are the stored tasks; `props` is what the server component last rendered
the list with, and `refresh` a `router.refresh()`: asked for, and what it has
read. `board` is `ActiveTasks` (`order` is its optimistic order, `<<>>` for
null), `box` every `TaskCheckbox` by section, `composer` is `QuickAdd`, `panel`
is `TaskDetail` with `TaskDelete`, and `snack` is `UndoHost`. `trail` is the
tab's history, since the panel is a route over the list that is left by popping.

A deletion that succeeds is announced to the host and asks the browser to go back
(`Deleted`). `router.back()` is asynchronous: `backs` counts those not performed
yet, and `GoBack` performs one on whatever route the tab is by then. The host sets
`snack.arriving` (`refreshOnArrival`) and asks for its refresh only when the route
has changed (`Arrive`); until then the dialog goes on saying Deleting.

A request is four steps: the handler that sends it, `Serve...` at the API,
the answer that may be lost (`Fault`) or refused (`Refuse`), and the
continuation after the await, which works with what it captured (`previous`,
`field`, `next`). `alive` says whether its component is still mounted: React drops
the state a dead one sets, but what its continuation calls on the router or the
snackbar host happens all the same. A 401 loads the sign-in screen
(`SignInAgain`), which ends the document. A rollback that takes a row off the
screen unmounts its box (`BoxesIn`, `Unmounted`), and shows a row that has been
completed since in both sections. `Init` takes any arrangement of the stocked tasks.

Ghosts: `behind`, a stored change for which no refresh was asked (another
device, or a lost answer); `contended`, tasks completed or reopened other than by
one box at a time; `overlapped` in the panel, two saves at once. A row's
optimistic mark outlives its answer on purpose (it waits for the row to change
section), so a task may be drawn wrongly until then if meanwhile another device or
the panel completes it, the request of a box that was unmounted is still out, or
the row stands in both sections with a mark on each (`TickedElsewhere`).
`ShownIsStored` leaves those boxes out; without that conjunct TLC finds it
violated. It leaves out three more things: the order while the error of a reorder is
on the screen, the panel's fields while one of them shows that its save failed, and
the panel once two saves have overlapped.

**Run.** `islands` checks `ShownIsStored`, `NothingLeftWaiting` and
`WindowNotRestarted` with two tasks in the list and room for a third, two requests
in flight, two requests or changes in all (`MaxActs`) and one that fails or is
lost (`MaxLost`). Two requests are enough for every pair of continuations, and the
refreshes they ask for are not counted. The run begins with one of the two
arrangements (`OneArrangement`), since exchanging the tasks is a symmetry. The panel
is modelled as the panel over the list and not as a page of its own.

**Proved** (`TaskIslandsProofs`). `Inductive` proves `IInv`, from which
`QuietTabIsRight` (`ShownIsStored`), `NothingIsLeftWaiting` and `WindowIsKept`
follow, for any tasks, fields and number of requests in flight. The first two are
not inductive: while requests are out the screen is wrong on purpose, and the rest
of `IInv` says who will put it right. `WindowNotRestarted` rests on
`SnackOK`: the time shown and the time left never exceed the window by more than
what the running clock has counted.

- `Covered`: either the list last rendered, or the one being read, is what is
  stored, or a refresh is asked for, an answer is on its way that asks for one, a
  deletion was announced and leaving its route will ask for one (`Expected`), or
  the change was made where the tab could not see it (`behind`).
- `BoardOK`: an order that is only on the screen has its request out, a refresh
  coming, or an error over it; a list that is not mounted has none.
- `TicksOK`: unless the task is contended, the mark that would move a task to the other section belongs to the
  only request for that task, or is stored already.
- `PanelOK`: unless saves overlapped, the panel's copy is the stored row, or its
  one save is out or has failed.
- `WaitsOK`: whatever is disabled waits for a request of its own, sent by an island
  that is still mounted, or, the deletion dialog, for the tab to go back.

Each step is proved by what kind of request it sends, answers or drops, so that a
conjunct about another kind is carried over by a lemma.

## 8. Search

**Correspondence.** `task` is the table (due date, completed, soft-deleted), `now`
the clock and `Day` the calendar of the caller's zone, any monotone map from
instants to days. `Matches`, `Key`, `Beyond` and `Pages` are the query of
`search.repository.ts`: its predicates, its two orders, its cursor and its LIMIT
n + 1. A page is given by what ORDER BY and LIMIT promise, not by sorting
(`FirstOf`): rows in order, all before the rest, as many as the limit or all there
are. There is one such page, since no two tasks have the same key. `overlay` is `SearchOverlay` with its debounce and its `requestId`;
`screen` is `SmartViewScreen` with the first page and the appended ones; `seed` is
a server render of the view on its way.

Ghosts: `overlay.from`, the questions whose answers the rows come from;
`screen.kept`, the tasks that have matched, unchanged, since the first page was
read; `screen.crossed`, a page asked for before the first page was replaced and
appended after it. `PagesExact` leaves such a page out (see section 11).

**Run.** `search` checks `DueViewsPartition`, `PagesExact` and `AnswersLatest`
with three tasks, two of them created at the same instant so that the id must
break the tie, pages of one, three user actions, one change or failed request,
and a clock that passes a due date and a midnight. It does not check deadlock:
the bounds stop it.

**Proved** (`SearchProofs`). `DueViews`: whatever the zone, the smart views cover
the active dated tasks and exclude each other where they should, from
`DayAssumption` alone (days do not run backwards). `OverlayHonest`:
`AnswersLatest` with the strengthening that no request in flight is numbered above
the overlay, and one with the overlay's number is about the question in its
fields (`Numbered`); a panel with its debounce running is open and loading
(`Debounced`). `PagingIsExact` proves `PagesExact` for every page size and number
of tasks, whatever changes between two pages. Its invariant `TabOK` says, of the
screen and of each seed on its way (`ScreenOK`, `FirstOK`), that a task which has
stayed put is shown once when the cursor has passed it and not at all when it has
not; that at most one request for a page is listened to, and only while there is
more (`HeededOK`); and that its page continues the rows shown, by a keyset that is
the cursor the screen still has (`CallOK`). The lemmas under it are about keys (a
strict order, no two equal) and about appending sequences whose keys are apart.

## 9. Sidebar

**Correspondence.** `order` and `name` are the stored lists as they are read, and
`position` their column. `props` is what the
shell rendered `ListsNav` with; `nav` is its menu, toast, error, toast timers and
the drawer of `ShellFrame`; `dialog` is `ListDialog`. A dialog's request carries
the list and name it was sent with; closing the dialog aborts nothing. Create,
rename and delete are one action each. A reorder is two, as `ListsService.reorder`
is two statements at READ COMMITTED: `CheckMove` compares the vector with the whole
set it reads and refuses a difference, `SetPositions` writes positions by id to the
rows there are by then, so a list created in between keeps the position it has.
Reading orders by position, then by age.

Ghosts: `made` and `removed`, the lists ever created and deleted; `arranged`, the
vector of the last move that was stored with the lists its check had read; `behind`
as in section 7.

**Run.** `sidebar` checks `LastMoveStands`, `SidebarFollows` and `SaysWhatIsSo` on a
narrow screen with two lists and room for a third, two requests in flight, three
acts and one fault. Three acts are enough for a dialog resubmitted while another
device deletes its list.

**Proved** (`SidebarProofs`). `MovesStand` proves `LastMoveStands`: of the lists the
check of the last stored move had read, those that are left are read in the order it
asked for. It needs that the rows are the lists made and not deleted (`RowsKept`),
that positions agree with the order of reading, that a list the move arranged has
the place the vector gave it (`ArrangedOK`), and that a move between its check and
its UPDATE names every list it read (`ClaimsOK`). `DialogHonest`
needs `HonestOK`: a request whose dialog is open belongs to a mounted sidebar,
and a deletion that was answered was performed. `SidebarCatchesUp` proves
`SidebarFollows` from `Covered`: the sidebar as rendered, or as being read, is what
is stored, unless a refresh is asked for, an answer that asks for one is on its
way, or the change is one the tab was not told of (`behind`).

## 10. Settings

**Correspondence.** `stored` is the profile row (theme, zone, name; a zone never
set is `Unset`), `account` and `session` whether they still exist. `shell` is
the profile the shell was rendered with, `attempted` the ref of
`TimezoneAdoption`, `painted` the theme on `:root` and `cookie` its mirror.
`form` is `ProfileForm` with the control last saved (`busy`) and the profile it
adjusted itself to (`seen`); `del` is `DeleteAccount`. PATCH writes one column and
answers with the whole row. Every page mounts a shell of its own (`Arrive`);
a page without a session redirects (`Leave`). `Themes` may hold any values: the
"system" theme is one more of them. The page and its shell read the profile in
one step of `Read`, since they are rendered together.

Ghosts: `behind` as before; `unheard`, a deletion this screen was not, or not alone,
told of; and `crossed`, which is wider than two writes that overlap. It is set when a
save or an adoption is sent while another write is out, a refresh is asked for or
being read, or a change is unseen; when another device changes the profile while a
write or a refresh is out; when a page is left with a write out; and when the answer
to a theme save is lost. It stays set until the next page is rendered with no write
out. `PreferencesFollow` is thus about one write at a time, and says nothing of a
refresh that renders another theme before a save fails. It and the third part of
`DeletionToldTruly` speak of tabs without these ghosts; section 11 says what happens
otherwise.

**Runs.** `settings` checks `PreferencesFollow` and `DeletionToldTruly` with two
themes, three zones of which one is refused, two names, two requests in flight,
four acts and one fault, from an account without a zone. `settings_confirmed` is a
finding. Neither checks deadlock: acts run out, and a deleted account has nothing
more to do.

**Proved** (`SettingsProofs`). `TypeCorrect` with the types of every request and
of what a refresh has read: a profile page that is rendered again has a profile.
`DeletionIsToldTruly` needs `TruthOK`: a deletion that was answered ok has
happened, and while nothing is unheard (`HeardOK`) at most one deletion is in
flight, no alert stands once it may have happened, and a screen whose deletion
has been delivered is confirmed.

`PreferencesAreFollowed` proves `PreferencesFollow` from `FollowOK`, which speaks of
a tab in its shell that is not `crossed`:

- `OneSave`: one save of the profile is out at a time, by an island that is
  mounted, and its answer is what is stored;
- `ReadOK`: what the page shows, or has read, is stored unless a refresh is due or
  the change is one it was not told of;
- `AtRest`: while no theme is being saved the page wears the theme its shell was
  rendered with and the form shows the profile it adjusted itself to, or a refresh
  that brings the stored ones is coming;
- `ThemeOK`: a theme being saved can be taken back to the one stored
  (`previous`, the mirror and the form still have it), or is stored.

It needs to tell a theme from what the cleared mirror holds, so `ProfileAssumption`
says that `"none"` is not a theme, as the contract's list of themes does.

## 11. What disagrees with the documents

Two are runs that TLC ends with a counterexample; `PROJECT.json` quotes the line.

- `outbox_orphan`: FEAT-018's AC-9 fails for a request between its read and its
  transaction.
- `settings_confirmed`: FEAT-018's AC-17 asks that the confirmation of a deletion
  stays visible while signed out, but the shell around it refreshes on focus, and
  a refresh without a session redirects to sign-in.

Others were met while translating, have no run of their own, and are how the
models behave; the properties name them by their ghosts or leave them out. Files
of the web client are in `apps/web/src/components`.

- A `sent` row is sent again when a run outlives the first backoff, without any
  crash (FEAT-007 `technical-design.md:163`); `Delivery` promises at least once.
- `tasks.repository.ts:24` says positions are distinct at insert; two INSERTs may
  read the same maximum (line 389). Ties are broken by `created_at`.
- `lists.service.ts:66` says `deletedTaskCount` is exactly what the cascade
  removed; the count (line 80) is a statement with a snapshot of its own.
- The breaker lets every request through once `openUntil` has passed, until the
  first answer (`supabase-realtime.publisher.ts:49`), and not one probe.
- `active-tasks.tsx:92` rolls back to the order its own move started from, which
  a second move or a refresh may have replaced; the next refresh repairs it
  (FEAT-014 `ui-design.md:100-104` speaks of the last confirmed order).
- `undo-snackbar.tsx:84` resets the window when a second task is deleted, and the
  effect's cleanup (117-123) then takes the first one's elapsed time off it: the
  second undo is offered for less than the window. An undo that succeeds (135)
  dismisses whichever snackbar is shown by then.
- A late delete answers with `router.back()` (`task-delete.tsx:134`) wherever the
  user has gone by then. `quick-add.tsx:52` erases what was typed during the
  request, and `task-detail.tsx:80` a title being typed when another field's
  save returns.
- "Load more" of the overlay has no request number (`search-overlay.tsx:138`,
  against the comment at 79-80): its rows may be of an earlier question. A first
  search that fails shows its error together with "No tasks match." (93-97).
- A page of a smart view asked for before a refresh is appended to the new first
  page (`smart-view.tsx:115`, against 85-88).
- `list-dialog.tsx:225`: Enter in the field submits again while submitting, so two
  lists are created; an answer that comes late closes the dialog that is open by
  then (`lists-nav.tsx:66`). A second move starts from the order the sidebar was
  rendered with (39) and undoes the first. The first toast's timer clears the
  second toast (70). New and Rename leave the drawer open behind the dialog
  (101, 254-261).
- `profile-form.tsx:182-195`: of two overlapping theme saves that fail, the second
  restores the first one's unsaved theme, as does a failed save after a refresh
  (FEAT-008 `ui-design.md:181-182`: never a theme the server did not accept). The
  reply of an earlier save puts older values back, and any save that succeeds
  discards a half-typed name (140-141).
- `timezone-adoption.tsx:37` sends its PATCH once per shell that is mounted before
  the first one's refresh, whatever another device has chosen meanwhile (FEAT-008
  `technical-design.md:368-371`: exactly one).
- `delete-account.tsx:186-188` says "Nothing has been deleted" also when the reply
  of a deletion that happened was lost; if a deletion was confirmed twice, the
  second one's 401 replaces the confirmation by the sign-in screen.

## 12. Not modelled

Rendering, SMTP, HTTP parsing, DTO validation, logging, configuration, password
policy and hashing, design tokens, build and deployment: no state the properties
are about. Rate limiting is one atomic upsert, and its refusals are answers any
request of `Settings` may get; the audit log is written and never read. The
shared contracts are types. The export, change-password, resend and
authentication screens hold one request each. Presentation beside state (focus
traps, meta chips, the calendar arithmetic of labels) is left out.

PostgreSQL is taken as documented: atomic statements, row locks, foreign keys,
READ COMMITTED and REPEATABLE READ snapshots. Deadlock between two reorders is
broken by PostgreSQL aborting one, which is `Fail`. React is taken to run a
handler to its end, to drop the state an unmounted component sets, and to keep an
island's state over a refresh; the router to perform a refresh it was asked for.

Each client module is one tab against the API, with other devices as steps of
their own; the modules are not composed with each other. What they share is the
refresh, which each of them may ask for at any time on another's behalf, and
whose delivery is the subject of `Signals`.

Model-checked only: liveness (`PendingResolves`, `ExpiredPurged`, `Converges`),
which rests on fairness and ENABLED and is out of the prover's reach, and the two
runs of section 11 that end with a counterexample.
