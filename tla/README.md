# Move Nation Assistant bot: a TLA+ verification

The application (`src/app`) is one Python process: an aiogram bot, a FastAPI
server for the Telegram Mini App, an APScheduler and Telethon "userbot" clients
share one asyncio event loop and one SQLite database. A user connects a personal
Telegram account, creates client groups with it, and the bot keeps the list of
who is in which group, tags people with their roles, and reminds the staff of
client messages nobody has answered.

Nothing runs in parallel, but everything is interleaved: each Bot API update and
each HTTP request is a task of its own, and whatever a task has read may be out
of date after its next `await`. That, the in-memory state lost at a restart, and
Telegram's freedom to fail at every call are what the models are about. The Mini
App is the other half: a page that shows what it last fetched, and is told over a
socket that comes and goes when to fetch again.

## 1. The system's parts

| component | code | state it keeps | operations |
|---|---|---|---|
| Database operations | `db/crud.py`, `db/models.py`, `db/session.py` | tables users, groups, group_members | create/delete users and groups, tags, pending flag, waiting flag, session |
| Group service | `services/group_service.py` | none (reads, awaits Telegram, writes) | create_group, add_client, offboard_staff, sync_group |
| Group creation registry | `services/group_creation_registry.py` | set of users creating a group through the application | mark / unmark / is_pending |
| Updates of the bot | `bot/handlers/messages.py` | none | joined, left, bot added, bot removed, every group message, /sync |
| API routes | `api/routes/{members,users,groups}.py` | none | remove and tag members, set role, delete group, lists |
| Reminders | `services/reminders.py`, `services/scheduler.py` | APScheduler jobs (memory), reminder columns of groups | schedule, cancel, send_group_reminder, recover |
| Phone login | `services/telethon_auth.py`, `api/routes/auth.py`, `bot/handlers/connect.py`, `bot/states.py` | per user: lock, pending client, phone data; FSM state of the chat | phone, code, password, cancel, status |
| Userbot actions | `userbot/actions.py` | none of ours (Telegram's chats) | create the chat, add a client, delete the chat, list participants |
| Process | `main.py` | everything in memory | start (recover, then serve), stop |
| Menus of the bot | `bot/handlers/{start,group_creation,add_client,team}.py` | FSM state | buttons and questions that lead to the operations above |
| Realtime | `services/realtime.py`, `api/routes/realtime.py`, `miniapp/js/realtime.js` | registry of sockets per user; in the Mini App a socket or a timer | register, unregister, notify_user, notify_group; open, fail, close, reconnect |
| Mini App: main screens | `miniapp/js/mainApp.js`, `api.js` | screen, selected group, what the lists show, spinners | fetch, render, open a group, press a button, handle a push |
| Mini App: first screens | `miniapp/js/onboarding.js`, `connect.js` | the step of a form | choose a role, log in |
| The rest | authentication of the Mini App, encryption, configuration, migrations, wiring | none that changes | |

How they interact. Bot handlers and routes call the same services; services and
handlers write the same tables through `crud`; Telegram answers the services'
calls with *updates* that come back to the bot's handlers as tasks of their own
(a kick done by `/members/remove` arrives as "left", a chat created by
create_group arrives as "bot added" and must be recognised as our own doing by
the registry). The reminder job and the message handler write one row of
`groups` and one job. The bot and the Mini App drive one login. After its commit an
operation *pushes*: it names, to the Mini Apps of the people concerned, what they
should fetch again. A push carries no data, is sent to whoever is registered at
that moment, and is lost without a socket.

What is hard, component by component, and what makes it correct:

* **Reminders.** Handlers of several messages and a reminder round are split by
  awaits and work on one row; SQLAlchemy writes only columns that differ from
  what was loaded; a `date` job leaves the store when due, whether or not its
  run is dropped by `max_instances`; jobs are lost at a restart. Correct: a
  waiting group has its time reference and its job, rounds keep their distance,
  a waiting group is reminded of.
* **Membership.** Every operation reads, awaits Telegram (seconds), then writes;
  its own effects come back as updates, in any order; an `IntegrityError` inside
  `add_member_tag` rolls back more than that one row. Correct: rows have users,
  tags follow roles, staff rows end only with the employment, a new group has its
  team, /sync mirrors the chat, nobody who joined stays pending.
* **Login.** Double taps and two surfaces call the same steps of one attempt.
  Correct: one attempt at a time, steps in order, no open Telegram connection
  forgotten, no deadlock on the lock, and the bot's conversation agrees with the
  attempt.
* **Pushes.** Whom to tell is computed from rows that the operation, or another one
  meanwhile, changes or deletes. Correct: when all pushes are out, nobody is looking
  at something else than the database holds.
* **Realtime.** A socket's two ends learn of its end separately, a reconnect races the
  old socket's close, and a notification awaits every send while the registry
  changes under it. Correct: whoever listens is registered, dead sockets do not stay,
  a notification misses nobody who was there, a Mini App comes back after each drop
  and, while it is open, has one socket or one timer: never two, never none.
* **Main screens.** Fetches of several origins overlap, answers come in any order,
  and pushes, buttons and answers act on the group selected when they end. Correct:
  a screen at rest is current, no spinner stays, the socket is opened once.

`PROJECT.json` lists the hazards at their lines, with the properties that would
show each going wrong.

## 2. The modules

| module | models | uses |
|---|---|---|
| `Reminders` | track_group_message, send_group_reminder, the job, recovery, for one group | |
| `Crud` | the tables users, groups, group_members, and crud.py's writes as operators from database to database | |
| `Membership` | group service, registry, membership handlers, routes; Telegram's chats and updates | EXTENDS `Crud` |
| `Login` | abstract: what a login promises to a user | |
| `ConnectFlow` | telethon_auth, the /connect conversation, the auth routes, for one user | INSTANCE `Login` |
| `Pushes` | which screens each operation of `Membership` tells to fetch again, and `notify_group`'s lookup | EXTENDS `Membership` |
| `Realtime` | the registry of sockets, the WebSocket endpoint, the sends, the Mini App's reconnecting socket | |
| `MiniApp` | the main screens of one Mini App: fetches, pushes, buttons, spinners | |
| `MCReminders`, `MCMembership`, `MCConnectFlow`, `MCPushes`, `MCRealtime`, `MCMiniApp` | instances for TLC: symmetry, the people, roles, devices and groups | |
| `RemindersProofs`, `CrudProofs`, `MembershipProofs`, `ConnectFlowProofs`, `RealtimeProofs`, `MiniAppProofs` | theorems | |
| `SerialProofs` | theorems about `Membership` with one operation at a time | EXTENDS `MembershipProofs` |
| `PushesProofs` | theorems about `Pushes` | EXTENDS `Pushes`, `SerialProofs` |

An action is a stretch of code between two awaits that let another task change
what it reads. A stretch that works inside one database transaction is one
action: SQLite takes its write lock at the first DML statement, and the reads
just before it are merged with it. The one transaction whose reads are *not*
next to its writes, sync_group's, is split (`ReadMembers`, `WriteSync`).
Operators and actions ending in `_Something` under a comment "mutant" are
broken variants that no run uses by default; they show that each property can
fail.

### Reminders

`row` is the row of `groups`, `job` the APScheduler job, `handlers` the tasks in
`track_group_message`, `sender` the running `send_group_reminder`. Times are
*ages* in ticks, cut off at `Interval`: the code only ever compares an age with
the interval, and a job whose moment is past is due at once, so nothing is lost.

* `Receive` is the load of the group; `MarkAwaiting` / `ClearAwaiting` the commit;
  `Schedule` / `Cancel` the call of the scheduler after it. `sawAwaiting` and
  `sawReminder` are what the session loaded: a column equal to it is not in the
  UPDATE. `CommitFails` is the StaleDataError on a deleted row.
* `StartReminder` is the gate and the sending, `RecordReminder` the commit,
  `Reschedule` the next job; `SkipReminder` is every early return, `DropRun` a run
  refused by `max_instances`.
* `DeleteGroup`, `RegisterGroup`, `Crash`, `Recover`, `Tick` are the rest of the world.

`lastSent`, `jobRace` and `rowRace` are history variables: they change no step.
`jobRace` says that two tasks may have crossed on the job since the last clean
client message or recovery, `rowRace` that the last client message was recorded
across a reminder round.

### Crud and Membership

The database is a record of three sets or functions: `users` (role, `NoRole`, or
`NoUser` for no row), `groups`, and `members`, rows of group, user, tag and
pending. Titles, names, handles and timestamps are left out: nothing decides by
them here. Foreign keys are not enforced, as in the program (no `PRAGMA
foreign_keys`). The unique constraint on (group, user, tag) is `Refuses`: an
INSERT that meets a row of that key is refused, and the transaction with it. So
`SyncRoleToGroupTags` and `AddMemberTag` have one more argument, `base`: the
database as it was when the transaction began. The first would return it, and
`RoleChangeIsComplete` says that it never does; the second, the one place that runs
into the constraint on purpose, goes on from it.
`TransactionFails` is the refusal between a read and the write that
relies on it, when another transaction commits in between (`get_or_create_user`,
`set_member_tag`, the loser's INSERT in create_group): the request ends and nothing
is written. `RecordRolledBack` is create_group's record going with the rollback of a
duplicate tag, on which the `refresh` after the commit raises.

`tasks` holds the requests in flight with what they remember between awaits:
`roles` of a creation is the staff list read at its start, `groups` of an
offboarding the groups read at its start, `present`, `current` and `roles` of a
/sync the scan and the identity map. `chat`, `bot` and `updates` are Telegram;
`synced` is history: the chats whose people a /sync has written down.
Updates form a set and are handled in any order, since aiogram starts a task for
each. The order in which a staff query returns people is unspecified, so
`FinishCreateGroup` keeps any set of the tags written after the last rollback.

### Login and ConnectFlow

`holder` is `_locks[user_id]`, `pending` the client in `_pending_clients` (and its
twin `_pending_phone_data`: the two are always written together), `clients` what
Telegram asks of each `TelegramClient` ("off": disconnected), `row` the user's
row, `fsm` the state of the chat with the bot. `calls` are the tasks: arrived
(waiting for the lock), then the awaits under the lock, then "answering" for
`process_phone`, which tells an error before it clears the state. Whether an
account has a second factor is Telegram's business and chosen at `SendCode`.

`Login` has a stage (none, code, password, passed) and an account. The refinement
mapping is `Stage`: "passed" while a call is saving its session, otherwise what
Telegram asks of the pending client. Property `KeepsPromise` is `Login!Spec`.

### Pushes, Realtime, MiniApp: three views of one channel

The way from a commit to a screen is cut in three, each module taking for granted
what its neighbour checks.

`Pushes` asks *who is told*. It is a composition: every action of `Membership` that
commits is wrapped in `Tells(step, pushes, forgotten)`, which adds to `owed` what the
code pushes after that commit and to `stale` the screens that the step has put out of
date, `Outdated`, computed from what the three GET routes show of the database before and
after. `Address` is notify_group looking up the members, as late as the code does;
`Send` is the push that reaches a person, whose Mini App then shows what the
database holds. `untold` is history: the screens of which the code of that operation
tells nobody, listed one by one under "Whom nobody tells".

`Realtime` asks *whom a push reaches*. `sockets` are connections with two ends: the
WebSocket object of the page (connecting, open, failing, closed) and the coroutine
of the endpoint (accepted, listening, ended), and a line that may be `cut` without
either knowing. `registry` is `_connections`, `tasks` are the running
notifications with the users still to come and the snapshot of sockets of the one
whose turn it is, `timers` the scheduled reconnects. `Authenticate` registers,
`Leaves` unregisters in the `finally`; `NextUser`, `SendSucceeds` and `SendFails` are the loop of
notify_user; `Open`, `Opened`, `Breaks`, `Closes` are realtime.js; `CloseApp`, `Expire`,
`Cut`, `Restart` the rest of the world. `untold` is history: who was registered when
a notification began, is whole, and was not sent it yet.

`MiniApp` asks *what the user sees then*. `shown` says of each list what is in it:
blank, spinner, error, "empty", or rows of a subject (the groups, the profile, the members of one
group) that are fresh or not. `fetches` are the GETs in flight, with an age: an
answer is fresh until its subject changes ("old") or a newer answer to the same
question is rendered first ("overtaken"). `timers` are the armed spinners of
showSpinnerIfSlow, `posts` the requests of the buttons pressed, `pushes` the queue on the
socket, `owed` what the server has still to push, `groups` what the server knows of
the user. An action is a stretch of mainApp.js between two awaits: `OpenGroupDetail`,
`SwitchTab` and `PressButton` are taps, `RenderAnswer` and `RenderError` the rest of a fetch
after its await, `EndPost` the rest of a button's handler, `HandlePush` the handlers given to
connectRealtime. `LoseFetch`, `BreakAnswer` (a body that does not parse), `LosePost` and `Disconnect`
are faults; `faulted` is history: the lists that a fault, or an answer out of order, has
touched since they were last rendered fresh. `spent` counts taps, changes by others and faults against
their bounds.

## 3. The runs

### Runs that pass

| run | instance | checks |
|---|---|---|
| `reminders` | 2 handlers, interval 2, crashes, deletions, fairness | `AwaitingHasReference`: the fallbacks for a missing reference are never needed; `AwaitingIsScheduled`: without crossing tasks the job is exactly at reference + interval; `NoRepeatWithinInterval`; `EarlyOnlyAfterRace`; `WaitingIsReminded`: a group that keeps waiting is reminded of again and again |
| `membership_serial` | 3 people, 2 groups, 4 operations one after another, each with all its updates | `NoOrphanRows`, `JoinedAreNotPending`, `RoleTagsFollowRole`, `RegisteredGroupsAreLive` (the bot is in every group on record), `OwnChatIsLeftAlone` (its handler leaves a chat alone that create_group is making), `SyncMirrorsChat`: what each operation promises when it is alone |
| `membership_concurrent` | 3 people, 2 groups, 3 operations, 2 requests at once, every tag | what survives every interleaving: `PendingAreClients`, `StaffRowSurvives`, `CustomTagsGoWithMembership`, `RoleChangeIsComplete` (no role change is refused or half done); and which crossings alone do harm: `CreatedGroupHasTeam` (only a /sync of the fresh chat can cost a new group tags), `OnlyStaleReadsDisagree` (only create_group and /sync write down roles that have changed since), `OverlookedOnlyByLateCommit` (only a late add_client leaves somebody pending for good) |
| `connect_flow` | 2 calls, 2 clients, both surfaces, failures, offboardings, restarts, fairness | `NoClientLeaks`, the refinement `KeepsPromise`, and `EveryCallReturns`: nobody waits for the lock for ever |
| `connect_bot` | 3 calls, 2 clients, the bot alone, no failures | `BotStateFollowsLogin` |
| `pushes` | 2 people, 2 groups, one of them old, 3 operations, 2 requests at once | `MembersAreShown`, `GroupsAreShown`: once every push is out, a screen shows what the database holds, except those the module names |
| `realtime` | 2 devices of one user, another user without any, 3 sockets, 1 notification, 1 broken line or restart, fairness | `ListenersAreRegistered`, `RegistryIsServed`, `OneChainPerDevice`, `EveryListenerIsTold`, and `Reconnects`: an open Mini App with a valid initData is registered again and again |
| `miniapp` | 3 groups, the user in two of them, 2 fetches and 2 requests of buttons in flight, 2 taps, 1 change by others, 1 fault | `QuietScreenIsCurrent`, `SpinnersEnd`, `RealtimeStartsOnce` |

Each run also checks its module's type invariant, where no other run does.

### Bounds

* *Reminders.* Groups share nothing in this code, so one is enough. Interval 2 has
  a "not yet" age between "now" and "due"; races involve two handlers and the
  sender. There is no bound on the number of steps.
* *Membership.* `MaxOps` bounds what begins, not what follows from it: updates and
  steps of requests are free. Two old members of staff with different roles and a
  guest without a row give every combination of tagged, tagged otherwise and
  unknown; one group exists, the other can be created by us or by others. Every
  violation below needs at most three operations; the passing runs allow three
  and four. Since the bound stops the system, these configurations turn the
  deadlock check off.
  `membership_serial` leaves role tags out of the tags people may set by hand and
  does not let them tag strangers: either contradicts `RoleTagsFollowRole` or
  `NoOrphanRows` at once and by the user's own choice, and
  `membership_concurrent` allows both.
* *Symmetry.* No action or property names a task, a handler or a client, so runs
  without liveness treat these as interchangeable; people, roles and groups, which start
  differently, are not.
* *ConnectFlow.* A race needs a call that holds the lock and one that waits, and two
  calls can hold two clients open. This is small, since liveness is checked in the
  same run; the safety properties are proved for any number of calls and clients.
  `connect_bot` has a third call, which interferes with either, and leaves out failures. A call that
  finds no free client can only fail, which is among its outcomes anyway. The
  user's row starts in each of its three states.
* *Pushes.* A member of staff and a guest suffice to have one who acts and one who
  looks on, in an old group and in one created meanwhile. Two
  overlapping requests and a third operation leave room for a push that is
  addressed late, after somebody else has joined, left or been offboarded.
* *Realtime.* Three sockets let each device have one and one of them an old one that the server has not
  given up; two devices of one user exercise the set under one key; the notification may
  also go to a user without sockets. A socket is used again when both ends are through with
  it. The safety properties are proved for all constants.
* *MiniApp.* Two fetches overtake each other, two taps change the group while they are
  in flight, or start two requests of buttons at once (`MaxPosts`), one change and one fault fall anywhere. Two of the three groups start alike and
  are interchangeable; the third is one the user can create or be taken into. The
  three properties are proved for all constants, so the bounds only serve to see that
  they are not vacuous and that each mutant breaks them. The bounds on taps stop the system, hence no
  deadlock check; so does `closed` in `realtime`.

### Fairness

* `Reminders!FairSpec`: time passes; the event loop serves due jobs, the sender and
  the handlers; docker-compose restarts the process (`restart: unless-stopped`), so
  `Recover` happens. Weak fairness suffices, since nothing is disabled by
  others for good. Messages, deletions and crashes are never forced.
* `ConnectFlow!FairSpec`: calls of Telegram and the database end (they have
  timeouts), hence weak fairness of the steps under the lock; `asyncio.Lock` serves
  waiters in order of arrival, which the model, having no queue, renders as
  strong fairness of `Acquire`.
* `Realtime!FairSpec`: the page's event loop and the server's run what is due, the browser reports a
  broken line as an error and then a close, and the server's pings find it: weak
  fairness of each socket's steps and of the sends. A timer fires: strong fairness of
  `Open`, only because the pool `Sockets` is shared, so that a free socket may be taken by the other
  device each time. Breaks, restarts, expiry and closing are never forced.
* `Membership`, `Pushes` and `MiniApp` have no liveness property and no fairness:
  what they promise is promised of states in which nothing is under way.

### Runs that TLC refutes: where the code does not do what the source says

Each is a disagreement met while modelling; the quotes are in `PROJECT.json`.

| run | property | what happens |
|---|---|---|
| `reminders_lostjob` | `EveryAwaitingGroupHasJob` | a staff handler that committed first cancels, after its await, the job a later client message scheduled |
| `membership_memcheck` | `MemberCheckAnswers` | `user_is_group_member` raises for a person with two tags, which the model of the table allows explicitly |
| `membership_blocked` | `OffboardingIsNotBlocked` | an error other than `TelegramBadRequest` ends the offboarding before the row is deleted |
| `miniapp_title` | `RowsMatchTitle` | open a group, go back, open another: when the answer about the first comes last, its members stay under the title of the second (`mainApp.js:196`) |

`EarlyOnlyAfterRace`, `StaffRowSurvives`, `CreatedGroupHasTeam`, `OnlyStaleReadsDisagree`,
`OverlookedOnlyByLateCommit` and `NoClientLeaks` say exactly how far the corresponding
claims do hold: the race named in each is the only way to break it. In particular a /sync
that loaded a person before a role was chosen deletes the row of a new member of staff.
`AwaitingIsScheduled`, `WaitingIsReminded`, `QuietScreenIsCurrent` and `SpinnersEnd` excuse
more than that: the first two everything after two tasks *may* have crossed on the job (`jobRace`),
of which `EveryAwaitingGroupHasJob` shows one case; the last two every list that a fault, a
missed push, an overtaken answer or one of another group has touched (`faulted`).

Races that the passing properties exclude by their premises, and that were seen
to happen without them:

* A client message recorded while a round is being sent inherits that round's time,
  so that the next reminder comes early: the premise of `EarlyOnlyAfterRace`.
* create_group works with a staff list that is several awaits old, and /sync with a scan and
  members it read before. `NoOrphanRows`: a member offboarded meanwhile gets a row without a
  user, on which the member list of the Mini App fails. `RoleTagsFollowRole`: a role
  changed meanwhile leaves its old tag in the group. `OnlyStaleReadsDisagree` says that nothing else does.
* `JoinedAreNotPending`: the join is handled before the pending row is committed, and
  the client stays pending for good; `OverlookedOnlyByLateCommit` says that nothing else does it.
* `OwnChatIsLeftAlone`: of two creations by one person the first to end removes the
  mark of the other, and the bot registers the second chat as somebody else's.
  `CreatedGroupHasTeam` says that the team is tagged all the same.
* `RegisteredGroupsAreLive`: "bot added" is handled after "bot removed", and a dead
  group stays on record.

To see the last four, set `Concurrent = TRUE`, two `Slots` and `MaxOps = 2` in
`MCMembership_serial.cfg`. One more is read off `ShowSpinner`: the timer of a second
fetch of an empty list fires after the first has filled it, and the spinner
replaces rows, which the comment at `mainApp.js:115` rules out; `SpinnersEnd` says that it is
short.

Two limits of the login are part of the model and of no property. The session is
written only into an existing row (`SaveSession`): after an offboarding in the
middle of a login the call answers "connected" and nothing is stored. And the bot
takes a code only in its own FSM state (`CallFromBot`), so that a login begun in
the Mini App cannot be finished in the bot, though both `routes/auth.py` and
`telethon_auth.py` say that either surface can; the other direction works.

## 4. The proofs

All theorems hold for every value of the constants: any number of handlers, any
interval, any sets of people, groups, roles and tags, any number of calls and
clients, of devices, sockets and notifications, of fetches, taps, changes and
faults, any `MaxOps`. The assumptions are those stated in the modules: the interval is a
positive natural, `Client`, `NoRole` and `NoUser` are distinct from the roles and
tags they must not be confused with, old groups are groups, and so on.

Some theorems are about a part of these values, and say so in an ASSUME of their own:

| hypothesis | why it is there |
|---|---|
| `Sequential` (`Concurrent = FALSE`): an operation begins when no request and no update is under way | section 3 lists races that break most of these promises otherwise; a /sync, for one, scans a chat that others change meanwhile |
| `~TagStrangers` | `POST /members/tag` writes a row for whatever user it is given, known or not |
| `ManualTags \cap Roles = {}` | the same route lets a person be given the tag of a role he does not have |

`membership_serial` is an instance with all three, so the hypotheses can be met, and its run
shows on that instance what the theorems say in general.

* **`RemindersProofs`.** `TypeCorrect`, `ReferenceKept`, `NoRepeat`,
  `EarlyNeedsRace`, `Scheduled`. A waiting row has its reference because a handler
  that did not see the row waiting writes both columns, and one that did see it
  still holds a positive age; that needs the ages held by handlers (`Typing`) in the
  invariant. `NoRepeat` needs `LastRoundKnown`, which ties the sender's and the row's time
  to that of the last round. `Scheduled` is the hard one: `ScheduleInv` says, as
  long as no tasks crossed, where the pending schedule is for each
  phase of the one task in flight (held by the handler, by the sender, or in the store).
* **`CrudProofs`, `MembershipProofs`.** Each operator of `Crud` gets lemmas: it keeps a
  database *sound* (typed, rows known by their key, only clients pending), what it does to
  user rows, and what it does to custom tags. `Membership`'s inductive
  invariant is soundness of `db` together with the types of the rest, and the
  theorems `TypeCorrect`, `PendingOnlyClients`, `StaffRowsSurvive`, `CustomTagsKept`,
  `RoleChangesComplete` combine them, action by action. The three on crossings hold
  for every interleaving too. `TeamIsTagged` needs to know where a group's rows can come from before
  create_group writes them: a chat that no /sync has written down has none while its
  creation is under way (`Born`, `OwnChats`). `OnlyStaleReads` looks at a row
  that disagrees after a write: one that was kept disagreed before (`KeptRow`), a new one was
  written by a request that remembers an older role (`SyncDisagrees` for /sync). `OnlyLateCommits` says of each step where a pending row comes from
  (`PendingRowsComeFrom`), who comes into a chat (`ArrivalsAreTold`) and which "joined" updates are still on
  their way (`StillTold`).
  Lemmas "column by column" say further of each write which rows a person, or a group, has
  afterwards (`LoneTagColumns`, `TeamTaggedColumns`, `ClientAddedColumns`,
  `SyncedColumns`), tag for tag, for any order of the staff query; the two modules
  below look at the tables only through these.
* **`SerialProofs`.** What `membership_serial` checks. `SerialInv` is the invariant of operations one after
  another: at most one request is in flight (`Alone`); what it remembers still holds, and every update
  is its own doing (`Coherent`: while create_group is `created`, for instance, the staff
  list it read is still the staff list, its creator is marked, and what is on its way
  can only be the bot's arrival); an update, when no request is in flight, fits the
  place it tells about (`UpdatesFit`); the bot is where the records say, but for a removal that is
  still on its way (`RecordsFollowBot`); rows are of recorded groups (`RowsInGroups`). It gives
  `RecordsGoWithBot`, `OwnChatLeftAlone`, and, with the column lemmas, the action
  property `SyncMirrors`: the old value of what the request
  remembers is the present one, so the operator's result can be read off.
  `RowsAreOwned` and `TagsFollowRole` need in addition that each write is `Steady`: whatever rows
  it leaves or makes have a user, and where they have a role's tag it is the
  user's; each operator of `Crud` has a lemma for that, under what `Coherent` supplies.
  `JoinedArePresent` needs `PendingOutside`: a pending row is of somebody who is not in the chat,
  or whose "joined" is still to be handled.
* **`ConnectFlowProofs`.** The inductive invariant `Inv` adds to the types that a call
  past the entrance holds the lock (`LockInv`), that open clients and pending
  clients belong where the code thinks (`ClientInv`), and which step belongs to
  which call (`OpInv`). From it follow `TypeCorrect`, `ClientsKept`
  and `ImplementsLogin`, which goes through every action: lemmas say what
  the holder's step does to `Stage`, and the rest are stutters. `BotFollows` adds
  `BotInv`, on the bot alone.

* **`RealtimeProofs`.** `TypeCorrect`, `ListenersRegistered`, `RegistryServed`,
  `EveryListenerTold`, `OneChain`. `RegistryInv` is the conjunction of the two registry
  properties with `UntoldAreDue`: whoever a running notification has not told is
  whole and registered, and is in the current snapshot or belongs to a user whose turn
  is to come. `OneChainPerDevice` is inductive with the types alone, in the form that says
  "exactly one": that no Mini App is left without socket and timer is part of it.
* **`MiniAppProofs`.** `TypeCorrect`, `StartsOnce`, `SpinnersGoAway`, `QuietScreens`. `TypeInv` adds
  to the types what a button or a fetch may be about. `StartedInv` says that no chain was begun
  before realtime was started, and one since. `SpinnerInv` ties each armed timer to a fetch in flight of
  its list, since the `finally` of a fetch cancels its own timer. `QuietScreens` rests on
  `MendInv`. Its half `ScreenInv` says which ages can occur where: answers not yet
  given are fresh, the rows of the lists other than the members are of their own
  subject, members of another group than the selected one are there only when an
  answer came out of order. Its other half, `OldIsMended`, is the idea of the
  protocol: whatever the screen shows that is old and matters is on its way to be
  mended, by a fetch in flight, by a push owed or queued that will start one, or by
  the request of the user's own that will end with one. When nothing is under way, nothing
  old is left. Frame lemmas (`FetchFrame`, `ShownFrame`, `GroupsFrame`, `PostFrame`, `FaultedFrame`) state
  what each conjunct depends on, so that an action is examined only where it
  interferes.

* **`PushesProofs`.** `PushTypesCorrect`, `MembersShown`, `GroupsShown`, with requests at once or not,
  strangers tagged or not. The invariant is that every screen that is behind is `Reached`: accounted
  for in `untold`, owed a push, or of a group whose members are still to be looked up. It is kept
  because each commit is `Covered`: whoever's list of groups or role it changes, and each
  group whose members it changes, is among the pushes that the code makes after it or among those it is
  known to forget. This is shown write by write, from what the write does to the
  rows a person or a group has. The hard case is `Address`, which looks the members up only after the commit:
  who has left meanwhile does not see the group any more, and who has come was told by
  the operation that brought him. `PushesKeepMembership` (`PushSpec => Spec`) carries every theorem of `Membership`
  over. With it, `OnlyTheseForgotten` says *who* can get into `untold` with operations one
  after another and no strangers tagged: the person offboarded, and one tagged by hand in a
  group he was not in; so `MembersNeverBehind` has no exceptions. These two need
  that an offboarding knows all groups of its person (`OffboardKnows`). No run has
  their hypotheses; with `Concurrent = FALSE` in `MCPushes.cfg` and without the symmetry TLC confirms both.

Only model-checked: the liveness properties `WaitingIsReminded`, `EveryCallReturns` and
`Reconnects` (the prover does not handle fairness), and the four that TLC refutes.
Every invariant and action property of a passing run is the statement of a theorem.

## 5. What is abstracted, and what is left out

* A request whose Telegram call fails ends (`TelegramFails`); which exception it
  was matters only in the offboarding loop, which catches one of them.
* The bot is an administrator of the chats it is in, so that it gets
  updates of members; a kick whose unban fails is a kick.
* The chat's id before its migration to a supergroup is left out, with the
  update "bot added" it causes: the registry ignores it for the same reason as the
  second one.
* A restart in the middle of a membership request is the same, for the database, as a
  request that never takes its next step, which every run includes.
* Disconnecting a client is assumed to succeed; sessions, their encryption and
  flood limits are one success or failure.
* Waiting for the login's lock is unordered: more behaviours than the program has.
* `Pushes` leaves out a tag sync after the commit that fails with something other than
  `TelegramBadRequest`, which skips the pushes: every property there would need it
  as an exception. It also leaves out the badge of unanswered messages.
* `Realtime` has no delays: a reconnect happens some time later. So the delay that is
  reset before initData is checked, and the attempts an expired Mini App repeats
  for ever, are behaviours of the model that no property is about.
* `MiniApp` sees the server through one user's answers: a change is a change of a
  subject, its own or by others, and is pushed after its commit. That it is pushed is `Pushes`'
  business; that the socket comes back is `Realtime`'s. Requests of buttons overlap, up to
  `MaxPosts`: the buttons "create", "add" and "delete" are disabled until their own request has ended,
  the members' bins never are, and of the roles only the one pressed. A role is
  pressed on the profile screen; the step with the role buttons is not a screen of the model.
* Names, titles, wording, photos, the five seconds of a status line and logging are
  left out.

Not modelled:

* the forms of onboarding and login in the Mini App: sequences of single requests whose
  server side is in `ConnectFlow` and `Membership.SetRole`; two hazards of theirs are
  listed without a property;
* the menus of the bot beyond the operations they start and the FSM state they share
  with the login: the choice of a group by buttons;
* the check of the Mini App's signature, the encryption of sessions, `/team`, request
  validation, configuration, migrations and the wiring: no state of their own that
  changes.

## 6. Plan

Built, most important first: `Reminders`; `Crud` with `Membership`; `ConnectFlow`
with its abstraction `Login`; `Pushes` over `Membership`; `Realtime`; `MiniApp`. All
have proofs. Next:

1. An abstract `ReminderPromise` (a waiting client is answered or reminded of) that
   `Reminders` implements while no tasks cross, and the proof of that refinement.
2. Composition of `Reminders` and `Membership`: whether a message counts as the
   client's is read from the membership rows, which change under it.
3. `Membership` with fairness: every update is handled, a removed group does not stay on record.
4. The forms of onboarding and login in the Mini App, and the bot's menus: a group chosen by a
   button that is stale when it is pressed.
5. Invariants of `Login` carried over to `ConnectFlow`.
