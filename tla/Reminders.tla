---------------------------- MODULE Reminders ----------------------------
(***************************************************************************)
(* The reminder machinery of one group: the handler of group messages      *)
(* (app/bot/handlers/messages.py, track_group_message), the reminder job   *)
(* and its gate (app/services/reminders.py) and the row of table groups    *)
(* both work on (app/db/crud.py).  Groups share nothing here, so one group *)
(* is the whole story.                                                     *)
(*                                                                         *)
(* aiogram runs every update in a task of its own, so several handlers are *)
(* in flight at once; each is split where it awaits the database or the    *)
(* network.  SQLAlchemy writes, at commit, only the columns whose value    *)
(* differs from the one LOADED, which is why a handler remembers what it   *)
(* saw.                                                                    *)
(*                                                                         *)
(* Time is kept as ages: how many ticks ago a thing happened, up to        *)
(* Interval (older makes no difference: the gate only compares an age with *)
(* the interval, and a job whose moment is past is due at once).           *)
(***************************************************************************)
EXTENDS Integers

CONSTANTS
    Handlers,   \* the tasks that may be handling a message of the group at once
    Interval    \* settings.reminder_interval_minutes, in ticks

ASSUME IntervalAssumption == Interval \in Nat \ {0}

VARIABLES
    up,         \* the process runs and has recovered its jobs
    row,        \* the row of table groups
    job,        \* ticks until the APScheduler job is due (0: due), or None
    handlers,   \* handler task -> what it does
    sender,     \* the running instance of send_group_reminder
    lastSent,   \* history: age of the last reminder round, None once a new
                \* client message, a new row or a crash in mid-round excuses the next
    jobRace,    \* history: steps of two tasks may have crossed on the job
    rowRace     \* history: a client message was recorded across a reminder round

vars == <<up, row, job, handlers, sender, lastSent, jobRace, rowRace>>
code == <<up, row, job, handlers, sender>>

None == -1

Ages == 0 .. Interval
MaybeAge == Ages \cup {None}

Older(a) == IF a \in {None, Interval} THEN a ELSE a + 1
Sooner(j) == IF j \in {None, 0} THEN j ELSE j - 1

-----------------------------------------------------------------------------
Kinds == {"client", "staff"}

NoRow == [exists |-> FALSE, awaiting |-> FALSE, msgAge |-> None, remAge |-> None]
NewRow == [NoRow EXCEPT !.exists = TRUE]

IdleHandler == [pc |-> "idle", kind |-> "staff", age |-> None,
                sawAwaiting |-> FALSE, sawReminder |-> FALSE]
IdleSender == [pc |-> "idle", age |-> None]

Rows == [exists: BOOLEAN, awaiting: BOOLEAN, msgAge: MaybeAge, remAge: MaybeAge]
HandlerStates == [pc: {"idle", "loaded", "committed"}, kind: Kinds, age: MaybeAge,
                  sawAwaiting: BOOLEAN, sawReminder: BOOLEAN]
SenderStates == [pc: {"idle", "sending", "recorded"}, age: MaybeAge]

Init ==
    /\ up = TRUE
    /\ row \in {NoRow, NewRow}
    /\ job = None
    /\ handlers = [h \in Handlers |-> IdleHandler]
    /\ sender = IdleSender
    /\ lastSent = None
    /\ jobRace = FALSE
    /\ rowRace = FALSE

\* Nothing of this group is in flight.
Quiet ==
    /\ sender.pc = "idle"
    /\ \A h \in Handlers : handlers[h].pc = "idle"

\* last_reminder_at or last_message_at
ReferenceAge == IF row.remAge # None THEN row.remAge ELSE row.msgAge

\* mutant: the age is added instead of subtracted
IntervalAfter_WrongSign(age) == Interval + age

\* A wall-clock moment "reference + Interval", as ticks from now.
IntervalAfter(age) == Interval - age

-----------------------------------------------------------------------------
(* track_group_message: get_group and is_client, then the commit, then the  *)
(* job, with an await before each.                                          *)

\* A message of the given age (message.date) reaches a handler, which loads the
\* group.  Without a group row the handler returns at once.
Receive(h, kind, age) ==
    /\ up
    /\ handlers[h].pc = "idle"
    /\ row.exists
    /\ handlers' = [handlers EXCEPT ![h] =
                        [pc |-> "loaded", kind |-> kind, age |-> age,
                         sawAwaiting |-> row.awaiting,
                         sawReminder |-> row.remAge # None]]
    /\ jobRace' = IF Quiet THEN jobRace /\ kind # "client" ELSE TRUE
    /\ UNCHANGED <<up, row, job, sender, lastSent, rowRace>>

ReceiveClient(h) == \E age \in Ages : Receive(h, "client", age)
ReceiveStaff(h) == Receive(h, "staff", None)

\* mutant: the reset of last_reminder_at is forgotten
MarkedRow_KeepsReminder(h) ==
    [row EXCEPT !.awaiting = @ \/ ~handlers[h].sawAwaiting,
                !.msgAge = handlers[h].age]

\* mutant: the time of the message is not stored
MarkedRow_NoTime(h) ==
    [row EXCEPT !.awaiting = @ \/ ~handlers[h].sawAwaiting,
                !.remAge = IF handlers[h].sawReminder THEN None ELSE @]

\* The UPDATE of a client's message: last_message_at always differs from what
\* was loaded, the other two columns are written only when they do.
MarkedRow(h) ==
    [row EXCEPT !.awaiting = @ \/ ~handlers[h].sawAwaiting,
                !.msgAge = handlers[h].age,
                !.remAge = IF handlers[h].sawReminder THEN None ELSE @]

Committed(h) == [handlers[h] EXCEPT !.pc = "committed",
                                    !.sawAwaiting = FALSE, !.sawReminder = FALSE]

\* mark_awaiting_response and commit.
MarkAwaiting(h) ==
    /\ handlers[h].pc = "loaded"
    /\ handlers[h].kind = "client"
    /\ row.exists
    /\ row' = MarkedRow(h)
    /\ handlers' = [handlers EXCEPT ![h] = Committed(h)]
    /\ lastSent' = None
    /\ rowRace' = (sender.pc = "sending" \/ (~handlers[h].sawReminder /\ row.remAge # None))
    /\ UNCHANGED <<up, job, sender, jobRace>>

\* clear_awaiting_response and commit; no UPDATE is sent when the group was
\* loaded as not awaiting.
ClearAwaiting(h) ==
    /\ handlers[h].pc = "loaded"
    /\ handlers[h].kind = "staff"
    /\ handlers[h].sawAwaiting => row.exists
    /\ row' = [row EXCEPT !.awaiting = @ /\ ~handlers[h].sawAwaiting]
    /\ handlers' = [handlers EXCEPT ![h] = Committed(h)]
    /\ UNCHANGED <<up, job, sender, lastSent, jobRace, rowRace>>

\* The row is gone: the UPDATE matches nothing, the ORM raises StaleDataError
\* and the handler ends without touching the job.
CommitFails(h) ==
    /\ handlers[h].pc = "loaded"
    /\ handlers[h].kind = "client" \/ handlers[h].sawAwaiting
    /\ ~row.exists
    /\ handlers' = [handlers EXCEPT ![h] = IdleHandler]
    /\ UNCHANGED <<up, row, job, sender, lastSent, jobRace, rowRace>>

\* schedule_group_reminder(message.date + interval), replace_existing=True.
Schedule(h) ==
    /\ handlers[h].pc = "committed"
    /\ handlers[h].kind = "client"
    /\ job' = IntervalAfter(handlers[h].age)
    /\ handlers' = [handlers EXCEPT ![h] = IdleHandler]
    /\ UNCHANGED <<up, row, sender, lastSent, jobRace, rowRace>>

\* cancel_group_reminder
Cancel(h) ==
    /\ handlers[h].pc = "committed"
    /\ handlers[h].kind = "staff"
    /\ job' = None
    /\ handlers' = [handlers EXCEPT ![h] = IdleHandler]
    /\ UNCHANGED <<up, row, sender, lastSent, jobRace, rowRace>>

-----------------------------------------------------------------------------
(* The scheduler and send_group_reminder.  A date job leaves the job store  *)
(* the moment it is due, whatever becomes of its run.                       *)

Due == up /\ job = 0

\* mutant: the reminder of this cycle is ignored by the gate
Overdue_MessageOnly == row.msgAge \in {None, Interval}

Overdue == ReferenceAge \in {None, Interval}

\* The gate: the group exists, awaits an answer, and a full interval has passed.
GatePasses == row.exists /\ row.awaiting /\ Overdue

\* max_instances = 1: a run of the same job is still in progress.
DropRun ==
    /\ Due
    /\ sender.pc # "idle"
    /\ job' = None
    /\ jobRace' = TRUE
    /\ UNCHANGED <<up, row, handlers, sender, lastSent, rowRace>>

SkipReminder ==
    /\ Due
    /\ sender.pc = "idle"
    /\ ~GatePasses
    /\ job' = None
    /\ jobRace' = (jobRace \/ ~Quiet)
    /\ UNCHANGED <<up, row, handlers, sender, lastSent, rowRace>>

\* The gate is passed and the messages go out; `now` is remembered.
StartReminder ==
    /\ Due
    /\ sender.pc = "idle"
    /\ GatePasses
    /\ job' = None
    /\ sender' = [pc |-> "sending", age |-> 0]
    /\ lastSent' = 0
    /\ jobRace' = (jobRace \/ ~Quiet)
    /\ UNCHANGED <<up, row, handlers, rowRace>>

\* last_reminder_at = now, and the commit.
RecordReminder ==
    /\ sender.pc = "sending"
    /\ row.exists
    /\ row' = [row EXCEPT !.remAge = sender.age]
    /\ sender' = [sender EXCEPT !.pc = "recorded"]
    /\ UNCHANGED <<up, job, handlers, lastSent, jobRace, rowRace>>

\* The group was deleted while the messages went out: StaleDataError.
RecordFails ==
    /\ sender.pc = "sending"
    /\ ~row.exists
    /\ sender' = IdleSender
    /\ UNCHANGED <<up, row, job, handlers, lastSent, jobRace, rowRace>>

\* mutant: the next reminder is forgotten
Reschedule_Forgotten ==
    /\ sender.pc = "recorded"
    /\ sender' = IdleSender
    /\ jobRace' = (jobRace \/ sender.age = Interval)
    /\ UNCHANGED <<up, row, job, handlers, lastSent, rowRace>>

\* schedule_group_reminder(now + interval), then the run ends.  If the round
\* took the whole interval the new job is due before the run is accounted as
\* ended, so it is dropped by max_instances like in DropRun.
Reschedule ==
    /\ sender.pc = "recorded"
    /\ job' = IF sender.age = Interval THEN None ELSE IntervalAfter(sender.age)
    /\ sender' = IdleSender
    /\ jobRace' = (jobRace \/ sender.age = Interval)
    /\ UNCHANGED <<up, row, handlers, lastSent, rowRace>>

-----------------------------------------------------------------------------
(* The group row comes and goes; nobody tells the scheduler.                *)

\* on_bot_removed_from_group, remove_group
DeleteGroup ==
    /\ up
    /\ row.exists
    /\ row' = NoRow
    /\ lastSent' = None
    /\ UNCHANGED <<up, job, handlers, sender, jobRace, rowRace>>

\* create_group_record: on_bot_added_to_group, create_group, sync_group
RegisterGroup ==
    /\ up
    /\ ~row.exists
    /\ row' = NewRow
    /\ UNCHANGED <<up, job, handlers, sender, lastSent, jobRace, rowRace>>

\* The process dies: jobs, handlers and a running reminder are lost.
Crash ==
    /\ up
    /\ up' = FALSE
    /\ job' = None
    /\ handlers' = [h \in Handlers |-> IdleHandler]
    /\ sender' = IdleSender
    /\ lastSent' = IF sender.pc = "sending" THEN None ELSE lastSent
    /\ UNCHANGED <<row, jobRace, rowRace>>

\* mutant: the recovered job counts from the client's message alone
RecoveredJob_FromMessage ==
    CASE ~row.awaiting -> None
      [] row.awaiting /\ row.msgAge = None -> 0
      [] OTHER -> IntervalAfter(row.msgAge)

\* recover_pending_reminders: reference + interval for an awaiting group, or at
\* once when it has no reference.
RecoveredJob ==
    CASE ~row.awaiting -> None
      [] row.awaiting /\ ReferenceAge = None -> 0
      [] OTHER -> IntervalAfter(ReferenceAge)

\* main(): the scheduler starts and recovers before polling and the API do.
Recover ==
    /\ ~up
    /\ up' = TRUE
    /\ job' = RecoveredJob
    /\ jobRace' = FALSE
    /\ UNCHANGED <<row, handlers, sender, lastSent, rowRace>>

Tick ==
    /\ row' = [row EXCEPT !.msgAge = Older(@), !.remAge = Older(@)]
    /\ job' = Sooner(job)
    /\ handlers' = [h \in Handlers |-> [handlers[h] EXCEPT !.age = Older(@)]]
    /\ sender' = [sender EXCEPT !.age = Older(@)]
    /\ lastSent' = Older(lastSent)
    /\ UNCHANGED <<up, jobRace, rowRace>>

-----------------------------------------------------------------------------
HandlerStep(h) ==
    \/ MarkAwaiting(h)
    \/ ClearAwaiting(h)
    \/ CommitFails(h)
    \/ Schedule(h)
    \/ Cancel(h)

SchedulerStep == DropRun \/ SkipReminder \/ StartReminder
SenderStep == RecordReminder \/ RecordFails \/ Reschedule

Next ==
    \/ \E h \in Handlers : ReceiveClient(h) \/ ReceiveStaff(h) \/ HandlerStep(h)
    \/ SchedulerStep
    \/ SenderStep
    \/ DeleteGroup
    \/ RegisterGroup
    \/ Crash
    \/ Recover
    \/ Tick

Spec == Init /\ [][Next]_vars

\* Time passes, the event loop serves every runnable task and every due job, and
\* the process is restarted after a crash (docker-compose restart policy).
\* Nothing forces messages, deletions or crashes.
Fairness ==
    /\ WF_vars(Tick)
    /\ WF_vars(SchedulerStep)
    /\ WF_vars(SenderStep)
    /\ WF_vars(Recover)
    /\ \A h \in Handlers : WF_vars(HandlerStep(h))

FairSpec == Spec /\ Fairness

-----------------------------------------------------------------------------
TypeOK ==
    /\ up \in BOOLEAN
    /\ row \in Rows
    /\ job \in MaybeAge
    /\ handlers \in [Handlers -> HandlerStates]
    /\ sender \in SenderStates
    /\ lastSent \in MaybeAge
    /\ jobRace \in BOOLEAN
    /\ rowRace \in BOOLEAN

\* An awaiting group always has the time of the client's message, whatever
\* handlers, reminders, deletions and re-registrations crossed: the fallbacks
\* for a missing reference (reminders.py, send_group_reminder and
\* recover_pending_reminders) are never taken.
AwaitingHasReference == row.awaiting => row.exists /\ row.msgAge # None

\* Whenever nothing is in flight and no two tasks crossed since the last
\* recovery or undisturbed client message, an awaiting group has a job due at
\* exactly "client message or last reminder + interval": neither lost, nor
\* late, nor so early that the gate would swallow it.
AwaitingIsScheduled ==
    up /\ Quiet /\ ~jobRace /\ row.awaiting => job = IntervalAfter(ReferenceAge)

\* A reminder round never follows another within the interval, unless a client
\* wrote in between, the group was registered anew, or the process died before
\* the first round was recorded.
NoRepeatWithinInterval == [][StartReminder => lastSent \in {None, Interval}]_vars

\* A reminder goes out only when the last recorded client message is a full
\* interval old, unless that message was recorded across a reminder round.
EarlyOnlyAfterRace == [][StartReminder /\ ~rowRace => row.msgAge = Interval]_vars

\* A group that keeps waiting, while the process stays up and no more messages
\* cross, is reminded of again and again.
WaitingIsReminded ==
    <>[](up /\ row.awaiting /\ ~jobRace /\ \A h \in Handlers : handlers[h].pc = "idle")
        => []<>(sender.pc = "sending")

\* The docstring of schedule_group_reminder: every (awaiting) group has a job of
\* its own.
EveryAwaitingGroupHasJob == up /\ Quiet /\ row.awaiting => job # None
=============================================================================
