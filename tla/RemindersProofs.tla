-------------------------- MODULE RemindersProofs --------------------------
(***************************************************************************)
(* Theorems about Reminders, for every interval and every number of        *)
(* handler tasks.                                                          *)
(***************************************************************************)
EXTENDS Reminders, TLAPS

(* Ages and remaining times stay in range.                                 *)
LEMMA OlderType == ASSUME NEW a \in MaybeAge PROVE Older(a) \in MaybeAge
  BY IntervalAssumption DEF MaybeAge, Ages, Older, None

(* The same of the time left of a job.                                     *)
LEMMA SoonerType == ASSUME NEW j \in MaybeAge PROVE Sooner(j) \in MaybeAge
  BY IntervalAssumption DEF MaybeAge, Ages, Sooner, None

(* A moment one interval after a known age is not further than the interval. *)
LEMMA IntervalAfterType == ASSUME NEW a \in Ages PROVE IntervalAfter(a) \in Ages
  BY IntervalAssumption DEF Ages, IntervalAfter

(* While time passes, a job due "age + interval" stays due then.           *)
LEMMA SoonerTracksOlder ==
  ASSUME NEW a \in Ages
  PROVE  Sooner(IntervalAfter(a)) = IntervalAfter(Older(a)) /\ Older(a) \in Ages
  BY IntervalAssumption DEF Ages, IntervalAfter, Older, Sooner, None

-----------------------------------------------------------------------------
(* What the handlers carry: the age of a client's message is always known.  *)
HandlersCarryAge ==
    \A h \in Handlers :
        handlers[h].pc # "idle" /\ handlers[h].kind = "client" => handlers[h].age \in Ages

(* A running reminder knows when it started.                               *)
SenderCarriesAge == sender.pc # "idle" => sender.age \in Ages

Typing == TypeOK /\ HandlersCarryAge /\ SenderCarriesAge

(* Types and the reference are kept together: a reminder is rescheduled from *)
(* an age, an awaiting row is recovered from one.                          *)
LEMMA TypingStep == ASSUME Typing, AwaitingHasReference, [Next]_vars
                    PROVE  Typing' /\ AwaitingHasReference'
  <1> USE DEF Typing, TypeOK, HandlersCarryAge, SenderCarriesAge, AwaitingHasReference,
              Rows, HandlerStates, SenderStates, Kinds
  <1>0. None \in MaybeAge /\ 0 \in Ages /\ Ages \subseteq MaybeAge /\ None \notin Ages
    BY IntervalAssumption DEF MaybeAge, Ages, None
  <1>1. ASSUME NEW h \in Handlers, ReceiveClient(h) PROVE Typing' /\ AwaitingHasReference'
    <2>1. PICK age \in Ages : Receive(h, "client", age)
      BY <1>1 DEF ReceiveClient
    <2>2. handlers'[h].age \in Ages /\ \A g \in Handlers \ {h} : handlers'[g] = handlers[g]
      BY <2>1 DEF Receive
    <2>3. handlers' \in [Handlers -> HandlerStates]
      BY <2>1, <1>0 DEF Receive
    <2>4. HandlersCarryAge'
      BY <2>2, <2>3
    <2>5. jobRace' \in BOOLEAN
      BY <2>1 DEF Receive
    <2> QED BY <2>1, <2>3, <2>4, <2>5 DEF Receive
  <1>2. ASSUME NEW h \in Handlers, ReceiveStaff(h) PROVE Typing' /\ AwaitingHasReference'
    BY <1>0, <1>2 DEF ReceiveStaff, Receive
  <1>3. ASSUME NEW h \in Handlers, MarkAwaiting(h) PROVE Typing' /\ AwaitingHasReference'
    BY <1>0, <1>3 DEF MarkAwaiting, MarkedRow, Committed
  <1>4. ASSUME NEW h \in Handlers, ClearAwaiting(h) PROVE Typing' /\ AwaitingHasReference'
    BY <1>0, <1>4 DEF ClearAwaiting, Committed
  <1>5. ASSUME NEW h \in Handlers, CommitFails(h) PROVE Typing' /\ AwaitingHasReference'
    BY <1>0, <1>5 DEF CommitFails, IdleHandler
  <1>6. ASSUME NEW h \in Handlers, Schedule(h) PROVE Typing' /\ AwaitingHasReference'
    BY <1>0, <1>6, IntervalAfterType DEF Schedule, IdleHandler
  <1>7. ASSUME NEW h \in Handlers, Cancel(h) PROVE Typing' /\ AwaitingHasReference'
    BY <1>0, <1>7 DEF Cancel, IdleHandler
  <1>8. CASE DropRun BY <1>0, <1>8 DEF DropRun
  <1>9. CASE SkipReminder BY <1>0, <1>9 DEF SkipReminder
  <1>10. CASE StartReminder BY <1>0, <1>10 DEF StartReminder
  <1>11. CASE RecordReminder BY <1>0, <1>11 DEF RecordReminder
  <1>12. CASE RecordFails BY <1>0, <1>12 DEF RecordFails, IdleSender
  <1>13. CASE Reschedule BY <1>0, <1>13, IntervalAfterType DEF Reschedule, IdleSender
  <1>14. CASE DeleteGroup BY <1>0, <1>14 DEF DeleteGroup, NoRow
  <1>15. CASE RegisterGroup BY <1>0, <1>15 DEF RegisterGroup, NewRow, NoRow
  <1>16. CASE Crash BY <1>0, <1>16 DEF Crash, IdleHandler, IdleSender
  <1>17. CASE Recover
    <2>1. row.awaiting => ReferenceAge \in Ages
      BY <1>0 DEF ReferenceAge, MaybeAge
    <2>2. row.awaiting => IntervalAfter(ReferenceAge) \in Ages
      BY <2>1, IntervalAfterType
    <2>3. RecoveredJob \in MaybeAge
      BY <1>0, <2>1, <2>2 DEF RecoveredJob
    <2> QED BY <1>17, <2>3 DEF Recover
  <1>18. CASE Tick
    <2>1. row' \in Rows /\ AwaitingHasReference'
      <3>1. \A a \in MaybeAge : Older(a) = None => a = None
        BY IntervalAssumption DEF Older, MaybeAge, Ages, None
      <3> QED BY <1>18, <3>1, OlderType DEF Tick
    <2>2. /\ handlers' \in [Handlers -> HandlerStates]
          /\ HandlersCarryAge'
      BY <1>18, OlderType, SoonerTracksOlder DEF Tick
    <2>3. sender' \in SenderStates /\ SenderCarriesAge'
      BY <1>18, OlderType, SoonerTracksOlder DEF Tick
    <2>4. job' \in MaybeAge /\ lastSent' \in MaybeAge
      BY <1>18, OlderType, SoonerType DEF Tick
    <2> QED BY <1>18, <2>1, <2>2, <2>3, <2>4 DEF Tick
  <1>19. CASE UNCHANGED vars BY <1>19 DEF vars
  <1> HIDE DEF Typing, AwaitingHasReference
  <1> QED
    BY <1>1, <1>2, <1>3, <1>4, <1>5, <1>6, <1>7, <1>8, <1>9, <1>10, <1>11, <1>12,
       <1>13, <1>14, <1>15, <1>16, <1>17, <1>18, <1>19
    DEF Next, HandlerStep, SchedulerStep, SenderStep

(* They hold at the start.                                                 *)
LEMMA TypingInit == Init => Typing /\ AwaitingHasReference
  <1> SUFFICES ASSUME Init PROVE Typing /\ AwaitingHasReference
    OBVIOUS
  <1>0. None \in MaybeAge
    BY DEF MaybeAge
  <1>1. row \in Rows /\ ~row.awaiting
    <2>1. NoRow \in Rows /\ ~NoRow.awaiting
      BY <1>0 DEF Rows, NoRow
    <2>2. NewRow \in Rows /\ NewRow.awaiting = NoRow.awaiting
      BY <2>1 DEF Rows, NewRow
    <2> QED BY <2>1, <2>2 DEF Init
  <1>2. handlers \in [Handlers -> HandlerStates] /\ \A h \in Handlers : handlers[h].pc = "idle"
    BY <1>0 DEF Init, HandlerStates, Kinds, IdleHandler
  <1>3. sender \in SenderStates /\ sender.pc = "idle"
    BY <1>0 DEF Init, SenderStates, IdleSender
  <1> QED
    BY <1>0, <1>1, <1>2, <1>3
    DEF Init, Typing, TypeOK, HandlersCarryAge, SenderCarriesAge, AwaitingHasReference

(* And so throughout.                                                      *)
LEMMA TypingInvariant == Spec => [](Typing /\ AwaitingHasReference)
  <1>1. Typing /\ AwaitingHasReference /\ [Next]_vars => (Typing /\ AwaitingHasReference)'
    BY TypingStep
  <1> QED BY TypingInit, <1>1, PTL DEF Spec

(* Every variable keeps its type.                                          *)
THEOREM TypeCorrect == Spec => []TypeOK
  BY TypingInvariant, PTL DEF Typing

(* The reference of an awaiting group is never missing.                    *)
THEOREM ReferenceKept == Spec => []AwaitingHasReference
  BY TypingInvariant, PTL

-----------------------------------------------------------------------------
(* NoRepeatWithinInterval.  As long as nothing excuses the next round, the  *)
(* last one is on record: in the running sender until it commits, in the    *)
(* row from then on.                                                        *)
LastRoundKnown ==
    lastSent # None =>
        /\ row.exists
        /\ lastSent = IF sender.pc = "sending" THEN sender.age ELSE row.remAge

(* EarlyOnlyAfterRace.  Without a race, a group only awaits with a reminder *)
(* of this cycle, recorded or on its way, if the message is old enough.     *)
ReminderAfterMessage ==
    ~rowRace /\ row.awaiting =>
        /\ row.remAge # None => row.msgAge = Interval
        /\ sender.pc = "sending" => row.msgAge = Interval

(* Every step keeps what the last round and the last message left on record. *)
LEMMA HistoryStep ==
  ASSUME Typing, AwaitingHasReference, LastRoundKnown, ReminderAfterMessage, [Next]_vars
  PROVE  LastRoundKnown' /\ ReminderAfterMessage'
  <1> USE DEF Typing, TypeOK, AwaitingHasReference, SenderCarriesAge,
              LastRoundKnown, ReminderAfterMessage, Rows, SenderStates
  <1>0. None \notin Ages /\ 0 \in Ages /\ Interval \in Ages
    BY IntervalAssumption DEF Ages, None
  <1>1. ASSUME NEW h \in Handlers, ReceiveClient(h) \/ ReceiveStaff(h)
        PROVE  LastRoundKnown' /\ ReminderAfterMessage'
    BY <1>1 DEF ReceiveClient, ReceiveStaff, Receive
  <1>2. ASSUME NEW h \in Handlers, MarkAwaiting(h)
        PROVE  LastRoundKnown' /\ ReminderAfterMessage'
    BY <1>2 DEF MarkAwaiting, MarkedRow
  <1>3. ASSUME NEW h \in Handlers, ClearAwaiting(h)
        PROVE  LastRoundKnown' /\ ReminderAfterMessage'
    BY <1>3 DEF ClearAwaiting
  <1>4. ASSUME NEW h \in Handlers, CommitFails(h) \/ Schedule(h) \/ Cancel(h)
        PROVE  LastRoundKnown' /\ ReminderAfterMessage'
    BY <1>4 DEF CommitFails, Schedule, Cancel
  <1>5. CASE DropRun \/ SkipReminder BY <1>5 DEF DropRun, SkipReminder
  <1>6. CASE StartReminder
    BY <1>0, <1>6 DEF StartReminder, GatePasses, Overdue, ReferenceAge
  <1>7. CASE RecordReminder BY <1>7 DEF RecordReminder
  <1>8. CASE RecordFails BY <1>8 DEF RecordFails, IdleSender
  <1>9. CASE Reschedule BY <1>9 DEF Reschedule, IdleSender
  <1>10. CASE DeleteGroup BY <1>10 DEF DeleteGroup, NoRow
  <1>11. CASE RegisterGroup BY <1>11 DEF RegisterGroup, NewRow, NoRow
  <1>12. CASE Crash BY <1>12 DEF Crash, IdleSender
  <1>13. CASE Recover BY <1>13 DEF Recover
  <1>14. CASE Tick
    <2>1. Older(Interval) = Interval /\ \A a \in MaybeAge : Older(a) = None <=> a = None
      BY IntervalAssumption DEF Older, MaybeAge, Ages, None
    <2> QED BY <1>14, <2>1 DEF Tick
  <1>15. CASE UNCHANGED vars BY <1>15 DEF vars
  <1> HIDE DEF LastRoundKnown, ReminderAfterMessage
  <1> QED
    BY <1>1, <1>2, <1>3, <1>4, <1>5, <1>6, <1>7, <1>8, <1>9, <1>10, <1>11, <1>12,
       <1>13, <1>14, <1>15
    DEF Next, HandlerStep, SchedulerStep, SenderStep

(* And so throughout.                                                      *)
LEMMA HistoryInvariant ==
  Spec => [](Typing /\ AwaitingHasReference /\ LastRoundKnown /\ ReminderAfterMessage)
  <1>1. Init => LastRoundKnown /\ ReminderAfterMessage
    <2> SUFFICES ASSUME Init PROVE LastRoundKnown /\ ReminderAfterMessage
      OBVIOUS
    <2>1. ~row.awaiting
      BY DEF Init, NoRow, NewRow
    <2> QED BY <2>1 DEF Init, LastRoundKnown, ReminderAfterMessage
  <1>2. /\ Typing /\ AwaitingHasReference /\ LastRoundKnown /\ ReminderAfterMessage
        /\ [Next]_vars
        => (LastRoundKnown /\ ReminderAfterMessage)'
    BY HistoryStep
  <1> QED BY TypingInvariant, <1>1, <1>2, PTL DEF Spec

(* Two rounds within an interval need a new client message, a new row or a  *)
(* crash in mid-round.                                                      *)
THEOREM NoRepeat == Spec => NoRepeatWithinInterval
  <1>1. Typing /\ LastRoundKnown /\ [Next]_vars
        => [StartReminder => lastSent \in {None, Interval}]_vars
    BY DEF LastRoundKnown, StartReminder, GatePasses, Overdue, ReferenceAge
  <1> QED BY HistoryInvariant, <1>1, PTL DEF Spec, NoRepeatWithinInterval

(* Only a client message recorded across a round can be reminded of early.  *)
THEOREM EarlyNeedsRace == Spec => EarlyOnlyAfterRace
  <1>1. AwaitingHasReference /\ ReminderAfterMessage /\ [Next]_vars
        => [StartReminder /\ ~rowRace => row.msgAge = Interval]_vars
    BY DEF AwaitingHasReference, ReminderAfterMessage, StartReminder, GatePasses, Overdue,
           ReferenceAge
  <1> QED BY HistoryInvariant, <1>1, PTL DEF Spec, EarlyOnlyAfterRace

-----------------------------------------------------------------------------
(* AwaitingIsScheduled.  Without a race at most one task is in flight, and  *)
(* what it carries is what the row says, so that its last step leaves the   *)
(* job and the row in agreement.                                            *)
AtMostOneInFlight ==
    /\ sender.pc # "idle" => \A h \in Handlers : handlers[h].pc = "idle"
    /\ \A g, h \in Handlers : handlers[g].pc # "idle" /\ handlers[h].pc # "idle" => g = h

SenderAgrees == sender.pc = "recorded" /\ row.awaiting => row.remAge = sender.age

LoadedAgrees(h) ==
    handlers[h].pc = "loaded" =>
        IF handlers[h].kind = "client"
        THEN row.remAge # None => handlers[h].sawReminder
        ELSE row.awaiting => handlers[h].sawAwaiting

CommittedAgrees(h) ==
    handlers[h].pc = "committed" /\ row.awaiting =>
        /\ handlers[h].kind = "client"
        /\ row.msgAge = handlers[h].age
        /\ row.remAge = None

DownIsQuiet == ~up => Quiet

InFlightAgrees ==
    ~jobRace =>
        /\ AtMostOneInFlight
        /\ SenderAgrees
        /\ \A h \in Handlers : LoadedAgrees(h) /\ CommittedAgrees(h)

ScheduleInv == DownIsQuiet /\ InFlightAgrees /\ AwaitingIsScheduled

(* Every step keeps the agreement of job, row and what is in flight.       *)
LEMMA ScheduleStep ==
  ASSUME Typing, AwaitingHasReference, ScheduleInv, [Next]_vars
  PROVE  ScheduleInv'
  <1> USE DEF Typing, TypeOK, AwaitingHasReference, HandlersCarryAge, SenderCarriesAge,
              ScheduleInv, InFlightAgrees, AtMostOneInFlight, SenderAgrees, LoadedAgrees,
              CommittedAgrees, DownIsQuiet, AwaitingIsScheduled, Quiet, Rows, SenderStates,
              HandlerStates, Kinds
  <1>0. None \notin Ages
    BY DEF Ages, None
  <1>1. ASSUME NEW h \in Handlers, ReceiveClient(h) PROVE ScheduleInv'
    BY <1>1 DEF ReceiveClient, Receive
  <1>2. ASSUME NEW h \in Handlers, ReceiveStaff(h) PROVE ScheduleInv'
    BY <1>2 DEF ReceiveStaff, Receive
  <1>3. ASSUME NEW h \in Handlers, MarkAwaiting(h) PROVE ScheduleInv'
    BY <1>3 DEF MarkAwaiting, MarkedRow, Committed
  <1>4. ASSUME NEW h \in Handlers, ClearAwaiting(h) PROVE ScheduleInv'
    BY <1>4 DEF ClearAwaiting, Committed
  <1>5. ASSUME NEW h \in Handlers, CommitFails(h) PROVE ScheduleInv'
    BY <1>5 DEF CommitFails, IdleHandler
  <1>6. ASSUME NEW h \in Handlers, Schedule(h) PROVE ScheduleInv'
    BY <1>6 DEF Schedule, IdleHandler, ReferenceAge
  <1>7. ASSUME NEW h \in Handlers, Cancel(h) PROVE ScheduleInv'
    BY <1>7 DEF Cancel, IdleHandler
  <1>8. CASE DropRun BY <1>8 DEF DropRun, Due
  <1>9. CASE SkipReminder
    <2>1. CASE ~jobRace'
      <3>1. Quiet /\ up /\ ~jobRace
        BY <1>9, <2>1 DEF SkipReminder, Due
      <3>2. ~row.awaiting
        <4>1. SUFFICES ASSUME row.awaiting PROVE FALSE
          OBVIOUS
        <4>2. ReferenceAge \in Ages
          BY <4>1 DEF ReferenceAge, MaybeAge
        <4>3. IntervalAfter(ReferenceAge) = 0
          BY <3>1, <4>1, <1>9 DEF SkipReminder, Due
        <4>4. ReferenceAge = Interval
          BY <4>2, <4>3, IntervalAssumption DEF IntervalAfter, Ages
        <4> QED BY <1>9, <4>1, <4>4 DEF SkipReminder, GatePasses, Overdue
      <3> QED BY <1>9, <3>1, <3>2 DEF SkipReminder
    <2>2. CASE jobRace'
      BY <1>9, <2>2 DEF SkipReminder, Due
    <2> QED BY <2>1, <2>2
  <1>10. CASE StartReminder BY <1>10 DEF StartReminder, Due
  <1>11. CASE RecordReminder BY <1>11 DEF RecordReminder
  <1>12. CASE RecordFails BY <1>12 DEF RecordFails, IdleSender
  <1>13. CASE Reschedule
    BY <1>0, <1>13 DEF Reschedule, IdleSender, ReferenceAge
  <1>14. CASE DeleteGroup BY <1>14 DEF DeleteGroup, NoRow
  <1>15. CASE RegisterGroup BY <1>15 DEF RegisterGroup, NewRow, NoRow
  <1>16. CASE Crash BY <1>16 DEF Crash, IdleHandler, IdleSender
  <1>17. CASE Recover BY <1>17 DEF Recover, RecoveredJob, ReferenceAge
  <1>18. CASE Tick
    <2>1. \A a \in MaybeAge : Older(a) = None <=> a = None
      BY IntervalAssumption DEF Older, MaybeAge, Ages, None
    <2>2. DownIsQuiet'
      BY <1>18 DEF Tick
    <2>3. InFlightAgrees'
      BY <1>18, <2>1 DEF Tick
    <2>4. AwaitingIsScheduled'
      <3>1. SUFFICES ASSUME up, Quiet, ~jobRace, row.awaiting
                     PROVE  job' = IntervalAfter(ReferenceAge')
        BY <1>18 DEF Tick
      <3>2. ReferenceAge \in Ages /\ ReferenceAge' = Older(ReferenceAge)
        BY <1>18, <2>1, <3>1 DEF Tick, ReferenceAge, MaybeAge
      <3>3. job = IntervalAfter(ReferenceAge) /\ job' = Sooner(job)
        BY <1>18, <3>1 DEF Tick
      <3> QED BY <3>2, <3>3, SoonerTracksOlder
    <2> QED BY <2>2, <2>3, <2>4
  <1>19. CASE UNCHANGED vars BY <1>19 DEF vars, ReferenceAge
  <1> HIDE DEF ScheduleInv
  <1> QED
    BY <1>1, <1>2, <1>3, <1>4, <1>5, <1>6, <1>7, <1>8, <1>9, <1>10, <1>11, <1>12,
       <1>13, <1>14, <1>15, <1>16, <1>17, <1>18, <1>19
    DEF Next, HandlerStep, SchedulerStep, SenderStep

(* Undisturbed, an awaiting group has its job, at exactly the right moment. *)
THEOREM Scheduled == Spec => []AwaitingIsScheduled
  <1>1. Init => ScheduleInv
    <2> SUFFICES ASSUME Init PROVE ScheduleInv
      OBVIOUS
    <2>1. ~row.awaiting
      BY DEF Init, NoRow, NewRow
    <2>2. Quiet
      BY DEF Init, Quiet, IdleHandler, IdleSender
    <2> QED
      BY <2>1, <2>2
      DEF ScheduleInv, DownIsQuiet, InFlightAgrees, AtMostOneInFlight, SenderAgrees,
          LoadedAgrees, CommittedAgrees, AwaitingIsScheduled, Quiet
  <1>2. Typing /\ AwaitingHasReference /\ ScheduleInv /\ [Next]_vars => ScheduleInv'
    BY ScheduleStep
  <1>3. ScheduleInv => AwaitingIsScheduled
    BY DEF ScheduleInv
  <1> QED BY TypingInvariant, <1>1, <1>2, <1>3, PTL DEF Spec
=============================================================================
