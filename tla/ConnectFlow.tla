--------------------------- MODULE ConnectFlow ---------------------------
(***************************************************************************)
(* Connecting a personal Telegram account: the phone / code / password     *)
(* flow of app/services/telethon_auth.py, driven from two surfaces, the    *)
(* bot's /connect (app/bot/handlers/connect.py, with its FSM state) and    *)
(* the Mini App's routes (app/api/routes/auth.py).  Everything is keyed by *)
(* the user, so one user is the whole story.                               *)
(*                                                                         *)
(* Calls of both surfaces are tasks of one event loop, split where they    *)
(* await Telegram, the database or the user's lock.  asyncio suspends      *)
(* neither when a lock is released nor in MemoryStorage, so an FSM state   *)
(* set right after a call of telethon_auth belongs to the step that        *)
(* releases the lock.                                                      *)
(***************************************************************************)

CONSTANTS
    Tasks,     \* the tasks that may be serving the user at once
    Clients,   \* TelegramClient objects
    NoTask,
    NoClient,
    Surfaces,  \* {"bot", "app"}, or one of them
    Failures   \* whether database writes and the bot's own messages may fail

ASSUME ConnectAssumption ==
    /\ NoTask \notin Tasks
    /\ NoClient \notin Clients
    /\ Surfaces \subseteq {"bot", "app"}
    /\ Failures \in BOOLEAN

VARIABLES
    holder,   \* who holds _locks[user_id]
    calls,    \* task -> what it does
    pending,  \* _pending_clients and _pending_phone_data, always written together
    clients,  \* Telegram: what each client waits for, "off" when disconnected
    row,      \* the row of table users: absent, plain or connected (with a session)
    fsm       \* the FSM state of the user's chat with the bot

vars == <<holder, calls, pending, clients, row, fsm>>

Ops == {"phone", "code", "password", "cancel"}
Locked == {"entered", "dialing", "sent", "signing", "saving"}

Idle == [pc |-> "idle", via |-> "app", op |-> "cancel", client |-> NoClient]

Calls == [pc: {"idle", "arrived", "answering", "menu"} \cup Locked, via: {"bot", "app"},
          op: Ops, client: Clients \cup {NoClient}]
ClientStates == {"off", "code", "codeThenPassword", "password"}
Rows == {"absent", "plain", "connected"}
FsmStates == {"none", "phone", "code", "password", "other"}

Init ==
    /\ holder = NoTask
    /\ calls = [t \in Tasks |-> Idle]
    /\ pending = NoClient
    /\ clients = [c \in Clients |-> "off"]
    /\ row \in Rows
    /\ fsm = "none"

Goes(t, call) == calls' = [calls EXCEPT ![t] = call]
At(t, pc) == calls[t].pc = pc

-----------------------------------------------------------------------------
(* A call arrives, and waits for the lock of the user.                      *)

\* A request of the Mini App, or of anything else that speaks to the API.
CallFromApp(t, op) ==
    /\ "app" \in Surfaces
    /\ At(t, "idle")
    /\ Goes(t, [Idle EXCEPT !.pc = "arrived", !.op = op])
    /\ UNCHANGED <<holder, pending, clients, row, fsm>>

\* A text message: the FSM state at dispatch selects process_phone, process_code
\* or process_password.
CallFromBot(t) ==
    /\ At(t, "idle")
    /\ fsm \in Ops
    /\ Goes(t, [Idle EXCEPT !.pc = "arrived", !.via = "bot", !.op = fsm])
    /\ UNCHANGED <<holder, pending, clients, row, fsm>>

\* mutant: no lock
Acquire_Unlocked(t) ==
    /\ At(t, "arrived")
    /\ holder' = t
    /\ Goes(t, [calls[t] EXCEPT !.pc = "entered"])
    /\ UNCHANGED <<pending, clients, row, fsm>>

Acquire(t) ==
    /\ At(t, "arrived")
    /\ holder = NoTask
    /\ holder' = t
    /\ Goes(t, [calls[t] EXCEPT !.pc = "entered"])
    /\ UNCHANGED <<pending, clients, row, fsm>>

\* mutant: an error leaves the conversation where it was
FsmAfter_KeepsOnError(status) ==
    CASE status = "password_required" -> "password"
      [] status = "code_sent" -> "code"
      [] status = "connected" -> "none"
      [] OTHER -> fsm

\* mutant: the status itself becomes the state
FsmAfter_Status(status) == IF status \in {"error", "connected"} THEN "none" ELSE status

\* process_phone and _handle_result: the state a result leads to.
FsmAfter(status) ==
    CASE status = "password_required" -> "password"
      [] status = "code_sent" -> "code"
      [] OTHER -> "none"

\* The lock is released and the caller has its AuthStepResult.  process_phone
\* reports an error before it clears the state.
Returns(t, status) ==
    /\ holder' = NoTask
    /\ LET byBot == calls[t].via = "bot"
           late == byBot /\ calls[t].op = "phone" /\ status = "error"
       IN  /\ Goes(t, IF late THEN [Idle EXCEPT !.pc = "answering"] ELSE Idle)
           /\ fsm' = IF byBot /\ ~late THEN FsmAfter(status) ELSE fsm

\* An exception leaves the call: the lock is released, the conversation stays.
Raises(t) ==
    /\ Failures
    /\ holder' = NoTask
    /\ Goes(t, Idle)
    /\ UNCHANGED fsm

\* process_phone: the error is told, then the state cleared.
ClearAfterAnswer(t) ==
    /\ At(t, "answering")
    /\ fsm' = "none"
    /\ Goes(t, Idle)
    /\ UNCHANGED <<holder, pending, clients, row>>

AnswerFails(t) ==
    /\ Failures
    /\ At(t, "answering")
    /\ Goes(t, Idle)
    /\ UNCHANGED <<holder, pending, clients, row, fsm>>

-----------------------------------------------------------------------------
(* Under the lock.                                                          *)

\* _cancel_auth_locked: the pending client is dropped and disconnected.
CancelLocked ==
    /\ pending' = NoClient
    /\ clients' = [c \in Clients |-> IF c = pending THEN "off" ELSE clients[c]]

\* mutant: the public cancel_auth, which waits for the lock again
CancelPrevious_Public(t) ==
    /\ At(t, "entered")
    /\ calls[t].op = "phone"
    /\ Goes(t, [calls[t] EXCEPT !.pc = "arrived"])
    /\ UNCHANGED <<holder, pending, clients, row, fsm>>

\* start_phone_auth drops what an earlier attempt left.
CancelPrevious(t) ==
    /\ At(t, "entered")
    /\ calls[t].op = "phone"
    /\ CancelLocked
    /\ Goes(t, [calls[t] EXCEPT !.pc = "dialing"])
    /\ UNCHANGED <<holder, row, fsm>>

\* connect and send_code_request.  What Telegram will ask of this client is the
\* business of the account behind the phone number.
SendCode(t, c, kind) ==
    /\ At(t, "dialing")
    /\ clients[c] = "off"
    /\ kind \in {"code", "codeThenPassword"}
    /\ clients' = [clients EXCEPT ![c] = kind]
    /\ Goes(t, [calls[t] EXCEPT !.pc = "sent", !.client = c])
    /\ UNCHANGED <<holder, pending, row, fsm>>

\* A bad number, a flood limit, no network: the new client is disconnected.
SendCodeFails(t) ==
    /\ At(t, "dialing")
    /\ Returns(t, "error")
    /\ UNCHANGED <<pending, clients, row>>

\* get_or_create_user; only after the commit is the client pending.
KeepPending(t) ==
    /\ At(t, "sent")
    /\ row' = IF row = "absent" THEN "plain" ELSE row
    /\ pending' = calls[t].client
    /\ Returns(t, "code_sent")
    /\ UNCHANGED clients

\* The write fails, e.g. because another task has just inserted the row.
KeepPendingFails(t) ==
    /\ At(t, "sent")
    /\ Raises(t)
    /\ UNCHANGED <<pending, clients, row>>

Submits(t) == calls[t].op \in {"code", "password"}

\* submit_code, submit_password: "the session is lost".
FindNothing(t) ==
    /\ At(t, "entered")
    /\ Submits(t)
    /\ pending = NoClient
    /\ Returns(t, "error")
    /\ UNCHANGED <<pending, clients, row>>

FindClient(t) ==
    /\ At(t, "entered")
    /\ Submits(t)
    /\ pending # NoClient
    /\ Goes(t, [calls[t] EXCEPT !.pc = "signing", !.client = pending])
    /\ UNCHANGED <<holder, pending, clients, row, fsm>>

\* _finish begins: the session is saved in memory, the client disconnected and
\* forgotten.
Finishing(t) ==
    /\ clients' = [clients EXCEPT ![calls[t].client] = "off"]
    /\ pending' = NoClient
    /\ Goes(t, [calls[t] EXCEPT !.pc = "saving", !.client = NoClient])
    /\ UNCHANGED <<holder, row, fsm>>

\* sign_in succeeds.
SignIn(t) ==
    /\ At(t, "signing")
    /\ clients[calls[t].client] = calls[t].op
    /\ Finishing(t)

\* mutant: the request for a password is taken for a success
NeedPassword_Connected(t) ==
    /\ At(t, "signing")
    /\ calls[t].op = "code"
    /\ clients[calls[t].client] \in {"codeThenPassword", "password"}
    /\ Finishing(t)

\* SessionPasswordNeededError
NeedPassword(t) ==
    /\ At(t, "signing")
    /\ calls[t].op = "code"
    /\ clients[calls[t].client] \in {"codeThenPassword", "password"}
    /\ clients' = [clients EXCEPT ![calls[t].client] = "password"]
    /\ Returns(t, "password_required")
    /\ UNCHANGED <<pending, row>>

\* A wrong or expired code, a wrong password, any other exception.
SignInFails(t) ==
    /\ At(t, "signing")
    /\ CancelLocked
    /\ Returns(t, "error")
    /\ UNCHANGED row

\* set_user_session and commit: nothing is written when there is no row.
SaveSession(t) ==
    /\ At(t, "saving")
    /\ row' = IF row = "absent" THEN "absent" ELSE "connected"
    /\ Returns(t, "connected")
    /\ UNCHANGED <<pending, clients>>

SaveSessionFails(t) ==
    /\ At(t, "saving")
    /\ Raises(t)
    /\ UNCHANGED <<pending, clients, row>>

\* cancel_auth
Cancel(t) ==
    /\ At(t, "entered")
    /\ calls[t].op = "cancel"
    /\ CancelLocked
    /\ Returns(t, "cancelled")
    /\ UNCHANGED row

-----------------------------------------------------------------------------
(* The rest of the conversation with the bot, which shares the FSM state.   *)

\* /connect: unlike the Mini App's, nothing of an earlier attempt is dropped.
ConnectCommand ==
    /\ "bot" \in Surfaces
    /\ fsm' = "phone"
    /\ UNCHANGED <<holder, calls, pending, clients, row>>

\* /newgroup and /add_client ask the database whether the account is connected,
\* and then set a state of their own.  In the states of /connect these words
\* are taken for a phone number, a code or a password.
OtherCommand(t) ==
    /\ "bot" \in Surfaces
    /\ At(t, "idle")
    /\ fsm \in {"none", "other"}
    /\ row = "connected"
    /\ Goes(t, [Idle EXCEPT !.pc = "menu"])
    /\ UNCHANGED <<holder, pending, clients, row, fsm>>

OtherState(t) ==
    /\ At(t, "menu")
    /\ fsm' = "other"
    /\ Goes(t, Idle)
    /\ UNCHANGED <<holder, pending, clients, row>>

\* process_group_title, process_contact
OtherEnds ==
    /\ fsm = "other"
    /\ fsm' = "none"
    /\ UNCHANGED <<holder, calls, pending, clients, row>>

-----------------------------------------------------------------------------
(* What else happens to the user's row, and to the process.                 *)

\* get_or_create_user of GET /users/me, /start and others
OpenApp ==
    /\ row = "absent"
    /\ row' = "plain"
    /\ UNCHANGED <<holder, calls, pending, clients, fsm>>

\* delete_user of offboard_staff, and remove_member of a person without a role
Offboard ==
    /\ row # "absent"
    /\ row' = "absent"
    /\ UNCHANGED <<holder, calls, pending, clients, fsm>>

\* Only the database survives a restart.
Restart ==
    /\ holder' = NoTask
    /\ calls' = [t \in Tasks |-> Idle]
    /\ pending' = NoClient
    /\ clients' = [c \in Clients |-> "off"]
    /\ fsm' = "none"
    /\ UNCHANGED row

-----------------------------------------------------------------------------
LockedStep(t) ==
    \/ CancelPrevious(t)
    \/ \E c \in Clients, kind \in ClientStates : SendCode(t, c, kind)
    \/ SendCodeFails(t)
    \/ KeepPending(t)
    \/ KeepPendingFails(t)
    \/ FindNothing(t)
    \/ FindClient(t)
    \/ SignIn(t)
    \/ NeedPassword(t)
    \/ SignInFails(t)
    \/ SaveSession(t)
    \/ SaveSessionFails(t)
    \/ Cancel(t)

LastStep(t) == ClearAfterAnswer(t) \/ AnswerFails(t) \/ OtherState(t)

Next ==
    \/ \E t \in Tasks :
        \/ \E op \in Ops : CallFromApp(t, op)
        \/ CallFromBot(t)
        \/ Acquire(t)
        \/ LockedStep(t)
        \/ OtherCommand(t)
        \/ LastStep(t)
    \/ ConnectCommand
    \/ OtherEnds
    \/ OpenApp
    \/ Offboard
    \/ Restart

Spec == Init /\ [][Next]_vars

\* The event loop serves every task, every call to Telegram and to the database
\* ends, and asyncio.Lock hands the lock over in the order of arrival: whoever
\* keeps finding it free has it some day.
Fairness ==
    \A t \in Tasks :
        /\ SF_vars(Acquire(t))
        /\ WF_vars(LockedStep(t))
        /\ WF_vars(LastStep(t))

FairSpec == Spec /\ Fairness

-----------------------------------------------------------------------------
TypeOK ==
    /\ holder \in Tasks \cup {NoTask}
    /\ calls \in [Tasks -> Calls]
    /\ pending \in Clients \cup {NoClient}
    /\ clients \in [Clients -> ClientStates]
    /\ row \in Rows
    /\ fsm \in FsmStates

\* A connected client that somebody will disconnect: the pending one, or one in
\* the hands of a call.
Kept(c) == pending = c \/ \E t \in Tasks : calls[t].client = c /\ calls[t].pc \in Locked

\* No connection to Telegram is lost track of while it is open, however the calls
\* of a double tap or of both surfaces cross (the comment on _locks), except when
\* the user row cannot be written after the code was sent.
NoClientLeaks ==
    [][\A c \in Clients :
        (clients[c] = "off" \/ Kept(c)) /\ clients'[c] # "off" /\ ~Kept(c)' =>
            \E t \in Tasks : KeepPendingFails(t)]_vars

\* The attempt in progress, as Login sees it.
Stage ==
    IF \E t \in Tasks : calls[t].pc = "saving" THEN "passed"
    ELSE IF pending = NoClient THEN "none"
    ELSE clients[pending]

Promise == INSTANCE Login WITH stage <- Stage, account <- row

\* The flow implements Login: one attempt at a time, the steps in order, and a
\* session is stored only by an attempt that passed them all.
KeepsPromise == Promise!Spec

\* Every call comes to an end: nobody waits for a lock that is never released, or
\* for one he holds himself (the comment in start_phone_auth).
EveryCallReturns == \A t \in Tasks : calls[t].pc # "idle" ~> calls[t].pc = "idle"

\* With the bot as the only surface and no failures: when no call is under way
\* and no error is still to be told, a conversation that expects a code or a
\* password belongs to an open attempt that needs just that, however fast the
\* messages follow one another.
BotStateFollowsLogin ==
    holder = NoTask /\ (\A t \in Tasks : ~At(t, "answering")) =>
        /\ fsm = "code" => Stage \in {"code", "codeThenPassword"}
        /\ fsm = "password" => Stage = "password"
=============================================================================
