------------------------------ MODULE Realtime ------------------------------
(***************************************************************************)
(* The channel of invalidations: the registry of WebSockets in the one     *)
(* server process (app/services/realtime.py), the endpoint that fills it   *)
(* (app/api/routes/realtime.py), and the end of the Mini App that keeps    *)
(* one socket alive across drops (miniapp/js/realtime.js).                 *)
(*                                                                         *)
(* A socket's two ends learn of its end separately.  An invalidation is a  *)
(* task that awaits every send; the coroutines of the endpoint run in      *)
(* between.                                                                *)
(***************************************************************************)
EXTENDS Naturals

CONSTANTS
    Users,
    Devices,  \* open Mini Apps
    Owner,    \* device -> its user
    Sockets,  \* connections that may exist at once
    Events,   \* invalidations that are sent, each to some users
    MaxCuts   \* bound on lines that break and restarts of the server

ASSUME RealtimeAssumption ==
    /\ Owner \in [Devices -> Users]
    /\ MaxCuts \in Nat

VARIABLES
    sockets,   \* connections
    registry,  \* _connections: user -> sockets; one without sockets has no entry
    tasks,     \* event -> its notify_users
    timers,    \* device -> how many reconnects are scheduled
    closed,    \* devices whose Mini App was closed
    expired,   \* devices whose initData is older than init_data_max_age_seconds
    cuts,      \* how many lines have broken
    untold     \* history: event -> sockets registered since it began, whole, not sent it

vars == <<sockets, registry, tasks, timers, closed, expired, cuts, untold>>

\* client: the WebSocket object; server: the coroutine of the endpoint.
Connections == [device: Devices,
                client: {"connecting", "open", "failing", "closed"},
                server: {"none", "accepted", "listening", "ended"},
                cut: BOOLEAN]
Unused == [client |-> "closed", server |-> "ended"]
Idle == [at |-> "idle"]
Done == [at |-> "done"]

\* rest: users whose turn is yet to come; turn: the snapshot of the user whose turn
\* it is.
Notifications == {Idle, Done} \cup [at: {"sending"}, rest: SUBSET Users, turn: SUBSET Sockets]

Init ==
    /\ sockets = [k \in Sockets |-> Unused]
    /\ registry = [u \in Users |-> {}]
    /\ tasks = [e \in Events |-> Idle]
    /\ timers = [d \in Devices |-> 1]
    /\ closed = {}
    /\ expired = {}
    /\ cuts = 0
    /\ untold = [e \in Events |-> {}]

-----------------------------------------------------------------------------
UserOf(k) == Owner[sockets[k].device]
Alive(k) == sockets[k].client # "closed"
SocketsOf(d) == {k \in Sockets : Alive(k) /\ sockets[k].device = d}
Served(k) == sockets[k].server \in {"accepted", "listening"}
Sending(e) == tasks[e].at = "sending"

\* Both ends are through with a connection, and no task holds on to it.
Reusable(k) ==
    /\ ~Alive(k)
    /\ sockets[k].server \in {"none", "ended"}
    /\ \A e \in Events : Sending(e) => k \notin tasks[e].turn

\* A socket is lost to those who were still to send to it.
Forgets(ks) == untold' = [e \in Events |-> untold[e] \ ks]

-----------------------------------------------------------------------------
(* The Mini App's end: open() and its listeners.                            *)

\* The timer, or connectRealtime, calls open.
Open(d, k) ==
    /\ timers[d] > 0
    /\ Reusable(k)
    /\ timers' = [timers EXCEPT ![d] = @ - 1]
    /\ sockets' = [sockets EXCEPT ![k] =
            [device |-> d, client |-> "connecting", server |-> "none", cut |-> FALSE]]
    /\ UNCHANGED <<registry, tasks, closed, expired, cuts, untold>>

\* "open": initData is sent.
Opened(k) ==
    /\ sockets[k].client = "connecting"
    /\ sockets[k].server = "accepted"
    /\ ~sockets[k].cut
    /\ sockets' = [sockets EXCEPT ![k].client = "open"]
    /\ UNCHANGED <<registry, tasks, timers, closed, expired, cuts, untold>>

\* mutant: an error schedules the reconnect itself
Failed_Reconnects(k) ==
    /\ sockets' = [sockets EXCEPT ![k].client = "failing"]
    /\ timers' = [timers EXCEPT ![sockets[k].device] = @ + 1]

\* "error": socket.close(), and "close" is still to come.
Failed(k) ==
    /\ sockets' = [sockets EXCEPT ![k].client = "failing"]
    /\ UNCHANGED timers

Breaks(k) ==
    /\ sockets[k].client \in {"connecting", "open"}
    /\ sockets[k].cut
    /\ Failed(k)
    /\ UNCHANGED <<registry, tasks, closed, expired, cuts, untold>>

\* mutant: no further attempt after one that did not reach the server
Closes_GivesUp(k) ==
    /\ \/ sockets[k].client = "failing"
       \/ sockets[k].client \in {"connecting", "open"} /\ sockets[k].server = "ended"
    /\ sockets' = [sockets EXCEPT ![k].client = "closed"]
    /\ timers' = [timers EXCEPT ![sockets[k].device] = IF sockets[k].server = "none" THEN @ ELSE @ + 1]
    /\ Forgets({k})
    /\ UNCHANGED <<registry, tasks, closed, expired, cuts>>

\* "close": scheduleReconnect.
Closes(k) ==
    /\ \/ sockets[k].client = "failing"
       \/ sockets[k].client \in {"connecting", "open"} /\ sockets[k].server = "ended"
    /\ sockets' = [sockets EXCEPT ![k].client = "closed"]
    /\ timers' = [timers EXCEPT ![sockets[k].device] = @ + 1]
    /\ Forgets({k})
    /\ UNCHANGED <<registry, tasks, closed, expired, cuts>>

\* The Mini App is closed, and its sockets and timers with it.
CloseApp(d) ==
    /\ d \notin closed
    /\ closed' = closed \cup {d}
    /\ timers' = [timers EXCEPT ![d] = 0]
    /\ sockets' = [k \in Sockets |->
            IF k \in SocketsOf(d) THEN [sockets[k] EXCEPT !.client = "closed"] ELSE sockets[k]]
    /\ Forgets(SocketsOf(d))
    /\ UNCHANGED <<registry, tasks, expired, cuts>>

\* Time passes: the initData of an open Mini App is never renewed.
Expire(d) ==
    /\ d \notin expired
    /\ expired' = expired \cup {d}
    /\ UNCHANGED <<sockets, registry, tasks, timers, closed, cuts, untold>>

-----------------------------------------------------------------------------
(* The network and the process.                                             *)

Cut(k) ==
    /\ cuts < MaxCuts
    /\ Alive(k)
    /\ ~sockets[k].cut
    /\ sockets' = [sockets EXCEPT ![k].cut = TRUE]
    /\ cuts' = cuts + 1
    /\ Forgets({k})
    /\ UNCHANGED <<registry, tasks, timers, closed, expired>>

\* The registry and every task are in memory only.
Restart ==
    /\ cuts < MaxCuts
    /\ sockets' = [k \in Sockets |->
            IF sockets[k] = Unused THEN Unused ELSE [sockets[k] EXCEPT !.server = "ended", !.cut = TRUE]]
    /\ registry' = [u \in Users |-> {}]
    /\ tasks' = [e \in Events |-> IF Sending(e) THEN Done ELSE tasks[e]]
    /\ cuts' = cuts + 1
    /\ Forgets(Sockets)
    /\ UNCHANGED <<timers, closed, expired>>

-----------------------------------------------------------------------------
(* The server's end: websocket_endpoint.                                    *)

Accept(k) ==
    /\ sockets[k].client = "connecting"
    /\ sockets[k].server = "none"
    /\ ~sockets[k].cut
    /\ sockets' = [sockets EXCEPT ![k].server = "accepted"]
    /\ UNCHANGED <<registry, tasks, timers, closed, expired, cuts, untold>>

\* mutant: what goes in is not what is taken out later
Register_Wrapped(u, k) == registry' = [registry EXCEPT ![u] = @ \cup {sockets[k]}]

Register(u, k) == registry' = [registry EXCEPT ![u] = @ \cup {k}]

\* mutant: the whole entry is dropped
Unregister_Entry(u, k) == registry' = [registry EXCEPT ![u] = {}]

Unregister(u, k) == registry' = [registry EXCEPT ![u] = @ \ {k}]

\* The first message arrives.  validate_init_data refuses one that is too old, and
\* the socket is closed.
Authenticate(k) ==
    /\ sockets[k].client = "open"
    /\ sockets[k].server = "accepted"
    /\ ~sockets[k].cut
    /\ IF sockets[k].device \in expired
       THEN sockets' = [sockets EXCEPT ![k].server = "ended"] /\ UNCHANGED registry
       ELSE sockets' = [sockets EXCEPT ![k].server = "listening"] /\ Register(UserOf(k), k)
    /\ UNCHANGED <<tasks, timers, closed, expired, cuts, untold>>

\* mutant: left to the next send to find out
Leaves_Silently(k) == UNCHANGED registry

\* The finally clause, which a handshake that breaks off does not reach.
Leaves(k) ==
    IF sockets[k].server = "listening" THEN Unregister(UserOf(k), k) ELSE UNCHANGED registry

\* WebSocketDisconnect, in the handshake or in the receive loop.
Disconnected(k) ==
    /\ Served(k)
    /\ sockets[k].cut \/ ~Alive(k)
    /\ Leaves(k)
    /\ sockets' = [sockets EXCEPT ![k].server = "ended"]
    /\ Forgets({k})
    /\ UNCHANGED <<tasks, timers, closed, expired, cuts>>

-----------------------------------------------------------------------------
(* notify_users.                                                            *)

\* Someone's commit tells some users.
Notify(e, us) ==
    /\ tasks[e] = Idle
    /\ tasks' = [tasks EXCEPT ![e] = [at |-> "sending", rest |-> us, turn |-> {}]]
    /\ untold' = [untold EXCEPT ![e] =
            {k \in UNION {registry[u] : u \in us} : Alive(k) /\ ~sockets[k].cut}]
    /\ UNCHANGED <<sockets, registry, timers, closed, expired, cuts>>

\* notify_user: the sockets are those of this moment.
NextUser(e, u) ==
    /\ Sending(e)
    /\ tasks[e].turn = {}
    /\ u \in tasks[e].rest
    /\ tasks' = [tasks EXCEPT ![e] =
            [at |-> "sending", rest |-> tasks[e].rest \ {u}, turn |-> registry[u]]]
    /\ UNCHANGED <<sockets, registry, timers, closed, expired, cuts, untold>>

Finish(e) ==
    /\ Sending(e)
    /\ tasks[e].turn = {}
    /\ tasks[e].rest = {}
    /\ tasks' = [tasks EXCEPT ![e] = Done]
    /\ UNCHANGED <<sockets, registry, timers, closed, expired, cuts, untold>>

\* A socket that is still whole takes the event.
SendSucceeds(e, k) ==
    /\ Sending(e)
    /\ k \in tasks[e].turn
    /\ sockets[k].server = "listening"
    /\ tasks' = [tasks EXCEPT ![e].turn = @ \ {k}]
    /\ untold' = [untold EXCEPT ![e] = @ \ {k}]
    /\ UNCHANGED <<sockets, registry, timers, closed, expired, cuts>>

\* mutant: the exception ends the loop
AfterFailure_Stops(e, k) == tasks' = [tasks EXCEPT ![e] = Done]

AfterFailure(e, k) == tasks' = [tasks EXCEPT ![e].turn = @ \ {k}]

\* send_json raises on a socket that is broken: it leaves the registry at once.
SendFails(e, k) ==
    /\ Sending(e)
    /\ k \in tasks[e].turn
    /\ sockets[k].cut \/ ~Alive(k) \/ sockets[k].server = "ended"
    /\ AfterFailure(e, k)
    /\ Unregister(UserOf(k), k)
    /\ UNCHANGED <<sockets, timers, closed, expired, cuts, untold>>

-----------------------------------------------------------------------------
\* The callbacks and coroutines of one connection.
Runs(k) == Opened(k) \/ Breaks(k) \/ Closes(k) \/ Accept(k) \/ Authenticate(k) \/ Disconnected(k)

\* The task that sends an event.
Sends(e) ==
    \/ \E u \in Users : NextUser(e, u)
    \/ Finish(e)
    \/ \E k \in Sockets : SendSucceeds(e, k) \/ SendFails(e, k)

Happens ==
    \/ \E d \in Devices : CloseApp(d) \/ Expire(d)
    \/ \E k \in Sockets : Cut(k)
    \/ Restart
    \/ \E e \in Events, us \in SUBSET Users : Notify(e, us)

Next ==
    \/ \E d \in Devices, k \in Sockets : Open(d, k)
    \/ \E k \in Sockets : Runs(k)
    \/ \E e \in Events : Sends(e)
    \/ Happens

Spec == Init /\ [][Next]_vars

\* Both event loops run what is due, the browser reports a broken line and the
\* server's pings find it; strong only because Sockets are shared here.
FairSpec ==
    /\ Spec
    /\ \A d \in Devices : SF_vars(\E k \in Sockets : Open(d, k))
    /\ \A k \in Sockets : WF_vars(Runs(k))
    /\ \A e \in Events : WF_vars(Sends(e))

-----------------------------------------------------------------------------
TypeOK ==
    /\ sockets \in [Sockets -> {Unused} \cup Connections]
    /\ registry \in [Users -> SUBSET Sockets]
    /\ tasks \in [Events -> Notifications]
    /\ timers \in [Devices -> Nat]
    /\ closed \subseteq Devices
    /\ expired \subseteq Devices
    /\ cuts \in Nat
    /\ untold \in [Events -> SUBSET Sockets]

Listening(k) == sockets[k].server = "listening"

\* A socket in the receive loop that is whole is in the registry, whatever became
\* of the other sockets of its user: "the Mini App open in two tabs, or a reconnect
\* racing the old socket's close" (realtime.register and unregister).
ListenersAreRegistered ==
    \A k \in Sockets : Alive(k) /\ Listening(k) /\ ~sockets[k].cut => k \in registry[UserOf(k)]

\* "The registry doesn't accumulate dead entries" (websocket_endpoint): each is a
\* socket that its coroutine still listens to, under its own user.
RegistryIsServed ==
    \A u \in Users : \A k \in registry[u] : Listening(k) /\ UserOf(k) = u

\* An open Mini App has one socket or one timer that will open it, never two and
\* never none; a closed one has neither (realtime.js, open and scheduleReconnect).
OneChainPerDevice ==
    \A d \in Devices :
        /\ timers[d] <= 1
        /\ timers[d] = 1 => SocketsOf(d) = {}
        /\ \A k, l \in SocketsOf(d) : k = l
        /\ timers[d] = 0 /\ SocketsOf(d) = {} <=> d \in closed

\* A notification reaches every socket of its users that was registered when it
\* began and is whole, whichever others die under way (realtime.notify_user).
EveryListenerIsTold == \A e \in Events : tasks[e] = Done => untold[e] = {}

\* The Mini App is registered again after every drop, "rather than giving up"
\* (realtime.js), as long as it is open and its initData is young enough.
Reconnects ==
    \A d \in Devices :
        []<>(d \in closed \cup expired \/ \E k \in Sockets : Listening(k) /\ sockets[k].device = d)
=============================================================================
