--------------------------- MODULE RealtimeProofs ---------------------------
(***************************************************************************)
(* What holds of the channel of invalidations for any users, devices,      *)
(* sockets and events.                                                     *)
(***************************************************************************)
EXTENDS Realtime, TLAPS

USE RealtimeAssumption DEF Unused, Idle, Done

\* A connection that is not unused has all its fields, and keeps them.
LEMMA ConnectionFields ==
    ASSUME NEW c \in Connections
    PROVE  /\ c.device \in Devices /\ c.cut \in BOOLEAN
           /\ c.client \in {"connecting", "open", "failing", "closed"}
           /\ c.server \in {"none", "accepted", "listening", "ended"}
           /\ \A x \in {"connecting", "open", "failing", "closed"} : [c EXCEPT !.client = x] \in Connections
           /\ \A x \in {"none", "accepted", "listening", "ended"} : [c EXCEPT !.server = x] \in Connections
           /\ [c EXCEPT !.cut = TRUE] \in Connections
           /\ [c EXCEPT !.server = "ended", !.cut = TRUE] \in Connections
           /\ [c EXCEPT !.server = "ended", !.cut = TRUE].server = "ended"
           /\ [c EXCEPT !.server = "ended", !.cut = TRUE].client = c.client
           /\ [c EXCEPT !.server = "ended", !.cut = TRUE].device = c.device
  BY DEF Connections

\* Whatever is not closed or not ended is a connection.
LEMMA InUse ==
    ASSUME TypeOK, NEW k \in Sockets, sockets[k].client # "closed" \/ sockets[k].server # "ended"
    PROVE  sockets[k] \in Connections
  BY DEF TypeOK

LEMMA ForgetsType ==
    ASSUME TypeOK, NEW ks, Forgets(ks)
    PROVE  untold' \in [Events -> SUBSET Sockets]
  BY DEF TypeOK, Forgets

-----------------------------------------------------------------------------
LEMMA TypeStep == TypeOK /\ [Next]_vars => TypeOK'
<1> SUFFICES ASSUME TypeOK, [Next]_vars PROVE TypeOK'
  OBVIOUS
<1>1. ASSUME NEW d \in Devices, NEW k \in Sockets, Open(d, k) PROVE TypeOK'
  BY <1>1 DEF TypeOK, Open, Connections
<1>2. ASSUME NEW k \in Sockets, Runs(k) PROVE TypeOK'
  <2>1. CASE Opened(k)
    BY <2>1, InUse, ConnectionFields DEF TypeOK, Opened
  <2>2. CASE Breaks(k)
    BY <2>2, InUse, ConnectionFields DEF TypeOK, Breaks, Failed
  <2>3. CASE Closes(k)
    <3>1. sockets[k] \in Connections
      BY <2>3, InUse DEF Closes
    <3>2. sockets' \in [Sockets -> {Unused} \cup Connections]
      BY <2>3, <3>1, ConnectionFields DEF TypeOK, Closes
    <3>3. sockets[k].device \in Devices
      BY <3>1, ConnectionFields
    <3>4. timers' \in [Devices -> Nat]
      BY <2>3, <3>3 DEF TypeOK, Closes
    <3> QED
      BY <2>3, <3>2, <3>4, ForgetsType DEF TypeOK, Closes
  <2>4. CASE Accept(k)
    BY <2>4, InUse, ConnectionFields DEF TypeOK, Accept
  <2>5. CASE Authenticate(k)
    <3>1. sockets[k] \in Connections /\ UserOf(k) \in Users
      BY <2>5, InUse, ConnectionFields DEF Authenticate, UserOf
    <3>2. sockets' \in [Sockets -> {Unused} \cup Connections]
      <4>1. \E x \in {"ended", "listening"} : sockets' = [sockets EXCEPT ![k] = [@ EXCEPT !.server = x]]
        BY <2>5 DEF Authenticate
      <4>2. \A x \in {"ended", "listening"} : [sockets[k] EXCEPT !.server = x] \in Connections
        BY <3>1, ConnectionFields
      <4> QED
        BY <4>1, <4>2 DEF TypeOK
    <3>3. registry' \in [Users -> SUBSET Sockets]
      BY <2>5, <3>1 DEF TypeOK, Authenticate, Register
    <3> QED
      BY <2>5, <3>2, <3>3 DEF TypeOK, Authenticate
  <2>6. CASE Disconnected(k)
    <3>1. sockets[k] \in Connections
      BY <2>6, InUse DEF Disconnected, Served
    <3>2. sockets' \in [Sockets -> {Unused} \cup Connections]
      BY <2>6, <3>1, ConnectionFields DEF TypeOK, Disconnected
    <3>3. registry' \in [Users -> SUBSET Sockets]
      BY <2>6 DEF TypeOK, Disconnected, Leaves, Unregister
    <3> QED
      BY <2>6, <3>2, <3>3, ForgetsType DEF TypeOK, Disconnected
  <2> QED
    BY <1>2, <2>1, <2>2, <2>3, <2>4, <2>5, <2>6 DEF Runs
<1>3. ASSUME NEW e \in Events, Sends(e) PROVE TypeOK'
  <2>1. ASSUME NEW u \in Users, NextUser(e, u) PROVE TypeOK'
    <3>1. tasks[e] \in [at: {"sending"}, rest: SUBSET Users, turn: SUBSET Sockets]
      BY <2>1 DEF TypeOK, NextUser, Sending, Notifications
    <3>2. tasks' \in [Events -> Notifications]
      BY <2>1, <3>1 DEF TypeOK, NextUser, Notifications
    <3> QED
      BY <2>1, <3>2 DEF TypeOK, NextUser
  <2>2. CASE Finish(e)
    BY <2>2 DEF TypeOK, Finish, Sending, Notifications
  <2>3. ASSUME NEW k \in Sockets, SendSucceeds(e, k) PROVE TypeOK'
    BY <2>3 DEF TypeOK, SendSucceeds, Sending, Notifications
  <2>4. ASSUME NEW k \in Sockets, SendFails(e, k) PROVE TypeOK'
    BY <2>4 DEF TypeOK, SendFails, AfterFailure, Unregister, UserOf, Sending, Notifications
  <2> QED
    BY <1>3, <2>1, <2>2, <2>3, <2>4 DEF Sends
<1>4. CASE Happens
  <2>1. ASSUME NEW d \in Devices, CloseApp(d) PROVE TypeOK'
    BY <2>1, InUse, ConnectionFields DEF TypeOK, CloseApp, SocketsOf, Alive, Forgets
  <2>2. ASSUME NEW d \in Devices, Expire(d) PROVE TypeOK'
    BY <2>2 DEF TypeOK, Expire
  <2>3. ASSUME NEW k \in Sockets, Cut(k) PROVE TypeOK'
    <3>1. sockets[k] \in Connections
      BY <2>3, InUse DEF Cut, Alive
    <3>2. sockets' \in [Sockets -> {Unused} \cup Connections]
      BY <2>3, <3>1, ConnectionFields DEF TypeOK, Cut
    <3> QED
      BY <2>3, <3>2, ForgetsType DEF TypeOK, Cut
  <2>4. CASE Restart
    <3>1. sockets' \in [Sockets -> {Unused} \cup Connections]
      BY <2>4, ConnectionFields DEF TypeOK, Restart
    <3>2. tasks' \in [Events -> Notifications]
      BY <2>4 DEF TypeOK, Restart, Notifications
    <3>3. registry' \in [Users -> SUBSET Sockets]
      BY <2>4 DEF Restart
    <3>4. untold' \in [Events -> SUBSET Sockets]
      BY <2>4, ForgetsType DEF Restart
    <3> QED
      <4>1. cuts' = cuts + 1 /\ timers' = timers /\ closed' = closed /\ expired' = expired
        BY <2>4 DEF Restart
      <4>2. cuts' \in Nat
        BY <4>1 DEF TypeOK
      <4> QED
        BY <3>1, <3>2, <3>3, <3>4, <4>1, <4>2 DEF TypeOK
  <2>5. ASSUME NEW e \in Events, NEW us \in SUBSET Users, Notify(e, us) PROVE TypeOK'
    BY <2>5 DEF TypeOK, Notify, Notifications
  <2> QED
    BY <1>4, <2>1, <2>2, <2>3, <2>4, <2>5 DEF Happens
<1>5. CASE UNCHANGED vars
  BY <1>5 DEF TypeOK, vars
<1> QED
  BY <1>1, <1>2, <1>3, <1>4, <1>5 DEF Next

\* The types of the state, from the first one on.
THEOREM TypeCorrect == Spec => []TypeOK
<1>1. Init => TypeOK
  BY DEF Init, TypeOK, Notifications
<1> QED
  BY <1>1, TypeStep, PTL DEF Spec

-----------------------------------------------------------------------------
(* The invariant behind the properties of the registry.                     *)

Whole(k) == Alive(k) /\ Listening(k) /\ ~sockets[k].cut

\* Who is still to be sent an event is whole, and its turn is now or comes.
UntoldAreDue ==
    \A e \in Events : \A k \in untold[e] :
        /\ Whole(k)
        /\ Sending(e)
        /\ k \in tasks[e].turn \/ UserOf(k) \in tasks[e].rest

RegistryInv ==
    /\ TypeOK
    /\ RegistryIsServed
    /\ ListenersAreRegistered
    /\ UntoldAreDue

\* How the record of one connection changes.
LEMMA ClientChanges ==
    ASSUME TypeOK, NEW k \in Sockets, sockets[k] \in Connections, NEW x,
           sockets' = [sockets EXCEPT ![k].client = x]
    PROVE  /\ \A j \in Sockets \ {k} : sockets'[j] = sockets[j]
           /\ sockets'[k].client = x
           /\ sockets'[k].device = sockets[k].device
           /\ sockets'[k].server = sockets[k].server
           /\ sockets'[k].cut = sockets[k].cut
  BY DEF TypeOK, Connections

LEMMA ServerChanges ==
    ASSUME TypeOK, NEW k \in Sockets, sockets[k] \in Connections, NEW x,
           sockets' = [sockets EXCEPT ![k].server = x]
    PROVE  /\ \A j \in Sockets \ {k} : sockets'[j] = sockets[j]
           /\ sockets'[k].server = x
           /\ sockets'[k].device = sockets[k].device
           /\ sockets'[k].client = sockets[k].client
           /\ sockets'[k].cut = sockets[k].cut
  BY DEF TypeOK, Connections

LEMMA LineChanges ==
    ASSUME TypeOK, NEW k \in Sockets, sockets[k] \in Connections, NEW x,
           sockets' = [sockets EXCEPT ![k].cut = x]
    PROVE  /\ \A j \in Sockets \ {k} : sockets'[j] = sockets[j]
           /\ sockets'[k].cut = x
           /\ sockets'[k].device = sockets[k].device
           /\ sockets'[k].client = sockets[k].client
           /\ sockets'[k].server = sockets[k].server
  BY DEF TypeOK, Connections

\* A step that neither registers nor sends keeps the invariant if it takes no
\* coroutine out of its receive loop and makes no socket whole, and if those that
\* are still to be told stay whole.
LEMMA Bystander ==
    ASSUME RegistryInv, TypeOK',
           UNCHANGED <<registry, tasks>>,
           \A e \in Events : untold'[e] \subseteq untold[e],
           \A j \in Sockets : Listening(j) => Listening(j)' /\ sockets'[j].device = sockets[j].device,
           \A j \in Sockets : Whole(j)' => Whole(j),
           \A e \in Events : \A j \in untold'[e] : Whole(j)'
    PROVE  RegistryInv'
<1> USE DEF RegistryInv
<1>1. RegistryIsServed'
  BY DEF RegistryIsServed, UserOf, TypeOK
<1>2. ListenersAreRegistered'
  BY DEF ListenersAreRegistered, Whole, UserOf, TypeOK
<1>3. UntoldAreDue'
  <2> SUFFICES ASSUME NEW e \in Events, NEW k \in untold'[e]
               PROVE  Sending(e)' /\ (k \in tasks'[e].turn \/ UserOf(k)' \in tasks'[e].rest)
    BY DEF UntoldAreDue
  <2>1. k \in Sockets /\ k \in untold[e]
    BY DEF TypeOK
  <2>2. Whole(k) /\ UserOf(k)' = UserOf(k)
    BY <2>1 DEF UntoldAreDue, Whole, UserOf
  <2> QED
    BY <2>1, <2>2 DEF UntoldAreDue, Sending
<1> QED
  BY <1>1, <1>2, <1>3

\* How a task moves on by one socket.
TurnShrinks(e, k) ==
    /\ tasks'[e].at = tasks[e].at
    /\ tasks'[e].rest = tasks[e].rest
    /\ tasks'[e].turn = tasks[e].turn \ {k}

LEMMA SendingFields ==
    ASSUME TypeOK, NEW e \in Events, Sending(e), NEW x
    PROVE  /\ [tasks[e] EXCEPT !.turn = x].at = tasks[e].at
           /\ [tasks[e] EXCEPT !.turn = x].rest = tasks[e].rest
           /\ [tasks[e] EXCEPT !.turn = x].turn = x
  BY DEF TypeOK, Notifications, Sending

\* No step breaks the invariant.
LEMMA RegistryStep == RegistryInv /\ [Next]_vars => RegistryInv'
<1> SUFFICES ASSUME RegistryInv, [Next]_vars PROVE RegistryInv'
  OBVIOUS
<1>0. TypeOK /\ TypeOK'
  BY TypeStep DEF RegistryInv
<1>1. ASSUME NEW d \in Devices, NEW k \in Sockets, Open(d, k) PROVE RegistryInv'
  <2>1. /\ \A j \in Sockets \ {k} : sockets'[j] = sockets[j]
        /\ ~Listening(k) /\ ~Alive(k) /\ ~Listening(k)'
    BY <1>0, <1>1 DEF Open, Reusable, Listening, TypeOK
  <2>2. \A e \in Events : k \notin untold[e]
    BY <2>1 DEF RegistryInv, UntoldAreDue, Whole
  <2> QED
    BY <1>0, <1>1, <2>1, <2>2, Bystander DEF Open, RegistryInv, UntoldAreDue, Whole, Alive, Listening, TypeOK
<1>2. ASSUME NEW k \in Sockets, Runs(k) PROVE RegistryInv'
  <2>1. CASE Opened(k)
    <3>1. sockets[k] \in Connections
      BY <1>0, <2>1, InUse DEF Opened
    <3> QED
      BY <1>0, <2>1, <3>1, ClientChanges, Bystander
         DEF Opened, RegistryInv, UntoldAreDue, Whole, Alive, Listening, TypeOK
  <2>2. CASE Breaks(k)
    <3>1. sockets[k] \in Connections
      BY <1>0, <2>2, InUse DEF Breaks
    <3> QED
      BY <1>0, <2>2, <3>1, ClientChanges, Bystander
         DEF Breaks, Failed, RegistryInv, UntoldAreDue, Whole, Alive, Listening, TypeOK
  <2>3. CASE Closes(k)
    <3>1. sockets[k] \in Connections
      BY <1>0, <2>3, InUse DEF Closes
    <3> QED
      BY <1>0, <2>3, <3>1, ClientChanges, Bystander
         DEF Closes, Forgets, RegistryInv, UntoldAreDue, Whole, Alive, Listening, TypeOK
  <2>4. CASE Accept(k)
    <3>1. sockets[k] \in Connections
      BY <1>0, <2>4, InUse DEF Accept
    <3> QED
      BY <1>0, <2>4, <3>1, ServerChanges, Bystander
         DEF Accept, RegistryInv, UntoldAreDue, Whole, Alive, Listening, TypeOK
  <2>5. CASE Authenticate(k)
    <3>1. sockets[k] \in Connections /\ ~Listening(k)
      BY <1>0, <2>5, InUse DEF Authenticate, Listening
    <3>2. CASE sockets[k].device \in expired
      <4>1. /\ UNCHANGED <<registry, tasks, untold>>
            /\ sockets'[k].server = "ended"
            /\ \A j \in Sockets \ {k} : sockets'[j] = sockets[j]
        BY <1>0, <2>5, <3>1, <3>2, ServerChanges DEF Authenticate
      <4> QED
        BY <1>0, <3>1, <4>1, Bystander
           DEF RegistryInv, UntoldAreDue, Whole, Alive, Listening, TypeOK
    <3>3. CASE sockets[k].device \notin expired
      <4>1. UserOf(k) \in Users /\ UserOf(k)' = UserOf(k)
        BY <1>0, <2>5, <3>1, <3>3, ServerChanges, ConnectionFields DEF Authenticate, UserOf
      <4>2. /\ Listening(k)'
            /\ \A j \in Sockets \ {k} : sockets'[j] = sockets[j]
            /\ registry' = [registry EXCEPT ![UserOf(k)] = @ \cup {k}]
            /\ tasks' = tasks /\ untold' = untold
        BY <1>0, <2>5, <3>1, <3>3, ServerChanges DEF Authenticate, Register, Listening
      <4>3. RegistryIsServed'
        BY <1>0, <4>1, <4>2 DEF RegistryInv, RegistryIsServed, UserOf, Listening, TypeOK
      <4>4. ListenersAreRegistered'
        BY <1>0, <4>1, <4>2 DEF RegistryInv, ListenersAreRegistered, UserOf, Alive, Listening, TypeOK
      <4>5. UntoldAreDue'
        <5>1. \A e \in Events : k \notin untold[e]
          BY <3>1 DEF RegistryInv, UntoldAreDue, Whole
        <5> QED
          BY <1>0, <4>2, <5>1 DEF RegistryInv, UntoldAreDue, Whole, Alive, Listening, UserOf, Sending, TypeOK
      <4> QED
        BY <1>0, <4>3, <4>4, <4>5 DEF RegistryInv
    <3> QED
      BY <3>2, <3>3
  <2>6. CASE Disconnected(k)
    <3>1. sockets[k] \in Connections
      BY <1>0, <2>6, InUse DEF Disconnected, Served
    <3>2. /\ ~Listening(k)'
          /\ ~Whole(k)
          /\ \A j \in Sockets \ {k} : sockets'[j] = sockets[j]
      <4>1. sockets' = [sockets EXCEPT ![k].server = "ended"]
        BY <2>6 DEF Disconnected
      <4>2. ~Whole(k)
        BY <2>6 DEF Disconnected, Whole
      <4>3. sockets'[k].server = "ended" /\ \A j \in Sockets \ {k} : sockets'[j] = sockets[j]
        BY <1>0, <3>1, <4>1, ServerChanges
      <4> QED
        BY <4>2, <4>3 DEF Listening
    <3>3. \A u \in Users : registry'[u] = registry[u] \ {k}
      <4>1. UserOf(k) \in Users
        BY <3>1, ConnectionFields DEF UserOf
      <4>2. \A u \in Users : u # UserOf(k) \/ ~Listening(k) => k \notin registry[u]
        BY DEF RegistryInv, RegistryIsServed
      <4>3. registry' = [registry EXCEPT ![UserOf(k)] = @ \ {k}] \/ (~Listening(k) /\ registry' = registry)
        BY <2>6 DEF Disconnected, Leaves, Unregister, Listening
      <4>4. registry \in [Users -> SUBSET Sockets]
        BY <1>0 DEF TypeOK
      <4>5. CASE registry' = [registry EXCEPT ![UserOf(k)] = @ \ {k}]
        <5> SUFFICES ASSUME NEW u \in Users PROVE registry'[u] = registry[u] \ {k}
          OBVIOUS
        <5>1. CASE u = UserOf(k)
          BY <4>1, <4>4, <4>5, <5>1
        <5>2. CASE u # UserOf(k)
          <6>1. registry'[u] = registry[u] /\ k \notin registry[u]
            BY <4>2, <4>4, <4>5, <5>2
          <6> QED
            BY <6>1
        <5> QED
          BY <5>1, <5>2
      <4>6. CASE ~Listening(k) /\ registry' = registry
        <5> SUFFICES ASSUME NEW u \in Users PROVE registry'[u] = registry[u] \ {k}
          OBVIOUS
        <5>1. k \notin registry[u]
          BY <4>2, <4>6
        <5> QED
          BY <4>6, <5>1
      <4> QED
        BY <4>3, <4>5, <4>6
    <3>4. RegistryIsServed'
      BY <1>0, <3>2, <3>3 DEF RegistryInv, RegistryIsServed, Listening, UserOf, TypeOK
    <3>5. ListenersAreRegistered'
      <4> SUFFICES ASSUME NEW j \in Sockets, Whole(j)' PROVE j \in registry'[UserOf(j)']
        BY DEF ListenersAreRegistered, Whole
      <4>1. j # k /\ Whole(j) /\ UserOf(j)' = UserOf(j)
        BY <3>2 DEF Whole, Alive, Listening, UserOf
      <4>2. j \in registry[UserOf(j)]
        BY <4>1 DEF RegistryInv, ListenersAreRegistered, Whole
      <4>3. sockets[j] \in Connections
        BY <1>0, <4>1, InUse DEF Whole, Alive
      <4>4. UserOf(j) \in Users
        BY <4>3, ConnectionFields DEF UserOf
      <4> QED
        BY <3>3, <4>1, <4>2, <4>4
    <3>6. UntoldAreDue'
      BY <1>0, <2>6, <3>2 DEF Disconnected, Forgets, RegistryInv, UntoldAreDue, Whole, Alive, Listening,
            UserOf, Sending, TypeOK
    <3> QED
      BY <1>0, <3>4, <3>5, <3>6 DEF RegistryInv
  <2> QED
    BY <1>2, <2>1, <2>2, <2>3, <2>4, <2>5, <2>6 DEF Runs
<1>3. ASSUME NEW e \in Events, Sends(e) PROVE RegistryInv'
  <2>1. ASSUME NEW u \in Users, NextUser(e, u) PROVE RegistryInv'
    <3>1. /\ UNCHANGED <<sockets, registry, untold>>
          /\ tasks[e].turn = {} /\ Sending(e)
          /\ \A f \in Events \ {e} : tasks'[f] = tasks[f]
          /\ tasks'[e] = [at |-> "sending", rest |-> tasks[e].rest \ {u}, turn |-> registry[u]]
      BY <1>0, <2>1 DEF NextUser, TypeOK
    <3>2. RegistryIsServed' /\ ListenersAreRegistered'
      BY <3>1 DEF RegistryInv, RegistryIsServed, ListenersAreRegistered, Listening, Alive, UserOf
    <3>3. ASSUME NEW k \in untold[e]
          PROVE  Whole(k) /\ Sending(e)' /\ (k \in tasks'[e].turn \/ UserOf(k) \in tasks'[e].rest)
      <4>1. Whole(k) /\ UserOf(k) \in tasks[e].rest /\ k \in Sockets
        BY <1>0, <3>1 DEF RegistryInv, UntoldAreDue, TypeOK
      <4>2. k \in registry[UserOf(k)]
        BY <4>1 DEF RegistryInv, ListenersAreRegistered, Whole
      <4> QED
        BY <3>1, <4>1, <4>2 DEF Sending
    <3>4. UntoldAreDue'
      BY <3>1, <3>3 DEF RegistryInv, UntoldAreDue, Whole, Alive, Listening, UserOf, Sending
    <3> QED
      BY <1>0, <3>2, <3>4 DEF RegistryInv
  <2>2. CASE Finish(e)
    <3>1. /\ UNCHANGED <<sockets, registry, untold>>
          /\ \A f \in Events \ {e} : tasks'[f] = tasks[f]
      BY <1>0, <2>2 DEF Finish, TypeOK
    <3>2. untold[e] = {}
      BY <2>2 DEF Finish, RegistryInv, UntoldAreDue
    <3> QED
      BY <1>0, <3>1, <3>2 DEF RegistryInv, RegistryIsServed, ListenersAreRegistered, UntoldAreDue,
            Whole, Alive, Listening, UserOf, Sending
  <2>3. ASSUME NEW k \in Sockets, SendSucceeds(e, k) PROVE RegistryInv'
    <3>1. /\ UNCHANGED <<sockets, registry>>
          /\ \A f \in Events \ {e} : tasks'[f] = tasks[f] /\ untold'[f] = untold[f]
          /\ untold'[e] = untold[e] \ {k}
      BY <1>0, <2>3 DEF SendSucceeds, TypeOK
    <3>2. TurnShrinks(e, k)
      BY <1>0, <2>3, SendingFields DEF SendSucceeds, TurnShrinks, TypeOK
    <3> QED
      BY <1>0, <3>1, <3>2 DEF RegistryInv, RegistryIsServed, ListenersAreRegistered, UntoldAreDue,
            Whole, Alive, Listening, UserOf, Sending, TurnShrinks
  <2>4. ASSUME NEW k \in Sockets, SendFails(e, k) PROVE RegistryInv'
    <3>1. /\ UNCHANGED <<sockets, untold>>
          /\ \A f \in Events \ {e} : tasks'[f] = tasks[f]
          /\ ~Whole(k)
      BY <1>0, <2>4 DEF SendFails, AfterFailure, TypeOK, Whole, Listening
    <3>2. TurnShrinks(e, k)
      BY <1>0, <2>4, SendingFields DEF SendFails, AfterFailure, TurnShrinks, TypeOK
    <3>3. registry' = [registry EXCEPT ![UserOf(k)] = @ \ {k}]
      BY <2>4 DEF SendFails, Unregister
    <3>4. RegistryIsServed'
      BY <1>0, <3>1, <3>3 DEF RegistryInv, RegistryIsServed, Listening, UserOf, TypeOK
    <3>5. ListenersAreRegistered'
      BY <1>0, <3>1, <3>3 DEF RegistryInv, ListenersAreRegistered, Whole, Alive, Listening, UserOf, TypeOK
    <3>6. \A f \in Events : k \notin untold[f]
      BY <3>1 DEF RegistryInv, UntoldAreDue
    <3>7. UntoldAreDue'
      BY <3>1, <3>2, <3>6 DEF RegistryInv, UntoldAreDue, Whole, Alive, Listening, UserOf, Sending, TurnShrinks
    <3> QED
      BY <1>0, <3>4, <3>5, <3>7 DEF RegistryInv
  <2> QED
    BY <1>3, <2>1, <2>2, <2>3, <2>4 DEF Sends
<1>4. CASE Happens
  <2>1. ASSUME NEW d \in Devices, CloseApp(d) PROVE RegistryInv'
    <3> DEFINE its == SocketsOf(d)
    <3>1. /\ UNCHANGED <<registry, tasks>>
          /\ \A j \in Sockets \ its : sockets'[j] = sockets[j]
          /\ \A e \in Events : untold'[e] = untold[e] \ its
      BY <2>1 DEF CloseApp, Forgets
    <3>2. ASSUME NEW j \in its
          PROVE  /\ sockets'[j].client = "closed"
                 /\ sockets'[j].server = sockets[j].server
                 /\ sockets'[j].device = sockets[j].device
      <4>1. sockets'[j] = [sockets[j] EXCEPT !.client = "closed"]
        BY <2>1 DEF CloseApp, SocketsOf
      <4>2. sockets[j] \in Connections
        BY <1>0, InUse DEF SocketsOf, Alive
      <4> QED
        BY <4>1, <4>2 DEF Connections
    <3> HIDE DEF its
    <3>3. \A j \in Sockets : Listening(j) => Listening(j)' /\ sockets'[j].device = sockets[j].device
      BY <3>1, <3>2 DEF Listening
    <3>4. \A j \in Sockets : Whole(j)' => Whole(j)
      BY <3>1, <3>2 DEF Whole, Alive, Listening
    <3>5. \A e \in Events : \A j \in untold'[e] : Whole(j)'
      BY <1>0, <3>1 DEF RegistryInv, UntoldAreDue, Whole, Alive, Listening, TypeOK
    <3> QED
      BY <1>0, <3>1, <3>3, <3>4, <3>5, Bystander
  <2>2. ASSUME NEW d \in Devices, Expire(d) PROVE RegistryInv'
    BY <1>0, <2>2, Bystander DEF Expire, RegistryInv, UntoldAreDue, Whole, Alive, Listening, TypeOK
  <2>3. ASSUME NEW k \in Sockets, Cut(k) PROVE RegistryInv'
    <3>1. sockets[k] \in Connections
      BY <1>0, <2>3, InUse DEF Cut, Alive
    <3> QED
      BY <1>0, <2>3, <3>1, LineChanges, Bystander
         DEF Cut, Forgets, RegistryInv, UntoldAreDue, Whole, Alive, Listening, TypeOK
  <2>4. CASE Restart
    <3>1. /\ \A j \in Sockets : sockets'[j].server = "ended"
          /\ \A e \in Events : untold'[e] = {}
          /\ \A u \in Users : registry'[u] = {}
      <4>1. ASSUME NEW j \in Sockets PROVE sockets'[j].server = "ended"
        BY <1>0, <2>4, ConnectionFields DEF Restart, TypeOK
      <4>2. /\ \A e \in Events : untold'[e] = untold[e] \ Sockets
            /\ \A u \in Users : registry'[u] = {}
        BY <2>4 DEF Restart, Forgets
      <4> QED
        BY <1>0, <4>1, <4>2 DEF TypeOK
    <3> QED
      BY <1>0, <3>1 DEF RegistryInv, RegistryIsServed, ListenersAreRegistered, UntoldAreDue, Listening
  <2>5. ASSUME NEW e \in Events, NEW us \in SUBSET Users, Notify(e, us) PROVE RegistryInv'
    <3>1. /\ UNCHANGED <<sockets, registry>>
          /\ \A f \in Events \ {e} : tasks'[f] = tasks[f] /\ untold'[f] = untold[f]
          /\ tasks'[e] = [at |-> "sending", rest |-> us, turn |-> {}]
          /\ untold'[e] = {k \in UNION {registry[u] : u \in us} : Alive(k) /\ ~sockets[k].cut}
      BY <1>0, <2>5 DEF Notify, TypeOK
    <3>2. ASSUME NEW k \in untold'[e] PROVE Whole(k) /\ UserOf(k) \in us
      BY <3>1 DEF RegistryInv, RegistryIsServed, Whole
    <3> QED
      BY <1>0, <3>1, <3>2 DEF RegistryInv, RegistryIsServed, ListenersAreRegistered, UntoldAreDue,
            Whole, Alive, Listening, UserOf, Sending
  <2> QED
    BY <1>4, <2>1, <2>2, <2>3, <2>4, <2>5 DEF Happens
<1>5. CASE UNCHANGED vars
  BY <1>0, <1>5, Bystander DEF vars, RegistryInv, UntoldAreDue, Whole, Alive, Listening, TypeOK
<1> QED
  BY <1>1, <1>2, <1>3, <1>4, <1>5 DEF Next

LEMMA RegistryInvariant == Spec => []RegistryInv
<1>1. Init => RegistryInv
  <2> SUFFICES ASSUME Init PROVE RegistryInv
    OBVIOUS
  <2>1. TypeOK
    BY DEF Init, TypeOK, Notifications
  <2> QED
    BY <2>1 DEF Init, RegistryInv, RegistryIsServed, ListenersAreRegistered, UntoldAreDue, Alive
<1> QED
  BY <1>1, RegistryStep, PTL DEF Spec

\* A socket that its coroutine listens to, and that is whole, is in the registry:
\* no unregister takes another socket of the same user along.
THEOREM ListenersRegistered == Spec => []ListenersAreRegistered
<1>1. RegistryInv => ListenersAreRegistered
  BY DEF RegistryInv
<1> QED
  BY <1>1, RegistryInvariant, PTL

\* Every entry of the registry is a socket with a coroutine that will take it out.
THEOREM RegistryServed == Spec => []RegistryIsServed
<1>1. RegistryInv => RegistryIsServed
  BY DEF RegistryInv
<1> QED
  BY <1>1, RegistryInvariant, PTL

\* A notification that has ended has reached every socket that was registered when
\* it began and has been whole since, though sockets came, broke and went meanwhile.
THEOREM EveryListenerTold == Spec => []EveryListenerIsTold
<1>1. RegistryInv => EveryListenerIsTold
  BY DEF RegistryInv, UntoldAreDue, EveryListenerIsTold, Sending
<1> QED
  BY <1>1, RegistryInvariant, PTL

-----------------------------------------------------------------------------
(* One socket, or one timer, per Mini App.                                  *)

\* Where no timer is set or goes off and no client end opens or closes, nothing
\* changes for the chain.
LEMMA SameChain ==
    ASSUME OneChainPerDevice,
           UNCHANGED <<timers, closed>>,
           \A k \in Sockets : Alive(k)' <=> Alive(k),
           \A k \in Sockets : Alive(k) => sockets'[k].device = sockets[k].device
    PROVE  OneChainPerDevice'
<1>1. ASSUME NEW d PROVE SocketsOf(d)' = SocketsOf(d)
  BY DEF SocketsOf
<1> QED
  BY <1>1 DEF OneChainPerDevice

LEMMA ChainStep == TypeOK /\ OneChainPerDevice /\ [Next]_vars => OneChainPerDevice'
<1> SUFFICES ASSUME TypeOK, OneChainPerDevice, [Next]_vars PROVE OneChainPerDevice'
  OBVIOUS
<1>1. ASSUME NEW d \in Devices, NEW k \in Sockets, Open(d, k) PROVE OneChainPerDevice'
  <2>1. /\ timers[d] = 1
        /\ timers'[d] = 0
        /\ \A c \in Devices \ {d} : timers'[c] = timers[c]
    BY <1>1 DEF Open, OneChainPerDevice, TypeOK
  <2>2. /\ sockets'[k].device = d
        /\ \A j \in Sockets \ {k} : sockets'[j] = sockets[j]
    BY <1>1 DEF Open, TypeOK
  <2>3. /\ SocketsOf(d) = {} /\ SocketsOf(d)' = {k}
        /\ \A c \in Devices \ {d} : SocketsOf(c)' = SocketsOf(c)
    <3>1. SocketsOf(d) = {} /\ ~Alive(k) /\ Alive(k)'
      BY <1>1, <2>1, <2>2 DEF OneChainPerDevice, SocketsOf, Open, Reusable, Alive, TypeOK
    <3> QED
      BY <2>2, <3>1 DEF SocketsOf, Alive
  <2>4. closed' = closed /\ d \notin closed
    BY <1>1, <2>1 DEF OneChainPerDevice, Open
  <2> QED
    BY <2>1, <2>3, <2>4 DEF OneChainPerDevice
<1>2. ASSUME NEW k \in Sockets, Runs(k) PROVE OneChainPerDevice'
  <2>1. CASE Opened(k)
    BY <2>1, InUse, ClientChanges, SameChain DEF Opened, Alive
  <2>2. CASE Breaks(k)
    BY <2>2, InUse, ClientChanges, SameChain DEF Breaks, Failed, Alive
  <2>3. CASE Closes(k)
    <3>1. sockets[k] \in Connections /\ Alive(k)
      BY <2>3, InUse DEF Closes, Alive
    <3>2. PICK d \in Devices : d = sockets[k].device
      BY <3>1, ConnectionFields
    <3>3. /\ sockets'[k].client = "closed"
          /\ \A j \in Sockets \ {k} : sockets'[j] = sockets[j]
      BY <2>3, <3>1, ClientChanges DEF Closes
    <3>4. /\ timers'[d] = timers[d] + 1
          /\ \A c \in Devices \ {d} : timers'[c] = timers[c]
      BY <2>3, <3>2 DEF Closes, TypeOK
    <3>5. timers[d] = 0 /\ SocketsOf(d) = {k}
      BY <3>1, <3>2 DEF OneChainPerDevice, SocketsOf, TypeOK
    <3>6. ~Alive(k)' /\ \A j \in Sockets \ {k} : Alive(j)' <=> Alive(j)
      BY <3>3 DEF Alive
    <3>7. SocketsOf(d)' = {}
      BY <3>3, <3>5, <3>6 DEF SocketsOf
    <3>8. ASSUME NEW c \in Devices \ {d} PROVE SocketsOf(c)' = SocketsOf(c)
      <4>1. k \notin SocketsOf(c) /\ k \notin SocketsOf(c)'
        BY <3>2, <3>6 DEF SocketsOf
      <4> QED
        BY <3>3, <3>6, <4>1 DEF SocketsOf
    <3>9. closed' = closed /\ d \notin closed
      BY <2>3, <3>5 DEF OneChainPerDevice, Closes
    <3> QED
      BY <3>4, <3>5, <3>7, <3>8, <3>9 DEF OneChainPerDevice
  <2>4. CASE Accept(k)
    BY <2>4, InUse, ServerChanges, SameChain DEF Accept, Alive
  <2>5. CASE Authenticate(k)
    BY <2>5, InUse, ServerChanges, SameChain DEF Authenticate, Alive
  <2>6. CASE Disconnected(k)
    BY <2>6, InUse, ServerChanges, SameChain DEF Disconnected, Served, Alive
  <2> QED
    BY <1>2, <2>1, <2>2, <2>3, <2>4, <2>5, <2>6 DEF Runs
<1>3. ASSUME NEW e \in Events, Sends(e) PROVE OneChainPerDevice'
  <2>1. UNCHANGED <<sockets, timers, closed>>
    BY <1>3 DEF Sends, NextUser, Finish, SendSucceeds, SendFails
  <2> QED
    BY <2>1, SameChain DEF Alive
<1>4. CASE Happens
  <2>1. ASSUME NEW d \in Devices, CloseApp(d) PROVE OneChainPerDevice'
    <3>1. /\ timers'[d] = 0
          /\ \A c \in Devices \ {d} : timers'[c] = timers[c]
      BY <2>1 DEF CloseApp, TypeOK
    <3>2. ASSUME NEW j \in Sockets, j \in SocketsOf(d) PROVE ~Alive(j)'
      <4>1. sockets'[j] = [sockets[j] EXCEPT !.client = "closed"]
        BY <2>1, <3>2 DEF CloseApp, SocketsOf
      <4>2. sockets[j] \in Connections
        BY <3>2, InUse DEF SocketsOf, Alive
      <4> QED
        BY <4>1, <4>2 DEF Connections, Alive
    <3>3. ASSUME NEW j \in Sockets, j \notin SocketsOf(d) PROVE sockets'[j] = sockets[j]
      BY <2>1, <3>3 DEF CloseApp
    <3>4. /\ SocketsOf(d)' = {}
          /\ \A c \in Devices \ {d} : SocketsOf(c)' = SocketsOf(c)
      BY <3>2, <3>3 DEF SocketsOf, Alive
    <3>5. closed' = closed \cup {d}
      BY <2>1 DEF CloseApp
    <3> QED
      BY <3>1, <3>4, <3>5 DEF OneChainPerDevice
  <2>2. ASSUME NEW d \in Devices, Expire(d) PROVE OneChainPerDevice'
    BY <2>2, SameChain DEF Expire, Alive
  <2>3. ASSUME NEW k \in Sockets, Cut(k) PROVE OneChainPerDevice'
    BY <2>3, InUse, LineChanges, SameChain DEF Cut, Alive
  <2>4. CASE Restart
    <3>1. UNCHANGED <<timers, closed>>
      BY <2>4 DEF Restart
    <3>2. ASSUME NEW j \in Sockets
          PROVE  /\ Alive(j)' <=> Alive(j)
                 /\ Alive(j) => sockets'[j].device = sockets[j].device
      <4>1. CASE sockets[j] = Unused
        BY <2>4, <4>1 DEF Restart, TypeOK, Alive, Unused
      <4>2. CASE sockets[j] # Unused
        <5>1. sockets[j] \in Connections
          BY <4>2 DEF TypeOK
        <5>2. sockets'[j] = [sockets[j] EXCEPT !.server = "ended", !.cut = TRUE]
          BY <2>4, <4>2 DEF Restart
        <5> QED
          BY <5>1, <5>2 DEF Connections, Alive
      <4> QED
        BY <4>1, <4>2
    <3> QED
      BY <3>1, <3>2, SameChain
  <2>5. ASSUME NEW e \in Events, NEW us \in SUBSET Users, Notify(e, us) PROVE OneChainPerDevice'
    BY <2>5, SameChain DEF Notify, Alive
  <2> QED
    BY <1>4, <2>1, <2>2, <2>3, <2>4, <2>5 DEF Happens
<1>5. CASE UNCHANGED vars
  BY <1>5, SameChain DEF vars, Alive
<1> QED
  BY <1>1, <1>2, <1>3, <1>4, <1>5 DEF Next

\* However a socket ends, its Mini App opens one in its place: as long as it is open
\* it has one socket or one timer, never two and never none.
THEOREM OneChain == Spec => []OneChainPerDevice
<1>1. Init => TypeOK /\ OneChainPerDevice
  BY DEF Init, TypeOK, Notifications, OneChainPerDevice, SocketsOf, Alive
<1>2. TypeOK /\ OneChainPerDevice /\ [Next]_vars => TypeOK' /\ OneChainPerDevice'
  BY TypeStep, ChainStep
<1> QED
  BY <1>1, <1>2, PTL DEF Spec
=============================================================================
