------------------------ MODULE ConnectFlowProofs ------------------------
(***************************************************************************)
(* What TLAPS proves of ConnectFlow, for any number of tasks and clients:  *)
(* type correctness, that no client leaks, that the flow implements Login, *)
(* and that the bot's conversation follows the attempt.  All four follow   *)
(* from one inductive invariant.                                           *)
(***************************************************************************)
EXTENDS ConnectFlow, TLAPS

\* Exactly the task between "acquired" and "released" holds the lock.
LockInv == \A t \in Tasks : calls[t].pc \in Locked <=> holder = t

\* A call has a client just while it sends or signs in; the client it signs in
\* with is the pending one, and nothing is pending where one is to be replaced or
\* was finished.
ClientInv ==
    /\ \A t \in Tasks :
        /\ calls[t].pc = "sent" =>
            calls[t].client \in Clients /\ clients[calls[t].client] \in {"code", "codeThenPassword"}
        /\ calls[t].pc = "signing" => calls[t].client = pending /\ pending \in Clients
        /\ calls[t].pc \notin {"sent", "signing"} => calls[t].client = NoClient
        /\ calls[t].pc \in {"dialing", "sent", "saving"} => pending = NoClient
    /\ pending # NoClient => clients[pending] # "off"

OpInv == \A t \in Tasks : calls[t].pc = "signing" => Submits(t)

Inv == TypeOK /\ LockInv /\ ClientInv /\ OpInv

-----------------------------------------------------------------------------
\* The invariant holds of the initial states.
LEMMA InvInit == Init => Inv
BY ConnectAssumption DEF Init, Inv, TypeOK, LockInv, ClientInv, OpInv, Idle, Calls, Ops, Locked,
    ClientStates, FsmStates, Rows

\* What the end of a call does to the invariant: the lock is free, and the call
\* idle or answering, without a client.
LEMMA Ended ==
  ASSUME Inv, NEW t \in Tasks, NEW status, calls[t].pc \in Locked,
         Returns(t, status) \/ Raises(t),
         status \in {"code_sent", "password_required", "connected", "error", "cancelled"}
  PROVE  /\ holder' = NoTask
         /\ calls' \in [Tasks -> Calls]
         /\ fsm' \in FsmStates
         /\ LockInv'
         /\ OpInv'
         /\ calls'[t].pc \in {"idle", "answering"} /\ calls'[t].client = NoClient
         /\ \A u \in Tasks \ {t} : calls'[u] = calls[u] /\ calls[u].pc \notin Locked
  <1> DEFINE ends == {Idle, [Idle EXCEPT !.pc = "answering"]}
  <1>1. holder' = NoTask
    BY DEF Returns, Raises
  <1>2. PICK e \in ends : calls' = [calls EXCEPT ![t] = e]
    BY DEF Returns, Raises, Goes
  <1>3. e \in Calls /\ e.pc \in {"idle", "answering"} /\ e.client = NoClient
    BY DEF Idle, Calls, Ops
  <1>4. calls \in [Tasks -> Calls] /\ fsm \in FsmStates /\ holder = t
    BY DEF Inv, TypeOK, LockInv
  <1>5. calls' \in [Tasks -> Calls] /\ calls'[t] = e
    BY <1>2, <1>3, <1>4
  <1>6. \A u \in Tasks \ {t} : calls'[u] = calls[u] /\ calls[u].pc \notin Locked
    BY <1>2, <1>4 DEF Inv, LockInv
  <1>7. fsm' \in FsmStates
    BY <1>4 DEF Returns, Raises, FsmAfter, FsmStates
  <1>8. LockInv'
    BY <1>1, <1>3, <1>5, <1>6, ConnectAssumption DEF LockInv, Locked
  <1>9. OpInv'
    BY <1>3, <1>5, <1>6 DEF Inv, OpInv, Submits
  <1> QED
    BY <1>1, <1>3, <1>5, <1>6, <1>7, <1>8, <1>9

\* The lock holder is alone: no other call is between its acquisition and release.
LEMMA Alone ==
  ASSUME Inv, NEW t \in Tasks, calls[t].pc \in Locked
  PROVE  \A u \in Tasks \ {t} : calls[u].pc \notin Locked
BY DEF Inv, LockInv

\* Every step keeps the invariant.
LEMMA InvNext == Inv /\ [Next]_vars => Inv'
  <1> SUFFICES ASSUME Inv, [Next]_vars PROVE Inv'
    OBVIOUS
  <1> USE ConnectAssumption
  <1> USE DEF Inv
  <1>1. ASSUME NEW t \in Tasks, NEW op \in Ops, CallFromApp(t, op) PROVE Inv'
    BY <1>1 DEF CallFromApp, TypeOK, LockInv, ClientInv, OpInv, Submits, Goes, At, Idle, Calls, Ops, Locked
  <1>2. ASSUME NEW t \in Tasks, CallFromBot(t) PROVE Inv'
    BY <1>2 DEF CallFromBot, TypeOK, LockInv, ClientInv, OpInv, Submits, Goes, At, Idle, Calls, Ops, Locked
  <1>3. ASSUME NEW t \in Tasks, Acquire(t) PROVE Inv'
    BY <1>3 DEF Acquire, TypeOK, LockInv, ClientInv, OpInv, Submits, Goes, At, Calls, Locked
  <1>4. ASSUME NEW t \in Tasks, LockedStep(t) PROVE Inv'
    <2>1. CASE CancelPrevious(t)
      BY <2>1 DEF CancelPrevious, CancelLocked, TypeOK, LockInv, ClientInv, OpInv, Submits, Goes, At,
          Calls, Locked, ClientStates
    <2>2. ASSUME NEW c \in Clients, NEW kind \in ClientStates, SendCode(t, c, kind) PROVE Inv'
      <3>1. calls[t].pc \in Locked /\ pending = NoClient
        BY <2>2 DEF SendCode, At, Locked, ClientInv
      <3>2. \A u \in Tasks \ {t} : calls'[u] = calls[u] /\ calls[u].pc \notin Locked
        BY <2>2, <3>1, Alone DEF SendCode, Goes, TypeOK
      <3>3. /\ calls'[t] = [calls[t] EXCEPT !.pc = "sent", !.client = c]
            /\ calls'[t] \in Calls /\ calls'[t].pc = "sent" /\ calls'[t].client = c
        BY <2>2 DEF SendCode, Goes, TypeOK, Calls, Locked
      <3>4. clients'[c] \in {"code", "codeThenPassword"} /\ clients' \in [Clients -> ClientStates]
        BY <2>2 DEF SendCode, TypeOK
      <3>5. UNCHANGED <<holder, pending, row, fsm>> /\ calls' \in [Tasks -> Calls]
        BY <2>2, <3>3 DEF SendCode, Goes, TypeOK
      <3>6. LockInv' /\ OpInv'
        BY <3>1, <3>2, <3>3, <3>5 DEF LockInv, OpInv, Submits, Locked
      <3>7. ClientInv'
        BY <3>1, <3>2, <3>3, <3>4, <3>5 DEF ClientInv, Locked
      <3> QED
        BY <3>4, <3>5, <3>6, <3>7 DEF TypeOK
    <2>3. CASE SendCodeFails(t)
      <3>1. Returns(t, "error") /\ calls[t].pc \in Locked /\ UNCHANGED <<pending, clients, row>>
        BY <2>3 DEF SendCodeFails, At, Locked
      <3> QED
        BY <3>1, Ended DEF TypeOK, ClientInv
    <2>4. CASE KeepPending(t)
      <3>1. /\ Returns(t, "code_sent") /\ calls[t].pc \in Locked
            /\ UNCHANGED clients /\ row' \in Rows /\ pending' = calls[t].client
            /\ calls[t].pc = "sent"
        BY <2>4 DEF KeepPending, At, Locked, TypeOK, Rows
      <3>2. /\ calls'[t].pc \in {"idle", "answering"} /\ calls'[t].client = NoClient
            /\ \A u \in Tasks \ {t} : calls'[u] = calls[u] /\ calls[u].pc \notin Locked
            /\ holder' = NoTask /\ calls' \in [Tasks -> Calls] /\ fsm' \in FsmStates
            /\ LockInv' /\ OpInv'
        BY <3>1, Ended
      <3>3. pending' \in Clients /\ clients'[pending'] # "off"
        BY <3>1 DEF ClientInv
      <3>4. ClientInv'
        BY <3>1, <3>2, <3>3 DEF ClientInv, Locked
      <3> QED
        BY <3>1, <3>2, <3>3, <3>4 DEF TypeOK
    <2>5. CASE KeepPendingFails(t)
      <3>1. Raises(t) /\ calls[t].pc \in Locked /\ UNCHANGED <<pending, clients, row>>
        BY <2>5 DEF KeepPendingFails, At, Locked
      <3> QED
        BY <3>1, Ended DEF TypeOK, ClientInv
    <2>6. CASE FindNothing(t)
      <3>1. Returns(t, "error") /\ calls[t].pc \in Locked /\ UNCHANGED <<pending, clients, row>>
        BY <2>6 DEF FindNothing, At, Locked
      <3> QED
        BY <3>1, Ended DEF TypeOK, ClientInv
    <2>7. CASE FindClient(t)
      <3>1. calls[t].pc \in Locked /\ pending \in Clients /\ Submits(t)
        BY <2>7 DEF FindClient, At, Locked, TypeOK
      <3>2. \A u \in Tasks \ {t} : calls'[u] = calls[u] /\ calls[u].pc \notin Locked
        BY <2>7, <3>1, Alone DEF FindClient, Goes, TypeOK
      <3>3. /\ calls'[t] \in Calls /\ calls'[t].pc = "signing" /\ calls'[t].client = pending
            /\ calls'[t].op = calls[t].op
        BY <2>7, <3>1 DEF FindClient, Goes, TypeOK, Calls, Locked
      <3>4. UNCHANGED <<holder, pending, clients, row, fsm>> /\ calls' \in [Tasks -> Calls]
        BY <2>7, <3>3 DEF FindClient, Goes, TypeOK
      <3>5. LockInv' /\ OpInv'
        BY <3>1, <3>2, <3>3, <3>4 DEF LockInv, OpInv, Submits, Locked
      <3>6. ClientInv'
        BY <3>1, <3>2, <3>3, <3>4 DEF ClientInv, Locked
      <3> QED
        BY <3>4, <3>5, <3>6 DEF TypeOK
    <2>8. CASE SignIn(t)
      <3>1. calls[t].pc = "signing" /\ calls[t].client = pending /\ pending \in Clients
        BY <2>8 DEF SignIn, At, ClientInv
      <3>2. \A u \in Tasks \ {t} : calls'[u] = calls[u] /\ calls[u].pc \notin Locked
        BY <2>8, <3>1, Alone DEF SignIn, Finishing, Goes, TypeOK, Locked
      <3>3. calls'[t] \in Calls /\ calls'[t].pc = "saving" /\ calls'[t].client = NoClient
        BY <2>8 DEF SignIn, Finishing, Goes, TypeOK, Calls, Locked
      <3>4. /\ UNCHANGED <<holder, row, fsm>> /\ calls' \in [Tasks -> Calls]
            /\ pending' = NoClient /\ clients' \in [Clients -> ClientStates]
        BY <2>8, <3>3 DEF SignIn, Finishing, Goes, TypeOK, ClientStates
      <3>5. LockInv' /\ OpInv'
        BY <3>1, <3>2, <3>3, <3>4 DEF LockInv, OpInv, Submits, Locked
      <3>6. ClientInv'
        BY <3>1, <3>2, <3>3, <3>4 DEF ClientInv, Locked
      <3> QED
        BY <3>4, <3>5, <3>6 DEF TypeOK
    <2>9. CASE NeedPassword(t)
      <3>1. /\ Returns(t, "password_required") /\ calls[t].pc \in Locked /\ calls[t].pc = "signing"
            /\ UNCHANGED <<pending, row>>
            /\ clients' = [clients EXCEPT ![calls[t].client] = "password"]
        BY <2>9 DEF NeedPassword, At, Locked
      <3>2. /\ calls'[t].pc \in {"idle", "answering"} /\ calls'[t].client = NoClient
            /\ \A u \in Tasks \ {t} : calls'[u] = calls[u] /\ calls[u].pc \notin Locked
            /\ holder' = NoTask /\ calls' \in [Tasks -> Calls] /\ fsm' \in FsmStates
            /\ LockInv' /\ OpInv'
        BY <3>1, Ended
      <3>3. pending \in Clients /\ calls[t].client = pending /\ clients \in [Clients -> ClientStates]
        BY <3>1 DEF ClientInv, TypeOK
      <3>4. clients' \in [Clients -> ClientStates] /\ clients'[pending'] # "off"
        BY <3>1, <3>3 DEF ClientStates
      <3>5. ClientInv'
        BY <3>1, <3>2, <3>4 DEF ClientInv, Locked
      <3> QED
        BY <3>1, <3>2, <3>4, <3>5 DEF TypeOK
    <2>10. CASE SignInFails(t)
      <3>1. Returns(t, "error") /\ calls[t].pc \in Locked /\ CancelLocked /\ UNCHANGED row
        BY <2>10 DEF SignInFails, At, Locked
      <3> QED
        BY <3>1, Ended DEF TypeOK, ClientInv, CancelLocked, ClientStates, Locked
    <2>11. CASE SaveSession(t)
      <3>1. /\ Returns(t, "connected") /\ calls[t].pc \in Locked
            /\ UNCHANGED <<pending, clients>> /\ row' \in Rows
        BY <2>11 DEF SaveSession, At, Locked, Rows
      <3> QED
        BY <3>1, Ended DEF TypeOK, ClientInv
    <2>12. CASE SaveSessionFails(t)
      <3>1. Raises(t) /\ calls[t].pc \in Locked /\ UNCHANGED <<pending, clients, row>>
        BY <2>12 DEF SaveSessionFails, At, Locked
      <3> QED
        BY <3>1, Ended DEF TypeOK, ClientInv
    <2>13. CASE Cancel(t)
      <3>1. Returns(t, "cancelled") /\ calls[t].pc \in Locked /\ CancelLocked /\ UNCHANGED row
        BY <2>13 DEF Cancel, At, Locked
      <3> QED
        BY <3>1, Ended DEF TypeOK, ClientInv, CancelLocked, ClientStates, Locked
    <2> QED
      BY <1>4, <2>1, <2>2, <2>3, <2>4, <2>5, <2>6, <2>7, <2>8, <2>9, <2>10, <2>11, <2>12, <2>13
          DEF LockedStep
  <1>5. ASSUME NEW t \in Tasks, OtherCommand(t) PROVE Inv'
    BY <1>5 DEF OtherCommand, TypeOK, LockInv, ClientInv, OpInv, Submits, Goes, At, Idle, Calls, Ops, Locked
  <1>6. ASSUME NEW t \in Tasks, LastStep(t) PROVE Inv'
    BY <1>6 DEF LastStep, ClearAfterAnswer, AnswerFails, OtherState, TypeOK, LockInv, ClientInv, OpInv,
        Submits, Goes, At, Idle, Calls, Ops, Locked, FsmStates
  <1>7. CASE ConnectCommand
    BY <1>7 DEF ConnectCommand, TypeOK, LockInv, ClientInv, OpInv, Submits, FsmStates
  <1>8. CASE OtherEnds
    BY <1>8 DEF OtherEnds, TypeOK, LockInv, ClientInv, OpInv, Submits, FsmStates
  <1>9. CASE OpenApp
    BY <1>9 DEF OpenApp, TypeOK, LockInv, ClientInv, OpInv, Submits, Rows
  <1>10. CASE Offboard
    BY <1>10 DEF Offboard, TypeOK, LockInv, ClientInv, OpInv, Submits, Rows
  <1>11. CASE Restart
    BY <1>11 DEF Restart, TypeOK, LockInv, ClientInv, OpInv, Submits, Idle, Calls, Ops, Locked,
        ClientStates, FsmStates
  <1>12. CASE UNCHANGED vars
    BY <1>12 DEF vars, TypeOK, LockInv, ClientInv, OpInv, Submits
  <1> QED
    BY <1>1, <1>2, <1>3, <1>4, <1>5, <1>6, <1>7, <1>8, <1>9, <1>10, <1>11, <1>12 DEF Next

\* The invariant holds in every reachable state.
LEMMA InvAlways == Spec => []Inv
BY InvInit, InvNext, PTL DEF Spec

\* Type correctness of the phone login.
THEOREM TypeCorrect == Spec => []TypeOK
  <1>1. Inv => TypeOK
    BY DEF Inv
  <1> QED
    BY <1>1, InvAlways, PTL

-----------------------------------------------------------------------------
(* No client leaks.                                                         *)

\* One step loses track of no open client, or the user row could not be written.
KeepsTrack ==
    \A c \in Clients :
        (clients[c] = "off" \/ Kept(c)) /\ clients'[c] # "off" /\ ~Kept(c)' =>
            \E t \in Tasks : KeepPendingFails(t)

\* Outside the lock nobody touches a client.
LEMMA OutsideKeepsTrack ==
  ASSUME UNCHANGED <<pending, clients>>,
         \A u \in Tasks : calls[u].client # NoClient /\ calls[u].pc \in Locked =>
            calls'[u].client = calls[u].client /\ calls'[u].pc \in Locked
  PROVE  KeepsTrack
BY ConnectAssumption DEF KeepsTrack, Kept

\* At the end of a call its client is pending or off.
LEMMA EndKeepsTrack ==
  ASSUME Inv, NEW t \in Tasks, NEW status, calls[t].pc \in Locked, Returns(t, status),
         status \in {"code_sent", "password_required", "connected", "error", "cancelled"},
         \A c \in Clients : clients'[c] = "off" \/ pending' = c
                            \/ (clients[c] # "off" /\ pending # c /\ calls[t].client # c)
  PROVE  KeepsTrack
  <1> SUFFICES ASSUME NEW c \in Clients, clients[c] = "off" \/ Kept(c), clients'[c] # "off", ~Kept(c)'
               PROVE  FALSE
    BY DEF KeepsTrack
  <1>1. pending' # c
    BY DEF Kept
  <1>2. clients[c] # "off" /\ pending # c /\ calls[t].client # c
    BY <1>1
  <1>3. PICK u \in Tasks : calls[u].client = c /\ calls[u].pc \in Locked
    BY <1>2 DEF Kept
  <1> QED
    BY <1>2, <1>3, Alone

\* Every step keeps track of the open clients.
LEMMA StepKeepsTrack == Inv /\ [Next]_vars => KeepsTrack
  <1> SUFFICES ASSUME Inv, [Next]_vars PROVE KeepsTrack
    OBVIOUS
  <1> USE ConnectAssumption
  <1>1. ASSUME NEW t \in Tasks, NEW op \in Ops, CallFromApp(t, op) PROVE KeepsTrack
    BY <1>1, OutsideKeepsTrack DEF CallFromApp, Goes, At, Inv, TypeOK, ClientInv, Locked
  <1>2. ASSUME NEW t \in Tasks, CallFromBot(t) PROVE KeepsTrack
    BY <1>2, OutsideKeepsTrack DEF CallFromBot, Goes, At, Inv, TypeOK, ClientInv, Locked
  <1>3. ASSUME NEW t \in Tasks, Acquire(t) PROVE KeepsTrack
    BY <1>3, OutsideKeepsTrack DEF Acquire, Goes, At, Inv, TypeOK, ClientInv, Locked
  <1>4. ASSUME NEW t \in Tasks, LockedStep(t) PROVE KeepsTrack
    <2>1. CASE CancelPrevious(t)
      BY <2>1, Alone DEF CancelPrevious, CancelLocked, Goes, At, KeepsTrack, Kept, Inv, TypeOK, ClientInv, Locked
    <2>2. ASSUME NEW c \in Clients, NEW kind \in ClientStates, SendCode(t, c, kind) PROVE KeepsTrack
      <3>1. /\ calls'[t].client = c /\ calls'[t].pc \in Locked /\ calls[t].client = NoClient
            /\ UNCHANGED pending
            /\ \A d \in Clients \ {c} : clients'[d] = clients[d]
        BY <2>2 DEF SendCode, Goes, At, Inv, TypeOK, ClientInv, Calls, Locked
      <3>2. \A u \in Tasks \ {t} : calls'[u] = calls[u]
        BY <2>2 DEF SendCode, Goes, Inv, TypeOK
      <3> QED
        BY <3>1, <3>2 DEF KeepsTrack, Kept
    <2>3. CASE SendCodeFails(t)
      <3>1. calls[t].client = NoClient /\ calls[t].pc \in Locked /\ UNCHANGED <<pending, clients>>
        BY <2>3 DEF SendCodeFails, At, Inv, ClientInv, Locked
      <3> QED
        BY <2>3, <3>1, EndKeepsTrack DEF SendCodeFails
    <2>4. CASE KeepPending(t)
      <3>1. calls[t].pc \in Locked /\ pending' = calls[t].client /\ pending = NoClient /\ UNCHANGED clients
        BY <2>4 DEF KeepPending, At, Inv, ClientInv, Locked
      <3> QED
        BY <2>4, <3>1, EndKeepsTrack DEF KeepPending
    <2>5. CASE KeepPendingFails(t)
      BY <2>5 DEF KeepsTrack
    <2>6. CASE FindNothing(t)
      <3>1. /\ calls[t].client = NoClient /\ pending = NoClient /\ calls[t].pc \in Locked
            /\ UNCHANGED <<pending, clients>>
        BY <2>6 DEF FindNothing, At, Inv, ClientInv, Locked
      <3> QED
        BY <2>6, <3>1, EndKeepsTrack DEF FindNothing
    <2>7. CASE FindClient(t)
      BY <2>7, OutsideKeepsTrack DEF FindClient, Goes, At, Inv, TypeOK, ClientInv, Locked
    <2>8. CASE SignIn(t)
      <3>1. calls[t].client = pending /\ pending \in Clients /\ calls[t].pc \in Locked
        BY <2>8 DEF SignIn, At, Inv, ClientInv, Locked
      <3>2. \A c \in Clients : c # pending => clients'[c] = clients[c]
        BY <2>8, <3>1 DEF SignIn, Finishing, Inv, TypeOK
      <3>3. clients'[pending] = "off"
        BY <2>8, <3>1 DEF SignIn, Finishing, Inv, TypeOK
      <3> QED
        BY <3>1, <3>2, <3>3, Alone DEF KeepsTrack, Kept
    <2>9. CASE NeedPassword(t)
      <3>1. calls[t].client = pending /\ pending \in Clients /\ calls[t].pc \in Locked
        BY <2>9 DEF NeedPassword, At, Inv, ClientInv, Locked
      <3>2. \A c \in Clients : c # pending => clients'[c] = clients[c]
        BY <2>9, <3>1 DEF NeedPassword, Inv, TypeOK
      <3> QED
        BY <2>9, <3>1, <3>2, EndKeepsTrack DEF NeedPassword
    <2>10. CASE SignInFails(t)
      <3>1. calls[t].client = pending /\ pending \in Clients /\ calls[t].pc \in Locked
        BY <2>10 DEF SignInFails, At, Inv, ClientInv, Locked
      <3> QED
        BY <2>10, <3>1, EndKeepsTrack DEF SignInFails, CancelLocked
    <2>11. CASE SaveSession(t)
      <3>1. /\ calls[t].client = NoClient /\ pending = NoClient /\ calls[t].pc \in Locked
            /\ UNCHANGED <<pending, clients>>
        BY <2>11 DEF SaveSession, At, Inv, ClientInv, Locked
      <3> QED
        BY <2>11, <3>1, EndKeepsTrack DEF SaveSession
    <2>12. CASE SaveSessionFails(t)
      <3>1. calls[t].client = NoClient /\ UNCHANGED <<pending, clients>>
        BY <2>12 DEF SaveSessionFails, At, Inv, ClientInv
      <3> QED
        BY <2>12, <3>1, OutsideKeepsTrack DEF SaveSessionFails, Raises, Goes, Inv, TypeOK
    <2>13. CASE Cancel(t)
      <3>1. calls[t].client = NoClient /\ calls[t].pc \in Locked
        BY <2>13 DEF Cancel, At, Inv, ClientInv, Locked
      <3> QED
        BY <2>13, <3>1, EndKeepsTrack DEF Cancel, CancelLocked
    <2> QED
      BY <1>4, <2>1, <2>2, <2>3, <2>4, <2>5, <2>6, <2>7, <2>8, <2>9, <2>10, <2>11, <2>12, <2>13
          DEF LockedStep
  <1>5. ASSUME NEW t \in Tasks, OtherCommand(t) PROVE KeepsTrack
    BY <1>5, OutsideKeepsTrack DEF OtherCommand, Goes, At, Inv, TypeOK, ClientInv, Locked
  <1>6. ASSUME NEW t \in Tasks, LastStep(t) PROVE KeepsTrack
    BY <1>6, OutsideKeepsTrack DEF LastStep, ClearAfterAnswer, AnswerFails, OtherState, Goes, At,
        Inv, TypeOK, ClientInv, Locked
  <1>7. CASE ConnectCommand \/ OtherEnds \/ OpenApp \/ Offboard \/ UNCHANGED vars
    BY <1>7, OutsideKeepsTrack DEF ConnectCommand, OtherEnds, OpenApp, Offboard, vars
  <1>8. CASE Restart
    BY <1>8 DEF Restart, KeepsTrack
  <1> QED
    BY <1>1, <1>2, <1>3, <1>4, <1>5, <1>6, <1>7, <1>8 DEF Next

\* No open connection to Telegram is lost track of, except when the user row cannot
\* be written after the code was sent.
THEOREM ClientsKept == Spec => NoClientLeaks
  <1>1. Inv /\ [Next]_vars => KeepsTrack
    BY StepKeepsTrack
  <1>2. KeepsTrack <=> (\A c \in Clients :
            (clients[c] = "off" \/ Kept(c)) /\ clients'[c] # "off" /\ ~Kept(c)' =>
                \E t \in Tasks : KeepPendingFails(t))
    BY DEF KeepsTrack
  <1> QED
    BY <1>1, <1>2, InvAlways, PTL DEF Spec, NoClientLeaks

-----------------------------------------------------------------------------
(* The flow implements Login.                                               *)

\* While somebody holds the lock, his place and the pending client tell the stage.
LEMMA StageOfHolder ==
  ASSUME Inv, NEW t \in Tasks, calls[t].pc \in Locked
  PROVE  /\ calls[t].pc = "saving" => Stage = "passed"
         /\ calls[t].pc # "saving" => Stage = IF pending = NoClient THEN "none" ELSE clients[pending]
  <1>1. CASE calls[t].pc = "saving"
    BY <1>1 DEF Stage
  <1>2. CASE calls[t].pc # "saving"
    <2>1. \A u \in Tasks : calls[u].pc # "saving"
      BY <1>2, Alone DEF Locked
    <2> QED
      BY <1>2, <2>1 DEF Stage
  <1> QED
    BY <1>1, <1>2

\* When a step leaves the lock free, the pending client alone tells the stage.
LEMMA EndStage ==
  ASSUME Inv', holder' = NoTask
  PROVE  Stage' = IF pending' = NoClient THEN "none" ELSE clients'[pending']
BY ConnectAssumption DEF Stage, Inv, LockInv, Locked

\* A step that leaves the clients alone, and nobody in or out of "saving", leaves the
\* stage.
LEMMA SameStage ==
  ASSUME UNCHANGED <<pending, clients>>,
         \A u \in Tasks : calls'[u].pc = "saving" <=> calls[u].pc = "saving"
  PROVE  UNCHANGED Stage
BY DEF Stage

\* Every step is a step of Login, or none.
LEMMA StepKeepsPromise == Inv /\ Inv' /\ [Next]_vars => [Promise!Next]_(Promise!vars)
  <1> SUFFICES ASSUME Inv, Inv', [Next]_vars PROVE Promise!Next \/ UNCHANGED Promise!vars
    OBVIOUS
  <1> USE ConnectAssumption
  <1>1. ASSUME NEW t \in Tasks, NEW op \in Ops, CallFromApp(t, op) PROVE UNCHANGED Promise!vars
    BY <1>1, SameStage DEF CallFromApp, Goes, At, Inv, TypeOK, Promise!vars
  <1>2. ASSUME NEW t \in Tasks, CallFromBot(t) PROVE UNCHANGED Promise!vars
    BY <1>2, SameStage DEF CallFromBot, Goes, At, Inv, TypeOK, Promise!vars
  <1>3. ASSUME NEW t \in Tasks, Acquire(t) PROVE UNCHANGED Promise!vars
    BY <1>3, SameStage DEF Acquire, Goes, At, Inv, TypeOK, Promise!vars
  <1>4. ASSUME NEW t \in Tasks, LockedStep(t) PROVE Promise!Next \/ UNCHANGED Promise!vars
    <2>1. CASE CancelPrevious(t)
      <3>1. calls[t].pc = "entered" /\ calls'[t].pc = "dialing" /\ pending' = NoClient /\ UNCHANGED row
        BY <2>1 DEF CancelPrevious, CancelLocked, At, Goes, Inv, TypeOK
      <3>2. Stage' = "none"
        <4>1. \A u \in Tasks : calls'[u].pc # "saving"
          BY <2>1, <3>1, Alone DEF CancelPrevious, Goes, Inv, TypeOK, Locked
        <4> QED
          BY <3>1, <4>1 DEF Stage
      <3> QED
        BY <3>1, <3>2 DEF Promise!Next, Promise!GiveUp, Promise!vars
    <2>2. ASSUME NEW c \in Clients, NEW kind \in ClientStates, SendCode(t, c, kind)
          PROVE  UNCHANGED Promise!vars
      <3>1. /\ calls[t].pc = "dialing" /\ calls'[t].pc = "sent" /\ pending = NoClient
            /\ UNCHANGED <<pending, row>>
        BY <2>2 DEF SendCode, At, Goes, Inv, TypeOK, ClientInv
      <3>2. \A u \in Tasks : calls[u].pc # "saving" /\ calls'[u].pc # "saving"
        BY <2>2, <3>1, Alone DEF SendCode, Goes, Inv, TypeOK, Locked
      <3> QED
        BY <3>1, <3>2 DEF Stage, Promise!vars
    <2>3. CASE SendCodeFails(t)
      <3>1. holder' = NoTask /\ calls[t].pc = "dialing" /\ UNCHANGED <<pending, clients, row>>
        BY <2>3 DEF SendCodeFails, Returns, At
      <3> QED
        BY <3>1, StageOfHolder, EndStage DEF Locked, Promise!vars
    <2>4. CASE KeepPending(t)
      <3>1. /\ holder' = NoTask /\ calls[t].pc = "sent" /\ pending' = calls[t].client
            /\ pending = NoClient /\ UNCHANGED clients
            /\ pending' \in Clients /\ clients[pending'] \in {"code", "codeThenPassword"}
        BY <2>4 DEF KeepPending, Returns, At, Inv, ClientInv
      <3>2. Stage = "none"
        BY <3>1, StageOfHolder DEF Locked
      <3>3. Stage' \in {"code", "codeThenPassword"}
        BY <3>1, EndStage
      <3> QED
        BY <2>4, <3>2, <3>3 DEF KeepPending, Promise!Next, Promise!Request
    <2>5. CASE KeepPendingFails(t)
      <3>1. holder' = NoTask /\ calls[t].pc = "sent" /\ UNCHANGED <<pending, clients, row>>
        BY <2>5 DEF KeepPendingFails, Raises, At
      <3> QED
        BY <3>1, StageOfHolder, EndStage DEF Locked, Promise!vars
    <2>6. CASE FindNothing(t)
      <3>1. holder' = NoTask /\ calls[t].pc = "entered" /\ UNCHANGED <<pending, clients, row>>
        BY <2>6 DEF FindNothing, Returns, At
      <3> QED
        BY <3>1, StageOfHolder, EndStage DEF Locked, Promise!vars
    <2>7. CASE FindClient(t)
      BY <2>7, SameStage DEF FindClient, Goes, At, Inv, TypeOK, Promise!vars
    <2>8. CASE SignIn(t)
      <3>1. /\ calls[t].pc = "signing" /\ calls'[t].pc = "saving" /\ UNCHANGED row
            /\ pending \in Clients /\ clients[pending] \in {"code", "password"}
        BY <2>8 DEF SignIn, Finishing, Goes, At, Inv, TypeOK, ClientInv, OpInv, Submits
      <3>2. Stage \in {"code", "password"}
        BY <3>1, StageOfHolder DEF Locked
      <3>3. Stage' = "passed"
        BY <3>1 DEF Stage
      <3> QED
        BY <3>1, <3>2, <3>3 DEF Promise!Next, Promise!Pass
    <2>9. CASE NeedPassword(t)
      <3>1. /\ calls[t].pc = "signing" /\ holder' = NoTask /\ UNCHANGED <<pending, row>>
            /\ pending \in Clients /\ calls[t].client = pending
            /\ clients[pending] \in {"codeThenPassword", "password"} /\ clients'[pending] = "password"
        BY <2>9 DEF NeedPassword, Returns, At, Inv, TypeOK, ClientInv
      <3>2. Stage = clients[pending]
        BY <3>1, StageOfHolder DEF Locked
      <3>3. Stage' = "password"
        BY <3>1, EndStage
      <3> QED
        BY <3>1, <3>2, <3>3 DEF Promise!Next, Promise!NeedPassword, Promise!vars
    <2>10. CASE SignInFails(t)
      <3>1. holder' = NoTask /\ pending' = NoClient /\ UNCHANGED row
        BY <2>10 DEF SignInFails, CancelLocked, Returns
      <3> QED
        BY <3>1, EndStage DEF Promise!Next, Promise!GiveUp, Promise!vars
    <2>11. CASE SaveSession(t)
      <3>1. /\ holder' = NoTask /\ calls[t].pc = "saving" /\ pending' = NoClient
            /\ row' = IF row = "absent" THEN "absent" ELSE "connected"
        BY <2>11 DEF SaveSession, Returns, At, Inv, ClientInv
      <3>2. Stage = "passed" /\ Stage' = "none"
        BY <3>1, StageOfHolder, EndStage DEF Locked
      <3> QED
        BY <3>1, <3>2 DEF Promise!Next, Promise!Store
    <2>12. CASE SaveSessionFails(t)
      <3>1. holder' = NoTask /\ calls[t].pc = "saving" /\ pending' = NoClient /\ UNCHANGED row
        BY <2>12 DEF SaveSessionFails, Raises, At, Inv, ClientInv
      <3>2. Stage = "passed" /\ Stage' = "none"
        BY <3>1, StageOfHolder, EndStage DEF Locked
      <3> QED
        BY <3>1, <3>2 DEF Promise!Next, Promise!GiveUp
    <2>13. CASE Cancel(t)
      <3>1. holder' = NoTask /\ pending' = NoClient /\ UNCHANGED row
        BY <2>13 DEF Cancel, CancelLocked, Returns
      <3> QED
        BY <3>1, EndStage DEF Promise!Next, Promise!GiveUp, Promise!vars
    <2> QED
      BY <1>4, <2>1, <2>2, <2>3, <2>4, <2>5, <2>6, <2>7, <2>8, <2>9, <2>10, <2>11, <2>12, <2>13
          DEF LockedStep
  <1>5. ASSUME NEW t \in Tasks, OtherCommand(t) PROVE UNCHANGED Promise!vars
    BY <1>5, SameStage DEF OtherCommand, Goes, At, Inv, TypeOK, Promise!vars
  <1>6. ASSUME NEW t \in Tasks, LastStep(t) PROVE UNCHANGED Promise!vars
    BY <1>6, SameStage DEF LastStep, ClearAfterAnswer, AnswerFails, OtherState, Goes, At, Idle,
        Inv, TypeOK, Promise!vars
  <1>7. CASE ConnectCommand \/ OtherEnds \/ UNCHANGED vars
    BY <1>7, SameStage DEF ConnectCommand, OtherEnds, vars, Promise!vars
  <1>8. CASE OpenApp
    BY <1>8, SameStage DEF OpenApp, Promise!Next, Promise!Appear
  <1>9. CASE Offboard
    BY <1>9, SameStage DEF Offboard, Promise!Next, Promise!Dismiss
  <1>10. CASE Restart
    <2>1. Stage' = "none" /\ UNCHANGED row
      BY <1>10 DEF Restart, Stage, Idle
    <2> QED
      BY <2>1 DEF Promise!Next, Promise!GiveUp, Promise!vars
  <1> QED
    BY <1>1, <1>2, <1>3, <1>4, <1>5, <1>6, <1>7, <1>8, <1>9, <1>10 DEF Next

\* The flow of calls, lock and clients implements Login: one attempt at a time, the
\* steps in order, and a session stored only by an attempt that passed them all.
THEOREM ImplementsLogin == Spec => KeepsPromise
  <1>1. Init => Promise!Init
    BY DEF Init, Promise!Init, Promise!Accounts, Stage, Idle, Rows
  <1>2. Inv /\ Inv' /\ [Next]_vars => [Promise!Next]_(Promise!vars)
    BY StepKeepsPromise
  <1> QED
    BY <1>1, <1>2, InvAlways, PTL DEF Spec, KeepsPromise, Promise!Spec

-----------------------------------------------------------------------------
(* The bot's conversation follows the attempt, when the bot is the only     *)
(* surface and nothing fails.                                               *)

\* All calls come from the bot, which cancels nothing.
BotOnly ==
    \A t \in Tasks :
        calls[t].pc \in {"arrived"} \cup Locked => calls[t].via = "bot" /\ calls[t].op # "cancel"

BotInv == BotOnly /\ BotStateFollowsLogin

\* At the end of a call the state of the conversation is the one the result leads
\* to, unless the error is still to be told.
LEMMA EndedByBot ==
  ASSUME Inv, BotInv, NEW t \in Tasks, NEW status, calls[t].pc \in Locked, Returns(t, status)
  PROVE  /\ BotOnly'
         /\ \/ calls'[t].pc = "answering"
            \/ fsm' = FsmAfter(status)
  <1> DEFINE late == calls[t].op = "phone" /\ status = "error"
  <1>1. calls[t].via = "bot"
    BY DEF BotInv, BotOnly
  <1>2. calls' = [calls EXCEPT ![t] = IF late THEN [Idle EXCEPT !.pc = "answering"] ELSE Idle]
    BY <1>1 DEF Returns, Goes
  <1>3. calls'[t] = IF late THEN [Idle EXCEPT !.pc = "answering"] ELSE Idle
    BY <1>2 DEF Inv, TypeOK
  <1>4. \A u \in Tasks \ {t} : calls'[u] = calls[u]
    BY <1>2 DEF Inv, TypeOK
  <1>5. calls'[t].pc \in {"idle", "answering"}
    BY <1>3 DEF Idle
  <1>6. BotOnly'
    BY <1>4, <1>5 DEF BotInv, BotOnly, Locked
  <1>7. CASE late
    BY <1>3, <1>6, <1>7 DEF Idle
  <1>8. CASE ~late
    BY <1>1, <1>6, <1>8 DEF Returns
  <1> QED
    BY <1>7, <1>8

\* The invariant is kept by every step.
LEMMA BotStep ==
  ASSUME Surfaces = {"bot"}, ~Failures, Inv, Inv', BotInv, [Next]_vars
  PROVE  BotInv'
  <1> USE ConnectAssumption
  <1>1. ASSUME NEW t \in Tasks, NEW op \in Ops, CallFromApp(t, op) PROVE BotInv'
    BY <1>1 DEF CallFromApp
  <1>2. ASSUME NEW t \in Tasks, CallFromBot(t) PROVE BotInv'
    <2>1. BotOnly'
      BY <1>2 DEF CallFromBot, Goes, Idle, Inv, TypeOK, BotInv, BotOnly, FsmStates
    <2>2. UNCHANGED <<holder, fsm, Stage>> /\ (\A u \in Tasks : ~At(u, "answering")' => ~At(u, "answering"))
      BY <1>2, SameStage DEF CallFromBot, Goes, At, Inv, TypeOK, Idle
    <2> QED
      BY <2>1, <2>2 DEF BotInv, BotStateFollowsLogin
  <1>3. ASSUME NEW t \in Tasks, Acquire(t) PROVE BotInv'
    <2>1. BotOnly'
      BY <1>3 DEF Acquire, At, Goes, Inv, TypeOK, BotInv, BotOnly
    <2> QED
      BY <1>3, <2>1 DEF Acquire, BotInv, BotStateFollowsLogin
  <1>4. ASSUME NEW t \in Tasks, LockedStep(t) PROVE BotInv'
    <2>1. ASSUME holder' = t, UNCHANGED fsm, NEW pc \in Locked, NEW client,
                 Goes(t, [calls[t] EXCEPT !.pc = pc, !.client = client]), calls[t].pc \in Locked
          PROVE  BotInv'
      <3>1. BotOnly'
        BY <2>1 DEF Goes, Inv, TypeOK, Calls, BotInv, BotOnly
      <3> QED
        BY <2>1, <3>1 DEF BotInv, BotStateFollowsLogin
    <2>2. ASSUME NEW status, Returns(t, status), calls[t].pc \in Locked,
                 FsmAfter(status) = "code" => Stage' \in {"code", "codeThenPassword"},
                 FsmAfter(status) = "password" => Stage' = "password"
          PROVE  BotInv'
      <3>1. BotOnly' /\ (calls'[t].pc = "answering" \/ fsm' = FsmAfter(status))
        BY <2>2, EndedByBot
      <3> QED
        BY <2>2, <3>1 DEF BotInv, BotStateFollowsLogin, At
    <2>3. calls[t].pc \in Locked => holder = t /\ t # NoTask /\ calls[t] \in Calls
      BY DEF Inv, LockInv, TypeOK
    <2>4. CASE CancelPrevious(t)
      <3>1. [calls[t] EXCEPT !.pc = "dialing"] = [calls[t] EXCEPT !.pc = "dialing", !.client = calls[t].client]
        BY DEF Inv, TypeOK, Calls
      <3> QED
        BY <2>1, <2>3, <2>4, <3>1 DEF CancelPrevious, At, Locked
    <2>5. ASSUME NEW c \in Clients, NEW kind \in ClientStates, SendCode(t, c, kind) PROVE BotInv'
      BY <2>1, <2>3, <2>5 DEF SendCode, At, Locked
    <2>6. CASE SendCodeFails(t)
      BY <2>2, <2>6 DEF SendCodeFails, At, Locked, FsmAfter
    <2>7. CASE KeepPending(t)
      <3>1. /\ holder' = NoTask /\ pending' = calls[t].client /\ UNCHANGED clients
            /\ pending' \in Clients /\ clients[pending'] \in {"code", "codeThenPassword"}
        BY <2>7 DEF KeepPending, Returns, At, Inv, ClientInv
      <3>2. Stage' \in {"code", "codeThenPassword"}
        BY <3>1, EndStage
      <3> QED
        BY <2>2, <2>7, <3>2 DEF KeepPending, At, Locked, FsmAfter
    <2>8. CASE KeepPendingFails(t)
      BY <2>8 DEF KeepPendingFails, Raises
    <2>9. CASE FindNothing(t)
      BY <2>2, <2>9 DEF FindNothing, At, Locked, FsmAfter
    <2>10. CASE FindClient(t)
      BY <2>1, <2>3, <2>10 DEF FindClient, At, Locked
    <2>11. CASE SignIn(t)
      BY <2>1, <2>3, <2>11 DEF SignIn, Finishing, At, Locked
    <2>12. CASE NeedPassword(t)
      <3>1. /\ holder' = NoTask /\ pending' \in Clients /\ clients'[pending'] = "password"
        BY <2>12 DEF NeedPassword, Returns, At, Inv, TypeOK, ClientInv
      <3>2. Stage' = "password"
        BY <3>1, EndStage
      <3> QED
        BY <2>2, <2>12, <3>2 DEF NeedPassword, At, Locked, FsmAfter
    <2>13. CASE SignInFails(t)
      BY <2>2, <2>13 DEF SignInFails, At, Locked, FsmAfter
    <2>14. CASE SaveSession(t)
      BY <2>2, <2>14 DEF SaveSession, At, Locked, FsmAfter
    <2>15. CASE SaveSessionFails(t)
      BY <2>15 DEF SaveSessionFails, Raises
    <2>16. CASE Cancel(t)
      BY <2>16 DEF Cancel, At, BotInv, BotOnly, Locked
    <2> QED
      BY <1>4, <2>4, <2>5, <2>6, <2>7, <2>8, <2>9, <2>10, <2>11, <2>12, <2>13, <2>14, <2>15, <2>16
          DEF LockedStep
  <1>5. ASSUME NEW t \in Tasks, OtherCommand(t) PROVE BotInv'
    <2>1. BotOnly'
      BY <1>5 DEF OtherCommand, Goes, Idle, Inv, TypeOK, BotInv, BotOnly, Locked
    <2>2. UNCHANGED <<holder, fsm, Stage>> /\ (\A u \in Tasks : ~At(u, "answering")' => ~At(u, "answering"))
      BY <1>5, SameStage DEF OtherCommand, Goes, At, Inv, TypeOK, Idle
    <2> QED
      BY <2>1, <2>2 DEF BotInv, BotStateFollowsLogin
  <1>6. ASSUME NEW t \in Tasks, LastStep(t) PROVE BotInv'
    <2>1. BotOnly'
      BY <1>6 DEF LastStep, ClearAfterAnswer, AnswerFails, OtherState, Goes, Idle, Inv, TypeOK,
          BotInv, BotOnly, Locked
    <2>2. fsm' \in {"none", "other"}
      BY <1>6 DEF LastStep, ClearAfterAnswer, AnswerFails, OtherState
    <2> QED
      BY <2>1, <2>2 DEF BotInv, BotStateFollowsLogin
  <1>7. CASE ConnectCommand \/ OtherEnds
    BY <1>7 DEF ConnectCommand, OtherEnds, BotInv, BotOnly, BotStateFollowsLogin
  <1>8. CASE OpenApp \/ Offboard \/ UNCHANGED vars
    BY <1>8, SameStage DEF OpenApp, Offboard, vars, BotInv, BotOnly, BotStateFollowsLogin, At
  <1>9. CASE Restart
    BY <1>9 DEF Restart, Idle, BotInv, BotOnly, BotStateFollowsLogin, Locked
  <1> QED
    BY <1>1, <1>2, <1>3, <1>4, <1>5, <1>6, <1>7, <1>8, <1>9 DEF Next

\* With the bot as the only surface and no failures, a conversation that expects a
\* code or a password belongs to an open attempt that needs just that.
THEOREM BotFollows ==
  ASSUME Surfaces = {"bot"}, ~Failures
  PROVE  Spec => []BotStateFollowsLogin
  <1>1. Init => BotInv
    BY DEF Init, BotInv, BotOnly, BotStateFollowsLogin, Idle, Locked
  <1>2. Inv /\ Inv' /\ BotInv /\ [Next]_vars => BotInv'
    BY BotStep
  <1>3. BotInv => BotStateFollowsLogin
    BY DEF BotInv
  <1> QED
    BY <1>1, <1>2, <1>3, InvAlways, PTL DEF Spec
=============================================================================
