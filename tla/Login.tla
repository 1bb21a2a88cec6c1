------------------------------- MODULE Login -------------------------------
(***************************************************************************)
(* What the login of app/services/telethon_auth.py promises to one user:   *)
(* at most one attempt is open; it passes code, then password if the       *)
(* account has one, in that order; and the account of the application      *)
(* becomes connected only by an attempt that passed.                       *)
(***************************************************************************)

VARIABLES
    stage,   \* of the open attempt: what Telegram still asks of the user
    account  \* the row of table users: absent, plain or connected

vars == <<stage, account>>

Asked == {"code", "codeThenPassword", "password"}
Stages == {"none", "passed"} \cup Asked
Accounts == {"absent", "plain", "connected"}

Init == stage = "none" /\ account \in Accounts

\* A user who asks for a code gets an account, if there is none.
Request ==
    /\ stage = "none"
    /\ stage' \in {"code", "codeThenPassword"}
    /\ account' = IF account = "absent" THEN "plain" ELSE account

NeedPassword ==
    /\ stage = "codeThenPassword"
    /\ stage' = "password"
    /\ UNCHANGED account

Pass ==
    /\ stage \in {"code", "password"}
    /\ stage' = "passed"
    /\ UNCHANGED account

\* The session is stored in the account, if there still is one.
Store ==
    /\ stage = "passed"
    /\ stage' = "none"
    /\ account' = IF account = "absent" THEN "absent" ELSE "connected"

\* Wrong code or password, a new attempt, a cancellation, a failure, a crash.
GiveUp ==
    /\ stage # "none"
    /\ stage' = "none"
    /\ UNCHANGED account

Appear ==
    /\ account = "absent"
    /\ account' = "plain"
    /\ UNCHANGED stage

Dismiss ==
    /\ account' = "absent"
    /\ UNCHANGED stage

Next ==
    \/ Request
    \/ NeedPassword
    \/ Pass
    \/ Store
    \/ GiveUp
    \/ Appear
    \/ Dismiss

Spec == Init /\ [][Next]_vars
=============================================================================
