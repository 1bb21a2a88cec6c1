------------------------------- MODULE Pushes -------------------------------
(***************************************************************************)
(* Which screens each operation tells to fetch again.                      *)
(*                                                                         *)
(* Every operation of Membership that commits sends invalidations after    *)
(* it: to a person ("groups_changed", "profile_changed") or to whoever is  *)
(* in a group when the invalidation is sent ("members_changed", by         *)
(* realtime.notify_group).  Here a push that reaches a person's Mini App   *)
(* makes it show what the database holds at that moment; how it gets there *)
(* is the business of Realtime and MiniApp.                                *)
(*                                                                         *)
(* Left out: the tag sync between the commit and the pushes that fails     *)
(* with something other than TelegramBadRequest, and the badge of          *)
(* unanswered messages.                                                    *)
(***************************************************************************)
EXTENDS Membership

VARIABLES
    owed,    \* pushes that committed operations have still to send
    stale,   \* screens that show something else than the database holds
    untold   \* history: screens that an operation changed and has nobody told

pushVars == <<db, chat, bot, updates, tasks, creators, begun, synced, owed, stale, untold>>

\* What a Mini App can show: its user's groups, role, and the members of a group.
GroupsView(u) == [kind |-> "groups", user |-> u]
ProfileView(u) == [kind |-> "profile", user |-> u]
MembersView(g, u) == [kind |-> "members", user |-> u, group |-> g]

Views ==
    [kind: {"groups", "profile"}, user: Users]
    \cup [kind: {"members"}, user: Users, group: Groups]

\* notify_group(g, "members_changed"), before it has looked up whom to tell.
ToGroup(g) == [kind |-> "group", group |-> g]
Owed == Views \cup [kind: {"group"}, group: Groups]

PushInit ==
    /\ Init
    /\ owed = {}
    /\ stale = {}
    /\ untold = {}

-----------------------------------------------------------------------------
\* GET /groups, GET /users/me and GET /members: what they show of a database.
ShownRole(base, u) == IF base.users[u] \in Roles THEN base.users[u] ELSE NoRole
ShownMembers(base, g) == {m \in base.members : m.group = g}

\* The screens a step of the database leaves behind.  Only members may ask for
\* the members of a group.
Outdated(old, new) ==
    {GroupsView(u) : u \in {v \in Users : GroupsOf(old, v) # GroupsOf(new, v)}}
    \cup {ProfileView(u) : u \in {v \in Users : ShownRole(old, v) # ShownRole(new, v)}}
    \cup UNION {{MembersView(g, u) : u \in MembersOf(old, g) \cap MembersOf(new, g)} :
                    g \in {h \in Groups : ShownMembers(old, h) # ShownMembers(new, h)}}

\* Who has lost access to a group has no screen of its members any more.
Visible(base) == {v \in Views : v.kind = "members" => v.user \in MembersOf(base, v.group)}

\* A step of Membership, with the pushes it owes and the screens it forgets.
Tells(step, pushes, forgotten) ==
    /\ step
    /\ owed' = owed \cup pushes
    /\ stale' = (stale \cup Outdated(db, db')) \cap Visible(db')
    /\ untold' = (untold \cup (forgotten \cap Outdated(db, db'))) \cap Visible(db')

-----------------------------------------------------------------------------
(* The pushes of each operation.                                            *)

\* create_group: everyone it tagged, also those whose tag was there or was lost
\* in a rollback.  Nobody when the refresh of the record raises.
CreateGroupPushes(s) ==
    IF RecordRolledBack(db, tasks[s].group, tasks[s].roles) THEN {}
    ELSE {GroupsView(u) : u \in TeamOf(tasks[s].roles)}

\* add_client and POST /members/remove
ClientPushes(g, u) == {GroupsView(u), ToGroup(g)}

\* offboard_staff: the groups read at the start, when there was a row to delete.
OffboardPushes(s) ==
    IF db.users[tasks[s].user] = NoUser THEN {} ELSE {ToGroup(g) : g \in tasks[s].groups}

\* mutant: those whom the scan missed are not told
SyncPushes_GroupOnly(s) ==
    IF db.members = db'.members THEN {} ELSE {ToGroup(tasks[s].group)}

\* sync_group: whose official tag changed (set_member_tag) or who was removed.
SyncPushes(s) ==
    LET g == tasks[s].group
        affected == {u \in Users : RowsOf(db, g, u) # RowsOf(db', g, u)}
    IN  {GroupsView(u) : u \in affected} \cup (IF affected = {} THEN {} ELSE {ToGroup(g)})

\* POST /members/remove and on_member_left_group: nothing when there was no row,
\* which in the former is a 404.
LeavingPushes(g, u) == IF RowsOf(db, g, u) = {} THEN {} ELSE ClientPushes(g, u)

\* mutant: the members are looked up when the group is gone
GroupGonePushes_Late(g) == {GroupsView(u) : u \in MembersOf(db', g)}

\* mutant: the rows are told, not the people in them
GroupGonePushes_Rows(g) == {GroupsView(m) : m \in ShownMembers(db, g)}

\* DELETE /groups/{group_id} and on_bot_removed_from_group: the members as they
\* were before the group was deleted.
GroupGonePushes(g) == {GroupsView(u) : u \in MembersOf(db, g)}

\* mutant: the groups are not told
RolePushes_ProfileOnly(u) == {ProfileView(u)}

\* POST /users/role: the groups whose tag sync_role_to_group_tags changed.
RolePushes(u) ==
    {ProfileView(u)} \cup {ToGroup(g) : g \in {h \in Groups : RowsOf(db, h, u) # RowsOf(db', h, u)}}

\* on_member_joined_group: when there was something to clear.
JoinPushes(g) == IF db.members = db'.members THEN {} ELSE {ToGroup(g)}

-----------------------------------------------------------------------------
(* Whom nobody tells.                                                       *)

\* A record that is created over rows without one, which some race left behind:
\* those people see the group again.
RecordForgotten(g) == {GroupsView(u) : u \in MembersOf(db, g)}

\* create_group tells the team, not those who, after a /sync of the fresh chat,
\* look at its members already.
CreateGroupForgotten(s) ==
    RecordForgotten(tasks[s].group)
        \cup {v \in Views : v.kind = "members" /\ v.group = tasks[s].group}

\* A /sync that loaded somebody before he had a role takes that role along with
\* his row, see StaffRowSurvives, and tells him of the group only.
SyncForgotten(s) == {ProfileView(u) : u \in tasks[s].current \ tasks[s].present}

\* POST /members/tag tells the group, not the person tagged.
TaggedForgotten(u) == {GroupsView(u)}

\* offboard_staff tells those who are left, in the groups as they were when the
\* offboarding began, and nobody when the rows of groups were all there was left
\* to delete; the person has no row any more.
OffboardForgotten(s) ==
    {GroupsView(tasks[s].user), ProfileView(tasks[s].user)}
    \cup {v \in Views :
            v.kind = "members" /\ (v.group \notin tasks[s].groups \/ db.users[tasks[s].user] = NoUser)}

-----------------------------------------------------------------------------
TellingStep(s) ==
    LET t == tasks[s] IN
    \/ \E kept \in SUBSET Users : Tells(FinishCreateGroup(s, kept), CreateGroupPushes(s), CreateGroupForgotten(s))
    \/ Tells(FinishAddClient(s), ClientPushes(t.group, t.user), {})
    \/ Tells(FinishOffboard(s), OffboardPushes(s), OffboardForgotten(s))
    \/ Tells(WriteSync(s), SyncPushes(s), SyncForgotten(s))
    \/ Tells(WriteSyncOfNewGroup(s), SyncPushes(s), RecordForgotten(t.group))
    \/ Tells(FinishRemove(s), LeavingPushes(t.group, t.user), {})
    \/ Tells(FinishRemoveGroup(s), IF t.group \in db.groups THEN GroupGonePushes(t.group) ELSE {}, {})

TellingTransaction ==
    \/ \E u \in Users, r \in Roles : Tells(SetRole(u, r), RolePushes(u), {})
    \/ \E a, u \in Users, g \in Groups, t \in ManualTags :
            Tells(TagMember(a, g, u, t), {ToGroup(g)}, TaggedForgotten(u))

TellingUpdate(up) ==
    \/ Tells(OnBotAdded(up), {}, RecordForgotten(up.group))
    \/ Tells(OnMemberJoined(up), JoinPushes(up.group), {})
    \/ Tells(OnMemberLeft(up), LeavingPushes(up.group, up.user), {})
    \/ Tells(OnBotRemoved(up), GroupGonePushes(up.group), {})

SilentStep ==
    \/ \E s \in Slots : Begin(s) \/ TelegramStep(s) \/ ReadMembers(s) \/ TransactionFails(s)
    \/ \E u \in Users : OpenApp(u)
    \/ Outside
    \/ \E up \in updates : IgnoreBotAdded(up)

\* notify_group looks up the members now.
Address(g) ==
    /\ ToGroup(g) \in owed
    /\ owed' = (owed \ {ToGroup(g)}) \cup {MembersView(g, u) : u \in MembersOf(db, g)}
    /\ UNCHANGED <<vars, stale, untold>>

\* notify_user: the Mini App fetches what it shows.
Send(v) ==
    /\ v \in owed \cap Views
    /\ owed' = owed \ {v}
    /\ stale' = stale \ {v}
    /\ untold' = untold \ {v}
    /\ UNCHANGED vars

PushNext ==
    \/ \E s \in Slots : TellingStep(s)
    \/ TellingTransaction
    \/ \E up \in updates : TellingUpdate(up)
    \/ Tells(SilentStep, {}, {})
    \/ \E g \in Groups : Address(g)
    \/ \E v \in Views : Send(v)

PushSpec == PushInit /\ [][PushNext]_pushVars

-----------------------------------------------------------------------------
PushTypeOK ==
    /\ owed \subseteq Owed
    /\ stale \subseteq Views
    /\ untold \subseteq Views

AllTold == Settled /\ owed = {}

\* Once every push is out, whoever is looking at the members of a group sees them
\* as they are, except where somebody was offboarded out of a group he got into
\* after the offboarding had begun, or a /sync of a fresh chat came before its team
\* was tagged (realtime.notify_group, group_service).
MembersAreShown == AllTold => \A v \in stale : v.kind = "members" => v \in untold

\* The same for everyone's list of groups and role: nobody has to reopen the Mini
\* App to see a group appear, disappear or change, but who was tagged by hand or
\* offboarded.
GroupsAreShown == AllTold => \A v \in stale : v.kind # "members" => v \in untold
=============================================================================
