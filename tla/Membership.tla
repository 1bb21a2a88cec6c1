---------------------------- MODULE Membership ----------------------------
(***************************************************************************)
(* Who is in which group: the service operations of                        *)
(* app/services/group_service.py, the API routes on members, users and     *)
(* groups, and the bot's handlers of membership updates, all working on    *)
(* one database (module Crud) and on Telegram's chats.                     *)
(*                                                                         *)
(* Every request and every update is a task of one event loop.  A task is  *)
(* split where it awaits Telegram; between two splits it reads or writes   *)
(* the database in one transaction, which is one action here.  The one     *)
(* exception is sync_group, whose transaction reads the members first and  *)
(* trusts that copy when it writes, and is split between the two.          *)
(***************************************************************************)
EXTENDS Crud, Naturals

CONSTANTS
    Slots,       \* tasks that may be in flight at once
    OldGroups,   \* groups created and fully staffed before the run begins
    FirstRoles,  \* user -> role, NoRole or NoUser when the run begins
    ManualTags,  \* tags that callers of /members/tag choose
    TagStrangers,\* whether they may name a user without a row in users
    Concurrent,  \* FALSE: a task begins only when no other is in flight
    MaxOps       \* bound on requests, chat changes and update sources

ASSUME MembershipAssumption ==
    /\ OldGroups \subseteq Groups
    /\ FirstRoles \in [Users -> UserStates]
    /\ ManualTags \subseteq Tags
    /\ TagStrangers \in BOOLEAN
    /\ Concurrent \in BOOLEAN
    /\ MaxOps \in Nat

VARIABLES
    db,        \* the database
    chat,      \* Telegram: chat -> people in it
    bot,       \* Telegram: chat -> "unborn", "live" (our bot is in it) or "gone"
    updates,   \* chat_member and my_chat_member updates on their way to the bot
    tasks,     \* slot -> request in flight
    creators,  \* _pending_actor_ids: who is creating a group through the application
    begun,     \* how many operations have begun
    synced     \* history: the chats whose people a /sync has written down

vars == <<db, chat, bot, updates, tasks, creators, begun, synced>>

Idle == [at |-> "idle"]

RoleMaps == [Users -> UserStates]
Tasks ==
    {Idle}
    \cup [at: {"creating"}, actor: Users, roles: RoleMaps]
    \cup [at: {"created"}, actor: Users, group: Groups, roles: RoleMaps]
    \cup [at: {"announcing"}, actor: Users]
    \cup [at: {"inviting", "removing", "removed", "deleting", "deleted"},
          group: Groups, user: Users]
    \cup [at: {"invited"}, group: Groups, user: Users, link: BOOLEAN]
    \cup [at: {"banning", "banned"}, user: Users, groups: SUBSET Groups]
    \cup [at: {"scanning"}, group: Groups]
    \cup [at: {"scanned"}, group: Groups, present: SUBSET Users]
    \cup [at: {"read"}, group: Groups, present: SUBSET Users, current: SUBSET Users,
          roles: RoleMaps]

\* The user of a bot's update is the one who added or removed the bot.
Updates == [kind: {"joined", "left", "botAdded", "botRemoved"}, group: Groups, user: Users]
Update(k, g, u) == [kind |-> k, group |-> g, user |-> u]

FirstStaff == {u \in Users : FirstRoles[u] \in Roles}

Init ==
    /\ db = [users |-> FirstRoles, groups |-> OldGroups,
             members |-> UNION {NewRows(g, FirstStaff, FirstRoles) : g \in OldGroups}]
    /\ chat = [g \in Groups |-> IF g \in OldGroups THEN FirstStaff ELSE {}]
    /\ bot = [g \in Groups |-> IF g \in OldGroups THEN "live" ELSE "unborn"]
    /\ updates = {}
    /\ tasks = [s \in Slots |-> Idle]
    /\ creators = {}
    /\ begun = 0
    /\ synced = {}

-----------------------------------------------------------------------------
NoneInFlight == \A s \in Slots : tasks[s] = Idle

\* A new operation may begin: within the bound and, in a sequential instance,
\* when nothing else is under way.
MayBegin ==
    /\ begun < MaxOps
    /\ Concurrent \/ (NoneInFlight /\ updates = {})
    /\ begun' = begun + 1

At(s, place) == tasks[s].at = place
Goes(s, task) == tasks' = [tasks EXCEPT ![s] = task]

\* Telegram: the given people leave the chat, and the bot is told of each.
ChatLoses(g, us) ==
    /\ chat' = [chat EXCEPT ![g] = @ \ us]
    /\ updates' = updates \cup
            IF bot[g] = "live" THEN {Update("left", g, u) : u \in us \cap chat[g]} ELSE {}

\* An in-flight call to Telegram fails: the request ends, nothing is written.
TelegramFails(s) ==
    /\ tasks[s].at \in {"creating", "inviting", "scanning", "removing", "deleting"}
    /\ creators' = IF At(s, "creating") THEN creators \ {tasks[s].actor} ELSE creators
    /\ Goes(s, Idle)
    /\ UNCHANGED <<db, chat, bot, updates, begun, synced>>

\* SQLite locks at a transaction's first write.  Where the code reads before it, to
\* see whether a user or a tag is there, another commit may come in between: the
\* INSERT is then refused, or the row to update has gone, and the request ends
\* without a trace.  (create_group reads only once an INSERT of its own is refused.)
TransactionFails(s) ==
    /\ Concurrent
    /\ \/ /\ At(s, "created")
          /\ \/ tasks[s].group \in db.groups
             \/ \E u \in Users : tasks[s].roles[u] \in TagsOf(db, tasks[s].group, u)
       \/ tasks[s].at \in {"invited", "read"}
    /\ creators' = IF At(s, "created") THEN creators \ {tasks[s].actor} ELSE creators
    /\ Goes(s, Idle)
    /\ UNCHANGED <<db, chat, bot, updates, begun, synced>>

-----------------------------------------------------------------------------
(* create_group                                                             *)

\* mutant: the creator is not marked
StartCreateGroup_Unmarked(s, u) ==
    /\ At(s, "idle")
    /\ MayBegin
    /\ db.users[u] # NoUser
    /\ Goes(s, [at |-> "creating", actor |-> u, roles |-> db.users])
    /\ UNCHANGED <<db, chat, bot, updates, creators, synced>>

\* The session is there, so the user row is; the staff list is read now, and the
\* creator marked (mark_pending).
StartCreateGroup(s, u) ==
    /\ At(s, "idle")
    /\ MayBegin
    /\ db.users[u] # NoUser
    /\ creators' = creators \cup {u}
    /\ Goes(s, [at |-> "creating", actor |-> u, roles |-> db.users])
    /\ UNCHANGED <<db, chat, bot, updates, synced>>

\* create_group_with_team: Telegram invites the staff it can and the bot, which
\* learns of it in an update of its own.
ChatAppears(s, g, invited) ==
    /\ At(s, "creating")
    /\ bot[g] = "unborn"
    /\ invited \subseteq {u \in Users : tasks[s].roles[u] \in Roles}
    /\ bot' = [bot EXCEPT ![g] = "live"]
    /\ chat' = [chat EXCEPT ![g] = invited \cup {tasks[s].actor}]
    /\ updates' = updates \cup {Update("botAdded", g, tasks[s].actor)}
    /\ UNCHANGED <<db, begun, synced>>

CreateChat(s, g, invited) ==
    /\ ChatAppears(s, g, invited)
    /\ Goes(s, [at |-> "created", actor |-> tasks[s].actor, group |-> g,
                roles |-> tasks[s].roles])
    /\ UNCHANGED creators

\* The chat is there when the migration, the logo or the promotion fails: the
\* request ends, and the update finds the creator unmarked or not.
CreateChatHalfway(s, g, invited) ==
    /\ ChatAppears(s, g, invited)
    /\ Goes(s, Idle)
    /\ creators' = creators \ {tasks[s].actor}

\* get_staff_users
TeamOf(roles) == {u \in Users : roles[u] \in Roles}

\* Whom of the team a database shows in the group with his role.
Tagged(base, g, roles) == {u \in TeamOf(roles) : roles[u] \in TagsOf(base, g, u)}

\* mutant: a group that is on record already is taken as done
TeamTagged_OnRecord(base, g, roles, kept) ==
    IF g \in base.groups THEN base
    ELSE [CreateGroupRecord(base, g) EXCEPT !.members = @ \cup NewRows(g, TeamOf(roles), roles)]

\* create_group_record and add_member_tag for each of the team, in the order the
\* staff query happened to return.  Each tag that is already there rolls the
\* transaction back to its beginning, so that only the new rows after the last
\* such tag, kept, are committed.
TeamTagged(base, g, roles, kept) ==
    IF Tagged(base, g, roles) = {}
    THEN [CreateGroupRecord(base, g) EXCEPT !.members = @ \cup NewRows(g, TeamOf(roles), roles)]
    ELSE [base EXCEPT !.members = @ \cup NewRows(g, kept \ Tagged(base, g, roles), roles)]

\* The rollback took the new record along: the refresh of it after the commit
\* raises.
RecordRolledBack(base, g, roles) == g \notin base.groups /\ Tagged(base, g, roles) # {}

FinishCreateGroup(s, kept) ==
    /\ At(s, "created")
    /\ kept \subseteq TeamOf(tasks[s].roles)
    /\ db' = TeamTagged(db, tasks[s].group, tasks[s].roles, kept)
    /\ IF RecordRolledBack(db, tasks[s].group, tasks[s].roles)
       THEN Goes(s, Idle) /\ creators' = creators \ {tasks[s].actor}
       ELSE Goes(s, [at |-> "announcing", actor |-> tasks[s].actor]) /\ UNCHANGED creators
    /\ UNCHANGED <<chat, bot, updates, begun, synced>>

\* The tags are shown in Telegram and the group is welcomed; then unmark_pending.
EndCreateGroup(s) ==
    /\ At(s, "announcing")
    /\ creators' = creators \ {tasks[s].actor}
    /\ Goes(s, Idle)
    /\ UNCHANGED <<db, chat, bot, updates, begun, synced>>

-----------------------------------------------------------------------------
(* add_client                                                               *)

StartAddClient(s, actor, g, u) ==
    /\ At(s, "idle")
    /\ MayBegin
    /\ MemberCheckPasses(db, g, actor)
    /\ db.users[actor] # NoUser
    /\ Goes(s, [at |-> "inviting", group |-> g, user |-> u])
    /\ UNCHANGED <<db, chat, bot, updates, creators, synced>>

\* add_client_to_group: added directly, or, the client's privacy settings
\* forbidding it, an invite link is exported.
InviteDirectly(s) ==
    /\ At(s, "inviting")
    /\ LET g == tasks[s].group
           u == tasks[s].user
       IN  /\ bot[g] = "live"
           /\ updates' = IF u \in chat[g] THEN updates ELSE updates \cup {Update("joined", g, u)}
           /\ chat' = [chat EXCEPT ![g] = @ \cup {u}]
           /\ Goes(s, [at |-> "invited", group |-> g, user |-> u, link |-> FALSE])
    /\ UNCHANGED <<db, bot, creators, begun, synced>>

InviteByLink(s) ==
    /\ At(s, "inviting")
    /\ LET g == tasks[s].group
           u == tasks[s].user
       IN  /\ bot[g] = "live"
           /\ u \notin chat[g]
           /\ Goes(s, [at |-> "invited", group |-> g, user |-> u, link |-> TRUE])
    /\ UNCHANGED <<db, chat, bot, updates, creators, begun, synced>>

\* mutant: the row is pending however the client got in
ClientAdded_AlwaysPending(base, g, u, link) ==
    AddMemberTag(base, GetOrCreateUsers(base, {u}), g, u, Client, TRUE)

\* get_or_create_user, then add_member_tag, in one transaction.
ClientAdded(base, g, u, link) ==
    AddMemberTag(base, GetOrCreateUsers(base, {u}), g, u, Client, link)

FinishAddClient(s) ==
    /\ At(s, "invited")
    /\ db' = ClientAdded(db, tasks[s].group, tasks[s].user, tasks[s].link)
    /\ Goes(s, Idle)
    /\ UNCHANGED <<chat, bot, updates, creators, begun, synced>>

-----------------------------------------------------------------------------
(* offboard_staff: the person blocks the bot in the private chat.           *)

StartOffboard(s, u) ==
    /\ At(s, "idle")
    /\ MayBegin
    /\ Goes(s, [at |-> "banning", user |-> u, groups |-> GroupsOf(db, u)])
    /\ UNCHANGED <<db, chat, bot, updates, creators, synced>>

\* Ban and unban in the groups read before: where it works, the person is out.
Bans(s, done) ==
    /\ At(s, "banning")
    /\ done \subseteq {g \in tasks[s].groups : bot[g] = "live" /\ tasks[s].user \in chat[g]}
    /\ chat' = [g \in Groups |-> IF g \in done THEN chat[g] \ {tasks[s].user} ELSE chat[g]]
    /\ updates' = updates \cup {Update("left", g, tasks[s].user) : g \in done}
    /\ UNCHANGED <<db, bot, creators, begun, synced>>

BanEverywhere(s, done) ==
    /\ Bans(s, done)
    /\ Goes(s, [tasks[s] EXCEPT !.at = "banned"])

\* Only TelegramBadRequest is caught: that the bot was kicked from one of the
\* groups, a flood limit or a network error ends the loop and the request.
BanInterrupted(s, done) ==
    /\ Bans(s, done)
    /\ tasks[s].groups # {}
    /\ Goes(s, Idle)

FinishOffboard(s) ==
    /\ At(s, "banned")
    /\ db' = DeleteUser(db, tasks[s].user)
    /\ Goes(s, Idle)
    /\ UNCHANGED <<chat, bot, updates, creators, begun, synced>>

-----------------------------------------------------------------------------
(* /sync: cmd_sync and sync_group                                           *)

StartSync(s, actor, g) ==
    /\ At(s, "idle")
    /\ MayBegin
    /\ bot[g] = "live"
    /\ actor \in chat[g]
    /\ db.users[actor] \in Roles
    /\ Goes(s, [at |-> "scanning", group |-> g])
    /\ UNCHANGED <<db, chat, bot, updates, creators, synced>>

Scan(s) ==
    /\ At(s, "scanning")
    /\ Goes(s, [at |-> "scanned", group |-> tasks[s].group, present |-> chat[tasks[s].group]])
    /\ UNCHANGED <<db, chat, bot, updates, creators, begun, synced>>

\* The current members and their user rows are loaded; the session keeps those
\* rows as they are now.
ReadMembers(s) ==
    /\ At(s, "scanned")
    /\ tasks[s].group \in db.groups
    /\ Goes(s, [at |-> "read", group |-> tasks[s].group, present |-> tasks[s].present,
                current |-> MembersOf(db, tasks[s].group), roles |-> db.users])
    /\ UNCHANGED <<db, chat, bot, updates, creators, begun, synced>>

\* mutant: the role is used as the tag even when it is NULL
Synced_RoleAsTag(base, g, present, current, roles) ==
    LET known == {u \in current : roles[u] # NoUser}
        created == GetOrCreateUsers(base, present \ known)
        roleOf == [u \in Users |-> IF u \in known THEN roles[u] ELSE created.users[u]]
    IN  RemoveMembers(SetMemberTags(created, g, present, roleOf), g, current \ present, roleOf)

\* The official tag of everyone present is set to the role or CLIENT_TAG, and
\* those current members the scan does not see are removed.  A user who was
\* loaded with the current members is not looked at again.
Synced(base, g, present, current, roles) ==
    LET known == {u \in current : roles[u] # NoUser}
        created == GetOrCreateUsers(base, present \ known)
        roleOf == [u \in Users |-> IF u \in known THEN roles[u] ELSE created.users[u]]
        tagged == SetMemberTags(created, g, present,
            [u \in present |-> IF roleOf[u] \in Roles THEN roleOf[u] ELSE Client])
    IN  RemoveMembers(tagged, g, current \ present, roleOf)

WriteSync(s) ==
    /\ At(s, "read")
    /\ db' = Synced(db, tasks[s].group, tasks[s].present, tasks[s].current, tasks[s].roles)
    /\ synced' = synced \cup {tasks[s].group}
    /\ Goes(s, Idle)
    /\ UNCHANGED <<chat, bot, updates, creators, begun>>

\* A new group is inserted first, which locks the database until the commit.
WriteSyncOfNewGroup(s) ==
    /\ At(s, "scanned")
    /\ tasks[s].group \notin db.groups
    /\ LET g == tasks[s].group
       IN  db' = Synced(CreateGroupRecord(db, g), g, tasks[s].present, MembersOf(db, g), db.users)
    /\ synced' = synced \cup {tasks[s].group}
    /\ Goes(s, Idle)
    /\ UNCHANGED <<chat, bot, updates, creators, begun>>

-----------------------------------------------------------------------------
(* POST /members/remove                                                     *)

StartRemove(s, actor, g, u) ==
    /\ At(s, "idle")
    /\ MayBegin
    /\ MemberCheckPasses(db, g, actor)
    /\ Goes(s, [at |-> "removing", group |-> g, user |-> u])
    /\ UNCHANGED <<db, chat, bot, updates, creators, synced>>

\* The kick, by the bot or by the actor's own account; both are best effort.
Kick(s, us) ==
    /\ At(s, "removing")
    /\ us \subseteq {tasks[s].user}
    /\ ChatLoses(tasks[s].group, us)
    /\ Goes(s, [tasks[s] EXCEPT !.at = "removed"])
    /\ UNCHANGED <<db, bot, creators, begun, synced>>

FinishRemove(s) ==
    /\ At(s, "removed")
    /\ db' = RemoveMembers(db, tasks[s].group, {tasks[s].user}, db.users)
    /\ Goes(s, Idle)
    /\ UNCHANGED <<chat, bot, updates, creators, begun, synced>>

-----------------------------------------------------------------------------
(* DELETE /groups/{group_id}                                                *)

StartRemoveGroup(s, actor, g) ==
    /\ At(s, "idle")
    /\ MayBegin
    /\ MemberCheckPasses(db, g, actor)
    /\ Goes(s, [at |-> "deleting", group |-> g, user |-> actor])
    /\ UNCHANGED <<db, chat, bot, updates, creators, synced>>

\* The chat is deleted if Telegram lets the actor, and the bot is told.
DeleteChat(s) ==
    /\ At(s, "deleting")
    /\ LET g == tasks[s].group
       IN  \/ /\ bot[g] = "live"
              /\ bot' = [bot EXCEPT ![g] = "gone"]
              /\ updates' = updates \cup {Update("botRemoved", g, tasks[s].user)}
           \/ UNCHANGED <<bot, updates>>
    /\ Goes(s, [tasks[s] EXCEPT !.at = "deleted"])
    /\ UNCHANGED <<db, chat, creators, begun, synced>>

\* The record goes in any case.
FinishRemoveGroup(s) ==
    /\ At(s, "deleted")
    /\ db' = DeleteGroup(db, tasks[s].group)
    /\ Goes(s, Idle)
    /\ UNCHANGED <<chat, bot, updates, creators, begun, synced>>

-----------------------------------------------------------------------------
(* Operations of one transaction.                                           *)

\* GET /users/me and /start
OpenApp(u) ==
    /\ MayBegin
    /\ db' = GetOrCreateUsers(db, {u})
    /\ UNCHANGED <<chat, bot, updates, tasks, creators, synced>>

\* POST /users/role
SetRole(u, role) ==
    /\ MayBegin
    /\ db' = SyncRoleToGroupTags(db, SetUserRole(GetOrCreateUsers(db, {u}), u, role), u, role)
    /\ UNCHANGED <<chat, bot, updates, tasks, creators, synced>>

\* POST /members/tag
TagMember(actor, g, u, t) ==
    /\ MayBegin
    /\ MemberCheckPasses(db, g, actor)
    /\ TagStrangers \/ db.users[u] # NoUser
    /\ db' = AddMemberTag(db, db, g, u, t, FALSE)
    /\ UNCHANGED <<chat, bot, updates, tasks, creators, synced>>

-----------------------------------------------------------------------------
(* Telegram without us: people and the bot come and go.                     *)

BotInvited(g, u, us) ==
    /\ MayBegin
    /\ bot[g] = "unborn"
    /\ bot' = [bot EXCEPT ![g] = "live"]
    /\ chat' = [chat EXCEPT ![g] = us \cup {u}]
    /\ updates' = updates \cup {Update("botAdded", g, u)}
    /\ UNCHANGED <<db, tasks, creators, synced>>

BotKicked(g, u) ==
    /\ MayBegin
    /\ bot[g] = "live"
    /\ u \in chat[g]
    /\ bot' = [bot EXCEPT ![g] = "gone"]
    /\ updates' = updates \cup {Update("botRemoved", g, u)}
    /\ UNCHANGED <<db, chat, tasks, creators, synced>>

Joins(g, u) ==
    /\ MayBegin
    /\ bot[g] = "live"
    /\ u \notin chat[g]
    /\ chat' = [chat EXCEPT ![g] = @ \cup {u}]
    /\ updates' = updates \cup {Update("joined", g, u)}
    /\ UNCHANGED <<db, bot, tasks, creators, synced>>

Leaves(g, u) ==
    /\ MayBegin
    /\ bot[g] = "live"
    /\ u \in chat[g]
    /\ ChatLoses(g, {u})
    /\ UNCHANGED <<db, bot, tasks, creators, synced>>

-----------------------------------------------------------------------------
(* The bot's handlers: updates are handled concurrently, hence in any order. *)

Handled(up) ==
    /\ updates' = updates \ {up}
    /\ UNCHANGED <<chat, bot, tasks, creators, begun, synced>>

\* on_member_joined_group
OnMemberJoined(up) ==
    /\ up.kind = "joined"
    /\ db' = ClearPending(db, up.group, up.user)
    /\ Handled(up)

\* on_member_left_group
OnMemberLeft(up) ==
    /\ up.kind = "left"
    /\ db' = RemoveMembers(db, up.group, {up.user}, db.users)
    /\ Handled(up)

\* on_bot_added_to_group: nothing when it is the doing of our own create_group;
\* otherwise a greeting, then the record.
OnBotAdded(up) ==
    /\ up.kind = "botAdded"
    /\ up.user \notin creators
    /\ db' = CreateGroupRecord(db, up.group)
    /\ Handled(up)

\* Our own doing, or the greeting fails because the bot is out again.
IgnoreBotAdded(up) ==
    /\ up.kind = "botAdded"
    /\ up.user \in creators \/ bot[up.group] = "gone"
    /\ UNCHANGED db
    /\ Handled(up)

\* on_bot_removed_from_group
OnBotRemoved(up) ==
    /\ up.kind = "botRemoved"
    /\ db' = DeleteGroup(db, up.group)
    /\ Handled(up)

-----------------------------------------------------------------------------
Begin(s) ==
    \/ \E u \in Users : StartCreateGroup(s, u)
    \/ \E a, u \in Users, g \in Groups : StartAddClient(s, a, g, u)
    \/ \E u \in Users : StartOffboard(s, u)
    \/ \E a \in Users, g \in Groups : StartSync(s, a, g)
    \/ \E a, u \in Users, g \in Groups : StartRemove(s, a, g, u)
    \/ \E a \in Users, g \in Groups : StartRemoveGroup(s, a, g)

TelegramStep(s) ==
    \/ \E g \in Groups, us \in SUBSET Users : CreateChat(s, g, us) \/ CreateChatHalfway(s, g, us)
    \/ InviteDirectly(s)
    \/ InviteByLink(s)
    \/ \E gs \in SUBSET Groups : BanEverywhere(s, gs) \/ BanInterrupted(s, gs)
    \/ Scan(s)
    \/ \E us \in SUBSET Users : Kick(s, us)
    \/ DeleteChat(s)
    \/ EndCreateGroup(s)
    \/ TelegramFails(s)

DatabaseStep(s) ==
    \/ \E kept \in SUBSET Users : FinishCreateGroup(s, kept)
    \/ FinishAddClient(s)
    \/ FinishOffboard(s)
    \/ ReadMembers(s)
    \/ WriteSync(s)
    \/ TransactionFails(s)
    \/ WriteSyncOfNewGroup(s)
    \/ FinishRemove(s)
    \/ FinishRemoveGroup(s)

OneTransaction ==
    \/ \E u \in Users : OpenApp(u)
    \/ \E u \in Users, r \in Roles : SetRole(u, r)
    \/ \E a, u \in Users, g \in Groups, t \in ManualTags : TagMember(a, g, u, t)

Outside ==
    \/ \E g \in Groups, u \in Users : Joins(g, u) \/ Leaves(g, u) \/ BotKicked(g, u)
    \/ \E g \in Groups, u \in Users, us \in SUBSET Users : BotInvited(g, u, us)

Deliver ==
    \E up \in updates :
        \/ OnMemberJoined(up)
        \/ OnMemberLeft(up)
        \/ OnBotAdded(up)
        \/ IgnoreBotAdded(up)
        \/ OnBotRemoved(up)

Next ==
    \/ \E s \in Slots : Begin(s) \/ TelegramStep(s) \/ DatabaseStep(s)
    \/ OneTransaction
    \/ Outside
    \/ Deliver

Spec == Init /\ [][Next]_vars

-----------------------------------------------------------------------------
(* Properties of every interleaving.                                        *)

TypeOK ==
    /\ db \in Databases
    /\ chat \in [Groups -> SUBSET Users]
    /\ bot \in [Groups -> {"unborn", "live", "gone"}]
    /\ updates \subseteq Updates
    /\ tasks \in [Slots -> Tasks]
    /\ creators \subseteq Users
    /\ begun \in 0 .. MaxOps
    /\ synced \subseteq Groups

\* Only rows tagged CLIENT_TAG are ever pending; as a member has one row of a tag,
\* clear_pending (scalar_one_or_none) never meets two.
PendingAreClients == OnlyClientsPending(db)

\* POST /users/role takes effect whole, whatever tags the person has collected:
\* the new role, and it alone among the roles in every group where there was one
\* (crud.sync_role_to_group_tags on IntegrityError).
RoleChangeIsComplete ==
    [][\A u \in Users, r \in Roles :
        SetRole(u, r) =>
            /\ db'.users[u] = r
            /\ \A g \in Groups :
                    TagsOf(db', g, u) \cap Roles = IF TagsOf(db, g, u) \cap Roles = {} THEN {} ELSE {r}]_vars

\* The row of a member of staff goes only by his own offboarding, or by a /sync
\* that loaded him before he had a role: leaving, being kicked or being missed by
\* a scan does not end anyone's employment (crud.remove_member).
StaffRowSurvives ==
    [][\A u \in Users :
        db.users[u] \in Roles /\ db'.users[u] \notin Roles =>
            \E s \in Slots :
                \/ At(s, "banned") /\ tasks[s].user = u
                \/ At(s, "read") /\ tasks[s].roles[u] = NoRole]_vars

\* Custom tags are nobody's to tidy up: /sync, role changes and repeated adds
\* leave them, they go only when the whole membership does (crud.set_member_tag).
CustomTagsGoWithMembership ==
    [][\A m \in db.members :
        m.tag \in CustomTags /\ m \notin db'.members => RowsOf(db', m.group, m.user) = {}]_vars

\* A group created through the application comes with its whole team tagged, also
\* when the bot's own arrival was recorded first.  Only a /sync of the fresh chat
\* can cost tags, and never those it has written itself ("the main team has been
\* added", bot/handlers/group_creation.py; crud.create_group_record on the race).
CreatedGroupHasTeam ==
    [][\A s \in Slots :
        At(s, "created") /\ tasks'[s].at = "announcing" =>
            LET g == tasks[s].group
                roles == tasks[s].roles
            IN  IF g \in synced
                THEN Tagged(db, g, roles) \subseteq Tagged(db', g, roles)
                ELSE Tagged(db', g, roles) = TeamOf(roles)]_vars

\* A row whose user is not there, or whose role is not the user's.
Disagrees(base, m) ==
    \/ base.users[m.user] = NoUser
    \/ m.tag \in Roles /\ m.tag # base.users[m.user]

\* Rows and users fall apart in two ways only: create_group or /sync writes down a
\* person whose role has changed since it read it, or somebody tags by hand.  No
\* departure, offboarding, role change or client does it, whatever it crosses
\* (group_service.create_group, sync_group; list_members reads m.user of every row).
OnlyStaleReadsDisagree ==
    [][\A m \in db'.members :
        Disagrees(db', m) =>
            \/ \E n \in RowsOf(db, m.group, m.user) : n.tag = m.tag /\ Disagrees(db, n)
            \/ \E s \in Slots :
                  /\ tasks[s].at \in {"created", "read"} /\ tasks'[s] # tasks[s]
                  /\ tasks[s].group = m.group /\ tasks[s].roles[m.user] # db.users[m.user]
            \/ \E a \in Users : TagMember(a, m.group, m.user, m.tag)]_vars

\* Rows that stay pending for good: the person is in and no update will say so.
Overlooked ==
    {m \in db.members : /\ m.pending
                        /\ bot[m.group] = "live" /\ m.user \in chat[m.group]
                        /\ Update("joined", m.group, m.user) \notin updates}

\* A row is overlooked only when the person followed the invite link before
\* add_client had committed the row (group_service.add_client,
\* messages.on_member_joined_group).
OverlookedOnlyByLateCommit ==
    [][\A m \in Overlooked' \ Overlooked :
        \E s \in Slots :
            /\ At(s, "invited") /\ tasks'[s] # tasks[s]
            /\ tasks[s].link /\ tasks[s].group = m.group /\ tasks[s].user = m.user]_vars

-----------------------------------------------------------------------------
(* Properties of operations that do not overlap.                            *)

Settled == NoneInFlight /\ updates = {}

\* Every row of group_members has its user and its group, though no foreign key
\* is enforced: list_members reads m.user.full_name of every row.
NoOrphanRows == NoOrphans(db)

\* Once all updates are in, nobody who is in the chat is shown as pending.
JoinedAreNotPending ==
    Settled =>
        \A m \in db.members : bot[m.group] = "live" /\ m.user \in chat[m.group] => ~m.pending

\* The tag of a role is the role of its bearer, in every group at once
\* (crud.sync_role_to_group_tags).
RoleTagsFollowRole == NoneInFlight => \A m \in db.members : m.tag \in Roles => m.tag = db.users[m.user]

\* The record of a chat goes with the bot: once all updates are in, no registered
\* group is one the bot is out of, where it can neither watch nor remind
\* (messages.on_bot_removed_from_group).
RegisteredGroupsAreLive == Settled => \A g \in db.groups : bot[g] = "live"

\* While create_group is on its way to record a chat, the update that tells the
\* bot of its own arrival there registers nothing (group_creation_registry).
OwnChatIsLeftAlone ==
    [][\A s \in Slots :
        At(s, "created") /\ tasks'[s] = tasks[s] =>
            (tasks[s].group \in db'.groups => tasks[s].group \in db.groups)]_vars

\* After /sync a group lists exactly the people in the chat, each with one
\* official tag: the role, or CLIENT_TAG (group_service.sync_group).
SyncMirrorsChat ==
    [][\A s \in Slots :
        WriteSync(s) \/ WriteSyncOfNewGroup(s) =>
            LET g == tasks[s].group IN
            /\ MembersOf(db', g) = chat[g]
            /\ \A u \in chat[g] :
                    TagsOf(db', g, u) \cap OfficialTags =
                        {IF db'.users[u] \in Roles THEN db'.users[u] ELSE Client}]_vars

-----------------------------------------------------------------------------
(* What the source says of every interleaving, and does not hold.           *)

\* models.py on the unique constraint: one person may hold several distinct tags
\* in a group.  So the membership check must answer for such a person.
MemberCheckAnswers == \A g \in Groups, u \in Users : ~MemberCheckRaises(db, g, u)

\* group_service.offboard_staff: the kick from each group is best effort and does
\* not keep the person from being removed from the rest and from the database.
OffboardingIsNotBlocked ==
    [][\A s \in Slots : At(s, "banning") /\ tasks'[s] # tasks[s] => tasks'[s].at = "banned"]_vars
=============================================================================
