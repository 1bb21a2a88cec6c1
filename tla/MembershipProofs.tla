------------------------- MODULE MembershipProofs -------------------------
(***************************************************************************)
(* Theorems about Membership, for every set of users, groups, roles, tags  *)
(* and slots, every beginning and every bound on operations.               *)
(***************************************************************************)
EXTENDS Membership, CrudProofs

(* Everything but the database.                                            *)
RestOK ==
    /\ chat \in [Groups -> SUBSET Users]
    /\ bot \in [Groups -> {"unborn", "live", "gone"}]
    /\ updates \subseteq Updates
    /\ tasks \in [Slots -> Tasks]
    /\ creators \subseteq Users
    /\ begun \in 0 .. MaxOps
    /\ synced \subseteq Groups

(* The inductive invariant: that a row is known by its group, user and tag *)
(* and the rule on pending rows, which need each other, and the types of   *)
(* what the tasks carry.                                                   *)
Inv == Sound(db) /\ RestOK

(* What a task carries, by where it is.                                    *)
LEMMA TaskFields ==
  ASSUME NEW t \in Tasks
  PROVE  /\ t.at = "creating" => t.actor \in Users /\ t.roles \in RoleMaps
         /\ t.at = "created" => /\ t.actor \in Users /\ t.group \in Groups
                                /\ t.roles \in RoleMaps
         /\ t.at = "announcing" => t.actor \in Users
         /\ t.at \in {"inviting", "removing", "removed", "deleting", "deleted"} =>
                t.group \in Groups /\ t.user \in Users
         /\ t.at = "invited" => t.group \in Groups /\ t.user \in Users /\ t.link \in BOOLEAN
         /\ t.at \in {"banning", "banned"} => t.user \in Users /\ t.groups \in SUBSET Groups
         /\ t.at = "scanning" => t.group \in Groups
         /\ t.at = "scanned" => t.group \in Groups /\ t.present \in SUBSET Users
         /\ t.at = "read" => /\ t.group \in Groups /\ t.present \in SUBSET Users
                             /\ t.current \in SUBSET Users /\ t.roles \in RoleMaps
  BY DEF Tasks, Idle

(* The tasks the actions build are tasks.                                  *)
LEMMA TaskTypes ==
  /\ Idle \in Tasks
  /\ \A u \in Users, roles \in RoleMaps :
        [at |-> "creating", actor |-> u, roles |-> roles] \in Tasks
  /\ \A g \in Groups, u \in Users, roles \in RoleMaps :
        [at |-> "created", actor |-> u, group |-> g, roles |-> roles] \in Tasks
  /\ \A u \in Users : [at |-> "announcing", actor |-> u] \in Tasks
  /\ \A g \in Groups, u \in Users : [at |-> "inviting", group |-> g, user |-> u] \in Tasks
  /\ \A g \in Groups, u \in Users : [at |-> "removing", group |-> g, user |-> u] \in Tasks
  /\ \A g \in Groups, u \in Users : [at |-> "deleting", group |-> g, user |-> u] \in Tasks
  /\ \A g \in Groups, u \in Users, link \in BOOLEAN :
        [at |-> "invited", group |-> g, user |-> u, link |-> link] \in Tasks
  /\ \A u \in Users, gs \in SUBSET Groups : [at |-> "banning", user |-> u, groups |-> gs] \in Tasks
  /\ \A g \in Groups : [at |-> "scanning", group |-> g] \in Tasks
  /\ \A g \in Groups, us \in SUBSET Users :
        [at |-> "scanned", group |-> g, present |-> us] \in Tasks
  /\ \A g \in Groups, us, vs \in SUBSET Users, roles \in RoleMaps :
        [at |-> "read", group |-> g, present |-> us, current |-> vs, roles |-> roles] \in Tasks
  BY DEF Tasks

(* The updates Telegram sends are updates.                                 *)
LEMMA UpdateTypes ==
  ASSUME NEW g \in Groups, NEW u \in Users
  PROVE  \A kind \in {"joined", "left", "botAdded", "botRemoved"} : Update(kind, g, u) \in Updates
  BY DEF Update, Updates

-----------------------------------------------------------------------------
(* The composed writes keep a database sound.                              *)

(* Tagging the team, rolled back or not, inserts only tags that are new.   *)
LEMMA TeamTaggedSound ==
  ASSUME NEW base, Sound(base), NEW g \in Groups, NEW roles \in RoleMaps,
         NEW kept, kept \subseteq TeamOf(roles)
  PROVE  Sound(TeamTagged(base, g, roles, kept))
  <1> DEFINE team == TeamOf(roles)
             there == Tagged(base, g, roles)
             created == CreateGroupRecord(base, g)
  <1>0. TeamTagged(base, g, roles, kept) =
            IF there = {}
            THEN [created EXCEPT !.members = @ \cup NewRows(g, team, roles)]
            ELSE [base EXCEPT !.members = @ \cup NewRows(g, kept \ there, roles)]
    BY Zenon DEF TeamTagged
  <1>1. team \subseteq Users /\ \A u \in team : roles[u] \in Tags
    BY DEF TeamOf, Tags, OfficialTags
  <1>2. Sound(created) /\ \A u : TagsOf(created, g, u) = TagsOf(base, g, u)
    <2>1. created.members = base.members
      BY DEF CreateGroupRecord, Sound, Databases
    <2> HIDE DEF created
    <2>2. \A u : TagsOf(created, g, u) = TagsOf(base, g, u)
      BY <2>1 DEF TagsOf, RowsOf
    <2> QED BY <2>2, CreateGroupRecordSound DEF created
  <1>3. CASE there = {}
    <2>1. \A u \in team : roles[u] \in Tags /\ roles[u] \notin TagsOf(created, g, u)
      BY <1>1, <1>2, <1>3 DEF Tagged
    <2> HIDE DEF team, created
    <2>2. Sound([created EXCEPT !.members = @ \cup NewRows(g, team, roles)])
      BY <1>1, <1>2, <2>1, NewRowsSound
    <2> HIDE DEF there
    <2> QED BY <1>0, <1>3, <2>2
  <1>4. CASE there # {}
    <2> DEFINE fresh == kept \ there
    <2>1. /\ fresh \subseteq Users
          /\ \A u \in fresh : roles[u] \in Tags /\ roles[u] \notin TagsOf(base, g, u)
      BY <1>1 DEF Tagged
    <2> HIDE DEF fresh
    <2>2. Sound([base EXCEPT !.members = @ \cup NewRows(g, fresh, roles)])
      BY <2>1, NewRowsSound
    <2>3. Sound([base EXCEPT !.members = @ \cup NewRows(g, kept \ there, roles)])
      BY <2>2 DEF fresh
    <2> HIDE DEF there, created, team
    <2> QED BY <1>0, <1>4, <2>3
  <1> QED BY <1>3, <1>4

(* Adding a client.                                                        *)
LEMMA ClientAddedSound ==
  ASSUME NEW base, Sound(base), NEW g \in Groups, NEW u \in Users, NEW link \in BOOLEAN
  PROVE  Sound(ClientAdded(base, g, u, link))
  <1>1. Client \in Tags
    BY DEF Tags, OfficialTags
  <1>2. Sound(GetOrCreateUsers(base, {u}))
    BY GetOrCreateUsersSound
  <1> QED BY <1>1, <1>2, AddMemberTagSound DEF ClientAdded

(* A sync, whatever its copies of members and roles have become.           *)
LEMMA SyncedSound ==
  ASSUME NEW base, Sound(base), NEW g \in Groups, NEW present \in SUBSET Users,
         NEW current, NEW roles
  PROVE  Sound(Synced(base, g, present, current, roles))
  <1> DEFINE known == {u \in current : roles[u] # NoUser}
             created == GetOrCreateUsers(base, present \ known)
             roleOf == [u \in Users |-> IF u \in known THEN roles[u] ELSE created.users[u]]
             tag == [u \in present |-> IF roleOf[u] \in Roles THEN roleOf[u] ELSE Client]
             tagged == SetMemberTags(created, g, present, tag)
  <1>1. Sound(created)
    BY GetOrCreateUsersSound
  <1>2. \A u \in present : tag[u] \in OfficialTags
    BY DEF OfficialTags
  <1>3. Sound(tagged)
    <2> HIDE DEF created, tag
    <2> QED BY <1>1, <1>2, SetMemberTagsSound
  <1>4. Sound(RemoveMembers(tagged, g, current \ present, roleOf))
    <2> HIDE DEF tagged, roleOf
    <2> QED BY <1>3, RemoveMembersSound
  <1> QED BY <1>4 DEF Synced

-----------------------------------------------------------------------------
(* Every step keeps the database sound.                                    *)
LEMMA SoundStep == ASSUME Inv, [Next]_vars PROVE Sound(db')
  <1>0. Sound(db) /\ \A s \in Slots : tasks[s] \in Tasks
    BY DEF Inv, RestOK
  <1>1. ASSUME NEW s \in Slots, DatabaseStep(s) PROVE Sound(db')
    <2>0. tasks[s] \in Tasks
      BY <1>0
    <2>1. ASSUME NEW kept \in SUBSET Users, FinishCreateGroup(s, kept) PROVE Sound(db')
      BY <1>0, <2>0, <2>1, TaskFields, TeamTaggedSound DEF FinishCreateGroup, At
    <2>2. CASE FinishAddClient(s)
      BY <1>0, <2>0, <2>2, TaskFields, ClientAddedSound DEF FinishAddClient, At
    <2>3. CASE FinishOffboard(s)
      BY <1>0, <2>0, <2>3, TaskFields, DeleteUserSound DEF FinishOffboard, At
    <2>4. CASE ReadMembers(s)
      BY <1>0, <2>4 DEF ReadMembers
    <2>5. CASE WriteSync(s)
      BY <1>0, <2>0, <2>5, TaskFields, SyncedSound DEF WriteSync, At
    <2>6. CASE TransactionFails(s)
      BY <1>0, <2>6 DEF TransactionFails
    <2>7. CASE WriteSyncOfNewGroup(s)
      BY <1>0, <2>0, <2>7, TaskFields, CreateGroupRecordSound, SyncedSound
      DEF WriteSyncOfNewGroup, At
    <2>8. CASE FinishRemove(s)
      BY <1>0, <2>8, RemoveMembersSound DEF FinishRemove
    <2>9. CASE FinishRemoveGroup(s)
      BY <1>0, <2>9, DeleteGroupSound DEF FinishRemoveGroup
    <2> QED
      BY <1>1, <2>1, <2>2, <2>3, <2>4, <2>5, <2>6, <2>7, <2>8, <2>9 DEF DatabaseStep
  <1>2. ASSUME NEW s \in Slots, Begin(s) PROVE Sound(db')
    BY <1>0, <1>2 DEF Begin, StartCreateGroup, StartAddClient, StartOffboard, StartSync, StartRemove,
        StartRemoveGroup
  <1>3. ASSUME NEW s \in Slots, TelegramStep(s) PROVE Sound(db')
    BY <1>0, <1>3
    DEF TelegramStep, ChatAppears, CreateChat, CreateChatHalfway, InviteDirectly,
        InviteByLink, Bans, BanEverywhere,
        BanInterrupted, Scan, Kick, DeleteChat, EndCreateGroup, TelegramFails
  <1>4. CASE OneTransaction
    <2>1. ASSUME NEW u \in Users, OpenApp(u) PROVE Sound(db')
      BY <1>0, <2>1, GetOrCreateUsersSound DEF OpenApp
    <2>2. ASSUME NEW u \in Users, NEW r \in Roles, SetRole(u, r) PROVE Sound(db')
      BY <1>0, <2>2, GetOrCreateUsersSound, SetUserRoleSound, SyncRoleToGroupTagsSound DEF SetRole
    <2>3. ASSUME NEW a \in Users, NEW u \in Users, NEW g \in Groups, NEW t \in ManualTags,
                 TagMember(a, g, u, t)
          PROVE  Sound(db')
      BY <1>0, <2>3, MembershipAssumption, AddMemberTagSound DEF TagMember
    <2> QED BY <1>4, <2>1, <2>2, <2>3 DEF OneTransaction
  <1>5. CASE Outside
    BY <1>0, <1>5 DEF Outside, Joins, Leaves, BotKicked, BotInvited
  <1>6. CASE Deliver
    <2>1. \A up \in updates : up.group \in Groups
      BY DEF Inv, RestOK, Updates
    <2> QED
      BY <1>0, <1>6, <2>1, ClearPendingSound, RemoveMembersSound, CreateGroupRecordSound,
         DeleteGroupSound
      DEF Deliver, OnMemberJoined, OnMemberLeft, OnBotAdded, IgnoreBotAdded, OnBotRemoved
  <1>7. CASE UNCHANGED vars
    BY <1>0, <1>7 DEF vars
  <1> QED BY <1>1, <1>2, <1>3, <1>4, <1>5, <1>6, <1>7 DEF Next

-----------------------------------------------------------------------------
(* Every step keeps the types of the rest.                                 *)

(* The bound on operations.                                                *)
LEMMA Counting == ASSUME begun \in 0 .. MaxOps, MayBegin PROVE begun' \in 0 .. MaxOps
  BY MembershipAssumption DEF MayBegin

(* A task that goes to a task of the right type.                           *)
LEMMA TasksStep ==
  ASSUME RestOK, NEW s, NEW t \in Tasks, Goes(s, t)
  PROVE  tasks' \in [Slots -> Tasks]
  BY DEF RestOK, Goes

(* What requests read from a sound database.                               *)
LEMMA QueryTypes ==
  ASSUME Sound(db)
  PROVE  /\ db.users \in RoleMaps
         /\ \A u : GroupsOf(db, u) \in SUBSET Groups
         /\ \A g : MembersOf(db, g) \in SUBSET Users
  BY DEF Sound, Databases, RoleMaps, GroupsOf, MembersOf, MemberRows

(* Task by task: what a step reads was typed by what wrote it.             *)
LEMMA RestStep == ASSUME Inv, [Next]_vars PROVE RestOK'
  <1>0. Sound(db) /\ RestOK /\ \A s \in Slots : tasks[s] \in Tasks
    BY DEF Inv, RestOK
  <1>1. Idle \in Tasks
    BY DEF Tasks
  <1>2. ASSUME NEW s \in Slots, Begin(s) PROVE RestOK'
    <2>1. /\ UNCHANGED <<chat, bot, updates, synced>> /\ begun' \in 0 .. MaxOps
          /\ creators' \subseteq Users
      BY <1>0, <1>2, Counting
      DEF Begin, StartCreateGroup, StartAddClient, StartOffboard, StartSync, StartRemove,
          StartRemoveGroup, RestOK
    <2>2. \E t \in Tasks : Goes(s, t)
      <3>1. ASSUME NEW u \in Users, StartCreateGroup(s, u) PROVE \E t \in Tasks : Goes(s, t)
        BY <1>0, <3>1, QueryTypes, TaskTypes DEF StartCreateGroup
      <3>2. ASSUME NEW a \in Users, NEW u \in Users, NEW g \in Groups, StartAddClient(s, a, g, u)
            PROVE  \E t \in Tasks : Goes(s, t)
        BY <3>2, QueryTypes, TaskTypes DEF StartAddClient
      <3>3. ASSUME NEW u \in Users, StartOffboard(s, u) PROVE \E t \in Tasks : Goes(s, t)
        BY <1>0, <3>3, QueryTypes, TaskTypes DEF StartOffboard
      <3>4. ASSUME NEW a \in Users, NEW g \in Groups, StartSync(s, a, g)
            PROVE  \E t \in Tasks : Goes(s, t)
        BY <3>4, TaskTypes DEF StartSync
      <3>5. ASSUME NEW a \in Users, NEW u \in Users, NEW g \in Groups, StartRemove(s, a, g, u)
            PROVE  \E t \in Tasks : Goes(s, t)
        BY <3>5, TaskTypes DEF StartRemove
      <3>6. ASSUME NEW a \in Users, NEW g \in Groups, StartRemoveGroup(s, a, g)
            PROVE  \E t \in Tasks : Goes(s, t)
        BY <3>6, TaskTypes DEF StartRemoveGroup
      <3> QED BY <1>2, <3>1, <3>2, <3>3, <3>4, <3>5, <3>6 DEF Begin
    <2>3. tasks' \in [Slots -> Tasks]
      BY <1>0, <2>2, TasksStep
    <2> QED BY <1>0, <2>1, <2>3 DEF RestOK
  <1>3. ASSUME NEW s \in Slots, TelegramStep(s) PROVE RestOK'
    <2>0. tasks[s] \in Tasks
      BY <1>0
    <2>1. ASSUME NEW g \in Groups, NEW us \in SUBSET Users,
                 CreateChat(s, g, us) \/ CreateChatHalfway(s, g, us)
          PROVE  RestOK'
      <3>1. ChatAppears(s, g, us)
        BY <2>1 DEF CreateChat, CreateChatHalfway
      <3>2. tasks[s].actor \in Users /\ tasks[s].roles \in RoleMaps
        BY <2>0, <3>1, TaskFields DEF ChatAppears, At
      <3>3. tasks' \in [Slots -> Tasks]
        BY <1>0, <1>1, <2>1, <3>2, TaskTypes, TasksStep DEF CreateChat, CreateChatHalfway
      <3>4. creators' \subseteq Users
        BY <1>0, <2>1 DEF CreateChat, CreateChatHalfway, RestOK
      <3> QED BY <1>0, <3>1, <3>2, <3>3, <3>4, UpdateTypes DEF ChatAppears, RestOK
    <2>2. CASE InviteDirectly(s) \/ InviteByLink(s)
      <3>1. tasks[s].group \in Groups /\ tasks[s].user \in Users
        BY <2>0, <2>2, TaskFields DEF InviteDirectly, InviteByLink, At
      <3>2. tasks' \in [Slots -> Tasks]
        BY <1>0, <2>2, <3>1, TaskTypes, TasksStep DEF InviteDirectly, InviteByLink
      <3> QED BY <1>0, <2>2, <3>1, <3>2, UpdateTypes DEF InviteDirectly, InviteByLink, RestOK
    <2>3. ASSUME NEW gs \in SUBSET Groups, BanEverywhere(s, gs) \/ BanInterrupted(s, gs)
          PROVE  RestOK'
      <3>1. Bans(s, gs)
        BY <2>3 DEF BanEverywhere, BanInterrupted
      <3>2. tasks[s].user \in Users
        BY <2>0, <3>1, TaskFields DEF Bans, At
      <3>3. tasks' \in [Slots -> Tasks]
        <4>1. [tasks[s] EXCEPT !.at = "banned"] \in Tasks
          BY <2>0, <3>1 DEF Bans, At, Tasks, Idle
        <4> QED BY <1>0, <1>1, <2>3, <4>1, TasksStep DEF BanEverywhere, BanInterrupted
      <3>4. updates' \subseteq Updates
        BY <1>0, <3>1, <3>2, UpdateTypes DEF Bans, RestOK
      <3> QED BY <1>0, <3>1, <3>3, <3>4 DEF Bans, RestOK
    <2>4. CASE Scan(s)
      <3>1. tasks[s].group \in Groups
        BY <2>0, <2>4, TaskFields DEF Scan, At
      <3>2. chat[tasks[s].group] \in SUBSET Users
        BY <1>0, <3>1 DEF RestOK
      <3>3. tasks' \in [Slots -> Tasks]
        BY <1>0, <2>4, <3>1, <3>2, TaskTypes, TasksStep DEF Scan
      <3> QED BY <1>0, <2>4, <3>3 DEF Scan, RestOK
    <2>5. ASSUME NEW us \in SUBSET Users, Kick(s, us) PROVE RestOK'
      <3>1. tasks[s].group \in Groups /\ tasks[s].user \in Users
        BY <2>0, <2>5, TaskFields DEF Kick, At
      <3>2. [tasks[s] EXCEPT !.at = "removed"] \in Tasks
        BY <2>0, <2>5 DEF Kick, At, Tasks, Idle
      <3>3. tasks' \in [Slots -> Tasks]
        BY <1>0, <2>5, <3>2, TasksStep DEF Kick
      <3>4. updates' \subseteq Updates
        BY <1>0, <2>5, <3>1, UpdateTypes DEF Kick, ChatLoses, RestOK
      <3> QED BY <1>0, <2>5, <3>3, <3>4 DEF Kick, ChatLoses, RestOK
    <2>6. CASE TelegramFails(s) \/ EndCreateGroup(s)
      BY <1>0, <1>1, <2>6, TasksStep DEF TelegramFails, EndCreateGroup, RestOK
    <2>7. CASE DeleteChat(s)
      <3>1. tasks[s].group \in Groups /\ tasks[s].user \in Users
        BY <2>0, <2>7, TaskFields DEF DeleteChat, At
      <3>2. [tasks[s] EXCEPT !.at = "deleted"] \in Tasks
        BY <2>0, <2>7 DEF DeleteChat, At, Tasks, Idle
      <3>3. tasks' \in [Slots -> Tasks]
        BY <1>0, <2>7, <3>2, TasksStep DEF DeleteChat
      <3> QED BY <1>0, <2>7, <3>1, <3>3, UpdateTypes DEF DeleteChat, RestOK
    <2> QED BY <1>3, <2>1, <2>2, <2>3, <2>4, <2>5, <2>6, <2>7 DEF TelegramStep
  <1>4. ASSUME NEW s \in Slots, DatabaseStep(s) PROVE RestOK'
    <2>1. /\ UNCHANGED <<chat, bot, updates, begun>>
          /\ creators' \subseteq Users /\ synced' \subseteq Groups
      <3>1. At(s, "scanned") \/ At(s, "read") => tasks[s].group \in Groups
        BY <1>0, TaskFields DEF At
      <3> QED
        BY <1>0, <1>4, <3>1
        DEF RestOK, Goes, DatabaseStep, FinishCreateGroup, FinishAddClient, FinishOffboard, ReadMembers,
          WriteSync, TransactionFails, WriteSyncOfNewGroup, FinishRemove, FinishRemoveGroup
    <2>2. CASE ReadMembers(s)
      <3>1. tasks[s].group \in Groups /\ tasks[s].present \in SUBSET Users
        BY <1>0, <2>2, TaskFields DEF ReadMembers, At
      <3>2. tasks' \in [Slots -> Tasks]
        BY <1>0, <2>2, <3>1, QueryTypes, TaskTypes, TasksStep DEF ReadMembers
      <3> QED BY <1>0, <2>1, <3>2 DEF RestOK
    <2>3. CASE Goes(s, Idle)
      BY <1>0, <1>1, <2>1, <2>3, TasksStep DEF RestOK
    <2>4. ASSUME NEW kept \in SUBSET Users, FinishCreateGroup(s, kept) PROVE RestOK'
      <3>1. tasks[s].actor \in Users
        BY <1>0, <2>4, TaskFields DEF FinishCreateGroup, At
      <3>2. tasks' \in [Slots -> Tasks]
        BY <1>0, <1>1, <2>4, <3>1, TaskTypes, TasksStep DEF FinishCreateGroup
      <3> QED BY <1>0, <2>1, <3>2 DEF RestOK
    <2> QED
      BY <1>4, <2>2, <2>3, <2>4
      DEF DatabaseStep, FinishAddClient, FinishOffboard, WriteSync, TransactionFails,
          WriteSyncOfNewGroup, FinishRemove, FinishRemoveGroup
  <1>5. CASE OneTransaction
    <2>1. UNCHANGED <<chat, bot, updates, tasks, creators, synced>> /\ MayBegin
      BY <1>5 DEF OneTransaction, OpenApp, SetRole, TagMember
    <2> QED BY <1>0, <2>1, Counting DEF RestOK
  <1>6. CASE Outside
    BY <1>0, <1>6, Counting, UpdateTypes
    DEF Outside, Joins, Leaves, BotKicked, BotInvited, ChatLoses, RestOK
  <1>7. CASE Deliver
    BY <1>0, <1>7
    DEF Deliver, OnMemberJoined, OnMemberLeft, OnBotAdded, IgnoreBotAdded, OnBotRemoved, Handled,
        RestOK
  <1>8. CASE UNCHANGED vars
    BY <1>0, <1>8 DEF vars, RestOK
  <1> QED BY <1>2, <1>3, <1>4, <1>5, <1>6, <1>7, <1>8 DEF Next

-----------------------------------------------------------------------------
(* The database of fully staffed groups is sound.                          *)
LEMMA InvInit == Init => Inv
  <1> SUFFICES ASSUME Init PROVE Inv
    OBVIOUS
  <1> DEFINE rows == UNION {NewRows(g, FirstStaff, FirstRoles) : g \in OldGroups}
  <1>0. db = [users |-> FirstRoles, groups |-> OldGroups, members |-> rows]
    BY DEF Init
  <1>1. SoundRows(rows)
    <2>1. \A m \in rows : /\ m \in MemberRows /\ ~m.pending
                          /\ m = Row(m.group, m.user, FirstRoles[m.user], FALSE)
      <3>1. SUFFICES ASSUME NEW g \in OldGroups, NEW m \in NewRows(g, FirstStaff, FirstRoles)
                     PROVE  /\ m \in MemberRows /\ ~m.pending
                            /\ m = Row(m.group, m.user, FirstRoles[m.user], FALSE)
        <4>1. \A m \in rows : \E g \in OldGroups : m \in NewRows(g, FirstStaff, FirstRoles)
          OBVIOUS
        <4> HIDE DEF rows
        <4> QED BY <3>1, <4>1
      <3>2. PICK u \in FirstStaff : m = Row(g, u, FirstRoles[u], FALSE)
        BY DEF NewRows
      <3>3. g \in Groups /\ u \in Users /\ FirstRoles[u] \in Tags
        BY MembershipAssumption DEF FirstStaff, Tags, OfficialTags
      <3> HIDE DEF rows
      <3> QED BY <3>2, <3>3 DEF Row, MemberRows
    <2> HIDE DEF rows
    <2> QED BY <2>1 DEF SoundRows
  <1>2. Sound(db)
    <2> HIDE DEF rows
    <2> QED BY <1>0, <1>1, SoundIsSoundRows, MembershipAssumption
  <1>3. RestOK
    <2>1. chat \in [Groups -> SUBSET Users] /\ bot \in [Groups -> {"unborn", "live", "gone"}]
      BY DEF Init, FirstStaff
    <2>2. tasks \in [Slots -> Tasks]
      BY TaskTypes DEF Init
    <2>3. /\ updates \subseteq Updates /\ creators \subseteq Users
          /\ begun \in 0 .. MaxOps /\ synced \subseteq Groups
      BY MembershipAssumption DEF Init
    <2> QED BY <2>1, <2>2, <2>3 DEF RestOK
  <1> QED BY <1>2, <1>3 DEF Inv

(* The invariant, from the two halves of the step.                         *)
LEMMA Invariant == Spec => []Inv
  <1>1. Inv /\ [Next]_vars => Inv'
    <2>1. Inv /\ [Next]_vars => Sound(db')
      BY SoundStep
    <2>2. Inv /\ [Next]_vars => RestOK'
      BY RestStep
    <2> QED BY <2>1, <2>2 DEF Inv
  <1> QED BY InvInit, <1>1, PTL DEF Spec

(* Every variable keeps its type, whatever crosses.                        *)
THEOREM TypeCorrect == Spec => []TypeOK
  <1>1. Inv => TypeOK
    BY DEF Inv, RestOK, Sound, TypeOK
  <1> QED BY Invariant, <1>1, PTL

(* No interleaving ever leaves a row pending that is not a client's, so    *)
(* clear_pending finds at most one row.                                    *)
THEOREM PendingOnlyClients == Spec => []PendingAreClients
  <1>1. Inv => PendingAreClients
    BY DEF Inv, Sound, PendingAreClients
  <1> QED BY Invariant, <1>1, PTL

(* A change of role is never refused, and shows the one new role wherever  *)
(* there was one.                                                          *)
LEMMA RoleChanged ==
  ASSUME NEW old, Sound(old), NEW u \in Users, NEW r \in Roles
  PROVE  LET new == SyncRoleToGroupTags(old, SetUserRole(GetOrCreateUsers(old, {u}), u, r), u, r)
         IN  /\ new.users[u] = r
             /\ \A g : TagsOf(new, g, u) \cap Roles =
                    IF TagsOf(old, g, u) \cap Roles = {} THEN {} ELSE {r}
  <1> DEFINE known == GetOrCreateUsers(old, {u})
             set == SetUserRole(known, u, r)
             new == SyncRoleToGroupTags(old, set, u, r)
  <1>1. Sound(known) /\ known.members = old.members
    BY GetOrCreateUsersSound, GetOrCreateUsersColumns
  <1>2. known.users[u] # NoUser
    <2>1. known.users = [v \in Users |->
              IF v \in {u} /\ old.users[v] = NoUser THEN NoRole ELSE old.users[v]]
      BY GetOrCreateUsersColumns
    <2> HIDE DEF known
    <2> QED BY <2>1, RoleAssumption
  <1> HIDE DEF known
  <1>3. Sound(set) /\ set.members = old.members /\ set.users[u] = r
    BY <1>1, <1>2, SetUserRoleSound, SetUserRoleColumns
  <1> HIDE DEF set
  <1>4. /\ new.users = set.users
        /\ \A m \in new.members : m.user = u /\ m.tag \in Roles =>
               m.tag = r /\ (m \in set.members \/ ~m.pending)
        /\ RoleShown(set.members, new.members, u, r)
    BY <1>3, SyncRoleToGroupTagsColumns
  <1> HIDE DEF new
  <1>5. ASSUME NEW g
        PROVE  TagsOf(new, g, u) \cap Roles = IF TagsOf(old, g, u) \cap Roles = {} THEN {} ELSE {r}
    <2>1. CASE TagsOf(old, g, u) \cap Roles = {}
      BY <1>3, <1>4, <2>1 DEF RoleShown, TagsOf, RowsOf
    <2>2. CASE TagsOf(old, g, u) \cap Roles # {}
      <3>1. PICK m \in old.members : m.group = g /\ m.user = u /\ m.tag \in Roles
        BY <2>2 DEF TagsOf, RowsOf
      <3>2. PICK n \in new.members : n.group = g /\ n.user = u /\ n.tag = r
        BY <1>3, <1>4, <3>1 DEF RoleShown
      <3> QED BY <1>4, <2>2, <3>2 DEF TagsOf, RowsOf
    <2> QED BY <2>1, <2>2
  <1>6. new.users[u] = r
    BY <1>3, <1>4
  <1> QED BY <1>5, <1>6 DEF new, set, known

(* Whatever tags a person has collected, by whatever crossings, a change   *)
(* of role goes through and replaces them by the one new role.             *)
THEOREM RoleChangesComplete == Spec => RoleChangeIsComplete
  <1>1. Inv /\ [Next]_vars =>
        [\A u \in Users, r \in Roles :
            SetRole(u, r) =>
                /\ db'.users[u] = r
                /\ \A g \in Groups :
                        TagsOf(db', g, u) \cap Roles =
                            IF TagsOf(db, g, u) \cap Roles = {} THEN {} ELSE {r}]_vars
    BY RoleChanged DEF Inv, SetRole
  <1> QED BY Invariant, <1>1, PTL DEF Spec, RoleChangeIsComplete

-----------------------------------------------------------------------------
(* StaffRowSurvives and CustomTagsGoWithMembership, write by write.        *)

(* Tagging a team only adds rows.                                          *)
LEMMA TeamTaggedKeeps ==
  ASSUME NEW base, Sound(base), NEW g, NEW roles, NEW kept
  PROVE  LET new == TeamTagged(base, g, roles, kept)
         IN  new.users = base.users /\ AllCustomTags(base, new)
  <1> DEFINE created == CreateGroupRecord(base, g)
  <1>1. created.users = base.users /\ created.members = base.members
    BY CreateGroupRecordKeeps
  <1>2. created = [users |-> created.users, groups |-> created.groups, members |-> created.members]
    BY SoundIsSoundRows DEF CreateGroupRecord
  <1>3. base = [users |-> base.users, groups |-> base.groups, members |-> base.members]
    BY SoundIsSoundRows
  <1> HIDE DEF created
  <1> QED BY <1>1, <1>2, <1>3 DEF TeamTagged, AllCustomTags, created

(* Adding a client changes no role and drops no custom tag.                *)
LEMMA ClientAddedKeeps ==
  ASSUME NEW base, Sound(base), NEW g, NEW u, NEW link \in BOOLEAN
  PROVE  LET new == ClientAdded(base, g, u, link)
         IN  KeepsStaff(base, new) /\ AllCustomTags(base, new)
  <1> DEFINE known == GetOrCreateUsers(base, {u})
             new == AddMemberTag(base, known, g, u, Client, link)
  <1>1. Sound(known) /\ KeepsStaff(base, known) /\ known.members = base.members
    BY GetOrCreateUsersSound, GetOrCreateUsersKeeps
  <1> HIDE DEF known
  <1>2. new.users \in {base.users, known.users} /\ AllCustomTags(known, new)
    BY <1>1, AddMemberTagKeeps
  <1> HIDE DEF new
  <1>3. KeepsStaff(base, new) /\ AllCustomTags(base, new)
    BY <1>1, <1>2 DEF KeepsStaff, AllCustomTags
  <1> QED BY <1>3 DEF ClientAdded, new, known

(* A role is lost only by users whose role was taken to be NULL.           *)
OnlyRolelessEnd(old, new, roles) ==
    \A u \in Users : old.users[u] \in Roles /\ new.users[u] \notin Roles => roles[u] = NoRole

(* A sync ends a user row only if it took the role to be NULL.             *)
LEMMA SyncedKeeps ==
  ASSUME NEW base, Sound(base), NEW g \in Groups, NEW present \in SUBSET Users,
         NEW current, NEW roles
  PROVE  /\ CustomTagsOrNothing(base, Synced(base, g, present, current, roles))
         /\ OnlyRolelessEnd(base, Synced(base, g, present, current, roles), roles)
  <1> DEFINE known == {u \in current : roles[u] # NoUser}
             created == GetOrCreateUsers(base, present \ known)
             roleOf == [u \in Users |-> IF u \in known THEN roles[u] ELSE created.users[u]]
             tag == [u \in present |-> IF roleOf[u] \in Roles THEN roleOf[u] ELSE Client]
             tagged == SetMemberTags(created, g, present, tag)
             new == RemoveMembers(tagged, g, current \ present, roleOf)
  <1>1. Sound(created) /\ KeepsStaff(base, created) /\ created.members = base.members
    BY GetOrCreateUsersSound, GetOrCreateUsersKeeps
  <1>2. \A u \in Users : created.users[u] \in Roles /\ roleOf[u] = NoRole => roles[u] = NoRole
    BY RoleAssumption
  <1>3. \A u \in present : tag[u] \in OfficialTags
    BY DEF OfficialTags
  <1> HIDE DEF created, roleOf, tag
  <1>4. Sound(tagged) /\ tagged.users = created.users /\ AllCustomTags(created, tagged)
    BY <1>1, <1>3, SetMemberTagsSound, SetMemberTagsKeeps
  <1> HIDE DEF tagged
  <1>5. /\ CustomTagsOrNothing(tagged, new)
        /\ \A u \in Users : roleOf[u] # NoRole => new.users[u] = tagged.users[u]
    BY <1>4, RemoveMembersKeeps
  <1> HIDE DEF new
  <1>6. CustomTagsOrNothing(base, new)
    BY <1>1, <1>4, <1>5 DEF CustomTagsOrNothing, AllCustomTags
  <1>7. OnlyRolelessEnd(base, new, roles)
    BY <1>1, <1>2, <1>4, <1>5 DEF KeepsStaff, OnlyRolelessEnd
  <1> QED BY <1>6, <1>7 DEF Synced, new, tagged, tag, roleOf, created

(* What the two properties say of one step.                                *)
StaffEndsProperly ==
    \A u \in Users :
        db.users[u] \in Roles /\ db'.users[u] \notin Roles =>
            \E s \in Slots :
                \/ At(s, "banned") /\ tasks[s].user = u
                \/ At(s, "read") /\ tasks[s].roles[u] = NoRole

Careful == StaffEndsProperly /\ CustomTagsOrNothing(db, db')

(* Every step is careful.                                                  *)
LEMMA CarefulStep == ASSUME Inv, [Next]_vars PROVE Careful
  <1> USE DEF Careful
  <1>0. Sound(db) /\ \A s \in Slots : tasks[s] \in Tasks
    BY DEF Inv, RestOK
  <1>1. ASSUME KeepsStaff(db, db') PROVE StaffEndsProperly
    BY <1>1 DEF KeepsStaff, StaffEndsProperly
  <1>2. ASSUME db'.users = db.users PROVE StaffEndsProperly
    BY <1>2 DEF StaffEndsProperly
  <1>3. ASSUME AllCustomTags(db, db') PROVE CustomTagsOrNothing(db, db')
    BY <1>3, AllImpliesOrNothing
  <1>4. ASSUME UNCHANGED db PROVE Careful
    BY <1>4 DEF StaffEndsProperly, CustomTagsOrNothing
  <1>5. ASSUME NEW us, NEW g, db' = RemoveMembers(db, g, us, db.users) PROVE Careful
    BY <1>0, <1>5, RemoveMembersKeeps, RoleAssumption DEF StaffEndsProperly
  <1>6. ASSUME NEW g, db' = DeleteGroup(db, g) PROVE Careful
    BY <1>0, <1>2, <1>6, DeleteGroupKeeps
  <1>7. ASSUME NEW s \in Slots, DatabaseStep(s) PROVE Careful
    <2>1. ASSUME NEW kept \in SUBSET Users, FinishCreateGroup(s, kept) PROVE Careful
      BY <1>0, <1>2, <1>3, <2>1, TeamTaggedKeeps DEF FinishCreateGroup
    <2>2. CASE FinishAddClient(s)
      <3>1. tasks[s].link \in BOOLEAN
        BY <1>0, <2>2, TaskFields DEF FinishAddClient, At
      <3> QED BY <1>0, <1>1, <1>3, <2>2, <3>1, ClientAddedKeeps DEF FinishAddClient
    <2>3. CASE FinishOffboard(s)
      <3>1. tasks[s].user \in Users
        BY <1>0, <2>3, TaskFields DEF FinishOffboard, At
      <3> QED BY <1>0, <2>3, <3>1, DeleteUserKeeps DEF FinishOffboard, StaffEndsProperly
    <2>4. CASE WriteSync(s)
      <3>1. tasks[s].group \in Groups /\ tasks[s].present \in SUBSET Users
        BY <1>0, <2>4, TaskFields DEF WriteSync, At
      <3> DEFINE new == Synced(db, tasks[s].group, tasks[s].present, tasks[s].current,
                               tasks[s].roles)
      <3>2. db' = new /\ At(s, "read")
        BY <2>4 DEF WriteSync
      <3>3. /\ CustomTagsOrNothing(db, new)
            /\ OnlyRolelessEnd(db, new, tasks[s].roles)
        BY <1>0, <3>1, SyncedKeeps
      <3> HIDE DEF new
      <3> QED BY <3>2, <3>3 DEF StaffEndsProperly, OnlyRolelessEnd
    <2>5. CASE WriteSyncOfNewGroup(s)
      <3> DEFINE base == CreateGroupRecord(db, tasks[s].group)
                 new == Synced(base, tasks[s].group, tasks[s].present,
                               MembersOf(db, tasks[s].group), db.users)
      <3>1. tasks[s].group \in Groups /\ tasks[s].present \in SUBSET Users
        BY <1>0, <2>5, TaskFields DEF WriteSyncOfNewGroup, At
      <3>2. Sound(base) /\ base.users = db.users /\ base.members = db.members
        BY <1>0, <3>1, CreateGroupRecordSound, CreateGroupRecordKeeps
      <3>3. db' = new
        BY <2>5 DEF WriteSyncOfNewGroup
      <3> HIDE DEF base
      <3>4. CustomTagsOrNothing(base, new) /\ OnlyRolelessEnd(base, new, db.users)
        BY <3>1, <3>2, SyncedKeeps
      <3> HIDE DEF new
      <3> QED
        BY <3>2, <3>3, <3>4, RoleAssumption
        DEF StaffEndsProperly, OnlyRolelessEnd, CustomTagsOrNothing
    <2>6. CASE FinishRemove(s)
      BY <1>5, <2>6 DEF FinishRemove
    <2>7. CASE ReadMembers(s) \/ TransactionFails(s)
      BY <1>4, <2>7 DEF ReadMembers, TransactionFails
    <2>8. CASE FinishRemoveGroup(s)
      BY <1>6, <2>8 DEF FinishRemoveGroup
    <2> QED BY <1>7, <2>1, <2>2, <2>3, <2>4, <2>5, <2>6, <2>7, <2>8 DEF DatabaseStep
  <1>8. ASSUME NEW s \in Slots, Begin(s) \/ TelegramStep(s) PROVE Careful
    BY <1>4, <1>8
    DEF Begin, StartCreateGroup, StartAddClient, StartOffboard, StartSync, StartRemove,
        StartRemoveGroup, TelegramStep, ChatAppears, CreateChat, CreateChatHalfway,
        InviteDirectly, InviteByLink, Bans,
        BanEverywhere, BanInterrupted, Scan, Kick, DeleteChat, EndCreateGroup, TelegramFails
  <1>9. CASE OneTransaction
    <2>1. ASSUME NEW u \in Users, OpenApp(u) PROVE Careful
      <3>1. AllCustomTags(db, db')
        BY <1>0, <2>1, GetOrCreateUsersKeeps DEF OpenApp, AllCustomTags
      <3> QED BY <1>0, <1>1, <1>3, <2>1, <3>1, GetOrCreateUsersKeeps DEF OpenApp
    <2>2. ASSUME NEW u \in Users, NEW r \in Roles, SetRole(u, r) PROVE Careful
      <3> DEFINE known == GetOrCreateUsers(db, {u})
      <3>1. Sound(known) /\ KeepsStaff(db, known) /\ known.members = db.members
        BY <1>0, GetOrCreateUsersSound, GetOrCreateUsersKeeps
      <3>2. db' = SyncRoleToGroupTags(db, SetUserRole(known, u, r), u, r)
        BY <2>2 DEF SetRole
      <3> HIDE DEF known
      <3>3. KeepsStaff(known, db') /\ AllCustomTags(known, db')
        BY <3>1, <3>2, SetRoleKeeps
      <3>4. KeepsStaff(db, db') /\ AllCustomTags(db, db')
        BY <3>1, <3>3 DEF KeepsStaff, AllCustomTags
      <3> QED BY <1>1, <1>3, <3>4
    <2>3. ASSUME NEW a \in Users, NEW u \in Users, NEW g \in Groups, NEW t \in ManualTags,
                 TagMember(a, g, u, t)
          PROVE  Careful
      <3> DEFINE new == AddMemberTag(db, db, g, u, t, FALSE)
      <3>1. new.users \in {db.users, db.users} /\ AllCustomTags(db, new)
        BY <1>0, AddMemberTagKeeps
      <3>2. db' = new
        BY <2>3 DEF TagMember
      <3> HIDE DEF new
      <3> QED BY <1>2, <1>3, <3>1, <3>2
    <2> QED BY <1>9, <2>1, <2>2, <2>3 DEF OneTransaction
  <1>10. CASE Outside
    BY <1>4, <1>10 DEF Outside, Joins, Leaves, BotKicked, BotInvited
  <1>11. CASE Deliver
    <2>1. ASSUME NEW up \in updates, OnMemberJoined(up) PROVE Careful
      BY <1>0, <1>2, <1>3, <2>1, ClearPendingKeeps DEF OnMemberJoined
    <2>2. ASSUME NEW up \in updates, OnMemberLeft(up) PROVE Careful
      BY <1>5, <2>2 DEF OnMemberLeft
    <2>3. ASSUME NEW up \in updates, OnBotAdded(up) PROVE Careful
      <3>1. db'.users = db.users /\ AllCustomTags(db, db')
        BY <1>0, <2>3, CreateGroupRecordKeeps DEF OnBotAdded, AllCustomTags
      <3> QED BY <1>2, <1>3, <3>1
    <2>4. ASSUME NEW up \in updates, IgnoreBotAdded(up) PROVE Careful
      BY <1>4, <2>4 DEF IgnoreBotAdded
    <2>5. ASSUME NEW up \in updates, OnBotRemoved(up) PROVE Careful
      BY <1>6, <2>5 DEF OnBotRemoved
    <2> QED BY <1>11, <2>1, <2>2, <2>3, <2>4, <2>5 DEF Deliver
  <1>12. CASE UNCHANGED vars
    BY <1>4, <1>12 DEF vars
  <1> QED BY <1>7, <1>8, <1>9, <1>10, <1>11, <1>12 DEF Next

(* Only an offboarding, or a sync that loaded the person before he had a   *)
(* role, ever ends the user row of staff.                                  *)
THEOREM StaffRowsSurvive == Spec => StaffRowSurvives
  <1>1. Inv /\ [Next]_vars =>
        [\A u \in Users :
            db.users[u] \in Roles /\ db'.users[u] \notin Roles =>
                \E s \in Slots :
                    \/ At(s, "banned") /\ tasks[s].user = u
                    \/ At(s, "read") /\ tasks[s].roles[u] = NoRole]_vars
    BY CarefulStep DEF Careful, StaffEndsProperly
  <1> QED BY Invariant, <1>1, PTL DEF Spec, StaffRowSurvives

(* No operation drops a custom tag of someone who stays in the group.      *)
THEOREM CustomTagsKept == Spec => CustomTagsGoWithMembership
  <1>1. Inv /\ [Next]_vars =>
        [\A m \in db.members :
            m.tag \in CustomTags /\ m \notin db'.members => RowsOf(db', m.group, m.user) = {}]_vars
    BY CarefulStep DEF Careful, CustomTagsOrNothing
  <1> QED BY Invariant, <1>1, PTL DEF Spec, CustomTagsGoWithMembership

-----------------------------------------------------------------------------
(* Column by column, what the composed writes return.                      *)

(* Tagging the team: at most the record and rows of the team are new.  In  *)
(* a group without rows no tag is there to roll the transaction back.      *)
LEMMA TeamTaggedColumns ==
  ASSUME NEW base, Sound(base), NEW g, NEW roles, NEW kept, kept \subseteq TeamOf(roles)
  PROVE  LET new == TeamTagged(base, g, roles, kept) IN
         /\ new.users = base.users
         /\ base.groups \subseteq new.groups
         /\ new.groups \subseteq base.groups \cup {g}
         /\ RecordRolledBack(base, g, roles) => new.groups = base.groups
         /\ new.members # base.members =>
                g \in new.groups \/ \E m \in base.members : m.group = g
         /\ base.members \subseteq new.members
         /\ \A m \in new.members \ base.members :
                m.group = g /\ m.user \in TeamOf(roles) /\ m.tag = roles[m.user] /\ ~m.pending
         /\ (\A m \in base.members : m.group # g) =>
                \A u \in TeamOf(roles) : \E m \in new.members :
                    m.group = g /\ m.user = u /\ m.tag = roles[u]
  <1> DEFINE team == TeamOf(roles)
             there == Tagged(base, g, roles)
             created == CreateGroupRecord(base, g)
             new == TeamTagged(base, g, roles, kept)
  <1>0. new = IF there = {}
              THEN [created EXCEPT !.members = @ \cup NewRows(g, team, roles)]
              ELSE [base EXCEPT !.members = @ \cup NewRows(g, kept \ there, roles)]
    BY Zenon DEF TeamTagged
  <1>1. /\ created = [users |-> base.users, groups |-> base.groups \cup {g}, members |-> base.members]
        /\ base = [users |-> base.users, groups |-> base.groups, members |-> base.members]
    BY SoundIsSoundRows DEF CreateGroupRecord
  <1>2. \A us : \A m \in NewRows(g, us, roles) :
            m.group = g /\ m.user \in us /\ m.tag = roles[m.user] /\ ~m.pending
    BY NewRowsAre
  <1>3. \A us : \A u \in us : \E m \in NewRows(g, us, roles) : m.user = u
    BY NewRowsAre
  <1>4. there # {} => \E m \in base.members : m.group = g
    BY DEF Tagged, TagsOf, RowsOf
  <1>5. CASE there = {}
    <2> HIDE DEF there, created, new, team
    <2>1. /\ new.users = base.users /\ new.groups = base.groups \cup {g}
          /\ new.members = base.members \cup NewRows(g, team, roles)
      BY <1>0, <1>1, <1>5
    <2>2. ~RecordRolledBack(base, g, roles)
      BY <1>5 DEF RecordRolledBack, there
    <2> QED BY <1>2, <1>3, <2>1, <2>2 DEF new, team
  <1>6. CASE there # {}
    <2>1. kept \ there \subseteq team
      OBVIOUS
    <2> HIDE DEF there, created, new, team
    <2>2. /\ new.users = base.users /\ new.groups = base.groups
          /\ new.members = base.members \cup NewRows(g, kept \ there, roles)
      BY <1>0, <1>1, <1>6
    <2> QED BY <1>2, <1>4, <1>6, <2>1, <2>2 DEF new, team
  <1> QED BY <1>5, <1>6

(* Adding a client: his row, and a user row if he had none.                *)
LEMMA ClientAddedColumns ==
  ASSUME NEW base, Sound(base), NEW g, NEW u \in Users, NEW link
  PROVE  LET new == ClientAdded(base, g, u, link) IN
         /\ \A v \in Users : new.users[v] # base.users[v] =>
                v = u /\ base.users[v] = NoUser /\ new.users[v] = NoRole
         /\ new.users[u] # NoUser \/ Client \in TagsOf(base, g, u)
         /\ new.groups = base.groups
         /\ new.members = {m \in base.members : ~(m.group = g /\ m.user = u /\ m.tag = Client)}
                              \cup {Row(g, u, Client, link)}
  <1> DEFINE known == GetOrCreateUsers(base, {u})
             new == AddMemberTag(base, known, g, u, Client, link)
  <1>1. /\ known.users = [v \in Users |-> IF v \in {u} /\ base.users[v] = NoUser THEN NoRole
                                          ELSE base.users[v]]
        /\ known.groups = base.groups /\ known.members = base.members
    BY GetOrCreateUsersColumns
  <1>2. Sound(known)
    BY GetOrCreateUsersSound
  <1> HIDE DEF known
  <1>3. /\ new.users = IF Client \in TagsOf(known, g, u) THEN base.users ELSE known.users
        /\ new.groups = known.groups
        /\ new.members = {m \in known.members : ~(m.group = g /\ m.user = u /\ m.tag = Client)}
                             \cup {Row(g, u, Client, link)}
    BY <1>1, <1>2, AddMemberTagColumns
  <1>4. TagsOf(known, g, u) = TagsOf(base, g, u)
    BY <1>1 DEF TagsOf, RowsOf
  <1> HIDE DEF new
  <1>5. /\ \A v \in Users : new.users[v] # base.users[v] =>
               v = u /\ base.users[v] = NoUser /\ new.users[v] = NoRole
        /\ new.users[u] # NoUser \/ Client \in TagsOf(base, g, u)
    BY <1>1, <1>3, <1>4, RoleAssumption
  <1> QED BY <1>1, <1>3, <1>5 DEF ClientAdded, new, known

(* The role by which a sync tags somebody present.                         *)
RoleInSync(base, current, roles, u) ==
    IF u \in current /\ roles[u] # NoUser THEN roles[u]
    ELSE IF base.users[u] = NoUser THEN NoRole
    ELSE base.users[u]

TagInSync(base, current, roles, u) ==
    IF RoleInSync(base, current, roles, u) \in Roles THEN RoleInSync(base, current, roles, u) ELSE Client

(* What a sync returns: those present get their one official row and,      *)
(* unless they were loaded, a user row; those loaded and not present lose  *)
(* their rows, and without a role and another membership their user row.   *)
SyncReturns(base, g, present, current, roles, new) ==
    /\ \A u \in present : new.users[u] =
           IF ~(u \in current /\ roles[u] # NoUser) /\ base.users[u] = NoUser
           THEN NoRole ELSE base.users[u]
    /\ \A u \in Users \ present : new.users[u] # base.users[u] =>
           /\ u \in current /\ new.users[u] = NoUser
           /\ roles[u] \in {NoRole, NoUser}
           /\ roles[u] = NoUser => base.users[u] = NoRole
           /\ \A m \in new.members : m.user # u
    /\ new.groups = base.groups
    /\ \A m \in base.members :
           (m.group = g => /\ m.user \in present => m.tag \notin OfficialTags
                           /\ m.user \notin current \ present)
           => m \in new.members
    /\ \A m \in new.members :
           \/ /\ m \in base.members
              /\ m.group = g => /\ m.user \in present => m.tag \notin OfficialTags
                                /\ m.user \notin current \ present
           \/ /\ m.group = g /\ m.user \in present /\ ~m.pending
              /\ m.tag = TagInSync(base, current, roles, m.user)
    /\ \A u \in present : \E m \in new.members :
           m.group = g /\ m.user = u /\ m.tag = TagInSync(base, current, roles, u)

(* A sync returns that, whatever its copies of members and roles are.      *)
LEMMA SyncedColumns ==
  ASSUME NEW base, Sound(base), NEW g \in Groups, NEW present \in SUBSET Users,
         NEW current, NEW roles
  PROVE  SyncReturns(base, g, present, current, roles, Synced(base, g, present, current, roles))
  <1> DEFINE known == {u \in current : roles[u] # NoUser}
             created == GetOrCreateUsers(base, present \ known)
             roleOf == [u \in Users |-> IF u \in known THEN roles[u] ELSE created.users[u]]
             tag == [u \in present |-> IF roleOf[u] \in Roles THEN roleOf[u] ELSE Client]
             tagged == SetMemberTags(created, g, present, tag)
             new == RemoveMembers(tagged, g, current \ present, roleOf)
  <1>1. /\ created.users = [u \in Users |->
               IF u \in present \ known /\ base.users[u] = NoUser THEN NoRole ELSE base.users[u]]
        /\ created.groups = base.groups /\ created.members = base.members
        /\ Sound(created)
    BY GetOrCreateUsersColumns, GetOrCreateUsersSound
  <1> HIDE DEF created
  <1>2. \A u \in present : tag[u] = TagInSync(base, current, roles, u) /\ tag[u] \in OfficialTags
    BY <1>1 DEF TagInSync, RoleInSync, OfficialTags
  <1>3. \A u \in Users \ present : roleOf[u] = NoRole =>
            roles[u] = NoRole \/ u \notin current \/ (roles[u] = NoUser /\ base.users[u] = NoRole)
    BY <1>1, RoleAssumption
  <1> HIDE DEF roleOf, tag
  <1>4. /\ tagged.users = created.users /\ tagged.groups = created.groups
        /\ tagged.members = {m \in created.members :
                                ~(m.group = g /\ m.user \in present /\ m.tag \in OfficialTags)}
                                \cup NewRows(g, present, tag)
        /\ Sound(tagged)
    BY <1>1, <1>2, SetMemberTagsColumns, SetMemberTagsSound
  <1> HIDE DEF tagged
  <1>5. /\ \A u \in Users : new.users[u] # tagged.users[u] =>
               /\ u \in current \ present /\ roleOf[u] = NoRole /\ new.users[u] = NoUser
               /\ \A m \in new.members : m.user # u
        /\ new.groups = tagged.groups
        /\ new.members = {m \in tagged.members : ~(m.group = g /\ m.user \in current \ present)}
    BY <1>4, RemoveMembersColumns
  <1> HIDE DEF new
  <1>6. \A u \in present : new.users[u] =
            IF ~(u \in current /\ roles[u] # NoUser) /\ base.users[u] = NoUser
            THEN NoRole ELSE base.users[u]
    <2>1. SUFFICES ASSUME NEW u \in present
                   PROVE  new.users[u] = IF ~(u \in current /\ roles[u] # NoUser) /\ base.users[u] = NoUser
                                         THEN NoRole ELSE base.users[u]
      OBVIOUS
    <2>2. u \in Users /\ new.users[u] = created.users[u]
      BY <1>4, <1>5
    <2> QED BY <1>1, <2>2
  <1>7. \A u \in Users \ present : new.users[u] # base.users[u] =>
            /\ u \in current /\ new.users[u] = NoUser
            /\ roles[u] \in {NoRole, NoUser}
            /\ roles[u] = NoUser => base.users[u] = NoRole
            /\ \A m \in new.members : m.user # u
    BY <1>1, <1>3, <1>4, <1>5, RoleAssumption
  <1>8. /\ \A m \in NewRows(g, present, tag) : /\ m.group = g /\ m.user \in present /\ ~m.pending
                                               /\ m.tag = TagInSync(base, current, roles, m.user)
        /\ \A u \in present : \E m \in NewRows(g, present, tag) : m.user = u
    BY <1>2, NewRowsAre
  <1>9. /\ \A m \in base.members :
               (m.group = g => /\ m.user \in present => m.tag \notin OfficialTags
                               /\ m.user \notin current \ present)
               => m \in new.members
        /\ \A m \in new.members :
               \/ /\ m \in base.members
                  /\ m.group = g => /\ m.user \in present => m.tag \notin OfficialTags
                                    /\ m.user \notin current \ present
               \/ /\ m.group = g /\ m.user \in present /\ ~m.pending
                  /\ m.tag = TagInSync(base, current, roles, m.user)
    BY <1>1, <1>4, <1>5, <1>8
  <1>10. \A u \in present : \E m \in new.members :
             m.group = g /\ m.user = u /\ m.tag = TagInSync(base, current, roles, u)
    <2>1. \A m \in NewRows(g, present, tag) : m \in new.members
      BY <1>4, <1>5, <1>8
    <2> QED BY <1>8, <2>1
  <1>11. new.groups = base.groups
    BY <1>1, <1>4, <1>5
  <1>12. Synced(base, g, present, current, roles) = new
    BY DEF Synced, new, tagged, tag, roleOf, created
  <1> QED BY <1>6, <1>7, <1>9, <1>10, <1>11, <1>12 DEF SyncReturns

-----------------------------------------------------------------------------
(* Where rows, tasks and arrivals come from.                               *)

(* An update is what was put into it.                                      *)
LEMMA UpdateIs ==
    ASSUME NEW k, NEW g, NEW u
    PROVE  Update(k, g, u).kind = k /\ Update(k, g, u).group = g /\ Update(k, g, u).user = u
  BY DEF Update

(* A request is moved on by its own steps only.                            *)
LEMMA Moves ==
    ASSUME Inv, [Next]_vars, NEW s \in Slots, tasks'[s] # tasks[s]
    PROVE  /\ Begin(s) \/ TelegramStep(s) \/ DatabaseStep(s)
           /\ \A r \in Slots : r # s => tasks'[r] = tasks[r]
  <1>1. tasks \in [Slots -> Tasks]
    BY DEF Inv, RestOK
  <1>2. ASSUME NEW r \in Slots, NEW t, Goes(r, t) PROVE r = s
    BY <1>1, <1>2 DEF Goes
  <1>3. ASSUME NEW r \in Slots, Begin(r) \/ TelegramStep(r) \/ DatabaseStep(r)
        PROVE  r = s /\ \A q \in Slots : q # s => tasks'[q] = tasks[q]
    <2>1. \E t : Goes(r, t)
      <3>1. CASE Begin(r)
        BY <3>1 DEF Begin, StartCreateGroup, StartAddClient, StartOffboard, StartSync, StartRemove,
            StartRemoveGroup
      <3>2. CASE TelegramStep(r)
        BY <3>2 DEF TelegramStep, CreateChat, CreateChatHalfway, InviteDirectly, InviteByLink,
            BanEverywhere, BanInterrupted, Scan, Kick, DeleteChat, EndCreateGroup, TelegramFails
      <3>3. CASE DatabaseStep(r)
        BY <3>3 DEF DatabaseStep, FinishCreateGroup, FinishAddClient, FinishOffboard, ReadMembers,
            WriteSync, TransactionFails, WriteSyncOfNewGroup, FinishRemove, FinishRemoveGroup
      <3> QED BY <1>3, <3>1, <3>2, <3>3
    <2> QED BY <1>1, <1>2, <2>1 DEF Goes
  <1>4. ~(OneTransaction \/ Outside \/ Deliver \/ UNCHANGED vars)
    BY DEF OneTransaction, OpenApp, SetRole, TagMember, Outside, Joins, Leaves, BotKicked, BotInvited,
        Deliver, OnMemberJoined, OnMemberLeft, OnBotAdded, IgnoreBotAdded, OnBotRemoved, Handled, vars
  <1> QED BY <1>3, <1>4 DEF Next

(* What announces a group is the transaction that tagged its team.         *)
LEMMA AnnouncedAfterTagging ==
    ASSUME Inv, [Next]_vars, NEW s \in Slots, At(s, "created"), tasks'[s].at = "announcing"
    PROVE  \E kept \in SUBSET Users : FinishCreateGroup(s, kept)
  <1>1. tasks'[s] # tasks[s]
    BY DEF At
  <1>2. Begin(s) \/ TelegramStep(s) \/ DatabaseStep(s)
    BY <1>1, Moves
  <1>3. tasks \in [Slots -> Tasks]
    BY DEF Inv, RestOK
  <1>4. ~Begin(s)
    BY DEF Begin, StartCreateGroup, StartAddClient, StartOffboard, StartSync, StartRemove,
        StartRemoveGroup, At
  <1>5. ~TelegramStep(s)
    BY DEF TelegramStep, CreateChat, CreateChatHalfway, ChatAppears, InviteDirectly, InviteByLink,
        BanEverywhere, BanInterrupted, Bans, Scan, Kick, DeleteChat, EndCreateGroup, TelegramFails, At
  <1>6. ~TransactionFails(s)
    BY <1>3 DEF TransactionFails, Goes, Idle
  <1> QED BY <1>2, <1>4, <1>5, <1>6
    DEF DatabaseStep, FinishAddClient, FinishOffboard, ReadMembers, WriteSync,
        WriteSyncOfNewGroup, FinishRemove, FinishRemoveGroup, At

(* Nobody enters a chat the bot has been in unnoticed.                     *)
LEMMA ArrivalsAreTold ==
    ASSUME Inv, (\E s \in Slots : TelegramStep(s)) \/ Outside
    PROVE  /\ updates \subseteq updates'
           /\ \A g \in Groups, u \in Users : bot[g] # "unborn" /\ bot'[g] = "live" /\ u \in chat'[g] =>
                  \/ bot[g] = "live" /\ u \in chat[g]
                  \/ \E up \in updates' : up.kind = "joined" /\ up.group = g /\ up.user = u
  <1>0. /\ chat \in [Groups -> SUBSET Users]
        /\ bot \in [Groups -> {"unborn", "live", "gone"}]
        /\ \A s \in Slots : tasks[s] \in Tasks
    BY DEF Inv, RestOK
  <1> DEFINE Told ==
        /\ updates \subseteq updates'
        /\ \A g \in Groups, u \in Users : bot[g] # "unborn" /\ bot'[g] = "live" /\ u \in chat'[g] =>
               \/ bot[g] = "live" /\ u \in chat[g]
               \/ \E up \in updates' : up.kind = "joined" /\ up.group = g /\ up.user = u
  \* A new chat, whoever brought the bot there.
  <1>1. ASSUME NEW g \in Groups, bot[g] = "unborn", bot' = [bot EXCEPT ![g] = "live"],
               NEW us, chat' = [chat EXCEPT ![g] = us], updates \subseteq updates'
        PROVE  Told
    BY <1>0, <1>1
  \* A chat that people leave.
  <1>2. ASSUME UNCHANGED bot, \A g \in Groups : chat'[g] \subseteq chat[g], updates \subseteq updates'
        PROVE  Told
    BY <1>0, <1>2
  \* A chat that somebody enters.
  <1>3. ASSUME NEW g \in Groups, NEW u \in Users, UNCHANGED bot, chat' = [chat EXCEPT ![g] = @ \cup {u}],
               bot[g] = "live",
               updates' = IF u \in chat[g] THEN updates ELSE updates \cup {Update("joined", g, u)}
        PROVE  Told
    <2>1. updates \subseteq updates'
      BY <1>3
    <2>2. u \in chat[g] \/ \E up \in updates' : up.kind = "joined" /\ up.group = g /\ up.user = u
      BY <1>3, UpdateIs
    <2>3. \A h \in Groups, v \in Users : v \in chat'[h] => v \in chat[h] \/ (h = g /\ v = u)
      BY <1>0, <1>3
    <2> QED BY <1>0, <1>3, <2>1, <2>2, <2>3
  \* The bot goes.
  <1>4. ASSUME NEW g \in Groups, UNCHANGED chat, bot' = [bot EXCEPT ![g] = "gone"], updates \subseteq updates'
        PROVE  Told
    BY <1>0, <1>4
  <1>5. ASSUME NEW s \in Slots, TelegramStep(s) PROVE Told
    <2>0. tasks[s] \in Tasks
      BY <1>0
    <2>1. ASSUME NEW g \in Groups, NEW us \in SUBSET Users, CreateChat(s, g, us) \/ CreateChatHalfway(s, g, us)
          PROVE  Told
      <3>1. ChatAppears(s, g, us)
        BY <2>1 DEF CreateChat, CreateChatHalfway
      <3> QED BY <1>1, <3>1 DEF ChatAppears
    <2>2. CASE InviteDirectly(s)
      <3>1. tasks[s].group \in Groups /\ tasks[s].user \in Users
        BY <2>0, <2>2, TaskFields DEF InviteDirectly, At
      <3> QED BY <1>3, <2>2, <3>1 DEF InviteDirectly
    <2>3. ASSUME NEW gs \in SUBSET Groups, BanEverywhere(s, gs) \/ BanInterrupted(s, gs)
          PROVE  Told
      <3>1. Bans(s, gs)
        BY <2>3 DEF BanEverywhere, BanInterrupted
      <3>2. \A g \in Groups : chat'[g] \subseteq chat[g]
        BY <3>1 DEF Bans
      <3> QED BY <1>2, <3>1, <3>2 DEF Bans
    <2>4. ASSUME NEW us \in SUBSET Users, Kick(s, us) PROVE Told
      <3>1. \A g \in Groups : chat'[g] \subseteq chat[g]
        BY <1>0, <2>4 DEF Kick, ChatLoses
      <3> QED BY <1>2, <2>4, <3>1 DEF Kick, ChatLoses
    <2>5. CASE DeleteChat(s)
      <3>1. tasks[s].group \in Groups
        BY <2>0, <2>5, TaskFields DEF DeleteChat, At
      <3>2. CASE UNCHANGED <<bot, updates>>
        BY <1>2, <2>5, <3>2 DEF DeleteChat
      <3>3. CASE /\ bot' = [bot EXCEPT ![tasks[s].group] = "gone"]
                 /\ updates' = updates \cup {Update("botRemoved", tasks[s].group, tasks[s].user)}
        BY <1>4, <2>5, <3>1, <3>3 DEF DeleteChat
      <3> QED BY <2>5, <3>2, <3>3 DEF DeleteChat
    <2>6. CASE UNCHANGED <<chat, bot, updates>>
      BY <1>2, <2>6
    <2> QED
      BY <1>5, <2>1, <2>2, <2>3, <2>4, <2>5, <2>6
      DEF TelegramStep, InviteByLink, Scan, EndCreateGroup, TelegramFails
  <1>6. CASE Outside
    <2>1. ASSUME NEW g \in Groups, NEW u \in Users, NEW us, BotInvited(g, u, us) PROVE Told
      BY <1>1, <2>1 DEF BotInvited
    <2>2. ASSUME NEW g \in Groups, NEW u \in Users, BotKicked(g, u) PROVE Told
      BY <1>4, <2>2 DEF BotKicked
    <2>3. ASSUME NEW g \in Groups, NEW u \in Users, Joins(g, u) PROVE Told
      BY <1>3, <2>3 DEF Joins
    <2>4. ASSUME NEW g \in Groups, NEW u \in Users, Leaves(g, u) PROVE Told
      <3>1. \A h \in Groups : chat'[h] \subseteq chat[h]
        BY <1>0, <2>4 DEF Leaves, ChatLoses
      <3> QED BY <1>2, <2>4, <3>1 DEF Leaves, ChatLoses
    <2> QED BY <1>6, <2>1, <2>2, <2>3, <2>4 DEF Outside
  <1> QED BY <1>5, <1>6

-----------------------------------------------------------------------------
(* CreatedGroupHasTeam.                                                    *)

(* A sync writes into its own group, and puts no group on record.          *)
LEMMA SyncedPlaces ==
    ASSUME NEW base, Sound(base), NEW g \in Groups, NEW present \in SUBSET Users,
           NEW current, NEW roles
    PROVE  LET new == Synced(base, g, present, current, roles) IN
           /\ new.groups = base.groups
           /\ \A m \in new.members : m \in base.members \/ m.group = g
  <1> DEFINE new == Synced(base, g, present, current, roles)
  <1>1. SyncReturns(base, g, present, current, roles, new)
    BY SyncedColumns
  <1> HIDE DEF new
  <1>2. new.groups = base.groups /\ \A m \in new.members : m \in base.members \/ m.group = g
    BY <1>1 DEF SyncReturns
  <1> QED BY <1>2 DEF new

(* A write adds rows to the group its request is about, or to groups that  *)
(* have some.                                                              *)
LEMMA RowsComeFrom ==
    ASSUME Inv, [Next]_vars, NEW m \in db'.members
    PROVE  \/ \E n \in db.members : n.group = m.group
           \/ \E s \in Slots :
                 /\ tasks[s].group = m.group
                 /\ \/ At(s, "created") /\ tasks'[s].at # "created"
                    \/ At(s, "invited")
                    \/ tasks[s].at \in {"scanned", "read"} /\ m.group \in synced'
  <1> DEFINE Same == \E n \in db.members : n.group = m.group
             Own == \E s \in Slots :
                       /\ tasks[s].group = m.group
                       /\ \/ At(s, "created") /\ tasks'[s].at # "created"
                          \/ At(s, "invited")
                          \/ tasks[s].at \in {"scanned", "read"} /\ m.group \in synced'
  <1>0. Sound(db) /\ tasks \in [Slots -> Tasks]
    BY DEF Inv, RestOK
  <1>1. ASSUME m \in db.members PROVE Same
    BY <1>1
  <1>2. ASSUME NEW g, NEW us, db' = RemoveMembers(db, g, us, db.users) PROVE Same
    BY <1>0, <1>1, <1>2, RemoveMembersColumns
  <1>3. ASSUME NEW g, db' = DeleteGroup(db, g) PROVE Same
    <2>1. db'.members = IF g \in db.groups THEN {n \in db.members : n.group # g} ELSE db.members
      BY <1>0, <1>3, DeleteGroupColumns
    <2>2. m \in db.members
      BY <2>1
    <2> QED BY <1>1, <2>2
  <1>4. ASSUME NEW s \in Slots, DatabaseStep(s) PROVE Same \/ Own
    <2>0. tasks[s] \in Tasks
      BY <1>0
    <2>1. ASSUME NEW kept \in SUBSET Users, FinishCreateGroup(s, kept) PROVE Same \/ Own
      <3>1. At(s, "created") /\ tasks'[s].at # "created"
        BY <1>0, <2>1 DEF FinishCreateGroup, At, Goes, Idle
      <3>2. \A n \in db'.members \ db.members : n.group = tasks[s].group
        BY <1>0, <2>1, TeamTaggedColumns DEF FinishCreateGroup
      <3> QED BY <1>1, <3>1, <3>2
    <2>2. CASE FinishAddClient(s)
      <3> DEFINE g == tasks[s].group
                 u == tasks[s].user
                 link == tasks[s].link
      <3>1. u \in Users /\ At(s, "invited") /\ db' = ClientAdded(db, g, u, link)
        BY <2>0, <2>2, TaskFields DEF FinishAddClient, At
      <3> HIDE DEF g, u, link
      <3>2. db'.members = {n \in db.members : ~(n.group = g /\ n.user = u /\ n.tag = Client)}
                             \cup {Row(g, u, Client, link)}
        BY <1>0, <3>1, ClientAddedColumns
      <3>3. Row(g, u, Client, link).group = g
        BY DEF Row
      <3> QED BY <1>1, <3>1, <3>2, <3>3 DEF g
    <2>3. CASE FinishOffboard(s)
      BY <1>0, <1>1, <2>0, <2>3, TaskFields, DeleteUserColumns DEF FinishOffboard, At
    <2>4. CASE ReadMembers(s) \/ TransactionFails(s)
      BY <1>1, <2>4 DEF ReadMembers, TransactionFails
    <2>5. CASE WriteSync(s)
      <3>1. /\ tasks[s].group \in Groups /\ tasks[s].present \in SUBSET Users
            /\ At(s, "read") /\ tasks[s].group \in synced'
        BY <2>0, <2>5, TaskFields DEF WriteSync, At
      <3>2. m \in db.members \/ m.group = tasks[s].group
        BY <1>0, <2>5, <3>1, SyncedPlaces DEF WriteSync
      <3> QED BY <1>1, <3>1, <3>2 DEF At
    <2>6. CASE WriteSyncOfNewGroup(s)
      <3> DEFINE g == tasks[s].group
                 base == CreateGroupRecord(db, g)
      <3>1. g \in Groups /\ tasks[s].present \in SUBSET Users /\ At(s, "scanned") /\ g \in synced'
        BY <2>0, <2>6, TaskFields DEF WriteSyncOfNewGroup, At
      <3>2. Sound(base) /\ base.members = db.members
        BY <1>0, <3>1, CreateGroupRecordSound, CreateGroupRecordColumns
      <3>3. db' = Synced(base, g, tasks[s].present, MembersOf(db, g), db.users)
        BY <2>6 DEF WriteSyncOfNewGroup
      <3> HIDE DEF base
      <3>4. m \in db.members \/ m.group = g
        BY <3>1, <3>2, <3>3, SyncedPlaces
      <3> QED BY <1>1, <3>1, <3>4 DEF At
    <2>7. CASE FinishRemove(s)
      BY <1>2, <2>7 DEF FinishRemove
    <2>8. CASE FinishRemoveGroup(s)
      BY <1>3, <2>8 DEF FinishRemoveGroup
    <2> QED BY <1>4, <2>1, <2>2, <2>3, <2>4, <2>5, <2>6, <2>7, <2>8 DEF DatabaseStep
  <1>5. ASSUME NEW s \in Slots, Begin(s) \/ TelegramStep(s) PROVE Same
    BY <1>1, <1>5
    DEF Begin, StartCreateGroup, StartAddClient, StartOffboard, StartSync, StartRemove,
        StartRemoveGroup, TelegramStep, ChatAppears, CreateChat, CreateChatHalfway,
        InviteDirectly, InviteByLink, Bans,
        BanEverywhere, BanInterrupted, Scan, Kick, DeleteChat, EndCreateGroup, TelegramFails
  <1>6. CASE OneTransaction
    <2>1. ASSUME NEW u \in Users, OpenApp(u) PROVE Same
      BY <1>0, <1>1, <2>1, GetOrCreateUsersColumns DEF OpenApp
    <2>2. ASSUME NEW u \in Users, NEW r \in Roles, SetRole(u, r) PROVE Same
      <3> DEFINE known == GetOrCreateUsers(db, {u})
                 given == SetUserRole(known, u, r)
      <3>1. Sound(known) /\ known.members = db.members
        BY <1>0, GetOrCreateUsersSound, GetOrCreateUsersColumns
      <3> HIDE DEF known
      <3>2. Sound(given) /\ given.members = db.members
        BY <3>1, SetUserRoleSound, SetUserRoleColumns
      <3>3. db' = SyncRoleToGroupTags(db, given, u, r)
        BY <2>2 DEF SetRole, given, known
      <3> HIDE DEF given
      <3>4. \A x \in db'.members : \E n \in given.members : n.group = x.group /\ n.user = x.user
        BY <3>2, <3>3, SyncRoleToGroupTagsColumns
      <3> QED BY <3>2, <3>4
    <2>3. ASSUME NEW a, NEW u, NEW g, NEW t, TagMember(a, g, u, t) PROVE Same
      <3>1. \E n \in db.members : n.group = g
        BY <2>3 DEF TagMember, MemberCheckPasses, RowsOf
      <3>2. \E no : db' = AddMemberTag(db, db, g, u, t, no)
        BY <2>3, Zenon DEF TagMember
      <3>3. PICK no : db' = AddMemberTag(db, db, g, u, t, no)
        BY <3>2
      <3>4. m \in db.members \/ m = Row(g, u, t, no)
        BY <1>0, <3>3, LoneTagColumns
      <3>5. Row(g, u, t, no).group = g
        BY DEF Row
      <3> QED BY <1>1, <3>1, <3>4, <3>5
    <2> QED BY <1>6, <2>1, <2>2, <2>3 DEF OneTransaction
  <1>7. CASE Outside
    BY <1>1, <1>7 DEF Outside, Joins, Leaves, BotKicked, BotInvited
  <1>8. ASSUME NEW up \in updates,
               OnMemberJoined(up) \/ OnMemberLeft(up) \/ OnBotAdded(up) \/ IgnoreBotAdded(up) \/ OnBotRemoved(up)
        PROVE  Same
    <2>1. CASE OnMemberJoined(up)
      <3>1. db'.members = {Cleared(n, up.group, up.user) : n \in db.members}
        BY <1>0, <2>1, ClearPendingColumns DEF OnMemberJoined
      <3>2. PICK n \in db.members : m = Cleared(n, up.group, up.user)
        BY <3>1
      <3>3. Cleared(n, up.group, up.user).group = n.group
        BY <1>0 DEF Cleared, Sound, Databases, MemberRows
      <3> QED BY <3>2, <3>3
    <2>2. CASE OnMemberLeft(up)
      BY <1>2, <2>2 DEF OnMemberLeft
    <2>3. CASE OnBotAdded(up)
      BY <1>0, <1>1, <2>3, CreateGroupRecordColumns DEF OnBotAdded
    <2>4. CASE IgnoreBotAdded(up)
      BY <1>1, <2>4 DEF IgnoreBotAdded
    <2>5. CASE OnBotRemoved(up)
      BY <1>3, <2>5 DEF OnBotRemoved
    <2> QED BY <1>8, <2>1, <2>2, <2>3, <2>4, <2>5
  <1>9. CASE UNCHANGED vars
    BY <1>1, <1>9 DEF vars
  <1> QED BY <1>4, <1>5, <1>6, <1>7, <1>8, <1>9 DEF Next, Deliver

(* Where a request is about one group.                                     *)
InGroup == {"created", "inviting", "invited", "scanning", "scanned", "read", "removing", "removed",
            "deleting", "deleted"}
Inviting == {"inviting", "invited"}

(* A request is about the group it was about, or begins in one with rows   *)
(* or with the bot, or has just created the chat.                          *)
LEMMA TaskGroups ==
    ASSUME Inv, [Next]_vars, NEW s \in Slots, tasks'[s].at \in InGroup
    PROVE  \/ /\ tasks[s].at \in InGroup /\ tasks'[s].group = tasks[s].group
              /\ At(s, "created") <=> tasks'[s].at = "created"
              /\ tasks'[s].at \in Inviting => tasks[s].at \in Inviting
           \/ /\ tasks'[s].at = "created" /\ tasks[s].at = "creating" /\ UNCHANGED db
              /\ bot[tasks'[s].group] = "unborn" /\ bot'[tasks'[s].group] = "live"
           \/ /\ tasks'[s].at # "created"
              /\ \E m \in db.members : m.group = tasks'[s].group
           \/ /\ tasks'[s].at = "scanning"
              /\ bot[tasks'[s].group] = "live"
  <1> DEFINE Where ==
           \/ /\ tasks[s].at \in InGroup /\ tasks'[s].group = tasks[s].group
              /\ At(s, "created") <=> tasks'[s].at = "created"
              /\ tasks'[s].at \in Inviting => tasks[s].at \in Inviting
           \/ /\ tasks'[s].at = "created" /\ tasks[s].at = "creating" /\ UNCHANGED db
              /\ bot[tasks'[s].group] = "unborn" /\ bot'[tasks'[s].group] = "live"
           \/ /\ tasks'[s].at # "created"
              /\ \E m \in db.members : m.group = tasks'[s].group
           \/ /\ tasks'[s].at = "scanning"
              /\ bot[tasks'[s].group] = "live"
  <1> SUFFICES Where
    OBVIOUS
  <1>0. /\ tasks \in [Slots -> Tasks] /\ bot \in [Groups -> {"unborn", "live", "gone"}]
        /\ tasks[s] \in Tasks
    BY DEF Inv, RestOK
  <1>1. CASE tasks'[s] = tasks[s]
    BY <1>1 DEF At
  <1>2. CASE tasks'[s] # tasks[s]
    <2>0. Begin(s) \/ TelegramStep(s) \/ DatabaseStep(s)
      BY <1>2, Moves
    <2>1. ASSUME NEW t, Goes(s, t) PROVE tasks'[s] = t
      BY <1>0, <2>1 DEF Goes
    <2>2. ~Goes(s, Idle)
      <3>1. Idle.at \notin InGroup
        BY DEF Idle, InGroup
      <3> QED BY <2>1, <3>1
    <2>3. CASE Begin(s)
      <3>1. ASSUME NEW u, StartCreateGroup(s, u) PROVE FALSE
        BY <2>1, <3>1 DEF StartCreateGroup, InGroup
      <3>2. ASSUME NEW u, StartOffboard(s, u) PROVE FALSE
        BY <2>1, <3>2 DEF StartOffboard, InGroup
      <3>3. ASSUME NEW a, NEW u, NEW g,
                   StartAddClient(s, a, g, u) \/ StartRemove(s, a, g, u) \/ StartRemoveGroup(s, a, g)
            PROVE  Where
        <4>1. \E n \in db.members : n.group = g
          BY <3>3 DEF StartAddClient, StartRemove, StartRemoveGroup, MemberCheckPasses, RowsOf
        <4>2. tasks'[s].group = g /\ tasks'[s].at # "created"
          BY <2>1, <3>3 DEF StartAddClient, StartRemove, StartRemoveGroup
        <4> QED BY <4>1, <4>2
      <3>4. ASSUME NEW a, NEW g, StartSync(s, a, g) PROVE Where
        BY <2>1, <3>4 DEF StartSync
      <3> HIDE DEF Where
      <3> QED BY <2>3, <3>1, <3>2, <3>3, <3>4 DEF Begin
    <2>4. CASE TelegramStep(s)
      <3>1. ASSUME NEW g \in Groups, NEW us, CreateChat(s, g, us) PROVE Where
        BY <1>0, <2>1, <3>1 DEF CreateChat, ChatAppears, At
      <3>2. ASSUME NEW g, NEW us, CreateChatHalfway(s, g, us) PROVE FALSE
        BY <2>2, <3>2 DEF CreateChatHalfway
      <3>3. CASE InviteDirectly(s) \/ InviteByLink(s)
        BY <2>1, <3>3 DEF InviteDirectly, InviteByLink, At, InGroup, Inviting
      <3>4. ASSUME NEW gs, BanEverywhere(s, gs) \/ BanInterrupted(s, gs) PROVE FALSE
        <4>1. BanEverywhere(s, gs) /\ At(s, "banning")
          BY <2>2, <3>4 DEF BanInterrupted, BanEverywhere, Bans
        <4>2. [tasks[s] EXCEPT !.at = "banned"].at = "banned"
          BY <1>0, <4>1 DEF At, Tasks, Idle
        <4> QED BY <2>1, <4>1, <4>2 DEF BanEverywhere, InGroup
      <3>5. CASE Scan(s)
        BY <2>1, <3>5 DEF Scan, At, InGroup, Inviting
      <3>6. ASSUME NEW us, Kick(s, us) PROVE Where
        <4>1. At(s, "removing") /\ tasks'[s] = [tasks[s] EXCEPT !.at = "removed"]
          BY <2>1, <3>6 DEF Kick
        <4>2. tasks'[s].at = "removed" /\ tasks'[s].group = tasks[s].group
          BY <1>0, <4>1 DEF At, Tasks, Idle
        <4> QED BY <4>1, <4>2 DEF At, InGroup, Inviting
      <3>7. CASE DeleteChat(s)
        <4>1. At(s, "deleting") /\ tasks'[s] = [tasks[s] EXCEPT !.at = "deleted"]
          BY <2>1, <3>7 DEF DeleteChat
        <4>2. tasks'[s].at = "deleted" /\ tasks'[s].group = tasks[s].group
          BY <1>0, <4>1 DEF At, Tasks, Idle
        <4> QED BY <4>1, <4>2 DEF At, InGroup, Inviting
      <3>8. CASE EndCreateGroup(s) \/ TelegramFails(s)
        BY <2>2, <3>8 DEF EndCreateGroup, TelegramFails
      <3> HIDE DEF Where
      <3> QED BY <2>4, <3>1, <3>2, <3>3, <3>4, <3>5, <3>6, <3>7, <3>8 DEF TelegramStep
    <2>5. CASE DatabaseStep(s)
      <3>1. CASE ReadMembers(s)
        BY <2>1, <3>1 DEF ReadMembers, At, InGroup, Inviting
      <3>2. ASSUME NEW kept, FinishCreateGroup(s, kept) PROVE FALSE
        BY <2>1, <2>2, <3>2 DEF FinishCreateGroup, InGroup
      <3>3. Goes(s, Idle) \/ ReadMembers(s) \/ \E kept : FinishCreateGroup(s, kept)
        BY <2>5 DEF DatabaseStep, FinishAddClient, FinishOffboard, WriteSync, TransactionFails,
            WriteSyncOfNewGroup, FinishRemove, FinishRemoveGroup
      <3> QED BY <2>2, <3>1, <3>2, <3>3
    <2> HIDE DEF Where
    <2> QED BY <2>0, <2>3, <2>4, <2>5
  <1> QED BY <1>1, <1>2

(* A chat the bot has been in stays one.                                   *)
LEMMA OnceBorn ==
    ASSUME Inv, [Next]_vars
    PROVE  \A g \in Groups : bot[g] # "unborn" => bot'[g] # "unborn"
  <1>0. /\ bot \in [Groups -> {"unborn", "live", "gone"}]
        /\ \A s \in Slots : tasks[s] \in Tasks
    BY DEF Inv, RestOK
  <1>1. ASSUME NEW g, NEW to \in {"live", "gone"}, bot' = [bot EXCEPT ![g] = to]
        PROVE  \A h \in Groups : bot[h] # "unborn" => bot'[h] # "unborn"
    BY <1>0, <1>1
  <1>2. CASE UNCHANGED bot
    BY <1>2
  <1>3. CASE ~UNCHANGED bot
    <2>1. \/ \E s \in Slots : TelegramStep(s)
          \/ Outside
      BY <1>3 DEF Next, vars, Begin, StartCreateGroup, StartAddClient, StartOffboard, StartSync,
          StartRemove, StartRemoveGroup, DatabaseStep, FinishCreateGroup, FinishAddClient,
          FinishOffboard, ReadMembers, WriteSync, TransactionFails, WriteSyncOfNewGroup,
          FinishRemove, FinishRemoveGroup, OneTransaction, OpenApp, SetRole, TagMember, Deliver,
          OnMemberJoined, OnMemberLeft, OnBotAdded, IgnoreBotAdded, OnBotRemoved, Handled
    <2>2. \E g, to : to \in {"live", "gone"} /\ bot' = [bot EXCEPT ![g] = to]
      BY <1>3, <2>1
      DEF TelegramStep, ChatAppears, CreateChat, CreateChatHalfway, InviteDirectly, InviteByLink,
          Bans, BanEverywhere, BanInterrupted, Scan, Kick, DeleteChat, EndCreateGroup, TelegramFails,
          Outside, Joins, Leaves, BotKicked, BotInvited
    <2> QED BY <1>1, <2>2
  <1> QED BY <1>2, <1>3

(* Rows and requests are about chats the bot has been in.                  *)
Born ==
    /\ \A m \in db.members : bot[m.group] # "unborn"
    /\ \A s \in Slots : tasks[s].at \in InGroup => bot[tasks[s].group] # "unborn"

LEMMA BornStep ==
    ASSUME Inv, Inv', Born, [Next]_vars
    PROVE  Born'
  <1>0. /\ \A m \in db'.members : m.group \in Groups
        /\ \A s \in Slots : tasks[s] \in Tasks
    BY DEF Inv, RestOK, Sound, Databases, MemberRows
  <1>1. \A s \in Slots : tasks[s].at \in InGroup => tasks[s].group \in Groups
    BY <1>0, TaskFields DEF InGroup
  <1>2. ASSUME NEW m \in db'.members PROVE bot'[m.group] # "unborn"
    <2>1. CASE \E n \in db.members : n.group = m.group
      BY <1>0, <2>1, OnceBorn DEF Born
    <2>2. CASE \E s \in Slots : tasks[s].group = m.group /\ tasks[s].at \in InGroup
      BY <1>0, <2>2, OnceBorn DEF Born
    <2> QED BY <2>1, <2>2, RowsComeFrom DEF At, InGroup
  <1>3. ASSUME NEW s \in Slots, tasks'[s].at \in InGroup PROVE bot'[tasks'[s].group] # "unborn"
    <2>1. \A m \in db.members : m.group \in Groups
      BY DEF Inv, Sound, Databases, MemberRows
    <2>2. tasks'[s].group \in Groups
      <3>1. tasks'[s] \in Tasks
        BY DEF Inv, RestOK
      <3> QED BY <1>3, <3>1, TaskFields DEF InGroup
    <2>3. CASE tasks[s].at \in InGroup /\ tasks'[s].group = tasks[s].group
      BY <2>2, <2>3, OnceBorn DEF Born
    <2>4. CASE \E m \in db.members : m.group = tasks'[s].group
      BY <2>2, <2>4, OnceBorn DEF Born
    <2>5. CASE bot[tasks'[s].group] = "live"
      BY <2>2, <2>5, OnceBorn
    <2> QED BY <1>3, <2>3, <2>4, <2>5, TaskGroups
  <1> QED BY <1>2, <1>3 DEF Born

(* To begin with there are the old groups and no requests.                 *)
LEMMA BornInit == Init => Born
  <1>1. ASSUME Init, NEW m \in db.members PROVE bot[m.group] # "unborn"
    <2>1. \E g \in OldGroups : m \in NewRows(g, FirstStaff, FirstRoles)
      BY <1>1, Zenon DEF Init
    <2>2. m.group \in OldGroups
      BY <2>1, NewRowsAre
    <2> QED BY <1>1, <2>2, MembershipAssumption DEF Init
  <1>2. ASSUME Init, NEW s \in Slots PROVE tasks[s].at \notin InGroup
    BY <1>2 DEF Init, Idle, InGroup
  <1> QED BY <1>1, <1>2 DEF Born

(* Until a /sync has written its people down, nothing but the request      *)
(* knows of a chat that create_group has created.                          *)
OwnChats ==
    \A s \in Slots :
        At(s, "created") =>
            /\ \A r \in Slots : At(r, "created") /\ tasks[r].group = tasks[s].group => r = s
            /\ tasks[s].group \notin synced =>
                  /\ \A m \in db.members : m.group # tasks[s].group
                  /\ \A r \in Slots : tasks[r].at \in Inviting => tasks[r].group # tasks[s].group

LEMMA OwnChatsStep ==
    ASSUME Inv, Born, OwnChats, [Next]_vars
    PROVE  OwnChats'
  <1>1. synced \subseteq synced'
    <2>1. ASSUME NEW s \in Slots, Begin(s) PROVE UNCHANGED synced
      BY <2>1 DEF Begin, StartCreateGroup, StartAddClient, StartOffboard, StartSync,
         StartRemove, StartRemoveGroup
    <2>2. ASSUME NEW s \in Slots, TelegramStep(s) PROVE UNCHANGED synced
      BY <2>2 DEF TelegramStep, ChatAppears, CreateChat, CreateChatHalfway, InviteDirectly,
         InviteByLink, Bans, BanEverywhere, BanInterrupted, Scan, Kick, DeleteChat,
         EndCreateGroup, TelegramFails
    <2>3. ASSUME NEW s \in Slots, DatabaseStep(s) PROVE synced \subseteq synced'
      BY <2>3 DEF DatabaseStep, FinishCreateGroup, FinishAddClient, FinishOffboard, ReadMembers,
         WriteSync, TransactionFails, WriteSyncOfNewGroup, FinishRemove, FinishRemoveGroup
    <2>4. CASE OneTransaction
      BY <2>4 DEF OneTransaction, OpenApp, SetRole, TagMember
    <2>5. CASE Outside
      BY <2>5 DEF Outside, Joins, Leaves, BotKicked, BotInvited
    <2>6. CASE Deliver
      BY <2>6 DEF Deliver, OnMemberJoined, OnMemberLeft, OnBotAdded, IgnoreBotAdded,
         OnBotRemoved, Handled
    <2>7. CASE UNCHANGED vars
      BY <2>7 DEF vars
    <2> QED BY <2>1, <2>2, <2>3, <2>4, <2>5, <2>6, <2>7 DEF Next
  <1>2. ASSUME NEW s \in Slots, tasks'[s].at = "created"
        PROVE  LET g == tasks'[s].group IN
               /\ \A r \in Slots : tasks'[r].at = "created" /\ tasks'[r].group = g => r = s
               /\ g \notin synced' =>
                     /\ \A m \in db'.members : m.group # g
                     /\ \A r \in Slots : tasks'[r].at \in Inviting => tasks'[r].group # g
    <2> DEFINE g == tasks'[s].group
    <2>0. tasks'[s].at \in InGroup
      BY <1>2 DEF InGroup
    \* The chat was there before the step, or this step created it.
    <2>1. CASE At(s, "created") /\ tasks[s].group = g
      <3>1. bot[g] # "unborn"
        BY <2>1 DEF Born, At, InGroup
      <3>2. ASSUME NEW r \in Slots, tasks'[r].at = "created", tasks'[r].group = g PROVE r = s
        <4>1. At(r, "created") /\ tasks[r].group = g
          BY <3>1, <3>2, TaskGroups DEF At, InGroup
        <4> QED BY <2>1, <4>1 DEF OwnChats
      <3>3. ASSUME g \notin synced'
            PROVE  /\ \A m \in db.members : m.group # g
                   /\ \A r \in Slots : tasks[r].at \in Inviting => tasks[r].group # g
        BY <1>1, <2>1, <3>3 DEF OwnChats
      <3>4. ASSUME g \notin synced', NEW m \in db'.members PROVE m.group # g
        <4>1. SUFFICES ASSUME m.group = g PROVE FALSE
          OBVIOUS
        <4>2. PICK r \in Slots :
                  /\ tasks[r].group = g
                  /\ \/ At(r, "created") /\ tasks'[r].at # "created"
                     \/ At(r, "invited")
          BY <3>3, <3>4, <4>1, RowsComeFrom
        <4>3. At(r, "created") => r = s
          BY <2>1, <4>2 DEF OwnChats
        <4> QED BY <1>2, <3>3, <3>4, <4>2, <4>3 DEF At, Inviting
      <3>5. ASSUME g \notin synced', NEW r \in Slots, tasks'[r].at \in Inviting
            PROVE  tasks'[r].group # g
        BY <3>3, <3>5, TaskGroups DEF Inviting, InGroup
      <3> QED BY <3>2, <3>4, <3>5
    <2>2. CASE tasks[s].at = "creating" /\ UNCHANGED db /\ bot[g] = "unborn"
      <3>1. \A m \in db.members : m.group # g
        BY <2>2 DEF Born
      <3>2. \A r \in Slots : tasks[r].at \in InGroup => tasks[r].group # g
        BY <2>2 DEF Born
      <3>3. tasks'[s] # tasks[s]
        BY <1>2, <2>2
      <3>4. ASSUME NEW r \in Slots, tasks'[r].at \in InGroup, r # s PROVE tasks'[r].group # g
        <4>1. tasks'[r] = tasks[r]
          BY <3>3, <3>4, Moves
        <4> QED BY <3>2, <3>4, <4>1
      <3> QED BY <1>2, <2>2, <3>1, <3>4 DEF InGroup, Inviting
    <2> QED BY <1>2, <2>0, <2>1, <2>2, TaskGroups
  <1> QED BY <1>2, Zenon DEF OwnChats, At

(* A group created through the application comes with its whole team       *)
(* tagged, whatever crosses its creation: until a /sync has written there  *)
(* is no row to roll the tags back, and a roll back drops no tag of a      *)
(* /sync.                                                                  *)
THEOREM TeamIsTagged == Spec => CreatedGroupHasTeam
  <1> DEFINE I == Inv /\ Born /\ OwnChats
  <1>1. Init => I
    BY InvInit, BornInit DEF Init, Idle, OwnChats, At
  <1>2. I /\ [Next]_vars => I'
    <2>1. Inv /\ [Next]_vars => Inv'
      BY SoundStep, RestStep DEF Inv
    <2> QED BY <2>1, BornStep, OwnChatsStep
  <1>3. I /\ [Next]_vars =>
        [\A s \in Slots :
            At(s, "created") /\ tasks'[s].at = "announcing" =>
                LET g == tasks[s].group
                    roles == tasks[s].roles
                IN  IF g \in synced
                    THEN Tagged(db, g, roles) \subseteq Tagged(db', g, roles)
                    ELSE Tagged(db', g, roles) = TeamOf(roles)]_vars
    <2>1. SUFFICES ASSUME I, [Next]_vars, NEW s \in Slots,
                          At(s, "created"), tasks'[s].at = "announcing"
                   PROVE  IF tasks[s].group \in synced
                          THEN Tagged(db, tasks[s].group, tasks[s].roles)
                                   \subseteq Tagged(db', tasks[s].group, tasks[s].roles)
                          ELSE Tagged(db', tasks[s].group, tasks[s].roles) = TeamOf(tasks[s].roles)
      OBVIOUS
    <2> DEFINE g == tasks[s].group
               roles == tasks[s].roles
    <2>2. PICK kept \in SUBSET Users : FinishCreateGroup(s, kept)
      BY <2>1, AnnouncedAfterTagging
    <2>3. Sound(db) /\ db' = TeamTagged(db, g, roles, kept) /\ kept \subseteq TeamOf(roles)
      BY <2>1, <2>2 DEF FinishCreateGroup, Inv
    <2>4. g \notin synced => \A m \in db.members : m.group # g
      BY <2>1 DEF OwnChats
    <2> HIDE DEF g, roles
    <2>5. /\ db.members \subseteq db'.members
          /\ (\A m \in db.members : m.group # g) =>
                \A u \in TeamOf(roles) : \E m \in db'.members :
                    m.group = g /\ m.user = u /\ m.tag = roles[u]
      BY <2>3, TeamTaggedColumns
    <2>6. Tagged(db, g, roles) \subseteq Tagged(db', g, roles)
      BY <2>5 DEF Tagged, TagsOf, RowsOf
    <2>7. g \notin synced => Tagged(db', g, roles) = TeamOf(roles)
      BY <2>4, <2>5 DEF Tagged, TagsOf, RowsOf
    <2> QED BY <2>6, <2>7 DEF g, roles
  <1> HIDE DEF I
  <1> QED BY <1>1, <1>2, <1>3, PTL DEF Spec, CreatedGroupHasTeam

-----------------------------------------------------------------------------
(* OnlyStaleReadsDisagree.                                                 *)

\* A row like it was at odds with the users before.
DisagreedIn(base, m) == \E n \in RowsOf(base, m.group, m.user) : n.tag = m.tag /\ Disagrees(base, n)

\* A request writes down what it read of a person whose role has changed since.
WritesStaleRead(m) ==
    \E s \in Slots :
        /\ tasks[s].at \in {"created", "read"} /\ tasks'[s] # tasks[s]
        /\ tasks[s].group = m.group /\ tasks[s].roles[m.user] # db.users[m.user]

(* A row that is kept: it disagreed before if the users did not come to    *)
(* differ.                                                                 *)
LEMMA KeptRow ==
    ASSUME NEW base, NEW new, NEW m \in base.members, Disagrees(new, m),
           \/ new.users[m.user] = base.users[m.user]
           \/ base.users[m.user] = NoUser
    PROVE  DisagreedIn(base, m)
  BY DEF DisagreedIn, RowsOf, Disagrees

(* A sync leaves at odds only rows that were, or people whose role has     *)
(* changed since it loaded them.                                           *)
LEMMA SyncDisagrees ==
    ASSUME NEW base, Sound(base), NEW g \in Groups, NEW present \in SUBSET Users,
           NEW current, NEW roles, NEW new, new = Synced(base, g, present, current, roles),
           NEW m \in new.members, m.user \in Users, Disagrees(new, m)
    PROVE  DisagreedIn(base, m) \/ (m.group = g /\ roles[m.user] # base.users[m.user])
  <1>1. SyncReturns(base, g, present, current, roles, new)
    BY SyncedColumns
  <1>2. m.user \notin present => new.users[m.user] = base.users[m.user]
    BY <1>1 DEF SyncReturns
  <1>3. m.user \in present => new.users[m.user] = base.users[m.user] \/ base.users[m.user] = NoUser
    BY <1>1 DEF SyncReturns
  <1>4. CASE m \in base.members
    BY <1>2, <1>3, <1>4, KeptRow
  <1>5. CASE m \notin base.members
    <2> DEFINE u == m.user
    <2>1. m.group = g /\ u \in present /\ m.tag = TagInSync(base, current, roles, u)
      BY <1>1, <1>5 DEF SyncReturns
    <2>2. new.users[u] = IF ~(u \in current /\ roles[u] # NoUser) /\ base.users[u] = NoUser
                         THEN NoRole ELSE base.users[u]
      BY <1>1, <2>1 DEF SyncReturns
    <2>3. CASE u \in current /\ roles[u] # NoUser
      BY <2>1, <2>2, <2>3, TagAssumption DEF Disagrees, TagInSync, RoleInSync
    <2>4. CASE ~(u \in current /\ roles[u] # NoUser)
      BY <2>1, <2>2, <2>4, TagAssumption, RoleAssumption DEF Disagrees, TagInSync, RoleInSync
    <2> QED BY <2>1, <2>3, <2>4
  <1> QED BY <1>4, <1>5

(* Every step: the departures, offboardings, role changes and clients      *)
(* leave rows and users as much in agreement as they were.                 *)
LEMMA DisagreementStep ==
    ASSUME Inv, Inv', [Next]_vars, NEW m \in db'.members, Disagrees(db', m)
    PROVE  \/ DisagreedIn(db, m)
           \/ WritesStaleRead(m)
           \/ \E a \in Users : TagMember(a, m.group, m.user, m.tag)
  <1> DEFINE Explained == \/ DisagreedIn(db, m)
                          \/ WritesStaleRead(m)
                          \/ \E a \in Users : TagMember(a, m.group, m.user, m.tag)
  <1>0. /\ Sound(db) /\ tasks \in [Slots -> Tasks] /\ m.user \in Users
        /\ \A u \in Users : db.users[u] \in UserStates
    BY DEF Inv, RestOK, Sound, Databases, MemberRows
  <1>1. ASSUME m \in db.members, db'.users[m.user] = db.users[m.user] PROVE Explained
    BY <1>1, KeptRow
  <1>2. ASSUME NEW g, NEW us, db' = RemoveMembers(db, g, us, db.users) PROVE Explained
    BY <1>0, <1>1, <1>2, RemoveMembersColumns
  <1>3. ASSUME NEW g, db' = DeleteGroup(db, g) PROVE Explained
    <2>1. /\ db'.members = IF g \in db.groups THEN {n \in db.members : n.group # g} ELSE db.members
          /\ db'.users = db.users
      BY <1>0, <1>3, DeleteGroupColumns
    <2>2. m \in db.members
      BY <2>1
    <2> QED BY <1>1, <2>1, <2>2
  <1>4. ASSUME NEW s \in Slots, DatabaseStep(s) PROVE Explained
    <2>0. tasks[s] \in Tasks
      BY <1>0
    <2>1. ASSUME NEW kept \in SUBSET Users, FinishCreateGroup(s, kept) PROVE Explained
      <3> DEFINE g == tasks[s].group
                 roles == tasks[s].roles
      <3>1. At(s, "created") /\ tasks'[s].at # "created"
        BY <1>0, <2>1 DEF FinishCreateGroup, At, Goes, Idle
      <3>2. db' = TeamTagged(db, g, roles, kept) /\ kept \subseteq TeamOf(roles)
        BY <2>1 DEF FinishCreateGroup
      <3> HIDE DEF g, roles
      <3>3. /\ db'.users = db.users
            /\ \A n \in db'.members \ db.members : /\ n.group = g /\ n.user \in TeamOf(roles)
                                                   /\ n.tag = roles[n.user]
        BY <1>0, <3>2, TeamTaggedColumns
      <3>4. CASE m \notin db.members
        <4>1. roles[m.user] # db.users[m.user] /\ m.group = g
          BY <3>3, <3>4, RoleAssumption DEF Disagrees, TeamOf
        <4> QED BY <3>1, <4>1 DEF WritesStaleRead, At, g, roles
      <3> QED BY <1>1, <3>3, <3>4
    <2>2. CASE FinishAddClient(s)
      <3> DEFINE g == tasks[s].group
                 u == tasks[s].user
                 link == tasks[s].link
      <3>1. u \in Users /\ db' = ClientAdded(db, g, u, link)
        BY <2>0, <2>2, TaskFields DEF FinishAddClient, At
      <3> HIDE DEF g, u, link
      <3>2. /\ \A v \in Users : db'.users[v] # db.users[v] =>
                   v = u /\ db.users[v] = NoUser /\ db'.users[v] = NoRole
            /\ db'.users[u] # NoUser \/ Client \in TagsOf(db, g, u)
            /\ db'.members = {n \in db.members : ~(n.group = g /\ n.user = u /\ n.tag = Client)}
                                 \cup {Row(g, u, Client, link)}
        BY <1>0, <3>1, ClientAddedColumns
      <3>3. CASE m \in db.members
        BY <1>0, <3>2, <3>3, KeptRow
      <3>4. CASE m \notin db.members
        <4>1. m.group = g /\ m.user = u /\ m.tag = Client
          BY <3>2, <3>4 DEF Row
        <4>2. db'.users[u] = NoUser
          BY <4>1, TagAssumption DEF Disagrees
        <4>3. db.users[u] = NoUser
          BY <1>0, <3>2, <4>1, <4>2, RoleAssumption
        <4>4. PICK n \in RowsOf(db, g, u) : n.tag = Client
          BY <3>2, <4>2 DEF TagsOf
        <4>5. Disagrees(db, n)
          BY <4>3, <4>4 DEF Disagrees, RowsOf
        <4> QED BY <4>1, <4>4, <4>5 DEF DisagreedIn
      <3> QED BY <3>3, <3>4
    <2>3. CASE FinishOffboard(s)
      BY <1>0, <1>1, <2>0, <2>3, TaskFields, DeleteUserColumns DEF FinishOffboard, At
    <2>4. CASE ReadMembers(s) \/ TransactionFails(s)
      BY <1>1, <2>4 DEF ReadMembers, TransactionFails
    <2>5. CASE WriteSync(s)
      <3>1. PICK g, present, current, roles :
                g = tasks[s].group /\ present = tasks[s].present /\ current = tasks[s].current
                /\ roles = tasks[s].roles
        OBVIOUS
      <3>2. g \in Groups /\ present \in SUBSET Users /\ db' = Synced(db, g, present, current, roles)
        BY <2>0, <2>5, <3>1, TaskFields DEF WriteSync, At
      <3>3. tasks[s].at = "read" /\ tasks'[s] # tasks[s]
        BY <1>0, <2>5 DEF WriteSync, At, Goes, Idle
      <3>4. Sound(db) /\ m.user \in Users
        BY <1>0
      <3>5. DisagreedIn(db, m) \/ (m.group = g /\ roles[m.user] # db.users[m.user])
        BY <3>2, <3>4, SyncDisagrees
      <3> QED BY <3>1, <3>3, <3>5 DEF WritesStaleRead
    <2>6. CASE WriteSyncOfNewGroup(s)
      <3> DEFINE g == tasks[s].group
                 base == CreateGroupRecord(db, g)
      <3>1. g \in Groups /\ tasks[s].present \in SUBSET Users
        BY <2>0, <2>6, TaskFields DEF WriteSyncOfNewGroup, At
      <3>2. Sound(base) /\ base.members = db.members /\ base.users = db.users
        BY <1>0, <3>1, CreateGroupRecordSound, CreateGroupRecordColumns
      <3>3. db' = Synced(base, g, tasks[s].present, MembersOf(db, g), db.users)
        BY <2>6 DEF WriteSyncOfNewGroup
      <3> HIDE DEF base
      <3>4. DisagreedIn(base, m) \/ db.users[m.user] # base.users[m.user]
        BY <1>0, <3>1, <3>2, <3>3, SyncDisagrees
      <3> QED BY <3>2, <3>4 DEF DisagreedIn, RowsOf, Disagrees
    <2>7. CASE FinishRemove(s)
      BY <1>2, <2>7 DEF FinishRemove
    <2>8. CASE FinishRemoveGroup(s)
      BY <1>3, <2>8 DEF FinishRemoveGroup
    <2> QED BY <1>4, <2>1, <2>2, <2>3, <2>4, <2>5, <2>6, <2>7, <2>8 DEF DatabaseStep
  <1>5. ASSUME NEW s \in Slots, Begin(s) \/ TelegramStep(s) PROVE Explained
    <2>1. UNCHANGED db
      BY <1>5
      DEF Begin, StartCreateGroup, StartAddClient, StartOffboard, StartSync, StartRemove,
          StartRemoveGroup, TelegramStep, ChatAppears, CreateChat, CreateChatHalfway,
          InviteDirectly, InviteByLink, Bans,
          BanEverywhere, BanInterrupted, Scan, Kick, DeleteChat, EndCreateGroup, TelegramFails
    <2> QED BY <1>1, <2>1
  <1>6. CASE OneTransaction
    <2>1. ASSUME NEW u \in Users, OpenApp(u) PROVE Explained
      <3>1. /\ db'.members = db.members
            /\ db'.users = [v \in Users |-> IF v \in {u} /\ db.users[v] = NoUser THEN NoRole
                                             ELSE db.users[v]]
        BY <1>0, <2>1, GetOrCreateUsersColumns DEF OpenApp
      <3> QED BY <1>0, <3>1, KeptRow
    <2>2. ASSUME NEW u \in Users, NEW r \in Roles, SetRole(u, r) PROVE Explained
      <3> DEFINE known == GetOrCreateUsers(db, {u})
                 given == SetUserRole(known, u, r)
      <3>1. /\ Sound(known) /\ known.members = db.members
            /\ known.users = [v \in Users |-> IF v \in {u} /\ db.users[v] = NoUser THEN NoRole
                                               ELSE db.users[v]]
        BY <1>0, GetOrCreateUsersSound, GetOrCreateUsersColumns
      <3> HIDE DEF known
      <3>2. /\ Sound(given) /\ given.members = db.members
            /\ \A v \in Users : given.users[v] =
                   IF v = u /\ known.users[v] # NoUser THEN r ELSE known.users[v]
        BY <3>1, SetUserRoleSound, SetUserRoleColumns
      <3>3. db' = SyncRoleToGroupTags(db, given, u, r)
        BY <2>2 DEF SetRole, given, known
      <3> HIDE DEF given
      <3>4. /\ db'.users = given.users
            /\ m.user # u \/ m.tag \notin Roles => m \in given.members
            /\ m.user = u /\ m.tag \in Roles => m.tag = r
        BY <3>2, <3>3, SyncRoleToGroupTagsColumns
      <3>5. CASE m.user = u
        <4>1. db'.users[u] = r
          BY <3>1, <3>2, <3>4, RoleAssumption
        <4> QED BY <3>4, <3>5, <4>1, RoleAssumption DEF Disagrees
      <3>6. CASE m.user # u
        <4>1. db'.users[m.user] = db.users[m.user] /\ m \in db.members
          BY <1>0, <3>1, <3>2, <3>4, <3>6
        <4> QED BY <1>1, <4>1
      <3> QED BY <3>5, <3>6
    <2>3. ASSUME NEW a \in Users, NEW u \in Users, NEW g \in Groups, NEW t \in ManualTags,
                 TagMember(a, g, u, t)
          PROVE  Explained
      <3>1. \E no : db' = AddMemberTag(db, db, g, u, t, no)
        BY <2>3, Zenon DEF TagMember
      <3>2. PICK no : db' = AddMemberTag(db, db, g, u, t, no)
        BY <3>1
      <3>3. db'.users = db.users /\ (m \in db.members \/ m = Row(g, u, t, no))
        BY <1>0, <3>2, LoneTagColumns
      <3>4. CASE m = Row(g, u, t, no)
        <4>1. m.group = g /\ m.user = u /\ m.tag = t
          BY <3>4 DEF Row
        <4> QED BY <2>3, <4>1
      <3> QED BY <1>1, <3>3, <3>4
    <2> QED BY <1>6, <2>1, <2>2, <2>3 DEF OneTransaction
  <1>7. CASE Outside
    <2>1. UNCHANGED db
      BY <1>7 DEF Outside, Joins, Leaves, BotKicked, BotInvited
    <2> QED BY <1>1, <2>1
  <1>8. ASSUME NEW up \in updates,
               OnMemberJoined(up) \/ OnMemberLeft(up) \/ OnBotAdded(up) \/ IgnoreBotAdded(up) \/ OnBotRemoved(up)
        PROVE  Explained
    <2>1. CASE OnMemberJoined(up)
      <3>1. db'.members = {Cleared(n, up.group, up.user) : n \in db.members} /\ db'.users = db.users
        BY <1>0, <2>1, ClearPendingColumns DEF OnMemberJoined
      <3>2. PICK n \in db.members : m = Cleared(n, up.group, up.user)
        BY <3>1
      <3>3. m.group = n.group /\ m.user = n.user /\ m.tag = n.tag
        BY <1>0, <3>2 DEF Cleared, Sound, Databases, MemberRows
      <3> QED BY <3>1, <3>3 DEF DisagreedIn, RowsOf, Disagrees
    <2>2. CASE OnMemberLeft(up)
      BY <1>2, <2>2 DEF OnMemberLeft
    <2>3. CASE OnBotAdded(up)
      BY <1>0, <1>1, <2>3, CreateGroupRecordColumns DEF OnBotAdded
    <2>4. CASE IgnoreBotAdded(up)
      BY <1>1, <2>4 DEF IgnoreBotAdded
    <2>5. CASE OnBotRemoved(up)
      BY <1>3, <2>5 DEF OnBotRemoved
    <2> QED BY <1>8, <2>1, <2>2, <2>3, <2>4, <2>5
  <1>9. CASE UNCHANGED vars
    BY <1>1, <1>9 DEF vars
  <1> QED BY <1>4, <1>5, <1>6, <1>7, <1>8, <1>9 DEF Next, Deliver

(* Rows and users fall apart only where create_group or /sync writes down  *)
(* a role that has changed since it was read, or where somebody tags by    *)
(* hand, in every interleaving.                                            *)
THEOREM OnlyStaleReads == Spec => OnlyStaleReadsDisagree
  <1>1. Inv /\ [Next]_vars => Inv'
    BY SoundStep, RestStep DEF Inv
  <1>2. Inv /\ [Next]_vars =>
        [\A m \in db'.members :
            Disagrees(db', m) =>
                \/ \E n \in RowsOf(db, m.group, m.user) : n.tag = m.tag /\ Disagrees(db, n)
                \/ \E s \in Slots :
                      /\ tasks[s].at \in {"created", "read"} /\ tasks'[s] # tasks[s]
                      /\ tasks[s].group = m.group /\ tasks[s].roles[m.user] # db.users[m.user]
                \/ \E a \in Users : TagMember(a, m.group, m.user, m.tag)]_vars
    BY <1>1, DisagreementStep DEF DisagreedIn, WritesStaleRead
  <1> QED BY Invariant, <1>2, PTL DEF Spec, OnlyStaleReadsDisagree

-----------------------------------------------------------------------------
(* OverlookedOnlyByLateCommit.                                             *)

\* What add_client commits after it has given out an invite link.
LinkCommits(m) ==
    \E s \in Slots :
        /\ At(s, "invited") /\ tasks'[s] # tasks[s]
        /\ tasks[s].link /\ tasks[s].group = m.group /\ tasks[s].user = m.user

(* Of a sync no row comes out pending that did not go in so.               *)
LEMMA SyncNotPending ==
    ASSUME NEW base, Sound(base), NEW g \in Groups, NEW present \in SUBSET Users,
           NEW current, NEW roles, NEW new, new = Synced(base, g, present, current, roles),
           NEW m \in new.members, m.pending
    PROVE  m \in base.members
  <1>1. SyncReturns(base, g, present, current, roles, new)
    BY SyncedColumns
  <1> QED BY <1>1 DEF SyncReturns

(* A row that is pending was there and pending before the step, unless it  *)
(* is the one that add_client commits for an invite link.                  *)
LEMMA PendingRowsComeFrom ==
    ASSUME Inv, Inv', [Next]_vars, NEW m \in db'.members, m.pending
    PROVE  m \in db.members \/ LinkCommits(m)
  <1> DEFINE Known == m \in db.members \/ LinkCommits(m)
  <1>0. Sound(db) /\ tasks \in [Slots -> Tasks]
    BY DEF Inv, RestOK
  <1>2. ASSUME NEW g, NEW us, db' = RemoveMembers(db, g, us, db.users) PROVE Known
    BY <1>0, <1>2, RemoveMembersColumns
  <1>3. ASSUME NEW g, db' = DeleteGroup(db, g) PROVE Known
    <2>1. db'.members = IF g \in db.groups THEN {n \in db.members : n.group # g} ELSE db.members
      BY <1>0, <1>3, DeleteGroupColumns
    <2> QED BY <2>1
  <1>4. ASSUME NEW s \in Slots, DatabaseStep(s) PROVE Known
    <2>0. tasks[s] \in Tasks
      BY <1>0
    <2>1. ASSUME NEW kept \in SUBSET Users, FinishCreateGroup(s, kept) PROVE Known
      <3>1. \A n \in db'.members \ db.members : ~n.pending
        BY <1>0, <2>1, TeamTaggedColumns DEF FinishCreateGroup
      <3> QED BY <3>1
    <2>2. CASE FinishAddClient(s)
      <3> DEFINE g == tasks[s].group
                 u == tasks[s].user
                 link == tasks[s].link
      <3>1. u \in Users /\ db' = ClientAdded(db, g, u, link)
        BY <2>0, <2>2, TaskFields DEF FinishAddClient, At
      <3>2. At(s, "invited") /\ tasks'[s] # tasks[s]
        BY <1>0, <2>2 DEF FinishAddClient, At, Goes, Idle
      <3> HIDE DEF g, u, link
      <3>3. db'.members = {n \in db.members : ~(n.group = g /\ n.user = u /\ n.tag = Client)}
                             \cup {Row(g, u, Client, link)}
        BY <1>0, <3>1, ClientAddedColumns
      <3>4. CASE m = Row(g, u, Client, link)
        <4>1. m.group = g /\ m.user = u /\ m.pending = link
          BY <3>4 DEF Row
        <4>2. link
          BY <4>1, Zenon
        <4> QED BY <3>2, <4>1, <4>2 DEF LinkCommits, g, u, link
      <3> QED BY <3>3, <3>4
    <2>3. CASE FinishOffboard(s)
      BY <1>0, <2>0, <2>3, TaskFields, DeleteUserColumns DEF FinishOffboard, At
    <2>4. CASE ReadMembers(s) \/ TransactionFails(s)
      BY <2>4 DEF ReadMembers, TransactionFails
    <2>5. CASE WriteSync(s)
      <3>1. /\ tasks[s].group \in Groups /\ tasks[s].present \in SUBSET Users
            /\ db' = Synced(db, tasks[s].group, tasks[s].present, tasks[s].current, tasks[s].roles)
        BY <2>0, <2>5, TaskFields DEF WriteSync, At
      <3> QED BY <1>0, <3>1, SyncNotPending
    <2>6. CASE WriteSyncOfNewGroup(s)
      <3> DEFINE g == tasks[s].group
                 base == CreateGroupRecord(db, g)
      <3>1. g \in Groups /\ tasks[s].present \in SUBSET Users
        BY <2>0, <2>6, TaskFields DEF WriteSyncOfNewGroup, At
      <3>2. Sound(base) /\ base.members = db.members
        BY <1>0, <3>1, CreateGroupRecordSound, CreateGroupRecordColumns
      <3>3. db' = Synced(base, g, tasks[s].present, MembersOf(db, g), db.users)
        BY <2>6 DEF WriteSyncOfNewGroup
      <3> HIDE DEF base
      <3> QED BY <3>1, <3>2, <3>3, SyncNotPending
    <2>7. CASE FinishRemove(s)
      BY <1>2, <2>7 DEF FinishRemove
    <2>8. CASE FinishRemoveGroup(s)
      BY <1>3, <2>8 DEF FinishRemoveGroup
    <2> QED BY <1>4, <2>1, <2>2, <2>3, <2>4, <2>5, <2>6, <2>7, <2>8 DEF DatabaseStep
  <1>5. ASSUME NEW s \in Slots, Begin(s) \/ TelegramStep(s) PROVE Known
    BY <1>5
    DEF Begin, StartCreateGroup, StartAddClient, StartOffboard, StartSync, StartRemove,
        StartRemoveGroup, TelegramStep, ChatAppears, CreateChat, CreateChatHalfway,
        InviteDirectly, InviteByLink, Bans,
        BanEverywhere, BanInterrupted, Scan, Kick, DeleteChat, EndCreateGroup, TelegramFails
  <1>6. CASE OneTransaction
    <2>1. ASSUME NEW u \in Users, OpenApp(u) PROVE Known
      BY <1>0, <2>1, GetOrCreateUsersColumns DEF OpenApp
    <2>2. ASSUME NEW u \in Users, NEW r \in Roles, SetRole(u, r) PROVE Known
      <3> DEFINE known == GetOrCreateUsers(db, {u})
                 given == SetUserRole(known, u, r)
      <3>1. Sound(known) /\ known.members = db.members
        BY <1>0, GetOrCreateUsersSound, GetOrCreateUsersColumns
      <3> HIDE DEF known
      <3>2. Sound(given) /\ given.members = db.members
        BY <3>1, SetUserRoleSound, SetUserRoleColumns
      <3>3. db' = SyncRoleToGroupTags(db, given, u, r)
        BY <2>2 DEF SetRole, given, known
      <3> HIDE DEF given
      <3>4. m \in given.members
        BY <3>2, <3>3, SyncRoleToGroupTagsColumns
      <3> QED BY <3>2, <3>4
    <2>3. ASSUME NEW a, NEW u, NEW g, NEW t, TagMember(a, g, u, t) PROVE Known
      <3>1. PICK no : no = FALSE
        OBVIOUS
      <3>2. db' = AddMemberTag(db, db, g, u, t, FALSE)
        BY <2>3 DEF TagMember
      <3>3. db' = AddMemberTag(db, db, g, u, t, no)
        BY <3>1, <3>2, Zenon
      <3>4. m \in db.members \/ m = Row(g, u, t, no)
        BY <1>0, <3>3, LoneTagColumns
      <3>5. Row(g, u, t, no).pending = no
        BY DEF Row
      <3>6. m # Row(g, u, t, no)
        BY <3>1, <3>5, Zenon
      <3> QED BY <3>4, <3>6
    <2> QED BY <1>6, <2>1, <2>2, <2>3 DEF OneTransaction
  <1>7. CASE Outside
    BY <1>7 DEF Outside, Joins, Leaves, BotKicked, BotInvited
  <1>8. ASSUME NEW up \in updates,
               OnMemberJoined(up) \/ OnMemberLeft(up) \/ OnBotAdded(up) \/ IgnoreBotAdded(up) \/ OnBotRemoved(up)
        PROVE  Known
    <2>1. CASE OnMemberJoined(up)
      <3>1. db'.members = {Cleared(n, up.group, up.user) : n \in db.members}
        BY <1>0, <2>1, ClearPendingColumns DEF OnMemberJoined
      <3>2. PICK n \in db.members : m = Cleared(n, up.group, up.user)
        BY <3>1
      <3>3. n \in MemberRows
        BY <1>0 DEF Sound, Databases
      <3>4. CASE n.group = up.group /\ n.user = up.user
        <4>1. m = [n EXCEPT !.pending = FALSE]
          BY <3>2, <3>4 DEF Cleared
        <4>2. m.pending = FALSE
          BY <3>3, <4>1 DEF MemberRows
        <4> QED BY <4>2, Zenon
      <3>5. CASE ~(n.group = up.group /\ n.user = up.user)
        BY <3>2, <3>5 DEF Cleared
      <3> QED BY <3>4, <3>5
    <2>2. CASE OnMemberLeft(up)
      BY <1>2, <2>2 DEF OnMemberLeft
    <2>3. CASE OnBotAdded(up)
      BY <1>0, <2>3, CreateGroupRecordColumns DEF OnBotAdded
    <2>4. CASE IgnoreBotAdded(up)
      BY <2>4 DEF IgnoreBotAdded
    <2>5. CASE OnBotRemoved(up)
      BY <1>3, <2>5 DEF OnBotRemoved
    <2> QED BY <1>8, <2>1, <2>2, <2>3, <2>4, <2>5
  <1>9. CASE UNCHANGED vars
    BY <1>9 DEF vars
  <1> QED BY <1>4, <1>5, <1>6, <1>7, <1>8, <1>9 DEF Next, Deliver

(* The handler of a join leaves no row of that person pending.             *)
LEMMA JoinsAreNoticed ==
    ASSUME Inv, NEW up \in updates, OnMemberJoined(up),
           NEW m \in db'.members, m.group = up.group, m.user = up.user
    PROVE  ~m.pending
  <1>1. Sound(db)
    BY DEF Inv
  <1>2. db'.members = {Cleared(n, up.group, up.user) : n \in db.members}
    BY <1>1, ClearPendingColumns DEF OnMemberJoined
  <1>3. PICK n \in db.members : m = Cleared(n, up.group, up.user)
    BY <1>2
  <1>4. n \in MemberRows
    BY <1>1 DEF Sound, Databases
  <1>5. n.group = up.group /\ n.user = up.user
    BY <1>3, <1>4 DEF Cleared, MemberRows
  <1>6. m = [n EXCEPT !.pending = FALSE]
    BY <1>3, <1>5 DEF Cleared
  <1>7. m.pending = FALSE
    BY <1>4, <1>6 DEF MemberRows
  <1> QED BY <1>7, Zenon

(* A row that was pending and would still be told of is not overlooked     *)
(* after the step.                                                         *)
LEMMA StillTold ==
    ASSUME Inv, Inv', Born, [Next]_vars,
           NEW m \in db.members, m \in db'.members, m.pending, m \notin Overlooked
    PROVE  m \notin Overlooked'
  <1> DEFINE g == m.group
             u == m.user
             told == Update("joined", g, u)
  <1>0. /\ g \in Groups /\ u \in Users /\ bot[g] # "unborn"
        /\ updates' \subseteq Updates
    BY DEF Inv, RestOK, Sound, Databases, MemberRows, Born
  <1> HIDE DEF g, u
  <1>1. ~(bot[g] = "live" /\ u \in chat[g]) \/ told \in updates
    BY DEF Overlooked, g, u
  <1>2. SUFFICES ASSUME bot'[g] = "live", u \in chat'[g], told \notin updates' PROVE FALSE
    BY DEF Overlooked, g, u, told
  <1>3. told.kind = "joined" /\ told.group = g /\ told.user = u
    BY UpdateIs
  <1>4. ASSUME NEW up \in updates', up.kind = "joined", up.group = g, up.user = u PROVE FALSE
    <2>1. up = told
      BY <1>0, <1>4 DEF Updates, Update
    <2> QED BY <1>2, <2>1
  <1> HIDE DEF told
  <1>5. CASE (\E s \in Slots : TelegramStep(s)) \/ Outside
    <2>1. \/ bot[g] = "live" /\ u \in chat[g]
          \/ \E up \in updates' : up.kind = "joined" /\ up.group = g /\ up.user = u
      BY <1>0, <1>2, <1>5, ArrivalsAreTold
    <2>2. updates \subseteq updates'
      BY <1>5, ArrivalsAreTold
    <2> QED BY <1>1, <1>2, <1>4, <2>1, <2>2
  <1>6. CASE UNCHANGED <<bot, chat, updates>>
    BY <1>1, <1>2, <1>6
  <1>7. ASSUME NEW up \in updates,
               OnMemberJoined(up) \/ OnMemberLeft(up) \/ OnBotAdded(up) \/ IgnoreBotAdded(up) \/ OnBotRemoved(up)
        PROVE  FALSE
    <2>1. UNCHANGED <<bot, chat>> /\ updates' = updates \ {up}
      BY <1>7 DEF OnMemberJoined, OnMemberLeft, OnBotAdded, IgnoreBotAdded, OnBotRemoved, Handled
    <2>2. up = told
      BY <1>1, <1>2, <2>1
    <2>3. OnMemberJoined(up)
      BY <1>3, <1>7, <2>2 DEF OnMemberLeft, OnBotAdded, IgnoreBotAdded, OnBotRemoved
    <2> QED BY <1>3, <2>2, <2>3, JoinsAreNoticed DEF g, u
  <1>8. ASSUME NEW s \in Slots, Begin(s) \/ DatabaseStep(s) PROVE UNCHANGED <<bot, chat, updates>>
    <2>1. CASE Begin(s)
      BY <2>1 DEF Begin, StartCreateGroup, StartAddClient, StartOffboard, StartSync, StartRemove,
          StartRemoveGroup
    <2>2. CASE DatabaseStep(s)
      BY <2>2 DEF DatabaseStep, FinishCreateGroup, FinishAddClient, FinishOffboard, ReadMembers,
          WriteSync, TransactionFails, WriteSyncOfNewGroup, FinishRemove, FinishRemoveGroup
    <2> QED BY <1>8, <2>1, <2>2
  <1>9. CASE OneTransaction
    BY <1>6, <1>9 DEF OneTransaction, OpenApp, SetRole, TagMember
  <1>10. CASE UNCHANGED vars
    BY <1>6, <1>10 DEF vars
  <1> QED BY <1>5, <1>6, <1>7, <1>8, <1>9, <1>10 DEF Next, Deliver

(* A pending row is overlooked only when its bearer followed the invite    *)
(* link before add_client committed the row, in every interleaving.        *)
THEOREM OnlyLateCommits == Spec => OverlookedOnlyByLateCommit
  <1> DEFINE I == Inv /\ Born
  <1>1. Init => I
    BY InvInit, BornInit
  <1>2. I /\ [Next]_vars => I'
    <2>1. Inv /\ [Next]_vars => Inv'
      BY SoundStep, RestStep DEF Inv
    <2> QED BY <2>1, BornStep
  <1>3. I /\ [Next]_vars =>
        [\A m \in Overlooked' \ Overlooked :
            \E s \in Slots :
                /\ At(s, "invited") /\ tasks'[s] # tasks[s]
                /\ tasks[s].link /\ tasks[s].group = m.group /\ tasks[s].user = m.user]_vars
    <2>1. SUFFICES ASSUME I, [Next]_vars, NEW m \in Overlooked' \ Overlooked PROVE LinkCommits(m)
      BY DEF LinkCommits
    <2>2. m \in db'.members /\ m.pending
      BY <2>1 DEF Overlooked
    <2>3. Inv /\ Born /\ Inv'
      BY <1>2, <2>1
    <2>4. m \notin db.members
      BY <2>1, <2>2, <2>3, StillTold
    <2> QED BY <2>1, <2>2, <2>3, <2>4, PendingRowsComeFrom
  <1> HIDE DEF I
  <1> QED BY <1>1, <1>2, <1>3, PTL DEF Spec, OverlookedOnlyByLateCommit
=============================================================================
