---------------------------- MODULE PushesProofs ----------------------------
(***************************************************************************)
(* Theorems about Pushes: whichever operations cross, no screen is left    *)
(* behind without being told, but those that `untold` accounts for.        *)
(***************************************************************************)
EXTENDS Pushes, SerialProofs

(* Steps leave what every screen shows as it was, or tell it.              *)
Covered(old, new, pushes, forgotten) ==
    /\ \A u \in Users : GroupsOf(old, u) # GroupsOf(new, u) => GroupsView(u) \in pushes \cup forgotten
    /\ \A u \in Users : ShownRole(old, u) # ShownRole(new, u) => ProfileView(u) \in pushes \cup forgotten
    /\ \A g \in Groups : ShownMembers(old, g) # ShownMembers(new, g) =>
           \/ ToGroup(g) \in pushes
           \/ \A u \in MembersOf(new, g) : MembersView(g, u) \in forgotten

(* What Tells adds to the step.                                            *)
Telling(pushes, forgotten) ==
    /\ owed' = owed \cup pushes
    /\ stale' = (stale \cup Outdated(db, db')) \cap Visible(db')
    /\ untold' = (untold \cup (forgotten \cap Outdated(db, db'))) \cap Visible(db')

(* The pushes under way reach every screen that is behind, but those that  *)
(* were forgotten.                                                         *)
Reached(v) == v \in untold \/ v \in owed \/ (v.kind = "members" /\ ToGroup(v.group) \in owed)

PushInv ==
    /\ PushTypeOK
    /\ stale \subseteq Visible(db)
    /\ \A v \in stale : Reached(v)

-----------------------------------------------------------------------------
(* Screens and pushes.                                                     *)

(* The kinds of screens and pushes are told apart by their kind.           *)
LEMMA ViewsAre ==
    /\ \A u : GroupsView(u).kind = "groups" /\ GroupsView(u).user = u
    /\ \A u : ProfileView(u).kind = "profile" /\ ProfileView(u).user = u
    /\ \A g, u : /\ MembersView(g, u).kind = "members" /\ MembersView(g, u).user = u
                 /\ MembersView(g, u).group = g
    /\ \A g : ToGroup(g).kind = "group"
  BY DEF GroupsView, ProfileView, MembersView, ToGroup

LEMMA ViewTypes ==
    /\ \A u \in Users : GroupsView(u) \in Views /\ ProfileView(u) \in Views
    /\ \A g \in Groups, u \in Users : MembersView(g, u) \in Views
    /\ \A g \in Groups : ToGroup(g) \in Owed /\ ToGroup(g) \notin Views
    /\ Views \subseteq Owed
  BY DEF GroupsView, ProfileView, MembersView, ToGroup, Views, Owed

(* A screen of members is that of its group and user.                      *)
LEMMA MembersViewIs ==
    ASSUME NEW v \in Views, v.kind = "members"
    PROVE  v = MembersView(v.group, v.user) /\ v.group \in Groups /\ v.user \in Users
  BY DEF MembersView, Views

(* What a step leaves behind, kind by kind.                                *)
LEMMA OutdatedIs ==
    ASSUME NEW old, NEW new, NEW v \in Outdated(old, new)
    PROVE  \/ \E u \in Users : v = GroupsView(u) /\ GroupsOf(old, u) # GroupsOf(new, u)
           \/ \E u \in Users : v = ProfileView(u) /\ ShownRole(old, u) # ShownRole(new, u)
           \/ \E g \in Groups : /\ ShownMembers(old, g) # ShownMembers(new, g)
                                /\ \E u \in MembersOf(old, g) \cap MembersOf(new, g) : v = MembersView(g, u)
  BY Zenon DEF Outdated

(* So what is covered is told or forgotten.                                *)
LEMMA CoveredOutdated ==
    ASSUME NEW old, NEW new, NEW pushes, NEW forgotten, Covered(old, new, pushes, forgotten),
           NEW v \in Outdated(old, new)
    PROVE  \/ v \in pushes \/ v \in forgotten
           \/ v.kind = "members" /\ ToGroup(v.group) \in pushes
  <1>1. ASSUME NEW u \in Users, v = GroupsView(u), GroupsOf(old, u) # GroupsOf(new, u)
        PROVE  v \in pushes \/ v \in forgotten
    BY <1>1 DEF Covered
  <1>2. ASSUME NEW u \in Users, v = ProfileView(u), ShownRole(old, u) # ShownRole(new, u)
        PROVE  v \in pushes \/ v \in forgotten
    BY <1>2 DEF Covered
  <1>3. ASSUME NEW g \in Groups, ShownMembers(old, g) # ShownMembers(new, g),
               NEW u \in MembersOf(old, g) \cap MembersOf(new, g), v = MembersView(g, u)
        PROVE  v \in forgotten \/ (v.kind = "members" /\ ToGroup(v.group) \in pushes)
    BY <1>3, ViewsAre DEF Covered
  <1> QED BY <1>1, <1>2, <1>3, OutdatedIs

(* A step that tells what it changes keeps the invariant.                  *)
LEMMA TellsKeeps ==
    ASSUME PushInv, NEW pushes \in SUBSET Owed, NEW forgotten, Telling(pushes, forgotten),
           Covered(db, db', pushes, forgotten)
    PROVE  PushInv'
  <1>1. /\ owed' = owed \cup pushes
        /\ stale' = (stale \cup Outdated(db, db')) \cap Visible(db')
        /\ untold' = (untold \cup (forgotten \cap Outdated(db, db'))) \cap Visible(db')
    BY DEF Telling
  <1>2. Visible(db') \subseteq Views
    BY DEF Visible
  <1>3. PushTypeOK'
    BY <1>1, <1>2 DEF PushInv, PushTypeOK
  <1>4. ASSUME NEW v \in stale' PROVE Reached(v)'
    <2>1. CASE v \in stale
      BY <1>1, <2>1 DEF PushInv, Reached
    <2>2. CASE v \in Outdated(db, db')
      BY <1>1, <2>2, CoveredOutdated DEF Reached
    <2> QED BY <1>1, <2>1, <2>2
  <1>5. stale' \subseteq Visible(db')
    BY <1>1
  <1> QED BY <1>3, <1>4, <1>5 DEF PushInv

-----------------------------------------------------------------------------
(* Writes, by the rows they touch.                                         *)

(* Only rows of one group come or go.                                      *)
OnlyIn(old, new, g) ==
    \A m : m.group # g => (m \in old.members <=> m \in new.members)

(* Only rows of one member.                                                *)
OnlyOf(old, new, g, u) ==
    \A m : ~(m.group = g /\ m.user = u) => (m \in old.members <=> m \in new.members)

(* Who shows no role keeps showing none, others keep their role.           *)
SameRoles(old, new) == \A u \in Users : ShownRole(old, u) = ShownRole(new, u)

LEMMA OnlyOfIsOnlyIn ==
    ASSUME NEW old, NEW new, NEW g, NEW u, OnlyOf(old, new, g, u)
    PROVE  OnlyIn(old, new, g)
  BY DEF OnlyOf, OnlyIn

(* The other groups show the same members,                                 *)
LEMMA OthersShowTheSame ==
    ASSUME NEW old, NEW new, NEW g, OnlyIn(old, new, g), NEW h, h # g
    PROVE  /\ ShownMembers(old, h) = ShownMembers(new, h)
           /\ \A u : RowsOf(old, h, u) = RowsOf(new, h, u)
  BY DEF OnlyIn, ShownMembers, RowsOf

(* and a list of groups changes only by that one,                          *)
LEMMA ListsChangeBy ==
    ASSUME NEW old, NEW new, NEW g, OnlyIn(old, new, g), old.groups \ {g} = new.groups \ {g},
           NEW u, GroupsOf(old, u) # GroupsOf(new, u)
    PROVE  ~(g \in GroupsOf(old, u) <=> g \in GroupsOf(new, u))
  <1>1. SUFFICES ASSUME g \in GroupsOf(old, u) <=> g \in GroupsOf(new, u) PROVE FALSE
    OBVIOUS
  <1>2. ASSUME NEW h, h # g PROVE h \in GroupsOf(old, u) <=> h \in GroupsOf(new, u)
    BY <1>2, OthersShowTheSame DEF GroupsOf
  <1> QED BY <1>1, <1>2

(* of those whose rows there do, or all of it.                             *)
LEMMA ListsFollowRows ==
    ASSUME NEW old, NEW new, NEW g, OnlyIn(old, new, g), old.groups = new.groups,
           NEW u, GroupsOf(old, u) # GroupsOf(new, u)
    PROVE  RowsOf(old, g, u) # RowsOf(new, g, u)
  <1>1. ~(g \in GroupsOf(old, u) <=> g \in GroupsOf(new, u))
    BY ListsChangeBy
  <1> QED BY <1>1 DEF GroupsOf

(* If only rows of one member change, his list and his group are told.     *)
LEMMA CoveredByMember ==
    ASSUME NEW old, NEW new, NEW g, NEW u, OnlyOf(old, new, g, u), old.groups = new.groups,
           SameRoles(old, new)
    PROVE  \A pushes, forgotten :
               ToGroup(g) \in pushes /\ GroupsView(u) \in pushes \cup forgotten =>
                   Covered(old, new, pushes, forgotten)
  <1>1. OnlyIn(old, new, g)
    BY OnlyOfIsOnlyIn
  <1>2. \A v : v # u => RowsOf(old, g, v) = RowsOf(new, g, v)
    BY DEF OnlyOf, RowsOf
  <1>3. \A v \in Users : GroupsOf(old, v) # GroupsOf(new, v) => v = u
    BY <1>1, <1>2, ListsFollowRows
  <1>4. \A h \in Groups : ShownMembers(old, h) # ShownMembers(new, h) => h = g
    BY <1>1, OthersShowTheSame
  <1> QED BY <1>3, <1>4 DEF Covered, SameRoles

(* Nothing changes on any screen.                                          *)
LEMMA CoveredSame ==
    ASSUME NEW old, NEW new, old.groups = new.groups, old.members = new.members, SameRoles(old, new)
    PROVE  \A pushes, forgotten : Covered(old, new, pushes, forgotten)
  BY DEF Covered, SameRoles, GroupsOf, RowsOf, ShownMembers

(* get_or_create_user                                                      *)
LEMMA CreatedShowsSame ==
    ASSUME NEW base, Sound(base), NEW us
    PROVE  SameRoles(base, GetOrCreateUsers(base, us))
  <1> DEFINE new == GetOrCreateUsers(base, us)
  <1>1. new.users = [u \in Users |-> IF u \in us /\ base.users[u] = NoUser THEN NoRole ELSE base.users[u]]
    BY GetOrCreateUsersColumns
  <1> HIDE DEF new
  <1>2. SameRoles(base, new)
    BY <1>1, RoleAssumption DEF SameRoles, ShownRole
  <1> QED BY <1>2 DEF new

-----------------------------------------------------------------------------
(* What each write changes is told or forgotten.                           *)

(* create_group                                                            *)
LEMMA TeamTaggedCovered ==
    ASSUME NEW base, Sound(base), NEW g, NEW roles, NEW kept, kept \subseteq TeamOf(roles)
    PROVE  Covered(base, TeamTagged(base, g, roles, kept),
                   IF RecordRolledBack(base, g, roles) THEN {}
                   ELSE {GroupsView(u) : u \in TeamOf(roles)},
                   {GroupsView(u) : u \in MembersOf(base, g)}
                       \cup {v \in Views : v.kind = "members" /\ v.group = g})
  <1> DEFINE new == TeamTagged(base, g, roles, kept)
             pushes == IF RecordRolledBack(base, g, roles) THEN {}
                       ELSE {GroupsView(u) : u \in TeamOf(roles)}
             forgotten == {GroupsView(u) : u \in MembersOf(base, g)}
                              \cup {v \in Views : v.kind = "members" /\ v.group = g}
  <1>1. /\ new.users = base.users
        /\ base.groups \subseteq new.groups
        /\ new.groups \subseteq base.groups \cup {g}
        /\ RecordRolledBack(base, g, roles) => new.groups = base.groups
        /\ base.members \subseteq new.members
        /\ \A m \in new.members \ base.members : m.group = g /\ m.user \in TeamOf(roles)
    BY TeamTaggedColumns
  <1> HIDE DEF new
  <1>2. OnlyIn(base, new, g) /\ base.groups \ {g} = new.groups \ {g}
    BY <1>1 DEF OnlyIn
  <1>3. ASSUME NEW u \in Users, GroupsOf(base, u) # GroupsOf(new, u)
        PROVE  GroupsView(u) \in pushes \cup forgotten
    <2>1. ~(g \in GroupsOf(base, u) <=> g \in GroupsOf(new, u))
      BY <1>2, <1>3, ListsChangeBy
    <2>2. RowsOf(new, g, u) # {}
      BY <1>1, <2>1 DEF GroupsOf, RowsOf
    <2>3. u \in TeamOf(roles) \/ u \in MembersOf(base, g)
      BY <1>1, <2>2 DEF RowsOf, MembersOf
    <2>4. ~RecordRolledBack(base, g, roles)
      <3>1. SUFFICES ASSUME RecordRolledBack(base, g, roles) PROVE FALSE
        OBVIOUS
      <3> QED BY <1>1, <2>1, <3>1 DEF RecordRolledBack, GroupsOf
    <2> QED BY <2>3, <2>4
  <1>4. \A u \in Users : ShownRole(base, u) = ShownRole(new, u)
    BY <1>1 DEF ShownRole
  <1>5. ASSUME NEW h \in Groups, ShownMembers(base, h) # ShownMembers(new, h),
               NEW u \in MembersOf(new, h)
        PROVE  MembersView(h, u) \in forgotten
    <2>1. h = g
      BY <1>2, <1>5, OthersShowTheSame
    <2>2. u \in Users
      <3>1. base.members \subseteq MemberRows /\ TeamOf(roles) \subseteq Users
        BY DEF Sound, Databases, TeamOf
      <3> QED BY <1>1, <1>5, <3>1 DEF MembersOf, MemberRows
    <2> QED BY <2>1, <2>2, ViewsAre, ViewTypes
  <1> HIDE DEF pushes, forgotten
  <1>6. Covered(base, new, pushes, forgotten)
    BY <1>3, <1>4, <1>5 DEF Covered
  <1> QED BY <1>6 DEF new, pushes, forgotten

(* add_client                                                              *)
LEMMA ClientAddedCovered ==
    ASSUME NEW base, Sound(base), NEW g, NEW u \in Users, NEW link
    PROVE  Covered(base, ClientAdded(base, g, u, link), ClientPushes(g, u), {})
  <1> DEFINE new == ClientAdded(base, g, u, link)
  <1>1. /\ \A v \in Users : new.users[v] # base.users[v] =>
               v = u /\ base.users[v] = NoUser /\ new.users[v] = NoRole
        /\ new.groups = base.groups
        /\ new.members = {m \in base.members : ~(m.group = g /\ m.user = u /\ m.tag = Client)}
                             \cup {Row(g, u, Client, link)}
    BY ClientAddedColumns
  <1>2. Row(g, u, Client, link).user = u /\ Row(g, u, Client, link).group = g
    BY DEF Row
  <1> HIDE DEF new
  <1>3. OnlyOf(base, new, g, u)
    BY <1>1, <1>2 DEF OnlyOf
  <1>4. SameRoles(base, new)
    BY <1>1, RoleAssumption DEF SameRoles, ShownRole
  <1>5. ToGroup(g) \in ClientPushes(g, u) /\ GroupsView(u) \in ClientPushes(g, u) \cup {}
    BY DEF ClientPushes
  <1>6. Covered(base, new, ClientPushes(g, u), {})
    BY <1>1, <1>3, <1>4, <1>5, CoveredByMember
  <1> QED BY <1>6 DEF new

(* remove_member of one person, with the roles on record.                  *)
LEMMA RemovedCovered ==
    ASSUME NEW base, Sound(base), NEW g, NEW u
    PROVE  Covered(base, RemoveMembers(base, g, {u}, base.users),
                   IF RowsOf(base, g, u) = {} THEN {} ELSE ClientPushes(g, u), {})
  <1> DEFINE new == RemoveMembers(base, g, {u}, base.users)
             pushes == IF RowsOf(base, g, u) = {} THEN {} ELSE ClientPushes(g, u)
  <1>1. /\ \A v \in Users : new.users[v] # base.users[v] =>
               base.users[v] = NoRole /\ new.users[v] = NoUser
        /\ new.groups = base.groups
        /\ new.members = {m \in base.members : ~(m.group = g /\ m.user \in {u})}
    BY RemoveMembersColumns
  <1> HIDE DEF new
  <1>2. SameRoles(base, new)
    BY <1>1, RoleAssumption DEF SameRoles, ShownRole
  <1>3. OnlyOf(base, new, g, u)
    BY <1>1 DEF OnlyOf
  <1>4. CASE RowsOf(base, g, u) = {}
    <2>1. new.members = base.members
      BY <1>1, <1>4 DEF RowsOf
    <2>2. Covered(base, new, pushes, {})
      BY <1>1, <1>2, <2>1, CoveredSame
    <2> QED BY <2>2 DEF new
  <1>5. CASE RowsOf(base, g, u) # {}
    <2>1. ToGroup(g) \in pushes /\ GroupsView(u) \in pushes \cup {}
      BY <1>5 DEF ClientPushes
    <2> HIDE DEF pushes
    <2>2. Covered(base, new, pushes, {})
      BY <1>1, <1>2, <1>3, <2>1, CoveredByMember
    <2> QED BY <2>2 DEF new, pushes
  <1> QED BY <1>4, <1>5

(* offboard_staff, with the groups read at its beginning.                  *)
LEMMA DeletedCovered ==
    ASSUME NEW base, Sound(base), NEW u \in Users, NEW groups
    PROVE  Covered(base, DeleteUser(base, u),
                   IF base.users[u] = NoUser THEN {} ELSE {ToGroup(g) : g \in groups},
                   {GroupsView(u), ProfileView(u)}
                       \cup {v \in Views : v.kind = "members"
                                            /\ (v.group \notin groups \/ base.users[u] = NoUser)})
  <1> DEFINE new == DeleteUser(base, u)
             told == IF base.users[u] = NoUser THEN {} ELSE {ToGroup(g) : g \in groups}
             forgotten == {GroupsView(u), ProfileView(u)}
                              \cup {v \in Views : v.kind = "members"
                                                   /\ (v.group \notin groups \/ base.users[u] = NoUser)}
  <1>1. /\ \A v \in Users : new.users[v] = IF v = u THEN NoUser ELSE base.users[v]
        /\ new.groups = base.groups
        /\ new.members = {m \in base.members : m.user # u}
    BY DeleteUserColumns
  <1> HIDE DEF new
  <1>2. ASSUME NEW v \in Users, GroupsOf(base, v) # GroupsOf(new, v) PROVE v = u
    <2>1. SUFFICES ASSUME v # u PROVE FALSE
      OBVIOUS
    <2>2. \A h : RowsOf(base, h, v) = RowsOf(new, h, v)
      BY <1>1, <2>1 DEF RowsOf
    <2> QED BY <1>1, <1>2, <2>2 DEF GroupsOf
  <1>3. \A v \in Users : ShownRole(base, v) # ShownRole(new, v) => v = u
    BY <1>1 DEF ShownRole
  <1>4. ASSUME NEW h \in Groups, NEW v \in MembersOf(new, h), ToGroup(h) \notin told
        PROVE  MembersView(h, v) \in forgotten
    <2>1. v \in Users
      BY <1>1 DEF MembersOf, Sound, Databases, MemberRows
    <2>2. h \notin groups \/ base.users[u] = NoUser
      BY <1>4
    <2> QED BY <2>1, <2>2, ViewsAre, ViewTypes
  <1>5. GroupsView(u) \in forgotten /\ ProfileView(u) \in forgotten
    OBVIOUS
  <1> HIDE DEF told, forgotten
  <1>6. Covered(base, new, told, forgotten)
    BY <1>2, <1>3, <1>4, <1>5 DEF Covered
  <1> QED BY <1>6 DEF new, told, forgotten

(* delete_group, with the members as they were.                            *)
LEMMA GroupGoneCovered ==
    ASSUME NEW base, Sound(base), NEW g
    PROVE  \A pushes, forgotten :
               (\A u \in MembersOf(base, g) : g \in base.groups => GroupsView(u) \in pushes) =>
                   Covered(base, DeleteGroup(base, g), pushes, forgotten)
  <1> DEFINE new == DeleteGroup(base, g)
  <1>1. /\ new.users = base.users
        /\ new.groups = base.groups \ {g}
        /\ new.members = IF g \in base.groups THEN {m \in base.members : m.group # g} ELSE base.members
    BY DeleteGroupColumns
  <1> HIDE DEF new
  <1>2. OnlyIn(base, new, g) /\ base.groups \ {g} = new.groups \ {g}
    BY <1>1 DEF OnlyIn
  <1>3. ASSUME NEW u \in Users, GroupsOf(base, u) # GroupsOf(new, u)
        PROVE  g \in base.groups /\ u \in MembersOf(base, g)
    <2>1. ~(g \in GroupsOf(base, u) <=> g \in GroupsOf(new, u))
      BY <1>2, <1>3, ListsChangeBy
    <2> QED BY <1>1, <2>1 DEF GroupsOf, RowsOf, MembersOf
  <1>4. \A u \in Users : ShownRole(base, u) = ShownRole(new, u)
    BY <1>1 DEF ShownRole
  <1>5. ASSUME NEW h \in Groups, ShownMembers(base, h) # ShownMembers(new, h)
        PROVE  \A u : u \notin MembersOf(new, h)
    <2>1. h = g
      BY <1>2, <1>5, OthersShowTheSame
    <2> QED BY <1>1, <1>5, <2>1 DEF MembersOf, ShownMembers
  <1>6. \A pushes, forgotten :
            (\A u \in MembersOf(base, g) : g \in base.groups => GroupsView(u) \in pushes) =>
                Covered(base, new, pushes, forgotten)
    BY <1>3, <1>4, <1>5 DEF Covered
  <1> QED BY <1>6 DEF new

(* create_group_record: those who have rows already see the group again.   *)
LEMMA RecordedCovered ==
    ASSUME NEW base, Sound(base), NEW g
    PROVE  Covered(base, CreateGroupRecord(base, g), {}, {GroupsView(u) : u \in MembersOf(base, g)})
  <1> DEFINE new == CreateGroupRecord(base, g)
             forgotten == {GroupsView(u) : u \in MembersOf(base, g)}
  <1>1. new.users = base.users /\ new.groups = base.groups \cup {g} /\ new.members = base.members
    BY CreateGroupRecordColumns
  <1> HIDE DEF new
  <1>2. OnlyIn(base, new, g) /\ base.groups \ {g} = new.groups \ {g}
    BY <1>1 DEF OnlyIn
  <1>3. ASSUME NEW u \in Users, GroupsOf(base, u) # GroupsOf(new, u)
        PROVE  GroupsView(u) \in {} \cup forgotten
    <2>1. ~(g \in GroupsOf(base, u) <=> g \in GroupsOf(new, u))
      BY <1>2, <1>3, ListsChangeBy
    <2>2. u \in MembersOf(base, g)
      BY <1>1, <2>1 DEF GroupsOf, RowsOf, MembersOf
    <2> QED BY <2>2
  <1> HIDE DEF forgotten
  <1>4. Covered(base, new, {}, forgotten)
    BY <1>1, <1>3 DEF Covered, ShownRole, ShownMembers
  <1> QED BY <1>4 DEF new, forgotten

(* clear_pending                                                           *)
LEMMA ClearedCovered ==
    ASSUME NEW base, Sound(base), NEW g, NEW u
    PROVE  LET new == ClearPending(base, g, u) IN
           Covered(base, new, IF base.members = new.members THEN {} ELSE {ToGroup(g)}, {})
  <1> DEFINE new == ClearPending(base, g, u)
             pushes == IF base.members = new.members THEN {} ELSE {ToGroup(g)}
  <1>1. /\ new.users = base.users /\ new.groups = base.groups
        /\ new.members = {Cleared(m, g, u) : m \in base.members}
    BY ClearPendingColumns
  <1> HIDE DEF new
  <1>2. ASSUME NEW n \in base.members
        PROVE  LET m == Cleared(n, g, u) IN
               /\ m.group = n.group /\ m.user = n.user
               /\ n.group # g => m = n
    BY DEF Cleared, Sound, Databases, MemberRows
  <1>3. /\ \A n \in base.members : \E m \in new.members :
               m.group = n.group /\ m.user = n.user /\ (n.group # g => m = n)
        /\ \A m \in new.members : \E n \in base.members :
               m.group = n.group /\ m.user = n.user /\ (n.group # g => m = n)
    <2>1. ASSUME NEW n \in base.members
          PROVE  \E m \in new.members : m.group = n.group /\ m.user = n.user /\ (n.group # g => m = n)
      BY <1>1, <1>2
    <2>2. ASSUME NEW m \in new.members
          PROVE  \E n \in base.members : m.group = n.group /\ m.user = n.user /\ (n.group # g => m = n)
      <3>1. PICK n \in base.members : m = Cleared(n, g, u)
        BY <1>1
      <3> QED BY <1>2, <3>1
    <2> QED BY <2>1, <2>2
  <1>4. OnlyIn(base, new, g)
    BY <1>3 DEF OnlyIn
  <1>5. ASSUME NEW v PROVE GroupsOf(base, v) = GroupsOf(new, v)
    <2>1. \A h : RowsOf(base, h, v) = {} <=> RowsOf(new, h, v) = {}
      BY <1>3 DEF RowsOf
    <2> QED BY <1>1, <2>1 DEF GroupsOf
  <1>6. SameRoles(base, new)
    BY <1>1 DEF SameRoles, ShownRole
  <1>7. CASE base.members = new.members
    <2>1. Covered(base, new, pushes, {})
      BY <1>1, <1>6, <1>7, CoveredSame
    <2> QED BY <2>1 DEF new
  <1>8. CASE base.members # new.members
    <2>1. ToGroup(g) \in pushes
      BY <1>8
    <2> HIDE DEF pushes
    <2>2. Covered(base, new, pushes, {})
      BY <1>4, <1>5, <1>6, <2>1, OthersShowTheSame DEF Covered, SameRoles
    <2> QED BY <2>2 DEF new, pushes
  <1> QED BY <1>7, <1>8

(* POST /members/tag                                                       *)
LEMMA TaggedCovered ==
    ASSUME NEW base, Sound(base), NEW g, NEW u, NEW t, NEW p
    PROVE  Covered(base, AddMemberTag(base, base, g, u, t, p), {ToGroup(g)}, {GroupsView(u)})
  <1> DEFINE new == AddMemberTag(base, base, g, u, t, p)
  <1>1. /\ new.users = base.users
        /\ new.groups = base.groups
        /\ new.members = {m \in base.members : ~(m.group = g /\ m.user = u /\ m.tag = t)}
                             \cup {Row(g, u, t, p)}
    BY LoneTagColumns
  <1>2. Row(g, u, t, p).user = u /\ Row(g, u, t, p).group = g
    BY DEF Row
  <1> HIDE DEF new
  <1>3. OnlyOf(base, new, g, u) /\ SameRoles(base, new)
    BY <1>1, <1>2 DEF OnlyOf, SameRoles, ShownRole
  <1>4. ToGroup(g) \in {ToGroup(g)} /\ GroupsView(u) \in {ToGroup(g)} \cup {GroupsView(u)}
    OBVIOUS
  <1>5. Covered(base, new, {ToGroup(g)}, {GroupsView(u)})
    BY <1>1, <1>3, <1>4, CoveredByMember
  <1> QED BY <1>5 DEF new

(* POST /users/role: the groups where his rows changed.                    *)
LEMMA RoleSetCovered ==
    ASSUME NEW base, Sound(base), NEW u \in Users, NEW r \in Roles
    PROVE  LET new == SyncRoleToGroupTags(base, SetUserRole(GetOrCreateUsers(base, {u}), u, r), u, r) IN
           Covered(base, new,
                   {ProfileView(u)} \cup {ToGroup(g) : g \in {h \in Groups : RowsOf(base, h, u) # RowsOf(new, h, u)}},
                   {})
  <1> DEFINE known == GetOrCreateUsers(base, {u})
             given == SetUserRole(known, u, r)
             new == SyncRoleToGroupTags(base, given, u, r)
             pushes == {ProfileView(u)}
                           \cup {ToGroup(g) : g \in {h \in Groups : RowsOf(base, h, u) # RowsOf(new, h, u)}}
  <1>1. /\ Sound(known) /\ known.groups = base.groups /\ known.members = base.members
        /\ known.users = [v \in Users |->
               IF v \in {u} /\ base.users[v] = NoUser THEN NoRole ELSE base.users[v]]
    BY GetOrCreateUsersSound, GetOrCreateUsersColumns
  <1> HIDE DEF known
  <1>2. /\ Sound(given) /\ given.groups = known.groups /\ given.members = known.members
        /\ \A v \in Users : given.users[v] = IF v = u /\ known.users[u] # NoUser THEN r ELSE known.users[v]
    BY <1>1, SetUserRoleSound, SetUserRoleColumns
  <1> HIDE DEF given
  <1>3. /\ new.users = given.users
        /\ new.groups = given.groups
        /\ \A m \in given.members : m.user # u \/ m.tag \notin Roles => m \in new.members
        /\ \A m \in given.members : \E n \in new.members : n.group = m.group /\ n.user = m.user
        /\ \A m \in new.members : m.user # u \/ m.tag \notin Roles => m \in given.members
        /\ \A m \in new.members : m.user = u /\ m.tag \in Roles =>
               m.tag = r /\ (m \in given.members \/ ~m.pending)
        /\ \A m \in new.members : \E n \in given.members : n.group = m.group /\ n.user = m.user
        /\ RoleShown(given.members, new.members, u, r)
    BY <1>2, SyncRoleToGroupTagsColumns, Zenon
  <1> HIDE DEF new
  <1>4. ASSUME NEW v PROVE GroupsOf(base, v) = GroupsOf(new, v)
    <2>1. \A h : RowsOf(base, h, v) = {} <=> RowsOf(new, h, v) = {}
      BY <1>1, <1>2, <1>3 DEF RowsOf
    <2> QED BY <1>1, <1>2, <1>3, <2>1 DEF GroupsOf
  <1>5. \A v \in Users : ShownRole(base, v) # ShownRole(new, v) => v = u
    BY <1>1, <1>2, <1>3, RoleAssumption DEF ShownRole
  <1>6. ASSUME NEW h, RowsOf(base, h, u) = RowsOf(new, h, u)
        PROVE  ShownMembers(base, h) = ShownMembers(new, h)
    <2>1. \A m : m.user # u => (m \in base.members <=> m \in new.members)
      BY <1>1, <1>2, <1>3
    <2> QED BY <1>6, <2>1 DEF RowsOf, ShownMembers
  <1>7. ProfileView(u) \in pushes \cup {}
    OBVIOUS
  <1>8. \A h \in Groups : RowsOf(base, h, u) # RowsOf(new, h, u) => ToGroup(h) \in pushes
    OBVIOUS
  <1> HIDE DEF pushes
  <1>9. Covered(base, new, pushes, {})
    BY <1>4, <1>5, <1>6, <1>7, <1>8 DEF Covered
  <1> QED BY <1>9 DEF pushes, new, given, known

(* sync_group: whose rows changed are told, and the group if there are     *)
(* such people.  Who loses a role that the sync did not know of, or sees   *)
(* the group since it is on record, is told only by what is `forgotten`.   *)
LEMMA SyncedCovered ==
    ASSUME NEW old, NEW base, Sound(base), NEW g \in Groups,
           old.users = base.users, old.members = base.members,
           old.groups \ {g} = base.groups \ {g},
           NEW present \in SUBSET Users, NEW current, NEW roles, NEW forgotten,
           old.groups # base.groups => \A u \in MembersOf(old, g) : GroupsView(u) \in forgotten,
           \A u \in current \ present : roles[u] # base.users[u] => ProfileView(u) \in forgotten
    PROVE  LET new == Synced(base, g, present, current, roles)
               affected == {u \in Users : RowsOf(old, g, u) # RowsOf(new, g, u)}
           IN  Covered(old, new,
                       {GroupsView(u) : u \in affected} \cup (IF affected = {} THEN {} ELSE {ToGroup(g)}),
                       forgotten)
  <1> DEFINE new == Synced(base, g, present, current, roles)
             affected == {u \in Users : RowsOf(old, g, u) # RowsOf(new, g, u)}
             pushes == {GroupsView(u) : u \in affected} \cup (IF affected = {} THEN {} ELSE {ToGroup(g)})
  <1>1. SyncReturns(base, g, present, current, roles, new)
    BY SyncedColumns
  <1> HIDE DEF new
  <1>2. /\ new.groups = base.groups
        /\ \A m \in base.members : m.group # g => m \in new.members
        /\ \A m \in new.members : m.group # g => m \in base.members
        /\ \A m \in new.members : m \in base.members \/ m.user \in present
    BY <1>1 DEF SyncReturns
  <1>3. OnlyIn(old, new, g) /\ old.groups \ {g} = new.groups \ {g}
    BY <1>2 DEF OnlyIn
  <1>4. ASSUME NEW u \in Users, GroupsOf(old, u) # GroupsOf(new, u)
        PROVE  GroupsView(u) \in pushes \cup forgotten
    <2>1. ~(g \in GroupsOf(old, u) <=> g \in GroupsOf(new, u))
      BY <1>3, <1>4, ListsChangeBy
    <2>2. CASE RowsOf(old, g, u) # RowsOf(new, g, u)
      BY <2>2
    <2>3. CASE RowsOf(old, g, u) = RowsOf(new, g, u)
      <3>1. old.groups # base.groups /\ u \in MembersOf(old, g)
        BY <1>2, <2>1, <2>3 DEF GroupsOf, RowsOf, MembersOf
      <3> QED BY <3>1
    <2> QED BY <2>2, <2>3
  <1>5. ASSUME NEW u \in Users, ShownRole(old, u) # ShownRole(new, u)
        PROVE  ProfileView(u) \in forgotten
    <2>1. u \notin present
      BY <1>1, <1>5, RoleAssumption DEF SyncReturns, ShownRole
    <2>2. /\ u \in current /\ new.users[u] = NoUser /\ roles[u] \in {NoRole, NoUser}
      BY <1>1, <1>5, <2>1 DEF SyncReturns, ShownRole
    <2>3. roles[u] # base.users[u]
      BY <1>5, <2>2, RoleAssumption DEF ShownRole
    <2> QED BY <2>1, <2>2, <2>3
  <1>6. ASSUME NEW h \in Groups, ShownMembers(old, h) # ShownMembers(new, h)
        PROVE  ToGroup(h) \in pushes
    <2>1. h = g
      BY <1>3, <1>6, OthersShowTheSame
    <2>2. PICK m : ~(m \in ShownMembers(old, g) <=> m \in ShownMembers(new, g))
      BY <1>6, <2>1
    <2>3. m.user \in Users
      BY <1>2, <2>2 DEF ShownMembers, Sound, Databases, MemberRows
    <2>4. RowsOf(old, g, m.user) # RowsOf(new, g, m.user)
      BY <2>2 DEF ShownMembers, RowsOf
    <2>5. affected # {}
      BY <2>3, <2>4
    <2> QED BY <2>1, <2>5
  <1> HIDE DEF pushes
  <1>7. Covered(old, new, pushes, forgotten)
    BY <1>4, <1>5, <1>6 DEF Covered
  <1> QED BY <1>7 DEF pushes, affected, new

-----------------------------------------------------------------------------
(* The pushes of each operation.                                           *)

(* They are pushes.                                                        *)
LEMMA PushTypes ==
    /\ \A us \in SUBSET Users : {GroupsView(u) : u \in us} \subseteq Owed
    /\ \A gs \in SUBSET Groups : {ToGroup(g) : g \in gs} \subseteq Owed
    /\ \A g \in Groups, u \in Users : ClientPushes(g, u) \subseteq Owed
    /\ \A g \in Groups : ToGroup(g) \in Owed
    /\ \A u \in Users : ProfileView(u) \in Owed
  BY ViewTypes DEF ClientPushes

(* Requests.                                                               *)
LEMMA RequestPushes ==
    ASSUME Inv, PushInv, NEW s \in Slots, TellingStep(s)
    PROVE  PushInv'
  <1> DEFINE t == tasks[s]
             g == t.group
             u == t.user
  <1>0. t \in Tasks /\ Sound(db) /\ \A h : MembersOf(db, h) \in SUBSET Users
    BY QueryTypes DEF Inv, RestOK
  <1>1. ASSUME NEW kept \in SUBSET Users,
               Tells(FinishCreateGroup(s, kept), CreateGroupPushes(s), CreateGroupForgotten(s))
        PROVE  PushInv'
    <2>1. Telling(CreateGroupPushes(s), CreateGroupForgotten(s)) /\ FinishCreateGroup(s, kept)
      BY <1>1 DEF Tells, Telling
    <2>2. db' = TeamTagged(db, g, t.roles, kept) /\ kept \subseteq TeamOf(t.roles)
      BY <2>1 DEF FinishCreateGroup
    <2>3. Covered(db, db', CreateGroupPushes(s), CreateGroupForgotten(s))
      BY <1>0, <2>2, TeamTaggedCovered DEF CreateGroupPushes, CreateGroupForgotten, RecordForgotten
    <2>4. CreateGroupPushes(s) \in SUBSET Owed
      <3>1. TeamOf(t.roles) \in SUBSET Users
        BY DEF TeamOf
      <3> QED BY <3>1, PushTypes DEF CreateGroupPushes
    <2> QED BY <2>1, <2>3, <2>4, TellsKeeps
  <1>2. ASSUME Tells(FinishAddClient(s), ClientPushes(g, u), {}) PROVE PushInv'
    <2>1. Telling(ClientPushes(g, u), {}) /\ FinishAddClient(s)
      BY <1>2 DEF Tells, Telling
    <2>2. g \in Groups /\ u \in Users /\ db' = ClientAdded(db, g, u, t.link)
      BY <1>0, <2>1, TaskFields DEF FinishAddClient, At
    <2> HIDE DEF g, u, t
    <2>3. Covered(db, db', ClientPushes(g, u), {})
      BY <1>0, <2>2, ClientAddedCovered
    <2>4. ClientPushes(g, u) \in SUBSET Owed
      BY <2>2, PushTypes
    <2> QED BY <2>1, <2>3, <2>4, TellsKeeps
  <1>3. ASSUME Tells(FinishOffboard(s), OffboardPushes(s), OffboardForgotten(s)) PROVE PushInv'
    <2>1. Telling(OffboardPushes(s), OffboardForgotten(s)) /\ FinishOffboard(s)
      BY <1>3 DEF Tells, Telling
    <2> DEFINE groups == t.groups
    <2>2. u \in Users /\ groups \in SUBSET Groups /\ db' = DeleteUser(db, u)
      BY <1>0, <2>1, TaskFields DEF FinishOffboard, At
    <2>3. OffboardPushes(s) = IF db.users[u] = NoUser THEN {} ELSE {ToGroup(h) : h \in groups}
      BY Zenon DEF OffboardPushes
    <2>4. OffboardForgotten(s) =
              {GroupsView(u), ProfileView(u)}
                  \cup {v \in Views : v.kind = "members"
                                       /\ (v.group \notin groups \/ db.users[u] = NoUser)}
      BY Zenon DEF OffboardForgotten
    <2> HIDE DEF groups, u, t
    <2>5. Covered(db, db', OffboardPushes(s), OffboardForgotten(s))
      <3>1. Covered(db, DeleteUser(db, u),
                    IF db.users[u] = NoUser THEN {} ELSE {ToGroup(h) : h \in groups},
                    {GroupsView(u), ProfileView(u)}
                        \cup {v \in Views : v.kind = "members"
                                             /\ (v.group \notin groups \/ db.users[u] = NoUser)})
        BY <1>0, <2>2, DeletedCovered
      <3> QED BY <2>2, <2>3, <2>4, <3>1
    <2>6. OffboardPushes(s) \in SUBSET Owed
      BY <2>2, <2>3, PushTypes
    <2> QED BY <2>1, <2>2, <2>5, <2>6, TellsKeeps
  <1>4. ASSUME SyncPushes(s) \notin SUBSET Owed, g \in Groups PROVE FALSE
    <2> DEFINE affected == {v \in Users : RowsOf(db, g, v) # RowsOf(db', g, v)}
    <2>1. SyncPushes(s) = {GroupsView(v) : v \in affected} \cup (IF affected = {} THEN {} ELSE {ToGroup(g)})
      BY DEF SyncPushes
    <2>2. affected \in SUBSET Users
      OBVIOUS
    <2> HIDE DEF affected
    <2> QED BY <1>4, <2>1, <2>2, PushTypes
  <1>5. ASSUME Tells(WriteSync(s), SyncPushes(s), SyncForgotten(s)) PROVE PushInv'
    <2> DEFINE present == t.present
               current == t.current
               roles == t.roles
               forgotten == SyncForgotten(s)
    <2>1. Telling(SyncPushes(s), SyncForgotten(s)) /\ WriteSync(s)
      BY <1>5 DEF Tells, Telling
    <2>2. /\ g \in Groups /\ present \in SUBSET Users
          /\ db' = Synced(db, g, present, current, roles)
      BY <1>0, <2>1, TaskFields DEF WriteSync, At
    <2>3. \A v \in current \ present : ProfileView(v) \in forgotten
      BY DEF SyncForgotten
    <2> HIDE DEF present, current, roles, forgotten
    <2>4. Covered(db, Synced(db, g, present, current, roles), SyncPushes(s), forgotten)
      BY <1>0, <2>2, <2>3, SyncedCovered DEF SyncPushes
    <2>5. SyncPushes(s) \in SUBSET Owed
      BY <1>4, <2>2
    <2> QED BY <2>1, <2>2, <2>4, <2>5, TellsKeeps DEF forgotten
  <1>6. ASSUME Tells(WriteSyncOfNewGroup(s), SyncPushes(s), RecordForgotten(g)) PROVE PushInv'
    <2> DEFINE present == t.present
               base == CreateGroupRecord(db, g)
               forgotten == RecordForgotten(g)
    <2>1. Telling(SyncPushes(s), RecordForgotten(g)) /\ WriteSyncOfNewGroup(s)
      BY <1>6 DEF Tells, Telling
    <2>2. /\ g \in Groups /\ present \in SUBSET Users
          /\ db' = Synced(base, g, present, MembersOf(db, g), db.users)
      BY <1>0, <2>1, TaskFields DEF WriteSyncOfNewGroup, At
    <2>3. /\ Sound(base) /\ base.users = db.users /\ base.members = db.members
          /\ base.groups = db.groups \cup {g}
      BY <1>0, <2>2, CreateGroupRecordSound, CreateGroupRecordColumns
    <2>4. \A v \in MembersOf(db, g) : GroupsView(v) \in forgotten
      BY DEF RecordForgotten
    <2> HIDE DEF present, base, forgotten
    <2>5. db.groups \ {g} = base.groups \ {g}
      BY <2>3
    <2>6. Covered(db, Synced(base, g, present, MembersOf(db, g), db.users), SyncPushes(s), forgotten)
      BY <2>2, <2>3, <2>4, <2>5, SyncedCovered DEF SyncPushes
    <2>7. SyncPushes(s) \in SUBSET Owed
      BY <1>4, <2>2
    <2> QED BY <2>1, <2>2, <2>6, <2>7, TellsKeeps DEF forgotten
  <1>7. ASSUME Tells(FinishRemove(s), LeavingPushes(g, u), {}) PROVE PushInv'
    <2>1. Telling(LeavingPushes(g, u), {}) /\ FinishRemove(s)
      BY <1>7 DEF Tells, Telling
    <2>2. g \in Groups /\ u \in Users /\ db' = RemoveMembers(db, g, {u}, db.users)
      BY <1>0, <2>1, TaskFields DEF FinishRemove, At
    <2> HIDE DEF g, u, t
    <2>3. Covered(db, db', LeavingPushes(g, u), {})
      BY <1>0, <2>2, RemovedCovered DEF LeavingPushes
    <2>4. LeavingPushes(g, u) \in SUBSET Owed
      BY <2>2, PushTypes DEF LeavingPushes
    <2> QED BY <2>1, <2>3, <2>4, TellsKeeps
  <1>8. ASSUME Tells(FinishRemoveGroup(s), IF g \in db.groups THEN GroupGonePushes(g) ELSE {}, {})
        PROVE  PushInv'
    <2> DEFINE pushes == IF g \in db.groups THEN GroupGonePushes(g) ELSE {}
    <2>1. Telling(pushes, {}) /\ FinishRemoveGroup(s)
      BY <1>8 DEF Tells, Telling
    <2>2. db' = DeleteGroup(db, g)
      BY <2>1 DEF FinishRemoveGroup
    <2>3. \A v \in MembersOf(db, g) : g \in db.groups => GroupsView(v) \in pushes
      BY DEF GroupGonePushes
    <2>4. pushes \in SUBSET Owed
      BY <1>0, PushTypes DEF GroupGonePushes
    <2> HIDE DEF pushes, g, u, t
    <2>5. Covered(db, db', pushes, {})
      BY <1>0, <2>2, <2>3, GroupGoneCovered
    <2> QED BY <2>1, <2>4, <2>5, TellsKeeps
  <1> QED BY <1>1, <1>2, <1>3, <1>5, <1>6, <1>7, <1>8 DEF TellingStep

(* Transactions of their own.                                              *)
LEMMA TransactionPushes ==
    ASSUME Inv, PushInv, TellingTransaction
    PROVE  PushInv'
  <1>0. Sound(db)
    BY DEF Inv
  <1>1. ASSUME NEW u \in Users, NEW r \in Roles, Tells(SetRole(u, r), RolePushes(u), {})
        PROVE  PushInv'
    <2>1. Telling(RolePushes(u), {}) /\ SetRole(u, r)
      BY <1>1 DEF Tells, Telling
    <2>2. db' = SyncRoleToGroupTags(db, SetUserRole(GetOrCreateUsers(db, {u}), u, r), u, r)
      BY <2>1 DEF SetRole
    <2>3. Covered(db, db', RolePushes(u), {})
      BY <1>0, <2>2, RoleSetCovered DEF RolePushes
    <2>4. RolePushes(u) \in SUBSET Owed
      <3> DEFINE changed == {h \in Groups : RowsOf(db, h, u) # RowsOf(db', h, u)}
      <3>1. RolePushes(u) = {ProfileView(u)} \cup {ToGroup(g) : g \in changed}
        BY DEF RolePushes
      <3>2. changed \in SUBSET Groups
        OBVIOUS
      <3> HIDE DEF changed
      <3> QED BY <3>1, <3>2, PushTypes
    <2> QED BY <2>1, <2>3, <2>4, TellsKeeps
  <1>2. ASSUME NEW a \in Users, NEW u \in Users, NEW g \in Groups, NEW t \in ManualTags,
               Tells(TagMember(a, g, u, t), {ToGroup(g)}, TaggedForgotten(u))
        PROVE  PushInv'
    <2>1. Telling({ToGroup(g)}, TaggedForgotten(u)) /\ TagMember(a, g, u, t)
      BY <1>2 DEF Tells, Telling
    <2>2. \E no : no = FALSE /\ db' = AddMemberTag(db, db, g, u, t, no)
      BY <2>1, Zenon DEF TagMember
    <2>3. PICK no : db' = AddMemberTag(db, db, g, u, t, no)
      BY <2>2, Zenon
    <2>4. Covered(db, db', {ToGroup(g)}, TaggedForgotten(u))
      BY <1>0, <2>3, TaggedCovered DEF TaggedForgotten
    <2>5. {ToGroup(g)} \in SUBSET Owed
      BY PushTypes
    <2> QED BY <2>1, <2>4, <2>5, TellsKeeps
  <1> QED BY <1>1, <1>2 DEF TellingTransaction

(* The bot's handlers.                                                     *)
LEMMA UpdatePushes ==
    ASSUME Inv, PushInv, NEW up \in updates, TellingUpdate(up)
    PROVE  PushInv'
  <1> DEFINE g == up.group
             u == up.user
  <1>0. Sound(db) /\ g \in Groups /\ u \in Users /\ \A h : MembersOf(db, h) \in SUBSET Users
    BY QueryTypes DEF Inv, RestOK, Updates
  <1>1. ASSUME Tells(OnBotAdded(up), {}, RecordForgotten(g)) PROVE PushInv'
    <2>1. Telling({}, RecordForgotten(g)) /\ db' = CreateGroupRecord(db, g)
      BY <1>1 DEF Tells, Telling, OnBotAdded
    <2>2. Covered(db, db', {}, RecordForgotten(g))
      BY <1>0, <2>1, RecordedCovered DEF RecordForgotten
    <2>3. {} \in SUBSET Owed
      OBVIOUS
    <2> QED BY <2>1, <2>2, <2>3, TellsKeeps
  <1>2. ASSUME Tells(OnMemberJoined(up), JoinPushes(g), {}) PROVE PushInv'
    <2>1. Telling(JoinPushes(g), {}) /\ db' = ClearPending(db, g, u)
      BY <1>2 DEF Tells, Telling, OnMemberJoined
    <2>2. Covered(db, db', JoinPushes(g), {})
      BY <1>0, <2>1, ClearedCovered DEF JoinPushes
    <2>3. JoinPushes(g) \in SUBSET Owed
      BY <1>0, PushTypes DEF JoinPushes
    <2> QED BY <2>1, <2>2, <2>3, TellsKeeps
  <1>3. ASSUME Tells(OnMemberLeft(up), LeavingPushes(g, u), {}) PROVE PushInv'
    <2>1. Telling(LeavingPushes(g, u), {}) /\ db' = RemoveMembers(db, g, {u}, db.users)
      BY <1>3 DEF Tells, Telling, OnMemberLeft
    <2> HIDE DEF g, u
    <2>2. Covered(db, db', LeavingPushes(g, u), {})
      BY <1>0, <2>1, RemovedCovered DEF LeavingPushes
    <2>3. LeavingPushes(g, u) \in SUBSET Owed
      BY <1>0, PushTypes DEF LeavingPushes
    <2> QED BY <2>1, <2>2, <2>3, TellsKeeps
  <1>4. ASSUME Tells(OnBotRemoved(up), GroupGonePushes(g), {}) PROVE PushInv'
    <2> DEFINE pushes == GroupGonePushes(g)
    <2>1. Telling(pushes, {}) /\ db' = DeleteGroup(db, g)
      BY <1>4 DEF Tells, Telling, OnBotRemoved
    <2>2. \A v \in MembersOf(db, g) : g \in db.groups => GroupsView(v) \in pushes
      BY DEF GroupGonePushes
    <2>3. pushes \in SUBSET Owed
      BY <1>0, PushTypes DEF GroupGonePushes
    <2> HIDE DEF pushes, g
    <2>4. Covered(db, db', pushes, {})
      BY <1>0, <2>1, <2>2, GroupGoneCovered
    <2> QED BY <2>1, <2>3, <2>4, TellsKeeps
  <1> QED BY <1>1, <1>2, <1>3, <1>4 DEF TellingUpdate

(* Steps that tell nobody leave every screen as it was.                    *)
LEMMA SilentPushes ==
    ASSUME Inv, PushInv, Tells(SilentStep, {}, {})
    PROVE  PushInv'
  <1>1. Telling({}, {}) /\ SilentStep
    BY DEF Tells, Telling
  <1>2. db'.groups = db.groups /\ db'.members = db.members /\ SameRoles(db, db')
    <2>1. CASE db' = db
      BY <2>1 DEF SameRoles
    <2>2. ASSUME NEW u \in Users, OpenApp(u)
          PROVE  db'.groups = db.groups /\ db'.members = db.members /\ SameRoles(db, db')
      <3>1. Sound(db) /\ db' = GetOrCreateUsers(db, {u})
        BY <2>2 DEF Inv, OpenApp
      <3> QED BY <3>1, GetOrCreateUsersColumns, CreatedShowsSame
    <2>3. ASSUME NEW s \in Slots, Begin(s) PROVE db' = db
      BY <2>3 DEF Begin, StartCreateGroup, StartAddClient, StartOffboard, StartSync,
                  StartRemove, StartRemoveGroup
    <2>4. ASSUME NEW s \in Slots, TelegramStep(s) PROVE db' = db
      BY <2>4 DEF TelegramStep, CreateChat, CreateChatHalfway, ChatAppears, InviteDirectly, InviteByLink,
                  BanEverywhere, BanInterrupted, Bans, Scan, Kick, DeleteChat, EndCreateGroup,
                  TelegramFails
    <2>5. ASSUME NEW s \in Slots, ReadMembers(s) \/ TransactionFails(s) PROVE db' = db
      BY <2>5 DEF ReadMembers, TransactionFails
    <2>6. ASSUME Outside PROVE db' = db
      BY <2>6 DEF Outside, Joins, Leaves, BotKicked, BotInvited
    <2>7. ASSUME NEW up \in updates, IgnoreBotAdded(up) PROVE db' = db
      BY <2>7 DEF IgnoreBotAdded
    <2> QED BY <1>1, <2>1, <2>2, <2>3, <2>4, <2>5, <2>6, <2>7 DEF SilentStep
  <1>3. Covered(db, db', {}, {})
    BY <1>2, CoveredSame
  <1>4. {} \in SUBSET Owed
    OBVIOUS
  <1> QED BY <1>1, <1>3, <1>4, TellsKeeps

(* notify_group: who is told now are the members, and only those have a    *)
(* screen of them.                                                         *)
LEMMA AddressPushes ==
    ASSUME Inv, PushInv, NEW g \in Groups, Address(g)
    PROVE  PushInv'
  <1> DEFINE screens == {MembersView(g, u) : u \in MembersOf(db, g)}
  <1>1. /\ owed' = (owed \ {ToGroup(g)}) \cup screens
        /\ db' = db /\ stale' = stale /\ untold' = untold
    BY DEF Address, vars
  <1>2. screens \subseteq Views
    BY QueryTypes, ViewTypes DEF Inv
  <1>3. PushTypeOK' /\ stale' \subseteq Visible(db')
    BY <1>1, <1>2, ViewTypes DEF PushInv, PushTypeOK
  <1>4. ASSUME NEW v \in stale' PROVE Reached(v)'
    <2>1. v \in Visible(db) /\ v \in Views /\ Reached(v)
      BY <1>1, <1>4 DEF PushInv, PushTypeOK
    <2>2. v # ToGroup(g)
      BY <2>1, ViewTypes
    <2>3. CASE v.kind = "members" /\ v.group = g
      <3>1. v = MembersView(g, v.user) /\ v.user \in MembersOf(db, g)
        BY <2>1, <2>3, MembersViewIs DEF Visible
      <3>2. v \in screens
        BY <3>1
      <3> QED BY <1>1, <3>2 DEF Reached
    <2>4. CASE v.kind = "members" /\ v.group # g
      <3>1. ToGroup(v.group) # ToGroup(g)
        BY <2>4 DEF ToGroup
      <3> HIDE DEF screens
      <3> QED BY <1>1, <2>1, <2>2, <3>1 DEF Reached
    <2>5. CASE v.kind # "members"
      <3> HIDE DEF screens
      <3> QED BY <1>1, <2>1, <2>2, <2>5 DEF Reached
    <2> QED BY <2>3, <2>4, <2>5
  <1> QED BY <1>3, <1>4 DEF PushInv

(* notify_user                                                             *)
LEMMA SendPushes ==
    ASSUME PushInv, NEW v \in Views, Send(v)
    PROVE  PushInv'
  <1>1. /\ owed' = owed \ {v} /\ stale' = stale \ {v} /\ untold' = untold \ {v}
        /\ db' = db
    BY DEF Send, vars
  <1>2. PushTypeOK' /\ stale' \subseteq Visible(db')
    BY <1>1 DEF PushInv, PushTypeOK
  <1>3. ASSUME NEW w \in stale' PROVE Reached(w)'
    <2>1. w # v /\ w \in Views /\ Reached(w)
      BY <1>1, <1>3 DEF PushInv, PushTypeOK
    <2>2. w.kind = "members" => ToGroup(w.group) # v
      BY <2>1, MembersViewIs, ViewTypes
    <2> QED BY <1>1, <2>1, <2>2 DEF Reached
  <1> QED BY <1>2, <1>3 DEF PushInv

(* A step of Pushes is one of Membership, or none of it.                   *)
LEMMA MembershipStep ==
    ASSUME [PushNext]_pushVars
    PROVE  [Next]_vars
  <1>1. ASSUME NEW s \in Slots, TellingStep(s) PROVE Next
    BY <1>1, Zenon DEF TellingStep, Tells, Next, DatabaseStep
  <1>2. ASSUME TellingTransaction PROVE Next
    BY <1>2, Zenon DEF TellingTransaction, Tells, Next, OneTransaction
  <1>3. ASSUME NEW up \in updates, TellingUpdate(up) PROVE Next
    BY <1>3, Zenon DEF TellingUpdate, Tells, Next, Deliver
  <1>4. ASSUME Tells(SilentStep, {}, {}) PROVE Next
    BY <1>4, Zenon DEF SilentStep, Tells, Next, DatabaseStep, OneTransaction, Deliver
  <1>5. ASSUME NEW g \in Groups, Address(g) PROVE UNCHANGED vars
    BY <1>5 DEF Address
  <1>6. ASSUME NEW v \in Views, Send(v) PROVE UNCHANGED vars
    BY <1>6 DEF Send
  <1>7. ASSUME UNCHANGED pushVars PROVE UNCHANGED vars
    BY <1>7 DEF pushVars, vars
  <1> QED BY <1>1, <1>2, <1>3, <1>4, <1>5, <1>6, <1>7 DEF PushNext

-----------------------------------------------------------------------------
LEMMA PushInvInit == PushInit => PushInv
  BY DEF PushInit, PushInv, PushTypeOK

LEMMA PushStep ==
    ASSUME Inv, PushInv, [PushNext]_pushVars
    PROVE  PushInv'
  <1>1. ASSUME UNCHANGED pushVars PROVE PushInv'
    BY <1>1 DEF pushVars, PushInv, PushTypeOK, Reached, Visible
  <1> QED BY <1>1, RequestPushes, TransactionPushes, UpdatePushes, SilentPushes,
             AddressPushes, SendPushes DEF PushNext

(* What Membership keeps, and every screen that is behind is about to be   *)
(* told, or accounted for.                                                 *)
LEMMA PushInvariant == PushSpec => [](Inv /\ PushInv)
  <1>1. PushInit => Inv /\ PushInv
    BY InvInit, PushInvInit DEF PushInit
  <1>2. Inv /\ PushInv /\ [PushNext]_pushVars => (Inv /\ PushInv)'
    <2>1. SUFFICES ASSUME Inv, PushInv, [PushNext]_pushVars PROVE Inv' /\ PushInv'
      OBVIOUS
    <2>2. [Next]_vars
      BY <2>1, MembershipStep
    <2>3. Inv'
      BY <2>1, <2>2, SoundStep, RestStep DEF Inv
    <2>4. PushInv'
      BY <2>1, PushStep
    <2> QED BY <2>3, <2>4
  <1> QED BY <1>1, <1>2, PTL DEF PushSpec

(* Only people have screens, only people and groups are told.              *)
THEOREM PushTypesCorrect == PushSpec => []PushTypeOK
  <1>1. PushInv => PushTypeOK
    BY DEF PushInv
  <1> QED BY <1>1, PushInvariant, PTL

(* Once nothing is owed, whatever is behind has been accounted for.        *)
LEMMA NothingOwed ==
    ASSUME PushInv, AllTold
    PROVE  \A v \in stale : v \in untold
  BY DEF PushInv, Reached, AllTold

(* However requests, updates and their pushes cross, and whoever joins or  *)
(* leaves between a commit and its push: once every push is out, whoever   *)
(* looks at the members of a group sees them as they are, but where        *)
(* somebody was offboarded out of a group the offboarding had not read, or *)
(* a team was tagged over a /sync (realtime.notify_group, group_service).  *)
THEOREM MembersShown == PushSpec => []MembersAreShown
  <1>1. PushInv => MembersAreShown
    BY NothingOwed DEF MembersAreShown
  <1> QED BY <1>1, PushInvariant, PTL

(* The same for everyone's list of groups and role.                        *)
THEOREM GroupsShown == PushSpec => []GroupsAreShown
  <1>1. PushInv => GroupsAreShown
    BY NothingOwed DEF GroupsAreShown
  <1> QED BY <1>1, PushInvariant, PTL

(* Pushes adds to Membership and restricts it in nothing, so all that is   *)
(* proved of Membership holds here.                                        *)
THEOREM PushesKeepMembership == PushSpec => Spec
  <1>1. PushInit => Init
    BY DEF PushInit
  <1>2. [PushNext]_pushVars => [Next]_vars
    BY MembershipStep
  <1> QED BY <1>1, <1>2, PTL DEF PushSpec, Spec

-----------------------------------------------------------------------------
(* One operation after another, whom does nobody tell?                     *)

(* An offboarding knows every group its person is in.                      *)
OffboardKnows ==
    \A s \in Slots : tasks[s].at \in {"banning", "banned"} =>
        \A m \in db.members : m.user = tasks[s].user => m.group \in tasks[s].groups

(* While a request awaits Telegram, nobody gets into a group.              *)
LEMMA RowsOnlyGo ==
    ASSUME Sequential, SerialInv, [Next]_vars, NEW s \in Slots, tasks[s] # Idle,
           tasks[s].at \in {"banning", "banned"}, tasks'[s] = tasks[s]
    PROVE  \A m \in db'.members : \E n \in db.members : n.group = m.group /\ n.user = m.user
  <1> DEFINE Goal == \A m \in db'.members : \E n \in db.members : n.group = m.group /\ n.user = m.user
  <1>0. Alone /\ Sound(db) /\ tasks \in [Slots -> Tasks]
    BY DEF SerialInv, Inv, RestOK
  <1>1. ASSUME UNCHANGED db PROVE Goal
    BY <1>1
  <1>2. ~MayBegin
    BY BeginsAlone DEF NoneInFlight
  <1>3. ASSUME NEW r \in Slots, DatabaseStep(r) PROVE FALSE
    <2>1. tasks[r].at \notin {"idle", "banning"} /\ (tasks[r].at = "banned" => tasks'[r] = Idle)
      BY <1>0, <1>3 DEF DatabaseStep, FinishCreateGroup, FinishAddClient, FinishOffboard, ReadMembers,
         WriteSync, TransactionFails, WriteSyncOfNewGroup, FinishRemove, FinishRemoveGroup, At, Goes
    <2>2. r = s
      BY <1>0, <2>1, IdleIsNowhere DEF Alone
    <2> QED BY <2>1, <2>2
  <1>4. ASSUME NEW r \in Slots, Begin(r) PROVE FALSE
    BY <1>2, <1>4 DEF Begin, StartCreateGroup, StartAddClient, StartOffboard, StartSync, StartRemove,
       StartRemoveGroup
  <1>5. ASSUME NEW r \in Slots, TelegramStep(r) PROVE Goal
    <2>1. UNCHANGED db
      BY <1>5 DEF TelegramStep, CreateChat, CreateChatHalfway, ChatAppears, InviteDirectly, InviteByLink,
         BanEverywhere, BanInterrupted, Bans, Scan, Kick, DeleteChat, EndCreateGroup, TelegramFails
    <2> QED BY <1>1, <2>1
  <1>6. ~OneTransaction /\ ~Outside
    BY <1>2 DEF OneTransaction, OpenApp, SetRole, TagMember, Outside, Joins, Leaves, BotKicked, BotInvited
  <1>7. ASSUME NEW up \in updates,
               \/ OnMemberJoined(up) \/ OnMemberLeft(up)
               \/ OnBotAdded(up) \/ IgnoreBotAdded(up) \/ OnBotRemoved(up)
        PROVE  Goal
    <2>1. CASE OnMemberJoined(up)
      <3>1. db'.members = {Cleared(n, up.group, up.user) : n \in db.members}
        BY <1>0, <2>1, ClearPendingColumns DEF OnMemberJoined
      <3>2. \A n \in db.members :
                LET m == Cleared(n, up.group, up.user) IN m.group = n.group /\ m.user = n.user
        BY <1>0 DEF Cleared, Sound, Databases, MemberRows
      <3> QED BY <3>1, <3>2
    <2>2. CASE OnMemberLeft(up)
      BY <1>0, <2>2, RemoveMembersColumns DEF OnMemberLeft
    <2>3. CASE OnBotAdded(up)
      BY <1>0, <2>3, CreateGroupRecordColumns DEF OnBotAdded
    <2>4. CASE IgnoreBotAdded(up)
      BY <1>1, <2>4 DEF IgnoreBotAdded
    <2>5. CASE OnBotRemoved(up)
      <3> DEFINE new == DeleteGroup(db, up.group)
      <3>1. new.members = IF up.group \in db.groups THEN {m \in db.members : m.group # up.group}
                          ELSE db.members
        BY <1>0, DeleteGroupColumns
      <3>2. db' = new
        BY <2>5 DEF OnBotRemoved
      <3> HIDE DEF new
      <3> QED BY <3>1, <3>2
    <2> QED BY <1>7, <2>1, <2>2, <2>3, <2>4, <2>5
  <1>8. ASSUME UNCHANGED vars PROVE Goal
    BY <1>1, <1>8 DEF vars
  <1> HIDE DEF Goal
  <1>9. ASSUME Next PROVE Goal
    <2>1. ASSUME Deliver PROVE Goal
      BY <1>7, <2>1, Zenon DEF Deliver
    <2> QED BY <1>3, <1>4, <1>5, <1>6, <1>9, <2>1 DEF Next
  <1> QED BY <1>8, <1>9 DEF Goal

LEMMA OffboardStep ==
    ASSUME Sequential, SerialInv, OffboardKnows, [Next]_vars
    PROVE  OffboardKnows'
  <1>1. SUFFICES ASSUME NEW s \in Slots, tasks'[s].at \in {"banning", "banned"},
                        NEW m \in db'.members, m.user = tasks'[s].user
                 PROVE  m.group \in tasks'[s].groups
    BY DEF OffboardKnows
  <1>2. Inv /\ tasks \in [Slots -> Tasks] /\ RowsInGroups
    BY DEF SerialInv, Inv, RestOK
  <1>3. CASE tasks'[s] = tasks[s]
    <2>1. PICK n \in db.members : n.group = m.group /\ n.user = m.user
      BY <1>1, <1>3, RowsOnlyGo, IdleIsNowhere
    <2> QED BY <1>1, <1>3, <2>1 DEF OffboardKnows
  <1>4. CASE tasks'[s] # tasks[s]
    <2>1. Begin(s) \/ TelegramStep(s) \/ DatabaseStep(s)
      BY <1>2, <1>4, Moves
    <2>2. ASSUME NEW t, Goes(s, t) PROVE tasks'[s] = t
      BY <1>2, <2>2 DEF Goes
    <2>3. CASE Begin(s)
      <3>1. PICK u \in Users : StartOffboard(s, u)
        <4>1. ASSUME NEW t, Goes(s, t), t.at \notin {"banning", "banned"} PROVE FALSE
          BY <1>1, <2>2, <4>1
        <4>2. \A u \in Users : ~StartCreateGroup(s, u)
          BY <4>1 DEF StartCreateGroup
        <4>3. \A a, u \in Users, g \in Groups : ~StartAddClient(s, a, g, u)
          BY <4>1 DEF StartAddClient
        <4> QED BY <2>3, <4>1, <4>2, <4>3
            DEF Begin, StartSync, StartRemove, StartRemoveGroup
      <3>2. /\ tasks'[s] = [at |-> "banning", user |-> u, groups |-> GroupsOf(db, u)]
            /\ db' = db
        BY <2>2, <3>1 DEF StartOffboard
      <3>3. m \in RowsOf(db, m.group, u) /\ m.group \in db.groups
        BY <1>1, <1>2, <3>2 DEF RowsInGroups, RowsOf
      <3> QED BY <3>2, <3>3 DEF GroupsOf
    <2>4. CASE TelegramStep(s)
      <3>1. PICK gs \in SUBSET Groups : BanEverywhere(s, gs)
        <4>1. ASSUME NEW t, Goes(s, t), t.at \notin {"banning", "banned"} PROVE FALSE
          BY <1>1, <2>2, <4>1
        <4>2. ASSUME NEW place, tasks[s].at \in {"removing", "deleting"},
                     place \notin {"banning", "banned"}
              PROVE  ~Goes(s, [tasks[s] EXCEPT !.at = place])
          <5>1. [tasks[s] EXCEPT !.at = place].at = place
            BY <1>2, <4>2 DEF Tasks
          <5> QED BY <4>1, <4>2, <5>1
        <4>3. ~DeleteChat(s)
          BY <4>2 DEF DeleteChat, At
        <4>4. \A us : ~Kick(s, us)
          BY <4>2 DEF Kick, At
        <4>5. \A g, us : ~CreateChat(s, g, us) /\ ~CreateChatHalfway(s, g, us)
          BY <4>1, IdleIsNowhere DEF CreateChat, CreateChatHalfway
        <4>6. ~InviteDirectly(s) /\ ~InviteByLink(s)
          BY <4>1 DEF InviteDirectly, InviteByLink
        <4>7. /\ \A gs : ~BanInterrupted(s, gs)
              /\ ~EndCreateGroup(s) /\ ~TelegramFails(s)
          BY <4>1, IdleIsNowhere DEF BanInterrupted, EndCreateGroup, TelegramFails
        <4>8. ~Scan(s)
          BY <4>1 DEF Scan
        <4> QED BY <2>4, <4>3, <4>4, <4>5, <4>6, <4>7, <4>8 DEF TelegramStep
      <3>2. /\ tasks'[s] = [tasks[s] EXCEPT !.at = "banned"]
            /\ tasks[s].at = "banning" /\ db' = db
        BY <2>2, <3>1 DEF BanEverywhere, Bans, At
      <3> DEFINE t == tasks[s]
      <3>3. tasks'[s].user = t.user /\ tasks'[s].groups = t.groups
        BY <3>2
      <3> QED BY <1>1, <3>2, <3>3 DEF OffboardKnows
    <2>5. CASE DatabaseStep(s)
      BY <1>1, <2>2, <2>5, IdleIsNowhere
      DEF DatabaseStep, FinishCreateGroup, FinishAddClient, FinishOffboard, ReadMembers,
          WriteSync, TransactionFails, WriteSyncOfNewGroup, FinishRemove, FinishRemoveGroup
    <2> QED BY <2>1, <2>3, <2>4, <2>5
  <1> QED BY <1>3, <1>4

(* Nobody has rows in a group that is not on record.                       *)
LEMMA NoRecordNoRows ==
    ASSUME RowsInGroups, NEW g, g \notin db.groups
    PROVE  MembersOf(db, g) = {}
  BY DEF RowsInGroups, MembersOf

(* What is out of date about each kind of screen.                          *)
LEMMA OutdatedKinds ==
    ASSUME NEW old, NEW new
    PROVE  /\ \A u : GroupsView(u) \in Outdated(old, new) => GroupsOf(old, u) # GroupsOf(new, u)
           /\ \A u : ProfileView(u) \in Outdated(old, new) => ShownRole(old, u) # ShownRole(new, u)
           /\ \A v \in Outdated(old, new) : v.kind = "members" =>
                  /\ ShownMembers(old, v.group) # ShownMembers(new, v.group)
                  /\ v.user \in MembersOf(old, v.group)
  <1>1. ASSUME NEW v \in Outdated(old, new)
        PROVE  /\ v.kind = "groups" => GroupsOf(old, v.user) # GroupsOf(new, v.user)
               /\ v.kind = "profile" => ShownRole(old, v.user) # ShownRole(new, v.user)
               /\ v.kind = "members" => /\ ShownMembers(old, v.group) # ShownMembers(new, v.group)
                                        /\ v.user \in MembersOf(old, v.group)
    BY <1>1, OutdatedIs, ViewsAre
  <1> QED BY <1>1, ViewsAre

(* Whom the code tells nothing, one operation after another: who is        *)
(* offboarded, and who is tagged by hand in a group he was not in.         *)
Excused(v) ==
    /\ v.kind # "members"
    /\ \/ \E s \in Slots : FinishOffboard(s) /\ tasks[s].user = v.user
       \/ \E a \in Users, g \in Groups, t \in ManualTags :
              TagMember(a, g, v.user, t) /\ v.user \notin MembersOf(db, g)

(* What comes to be untold was forgotten and is out of date.               *)
LEMMA NewlyUntold ==
    ASSUME NEW pushes, NEW forgotten, Telling(pushes, forgotten), NEW v \in untold' \ untold
    PROVE  v \in forgotten /\ v \in Outdated(db, db')
  BY DEF Telling

LEMMA RequestForgets ==
    ASSUME SerialInv, OwnedRows(db), OffboardKnows, NEW s \in Slots, TellingStep(s),
           NEW v \in untold' \ untold
    PROVE  Excused(v)
  <1> DEFINE t == tasks[s]
             g == t.group
  <1>0. t \in Tasks /\ Sound(db) /\ RowsInGroups /\ Coherent(s)
    BY DEF SerialInv, Inv, RestOK
  <1>1. ASSUME v \in RecordForgotten(g), v \in Outdated(db, db'), g \notin db.groups PROVE FALSE
    BY <1>0, <1>1, NoRecordNoRows DEF RecordForgotten
  <1>2. ASSUME NEW kept \in SUBSET Users,
               Tells(FinishCreateGroup(s, kept), CreateGroupPushes(s), CreateGroupForgotten(s))
        PROVE  FALSE
    <2>1. Telling(CreateGroupPushes(s), CreateGroupForgotten(s)) /\ FinishCreateGroup(s, kept)
      BY <1>2 DEF Tells, Telling
    <2>2. v \in CreateGroupForgotten(s) /\ v \in Outdated(db, db')
      BY <2>1, NewlyUntold
    <2>3. g \notin db.groups
      BY <1>0, <2>1 DEF FinishCreateGroup, At, Coherent
    <2>4. v \notin RecordForgotten(g)
      BY <1>1, <2>2, <2>3
    <2>5. v.kind = "members" /\ v.group = g
      BY <2>2, <2>4 DEF CreateGroupForgotten
    <2>6. v.user \in MembersOf(db, g)
      BY <2>2, <2>5, OutdatedKinds
    <2> QED BY <1>0, <2>3, <2>6, NoRecordNoRows
  <1>3. ASSUME Tells(FinishOffboard(s), OffboardPushes(s), OffboardForgotten(s)) PROVE Excused(v)
    <2> DEFINE u == t.user
               groups == t.groups
    <2>1. Telling(OffboardPushes(s), OffboardForgotten(s)) /\ FinishOffboard(s)
      BY <1>3 DEF Tells, Telling
    <2>2. v \in OffboardForgotten(s) /\ v \in Outdated(db, db')
      BY <2>1, NewlyUntold
    <2>3. \/ v = GroupsView(u) \/ v = ProfileView(u)
          \/ v.kind = "members" /\ (v.group \notin groups \/ db.users[u] = NoUser)
      BY <2>2 DEF OffboardForgotten
    <2>4. u \in Users /\ db' = DeleteUser(db, u) /\ t.at = "banned"
      BY <1>0, <2>1, TaskFields DEF FinishOffboard, At
    <2>5. \A m \in db.members : m.user = u => m.group \in groups /\ db.users[u] # NoUser
      BY <2>4 DEF OffboardKnows, OwnedRows
    <2>6. v.kind # "members"
      <3>1. SUFFICES ASSUME v.kind = "members" PROVE FALSE
        OBVIOUS
      <3>2. ShownMembers(db, v.group) # ShownMembers(db', v.group)
        BY <2>2, <3>1, OutdatedKinds
      <3>3. db'.members = {m \in db.members : m.user # u}
        BY <1>0, <2>4, DeleteUserColumns
      <3> HIDE DEF u, groups, t
      <3>4. PICK m \in db.members : m.group = v.group /\ m.user = u
        BY <3>2, <3>3 DEF ShownMembers
      <3> QED BY <2>3, <2>5, <3>1, <3>4, ViewsAre
    <2>7. v.user = u
      BY <2>3, <2>6, ViewsAre
    <2> QED BY <2>1, <2>6, <2>7 DEF Excused
  <1>4. ASSUME Tells(WriteSync(s), SyncPushes(s), SyncForgotten(s)) PROVE FALSE
    <2> DEFINE present == t.present
               current == t.current
               roles == t.roles
    <2>1. Telling(SyncPushes(s), SyncForgotten(s)) /\ WriteSync(s)
      BY <1>4 DEF Tells, Telling
    <2>2. v \in SyncForgotten(s) /\ v \in Outdated(db, db')
      BY <2>1, NewlyUntold
    <2>3. PICK u \in current \ present : v = ProfileView(u)
      BY <2>2 DEF SyncForgotten
    <2>4. /\ g \in Groups /\ present \in SUBSET Users /\ current \in SUBSET Users
          /\ roles = db.users
          /\ db' = Synced(db, g, present, current, roles)
      BY <1>0, <2>1, TaskFields DEF WriteSync, At, Coherent
    <2> HIDE DEF g, present, current, roles, t
    <2>5. SyncReturns(db, g, present, current, roles, db')
      BY <1>0, <2>4, SyncedColumns
    <2>6. ShownRole(db, u) # ShownRole(db', u)
      BY <2>2, <2>3, OutdatedKinds
    <2> QED BY <2>3, <2>4, <2>5, <2>6, RoleAssumption DEF SyncReturns, ShownRole
  <1>5. ASSUME Tells(WriteSyncOfNewGroup(s), SyncPushes(s), RecordForgotten(g)) PROVE FALSE
    <2>1. Telling(SyncPushes(s), RecordForgotten(g)) /\ WriteSyncOfNewGroup(s)
      BY <1>5 DEF Tells, Telling
    <2>2. v \in RecordForgotten(g) /\ v \in Outdated(db, db')
      BY <2>1, NewlyUntold
    <2>3. g \notin db.groups
      BY <2>1 DEF WriteSyncOfNewGroup
    <2> QED BY <1>1, <2>2, <2>3
  <1>6. ASSUME NEW step, NEW pushes, Tells(step, pushes, {}) PROVE FALSE
    BY <1>6 DEF Tells
  <1> QED BY <1>2, <1>3, <1>4, <1>5, <1>6 DEF TellingStep

LEMMA TransactionForgets ==
    ASSUME SerialInv, TellingTransaction, NEW v \in untold' \ untold
    PROVE  Excused(v)
  <1>0. Sound(db)
    BY DEF SerialInv, Inv
  <1>1. ASSUME NEW u \in Users, NEW r \in Roles, Tells(SetRole(u, r), RolePushes(u), {}) PROVE FALSE
    BY <1>1 DEF Tells
  <1>2. ASSUME NEW a \in Users, NEW u \in Users, NEW g \in Groups, NEW t \in ManualTags,
               Tells(TagMember(a, g, u, t), {ToGroup(g)}, TaggedForgotten(u))
        PROVE  Excused(v)
    <2>1. Telling({ToGroup(g)}, TaggedForgotten(u)) /\ TagMember(a, g, u, t)
      BY <1>2 DEF Tells, Telling
    <2>2. v = GroupsView(u) /\ v \in Outdated(db, db')
      BY <2>1, NewlyUntold DEF TaggedForgotten
    <2>3. GroupsOf(db, u) # GroupsOf(db', u)
      BY <2>2, OutdatedKinds
    <2>4. \E no : no = FALSE /\ db' = AddMemberTag(db, db, g, u, t, no)
      BY <2>1, Zenon DEF TagMember
    <2>5. PICK no : db' = AddMemberTag(db, db, g, u, t, no)
      BY <2>4, Zenon
    <2>6. /\ db'.groups = db.groups
          /\ db'.members = {m \in db.members : ~(m.group = g /\ m.user = u /\ m.tag = t)}
                               \cup {Row(g, u, t, no)}
      BY <1>0, <2>5, LoneTagColumns
    <2>7. Row(g, u, t, no).user = u /\ Row(g, u, t, no).group = g
      BY DEF Row
    <2>8. OnlyIn(db, db', g)
      BY <2>6, <2>7 DEF OnlyIn
    <2>9. ~(g \in GroupsOf(db, u) <=> g \in GroupsOf(db', u))
      BY <2>3, <2>6, <2>8, ListsChangeBy
    <2>10. RowsOf(db', g, u) # {}
      BY <2>6, <2>7 DEF RowsOf
    <2>11. u \notin MembersOf(db, g)
      BY <2>6, <2>9, <2>10 DEF GroupsOf, RowsOf, MembersOf
    <2>12. v.kind # "members" /\ v.user = u
      BY <2>2, ViewsAre
    <2> QED BY <2>1, <2>11, <2>12 DEF Excused
  <1> QED BY <1>1, <1>2 DEF TellingTransaction

LEMMA UpdateForgets ==
    ASSUME SerialInv, NEW up \in updates, TellingUpdate(up), NEW v \in untold' \ untold
    PROVE  FALSE
  <1> DEFINE g == up.group
  <1>0. Sound(db) /\ RowsInGroups
    BY DEF SerialInv, Inv
  <1>1. ASSUME Tells(OnBotAdded(up), {}, RecordForgotten(g)) PROVE FALSE
    <2>1. Telling({}, RecordForgotten(g)) /\ db' = CreateGroupRecord(db, g)
      BY <1>1 DEF Tells, Telling, OnBotAdded
    <2>2. v \in RecordForgotten(g) /\ v \in Outdated(db, db')
      BY <2>1, NewlyUntold
    <2>3. PICK u \in MembersOf(db, g) : v = GroupsView(u)
      BY <2>2 DEF RecordForgotten
    <2> HIDE DEF g
    <2>4. GroupsOf(db, u) # GroupsOf(db', u)
      BY <2>2, <2>3, OutdatedKinds
    <2>5. g \in db.groups
      BY <1>0, <2>3, NoRecordNoRows
    <2> QED BY <1>0, <2>1, <2>4, <2>5, CreateGroupRecordColumns DEF GroupsOf, RowsOf
  <1>2. ASSUME NEW step, NEW pushes, Tells(step, pushes, {}) PROVE FALSE
    BY <1>2 DEF Tells
  <1> QED BY <1>1, <1>2 DEF TellingUpdate

LEMMA ForgottenStep ==
    ASSUME SerialInv, OwnedRows(db), OffboardKnows, [PushNext]_pushVars, NEW v \in untold' \ untold
    PROVE  Excused(v)
  <1>1. ~Tells(SilentStep, {}, {})
    BY DEF Tells
  <1>2. \A g \in Groups : ~Address(g)
    BY DEF Address
  <1>3. \A w \in Views : ~Send(w)
    BY DEF Send
  <1>4. ~UNCHANGED pushVars
    BY DEF pushVars
  <1> QED BY <1>1, <1>2, <1>3, <1>4, RequestForgets, TransactionForgets, UpdateForgets DEF PushNext

(* What operations one after another keep.                                 *)
LEMMA OneByOne ==
    ASSUME Sequential, ~TagStrangers
    PROVE  PushSpec => [](SerialInv /\ OwnedRows(db) /\ OffboardKnows)
  <1>1. Init => OffboardKnows
    BY IdleIsNowhere DEF Init, OffboardKnows
  <1>2. SerialInv /\ OffboardKnows /\ [Next]_vars => OffboardKnows'
    BY OffboardStep
  <1>3. NoOrphanRows => OwnedRows(db)
    BY DEF NoOrphanRows, NoOrphans, OwnedRows
  <1> QED BY <1>1, <1>2, <1>3, PushesKeepMembership, SerialInvariant, RowsAreOwned, PTL DEF Spec

(* One operation after another, and no strangers tagged, the code forgets  *)
(* to tell only who is offboarded, whose Mini App keeps showing him his    *)
(* groups, and who is tagged by hand in a group he was not in              *)
(* (group_service.offboard_staff, POST /members/tag): nobody is left       *)
(* looking at a record made over rows, at a team that grew under a /sync   *)
(* or at a role that a scan took away.                                     *)
THEOREM OnlyTheseForgotten ==
    ASSUME Sequential, ~TagStrangers
    PROVE  PushSpec => [][\A v \in untold' \ untold : Excused(v)]_pushVars
  <1>1. /\ SerialInv /\ OwnedRows(db) /\ OffboardKnows
        /\ [PushNext]_pushVars
        => [\A v \in untold' \ untold : Excused(v)]_pushVars
    BY ForgottenStep
  <1> QED BY <1>1, OneByOne, PTL DEF PushSpec

(* So one operation after another, once every push is out, whoever looks   *)
(* at the members of a group sees them as they are, without an exception.  *)
THEOREM MembersNeverBehind ==
    ASSUME Sequential, ~TagStrangers
    PROVE  PushSpec => [](AllTold => \A v \in stale : v.kind # "members")
  <1> DEFINE J == \A v \in untold : v.kind # "members"
             Goal == AllTold => \A v \in stale : v.kind # "members"
  <1>1. PushInit => J
    BY DEF PushInit
  <1>2. J /\ SerialInv /\ OwnedRows(db) /\ OffboardKnows /\ [PushNext]_pushVars => J'
    BY ForgottenStep DEF Excused
  <1>3. PushInv /\ J => Goal
    BY NothingOwed
  <1> HIDE DEF J, Goal
  <1>4. PushSpec => []Goal
    BY <1>1, <1>2, <1>3, OneByOne, PushInvariant, PTL DEF PushSpec
  <1> QED BY <1>4 DEF Goal
=============================================================================
