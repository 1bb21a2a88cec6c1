----------------------------- MODULE CrudProofs -----------------------------
(***************************************************************************)
(* What the database operations of Crud preserve, for every set of users,  *)
(* groups, roles and tags: the types, the unique constraint and the rule   *)
(* that only clients are pending.                                          *)
(***************************************************************************)
EXTENDS Crud, TLAPS

Sound(db) == db \in Databases /\ UniqueTags(db) /\ OnlyClientsPending(db)

(* The same over the rows alone.                                           *)
SoundRows(rows) ==
    /\ rows \subseteq MemberRows
    /\ \A m, n \in rows :
          m.group = n.group /\ m.user = n.user /\ m.tag = n.tag => m = n
    /\ \A m \in rows : m.pending => m.tag = Client

(* Soundness, column by column.                                            *)
LEMMA SoundIsSoundRows ==
  ASSUME NEW db
  PROVE  Sound(db) <=> /\ db = [users |-> db.users, groups |-> db.groups, members |-> db.members]
                       /\ db.users \in [Users -> UserStates]
                       /\ db.groups \subseteq Groups
                       /\ SoundRows(db.members)
  BY DEF Sound, SoundRows, Databases, UniqueTags, OnlyClientsPending

(* Replacing the rows of a sound database.                                 *)
LEMMA SoundMembers ==
  ASSUME NEW db, Sound(db), NEW rows, SoundRows(rows)
  PROVE  Sound([db EXCEPT !.members = rows])
  BY DEF Sound, SoundRows, Databases, UniqueTags, OnlyClientsPending

(* Replacing the user rows.                                                *)
LEMMA SoundUsers ==
  ASSUME NEW db, Sound(db), NEW users \in [Users -> UserStates]
  PROVE  Sound([db EXCEPT !.users = users])
  BY DEF Sound, Databases, UniqueTags, OnlyClientsPending

(* A row of the right types is a row, and its columns are what was put in. *)
LEMMA RowType ==
  ASSUME NEW g \in Groups, NEW u \in Users, NEW t \in Tags, NEW p \in BOOLEAN
  PROVE  /\ Row(g, u, t, p) \in MemberRows
         /\ Row(g, u, t, p).group = g /\ Row(g, u, t, p).user = u
         /\ Row(g, u, t, p).tag = t /\ Row(g, u, t, p).pending = p
  BY DEF Row, MemberRows

(* get_or_create_user touches no row of group_members.                     *)
LEMMA GetOrCreateUsersSound ==
  ASSUME NEW db, Sound(db), NEW us
  PROVE  Sound(GetOrCreateUsers(db, us))
  <1>1. [u \in Users |-> IF u \in us /\ db.users[u] = NoUser THEN NoRole ELSE db.users[u]]
            \in [Users -> UserStates]
    BY DEF Sound, Databases, UserStates
  <1> QED BY <1>1, SoundUsers DEF GetOrCreateUsers

(* Nor does set_user_role.                                                 *)
LEMMA SetUserRoleSound ==
  ASSUME NEW db, Sound(db), NEW u \in Users, NEW role \in Roles
  PROVE  Sound(SetUserRole(db, u, role))
  BY DEF SetUserRole, Sound, Databases, UserStates, UniqueTags, OnlyClientsPending

(* sync_role_to_group_tags when nothing is refused.                        *)
SyncedRole(db, u, role) ==
    LET staffRows == {m \in db.members : m.user = u /\ m.tag \in Roles}
        matching == {m \in staffRows : m.tag = role}
        bare == {m.group : m \in staffRows} \ {m.group : m \in matching}
    IN  [db EXCEPT !.members =
            (@ \ staffRows) \cup matching \cup {Row(g, u, role, FALSE) : g \in bare}]

(* sync_role_to_group_tags inserts the new role only in groups where no    *)
(* row has it, so that its flush is never refused.                         *)
LEMMA SyncRoleNeverRefused ==
  ASSUME NEW base, NEW db, NEW u, NEW role \in Roles
  PROVE  SyncRoleToGroupTags(base, db, u, role) = SyncedRole(db, u, role)
  <1> DEFINE staffRows == {m \in db.members : m.user = u /\ m.tag \in Roles}
             matching == {m \in staffRows : m.tag = role}
             bare == {m.group : m \in staffRows} \ {m.group : m \in matching}
             added == {Row(g, u, role, FALSE) : g \in bare}
  <1>1. ASSUME NEW g \in bare
        PROVE  ~(Row(g, u, role, FALSE).tag
                    \in TagsOf(db, Row(g, u, role, FALSE).group, Row(g, u, role, FALSE).user))
    <2>1. \A m \in db.members : m.group = g /\ m.user = u => m.tag # role
      OBVIOUS
    <2>2. role \notin TagsOf(db, g, u)
      BY <2>1 DEF TagsOf, RowsOf
    <2> HIDE DEF bare
    <2> QED BY <2>2 DEF Row
  <1>2. ~Refuses(db, added)
    <2> HIDE DEF bare
    <2> QED BY <1>1, Zenon DEF Refuses
  <1> QED BY <1>2, Zenon DEF SyncRoleToGroupTags, SyncedRole

(* sync_role_to_group_tags never inserts the new role beside a row that    *)
(* already has it.                                                         *)
LEMMA SyncRoleToGroupTagsSound ==
  ASSUME NEW base, NEW db, Sound(db), NEW u \in Users, NEW role \in Roles
  PROVE  Sound(SyncRoleToGroupTags(base, db, u, role))
  <1> DEFINE staffRows == {m \in db.members : m.user = u /\ m.tag \in Roles}
             matching == {m \in staffRows : m.tag = role}
             bare == {m.group : m \in staffRows} \ {m.group : m \in matching}
             new == {Row(g, u, role, FALSE) : g \in bare}
             rows == (db.members \ staffRows) \cup matching \cup new
  <1>0. SoundRows(db.members)
    BY SoundIsSoundRows
  <1>1. bare \subseteq Groups
    <2>1. \A m \in db.members : m.group \in Groups
      BY <1>0 DEF SoundRows, MemberRows
    <2>2. SUFFICES ASSUME NEW g \in bare PROVE g \in Groups
      OBVIOUS
    <2>3. PICK m \in staffRows : g = m.group
      OBVIOUS
    <2> QED BY <2>1, <2>3
  <1>2. role \in Tags /\ role # Client
    BY TagAssumption DEF Tags, OfficialTags
  <1>3. \A m \in new : /\ m \in MemberRows
                       /\ m.group \in bare /\ m.user = u /\ m.tag = role /\ ~m.pending
                       /\ m = Row(m.group, u, role, FALSE)
    <2>1. SUFFICES ASSUME NEW g \in bare
                   PROVE  LET m == Row(g, u, role, FALSE)
                          IN  /\ m \in MemberRows
                              /\ m.group \in bare /\ m.user = u /\ m.tag = role /\ ~m.pending
                              /\ m = Row(m.group, u, role, FALSE)
      BY Zenon
    <2>2. g \in Groups
      BY <1>1
    <2> HIDE DEF bare
    <2> QED BY <1>2, <2>2 DEF Row, MemberRows
  <1>4. \A m \in (db.members \ staffRows) \cup matching :
            m.user = u /\ m.tag = role => m.group \notin bare
    OBVIOUS
  <1>5. rows \subseteq MemberRows
    BY <1>0, <1>3 DEF SoundRows
  <1>6. ASSUME NEW m \in rows, NEW n \in rows,
               m.group = n.group, m.user = n.user, m.tag = n.tag
        PROVE  m = n
    <2>1. CASE m \in new
      <3>1. n \in new
        BY <1>3, <1>4, <1>6, <2>1
      <3> QED BY <1>3, <1>6, <2>1, <3>1
    <2>2. CASE m \notin new
      <3>1. n \notin new
        BY <1>3, <1>4, <1>6, <2>2
      <3> QED BY <1>0, <1>6, <2>2, <3>1 DEF SoundRows
    <2> QED BY <2>1, <2>2
  <1>7. \A m \in rows : m.pending => m.tag = Client
    BY <1>0, <1>3 DEF SoundRows
  <1>8. SoundRows(rows)
    BY <1>5, <1>6, <1>7 DEF SoundRows
  <1> HIDE DEF staffRows, matching, bare, new, rows
  <1>9. SyncedRole(db, u, role) = [db EXCEPT !.members = rows]
    BY DEF SyncedRole, staffRows, matching, bare, new, rows
  <1> QED BY <1>8, <1>9, SoundMembers, SyncRoleNeverRefused

(* set_member_tag deletes every official row before it inserts one.        *)
LEMMA SetMemberTagsSound ==
  ASSUME NEW db, Sound(db), NEW g \in Groups, NEW us, us \subseteq Users,
         NEW tag, \A u \in us : tag[u] \in OfficialTags
  PROVE  Sound(SetMemberTags(db, g, us, tag))
  <1> DEFINE kept == {m \in db.members : ~(m.group = g /\ m.user \in us /\ m.tag \in OfficialTags)}
             new == {Row(g, u, tag[u], FALSE) : u \in us}
             rows == kept \cup new
  <1>0. SoundRows(db.members)
    BY SoundIsSoundRows
  <1>1. \A m \in new : /\ m \in MemberRows
                       /\ m.group = g /\ m.user \in us /\ m.tag = tag[m.user] /\ ~m.pending
                       /\ m = Row(g, m.user, tag[m.user], FALSE)
    <2>1. SUFFICES ASSUME NEW u \in us
                   PROVE  LET m == Row(g, u, tag[u], FALSE)
                          IN  /\ m \in MemberRows
                              /\ m.group = g /\ m.user \in us /\ m.tag = tag[m.user] /\ ~m.pending
                              /\ m = Row(g, m.user, tag[m.user], FALSE)
      BY Zenon
    <2>2. tag[u] \in Tags /\ u \in Users
      BY DEF Tags
    <2> QED BY <2>2 DEF Row, MemberRows
  <1>2. rows \subseteq MemberRows
    BY <1>0, <1>1 DEF SoundRows
  <1>3. ASSUME NEW m \in rows, NEW n \in rows,
               m.group = n.group, m.user = n.user, m.tag = n.tag
        PROVE  m = n
    <2>1. CASE m \in new /\ n \in new
      BY <1>1, <1>3, <2>1
    <2>2. CASE m \in kept /\ n \in kept
      BY <1>0, <1>3, <2>2 DEF SoundRows
    <2>3. CASE (m \in new /\ n \in kept) \/ (m \in kept /\ n \in new)
      BY <1>1, <1>3, <2>3
    <2> QED BY <2>1, <2>2, <2>3
  <1>4. \A m \in rows : m.pending => m.tag = Client
    BY <1>0, <1>1 DEF SoundRows
  <1>5. SoundRows(rows)
    BY <1>2, <1>3, <1>4 DEF SoundRows
  <1> HIDE DEF kept, new, rows
  <1>6. SetMemberTags(db, g, us, tag) = [db EXCEPT !.members = rows]
    BY DEF SetMemberTags, NewRows, kept, new, rows
  <1> QED BY <1>5, <1>6, SoundMembers

(* Adding rows of tags their members do not have yet.                      *)
LEMMA NewRowsSound ==
  ASSUME NEW db, Sound(db), NEW g \in Groups, NEW us, us \subseteq Users,
         NEW tag, \A u \in us : tag[u] \in Tags /\ tag[u] \notin TagsOf(db, g, u)
  PROVE  Sound([db EXCEPT !.members = @ \cup NewRows(g, us, tag)])
  <1> DEFINE new == {Row(g, u, tag[u], FALSE) : u \in us}
             rows == db.members \cup new
  <1>1. SoundRows(db.members)
    BY SoundIsSoundRows
  <1>2. \A m \in new : /\ m \in MemberRows
                       /\ m.group = g /\ m.user \in us /\ m.tag = tag[m.user] /\ ~m.pending
                       /\ m = Row(g, m.user, tag[m.user], FALSE)
    <2>1. SUFFICES ASSUME NEW u \in us
                   PROVE  LET m == Row(g, u, tag[u], FALSE)
                          IN  /\ m \in MemberRows
                              /\ m.group = g /\ m.user \in us /\ m.tag = tag[m.user] /\ ~m.pending
                              /\ m = Row(g, m.user, tag[m.user], FALSE)
      BY Zenon
    <2>2. tag[u] \in Tags /\ u \in Users
      OBVIOUS
    <2> QED BY <2>2 DEF Row, MemberRows
  <1>3. \A m \in db.members : ~(m.group = g /\ m.user \in us /\ m.tag = tag[m.user])
    BY DEF TagsOf, RowsOf
  <1>4. rows \subseteq MemberRows
    BY <1>1, <1>2 DEF SoundRows
  <1>5. ASSUME NEW m \in rows, NEW n \in rows,
               m.group = n.group, m.user = n.user, m.tag = n.tag
        PROVE  m = n
    <2>1. CASE m \in new /\ n \in new
      BY <1>2, <1>5, <2>1
    <2>2. CASE m \in db.members /\ n \in db.members
      BY <1>1, <1>5, <2>2 DEF SoundRows
    <2>3. CASE (m \in new /\ n \in db.members) \/ (m \in db.members /\ n \in new)
      BY <1>2, <1>3, <1>5, <2>3
    <2> QED BY <2>1, <2>2, <2>3
  <1>6. \A m \in rows : m.pending => m.tag = Client
    BY <1>1, <1>2 DEF SoundRows
  <1>7. SoundRows(rows)
    BY <1>4, <1>5, <1>6 DEF SoundRows
  <1>8. Sound([db EXCEPT !.members = rows])
    <2> HIDE DEF rows
    <2> QED BY <1>7, SoundMembers
  <1> QED BY <1>8 DEF NewRows

(* A database with rows (g, u, t) replaced by one new row.                 *)
LEMMA ReplacedRowSound ==
  ASSUME NEW db, Sound(db), NEW g \in Groups, NEW u \in Users, NEW t \in Tags,
         NEW p \in BOOLEAN, p => t = Client
  PROVE  Sound([db EXCEPT !.members =
            {m \in @ : ~(m.group = g /\ m.user = u /\ m.tag = t)} \cup {Row(g, u, t, p)}])
  <1> DEFINE kept == {m \in db.members : ~(m.group = g /\ m.user = u /\ m.tag = t)}
             rows == kept \cup {Row(g, u, t, p)}
  <1>1. SoundRows(db.members)
    BY SoundIsSoundRows
  <1>2. SoundRows(rows)
    BY <1>1, RowType DEF SoundRows
  <1> QED BY <1>2, SoundMembers

(* add_member_tag, with what refuses its row spelt out.                    *)
TaggedOnce(base, db, g, u, t, p) ==
    IF t \notin TagsOf(db, g, u)
    THEN [db EXCEPT !.members = @ \cup {Row(g, u, t, p)}]
    ELSE [base EXCEPT !.members =
            {m \in @ : ~(m.group = g /\ m.user = u /\ m.tag = t)} \cup {Row(g, u, t, p)}]

(* The constraint refuses a row exactly when its tag is there.             *)
LEMMA AddMemberTagIs ==
  ASSUME NEW base, NEW db, NEW g, NEW u, NEW t, NEW p
  PROVE  AddMemberTag(base, db, g, u, t, p) = TaggedOnce(base, db, g, u, t, p)
  <1>1. Refuses(db, {Row(g, u, t, p)}) <=> t \in TagsOf(db, g, u)
    BY DEF Refuses, Row
  <1> QED BY <1>1, Zenon DEF AddMemberTag, TaggedOnce

(* add_member_tag inserts a row only if the tag is new; otherwise it falls *)
(* back on the database the transaction began with.                        *)
LEMMA AddMemberTagSound ==
  ASSUME NEW base, NEW db, Sound(base), Sound(db), NEW g \in Groups, NEW u \in Users,
         NEW t \in Tags, NEW p \in BOOLEAN, p => t = Client
  PROVE  Sound(AddMemberTag(base, db, g, u, t, p))
  <1>1. CASE t \notin TagsOf(db, g, u)
    <2>1. \A m \in db.members : ~(m.group = g /\ m.user = u /\ m.tag = t)
      BY <1>1 DEF TagsOf, RowsOf
    <2>2. SoundRows(db.members)
      BY SoundIsSoundRows
    <2>3. SoundRows(db.members \cup {Row(g, u, t, p)})
      BY <2>1, <2>2, RowType DEF SoundRows
    <2>4. Sound([db EXCEPT !.members = db.members \cup {Row(g, u, t, p)}])
      BY <2>3, SoundMembers
    <2> QED BY <1>1, <2>4, AddMemberTagIs DEF TaggedOnce
  <1>2. CASE t \in TagsOf(db, g, u)
    BY <1>2, ReplacedRowSound, AddMemberTagIs DEF TaggedOnce
  <1> QED BY <1>1, <1>2

(* Clearing a row changes its pending column only, and never sets it.      *)
LEMMA ClearedRow ==
  ASSUME NEW m \in MemberRows, NEW g, NEW u
  PROVE  /\ Cleared(m, g, u) \in MemberRows
         /\ Cleared(m, g, u).group = m.group
         /\ Cleared(m, g, u).user = m.user
         /\ Cleared(m, g, u).tag = m.tag
         /\ Cleared(m, g, u).pending => m.pending
  BY DEF Cleared, MemberRows

(* clear_pending.                                                          *)
LEMMA ClearPendingSound ==
  ASSUME NEW db, Sound(db), NEW g, NEW u
  PROVE  Sound(ClearPending(db, g, u))
  <1> DEFINE rows == {Cleared(m, g, u) : m \in db.members}
  <1>1. SoundRows(db.members)
    BY SoundIsSoundRows
  <1>2. \A m \in db.members : m \in MemberRows /\ (m.pending => m.tag = Client)
    BY <1>1 DEF SoundRows
  <1>3. rows \subseteq MemberRows
    BY <1>2, ClearedRow
  <1>4. ASSUME NEW m \in db.members, NEW n \in db.members,
               Cleared(m, g, u).group = Cleared(n, g, u).group,
               Cleared(m, g, u).user = Cleared(n, g, u).user,
               Cleared(m, g, u).tag = Cleared(n, g, u).tag
        PROVE  m = n
    <2>1. m.group = n.group /\ m.user = n.user /\ m.tag = n.tag
      BY <1>2, <1>4, ClearedRow
    <2> QED BY <1>1, <2>1 DEF SoundRows
  <1>5. \A x, y \in rows : x.group = y.group /\ x.user = y.user /\ x.tag = y.tag => x = y
    BY <1>4, Zenon
  <1>6. \A m \in db.members : Cleared(m, g, u).pending => Cleared(m, g, u).tag = Client
    BY <1>2, ClearedRow
  <1>7. ASSUME NEW x \in rows, x.pending PROVE x.tag = Client
    <2>1. PICK m \in db.members : x = Cleared(m, g, u)
      BY Zenon
    <2>2. Cleared(m, g, u).pending
      BY <1>7, <2>1, Zenon
    <2> QED BY <1>6, <2>1, <2>2, Zenon
  <1>8. SoundRows(rows)
    BY <1>3, <1>5, <1>7 DEF SoundRows
  <1>9. ClearPending(db, g, u) = [db EXCEPT !.members = rows]
    BY DEF ClearPending
  <1> HIDE DEF rows
  <1> QED BY <1>8, <1>9, SoundMembers

(* Fewer rows, other user rows: still sound.                               *)
LEMMA FewerRowsSound ==
  ASSUME NEW db, Sound(db), NEW rows, rows \subseteq db.members,
         NEW users \in [Users -> UserStates], NEW groups, groups \subseteq Groups
  PROVE  Sound([users |-> users, groups |-> groups, members |-> rows])
  BY DEF Sound, Databases, UniqueTags, OnlyClientsPending

(* remove_member only takes rows away.                                     *)
LEMMA RemoveMembersSound ==
  ASSUME NEW db, Sound(db), NEW g, NEW us, NEW roles
  PROVE  Sound(RemoveMembers(db, g, us, roles))
  <1> DEFINE left == {m \in db.members : ~(m.group = g /\ m.user \in us)}
             gone == {u \in us : /\ RowsOf(db, g, u) # {}
                                 /\ roles[u] = NoRole
                                 /\ \A m \in left : m.user # u}
             users == [u \in Users |-> IF u \in gone THEN NoUser ELSE db.users[u]]
  <1>1. users \in [Users -> UserStates]
    BY DEF Sound, Databases, UserStates
  <1>2. RemoveMembers(db, g, us, roles) = [users |-> users, groups |-> db.groups, members |-> left]
    <2>1. db = [users |-> db.users, groups |-> db.groups, members |-> db.members]
      BY SoundIsSoundRows
    <2>2. RemoveMembers(db, g, us, roles) = [db EXCEPT !.members = left, !.users = users]
      BY DEF RemoveMembers
    <2> HIDE DEF left, gone, users
    <2> QED BY <2>1, <2>2
  <1>3. left \subseteq db.members /\ db.groups \subseteq Groups
    BY DEF Sound, Databases
  <1> HIDE DEF left, gone, users
  <1> QED BY <1>1, <1>2, <1>3, FewerRowsSound

(* So does delete_user.                                                    *)
LEMMA DeleteUserSound ==
  ASSUME NEW db, Sound(db), NEW u \in Users
  PROVE  Sound(DeleteUser(db, u))
  BY DEF DeleteUser, Sound, Databases, UserStates, UniqueTags, OnlyClientsPending

(* create_group_record touches no row of group_members.                    *)
LEMMA CreateGroupRecordSound ==
  ASSUME NEW db, Sound(db), NEW g \in Groups
  PROVE  Sound(CreateGroupRecord(db, g))
  BY DEF CreateGroupRecord, Sound, Databases, UniqueTags, OnlyClientsPending

(* delete_group only takes rows away.                                      *)
LEMMA DeleteGroupSound ==
  ASSUME NEW db, Sound(db), NEW g
  PROVE  Sound(DeleteGroup(db, g))
  BY DEF DeleteGroup, Sound, Databases, UniqueTags, OnlyClientsPending

-----------------------------------------------------------------------------
(* What the operations do to the user rows of staff and to custom tags.    *)

KeepsStaff(old, new) == \A u \in Users : old.users[u] \in Roles => new.users[u] \in Roles

AllCustomTags(old, new) == \A m \in old.members : m.tag \in CustomTags => m \in new.members

CustomTagsOrNothing(old, new) ==
    \A m \in old.members :
        m.tag \in CustomTags /\ m \notin new.members => RowsOf(new, m.group, m.user) = {}

(* Whoever keeps every custom tag loses none with the membership kept.     *)
LEMMA AllImpliesOrNothing ==
  ASSUME NEW old, NEW new, AllCustomTags(old, new)
  PROVE  CustomTagsOrNothing(old, new)
  BY DEF AllCustomTags, CustomTagsOrNothing

(* get_or_create_user leaves the role of those who have a row.             *)
LEMMA GetOrCreateUsersKeeps ==
  ASSUME NEW db, Sound(db), NEW us
  PROVE  /\ KeepsStaff(db, GetOrCreateUsers(db, us))
         /\ GetOrCreateUsers(db, us).members = db.members
  BY RoleAssumption DEF GetOrCreateUsers, KeepsStaff, Sound, Databases, UserStates

(* A change of role makes nobody lose a role or a custom tag.              *)
LEMMA SetRoleKeeps ==
  ASSUME NEW base, NEW db, Sound(db), NEW u \in Users, NEW role \in Roles
  PROVE  LET new == SyncRoleToGroupTags(base, SetUserRole(db, u, role), u, role)
         IN  KeepsStaff(db, new) /\ AllCustomTags(db, new)
  <1> DEFINE set == SetUserRole(db, u, role)
             new == SyncRoleToGroupTags(base, set, u, role)
  <1>1. KeepsStaff(db, set) /\ set.members = db.members
    BY RoleAssumption DEF SetUserRole, KeepsStaff, Sound, Databases, UserStates
  <1>2. new.users = set.users
    <2>1. Sound(set)
      BY SetUserRoleSound
    <2>2. new = SyncedRole(set, u, role)
      BY SyncRoleNeverRefused
    <2> HIDE DEF set, new
    <2> QED BY <2>1, <2>2, SoundIsSoundRows DEF SyncedRole
  <1>3. AllCustomTags(set, new)
    <2>1. Sound(set)
      BY SetUserRoleSound
    <2>2. ASSUME NEW m \in set.members, m.tag \in CustomTags PROVE m \in new.members
      <3>1. m.tag \notin Roles
        BY <2>2, TagAssumption
      <3>2. new = SyncedRole(set, u, role)
        BY SyncRoleNeverRefused
      <3>3. m \in SyncedRole(set, u, role).members
        <4> HIDE DEF set
        <4> QED BY <2>1, <2>2, <3>1, SoundIsSoundRows DEF SyncedRole
      <3> QED BY <3>2, <3>3
    <2> QED BY <2>2 DEF AllCustomTags
  <1> HIDE DEF set, new
  <1>4. KeepsStaff(db, new) /\ AllCustomTags(db, new)
    BY <1>1, <1>2, <1>3 DEF KeepsStaff, AllCustomTags
  <1> QED BY <1>4 DEF set, new

(* set_member_tag replaces official tags only.                             *)
LEMMA SetMemberTagsKeeps ==
  ASSUME NEW db, Sound(db), NEW g, NEW us, NEW tag
  PROVE  /\ SetMemberTags(db, g, us, tag).users = db.users
         /\ AllCustomTags(db, SetMemberTags(db, g, us, tag))
  <1>1. \A m \in db.members : m.tag \in CustomTags => m.tag \notin OfficialTags
    BY TagAssumption DEF OfficialTags
  <1> QED BY <1>1, SoundIsSoundRows DEF SetMemberTags, AllCustomTags

(* A repeated tag only has its pending column rewritten, and that of a custom *)
(* tag is FALSE already.                                                   *)
LEMMA AddMemberTagKeeps ==
  ASSUME NEW base, NEW db, Sound(base), Sound(db), base.members = db.members,
         NEW g, NEW u, NEW t, NEW p \in BOOLEAN, p => t = Client
  PROVE  /\ AddMemberTag(base, db, g, u, t, p).users \in {base.users, db.users}
         /\ AllCustomTags(db, AddMemberTag(base, db, g, u, t, p))
  <1> DEFINE new == AddMemberTag(base, db, g, u, t, p)
  <1>1. new.users \in {base.users, db.users}
    BY SoundIsSoundRows, AddMemberTagIs DEF TaggedOnce
  <1>2. ASSUME NEW m \in db.members, m.tag \in CustomTags PROVE m \in new.members
    <2>1. CASE m.group = g /\ m.user = u /\ m.tag = t
      <3>1. m \in MemberRows /\ (m.pending => m.tag = Client) /\ m.tag # Client
        BY <1>2, TagAssumption DEF Sound, Databases, OnlyClientsPending
      <3>2. m = Row(g, u, t, p)
        BY <2>1, <3>1 DEF Row, MemberRows
      <3> QED BY <3>2, SoundIsSoundRows, AddMemberTagIs DEF TaggedOnce
    <2>2. CASE ~(m.group = g /\ m.user = u /\ m.tag = t)
      BY <2>2, SoundIsSoundRows, AddMemberTagIs DEF TaggedOnce
    <2> QED BY <2>1, <2>2
  <1> QED BY <1>1, <1>2 DEF AllCustomTags

(* clear_pending changes no custom row: none is pending.                   *)
LEMMA ClearPendingKeeps ==
  ASSUME NEW db, Sound(db), NEW g, NEW u
  PROVE  ClearPending(db, g, u).users = db.users /\ AllCustomTags(db, ClearPending(db, g, u))
  <1>1. ASSUME NEW m \in db.members, m.tag \in CustomTags PROVE Cleared(m, g, u) = m
    <2>1. m \in MemberRows /\ (m.pending => m.tag = Client) /\ m.tag # Client
      BY <1>1, TagAssumption DEF Sound, Databases, OnlyClientsPending
    <2> QED BY <2>1 DEF Cleared, MemberRows
  <1> QED BY <1>1, SoundIsSoundRows DEF ClearPending, AllCustomTags

(* remove_member takes the whole membership, and the user row only of those *)
(* whose role is NULL.                                                     *)
LEMMA RemoveMembersKeeps ==
  ASSUME NEW db, Sound(db), NEW g, NEW us, NEW roles
  PROVE  /\ CustomTagsOrNothing(db, RemoveMembers(db, g, us, roles))
         /\ \A u \in Users : roles[u] # NoRole =>
                RemoveMembers(db, g, us, roles).users[u] = db.users[u]
  <1>1. RemoveMembers(db, g, us, roles).members = {m \in db.members : ~(m.group = g /\ m.user \in us)}
    BY SoundIsSoundRows DEF RemoveMembers
  <1>2. CustomTagsOrNothing(db, RemoveMembers(db, g, us, roles))
    BY <1>1 DEF CustomTagsOrNothing, RowsOf
  <1>3. \A u \in Users : roles[u] # NoRole => RemoveMembers(db, g, us, roles).users[u] = db.users[u]
    BY SoundIsSoundRows DEF RemoveMembers
  <1> QED BY <1>2, <1>3

(* delete_user takes every row of one user and none of the others.         *)
LEMMA DeleteUserKeeps ==
  ASSUME NEW db, Sound(db), NEW u \in Users
  PROVE  /\ CustomTagsOrNothing(db, DeleteUser(db, u))
         /\ \A v \in Users \ {u} : DeleteUser(db, u).users[v] = db.users[v]
  BY SoundIsSoundRows DEF DeleteUser, CustomTagsOrNothing, RowsOf

(* create_group_record changes the groups only.                            *)
LEMMA CreateGroupRecordKeeps ==
  ASSUME NEW db, Sound(db), NEW g
  PROVE  /\ CreateGroupRecord(db, g).users = db.users
         /\ CreateGroupRecord(db, g).members = db.members
  BY SoundIsSoundRows DEF CreateGroupRecord

(* delete_group takes whole memberships and no user row.                   *)
LEMMA DeleteGroupKeeps ==
  ASSUME NEW db, Sound(db), NEW g
  PROVE  DeleteGroup(db, g).users = db.users /\ CustomTagsOrNothing(db, DeleteGroup(db, g))
  BY SoundIsSoundRows DEF DeleteGroup, CustomTagsOrNothing, RowsOf

-----------------------------------------------------------------------------
(* Column by column, what each operation returns.                          *)

(* A database is its columns.                                              *)
LEMMA Columns ==
  ASSUME NEW db, Sound(db), NEW users, NEW groups, NEW rows
  PROVE  /\ [db EXCEPT !.users = users].users = users
         /\ [db EXCEPT !.users = users].groups = db.groups
         /\ [db EXCEPT !.users = users].members = db.members
         /\ [db EXCEPT !.groups = groups].users = db.users
         /\ [db EXCEPT !.groups = groups].groups = groups
         /\ [db EXCEPT !.groups = groups].members = db.members
         /\ [db EXCEPT !.members = rows].users = db.users
         /\ [db EXCEPT !.members = rows].groups = db.groups
         /\ [db EXCEPT !.members = rows].members = rows
  BY SoundIsSoundRows

(* get_or_create_user                                                      *)
LEMMA GetOrCreateUsersColumns ==
  ASSUME NEW db, Sound(db), NEW us
  PROVE  LET new == GetOrCreateUsers(db, us) IN
         /\ new.users = [u \in Users |->
                IF u \in us /\ db.users[u] = NoUser THEN NoRole ELSE db.users[u]]
         /\ new.groups = db.groups
         /\ new.members = db.members
  BY Columns DEF GetOrCreateUsers

(* set_user_role                                                           *)
LEMMA SetUserRoleColumns ==
  ASSUME NEW db, Sound(db), NEW u \in Users, NEW role
  PROVE  LET new == SetUserRole(db, u, role) IN
         /\ \A v \in Users : new.users[v] =
                IF v = u /\ db.users[u] # NoUser THEN role ELSE db.users[v]
         /\ new.groups = db.groups
         /\ new.members = db.members
  BY SoundIsSoundRows DEF SetUserRole

(* Where a user had rows with tags of roles there is one of the new role,  *)
(* and one of the new role only where he had such rows.                    *)
RoleShown(old, new, u, role) ==
    /\ \A m \in old : m.user = u /\ m.tag \in Roles =>
           \E n \in new : n.group = m.group /\ n.user = u /\ n.tag = role
    /\ \A m \in new : m.user = u /\ m.tag \in Roles =>
           \E n \in old : n.group = m.group /\ n.user = u /\ n.tag \in Roles

(* sync_role_to_group_tags: the rows that go or come are the user's, with  *)
(* the tags of roles, and each group where he has such rows has one after  *)
(* it, of the new role.                                                    *)
LEMMA SyncRoleToGroupTagsColumns ==
  ASSUME NEW base, NEW db, Sound(db), NEW u \in Users, NEW role \in Roles
  PROVE  LET new == SyncRoleToGroupTags(base, db, u, role) IN
         /\ new.users = db.users
         /\ new.groups = db.groups
         /\ \A m \in db.members : m.user # u \/ m.tag \notin Roles => m \in new.members
         /\ \A m \in db.members : \E n \in new.members : n.group = m.group /\ n.user = m.user
         /\ \A m \in new.members : m.user # u \/ m.tag \notin Roles => m \in db.members
         /\ \A m \in new.members : m.user = u /\ m.tag \in Roles =>
                m.tag = role /\ (m \in db.members \/ ~m.pending)
         /\ \A m \in new.members : \E n \in db.members : n.group = m.group /\ n.user = m.user
         /\ RoleShown(db.members, new.members, u, role)
  <1> DEFINE staffRows == {m \in db.members : m.user = u /\ m.tag \in Roles}
             matching == {m \in staffRows : m.tag = role}
             bare == {m.group : m \in staffRows} \ {m.group : m \in matching}
             added == {Row(g, u, role, FALSE) : g \in bare}
             rows == (db.members \ staffRows) \cup matching \cup added
             new == SyncRoleToGroupTags(base, db, u, role)
  <1>1. new.users = db.users /\ new.groups = db.groups /\ new.members = rows
    <2>1. new = SyncedRole(db, u, role)
      BY SyncRoleNeverRefused
    <2>2. SyncedRole(db, u, role) = [db EXCEPT !.members = rows]
      BY DEF SyncedRole
    <2> HIDE DEF rows, new
    <2> QED BY <2>1, <2>2, Columns
  <1>2. \A m \in added : /\ m.user = u /\ m.tag = role /\ ~m.pending
                         /\ \E n \in staffRows : n.group = m.group
    <2>1. SUFFICES ASSUME NEW g \in bare
                   PROVE  LET m == Row(g, u, role, FALSE)
                          IN  /\ m.user = u /\ m.tag = role /\ ~m.pending
                              /\ \E n \in staffRows : n.group = m.group
      BY Zenon
    <2>2. \E n \in staffRows : n.group = g
      OBVIOUS
    <2> HIDE DEF bare, staffRows
    <2> QED BY <2>2 DEF Row
  <1>3. \A m \in staffRows : \E n \in matching \cup added :
            n.group = m.group /\ n.user = u /\ n.tag = role
    <2>1. SUFFICES ASSUME NEW m \in staffRows
                   PROVE  \E n \in matching \cup added :
                              n.group = m.group /\ n.user = u /\ n.tag = role
      OBVIOUS
    <2>2. CASE m.group \in bare
      <3>1. Row(m.group, u, role, FALSE) \in added
        BY <2>2
      <3>2. /\ Row(m.group, u, role, FALSE).group = m.group /\ Row(m.group, u, role, FALSE).user = u
            /\ Row(m.group, u, role, FALSE).tag = role
        BY DEF Row
      <3> HIDE DEF added
      <3> QED BY <3>1, <3>2
    <2>3. CASE m.group \notin bare
      <3>1. PICK n \in matching : n.group = m.group
        BY <2>3
      <3> QED BY <3>1
    <2> QED BY <2>2, <2>3
  <1> HIDE DEF added
  <1>4. /\ \A m \in db.members : m.user # u \/ m.tag \notin Roles => m \in rows
        /\ \A m \in db.members : \E n \in rows : n.group = m.group /\ n.user = m.user
        /\ \A m \in rows : m.user # u \/ m.tag \notin Roles => m \in db.members
        /\ \A m \in rows : m.user = u /\ m.tag \in Roles =>
               m.tag = role /\ (m \in db.members \/ ~m.pending)
        /\ \A m \in rows : \E n \in db.members : n.group = m.group /\ n.user = m.user
        /\ RoleShown(db.members, rows, u, role)
    BY <1>2, <1>3 DEF RoleShown
  <1> HIDE DEF rows, new
  <1>5. /\ \A m \in db.members : m.user # u \/ m.tag \notin Roles => m \in new.members
        /\ \A m \in db.members : \E n \in new.members : n.group = m.group /\ n.user = m.user
        /\ \A m \in new.members : m.user # u \/ m.tag \notin Roles => m \in db.members
        /\ \A m \in new.members : m.user = u /\ m.tag \in Roles =>
               m.tag = role /\ (m \in db.members \/ ~m.pending)
        /\ \A m \in new.members : \E n \in db.members : n.group = m.group /\ n.user = m.user
        /\ RoleShown(db.members, new.members, u, role)
    BY <1>1, <1>4
  <1> QED BY <1>1, <1>5 DEF new

(* The rows that add_member_tag inserts.                                   *)
LEMMA NewRowsAre ==
  ASSUME NEW g, NEW us, NEW tag
  PROVE  /\ \A m \in NewRows(g, us, tag) :
                m.group = g /\ m.user \in us /\ m.tag = tag[m.user] /\ ~m.pending
         /\ \A u \in us : \E m \in NewRows(g, us, tag) : m.user = u
  <1>1. ASSUME NEW u \in us
        PROVE  LET m == Row(g, u, tag[u], FALSE)
               IN  /\ m \in NewRows(g, us, tag)
                   /\ m.group = g /\ m.user = u /\ m.tag = tag[m.user] /\ ~m.pending
    BY DEF NewRows, Row
  <1>2. ASSUME NEW m \in NewRows(g, us, tag)
        PROVE  m.group = g /\ m.user \in us /\ m.tag = tag[m.user] /\ ~m.pending
    <2>1. PICK u \in us : m = Row(g, u, tag[u], FALSE)
      BY DEF NewRows
    <2> QED BY <2>1 DEF Row
  <1>3. ASSUME NEW u \in us PROVE \E m \in NewRows(g, us, tag) : m.user = u
    <2>1. Row(g, u, tag[u], FALSE) \in NewRows(g, us, tag)
      BY <1>1
    <2> QED BY <1>1, <2>1
  <1> QED BY <1>2, <1>3

(* set_member_tag                                                          *)
LEMMA SetMemberTagsColumns ==
  ASSUME NEW db, Sound(db), NEW g, NEW us, NEW tag
  PROVE  LET new == SetMemberTags(db, g, us, tag) IN
         /\ new.users = db.users
         /\ new.groups = db.groups
         /\ new.members = {m \in db.members : ~(m.group = g /\ m.user \in us /\ m.tag \in OfficialTags)}
                              \cup NewRows(g, us, tag)
  BY Columns DEF SetMemberTags

(* add_member_tag, of a transaction that has touched user rows only.       *)
LEMMA AddMemberTagColumns ==
  ASSUME NEW base, NEW db, Sound(base), Sound(db),
         base.groups = db.groups, base.members = db.members, NEW g, NEW u, NEW t, NEW p
  PROVE  LET new == AddMemberTag(base, db, g, u, t, p) IN
         /\ new.users = IF t \in TagsOf(db, g, u) THEN base.users ELSE db.users
         /\ new.groups = db.groups
         /\ new.members = {m \in db.members : ~(m.group = g /\ m.user = u /\ m.tag = t)}
                              \cup {Row(g, u, t, p)}
  <1> SUFFICES LET new == TaggedOnce(base, db, g, u, t, p) IN
                  /\ new.users = IF t \in TagsOf(db, g, u) THEN base.users ELSE db.users
                  /\ new.groups = db.groups
                  /\ new.members = {m \in db.members : ~(m.group = g /\ m.user = u /\ m.tag = t)}
                                       \cup {Row(g, u, t, p)}
    BY AddMemberTagIs
  <1>1. CASE t \notin TagsOf(db, g, u)
    <2>1. \A m \in db.members : ~(m.group = g /\ m.user = u /\ m.tag = t)
      BY <1>1 DEF TagsOf, RowsOf
    <2>2. db.members = {m \in db.members : ~(m.group = g /\ m.user = u /\ m.tag = t)}
      BY <2>1
    <2> QED BY <1>1, <2>2, Columns DEF TaggedOnce
  <1>2. CASE t \in TagsOf(db, g, u)
    BY <1>2, Columns DEF TaggedOnce
  <1> QED BY <1>1, <1>2

(* add_member_tag as the only write of its transaction.                    *)
LEMMA LoneTagColumns ==
  ASSUME NEW db, Sound(db), NEW g, NEW u, NEW t, NEW p
  PROVE  LET new == AddMemberTag(db, db, g, u, t, p) IN
         /\ new.users = db.users
         /\ new.groups = db.groups
         /\ new.members = {m \in db.members : ~(m.group = g /\ m.user = u /\ m.tag = t)}
                              \cup {Row(g, u, t, p)}
  <1> SUFFICES LET new == TaggedOnce(db, db, g, u, t, p) IN
                  /\ new.users = db.users
                  /\ new.groups = db.groups
                  /\ new.members = {m \in db.members : ~(m.group = g /\ m.user = u /\ m.tag = t)}
                                       \cup {Row(g, u, t, p)}
    BY AddMemberTagIs
  <1>1. CASE t \notin TagsOf(db, g, u)
    <2>1. \A m \in db.members : ~(m.group = g /\ m.user = u /\ m.tag = t)
      BY <1>1 DEF TagsOf, RowsOf
    <2>2. db.members = {m \in db.members : ~(m.group = g /\ m.user = u /\ m.tag = t)}
      BY <2>1
    <2> QED BY <1>1, <2>2, Columns DEF TaggedOnce
  <1>2. CASE t \in TagsOf(db, g, u)
    BY <1>2, Columns DEF TaggedOnce
  <1> QED BY <1>1, <1>2

(* clear_pending                                                           *)
LEMMA ClearPendingColumns ==
  ASSUME NEW db, Sound(db), NEW g, NEW u
  PROVE  LET new == ClearPending(db, g, u) IN
         /\ new.users = db.users
         /\ new.groups = db.groups
         /\ new.members = {Cleared(m, g, u) : m \in db.members}
  BY Columns DEF ClearPending

(* remove_member                                                           *)
LEMMA RemoveMembersColumns ==
  ASSUME NEW db, Sound(db), NEW g, NEW us, NEW roles
  PROVE  LET new == RemoveMembers(db, g, us, roles) IN
         /\ \A u \in Users : new.users[u] # db.users[u] =>
                /\ u \in us /\ roles[u] = NoRole /\ new.users[u] = NoUser
                /\ RowsOf(db, g, u) # {}
                /\ \A m \in new.members : m.user # u
         /\ new.groups = db.groups
         /\ new.members = {m \in db.members : ~(m.group = g /\ m.user \in us)}
  <1> DEFINE left == {m \in db.members : ~(m.group = g /\ m.user \in us)}
             gone == {u \in us : /\ RowsOf(db, g, u) # {}
                                 /\ roles[u] = NoRole
                                 /\ \A m \in left : m.user # u}
             users == [u \in Users |-> IF u \in gone THEN NoUser ELSE db.users[u]]
             new == RemoveMembers(db, g, us, roles)
  <1>1. new.users = users /\ new.groups = db.groups /\ new.members = left
    <2>1. db = [users |-> db.users, groups |-> db.groups, members |-> db.members]
      BY SoundIsSoundRows
    <2>2. new = [db EXCEPT !.members = left, !.users = users]
      BY DEF RemoveMembers
    <2> HIDE DEF left, gone, users, new
    <2> QED BY <2>1, <2>2
  <1>2. \A u \in Users : users[u] # db.users[u] => u \in gone /\ users[u] = NoUser
    OBVIOUS
  <1> HIDE DEF users, new
  <1> QED BY <1>1, <1>2 DEF new

(* delete_user                                                             *)
LEMMA DeleteUserColumns ==
  ASSUME NEW db, Sound(db), NEW u \in Users
  PROVE  LET new == DeleteUser(db, u) IN
         /\ \A v \in Users : new.users[v] = IF v = u THEN NoUser ELSE db.users[v]
         /\ new.groups = db.groups
         /\ new.members = {m \in db.members : m.user # u}
  BY SoundIsSoundRows DEF DeleteUser

(* create_group_record                                                     *)
LEMMA CreateGroupRecordColumns ==
  ASSUME NEW db, Sound(db), NEW g
  PROVE  LET new == CreateGroupRecord(db, g) IN
         /\ new.users = db.users
         /\ new.groups = db.groups \cup {g}
         /\ new.members = db.members
  BY Columns DEF CreateGroupRecord

(* delete_group                                                            *)
LEMMA DeleteGroupColumns ==
  ASSUME NEW db, Sound(db), NEW g
  PROVE  LET new == DeleteGroup(db, g) IN
         /\ new.users = db.users
         /\ new.groups = db.groups \ {g}
         /\ new.members = IF g \in db.groups THEN {m \in db.members : m.group # g} ELSE db.members
  BY SoundIsSoundRows DEF DeleteGroup
=============================================================================
