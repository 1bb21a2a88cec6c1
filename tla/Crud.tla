------------------------------- MODULE Crud -------------------------------
(***************************************************************************)
(* The database operations on people, groups and tags                      *)
(* (app/db/crud.py over app/db/models.py) as functions from a database to  *)
(* a database.  A database is a record: the role of every user with a row, *)
(* the registered groups, and the rows of group_members.  Foreign keys are *)
(* declared in the models but SQLite, the default, does not enforce them,  *)
(* so nothing here relies on them.  Names and titles are left out.         *)
(***************************************************************************)

CONSTANTS
    Users,      \* Telegram user ids
    Groups,     \* Telegram chat ids
    Roles,      \* models.Role
    Client,     \* models.CLIENT_TAG
    CustomTags, \* any other tag
    NoRole,     \* users.role IS NULL
    NoUser      \* there is no row in users

ASSUME TagAssumption ==
    /\ Client \notin Roles
    /\ CustomTags \cap (Roles \cup {Client}) = {}

ASSUME RoleAssumption ==
    /\ NoRole \notin Roles
    /\ NoUser \notin Roles
    /\ NoRole # NoUser

\* The "official" slot of crud.set_member_tag.
OfficialTags == Roles \cup {Client}
Tags == OfficialTags \cup CustomTags

UserStates == Roles \cup {NoRole, NoUser}
MemberRows == [group: Groups, user: Users, tag: Tags, pending: BOOLEAN]
Databases == [users: [Users -> UserStates], groups: SUBSET Groups,
              members: SUBSET MemberRows]

Row(g, u, t, p) == [group |-> g, user |-> u, tag |-> t, pending |-> p]

\* The rows add_member_tag inserts for each of a set of users, none pending.
NewRows(g, us, tag) == {Row(g, u, tag[u], FALSE) : u \in us}

-----------------------------------------------------------------------------
(* Queries.                                                                 *)

RowsOf(db, g, u) == {m \in db.members : m.group = g /\ m.user = u}
MembersOf(db, g) == {m.user : m \in {x \in db.members : x.group = g}}
TagsOf(db, g, u) == {m.tag : m \in RowsOf(db, g, u)}

\* get_groups_for_user: a join, so unregistered groups do not show.
GroupsOf(db, u) == {g \in db.groups : RowsOf(db, g, u) # {}}

\* user_is_group_member: scalar_one_or_none raises MultipleResultsFound when the
\* user holds several tags, so the check passes exactly with one row.
MemberCheckPasses(db, g, u) == \E m \in db.members : RowsOf(db, g, u) = {m}
MemberCheckRaises(db, g, u) == \E m, n \in RowsOf(db, g, u) : m # n

-----------------------------------------------------------------------------
(* Writes.                                                                  *)

\* The unique constraint over (group, user, tag): an INSERT that meets such a row
\* is refused.  A flush sends its INSERTs before its DELETEs, so the rows it is
\* about to delete count.
Refuses(db, rows) == \E r \in rows : r.tag \in TagsOf(db, r.group, r.user)

\* get_or_create_user, for each of a set of users.
GetOrCreateUsers(db, us) ==
    [db EXCEPT !.users = [u \in Users |->
        IF u \in us /\ db.users[u] = NoUser THEN NoRole ELSE db.users[u]]]

\* set_user_role
SetUserRole(db, u, role) ==
    [db EXCEPT !.users[u] = IF @ = NoUser THEN NoUser ELSE role]

\* mutant: the user's rows are rewritten in place, a client's too; two of one group
\* would become the same, which the constraint refuses
SyncRoleToGroupTags_InPlace(base, db, u, role) ==
    LET own == {m \in db.members : m.user = u}
    IN  IF \E m, n \in own : m # n /\ m.group = n.group THEN base
        ELSE [db EXCEPT !.members = (@ \ own) \cup {[m EXCEPT !.tag = role] : m \in own}]

\* mutant: the old staff rows stay beside the new one
SyncRoleToGroupTags_KeepsOthers(base, db, u, role) ==
    LET staffRows == {m \in db.members : m.user = u /\ m.tag \in Roles}
        bare == {m.group : m \in staffRows} \ {m.group : m \in {x \in staffRows : x.tag = role}}
    IN  [db EXCEPT !.members = @ \cup {Row(g, u, role, FALSE) : g \in bare}]

\* sync_role_to_group_tags: in each group where the user has staff rows, the row
\* of the new role is kept or added and the others go.  Were an INSERT refused,
\* the whole request would fail and leave the database it began with, base.
SyncRoleToGroupTags(base, db, u, role) ==
    LET staffRows == {m \in db.members : m.user = u /\ m.tag \in Roles}
        matching == {m \in staffRows : m.tag = role}
        bare == {m.group : m \in staffRows} \ {m.group : m \in matching}
        added == {Row(g, u, role, FALSE) : g \in bare}
    IN  IF Refuses(db, added) THEN base
        ELSE [db EXCEPT !.members = (@ \ staffRows) \cup matching \cup added]

\* mutant: the whole membership is replaced, custom tags included
SetMemberTags_All(db, g, us, tag) ==
    [db EXCEPT !.members =
        {m \in @ : ~(m.group = g /\ m.user \in us)} \cup NewRows(g, us, tag)]

\* mutant: the new official tag is added beside the old ones
SetMemberTags_KeepsOthers(db, g, us, tag) ==
    [db EXCEPT !.members =
        {m \in @ : ~(m.group = g /\ m.user \in us /\ m.tag = tag[m.user])}
            \cup NewRows(g, us, tag)]

\* set_member_tag, for each of a set of users: the official rows are replaced by
\* the one of the given tag, not pending; custom tags stay.
SetMemberTags(db, g, us, tag) ==
    [db EXCEPT !.members =
        {m \in @ : ~(m.group = g /\ m.user \in us /\ m.tag \in OfficialTags)}
            \cup NewRows(g, us, tag)]

\* add_member_tag.  When the INSERT is refused, the WHOLE transaction is rolled
\* back to the database it began with, base, and only pending is updated.
AddMemberTag(base, db, g, u, t, p) ==
    LET new == Row(g, u, t, p)
    IN  IF Refuses(db, {new})
        THEN [base EXCEPT !.members =
                {m \in @ : ~(m.group = g /\ m.user = u /\ m.tag = t)} \cup {new}]
        ELSE [db EXCEPT !.members = @ \cup {new}]

Cleared(m, g, u) == IF m.group = g /\ m.user = u THEN [m EXCEPT !.pending = FALSE] ELSE m

\* clear_pending
ClearPending(db, g, u) == [db EXCEPT !.members = {Cleared(m, g, u) : m \in @}]

\* mutant: staff lose their user row too
RemoveMembers_StaffToo(db, g, us, roles) ==
    LET left == {m \in db.members : ~(m.group = g /\ m.user \in us)}
        gone == {u \in us : RowsOf(db, g, u) # {} /\ \A m \in left : m.user # u}
    IN  [db EXCEPT !.members = left,
                   !.users = [u \in Users |-> IF u \in gone THEN NoUser ELSE db.users[u]]]

\* mutant: the other memberships of the user are not looked at
RemoveMembers_ForgetsOthers(db, g, us, roles) ==
    LET left == {m \in db.members : ~(m.group = g /\ m.user \in us)}
        gone == {u \in us : RowsOf(db, g, u) # {} /\ roles[u] = NoRole}
    IN  [db EXCEPT !.members = left,
                   !.users = [u \in Users |-> IF u \in gone THEN NoUser ELSE db.users[u]]]

\* remove_member, for each of a set of users.  The user row goes too when no
\* membership is left and the role, as this session knows it, is NULL.
RemoveMembers(db, g, us, roles) ==
    LET left == {m \in db.members : ~(m.group = g /\ m.user \in us)}
        gone == {u \in us : /\ RowsOf(db, g, u) # {}
                            /\ roles[u] = NoRole
                            /\ \A m \in left : m.user # u}
    IN  [db EXCEPT !.members = left,
                   !.users = [u \in Users |-> IF u \in gone THEN NoUser ELSE db.users[u]]]

\* delete_user.  The deletion of the rows is committed whether or not there is a
\* user row.
DeleteUser(db, u) ==
    [db EXCEPT !.users[u] = NoUser, !.members = {m \in @ : m.user # u}]

\* create_group_record, always the first write of its transaction: an existing
\* record is kept.
CreateGroupRecord(db, g) == [db EXCEPT !.groups = @ \cup {g}]

\* mutant: the record outlives its rows
DeleteGroup_RowsOnly(db, g) == [db EXCEPT !.members = {m \in @ : m.group # g}]

\* delete_group: the ORM cascade takes the group's rows along, if there is a
\* group row to cascade from.
DeleteGroup(db, g) ==
    IF g \in db.groups
    THEN [db EXCEPT !.groups = @ \ {g}, !.members = {m \in @ : m.group # g}]
    ELSE db

-----------------------------------------------------------------------------
(* What a database should satisfy.                                          *)

\* What the unique constraint enforces: a row is known by its group, user and tag.
UniqueTags(db) ==
    \A m, n \in db.members :
        m.group = n.group /\ m.user = n.user /\ m.tag = n.tag => m = n

\* Only a client's row is ever pending; so there is at most one per member and
\* crud.clear_pending (scalar_one_or_none) never meets two.
OnlyClientsPending(db) == \A m \in db.members : m.pending => m.tag = Client

\* Every row of group_members has its user and its group.
NoOrphans(db) ==
    \A m \in db.members : db.users[m.user] # NoUser /\ m.group \in db.groups
=============================================================================
