---------------------------- MODULE SerialProofs ----------------------------
(***************************************************************************)
(* Theorems about the operations of Membership one after another: what     *)
(* each promises when no other is in flight, for every set of users,       *)
(* groups, roles and tags, every beginning and every number of operations. *)
(***************************************************************************)
EXTENDS MembershipProofs

(* The instances these theorems are about: an operation begins when nothing *)
(* else is under way, no request and no update.                            *)
Sequential == ~Concurrent

-----------------------------------------------------------------------------
(* The inductive invariant.                                                *)

(* There is one request at a time.                                         *)
Alone == \A s, t \in Slots : tasks[s] # Idle /\ tasks[t] # Idle => s = t

(* Every update on its way is the doing of the request in flight, and what *)
(* the request remembers is still so.                                      *)
Coherent(s) ==
    LET t == tasks[s] IN
    /\ t.at = "creating" => t.roles = db.users /\ t.actor \in creators /\ updates = {}
    /\ t.at = "created" =>
        /\ t.roles = db.users /\ t.actor \in creators
        /\ bot[t.group] = "live" /\ t.group \notin db.groups
        /\ \A up \in updates : up.kind = "botAdded" /\ up.user = t.actor
    /\ t.at = "inviting" => t.group \in db.groups /\ updates = {}
    /\ t.at = "invited" =>
        /\ t.group \in db.groups
        /\ \A up \in updates : up.kind = "joined"
        /\ t.link => t.user \notin chat[t.group]
    /\ t.at \in {"banning", "removing", "deleting"} => updates = {}
    /\ t.at \in {"scanning", "scanned", "read"} => updates = {} /\ bot[t.group] = "live"
    /\ t.at \in {"scanned", "read"} => t.present = chat[t.group]
    /\ t.at = "read" =>
        /\ t.group \in db.groups
        /\ t.current = MembersOf(db, t.group)
        /\ t.roles = db.users

(* Updates of the bot itself tell what is still so.                        *)
UpdatesFit ==
    \A up \in updates :
        /\ up.kind = "botAdded" => bot[up.group] = "live"
        /\ up.kind = "botRemoved" => bot[up.group] = "gone"

(* A group on record without the bot is about to go.                       *)
RecordsFollowBot ==
    \A g \in db.groups :
        bot[g] = "live" \/ \E up \in updates : up.kind = "botRemoved" /\ up.group = g

RowsInGroups == \A m \in db.members : m.group \in db.groups

SerialInv ==
    /\ Inv
    /\ Alone
    /\ \A s \in Slots : Coherent(s)
    /\ UpdatesFit
    /\ RecordsFollowBot
    /\ RowsInGroups

-----------------------------------------------------------------------------
(* What every step shares.                                                 *)

(* An operation that begins is alone.                                      *)
LEMMA BeginsAlone ==
    ASSUME Sequential, MayBegin
    PROVE  NoneInFlight /\ updates = {}
  BY DEF Sequential, MayBegin

(* The others are idle before and after a step of one request.             *)
LEMMA Solo ==
    ASSUME Inv, Alone, NEW s \in Slots, NEW t, Goes(s, t), NoneInFlight \/ tasks[s] # Idle
    PROVE  /\ tasks'[s] = t
           /\ \A r \in Slots : r # s => tasks[r] = Idle /\ tasks'[r] = Idle
           /\ Alone'
  <1>1. tasks \in [Slots -> Tasks]
    BY DEF Inv, RestOK
  <1>2. tasks'[s] = t /\ \A r \in Slots : r # s => tasks[r] = Idle /\ tasks'[r] = Idle
    BY <1>1 DEF Goes, Alone, NoneInFlight
  <1> QED BY <1>2 DEF Alone

(* Nobody is idle in the middle of something.                              *)
LEMMA IdleIsNowhere == Idle.at = "idle"
  BY DEF Idle

(* So it is enough to look at that request.                                *)
LEMMA CoherentStep ==
    ASSUME Inv, Alone, NEW s \in Slots, NEW t, Goes(s, t), NoneInFlight \/ tasks[s] # Idle,
           Coherent(s)'
    PROVE  \A r \in Slots : Coherent(r)'
  <1>1. \A r \in Slots : r # s => tasks'[r] = Idle
    BY Solo
  <1>2. ASSUME NEW r \in Slots, r # s PROVE Coherent(r)'
    BY <1>1, <1>2, IdleIsNowhere DEF Coherent
  <1> QED BY <1>2

(* The rest of the invariant, from a step that leaves the bot alone.       *)
Fits == UpdatesFit /\ RecordsFollowBot /\ RowsInGroups

LEMMA FitsStays ==
    ASSUME Fits, UNCHANGED <<db, bot, updates>>
    PROVE  Fits'
  BY DEF Fits, UpdatesFit, RecordsFollowBot, RowsInGroups

-----------------------------------------------------------------------------
(* A request begins.                                                       *)
LEMMA BeginStep ==
    ASSUME Sequential, SerialInv, NEW s \in Slots, Begin(s)
    PROVE  Alone' /\ (\A r \in Slots : Coherent(r)') /\ Fits'
  <1>0. Inv /\ Alone /\ Fits
    BY DEF SerialInv, Fits
  <1>1. UNCHANGED <<db, chat, bot, updates>> /\ MayBegin
    BY DEF Begin, StartCreateGroup, StartAddClient, StartOffboard, StartSync, StartRemove,
           StartRemoveGroup
  <1>2. NoneInFlight /\ updates = {} /\ updates' = {}
    BY <1>1, BeginsAlone
  <1>3. \A g \in Groups, a \in Users : MemberCheckPasses(db, g, a) => g \in db.groups
    BY <1>0 DEF MemberCheckPasses, RowsOf, Fits, RowsInGroups
  <1>4. ASSUME NEW t, Goes(s, t) PROVE tasks'[s] = t
    BY <1>0, <1>2, <1>4, Solo
  <1>5. \E t : Goes(s, t) /\ Coherent(s)'
    <2>1. ASSUME NEW u \in Users, StartCreateGroup(s, u) PROVE \E t : Goes(s, t) /\ Coherent(s)'
      BY <1>1, <1>2, <1>4, <2>1 DEF StartCreateGroup, Coherent
    <2>2. ASSUME NEW a \in Users, NEW u \in Users, NEW g \in Groups, StartAddClient(s, a, g, u)
          PROVE  \E t : Goes(s, t) /\ Coherent(s)'
      BY <1>1, <1>2, <1>3, <1>4, <2>2 DEF StartAddClient, Coherent
    <2>3. ASSUME NEW u \in Users, StartOffboard(s, u) PROVE \E t : Goes(s, t) /\ Coherent(s)'
      BY <1>1, <1>2, <1>4, <2>3 DEF StartOffboard, Coherent
    <2>4. ASSUME NEW a \in Users, NEW g \in Groups, StartSync(s, a, g)
          PROVE  \E t : Goes(s, t) /\ Coherent(s)'
      BY <1>1, <1>2, <1>4, <2>4 DEF StartSync, Coherent
    <2>5. ASSUME NEW a \in Users, NEW u \in Users, NEW g \in Groups, StartRemove(s, a, g, u)
          PROVE  \E t : Goes(s, t) /\ Coherent(s)'
      BY <1>1, <1>2, <1>4, <2>5 DEF StartRemove, Coherent
    <2>6. ASSUME NEW a \in Users, NEW g \in Groups, StartRemoveGroup(s, a, g)
          PROVE  \E t : Goes(s, t) /\ Coherent(s)'
      BY <1>1, <1>2, <1>4, <2>6 DEF StartRemoveGroup, Coherent
    <2> QED BY <2>1, <2>2, <2>3, <2>4, <2>5, <2>6 DEF Begin
  <1> QED BY <1>0, <1>1, <1>2, <1>5, Solo, CoherentStep, FitsStays

-----------------------------------------------------------------------------
(* Telegram answers.                                                       *)
LEMMA TelegramSerial ==
    ASSUME SerialInv, NEW s \in Slots, TelegramStep(s)
    PROVE  Alone' /\ (\A r \in Slots : Coherent(r)') /\ Fits'
  <1>0. /\ Inv /\ Alone /\ Fits /\ Coherent(s)
        /\ tasks[s] \in Tasks
        /\ chat \in [Groups -> SUBSET Users]
        /\ bot \in [Groups -> {"unborn", "live", "gone"}]
        /\ db.groups \subseteq Groups
        /\ \A up \in updates : up.group \in Groups
    BY DEF SerialInv, Fits, Inv, RestOK, Sound, Databases, Updates
  <1>1. tasks[s] # Idle
    BY IdleIsNowhere
    DEF TelegramStep, CreateChat, CreateChatHalfway, ChatAppears, InviteDirectly, InviteByLink,
        BanEverywhere, BanInterrupted, Bans, Scan, Kick, DeleteChat, EndCreateGroup,
        TelegramFails, At
  <1>2. ASSUME NEW t, Goes(s, t) PROVE tasks'[s] = t
    BY <1>0, <1>1, <1>2, Solo
  <1>3. ASSUME Goes(s, Idle) PROVE Coherent(s)'
    BY <1>2, <1>3, IdleIsNowhere DEF Coherent
  <1>4. UNCHANGED db
    BY DEF TelegramStep, CreateChat, CreateChatHalfway, ChatAppears, InviteDirectly, InviteByLink,
        BanEverywhere, BanInterrupted, Bans, Scan, Kick, DeleteChat, EndCreateGroup,
        TelegramFails
  <1>g. \E t : Goes(s, t)
    BY DEF TelegramStep, CreateChat, CreateChatHalfway, InviteDirectly, InviteByLink,
        BanEverywhere, BanInterrupted, Scan, Kick, DeleteChat, EndCreateGroup, TelegramFails
  <1> DEFINE Fine == Coherent(s)' /\ Fits'
  <1>s. SUFFICES Fine
    BY <1>0, <1>1, <1>g, Solo, CoherentStep
  <1>5. ASSUME NEW g \in Groups, NEW us \in SUBSET Users, CreateChat(s, g, us) \/ CreateChatHalfway(s, g, us)
        PROVE  Fine
    <2>1. ChatAppears(s, g, us)
      BY <1>5 DEF CreateChat, CreateChatHalfway
    <2>2. /\ tasks[s].roles = db.users /\ tasks[s].actor \in creators
          /\ updates = {} /\ bot[g] = "unborn"
      BY <1>0, <2>1 DEF ChatAppears, At, Coherent
    <2>3. g \notin db.groups /\ \A h \in db.groups : bot'[h] = "live"
      BY <1>0, <2>1, <2>2 DEF Fits, RecordsFollowBot, ChatAppears
    <2>4. /\ bot'[g] = "live" /\ updates' = {Update("botAdded", g, tasks[s].actor)}
      BY <1>0, <2>1, <2>2 DEF ChatAppears
    <2>5. Fits'
      BY <1>0, <1>4, <2>3, <2>4, UpdateIs DEF Fits, UpdatesFit, RecordsFollowBot, RowsInGroups
    <2>6. CASE CreateChat(s, g, us)
      BY <1>2, <1>4, <2>2, <2>3, <2>4, <2>5, <2>6, UpdateIs DEF CreateChat, Coherent
    <2>7. CASE CreateChatHalfway(s, g, us)
      BY <1>3, <2>5, <2>7 DEF CreateChatHalfway
    <2> QED BY <1>5, <2>6, <2>7
  <1>6. CASE InviteDirectly(s)
    <2>1. tasks[s].group \in db.groups /\ updates = {}
      BY <1>0, <1>6 DEF InviteDirectly, At, Coherent
    <2>2. \A up \in updates' : up.kind = "joined"
      BY <1>6, <2>1, UpdateIs DEF InviteDirectly
    <2>3. Fits'
      BY <1>0, <1>4, <1>6, <2>1, <2>2 DEF InviteDirectly, Fits, UpdatesFit, RecordsFollowBot, RowsInGroups
    <2> QED BY <1>2, <1>4, <1>6, <2>1, <2>2, <2>3 DEF InviteDirectly, Coherent
  <1>7. CASE InviteByLink(s)
    <2>1. tasks[s].group \in db.groups /\ updates = {}
      BY <1>0, <1>7 DEF InviteByLink, At, Coherent
    <2>2. Fits'
      BY <1>0, <1>7, FitsStays DEF InviteByLink
    <2> QED BY <1>2, <1>7, <2>1, <2>2 DEF InviteByLink, Coherent
  <1>8. ASSUME NEW gs \in SUBSET Groups, BanEverywhere(s, gs) \/ BanInterrupted(s, gs)
        PROVE  Fine
    <2>1. Bans(s, gs)
      BY <1>8 DEF BanEverywhere, BanInterrupted
    <2>2. updates = {}
      BY <1>0, <2>1 DEF Bans, At, Coherent
    <2>3. \A up \in updates' : up.kind = "left"
      BY <2>1, <2>2, UpdateIs DEF Bans
    <2>4. Fits'
      BY <1>0, <1>4, <2>1, <2>2, <2>3 DEF Bans, Fits, UpdatesFit, RecordsFollowBot, RowsInGroups
    <2>5. CASE BanEverywhere(s, gs)
      <3>1. [tasks[s] EXCEPT !.at = "banned"].at = "banned"
        BY <1>0, <2>1 DEF Bans, At, Tasks, Idle
      <3> QED BY <1>2, <2>4, <2>5, <3>1 DEF BanEverywhere, Coherent
    <2> QED BY <1>3, <1>8, <2>4, <2>5 DEF BanInterrupted
  <1>9. CASE Scan(s)
    <2>1. updates = {} /\ bot[tasks[s].group] = "live"
      BY <1>0, <1>9 DEF Scan, At, Coherent
    <2> QED BY <1>0, <1>2, <1>9, <2>1, FitsStays DEF Scan, Coherent
  <1>10. ASSUME NEW us \in SUBSET Users, Kick(s, us) PROVE Fine
    <2>1. updates = {}
      BY <1>0, <1>10 DEF Kick, At, Coherent
    <2>2. \A up \in updates' : up.kind = "left"
      BY <1>10, <2>1, UpdateIs DEF Kick, ChatLoses
    <2>3. Fits'
      BY <1>0, <1>4, <1>10, <2>1, <2>2 DEF Kick, Fits, UpdatesFit, RecordsFollowBot, RowsInGroups
    <2>4. [tasks[s] EXCEPT !.at = "removed"].at = "removed"
      BY <1>0, <1>10 DEF Kick, At, Tasks, Idle
    <2> QED BY <1>2, <1>10, <2>3, <2>4 DEF Kick, Coherent
  <1>11. CASE DeleteChat(s)
    <2>1. updates = {}
      BY <1>0, <1>11 DEF DeleteChat, At, Coherent
    <2>2. tasks[s].group \in Groups
      BY <1>0, <1>11, TaskFields DEF DeleteChat, At
    <2>3. Fits'
      <3>1. CASE UNCHANGED <<bot, updates>>
        BY <1>0, <1>4, <3>1, FitsStays
      <3>2. CASE /\ bot' = [bot EXCEPT ![tasks[s].group] = "gone"]
                 /\ updates' = updates \cup {Update("botRemoved", tasks[s].group, tasks[s].user)}
        BY <1>0, <1>4, <2>1, <2>2, <3>2, UpdateIs DEF Fits, UpdatesFit, RecordsFollowBot, RowsInGroups
      <3> QED BY <1>11, <3>1, <3>2 DEF DeleteChat
    <2>4. [tasks[s] EXCEPT !.at = "deleted"].at = "deleted"
      BY <1>0, <1>11 DEF DeleteChat, At, Tasks, Idle
    <2> QED BY <1>2, <1>11, <2>3, <2>4 DEF DeleteChat, Coherent
  <1>12. CASE EndCreateGroup(s) \/ TelegramFails(s)
    BY <1>0, <1>3, <1>12, FitsStays DEF EndCreateGroup, TelegramFails
  <1> QED
    BY <1>5, <1>6, <1>7, <1>8, <1>9, <1>10, <1>11, <1>12 DEF TelegramStep

-----------------------------------------------------------------------------
(* The database is written, or read.                                       *)
LEMMA DatabaseSerial ==
    ASSUME SerialInv, NEW s \in Slots, DatabaseStep(s)
    PROVE  Alone' /\ (\A r \in Slots : Coherent(r)') /\ Fits'
  <1>0. /\ Inv /\ Alone /\ Fits /\ Coherent(s) /\ Sound(db)
        /\ tasks[s] \in Tasks
        /\ bot \in [Groups -> {"unborn", "live", "gone"}]
    BY DEF SerialInv, Fits, Inv, RestOK
  <1>1. tasks[s] # Idle
    BY IdleIsNowhere
    DEF DatabaseStep, FinishCreateGroup, FinishAddClient, FinishOffboard, ReadMembers, WriteSync,
        TransactionFails, WriteSyncOfNewGroup, FinishRemove, FinishRemoveGroup, At
  <1>2. ASSUME NEW t, Goes(s, t) PROVE tasks'[s] = t
    BY <1>0, <1>1, <1>2, Solo
  <1>3. ASSUME Goes(s, Idle) PROVE Coherent(s)'
    BY <1>2, <1>3, IdleIsNowhere DEF Coherent
  <1>4. UNCHANGED <<chat, bot, updates>>
    BY DEF DatabaseStep, FinishCreateGroup, FinishAddClient, FinishOffboard, ReadMembers, WriteSync,
        TransactionFails, WriteSyncOfNewGroup, FinishRemove, FinishRemoveGroup
  <1>g. \E t : Goes(s, t)
    BY DEF DatabaseStep, FinishCreateGroup, FinishAddClient, FinishOffboard, ReadMembers, WriteSync,
        TransactionFails, WriteSyncOfNewGroup, FinishRemove, FinishRemoveGroup
  \* A write that puts no group on record, and rows into groups on record only.
  <1>5. ASSUME db'.groups \subseteq db.groups, \A m \in db'.members : m.group \in db'.groups
        PROVE  Fits'
    BY <1>0, <1>4, <1>5 DEF Fits, UpdatesFit, RecordsFollowBot, RowsInGroups
  <1> DEFINE Fine == Coherent(s)' /\ Fits'
  <1>s. SUFFICES Fine
    BY <1>0, <1>1, <1>g, Solo, CoherentStep
  <1>6. ASSUME NEW kept \in SUBSET Users, FinishCreateGroup(s, kept) PROVE Fine
    <2>1. bot[tasks[s].group] = "live"
      BY <1>0, <1>6 DEF FinishCreateGroup, At, Coherent
    <2>2. /\ db'.groups \subseteq db.groups \cup {tasks[s].group}
          /\ db.groups \subseteq db'.groups
          /\ db'.members # db.members =>
                tasks[s].group \in db'.groups \/ \E m \in db.members : m.group = tasks[s].group
          /\ \A m \in db'.members \ db.members : m.group = tasks[s].group
      BY <1>0, <1>6, TeamTaggedColumns DEF FinishCreateGroup
    <2>3. Fits'
      BY <1>0, <1>4, <2>1, <2>2 DEF Fits, UpdatesFit, RecordsFollowBot, RowsInGroups
    <2>4. CASE Goes(s, Idle)
      BY <1>3, <2>3, <2>4
    <2>5. CASE Goes(s, [at |-> "announcing", actor |-> tasks[s].actor])
      BY <1>2, <2>3, <2>5 DEF Coherent
    <2> QED BY <1>6, <2>4, <2>5 DEF FinishCreateGroup
  <1>7. CASE FinishAddClient(s)
    <2>1. tasks[s].group \in db.groups /\ tasks[s].user \in Users
      BY <1>0, <1>7, TaskFields DEF FinishAddClient, At, Coherent
    <2>2. /\ db'.groups = db.groups
          /\ \A m \in db'.members : m \in db.members \/ m = Row(tasks[s].group, tasks[s].user, Client, tasks[s].link)
      <3> DEFINE new == ClientAdded(db, tasks[s].group, tasks[s].user, tasks[s].link)
      <3>1. /\ new.groups = db.groups
            /\ new.members = {m \in db.members : ~(m.group = tasks[s].group /\ m.user = tasks[s].user /\ m.tag = Client)}
                                 \cup {Row(tasks[s].group, tasks[s].user, Client, tasks[s].link)}
        <4> DEFINE g == tasks[s].group
                   u == tasks[s].user
                   link == tasks[s].link
        <4>1. u \in Users /\ Sound(db)
          BY <1>0, <2>1
        <4> HIDE DEF g, u, link
        <4>2. LET now == ClientAdded(db, g, u, link) IN
              /\ now.groups = db.groups
              /\ now.members = {m \in db.members : ~(m.group = g /\ m.user = u /\ m.tag = Client)}
                                   \cup {Row(g, u, Client, link)}
          BY <4>1, ClientAddedColumns
        <4> QED BY <4>2 DEF g, u, link
      <3>2. db' = new
        BY <1>7 DEF FinishAddClient
      <3> HIDE DEF new
      <3> QED BY <3>1, <3>2
    <2>3. Fits'
      BY <1>0, <1>5, <2>1, <2>2 DEF Row, Fits, RowsInGroups
    <2> QED BY <1>3, <1>7, <2>3 DEF FinishAddClient
  <1>8. CASE FinishOffboard(s)
    <2>1. tasks[s].user \in Users
      BY <1>0, <1>8, TaskFields DEF FinishOffboard, At
    <2>2. db'.groups = db.groups /\ db'.members \subseteq db.members
      BY <1>0, <1>8, <2>1, DeleteUserColumns DEF FinishOffboard
    <2> QED BY <1>0, <1>3, <1>5, <1>8, <2>2 DEF FinishOffboard, Fits, RowsInGroups
  <1>9. CASE ReadMembers(s)
    <2>1. /\ updates = {} /\ bot[tasks[s].group] = "live"
          /\ tasks[s].present = chat[tasks[s].group]
      BY <1>0, <1>9 DEF ReadMembers, At, Coherent
    <2> QED BY <1>0, <1>2, <1>4, <1>9, <2>1, FitsStays DEF ReadMembers, Coherent, MembersOf
  <1>10. CASE WriteSync(s)
    <2> DEFINE g == tasks[s].group
               present == tasks[s].present
               current == tasks[s].current
               roles == tasks[s].roles
    <2>1. g \in db.groups /\ g \in Groups /\ present \in SUBSET Users
      BY <1>0, <1>10, TaskFields DEF WriteSync, At, Coherent
    <2>2. db' = Synced(db, g, present, current, roles) /\ Goes(s, Idle)
      BY <1>10 DEF WriteSync
    <2> HIDE DEF g, present, current, roles
    <2>3. db'.groups = db.groups /\ \A m \in db'.members : m \in db.members \/ m.group = g
      <3>1. Sound(db)
        BY <1>0
      <3> QED BY <2>1, <2>2, <3>1, SyncedPlaces
    <2> QED BY <1>0, <1>3, <1>5, <2>1, <2>2, <2>3 DEF Fits, RowsInGroups
  <1>11. CASE TransactionFails(s)
    BY <1>0, <1>3, <1>4, <1>11, FitsStays DEF TransactionFails
  <1>12. CASE WriteSyncOfNewGroup(s)
    <2> DEFINE g == tasks[s].group
               base == CreateGroupRecord(db, g)
    <2>1. g \in Groups /\ tasks[s].present \in SUBSET Users /\ bot[g] = "live"
      BY <1>0, <1>12, TaskFields DEF WriteSyncOfNewGroup, At, Coherent
    <2>2. Sound(base) /\ base.groups = db.groups \cup {g} /\ base.members = db.members
      BY <1>0, <2>1, CreateGroupRecordSound, CreateGroupRecordColumns
    <2>3. db' = Synced(base, g, tasks[s].present, MembersOf(db, g), db.users)
      BY <1>12 DEF WriteSyncOfNewGroup
    <2> HIDE DEF base
    <2>4. db'.groups = db.groups \cup {g} /\ \A m \in db'.members : m \in db.members \/ m.group = g
      BY <2>1, <2>2, <2>3, SyncedPlaces
    <2>5. Fits'
      BY <1>0, <1>4, <2>1, <2>4 DEF Fits, UpdatesFit, RecordsFollowBot, RowsInGroups
    <2> QED BY <1>3, <1>12, <2>5 DEF WriteSyncOfNewGroup
  <1>13. CASE FinishRemove(s)
    <2>1. db'.groups = db.groups /\ db'.members \subseteq db.members
      BY <1>0, <1>13, RemoveMembersColumns DEF FinishRemove
    <2> QED BY <1>0, <1>3, <1>5, <1>13, <2>1 DEF FinishRemove, Fits, RowsInGroups
  <1>14. CASE FinishRemoveGroup(s)
    <2>1. /\ db'.groups = db.groups \ {tasks[s].group}
          /\ db'.members = IF tasks[s].group \in db.groups
                           THEN {m \in db.members : m.group # tasks[s].group} ELSE db.members
      BY <1>0, <1>14, DeleteGroupColumns DEF FinishRemoveGroup
    <2> QED BY <1>0, <1>3, <1>5, <1>14, <2>1 DEF FinishRemoveGroup, Fits, RowsInGroups
  <1> QED
    BY <1>6, <1>7, <1>8, <1>9, <1>10, <1>11, <1>12, <1>13, <1>14 DEF DatabaseStep

-----------------------------------------------------------------------------
(* What begins without a request.                                          *)

(* With no request in flight there is nothing to be coherent.              *)
LEMMA NobodyIsCoherent ==
    ASSUME NoneInFlight, UNCHANGED tasks
    PROVE  Alone' /\ \A r \in Slots : Coherent(r)'
  BY IdleIsNowhere DEF NoneInFlight, Alone, Coherent

(* An operation of one transaction.                                        *)
LEMMA TransactionSerial ==
    ASSUME Sequential, SerialInv, OneTransaction
    PROVE  Alone' /\ (\A r \in Slots : Coherent(r)') /\ Fits'
  <1>0. Sound(db) /\ Fits
    BY DEF SerialInv, Fits, Inv
  <1>1. UNCHANGED <<chat, bot, updates, tasks>> /\ MayBegin
    BY DEF OneTransaction, OpenApp, SetRole, TagMember
  <1>2. db'.groups = db.groups /\ \A m \in db'.members : m.group \in db.groups
    <2>0. \A m \in db.members : m.group \in db.groups
      BY <1>0 DEF Fits, RowsInGroups
    <2>1. ASSUME NEW u \in Users, OpenApp(u)
          PROVE  db'.groups = db.groups /\ \A m \in db'.members : m.group \in db.groups
      BY <1>0, <2>0, <2>1, GetOrCreateUsersColumns DEF OpenApp
    <2>2. ASSUME NEW u \in Users, NEW r \in Roles, SetRole(u, r)
          PROVE  db'.groups = db.groups /\ \A m \in db'.members : m.group \in db.groups
      <3> DEFINE known == GetOrCreateUsers(db, {u})
                 given == SetUserRole(known, u, r)
      <3>1. Sound(known) /\ known.groups = db.groups /\ known.members = db.members
        BY <1>0, GetOrCreateUsersSound, GetOrCreateUsersColumns
      <3> HIDE DEF known
      <3>2. Sound(given) /\ given.groups = db.groups /\ given.members = db.members
        BY <3>1, SetUserRoleSound, SetUserRoleColumns
      <3>3. db' = SyncRoleToGroupTags(db, given, u, r)
        BY <2>2 DEF SetRole, given, known
      <3> HIDE DEF given
      <3>4. /\ db'.groups = given.groups
            /\ \A m \in db'.members : \E n \in given.members : n.group = m.group /\ n.user = m.user
        BY <3>2, <3>3, SyncRoleToGroupTagsColumns
      <3> QED BY <2>0, <3>2, <3>4
    <2>3. ASSUME NEW a \in Users, NEW u \in Users, NEW g \in Groups, NEW t \in ManualTags,
                 TagMember(a, g, u, t)
          PROVE  db'.groups = db.groups /\ \A m \in db'.members : m.group \in db.groups
      <3>1. g \in db.groups
        BY <2>0, <2>3 DEF TagMember, MemberCheckPasses, RowsOf
      <3>2. Sound(db) /\ \E no : no = FALSE /\ db' = AddMemberTag(db, db, g, u, t, no)
        BY <1>0, <2>3, Zenon DEF TagMember
      <3>3. PICK no : db' = AddMemberTag(db, db, g, u, t, no)
        BY <3>2
      <3>4. /\ db'.groups = db.groups
            /\ db'.members = {m \in db.members : ~(m.group = g /\ m.user = u /\ m.tag = t)}
                                \cup {Row(g, u, t, no)}
        BY <3>2, <3>3, LoneTagColumns
      <3>5. Row(g, u, t, no).group = g
        BY DEF Row
      <3> QED BY <2>0, <3>1, <3>4, <3>5
    <2> QED BY <2>1, <2>2, <2>3 DEF OneTransaction
  <1>3. Fits'
    BY <1>0, <1>1, <1>2 DEF Fits, UpdatesFit, RecordsFollowBot, RowsInGroups
  <1> QED BY <1>1, <1>3, BeginsAlone, NobodyIsCoherent

(* People and the bot come and go.                                         *)
LEMMA OutsideSerial ==
    ASSUME Sequential, SerialInv, Outside
    PROVE  Alone' /\ (\A r \in Slots : Coherent(r)') /\ Fits'
  <1>0. /\ Fits /\ bot \in [Groups -> {"unborn", "live", "gone"}]
        /\ db.groups \subseteq Groups
    BY DEF SerialInv, Fits, Inv, RestOK, Sound, Databases
  <1>1. UNCHANGED <<db, tasks>> /\ MayBegin
    BY DEF Outside, Joins, Leaves, BotKicked, BotInvited
  <1>2. updates = {} /\ NoneInFlight
    BY <1>1, BeginsAlone
  <1>3. Fits'
    <2>1. ASSUME NEW g \in Groups, NEW u \in Users, NEW us, BotInvited(g, u, us) PROVE Fits'
      BY <1>0, <1>1, <1>2, <2>1, UpdateIs
      DEF BotInvited, Fits, UpdatesFit, RecordsFollowBot, RowsInGroups
    <2>2. ASSUME NEW g \in Groups, NEW u \in Users, BotKicked(g, u) PROVE Fits'
      BY <1>0, <1>1, <1>2, <2>2, UpdateIs
      DEF BotKicked, Fits, UpdatesFit, RecordsFollowBot, RowsInGroups
    <2>3. ASSUME NEW g \in Groups, NEW u \in Users, Joins(g, u) \/ Leaves(g, u) PROVE Fits'
      <3>1. \A up \in updates' : up.kind \in {"joined", "left"}
        BY <1>2, <2>3, UpdateIs DEF Joins, Leaves, ChatLoses
      <3>2. UNCHANGED bot
        BY <2>3 DEF Joins, Leaves
      <3> QED BY <1>0, <1>1, <1>2, <3>1, <3>2 DEF Fits, UpdatesFit, RecordsFollowBot, RowsInGroups
    <2> QED BY <2>1, <2>2, <2>3 DEF Outside
  <1> QED BY <1>1, <1>2, <1>3, NobodyIsCoherent

(* The bot handles an update.                                              *)
LEMMA DeliverSerial ==
    ASSUME SerialInv, Deliver
    PROVE  Alone' /\ (\A r \in Slots : Coherent(r)') /\ Fits'
  <1>0. Sound(db) /\ Fits /\ Alone /\ \A s \in Slots : Coherent(s)
    BY DEF SerialInv, Fits, Inv
  <1>1. PICK up \in updates :
            OnMemberJoined(up) \/ OnMemberLeft(up) \/ OnBotAdded(up) \/ IgnoreBotAdded(up) \/ OnBotRemoved(up)
    BY DEF Deliver
  <1>2. UNCHANGED <<chat, bot, tasks, creators>> /\ updates' = updates \ {up}
    BY <1>1 DEF OnMemberJoined, OnMemberLeft, OnBotAdded, IgnoreBotAdded, OnBotRemoved, Handled
  <1>3. \A m \in db.members : m.group \in db.groups
    BY <1>0 DEF Fits, RowsInGroups
  \* What each handler does to the records.
  <1>4. /\ up.kind \in {"joined", "left"} => db'.groups = db.groups
        /\ up.kind = "botAdded" =>
               db'.groups = db.groups
               \/ (up.user \notin creators /\ db'.groups = db.groups \cup {up.group})
        /\ up.kind = "botRemoved" => db'.groups = db.groups \ {up.group}
        /\ \A m \in db'.members : m.group \in db'.groups
    <2>1. CASE OnMemberJoined(up)
      <3>1. db'.groups = db.groups /\ db'.members = {Cleared(m, up.group, up.user) : m \in db.members}
        BY <1>0, <2>1, ClearPendingColumns DEF OnMemberJoined
      <3>2. \A m \in db'.members : \E n \in db.members : m.group = n.group
        <4>1. ASSUME NEW n \in db.members PROVE Cleared(n, up.group, up.user).group = n.group
          BY <1>0 DEF Cleared, Sound, Databases, MemberRows
        <4> QED BY <3>1, <4>1
      <3> QED BY <1>3, <2>1, <3>1, <3>2 DEF OnMemberJoined
    <2>2. CASE OnMemberLeft(up)
      BY <1>0, <1>3, <2>2, RemoveMembersColumns DEF OnMemberLeft
    <2>3. CASE OnBotAdded(up)
      BY <1>0, <1>3, <2>3, CreateGroupRecordColumns DEF OnBotAdded
    <2>4. CASE IgnoreBotAdded(up)
      BY <1>3, <2>4 DEF IgnoreBotAdded
    <2>5. CASE OnBotRemoved(up)
      <3>1. up.kind = "botRemoved" /\ db' = DeleteGroup(db, up.group)
        BY <2>5 DEF OnBotRemoved
      <3>2. /\ db'.groups = db.groups \ {up.group}
            /\ db'.members = IF up.group \in db.groups
                             THEN {m \in db.members : m.group # up.group} ELSE db.members
        BY <1>0, <3>1, DeleteGroupColumns
      <3>3. \A m \in db'.members : m.group \in db'.groups
        BY <1>3, <3>2
      <3> QED BY <3>1, <3>2, <3>3
    <2> QED BY <1>1, <2>1, <2>2, <2>3, <2>4, <2>5
  <1>5. up.kind \in {"joined", "left", "botAdded", "botRemoved"}
    BY <1>1 DEF OnMemberJoined, OnMemberLeft, OnBotAdded, IgnoreBotAdded, OnBotRemoved
  <1>6. Fits'
    BY <1>0, <1>2, <1>4, <1>5 DEF Fits, UpdatesFit, RecordsFollowBot, RowsInGroups
  <1>7. ASSUME NEW s \in Slots PROVE Coherent(s)'
    <2>1. Coherent(s) /\ tasks'[s] = tasks[s]
      BY <1>0, <1>2
    <2>2. CASE At(s, "created")
      BY <1>1, <1>2, <1>4, <1>5, <2>1, <2>2 DEF Coherent, At, IgnoreBotAdded, OnBotAdded, OnMemberJoined, OnMemberLeft, OnBotRemoved
    <2>3. CASE At(s, "invited")
      BY <1>2, <1>4, <1>5, <2>1, <2>3 DEF Coherent, At
    <2>4. CASE ~At(s, "created") /\ ~At(s, "invited")
      BY <2>1, <2>4, <1>1 DEF Coherent, At
    <2> QED BY <2>2, <2>3, <2>4
  <1>8. Alone'
    BY <1>0, <1>2 DEF Alone
  <1> QED BY <1>6, <1>7, <1>8

-----------------------------------------------------------------------------
(* The invariant holds.                                                    *)

LEMMA SerialInit == Init => SerialInv
  <1> SUFFICES ASSUME Init PROVE SerialInv
    OBVIOUS
  <1>1. Inv
    BY InvInit
  <1>2. Alone /\ \A s \in Slots : Coherent(s)
    BY IdleIsNowhere DEF Init, Alone, Coherent
  <1>3. \A m \in db.members : m.group \in db.groups
    <2>1. SUFFICES ASSUME NEW g \in OldGroups, NEW m \in NewRows(g, FirstStaff, FirstRoles)
                   PROVE  m.group \in OldGroups
      BY Zenon DEF Init
    <2> QED BY NewRowsAre
  <1>4. UpdatesFit /\ RecordsFollowBot
    BY MembershipAssumption DEF Init, UpdatesFit, RecordsFollowBot
  <1> QED BY <1>1, <1>2, <1>3, <1>4 DEF SerialInv, RowsInGroups

LEMMA SerialStep == ASSUME Sequential, SerialInv, [Next]_vars PROVE SerialInv'
  <1>1. Inv'
    BY SoundStep, RestStep DEF SerialInv, Inv
  <1>2. Alone' /\ (\A r \in Slots : Coherent(r)') /\ Fits'
    <2>1. CASE UNCHANGED vars
      BY <2>1, FitsStays
      DEF vars, SerialInv, Alone, Coherent, Fits, UpdatesFit, RecordsFollowBot, RowsInGroups
    <2>2. CASE Next
      BY <2>2, BeginStep, TelegramSerial, DatabaseSerial, TransactionSerial, OutsideSerial,
         DeliverSerial
      DEF Next
    <2> QED BY <2>1, <2>2
  <1> QED BY <1>1, <1>2 DEF SerialInv, Fits

(* One operation at a time, every update is the doing of the request in    *)
(* flight or of the one thing that happened outside.                       *)
LEMMA SerialInvariant == ASSUME Sequential PROVE Spec => []SerialInv
  <1>1. SerialInv /\ [Next]_vars => SerialInv'
    BY SerialStep
  <1> QED BY SerialInit, <1>1, PTL DEF Spec

(* One operation at a time, the record of a chat goes with the bot: when   *)
(* all updates are in, the bot is in every registered group.               *)
THEOREM RecordsGoWithBot == ASSUME Sequential PROVE Spec => []RegisteredGroupsAreLive
  <1>1. SerialInv => RegisteredGroupsAreLive
    BY DEF SerialInv, RecordsFollowBot, RegisteredGroupsAreLive, Settled
  <1> QED BY SerialInvariant, <1>1, PTL

(* While create_group is on its way, nothing else records its chat: the    *)
(* update about the bot's arrival finds the creator marked.                *)
THEOREM OwnChatLeftAlone == ASSUME Sequential PROVE Spec => OwnChatIsLeftAlone
  <1>1. SerialInv /\ SerialInv' =>
        [\A s \in Slots :
            At(s, "created") /\ tasks'[s] = tasks[s] =>
                (tasks[s].group \in db'.groups => tasks[s].group \in db.groups)]_vars
    BY DEF SerialInv, Coherent, At
  <1> QED BY SerialInvariant, <1>1, PTL DEF Spec, OwnChatIsLeftAlone

-----------------------------------------------------------------------------
(* SyncMirrorsChat.                                                        *)

(* A sync whose copies are the database's own lists exactly those present, *)
(* each with the one official tag of his role.                             *)
LEMMA SyncedMirrors ==
    ASSUME NEW base, Sound(base), NEW g \in Groups, NEW present \in SUBSET Users
    PROVE  LET new == Synced(base, g, present, MembersOf(base, g), base.users) IN
           /\ MembersOf(new, g) = present
           /\ \A u \in present :
                  TagsOf(new, g, u) \cap OfficialTags =
                      {IF new.users[u] \in Roles THEN new.users[u] ELSE Client}
  <1> DEFINE current == MembersOf(base, g)
             roles == base.users
             new == Synced(base, g, present, current, roles)
             Tag(u) == TagInSync(base, current, roles, u)
  <1>0. \A m \in base.members : m.group = g => m.user \in current
    BY DEF MembersOf
  <1>1. SyncReturns(base, g, present, current, roles, new)
    BY SyncedColumns
  <1> HIDE DEF current, new, roles
  <1>2. \A m \in new.members :
            \/ /\ m \in base.members
               /\ m.group = g => /\ m.user \in present => m.tag \notin OfficialTags
                                 /\ m.user \notin current \ present
            \/ /\ m.group = g /\ m.user \in present /\ m.tag = Tag(m.user)
    BY <1>1 DEF SyncReturns
  <1>3. \A u \in present : \E m \in new.members : m.group = g /\ m.user = u /\ m.tag = Tag(u)
    BY <1>1 DEF SyncReturns
  <1>4. MembersOf(new, g) = present
    BY <1>0, <1>2, <1>3 DEF MembersOf
  <1>5. \A u \in present :
            /\ Tag(u) = IF new.users[u] \in Roles THEN new.users[u] ELSE Client
            /\ Tag(u) \in OfficialTags
    BY <1>1, RoleAssumption DEF SyncReturns, TagInSync, RoleInSync, OfficialTags, roles
  <1> HIDE DEF Tag
  <1>6. ASSUME NEW u \in present PROVE TagsOf(new, g, u) \cap OfficialTags = {Tag(u)}
    <2>1. Tag(u) \in TagsOf(new, g, u) /\ Tag(u) \in OfficialTags
      BY <1>3, <1>5 DEF TagsOf, RowsOf
    <2>2. ASSUME NEW t \in TagsOf(new, g, u), t \in OfficialTags PROVE t = Tag(u)
      BY <1>2, <2>2 DEF TagsOf, RowsOf
    <2> QED BY <2>1, <2>2
  <1> QED BY <1>4, <1>5, <1>6 DEF new, current, roles

(* After /sync a group lists exactly the people in the chat, each with one *)
(* official tag: the role, or CLIENT_TAG.                                  *)
THEOREM SyncMirrors == ASSUME Sequential PROVE Spec => SyncMirrorsChat
  <1>1. SerialInv =>
        [\A s \in Slots :
            WriteSync(s) \/ WriteSyncOfNewGroup(s) =>
                LET g == tasks[s].group IN
                /\ MembersOf(db', g) = chat[g]
                /\ \A u \in chat[g] :
                        TagsOf(db', g, u) \cap OfficialTags =
                            {IF db'.users[u] \in Roles THEN db'.users[u] ELSE Client}]_vars
    <2>1. SUFFICES ASSUME SerialInv, NEW s \in Slots, WriteSync(s) \/ WriteSyncOfNewGroup(s)
                   PROVE  /\ MembersOf(db', tasks[s].group) = chat[tasks[s].group]
                          /\ \A u \in chat[tasks[s].group] :
                                TagsOf(db', tasks[s].group, u) \cap OfficialTags =
                                    {IF db'.users[u] \in Roles THEN db'.users[u] ELSE Client}
      BY Zenon
    <2> DEFINE g == tasks[s].group
               present == tasks[s].present
    <2>2. Sound(db) /\ tasks[s] \in Tasks /\ Coherent(s)
      BY <2>1 DEF SerialInv, Inv, RestOK
    <2>3. g \in Groups /\ present \in SUBSET Users /\ present = chat[g]
      BY <2>1, <2>2, TaskFields DEF WriteSync, WriteSyncOfNewGroup, At, Coherent
    <2>4. \E base : Sound(base) /\ db' = Synced(base, g, present, MembersOf(base, g), base.users)
      <3>1. CASE WriteSync(s)
        <4>1. /\ tasks[s].current = MembersOf(db, g) /\ tasks[s].roles = db.users
              /\ db' = Synced(db, g, present, tasks[s].current, tasks[s].roles)
          BY <2>2, <3>1 DEF WriteSync, At, Coherent
        <4> QED BY <2>2, <4>1
      <3>2. CASE WriteSyncOfNewGroup(s)
        <4> DEFINE base == CreateGroupRecord(db, g)
        <4>1. Sound(base) /\ base.users = db.users /\ base.members = db.members
          BY <2>2, <2>3, CreateGroupRecordSound, CreateGroupRecordColumns
        <4>2. db' = Synced(base, g, present, MembersOf(db, g), db.users)
          BY <3>2 DEF WriteSyncOfNewGroup
        <4> HIDE DEF base
        <4>3. MembersOf(base, g) = MembersOf(db, g)
          BY <4>1 DEF MembersOf
        <4> QED BY <4>1, <4>2, <4>3
      <3> QED BY <2>1, <3>1, <3>2
    <2> HIDE DEF g, present
    <2>5. /\ MembersOf(db', g) = present
          /\ \A u \in present :
                TagsOf(db', g, u) \cap OfficialTags =
                    {IF db'.users[u] \in Roles THEN db'.users[u] ELSE Client}
      BY <2>3, <2>4, SyncedMirrors
    <2> QED BY <2>3, <2>5 DEF g
  <1> QED BY SerialInvariant, <1>1, PTL DEF Spec, SyncMirrorsChat

-----------------------------------------------------------------------------
(* NoOrphanRows, RoleTagsFollowRole and JoinedAreNotPending, write by write. *)

(* Every row has its user row.                                             *)
OwnedRows(base) == \A m \in base.members : base.users[m.user] # NoUser

(* The tag of a role is the role.                                          *)
RoleTagsFit(base) == \A m \in base.members : m.tag \in Roles => m.tag = base.users[m.user]

(* No write but that of add_client makes anybody pending.                  *)
NobodyNewPending(old, new) == \A m \in new.members : m.pending => m \in old.members

Steady(old, new) ==
    /\ OwnedRows(old) => OwnedRows(new)
    /\ RoleTagsFit(old) => RoleTagsFit(new)
    /\ NobodyNewPending(old, new)

(* Rows and roles that are old, or no rows at all.                         *)
LEMMA SteadyWithin ==
    ASSUME NEW old, Sound(old), NEW new,
           \A m \in new.members : m \in old.members /\ new.users[m.user] = old.users[m.user]
    PROVE  Steady(old, new)
  BY DEF Steady, OwnedRows, RoleTagsFit, NobodyNewPending

(* Tagging the team with the roles that are on record.                     *)
LEMMA TeamTaggedSteady ==
    ASSUME NEW base, Sound(base), NEW g, NEW kept, kept \subseteq TeamOf(base.users)
    PROVE  Steady(base, TeamTagged(base, g, base.users, kept))
  <1> DEFINE new == TeamTagged(base, g, base.users, kept)
  <1>1. /\ new.users = base.users
        /\ \A m \in new.members \ base.members :
               m.user \in TeamOf(base.users) /\ m.tag = base.users[m.user] /\ ~m.pending
    BY TeamTaggedColumns
  <1>2. \A u \in TeamOf(base.users) : base.users[u] # NoUser
    BY RoleAssumption DEF TeamOf
  <1> HIDE DEF new
  <1>3. Steady(base, new)
    BY <1>1, <1>2 DEF Steady, OwnedRows, RoleTagsFit, NobodyNewPending
  <1> QED BY <1>3 DEF new

(* A sync whose copy of the roles is the database's own.                   *)
LEMMA SyncedSteady ==
    ASSUME NEW base, Sound(base), NEW g \in Groups, NEW present \in SUBSET Users, NEW current
    PROVE  Steady(base, Synced(base, g, present, current, base.users))
  <1> DEFINE roles == base.users
             new == Synced(base, g, present, current, roles)
  <1>1. SyncReturns(base, g, present, current, roles, new)
    BY SyncedColumns
  <1>2. /\ \A m \in base.members : m.user \in Users
        /\ \A u \in Users : base.users[u] \in UserStates
    BY DEF Sound, Databases, MemberRows
  <1> HIDE DEF new
  \* Who has a row in the end: his user row, and his role.
  <1>3. \A u \in present : new.users[u] = IF base.users[u] = NoUser THEN NoRole ELSE base.users[u]
    BY <1>1 DEF SyncReturns
  <1>4. \A m \in new.members :
            \/ /\ m \in base.members
               /\ m.user \notin present => new.users[m.user] = base.users[m.user]
            \/ /\ m.user \in present /\ ~m.pending
               /\ m.tag = TagInSync(base, current, roles, m.user)
    BY <1>1, <1>2 DEF SyncReturns
  <1>5. \A u \in present :
            TagInSync(base, current, roles, u) =
                IF base.users[u] \in Roles THEN base.users[u] ELSE Client
    BY RoleAssumption DEF TagInSync, RoleInSync
  <1>6. OwnedRows(base) => OwnedRows(new)
    BY <1>3, <1>4, RoleAssumption DEF OwnedRows
  <1>7. RoleTagsFit(base) => RoleTagsFit(new)
    BY <1>3, <1>4, <1>5, RoleAssumption, TagAssumption DEF RoleTagsFit
  <1>8. NobodyNewPending(base, new)
    BY <1>4 DEF NobodyNewPending
  <1> QED BY <1>6, <1>7, <1>8 DEF Steady, new

(* remove_member, with the roles that are on record.                       *)
LEMMA RemoveMembersSteady ==
    ASSUME NEW base, Sound(base), NEW g, NEW us
    PROVE  Steady(base, RemoveMembers(base, g, us, base.users))
  <1> DEFINE new == RemoveMembers(base, g, us, base.users)
  <1>1. /\ \A u \in Users : new.users[u] # base.users[u] => \A m \in new.members : m.user # u
        /\ new.members = {m \in base.members : ~(m.group = g /\ m.user \in us)}
    BY RemoveMembersColumns
  <1>2. \A m \in base.members : m.user \in Users
    BY DEF Sound, Databases, MemberRows
  <1> HIDE DEF new
  <1>3. \A m \in new.members : m \in base.members /\ new.users[m.user] = base.users[m.user]
    BY <1>1, <1>2
  <1> QED BY <1>3, SteadyWithin DEF new

(* POST /users/role: user row, role, and tags together.                    *)
LEMMA SetRoleSteady ==
    ASSUME NEW base, Sound(base), NEW u \in Users, NEW r \in Roles
    PROVE  Steady(base, SyncRoleToGroupTags(base, SetUserRole(GetOrCreateUsers(base, {u}), u, r), u, r))
  <1> DEFINE known == GetOrCreateUsers(base, {u})
             given == SetUserRole(known, u, r)
             new == SyncRoleToGroupTags(base, given, u, r)
  <1>1. /\ Sound(known) /\ known.members = base.members
        /\ known.users = [v \in Users |->
               IF v \in {u} /\ base.users[v] = NoUser THEN NoRole ELSE base.users[v]]
    BY GetOrCreateUsersSound, GetOrCreateUsersColumns
  <1> HIDE DEF known
  <1>2. /\ Sound(given) /\ given.members = known.members
        /\ \A v \in Users : given.users[v] = IF v = u /\ known.users[u] # NoUser THEN r ELSE known.users[v]
    BY <1>1, SetUserRoleSound, SetUserRoleColumns
  <1> HIDE DEF given
  <1>3. /\ new.users = given.users
        /\ new.groups = given.groups
        /\ \A m \in given.members : m.user # u \/ m.tag \notin Roles => m \in new.members
        /\ \A m \in given.members : \E n \in new.members : n.group = m.group /\ n.user = m.user
        /\ \A m \in new.members : m.user # u \/ m.tag \notin Roles => m \in given.members
        /\ \A m \in new.members : m.user = u /\ m.tag \in Roles =>
               m.tag = r /\ (m \in given.members \/ ~m.pending)
        /\ \A m \in new.members : \E n \in given.members : n.group = m.group /\ n.user = m.user
        /\ RoleShown(given.members, new.members, u, r)
    BY <1>2, SyncRoleToGroupTagsColumns, Zenon
  <1> HIDE DEF new
  <1>4. new.users[u] = r /\ \A v \in Users : v # u => new.users[v] = base.users[v]
    BY <1>1, <1>2, <1>3, RoleAssumption
  <1>5. \A m \in new.members : m.user \in Users
    BY <1>1, <1>2, <1>3 DEF Sound, Databases, MemberRows
  <1>6. OwnedRows(base) => OwnedRows(new)
    <2>1. \A m \in new.members : \E n \in base.members : n.user = m.user
      BY <1>1, <1>2, <1>3
    <2> QED BY <1>4, <1>5, <2>1, RoleAssumption DEF OwnedRows
  <1>7. RoleTagsFit(base) => RoleTagsFit(new)
    BY <1>1, <1>2, <1>3, <1>4, <1>5 DEF RoleTagsFit
  <1>8. NobodyNewPending(base, new)
    BY <1>1, <1>2, <1>3 DEF NobodyNewPending
  <1> QED BY <1>6, <1>7, <1>8 DEF Steady, new, given, known

(* clear_pending                                                           *)
LEMMA ClearPendingSteady ==
    ASSUME NEW base, Sound(base), NEW g, NEW u
    PROVE  /\ Steady(base, ClearPending(base, g, u))
           /\ \A m \in ClearPending(base, g, u).members : m.pending => ~(m.group = g /\ m.user = u)
  <1> DEFINE new == ClearPending(base, g, u)
  <1>1. new.users = base.users /\ new.members = {Cleared(m, g, u) : m \in base.members}
    BY ClearPendingColumns
  <1> HIDE DEF new
  <1>2. ASSUME NEW n \in base.members
        PROVE  LET m == Cleared(n, g, u) IN
               /\ m.group = n.group /\ m.user = n.user /\ m.tag = n.tag
               /\ m.pending => m = n /\ ~(m.group = g /\ m.user = u)
    BY DEF Cleared, Sound, Databases, MemberRows
  <1>3. ASSUME NEW m \in new.members
        PROVE  /\ \E n \in base.members : m.user = n.user /\ m.tag = n.tag
               /\ m.pending => m \in base.members /\ ~(m.group = g /\ m.user = u)
    <2>1. PICK n \in base.members : m = Cleared(n, g, u)
      BY <1>1
    <2> QED BY <1>2, <2>1
  <1>4. Steady(base, new)
    BY <1>1, <1>3 DEF Steady, OwnedRows, RoleTagsFit, NobodyNewPending
  <1> QED BY <1>3, <1>4 DEF new

(* delete_group                                                            *)
LEMMA DeleteGroupSteady ==
    ASSUME NEW base, Sound(base), NEW g
    PROVE  Steady(base, DeleteGroup(base, g))
  <1> DEFINE new == DeleteGroup(base, g)
  <1>1. /\ new.users = base.users
        /\ new.members = IF g \in base.groups THEN {m \in base.members : m.group # g} ELSE base.members
    BY DeleteGroupColumns
  <1> HIDE DEF new
  <1>2. \A m \in new.members : m \in base.members /\ new.users[m.user] = base.users[m.user]
    BY <1>1
  <1> QED BY <1>2, SteadyWithin DEF new

(* Every write of the database but two is steady.                          *)
LEMMA SteadyStep ==
    ASSUME SerialInv, [Next]_vars
    PROVE  \/ Steady(db, db')
           \/ \E s \in Slots : FinishAddClient(s)
           \/ \E a, u \in Users, g \in Groups, t \in ManualTags : TagMember(a, g, u, t)
  <1>0. Inv /\ Sound(db) /\ \A s \in Slots : Coherent(s) /\ tasks[s] \in Tasks
    BY DEF SerialInv, Inv, RestOK
  <1>1. ASSUME UNCHANGED db PROVE Steady(db, db')
    BY <1>1 DEF Steady, NobodyNewPending
  <1>2. ASSUME NEW s \in Slots, DatabaseStep(s), ~FinishAddClient(s) PROVE Steady(db, db')
    <2>0. Coherent(s) /\ tasks[s] \in Tasks
      BY <1>0
    <2>1. ASSUME NEW kept \in SUBSET Users, FinishCreateGroup(s, kept) PROVE Steady(db, db')
      BY <1>0, <2>0, <2>1, TeamTaggedSteady DEF FinishCreateGroup, At, Coherent
    <2>2. CASE FinishOffboard(s)
      <3>1. tasks[s].user \in Users /\ db' = DeleteUser(db, tasks[s].user)
        BY <2>0, <2>2, TaskFields DEF FinishOffboard, At
      <3>2. \A m \in db'.members : m \in db.members /\ db'.users[m.user] = db.users[m.user]
        BY <1>0, <3>1, DeleteUserColumns DEF Sound, Databases, MemberRows
      <3> QED BY <1>0, <3>2, SteadyWithin
    <2>3. CASE ReadMembers(s) \/ TransactionFails(s)
      BY <1>1, <2>3 DEF ReadMembers, TransactionFails
    <2>4. CASE WriteSync(s)
      BY <1>0, <2>0, <2>4, TaskFields, SyncedSteady DEF WriteSync, At, Coherent
    <2>5. CASE WriteSyncOfNewGroup(s)
      <3> DEFINE g == tasks[s].group
                 base == CreateGroupRecord(db, g)
      <3>1. g \in Groups /\ tasks[s].present \in SUBSET Users
        BY <2>0, <2>5, TaskFields DEF WriteSyncOfNewGroup, At
      <3>2. Sound(base) /\ base.users = db.users /\ base.members = db.members
        BY <1>0, <3>1, CreateGroupRecordSound, CreateGroupRecordColumns
      <3>3. db' = Synced(base, g, tasks[s].present, MembersOf(db, g), db.users)
        BY <2>5 DEF WriteSyncOfNewGroup
      <3> HIDE DEF base
      <3>4. Steady(base, db')
        BY <3>1, <3>2, <3>3, SyncedSteady
      <3> QED BY <3>2, <3>4 DEF Steady, OwnedRows, RoleTagsFit, NobodyNewPending
    <2>6. CASE FinishRemove(s)
      BY <1>0, <2>6, RemoveMembersSteady DEF FinishRemove
    <2>7. CASE FinishRemoveGroup(s)
      BY <1>0, <2>7, DeleteGroupSteady DEF FinishRemoveGroup
    <2> QED BY <1>2, <2>1, <2>2, <2>3, <2>4, <2>5, <2>6, <2>7 DEF DatabaseStep
  <1>3. ASSUME NEW s \in Slots, Begin(s) \/ TelegramStep(s) PROVE Steady(db, db')
    BY <1>1, <1>3
    DEF Begin, StartCreateGroup, StartAddClient, StartOffboard, StartSync, StartRemove,
        StartRemoveGroup, TelegramStep, ChatAppears, CreateChat, CreateChatHalfway,
        InviteDirectly, InviteByLink, Bans,
        BanEverywhere, BanInterrupted, Scan, Kick, DeleteChat, EndCreateGroup, TelegramFails
  <1>4. ASSUME NEW u \in Users, OpenApp(u) PROVE Steady(db, db')
    <2>1. /\ db'.users = [v \in Users |->
                 IF v \in {u} /\ db.users[v] = NoUser THEN NoRole ELSE db.users[v]]
          /\ db'.members = db.members
      BY <1>0, <1>4, GetOrCreateUsersColumns DEF OpenApp
    <2>2. \A m \in db.members : m.user \in Users
      BY <1>0 DEF Sound, Databases, MemberRows
    <2> QED BY <2>1, <2>2, RoleAssumption DEF Steady, OwnedRows, RoleTagsFit, NobodyNewPending
  <1>5. ASSUME NEW u \in Users, NEW r \in Roles, SetRole(u, r) PROVE Steady(db, db')
    BY <1>0, <1>5, SetRoleSteady DEF SetRole
  <1>6. CASE Outside
    BY <1>1, <1>6 DEF Outside, Joins, Leaves, BotKicked, BotInvited
  <1>7. ASSUME NEW up \in updates,
               OnMemberJoined(up) \/ OnMemberLeft(up) \/ OnBotAdded(up) \/ IgnoreBotAdded(up) \/ OnBotRemoved(up)
        PROVE  Steady(db, db')
    <2>1. CASE OnMemberJoined(up)
      BY <1>0, <2>1, ClearPendingSteady DEF OnMemberJoined
    <2>2. CASE OnMemberLeft(up)
      BY <1>0, <2>2, RemoveMembersSteady DEF OnMemberLeft
    <2>3. CASE OnBotAdded(up)
      BY <1>0, <2>3, CreateGroupRecordColumns, SteadyWithin DEF OnBotAdded
    <2>4. CASE IgnoreBotAdded(up)
      BY <1>1, <2>4 DEF IgnoreBotAdded
    <2>5. CASE OnBotRemoved(up)
      BY <1>0, <2>5, DeleteGroupSteady DEF OnBotRemoved
    <2> QED BY <1>7, <2>1, <2>2, <2>3, <2>4, <2>5
  <1>8. CASE UNCHANGED vars
    BY <1>1, <1>8 DEF vars
  <1> QED BY <1>2, <1>3, <1>4, <1>5, <1>6, <1>7, <1>8 DEF Next, OneTransaction, Deliver

(* add_client: his user row comes with his row, which is no staff row.     *)
LEMMA ClientAddedSteady ==
    ASSUME NEW base, Sound(base), NEW g, NEW u \in Users, NEW link
    PROVE  LET new == ClientAdded(base, g, u, link) IN
           /\ OwnedRows(base) => OwnedRows(new)
           /\ RoleTagsFit(base) => RoleTagsFit(new)
           /\ \A m \in new.members : m \in base.members \/ m = Row(g, u, Client, link)
  <1> DEFINE new == ClientAdded(base, g, u, link)
  <1>1. /\ \A v \in Users : new.users[v] # base.users[v] =>
               v = u /\ base.users[v] = NoUser /\ new.users[v] = NoRole
        /\ new.users[u] # NoUser \/ \E m \in base.members : m.user = u
        /\ new.members = {m \in base.members : ~(m.group = g /\ m.user = u /\ m.tag = Client)}
                             \cup {Row(g, u, Client, link)}
    BY ClientAddedColumns DEF TagsOf, RowsOf
  <1>2. \A m \in base.members : m.user \in Users
    BY DEF Sound, Databases, MemberRows
  <1>3. Row(g, u, Client, link).user = u /\ Row(g, u, Client, link).tag = Client
    BY DEF Row
  <1> HIDE DEF new
  <1>4. OwnedRows(base) => OwnedRows(new)
    BY <1>1, <1>2, <1>3, RoleAssumption DEF OwnedRows
  <1>5. RoleTagsFit(base) => RoleTagsFit(new)
    BY <1>1, <1>2, <1>3, RoleAssumption, TagAssumption DEF RoleTagsFit
  <1> QED BY <1>1, <1>4, <1>5 DEF new

(* POST /members/tag: the person tagged has a user row unless strangers    *)
(* may be tagged, and the tag is none of a role unless such tags may be    *)
(* given by hand.                                                          *)
LEMMA TagMemberSteady ==
    ASSUME Sound(db), NEW a, NEW u \in Users, NEW g, NEW t \in ManualTags, TagMember(a, g, u, t)
    PROVE  /\ ~TagStrangers /\ OwnedRows(db) => OwnedRows(db')
           /\ ManualTags \cap Roles = {} /\ RoleTagsFit(db) => RoleTagsFit(db')
           /\ NobodyNewPending(db, db')
  <1>1. \E no : ~no /\ db' = AddMemberTag(db, db, g, u, t, no)
    BY Zenon DEF TagMember
  <1>2. PICK no : ~no /\ db' = AddMemberTag(db, db, g, u, t, no)
    BY <1>1
  <1>3. /\ db'.users = db.users
        /\ db'.members = {m \in db.members : ~(m.group = g /\ m.user = u /\ m.tag = t)}
                            \cup {Row(g, u, t, no)}
    BY <1>2, LoneTagColumns
  <1>4. /\ Row(g, u, t, no).user = u /\ Row(g, u, t, no).tag = t
        /\ ~Row(g, u, t, no).pending
    BY <1>2 DEF Row
  <1>5. TagStrangers \/ db.users[u] # NoUser
    BY DEF TagMember
  <1> QED BY <1>3, <1>4, <1>5 DEF OwnedRows, RoleTagsFit, NobodyNewPending

(* Rows without a user, step by step.                                      *)
LEMMA OwnedStep ==
    ASSUME SerialInv, ~TagStrangers, OwnedRows(db), [Next]_vars
    PROVE  OwnedRows(db')
  <1>0. Sound(db) /\ \A s \in Slots : tasks[s] \in Tasks
    BY DEF SerialInv, Inv, RestOK
  <1>1. ASSUME NEW s \in Slots, FinishAddClient(s) PROVE OwnedRows(db')
    BY <1>0, <1>1, TaskFields, ClientAddedSteady DEF FinishAddClient, At
  <1>2. ASSUME NEW a \in Users, NEW u \in Users, NEW g \in Groups, NEW t \in ManualTags,
               TagMember(a, g, u, t)
        PROVE  OwnedRows(db')
    BY <1>0, <1>2, TagMemberSteady
  <1>3. ASSUME Steady(db, db') PROVE OwnedRows(db')
    BY <1>3 DEF Steady
  <1> QED BY <1>1, <1>2, <1>3, SteadyStep

(* Role tags, step by step.                                                *)
LEMMA RoleTagsStep ==
    ASSUME SerialInv, ManualTags \cap Roles = {}, RoleTagsFit(db), [Next]_vars
    PROVE  RoleTagsFit(db')
  <1>0. Sound(db) /\ \A s \in Slots : tasks[s] \in Tasks
    BY DEF SerialInv, Inv, RestOK
  <1>1. ASSUME NEW s \in Slots, FinishAddClient(s) PROVE RoleTagsFit(db')
    BY <1>0, <1>1, TaskFields, ClientAddedSteady DEF FinishAddClient, At
  <1>2. ASSUME NEW a \in Users, NEW u \in Users, NEW g \in Groups, NEW t \in ManualTags,
               TagMember(a, g, u, t)
        PROVE  RoleTagsFit(db')
    BY <1>0, <1>2, TagMemberSteady
  <1>3. ASSUME Steady(db, db') PROVE RoleTagsFit(db')
    BY <1>3 DEF Steady
  <1> QED BY <1>1, <1>2, <1>3, SteadyStep

(* The first rows: staff, under their roles, and nobody pending.           *)
LEMMA FirstRows ==
    ASSUME Init
    PROVE  /\ OwnedRows(db) /\ RoleTagsFit(db)
           /\ \A m \in db.members : ~m.pending
  <1>1. ASSUME NEW m \in db.members
        PROVE  m.user \in FirstStaff /\ m.tag = db.users[m.user] /\ ~m.pending
    <2>1. \E g \in OldGroups : m \in NewRows(g, FirstStaff, FirstRoles)
      BY Zenon DEF Init
    <2> QED BY <2>1, NewRowsAre DEF Init
  <1>2. \A u \in FirstStaff : db.users[u] # NoUser
    BY RoleAssumption DEF Init, FirstStaff
  <1> QED BY <1>1, <1>2 DEF OwnedRows, RoleTagsFit

(* One operation at a time, and no strangers tagged, every row of a        *)
(* membership has its user and its group: list_members reads both of every *)
(* row.                                                                    *)
THEOREM RowsAreOwned == ASSUME Sequential, ~TagStrangers PROVE Spec => []NoOrphanRows
  <1> DEFINE I == SerialInv /\ OwnedRows(db)
  <1>1. Init => I
    BY SerialInit, FirstRows
  <1>2. I /\ [Next]_vars => I'
    <2>1. SUFFICES ASSUME I, [Next]_vars PROVE SerialInv' /\ OwnedRows(db')
      BY DEF OwnedRows
    <2> QED BY <2>1, SerialStep, OwnedStep
  <1>3. I => NoOrphanRows
    BY DEF SerialInv, RowsInGroups, OwnedRows, NoOrphanRows, NoOrphans
  <1> HIDE DEF I
  <1> QED BY <1>1, <1>2, <1>3, PTL DEF Spec

(* One operation at a time, and no tags of roles given by hand, the tag of *)
(* a role is the role of its bearer, in every group at once.               *)
THEOREM TagsFollowRole ==
    ASSUME Sequential, ManualTags \cap Roles = {} PROVE Spec => []RoleTagsFollowRole
  <1> DEFINE I == SerialInv /\ RoleTagsFit(db)
  <1>1. Init => I
    BY SerialInit, FirstRows
  <1>2. I /\ [Next]_vars => I'
    <2>1. SUFFICES ASSUME I, [Next]_vars PROVE SerialInv' /\ RoleTagsFit(db')
      BY DEF RoleTagsFit
    <2> QED BY <2>1, SerialStep, RoleTagsStep
  <1>3. I => RoleTagsFollowRole
    BY DEF RoleTagsFit, RoleTagsFollowRole
  <1> HIDE DEF I
  <1> QED BY <1>1, <1>2, <1>3, PTL DEF Spec

-----------------------------------------------------------------------------
(* JoinedAreNotPending.                                                    *)

(* Whoever is pending and in the chat all the same, the bot is about to    *)
(* hear of.                                                                *)
PendingOutside ==
    \A m \in db.members : m.pending /\ bot[m.group] = "live" /\ m.user \in chat[m.group] =>
        \E up \in updates : up.kind = "joined" /\ up.group = m.group /\ up.user = m.user

(* A group on record is one the bot has been in.                           *)
LEMMA RecordsAreBorn == ASSUME SerialInv PROVE \A g \in db.groups : bot[g] # "unborn"
  BY DEF SerialInv, RecordsFollowBot, UpdatesFit

LEMMA PendingStep == ASSUME SerialInv, PendingOutside, [Next]_vars PROVE PendingOutside'
  <1>0. /\ Sound(db) /\ RowsInGroups
        /\ \A m \in db.members : m.user \in Users /\ m.group \in db.groups
        /\ \A s \in Slots : tasks[s] \in Tasks /\ Coherent(s)
    BY DEF SerialInv, Inv, RestOK, RowsInGroups, Sound, Databases, MemberRows
  <1>1. ASSUME UNCHANGED <<chat, bot, updates>>, NobodyNewPending(db, db') PROVE PendingOutside'
    BY <1>1 DEF PendingOutside, NobodyNewPending
  <1>2. ASSUME NEW s \in Slots, FinishAddClient(s) PROVE PendingOutside'
    <2> DEFINE g == tasks[s].group
               u == tasks[s].user
               link == tasks[s].link
    <2>1. u \in Users /\ db' = ClientAdded(db, g, u, link) /\ (link => u \notin chat[g])
      BY <1>0, <1>2, TaskFields DEF FinishAddClient, At, Coherent
    <2>2. UNCHANGED <<chat, bot, updates>>
      BY <1>2 DEF FinishAddClient
    <2> HIDE DEF g, u, link
    <2>3. \A m \in db'.members : m \in db.members \/ m = Row(g, u, Client, link)
      BY <1>0, <2>1, ClientAddedSteady
    <2> QED BY <2>1, <2>2, <2>3 DEF PendingOutside, Row
  <1>3. CASE OneTransaction
    <2>1. UNCHANGED <<chat, bot, updates>>
      BY <1>3 DEF OneTransaction, OpenApp, SetRole, TagMember
    <2>2. NobodyNewPending(db, db')
      <3>1. ASSUME NEW a, NEW u \in Users, NEW g, NEW t \in ManualTags, TagMember(a, g, u, t)
            PROVE  NobodyNewPending(db, db')
        BY <1>0, <3>1, TagMemberSteady
      <3>2. ASSUME NEW u \in Users, OpenApp(u) PROVE NobodyNewPending(db, db')
        BY <1>0, <3>2, GetOrCreateUsersColumns DEF OpenApp, NobodyNewPending
      <3>3. ASSUME NEW u \in Users, NEW r \in Roles, SetRole(u, r) PROVE NobodyNewPending(db, db')
        BY <1>0, <3>3, SetRoleSteady DEF SetRole, Steady
      <3> QED BY <1>3, <3>1, <3>2, <3>3 DEF OneTransaction
    <2> QED BY <1>1, <2>1, <2>2
  <1>4. ASSUME NEW s \in Slots, DatabaseStep(s) PROVE PendingOutside'
    <2>1. UNCHANGED <<chat, bot, updates>>
      BY <1>4 DEF DatabaseStep, FinishCreateGroup, FinishAddClient, FinishOffboard, ReadMembers,
          WriteSync, TransactionFails, WriteSyncOfNewGroup, FinishRemove, FinishRemoveGroup
    <2>2. CASE Steady(db, db')
      BY <1>1, <2>1, <2>2 DEF Steady
    <2>3. ASSUME NEW a \in Users, NEW u \in Users, NEW g \in Groups, NEW t \in ManualTags,
                 TagMember(a, g, u, t)
          PROVE  PendingOutside'
      BY <1>3, <2>3 DEF OneTransaction
    <2> QED BY <1>2, <2>2, <2>3, SteadyStep
  <1>5. ASSUME (\E s \in Slots : TelegramStep(s)) \/ Outside PROVE PendingOutside'
    <2>1. UNCHANGED db
      BY <1>5 DEF Outside, Joins, Leaves, BotKicked, BotInvited, TelegramStep, ChatAppears,
          CreateChat, CreateChatHalfway, InviteDirectly, InviteByLink, Bans, BanEverywhere,
          BanInterrupted, Scan, Kick, DeleteChat, EndCreateGroup, TelegramFails
    <2>2. \A m \in db.members : m.group \in Groups /\ bot[m.group] # "unborn"
      BY <1>0, RecordsAreBorn DEF Sound, Databases
    <2> QED BY <1>0, <1>5, <2>1, <2>2, ArrivalsAreTold DEF PendingOutside, SerialInv
  <1>6. ASSUME NEW s \in Slots, Begin(s) PROVE PendingOutside'
    <2>1. UNCHANGED <<db, chat, bot, updates>>
      BY <1>6 DEF Begin, StartCreateGroup, StartAddClient, StartOffboard, StartSync, StartRemove,
          StartRemoveGroup
    <2> QED BY <2>1 DEF PendingOutside
  <1>7. ASSUME NEW up \in updates,
               OnMemberJoined(up) \/ OnMemberLeft(up) \/ OnBotAdded(up) \/ IgnoreBotAdded(up) \/ OnBotRemoved(up)
        PROVE  PendingOutside'
    <2>1. UNCHANGED <<chat, bot>> /\ updates' = updates \ {up}
      BY <1>7 DEF OnMemberJoined, OnMemberLeft, OnBotAdded, IgnoreBotAdded, OnBotRemoved, Handled
    <2>2. NobodyNewPending(db, db')
      <3>1. CASE OnMemberJoined(up)
        BY <1>0, <3>1, ClearPendingSteady DEF OnMemberJoined, Steady
      <3>2. CASE OnMemberLeft(up)
        BY <1>0, <3>2, RemoveMembersSteady DEF OnMemberLeft, Steady
      <3>3. CASE OnBotAdded(up)
        BY <1>0, <3>3, CreateGroupRecordColumns DEF OnBotAdded, NobodyNewPending
      <3>4. CASE IgnoreBotAdded(up)
        BY <3>4 DEF IgnoreBotAdded, NobodyNewPending
      <3>5. CASE OnBotRemoved(up)
        BY <1>0, <3>5, DeleteGroupSteady DEF OnBotRemoved, Steady
      <3> QED BY <1>7, <3>1, <3>2, <3>3, <3>4, <3>5
    <2>3. up.kind = "joined" =>
              \A m \in db'.members : m.pending => ~(m.group = up.group /\ m.user = up.user)
      BY <1>0, <1>7, ClearPendingSteady
      DEF OnMemberJoined, OnMemberLeft, OnBotAdded, IgnoreBotAdded, OnBotRemoved
    <2> QED BY <2>1, <2>2, <2>3 DEF PendingOutside, NobodyNewPending
  <1>8. CASE UNCHANGED vars
    BY <1>8 DEF vars, PendingOutside
  <1> QED BY <1>3, <1>4, <1>5, <1>6, <1>7, <1>8 DEF Next, Deliver

(* One operation at a time, once all updates are in, nobody who is in the  *)
(* chat is shown as pending.                                               *)
THEOREM JoinedArePresent == ASSUME Sequential PROVE Spec => []JoinedAreNotPending
  <1>1. Init => PendingOutside
    BY FirstRows DEF PendingOutside
  <1>2. SerialInv /\ PendingOutside /\ [Next]_vars => PendingOutside'
    BY PendingStep
  <1>3. PendingOutside => JoinedAreNotPending
    BY DEF PendingOutside, JoinedAreNotPending, Settled
  <1> QED BY SerialInvariant, <1>1, <1>2, <1>3, PTL DEF Spec
=============================================================================
