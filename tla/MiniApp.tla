------------------------------ MODULE MiniApp ------------------------------
(***************************************************************************)
(* The main screens of one open Mini App (miniapp/js/mainApp.js): the list *)
(* of groups, the members of the selected group and the profile.  Each     *)
(* list shows what some GET answered.  Answers arrive in any order, pushes *)
(* in order while the socket is up and not at all while it is down, and    *)
(* the user taps meanwhile.                                                *)
(*                                                                         *)
(* The server is what its answers and pushes show of it: an answer is      *)
(* fresh until a subject it tells of changes.  Every change is pushed      *)
(* after its commit; the ones that are not are the business of Pushes, and *)
(* how the socket comes up is the business of Realtime.                    *)
(***************************************************************************)
EXTENDS Naturals, Sequences

CONSTANTS
    Groups,
    FirstGroups,  \* the user's groups when the Mini App opens
    None,         \* no group
    MaxFetches,   \* bound on the GETs in flight
    MaxPosts,     \* bound on the requests of buttons in flight
    MaxTaps,      \* bound on the groups opened and the buttons pressed
    MaxChanges,   \* bound on changes by others
    MaxFaults     \* bound on requests, answers and sockets that are lost

ASSUME MiniAppAssumption ==
    /\ FirstGroups \subseteq Groups
    /\ None \notin Groups
    /\ MaxFetches \in Nat \ {0}
    /\ MaxPosts \in Nat \ {0}
    /\ MaxTaps \in Nat
    /\ MaxChanges \in Nat
    /\ MaxFaults \in Nat

VARIABLES
    groups,    \* server: group -> "new" to the user, he is "in" it, or "out" for good
    owed,      \* server: pushes of committed changes that are still to be sent
    socket,    \* "unstarted", "down", or "up": registered at the server
    chains,    \* how many times connectRealtime was called
    pushes,    \* pushes on their way, in order
    screen,    \* "groups", "detail" or "profile"
    selected,  \* selectedGroupId
    shown,     \* list -> what the screen has in it
    fetches,   \* slot -> GET in flight
    timers,    \* armed spinners: a GET and its list
    posts,     \* slot -> request of a button in flight
    faulted,   \* history: lists touched by a fault since they were last rendered fresh
    spent      \* taps, changes and faults so far

vars == <<groups, owed, socket, chains, pushes, screen, selected, shown, fetches, timers,
          posts, faulted, spent>>

server == <<groups, owed>>
channel == <<socket, chains, pushes>>
view == <<screen, selected, shown>>

\* What an answer or a push is about.
Subject(list, g) == [list |-> list, group |-> g]
GroupList == Subject("groups", None)
Profile == Subject("profile", None)
Members(g) == Subject("members", g)
Subjects == {GroupList, Profile} \cup {Members(g) : g \in Groups}

Lists == {"groups", "members", "profile"}
Slots == 1 .. MaxFetches
PostSlots == 1 .. MaxPosts
Buttons == {"create", "add", "remove", "delete", "role"}

Idle == [at |-> "idle"]
Ages == {"fresh", "old", "overtaken"}

\* listed: the groups an answer to GET /groups lists; entry: enterMainApp awaits it.
Fetches == [at: {"sent", "answered", "failed"}, what: Subjects, listed: SUBSET Groups,
            age: Ages, entry: BOOLEAN]
Posts == [at: {"sent", "done"}, button: Buttons, group: Groups \cup {None}, age: Ages]
Pushed == [what: Subjects, own: BOOLEAN]

\* What a list of the screen holds.
Nothing(face) == [face |-> face]
Faces == {Nothing(f) : f \in {"blank", "spinner", "error", "empty"}}
            \cup [face: {"rows"}, what: Subjects, listed: SUBSET Groups, fresh: BOOLEAN]
Rows(x, listed, fresh) == [face |-> "rows", what |-> x, listed |-> listed, fresh |-> fresh]
HasRows(list) == shown[list].face = "rows"

Init ==
    /\ groups = [g \in Groups |-> IF g \in FirstGroups THEN "in" ELSE "new"]
    /\ owed = {}
    /\ socket = "unstarted"
    /\ chains = 0
    /\ pushes = <<>>
    /\ screen = "groups"
    /\ selected = None
    /\ shown = [l \in Lists |-> IF l = "profile" THEN Rows(Profile, {}, TRUE) ELSE Nothing("blank")]
    /\ fetches = [s \in Slots |->
            IF s = 1 THEN [at |-> "sent", what |-> GroupList, listed |-> {}, age |-> "fresh", entry |-> TRUE]
            ELSE Idle]
    /\ timers = {[slot |-> 1, list |-> "groups"]}
    /\ posts = [k \in PostSlots |-> Idle]
    /\ faulted = {}
    /\ spent = [taps |-> 0, changes |-> 0, faults |-> 0]

-----------------------------------------------------------------------------
Spends(what, limit) == spent[what] < limit /\ spent' = [spent EXCEPT ![what] = @ + 1]
Tap == Spends("taps", MaxTaps)
Fault == Spends("faults", MaxFaults)

FreeSlots == {s \in Slots : fetches[s] = Idle}
NextSlot == CHOOSE s \in FreeSlots : TRUE

\* fetchGroups, fetchMembers and refreshProfile up to their await, beside others.
\* The first two arm a spinner when their list has no rows.
Asks(others, x, hasRows, entry) ==
    /\ FreeSlots # {}
    /\ fetches' = [others EXCEPT ![NextSlot] =
            [at |-> "sent", what |-> x, listed |-> {}, age |-> "fresh", entry |-> entry]]
    /\ timers' = IF x.list = "profile" \/ hasRows THEN timers
                 ELSE timers \cup {[slot |-> NextSlot, list |-> x.list]}

Refetches(x) == Asks(fetches, x, HasRows(x.list), FALSE)

-----------------------------------------------------------------------------
(* The server.                                                              *)

\* Subjects change: what was answered about them, or is shown, is old.
Aged(answer, from, to) == IF answer # Idle /\ answer.age = from THEN [answer EXCEPT !.age = to] ELSE answer

AgedFetches(xs, from, to) ==
    [s \in Slots |->
        IF fetches[s].at = "answered" /\ fetches[s].what \in xs THEN Aged(fetches[s], from, to) ELSE fetches[s]]

AgedPosts(xs, from, to) ==
    [k \in PostSlots |->
        IF posts[k].at = "done" /\ posts[k].button = "role" /\ Profile \in xs THEN Aged(posts[k], from, to)
        ELSE posts[k]]

Outdates(x) ==
    /\ shown' = [l \in Lists |->
            IF HasRows(l) /\ shown[l].what = x THEN [shown[l] EXCEPT !.fresh = FALSE] ELSE shown[l]]
    /\ fetches' = AgedFetches({x}, "fresh", "old")

MyGroups == {g \in Groups : groups[g] = "in"}
Membership(g, from, to) == groups[g] = from /\ groups' = [groups EXCEPT ![g] = to]

\* Someone else changes what the user may see: a title, a badge, the members of a
\* group, the profile on another device; or takes him into a group or out of one.
Changes(x) ==
    /\ Spends("changes", MaxChanges)
    /\ \/ /\ x.list = "members" => x.group \in MyGroups
          /\ UNCHANGED groups
       \/ /\ x = GroupList
          /\ \E g \in Groups : Membership(g, "new", "in") \/ Membership(g, "in", "out")
    /\ Outdates(x)
    /\ posts' = AgedPosts({x}, "fresh", "old")
    /\ owed' = owed \cup {[what |-> x, own |-> FALSE]}
    /\ UNCHANGED <<channel, screen, selected, timers, faulted>>

\* A GET is answered.  Only members may ask for the members of a group.
Answers(s) ==
    /\ fetches[s].at = "sent"
    /\ LET x == fetches[s].what IN
        fetches' = [fetches EXCEPT ![s] =
            IF x.list = "members" /\ x.group \notin MyGroups THEN [@ EXCEPT !.at = "failed"]
            ELSE [@ EXCEPT !.at = "answered", !.listed = IF x = GroupList THEN MyGroups ELSE {}]]
    /\ UNCHANGED <<server, channel, view, timers, posts, faulted, spent>>

\* POST /groups, /members/add-client, /members/remove, /users/role and DELETE
\* /groups/{group_id}.  The role shows in groups too, which Changes stands for.
Performs(k, x) ==
    /\ Outdates(x)
    /\ posts' = [AgedPosts({x}, "fresh", "old") EXCEPT ![k].at = "done"]
    /\ owed' = owed \cup {[what |-> x, own |-> TRUE]}
    /\ UNCHANGED <<channel, screen, selected, timers, faulted, spent>>

PerformPost(k) ==
    LET post == posts[k] IN
    /\ post.at = "sent"
    /\ \/ /\ post.button = "create"
          /\ \E g \in Groups : Membership(g, "new", "in")
          /\ Performs(k, GroupList)
       \/ /\ post.button \in {"add", "remove"}
          /\ post.group \in MyGroups
          /\ Performs(k, Members(post.group))
          /\ UNCHANGED groups
       \/ /\ post.button = "delete"
          /\ Membership(post.group, "in", "out")
          /\ Performs(k, GroupList)
       \/ /\ post.button = "role"
          /\ Performs(k, Profile)
          /\ UNCHANGED groups

\* No access any more, or Telegram does not do what is asked.
RefusePost(k) ==
    /\ posts[k].at = "sent"
    /\ posts' = [posts EXCEPT ![k] = Idle]
    /\ UNCHANGED <<server, channel, view, fetches, timers, faulted, spent>>

-----------------------------------------------------------------------------
(* The channel.                                                             *)

\* The list of the screen that a push makes fetch again, if any.
Touched(p) == IF p.what.list = "members" /\ p.what.group # selected THEN {} ELSE {p.what.list}
Missed(ps) == UNION {Touched(p) : p \in {q \in ps : ~q.own}}

\* Of a group's members only those who are still in it are told.
Send(p) ==
    /\ p \in owed
    /\ owed' = owed \ {p}
    /\ IF p.what.list = "members" /\ p.what.group \notin MyGroups THEN UNCHANGED <<pushes, faulted>>
       ELSE IF socket = "up" THEN pushes' = Append(pushes, p) /\ UNCHANGED faulted
       ELSE faulted' = faulted \cup Missed({p}) /\ UNCHANGED pushes
    /\ UNCHANGED <<groups, socket, chains, view, fetches, timers, posts, spent>>

Connect ==
    /\ socket = "down"
    /\ socket' = "up"
    /\ UNCHANGED <<server, chains, pushes, view, fetches, timers, posts, faulted, spent>>

\* What was on its way is lost, and nobody tells the Mini App.
Disconnect ==
    /\ Fault
    /\ socket = "up"
    /\ socket' = "down"
    /\ pushes' = <<>>
    /\ faulted' = faulted \cup Missed({pushes[i] : i \in DOMAIN pushes})
    /\ UNCHANGED <<server, chains, view, fetches, timers, posts>>

\* mutant: the selected group is fetched, whether there is one or not
Handles_AnyGroup(p) == Refetches(Subject(p.what.list, IF p.what.list = "members" THEN selected ELSE None))

\* The handlers given to connectRealtime.
Handles(p) ==
    IF Touched(p) = {} THEN UNCHANGED <<fetches, timers>> ELSE Refetches(p.what)

HandlePush ==
    /\ pushes # <<>>
    /\ Handles(Head(pushes))
    /\ pushes' = Tail(pushes)
    /\ UNCHANGED <<server, socket, chains, view, posts, faulted, spent>>

-----------------------------------------------------------------------------
(* Answers arrive.                                                          *)

Cancelled(s) == {t \in timers : t.slot # s}

\* mutant: whoever began while realtime had not started starts it
Started_TestedBefore(f) ==
    IF f # Idle /\ f.entry
    THEN socket' = "down" /\ chains' = chains + 1
    ELSE UNCHANGED <<socket, chains>>

\* enterMainApp goes on after its fetchGroups: realtime is started once.
Started(f) ==
    IF f # Idle /\ f.entry /\ socket = "unstarted"
    THEN socket' = "down" /\ chains' = chains + 1
    ELSE UNCHANGED <<socket, chains>>

\* An answer is rendered; it may be older than what is rendered already, and of
\* another group than the one that is selected now.
Renders(x, answer) ==
    LET fresh == answer.age = "fresh"
        stray == x.list = "members" /\ x.group # selected
        harmed == answer.age = "overtaken" \/ stray
    IN  /\ shown' = [shown EXCEPT ![x.list] =
                IF x = GroupList /\ answer.listed = {} THEN Nothing("empty")
                ELSE Rows(x, IF x = GroupList THEN answer.listed ELSE {}, fresh)]
        /\ faulted' = IF harmed THEN faulted \cup {x.list}
                      ELSE IF fresh THEN faulted \ {x.list} ELSE faulted

\* What a rendered answer tells of as it is now; older answers about it are overtaken.
RenderedFresh(answer, x) == IF answer.age = "fresh" THEN {x} ELSE {}

RenderAnswer(s) ==
    LET f == fetches[s] IN
    /\ f.at = "answered"
    /\ Renders(f.what, f)
    /\ timers' = Cancelled(s)
    /\ fetches' = [AgedFetches(RenderedFresh(f, f.what), "old", "overtaken")
                        EXCEPT ![s] = Idle]
    /\ posts' = AgedPosts(RenderedFresh(f, f.what), "old", "overtaken")
    /\ Started(f)
    /\ UNCHANGED <<server, pushes, screen, selected, spent>>

\* mutant: the spinner is cancelled only where rows are rendered
Fails_NotCancelled(s) ==
    LET f == fetches[s] IN
    /\ shown' = [shown EXCEPT ![f.what.list] = IF f.what = Profile THEN @ ELSE Nothing("error")]
    /\ UNCHANGED timers
    /\ fetches' = [fetches EXCEPT ![s] = Idle]
    /\ Started(f)

\* An error takes the place of the list; the profile is left as it was.
Fails(s) ==
    LET f == fetches[s] IN
    /\ shown' = [shown EXCEPT ![f.what.list] = IF f.what = Profile THEN @ ELSE Nothing("error")]
    /\ timers' = Cancelled(s)
    /\ fetches' = [fetches EXCEPT ![s] = Idle]
    /\ Started(f)

RenderError(s) ==
    /\ fetches[s].at = "failed"
    /\ Fails(s)
    /\ UNCHANGED <<server, pushes, screen, selected, posts, faulted, spent>>

\* No connection, or an error of the server: apiFetch always resolves.
LoseFetch(s) ==
    /\ Fault
    /\ fetches[s].at \in {"sent", "answered"}
    /\ Fails(s)
    /\ faulted' = faulted \cup {fetches[s].what.list}
    /\ UNCHANGED <<server, pushes, screen, selected, posts>>

\* The connection breaks in the body of an answer: the handler throws at
\* res.json(), and so does enterMainApp if it awaits it.
BreakAnswer(s) ==
    /\ Fault
    /\ fetches[s].at = "answered"
    /\ timers' = Cancelled(s)
    /\ fetches' = [fetches EXCEPT ![s] = Idle]
    /\ faulted' = faulted \cup {fetches[s].what.list}
    /\ UNCHANGED <<server, channel, view, posts>>

\* SLOW_FETCH_SPINNER_DELAY_MS have passed.
ShowSpinner(t) ==
    /\ t \in timers
    /\ timers' = timers \ {t}
    /\ shown' = [shown EXCEPT ![t.list] = Nothing("spinner")]
    /\ UNCHANGED <<server, channel, screen, selected, fetches, posts, faulted, spent>>

-----------------------------------------------------------------------------
(* Taps.                                                                    *)

\* The tab bar is hidden while a group is open; there is a button back.
SwitchTab(tab) ==
    /\ tab # screen
    /\ screen = "detail" => tab = "groups"
    /\ screen' = tab
    /\ UNCHANGED <<server, channel, selected, shown, fetches, timers, posts, faulted, spent>>

\* The list of members is emptied before it is fetched.
OpenGroupDetail(g) ==
    /\ Tap
    /\ screen = "groups"
    /\ HasRows("groups") /\ g \in shown["groups"].listed
    /\ screen' = "detail"
    /\ selected' = g
    /\ shown' = [shown EXCEPT !["members"] = Nothing("blank")]
    /\ Asks(fetches, Members(g), FALSE, FALSE)
    /\ UNCHANGED <<server, channel, posts, faulted>>

FreePosts == {k \in PostSlots : posts[k] = Idle}
NextPost == CHOOSE k \in FreePosts : TRUE

\* The buttons there is one of, disabled until their request has ended.  There is a
\* bin for each member, never disabled, and a button for each role.
SingleButtons == {"create", "add", "delete"}

\* The role buttons, which have a step of their own, are taken to be on the profile.
PressButton(b) ==
    /\ Tap
    /\ FreePosts # {}
    /\ b \in SingleButtons => \A k \in PostSlots : posts[k] # Idle => posts[k].button # b
    /\ screen = CASE b = "create" -> "groups" [] b = "role" -> "profile" [] OTHER -> "detail"
    /\ b = "remove" => HasRows("members")
    /\ posts' = [posts EXCEPT ![NextPost] =
            [at |-> "sent", button |-> b, age |-> "fresh",
             group |-> IF b \in {"create", "role"} THEN None ELSE selected]]
    /\ UNCHANGED <<server, channel, view, fetches, timers, faulted>>

\* The answer to a request that was performed is lost: no list is fetched.
LosePost(k) ==
    /\ Fault
    /\ posts[k].at = "done"
    /\ posts' = [posts EXCEPT ![k] = Idle]
    /\ faulted' = faulted \cup
            {CASE posts[k].button \in {"create", "delete"} -> "groups"
               [] posts[k].button = "role" -> "profile"
               [] OTHER -> "members"}
    /\ UNCHANGED <<server, channel, view, fetches, timers>>

\* mutant: left to the push that tells of the new group
CreateEnds_Unfetched == UNCHANGED <<screen, shown, fetches, timers, faulted>>

\* createGroup: the list of groups is fetched again.
CreateEnds ==
    /\ Refetches(GroupList)
    /\ UNCHANGED <<screen, shown, faulted>>

\* addClient and removeMember: the members of the group that is selected now.
MembersEnd ==
    /\ Refetches(Members(selected))
    /\ UNCHANGED <<screen, shown, faulted>>

\* deleteSelectedGroup: back to the list of groups, from wherever the user is.
DeleteEnds ==
    /\ screen' = "groups"
    /\ Refetches(GroupList)
    /\ UNCHANGED <<shown, faulted>>

\* selectRole, routeByProfile and enterMainApp with the profile of the answer.
RoleEnds(k) ==
    /\ screen' = "profile"
    /\ Renders(Profile, posts[k])
    /\ Asks(AgedFetches(RenderedFresh(posts[k], Profile), "old", "overtaken"),
            GroupList, HasRows("groups"), TRUE)

EndPost(k) ==
    LET post == posts[k] IN
    /\ post.at = "done"
    /\ CASE post.button = "create" -> CreateEnds
         [] post.button = "delete" -> DeleteEnds
         [] post.button = "role" -> RoleEnds(k)
         [] OTHER -> MembersEnd
    /\ posts' = [IF post.button = "role" THEN AgedPosts(RenderedFresh(post, Profile), "old", "overtaken")
                 ELSE posts EXCEPT ![k] = Idle]
    /\ UNCHANGED <<server, channel, selected, spent>>

-----------------------------------------------------------------------------
Taps ==
    \/ \E tab \in {"groups", "profile"} : SwitchTab(tab)
    \/ \E g \in Groups : OpenGroupDetail(g)
    \/ \E b \in Buttons : PressButton(b)

Faults ==
    \/ Disconnect
    \/ \E s \in Slots : LoseFetch(s) \/ BreakAnswer(s)
    \/ \E k \in PostSlots : LosePost(k)

\* What the browser, the network and the server bring to an end by themselves.
Proceeds ==
    \/ \E s \in Slots : Answers(s) \/ RenderAnswer(s) \/ RenderError(s)
    \/ \E k \in PostSlots : PerformPost(k) \/ RefusePost(k) \/ EndPost(k)
    \/ \E p \in owed : Send(p)
    \/ Connect
    \/ HandlePush
    \/ \E t \in timers : ShowSpinner(t)

Next ==
    \/ Taps
    \/ Faults
    \/ \E x \in Subjects : Changes(x)
    \/ Proceeds

Spec == Init /\ [][Next]_vars

-----------------------------------------------------------------------------
TypeOK ==
    /\ groups \in [Groups -> {"new", "in", "out"}]
    /\ owed \subseteq Pushed
    /\ socket \in {"unstarted", "down", "up"}
    /\ chains \in Nat
    /\ pushes \in Seq(Pushed)
    /\ screen \in {"groups", "detail", "profile"}
    /\ selected \in Groups \cup {None}
    /\ shown \in [Lists -> Faces]
    /\ fetches \in [Slots -> {Idle} \cup Fetches]
    /\ timers \subseteq [slot: Slots, list: Lists]
    /\ posts \in [PostSlots -> {Idle} \cup Posts]
    /\ faulted \subseteq Lists
    /\ spent \in [taps: Nat, changes: Nat, faults: Nat]

\* The subject a list should show; the members only of a group that is open and
\* that the user is still in.
Due(list) ==
    CASE list = "groups" -> {GroupList}
      [] list = "profile" -> {Profile}
      [] OTHER -> IF screen = "detail" /\ selected \in MyGroups THEN {Members(selected)} ELSE {}

Current(list) == HasRows(list) => shown[list].fresh /\ shown[list].what \in Due(list)
Stale(list) == Due(list) # {} /\ ~Current(list) /\ list \notin faulted

Quiet ==
    /\ \A s \in Slots : fetches[s] = Idle
    /\ \A k \in PostSlots : posts[k] = Idle
    /\ owed = {}
    /\ pushes = <<>>

\* When nothing is under way, rows on the screen are what the server would answer
\* now, unless a push by others was missed, an answer was lost or an older one came
\* in last.  What the user did himself needs no socket (realtime.js on the user's
\* own actions, "which still refetch directly regardless of this socket").
QuietScreenIsCurrent == Quiet => \A l \in Lists : ~Stale(l)

\* A spinner is never left behind: there is a fetch under way that will replace it
\* (mainApp.showSpinnerIfSlow).  It says nothing of a list that missed a push or lost
\* a request, where a stray or an overtaken answer came in last, or where the body of
\* an answer broke, which does leave a spinner.
SpinnersEnd ==
    \A l \in Lists :
        shown[l] = Nothing("spinner") /\ l \notin faulted =>
            \E s \in Slots : fetches[s] # Idle /\ fetches[s].what.list = l

\* enterMainApp: "the realtime socket must only ever be opened once per Mini App
\* session, not re-opened on every such return".
RealtimeStartsOnce == chains <= 1

-----------------------------------------------------------------------------
(* What the source says, and does not hold.                                 *)

\* openGroupDetail empties the list so that it never shows "the wrong group's
\* people under the new title".
RowsMatchTitle ==
    screen = "detail" /\ HasRows("members") => shown["members"].what = Members(selected)
=============================================================================
