---------------------------- MODULE MiniAppProofs ----------------------------
(***************************************************************************)
(* What holds of the Mini App's screens for any groups and any number of   *)
(* fetches, taps, changes and faults.                                      *)
(***************************************************************************)
EXTENDS MiniApp, TLAPS

USE MiniAppAssumption DEF Lists, Ages, Idle, RenderedFresh

Spent == [taps: Nat, changes: Nat, faults: Nat]

-----------------------------------------------------------------------------
(* Subjects, answers, requests and faces have their fields.                 *)

LEMMA SubjectFields ==
    ASSUME NEW x \in Subjects
    PROVE  /\ x.list \in Lists
           /\ x.list = "groups" <=> x = GroupList
           /\ x.list = "profile" <=> x = Profile
           /\ x.list = "members" => x.group \in Groups /\ x = Members(x.group)
  BY DEF Subjects, GroupList, Profile, Members, Subject

LEMMA SubjectsAre ==
    /\ GroupList \in Subjects /\ GroupList.list = "groups"
    /\ Profile \in Subjects /\ Profile.list = "profile"
    /\ \A g \in Groups : Members(g) \in Subjects /\ Members(g).list = "members" /\ Members(g).group = g
  BY DEF Subjects, GroupList, Profile, Members, Subject

LEMMA FetchFields ==
    ASSUME NEW f \in Fetches
    PROVE  /\ f.at \in {"sent", "answered", "failed"} /\ f # Idle
           /\ f.what \in Subjects /\ f.listed \subseteq Groups /\ f.age \in Ages /\ f.entry \in BOOLEAN
           /\ [f EXCEPT !.at = "failed"] \in Fetches
           /\ \A a \in Ages : [f EXCEPT !.age = a] \in Fetches
           /\ \A gs \in SUBSET Groups : [f EXCEPT !.at = "answered", !.listed = gs] \in Fetches
  <1>1. /\ f.at \in {"sent", "answered", "failed"} /\ f # Idle
        /\ f.what \in Subjects /\ f.listed \subseteq Groups /\ f.age \in Ages /\ f.entry \in BOOLEAN
    BY DEF Fetches
  <1>2. [f EXCEPT !.at = "failed"] \in Fetches
    BY DEF Fetches
  <1>3. ASSUME NEW a \in Ages PROVE [f EXCEPT !.age = a] \in Fetches
    BY DEF Fetches
  <1>4. ASSUME NEW gs \in SUBSET Groups PROVE [f EXCEPT !.at = "answered", !.listed = gs] \in Fetches
    BY DEF Fetches
  <1> QED
    BY <1>1, <1>2, <1>3, <1>4

LEMMA PostFields ==
    ASSUME NEW p \in Posts
    PROVE  /\ p.at \in {"sent", "done"} /\ p # Idle
           /\ p.button \in Buttons /\ p.group \in Groups \cup {None} /\ p.age \in Ages
           /\ \A a \in Ages : [p EXCEPT !.age = a] \in Posts
           /\ [p EXCEPT !.at = "done"] \in Posts
  BY DEF Posts

LEMMA FetchInUse ==
    ASSUME TypeOK, NEW s \in Slots, fetches[s] # Idle \/ fetches[s].at # "idle"
    PROVE  fetches[s] \in Fetches
  BY DEF TypeOK

LEMMA PostInUse ==
    ASSUME TypeOK, NEW k \in PostSlots, posts[k] # Idle \/ posts[k].at # "idle"
    PROVE  posts[k] \in Posts
  BY DEF TypeOK

LEMMA FacesAre ==
    /\ \A face \in {"blank", "spinner", "error", "empty"} :
            Nothing(face) \in Faces /\ Nothing(face).face = face
    /\ \A x \in Subjects, listed \in SUBSET Groups, fresh \in BOOLEAN :
            Rows(x, listed, fresh) \in Faces /\ Rows(x, listed, fresh).face = "rows"
  BY DEF Faces, Nothing, Rows

LEMMA RowFields ==
    ASSUME TypeOK, NEW l \in Lists, HasRows(l)
    PROVE  /\ shown[l].what \in Subjects /\ shown[l].listed \subseteq Groups /\ shown[l].fresh \in BOOLEAN
           /\ [shown[l] EXCEPT !.fresh = FALSE] \in Faces
           /\ [shown[l] EXCEPT !.fresh = FALSE].face = "rows"
           /\ [shown[l] EXCEPT !.fresh = FALSE].what = shown[l].what
           /\ [shown[l] EXCEPT !.fresh = FALSE].listed = shown[l].listed
           /\ [shown[l] EXCEPT !.fresh = FALSE].fresh = FALSE
  <1>1. shown[l] \in [face: {"rows"}, what: Subjects, listed: SUBSET Groups, fresh: BOOLEAN]
    BY DEF TypeOK, HasRows, Faces, Nothing
  <1>2. \A r \in [face: {"rows"}, what: Subjects, listed: SUBSET Groups, fresh: BOOLEAN] :
            /\ r.what \in Subjects /\ r.listed \subseteq Groups /\ r.fresh \in BOOLEAN
            /\ [r EXCEPT !.fresh = FALSE] \in [face: {"rows"}, what: Subjects, listed: SUBSET Groups, fresh: BOOLEAN]
            /\ [r EXCEPT !.fresh = FALSE].face = "rows"
            /\ [r EXCEPT !.fresh = FALSE].what = r.what
            /\ [r EXCEPT !.fresh = FALSE].listed = r.listed
            /\ [r EXCEPT !.fresh = FALSE].fresh = FALSE
    OBVIOUS
  <1> QED
    BY <1>1, <1>2 DEF Faces

\* An answer grows old and changes in nothing else.
LEMMA AgedFetch ==
    ASSUME NEW f \in Fetches, NEW from \in Ages, NEW to \in Ages
    PROVE  /\ Aged(f, from, to) \in Fetches
           /\ f.age # from => Aged(f, from, to) = f
           /\ f.age = from => Aged(f, from, to).age = to
           /\ Aged(f, from, to).at = f.at /\ Aged(f, from, to).what = f.what
           /\ Aged(f, from, to).listed = f.listed /\ Aged(f, from, to).entry = f.entry
  <1>1. f # Idle
    BY FetchFields
  <1>2. CASE f.age = from
    <2>1. Aged(f, from, to) = [f EXCEPT !.age = to]
      BY <1>1, <1>2 DEF Aged
    <2>2. [f EXCEPT !.age = to] \in Fetches
      BY FetchFields
    <2>3. /\ [f EXCEPT !.age = to].age = to
          /\ [f EXCEPT !.age = to].at = f.at /\ [f EXCEPT !.age = to].what = f.what
          /\ [f EXCEPT !.age = to].listed = f.listed /\ [f EXCEPT !.age = to].entry = f.entry
      BY DEF Fetches
    <2> QED
      BY <1>2, <2>1, <2>2, <2>3
  <1>3. CASE f.age # from
    BY <1>1, <1>3 DEF Aged
  <1> QED
    BY <1>2, <1>3

LEMMA AgedFetchesAre ==
    ASSUME TypeOK, NEW xs, NEW from \in Ages, NEW to \in Ages, NEW s \in Slots
    PROVE  /\ AgedFetches(xs, from, to)[s] \in {Idle} \cup Fetches
           /\ AgedFetches(xs, from, to)[s] = Idle <=> fetches[s] = Idle
           /\ fetches[s] # Idle =>
                /\ AgedFetches(xs, from, to)[s] \in Fetches
                /\ AgedFetches(xs, from, to)[s].at = fetches[s].at
                /\ AgedFetches(xs, from, to)[s].what = fetches[s].what
                /\ AgedFetches(xs, from, to)[s].listed = fetches[s].listed
                /\ AgedFetches(xs, from, to)[s].entry = fetches[s].entry
           /\ fetches[s].at = "answered" /\ fetches[s].what \in xs /\ fetches[s].age = from
                => AgedFetches(xs, from, to)[s].age = to
           /\ ~(fetches[s].at = "answered" /\ fetches[s].what \in xs /\ fetches[s].age = from)
                => AgedFetches(xs, from, to)[s] = fetches[s]
  <1>0. AgedFetches(xs, from, to)[s] = IF fetches[s].at = "answered" /\ fetches[s].what \in xs THEN Aged(fetches[s], from, to)
               ELSE fetches[s]
    BY DEF AgedFetches
  <1>1. CASE fetches[s] = Idle
    <2>1. fetches[s].at # "answered"
      BY <1>1
    <2> QED
      BY <1>0, <1>1, <2>1
  <1>2. CASE fetches[s] \in Fetches
    <2>1. fetches[s] # Idle
      BY <1>2, FetchFields
    <2> DEFINE a == Aged(fetches[s], from, to)
    <2>2. /\ a \in Fetches
          /\ fetches[s].age # from => a = fetches[s]
          /\ fetches[s].age = from => a.age = to
          /\ a.at = fetches[s].at /\ a.what = fetches[s].what
          /\ a.listed = fetches[s].listed /\ a.entry = fetches[s].entry
      BY <1>2, AgedFetch
    <2>3. a # Idle
      BY <2>2, FetchFields
    <2>4. CASE fetches[s].at = "answered" /\ fetches[s].what \in xs
      <3>1. AgedFetches(xs, from, to)[s] = a
        BY <1>0, <2>4
      <3> HIDE DEF a
      <3> QED
        BY <2>1, <2>2, <2>3, <2>4, <3>1
    <2>5. CASE ~(fetches[s].at = "answered" /\ fetches[s].what \in xs)
      BY <1>0, <1>2, <2>1, <2>5
    <2> QED
      BY <2>4, <2>5
  <1>3. fetches[s] \in {Idle} \cup Fetches
    BY DEF TypeOK
  <1> QED
    BY <1>1, <1>2, <1>3

LEMMA AgedFetchesType ==
    ASSUME TypeOK, NEW xs, NEW from \in Ages, NEW to \in Ages
    PROVE  AgedFetches(xs, from, to) \in [Slots -> {Idle} \cup Fetches]
  <1> DEFINE F == AgedFetches(xs, from, to)
  <1>1. F = [s \in Slots |-> F[s]]
    BY DEF AgedFetches
  <1>2. \A s \in Slots : F[s] \in {Idle} \cup Fetches
    BY AgedFetchesAre
  <1> HIDE DEF F
  <1>3. F \in [Slots -> {Idle} \cup Fetches]
    BY <1>1, <1>2
  <1> QED
    BY <1>3 DEF F

LEMMA AgedPostsAre ==
    ASSUME TypeOK, NEW xs, NEW from \in Ages, NEW to \in Ages, NEW k \in PostSlots
    PROVE  LET post == posts[k]
               aged == AgedPosts(xs, from, to)[k]
           IN
           /\ aged \in {Idle} \cup Posts
           /\ aged = Idle <=> post = Idle
           /\ post # Idle => aged.at = post.at /\ aged.button = post.button /\ aged.group = post.group
           /\ post.at = "done" /\ post.button = "role" /\ Profile \in xs /\ post.age = from => aged.age = to
           /\ ~(post.at = "done" /\ post.button = "role" /\ Profile \in xs /\ post.age = from) => aged = post
  <1>0. PICK post : post = posts[k]
    OBVIOUS
  <1>1. PICK aged : /\ aged = AgedPosts(xs, from, to)[k]
                    /\ aged = IF post.at = "done" /\ post.button = "role" /\ Profile \in xs
                              THEN Aged(post, from, to) ELSE post
    BY <1>0 DEF AgedPosts
  <1>2. post \in {Idle} \cup Posts
    BY <1>0 DEF TypeOK
  <1> SUFFICES
           /\ aged \in {Idle} \cup Posts
           /\ aged = Idle <=> post = Idle
           /\ post # Idle => aged.at = post.at /\ aged.button = post.button /\ aged.group = post.group
           /\ post.at = "done" /\ post.button = "role" /\ Profile \in xs /\ post.age = from => aged.age = to
           /\ ~(post.at = "done" /\ post.button = "role" /\ Profile \in xs /\ post.age = from) => aged = post
    BY <1>0, <1>1
  <1>3. CASE post = Idle
    BY <1>1, <1>3
  <1>4. CASE post \in Posts
    <2>1. post # Idle /\ [post EXCEPT !.age = to] \in Posts /\ [post EXCEPT !.age = to] # Idle
      BY <1>4, PostFields
    <2>2. /\ [post EXCEPT !.age = to].age = to /\ [post EXCEPT !.age = to].at = post.at
          /\ [post EXCEPT !.age = to].button = post.button /\ [post EXCEPT !.age = to].group = post.group
      BY <1>4 DEF Posts
    <2> QED
      BY <1>1, <1>4, <2>1, <2>2 DEF Aged
  <1> QED
    BY <1>2, <1>3, <1>4

LEMMA AgedPostsType ==
    ASSUME TypeOK, NEW xs, NEW from \in Ages, NEW to \in Ages
    PROVE  AgedPosts(xs, from, to) \in [PostSlots -> {Idle} \cup Posts]
  <1> DEFINE P == AgedPosts(xs, from, to)
  <1>1. P = [k \in PostSlots |-> P[k]]
    BY DEF AgedPosts
  <1>2. \A k \in PostSlots : P[k] \in {Idle} \cup Posts
    BY AgedPostsAre
  <1> HIDE DEF P
  <1>3. P \in [PostSlots -> {Idle} \cup Posts]
    BY <1>1, <1>2
  <1> QED
    BY <1>3 DEF P

\* No request of a button is new.
PostsKept ==
    /\ posts' \in [PostSlots -> {Idle} \cup Posts]
    /\ \A k \in PostSlots : posts'[k] # Idle =>
            posts[k] # Idle /\ posts'[k].button = posts[k].button /\ posts'[k].group = posts[k].group

LEMMA AgedPostsKept ==
    ASSUME TypeOK, NEW xs, NEW from \in Ages, NEW to \in Ages,
           \/ posts' = AgedPosts(xs, from, to)
           \/ \E k \in PostSlots : posts' = [AgedPosts(xs, from, to) EXCEPT ![k] = Idle]
    PROVE  PostsKept
  <1> DEFINE P == AgedPosts(xs, from, to)
  <1>1. P \in [PostSlots -> {Idle} \cup Posts]
    BY AgedPostsType
  <1>2. \A k \in PostSlots : P[k] # Idle =>
            posts[k] # Idle /\ P[k].button = posts[k].button /\ P[k].group = posts[k].group
    BY AgedPostsAre
  <1>3. posts' = P \/ \E k \in PostSlots : posts' = [P EXCEPT ![k] = Idle]
    OBVIOUS
  <1> HIDE DEF P
  <1> QED
    BY <1>1, <1>2, <1>3 DEF PostsKept

LEMMA EndedPostsKept ==
    ASSUME TypeOK, NEW k \in PostSlots, posts' = [posts EXCEPT ![k] = Idle]
    PROVE  PostsKept
  BY DEF PostsKept, TypeOK

-----------------------------------------------------------------------------
(* What the steps that many actions share do.                               *)

Sent(x, entry) == [at |-> "sent", what |-> x, listed |-> {}, age |-> "fresh", entry |-> entry]

LEMMA SentFields ==
    ASSUME NEW x \in Subjects, NEW entry \in BOOLEAN
    PROVE  /\ Sent(x, entry) \in Fetches /\ Sent(x, entry) # Idle /\ Sent(x, entry).at = "sent" /\ Sent(x, entry).what = x
           /\ Sent(x, entry).listed = {} /\ Sent(x, entry).age = "fresh"
  BY DEF Sent, Fetches

LEMMA AsksDoes ==
    ASSUME TypeOK, NEW others \in [Slots -> {Idle} \cup Fetches], NEW x \in Subjects,
           NEW entry \in BOOLEAN,
           FreeSlots # {},
           fetches' = [others EXCEPT ![NextSlot] = Sent(x, entry)],
           timers' = timers \/ timers' = timers \cup {[slot |-> NextSlot, list |-> x.list]},
           x.list = "profile" => timers' = timers
    PROVE  \E n \in Slots :
             /\ fetches[n] = Idle
             /\ fetches' \in [Slots -> {Idle} \cup Fetches]
             /\ fetches'[n] = Sent(x, entry)
             /\ \A s \in Slots \ {n} : fetches'[s] = others[s]
             /\ timers' \subseteq timers \cup {[slot |-> n, list |-> x.list]}
             /\ timers' \subseteq [slot: Slots, list: Lists]
             /\ x.list = "profile" => timers' = timers
  <1>1. NextSlot \in Slots /\ fetches[NextSlot] = Idle
    BY DEF NextSlot, FreeSlots
  <1>2. Sent(x, entry) \in Fetches /\ x.list \in Lists
    BY SentFields, SubjectFields
  <1>3. timers' \subseteq timers \cup {[slot |-> NextSlot, list |-> x.list]}
    OBVIOUS
  <1>4. timers' \subseteq [slot: Slots, list: Lists]
    BY <1>1, <1>2, <1>3 DEF TypeOK
  <1> HIDE DEF NextSlot
  <1> QED
    BY <1>1, <1>2, <1>3, <1>4

LEMMA OutdatesDoes ==
    ASSUME TypeOK, NEW x \in Subjects, Outdates(x)
    PROVE  /\ shown' \in [Lists -> Faces]
           /\ \A l \in Lists :
                /\ shown'[l].face = shown[l].face
                /\ ~HasRows(l) => shown'[l] = shown[l]
                /\ HasRows(l) => /\ shown'[l].what = shown[l].what /\ shown'[l].listed = shown[l].listed
                                 /\ shown[l].what # x => shown'[l] = shown[l]
           /\ fetches' = AgedFetches({x}, "fresh", "old")
           /\ fetches' \in [Slots -> {Idle} \cup Fetches]
  <1>1. \A l \in Lists : shown'[l] =
            IF HasRows(l) /\ shown[l].what = x THEN [shown[l] EXCEPT !.fresh = FALSE] ELSE shown[l]
    BY DEF Outdates
  <1>2. \A l \in Lists : shown[l] \in Faces
    BY DEF TypeOK
  <1>3. \A l \in Lists : shown'[l] \in Faces
    BY <1>1, <1>2, RowFields
  <1>4. shown' = [l \in Lists |-> shown'[l]]
    BY DEF Outdates
  <1>5. shown' \in [Lists -> Faces]
    BY <1>3, <1>4
  <1>6. ASSUME NEW l \in Lists
        PROVE  /\ shown'[l].face = shown[l].face
               /\ ~HasRows(l) => shown'[l] = shown[l]
               /\ HasRows(l) => /\ shown'[l].what = shown[l].what /\ shown'[l].listed = shown[l].listed
                                /\ shown[l].what # x => shown'[l] = shown[l]
    <2>1. CASE HasRows(l) /\ shown[l].what = x
      <3>1. shown'[l] = [shown[l] EXCEPT !.fresh = FALSE] /\ shown[l].face = "rows"
        BY <1>1, <2>1 DEF HasRows
      <3> QED
        BY <2>1, <3>1, RowFields
    <2>2. CASE ~(HasRows(l) /\ shown[l].what = x)
      BY <1>1, <2>2
    <2> QED
      BY <2>1, <2>2
  <1>7. fetches' = AgedFetches({x}, "fresh", "old")
    BY DEF Outdates
  <1>8. AgedFetches({x}, "fresh", "old") \in [Slots -> {Idle} \cup Fetches]
    BY AgedFetchesType
  <1> QED
    BY <1>5, <1>6, <1>7, <1>8

LEMMA RendersDoes ==
    ASSUME TypeOK, NEW x \in Subjects, NEW answer, answer.age \in Ages,
           x = GroupList => answer.listed \subseteq Groups, Renders(x, answer)
    PROVE  /\ shown' \in [Lists -> Faces]
           /\ \A l \in Lists \ {x.list} : shown'[l] = shown[l]
           /\ \/ x = GroupList /\ shown'[x.list] = Nothing("empty")
              \/ /\ shown'[x.list].face = "rows" /\ shown'[x.list].what = x
                 /\ shown'[x.list].listed \subseteq (IF x = GroupList THEN answer.listed ELSE {})
                 /\ shown'[x.list].fresh = (answer.age = "fresh")
           /\ faulted' \subseteq Lists
           /\ faulted \ {x.list} \subseteq faulted' /\ faulted' \subseteq faulted \cup {x.list}
           /\ answer.age = "overtaken" \/ (x.list = "members" /\ x.group # selected) => x.list \in faulted'
           /\ answer.age = "old" /\ x.list \in faulted => x.list \in faulted'
  <1> DEFINE listed == IF x = GroupList THEN answer.listed ELSE {}
             fresh == answer.age = "fresh"
             face == IF x = GroupList /\ answer.listed = {} THEN Nothing("empty") ELSE Rows(x, listed, fresh)
  <1>1. listed \subseteq Groups /\ fresh \in BOOLEAN /\ x.list \in Lists
    BY SubjectFields
  <1>2. shown' = [shown EXCEPT ![x.list] = face]
    BY DEF Renders
  <1>3. Rows(x, listed, fresh) \in Faces /\ Nothing("empty") \in Faces
    BY <1>1, FacesAre
  <1>4. /\ Rows(x, listed, fresh).face = "rows" /\ Rows(x, listed, fresh).what = x
        /\ Rows(x, listed, fresh).listed = listed /\ Rows(x, listed, fresh).fresh = fresh
    BY DEF Rows
  <1>5. face \in Faces
    BY <1>3
  <1>6. shown \in [Lists -> Faces]
    BY DEF TypeOK
  <1>7. /\ shown' \in [Lists -> Faces] /\ shown'[x.list] = face
        /\ \A l \in Lists \ {x.list} : shown'[l] = shown[l]
    <2> HIDE DEF face
    <2> QED
      BY <1>1, <1>2, <1>5, <1>6
  <1>8. \/ x = GroupList /\ face = Nothing("empty")
        \/ face.face = "rows" /\ face.what = x /\ face.listed \subseteq listed /\ face.fresh = fresh
    <2> HIDE DEF listed, fresh
    <2> QED
      BY <1>4
  <1>9. /\ faulted' \subseteq Lists
        /\ faulted \ {x.list} \subseteq faulted' /\ faulted' \subseteq faulted \cup {x.list}
        /\ answer.age = "overtaken" \/ (x.list = "members" /\ x.group # selected) => x.list \in faulted'
        /\ answer.age = "old" /\ x.list \in faulted => x.list \in faulted'
    BY <1>1 DEF Renders, TypeOK
  <1> QED
    BY <1>7, <1>8, <1>9

LEMMA FailsDoes ==
    ASSUME TypeOK, NEW s \in Slots, fetches[s] \in Fetches, Fails(s)
    PROVE  /\ shown' \in [Lists -> Faces]
           /\ \A l \in Lists : shown'[l] = shown[l] \/ (l = fetches[s].what.list /\ shown'[l] = Nothing("error"))
           /\ fetches[s].what # Profile => shown'[fetches[s].what.list] = Nothing("error")
           /\ timers' = Cancelled(s)
           /\ fetches' \in [Slots -> {Idle} \cup Fetches]
           /\ fetches' = [fetches EXCEPT ![s] = Idle]
           /\ Started(fetches[s])
  <1>1. fetches[s].what.list \in Lists
    BY FetchFields, SubjectFields
  <1>2. Nothing("error") \in Faces
    BY FacesAre
  <1> QED
    BY <1>1, <1>2 DEF Fails, TypeOK

LEMMA StartedType ==
    ASSUME TypeOK, NEW f, Started(f)
    PROVE  socket' \in {"unstarted", "down", "up"} /\ chains' \in Nat
  BY DEF Started, TypeOK

LEMMA SpendsType ==
    ASSUME TypeOK, NEW what \in {"taps", "changes", "faults"}, NEW limit, Spends(what, limit)
    PROVE  spent' \in Spent
  <1>1. spent \in Spent
    BY DEF TypeOK, Spent
  <1>2. \A n \in Nat : /\ [spent EXCEPT !["taps"] = n] \in Spent
                       /\ [spent EXCEPT !["changes"] = n] \in Spent
                       /\ [spent EXCEPT !["faults"] = n] \in Spent
    BY <1>1 DEF Spent
  <1>3. spent[what] \in Nat /\ spent[what] + 1 \in Nat
    BY <1>1 DEF Spent
  <1>4. spent' = [spent EXCEPT ![what] = spent[what] + 1]
    BY DEF Spends
  <1> HIDE DEF Spent
  <1>5. CASE what = "taps"
    BY <1>2, <1>3, <1>4, <1>5
  <1>6. CASE what = "changes"
    BY <1>2, <1>3, <1>4, <1>6
  <1>7. CASE what = "faults"
    BY <1>2, <1>3, <1>4, <1>7
  <1> QED
    BY <1>5, <1>6, <1>7

LEMMA RefetchesDoes ==
    ASSUME TypeOK, NEW x \in Subjects, Refetches(x)
    PROVE  \E n \in Slots :
             /\ fetches[n] = Idle
             /\ fetches' \in [Slots -> {Idle} \cup Fetches]
             /\ fetches'[n] = Sent(x, FALSE)
             /\ \A s \in Slots \ {n} : fetches'[s] = fetches[s]
             /\ timers' \subseteq timers \cup {[slot |-> n, list |-> x.list]}
             /\ timers' \subseteq [slot: Slots, list: Lists]
             /\ x.list = "profile" => timers' = timers
  <1>1. fetches \in [Slots -> {Idle} \cup Fetches]
    BY DEF TypeOK
  <1>2. /\ FreeSlots # {}
        /\ fetches' = [fetches EXCEPT ![NextSlot] = Sent(x, FALSE)]
        /\ timers' = timers \/ timers' = timers \cup {[slot |-> NextSlot, list |-> x.list]}
        /\ x.list = "profile" => timers' = timers
    BY DEF Refetches, Asks, Sent
  <1> QED
    BY <1>1, <1>2, AsksDoes

\* What the server does to the requests of the buttons when it performs one of them.
PostsPerformed(k, x) == posts' = [AgedPosts({x}, "fresh", "old") EXCEPT ![k].at = "done"]

LEMMA PerformedPosts ==
    ASSUME TypeOK, NEW k \in PostSlots, posts[k] \in Posts, posts[k].at = "sent", NEW x,
           PostsPerformed(k, x)
    PROVE  /\ PostsKept
           /\ posts'[k].at = "done" /\ posts'[k].button = posts[k].button
           /\ posts'[k].group = posts[k].group /\ posts'[k].age = posts[k].age
           /\ \A j \in PostSlots \ {k} : posts'[j] = AgedPosts({x}, "fresh", "old")[j]
  <1> DEFINE P == AgedPosts({x}, "fresh", "old")
  <1>1. P \in [PostSlots -> {Idle} \cup Posts]
    BY AgedPostsType
  <1>2. /\ P[k] = posts[k]
        /\ \A j \in PostSlots : P[j] # Idle =>
               posts[j] # Idle /\ P[j].button = posts[j].button /\ P[j].group = posts[j].group
    BY AgedPostsAre
  <1>3. posts' = [P EXCEPT ![k].at = "done"]
    BY DEF PostsPerformed
  <1>4. [posts[k] EXCEPT !.at = "done"] \in Posts /\ posts[k] # Idle
    BY PostFields
  <1> HIDE DEF P
  <1>5. posts' = [P EXCEPT ![k] = [posts[k] EXCEPT !.at = "done"]]
    BY <1>1, <1>2, <1>3
  <1>6. PICK q : q = [posts[k] EXCEPT !.at = "done"]
    OBVIOUS
  <1>7. q \in Posts /\ q.at = "done" /\ q.button = posts[k].button /\ q.group = posts[k].group /\ q.age = posts[k].age
    BY <1>4, <1>6 DEF Posts
  <1>8. posts'[k] = q /\ \A j \in PostSlots \ {k} : posts'[j] = P[j]
    BY <1>1, <1>5, <1>6
  <1>9. posts' \in [PostSlots -> {Idle} \cup Posts]
    BY <1>1, <1>5, <1>6, <1>7
  <1>10. PostsKept
    BY <1>2, <1>4, <1>7, <1>8, <1>9 DEF PostsKept
  <1> QED
    BY <1>6, <1>7, <1>8, <1>10 DEF P

\* What is typed when nothing has failed: the screens know which group they are about.
Chosen ==
    /\ screen = "detail" => selected # None
    /\ \A k \in PostSlots : posts[k] # Idle /\ posts[k].button \in {"add", "remove", "delete"} =>
            selected # None /\ posts[k].group \in Groups

TypeInv == TypeOK /\ Chosen

LEMMA PushedIs ==
    ASSUME NEW x \in Subjects, NEW own \in BOOLEAN
    PROVE  [what |-> x, own |-> own] \in Pushed
  BY DEF Pushed

\* The parts of TypeOK that a step looks at by themselves.
LEMMA Parts ==
    ASSUME TypeOK
    PROVE  /\ groups \in [Groups -> {"new", "in", "out"}]
           /\ owed \subseteq Pushed
           /\ pushes \in Seq(Pushed)
           /\ faulted \subseteq Lists
           /\ shown \in [Lists -> Faces]
           /\ fetches \in [Slots -> {Idle} \cup Fetches]
           /\ timers \subseteq [slot: Slots, list: Lists]
  BY DEF TypeOK

LEMMA MembershipType ==
    ASSUME groups \in [Groups -> {"new", "in", "out"}], NEW g \in Groups, NEW from,
           NEW to \in {"new", "in", "out"}, Membership(g, from, to)
    PROVE  groups' \in [Groups -> {"new", "in", "out"}]
  BY DEF Membership

LEMMA ServerType ==
    ASSUME TypeInv, NEW x \in Subjects, Changes(x)
    PROVE  TypeInv'
  <1> USE DEF TypeInv
  <1>1. groups' \in [Groups -> {"new", "in", "out"}]
    BY Parts, MembershipType DEF Changes
  <1>2. owed' \subseteq Pushed
    BY Parts, PushedIs DEF Changes
  <1>3. shown' \in [Lists -> Faces] /\ fetches' \in [Slots -> {Idle} \cup Fetches]
    BY OutdatesDoes DEF Changes
  <1>4. PostsKept
    BY AgedPostsKept DEF Changes
  <1>5. spent' \in Spent
    BY SpendsType DEF Changes
  <1> QED
    BY <1>1, <1>2, <1>3, <1>4, <1>5 DEF Changes, PostsKept, channel, TypeOK, Chosen, Spent

LEMMA PerformType ==
    ASSUME TypeInv, NEW k \in PostSlots, PerformPost(k)
    PROVE  TypeInv'
  <1> USE DEF TypeInv
  <1>1. posts[k] \in Posts /\ posts[k].at = "sent"
    BY PostInUse DEF PerformPost
  <1>3. groups' \in [Groups -> {"new", "in", "out"}]
    <2>1. posts[k].button = "delete" => posts[k].group \in Groups
      BY <1>1, PostFields DEF Chosen
    <2> QED
      BY <2>1, Parts, MembershipType DEF PerformPost
  <1>4. PICK x \in Subjects : Performs(k, x)
    <2>1. posts[k].button \in {"add", "remove"} => Members(posts[k].group) \in Subjects
      BY <1>1, PostFields, SubjectsAre DEF Chosen
    <2> QED
      BY <2>1, SubjectsAre DEF PerformPost
  <1>2. PostsKept
    <2>1. PostsPerformed(k, x)
      BY <1>4 DEF Performs, PostsPerformed
    <2> QED
      BY <1>1, <2>1, PerformedPosts
  <1>5. shown' \in [Lists -> Faces] /\ fetches' \in [Slots -> {Idle} \cup Fetches]
    BY <1>4, OutdatesDoes DEF Performs
  <1>6. owed' \subseteq Pushed
    BY <1>4, Parts, PushedIs DEF Performs
  <1> QED
    BY <1>2, <1>3, <1>4, <1>5, <1>6 DEF Performs, PostsKept, channel, TypeOK, Chosen

LEMMA ChannelType ==
    ASSUME TypeInv, (\E p \in owed : Send(p)) \/ Connect \/ Disconnect \/ HandlePush
    PROVE  TypeInv'
  <1> USE DEF TypeInv
  <1>1. \A ps \in SUBSET Pushed : Missed(ps) \subseteq Lists
    BY SubjectFields DEF Missed, Touched, Pushed
  <1>2. \A i \in DOMAIN pushes : pushes[i] \in Pushed
    BY DEF TypeOK
  <1>3. ASSUME NEW p \in owed, Send(p) PROVE TypeInv'
    <2>1. p \in Pushed
      BY DEF TypeOK
    <2>2. pushes' \in Seq(Pushed) /\ faulted' \subseteq Lists
      <3>1. {p} \in SUBSET Pushed /\ Append(pushes, p) \in Seq(Pushed)
        BY <2>1, Parts
      <3>2. Missed({p}) \subseteq Lists
        BY <1>1, <3>1
      <3> QED
        BY <1>3, <3>1, <3>2, Parts DEF Send
    <2> QED
      BY <1>3, <2>2 DEF Send, view, TypeOK, Chosen
  <1>4. CASE Connect
    BY <1>4 DEF Connect, server, view, TypeOK, Chosen
  <1>5. CASE Disconnect
    <2>1. faulted' \subseteq Lists
      <3>1. {pushes[i] : i \in DOMAIN pushes} \in SUBSET Pushed
        BY <1>2
      <3> QED
        BY <1>1, <1>5, <3>1, Parts DEF Disconnect
    <2>2. spent' \in Spent
      BY <1>5, SpendsType DEF Disconnect, Fault
    <2>3. pushes' \in Seq(Pushed)
      BY <1>5 DEF Disconnect
    <2> QED
      BY <1>5, <2>1, <2>2, <2>3 DEF Disconnect, server, view, TypeOK, Chosen, Spent
  <1>6. CASE HandlePush
    <2>1. Head(pushes) \in Pushed /\ pushes' \in Seq(Pushed)
      BY <1>6 DEF HandlePush, TypeOK
    <2>2. Head(pushes).what \in Subjects
      BY <2>1 DEF Pushed
    <2>3. fetches' \in [Slots -> {Idle} \cup Fetches] /\ timers' \subseteq [slot: Slots, list: Lists]
      BY <1>6, <2>2, RefetchesDoes DEF HandlePush, Handles, TypeOK
    <2> QED
      BY <1>6, <2>1, <2>3 DEF HandlePush, server, view, TypeOK, Chosen
  <1> QED
    BY <1>3, <1>4, <1>5, <1>6

LEMMA AnswersType ==
    ASSUME TypeInv, NEW s \in Slots, Answers(s)
    PROVE  TypeInv'
  <1> USE DEF TypeInv
  <1>1. fetches[s] \in Fetches
    BY FetchInUse DEF Answers
  <1>2. \E f \in Fetches : fetches' = [fetches EXCEPT ![s] = f]
    <2>1. MyGroups \in SUBSET Groups /\ {} \in SUBSET Groups
      BY DEF MyGroups
    <2> QED
      BY <1>1, <2>1, FetchFields DEF Answers
  <1>3. fetches' \in [Slots -> {Idle} \cup Fetches]
    BY <1>2, Parts
  <1> QED
    BY <1>3 DEF Answers, server, channel, view, TypeOK, Chosen

LEMMA RenderAnswerType ==
    ASSUME TypeInv, NEW s \in Slots, RenderAnswer(s)
    PROVE  TypeInv'
  <1> USE DEF TypeInv
  <1>1. fetches[s] \in Fetches
    BY FetchInUse DEF RenderAnswer
  <1>2. shown' \in [Lists -> Faces] /\ faulted' \subseteq Lists
    <2>1. Renders(fetches[s].what, fetches[s])
      BY DEF RenderAnswer
    <2>2. fetches[s].what \in Subjects /\ fetches[s].listed \subseteq Groups /\ fetches[s].age \in Ages
      BY <1>1, FetchFields
    <2> QED
      BY <2>1, <2>2, RendersDoes
  <1>3. fetches' \in [Slots -> {Idle} \cup Fetches]
    <2> DEFINE xs == RenderedFresh(fetches[s], fetches[s].what)
    <2>1. fetches' = [AgedFetches(xs, "old", "overtaken") EXCEPT ![s] = Idle]
      BY DEF RenderAnswer
    <2> HIDE DEF xs
    <2>2. AgedFetches(xs, "old", "overtaken") \in [Slots -> {Idle} \cup Fetches]
      BY AgedFetchesType
    <2> QED
      BY <2>1, <2>2
  <1>4. PostsKept
    BY AgedPostsKept DEF RenderAnswer
  <1>5. timers' \subseteq [slot: Slots, list: Lists]
    BY Parts DEF RenderAnswer, Cancelled
  <1>6. socket' \in {"unstarted", "down", "up"} /\ chains' \in Nat
    BY StartedType DEF RenderAnswer
  <1> QED
    BY <1>2, <1>3, <1>4, <1>5, <1>6 DEF RenderAnswer, PostsKept, server, TypeOK, Chosen

LEMMA FailureType ==
    ASSUME TypeInv, NEW s \in Slots, RenderError(s) \/ LoseFetch(s) \/ BreakAnswer(s)
    PROVE  TypeInv'
  <1> USE DEF TypeInv
  <1>1. fetches[s] \in Fetches
    BY FetchInUse DEF RenderError, LoseFetch, BreakAnswer
  <1>2. fetches[s].what.list \in Lists
    BY <1>1, FetchFields, SubjectFields
  <1>3. Cancelled(s) \subseteq [slot: Slots, list: Lists]
    BY Parts DEF Cancelled
  <1>4. spent' \in Spent
    <2>1. spent \in Spent
      BY DEF TypeOK, Spent
    <2> QED
      BY <2>1, SpendsType DEF RenderError, LoseFetch, BreakAnswer, Fault
  <1>5. CASE RenderError(s) \/ LoseFetch(s)
    <2>1. Fails(s)
      BY <1>5 DEF RenderError, LoseFetch
    <2>2. /\ shown' \in [Lists -> Faces] /\ fetches' \in [Slots -> {Idle} \cup Fetches]
          /\ timers' = Cancelled(s) /\ Started(fetches[s])
      BY <1>1, <2>1, FailsDoes
    <2>3. socket' \in {"unstarted", "down", "up"} /\ chains' \in Nat
      BY <2>2, StartedType
    <2>4. faulted' \subseteq Lists
      BY <1>2, <1>5, Parts DEF RenderError, LoseFetch
    <2> QED
      BY <1>3, <1>4, <1>5, <2>2, <2>3, <2>4
      DEF RenderError, LoseFetch, server, TypeOK, Chosen, Spent
  <1>6. CASE BreakAnswer(s)
    <2>1. faulted' \subseteq Lists /\ fetches' \in [Slots -> {Idle} \cup Fetches]
      BY <1>2, <1>6, Parts DEF BreakAnswer
    <2> QED
      BY <1>3, <1>4, <1>6, <2>1 DEF BreakAnswer, server, channel, view, TypeOK, Chosen, Spent
  <1> QED
    BY <1>5, <1>6

LEMMA UserType ==
    ASSUME TypeInv,
           \/ \E t \in timers : ShowSpinner(t)
           \/ \E tab \in {"groups", "profile"} : SwitchTab(tab)
           \/ \E b \in Buttons : PressButton(b)
           \/ \E k \in PostSlots : RefusePost(k) \/ LosePost(k)
    PROVE  TypeInv'
  <1> USE DEF TypeInv
  <1>1. ASSUME NEW t \in timers, ShowSpinner(t) PROVE TypeInv'
    <2>1. t \in [slot: Slots, list: Lists]
      BY Parts
    <2>2. t.list \in Lists /\ Nothing("spinner") \in Faces
      BY <2>1, FacesAre
    <2>3. shown' \in [Lists -> Faces] /\ timers' \subseteq [slot: Slots, list: Lists]
      BY <1>1, <2>2, Parts DEF ShowSpinner
    <2> QED
      BY <1>1, <2>3 DEF ShowSpinner, server, channel, TypeOK, Chosen
  <1>2. ASSUME NEW tab \in {"groups", "profile"}, SwitchTab(tab) PROVE TypeInv'
    BY <1>2 DEF SwitchTab, server, channel, TypeOK, Chosen
  <1>3. ASSUME NEW b \in Buttons, PressButton(b) PROVE TypeInv'
    <2> DEFINE p == [at |-> "sent", button |-> b, age |-> "fresh",
                     group |-> IF b \in {"create", "role"} THEN None ELSE selected]
    <2>1. /\ posts' = [posts EXCEPT ![NextPost] = p]
          /\ screen = CASE b = "create" -> "groups" [] b = "role" -> "profile" [] OTHER -> "detail"
      BY <1>3 DEF PressButton
    <2>2. p \in Posts /\ p.button = b
      BY DEF Posts, TypeOK
    <2>3. b \in {"add", "remove", "delete"} => selected # None /\ p.group \in Groups
      <3> SUFFICES ASSUME b \in {"add", "remove", "delete"}
                   PROVE  selected # None /\ p.group \in Groups
        OBVIOUS
      <3>1. screen = "detail" /\ p.group = selected
        BY <2>1
      <3> QED
        BY <3>1 DEF Chosen, TypeOK
    <2> HIDE DEF p
    <2>5. NextPost \in PostSlots
      BY <1>3 DEF PressButton, NextPost, FreePosts
    <2>6. /\ posts' \in [PostSlots -> {Idle} \cup Posts]
          /\ \A k \in PostSlots : posts'[k] = p \/ posts'[k] = posts[k]
      BY <2>1, <2>2, <2>5 DEF TypeOK
    <2>4. spent' \in Spent
      BY <1>3, SpendsType DEF PressButton, Tap
    <2> QED
      BY <1>3, <2>2, <2>3, <2>4, <2>6 DEF PressButton, server, channel, view, TypeOK, Chosen, Spent
  <1>4. ASSUME NEW k \in PostSlots, RefusePost(k) PROVE TypeInv'
    <2>1. PostsKept
      BY <1>4, EndedPostsKept DEF RefusePost
    <2> QED
      BY <1>4, <2>1 DEF RefusePost, PostsKept, server, channel, view, TypeOK, Chosen
  <1>5. ASSUME NEW k \in PostSlots, LosePost(k) PROVE TypeInv'
    <2>1. faulted' \subseteq Lists
      BY <1>5, Parts DEF LosePost
    <2>2. spent' \in Spent
      BY <1>5, SpendsType DEF LosePost, Fault
    <2>3. PostsKept
      BY <1>5, EndedPostsKept DEF LosePost
    <2> QED
      BY <1>5, <2>1, <2>2, <2>3 DEF LosePost, PostsKept, server, channel, view, TypeOK, Chosen, Spent
  <1> QED
    BY <1>1, <1>2, <1>3, <1>4, <1>5

LEMMA OpenGroupDetailDoes ==
    ASSUME TypeOK, NEW g \in Groups, OpenGroupDetail(g)
    PROVE  \E n \in Slots :
             /\ fetches[n] = Idle
             /\ fetches' \in [Slots -> {Idle} \cup Fetches]
             /\ fetches'[n] = Sent(Members(g), FALSE)
             /\ \A s \in Slots \ {n} : fetches'[s] = fetches[s]
             /\ timers' \subseteq timers \cup {[slot |-> n, list |-> "members"]}
             /\ timers' \subseteq [slot: Slots, list: Lists]
  <1>1. fetches \in [Slots -> {Idle} \cup Fetches]
    BY Parts
  <1>2. Members(g) \in Subjects /\ Members(g).list = "members"
    BY SubjectsAre
  <1>3. /\ FreeSlots # {}
        /\ fetches' = [fetches EXCEPT ![NextSlot] = Sent(Members(g), FALSE)]
        /\ timers' = timers \/ timers' = timers \cup {[slot |-> NextSlot, list |-> Members(g).list]}
        /\ Members(g).list = "profile" => timers' = timers
    BY <1>2 DEF OpenGroupDetail, Asks, Sent
  <1>4. \E n \in Slots :
             /\ fetches[n] = Idle
             /\ fetches' \in [Slots -> {Idle} \cup Fetches]
             /\ fetches'[n] = Sent(Members(g), FALSE)
             /\ \A s \in Slots \ {n} : fetches'[s] = fetches[s]
             /\ timers' \subseteq timers \cup {[slot |-> n, list |-> Members(g).list]}
             /\ timers' \subseteq [slot: Slots, list: Lists]
             /\ Members(g).list = "profile" => timers' = timers
    BY <1>1, <1>2, <1>3, AsksDoes, ZenonT(60)
  <1> QED
    BY <1>2, <1>4

LEMMA OpenType ==
    ASSUME TypeInv, NEW g \in Groups, OpenGroupDetail(g)
    PROVE  TypeInv'
  <1> USE DEF TypeInv
  <1>1. fetches' \in [Slots -> {Idle} \cup Fetches] /\ timers' \subseteq [slot: Slots, list: Lists]
    BY OpenGroupDetailDoes
  <1>2. shown' \in [Lists -> Faces]
    BY FacesAre, Parts DEF OpenGroupDetail
  <1>3. spent' \in Spent
    BY SpendsType DEF OpenGroupDetail, Tap
  <1>4. selected' = g /\ g # None
    BY DEF OpenGroupDetail
  <1> QED
    BY <1>1, <1>2, <1>3, <1>4 DEF OpenGroupDetail, server, channel, TypeOK, Chosen, Spent

\* The screen a role's profile opens fetches its groups beside what is on its way.
BesideRole(k) == AgedFetches(RenderedFresh(posts[k], Profile), "old", "overtaken")

LEMMA RoleEndsDoes ==
    ASSUME TypeOK, NEW k \in PostSlots, RoleEnds(k)
    PROVE  \E n \in Slots :
             /\ fetches[n] = Idle
             /\ fetches' \in [Slots -> {Idle} \cup Fetches]
             /\ fetches'[n] = Sent(GroupList, TRUE)
             /\ \A s \in Slots \ {n} : fetches'[s] = BesideRole(k)[s]
             /\ timers' \subseteq timers \cup {[slot |-> n, list |-> "groups"]}
             /\ timers' \subseteq [slot: Slots, list: Lists]
  <1>1. BesideRole(k) \in [Slots -> {Idle} \cup Fetches]
    BY AgedFetchesType DEF BesideRole
  <1>2. GroupList \in Subjects /\ GroupList.list = "groups"
    BY SubjectsAre
  <1>3. /\ FreeSlots # {}
        /\ fetches' = [BesideRole(k) EXCEPT ![NextSlot] = Sent(GroupList, TRUE)]
        /\ timers' = timers \/ timers' = timers \cup {[slot |-> NextSlot, list |-> GroupList.list]}
        /\ GroupList.list = "profile" => timers' = timers
    BY <1>2 DEF RoleEnds, BesideRole, Asks, Sent
  <1>4. \E n \in Slots :
             /\ fetches[n] = Idle
             /\ fetches' \in [Slots -> {Idle} \cup Fetches]
             /\ fetches'[n] = Sent(GroupList, TRUE)
             /\ \A s \in Slots \ {n} : fetches'[s] = BesideRole(k)[s]
             /\ timers' \subseteq timers \cup {[slot |-> n, list |-> GroupList.list]}
             /\ timers' \subseteq [slot: Slots, list: Lists]
             /\ GroupList.list = "profile" => timers' = timers
    BY <1>1, <1>2, <1>3, AsksDoes
  <1> QED
    BY <1>2, <1>4

LEMMA EndPostType ==
    ASSUME TypeInv, NEW k \in PostSlots, EndPost(k)
    PROVE  TypeInv'
  <1> USE DEF TypeInv
  <1>1. posts[k] \in Posts /\ posts[k].at = "done" /\ posts[k].button \in Buttons
    BY PostInUse, PostFields DEF EndPost
  <1>5. PostsKept
    BY AgedPostsKept, EndedPostsKept DEF EndPost
  <1>2. CASE posts[k].button \in {"create", "delete"}
    <2>1. Refetches(GroupList) /\ UNCHANGED <<shown, faulted>> /\ screen' \in {screen, "groups"}
      BY <1>2 DEF EndPost, CreateEnds, DeleteEnds
    <2>2. fetches' \in [Slots -> {Idle} \cup Fetches] /\ timers' \subseteq [slot: Slots, list: Lists]
      BY <2>1, RefetchesDoes, SubjectsAre
    <2> QED
      BY <1>5, <2>1, <2>2 DEF EndPost, PostsKept, server, channel, TypeOK, Chosen
  <1>3. CASE posts[k].button \in {"add", "remove"}
    <2>1. MembersEnd /\ selected \in Groups
      BY <1>1, <1>3 DEF EndPost, Chosen, TypeOK
    <2>2. fetches' \in [Slots -> {Idle} \cup Fetches] /\ timers' \subseteq [slot: Slots, list: Lists]
      BY <2>1, RefetchesDoes, SubjectsAre DEF MembersEnd
    <2> QED
      BY <1>5, <2>1, <2>2 DEF EndPost, PostsKept, MembersEnd, server, channel, TypeOK, Chosen
  <1>4. CASE posts[k].button = "role"
    <2>1. RoleEnds(k)
      BY <1>4 DEF EndPost
    <2>2. fetches' \in [Slots -> {Idle} \cup Fetches] /\ timers' \subseteq [slot: Slots, list: Lists]
      BY <2>1, RoleEndsDoes
    <2>3. shown' \in [Lists -> Faces] /\ faulted' \subseteq Lists
      <3>1. Profile \in Subjects /\ Profile # GroupList
        BY SubjectsAre
      <3>2. Renders(Profile, posts[k]) /\ posts[k].age \in Ages
        BY <1>1, <2>1, PostFields DEF RoleEnds
      <3> QED
        BY <3>1, <3>2, RendersDoes
    <2> QED
      BY <1>5, <2>1, <2>2, <2>3 DEF RoleEnds, EndPost, PostsKept, server, channel, TypeOK, Chosen
  <1> QED
    BY <1>1, <1>2, <1>3, <1>4 DEF Buttons

LEMMA TypeStep == TypeInv /\ [Next]_vars => TypeInv'
  <1> SUFFICES ASSUME TypeInv, [Next]_vars PROVE TypeInv'
    OBVIOUS
  <1>1. CASE Taps
    BY <1>1, UserType, OpenType DEF Taps
  <1>2. CASE Faults
    BY <1>2, ChannelType, FailureType, UserType DEF Faults
  <1>3. CASE \E x \in Subjects : Changes(x)
    BY <1>3, ServerType
  <1>4. CASE Proceeds
    BY <1>4, AnswersType, RenderAnswerType, FailureType, PerformType, UserType, EndPostType, ChannelType
    DEF Proceeds
  <1>5. CASE UNCHANGED vars
    BY <1>5 DEF vars, TypeInv, TypeOK, Chosen
  <1> QED
    BY <1>1, <1>2, <1>3, <1>4, <1>5 DEF Next

LEMMA TypeInit == Init => TypeInv
  <1> SUFFICES ASSUME Init PROVE TypeInv
    OBVIOUS
  <1>1. /\ GroupList \in Subjects /\ Profile \in Subjects /\ Sent(GroupList, TRUE) \in Fetches
        /\ Rows(Profile, {}, TRUE) \in Faces /\ Nothing("blank") \in Faces
    BY SubjectsAre, SentFields, FacesAre
  <1>2. shown \in [Lists -> Faces]
    BY <1>1 DEF Init
  <1>3. fetches \in [Slots -> {Idle} \cup Fetches]
    BY <1>1 DEF Init, Sent
  <1>4. timers \subseteq [slot: Slots, list: Lists]
    BY DEF Init, Slots
  <1>5. pushes \in Seq(Pushed)
    BY DEF Init
  <1>6. groups \in [Groups -> {"new", "in", "out"}]
    BY DEF Init
  <1> QED
    BY <1>2, <1>3, <1>4, <1>5, <1>6 DEF Init, TypeInv, TypeOK, Chosen

\* Every variable keeps its type, whatever is answered, pushed, lost or tapped
\* (mainApp.js and realtime.js).
THEOREM TypeCorrect == Spec => []TypeOK
  <1>1. Spec => []TypeInv
    BY TypeInit, TypeStep, PTL DEF Spec
  <1> QED
    BY <1>1, PTL DEF TypeInv

-----------------------------------------------------------------------------
(* Realtime is started once.                                                *)

StartedInv == chains = (IF socket = "unstarted" THEN 0 ELSE 1)

LEMMA ChannelFrame ==
    ASSUME Next
    PROVE  \/ UNCHANGED <<socket, chains>>
           \/ socket # "unstarted" /\ socket' # "unstarted" /\ UNCHANGED chains
           \/ \E s \in Slots : Started(fetches[s])
  <1>1. CASE Taps
    BY <1>1 DEF Taps, SwitchTab, OpenGroupDetail, PressButton, channel
  <1>2. CASE Faults
    BY <1>2 DEF Faults, Disconnect, LoseFetch, BreakAnswer, LosePost, Fails, channel
  <1>3. CASE \E x \in Subjects : Changes(x)
    BY <1>3 DEF Changes, channel
  <1>4. CASE Proceeds
    <2>1. CASE \E k \in PostSlots : PerformPost(k) \/ RefusePost(k) \/ EndPost(k)
      BY <2>1 DEF PerformPost, Performs, RefusePost, EndPost, channel
    <2>2. CASE (\E p \in owed : Send(p)) \/ Connect \/ HandlePush \/ (\E t \in timers : ShowSpinner(t))
      BY <2>2 DEF Send, Connect, HandlePush, ShowSpinner, channel
    <2>3. ASSUME NEW s \in Slots, Answers(s) \/ RenderAnswer(s) \/ RenderError(s)
          PROVE  UNCHANGED <<socket, chains>> \/ Started(fetches[s])
      BY <2>3 DEF Answers, RenderAnswer, RenderError, Fails, channel
    <2> QED
      BY <1>4, <2>1, <2>2, <2>3 DEF Proceeds
  <1> QED
    BY <1>1, <1>2, <1>3, <1>4 DEF Next

\* Whoever comes to the main screens, and however often, the socket is opened once
\* (enterMainApp's realtimeStarted).
THEOREM StartsOnce == Spec => []RealtimeStartsOnce
  <1>1. Init => StartedInv
    BY DEF Init, StartedInv
  <1>2. ASSUME StartedInv, [Next]_vars PROVE StartedInv'
    <2>1. CASE Next
      BY <1>2, <2>1, ChannelFrame DEF StartedInv, Started
    <2>2. CASE UNCHANGED vars
      BY <1>2, <2>2 DEF vars, StartedInv
    <2> QED
      BY <1>2, <2>1, <2>2
  <1>3. StartedInv => RealtimeStartsOnce
    BY DEF StartedInv, RealtimeStartsOnce
  <1> QED
    BY <1>1, <1>2, <1>3, PTL DEF Spec

-----------------------------------------------------------------------------
(* Spinners.                                                                *)

\* A timer waits for a fetch of its own list, and the profile has none.
Timed == \A t \in timers :
    fetches[t.slot] # Idle /\ fetches[t.slot].what.list = t.list /\ t.list # "profile"

ProfileHasRows == shown["profile"].face = "rows"

SpinnerInv == TypeInv /\ Timed /\ ProfileHasRows /\ SpinnersEnd

\* Fetches that stay under way, and spinners that are not new.
Stay == \A s \in Slots : fetches[s] # Idle => fetches'[s] # Idle /\ fetches'[s].what = fetches[s].what
NoneNew == \A l \in Lists :
    shown'[l] = Nothing("spinner") /\ l \notin faulted' => shown[l] = Nothing("spinner") /\ l \notin faulted

LEMMA FacesDiffer ==
    /\ \A f \in {"blank", "error", "empty"} : Nothing(f) # Nothing("spinner")
    /\ Nothing("spinner").face = "spinner"
  BY DEF Nothing

LEMMA StayEnd ==
    ASSUME SpinnerInv, Stay, NoneNew
    PROVE  SpinnersEnd'
  BY DEF SpinnerInv, SpinnersEnd, Stay, NoneNew

LEMMA StayTimed ==
    ASSUME SpinnerInv, Stay, timers' \subseteq timers
    PROVE  Timed'
  BY DEF SpinnerInv, Timed, Stay, TypeInv, TypeOK

\* A fetch beside the others, with or without a timer of its own.
LEMMA AskedStays ==
    ASSUME SpinnerInv, NEW x \in Subjects, NEW entry \in BOOLEAN,
           NEW n \in Slots,
           fetches[n] = Idle,
           fetches'[n] = Sent(x, entry),
           \A s \in Slots \ {n} :
                fetches[s] # Idle => fetches'[s] # Idle /\ fetches'[s].what = fetches[s].what,
           timers' \subseteq timers \cup {[slot |-> n, list |-> x.list]},
           x.list = "profile" => timers' = timers
    PROVE  Stay /\ Timed'
  <1>1. Stay
    <2>1. \A s \in Slots : fetches[s] # Idle => s # n
      OBVIOUS
    <2> QED
      BY <2>1 DEF Stay
  <1>2. Sent(x, entry) # Idle /\ Sent(x, entry).what = x
    BY SentFields
  <1>3. ASSUME NEW t \in timers'
        PROVE  fetches'[t.slot] # Idle /\ fetches'[t.slot].what.list = t.list /\ t.list # "profile"
    <2>1. CASE t \in timers
      BY <1>1, <2>1 DEF SpinnerInv, Timed, Stay, TypeInv, TypeOK
    <2>2. CASE t \notin timers
      <3>1. t = [slot |-> n, list |-> x.list] /\ x.list # "profile"
        BY <1>3, <2>2
      <3>2. t.slot = n /\ t.list = x.list
        BY <3>1
      <3> QED
        BY <1>2, <3>1, <3>2
    <2> QED
      BY <2>1, <2>2
  <1> QED
    BY <1>1, <1>3 DEF Timed

LEMMA OutdatesSpins ==
    ASSUME SpinnerInv, NEW x \in Subjects, Outdates(x), UNCHANGED <<timers, faulted>>
    PROVE  Timed' /\ ProfileHasRows' /\ SpinnersEnd'
  <1> USE DEF SpinnerInv, TypeInv
  <1>1. Stay
    <2>1. fetches' = AgedFetches({x}, "fresh", "old")
      BY OutdatesDoes
    <2>2. ASSUME NEW s \in Slots, fetches[s] # Idle
          PROVE  AgedFetches({x}, "fresh", "old")[s] # Idle
                 /\ AgedFetches({x}, "fresh", "old")[s].what = fetches[s].what
      BY <2>2, AgedFetchesAre
    <2> QED
      BY <2>1, <2>2 DEF Stay
  <1>2. NoneNew
    BY OutdatesDoes, FacesDiffer DEF NoneNew, HasRows
  <1>3. ProfileHasRows'
    BY OutdatesDoes DEF ProfileHasRows
  <1> QED
    BY <1>1, <1>2, <1>3, StayEnd, StayTimed

\* Nothing is rendered or removed.
LEMMA QuietSpins ==
    ASSUME SpinnerInv, Stay, Timed', UNCHANGED shown, faulted \subseteq faulted'
    PROVE  Timed' /\ ProfileHasRows' /\ SpinnersEnd'
  BY StayEnd DEF NoneNew, SpinnerInv, ProfileHasRows

LEMMA RefetchesSpins ==
    ASSUME SpinnerInv, NEW x \in Subjects, Refetches(x)
    PROVE  Stay /\ Timed'
  <1> USE DEF SpinnerInv, TypeInv
  <1>1. PICK n \in Slots :
             /\ fetches[n] = Idle
             /\ fetches'[n] = Sent(x, FALSE)
             /\ \A s \in Slots \ {n} : fetches'[s] = fetches[s]
             /\ timers' \subseteq timers \cup {[slot |-> n, list |-> x.list]}
             /\ x.list = "profile" => timers' = timers
    BY RefetchesDoes
  <1> QED
    BY <1>1, AskedStays

LEMMA AnswersStays ==
    ASSUME TypeInv, NEW s \in Slots, Answers(s)
    PROVE  /\ \A r \in Slots \ {s} : fetches'[r] = fetches[r]
           /\ fetches'[s] # Idle /\ fetches'[s].what = fetches[s].what /\ fetches'[s].age = fetches[s].age
           /\ fetches'[s].listed \subseteq MyGroups \cup fetches[s].listed
           /\ \/ fetches'[s].at = "answered"
              \/ /\ fetches'[s].at = "failed" /\ fetches[s].what.list = "members"
                 /\ fetches[s].what.group \notin MyGroups
  <1> USE DEF TypeInv
  <1>1. fetches[s] \in Fetches
    BY FetchInUse DEF Answers
  <1> QED
    <2> DEFINE f == fetches[s]
               gs == IF f.what = GroupList THEN MyGroups ELSE {}
    <2>1. gs \in SUBSET Groups /\ gs \subseteq MyGroups
      BY DEF MyGroups
    <2>2. \A r \in Slots \ {s} : fetches'[r] = fetches[r]
      BY DEF Answers, TypeOK
    <2>3. \/ /\ fetches'[s] = [f EXCEPT !.at = "failed"]
             /\ f.what.list = "members" /\ f.what.group \notin MyGroups
          \/ fetches'[s] = [f EXCEPT !.at = "answered", !.listed = gs]
      BY DEF Answers, TypeOK
    <2>4. f \in Fetches
      BY <1>1
    <2> HIDE DEF f, gs
    <2>5. /\ fetches'[s] # Idle /\ fetches'[s].what = f.what /\ fetches'[s].age = f.age
          /\ fetches'[s].listed \subseteq MyGroups \cup f.listed
          /\ \/ fetches'[s].at = "answered"
             \/ fetches'[s].at = "failed" /\ f.what.list = "members" /\ f.what.group \notin MyGroups
      <3>1. CASE fetches'[s] = [f EXCEPT !.at = "failed"] /\ f.what.list = "members" /\ f.what.group \notin MyGroups
        <4>1. fetches'[s] # Idle /\ fetches'[s].what = f.what /\ fetches'[s].age = f.age
              /\ fetches'[s].listed = f.listed /\ fetches'[s].at = "failed"
          BY <2>4, <3>1 DEF Fetches
        <4> QED
          BY <3>1, <4>1
      <3>2. CASE fetches'[s] = [f EXCEPT !.at = "answered", !.listed = gs]
        <4>1. fetches'[s] # Idle /\ fetches'[s].what = f.what /\ fetches'[s].age = f.age
              /\ fetches'[s].listed = gs /\ fetches'[s].at = "answered"
          BY <2>4, <3>2 DEF Fetches
        <4> QED
          BY <2>1, <4>1
      <3> QED
        BY <2>3, <3>1, <3>2
    <2> QED
      BY <2>2, <2>5 DEF f

\* What is left beside an answer that was rendered.
LEMMA RenderAnswerDoes ==
    ASSUME TypeInv, NEW s \in Slots, RenderAnswer(s)
    PROVE  /\ fetches[s] \in Fetches /\ fetches[s].what \in Subjects /\ Renders(fetches[s].what, fetches[s])
           /\ fetches'[s] = Idle
           /\ \A r \in Slots \ {s} :
                /\ fetches'[r] = Idle <=> fetches[r] = Idle
                /\ fetches[r] # Idle => /\ fetches'[r].at = fetches[r].at
                                        /\ fetches'[r].what = fetches[r].what
                                        /\ fetches'[r].listed = fetches[r].listed
                /\ fetches[r].age # "old" \/ fetches[r].what # fetches[s].what \/ fetches[s].age # "fresh" =>
                        fetches'[r] = fetches[r]
                /\ fetches[s].age = "fresh" /\ fetches'[r].at = "answered" /\ fetches'[r].what = fetches[s].what =>
                        fetches'[r].age # "old"
  <1> USE DEF TypeInv
  <1>1. fetches[s] \in Fetches
    BY FetchInUse DEF RenderAnswer
  <1>2. fetches[s].what \in Subjects
    BY <1>1, FetchFields
  <1> DEFINE xs == IF fetches[s].age = "fresh" THEN {fetches[s].what} ELSE {}
             aged == AgedFetches(xs, "old", "overtaken")
  <1>3. fetches' = [aged EXCEPT ![s] = Idle]
    BY DEF RenderAnswer
  <1>4. aged \in [Slots -> {Idle} \cup Fetches]
    <2> HIDE DEF xs
    <2> QED
      BY AgedFetchesType
  <1>5. /\ fetches'[s] = Idle
        /\ \A r \in Slots \ {s} : fetches'[r] = aged[r]
    <2> HIDE DEF aged
    <2> QED
      BY <1>3, <1>4
  <1>6. ASSUME NEW r \in Slots
        PROVE  /\ aged[r] = Idle <=> fetches[r] = Idle
               /\ fetches[r] # Idle => /\ aged[r].at = fetches[r].at
                                       /\ aged[r].what = fetches[r].what
                                       /\ aged[r].listed = fetches[r].listed
               /\ fetches[r].at = "answered" /\ fetches[r].what \in xs /\ fetches[r].age = "old"
                    => aged[r].age = "overtaken"
               /\ ~(fetches[r].at = "answered" /\ fetches[r].what \in xs /\ fetches[r].age = "old")
                    => aged[r] = fetches[r]
    <2> HIDE DEF xs
    <2> QED
      BY AgedFetchesAre
  <1> HIDE DEF aged
  <1>7. ASSUME NEW r \in Slots \ {s}
        PROVE  /\ fetches'[r] = Idle <=> fetches[r] = Idle
               /\ fetches[r] # Idle => /\ fetches'[r].at = fetches[r].at
                                       /\ fetches'[r].what = fetches[r].what
                                       /\ fetches'[r].listed = fetches[r].listed
               /\ fetches[r].age # "old" \/ fetches[r].what # fetches[s].what \/ fetches[s].age # "fresh" =>
                        fetches'[r] = fetches[r]
               /\ fetches[s].age = "fresh" /\ fetches'[r].at = "answered" /\ fetches'[r].what = fetches[s].what =>
                        fetches'[r].age # "old"
    <2>1. fetches'[r] = aged[r]
      BY <1>5
    <2>2. CASE fetches[r] = Idle
      BY <1>6, <2>1, <2>2
    <2>3. CASE fetches[r] # Idle
      BY <1>6, <2>1, <2>3
    <2> QED
      BY <2>2, <2>3
  <1>8. Renders(fetches[s].what, fetches[s])
    BY DEF RenderAnswer
  <1> QED
    BY <1>1, <1>2, <1>5, <1>7, <1>8

LEMMA RenderAnswerShows ==
    ASSUME TypeInv, NEW s \in Slots, RenderAnswer(s), NEW y, y = fetches[s].what
    PROVE  /\ y \in Subjects /\ y.list \in Lists
           /\ \A l \in Lists \ {y.list} : shown'[l] = shown[l]
           /\ \/ y = GroupList /\ shown'[y.list] = Nothing("empty")
              \/ /\ shown'[y.list].face = "rows" /\ shown'[y.list].what = y
                 /\ shown'[y.list].listed \subseteq fetches[s].listed
                 /\ shown'[y.list].fresh = (fetches[s].age = "fresh")
           /\ faulted \ {y.list} \subseteq faulted' /\ faulted' \subseteq faulted \cup {y.list}
           /\ fetches[s].age = "overtaken" \/ (y.list = "members" /\ y.group # selected) => y.list \in faulted'
           /\ fetches[s].age = "old" /\ y.list \in faulted => y.list \in faulted'
  <1>1. fetches[s] \in Fetches /\ y \in Subjects /\ Renders(y, fetches[s])
    BY RenderAnswerDoes
  <1>2. fetches[s].age \in Ages /\ fetches[s].listed \subseteq Groups
    BY <1>1, FetchFields
  <1>3. y.list \in Lists
    BY <1>1, SubjectFields
  <1>4. /\ \A l \in Lists \ {y.list} : shown'[l] = shown[l]
        /\ \/ y = GroupList /\ shown'[y.list] = Nothing("empty")
           \/ /\ shown'[y.list].face = "rows" /\ shown'[y.list].what = y
              /\ shown'[y.list].listed \subseteq (IF y = GroupList THEN fetches[s].listed ELSE {})
              /\ shown'[y.list].fresh = (fetches[s].age = "fresh")
        /\ faulted \ {y.list} \subseteq faulted' /\ faulted' \subseteq faulted \cup {y.list}
        /\ fetches[s].age = "overtaken" \/ (y.list = "members" /\ y.group # selected) => y.list \in faulted'
        /\ fetches[s].age = "old" /\ y.list \in faulted => y.list \in faulted'
    BY <1>1, <1>2, RendersDoes DEF TypeInv
  <1> QED
    BY <1>1, <1>3, <1>4

\* A fetch ends, whatever it leaves in its list, which is no spinner.
LEMMA RemovedSpins ==
    ASSUME SpinnerInv, NEW s \in Slots, NEW list \in Lists,
           list = fetches[s].what.list,
           \A r \in Slots \ {s} : fetches[r] # Idle => fetches'[r] # Idle /\ fetches'[r].what = fetches[r].what,
           timers' = Cancelled(s),
           \A l \in Lists \ {list} : shown'[l] = shown[l],
           shown'[list] # Nothing("spinner") \/ list \in faulted',
           \A l \in Lists \ {list} : l \in faulted <=> l \in faulted',
           ProfileHasRows'
    PROVE  Timed' /\ ProfileHasRows' /\ SpinnersEnd'
  <1>1. Timed'
    <2> SUFFICES ASSUME NEW t \in timers'
                 PROVE  fetches'[t.slot] # Idle /\ fetches'[t.slot].what.list = t.list /\ t.list # "profile"
      BY DEF Timed
    <2>1. t \in timers /\ t.slot # s /\ t.slot \in Slots
      BY DEF Cancelled, SpinnerInv, TypeInv, TypeOK
    <2>2. fetches[t.slot] # Idle /\ fetches[t.slot].what.list = t.list /\ t.list # "profile"
      BY <2>1 DEF SpinnerInv, Timed
    <2> QED
      BY <2>1, <2>2
  <1>2. SpinnersEnd'
    <2> SUFFICES ASSUME NEW l \in Lists, shown'[l] = Nothing("spinner"), l \notin faulted'
                 PROVE  \E r \in Slots : fetches'[r] # Idle /\ fetches'[r].what.list = l
      BY DEF SpinnersEnd
    <2>1. l # list
      OBVIOUS
    <2>2. shown[l] = Nothing("spinner") /\ l \notin faulted
      BY <2>1
    <2>3. PICK r \in Slots : fetches[r] # Idle /\ fetches[r].what.list = l
      BY <2>2 DEF SpinnerInv, SpinnersEnd
    <2>4. r # s
      BY <2>1, <2>3
    <2> QED
      BY <2>3, <2>4
  <1> QED
    BY <1>1, <1>2

LEMMA RenderSpins ==
    ASSUME SpinnerInv, NEW s \in Slots, RenderAnswer(s)
    PROVE  Timed' /\ ProfileHasRows' /\ SpinnersEnd'
  <1> USE DEF SpinnerInv
  <1> DEFINE y == fetches[s].what
  <1>1. /\ y \in Subjects /\ y.list \in Lists
        /\ \A l \in Lists \ {y.list} : shown'[l] = shown[l]
        /\ (y = GroupList /\ shown'[y.list] = Nothing("empty")) \/ shown'[y.list].face = "rows"
        /\ faulted \ {y.list} \subseteq faulted' /\ faulted' \subseteq faulted \cup {y.list}
    BY RenderAnswerShows
  <1>2. \A r \in Slots \ {s} : fetches[r] # Idle => fetches'[r] # Idle /\ fetches'[r].what = fetches[r].what
    BY RenderAnswerDoes
  <1>3. timers' = Cancelled(s)
    BY DEF RenderAnswer
  <1>4. shown'[y.list] # Nothing("spinner")
    BY <1>1, FacesDiffer
  <1>5. ProfileHasRows'
    <2>1. CASE y.list = "profile"
      BY <1>1, <2>1, SubjectsAre DEF ProfileHasRows
    <2>2. CASE y.list # "profile"
      BY <1>1, <2>2 DEF ProfileHasRows
    <2> QED
      BY <2>1, <2>2
  <1>6. \A l \in Lists \ {y.list} : l \in faulted <=> l \in faulted'
    BY <1>1
  <1>7. \E list \in Lists : list = y.list
    BY <1>1
  <1> QED
    BY <1>1, <1>2, <1>3, <1>4, <1>5, <1>6, <1>7, RemovedSpins

LEMMA FailureSpins ==
    ASSUME SpinnerInv, NEW s \in Slots, RenderError(s) \/ LoseFetch(s) \/ BreakAnswer(s)
    PROVE  Timed' /\ ProfileHasRows' /\ SpinnersEnd'
  <1> USE DEF SpinnerInv, TypeInv
  <1> DEFINE y == fetches[s].what
  <1>1. fetches[s] \in Fetches
    BY FetchInUse DEF RenderError, LoseFetch, BreakAnswer
  <1>2. y \in Subjects /\ y.list \in Lists /\ (y.list = "profile" <=> y = Profile)
    BY <1>1, FetchFields, SubjectFields
  <1>3. /\ fetches' = [fetches EXCEPT ![s] = Idle]
        /\ timers' = Cancelled(s)
        /\ \A l \in Lists : shown'[l] = shown[l] \/ (l = y.list /\ shown'[l] = Nothing("error"))
        /\ shown'[y.list] # Nothing("spinner") \/ y.list \in faulted'
        /\ \A l \in Lists \ {y.list} : l \in faulted <=> l \in faulted'
        /\ ProfileHasRows'
    <2>1. CASE RenderError(s) \/ LoseFetch(s)
      <3>1. Fails(s) /\ faulted' \in {faulted, faulted \cup {y.list}}
        BY <2>1 DEF RenderError, LoseFetch
      <3>2. /\ \A l \in Lists : shown'[l] = shown[l] \/ (l = y.list /\ shown'[l] = Nothing("error"))
            /\ y # Profile => shown'[y.list] = Nothing("error")
            /\ timers' = Cancelled(s)
            /\ fetches' = [fetches EXCEPT ![s] = Idle]
        BY <1>1, <3>1, FailsDoes
      <3>3. ProfileHasRows' /\ (y = Profile => shown'[y.list].face = "rows")
        <4>1. y = Profile => shown' = [shown EXCEPT ![y.list] = shown[y.list]]
          BY <3>1 DEF Fails
        <4>2. y = Profile => shown' = shown
          BY <1>2, <4>1, Parts
        <4> QED
          BY <1>2, <3>2, <4>2 DEF ProfileHasRows
      <3> QED
        BY <3>1, <3>2, <3>3, FacesDiffer
    <2>2. CASE BreakAnswer(s)
      BY <2>2 DEF BreakAnswer, view, ProfileHasRows
    <2> QED
      BY <2>1, <2>2
  <1>4. \A r \in Slots \ {s} : fetches[r] # Idle => fetches'[r] # Idle /\ fetches'[r].what = fetches[r].what
    BY <1>3, Parts
  <1>5. \A l \in Lists \ {y.list} : shown'[l] = shown[l]
    BY <1>3
  <1> HIDE DEF SpinnerInv, TypeInv
  <1> QED
    BY <1>2, <1>3, <1>4, <1>5, RemovedSpins

\* The request of a button other than a role's ends in a fetch.
LEMMA EndsByFetching ==
    ASSUME TypeInv, NEW k \in PostSlots, EndPost(k), posts[k].button # "role"
    PROVE  /\ UNCHANGED <<shown, faulted, groups, selected, pushes, owed>>
           /\ \E x \in Subjects :
                /\ Refetches(x)
                /\ \/ x = GroupList /\ posts[k].button \in {"create", "delete"}
                   \/ x = Members(selected) /\ selected \in Groups /\ posts[k].button \in {"add", "remove"}
  <1>1. posts[k].button \in {"create", "delete", "add", "remove"}
    BY PostInUse, PostFields DEF EndPost, TypeInv, Buttons
  <1>2. CASE posts[k].button \in {"create", "delete"}
    <2>1. Refetches(GroupList) /\ UNCHANGED <<shown, faulted>>
      BY <1>2 DEF EndPost, CreateEnds, DeleteEnds
    <2> QED
      BY <1>2, <2>1, SubjectsAre DEF EndPost, server, channel
  <1>3. CASE posts[k].button \in {"add", "remove"}
    <2>1. MembersEnd
      BY <1>3 DEF EndPost
    <2>2. selected \in Groups
      BY <1>3, PostInUse, PostFields DEF EndPost, TypeInv, Chosen, TypeOK
    <2> QED
      BY <1>3, <2>1, <2>2, SubjectsAre DEF MembersEnd, EndPost, server, channel
  <1> QED
    BY <1>1, <1>2, <1>3

LEMMA EndPostSpins ==
    ASSUME SpinnerInv, NEW k \in PostSlots, EndPost(k)
    PROVE  Timed' /\ ProfileHasRows' /\ SpinnersEnd'
  <1> USE DEF SpinnerInv, TypeInv
  <1>1. posts[k] \in Posts /\ posts[k].at = "done" /\ posts[k].button \in Buttons
    BY PostInUse, PostFields DEF EndPost
  <1>2. CASE posts[k].button # "role"
    <2>1. \E x \in Subjects : Refetches(x)
      BY <1>2, EndsByFetching
    <2>2. Stay /\ Timed'
      BY <2>1, RefetchesSpins
    <2>3. UNCHANGED <<shown, faulted>>
      BY <1>2, EndsByFetching
    <2> QED
      BY <2>2, <2>3, QuietSpins
  <1>3. CASE posts[k].button = "role"
    <2>1. RoleEnds(k)
      BY <1>3 DEF EndPost
    <2>2. PICK n \in Slots :
             /\ fetches[n] = Idle
             /\ fetches' \in [Slots -> {Idle} \cup Fetches]
             /\ fetches'[n] = Sent(GroupList, TRUE)
             /\ \A s \in Slots \ {n} : fetches'[s] = BesideRole(k)[s]
             /\ timers' \subseteq timers \cup {[slot |-> n, list |-> "groups"]}
             /\ timers' \subseteq [slot: Slots, list: Lists]
      BY <2>1, RoleEndsDoes
    <2>3. ASSUME NEW s \in Slots, fetches[s] # Idle
          PROVE  BesideRole(k)[s] # Idle /\ BesideRole(k)[s].what = fetches[s].what
      <3> DEFINE xs == IF posts[k].age = "fresh" THEN {Profile} ELSE {}
      <3>1. BesideRole(k) = AgedFetches(xs, "old", "overtaken")
        BY DEF BesideRole
      <3> HIDE DEF xs
      <3> QED
        BY <2>3, <3>1, AgedFetchesAre
    <2>4. Stay /\ Timed'
      <3>1. \A s \in Slots \ {n} :
                fetches[s] # Idle => fetches'[s] # Idle /\ fetches'[s].what = fetches[s].what
        BY <2>2, <2>3
      <3>2. /\ GroupList \in Subjects
            /\ timers' \subseteq timers \cup {[slot |-> n, list |-> GroupList.list]}
            /\ GroupList.list = "profile" => timers' = timers
        BY <2>2, SubjectsAre
      <3> HIDE DEF SpinnerInv, TypeInv
      <3> QED
        BY <2>2, <3>1, <3>2, AskedStays
    <2>5. /\ \A l \in Lists \ {"profile"} : shown'[l] = shown[l]
          /\ shown'["profile"].face = "rows"
          /\ faulted \ {"profile"} \subseteq faulted'
      <3>1. Renders(Profile, posts[k]) /\ posts[k].age \in Ages
        BY <1>1, <2>1, PostFields DEF RoleEnds
      <3>2. Profile \in Subjects /\ Profile.list = "profile" /\ Profile # GroupList
        BY SubjectsAre
      <3> QED
        BY <3>1, <3>2, RendersDoes
    <2>6. NoneNew
      BY <2>5, FacesDiffer DEF NoneNew
    <2> QED
      BY <2>4, <2>5, <2>6, StayEnd DEF ProfileHasRows
  <1> QED
    BY <1>2, <1>3

LEMMA ServerSpins ==
    ASSUME SpinnerInv,
           \/ \E x \in Subjects : Changes(x)
           \/ \E k \in PostSlots : PerformPost(k)
           \/ (\E p \in owed : Send(p)) \/ Connect \/ Disconnect
           \/ \E s \in Slots : Answers(s)
    PROVE  Timed' /\ ProfileHasRows' /\ SpinnersEnd'
  <1>1. ASSUME NEW x \in Subjects, Changes(x) PROVE Timed' /\ ProfileHasRows' /\ SpinnersEnd'
    BY <1>1, OutdatesSpins DEF Changes
  <1>2. ASSUME NEW k \in PostSlots, PerformPost(k) PROVE Timed' /\ ProfileHasRows' /\ SpinnersEnd'
    <2>1. PICK x \in Subjects : Performs(k, x)
      <3>1. posts[k] \in Posts
        BY <1>2, PostInUse DEF PerformPost, SpinnerInv, TypeInv
      <3>2. posts[k].button \in {"add", "remove"} => Members(posts[k].group) \in Subjects
        BY <3>1, PostFields, SubjectsAre DEF SpinnerInv, TypeInv, Chosen
      <3> QED
        BY <1>2, <3>2, SubjectsAre DEF PerformPost
    <2> QED
      BY <2>1, OutdatesSpins DEF Performs
  <1>3. CASE (\E p \in owed : Send(p)) \/ Connect \/ Disconnect
    <2>1. /\ UNCHANGED <<shown, fetches, timers>>
          /\ faulted \subseteq faulted'
      BY <1>3 DEF Send, Connect, Disconnect, view
    <2>2. Stay
      BY <2>1 DEF Stay
    <2> QED
      BY <2>1, <2>2, StayTimed, QuietSpins
  <1>4. ASSUME NEW s \in Slots, Answers(s) PROVE Timed' /\ ProfileHasRows' /\ SpinnersEnd'
    <2>1. UNCHANGED <<shown, timers, faulted>>
      BY <1>4 DEF Answers, view
    <2>2. Stay
      BY <1>4, AnswersStays DEF Stay, SpinnerInv
    <2> QED
      BY <2>1, <2>2, StayTimed, QuietSpins
  <1> QED
    BY <1>1, <1>2, <1>3, <1>4

LEMMA UserSpins ==
    ASSUME SpinnerInv,
           \/ \E tab \in {"groups", "profile"} : SwitchTab(tab)
           \/ \E g \in Groups : OpenGroupDetail(g)
           \/ \E b \in Buttons : PressButton(b)
           \/ \E k \in PostSlots : RefusePost(k) \/ LosePost(k)
           \/ HandlePush
           \/ \E t \in timers : ShowSpinner(t)
    PROVE  Timed' /\ ProfileHasRows' /\ SpinnersEnd'
  <1>1. CASE \/ \E tab \in {"groups", "profile"} : SwitchTab(tab)
             \/ \E b \in Buttons : PressButton(b)
             \/ \E k \in PostSlots : RefusePost(k) \/ LosePost(k)
    <2>1. UNCHANGED <<shown, fetches, timers>> /\ faulted \subseteq faulted'
      BY <1>1 DEF SwitchTab, PressButton, RefusePost, LosePost, view
    <2>2. Stay
      BY <2>1 DEF Stay
    <2> QED
      BY <2>1, <2>2, StayTimed, QuietSpins
  <1>2. ASSUME NEW g \in Groups, OpenGroupDetail(g) PROVE Timed' /\ ProfileHasRows' /\ SpinnersEnd'
    <2>1. PICK n \in Slots :
             /\ fetches[n] = Idle
             /\ fetches' \in [Slots -> {Idle} \cup Fetches]
             /\ fetches'[n] = Sent(Members(g), FALSE)
             /\ \A s \in Slots \ {n} : fetches'[s] = fetches[s]
             /\ timers' \subseteq timers \cup {[slot |-> n, list |-> "members"]}
             /\ timers' \subseteq [slot: Slots, list: Lists]
      BY <1>2, OpenGroupDetailDoes DEF SpinnerInv, TypeInv
    <2>2. Stay /\ Timed'
      <3>1. \A s \in Slots \ {n} :
                fetches[s] # Idle => fetches'[s] # Idle /\ fetches'[s].what = fetches[s].what
        BY <2>1
      <3>2. /\ Members(g) \in Subjects
            /\ timers' \subseteq timers \cup {[slot |-> n, list |-> Members(g).list]}
            /\ Members(g).list = "profile" => timers' = timers
        BY <2>1, SubjectsAre
      <3> QED
        BY <2>1, <3>1, <3>2, AskedStays
    <2>3. /\ \A l \in Lists : shown'[l] = shown[l] \/ (l = "members" /\ shown'[l] = Nothing("blank"))
          /\ UNCHANGED faulted
      BY <1>2, Parts DEF OpenGroupDetail, SpinnerInv, TypeInv
    <2>4. NoneNew
      BY <2>3, FacesDiffer DEF NoneNew
    <2>5. ProfileHasRows'
      BY <2>3 DEF ProfileHasRows, SpinnerInv
    <2> QED
      BY <2>2, <2>4, <2>5, StayEnd
  <1>3. CASE HandlePush
    <2>1. UNCHANGED <<shown, faulted>>
      BY <1>3 DEF HandlePush, view
    <2>2. Stay /\ Timed'
      <3>1. Head(pushes) \in Pushed
        BY <1>3 DEF HandlePush, TypeOK, TypeInv, SpinnerInv
      <3>2. Head(pushes).what \in Subjects
        BY <3>1 DEF Pushed
      <3>3. CASE Refetches(Head(pushes).what)
        BY <3>2, <3>3, RefetchesSpins
      <3>4. CASE UNCHANGED <<fetches, timers>>
        BY <3>4, StayTimed DEF Stay
      <3> QED
        BY <1>3, <3>3, <3>4 DEF HandlePush, Handles
    <2> QED
      BY <2>1, <2>2, QuietSpins
  <1>4. ASSUME NEW t \in timers, ShowSpinner(t) PROVE Timed' /\ ProfileHasRows' /\ SpinnersEnd'
    <2>1. /\ t.slot \in Slots /\ t.list \in Lists
          /\ fetches[t.slot] # Idle /\ fetches[t.slot].what.list = t.list /\ t.list # "profile"
      BY DEF SpinnerInv, Timed, TypeInv, TypeOK
    <2>2. /\ \A l \in Lists \ {t.list} : shown'[l] = shown[l]
          /\ UNCHANGED <<fetches, faulted>> /\ timers' \subseteq timers
      BY <1>4, Parts DEF ShowSpinner, SpinnerInv, TypeInv
    <2>3. Timed' /\ ProfileHasRows'
      BY <2>1, <2>2 DEF SpinnerInv, Timed, ProfileHasRows
    <2>4. SpinnersEnd'
      BY <2>1, <2>2 DEF SpinnerInv, SpinnersEnd
    <2> QED
      BY <2>3, <2>4
  <1> QED
    BY <1>1, <1>2, <1>3, <1>4

LEMMA SpinnerStep == SpinnerInv /\ [Next]_vars => SpinnerInv'
  <1> SUFFICES ASSUME SpinnerInv, [Next]_vars PROVE SpinnerInv'
    OBVIOUS
  <1>1. TypeInv'
    BY TypeStep DEF SpinnerInv
  <1>2. Timed' /\ ProfileHasRows' /\ SpinnersEnd'
    <2>1. CASE Taps
      BY <2>1, UserSpins DEF Taps
    <2>2. CASE Faults
      BY <2>2, ServerSpins, FailureSpins, UserSpins DEF Faults
    <2>3. CASE \E x \in Subjects : Changes(x)
      BY <2>3, ServerSpins
    <2>4. CASE Proceeds
      BY <2>4, ServerSpins, RenderSpins, FailureSpins, UserSpins, EndPostSpins DEF Proceeds
    <2>5. CASE UNCHANGED vars
      BY <2>5 DEF vars, SpinnerInv, Timed, ProfileHasRows, SpinnersEnd
    <2> QED
      BY <2>1, <2>2, <2>3, <2>4, <2>5 DEF Next
  <1> QED
    BY <1>1, <1>2 DEF SpinnerInv

LEMMA SpinnerInit == Init => SpinnerInv
  <1> SUFFICES ASSUME Init PROVE SpinnerInv
    OBVIOUS
  <1>1. TypeInv
    BY TypeInit
  <1>2. fetches[1] = Sent(GroupList, TRUE) /\ 1 \in Slots
    BY DEF Init, Sent, Slots
  <1>3. Timed
    <2>1. Sent(GroupList, TRUE) # Idle /\ Sent(GroupList, TRUE).what = GroupList
      BY SentFields, SubjectsAre
    <2>2. \A t \in timers : t.slot = 1 /\ t.list = "groups"
      BY DEF Init
    <2>3. fetches[1] # Idle /\ fetches[1].what.list = "groups"
      BY <1>2, <2>1, SubjectsAre
    <2> QED
      BY <2>2, <2>3 DEF Timed
  <1>4. ProfileHasRows /\ \A l \in Lists : shown[l] # Nothing("spinner")
    BY FacesDiffer DEF Init, ProfileHasRows, Rows, Nothing
  <1> QED
    BY <1>1, <1>3, <1>4 DEF SpinnerInv, SpinnersEnd

\* Every spinner is shown for a fetch of its own list that will take it away again
\* (showSpinnerIfSlow and its cancel in the finally of each fetch).
THEOREM SpinnersGoAway == Spec => []SpinnersEnd
  <1>1. Spec => []SpinnerInv
    BY SpinnerInit, SpinnerStep, PTL DEF Spec
  <1> QED
    BY <1>1, PTL DEF SpinnerInv

-----------------------------------------------------------------------------
(* What any step does to the fetches, to what is shown, and to the groups.  *)

Removed(s) == fetches'[s] = Idle
Asked(s) ==
    /\ fetches[s] = Idle
    /\ fetches'[s] # Idle /\ fetches'[s].age = "fresh" /\ fetches'[s].listed = {}
GrownOld(s) ==
    /\ fetches[s] # Idle /\ fetches[s].at = "answered"
    /\ fetches'[s] # Idle /\ fetches'[s].at = "answered" /\ fetches'[s].listed = fetches[s].listed
Answered(s) ==
    /\ fetches[s] # Idle /\ fetches'[s] # Idle /\ fetches'[s].at # "sent"
    /\ fetches'[s].listed \subseteq MyGroups \cup fetches[s].listed

FetchStep(s) == fetches'[s] = fetches[s] \/ Removed(s) \/ Asked(s) \/ GrownOld(s) \/ Answered(s)

LEMMA AgedStep ==
    ASSUME TypeOK, NEW xs, NEW from \in Ages, NEW to \in Ages, NEW s \in Slots,
           fetches'[s] = AgedFetches(xs, from, to)[s]
    PROVE  fetches'[s] = fetches[s] \/ GrownOld(s)
  <1> DEFINE a == AgedFetches(xs, from, to)[s]
  <1>1. /\ fetches[s] # Idle => a.at = fetches[s].at /\ a.listed = fetches[s].listed
        /\ a = Idle <=> fetches[s] = Idle
        /\ ~(fetches[s].at = "answered" /\ fetches[s].what \in xs /\ fetches[s].age = from) => a = fetches[s]
    BY AgedFetchesAre
  <1>2. fetches'[s] = a
    OBVIOUS
  <1> HIDE DEF a
  <1>3. CASE fetches[s].at = "answered" /\ fetches[s] # Idle
    BY <1>1, <1>2, <1>3 DEF GrownOld
  <1>4. CASE ~(fetches[s].at = "answered" /\ fetches[s] # Idle)
    BY <1>1, <1>2, <1>4
  <1> QED
    BY <1>3, <1>4

LEMMA RefetchesStep ==
    ASSUME TypeOK, NEW x \in Subjects, Refetches(x), NEW s \in Slots
    PROVE  FetchStep(s)
  <1>1. PICK n \in Slots :
             /\ fetches[n] = Idle
             /\ fetches' \in [Slots -> {Idle} \cup Fetches]
             /\ fetches'[n] = Sent(x, FALSE)
             /\ \A r \in Slots \ {n} : fetches'[r] = fetches[r]
             /\ timers' \subseteq timers \cup {[slot |-> n, list |-> x.list]}
             /\ timers' \subseteq [slot: Slots, list: Lists]
             /\ x.list = "profile" => timers' = timers
    BY RefetchesDoes
  <1>2. LET f == Sent(x, FALSE) IN f # Idle /\ f.age = "fresh" /\ f.listed = {}
    BY SentFields
  <1>3. CASE s = n
    BY <1>1, <1>2, <1>3 DEF FetchStep, Asked
  <1>4. CASE s # n
    BY <1>1, <1>4 DEF FetchStep
  <1> QED
    BY <1>3, <1>4

LEMMA PerformsOn ==
    ASSUME TypeInv, NEW k \in PostSlots, PerformPost(k)
    PROVE  \E x \in Subjects :
             /\ Performs(k, x)
             /\ \/ x = GroupList /\ posts[k].button \in {"create", "delete"}
                \/ x.list = "members" /\ posts[k].button \in {"add", "remove"}
                \/ x = Profile /\ posts[k].button = "role"
  <1>1. posts[k] \in Posts
    BY PostInUse DEF PerformPost, TypeInv
  <1>2. posts[k].button \in {"add", "remove"} =>
            Members(posts[k].group) \in Subjects /\ Members(posts[k].group).list = "members"
    BY <1>1, PostFields, SubjectsAre DEF TypeInv, Chosen
  <1>3. GroupList \in Subjects /\ Profile \in Subjects
    BY SubjectsAre
  <1> QED
    BY <1>2, <1>3 DEF PerformPost

LEMMA FetchFrame ==
    ASSUME TypeInv, Next, NEW s \in Slots
    PROVE  FetchStep(s)
  <1> USE DEF TypeInv
  <1>1. CASE UNCHANGED fetches
    BY <1>1 DEF FetchStep
  <1>2. ASSUME NEW x \in Subjects, Outdates(x) PROVE FetchStep(s)
    <2>1. fetches' = AgedFetches({x}, "fresh", "old")
      BY <1>2, OutdatesDoes
    <2> QED
      BY <2>1, AgedStep DEF FetchStep
  <1>3. CASE Taps
    <2>1. ASSUME NEW g \in Groups, OpenGroupDetail(g) PROVE FetchStep(s)
      <3>1. PICK n \in Slots :
             /\ fetches[n] = Idle
             /\ fetches' \in [Slots -> {Idle} \cup Fetches]
             /\ fetches'[n] = Sent(Members(g), FALSE)
             /\ \A r \in Slots \ {n} : fetches'[r] = fetches[r]
             /\ timers' \subseteq timers \cup {[slot |-> n, list |-> "members"]}
             /\ timers' \subseteq [slot: Slots, list: Lists]
        BY <2>1, OpenGroupDetailDoes
      <3>2. LET f == Sent(Members(g), FALSE) IN f # Idle /\ f.age = "fresh" /\ f.listed = {}
        BY SentFields, SubjectsAre
      <3> QED
        BY <3>1, <3>2 DEF FetchStep, Asked
    <2> QED
      BY <1>1, <1>3, <2>1 DEF Taps, SwitchTab, PressButton
  <1>4. ASSUME NEW r \in Slots, RenderError(r) \/ LoseFetch(r) \/ BreakAnswer(r) PROVE FetchStep(s)
    <2>1. fetches' = [fetches EXCEPT ![r] = Idle]
      BY <1>4 DEF RenderError, LoseFetch, BreakAnswer, Fails
    <2> QED
      BY <2>1, Parts DEF FetchStep, Removed
  <1>5. CASE Faults
    BY <1>1, <1>4, <1>5 DEF Faults, Disconnect, LosePost, view
  <1>6. CASE \E x \in Subjects : Changes(x)
    BY <1>2, <1>6 DEF Changes
  <1>7. CASE Proceeds
    <2>1. ASSUME NEW r \in Slots, Answers(r) PROVE FetchStep(s)
      <3>1. fetches[r] # Idle
        BY <2>1 DEF Answers
      <3>2. /\ \A q \in Slots \ {r} : fetches'[q] = fetches[q]
            /\ fetches'[r] # Idle /\ fetches'[r].listed \subseteq MyGroups \cup fetches[r].listed
            /\ fetches'[r].at = "answered" \/ fetches'[r].at = "failed"
        BY <2>1, AnswersStays
      <3> QED
        BY <3>1, <3>2 DEF FetchStep, Answered
    <2>2. ASSUME NEW r \in Slots, RenderAnswer(r) PROVE FetchStep(s)
      <3> DEFINE xs == IF fetches[r].age = "fresh" THEN {fetches[r].what} ELSE {}
                 aged == AgedFetches(xs, "old", "overtaken")
      <3>1. fetches' = [aged EXCEPT ![r] = Idle]
        BY <2>2 DEF RenderAnswer
      <3>2. aged \in [Slots -> {Idle} \cup Fetches]
        <4> HIDE DEF xs
        <4> QED
          BY AgedFetchesType
      <3>3. fetches'[s] = Idle \/ fetches'[s] = aged[s]
        <4> HIDE DEF aged
        <4> QED
          BY <3>1, <3>2
      <3>4. CASE fetches'[s] = aged[s]
        <4> HIDE DEF xs
        <4> QED
          BY <3>4, AgedStep DEF FetchStep
      <3> QED
        BY <3>3, <3>4 DEF FetchStep, Removed
    <2>3. ASSUME NEW k \in PostSlots, PerformPost(k) PROVE FetchStep(s)
      BY <1>2, <2>3, PerformsOn DEF Performs
    <2>4. CASE HandlePush
      <3>1. Head(pushes).what \in Subjects
        <4>1. Head(pushes) \in Pushed
          BY <2>4 DEF HandlePush, TypeOK
        <4> QED
          BY <4>1 DEF Pushed
      <3> QED
        BY <1>1, <2>4, <3>1, RefetchesStep DEF HandlePush, Handles
    <2>5. ASSUME NEW k \in PostSlots, EndPost(k) PROVE FetchStep(s)
      <3>1. posts[k] \in Posts /\ posts[k].button \in Buttons
        BY <2>5, PostInUse, PostFields DEF EndPost
      <3>2. CASE posts[k].button # "role"
        BY <2>5, <3>2, EndsByFetching, RefetchesStep
      <3>3. CASE posts[k].button = "role"
        <4>1. RoleEnds(k)
          BY <2>5, <3>3 DEF EndPost
        <4>2. PICK n \in Slots :
             /\ fetches[n] = Idle
             /\ fetches' \in [Slots -> {Idle} \cup Fetches]
             /\ fetches'[n] = Sent(GroupList, TRUE)
             /\ \A r \in Slots \ {n} : fetches'[r] = BesideRole(k)[r]
             /\ timers' \subseteq timers \cup {[slot |-> n, list |-> "groups"]}
             /\ timers' \subseteq [slot: Slots, list: Lists]
          BY <4>1, RoleEndsDoes
        <4>3. CASE s = n
          <5>1. LET f == Sent(GroupList, TRUE) IN f # Idle /\ f.age = "fresh" /\ f.listed = {}
            BY SentFields, SubjectsAre
          <5> QED
            BY <4>2, <4>3, <5>1 DEF FetchStep, Asked
        <4>4. CASE s # n
          <5> DEFINE xs == IF posts[k].age = "fresh" THEN {Profile} ELSE {}
          <5>1. fetches'[s] = AgedFetches(xs, "old", "overtaken")[s]
            BY <4>2, <4>4 DEF BesideRole
          <5> HIDE DEF xs
          <5> QED
            BY <5>1, AgedStep DEF FetchStep
        <4> QED
          BY <4>3, <4>4
      <3> QED
        BY <3>2, <3>3
    <2> QED
      BY <1>1, <1>4, <1>7, <2>1, <2>2, <2>3, <2>4, <2>5 DEF Proceeds, RefusePost, Send, Connect, ShowSpinner
  <1> QED
    BY <1>3, <1>5, <1>6, <1>7 DEF Next

KeptRows(l) ==
    /\ HasRows(l)
    /\ shown'[l].what = shown[l].what /\ shown'[l].listed = shown[l].listed
    /\ l = "members" => selected' = selected
    /\ l \in faulted => l \in faulted'

RenderedRows(l) ==
    /\ shown'[l].what \in Subjects /\ shown'[l].what.list = l
    /\ \A g \in shown'[l].listed : \E s \in Slots : fetches[s] # Idle /\ g \in fetches[s].listed
    /\ selected' = selected
    /\ l = "members" /\ shown'[l].what.group # selected => l \in faulted'

LEMMA ShownFrame ==
    ASSUME TypeInv, Next, NEW l \in Lists, shown'[l].face = "rows"
    PROVE  KeptRows(l) \/ RenderedRows(l)
  <1> USE DEF TypeInv
  <1>1. CASE UNCHANGED <<shown, selected>> /\ faulted \subseteq faulted'
    BY <1>1 DEF KeptRows, HasRows
  <1>2. ASSUME NEW x \in Subjects, Outdates(x), UNCHANGED <<selected, faulted>> PROVE KeptRows(l)
    <2>1. /\ shown'[l].face = shown[l].face
          /\ HasRows(l) => shown'[l].what = shown[l].what /\ shown'[l].listed = shown[l].listed
      BY <1>2, OutdatesDoes
    <2> QED
      BY <1>2, <2>1 DEF KeptRows, HasRows
  <1>3. CASE Taps
    <2>1. ASSUME NEW g \in Groups, OpenGroupDetail(g) PROVE KeptRows(l)
      <3>1. UNCHANGED faulted /\ shown' = [shown EXCEPT !["members"] = Nothing("blank")]
        BY <2>1 DEF OpenGroupDetail
      <3>2. l # "members" /\ shown'[l] = shown[l]
        BY <3>1, Parts, FacesAre
      <3> QED
        BY <3>1, <3>2 DEF KeptRows, HasRows
    <2> QED
      BY <1>1, <1>3, <2>1 DEF Taps, SwitchTab, PressButton, view
  <1>4. ASSUME NEW r \in Slots, RenderError(r) \/ LoseFetch(r) \/ BreakAnswer(r) PROVE KeptRows(l)
    <2>1. CASE RenderError(r) \/ LoseFetch(r)
      <3>1. fetches[r] \in Fetches /\ Fails(r)
        BY <2>1, FetchInUse DEF RenderError, LoseFetch
      <3>2. shown'[l] = shown[l] \/ shown'[l] = Nothing("error")
        BY <3>1, FailsDoes
      <3>3. shown'[l] = shown[l]
        BY <3>2, FacesAre
      <3>4. UNCHANGED selected /\ faulted \subseteq faulted'
        BY <2>1 DEF RenderError, LoseFetch
      <3> QED
        BY <3>3, <3>4 DEF KeptRows, HasRows
    <2>2. CASE BreakAnswer(r)
      BY <2>2 DEF BreakAnswer, view, KeptRows, HasRows
    <2> QED
      BY <1>4, <2>1, <2>2
  <1>5. CASE Faults
    BY <1>1, <1>4, <1>5 DEF Faults, Disconnect, LosePost, view
  <1>6. CASE \E x \in Subjects : Changes(x)
    BY <1>2, <1>6 DEF Changes
  <1>7. ASSUME NEW r \in Slots, RenderAnswer(r) PROVE KeptRows(l) \/ RenderedRows(l)
    <2> DEFINE y == fetches[r].what
    <2>1. /\ y \in Subjects
          /\ l # y.list => shown'[l] = shown[l] /\ (l \in faulted <=> l \in faulted')
          /\ l = y.list => \/ shown'[l] = Nothing("empty")
                           \/ shown'[l].what = y /\ shown'[l].listed \subseteq fetches[r].listed
          /\ l = y.list /\ y.list = "members" /\ y.group # selected => l \in faulted'
      BY <1>7, RenderAnswerShows
    <2>2. UNCHANGED selected /\ fetches[r] # Idle
      BY <1>7 DEF RenderAnswer
    <2>3. CASE l # y.list
      BY <2>1, <2>2, <2>3 DEF KeptRows, HasRows
    <2>4. CASE l = y.list
      <3>1. shown'[l].what = y /\ shown'[l].listed \subseteq fetches[r].listed
        BY <2>1, <2>4, FacesAre
      <3> QED
        BY <2>1, <2>2, <2>4, <3>1 DEF RenderedRows
    <2> QED
      BY <2>3, <2>4
  <1>8. ASSUME NEW k \in PostSlots, PerformPost(k) PROVE KeptRows(l)
    BY <1>2, <1>8, PerformsOn DEF Performs
  <1>9. ASSUME NEW k \in PostSlots, EndPost(k) PROVE KeptRows(l) \/ RenderedRows(l)
    <2>1. CASE posts[k].button # "role"
      BY <1>1, <1>9, <2>1, EndsByFetching
    <2>2. CASE posts[k].button = "role"
      <3>1. Renders(Profile, posts[k]) /\ posts[k].age \in Ages
        BY <1>9, <2>2, PostInUse, PostFields DEF EndPost, RoleEnds
      <3>2. Profile \in Subjects /\ Profile.list = "profile" /\ Profile # GroupList
        BY SubjectsAre
      <3>3. /\ \A m \in Lists \ {"profile"} : shown'[m] = shown[m]
            /\ shown'["profile"].what = Profile /\ shown'["profile"].listed \subseteq {}
            /\ faulted \ {"profile"} \subseteq faulted'
        BY <3>1, <3>2, RendersDoes
      <3>4. UNCHANGED selected
        BY <1>9 DEF EndPost
      <3>5. CASE l = "profile"
        BY <3>2, <3>3, <3>4, <3>5 DEF RenderedRows
      <3>6. CASE l # "profile"
        BY <3>3, <3>4, <3>6 DEF KeptRows, HasRows
      <3> QED
        BY <3>5, <3>6
    <2> QED
      BY <2>1, <2>2
  <1>10. ASSUME NEW t \in timers, ShowSpinner(t) PROVE KeptRows(l)
    <2>1. shown'[l] = shown[l] \/ shown'[l] = Nothing("spinner")
      BY <1>10, Parts DEF ShowSpinner
    <2>2. shown'[l] = shown[l]
      BY <2>1, FacesAre
    <2> QED
      BY <1>10, <2>2 DEF ShowSpinner, KeptRows, HasRows
  <1>11. CASE Proceeds
    <2>1. ASSUME NEW r \in Slots, Answers(r) PROVE KeptRows(l)
      BY <1>1, <2>1 DEF Answers, view, KeptRows, HasRows
    <2>2. CASE (\E k \in PostSlots : RefusePost(k)) \/ (\E p \in owed : Send(p)) \/ Connect \/ HandlePush
      BY <1>1, <2>2 DEF RefusePost, Send, Connect, HandlePush, view
    <2> QED
      BY <1>4, <1>7, <1>8, <1>9, <1>10, <1>11, <2>1, <2>2 DEF Proceeds
  <1> QED
    BY <1>3, <1>5, <1>6, <1>11 DEF Next

LEMMA GroupsFrame ==
    ASSUME TypeInv, Next
    PROVE  /\ \A g \in Groups : groups[g] # "new" => groups'[g] # "new"
           /\ selected' = selected \/ (HasRows("groups") /\ selected' \in shown["groups"].listed)
  <1> USE DEF TypeInv
  <1>1. ASSUME NEW h \in Groups, NEW from, NEW to \in {"in", "out"}, Membership(h, from, to)
        PROVE  \A g \in Groups : groups[g] # "new" => groups'[g] # "new"
    BY <1>1, Parts DEF Membership
  <1>2. CASE Taps
    BY <1>2 DEF Taps, SwitchTab, OpenGroupDetail, PressButton, server, view
  <1>3. CASE Faults
    BY <1>3 DEF Faults, Disconnect, LoseFetch, BreakAnswer, LosePost, server, view
  <1>4. CASE \E x \in Subjects : Changes(x)
    BY <1>1, <1>4 DEF Changes
  <1>5. ASSUME NEW k \in PostSlots, PerformPost(k)
        PROVE  /\ \A g \in Groups : groups[g] # "new" => groups'[g] # "new"
               /\ UNCHANGED selected
    <2>1. UNCHANGED selected
      BY <1>5, PerformsOn DEF Performs
    <2>2. posts[k] \in Posts
      BY <1>5, PostInUse DEF PerformPost
    <2>3. posts[k].button = "delete" => posts[k].group \in Groups
      BY <2>2, PostFields DEF Chosen
    <2>4. \A g \in Groups : groups[g] # "new" => groups'[g] # "new"
      BY <1>1, <1>5, <2>3 DEF PerformPost
    <2> QED
      BY <2>1, <2>4
  <1>6. CASE Proceeds
    <2>1. ASSUME NEW s \in Slots, Answers(s) \/ RenderAnswer(s) \/ RenderError(s)
          PROVE  UNCHANGED <<groups, selected>>
      BY <2>1 DEF Answers, RenderAnswer, RenderError, server, view
    <2>2. CASE (\E k \in PostSlots : RefusePost(k) \/ EndPost(k)) \/ (\E p \in owed : Send(p)) \/ Connect \/ HandlePush
               \/ (\E t \in timers : ShowSpinner(t))
      BY <2>2 DEF RefusePost, EndPost, Send, Connect, HandlePush, ShowSpinner, server, view
    <2> QED
      BY <1>5, <1>6, <2>1, <2>2 DEF Proceeds
  <1> QED
    BY <1>2, <1>3, <1>4, <1>6 DEF Next

-----------------------------------------------------------------------------
(* What is known of fetches, of rows and of the groups on the screen.       *)

UnansweredAreFresh ==
    /\ \A s \in Slots : fetches[s].at = "sent" => fetches[s].age = "fresh"
    /\ \A k \in PostSlots : posts[k].at = "sent" => posts[k].age = "fresh"

RowsAreOfTheirList == \A l \in Lists : HasRows(l) => shown[l].what \in Subjects /\ shown[l].what.list = l

\* Whatever the Mini App was ever told of, the user has been in.
SeenAreNotNew ==
    /\ selected # None => groups[selected] # "new"
    /\ HasRows("groups") => \A g \in shown["groups"].listed : groups[g] # "new"
    /\ \A s \in Slots : fetches[s] # Idle => \A g \in fetches[s].listed : groups[g] # "new"

\* Members of another group than the selected one are those of an answer out of order.
StraysAreFaulted ==
    HasRows("members") /\ "members" \notin faulted => shown["members"].what.group = selected

ScreenInv == TypeInv /\ UnansweredAreFresh /\ RowsAreOfTheirList /\ SeenAreNotNew /\ StraysAreFaulted

LEMMA PostFrame ==
    ASSUME TypeInv, UnansweredAreFresh, Next, NEW k \in PostSlots
    PROVE  posts'[k].at = "sent" => posts'[k].age = "fresh"
  <1> USE DEF TypeInv
  <1>0. posts \in [PostSlots -> {Idle} \cup Posts]
    BY DEF TypeOK
  <1>1. CASE posts'[k] = posts[k]
    BY <1>1 DEF UnansweredAreFresh
  <1>2. CASE posts'[k] = Idle
    BY <1>2
  <1>3. ASSUME NEW xs, NEW from \in Ages, NEW to \in Ages, posts'[k] = AgedPosts(xs, from, to)[k]
        PROVE  posts'[k].at = "sent" => posts'[k].age = "fresh"
    <2> DEFINE aged == AgedPosts(xs, from, to)[k]
    <2>1. /\ posts[k] # Idle => aged.at = posts[k].at
          /\ aged = Idle <=> posts[k] = Idle
          /\ ~(posts[k].at = "done" /\ posts[k].button = "role" /\ Profile \in xs /\ posts[k].age = from)
                => aged = posts[k]
      BY AgedPostsAre
    <2> HIDE DEF aged
    <2>2. CASE posts[k] = Idle
      BY <1>2, <1>3, <2>1, <2>2 DEF aged
    <2>3. CASE posts[k] # Idle /\ posts[k].at = "sent"
      <3>1. aged = posts[k]
        BY <2>1, <2>3
      <3> QED
        BY <1>3, <2>3, <3>1 DEF aged, UnansweredAreFresh
    <2>4. CASE posts[k] # Idle /\ posts[k].at # "sent"
      <3>1. aged.at # "sent"
        BY <2>1, <2>4
      <3> QED
        BY <1>3, <3>1 DEF aged
    <2> QED
      BY <2>2, <2>3, <2>4
  <1>4. CASE Taps
    <2>1. ASSUME NEW b \in Buttons, PressButton(b) PROVE posts'[k] = posts[k] \/ posts'[k].age = "fresh"
      BY <1>0, <2>1 DEF PressButton
    <2> QED
      BY <1>1, <1>4, <2>1 DEF Taps, SwitchTab, OpenGroupDetail
  <1>5. CASE Faults
    <2>1. ASSUME NEW j \in PostSlots, LosePost(j) PROVE posts'[k] = posts[k] \/ posts'[k] = Idle
      BY <1>0, <2>1 DEF LosePost
    <2> QED
      BY <1>1, <1>2, <1>5, <2>1 DEF Faults, Disconnect, LoseFetch, BreakAnswer
  <1>6. CASE \E x \in Subjects : Changes(x)
    BY <1>3, <1>6 DEF Changes
  <1>7. ASSUME NEW j \in PostSlots, PerformPost(j) PROVE posts'[k].at = "sent" => posts'[k].age = "fresh"
    <2>1. PICK x \in Subjects : Performs(j, x)
      BY <1>7, PerformsOn
    <2>2. posts[j] \in Posts /\ posts[j].at = "sent"
      BY <1>7, PostInUse DEF PerformPost
    <2>3. /\ posts'[j].at = "done"
          /\ k # j => posts'[k] = AgedPosts({x}, "fresh", "old")[k]
      <3>1. PostsPerformed(j, x)
        BY <2>1 DEF Performs, PostsPerformed
      <3>2. TypeOK
        BY DEF TypeInv
      <3> QED
        BY <2>2, <3>1, <3>2, PerformedPosts
    <2> QED
      BY <1>3, <2>3
  <1>8. CASE Proceeds
    <2>1. ASSUME NEW s \in Slots, RenderAnswer(s) PROVE posts'[k].at = "sent" => posts'[k].age = "fresh"
      BY <1>3, <2>1 DEF RenderAnswer
    <2>2. ASSUME NEW s \in Slots, Answers(s) \/ RenderError(s) PROVE UNCHANGED posts
      BY <2>2 DEF Answers, RenderError
    <2>3. ASSUME NEW j \in PostSlots, RefusePost(j) PROVE posts'[k] = posts[k] \/ posts'[k] = Idle
      BY <1>0, <2>3 DEF RefusePost
    <2>5. ASSUME NEW j \in PostSlots, EndPost(j) PROVE posts'[k].at = "sent" => posts'[k].age = "fresh"
      <3> DEFINE P == AgedPosts(RenderedFresh(posts[j], Profile), "old", "overtaken")
      <3>1. P \in [PostSlots -> {Idle} \cup Posts]
        BY AgedPostsType
      <3>2. posts' = [IF posts[j].button = "role" THEN P ELSE posts EXCEPT ![j] = Idle]
        BY <2>5 DEF EndPost
      <3> HIDE DEF P
      <3>3. posts'[k] = Idle \/ posts'[k] = P[k] \/ posts'[k] = posts[k]
        BY <1>0, <3>1, <3>2
      <3> QED
        BY <1>1, <1>2, <1>3, <3>3 DEF P
    <2>4. CASE (\E p \in owed : Send(p)) \/ Connect \/ HandlePush \/ (\E t \in timers : ShowSpinner(t))
      BY <1>1, <2>4 DEF Send, Connect, HandlePush, ShowSpinner
    <2> QED
      BY <1>1, <1>2, <1>7, <1>8, <2>1, <2>2, <2>3, <2>4, <2>5 DEF Proceeds
  <1> QED
    BY <1>4, <1>5, <1>6, <1>8 DEF Next

\* A list leaves the faulted ones only as it is rendered.
LEMMA FaultedFrame ==
    ASSUME TypeInv, Next, "members" \in faulted, "members" \notin faulted'
    PROVE  shown'["members"].what.group = selected' \/ shown'["members"].face # "rows"
  <1> USE DEF TypeInv
  <1>1. \E s \in Slots : RenderAnswer(s)
    <2>1. ASSUME NEW k \in PostSlots, EndPost(k) PROVE FALSE
      <3>1. CASE posts[k].button = "role"
        <4>1. Renders(Profile, posts[k]) /\ posts[k].age \in Ages
          BY <2>1, <3>1, PostInUse, PostFields DEF EndPost, RoleEnds
        <4>2. faulted \ {"profile"} \subseteq faulted'
          BY <4>1, RendersDoes, SubjectsAre
        <4> QED
          BY <4>2
      <3> QED
        BY <2>1, <3>1, EndsByFetching
    <2>2. CASE Taps
      BY <2>2 DEF Taps, SwitchTab, OpenGroupDetail, PressButton
    <2>3. CASE Faults
      BY <2>3 DEF Faults, Disconnect, LoseFetch, BreakAnswer, LosePost
    <2>4. CASE \E x \in Subjects : Changes(x)
      BY <2>4 DEF Changes
    <2>5. CASE Proceeds
      <3>1. \A k \in PostSlots : ~PerformPost(k)
        BY PerformsOn DEF Performs
      <3> QED
        BY <2>1, <2>5, <3>1
        DEF Proceeds, Answers, RenderError, RefusePost, Send, Connect, HandlePush, ShowSpinner
    <2> QED
      BY <2>2, <2>3, <2>4, <2>5 DEF Next
  <1>2. PICK s \in Slots : RenderAnswer(s)
    BY <1>1
  <1> DEFINE y == fetches[s].what
  <1>3. /\ "members" # y.list => ("members" \in faulted <=> "members" \in faulted')
        /\ y.list = "members" /\ y.group # selected => y.list \in faulted'
        /\ (y = GroupList /\ shown'[y.list] = Nothing("empty")) \/ shown'[y.list].what = y
    BY <1>2, RenderAnswerShows
  <1>4. y.list = "members" /\ y.group = selected /\ y # GroupList
    BY <1>3, SubjectsAre
  <1> QED
    BY <1>2, <1>3, <1>4 DEF RenderAnswer

LEMMA ScreenStep == ScreenInv /\ [Next]_vars => ScreenInv'
  <1> SUFFICES ASSUME ScreenInv, [Next]_vars PROVE ScreenInv'
    OBVIOUS
  <1> USE DEF ScreenInv
  <1>1. TypeInv'
    BY TypeStep
  <1>2. CASE UNCHANGED vars
    BY <1>1, <1>2
    DEF vars, UnansweredAreFresh, RowsAreOfTheirList, SeenAreNotNew, StraysAreFaulted, HasRows
  <1>3. CASE Next
    <2>1. UnansweredAreFresh'
      <3> SUFFICES ASSUME NEW s \in Slots, fetches'[s].at = "sent" PROVE fetches'[s].age = "fresh"
        BY <1>3, PostFrame DEF UnansweredAreFresh
      <3>1. fetches[s].at = "sent" => fetches[s].age = "fresh"
        BY DEF UnansweredAreFresh
      <3> QED
        BY <1>3, <3>1, FetchFrame DEF FetchStep, Removed, Asked, GrownOld, Answered
    <2>2. RowsAreOfTheirList'
      <3> SUFFICES ASSUME NEW l \in Lists, shown'[l].face = "rows"
                   PROVE  shown'[l].what \in Subjects /\ shown'[l].what.list = l
        BY DEF RowsAreOfTheirList, HasRows
      <3> QED
        BY <1>3, ShownFrame DEF KeptRows, RenderedRows, RowsAreOfTheirList
    <2>3. SeenAreNotNew'
      <3>1. /\ \A g \in Groups : groups[g] # "new" => groups'[g] # "new"
            /\ selected' = selected \/ (HasRows("groups") /\ selected' \in shown["groups"].listed)
        BY <1>3, GroupsFrame
      <3>2. selected' # None => groups'[selected'] # "new"
        BY <1>1, <3>1 DEF SeenAreNotNew, TypeInv, TypeOK
      <3>3. ASSUME shown'["groups"].face = "rows", NEW g \in shown'["groups"].listed
            PROVE  groups'[g] # "new"
        <4>1. shown'["groups"].listed \subseteq Groups
          BY <1>1, <3>3, RowFields DEF TypeInv, TypeOK, HasRows, Faces, Nothing
        <4>2. groups[g] # "new"
          BY <1>3, <3>3, ShownFrame DEF KeptRows, RenderedRows, SeenAreNotNew
        <4> QED
          BY <3>1, <4>1, <4>2
      <3>4. ASSUME NEW s \in Slots, fetches'[s] # Idle, NEW g \in fetches'[s].listed
            PROVE  groups'[g] # "new"
        <4>1. g \in Groups
          BY <1>1, <3>4, FetchFields DEF TypeInv, TypeOK
        <4>2. groups[g] # "new"
          <5>1. g \in MyGroups => groups[g] # "new"
            BY DEF MyGroups
          <5>2. fetches[s] # Idle /\ g \in fetches[s].listed => groups[g] # "new"
            BY DEF SeenAreNotNew
          <5> QED
            BY <1>3, <3>4, <5>1, <5>2, FetchFrame DEF FetchStep, Removed, Asked, GrownOld, Answered
        <4> QED
          BY <3>1, <4>1, <4>2
      <3> QED
        BY <3>2, <3>3, <3>4 DEF SeenAreNotNew, HasRows
    <2>4. StraysAreFaulted'
      <3> SUFFICES ASSUME shown'["members"].face = "rows", "members" \notin faulted'
                   PROVE  shown'["members"].what.group = selected'
        BY DEF StraysAreFaulted, HasRows
      <3>1. CASE "members" \in faulted
        BY <1>3, <3>1, FaultedFrame
      <3>2. CASE "members" \notin faulted
        BY <1>3, <3>2, ShownFrame DEF KeptRows, RenderedRows, StraysAreFaulted
      <3> QED
        BY <3>1, <3>2
    <2> QED
      BY <1>1, <2>1, <2>2, <2>3, <2>4
  <1> QED
    BY <1>2, <1>3

-----------------------------------------------------------------------------
(* What is old is being mended.                                             *)

\* A subject of the screen that no fault has touched.
Matters(x) ==
    /\ x.list \notin faulted
    /\ x.list = "members" => x.group = selected /\ x.group \in MyGroups

OldRows(x) == HasRows(x.list) /\ shown[x.list].what = x /\ ~shown[x.list].fresh
OldFetch(x) == \E s \in Slots : fetches[s].at = "answered" /\ fetches[s].what = x /\ fetches[s].age = "old"
OldRole(post) == post.at = "done" /\ post.button = "role" /\ post.age = "old"
OldPost(x) == x = Profile /\ \E k \in PostSlots : OldRole(posts[k])
Old(x) == OldRows(x) \/ OldFetch(x) \/ OldPost(x)

\* What will bring it up to date: a fetch that is not old, a push by others, or the
\* end of the request that changed it.
Fetching(x) ==
    \E s \in Slots : fetches[s].at \in {"sent", "answered"} /\ fetches[s].what = x /\ fetches[s].age = "fresh"
News(x) == [what |-> x, own |-> FALSE]
Pushing(x) == News(x) \in owed \/ \E i \in DOMAIN pushes : pushes[i] = News(x)
EndsFor(post, x) ==
    /\ post.at = "done"
    /\ \/ x = GroupList /\ post.button \in {"create", "delete"}
       \/ x.list = "members" /\ post.button \in {"add", "remove"}
       \/ x = Profile /\ post.button = "role" /\ post.age = "fresh"
Ending(x) == \E k \in PostSlots : EndsFor(posts[k], x)
Mending(x) == Fetching(x) \/ Pushing(x) \/ Ending(x)

OldIsMended == \A x \in Subjects : Matters(x) /\ Old(x) => Mending(x)

MendInv == ScreenInv /\ OldIsMended

\* Requests that grow old end for what they ended for, but a role that is not news any more.
LEMMA AgedEnds ==
    ASSUME TypeOK, NEW x \in Subjects, NEW xs, NEW from \in Ages, NEW to \in Ages, NEW k \in PostSlots
    PROVE  LET aged == AgedPosts(xs, from, to)[k] IN
           /\ EndsFor(posts[k], x) /\ (from = "old" \/ x \notin xs) => EndsFor(aged, x)
           /\ OldRole(aged) /\ (to # "old" \/ Profile \notin xs) => OldRole(posts[k])
           /\ from = "old" /\ to = "overtaken" /\ Profile \in xs => ~OldRole(aged)
  <1> PICK post : post = posts[k]
    OBVIOUS
  <1> PICK aged : aged = AgedPosts(xs, from, to)[k]
    OBVIOUS
  <1>1. /\ aged = Idle <=> post = Idle
        /\ post # Idle => aged.at = post.at /\ aged.button = post.button /\ aged.group = post.group
        /\ post.at = "done" /\ post.button = "role" /\ Profile \in xs /\ post.age = from => aged.age = to
        /\ ~(post.at = "done" /\ post.button = "role" /\ Profile \in xs /\ post.age = from) => aged = post
    BY AgedPostsAre
  <1>2. CASE post.at = "done" /\ post.button = "role" /\ Profile \in xs /\ post.age = from
    <2>1. aged.at = "done" /\ aged.button = "role" /\ aged.age = to
      BY <1>1, <1>2
    <2>2. EndsFor(post, x) => x = Profile /\ from = "fresh"
      BY <1>2 DEF EndsFor
    <2> QED
      BY <1>2, <2>1, <2>2 DEF OldRole
  <1>3. CASE aged = post /\ ~(post.at = "done" /\ post.button = "role" /\ Profile \in xs /\ post.age = from)
    BY <1>3 DEF OldRole
  <1> QED
    BY <1>1, <1>2, <1>3

\* Steps that leave a subject alone.
LEMMA LeftAlone ==
    ASSUME OldIsMended, NEW x \in Subjects, Matters(x), Old(x)' => Old(x), Mending(x) => Mending(x)', Old(x)'
    PROVE  Mending(x)'
  BY DEF OldIsMended

LEMMA OutdatesOther ==
    ASSUME TypeInv, NEW x \in Subjects, NEW y \in Subjects, x # y, Outdates(y)
    PROVE  /\ OldRows(x)' => OldRows(x)
           /\ OldFetch(x)' => OldFetch(x)
           /\ Fetching(x) => Fetching(x)'
  <1> USE DEF TypeInv
  <1>1. OldRows(x)' => OldRows(x)
    <2>1. x.list \in Lists
      BY SubjectFields
    <2> QED
      BY <2>1, OutdatesDoes DEF OldRows, HasRows
  <1>2. ASSUME NEW s \in Slots, fetches[s].what = x \/ fetches'[s].what = x
        PROVE  fetches'[s] = fetches[s]
    <2>1. fetches'[s] = AgedFetches({y}, "fresh", "old")[s]
      BY OutdatesDoes
    <2>2. CASE fetches[s] = Idle
      BY <2>1, <2>2, AgedFetchesAre
    <2>3. CASE fetches[s] # Idle
      <3>1. AgedFetches({y}, "fresh", "old")[s].what = fetches[s].what
        BY <2>3, AgedFetchesAre
      <3>2. fetches[s].what \notin {y}
        BY <1>2, <2>1, <3>1
      <3> QED
        BY <2>1, <3>2, AgedFetchesAre
    <2> QED
      BY <2>2, <2>3
  <1>3. OldFetch(x)' => OldFetch(x)
    BY <1>2 DEF OldFetch
  <1>4. Fetching(x) => Fetching(x)'
    BY <1>2 DEF Fetching
  <1> QED
    BY <1>1, <1>3, <1>4

LEMMA GroupsMatter ==
    ASSUME ScreenInv, NEW x \in Subjects, Matters(x)', UNCHANGED <<selected, faulted>>,
           groups' = groups \/ \E g \in Groups : Membership(g, "new", "in") \/ Membership(g, "in", "out")
    PROVE  Matters(x)
  <1>1. CASE groups' = groups
    BY <1>1 DEF Matters, MyGroups
  <1>2. ASSUME NEW g \in Groups, Membership(g, "new", "in") \/ Membership(g, "in", "out")
        PROVE  Matters(x)
    <2>1. \A h \in Groups : groups'[h] = "in" => groups[h] = "in" \/ (h = g /\ groups[g] = "new")
      BY <1>2, Parts DEF Membership, ScreenInv, TypeInv
    <2>2. x.list = "members" => groups[x.group] # "new"
      <3>1. x.list = "members" => x.group \in Groups /\ x.group = selected
        BY SubjectFields DEF Matters
      <3> QED
        BY <3>1 DEF ScreenInv, SeenAreNotNew
    <2> QED
      BY <2>1, <2>2 DEF Matters, MyGroups
  <1> QED
    BY <1>1, <1>2

LEMMA ChangesMends ==
    ASSUME MendInv, NEW y \in Subjects, Changes(y)
    PROVE  OldIsMended'
  <1> SUFFICES ASSUME NEW x \in Subjects, Matters(x)', Old(x)' PROVE Mending(x)'
    BY DEF OldIsMended
  <1> USE DEF MendInv, ScreenInv
  <1>1. CASE x = y
    BY <1>1 DEF Changes, Mending, Pushing, News
  <1>2. CASE x # y
    <2>1. Matters(x)
      BY GroupsMatter DEF Changes
    <2>2. /\ OldRows(x)' => OldRows(x)
          /\ OldFetch(x)' => OldFetch(x)
          /\ Fetching(x) => Fetching(x)'
      BY <1>2, OutdatesOther DEF Changes
    <2>3. Pushing(x) => Pushing(x)'
      BY DEF Changes, channel, Pushing
    <2>4. posts' = AgedPosts({y}, "fresh", "old")
      BY DEF Changes
    <2>5. OldPost(x)' => OldPost(x)
      <3>1. x = Profile => Profile \notin {y}
        BY <1>2
      <3> QED
        BY <2>4, <3>1, AgedEnds DEF OldPost, TypeInv
    <2>6. Ending(x) => Ending(x)'
      <3>1. x \notin {y}
        BY <1>2
      <3> QED
        BY <2>4, <3>1, AgedEnds DEF Ending, TypeInv
    <2> QED
      BY <2>1, <2>2, <2>3, <2>5, <2>6, LeftAlone DEF Old, Mending
  <1> QED
    BY <1>1, <1>2

LEMMA PerformMends ==
    ASSUME MendInv, NEW k \in PostSlots, PerformPost(k)
    PROVE  OldIsMended'
  <1> SUFFICES ASSUME NEW x \in Subjects, Matters(x)', Old(x)' PROVE Mending(x)'
    BY DEF OldIsMended
  <1> USE DEF MendInv, ScreenInv
  <1>1. PICK y \in Subjects :
             /\ Performs(k, y)
             /\ \/ y = GroupList /\ posts[k].button \in {"create", "delete"}
                \/ y.list = "members" /\ posts[k].button \in {"add", "remove"}
                \/ y = Profile /\ posts[k].button = "role"
    BY PerformsOn
  <1>2. posts[k] \in Posts /\ posts[k].at = "sent" /\ posts[k].age = "fresh"
    BY PostInUse DEF PerformPost, UnansweredAreFresh, TypeInv
  <1>3. /\ posts'[k].at = "done" /\ posts'[k].button = posts[k].button /\ posts'[k].age = posts[k].age
        /\ \A m \in PostSlots \ {k} : posts'[m] = AgedPosts({y}, "fresh", "old")[m]
    <2>1. PostsPerformed(k, y)
      BY <1>1 DEF Performs, PostsPerformed
    <2>2. TypeOK
      BY DEF TypeInv
    <2> QED
      BY <1>2, <2>1, <2>2, PerformedPosts
  <1>4. CASE x = y
    BY <1>1, <1>2, <1>3, <1>4 DEF Mending, Ending, EndsFor
  <1>5. CASE x # y
    <2>1. Matters(x)
      <3>1. posts[k].button = "delete" => posts[k].group \in Groups
        BY <1>2, PostFields DEF TypeInv, Chosen
      <3>2. groups' = groups \/ \E g \in Groups : Membership(g, "new", "in") \/ Membership(g, "in", "out")
        BY <3>1 DEF PerformPost
      <3> QED
        BY <1>1, <3>2, GroupsMatter DEF Performs
    <2>2. /\ OldRows(x)' => OldRows(x)
          /\ OldFetch(x)' => OldFetch(x)
          /\ Fetching(x) => Fetching(x)'
      BY <1>1, <1>5, OutdatesOther DEF Performs
    <2>3. Pushing(x) => Pushing(x)'
      BY <1>1 DEF Performs, channel, Pushing
    <2>4. OldPost(x)' => OldPost(x)
      <3> SUFFICES ASSUME x = Profile, NEW m \in PostSlots, OldRole(posts'[m]) PROVE OldRole(posts[m])
        BY DEF OldPost
      <3>1. m # k
        BY <1>2, <1>3 DEF OldRole
      <3>2. Profile \notin {y}
        BY <1>5
      <3> QED
        BY <1>3, <3>1, <3>2, AgedEnds DEF TypeInv
    <2>5. Ending(x) => Ending(x)'
      <3> SUFFICES ASSUME NEW m \in PostSlots, EndsFor(posts[m], x) PROVE EndsFor(posts'[m], x)
        BY DEF Ending
      <3>1. m # k
        BY <1>2 DEF EndsFor
      <3>2. x \notin {y}
        BY <1>5
      <3> QED
        BY <1>3, <3>1, <3>2, AgedEnds DEF TypeInv
    <2> QED
      BY <2>1, <2>2, <2>3, <2>4, <2>5, LeftAlone DEF Old, Mending
  <1> QED
    BY <1>4, <1>5

LEMMA AnswersMends ==
    ASSUME MendInv, NEW s \in Slots, Answers(s)
    PROVE  OldIsMended'
  <1> SUFFICES ASSUME NEW x \in Subjects, Matters(x)', Old(x)' PROVE Mending(x)'
    BY DEF OldIsMended
  <1> USE DEF MendInv, ScreenInv
  <1>1. /\ \A r \in Slots \ {s} : fetches'[r] = fetches[r]
        /\ fetches'[s].what = fetches[s].what /\ fetches'[s].age = fetches[s].age
        /\ \/ fetches'[s].at = "answered"
           \/ /\ fetches'[s].at = "failed" /\ fetches[s].what.list = "members"
              /\ fetches[s].what.group \notin MyGroups
    BY AnswersStays
  <1>2. fetches[s].at = "sent" /\ fetches[s].age = "fresh"
    BY DEF Answers, UnansweredAreFresh
  <1>3. UNCHANGED <<groups, owed, pushes, selected, shown, posts, faulted>>
    BY DEF Answers, server, channel, view
  <1>4. Matters(x)
    BY <1>3 DEF Matters, MyGroups
  <1>5. OldFetch(x)' => OldFetch(x)
    BY <1>1, <1>2 DEF OldFetch
  <1>6. Fetching(x) => Fetching(x)'
    <2> SUFFICES ASSUME NEW r \in Slots, fetches[r].at \in {"sent", "answered"},
                        fetches[r].what = x, fetches[r].age = "fresh"
                 PROVE  fetches'[r].at \in {"sent", "answered"} /\ fetches'[r].what = x
                        /\ fetches'[r].age = "fresh"
      BY DEF Fetching
    <2> QED
      BY <1>1, <1>4 DEF Matters
  <1> QED
    BY <1>3, <1>4, <1>5, <1>6, LeftAlone DEF Old, OldRows, OldPost, HasRows, Mending, Pushing, Ending

\* Steps that change nothing of what is answered or shown.
LEMMA ChannelMends ==
    ASSUME MendInv, (\E p \in owed : Send(p)) \/ Connect \/ Disconnect
    PROVE  OldIsMended'
  <1> SUFFICES ASSUME NEW x \in Subjects, Matters(x)', Old(x)' PROVE Mending(x)'
    BY DEF OldIsMended
  <1>1. UNCHANGED <<groups, selected, shown, fetches, posts>> /\ faulted \subseteq faulted'
    BY DEF Send, Connect, Disconnect, server, view
  <1>2. Matters(x)
    BY <1>1 DEF Matters, MyGroups
  <1>3. /\ Old(x)' => Old(x)
        /\ Fetching(x) => Fetching(x)'
        /\ Ending(x) => Ending(x)'
    BY <1>1 DEF Old, OldRows, OldFetch, OldPost, HasRows, Fetching, Ending
  <1>4. Touched(News(x)) = {x.list} /\ ~News(x).own /\ News(x).what = x
    BY <1>2 DEF Touched, News, Matters
  <1>5. Pushing(x) => Pushing(x)'
    <2>1. ASSUME NEW p \in owed, Send(p), Pushing(x) PROVE Pushing(x)'
      <3>1. CASE p # News(x)
        <4>1. CASE News(x) \in owed
          BY <2>1, <3>1, <4>1 DEF Send, Pushing
        <4>2. ASSUME NEW i \in DOMAIN pushes, pushes[i] = News(x) PROVE Pushing(x)'
          <5>1. pushes' = pushes \/ pushes' = Append(pushes, p)
            BY <2>1 DEF Send
          <5>2. pushes \in Seq(Pushed) /\ p \in Pushed
            BY DEF MendInv, ScreenInv, TypeInv, TypeOK
          <5>3. i \in DOMAIN pushes' /\ pushes'[i] = News(x)
            BY <4>2, <5>1, <5>2
          <5> QED
            BY <5>3 DEF Pushing
        <4> QED
          BY <2>1, <4>1, <4>2 DEF Pushing
      <3>2. CASE p = News(x)
        <4>1. ~(p.what.list = "members" /\ p.what.group \notin MyGroups)
          BY <1>2, <1>4, <3>2 DEF Matters
        <4>2. x.list \notin faulted'
          BY DEF Matters
        <4>3. CASE socket = "up"
          <5>1. pushes' = Append(pushes, p) /\ pushes \in Seq(Pushed)
            BY <2>1, <4>1, <4>3 DEF Send, MendInv, ScreenInv, TypeInv, TypeOK
          <5>2. Len(pushes) + 1 \in DOMAIN pushes' /\ pushes'[Len(pushes) + 1] = p
            BY <5>1
          <5> QED
            BY <3>2, <5>2 DEF Pushing
        <4>4. CASE socket # "up"
          <5>1. faulted' = faulted \cup Missed({p})
            BY <2>1, <4>1, <4>4 DEF Send
          <5>2. x.list \in Missed({p})
            BY <1>4, <3>2 DEF Missed
          <5> QED
            BY <4>2, <5>1, <5>2
        <4> QED
          BY <4>3, <4>4
      <3> QED
        BY <3>1, <3>2
    <2>2. CASE Connect
      BY <2>2 DEF Connect, server, Pushing
    <2>3. CASE Disconnect
      <3>1. ASSUME NEW i \in DOMAIN pushes, pushes[i] = News(x) PROVE FALSE
        <4>1. faulted' = faulted \cup Missed({pushes[j] : j \in DOMAIN pushes})
          BY <2>3 DEF Disconnect
        <4>2. x.list \in Missed({pushes[j] : j \in DOMAIN pushes})
          BY <1>4, <3>1 DEF Missed
        <4> QED
          BY <4>1, <4>2 DEF Matters
      <3> QED
        BY <2>3, <3>1 DEF Disconnect, server, Pushing
    <2> QED
      BY <2>1, <2>2, <2>3
  <1> QED
    BY <1>2, <1>3, <1>5, LeftAlone DEF MendInv, Mending

\* A fetch of one subject more: it is the one the subject's change asks for.
LEMMA AskedMends ==
    ASSUME MendInv, NEW x \in Subjects, NEW y \in Subjects, NEW entry \in BOOLEAN,
           NEW n \in Slots,
           fetches[n] = Idle,
           fetches'[n] = Sent(y, entry),
           \A s \in Slots \ {n} : fetches'[s] = fetches[s] \/ (fetches[s].what # x /\ fetches'[s].what # x)
    PROVE  /\ Fetching(y)'
           /\ OldFetch(x)' => OldFetch(x)
           /\ Fetching(x) => Fetching(x)'
  <1>1. /\ Sent(y, entry).at = "sent" /\ Sent(y, entry).what = y /\ Sent(y, entry).age = "fresh"
    BY SentFields
  <1>2. Fetching(y)'
    BY <1>1 DEF Fetching
  <1>3. OldFetch(x)' => OldFetch(x)
    BY <1>1 DEF OldFetch
  <1>4. Fetching(x) => Fetching(x)'
    <2> SUFFICES ASSUME NEW r \in Slots, fetches[r].at \in {"sent", "answered"},
                        fetches[r].what = x, fetches[r].age = "fresh"
                 PROVE  fetches'[r] = fetches[r]
      BY DEF Fetching
    <2>1. r # n
      OBVIOUS
    <2> QED
      BY <2>1
  <1> QED
    BY <1>2, <1>3, <1>4

LEMMA RefetchesMends ==
    ASSUME MendInv, NEW x \in Subjects, NEW y \in Subjects, Refetches(y)
    PROVE  /\ Fetching(y)'
           /\ OldFetch(x)' => OldFetch(x)
           /\ Fetching(x) => Fetching(x)'
  <1>1. PICK n \in Slots :
             /\ fetches[n] = Idle
             /\ fetches' \in [Slots -> {Idle} \cup Fetches]
             /\ fetches'[n] = Sent(y, FALSE)
             /\ \A s \in Slots \ {n} : fetches'[s] = fetches[s]
             /\ timers' \subseteq timers \cup {[slot |-> n, list |-> y.list]}
             /\ timers' \subseteq [slot: Slots, list: Lists]
             /\ y.list = "profile" => timers' = timers
    BY RefetchesDoes DEF MendInv, ScreenInv, TypeInv
  <1>2. \A s \in Slots \ {n} : fetches'[s] = fetches[s] \/ (fetches[s].what # x /\ fetches'[s].what # x)
    BY <1>1
  <1> QED
    BY <1>1, <1>2, AskedMends

LEMMA HandlePushMends ==
    ASSUME MendInv, HandlePush
    PROVE  OldIsMended'
  <1> SUFFICES ASSUME NEW x \in Subjects, Matters(x)', Old(x)' PROVE Mending(x)'
    BY DEF OldIsMended
  <1> USE DEF MendInv, ScreenInv
  <1>1. UNCHANGED <<groups, owed, selected, shown, posts, faulted>>
    BY DEF HandlePush, server, view
  <1>2. Matters(x)
    BY <1>1 DEF Matters, MyGroups
  <1>3. pushes \in Seq(Pushed) /\ pushes # <<>> /\ pushes' = Tail(pushes) /\ Head(pushes) \in Pushed
    BY DEF HandlePush, TypeInv, TypeOK
  <1>4. Head(pushes).what \in Subjects
    BY <1>3 DEF Pushed
  <1>5. /\ OldFetch(x)' => OldFetch(x)
        /\ Fetching(x) => Fetching(x)'
        /\ Head(pushes) = News(x) => Fetching(x)'
    <2>1. CASE Touched(Head(pushes)) = {}
      <3>1. Head(pushes) # News(x)
        BY <1>2, <2>1 DEF Touched, News, Matters
      <3>2. UNCHANGED fetches
        BY <2>1 DEF HandlePush, Handles
      <3> QED
        BY <3>1, <3>2 DEF OldFetch, Fetching
    <2>2. CASE Touched(Head(pushes)) # {}
      <3>1. PICK y \in Subjects : y = Head(pushes).what /\ Refetches(y)
        BY <1>4, <2>2 DEF HandlePush, Handles
      <3>2. Head(pushes) = News(x) => y = x
        BY <3>1 DEF News
      <3>3. /\ Fetching(y)'
            /\ OldFetch(x)' => OldFetch(x)
            /\ Fetching(x) => Fetching(x)'
        BY <3>1, RefetchesMends
      <3> QED
        BY <3>2, <3>3
    <2> QED
      BY <2>1, <2>2
  <1>6. Pushing(x) => Pushing(x)' \/ Fetching(x)'
    <2>1. CASE News(x) \in owed
      BY <1>1, <2>1 DEF Pushing
    <2>2. ASSUME NEW i \in DOMAIN pushes, pushes[i] = News(x), i # 1 PROVE Pushing(x)'
      <3>1. i - 1 \in DOMAIN pushes' /\ pushes'[i - 1] = News(x)
        BY <1>3, <2>2
      <3> QED
        BY <3>1 DEF Pushing
    <2>3. CASE pushes[1] = News(x)
      <3>1. Head(pushes) = News(x)
        BY <1>3, <2>3
      <3> QED
        BY <1>5, <3>1
    <2> QED
      BY <2>1, <2>2, <2>3 DEF Pushing
  <1>7. Old(x)' => Old(x)
    BY <1>1, <1>5 DEF Old, OldRows, OldPost, HasRows
  <1>8. Ending(x) => Ending(x)'
    BY <1>1 DEF Ending
  <1> QED
    BY <1>2, <1>5, <1>6, <1>7, <1>8, LeftAlone DEF Mending

LEMMA RenderMends ==
    ASSUME MendInv, NEW s \in Slots, RenderAnswer(s)
    PROVE  OldIsMended'
  <1> SUFFICES ASSUME NEW x \in Subjects, Matters(x)', Old(x)' PROVE Mending(x)'
    BY DEF OldIsMended
  <1> USE DEF MendInv, ScreenInv
  <1>1. PICK y \in Subjects : y = fetches[s].what
    BY RenderAnswerDoes
  <1>2. /\ fetches'[s] = Idle
        /\ \A r \in Slots \ {s} :
                /\ fetches'[r] = Idle <=> fetches[r] = Idle
                /\ fetches[r] # Idle => fetches'[r].at = fetches[r].at /\ fetches'[r].what = fetches[r].what
                /\ fetches[r].age # "old" \/ fetches[r].what # y \/ fetches[s].age # "fresh" =>
                        fetches'[r] = fetches[r]
                /\ fetches[s].age = "fresh" /\ fetches'[r].at = "answered" /\ fetches'[r].what = y =>
                        fetches'[r].age # "old"
    BY <1>1, RenderAnswerDoes
  <1>3. /\ y.list \in Lists
        /\ \A l \in Lists \ {y.list} : shown'[l] = shown[l]
        /\ \/ y = GroupList /\ shown'[y.list] = Nothing("empty")
           \/ shown'[y.list].face = "rows" /\ shown'[y.list].fresh = (fetches[s].age = "fresh")
        /\ faulted \ {y.list} \subseteq faulted' /\ faulted' \subseteq faulted \cup {y.list}
        /\ fetches[s].age = "overtaken" \/ (y.list = "members" /\ y.group # selected) => y.list \in faulted'
        /\ fetches[s].age = "old" /\ y.list \in faulted => y.list \in faulted'
    BY <1>1, RenderAnswerShows
  <1>4. UNCHANGED <<groups, owed, pushes, selected>> /\ fetches[s] \in Fetches /\ fetches[s].at = "answered"
    BY RenderAnswerDoes DEF RenderAnswer, server
  <1> DEFINE xs == IF fetches[s].age = "fresh" THEN {y} ELSE {}
  <1>5. posts' = AgedPosts(xs, "old", "overtaken")
    BY <1>1 DEF RenderAnswer
  <1>6. x.list \in Lists /\ (x.list = "members" => x.group = selected)
    BY <1>4, SubjectFields DEF Matters
  <1>7. Ending(x) => Ending(x)'
    <2> HIDE DEF xs
    <2> QED
      BY <1>5, AgedEnds DEF Ending, TypeInv
  <1>8. Pushing(x) => Pushing(x)'
    BY <1>4 DEF Pushing
  <1>9. CASE x.list # y.list
    <2>1. Matters(x)
      BY <1>3, <1>4, <1>6, <1>9 DEF Matters, MyGroups
    <2>2. x # y
      BY <1>9
    <2>3. OldRows(x)' => OldRows(x)
      BY <1>3, <1>6, <1>9 DEF OldRows, HasRows
    <2>4. OldFetch(x)' => OldFetch(x)
      <3> SUFFICES ASSUME NEW r \in Slots, fetches'[r].at = "answered", fetches'[r].what = x,
                          fetches'[r].age = "old"
                   PROVE  fetches'[r] = fetches[r]
        BY DEF OldFetch
      <3>1. r # s /\ fetches'[r] # Idle
        BY <1>2
      <3>2. fetches[r].what = x
        BY <1>2, <3>1
      <3> QED
        BY <1>2, <2>2, <3>1, <3>2
    <2>5. Fetching(x) => Fetching(x)'
      <3> SUFFICES ASSUME NEW r \in Slots, fetches[r].what = x PROVE fetches'[r] = fetches[r]
        BY DEF Fetching
      <3>1. r # s
        BY <1>1, <2>2
      <3> QED
        BY <1>2, <2>2, <3>1
    <2>6. OldPost(x)' => OldPost(x)
      <3>1. "overtaken" # "old"
        OBVIOUS
      <3> HIDE DEF xs
      <3> QED
        BY <1>5, <3>1, AgedEnds DEF OldPost, TypeInv
    <2> QED
      BY <1>7, <1>8, <2>1, <2>3, <2>4, <2>5, <2>6, LeftAlone DEF Old, Mending
  <1>10. CASE x.list = y.list
    <2>1. x.list \notin faulted'
      BY DEF Matters
    <2>2. y = x
      <3>1. x.list = "members" => y.group = x.group
        BY <1>3, <1>6, <1>10, <2>1
      <3> QED
        BY <1>10, <3>1, SubjectFields
    <2>3. CASE fetches[s].age = "fresh"
      <3>1. ~OldRows(x)'
        <4>1. shown'[x.list].face # "rows" \/ shown'[x.list].fresh = TRUE
          BY <1>3, <2>2, <2>3, FacesAre
        <4> QED
          BY <4>1 DEF OldRows, HasRows
      <3>2. ~OldFetch(x)'
        BY <1>2, <2>2, <2>3 DEF OldFetch
      <3>3. ~OldPost(x)'
        <4>1. x = Profile => Profile \in xs
          BY <2>2, <2>3
        <4> HIDE DEF xs
        <4> QED
          BY <1>5, <4>1, AgedEnds DEF OldPost, TypeInv
      <3> QED
        BY <3>1, <3>2, <3>3 DEF Old
    <2>4. CASE fetches[s].age # "fresh"
      <3>1. fetches[s].age = "old"
        BY <1>3, <1>4, <2>1, <2>2, <2>4, FetchFields
      <3>2. Matters(x)
        BY <1>3, <1>4, <1>6, <2>1, <2>2, <3>1 DEF Matters, MyGroups
      <3>3. Old(x)
        BY <1>1, <1>4, <2>2, <3>1 DEF Old, OldFetch
      <3>4. Fetching(x) => Fetching(x)'
        <4> SUFFICES ASSUME NEW r \in Slots, fetches[r].age = "fresh" PROVE fetches'[r] = fetches[r]
          BY DEF Fetching
        <4>1. r # s
          BY <2>4
        <4> QED
          BY <1>2, <4>1
      <3> QED
        BY <1>7, <1>8, <3>2, <3>3, <3>4 DEF OldIsMended, Mending
    <2> QED
      BY <2>3, <2>4
  <1> QED
    BY <1>9, <1>10

LEMMA FailureMends ==
    ASSUME MendInv, NEW s \in Slots, RenderError(s) \/ LoseFetch(s) \/ BreakAnswer(s)
    PROVE  OldIsMended'
  <1> SUFFICES ASSUME NEW x \in Subjects, Matters(x)', Old(x)' PROVE Mending(x)'
    BY DEF OldIsMended
  <1> USE DEF MendInv, ScreenInv
  <1>1. fetches[s] \in Fetches
    BY FetchInUse DEF RenderError, LoseFetch, BreakAnswer, TypeInv
  <1>2. /\ fetches' = [fetches EXCEPT ![s] = Idle]
        /\ UNCHANGED <<groups, owed, pushes, selected, posts>>
        /\ faulted \subseteq faulted'
        /\ \A l \in Lists : shown'[l] = shown[l] \/ shown'[l] = Nothing("error")
        /\ fetches[s].at = "failed" \/ fetches[s].what.list \in faulted'
    <2>1. CASE RenderError(s) \/ LoseFetch(s)
      <3>1. Fails(s)
        BY <2>1 DEF RenderError, LoseFetch
      <3>2. fetches' = [fetches EXCEPT ![s] = Idle]
        BY <3>1 DEF Fails
      <3>3. \A l \in Lists : shown'[l] = shown[l] \/ shown'[l] = Nothing("error")
        BY <1>1, <3>1, FailsDoes DEF TypeInv
      <3> QED
        BY <2>1, <3>2, <3>3 DEF RenderError, LoseFetch, server
    <2>2. CASE BreakAnswer(s)
      BY <2>2 DEF BreakAnswer, server, channel, view
    <2> QED
      BY <2>1, <2>2
  <1>3. Matters(x)
    BY <1>2 DEF Matters, MyGroups
  <1>4. fetches'[s] = Idle /\ \A r \in Slots \ {s} : fetches'[r] = fetches[r]
    BY <1>2, Parts DEF TypeInv
  <1>5. OldFetch(x)' => OldFetch(x)
    BY <1>4 DEF OldFetch
  <1>6. Fetching(x) => Fetching(x)'
    <2> SUFFICES ASSUME NEW r \in Slots, fetches[r].at \in {"sent", "answered"}, fetches[r].what = x
                 PROVE  fetches'[r] = fetches[r]
      BY DEF Fetching
    <2>1. r # s
      BY <1>2 DEF Matters
    <2> QED
      BY <1>4, <2>1
  <1>7. OldRows(x)' => OldRows(x)
    <2>1. x.list \in Lists /\ Nothing("error").face # "rows"
      BY SubjectFields, FacesAre
    <2> QED
      BY <1>2, <2>1 DEF OldRows, HasRows
  <1>8. (OldPost(x)' => OldPost(x)) /\ (Pushing(x) => Pushing(x)') /\ (Ending(x) => Ending(x)')
    BY <1>2 DEF OldPost, Pushing, Ending
  <1> QED
    BY <1>3, <1>5, <1>6, <1>7, <1>8, LeftAlone DEF Old, Mending

LEMMA UserMends ==
    ASSUME MendInv,
           \/ \E t \in timers : ShowSpinner(t)
           \/ \E tab \in {"groups", "profile"} : SwitchTab(tab)
           \/ \E b \in Buttons : PressButton(b)
           \/ \E k \in PostSlots : RefusePost(k) \/ LosePost(k)
    PROVE  OldIsMended'
  <1> SUFFICES ASSUME NEW x \in Subjects, Matters(x)', Old(x)' PROVE Mending(x)'
    BY DEF OldIsMended
  <1> USE DEF MendInv, ScreenInv
  <1>1. UNCHANGED <<groups, owed, pushes, selected, fetches>> /\ faulted \subseteq faulted'
    BY DEF ShowSpinner, SwitchTab, PressButton, RefusePost, LosePost, server, channel, view
  <1>2. Matters(x)
    BY <1>1 DEF Matters, MyGroups
  <1>3. OldRows(x)' => OldRows(x)
    <2>1. \A l \in Lists : shown'[l] = shown[l] \/ shown'[l] = Nothing("spinner")
      BY Parts DEF ShowSpinner, SwitchTab, PressButton, RefusePost, LosePost, view, TypeInv
    <2>2. x.list \in Lists /\ Nothing("spinner").face # "rows"
      BY SubjectFields, FacesAre
    <2> QED
      BY <2>1, <2>2 DEF OldRows, HasRows
  <1>0. posts \in [PostSlots -> {Idle} \cup Posts]
    BY DEF TypeInv, TypeOK
  <1>4. OldPost(x)' => OldPost(x)
    <2>1. ASSUME NEW k \in PostSlots PROVE posts'[k] = posts[k] \/ posts'[k].at # "done"
      BY <1>0 DEF ShowSpinner, SwitchTab, PressButton, RefusePost, LosePost
    <2> QED
      BY <2>1 DEF OldPost, OldRole
  <1>5. Ending(x) => Ending(x)'
    <2> SUFFICES ASSUME NEW k \in PostSlots, EndsFor(posts[k], x) PROVE posts'[k] = posts[k]
      BY DEF Ending
    <2>0. posts[k].at = "done" /\ posts[k] # Idle
      BY DEF EndsFor
    <2>1. ASSUME NEW m \in PostSlots, LosePost(m) PROVE posts'[k] = posts[k]
      <3>1. faulted' = faulted \cup
            {CASE posts[m].button \in {"create", "delete"} -> "groups"
               [] posts[m].button = "role" -> "profile"
               [] OTHER -> "members"}
        BY <2>1 DEF LosePost
      <3>2. x.list \notin faulted'
        BY DEF Matters
      <3>3. GroupList.list = "groups" /\ Profile.list = "profile"
        BY SubjectsAre
      <3>4. m # k
        BY <3>1, <3>2, <3>3 DEF EndsFor
      <3> QED
        BY <1>0, <2>1, <3>4 DEF LosePost
    <2>2. ASSUME NEW b \in Buttons, PressButton(b) PROVE posts'[k] = posts[k]
      <3>1. NextPost \in FreePosts
        BY <2>2 DEF PressButton, NextPost
      <3>2. NextPost # k
        BY <2>0, <3>1 DEF FreePosts
      <3> QED
        BY <1>0, <2>2, <3>2 DEF PressButton
    <2>3. ASSUME NEW m \in PostSlots, RefusePost(m) PROVE posts'[k] = posts[k]
      <3>1. m # k
        BY <2>0, <2>3 DEF RefusePost
      <3> QED
        BY <1>0, <2>3, <3>1 DEF RefusePost
    <2> QED
      BY <2>1, <2>2, <2>3 DEF ShowSpinner, SwitchTab
  <1>6. /\ OldFetch(x)' => OldFetch(x)
        /\ Fetching(x) => Fetching(x)'
        /\ Pushing(x) => Pushing(x)'
    BY <1>1 DEF OldFetch, Fetching, Pushing
  <1> QED
    BY <1>2, <1>3, <1>4, <1>5, <1>6, LeftAlone DEF Old, Mending

LEMMA OpenMends ==
    ASSUME MendInv, NEW g \in Groups, OpenGroupDetail(g)
    PROVE  OldIsMended'
  <1> SUFFICES ASSUME NEW x \in Subjects, Matters(x)', Old(x)' PROVE Mending(x)'
    BY DEF OldIsMended
  <1> USE DEF MendInv, ScreenInv
  <1>1. PICK y \in Subjects : y = Members(g)
    BY SubjectsAre
  <1>2. /\ Fetching(y)'
        /\ OldFetch(x)' => OldFetch(x)
        /\ Fetching(x) => Fetching(x)'
    <2>1. PICK n \in Slots :
             /\ fetches[n] = Idle
             /\ fetches' \in [Slots -> {Idle} \cup Fetches]
             /\ fetches'[n] = Sent(Members(g), FALSE)
             /\ \A s \in Slots \ {n} : fetches'[s] = fetches[s]
             /\ timers' \subseteq timers \cup {[slot |-> n, list |-> "members"]}
             /\ timers' \subseteq [slot: Slots, list: Lists]
      BY OpenGroupDetailDoes DEF TypeInv
    <2>2. /\ fetches'[n] = Sent(y, FALSE)
          /\ \A s \in Slots \ {n} : fetches'[s] = fetches[s] \/ (fetches[s].what # x /\ fetches'[s].what # x)
      BY <1>1, <2>1
    <2> QED
      BY <2>1, <2>2, AskedMends
  <1>3. /\ selected' = g
        /\ UNCHANGED <<groups, owed, pushes, posts, faulted>>
        /\ \A l \in Lists \ {"members"} : shown'[l] = shown[l]
    BY Parts DEF OpenGroupDetail, server, channel, TypeInv
  <1>4. CASE x.list = "members"
    <2>1. x.group = g
      BY <1>3, <1>4 DEF Matters
    <2>2. x = y
      BY <1>1, <1>4, <2>1, SubjectFields
    <2> QED
      BY <1>2, <2>2 DEF Mending
  <1>5. CASE x.list # "members"
    <2>1. Matters(x)
      BY <1>3, <1>5 DEF Matters
    <2>2. OldRows(x)' => OldRows(x)
      BY <1>3, <1>5, SubjectFields DEF OldRows, HasRows
    <2>3. (OldPost(x)' => OldPost(x)) /\ (Pushing(x) => Pushing(x)') /\ (Ending(x) => Ending(x)')
      BY <1>3 DEF OldPost, Pushing, Ending
    <2> QED
      BY <1>2, <2>1, <2>2, <2>3, LeftAlone DEF Old, Mending
  <1> QED
    BY <1>4, <1>5

\* The profile of the answer is rendered beside what is on its way.
LEMMA RoleMends ==
    ASSUME MendInv, NEW k \in PostSlots, EndPost(k), posts[k].button = "role"
    PROVE  OldIsMended'
  <1> SUFFICES ASSUME NEW x \in Subjects, Matters(x)', Old(x)' PROVE Mending(x)'
    BY DEF OldIsMended
  <1> USE DEF MendInv, ScreenInv
  <1>1. RoleEnds(k) /\ UNCHANGED <<groups, owed, pushes, selected>>
    BY DEF EndPost, server, channel
  <1>2. posts[k] \in Posts /\ posts[k].at = "done" /\ posts[k].age \in Ages
    BY PostInUse, PostFields DEF EndPost, TypeInv
  <1>3. /\ \A l \in Lists \ {"profile"} : shown'[l] = shown[l]
        /\ shown'["profile"].fresh = (posts[k].age = "fresh")
        /\ faulted \ {"profile"} \subseteq faulted' /\ faulted' \subseteq faulted \cup {"profile"}
        /\ posts[k].age = "overtaken" => "profile" \in faulted'
        /\ posts[k].age = "old" /\ "profile" \in faulted => "profile" \in faulted'
    <2>1. Renders(Profile, posts[k])
      BY <1>1 DEF RoleEnds
    <2>2. Profile \in Subjects /\ Profile.list = "profile" /\ Profile # GroupList
      BY SubjectsAre
    <2> QED
      BY <1>2, <2>1, <2>2, RendersDoes DEF TypeInv
  <1>4. PICK n \in Slots :
             /\ fetches[n] = Idle
             /\ fetches' \in [Slots -> {Idle} \cup Fetches]
             /\ fetches'[n] = Sent(GroupList, TRUE)
             /\ \A s \in Slots \ {n} : fetches'[s] = BesideRole(k)[s]
             /\ timers' \subseteq timers \cup {[slot |-> n, list |-> "groups"]}
             /\ timers' \subseteq [slot: Slots, list: Lists]
    BY <1>1, RoleEndsDoes DEF TypeInv
  <1> DEFINE xs == IF posts[k].age = "fresh" THEN {Profile} ELSE {}
  <1>5. ASSUME NEW s \in Slots
        PROVE  /\ BesideRole(k)[s] = Idle <=> fetches[s] = Idle
               /\ fetches[s] # Idle => BesideRole(k)[s].at = fetches[s].at /\ BesideRole(k)[s].what = fetches[s].what
               /\ fetches[s].at = "answered" /\ fetches[s].what \in xs /\ fetches[s].age = "old"
                        => BesideRole(k)[s].age = "overtaken"
               /\ ~(fetches[s].at = "answered" /\ fetches[s].what \in xs /\ fetches[s].age = "old")
                        => BesideRole(k)[s] = fetches[s]
    <2>1. BesideRole(k) = AgedFetches(xs, "old", "overtaken")
      BY DEF BesideRole
    <2> HIDE DEF xs
    <2> QED
      BY <2>1, AgedFetchesAre DEF TypeInv
  <1>11. posts'[k] = Idle /\ \A m \in PostSlots \ {k} : posts'[m] = AgedPosts(xs, "old", "overtaken")[m]
    <2> DEFINE P == AgedPosts(xs, "old", "overtaken")
    <2>1. P \in [PostSlots -> {Idle} \cup Posts]
      <3> HIDE DEF xs
      <3> QED
        BY AgedPostsType DEF TypeInv
    <2>2. posts' = [P EXCEPT ![k] = Idle]
      BY DEF EndPost
    <2> HIDE DEF P
    <2>3. posts'[k] = Idle /\ \A m \in PostSlots \ {k} : posts'[m] = P[m]
      BY <2>1, <2>2
    <2> QED
      BY <2>3 DEF P
  <1>12. /\ OldPost(x)' => OldPost(x)
         /\ Profile \in xs => ~OldPost(x)'
    <2> HIDE DEF xs
    <2>1. ASSUME NEW m \in PostSlots, OldRole(posts'[m])
          PROVE  m # k
      BY <1>11, <2>1 DEF OldRole
    <2>2. ASSUME NEW m \in PostSlots, OldRole(posts'[m])
          PROVE  OldRole(posts[m]) /\ Profile \notin xs
      BY <1>11, <2>1, <2>2, AgedEnds DEF TypeInv
    <2> QED
      BY <2>2 DEF OldPost
  <1>13. ~EndsFor(posts[k], x) => (Ending(x) => Ending(x)')
    <2> HIDE DEF xs
    <2> SUFFICES ASSUME NEW m \in PostSlots, EndsFor(posts[m], x), m # k PROVE EndsFor(posts'[m], x)
      BY DEF Ending
    <2> QED
      BY <1>11, AgedEnds DEF TypeInv
  <1>6. Pushing(x) => Pushing(x)'
    BY <1>1 DEF Pushing
  <1>7. GroupList \in Subjects /\ TRUE \in BOOLEAN /\ Profile.list = "profile"
    BY SubjectsAre
  <1>8. ASSUME x \notin xs
        PROVE  (OldFetch(x)' => OldFetch(x)) /\ (Fetching(x) => Fetching(x)')
    <2> HIDE DEF xs
    <2>1. \A s \in Slots \ {n} : fetches'[s] = fetches[s] \/ (fetches[s].what # x /\ fetches'[s].what # x)
      <3> SUFFICES ASSUME NEW s \in Slots \ {n}, fetches[s].what = x \/ fetches'[s].what = x
                   PROVE  fetches'[s] = fetches[s]
        OBVIOUS
      <3>1. fetches'[s] = BesideRole(k)[s]
        BY <1>4
      <3>2. CASE fetches[s] = Idle
        BY <1>5, <3>1, <3>2
      <3>3. CASE fetches[s] # Idle
        <4>1. fetches[s].what = x
          BY <1>5, <3>1, <3>3
        <4> QED
          BY <1>5, <1>8, <3>1, <4>1
      <3> QED
        BY <3>2, <3>3
    <2> QED
      BY <1>4, <1>7, <2>1, AskedMends
  <1>9. CASE x # Profile
    <2>1. x.list # "profile" /\ x.list \in Lists
      BY <1>9, SubjectFields
    <2>2. Matters(x)
      BY <1>1, <1>3, <2>1 DEF Matters, MyGroups
    <2>3. OldRows(x)' => OldRows(x)
      BY <1>3, <2>1 DEF OldRows, HasRows
    <2>4. ~EndsFor(posts[k], x)
      <3>1. posts[k].button \notin {"create", "delete", "add", "remove"}
        OBVIOUS
      <3> QED
        BY <1>9, <3>1 DEF EndsFor
    <2> QED
      BY <1>6, <1>8, <1>9, <1>12, <1>13, <2>2, <2>3, <2>4, LeftAlone DEF Old, Mending
  <1>10. CASE x = Profile
    <2>1. x.list = "profile" /\ "profile" \notin faulted' /\ posts[k].age # "overtaken"
      BY <1>3, <1>7, <1>10 DEF Matters
    <2>2. CASE posts[k].age = "fresh"
      <3>1. ~OldRows(x)'
        BY <1>3, <2>1, <2>2 DEF OldRows
      <3>2. ~OldFetch(x)'
        <4> SUFFICES ASSUME NEW s \in Slots, fetches'[s].at = "answered", fetches'[s].what = x,
                            fetches'[s].age = "old"
                     PROVE  FALSE
          BY DEF OldFetch
        <4>1. s # n
          <5>1. Sent(GroupList, TRUE).at = "sent"
            BY <1>7, SentFields
          <5> QED
            BY <1>4, <5>1
        <4>2. fetches'[s] = BesideRole(k)[s] /\ fetches[s] # Idle
          BY <1>4, <1>5, <4>1
        <4>3. fetches[s].at = "answered" /\ fetches[s].what = x
          BY <1>5, <4>2
        <4> QED
          BY <1>5, <1>10, <2>2, <4>2, <4>3
      <3> QED
        BY <1>10, <1>12, <2>2, <3>1, <3>2 DEF Old
    <2>3. CASE posts[k].age # "fresh"
      <3>1. posts[k].age = "old"
        BY <1>2, <2>1, <2>3
      <3>2. Matters(x)
        BY <1>3, <2>1, <3>1 DEF Matters
      <3>3. Old(x)
        BY <1>2, <1>10, <3>1 DEF Old, OldPost, OldRole
      <3>4. ~EndsFor(posts[k], x)
        BY <1>10, <2>1, <2>3 DEF EndsFor
      <3>5. x \notin xs
        BY <2>3
      <3> QED
        BY <1>6, <1>8, <1>13, <3>2, <3>3, <3>4, <3>5 DEF OldIsMended, Mending
    <2> QED
      BY <2>2, <2>3
  <1> QED
    BY <1>9, <1>10

LEMMA EndPostMends ==
    ASSUME MendInv, NEW k \in PostSlots, EndPost(k)
    PROVE  OldIsMended'
  <1>1. CASE posts[k].button = "role"
    BY <1>1, RoleMends
  <1>2. CASE posts[k].button # "role"
    <2> SUFFICES ASSUME NEW x \in Subjects, Matters(x)', Old(x)' PROVE Mending(x)'
      BY DEF OldIsMended
    <2> USE DEF MendInv, ScreenInv
    <2>1. UNCHANGED <<shown, faulted, groups, selected, pushes, owed>> /\ posts' = [posts EXCEPT ![k] = Idle]
      BY <1>2, EndsByFetching DEF EndPost
    <2>0. posts'[k] = Idle /\ \A m \in PostSlots \ {k} : posts'[m] = posts[m]
      BY <2>1 DEF TypeInv, TypeOK
    <2>2. PICK y \in Subjects :
            /\ Refetches(y)
            /\ \/ y = GroupList /\ posts[k].button \in {"create", "delete"}
               \/ y = Members(selected) /\ selected \in Groups /\ posts[k].button \in {"add", "remove"}
      BY <1>2, EndsByFetching
    <2>3. /\ Fetching(y)'
          /\ OldFetch(x)' => OldFetch(x)
          /\ Fetching(x) => Fetching(x)'
      BY <2>2, RefetchesMends
    <2>4. Matters(x)
      BY <2>1 DEF Matters, MyGroups
    <2>5. (OldRows(x)' => OldRows(x)) /\ (OldPost(x)' => OldPost(x)) /\ (Pushing(x) => Pushing(x)')
      BY <2>0, <2>1 DEF OldRows, HasRows, OldPost, OldRole, Pushing
    <2>6. EndsFor(posts[k], x) => x = y
      <3>1. x.list = "members" => x = Members(selected)
        BY <2>4, SubjectFields DEF Matters
      <3> QED
        BY <1>2, <2>2, <3>1 DEF EndsFor
    <2>8. Ending(x) => x = y \/ Ending(x)'
      BY <2>0, <2>6 DEF Ending
    <2>7. Mending(x) => Mending(x)'
      BY <2>3, <2>5, <2>8 DEF Mending
    <2> QED
      BY <2>3, <2>4, <2>5, <2>7, LeftAlone DEF Old
  <1> QED
    BY <1>1, <1>2

LEMMA MendStep == MendInv /\ [Next]_vars => MendInv'
  <1> SUFFICES ASSUME MendInv, [Next]_vars PROVE MendInv'
    OBVIOUS
  <1>1. ScreenInv'
    BY ScreenStep DEF MendInv
  <1>2. OldIsMended'
    <2>1. CASE Taps
      BY <2>1, UserMends, OpenMends DEF Taps
    <2>2. CASE Faults
      BY <2>2, ChannelMends, FailureMends, UserMends DEF Faults
    <2>3. CASE \E x \in Subjects : Changes(x)
      BY <2>3, ChangesMends
    <2>4. CASE Proceeds
      BY <2>4, AnswersMends, RenderMends, FailureMends, PerformMends, UserMends, EndPostMends,
         ChannelMends, HandlePushMends
      DEF Proceeds
    <2>5. CASE UNCHANGED vars
      BY <2>5 DEF vars, MendInv, OldIsMended, Matters, MyGroups, Old, OldRows, OldFetch, OldPost, HasRows,
                  Mending, Fetching, Pushing, Ending
    <2> QED
      BY <2>1, <2>2, <2>3, <2>4, <2>5 DEF Next
  <1> QED
    BY <1>1, <1>2 DEF MendInv

LEMMA MendInit == Init => MendInv
  <1> SUFFICES ASSUME Init PROVE MendInv
    OBVIOUS
  <1>1. TypeInv
    BY TypeInit
  <1>2. \A s \in Slots : fetches[s] = Idle \/ fetches[s] = Sent(GroupList, TRUE)
    BY DEF Init, Sent
  <1>3. /\ Sent(GroupList, TRUE).at = "sent" /\ Sent(GroupList, TRUE).age = "fresh"
        /\ Sent(GroupList, TRUE).listed = {}
    BY SentFields, SubjectsAre
  <1>4. /\ shown["profile"].what = Profile /\ shown["profile"].fresh = TRUE
        /\ \A l \in Lists : HasRows(l) => l = "profile"
    BY DEF Init, Rows, Nothing, HasRows
  <1>5. UnansweredAreFresh
    BY <1>2, <1>3 DEF Init, UnansweredAreFresh
  <1>6. RowsAreOfTheirList
    BY <1>4, SubjectsAre DEF RowsAreOfTheirList
  <1>7. SeenAreNotNew
    BY <1>2, <1>3, <1>4 DEF Init, SeenAreNotNew
  <1>8. StraysAreFaulted
    BY <1>4 DEF StraysAreFaulted
  <1>9. OldIsMended
    <2> SUFFICES ASSUME NEW x \in Subjects, Old(x) PROVE FALSE
      BY DEF OldIsMended
    <2>1. ~OldFetch(x)
      <3>1. ASSUME NEW s \in Slots PROVE fetches[s].at # "answered"
        <4>1. CASE fetches[s] = Idle
          BY <4>1
        <4>2. CASE fetches[s] = Sent(GroupList, TRUE)
          BY <1>3, <4>2
        <4> QED
          BY <1>2, <4>1, <4>2
      <3> QED
        BY <3>1 DEF OldFetch
    <2>2. ~OldPost(x)
      BY DEF Init, OldPost, OldRole
    <2>3. ~OldRows(x)
      BY <1>4, SubjectFields DEF OldRows
    <2> QED
      BY <2>1, <2>2, <2>3 DEF Old
  <1> QED
    BY <1>1, <1>5, <1>6, <1>7, <1>8, <1>9 DEF MendInv, ScreenInv

LEMMA QuietIsCurrent ==
    ASSUME MendInv
    PROVE  QuietScreenIsCurrent
  <1> SUFFICES ASSUME Quiet, NEW l \in Lists, Stale(l) PROVE FALSE
    BY DEF QuietScreenIsCurrent
  <1> USE DEF MendInv, ScreenInv
  <1>1. HasRows(l) /\ l \notin faulted /\ Due(l) # {}
        /\ ~(shown[l].fresh /\ shown[l].what \in Due(l))
    BY DEF Stale, Current
  <1>2. PICK x \in Subjects : x = shown[l].what /\ x.list = l
    BY <1>1 DEF RowsAreOfTheirList
  <1>3. x \in Due(l) /\ Matters(x)
    <2>1. CASE l = "groups"
      BY <1>1, <1>2, <2>1, SubjectFields DEF Due, Matters
    <2>2. CASE l = "profile"
      BY <1>1, <1>2, <2>2, SubjectFields DEF Due, Matters
    <2>3. CASE l = "members"
      <3>1. screen = "detail" /\ selected \in MyGroups
        BY <1>1, <2>3 DEF Due
      <3>2. x.group = selected
        BY <1>1, <1>2, <2>3 DEF StraysAreFaulted
      <3>3. x = Members(selected)
        BY <1>2, <2>3, <3>2, SubjectFields
      <3>4. Due(l) = {Members(selected)}
        BY <2>3, <3>1 DEF Due
      <3> QED
        BY <1>1, <1>2, <3>1, <3>2, <3>3, <3>4 DEF Matters
    <2> QED
      BY <2>1, <2>2, <2>3
  <1>4. Old(x)
    BY <1>1, <1>2, <1>3 DEF Old, OldRows
  <1>5. Mending(x)
    BY <1>3, <1>4 DEF OldIsMended
  <1> QED
    BY <1>5 DEF Quiet, Mending, Fetching, Pushing, Ending, EndsFor

\* When nothing is under way the rows on the screen are what the server would answer
\* now, but for the lists that a fault has touched (the handlers of connectRealtime,
\* and the fetches after the user's own requests).
THEOREM QuietScreens == Spec => []QuietScreenIsCurrent
  <1>1. Spec => []MendInv
    BY MendInit, MendStep, PTL DEF Spec
  <1>2. MendInv => QuietScreenIsCurrent
    BY QuietIsCurrent
  <1> QED
    BY <1>1, <1>2, PTL

=============================================================================
