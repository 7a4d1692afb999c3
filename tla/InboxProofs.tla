---------------------------- MODULE InboxProofs ----------------------------
(***************************************************************************)
(* Theorems about Inbox, for any number of users, workers, rows, requests  *)
(* and ticks, and for every page size and TTL.                             *)
(***************************************************************************)
EXTENDS Inbox, FiniteSetTheorems, WellFoundedInduction, TLAPS

-----------------------------------------------------------------------------
(***************************************************************************)
(* Least and greatest elements.                                            *)
(***************************************************************************)

\* A set of naturals that is not empty has a least element, ...
LEMMA LeastElement ==
    ASSUME NEW T, T \subseteq Nat, T # {}
    PROVE  \E x \in T : \A y \in T : x <= y
<1>1. \E x \in T : \A y \in T : ~ (<<y, x>> \in OpToRel(<, Nat))
  BY NatLessThanWellFounded, WFMin
<1>2. \A x, y \in Nat : ~ (<<y, x>> \in OpToRel(<, Nat)) => ~ (y < x)
  <2>. SUFFICES ASSUME NEW x \in Nat, NEW y \in Nat, y < x
                PROVE  <<y, x>> \in OpToRel(<, Nat)
    OBVIOUS
  <2>. DEFINE ss == <<y, x>>
  <2>1. ss \in Nat \X Nat /\ ss[1] < ss[2]
    OBVIOUS
  <2>. HIDE DEF ss
  <2>2. ss \in OpToRel(<, Nat)
    BY <2>1, Zenon DEF OpToRel
  <2>. QED
    BY <2>2 DEF ss
<1>3. PICK x \in T : \A y \in T : ~ (<<y, x>> \in OpToRel(<, Nat))
  BY <1>1
<1>4. ASSUME NEW y \in T PROVE ~ (y < x) /\ x \in Nat /\ y \in Nat
  BY <1>2, <1>3, Zenon
<1>5. ASSUME NEW y \in T PROVE x <= y
  BY <1>4
<1>. QED
  BY <1>5

\* ... which Min returns.
LEMMA MinElement ==
    ASSUME NEW T, T \subseteq Nat, T # {}
    PROVE  Min(T) \in T /\ \A y \in T : Min(T) <= y
BY LeastElement DEF Min

\* A set of ids that is not empty has a greatest element.
LEMMA GreatestId ==
    ASSUME NEW T, T \subseteq Ids, T # {}
    PROVE  \E x \in T : \A y \in T : y <= x
<1>. DEFINE U == {MaxRows - x : x \in T}
<1>0. MaxRows \in Nat /\ Ids = 1..MaxRows
  BY InboxAssumption DEF Ids
<1>1. U \subseteq Nat /\ U # {}
  <2>1. \A x \in T : MaxRows - x \in Nat
    BY <1>0
  <2>. QED
    BY <2>1
<1>2. PICK m \in U : \A y \in U : m <= y
  BY <1>1, LeastElement
<1>3. PICK x \in T : m = MaxRows - x
  OBVIOUS
<1>4. ASSUME NEW y \in T PROVE y <= x
  <2>1. MaxRows - y \in U
    OBVIOUS
  <2>2. MaxRows - x <= MaxRows - y
    BY <1>2, <1>3, <2>1
  <2>. QED
    BY <1>0, <2>2
<1>. QED
  BY <1>3, <1>4

-----------------------------------------------------------------------------
(***************************************************************************)
(* Pages: what Newest, ListForUserCursor and NextCursor return.            *)
(***************************************************************************)

\* The ids of S above i.
Above(S, i) == {j \in S : j > i}

LEMMA FiniteIds ==
    ASSUME NEW S, S \subseteq Ids
    PROVE  IsFiniteSet(S) /\ Cardinality(S) \in Nat
<1>0. 1 \in Int /\ MaxRows \in Int
  BY InboxAssumption
<1>1. IsFiniteSet(Ids)
  BY <1>0, FS_Interval DEF Ids
<1>2. IsFiniteSet(S)
  BY <1>1, FS_Subset
<1>. QED
  BY <1>2, FS_CardinalityType

\* Fewer ids of a smaller set lie above a larger id.
LEMMA AboveMonotone ==
    ASSUME NEW S, S \subseteq Ids, NEW i \in Ids, NEW k \in Ids, k <= i
    PROVE  /\ Cardinality(Above(S, i)) \in Nat /\ Cardinality(Above(S, k)) \in Nat
           /\ Cardinality(Above(S, i)) <= Cardinality(Above(S, k))
<1>0. Ids \subseteq Nat
  BY DEF Ids
<1>1. Above(S, i) \subseteq Above(S, k) /\ Above(S, k) \subseteq Ids /\ Above(S, i) \subseteq Ids
  <2>1. ASSUME NEW j \in S, j > i PROVE j > k
    <3>1. j \in Nat /\ i \in Nat /\ k \in Nat
      BY <1>0
    <3>. QED
      BY <2>1, <3>1
  <2>. QED
    BY <2>1 DEF Above
<1>2. IsFiniteSet(Above(S, k)) /\ Cardinality(Above(S, k)) \in Nat /\ Cardinality(Above(S, i)) \in Nat
  BY <1>1, FiniteIds
<1>3. Cardinality(Above(S, i)) <= Cardinality(Above(S, k))
  BY <1>1, <1>2, FS_Subset
<1>. QED
  BY <1>2, <1>3

LEMMA NewestIs ==
    \A S, n : Newest(S, n) = {i \in S : Cardinality(Above(S, i)) < n}
BY DEF Newest, Above

\* The newest ids of S are closed upwards in S.
LEMMA NewestClosed ==
    ASSUME NEW S, S \subseteq Ids, NEW n \in Nat, NEW k \in Newest(S, n), NEW i \in S, k <= i
    PROVE  i \in Newest(S, n)
<1>1. k \in S /\ Cardinality(Above(S, k)) < n
  BY NewestIs
<1>2. /\ Cardinality(Above(S, i)) \in Nat /\ Cardinality(Above(S, k)) \in Nat
      /\ Cardinality(Above(S, i)) <= Cardinality(Above(S, k))
  BY <1>1, AboveMonotone
<1>3. Cardinality(Above(S, i)) < n
  BY <1>1, <1>2
<1>. QED
  BY <1>3, NewestIs

\* There are some if there are any.
LEMMA NewestNotEmpty ==
    ASSUME NEW S, S \subseteq Ids, S # {}, NEW n \in Nat \ {0}
    PROVE  Newest(S, n) # {}
<1>0. Ids \subseteq Nat
  BY DEF Ids
<1>1. PICK x \in S : \A y \in S : y <= x
  BY GreatestId
<1>2. Above(S, x) = {}
  <2>1. ASSUME NEW y \in S PROVE ~ (y > x)
    <3>1. y \in Nat /\ x \in Nat /\ y <= x
      BY <1>0, <1>1
    <3>. QED
      BY <3>1
  <2>. QED
    BY <2>1 DEF Above
<1>3. Cardinality(Above(S, x)) < n
  BY <1>2, FS_EmptySet
<1>. QED
  BY <1>3, NewestIs

\* Fewer than n newest ids are all there are.
LEMMA NewestAll ==
    ASSUME NEW S, S \subseteq Ids, NEW n \in Nat, Cardinality(Newest(S, n)) < n
    PROVE  Newest(S, n) = S
<1>0. Ids \subseteq Nat
  BY DEF Ids
<1>. SUFFICES ASSUME S \ Newest(S, n) # {} PROVE FALSE
  BY NewestIs
<1>1. PICK x \in S \ Newest(S, n) : \A y \in S \ Newest(S, n) : y <= x
  BY GreatestId
<1>2. Above(S, x) \subseteq Newest(S, n)
  <2>1. ASSUME NEW y \in S \ Newest(S, n) PROVE ~ (y > x)
    <3>1. y \in Nat /\ x \in Nat /\ y <= x
      BY <1>0, <1>1
    <3>. QED
      BY <3>1
  <2>. QED
    BY <2>1 DEF Above
<1>3. Newest(S, n) \subseteq Ids /\ Above(S, x) \subseteq Ids
  BY NewestIs DEF Above
<1>4. /\ Cardinality(Above(S, x)) \in Nat /\ Cardinality(Newest(S, n)) \in Nat
      /\ IsFiniteSet(Newest(S, n))
  BY <1>3, FiniteIds
<1>5. Cardinality(Above(S, x)) <= Cardinality(Newest(S, n))
  BY <1>2, <1>4, FS_Subset
<1>6. ~ (Cardinality(Above(S, x)) < n)
  BY <1>1, NewestIs
<1>. QED
  BY <1>4, <1>5, <1>6

\* At most n ids are all among the newest n.
LEMMA NewestFits ==
    ASSUME NEW S, S \subseteq Ids, NEW n \in Nat, Cardinality(S) <= n
    PROVE  Newest(S, n) = S
<1>0. Ids \subseteq Nat
  BY DEF Ids
<1>1. ASSUME NEW i \in S PROVE Cardinality(Above(S, i)) < n
  <2>1. Above(S, i) \subseteq S /\ i \notin Above(S, i)
    BY <1>0 DEF Above
  <2>2. IsFiniteSet(S) /\ Cardinality(S) \in Nat /\ Cardinality(Above(S, i)) \in Nat
    BY <2>1, FiniteIds
  <2>3. /\ Cardinality(Above(S, i)) <= Cardinality(S)
        /\ Cardinality(S) = Cardinality(Above(S, i)) => S = Above(S, i)
    BY <2>1, <2>2, FS_Subset
  <2>. QED
    BY <2>1, <2>2, <2>3
<1>. QED
  BY <1>1, NewestIs

\* A page: with a next cursor it holds the ids of S from the cursor on, and
\* without one all of S.
LEMMA PageOf ==
    ASSUME NEW S, S \subseteq Ids
    PROVE  LET items == Newest(S, PageSize + 1)
               page == Newest(items, PageSize)
               c == NextCursor(items)
           IN  /\ page \subseteq S
               /\ c = None => page = S
               /\ c # None => /\ c \in page
                              /\ \A i \in page : c <= i
                              /\ \A i \in S : c <= i => i \in page
<1>. DEFINE items == Newest(S, PageSize + 1)
            page == Newest(items, PageSize)
            c == NextCursor(items)
<1>0. PageSize \in Nat \ {0} /\ Ids \subseteq Nat /\ None \notin Nat
  BY InboxAssumption DEF Ids
<1>1. items \subseteq S /\ page \subseteq items /\ items \subseteq Ids
  BY NewestIs
<1>2. IsFiniteSet(items) /\ Cardinality(items) \in Nat
  BY <1>1, FiniteIds
<1>3. CASE Cardinality(items) > PageSize
  <2>1. items # {}
    BY <1>0, <1>3, FS_EmptySet
  <2>. HIDE DEF items
  <2>2. page # {} /\ page \subseteq Nat
    BY <1>0, <1>1, <2>1, NewestNotEmpty
  <2>3. c = Min(page)
    BY <1>3 DEF NextCursor
  <2>4. c \in page /\ \A i \in page : c <= i
    BY <2>2, <2>3, MinElement
  <2>5. ASSUME NEW i \in S, c <= i PROVE i \in page
    <3>1. i \in items
      <4>1. c \in Newest(S, PageSize + 1) /\ PageSize + 1 \in Nat
        BY <1>0, <1>1, <2>4 DEF items
      <4>. HIDE DEF c
      <4>. QED
        BY <2>5, <4>1, NewestClosed DEF items
    <3>. HIDE DEF c
    <3>2. i \in Newest(items, PageSize)
      BY <1>0, <1>1, <2>4, <2>5, <3>1, NewestClosed
    <3>. QED
      BY <3>2
  <2>6. c # None
    BY <1>0, <2>2, <2>4
  <2>. QED
    BY <1>1, <2>4, <2>5, <2>6 DEF items
<1>4. CASE ~ (Cardinality(items) > PageSize)
  <2>1. c = None
    BY <1>4 DEF NextCursor
  <2>2. Cardinality(items) < PageSize + 1 /\ Cardinality(items) <= PageSize
    BY <1>0, <1>2, <1>4
  <2>3. items = S
    <3>1. PageSize + 1 \in Nat
      BY <1>0
    <3>. QED
      BY <2>2, <3>1, NewestAll
  <2>4. page = items
    BY <1>0, <1>1, <2>2, NewestFits
  <2>. QED
    BY <1>1, <2>1, <2>3, <2>4
<1>. QED
  BY <1>3, <1>4

-----------------------------------------------------------------------------
(***************************************************************************)
(* The walk through the inbox.                                             *)
(***************************************************************************)
Walk == [state : {"more", "done"}, user : Users, unread : BOOLEAN, cursor : Ids \cup {None},
         seen : SUBSET Ids, must : SUBSET Ids, again : BOOLEAN]

\* While there is more to fetch, the client has seen exactly rows from the
\* cursor on, among them all of those that every page so far could show.
WalkInv ==
    \/ walk = NoWalk
    \/ /\ walk \in Walk
       /\ ~walk.again
       /\ walk.state = "done" => walk.must \subseteq walk.seen
       /\ walk.state = "more" =>
             /\ walk.cursor \in Ids
             /\ \A i \in walk.seen : walk.cursor <= i
             /\ \A i \in walk.must : walk.cursor <= i => i \in walk.seen

LEMMA StartListWalk ==
    ASSUME NEW u \in Users, NEW unread \in BOOLEAN, StartList(u, unread)
    PROVE  WalkInv'
<1>. DEFINE S == Listed(u, unread)
            items == Newest(S, PageSize + 1)
            page == Newest(items, PageSize)
            c == NextCursor(items)
<1>1. S \subseteq Ids
  BY DEF Listed
<1>2. ListForUserCursor(u, unread, None) = items
  <2>1. {i \in S : None # None => i < None} = S
    OBVIOUS
  <2>. QED
    BY <2>1 DEF ListForUserCursor
<1>3. /\ page \subseteq S
      /\ c = None => page = S
      /\ c # None => /\ c \in page
                     /\ \A i \in page : c <= i
                     /\ \A i \in S : c <= i => i \in page
  BY <1>1, PageOf
<1>4. walk' = [state |-> IF c = None THEN "done" ELSE "more",
               user |-> u, unread |-> unread, cursor |-> c,
               seen |-> page, must |-> S, again |-> FALSE]
  BY <1>2 DEF StartList
<1>. HIDE DEF S, items, page, c
<1>5. walk' \in Walk
  BY <1>1, <1>3, <1>4 DEF Walk
<1>. QED
  BY <1>1, <1>3, <1>4, <1>5 DEF WalkInv

LEMMA NextPageWalk ==
    ASSUME WalkInv, NextPage
    PROVE  WalkInv'
<1>. DEFINE L == Listed(walk.user, walk.unread)
            S == {i \in L : i < walk.cursor}
            items == Newest(S, PageSize + 1)
            page == Newest(items, PageSize)
            c == NextCursor(items)
<1>0. Ids \subseteq Nat /\ None \notin Nat
  BY InboxAssumption DEF Ids
<1>1. /\ walk \in Walk /\ walk.cursor \in Ids /\ ~walk.again
      /\ \A i \in walk.seen : walk.cursor <= i
      /\ \A i \in walk.must : walk.cursor <= i => i \in walk.seen
  BY DEF WalkInv, NextPage, NoWalk
<1>2. S \subseteq Ids /\ L \subseteq Ids
  BY DEF Listed
<1>3. ListForUserCursor(walk.user, walk.unread, walk.cursor) = items
  <2>1. walk.cursor # None
    BY <1>0, <1>1
  <2>2. {i \in L : walk.cursor # None => i < walk.cursor} = S
    BY <2>1
  <2>. QED
    BY <2>2 DEF ListForUserCursor
<1>4. /\ page \subseteq S
      /\ c = None => page = S
      /\ c # None => /\ c \in page
                     /\ \A i \in page : c <= i
                     /\ \A i \in S : c <= i => i \in page
  BY <1>2, PageOf
<1>5. walk' = [walk EXCEPT !.state = IF c = None THEN "done" ELSE "more",
                           !.cursor = c,
                           !.seen = @ \cup page,
                           !.must = @ \cap L,
                           !.again = @ \/ page \cap walk.seen # {}]
  BY <1>3 DEF NextPage
<1>6. \A i \in S : i \in L /\ i < walk.cursor
  OBVIOUS
<1>7. \A i \in L : i \notin S => walk.cursor <= i
  BY <1>0, <1>1, <1>2
<1>. HIDE DEF L, S, items, page, c
<1>8. page \cap walk.seen = {}
  <2>. SUFFICES ASSUME NEW i \in page, i \in walk.seen PROVE FALSE
    OBVIOUS
  <2>1. i < walk.cursor /\ walk.cursor <= i /\ i \in Nat /\ walk.cursor \in Nat
    BY <1>0, <1>1, <1>2, <1>4, <1>6
  <2>. QED
    BY <2>1
<1>9. /\ walk'.state = (IF c = None THEN "done" ELSE "more") /\ walk'.cursor = c
      /\ walk'.seen = walk.seen \cup page /\ walk'.must = walk.must \cap L
      /\ walk'.again = FALSE
      /\ walk'.user = walk.user /\ walk'.unread = walk.unread
  BY <1>1, <1>5, <1>8 DEF Walk
<1>10. walk' \in Walk
  <2>1. c \in Ids \cup {None} /\ page \subseteq Ids
    BY <1>2, <1>4
  <2>. QED
    BY <1>1, <1>5, <1>8, <2>1 DEF Walk
<1>11. CASE c = None
  <2>1. walk.must \cap L \subseteq walk.seen \cup page
    BY <1>1, <1>4, <1>7, <1>11
  <2>. QED
    BY <1>9, <1>10, <1>11, <2>1 DEF WalkInv
<1>12. CASE c # None
  <2>0. c \in Ids /\ c < walk.cursor
    BY <1>2, <1>4, <1>6, <1>12
  <2>1. \A i \in walk.seen \cup page : c <= i
    <3>1. ASSUME NEW i \in walk.seen PROVE c <= i
      <4>1. i \in Nat /\ c \in Nat /\ walk.cursor \in Nat /\ walk.cursor <= i
        BY <1>0, <1>1, <2>0 DEF Walk
      <4>. QED
        BY <2>0, <4>1
    <3>. QED
      BY <1>4, <1>12, <3>1
  <2>2. \A i \in walk.must \cap L : c <= i => i \in walk.seen \cup page
    BY <1>1, <1>4, <1>7, <1>12
  <2>. QED
    BY <1>9, <1>10, <1>12, <2>0, <2>1, <2>2 DEF WalkInv
<1>. QED
  BY <1>11, <1>12

\* Keyset pagination of list_notifications: whatever happens to the rows
\* between two requests, no row comes twice, and by the last page the client
\* has seen every row that was listed at each of its requests.
THEOREM WalkIsComplete == Spec => []WalkComplete
<1>1. Init => WalkInv
  BY DEF Init, WalkInv
<1>2. WalkInv /\ [Next]_vars => WalkInv'
  <2>. SUFFICES ASSUME WalkInv, [Next]_vars PROVE WalkInv'
    OBVIOUS
  <2>1. CASE \E u \in Users, unread \in BOOLEAN : StartList(u, unread)
    BY <2>1, StartListWalk
  <2>2. CASE NextPage
    BY <2>2, NextPageWalk
  <2>3. CASE UNCHANGED walk
    BY <2>3 DEF WalkInv
  <2>4. ASSUME NEW w \in Workers, Requests(w) PROVE UNCHANGED walk
    BY <2>4 DEF Requests, AdminList, CreateForUser, GetPreferences, UpdatePreferences, GetOrCreate,
                AdminCreate, MarkRead, DeleteNotification, RestoreNotification, AdminEdit,
                AdminDelete, AdminRestore, Stage, StageInsert, Begin
  <2>. QED
    BY <2>1, <2>2, <2>3, <2>4
       DEF Next, vars, CommitDefault, CommitPreference, CommitInsert, CommitUpdate,
           InvalidateCount, Announce, StoreCount, Replicate, Abort, MarkAllRead, Purge, Tick
<1>3. WalkInv => WalkComplete
  BY DEF WalkInv, WalkComplete, NoWalk
<1>. QED
  BY <1>1, <1>2, <1>3, PTL DEF Spec

-----------------------------------------------------------------------------
(***************************************************************************)
(* What the cached count covers.                                           *)
(***************************************************************************)

\* A row that a commit may write: it belongs to somebody.
Owned(row) == "user_id" \in DOMAIN row /\ row.user_id # None

\* A request's staged row is owned, and a count that is not late holds every
\* announced row (the last part: the only session that changes its op is a
\* record that has one).
SessionCovers(s, a) ==
    /\ s.op \in {"insert", "update"} => s.id \in Ids /\ Owned(s.new)
    /\ s.op = "count" /\ ~s.late => a \subseteq s.ids
    /\ s.op = "default" => "op" \in DOMAIN s

CoverInv ==
    /\ DOMAIN rows = Ids
    /\ \A i \in Ids : "user_id" \in DOMAIN rows[i]
    /\ lastId \in Nat
    /\ DOMAIN sess = Workers
    /\ announced \subseteq Existing
    /\ \A w \in Workers : SessionCovers(sess[w], announced)
    /\ cache.total # None /\ ~cache.late => announced \subseteq cache.ids

LEMMA IdleCovers == \A a : SessionCovers(Idle, a)
BY DEF SessionCovers, Idle

\* One request takes another step, and nothing that was counted changes.
LEMMA SessionStep ==
    ASSUME CoverInv, NEW w \in Workers, NEW s, sess' = [sess EXCEPT ![w] = s],
           SessionCovers(s, announced), UNCHANGED announced
    PROVE  /\ DOMAIN sess' = Workers
           /\ \A v \in Workers : SessionCovers(sess'[v], announced')
<1>1. \A v \in Workers : sess'[v] = IF v = w THEN s ELSE sess[v]
  BY DEF CoverInv
<1>. QED
  BY <1>1 DEF CoverInv

LEMMA BeginCovers ==
    ASSUME CoverInv, NEW w \in Workers, NEW s, Begin(w, s), SessionCovers(s, announced),
           lastId' \in Nat
    PROVE  CoverInv'
BY SessionStep DEF Begin, CoverInv, Existing, Exists

LEMMA StageCovers ==
    ASSUME CoverInv, NEW w \in Workers, NEW i \in Ids, NEW row, NEW admin,
           Stage(w, i, row, admin), Owned(row)
    PROVE  CoverInv'
<1>. DEFINE s == [op |-> "update", id |-> i, snap |-> rows[i], new |-> row, admin |-> admin]
<1>1. SessionCovers(s, announced)
  BY DEF SessionCovers
<1>2. Begin(w, s) /\ lastId' \in Nat
  BY DEF Stage, CoverInv
<1>. HIDE DEF s
<1>. QED
  BY <1>1, <1>2, BeginCovers

LEMMA StageInsertCovers ==
    ASSUME CoverInv, NEW w \in Workers, NEW row, NEW admin,
           StageInsert(w, row, admin), Owned(row)
    PROVE  CoverInv'
<1>. DEFINE s == [op |-> "insert", id |-> lastId + 1, new |-> row, admin |-> admin]
<1>0. lastId \in Nat /\ MaxRows \in Nat /\ lastId < MaxRows
  BY InboxAssumption DEF StageInsert, CoverInv
<1>1. SessionCovers(s, announced)
  BY <1>0 DEF SessionCovers, Ids
<1>2. Begin(w, s) /\ lastId' \in Nat
  BY <1>0 DEF StageInsert
<1>. HIDE DEF s
<1>. QED
  BY <1>1, <1>2, BeginCovers

LEMMA FreshOwned == \A u \in Users : Owned(Fresh(u))
BY InboxAssumption DEF Owned, Fresh

\* The form of the administrator's screens gives a row to a user, or leaves it.
LEMMA FormOwned ==
    ASSUME NEW row, Owned(row), NEW form,
           "user_id" \in DOMAIN form => form.user_id \in Users
    PROVE  Owned(SetFormFields("notifications", row, form))
<1>1. "user_id" \notin BooleanColumns
  BY DEF BooleanColumns
<1>2. CoerceValue("user_id", form["user_id"]) = form.user_id
  BY <1>1 DEF CoerceValue
<1>3. /\ DOMAIN SetFormFields("notifications", row, form) = DOMAIN row
      /\ \/ SetFormFields("notifications", row, form)["user_id"] = row.user_id
         \/ /\ "user_id" \in DOMAIN form
            /\ SetFormFields("notifications", row, form)["user_id"] = form.user_id
  BY <1>2 DEF SetFormFields, Owned
<1>. QED
  BY <1>3, InboxAssumption DEF Owned

LEMMA RequestsCover ==
    ASSUME CoverInv, NEW w \in Workers, Requests(w)
    PROVE  CoverInv'
<1>1. \A i \in Ids : Exists(i) => Owned(rows[i])
  BY DEF CoverInv, Exists, Owned
<1>2. CASE AdminList(w)
  <2>. DEFINE s == [op |-> "count", ids |-> reader, late |-> reader # Existing]
  <2>1. SessionCovers(s, announced)
    BY DEF SessionCovers, CoverInv
  <2>2. Begin(w, s) /\ lastId' \in Nat
    BY <1>2 DEF AdminList, CoverInv
  <2>. HIDE DEF s
  <2>. QED
    BY <2>1, <2>2, BeginCovers
<1>3. ASSUME NEW u \in Users, CreateForUser(w, u) PROVE CoverInv'
  BY <1>3, FreshOwned, StageInsertCovers DEF CreateForUser
<1>4. ASSUME NEW u \in Users, NEW want, GetOrCreate(w, u, want) PROVE CoverInv'
  <2>. DEFINE s == [op |-> IF pref[u] = None THEN "default" ELSE "prefer",
                    user |-> u, want |-> want]
  <2>1. SessionCovers(s, announced)
    BY DEF SessionCovers
  <2>2. Begin(w, s) /\ lastId' \in Nat
    BY <1>4 DEF GetOrCreate, CoverInv
  <2>. HIDE DEF s
  <2>. QED
    BY <2>1, <2>2, BeginCovers
<1>5. ASSUME NEW u \in Users, NEW form \in [is_read : {"on", "off"}], AdminCreate(w, u, form)
      PROVE  CoverInv'
  <2>1. "user_id" \notin DOMAIN form
    OBVIOUS
  <2>2. Owned(SetFormFields("notifications", Fresh(u), form))
    BY <2>1, FreshOwned, FormOwned
  <2>. QED
    BY <1>5, <2>2, StageInsertCovers DEF AdminCreate
<1>6. ASSUME NEW i \in Ids, NEW form \in [user_id : Users, is_read : {"on", "off"}],
             AdminEdit(w, i, form)
      PROVE  CoverInv'
  <2>1. Owned(SetFormFields("notifications", rows[i], form))
    BY <1>1, <1>6, FormOwned DEF AdminEdit
  <2>. QED
    BY <1>6, <2>1, StageCovers DEF AdminEdit
<1>7. ASSUME NEW i \in Ids, NEW u \in Users, MarkRead(w, u, i) PROVE CoverInv'
  <2>1. Owned(ReadRow(rows[i]))
    BY <1>1, <1>7, InboxAssumption DEF MarkRead, GetForUser, Exists, Owned, ReadRow
  <2>. QED
    BY <1>7, <2>1, StageCovers DEF MarkRead
<1>8. ASSUME NEW i \in Ids, NEW t, Exists(i) PROVE Owned([rows[i] EXCEPT !.deleted_at = t])
  BY <1>1, <1>8 DEF Owned
<1>9. ASSUME NEW i \in Ids,
             \/ \E u \in Users : DeleteNotification(w, u, i)
             \/ RestoreNotification(w, i) \/ AdminDelete(w, i) \/ AdminRestore(w, i)
      PROVE  CoverInv'
  <2>1. PICK t, admin : Exists(i) /\ Stage(w, i, [rows[i] EXCEPT !.deleted_at = t], admin)
    BY <1>9 DEF DeleteNotification, RestoreNotification, AdminDelete, AdminRestore, Get, Trashed
  <2>. QED
    BY <1>8, <2>1, StageCovers
<1>. QED
  BY <1>2, <1>3, <1>4, <1>5, <1>6, <1>7, <1>9
     DEF Requests, GetPreferences, UpdatePreferences

\* A row that belongs to somebody is written.
LEMMA WriteCovers ==
    ASSUME CoverInv, NEW w \in Workers, NEW i \in Ids, NEW row, Owned(row),
           rows' = [rows EXCEPT ![i] = row], Committed(w),
           UNCHANGED <<announced, lastId, cache>>
    PROVE  CoverInv'
<1>1. \A j \in Ids : rows'[j] = IF j = i THEN row ELSE rows[j]
  BY DEF CoverInv
<1>2. announced' \subseteq Existing'
  BY <1>1 DEF CoverInv, Existing, Exists, Owned
<1>3. PICK s : sess' = [sess EXCEPT ![w] = s] /\ SessionCovers(s, announced)
  <2>1. SessionCovers([op |-> "invalidate", id |-> sess[w].id], announced)
    BY DEF SessionCovers
  <2>. QED
    BY <2>1, IdleCovers DEF Committed, CoverInv
<1>4. DOMAIN sess' = Workers /\ \A v \in Workers : SessionCovers(sess'[v], announced')
  BY <1>3, SessionStep
<1>. QED
  BY <1>1, <1>2, <1>4 DEF CoverInv, Owned

LEMMA CoverNext == CoverInv /\ [Next]_vars => CoverInv'
<1>. SUFFICES ASSUME CoverInv, [Next]_vars PROVE CoverInv'
  OBVIOUS
<1>1. ASSUME NEW w \in Workers, CommitInsert(w) PROVE CoverInv'
  BY <1>1, WriteCovers DEF CommitInsert, CoverInv, SessionCovers
<1>2. ASSUME NEW w \in Workers, CommitUpdate(w) PROVE CoverInv'
  <2>1. sess[w].id \in Ids /\ Owned(sess[w].new) /\ Owned(rows[sess[w].id])
    BY <1>2 DEF CommitUpdate, CoverInv, SessionCovers, Exists, Owned
  <2>2. Owned(Flush(rows[sess[w].id], sess[w]))
    BY <2>1 DEF Owned, Flush
  <2>3. rows' = [rows EXCEPT ![sess[w].id] = Flush(rows[sess[w].id], sess[w])]
    BY <1>2 DEF CommitUpdate
  <2>. QED
    BY <1>2, <2>1, <2>2, <2>3, WriteCovers DEF CommitUpdate
<1>3. ASSUME NEW w \in Workers, CommitDefault(w) \/ CommitPreference(w) \/ Abort(w) PROVE CoverInv'
  <2>1. PICK s : sess' = [sess EXCEPT ![w] = s] /\ SessionCovers(s, announced)
    <3>1. CASE sess[w].op = "default" /\ sess' = [sess EXCEPT ![w] = [sess[w] EXCEPT !.op = "prefer"]]
      <4>1. [sess[w] EXCEPT !.op = "prefer"].op = "prefer"
        BY <3>1 DEF SessionCovers, CoverInv
      <4>. QED
        BY <3>1, <4>1 DEF SessionCovers
    <3>. QED
      BY <1>3, <3>1, IdleCovers DEF CommitDefault, CommitPreference, Abort
  <2>. QED
    BY <1>3, <2>1, SessionStep
       DEF CommitDefault, CommitPreference, Abort, CoverInv, Existing, Exists
<1>4. ASSUME NEW w \in Workers, StoreCount(w) PROVE CoverInv'
  <2>1. DOMAIN sess' = Workers /\ \A v \in Workers : SessionCovers(sess'[v], announced')
    BY <1>4, IdleCovers, SessionStep DEF StoreCount
  <2>2. ~cache'.late => announced' \subseteq cache'.ids
    BY <1>4 DEF StoreCount, SetCount, CoverInv, SessionCovers
  <2>. QED
    BY <1>4, <2>1, <2>2 DEF StoreCount, CoverInv, Existing, Exists
<1>5. ASSUME NEW w \in Workers, InvalidateCount(w) PROVE CoverInv'
  <2>1. announced' \subseteq Existing' /\ cache'.total = None
    BY <1>5 DEF InvalidateCount, Announce, NoCount, CoverInv, Existing, Exists
  <2>2. ASSUME NEW v \in Workers PROVE SessionCovers(sess'[v], announced')
    <3>1. CASE v = w
      BY <1>5, <3>1, IdleCovers DEF InvalidateCount, Announce
    <3>2. CASE v # w /\ sess[v].op = "count"
      <4>1. sess'[v] = [sess[v] EXCEPT !.late = TRUE]
        BY <1>5, <3>2 DEF InvalidateCount, Announce
      <4>. QED
        BY <3>2, <4>1 DEF SessionCovers
    <3>3. CASE v # w /\ sess[v].op # "count"
      <4>1. sess'[v] = sess[v]
        BY <1>5, <3>3 DEF InvalidateCount, Announce
      <4>. QED
        BY <3>3, <4>1 DEF SessionCovers, CoverInv
    <3>. QED
      BY <3>1, <3>2, <3>3
  <2>. QED
    BY <1>5, <2>1, <2>2 DEF InvalidateCount, Announce, CoverInv
<1>6. ASSUME NEW u \in Users, MarkAllRead(u) PROVE CoverInv'
  <2>1. ASSUME NEW i \in Ids
        PROVE  "user_id" \in DOMAIN rows'[i] /\ rows'[i].user_id = rows[i].user_id
    BY <1>6 DEF MarkAllRead, AllRead, ReadRow, CoverInv
  <2>2. DOMAIN rows' = Ids
    BY <1>6 DEF MarkAllRead, AllRead
  <2>. QED
    BY <1>6, <2>1, <2>2 DEF MarkAllRead, CoverInv, Existing, Exists
<1>7. CASE Purge
  <2>. DEFINE gone == {i \in Existing : rows[i].deleted_at # None /\ rows[i].deleted_at < now - PurgeAge}
  <2>1. /\ rows' = [i \in Ids |-> IF i \in gone THEN NoRow ELSE rows[i]]
        /\ announced' = announced \ gone /\ UNCHANGED <<lastId, sess, cache>>
    BY <1>7 DEF Purge
  <2>. HIDE DEF gone
  <2>2. announced' \subseteq Existing' /\ \A i \in Ids : "user_id" \in DOMAIN rows'[i]
    BY <2>1 DEF CoverInv, Existing, Exists, NoRow
  <2>3. \A s : SessionCovers(s, announced) => SessionCovers(s, announced')
    BY <2>1 DEF SessionCovers
  <2>. QED
    BY <2>1, <2>2, <2>3 DEF CoverInv
<1>8. CASE UNCHANGED <<rows, announced, lastId, sess, cache>>
  BY <1>8 DEF CoverInv, Existing, Exists
<1>. QED
  BY <1>1, <1>2, <1>3, <1>4, <1>5, <1>6, <1>7, <1>8, RequestsCover
     DEF Next, vars, StartList, NextPage, Replicate, Tick

\* The administrator's list: the count it shows from Redis holds every row that
\* an administrator's request has announced, unless a lagging replica was
\* counted or the deletion of the key overtook the count; for any number of
\* requests, and however long each of them runs.
THEOREM CountIsCurrent == Spec => []CountCoversAdmin
<1>1. Init => CoverInv
  BY IdleCovers DEF Init, CoverInv, NoCount, NoRow, Existing, Exists
<1>2. CoverInv => CountCoversAdmin
  BY DEF CoverInv, CountCoversAdmin, Cached
<1>. QED
  BY <1>1, <1>2, CoverNext, PTL DEF Spec

=============================================================================
