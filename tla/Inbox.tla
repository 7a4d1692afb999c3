-------------------------------- MODULE Inbox --------------------------------
(***************************************************************************)
(* The in-app inbox: the notifications and notification_preferences tables,*)
(* the endpoints and administrator screens that write them, the keyset     *)
(* pages a client walks through, the row count the administrator's list    *)
(* keeps in Redis, and the purge of soft-deleted rows.                     *)
(*                                                                         *)
(* A handler loads and computes in one step and commits in another; a      *)
(* commit writes the columns the handler changed.  An INSERT draws its id  *)
(* before its row is visible, so rows may appear out of order.  A request  *)
(* may run for any time: RequestTimeoutMiddleware answers 408 and leaves   *)
(* the handler running.                                                    *)
(***************************************************************************)
EXTENDS Integers, FiniteSets, FiniteSetsExt, AdminRegistry

CONSTANTS
    Users, None,
    Workers,        \* API processes and bus consumers, one request at a time each
    PageSize,       \* size of CursorParams
    CountTtl,       \* ttl of the cached count
    PurgeAge,       \* SOFT_DELETE_PURGE_DAYS
    MaxRows,        \* bound: ids drawn
    MaxTime,        \* bound: clock
    MaxRequests     \* bound: requests served

ASSUME InboxAssumption ==
    /\ None \notin Users \cup BOOLEAN \cup Nat
    /\ {PageSize, CountTtl} \subseteq Nat \ {0}
    /\ {PurgeAge, MaxRows, MaxTime, MaxRequests} \subseteq Nat

Ids == 1..MaxRows

VARIABLES
    rows,       \* notifications by id
    reader,     \* the ids that get_read_db's replica shows
    announced,  \* history: rows an administrator's request has invalidated the count for
    lastId,     \* the id sequence
    pref,       \* in_app_enabled of each user's preference row, None without row
    sess,       \* each worker's request
    cache,      \* the Redis key admin_count:notifications
    walk,       \* the pages one client has fetched
    now,
    served

vars == <<rows, reader, announced, lastId, pref, sess, cache, walk, now, served>>

NoRow == [user_id |-> None]
Exists(i) == rows[i].user_id # None
Existing == {i \in Ids : Exists(i)}

Idle == [op |-> "idle"]

\* History: the ids that were counted; late: on a replica that lagged, or before
\* an invalidation that the count outlived.
NoCount == [total |-> None, exp |-> 0, ids |-> {}, late |-> FALSE]

\* must: the rows every page so far could show; again: a row came twice.
NoWalk == [state |-> "none"]

Init ==
    /\ rows = [i \in Ids |-> NoRow]
    /\ reader = {}
    /\ announced = {}
    /\ lastId = 0
    /\ pref = [u \in Users |-> None]
    /\ sess = [w \in Workers |-> Idle]
    /\ cache = NoCount
    /\ walk = NoWalk
    /\ now = 0
    /\ served = 0

Free(w) == sess[w] = Idle /\ served < MaxRequests

Begin(w, s) ==
    /\ Free(w)
    /\ served' = served + 1
    /\ sess' = [sess EXCEPT ![w] = s]
    /\ UNCHANGED <<rows, reader, announced, pref, cache, walk, now>>

\* admin: the request ends with _invalidate_count.
Stage(w, i, row, admin) ==
    /\ Begin(w, [op |-> "update", id |-> i, snap |-> rows[i], new |-> row,
                 admin |-> admin])
    /\ UNCHANGED lastId

StageInsert(w, row, admin) ==
    /\ lastId < MaxRows
    /\ lastId' = lastId + 1
    /\ Begin(w, [op |-> "insert", id |-> lastId + 1, new |-> row,
                 admin |-> admin])

Fresh(u) == [user_id |-> u, is_read |-> FALSE, read_at |-> None, deleted_at |-> None]

-----------------------------------------------------------------------------
(***************************************************************************)
(* The inbox.  Its queries see soft-deleted rows; CRUDBase.get does not.   *)
(***************************************************************************)
GetForUser(u, i) == rows[i].user_id = u
Get(i) == Exists(i) /\ rows[i].deleted_at = None
Trashed(i) == Exists(i) /\ rows[i].deleted_at # None

ChannelEnabled(u) == pref[u] # FALSE

\* handle_notification_event, from the check of the preference to the INSERT.
CreateForUser(w, u) == ChannelEnabled(u) /\ StageInsert(w, Fresh(u), FALSE)

\* CRUDNotification.mark_read
ReadRow(row) == [row EXCEPT !.is_read = TRUE, !.read_at = now]

MarkRead(w, u, i) ==
    /\ GetForUser(u, i)
    /\ ~rows[i].is_read
    /\ Stage(w, i, ReadRow(rows[i]), FALSE)

\* CRUDNotification.mark_all_read is a single UPDATE.
AllRead(u) ==
    [i \in Ids |-> IF GetForUser(u, i) /\ ~rows[i].is_read THEN ReadRow(rows[i]) ELSE rows[i]]

MarkAllRead(u) ==
    /\ served < MaxRequests
    /\ served' = served + 1
    /\ rows' = AllRead(u)
    /\ UNCHANGED <<reader, announced, lastId, pref, sess, cache, walk, now>>

DeleteNotification(w, u, i) ==
    /\ GetForUser(u, i) /\ Get(i)
    /\ Stage(w, i, [rows[i] EXCEPT !.deleted_at = now], FALSE)

\* restore_notification does not ask whose row it is.
RestoreNotification(w, i) ==
    /\ Trashed(i)
    /\ Stage(w, i, [rows[i] EXCEPT !.deleted_at = None], FALSE)

-----------------------------------------------------------------------------
(***************************************************************************)
(* Preferences.  update_for_user commits a default row first.              *)
(***************************************************************************)
GetOrCreate(w, u, want) ==
    /\ Begin(w, [op |-> IF pref[u] = None THEN "default" ELSE "prefer",
                 user |-> u, want |-> want])
    /\ UNCHANGED lastId

GetPreferences(w, u) == pref[u] = None /\ GetOrCreate(w, u, None)

UpdatePreferences(w, u, on) == GetOrCreate(w, u, on)

\* The INSERT of a default row; user_id is unique.
CommitDefault(w) ==
    LET s == sess[w] IN
    /\ s.op = "default"
    /\ pref[s.user] = None
    /\ pref' = [pref EXCEPT ![s.user] = TRUE]
    /\ sess' = [sess EXCEPT ![w] = IF s.want = None THEN Idle ELSE [s EXCEPT !.op = "prefer"]]
    /\ UNCHANGED <<rows, reader, announced, lastId, cache, walk, now, served>>

CommitPreference(w) ==
    LET s == sess[w] IN
    /\ s.op = "prefer"
    /\ pref' = [pref EXCEPT ![s.user] = s.want]
    /\ sess' = [sess EXCEPT ![w] = Idle]
    /\ UNCHANGED <<rows, reader, announced, lastId, cache, walk, now, served>>

-----------------------------------------------------------------------------
(***************************************************************************)
(* The administrator's screens on the notifications table.                 *)
(***************************************************************************)
AdminCreate(w, u, form) ==
    StageInsert(w, SetFormFields("notifications", Fresh(u), form), TRUE)

AdminEdit(w, i, form) ==
    Exists(i) /\ Stage(w, i, SetFormFields("notifications", rows[i], form), TRUE)

\* A row that is deleted already is stamped once more.
AdminDelete(w, i) ==
    /\ Deletable("notifications")
    /\ Exists(i)
    /\ Stage(w, i, [rows[i] EXCEPT !.deleted_at = now], TRUE)

AdminRestore(w, i) ==
    /\ Trashed(i)
    /\ Stage(w, i, [rows[i] EXCEPT !.deleted_at = None], TRUE)

\* RedisCache.get: a key is gone when its TTL is over.
Cached == cache.total # None /\ now < cache.exp

SetCount(s) ==
    [total |-> Cardinality(s.ids), exp |-> now + CountTtl, ids |-> s.ids, late |-> s.late]

\* admin_list that finds no cached count: it counts all rows of the replica,
\* deleted ones too ...
AdminList(w) ==
    /\ ~Cached
    /\ Begin(w, [op |-> "count", ids |-> reader, late |-> reader # Existing])
    /\ UNCHANGED lastId

\* ... and stores what it counted in another step.
StoreCount(w) ==
    /\ sess[w].op = "count"
    /\ cache' = SetCount(sess[w])
    /\ sess' = [sess EXCEPT ![w] = Idle]
    /\ UNCHANGED <<rows, reader, announced, lastId, pref, walk, now, served>>

\* The replica has caught up; without one the reader is the writer.
Replicate ==
    /\ reader # Existing
    /\ reader' = Existing
    /\ UNCHANGED <<rows, announced, lastId, pref, sess, cache, walk, now, served>>

-----------------------------------------------------------------------------
(***************************************************************************)
(* Commits.                                                                *)
(***************************************************************************)
Flush(cur, s) == [c \in DOMAIN cur |-> IF s.new[c] # s.snap[c] THEN s.new[c] ELSE cur[c]]

Committed(w) ==
    sess' = [sess EXCEPT ![w] = IF @.admin THEN [op |-> "invalidate", id |-> @.id] ELSE Idle]

CommitInsert(w) ==
    /\ sess[w].op = "insert"
    /\ rows' = [rows EXCEPT ![sess[w].id] = sess[w].new]
    /\ Committed(w)
    /\ UNCHANGED <<reader, announced, lastId, pref, cache, walk, now, served>>

\* A row that has been purged meanwhile is a StaleDataError.
CommitUpdate(w) ==
    LET s == sess[w] IN
    /\ s.op = "update"
    /\ Exists(s.id)
    /\ rows' = [rows EXCEPT ![s.id] = Flush(@, s)]
    /\ Committed(w)
    /\ UNCHANGED <<reader, announced, lastId, pref, cache, walk, now, served>>

\* The other requests' counts are late from now on.
Announce(w) ==
    /\ sess[w].op = "invalidate"
    /\ announced' = announced \cup ({sess[w].id} \cap Existing)
    /\ sess' = [v \in Workers |-> IF v = w THEN Idle
                                  ELSE IF sess[v].op = "count" THEN [sess[v] EXCEPT !.late = TRUE]
                                  ELSE sess[v]]
    /\ UNCHANGED <<rows, reader, lastId, pref, walk, now, served>>

\* Mutant: the key of another table is deleted.
InvalidateCountOther(w) == Announce(w) /\ UNCHANGED cache

InvalidateCount(w) == Announce(w) /\ cache' = NoCount

\* IntegrityError, StaleDataError, lost connection, Redis error or crash.
Abort(w) ==
    /\ sess[w] # Idle
    /\ sess' = [sess EXCEPT ![w] = Idle]
    /\ UNCHANGED <<rows, reader, announced, lastId, pref, cache, walk, now, served>>

\* purge_soft_deleted: one DELETE.
Purge ==
    LET gone == {i \in Existing : rows[i].deleted_at # None /\ rows[i].deleted_at < now - PurgeAge}
    IN
    /\ gone # {}
    /\ rows' = [i \in Ids |-> IF i \in gone THEN NoRow ELSE rows[i]]
    /\ announced' = announced \ gone
    /\ UNCHANGED <<reader, lastId, pref, sess, cache, walk, now, served>>

Tick ==
    /\ now < MaxTime
    /\ now' = now + 1
    /\ UNCHANGED <<rows, reader, announced, lastId, pref, sess, cache, walk, served>>

-----------------------------------------------------------------------------
(***************************************************************************)
(* A client walks through list_notifications, newest first, from the first *)
(* page to the one that has no next_cursor.                                *)
(***************************************************************************)
Listed(u, unread) == {i \in Ids : GetForUser(u, i) /\ (unread => ~rows[i].is_read)}

\* The n largest ids.
Newest(S, n) == {i \in S : Cardinality({j \in S : j > i}) < n}

\* list_for_user_cursor: one row more than the page holds.
ListForUserCursor(u, unread, cursor) ==
    Newest({i \in Listed(u, unread) : cursor # None => i < cursor}, PageSize + 1)

\* Mutant: the cursor is the extra row, which the next page then leaves out.
NextCursorExtra(items) == IF Cardinality(items) > PageSize THEN Min(items) ELSE None

\* The last row of the page, if there is more.
NextCursor(items) ==
    IF Cardinality(items) > PageSize THEN Min(Newest(items, PageSize)) ELSE None

StartList(u, unread) ==
    LET items == ListForUserCursor(u, unread, None) IN
    /\ walk.state = "none"
    /\ walk' = [state |-> IF NextCursor(items) = None THEN "done" ELSE "more",
                user |-> u, unread |-> unread, cursor |-> NextCursor(items),
                seen |-> Newest(items, PageSize), must |-> Listed(u, unread), again |-> FALSE]
    /\ UNCHANGED <<rows, reader, announced, lastId, pref, sess, cache, now, served>>

NextPage ==
    LET items == ListForUserCursor(walk.user, walk.unread, walk.cursor)
        page == Newest(items, PageSize)
    IN
    /\ walk.state = "more"
    /\ walk' = [walk EXCEPT !.state = IF NextCursor(items) = None THEN "done" ELSE "more",
                            !.cursor = NextCursor(items),
                            !.seen = @ \cup page,
                            !.must = @ \cap Listed(walk.user, walk.unread),
                            !.again = @ \/ page \cap walk.seen # {}]
    /\ UNCHANGED <<rows, reader, announced, lastId, pref, sess, cache, now, served>>

-----------------------------------------------------------------------------
Requests(w) ==
    \/ AdminList(w)
    \/ \E u \in Users :
          \/ CreateForUser(w, u)
          \/ GetPreferences(w, u)
          \/ \E on \in BOOLEAN : UpdatePreferences(w, u, on)
          \/ \E form \in [is_read : {"on", "off"}] : AdminCreate(w, u, form)
    \/ \E i \in Ids :
          \/ \E u \in Users : MarkRead(w, u, i) \/ DeleteNotification(w, u, i)
          \/ RestoreNotification(w, i)
          \/ \E form \in [user_id : Users, is_read : {"on", "off"}] : AdminEdit(w, i, form)
          \/ AdminDelete(w, i) \/ AdminRestore(w, i)

Next ==
    \/ \E w \in Workers :
          \/ Free(w) /\ Requests(w)
          \/ CommitDefault(w) \/ CommitPreference(w)
          \/ CommitInsert(w) \/ CommitUpdate(w)
          \/ InvalidateCount(w) \/ StoreCount(w) \/ Abort(w)
    \/ \E u \in Users : MarkAllRead(u)
    \/ \E u \in Users, unread \in BOOLEAN : StartList(u, unread)
    \/ NextPage
    \/ Replicate
    \/ Purge
    \/ Tick

Spec == Init /\ [][Next]_vars

-----------------------------------------------------------------------------
(***************************************************************************)
(* Properties.                                                             *)
(***************************************************************************)
\* Every stored row, cached count and walk is well formed.
TypeOK ==
    /\ \A i \in Existing :
          /\ rows[i].user_id \in Users /\ rows[i].is_read \in BOOLEAN
          /\ rows[i].read_at \in Nat \cup {None} /\ rows[i].deleted_at \in Nat \cup {None}
    /\ Existing \subseteq 1..lastId
    /\ pref \in [Users -> BOOLEAN \cup {None}]
    /\ cache.total \in 0..MaxRows \cup {None}

\* Keyset pagination: whatever is inserted, read, restored, moved or purged
\* between two pages, the client of list_notifications sees no row twice and,
\* by its last page, every row that was listed at each of its requests.
WalkComplete ==
    walk.state # "none" => /\ ~walk.again
                           /\ walk.state = "done" => walk.must \subseteq walk.seen

\* The total the administrator's list shows counts every row that an
\* administrator's finished request has announced by deleting the key, whatever
\* lists, aborts, purges and expiries came between, unless the count was taken
\* on a replica that lagged or was under way when the key was deleted.
CountCoversAdmin == Cached /\ ~cache.late => announced \subseteq cache.ids

=============================================================================
