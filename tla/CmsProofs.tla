----------------------------- MODULE CmsProofs -----------------------------
(***************************************************************************)
(* Theorems about Cms, for any number of tenants, slugs, texts, workers,   *)
(* entries, labels and requests.                                           *)
(***************************************************************************)
EXTENDS Cms, TLAPS

-----------------------------------------------------------------------------
(***************************************************************************)
(* Types of the rows and of the requests in flight.                        *)
(***************************************************************************)
EntryRow == [kind : Entries, tenant : Tenants \cup {None}, slug : Slugs,
             md : Bodies \cup {None}, html : {Render(md) : md \in Bodies \cup {None}},
             deleted : BOOLEAN]
LabelRow == [kind : Labels, tenant : Tenants \cup {None}]

Inserting == [op : {"insert"}, add : SUBSET LabelIds, new : EntryRow]
Updating == [op : {"update"}, id : EntryIds, snap : EntryRow, new : EntryRow,
             add : SUBSET LabelIds, drop : SUBSET LabelIds]
Labelling == [op : {"label"}, new : LabelRow]
Unlabelling == [op : {"unlabel"}, id : LabelIds]
Session == {Idle} \cup Inserting \cup Updating \cup Labelling \cup Unlabelling

-----------------------------------------------------------------------------
(***************************************************************************)
(* The inductive invariants.                                               *)
(***************************************************************************)

\* The tables hold rows, the sequences are ahead of every id in use, and a
\* worker is at one of the requests.
TypeInv ==
    /\ tenants \subseteq Tenants
    /\ entry \in [EntryIds -> EntryRow \cup {NoRow}]
    /\ label \in [LabelIds -> LabelRow \cup {NoRow}]
    /\ links \subseteq EntryIds \X LabelIds
    /\ lastEntry \in Nat /\ lastLabel \in Nat
    /\ \A i \in EntryIds : i > lastEntry => entry[i] = NoRow
    /\ sess \in [Workers -> Session]
    /\ default \in [Workers -> Tenants \cup {None}]
    /\ raced \subseteq EntryIds

\* What an update carries: it loaded a row that was not deleted, it leaves
\* kind and tenant alone, and it writes text and HTML together or neither.
Coherent(s) ==
    /\ ~s.snap.deleted
    /\ s.new.kind = s.snap.kind /\ s.new.tenant = s.snap.tenant
    /\ \/ s.new.html = Render(s.new.md)
       \/ s.new.md = s.snap.md /\ s.new.html = s.snap.html

\* What an insert carries is rendered and not deleted.
Rendered(s) == s.new.html = Render(s.new.md) /\ ~s.new.deleted

Sound(s) == (s.op = "insert" => Rendered(s)) /\ (s.op = "update" => Coherent(s))

SessionInv == \A w \in Workers : Sound(sess[w])

CmsInv == TypeInv /\ SessionInv

-----------------------------------------------------------------------------
(***************************************************************************)
(* Rows and sessions.                                                      *)
(***************************************************************************)

\* The absent marker is the only value of a table that has no kind.
LEMMA KindOfRow ==
    /\ \A r \in EntryRow \cup {NoRow} : r.kind # None <=> r \in EntryRow
    /\ \A r \in LabelRow \cup {NoRow} : r.kind # None <=> r \in LabelRow
BY CmsAssumption DEF EntryRow, LabelRow, NoRow, Entries, Labels

\* The operation of a session says which request it is.
LEMMA KindOfSession ==
    \A s \in Session :
        /\ s.op = "insert" => s \in Inserting
        /\ s.op = "update" => s \in Updating
        /\ s.op = "label" => s \in Labelling
        /\ s.op = "unlabel" => s \in Unlabelling
        /\ s.op # "idle" => s # Idle
BY DEF Session, Idle, Inserting, Updating, Labelling, Unlabelling

\* A flush of an update onto a row is a row of the same kind and tenant, and
\* deleted if the row was.
LEMMA FlushedRow ==
    ASSUME NEW cur \in EntryRow, NEW s \in Updating, Coherent(s)
    PROVE  /\ Flush(cur, s) \in EntryRow
           /\ Flush(cur, s).kind = cur.kind
           /\ Flush(cur, s).tenant = cur.tenant
           /\ cur.deleted => Flush(cur, s).deleted
<1>. DEFINE f == Flush(cur, s)
<1>1. DOMAIN cur = {"kind", "tenant", "slug", "md", "html", "deleted"}
  BY DEF EntryRow
<1>2. /\ f.kind = IF s.new.kind # s.snap.kind THEN s.new.kind ELSE cur.kind
      /\ f.tenant = IF s.new.tenant # s.snap.tenant THEN s.new.tenant ELSE cur.tenant
      /\ f.slug = IF s.new.slug # s.snap.slug THEN s.new.slug ELSE cur.slug
      /\ f.md = IF s.new.md # s.snap.md THEN s.new.md ELSE cur.md
      /\ f.html = IF s.new.html # s.snap.html THEN s.new.html ELSE cur.html
      /\ f.deleted = IF s.new.deleted # s.snap.deleted THEN s.new.deleted ELSE cur.deleted
  BY <1>1 DEF Flush
<1>3. s.new \in EntryRow /\ s.snap \in EntryRow
  BY DEF Updating
<1>4. f = [kind |-> f.kind, tenant |-> f.tenant, slug |-> f.slug, md |-> f.md,
           html |-> f.html, deleted |-> f.deleted]
  BY <1>1 DEF Flush
<1>5. f \in EntryRow
  BY <1>2, <1>3, <1>4 DEF EntryRow
<1>6. f.kind = cur.kind /\ f.tenant = cur.tenant
  BY <1>2 DEF Coherent
<1>7. cur.deleted => f.deleted
  BY <1>2, <1>3 DEF Coherent, EntryRow
<1>. QED
  BY <1>5, <1>6, <1>7

\* Onto the row it loaded, a flush writes the row the handler made.
LEMMA FlushUnraced ==
    ASSUME NEW s \in Updating
    PROVE  Flush(s.snap, s) = s.new
<1>1. DOMAIN s.snap = DOMAIN s.new
  BY DEF Updating, EntryRow
<1>2. s.new = [c \in DOMAIN s.new |-> s.new[c]]
  BY DEF Updating, EntryRow
<1>. QED
  BY <1>1, <1>2 DEF Flush

-----------------------------------------------------------------------------
(***************************************************************************)
(* The requests, up to their commits: each leaves a sound session.         *)
(***************************************************************************)

\* A request that begins as s.
Request(w, s) == s \in Session /\ Sound(s) /\ Begin(w, s)

LEMMA CreateBegins ==
    ASSUME CmsInv, NEW w \in Workers, NEW kind \in Entries, NEW ctx \in Tenants \cup {None},
           NEW own \in Tenants \cup {None}, NEW slug \in Slugs, NEW md \in Bodies,
           NEW L \in SUBSET LabelIds, Create(w, kind, ctx, own, slug, md, L)
    PROVE  \E s : Request(w, s)
<1>1. PICK t \in TenantOf(own, ctx) :
        Begin(w, [op |-> "insert", add |-> FoundLabels(L, ctx),
                  new |-> [kind |-> kind, tenant |-> t, slug |-> slug, md |-> md,
                           html |-> Render(md), deleted |-> FALSE]])
  BY DEF Create
<1>. DEFINE row == [kind |-> kind, tenant |-> t, slug |-> slug, md |-> md,
                    html |-> Render(md), deleted |-> FALSE]
            s == [op |-> "insert", add |-> FoundLabels(L, ctx), new |-> row]
<1>2. row \in EntryRow
  BY DEF EntryRow, TenantOf
<1>3. s \in Inserting /\ Rendered(s)
  BY <1>2 DEF Inserting, Rendered, FoundLabels
<1>4. s \in Session /\ Sound(s)
  BY <1>3 DEF Session, Sound
<1>. QED
  BY <1>1, <1>4 DEF Request

\* What the other handlers find is a row that is not deleted.
LEMMA FoundEntries ==
    ASSUME CmsInv, NEW slug, NEW ctx, NEW i \in GetPage(slug, ctx) \cup GetPost(slug, ctx)
    PROVE  i \in EntryIds /\ entry[i] \in EntryRow /\ ~entry[i].deleted
<1>1. i \in EntryIds /\ (i \in Live("page", ctx) \/ i \in Live("post", ctx))
  BY DEF GetPage, GetPost, PageBySlug, PostBySlug, BySlug
<1>. QED
  BY <1>1, KindOfRow DEF Live, Exists, CmsInv, TypeInv

LEMMA UpdateBegins ==
    ASSUME CmsInv, NEW w \in Workers, NEW i \in EntryIds, NEW c \in Changes, NEW ctx,
           entry[i] \in EntryRow, ~entry[i].deleted, Update(w, i, c, ctx)
    PROVE  \E s : Request(w, s)
<1>. DEFINE have == {l \in LabelIds : <<i, l>> \in links}
            want == IF c.labels = None THEN have ELSE FoundLabels(c.labels, ctx)
            s == [op |-> "update", id |-> i, snap |-> entry[i], new |-> Edited(entry[i], c),
                  add |-> want \ have, drop |-> have \ want]
<1>1. Begin(w, s)
  BY DEF Update
<1>2. want \in SUBSET LabelIds /\ have \in SUBSET LabelIds
  BY DEF Changes, FoundLabels
<1>3. Edited(entry[i], c) \in EntryRow
  BY DEF Edited, EntryRow, Changes
<1>4. s \in Updating
  BY <1>2, <1>3 DEF Updating
<1>5. /\ Edited(entry[i], c).html = Render(Edited(entry[i], c).md)
      /\ Edited(entry[i], c).kind = entry[i].kind
      /\ Edited(entry[i], c).tenant = entry[i].tenant
  BY DEF Edited, EntryRow
<1>6. Coherent(s)
  BY <1>5 DEF Coherent
<1>7. s \in Session /\ Sound(s)
  BY <1>4, <1>6 DEF Session, Sound
<1>. QED
  BY <1>1, <1>7 DEF Request

LEMMA SoftDeleteBegins ==
    ASSUME CmsInv, NEW w \in Workers, NEW i \in EntryIds,
           entry[i] \in EntryRow, ~entry[i].deleted, SoftDelete(w, i)
    PROVE  \E s : Request(w, s)
<1>. DEFINE row == [entry[i] EXCEPT !.deleted = TRUE]
            s == [op |-> "update", id |-> i, snap |-> entry[i], new |-> row,
                  add |-> {}, drop |-> {}]
<1>1. Begin(w, s)
  BY DEF SoftDelete
<1>2. row \in EntryRow /\ row.kind = entry[i].kind /\ row.tenant = entry[i].tenant
      /\ row.md = entry[i].md /\ row.html = entry[i].html
  BY DEF EntryRow
<1>3. s \in Updating /\ Coherent(s)
  BY <1>2 DEF Updating, Coherent
<1>4. s \in Session /\ Sound(s)
  BY <1>3 DEF Session, Sound
<1>. QED
  BY <1>1, <1>4 DEF Request

LEMMA LabelBegins ==
    ASSUME CmsInv, NEW w \in Workers, NEW ctx \in Tenants \cup {None}, NEW kind \in Labels,
           \/ CreateLabel(w, kind, ctx)
           \/ \E l \in LabelIds : DeleteLabel(w, kind, ctx, l)
    PROVE  \E s : Request(w, s)
<1>1. CASE CreateLabel(w, kind, ctx)
  <2>1. PICK t \in TenantOf(None, ctx) :
            Begin(w, [op |-> "label", new |-> [kind |-> kind, tenant |-> t]])
    BY <1>1 DEF CreateLabel
  <2>. DEFINE s == [op |-> "label", new |-> [kind |-> kind, tenant |-> t]]
  <2>2. s \in Labelling
    BY DEF Labelling, LabelRow, TenantOf
  <2>. QED
    BY <2>1, <2>2 DEF Request, Session, Sound
<1>2. CASE \E l \in LabelIds : DeleteLabel(w, kind, ctx, l)
  <2>1. PICK l \in LabelIds : DeleteLabel(w, kind, ctx, l)
    BY <1>2
  <2>. DEFINE s == [op |-> "unlabel", id |-> l]
  <2>2. s \in Unlabelling
    BY DEF Unlabelling
  <2>. QED
    BY <2>1, <2>2 DEF Request, Session, Sound, DeleteLabel
<1>. QED
  BY <1>1, <1>2

\* Next, one case per kind of step.
LEMMA StepCases ==
    ASSUME CmsInv, [Next]_vars
    PROVE  \/ \E w \in Workers : \/ \E s : Request(w, s)
                                \/ WarmDefaultTenant(w)
                                \/ CommitInsert(w) \/ CommitUpdate(w)
                                \/ CommitLabel(w) \/ CommitUnlabel(w)
                                \/ Abort(w)
           \/ \E t \in Tenants : DeleteTenant(t)
           \/ UNCHANGED vars
<1>1. ASSUME NEW w \in Workers, NEW ctx \in Tenants \cup {None}, Requests(w, ctx)
      PROVE  \E s : Request(w, s)
  <2>1. CASE \E own \in Tenants \cup {None}, slug \in Slugs, md \in Bodies, L \in SUBSET LabelIds :
                CreatePage(w, ctx, own, slug, md, L) \/ CreatePost(w, ctx, own, slug, md, L)
    BY <2>1, CreateBegins
       DEF CreatePage, CreatePost, PageWithRelations, PostWithRelations, Entries
  <2>2. CASE \E slug \in Slugs, c \in Changes :
                UpdatePage(w, ctx, slug, c) \/ UpdatePost(w, ctx, slug, c)
    BY <2>2, UpdateBegins, FoundEntries
       DEF UpdatePage, UpdatePost, UpdatePageWithRelations, UpdatePostWithRelations
  <2>3. CASE \E slug \in Slugs : DeletePage(w, ctx, slug) \/ DeletePost(w, ctx, slug)
    BY <2>3, SoftDeleteBegins, FoundEntries DEF DeletePage, DeletePost
  <2>4. CASE CreateCategory(w, ctx) \/ CreateTag(w, ctx)
    BY <2>4, LabelBegins DEF CreateCategory, CreateTag, Labels
  <2>5. CASE \E l \in LabelIds : DeleteCategory(w, ctx, l) \/ DeleteTag(w, ctx, l)
    BY <2>5, LabelBegins DEF DeleteCategory, DeleteTag, Labels
  <2>. QED
    BY <1>1, <2>1, <2>2, <2>3, <2>4, <2>5 DEF Requests
<1>2. ASSUME NEW w \in Workers, NEW header \in Tenants \cup {None}
      PROVE  ResolveTenant(w, header) \in Tenants \cup {None}
  BY DEF ResolveTenant, CmsInv, TypeInv
<1>. QED
  BY <1>1, <1>2 DEF Next

-----------------------------------------------------------------------------
(***************************************************************************)
(* The inductive invariant.                                                *)
(***************************************************************************)

\* Giving one worker a sound session leaves all of them sound.
LEMMA SessionStep ==
    ASSUME CmsInv, NEW w \in Workers, NEW s \in Session, Sound(s),
           sess' = [sess EXCEPT ![w] = s]
    PROVE  sess' \in [Workers -> Session] /\ SessionInv'
BY DEF CmsInv, TypeInv, SessionInv

\* So does a session that ends.
LEMMA EndStep ==
    ASSUME CmsInv, NEW w \in Workers, End(w)
    PROVE  sess' \in [Workers -> Session] /\ SessionInv'
<1>1. Idle \in Session /\ Sound(Idle)
  BY DEF Session, Sound, Idle
<1>. QED
  BY <1>1, SessionStep DEF End

\* What the commit of an insert does.
LEMMA InsertStep ==
    ASSUME CmsInv, NEW w \in Workers, CommitInsert(w)
    PROVE  LET s == sess[w]  i == lastEntry + 1 IN
           /\ s \in Inserting /\ Rendered(s) /\ i \in EntryIds
           /\ entry' = [entry EXCEPT ![i] = s.new] /\ s.new \in EntryRow
           /\ links' = links \cup ({i} \X s.add)
           /\ TenantThere(s.new) /\ LabelsThere(s.add)
<1>1. sess[w] \in Inserting /\ Rendered(sess[w])
  BY KindOfSession DEF CmsInv, TypeInv, SessionInv, Sound, CommitInsert
<1>2. lastEntry + 1 \in EntryIds
  BY CmsAssumption DEF CmsInv, TypeInv, CommitInsert, EntryIds
<1>. QED
  BY <1>1, <1>2 DEF CommitInsert, Inserting

\* What the commit of an update does.
LEMMA UpdateStep ==
    ASSUME CmsInv, NEW w \in Workers, CommitUpdate(w)
    PROVE  LET s == sess[w]  row == Flush(entry[s.id], s) IN
           /\ s \in Updating /\ Coherent(s) /\ s.id \in EntryIds
           /\ entry[s.id] \in EntryRow
           /\ entry' = [entry EXCEPT ![s.id] = row]
           /\ row \in EntryRow
           /\ row.kind = entry[s.id].kind /\ row.tenant = entry[s.id].tenant
           /\ entry[s.id].deleted => row.deleted
           /\ links' = (links \cup ({s.id} \X s.add)) \ ({s.id} \X s.drop)
           /\ s.add \subseteq LabelIds /\ LabelsThere(s.add)
           /\ raced' = IF entry[s.id] = s.snap THEN raced ELSE raced \cup {s.id}
<1>1. sess[w] \in Updating /\ Coherent(sess[w])
  BY KindOfSession DEF CmsInv, TypeInv, SessionInv, Sound, CommitUpdate
<1>2. sess[w].id \in EntryIds /\ sess[w].add \subseteq LabelIds
  BY <1>1 DEF Updating
<1>3. entry[sess[w].id] \in EntryRow
  BY <1>2, KindOfRow DEF CmsInv, TypeInv, CommitUpdate, Exists
<1>. QED
  BY <1>1, <1>2, <1>3, FlushedRow DEF CommitUpdate

\* What the commit of a new label does.
LEMMA LabelStep ==
    ASSUME CmsInv, NEW w \in Workers, CommitLabel(w)
    PROVE  /\ sess[w].new \in LabelRow /\ TenantThere(sess[w].new)
           /\ lastLabel + 1 \in LabelIds
           /\ label' = [label EXCEPT ![lastLabel + 1] = sess[w].new]
<1>1. sess[w] \in Labelling
  BY KindOfSession DEF CmsInv, TypeInv, CommitLabel
<1>. QED
  BY <1>1, CmsAssumption DEF CmsInv, TypeInv, CommitLabel, Labelling, LabelIds

\* What the commit of a label's deletion does.
LEMMA UnlabelStep ==
    ASSUME CmsInv, NEW w \in Workers, CommitUnlabel(w)
    PROVE  /\ sess[w].id \in LabelIds
           /\ label' = [label EXCEPT ![sess[w].id] = NoRow]
           /\ links' = links \ (EntryIds \X {sess[w].id})
<1>1. sess[w] \in Unlabelling
  BY KindOfSession DEF CmsInv, TypeInv, CommitUnlabel
<1>. QED
  BY <1>1 DEF CommitUnlabel, Unlabelling

LEMMA CmsInvInit == Init => CmsInv
BY CmsAssumption DEF Init, CmsInv, TypeInv, SessionInv, Sound, Session, Idle, NoRow

LEMMA CmsInvNext == CmsInv /\ [Next]_vars => CmsInv'
<1>. SUFFICES ASSUME CmsInv, [Next]_vars PROVE CmsInv'
  OBVIOUS
<1>. USE DEF CmsInv
<1>1. ASSUME NEW w \in Workers, NEW s, Request(w, s) PROVE CmsInv'
  BY <1>1, SessionStep DEF Request, Begin, TypeInv
<1>2. ASSUME NEW w \in Workers, WarmDefaultTenant(w) PROVE CmsInv'
  BY <1>2, EndStep DEF WarmDefaultTenant, End, TypeInv
<1>3. ASSUME NEW w \in Workers, CommitInsert(w) PROVE CmsInv'
  <2>1. sess' \in [Workers -> Session] /\ SessionInv'
    BY <1>3, EndStep DEF CommitInsert
  <2>2. entry' \in [EntryIds -> EntryRow \cup {NoRow}]
    BY <1>3, InsertStep DEF TypeInv
  <2>3. links' \subseteq EntryIds \X LabelIds
    BY <1>3, InsertStep DEF TypeInv, Inserting
  <2>4. lastEntry' \in Nat /\ \A i \in EntryIds : i > lastEntry' => entry'[i] = NoRow
    <3>1. lastEntry' = lastEntry + 1 /\ entry' = [entry EXCEPT ![lastEntry + 1] = sess[w].new]
      BY <1>3 DEF CommitInsert
    <3>2. entry \in [EntryIds -> EntryRow \cup {NoRow}] /\ lastEntry \in Nat
          /\ \A i \in EntryIds : i > lastEntry => entry[i] = NoRow
      BY DEF TypeInv
    <3>3. EntryIds \subseteq Nat
      BY DEF EntryIds
    <3>. QED
      BY <3>1, <3>2, <3>3
  <2>. QED
    BY <1>3, <2>1, <2>2, <2>3, <2>4 DEF TypeInv, CommitInsert
<1>4. ASSUME NEW w \in Workers, CommitUpdate(w) PROVE CmsInv'
  <2>1. sess' \in [Workers -> Session] /\ SessionInv'
    BY <1>4, EndStep DEF CommitUpdate
  <2>2. entry' \in [EntryIds -> EntryRow \cup {NoRow}]
    BY <1>4, UpdateStep DEF TypeInv
  <2>3. links' \subseteq EntryIds \X LabelIds /\ raced' \subseteq EntryIds
    BY <1>4, UpdateStep DEF TypeInv
  <2>4. \A i \in EntryIds : i > lastEntry => entry'[i] = NoRow
    <3>1. entry[sess[w].id] # NoRow
      BY <1>4, UpdateStep, KindOfRow, CmsAssumption DEF CommitUpdate, Exists, NoRow
    <3>. QED
      BY <1>4, <3>1, UpdateStep DEF TypeInv
  <2>. QED
    BY <1>4, <2>1, <2>2, <2>3, <2>4 DEF TypeInv, CommitUpdate
<1>5. ASSUME NEW w \in Workers, CommitLabel(w) PROVE CmsInv'
  <2>1. sess' \in [Workers -> Session] /\ SessionInv'
    BY <1>5, EndStep DEF CommitLabel
  <2>2. label' \in [LabelIds -> LabelRow \cup {NoRow}]
    BY <1>5, LabelStep DEF TypeInv
  <2>3. lastLabel' \in Nat
    BY <1>5 DEF CommitLabel, TypeInv
  <2>. QED
    BY <1>5, <2>1, <2>2, <2>3 DEF TypeInv, CommitLabel
<1>6. ASSUME NEW w \in Workers, CommitUnlabel(w) PROVE CmsInv'
  <2>1. sess' \in [Workers -> Session] /\ SessionInv'
    BY <1>6, EndStep DEF CommitUnlabel
  <2>. QED
    BY <1>6, <2>1, UnlabelStep DEF TypeInv, CommitUnlabel
<1>7. ASSUME NEW w \in Workers, Abort(w) PROVE CmsInv'
  BY <1>7, EndStep DEF Abort, TypeInv
<1>8. ASSUME NEW t \in Tenants, DeleteTenant(t) PROVE CmsInv'
  <2>1. entry' \in [EntryIds -> EntryRow \cup {NoRow}]
    BY <1>8 DEF DeleteTenant, TypeInv
  <2>2. label' \in [LabelIds -> LabelRow \cup {NoRow}]
    BY <1>8 DEF DeleteTenant, TypeInv
  <2>3. \A i \in EntryIds : i > lastEntry => entry'[i] = NoRow
    BY <1>8 DEF DeleteTenant, TypeInv
  <2>. QED
    BY <1>8, <2>1, <2>2, <2>3 DEF DeleteTenant, TypeInv, SessionInv
<1>9. CASE UNCHANGED vars
  BY <1>9 DEF vars, TypeInv, SessionInv
<1>. QED
  BY <1>1, <1>2, <1>3, <1>4, <1>5, <1>6, <1>7, <1>8, <1>9, StepCases

\* The tables, the sequences and the requests in flight are always of their
\* types, and a request always carries a consistent row: whatever it races
\* with, an update loaded an undeleted row and keeps its kind and tenant.
THEOREM CmsInvariant == Spec => []CmsInv
BY CmsInvInit, CmsInvNext, PTL DEF Spec

\* Type correctness: what a table holds under an id is a whole row.
THEOREM TypeCorrect == Spec => []TypeOK
<1>1. CmsInv => TypeOK
  BY KindOfRow DEF CmsInv, TypeInv, TypeOK, Exists, EntryRow
<1>. QED
  BY <1>1, CmsInvariant, PTL

-----------------------------------------------------------------------------
(***************************************************************************)
(* The properties.                                                         *)
(***************************************************************************)
LEMMA HtmlInvNext == CmsInv /\ HtmlFollowsMarkdown /\ [Next]_vars => HtmlFollowsMarkdown'
<1>. SUFFICES ASSUME CmsInv, HtmlFollowsMarkdown, [Next]_vars,
                     NEW i \in EntryIds, i \notin raced', entry'[i].kind # None
              PROVE  entry'[i].html = Render(entry'[i].md)
  BY DEF HtmlFollowsMarkdown, Exists
<1>0. entry \in [EntryIds -> EntryRow \cup {NoRow}]
  BY DEF CmsInv, TypeInv
<1>1. CASE UNCHANGED <<entry, raced>>
  BY <1>1 DEF HtmlFollowsMarkdown, Exists
<1>2. ASSUME NEW w \in Workers, CommitInsert(w) PROVE entry'[i].html = Render(entry'[i].md)
  <2>1. CASE i = lastEntry + 1
    BY <1>0, <1>2, <2>1, InsertStep DEF Rendered
  <2>2. CASE i # lastEntry + 1
    <3>1. entry'[i] = entry[i] /\ raced' = raced
      BY <1>0, <1>2, <2>2 DEF CommitInsert
    <3>. QED
      BY <3>1 DEF HtmlFollowsMarkdown, Exists
  <2>. QED
    BY <2>1, <2>2
<1>3. ASSUME NEW w \in Workers, CommitUpdate(w) PROVE entry'[i].html = Render(entry'[i].md)
  <2>. DEFINE s == sess[w]
  <2>1. CASE i = s.id
    <3>1. entry[i] = s.snap /\ i \notin raced /\ entry[i] \in EntryRow
      BY <1>3, <2>1, UpdateStep
    <3>2. entry'[i] = s.new
      BY <1>0, <1>3, <2>1, <3>1, UpdateStep, FlushUnraced
    <3>3. entry[i].html = Render(entry[i].md)
      BY <3>1, KindOfRow DEF HtmlFollowsMarkdown, Exists
    <3>4. Coherent(s)
      BY <1>3, UpdateStep
    <3>. QED
      BY <3>1, <3>2, <3>3, <3>4 DEF Coherent
  <2>2. CASE i # s.id
    <3>1. entry'[i] = entry[i] /\ i \notin raced
      BY <1>0, <1>3, <2>2, UpdateStep
    <3>. QED
      BY <3>1 DEF HtmlFollowsMarkdown, Exists
  <2>. QED
    BY <2>1, <2>2
<1>4. ASSUME NEW t \in Tenants, DeleteTenant(t) PROVE entry'[i].html = Render(entry'[i].md)
  <2>1. entry'[i] = entry[i] /\ raced' = raced
    BY <1>4 DEF DeleteTenant, NoRow
  <2>. QED
    BY <2>1 DEF HtmlFollowsMarkdown, Exists
<1>. QED
  BY <1>1, <1>2, <1>3, <1>4, StepCases
     DEF Request, Begin, WarmDefaultTenant, CommitLabel, CommitUnlabel, Abort, vars

\* Dual storage of pages and posts (content and content_html): unless a commit
\* overlapped another commit on the same row, the stored HTML is the rendering
\* of the stored markdown, for any number of workers and requests.
THEOREM HtmlFollows == Spec => []HtmlFollowsMarkdown
<1>1. Init => HtmlFollowsMarkdown
  BY DEF Init, HtmlFollowsMarkdown, Exists, NoRow
<1>. QED
  BY <1>1, CmsInvInit, CmsInvNext, HtmlInvNext, PTL DEF Spec

LEMMA NoDanglingNext == CmsInv /\ NoDanglingLinks /\ [Next]_vars => NoDanglingLinks'
<1>. SUFFICES ASSUME CmsInv, NoDanglingLinks, [Next]_vars PROVE NoDanglingLinks'
  OBVIOUS
<1>0. /\ entry \in [EntryIds -> EntryRow \cup {NoRow}]
      /\ label \in [LabelIds -> LabelRow \cup {NoRow}]
      /\ links \subseteq EntryIds \X LabelIds
  BY DEF CmsInv, TypeInv
<1>1. CASE UNCHANGED <<entry, label, links, tenants>>
  BY <1>1 DEF NoDanglingLinks, Exists, LabelExists
<1>2. ASSUME NEW w \in Workers, CommitInsert(w) PROVE NoDanglingLinks'
  <2>. DEFINE i == lastEntry + 1  s == sess[w]
  <2>1. i \in EntryIds /\ entry' = [entry EXCEPT ![i] = s.new] /\ s.new.kind # None
        /\ UNCHANGED <<tenants, label>>
    BY <1>2, InsertStep, KindOfRow DEF CommitInsert
  <2>2. \A k \in links' : Exists(k[1])' /\ LabelExists(k[2])'
    <3>. TAKE k \in links'
    <3>1. CASE k \in links
      BY <1>0, <2>1, <3>1 DEF NoDanglingLinks, Exists, LabelExists
    <3>2. CASE k \in {i} \X s.add
      BY <1>0, <1>2, <2>1, <3>2, InsertStep DEF LabelsThere, Exists, LabelExists
    <3>. QED
      BY <1>2, <3>1, <3>2, InsertStep
  <2>3. \A j \in EntryIds : Exists(j)' => entry'[j].tenant \in tenants' \cup {None}
    BY <1>0, <1>2, <2>1, InsertStep DEF NoDanglingLinks, TenantThere, Exists
  <2>. QED
    BY <2>1, <2>2, <2>3 DEF NoDanglingLinks, LabelExists
<1>3. ASSUME NEW w \in Workers, CommitUpdate(w) PROVE NoDanglingLinks'
  <2>. DEFINE s == sess[w]  i == s.id
  <2>1. /\ i \in EntryIds /\ UNCHANGED <<tenants, label>>
        /\ entry'[i].kind # None /\ entry[i].kind # None /\ entry'[i].tenant = entry[i].tenant
        /\ \A j \in EntryIds \ {i} : entry'[j] = entry[j]
    BY <1>0, <1>3, UpdateStep, KindOfRow DEF CommitUpdate
  <2>2. \A k \in links' : Exists(k[1])' /\ LabelExists(k[2])'
    <3>. TAKE k \in links'
    <3>1. CASE k \in links
      BY <1>0, <2>1, <3>1 DEF NoDanglingLinks, Exists, LabelExists
    <3>2. CASE k \in {i} \X s.add
      BY <1>0, <1>3, <2>1, <3>2, UpdateStep DEF LabelsThere, Exists, LabelExists
    <3>. QED
      BY <1>3, <3>1, <3>2, UpdateStep
  <2>3. \A j \in EntryIds : Exists(j)' => entry'[j].tenant \in tenants' \cup {None}
    BY <2>1 DEF NoDanglingLinks, Exists
  <2>. QED
    BY <2>1, <2>2, <2>3 DEF NoDanglingLinks, LabelExists
<1>4. ASSUME NEW w \in Workers, CommitLabel(w) PROVE NoDanglingLinks'
  <2>. DEFINE l == lastLabel + 1
  <2>1. /\ l \in LabelIds /\ UNCHANGED <<tenants, entry, links>>
        /\ label'[l].kind # None /\ label'[l].tenant \in tenants \cup {None}
        /\ \A j \in LabelIds \ {l} : label'[j] = label[j]
    BY <1>0, <1>4, LabelStep, KindOfRow DEF CommitLabel, TenantThere
  <2>. QED
    BY <1>0, <2>1 DEF NoDanglingLinks, Exists, LabelExists
<1>5. ASSUME NEW w \in Workers, CommitUnlabel(w) PROVE NoDanglingLinks'
  <2>. DEFINE l == sess[w].id
  <2>1. /\ l \in LabelIds /\ UNCHANGED <<tenants, entry>>
        /\ label'[l].kind = None
        /\ \A j \in LabelIds \ {l} : label'[j] = label[j]
        /\ \A k \in links' : k \in links /\ k[1] \in EntryIds /\ k[2] \in LabelIds \ {l}
    BY <1>0, <1>5, UnlabelStep DEF CommitUnlabel, NoRow
  <2>. QED
    BY <2>1 DEF NoDanglingLinks, Exists, LabelExists
<1>6. ASSUME NEW t \in Tenants, DeleteTenant(t) PROVE NoDanglingLinks'
  <2>. DEFINE E == {i \in EntryIds : Exists(i) /\ entry[i].tenant = t}
              L == {l \in LabelIds : LabelExists(l) /\ label[l].tenant = t}
  <2>1. /\ tenants' = tenants \ {t}
        /\ \A i \in EntryIds : entry'[i] = IF i \in E THEN NoRow ELSE entry[i]
        /\ \A l \in LabelIds : label'[l] = IF l \in L THEN NoRow ELSE label[l]
        /\ links' = {k \in links : k[1] \notin E /\ k[2] \notin L}
    BY <1>6 DEF DeleteTenant
  <2>2. NoRow.kind = None
    BY DEF NoRow
  <2>3. \A k \in links' : Exists(k[1])' /\ LabelExists(k[2])'
    BY <1>0, <2>1 DEF NoDanglingLinks, Exists, LabelExists
  <2>4. \A i \in EntryIds : Exists(i)' => entry'[i].tenant \in tenants' \cup {None}
    BY <2>1, <2>2 DEF NoDanglingLinks, Exists
  <2>5. \A l \in LabelIds : LabelExists(l)' => label'[l].tenant \in tenants' \cup {None}
    BY <2>1, <2>2 DEF NoDanglingLinks, LabelExists
  <2>. QED
    BY <2>3, <2>4, <2>5 DEF NoDanglingLinks
<1>. QED
  BY <1>1, <1>2, <1>3, <1>4, <1>5, <1>6, StepCases
     DEF Request, Begin, WarmDefaultTenant, Abort, vars

\* Referential integrity of the four association tables and of tenant_id:
\* however inserts, updates, deletions of labels and of tenants interleave, a
\* link joins rows that exist and the tenant of a row exists.
THEOREM LinksNeverDangle == Spec => []NoDanglingLinks
<1>1. Init => NoDanglingLinks
  BY DEF Init, NoDanglingLinks, Exists, LabelExists, NoRow
<1>. QED
  BY <1>1, CmsInvInit, CmsInvNext, NoDanglingNext, PTL DEF Spec

\* What is shown to a reader of t, spelled out.
LEMMA ShownIs ==
    \A t : Shown(t) = {i \in EntryIds : /\ entry[i].kind # None /\ entry[i].kind \in Entries
                                       /\ ~entry[i].deleted /\ InTenant(entry[i], t)}
BY DEF Shown, ListPages, ListPosts, PagesWithRelations, PostsWithRelations, Live, Exists, Entries

LEMMA ShownNext ==
    ASSUME CmsInv, [Next]_vars, NEW t \in Tenants \cup {None}
    PROVE  Shown(t)' \cap 1..lastEntry \subseteq Shown(None)
<1>0. entry \in [EntryIds -> EntryRow \cup {NoRow}]
  BY DEF CmsInv, TypeInv
<1>. SUFFICES ASSUME NEW i \in EntryIds, i \in 1..lastEntry,
                     entry'[i].kind # None, entry'[i].kind \in Entries, ~entry'[i].deleted
              PROVE  /\ entry[i].kind # None /\ entry[i].kind \in Entries
                     /\ ~entry[i].deleted
  BY ShownIs DEF Shown, ListPages, ListPosts, PagesWithRelations, PostsWithRelations,
                 Live, Exists, Entries, InTenant
<1>1. CASE entry'[i] = entry[i]
  BY <1>1
<1>2. ASSUME NEW w \in Workers, CommitInsert(w) PROVE entry'[i] = entry[i]
  BY <1>0, <1>2, InsertStep DEF CmsInv, TypeInv
<1>3. ASSUME NEW w \in Workers, CommitUpdate(w)
      PROVE  entry'[i] = entry[i]
             \/ (entry[i].kind \in Entries /\ entry[i].kind # None /\ ~entry[i].deleted)
  BY <1>0, <1>3, UpdateStep, KindOfRow
<1>4. ASSUME NEW u \in Tenants, DeleteTenant(u) PROVE entry'[i] = entry[i]
  BY <1>4 DEF DeleteTenant, NoRow
<1>. QED
  BY <1>1, <1>2, <1>3, <1>4, StepCases
     DEF Request, Begin, WarmDefaultTenant, CommitLabel, CommitUnlabel, Abort, vars

\* Soft deletion is final: no step lets a reader of any tenant find an entry
\* that nobody could find before it, unless the step inserted it.
THEOREM DeletionIsFinal == Spec => DeletedStaysDeleted
<1>1. CmsInv /\ [Next]_vars =>
        [\A t \in Tenants \cup {None} : Shown(t)' \cap 1..lastEntry \subseteq Shown(None)]_vars
  BY ShownNext
<1>. QED
  BY <1>1, CmsInvariant, PTL DEF Spec, DeletedStaysDeleted

=============================================================================
