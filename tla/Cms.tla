--------------------------------- MODULE Cms ---------------------------------
(***************************************************************************)
(* Pages, posts, categories and tags.  Pages and posts are soft-deleted    *)
(* and found by their slug; categories and tags are deleted for good, and  *)
(* the association tables lose their rows by ON DELETE CASCADE.            *)
(*                                                                         *)
(* A handler looks up and computes in one step and commits in another; a   *)
(* commit writes the columns the handler changed and the association rows  *)
(* it added and removed, as far as unique index and foreign keys allow.    *)
(***************************************************************************)
EXTENDS Integers, FiniteSets, AdminRegistry

CONSTANTS
    Tenants, None, Slugs,
    Bodies,         \* markdown texts
    Html,           \* what render_markdown makes of each
    Workers,        \* API processes, one request at a time each
    MaxEntries,     \* bound: pages and posts ever inserted
    MaxLabels,      \* bound: categories and tags ever inserted
    MaxRequests     \* bound: requests served

ASSUME CmsAssumption ==
    /\ None \notin Tenants \cup Bodies \cup {"page", "post", "category", "tag"}
    /\ DOMAIN Html = Bodies
    /\ {MaxEntries, MaxLabels, MaxRequests} \subseteq Nat

EntryIds == 1..MaxEntries
LabelIds == 1..MaxLabels
Entries == {"page", "post"}
Labels == {"category", "tag"}
NoRow == [kind |-> None]

VARIABLES
    tenants,    \* rows of the tenants table
    entry,      \* pages and posts, by id
    label,      \* categories and tags, by id
    links,      \* the four association tables: <<entry, label>>
    lastEntry, lastLabel,   \* the id sequences
    sess,       \* each worker's request
    default,    \* TenantMiddleware._default_tenant_id of each process
    served,
    raced       \* history: entries on which a commit met a change since its read

vars == <<tenants, entry, label, links, lastEntry, lastLabel, sess, default, served, raced>>

\* render_markdown: nothing for an empty text.
Render(md) == IF md = None THEN None ELSE Html[md]

Exists(i) == entry[i].kind # None
LabelExists(l) == label[l].kind # None

Idle == [op |-> "idle"]

TypeOK ==
    /\ tenants \subseteq Tenants
    /\ \A i \in EntryIds : Exists(i) =>
          /\ entry[i].kind \in Entries /\ entry[i].slug \in Slugs
          /\ entry[i].tenant \in Tenants \cup {None}
          /\ entry[i].md \in Bodies \cup {None} /\ entry[i].deleted \in BOOLEAN
    /\ links \subseteq EntryIds \X LabelIds
    /\ default \in [Workers -> Tenants \cup {None}]
    /\ raced \subseteq EntryIds

Init ==
    /\ tenants = Tenants
    /\ entry = [i \in EntryIds |-> NoRow]
    /\ label = [l \in LabelIds |-> NoRow]
    /\ links = {}
    /\ lastEntry = 0 /\ lastLabel = 0
    /\ sess = [w \in Workers |-> Idle]
    /\ default \in [Workers -> Tenants \cup {None}]
    /\ served = 0
    /\ raced = {}

\* Worker w may take a request.
Free(w) == sess[w] = Idle /\ served < MaxRequests

Begin(w, s) ==
    /\ Free(w)
    /\ served' = served + 1
    /\ sess' = [sess EXCEPT ![w] = s]
    /\ UNCHANGED <<tenants, default, entry, label, links, lastEntry, lastLabel, raced>>

-----------------------------------------------------------------------------
(***************************************************************************)
(* The tenant of a request: the one its header names, of which nobody      *)
(* asks whether it exists, or else the process's default, which is         *)
(* looked up when the process starts and never again.                      *)
(***************************************************************************)
ResolveTenant(w, header) == IF header # None THEN header ELSE default[w]

\* A process starts; without an active tenant, or after an error, it has no
\* default.
WarmDefaultTenant(w) ==
    /\ \E t \in tenants \cup {None} : default' = [default EXCEPT ![w] = t]
    /\ sess' = [sess EXCEPT ![w] = Idle]
    /\ UNCHANGED <<tenants, entry, label, links, lastEntry, lastLabel, served, raced>>

(***************************************************************************)
(* Queries.  ctx is the tenant of the request, which the engine listener   *)
(* adds to every SELECT, or None.  (It adds it to UPDATE and DELETE too,   *)
(* which are for rows the request has selected.)                           *)
(***************************************************************************)
InTenant(row, ctx) == ctx = None \/ row.tenant = ctx

\* What the queries of a kind select from.
Live(kind, ctx) ==
    {i \in EntryIds : /\ Exists(i) /\ entry[i].kind = kind
                      /\ ~entry[i].deleted
                      /\ InTenant(entry[i], ctx)}

\* get_multi_with_relations, all pages of the list together.
PagesWithRelations(ctx) == Live("page", ctx)
PostsWithRelations(ctx) == Live("post", ctx)

ListPages(ctx) == PagesWithRelations(ctx)
ListPosts(ctx) == PostsWithRelations(ctx)

BySlug(kind, slug, ctx) == {i \in Live(kind, ctx) : entry[i].slug = slug}

PageBySlug(slug, ctx) == BySlug("page", slug, ctx)
PostBySlug(slug, ctx) == BySlug("post", slug, ctx)

\* get_page and get_post, and what the other handlers find under a slug:
\* nothing is a 404, several are an error.
GetPage(slug, ctx) == {i \in EntryIds : PageBySlug(slug, ctx) = {i}}
GetPost(slug, ctx) == {i \in EntryIds : PostBySlug(slug, ctx) = {i}}

\* The categories and tags among the requested ids.
FoundLabels(L, ctx) == {l \in L : LabelExists(l) /\ InTenant(label[l], ctx)}

\* tenant_id of an INSERT: the handler's value, or else the listener's.
TenantOf(own, ctx) == IF own # None THEN {own} ELSE {None, ctx}

-----------------------------------------------------------------------------
(***************************************************************************)
(* Pages and posts.                                                        *)
(***************************************************************************)
\* create_with_relations, up to its commit.
Create(w, kind, ctx, own, slug, md, L) ==
    \E t \in TenantOf(own, ctx) :
        Begin(w, [op |-> "insert", add |-> FoundLabels(L, ctx),
                  new |-> [kind |-> kind, tenant |-> t, slug |-> slug, md |-> md,
                           html |-> Render(md), deleted |-> FALSE]])

PageWithRelations(w, ctx, own, slug, md, L) == Create(w, "page", ctx, own, slug, md, L)
PostWithRelations(w, ctx, own, slug, md, L) == Create(w, "post", ctx, own, slug, md, L)

\* The endpoints look the slug up first.
CreatePage(w, ctx, own, slug, md, L) ==
    PageBySlug(slug, ctx) = {} /\ PageWithRelations(w, ctx, own, slug, md, L)

CreatePost(w, ctx, own, slug, md, L) ==
    PostBySlug(slug, ctx) = {} /\ PostWithRelations(w, ctx, own, slug, md, L)

\* Mutant: the HTML is not rendered anew.
EditedOldHtml(row, c) == [row EXCEPT !.slug = c.slug, !.md = c.md]

\* The fields of the request; an absent body leaves both columns alone.
Edited(row, c) == [row EXCEPT !.slug = c.slug, !.md = c.md, !.html = Render(c.md)]

\* update_with_relations, up to its commit.  A collection that is not
\* replaced adds and removes nothing.
Update(w, i, c, ctx) ==
    LET have == {l \in LabelIds : <<i, l>> \in links}
        want == IF c.labels = None THEN have ELSE FoundLabels(c.labels, ctx)
    IN Begin(w, [op |-> "update", id |-> i, snap |-> entry[i], new |-> Edited(entry[i], c),
                 add |-> want \ have, drop |-> have \ want])

UpdatePageWithRelations(w, i, c, ctx) == Update(w, i, c, ctx)
UpdatePostWithRelations(w, i, c, ctx) == Update(w, i, c, ctx)

\* The endpoints: one entry under the old slug, none under a new one.
UpdatePage(w, ctx, slug, c) ==
    \E i \in GetPage(slug, ctx) :
        /\ c.slug = slug \/ PageBySlug(c.slug, ctx) = {}
        /\ UpdatePageWithRelations(w, i, c, ctx)

UpdatePost(w, ctx, slug, c) ==
    \E i \in GetPost(slug, ctx) :
        /\ c.slug = slug \/ PostBySlug(c.slug, ctx) = {}
        /\ UpdatePostWithRelations(w, i, c, ctx)

\* CRUDBase.delete of a model with SoftDeleteMixin.
SoftDelete(w, i) ==
    Begin(w, [op |-> "update", id |-> i, snap |-> entry[i],
              new |-> [entry[i] EXCEPT !.deleted = TRUE], add |-> {}, drop |-> {}])

DeletePage(w, ctx, slug) == \E i \in GetPage(slug, ctx) : SoftDelete(w, i)
DeletePost(w, ctx, slug) == \E i \in GetPost(slug, ctx) : SoftDelete(w, i)

-----------------------------------------------------------------------------
(***************************************************************************)
(* Categories and tags.  Their names and slugs, and the lookup that may    *)
(* refuse a request because of them, are left out.                         *)
(***************************************************************************)
CreateLabel(w, kind, ctx) ==
    \E t \in TenantOf(None, ctx) :
        Begin(w, [op |-> "label", new |-> [kind |-> kind, tenant |-> t]])

CreateCategory(w, ctx) == CreateLabel(w, "category", ctx)
CreateTag(w, ctx) == CreateLabel(w, "tag", ctx)

\* CRUDBase.delete of a model without SoftDeleteMixin.
DeleteLabel(w, kind, ctx, l) ==
    /\ LabelExists(l) /\ label[l].kind = kind /\ InTenant(label[l], ctx)
    /\ Begin(w, [op |-> "unlabel", id |-> l])

DeleteCategory(w, ctx, l) == DeleteLabel(w, "category", ctx, l)
DeleteTag(w, ctx, l) == DeleteLabel(w, "tag", ctx, l)

-----------------------------------------------------------------------------
(***************************************************************************)
(* Commits.                                                                *)
(***************************************************************************)
\* ix_cms_pages_tenant_slug and its siblings: rows without a tenant differ
\* from each other, deleted rows count.
SlugFree(row, i) ==
    row.tenant = None \/
    \A j \in EntryIds \ {i} :
        Exists(j) => <<entry[j].kind, entry[j].tenant, entry[j].slug>>
                        # <<row.kind, row.tenant, row.slug>>

\* Mutant: no foreign key from the association tables to the labels.
LabelsThereUnchecked(L) == TRUE

LabelsThere(L) == \A l \in L : LabelExists(l)

TenantThere(row) == row.tenant \in tenants \cup {None}

\* Mutant: all columns are written back.
FlushAll(cur, s) == s.new

Flush(cur, s) == [c \in DOMAIN cur |-> IF s.new[c] # s.snap[c] THEN s.new[c] ELSE cur[c]]

End(w) == sess' = [sess EXCEPT ![w] = Idle]

CommitInsert(w) ==
    LET s == sess[w]
        i == lastEntry + 1
    IN
    /\ s.op = "insert"
    /\ i <= MaxEntries
    /\ SlugFree(s.new, i) /\ TenantThere(s.new) /\ LabelsThere(s.add)
    /\ entry' = [entry EXCEPT ![i] = s.new]
    /\ links' = links \cup ({i} \X s.add)
    /\ lastEntry' = i
    /\ End(w)
    /\ UNCHANGED <<tenants, default, label, lastLabel, served, raced>>

\* A row or an association row that is gone is a StaleDataError.
CommitUpdate(w) ==
    LET s == sess[w]
        row == Flush(entry[s.id], s)
    IN
    /\ s.op = "update"
    /\ Exists(s.id)
    /\ SlugFree(row, s.id) /\ LabelsThere(s.add)
    /\ ({s.id} \X s.add) \cap links = {} /\ ({s.id} \X s.drop) \subseteq links
    /\ entry' = [entry EXCEPT ![s.id] = row]
    /\ links' = (links \cup ({s.id} \X s.add)) \ ({s.id} \X s.drop)
    /\ raced' = IF entry[s.id] = s.snap THEN raced ELSE raced \cup {s.id}
    /\ End(w)
    /\ UNCHANGED <<tenants, default, label, lastEntry, lastLabel, served>>

CommitLabel(w) ==
    /\ sess[w].op = "label"
    /\ lastLabel < MaxLabels
    /\ TenantThere(sess[w].new)
    /\ label' = [label EXCEPT ![lastLabel + 1] = sess[w].new]
    /\ lastLabel' = lastLabel + 1
    /\ End(w)
    /\ UNCHANGED <<tenants, default, entry, links, lastEntry, served, raced>>

CommitUnlabel(w) ==
    LET l == sess[w].id IN
    /\ sess[w].op = "unlabel"
    /\ label' = [label EXCEPT ![l] = NoRow]
    /\ links' = links \ (EntryIds \X {l})
    /\ End(w)
    /\ UNCHANGED <<tenants, default, entry, lastEntry, lastLabel, served, raced>>

\* IntegrityError, StaleDataError, timeout or lost connection: rolled back.
Abort(w) ==
    /\ sess[w] # Idle
    /\ End(w)
    /\ UNCHANGED <<tenants, default, entry, label, links, lastEntry, lastLabel, served, raced>>

\* admin_delete of a tenant, a model without SoftDeleteMixin: everything of it
\* goes by ON DELETE CASCADE.
DeleteTenant(t) ==
    LET E == {i \in EntryIds : Exists(i) /\ entry[i].tenant = t}
        L == {l \in LabelIds : LabelExists(l) /\ label[l].tenant = t}
    IN
    /\ Deletable("tenants")
    /\ t \in tenants
    /\ served < MaxRequests
    /\ served' = served + 1
    /\ tenants' = tenants \ {t}
    /\ entry' = [i \in EntryIds |-> IF i \in E THEN NoRow ELSE entry[i]]
    /\ label' = [l \in LabelIds |-> IF l \in L THEN NoRow ELSE label[l]]
    /\ links' = {k \in links : k[1] \notin E /\ k[2] \notin L}
    /\ UNCHANGED <<default, lastEntry, lastLabel, sess, raced>>

-----------------------------------------------------------------------------
Changes == [slug : Slugs, md : Bodies \cup {None}, labels : (SUBSET LabelIds) \cup {None}]

Requests(w, ctx) ==
    \/ \E own \in Tenants \cup {None}, slug \in Slugs, md \in Bodies, L \in SUBSET LabelIds :
          CreatePage(w, ctx, own, slug, md, L) \/ CreatePost(w, ctx, own, slug, md, L)
    \/ \E slug \in Slugs, c \in Changes : UpdatePage(w, ctx, slug, c) \/ UpdatePost(w, ctx, slug, c)
    \/ \E slug \in Slugs : DeletePage(w, ctx, slug) \/ DeletePost(w, ctx, slug)
    \/ CreateCategory(w, ctx) \/ CreateTag(w, ctx)
    \/ \E l \in LabelIds : DeleteCategory(w, ctx, l) \/ DeleteTag(w, ctx, l)

Next ==
    \/ \E w \in Workers :
          \/ /\ Free(w)
             /\ \E header \in Tenants \cup {None} : Requests(w, ResolveTenant(w, header))
          \/ WarmDefaultTenant(w)
          \/ CommitInsert(w) \/ CommitUpdate(w) \/ CommitLabel(w) \/ CommitUnlabel(w)
          \/ Abort(w)
    \/ \E t \in Tenants : DeleteTenant(t)

Spec == Init /\ [][Next]_vars

-----------------------------------------------------------------------------
(***************************************************************************)
(* Properties.                                                             *)
(***************************************************************************)
\* Dual storage of a page or post: unless one of its commits overlapped
\* another, the stored HTML is what the stored markdown renders to.
HtmlFollowsMarkdown ==
    \A i \in EntryIds \ raced : Exists(i) => entry[i].html = Render(entry[i].md)

\* However linking, deleting a category or tag, deleting a tenant and
\* inserting under a default tenant that is gone interleave, an association
\* row joins an entry and a label that exist, and so does every row's tenant.
NoDanglingLinks ==
    /\ \A k \in links : Exists(k[1]) /\ LabelExists(k[2])
    /\ \A i \in EntryIds : Exists(i) => entry[i].tenant \in tenants \cup {None}
    /\ \A l \in LabelIds : LabelExists(l) => label[l].tenant \in tenants \cup {None}

\* What a reader of tenant t, or of none, can find.
Shown(t) == ListPages(t) \cup ListPosts(t)

\* Nothing restores a page or post: once it was deleted, by its slug or with
\* its tenant, no reader of any tenant finds it again, also when an update that loaded it
\* before the deletion commits after it.
DeletedStaysDeleted ==
    [][\A t \in Tenants \cup {None} :
            Shown(t)' \cap 1..lastEntry \subseteq Shown(None)]_vars

=============================================================================
