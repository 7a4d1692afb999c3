-------------------------------- MODULE Files --------------------------------
(***************************************************************************)
(* Uploaded files: the files table and the objects of the storage backend, *)
(* which no transaction covers.  An upload stores the content, then the    *)
(* thumbnails, then the row; a deletion removes them in the same order.    *)
(* A stored object carries the name the client chose, so a second upload   *)
(* of a name overwrites the first.  The thumbnails of an image are one     *)
(* object here.  All files are of one user.                                *)
(***************************************************************************)
EXTENDS Integers, FiniteSetsExt, AdminRegistry

CONSTANTS
    Names,          \* file names, which are storage paths
    Thumb,          \* the thumbnail path of each name, None if it is no image
    Contents, None,
    Workers,        \* API processes, one request at a time each
    MaxFiles,       \* bound: rows ever inserted
    MaxRequests     \* bound: requests served

ASSUME FilesAssumption ==
    /\ DOMAIN Thumb = Names
    /\ \A n \in Names : Thumb[n] \notin Names   \* nobody uploads under a thumbnail's name
    /\ None \notin Contents \cup Names
    /\ {MaxFiles, MaxRequests} \subseteq Nat

FileIds == 1..MaxFiles
Paths == Names \cup ({Thumb[n] : n \in Names} \ {None})

VARIABLES
    objects,        \* what the storage backend holds, by path
    files,          \* the files table
    lastFile,       \* its id sequence
    sess,           \* each worker's request
    served,
    overlapped,     \* history: paths two requests worked on at once, or whose
                    \* deletion was cut off, or that a restore brought back
    clobbered       \* history: paths written while a row had them

fileVars == <<objects, files, lastFile, sess, served, overlapped, clobbered>>

NoFile == [path |-> None]
Exists(i) == files[i].path # None

\* get_multi_by_uploader
GetMulti == {files[i] : i \in {j \in FileIds : Exists(j)}}

WithRow == {f.path : f \in GetMulti}

Idle == [op |-> "idle", path |-> None]

FilesInit ==
    /\ objects = [p \in Paths |-> None]
    /\ files = [i \in FileIds |-> NoFile]
    /\ lastFile = 0
    /\ sess = [w \in Workers |-> Idle]
    /\ served = 0
    /\ overlapped = {} /\ clobbered = {}

Free(w) == sess[w] = Idle /\ served < MaxRequests

\* A request for path p starts; one for the same path may be under way.
Begin(w, s) ==
    /\ Free(w)
    /\ served' = served + 1
    /\ sess' = [sess EXCEPT ![w] = s]
    /\ overlapped' = IF \E v \in Workers : sess[v].path = s.path
                     THEN overlapped \cup {s.path} ELSE overlapped
    /\ UNCHANGED <<objects, files, lastFile, clobbered>>

\* The request goes on to its next step, or ends.
Then(w, op) == sess' = [sess EXCEPT ![w] = IF op = "idle" THEN Idle ELSE [@ EXCEPT !.op = op]]

-----------------------------------------------------------------------------
(***************************************************************************)
(* Uploads.                                                                *)
(***************************************************************************)
UploadFile(w, n, c) == Begin(w, [op |-> "put", path |-> n, content |-> c])

\* upload/stream: no row is written.
UploadFileStream(w, n, c) == Begin(w, [op |-> "stream", path |-> n, content |-> c])

\* The digest of a content: different contents, different digests.
Sha256(c) == [sha256 |-> c]

IsImage(n) == Thumb[n] # None

\* A scaled copy of the image.
GenerateThumbnail(c, size) == [of |-> c, size |-> size]

\* One for each of THUMBNAIL_SIZES, all or none.
Sizes == {"small", "medium", "large"}
GenerateAllThumbnails(c) == [size \in Sizes |-> GenerateThumbnail(c, size)]

\* StorageBackend.upload_bytes: whatever the path held is overwritten.
UploadBytes(p, c) == objects' = [objects EXCEPT ![p] = c]

PutContent(w) ==
    LET s == sess[w] IN
    /\ s.op \in {"put", "stream"}
    /\ UploadBytes(s.path, s.content)
    /\ clobbered' = IF s.path \in WithRow THEN clobbered \cup {s.path} ELSE clobbered
    /\ Then(w, IF s.op = "stream" THEN "idle"
               ELSE IF IsImage(s.path) THEN "thumbs" ELSE "row")
    /\ UNCHANGED <<files, lastFile, served, overlapped>>

\* _generate_thumbnails, named after the stem of the file's name.
PutThumbnails(w) ==
    /\ sess[w].op = "thumbs"
    /\ UploadBytes(Thumb[sess[w].path], GenerateAllThumbnails(sess[w].content))
    /\ Then(w, "row")
    /\ UNCHANGED <<files, lastFile, served, overlapped, clobbered>>

NewFile(s) == [path |-> s.path, checksum |-> Sha256(s.content), thumb |-> Thumb[s.path]]

\* create_from_upload; storage_path is unique.
InsertRow(w) ==
    /\ sess[w].op = "row"
    /\ sess[w].path \notin WithRow
    /\ lastFile < MaxFiles
    /\ files' = [files EXCEPT ![lastFile + 1] = NewFile(sess[w])]
    /\ lastFile' = lastFile + 1
    /\ Then(w, "idle")
    /\ UNCHANGED <<objects, served, overlapped, clobbered>>

\* Mutant: the handler cleans up after the error.
InsertConflictCleanup(w) ==
    /\ sess[w].op = "row"
    /\ sess[w].path \in WithRow
    /\ objects' = [objects EXCEPT ![sess[w].path] = None]
    /\ Then(w, "idle")
    /\ UNCHANGED <<files, lastFile, served, overlapped, clobbered>>

\* IntegrityError: the stored object stays.
InsertConflict(w) ==
    /\ sess[w].op = "row"
    /\ sess[w].path \in WithRow
    /\ Then(w, "idle")
    /\ UNCHANGED <<objects, files, lastFile, served, overlapped, clobbered>>

-----------------------------------------------------------------------------
(***************************************************************************)
(* Deletion.                                                               *)
(***************************************************************************)
DeleteFile(w, i) ==
    /\ Exists(i)
    /\ Begin(w, [op |-> "erase", id |-> i, path |-> files[i].path, thumb |-> files[i].thumb])

DeleteContent(w) ==
    LET s == sess[w] IN
    /\ s.op = "erase"
    /\ objects' = [objects EXCEPT ![s.path] = None]
    /\ Then(w, IF s.thumb # None THEN "erasethumbs" ELSE "unrow")
    /\ UNCHANGED <<files, lastFile, served, overlapped, clobbered>>

DeleteThumbnails(w) ==
    /\ sess[w].op = "erasethumbs"
    /\ objects' = [objects EXCEPT ![sess[w].thumb] = None]
    /\ Then(w, "unrow")
    /\ UNCHANGED <<files, lastFile, served, overlapped, clobbered>>

\* CRUDBase.delete of a model without SoftDeleteMixin; a row that is gone
\* already is no error.
DeleteRow(w) ==
    /\ sess[w].op = "unrow"
    /\ files' = [files EXCEPT ![sess[w].id] = NoFile]
    /\ Then(w, "idle")
    /\ UNCHANGED <<objects, lastFile, served, overlapped, clobbered>>

\* admin_delete removes the row and nothing else.
AdminDelete(i) ==
    /\ Deletable("files")
    /\ Exists(i)
    /\ served < MaxRequests
    /\ served' = served + 1
    /\ files' = [files EXCEPT ![i] = NoFile]
    /\ UNCHANGED <<objects, lastFile, sess, overlapped, clobbered>>

\* A storage error, a broken image, a timeout or a crash ends the request
\* where it is.
Abort(w) ==
    /\ sess[w] # Idle
    /\ Then(w, "idle")
    /\ overlapped' = IF sess[w].op \in {"erasethumbs", "unrow"}
                     THEN overlapped \cup {sess[w].path} ELSE overlapped
    /\ UNCHANGED <<objects, files, lastFile, served, clobbered>>

\* The steps that commit to the database, and the others.
FileCommits ==
    \/ \E w \in Workers : InsertRow(w) \/ DeleteRow(w)
    \/ \E i \in FileIds : AdminDelete(i)

FileRequests(w) ==
    \/ \E n \in Names, c \in Contents : UploadFile(w, n, c) \/ UploadFileStream(w, n, c)
    \/ \E i \in FileIds : DeleteFile(w, i)

FileSteps ==
    \E w \in Workers :
        \/ Free(w) /\ FileRequests(w)
        \/ PutContent(w) \/ PutThumbnails(w) \/ InsertConflict(w)
        \/ DeleteContent(w) \/ DeleteThumbnails(w) \/ Abort(w)

-----------------------------------------------------------------------------
(***************************************************************************)
(* Reads.                                                                  *)
(***************************************************************************)
\* What a client learns of a file.
ToResponse(f) == [storage_path |-> f.path, checksum_sha256 |-> f.checksum]

ListFiles == {ToResponse(f) : f \in GetMulti}

\* download_file; None is a 404.
Download(p) == objects[p]

\* Types of the files table and of the stored objects.
FilesTypeOK ==
    /\ \A n \in Names : objects[n] \in Contents \cup {None}
    /\ \A i \in FileIds : Exists(i) => files[i].path \in Names
    /\ lastFile \in 0..MaxFiles
    /\ overlapped \cup clobbered \subseteq Paths

\* A file that list_files shows can be downloaded, unless a request for its
\* path is under way, requests for it overlapped, a deletion was cut off or a
\* backup brought the row back; and unless its name was uploaded once more,
\* the content has the checksum the list shows.
RowHasContent ==
    \A r \in ListFiles :
        LET p == r.storage_path IN
        (p \notin overlapped /\ \A w \in Workers : sess[w].path # p) =>
            /\ Download(p) # None
            /\ p \notin clobbered => Sha256(Download(p)) = r.checksum_sha256

=============================================================================
