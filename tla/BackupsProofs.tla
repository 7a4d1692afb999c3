--------------------------- MODULE BackupsProofs ---------------------------
(***************************************************************************)
(* Theorems about Files and Backups, for any number of names, contents,    *)
(* processes, files, requests, tasks, faults and ticks.                    *)
(***************************************************************************)
EXTENDS Backups, WellFoundedInduction, TLAPS

-----------------------------------------------------------------------------
(***************************************************************************)
(* Types of the files table and of the requests in flight.                 *)
(***************************************************************************)
Thumbs == {Thumb[n] : n \in Names}
FileRow == [path : Names, checksum : {Sha256(c) : c \in Contents}, thumb : Thumbs]
FileTable == [FileIds -> FileRow \cup {NoFile}]

Uploads == [op : {"put", "stream", "thumbs", "row"}, path : Names, content : Contents]
Erasures == [op : {"erase", "erasethumbs", "unrow"}, id : FileIds, path : Names, thumb : Thumbs]
FileSession == {Idle} \cup Uploads \cup Erasures

FileTypes ==
    /\ DOMAIN objects = Paths
    /\ objects = [p \in Paths |-> objects[p]]
    /\ \A n \in Names : objects[n] \in Contents \cup {None}
    /\ files \in FileTable
    /\ lastFile \in 0..MaxFiles
    /\ sess \in [Workers -> FileSession]

-----------------------------------------------------------------------------
(***************************************************************************)
(* What a path's requests, row and object have to do with each other, as   *)
(* long as the path is not one of the overlapped ones.                     *)
(***************************************************************************)
Kept(p, i) ==
    /\ objects[p] # None
    /\ p \notin clobbered => Sha256(objects[p]) = files[i].checksum

\* One request and one row at most; an upload past its first step has stored
\* its content, over a row's object if there is a row; a deletion is of that
\* row; and until a deletion has removed it, the row's object is there.
Orderly(p) ==
    /\ \A v, w \in Workers : sess[v].path = p /\ sess[w].path = p => v = w
    /\ \A i, j \in FileIds : files[i].path = p /\ files[j].path = p => i = j
    /\ \A w \in Workers :
          sess[w].path = p /\ sess[w].op \in {"thumbs", "row"} =>
              /\ objects[p] = sess[w].content
              /\ \A i \in FileIds : files[i].path = p => p \in clobbered
    /\ \A w \in Workers, i \in FileIds :
          sess[w].path = p /\ files[i].path = p
              /\ sess[w].op \in {"erase", "erasethumbs", "unrow"} => sess[w].id = i
    /\ \A i \in FileIds :
          files[i].path = p
              /\ (\A w \in Workers : sess[w].path = p => sess[w].op \notin {"erasethumbs", "unrow"})
              => Kept(p, i)

PathInv == \A p \in Names : p \notin overlapped => Orderly(p)

-----------------------------------------------------------------------------
(***************************************************************************)
(* Types are kept.                                                         *)
(***************************************************************************)
LEMMA SessionOf ==
    \A s \in FileSession :
        /\ s.op \in {"put", "stream", "thumbs", "row"} => s \in Uploads
        /\ s.op \in {"erase", "erasethumbs", "unrow"} => s \in Erasures
        /\ s # Idle => s.path \in Names /\ s.op # "idle"
        /\ s.path = None <=> s = Idle
BY FilesAssumption DEF FileSession, Uploads, Erasures, Idle

\* The request of worker w takes another step, or is over.
LEMMA ThenTyped ==
    ASSUME FileTypes, NEW w \in Workers, NEW op, Then(w, op),
           \/ op = "idle"
           \/ sess[w] \in Uploads /\ op \in {"thumbs", "row"}
           \/ sess[w] \in Erasures /\ op \in {"erasethumbs", "unrow"}
    PROVE  sess' \in [Workers -> FileSession]
<1>1. sess[w] \in Uploads /\ op \in {"thumbs", "row"} => [sess[w] EXCEPT !.op = op] \in Uploads
  BY DEF Uploads
<1>2. sess[w] \in Erasures /\ op \in {"erasethumbs", "unrow"} => [sess[w] EXCEPT !.op = op] \in Erasures
  BY DEF Erasures
<1>. DEFINE t == IF op = "idle" THEN Idle ELSE [sess[w] EXCEPT !.op = op]
<1>3. t \in FileSession
  BY <1>1, <1>2 DEF FileSession
<1>4. sess' = [sess EXCEPT ![w] = t]
  BY DEF Then, FileTypes
<1>. HIDE DEF t
<1>. QED
  BY <1>3, <1>4 DEF FileTypes

LEMMA ThumbIsNoName == \A n \in Names : Thumb[n] \notin Names /\ n \in Paths /\ n # None
BY FilesAssumption DEF Paths

\* An object is stored, or removed.
LEMMA ObjectTyped ==
    ASSUME FileTypes, NEW p, NEW c, objects' = [objects EXCEPT ![p] = c],
           p \in Names => c \in Contents \cup {None}
    PROVE  /\ DOMAIN objects' = Paths
           /\ objects' = [q \in Paths |-> objects'[q]]
           /\ \A n \in Names : objects'[n] \in Contents \cup {None}
           /\ \A n \in Names : objects'[n] = IF n = p THEN c ELSE objects[n]
BY ThumbIsNoName DEF FileTypes

LEMMA FileTypesInit == FilesInit => FileTypes
BY ThumbIsNoName, FilesAssumption
DEF FilesInit, FileTypes, FileTable, FileSession

LEMMA FileStepTypes ==
    ASSUME FileTypes, FileSteps
    PROVE  FileTypes'
<1>1. PICK w \in Workers :
          \/ FileRequests(w) \/ PutContent(w) \/ PutThumbnails(w) \/ InsertConflict(w)
          \/ DeleteContent(w) \/ DeleteThumbnails(w) \/ Abort(w)
  BY DEF FileSteps
<1>2. sess[w] \in FileSession
  BY DEF FileTypes
<1>3. CASE FileRequests(w)
  <2>1. PICK s \in FileSession : Begin(w, s)
    <3>1. CASE \E n \in Names, c \in Contents : UploadFile(w, n, c) \/ UploadFileStream(w, n, c)
      BY <3>1 DEF UploadFile, UploadFileStream, FileSession, Uploads
    <3>2. CASE \E i \in FileIds : DeleteFile(w, i)
      <4>1. PICK i \in FileIds : DeleteFile(w, i)
        BY <3>2
      <4>2. files[i] \in FileRow
        BY <4>1 DEF DeleteFile, Exists, FileTypes, FileTable, NoFile
      <4>3. [op |-> "erase", id |-> i, path |-> files[i].path, thumb |-> files[i].thumb] \in FileSession
        BY <4>2 DEF FileRow, FileSession, Erasures
      <4>. QED
        BY <4>1, <4>3 DEF DeleteFile
    <3>. QED
      BY <1>3, <3>1, <3>2 DEF FileRequests
  <2>2. sess' = [sess EXCEPT ![w] = s] /\ UNCHANGED <<objects, files, lastFile>>
    BY <2>1 DEF Begin
  <2>. QED
    BY <2>1, <2>2 DEF FileTypes
<1>4. CASE PutContent(w)
  <2>1. sess[w] \in Uploads
    BY <1>2, <1>4, SessionOf DEF PutContent
  <2>2. sess[w].path \in Names /\ sess[w].content \in Contents
    BY <2>1 DEF Uploads
  <2>3. sess' \in [Workers -> FileSession]
    <3>1. \E op \in {"idle", "thumbs", "row"} : Then(w, op)
      BY <1>4 DEF PutContent
    <3>. QED
      BY <2>1, <3>1, ThenTyped
  <2>4. objects' = [objects EXCEPT ![sess[w].path] = sess[w].content] /\ UNCHANGED <<files, lastFile>>
    BY <1>4 DEF PutContent, UploadBytes
  <2>. QED
    BY <2>2, <2>3, <2>4, ObjectTyped DEF FileTypes
<1>5. CASE PutThumbnails(w)
  <2>1. sess[w] \in Uploads
    BY <1>2, <1>5, SessionOf DEF PutThumbnails
  <2>2. Thumb[sess[w].path] \notin Names
    BY <2>1, ThumbIsNoName DEF Uploads
  <2>3. sess' \in [Workers -> FileSession]
    BY <1>5, <2>1, ThenTyped DEF PutThumbnails
  <2>4. /\ objects' = [objects EXCEPT ![Thumb[sess[w].path]] = GenerateAllThumbnails(sess[w].content)]
        /\ UNCHANGED <<files, lastFile>>
    BY <1>5 DEF PutThumbnails, UploadBytes
  <2>. QED
    BY <2>2, <2>3, <2>4, ObjectTyped DEF FileTypes
<1>6. CASE InsertConflict(w) \/ Abort(w)
  <2>1. sess' \in [Workers -> FileSession] /\ UNCHANGED <<objects, files, lastFile>>
    BY <1>6, ThenTyped DEF InsertConflict, Abort
  <2>. QED
    BY <2>1 DEF FileTypes
<1>7. CASE DeleteContent(w) \/ DeleteThumbnails(w)
  <2>1. sess[w] \in Erasures
    BY <1>2, <1>7, SessionOf DEF DeleteContent, DeleteThumbnails
  <2>2. sess' \in [Workers -> FileSession]
    <3>1. \E op \in {"erasethumbs", "unrow"} : Then(w, op)
      BY <1>7 DEF DeleteContent, DeleteThumbnails
    <3>. QED
      BY <2>1, <3>1, ThenTyped
  <2>3. /\ \E p : objects' = [objects EXCEPT ![p] = None]
        /\ UNCHANGED <<files, lastFile>>
    BY <1>7 DEF DeleteContent, DeleteThumbnails
  <2>. QED
    BY <2>2, <2>3, ObjectTyped DEF FileTypes
<1>. QED
  BY <1>1, <1>3, <1>4, <1>5, <1>6, <1>7

LEMMA FileCommitTypes ==
    ASSUME FileTypes, FileCommits
    PROVE  FileTypes'
<1>1. ASSUME NEW w \in Workers, InsertRow(w) PROVE FileTypes'
  <2>1. sess[w] \in Uploads
    BY <1>1, SessionOf DEF InsertRow, FileTypes
  <2>2. NewFile(sess[w]) \in FileRow
    BY <2>1 DEF NewFile, FileRow, Uploads, Thumbs
  <2>3. lastFile' \in 0..MaxFiles
    BY <1>1, FilesAssumption DEF InsertRow, FileTypes
  <2>4. files' \in FileTable
    BY <1>1, <2>2 DEF InsertRow, FileTypes, FileTable
  <2>5. sess' \in [Workers -> FileSession] /\ objects' = objects
    BY <1>1, ThenTyped DEF InsertRow
  <2>. QED
    BY <2>3, <2>4, <2>5 DEF FileTypes
<1>2. ASSUME NEW w \in Workers, DeleteRow(w) PROVE FileTypes'
  <2>1. files' \in FileTable
    BY <1>2 DEF DeleteRow, FileTypes, FileTable
  <2>2. sess' \in [Workers -> FileSession] /\ UNCHANGED <<objects, lastFile>>
    BY <1>2, ThenTyped DEF DeleteRow
  <2>. QED
    BY <2>1, <2>2 DEF FileTypes
<1>3. ASSUME NEW i \in FileIds, AdminDelete(i) PROVE FileTypes'
  BY <1>3 DEF AdminDelete, FileTypes, FileTable
<1>. QED
  BY <1>1, <1>2, <1>3 DEF FileCommits

-----------------------------------------------------------------------------
(***************************************************************************)
(* Paths stay orderly.                                                     *)
(***************************************************************************)

\* A request of worker w that goes on is for the same path, row and content.
LEMMA ThenSame ==
    ASSUME FileTypes, NEW w \in Workers, NEW op, Then(w, op),
           sess[w] \in Uploads \/ sess[w] \in Erasures
    PROVE  /\ \A v \in Workers : v # w => sess'[v] = sess[v]
           /\ op = "idle" => sess'[w] = Idle
           /\ op # "idle" => /\ sess'[w].op = op
                             /\ sess'[w].path = sess[w].path
                             /\ sess[w] \in Uploads => sess'[w].content = sess[w].content
                             /\ sess[w] \in Erasures => sess'[w].id = sess[w].id
BY DEF Then, FileTypes, Uploads, Erasures

\* The paths other than that of the request are not touched by it.
LEMMA OtherPath ==
    ASSUME FileTypes, NEW p \in Names, Orderly(p), NEW w \in Workers, sess[w].path # p,
           \A v \in Workers : v # w => sess'[v] = sess[v],
           sess'[w].path # p,
           objects'[p] = objects[p], p \in clobbered' <=> p \in clobbered,
           \A i \in FileIds : files'[i] = files[i] \/ (files[i].path # p /\ files'[i].path # p)
    PROVE  Orderly(p)'
<1>1. \A i \in FileIds : files'[i].path = p <=> files[i].path = p
  OBVIOUS
<1>2. \A i \in FileIds : files[i].path = p => files'[i] = files[i]
  OBVIOUS
<1>3. \A v \in Workers : sess'[v].path = p <=> sess[v].path = p
  OBVIOUS
<1>4. \A v \in Workers : sess[v].path = p => sess'[v] = sess[v]
  OBVIOUS
<1>. QED
  BY <1>1, <1>2, <1>3, <1>4 DEF Orderly, Kept

\* A request starts.
LEMMA BeginOrderly ==
    ASSUME FileTypes, NEW p \in Names, p \notin overlapped', Orderly(p),
           NEW w \in Workers, NEW s, Begin(w, s),
           s.op \in {"put", "stream", "erase"},
           s.op = "erase" => s.id \in FileIds /\ files[s.id].path = s.path
    PROVE  Orderly(p)'
<1>1. /\ sess[w] = Idle /\ UNCHANGED <<objects, files, clobbered>>
      /\ \A v \in Workers : v # w => sess'[v] = sess[v]
      /\ sess'[w] = s
      /\ s.path = p => \A v \in Workers : sess[v].path # p
  BY DEF Begin, Free, FileTypes
<1>2. sess[w].path # p
  BY <1>1, ThumbIsNoName DEF Idle
<1>3. CASE s.path # p
  BY <1>1, <1>2, <1>3, OtherPath
<1>4. CASE s.path = p
  BY <1>1, <1>2, <1>4 DEF Orderly, Kept
<1>. QED
  BY <1>3, <1>4

\* An upload stores its content.
LEMMA PutContentOrderly ==
    ASSUME FileTypes, NEW p \in Names, Orderly(p), NEW w \in Workers, PutContent(w)
    PROVE  Orderly(p)'
<1>. DEFINE s == sess[w]
<1>1. s \in Uploads /\ s.path \in Names /\ s.content \in Contents /\ s.op \in {"put", "stream"}
  BY SessionOf DEF PutContent, FileTypes, Uploads
<1>2. PICK op \in {"idle", "thumbs", "row"} : Then(w, op)
  BY DEF PutContent
<1>3. /\ \A v \in Workers : v # w => sess'[v] = sess[v]
      /\ op = "idle" => sess'[w] = Idle
      /\ op # "idle" => /\ sess'[w].op = op /\ sess'[w].path = s.path
                        /\ sess'[w].content = s.content
  BY <1>1, <1>2, ThenSame
<1>4. /\ \A n \in Names : objects'[n] = IF n = s.path THEN s.content ELSE objects[n]
      /\ UNCHANGED files
  <2>1. objects' = [objects EXCEPT ![s.path] = s.content] /\ UNCHANGED files
    BY DEF PutContent, UploadBytes
  <2>. QED
    BY <2>1, ThumbIsNoName DEF FileTypes
<1>5. /\ clobbered' = IF s.path \in WithRow THEN clobbered \cup {s.path} ELSE clobbered
      /\ \A i \in FileIds : files[i].path = s.path => s.path \in WithRow
  BY <1>1, ThumbIsNoName DEF PutContent, WithRow, GetMulti, Exists
<1>6. Idle.path \notin Names /\ None \notin Contents
  BY FilesAssumption DEF Idle
<1>7. CASE s.path # p
  BY <1>3, <1>4, <1>5, <1>6, <1>7, OtherPath
<1>8. CASE s.path = p
  <2>1. \A i \in FileIds : files'[i].path = p => p \in clobbered'
    BY <1>4, <1>5, <1>8
  <2>2. objects'[p] = s.content /\ objects'[p] # None
    BY <1>1, <1>4, <1>6, <1>8
  <2>3. \A v \in Workers : sess'[v].path = p => v = w /\ sess'[v].op = op
    BY <1>3, <1>6, <1>8 DEF Orderly
  <2>4. op = "idle" => \A v \in Workers : sess'[v].path # p
    BY <1>3, <1>6, <2>3
  <2>. QED
    BY <1>2, <1>3, <1>4, <2>1, <2>2, <2>3, <2>4 DEF Orderly, Kept
<1>. QED
  BY <1>7, <1>8

\* An upload stores its thumbnails.
LEMMA PutThumbnailsOrderly ==
    ASSUME FileTypes, NEW p \in Names, Orderly(p), NEW w \in Workers, PutThumbnails(w)
    PROVE  Orderly(p)'
<1>. DEFINE s == sess[w]
<1>1. s \in Uploads /\ s.path \in Names /\ s.op = "thumbs"
  BY SessionOf DEF PutThumbnails, FileTypes, Uploads
<1>2. /\ \A v \in Workers : v # w => sess'[v] = sess[v]
      /\ sess'[w].op = "row" /\ sess'[w].path = s.path /\ sess'[w].content = s.content
  BY <1>1, ThenSame DEF PutThumbnails
<1>3. (\A n \in Names : objects'[n] = objects[n]) /\ UNCHANGED <<files, clobbered>>
  <2>1. Thumb[s.path] \notin Names
    BY <1>1, ThumbIsNoName
  <2>. QED
    BY <2>1, ObjectTyped DEF PutThumbnails, UploadBytes
<1>4. CASE s.path # p
  BY <1>2, <1>3, <1>4, OtherPath
<1>5. CASE s.path = p
  <2>1. \A v \in Workers : sess'[v].path = p => v = w
    BY <1>2, <1>5 DEF Orderly
  <2>. QED
    BY <1>1, <1>2, <1>3, <1>5, <2>1 DEF Orderly, Kept
<1>. QED
  BY <1>4, <1>5

\* An upload inserts its row, ...
LEMMA InsertRowOrderly ==
    ASSUME FileTypes, NEW p \in Names, Orderly(p), NEW w \in Workers, InsertRow(w)
    PROVE  Orderly(p)'
<1>. DEFINE s == sess[w]
            new == lastFile + 1
<1>1. s \in Uploads /\ s.path \in Names /\ s.content \in Contents /\ s.op = "row"
  BY SessionOf DEF InsertRow, FileTypes, Uploads
<1>2. (\A v \in Workers : v # w => sess'[v] = sess[v]) /\ sess'[w] = Idle
  BY <1>1, ThenSame DEF InsertRow
<1>3. new \in FileIds
  BY FilesAssumption DEF InsertRow, FileTypes, FileIds
<1>4. UNCHANGED <<objects, clobbered>>
  BY DEF InsertRow
<1>. HIDE DEF new
<1>5. /\ \A i \in FileIds : i # new => files'[i] = files[i]
      /\ files'[new].path = s.path /\ files'[new].checksum = Sha256(s.content)
  BY <1>3 DEF InsertRow, FileTypes, FileTable, NewFile, new
<1>6. Idle.path \notin Names /\ None \notin Contents
  BY FilesAssumption DEF Idle
<1>7. \A i \in FileIds : files[i].path # s.path
  BY <1>1, ThumbIsNoName DEF InsertRow, WithRow, GetMulti, Exists
<1>8. CASE s.path # p
  <2>1. CASE files[new].path # p
    BY <1>2, <1>4, <1>5, <1>6, <1>8, <2>1, OtherPath
  <2>2. CASE files[new].path = p
    <3>1. \A i \in FileIds : files'[i].path # p
      BY <1>3, <1>5, <1>8, <2>2 DEF Orderly
    <3>2. \A v \in Workers : sess'[v].path = p => v # w /\ sess'[v] = sess[v]
      BY <1>2, <1>6
    <3>. QED
      BY <1>4, <3>1, <3>2 DEF Orderly
  <2>. QED
    BY <2>1, <2>2
<1>9. CASE s.path = p
  <2>1. \A v \in Workers : sess'[v].path # p
    BY <1>2, <1>6, <1>9 DEF Orderly
  <2>2. \A i \in FileIds : files'[i].path = p => i = new
    BY <1>5, <1>7, <1>9
  <2>3. objects'[p] = s.content
    BY <1>1, <1>4, <1>9 DEF Orderly
  <2>. QED
    BY <1>1, <1>5, <1>6, <2>1, <2>2, <2>3 DEF Orderly, Kept
<1>. QED
  BY <1>8, <1>9

\* ... or meets the row of an earlier one.
LEMMA InsertConflictOrderly ==
    ASSUME FileTypes, NEW p \in Names, Orderly(p), NEW w \in Workers, InsertConflict(w)
    PROVE  Orderly(p)'
<1>. DEFINE s == sess[w]
<1>1. s \in Uploads /\ s.path \in Names /\ s.content \in Contents /\ s.op = "row"
  BY SessionOf DEF InsertConflict, FileTypes, Uploads
<1>2. (\A v \in Workers : v # w => sess'[v] = sess[v]) /\ sess'[w] = Idle
  BY <1>1, ThenSame DEF InsertConflict
<1>3. UNCHANGED <<objects, files, clobbered>>
  BY DEF InsertConflict
<1>4. Idle.path \notin Names /\ None \notin Contents
  BY FilesAssumption DEF Idle
<1>5. CASE s.path # p
  BY <1>2, <1>3, <1>4, <1>5, OtherPath
<1>6. CASE s.path = p
  <2>1. \A v \in Workers : sess'[v].path # p
    BY <1>2, <1>4, <1>6 DEF Orderly
  <2>2. objects[p] = s.content /\ \A i \in FileIds : files[i].path = p => p \in clobbered
    BY <1>1, <1>6 DEF Orderly
  <2>. QED
    BY <1>1, <1>3, <1>4, <2>1, <2>2 DEF Orderly, Kept
<1>. QED
  BY <1>5, <1>6

\* A deletion removes the object, ...
LEMMA DeleteContentOrderly ==
    ASSUME FileTypes, NEW p \in Names, Orderly(p), NEW w \in Workers, DeleteContent(w)
    PROVE  Orderly(p)'
<1>. DEFINE s == sess[w]
<1>1. s \in Erasures /\ s.path \in Names /\ s.op = "erase"
  BY SessionOf DEF DeleteContent, FileTypes, Erasures
<1>2. PICK op \in {"erasethumbs", "unrow"} : Then(w, op)
  BY DEF DeleteContent
<1>3. /\ \A v \in Workers : v # w => sess'[v] = sess[v]
      /\ sess'[w].op = op /\ sess'[w].path = s.path /\ sess'[w].id = s.id
  BY <1>1, <1>2, ThenSame
<1>4. UNCHANGED <<files, clobbered>>
  BY DEF DeleteContent
<1>5. \A n \in Names : n # s.path => objects'[n] = objects[n]
  <2>1. objects' = [objects EXCEPT ![s.path] = None]
    BY DEF DeleteContent
  <2>. QED
    BY <2>1, ObjectTyped
<1>6. CASE s.path # p
  BY <1>3, <1>4, <1>5, <1>6, OtherPath
<1>7. CASE s.path = p
  <2>1. \A v \in Workers : sess'[v].path = p => v = w
    BY <1>3, <1>7 DEF Orderly
  <2>2. \A i \in FileIds : files[i].path = p => s.id = i
    BY <1>1, <1>7 DEF Orderly
  <2>. QED
    BY <1>2, <1>3, <1>4, <1>7, <2>1, <2>2 DEF Orderly
<1>. QED
  BY <1>6, <1>7

\* ... then the thumbnails, ...
LEMMA DeleteThumbnailsOrderly ==
    ASSUME FileTypes, NEW p \in Names, Orderly(p), NEW w \in Workers, DeleteThumbnails(w)
    PROVE  Orderly(p)'
<1>. DEFINE s == sess[w]
<1>1. s \in Erasures /\ s.path \in Names /\ s.op = "erasethumbs"
  BY SessionOf DEF DeleteThumbnails, FileTypes, Erasures
<1>2. /\ \A v \in Workers : v # w => sess'[v] = sess[v]
      /\ sess'[w].op = "unrow" /\ sess'[w].path = s.path /\ sess'[w].id = s.id
  BY <1>1, ThenSame DEF DeleteThumbnails
<1>3. UNCHANGED <<files, clobbered>>
  BY DEF DeleteThumbnails
<1>4. \A n \in Names : objects'[n] = objects[n]
  <2>1. objects' = [objects EXCEPT ![s.thumb] = None]
    BY DEF DeleteThumbnails
  <2>2. s.thumb \notin Names
    BY <1>1, ThumbIsNoName DEF Erasures, Thumbs
  <2>. QED
    BY <2>1, <2>2, ObjectTyped
<1>5. CASE s.path # p
  BY <1>2, <1>3, <1>4, <1>5, OtherPath
<1>6. CASE s.path = p
  <2>1. \A v \in Workers : sess'[v].path = p => v = w
    BY <1>2, <1>6 DEF Orderly
  <2>2. \A i \in FileIds : files[i].path = p => s.id = i
    BY <1>1, <1>6 DEF Orderly
  <2>. QED
    BY <1>2, <1>3, <1>6, <2>1, <2>2 DEF Orderly
<1>. QED
  BY <1>5, <1>6

\* Rows go, and nothing else happens to the path.
LEMMA RowGone ==
    ASSUME NEW p \in Names, Orderly(p), NEW k \in FileIds,
           UNCHANGED <<objects, clobbered>>,
           \A i \in FileIds : i # k => files'[i] = files[i], files'[k].path # p,
           \A v \in Workers : sess'[v].path = p => sess'[v] = sess[v],
           \/ UNCHANGED sess
           \/ \A i \in FileIds : files'[i].path # p
    PROVE  Orderly(p)'
<1>1. \A i \in FileIds : files'[i].path = p => files'[i] = files[i]
  OBVIOUS
<1>2. CASE UNCHANGED sess
  BY <1>1, <1>2 DEF Orderly, Kept
<1>3. CASE \A i \in FileIds : files'[i].path # p
  BY <1>3 DEF Orderly
<1>. QED
  BY <1>2, <1>3

\* ... then its row.
LEMMA DeleteRowOrderly ==
    ASSUME FileTypes, NEW p \in Names, Orderly(p), NEW w \in Workers, DeleteRow(w)
    PROVE  Orderly(p)'
<1>. DEFINE s == sess[w]
<1>1. s \in Erasures /\ s.path \in Names /\ s.op = "unrow" /\ s.id \in FileIds
  BY SessionOf DEF DeleteRow, FileTypes, Erasures
<1>2. (\A v \in Workers : v # w => sess'[v] = sess[v]) /\ sess'[w] = Idle
  BY <1>1, ThenSame DEF DeleteRow
<1>3. UNCHANGED <<objects, clobbered>>
  BY DEF DeleteRow
<1>4. /\ \A i \in FileIds : i # s.id => files'[i] = files[i]
      /\ files'[s.id] = NoFile
  BY <1>1 DEF DeleteRow, FileTypes, FileTable
<1>5. Idle.path \notin Names /\ NoFile.path \notin Names
  BY FilesAssumption DEF Idle, NoFile
<1>6. \A v \in Workers : sess'[v].path = p => v # w /\ sess'[v] = sess[v]
  BY <1>2, <1>5
<1>7. CASE s.path = p
  <2>1. \A i \in FileIds : files'[i].path # p
    BY <1>1, <1>4, <1>5, <1>7 DEF Orderly
  <2>. QED
    BY <1>1, <1>3, <1>4, <1>5, <1>6, <2>1, RowGone
<1>8. CASE s.path # p /\ files[s.id].path = p
  <2>1. \A i \in FileIds : files'[i].path # p
    BY <1>1, <1>4, <1>5, <1>8 DEF Orderly
  <2>. QED
    BY <1>1, <1>3, <1>4, <1>5, <1>6, <2>1, RowGone
<1>9. CASE s.path # p /\ files[s.id].path # p
  BY <1>1, <1>2, <1>3, <1>4, <1>5, <1>9, OtherPath
<1>. QED
  BY <1>7, <1>8, <1>9

LEMMA AdminDeleteOrderly ==
    ASSUME FileTypes, NEW p \in Names, Orderly(p), NEW i \in FileIds, AdminDelete(i)
    PROVE  Orderly(p)'
<1>1. /\ UNCHANGED <<objects, clobbered, sess>>
      /\ \A j \in FileIds : j # i => files'[j] = files[j]
      /\ files'[i] = NoFile /\ NoFile.path \notin Names
  BY FilesAssumption DEF AdminDelete, FileTypes, FileTable, NoFile
<1>. QED
  BY <1>1, RowGone

\* A request is cut off; a deletion that was is recorded.
LEMMA AbortOrderly ==
    ASSUME FileTypes, NEW p \in Names, p \notin overlapped', Orderly(p),
           NEW w \in Workers, Abort(w)
    PROVE  Orderly(p)'
<1>. DEFINE s == sess[w]
<1>1. s \in Uploads \/ s \in Erasures
  BY DEF Abort, FileTypes, FileSession
<1>2. (\A v \in Workers : v # w => sess'[v] = sess[v]) /\ sess'[w] = Idle
  BY <1>1, ThenSame DEF Abort
<1>3. UNCHANGED <<objects, files, clobbered>>
  BY DEF Abort
<1>4. Idle.path \notin Names
  BY FilesAssumption DEF Idle
<1>5. CASE s.path # p
  BY <1>2, <1>3, <1>4, <1>5, OtherPath
<1>6. CASE s.path = p
  <2>1. \A v \in Workers : sess'[v].path # p
    BY <1>2, <1>4, <1>6 DEF Orderly
  <2>2. s.op \notin {"erasethumbs", "unrow"}
    BY <1>6 DEF Abort
  <2>3. \A v \in Workers : sess[v].path = p => sess[v].op \notin {"erasethumbs", "unrow"}
    BY <1>6, <2>2 DEF Orderly
  <2>. QED
    BY <1>3, <2>1, <2>3 DEF Orderly, Kept
<1>. QED
  BY <1>5, <1>6

LEMMA FileStepPaths ==
    ASSUME FileTypes, PathInv, FileSteps \/ FileCommits
    PROVE  PathInv'
<1>. SUFFICES ASSUME NEW p \in Names, p \notin overlapped' PROVE Orderly(p)'
  BY DEF PathInv
<1>1. p \notin overlapped
  BY DEF FileSteps, FileCommits, FileRequests, UploadFile, UploadFileStream, DeleteFile, Begin,
         PutContent, PutThumbnails, InsertConflict, DeleteContent, DeleteThumbnails, Abort,
         InsertRow, DeleteRow, AdminDelete
<1>2. Orderly(p)
  BY <1>1 DEF PathInv
<1>3. ASSUME NEW w \in Workers, FileRequests(w) PROVE Orderly(p)'
  <2>1. ASSUME NEW n \in Names, NEW c \in Contents, UploadFile(w, n, c) \/ UploadFileStream(w, n, c)
        PROVE  Orderly(p)'
    BY <1>2, <2>1, BeginOrderly DEF UploadFile, UploadFileStream
  <2>2. ASSUME NEW i \in FileIds, DeleteFile(w, i) PROVE Orderly(p)'
    BY <1>2, <2>2, BeginOrderly DEF DeleteFile
  <2>. QED
    BY <1>3, <2>1, <2>2 DEF FileRequests
<1>4. ASSUME NEW w \in Workers,
             \/ PutContent(w) \/ PutThumbnails(w) \/ InsertConflict(w)
             \/ DeleteContent(w) \/ DeleteThumbnails(w) \/ Abort(w)
      PROVE  Orderly(p)'
  BY <1>2, <1>4, PutContentOrderly, PutThumbnailsOrderly, InsertConflictOrderly,
     DeleteContentOrderly, DeleteThumbnailsOrderly, AbortOrderly
<1>5. ASSUME NEW w \in Workers, InsertRow(w) \/ DeleteRow(w) PROVE Orderly(p)'
  BY <1>2, <1>5, InsertRowOrderly, DeleteRowOrderly
<1>6. ASSUME NEW i \in FileIds, AdminDelete(i) PROVE Orderly(p)'
  BY <1>2, <1>6, AdminDeleteOrderly
<1>. QED
  BY <1>3, <1>4, <1>5, <1>6 DEF FileSteps, FileCommits

-----------------------------------------------------------------------------
(***************************************************************************)
(* Types of the dumps and of the tasks.                                    *)
(***************************************************************************)
Statuses == [Tasks -> {None, "SUCCESS", "FAILURE"}]
Dumps == [version : Nat, files : FileTable, lastFile : 0..MaxFiles, status : Statuses]
TaskKinds == {"backup", "cleanup", "restore"}

Queued == [kind : TaskKinds, at : {"queued"}]
Dumping == [kind : {"backup"}, at : {"dump"}, key : AllKeys, since : Nat]
Putting == [kind : {"backup"}, at : {"put"}, key : AllKeys, since : Nat, dump : Dumps]
Deleting == [kind : {"cleanup"}, at : {"delete"}, old : SUBSET AllKeys]
Getting == [kind : {"restore"}, at : {"get"}, key : AllKeys, needed : Nat]
Loading == [kind : {"restore"}, at : {"load"}, dump : Dumps, needed : Nat]
Ended == [kind : TaskKinds, at : {"succeeded", "failed", "acked", "given up", "unreported"}]
Executions ==
    {Unsent} \cup Queued \cup Dumping \cup Putting \cup Deleting \cup Getting \cup Loading \cup Ended

BackupTypes ==
    /\ now \in Clock
    /\ version \in Nat
    /\ atTime \in [Clock -> Nat]
    /\ bucket \in [AllKeys -> Dumps \cup {NoDump}]
    /\ task \in [Tasks -> Executions]
    /\ status \in Statuses
    /\ restored \in [version : Nat, needed : Nat, ever : BOOLEAN]
    /\ stored \in [Tasks -> [version : Int, since : Nat]]

-----------------------------------------------------------------------------
(***************************************************************************)
(* Dumps are recent.                                                       *)
(***************************************************************************)

\* The dump under a key holds what was committed before the time in the key.
Recent(d, key) == KeyTimestamp(key) <= now /\ d.version >= atTime[KeyTimestamp(key)]

\* A key is made before its dump; a restore asks for the time in its key.
RecentTask(t) ==
    /\ t.at = "dump" => KeyTimestamp(t.key) <= now /\ t.since <= version
    /\ t.at = "put" => Recent(t.dump, t.key) /\ t.dump.version >= t.since
    /\ t.at = "get" => KeyTimestamp(t.key) <= now /\ t.needed = atTime[KeyTimestamp(t.key)]
    /\ t.at = "load" => t.dump.version >= t.needed

RecentInv ==
    /\ \A t \in Clock : atTime[t] <= version
    /\ \A key \in AllKeys : bucket[key] # NoDump => Recent(bucket[key], key)
    /\ \A k \in Tasks : RecentTask(task[k])
    /\ restored.version >= restored.needed

-----------------------------------------------------------------------------
(***************************************************************************)
(* A success has been earned.                                              *)
(***************************************************************************)
HasStored(sd, k) == sd[k].version >= sd[k].since

\* The column st of the status table, now or in a dump, with the tasks tk and
\* what they have stored, sd.
Earned(st, tk, sd) ==
    \A k \in Tasks :
        st[k] = "SUCCESS" => tk[k].kind \in {"cleanup", "restore"} \/ HasStored(sd, k)

EarnedInv ==
    /\ Earned(status, task, stored)
    /\ \A key \in AllKeys : bucket[key] # NoDump => Earned(bucket[key].status, task, stored)
    /\ \A k \in Tasks :
          /\ task[k].at \in {"put", "load"} => Earned(task[k].dump.status, task, stored)
          /\ task[k].kind = "backup" /\ task[k].at = "succeeded" => HasStored(stored, k)
          /\ (~restored.ever /\ task[k].at \in {"acked", "given up"}) =>
                (status[k] = "SUCCESS" <=> task[k].at = "acked")

-----------------------------------------------------------------------------
(***************************************************************************)
(* The least and the greatest of a set of keys.                            *)
(***************************************************************************)

\* A set of naturals that is not empty has a least element.
LEMMA LeastElement ==
    ASSUME NEW T, T \subseteq Nat, T # {}
    PROVE  \E x \in T : \A y \in T : x <= y
<1>1. \E x \in T : \A y \in T : ~ (<<y, x>> \in OpToRel(<, Nat))
  BY NatLessThanWellFounded, WFMin
<1>2. \A x, y \in Nat : ~ (<<y, x>> \in OpToRel(<, Nat)) => ~ (y < x)
  <2>. SUFFICES ASSUME NEW x \in Nat, NEW y \in Nat, y < x
                PROVE  <<y, x>> \in OpToRel(<, Nat)
    OBVIOUS
  <2>. DEFINE ss == <<y, x>>
  <2>1. ss \in Nat \X Nat /\ ss[1] < ss[2]
    OBVIOUS
  <2>. HIDE DEF ss
  <2>2. ss \in OpToRel(<, Nat)
    BY <2>1, Zenon DEF OpToRel
  <2>. QED
    BY <2>2 DEF ss
<1>3. PICK x \in T : \A y \in T : ~ (<<y, x>> \in OpToRel(<, Nat))
  BY <1>1
<1>4. ASSUME NEW y \in T PROVE ~ (y < x) /\ x \in Nat /\ y \in Nat
  BY <1>2, <1>3, Zenon
<1>5. ASSUME NEW y \in T PROVE x <= y
  BY <1>4
<1>. QED
  BY <1>5

\* Latest returns a key whose time is the greatest of the times.
LEMMA LatestKey ==
    ASSUME NEW S, S \subseteq AllKeys, S # {}
    PROVE  /\ Latest(S) \in S
           /\ Max({KeyTimestamp(key) : key \in S}) = KeyTimestamp(Latest(S))
<1>0. MaxTime \in Nat /\ \A key \in AllKeys : KeyTimestamp(key) \in 0..MaxTime
  BY BackupsAssumption DEF AllKeys, BackupKey, KeyTimestamp, Clock
<1>. DEFINE U == {MaxTime - KeyTimestamp(key) : key \in S}
            V == {KeyTimestamp(key) : key \in S}
<1>1. U \subseteq Nat /\ U # {}
  <2>1. \A key \in S : MaxTime - KeyTimestamp(key) \in Nat
    BY <1>0
  <2>. QED
    BY <2>1
<1>2. PICK m \in U : \A y \in U : m <= y
  BY <1>1, LeastElement
<1>3. PICK a \in S : m = MaxTime - KeyTimestamp(a)
  BY <1>2
<1>4. ASSUME NEW b \in S PROVE KeyTimestamp(b) <= KeyTimestamp(a)
  <2>1. MaxTime - KeyTimestamp(b) \in U
    OBVIOUS
  <2>2. MaxTime - KeyTimestamp(a) <= MaxTime - KeyTimestamp(b)
    BY <1>2, <1>3, <2>1
  <2>. QED
    BY <1>0, <2>2
<1>5. Latest(S) \in S /\ \A b \in S : KeyTimestamp(b) <= KeyTimestamp(Latest(S))
  BY <1>4, Zenon DEF Latest
<1>6. KeyTimestamp(Latest(S)) \in V /\ V \subseteq Nat
  BY <1>0, <1>5
<1>7. \A y \in V : KeyTimestamp(Latest(S)) >= y
  BY <1>0, <1>5
<1>8. Max(V) \in V /\ \A y \in V : Max(V) >= y
  BY <1>6, <1>7, Zenon DEF Max
<1>9. Max(V) = KeyTimestamp(Latest(S))
  <2>1. Max(V) >= KeyTimestamp(Latest(S)) /\ KeyTimestamp(Latest(S)) >= Max(V)
    BY <1>6, <1>7, <1>8
  <2>2. Max(V) \in Nat /\ KeyTimestamp(Latest(S)) \in Nat
    BY <1>6, <1>8
  <2>. HIDE DEF V
  <2>. QED
    BY <2>1, <2>2
<1>. QED
  BY <1>5, <1>9

-----------------------------------------------------------------------------
(***************************************************************************)
(* The steps of the tasks.                                                 *)
(***************************************************************************)
TasksInv == BackupTypes /\ RecentInv /\ EarnedInv

\* The step a task is at says what it carries.
LEMMA ExecutionOf ==
    \A t \in Executions :
        /\ t.at = "dump" => t \in Dumping
        /\ t.at = "put" => t \in Putting
        /\ t.at = "delete" => t \in Deleting
        /\ t.at = "get" => t \in Getting
        /\ t.at = "load" => t \in Loading
        /\ t.at \in {"succeeded", "failed", "acked", "given up", "unreported"} => t \in Ended
        /\ t.at = "queued" => t \in Queued
        /\ t.kind \in TaskKinds \cup {"none"}
        /\ t.kind = "none" => t.at = "unsent"
        /\ t.at = "unsent" => t = Unsent
<1>1. \A t \in Queued : t.at = "queued" /\ t.kind \in TaskKinds
  BY DEF Queued
<1>2. \A t \in Dumping : t.at = "dump" /\ t.kind = "backup"
  BY DEF Dumping
<1>3. \A t \in Putting : t.at = "put" /\ t.kind = "backup"
  BY DEF Putting
<1>4. \A t \in Deleting : t.at = "delete" /\ t.kind = "cleanup"
  BY DEF Deleting
<1>5. \A t \in Getting : t.at = "get" /\ t.kind = "restore"
  BY DEF Getting
<1>6. \A t \in Loading : t.at = "load" /\ t.kind = "restore"
  BY DEF Loading
<1>7. \A t \in Ended : /\ t.at \in {"succeeded", "failed", "acked", "given up", "unreported"}
                     /\ t.kind \in TaskKinds
  BY DEF Ended
<1>8. Unsent.at = "unsent" /\ Unsent.kind = "none"
  BY DEF Unsent
<1>9. ASSUME NEW t \in Executions
      PROVE  /\ t.at \in {"succeeded", "failed", "acked", "given up", "unreported"} => t \in Ended
             /\ t.at \in {"dump", "put", "delete", "get", "load", "queued", "unsent"} => t \notin Ended
  BY <1>1, <1>2, <1>3, <1>4, <1>5, <1>6, <1>7, <1>8 DEF Executions
<1>10. ASSUME NEW t \in Executions, t \notin Ended
       PROVE  /\ t.at = "dump" => t \in Dumping
              /\ t.at = "put" => t \in Putting
              /\ t.at = "delete" => t \in Deleting
              /\ t.at = "get" => t \in Getting
              /\ t.at = "load" => t \in Loading
              /\ t.at = "queued" => t \in Queued
              /\ t.at = "unsent" => t = Unsent
  BY <1>1, <1>2, <1>3, <1>4, <1>5, <1>6, <1>8, <1>10 DEF Executions
<1>11. ASSUME NEW t \in Executions
       PROVE  t.kind \in TaskKinds \cup {"none"} /\ (t.kind = "none" => t.at = "unsent")
  BY <1>1, <1>2, <1>3, <1>4, <1>5, <1>6, <1>7, <1>8 DEF Executions, TaskKinds
<1>. QED
  BY <1>9, <1>10, <1>11

LEMMA KeysTimed == \A key \in AllKeys : KeyTimestamp(key) \in Clock
BY DEF AllKeys, BackupKey, KeyTimestamp

LEMMA DumpIsNoNoDump == NoDump \notin Dumps
BY DEF NoDump, Dumps

\* What was earned stays earned when tasks keep their kinds and what they
\* have stored.
LEMMA EarnedKept ==
    ASSUME NEW st, NEW tk, NEW sd, NEW tkNext, NEW sdNext, Earned(st, tk, sd),
           \A k \in Tasks : tk[k].kind \in {"cleanup", "restore"} => tkNext[k].kind = tk[k].kind,
           \A k \in Tasks : HasStored(sd, k) => HasStored(sdNext, k)
    PROVE  Earned(st, tkNext, sdNext)
BY DEF Earned

\* One task goes on and nothing else happens.
LEMMA TaskStep ==
    ASSUME TasksInv, NEW k \in Tasks, NEW t \in Executions, Step(k, t),
           UNCHANGED <<now, version, atTime, bucket, status, restored, stored>>,
           task[k].kind \in {"cleanup", "restore"} => t.kind = task[k].kind,
           RecentTask(t),
           t.at \in {"put", "load"} => Earned(t.dump.status, task, stored),
           t.at \notin {"acked", "given up"},
           t.at = "succeeded" => t.kind # "backup"
    PROVE  TasksInv'
<1>1. BackupTypes /\ RecentInv /\ EarnedInv
  BY DEF TasksInv
<1>2. /\ task' = [task EXCEPT ![k] = t]
      /\ task'[k] = t
      /\ \A j \in Tasks : j # k => task'[j] = task[j]
  BY <1>1 DEF Step, BackupTypes
<1>3. BackupTypes'
  BY <1>1, <1>2 DEF BackupTypes
<1>4. ASSUME NEW j \in Tasks PROVE RecentTask(task[j])'
  <2>1. RecentTask(task'[j])
    BY <1>1, <1>2 DEF RecentInv
  <2>. QED
    BY <2>1 DEF RecentTask, Recent
<1>5. RecentInv'
  BY <1>1, <1>4 DEF RecentInv, Recent
<1>6. \A j \in Tasks : task[j].kind \in {"cleanup", "restore"} => task'[j].kind = task[j].kind
  BY <1>2
<1>7. \A st : Earned(st, task, stored) => Earned(st, task', stored')
  BY <1>6 DEF Earned
<1>8. ASSUME NEW j \in Tasks
      PROVE  /\ task'[j].at \in {"put", "load"} => Earned(task'[j].dump.status, task', stored')
             /\ task'[j].kind = "backup" /\ task'[j].at = "succeeded" => HasStored(stored', j)
             /\ (~restored'.ever /\ task'[j].at \in {"acked", "given up"}) =>
                   (status'[j] = "SUCCESS" <=> task'[j].at = "acked")
  BY <1>1, <1>2, <1>7 DEF EarnedInv
<1>9. EarnedInv'
  BY <1>1, <1>7, <1>8 DEF EarnedInv
<1>. QED
  BY <1>3, <1>5, <1>9 DEF TasksInv

\* Tasks are queued, started and started again.
LEMMA SendKeeps ==
    ASSUME TasksInv, NEW k \in Tasks, NEW kind \in TaskKinds, Send(k, kind)
    PROVE  TasksInv'
<1>. DEFINE t == [kind |-> kind, at |-> "queued"]
<1>1. t \in Executions /\ RecentTask(t)
  BY DEF Executions, Queued, RecentTask
<1>2. task[k].kind = "none"
  BY DEF Send, Unsent
<1>3. Step(k, t) /\ UNCHANGED <<now, version, atTime, bucket, status, restored, stored>>
  BY DEF Send
<1>4. t.at = "queued" /\ t.kind = kind
  OBVIOUS
<1>. HIDE DEF t
<1>. QED
  BY <1>1, <1>2, <1>3, <1>4, TaskStep

LEMMA CrashKeeps ==
    ASSUME TasksInv, NEW k \in Tasks, Crash(k)
    PROVE  TasksInv'
<1>. DEFINE t == [kind |-> task[k].kind, at |-> "queued"]
<1>1. task[k] \in Executions /\ task[k].kind \in TaskKinds
  <2>1. task[k] \in Executions /\ task[k].at # "unsent"
    BY DEF TasksInv, BackupTypes, Crash
  <2>. QED
    BY <2>1, ExecutionOf
<1>2. t \in Executions /\ RecentTask(t)
  BY <1>1 DEF Executions, Queued, RecentTask
<1>3. Step(k, t) /\ UNCHANGED <<now, version, atTime, bucket, status, restored, stored>>
  BY DEF Crash, Redeliver
<1>4. t.at = "queued" /\ t.kind = task[k].kind
  OBVIOUS
<1>. HIDE DEF t
<1>. QED
  BY <1>2, <1>3, <1>4, TaskStep

\* The object store fails a task, or nobody hears how a task ended.
LEMMA FailureKeeps ==
    ASSUME TasksInv, NEW k \in Tasks, S3Fails(k) \/ UpdateStatusRaises(k)
    PROVE  TasksInv'
<1>1. task[k] \in Executions /\ task[k].kind \in TaskKinds
  <2>1. task[k] \in Executions /\ task[k].at # "unsent"
    BY DEF TasksInv, BackupTypes, S3Fails, UpdateStatusRaises
  <2>. QED
    BY <2>1, ExecutionOf
<1>2. PICK end \in {"failed", "unreported"} : Step(k, [kind |-> task[k].kind, at |-> end])
  BY DEF S3Fails, UpdateStatusRaises
<1>3. UNCHANGED <<now, version, atTime, bucket, status, restored, stored>>
  BY DEF S3Fails, UpdateStatusRaises
<1>. DEFINE t == [kind |-> task[k].kind, at |-> end]
<1>4. t \in Executions /\ RecentTask(t) /\ Step(k, t) /\ t.at = end /\ t.kind = task[k].kind
  BY <1>1, <1>2 DEF Executions, Ended, RecentTask
<1>. HIDE DEF t
<1>. QED
  BY <1>3, <1>4, TaskStep

\* backup_database up to the upload.
LEMMA BackupKeeps ==
    ASSUME TasksInv, FileTypes, NEW k \in Tasks, StartBackup(k) \/ PgDump(k) \/ PgDumpFails(k)
    PROVE  TasksInv'
<1>1. BackupTypes /\ RecentInv /\ EarnedInv /\ task[k] \in Executions
  BY DEF TasksInv, BackupTypes
<1>2. UNCHANGED <<now, version, atTime, bucket, status, restored, stored>>
  BY DEF StartBackup, PgDump, PgDumpFails
<1>3. now \in Clock /\ now \in Nat /\ version \in Nat
  BY <1>1, BackupsAssumption DEF BackupTypes, Clock
<1>4. CASE StartBackup(k)
  <2>. DEFINE t == [kind |-> "backup", at |-> "dump", key |-> BackupKey(now), since |-> version]
  <2>1. Step(k, t) /\ task[k].kind = "backup"
    BY <1>4 DEF StartBackup
  <2>2. t \in Executions
    BY <1>3 DEF Executions, Dumping, AllKeys
  <2>3. RecentTask(t)
    BY <1>3 DEF RecentTask, KeyTimestamp, BackupKey
  <2>4. t.at = "dump" /\ t.kind = "backup"
    OBVIOUS
  <2>. HIDE DEF t
  <2>. QED
    BY <1>2, <2>1, <2>2, <2>3, <2>4, TaskStep
<1>5. CASE PgDump(k)
  <2>1. task[k] \in Dumping /\ RecentTask(task[k]) /\ task[k].at = "dump"
    BY <1>1, <1>5, ExecutionOf DEF PgDump, RecentInv
  <2>2. /\ task[k].key \in AllKeys /\ task[k].since \in Nat /\ task[k].kind = "backup"
        /\ KeyTimestamp(task[k].key) \in Clock
    BY <2>1, KeysTimed DEF Dumping
  <2>3. Dump \in Dumps /\ Dump.version = version /\ Dump.status = status
    BY <1>1 DEF Dump, Dumps, FileTypes, BackupTypes
  <2>. DEFINE t == [kind |-> "backup", at |-> "put", key |-> task[k].key,
                    since |-> task[k].since, dump |-> Dump]
  <2>4. Step(k, t)
    BY <1>5 DEF PgDump
  <2>5. t \in Executions
    BY <2>2, <2>3 DEF Executions, Putting
  <2>6. t.at = "put" /\ t.dump = Dump /\ t.key = task[k].key /\ t.since = task[k].since
    OBVIOUS
  <2>. HIDE DEF t
  <2>7. /\ KeyTimestamp(task[k].key) <= now /\ task[k].since <= version
        /\ atTime[KeyTimestamp(task[k].key)] <= version
        /\ atTime[KeyTimestamp(task[k].key)] \in Nat
    BY <1>1, <2>1, <2>2 DEF RecentInv, RecentTask, BackupTypes
  <2>8. RecentTask(t)
    BY <1>3, <2>2, <2>3, <2>6, <2>7 DEF RecentTask, Recent
  <2>. QED
    BY <1>1, <1>2, <2>2, <2>3, <2>4, <2>5, <2>6, <2>8, TaskStep DEF EarnedInv
<1>6. CASE PgDumpFails(k)
  <2>. DEFINE t == [kind |-> "backup", at |-> "failed"]
  <2>1. Step(k, t) /\ task[k].kind = "backup"
    BY <1>1, <1>6, ExecutionOf DEF PgDumpFails, Dumping
  <2>2. t \in Executions /\ RecentTask(t)
    BY DEF Executions, Ended, TaskKinds, RecentTask
  <2>3. t.at = "failed" /\ t.kind = "backup"
    OBVIOUS
  <2>. HIDE DEF t
  <2>. QED
    BY <1>2, <2>1, <2>2, <2>3, TaskStep
<1>. QED
  BY <1>4, <1>5, <1>6

\* The listing of a cleanup, and restore_backup up to the database.
LEMMA StartCleanupKeeps ==
    ASSUME TasksInv, NEW k \in Tasks, StartCleanup(k)
    PROVE  TasksInv'
<1>. DEFINE t == [kind |-> "cleanup", at |-> "delete",
                  old |-> {key \in Keys : KeyTimestamp(key) < now - Retention}]
<1>1. Step(k, t) /\ UNCHANGED <<now, version, atTime, bucket, status, restored, stored>>
  BY DEF StartCleanup
<1>2. t \in Executions /\ RecentTask(t)
  BY DEF Executions, Deleting, RecentTask, Keys
<1>3. t.at = "delete" /\ t.kind = "cleanup" /\ task[k].kind = "cleanup"
  BY DEF StartCleanup
<1>. HIDE DEF t
<1>. QED
  BY <1>1, <1>2, <1>3, TaskStep

LEMMA RestoreFailureKeeps ==
    ASSUME TasksInv, NEW k \in Tasks, task[k].kind = "restore", NEW end \in {"succeeded", "failed"},
           Step(k, [kind |-> "restore", at |-> end]),
           UNCHANGED <<now, version, atTime, bucket, status, restored, stored>>
    PROVE  TasksInv'
<1>. DEFINE t == [kind |-> "restore", at |-> end]
<1>1. t \in Executions /\ RecentTask(t) /\ t.at = end /\ t.kind = "restore" /\ Step(k, t)
  BY DEF Executions, Ended, TaskKinds, RecentTask
<1>. HIDE DEF t
<1>. QED
  BY <1>1, TaskStep

LEMMA StartRestoreKeeps ==
    ASSUME TasksInv, NEW k \in Tasks, StartRestore(k)
    PROVE  TasksInv'
<1>1. BackupTypes /\ RecentInv
  BY DEF TasksInv
<1>2. /\ UNCHANGED <<now, version, atTime, bucket, status, restored, stored>>
      /\ task[k].kind = "restore"
  BY DEF StartRestore
<1>3. CASE Keys = {}
  BY <1>2, <1>3, RestoreFailureKeeps DEF StartRestore
<1>4. CASE Keys # {}
  <2>. DEFINE key == Latest(Keys)
              t == [kind |-> "restore", at |-> "get", key |-> key,
                    needed |-> atTime[KeyTimestamp(key)]]
  <2>1. Keys \subseteq AllKeys
    BY DEF Keys
  <2>2. key \in Keys /\ Max({KeyTimestamp(x) : x \in Keys}) = KeyTimestamp(key)
    BY <1>4, <2>1, LatestKey
  <2>3. Step(k, t)
    BY <1>4, <2>2 DEF StartRestore
  <2>4. /\ KeyTimestamp(key) \in Clock /\ key \in AllKeys
        /\ atTime[KeyTimestamp(key)] \in Nat
        /\ KeyTimestamp(key) <= now
    BY <1>1, <2>1, <2>2, KeysTimed DEF BackupTypes, RecentInv, Recent, Keys
  <2>. HIDE DEF key
  <2>5. t \in Executions
    BY <2>4 DEF Executions, Getting
  <2>6. RecentTask(t)
    BY <2>4 DEF RecentTask
  <2>7. t.at = "get" /\ t.kind = "restore"
    OBVIOUS
  <2>. HIDE DEF t
  <2>. QED
    BY <1>2, <2>3, <2>5, <2>6, <2>7, TaskStep
<1>. QED
  BY <1>3, <1>4

LEMMA GetObjectKeeps ==
    ASSUME TasksInv, NEW k \in Tasks, GetObject(k)
    PROVE  TasksInv'
<1>1. BackupTypes /\ RecentInv /\ EarnedInv
  BY DEF TasksInv
<1>2. UNCHANGED <<now, version, atTime, bucket, status, restored, stored>>
  BY DEF GetObject
<1>3. task[k] \in Getting /\ RecentTask(task[k]) /\ task[k].at = "get"
  BY <1>1, ExecutionOf DEF GetObject, BackupTypes, RecentInv
<1>. DEFINE key == task[k].key
<1>4. key \in AllKeys /\ task[k].needed \in Nat /\ task[k].kind = "restore"
  BY <1>3 DEF Getting
<1>5. CASE bucket[key] = NoDump
  BY <1>2, <1>4, <1>5, RestoreFailureKeeps DEF GetObject
<1>6. CASE bucket[key] # NoDump
  <2>. DEFINE t == [kind |-> "restore", at |-> "load", dump |-> bucket[key],
                    needed |-> task[k].needed]
  <2>1. Step(k, t)
    BY <1>6 DEF GetObject
  <2>2. bucket[key] \in Dumps /\ Recent(bucket[key], key) /\ Earned(bucket[key].status, task, stored)
    BY <1>1, <1>4, <1>6 DEF BackupTypes, RecentInv, EarnedInv
  <2>3. t \in Executions
    BY <1>4, <2>2 DEF Executions, Loading
  <2>4. t.at = "load" /\ t.kind = "restore" /\ t.dump = bucket[key] /\ t.needed = task[k].needed
    OBVIOUS
  <2>. HIDE DEF t
  <2>5. RecentTask(t)
    BY <1>3, <2>2, <2>4 DEF RecentTask, Recent
  <2>. QED
    BY <1>2, <1>4, <2>1, <2>2, <2>3, <2>4, <2>5, TaskStep
<1>. QED
  BY <1>5, <1>6

LEMMA PgRestoreNothingKeeps ==
    ASSUME TasksInv, NEW k \in Tasks, PgRestoreNothing(k)
    PROVE  TasksInv'
<1>1. task[k].kind = "restore"
  BY ExecutionOf DEF TasksInv, BackupTypes, PgRestoreNothing, Loading
<1>. QED
  BY <1>1, RestoreFailureKeeps DEF PgRestoreNothing

\* The upload of the dump, whether or not its answer comes.
LEMMA PutObjectKeeps ==
    ASSUME TasksInv, NEW k \in Tasks, PutObject(k) \/ PutObjectUnanswered(k)
    PROVE  TasksInv'
<1>0. PICK end \in {"succeeded", "failed"} : PutDump(k) /\ Step(k, [kind |-> "backup", at |-> end])
  BY DEF PutObject, PutObjectUnanswered
<1>1. BackupTypes /\ RecentInv /\ EarnedInv
  BY DEF TasksInv
<1>. DEFINE s == task[k]
            t == [kind |-> "backup", at |-> end]
            h == [version |-> s.dump.version, since |-> s.since]
<1>2. s \in Putting /\ RecentTask(s) /\ s.at = "put"
  BY <1>0, <1>1, ExecutionOf DEF PutDump, BackupTypes, RecentInv
<1>3. /\ s.key \in AllKeys /\ s.dump \in Dumps /\ s.kind = "backup" /\ s.since \in Nat
      /\ s.dump.version \in Nat /\ s.dump.version >= s.since /\ Recent(s.dump, s.key)
  BY <1>2 DEF Putting, Dumps, RecentTask
<1>4. /\ UNCHANGED <<now, version, atTime, status, restored>>
      /\ bucket' = [bucket EXCEPT ![s.key] = s.dump]
      /\ task' = [task EXCEPT ![k] = t]
      /\ stored' = [stored EXCEPT ![k] = h]
  BY <1>0 DEF PutDump, Step
<1>5. t \in Executions /\ h \in [version : Int, since : Nat] /\ h.version >= h.since
  <2>1. t \in Ended
    BY DEF Ended, TaskKinds
  <2>2. h \in [version : Int, since : Nat] /\ h.version >= h.since
    BY <1>3
  <2>. QED
    BY <2>1, <2>2 DEF Executions
<1>6. t.at \in {"succeeded", "failed"} /\ t.kind = "backup"
  OBVIOUS
<1>. HIDE DEF t, h
<1>7. /\ task'[k] = t /\ \A j \in Tasks : j # k => task'[j] = task[j]
      /\ stored'[k] = h /\ \A j \in Tasks : j # k => stored'[j] = stored[j]
      /\ bucket'[s.key] = s.dump /\ \A key \in AllKeys : key # s.key => bucket'[key] = bucket[key]
  BY <1>1, <1>3, <1>4 DEF BackupTypes
<1>8. BackupTypes'
  BY <1>1, <1>3, <1>4, <1>5 DEF BackupTypes
<1>9. ASSUME NEW j \in Tasks PROVE RecentTask(task[j])'
  <2>1. RecentTask(task'[j])
    BY <1>1, <1>6, <1>7 DEF RecentInv, RecentTask
  <2>. QED
    BY <1>4, <2>1 DEF RecentTask, Recent
<1>10. \A key \in AllKeys : bucket'[key] # NoDump => Recent(bucket'[key], key)
  BY <1>1, <1>3, <1>7 DEF RecentInv
<1>11. RecentInv'
  BY <1>1, <1>4, <1>9, <1>10 DEF RecentInv, Recent
<1>12. HasStored(stored', k) /\ \A j \in Tasks : HasStored(stored, j) => HasStored(stored', j)
  BY <1>5, <1>7 DEF HasStored
<1>13. \A j \in Tasks : task'[j].kind = task[j].kind
  BY <1>3, <1>6, <1>7
<1>14. \A st : Earned(st, task, stored) => Earned(st, task', stored')
  BY <1>12, <1>13 DEF Earned
<1>15. Earned(s.dump.status, task, stored)
  BY <1>1, <1>2 DEF EarnedInv
<1>16. \A key \in AllKeys : bucket'[key] # NoDump => Earned(bucket'[key].status, task', stored')
  BY <1>1, <1>3, <1>7, <1>14, <1>15 DEF EarnedInv
<1>17. ASSUME NEW j \in Tasks
       PROVE  /\ task'[j].at \in {"put", "load"} => Earned(task'[j].dump.status, task', stored')
              /\ task'[j].kind = "backup" /\ task'[j].at = "succeeded" => HasStored(stored', j)
              /\ (~restored'.ever /\ task'[j].at \in {"acked", "given up"}) =>
                    (status'[j] = "SUCCESS" <=> task'[j].at = "acked")
  BY <1>1, <1>4, <1>6, <1>7, <1>12, <1>14 DEF EarnedInv
<1>18. EarnedInv'
  BY <1>1, <1>4, <1>14, <1>16, <1>17 DEF EarnedInv
<1>. QED
  BY <1>8, <1>11, <1>18 DEF TasksInv

\* A cleanup deletes one object, or is done.
LEMMA DeleteObjectKeeps ==
    ASSUME TasksInv, NEW k \in Tasks, DeleteObject(k)
    PROVE  TasksInv'
<1>1. BackupTypes /\ RecentInv /\ EarnedInv
  BY DEF TasksInv
<1>2. task[k] \in Deleting /\ task[k].kind = "cleanup"
  BY <1>1, ExecutionOf DEF DeleteObject, BackupTypes, Deleting
<1>3. PICK t \in Executions, b \in [AllKeys -> Dumps \cup {NoDump}] :
          /\ task' = [task EXCEPT ![k] = t] /\ bucket' = b
          /\ t.kind = "cleanup" /\ t.at \in {"delete", "succeeded"}
          /\ \A key \in AllKeys : b[key] = bucket[key] \/ b[key] = NoDump
  <2>1. CASE task[k].old = {}
    <3>1. [kind |-> "cleanup", at |-> "succeeded"] \in Executions
      BY DEF Executions, Ended, TaskKinds
    <3>. QED
      BY <1>1, <2>1, <3>1 DEF DeleteObject, Step, BackupTypes
  <2>2. CASE task[k].old # {}
    <3>1. PICK key \in task[k].old :
              /\ bucket' = [bucket EXCEPT ![key] = NoDump]
              /\ task' = [task EXCEPT ![k] = [task[k] EXCEPT !.old = @ \ {key}]]
      BY <2>2 DEF DeleteObject, Step
    <3>2. [task[k] EXCEPT !.old = @ \ {key}] \in Deleting
      BY <1>2 DEF Deleting
    <3>3. [task[k] EXCEPT !.old = @ \ {key}] \in Executions
      BY <3>2 DEF Executions
    <3>4. [task[k] EXCEPT !.old = @ \ {key}].kind = "cleanup"
          /\ [task[k] EXCEPT !.old = @ \ {key}].at = "delete"
      BY <3>2 DEF Deleting
    <3>5. [bucket EXCEPT ![key] = NoDump] \in [AllKeys -> Dumps \cup {NoDump}]
      BY <1>1 DEF BackupTypes
    <3>6. \A x \in AllKeys : [bucket EXCEPT ![key] = NoDump][x] \in {bucket[x], NoDump}
      BY <1>1 DEF BackupTypes
    <3>. QED
      BY <3>1, <3>3, <3>4, <3>5, <3>6
  <2>. QED
    BY <2>1, <2>2
<1>4. UNCHANGED <<now, version, atTime, status, restored, stored>>
  BY DEF DeleteObject
<1>5. task'[k] = t /\ \A j \in Tasks : j # k => task'[j] = task[j]
  BY <1>1, <1>3 DEF BackupTypes
<1>6. BackupTypes'
  BY <1>1, <1>3, <1>4 DEF BackupTypes
<1>7. ASSUME NEW j \in Tasks PROVE RecentTask(task[j])'
  <2>1. RecentTask(task'[j])
    BY <1>1, <1>3, <1>5 DEF RecentInv, RecentTask
  <2>. QED
    BY <1>4, <2>1 DEF RecentTask, Recent
<1>8. RecentInv'
  BY <1>1, <1>3, <1>4, <1>7 DEF RecentInv, Recent
<1>9. \A j \in Tasks : task'[j].kind = task[j].kind
  BY <1>2, <1>3, <1>5
<1>10. \A st : Earned(st, task, stored) => Earned(st, task', stored')
  BY <1>4, <1>9 DEF Earned
<1>11. ASSUME NEW j \in Tasks
       PROVE  /\ task'[j].at \in {"put", "load"} => Earned(task'[j].dump.status, task', stored')
              /\ task'[j].kind = "backup" /\ task'[j].at = "succeeded" => HasStored(stored', j)
              /\ (~restored'.ever /\ task'[j].at \in {"acked", "given up"}) =>
                    (status'[j] = "SUCCESS" <=> task'[j].at = "acked")
  BY <1>1, <1>3, <1>4, <1>5, <1>10 DEF EarnedInv
<1>12. EarnedInv'
  BY <1>1, <1>3, <1>4, <1>10, <1>11 DEF EarnedInv
<1>. QED
  BY <1>6, <1>8, <1>12 DEF TasksInv

\* More was committed: dumps stay as recent as they were.
LEMMA MoreCommitted ==
    ASSUME BackupTypes, RecentInv, Commits(1), UNCHANGED <<now, atTime, bucket>>
    PROVE  /\ \A t \in Clock : atTime'[t] <= version'
           /\ \A key \in AllKeys : bucket'[key] # NoDump => Recent(bucket[key], key)'
           /\ \A t \in Executions : RecentTask(t) => RecentTask(t)'
<1>1. version \in Nat
  BY DEF BackupTypes
<1>2. version' = version + 1
  BY DEF Commits
<1>3. \A n \in Nat : n <= version => n <= version'
  BY <1>1, <1>2
<1>4. \A t \in Clock : atTime'[t] <= version'
  <2>1. \A t \in Clock : atTime[t] \in Nat /\ atTime[t] <= version
    BY DEF BackupTypes, RecentInv
  <2>. QED
    BY <1>3, <2>1
<1>5. ASSUME NEW t \in Executions, RecentTask(t) PROVE RecentTask(t)'
  <2>1. t.at = "dump" => t.since \in Nat
    BY ExecutionOf DEF Dumping
  <2>2. t.at = "dump" => t.since <= version'
    BY <1>3, <1>5, <2>1 DEF RecentTask
  <2>. QED
    BY <1>5, <2>2 DEF RecentTask, Recent
<1>6. \A key \in AllKeys : bucket'[key] # NoDump => Recent(bucket[key], key)'
  BY DEF RecentInv, Recent
<1>. QED
  BY <1>4, <1>5, <1>6

\* The same with a step of task k that starts, ends or closes an execution.
LEMMA MoreRecent ==
    ASSUME BackupTypes, RecentInv, Commits(1), UNCHANGED <<now, atTime, bucket>>,
           restored'.version >= restored'.needed,
           NEW k \in Tasks, task'[k].at \in {"queued", "succeeded", "acked", "given up"},
           \A j \in Tasks : j # k => task'[j] = task[j]
    PROVE  RecentInv'
<1>1. ASSUME NEW j \in Tasks PROVE RecentTask(task[j])'
  <2>1. CASE j = k
    BY <2>1 DEF RecentTask
  <2>2. CASE j # k
    <3>1. task'[j] = task[j] /\ RecentTask(task[j]) /\ task[j] \in Executions
      BY <2>2 DEF BackupTypes, RecentInv
    <3>2. \A u \in Executions : RecentTask(u) => RecentTask(u)'
      BY MoreCommitted
    <3>. HIDE DEF RecentTask
    <3>. QED
      BY <3>1, <3>2 DEF RecentTask
  <2>. QED
    BY <2>1, <2>2
<1>. QED
  BY <1>1, MoreCommitted DEF RecentInv

\* A file's row is committed.
LEMMA FileCommitKeeps ==
    ASSUME TasksInv, Commits(1),
           UNCHANGED <<now, atTime, bucket, task, status, restored, stored>>
    PROVE  TasksInv'
<1>1. BackupTypes /\ RecentInv /\ EarnedInv /\ version' = version + 1
  BY DEF TasksInv, Commits
<1>2. BackupTypes'
  BY <1>1 DEF BackupTypes
<1>3. RecentInv'
  <2>1. \A k \in Tasks : RecentTask(task[k])'
    <3>1. \A k \in Tasks : RecentTask(task[k]) /\ task[k] \in Executions
      BY <1>1 DEF RecentInv, BackupTypes
    <3>2. \A u \in Executions : RecentTask(u) => RecentTask(u)'
      BY <1>1, MoreCommitted
    <3>. QED
      BY <3>1, <3>2 DEF RecentTask
  <2>. QED
    BY <1>1, <2>1, MoreCommitted DEF RecentInv
<1>4. EarnedInv'
  BY <1>1 DEF EarnedInv
<1>. QED
  BY <1>2, <1>3, <1>4 DEF TasksInv

\* on_success and on_failure write the row; then the message is acknowledged
\* or, after a crash, delivered again.
LEMMA StatusKeeps ==
    ASSUME TasksInv, NEW k \in Tasks, OnSuccess(k) \/ OnFailure(k)
    PROVE  TasksInv'
<1>1. BackupTypes /\ RecentInv /\ EarnedInv
  BY DEF TasksInv
<1>. DEFINE s == task[k]
<1>2. s \in Ended /\ s.at \in {"succeeded", "failed"} /\ s.kind \in TaskKinds
  <2>1. s \in Executions /\ s.at \in {"succeeded", "failed"}
    BY <1>1 DEF OnSuccess, OnFailure, BackupTypes
  <2>2. s \in Ended
    BY <2>1, ExecutionOf
  <2>. QED
    BY <2>1, <2>2 DEF Ended
<1>3. PICK new \in {"SUCCESS", "FAILURE"} :
          /\ status' = [status EXCEPT ![k] = new]
          /\ new = "SUCCESS" <=> s.at = "succeeded"
  BY DEF OnSuccess, OnFailure, UpdateTaskStatus
<1>4. Commits(1) /\ UNCHANGED <<now, atTime, bucket, restored, stored>>
  BY DEF OnSuccess, OnFailure, UpdateTaskStatus
<1>5. PICK t \in Executions :
          /\ task' = [task EXCEPT ![k] = t]
          /\ t.kind = s.kind /\ t.at \in {"queued", "acked", "given up"}
          /\ t.at = "acked" => new = "SUCCESS"
          /\ t.at = "given up" => new # "SUCCESS"
  <2>1. CASE Acknowledge(k)
    <3>. DEFINE acked == IF s.at = "succeeded" THEN "acked" ELSE "given up"
                r == [s EXCEPT !.at = acked]
    <3>1. task' = [task EXCEPT ![k] = r]
      BY <1>2, <2>1 DEF Acknowledge, Step, Ended
    <3>2. r \in Ended /\ r.kind = s.kind /\ r.at = acked
      BY <1>2 DEF Ended
    <3>3. /\ acked \in {"acked", "given up"}
          /\ acked = "acked" => new = "SUCCESS"
          /\ acked = "given up" => new # "SUCCESS"
      BY <1>2, <1>3
    <3>. HIDE DEF acked, r
    <3>. QED
      BY <3>1, <3>2, <3>3 DEF Executions
  <2>2. CASE Redeliver(k)
    <3>. DEFINE r == [kind |-> s.kind, at |-> "queued"]
    <3>1. task' = [task EXCEPT ![k] = r]
      BY <2>2 DEF Redeliver, Step
    <3>2. r \in Queued /\ r.kind = s.kind /\ r.at = "queued"
      BY <1>2 DEF Queued
    <3>. HIDE DEF r
    <3>. QED
      BY <3>1, <3>2 DEF Executions
  <2>. QED
    BY <2>1, <2>2 DEF OnSuccess, OnFailure
<1>6. /\ task'[k] = t /\ \A j \in Tasks : j # k => task'[j] = task[j]
      /\ status'[k] = new /\ \A j \in Tasks : j # k => status'[j] = status[j]
  BY <1>1, <1>3, <1>5 DEF BackupTypes, Statuses
<1>7. BackupTypes'
  <2>1. version' \in Nat
    BY <1>1, <1>4 DEF BackupTypes, Commits
  <2>2. status' \in Statuses
    BY <1>1, <1>3 DEF BackupTypes, Statuses
  <2>. QED
    BY <1>1, <1>4, <1>5, <2>1, <2>2 DEF BackupTypes
<1>8. RecentInv'
  <2>1. restored'.version >= restored'.needed
    BY <1>1, <1>4 DEF RecentInv
  <2>2. task'[k].at \in {"queued", "succeeded", "acked", "given up"}
    BY <1>5, <1>6
  <2>. QED
    BY <1>1, <1>4, <1>6, <2>1, <2>2, MoreRecent
<1>9. \A j \in Tasks : task'[j].kind = task[j].kind
  BY <1>5, <1>6
<1>10. \A st : Earned(st, task, stored) => Earned(st, task', stored')
  BY <1>4, <1>9 DEF Earned
<1>11. new = "SUCCESS" => s.kind \in {"cleanup", "restore"} \/ HasStored(stored, k)
  BY <1>1, <1>2, <1>3 DEF EarnedInv, TaskKinds
<1>12. Earned(status', task', stored')
  <2>. SUFFICES ASSUME NEW j \in Tasks, status'[j] = "SUCCESS"
                PROVE  task'[j].kind \in {"cleanup", "restore"} \/ HasStored(stored', j)
    BY DEF Earned
  <2>1. CASE j = k
    BY <1>4, <1>6, <1>9, <1>11, <2>1 DEF HasStored
  <2>2. CASE j # k
    BY <1>1, <1>4, <1>6, <2>2 DEF EarnedInv, Earned, HasStored
  <2>. QED
    BY <2>1, <2>2
<1>13. ASSUME NEW j \in Tasks
       PROVE  /\ task'[j].at \in {"put", "load"} => Earned(task'[j].dump.status, task', stored')
              /\ task'[j].kind = "backup" /\ task'[j].at = "succeeded" => HasStored(stored', j)
              /\ (~restored'.ever /\ task'[j].at \in {"acked", "given up"}) =>
                    (status'[j] = "SUCCESS" <=> task'[j].at = "acked")
  <2>1. CASE j = k
    <3>1. task'[j].at \in {"queued", "acked", "given up"} /\ status'[j] = new
          /\ (task'[j].at = "acked" => new = "SUCCESS")
          /\ (task'[j].at = "given up" => new # "SUCCESS")
      BY <1>5, <1>6, <2>1
    <3>. QED
      BY <3>1
  <2>2. CASE j # k
    BY <1>1, <1>4, <1>6, <1>10, <2>2 DEF EarnedInv, HasStored
  <2>. QED
    BY <2>1, <2>2
<1>14. EarnedInv'
  BY <1>1, <1>4, <1>10, <1>12, <1>13 DEF EarnedInv
<1>. QED
  BY <1>7, <1>8, <1>14 DEF TasksInv

\* The dump replaces the database.
LEMMA PgRestoreKeeps ==
    ASSUME TasksInv, NEW k \in Tasks, PgRestore(k)
    PROVE  /\ TasksInv'
           /\ files' \in FileTable /\ lastFile' \in 0..MaxFiles
<1>1. BackupTypes /\ RecentInv /\ EarnedInv
  BY DEF TasksInv
<1>. DEFINE s == task[k]
            t == [kind |-> "restore", at |-> "succeeded"]
            r == [version |-> s.dump.version, needed |-> s.needed, ever |-> TRUE]
<1>2. s \in Loading /\ RecentTask(s) /\ s.at = "load"
  BY <1>1, ExecutionOf DEF PgRestore, BackupTypes, RecentInv
<1>3. /\ s.dump \in Dumps /\ s.kind = "restore" /\ s.needed \in Nat
      /\ s.dump.version >= s.needed /\ Earned(s.dump.status, task, stored)
  BY <1>1, <1>2 DEF Loading, RecentTask, EarnedInv
<1>4. /\ s.dump.version \in Nat /\ s.dump.status \in Statuses
      /\ s.dump.files \in FileTable /\ s.dump.lastFile \in 0..MaxFiles
  BY <1>3 DEF Dumps
<1>5. /\ files' = s.dump.files /\ lastFile' = s.dump.lastFile /\ status' = s.dump.status
      /\ version' = version + 1 /\ restored' = r
      /\ task' = [task EXCEPT ![k] = t]
      /\ UNCHANGED <<now, atTime, bucket, stored>>
  BY DEF PgRestore, Commits, Step
<1>6. /\ t \in Executions /\ t.at = "succeeded" /\ t.kind = "restore"
      /\ r \in [version : Nat, needed : Nat, ever : BOOLEAN] /\ r.version >= r.needed /\ r.ever
  BY <1>3, <1>4 DEF Executions, Ended, TaskKinds
<1>. HIDE DEF t, r
<1>7. task'[k] = t /\ \A j \in Tasks : j # k => task'[j] = task[j]
  BY <1>1, <1>5 DEF BackupTypes
<1>8. BackupTypes'
  BY <1>1, <1>4, <1>5, <1>6 DEF BackupTypes
<1>9. RecentInv'
  <2>1. restored'.version >= restored'.needed
    BY <1>5, <1>6
  <2>2. Commits(1) /\ UNCHANGED <<now, atTime, bucket>>
    BY DEF PgRestore
  <2>3. task'[k].at \in {"queued", "succeeded", "acked", "given up"}
    BY <1>6, <1>7
  <2>. QED
    BY <1>1, <1>7, <2>1, <2>2, <2>3, MoreRecent
<1>10. \A j \in Tasks : task'[j].kind = task[j].kind
  BY <1>3, <1>6, <1>7
<1>11. \A st : Earned(st, task, stored) => Earned(st, task', stored')
  BY <1>5, <1>10 DEF Earned
<1>12. ASSUME NEW j \in Tasks
       PROVE  /\ task'[j].at \in {"put", "load"} => Earned(task'[j].dump.status, task', stored')
              /\ task'[j].kind = "backup" /\ task'[j].at = "succeeded" => HasStored(stored', j)
              /\ (~restored'.ever /\ task'[j].at \in {"acked", "given up"}) =>
                    (status'[j] = "SUCCESS" <=> task'[j].at = "acked")
  BY <1>1, <1>5, <1>6, <1>7, <1>11 DEF EarnedInv
<1>13. EarnedInv'
  BY <1>1, <1>3, <1>5, <1>11, <1>12 DEF EarnedInv
<1>. QED
  BY <1>4, <1>5, <1>8, <1>9, <1>13 DEF TasksInv

\* Time passes: what the clock shows next was not yet in any key.
LEMMA TickKeeps ==
    ASSUME TasksInv, Tick
    PROVE  TasksInv'
<1>1. BackupTypes /\ RecentInv /\ EarnedInv
  BY DEF TasksInv
<1>2. /\ now' = now + 1 /\ atTime' = [atTime EXCEPT ![now + 1] = version]
      /\ UNCHANGED <<version, bucket, task, status, restored, stored>>
  BY DEF Tick
<1>3. now \in Nat /\ now' \in Clock /\ now + 1 \in Clock /\ version \in Nat
  BY <1>1, <1>2, BackupsAssumption DEF BackupTypes, Clock, Tick
<1>4. /\ \A t \in Clock : t <= now => atTime'[t] = atTime[t]
      /\ \A t \in Clock : atTime'[t] = version \/ atTime'[t] = atTime[t]
  <2>1. \A t \in Clock : t \in Int /\ (t <= now => t # now + 1)
    BY <1>3 DEF Clock
  <2>. QED
    BY <1>1, <1>2, <2>1 DEF BackupTypes
<1>5. \A t \in Clock : t <= now => t <= now'
  BY <1>2, <1>3 DEF Clock
<1>6. BackupTypes'
  BY <1>1, <1>2, <1>3 DEF BackupTypes
<1>7. \A key \in AllKeys : bucket'[key] # NoDump => Recent(bucket[key], key)'
  BY <1>1, <1>2, <1>4, <1>5, KeysTimed DEF RecentInv, Recent
<1>8. ASSUME NEW k \in Tasks PROVE RecentTask(task[k])'
  <2>1. RecentTask(task[k]) /\ task[k] \in Executions
    BY <1>1 DEF RecentInv, BackupTypes
  <2>2. task[k].at \in {"dump", "put", "get"} => KeyTimestamp(task[k].key) \in Clock
    BY <2>1, ExecutionOf, KeysTimed DEF Dumping, Putting, Getting
  <2>. QED
    BY <1>2, <1>4, <1>5, <2>1, <2>2 DEF RecentTask, Recent
<1>9. \A t \in Clock : atTime'[t] <= version'
  BY <1>1, <1>2, <1>3, <1>4 DEF RecentInv
<1>10. RecentInv'
  BY <1>1, <1>2, <1>7, <1>8, <1>9 DEF RecentInv
<1>11. EarnedInv'
  BY <1>1, <1>2 DEF EarnedInv
<1>. QED
  BY <1>6, <1>10, <1>11 DEF TasksInv

-----------------------------------------------------------------------------
(***************************************************************************)
(* The inductive invariant, and what follows from it.                      *)
(***************************************************************************)
BackupsInv == FileTypes /\ PathInv /\ TasksInv

LEMMA InitBackups == Init => BackupsInv
<1>. SUFFICES ASSUME Init PROVE BackupsInv
  OBVIOUS
<1>1. FilesInit /\ FileTypes
  BY FileTypesInit DEF Init
<1>2. PathInv
  BY <1>1, FilesAssumption DEF FilesInit, PathInv, Orderly, Idle, NoFile
<1>3. status \in Statuses /\ Dump \in Dumps /\ Dump.version = 0 /\ Dump.status = status
  BY <1>1 DEF Init, Statuses, Dump, Dumps, FileTypes
<1>4. \A key \in AllKeys : (bucket[key] = Dump /\ KeyTimestamp(key) = 0) \/ bucket[key] = NoDump
  BY DEF Init, BackupKey, KeyTimestamp
<1>5. 0 \in Clock
  BY BackupsAssumption DEF Clock
<1>6. BackupTypes
  <2>1. bucket \in [AllKeys -> Dumps \cup {NoDump}]
    <3>. HIDE DEF Dump, NoDump
    <3>. QED
      BY <1>3 DEF Init
  <2>2. stored \in [Tasks -> [version : Int, since : Nat]]
    BY DEF Init, NeverStored
  <2>3. restored \in [version : Nat, needed : Nat, ever : BOOLEAN]
    BY DEF Init, NeverRestored
  <2>4. task \in [Tasks -> Executions]
    BY DEF Init, Executions
  <2>5. now \in Clock /\ version \in Nat /\ atTime \in [Clock -> Nat]
    BY <1>5 DEF Init
  <2>. QED
    BY <1>3, <2>1, <2>2, <2>3, <2>4, <2>5 DEF BackupTypes
<1>7. \A k \in Tasks : task[k].at = "unsent" /\ task[k].kind = "none"
  BY DEF Init, Unsent
<1>8. \A t \in Clock : atTime[t] = 0
  BY DEF Init
<1>9. RecentInv
  <2>1. \A key \in AllKeys : bucket[key] # NoDump => Recent(bucket[key], key)
    <3>. SUFFICES ASSUME NEW key \in AllKeys, bucket[key] # NoDump PROVE Recent(bucket[key], key)
      OBVIOUS
    <3>1. bucket[key].version = 0 /\ KeyTimestamp(key) = 0
      BY <1>3, <1>4
    <3>. QED
      BY <1>5, <1>8, <3>1 DEF Init, Recent
  <2>2. restored.version >= restored.needed
    BY DEF Init, NeverRestored
  <2>3. \A k \in Tasks : RecentTask(task[k])
    BY <1>7 DEF RecentTask
  <2>4. \A t \in Clock : atTime[t] <= version
    BY <1>8 DEF Init
  <2>. QED
    BY <2>1, <2>2, <2>3, <2>4 DEF RecentInv
<1>10. EarnedInv
  <2>1. Earned(status, task, stored)
    BY BackupsAssumption DEF Init, Earned
  <2>2. \A key \in AllKeys : bucket[key] # NoDump => Earned(bucket[key].status, task, stored)
    BY <1>3, <1>4, <2>1
  <2>. QED
    BY <1>7, <2>1, <2>2 DEF EarnedInv
<1>. QED
  BY <1>1, <1>2, <1>6, <1>9, <1>10 DEF BackupsInv, TasksInv

\* The steps that leave the files alone.
LEMMA FilesUntouched ==
    ASSUME FileTypes, PathInv, UNCHANGED fileVars
    PROVE  FileTypes' /\ PathInv'
<1>1. FileTypes'
  BY DEF fileVars, FileTypes
<1>2. PathInv'
  BY DEF fileVars, PathInv, Orderly, Kept
<1>. QED
  BY <1>1, <1>2

\* One execution's step, by the function that takes it.
LEMMA TaskKeeps ==
    ASSUME BackupsInv, NEW k \in Tasks,
           \/ \E kind \in {"backup", "cleanup", "restore"} : Send(k, kind)
           \/ StartBackup(k) \/ PgDump(k) \/ PgDumpFails(k)
           \/ PutObject(k) \/ PutObjectUnanswered(k) \/ S3Fails(k)
           \/ StartCleanup(k) \/ DeleteObject(k)
           \/ StartRestore(k) \/ GetObject(k) \/ PgRestore(k) \/ PgRestoreNothing(k)
           \/ OnSuccess(k) \/ OnFailure(k) \/ UpdateStatusRaises(k) \/ Crash(k)
    PROVE  BackupsInv'
<1>. USE DEF BackupsInv
<1>1. ASSUME NEW kind \in {"backup", "cleanup", "restore"}, Send(k, kind) PROVE BackupsInv'
  <2>1. UNCHANGED fileVars
    BY <1>1 DEF Send
  <2>2. kind \in TaskKinds
    BY <1>1 DEF TaskKinds
  <2>3. TasksInv'
    BY <1>1, <2>2, SendKeeps
  <2>. QED
    BY <2>1, <2>3, FilesUntouched
<1>2. CASE StartBackup(k) \/ PgDump(k) \/ PgDumpFails(k)
  <2>1. UNCHANGED fileVars
    BY <1>2 DEF StartBackup, PgDump, PgDumpFails
  <2>. QED
    BY <1>2, <2>1, FilesUntouched, BackupKeeps
<1>3. CASE PutObject(k) \/ PutObjectUnanswered(k)
  <2>1. UNCHANGED fileVars
    BY <1>3 DEF PutObject, PutObjectUnanswered, PutDump
  <2>. QED
    BY <1>3, <2>1, FilesUntouched, PutObjectKeeps
<1>4. CASE StartCleanup(k) \/ DeleteObject(k)
  <2>1. UNCHANGED fileVars
    BY <1>4 DEF StartCleanup, DeleteObject
  <2>. QED
    BY <1>4, <2>1, FilesUntouched, StartCleanupKeeps, DeleteObjectKeeps
<1>5. CASE StartRestore(k) \/ GetObject(k) \/ PgRestoreNothing(k)
  <2>1. UNCHANGED fileVars
    BY <1>5 DEF StartRestore, GetObject, PgRestoreNothing
  <2>. QED
    BY <1>5, <2>1, FilesUntouched, StartRestoreKeeps, GetObjectKeeps, PgRestoreNothingKeeps
<1>6. CASE PgRestore(k)
  <2>1. TasksInv' /\ files' \in FileTable /\ lastFile' \in 0..MaxFiles
    BY <1>6, PgRestoreKeeps
  <2>2. FileTypes'
    BY <1>6, <2>1 DEF PgRestore, FileTypes
  <2>3. PathInv'
    BY <1>6 DEF PgRestore, PathInv, Paths
  <2>. QED
    BY <2>1, <2>2, <2>3
<1>7. CASE OnSuccess(k) \/ OnFailure(k)
  <2>1. UNCHANGED fileVars
    BY <1>7 DEF OnSuccess, OnFailure, UpdateTaskStatus
  <2>. QED
    BY <1>7, <2>1, FilesUntouched, StatusKeeps
<1>8. CASE Crash(k)
  <2>1. UNCHANGED fileVars
    BY <1>8 DEF Crash
  <2>. QED
    BY <1>8, <2>1, FilesUntouched, CrashKeeps
<1>9. CASE S3Fails(k) \/ UpdateStatusRaises(k)
  <2>1. UNCHANGED fileVars
    BY <1>9 DEF S3Fails, UpdateStatusRaises
  <2>. QED
    BY <1>9, <2>1, FilesUntouched, FailureKeeps
<1>. QED
  BY <1>1, <1>2, <1>3, <1>4, <1>5, <1>6, <1>7, <1>8, <1>9

LEMMA NextBackups == BackupsInv /\ [Next]_vars => BackupsInv'
<1>. SUFFICES ASSUME BackupsInv, [Next]_vars PROVE BackupsInv'
  OBVIOUS
<1>0. FileTypes /\ PathInv /\ TasksInv
  BY DEF BackupsInv
<1>1. CASE /\ FileCommits
           /\ Commits(1)
           /\ UNCHANGED <<now, atTime, bucket, task, status, faults, restored, stored>>
  <2>1. FileTypes' /\ PathInv'
    BY <1>0, <1>1, FileCommitTypes, FileStepPaths
  <2>2. TasksInv'
    BY <1>0, <1>1, FileCommitKeeps
  <2>. QED
    BY <2>1, <2>2 DEF BackupsInv
<1>2. CASE FileSteps /\ UNCHANGED backupVars
  <2>1. FileTypes' /\ PathInv'
    BY <1>0, <1>2, FileStepTypes, FileStepPaths
  <2>2. TasksInv'
    BY <1>0, <1>2 DEF backupVars, TasksInv, BackupTypes, RecentInv, RecentTask, Recent, EarnedInv
  <2>. QED
    BY <2>1, <2>2 DEF BackupsInv
<1>3. ASSUME NEW k \in Tasks,
             \/ \E kind \in {"backup", "cleanup", "restore"} : Send(k, kind)
             \/ StartBackup(k) \/ PgDump(k) \/ PgDumpFails(k)
             \/ PutObject(k) \/ PutObjectUnanswered(k) \/ S3Fails(k)
             \/ StartCleanup(k) \/ DeleteObject(k)
             \/ StartRestore(k) \/ GetObject(k) \/ PgRestore(k) \/ PgRestoreNothing(k)
             \/ OnSuccess(k) \/ OnFailure(k) \/ UpdateStatusRaises(k) \/ Crash(k)
      PROVE  BackupsInv'
  BY <1>3, TaskKeeps
<1>4. CASE Tick
  <2>1. UNCHANGED fileVars
    BY <1>4 DEF Tick
  <2>. QED
    BY <1>0, <1>4, <2>1, FilesUntouched, TickKeeps DEF BackupsInv
<1>5. CASE UNCHANGED vars
  <2>1. UNCHANGED fileVars /\ UNCHANGED backupVars
    BY <1>5 DEF vars
  <2>2. TasksInv'
    BY <1>0, <2>1 DEF backupVars, TasksInv, BackupTypes, RecentInv, RecentTask, Recent, EarnedInv
  <2>. QED
    BY <1>0, <2>1, <2>2, FilesUntouched DEF BackupsInv
<1>. QED
  BY <1>1, <1>2, <1>3, <1>4, <1>5 DEF Next

\* The types, the order of each path's requests, and what the dumps and the
\* task rows stand for, are kept by every step of the endpoints and the tasks.
THEOREM BackupsInvariant == Spec => []BackupsInv
BY InitBackups, NextBackups, PTL DEF Spec

\* restore_backup without a key never loads a dump older than what the newest
\* key it listed promises: _backup_key is called before pg_dump.
THEOREM RestoresRecent == Spec => []RestoreIsRecent
<1>1. BackupsInv => RestoreIsRecent
  BY DEF BackupsInv, TasksInv, RecentInv, RestoreIsRecent
<1>. QED
  BY <1>1, BackupsInvariant, PTL

\* A backup whose task_status row is a SUCCESS has stored a whole dump, with
\* any number of crashes, redeliveries, restored rows and status updates that
\* raised; on_success and on_failure leave the outcome of the last execution
\* when their update does not raise.
THEOREM SuccessIsEarned == Spec => []SuccessMeansStored
<1>1. BackupsInv => SuccessMeansStored
  BY DEF BackupsInv, TasksInv, EarnedInv, Earned, HasStored, SuccessMeansStored, GetTaskStatus
<1>. QED
  BY <1>1, BackupsInvariant, PTL

\* list_files shows no row whose object download_file would miss, apart from
\* overlapping requests, cut-off deletions and restored rows.
THEOREM RowsHaveContent == Spec => []RowHasContent
<1>1. BackupsInv => RowHasContent
  <2>. SUFFICES ASSUME BackupsInv, NEW r \in ListFiles, r.storage_path \notin overlapped,
                       \A w \in Workers : sess[w].path # r.storage_path
                PROVE  /\ Download(r.storage_path) # None
                       /\ r.storage_path \notin clobbered =>
                             Sha256(Download(r.storage_path)) = r.checksum_sha256
    BY DEF RowHasContent
  <2>1. PICK i \in FileIds : Exists(i) /\ r = ToResponse(files[i])
    BY DEF ListFiles, GetMulti
  <2>2. r.storage_path = files[i].path /\ r.checksum_sha256 = files[i].checksum
    BY <2>1 DEF ToResponse
  <2>3. files[i].path \in Names
    BY <2>1 DEF BackupsInv, FileTypes, FileTable, FileRow, NoFile, Exists
  <2>4. Kept(files[i].path, i)
    BY <2>2, <2>3 DEF BackupsInv, PathInv, Orderly
  <2>. QED
    BY <2>2, <2>4 DEF Kept, Download
<1>. QED
  BY <1>1, BackupsInvariant, PTL

=============================================================================
