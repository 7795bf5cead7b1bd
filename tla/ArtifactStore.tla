---------------------------- MODULE ArtifactStore ----------------------------
(***************************************************************************)
(* The ways into the artifact store, all through ingest_stream: uploads,   *)
(* local imports, camera snapshots, transformed meshes and, through        *)
(* ingest_existing_file, the slicer's output.  Bytes go to a temporary     *)
(* file, are inspected as what their name says, moved to the path of their *)
(* digest and recorded in a row of the database.  Uploads run in the       *)
(* threads of the API's pool, the rest on the event loop, so any of their  *)
(* steps interleave; the process may be killed between any two, and the    *)
(* disk may refuse to write or to move a file (it does remove one).  The   *)
(* database is SQLite: a SELECT sees the committed rows, the first INSERT  *)
(* of a session takes the write lock, and its commit or rollback gives it  *)
(* back.                                                                   *)
(***************************************************************************)
EXTENDS ArchivePolicy

CONSTANTS
  Uploads,   \* calls of ingest_stream
  Contents,  \* the digests they carry
  BytesOf,   \* the bytes of each
  Refused,   \* contents that are empty or exceed max_bytes
  Requests,  \* what is uploaded: a content, a kind, from a file that is then
             \* removed or not, and the artifact it was transformed from
  Crashes,   \* whether the process may be killed
  NoKind, NoUpload, NoContent

(* What inspect_path accepts as what.                                      *)
Valid == {v \in Contents \X Kinds : inspect_path(BytesOf[v[1]], v[2])}

ASSUME ConstantsAssumption ==
  /\ BytesOf \in [Contents -> Bytes]
  /\ Refused \subseteq Contents
  /\ Requests \subseteq
       [content : Contents, kind : Kinds, file : BOOLEAN, of : Contents \cup {NoContent}]
  /\ Crashes \in BOOLEAN
  /\ NoKind \notin Kinds
  /\ NoUpload \notin Uploads
  /\ NoContent \notin Contents

VARIABLES
  request,   \* what each upload carries
  pc,        \* where each upload is
  temporary, \* its temporary file
  source,    \* the files given to ingest_existing_file that still exist
  blobs,     \* digests whose file exists
  row,       \* committed rows: the kind of the artifact
  writer     \* the session that holds the write lock, its row uncommitted

vars == <<request, pc, temporary, source, blobs, row, writer>>

Working == {"reading", "written", "inspected", "absent", "placed", "missing", "found", "inserted"}
Raised  == {"refused", "unplaced", "failed", "conflict", "busy"}
Ended   == Raised \cup {"stored", "lost"}

TypeOK ==
  /\ request \in [Uploads -> Requests]
  /\ pc \in [Uploads -> {"idle"} \cup Working \cup Ended]
  /\ temporary \in [Uploads -> {"none", "partial", "whole"}]
  /\ source \subseteq Uploads
  /\ blobs \subseteq Contents
  /\ row \in [Contents -> Kinds \cup {NoKind}]
  /\ writer \in Uploads \cup {NoUpload}

Content(u) == request[u].content
Kind(u)    == request[u].kind

Init ==
  /\ request \in [Uploads -> Requests]
  /\ pc = [u \in Uploads |-> "idle"]
  /\ temporary = [u \in Uploads |-> "none"]
  /\ source = {u \in Uploads : request[u].file}
  /\ blobs = {}
  /\ row = [c \in Contents |-> NoKind]
  /\ writer = NoUpload

Goto(u, from, to) == pc[u] = from /\ pc' = [pc EXCEPT ![u] = to]
Temporary(u, is) == temporary' = [temporary EXCEPT ![u] = is]

(* ArtifactStore.get: a row, and its file *)
Available(c) == row[c] # NoKind /\ c \in blobs

(* NamedTemporaryFile(delete=False).  transform_stl first loads the mesh   *)
(* that it was asked to transform.                                         *)
Begin(u) ==
  /\ request[u].of # NoContent => Available(request[u].of) /\ row[request[u].of] = "stl"
  /\ Goto(u, "idle", "reading")
  /\ Temporary(u, "partial")
  /\ UNCHANGED <<request, source, blobs, row, writer>>

Read(u) ==
  /\ Content(u) \notin Refused
  /\ Goto(u, "reading", "written")
  /\ Temporary(u, "whole")
  /\ UNCHANGED <<request, source, blobs, row, writer>>

(* No such mesh, no plain file name, an import that is disabled or leaves  *)
(* the import root, a camera that does not answer.                         *)
Refuse(u) ==
  /\ Goto(u, "idle", "refused")
  /\ UNCHANGED <<request, temporary, source, blobs, row, writer>>

(* too large, empty, or an error of the disk *)
ReadFails(u) ==
  /\ Goto(u, "reading", "refused")
  /\ Temporary(u, "none")
  /\ UNCHANGED <<request, source, blobs, row, writer>>

(* inspect_path, on the bytes as what their name says *)
Acceptable(u) == <<Content(u), Kind(u)>> \in Valid

Inspect(u) ==
  /\ Acceptable(u)
  /\ Goto(u, "written", "inspected")
  /\ UNCHANGED <<request, temporary, source, blobs, row, writer>>

(* A bug: the refused upload leaves its temporary file. *)
RejectAndLeave(u) ==
  /\ ~Acceptable(u)
  /\ Goto(u, "written", "refused")
  /\ UNCHANGED <<request, temporary, source, blobs, row, writer>>

Reject(u) ==
  /\ ~Acceptable(u)
  /\ Goto(u, "written", "refused")
  /\ Temporary(u, "none")
  /\ UNCHANGED <<request, source, blobs, row, writer>>

(* A bug: the file, not the row, tells that the artifact is recorded. *)
ReuseRecord(u) ==
  /\ Content(u) \in blobs
  /\ Goto(u, "inspected", "found")
  /\ Temporary(u, "none")
  /\ UNCHANGED <<request, source, blobs, row, writer>>

(* destination.exists(): keep the file that is there ... *)
Reuse(u) ==
  /\ Content(u) \in blobs
  /\ Goto(u, "inspected", "placed")
  /\ Temporary(u, "none")
  /\ UNCHANGED <<request, source, blobs, row, writer>>

(* ... or os.replace, in a step of its own: the file may have come since. *)
Absent(u) ==
  /\ Content(u) \notin blobs
  /\ Goto(u, "inspected", "absent")
  /\ UNCHANGED <<request, temporary, source, blobs, row, writer>>

Replace(u) ==
  /\ Goto(u, "absent", "placed")
  /\ blobs' = blobs \cup {Content(u)}
  /\ Temporary(u, "none")
  /\ UNCHANGED <<request, source, row, writer>>

(* An OSError of mkdir, chmod, exists, unlink or os.replace is not caught: *)
(* the temporary file stays.  destination.chmod fails after it is gone.    *)
PlaceFails(u) ==
  /\ \/ Goto(u, "inspected", "unplaced")
     \/ Goto(u, "absent", "unplaced")
     \/ Goto(u, "placed", "failed")
  /\ UNCHANGED <<request, temporary, source, blobs, row, writer>>

(* session.get(Artifact, artifact_id) *)
Recorded(u) == row[Content(u)] # NoKind

Find(u) ==
  /\ Recorded(u)
  /\ Goto(u, "placed", "found")
  /\ UNCHANGED <<request, temporary, source, blobs, row, writer>>

Miss(u) ==
  /\ ~Recorded(u)
  /\ Goto(u, "placed", "missing")
  /\ UNCHANGED <<request, temporary, source, blobs, row, writer>>

(* session.flush(): the row is looked at again, by the primary key *)
Insert(u) ==
  /\ writer = NoUpload
  /\ row[Content(u)] = NoKind
  /\ Goto(u, "missing", "inserted")
  /\ writer' = u
  /\ UNCHANGED <<request, temporary, source, blobs, row>>

(* A bug: the conflict is resolved in favour of the later row. *)
Overwrite(u) ==
  /\ writer = NoUpload
  /\ row[Content(u)] # NoKind
  /\ Goto(u, "missing", "stored")
  /\ row' = [row EXCEPT ![Content(u)] = Kind(u)]
  /\ UNCHANGED <<request, temporary, source, blobs, writer>>

(* IntegrityError, which nothing handles: rolled back and raised *)
Conflict(u) ==
  /\ writer = NoUpload
  /\ row[Content(u)] # NoKind
  /\ Goto(u, "missing", "conflict")
  /\ UNCHANGED <<request, temporary, source, blobs, row, writer>>

(* "database is locked" after the driver's five seconds *)
Locked(u) ==
  /\ writer # NoUpload
  /\ Goto(u, "missing", "busy")
  /\ UNCHANGED <<request, temporary, source, blobs, row, writer>>

(* A bug: the file is unlinked whether it was ingested or not. *)
UnlinkAnyway(u) ==
  /\ pc[u] \in {"found", "inserted"} \cup Raised
  /\ u \in source
  /\ source' = source \ {u}
  /\ UNCHANGED <<request, pc, temporary, blobs, row, writer>>

(* path.unlink in ingest_existing_file, before its caller commits *)
Unlink(u) ==
  /\ pc[u] \in {"found", "inserted"}
  /\ u \in source
  /\ source' = source \ {u}
  /\ UNCHANGED <<request, pc, temporary, blobs, row, writer>>

(* Database.session leaves its block *)
Commit(u) ==
  /\ u \notin source
  /\ \/ Goto(u, "found", "stored") /\ UNCHANGED <<row, writer>>
     \/ /\ Goto(u, "inserted", "stored")
        /\ row' = [row EXCEPT ![Content(u)] = Kind(u)]
        /\ writer' = NoUpload
  /\ UNCHANGED <<request, temporary, source, blobs>>

(* A bug: the rollback also removes the file this upload may have placed. *)
RollbackWithFile(u) ==
  /\ Goto(u, "inserted", "failed")
  /\ writer' = NoUpload
  /\ blobs' = blobs \ {Content(u)}
  /\ UNCHANGED <<request, temporary, source, row>>

(* an error between the flush and the commit, the commit's own included *)
Rollback(u) ==
  /\ Goto(u, "inserted", "failed")
  /\ writer' = NoUpload
  /\ UNCHANGED <<request, temporary, source, blobs, row>>

(* The process is killed: files stay, what was not committed is gone. *)
Crash ==
  /\ Crashes
  /\ \E u \in Uploads : pc[u] \in Working
  /\ pc' = [u \in Uploads |-> IF pc[u] \in Working THEN "lost" ELSE pc[u]]
  /\ writer' = NoUpload
  /\ UNCHANGED <<request, temporary, source, blobs, row>>

Step(u) ==
  \/ Begin(u) \/ Refuse(u) \/ Read(u) \/ ReadFails(u) \/ Inspect(u) \/ Reject(u)
  \/ Reuse(u) \/ Absent(u) \/ Replace(u) \/ PlaceFails(u) \/ Find(u) \/ Miss(u)
  \/ Insert(u) \/ Conflict(u) \/ Locked(u)
  \/ Unlink(u) \/ Commit(u) \/ Rollback(u)

Next == Crash \/ \E u \in Uploads : Step(u)

Spec == Init /\ [][Next]_vars

-----------------------------------------------------------------------------
(* A row promises its file: ArtifactStore.get, the printer upload and the  *)
(* slicer open the path of a row they found, whatever raced or crashed.    *)
RowHasBlob == \A c \in Contents : row[c] # NoKind => c \in blobs

(* The kind a row gives an artifact is one its bytes were inspected as:    *)
(* the preparation sends a "gcode-3mf" to the printer without slicing it.  *)
RowWasInspected == \A c \in Contents : row[c] # NoKind => <<c, row[c]>> \in Valid

(* Whatever was uploaded under whatever names, an artifact's bytes are fit *)
(* for what its kind is used for: unpacking, slicing, printing.            *)
RowsAreUsable == \A c \in Contents : row[c] # NoKind => Usable(BytesOf[c], row[c])

(* An upload that was answered with an artifact left it in the database    *)
(* and on the disk, also when it relied on another upload's file or row.   *)
StoredForGood ==
  \A u \in Uploads : pc[u] = "stored" => row[Content(u)] # NoKind /\ Content(u) \in blobs

(* Only a crash, or an error of the file system while the file is moved to *)
(* its place, leaves a temporary file in the artifact root: every other    *)
(* end of an upload has removed it.                                        *)
NoTemporaryLeft ==
  \A u \in Uploads : pc[u] \in Ended \ {"lost", "unplaced"} => temporary[u] = "none"

(* The slicer's output is removed only when the store has its bytes.       *)
SourceKept ==
  \A u \in Uploads : request[u].file => u \in source \/ Content(u) \in blobs

(* "immutable": a row, once committed, is never changed by another upload. *)
RowsAreImmutable == [][\A c \in Contents : row[c] # NoKind => row'[c] = row[c]]_vars

(* "Duplicate content reuses a single immutable object": it is not an      *)
(* error.                                                                  *)
DuplicatesAreReused == \A u \in Uploads : pc[u] # "conflict"

-----------------------------------------------------------------------------
(* What an upload's place says of the store, and who holds the lock.       *)
Placed == \A u \in Uploads :
  pc[u] \in {"placed", "missing", "found", "inserted", "stored"} => Content(u) \in blobs
Inspected == \A u \in Uploads :
  pc[u] \in {"inspected", "absent", "placed", "missing", "inserted"} => Acceptable(u)
Found == \A u \in Uploads : pc[u] \in {"found", "stored"} => row[Content(u)] # NoKind
WriterInserted ==
  \A u \in Uploads : pc[u] = "inserted" <=> writer = u
WriterIsFirst == writer # NoUpload => row[Content(writer)] = NoKind
Tidy == \A u \in Uploads :
  pc[u] \in {"idle", "placed", "missing", "found", "inserted", "stored"} \cup (Raised \ {"unplaced"})
    => temporary[u] = "none"

(* The inductive invariant: what the proofs carry from step to step.       *)
IndInv ==
  /\ TypeOK
  /\ RowHasBlob /\ RowWasInspected /\ SourceKept
  /\ Placed /\ Inspected /\ Found /\ WriterInserted /\ WriterIsFirst /\ Tidy
=============================================================================
