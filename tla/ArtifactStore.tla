--------------------------- MODULE ArtifactStore ----------------------------
(***************************************************************************)
(* The artifact store of an agent (crates/bcp-core/src/artifact.rs) with   *)
(* the handlers that use it: uploads, deletions, listings and the cleanup  *)
(* loop run concurrently and each is a series of SQL statements, which the *)
(* lock of the connection makes atomic, and of file operations in between. *)
(* Rows and files survive a crash of the agent; handlers do not.           *)
(*                                                                         *)
(* The clock is in ticks of one second.                                    *)
(***************************************************************************)
EXTENDS Integers

CONSTANTS
  Artifact,       \* artifact ids, one for each upload
  RequestedTtl,   \* the ttl_seconds clients ask for
  MaxTtl,         \* config.max_ttl_seconds
  Undeletable,    \* artifacts whose file the disk may refuse to remove
  MaxClock,       \* bound: last tick of the clock
  MaxCrashes      \* bound: crashes of the agent

ASSUME StoreAssumption ==
  /\ RequestedTtl \subseteq Int
  /\ MaxTtl \in Nat /\ MaxClock \in Nat \ {0} /\ MaxCrashes \in Nat
  /\ Undeletable \subseteq Artifact

VARIABLES
  rows,      \* status column, "None" before the row is inserted
  expires,   \* expires_at column
  tmp,       \* artifacts with a file in tmp/
  files,     \* artifacts with a file in files/
  upload,    \* where the upload handler of each artifact is
  deletion,  \* where the last deletion of each artifact is
  cleanup,   \* where the cleanup loop is, and the artifacts it has yet to visit
  clock,
  crashes

table   == <<rows, expires>>
disk    == <<tmp, files>>
workers == <<upload, deletion, cleanup>>
vars    == <<rows, expires, tmp, files, upload, deletion, cleanup, clock, crashes>>

Status == {"None", "Uploading", "Available", "Expired", "Deleted", "Failed"}

UploadPhase == {"none", "reserved", "writing", "failing", "renamed", "done", "gone"}

\* "done" is a deletion that has answered, "gone" one that died half-way.
DeletionPhase == {"none", "found", "removed", "done", "gone"}

Sleeping == [phase |-> "idle", todo |-> {}]

Init ==
  /\ rows = [a \in Artifact |-> "None"]
  /\ expires = [a \in Artifact |-> 0]
  /\ tmp = {}
  /\ files = {}
  /\ upload = [a \in Artifact |-> "none"]
  /\ deletion = [a \in Artifact |-> "none"]
  /\ cleanup = Sleeping
  /\ clock = 1
  /\ crashes = 0

-----------------------------------------------------------------------------
(* upload_artifact *)

Reserve(a, ttl) ==
  /\ upload[a] = "none"
  /\ 0 < ttl /\ ttl <= MaxTtl
  /\ rows' = [rows EXCEPT ![a] = "Uploading"]
  /\ expires' = [expires EXCEPT ![a] = clock + ttl]
  /\ upload' = [upload EXCEPT ![a] = "reserved"]
  /\ UNCHANGED <<disk, deletion, cleanup, clock, crashes>>

CreateTemp(a) ==
  /\ upload[a] = "reserved"
  /\ tmp' = tmp \cup {a}
  /\ upload' = [upload EXCEPT ![a] = "writing"]
  /\ UNCHANGED <<table, files, deletion, cleanup, clock, crashes>>

\* The temporary file cannot be created, or the stream breaks: the handler
\* returns and leaves row and file as they are.
AbortUpload(a) ==
  /\ upload[a] \in {"reserved", "writing"}
  /\ upload' = [upload EXCEPT ![a] = "gone"]
  /\ UNCHANGED <<table, disk, deletion, cleanup, clock, crashes>>

\* A chunk cannot be written, or a second metadata message arrives.
FailUploadFile(a) ==
  /\ upload[a] = "writing"
  /\ tmp' \in {tmp \ {a}, tmp \ ({a} \ Undeletable)}
  /\ upload' = [upload EXCEPT ![a] = "failing"]
  /\ UNCHANGED <<table, files, deletion, cleanup, clock, crashes>>

FailUploadRow(a) ==
  /\ upload[a] = "failing"
  /\ rows' = [rows EXCEPT ![a] = "Failed"]
  /\ upload' = [upload EXCEPT ![a] = "gone"]
  /\ UNCHANGED <<expires, disk, deletion, cleanup, clock, crashes>>

\* commit: the file is moved first, and then the row is made available whatever
\* its status has become.
CommitFile(a) ==
  /\ upload[a] = "writing"
  /\ tmp' = tmp \ {a}
  /\ files' = files \cup {a}
  /\ upload' = [upload EXCEPT ![a] = "renamed"]
  /\ UNCHANGED <<table, deletion, cleanup, clock, crashes>>

\* Mutant: the status is not updated.
MutCommitRow(a) ==
  /\ upload[a] = "renamed"
  /\ upload' = [upload EXCEPT ![a] = "done"]
  /\ UNCHANGED <<table, disk, deletion, cleanup, clock, crashes>>

CommitRow(a) ==
  /\ upload[a] = "renamed"
  /\ rows' = [rows EXCEPT ![a] = "Available"]
  /\ upload' = [upload EXCEPT ![a] = "done"]
  /\ UNCHANGED <<expires, disk, deletion, cleanup, clock, crashes>>

-----------------------------------------------------------------------------
(* delete_artifact *)

DeleteFind(a) ==
  /\ rows[a] # "None"
  /\ deletion[a] \notin {"found", "removed"}
  /\ deletion' = [deletion EXCEPT ![a] = "found"]
  /\ UNCHANGED <<table, disk, upload, cleanup, clock, crashes>>

\* The error of remove_file is ignored.
DeleteFile(a) ==
  /\ deletion[a] = "found"
  /\ files' \in {files \ {a}, files \ ({a} \ Undeletable)}
  /\ deletion' = [deletion EXCEPT ![a] = "removed"]
  /\ UNCHANGED <<table, tmp, upload, cleanup, clock, crashes>>

DeleteRow(a) ==
  /\ deletion[a] = "removed"
  /\ rows' = [rows EXCEPT ![a] = "Deleted"]
  /\ deletion' = [deletion EXCEPT ![a] = "done"]
  /\ UNCHANGED <<expires, disk, upload, cleanup, clock, crashes>>

-----------------------------------------------------------------------------
(* download_artifact *)

\* A download changes nothing.  It needs a row, whatever its status, and the file.
Downloadable(a) ==
  /\ rows[a] # "None"
  /\ a \in files

-----------------------------------------------------------------------------
(* list and cleanup_expired *)

\* Mutant: a row that has a second left counts as expired.
MutMarked == [a \in Artifact |->
  IF expires[a] <= clock + 1 /\ rows[a] \in {"Available", "Uploading"}
  THEN "Expired" ELSE rows[a]]

\* Mutant: rows of finished uploads are left alone.
MutMarkedUploading == [a \in Artifact |->
  IF expires[a] <= clock /\ rows[a] = "Uploading" THEN "Expired" ELSE rows[a]]

Marked == [a \in Artifact |->
  IF expires[a] <= clock /\ rows[a] \in {"Available", "Uploading"}
  THEN "Expired" ELSE rows[a]]

\* list_local_artifacts marks what has expired before it reads.
ListArtifacts ==
  /\ rows' = Marked
  /\ UNCHANGED <<expires, disk, workers, clock, crashes>>

CleanupMark ==
  /\ cleanup.phase = "idle"
  /\ rows' = Marked
  /\ cleanup' = [phase |-> "marked", todo |-> {}]
  /\ UNCHANGED <<expires, disk, upload, deletion, clock, crashes>>

CleanupList ==
  /\ cleanup.phase = "marked"
  /\ cleanup' = [phase |-> "listed", todo |-> {a \in Artifact : rows[a] = "Expired"}]
  /\ UNCHANGED <<table, disk, upload, deletion, clock, crashes>>

\* The error of remove_file is ignored here too.
CleanupFile(a) ==
  /\ cleanup.phase = "listed"
  /\ a \in cleanup.todo
  /\ files' \in {files \ {a}, files \ ({a} \ Undeletable)}
  /\ cleanup' = [phase |-> "removed", todo |-> cleanup.todo, current |-> a]
  /\ UNCHANGED <<table, tmp, upload, deletion, clock, crashes>>

CleanupRow ==
  /\ cleanup.phase = "removed"
  /\ rows' = [rows EXCEPT ![cleanup.current] = "Deleted"]
  /\ cleanup' = [phase |-> "listed", todo |-> cleanup.todo \ {cleanup.current}]
  /\ UNCHANGED <<expires, disk, upload, deletion, clock, crashes>>

CleanupSleep ==
  /\ cleanup.phase = "listed"
  /\ cleanup.todo = {}
  /\ cleanup' = Sleeping
  /\ UNCHANGED <<table, disk, upload, deletion, clock, crashes>>

Cleanup ==
  \/ CleanupMark \/ CleanupList \/ CleanupRow \/ CleanupSleep
  \/ \E a \in Artifact : CleanupFile(a)

-----------------------------------------------------------------------------

\* The agent dies and comes back: every handler is gone, rows and files stay.
Crash ==
  /\ crashes < MaxCrashes
  /\ crashes' = crashes + 1
  /\ upload' = [a \in Artifact |-> IF upload[a] \in {"none", "done"} THEN upload[a] ELSE "gone"]
  /\ deletion' = [a \in Artifact |->
                    IF deletion[a] \in {"none", "done"} THEN deletion[a] ELSE "gone"]
  /\ cleanup' = Sleeping
  /\ UNCHANGED <<table, disk, clock>>

Tick ==
  /\ clock < MaxClock
  /\ clock' = clock + 1
  /\ UNCHANGED <<table, disk, workers, crashes>>

Next ==
  \/ \E a \in Artifact :
       \/ \E ttl \in RequestedTtl : Reserve(a, ttl)
       \/ CreateTemp(a) \/ AbortUpload(a)
       \/ FailUploadFile(a) \/ FailUploadRow(a)
       \/ CommitFile(a) \/ CommitRow(a)
       \/ DeleteFind(a) \/ DeleteFile(a) \/ DeleteRow(a)
  \/ ListArtifacts
  \/ Cleanup
  \/ Crash
  \/ Tick

Spec == Init /\ [][Next]_vars

\* The cleanup loop never ends while the agent lives.
FairSpec == Spec /\ WF_vars(Cleanup)

-----------------------------------------------------------------------------
(* Correctness. *)

\* Rows, files and the places of the handlers have their types.
TypeOK ==
  /\ rows \in [Artifact -> Status]
  /\ expires \in [Artifact -> Nat]
  /\ tmp \subseteq Artifact /\ files \subseteq Artifact
  /\ upload \in [Artifact -> UploadPhase]
  /\ deletion \in [Artifact -> DeletionPhase]
  /\ cleanup \in [phase : {"idle", "marked", "listed"}, todo : SUBSET Artifact]
                   \cup [phase : {"removed"}, todo : SUBSET Artifact, current : Artifact]
  /\ clock \in 1..MaxClock
  /\ crashes \in 0..MaxCrashes

\* Once the client has its answer, the artifact stays available until it expires
\* or somebody asks for its deletion, and can be downloaded: no cleanup that
\* started earlier, listing, other upload or crash takes it away.
KeptUntilExpiry ==
  \A a \in Artifact :
    (upload[a] = "done" /\ clock < expires[a] /\ deletion[a] = "none")
      => rows[a] = "Available" /\ Downloadable(a)

\* The cleanup loop never touches an artifact before it expires, although it
\* works from a list it made earlier and commits go on meanwhile.
CleanupOnlyExpired ==
  cleanup.phase \in {"listed", "removed"} =>
    \A a \in cleanup.todo : expires[a] <= clock

\* Downloads are served whatever the status of the row, so that an expired
\* artifact goes out of reach is up to the cleanup loop: one that was finished in
\* time and that nobody deletes cannot be downloaded for ever after its deadline,
\* unless the disk refuses to remove it.
ExpiredFileRemoved ==
  \A a \in Artifact \ Undeletable :
    [](upload[a] = "done" /\ clock < expires[a] =>
         (expires[a] <= clock ~> (~Downloadable(a) \/ deletion[a] # "none")))

-----------------------------------------------------------------------------
(* What the design document says and the code does not do. *)

\* docs/artifact-store-design.md: the cleanup scanner deletes expired files.  An
\* upload that nobody deletes and that commits after its deadline, between the two
\* steps in which the cleanup loop removes its file and marks its row, leaves its
\* file under a row that reads Deleted.
LateCommitRemoved ==
  \A a \in Artifact :
    (upload[a] = "done" /\ expires[a] <= clock)
      ~> (a \notin files \/ deletion[a] # "none")
=============================================================================
