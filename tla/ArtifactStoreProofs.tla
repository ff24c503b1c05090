------------------------ MODULE ArtifactStoreProofs -------------------------
(***************************************************************************)
(* Theorems about ArtifactStore, for any set of artifacts, any lifetimes,  *)
(* any files the disk refuses to remove and any number of crashes.         *)
(***************************************************************************)
EXTENDS ArtifactStore, TLAPS

\* A row exists from the reservation of its upload on, whatever becomes of it, and
\* only what has a row is ever deleted.
RowOfUpload ==
  \A a \in Artifact : /\ rows[a] = "None" <=> upload[a] = "none"
                      /\ upload[a] = "none" => deletion[a] = "none"

\* Only what has expired is ever marked so.
ExpiredInTime == \A a \in Artifact : rows[a] = "Expired" => expires[a] <= clock

\* The list of the cleanup loop holds expired artifacts that have a row, so that
\* no reservation can move their deadline; the artifact at hand is one of them.
ListedExpired ==
  /\ cleanup.phase \in {"listed", "removed"} =>
       \A a \in cleanup.todo : expires[a] <= clock /\ upload[a] # "none"
  /\ cleanup.phase = "removed" => cleanup.current \in cleanup.todo

\* From the rename on the file is there, and from the commit on the row is
\* Available, until the deadline passes or a deletion begins.
Kept ==
  \A a \in Artifact :
    (clock < expires[a] /\ deletion[a] = "none") =>
      /\ upload[a] \in {"renamed", "done"} => a \in files
      /\ upload[a] = "done" => rows[a] = "Available"

\* The inductive invariant.
IInv == TypeOK /\ RowOfUpload /\ ExpiredInTime /\ ListedExpired /\ Kept

\* An empty store satisfies it.
LEMMA InitIInv == Init => IInv
<1> SUFFICES ASSUME Init PROVE IInv
  OBVIOUS
<1>1. TypeOK
  BY StoreAssumption DEF Init, TypeOK, Status, UploadPhase, DeletionPhase, Sleeping
<1>2. RowOfUpload /\ ExpiredInTime /\ ListedExpired /\ Kept
  BY DEF Init, RowOfUpload, ExpiredInTime, ListedExpired, Kept, Sleeping
<1> QED
  BY <1>1, <1>2 DEF IInv

\* The steps of an upload.
LEMMA UploadIInv ==
  ASSUME IInv, NEW a \in Artifact,
         \/ \E ttl \in RequestedTtl : Reserve(a, ttl)
         \/ CreateTemp(a) \/ AbortUpload(a)
         \/ FailUploadFile(a) \/ FailUploadRow(a)
         \/ CommitFile(a) \/ CommitRow(a)
  PROVE  IInv'
<1> USE StoreAssumption DEF IInv, table, disk, workers
<1>1. CASE \E ttl \in RequestedTtl : Reserve(a, ttl)
  <2>1. PICK ttl \in RequestedTtl : Reserve(a, ttl)
    BY <1>1
  <2>2. TypeOK'
    BY <2>1 DEF Reserve, TypeOK, Status, UploadPhase
  <2>3. (RowOfUpload /\ ExpiredInTime)'
    BY <2>1 DEF Reserve, TypeOK, RowOfUpload, ExpiredInTime
  <2>4. ListedExpired'
    BY <2>1 DEF Reserve, TypeOK, ListedExpired
  <2>5. Kept'
    BY <2>1 DEF Reserve, TypeOK, Kept
  <2> QED
    BY <2>2, <2>3, <2>4, <2>5
<1>2. CASE CreateTemp(a) \/ AbortUpload(a) \/ FailUploadFile(a)
  <2>1. TypeOK'
    BY <1>2 DEF CreateTemp, AbortUpload, FailUploadFile, TypeOK, UploadPhase
  <2>2. (RowOfUpload /\ ExpiredInTime)'
    BY <1>2 DEF CreateTemp, AbortUpload, FailUploadFile, TypeOK, RowOfUpload, ExpiredInTime
  <2>3. ListedExpired'
    BY <1>2 DEF CreateTemp, AbortUpload, FailUploadFile, TypeOK, ListedExpired
  <2>4. Kept'
    BY <1>2 DEF CreateTemp, AbortUpload, FailUploadFile, TypeOK, Kept
  <2> QED
    BY <2>1, <2>2, <2>3, <2>4
<1>3. CASE FailUploadRow(a) \/ CommitFile(a) \/ CommitRow(a)
  <2>1. TypeOK'
    BY <1>3 DEF FailUploadRow, CommitFile, CommitRow, TypeOK, UploadPhase, Status
  <2>2. (RowOfUpload /\ ExpiredInTime)'
    BY <1>3 DEF FailUploadRow, CommitFile, CommitRow, TypeOK, RowOfUpload, ExpiredInTime
  <2>3. ListedExpired'
    BY <1>3 DEF FailUploadRow, CommitFile, CommitRow, TypeOK, ListedExpired
  <2>4. Kept'
    BY <1>3 DEF FailUploadRow, CommitFile, CommitRow, TypeOK, Kept
  <2> QED
    BY <2>1, <2>2, <2>3, <2>4
<1> QED
  BY <1>1, <1>2, <1>3

\* The steps of a deletion.
LEMMA DeletionIInv ==
  ASSUME IInv, NEW a \in Artifact, DeleteFind(a) \/ DeleteFile(a) \/ DeleteRow(a)
  PROVE  IInv'
<1> USE StoreAssumption DEF IInv, table, disk, workers
<1>1. TypeOK'
  BY DEF DeleteFind, DeleteFile, DeleteRow, TypeOK, DeletionPhase, Status
<1>2. (RowOfUpload /\ ExpiredInTime)'
  BY DEF DeleteFind, DeleteFile, DeleteRow, TypeOK, RowOfUpload, ExpiredInTime
<1>3. ListedExpired'
  BY DEF DeleteFind, DeleteFile, DeleteRow, TypeOK, ListedExpired
<1>4. Kept'
  BY DEF DeleteFind, DeleteFile, DeleteRow, TypeOK, Kept
<1> QED
  BY <1>1, <1>2, <1>3, <1>4

\* Marking expired rows disturbs none that has time left.
LEMMA MarkedFacts ==
  ASSUME IInv, rows' = Marked, UNCHANGED <<expires, tmp, files, upload, deletion, clock>>
  PROVE  /\ rows' \in [Artifact -> Status]
         /\ (RowOfUpload /\ ExpiredInTime /\ Kept)'
<1> USE StoreAssumption DEF IInv, Marked, TypeOK
<1>1. rows' \in [Artifact -> Status]
  BY DEF Status
<1>2. (RowOfUpload /\ ExpiredInTime)'
  BY DEF RowOfUpload, ExpiredInTime
<1>3. Kept'
  BY DEF Kept
<1> QED
  BY <1>1, <1>2, <1>3

\* The steps of the cleanup loop and of a listing.
LEMMA CleanupIInv ==
  ASSUME IInv, ListArtifacts \/ Cleanup
  PROVE  IInv'
<1> USE StoreAssumption DEF IInv, table, disk, workers
<1>1. CASE ListArtifacts
  BY <1>1, MarkedFacts DEF ListArtifacts, TypeOK, ListedExpired
<1>2. CASE CleanupMark
  BY <1>2, MarkedFacts DEF CleanupMark, TypeOK, ListedExpired
<1>3. CASE CleanupList
  <2>1. TypeOK' /\ (RowOfUpload /\ ExpiredInTime /\ Kept)'
    BY <1>3 DEF CleanupList, TypeOK, RowOfUpload, ExpiredInTime, Kept
  <2>2. ListedExpired'
    BY <1>3 DEF CleanupList, TypeOK, RowOfUpload, ExpiredInTime, ListedExpired
  <2> QED
    BY <2>1, <2>2
<1>4. ASSUME NEW a \in Artifact, CleanupFile(a)
      PROVE  IInv'
  <2>1. TypeOK'
    BY <1>4 DEF CleanupFile, TypeOK
  <2>2. (RowOfUpload /\ ExpiredInTime /\ ListedExpired)'
    BY <1>4 DEF CleanupFile, TypeOK, RowOfUpload, ExpiredInTime, ListedExpired
  <2>3. Kept'
    BY <1>4 DEF CleanupFile, TypeOK, ListedExpired, Kept
  <2> QED
    BY <2>1, <2>2, <2>3
<1>5. CASE CleanupRow
  <2>1. cleanup.current \in Artifact /\ cleanup.todo \subseteq Artifact
    BY <1>5 DEF CleanupRow, TypeOK
  <2>2. TypeOK'
    BY <1>5, <2>1 DEF CleanupRow, TypeOK, Status
  <2>3. (RowOfUpload /\ ExpiredInTime /\ ListedExpired)'
    BY <1>5, <2>1 DEF CleanupRow, TypeOK, RowOfUpload, ExpiredInTime, ListedExpired
  <2>4. Kept'
    BY <1>5, <2>1 DEF CleanupRow, TypeOK, ListedExpired, Kept
  <2> QED
    BY <2>2, <2>3, <2>4
<1>6. CASE CleanupSleep
  BY <1>6 DEF CleanupSleep, Sleeping, TypeOK, RowOfUpload, ExpiredInTime, ListedExpired, Kept
<1> QED
  BY <1>1, <1>2, <1>3, <1>4, <1>5, <1>6 DEF Cleanup

\* A crash keeps rows and files and ends every handler; time only makes more
\* artifacts expire.
LEMMA EnvironmentIInv ==
  ASSUME IInv, Crash \/ Tick
  PROVE  IInv'
<1> USE StoreAssumption DEF IInv, table, disk, workers
<1>1. CASE Crash
  <2>1. TypeOK'
    BY <1>1 DEF Crash, TypeOK, Sleeping, UploadPhase, DeletionPhase
  <2>2. (RowOfUpload /\ ExpiredInTime /\ ListedExpired)'
    BY <1>1 DEF Crash, TypeOK, Sleeping, RowOfUpload, ExpiredInTime, ListedExpired
  <2>3. Kept'
    BY <1>1 DEF Crash, TypeOK, Kept
  <2> QED
    BY <2>1, <2>2, <2>3
<1>2. CASE Tick
  <2>1. TypeOK'
    BY <1>2 DEF Tick, TypeOK
  <2>2. (RowOfUpload /\ ExpiredInTime /\ ListedExpired)'
    BY <1>2 DEF Tick, TypeOK, RowOfUpload, ExpiredInTime, ListedExpired
  <2>3. Kept'
    BY <1>2 DEF Tick, TypeOK, Kept
  <2> QED
    BY <2>1, <2>2, <2>3
<1> QED
  BY <1>1, <1>2

\* Every step keeps it.
LEMMA NextIInv == IInv /\ [Next]_vars => IInv'
<1> SUFFICES ASSUME IInv, [Next]_vars PROVE IInv'
  OBVIOUS
<1>1. CASE UNCHANGED vars
  BY <1>1 DEF vars, IInv, TypeOK, RowOfUpload, ExpiredInTime, ListedExpired, Kept
<1>2. CASE Next
  BY <1>2, UploadIInv, DeletionIInv, CleanupIInv, EnvironmentIInv DEF Next
<1> QED
  BY <1>1, <1>2

\* The inductive invariant holds in every reachable state.
THEOREM Invariance == Spec => []IInv
BY InitIInv, NextIInv, PTL DEF Spec

\* Rows, files and the places of the handlers have their types.
THEOREM TypeCorrect == Spec => []TypeOK
BY Invariance, PTL DEF IInv

\* An artifact whose upload has been answered stays available and can be
\* downloaded until it expires or its deletion is asked for, whatever cleanup,
\* listings, other uploads and crashes do meanwhile.
THEOREM Retention == Spec => []KeptUntilExpiry
<1>1. IInv => KeptUntilExpiry
  BY DEF IInv, Kept, KeptUntilExpiry, Downloadable
<1> QED
  BY <1>1, Invariance, PTL

\* The cleanup loop only works on artifacts that have expired, although its list
\* is older than the rows it reads.
THEOREM CleanupSafety == Spec => []CleanupOnlyExpired
<1>1. IInv => CleanupOnlyExpired
  BY DEF IInv, ListedExpired, CleanupOnlyExpired
<1> QED
  BY <1>1, Invariance, PTL
=============================================================================
