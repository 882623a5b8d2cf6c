-------------------------------- MODULE Blobs --------------------------------
(***************************************************************************)
(* The checkpoint store (content addressed, sharded by hash, one file per  *)
(* payload) beside the in-memory store the runtime's tests substitute for  *)
(* it, and the workspace snapshot files.  A payload is its own hash.  A    *)
(* crash in the middle of a write leaves a file with part of the payload.  *)
(***************************************************************************)
EXTENDS Naturals, FiniteSets

CONSTANTS Payloads, SnapIds, BlobCrashes

VARIABLES
  blobs,       \* checkpoint files: payload -> "whole" or "torn"
  memory,      \* the keys of InMemoryCheckpointStorage, same calls
  wsSnap,      \* workspace snapshot files: id -> "whole" or "torn"
  blobRead,    \* what the last read returned
  blobCrash

blobVars == <<blobs, memory, wsSnap, blobRead, blobCrash>>

BlobsInit ==
  /\ blobs = <<>> /\ memory = {} /\ wsSnap = <<>>
  /\ blobRead = [of |-> "nothing", result |-> "none"]
  /\ blobCrash = 0

\* The files with p written, over an older one if there is one.
Written(files, p, content) ==
  [q \in DOMAIN files \cup {p} |-> IF q = p THEN content ELSE files[q]]

\* exists, of both stores
Exists(p) == p \in DOMAIN blobs

\* Mutant: a payload whose file exists is not registered again, a new one
\* is written and then removed as a duplicate.
Mutant_DropFresh(p) ==
  /\ memory' = memory \cup {p}
  /\ UNCHANGED <<blobs, wsSnap, blobRead, blobCrash>>

\* FileCheckpointStorage::store (and the in-memory one): an existing file is
\* taken for a duplicate, without looking inside.
Store(p) ==
  /\ blobs' = IF Exists(p) THEN blobs ELSE Written(blobs, p, "whole")
  /\ memory' = memory \cup {p}
  /\ UNCHANGED <<wsSnap, blobRead, blobCrash>>

\* A crash between File::create and sync_all of a new payload.
CrashInStore(p) ==
  /\ ~Exists(p) /\ blobCrash < BlobCrashes
  /\ blobs' = Written(blobs, p, "torn")
  /\ blobCrash' = blobCrash + 1
  /\ UNCHANGED <<memory, wsSnap, blobRead>>

\* Mutant: the hash or checksum of what was read is not compared.
Mutant_TrustFile(content) == "payload"

\* Integrity verification on read: the content hash of a checkpoint, the
\* leading checksum of a snapshot (read_with_checksum).
Verified(content) == IF content = "torn" THEN "corruption" ELSE "payload"

\* FileCheckpointStorage::read
Read(p) ==
  /\ blobRead' = [of |-> p, result |-> IF Exists(p) THEN Verified(blobs[p]) ELSE "missing"]
  /\ UNCHANGED <<blobs, memory, wsSnap, blobCrash>>

\* read_workspace
ReadWorkspace(w) ==
  /\ blobRead' = [of |-> w, result |-> IF w \in DOMAIN wsSnap THEN Verified(wsSnap[w]) ELSE "missing"]
  /\ UNCHANGED <<blobs, memory, wsSnap, blobCrash>>

\* delete
Delete(p) ==
  /\ blobs' = [q \in DOMAIN blobs \ {p} |-> blobs[q]]
  /\ memory' = memory \ {p}
  /\ UNCHANGED <<wsSnap, blobRead, blobCrash>>

\* write_workspace: fs::write over the previous file, checksum first.
WriteWorkspace(w) ==
  /\ wsSnap' = Written(wsSnap, w, "whole")
  /\ UNCHANGED <<blobs, memory, blobRead, blobCrash>>

\* A crash while overwriting: the previous snapshot is gone as well.
CrashInWorkspace(w) ==
  /\ blobCrash < BlobCrashes /\ blobCrash' = blobCrash + 1
  /\ wsSnap' = Written(wsSnap, w, "torn")
  /\ UNCHANGED <<blobs, memory, blobRead>>

\* delete_workspace
DeleteWorkspace(w) ==
  /\ wsSnap' = [x \in DOMAIN wsSnap \ {w} |-> wsSnap[x]]
  /\ UNCHANGED <<blobs, memory, blobRead, blobCrash>>

BlobsNext ==
  \/ \E p \in Payloads : Store(p) \/ CrashInStore(p) \/ Read(p) \/ Delete(p)
  \/ \E w \in SnapIds : WriteWorkspace(w) \/ CrashInWorkspace(w) \/ ReadWorkspace(w) \/ DeleteWorkspace(w)

BlobsSpec == BlobsInit /\ [][BlobsNext]_blobVars

---------------------------------------------------------------------------
\* A read returns a payload only if the last write of that file completed:
\* a checkpoint a crash left half written stays an error however often the
\* same content is stored again (the store takes the file for a duplicate),
\* and a torn snapshot is never served in place of the one it overwrote.
ReadIsWhole ==
  [][blobRead' # blobRead /\ blobRead'.result = "payload" =>
       \/ blobRead'.of \in DOMAIN blobs /\ blobs[blobRead'.of] = "whole"
       \/ blobRead'.of \in DOMAIN wsSnap /\ wsSnap[blobRead'.of] = "whole"]_blobVars

\* A checkpoint whose file is whole was stored and not deleted since, as the
\* in-memory store would have it, and every stored one has a file: the two
\* implementations differ only in files a crash left torn.
BlobsMatchMemory ==
  /\ memory \subseteq DOMAIN blobs
  /\ {p \in DOMAIN blobs : blobs[p] = "whole"} \subseteq memory

\* The file stores keep to what the in-memory store does and never serve what
\* a crash left half written.
StoreHonest == []BlobsMatchMemory /\ ReadIsWhole
=============================================================================
