----------------------- MODULE ProjectDeletionInvariant -----------------------
(***************************************************************************)
(* Why the deletion protocol is safe: an invariant that every step keeps   *)
(* and that implies the safety properties of ProjectDeletion.              *)
(***************************************************************************)
EXTENDS ProjectDeletion

(* A manifest holds assets of its own project only: the key of an asset is  *)
(* never given to another one.                                              *)
ManifestsOwned ==
  \A j \in Jobs : \A k \in jobs[j].manifest :
    jobs[j].project \in Projects /\ owner[k] = jobs[j].project

(* What is marked purged is in the manifest, and its bytes never come back. *)
PurgedIsGone ==
  \A j \in Jobs : jobs[j].purged \subseteq jobs[j].manifest \ storage

CompletedIsPurged ==
  \A j \in Jobs : jobs[j].purge = "completed" => jobs[j].manifest \subseteq jobs[j].purged

(* A runner, however late, works for a due job that nobody can cancel any   *)
(* more.                                                                    *)
Irrevocable(j) == Requested(j) /\ jobs[j].due /\ ~jobs[j].cancelled

KeepsToManifest(r) ==
  /\ \A j \in runner[r].queue : Irrevocable(j)
  /\ runner[r].pc \in {"erase", "mark", "fail", "finalize"} =>
       /\ Irrevocable(runner[r].job)
       /\ runner[r].todo \subseteq jobs[runner[r].job].manifest
  /\ runner[r].pc = "mark" => runner[r].key \in jobs[runner[r].job].manifest \ storage

RunsEraseTheirManifest == \A r \in Runners : KeepsToManifest(r)

(* The lock of an upload keeps its project there, and free of jobs.         *)
UploadsExcludeJobs ==
  \A u \in Uploaders : upload[u].pc \in {"locked", "saved"} =>
    status[upload[u].project] # "gone" /\ ~HasActiveJob(upload[u].project)

(* The bytes of an upload in progress belong to it alone.                   *)
UploadsOwnTheirKey ==
  \A u \in Uploaders :
    /\ upload[u].pc \in {"idle", "locked"} => upload[u].key = None
    /\ upload[u].pc = "saved" => upload[u].key \in storage /\ owner[upload[u].key] = None
    /\ upload[u].key \notin acked \cup backlog
    /\ \A v \in Uploaders : v # u /\ upload[u].key # None => upload[v].key # upload[u].key

(* No sweep reaches an acknowledged object.                                 *)
AcknowledgedIsOwned ==
  \A k \in acked : owner[k] # None /\ k \notin backlog

OneActiveJob ==
  \A i, j \in Jobs :
    Active(i) /\ Active(j) /\ jobs[i].project = jobs[j].project => i = j

(* The inductive invariant; TypeOK is kept apart.                           *)
DeletionInv ==
  /\ ManifestsOwned
  /\ PurgedIsGone
  /\ CompletedIsPurged
  /\ RunsEraseTheirManifest
  /\ UploadsExcludeJobs
  /\ UploadsOwnTheirKey
  /\ AcknowledgedIsOwned
  /\ OneActiveJob
  /\ ManifestIsExact
  /\ ErasureIsTotal
  /\ AcknowledgedBytesKept
  /\ NoSilentOrphan

=============================================================================
