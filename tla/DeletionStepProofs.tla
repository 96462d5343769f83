-------------------------- MODULE DeletionStepProofs --------------------------
(***************************************************************************)
(* What the steps of the deletion protocol do, in every instance.          *)
(*                                                                         *)
(* First, they implement ErasurePromise.  Most steps are invisible to the  *)
(* promise: they touch no acknowledged bytes and no phase.  Seven are      *)
(* steps of it: the commit of an upload, request, cancellation, the end of *)
(* the grace period, the deletion of an acknowledged object, with or       *)
(* without an error, and the end of a job.                                 *)
(*                                                                         *)
(* Second, no step of a runner that lost its lease undoes what another one *)
(* finished.                                                               *)
(***************************************************************************)
EXTENDS ProjectDeletionRefinement, ProjectDeletionSafety

PromisedPhase == [p \in Projects |-> PhaseOf(p)]
PromisedBytes == acked \cap storage

(* A job whose row says it is done has deleted its project.                 *)
DoneIsGone == \A j \in Jobs : jobs[j].dbDone =>
  jobs[j].project \in Projects /\ status[jobs[j].project] = "gone"

RInv == TypeInv /\ DeletionInv /\ DoneIsGone

-----------------------------------------------------------------------------
(* Phases.                                                                  *)

SamePhases ==
  /\ \A p \in Projects : status'[p] = "gone" <=> status[p] = "gone"
  /\ \A j \in Jobs : /\ Active(j)' <=> Active(j)
                     /\ Active(j) => jobs'[j].project = jobs[j].project /\ jobs'[j].due = jobs[j].due

(* The phase of one project, when the others stay as they are.              *)
LEMMA PhaseKept ==
  ASSUME NEW p \in Projects, status'[p] = "gone" <=> status[p] = "gone",
         \A j \in Jobs : (Active(j)' /\ jobs'[j].project = p) <=> (Active(j) /\ jobs[j].project = p),
         \A j \in Jobs : Active(j) /\ jobs[j].project = p => jobs'[j].due = jobs[j].due
  PROVE  PhaseOf(p)' = PhaseOf(p)
<1>1. HasActiveJob(p)' <=> HasActiveJob(p)
  BY DEF HasActiveJob
<1>2. (\E j \in Jobs : Active(j)' /\ jobs'[j].project = p /\ jobs'[j].due) <=>
        (\E j \in Jobs : Active(j) /\ jobs[j].project = p /\ jobs[j].due)
  OBVIOUS
<1> QED BY <1>1, <1>2 DEF PhaseOf

LEMMA PhasesKept == ASSUME SamePhases PROVE PromisedPhase' = PromisedPhase
<1>1. \A p \in Projects : PhaseOf(p)' = PhaseOf(p)
  BY PhaseKept DEF SamePhases
<1> QED BY <1>1 DEF PromisedPhase

LEMMA QuietPhases ==
  ASSUME UNCHANGED jobs, \A p \in Projects : status'[p] = "gone" <=> status[p] = "gone"
  PROVE  PromisedPhase' = PromisedPhase
<1>1. \A j \in Jobs : Active(j)' <=> Active(j)
  BY DEF Active, Requested
<1> QED BY <1>1, PhasesKept DEF SamePhases

(* With one active job, it alone decides the phase of its project.          *)
LEMMA PhaseOfJob ==
  ASSUME TypeInv, DeletionInv, NEW j \in Jobs, Active(j)
  PROVE  /\ jobs[j].project \in Projects /\ HasActiveJob(jobs[j].project)
         /\ \A i \in Jobs : Active(i) /\ jobs[i].project = jobs[j].project => i = j
         /\ status[jobs[j].project] # "gone" =>
              PhaseOf(jobs[j].project) = IF jobs[j].due THEN "erasing" ELSE "scheduled"
<1>1. jobs[j].project \in Projects /\ jobs[j].due \in BOOLEAN
  BY DEF TypeInv, TypeOK, Job, Active, Requested
<1>2. \A i \in Jobs : Active(i) /\ jobs[i].project = jobs[j].project => i = j
  BY DEF DeletionInv, OneActiveJob
<1>3. HasActiveJob(jobs[j].project)
  BY DEF HasActiveJob
<1>4. (\E i \in Jobs : Active(i) /\ jobs[i].project = jobs[j].project /\ jobs[i].due) <=> jobs[j].due
  BY <1>2
<1> QED BY <1>1, <1>2, <1>3, <1>4 DEF PhaseOf

(* Steps that the promise does not see.                                     *)
LEMMA Invisible ==
  ASSUME PromisedPhase' = PromisedPhase, UNCHANGED acked,
         \A k \in acked : owner'[k] = owner[k] /\ (k \in storage' <=> k \in storage)
  PROVE  UNCHANGED Promise!promise
<1>1. AcknowledgedHolder' = AcknowledgedHolder
  BY DEF AcknowledgedHolder
<1>2. (acked \cap storage)' = acked \cap storage
  OBVIOUS
<1> QED BY <1>1, <1>2 DEF Promise!promise, PromisedPhase

-----------------------------------------------------------------------------
(* A job that is done has deleted its project.                              *)

LEMMA DoneInit == Init => DoneIsGone
BY DEF Init, DoneIsGone, NoJob

LEMMA DoneKept ==
  ASSUME DoneIsGone, \A p \in Projects : status[p] = "gone" => status'[p] = "gone",
         \A j \in Jobs : jobs'[j].dbDone => jobs[j].dbDone /\ jobs'[j].project = jobs[j].project
  PROVE  DoneIsGone'
BY DEF DoneIsGone

-----------------------------------------------------------------------------
(* Steps of the lifecycle, and those of a runner that only move it on.      *)

(* What a step does for the refinement: it keeps DoneIsGone and is a step   *)
(* of the promise, or invisible to it.                                      *)
Simulated == DoneIsGone' /\ [Promise!Next]_(Promise!promise)

LEMMA QuietSimulated ==
  ASSUME DoneIsGone, UNCHANGED <<owner, jobs, acked>>,
         \A p \in Projects : status'[p] = "gone" <=> status[p] = "gone",
         \A k \in acked : k \in storage' <=> k \in storage
  PROVE  Simulated
<1>1. UNCHANGED Promise!promise
  BY Invisible, QuietPhases
<1>2. DoneIsGone'
  BY DoneKept
<1> QED BY <1>1, <1>2 DEF Simulated

LEMMA LifecycleSimulated ==
  ASSUME RInv, NEW a \in Admins, LifecycleStep(a)
  PROVE  Simulated
<1>1. DoneIsGone /\ UNCHANGED <<owner, jobs, acked, storage>>
  BY DEF RInv, LifecycleStep, ReadProject, CheckNoActiveJob, WriteTransition, database
<1>2. \A p \in Projects : status'[p] = "gone" <=> status[p] = "gone"
  <2>1. CASE ~WriteTransition(a)
    BY <2>1 DEF LifecycleStep, ReadProject, CheckNoActiveJob, database
  <2>2. CASE WriteTransition(a)
    <3>1. transition[a] \in Transition /\ status \in [Projects -> LiveStatus \cup {"gone"}]
      BY DEF RInv, TypeInv, TypeOK
    <3>2. NextStatus(transition[a]) # "gone"
      BY <3>1 DEF NextStatus, Transition, LiveStatus, ReturnStatus
    <3> QED BY <2>2, <3>1, <3>2 DEF WriteTransition, RowAccepts
  <2> QED BY <2>1, <2>2
<1> QED BY <1>1, <1>2, QuietSimulated

LEMMA PublishSimulated ==
  ASSUME RInv, NEW p \in Projects, Publish(p)
  PROVE  Simulated
BY QuietSimulated DEF RInv, Publish

LEMMA RunnerMovesOn ==
  ASSUME RInv, NEW r \in Runners,
         ListObjects(r) \/ FinalizeRefused(r) \/ RunnerError(r) \/ RunnerCrash(r)
  PROVE  Simulated
<1>1. UNCHANGED <<database, storage, acked>>
  BY DEF ListObjects, FinalizeRefused, RunnerError, RunnerCrash
<1> QED BY <1>1, QuietSimulated DEF RInv, database

-----------------------------------------------------------------------------
(* Uploads.                                                                 *)

LEMMA UploadMovesOn ==
  ASSUME RInv, NEW u \in Uploaders,
         \/ \E p \in Projects : UploadLock(u, p)
         \/ UploadRollback(u) \/ RecordInBacklog(u) \/ RecordInBacklogFails(u) \/ UploadCrash(u)
  PROVE  Simulated
<1>1. UNCHANGED <<status, owner, jobs, storage, acked>>
  BY DEF UploadLock, UploadRollback, RecordInBacklog, RecordInBacklogFails, UploadCrash, database
<1> QED BY <1>1, QuietSimulated DEF RInv

(* A fresh key, and one that is compensated or swept, is no acknowledged    *)
(* one.                                                                     *)
LEMMA BytesSimulated ==
  ASSUME RInv, \/ \E u \in Uploaders : \/ \E k \in Keys : UploadSave(u, k) \/ UploadSaveFails(u, k)
                                       \/ Compensate(u) \/ CompensateFails(u)
               \/ \E k \in Keys : SweepBacklog(k) \/ SweepInterrupted(k)
  PROVE  Simulated
<1>1. UNCHANGED <<status, owner, jobs, acked>> /\ DoneIsGone
  BY DEF RInv, UploadSave, UploadSaveFails, Compensate, CompensateFails, SweepBacklog,
         SweepInterrupted, database
<1>2. \A k \in acked : owner[k] # None /\ k \notin backlog /\ \A u \in Uploaders : upload[u].key # k
  BY DEF RInv, DeletionInv, AcknowledgedIsOwned, UploadsOwnTheirKey
<1>3. \A k \in acked : k \in storage' <=> k \in storage
  <2>1. ASSUME NEW u \in Uploaders, NEW k \in Keys, UploadSave(u, k) \/ UploadSaveFails(u, k)
        PROVE  \A x \in acked : x \in storage' <=> x \in storage
    BY <1>2, <2>1 DEF UploadSave, UploadSaveFails, FreshKey
  <2>2. ASSUME NEW u \in Uploaders, Compensate(u) \/ CompensateFails(u)
        PROVE  \A x \in acked : x \in storage' <=> x \in storage
    BY <1>2, <2>2 DEF Compensate, CompensateFails
  <2>3. ASSUME NEW k \in Keys, SweepBacklog(k) \/ SweepInterrupted(k)
        PROVE  \A x \in acked : x \in storage' <=> x \in storage
    BY <1>2, <2>3 DEF SweepBacklog, SweepInterrupted
  <2> QED BY <2>1, <2>2, <2>3
<1> QED BY <1>1, <1>3, QuietSimulated

(* The row exists and nobody knows: the promise says nothing of the key.    *)
LEMMA CommitLostSimulated ==
  ASSUME RInv, NEW u \in Uploaders, UploadCommitLost(u)
  PROVE  Simulated
<1>1. upload[u].key \notin acked /\ upload[u].pc = "saved"
  BY DEF RInv, DeletionInv, UploadsOwnTheirKey, UploadCommitLost
<1>2. UNCHANGED <<status, jobs, storage, acked>> /\ \A k \in acked : owner'[k] = owner[k]
  BY <1>1 DEF RInv, TypeInv, TypeOK, UploadCommitLost
<1>3. UNCHANGED Promise!promise
  BY <1>2, Invisible, QuietPhases
<1> QED BY <1>2, <1>3, DoneKept DEF Simulated, RInv

(* Store: the lock has kept the project free of jobs since the upload began. *)
LEMMA CommitSimulated ==
  ASSUME RInv, NEW u \in Uploaders, UploadCommit(u)
  PROVE  Simulated
<1>1. PICK k \in Keys, p \in Projects : k = upload[u].key /\ p = upload[u].project
  BY DEF RInv, TypeInv, PlacesOK, UploadCommit
<1>2. /\ UNCHANGED <<status, jobs, storage>> /\ DoneIsGone
      /\ owner' = [owner EXCEPT ![k] = p] /\ acked' = acked \cup {k}
  BY <1>1 DEF UploadCommit, RInv
<1>3. k \notin acked /\ k \in storage
  BY <1>1 DEF RInv, DeletionInv, UploadsOwnTheirKey, UploadCommit
<1>4. PhaseOf(p) = "kept"
  <2>1. status[p] # "gone" /\ ~HasActiveJob(p)
    BY <1>1 DEF RInv, DeletionInv, UploadsExcludeJobs, UploadCommit
  <2> QED BY <2>1 DEF PhaseOf, HasActiveJob
<1>5. PromisedPhase' = PromisedPhase
  BY <1>2, QuietPhases
<1>6. AcknowledgedHolder' = [AcknowledgedHolder EXCEPT ![k] = p] /\ AcknowledgedHolder[k] = None
  BY <1>2, <1>3 DEF AcknowledgedHolder, RInv, TypeInv, TypeOK
<1>7. (acked \cap storage)' = (acked \cap storage) \cup {k}
  BY <1>2, <1>3
<1>8. Promise!Store(k, p)
  BY <1>4, <1>5, <1>6, <1>7 DEF Promise!Store, PromisedPhase
<1>9. Promise!Next
  BY <1>8 DEF Promise!Next
<1> QED BY <1>2, <1>9, DoneKept DEF Simulated

-----------------------------------------------------------------------------
(* Runners and clocks: what a job is for, and whether it is due and active, *)
(* stay as they are.                                                        *)

SameDue(j) == SameJob(j) /\ jobs'[j].due = jobs[j].due

LEMMA JobsSimulated ==
  ASSUME RInv, UNCHANGED <<status, owner, storage, acked>>, \A j \in Jobs : SameDue(j)
  PROVE  Simulated
<1>1. \A j \in Jobs : Active(j)' <=> Active(j)
  BY DEF SameDue, SameJob, Active, Requested
<1>2. SamePhases
  BY <1>1 DEF SamePhases, SameDue, SameJob
<1>3. UNCHANGED Promise!promise
  BY <1>2, PhasesKept, Invisible
<1>4. DoneIsGone'
  BY DoneKept DEF SameDue, SameJob, RInv
<1> QED BY <1>3, <1>4 DEF Simulated

LEMMA ClaimSimulated ==
  ASSUME RInv, NEW r \in Runners, Claim(r)
  PROVE  Simulated
<1>1. PICK t \in Tokens :
        jobs' = [j \in Jobs |->
          IF j \in OldestClaimable
          THEN [jobs[j] EXCEPT !.token = t, !.leased = TRUE,
                               !.purge = IF @ = "completed" THEN @ ELSE "in_progress"]
          ELSE jobs[j]]
  BY DEF Claim
<1>2. ASSUME NEW j \in Jobs PROVE SameDue(j)
  <2>1. jobs[j] \in Job
    BY DEF RInv, TypeInv, TypeOK
  <2>2. jobs'[j] = IF j \in OldestClaimable
                   THEN [jobs[j] EXCEPT !.token = t, !.leased = TRUE,
                           !.purge = IF jobs[j].purge = "completed" THEN jobs[j].purge
                                     ELSE "in_progress"]
                   ELSE jobs[j]
    BY <1>1
  <2> QED BY <2>1, <2>2 DEF SameDue, SameJob, Job
<1> QED BY <1>2, JobsSimulated DEF Claim

LEMMA JobWritesSimulated ==
  ASSUME RInv, NEW r \in Runners, MarkFailed(r) \/ MarkPurged(r) \/ StorageDone(r)
  PROVE  Simulated
<1>1. PICK j \in Jobs : j = runner[r].job
  BY DEF RInv, TypeInv, PlacesOK, MarkFailed, MarkPurged, StorageDone
<1>2. jobs \in [Jobs -> Job] /\ jobs[j] \in Job
  BY DEF RInv, TypeInv, TypeOK
<1>3. \/ jobs' = jobs
      \/ \E s \in {"failed", "completed"} : jobs' = [jobs EXCEPT ![j].purge = s]
      \/ jobs' = [jobs EXCEPT ![j].purged = @ \cup {runner[r].key}]
  BY <1>1 DEF MarkFailed, MarkPurged, StorageDone
<1>4. /\ jobs'[j] = jobs[j] \/ (\E s \in {"failed", "completed"} : jobs'[j] = [jobs[j] EXCEPT !.purge = s])
         \/ jobs'[j] = [jobs[j] EXCEPT !.purged = jobs[j].purged \cup {runner[r].key}]
      /\ \A i \in Jobs : i # j => jobs'[i] = jobs[i]
  BY <1>2, <1>3
<1>5. \A i \in Jobs : SameDue(i)
  BY <1>2, <1>4 DEF SameDue, SameJob, Job
<1> QED BY <1>5, JobsSimulated DEF MarkFailed, MarkPurged, StorageDone

LEMMA LeaseSimulated ==
  ASSUME RInv, NEW j \in Jobs, LeaseExpires(j)
  PROVE  Simulated
<1>1. jobs \in [Jobs -> Job] /\ jobs[j] \in Job
  BY DEF RInv, TypeInv, TypeOK
<1>2. /\ jobs'[j] = [jobs[j] EXCEPT !.leased = FALSE]
      /\ \A i \in Jobs : i # j => jobs'[i] = jobs[i]
  BY <1>1 DEF LeaseExpires
<1>3. \A i \in Jobs : SameDue(i)
  BY <1>1, <1>2 DEF SameDue, SameJob, Job
<1> QED BY <1>3, JobsSimulated DEF LeaseExpires

-----------------------------------------------------------------------------
(* Erase: what a runner deletes belongs to a project whose job is due; that *)
(* job is still active, since the bytes are still there.                    *)

LEMMA EraseSimulated ==
  ASSUME RInv, NEW r \in Runners, NEW k \in Keys, EraseObject(r, k) \/ EraseFails(r, k)
  PROVE  Simulated
<1>1. /\ UNCHANGED <<status, owner, jobs, acked>> /\ DoneIsGone /\ TypeInv /\ DeletionInv
      /\ storage' = storage \/ storage' = storage \ {k}
      /\ runner[r].pc = "erase" /\ k \in runner[r].todo
  BY DEF RInv, EraseObject, EraseFails, database
<1>2. CASE storage' = storage \/ k \notin acked \cap storage
  BY <1>1, <1>2, QuietSimulated
<1>3. CASE storage' = storage \ {k} /\ k \in acked \cap storage
  <2>1. PICK j \in Jobs : j = runner[r].job
    BY <1>1 DEF TypeInv, PlacesOK
  <2>2. Irrevocable(j) /\ k \in jobs[j].manifest
    BY <1>1, <2>1 DEF DeletionInv, RunsEraseTheirManifest, KeepsToManifest
  <2>3. PICK p \in Projects : p = jobs[j].project
    BY <1>1, <2>2 DEF DeletionInv, ManifestsOwned
  <2>4. owner[k] = p
    BY <1>1, <2>2, <2>3 DEF DeletionInv, ManifestsOwned
  <2>5. status[p] # "gone"
    BY <1>1, <1>3, <2>4 DEF DeletionInv, ErasureIsTotal
  <2>6. Active(j)
    BY <1>1, <2>2, <2>3, <2>5 DEF DoneIsGone, Irrevocable, Active
  <2>7. PhaseOf(p) = "erasing"
    BY <1>1, <2>2, <2>3, <2>5, <2>6, PhaseOfJob DEF Irrevocable
  <2>8. AcknowledgedHolder' = AcknowledgedHolder
    BY <1>1 DEF AcknowledgedHolder
  <2>9. PromisedPhase' = PromisedPhase
    BY <1>1, QuietPhases
  <2>10. AcknowledgedHolder[k] = p
    BY <1>3, <2>4 DEF AcknowledgedHolder
  <2>11. PromisedPhase[p] = "erasing"
    BY <2>7 DEF PromisedPhase
  <2>12. (acked \cap storage)' = (acked \cap storage) \ {k}
    BY <1>1, <1>3
  <2>13. Promise!Erase(k)
    BY <1>3, <2>8, <2>9, <2>10, <2>11, <2>12 DEF Promise!Erase, PromisedPhase
  <2>14. Promise!Next
    BY <2>13 DEF Promise!Next
  <2>15. DoneIsGone'
    BY <1>1, DoneKept
  <2> QED BY <2>14, <2>15 DEF Simulated
<1> QED BY <1>1, <1>2, <1>3

-----------------------------------------------------------------------------
(* Requests, cancellations, the end of a grace period and that of a job:    *)
(* the phase of one project moves.                                          *)

LEMMA OnePhase ==
  ASSUME NEW p \in Projects, NEW x, PhaseOf(p)' = x,
         \A q \in Projects : q # p => PhaseOf(q)' = PhaseOf(q)
  PROVE  PromisedPhase' = [PromisedPhase EXCEPT ![p] = x]
BY DEF PromisedPhase

(* What the promise sees of a step that moves a phase.                      *)
LEMMA SameBytes ==
  ASSUME UNCHANGED <<owner, acked, storage>>
  PROVE  AcknowledgedHolder' = AcknowledgedHolder /\ (acked \cap storage)' = acked \cap storage
BY DEF AcknowledgedHolder

LEMMA RequestSimulated ==
  ASSUME RInv, NEW p \in Projects, NEW j \in Jobs, RequestDeletion(p, j)
  PROVE  Simulated
<1>1. /\ UNCHANGED <<status, owner, acked, storage>> /\ DoneIsGone /\ TypeInv /\ DeletionInv
      /\ status[p] = "archived" /\ ~HasActiveJob(p) /\ ~Requested(j)
      /\ jobs' = [jobs EXCEPT ![j] = [NoJob EXCEPT !.project = p, !.manifest = AssetsOf(p)]]
  BY DEF RInv, RequestDeletion, CapturedManifest
<1>2. jobs \in [Jobs -> Job] /\ p # None
  BY <1>1, NoneIsNoValue DEF TypeInv, TypeOK
<1>3. /\ jobs'[j].project = p /\ jobs'[j].due = FALSE
      /\ jobs'[j].cancelled = FALSE /\ jobs'[j].dbDone = FALSE
      /\ \A i \in Jobs : i # j => jobs'[i] = jobs[i]
  BY <1>1, <1>2 DEF NoJob
<1>4. \A i \in Jobs : Active(i)' <=> Active(i) \/ i = j
  BY <1>1, <1>2, <1>3 DEF Active, Requested
<1>5. \A i \in Jobs : Active(i)' /\ jobs'[i].project = p => i = j
  BY <1>1, <1>3, <1>4 DEF HasActiveJob
<1>6. PhaseOf(p)' = "scheduled"
  <2>1. HasActiveJob(p)'
    BY <1>3, <1>4 DEF HasActiveJob
  <2>2. ~\E i \in Jobs : Active(i)' /\ jobs'[i].project = p /\ jobs'[i].due
    BY <1>3, <1>5
  <2> QED BY <1>1, <2>1, <2>2 DEF PhaseOf
<1>7. PhaseOf(p) = "kept"
  BY <1>1 DEF PhaseOf, HasActiveJob
<1>8. ASSUME NEW q \in Projects, q # p PROVE PhaseOf(q)' = PhaseOf(q)
  <2>1. \A i \in Jobs : (Active(i)' /\ jobs'[i].project = q) <=> (Active(i) /\ jobs[i].project = q)
    BY <1>1, <1>3, <1>4, <1>8 DEF Active
  <2>2. \A i \in Jobs : Active(i) /\ jobs[i].project = q => jobs'[i].due = jobs[i].due
    BY <1>1, <1>3 DEF Active
  <2> QED BY <1>1, <2>1, <2>2, PhaseKept
<1>9. PromisedPhase' = [PromisedPhase EXCEPT ![p] = "scheduled"] /\ PromisedPhase[p] = "kept"
  BY <1>6, <1>7, <1>8, OnePhase DEF PromisedPhase
<1>10. Promise!Schedule(p)
  BY <1>1, <1>9, SameBytes DEF Promise!Schedule, Promise!Move, PromisedPhase
<1>11. Promise!Next
  BY <1>10 DEF Promise!Next
<1>12. DoneIsGone'
  BY <1>1, <1>3, DoneKept
<1> QED BY <1>11, <1>12 DEF Simulated

LEMMA CancelSimulated ==
  ASSUME RInv, NEW j \in Jobs, CancelDeletion(j)
  PROVE  Simulated
<1>1. /\ UNCHANGED <<status, owner, acked, storage>> /\ DoneIsGone /\ TypeInv /\ DeletionInv
      /\ Active(j) /\ ~jobs[j].due
      /\ jobs' = [jobs EXCEPT ![j].cancelled = TRUE]
  BY DEF RInv, CancelDeletion, Cancellable
<1>2. jobs \in [Jobs -> Job] /\ jobs[j] \in Job
  BY <1>1 DEF TypeInv, TypeOK
<1>3. /\ jobs'[j] = [jobs[j] EXCEPT !.cancelled = TRUE]
      /\ \A i \in Jobs : i # j => jobs'[i] = jobs[i]
  BY <1>1, <1>2
<1>4. \A i \in Jobs : /\ jobs'[i].project = jobs[i].project /\ jobs'[i].due = jobs[i].due
                      /\ jobs'[i].dbDone = jobs[i].dbDone
                      /\ Active(i)' <=> Active(i) /\ i # j
  BY <1>2, <1>3 DEF Job, Active, Requested
<1>5. DoneIsGone'
  BY <1>1, <1>4, DoneKept
<1>6. PICK p \in Projects : p = jobs[j].project
  BY <1>1, PhaseOfJob
<1>7. \A i \in Jobs : Active(i) /\ jobs[i].project = p => i = j
  BY <1>1, <1>6, PhaseOfJob
<1>8. ASSUME NEW q \in Projects, q # p PROVE PhaseOf(q)' = PhaseOf(q)
  <2>1. \A i \in Jobs : (Active(i)' /\ jobs'[i].project = q) <=> (Active(i) /\ jobs[i].project = q)
    BY <1>4, <1>6, <1>8
  <2> QED BY <1>1, <1>4, <2>1, PhaseKept
<1>9. CASE status[p] = "gone"
  <2>1. PhaseOf(p)' = PhaseOf(p)
    BY <1>1, <1>9 DEF PhaseOf
  <2>2. PromisedPhase' = PromisedPhase
    BY <1>8, <2>1 DEF PromisedPhase
  <2>3. UNCHANGED Promise!promise
    BY <1>1, <2>2, Invisible
  <2> QED BY <1>5, <2>3 DEF Simulated
<1>10. CASE status[p] # "gone"
  <2>1. PhaseOf(p) = "scheduled"
    BY <1>1, <1>6, <1>10, PhaseOfJob
  <2>2. ~\E i \in Jobs : Active(i)' /\ jobs'[i].project = p
    BY <1>4, <1>7
  <2>3. PhaseOf(p)' = "kept"
    BY <1>1, <1>10, <2>2 DEF PhaseOf, HasActiveJob
  <2>4. PromisedPhase' = [PromisedPhase EXCEPT ![p] = "kept"] /\ PromisedPhase[p] = "scheduled"
    BY <1>8, <2>1, <2>3, OnePhase DEF PromisedPhase
  <2>5. Promise!Withdraw(p)
    BY <1>1, <2>4, SameBytes DEF Promise!Withdraw, Promise!Move, PromisedPhase
  <2>6. Promise!Next
    BY <2>5 DEF Promise!Next
  <2> QED BY <1>5, <2>6 DEF Simulated
<1> QED BY <1>9, <1>10

LEMMA GraceSimulated ==
  ASSUME RInv, NEW j \in Jobs, GraceElapses(j)
  PROVE  Simulated
<1>1. /\ UNCHANGED <<status, owner, acked, storage>> /\ DoneIsGone /\ TypeInv /\ DeletionInv
      /\ ~jobs[j].due
      /\ jobs' = [jobs EXCEPT ![j].due = TRUE]
  BY DEF RInv, GraceElapses
<1>2. jobs \in [Jobs -> Job] /\ jobs[j] \in Job
  BY <1>1 DEF TypeInv, TypeOK
<1>3. /\ jobs'[j] = [jobs[j] EXCEPT !.due = TRUE]
      /\ \A i \in Jobs : i # j => jobs'[i] = jobs[i]
  BY <1>1, <1>2
<1>4. /\ jobs'[j].due = TRUE
      /\ \A i \in Jobs : /\ jobs'[i].project = jobs[i].project /\ jobs'[i].dbDone = jobs[i].dbDone
                         /\ Active(i)' <=> Active(i)
  BY <1>2, <1>3 DEF Job, Active, Requested
<1>5. DoneIsGone'
  BY <1>1, <1>4, DoneKept
<1>6. CASE ~Active(j)
  <2>1. SamePhases
    BY <1>1, <1>3, <1>4, <1>6 DEF SamePhases
  <2>2. UNCHANGED Promise!promise
    BY <1>1, <2>1, PhasesKept, Invisible
  <2> QED BY <1>5, <2>2 DEF Simulated
<1>7. CASE Active(j)
  <2>1. PICK p \in Projects : p = jobs[j].project
    BY <1>1, <1>7, PhaseOfJob
  <2>2. ASSUME NEW q \in Projects, q # p PROVE PhaseOf(q)' = PhaseOf(q)
    <3>1. \A i \in Jobs : (Active(i)' /\ jobs'[i].project = q) <=> (Active(i) /\ jobs[i].project = q)
      BY <1>4
    <3>2. \A i \in Jobs : Active(i) /\ jobs[i].project = q => jobs'[i].due = jobs[i].due
      BY <1>3, <2>1, <2>2
    <3> QED BY <1>1, <3>1, <3>2, PhaseKept
  <2>3. CASE status[p] = "gone"
    <3>1. PhaseOf(p)' = PhaseOf(p)
      BY <1>1, <2>3 DEF PhaseOf
    <3>2. PromisedPhase' = PromisedPhase
      BY <2>2, <3>1 DEF PromisedPhase
    <3>3. UNCHANGED Promise!promise
      BY <1>1, <3>2, Invisible
    <3> QED BY <1>5, <3>3 DEF Simulated
  <2>4. CASE status[p] # "gone"
    <3>1. PhaseOf(p) = "scheduled"
      BY <1>1, <1>7, <2>1, <2>4, PhaseOfJob
    <3>2. PhaseOf(p)' = "erasing"
      BY <1>1, <1>4, <1>7, <2>1, <2>4 DEF PhaseOf
    <3>3. PromisedPhase' = [PromisedPhase EXCEPT ![p] = "erasing"] /\ PromisedPhase[p] = "scheduled"
      BY <2>2, <3>1, <3>2, OnePhase DEF PromisedPhase
    <3>4. Promise!GraceEnds(p)
      BY <1>1, <3>3, SameBytes DEF Promise!GraceEnds, Promise!Move, PromisedPhase
    <3>5. Promise!Next
      BY <3>4 DEF Promise!Next
    <3> QED BY <1>5, <3>5 DEF Simulated
  <2> QED BY <2>3, <2>4
<1> QED BY <1>6, <1>7

(* Complete: nothing acknowledged is left of the project, because nothing   *)
(* at all is.                                                               *)
LEMMA FinalizeSimulated ==
  ASSUME RInv, NEW r \in Runners, Finalize(r)
  PROVE  Simulated
<1>1. TypeInv /\ DeletionInv /\ DoneIsGone /\ ErasureIsTotal'
  BY FinalizeKeeps DEF RInv, DeletionInv
<1>2. PICK j \in Jobs : j = runner[r].job
  BY <1>1 DEF TypeInv, PlacesOK, Finalize
<1>3. Active(j) /\ Irrevocable(j)
  BY <1>1, <1>2 DEF Finalize, OwnsCompletedJob, DeletionInv, RunsEraseTheirManifest, KeepsToManifest
<1>4. PICK p \in Projects : p = jobs[j].project
  BY <1>1, <1>3, PhaseOfJob
<1>5. /\ UNCHANGED <<owner, acked, storage>> /\ status[p] = "archived"
      /\ status' = [status EXCEPT ![p] = "gone"]
      /\ jobs' = [jobs EXCEPT ![j].dbDone = TRUE]
  BY <1>2, <1>4 DEF Finalize, ProjectErasable
<1>6. /\ jobs \in [Jobs -> Job] /\ jobs[j] \in Job
      /\ status \in [Projects -> LiveStatus \cup {"gone"}]
  BY <1>1 DEF TypeInv, TypeOK
<1>7. /\ jobs'[j] = [jobs[j] EXCEPT !.dbDone = TRUE]
      /\ \A i \in Jobs : i # j => jobs'[i] = jobs[i]
      /\ status'[p] = "gone" /\ \A q \in Projects : q # p => status'[q] = status[q]
  BY <1>5, <1>6
<1>8. \A i \in Jobs : /\ jobs'[i].project = jobs[i].project /\ jobs'[i].due = jobs[i].due
                      /\ Active(i)' <=> Active(i) /\ i # j
  BY <1>6, <1>7 DEF Job, Active, Requested
<1>9. DoneIsGone'
  BY <1>1, <1>4, <1>7, <1>8 DEF DoneIsGone
<1>10. PhaseOf(p) = "erasing"
  BY <1>1, <1>3, <1>4, <1>5, PhaseOfJob DEF Irrevocable
<1>11. PhaseOf(p)' = "erased"
  BY <1>7 DEF PhaseOf
<1>12. ASSUME NEW q \in Projects, q # p PROVE PhaseOf(q)' = PhaseOf(q)
  <2>1. \A i \in Jobs : (Active(i)' /\ jobs'[i].project = q) <=> (Active(i) /\ jobs[i].project = q)
    BY <1>4, <1>8, <1>12
  <2>2. status'[q] = "gone" <=> status[q] = "gone"
    BY <1>7, <1>12
  <2> QED BY <1>8, <2>1, <2>2, PhaseKept
<1>13. PromisedPhase' = [PromisedPhase EXCEPT ![p] = "erased"] /\ PromisedPhase[p] = "erasing"
  BY <1>10, <1>11, <1>12, OnePhase DEF PromisedPhase
<1>14. \A k \in acked \cap storage : AcknowledgedHolder[k] # p
  BY <1>1, <1>5, <1>7 DEF ErasureIsTotal, AcknowledgedHolder, TypeInv, TypeOK
<1>15. Promise!Complete(p)
  BY <1>5, <1>13, <1>14, SameBytes DEF Promise!Complete, Promise!Move, PromisedPhase
<1>16. Promise!Next
  BY <1>15 DEF Promise!Next
<1> QED BY <1>9, <1>16 DEF Simulated

-----------------------------------------------------------------------------
(* The refinement.                                                          *)

LEMMA PromiseInit == Init => Promise!Init
<1> SUFFICES ASSUME Init PROVE Promise!Init
  OBVIOUS
<1>1. \A j \in Jobs : ~Active(j)
  BY DEF Init, NoJob, Active, Requested
<1>2. \A p \in Projects : PhaseOf(p) = "kept"
  BY <1>1 DEF Init, PhaseOf, HasActiveJob
<1>3. /\ owner \in [Keys -> Projects \cup {None}] /\ storage = acked
      /\ acked = {k \in Keys : owner[k] # None}
  BY DEF Init
<1>4. AcknowledgedHolder = owner
  BY <1>3 DEF AcknowledgedHolder
<1>5. acked \cap storage = {k \in Keys : AcknowledgedHolder[k] # None}
  BY <1>3, <1>4
<1> QED BY <1>2, <1>3, <1>4, <1>5 DEF Promise!Init

LEMMA StepSimulated == RInv /\ [Next]_vars => Simulated
<1> SUFFICES ASSUME RInv, [Next]_vars PROVE Simulated
  OBVIOUS
<1>1. CASE UNCHANGED vars
  BY <1>1, QuietSimulated DEF RInv, vars, database
<1>2. CASE Next
  <2>1. CASE \E a \in Admins : LifecycleStep(a)
    BY <2>1, LifecycleSimulated
  <2>2. CASE RequestStep
    BY <2>2, PublishSimulated, RequestSimulated, CancelSimulated DEF RequestStep
  <2>3. CASE \E j \in Jobs : GraceElapses(j) \/ LeaseExpires(j)
    BY <2>3, GraceSimulated, LeaseSimulated
  <2>4. CASE \E r \in Runners : RunnerStep(r) \/ RunnerFault(r)
    BY <2>4, RunnerMovesOn, ClaimSimulated, JobWritesSimulated, EraseSimulated, FinalizeSimulated
       DEF RunnerStep, RunnerFault
  <2>5. CASE \/ \E u \in Uploaders, p \in Projects : UploadLock(u, p)
             \/ \E u \in Uploaders : UploadEnds(u) \/ UploadFault(u)
             \/ \E k \in Keys : SweepBacklog(k) \/ SweepInterrupted(k)
    BY <2>5, UploadMovesOn, BytesSimulated, CommitLostSimulated, CommitSimulated
       DEF UploadEnds, UploadFault
  <2> QED BY <1>2, <2>1, <2>2, <2>3, <2>4, <2>5 DEF Next
<1> QED BY <1>1, <1>2

LEMMA DoneInvariant == Spec => []RInv
<1>1. Init => DoneIsGone
  BY DoneInit
<1>2. (TypeInv /\ DeletionInv) /\ DoneIsGone /\ [Next]_vars => DoneIsGone'
  BY StepSimulated DEF RInv, Simulated
<1>3. (TypeInv /\ DeletionInv) /\ DoneIsGone <=> RInv
  BY DEF RInv
<1> QED BY <1>1, <1>2, <1>3, DeletionInvariant, PTL DEF Spec

(* The deletion protocol implements ErasurePromise: acknowledged bytes stay *)
(* until their project is being erased, an erasure can be withdrawn until   *)
(* its grace period ends and never after, and a project that was erased     *)
(* stays erased with nothing left of it.                                    *)
THEOREM RefinementTheorem == Spec => KeepsPromise
<1>1. Init => Promise!Init
  BY PromiseInit
<1>2. RInv /\ [Next]_vars => [Promise!Next]_(Promise!promise)
  BY StepSimulated DEF Simulated
<1> QED BY <1>1, <1>2, DoneInvariant, PTL DEF Spec, KeepsPromise, Promise!Spec

-----------------------------------------------------------------------------
(* Leases.  No two runs share a token, so only the last one that claimed a  *)
(* completed job could take it back; and that one found nothing to erase.   *)

OneHolder ==
  /\ \A r \in Runners : IF runner[r].pc = "idle" THEN runner[r] = NoRun
                                                  ELSE runner[r].token # None
  /\ \A r, s \in Runners : r # s /\ runner[r].token = runner[s].token => runner[r].token = None

Quiet(r) ==
  /\ runner[r].pc \in {"erase", "mark", "fail"}
  /\ HoldsToken(r, runner[r].job) /\ jobs[runner[r].job].purge = "completed"
  => runner[r].pc = "erase" /\ runner[r].todo = {}

CompletedIsQuiet == \A r \in Runners : Quiet(r)

DoneIsCompleted == \A j \in Jobs : jobs[j].dbDone => jobs[j].purge = "completed"

UnrequestedIsBlank ==
  \A j \in Jobs : ~Requested(j) => ~jobs[j].cancelled /\ ~jobs[j].dbDone
                                   /\ jobs[j].purge = "pending"

LeaseInv == OneHolder /\ CompletedIsQuiet /\ DoneIsCompleted /\ UnrequestedIsBlank

(* What StaleRunnersHarmless says of a step.                                *)
Harmless ==
  \A j \in Jobs :
    /\ jobs[j].purge = "completed" => jobs'[j].purge = "completed"
    /\ jobs[j].cancelled \/ jobs[j].dbDone =>
         jobs'[j] = [jobs[j] EXCEPT !.due = jobs'[j].due, !.leased = jobs'[j].leased]

LEMMA LeaseInit == Init => LeaseInv
<1> SUFFICES ASSUME Init PROVE LeaseInv
  OBVIOUS
<1>1. \A r \in Runners : runner[r] = NoRun /\ runner[r].pc = "idle" /\ runner[r].token = None
  BY DEF Init, NoRun
<1>2. \A j \in Jobs : /\ ~jobs[j].dbDone /\ ~jobs[j].cancelled
                      /\ jobs[j].purge = "pending"
  BY DEF Init, NoJob
<1> QED BY <1>1, <1>2 DEF LeaseInv, OneHolder, CompletedIsQuiet, Quiet, DoneIsCompleted,
                          UnrequestedIsBlank

(* Steps that leave tokens, states and ends of jobs alone.                  *)
SameLease(j) ==
  /\ jobs'[j].token = jobs[j].token /\ jobs'[j].purge = jobs[j].purge
  /\ jobs'[j].dbDone = jobs[j].dbDone /\ jobs'[j].project = jobs[j].project
  /\ jobs'[j].cancelled = jobs[j].cancelled \/ Active(j)

LEMMA LeasesStay ==
  ASSUME LeaseInv, \A j \in Jobs : SameLease(j)
  PROVE  DoneIsCompleted' /\ UnrequestedIsBlank'
<1>1. DoneIsCompleted'
  BY DEF LeaseInv, DoneIsCompleted, SameLease
<1>2. UnrequestedIsBlank'
  BY DEF LeaseInv, UnrequestedIsBlank, SameLease, Requested, Active
<1> QED BY <1>1, <1>2

(* A run that stays where it is stays quiet, unless its job is completed    *)
(* under its token.                                                         *)
LEMMA QuietStays ==
  ASSUME TypeInv, LeaseInv, NEW r \in Runners, runner'[r] = runner[r],
         \A j \in Jobs : j = runner[r].job /\ HoldsToken(r, j)' /\ jobs'[j].purge = "completed" =>
                           HoldsToken(r, j) /\ jobs[j].purge = "completed"
  PROVE  Quiet(r)'
<1>1. runner[r].pc \in {"erase", "mark", "fail"} => runner[r].job \in Jobs
  BY DEF TypeInv, PlacesOK
<1> QED BY <1>1 DEF LeaseInv, CompletedIsQuiet, Quiet

(* One run moves and keeps its token, or ends.                              *)
LEMMA HoldersStay ==
  ASSUME LeaseInv, NEW r \in Runners, \A s \in Runners : s # r => runner'[s] = runner[s],
         runner'[r] = NoRun \/ (runner'[r].pc # "idle" /\ runner'[r].token = runner[r].token
                                /\ runner[r].pc # "idle")
  PROVE  OneHolder'
<1>1. CASE runner'[r] = NoRun
  <2>1. runner'[r].pc = "idle" /\ runner'[r].token = None
    BY <1>1 DEF NoRun
  <2> QED BY <1>1, <2>1 DEF LeaseInv, OneHolder
<1>2. CASE runner'[r].pc # "idle" /\ runner'[r].token = runner[r].token /\ runner[r].pc # "idle"
  BY <1>2 DEF LeaseInv, OneHolder
<1> QED BY <1>1, <1>2

LEMMA JobUnwritten ==
  ASSUME TypeInv, NEW j \in Jobs,
         \/ jobs'[j] = jobs[j] \/ jobs'[j] = [jobs[j] EXCEPT !.due = TRUE]
         \/ jobs'[j] = [jobs[j] EXCEPT !.leased = FALSE]
  PROVE  jobs'[j] = [jobs[j] EXCEPT !.due = jobs'[j].due, !.leased = jobs'[j].leased]
<1>1. jobs[j] \in Job
  BY DEF TypeInv, TypeOK
<1> QED BY <1>1 DEF Job

-----------------------------------------------------------------------------
(* Steps without a runner.                                                  *)

LEMMA LeaseFrame ==
  ASSUME TypeInv, LeaseInv, UNCHANGED <<jobs, runner>>
  PROVE  LeaseInv' /\ Harmless
<1>1. LeaseInv'
  BY DEF LeaseInv, OneHolder, CompletedIsQuiet, Quiet, HoldsToken, DoneIsCompleted,
         UnrequestedIsBlank, Requested
<1>2. Harmless
  BY JobUnwritten DEF Harmless
<1> QED BY <1>1, <1>2

LEMMA RunnersStay ==
  ASSUME TypeInv, LeaseInv, UNCHANGED runner, \A j \in Jobs : SameLease(j)
  PROVE  LeaseInv'
<1>1. OneHolder'
  BY DEF LeaseInv, OneHolder
<1>2. CompletedIsQuiet'
  BY QuietStays DEF CompletedIsQuiet, SameLease, HoldsToken
<1> QED BY <1>1, <1>2, LeasesStay DEF LeaseInv

LEMMA ClockLeases ==
  ASSUME TypeInv, LeaseInv, NEW j \in Jobs, GraceElapses(j) \/ LeaseExpires(j)
  PROVE  LeaseInv' /\ Harmless
<1>1. jobs[j] \in Job /\ jobs \in [Jobs -> Job]
  BY DEF TypeInv, TypeOK
<1>2. /\ jobs'[j] = [jobs[j] EXCEPT !.due = TRUE] \/ jobs'[j] = [jobs[j] EXCEPT !.leased = FALSE]
      /\ \A i \in Jobs : i # j => jobs'[i] = jobs[i]
  BY <1>1 DEF GraceElapses, LeaseExpires
<1>3. \A i \in Jobs : SameLease(i)
  BY <1>1, <1>2 DEF SameLease, Job
<1>4. Harmless
  BY <1>2, <1>3, JobUnwritten DEF Harmless, SameLease
<1> QED BY <1>3, <1>4, RunnersStay DEF GraceElapses, LeaseExpires

LEMMA CancelLeases ==
  ASSUME TypeInv, LeaseInv, NEW j \in Jobs, CancelDeletion(j)
  PROVE  LeaseInv' /\ Harmless
<1>1. jobs[j] \in Job /\ jobs \in [Jobs -> Job] /\ Active(j)
  BY DEF TypeInv, TypeOK, CancelDeletion, Cancellable
<1>2. /\ jobs'[j] = [jobs[j] EXCEPT !.cancelled = TRUE]
      /\ \A i \in Jobs : i # j => jobs'[i] = jobs[i]
  BY <1>1 DEF CancelDeletion
<1>3. \A i \in Jobs : SameLease(i)
  BY <1>1, <1>2 DEF SameLease, Job
<1>4. Harmless
  BY <1>1, <1>2, <1>3, JobUnwritten DEF Harmless, SameLease, Active
<1> QED BY <1>3, <1>4, RunnersStay DEF CancelDeletion

LEMMA RequestLeases ==
  ASSUME TypeInv, LeaseInv, NEW p \in Projects, NEW j \in Jobs, RequestDeletion(p, j)
  PROVE  LeaseInv' /\ Harmless
<1>1. jobs \in [Jobs -> Job] /\ ~Requested(j) /\ p # None /\ UNCHANGED runner
  BY NoneIsNoValue DEF TypeInv, TypeOK, RequestDeletion
<1>2. /\ jobs'[j].purge = "pending" /\ jobs'[j].dbDone = FALSE /\ jobs'[j].project = p
      /\ \A i \in Jobs : i # j => jobs'[i] = jobs[i]
  BY <1>1 DEF RequestDeletion, NoJob
<1>3. jobs[j].purge = "pending" /\ ~jobs[j].cancelled /\ ~jobs[j].dbDone
  BY <1>1 DEF LeaseInv, UnrequestedIsBlank
<1>4. DoneIsCompleted' /\ UnrequestedIsBlank'
  BY <1>1, <1>2 DEF LeaseInv, DoneIsCompleted, UnrequestedIsBlank, Requested
<1>5. CompletedIsQuiet'
  BY <1>1, <1>2, QuietStays DEF CompletedIsQuiet, HoldsToken
<1>6. OneHolder'
  BY <1>1 DEF LeaseInv, OneHolder
<1>7. Harmless
  BY <1>2, <1>3, JobUnwritten DEF Harmless
<1> QED BY <1>4, <1>5, <1>6, <1>7 DEF LeaseInv

-----------------------------------------------------------------------------
(* Steps of a runner.                                                       *)

LEMMA ClaimLeases ==
  ASSUME TypeInv, LeaseInv, NEW r \in Runners, Claim(r)
  PROVE  LeaseInv' /\ Harmless
<1>1. PICK t \in Tokens :
        /\ FreshToken(t)
        /\ jobs' = [j \in Jobs |->
             IF j \in OldestClaimable
             THEN [jobs[j] EXCEPT !.token = t, !.leased = TRUE,
                                  !.purge = IF @ = "completed" THEN @ ELSE "in_progress"]
             ELSE jobs[j]]
        /\ runner' = [runner EXCEPT ![r] =
             [NoRun EXCEPT !.pc = "next", !.token = t, !.queue = OldestClaimable]]
  BY DEF Claim
<1>2. ASSUME NEW j \in Jobs
      PROVE  /\ jobs'[j] = jobs[j] \/ (Active(j) /\ jobs'[j].token = t)
             /\ jobs'[j].purge = "completed" <=> jobs[j].purge = "completed"
             /\ jobs'[j].dbDone = jobs[j].dbDone /\ jobs'[j].project = jobs[j].project
             /\ jobs'[j].cancelled = jobs[j].cancelled
  <2>1. jobs[j] \in Job
    BY DEF TypeInv, TypeOK
  <2>2. jobs'[j] = IF j \in OldestClaimable
                   THEN [jobs[j] EXCEPT !.token = t, !.leased = TRUE,
                           !.purge = IF jobs[j].purge = "completed" THEN jobs[j].purge
                                     ELSE "in_progress"]
                   ELSE jobs[j]
    BY <1>1
  <2>3. j \in OldestClaimable => Active(j)
    BY DEF OldestClaimable, Claimable
  <2>4. CASE j \in OldestClaimable
    <3>1. jobs'[j] = [jobs[j] EXCEPT !.token = t, !.leased = TRUE,
                        !.purge = IF jobs[j].purge = "completed" THEN jobs[j].purge
                                  ELSE "in_progress"]
      BY <2>2, <2>4
    <3> QED BY <2>1, <2>3, <2>4, <3>1 DEF Job
  <2>5. CASE j \notin OldestClaimable
    BY <2>2, <2>5
  <2> QED BY <2>4, <2>5
<1>3. /\ runner'[r].pc = "next" /\ runner'[r].token = t /\ t # None
      /\ \A s \in Runners : s # r => runner'[s] = runner[s] /\ runner[s].token # t
  BY <1>1, NoneIsNoValue DEF TypeInv, TypeOK, NoRun, FreshToken
<1>4. OneHolder'
  BY <1>3 DEF LeaseInv, OneHolder
<1>5. CompletedIsQuiet'
  <2>1. Quiet(r)'
    BY <1>3 DEF Quiet
  <2>2. ASSUME NEW s \in Runners, s # r PROVE Quiet(s)'
    BY <1>2, <1>3, <2>2, QuietStays DEF HoldsToken
  <2> QED BY <2>1, <2>2 DEF CompletedIsQuiet
<1>6. DoneIsCompleted'
  BY <1>2 DEF LeaseInv, DoneIsCompleted
<1>7. UnrequestedIsBlank'
  BY <1>2 DEF LeaseInv, UnrequestedIsBlank, Requested, Active
<1>8. Harmless
  BY <1>2, JobUnwritten DEF Harmless, Active
<1> QED BY <1>4, <1>5, <1>6, <1>7, <1>8 DEF LeaseInv

(* The run leaves its job, and writes nothing.                              *)
LEMMA LeaveHolds ==
  ASSUME TypeInv, LeaseInv, NEW r \in Runners, LeaveJob(r), runner[r].pc # "idle"
  PROVE  OneHolder' /\ Quiet(r)' /\ \A s \in Runners : s # r => runner'[s] = runner[s]
<1>1. runner \in [Runners -> Run] /\ runner[r] \in Run
  BY DEF TypeInv, TypeOK
<1>2. runner'[r] = NoRun \/ (runner'[r].pc = "next" /\ runner'[r].token = runner[r].token)
  BY <1>1 DEF LeaveJob, Run
<1>3. \A s \in Runners : s # r => runner'[s] = runner[s]
  BY <1>1 DEF LeaveJob
<1>4. OneHolder'
  <2>1. runner'[r] = NoRun \/ (runner'[r].pc # "idle" /\ runner'[r].token = runner[r].token
                                /\ runner[r].pc # "idle")
    BY <1>2
  <2> QED BY <1>3, <2>1, HoldersStay
<1>5. Quiet(r)'
  BY <1>2 DEF Quiet, NoRun
<1> QED BY <1>3, <1>4, <1>5

LEMMA LeavesQuietly ==
  ASSUME TypeInv, LeaseInv, NEW r \in Runners,
         FinalizeRefused(r) \/ RunnerError(r) \/ RunnerCrash(r)
  PROVE  LeaseInv' /\ Harmless
<1>1. UNCHANGED jobs /\ runner[r].pc # "idle"
  BY DEF FinalizeRefused, RunnerError, RunnerCrash, database, LeaseInv, OneHolder, NoRun
<1>2. OneHolder' /\ Quiet(r)' /\ \A s \in Runners : s # r => runner'[s] = runner[s]
  <2>1. CASE LeaveJob(r)
    BY <1>1, <2>1, LeaveHolds
  <2>2. CASE RunnerCrash(r)
    <3>1. runner'[r] = NoRun /\ \A s \in Runners : s # r => runner'[s] = runner[s]
      BY <2>2 DEF RunnerCrash, TypeInv, TypeOK
    <3>2. Quiet(r)'
      BY <3>1 DEF Quiet, NoRun
    <3>3. OneHolder'
      BY <3>1, HoldersStay
    <3> QED BY <3>1, <3>2, <3>3
  <2> QED BY <2>1, <2>2 DEF FinalizeRefused, RunnerError
<1>3. CompletedIsQuiet'
  BY <1>1, <1>2, QuietStays DEF CompletedIsQuiet, HoldsToken
<1>4. Harmless
  BY <1>1, JobUnwritten DEF Harmless
<1>5. DoneIsCompleted' /\ UnrequestedIsBlank'
  BY <1>1, LeasesStay DEF SameLease
<1> QED BY <1>2, <1>3, <1>4, <1>5 DEF LeaseInv

(* From the look at the next job to the deletion of its bytes: a completed  *)
(* job has nothing left to purge.                                           *)
LEMMA ListLeases ==
  ASSUME TypeInv, DeletionInv, LeaseInv, NEW r \in Runners, ListObjects(r)
  PROVE  LeaseInv' /\ Harmless
<1>1. UNCHANGED jobs /\ runner[r].pc = "next" /\ runner[r] \in Run /\ runner \in [Runners -> Run]
  BY DEF ListObjects, database, TypeInv, TypeOK
<1>2. PICK j \in runner[r].queue :
        runner' = [runner EXCEPT ![r] =
          [runner[r] EXCEPT !.pc = "erase", !.job = j, !.queue = runner[r].queue \ {j},
                            !.todo = jobs[j].manifest \ jobs[j].purged]]
  BY DEF ListObjects
<1>3. /\ runner'[r].pc = "erase" /\ runner'[r].job = j /\ runner'[r].token = runner[r].token
      /\ runner'[r].todo = jobs[j].manifest \ jobs[j].purged
      /\ \A s \in Runners : s # r => runner'[s] = runner[s]
  BY <1>1, <1>2 DEF Run
<1>4. j \in Jobs
  BY <1>1 DEF Run
<1>5. Quiet(r)'
  BY <1>1, <1>3, <1>4 DEF Quiet, DeletionInv, CompletedIsPurged
<1>6. CompletedIsQuiet'
  BY <1>1, <1>3, <1>5, QuietStays DEF CompletedIsQuiet, HoldsToken
<1>7. OneHolder'
  BY <1>1, <1>3, HoldersStay
<1>8. DoneIsCompleted' /\ UnrequestedIsBlank'
  BY <1>1, LeasesStay DEF SameLease
<1>9. Harmless
  BY <1>1, JobUnwritten DEF Harmless
<1> QED BY <1>6, <1>7, <1>8, <1>9 DEF LeaseInv

LEMMA EraseLeases ==
  ASSUME TypeInv, LeaseInv, NEW r \in Runners, NEW k \in Keys,
         EraseObject(r, k) \/ EraseFails(r, k)
  PROVE  LeaseInv' /\ Harmless
<1>1. /\ UNCHANGED jobs /\ runner[r].pc = "erase" /\ k \in runner[r].todo
      /\ runner[r] \in Run /\ runner \in [Runners -> Run]
  BY DEF EraseObject, EraseFails, database, TypeInv, TypeOK
<1>2. /\ runner'[r].pc # "idle" /\ runner'[r].token = runner[r].token
      /\ runner'[r].job = runner[r].job
      /\ \A s \in Runners : s # r => runner'[s] = runner[s]
  <2>1. CASE EraseObject(r, k)
    BY <1>1, <2>1 DEF EraseObject, Run
  <2>2. CASE EraseFails(r, k)
    BY <1>1, <2>2 DEF EraseFails, Run
  <2> QED BY <2>1, <2>2
<1>3. ~(HoldsToken(r, runner[r].job) /\ jobs[runner[r].job].purge = "completed")
  BY <1>1 DEF LeaseInv, CompletedIsQuiet, Quiet
<1>4. Quiet(r)'
  BY <1>1, <1>2, <1>3 DEF Quiet, HoldsToken
<1>5. CompletedIsQuiet'
  BY <1>1, <1>2, <1>4, QuietStays DEF CompletedIsQuiet, HoldsToken
<1>6. OneHolder'
  BY <1>1, <1>2, HoldersStay
<1>7. DoneIsCompleted' /\ UnrequestedIsBlank'
  BY <1>1, LeasesStay DEF SameLease
<1>8. Harmless
  BY <1>1, JobUnwritten DEF Harmless
<1> QED BY <1>5, <1>6, <1>7, <1>8 DEF LeaseInv

(* The mark is not guarded by the lease: on a job that is done it marks     *)
(* what is marked already.                                                  *)
LEMMA MarkPurgedLeases ==
  ASSUME TypeInv, DeletionInv, LeaseInv, NEW r \in Runners, MarkPurged(r)
  PROVE  LeaseInv' /\ Harmless
<1>1. PICK j \in Jobs : j = runner[r].job
  BY DEF TypeInv, PlacesOK, MarkPurged
<1>2. /\ runner[r].pc = "mark" /\ runner[r] \in Run /\ runner \in [Runners -> Run]
      /\ jobs[j] \in Job /\ jobs \in [Jobs -> Job]
  BY DEF MarkPurged, TypeInv, TypeOK
<1>3. /\ jobs'[j] = [jobs[j] EXCEPT !.purged = jobs[j].purged \cup {runner[r].key}]
      /\ \A i \in Jobs : i # j => jobs'[i] = jobs[i]
  BY <1>1, <1>2 DEF MarkPurged
<1>4. \A i \in Jobs : SameLease(i)
  BY <1>2, <1>3 DEF SameLease, Job
<1>5. /\ runner'[r].pc = "erase" /\ runner'[r].token = runner[r].token
      /\ runner'[r].job = runner[r].job
      /\ \A s \in Runners : s # r => runner'[s] = runner[s]
  BY <1>2 DEF MarkPurged, Run
<1>6. ~(HoldsToken(r, j) /\ jobs[j].purge = "completed")
  BY <1>1, <1>2 DEF LeaseInv, CompletedIsQuiet, Quiet
<1>7. Quiet(r)'
  BY <1>1, <1>4, <1>5, <1>6 DEF Quiet, HoldsToken, SameLease
<1>8. CompletedIsQuiet'
  BY <1>4, <1>5, <1>7, QuietStays DEF CompletedIsQuiet, HoldsToken, SameLease
<1>9. OneHolder'
  BY <1>2, <1>5, HoldersStay
<1>10. Harmless
  <2>1. ~jobs[j].cancelled /\ runner[r].key \in jobs[j].manifest
    BY <1>1, <1>2 DEF DeletionInv, RunsEraseTheirManifest, KeepsToManifest, Irrevocable
  <2>2. jobs[j].dbDone => jobs'[j] = jobs[j]
    <3>1. jobs[j].dbDone => runner[r].key \in jobs[j].purged
      BY <2>1 DEF LeaseInv, DoneIsCompleted, DeletionInv, CompletedIsPurged
    <3>2. jobs[j].dbDone => jobs[j].purged \cup {runner[r].key} = jobs[j].purged
      BY <3>1
    <3> QED BY <1>2, <1>3, <3>2 DEF Job
  <2> QED BY <1>3, <1>4, <2>1, <2>2, JobUnwritten DEF Harmless, SameLease
<1> QED BY <1>4, <1>8, <1>9, <1>10, LeasesStay DEF LeaseInv

(* The token tells whether the job is still the run's own; then it is not   *)
(* completed.                                                               *)
LEMMA MarkFailedLeases ==
  ASSUME TypeInv, DeletionInv, LeaseInv, NEW r \in Runners, MarkFailed(r)
  PROVE  LeaseInv' /\ Harmless
<1>1. PICK j \in Jobs : j = runner[r].job
  BY DEF TypeInv, PlacesOK, MarkFailed
<1>2. /\ runner[r].pc = "fail" /\ LeaveJob(r)
      /\ jobs[j] \in Job /\ jobs \in [Jobs -> Job]
  BY DEF MarkFailed, TypeInv, TypeOK
<1>3. OneHolder' /\ Quiet(r)' /\ \A s \in Runners : s # r => runner'[s] = runner[s]
  BY <1>2, LeaveHolds
<1>4. CASE jobs' = jobs
  <2>1. CompletedIsQuiet'
    BY <1>3, <1>4, QuietStays DEF CompletedIsQuiet, HoldsToken
  <2>2. Harmless
    BY <1>4, JobUnwritten DEF Harmless
  <2>3. DoneIsCompleted' /\ UnrequestedIsBlank'
    BY <1>4, LeasesStay DEF SameLease
  <2> QED BY <1>3, <2>1, <2>2, <2>3 DEF LeaseInv
<1>5. CASE HoldsToken(r, j) /\ jobs' = [jobs EXCEPT ![j].purge = "failed"]
  <2>1. jobs[j].purge # "completed" /\ ~jobs[j].dbDone /\ ~jobs[j].cancelled /\ Requested(j)
    BY <1>1, <1>2, <1>5
       DEF LeaseInv, CompletedIsQuiet, Quiet, DoneIsCompleted, DeletionInv,
           RunsEraseTheirManifest, KeepsToManifest, Irrevocable
  <2>2. /\ jobs'[j] = [jobs[j] EXCEPT !.purge = "failed"]
        /\ \A i \in Jobs : i # j => jobs'[i] = jobs[i]
    BY <1>2, <1>5
  <2>3. /\ jobs'[j].purge = "failed" /\ jobs'[j].project = jobs[j].project
        /\ jobs'[j].dbDone = jobs[j].dbDone
    BY <1>2, <2>2 DEF Job
  <2>4. CompletedIsQuiet'
    BY <1>3, <2>2, <2>3, QuietStays DEF CompletedIsQuiet, HoldsToken
  <2>5. DoneIsCompleted' /\ UnrequestedIsBlank'
    BY <2>1, <2>2, <2>3 DEF LeaseInv, DoneIsCompleted, UnrequestedIsBlank, Requested
  <2>6. Harmless
    BY <2>1, <2>2, JobUnwritten DEF Harmless
  <2> QED BY <1>3, <2>4, <2>5, <2>6 DEF LeaseInv
<1> QED BY <1>1, <1>4, <1>5 DEF MarkFailed

LEMMA StorageDoneLeases ==
  ASSUME TypeInv, DeletionInv, LeaseInv, NEW r \in Runners, StorageDone(r)
  PROVE  LeaseInv' /\ Harmless
<1>1. PICK j \in Jobs : j = runner[r].job
  BY DEF TypeInv, PlacesOK, StorageDone
<1>2. /\ runner[r].pc = "erase" /\ runner[r] \in Run /\ runner \in [Runners -> Run]
      /\ jobs[j] \in Job /\ jobs \in [Jobs -> Job]
  BY DEF StorageDone, TypeInv, TypeOK
<1>3. CASE jobs' = jobs /\ LeaveJob(r)
  <2>1. OneHolder' /\ Quiet(r)' /\ \A s \in Runners : s # r => runner'[s] = runner[s]
    BY <1>2, <1>3, LeaveHolds
  <2>2. CompletedIsQuiet'
    BY <1>3, <2>1, QuietStays DEF CompletedIsQuiet, HoldsToken
  <2>3. Harmless
    BY <1>3, JobUnwritten DEF Harmless
  <2>4. DoneIsCompleted' /\ UnrequestedIsBlank'
    BY <1>3, LeasesStay DEF SameLease
  <2> QED BY <2>1, <2>2, <2>3, <2>4 DEF LeaseInv
<1>4. CASE /\ HoldsToken(r, j)
           /\ jobs' = [jobs EXCEPT ![j].purge = "completed"]
           /\ runner' = [runner EXCEPT ![r] = [@ EXCEPT !.pc = "finalize"]]
  <2>1. Requested(j) /\ ~jobs[j].cancelled
    BY <1>1, <1>2 DEF DeletionInv, RunsEraseTheirManifest, KeepsToManifest, Irrevocable
  <2>2. /\ jobs'[j] = [jobs[j] EXCEPT !.purge = "completed"]
        /\ \A i \in Jobs : i # j => jobs'[i] = jobs[i]
    BY <1>2, <1>4
  <2>3. /\ jobs'[j].purge = "completed" /\ jobs'[j].project = jobs[j].project
        /\ jobs'[j].token = jobs[j].token
    BY <1>2, <2>2 DEF Job
  <2>4. /\ runner'[r].pc = "finalize" /\ runner'[r].token = runner[r].token
        /\ \A s \in Runners : s # r => runner'[s] = runner[s]
    BY <1>2, <1>4 DEF Run
  <2>5. OneHolder'
    BY <1>2, <2>4, HoldersStay
  <2>6. ASSUME NEW s \in Runners PROVE Quiet(s)'
    <3>1. CASE s = r
      BY <2>4, <3>1 DEF Quiet
    <3>2. CASE s # r
      <4>1. ~HoldsToken(s, j)
        BY <1>2, <1>4, <3>2 DEF HoldsToken, LeaseInv, OneHolder
      <4> QED BY <2>2, <2>3, <2>4, <3>2, <4>1, QuietStays DEF HoldsToken
    <3> QED BY <3>1, <3>2
  <2>7. DoneIsCompleted' /\ UnrequestedIsBlank'
    <3>1. \A i \in Jobs : i # j => jobs'[i] = jobs[i]
      BY <2>2
    <3> QED BY <2>1, <2>3, <3>1 DEF LeaseInv, DoneIsCompleted, UnrequestedIsBlank, Requested
  <2>8. Harmless
    <3>1. jobs[j].dbDone => jobs'[j] = jobs[j]
      BY <1>2, <2>2 DEF LeaseInv, DoneIsCompleted, Job
    <3> QED BY <2>1, <2>2, <2>3, <3>1, JobUnwritten DEF Harmless
  <2> QED BY <2>5, <2>6, <2>7, <2>8 DEF LeaseInv, CompletedIsQuiet
<1> QED BY <1>1, <1>3, <1>4 DEF StorageDone

LEMMA FinalizeLeases ==
  ASSUME TypeInv, LeaseInv, NEW r \in Runners, Finalize(r)
  PROVE  LeaseInv' /\ Harmless
<1>1. PICK j \in Jobs : j = runner[r].job
  BY DEF TypeInv, PlacesOK, Finalize
<1>2. /\ runner[r].pc = "finalize" /\ LeaveJob(r) /\ Active(j) /\ jobs[j].purge = "completed"
      /\ jobs[j] \in Job /\ jobs \in [Jobs -> Job]
  BY <1>1 DEF Finalize, OwnsCompletedJob, TypeInv, TypeOK
<1>3. /\ jobs'[j] = [jobs[j] EXCEPT !.dbDone = TRUE]
      /\ \A i \in Jobs : i # j => jobs'[i] = jobs[i]
  BY <1>1, <1>2 DEF Finalize
<1>4. /\ jobs'[j].purge = "completed" /\ jobs'[j].token = jobs[j].token
      /\ jobs'[j].project = jobs[j].project
  BY <1>2, <1>3 DEF Job
<1>5. OneHolder' /\ Quiet(r)' /\ \A s \in Runners : s # r => runner'[s] = runner[s]
  BY <1>2, LeaveHolds
<1>6. CompletedIsQuiet'
  BY <1>2, <1>3, <1>4, <1>5, QuietStays DEF CompletedIsQuiet, HoldsToken
<1>7. DoneIsCompleted' /\ UnrequestedIsBlank'
  BY <1>2, <1>3, <1>4 DEF LeaseInv, DoneIsCompleted, UnrequestedIsBlank, Requested, Active
<1>8. Harmless
  BY <1>2, <1>3, <1>4, JobUnwritten DEF Harmless, Active
<1> QED BY <1>5, <1>6, <1>7, <1>8 DEF LeaseInv

-----------------------------------------------------------------------------
(* Stale runners.                                                           *)

LEMMA LeaseStep == TypeInv /\ DeletionInv /\ LeaseInv /\ [Next]_vars => LeaseInv' /\ Harmless
<1> SUFFICES ASSUME TypeInv, DeletionInv, LeaseInv, [Next]_vars PROVE LeaseInv' /\ Harmless
  OBVIOUS
<1>1. CASE UNCHANGED vars
  BY <1>1, LeaseFrame DEF vars, database
<1>2. CASE Next
  <2>1. CASE \E a \in Admins : LifecycleStep(a)
    BY <2>1, LeaseFrame DEF LifecycleStep, ReadProject, CheckNoActiveJob, WriteTransition, database
  <2>2. CASE RequestStep
    <3>1. CASE \E p \in Projects : Publish(p)
      BY <3>1, LeaseFrame DEF Publish
    <3> QED BY <2>2, <3>1, RequestLeases, CancelLeases DEF RequestStep
  <2>3. CASE \E j \in Jobs : GraceElapses(j) \/ LeaseExpires(j)
    BY <2>3, ClockLeases
  <2>4. CASE \E r \in Runners : RunnerStep(r) \/ RunnerFault(r)
    BY <2>4, ClaimLeases, LeavesQuietly, ListLeases, EraseLeases, MarkPurgedLeases,
       MarkFailedLeases, StorageDoneLeases, FinalizeLeases DEF RunnerStep, RunnerFault
  <2>5. CASE \/ \E u \in Uploaders, p \in Projects : UploadLock(u, p)
             \/ \E u \in Uploaders : UploadEnds(u) \/ UploadFault(u)
             \/ \E k \in Keys : SweepBacklog(k) \/ SweepInterrupted(k)
    <3>1. UNCHANGED <<jobs, runner>>
      BY <2>5 DEF UploadLock, UploadEnds, UploadFault, UploadSave, UploadSaveFails, UploadCommit,
         UploadCommitLost, UploadRollback, Compensate, CompensateFails, RecordInBacklog,
         RecordInBacklogFails, UploadCrash, SweepBacklog, SweepInterrupted, database
    <3> QED BY <3>1, LeaseFrame
  <2> QED BY <1>2, <2>1, <2>2, <2>3, <2>4, <2>5 DEF Next
<1> QED BY <1>1, <1>2

(* A runner that lost its lease never takes a job back from "completed",    *)
(* and writes nothing to a job that was cancelled or is done.               *)
THEOREM StaleRunnersTheorem == Spec => StaleRunnersHarmless
<1>1. Init => LeaseInv
  BY LeaseInit
<1>2. (TypeInv /\ DeletionInv) /\ LeaseInv /\ [Next]_vars => LeaseInv' /\ [Harmless]_vars
  BY LeaseStep
<1>3. [][Harmless]_vars => StaleRunnersHarmless
  BY PTL DEF Harmless, StaleRunnersHarmless
<1> QED BY <1>1, <1>2, <1>3, DeletionInvariant, PTL DEF Spec

=============================================================================
