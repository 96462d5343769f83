------------------------ MODULE ProjectDeletionSafety ------------------------
(***************************************************************************)
(* Types and the safety properties of ProjectDeletion hold in every        *)
(* instance: any number of projects, keys, jobs, runners, uploads and      *)
(* faults.                                                                 *)
(*                                                                         *)
(* The proof follows DeletionInv.  Its heart: an upload holds the lock of  *)
(* its project from the look at the jobs to the commit, so the manifest    *)
(* captured by a request stays the set of the project's assets until the   *)
(* job ends; a purged key keeps its asset row, so it is never fresh again  *)
(* and its bytes never come back; and a runner only ever works for a job   *)
(* that is past the point where it can be cancelled.                       *)
(***************************************************************************)
EXTENDS ProjectDeletionInvariant, TLAPS

-----------------------------------------------------------------------------
(* Type correctness.  TypeOK alone is not inductive: that a marked key and  *)
(* an acknowledged key are keys follows from where their process stands.    *)

PlacesOK ==
  /\ \A r \in Runners :
       /\ runner[r].pc \in {"erase", "mark", "fail", "finalize"} => runner[r].job \in Jobs
       /\ runner[r].pc = "mark" => runner[r].key \in Keys
  /\ \A u \in Uploaders :
       /\ upload[u].pc \in {"locked", "saved"} => upload[u].project \in Projects
       /\ upload[u].pc \in {"saved", "compensate", "backlog"} => upload[u].key \in Keys

TypeInv == TypeOK /\ PlacesOK

LEMMA TypeInit == Init => TypeInv
<1> SUFFICES ASSUME Init PROVE TypeInv
  OBVIOUS
<1> USE DEF Init
<1>1. /\ status \in [Projects -> LiveStatus \cup {"gone"}]
      /\ previous \in [Projects -> ReturnStatus \cup {None}]
  BY DEF LiveStatus, ReturnStatus
<1>2. jobs \in [Jobs -> Job]
  BY DEF NoJob, Job, PurgeState
<1>3. transition \in [Admins -> Transition]
  BY DEF NoTransition, Transition, LiveStatus, ReturnStatus
<1>4. runner \in [Runners -> Run]
  BY DEF NoRun, Run
<1>5. upload \in [Uploaders -> Upload]
  BY DEF NoUpload, Upload
<1>6. faults \in 0..MaxFaults
  BY BoundsAreNumbers
<1>7. TypeOK
  BY <1>1, <1>2, <1>3, <1>4, <1>5, <1>6 DEF TypeOK
<1>8. PlacesOK
  BY DEF PlacesOK, NoRun, NoUpload
<1> QED
  BY <1>7, <1>8 DEF TypeInv

LEMMA FaultType ==
  ASSUME TypeOK, Fault
  PROVE  faults' \in 0..MaxFaults
BY BoundsAreNumbers DEF TypeOK, Fault

LEMMA LifecycleTypes ==
  ASSUME TypeInv, NEW a \in Admins, LifecycleStep(a)
  PROVE  TypeInv'
<1> USE DEF TypeInv, database
<1>1. ASSUME NEW p \in Projects, NEW to \in LiveStatus \cup {"restore"},
             ReadProject(a, p, to)
      PROVE  TypeInv'
  <2>1. status[p] \in LiveStatus /\ previous[p] \in ReturnStatus \cup {None}
    BY <1>1 DEF TypeOK, ReadProject
  <2>2. transition' \in [Admins -> Transition]
    BY <1>1, <2>1 DEF TypeOK, ReadProject, Transition
  <2> QED
    BY <1>1, <2>2 DEF TypeOK, PlacesOK, ReadProject
<1>2. CASE CheckNoActiveJob(a)
  <2>1. transition' \in [Admins -> Transition]
    BY <1>2 DEF TypeOK, CheckNoActiveJob, Transition, NoTransition, LiveStatus,
                ReturnStatus
  <2> QED
    BY <1>2, <2>1 DEF TypeOK, PlacesOK, CheckNoActiveJob
<1>3. CASE WriteTransition(a)
  <2> DEFINE t == transition[a]
  <2>1. t \in Transition
    BY DEF TypeOK
  <2>2. NextStatus(t) \in LiveStatus
    BY <2>1 DEF NextStatus, Transition, LiveStatus, ReturnStatus
  <2>3. NextPrevious(t) # "archived" => NextPrevious(t) \in ReturnStatus \cup {None}
    BY <2>1 DEF NextPrevious, Transition, LiveStatus, ReturnStatus
  <2>4. status' \in [Projects -> LiveStatus \cup {"gone"}]
    BY <1>3, <2>2 DEF TypeOK, WriteTransition
  <2>5. previous' \in [Projects -> ReturnStatus \cup {None}]
    BY <1>3, <2>3 DEF TypeOK, WriteTransition, RowAccepts
  <2>6. transition' \in [Admins -> Transition]
    BY <1>3 DEF TypeOK, WriteTransition, Transition, NoTransition, LiveStatus
  <2> QED
    BY <1>3, <2>4, <2>5, <2>6 DEF TypeOK, PlacesOK, WriteTransition
<1> QED
  BY <1>1, <1>2, <1>3 DEF LifecycleStep

(* Every write of a job row yields a job.                                   *)
LEMMA JobFields ==
  ASSUME NEW x \in Job
  PROVE  /\ [x EXCEPT !.cancelled = TRUE] \in Job
         /\ [x EXCEPT !.due = TRUE] \in Job
         /\ [x EXCEPT !.leased = FALSE] \in Job
         /\ [x EXCEPT !.dbDone = TRUE] \in Job
         /\ [x EXCEPT !.purge = "failed"] \in Job
         /\ [x EXCEPT !.purge = "completed"] \in Job
         /\ \A k \in Keys : [x EXCEPT !.purged = @ \cup {k}] \in Job
BY DEF Job, PurgeState

LEMMA RequestTypes ==
  ASSUME TypeInv,
         RequestStep \/ \E j \in Jobs : GraceElapses(j) \/ LeaseExpires(j)
  PROVE  TypeInv'
<1> USE DEF TypeInv
<1>1. ASSUME NEW p \in Projects, Publish(p)
      PROVE  TypeInv'
  BY <1>1 DEF TypeOK, PlacesOK, Publish
<1>2. ASSUME NEW p \in Projects, NEW j \in Jobs, RequestDeletion(p, j)
      PROVE  TypeInv'
  <2>1. jobs' \in [Jobs -> Job]
    BY <1>2 DEF TypeOK, RequestDeletion, CapturedManifest, AssetsOf, NoJob, Job, PurgeState
  <2> QED
    BY <1>2, <2>1 DEF TypeOK, PlacesOK, RequestDeletion
<1>3. ASSUME NEW j \in Jobs, CancelDeletion(j)
      PROVE  TypeInv'
  <2>1. jobs' \in [Jobs -> Job]
    BY <1>3, JobFields DEF TypeOK, CancelDeletion
  <2> QED
    BY <1>3, <2>1 DEF TypeOK, PlacesOK, CancelDeletion
<1>4. ASSUME NEW j \in Jobs, GraceElapses(j)
      PROVE  TypeInv'
  <2>1. jobs' \in [Jobs -> Job]
    BY <1>4, JobFields DEF TypeOK, GraceElapses
  <2> QED
    BY <1>4, <2>1 DEF TypeOK, PlacesOK, GraceElapses
<1>5. ASSUME NEW j \in Jobs, LeaseExpires(j)
      PROVE  TypeInv'
  <2>1. jobs' \in [Jobs -> Job]
    BY <1>5, JobFields DEF TypeOK, LeaseExpires
  <2>2. faults' \in 0..MaxFaults
    BY <1>5, FaultType DEF TypeOK, LeaseExpires
  <2> QED
    BY <1>5, <2>1, <2>2 DEF TypeOK, PlacesOK, LeaseExpires
<1> QED
  BY <1>1, <1>2, <1>3, <1>4, <1>5 DEF RequestStep

(* Leaving a job leaves a run that is between two jobs, or at its end.      *)
LEMMA LeaveJobTypes ==
  ASSUME TypeInv, NEW r \in Runners, LeaveJob(r)
  PROVE  /\ runner' \in [Runners -> Run]
         /\ runner'[r].pc \in {"idle", "next"}
         /\ \A s \in Runners : s # r => runner'[s] = runner[s]
<1>1. runner \in [Runners -> Run]
  BY DEF TypeInv, TypeOK
<1> QED
  BY <1>1 DEF LeaveJob, Run, NoRun

(* Every other step of a run yields a run: it is well placed when its job   *)
(* and the key to be marked are.                                            *)
LEMMA RunFields ==
  ASSUME NEW x \in Run
  PROVE  /\ \A j \in Jobs, S \in SUBSET Keys :
              [x EXCEPT !.pc = "erase", !.job = j, !.queue = x.queue \ {j}, !.todo = S] \in Run
         /\ \A k \in Keys : [x EXCEPT !.pc = "mark", !.key = k] \in Run
         /\ [x EXCEPT !.pc = "fail", !.todo = {}] \in Run
         /\ \A k \in Keys :
              [x EXCEPT !.pc = "erase", !.todo = x.todo \ {k}, !.key = None] \in Run
         /\ [x EXCEPT !.pc = "finalize"] \in Run
BY DEF Run

LEMMA RunPlaced ==
  ASSUME TypeInv, NEW r \in Runners, NEW run \in Run,
         runner' = [runner EXCEPT ![r] = run], upload' = upload,
         run.pc \in {"erase", "mark", "fail", "finalize"} => run.job \in Jobs,
         run.pc = "mark" => run.key \in Keys
  PROVE  runner' \in [Runners -> Run] /\ PlacesOK'
<1>1. runner \in [Runners -> Run]
  BY DEF TypeInv, TypeOK
<1>2. runner' \in [Runners -> Run]
  BY <1>1
<1>3. runner'[r] = run /\ \A s \in Runners : s # r => runner'[s] = runner[s]
  BY <1>1
<1> QED
  BY <1>2, <1>3 DEF TypeInv, PlacesOK

LEMMA RunnerTypes ==
  ASSUME TypeInv, NEW r \in Runners, RunnerStep(r) \/ RunnerFault(r)
  PROVE  TypeInv'
<1> USE DEF TypeInv, database
<1> DEFINE x == runner[r]
<1>0. x \in Run /\ runner \in [Runners -> Run] /\ jobs \in [Jobs -> Job]
  BY DEF TypeOK
<1>1. CASE Claim(r)
  <2>1. PICK t \in Tokens :
          /\ jobs' = [j \in Jobs |->
               IF j \in OldestClaimable
               THEN [jobs[j] EXCEPT !.token = t, !.leased = TRUE,
                                    !.purge = IF @ = "completed" THEN @ ELSE "in_progress"]
               ELSE jobs[j]]
          /\ runner' = [runner EXCEPT ![r] =
               [NoRun EXCEPT !.pc = "next", !.token = t, !.queue = OldestClaimable]]
    BY <1>1 DEF Claim
  <2>2. ASSUME NEW j \in Jobs
        PROVE  [jobs[j] EXCEPT !.token = t, !.leased = TRUE,
                               !.purge = IF @ = "completed" THEN @ ELSE "in_progress"] \in Job
    BY <1>0 DEF Job, PurgeState
  <2>3. jobs' \in [Jobs -> Job]
    BY <1>0, <2>1, <2>2
  <2>4. OldestClaimable \in SUBSET Jobs
    BY DEF OldestClaimable
  <2> DEFINE run == [NoRun EXCEPT !.pc = "next", !.token = t, !.queue = OldestClaimable]
  <2>5. run \in Run /\ run.pc = "next"
    BY <2>4 DEF Run, NoRun
  <2>6. runner' \in [Runners -> Run] /\ PlacesOK'
    BY <1>1, <2>1, <2>5, RunPlaced DEF Claim
  <2> QED
    BY <1>1, <2>3, <2>6 DEF TypeOK, Claim
<1>2. CASE ListObjects(r)
  <2>1. PICK j \in x.queue :
          runner' = [runner EXCEPT ![r] =
            [x EXCEPT !.pc = "erase", !.job = j, !.queue = x.queue \ {j},
                      !.todo = jobs[j].manifest \ jobs[j].purged]]
    BY <1>2 DEF ListObjects
  <2>2. j \in Jobs
    BY <1>0 DEF Run
  <2>3. jobs[j].manifest \ jobs[j].purged \in SUBSET Keys
    BY <1>0, <2>2 DEF Job
  <2> DEFINE run == [x EXCEPT !.pc = "erase", !.job = j, !.queue = x.queue \ {j},
                              !.todo = jobs[j].manifest \ jobs[j].purged]
  <2>4. run \in Run /\ run.pc = "erase" /\ run.job = j
    BY <1>0, <2>2, <2>3, RunFields DEF Run
  <2>5. runner' \in [Runners -> Run] /\ PlacesOK'
    BY <1>2, <2>1, <2>2, <2>4, RunPlaced DEF ListObjects
  <2> QED
    BY <1>2, <2>5 DEF TypeOK, ListObjects
<1>3. ASSUME NEW k \in Keys, EraseObject(r, k)
      PROVE  TypeInv'
  <2> DEFINE run == [x EXCEPT !.pc = "mark", !.key = k]
  <2>1. run \in Run /\ run.pc = "mark" /\ run.job = x.job /\ run.key = k
    BY <1>0, RunFields DEF Run
  <2>2. x.job \in Jobs
    BY <1>3 DEF PlacesOK, EraseObject
  <2>3. runner' \in [Runners -> Run] /\ PlacesOK'
    BY <1>3, <2>1, <2>2, RunPlaced DEF EraseObject
  <2> QED
    BY <1>3, <2>3 DEF TypeOK, EraseObject
<1>4. ASSUME NEW k \in Keys, EraseFails(r, k)
      PROVE  TypeInv'
  <2> DEFINE run == [x EXCEPT !.pc = "fail", !.todo = {}]
  <2>1. run \in Run /\ run.pc = "fail" /\ run.job = x.job
    BY <1>0, RunFields DEF Run
  <2>2. x.job \in Jobs
    BY <1>4 DEF PlacesOK, EraseFails
  <2>3. runner' \in [Runners -> Run] /\ PlacesOK'
    BY <1>4, <2>1, <2>2, RunPlaced DEF EraseFails
  <2>4. faults' \in 0..MaxFaults
    BY <1>4, FaultType DEF EraseFails
  <2> QED
    BY <1>4, <2>3, <2>4 DEF TypeOK, EraseFails
<1>5. CASE MarkFailed(r)
  <2>1. jobs' \in [Jobs -> Job]
    BY <1>5, JobFields DEF TypeOK, MarkFailed
  <2> QED
    BY <1>5, <2>1, LeaveJobTypes DEF TypeOK, PlacesOK, MarkFailed
<1>6. CASE MarkPurged(r)
  <2>1. x.job \in Jobs /\ x.key \in Keys
    BY <1>6 DEF PlacesOK, MarkPurged
  <2>2. jobs' \in [Jobs -> Job]
    BY <1>6, <2>1, JobFields DEF TypeOK, MarkPurged
  <2> DEFINE run == [x EXCEPT !.pc = "erase", !.todo = x.todo \ {x.key}, !.key = None]
  <2>3. run \in Run /\ run.pc = "erase" /\ run.job = x.job
    BY <1>0, <2>1, RunFields DEF Run
  <2>4. runner' \in [Runners -> Run] /\ PlacesOK'
    BY <1>6, <2>1, <2>3, RunPlaced DEF MarkPurged
  <2> QED
    BY <1>6, <2>2, <2>4 DEF TypeOK, MarkPurged
<1>7. CASE StorageDone(r)
  <2>1. x.job \in Jobs
    BY <1>7 DEF PlacesOK, StorageDone
  <2>2. CASE jobs' = jobs /\ LeaveJob(r)
    BY <1>7, <2>2, LeaveJobTypes DEF TypeOK, PlacesOK, StorageDone
  <2>3. CASE /\ jobs' = [jobs EXCEPT ![x.job].purge = "completed"]
             /\ runner' = [runner EXCEPT ![r] = [x EXCEPT !.pc = "finalize"]]
    <3>1. jobs' \in [Jobs -> Job]
      BY <1>0, <2>1, <2>3, JobFields
    <3> DEFINE run == [x EXCEPT !.pc = "finalize"]
    <3>2. run \in Run /\ run.pc = "finalize" /\ run.job = x.job
      BY <1>0, RunFields DEF Run
    <3>3. runner' \in [Runners -> Run] /\ PlacesOK'
      BY <1>7, <2>1, <2>3, <3>2, RunPlaced DEF StorageDone
    <3> QED
      BY <1>7, <3>1, <3>3 DEF TypeOK, StorageDone
  <2> QED
    BY <1>7, <2>2, <2>3 DEF StorageDone
<1>8. CASE Finalize(r)
  <2>1. jobs' \in [Jobs -> Job]
    BY <1>8, JobFields DEF TypeOK, Finalize
  <2>2. status' \in [Projects -> LiveStatus \cup {"gone"}]
    BY <1>8 DEF TypeOK, Finalize
  <2> QED
    BY <1>8, <2>1, <2>2, LeaveJobTypes DEF TypeOK, PlacesOK, Finalize
<1>9. CASE FinalizeRefused(r)
  BY <1>9, LeaveJobTypes DEF TypeOK, PlacesOK, FinalizeRefused
<1>10. CASE RunnerError(r)
  BY <1>10, LeaveJobTypes, FaultType DEF TypeOK, PlacesOK, RunnerError
<1>11. CASE RunnerCrash(r)
  <2>1. NoRun \in Run /\ NoRun.pc = "idle"
    BY DEF Run, NoRun
  <2>2. runner' \in [Runners -> Run] /\ PlacesOK'
    BY <1>11, <2>1, RunPlaced DEF RunnerCrash
  <2> QED
    BY <1>11, <2>2, FaultType DEF TypeOK, RunnerCrash
<1> QED
  BY <1>1, <1>2, <1>3, <1>4, <1>5, <1>6, <1>7, <1>8, <1>9, <1>10, <1>11
     DEF RunnerStep, RunnerFault

LEMMA UploadFields ==
  ASSUME NEW x \in Upload
  PROVE  /\ \A k \in Keys : [x EXCEPT !.pc = "saved", !.key = k] \in Upload
         /\ [x EXCEPT !.pc = "compensate"] \in Upload
         /\ [x EXCEPT !.pc = "backlog"] \in Upload
         /\ NoUpload \in Upload
BY DEF Upload, NoUpload

LEMMA UploadPlaced ==
  ASSUME TypeInv, NEW u \in Uploaders, NEW up \in Upload,
         upload' = [upload EXCEPT ![u] = up], runner' = runner,
         up.pc \in {"locked", "saved"} => up.project \in Projects,
         up.pc \in {"saved", "compensate", "backlog"} => up.key \in Keys
  PROVE  upload' \in [Uploaders -> Upload] /\ PlacesOK'
<1>1. upload \in [Uploaders -> Upload]
  BY DEF TypeInv, TypeOK
<1>2. upload' \in [Uploaders -> Upload]
  BY <1>1
<1>3. upload'[u] = up /\ \A v \in Uploaders : v # u => upload'[v] = upload[v]
  BY <1>1
<1> QED
  BY <1>2, <1>3 DEF TypeInv, PlacesOK

(* An upload that ends leaves the others as they were.                      *)
LEMMA UploadOver ==
  ASSUME TypeInv, NEW u \in Uploaders,
         upload' = [upload EXCEPT ![u] = NoUpload], runner' = runner
  PROVE  upload' \in [Uploaders -> Upload] /\ PlacesOK'
<1>1. NoUpload \in Upload /\ NoUpload.pc = "idle"
  BY DEF Upload, NoUpload
<1> QED
  BY <1>1, UploadPlaced

LEMMA UploadTypes ==
  ASSUME TypeInv, NEW u \in Uploaders,
         (\E p \in Projects : UploadLock(u, p)) \/ UploadEnds(u) \/ UploadFault(u)
  PROVE  TypeInv'
<1> USE DEF TypeInv, database
<1> DEFINE x == upload[u]
<1>0. x \in Upload /\ upload \in [Uploaders -> Upload]
  BY DEF TypeOK
<1>1. ASSUME NEW p \in Projects, UploadLock(u, p)
      PROVE  TypeInv'
  <2> DEFINE up == [pc |-> "locked", project |-> p, key |-> None]
  <2>1. up \in Upload /\ up.pc = "locked" /\ up.project = p
    BY DEF Upload
  <2>2. upload' \in [Uploaders -> Upload] /\ PlacesOK'
    BY <1>1, <2>1, UploadPlaced DEF UploadLock
  <2> QED
    BY <1>1, <2>2 DEF TypeOK, UploadLock
<1>2. ASSUME NEW k \in Keys, UploadSave(u, k)
      PROVE  TypeInv'
  <2> DEFINE up == [x EXCEPT !.pc = "saved", !.key = k]
  <2>1. up \in Upload /\ up.pc = "saved" /\ up.project = x.project /\ up.key = k
    BY <1>0, UploadFields DEF Upload
  <2>2. x.project \in Projects
    BY <1>2 DEF PlacesOK, UploadSave
  <2>3. upload' \in [Uploaders -> Upload] /\ PlacesOK'
    BY <1>2, <2>1, <2>2, UploadPlaced DEF UploadSave
  <2> QED
    BY <1>2, <2>3 DEF TypeOK, UploadSave
<1>3. ASSUME NEW k \in Keys, UploadSaveFails(u, k)
      PROVE  TypeInv'
  BY <1>3, UploadOver, FaultType DEF TypeOK, UploadSaveFails
<1>4. CASE UploadCommit(u)
  <2>1. x.key \in Keys /\ x.project \in Projects
    BY <1>4 DEF PlacesOK, UploadCommit
  <2> QED
    BY <1>4, <2>1, UploadOver DEF TypeOK, UploadCommit
<1>5. CASE UploadRollback(u) \/ UploadCommitLost(u)
  <2>1. x.key \in Keys /\ x.project \in Projects
    BY <1>5 DEF PlacesOK, UploadRollback, UploadCommitLost
  <2> DEFINE up == [x EXCEPT !.pc = "compensate"]
  <2>2. up \in Upload /\ up.pc = "compensate" /\ up.key = x.key
    BY <1>0, UploadFields DEF Upload
  <2>3. upload' \in [Uploaders -> Upload] /\ PlacesOK'
    BY <1>5, <2>1, <2>2, UploadPlaced DEF UploadRollback, UploadCommitLost
  <2>4. faults' \in 0..MaxFaults
    BY <1>5, FaultType DEF UploadRollback, UploadCommitLost
  <2> QED
    BY <1>5, <2>1, <2>3, <2>4 DEF TypeOK, UploadRollback, UploadCommitLost
<1>6. CASE Compensate(u)
  BY <1>6, UploadOver DEF TypeOK, Compensate
<1>7. CASE CompensateFails(u)
  <2>1. x.key \in Keys
    BY <1>7 DEF PlacesOK, CompensateFails
  <2> DEFINE up == [x EXCEPT !.pc = "backlog"]
  <2>2. up \in Upload /\ up.pc = "backlog" /\ up.key = x.key
    BY <1>0, UploadFields DEF Upload
  <2>3. upload' \in [Uploaders -> Upload] /\ PlacesOK'
    BY <1>7, <2>1, <2>2, UploadPlaced DEF CompensateFails
  <2> QED
    BY <1>7, <2>3, FaultType DEF TypeOK, CompensateFails
<1>8. CASE RecordInBacklog(u)
  <2>1. x.key \in Keys
    BY <1>8 DEF PlacesOK, RecordInBacklog
  <2> QED
    BY <1>8, <2>1, UploadOver DEF TypeOK, RecordInBacklog
<1>9. CASE RecordInBacklogFails(u)
  <2>1. x.key \in Keys
    BY <1>9 DEF PlacesOK, RecordInBacklogFails
  <2> QED
    BY <1>9, <2>1, UploadOver, FaultType DEF TypeOK, RecordInBacklogFails
<1>10. CASE UploadCrash(u)
  <2>1. {x.key} \ {None} \in SUBSET Keys
    BY <1>0 DEF Upload
  <2> QED
    BY <1>10, <2>1, UploadOver, FaultType DEF TypeOK, UploadCrash
<1> QED
  BY <1>1, <1>2, <1>3, <1>4, <1>5, <1>6, <1>7, <1>8, <1>9, <1>10
     DEF UploadEnds, UploadFault

LEMMA SweepTypes ==
  ASSUME TypeInv, NEW k \in Keys, SweepBacklog(k) \/ SweepInterrupted(k)
  PROVE  TypeInv'
BY FaultType DEF TypeInv, TypeOK, PlacesOK, SweepBacklog, SweepInterrupted, database

LEMMA TypeStep == TypeInv /\ [Next]_vars => TypeInv'
<1> SUFFICES ASSUME TypeInv, [Next]_vars PROVE TypeInv'
  OBVIOUS
<1>1. CASE UNCHANGED vars
  BY <1>1 DEF TypeInv, TypeOK, PlacesOK, vars, database
<1>2. CASE Next
  BY <1>2, LifecycleTypes, RequestTypes, RunnerTypes, UploadTypes, SweepTypes DEF Next
<1> QED
  BY <1>1, <1>2

(* Every reachable state is well typed: no statement, in any interleaving,  *)
(* writes a row outside its column's CHECK or a key that is none.           *)
THEOREM TypeCorrect == Spec => []TypeOK
<1>1. TypeInv => TypeOK
  BY DEF TypeInv
<1> QED
  BY <1>1, TypeInit, TypeStep, PTL DEF Spec

-----------------------------------------------------------------------------
(* The safety properties.                                                   *)

LEMMA SafetyInit == Init => DeletionInv
<1> SUFFICES ASSUME Init PROVE DeletionInv
  OBVIOUS
<1>1. \A j \in Jobs : /\ jobs[j].project = None /\ jobs[j].manifest = {}
                      /\ jobs[j].purged = {} /\ jobs[j].purge = "pending"
  BY DEF Init, NoJob
<1>2. \A r \in Runners : runner[r].pc = "idle" /\ runner[r].queue = {}
  BY DEF Init, NoRun
<1>3. \A u \in Uploaders : upload[u].pc = "idle" /\ upload[u].key = None
  BY DEF Init, NoUpload
<1>4. /\ storage = acked /\ backlog = {} /\ acked = {k \in Keys : owner[k] # None}
      /\ \A p \in Projects : status[p] # "gone"
  BY DEF Init
<1>5. ManifestsOwned /\ PurgedIsGone /\ CompletedIsPurged
  BY <1>1 DEF ManifestsOwned, PurgedIsGone, CompletedIsPurged
<1>6. RunsEraseTheirManifest
  BY <1>2 DEF RunsEraseTheirManifest, KeepsToManifest
<1>7. UploadsExcludeJobs /\ UploadsOwnTheirKey
  BY <1>3, <1>4, NoneIsNoValue DEF UploadsExcludeJobs, UploadsOwnTheirKey
<1>8. AcknowledgedIsOwned /\ ErasureIsTotal /\ AcknowledgedBytesKept /\ NoSilentOrphan
  BY <1>4 DEF AcknowledgedIsOwned, ErasureIsTotal, AcknowledgedBytesKept, NoSilentOrphan
<1>9. OneActiveJob /\ ManifestIsExact
  BY <1>1 DEF OneActiveJob, ManifestIsExact, Active, Requested
<1> QED
  BY <1>5, <1>6, <1>7, <1>8, <1>9 DEF DeletionInv

-----------------------------------------------------------------------------
(* Steps that write neither jobs, bytes, asset rows nor uploads, and delete *)
(* no project.                                                              *)
LEMMA QuietStep ==
  ASSUME DeletionInv, RunsEraseTheirManifest',
         UNCHANGED <<owner, jobs, storage, backlog, upload, acked, leaked>>,
         \A p \in Projects : status'[p] = "gone" <=> status[p] = "gone",
         TypeInv
  PROVE  DeletionInv'
<1>1. \A p \in Projects : AssetsOf(p)' = AssetsOf(p) /\ HasActiveJob(p)' = HasActiveJob(p)
  BY DEF AssetsOf, HasActiveJob, Active, Requested
<1>2. \A j \in Jobs : /\ Active(j)' = Active(j)
                      /\ Active(j) => jobs[j].project \in Projects
  BY DEF Active, Requested, TypeInv, TypeOK, Job
<1>3. ManifestIsExact'
  BY <1>1, <1>2 DEF ManifestIsExact, DeletionInv
<1>4. UploadsExcludeJobs'
  BY <1>1 DEF UploadsExcludeJobs, DeletionInv, TypeInv, PlacesOK
<1>5. OneActiveJob'
  BY <1>2 DEF OneActiveJob, DeletionInv
<1>6. ErasureIsTotal'
  BY DEF ErasureIsTotal, DeletionInv
<1>7. /\ ManifestsOwned' /\ PurgedIsGone' /\ CompletedIsPurged' /\ UploadsOwnTheirKey'
      /\ AcknowledgedIsOwned' /\ AcknowledgedBytesKept' /\ NoSilentOrphan'
  BY DEF DeletionInv, ManifestsOwned, PurgedIsGone, CompletedIsPurged, UploadsOwnTheirKey,
         AcknowledgedIsOwned, AcknowledgedBytesKept, NoSilentOrphan
<1> QED
  BY <1>3, <1>4, <1>5, <1>6, <1>7 DEF DeletionInv

LEMMA LifecycleKeeps ==
  ASSUME TypeInv, DeletionInv, NEW a \in Admins, LifecycleStep(a)
  PROVE  DeletionInv'
<1>1. UNCHANGED <<owner, jobs, storage, backlog, runner, upload, acked, leaked>>
  BY DEF LifecycleStep, ReadProject, CheckNoActiveJob, WriteTransition, database
<1>2. RunsEraseTheirManifest'
  BY <1>1 DEF DeletionInv, RunsEraseTheirManifest, KeepsToManifest, Irrevocable, Requested
<1>3. \A p \in Projects : status'[p] = "gone" <=> status[p] = "gone"
  <2>1. CASE status' = status
    BY <2>1
  <2>2. CASE WriteTransition(a)
    <3>1. NextStatus(transition[a]) # "gone"
      BY DEF TypeInv, TypeOK, NextStatus, Transition, LiveStatus, ReturnStatus
    <3> QED
      BY <2>2, <3>1 DEF WriteTransition, RowAccepts, TypeInv, TypeOK
  <2> QED
    BY <2>1, <2>2 DEF LifecycleStep, ReadProject, CheckNoActiveJob, database
<1> QED
  BY <1>1, <1>2, <1>3, QuietStep

LEMMA PublishKeeps ==
  ASSUME TypeInv, DeletionInv, NEW p \in Projects, Publish(p)
  PROVE  DeletionInv'
<1>1. UNCHANGED <<status, owner, jobs, storage, backlog, runner, upload, acked, leaked>>
  BY DEF Publish
<1>2. RunsEraseTheirManifest'
  BY <1>1 DEF DeletionInv, RunsEraseTheirManifest, KeepsToManifest, Irrevocable, Requested
<1> QED
  BY <1>1, <1>2, QuietStep

-----------------------------------------------------------------------------
(* Steps that write jobs but leave their project, manifest and end alone.   *)

SameJob(j) == /\ jobs'[j].project = jobs[j].project
              /\ jobs'[j].manifest = jobs[j].manifest
              /\ jobs'[j].cancelled = jobs[j].cancelled
              /\ jobs'[j].dbDone = jobs[j].dbDone
              /\ jobs[j].due => jobs'[j].due

LEMMA JobStep ==
  ASSUME TypeInv, DeletionInv, \A j \in Jobs : SameJob(j),
         UNCHANGED <<status, owner, storage, backlog, upload, acked, leaked>>,
         PurgedIsGone', CompletedIsPurged', RunsEraseTheirManifest'
  PROVE  DeletionInv'
<1>1. \A j \in Jobs : /\ Active(j)' = Active(j)
                      /\ Active(j) => jobs[j].project \in Projects
  BY DEF SameJob, Active, Requested, TypeInv, TypeOK, Job
<1>2. \A p \in Projects : AssetsOf(p)' = AssetsOf(p) /\ HasActiveJob(p)' = HasActiveJob(p)
  BY <1>1 DEF SameJob, AssetsOf, HasActiveJob
<1>3. ManifestIsExact'
  BY <1>1, <1>2 DEF SameJob, ManifestIsExact, DeletionInv
<1>4. UploadsExcludeJobs'
  BY <1>2 DEF UploadsExcludeJobs, DeletionInv, TypeInv, PlacesOK
<1>5. OneActiveJob'
  BY <1>1 DEF SameJob, OneActiveJob, DeletionInv
<1>6. ManifestsOwned'
  BY DEF SameJob, ManifestsOwned, DeletionInv
<1>7. AcknowledgedBytesKept'
  BY DEF SameJob, AcknowledgedBytesKept, DeletionInv
<1>8. UploadsOwnTheirKey' /\ AcknowledgedIsOwned' /\ ErasureIsTotal' /\ NoSilentOrphan'
  BY DEF DeletionInv, UploadsOwnTheirKey, AcknowledgedIsOwned, ErasureIsTotal, NoSilentOrphan
<1> QED
  BY <1>3, <1>4, <1>5, <1>6, <1>7, <1>8 DEF DeletionInv

(* All a run relies on.                                                     *)
StillIrrevocable ==
  \A j \in Jobs : /\ Irrevocable(j) => Irrevocable(j)'
                  /\ Requested(j) => jobs[j].manifest \subseteq jobs'[j].manifest

LEMMA SameIsIrrevocable ==
  ASSUME \A j \in Jobs : SameJob(j)
  PROVE  StillIrrevocable
BY DEF StillIrrevocable, SameJob, Irrevocable, Requested

(* Bytes of an asset never come back.                                       *)
NoReturn == \A k \in Keys : owner[k] # None /\ k \in storage' => k \in storage

(* A run that stays where it is keeps to its manifest.                      *)
LEMMA RunStays ==
  ASSUME TypeInv, DeletionInv, StillIrrevocable, NoReturn,
         NEW r \in Runners, runner'[r] = runner[r]
  PROVE  KeepsToManifest(r)'
<1>1. \A j \in Jobs : Irrevocable(j) => Irrevocable(j)'
  BY DEF StillIrrevocable
<1>2. runner[r].queue \subseteq Jobs
  BY DEF TypeInv, TypeOK, Run
<1>3. \A j \in runner'[r].queue : Irrevocable(j)'
  BY <1>1, <1>2 DEF DeletionInv, RunsEraseTheirManifest, KeepsToManifest
<1>4. ASSUME runner[r].pc \in {"erase", "mark", "fail", "finalize"}
      PROVE  /\ Irrevocable(runner[r].job)'
             /\ runner[r].todo \subseteq jobs'[runner[r].job].manifest
  BY <1>1, <1>4 DEF StillIrrevocable, DeletionInv, RunsEraseTheirManifest, KeepsToManifest, TypeInv,
                    PlacesOK, Irrevocable, Requested
<1>5. ASSUME runner[r].pc = "mark"
      PROVE  runner[r].key \in jobs'[runner[r].job].manifest \ storage'
  <2>1. runner[r].job \in Jobs /\ runner[r].key \in Keys
    BY <1>5 DEF TypeInv, PlacesOK
  <2>2. runner[r].key \in jobs[runner[r].job].manifest \ storage
    BY <1>5 DEF DeletionInv, RunsEraseTheirManifest, KeepsToManifest
  <2>3. owner[runner[r].key] # None
    BY <2>1, <2>2, NoneIsNoValue DEF DeletionInv, ManifestsOwned
  <2> QED
    BY <1>5, <2>1, <2>2, <2>3
       DEF StillIrrevocable, NoReturn, DeletionInv, RunsEraseTheirManifest, KeepsToManifest,
           Irrevocable
<1> QED
  BY <1>3, <1>4, <1>5 DEF KeepsToManifest, Irrevocable, Requested

(* Leaving a job: the run keeps its queue at most, and works for nothing.   *)
LEMMA RunLeaves ==
  ASSUME TypeInv, DeletionInv, StillIrrevocable, NoReturn,
         NEW r \in Runners, LeaveJob(r)
  PROVE  RunsEraseTheirManifest'
<1>1. /\ runner'[r].pc \in {"idle", "next"}
      /\ \A s \in Runners : s # r => runner'[s] = runner[s]
  BY LeaveJobTypes
<1>2. runner'[r].queue \subseteq runner[r].queue
  <2>1. runner \in [Runners -> Run] /\ runner[r] \in Run
    BY DEF TypeInv, TypeOK
  <2>2. runner'[r] = IF runner[r].queue = {} THEN NoRun
                     ELSE [runner[r] EXCEPT !.pc = "next", !.job = None, !.todo = {},
                                            !.key = None]
    BY <2>1 DEF LeaveJob
  <2> QED
    BY <2>1, <2>2 DEF Run, NoRun
<1>3. \A j \in runner'[r].queue : Irrevocable(j)'
  BY <1>2 DEF StillIrrevocable, DeletionInv, RunsEraseTheirManifest,
              KeepsToManifest, TypeInv, TypeOK, Run
<1>4. KeepsToManifest(r)'
  BY <1>1, <1>3 DEF KeepsToManifest
<1> QED
  BY <1>1, <1>4, RunStays DEF RunsEraseTheirManifest

-----------------------------------------------------------------------------
(* The runner.                                                              *)

LEMMA ClaimKeeps ==
  ASSUME TypeInv, DeletionInv, NEW r \in Runners, Claim(r)
  PROVE  DeletionInv'
<1>1. PICK t \in Tokens :
        /\ jobs' = [j \in Jobs |->
             IF j \in OldestClaimable
             THEN [jobs[j] EXCEPT !.token = t, !.leased = TRUE,
                                  !.purge = IF @ = "completed" THEN @ ELSE "in_progress"]
             ELSE jobs[j]]
        /\ runner' = [runner EXCEPT ![r] =
             [NoRun EXCEPT !.pc = "next", !.token = t, !.queue = OldestClaimable]]
  BY DEF Claim
<1>2. ASSUME NEW j \in Jobs
      PROVE  /\ SameJob(j) /\ jobs'[j].purged = jobs[j].purged
             /\ jobs'[j].purge = "completed" => jobs[j].purge = "completed"
  <2>1. jobs[j] \in Job
    BY DEF TypeInv, TypeOK
  <2>2. jobs'[j] = IF j \in OldestClaimable
                   THEN [jobs[j] EXCEPT !.token = t, !.leased = TRUE,
                           !.purge = IF jobs[j].purge = "completed" THEN jobs[j].purge
                                     ELSE "in_progress"]
                   ELSE jobs[j]
    BY <1>1
  <2> QED
    BY <2>1, <2>2 DEF SameJob, Job
<1>3. UNCHANGED <<status, owner, storage, backlog, upload, acked, leaked>>
  BY DEF Claim
<1>4. PurgedIsGone' /\ CompletedIsPurged'
  BY <1>2, <1>3 DEF DeletionInv, PurgedIsGone, CompletedIsPurged, SameJob
<1>5. /\ runner'[r].pc = "next" /\ runner'[r].queue = OldestClaimable
      /\ \A s \in Runners : s # r => runner'[s] = runner[s]
  BY <1>1 DEF TypeInv, TypeOK, NoRun
<1>6. \A j \in OldestClaimable : j \in Jobs /\ Requested(j) /\ jobs[j].due /\ ~jobs[j].cancelled
  BY DEF OldestClaimable, Claimable, Active
<1>7. \A j \in OldestClaimable : Irrevocable(j)'
  BY <1>2, <1>6 DEF SameJob, Irrevocable, Requested
<1>8. KeepsToManifest(r)'
  BY <1>5, <1>7 DEF KeepsToManifest
<1>9. RunsEraseTheirManifest'
  BY <1>2, <1>3, <1>5, <1>8, RunStays, SameIsIrrevocable DEF RunsEraseTheirManifest, NoReturn
<1> QED
  BY <1>2, <1>3, <1>4, <1>9, JobStep

LEMMA ListKeeps ==
  ASSUME TypeInv, DeletionInv, NEW r \in Runners, ListObjects(r)
  PROVE  DeletionInv'
<1> DEFINE x == runner[r]
<1>1. PICK j \in x.queue :
        runner' = [runner EXCEPT ![r] =
          [x EXCEPT !.pc = "erase", !.job = j, !.queue = x.queue \ {j},
                    !.todo = jobs[j].manifest \ jobs[j].purged]]
  BY DEF ListObjects
<1>2. UNCHANGED <<status, owner, jobs, storage, backlog, upload, acked, leaked>>
  BY DEF ListObjects, database
<1>3. x \in Run /\ runner \in [Runners -> Run]
  BY DEF TypeInv, TypeOK
<1>4. /\ runner'[r].pc = "erase" /\ runner'[r].job = j
      /\ runner'[r].queue \subseteq x.queue
      /\ runner'[r].todo \subseteq jobs[j].manifest
      /\ \A s \in Runners : s # r => runner'[s] = runner[s]
  BY <1>1, <1>3 DEF Run
<1>5. \A i \in x.queue : Irrevocable(i)
  BY DEF DeletionInv, RunsEraseTheirManifest, KeepsToManifest
<1>6. KeepsToManifest(r)'
  BY <1>2, <1>4, <1>5 DEF KeepsToManifest, Irrevocable, Requested
<1>7. RunsEraseTheirManifest'
  BY <1>2, <1>4, <1>6, RunStays, SameIsIrrevocable DEF RunsEraseTheirManifest, NoReturn, SameJob
<1> QED
  BY <1>2, <1>7, QuietStep

(* Deleting the bytes of a key of a manifest, with or without an error.     *)
LEMMA EraseKeeps ==
  ASSUME TypeInv, DeletionInv, NEW r \in Runners, NEW k \in Keys,
         EraseObject(r, k) \/ EraseFails(r, k)
  PROVE  DeletionInv'
<1> DEFINE x == runner[r]
<1>1. /\ UNCHANGED <<status, owner, jobs, backlog, upload, acked, leaked>>
      /\ storage' \in {storage, storage \ {k}}
      /\ x.pc = "erase" /\ k \in x.todo
  BY DEF EraseObject, EraseFails, database
<1>2. x \in Run /\ runner \in [Runners -> Run] /\ x.job \in Jobs
  BY <1>1 DEF TypeInv, TypeOK, PlacesOK
<1>3. Irrevocable(x.job) /\ k \in jobs[x.job].manifest
  BY <1>1 DEF DeletionInv, RunsEraseTheirManifest, KeepsToManifest
<1>4. owner[k] = jobs[x.job].project /\ owner[k] # None
  BY <1>2, <1>3, NoneIsNoValue DEF DeletionInv, ManifestsOwned
<1>5. /\ runner'[r].job = x.job /\ runner'[r].queue = x.queue
      /\ \/ runner'[r].pc = "mark" /\ runner'[r].key = k /\ runner'[r].todo = x.todo
            /\ storage' = storage \ {k}
         \/ runner'[r].pc = "fail" /\ runner'[r].todo = {}
      /\ \A s \in Runners : s # r => runner'[s] = runner[s]
  <2>1. CASE EraseObject(r, k)
    BY <1>2, <2>1 DEF EraseObject, Run
  <2>2. CASE EraseFails(r, k)
    BY <1>2, <2>2 DEF EraseFails, Run
  <2> QED
    BY <2>1, <2>2
<1>6. KeepsToManifest(r)'
  BY <1>1, <1>3, <1>5 DEF DeletionInv, RunsEraseTheirManifest, KeepsToManifest, Irrevocable,
                          Requested
<1>7. RunsEraseTheirManifest'
  BY <1>1, <1>5, <1>6, RunStays, SameIsIrrevocable DEF RunsEraseTheirManifest, NoReturn, SameJob
<1>8. PurgedIsGone'
  BY <1>1 DEF DeletionInv, PurgedIsGone
<1>9. UploadsOwnTheirKey' /\ NoSilentOrphan'
  BY <1>1, <1>4 DEF DeletionInv, UploadsOwnTheirKey, NoSilentOrphan
<1>10. AcknowledgedBytesKept'
  BY <1>1, <1>2, <1>3, <1>4 DEF DeletionInv, AcknowledgedBytesKept, Irrevocable
<1>11. ErasureIsTotal'
  BY <1>1 DEF DeletionInv, ErasureIsTotal
<1>12. UploadsExcludeJobs' /\ ManifestIsExact' /\ OneActiveJob'
  BY <1>1 DEF DeletionInv, UploadsExcludeJobs, ManifestIsExact, OneActiveJob, HasActiveJob,
              AssetsOf, Active, Requested
<1>13. ManifestsOwned' /\ CompletedIsPurged' /\ AcknowledgedIsOwned'
  BY <1>1 DEF DeletionInv, ManifestsOwned, CompletedIsPurged, AcknowledgedIsOwned
<1> QED
  BY <1>7, <1>8, <1>9, <1>10, <1>11, <1>12, <1>13 DEF DeletionInv

LEMMA MarkPurgedKeeps ==
  ASSUME TypeInv, DeletionInv, NEW r \in Runners, MarkPurged(r)
  PROVE  DeletionInv'
<1> DEFINE x == runner[r]
           j == x.job
<1>1. /\ UNCHANGED <<status, owner, storage, backlog, upload, acked, leaked>>
      /\ x.pc = "mark"
      /\ jobs' = [jobs EXCEPT ![j].purged = @ \cup {x.key}]
  BY DEF MarkPurged
<1>2. /\ x \in Run /\ runner \in [Runners -> Run] /\ j \in Jobs
      /\ jobs[j] \in Job /\ jobs \in [Jobs -> Job]
  BY <1>1 DEF TypeInv, TypeOK, PlacesOK
<1>3. Irrevocable(j) /\ x.todo \subseteq jobs[j].manifest /\ x.key \in jobs[j].manifest \ storage
  BY <1>1 DEF DeletionInv, RunsEraseTheirManifest, KeepsToManifest
<1>4. jobs'[j] = [jobs[j] EXCEPT !.purged = jobs[j].purged \cup {x.key}]
      /\ \A i \in Jobs : i # j => jobs'[i] = jobs[i]
  BY <1>1, <1>2
<1>5. /\ jobs'[j].purged = jobs[j].purged \cup {x.key}
      /\ \A i \in Jobs : SameJob(i) /\ jobs'[i].purge = jobs[i].purge
  BY <1>2, <1>4 DEF SameJob, Job
<1>6. PurgedIsGone'
  BY <1>1, <1>3, <1>4, <1>5 DEF DeletionInv, PurgedIsGone, SameJob
<1>7. CompletedIsPurged'
  BY <1>4, <1>5 DEF DeletionInv, CompletedIsPurged, SameJob
<1>8. /\ runner'[r].pc = "erase" /\ runner'[r].job = j /\ runner'[r].queue = x.queue
      /\ runner'[r].todo \subseteq x.todo
      /\ \A s \in Runners : s # r => runner'[s] = runner[s]
  BY <1>2 DEF MarkPurged, Run
<1>9. \A i \in x.queue : i \in Jobs /\ Irrevocable(i)
  BY <1>2 DEF Run, DeletionInv, RunsEraseTheirManifest, KeepsToManifest
<1>10. KeepsToManifest(r)'
  BY <1>2, <1>3, <1>5, <1>8, <1>9 DEF KeepsToManifest, Irrevocable, Requested, SameJob
<1>11. RunsEraseTheirManifest'
  BY <1>1, <1>5, <1>8, <1>10, RunStays, SameIsIrrevocable DEF RunsEraseTheirManifest, NoReturn
<1> QED
  BY <1>1, <1>5, <1>6, <1>7, <1>11, JobStep

LEMMA MarkFailedKeeps ==
  ASSUME TypeInv, DeletionInv, NEW r \in Runners, MarkFailed(r)
  PROVE  DeletionInv'
<1> DEFINE j == runner[r].job
<1>1. /\ UNCHANGED <<status, owner, storage, backlog, upload, acked, leaked>>
      /\ runner[r].pc = "fail" /\ LeaveJob(r)
      /\ jobs' \in {jobs, [jobs EXCEPT ![j].purge = "failed"]}
  BY DEF MarkFailed
<1>2. j \in Jobs /\ jobs[j] \in Job /\ jobs \in [Jobs -> Job]
  BY <1>1 DEF TypeInv, TypeOK, PlacesOK
<1>3. /\ jobs'[j] \in {jobs[j], [jobs[j] EXCEPT !.purge = "failed"]}
      /\ \A i \in Jobs : i # j => jobs'[i] = jobs[i]
  BY <1>1, <1>2
<1>4. \A i \in Jobs : /\ SameJob(i) /\ jobs'[i].purged = jobs[i].purged
                      /\ jobs'[i].purge = "completed" => jobs[i].purge = "completed"
  BY <1>2, <1>3 DEF SameJob, Job
<1>5. PurgedIsGone' /\ CompletedIsPurged'
  BY <1>1, <1>4 DEF DeletionInv, PurgedIsGone, CompletedIsPurged, SameJob
<1>6. RunsEraseTheirManifest'
  BY <1>1, <1>4, RunLeaves, SameIsIrrevocable DEF NoReturn
<1> QED
  BY <1>1, <1>4, <1>5, <1>6, JobStep

LEMMA StorageDoneKeeps ==
  ASSUME TypeInv, DeletionInv, NEW r \in Runners, StorageDone(r)
  PROVE  DeletionInv'
<1> DEFINE x == runner[r]
           j == x.job
<1>1. /\ UNCHANGED <<status, owner, storage, backlog, upload, acked, leaked>>
      /\ x.pc = "erase"
  BY DEF StorageDone
<1>2. /\ x \in Run /\ runner \in [Runners -> Run] /\ j \in Jobs
      /\ jobs[j] \in Job /\ jobs \in [Jobs -> Job]
  BY <1>1 DEF TypeInv, TypeOK, PlacesOK
<1>3. CASE jobs' = jobs /\ LeaveJob(r)
  <2>1. RunsEraseTheirManifest'
    BY <1>1, <1>3, RunLeaves, SameIsIrrevocable DEF SameJob, NoReturn
  <2> QED
    BY <1>1, <1>3, <2>1, QuietStep
<1>4. CASE /\ jobs[j].manifest \subseteq jobs[j].purged
           /\ jobs' = [jobs EXCEPT ![j].purge = "completed"]
           /\ runner' = [runner EXCEPT ![r] = [x EXCEPT !.pc = "finalize"]]
  <2>1. /\ jobs'[j] = [jobs[j] EXCEPT !.purge = "completed"]
        /\ \A i \in Jobs : i # j => jobs'[i] = jobs[i]
    BY <1>2, <1>4
  <2>2. \A i \in Jobs : SameJob(i) /\ jobs'[i].purged = jobs[i].purged
    BY <1>2, <2>1 DEF SameJob, Job
  <2>3. PurgedIsGone'
    BY <1>1, <2>2 DEF DeletionInv, PurgedIsGone, SameJob
  <2>4. CompletedIsPurged'
    BY <1>4, <2>1, <2>2 DEF DeletionInv, CompletedIsPurged, SameJob
  <2>5. /\ runner'[r].pc = "finalize" /\ runner'[r].job = j
        /\ runner'[r].queue = x.queue /\ runner'[r].todo = x.todo
        /\ \A s \in Runners : s # r => runner'[s] = runner[s]
    BY <1>2, <1>4 DEF Run
  <2>6. /\ Irrevocable(j) /\ x.todo \subseteq jobs[j].manifest
        /\ \A i \in x.queue : i \in Jobs /\ Irrevocable(i)
    BY <1>1, <1>2 DEF DeletionInv, RunsEraseTheirManifest, KeepsToManifest, Run
  <2>7. KeepsToManifest(r)'
    BY <1>2, <2>2, <2>5, <2>6 DEF KeepsToManifest, Irrevocable, Requested, SameJob
  <2>8. RunsEraseTheirManifest'
    BY <1>1, <2>2, <2>5, <2>7, RunStays, SameIsIrrevocable DEF RunsEraseTheirManifest, NoReturn
  <2> QED
    BY <1>1, <2>2, <2>3, <2>4, <2>8, JobStep
<1> QED
  BY <1>3, <1>4 DEF StorageDone

(* The project goes: all it still owns is in the manifest of its job, which *)
(* is purged.                                                               *)
LEMMA FinalizeKeeps ==
  ASSUME TypeInv, DeletionInv, NEW r \in Runners, Finalize(r)
  PROVE  DeletionInv'
<1> DEFINE j == runner[r].job
           p == jobs[j].project
<1>1. /\ UNCHANGED <<owner, storage, backlog, upload, acked, leaked>>
      /\ runner[r].pc = "finalize" /\ LeaveJob(r)
      /\ Active(j) /\ ~Locked(p) /\ status[p] = "archived"
      /\ jobs[j].manifest \subseteq jobs[j].purged
      /\ status' = [status EXCEPT ![p] = "gone"]
      /\ jobs' = [jobs EXCEPT ![j].dbDone = TRUE]
  BY DEF Finalize, OwnsCompletedJob, ProjectErasable
<1>2. /\ j \in Jobs /\ jobs[j] \in Job /\ jobs \in [Jobs -> Job] /\ p \in Projects
      /\ status \in [Projects -> LiveStatus \cup {"gone"}]
  BY <1>1 DEF TypeInv, TypeOK, PlacesOK, Active, Requested, Job
<1>3. /\ jobs'[j] = [jobs[j] EXCEPT !.dbDone = TRUE]
      /\ \A i \in Jobs : i # j => jobs'[i] = jobs[i]
  BY <1>1, <1>2
<1>4. /\ jobs'[j].dbDone
      /\ \A i \in Jobs : /\ jobs'[i].project = jobs[i].project
                          /\ jobs'[i].manifest = jobs[i].manifest
                          /\ jobs'[i].purged = jobs[i].purged
                          /\ jobs'[i].purge = jobs[i].purge
                          /\ jobs'[i].cancelled = jobs[i].cancelled
                          /\ jobs'[i].due = jobs[i].due
  BY <1>2, <1>3 DEF Job
<1>5. \A i \in Jobs : Active(i)' <=> Active(i) /\ i # j
  BY <1>3, <1>4 DEF Active, Requested
<1>6. \A q \in Projects : status'[q] = IF q = p THEN "gone" ELSE status[q]
  BY <1>1, <1>2
<1>7. \A k \in Keys : owner[k] = p => k \notin storage
  BY <1>1, <1>2 DEF DeletionInv, ManifestIsExact, AssetsOf, PurgedIsGone
<1>8. ErasureIsTotal'
  BY <1>1, <1>6, <1>7 DEF DeletionInv, ErasureIsTotal
<1>9. \A i \in Jobs : Active(i) /\ i # j => jobs[i].project # p
  BY <1>1, <1>2 DEF DeletionInv, OneActiveJob
<1>10. ManifestIsExact'
  <2>1. \A i \in Jobs : Active(i) => jobs[i].project \in Projects
    BY DEF Active, Requested, TypeInv, TypeOK, Job
  <2>2. \A q \in Projects : q # p => AssetsOf(q)' = AssetsOf(q)
    BY <1>1, <1>6 DEF AssetsOf
  <2> QED
    BY <1>4, <1>5, <1>9, <2>1, <2>2 DEF DeletionInv, ManifestIsExact
<1>11. UploadsExcludeJobs'
  <2>1. \A u \in Uploaders : upload[u].pc \in {"locked", "saved"} =>
          upload[u].project \in Projects /\ upload[u].project # p
    BY <1>1 DEF Locked, TypeInv, PlacesOK
  <2>2. \A q \in Projects : HasActiveJob(q)' => HasActiveJob(q)
    BY <1>4, <1>5 DEF HasActiveJob
  <2> QED
    BY <1>1, <1>6, <2>1, <2>2 DEF DeletionInv, UploadsExcludeJobs
<1>12. OneActiveJob'
  BY <1>4, <1>5 DEF DeletionInv, OneActiveJob
<1>13. RunsEraseTheirManifest'
  <2>1. StillIrrevocable
    BY <1>4 DEF StillIrrevocable, Irrevocable, Requested
  <2> QED
    BY <1>1, <2>1, RunLeaves DEF NoReturn
<1>14. ManifestsOwned' /\ PurgedIsGone' /\ CompletedIsPurged' /\ AcknowledgedBytesKept'
  BY <1>1, <1>4 DEF DeletionInv, ManifestsOwned, PurgedIsGone, CompletedIsPurged,
                    AcknowledgedBytesKept
<1>15. UploadsOwnTheirKey' /\ AcknowledgedIsOwned' /\ NoSilentOrphan'
  BY <1>1 DEF DeletionInv, UploadsOwnTheirKey, AcknowledgedIsOwned, NoSilentOrphan
<1> QED
  BY <1>8, <1>10, <1>11, <1>12, <1>13, <1>14, <1>15 DEF DeletionInv

LEMMA RunnerKeeps ==
  ASSUME TypeInv, DeletionInv, NEW r \in Runners, RunnerStep(r) \/ RunnerFault(r)
  PROVE  DeletionInv'
<1>1. CASE FinalizeRefused(r) \/ RunnerError(r)
  <2>1. /\ UNCHANGED <<status, owner, jobs, storage, backlog, upload, acked, leaked>>
        /\ LeaveJob(r)
    BY <1>1 DEF FinalizeRefused, RunnerError, database
  <2>2. RunsEraseTheirManifest'
    BY <2>1, RunLeaves, SameIsIrrevocable DEF SameJob, NoReturn
  <2> QED
    BY <2>1, <2>2, QuietStep
<1>2. CASE RunnerCrash(r)
  <2>1. /\ UNCHANGED <<status, owner, jobs, storage, backlog, upload, acked, leaked>>
        /\ runner'[r].pc = "idle" /\ runner'[r].queue = {}
        /\ \A s \in Runners : s # r => runner'[s] = runner[s]
    BY <1>2 DEF RunnerCrash, database, TypeInv, TypeOK, NoRun
  <2>2. KeepsToManifest(r)'
    BY <2>1 DEF KeepsToManifest
  <2>3. RunsEraseTheirManifest'
    BY <2>1, <2>2, RunStays, SameIsIrrevocable DEF RunsEraseTheirManifest, NoReturn, SameJob
  <2> QED
    BY <2>1, <2>3, QuietStep
<1> QED
  BY <1>1, <1>2, ClaimKeeps, ListKeeps, EraseKeeps, MarkFailedKeeps, MarkPurgedKeeps,
     StorageDoneKeeps, FinalizeKeeps DEF RunnerStep, RunnerFault

-----------------------------------------------------------------------------
(* Requests, cancellations and clocks.                                      *)

LEMMA RequestKeeps ==
  ASSUME TypeInv, DeletionInv, NEW p \in Projects, NEW j \in Jobs, RequestDeletion(p, j)
  PROVE  DeletionInv'
<1>1. /\ UNCHANGED <<status, owner, storage, backlog, runner, upload, acked, leaked>>
      /\ status[p] = "archived" /\ ~Locked(p) /\ ~HasActiveJob(p) /\ ~Requested(j)
      /\ jobs' = [jobs EXCEPT ![j] = [NoJob EXCEPT !.project = p, !.manifest = AssetsOf(p)]]
  BY DEF RequestDeletion, CapturedManifest
<1>2. jobs \in [Jobs -> Job] /\ p # None
  BY NoneIsNoValue DEF TypeInv, TypeOK
<1>3. /\ jobs'[j].project = p /\ jobs'[j].manifest = AssetsOf(p) /\ jobs'[j].purged = {}
      /\ jobs'[j].purge = "pending" /\ ~jobs'[j].cancelled /\ ~jobs'[j].dbDone
      /\ \A i \in Jobs : i # j => jobs'[i] = jobs[i]
  BY <1>1, <1>2 DEF NoJob
<1>4. \A i \in Jobs : Active(i)' <=> Active(i) \/ i = j
  BY <1>1, <1>2, <1>3 DEF Active, Requested
<1>5. \A q \in Projects : AssetsOf(q)' = AssetsOf(q)
  BY <1>1 DEF AssetsOf
<1>6. ManifestIsExact'
  <2>1. \A i \in Jobs : Active(i) => jobs[i].project \in Projects
    BY DEF Active, Requested, TypeInv, TypeOK, Job
  <2> QED
    BY <1>3, <1>4, <1>5, <2>1 DEF DeletionInv, ManifestIsExact
<1>7. OneActiveJob'
  BY <1>1, <1>3, <1>4 DEF DeletionInv, OneActiveJob, HasActiveJob
<1>8. UploadsExcludeJobs'
  <2>1. \A u \in Uploaders : upload[u].pc \in {"locked", "saved"} => upload[u].project # p
    BY <1>1 DEF Locked
  <2>2. \A q \in Projects : q # p /\ HasActiveJob(q)' => HasActiveJob(q)
    BY <1>3, <1>4 DEF HasActiveJob
  <2> QED
    BY <1>1, <2>1, <2>2 DEF DeletionInv, UploadsExcludeJobs, TypeInv, PlacesOK
<1>9. ManifestsOwned'
  BY <1>1, <1>3 DEF DeletionInv, ManifestsOwned, AssetsOf
<1>10. PurgedIsGone' /\ CompletedIsPurged'
  BY <1>1, <1>3 DEF DeletionInv, PurgedIsGone, CompletedIsPurged
<1>11. RunsEraseTheirManifest'
  <2>1. StillIrrevocable
    BY <1>1, <1>3 DEF StillIrrevocable, Irrevocable, Requested
  <2> QED
    BY <1>1, <2>1, RunStays DEF RunsEraseTheirManifest, NoReturn
<1>12. AcknowledgedBytesKept'
  BY <1>1, <1>3 DEF DeletionInv, AcknowledgedBytesKept, AcknowledgedIsOwned, Requested
<1>13. UploadsOwnTheirKey' /\ AcknowledgedIsOwned' /\ ErasureIsTotal' /\ NoSilentOrphan'
  BY <1>1 DEF DeletionInv, UploadsOwnTheirKey, AcknowledgedIsOwned, ErasureIsTotal, NoSilentOrphan
<1> QED
  BY <1>6, <1>7, <1>8, <1>9, <1>10, <1>11, <1>12, <1>13 DEF DeletionInv

LEMMA CancelKeeps ==
  ASSUME TypeInv, DeletionInv, NEW j \in Jobs, CancelDeletion(j)
  PROVE  DeletionInv'
<1>1. /\ UNCHANGED <<status, owner, storage, backlog, runner, upload, acked, leaked>>
      /\ ~jobs[j].due
      /\ jobs' = [jobs EXCEPT ![j].cancelled = TRUE]
  BY DEF CancelDeletion, Cancellable
<1>2. jobs[j] \in Job /\ jobs \in [Jobs -> Job]
  BY DEF TypeInv, TypeOK
<1>3. /\ jobs'[j] = [jobs[j] EXCEPT !.cancelled = TRUE]
      /\ \A i \in Jobs : i # j => jobs'[i] = jobs[i]
  BY <1>1, <1>2
<1>4. \A i \in Jobs : /\ jobs'[i].project = jobs[i].project
                       /\ jobs'[i].manifest = jobs[i].manifest
                       /\ jobs'[i].purged = jobs[i].purged
                       /\ jobs'[i].purge = jobs[i].purge
  BY <1>2, <1>3 DEF Job
<1>5. \A i \in Jobs : Active(i)' <=> Active(i) /\ i # j
  BY <1>2, <1>3 DEF Job, Active, Requested
<1>6. ManifestIsExact' /\ OneActiveJob'
  <2>1. \A i \in Jobs : Active(i) => jobs[i].project \in Projects
    BY DEF Active, Requested, TypeInv, TypeOK, Job
  <2>2. \A q \in Projects : AssetsOf(q)' = AssetsOf(q)
    BY <1>1 DEF AssetsOf
  <2>3. ManifestIsExact'
    BY <1>4, <1>5, <2>1, <2>2 DEF DeletionInv, ManifestIsExact
  <2>4. OneActiveJob'
    BY <1>4, <1>5 DEF DeletionInv, OneActiveJob
  <2> QED
    BY <2>3, <2>4
<1>7. UploadsExcludeJobs'
  <2>1. \A q \in Projects : HasActiveJob(q)' => HasActiveJob(q)
    BY <1>4, <1>5 DEF HasActiveJob
  <2>2. \A u \in Uploaders : upload[u].pc \in {"locked", "saved"} =>
          /\ upload[u].project \in Projects /\ status[upload[u].project] # "gone"
          /\ ~HasActiveJob(upload[u].project)
    BY DEF DeletionInv, UploadsExcludeJobs, TypeInv, PlacesOK
  <2> QED
    BY <1>1, <2>1, <2>2 DEF UploadsExcludeJobs
<1>8. RunsEraseTheirManifest'
  <2>1. StillIrrevocable
    BY <1>1, <1>3, <1>4 DEF StillIrrevocable, Irrevocable, Requested
  <2> QED
    BY <1>1, <2>1, RunStays DEF RunsEraseTheirManifest, NoReturn
<1>9. AcknowledgedBytesKept'
  BY <1>1, <1>3, <1>4 DEF DeletionInv, AcknowledgedBytesKept
<1>10. ManifestsOwned' /\ PurgedIsGone' /\ CompletedIsPurged'
  BY <1>1, <1>4 DEF DeletionInv, ManifestsOwned, PurgedIsGone, CompletedIsPurged
<1>11. UploadsOwnTheirKey' /\ AcknowledgedIsOwned' /\ ErasureIsTotal' /\ NoSilentOrphan'
  BY <1>1 DEF DeletionInv, UploadsOwnTheirKey, AcknowledgedIsOwned, ErasureIsTotal, NoSilentOrphan
<1> QED
  BY <1>6, <1>7, <1>8, <1>9, <1>10, <1>11 DEF DeletionInv

LEMMA ClockKeeps ==
  ASSUME TypeInv, DeletionInv, NEW j \in Jobs, GraceElapses(j) \/ LeaseExpires(j)
  PROVE  DeletionInv'
<1>1. /\ UNCHANGED <<status, owner, storage, backlog, runner, upload, acked, leaked>>
      /\ jobs' \in {[jobs EXCEPT ![j].due = TRUE], [jobs EXCEPT ![j].leased = FALSE]}
  BY DEF GraceElapses, LeaseExpires
<1>2. jobs[j] \in Job /\ jobs \in [Jobs -> Job]
  BY DEF TypeInv, TypeOK
<1>3. /\ jobs'[j] \in {[jobs[j] EXCEPT !.due = TRUE], [jobs[j] EXCEPT !.leased = FALSE]}
      /\ \A i \in Jobs : i # j => jobs'[i] = jobs[i]
  BY <1>1, <1>2
<1>4. \A i \in Jobs : SameJob(i) /\ jobs'[i].purged = jobs[i].purged
                                /\ jobs'[i].purge = jobs[i].purge
  BY <1>2, <1>3 DEF SameJob, Job
<1>5. PurgedIsGone' /\ CompletedIsPurged'
  BY <1>1, <1>4 DEF DeletionInv, PurgedIsGone, CompletedIsPurged, SameJob
<1>6. RunsEraseTheirManifest'
  BY <1>1, <1>4, RunStays, SameIsIrrevocable DEF RunsEraseTheirManifest, NoReturn
<1> QED
  BY <1>1, <1>4, <1>5, <1>6, JobStep

-----------------------------------------------------------------------------
(* Uploads and sweeps: no job and no project changes.                       *)

LEMMA UploadFrame ==
  ASSUME TypeInv, DeletionInv, UNCHANGED <<status, jobs, runner>>, NoReturn,
         \A k \in Keys : owner[k] # None => owner'[k] = owner[k]
  PROVE  /\ ManifestsOwned' /\ PurgedIsGone' /\ CompletedIsPurged'
         /\ RunsEraseTheirManifest' /\ OneActiveJob'
<1>1. \A j \in Jobs, k \in Keys : k \in jobs[j].manifest => owner[k] # None
  BY NoneIsNoValue DEF DeletionInv, ManifestsOwned
<1>2. \A j \in Jobs : jobs[j].manifest \subseteq Keys
  BY DEF TypeInv, TypeOK, Job
<1>3. ManifestsOwned'
  BY <1>1, <1>2 DEF DeletionInv, ManifestsOwned
<1>4. PurgedIsGone'
  BY <1>1, <1>2 DEF DeletionInv, PurgedIsGone, NoReturn
<1>5. RunsEraseTheirManifest'
  BY RunStays, SameIsIrrevocable DEF RunsEraseTheirManifest, SameJob
<1> QED
  BY <1>3, <1>4, <1>5 DEF DeletionInv, CompletedIsPurged, OneActiveJob, Active, Requested

(* Steps that create no asset row.                                          *)
LEMMA UploadFrameNoRow ==
  ASSUME TypeInv, DeletionInv, UNCHANGED <<status, jobs, owner>>, NoReturn
  PROVE  ManifestIsExact' /\ ErasureIsTotal'
<1>1. ManifestIsExact'
  BY DEF DeletionInv, ManifestIsExact, AssetsOf, Active, Requested
<1>2. ErasureIsTotal'
  BY NoneIsNoValue DEF DeletionInv, ErasureIsTotal, NoReturn
<1> QED
  BY <1>1, <1>2

LEMMA UploadLockKeeps ==
  ASSUME TypeInv, DeletionInv, NEW u \in Uploaders, NEW p \in Projects, UploadLock(u, p)
  PROVE  DeletionInv'
<1>1. /\ UNCHANGED <<status, jobs, runner, owner, storage, backlog, acked, leaked>>
      /\ upload[u].pc = "idle" /\ status[p] # "gone" /\ ~HasActiveJob(p)
  BY DEF UploadLock, UploadAllowed, database
<1>2. /\ upload'[u].pc = "locked" /\ upload'[u].project = p /\ upload'[u].key = None
      /\ \A v \in Uploaders : v # u => upload'[v] = upload[v]
  BY DEF UploadLock, TypeInv, TypeOK
<1>3. upload[u].key = None
  BY <1>1 DEF DeletionInv, UploadsOwnTheirKey
<1>4. UploadsExcludeJobs'
  BY <1>1, <1>2 DEF DeletionInv, UploadsExcludeJobs, HasActiveJob, Active, Requested
<1>5. UploadsOwnTheirKey'
  BY <1>1, <1>2, <1>3 DEF DeletionInv, UploadsOwnTheirKey
<1>6. NoSilentOrphan'
  BY <1>1, <1>2, <1>3, NoneIsNoValue DEF DeletionInv, NoSilentOrphan, TypeInv, TypeOK
<1>7. AcknowledgedIsOwned' /\ AcknowledgedBytesKept'
  BY <1>1 DEF DeletionInv, AcknowledgedIsOwned, AcknowledgedBytesKept
<1> QED
  BY <1>1, <1>4, <1>5, <1>6, <1>7, UploadFrame, UploadFrameNoRow DEF DeletionInv, NoReturn

LEMMA UploadSaveKeeps ==
  ASSUME TypeInv, DeletionInv, NEW u \in Uploaders, NEW k \in Keys, UploadSave(u, k)
  PROVE  DeletionInv'
<1>1. /\ UNCHANGED <<status, jobs, runner, owner, backlog, acked, leaked>>
      /\ upload[u].pc = "locked" /\ storage' = storage \cup {k}
      /\ owner[k] = None /\ k \notin backlog
      /\ \A v \in Uploaders : upload[v].key # k
  BY DEF UploadSave, FreshKey, database
<1>2. /\ upload'[u].pc = "saved" /\ upload'[u].project = upload[u].project
      /\ upload'[u].key = k
      /\ \A v \in Uploaders : v # u => upload'[v] = upload[v]
  BY DEF UploadSave, TypeInv, TypeOK, Upload
<1>3. NoReturn /\ k \notin acked
  BY <1>1 DEF NoReturn, DeletionInv, AcknowledgedIsOwned
<1>4. upload[u].key = None
  BY <1>1 DEF DeletionInv, UploadsOwnTheirKey
<1>5. UploadsExcludeJobs'
  BY <1>1, <1>2 DEF DeletionInv, UploadsExcludeJobs, HasActiveJob, Active, Requested
<1>6. UploadsOwnTheirKey'
  BY <1>1, <1>2, <1>3 DEF DeletionInv, UploadsOwnTheirKey
<1>7. NoSilentOrphan'
  BY <1>1, <1>2, <1>4, NoneIsNoValue DEF DeletionInv, NoSilentOrphan, TypeInv, TypeOK
<1>8. AcknowledgedIsOwned' /\ AcknowledgedBytesKept'
  BY <1>1 DEF DeletionInv, AcknowledgedIsOwned, AcknowledgedBytesKept
<1> QED
  BY <1>1, <1>3, <1>5, <1>6, <1>7, <1>8, UploadFrame, UploadFrameNoRow DEF DeletionInv

(* The save failed: whatever was written is lost from sight.                *)
LEMMA UploadSaveFailsKeeps ==
  ASSUME TypeInv, DeletionInv, NEW u \in Uploaders, NEW k \in Keys, UploadSaveFails(u, k)
  PROVE  DeletionInv'
<1>1. /\ UNCHANGED <<status, jobs, runner, owner, backlog, acked>>
      /\ upload[u].pc = "locked" /\ owner[k] = None
      /\ \/ storage' = storage /\ leaked' = leaked
         \/ storage' = storage \cup {k} /\ leaked' = leaked \cup {k}
  BY DEF UploadSaveFails, FreshKey, database
<1>2. /\ upload'[u].pc = "idle" /\ upload'[u].key = None
      /\ \A v \in Uploaders : v # u => upload'[v] = upload[v]
  BY DEF UploadSaveFails, TypeInv, TypeOK, NoUpload
<1>3. NoReturn
  BY <1>1 DEF NoReturn
<1>4. upload[u].key = None
  BY <1>1 DEF DeletionInv, UploadsOwnTheirKey
<1>5. UploadsExcludeJobs'
  BY <1>1, <1>2 DEF DeletionInv, UploadsExcludeJobs, HasActiveJob, Active, Requested
<1>6. UploadsOwnTheirKey'
  BY <1>1, <1>2, <1>4 DEF DeletionInv, UploadsOwnTheirKey
<1>7. NoSilentOrphan'
  BY <1>1, <1>2, <1>4, NoneIsNoValue DEF DeletionInv, NoSilentOrphan, TypeInv, TypeOK
<1>8. AcknowledgedIsOwned' /\ AcknowledgedBytesKept'
  BY <1>1 DEF DeletionInv, AcknowledgedIsOwned, AcknowledgedBytesKept
<1> QED
  BY <1>1, <1>3, <1>5, <1>6, <1>7, <1>8, UploadFrame, UploadFrameNoRow DEF DeletionInv

(* The commit creates the asset row; the handler may or may not learn it.   *)
LEMMA UploadCommitKeeps ==
  ASSUME TypeInv, DeletionInv, NEW u \in Uploaders, UploadCommit(u) \/ UploadCommitLost(u)
  PROVE  DeletionInv'
<1> DEFINE k == upload[u].key
           p == upload[u].project
<1>1. /\ UNCHANGED <<status, jobs, runner, storage, backlog, leaked>>
      /\ upload[u].pc = "saved"
      /\ owner' = [owner EXCEPT ![k] = p]
  BY DEF UploadCommit, UploadCommitLost
<1>2. /\ k \in Keys /\ p \in Projects /\ owner \in [Keys -> Projects \cup {None}]
      /\ k # None /\ p # None
  BY <1>1, NoneIsNoValue DEF TypeInv, TypeOK, PlacesOK
<1>3. /\ owner[k] = None /\ k \in storage /\ k \notin backlog
      /\ status[p] # "gone" /\ ~HasActiveJob(p)
      /\ \A v \in Uploaders : v # u => upload[v].key # k
  BY <1>1, <1>2 DEF DeletionInv, UploadsOwnTheirKey, UploadsExcludeJobs
<1>4. /\ owner'[k] = p
      /\ \A i \in Keys : i # k => owner'[i] = owner[i]
  BY <1>1, <1>2
<1>5. /\ \A v \in Uploaders : v # u => upload'[v] = upload[v]
      /\ \/ /\ upload'[u].pc = "idle" /\ upload'[u].key = None
            /\ acked' = acked \cup {k}
         \/ /\ upload'[u].pc = "compensate" /\ upload'[u].key = k
            /\ acked' = acked
  <2>1. CASE UploadCommit(u)
    BY <2>1 DEF UploadCommit, TypeInv, TypeOK, NoUpload
  <2>2. CASE UploadCommitLost(u)
    BY <2>2 DEF UploadCommitLost, TypeInv, TypeOK, Upload
  <2> QED
    BY <2>1, <2>2
<1>6. NoReturn /\ \A i \in Keys : owner[i] # None => owner'[i] = owner[i]
  BY <1>1, <1>3, <1>4 DEF NoReturn
<1>7. ManifestIsExact'
  <2>1. \A j \in Jobs : Active(j) => jobs[j].project # p
    BY <1>3 DEF HasActiveJob
  <2>2. \A q \in Projects : q # p => AssetsOf(q)' = AssetsOf(q)
    BY <1>1, <1>2, <1>3, <1>4, NoneIsNoValue DEF AssetsOf
  <2>3. \A j \in Jobs : /\ Active(j)' = Active(j)
                        /\ Active(j) => jobs[j].project \in Projects
    BY <1>1 DEF Active, Requested, TypeInv, TypeOK, Job
  <2> QED
    BY <1>1, <2>1, <2>2, <2>3 DEF DeletionInv, ManifestIsExact
<1>8. ErasureIsTotal'
  BY <1>1, <1>2, <1>3, <1>4 DEF DeletionInv, ErasureIsTotal
<1>9. UploadsExcludeJobs'
  BY <1>1, <1>5 DEF DeletionInv, UploadsExcludeJobs, HasActiveJob, Active, Requested
<1>10. UploadsOwnTheirKey'
  BY <1>1, <1>2, <1>3, <1>4, <1>5, NoneIsNoValue
     DEF DeletionInv, UploadsOwnTheirKey, TypeInv, TypeOK
<1>11. AcknowledgedIsOwned'
  BY <1>1, <1>2, <1>3, <1>4, <1>5 DEF DeletionInv, AcknowledgedIsOwned, TypeInv, TypeOK
<1>12. AcknowledgedBytesKept'
  <2>1. acked \subseteq Keys
    BY DEF TypeInv, TypeOK
  <2>2. \A i \in acked' \ storage' : i \in acked \ storage /\ owner'[i] = owner[i]
    BY <1>1, <1>3, <1>4, <1>5, <2>1
  <2> QED
    BY <1>1, <2>2 DEF DeletionInv, AcknowledgedBytesKept
<1>13. NoSilentOrphan'
  BY <1>1, <1>2, <1>4, <1>5 DEF DeletionInv, NoSilentOrphan, TypeInv, TypeOK
<1> QED
  BY <1>1, <1>6, <1>7, <1>8, <1>9, <1>10, <1>11, <1>12, <1>13, UploadFrame DEF DeletionInv

(* What is left of an upload that did not succeed: its key is compensated,  *)
(* recorded, or forgotten.  The bytes that go belong to nobody else.        *)
LEMMA UploadFailureKeeps ==
  ASSUME TypeInv, DeletionInv, NEW u \in Uploaders,
         \/ UploadRollback(u) \/ Compensate(u) \/ CompensateFails(u)
         \/ RecordInBacklog(u) \/ RecordInBacklogFails(u) \/ UploadCrash(u)
  PROVE  DeletionInv'
<1> DEFINE k == upload[u].key
<1>1. /\ UNCHANGED <<status, jobs, runner, owner, acked>>
      /\ upload[u].pc # "idle"
      /\ \A v \in Uploaders : v # u => upload'[v] = upload[v]
      /\ k # None => k \in Keys
  BY DEF UploadRollback, Compensate, CompensateFails, RecordInBacklog, RecordInBacklogFails,
         UploadCrash, database, TypeInv, TypeOK, Upload
<1>2. \/ /\ upload[u].pc = "saved" /\ upload'[u].pc = "compensate" /\ upload'[u].key = k
         /\ UNCHANGED <<storage, backlog, leaked>>
      \/ /\ upload[u].pc = "compensate" /\ upload'[u].pc = "idle" /\ upload'[u].key = None
         /\ storage' = storage \ {k} /\ UNCHANGED <<backlog, leaked>>
      \/ /\ upload[u].pc = "compensate" /\ upload'[u].pc = "backlog" /\ upload'[u].key = k
         /\ storage' \in {storage, storage \ {k}} /\ UNCHANGED <<backlog, leaked>>
      \/ /\ upload[u].pc = "backlog" /\ upload'[u].pc = "idle" /\ upload'[u].key = None
         /\ backlog' = backlog \cup {k} /\ UNCHANGED <<storage, leaked>>
      \/ /\ upload'[u].pc = "idle" /\ upload'[u].key = None
         /\ leaked' = leaked \cup ({k} \ {None}) /\ UNCHANGED <<storage, backlog>>
  <2>1. upload \in [Uploaders -> Upload] /\ upload[u] \in Upload
    BY DEF TypeInv, TypeOK
  <2>2. CASE UploadRollback(u)
    BY <2>1, <2>2 DEF UploadRollback, database, Upload
  <2>3. CASE Compensate(u)
    BY <2>1, <2>3 DEF Compensate, database, NoUpload
  <2>4. CASE CompensateFails(u)
    BY <2>1, <2>4 DEF CompensateFails, database, Upload
  <2>5. CASE RecordInBacklog(u)
    BY <2>1, <2>5 DEF RecordInBacklog, NoUpload
  <2>6. CASE RecordInBacklogFails(u)
    <3>1. k \in Keys /\ k # None
      BY <2>6, NoneIsNoValue DEF RecordInBacklogFails, TypeInv, PlacesOK
    <3> QED
      BY <2>1, <2>6, <3>1 DEF RecordInBacklogFails, database, NoUpload
  <2>7. CASE UploadCrash(u)
    BY <2>1, <2>7 DEF UploadCrash, database, NoUpload
  <2> QED
    BY <2>2, <2>3, <2>4, <2>5, <2>6, <2>7
<1>3. k \notin acked /\ \A v \in Uploaders : v # u /\ k # None => upload[v].key # k
  BY DEF DeletionInv, UploadsOwnTheirKey
<1>4. NoReturn
  BY <1>2 DEF NoReturn
<1>5. UploadsExcludeJobs'
  BY <1>1, <1>2 DEF DeletionInv, UploadsExcludeJobs, HasActiveJob, Active, Requested
<1>6. UploadsOwnTheirKey'
  BY <1>1, <1>2, <1>3, NoneIsNoValue DEF DeletionInv, UploadsOwnTheirKey, TypeInv, TypeOK, PlacesOK
<1>7. AcknowledgedIsOwned' /\ AcknowledgedBytesKept'
  BY <1>1, <1>2, <1>3 DEF DeletionInv, AcknowledgedIsOwned, AcknowledgedBytesKept
<1>8. NoSilentOrphan'
  BY <1>1, <1>2, NoneIsNoValue DEF DeletionInv, NoSilentOrphan, TypeInv, TypeOK
<1> QED
  BY <1>1, <1>4, <1>5, <1>6, <1>7, <1>8, UploadFrame, UploadFrameNoRow DEF DeletionInv

LEMMA SweepKeeps ==
  ASSUME TypeInv, DeletionInv, NEW k \in Keys, SweepBacklog(k) \/ SweepInterrupted(k)
  PROVE  DeletionInv'
<1>1. /\ UNCHANGED <<status, jobs, runner, owner, upload, acked, leaked>>
      /\ k \in backlog
      /\ storage' = storage \ {k} /\ backlog' \in {backlog, backlog \ {k}}
  BY DEF SweepBacklog, SweepInterrupted, database
<1>2. NoReturn
  BY <1>1 DEF NoReturn
<1>3. UploadsExcludeJobs'
  BY <1>1 DEF DeletionInv, UploadsExcludeJobs, HasActiveJob, Active, Requested
<1>4. UploadsOwnTheirKey'
  BY <1>1 DEF DeletionInv, UploadsOwnTheirKey
<1>5. AcknowledgedIsOwned' /\ AcknowledgedBytesKept'
  BY <1>1 DEF DeletionInv, AcknowledgedIsOwned, AcknowledgedBytesKept
<1>6. NoSilentOrphan'
  BY <1>1 DEF DeletionInv, NoSilentOrphan
<1> QED
  BY <1>1, <1>2, <1>3, <1>4, <1>5, <1>6, UploadFrame, UploadFrameNoRow DEF DeletionInv

-----------------------------------------------------------------------------
(* The theorems.                                                            *)

LEMMA SafetyStep == TypeInv /\ DeletionInv /\ [Next]_vars => DeletionInv'
<1> SUFFICES ASSUME TypeInv, DeletionInv, [Next]_vars PROVE DeletionInv'
  OBVIOUS
<1>1. CASE UNCHANGED vars
  <2>1. UNCHANGED <<status, owner, jobs, storage, backlog, runner, upload, acked, leaked>>
    BY <1>1 DEF vars, database
  <2>2. RunsEraseTheirManifest'
    BY <2>1, RunStays, SameIsIrrevocable DEF RunsEraseTheirManifest, SameJob, NoReturn
  <2> QED
    BY <2>1, <2>2, QuietStep
<1>2. CASE Next
  BY <1>2, LifecycleKeeps, PublishKeeps, RequestKeeps, CancelKeeps, ClockKeeps, RunnerKeeps,
     UploadLockKeeps, UploadSaveKeeps, UploadSaveFailsKeeps, UploadCommitKeeps,
     UploadFailureKeeps, SweepKeeps
     DEF Next, RequestStep, UploadEnds, UploadFault
<1> QED
  BY <1>1, <1>2

(* The invariant holds in every reachable state of every instance.          *)
THEOREM DeletionInvariant == Spec => [](TypeInv /\ DeletionInv)
<1>1. Init => TypeInv /\ DeletionInv
  BY TypeInit, SafetyInit
<1>2. TypeInv /\ DeletionInv /\ [Next]_vars => (TypeInv /\ DeletionInv)'
  BY TypeStep, SafetyStep
<1> QED
  BY <1>1, <1>2, PTL DEF Spec

(* A deleted project has left no bytes in the store, whatever uploads,      *)
(* runners, crashes and storage errors went before.                         *)
THEOREM ErasureTheorem == Spec => []ErasureIsTotal
<1>1. DeletionInv => ErasureIsTotal
  BY DEF DeletionInv
<1> QED
  BY <1>1, DeletionInvariant, PTL

(* No acknowledged upload loses its bytes except to a job past its grace    *)
(* period that nobody cancelled.                                            *)
THEOREM AcknowledgedTheorem == Spec => []AcknowledgedBytesKept
<1>1. DeletionInv => AcknowledgedBytesKept
  BY DEF DeletionInv
<1> QED
  BY <1>1, DeletionInvariant, PTL

(* The manifest captured at the request is, until the job ends, exactly the *)
(* set of the project's assets.                                             *)
THEOREM ManifestTheorem == Spec => []ManifestIsExact
<1>1. DeletionInv => ManifestIsExact
  BY DEF DeletionInv
<1> QED
  BY <1>1, DeletionInvariant, PTL

(* A job marked "completed" has no bytes left, whoever purged them.         *)
THEOREM CompletedTheorem == Spec => []CompletedMeansErased
<1>1. DeletionInv => CompletedMeansErased
  BY DEF DeletionInv, CompletedIsPurged, PurgedIsGone, CompletedMeansErased
<1> QED
  BY <1>1, DeletionInvariant, PTL

(* Bytes without an asset row are known to an upload or to the backlog, or  *)
(* were forgotten by one of the faults the model counts.                    *)
THEOREM OrphanTheorem == Spec => []NoSilentOrphan
<1>1. DeletionInv => NoSilentOrphan
  BY DEF DeletionInv
<1> QED
  BY <1>1, DeletionInvariant, PTL
=============================================================================
