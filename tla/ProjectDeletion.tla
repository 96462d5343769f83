--------------------------- MODULE ProjectDeletion ---------------------------
(***************************************************************************)
(* Permanent deletion of a project, and everything that races with it.     *)
(*                                                                         *)
(* An archived project is deleted by a job: the request captures the       *)
(* storage keys of its assets (the manifest), a grace period of seven days *)
(* runs during which the request can be cancelled, and then runners claim  *)
(* the job under a lease, purge the bytes key by key, and only then delete *)
(* the row in "projects" (everything else goes with it by cascade).        *)
(* PostgreSQL and the byte store share no transaction, runners crash, and  *)
(* at the same time administrators move the project through its lifecycle  *)
(* and contributors upload assets.                                         *)
(*                                                                         *)
(* One action is one SQL statement, one short transaction, or one call of  *)
(* the storage adapter.  A transaction is one action when the row it locks *)
(* first makes it serialisable; the upload, which keeps the lock while it  *)
(* writes bytes, is several.                                               *)
(*                                                                         *)
(* Time is not a number here: "due" says that now() has reached            *)
(* purge_after, "leased" that lease_expires_at lies in the future.  Both   *)
(* flip at any moment; the clocks of the database and of the application   *)
(* are taken to agree.                                                     *)
(***************************************************************************)
EXTENDS Naturals, FiniteSets

CONSTANTS
  Projects,    \* rows of "projects"
  Keys,        \* storage keys, generated by the adapter and never reused
  MaxJobs,     \* bound: deletion requests over a behaviour
  Runners,     \* processes running runProjectDeletions
  Admins,      \* concurrent lifecycle requests
  Uploaders,   \* concurrent upload requests
  Tokens,      \* lease tokens (UUIDs; one that nobody remembers may recur)
  Limit,       \* jobs claimed by one run
  MaxFaults,   \* bound: crashes, storage errors, lost commits, slow runners
  None         \* the SQL null

ASSUME NoneIsNoValue == None \notin Projects \cup Keys \cup Tokens
ASSUME BoundsAreNumbers == MaxJobs \in Nat /\ Limit \in Nat /\ MaxFaults \in Nat

Jobs == 1..MaxJobs

VARIABLES
  status,      \* projects.status, "gone" once the row is deleted
  previous,    \* projects.previous_status
  published,   \* projects that own a row in project_public_access
  owner,       \* assets.project_id by storage key; the row dies with its project
  jobs,        \* project_deletion_jobs with project_deletion_job_objects
  storage,     \* keys whose bytes are in the byte store
  backlog,     \* storage_cleanup_backlog, the rows not cleaned yet
  transition,  \* transitionProjectLifecycle in progress, by administrator
  runner,      \* runProjectDeletions in progress, by runner
  upload,      \* withProjectDeletionGuard in progress, by uploader
  acked,       \* history: keys whose upload was reported as successful
  leaked,      \* history: keys forgotten by a crash or by a swallowed error
  faults       \* faults so far

database == <<status, previous, published, owner, jobs, backlog>>
vars == <<database, storage, transition, runner, upload, acked, leaked, faults>>

-----------------------------------------------------------------------------
(* Types.                                                                   *)

LiveStatus == {"active", "stabilization", "archived"}
ReturnStatus == {"active", "stabilization"}
PurgeState == {"pending", "in_progress", "completed", "failed"}

Job == [project : Projects \cup {None}, cancelled : BOOLEAN, dbDone : BOOLEAN,
        purge : PurgeState, due : BOOLEAN, leased : BOOLEAN,
        token : Tokens \cup {None}, manifest : SUBSET Keys, purged : SUBSET Keys]

Transition == [pc : {"idle", "read", "checked"}, project : Projects \cup {None},
               to : LiveStatus \cup {"restore"}, seen : LiveStatus,
               seenPrevious : ReturnStatus \cup {None}]

Run == [pc : {"idle", "next", "erase", "mark", "fail", "finalize"},
        token : Tokens \cup {None}, queue : SUBSET Jobs,
        job : Jobs \cup {None}, todo : SUBSET Keys, key : Keys \cup {None}]

Upload == [pc : {"idle", "locked", "saved", "compensate", "backlog"},
           project : Projects \cup {None}, key : Keys \cup {None}]

NoJob == [project |-> None, cancelled |-> FALSE, dbDone |-> FALSE,
          purge |-> "pending", due |-> FALSE, leased |-> FALSE, token |-> None,
          manifest |-> {}, purged |-> {}]
NoTransition == [pc |-> "idle", project |-> None, to |-> "active",
                 seen |-> "active", seenPrevious |-> None]
NoRun == [pc |-> "idle", token |-> None, queue |-> {}, job |-> None,
          todo |-> {}, key |-> None]
NoUpload == [pc |-> "idle", project |-> None, key |-> None]

TypeOK ==
  /\ status \in [Projects -> LiveStatus \cup {"gone"}]
  /\ previous \in [Projects -> ReturnStatus \cup {None}]
  /\ published \in SUBSET Projects
  /\ owner \in [Keys -> Projects \cup {None}]
  /\ jobs \in [Jobs -> Job]
  /\ storage \in SUBSET Keys
  /\ backlog \in SUBSET Keys
  /\ transition \in [Admins -> Transition]
  /\ runner \in [Runners -> Run]
  /\ upload \in [Uploaders -> Upload]
  /\ acked \in SUBSET Keys
  /\ leaked \in SUBSET Keys
  /\ faults \in 0..MaxFaults

-----------------------------------------------------------------------------
(* Predicates the handlers share.                                           *)

Requested(j) == jobs[j].project # None

(* "cancelled_at is null and db_purge_completed_at is null"                 *)
Active(j) == Requested(j) /\ ~jobs[j].cancelled /\ ~jobs[j].dbDone

HasActiveJob(p) == \E j \in Jobs : Active(j) /\ jobs[j].project = p

(* The rows of "assets" of project p; they cascade with the project.        *)
AssetsOf(p) == {k \in Keys : owner[k] = p /\ status[p] # "gone"}

NeverLocked(p) == FALSE   \* mutant of Locked: the SELECT without FOR UPDATE

(* SELECT ... FOR UPDATE on the project, held by an upload in progress.      *)
Locked(p) == \E u \in Uploaders : /\ upload[u].pc \in {"locked", "saved"}
                                  /\ upload[u].project = p

Fault == faults < MaxFaults /\ faults' = faults + 1

Init ==
  /\ status \in [Projects -> {"active", "archived"}]
  /\ previous = [p \in Projects |-> IF status[p] = "archived" THEN "active" ELSE None]
  /\ published = {}
  /\ owner \in [Keys -> Projects \cup {None}]
  /\ jobs = [j \in Jobs |-> NoJob]
  /\ acked = {k \in Keys : owner[k] # None}
  /\ storage = acked
  /\ backlog = {}
  /\ transition = [a \in Admins |-> NoTransition]
  /\ runner = [r \in Runners |-> NoRun]
  /\ upload = [u \in Uploaders |-> NoUpload]
  /\ leaked = {}
  /\ faults = 0

-----------------------------------------------------------------------------
(* Lifecycle (transitionProjectLifecycle): a read of the project, a read of *)
(* the jobs and an update, on three connections, with no transaction.       *)

ReadProject(a, p, to) ==
  /\ transition[a].pc = "idle"
  /\ status[p] # "gone"
  /\ transition' = [transition EXCEPT ![a] =
       [pc |-> "read", project |-> p, to |-> to,
        seen |-> status[p], seenPrevious |-> previous[p]]]
  /\ UNCHANGED <<database, storage, runner, upload, acked, leaked, faults>>

CheckNoActiveJob(a) ==
  /\ transition[a].pc = "read"
  /\ transition' = [transition EXCEPT ![a] =
       IF HasActiveJob(@.project) THEN NoTransition ELSE [@ EXCEPT !.pc = "checked"]]
  /\ UNCHANGED <<database, storage, runner, upload, acked, leaked, faults>>

(* "restore" goes back to the remembered status, "archived" remembers the   *)
(* one that was read; the other targets leave previous_status as it was.    *)
NextStatus(t) ==
  IF t.to # "restore" THEN t.to
  ELSE IF t.seenPrevious = None THEN "active" ELSE t.seenPrevious

NextPrevious(t) ==
  CASE t.to = "archived" -> t.seen
    [] t.to = "restore"  -> None
    [] OTHER             -> t.seenPrevious

RowAcceptsAnything(p, prev) == status[p] # "gone"   \* mutant: no CHECK

(* The update touches nothing when the project is gone, and the CHECK on    *)
(* previous_status makes it fail when it would remember "archived".         *)
RowAccepts(p, prev) == status[p] # "gone" /\ prev # "archived"

WriteTransition(a) ==
  LET t == transition[a]
      p == t.project
      writes == RowAccepts(p, NextPrevious(t))
  IN /\ t.pc = "checked"
     /\ ~Locked(p)
     /\ status' = IF writes THEN [status EXCEPT ![p] = NextStatus(t)] ELSE status
     /\ previous' = IF writes THEN [previous EXCEPT ![p] = NextPrevious(t)] ELSE previous
     /\ transition' = [transition EXCEPT ![a] = NoTransition]
     /\ UNCHANGED <<published, owner, jobs, backlog, storage, runner, upload,
                    acked, leaked, faults>>

(* First publication: the project gets its public access row, which is      *)
(* never deleted.  Neither an archived status nor a job stands in the way.  *)
Publish(p) ==
  /\ status[p] # "gone"
  /\ p \notin published
  /\ ~Locked(p)
  /\ published' = published \cup {p}
  /\ UNCHANGED <<status, previous, owner, jobs, backlog, storage, transition,
                 runner, upload, acked, leaked, faults>>

-----------------------------------------------------------------------------
(* Request and cancellation.                                                *)

(* The manifest: the storage keys of the project's assets at the request.   *)
CapturedManifest(p) == AssetsOf(p)

RequestDeletion(p, j) ==
  /\ status[p] = "archived"
  /\ ~Locked(p)
  /\ ~HasActiveJob(p)
  /\ ~Requested(j)
  /\ \A i \in Jobs : i < j => Requested(i)
  /\ jobs' = [jobs EXCEPT ![j] =
       [NoJob EXCEPT !.project = p, !.manifest = CapturedManifest(p)]]
  /\ UNCHANGED <<status, previous, published, owner, backlog, storage,
                 transition, runner, upload, acked, leaked, faults>>

CancellableAnytime(j) == Active(j)   \* mutant: no look at state or clock

Cancellable(j) ==
  /\ Active(j)
  /\ jobs[j].purge \notin {"in_progress", "completed"}
  /\ ~jobs[j].due

CancelDeletion(j) ==
  /\ Cancellable(j)
  /\ jobs' = [jobs EXCEPT ![j].cancelled = TRUE]
  /\ UNCHANGED <<status, previous, published, owner, backlog, storage,
                 transition, runner, upload, acked, leaked, faults>>

(* now() reaches purge_after, in the order of the requests.                 *)
GraceElapses(j) ==
  /\ Requested(j) /\ ~jobs[j].due
  /\ \A i \in Jobs : i < j => jobs[i].due
  /\ jobs' = [jobs EXCEPT ![j].due = TRUE]
  /\ UNCHANGED <<status, previous, published, owner, backlog, storage,
                 transition, runner, upload, acked, leaked, faults>>

-----------------------------------------------------------------------------
(* The runner: claim, purge, finalize.                                      *)

(* Mutants of Claimable: the grace period is ignored; a job whose runner    *)
(* died is never taken over.                                                *)
ClaimableEarly(j) ==
  /\ Active(j)
  /\ jobs[j].purge \in {"pending", "failed"} \/ ~jobs[j].leased
ClaimableOnce(j) ==
  /\ Active(j) /\ jobs[j].due
  /\ jobs[j].purge \in {"pending", "failed"}

Claimable(j) ==
  /\ Active(j) /\ jobs[j].due
  /\ jobs[j].purge \in {"pending", "failed"} \/ ~jobs[j].leased

(* "order by purge_after limit $2"                                          *)
OldestClaimable ==
  {j \in Jobs : /\ Claimable(j)
                /\ Cardinality({i \in Jobs : i < j /\ Claimable(i)}) < Limit}

FreshToken(t) ==
  /\ \A j \in Jobs : jobs[j].token # t
  /\ \A r \in Runners : runner[r].token # t

Claim(r) ==
  /\ runner[r].pc = "idle"
  /\ OldestClaimable # {}
  /\ \E t \in Tokens :
       /\ FreshToken(t)
       /\ jobs' = [j \in Jobs |->
            IF j \in OldestClaimable
            THEN [jobs[j] EXCEPT !.token = t, !.leased = TRUE,
                                 !.purge = IF @ = "completed" THEN @ ELSE "in_progress"]
            ELSE jobs[j]]
       /\ runner' = [runner EXCEPT ![r] =
            [NoRun EXCEPT !.pc = "next", !.token = t, !.queue = OldestClaimable]]
  /\ UNCHANGED <<status, previous, published, owner, backlog, storage,
                 transition, upload, acked, leaked, faults>>

(* The loop over the claimed jobs goes on, or the run ends.                 *)
LeaveJob(r) ==
  runner' = [runner EXCEPT ![r] =
    IF @.queue = {} THEN NoRun
    ELSE [@ EXCEPT !.pc = "next", !.job = None, !.todo = {}, !.key = None]]

(* The next claimed job, and the objects of its manifest still to purge.    *)
ListObjects(r) ==
  /\ runner[r].pc = "next"
  /\ \E j \in runner[r].queue :
       /\ \A i \in runner[r].queue : j <= i
       /\ runner' = [runner EXCEPT ![r] =
            [@ EXCEPT !.pc = "erase", !.job = j, !.queue = runner[r].queue \ {j},
                      !.todo = jobs[j].manifest \ jobs[j].purged]]
  /\ UNCHANGED <<database, storage, transition, upload, acked, leaked, faults>>

(* storage.delete succeeds, also on a key whose bytes are already gone.     *)
EraseObject(r, k) ==
  /\ runner[r].pc = "erase" /\ k \in runner[r].todo
  /\ storage' = storage \ {k}
  /\ runner' = [runner EXCEPT ![r] = [@ EXCEPT !.pc = "mark", !.key = k]]
  /\ UNCHANGED <<database, transition, upload, acked, leaked, faults>>

(* Mutant of EraseFails: the error is swallowed and the key marked purged.  *)
EraseFailureIgnored(r, k) ==
  /\ runner[r].pc = "erase" /\ k \in runner[r].todo
  /\ storage' \in {storage, storage \ {k}}
  /\ runner' = [runner EXCEPT ![r] = [@ EXCEPT !.pc = "mark", !.key = k]]
  /\ Fault
  /\ UNCHANGED <<database, transition, upload, acked, leaked>>

(* storage.delete throws, with or without having deleted the bytes.         *)
EraseFails(r, k) ==
  /\ runner[r].pc = "erase" /\ k \in runner[r].todo
  /\ storage' \in {storage, storage \ {k}}
  /\ runner' = [runner EXCEPT ![r] = [@ EXCEPT !.pc = "fail", !.todo = {}]]
  /\ Fault
  /\ UNCHANGED <<database, transition, upload, acked, leaked>>

HoldsAnyToken(r, j) == TRUE   \* mutant: "where id = $1"

(* "where id = $1 and lease_token = $2"                                     *)
HoldsToken(r, j) == jobs[j].token = runner[r].token

MarkFailed(r) ==
  LET j == runner[r].job
  IN /\ runner[r].pc = "fail"
     /\ jobs' = IF HoldsToken(r, j) THEN [jobs EXCEPT ![j].purge = "failed"] ELSE jobs
     /\ LeaveJob(r)
     /\ UNCHANGED <<status, previous, published, owner, backlog, storage,
                    transition, upload, acked, leaked, faults>>

(* "set purged_at = now()": the object row is not guarded by the lease.     *)
MarkPurged(r) ==
  LET j == runner[r].job
  IN /\ runner[r].pc = "mark"
     /\ jobs' = [jobs EXCEPT ![j].purged = @ \cup {runner[r].key}]
     /\ runner' = [runner EXCEPT ![r] =
          [@ EXCEPT !.pc = "erase", !.todo = runner[r].todo \ {runner[r].key},
                    !.key = None]]
     /\ UNCHANGED <<status, previous, published, owner, backlog, storage,
                    transition, upload, acked, leaked, faults>>

(* The count of what remains and the update to "completed" are one action:  *)
(* the manifest is fixed and marks are only ever added.                     *)
StorageDone(r) ==
  LET j == runner[r].job
      ok == jobs[j].manifest \subseteq jobs[j].purged /\ HoldsToken(r, j)
  IN /\ runner[r].pc = "erase" /\ runner[r].todo = {}
     /\ IF ok
        THEN /\ jobs' = [jobs EXCEPT ![j].purge = "completed"]
             /\ runner' = [runner EXCEPT ![r] = [@ EXCEPT !.pc = "finalize"]]
        ELSE jobs' = jobs /\ LeaveJob(r)
     /\ UNCHANGED <<status, previous, published, owner, backlog, storage,
                    transition, upload, acked, leaked, faults>>

(* The checks of finalizeProjectDeletion on the locked job ...              *)
OwnsCompletedJob(r, j) ==
  /\ Active(j)
  /\ jobs[j].purge = "completed"
  /\ HoldsToken(r, j) /\ jobs[j].leased

(* ... and those on the locked project.  The last one is PostgreSQL's: the  *)
(* foreign key of project_public_access is ON DELETE RESTRICT.              *)
ProjectErasable(j) ==
  /\ status[jobs[j].project] = "archived"
  /\ jobs[j].manifest \subseteq jobs[j].purged
  /\ jobs[j].project \notin published

Finalize(r) ==
  LET j == runner[r].job
  IN /\ runner[r].pc = "finalize"
     /\ OwnsCompletedJob(r, j) /\ ~Locked(jobs[j].project) /\ ProjectErasable(j)
     /\ status' = [status EXCEPT ![jobs[j].project] = "gone"]
     /\ jobs' = [jobs EXCEPT ![j].dbDone = TRUE]
     /\ LeaveJob(r)
     /\ UNCHANGED <<previous, published, owner, backlog, storage, transition,
                    upload, acked, leaked, faults>>

FinalizeRefused(r) ==
  LET j == runner[r].job
  IN /\ runner[r].pc = "finalize"
     /\ ~OwnsCompletedJob(r, j)
          \/ (~Locked(jobs[j].project) /\ ~ProjectErasable(j))
     /\ LeaveJob(r)
     /\ UNCHANGED <<database, storage, transition, upload, acked, leaked, faults>>

(* A statement fails: the job is left as it is and the loop goes on.        *)
RunnerError(r) ==
  /\ runner[r].job # None
  /\ LeaveJob(r) /\ Fault
  /\ UNCHANGED <<database, storage, transition, upload, acked, leaked>>

(* The process dies, with everything it had claimed.                        *)
RunnerCrash(r) ==
  /\ runner[r].pc # "idle"
  /\ runner' = [runner EXCEPT ![r] = NoRun]
  /\ Fault
  /\ UNCHANGED <<database, storage, transition, upload, acked, leaked>>

(* Some run still has the job to process under its current token.           *)
InHand(j) == \E r \in Runners : /\ HoldsToken(r, j)
                                /\ j = runner[r].job \/ j \in runner[r].queue

(* now() reaches lease_expires_at.  That a run is slower than its lease     *)
(* counts as a fault; a lease nobody works under just ends.                 *)
LeaseExpires(j) ==
  /\ jobs[j].leased
  /\ jobs' = [jobs EXCEPT ![j].leased = FALSE]
  /\ IF InHand(j) THEN Fault ELSE UNCHANGED faults
  /\ UNCHANGED <<status, previous, published, owner, backlog, storage,
                 transition, runner, upload, acked, leaked>>

-----------------------------------------------------------------------------
(* Uploads: withProjectDeletionGuard around save and insert.                *)

UploadAlwaysAllowed(p) == TRUE   \* mutant: jobs are not looked at

UploadAllowed(p) == ~HasActiveJob(p)

UploadLock(u, p) ==
  /\ upload[u].pc = "idle"
  /\ status[p] # "gone"
  /\ ~Locked(p)
  /\ UploadAllowed(p)
  /\ upload' = [upload EXCEPT ![u] = [pc |-> "locked", project |-> p, key |-> None]]
  /\ UNCHANGED <<database, storage, transition, runner, acked, leaked, faults>>

(* A key drawn by randomUUID: nothing in the system has ever mentioned it.  *)
FreshKey(k) ==
  /\ owner[k] = None
  /\ k \notin storage \cup backlog \cup leaked
  /\ \A u \in Uploaders : upload[u].key # k

(* storage.save, followed at once by trackSavedKey.                         *)
UploadSave(u, k) ==
  /\ upload[u].pc = "locked"
  /\ FreshKey(k)
  /\ storage' = storage \cup {k}
  /\ upload' = [upload EXCEPT ![u] = [@ EXCEPT !.pc = "saved", !.key = k]]
  /\ UNCHANGED <<database, transition, runner, acked, leaked, faults>>

(* storage.save throws, perhaps after the bytes were written: the key was   *)
(* never tracked, so nothing is compensated.                                *)
UploadSaveFails(u, k) ==
  /\ upload[u].pc = "locked"
  /\ FreshKey(k)
  /\ \/ UNCHANGED <<storage, leaked>>
     \/ storage' = storage \cup {k} /\ leaked' = leaked \cup {k}
  /\ upload' = [upload EXCEPT ![u] = NoUpload]
  /\ Fault
  /\ UNCHANGED <<database, transition, runner, acked>>

(* The insert and the COMMIT go through and the handler knows it.           *)
UploadCommit(u) ==
  /\ upload[u].pc = "saved"
  /\ owner' = [owner EXCEPT ![upload[u].key] = upload[u].project]
  /\ acked' = acked \cup {upload[u].key}
  /\ upload' = [upload EXCEPT ![u] = NoUpload]
  /\ UNCHANGED <<status, previous, published, jobs, backlog, storage,
                 transition, runner, leaked, faults>>

(* The insert, or the COMMIT, fails: ROLLBACK frees the lock.               *)
UploadRollback(u) ==
  /\ upload[u].pc = "saved"
  /\ upload' = [upload EXCEPT ![u].pc = "compensate"]
  /\ Fault
  /\ UNCHANGED <<database, storage, transition, runner, acked, leaked>>

(* The COMMIT takes effect but its answer is lost: the handler believes it  *)
(* failed.                                                                  *)
UploadCommitLost(u) ==
  /\ upload[u].pc = "saved"
  /\ owner' = [owner EXCEPT ![upload[u].key] = upload[u].project]
  /\ upload' = [upload EXCEPT ![u].pc = "compensate"]
  /\ Fault
  /\ UNCHANGED <<status, previous, published, jobs, backlog, storage,
                 transition, runner, acked, leaked>>

Compensate(u) ==
  /\ upload[u].pc = "compensate"
  /\ storage' = storage \ {upload[u].key}
  /\ upload' = [upload EXCEPT ![u] = NoUpload]
  /\ UNCHANGED <<database, transition, runner, acked, leaked, faults>>

(* Mutant of CompensateFails: the failure is not recorded in the backlog.   *)
CompensateFailsSilently(u) ==
  /\ upload[u].pc = "compensate"
  /\ storage' \in {storage, storage \ {upload[u].key}}
  /\ upload' = [upload EXCEPT ![u] = NoUpload]
  /\ Fault
  /\ UNCHANGED <<database, transition, runner, acked, leaked>>

CompensateFails(u) ==
  /\ upload[u].pc = "compensate"
  /\ storage' \in {storage, storage \ {upload[u].key}}
  /\ upload' = [upload EXCEPT ![u].pc = "backlog"]
  /\ Fault
  /\ UNCHANGED <<database, transition, runner, acked, leaked>>

RecordInBacklog(u) ==
  /\ upload[u].pc = "backlog"
  /\ backlog' = backlog \cup {upload[u].key}
  /\ upload' = [upload EXCEPT ![u] = NoUpload]
  /\ UNCHANGED <<status, previous, published, owner, jobs, storage, transition,
                 runner, acked, leaked, faults>>

(* ".catch(() => {})"                                                       *)
RecordInBacklogFails(u) ==
  /\ upload[u].pc = "backlog"
  /\ leaked' = leaked \cup {upload[u].key}
  /\ upload' = [upload EXCEPT ![u] = NoUpload]
  /\ Fault
  /\ UNCHANGED <<database, storage, transition, runner, acked>>

(* The server dies: the transaction is rolled back, the bytes stay.         *)
UploadCrash(u) ==
  /\ upload[u].pc # "idle"
  /\ leaked' = leaked \cup ({upload[u].key} \ {None})
  /\ upload' = [upload EXCEPT ![u] = NoUpload]
  /\ Fault
  /\ UNCHANGED <<database, storage, transition, runner, acked>>

(* The sweeper keeps its row locked until the commit, so a row is swept by  *)
(* one process at a time; what can be seen of it half done is the bytes     *)
(* gone and the row still there.                                            *)
SweepBacklog(k) ==
  /\ k \in backlog
  /\ storage' = storage \ {k}
  /\ backlog' = backlog \ {k}
  /\ UNCHANGED <<status, previous, published, owner, jobs, transition, runner,
                 upload, acked, leaked, faults>>

SweepInterrupted(k) ==
  /\ k \in backlog
  /\ storage' = storage \ {k}
  /\ Fault
  /\ UNCHANGED <<database, transition, runner, upload, acked, leaked>>

-----------------------------------------------------------------------------
(* Specifications.                                                          *)

LifecycleStep(a) ==
  \/ \E p \in Projects, to \in LiveStatus \cup {"restore"} : ReadProject(a, p, to)
  \/ CheckNoActiveJob(a)
  \/ WriteTransition(a)

RequestStep ==
  \/ \E p \in Projects : Publish(p)
  \/ \E p \in Projects, j \in Jobs : RequestDeletion(p, j)
  \/ \E j \in Jobs : CancelDeletion(j)

RunnerStep(r) ==
  \/ Claim(r)
  \/ ListObjects(r)
  \/ \E k \in Keys : EraseObject(r, k)
  \/ MarkFailed(r)
  \/ MarkPurged(r)
  \/ StorageDone(r)
  \/ Finalize(r)
  \/ FinalizeRefused(r)

RunnerFault(r) ==
  \/ \E k \in Keys : EraseFails(r, k)
  \/ RunnerError(r)
  \/ RunnerCrash(r)

UploadEnds(u) ==
  \/ \E k \in Keys : UploadSave(u, k)
  \/ UploadCommit(u)
  \/ Compensate(u)
  \/ RecordInBacklog(u)

UploadFault(u) ==
  \/ \E k \in Keys : UploadSaveFails(u, k)
  \/ UploadRollback(u)
  \/ UploadCommitLost(u)
  \/ CompensateFails(u)
  \/ RecordInBacklogFails(u)
  \/ UploadCrash(u)

Next ==
  \/ \E a \in Admins : LifecycleStep(a)
  \/ RequestStep
  \/ \E j \in Jobs : GraceElapses(j) \/ LeaseExpires(j)
  \/ \E r \in Runners : RunnerStep(r) \/ RunnerFault(r)
  \/ \E u \in Uploaders, p \in Projects : UploadLock(u, p)
  \/ \E u \in Uploaders : UploadEnds(u) \/ UploadFault(u)
  \/ \E k \in Keys : SweepBacklog(k) \/ SweepInterrupted(k)

Spec == Init /\ [][Next]_vars

(* The infrastructure starts runners and sweeps again and again, a started  *)
(* request runs to its end, and clocks move on.  Nothing obliges a person   *)
(* to act, and faults are not owed.                                         *)
Fairness ==
  /\ \A r \in Runners : WF_vars(RunnerStep(r))
  /\ \A u \in Uploaders : WF_vars(UploadEnds(u))
  /\ \A a \in Admins : WF_vars(CheckNoActiveJob(a) \/ WriteTransition(a))
  /\ \A j \in Jobs : WF_vars(GraceElapses(j)) /\ WF_vars(LeaseExpires(j))
  /\ \A k \in Keys : WF_vars(SweepBacklog(k))

FairSpec == Spec /\ Fairness

-----------------------------------------------------------------------------
(* Safety.                                                                  *)

(* A deleted project leaves no bytes behind: whatever asset row it ever     *)
(* owned, its object is gone from the byte store (finalizeProjectDeletion   *)
(* relies on the manifest captured days before, and on no upload having     *)
(* slipped in since).                                                       *)
ErasureIsTotal ==
  \A p \in Projects : status[p] = "gone" =>
    \A k \in Keys : owner[k] = p => k \notin storage

(* The bytes of an upload that was reported successful disappear only under *)
(* a deletion job whose grace period has ended without cancellation: no     *)
(* compensation, sweep, stale runner or cancelled job ever takes them.      *)
AcknowledgedBytesKept ==
  \A k \in acked \ storage :
    \E j \in Jobs : /\ jobs[j].project = owner[k] /\ k \in jobs[j].manifest
                    /\ jobs[j].due /\ ~jobs[j].cancelled

(* While a job is active its manifest is exactly the set of assets of the   *)
(* project: the upload guard and the request exclude each other.            *)
ManifestIsExact ==
  \A j \in Jobs : Active(j) => jobs[j].manifest = AssetsOf(jobs[j].project)

(* Bytes without an asset row are in an upload still running, in the        *)
(* cleanup backlog, or were forgotten by a crash, by a save that failed     *)
(* half way, or by the swallowed error of the backlog insert itself.        *)
NoSilentOrphan ==
  \A k \in storage : owner[k] = None =>
    \/ k \in backlog \cup leaked
    \/ \E u \in Uploaders : upload[u].key = k

(* A job whose storage is "completed" has no bytes left, whoever purged     *)
(* them and however often runners crashed or overtook each other.           *)
CompletedMeansErased ==
  \A j \in Jobs : jobs[j].purge = "completed" => jobs[j].manifest \cap storage = {}

(* A runner that lost its lease never takes a job back from "completed" to  *)
(* "failed", and a cancelled or finished job is never written again (time   *)
(* alone goes on).                                                          *)
StaleRunnersHarmless ==
  [][\A j \in Jobs :
       /\ jobs[j].purge = "completed" => jobs'[j].purge = "completed"
       /\ jobs[j].cancelled \/ jobs[j].dbDone =>
            jobs'[j] = [jobs[j] EXCEPT !.due = jobs'[j].due,
                                       !.leased = jobs'[j].leased]]_vars

-----------------------------------------------------------------------------
(* Liveness.                                                                *)

Overdue(j) == Active(j) /\ jobs[j].due

(* A due job does not wait for ever, as long as its project stays archived  *)
(* and was never published: crashed runners, expired leases, storage        *)
(* errors and other jobs only delay it.                                     *)
ErasableJobsEnd ==
  \A j \in Jobs : []<>~(Overdue(j) /\ status[jobs[j].project] = "archived"
                                   /\ jobs[j].project \notin published)

-----------------------------------------------------------------------------
(* What the repository says, and the code does not do.                      *)

(* "Le futur Batch 6 executera reellement les jobs arrives a purge_after"   *)
(* (deletionJobs.js): every due job is executed.                            *)
DueJobsAreExecuted == \A j \in Jobs : []<>~Overdue(j)

(* "un projet portant un project_deletion_job actif ne peut plus quitter    *)
(* 'archived'" (transitionProjectLifecycle).                                *)
ActiveJobKeepsArchived ==
  \A j \in Jobs : Active(j) => status[jobs[j].project] = "archived"

=============================================================================
