# Formal models of Storm Orogeny

TLA+ models of the server of this repository (`src/`), the TLC runs that check
them on small instances, and TLAPS proofs of the results that matter most.
Paths below are relative to the root of the repository; line numbers are in
`PROJECT.json`, which maps every definition to the code it stands for.

## 1. The system

Storm Orogeny is a multi-tenant Express server over PostgreSQL. An organisation
(tenant) has projects; people reach them through memberships and grants;
contributors write content and upload assets; a project is published as an
immutable JSON document and served to the public behind an unguessable address;
cron-style command-line runners purge what the privacy policy says must go.

There is no message queue and no in-process worker: concurrency is between HTTP
requests, between requests and runners, and between several runners, all
through one database at READ COMMITTED. The byte store (local disk or a table of
its own, always through separate connections) shares no transaction with the
rest. Time matters through `now()` in the database and `new Date()` in the
application.

| component | state | operations | interacts with | hard because |
|---|---|---|---|---|
| Permanent deletion (`domain/projects/deletionJobs.js`, `deletionRunner.js`) | `project_deletion_jobs`, `project_deletion_job_objects`, leases | request, cancel, claim, purge, finalize | lifecycle, uploads, byte store, public access | two stores without a common transaction, crashes, competing runners, grace period |
| Guarded upload (`withProjectDeletionGuard`, routes `studio`, `projects`) | `assets`, bytes | lock, save, insert, commit, compensate | deletion (row lock), backlog | lost commits, failed compensation |
| Cleanup backlog (`privacy/storageCleanupSweeper.js`) | `storage_cleanup_backlog` | sweep | byte store | retries, crashes between delete and mark |
| Lifecycle (`control/repository.js`) | `projects.status`, `previous_status`, journal | stabilize, reactivate, archive, restore | deletion | read, check and write without a transaction |
| Public access (`publicAccess`, `clients`, `projects/repository.js`) | `project_public_access`, slugs, versions | first access, rotate, revoke, rename, reassign | publication, deletion (foreign key) | renames that race and copy stale parts; one rotation outside a transaction |
| Clients (`clients`) | name, slug, version | rename | public access of all its projects | copies slugs of projects that may be renamed meanwhile |
| Publication (`publication/repository.js`) | `project_publications`, status by revision | reserve, compile, activate or fail | studio content, public access | three transactions; out of order completion; crash while compiling |
| Memberships and grants (`memberships`, `permissions`) | memberships, grants, invitations, mappings | invite, accept, revoke, disable mapping | identity, user lifecycle | last-administrator rule is check-then-act |
| Identity and sessions (`identity`) | users, external identities, sessions | link, log in, reconcile groups, deactivate, reactivate, anonymize | grants | concurrent first logins; session made while the user is deactivated |
| Studio (`studio/repository.js`) | questions, articles, milestones, team, sections, ambassadors, spaces, blocks and media, home page, versions | list, create, save, delete | publication, assets | lost updates, identity of child rows, lists in two statements |
| Compiler and candidate (`publication/compiler.js`, `candidate.js`) | none | page from content | publication | orders, what is derived from several items |
| Storm Match (`stormMatch`) | none | knowledge of a page, answer to a query | publication, public site | revisions that change under a visitor |
| Project setup (`project-setup`) | identity, fonts, logo | one versioned update | assets | |
| Retention (`privacy`) | what it deletes | one pass per category | sessions, invitations, audit, telemetry | boundaries; one category failing |
| Telemetry and reporting (`pilotage`) | events, sessions, daily figures | record, aggregate | public site | double counting, thresholds |
| Rate limit (`http/middleware/rateLimit.js`) | a counter per address | admit or refuse | every public route | window boundary |
| Connection pool (`db/pool.js`, PostgreSQL storage adapter) | ten connections | acquire, release | uploads, sweeper | holding one while asking for another |
| Encryption, validation of assets, seeds, configuration, front end | none of their own | pure functions, wiring | | not protocols |

What makes each one correct:

* **Deletion, uploads, sweep**: a deleted project leaves no bytes; acknowledged
  bytes disappear only under a due job nobody cancelled; orphans are always
  known to somebody; stale runners harm nothing; a due job ends.
* **Lifecycle**: an active job keeps its project archived.
* **Public access, clients**: at most one current address; it carries the present
  slugs unless calls raced; a rotation never leaves a published project
  without one; whoever must hand out a new link is told.
* **Publication**: one active publication, which always has a page and an address.
* **Grants**: a project or organisation always keeps an active administrator;
  a disabled mapping justifies no active grant; nothing is granted twice.
* **Identity**: one user per external identity, entered by its owner only; an
  invitation is spent once; a deactivated user has no usable session, and
  sessions from before a deactivation stay dead (one that a login in progress
  inserts after it does not).
* **Studio**: no lost update; a version stands for an item and its children.
* **Compiler, Storm Match**: what is derived agrees with what it is derived from; a
  visitor is answered from what he was shown.
* **Retention**: nothing usable is deleted, everything expired eventually is,
  one failing category does not hold the others back.
* **Telemetry**: one visit counts once; a figure that is called exact is.

`PROJECT.json` lists the components with their files and, under `hazards`, each
place in the code where one of these can go wrong.

## 2. Modules

| module | what it is |
|---|---|
| `ErasurePromise` | abstract specification: what deletion promises, without jobs, leases or manifests |
| `ProjectDeletion` | the protocol: lifecycle, request, cancel, runners, uploads, compensation, sweep |
| `ProjectDeletionRefinement` | the refinement mapping from the protocol to the promise |
| `ProjectDeletionInvariant` | the inductive invariant |
| `ProjectDeletionSafety` | TLAPS: type correctness, the inductive invariant and the safety theorems it gives |
| `DeletionStepProofs` | TLAPS: the protocol implements the promise; stale runners undo nothing |
| `MCProjectDeletion`, `MCDeletionRunners` | instances for TLC |
| `Access` | grants, group mappings, logins, the life of a user, sessions |
| `AccessProofs` | TLAPS: types, sessions against deactivation and anonymization, the last-administrator rule and exact reconciliation, but for races |
| `MCAccess` | instances for TLC |
| `PublicAddress` | publications, and the public address under rotations, renames and changes of client |
| `PublicAddressProofs` | TLAPS: one of each, who is served, who is noticed, which names an address shows |
| `MCPublicAddress` | instances for TLC |
| `Studio` | drafts: items with children, versions, the home page, several editors |
| `Compiler` | the page of a project as a function of its content |
| `Publishing` | `Studio`, composed with snapshots, `Compiler`, activation and a visitor who asks |
| `PublishingProofs` | TLAPS: types, versions, no overwrite of what was not seen; publishing keeps the drafts; pages of active revisions; answers; what pages show of the drafts they were compiled from |
| `MCPublishing` | instances for TLC |
| `Clock` | the time that the next three share |
| `Onboarding` | creation of projects, invitations, first logins step by step, sessions, end of an account |
| `Telemetry` | requests of visitors, sessions, daily counts, reports |
| `Retention` | the retention runner, composed with `Onboarding` and `Telemetry` |
| `OnboardingProofs` | TLAPS: every action of `Onboarding` keeps its invariant |
| `TelemetryProofs` | TLAPS: every action of `Telemetry` keeps its invariant, and what that says of sessions, counts and reports |
| `RetentionProofs` | TLAPS: the composition; what a pass leaves behind, and what a step may never do |
| `MCRetention` | instances for TLC |

Three modules compose others: `ProjectDeletion` is deletion, lifecycle, uploads and
sweep over one byte store; `Publishing` is the drafts, the compiler and the site;
`Retention` is what people and visitors write and what the runner removes. Four
places are modelled twice, each time for what its neighbours tell apart. A
publication is locks and addresses in `PublicAddress`, content in `Publishing`.
A login is grants in `Access`, accounts in `Onboarding`. The end of an account is
grants and sessions in `Access`, all it deletes in `Onboarding`. And the first
address is only a row with a foreign key in `ProjectDeletion`.

### ProjectDeletion and the code

One action is one SQL statement, one short transaction, or one call of the
storage adapter, whichever is the unit others can interleave with.

| variable | code |
|---|---|
| `status`, `previous` | `projects.status`, `previous_status`; `"gone"` once the row is deleted |
| `published` | the project owns a row of `project_public_access` |
| `owner` | `assets.project_id` by `storage_key` (the row cascades with the project) |
| `jobs` | `project_deletion_jobs` with their objects: `manifest` is the set of keys, `purged` those with `purged_at` |
| `storage` | keys whose bytes exist |
| `backlog` | `storage_cleanup_backlog` rows not cleaned |
| `transition`, `runner`, `upload` | local variables of `transitionProjectLifecycle`, `runProjectDeletions`, `withProjectDeletionGuard` in progress |
| `acked`, `leaked`, `faults` | history: acknowledged uploads, keys forgotten by a named failure, faults so far |

| action | code |
|---|---|
| `ReadProject`, `CheckNoActiveJob`, `WriteTransition` | the three statements of `transitionProjectLifecycle` |
| `RequestDeletion`, `CancelDeletion` | the two transactions of `deletionJobs.js`, serialised by the project row and the job row |
| `Claim` | `claimDueDeletionJobs` |
| `ListObjects`, `EraseObject`, `EraseFails`, `MarkPurged`, `MarkFailed`, `StorageDone` | the statements of `purgeJobStorageObjects` |
| `Finalize`, `FinalizeRefused` | `finalizeProjectDeletion` |
| `RunnerError`, `RunnerCrash`, `LeaseExpires` | a failing statement, a dying process, ten minutes passing |
| `UploadLock` ... `UploadCrash` | `withProjectDeletionGuard` around `save` and `insertAsset`, which hold the project row's lock across the byte store |
| `Compensate` ... `RecordInBacklogFails` | `compensateOrphanedStorageKeys` |
| `SweepBacklog`, `SweepInterrupted` | `sweepStorageCleanupBacklog` |

Three choices deserve a word. *Locks*: a transaction that takes the lock of a
project is one action guarded by `~Locked`, because only an upload keeps that
lock across several steps. *Time*: `due` and `leased` are booleans that flip at any
moment, in the order the code can observe (jobs become due in the order of their
requests, since `purge_after` is the request plus seven days); that a lease
expires under a working runner counts as a fault. *Not in the model*: the audit
events, the journal of transitions, log summaries, the skew between the clock
of the application (used by the cancellation) and that of the database.

### Access and the code

| variable | code |
|---|---|
| `status` | `users.status` |
| `rows` | rows of `project_grants` and `organization_grants` with status `active` |
| `disabled` | `external_group_mappings` with status `disabled` |
| `sessions` | `auth_sessions` with `revoked_at` null; `late` is history (inserted after the last deactivation of the user, before any reactivation) |
| `calls` | requests in progress with what they read; `raced` is history (another commit came after the checks) |

| action | code |
|---|---|
| `RevokeCheck`, `RevokeWrite` | the reads and the update of `revokeProjectGrant` |
| `DisableCheck`, `DisableCommit` | `disableExternalGroupMapping`, which locks the mapping |
| `DeactivateCheck`, `DeactivateCommit` | `deactivateUser`, which locks the user; the sessions it finds are revoked at the commit |
| `Reactivate`, `Anonymize` | the transactions of the same names, each guarded by the status it reads under the lock |
| `LoginStart`, `LoginWithoutGroups` | `resolveOrLinkIdentity` for a linked user, and the read of the active mappings |
| `LoginDecide`, `LoginCommit` | `reconcileAdditions` and `reconcileRevocations`, then the commit that makes them visible |
| `LoginSession`, `LoginFails`, `Logout` | `createSession`, a failing statement (no session), `POST /logout` |

A check that refuses (`LAST_ADMIN`) changes nothing and is no action. Row locks
appear only where they exclude something: a session insert waits for a
deactivation (`UserLocked`, through the foreign key to `users`), a grant insert
waits for the disabling of its mapping and the other way round (`MappingLocked`,
`MappingShared`). Projects and organisations have separate tables and identical
code, so both are scopes; only a project's grants can be revoked one by one.
The functions of `userLifecycle.js` and `disableExternalGroupMapping` are not
reachable from a route yet; they are modelled as what they are, domain operations
that any number of callers may run at once. *Not in the model*: memberships (users are
members wherever grants may come), several identity providers, the audit events;
first logins and the expiry of sessions are in `Onboarding`.

### PublicAddress and the code

| variable | code |
|---|---|
| `name`, `client`, `slug` | `projects.name`, `projects.client_id`, `clients.normalized_slug` |
| `access` | `project_public_access`: project, both slugs, status, whether redistribution is announced |
| `publication` | `project_publications.status` by project and revision |
| `calls` | requests in progress with what they read; `overtaken` is history |
| `severed`, `raced` | history: projects whose rotation by hand stopped half-way; projects whose address was written by an overtaken call |

| action | code |
|---|---|
| `Reserve`, `PublishFailed`, `Activate` | the first and the last transaction of `createPublication` |
| `ActivateFirst`, `CreateFirstAccess` | the last transaction when there is no address: the read of the client's slug, then the insert and the commit |
| `RenameProject`, `Seek`, `CommitChange` | `renameProjectAtomic`: the update and the read of the address, the snapshot of `rotateAccess`, the rotation and the commit |
| `ReadNewClient`, `ReassignClient`, `Seek`, `CommitChange` | the route of the reassignment and `reassignProjectClient` |
| `RenameClient`, `CommitClientRename` | `renameClientAtomic` |
| `ReadForRotation`, `SelectForRotation`, `RevokeByHand`, `InsertByHand` | the route of the rotation by hand: each statement of `rotateAccess` is a transaction |
| `Acknowledge` | the route of the acknowledgement |
| `Abort` | a failure, a refused unique key, a dying process |

Locks appear where they exclude a step: of the project row (`ProjectLocked`), of the client
row (`ClientLocked`). A `SELECT ... FOR UPDATE` chooses its row from a snapshot and
finds it again when it has the lock, revoked or not; a row that replaced it is not
found. That is why `Seek` and the commit are two steps. *Not in the model*:
`setAvailability` (no caller), the secret and its encryption (a row is its own
identity), the preview of a client rename, versions of projects and clients (a stale one
changes nothing).

### Studio, Compiler, Publishing and the code

| variable | code |
|---|---|
| `rows` | the seven tables of items, each row with its version and position |
| `children` | blocks of articles, media of sections and spaces |
| `home` | the `homepage` row of `project_section_content` |
| `drafts` | what each editor's screen shows: what the program last answered |
| `last`, `running`, `pages`, `site` | revisions reserved, in progress, their manifests, the active one |
| `visitor`, `answer` | what a visitor was shown, and the question his query matched |

| action | code |
|---|---|
| `CreateItem`, `Save`, `Delete` | the insert, update and delete functions of `studio/repository.js`, each one transaction with its diff of children |
| `ListItem`, `ListChildren` | the two statements of a list |
| `ListHome`, `CheckFeatured`, `SaveHome` | the routes of `section-content` |
| `Reserve`, `Snapshot`, `Activate`, `Abandon` | the three transactions of `createPublication` around `buildCandidate` and `compile` |
| `ShowKnowledge`, `Ask` | the two routes of Storm Match |

Items of all kinds share one table here because the functions are the same but for their
columns: `Valid` lists what the columns of each kind may be, `MayCarry` who has
children, `KeepsPosition` who cannot be moved by a save. `Save` may lose its answer:
the editor keeps the old screen and may send the same again. In `Publishing`,
`Candidates` is the set of all candidates the database may produce, because `order
by position` leaves items of equal position in any order. `Compiler` is a function
of a candidate, translated function by function; its filters and its stable sorts are
stated by the rank of each entry instead of by recursion, so that they can be proved about. *Not in the model*: texts (members
of a small set), branding, labels, colours, formatted dates, and the checks of edition and
profile, which block a publication whatever its content.

### Onboarding, Telemetry, Retention and the code

| variable | code |
|---|---|
| `creator`, `grants`, `staff` | `projects` (who created each), `project_grants`, `tenant_memberships` |
| `invitations` | `project_invitations` with the dates of creation and of the last change of status |
| `users`, `identities`, `sessions` | `users`, `external_identities`, `auth_sessions` |
| `logins` | callbacks in progress |
| `visits` | telemetry requests, with what each read so far |
| `events`, `usage` | `telemetry_events`; `daily_usage_agg`, `daily_match_agg` and `daily_mood_agg` of one site |
| `pass` | the retention pass in progress, with the time it took at its start |
| `stranded`, `overtaken`, `written`, `overlapped`, `passed` and two fields of a user | history |

| action | code |
|---|---|
| `CreateProject`, `Invite`, `RevokeInvitation` | `POST /api/projects` (one transaction), and the two routes of `control.js` |
| `LogIn` | a login of a known subject |
| `FindIdentity`, `FindUser`, `InsertUser`, `CreateIdentity`, `ListInvitations`, `AcceptInvitation`, `EnterStorm` | the statements of `resolveOrLinkIdentity` for an unknown one, and the session |
| `Interrupt` | a failing statement or a dying process: what was written stays |
| `Logout`, `Deactivate`, `Reactivate`, `Anonymize` | the functions of those names |
| `Arrive`, `LookToday`, `LastEvent`, `SessionStart`, `InsertEvent`, `Count`, `MaybePurge`, `FailRequest` | the statements of `recordPageView`, `recordMatchResult`, `recordMoodFeedback` |
| `StartPass`, `PurgeSessions`, `PurgeInvitations`, `PurgeAudit`, `PurgeEvents`, `NullifyEmails`, `FailPass` | `runRetentionPolicies`, one transaction per policy |
| `Tick` | the clock, of the database and the application alike |

A newcomer who comes back after an anonymization is a new user. *Not in the model*: the
signed cookie of a login in progress (checked before anything is written), audit
events (only that their policy may fail), the breakdowns by content and outcome of a match, the threshold of the
mood report.

## 3. Runs

| run | instance | what it shows |
|---|---|---|
| `del_runners` | two starts: 1 project, 2 keys, 1 administrator; 2 archived projects, 1 key, publications. 2 jobs, 2 runners, 3 tokens, 2 faults, fair | types; a completed job has no bytes left; stale runners are harmless; the protocol implements `ErasurePromise`; a due job of an archived, never published project ends |
| `del_uploads` | 1 project, 3 keys, 2 jobs, 1 runner, 2 uploads, 3 faults | deletion is total, acknowledged bytes are kept, manifests are exact, no silent orphan, the inductive invariant, and the promise again |
| `del_never_executed` | 1 project, published, fair, no fault | **violated**: a published project's job is never executed |
| `del_restore_race` | 1 project, 1 administrator | **violated**: an active job does not keep its project archived |
| `access_calls` | 2 users, 1 project, a mapping that makes administrators and one that does not, 3 grants, 1 session, 2 requests | types; only races orphan a scope; reconciliation is exact; no session outlives a deactivation, nor an anonymization |
| `access_last_admin` | 2 users, 2 direct grants, 2 requests | **violated**: two revocations leave a project without administrator |
| `access_disabled_mapping` | 2 users, 1 project, 1 organisation, 2 mappings, 2 requests | **violated**: a login grants from a mapping that was disabled meanwhile |
| `address_races` | 1 project, 2 clients, 2 names, 3 client slugs, 3 rows, 2 revisions, 2 requests | types; one publication active and one address current; available addresses are served; names agree unless calls raced; changed links are announced |
| `address_gap` | the same with 1 request | **violated**: a rotation by hand that stops half-way leaves an active publication without an address |
| `studio_content` | eight small projects, 2 editors, 3 items, 2 blocks, 2 saves per row, 2 revisions, 1 visitor | types; versions stand for content; nothing is overwritten unseen; what pages derive from several items; warnings; knowledge; answers |
| `lifecycle` | five starts: 2 newcomers; an account that invites a newcomer; 2 passes over old rows; 1 pass during a first login; 3 visits of 2 visitors over 6 instants | types; invitations are spent once; accounts can be entered, by their owner only; sessions and daily counts; totals of reports; what a pass removes and what it leaves |
| `report_boundary` | the same starts, 1 visit | **violated**: a page view on the day a period begins is in the total of the period and of the one before |

Why the bounds of the deletion runs are enough. Two runners and two tokens beyond the first claim
allow a lease to be lost, taken over and lost again; two jobs give a cancelled one
followed by another on the same project, and, in the start with two projects, a run
that holds two jobs of which one may never end. The two starts add up instead of multiplying:
what they leave out together is a publication beside the administrator and the second key, and
`del_uploads` publishes with three keys. Three
faults are what the longest failure chain of an upload takes (rollback, failed
compensation, failed backlog insert), and two uploads with three keys let one key be
old and two be in flight. `del_uploads` uses the symmetry of its keys and tokens.
`del_runners` uses none, because it checks liveness: its tokens are numbers, and a claim takes the least
fresh one. Deadlock is not checked because
the system may stop: once every request was made and ended, nothing is left to do.

Fairness (`FairSpec`) is what the deployment gives: runners and sweeps are
started again and again by a scheduler, a request that began runs to its
end, and clocks move. Nothing is assumed of people (requests, cancellations,
archiving, publication) and no fault is owed. The runners are weakly fair one by
one: each is a process of its own.

Why the bounds of the access runs are enough. Every race of this module is
between two requests, and two callers start again as often as they like, so histories are
unbounded: revoked grants and ended sessions give their identifiers back. Three
grants are a direct administrator and two mapped grants, which can belong to the same user
(an administrative and an ordinary one in the same scope, withdrawn together or
not at all) or to two (an administrator to fall back on). Deadlock is not
checked because every user may end up anonymized.

Why the bounds of the other three families are enough. *Addresses*: every race is
between two calls that read before one of them commits. Three rows are a first
address and two rotations, the least in which a call can find its address
replaced; two revisions let an older one end last; three client slugs let a client
be renamed twice. Two names whose slugs differ make a rename rotate; the second
normalises to nothing, which is a slug as well (`n2` of `MCPublicAddress`, a second
spelling, is there for instances with more names). Deadlock is checked.
*Studio*: two editors, two saves and a child that one knows and the other does not
are what a lost update takes; two revisions overtake each other. What a page derives
is checked on three items, the least where "the newest of the others", "the first in
progress" or a tie of positions next to a third item mean something. The starts are
small on purpose: what a start does not exercise is at its last version or
deleted, so that the cases of the domains add up instead of multiplying. Deadlock
is checked. *Lifecycle*: the starts add up for the same reason. Six instants with days, sessions
and idle times of two hold a visit within a session, after an idle time, across midnight,
and after the four instants of the raw retention; two logins at once with three accounts'
worth of attempts hold every race between one email and one subject; the retention windows
are all different enough that confusing two of them shows. Deadlock is not checked
in `lifecycle`: its clock and its counters end.

Several properties are stated up to history variables, and those say how far they
hold. `AddressesFollowNames` excepts projects whose address was written by
a call that another commit overtook (`raced`); `SessionsWithinLimits` and the counts
except visitors with two requests at once (`overlapped`); `EveryAccountCanBeEntered`
excepts accounts whose first login was interrupted before the link (`stranded`). Each
exception is a race that the code really has: without it TLC shows the race in a few steps.

The six violated runs are disagreements between the code and its own comments:

* `deletionJobs.js:5-6` promises that jobs which reach `purge_after` are executed.
  Migration 0019 gave `project_public_access` a foreign key to the project with
  `ON DELETE RESTRICT`, and no code deletes its rows, so the last `delete` fails
  for every project that was ever published: its bytes are purged, its row stays, and
  every run claims the job again.
* `control/repository.js:54-56` says that a project with an active job can no
  longer leave `archived`. The check and the update are separate statements
  without a transaction, so a request committed in between is overlooked. What still
  holds, and `del_runners` checks it with an administrator at work, is the promise about
  bytes: the runner refuses to delete the project itself.

* `memberships/repository.js:238-240` says that a revocation which would leave a
  project without administrator is blocked. The check locks nothing: two
  revocations in progress each see the administrator the other is about to
  remove. `OnlyRacesOrphan` says how far the rule does hold: it takes an overlap.
* `memberships/repository.js:306-307` says that disabling a mapping revokes all
  the grants it is the source of. A login that read the mapping before inserts
  its grant afterwards, and later logins keep it while the group is claimed.
  `ReconciliationIsExact` says when it goes: with the first login whose complete
  list does not name the group any more.

* `publication/repository.js:259-261` says that there is never an active publication
  without an address, and `publicAccess/repository.js:76-77` that `rotateAccess` runs in a
  transaction of its caller. The route of the rotation by hand gives it the pool: the
  revocation is committed before the insert. `PublishedIsAddressed` says how far the
  promise holds: that rotation is the only way to break it, and the next publication the only one to repair it.

* `pilotage/reporting.js:36-39` says that the upper bound of a period is moved by a day so
  that today counts, without a risk of counting twice at the boundary between a
  period and the one it is compared with. The bound of the period of comparison is moved as well:
  the day in which the current period begins is in both totals. `ReportsCountEveryView` says what a total
  does hold: every view of its period, and none of a day outside it.

What else the models met, none of it a property that fails:

* An address keeps a stale half when a client and one of its projects are renamed
  at once: each copies the slug it does not change.
* The older of two publications wins when it ends last. One stays active and is
  served, whatever the order.
* A publication whose process dies stays `compiling`; nothing but the list of
  publications reads that status.
* A first login that stops between the user and the link, or meets its own subject
  under another email (`DUPLICATE_IDENTITY`), leaves an account nobody can enter,
  whose email is refused from then on (`EMAIL_COLLISION`).
* Invitations are only taken by the login that creates the account, and compared with
  its email as it is written: an invitation to somebody who has an account, or written
  in another case, stays pending until it expires.
* A first login overtaken by the anonymization of its account may still add an
  identity or a grant to it.
* A login that read an active user (`linking.js:42-45`) inserts its session without reading the
  status again. When the user is deactivated in between, the session is inserted after
  the revocation, and a reactivation makes it valid, although `linking.js:40-41` says that a session is
  never created for a user who is not active and `userLifecycle.js:174-175` that a reactivated
  one must log in again. `SessionsAreCurrent` excepts these sessions (`late`) and
  says that there are no others.
* A session that a match opens is in no count of sessions, and a visitor whose first event of the
  day is a match is in no count of visitors, although migration `0010:39-40` and `routes/pilotage.js:186`
  call that number the pseudonyms active on the day. `NoVisitorCountedTwice` gives the bounds that
  do hold.
* A hidden timeline or team only has its flag cleared: what it holds stays in the manifest.
* `control.js:233-234` looks for `l.code` in a list of plain codes, so that an
  invitation sent from there is always French. The locale is not in the model.

The claim takes the ten oldest jobs whether or not they can end. When as many
jobs are stuck as the limit allows (published projects), a younger one is
never claimed: `ErasableJobsEnd` would fail with `Limit = 1` and one published older
project. The limit of `del_runners` is as large as the number of jobs, so no property covers
this starvation.

## 4. Proofs

All proofs are checked by TLAPS and hold for every value of the constants.
`ProjectDeletionSafety` and `DeletionStepProofs` do so under the two assumptions of `ProjectDeletion`:
`NoneIsNoValue` (the SQL null is none of the values) and `BoundsAreNumbers`.

1. `TypeCorrect`: `Spec => []TypeOK`, strengthened by `PlacesOK` (a process that is
   past its first step knows its project, its job and its key).
2. `DeletionInvariant`: `Spec => [](TypeInv /\ DeletionInv)`. None of the safety
   properties is inductive alone. That a deleted project leaves no bytes needs
   `ManifestIsExact`, which needs uploads and jobs to exclude each other
   (`UploadsExcludeJobs`) and one active job per project (`OneActiveJob`); it also needs a completed
   job to be entirely purged and what is purged to be gone for good
   (`CompletedIsPurged`, `PurgedIsGone`). The last one holds because a fresh
   upload takes a fresh key and a runner only works for a job that can no longer
   be cancelled (`RunsEraseTheirManifest`). `AcknowledgedBytesKept` needs that
   compensations and sweeps only reach keys that were never acknowledged
   (`UploadsOwnTheirKey`, `AcknowledgedIsOwned`).
3. `ErasureTheorem`, `AcknowledgedTheorem`, `ManifestTheorem`, `CompletedTheorem`,
   `OrphanTheorem` follow from the invariant.
   `RefinementTheorem` (`Spec => KeepsPromise`) needs one fact besides: a job that is
   done has deleted its project (`DoneIsGone`), so a late runner that still deletes bytes
   works for a project that is being erased. With one active job, that job alone decides the
   phase of its project. `StaleRunnersTheorem` needs `LeaseInv`: no two runs share a token, and the run
   whose token a completed job carries has nothing left to erase or to fail at.

`AccessProofs` holds for every value of the constants of
`Access` under its assumptions: null is no name and no row (`NoneIsNoName`,
`NoneIsNoRow`), mappings have a target and a bundle (`MappingsAreConfigured`),
scopes begin with an administrator (`FoundersIsPositive`, which no proof needs).

4. `AccessTypeCorrect`: types, and that mapped grants follow their mapping.
5. `SessionsTheorem` and `AnonymizedTheorem`, from `SessionInv`. What makes them
   inductive is `DeactivationSeesAll`: a deactivation in progress has found every
   session of its user, because the lock on the user keeps inserts out. So whatever session a
   deactivated user has is late.
6. `OnlyRacesOrphanTheorem`, from `AuthorityInv`: the check of every call that
   nobody overtook still holds. Steps that are no commit change neither grants
   nor users, and a commit marks every checked call as raced; so an unraced commit
   relies on a check that still stands, and one lemma per commit shows that the
   administrator the check found is there afterwards. `ReconciliationTheorem` goes the same way,
   from `DecisionInv`: a login that has not decided yet holds the claimed mappings but for
   some disabled since, and what an unraced one decided still stands when it commits.

`PublishingProofs` holds under the assumptions of `Studio` and
`Publishing`: bodies and children are valid ones (`BodiesAreValid`), bounds are numbers,
null and "deleted" are neither values nor records (`NoneIsNothing`, `NoneIsNoRecord`,
`NoneIsNoArticle`), positions are integers as their columns are (`PositionsAreNumbers`), items and
blocks are finitely many, and ids are ordered as uuids are (`IdsAreFinite`, `IdsAreOrdered`).

7. `TypesHold`: `StudioSpec => [](StudioTypeOK /\ DraftsFollow)`. `DraftsFollow` is what makes
   the rest inductive: a draft carries a version that the row has reached; when the row still
   has it, the draft is the row, and when the list is complete its children as well. The
   second half is not stated of a list between its two statements, and need not be: a save
   in between moves the version.
8. `VersionMeansContent` is a consequence. `NothingLost` is an action property: a save
   or a deletion passes the version check, so its author has the present content on screen by the invariant.
9. `PublishingKeepsDrafts`: `Spec => StudioSpec`, so that 7 and 8 hold while the site is
   published. `PublishingTypes` and `AnsweredFromWhatWasShown` follow from `PInv`: a
   visitor holds the questions of a revision whose page exists and never changes. None of
   these depends on the compiler.

10. Lemmas about the compiler carry the theorems on pages. A filter and a stable sort
    are ranks of a linear order on the indices they keep; on a finite set ranks are a bijection
    (`Ranked`), so a filter lists each kept entry once, in order (`Filtered`), and its first entry is the first
    kept one (`FirstKept`). With `DomainLists` every item of a domain is on a page once, in some
    order by position. `HomeTheorem` and `ProgressTheorem` need no more than the types
    of the drafts besides; the percentage needs bounds on an integer quotient (`QuotientBound`).
11. `KnowledgeTheorem`: the corpus is in increasing order of id whatever the order of the page
    (`CorpusIsIncreasing`), and two increasing sequences with the same elements are the same
    (`IncreasingIsUnique`). Pages compiled earlier keep that their questions are distinct (`ManifestsOK`).
12. `WarningTheorem`, from `ContentInv`. A choice of the home page that was checked, saved or about to be
    saved, names an article or what was one until it was deleted (`ChoicesOK`), because a row that exists keeps its
    kind and a deleted one never comes back (`RowsProgress`). So a choice that is missing from
    the news of a page was deleted before its snapshot, and stays so for the pages that are kept.

`PublicAddressProofs` holds under the assumptions of `PublicAddress`: `SlugOf` is a function on
names, the number of revisions is a number, null is no value and no row (`SlugOfIsAFunction`,
`MaxRevisionIsNatural`, `NoneIsNoName`, `NoneIsNoRow`).

13. `AddressTypes`, `OneOfEachHolds`, `PublishedProjectsAreAddressed` and
    `RotationsAreNoticed`, from `IInv`. A request relies on what it read (`CallsOK`): its
    publication still compiles, because no two requests share a revision
    (`RevisionsAreDistinct`); its project is published, because rows are never removed and
    a publication is superseded only by another one (`Served`). `Addressed` is
    the strengthening of who is served: a project that ever had an address has one, or is
    half rotated. That is why a first address, which shows no notice, is really the first.
14. `NamesAreFollowed`, from `NamesInv`, inductive together with `IInv`. A request that
    nobody overtook knows the present names, since whoever commits a name, a client, a slug or
    an address overtakes every reader; an address it writes is therefore right, and what an
    overtaken request writes makes its project raced. The rename of a client needs besides
    that what it selected still belongs to that client (`TargetsOK`), overtaken or not.

`OnboardingProofs`, `TelemetryProofs` and `RetentionProofs` hold under the assumptions of the three
modules: null is no value and no row (`NoneIsNoValue`, `NoneIsNoRow`, `NobodyIsNoValue`), retention periods
and the life of a session are positive (`RetentionsArePositive`, `TtlIsPositive`), periods of reports are
whole days (`PeriodsAreDays`), bounds are numbers, and `WindowsAreOrdered`: an idle time is at most a session, a session
at most a day, and raw events are kept longer than two days less two instants and a request
together (in the code thirty minutes, four hours, a day, forty days). The last one is needed by the
counts: what a request looks up of its own day must not be purged under it.

15. `Invariance`: `Spec => []Inv`, where `Inv` is the types, `OnboardingInv`, `TelemetryIInv` and `PassOK`.
    `RetentionTypeCorrect` is its first conjunct.
16. `AccountsEnteredTheorem`, `AccountsOwnedTheorem` and `SpentOnceTheorem`, from `OnboardingInv`. A
    login knows whom it created (`LoginsOK`): an account of its own subject and email, which is not
    anonymized behind its back unless it is in `overtaken`, and what it has listed was
    sent to that email. Nobody was let in by an invitation that is still pending (`InvitationsOK`),
    so the grant of the step that accepts it is the only one.
17. `ExactTheorem`, from `TelemetryInv`: requests are numbered in the order of their instants, a row that is gone
    is older than the raw retention and than every row that is left (`InOrder`), and a request inserts its row
    within its longest time (`Placed`).
18. `SessionLimitsTheorem`, from `SessionInv`: a visitor who never overlapped himself has one request in
    progress, his last one, so the session it decided on still fits when it is written (`Fits`), also when
    the older half of that session was purged meanwhile.
19. `UsageTheorem`, from `CountInv` and `FoundOut`: rows of a day count the requests that have counted; what a
    request found out (first today, returning) is still so when it counts, since nobody else writes
    of its visitor and no purge reaches the day. How often a visitor returned is only known up to what was purged, hence two bounds.
    `VisitorsTheorem` goes from the same invariant: requests are well ordered, so whoever came on
    a day has a first event of that day (`FirstExists`), and only that one may count him.
20. `ReportsTheorem` follows from what the counts say (`UsageMatchesEvents`). The total of a report is the size of
    a disjoint union over its days, so a bijection from the rows of these days shows what it is
    (`TotalOfViews`); the moved upper bound excludes the day after the last, because a day later
    is the next quotient (`DaysFollow`).
21. `NothingOverdueTheorem`, from `PassOK`: what was clean at a time stays clean, because whatever
    is written later is stamped later; a pass keeps of each policy it has run that it was
    clean at the time of the pass. `NothingEarlyTheorem` takes the action of each step.

Only model-checked: `ErasableJobsEnd`, the one liveness property, which is out of the prover's
reach. Every safety invariant and action property of a passing run is a theorem.

## 5. Not modelled

* Pure functions of texts and bytes: encryption of the capability, comparison of a query
  with the questions, inspection of images and fonts, the expression profile.
* Wiring, headers, configuration, logging, health, the rate limit (one synchronous
  counter per address in one process, which decides nothing but when to try again).
* The connection pool: it is the driver's. That an upload through the PostgreSQL
  adapter holds a connection while it asks for a second one is listed as a hazard; a model of
  it would say no more than that sentence.
* Migrations and seeds, run alone before the server starts. Keys, checks and foreign keys
  of the schema are in the modules that lean on them.
* Audit events: an append that changes no decision.
* The setup form, the profile of a user, the listings of the administration: one
  statement each, without a rule that another part relies on.
* Functions without a caller in `src/src`: the availability of an address, the revocation of
  an external identity.
* Doubles of identity providers, and the browser applications.

## 6. Plan

The plan was deletion, access, public addresses with publication, the studio with
its compiler, first logins with retention and telemetry; all of it is done. What could
be added: the breakdowns of the pilotage reports, by path and by question.
