# Formal models of framerfordevs

framerfordevs is a headless content management system: TypeScript on Effect, PostgreSQL through
Drizzle, Redis for rate limits and Studio sessions, one HTTP server, one worker process, a CLI, an
SDK, and several web applications. Content is modelled by schemas, written as drafts per locale,
published as immutable snapshots, served by a delivery API, and announced by an outbox of events
that a worker turns into signed webhook deliveries.

This directory holds TLA+ modules of the parts whose correctness rests on the order of things:
database transactions that interleave, rows read without a lock, leases that run out, processes
that die, replies that are lost, files half replaced. TLC checks the modules on small instances;
TLAPS proves every safety property that TLC checks, for every number of events, endpoints, workers
and attempts, of entries, locales, drafts and clients, of projects, users and keys, of commands,
sessions, requests and grants, of documents and revisions, of runs, files and pages. What liveness
remains is model-checked.

    tlc -workers 2 -config MCWebhookLease.cfg MCWebhook     one run
    tlapm WebhookPipelineProofs.tla                         the proofs of a module

`PROJECT.json` names, for each definition, the source lines it stands for (`map`), and lists the
components, the runs, the hazards of the code, the disagreements found, and for each checked
property a *mutant*: a plausible bug that makes the property fail, so that none of them holds
vacuously. A definition whose comment begins with *Mutant* is such a bug and no part of the model.
Paths below are relative to `src/`; `services/` is `packages/api/src/services/`, and m1 to m18 are
the documents in `knowledge_base/decisions/`.

## 1. Inventory

### Components, their state and operations

| component | state | operations | status |
|---|---|---|---|
| Webhook dispatcher, `services/webhook/worker-repository.ts` 170-361, `operations/webhook/worker` | `outbox_event` rows: pending or processed, tries | read a batch with SKIP LOCKED, expand it to deliveries, back off what does not project | modelled |
| Webhook attempt loops, `worker-repository.ts` 362-664, `operations/webhook/attempt` | `webhook_delivery` (a *run*), `webhook_delivery_attempt`, lease columns of `webhook_endpoint` | recover, claim, send, finalize | modelled |
| Webhook administration, `services/webhook/repository.ts` | endpoints, destinations, subscriptions, secrets | create, update, subscribe, enable, disable, replay; route mappings | partly (no mappings) |
| Webhook signing secrets, the same repository | secrets: pending, active, retiring, retired, canceled | begin, activate, cancel, complete a rotation | modelled |
| Entry drafts, `services/entry/repository.ts` | `cms_entry`, revisions of a shared and of localized partitions, their heads, command receipts | create, rename, save, restore, read | partly (no rename, reads, receipts) |
| Publication, `services/publication/repository.ts` | publications, publication heads, event sequence, outbox | validate (review), publish, unpublish | modelled |
| Delivery reads, `services/delivery/read-repository.ts` | the projection of unique and sortable values, a generation per collection and locale | get, list with a signed cursor | partly (listing) |
| Delivery configuration and backfill, `services/delivery/{repository,backfill}.ts` | capability flags per field, projection rows | update, dry run, apply | partly (one capability) |
| Locales, `services/locale/*` | locales, status, position | create, change status, reorder | partly (status) |
| Schema apply, `services/authoring/schema/apply.ts` | identities of fields, revisions and heads, receipts | plan, apply | modelled |
| Authoring presentation, `services/authoring/presentation-repository.ts` | the same revisions and heads | publish over an expected revision | modelled |
| Schema authoring, `services/schema/repository.ts` | contracts | reads; its writers are reached through apply | partly |
| CLI retry journal, `packages/cli/src/retry-journal` | one journal file per project root and kind of command | link, reuse, refuse, clear | partly (push, presentation) |
| CLI generator transaction, `packages/cli/src/filesystem-transaction` | output directory, lock file, staging and backups | check, stage, commit, roll back | modelled |
| Local editor, `packages/cli/src/editor` | the schema it shows, whether that is valid and the hosted one, the watched files | extract, watch, reload, ask for the hosted schema, gate writes | partly (no loopback server, no content operations) |
| Tooling pull, `packages/cli/src/pull.ts`, `services/tooling/repository.ts` | what the two passes over the manifest have read | read a page, fetch revisions, compare, retry | partly (no listings, no cache file) |
| Access, `services/access-repository.ts` | workspace and project memberships, invitations | invite, accept, revoke, change, remove | modelled |
| API credentials, `services/credential/*` | credentials, rotations | issue, rotate, activate, complete, cancel, revoke | modelled |
| Platform, `services/platform-repository.ts` | workspaces, projects, capabilities, Studio registrations with their runtime and OAuth client | create, archive, restore, enable a capability, register, activate, deactivate | partly (no environments, no renames) |
| Control-plane receipts, `services/control-plane/command-receipt` | `control_plane_command_receipt` | lock a command, inspect, insert | modelled |
| Studio grants, `services/studio`, `packages/auth` | consents, authorization codes, refresh tokens, the establishment audit | approve, redeem, renew, bootstrap, revoke | partly (the OAuth provider is a library, modelled from its use) |
| Studio sessions, `packages/studio-server`, `packages/studio-store-redis` | sign-in attempts, sessions with a fence for refreshes, permits | sign in, load, refresh, log out, rotate the key | partly (no permits, no proxying) |
| HTTP server, worker process, transport, field validation | - | life of the worker, answers of a receiver, what a content claims | partly |
| Retry schedule, rate limits, device authorization, preview, authoring reads, audit | see the plan | | not modelled |
| Field libraries, SDK, web applications, dashboard sign-in, tools | - | pure functions, I/O, user interface, a third-party library | not modelled |

The list with reasons for each omission is `components` in `PROJECT.json`.

### How they interact

Everything that writes meets in PostgreSQL. Draft and publication commands lock, in this order, the
project row (shared), the collection row (shared) and the entry row (exclusive); a change of the
delivery configuration locks the collection exclusively; the apply of a schema, the publication of a
presentation, a change of a locale's status, membership changes and administration of a project lock
the project row exclusively, and the apply its collections too. A publish transaction further takes
an advisory lock for each unique value it claims, in the order of their digests, writes snapshot,
head, projection, generation, event and receipt, and commits; a backfill batch locks the publication
heads it rebuilds one by one. Every event goes through `outbox_event`. The worker process runs one
dispatcher loop, which expands events into deliveries, and several attempt loops, which claim
deliveries under a lease of 30 seconds held both on the delivery and on its endpoint, send them, and
finalize. Administrators change endpoints between any two of these steps.

The local editor watches the files that declare a schema, extracts it when they change, and asks the
platform every five seconds which schema is published; it passes writes of content on only while the
two agree. A pull reads locales and published revisions in pages, each a transaction of its own,
while others publish, and hands them to the generator. Generator, editor and pull touch different
state.

The CLI keeps a command in a journal file until the server has answered, and repeats it under the
same id; the server answers a repetition from the receipt it stored with the effect. The Studio
server meets the platform only through its API; its own state is in Redis, where each operation on
a session is one script. The tokens of its sessions come from the OAuth provider, which stores
consents, codes and tokens in the same PostgreSQL but outside the transactions of the platform:
the commands that end a Studio's runtime revoke the rows they see.

### What is hard, and what makes each part correct

* Webhooks. *Hard*: leases that run out under a live worker, recovery against late finalization,
  unlocked reads of configuration, crashes anywhere, a clock read before a lock. *Correct*: one
  live attempt per endpoint; only the holder of a lease finishes a run; a gapless ledger of
  attempts; finished runs never change; a run recorded as succeeded was accepted by the receiver;
  no event lost, none sent to who had not subscribed; everything settles.
* Drafts and publication. *Hard*: a review made earlier and elsewhere, publications of several
  locales and entries that overlap, unique values exchanged between entries, administration between
  a check and a commit. *Correct*: what is published is what was reviewed and what is current; one
  log of events per entry which reproduces what is live; unique values are unique; live content is
  in enabled locales and indexed as configured; the locks of unique values bring no deadlock.
* Delivery. *Hard*: a cursor that outlives publications. *Correct*: the pages of one traversal are
  pages of one state.
* Schema. *Hard*: plans made from several reads and applied later, commands repeated from a journal
  after a crash, a delivery configuration that speaks of the same fields. *Correct*: what is applied
  is what was planned and acknowledged; the three tables of fields agree; an uncertain command is
  never forgotten.
* Access and credentials. *Hard*: administrators who act on stale screens and on each other, two
  projects whose locks do not exclude each other but share workspace memberships, two-sided
  rotations. *Correct*: a project keeps an owner; workspace access ends with the last project;
  a change applies to what was seen; rotations and keys agree.
* Studio sessions. *Hard*: a refresh token that must be sent once although its sender may stall,
  die or lose the answer. *Correct*: sent once; tokens belong to the record's generation; what is
  logged out stays logged out; an attempt opens one session.
* Studio platform. *Hard*: a runtime that is ended while the provider redeems codes, stores consents
  and rotates tokens on other connections; a command that is sent again while its first transaction
  is open, or after the row has moved on. *Correct*: no grant outlives the runtime it was given for;
  a command that took effect is never reported as refused.
* Generator. *Hard*: a failure, crash or power loss between any two file operations. *Correct*: a
  failed run leaves what it found, a successful one is durable, the last good output survives.
* Tooling pull. *Hard*: pages of a manifest that others change between any two of them, also back
  again. *Correct*: what is taken is one state of the platform.
* Local editor. *Hard*: files that change during an extraction or while their watchers are replaced,
  answers that cross a reload. *Correct*: it comes to rest on the code that is on disk, and lets
  content be written under the hosted schema only.

## 2. Modules

    WebhookStore                 FencedLease (with its proofs)
      WebhookDispatch                 ^
      WebhookAdmin                    |
        WebhookSecrets                | LeaseIsFenced
      WebhookWorker                   |
        WebhookPipeline -------- WebhookPipelineProofs
          MCWebhook

    ContentStore                 PublicationLog
      ContentDrafts                   ^
        ContentPublication            | KeepsLog
          ContentAdministration       |
            ContentDelivery           |
              ContentLifecycle -------+
                MCContent             |
                ContentProofs --------+

    WorkspaceStore               SchemaAuthority            StudioStore      StudioPlatform
      AccessMembers                SchemaAuthoring            StudioSessions   ControlPlane
      ApiCredentials                 AuthoringClient          StudioLogin      StudioGrants
        Governance                     Authoring                StudioServer        |
          MCGovernance                   MCAuthoring                  Studio -------+
          GovernanceProofs               AuthoringProofs                MCStudio
                                                                        StudioProofs

    GeneratorTransaction   LocalEditor   ToolingPull
      ProjectTools --------------+------------+
        MCGenerator
        ToolProofs

`*Store`, `SchemaAuthority` and `StudioPlatform` declare the tables as variables, their types, the
initial state and what several transactions share. The modules below hold one action per
transaction, or per step of a transaction where something can happen between two steps.
`WebhookPipeline`, `ContentLifecycle`, `Governance`, `Authoring`, `Studio` and `ProjectTools`
compose them into a next-state relation and a specification, and state the properties. `MC*` give
TLC its constants.

### Webhook pipeline

| definition | code |
|---|---|
| `outboxState`, `outboxTries`, `occurredAt` | `outbox_event`: publication state, attempts, `occurred_at`; an event that is being published is not yet visible |
| `DispatchRead` | `dispatchBatch`: `FOR UPDATE SKIP LOCKED` on the batch, then the unlocked reads of subscriptions and endpoints |
| `DispatchCommit` | the inserts, the processed marks, the tries of malformed events, and the commit |
| `RecoverLease` | first half of `claimAttempt`: the oldest expired lease; the attempt becomes abandoned, the run waits again (or is cancelled in an archived project), the endpoint lease is cleared if it is this run's |
| `ClaimAttempt` | second half: a due run of an enabled endpoint in a live project whose endpoint lease is free or past; new attempt row, leases on both rows |
| `ClaimRefused` | the same, with an attempt number the CHECK constraint rejects: the failure ends the loop and the process |
| `SendEnds` | `transport.send` and the classification of what came back; `accepted` is a history variable: what the receiver processed |
| `FinalizeStale`, `FinalizeRead`, `FinalizeCommit` | `finalizeAttempt`: the lease check, the unlocked read of the project, the write of attempt, run and leases |
| `LeaseElapses` | the clock passes `lease_expires_at`; a lease that ran out stays run out |
| `WorkerCrash` | the process ends between two steps; its transactions roll back |
| `AdmitRequest` and the handlers of `WebhookAdmin` | a request takes its time (`now`) when admitted and locks rows later; the version check decides |
| `StartSecretRotation`, `ActivateRotation`, `CancelRotation`, `CompleteRotation` | `startSecretRotation`, `changeSecretRotation`; a request carries the latest secret its client saw (`target`) |
| `SecretLapses`, `CanSign` | the overlap of a rotation ends by the clock alone; a claim signs with the active and a retiring secret, and throws if it finds none or three |

A token is a run with an attempt number: the pair of the code's `lease_owner`, fresh for every
claim, and the attempt it belongs to.

### Content lifecycle

| definition | code |
|---|---|
| `shared`, `localized` | the revisions of an entry's shared partition and of each locale; the last is the head |
| `CreateEntry`, `SaveDraft`, `RestoreShared`, `RestoreLocalized` | `createEntryWithDraft`, `saveDraft`, `restoreRevision`; one step each, since all they read after the entry lock is protected by it |
| `PublishSchema` | the apply of a document (`contractChanges`) or the publication of a presentation; `SchemaLockable` is what they lock: project and collections, or the project alone |
| `ReviewPlan` | `validate`: what the client is shown, with the authority hash |
| `PublishResolve` | `publish` up to the compiled candidate, and its refusals |
| `LockClaim`, `PublishClaim` | the advisory locks of the unique values, one by one; then the deletion of the entry's old projection rows |
| `PublishCommit`, `PublishRefused`, `DeadlockVictim`, `PublishLost` | inserts and commit; violation of the unique index; PostgreSQL ends a circular wait; a failure before the commit |
| `Unpublish` | `unpublish` |
| `UpdateStatus` | the transition of a locale under the exclusive project lock: allowed by the table of transitions, and into a disabled state only with nothing published |
| `UpdateConfiguration` | `updateConfiguration` under the exclusive collection lock: the flag, its version and the flag of every projection row |
| `PlanBatch`, `LockHead`, `ApplyBatch`, `BatchFails` | the backfill: the unlocked plan of a batch with the flags it read, the head locks taken one by one, the check of the current publication, delete and insert, and the failures |
| `ListFirstPage`, `ListNextPage`, `EndListing` | listing under a cursor that carries generation, schema revision and version of the configuration |

What a draft says is abstracted to the entries it refers to (`RefsOf`) and the unique values it
claims (`ClaimsOf`): nothing else of it decides a property. Field validation is left out, so that
every draft is valid but for references that are not live. `ReviewPlan` reads in one step what the
code reads in several: a plan put together from two states is refused by `publish` as out of date,
and its refusal changes nothing. Receipts of content commands answer a command that is sent again
and change nothing else; they are left out.

### Workspace: members and keys

| definition | code |
|---|---|
| `wm`, `member`, `invitation` | `workspace_membership`, `project_membership` and invitation rows |
| `txn[p]` | the one transaction that holds the exclusive lock of project `p` between two of its steps; transactions of two projects interleave |
| `viewed` | membership rows as pages showed them, with the version a request carries |
| `CreateProject`, `ArchiveProject`, `RestoreProject` | the project and its owner in one transaction |
| `CreateInvitation`, `RevokeInvitation`, `InvitationLapses` | an invitation replaces a pending one to the same address |
| `AcceptRead`, `AcceptExpired`, `AcceptCommit` | `acceptInvitation`: the unlocked read of the workspace membership, then the membership rows and the used invitation |
| `UpdateMemberPolicy`, `RefuseChange` | version check, last-owner check, write |
| `RemoveRead`, `RemoveCommit` | removal of a member: the lock of the workspace membership, the count of the remaining projects, the revocation |
| `IssueCredential` to `KeyLapses` | the services of `credential/repository.ts`; a key that lapses stops authenticating and nothing else |
| `RevokeKey`, `RevokeSides` | `revokeCredential`: a key outside any rotation; one that is a side of a rotation, of which `limit(1)` picks one |

### Schema authoring

| definition | code |
|---|---|
| `revisions`, `identity` | the revisions of a collection, and the stable field identities, active or retired |
| `delivery` | the fields configured for Delivery with the version of the configuration |
| `PlanRevisions`, `PlanPush` | the plan of `schema push`: revisions first, identities in a later statement |
| `ApplySchema` | `applyAuthoringProjectSchema`: replay from the receipt, the exact current revisions, the plan hash and the acknowledged removals, then identities, revisions, heads and receipt |
| `PublishPresentation` | the same for a presentation over the expected revision |
| `LinkJournal`, `ReuseJournal`, `RefuseJournal`, `Receive`, `RemoveJournal`, `Stop` | `acquireRetryJournal`, the answer, `clearRetryJournal`, and a process that is killed |
| `Handle`, `Lose` | a request is handled late, after its sender is gone, or never |
| `BeginConfigure`, `CheckCapabilities`, `Configure`, `EndConfigure` | the dashboard's change of the delivery configuration, with its check of the published fields |

### Studio server

| definition | code |
|---|---|
| `session[s]` | the Redis record: generation, tokens inside the envelope, owner and mark of a refresh, key |
| `Login`, `InspectAttempt`, `ConsumeAttempt`, `ExchangeCode`, `ReadPrevious`, `CreateSession`, `FinishLogin`, `RejectLogin` | the sign-in, from the attempt to the session that replaces a previous one |
| `LoadSession`, `Reencrypt`, `StillFresh` | reading a record and writing it back under the active key |
| `ClaimRefresh`, `ClaimRefused`, `Wait`, `MarkRefreshDispatched`, `SubmitRefresh`, `VerifyRefresh`, `CommitRefresh`, `CommitFails` | `refreshSession`, one step per script or outside call |
| `CallUpstream`, `Logout`, `DeleteSession`, `DeleteFails`, `Revoke`, `Expire` | use and end of a session |
| `Crash`, `RotateKey` | a process dies or a store call fails; the operator rotates the key |

Whether the lease of a refresh is over is a free choice of each script call, since it is compared
with the clock of whoever asks.

### Studio platform

| definition | code |
|---|---|
| `project`, `cms`, `registration`, `client` | the project, its capability, the registration of its Studio with a version, and the OAuth client derived from it |
| `Send`, `sent`, `Wanted` | what a CLI or a program asks for in the state it read; a command stays sent, so that it can arrive again at any time |
| `Authorize`, `InspectReceipt` | the unlocked reads of `authorizeControlPlane…`; `lockControlPlaneCommand` with `inspectControlPlaneReceipt`: replay, conflict, or go on |
| `CreateProject`, `EnableCapability`, `PutRegistration`, `SetRuntime` | the transactions of `platform-repository.ts`, each with its receipt |
| `StartRevoking`, `CommitRevocation` | `revokeStudioOAuthAuthority` under the lock of the registration, from the rows its statements see to the commit; between the two the provider may store others |
| `RollBack`, `SetArchived` | a connection breaks; the dashboard archives or restores the project |
| `Approve`, `IssueCode`, `RedeemCode`, `StoreToken`, `ReturnTokens`, `RenewTokens`, `RevokeTokens` | the policy before the consent page, and the provider's consent, code, redemption, refresh tokens and revocation |
| `ReadRegistration`, `EstablishMarker` | `getStudioAccessTokenClaims`: the registration first; project, capability and consent with the establishment audit later |
| `Usable` | what `getBootstrap` and the claims of a renewal ask for |
| `ended` | history: the grants that had been redeemed when a runtime ended |

`CallPlatform` of `Studio` joins a step of the Studio server with the step of the platform it calls,
so that the answers which `StudioServer` alone would leave open are the ones the platform gives. A
renewed access token may be refused whatever the grant is worth; that content is refused to a usable
grant, because its holder lost the role, say, happens in one of the initial states (`refuses`).

`Usable` is one step although the bootstrap reads in several: the client and the project are read
after the registration, and a bootstrap that meets a change between two reads is refused by the
version it compares, or answered as if it had come before the change. The revocation deletes the
consent it saw; a consent stored after its statements is kept, which lets the model keep more than
the code might. What then ends the authority is not the deletion of rows but the version of the
registration, which the establishment audit of a grant names (m18 lines 291-301 and 350-358).

### Generator transaction

Two directories are on disk: the parent of the output and the one of the lock file. `Stage` to
`RemoveLockBackup` are the operations of the commit in order, `UndoLock` to `RemoveLeftovers` those
of the rollback, `Fail` and `PassOver` their failures, `Crash` and `PowerLoss` end the run;
`parentPast` and `locksPast` are the states of a directory since its last sync, any of which a power
loss may bring back. `Edit` changes generated files, which a run without `--force` refuses to
overwrite.

Both directories are taken to be there, or to be directly under the project root, which the commit
syncs last (line 303). `makeDirectory(outputParent)` (line 262) may create several levels, of which
the commit syncs the lowest only (line 284): a power loss may then take an intermediate directory
and with it an output that was reported as generated. `SuccessIsDurable` does not cover that case.

### Local editor

| definition | code |
|---|---|
| `Prepare`, `LoadHosted`, `StartWatching`, `CloseEditor` | `prepareEditorCommand`, then `initializeEditorOnline`: code first, hosted schema second, watchers last |
| `view`, `Valid`, `NoView` | `EditorSchemaSnapshot` |
| `Notice`, `Reload` | `schedule` and the start of `reload`: one extraction at a time, another one remembered in `rerun` |
| `Extract`, `Extracted`, `WatchingFails`, `Rejected`, `EndReload` | the worker thread of `extractStaticProjectSchema`, and what `reload` makes of its answer |
| `Rewatch`, `stray` | `replaceFileWatchers`, and the watchers that it leaves open when it fails half-way |
| `PollHosted`, `HostedAnswered`, `PollFails` | `refreshHostedAuthority` and `setHostedProjectSha256` |
| `MayWrite` | the gate of mutations in `startEditorLoopback` |

`missed` is a history variable: the files that changed while nothing watched them since they were
last read. What a code declares and which files it is read from are the constants `Says` and
`Reads`.

### Tooling pull

| definition | code |
|---|---|
| `locales`, `revision` | the enabled locales, and the sequence of the published revision of each collection, which names it: revisions are immutable and a head only moves to a new one |
| `BeginPull`, `EndFirstPass`, `FetchRevisions`, `EndSecondPass` | `pullReconciledAuthority` and `pullOnce` |
| `ReadPage`, `LocalesChanged` | `readCompleteManifest`: a page after the cursor, in one transaction with the locales it shows; a page with other locales than the first of its pass |
| `Stable` | the comparison of the two passes |
| `PullFails` | any request that fails, a project that is gone, a right that was lost |

`taken` is a history variable: the platform at the moment the first pass ended.

## 3. Runs

| run | instance | shows |
|---|---|---|
| `webhook_lease` | one event, one endpoint, an initial delivery and a replay, two processes, two attempts per run, one archive | the fencing of stale workers: `OneLiveAttemptPerEndpoint`, `RunMatchesLastAttempt` (also against what the receiver accepted), `OnlyTheHolderFinishes`, `HistoryIsFinal`, and that the leases implement `FencedLease` (`LeaseIsFenced`) |
| `webhook_reconfigure` | a good and a malformed event, one endpoint, two concurrent requests out of three, archive and restore, no attempts; or, after the creation, four requests of rotations of its secret | what passes an endpoint by is not sent later (`MissedForGood`) and what it is served is not lost (`NoEventLost`), `IntervalsAreOrdered`, `ReceiversCanVerify` |
| `webhook_progress` | two events, one process that may crash once, two attempts | `EventsExpand`, `RunsSettle` |
| `content_publish` | two entries that exchange two unique values, of which each may claim both, and refer to each other, one locale; four edits, reviews and releases, or three of each and a backfill batch | `UniqueClaims`, `PublishedAsReviewed`, and that publications which wait for each other in a circle never wait for an advisory lock (`LocksAreOrdered`) |
| `content_locales` | one entry in two locales, two edits and reviews, three releases; one act of administration, a listing and a lost transaction, or two acts and a backfill batch | `EventsMatchHeads`, `TraversalIsConsistent`, `LiveLocalesEnabled`, `ConfigurationIsFollowed`, `CommittedFresh`, and that publication implements `PublicationLog` (`KeepsLog`) |
| `governance` | two projects, the workspace owner and a collaborator, two roles; two changes of members with three invitations, or three changes of keys; two changes of projects | `OwnersRemain`, `NoStaleDiscovery`, `ChangeAppliesToWhatWasSeen`, `InvitationAdmitsOnce`, `RotationsMatchKeys` |
| `authoring` | one collection, a document and one that replaces its field, two CLI processes each in its own root, three commands, one dashboard | `IdentitiesFollowRevisions`, `UncertainIsRetained`, `AppliesWhatWasPlanned`, `ConfiguresPublishedFields` |
| `studio` | one of four: a server with two sessions, sign-in attempts, requests at a time and generations, which crashes; one request, one command and one grant; two commands and two grants on two connections; three commands from the creation of the project, with an archive | `SubmittedOnce`, `EnvelopeIsCurrent`, `AttemptOpensOneSession`, `NeverResurrected`, `AuthorityEndsWithItsRuntime`, `CommittedIsConfirmed` |
| `generator` | three runs over one output and lock; or an editor over a file that may import a second one, three edits and two pushes; or pulls of three collections in pages of one, with four changes | `AllOrNothing`, `SuccessIsDurable`, `LastGoodSurvives`, `ViewFollowsCode`, `PulledWasCurrent` |

The remaining runs (`webhook_exhausted`, `governance_revocation`, `authoring_delivery`) expect a
violation; each shows one disagreement (section 6).

### Bounds and why they are enough

Webhooks: two workers, two runs of one endpoint and two attempts are the least that let a lease be
superseded, its old owner finish late, and a third claim follow; the proofs take the step to every
number. Leases of different endpoints never touch the same row, so a second endpoint would only
multiply the states. `MaxStamp` bounds the coarse clock of the configuration: one tick separates
*before* from *after*, and only comparisons of times matter. Administration, archives, crashes and
edits are bounded by budgets that the actions spend; a budget of three requests allows *disable,
enable* after *create*, and `MaxAdmitted = 2` allows two handlers at once; four
requests of rotations allow *rotate, cancel, rotate* under an activation that is on its way.

Content: two entries and two values are the least for an exchange of unique values, and two locales
the least that share an event sequence; that an entry may claim both values gives the order of the
locks something to decide. The initial state chooses one of two sets of budgets, so
that one run covers both a long life without administration and a shorter one with it.

Workspace: only two projects let a removal in one race an acceptance in the other, and three keys
let a successor be rotated again. Invitations and keys are symmetric: no property names one.
Members and keys share only the project's life, so no behaviour spends on both.

Authoring: two documents are enough for a field that is added, dropped and comes back; three
commands allow a repetition of one after another was applied in between; `MaxRevisions = 3` allows
three revisions and `MaxOrphans = 1` one request that outlives its sender.

Studio: two requests race for a session, two sessions let one replace the other. `MaxAttempts = 1`
and `MaxSessions = 1` make both limits bite. A second command can end a runtime that a first one
started again, a second grant can be under way when it does, and two connections let a repetition
wait for its first attempt; `Rows = 2` allows one renewal. Three commands reach *create, register,
activate*. The four initial states keep these apart, because their product is out of reach: that a
request meets two commands, or two requests a refusal of what is usable, is left to the theorems.
Generator: the third run meets the leavings of a run that was killed on top of one that was killed.
Editor: the least edits that add a second file, break it and repair it. Pull: three pages let a
change fall before, at and behind the cursor, and four changes let locales go and come back twice,
or once around two publications. All runs are exhaustive within their bounds.

### Fairness

`DispatchFairness` is the loop of `operations/webhook/worker/index.ts`, which polls for as long as
the process lives (and the process is restarted when it dies): weak fairness per event, because the
batch takes the oldest events first. `AttemptFairness` is the attempt loop: a send ends, since it
has a deadline; leases run out, since they are times; claims are strongly fair for each run,
because `claimAttempt` takes the run that is due first, and a run that is due again and again
becomes the first one. Nothing is assumed about clients, administrators, receivers, the CLI, Studio
requests or crashes; deadlock is not checked because all of these may stop.

## 4. Proofs

A property is seldom inductive: each part below names what had to be added to it and why the code
makes that true. The invariants were model-checked before they were proved.

### Webhooks

`FencedLease` proves, for any resources and tokens, that two running leases never share a
resource (`LeaseExclusion`) and that a resource is only ever held by a token that is open or has
run out, so that it can always be taken again (`LeaseNeverOrphaned`). Neither is inductive:
`LeaseInv` adds that tokens in use were drawn before and that a running lease is the one recorded
with its resource.

`WebhookPipelineProofs` proves, for all values of the constants that satisfy the assumptions of
`WebhookStore`:

* `TypesHold`, from `TypeCorrect`, whose invariant adds that a dispatcher only holds pending events
  that no other dispatcher holds, and that a busy loop holds a token;
* `LeasesCorrect`: the inductive invariant `PipelineInv`. It ties four pieces of state together: a
  run that is being delivered holds the token of its latest attempt and of no other
  (`LeaseMatchesStatus`); a running lease is the one its endpoint records (`LiveIsRecorded`); a loop
  that is finalizing holds the row lock and still its lease (`FinalizersHold`), alone
  (`FinalizersAreAlone`). Most actions touch none of this (`MostStepsAreQuiet`); the proof goes
  through the five that do;
* from it `OneLiveAttempt`, `AttemptLedgerHolds`, `HolderFinishes`, `HistoryKept`, and
  `LeaseRefinement`: the lease columns of the pipeline implement `FencedLease`, where claiming is
  `Acquire`, elapsing is `Expire`, recovery and finalization are `Close`, and every other step
  stutters;
* `OutcomesMatch`: a run ends as its last attempt did. `OutcomeInv` adds that a run which does not
  exist has no attempts, and that a loop which reports success was told so by a destination that
  processed this very attempt (`SuccessWasProcessed`): the result is written two steps after it was
  received;
* `SubscriptionsCorrect`, and from it `DeliveriesWereSubscribed` and `IntervalsOrdered`. A delivery
  is subscribed when it is planned, one step before it is inserted, so the invariant is about plans
  as well (`PlansAreSubscribed`). Intervals are ordered because a request that is still up to date
  read the clock later than every interval of its endpoint began (`UpToDateIsLater`): whatever was
  committed in between raised the version;
* `MissedStaysMissed`: the event is not covered by the rows of the endpoint, all requests that will
  write a time carry one after the event, and no plan holds its delivery. A request that creates or
  enables moves `enabledAt` past the event, one that subscribes opens intervals past it and only
  shortens the old ones, and a dispatcher plans only what the rows cover (`DispatchMisses`).
  `MissedIsNeverSent` follows: such an event never gets a delivery of its own. What a subscriber is
  owed is written down once more for this (`Wants`), apart from what the dispatcher tests (`Covers`,
  `Eligible`), so that a dropped comparison in the dispatcher (the beginning of an interval, its
  end, or the enablement) violates the property: TLC finds each of the three;
* `NothingLost`: no event that an endpoint is served when its publication begins, and stays served,
  is marked processed without a delivery. The argument is relative to the endpoint staying served:
  `Promised` says that a dispatcher which took the event has planned the delivery; it holds when the
  publication begins and every step keeps it (`PromiseIsKept`), since the plan of a batch is
  committed or given up as a whole and no row of a delivery disappears (`RunsStay`);
* `SecretsCorrect`, and from it `RequestsVerifiable`. Secrets are numbered without a gap, exactly
  one is active, and at most one is pending or on its way out (`SecretsHold`), so that one or two
  sign; that a secret starts to sign only for an administrator who was shown it needs that a request
  which is still up to date saw the latest one (`UpToDateSawTheLast`).

### Content

`ContentProofs` proves, for any entries, locales, contents and number of clients:

* `TypeCorrect`: every variable keeps its type, in particular the authorities and pins that publish
  puts together from schema, draft and heads;
* `PublicationsCorrect`: the invariant `PublicationInv`. Neither `PublishedAsReviewed` nor
  `CommittedFresh` is inductive, since a commit only copies what its transaction resolved earlier;
  what makes them true is `TransactionsHold`: an open transaction's plan was reviewed, and schema,
  draft, locale and delivery flags are still what it resolved, because every other writer of these
  waits for the entry, the collection or the project row. `UniqueClaims` follows from the commit's
  own conditions, the ones the unique index enforces, and does not need the advisory locks: they
  only decide who waits;
* `LocksOrdered`: publications that wait for each other in a circle wait for rows alone. The
  invariant `LocksFollowDigests` says that whatever a transaction still has to lock is above all it
  holds, and that one which has deleted rows holds all it wants. In a circle, take the transaction
  that waits for the least digest: it has deleted nothing, so the one that waits for it waits for a
  smaller one;
* from it `PublishedIsReviewed`, `ClaimsAreUnique` and `CommitsAreFresh`;
* `EventsMatch` and `LogRefinement`, that publication implements `PublicationLog`. Counting events
  is not inductive: `LogInv` adds that a sequence belongs to one event and that `head.latest` is the
  number of a locale's publications in the log, so that an unused number is the next one. A step
  either leaves releases alone or emits exactly one event (`StepsEmitOnce`); the rest is about one
  more event in a finite set, where the last one of a locale decides what is live;
* `DeliveryCorrect`: the inductive invariant `DeliveryInv`. That the index follows the configuration
  cannot be shown of the rows alone, since a backfill batch writes rows it planned earlier:
  `BatchFollows` adds that an open batch was planned under the flags in force unless the
  configuration changed during it, and `NumbersAreBehind` that publication numbers never repeat, so
  that a head still at the planned number still has the planned values;
* from it `LiveInEnabledLocales` and `ConfigurationFollowed`;
* `TraversalsAreConsistent`: its invariant `CursorInv` says that a cursor whose generation and
  schema are still current was given out for what is live now.

### Workspace

`GovernanceProofs` proves, for any projects, users, roles, invitations and keys,
`WorkspaceInvariant`:

* `MembersInv`. An acceptance and a removal read in one step and write in the next, so that an owner
  remains (`ProjectsKeepAnOwner`) and workspace access ends with the last project
  (`DiscoveryEndsWithMembership`) only because what they read still holds: what is of their own
  project, because they hold its lock (`AcceptanceHolds`, `RemovalHolds`); what a removal counted in
  *other* projects, because the lock of the workspace membership admits one removal of a user at a
  time (`OtherMembershipsHold`), while an acceptance there only adds. `ViewsAreOld` says that a page
  shows a version no newer than the row's, and the row's own role when the versions agree;
* `KeysInv`, and from it `RotationsAgreeWithKeys`: two open rotations have different predecessors,
  and a key that retires does so in favour of a successor in overlap;
* the action properties `ChangesApplyToWhatWasSeen` and `OneInvitationAdmitsOnce`.

### Schema authoring

`AuthoringProofs` proves, for any collections, fields, documents, dashboards, processes and roots:

* `TypeCorrect`: in particular that what a run has in hand, a journal and a request are complete;
* `IdentitiesCorrect`. That a dropped field never comes back is a statement about three revisions of
  a list that grows; `Remembers` makes it inductive by what the identities remember of the list: a
  new one was in no revision, an active one is in the last. A document may not bring back a retired
  key (`Reconciles`), so that a field of the next revision was never there or is there now
  (`RemembersNext`). The check of `PublishPresentation` that the active fields are the published
  ones can therefore never fail (`ActiveIsPublished`);
* `JournalRetained`: an uncertain command keeps its journal. `JournalInv` adds that a run removes a
  journal only when nothing of it is uncertain. The theorem is about one process in each root
  (`OneProcessPerRoot`): section 6 tells what two can do. Nothing else is asked of the server or
  the network;
* `ConfigurationChecked`: the fields a transaction has checked stay published until it writes,
  because whoever publishes waits for the project row that it holds (`CheckedInv`);
* `PlansApplied`: a push removes exactly what was acknowledged, from exactly the revisions it was
  planned over.

### Studio

`StudioProofs` proves, for any commands, connections, addresses and grants:

* `PlatformTypeCorrect`;
* `AuthorityEnds`. That ended grants are unusable is not inductive, since a later version of the
  registration might be theirs: `GrantInv` adds that versions only grow, that a grant is marked with
  the version its redemption saw, and that an ended grant has seen an older version than the one in
  force. No statement about the tokens and consents that were revoked is needed: whichever the
  revocation missed, the version outdates them;
* `CommandsConfirmed`: the invariant `ReceiptInv` says that a transaction which found no receipt
  holds the lock of its command, so that none appears before it ends, and a refusal it reports is
  still true;

and, for any sessions, requests, attempts and generations, `SessionsCorrect`, whose invariant
`SessionInv` is about requests that act on a record they read some steps ago:

* `RefreshSubmittedOnce` needs that the tokens of a generation which is not yet stored, or not yet
  marked as dispatched, were never submitted (`UnusedTokens`), and that the record of a request
  about to submit names it, while there is a record, as the owner of a dispatched refresh, and no
  other request has come that far (`DispatchedIsFenced`), whatever leases have run out;
* `EnvelopesCurrent` needs that what a request holds is the token of the generation it read
  (`HeldTokens`), since it is written back later under a new key;
* `AttemptsOpenOnce` needs that callbacks under way hold different attempts and different new
  sessions (`CallbacksAreApart`), which is what consuming an attempt in one script achieves;
* `SessionsStayGone`, the action property `NeverResurrected`, follows from the same invariant.

### Tools

`ToolProofs` proves:

* for any number of runs of the generator, `GeneratorInvariant` and from it `GeneratorAllOrNothing`,
  `GeneratorSuccessIsDurable` and `GeneratorLastGoodSurvives`. A run notes what it has done so far:
  `Noted` and `Transaction` say that the notes and the directories agree at every step, so that the
  rollback restores what was found. A power loss brings back any state since the last sync:
  `Durable` says what all of these have in common once a directory was synced, and `FreshBackups`
  that no run finds a backup under its own name in any of them. `Survives` is then about every state
  a power loss may bring back and not only about the one on disk;
* for any files, codes and schemas, `EditorInvariant` and `EditorViewFollowsCode`. What the editor
  shows is not what is on disk but what it extracted last (`ViewIsOfSource`), and whatever differs
  between the two is a change on its way, missed, or due to be read (`ChangesAreTracked`). The
  assumption on `Reads` and `Says` is that an extraction depends on the files it reads only;
* for any collections, page size and changes, `PullInvariant` and from it `PullIsASnapshot`: a
  completed pull is exactly what the platform was when its first pass ended. m12:368 claims less (no
  snapshot across requests, only that no mixture is taken). Neither pass alone reads one state; the
  invariant says that what the first pass has read is not newer than the platform at its end
  (`FirstPassIsBehind`, `FirstPassEnded`) and what the second reads not older (`SecondPassIsAhead`),
  because revisions only grow: when both agree, nothing lies between them. Locales may come back to
  an earlier state, but each page shows them, and the last page of the first pass is that very
  moment. The argument stands on heads that only move to new revisions, which is what both writers
  do (`services/authoring/schema/apply.ts:578`,
  `services/authoring/presentation-repository.ts:528`);
* `ToolsAreIndependent`: a behaviour of all three together is one of each, so that the above holds
  where they run side by side.

### What is assumed, and what is not proved

Assumed are only the named assumptions of the constants, which TLC evaluates in every run of the
modules concerned, and `OneProcessPerRoot` in the one theorem that says so. Two of the assumptions
exclude degenerate constants that no part of the code has: `MaxGeneration` is at least 1
(`StudioAssumption`), since a session is stored with its first generation, and `None` is no journal
(`ClientAssumption`).

Only model-checked is liveness under fairness, which is outside what the prover supports, as is
ENABLED: `EventsExpand` and `RunsSettle`. The properties of the runs that expect
a violation are false and have nothing to prove.

## 5. Hazards

`PROJECT.json` lists each behaviour of this code that is hard to test, at its line, with the
properties that would catch it going wrong, or a note where no property covers it.

## 6. Disagreements between code and documentation

Each of the first three is shown by a run that expects a violation; the finding quotes the line it
contradicts.

* `webhook_exhausted`: recovering the lease of a run's last permitted attempt puts the run back into
  the queue. The claim that follows violates a CHECK constraint, which ends the worker process; the
  restarted process meets the same run. This is also why `EventsExpand` and `RunsSettle` except
  states with such a run.
* `governance_revocation`: a successor that is still in overlap can be rotated again; revoking it
  closes one of its two open rotations.
* `authoring_delivery`: a push retires a field that is configured for Delivery.

The rest was met while modelling. A formula in parentheses is in the modules; TLC finds it violated
when it is added to a configuration that reaches the case.

* Deliveries to a replaced destination stay queued, while m11:307 has them canceled
  (`WaitingTargetsCurrentDestination`).
* An endpoint disabled and enabled again is sent an event older than its activation, while m11:297
  leaves such events to manual replay (`ReenablingStartsAfresh`).
* An attempt finalized just after the project was archived schedules a retry, while m16:373 allows
  no further attempt (`ArchivedSchedulesNoRetry`). The dispatcher can likewise create deliveries in
  a project that is being archived; nothing claims either until a restore.
* A draft command repeated after a schema publication is refused although its receipt exists
  (`services/entry/repository.ts:1687`), while m7:278 has matching retries answered.
* A review reports no conflict of unique values, against m9:408, and the publication is then refused
  (`ReviewReportsConflicts`).
* Two publications that exchange values wait for each other's rows, against m8:1174, and so may
  publications and a batch of the backfill; PostgreSQL ends one of them (`NoCircularWait`). The
  advisory locks alone bring no such circle (`LocksAreOrdered`).
* An acceptance that read an active workspace membership while a removal in another project was
  about to revoke it leaves a member of a project without access to the workspace; m3:99 has the
  acceptance reactivate it, and m3:595 takes only the other direction into account
  (`ActiveMembersMayEnter`).
* A store failure during the commit of a Studio refresh drops the new refresh token without revoking
  it, while m18:451 has failed commits compensated (`UncommittedIsRevoked`).
* A backfill batch writes the `unique_lookup` flags it planned with, also when the configuration
  changed before its locks; the comment at `services/delivery/backfill.ts:234` says that any
  high-water drift aborts the batch. `ConfigurationIsFollowed` therefore excepts a configuration
  that changed during a batch; running the backfill again repairs the rows.
* At the end of an overlap the ciphertext of the old signing secret should be destroyed and the
  secret retired (m11:354, m11:824); only an explicit completion does so.
* Two CLI processes in one project root can remove each other's journals, since reading a journal
  and removing it are two steps: `UncertainIsRetained` fails as soon as two processes of the model
  share a root. A push whose answer was lost cannot be replayed after the server applied it: the
  next plan is made from the new revisions, has another fingerprint and meets the journal as a
  conflict. The journals of content commands are cleared on any answer, an ambiguous one included.
* The branch of the generator's rollback for a lock that was replaced without a backup
  (`packages/cli/src/filesystem-transaction/index.ts:245`) is never taken, since a lock that is
  there is always backed up first.
* The editor "hot-re-extracts" the schema (m13:737), but a change of a file that nothing watches yet
  is not noticed: a newly imported file that changes between its first extraction and the start of
  its watcher, one that is broken when it is first imported and repaired later, or a change whose
  event is lost when watchers are replaced. A transient failure of the worker thread is not tried
  again, nor is one to watch a file, after which the other files may be unwatched too. The editor
  then shows an older schema, or stays read-only, until the next change of a watched file;
  `ViewFollowsCode` excepts these (`missed`, `diagnostic`).
* A pull that sees a change of locales between two pages of one pass fails at once
  (`packages/cli/src/pull.ts:76`), while m12:366 and `packages/cli/README.md:94` have one concurrent
  change retried; only a difference between the passes is.
* `replayEvent` reads endpoint and project without a lock; the reply of a repeated
  `createEntryWithDraft` shows the current heads, not those of the receipt.

## 7. Plan

Most important behaviour first; items 1 to 11 are done.

1. Webhook pipeline: store, dispatcher, administration, worker, abstract lease, proofs.
2. Content lifecycle: drafts, publication, listing, abstract log, proofs.
3. Administration of content: locale status, delivery configuration, backfill, proofs.
4. Workspace: members, invitations, keys and rotations.
5. Schema authoring: apply, presentation, the CLI's journal, the dashboard's configuration.
6. Studio sessions.
7. Generator transaction.
8. Studio platform: control-plane commands, grants, their composition with the sessions, proofs.
9. Local editor.
10. Tooling pull.
11. Proofs of the safety properties of workspace, schema authoring, Studio sessions, generator and
    editor, and of the remaining ones of webhooks.
12. Permits of the Studio server, token buckets, device authorization,
    preview authority, and the retry schedule against its bounds.

## 8. Not modelled, and why

Field types and validation rules, filters and sort keys, snapshots' contents and hashes are data
that no property here tells apart. HTTP routing, dashboard sign-in, signatures, TLS and address
checks are I/O or third-party code. Read-only endpoints other than the listing have one snapshot
each and no state. The web applications, which are most of the repository's lines together with
routes, message catalogues and generated clients, keep no state of their own that survives a
request. Authorization is a guard on the commands of the workspace modules; elsewhere every modelled
client is authorized. Rate limits, device authorization and preview have state and are listed in the
plan.
