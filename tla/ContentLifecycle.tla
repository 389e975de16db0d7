-------------------------- MODULE ContentLifecycle --------------------------
(***************************************************************************)
(* One collection from its drafts to what delivery shows and what the      *)
(* outbox announces, with the commands of any number of clients.           *)
(***************************************************************************)
EXTENDS ContentDelivery

vars == <<schema, draftVars, clientVars, releaseVars, claims, txn, adminVars, budget>>

(* None: the command has no mutations for the partition. *)
SharedParts    == SharedContents \cup {None}
LocalizedParts == LocalizedContents \cup {None}

Drafting ==
  \/ \E e \in Entries, l \in Locales, s \in SharedParts, x \in LocalizedParts :
       CreateEntry(e, l, s, x)
  \/ \E e \in Entries, l \in Locales, s \in SharedParts, x \in LocalizedParts :
       {s, x} # {None} /\ SaveDraft(e, l, s, x)
  \/ \E e \in Entries : \E n \in DOMAIN shared[e] : RestoreShared(e, n)
  \/ \E k \in Keys : \E n \in DOMAIN localized[k] : RestoreLocalized(k, n)

Publishing ==
  \/ \E plan \in plans : PublishResolve(plan)
  \/ \E e \in Entries : LockClaim(e) \/ PublishClaim(e) \/ PublishCommit(e) \/ PublishRefused(e)
                        \/ DeadlockVictim(e) \/ PublishLost(e)
  \/ \E k \in Keys : ReviewPlan(k) \/ Unpublish(k)

Administering ==
  \/ \E b \in BOOLEAN : PublishSchema(b) \/ UpdateConfiguration(b)
  \/ \E l \in Locales, status \in Statuses : UpdateStatus(l, status)

Backfilling ==
  \/ \E batch \in SUBSET Keys : PlanBatch(batch)
  \/ \E k \in Keys : LockHead(k)
  \/ ApplyBatch
  \/ BatchFails

Reading ==
  \/ \E l \in Locales : ListFirstPage(l)
  \/ ListNextPage
  \/ EndListing

Next ==
  \/ Drafting
  \/ Administering
  \/ Publishing
  \/ Backfilling
  \/ Reading

Spec == InitStore /\ [][Next]_vars

-----------------------------------------------------------------------------
LocaleEvents(k) == {v \in outbox : v.entry = k[1] /\ v.locale = k[2]}

(* What the last of some events leaves live. *)
LiveAfter(events) ==
  IF events = {} THEN 0
  ELSE LET last == CHOOSE v \in events : \A w \in events : w.sequence <= v.sequence
       IN  IF last.kind = "published" THEN last.publication ELSE 0

(***************************************************************************)
(* A consumer that applies an entry's events in sequence reaches the       *)
(* state of its delivery heads: sequences have no gap and no repetition    *)
(* over all locales, the last event of a locale says what is live in it,   *)
(* and its head has changed once for each event.  (publish, unpublish)     *)
(***************************************************************************)
EventsMatchHeads ==
  /\ \A e \in Entries :
       LET events == {v \in outbox : v.entry = e}
       IN  /\ {v.sequence : v \in events} = 1 .. eventSequence[e]
           /\ Cardinality(events) = eventSequence[e]
  /\ \A k \in Keys :
       /\ LiveAfter(LocaleEvents(k)) = head[k].current
       /\ Cardinality(LocaleEvents(k)) = head[k].version

(***************************************************************************)
(* No two entries of a locale are delivered under the same unique value,   *)
(* whatever publish transactions overlap, and an entry holds values only   *)
(* while it is live, also while a batch of them is being rebuilt.          *)
(* (lockUniqueDeliveryClaims, the partial unique index, applyBatch)        *)
(***************************************************************************)
UniqueClaims ==
  /\ Unique(claims)
  /\ \A k \in Keys : head[k].current = 0 => claims[k] = {}

(***************************************************************************)
(* Whatever is published is what somebody reviewed for that entry and      *)
(* locale, the publications its references are pinned to included.         *)
(* (validate, the authority hash publish compares)                         *)
(***************************************************************************)
PublishedAsReviewed ==
  \A p \in publications : \E plan \in plans : plan.key = p.key /\ plan.authority = p.authority

(***************************************************************************)
(* A publication commits with the schema and the draft that are current at *)
(* its commit: neither a save nor a schema publication gets in between its *)
(* validation and its commit.  (the lock order of publish)                 *)
(***************************************************************************)
CommittedFresh ==
  [][\A p \in publications' \ publications :
       /\ p.authority.schema = schema'.revision
       /\ p.authority.shared = Len(shared'[p.key[1]])
       /\ p.authority.localized = Len(localized'[p.key])]_vars

(***************************************************************************)
(* What is live is live in an enabled locale: a locale is not disabled or  *)
(* removed between the check of a publication and its commit.              *)
(* (lockProject in updateStatus, lockProjectShared in publish)             *)
(***************************************************************************)
LiveLocalesEnabled == \A k \in Keys : head[k].current # 0 => Enabled(k[2])

(***************************************************************************)
(* The index guards every value of a live publication if unique lookup is  *)
(* configured, and none if it is not, whether the publication or the       *)
(* configuration came first: no publication commits under flags it read    *)
(* before the configuration changed.  The backfill alone can bring old     *)
(* flags back, when the configuration changes during a batch.              *)
(* (updateConfiguration, the shared collection lock of publish)            *)
(***************************************************************************)
ConfigurationIsFollowed == ~ overtaken => \A k \in Keys : claims[k] = Guarded(LiveValues(k))

(***************************************************************************)
(* The pages of one cursor chain are pages of one listing: a reader never  *)
(* skips an entry or sees one twice because something was published        *)
(* between two pages.  (the generation in the cursor)                      *)
(***************************************************************************)
TraversalIsConsistent == reader # None => Cardinality(reader.pages) = 1

(***************************************************************************)
(* Publish transactions that wait for each other in a circle wait for rows *)
(* alone: the advisory locks bring no deadlock of their own, since they    *)
(* are taken in one order and before the transaction deletes a row that    *)
(* others may wait for.  (lockUniqueDeliveryClaims and where it is called) *)
(***************************************************************************)
LocksAreOrdered ==
  \A S \in SUBSET Entries :
    Circular(S, LAMBDA e, f : WaitsForLock(e, f) \/ WaitsFor(e, f))
      => \A e, f \in S : ~ WaitsForLock(e, f)

-----------------------------------------------------------------------------
LogEvent(e, i) == CHOOSE v \in outbox : v.entry = e /\ v.sequence = i

Log == INSTANCE PublicationLog WITH
  log  <- [e \in Entries |-> [i \in 1 .. eventSequence[e] |->
             [kind |-> LogEvent(e, i).kind, locale |-> LogEvent(e, i).locale,
              publication |-> LogEvent(e, i).publication]]],
  live <- [k \in Keys |-> head[k].current]

(***************************************************************************)
(* Publication keeps the promise of PublicationLog: each change of what is *)
(* live in a locale is exactly one event at the end of its entry's log,    *)
(* and publications of a locale are numbered without repetition.           *)
(***************************************************************************)
KeepsLog == Log!Spec

-----------------------------------------------------------------------------
(***************************************************************************)
(* "Publication validation reports a bounded delivery_unique_value_conflict *)
(* issue" (m9, Enforcement): a draft that is reviewed as valid claims no   *)
(* value that another live entry holds.  validate does not look.           *)
(***************************************************************************)
ReviewReportsConflicts ==
  [][\A plan \in plans' \ plans, f \in Entries :
       f # plan.key[1] => DraftClaims(plan.key) \cap claims[<<f, plan.key[2]>>] = {}]_vars

(***************************************************************************)
(* "Short ordered transactions ... prevent partial state, deadlocks, and   *)
(* retry duplication" (m8): no two publish transactions wait for each      *)
(* other.                                                                  *)
(***************************************************************************)
NoCircularWait == \A e \in Entries : ~ Deadlocked(e)
=============================================================================
