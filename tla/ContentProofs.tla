---------------------------- MODULE ContentProofs ----------------------------
(***************************************************************************)
(* What holds of published content for any number of entries, locales,     *)
(* contents and clients, in three parts: what the locks of drafts, schema  *)
(* and publication guarantee; the outbox as a log, with the refinement of  *)
(* PublicationLog; and live content under changes of locales and of the    *)
(* delivery configuration.                                                 *)
(***************************************************************************)
EXTENDS ContentLifecycle, SequenceTheorems, FiniteSetTheorems,
        WellFoundedInduction, TLAPS

(* What a bounded step costs stays within the types. *)
LEMMA SpendKeepsTypes ==
  ASSUME budget \in [Kinds -> Nat], NEW kind \in Kinds, Spend(kind)
  PROVE  budget' \in [Kinds -> Nat]
BY DEF Spend

(* Revisions that a command may append to are revisions again. *)
LEMMA WrittenIsTyped ==
  ASSUME schema \in Schema, NEW revisions \in Seq(Revision), NEW c \in Contents \cup {None}
  PROVE  Written(revisions, c) \in Seq(Revision)
<1>1. CASE c \in {None, Current(revisions)}
  BY <1>1 DEF Written
<1>2. CASE c \notin {None, Current(revisions)}
  <2>1. [content |-> c, contract |-> schema.contract] \in Revision
    BY <1>2 DEF Revision, Schema
  <2> QED BY <1>2, <2>1 DEF Written
<1> QED BY <1>1, <1>2

LEMMA RestoredIsTyped ==
  ASSUME NEW revisions \in Seq(Revision), NEW n \in DOMAIN revisions
  PROVE  Restored(revisions, n) \in Seq(Revision)
<1>1. revisions[n] \in Revision
  OBVIOUS
<1> QED BY <1>1 DEF Restored

(* The last revision of a partition says something a partition can say. *)
LEMMA CurrentIsContent ==
  ASSUME NEW revisions \in Seq(Revision)
  PROVE  Current(revisions) \in Contents \cup {None}
<1>1. CASE Len(revisions) = 0
  BY <1>1 DEF Current, ContentAt
<1>2. CASE Len(revisions) # 0
  <2>1. Len(revisions) \in 1 .. Len(revisions)
    BY <1>2
  <2>2. revisions[Len(revisions)] \in Revision
    BY <2>1
  <2> QED BY <1>2, <2>2 DEF Current, ContentAt, Revision
<1> QED BY <1>1, <1>2

LEMMA DraftIsContent ==
  ASSUME ContentConstants, TypeOK, NEW k \in Keys
  PROVE  /\ DraftOf(k) \subseteq Contents
         /\ DraftRefs(k) \subseteq Entries
         /\ DraftClaims(k) \subseteq Claimable
<1>1. k[1] \in Entries /\ k[2] \in Locales
  BY DEF Keys
<1>2. shared[k[1]] \in Seq(Revision) /\ localized[k] \in Seq(Revision)
  BY <1>1 DEF TypeOK
<1>3. DraftOf(k) \subseteq Contents
  BY <1>2, CurrentIsContent DEF DraftOf
<1>4. DraftRefs(k) \subseteq Entries
  BY <1>3 DEF DraftRefs, ContentConstants
<1>5. DraftClaims(k) \subseteq Claimable
  BY <1>3 DEF DraftClaims, Claimable
<1> QED BY <1>3, <1>4, <1>5

LEMMA CandidateIsAuthority ==
  ASSUME ContentConstants, TypeOK, NEW k \in Keys
  PROVE  Candidate(k) \in Authority
<1>1. k[1] \in Entries /\ k[2] \in Locales
  BY DEF Keys
<1>2. Pins(k) \subseteq Pin
  <2> SUFFICES ASSUME NEW t \in DraftRefs(k)
               PROVE  [entry |-> t, publication |-> head[<<t, k[2]>>].current] \in Pin
    BY DEF Pins
  <2>1. t \in Entries /\ <<t, k[2]>> \in Keys
    BY <1>1, DraftIsContent DEF Keys
  <2>2. head[<<t, k[2]>>] \in HeadRow
    BY <2>1 DEF TypeOK
  <2> QED BY <2>1, <2>2 DEF Pin, HeadRow
<1>3. shared[k[1]] \in Seq(Revision) /\ localized[k] \in Seq(Revision) /\ schema.revision \in Nat
  BY <1>1 DEF TypeOK, Schema
<1> QED BY <1>2, <1>3 DEF Candidate, Authority

-----------------------------------------------------------------------------
(* Types, step by step *)

(* The commit of a draft command that leaves well-typed partitions. *)
LEMMA DraftKeepsTypes ==
  ASSUME TypeOK, NEW newShared \in [Entries -> Seq(Revision)],
         NEW newLocalized \in [Keys -> Seq(Revision)], Draft(newShared, newLocalized)
  PROVE  TypeOK'
<1>1. budget' \in [Kinds -> Nat]
  BY SpendKeepsTypes DEF TypeOK, Draft, Kinds
<1> QED BY <1>1 DEF TypeOK, Draft, clientVars, releaseVars, adminVars

LEMMA DraftingKeepsTypes ==
  ASSUME ContentConstants, TypeOK, Drafting
  PROVE  TypeOK'
<1>1. ASSUME NEW e \in Entries, NEW l \in Locales, NEW s \in SharedParts,
             NEW x \in LocalizedParts, CreateEntry(e, l, s, x)
      PROVE  TypeOK'
  <2>1. s \in Contents \cup {None} /\ x \in Contents \cup {None} /\ <<e, l>> \in Keys
    BY DEF SharedParts, LocalizedParts, Contents, Keys
  <2>2. /\ Written(shared[e], s) \in Seq(Revision)
        /\ Written(localized[<<e, l>>], x) \in Seq(Revision)
    BY <2>1, WrittenIsTyped DEF TypeOK
  <2>3. budget' \in [Kinds -> Nat]
    BY <1>1, SpendKeepsTypes DEF TypeOK, CreateEntry, Kinds
  <2> QED BY <1>1, <2>2, <2>3 DEF TypeOK, CreateEntry, clientVars, releaseVars, adminVars
<1>2. ASSUME NEW e \in Entries, NEW l \in Locales, NEW s \in SharedParts,
             NEW x \in LocalizedParts, SaveDraft(e, l, s, x)
      PROVE  TypeOK'
  <2>1. s \in Contents \cup {None} /\ x \in Contents \cup {None} /\ <<e, l>> \in Keys
    BY DEF SharedParts, LocalizedParts, Contents, Keys
  <2>2. /\ Written(shared[e], s) \in Seq(Revision)
        /\ Written(localized[<<e, l>>], x) \in Seq(Revision)
    BY <2>1, WrittenIsTyped DEF TypeOK
  <2>3. /\ [shared EXCEPT ![e] = Written(@, s)] \in [Entries -> Seq(Revision)]
        /\ [localized EXCEPT ![<<e, l>>] = Written(@, x)] \in [Keys -> Seq(Revision)]
    BY <2>2 DEF TypeOK
  <2> QED BY <1>2, <2>3, DraftKeepsTypes DEF SaveDraft
<1>3. ASSUME NEW e \in Entries, NEW n \in DOMAIN shared[e], RestoreShared(e, n)
      PROVE  TypeOK'
  <2>1. Restored(shared[e], n) \in Seq(Revision)
    BY RestoredIsTyped DEF TypeOK
  <2>2. [shared EXCEPT ![e] = Restored(@, n)] \in [Entries -> Seq(Revision)]
    BY <2>1 DEF TypeOK
  <2> QED BY <1>3, <2>2, DraftKeepsTypes DEF RestoreShared, TypeOK
<1>4. ASSUME NEW k \in Keys, NEW n \in DOMAIN localized[k], RestoreLocalized(k, n)
      PROVE  TypeOK'
  <2>1. k[1] \in Entries
    BY DEF Keys
  <2>2. Restored(localized[k], n) \in Seq(Revision)
    BY RestoredIsTyped DEF TypeOK
  <2>3. [localized EXCEPT ![k] = Restored(@, n)] \in [Keys -> Seq(Revision)]
    BY <2>2 DEF TypeOK
  <2> QED BY <1>4, <2>1, <2>3, DraftKeepsTypes DEF RestoreLocalized, TypeOK
<1> QED BY <1>1, <1>2, <1>3, <1>4 DEF Drafting

LEMMA SchemaKeepsTypes ==
  ASSUME TypeOK, NEW b \in BOOLEAN, PublishSchema(b)
  PROVE  TypeOK'
<1>1. budget' \in [Kinds -> Nat]
  BY SpendKeepsTypes DEF TypeOK, PublishSchema, Kinds
<1>2. schema' \in Schema
  BY DEF TypeOK, PublishSchema, Schema
<1> QED BY <1>1, <1>2 DEF TypeOK, PublishSchema, draftVars, clientVars, releaseVars, adminVars

LEMMA ReadingKeepsTypes ==
  ASSUME TypeOK, Reading
  PROVE  TypeOK'
<1>1. \A l \in Locales : Listing(l) \in View
  <2> SUFFICES ASSUME NEW l \in Locales, NEW e \in Entries
               PROVE  head[<<e, l>>].current \in Nat
    BY DEF Listing, View
  <2> QED BY DEF TypeOK, Keys, HeadRow
<1>2. ASSUME NEW l \in Locales, ListFirstPage(l) PROVE TypeOK'
  <2>1. budget' \in [Kinds -> Nat]
    BY <1>2, SpendKeepsTypes DEF TypeOK, ListFirstPage, Kinds
  <2>2. reader' \in Reader
    BY <1>1, <1>2 DEF TypeOK, ListFirstPage, Reader, Schema
  <2> QED BY <1>2, <2>1, <2>2 DEF TypeOK, ListFirstPage, draftVars, releaseVars, adminVars
<1>3. ASSUME ListNextPage PROVE TypeOK'
  <2>1. reader \in Reader
    BY <1>3 DEF TypeOK, ListNextPage
  <2>2. reader' \in Reader
    BY <1>1, <1>3, <2>1 DEF ListNextPage, Reader
  <2> QED BY <1>3, <2>2 DEF TypeOK, ListNextPage, draftVars, releaseVars, adminVars
<1>4. ASSUME EndListing PROVE TypeOK'
  BY <1>4 DEF TypeOK, EndListing, draftVars, releaseVars, adminVars
<1> QED BY <1>2, <1>3, <1>4 DEF Reading

(* A transaction that ends without a commit leaves the tables alone. *)
LEMMA RollbackKeepsTypes ==
  ASSUME TypeOK, NEW e \in Entries, Rollback(e), budget' \in [Kinds -> Nat]
  PROVE  TypeOK'
BY DEF TypeOK, Rollback, draftVars, clientVars, releaseVars, adminVars

LEMMA ResolveKeepsTypes ==
  ASSUME ContentConstants, TypeOK, NEW plan \in plans, PublishResolve(plan)
  PROVE  TypeOK'
<1> DEFINE k == plan.key
<1>1. k \in Keys /\ k[1] \in Entries /\ k[2] \in Locales
  BY DEF TypeOK, Plan, Keys
<1>2. budget' \in [Kinds -> Nat]
  BY SpendKeepsTypes DEF TypeOK, PublishResolve, Kinds
<1>3. [phase |-> "resolved", locale |-> k[2], authority |-> Candidate(k),
       values |-> DraftClaims(k), claims |-> Guarded(DraftClaims(k)), locked |-> {}] \in Txn
  BY <1>1, CandidateIsAuthority, DraftIsContent DEF Txn, Guarded
<1>4. txn' \in [Entries -> Txn \cup {None}]
  BY <1>3 DEF PublishResolve, TypeOK
<1> QED BY <1>2, <1>4 DEF TypeOK, PublishResolve, draftVars, clientVars, releaseVars, adminVars

LEMMA LockKeepsTypes ==
  ASSUME TypeOK, NEW e \in Entries, LockClaim(e)
  PROVE  TypeOK'
<1>1. txn[e] \in Txn
  BY DEF TypeOK, LockClaim
<1>2. PICK c \in NextClaims(e) : txn' = [txn EXCEPT ![e].locked = @ \cup {c}]
  BY DEF LockClaim
<1>3. c \in Claimable
  BY <1>1 DEF NextClaims, Txn
<1>4. [txn[e] EXCEPT !.locked = txn[e].locked \cup {c}] \in Txn
  BY <1>1, <1>3 DEF Txn
<1>5. txn' = [txn EXCEPT ![e] = [txn[e] EXCEPT !.locked = txn[e].locked \cup {c}]]
  BY <1>1, <1>2 DEF Txn
<1>6. txn' \in [Entries -> Txn \cup {None}]
  BY <1>4, <1>5 DEF TypeOK
<1> QED BY <1>6 DEF TypeOK, LockClaim, draftVars, clientVars, releaseVars, adminVars

LEMMA ClaimKeepsTypes ==
  ASSUME TypeOK, NEW e \in Entries, PublishClaim(e)
  PROVE  TypeOK'
<1>1. txn[e] \in Txn
  BY DEF TypeOK, PublishClaim
<1>2. [txn[e] EXCEPT !.phase = "claimed"] \in Txn
  BY <1>1 DEF Txn
<1>3. txn' = [txn EXCEPT ![e] = [txn[e] EXCEPT !.phase = "claimed"]]
  BY <1>1 DEF PublishClaim, Txn
<1>4. txn' \in [Entries -> Txn \cup {None}]
  BY <1>2, <1>3 DEF TypeOK
<1> QED BY <1>4 DEF TypeOK, PublishClaim, draftVars, clientVars, releaseVars, adminVars

LEMMA CommitKeepsTypes ==
  ASSUME TypeOK, NEW e \in Entries, PublishCommit(e)
  PROVE  TypeOK'
<1> DEFINE k == <<e, txn[e].locale>>
           n == NextPublication(k)
           s == NextEvent(k)
<1>1. txn[e] \in Txn
  BY DEF TypeOK, PublishCommit
<1>2. k \in Keys /\ txn[e].locale \in Locales
  BY <1>1 DEF Keys, Txn
<1>3. head[k] \in HeadRow
  BY <1>2 DEF TypeOK
<1>4. n \in Nat /\ s \in Nat /\ head[k].version + 1 \in Nat
  BY <1>3 DEF TypeOK, NextPublication, NextEvent, HeadRow
<1>5. [version |-> head[k].version + 1, latest |-> n, current |-> n] \in HeadRow
  BY <1>4 DEF HeadRow
<1>6. head' \in [Keys -> HeadRow]
  BY <1>2, <1>5 DEF PublishCommit, TypeOK
<1>7. publications' \subseteq Publication
  <2> DEFINE p == [key |-> k, sequence |-> n, event |-> s, authority |-> txn[e].authority,
                  values |-> txn[e].values]
  <2>1. publications' = publications \cup {p}
    BY DEF PublishCommit
  <2>2. txn[e].authority \in Authority /\ txn[e].values \subseteq Claimable
    BY <1>1 DEF Txn
  <2> HIDE DEF k, n, s
  <2>3. p \in Publication
    BY <1>2, <1>4, <2>2 DEF Publication
  <2> QED BY <2>1, <2>3 DEF TypeOK
<1>8. outbox' \subseteq Event
  BY <1>2, <1>4 DEF PublishCommit, TypeOK, Event
<1>9. /\ eventSequence' \in [Entries -> Nat]
      /\ generation' \in [Locales -> Nat]
      /\ claims' \in [Keys -> SUBSET Claimable]
  BY <1>1, <1>2, <1>4 DEF PublishCommit, TypeOK, NextGeneration, Txn
<1>10. txn' \in [Entries -> Txn \cup {None}]
  BY DEF PublishCommit, TypeOK
<1> QED BY <1>6, <1>7, <1>8, <1>9, <1>10
       DEF TypeOK, PublishCommit, draftVars, clientVars, adminVars

LEMMA UnpublishKeepsTypes ==
  ASSUME TypeOK, NEW k \in Keys, Unpublish(k)
  PROVE  TypeOK'
<1> DEFINE s == NextEvent(k)
<1>1. k[1] \in Entries /\ k[2] \in Locales
  BY DEF Keys
<1>2. head[k] \in HeadRow
  BY DEF TypeOK
<1>3. s \in Nat /\ head[k].version + 1 \in Nat
  BY <1>1, <1>2 DEF TypeOK, NextEvent, HeadRow
<1>4. [head[k] EXCEPT !.version = head[k].version + 1, !.current = 0] \in HeadRow
  BY <1>2, <1>3 DEF HeadRow
<1>5. head' = [head EXCEPT ![k] = [head[k] EXCEPT !.version = head[k].version + 1, !.current = 0]]
  BY <1>2 DEF Unpublish, TypeOK, HeadRow
<1>6. head' \in [Keys -> HeadRow]
  BY <1>4, <1>5 DEF TypeOK
<1>7. outbox' \subseteq Event
  BY <1>1, <1>2, <1>3 DEF Unpublish, TypeOK, Event, HeadRow
<1>8. /\ eventSequence' \in [Entries -> Nat]
      /\ generation' \in [Locales -> Nat]
      /\ claims' \in [Keys -> SUBSET Claimable]
  BY <1>1, <1>3 DEF Unpublish, TypeOK, NextGeneration
<1>9. budget' \in [Kinds -> Nat]
  BY SpendKeepsTypes DEF TypeOK, Unpublish, Kinds
<1> QED BY <1>6, <1>7, <1>8, <1>9 DEF TypeOK, Unpublish, draftVars, clientVars, adminVars

LEMMA ReviewKeepsTypes ==
  ASSUME ContentConstants, TypeOK, NEW k \in Keys, ReviewPlan(k)
  PROVE  TypeOK'
<1>1. head[k] \in HeadRow
  BY DEF TypeOK
<1>2. PlanFor(k) \in Plan
  BY <1>1, CandidateIsAuthority DEF PlanFor, Plan, HeadRow
<1>3. budget' \in [Kinds -> Nat]
  BY SpendKeepsTypes DEF TypeOK, ReviewPlan, Kinds
<1>4. plans' \subseteq Plan
  BY <1>2 DEF TypeOK, ReviewPlan
<1> QED BY <1>3, <1>4 DEF TypeOK, ReviewPlan, draftVars, releaseVars, adminVars

LEMMA PublishingKeepsTypes ==
  ASSUME ContentConstants, TypeOK, Publishing
  PROVE  TypeOK'
<1>1. ASSUME NEW e \in Entries, PublishRefused(e) \/ DeadlockVictim(e) PROVE TypeOK'
  BY <1>1, RollbackKeepsTypes DEF PublishRefused, DeadlockVictim, TypeOK
<1>2. ASSUME NEW e \in Entries, PublishLost(e) PROVE TypeOK'
  BY <1>2, RollbackKeepsTypes, SpendKeepsTypes DEF PublishLost, TypeOK, Kinds
<1> QED BY <1>1, <1>2, ResolveKeepsTypes, LockKeepsTypes, ClaimKeepsTypes,
           CommitKeepsTypes, UnpublishKeepsTypes, ReviewKeepsTypes DEF Publishing

(* The status of a locale, and the delivery configuration of the collection. *)
LEMMA LiveValuesAreTyped ==
  ASSUME TypeOK, NEW k \in Keys
  PROVE  LiveValues(k) \subseteq Claimable
BY DEF LiveValues, Live, TypeOK, Publication

LEMMA AdministeringKeepsTypes ==
  ASSUME TypeOK, Administering
  PROVE  TypeOK'
<1>1. ASSUME NEW b \in BOOLEAN, UpdateConfiguration(b) PROVE TypeOK'
  <2>1. budget' \in [Kinds -> Nat]
    BY <1>1, SpendKeepsTypes DEF TypeOK, UpdateConfiguration, Kinds
  <2>2. claims' \in [Keys -> SUBSET Claimable]
    BY <1>1, LiveValuesAreTyped DEF UpdateConfiguration
  <2>3. overtaken' \in BOOLEAN
    BY <1>1 DEF UpdateConfiguration
  <2> QED BY <1>1, <2>1, <2>2, <2>3
          DEF TypeOK, UpdateConfiguration, draftVars, clientVars, releaseVars
<1>2. ASSUME NEW l \in Locales, NEW status \in Statuses, UpdateStatus(l, status)
      PROVE  TypeOK'
  <2>1. budget' \in [Kinds -> Nat]
    BY <1>2, SpendKeepsTypes DEF TypeOK, UpdateStatus, Kinds
  <2> QED BY <1>2, <2>1 DEF TypeOK, UpdateStatus, draftVars, clientVars, releaseVars
<1> QED BY <1>1, <1>2, SchemaKeepsTypes DEF Administering

LEMMA BackfillingKeepsTypes ==
  ASSUME TypeOK, Backfilling
  PROVE  TypeOK'
<1>1. ASSUME NEW batch \in SUBSET Keys, PlanBatch(batch) PROVE TypeOK'
  <2>1. budget' \in [Kinds -> Nat]
    BY <1>1, SpendKeepsTypes DEF TypeOK, PlanBatch, Kinds
  <2>2. \A k \in Keys : head[k].current \in Nat
    BY DEF TypeOK, HeadRow
  <2>3. backfill' \in Batch
    BY <1>1, <2>2 DEF TypeOK, PlanBatch, Batch
  <2> QED BY <1>1, <2>1, <2>3 DEF TypeOK, PlanBatch, draftVars, clientVars, releaseVars
<1>2. ASSUME NEW k \in Keys, LockHead(k) PROVE TypeOK'
  <2>1. backfill \in Batch
    BY <1>2 DEF TypeOK, LockHead
  <2>2. backfill' \in Batch
    BY <1>2, <2>1 DEF LockHead, Batch
  <2> QED BY <1>2, <2>2 DEF TypeOK, LockHead, draftVars, clientVars, releaseVars
<1>3. CASE ApplyBatch
  <2>1. claims' \in [Keys -> SUBSET Claimable]
    BY <1>3, LiveValuesAreTyped DEF TypeOK, ApplyBatch, Rebuilt
  <2> QED BY <1>3, <2>1 DEF TypeOK, ApplyBatch, draftVars, clientVars, releaseVars
<1>4. CASE BatchFails
  <2>1. budget' \in [Kinds -> Nat]
    BY <1>4, SpendKeepsTypes DEF TypeOK, BatchFails, Kinds
  <2> QED BY <1>4, <2>1 DEF TypeOK, BatchFails, draftVars, clientVars, releaseVars
<1> QED BY <1>1, <1>2, <1>3, <1>4 DEF Backfilling

(* Every variable of the content lifecycle keeps its type. *)
THEOREM TypeCorrect == Spec => []TypeOK
<1>1. InitStore => TypeOK
  <2> SUFFICES ASSUME InitStore PROVE TypeOK
    OBVIOUS
  <2>1. /\ <<>> \in Seq(Revision)
        /\ [version |-> 0, latest |-> 0, current |-> 0] \in HeadRow
        /\ [revision |-> 1, contract |-> 1] \in Schema
    BY DEF HeadRow, Schema
  <2> QED BY <2>1, ContentConstants DEF InitStore, TypeOK, ContentConstants, Statuses
<1>2. TypeOK /\ [Next]_vars => TypeOK'
  <2>1. CASE UNCHANGED vars
    BY <2>1 DEF vars, TypeOK, draftVars, clientVars, releaseVars, adminVars
  <2> QED BY <2>1, ContentConstants, DraftingKeepsTypes, AdministeringKeepsTypes,
             PublishingKeepsTypes, BackfillingKeepsTypes, ReadingKeepsTypes DEF Next
<1> QED BY <1>1, <1>2, PTL DEF Spec

-----------------------------------------------------------------------------
(* Publications *)

(***************************************************************************)
(* What a publish transaction has resolved stays true until it ends: the   *)
(* plan it works for was reviewed, and neither schema, draft, locale nor   *)
(* delivery configuration has moved, because it holds the project, the     *)
(* collection and the entry.                                               *)
(***************************************************************************)
Resolved(e) ==
  LET k == <<e, txn[e].locale>>
      authority == txn[e].authority
  IN  /\ e \in exists
      /\ \E plan \in plans : plan.key = k /\ plan.authority = authority
      /\ authority.schema = schema.revision
      /\ authority.shared = Len(shared[e])
      /\ authority.localized = Len(localized[k])
      /\ Enabled(txn[e].locale)
      /\ txn[e].claims = Guarded(txn[e].values)

TransactionsHold == \A e \in Entries : txn[e] # None => Resolved(e)

PublicationInv == TypeOK /\ TransactionsHold /\ PublishedAsReviewed /\ UniqueClaims

(* Drafts of entries without an open transaction may change. *)
LEMMA DraftsSpareTransactions ==
  ASSUME TypeOK, TransactionsHold, NEW e \in Entries,
         UNCHANGED <<schema, plans, txn, localeStatus, lookup>>, exists \subseteq exists',
         txn[e] # None => /\ shared'[e] = shared[e]
                          /\ \A l \in Locales : localized'[<<e, l>>] = localized[<<e, l>>]
  PROVE  txn'[e] # None => Resolved(e)'
<1> SUFFICES ASSUME txn[e] # None PROVE Resolved(e)'
  OBVIOUS
<1>1. txn[e].locale \in Locales
  BY DEF TypeOK, Txn
<1> QED BY <1>1 DEF TransactionsHold, Resolved, Enabled, Guarded

(* A transaction that goes on, while nobody touches drafts or schema. *)
LEMMA TransactionGoesOn ==
  ASSUME TransactionsHold, NEW e \in Entries,
         UNCHANGED <<schema, draftVars, localeStatus, lookup>>, plans \subseteq plans',
         txn'[e] # None => /\ txn[e] # None
                           /\ txn'[e].locale = txn[e].locale
                           /\ txn'[e].authority = txn[e].authority
                           /\ txn'[e].values = txn[e].values
                           /\ txn'[e].claims = txn[e].claims
  PROVE  txn'[e] # None => Resolved(e)'
<1> SUFFICES ASSUME txn'[e] # None PROVE Resolved(e)'
  OBVIOUS
<1>1. Resolved(e)
  BY DEF TransactionsHold
<1> QED BY <1>1 DEF Resolved, Enabled, Guarded, draftVars

(* All but two actions leave what is published alone. *)
LEMMA MostStepsSpareReleases ==
  ASSUME [Next]_vars
  PROVE  \/ UNCHANGED releaseVars /\ plans \subseteq plans'
         \/ \E e \in Entries : PublishCommit(e)
         \/ \E k \in Keys : Unpublish(k)
<1>1. CASE UNCHANGED vars
  BY <1>1 DEF vars, clientVars
<1>2. CASE Drafting
  BY <1>2 DEF Drafting, CreateEntry, SaveDraft, RestoreShared, RestoreLocalized, Draft, clientVars
<1>3. CASE Administering
  BY <1>3 DEF Administering, PublishSchema, UpdateConfiguration, UpdateStatus, clientVars
<1>4. CASE Publishing
  BY <1>4 DEF Publishing, PublishResolve, LockClaim, PublishClaim, PublishRefused,
              DeadlockVictim, PublishLost, Rollback, ReviewPlan, clientVars
<1>5. CASE Backfilling
  BY <1>5 DEF Backfilling, PlanBatch, LockHead, ApplyBatch, BatchFails, clientVars
<1>6. CASE Reading
  BY <1>6 DEF Reading, ListFirstPage, ListNextPage, EndListing
<1> QED BY <1>1, <1>2, <1>3, <1>4, <1>5, <1>6 DEF Next

(* The rows of the unique index change with two more. *)
LEMMA MostStepsSpareClaims ==
  ASSUME [Next]_vars
  PROVE  \/ UNCHANGED <<claims, head>>
         \/ \E e \in Entries : PublishCommit(e)
         \/ \E k \in Keys : Unpublish(k)
         \/ \E b \in BOOLEAN : UpdateConfiguration(b)
         \/ ApplyBatch
<1>1. CASE UNCHANGED vars
  BY <1>1 DEF vars, releaseVars
<1>2. CASE Drafting
  BY <1>2 DEF Drafting, CreateEntry, SaveDraft, RestoreShared, RestoreLocalized, Draft, releaseVars
<1>3. CASE Administering
  BY <1>3 DEF Administering, PublishSchema, UpdateStatus, releaseVars
<1>4. CASE Publishing
  BY <1>4 DEF Publishing, PublishResolve, LockClaim, PublishClaim, PublishRefused,
              DeadlockVictim, PublishLost, Rollback, ReviewPlan, releaseVars
<1>5. CASE Backfilling
  BY <1>5 DEF Backfilling, PlanBatch, LockHead, BatchFails, releaseVars
<1>6. CASE Reading
  BY <1>6 DEF Reading, ListFirstPage, ListNextPage, EndListing, releaseVars
<1> QED BY <1>1, <1>2, <1>3, <1>4, <1>5, <1>6 DEF Next

(* Every step leaves the open transactions with what they resolved. *)
LEMMA TransactionsKeepHolding ==
  ASSUME TypeOK, TransactionsHold, [Next]_vars
  PROVE  TransactionsHold'
<1> SUFFICES ASSUME NEW e \in Entries PROVE txn'[e] # None => Resolved(e)'
  BY DEF TransactionsHold
<1>1. CASE UNCHANGED vars
  BY <1>1, TransactionGoesOn DEF vars, clientVars, adminVars
<1>2. ASSUME NEW f \in Entries, NEW l \in Locales, NEW s \in SharedParts,
             NEW x \in LocalizedParts, CreateEntry(f, l, s, x)
      PROVE  txn'[e] # None => Resolved(e)'
  <2>1. txn[e] # None => e # f
    BY <1>2 DEF CreateEntry, TransactionsHold, Resolved
  <2> QED BY <1>2, <2>1, DraftsSpareTransactions DEF CreateEntry, TypeOK, Keys, clientVars, adminVars
<1>3. ASSUME NEW f \in Entries, NEW l \in Locales, NEW s \in SharedParts,
             NEW x \in LocalizedParts, SaveDraft(f, l, s, x)
      PROVE  txn'[e] # None => Resolved(e)'
  <2>1. txn[e] # None => e # f
    BY <1>3 DEF SaveDraft, Savable, Unlocked
  <2> QED BY <1>3, <2>1, DraftsSpareTransactions DEF SaveDraft, Draft, TypeOK, Keys, clientVars, adminVars
<1>4. ASSUME NEW f \in Entries, NEW n \in DOMAIN shared[f], RestoreShared(f, n)
      PROVE  txn'[e] # None => Resolved(e)'
  <2>1. txn[e] # None => e # f
    BY <1>4 DEF RestoreShared, Unlocked
  <2> QED BY <1>4, <2>1, DraftsSpareTransactions DEF RestoreShared, Draft, TypeOK, clientVars, adminVars
<1>5. ASSUME NEW k \in Keys, NEW n \in DOMAIN localized[k], RestoreLocalized(k, n)
      PROVE  txn'[e] # None => Resolved(e)'
  <2>1. txn[e] # None => e # k[1]
    BY <1>5 DEF RestoreLocalized, Unlocked
  <2>2. \A l \in Locales : e # k[1] => <<e, l>> # k
    BY DEF Keys
  <2> QED BY <1>5, <2>1, <2>2, DraftsSpareTransactions
          DEF RestoreLocalized, Draft, TypeOK, Keys, clientVars, adminVars
<1>6. CASE Administering
  <2>1. txn[e] = None /\ UNCHANGED txn
    BY <1>6 DEF Administering, PublishSchema, SchemaLockable, UpdateConfiguration,
                ConfigurationLockable, UpdateStatus, LocaleLockable, ProjectFree, CollectionFree
  <2> QED BY <2>1
<1>7. ASSUME NEW plan \in plans, PublishResolve(plan) PROVE txn'[e] # None => Resolved(e)'
  <2> DEFINE k == plan.key
  <2>1. CASE e # k[1]
    BY <1>7, <2>1, TransactionGoesOn DEF PublishResolve, TypeOK, clientVars, adminVars
  <2>2. CASE e = k[1]
    <3>1. k = <<e, k[2]>> /\ k \in Keys
      BY <2>2 DEF TypeOK, Plan, Keys
    <3>2. e \in exists /\ Enabled(k[2]) /\ plan.authority = Candidate(k)
      BY <1>7, <2>2 DEF PublishResolve, Publishable, Unlocked, Unchanged, PlanFor
    <3>3. /\ txn'[e].locale = k[2] /\ txn'[e].authority = Candidate(k)
          /\ txn'[e].claims = Guarded(txn'[e].values)
          /\ UNCHANGED <<schema, exists, shared, localized, plans, localeStatus, lookup>>
      BY <1>7, <2>2 DEF PublishResolve, TypeOK, draftVars, clientVars, adminVars
    <3>4. /\ Candidate(k).schema = schema.revision
          /\ Candidate(k).shared = Len(shared[e])
          /\ Candidate(k).localized = Len(localized[k])
      BY <2>2 DEF Candidate
    <3> QED BY <3>1, <3>2, <3>3, <3>4 DEF Resolved, Enabled, Guarded
  <2> QED BY <2>1, <2>2
<1>8. ASSUME NEW f \in Entries, LockClaim(f) \/ PublishClaim(f)
      PROVE  txn'[e] # None => Resolved(e)'
  <2>1. txn[f] \in Txn /\ txn \in [Entries -> Txn \cup {None}] /\ txn[f] # None
    BY <1>8 DEF LockClaim, PublishClaim, TypeOK
  <2>2. /\ txn'[e] # None => txn[e] # None
        /\ txn'[e].locale = txn[e].locale
        /\ txn'[e].authority = txn[e].authority
        /\ txn'[e].values = txn[e].values
        /\ txn'[e].claims = txn[e].claims
    BY <1>8, <2>1 DEF LockClaim, PublishClaim, Txn
  <2> QED BY <1>8, <2>2, TransactionGoesOn DEF LockClaim, PublishClaim, clientVars, adminVars
<1>9. ASSUME NEW f \in Entries, PublishCommit(f) PROVE txn'[e] # None => Resolved(e)'
  BY <1>9, TransactionGoesOn DEF PublishCommit, TypeOK, clientVars, adminVars
<1>10. ASSUME NEW f \in Entries, Rollback(f) PROVE txn'[e] # None => Resolved(e)'
  BY <1>10, TransactionGoesOn DEF Rollback, TypeOK, clientVars, adminVars
<1>11. ASSUME NEW k \in Keys, ReviewPlan(k) \/ Unpublish(k)
       PROVE  txn'[e] # None => Resolved(e)'
  BY <1>11, TransactionGoesOn DEF ReviewPlan, Unpublish, clientVars, adminVars
<1>12. CASE Backfilling
  BY <1>12, TransactionGoesOn DEF Backfilling, PlanBatch, LockHead, ApplyBatch, BatchFails, clientVars
<1>13. CASE Reading
  BY <1>13, TransactionGoesOn DEF Reading, ListFirstPage, ListNextPage, EndListing, adminVars
<1> QED BY <1>1, <1>2, <1>3, <1>4, <1>5, <1>6, <1>7, <1>8, <1>9, <1>10, <1>11, <1>12, <1>13
       DEF Next, Drafting, Publishing, PublishRefused, DeadlockVictim, PublishLost

(* A new publication has the authority its transaction has resolved. *)
LEMMA NewPublication ==
  ASSUME TypeOK, TransactionsHold, [Next]_vars, NEW p \in publications' \ publications
  PROVE  /\ \E plan \in plans' : plan.key = p.key /\ plan.authority = p.authority
         /\ p.authority.schema = schema'.revision
         /\ p.authority.shared = Len(shared'[p.key[1]])
         /\ p.authority.localized = Len(localized'[p.key])
<1>1. PICK e \in Entries : PublishCommit(e)
  BY MostStepsSpareReleases DEF Unpublish, releaseVars
<1>2. p.key = <<e, txn[e].locale>> /\ p.authority = txn[e].authority
  BY <1>1 DEF PublishCommit
<1>3. Resolved(e)
  BY <1>1 DEF PublishCommit, TransactionsHold
<1> QED BY <1>1, <1>2, <1>3 DEF Resolved, PublishCommit, draftVars, clientVars

(* What is published stays what was reviewed. *)
LEMMA ReviewsKeepHolding ==
  ASSUME TypeOK, TransactionsHold, PublishedAsReviewed, [Next]_vars
  PROVE  PublishedAsReviewed'
<1> SUFFICES ASSUME NEW p \in publications'
             PROVE  \E plan \in plans' : plan.key = p.key /\ plan.authority = p.authority
  BY DEF PublishedAsReviewed
<1>1. CASE p \notin publications
  BY <1>1, NewPublication
<1>2. CASE p \in publications
  <2>1. plans \subseteq plans'
    BY MostStepsSpareReleases DEF PublishCommit, Unpublish, clientVars
  <2> QED BY <1>2, <2>1 DEF PublishedAsReviewed
<1> QED BY <1>1, <1>2

(* A commit claims what no other entry of the locale holds. *)
LEMMA ClaimsStayUnique ==
  ASSUME TypeOK, UniqueClaims, [Next]_vars
  PROVE  UniqueClaims'
<1>1. CASE UNCHANGED <<claims, head>>
  BY <1>1 DEF UniqueClaims, Unique
<1>2. ASSUME NEW e \in Entries, PublishCommit(e) PROVE UniqueClaims'
  <2> DEFINE l == txn[e].locale
             k == <<e, l>>
             mine == txn[e].claims
  <2>1. txn[e] \in Txn
    BY <1>2 DEF PublishCommit, TypeOK
  <2>2. l \in Locales /\ k \in Keys
    BY <2>1 DEF Txn, Keys
  <2>3. claims' = [claims EXCEPT ![k] = mine]
    BY <1>2 DEF PublishCommit
  <2>4. \A f \in Entries \ {e} : claims[<<f, l>>] \cap mine = {}
    <3> SUFFICES ASSUME NEW f \in Entries \ {e} PROVE ~ ClaimedBy(f, e)
      BY DEF ClaimedBy
    <3>1. CASE f \in Claimants(e)
      BY <1>2, <3>1 DEF PublishCommit, WaitsFor
    <3>2. CASE f \notin Claimants(e)
      BY <1>2, <3>2 DEF PublishCommit, Refused, WaitsForBackfill
    <3> QED BY <3>1, <3>2
  <2>5. head'[k].current # 0
    <3>1. head[k] \in HeadRow
      BY <2>2 DEF TypeOK
    <3> QED BY <1>2, <2>2, <3>1 DEF PublishCommit, NextPublication, TypeOK, HeadRow
  <2>6. \A j \in Keys : j # k => head'[j] = head[j]
    BY <1>2 DEF PublishCommit, TypeOK
  <2>7. claims \in [Keys -> SUBSET Claimable]
    BY DEF TypeOK
  <2> HIDE DEF mine, l
  <2>8. ASSUME NEW f \in Entries, NEW g \in Entries, NEW m \in Locales, f # g
        PROVE  claims'[<<f, m>>] \cap claims'[<<g, m>>] = {}
    <3>1. <<f, m>> \in Keys /\ <<g, m>> \in Keys
      BY DEF Keys
    <3>2. CASE m # l
      BY <2>3, <2>7, <2>8, <3>1, <3>2 DEF UniqueClaims, Unique
    <3>3. CASE m = l
      BY <2>3, <2>4, <2>7, <2>8, <3>1, <3>3 DEF UniqueClaims, Unique
    <3> QED BY <3>2, <3>3
  <2>9. ASSUME NEW j \in Keys, head'[j].current = 0 PROVE claims'[j] = {}
    BY <2>3, <2>5, <2>6, <2>7, <2>9 DEF UniqueClaims
  <2> QED BY <2>8, <2>9 DEF UniqueClaims, Unique
<1>3. ASSUME NEW k \in Keys, Unpublish(k) PROVE UniqueClaims'
  <2>1. claims' = [claims EXCEPT ![k] = {}] /\ claims \in [Keys -> SUBSET Claimable]
    BY <1>3 DEF Unpublish, TypeOK
  <2>2. \A j \in Keys : j # k => head'[j] = head[j]
    BY <1>3 DEF Unpublish, TypeOK
  <2>3. ASSUME NEW f \in Entries, NEW g \in Entries, NEW m \in Locales, f # g
        PROVE  claims'[<<f, m>>] \cap claims'[<<g, m>>] = {}
    BY <2>1, <2>3 DEF UniqueClaims, Unique, Keys
  <2>4. ASSUME NEW j \in Keys, head'[j].current = 0 PROVE claims'[j] = {}
    BY <2>1, <2>2, <2>4 DEF UniqueClaims
  <2> QED BY <2>3, <2>4 DEF UniqueClaims, Unique
<1>4. ASSUME NEW b \in BOOLEAN, UpdateConfiguration(b) PROVE UniqueClaims'
  <2>1. \A j \in Keys : head'[j].current = 0 => LiveValues(j) = {}
    BY <1>4 DEF UpdateConfiguration, releaseVars, LiveValues
  <2> QED BY <1>4, <2>1 DEF UpdateConfiguration, UniqueClaims, Unique
<1>5. CASE ApplyBatch
  <2>1. \A j \in Keys : head'[j] = head[j] /\ (head[j].current = 0 => LiveValues(j) = {})
    BY <1>5 DEF ApplyBatch, releaseVars, LiveValues
  <2> QED BY <1>5, <2>1 DEF ApplyBatch, Rebuilt, UniqueClaims, Unique
<1> QED BY <1>1, <1>2, <1>3, <1>4, <1>5, MostStepsSpareClaims

(***************************************************************************)
(* None of the three properties is inductive alone: an open transaction    *)
(* must still hold what it resolved, and the types say which keys there    *)
(* are.  (publish, lockUniqueDeliveryClaims, publishSchema, saveDraft)     *)
(***************************************************************************)
THEOREM PublicationsCorrect == Spec => []PublicationInv
<1>1. InitStore => TransactionsHold /\ PublishedAsReviewed /\ UniqueClaims
  BY DEF InitStore, TransactionsHold, PublishedAsReviewed, UniqueClaims, Unique, Keys
<1>2. TypeOK /\ TransactionsHold /\ PublishedAsReviewed /\ UniqueClaims /\ [Next]_vars
        => (TransactionsHold /\ PublishedAsReviewed /\ UniqueClaims)'
  BY TransactionsKeepHolding, ReviewsKeepHolding, ClaimsStayUnique
<1> QED BY <1>1, <1>2, TypeCorrect, PTL DEF Spec, PublicationInv

(* Whatever is published is what somebody reviewed for that entry and locale. *)
THEOREM PublishedIsReviewed == Spec => []PublishedAsReviewed
BY PublicationsCorrect, PTL DEF PublicationInv

(* No two entries of a locale are delivered under the same unique value. *)
THEOREM ClaimsAreUnique == Spec => []UniqueClaims
BY PublicationsCorrect, PTL DEF PublicationInv

(* A publication commits with the schema and the draft of its commit. *)
THEOREM CommitsAreFresh == Spec => CommittedFresh
<1> DEFINE Fresh == \A p \in publications' \ publications :
                      /\ p.authority.schema = schema'.revision
                      /\ p.authority.shared = Len(shared'[p.key[1]])
                      /\ p.authority.localized = Len(localized'[p.key])
<1>1. PublicationInv /\ [Next]_vars => [Fresh]_vars
  BY NewPublication DEF PublicationInv
<1>2. CommittedFresh <=> [][Fresh]_vars
  BY DEF CommittedFresh
<1> QED BY <1>1, <1>2, PublicationsCorrect, PTL DEF Spec

-----------------------------------------------------------------------------
(* Locks *)

(***************************************************************************)
(* A publish transaction takes the locks of its values in the order of     *)
(* their digests, whatever value comes next is above all it holds, and a   *)
(* transaction that may have deleted rows waits for no lock any more.      *)
(***************************************************************************)
LocksFollowDigests ==
  \A e \in Entries : txn[e] # None =>
    /\ \A c \in txn[e].locked, d \in txn[e].claims \ txn[e].locked : DigestOf[c] <= DigestOf[d]
    /\ txn[e].phase = "claimed" => txn[e].locked = txn[e].claims

(* The open transactions end, resolve anew, take a lock or delete. *)
LEMMA StepsOfTransactions ==
  ASSUME TypeOK, [Next]_vars, NEW e \in Entries, txn'[e] # txn[e]
  PROVE  \/ txn'[e] = None
         \/ txn'[e].phase = "resolved" /\ txn'[e].locked = {}
         \/ LockClaim(e)
         \/ PublishClaim(e)
<1>1. UNCHANGED txn \/ Publishing
  BY DEF Next, vars, Drafting, CreateEntry, SaveDraft, RestoreShared, RestoreLocalized, Draft,
         Administering, PublishSchema, UpdateConfiguration, UpdateStatus, Backfilling, PlanBatch,
         LockHead, ApplyBatch, BatchFails, Reading, ListFirstPage, ListNextPage, EndListing
<1>2. ASSUME NEW plan \in plans, PublishResolve(plan)
      PROVE  txn'[e].phase = "resolved" /\ txn'[e].locked = {}
  BY <1>2 DEF PublishResolve, TypeOK
<1>3. ASSUME NEW f \in Entries, LockClaim(f) \/ PublishClaim(f) PROVE f = e
  BY <1>3 DEF LockClaim, PublishClaim, TypeOK
<1>4. ASSUME NEW f \in Entries, PublishCommit(f) \/ Rollback(f) PROVE txn'[e] = None
  BY <1>4 DEF PublishCommit, Rollback, TypeOK
<1> QED BY <1>1, <1>2, <1>3, <1>4
       DEF Publishing, PublishRefused, DeadlockVictim, PublishLost, ReviewPlan, Unpublish

LEMMA LocksKeepOrder ==
  ASSUME DigestsDiffer, TypeOK, LocksFollowDigests, [Next]_vars
  PROVE  LocksFollowDigests'
<1> SUFFICES
      ASSUME NEW e \in Entries, txn'[e] # None
      PROVE  /\ \A c \in txn'[e].locked, d \in txn'[e].claims \ txn'[e].locked :
                  DigestOf[c] <= DigestOf[d]
             /\ txn'[e].phase = "claimed" => txn'[e].locked = txn'[e].claims
  BY DEF LocksFollowDigests
<1>1. CASE txn'[e] = txn[e]
  BY <1>1 DEF LocksFollowDigests
<1>2. CASE LockClaim(e)
  <2>1. txn[e] \in Txn /\ txn[e] # None
    BY <1>2 DEF LockClaim, TypeOK
  <2>2. PICK c \in NextClaims(e) : txn' = [txn EXCEPT ![e].locked = @ \cup {c}]
    BY <1>2 DEF LockClaim
  <2>3. /\ txn'[e].locked = txn[e].locked \cup {c}
        /\ txn'[e].claims = txn[e].claims /\ txn'[e].phase = txn[e].phase
    BY <2>1, <2>2 DEF TypeOK, Txn
  <2>4. c \in txn[e].claims \ txn[e].locked
    BY DEF NextClaims
  <2>5. \A d \in txn[e].claims \ txn[e].locked : DigestOf[c] <= DigestOf[d]
    BY DEF NextClaims
  <2> QED BY <2>1, <2>3, <2>4, <2>5 DEF LocksFollowDigests
<1>3. CASE PublishClaim(e)
  <2>1. txn[e] \in Txn /\ txn[e] # None /\ txn[e].locked = txn[e].claims
    BY <1>3 DEF PublishClaim, TypeOK
  <2>2. txn'[e].locked = txn[e].locked /\ txn'[e].claims = txn[e].claims
    BY <1>3, <2>1 DEF PublishClaim, TypeOK, Txn
  <2> QED BY <2>1, <2>2
<1> QED BY <1>1, <1>2, <1>3, StepsOfTransactions

(* A set of numbers has a least one. *)
LEMMA LeastNumber ==
  ASSUME NEW T, T \subseteq Nat, T # {}
  PROVE  \E x \in T : \A y \in T : x <= y
<1>1. PICK x \in T : \A y \in T : ~ (<<y, x>> \in OpToRel(<, Nat))
  BY NatLessThanWellFounded, WFMin
<1>2. \A y \in T : ~ (y < x)
  BY <1>1 DEF OpToRel
<1>3. \A y \in T : x \in Nat /\ y \in Nat
  OBVIOUS
<1>4. \A y \in T : x <= y
  BY <1>2, <1>3
<1> QED BY <1>4

(***************************************************************************)
(* In a circle, take the transaction that waits for the lock with the      *)
(* least digest.  It has deleted no row, so the one that waits for it      *)
(* waits for a lock it holds, which is below the one it waits for.         *)
(***************************************************************************)
LEMMA OrderedLocksMakeNoCircle ==
  ASSUME ContentConstants, DigestsDiffer, TypeOK, LocksFollowDigests
  PROVE  LocksAreOrdered
<1> SUFFICES
      ASSUME NEW S \in SUBSET Entries,
             \A e \in S : \E f, g \in S :
               /\ WaitsForLock(e, f) \/ WaitsFor(e, f)
               /\ WaitsForLock(g, e) \/ WaitsFor(g, e),
             NEW e0 \in S, NEW f0 \in S, WaitsForLock(e0, f0)
      PROVE  FALSE
  BY DEF LocksAreOrdered, Circular
<1> DEFINE Stuck == {e \in S : \E f \in S : WaitsForLock(e, f)}
           T == {n \in Nat : \E e \in Stuck : \E c \in NextClaims(e) : n = DigestOf[c]}
<1>1. ASSUME NEW e \in Stuck
      PROVE  /\ e \in Entries /\ txn[e] # None /\ txn[e] \in Txn
             /\ NextClaims(e) # {}
             /\ NextClaims(e) \subseteq txn[e].claims \ txn[e].locked
             /\ NextClaims(e) \subseteq Claimable
  BY DEF WaitsForLock, NextClaims, TypeOK, Txn
<1>2. \A e \in Stuck : \A c \in NextClaims(e) : DigestOf[c] \in Nat
  BY <1>1 DEF DigestsDiffer
<1>3. e0 \in Stuck
  OBVIOUS
<1>4. PICK c0 \in NextClaims(e0) : TRUE
  BY <1>1, <1>3
<1>5. DigestOf[c0] \in T
  BY <1>2, <1>3, <1>4
<1>6. PICK x \in T : \A y \in T : x <= y
  <2> HIDE DEF T
  <2> QED BY <1>5, LeastNumber DEF T
<1>7. PICK e \in Stuck : \E c \in NextClaims(e) : x = DigestOf[c]
  OBVIOUS
<1>8. PICK c \in NextClaims(e) : x = DigestOf[c]
  BY <1>7
<1>9. PICK g \in S : WaitsForLock(g, e) \/ WaitsFor(g, e)
  OBVIOUS
<1>10. WaitsForLock(g, e)
  BY <1>1, <1>8, <1>9 DEF LocksFollowDigests, WaitsFor, Claimants
<1>11. g \in Stuck
  BY <1>10
<1>12. PICK d \in NextClaims(g) : d \in txn[e].locked
  BY <1>10 DEF WaitsForLock
<1>13. DigestOf[d] <= DigestOf[c]
  BY <1>1, <1>8, <1>12 DEF LocksFollowDigests
<1>14. DigestOf[c] # DigestOf[d]
  <2>1. c # d /\ c \in Claimable /\ d \in Claimable
    BY <1>1, <1>8, <1>11, <1>12
  <2> QED BY <2>1 DEF DigestsDiffer
<1>15. DigestOf[d] \in T
  BY <1>2, <1>11, <1>12
<1>16. DigestOf[c] \in Nat /\ DigestOf[d] \in Nat /\ DigestOf[c] <= DigestOf[d]
  BY <1>2, <1>6, <1>8, <1>11, <1>12, <1>15
<1> HIDE DEF T, Stuck
<1> QED BY <1>13, <1>14, <1>16

(***************************************************************************)
(* The advisory locks bring no deadlock of their own.                      *)
(* (lockUniqueDeliveryClaims and where publish calls it)                   *)
(***************************************************************************)
THEOREM LocksOrdered == Spec => []LocksAreOrdered
<1>1. InitStore => LocksFollowDigests
  BY DEF InitStore, LocksFollowDigests
<1>2. TypeOK /\ LocksFollowDigests /\ [Next]_vars => LocksFollowDigests'
  BY LocksKeepOrder, DigestsDiffer
<1>3. TypeOK /\ LocksFollowDigests => LocksAreOrdered
  BY OrderedLocksMakeNoCircle, ContentConstants, DigestsDiffer
<1> QED BY <1>1, <1>2, <1>3, TypeCorrect, PTL DEF Spec

-----------------------------------------------------------------------------
(***************************************************************************)
(* The outbox of an entry is a log of what became of it, and publication   *)
(* implements PublicationLog.                                              *)
(***************************************************************************)

EventsOf(e) == {v \in outbox : v.entry = e}

(* The places of a locale's publications in the log of its entry. *)
PublishedAt(k) ==
  {i \in 1 .. eventSequence[k[1]] :
     LogEvent(k[1], i).kind = "published" /\ LogEvent(k[1], i).locale = k[2]}

EventsAreDistinct ==
  \A v, w \in outbox : v.entry = w.entry /\ v.sequence = w.sequence => v = w

EventsAreCounted ==
  \A e \in Entries : {v.sequence : v \in EventsOf(e)} = 1 .. eventSequence[e]

(***************************************************************************)
(* Counting events is not inductive: each sequence must belong to exactly  *)
(* one event, and the number a locale has given out last must be the       *)
(* number of its publications.                                             *)
(***************************************************************************)
LogInv ==
  /\ IsFiniteSet(outbox)
  /\ EventsAreDistinct
  /\ EventsAreCounted
  /\ EventsMatchHeads
  /\ \A k \in Keys : Cardinality(PublishedAt(k)) = head[k].latest

-----------------------------------------------------------------------------
(* Facts about one state *)

(* The event of a sequence is the one that carries it. *)
LEMMA EventOfSequence ==
  ASSUME EventsAreDistinct, NEW v \in outbox
  PROVE  LogEvent(v.entry, v.sequence) = v
BY DEF EventsAreDistinct, LogEvent

LEMMA SequenceHasEvent ==
  ASSUME EventsAreCounted, NEW e \in Entries, NEW i \in 1 .. eventSequence[e]
  PROVE  /\ LogEvent(e, i) \in outbox
         /\ LogEvent(e, i).entry = e
         /\ LogEvent(e, i).sequence = i
<1>1. \E v \in outbox : v.entry = e /\ v.sequence = i
  BY DEF EventsAreCounted, EventsOf
<1> QED BY <1>1 DEF LogEvent

LEMMA SequencesAreBounded ==
  ASSUME TypeOK, EventsAreCounted, NEW v \in outbox
  PROVE  v.entry \in Entries /\ v.sequence \in 1 .. eventSequence[v.entry]
<1>1. v.entry \in Entries
  BY DEF TypeOK, Event
<1>2. v.sequence \in {w.sequence : w \in EventsOf(v.entry)}
  BY DEF EventsOf
<1> QED BY <1>1, <1>2 DEF EventsAreCounted

(* What the last event of some events says is live. *)
LEMMA LiveAfterLast ==
  ASSUME NEW events, NEW v \in events,
         \A w \in events : w.sequence \in Nat /\ w.sequence <= v.sequence,
         \A w \in events : w.sequence = v.sequence => w = v
  PROVE  LiveAfter(events) = IF v.kind = "published" THEN v.publication ELSE 0
<1> DEFINE last == CHOOSE x \in events : \A w \in events : w.sequence <= x.sequence
<1>1. last \in events /\ \A w \in events : w.sequence <= last.sequence
  OBVIOUS
<1>2. last.sequence = v.sequence
  BY <1>1
<1>3. last = v
  BY <1>1, <1>2
<1>4. LiveAfter(events) = IF last.kind = "published" THEN last.publication ELSE 0
  BY DEF LiveAfter
<1> HIDE DEF last
<1> QED BY <1>3, <1>4

-----------------------------------------------------------------------------
(* One more event *)

NewEvent(k, kind, n) ==
  [entry |-> k[1], sequence |-> NextEvent(k), kind |-> kind, locale |-> k[2], publication |-> n]

(* What publish and unpublish do to head, sequence and outbox. *)
Emits(k, kind, n) ==
  /\ outbox' = outbox \cup {NewEvent(k, kind, n)}
  /\ eventSequence' = [eventSequence EXCEPT ![k[1]] = NextEvent(k)]
  /\ \A j \in Keys \ {k} : head'[j] = head[j]
  /\ head'[k].version = head[k].version + 1
  /\ IF kind = "published"
     THEN n = head[k].latest + 1 /\ head'[k].current = n /\ head'[k].latest = n
     ELSE n = head[k].current /\ n # 0 /\ head'[k].current = 0 /\ head'[k].latest = head[k].latest

(* The new event comes after all events of its entry. *)
LEMMA NewEventIsLast ==
  ASSUME TypeOK, LogInv, NEW k \in Keys, NEW kind, NEW n, Emits(k, kind, n)
  PROVE  /\ k[1] \in Entries /\ k[2] \in Locales
         /\ NextEvent(k) = eventSequence[k[1]] + 1
         /\ eventSequence[k[1]] \in Nat
         /\ NewEvent(k, kind, n) \notin outbox
         /\ \A v \in outbox : v.entry = k[1] =>
              v.sequence \in Nat /\ v.sequence < NextEvent(k)
<1>1. k[1] \in Entries /\ k[2] \in Locales
  BY DEF Keys
<1>2. NextEvent(k) = eventSequence[k[1]] + 1 /\ eventSequence[k[1]] \in Nat
  BY <1>1 DEF NextEvent, TypeOK
<1>3. \A v \in outbox : v.entry = k[1] => v.sequence \in Nat /\ v.sequence < NextEvent(k)
  BY <1>2, SequencesAreBounded DEF LogInv
<1>4. NewEvent(k, kind, n) \notin outbox
  BY <1>2, <1>3 DEF NewEvent
<1> QED BY <1>1, <1>2, <1>3, <1>4

LEMMA EmittingKeepsOrder ==
  ASSUME TypeOK, LogInv, NEW k \in Keys, NEW kind, NEW n, Emits(k, kind, n)
  PROVE  IsFiniteSet(outbox)' /\ EventsAreDistinct' /\ EventsAreCounted'
<1> DEFINE event == NewEvent(k, kind, n)
<1>1. outbox' = outbox \cup {event}
  BY DEF Emits
<1>2. IsFiniteSet(outbox)'
  BY <1>1, FS_AddElement DEF LogInv
<1>3. event.entry = k[1] /\ event.sequence = NextEvent(k)
  BY DEF NewEvent
<1>4. EventsAreDistinct'
  BY <1>1, <1>3, NewEventIsLast DEF EventsAreDistinct, LogInv
<1>5. ASSUME NEW e \in Entries
      PROVE  {v.sequence : v \in EventsOf(e)'} = 1 .. eventSequence'[e]
  <2>1. CASE e # k[1]
    <3>1. EventsOf(e)' = EventsOf(e)
      BY <1>1, <1>3, <2>1 DEF EventsOf
    <3>2. eventSequence'[e] = eventSequence[e]
      BY <2>1 DEF Emits, TypeOK
    <3> QED BY <3>1, <3>2 DEF LogInv, EventsAreCounted
  <2>2. CASE e = k[1]
    <3>1. EventsOf(e)' = EventsOf(e) \cup {event}
      BY <1>1, <1>3, <2>2 DEF EventsOf
    <3>2. eventSequence'[e] = eventSequence[e] + 1 /\ eventSequence[e] \in Nat
      BY <2>2, NewEventIsLast DEF Emits, TypeOK
    <3>3. {v.sequence : v \in EventsOf(e)} = 1 .. eventSequence[e]
      BY DEF LogInv, EventsAreCounted
    <3>4. {v.sequence : v \in EventsOf(e) \cup {event}}
            = {v.sequence : v \in EventsOf(e)} \cup {event.sequence}
      OBVIOUS
    <3>5. event.sequence = eventSequence[e] + 1
      BY <1>3, <2>2, NewEventIsLast
    <3>6. (1 .. eventSequence[e]) \cup {eventSequence[e] + 1} = 1 .. (eventSequence[e] + 1)
      BY <3>2
    <3> QED BY <3>1, <3>2, <3>3, <3>4, <3>5, <3>6
  <2> QED BY <2>1, <2>2
<1> QED BY <1>2, <1>4, <1>5 DEF EventsAreCounted

LEMMA EmittingKeepsHeads ==
  ASSUME TypeOK, TypeOK', LogInv, NEW k \in Keys, NEW kind, NEW n, Emits(k, kind, n)
  PROVE  EventsMatchHeads'
<1> DEFINE event == NewEvent(k, kind, n)
<1>1. outbox' = outbox \cup {event} /\ event \notin outbox /\ IsFiniteSet(outbox)
  BY NewEventIsLast DEF Emits, LogInv
<1>2. /\ event.entry = k[1] /\ event.locale = k[2] /\ event.sequence = NextEvent(k)
      /\ event.kind = kind /\ event.publication = n
  BY DEF NewEvent
<1> HIDE DEF event
<1>3. ASSUME NEW e \in Entries
      PROVE  Cardinality(EventsOf(e)') = eventSequence'[e]
  <2>1. IsFiniteSet(EventsOf(e)) /\ Cardinality(EventsOf(e)) = eventSequence[e]
    BY <1>1, FS_Subset DEF EventsOf, LogInv, EventsMatchHeads
  <2>2. CASE e # k[1]
    <3>1. EventsOf(e)' = EventsOf(e)
      BY <1>1, <1>2, <2>2 DEF EventsOf
    <3> QED BY <2>1, <2>2, <3>1 DEF Emits, TypeOK
  <2>3. CASE e = k[1]
    <3>1. EventsOf(e)' = EventsOf(e) \cup {event} /\ event \notin EventsOf(e)
      BY <1>1, <1>2, <2>3 DEF EventsOf
    <3>2. eventSequence'[e] = eventSequence[e] + 1
      BY <2>3, NewEventIsLast DEF Emits, TypeOK
    <3> QED BY <2>1, <3>1, <3>2, FS_AddElement
  <2> QED BY <2>2, <2>3
<1>4. ASSUME NEW j \in Keys
      PROVE  /\ LiveAfter(LocaleEvents(j)') = head'[j].current
             /\ Cardinality(LocaleEvents(j)') = head'[j].version
  <2>1. /\ IsFiniteSet(LocaleEvents(j))
        /\ LiveAfter(LocaleEvents(j)) = head[j].current
        /\ Cardinality(LocaleEvents(j)) = head[j].version
    BY <1>1, FS_Subset DEF LocaleEvents, LogInv, EventsMatchHeads
  <2>2. CASE j # k
    <3>1. ~ (event.entry = j[1] /\ event.locale = j[2])
      BY <1>2, <2>2 DEF Keys
    <3>2. LocaleEvents(j)' = LocaleEvents(j)
      BY <1>1, <3>1 DEF LocaleEvents
    <3> QED BY <2>1, <2>2, <3>2 DEF Emits
  <2>3. CASE j = k
    <3>1. LocaleEvents(k)' = LocaleEvents(k) \cup {event} /\ event \notin LocaleEvents(k)
      BY <1>1, <1>2 DEF LocaleEvents
    <3>2. Cardinality(LocaleEvents(k)') = head'[k].version
      BY <2>1, <2>3, <3>1, FS_AddElement DEF Emits
    <3>3. \A v \in LocaleEvents(k) : v.sequence \in Nat /\ v.sequence < event.sequence
      BY <1>2, NewEventIsLast DEF LocaleEvents
    <3>4. event.sequence \in Nat
      BY <1>2, NewEventIsLast
    <3>5. LiveAfter(LocaleEvents(k) \cup {event})
            = IF kind = "published" THEN n ELSE 0
      <4> DEFINE events == LocaleEvents(k) \cup {event}
      <4>1. event \in events
        OBVIOUS
      <4>2. /\ \A w \in events : w.sequence \in Nat /\ w.sequence <= event.sequence
            /\ \A w \in events : w.sequence = event.sequence => w = event
        BY <3>3, <3>4
      <4> HIDE DEF events
      <4>3. LiveAfter(events) = IF event.kind = "published" THEN event.publication ELSE 0
        BY <4>1, <4>2, LiveAfterLast
      <4> QED BY <4>3, <1>2 DEF events
    <3>6. head'[k].current = IF kind = "published" THEN n ELSE 0
      BY DEF Emits
    <3> QED BY <2>3, <3>1, <3>2, <3>5, <3>6
  <2> QED BY <2>2, <2>3
<1>5. EventsAreCounted'
  BY EmittingKeepsOrder
<1> QED BY <1>3, <1>4, <1>5 DEF EventsMatchHeads, EventsAreCounted, EventsOf

(* The log keeps its events and the new one ends it. *)
LEMMA EmittingExtendsLog ==
  ASSUME TypeOK, LogInv, NEW k \in Keys, NEW kind, NEW n, Emits(k, kind, n),
         NEW s, s = NextEvent(k)
  PROVE  /\ \A e \in Entries : \A i \in 1 .. eventSequence[e] : LogEvent(e, i)' = LogEvent(e, i)
         /\ LogEvent(k[1], s)' = NewEvent(k, kind, n)
         /\ \A e \in Entries \ {k[1]} : eventSequence'[e] = eventSequence[e]
         /\ eventSequence'[k[1]] = s
<1>1. /\ outbox' = outbox \cup {NewEvent(k, kind, n)}
      /\ NewEvent(k, kind, n).entry = k[1] /\ NewEvent(k, kind, n).sequence = NextEvent(k)
  BY DEF Emits, NewEvent
<1>2. \A v \in outbox' : (CHOOSE w \in outbox' : w.entry = v.entry /\ w.sequence = v.sequence) = v
  BY EmittingKeepsOrder DEF EventsAreDistinct
<1>3. ASSUME NEW e \in Entries, NEW i \in 1 .. eventSequence[e]
      PROVE  LogEvent(e, i)' = LogEvent(e, i)
  <2>1. /\ LogEvent(e, i) \in outbox'
        /\ LogEvent(e, i).entry = e
        /\ LogEvent(e, i).sequence = i
    BY <1>1, SequenceHasEvent DEF LogInv
  <2>2. LogEvent(e, i)' = CHOOSE w \in outbox' : w.entry = e /\ w.sequence = i
    BY DEF LogEvent
  <2> QED BY <1>2, <2>1, <2>2
<1>4. LogEvent(k[1], s)' = NewEvent(k, kind, n)
  <2>1. LogEvent(k[1], s)' = CHOOSE w \in outbox' : w.entry = k[1] /\ w.sequence = s
    BY DEF LogEvent
  <2> QED BY <1>1, <1>2, <2>1
<1>5. /\ \A e \in Entries \ {k[1]} : eventSequence'[e] = eventSequence[e]
      /\ eventSequence'[k[1]] = s
  BY NewEventIsLast DEF Emits, TypeOK
<1> QED BY <1>3, <1>4, <1>5

(* The number a locale has given out last is the number of its publications. *)
LEMMA EmittingKeepsNumbers ==
  ASSUME TypeOK, LogInv, NEW k \in Keys, NEW kind, NEW n, Emits(k, kind, n), NEW j \in Keys
  PROVE  Cardinality(PublishedAt(j)') = head'[j].latest
<1>s. PICK s : s = NextEvent(k)
  OBVIOUS
<1> DEFINE new == IF kind = "published" /\ j = k THEN {s} ELSE {}
<1>1. j[1] \in Entries /\ k[1] \in Entries /\ eventSequence[j[1]] \in Nat /\ head[j] \in HeadRow
  BY DEF Keys, TypeOK
<1>2. /\ \A i \in 1 .. eventSequence[j[1]] : LogEvent(j[1], i)' = LogEvent(j[1], i)
      /\ LogEvent(k[1], s)' = NewEvent(k, kind, n)
      /\ j[1] # k[1] => eventSequence'[j[1]] = eventSequence[j[1]]
      /\ eventSequence'[k[1]] = s
  BY <1>s, <1>1, EmittingExtendsLog
<1>3. s = eventSequence[k[1]] + 1
  BY <1>s, NewEventIsLast
<1>4. j # k => j[1] # k[1] \/ j[2] # k[2]
  BY DEF Keys
<1>5. NewEvent(k, kind, n).kind = kind /\ NewEvent(k, kind, n).locale = k[2]
  BY DEF NewEvent
<1>6. PublishedAt(j)' = PublishedAt(j) \cup new
  <2>1. CASE j[1] # k[1]
    BY <1>2, <2>1 DEF PublishedAt
  <2>2. CASE j[1] = k[1]
    <3>1. \A i \in 1 .. s : i \in 1 .. eventSequence[j[1]] \/ i = s
      BY <1>1, <1>3, <2>2
    <3>2. s \in 1 .. s /\ 1 .. eventSequence[j[1]] \subseteq 1 .. s /\ s \notin 1 .. eventSequence[j[1]]
      BY <1>1, <1>3, <2>2
    <3>3. LogEvent(j[1], s)'.kind = kind /\ LogEvent(j[1], s)'.locale = k[2]
      BY <1>2, <1>5, <2>2
    <3> QED BY <1>2, <1>4, <2>2, <3>1, <3>2, <3>3 DEF PublishedAt
  <2> QED BY <2>1, <2>2
<1>7. IsFiniteSet(PublishedAt(j)) /\ Cardinality(PublishedAt(j)) = head[j].latest
  <2>1. IsFiniteSet(1 .. eventSequence[j[1]])
    BY <1>1, FS_Interval
  <2> QED BY <2>1, FS_Subset DEF PublishedAt, LogInv
<1>8. CASE kind = "published" /\ j = k
  <2>1. s \notin PublishedAt(j)
    BY <1>1, <1>3, <1>8 DEF PublishedAt
  <2>2. Cardinality(PublishedAt(j) \cup {s}) = head[j].latest + 1
    BY <1>7, <2>1, FS_AddElement
  <2> QED BY <1>6, <1>8, <2>2 DEF Emits
<1>9. CASE ~ (kind = "published" /\ j = k)
  BY <1>6, <1>7, <1>9 DEF Emits
<1> QED BY <1>8, <1>9

(* A step either leaves releases alone or emits exactly one event. *)
LEMMA StepsEmitOnce ==
  ASSUME TypeOK, [Next]_vars
  PROVE  \/ UNCHANGED releaseVars
         \/ \E k \in Keys, kind \in {"published", "unpublished"}, n \in Nat : Emits(k, kind, n)
<1>1. ASSUME NEW e \in Entries, PublishCommit(e)
      PROVE  \E k \in Keys : \E n \in Nat : Emits(k, "published", n)
  <2>1. txn[e] \in Txn
    BY <1>1 DEF PublishCommit, TypeOK
  <2>2. PICK k \in Keys : k = <<e, txn[e].locale>>
    BY <2>1 DEF Txn, Keys
  <2>3. head \in [Keys -> HeadRow] /\ head[k] \in HeadRow
    BY DEF TypeOK
  <2>4. PICK n \in Nat : n = NextPublication(k)
    BY <2>3 DEF HeadRow, NextPublication
  <2>5. head' = [head EXCEPT ![k] = [version |-> @.version + 1, latest |-> n, current |-> n]]
    BY <1>1, <2>2, <2>4 DEF PublishCommit
  <2>6. /\ outbox' = outbox \cup {NewEvent(k, "published", n)}
        /\ eventSequence' = [eventSequence EXCEPT ![k[1]] = NextEvent(k)]
    BY <1>1, <2>2, <2>4 DEF PublishCommit, NewEvent
  <2> QED BY <2>3, <2>4, <2>5, <2>6 DEF Emits, NextPublication
<1>2. ASSUME NEW k \in Keys, Unpublish(k)
      PROVE  \E n \in Nat : Emits(k, "unpublished", n)
  <2>1. head \in [Keys -> HeadRow] /\ head[k] \in HeadRow
    BY DEF TypeOK
  <2>2. PICK n \in Nat : n = head[k].current
    BY <2>1 DEF HeadRow
  <2>3. head' = [head EXCEPT ![k].version = @ + 1, ![k].current = 0]
    BY <1>2 DEF Unpublish
  <2>4. /\ head'[k].version = head[k].version + 1
        /\ head'[k].latest = head[k].latest
        /\ head'[k].current = 0
        /\ \A j \in Keys \ {k} : head'[j] = head[j]
    BY <2>1, <2>3 DEF HeadRow
  <2>5. /\ outbox' = outbox \cup {NewEvent(k, "unpublished", n)}
        /\ eventSequence' = [eventSequence EXCEPT ![k[1]] = NextEvent(k)]
        /\ n # 0
    BY <1>2, <2>2 DEF Unpublish, NewEvent
  <2> QED BY <2>2, <2>4, <2>5 DEF Emits
<1> QED BY <1>1, <1>2, MostStepsSpareReleases

-----------------------------------------------------------------------------
(***************************************************************************)
(* The outbox holds exactly one event for each sequence of an entry, and   *)
(* the heads are what these events say.  (publish, unpublish)              *)
(***************************************************************************)
THEOREM LogsCorrect == Spec => []LogInv
<1>1. InitStore => LogInv
  <2> SUFFICES ASSUME InitStore PROVE LogInv
    OBVIOUS
  <2>1. outbox = {} /\ IsFiniteSet({}) /\ Cardinality({}) = 0 /\ 1 .. 0 = {}
    BY FS_EmptySet DEF InitStore
  <2>2. \A e \in Entries : eventSequence[e] = 0
    BY DEF InitStore
  <2>3. \A k \in Keys : k[1] \in Entries /\ head[k].version = 0 /\ head[k].latest = 0
                        /\ head[k].current = 0
    BY DEF InitStore, Keys
  <2>4. \A k \in Keys : PublishedAt(k) = {}
    BY <2>1, <2>2, <2>3 DEF PublishedAt
  <2>5. \A k \in Keys : LocaleEvents(k) = {} /\ LiveAfter({}) = 0
    BY <2>1 DEF LocaleEvents, LiveAfter
  <2>6. \A e \in Entries : {v \in outbox : v.entry = e} = {} /\ {v.sequence : v \in {}} = {}
    BY <2>1
  <2>7. EventsMatchHeads
    BY <2>1, <2>2, <2>3, <2>5, <2>6 DEF EventsMatchHeads
  <2>8. EventsAreDistinct /\ EventsAreCounted
    BY <2>1, <2>2, <2>6 DEF EventsAreDistinct, EventsAreCounted, EventsOf
  <2> QED BY <2>1, <2>3, <2>4, <2>7, <2>8 DEF LogInv
<1>2. TypeOK /\ TypeOK' /\ LogInv /\ [Next]_vars => LogInv'
  <2> SUFFICES ASSUME TypeOK, TypeOK', LogInv, [Next]_vars PROVE LogInv'
    OBVIOUS
  <2>1. CASE UNCHANGED releaseVars
    BY <2>1 DEF releaseVars, LogInv, EventsAreDistinct, EventsAreCounted, EventsMatchHeads,
                EventsOf, LocaleEvents, PublishedAt, LogEvent
  <2>2. ASSUME NEW k \in Keys, NEW kind \in {"published", "unpublished"}, NEW n \in Nat,
               Emits(k, kind, n)
        PROVE  LogInv'
    BY <2>2, EmittingKeepsOrder, EmittingKeepsHeads, EmittingKeepsNumbers DEF LogInv
  <2> QED BY <2>1, <2>2, StepsEmitOnce
<1> QED BY <1>1, <1>2, TypeCorrect, PTL DEF Spec

(* The events of an entry lead a consumer to the state of its heads. *)
THEOREM EventsMatch == Spec => []EventsMatchHeads
<1>1. LogInv => EventsMatchHeads
  BY DEF LogInv
<1> QED BY <1>1, LogsCorrect, PTL

-----------------------------------------------------------------------------
(* Refinement *)

Entry(v) == [kind |-> v.kind, locale |-> v.locale, publication |-> v.publication]

Logged ==
  [e \in Entries |-> [i \in 1 .. eventSequence[e] |->
     [kind |-> LogEvent(e, i).kind, locale |-> LogEvent(e, i).locale,
      publication |-> LogEvent(e, i).publication]]]

LiveNow == [k \in Keys |-> head[k].current]

(* One more event in the outbox is one more at the end of the log. *)
LEMMA EmittingAppends ==
  ASSUME TypeOK, LogInv, NEW k \in Keys, NEW kind, NEW n, Emits(k, kind, n)
  PROVE  Logged' = [Logged EXCEPT ![k[1]] =
                      Append(@, [kind |-> kind, locale |-> k[2], publication |-> n])]
<1>s. PICK s : s = NextEvent(k)
  OBVIOUS
<1> DEFINE entry == [kind |-> kind, locale |-> k[2], publication |-> n]
<1>1. k[1] \in Entries /\ eventSequence[k[1]] \in Nat /\ s = eventSequence[k[1]] + 1
  BY <1>s, NewEventIsLast
<1>2. /\ \A e \in Entries : \A i \in 1 .. eventSequence[e] : LogEvent(e, i)' = LogEvent(e, i)
      /\ LogEvent(k[1], s)' = NewEvent(k, kind, n)
      /\ \A e \in Entries \ {k[1]} : eventSequence'[e] = eventSequence[e]
      /\ eventSequence'[k[1]] = s
  BY <1>s, EmittingExtendsLog
<1>3. ASSUME NEW e \in Entries \ {k[1]}
      PROVE  Logged'[e] = Logged[e]
  BY <1>2 DEF Logged
<1>4. Logged'[k[1]] = Append(Logged[k[1]], entry)
  <2>1. Logged[k[1]] = [i \in 1 .. eventSequence[k[1]] |-> Entry(LogEvent(k[1], i))]
    BY <1>1 DEF Logged, Entry
  <2>2. Logged'[k[1]] = [i \in 1 .. s |-> Entry(LogEvent(k[1], i)')]
    BY <1>1, <1>2 DEF Logged, Entry
  <2>3. Len(Logged[k[1]]) = eventSequence[k[1]]
    BY <1>1, <2>1
  <2>4. Append(Logged[k[1]], entry)
          = [i \in 1 .. s |-> IF i = s THEN entry ELSE Entry(LogEvent(k[1], i))]
    BY <1>1, <2>1, <2>3
  <2>5. Entry(LogEvent(k[1], s)') = entry
    BY <1>2 DEF Entry, NewEvent
  <2>6. \A i \in 1 .. s : i # s => i \in 1 .. eventSequence[k[1]]
    BY <1>1
  <2>7. \A i \in 1 .. s : Entry(LogEvent(k[1], i)')
                            = IF i = s THEN entry ELSE Entry(LogEvent(k[1], i))
    BY <1>2, <2>5, <2>6, <1>1
  <2> QED BY <2>2, <2>4, <2>7
<1>5. /\ Logged = [e \in Entries |-> Logged[e]]
      /\ Logged' = [e \in Entries |-> Logged'[e]]
  BY DEF Logged
<1> HIDE DEF entry
<1> QED BY <1>1, <1>3, <1>4, <1>5 DEF entry

(* The log's module counts as this one does. *)
LEMMA SameCardinality ==
  ASSUME NEW S
  PROVE  Log!Cardinality(S) = Cardinality(S)
BY Zenon DEF Log!Cardinality, Cardinality

LEMMA LoggedPublications ==
  ASSUME NEW k \in Keys
  PROVE  Log!Published(k) = PublishedAt(k)
<1>1. k[1] \in Entries
  BY DEF Keys
<1> QED BY <1>1 DEF Log!Published, PublishedAt

(* A step that emits an event is a step of the log. *)
LEMMA EmittingIsLogged ==
  ASSUME TypeOK, LogInv, NEW k \in Keys, NEW kind \in {"published", "unpublished"},
         NEW n \in Nat, Emits(k, kind, n)
  PROVE  Log!Next
<1>1. Log!Emit(k, kind, n)
  BY EmittingAppends DEF Log!Emit, Logged
<1>2. k \in Log!Keys
  BY DEF Keys, Log!Keys
<1>3. LiveNow' = [LiveNow EXCEPT ![k] = head'[k].current]
  BY DEF LiveNow, Emits
<1>4. CASE kind = "published"
  <2>1. n = Log!Cardinality(Log!Published(k)) + 1
    BY <1>4, LoggedPublications, SameCardinality DEF LogInv, Emits
  <2>2. LiveNow' = [LiveNow EXCEPT ![k] = n]
    BY <1>3, <1>4 DEF Emits
  <2>3. Log!Emit(k, "published", Log!Cardinality(Log!Published(k)) + 1)
    BY <1>1, <1>4, <2>1 DEF Log!Emit
  <2>4. Log!Publish(k)
    BY <2>1, <2>2, <2>3 DEF Log!Publish, LiveNow
  <2> QED BY <1>2, <2>4 DEF Log!Next
<1>5. CASE kind = "unpublished"
  <2>1. LiveNow[k] = n /\ n # 0 /\ LiveNow' = [LiveNow EXCEPT ![k] = 0]
    BY <1>3, <1>5 DEF Emits, LiveNow
  <2>2. Log!Emit(k, "unpublished", LiveNow[k])
    BY <1>1, <1>5, <2>1 DEF Log!Emit
  <2>3. Log!Unpublish(k)
    BY <2>1, <2>2 DEF Log!Unpublish, LiveNow
  <2> QED BY <1>2, <2>3 DEF Log!Next
<1> QED BY <1>4, <1>5

(***************************************************************************)
(* Each change of what is live in a locale is exactly one event at the end *)
(* of its entry's log, and publications are numbered without repetition.   *)
(***************************************************************************)
THEOREM LogRefinement == Spec => KeepsLog
<1>1. InitStore => Log!Init
  <2> SUFFICES ASSUME InitStore PROVE Log!Init
    OBVIOUS
  <2>1. \A e \in Entries : eventSequence[e] = 0
    BY DEF InitStore
  <2>2. LiveNow = [k \in Log!Keys |-> 0]
    BY DEF InitStore, LiveNow, Keys, Log!Keys
  <2>3. Logged = [e \in Entries |-> <<>>]
    BY <2>1 DEF Logged
  <2> QED BY <2>2, <2>3 DEF Log!Init, Logged, LiveNow
<1>2. TypeOK /\ LogInv /\ [Next]_vars => [Log!Next]_<<Logged, LiveNow>>
  <2> SUFFICES ASSUME TypeOK, LogInv, [Next]_vars PROVE [Log!Next]_<<Logged, LiveNow>>
    OBVIOUS
  <2>1. CASE UNCHANGED releaseVars
    BY <2>1 DEF releaseVars, Logged, LiveNow, LogEvent
  <2> QED BY <2>1, StepsEmitOnce, EmittingIsLogged
<1>3. Log!Init /\ [][Log!Next]_<<Logged, LiveNow>> <=> KeepsLog
  BY DEF KeepsLog, Log!Spec, Logged, LiveNow
<1> QED BY <1>1, <1>2, <1>3, TypeCorrect, LogsCorrect, PTL DEF Spec

-----------------------------------------------------------------------------
(***************************************************************************)
(* Live content follows the locales and the delivery configuration, and a  *)
(* listing goes through one state of it.                                   *)
(***************************************************************************)

(* A new publication has a number of its own. *)
NumbersAreBehind == \A p \in publications : p.sequence <= head[p.key].latest

(* The flags of the batch are those of the configuration. *)
BatchFollows == ~ overtaken /\ backfill # None => backfill.lookup = lookup

(***************************************************************************)
(* Neither property is inductive alone: the open transactions must hold    *)
(* the locale and the configuration (TransactionsHold), the open batch     *)
(* must have been planned under the flags in force, and the values of a    *)
(* new publication must not mix with those of an old one of its number.    *)
(***************************************************************************)
DeliveryInv ==
  /\ NumbersAreBehind
  /\ BatchFollows
  /\ LiveLocalesEnabled
  /\ ConfigurationIsFollowed

(* A publication makes exactly its own values live. *)
LEMMA CommitMakesLive ==
  ASSUME TypeOK, NumbersAreBehind, NEW e \in Entries, PublishCommit(e),
         NEW k \in Keys, k = <<e, txn[e].locale>>
  PROVE  /\ LiveValues(k)' = txn[e].values
         /\ \A j \in Keys \ {k} : LiveValues(j)' = LiveValues(j) /\ head'[j] = head[j]
         /\ NumbersAreBehind'
<1> DEFINE n == head[k].latest + 1
           p == [key |-> k, sequence |-> n, event |-> NextEvent(k),
                 authority |-> txn[e].authority, values |-> txn[e].values]
<1>1. head[k] \in HeadRow /\ n \in Nat /\ n # 0 /\ head[k].latest \in Nat
  BY DEF TypeOK, HeadRow
<1>2. publications' = publications \cup {p}
  BY DEF PublishCommit, NextPublication
<1>3. /\ head'[k].current = n /\ head'[k].latest = n
      /\ \A j \in Keys \ {k} : head'[j] = head[j]
  BY DEF PublishCommit, NextPublication, TypeOK
<1>4. p.key = k /\ p.sequence = n /\ p.values = txn[e].values
  OBVIOUS
<1>5. \A q \in publications : q.key \in Keys /\ q.sequence \in Nat /\ q.sequence <= head[q.key].latest
  BY DEF TypeOK, Publication, NumbersAreBehind
<1> HIDE DEF p, n
<1>6. LiveValues(k)' = txn[e].values
  <2>1. Live(k)' = {p}
    <3>1. \A q \in publications : ~ (q.key = k /\ q.sequence = n)
      BY <1>1, <1>5 DEF n
    <3> QED BY <1>2, <1>3, <1>4, <3>1 DEF Live
  <2>2. LiveValues(k)' = UNION {q.values : q \in {p}}
    BY <1>1, <1>3, <2>1 DEF LiveValues
  <2> QED BY <1>4, <2>2
<1>7. ASSUME NEW j \in Keys \ {k} PROVE LiveValues(j)' = LiveValues(j)
  <2>1. Live(j)' = Live(j)
    BY <1>2, <1>3, <1>4 DEF Live
  <2> QED BY <1>3, <2>1 DEF LiveValues
<1>8. NumbersAreBehind'
  BY <1>1, <1>2, <1>3, <1>4, <1>5 DEF NumbersAreBehind, n
<1> QED BY <1>3, <1>6, <1>7, <1>8

LEMMA CommitKeepsDelivery ==
  ASSUME TypeOK, TransactionsHold, DeliveryInv, NEW e \in Entries, PublishCommit(e)
  PROVE  DeliveryInv'
<1>1. txn[e] \in Txn /\ txn[e] # None
  BY DEF PublishCommit, TypeOK
<1>2. PICK k \in Keys : k = <<e, txn[e].locale>>
  BY <1>1 DEF Txn, Keys
<1>3. /\ LiveValues(k)' = txn[e].values
      /\ \A j \in Keys \ {k} : LiveValues(j)' = LiveValues(j) /\ head'[j] = head[j]
      /\ NumbersAreBehind'
  BY <1>2, CommitMakesLive DEF DeliveryInv
<1>4. Enabled(k[2]) /\ txn[e].claims = Guarded(txn[e].values)
  BY <1>1, <1>2 DEF TransactionsHold, Resolved
<1>5. UNCHANGED <<localeStatus, lookup, backfill, overtaken>>
  BY DEF PublishCommit, adminVars
<1>6. claims' = [claims EXCEPT ![k] = txn[e].claims] /\ claims \in [Keys -> SUBSET Claimable]
  BY <1>2 DEF PublishCommit, TypeOK
<1>7. LiveLocalesEnabled'
  BY <1>3, <1>4, <1>5 DEF DeliveryInv, LiveLocalesEnabled, Enabled
<1>8. ASSUME ~ overtaken', NEW j \in Keys PROVE claims'[j] = Guarded(LiveValues(j))'
  <2>1. CASE j = k
    BY <1>3, <1>4, <1>5, <1>6, <2>1 DEF Guarded
  <2>2. CASE j # k
    <3>1. claims[j] = Guarded(LiveValues(j))
      BY <1>5, <1>8 DEF DeliveryInv, ConfigurationIsFollowed
    <3> QED BY <1>3, <1>5, <1>6, <2>2, <3>1 DEF Guarded
  <2> QED BY <2>1, <2>2
<1>9. BatchFollows'
  BY <1>5 DEF DeliveryInv, BatchFollows
<1> QED BY <1>3, <1>7, <1>8, <1>9 DEF DeliveryInv, ConfigurationIsFollowed

LEMMA UnpublishKeepsDelivery ==
  ASSUME TypeOK, DeliveryInv, NEW k \in Keys, Unpublish(k)
  PROVE  DeliveryInv'
<1>1. /\ head'[k].current = 0 /\ head'[k].latest = head[k].latest
      /\ \A j \in Keys \ {k} : head'[j] = head[j]
  BY DEF Unpublish, TypeOK, HeadRow
<1>2. UNCHANGED <<publications, localeStatus, lookup, backfill, overtaken>>
  BY DEF Unpublish, adminVars
<1>3. claims' = [claims EXCEPT ![k] = {}] /\ claims \in [Keys -> SUBSET Claimable]
  BY DEF Unpublish, TypeOK
<1>4. LiveValues(k)' = {} /\ \A j \in Keys \ {k} : LiveValues(j)' = LiveValues(j)
  BY <1>1, <1>2 DEF LiveValues, Live
<1>5. NumbersAreBehind'
  <2>1. \A j \in Keys : head'[j].latest = head[j].latest
    BY <1>1
  <2> QED BY <1>2, <2>1 DEF DeliveryInv, NumbersAreBehind, TypeOK, Publication
<1>6. LiveLocalesEnabled'
  BY <1>1, <1>2 DEF DeliveryInv, LiveLocalesEnabled, Enabled
<1>7. ConfigurationIsFollowed'
  BY <1>2, <1>3, <1>4 DEF DeliveryInv, ConfigurationIsFollowed, Guarded
<1>8. BatchFollows'
  BY <1>2 DEF DeliveryInv, BatchFollows
<1> QED BY <1>5, <1>6, <1>7, <1>8 DEF DeliveryInv

LEMMA AdministeringKeepsDelivery ==
  ASSUME TypeOK, DeliveryInv, Administering
  PROVE  DeliveryInv'
<1>1. UNCHANGED <<head, publications, backfill>>
  BY DEF Administering, PublishSchema, UpdateConfiguration, UpdateStatus, releaseVars, adminVars
<1>2. NumbersAreBehind' /\ \A k \in Keys : LiveValues(k)' = LiveValues(k)
  BY <1>1 DEF DeliveryInv, NumbersAreBehind, LiveValues, Live
<1>3. ASSUME NEW b \in BOOLEAN, PublishSchema(b) PROVE DeliveryInv'
  BY <1>1, <1>2, <1>3 DEF PublishSchema, adminVars, DeliveryInv, BatchFollows, LiveLocalesEnabled,
                          Enabled, ConfigurationIsFollowed, Guarded
<1>4. ASSUME NEW b \in BOOLEAN, UpdateConfiguration(b) PROVE DeliveryInv'
  <2>1. /\ \A k \in Keys : claims'[k] = IF b THEN LiveValues(k) ELSE {}
        /\ lookup' = b /\ overtaken' = (overtaken \/ backfill # None)
        /\ UNCHANGED localeStatus
    BY <1>4 DEF UpdateConfiguration
  <2>2. ConfigurationIsFollowed'
    BY <1>2, <2>1 DEF ConfigurationIsFollowed, Guarded
  <2>3. LiveLocalesEnabled' /\ BatchFollows'
    BY <1>1, <2>1 DEF DeliveryInv, LiveLocalesEnabled, Enabled, BatchFollows
  <2> QED BY <1>2, <2>2, <2>3 DEF DeliveryInv
<1>5. ASSUME NEW l \in Locales, NEW status \in Statuses, UpdateStatus(l, status)
      PROVE  DeliveryInv'
  <2>1. /\ localeStatus' = [localeStatus EXCEPT ![l] = status]
        /\ status # "enabled" => \A e \in Entries : head[<<e, l>>].current = 0
        /\ UNCHANGED <<claims, lookup, overtaken>>
    BY <1>5 DEF UpdateStatus, TransitionAllowed
  <2>2. LiveLocalesEnabled'
    <3> SUFFICES ASSUME NEW k \in Keys, head[k].current # 0 PROVE localeStatus'[k[2]] = "enabled"
      BY <1>1 DEF LiveLocalesEnabled, Enabled
    <3>1. k = <<k[1], k[2]>> /\ k[1] \in Entries /\ k[2] \in Locales
      BY DEF Keys
    <3>2. localeStatus[k[2]] = "enabled"
      BY DEF DeliveryInv, LiveLocalesEnabled, Enabled
    <3> QED BY <2>1, <3>1, <3>2 DEF TypeOK
  <2>3. ConfigurationIsFollowed' /\ BatchFollows'
    BY <1>1, <1>2, <2>1 DEF DeliveryInv, ConfigurationIsFollowed, Guarded, BatchFollows
  <2> QED BY <1>2, <2>2, <2>3 DEF DeliveryInv
<1> QED BY <1>3, <1>4, <1>5 DEF Administering

LEMMA BackfillingKeepsDelivery ==
  ASSUME TypeOK, DeliveryInv, Backfilling
  PROVE  DeliveryInv'
<1>1. UNCHANGED <<head, publications, localeStatus, lookup, overtaken>>
  BY DEF Backfilling, PlanBatch, LockHead, ApplyBatch, BatchFails, releaseVars
<1>2. /\ NumbersAreBehind' /\ LiveLocalesEnabled'
      /\ \A k \in Keys : LiveValues(k)' = LiveValues(k)
  BY <1>1 DEF DeliveryInv, NumbersAreBehind, LiveLocalesEnabled, Enabled, LiveValues, Live
<1>3. BatchFollows'
  <2>1. ASSUME NEW batch \in SUBSET Keys, PlanBatch(batch) PROVE BatchFollows'
    BY <1>1, <2>1 DEF PlanBatch, BatchFollows
  <2>2. ASSUME NEW k \in Keys, LockHead(k) PROVE BatchFollows'
    <3>1. backfill \in Batch /\ backfill # None
      BY <2>2 DEF LockHead, TypeOK
    <3>2. backfill'.lookup = backfill.lookup
      BY <2>2, <3>1 DEF LockHead, Batch
    <3> QED BY <1>1, <3>1, <3>2 DEF DeliveryInv, BatchFollows
  <2>3. CASE ApplyBatch \/ BatchFails
    BY <2>3 DEF ApplyBatch, BatchFails, BatchFollows
  <2> QED BY <2>1, <2>2, <2>3 DEF Backfilling
<1>4. ConfigurationIsFollowed'
  <2>1. CASE ApplyBatch
    <3> SUFFICES ASSUME ~ overtaken, NEW k \in Keys PROVE claims'[k] = Guarded(LiveValues(k))
      BY <1>1, <1>2 DEF ConfigurationIsFollowed, Guarded
    <3>1. claims[k] = Guarded(LiveValues(k)) /\ backfill.lookup = lookup
      BY <2>1 DEF ApplyBatch, DeliveryInv, ConfigurationIsFollowed, BatchFollows
    <3> QED BY <2>1, <3>1 DEF ApplyBatch, Rebuilt, Guarded
  <2>2. CASE ~ ApplyBatch
    <3>1. UNCHANGED claims
      BY <2>2 DEF Backfilling, PlanBatch, LockHead, BatchFails
    <3> QED BY <1>1, <1>2, <3>1 DEF DeliveryInv, ConfigurationIsFollowed, Guarded
  <2> QED BY <2>1, <2>2
<1> QED BY <1>2, <1>3, <1>4 DEF DeliveryInv

(* The other actions leave live content and its administration alone. *)
LEMMA OthersSpareDelivery ==
  ASSUME [Next]_vars, ~ Administering, ~ Backfilling,
         ~ \E e \in Entries : PublishCommit(e), ~ \E k \in Keys : Unpublish(k)
  PROVE  UNCHANGED <<head, publications, claims, adminVars>>
<1>1. CASE UNCHANGED vars
  BY <1>1 DEF vars, releaseVars
<1>2. CASE Drafting
  BY <1>2 DEF Drafting, CreateEntry, SaveDraft, RestoreShared, RestoreLocalized, Draft, releaseVars
<1>3. CASE Publishing
  BY <1>3 DEF Publishing, PublishResolve, LockClaim, PublishClaim, PublishRefused,
              DeadlockVictim, PublishLost, Rollback, ReviewPlan, releaseVars
<1>4. CASE Reading
  BY <1>4 DEF Reading, ListFirstPage, ListNextPage, EndListing, releaseVars
<1> QED BY <1>1, <1>2, <1>3, <1>4 DEF Next

(***************************************************************************)
(* What is live is live in an enabled locale and guarded as the delivery   *)
(* configuration says.  (updateStatus, updateConfiguration, applyBatch)    *)
(***************************************************************************)
THEOREM DeliveryCorrect == Spec => []DeliveryInv
<1>1. InitStore => DeliveryInv
  BY DEF InitStore, DeliveryInv, NumbersAreBehind, BatchFollows, LiveLocalesEnabled,
         ConfigurationIsFollowed, Guarded, LiveValues
<1>2. TypeOK /\ TransactionsHold /\ DeliveryInv /\ [Next]_vars => DeliveryInv'
  <2> SUFFICES ASSUME TypeOK, TransactionsHold, DeliveryInv, [Next]_vars PROVE DeliveryInv'
    OBVIOUS
  <2>1. CASE UNCHANGED <<head, publications, claims, adminVars>>
    BY <2>1 DEF adminVars, DeliveryInv, NumbersAreBehind, BatchFollows, LiveLocalesEnabled,
                Enabled, ConfigurationIsFollowed, Guarded, LiveValues, Live
  <2> QED BY <2>1, CommitKeepsDelivery, UnpublishKeepsDelivery, AdministeringKeepsDelivery,
             BackfillingKeepsDelivery, OthersSpareDelivery
<1>3. PublicationInv => TypeOK /\ TransactionsHold
  BY DEF PublicationInv
<1> QED BY <1>1, <1>2, <1>3, PublicationsCorrect, PTL DEF Spec

(* What is live is live in an enabled locale. *)
THEOREM LiveInEnabledLocales == Spec => []LiveLocalesEnabled
<1>1. DeliveryInv => LiveLocalesEnabled
  BY DEF DeliveryInv
<1> QED BY <1>1, DeliveryCorrect, PTL

(* The index guards the live values if, and only if, lookup is configured. *)
THEOREM ConfigurationFollowed == Spec => []ConfigurationIsFollowed
<1>1. DeliveryInv => ConfigurationIsFollowed
  BY DEF DeliveryInv
<1> QED BY <1>1, DeliveryCorrect, PTL

-----------------------------------------------------------------------------
(* Listings *)

(***************************************************************************)
(* The pages alone do not say that the next one will be like them: while   *)
(* the generation in the cursor is the one of the locale, they are what a  *)
(* page would show now; and the generation never comes back.               *)
(***************************************************************************)
CursorInv ==
  reader # None =>
    /\ reader.generation <= generation[reader.locale]
    /\ \E v \in View : /\ reader.pages = {v}
                       /\ reader.generation = generation[reader.locale]
                            => v = Listing(reader.locale)

LEMMA ListingIsView ==
  ASSUME TypeOK, NEW l \in Locales
  PROVE  Listing(l) \in View
<1> SUFFICES ASSUME NEW e \in Entries PROVE head[<<e, l>>].current \in Nat
  BY DEF Listing, View
<1> QED BY DEF TypeOK, Keys, HeadRow

(* What is live in a locale changes only with its generation. *)
LEMMA GenerationsTell ==
  ASSUME TypeOK, [Next]_vars, NEW l \in Locales
  PROVE  /\ generation'[l] >= generation[l]
         /\ generation'[l] = generation[l] => Listing(l)' = Listing(l)
<1>0. generation[l] \in Nat /\ generation \in [Locales -> Nat]
  BY DEF TypeOK
<1>1. ASSUME NEW k \in Keys, \A j \in Keys \ {k} : head'[j] = head[j],
             generation' = [generation EXCEPT ![k[2]] = @ + 1]
      PROVE  /\ generation'[l] >= generation[l]
             /\ generation'[l] = generation[l] => Listing(l)' = Listing(l)
  <2>1. CASE k[2] = l
    BY <1>0, <1>1, <2>1
  <2>2. CASE k[2] # l
    <3>1. \A e \in Entries : <<e, l>> \in Keys \ {k}
      BY <2>2 DEF Keys
    <3>2. Listing(l)' = Listing(l)
      BY <1>1, <3>1 DEF Listing
    <3> QED BY <1>0, <1>1, <2>2, <3>2
  <2> QED BY <2>1, <2>2
<1>2. ASSUME NEW e \in Entries, PublishCommit(e)
      PROVE  \E k \in Keys : /\ \A j \in Keys \ {k} : head'[j] = head[j]
                             /\ generation' = [generation EXCEPT ![k[2]] = @ + 1]
  <2>1. txn[e] \in Txn
    BY <1>2 DEF PublishCommit, TypeOK
  <2>2. PICK k \in Keys : k = <<e, txn[e].locale>>
    BY <2>1 DEF Txn, Keys
  <2> QED BY <1>2, <2>2 DEF PublishCommit, NextGeneration, TypeOK
<1>3. ASSUME NEW k \in Keys, Unpublish(k)
      PROVE  /\ \A j \in Keys \ {k} : head'[j] = head[j]
             /\ generation' = [generation EXCEPT ![k[2]] = @ + 1]
  BY <1>3 DEF Unpublish, NextGeneration, TypeOK
<1>4. CASE UNCHANGED releaseVars
  BY <1>0, <1>4 DEF releaseVars, Listing
<1> QED BY <1>1, <1>2, <1>3, <1>4, MostStepsSpareReleases

(* Only the reader itself changes its pages. *)
LEMMA OthersSpareReader ==
  ASSUME [Next]_vars, ~ Reading
  PROVE  UNCHANGED reader
<1>1. CASE UNCHANGED vars
  BY <1>1 DEF vars, clientVars
<1>2. CASE Drafting
  BY <1>2 DEF Drafting, CreateEntry, SaveDraft, RestoreShared, RestoreLocalized, Draft, clientVars
<1>3. CASE Administering
  BY <1>3 DEF Administering, PublishSchema, UpdateConfiguration, UpdateStatus, clientVars
<1>4. CASE Publishing
  BY <1>4 DEF Publishing, PublishResolve, LockClaim, PublishClaim, PublishCommit,
              PublishRefused, DeadlockVictim, PublishLost, Rollback, ReviewPlan, Unpublish, clientVars
<1>5. CASE Backfilling
  BY <1>5 DEF Backfilling, PlanBatch, LockHead, ApplyBatch, BatchFails, clientVars
<1> QED BY <1>1, <1>2, <1>3, <1>4, <1>5 DEF Next

LEMMA CursorsKeepHolding ==
  ASSUME TypeOK, TypeOK', CursorInv, [Next]_vars
  PROVE  CursorInv'
<1>1. CASE UNCHANGED reader
  <2> SUFFICES ASSUME reader # None PROVE CursorInv'
    BY <1>1 DEF CursorInv
  <2>1. reader \in Reader
    BY DEF TypeOK
  <2>2. reader.locale \in Locales /\ reader.generation \in Nat
    BY <2>1 DEF Reader
  <2>3. generation[reader.locale] \in Nat /\ reader.generation <= generation[reader.locale]
    BY <2>2 DEF TypeOK, CursorInv
  <2>4. PICK v \in View : /\ reader.pages = {v}
                          /\ reader.generation = generation[reader.locale]
                               => v = Listing(reader.locale)
    BY DEF CursorInv
  <2>5. /\ generation'[reader.locale] >= generation[reader.locale]
        /\ generation'[reader.locale] = generation[reader.locale]
             => Listing(reader.locale)' = Listing(reader.locale)
    <3>1. PICK l \in Locales : l = reader.locale
      BY <2>2
    <3>2. /\ generation'[l] >= generation[l]
          /\ generation'[l] = generation[l] => Listing(l)' = Listing(l)
      BY GenerationsTell
    <3>3. Listing(reader.locale)' = Listing(l)'
      BY <1>1, <3>1
    <3> QED BY <3>1, <3>2, <3>3
  <2>6. generation'[reader.locale] \in Nat
    BY <2>2 DEF TypeOK
  <2>7. /\ reader.generation <= generation'[reader.locale]
        /\ reader.generation = generation'[reader.locale]
             => generation'[reader.locale] = generation[reader.locale]
    BY <2>2, <2>3, <2>5, <2>6
  <2>8. reader'.generation = generation'[reader'.locale] => v = Listing(reader.locale)'
    BY <1>1, <2>4, <2>5, <2>7
  <2>9. \E w \in View : /\ reader'.pages = {w}
                        /\ reader'.generation = generation'[reader'.locale]
                             => w = Listing(reader.locale)'
    BY <1>1, <2>4, <2>8
  <2>10. reader'.generation <= generation'[reader'.locale]
    BY <1>1, <2>7
  <2> QED BY <2>9, <2>10 DEF CursorInv, View
<1>2. ASSUME NEW l \in Locales, ListFirstPage(l) PROVE CursorInv'
  <2>1. /\ reader' = [locale |-> l, generation |-> generation[l], schema |-> schema.revision,
                      config |-> configVersion, pages |-> {Listing(l)}]
        /\ UNCHANGED <<head, generation>>
    BY <1>2 DEF ListFirstPage, releaseVars
  <2>2. Listing(l) \in View /\ generation[l] \in Nat /\ Listing(l)' = Listing(l)
    BY <2>1, ListingIsView DEF TypeOK, Listing
  <2>3. Listing(reader.locale)' = Listing(l)'
    BY <2>1
  <2> QED BY <2>1, <2>2, <2>3 DEF CursorInv
<1>3. CASE ListNextPage
  <2>1. reader \in Reader /\ reader # None
    BY <1>3 DEF ListNextPage, TypeOK
  <2>2. PICK v \in View : reader.pages = {v} /\ v = Listing(reader.locale)
    BY <1>3, <2>1 DEF ListNextPage, CursorIsCurrent, CursorInv
  <2>3. reader' = reader /\ UNCHANGED <<head, generation>>
    <3>1. reader' = [reader EXCEPT !.pages = {v} \cup {v}]
      BY <1>3, <2>2 DEF ListNextPage
    <3>2. reader' = reader
      BY <2>1, <2>2, <3>1 DEF Reader
    <3> QED BY <1>3, <3>2 DEF ListNextPage, releaseVars
  <2> QED BY <2>3 DEF CursorInv, Listing
<1>4. CASE EndListing
  BY <1>4 DEF EndListing, CursorInv
<1> QED BY <1>1, <1>2, <1>3, <1>4, OthersSpareReader DEF Reading

(***************************************************************************)
(* A reader that follows one chain of cursors never skips an entry or sees *)
(* one twice.  (the generation in the cursor, incrementDeliveryGeneration) *)
(***************************************************************************)
THEOREM TraversalsAreConsistent == Spec => []TraversalIsConsistent
<1>1. InitStore => CursorInv
  BY DEF InitStore, CursorInv
<1>2. TypeOK /\ TypeOK' /\ CursorInv /\ [Next]_vars => CursorInv'
  BY CursorsKeepHolding
<1>3. CursorInv => TraversalIsConsistent
  BY FS_Singleton DEF CursorInv, TraversalIsConsistent
<1> QED BY <1>1, <1>2, <1>3, TypeCorrect, PTL DEF Spec
=============================================================================
