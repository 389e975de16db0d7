---------------------------- MODULE ContentStore ----------------------------
(***************************************************************************)
(* The tables of drafts, publications and delivery that the entry, schema, *)
(* publication and delivery repositories share: one collection of one      *)
(* environment.  ContentDrafts, ContentPublication, ContentAdministration  *)
(* and ContentDelivery hold the transactions, ContentLifecycle composes    *)
(* them.                                                                   *)
(*                                                                         *)
(* What a draft says is a member of Contents; the properties tell apart    *)
(* only which entries it refers to and which unique values it claims.      *)
(***************************************************************************)
EXTENDS Naturals, Sequences, FiniteSets

CONSTANTS
  Entries,   (* entry ids                                                  *)
  Locales,   (* locales of the project, enabled at first                   *)
  English,   (* the one that stays enabled                                 *)
  UniqueAtFirst,     (* whether unique lookup is configured at first       *)
  SharedContents,    (* what shared partitions can be saved with           *)
  LocalizedContents, (* what localized partitions can be saved with        *)
  RefsOf,    (* the entries each content refers to                         *)
  ClaimsOf,  (* the values of unique-lookup fields in each content         *)
  DigestOf,  (* the rank of each value's digest, which orders their locks  *)
  Limits,    (* bounds of the instance, any of some: edits, releases,      *)
             (* reviews, changes of schema, configuration or locale,        *)
             (* batches of a backfill, listings, and lost transactions      *)
  None       (* SQL null: no content, no open transaction                  *)

Contents == SharedContents \cup LocalizedContents

Kinds == {"edit", "release", "review", "admin", "batch", "listing", "loss"}

ASSUME ContentConstants ==
  /\ RefsOf \in [Contents -> SUBSET Entries]
  /\ DOMAIN ClaimsOf = Contents
  /\ Limits \subseteq [Kinds -> Nat]
  /\ None \notin Contents
  /\ English \in Locales
  /\ UniqueAtFirst \in BOOLEAN

VARIABLES
  schema,        (* published schema revision and its contract             *)
  exists,        (* cms_entry rows                                         *)
  shared,        (* shared revisions of each entry; the last one is the head *)
  localized,     (* revisions of each exact locale; the last one is the head *)
  plans,         (* publication plans clients have reviewed                *)
  head,          (* cms_entry_locale_publication_head                      *)
  publications,  (* cms_entry_locale_publication with its snapshot         *)
  eventSequence, (* cms_entry.publication_event_sequence                   *)
  outbox,        (* outbox_event rows of entries                           *)
  claims,        (* projected values that the unique index guards          *)
  generation,    (* collection-locale delivery generation                  *)
  txn,           (* the open publish transaction holding each entry's lock *)
  localeStatus,  (* project_locale.status                                  *)
  lookup,        (* unique lookup in the collection's delivery configuration *)
  configVersion, (* version of that configuration                          *)
  backfill,      (* the batch of projections an operator is rebuilding     *)
  overtaken,     (* whether the configuration changed during a backfill    *)
  reader,        (* a client listing the collection page by page           *)
  budget         (* what is left of the bounds                             *)

draftVars   == <<exists, shared, localized>>
releaseVars == <<head, publications, eventSequence, outbox, generation>>
clientVars  == <<plans, reader>>
adminVars   == <<localeStatus, lookup, configVersion, backfill, overtaken>>

Keys == Entries \X Locales

(* A revision keeps the schema revision and contract it was written under. *)
Schema   == [revision: Nat, contract: Nat]
Revision == [content: Contents, contract: Nat]

Pin       == [entry: Entries, publication: Nat]
Authority == [schema: Nat, shared: Nat, localized: Nat, pins: SUBSET Pin]
Plan      == [key: Keys, version: Nat, current: Nat, authority: Authority]

HeadRow     == [version: Nat, latest: Nat, current: Nat]
Claimable == UNION {ClaimsOf[c] : c \in Contents}

ASSUME DigestsDiffer ==
  /\ \A c \in Claimable : DigestOf[c] \in Nat
  /\ \A c, d \in Claimable : DigestOf[c] = DigestOf[d] => c = d

(* The snapshot of a publication keeps the values its draft had. *)
Publication == [key: Keys, sequence: Nat, event: Nat, authority: Authority,
                values: SUBSET Claimable]
Event       == [entry: Entries, sequence: Nat, kind: {"published", "unpublished"},
                locale: Locales, publication: Nat]

(* The values a publish transaction will write and guard, and those of the *)
(* latter that it holds the advisory lock of.                              *)
Txn    == [phase: {"resolved", "claimed"}, locale: Locales, authority: Authority,
           values: SUBSET Claimable, claims: SUBSET Claimable, locked: SUBSET Claimable]
View   == [Entries -> Nat]
Reader == [locale: Locales, generation: Nat, schema: Nat, config: Nat, pages: SUBSET View]

Statuses == {"enabled", "disabled", "removed"}

(* The publication each head of the batch had, and the heads locked so far. *)
Batch == [plan: [Keys -> Nat], lookup: BOOLEAN, held: SUBSET Keys]

TypeOK ==
  /\ schema \in Schema
  /\ exists \subseteq Entries
  /\ shared \in [Entries -> Seq(Revision)]
  /\ localized \in [Keys -> Seq(Revision)]
  /\ plans \subseteq Plan
  /\ head \in [Keys -> HeadRow]
  /\ publications \subseteq Publication
  /\ eventSequence \in [Entries -> Nat]
  /\ outbox \subseteq Event
  /\ claims \in [Keys -> SUBSET Claimable]
  /\ generation \in [Locales -> Nat]
  /\ txn \in [Entries -> Txn \cup {None}]
  /\ localeStatus \in [Locales -> Statuses]
  /\ lookup \in BOOLEAN
  /\ configVersion \in Nat
  /\ backfill \in Batch \cup {None}
  /\ overtaken \in BOOLEAN
  /\ reader \in Reader \cup {None}
  /\ budget \in [Kinds -> Nat]

(* A collection with a published schema and no entry. *)
InitStore ==
  /\ schema = [revision |-> 1, contract |-> 1]
  /\ exists = {}
  /\ shared = [e \in Entries |-> <<>>]
  /\ localized = [k \in Keys |-> <<>>]
  /\ plans = {}
  /\ head = [k \in Keys |-> [version |-> 0, latest |-> 0, current |-> 0]]
  /\ publications = {}
  /\ eventSequence = [e \in Entries |-> 0]
  /\ outbox = {}
  /\ claims = [k \in Keys |-> {}]
  /\ generation = [l \in Locales |-> 0]
  /\ txn = [e \in Entries |-> None]
  /\ localeStatus = [l \in Locales |-> "enabled"]
  /\ lookup = UniqueAtFirst
  /\ configVersion = 0
  /\ backfill = None
  /\ overtaken = FALSE
  /\ reader = None
  /\ budget \in Limits

(* The entry row is locked by its open publish transaction.  Every other   *)
(* command on the entry locks the same row first, so it waits.             *)
Unlocked(e) == e \in exists /\ txn[e] = None

(* Project and collection are locked shared by every open publish transaction. *)
CollectionFree == \A e \in Entries : txn[e] = None
ProjectFree    == CollectionFree

(* authorizeScope: content is read and written in enabled locales only.    *)
Enabled(l) == localeStatus[l] = "enabled"

(* The publication head is locked by the backfill; publish and unpublish   *)
(* lock it too.                                                            *)
Backfilled(k) == backfill # None /\ k \in backfill.held

(* What the revision of a version says; version 0 is the empty draft.      *)
ContentAt(revisions, n) == IF n = 0 THEN None ELSE revisions[n].content

Current(revisions) == ContentAt(revisions, Len(revisions))

(* What the two partitions of an entry's draft in a locale say together.   *)
DraftOf(k)     == {Current(shared[k[1]]), Current(localized[k])} \ {None}
DraftRefs(k)   == UNION {RefsOf[c] : c \in DraftOf(k)}
DraftClaims(k) == UNION {ClaimsOf[c] : c \in DraftOf(k)}

(* A change the instance bounds; a command without effect costs nothing.   *)
Spend(kind) ==
  /\ budget[kind] > 0
  /\ budget' = [budget EXCEPT ![kind] = @ - 1]
=============================================================================
