--------------------------- MODULE ContentDrafts ---------------------------
(***************************************************************************)
(* Draft commands and schema publication.  A draft command locks the       *)
(* project and the collection shared and then the entry row; what it reads *)
(* afterwards nobody else can change, so that each is one step.  A command *)
(* that is refused changes nothing; the receipt of one that succeeds is    *)
(* left out: it only answers the same command when it is sent again.       *)
(***************************************************************************)
EXTENDS ContentStore

(* A partition that a command changes gets the next revision. *)
Written(revisions, content) ==
  IF content \in {None, Current(revisions)}
  THEN revisions
  ELSE Append(revisions, [content |-> content, contract |-> schema.contract])

(* createEntryWithDraft: None stands for a partition without mutations. *)
CreateEntry(e, l, s, x) ==
  /\ e \notin exists
  /\ Enabled(l)
  /\ Spend("edit")
  /\ exists' = exists \cup {e}
  /\ shared' = [shared EXCEPT ![e] = Written(@, s)]
  /\ localized' = [localized EXCEPT ![<<e, l>>] = Written(@, x)]
  /\ UNCHANGED <<schema, clientVars, releaseVars, claims, txn, adminVars>>

(* Mutant: a save does not wait for the lock on the entry. *)
AnyEntry(e) == e \in exists

(* The commit of a draft command that leaves the partitions like this. *)
Draft(newShared, newLocalized) ==
  /\ IF <<newShared, newLocalized>> = <<shared, localized>>
     THEN UNCHANGED budget ELSE Spend("edit")
  /\ shared' = newShared
  /\ localized' = newLocalized
  /\ UNCHANGED <<schema, exists, clientVars, releaseVars, claims, txn, adminVars>>

Savable(e) == Unlocked(e)

(***************************************************************************)
(* saveDraft with the versions its client expects, which must be current   *)
(* in every partition it has mutations for.                                *)
(***************************************************************************)
SaveDraft(e, l, s, x) ==
  /\ Savable(e)
  /\ Enabled(l)
  /\ Draft([shared EXCEPT ![e] = Written(@, s)],
           [localized EXCEPT ![<<e, l>>] = Written(@, x)])

(***************************************************************************)
(* restoreRevision of a revision written under the current contract.  The  *)
(* command names a locale too; for a shared revision any enabled one will  *)
(* do, and English always is.                                              *)
(***************************************************************************)
Restored(revisions, n) ==
  IF revisions[n].content = Current(revisions) THEN revisions ELSE Append(revisions, revisions[n])

RestoreShared(e, n) ==
  /\ Unlocked(e)
  /\ n \in DOMAIN shared[e]
  /\ shared[e][n].contract = schema.contract
  /\ Draft([shared EXCEPT ![e] = Restored(@, n)], localized)

RestoreLocalized(k, n) ==
  /\ Unlocked(k[1])
  /\ Enabled(k[2])
  /\ n \in DOMAIN localized[k]
  /\ localized[k][n].contract = schema.contract
  /\ Draft(shared, [localized EXCEPT ![k] = Restored(@, n)])

(* Mutant: the publication of a presentation does not lock the project. *)
AppliesOnly(contractChanges) == contractChanges => CollectionFree

(* The apply of a document locks the project and its collections for       *)
(* update, the publication of a presentation, which leaves the contract as *)
(* it is, the project alone.                                               *)
SchemaLockable(contractChanges) == ProjectFree /\ (contractChanges => CollectionFree)

(* A new revision, of a document or of a presentation. *)
PublishSchema(contractChanges) ==
  /\ SchemaLockable(contractChanges)
  /\ Spend("admin")
  /\ schema' = [revision |-> schema.revision + 1,
                contract |-> IF contractChanges THEN schema.contract + 1 ELSE schema.contract]
  /\ UNCHANGED <<draftVars, clientVars, releaseVars, claims, txn, adminVars>>
=============================================================================
