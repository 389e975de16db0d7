--------------------------- MODULE SchemaAuthoring ---------------------------
(***************************************************************************)
(* The operations that change an environment's schema: apply of a complete *)
(* code document, publication of a presentation, and the configuration of  *)
(* Delivery over the published fields.                                     *)
(***************************************************************************)
EXTENDS SchemaAuthority

(* The row lock of a collection, which a configuration takes after it has  *)
(* read the version, and an apply takes of every collection.               *)
CollectionFree(c) ==
  \A q \in Configurers : configuring[q].step = "checked" => configuring[q].collection # c

CurrentFields == [c \in Collections |-> PublishedFields(c)]

-----------------------------------------------------------------------------
(* Apply *)

(* Mutant: the plan and the authority it was made over are not compared.  *)
AcceptsAnyAuthority(body) ==
  /\ Reconciles(body.document, Materialized, identity)
  /\ body.acknowledged = Risky(body.document, CurrentFields)

Accepts(body) ==
  /\ body.current = Authority
  /\ Reconciles(body.document, Materialized, identity)
  /\ body.planHash = PlanHash(body.document, Authority)
  /\ body.acknowledged = Risky(body.document, CurrentFields)

(* A collection is published when it is new or its hash changes; its       *)
(* presentation is the one that was current.                               *)
Changed(document) ==
  {c \in Declared(document) : c \notin Materialized \/ document[c] # PublishedFields(c)}

(* Mutant: the rows of dropped fields stay active.                        *)
ReconciledOnlyNew(document, c) ==
  [f \in Fields |-> IF f \in document[c] THEN "active" ELSE identity[c][f]]

Reconciled(document, c) ==
  [f \in Fields |->
     CASE f \in document[c] -> "active"
       [] f \in Active(c) \ document[c] -> "retired"
       [] OTHER -> identity[c][f]]

NextRevision(document, c) ==
  [fields |-> document[c],
   presentation |-> IF c \in Materialized THEN Published(c).presentation ELSE DefaultPresentation]

ApplySchema(command) ==
  LET body == command.body
      changed == Changed(body.document) IN
  /\ ProjectFree /\ \A c \in Collections : CollectionFree(c)
  /\ receipts[command.id] = None
  /\ Accepts(body)
  /\ \A c \in changed : Sequence(c) < MaxRevisions
  /\ revisions' = [c \in Collections |->
       IF c \in changed THEN Append(revisions[c], NextRevision(body.document, c)) ELSE revisions[c]]
  /\ identity' = [c \in Collections |->
       IF c \in changed THEN Reconciled(body.document, c) ELSE identity[c]]
  /\ receipts' = [receipts EXCEPT ![command.id] = body]
  /\ UNCHANGED <<delivery, configuring>>

-----------------------------------------------------------------------------
(* Publication of a presentation *)

(* The active fields are rewritten with the new presentation; if they are  *)
(* not the published ones the transaction fails.                           *)
PublishPresentation(command) ==
  LET body == command.body
      c == body.collection IN
  /\ ProjectFree
  /\ receipts[command.id] = None
  /\ c \in Materialized /\ body.expected = Sequence(c)
  /\ body.presentation # Published(c).presentation
  /\ Active(c) = PublishedFields(c)
  /\ Sequence(c) < MaxRevisions
  /\ revisions' = [revisions EXCEPT ![c] =
       Append(@, [fields |-> PublishedFields(c), presentation |-> body.presentation])]
  /\ receipts' = [receipts EXCEPT ![command.id] = body]
  /\ UNCHANGED <<identity, delivery, configuring>>

-----------------------------------------------------------------------------
(* Answers that change nothing: the recorded result of the command, a      *)
(* refusal (an id used for something else, a stale authority, an invalid   *)
(* or unacknowledged plan), a presentation that is already current, or a   *)
(* transaction that failed and was rolled back.                            *)
AnswerOnly == UNCHANGED authorityVars

-----------------------------------------------------------------------------
(* Delivery configuration: the scope and its version are read under the    *)
(* shared project lock, the collection is then locked and the requested    *)
(* fields are checked before the rows are replaced.                        *)
BeginConfigure(q, c, fields) ==
  /\ configuring[q].step = "idle"
  /\ configuring' = [configuring EXCEPT ![q] =
       [step |-> "read", collection |-> c, fields |-> fields, version |-> delivery[c].version]]
  /\ UNCHANGED <<revisions, identity, receipts, delivery>>

(* Mutant: the fields of every revision of the collection are loaded.      *)
EverPublished(c) == UNION {revisions[c][i].fields : i \in 1..Sequence(c)}

(* loadCurrentFields: what may be configured are the fields of the head.   *)
Configurable(c) == PublishedFields(c)

CheckCapabilities(q) ==
  LET t == configuring[q] IN
  /\ t.step = "read" /\ CollectionFree(t.collection)
  /\ t.collection \in Materialized
  /\ t.fields \subseteq Configurable(t.collection)
  /\ configuring' = [configuring EXCEPT ![q].step = "checked"]
  /\ UNCHANGED <<revisions, identity, receipts, delivery>>

Configure(q) ==
  LET t == configuring[q] IN
  /\ t.step = "checked"
  /\ t.version = delivery[t.collection].version
  /\ t.fields # delivery[t.collection].fields
  /\ t.version < MaxVersion
  /\ delivery' = [delivery EXCEPT ![t.collection] = [version |-> t.version + 1, fields |-> t.fields]]
  /\ configuring' = [configuring EXCEPT ![q] = [step |-> "idle"]]
  /\ UNCHANGED <<revisions, identity, receipts>>

(* Refused, superseded, already so, or failed: the transaction ends.       *)
EndConfigure(q) ==
  /\ configuring[q].step # "idle"
  /\ configuring' = [configuring EXCEPT ![q] = [step |-> "idle"]]
  /\ UNCHANGED <<revisions, identity, receipts, delivery>>
=============================================================================
