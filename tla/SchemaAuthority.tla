--------------------------- MODULE SchemaAuthority ---------------------------
(***************************************************************************)
(* The published structure of an environment and who may change it: the    *)
(* immutable schema revisions of its collections, the identities of their  *)
(* fields, the delivery configuration, and the commands that were applied. *)
(* A field stands for its source key, a presentation for all that labels,  *)
(* ordering and layout say; audit and outbox rows go with the revision.    *)
(***************************************************************************)
EXTENDS Naturals, Sequences, FiniteSets

CONSTANTS Collections, Fields, Presentations, DefaultPresentation,
          Documents,      \* the complete project documents the code may declare
          Commands,       \* command identifiers a client may draw
          Configurers,    \* dashboards that configure Delivery
          Selections,     \* what they may ask for: pairs of a collection and fields
          MaxRevisions,   \* bound on the revisions of a collection
          MaxVersion,     \* bound on the versions of a delivery configuration
          None

ASSUME SchemaAssumption ==
  /\ DefaultPresentation \in Presentations
  /\ \A document \in Documents :
       DOMAIN document \subseteq Collections /\ \A c \in DOMAIN document : document[c] \subseteq Fields
  /\ Selections \subseteq Collections \X SUBSET Fields
  /\ None \notin Commands

VARIABLES
  revisions,      \* revisions[c]: the published revisions of a collection, oldest first
  identity,       \* identity[c][f]: "new", "active" or "retired"
  receipts,       \* receipts[m]: what command m was applied with, or None
  delivery,       \* delivery[c]: version and fields of the delivery configuration
  configuring     \* configuring[q]: the configuration transaction of a dashboard

authorityVars == <<revisions, identity, receipts, delivery, configuring>>

InitAuthority ==
  /\ revisions = [c \in Collections |-> <<>>]
  /\ identity = [c \in Collections |-> [f \in Fields |-> "new"]]
  /\ receipts = [m \in Commands |-> None]
  /\ delivery = [c \in Collections |-> [version |-> 1, fields |-> {}]]
  /\ configuring = [q \in Configurers |-> [step |-> "idle"]]

-----------------------------------------------------------------------------
Sequence(c) == Len(revisions[c])
Published(c) == revisions[c][Sequence(c)]
Materialized == {c \in Collections : Sequence(c) > 0}
PublishedFields(c) == IF c \in Materialized THEN Published(c).fields ELSE {}
Active(c) == {f \in Fields : identity[c][f] = "active"}

(* What a plan and an apply are bound to: the current revision of every    *)
(* collection. The hash of the manifest is a function of the revisions.    *)
Authority == [c \in Collections |-> Sequence(c)]

(* The rows the project lock keeps apart: a configuration holds it shared  *)
(* from its first to its last statement, the writers of a schema alone.    *)
ProjectFree == \A q \in Configurers : configuring[q].step = "idle"

Declared(document) == DOMAIN document

(* A document declares every collection of the environment and brings no   *)
(* retired source key back.                                                *)
Reconciles(document, active, identities) ==
  /\ active \subseteq Declared(document)
  /\ \A c \in Declared(document), f \in Fields :
       f \in document[c] => identities[c][f] # "retired"

(* The changes a document makes to published structure; the removals are   *)
(* the ones a developer has to acknowledge.                                *)
Risky(document, published) ==
  {x \in Declared(document) \X Fields :
     x[2] \in published[x[1]] /\ x[2] \notin document[x[1]]}

PlanHash(document, current) == <<document, current>>
=============================================================================
