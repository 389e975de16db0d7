------------------------------ MODULE Authoring ------------------------------
(***************************************************************************)
(* Developers who push code and publish presentations, and a dashboard     *)
(* that configures Delivery, over one environment.                         *)
(***************************************************************************)
EXTENDS AuthoringClient

vars == <<authorityVars, clientVars>>

Push ==
  /\ \E p \in Processes :
       \/ \E d \in Documents : PlanRevisions(p, d)
       \/ PlanPush(p)
       \/ \E c \in Collections, x \in Presentations : EditPresentation(p, c, x)
       \/ \E m \in Commands : LinkJournal(p, m)
       \/ ReuseJournal(p) \/ RefuseJournal(p) \/ Receive(p) \/ RemoveJournal(p) \/ Stop(p)
  /\ UNCHANGED authorityVars

(* The server takes a request, in any order, and answers whoever still     *)
(* waits for it.                                                           *)
Handle(q) ==
  /\ \/ q.command.body.kind = "apply" /\ ApplySchema(q.command)
     \/ q.command.body.kind = "presentation" /\ PublishPresentation(q.command)
     \/ AnswerOnly
  /\ requests' = requests \ {q}
  /\ answers' = answers \cup ({q.process} \ {None})
  /\ UNCHANGED <<process, journal, uncertain>>

(* A request that nobody waits for any more may never have arrived.        *)
Lose(q) ==
  /\ q.process = None
  /\ requests' = requests \ {q}
  /\ UNCHANGED <<authorityVars, process, journal, answers, uncertain>>

Dashboard ==
  /\ \E q \in Configurers :
       \/ \E s \in Selections : BeginConfigure(q, s[1], s[2])
       \/ CheckCapabilities(q) \/ Configure(q) \/ EndConfigure(q)
  /\ UNCHANGED clientVars

Next == Push \/ Dashboard \/ \E q \in requests : Handle(q) \/ Lose(q)

Init == InitAuthority /\ InitClient
Spec == Init /\ [][Next]_vars

-----------------------------------------------------------------------------
(* What a push applies is what its developer acknowledged, over exactly    *)
(* the revisions its plan was made from: no field goes away unasked and no *)
(* presentation published in the meantime is passed over.                  *)
AppliesWhatWasPlanned ==
  [][\A m \in Commands :
       LET body == receipts'[m] IN
       receipts[m] = None /\ body # None /\ body.kind = "apply" =>
         /\ \A c \in Collections : body.current[c] = Sequence(c)
         /\ body.acknowledged =
              {x \in Collections \X Fields :
                 x[2] \in PublishedFields(x[1]) /\ x[2] \notin PublishedFields(x[1])'}]_vars

(* Three tables speak of a field: the rows of the active fields are the    *)
(* fields of the current revision, and an identity that a revision dropped *)
(* never comes back in a later one.                                        *)
IdentitiesFollowRevisions ==
  \A c \in Collections :
    /\ Active(c) = PublishedFields(c)
    /\ \A i, j, k \in 1..Sequence(c) : i < j /\ j < k =>
         revisions[c][i].fields \cap revisions[c][k].fields \subseteq revisions[c][j].fields

(* "Uncertain transport retains [the journal] and blocks unrelated         *)
(* mutation authority": a command that was sent and never answered keeps   *)
(* its journal, through crashes and later runs.                            *)
UncertainIsRetained ==
  \A r \in Roots, k \in Kinds : \A m \in uncertain[r][k] :
    journal[r][k] # None /\ journal[r][k].id = m

(* A field is configured for Delivery only while it is published: the      *)
(* check and the rows it permits see the same revision.                    *)
ConfiguresPublishedFields ==
  [][\A c \in Collections :
       delivery'[c] # delivery[c] =>
         /\ delivery'[c].fields \subseteq PublishedFields(c)
         /\ delivery'[c].version = delivery[c].version + 1]_vars

(* "A schema publication that removes [...] a configured field is rejected *)
(* until the field is removed from Delivery configuration."                *)
ConfiguredStaysPublished ==
  \A c \in Collections : delivery[c].fields \subseteq PublishedFields(c)
=============================================================================
