--------------------------- MODULE AuthoringClient ---------------------------
(***************************************************************************)
(* The CLI commands that change a schema: "schema push" and "presentation  *)
(* publish", with the retry journal that each keeps in its project root.   *)
(* A process may stop at any moment; what it sent may still be handled.    *)
(***************************************************************************)
EXTENDS SchemaAuthoring

CONSTANTS Processes,   \* runs of the CLI
          Tools,       \* the kinds of command a process is run for
          Roots,       \* project roots, each with its journals
          RootOf,      \* the root a process works in
          MaxOrphans   \* bound on the requests nobody waits for any more


VARIABLES
  process,    \* process[p]: the step of a run and what it has in hand
  journal,    \* journal[r][k]: the retry journal of kind k, or None
  requests,   \* requests on their way to the server
  answers,    \* answers on their way to a process
  uncertain   \* uncertain[r][k]: commands sent and not yet answered

clientVars == <<process, journal, requests, answers, uncertain>>

Kinds == {"apply", "presentation"}

(* What a command says. Its fingerprint is a function of all of it.        *)
Bodies ==
  [kind: {"apply"}, document: Documents, current: [Collections -> Nat],
   planHash: Documents \X [Collections -> Nat], acknowledged: SUBSET (Collections \X Fields)]
    \cup [kind: {"presentation"}, collection: Collections, expected: Nat,
          presentation: Presentations]

Journals == [id: Commands, body: Bodies]

ASSUME ClientAssumption ==
  /\ RootOf \in [Processes -> Roots] /\ Tools \in [Processes -> SUBSET Kinds]
  /\ None \notin Journals

Idle == [step |-> "idle"]
At(p, step) == process[p].step = step
Issued == {m \in Commands : \E r \in Roots, k \in Kinds :
             journal[r][k] # None /\ journal[r][k].id = m}
            \cup {m \in Commands : receipts[m] # None}
            \cup {m \in Commands : \E r \in Roots, k \in Kinds : m \in uncertain[r][k]}
            \cup {q.command.id : q \in requests}

InitClient ==
  /\ process = [p \in Processes |-> Idle]
  /\ journal = [r \in Roots |-> [k \in Kinds |-> None]]
  /\ requests = {} /\ answers = {}
  /\ uncertain = [r \in Roots |-> [k \in Kinds |-> {}]]

-----------------------------------------------------------------------------
(* schema push *)

(* The plan reads the revisions first and the identities in a later        *)
(* statement: a change may be published in between.                        *)
PlanRevisions(p, document) ==
  /\ At(p, "idle") /\ "apply" \in Tools[p]
  /\ process' = [process EXCEPT ![p] =
       [step |-> "planning", document |-> document, current |-> Authority,
        published |-> CurrentFields, active |-> Materialized]]
  /\ UNCHANGED <<journal, requests, answers, uncertain>>

ApplyBody(p) ==
  LET t == process[p] IN
  [kind |-> "apply", document |-> t.document, current |-> t.current,
   planHash |-> PlanHash(t.document, t.current), 
   acknowledged |-> Risky(t.document, t.published)]

(* The developer acknowledges exactly the removals the plan asks for; if   *)
(* not, or if the plan is invalid, nothing is journaled and the push ends. *)
PlanPush(p) ==
  LET t == process[p] IN
  /\ At(p, "planning")
  /\ process' = [process EXCEPT ![p] =
       IF Reconciles(t.document, t.active, identity)
       THEN [step |-> "acquiring", body |-> ApplyBody(p)] ELSE Idle]
  /\ UNCHANGED <<journal, requests, answers, uncertain>>

(* presentation publish: the document names the revision it was made from. *)
EditPresentation(p, c, presentation) ==
  /\ At(p, "idle") /\ "presentation" \in Tools[p]
  /\ c \in Materialized
  /\ process' = [process EXCEPT ![p] =
       [step |-> "acquiring",
        body |-> [kind |-> "presentation", collection |-> c, expected |-> Sequence(c),
                  presentation |-> presentation]]]
  /\ UNCHANGED <<journal, requests, answers, uncertain>>

-----------------------------------------------------------------------------
(* The retry journal *)

Journal(p) == journal[RootOf[p]][process[p].body.kind]

(* The acquired command goes out.                                          *)
Send(p, m) ==
  LET k == process[p].body.kind IN
  /\ process' = [process EXCEPT ![p] = [step |-> "waiting", body |-> @.body, id |-> m]]
  /\ requests' = requests \cup {[process |-> p, command |-> [id |-> m, body |-> process[p].body]]}
  /\ uncertain' = [uncertain EXCEPT ![RootOf[p]][k] = @ \cup {m}]
  /\ UNCHANGED answers

(* A new journal is linked into place, which fails when one has appeared.  *)
LinkJournal(p, m) ==
  /\ At(p, "acquiring") /\ Journal(p) = None
  /\ m \notin Issued
  /\ journal' = [journal EXCEPT ![RootOf[p]][process[p].body.kind] =
       [id |-> m, body |-> process[p].body]]
  /\ Send(p, m)

(* An existing one is used again for the same fingerprint.                 *)
ReuseJournal(p) ==
  /\ At(p, "acquiring") /\ Journal(p) # None
  /\ Journal(p).body = process[p].body
  /\ Send(p, Journal(p).id)
  /\ UNCHANGED journal

(* ... and refuses any other command.                                      *)
RefuseJournal(p) ==
  /\ At(p, "acquiring") /\ Journal(p) # None
  /\ Journal(p).body # process[p].body
  /\ process' = [process EXCEPT ![p] = Idle]
  /\ UNCHANGED <<journal, requests, answers, uncertain>>

(* Any answer of the server, a refusal or a failure too, confirms. The     *)
(* journal is read again: another command's is a conflict and stays.       *)
Receive(p) ==
  LET k == process[p].body.kind IN
  /\ At(p, "waiting") /\ p \in answers
  /\ answers' = answers \ {p}
  /\ uncertain' = [uncertain EXCEPT ![RootOf[p]][k] = @ \ {process[p].id}]
  /\ process' = [process EXCEPT ![p] =
       IF Journal(p) # None /\ Journal(p).id = process[p].id
       THEN [@ EXCEPT !.step = "removing"] ELSE Idle]
  /\ UNCHANGED <<journal, requests>>

RemoveJournal(p) ==
  /\ At(p, "removing")
  /\ journal' = [journal EXCEPT ![RootOf[p]][process[p].body.kind] = None]
  /\ process' = [process EXCEPT ![p] = Idle]
  /\ UNCHANGED <<requests, answers, uncertain>>

(* A crash, an interruption, a timeout or a broken connection: the journal *)
(* stays, and a request that is under way has nobody left to answer to.    *)
Orphaned(p) ==
  {IF q.process = p THEN [q EXCEPT !.process = None] ELSE q : q \in requests}

(* Mutant: the journal is cleared however the run ends.                   *)
StopAndClear(p) ==
  /\ At(p, "waiting")
  /\ Cardinality({q \in requests : q.process = None}) < MaxOrphans
  /\ process' = [process EXCEPT ![p] = Idle]
  /\ requests' = Orphaned(p)
  /\ answers' = answers \ {p}
  /\ journal' = [journal EXCEPT ![RootOf[p]][process[p].body.kind] = None]
  /\ UNCHANGED uncertain

Stop(p) ==
  /\ ~At(p, "idle")
  /\ Cardinality({q \in requests : q.process = None}) < MaxOrphans
  /\ process' = [process EXCEPT ![p] = Idle]
  /\ requests' = Orphaned(p)
  /\ answers' = answers \ {p}
  /\ UNCHANGED <<journal, uncertain>>
=============================================================================
