---------------------------- MODULE WebhookStore ----------------------------
(***************************************************************************)
(* The tables of the publication webhook system that the administration    *)
(* handlers, the outbox dispatcher and the attempt loop share, and the     *)
(* states their rows can be in.  The modules WebhookAdmin, WebhookDispatch *)
(* and WebhookWorker hold the transactions; WebhookPipeline composes them. *)
(*                                                                         *)
(* One project with one environment is modelled.  A UUID drawn by a claim  *)
(* (the lease token and the attempt id) is represented by the delivery and *)
(* attempt number it was drawn for: the unique index on (delivery_id,      *)
(* attempt_number) makes that pair as unique as the UUID.                  *)
(***************************************************************************)
EXTENDS Naturals, FiniteSets

CONSTANTS
  Events,        (* outbox rows                                            *)
  Endpoints,     (* webhook endpoints of the environment                   *)
  Commands,      (* command ids of manual replays                          *)
  Workers,       (* worker processes, each with one dispatcher loop        *)
  Fibers,        (* attempt loops of all workers: 32 each in the code      *)
  WorkerOf,      (* the process each attempt loop runs in                  *)
  EventTypes,    (* public event types an endpoint can subscribe to        *)
  TypeOf,        (* the type of each event; outside EventTypes if internal *)
  Malformed,     (* events whose projection always fails                   *)
  MaxAttempts,   (* attempts of one delivery run: 12 in the code           *)
  MaxTries,      (* projections tried on one outbox row: 12 in the code    *)
  MaxEnabled,    (* enabled endpoints per environment: 10 in the code      *)
  MaxSecrets,    (* bound of the instance on signing secrets per endpoint  *)
  Bounds,        (* bounds of the instance on administration, rotations,   *)
                 (* archiving and crashes: one of these                    *)
  MaxAdmitted,   (* bound of the instance on concurrent administration     *)
  None           (* SQL null: no lease, no replay command, open interval   *)

Budgets == [admin: Nat, rotation: Nat, archive: Nat, crash: Nat]

ASSUME WebhookConstants ==
  /\ MaxAttempts \in Nat \ {0}
  /\ MaxTries \in Nat \ {0}
  /\ MaxEnabled \in Nat \ {0}
  /\ Malformed \subseteq Events
  /\ WorkerOf \in [Fibers -> Workers]
  /\ MaxSecrets \in Nat \ {0}
  /\ Bounds \subseteq Budgets
  /\ None \notin Commands
  /\ None \notin Nat

VARIABLES
  archived,       (* project.archivedAt # null                             *)
  stamp,          (* the clock the handlers read                           *)
  outboxState,    (* publication not begun, begun, committed; event expanded *)
  occurredAt,     (* outbox_event.occurred_at                              *)
  outboxTries,    (* outbox_event.attempt_count                            *)
  endpointState,  (* webhook_endpoint.state, or absent                     *)
  enabledAt,      (* webhook_endpoint.enabled_at                           *)
  destination,    (* sequence of the endpoint's current destination        *)
  endpointVersion, (* webhook_endpoint.version                             *)
  secret,         (* webhook_endpoint_secret.state, by sequence            *)
  endpointLease,  (* webhook_endpoint.lease_token                          *)
  subscriptions,  (* activation intervals of the endpoint's subscriptions  *)
  status,         (* webhook_delivery.status, or absent                    *)
  attemptCount,   (* webhook_delivery.attempt_count                        *)
  lease,          (* webhook_delivery.lease_token                          *)
  target,         (* sequence of the destination the delivery is bound to  *)
  attempt,        (* webhook_delivery_attempt.state, by attempt number     *)
  elapsed,        (* lease tokens whose lease_expires_at has passed        *)
  admitted,       (* administration requests between their first reads     *)
                  (* and their writes                                      *)
  plan,           (* what each dispatcher's open transaction has read      *)
  fiber,          (* what each attempt loop is doing                       *)
  accepted,       (* attempts the destination has processed                *)
  budget          (* what is left of the bounds on the environment         *)

outboxVars   == <<outboxState, occurredAt, outboxTries>>
configVars   == <<endpointState, enabledAt, destination, endpointVersion, secret, subscriptions>>
deliveryVars == <<status, attemptCount, lease, target, attempt>>
leaseVars    == <<endpointLease, elapsed>>

(***************************************************************************)
(* A delivery row is identified by what its unique indexes identify it by: *)
(* an initial delivery by event and endpoint, a replay by its command.     *)
(***************************************************************************)
Deliveries == [event: Events, endpoint: Endpoints, command: Commands \cup {None}]
IsInitial(d) == d.command = None

Tokens == [delivery: Deliveries, number: 1..MaxAttempts]
Token(d, n) == [delivery |-> d, number |-> n]

ASSUME NullIsNoToken == None \notin Tokens

Runnable == {"queued", "retry_scheduled"}
Settled  == {"succeeded", "dead_letter", "canceled"}
Statuses == {"absent", "delivering"} \cup Runnable \cup Settled
AttemptStates ==
  {"absent", "started", "succeeded", "retry_scheduled", "dead_letter", "abandoned"}

Interval == [type: EventTypes, from: Nat, until: Nat \cup {None}]
Insert   == [delivery: Deliveries, target: Nat]
Plans    == [rows: SUBSET Events, inserts: SUBSET Insert]
NoPlan   == [rows |-> {}, inserts |-> {}]

(* A retiring secret is "lapsed" once its retire_at has passed. *)
Secrets == 1..MaxSecrets
SecretStates ==
  {"absent", "pending", "active", "retiring", "lapsed", "retired", "canceled"}

(***************************************************************************)
(* An administration request: the clock it read, the endpoint version its  *)
(* client had seen, for a replay the event, the command and the            *)
(* destination it read, and for a rotation the latest secret its client    *)
(* had seen.                                                               *)
(***************************************************************************)
Rotations == {"rotate", "activate", "cancel", "complete"}
Operations == {"create", "enable", "update", "subscribe", "replay"} \cup Rotations
Request == [op: Operations, endpoint: Endpoints, now: Nat, version: Nat,
            event: Events \cup {None}, command: Commands \cup {None}, target: Nat]

(* What a transport exchange can end in, as the attempt loop classifies it. *)
Answers == {"succeeded", "retryable", "permanent"}

Phases == {"idle", "sending", "answered", "finalizing"}
FiberStates == [phase: Phases, token: Tokens \cup {None}, answer: Answers \cup {None},
                sawArchived: BOOLEAN]
Idle == [phase |-> "idle", token |-> None, answer |-> None, sawArchived |-> FALSE]

TypeOK ==
  /\ archived \in BOOLEAN
  /\ stamp \in Nat
  /\ outboxState \in [Events -> {"unpublished", "publishing", "pending", "processed"}]
  /\ occurredAt \in [Events -> Nat]
  /\ outboxTries \in [Events -> 0..MaxTries]
  /\ endpointState \in [Endpoints -> {"absent", "enabled", "disabled"}]
  /\ enabledAt \in [Endpoints -> Nat]
  /\ destination \in [Endpoints -> Nat]
  /\ endpointVersion \in [Endpoints -> Nat]
  /\ secret \in [Endpoints -> [Secrets -> SecretStates]]
  /\ endpointLease \in [Endpoints -> Tokens \cup {None}]
  /\ subscriptions \in [Endpoints -> SUBSET Interval]
  /\ status \in [Deliveries -> Statuses]
  /\ attemptCount \in [Deliveries -> 0..MaxAttempts]
  /\ lease \in [Deliveries -> Tokens \cup {None}]
  /\ target \in [Deliveries -> Nat]
  /\ attempt \in [Deliveries -> [1..MaxAttempts -> AttemptStates]]
  /\ elapsed \subseteq Tokens
  /\ admitted \subseteq Request
  /\ plan \in [Workers -> Plans]
  /\ fiber \in [Fibers -> FiberStates]
  /\ accepted \subseteq Tokens
  /\ budget \in Budgets

(* An empty database with one project. *)
InitStore ==
  /\ archived = FALSE
  /\ stamp = 0
  /\ outboxState = [e \in Events |-> "unpublished"]
  /\ occurredAt = [e \in Events |-> 0]
  /\ outboxTries = [e \in Events |-> 0]
  /\ endpointState = [p \in Endpoints |-> "absent"]
  /\ enabledAt = [p \in Endpoints |-> 0]
  /\ destination = [p \in Endpoints |-> 0]
  /\ endpointVersion = [p \in Endpoints |-> 0]
  /\ secret = [p \in Endpoints |-> [s \in Secrets |-> "absent"]]
  /\ endpointLease = [p \in Endpoints |-> None]
  /\ subscriptions = [p \in Endpoints |-> {}]
  /\ status = [d \in Deliveries |-> "absent"]
  /\ attemptCount = [d \in Deliveries |-> 0]
  /\ lease = [d \in Deliveries |-> None]
  /\ target = [d \in Deliveries |-> 0]
  /\ attempt = [d \in Deliveries |-> [n \in 1..MaxAttempts |-> "absent"]]
  /\ elapsed = {}
  /\ admitted = {}
  /\ plan = [w \in Workers |-> NoPlan]
  /\ fiber = [f \in Fibers |-> Idle]
  /\ accepted = {}
  /\ budget \in Bounds

(* Mutant: deliveries being attempted are canceled as well. *)
CancelOpen(D) ==
  status' = [d \in Deliveries |-> IF d \in D /\ status[d] \in Runnable \cup {"delivering"}
                                  THEN "canceled" ELSE status[d]]

(***************************************************************************)
(* The bulk update the configuration handlers share: every waiting         *)
(* delivery of D is canceled, one being attempted is left alone.           *)
(***************************************************************************)
CancelWaiting(D) ==
  status' = [d \in Deliveries |-> IF d \in D /\ status[d] \in Runnable
                                  THEN "canceled" ELSE status[d]]

(* An event the worker has projected, that is, has a publication_event row. *)
External(e)  == TypeOf[e] \in EventTypes
Projected(e) == outboxState[e] = "processed" /\ External(e) /\ e \notin Malformed

(* The secrets a claim signs with. *)
Signing(p) == {s \in Secrets : secret[p][s] \in {"active", "retiring"}}
CanSign(p) == Cardinality(Signing(p)) \in 1..2

(* An exiting worker: its open transactions are rolled back. *)
Exit(w) ==
  /\ plan' = [plan EXCEPT ![w] = NoPlan]
  /\ fiber' = [f \in Fibers |-> IF WorkerOf[f] = w THEN Idle ELSE fiber[f]]

(* An action the instance bounds. *)
Spend(kind) ==
  /\ budget[kind] > 0
  /\ budget' = [budget EXCEPT ![kind] = @ - 1]
=============================================================================
