-------------------------- MODULE WebhookDispatch --------------------------
(***************************************************************************)
(* The outbox and its dispatcher (WebhookWorkerRepository.dispatchBatch).  *)
(* The transaction locks the rows of its batch, skipping those another     *)
(* dispatcher holds, reads the subscriptions without locking them, and     *)
(* commits deliveries and processed marks together.  Between the read and  *)
(* the commit any configuration handler may commit: two actions.           *)
(***************************************************************************)
EXTENDS WebhookStore

(***************************************************************************)
(* A publication reads the clock, then opens the transaction that changes  *)
(* the content and writes the outbox row; it holds the project row shared  *)
(* while it checks that the project is not archived.                       *)
(***************************************************************************)
BeginPublication(e) ==
  /\ outboxState[e] = "unpublished"
  /\ outboxState' = [outboxState EXCEPT ![e] = "publishing"]
  /\ occurredAt' = [occurredAt EXCEPT ![e] = stamp]
  /\ UNCHANGED <<archived, stamp, outboxTries, configVars, deliveryVars, leaseVars,
                 admitted, plan, fiber, accepted, budget>>

CommitPublication(e) ==
  /\ outboxState[e] = "publishing"
  /\ ~archived
  /\ outboxState' = [outboxState EXCEPT ![e] = "pending"]
  /\ UNCHANGED <<archived, stamp, occurredAt, outboxTries, configVars, deliveryVars,
                 leaseVars, admitted, plan, fiber, accepted, budget>>

Locked == UNION {plan[w].rows : w \in Workers}

(* When the row's available_at has come is left open: a backed-off row may *)
(* be picked up at any later time, and order and batch size are free.      *)
Available(e) ==
  /\ outboxState[e] = "pending"
  /\ outboxTries[e] < MaxTries
  /\ e \notin Locked

(* Mutant: a subscription goes on after its end. *)
CoversLater(i, e) == i.type = TypeOf[e] /\ i.from <= occurredAt[e]

Covers(i, e) ==
  /\ i.type = TypeOf[e]
  /\ i.from <= occurredAt[e]
  /\ i.until = None \/ i.until > occurredAt[e]

Eligible(p, e) ==
  /\ ~archived
  /\ endpointState[p] = "enabled"
  /\ enabledAt[p] <= occurredAt[e]
  /\ \E i \in subscriptions[p] : Covers(i, e)

WellFormed(rows) == {e \in rows : External(e) /\ e \notin Malformed}

Initial(e, p) == [event |-> e, endpoint |-> p, command |-> None]

DispatchRead(w, rows) ==
  /\ plan[w] = NoPlan
  /\ rows # {}
  /\ \A e \in rows : Available(e)
  /\ plan' = [plan EXCEPT ![w] =
       [rows |-> rows,
        inserts |-> {[delivery |-> Initial(ep[1], ep[2]), target |-> destination[ep[2]]] :
                        ep \in {x \in WellFormed(rows) \X Endpoints : Eligible(x[2], x[1])}}]]
  /\ UNCHANGED <<archived, stamp, outboxVars, configVars, deliveryVars, leaseVars,
                 admitted, fiber, accepted, budget>>

(* Mutant: deliveries to a destination replaced since are dropped. *)
InsertedToCurrent(w) ==
  {i \in plan[w].inserts : /\ status[i.delivery] = "absent"
                            /\ i.target = destination[i.delivery.endpoint]}

(* The planned rows that the unique index on (event, endpoint) lets in. *)
Inserted(w) == {i \in plan[w].inserts : status[i.delivery] = "absent"}

(* Mutant: only events somebody is subscribed to are marked. *)
DeliveredEvents(w) == {i.delivery.event : i \in plan[w].inserts}

(* The rows the batch marks processed; the others failed to project. *)
Expanded(w) == {e \in plan[w].rows : ~(External(e) /\ e \in Malformed)}

DispatchCommit(w) ==
  /\ plan[w] # NoPlan
  /\ status' = [d \in Deliveries |-> IF \E i \in Inserted(w) : i.delivery = d
                                     THEN "queued" ELSE status[d]]
  /\ target' = [d \in Deliveries |-> IF \E i \in Inserted(w) : i.delivery = d
                                     THEN (CHOOSE i \in Inserted(w) : i.delivery = d).target
                                     ELSE target[d]]
  /\ outboxState' = [e \in Events |-> IF e \in Expanded(w)
                                      THEN "processed" ELSE outboxState[e]]
  /\ outboxTries' = [e \in Events |-> IF e \in plan[w].rows \ Expanded(w)
                                      THEN outboxTries[e] + 1 ELSE outboxTries[e]]
  /\ plan' = [plan EXCEPT ![w] = NoPlan]
  /\ UNCHANGED <<archived, stamp, occurredAt, configVars, attemptCount, lease, attempt,
                 leaseVars, admitted, fiber, accepted, budget>>
=============================================================================
