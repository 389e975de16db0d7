---------------------------- MODULE WebhookAdmin ----------------------------
(***************************************************************************)
(* The handlers that configure endpoints and projects and replay events.   *)
(* A request reads the clock and the project (and a replay the endpoint,   *)
(* the event and the earlier use of its command) without locking them;     *)
(* then it locks the endpoint row, checks it again and writes.  Anything   *)
(* may commit in between: Admit and the handler are two actions.  Disable, *)
(* archive and restore use nothing they read before they hold the lock.    *)
(***************************************************************************)
EXTENDS WebhookStore

Enabled == {p \in Endpoints : endpointState[p] = "enabled"}

Pending(op) == {r \in admitted : r.op = op}

AdmitRequest(r) ==
  /\ ~archived
  /\ Cardinality(admitted) < MaxAdmitted
  /\ Spend("admin")
  /\ admitted' = admitted \cup {r}
  /\ UNCHANGED <<archived, stamp, outboxVars, configVars, deliveryVars, leaseVars, plan,
                 fiber, accepted>>

Admit(op, p) ==
  AdmitRequest([op |-> op, endpoint |-> p, now |-> stamp, version |-> endpointVersion[p],
                event |-> None, command |-> None, target |-> 0])

CommandUnused(p, c) ==
  \A d \in Deliveries : d.endpoint = p /\ d.command = c => status[d] = "absent"

AdmitReplay(p, e, c) ==
  /\ endpointState[p] = "enabled"
  /\ Projected(e)
  /\ CommandUnused(p, c)
  /\ AdmitRequest([op |-> "replay", endpoint |-> p, now |-> stamp, version |-> 0, event |-> e,
                   command |-> c, target |-> destination[p]])

(* The handler finds its conditions gone, or its connection is lost. *)
Refuse(r) ==
  /\ r \in admitted
  /\ admitted' = admitted \ {r}
  /\ UNCHANGED <<archived, stamp, outboxVars, configVars, deliveryVars, leaseVars, plan,
                 fiber, accepted, budget>>

(* Mutant: an update ignores the changes made since its client looked. *)
AnyVersion(r) == TRUE

UpToDate(r) == endpointVersion[r.endpoint] = r.version

(* What every change of an endpoint ends with. *)
Done(r) ==
  /\ admitted' = admitted \ {r}
  /\ endpointVersion' = [endpointVersion EXCEPT ![r.endpoint] = @ + 1]

Opened(types, now) == {[type |-> t, from |-> now, until |-> None] : t \in types}

CreateEndpoint(r, types) ==
  LET p == r.endpoint
  IN  /\ r \in Pending("create")
      /\ endpointState[p] = "absent"
      /\ types # {}
      /\ Cardinality(Enabled) < MaxEnabled
      /\ Done(r)
      /\ endpointState' = [endpointState EXCEPT ![p] = "enabled"]
      /\ enabledAt' = [enabledAt EXCEPT ![p] = r.now]
      /\ destination' = [destination EXCEPT ![p] = 1]
      /\ subscriptions' = [subscriptions EXCEPT ![p] = Opened(types, r.now)]
      /\ secret' = [secret EXCEPT ![p][1] = "active"]
      /\ UNCHANGED <<archived, stamp, outboxVars, deliveryVars, leaseVars, plan, fiber,
                     accepted, budget>>

EnableEndpoint(r) ==
  LET p == r.endpoint
  IN  /\ r \in Pending("enable")
      /\ endpointState[p] = "disabled"
      /\ UpToDate(r)
      /\ Cardinality(Enabled) < MaxEnabled
      /\ Done(r)
      /\ endpointState' = [endpointState EXCEPT ![p] = "enabled"]
      /\ enabledAt' = [enabledAt EXCEPT ![p] = r.now]
      /\ UNCHANGED <<archived, stamp, outboxVars, destination, secret, subscriptions,
                     deliveryVars, leaseVars, plan, fiber, accepted, budget>>

DisableEndpoint(p) ==
  /\ endpointState[p] = "enabled"
  /\ Spend("admin")
  /\ endpointState' = [endpointState EXCEPT ![p] = "disabled"]
  /\ endpointVersion' = [endpointVersion EXCEPT ![p] = @ + 1]
  /\ CancelWaiting({d \in Deliveries : d.endpoint = p})
  /\ UNCHANGED <<archived, stamp, outboxVars, enabledAt, destination, secret, subscriptions,
                 attemptCount, lease, target, attempt, leaseVars, admitted, plan, fiber,
                 accepted>>

(***************************************************************************)
(* A new name or a new destination; only the pointer to the destination    *)
(* moves, deliveries keep the one they are bound to.                       *)
(***************************************************************************)
UpdateEndpoint(r, retarget) ==
  LET p == r.endpoint
  IN  /\ r \in Pending("update")
      /\ endpointState[p] # "absent"
      /\ UpToDate(r)
      /\ Done(r)
      /\ destination' = IF retarget THEN [destination EXCEPT ![p] = @ + 1] ELSE destination
      /\ UNCHANGED <<archived, stamp, outboxVars, endpointState, enabledAt, secret,
                     subscriptions, deliveryVars, leaseVars, plan, fiber, accepted, budget>>

ReplaceSubscriptions(r, types) ==
  LET p       == r.endpoint
      open    == {i \in subscriptions[p] : i.until = None}
      removed == {i \in open : i.type \notin types}
      added   == types \ {i.type : i \in open}
      closed  == {[i EXCEPT !.until = r.now] : i \in removed}
  IN  /\ r \in Pending("subscribe")
      /\ endpointState[p] # "absent"
      /\ UpToDate(r)
      /\ types # {}
      /\ Done(r)
      /\ subscriptions' = [subscriptions EXCEPT
                             ![p] = (@ \ removed) \cup closed \cup Opened(added, r.now)]
      /\ CancelWaiting({d \in Deliveries : /\ d.endpoint = p
                                           /\ \E i \in removed : i.type = TypeOf[d.event]})
      /\ UNCHANGED <<archived, stamp, outboxVars, endpointState, enabledAt, destination,
                     secret, attemptCount, lease, target, attempt, leaseVars, plan, fiber, accepted,
                     budget>>

ArchiveProject ==
  /\ ~archived
  /\ Spend("archive")
  /\ archived' = TRUE
  /\ CancelWaiting(Deliveries)
  /\ UNCHANGED <<stamp, outboxVars, configVars, attemptCount, lease, target, attempt,
                 leaseVars, admitted, plan, fiber, accepted>>

RestoreProject ==
  /\ archived
  /\ Spend("archive")
  /\ archived' = FALSE
  /\ UNCHANGED <<stamp, outboxVars, configVars, deliveryVars, leaseVars, admitted, plan,
                 fiber, accepted>>

(***************************************************************************)
(* The insert of a replay; the unique index on (endpoint, command) fails   *)
(* the second of two requests with one command.                            *)
(***************************************************************************)
ReplayEvent(r) ==
  LET d == [event |-> r.event, endpoint |-> r.endpoint, command |-> r.command]
  IN  /\ r \in Pending("replay")
      /\ CommandUnused(r.endpoint, r.command)
      /\ admitted' = admitted \ {r}
      /\ status' = [status EXCEPT ![d] = "queued"]
      /\ target' = [target EXCEPT ![d] = r.target]
      /\ UNCHANGED <<archived, stamp, outboxVars, configVars, attemptCount, lease, attempt,
                     leaseVars, plan, fiber, accepted, budget>>
=============================================================================
