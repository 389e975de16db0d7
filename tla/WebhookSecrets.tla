--------------------------- MODULE WebhookSecrets ---------------------------
(***************************************************************************)
(* The rotation of an endpoint's signing secret.  A new secret is pending  *)
(* and shown once, activated, and overlaps for a day with the one it       *)
(* replaces, until somebody completes the rotation.  Like the other        *)
(* handlers, these act on the version their client saw.                    *)
(***************************************************************************)
EXTENDS WebhookAdmin

In(p, state) == {s \in Secrets : secret[p][s] = state}

(* coalesce(max(sequence), 0) *)
LastSecret(p) == Cardinality(Secrets \ In(p, "absent"))

(* Only an activation or a new rotation is refused in an archived project. *)
(* Nothing depends on when the request read its clock.                     *)
AdmitRotation(op, p) ==
  /\ archived => op \in {"cancel", "complete"}
  /\ Cardinality(admitted) < MaxAdmitted
  /\ Spend("rotation")
  /\ admitted' = admitted \cup
       {[op |-> op, endpoint |-> p, now |-> 0, version |-> endpointVersion[p],
         event |-> None, command |-> None, target |-> LastSecret(p)]}
  /\ UNCHANGED <<archived, stamp, outboxVars, configVars, deliveryVars, leaseVars, plan,
                 fiber, accepted>>

(* What every step of a rotation leaves alone. *)
OnlySecrets ==
  UNCHANGED <<archived, stamp, outboxVars, endpointState, enabledAt, destination,
              subscriptions, deliveryVars, leaseVars, plan, fiber, accepted, budget>>

(* A rotation whose overlap is over is open until it is completed. *)
StartSecretRotation(r) ==
  LET p == r.endpoint
  IN  /\ r \in Pending("rotate")
      /\ endpointState[p] # "absent"
      /\ UpToDate(r)
      /\ In(p, "pending") \cup In(p, "retiring") \cup In(p, "lapsed") = {}
      /\ LastSecret(p) < MaxSecrets
      /\ Done(r)
      /\ secret' = [secret EXCEPT ![p][LastSecret(p) + 1] = "pending"]
      /\ OnlySecrets

(* Mutant: the old secret is retired at once. *)
ReplacedAtOnce(p, new, old) == [secret[p] EXCEPT ![new] = "active", ![old] = "retired"]

Replaced(p, new, old) == [secret[p] EXCEPT ![new] = "active", ![old] = "retiring"]

ActivateRotation(r) ==
  LET p == r.endpoint
  IN  /\ r \in Pending("activate")
      /\ UpToDate(r)
      /\ \E new \in In(p, "pending"), old \in In(p, "active") :
           secret' = [secret EXCEPT ![p] = Replaced(p, new, old)]
      /\ Done(r)
      /\ OnlySecrets

CancelRotation(r) ==
  LET p == r.endpoint
  IN  /\ r \in Pending("cancel")
      /\ UpToDate(r)
      /\ \E s \in In(p, "pending") : secret' = [secret EXCEPT ![p][s] = "canceled"]
      /\ Done(r)
      /\ OnlySecrets

CompleteRotation(r) ==
  LET p == r.endpoint
  IN  /\ r \in Pending("complete")
      /\ UpToDate(r)
      /\ \E s \in In(p, "retiring") \cup In(p, "lapsed") :
           secret' = [secret EXCEPT ![p][s] = "retired"]
      /\ Done(r)
      /\ OnlySecrets

(* The overlap of a rotation ends: nothing happens but that time passes. *)
SecretLapses(p, s) ==
  /\ s \in In(p, "retiring")
  /\ secret' = [secret EXCEPT ![p][s] = "lapsed"]
  /\ UNCHANGED <<archived, stamp, outboxVars, endpointState, enabledAt, destination,
                 endpointVersion, subscriptions, deliveryVars, leaseVars, admitted, plan,
                 fiber, accepted, budget>>
=============================================================================
