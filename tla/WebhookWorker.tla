--------------------------- MODULE WebhookWorker ---------------------------
(***************************************************************************)
(* The attempt loop of the webhook worker: claim a due delivery under a    *)
(* lease, send it outside any transaction, finalize it by lease token; and *)
(* recover deliveries whose lease ran out.  When a retry falls due is left *)
(* open, and so is how long a send takes against the 30 s lease.           *)
(***************************************************************************)
EXTENDS WebhookStore

(* lease_expires_at of an outstanding token passes. *)
LeaseElapses(t) ==
  /\ t \notin elapsed
  /\ \E d \in Deliveries : lease[d] = t
  /\ elapsed' = elapsed \cup {t}
  /\ UNCHANGED <<archived, stamp, outboxVars, configVars, deliveryVars, endpointLease, admitted,
                 plan, fiber, accepted, budget>>

(* A finalizing transaction holds the lock on its delivery row. *)
RowFree(d) == \A f \in Fibers : fiber[f].phase = "finalizing" => fiber[f].token.delivery # d

(* Mutant: the endpoint's lease is cleared whoever holds it by now. *)
ClearAnyLease(p, t) == endpointLease' = [endpointLease EXCEPT ![p] = None]

ClearEndpointLease(p, t) ==
  endpointLease' = [endpointLease EXCEPT ![p] = IF @ = t THEN None ELSE @]

Abandoned(d) == [n \in 1..MaxAttempts |-> IF attempt[d][n] = "started" THEN "abandoned"
                                          ELSE attempt[d][n]]

(***************************************************************************)
(* First transaction of claimAttempt: one expired delivery goes back to    *)
(* the queue, or is canceled if the project is archived, and its started   *)
(* attempts are abandoned.                                                 *)
(***************************************************************************)
RecoverLease(d) ==
  /\ status[d] = "delivering"
  /\ lease[d] \in elapsed
  /\ RowFree(d)
  /\ attempt' = [attempt EXCEPT ![d] = Abandoned(d)]
  /\ status' = [status EXCEPT ![d] = IF archived THEN "canceled" ELSE "retry_scheduled"]
  /\ lease' = [lease EXCEPT ![d] = None]
  /\ ClearEndpointLease(d.endpoint, lease[d])
  /\ UNCHANGED <<archived, stamp, outboxVars, configVars, attemptCount, target, elapsed,
                 admitted, plan, fiber, accepted, budget>>

(* Mutant: the endpoint's lease is not looked at. *)
AlwaysFree(p) == TRUE

EndpointFree(p) == endpointLease[p] = None \/ endpointLease[p] \in elapsed

(* Mutant: a delivery that was attempted before is not taken up again. *)
ClaimableOnce(d) ==
  /\ status[d] = "queued"
  /\ endpointState[d.endpoint] = "enabled"
  /\ ~archived
  /\ EndpointFree(d.endpoint)

(* Mutant: whatever has not succeeded is taken up again. *)
ClaimableAgain(d) ==
  /\ status[d] \in Runnable \cup {"dead_letter", "canceled"}
  /\ endpointState[d.endpoint] = "enabled"
  /\ ~archived
  /\ EndpointFree(d.endpoint)

Claimable(d) ==
  /\ status[d] \in Runnable
  /\ endpointState[d.endpoint] = "enabled"
  /\ ~archived
  /\ EndpointFree(d.endpoint)

(* Second transaction of claimAttempt. *)
ClaimAttempt(f, d) ==
  LET n == attemptCount[d] + 1
      t == Token(d, n)
  IN  /\ fiber[f].phase = "idle"
      /\ Claimable(d)
      /\ n <= MaxAttempts
      /\ CanSign(d.endpoint)
      /\ endpointLease' = [endpointLease EXCEPT ![d.endpoint] = t]
      /\ status' = [status EXCEPT ![d] = "delivering"]
      /\ attemptCount' = [attemptCount EXCEPT ![d] = n]
      /\ lease' = [lease EXCEPT ![d] = t]
      /\ attempt' = [attempt EXCEPT ![d][n] = "started"]
      /\ fiber' = [fiber EXCEPT ![f] = [Idle EXCEPT !.phase = "sending", !.token = t]]
      /\ UNCHANGED <<archived, stamp, outboxVars, configVars, target, elapsed, admitted, plan,
                     accepted, budget>>

(***************************************************************************)
(* A claim of one attempt too many breaks the CHECK constraint on          *)
(* attempt_count, and one without a secret to sign with throws: the        *)
(* transaction fails, the failure ends the attempt loop and with it the    *)
(* process.                                                                *)
(***************************************************************************)
ClaimRefused(f, d) ==
  /\ fiber[f].phase = "idle"
  /\ Claimable(d)
  /\ attemptCount[d] >= MaxAttempts \/ ~CanSign(d.endpoint)
  /\ Exit(WorkerOf[f])
  /\ UNCHANGED <<archived, stamp, outboxVars, configVars, deliveryVars, leaseVars, admitted,
                 accepted, budget>>

(***************************************************************************)
(* The exchange ends.  The destination may have processed the request even *)
(* when the loop sees a retryable failure: the response was lost or late.  *)
(* A failure before anything is sent is a permanent or retryable answer    *)
(* with nothing processed.                                                 *)
(***************************************************************************)
SendEnds(f, answer, processed) ==
  /\ fiber[f].phase = "sending"
  /\ answer = "succeeded" => processed
  /\ answer = "permanent" => ~processed
  /\ accepted' = IF processed THEN accepted \cup {fiber[f].token} ELSE accepted
  /\ fiber' = [fiber EXCEPT ![f].phase = "answered", ![f].answer = answer]
  /\ UNCHANGED <<archived, stamp, outboxVars, configVars, deliveryVars, leaseVars, admitted,
                 plan, budget>>

HoldsLease(f) ==
  LET d == fiber[f].token.delivery
  IN  status[d] = "delivering" /\ lease[d] = fiber[f].token

(* finalizeAttempt finds its lease gone, or its attempt already closed. *)
FinalizeStale(f) ==
  /\ fiber[f].phase = "answered"
  /\ RowFree(fiber[f].token.delivery)
  /\ ~HoldsLease(f)
  /\ fiber' = [fiber EXCEPT ![f] = Idle]
  /\ UNCHANGED <<archived, stamp, outboxVars, configVars, deliveryVars, leaseVars, admitted,
                 plan, accepted, budget>>

(* finalizeAttempt locks the delivery, then reads the project unlocked. *)
FinalizeRead(f) ==
  /\ fiber[f].phase = "answered"
  /\ RowFree(fiber[f].token.delivery)
  /\ HoldsLease(f)
  /\ fiber' = [fiber EXCEPT ![f].phase = "finalizing", ![f].sawArchived = archived]
  /\ UNCHANGED <<archived, stamp, outboxVars, configVars, deliveryVars, leaseVars, admitted,
                 plan, accepted, budget>>

(* Mutant: a lost response counts as success. *)
OptimisticState(f) == IF fiber[f].answer = "permanent" THEN "dead_letter" ELSE "succeeded"

(* The state the loop asks for, and what an archived project makes of it. *)
FinalState(f) ==
  CASE fiber[f].answer = "succeeded" -> "succeeded"
    [] fiber[f].answer = "permanent" -> "dead_letter"
    [] OTHER -> IF fiber[f].token.number >= MaxAttempts \/ fiber[f].sawArchived
                THEN "dead_letter" ELSE "retry_scheduled"

FinalizeCommit(f) ==
  LET t == fiber[f].token
      d == t.delivery
  IN  /\ fiber[f].phase = "finalizing"
      /\ fiber' = [fiber EXCEPT ![f] = Idle]
      /\ IF attempt[d][t.number] = "started"
         THEN /\ attempt' = [attempt EXCEPT ![d][t.number] = FinalState(f)]
              /\ status' = [status EXCEPT ![d] = FinalState(f)]
              /\ lease' = [lease EXCEPT ![d] = None]
              /\ ClearEndpointLease(d.endpoint, t)
         ELSE UNCHANGED <<attempt, status, lease, endpointLease>>
      /\ UNCHANGED <<archived, stamp, outboxVars, configVars, attemptCount, target, elapsed,
                     admitted, plan, accepted, budget>>

(***************************************************************************)
(* A worker process dies or is stopped.  A database failure in one loop    *)
(* ends every loop of the process, so it is the same step.                 *)
(***************************************************************************)
WorkerCrash(w) ==
  /\ plan[w] # NoPlan \/ \E f \in Fibers : WorkerOf[f] = w /\ fiber[f].phase # "idle"
  /\ Spend("crash")
  /\ Exit(w)
  /\ UNCHANGED <<archived, stamp, outboxVars, configVars, deliveryVars, leaseVars, admitted,
                 accepted>>
=============================================================================
