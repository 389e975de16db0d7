-------------------------- MODULE WebhookPipeline --------------------------
(***************************************************************************)
(* The publication webhook system: publications write an outbox, worker    *)
(* processes expand it into deliveries and attempt those under leases, and *)
(* administrators reconfigure endpoints and archive the project meanwhile. *)
(***************************************************************************)
EXTENDS WebhookSecrets, WebhookDispatch, WebhookWorker

CONSTANT MaxStamp  (* bound of the instance on the clock *)

ASSUME StampConstant == MaxStamp \in Nat

vars == <<archived, stamp, outboxVars, configVars, deliveryVars, leaseVars, admitted, plan,
          fiber, accepted, budget>>

Tick ==
  /\ stamp < MaxStamp
  /\ stamp' = stamp + 1
  /\ UNCHANGED <<archived, outboxVars, configVars, deliveryVars, leaseVars, admitted, plan,
                 fiber, accepted, budget>>

Administration ==
  \/ \E op \in Operations \ ({"replay"} \cup Rotations), p \in Endpoints : Admit(op, p)
  \/ \E p \in Endpoints, e \in Events, c \in Commands : AdmitReplay(p, e, c)
  \/ \E r \in admitted :
       \/ Refuse(r)
       \/ EnableEndpoint(r)
       \/ ReplayEvent(r)
       \/ \E retarget \in BOOLEAN : UpdateEndpoint(r, retarget)
       \/ \E types \in SUBSET EventTypes : CreateEndpoint(r, types) \/ ReplaceSubscriptions(r, types)
  \/ \E p \in Endpoints : DisableEndpoint(p)
  \/ ArchiveProject
  \/ RestoreProject

Rotating ==
  \/ \E op \in Rotations, p \in Endpoints : AdmitRotation(op, p)
  \/ \E r \in admitted :
       StartSecretRotation(r) \/ ActivateRotation(r) \/ CancelRotation(r) \/ CompleteRotation(r)
  \/ \E p \in Endpoints, s \in Secrets : SecretLapses(p, s)

Dispatching ==
  \/ \E e \in Events : BeginPublication(e) \/ CommitPublication(e)
  \/ \E w \in Workers, rows \in SUBSET Events : DispatchRead(w, rows)
  \/ \E w \in Workers : DispatchCommit(w)

Attempting ==
  \/ \E t \in Tokens : LeaseElapses(t)
  \/ \E d \in Deliveries : RecoverLease(d)
  \/ \E f \in Fibers, d \in Deliveries : ClaimAttempt(f, d) \/ ClaimRefused(f, d)
  \/ \E f \in Fibers, answer \in Answers, processed \in BOOLEAN : SendEnds(f, answer, processed)
  \/ \E f \in Fibers : FinalizeStale(f) \/ FinalizeRead(f) \/ FinalizeCommit(f)
  \/ \E w \in Workers : WorkerCrash(w)

Next == Tick \/ Administration \/ Rotating \/ Dispatching \/ Attempting

Init == InitStore
Spec == Init /\ [][Next]_vars

(***************************************************************************)
(* The loops of a worker run for ever and poll at least every two seconds. *)
(* Rows are taken oldest first, so a row that becomes eligible again and   *)
(* again is taken in the end: strong fairness for claims.  Sends are       *)
(* bounded by timeouts and leases by their expiry time.  Nothing is fair   *)
(* about publications, administration, crashes or what a destination says. *)
(***************************************************************************)
DispatchFairness ==
  /\ \A e \in Events : WF_vars(\E w \in Workers, rows \in SUBSET Events :
                                 e \in rows /\ DispatchRead(w, rows))
  /\ \A w \in Workers : WF_vars(DispatchCommit(w))

AttemptFairness ==
  /\ \A t \in Tokens : WF_vars(LeaseElapses(t))
  /\ \A d \in Deliveries : WF_vars(RecoverLease(d))
  /\ \A d \in Deliveries : SF_vars(\E f \in Fibers : ClaimAttempt(f, d))
  /\ \A f \in Fibers : WF_vars(\E answer \in Answers, processed \in BOOLEAN :
                                 SendEnds(f, answer, processed))
  /\ \A f \in Fibers : WF_vars(FinalizeStale(f) \/ FinalizeRead(f))
  /\ \A f \in Fibers : WF_vars(FinalizeCommit(f))

FairSpec == Spec /\ DispatchFairness /\ AttemptFairness

-----------------------------------------------------------------------------
(* Attempts and leases *)

Live(d) == status[d] = "delivering" /\ lease[d] \notin elapsed

(* "Only one attempt per endpoint is in flight across worker processes":   *)
(* while the lease of one delivery runs, no other delivery of its endpoint *)
(* is claimed, whoever crashed, was recovered or finished late before.     *)
OneLiveAttemptPerEndpoint ==
  \A d1, d2 \in Deliveries :
    Live(d1) /\ Live(d2) /\ d1.endpoint = d2.endpoint => d1 = d2

(* The attempt history of a run has no gap and no row beyond the count; a  *)
(* started attempt is the latest one of a run that is being delivered, so  *)
(* recovery and finalization never leave two attempts open.                *)
AttemptLedger ==
  \A d \in Deliveries, n \in 1..MaxAttempts :
    /\ attempt[d][n] = "absent" <=> n > attemptCount[d]
    /\ attempt[d][n] = "started" <=> status[d] = "delivering" /\ n = attemptCount[d]

(* A run ends the way its last attempt ended: a canceled one was waiting   *)
(* or had lost its lease, and a succeeded one only if the destination      *)
(* processed that very attempt, although workers finalize late, crash and  *)
(* are recovered.                                                          *)
RunMatchesLastAttempt ==
  \A d \in Deliveries :
    LET last == IF attemptCount[d] = 0 THEN "absent" ELSE attempt[d][attemptCount[d]]
    IN  /\ status[d] \in {"succeeded", "dead_letter"} => last = status[d]
        /\ status[d] = "queued" => last = "absent"
        /\ status[d] = "retry_scheduled" => last \in {"retry_scheduled", "abandoned"}
        /\ status[d] = "canceled" => last \in {"absent", "retry_scheduled", "abandoned"}
        /\ status[d] = "succeeded" => Token(d, attemptCount[d]) \in accepted

(* A run that has ended is never attempted or reported on again, and a     *)
(* closed attempt keeps its result: a late worker overwrites nothing.      *)
HistoryIsFinal ==
  [][\A d \in Deliveries :
       /\ status[d] \in Settled => status'[d] = status[d] /\ attemptCount'[d] = attemptCount[d]
       /\ \A n \in 1..MaxAttempts :
            attempt[d][n] \notin {"absent", "started"} => attempt'[d][n] = attempt[d][n]]_vars

(* A delivery stops being delivered only by the loop that claimed its      *)
(* current lease, or after that lease ran out: a stale worker cannot       *)
(* overwrite the claim that followed its own.                              *)
OnlyTheHolderFinishes ==
  [][\A d \in Deliveries :
       status[d] = "delivering" /\ status'[d] # "delivering"
         => \/ lease[d] \in elapsed
            \/ \E f \in Fibers : fiber[f].token = lease[d] /\ fiber'[f] = Idle]_vars

(* The endpoint's lease columns, the delivery's and the attempt rows        *)
(* together implement a fenced lease on the endpoint: a token is drawn     *)
(* once, superseded only after expiry, and cleared only by its own run.    *)
Lease == INSTANCE FencedLease WITH
  Resources  <- Endpoints,
  ResourceOf <- [t \in Tokens |-> t.delivery.endpoint],
  holder     <- endpointLease,
  open       <- {t \in Tokens : lease[t.delivery] = t},
  expired    <- elapsed,
  used       <- {t \in Tokens : t.number <= attemptCount[t.delivery]}

LeaseIsFenced == Lease!Spec

-----------------------------------------------------------------------------
(* The outbox and the subscriptions *)

(* The rows of an endpoint cover an event: it has been enabled since       *)
(* before the event, and an interval of its subscription to the type began *)
(* by the time of the event and did not end by then.                       *)
Wants(p, e) ==
  /\ endpointState[p] = "enabled" /\ enabledAt[p] <= occurredAt[e]
  /\ \E i \in subscriptions[p] :
       /\ i.type = TypeOf[e]
       /\ i.from <= occurredAt[e]
       /\ i.until = None \/ occurredAt[e] < i.until

(* The requests that write the time at which they read the clock.          *)
Dated(p) == {r \in Pending("create") \cup Pending("enable") \cup Pending("subscribe") :
               r.endpoint = p}

(* An event that the endpoint has missed: its time has gone by, and no     *)
(* request under way read the clock by then; the rows do not cover it, and *)
(* no dispatcher has read them when they did.                              *)
Missed(p, e) ==
  /\ outboxState[e] # "unpublished" /\ occurredAt[e] < stamp
  /\ \A r \in Dated(p) : occurredAt[e] < r.now
  /\ ~Wants(p, e)
  /\ status[Initial(e, p)] = "absent"
  /\ \A w \in Workers : \A i \in plan[w].inserts : i.delivery # Initial(e, p)

(* A subscriber is sent no event from before it was enabled or from        *)
(* outside the intervals its subscription to the type was active in: what  *)
(* it has missed it never gets by itself, whatever is enabled, subscribed, *)
(* retargeted or restored later, and however far the dispatcher is behind. *)
MissedForGood == [][\A e \in Events, p \in Endpoints : Missed(p, e) => Missed(p, e)']_vars

(* No subscription is closed before it was opened, although handlers read  *)
(* the clock long before they lock the endpoint: the version check orders  *)
(* them, and the CHECK constraint of the table never fires.                *)
IntervalsAreOrdered ==
  \A p \in Endpoints : \A i \in subscriptions[p] : i.until = None \/ i.from <= i.until

Serves(p, e) == Eligible(p, e) /\ External(e) /\ e \notin Malformed

(* No event is lost: an endpoint that is enabled and subscribed when a     *)
(* publication has begun, and stays so, has a delivery of the event once   *)
(* the dispatcher marks it processed.  (An endpoint whose configuration    *)
(* commits later may miss the event even if its activation time, read      *)
(* before, is earlier than the event.)                                     *)
NoEventLost ==
  \A e \in Events, p \in Endpoints :
    [](outboxState[e] = "publishing" /\ Serves(p, e)
         => \/ <>~Serves(p, e)
            \/ [](outboxState[e] = "processed" => status[Initial(e, p)] # "absent"))

(* A receiver that follows the rotations of its secret can verify every    *)
(* request: there is always a secret to sign with and never a third one;   *)
(* a secret starts to sign only because an administrator who was shown it  *)
(* says so, whoever canceled and began other rotations meanwhile, and the  *)
(* one it takes over from goes on signing.                                 *)
ReceiversCanVerify ==
  [][\A p \in Endpoints :
       /\ endpointState'[p] # "absent" => CanSign(p)'
       /\ endpointState[p] # "absent" =>
            \A s \in Signing(p)' \ Signing(p) :
              /\ In(p, "active") \subseteq Signing(p)'
              /\ \E r \in admitted :
                   r.op = "activate" /\ r.endpoint = p /\ r.target = s]_vars

-----------------------------------------------------------------------------
(* Liveness *)

Exhausted(d) == status[d] \in Runnable /\ attemptCount[d] >= MaxAttempts

(* Every committed publication is expanded, one that no endpoint wants as  *)
(* well, unless it is malformed or the workers keep dying of a run that    *)
(* none of them can claim.                                                 *)
EventsExpand ==
  \A e \in Events :
    outboxState[e] = "pending"
      ~> \/ outboxState[e] = "processed"
         \/ e \in Malformed
         \/ \E o \in Deliveries : Exhausted(o)

(* Every run ends, unless its endpoint is or was disabled or the project   *)
(* archived, or the queue holds a run that no worker can claim.            *)
RunsSettle ==
  \A d \in Deliveries :
    status[d] \in Runnable \cup {"delivering"}
      ~> \/ status[d] \in Settled
         \/ endpointState[d.endpoint] # "enabled"
         \/ archived
         \/ \E o \in Deliveries : Exhausted(o)

-----------------------------------------------------------------------------
(* Statements of the design document that the code does not keep *)

(* "After 12 attempts, the run becomes dead_letter": no run waits for an   *)
(* attempt it may not have.                                                *)
NoExhaustedRun == \A d \in Deliveries : ~Exhausted(d)

(* "Updating a destination cancels queued/retry deliveries targeting the   *)
(* old revision": what waits is bound to the current destination.          *)
WaitingTargetsCurrentDestination ==
  \A d \in Deliveries : status[d] \in Runnable => target[d] = destination[d.endpoint]

(* "A retryable/permanent failure finalized after archive becomes          *)
(* terminal/canceled and schedules no further attempt."                    *)
ArchivedSchedulesNoRetry ==
  [][archived => \A d \in Deliveries :
                   status[d] = "delivering" => status'[d] # "retry_scheduled"]_vars

(* "Disable cancels queued/retry-scheduled deliveries and prevents outbox  *)
(* expansion. Re-enable affects only events occurring at or after the new  *)
(* enabledAt": nothing older than the last enabling is sent by itself.     *)
ReenablingStartsAfresh ==
  [][\A d \in Deliveries :
       IsInitial(d) /\ status[d] \in Runnable /\ status'[d] = "delivering"
         => occurredAt[d.event] >= enabledAt[d.endpoint]]_vars
=============================================================================
