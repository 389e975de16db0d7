------------------------ MODULE WebhookPipelineProofs ------------------------
(***************************************************************************)
(* The pipeline is sound for any number of events, endpoints, workers,     *)
(* attempts and rotations: its types and leases, the outcomes of its runs, *)
(* its refinement of FencedLease, and then what administration and the     *)
(* dispatcher may do to subscriptions and signing secrets.                 *)
(***************************************************************************)
EXTENDS WebhookPipeline, FiniteSetTheorems, TLAPS

(* What a dispatcher holds is available to nobody else and not yet done. *)
BatchInv ==
  /\ \A w \in Workers : \A e \in plan[w].rows :
       outboxState[e] = "pending" /\ outboxTries[e] < MaxTries
  /\ \A w, v \in Workers : w # v => plan[w].rows \cap plan[v].rows = {}

FiberInv == \A f \in Fibers : fiber[f].phase # "idle" => fiber[f].token \in Tokens

-----------------------------------------------------------------------------
(* Types *)

TypeInv == TypeOK /\ BatchInv /\ FiberInv

(* Spending from a positive budget leaves natural numbers. *)
LEMMA SpendKeepsBudgets ==
  ASSUME budget \in Budgets, NEW kind \in {"admin", "rotation", "archive", "crash"}, Spend(kind)
  PROVE  budget' \in Budgets
<1>1. CASE kind = "admin"
  BY <1>1 DEF Spend, Budgets
<1>2. CASE kind = "archive"
  BY <1>2 DEF Spend, Budgets
<1>3. CASE kind = "crash"
  BY <1>3 DEF Spend, Budgets
<1>4. CASE kind = "rotation"
  BY <1>4 DEF Spend, Budgets
<1> QED BY <1>1, <1>2, <1>3, <1>4

(* A bulk cancellation keeps every delivery in a state of its column. *)
LEMMA CancelKeepsStatuses ==
  ASSUME status \in [Deliveries -> Statuses], NEW D, CancelWaiting(D)
  PROVE  status' \in [Deliveries -> Statuses]
BY DEF CancelWaiting, Statuses, Settled

(* A process that exits leaves its loops idle and its dispatcher empty-handed. *)
LEMMA ExitKeepsTypes ==
  ASSUME TypeInv, NEW w \in Workers, Exit(w), UNCHANGED <<outboxState, outboxTries>>
  PROVE  /\ plan' \in [Workers -> Plans]
         /\ fiber' \in [Fibers -> FiberStates]
         /\ BatchInv'
         /\ FiberInv'
<1> USE DEF TypeInv, TypeOK, Exit
<1>1. NoPlan \in Plans
  BY DEF NoPlan, Plans
<1>2. Idle \in FiberStates
  BY DEF Idle, FiberStates, Phases
<1>3. plan' \in [Workers -> Plans]
  BY <1>1
<1>4. fiber' \in [Fibers -> FiberStates]
  BY <1>2
<1>5. BatchInv'
  BY DEF BatchInv, NoPlan
<1>6. FiberInv'
  BY DEF FiberInv, Idle
<1> QED BY <1>3, <1>4, <1>5, <1>6

(* A request that is admitted is well-formed, and costs one of the bound. *)
LEMMA AdmitKeepsTypes ==
  ASSUME TypeInv, NEW r \in Request, AdmitRequest(r)
  PROVE  TypeInv'
<1>1. budget' \in Budgets
  BY SpendKeepsBudgets DEF TypeInv, TypeOK, AdmitRequest
<1>2. UNCHANGED <<archived, stamp, outboxVars, configVars, deliveryVars, leaseVars, plan, fiber,
                  accepted>>
  BY DEF AdmitRequest
<1>3. admitted' \subseteq Request
  BY DEF TypeInv, TypeOK, AdmitRequest
<1> QED BY <1>1, <1>2, <1>3
        DEF TypeInv, TypeOK, BatchInv, FiberInv, outboxVars, configVars, deliveryVars, leaseVars

(* Secrets are numbered by natural numbers. *)
LEMMA LastSecretIsNatural ==
  ASSUME NEW p
  PROVE  LastSecret(p) \in Nat
<1>1. IsFiniteSet(Secrets)
  BY FS_Interval, WebhookConstants DEF Secrets
<1>2. IsFiniteSet(Secrets \ In(p, "absent"))
  BY <1>1, FS_Difference
<1> QED BY <1>2, FS_CardinalityType DEF LastSecret

(* A request that was handled is dropped, and its endpoint counts the change. *)
LEMMA DoneKeepsTypes ==
  ASSUME admitted \subseteq Request, endpointVersion \in [Endpoints -> Nat],
         NEW r \in admitted, Done(r)
  PROVE  /\ r.endpoint \in Endpoints
         /\ r.now \in Nat
         /\ admitted' \subseteq Request
         /\ endpointVersion' \in [Endpoints -> Nat]
BY DEF Done, Request

(* Types, and what a started batch or attempt has in its hands. *)
THEOREM TypeCorrect == Spec => []TypeInv
<1> USE WebhookConstants, NullIsNoToken, StampConstant
<1>1. Init => TypeInv
  <2> SUFFICES ASSUME Init PROVE TypeInv
    OBVIOUS
  <2> USE DEF Init, InitStore
  <2>1. NoPlan \in Plans /\ Idle \in FiberStates
    BY DEF NoPlan, Plans, Idle, FiberStates, Phases
  <2>2. attempt \in [Deliveries -> [1..MaxAttempts -> AttemptStates]]
    BY DEF AttemptStates
  <2>3. status \in [Deliveries -> Statuses]
    BY DEF Statuses
  <2>4. TypeOK
    <3>1. /\ outboxState \in [Events -> {"unpublished", "publishing", "pending", "processed"}]
          /\ outboxTries \in [Events -> 0..MaxTries]
          /\ endpointState \in [Endpoints -> {"absent", "enabled", "disabled"}]
          /\ endpointLease \in [Endpoints -> Tokens \cup {None}]
          /\ subscriptions \in [Endpoints -> SUBSET Interval]
      OBVIOUS
    <3>2. /\ attemptCount \in [Deliveries -> 0..MaxAttempts]
          /\ lease \in [Deliveries -> Tokens \cup {None}]
          /\ target \in [Deliveries -> Nat]
      OBVIOUS
    <3>3. /\ plan \in [Workers -> Plans]
          /\ fiber \in [Fibers -> FiberStates]
      BY <2>1
    <3>4. /\ archived \in BOOLEAN /\ stamp \in Nat /\ budget \in Budgets
          /\ occurredAt \in [Events -> Nat]
          /\ enabledAt \in [Endpoints -> Nat]
          /\ destination \in [Endpoints -> Nat]
          /\ endpointVersion \in [Endpoints -> Nat]
          /\ secret \in [Endpoints -> [Secrets -> SecretStates]]
      BY DEF SecretStates
    <3>5. elapsed = {} /\ admitted = {} /\ accepted = {}
      OBVIOUS
    <3> HIDE DEF Init, InitStore
    <3> QED BY <2>2, <2>3, <3>1, <3>2, <3>3, <3>4, <3>5 DEF TypeOK
  <2>5. BatchInv /\ FiberInv
    BY DEF BatchInv, FiberInv, NoPlan, Idle
  <2> QED BY <2>4, <2>5 DEF TypeInv
<1>2. TypeInv /\ [Next]_vars => TypeInv'
  <2> SUFFICES ASSUME TypeInv, [Next]_vars PROVE TypeInv'
    OBVIOUS
  <2> USE DEF TypeInv, TypeOK, BatchInv, FiberInv, outboxVars, configVars, deliveryVars, leaseVars
  <2>1. CASE Tick
    BY <2>1 DEF Tick
  <2>2. ASSUME NEW op \in Operations \ ({"replay"} \cup Rotations), NEW p \in Endpoints,
               Admit(op, p)
        PROVE  TypeInv'
    BY <2>2, AdmitKeepsTypes DEF Admit, Request
  <2>3. ASSUME NEW p \in Endpoints, NEW e \in Events, NEW c \in Commands, AdmitReplay(p, e, c)
        PROVE  TypeInv'
    BY <2>3, AdmitKeepsTypes DEF AdmitReplay, Request, Operations
  <2>4. ASSUME NEW r \in admitted, Refuse(r) PROVE TypeInv'
    BY <2>4 DEF Refuse
  <2>5. ASSUME NEW r \in admitted, EnableEndpoint(r) PROVE TypeInv'
    <3>1. /\ r.endpoint \in Endpoints /\ r.now \in Nat
          /\ admitted' \subseteq Request /\ endpointVersion' \in [Endpoints -> Nat]
      BY <2>5, DoneKeepsTypes DEF EnableEndpoint
    <3>2. /\ endpointState' \in [Endpoints -> {"absent", "enabled", "disabled"}]
          /\ enabledAt' \in [Endpoints -> Nat]
      BY <2>5, <3>1 DEF EnableEndpoint
    <3> QED BY <2>5, <3>1, <3>2 DEF EnableEndpoint
  <2>6. ASSUME NEW r \in admitted, NEW retarget \in BOOLEAN, UpdateEndpoint(r, retarget)
        PROVE  TypeInv'
    <3>1. /\ r.endpoint \in Endpoints
          /\ admitted' \subseteq Request /\ endpointVersion' \in [Endpoints -> Nat]
      BY <2>6, DoneKeepsTypes DEF UpdateEndpoint
    <3>2. destination' \in [Endpoints -> Nat]
      BY <2>6, <3>1 DEF UpdateEndpoint
    <3> QED BY <2>6, <3>1, <3>2 DEF UpdateEndpoint
  <2>7. ASSUME NEW r \in admitted, ReplayEvent(r) PROVE TypeInv'
    BY <2>7 DEF ReplayEvent, Request, Statuses, Runnable
  <2>8. ASSUME NEW r \in admitted, NEW types \in SUBSET EventTypes, CreateEndpoint(r, types)
        PROVE  TypeInv'
    <3>1. /\ r.endpoint \in Endpoints /\ r.now \in Nat
          /\ admitted' \subseteq Request /\ endpointVersion' \in [Endpoints -> Nat]
      BY <2>8, DoneKeepsTypes DEF CreateEndpoint
    <3>2. Opened(types, r.now) \subseteq Interval
      BY <3>1 DEF Opened, Interval
    <3>3. /\ endpointState' \in [Endpoints -> {"absent", "enabled", "disabled"}]
          /\ enabledAt' \in [Endpoints -> Nat]
          /\ destination' \in [Endpoints -> Nat]
          /\ subscriptions' \in [Endpoints -> SUBSET Interval]
      BY <2>8, <3>1, <3>2 DEF CreateEndpoint
    <3>4. secret' \in [Endpoints -> [Secrets -> SecretStates]]
      BY <2>8, <3>1 DEF CreateEndpoint, SecretStates
    <3> QED BY <2>8, <3>1, <3>3, <3>4 DEF CreateEndpoint
  <2>9. ASSUME NEW r \in admitted, NEW types \in SUBSET EventTypes,
               ReplaceSubscriptions(r, types)
        PROVE  TypeInv'
    <3>1. r.endpoint \in Endpoints /\ r.now \in Nat
      BY DEF Request
    <3>2. status' \in [Deliveries -> Statuses]
      BY <2>9, CancelKeepsStatuses DEF ReplaceSubscriptions, Done
    <3>3. subscriptions' \in [Endpoints -> SUBSET Interval]
      <4> DEFINE open    == {i \in subscriptions[r.endpoint] : i.until = None}
                 removed == {i \in open : i.type \notin types}
                 added   == types \ {i.type : i \in open}
                 closed  == {[i EXCEPT !.until = r.now] : i \in removed}
      <4>1. removed \subseteq Interval
        BY <3>1
      <4>2. closed \subseteq Interval
        <5> HIDE DEF removed
        <5>1. ASSUME NEW i \in Interval PROVE [i EXCEPT !.until = r.now] \in Interval
          BY <3>1 DEF Interval
        <5> QED BY <4>1, <5>1
      <4>3. Opened(added, r.now) \subseteq Interval
        BY <3>1 DEF Opened, Interval
      <4>4. subscriptions' = [subscriptions EXCEPT ![r.endpoint] =
                                (@ \ removed) \cup closed \cup Opened(added, r.now)]
        BY <2>9 DEF ReplaceSubscriptions, Done
      <4> HIDE DEF removed, closed, added
      <4> QED BY <3>1, <4>2, <4>3, <4>4
    <3>4. admitted' \subseteq Request /\ endpointVersion' \in [Endpoints -> Nat]
      <4>1. Done(r)
        BY <2>9 DEF ReplaceSubscriptions
      <4> QED BY <3>1, <4>1 DEF Done
    <3> QED BY <2>9, <3>2, <3>3, <3>4 DEF ReplaceSubscriptions, Done
  <2>10. ASSUME NEW p \in Endpoints, DisableEndpoint(p) PROVE TypeInv'
    <3>1. status' \in [Deliveries -> Statuses] /\ budget' \in Budgets
      BY <2>10, CancelKeepsStatuses, SpendKeepsBudgets DEF DisableEndpoint
    <3> QED BY <2>10, <3>1 DEF DisableEndpoint
  <2>11. CASE ArchiveProject
    <3>1. status' \in [Deliveries -> Statuses] /\ budget' \in Budgets
      BY <2>11, CancelKeepsStatuses, SpendKeepsBudgets DEF ArchiveProject
    <3> QED BY <2>11, <3>1 DEF ArchiveProject
  <2>12. CASE RestoreProject
    <3>1. budget' \in Budgets
      BY <2>12, SpendKeepsBudgets DEF RestoreProject
    <3> QED BY <2>12, <3>1 DEF RestoreProject
  <2>13. ASSUME NEW e \in Events, BeginPublication(e) PROVE TypeInv'
    BY <2>13 DEF BeginPublication
  <2>14. ASSUME NEW e \in Events, CommitPublication(e) PROVE TypeInv'
    BY <2>14 DEF CommitPublication
  <2>15. ASSUME NEW w \in Workers, NEW rows \in SUBSET Events, DispatchRead(w, rows)
         PROVE  TypeInv'
    <3> DEFINE new == [rows |-> rows,
                       inserts |-> {[delivery |-> Initial(ep[1], ep[2]), target |-> destination[ep[2]]] :
                          ep \in {x \in WellFormed(rows) \X Endpoints : Eligible(x[2], x[1])}}]
    <3>1. plan' = [plan EXCEPT ![w] = new]
      BY <2>15 DEF DispatchRead
    <3>2. new \in Plans
      <4>1. \A e \in Events, p \in Endpoints :
              [delivery |-> Initial(e, p), target |-> destination[p]] \in Insert
        BY DEF Initial, Deliveries, Insert
      <4>2. WellFormed(rows) \subseteq Events
        BY DEF WellFormed
      <4> QED BY <4>1, <4>2 DEF Plans
    <3>3. \A e \in rows : outboxState[e] = "pending" /\ outboxTries[e] < MaxTries
      BY <2>15 DEF DispatchRead, Available
    <3>4. \A v \in Workers : rows \cap plan[v].rows = {}
      BY <2>15 DEF DispatchRead, Available, Locked
    <3> HIDE DEF new
    <3>5. plan' \in [Workers -> Plans]
      BY <3>1, <3>2
    <3>6. new.rows = rows
      BY DEF new
    <3>7. BatchInv'
      <4>1. UNCHANGED <<outboxState, outboxTries>>
        BY <2>15 DEF DispatchRead
      <4>2. \A v \in Workers : plan'[v].rows = IF v = w THEN rows ELSE plan[v].rows
        BY <3>1, <3>6
      <4> QED BY <4>1, <4>2, <3>3, <3>4
    <3> QED BY <2>15, <3>5, <3>7 DEF DispatchRead
  <2>16. ASSUME NEW w \in Workers, DispatchCommit(w) PROVE TypeInv'
    <3> USE <2>16 DEF DispatchCommit
    <3>1. status' \in [Deliveries -> Statuses]
      BY DEF Statuses, Runnable
    <3>2. target' \in [Deliveries -> Nat]
      <4> SUFFICES ASSUME NEW d \in Deliveries, \E i \in Inserted(w) : i.delivery = d
                   PROVE  (CHOOSE i \in Inserted(w) : i.delivery = d).target \in Nat
        OBVIOUS
      <4>1. Inserted(w) \subseteq Insert
        BY DEF Inserted, Plans
      <4>2. (CHOOSE i \in Inserted(w) : i.delivery = d) \in Inserted(w)
        OBVIOUS
      <4> QED BY <4>1, <4>2 DEF Insert
    <3>3. outboxState' \in [Events -> {"unpublished", "publishing", "pending", "processed"}]
      OBVIOUS
    <3>4. outboxTries' \in [Events -> 0..MaxTries]
      OBVIOUS
    <3>5. plan' \in [Workers -> Plans]
      BY DEF NoPlan, Plans
    <3>6. BatchInv'
      <4>1. \A v \in Workers : plan'[v].rows = IF v = w THEN {} ELSE plan[v].rows
        BY DEF NoPlan
      <4>2. \A e \in Events : e \notin plan[w].rows
              => outboxState'[e] = outboxState[e] /\ outboxTries'[e] = outboxTries[e]
        BY DEF Expanded
      <4>3. \A v \in Workers : plan[v].rows \subseteq Events
        BY DEF Plans
      <4> QED BY <4>1, <4>2, <4>3
    <3> QED BY <3>1, <3>2, <3>3, <3>4, <3>5, <3>6
  <2>17. ASSUME NEW t \in Tokens, LeaseElapses(t) PROVE TypeInv'
    BY <2>17 DEF LeaseElapses
  <2>18. ASSUME NEW d \in Deliveries, RecoverLease(d) PROVE TypeInv'
    <3> USE <2>18 DEF RecoverLease
    <3>1. Abandoned(d) \in [1..MaxAttempts -> AttemptStates]
      BY DEF Abandoned, AttemptStates
    <3>2. attempt' \in [Deliveries -> [1..MaxAttempts -> AttemptStates]]
      BY <3>1
    <3>3. status' \in [Deliveries -> Statuses]
      BY DEF Statuses, Settled, Runnable
    <3>4. endpointLease' \in [Endpoints -> Tokens \cup {None}]
      BY DEF ClearEndpointLease, Deliveries
    <3> QED BY <3>2, <3>3, <3>4
  <2>19. ASSUME NEW f \in Fibers, NEW d \in Deliveries, ClaimAttempt(f, d) PROVE TypeInv'
    <3> USE <2>19 DEF ClaimAttempt
    <3> DEFINE n == attemptCount[d] + 1
    <3>1. n \in 1..MaxAttempts
      OBVIOUS
    <3>2. Token(d, n) \in Tokens
      BY <3>1 DEF Token, Tokens
    <3>3. status' \in [Deliveries -> Statuses]
      BY DEF Statuses
    <3>4. attempt' \in [Deliveries -> [1..MaxAttempts -> AttemptStates]]
      BY DEF AttemptStates
    <3>5. fiber' \in [Fibers -> FiberStates] /\ FiberInv'
      <4>1. [Idle EXCEPT !.phase = "sending", !.token = Token(d, n)] \in FiberStates
        BY <3>2 DEF Idle, FiberStates, Phases
      <4>2. [Idle EXCEPT !.phase = "sending", !.token = Token(d, n)].token = Token(d, n)
        BY DEF Idle
      <4> QED BY <3>2, <4>1, <4>2
    <3>6. attemptCount' \in [Deliveries -> 0..MaxAttempts]
      BY <3>1
    <3>7. /\ endpointLease' \in [Endpoints -> Tokens \cup {None}]
          /\ lease' \in [Deliveries -> Tokens \cup {None}]
      BY <3>2 DEF Deliveries
    <3> QED BY <3>3, <3>4, <3>5, <3>6, <3>7
  <2>20. ASSUME NEW f \in Fibers, NEW d \in Deliveries, ClaimRefused(f, d) PROVE TypeInv'
    <3>1. WorkerOf[f] \in Workers
      OBVIOUS
    <3> QED BY <2>20, <3>1, ExitKeepsTypes DEF ClaimRefused
  <2>21. ASSUME NEW f \in Fibers, NEW answer \in Answers, NEW processed \in BOOLEAN,
                SendEnds(f, answer, processed)
         PROVE  TypeInv'
    <3>1. fiber[f].token \in Tokens
      BY <2>21 DEF SendEnds
    <3>2. fiber' \in [Fibers -> FiberStates] /\ FiberInv'
      <4> DEFINE next == [fiber[f] EXCEPT !.phase = "answered", !.answer = answer]
      <4>1. fiber[f] \in FiberStates
        OBVIOUS
      <4>2. next \in FiberStates /\ next.token = fiber[f].token
        BY <4>1 DEF FiberStates, Phases
      <4>3. fiber' = [fiber EXCEPT ![f] = next]
        BY <2>21, <4>1 DEF SendEnds, FiberStates
      <4> HIDE DEF next
      <4> QED BY <3>1, <4>2, <4>3
    <3> QED BY <2>21, <3>1, <3>2 DEF SendEnds
  <2>22. ASSUME NEW f \in Fibers, FinalizeStale(f) PROVE TypeInv'
    BY <2>22 DEF FinalizeStale, Idle, FiberStates, Phases
  <2>23. ASSUME NEW f \in Fibers, FinalizeRead(f) PROVE TypeInv'
    <3>1. fiber' \in [Fibers -> FiberStates] /\ FiberInv'
      <4> DEFINE next == [fiber[f] EXCEPT !.phase = "finalizing", !.sawArchived = archived]
      <4>1. fiber[f] \in FiberStates /\ fiber[f].token \in Tokens
        BY <2>23 DEF FinalizeRead
      <4>2. next \in FiberStates /\ next.token = fiber[f].token
        BY <4>1 DEF FiberStates, Phases
      <4>3. fiber' = [fiber EXCEPT ![f] = next]
        BY <2>23, <4>1 DEF FinalizeRead, FiberStates
      <4> HIDE DEF next
      <4> QED BY <4>1, <4>2, <4>3
    <3> QED BY <2>23, <3>1 DEF FinalizeRead
  <2>24. ASSUME NEW f \in Fibers, FinalizeCommit(f) PROVE TypeInv'
    <3> DEFINE t == fiber[f].token
    <3>1. t \in Tokens /\ t.delivery \in Deliveries /\ t.number \in 1..MaxAttempts
          /\ t.delivery.endpoint \in Endpoints
      BY <2>24 DEF FinalizeCommit, Tokens, Deliveries
    <3>2. FinalState(f) \in Settled \cup Runnable /\ FinalState(f) \in AttemptStates
      BY DEF FinalState, Settled, Runnable, AttemptStates
    <3>3. fiber' \in [Fibers -> FiberStates] /\ FiberInv'
      BY <2>24 DEF FinalizeCommit, Idle, FiberStates, Phases
    <3>4. CASE attempt[t.delivery][t.number] = "started"
      <4>1. /\ attempt' = [attempt EXCEPT ![t.delivery][t.number] = FinalState(f)]
            /\ status' = [status EXCEPT ![t.delivery] = FinalState(f)]
            /\ lease' = [lease EXCEPT ![t.delivery] = None]
            /\ ClearEndpointLease(t.delivery.endpoint, t)
        BY <2>24, <3>4 DEF FinalizeCommit
      <4>2. attempt' \in [Deliveries -> [1..MaxAttempts -> AttemptStates]]
        BY <3>1, <3>2, <4>1
      <4>3. status' \in [Deliveries -> Statuses]
        BY <3>1, <3>2, <4>1 DEF Statuses
      <4>4. /\ endpointLease' \in [Endpoints -> Tokens \cup {None}]
            /\ lease' \in [Deliveries -> Tokens \cup {None}]
        BY <3>1, <4>1 DEF ClearEndpointLease
      <4> QED BY <2>24, <3>3, <4>2, <4>3, <4>4 DEF FinalizeCommit
    <3>5. CASE attempt[t.delivery][t.number] # "started"
      <4>1. UNCHANGED <<attempt, status, lease, endpointLease>>
        BY <2>24, <3>5 DEF FinalizeCommit
      <4> QED BY <2>24, <3>3, <4>1 DEF FinalizeCommit
    <3> QED BY <3>4, <3>5
  <2>25. ASSUME NEW w \in Workers, WorkerCrash(w) PROVE TypeInv'
    <3>1. budget' \in Budgets
      BY <2>25, SpendKeepsBudgets DEF WorkerCrash
    <3> QED BY <2>25, <3>1, ExitKeepsTypes DEF WorkerCrash
  <2>26. ASSUME NEW op \in Rotations, NEW p \in Endpoints, AdmitRotation(op, p) PROVE TypeInv'
    <3> DEFINE r == [op |-> op, endpoint |-> p, now |-> 0, version |-> endpointVersion[p],
                     event |-> None, command |-> None, target |-> LastSecret(p)]
    <3>1. budget' \in Budgets
      BY <2>26, SpendKeepsBudgets DEF AdmitRotation
    <3>2. r \in Request
      BY LastSecretIsNatural DEF Request, Operations
    <3>3. admitted' = admitted \cup {r}
      BY <2>26 DEF AdmitRotation
    <3> HIDE DEF r
    <3> QED BY <2>26, <3>1, <3>2, <3>3 DEF AdmitRotation
  <2>27. ASSUME NEW r \in admitted,
                \/ StartSecretRotation(r) \/ ActivateRotation(r)
                \/ CancelRotation(r) \/ CompleteRotation(r)
         PROVE  TypeInv'
    <3>1. /\ r.endpoint \in Endpoints
          /\ admitted' \subseteq Request /\ endpointVersion' \in [Endpoints -> Nat]
      BY <2>27, DoneKeepsTypes
         DEF StartSecretRotation, ActivateRotation, CancelRotation, CompleteRotation
    <3>2. secret' \in [Endpoints -> [Secrets -> SecretStates]]
      <4>1. CASE StartSecretRotation(r)
        BY <3>1, <4>1 DEF StartSecretRotation, SecretStates
      <4>2. CASE ActivateRotation(r)
        <5>1. PICK new \in Secrets, old \in Secrets :
                secret' = [secret EXCEPT ![r.endpoint] = Replaced(r.endpoint, new, old)]
          BY <4>2 DEF ActivateRotation, In
        <5>2. Replaced(r.endpoint, new, old) \in [Secrets -> SecretStates]
          BY <3>1 DEF Replaced, SecretStates
        <5> QED BY <5>1, <5>2
      <4>3. CASE CancelRotation(r)
        <5>1. PICK s \in Secrets : secret' = [secret EXCEPT ![r.endpoint][s] = "canceled"]
          BY <4>3 DEF CancelRotation, In
        <5> QED BY <5>1 DEF SecretStates
      <4>4. CASE CompleteRotation(r)
        <5>1. PICK s \in Secrets : secret' = [secret EXCEPT ![r.endpoint][s] = "retired"]
          BY <4>4 DEF CompleteRotation, In
        <5> QED BY <5>1 DEF SecretStates
      <4> QED BY <2>27, <4>1, <4>2, <4>3, <4>4
    <3>3. OnlySecrets
      BY <2>27 DEF StartSecretRotation, ActivateRotation, CancelRotation, CompleteRotation
    <3> QED BY <3>1, <3>2, <3>3 DEF OnlySecrets
  <2>28. ASSUME NEW p \in Endpoints, NEW s \in Secrets, SecretLapses(p, s) PROVE TypeInv'
    BY <2>28 DEF SecretLapses, SecretStates
  <2>29. CASE UNCHANGED vars
    BY <2>29 DEF vars
  <2> HIDE DEF TypeInv, TypeOK, BatchInv, FiberInv
  <2> QED BY <2>1, <2>2, <2>3, <2>4, <2>5, <2>6, <2>7, <2>8, <2>9, <2>10, <2>11, <2>12, <2>13,
             <2>14, <2>15, <2>16, <2>17, <2>18, <2>19, <2>20, <2>21, <2>22, <2>23, <2>24, <2>25,
             <2>26, <2>27, <2>28, <2>29
          DEF Next, Administration, Rotating, Dispatching, Attempting
<1> QED BY <1>1, <1>2, PTL DEF Spec

(* Every variable of the pipeline keeps its type. *)
THEOREM TypesHold == Spec => []TypeOK
BY TypeCorrect, PTL DEF TypeInv

-----------------------------------------------------------------------------
(* Leases *)

(***************************************************************************)
(* Exclusion is not inductive by itself.  A delivery being delivered holds *)
(* the token of its latest attempt; a running lease is the one its         *)
(* endpoint records; and a finalizing loop, which has locked the delivery, *)
(* still holds its lease and is alone with it.                             *)
(***************************************************************************)
LeaseMatchesStatus ==
  \A d \in Deliveries :
    /\ lease[d] = IF status[d] = "delivering" THEN Token(d, attemptCount[d]) ELSE None
    /\ status[d] = "delivering" => attemptCount[d] # 0

LiveIsRecorded == \A d \in Deliveries : Live(d) => endpointLease[d.endpoint] = lease[d]

Finalizing(f) == fiber[f].phase = "finalizing"

FinalizersHold == \A f \in Fibers : Finalizing(f) => HoldsLease(f)

FinalizersAreAlone ==
  \A f, g \in Fibers :
    Finalizing(f) /\ Finalizing(g) /\ fiber[f].token.delivery = fiber[g].token.delivery => f = g

LeaseInv == LeaseMatchesStatus /\ LiveIsRecorded /\ FinalizersHold /\ FinalizersAreAlone

PipelineInv == TypeInv /\ LeaseInv /\ AttemptLedger

(* What every step but five leaves alone. *)
Quiet ==
  /\ UNCHANGED <<endpointLease, lease, attemptCount, elapsed, attempt>>
  /\ \A d \in Deliveries :
       /\ status[d] = "delivering" <=> status'[d] = "delivering"
       /\ status[d] \in Settled => status'[d] = status[d]
  /\ \A f \in Fibers : fiber'[f].phase = "finalizing" => fiber'[f] = fiber[f]

(* A bulk cancellation touches neither open attempts nor settled runs. *)
LEMMA CancelIsQuiet ==
  ASSUME NEW D, CancelWaiting(D),
         UNCHANGED <<endpointLease, lease, attemptCount, elapsed, attempt, fiber>>
  PROVE  Quiet
BY DEF CancelWaiting, Quiet, Settled, Runnable

(* Only claiming, recovering, expiring and finalizing touch the leases. *)
LEMMA MostStepsAreQuiet ==
  ASSUME TypeInv, [Next]_vars
  PROVE  \/ Quiet
         \/ \E t \in Tokens : LeaseElapses(t)
         \/ \E d \in Deliveries : RecoverLease(d)
         \/ \E f \in Fibers, d \in Deliveries : ClaimAttempt(f, d)
         \/ \E f \in Fibers : FinalizeRead(f) \/ FinalizeCommit(f)
<1> USE DEF deliveryVars, leaseVars
<1>1. CASE Tick
  BY <1>1 DEF Tick, Quiet
<1>2. CASE Administration
  <2>1. ASSUME NEW op \in Operations \ ({"replay"} \cup Rotations), NEW p \in Endpoints,
               Admit(op, p)
        PROVE  Quiet
    BY <2>1 DEF Admit, AdmitRequest, Quiet
  <2>2. ASSUME NEW p \in Endpoints, NEW e \in Events, NEW c \in Commands, AdmitReplay(p, e, c)
        PROVE  Quiet
    BY <2>2 DEF AdmitReplay, AdmitRequest, Quiet
  <2>3. ASSUME NEW r \in admitted, Refuse(r) \/ EnableEndpoint(r)
        PROVE  Quiet
    BY <2>3 DEF Refuse, EnableEndpoint, Quiet
  <2>10. ASSUME NEW r \in admitted, NEW retarget \in BOOLEAN, UpdateEndpoint(r, retarget)
         PROVE  Quiet
    BY <2>10 DEF UpdateEndpoint, Quiet
  <2>4. ASSUME NEW r \in admitted, ReplayEvent(r) PROVE Quiet
    <3> DEFINE d == [event |-> r.event, endpoint |-> r.endpoint, command |-> r.command]
    <3>1. d \in Deliveries => status[d] = "absent"
      BY <2>4 DEF ReplayEvent, CommandUnused
    <3>2. \A x \in Deliveries : status'[x] = IF x = d THEN "queued" ELSE status[x]
      BY <2>4 DEF ReplayEvent, TypeInv, TypeOK
    <3> QED BY <2>4, <3>1, <3>2 DEF ReplayEvent, Quiet, Settled
  <2>5. ASSUME NEW r \in admitted, NEW types \in SUBSET EventTypes, CreateEndpoint(r, types)
        PROVE  Quiet
    BY <2>5 DEF CreateEndpoint, Quiet
  <2>6. ASSUME NEW r \in admitted, NEW types \in SUBSET EventTypes,
               ReplaceSubscriptions(r, types)
        PROVE  Quiet
    BY <2>6, CancelIsQuiet DEF ReplaceSubscriptions, Done
  <2>7. ASSUME NEW p \in Endpoints, DisableEndpoint(p) PROVE Quiet
    BY <2>7, CancelIsQuiet DEF DisableEndpoint
  <2>8. CASE ArchiveProject
    BY <2>8, CancelIsQuiet DEF ArchiveProject
  <2>9. CASE RestoreProject
    BY <2>9 DEF RestoreProject, Quiet
  <2> QED BY <1>2, <2>1, <2>2, <2>3, <2>4, <2>5, <2>6, <2>7, <2>8, <2>9, <2>10 DEF Administration
<1>3. CASE Dispatching
  <2>1. ASSUME NEW e \in Events, BeginPublication(e) \/ CommitPublication(e) PROVE Quiet
    BY <2>1 DEF BeginPublication, CommitPublication, Quiet
  <2>2. ASSUME NEW w \in Workers, NEW rows \in SUBSET Events, DispatchRead(w, rows) PROVE Quiet
    BY <2>2 DEF DispatchRead, Quiet
  <2>3. ASSUME NEW w \in Workers, DispatchCommit(w) PROVE Quiet
    <3>1. \A i \in Inserted(w) : status[i.delivery] = "absent"
      BY DEF Inserted
    <3> QED BY <2>3, <3>1 DEF DispatchCommit, Quiet, Settled
  <2> QED BY <1>3, <2>1, <2>2, <2>3 DEF Dispatching
<1>4. CASE Attempting
  <2>1. ASSUME NEW w \in Workers, Exit(w), UNCHANGED deliveryVars, UNCHANGED leaseVars
        PROVE  Quiet
    BY <2>1 DEF Exit, Idle, Quiet
  <2>2. ASSUME NEW f \in Fibers, NEW d \in Deliveries, ClaimRefused(f, d) PROVE Quiet
    <3>1. WorkerOf[f] \in Workers
      BY WebhookConstants
    <3> QED BY <2>1, <2>2, <3>1 DEF ClaimRefused
  <2>3. ASSUME NEW f \in Fibers, NEW answer \in Answers, NEW processed \in BOOLEAN,
               SendEnds(f, answer, processed)
        PROVE  Quiet
    BY <2>3 DEF SendEnds, Quiet, TypeInv, TypeOK, FiberStates
  <2>4. ASSUME NEW f \in Fibers, FinalizeStale(f) PROVE Quiet
    BY <2>4 DEF FinalizeStale, Idle, Quiet, TypeInv, TypeOK
  <2>5. ASSUME NEW w \in Workers, WorkerCrash(w) PROVE Quiet
    BY <2>1, <2>5 DEF WorkerCrash
  <2> QED BY <1>4, <2>2, <2>3, <2>4, <2>5 DEF Attempting
<1>5. CASE Rotating
  <2>1. ASSUME NEW op \in Rotations, NEW p \in Endpoints, AdmitRotation(op, p) PROVE Quiet
    BY <2>1 DEF AdmitRotation, Quiet
  <2>2. ASSUME OnlySecrets PROVE Quiet
    BY <2>2 DEF OnlySecrets, Quiet
  <2>3. ASSUME NEW p \in Endpoints, NEW s \in Secrets, SecretLapses(p, s) PROVE Quiet
    BY <2>3 DEF SecretLapses, Quiet
  <2> QED BY <1>5, <2>1, <2>2, <2>3
          DEF Rotating, StartSecretRotation, ActivateRotation, CancelRotation, CompleteRotation
<1>6. CASE UNCHANGED vars
  BY <1>6 DEF vars, Quiet
<1> QED BY <1>1, <1>2, <1>3, <1>4, <1>5, <1>6 DEF Next

(* The lease invariant, and with it the ledger of attempts, is inductive. *)
THEOREM LeasesCorrect == Spec => []PipelineInv
<1> USE WebhookConstants, NullIsNoToken
<1>1. Init => LeaseInv /\ AttemptLedger
  BY DEF Init, InitStore, LeaseInv, LeaseMatchesStatus, LiveIsRecorded, Live, FinalizersHold,
         FinalizersAreAlone, Finalizing, Idle, AttemptLedger
<1>2. ASSUME PipelineInv, [Next]_vars PROVE LeaseInv' /\ AttemptLedger'
  <2> USE <1>2 DEF PipelineInv, LeaseInv
  <2>0. TypeOK
    BY DEF TypeInv
  <2>a. \A d \in Deliveries : d.endpoint \in Endpoints
    BY DEF Deliveries
  <2>b. \A f \in Fibers : Finalizing(f) => /\ fiber[f].token \in Tokens
                                           /\ fiber[f].token.delivery \in Deliveries
    BY DEF TypeInv, FiberInv, Finalizing, Tokens
  <2>1. CASE Quiet
    <3>1. LeaseMatchesStatus'
      BY <2>1 DEF Quiet, LeaseMatchesStatus
    <3>2. LiveIsRecorded'
      BY <2>1 DEF Quiet, LiveIsRecorded, Live
    <3>3. FinalizersHold'
      BY <2>1, <2>b DEF Quiet, FinalizersHold, Finalizing, HoldsLease
    <3>4. FinalizersAreAlone'
      BY <2>1 DEF Quiet, FinalizersAreAlone, Finalizing
    <3>5. AttemptLedger'
      BY <2>1 DEF Quiet, AttemptLedger
    <3> QED BY <3>1, <3>2, <3>3, <3>4, <3>5
  <2>2. ASSUME NEW t \in Tokens, LeaseElapses(t) PROVE LeaseInv' /\ AttemptLedger'
    BY <2>2 DEF LeaseElapses, LeaseMatchesStatus, LiveIsRecorded, Live, FinalizersHold, HoldsLease,
                FinalizersAreAlone, Finalizing, AttemptLedger, deliveryVars
  <2>3. ASSUME NEW d \in Deliveries, RecoverLease(d) PROVE LeaseInv' /\ AttemptLedger'
    <3> USE <2>0, <2>3 DEF RecoverLease, TypeOK
    <3>1. \A x \in Deliveries : /\ x # d => status'[x] = status[x] /\ lease'[x] = lease[x]
                                            /\ attempt'[x] = attempt[x]
                                /\ x = d => status'[x] # "delivering" /\ lease'[x] = None
                                            /\ attempt'[x] = Abandoned(d)
      OBVIOUS
    <3>2. LeaseMatchesStatus'
      BY <3>1 DEF LeaseMatchesStatus
    <3>3. LiveIsRecorded'
      <4> SUFFICES ASSUME NEW x \in Deliveries, Live(x)'
                   PROVE  endpointLease'[x.endpoint] = lease'[x]
        BY DEF LiveIsRecorded
      <4>1. x # d /\ Live(x)
        BY <3>1 DEF Live
      <4>2. endpointLease[x.endpoint] = lease[x]
        BY <4>1 DEF LiveIsRecorded
      <4>3. lease[x] # lease[d]
        BY <4>1 DEF LeaseMatchesStatus, Live, Token
      <4> QED BY <2>a, <3>1, <4>1, <4>2, <4>3 DEF ClearEndpointLease
    <3>4. \A f \in Fibers : Finalizing(f) => fiber[f].token.delivery # d
      BY DEF RowFree, Finalizing
    <3>5. FinalizersHold'
      BY <2>b, <3>1, <3>4 DEF FinalizersHold, Finalizing, HoldsLease
    <3>6. FinalizersAreAlone'
      BY DEF FinalizersAreAlone, Finalizing
    <3>7. AttemptLedger'
      BY <3>1 DEF AttemptLedger, Abandoned
    <3> QED BY <3>2, <3>3, <3>5, <3>6, <3>7
  <2>4. ASSUME NEW f \in Fibers, NEW d \in Deliveries, ClaimAttempt(f, d)
        PROVE  LeaseInv' /\ AttemptLedger'
    <3> DEFINE n == attemptCount[d] + 1
    <3> USE <2>0, <2>4 DEF ClaimAttempt, TypeOK
    <3>1. status[d] # "delivering"
      BY DEF Claimable, Runnable
    <3>2. \A x \in Deliveries : /\ x # d => status'[x] = status[x] /\ lease'[x] = lease[x]
                                            /\ attempt'[x] = attempt[x]
                                            /\ attemptCount'[x] = attemptCount[x]
                                /\ x = d => status'[x] = "delivering" /\ lease'[x] = Token(d, n)
                                            /\ attempt'[x] = [attempt[d] EXCEPT ![n] = "started"]
                                            /\ attemptCount'[x] = n
      OBVIOUS
    <3>3. LeaseMatchesStatus'
      BY <3>2 DEF LeaseMatchesStatus
    <3>4. LiveIsRecorded'
      <4> SUFFICES ASSUME NEW x \in Deliveries, Live(x)'
                   PROVE  endpointLease'[x.endpoint] = lease'[x]
        BY DEF LiveIsRecorded
      <4>1. CASE x = d
        BY <2>a, <3>2, <4>1
      <4>2. CASE x # d
        <5>1. Live(x) /\ endpointLease[x.endpoint] = lease[x]
          BY <3>2, <4>2 DEF Live, LiveIsRecorded
        <5>2. lease[x] # None /\ lease[x] \notin elapsed
          <6>1. lease[x] = Token(x, attemptCount[x]) /\ attemptCount[x] \in 1..MaxAttempts
            BY <5>1 DEF Live, LeaseMatchesStatus
          <6> QED BY <5>1, <6>1 DEF Live, Token, Tokens
        <5>3. x.endpoint # d.endpoint
          BY <5>1, <5>2 DEF Claimable, EndpointFree
        <5> QED BY <2>a, <3>2, <4>2, <5>1, <5>3
      <4> QED BY <4>1, <4>2
    <3>5. \A g \in Fibers : Finalizing(g)' => g # f /\ Finalizing(g) /\ fiber'[g] = fiber[g]
      BY DEF Finalizing, Idle
    <3>6. \A g \in Fibers : Finalizing(g) => fiber[g].token.delivery # d
      BY <3>1 DEF FinalizersHold, HoldsLease
    <3>7. FinalizersHold'
      BY <2>b, <3>2, <3>5, <3>6 DEF FinalizersHold, HoldsLease
    <3>8. FinalizersAreAlone'
      BY <3>5 DEF FinalizersAreAlone
    <3>9. AttemptLedger'
      <4> SUFFICES ASSUME NEW x \in Deliveries, NEW k \in 1..MaxAttempts
                   PROVE  /\ attempt'[x][k] = "absent" <=> k > attemptCount'[x]
                          /\ attempt'[x][k] = "started"
                               <=> status'[x] = "delivering" /\ k = attemptCount'[x]
        BY DEF AttemptLedger
      <4>1. CASE x # d
        BY <3>2, <4>1 DEF AttemptLedger
      <4>2. CASE x = d
        <5>1. attempt'[x][k] = IF k = n THEN "started" ELSE attempt[d][k]
          BY <3>2, <4>2
        <5> QED BY <3>1, <3>2, <4>2, <5>1 DEF AttemptLedger
      <4> QED BY <4>1, <4>2
    <3> QED BY <3>3, <3>4, <3>7, <3>8, <3>9
  <2>5. ASSUME NEW f \in Fibers, FinalizeRead(f) PROVE LeaseInv' /\ AttemptLedger'
    <3> USE <2>0, <2>5 DEF FinalizeRead, TypeOK
    <3>1. UNCHANGED <<status, attemptCount, lease, attempt, endpointLease, elapsed>>
      BY DEF deliveryVars, leaseVars
    <3>2. \A g \in Fibers : /\ g # f => fiber'[g] = fiber[g]
                            /\ fiber'[g].token = fiber[g].token
      BY DEF FiberStates
    <3>3. LeaseMatchesStatus' /\ LiveIsRecorded' /\ AttemptLedger'
      BY <3>1 DEF LeaseMatchesStatus, LiveIsRecorded, Live, AttemptLedger
    <3>4. FinalizersHold'
      BY <3>1, <3>2 DEF FinalizersHold, Finalizing, HoldsLease
    <3>5. FinalizersAreAlone'
      BY <3>2 DEF FinalizersAreAlone, Finalizing, RowFree
    <3> QED BY <3>3, <3>4, <3>5
  <2>6. ASSUME NEW f \in Fibers, FinalizeCommit(f) PROVE LeaseInv' /\ AttemptLedger'
    <3> DEFINE t == fiber[f].token
               d == t.delivery
    <3> USE <2>0, <2>6 DEF TypeOK
    <3>1. Finalizing(f) /\ t \in Tokens /\ d \in Deliveries /\ t.number \in 1..MaxAttempts
      BY <2>b DEF FinalizeCommit, Finalizing, Tokens
    <3>2. status[d] = "delivering" /\ lease[d] = t /\ t = Token(d, attemptCount[d])
      BY <3>1 DEF FinalizersHold, HoldsLease, LeaseMatchesStatus
    <3>3. t.number = attemptCount[d] /\ attempt[d][t.number] = "started"
      BY <3>1, <3>2 DEF AttemptLedger, Token
    <3>4. /\ fiber' = [fiber EXCEPT ![f] = Idle]
          /\ attempt' = [attempt EXCEPT ![d][t.number] = FinalState(f)]
          /\ status' = [status EXCEPT ![d] = FinalState(f)]
          /\ lease' = [lease EXCEPT ![d] = None]
          /\ ClearEndpointLease(d.endpoint, t)
          /\ UNCHANGED <<attemptCount, elapsed>>
      BY <3>3 DEF FinalizeCommit
    <3>5. FinalState(f) \notin {"absent", "started", "delivering"}
      BY DEF FinalState
    <3>6. \A x \in Deliveries : /\ x # d => status'[x] = status[x] /\ lease'[x] = lease[x]
                                            /\ attempt'[x] = attempt[x]
                                /\ x = d => status'[x] = FinalState(f) /\ lease'[x] = None
      BY <3>4
    <3>7. LeaseMatchesStatus'
      BY <3>4, <3>5, <3>6 DEF LeaseMatchesStatus
    <3>8. LiveIsRecorded'
      <4> SUFFICES ASSUME NEW x \in Deliveries, Live(x)'
                   PROVE  endpointLease'[x.endpoint] = lease'[x]
        BY DEF LiveIsRecorded
      <4>1. x # d /\ Live(x)
        BY <3>4, <3>5, <3>6 DEF Live
      <4>2. endpointLease[x.endpoint] = lease[x] /\ lease[x] # t
        BY <3>2, <4>1 DEF LiveIsRecorded, LeaseMatchesStatus, Live, Token
      <4> QED BY <2>a, <3>4, <3>6, <4>1, <4>2 DEF ClearEndpointLease
    <3>9. \A g \in Fibers : Finalizing(g)' => g # f /\ Finalizing(g) /\ fiber'[g] = fiber[g]
      BY <3>4 DEF Finalizing, Idle
    <3>10. \A g \in Fibers : Finalizing(g)' => fiber[g].token.delivery # d
      BY <3>1, <3>9 DEF FinalizersAreAlone
    <3>11. FinalizersHold'
      <4> SUFFICES ASSUME NEW g \in Fibers, Finalizing(g)' PROVE HoldsLease(g)'
        BY DEF FinalizersHold
      <4>1. HoldsLease(g) /\ fiber'[g] = fiber[g]
        BY <3>9 DEF FinalizersHold
      <4>2. fiber[g].token.delivery \in Deliveries /\ fiber[g].token.delivery # d
        BY <2>b, <3>9, <3>10
      <4> QED BY <3>6, <4>1, <4>2 DEF HoldsLease
    <3>12. FinalizersAreAlone'
      BY <3>9 DEF FinalizersAreAlone
    <3>13. AttemptLedger'
      <4> SUFFICES ASSUME NEW x \in Deliveries, NEW k \in 1..MaxAttempts
                   PROVE  /\ attempt'[x][k] = "absent" <=> k > attemptCount'[x]
                          /\ attempt'[x][k] = "started"
                               <=> status'[x] = "delivering" /\ k = attemptCount'[x]
        BY DEF AttemptLedger
      <4>1. CASE x # d
        BY <3>4, <3>6, <4>1 DEF AttemptLedger
      <4>2. CASE x = d
        <5>1. attempt'[x][k] = IF k = t.number THEN FinalState(f) ELSE attempt[d][k]
          BY <3>1, <3>4, <4>2
        <5> QED BY <3>2, <3>3, <3>4, <3>5, <3>6, <4>2, <5>1 DEF AttemptLedger
      <4> QED BY <4>1, <4>2
    <3> QED BY <3>7, <3>8, <3>11, <3>12, <3>13
  <2> HIDE DEF LeaseInv
  <2> QED BY <2>1, <2>2, <2>3, <2>4, <2>5, <2>6, MostStepsAreQuiet
<1>3. PipelineInv /\ [Next]_vars => (LeaseInv /\ AttemptLedger)'
  BY <1>2
<1>4. TypeInv /\ LeaseInv /\ AttemptLedger <=> PipelineInv
  BY DEF PipelineInv
<1> QED BY <1>1, <1>3, <1>4, TypeCorrect, PTL DEF Spec

-----------------------------------------------------------------------------
(* What follows from the invariant *)

(* The attempt rows and the delivery row never disagree on what is open.   *)
THEOREM AttemptLedgerHolds == Spec => []AttemptLedger
BY LeasesCorrect, PTL DEF PipelineInv

(* Two running leases of one endpoint are the same lease. *)
THEOREM OneLiveAttempt == Spec => []OneLiveAttemptPerEndpoint
<1>1. LeaseInv => OneLiveAttemptPerEndpoint
  <2> SUFFICES ASSUME LeaseInv, NEW d1 \in Deliveries, NEW d2 \in Deliveries,
                      Live(d1), Live(d2), d1.endpoint = d2.endpoint
               PROVE  d1 = d2
    BY DEF OneLiveAttemptPerEndpoint
  <2>1. lease[d1] = lease[d2]
    BY DEF LeaseInv, LiveIsRecorded
  <2>2. Token(d1, attemptCount[d1]) = Token(d2, attemptCount[d2])
    BY <2>1 DEF LeaseInv, LeaseMatchesStatus, Live
  <2>3. Token(d1, attemptCount[d1]).delivery = d1 /\ Token(d2, attemptCount[d2]).delivery = d2
    BY DEF Token
  <2> QED BY <2>2, <2>3
<1>2. PipelineInv => LeaseInv
  BY DEF PipelineInv
<1> QED BY <1>1, <1>2, LeasesCorrect, PTL

(* A stale loop never ends a delivery that was claimed again. *)
THEOREM HolderFinishes == Spec => OnlyTheHolderFinishes
<1> DEFINE Step == \A d \in Deliveries :
       status[d] = "delivering" /\ status'[d] # "delivering"
         => \/ lease[d] \in elapsed
            \/ \E f \in Fibers : fiber[f].token = lease[d] /\ fiber'[f] = Idle
<1>1. ASSUME PipelineInv, [Next]_vars PROVE Step
  <2> SUFFICES ASSUME NEW d \in Deliveries, status[d] = "delivering", status'[d] # "delivering"
               PROVE  \/ lease[d] \in elapsed
                      \/ \E f \in Fibers : fiber[f].token = lease[d] /\ fiber'[f] = Idle
    OBVIOUS
  <2> USE <1>1 DEF PipelineInv, LeaseInv, TypeInv, TypeOK
  <2>1. CASE Quiet
    BY <2>1 DEF Quiet
  <2>2. ASSUME NEW t \in Tokens, LeaseElapses(t) PROVE FALSE
    BY <2>2 DEF LeaseElapses, deliveryVars
  <2>3. ASSUME NEW x \in Deliveries, RecoverLease(x) PROVE lease[d] \in elapsed
    BY <2>3 DEF RecoverLease
  <2>4. ASSUME NEW f \in Fibers, NEW x \in Deliveries, ClaimAttempt(f, x) PROVE FALSE
    BY <2>4 DEF ClaimAttempt
  <2>5. ASSUME NEW f \in Fibers, FinalizeRead(f) PROVE FALSE
    BY <2>5 DEF FinalizeRead, deliveryVars
  <2>6. ASSUME NEW f \in Fibers, FinalizeCommit(f)
        PROVE  fiber[f].token = lease[d] /\ fiber'[f] = Idle
    <3>1. fiber[f].token.delivery = d
      BY <2>6 DEF FinalizeCommit
    <3>2. HoldsLease(f)
      BY <2>6 DEF FinalizeCommit, Finalizing, FinalizersHold
    <3> QED BY <2>6, <3>1, <3>2 DEF FinalizeCommit, HoldsLease
  <2> HIDE DEF PipelineInv
  <2>7. TypeInv
    BY <1>1 DEF PipelineInv
  <2> QED BY <1>1, <2>1, <2>2, <2>3, <2>4, <2>5, <2>6, <2>7, MostStepsAreQuiet
<1>2. PipelineInv /\ [Next]_vars => [Step]_vars
  BY <1>1
<1> QED BY <1>2, LeasesCorrect, PTL DEF Spec, OnlyTheHolderFinishes

(* Ended runs and closed attempts are never written again. *)
THEOREM HistoryKept == Spec => HistoryIsFinal
<1> DEFINE Step == \A d \in Deliveries :
       /\ status[d] \in Settled => status'[d] = status[d] /\ attemptCount'[d] = attemptCount[d]
       /\ \A n \in 1..MaxAttempts :
            attempt[d][n] \notin {"absent", "started"} => attempt'[d][n] = attempt[d][n]
<1>1. ASSUME PipelineInv, [Next]_vars PROVE Step
  <2>0. TypeInv /\ LeaseInv /\ AttemptLedger
    BY <1>1 DEF PipelineInv
  <2> USE <1>1, <2>0 DEF TypeInv, TypeOK, Settled
  <2>1. CASE Quiet
    BY <2>1 DEF Quiet
  <2>2. ASSUME NEW t \in Tokens, LeaseElapses(t) PROVE Step
    BY <2>2 DEF LeaseElapses, deliveryVars
  <2>3. ASSUME NEW x \in Deliveries, RecoverLease(x) PROVE Step
    BY <2>3 DEF RecoverLease, Abandoned
  <2>4. ASSUME NEW f \in Fibers, NEW x \in Deliveries, ClaimAttempt(f, x) PROVE Step
    <3> DEFINE k == attemptCount[x] + 1
    <3>1. k \in 1..MaxAttempts /\ status[x] \notin Settled
      BY <2>4, WebhookConstants DEF ClaimAttempt, Claimable, Runnable
    <3>2. attempt[x][k] = "absent"
      BY <3>1 DEF AttemptLedger
    <3>3. /\ status' = [status EXCEPT ![x] = "delivering"]
          /\ attemptCount' = [attemptCount EXCEPT ![x] = k]
          /\ attempt' = [attempt EXCEPT ![x][k] = "started"]
      BY <2>4 DEF ClaimAttempt
    <3>4. ASSUME NEW d \in Deliveries, NEW n \in 1..MaxAttempts, attempt[d][n] # "absent"
          PROVE  attempt'[d][n] = attempt[d][n]
      BY <3>1, <3>2, <3>3, <3>4
    <3> QED BY <3>1, <3>3, <3>4
  <2>5. ASSUME NEW f \in Fibers, FinalizeRead(f) PROVE Step
    BY <2>5 DEF FinalizeRead, deliveryVars
  <2>6. ASSUME NEW f \in Fibers, FinalizeCommit(f) PROVE Step
    <3> DEFINE t == fiber[f].token
    <3>1. status[t.delivery] = "delivering"
      BY <2>6 DEF FinalizeCommit, LeaseInv, FinalizersHold, Finalizing, HoldsLease
    <3>2. CASE attempt[t.delivery][t.number] = "started"
      <4>1. /\ status' = [status EXCEPT ![t.delivery] = FinalState(f)]
            /\ attempt' = [attempt EXCEPT ![t.delivery][t.number] = FinalState(f)]
            /\ UNCHANGED attemptCount
        BY <2>6, <3>2 DEF FinalizeCommit
      <4>2. ASSUME NEW d \in Deliveries, NEW n \in 1..MaxAttempts, attempt[d][n] # "started"
            PROVE  attempt'[d][n] = attempt[d][n]
        BY <3>2, <4>1, <4>2
      <4> QED BY <3>1, <4>1, <4>2
    <3>3. CASE attempt[t.delivery][t.number] # "started"
      BY <2>6, <3>3 DEF FinalizeCommit
    <3> QED BY <3>2, <3>3
  <2> HIDE DEF TypeInv
  <2> QED BY <2>1, <2>2, <2>3, <2>4, <2>5, <2>6, MostStepsAreQuiet
<1>2. PipelineInv /\ [Next]_vars => [Step]_vars
  BY <1>1
<1> QED BY <1>2, LeasesCorrect, PTL DEF Spec, HistoryIsFinal

-----------------------------------------------------------------------------
(* Refinement *)

Open == {t \in Tokens : lease[t.delivery] = t}
Used == {t \in Tokens : t.number <= attemptCount[t.delivery]}

(* The second transaction of claimAttempt draws a token. *)
LEMMA ClaimAcquires ==
  ASSUME TypeInv, LeaseInv, NEW f \in Fibers, NEW d \in Deliveries, ClaimAttempt(f, d),
         NEW t \in Tokens, t = Token(d, attemptCount[d] + 1)
  PROVE  Lease!Acquire(t)
<1>1. t.delivery = d /\ t.number = attemptCount[d] + 1 /\ d.endpoint \in Endpoints
  BY DEF Token, Deliveries
<1>2. attemptCount \in [Deliveries -> Nat] /\ lease \in [Deliveries -> Tokens \cup {None}]
  BY WebhookConstants DEF TypeInv, TypeOK
<1>3. t \notin Used
  BY <1>1, <1>2 DEF Used
<1>4. endpointLease[t.delivery.endpoint] = None \/ endpointLease[t.delivery.endpoint] \in elapsed
  BY <1>1 DEF ClaimAttempt, Claimable, EndpointFree
<1>5. Open' = Open \cup {t}
  <2>1. lease' = [lease EXCEPT ![d] = t]
    BY DEF ClaimAttempt
  <2>2. lease[d] = None
    BY DEF LeaseInv, LeaseMatchesStatus, ClaimAttempt, Claimable, Runnable
  <2>3. \A u \in Tokens : u.delivery \in Deliveries
    BY DEF Tokens
  <2> QED BY <1>1, <1>2, <2>1, <2>2, <2>3, NullIsNoToken DEF Open
<1>6. Used' = Used \cup {t}
  <2>1. attemptCount' = [attemptCount EXCEPT ![d] = attemptCount[d] + 1]
    BY DEF ClaimAttempt
  <2>2. \A u \in Tokens : u.delivery = d /\ u.number = attemptCount[d] + 1 => u = t
    BY DEF Tokens, Token
  <2>3. \A u \in Tokens : u.delivery \in Deliveries /\ u.number \in Nat
    BY DEF Tokens
  <2> QED BY <1>1, <1>2, <2>1, <2>2, <2>3 DEF Used
<1>7. endpointLease' = [endpointLease EXCEPT ![t.delivery.endpoint] = t] /\ UNCHANGED elapsed
  BY <1>1 DEF ClaimAttempt
<1> QED BY <1>3, <1>4, <1>5, <1>6, <1>7 DEF Lease!Acquire, Open, Used

(* Recovery and finalization close a token: they clear the delivery's      *)
(* lease, and the endpoint's only where it is the same.                    *)
LEMMA EndingCloses ==
  ASSUME TypeInv, NEW t \in Tokens, lease[t.delivery] = t,
         lease' = [lease EXCEPT ![t.delivery] = None],
         ClearEndpointLease(t.delivery.endpoint, t),
         UNCHANGED <<attemptCount, elapsed>>
  PROVE  Lease!Close(t)
<1>1. t \in Open
  BY DEF Open
<1>2. Open' = Open \ {t}
  BY NullIsNoToken DEF Open, TypeInv, TypeOK, Tokens
<1>3. Used' = Used
  BY DEF Used
<1> QED BY <1>1, <1>2, <1>3 DEF Lease!Close, Open, Used, ClearEndpointLease

(* The lease columns of endpoints and deliveries implement a fenced lease. *)
THEOREM LeaseRefinement == Spec => LeaseIsFenced
<1>1. Init => Lease!Init
  BY NullIsNoToken, WebhookConstants DEF Init, InitStore, Lease!Init, Tokens
<1>2. ASSUME PipelineInv, [Next]_vars PROVE [Lease!Next]_(Lease!leaseState)
  <2>0. TypeInv /\ LeaseInv
    BY <1>2 DEF PipelineInv
  <2>1. CASE UNCHANGED <<endpointLease, lease, attemptCount, elapsed>>
    BY <2>1 DEF Lease!leaseState
  <2>2. ASSUME NEW t \in Tokens, LeaseElapses(t) PROVE Lease!Expire(t)
    <3>1. t \in Open
      <4>1. PICK d \in Deliveries : lease[d] = t
        BY <2>2 DEF LeaseElapses
      <4>2. t.delivery = d
        <5>1. Token(d, attemptCount[d]).delivery = d
          BY DEF Token
        <5>2. t = Token(d, attemptCount[d])
          BY <2>0, <4>1, NullIsNoToken DEF LeaseInv, LeaseMatchesStatus
        <5> QED BY <5>1, <5>2
      <4> QED BY <4>1, <4>2 DEF Open
    <3>2. UNCHANGED <<endpointLease, lease, attemptCount>> /\ elapsed' = elapsed \cup {t}
      BY <2>2 DEF LeaseElapses, deliveryVars
    <3> QED BY <3>1, <3>2 DEF Lease!Expire, Open
  <2>3. ASSUME NEW d \in Deliveries, RecoverLease(d) PROVE \E t \in Tokens : Lease!Close(t)
    <3>1. lease[d] \in Tokens /\ lease[d].delivery = d
      BY <2>0, <2>3 DEF RecoverLease, TypeInv, TypeOK, LeaseInv, LeaseMatchesStatus, Token
    <3>2. PICK t \in Tokens : t = lease[d]
      BY <3>1
    <3>3. Lease!Close(t)
      BY <2>0, <2>3, <3>1, <3>2, EndingCloses DEF RecoverLease
    <3> QED BY <3>3
  <2>4. ASSUME NEW f \in Fibers, NEW d \in Deliveries, ClaimAttempt(f, d)
        PROVE  \E t \in Tokens : Lease!Acquire(t)
    <3>1. Token(d, attemptCount[d] + 1) \in Tokens
      BY <2>0, <2>4, WebhookConstants DEF ClaimAttempt, Token, Tokens, TypeInv, TypeOK
    <3>2. PICK t \in Tokens : t = Token(d, attemptCount[d] + 1)
      BY <3>1
    <3>3. Lease!Acquire(t)
      BY <2>0, <2>4, <3>2, ClaimAcquires
    <3> QED BY <3>3
  <2>5. ASSUME NEW f \in Fibers, FinalizeRead(f)
        PROVE  UNCHANGED <<endpointLease, lease, attemptCount, elapsed>>
    BY <2>5 DEF FinalizeRead, deliveryVars, leaseVars
  <2>6. ASSUME NEW f \in Fibers, FinalizeCommit(f)
        PROVE  \/ UNCHANGED <<endpointLease, lease, attemptCount, elapsed>>
               \/ \E t \in Tokens : Lease!Close(t)
    <3>1. fiber[f].token \in Tokens
      BY <2>0, <2>6 DEF FinalizeCommit, TypeInv, FiberInv
    <3>2. PICK t \in Tokens : t = fiber[f].token
      BY <3>1
    <3>3. lease[t.delivery] = t
      BY <2>0, <2>6, <3>2 DEF FinalizeCommit, LeaseInv, FinalizersHold, Finalizing, HoldsLease
    <3>4. CASE attempt[t.delivery][t.number] = "started"
      <4>1. /\ lease' = [lease EXCEPT ![t.delivery] = None]
            /\ ClearEndpointLease(t.delivery.endpoint, t)
            /\ UNCHANGED <<attemptCount, elapsed>>
        BY <2>6, <3>2, <3>4 DEF FinalizeCommit
      <4>2. Lease!Close(t)
        BY <2>0, <3>3, <4>1, EndingCloses
      <4> QED BY <4>2
    <3>5. CASE attempt[t.delivery][t.number] # "started"
      BY <2>6, <3>2, <3>5 DEF FinalizeCommit
    <3> QED BY <3>4, <3>5
  <2>7. CASE Quiet
    BY <2>1, <2>7 DEF Quiet
  <2>8. ASSUME NEW t \in Tokens, Lease!Acquire(t) \/ Lease!Expire(t) \/ Lease!Close(t)
        PROVE  [Lease!Next]_(Lease!leaseState)
    BY <2>8 DEF Lease!Next
  <2>9. CASE \E t \in Tokens : LeaseElapses(t)
    BY <2>2, <2>8, <2>9
  <2>10. CASE \E d \in Deliveries : RecoverLease(d)
    BY <2>3, <2>8, <2>10
  <2>11. CASE \E f \in Fibers, d \in Deliveries : ClaimAttempt(f, d)
    BY <2>4, <2>8, <2>11
  <2>12. CASE \E f \in Fibers : FinalizeRead(f) \/ FinalizeCommit(f)
    BY <2>1, <2>5, <2>6, <2>8, <2>12
  <2> QED BY <1>2, <2>0, <2>7, <2>9, <2>10, <2>11, <2>12, MostStepsAreQuiet
<1>3. PipelineInv /\ [Next]_vars => [Lease!Next]_(Lease!leaseState)
  BY <1>2
<1> QED BY <1>1, <1>3, LeasesCorrect, PTL DEF Spec, LeaseIsFenced, Lease!Spec

-----------------------------------------------------------------------------
(* Outcomes *)

(***************************************************************************)
(* How a run ended follows from what its last attempt was told, so the     *)
(* loops that are about to report belong to the invariant: one that says   *)
(* "succeeded" has an answer that the destination gave.                    *)
(***************************************************************************)
Reporting(f) == fiber[f].phase \in {"answered", "finalizing"}

SuccessWasProcessed ==
  \A f \in Fibers : Reporting(f) /\ fiber[f].answer = "succeeded" => fiber[f].token \in accepted

NewRunsAreUntried == \A d \in Deliveries : status[d] = "absent" => attemptCount[d] = 0

OutcomeInv == RunMatchesLastAttempt /\ NewRunsAreUntried /\ SuccessWasProcessed

(* What every step but four does to runs and to the loops that report.     *)
Waits(d) ==
  \/ status'[d] = status[d]
  \/ status[d] = "absent" /\ status'[d] = "queued"
  \/ status[d] \in Runnable /\ status'[d] = "canceled"

NoNewReport ==
  \A f \in Fibers : Reporting(f)' => /\ Reporting(f)
                                     /\ fiber'[f].answer = fiber[f].answer
                                     /\ fiber'[f].token = fiber[f].token

Uneventful ==
  /\ UNCHANGED <<attemptCount, attempt, accepted>>
  /\ \A d \in Deliveries : Waits(d)
  /\ NoNewReport

(* A bulk cancellation ends only runs that wait.                           *)
LEMMA CancelIsUneventful ==
  ASSUME TypeOK, NEW D, CancelWaiting(D), UNCHANGED <<attemptCount, attempt, accepted, fiber>>
  PROVE  Uneventful
BY DEF CancelWaiting, Uneventful, Waits, NoNewReport, Reporting

(* Only attempts, their recovery and their results decide about runs.      *)
LEMMA MostStepsAreUneventful ==
  ASSUME TypeInv, [Next]_vars
  PROVE  \/ Uneventful
         \/ \E d \in Deliveries : RecoverLease(d)
         \/ \E f \in Fibers, d \in Deliveries : ClaimAttempt(f, d)
         \/ \E f \in Fibers, answer \in Answers, processed \in BOOLEAN :
              SendEnds(f, answer, processed)
         \/ \E f \in Fibers : FinalizeCommit(f)
<1>0. TypeOK
  BY DEF TypeInv
<1>a. ASSUME UNCHANGED <<deliveryVars, fiber, accepted>> PROVE Uneventful
  BY <1>a DEF deliveryVars, Uneventful, Waits, NoNewReport, Reporting
<1>1. CASE Tick
  BY <1>1, <1>a DEF Tick
<1>2. CASE Administration
  <2>1. ASSUME NEW op \in Operations \ ({"replay"} \cup Rotations), NEW p \in Endpoints,
               Admit(op, p)
        PROVE  Uneventful
    BY <2>1, <1>a DEF Admit, AdmitRequest
  <2>2. ASSUME NEW p \in Endpoints, NEW e \in Events, NEW c \in Commands, AdmitReplay(p, e, c)
        PROVE  Uneventful
    BY <2>2, <1>a DEF AdmitReplay, AdmitRequest
  <2>3. ASSUME NEW r \in admitted, Refuse(r) \/ EnableEndpoint(r) PROVE Uneventful
    BY <2>3, <1>a DEF Refuse, EnableEndpoint
  <2>4. ASSUME NEW r \in admitted, ReplayEvent(r) PROVE Uneventful
    <3> DEFINE d == [event |-> r.event, endpoint |-> r.endpoint, command |-> r.command]
    <3>1. d \in Deliveries => status[d] = "absent"
      BY <2>4 DEF ReplayEvent, CommandUnused
    <3>2. \A x \in Deliveries : status'[x] = IF x = d THEN "queued" ELSE status[x]
      BY <1>0, <2>4 DEF ReplayEvent, TypeOK
    <3> HIDE DEF d
    <3>3. \A x \in Deliveries : Waits(x)
      BY <3>1, <3>2 DEF Waits
    <3> QED BY <2>4, <3>3 DEF ReplayEvent, Uneventful, NoNewReport, Reporting
  <2>5. ASSUME NEW r \in admitted, NEW types \in SUBSET EventTypes, CreateEndpoint(r, types)
        PROVE  Uneventful
    BY <2>5, <1>a DEF CreateEndpoint
  <2>6. ASSUME NEW r \in admitted, NEW types \in SUBSET EventTypes,
               ReplaceSubscriptions(r, types)
        PROVE  Uneventful
    BY <1>0, <2>6, CancelIsUneventful DEF ReplaceSubscriptions, Done
  <2>7. ASSUME NEW p \in Endpoints, DisableEndpoint(p) PROVE Uneventful
    BY <1>0, <2>7, CancelIsUneventful DEF DisableEndpoint
  <2>8. CASE ArchiveProject
    BY <1>0, <2>8, CancelIsUneventful DEF ArchiveProject
  <2>9. CASE RestoreProject
    BY <2>9, <1>a DEF RestoreProject
  <2>10. ASSUME NEW r \in admitted, NEW retarget \in BOOLEAN, UpdateEndpoint(r, retarget)
         PROVE  Uneventful
    BY <2>10, <1>a DEF UpdateEndpoint
  <2> QED BY <1>2, <2>1, <2>2, <2>3, <2>4, <2>5, <2>6, <2>7, <2>8, <2>9, <2>10
          DEF Administration
<1>3. CASE Dispatching
  <2>1. ASSUME NEW e \in Events, BeginPublication(e) \/ CommitPublication(e) PROVE Uneventful
    BY <2>1, <1>a DEF BeginPublication, CommitPublication
  <2>2. ASSUME NEW w \in Workers, NEW rows \in SUBSET Events, DispatchRead(w, rows)
        PROVE  Uneventful
    BY <2>2, <1>a DEF DispatchRead
  <2>3. ASSUME NEW w \in Workers, DispatchCommit(w) PROVE Uneventful
    <3>1. \A i \in Inserted(w) : status[i.delivery] = "absent"
      BY DEF Inserted
    <3> QED BY <2>3, <3>1 DEF DispatchCommit, Uneventful, Waits, NoNewReport, Reporting
  <2> QED BY <1>3, <2>1, <2>2, <2>3 DEF Dispatching
<1>4. CASE Attempting
  <2>1. ASSUME NEW w \in Workers, Exit(w), UNCHANGED deliveryVars, UNCHANGED accepted
        PROVE  Uneventful
    BY <2>1 DEF Exit, Idle, deliveryVars, Uneventful, Waits, NoNewReport, Reporting
  <2>2. ASSUME NEW f \in Fibers, NEW d \in Deliveries, ClaimRefused(f, d) PROVE Uneventful
    <3>1. WorkerOf[f] \in Workers
      BY WebhookConstants
    <3> QED BY <2>1, <2>2, <3>1 DEF ClaimRefused
  <2>3. ASSUME NEW f \in Fibers, FinalizeStale(f) PROVE Uneventful
    <3>1. \A g \in Fibers : fiber'[g] = fiber[g] \/ fiber'[g] = Idle
      BY <1>0, <2>3 DEF FinalizeStale, TypeOK
    <3> QED BY <2>3, <3>1
            DEF FinalizeStale, Idle, deliveryVars, Uneventful, Waits, NoNewReport, Reporting
  <2>4. ASSUME NEW f \in Fibers, FinalizeRead(f) PROVE Uneventful
    <3>1. NoNewReport
      <4>1. fiber[f] \in FiberStates /\ fiber[f].phase = "answered"
        BY <1>0, <2>4 DEF FinalizeRead, TypeOK
      <4>2. \A g \in Fibers :
              fiber'[g].answer = fiber[g].answer /\ fiber'[g].token = fiber[g].token
        BY <1>0, <2>4, <4>1 DEF FinalizeRead, TypeOK, FiberStates
      <4>3. \A g \in Fibers : g # f => fiber'[g] = fiber[g]
        BY <1>0, <2>4 DEF FinalizeRead, TypeOK
      <4> QED BY <4>1, <4>2, <4>3 DEF NoNewReport, Reporting
    <3> QED BY <2>4, <3>1 DEF FinalizeRead, deliveryVars, Uneventful, Waits
  <2>5. ASSUME NEW w \in Workers, WorkerCrash(w) PROVE Uneventful
    BY <2>1, <2>5 DEF WorkerCrash
  <2>6. ASSUME NEW t \in Tokens, LeaseElapses(t) PROVE Uneventful
    BY <2>6, <1>a DEF LeaseElapses
  <2>7. CASE \E d \in Deliveries : RecoverLease(d)
    BY <2>7
  <2> QED BY <1>4, <2>2, <2>3, <2>4, <2>5, <2>6, <2>7 DEF Attempting
<1>5. CASE Rotating
  <2>1. ASSUME NEW op \in Rotations, NEW p \in Endpoints, AdmitRotation(op, p) PROVE Uneventful
    BY <2>1, <1>a DEF AdmitRotation
  <2>2. ASSUME OnlySecrets PROVE Uneventful
    BY <2>2, <1>a DEF OnlySecrets
  <2>3. ASSUME NEW p \in Endpoints, NEW s \in Secrets, SecretLapses(p, s) PROVE Uneventful
    BY <2>3, <1>a DEF SecretLapses
  <2> QED BY <1>5, <2>1, <2>2, <2>3
          DEF Rotating, StartSecretRotation, ActivateRotation, CancelRotation, CompleteRotation
<1>6. CASE UNCHANGED vars
  BY <1>6, <1>a DEF vars
<1> QED BY <1>1, <1>2, <1>3, <1>4, <1>5, <1>6 DEF Next

LastAttempt(d) == IF attemptCount[d] = 0 THEN "absent" ELSE attempt[d][attemptCount[d]]

(* The part of the property that is about one run.                         *)
Matches(d) ==
  /\ status[d] \in {"succeeded", "dead_letter"} => LastAttempt(d) = status[d]
  /\ status[d] = "queued" => LastAttempt(d) = "absent"
  /\ status[d] = "retry_scheduled" => LastAttempt(d) \in {"retry_scheduled", "abandoned"}
  /\ status[d] = "canceled" => LastAttempt(d) \in {"absent", "retry_scheduled", "abandoned"}
  /\ status[d] = "succeeded" => Token(d, attemptCount[d]) \in accepted

(* The invariant of outcomes is inductive.                                 *)
THEOREM OutcomesMatch == Spec => []RunMatchesLastAttempt
<1> USE WebhookConstants, NullIsNoToken
<1>0. RunMatchesLastAttempt <=> \A d \in Deliveries : Matches(d)
  BY DEF RunMatchesLastAttempt, Matches, LastAttempt
<1>1. Init => OutcomeInv
  BY <1>0 DEF Init, InitStore, OutcomeInv, Matches, NewRunsAreUntried, SuccessWasProcessed,
              Reporting, Idle
<1>2. ASSUME PipelineInv, OutcomeInv, [Next]_vars PROVE OutcomeInv'
  <2>0. /\ TypeInv /\ TypeOK /\ LeaseInv /\ AttemptLedger
        /\ NewRunsAreUntried /\ SuccessWasProcessed /\ \A d \in Deliveries : Matches(d)
    BY <1>0, <1>2 DEF PipelineInv, TypeInv, OutcomeInv
  <2>a. RunMatchesLastAttempt' <=> \A d \in Deliveries : Matches(d)'
    BY DEF RunMatchesLastAttempt, Matches, LastAttempt
  <2> SUFFICES (\A d \in Deliveries : Matches(d)') /\ NewRunsAreUntried' /\ SuccessWasProcessed'
    BY <2>a DEF OutcomeInv
  <2>1. CASE Uneventful
    <3>1. ASSUME NEW d \in Deliveries PROVE Matches(d)'
      <4>1. Matches(d) /\ Waits(d) /\ LastAttempt(d)' = LastAttempt(d)
        BY <2>0, <2>1 DEF Uneventful, LastAttempt
      <4>2. status[d] = "absent" => LastAttempt(d) = "absent"
        BY <2>0 DEF NewRunsAreUntried, LastAttempt
      <4> QED BY <2>1, <4>1, <4>2 DEF Matches, Waits, Uneventful, Runnable
    <3>2. NewRunsAreUntried'
      BY <2>0, <2>1 DEF NewRunsAreUntried, Uneventful, Waits
    <3>3. SuccessWasProcessed'
      BY <2>0, <2>1 DEF SuccessWasProcessed, Uneventful, NoNewReport
    <3> QED BY <3>1, <3>2, <3>3
  <2>2. ASSUME NEW d \in Deliveries, RecoverLease(d)
        PROVE  (\A x \in Deliveries : Matches(x)') /\ NewRunsAreUntried' /\ SuccessWasProcessed'
    <3>1. /\ attempt' = [attempt EXCEPT ![d] = Abandoned(d)]
          /\ status' = [status EXCEPT ![d] = IF archived THEN "canceled" ELSE "retry_scheduled"]
          /\ UNCHANGED <<attemptCount, fiber, accepted>> /\ status[d] = "delivering"
      BY <2>2 DEF RecoverLease
    <3>2. attemptCount[d] \in 1..MaxAttempts /\ attempt[d][attemptCount[d]] = "started"
      BY <2>0, <3>1 DEF LeaseInv, LeaseMatchesStatus, AttemptLedger, TypeOK
    <3>3. LastAttempt(d)' = "abandoned"
      BY <2>0, <3>1, <3>2 DEF LastAttempt, Abandoned, TypeOK
    <3>4. \A x \in Deliveries : x # d => /\ status'[x] = status[x]
                                         /\ LastAttempt(x)' = LastAttempt(x)
      BY <2>0, <3>1 DEF LastAttempt, TypeOK
    <3>5. status'[d] \in {"canceled", "retry_scheduled"}
      BY <2>0, <3>1 DEF TypeOK
    <3>6. \A x \in Deliveries : Matches(x)'
      BY <2>0, <3>1, <3>3, <3>4, <3>5 DEF Matches
    <3> QED BY <2>0, <3>1, <3>4, <3>5, <3>6 DEF NewRunsAreUntried, SuccessWasProcessed, Reporting
  <2>3. ASSUME NEW f \in Fibers, NEW d \in Deliveries, ClaimAttempt(f, d)
        PROVE  (\A x \in Deliveries : Matches(x)') /\ NewRunsAreUntried' /\ SuccessWasProcessed'
    <3>1. /\ status' = [status EXCEPT ![d] = "delivering"]
          /\ attemptCount' = [attemptCount EXCEPT ![d] = attemptCount[d] + 1]
          /\ attempt' = [attempt EXCEPT ![d][attemptCount[d] + 1] = "started"]
          /\ UNCHANGED accepted
      BY <2>3 DEF ClaimAttempt
    <3>2. \A x \in Deliveries : x # d => /\ status'[x] = status[x]
                                         /\ attemptCount'[x] = attemptCount[x]
                                         /\ LastAttempt(x)' = LastAttempt(x)
      BY <2>0, <3>1 DEF LastAttempt, TypeOK
    <3>3. status'[d] = "delivering"
      BY <2>0, <3>1 DEF TypeOK
    <3>4. \A x \in Deliveries : Matches(x)'
      BY <2>0, <3>1, <3>2, <3>3 DEF Matches
    <3>5. \A g \in Fibers : Reporting(g)' => g # f /\ fiber'[g] = fiber[g]
      BY <2>0, <2>3 DEF ClaimAttempt, Reporting, Idle, TypeOK
    <3>6. SuccessWasProcessed'
      BY <2>0, <3>1, <3>5 DEF SuccessWasProcessed, Reporting
    <3> QED BY <2>0, <3>2, <3>3, <3>4, <3>6 DEF NewRunsAreUntried
  <2>4. ASSUME NEW f \in Fibers, NEW answer \in Answers, NEW processed \in BOOLEAN,
               SendEnds(f, answer, processed)
        PROVE  (\A x \in Deliveries : Matches(x)') /\ NewRunsAreUntried' /\ SuccessWasProcessed'
    <3>1. UNCHANGED <<status, attemptCount, attempt>> /\ accepted \subseteq accepted'
      BY <2>4 DEF SendEnds, deliveryVars
    <3>2. \A x \in Deliveries : Matches(x)'
      <4>1. \A x \in Deliveries : LastAttempt(x)' = LastAttempt(x)
        BY <3>1 DEF LastAttempt
      <4> QED BY <2>0, <3>1, <4>1 DEF Matches
    <3>3. \A g \in Fibers : g # f => fiber'[g] = fiber[g]
      BY <2>0, <2>4 DEF SendEnds, TypeOK
    <3>4. fiber'[f].answer = answer /\ fiber'[f].token = fiber[f].token
      BY <2>0, <2>4 DEF SendEnds, TypeOK, FiberStates
    <3>5. answer = "succeeded" => fiber[f].token \in accepted'
      BY <2>4 DEF SendEnds
    <3>6. SuccessWasProcessed'
      BY <2>0, <3>1, <3>3, <3>4, <3>5 DEF SuccessWasProcessed, Reporting
    <3> QED BY <2>0, <3>1, <3>2, <3>6 DEF NewRunsAreUntried
  <2>5. ASSUME NEW f \in Fibers, FinalizeCommit(f)
        PROVE  (\A x \in Deliveries : Matches(x)') /\ NewRunsAreUntried' /\ SuccessWasProcessed'
    <3>0. PICK t \in Tokens : t = fiber[f].token
      BY <2>0, <2>5 DEF FinalizeCommit, TypeInv, FiberInv
    <3> DEFINE d == t.delivery
    <3>1. Finalizing(f) /\ d \in Deliveries /\ t.number \in 1..MaxAttempts
      BY <2>5 DEF FinalizeCommit, Finalizing, Tokens
    <3>2. status[d] = "delivering" /\ t = Token(d, attemptCount[d])
      BY <2>0, <3>0, <3>1 DEF LeaseInv, FinalizersHold, HoldsLease, LeaseMatchesStatus
    <3>3. t.number = attemptCount[d] /\ attempt[d][t.number] = "started"
      BY <2>0, <3>1, <3>2 DEF AttemptLedger, Token
    <3>4. /\ fiber' = [fiber EXCEPT ![f] = Idle]
          /\ attempt' = [attempt EXCEPT ![d][t.number] = FinalState(f)]
          /\ status' = [status EXCEPT ![d] = FinalState(f)]
          /\ UNCHANGED <<attemptCount, accepted>>
      BY <2>5, <3>0, <3>3 DEF FinalizeCommit
    <3>5. /\ FinalState(f) \in {"succeeded", "dead_letter", "retry_scheduled"}
          /\ FinalState(f) = "succeeded" => t \in accepted
      BY <2>0, <3>0, <3>1 DEF FinalState, SuccessWasProcessed, Reporting, Finalizing
    <3> HIDE DEF d
    <3>6. status'[d] = FinalState(f) /\ LastAttempt(d)' = FinalState(f)
      <4>1. attempt'[d][t.number] = FinalState(f) /\ status'[d] = FinalState(f)
        BY <2>0, <3>1, <3>4 DEF TypeOK
      <4> QED BY <3>1, <3>3, <3>4, <4>1 DEF LastAttempt
    <3>7. \A x \in Deliveries : x # d => /\ status'[x] = status[x]
                                         /\ LastAttempt(x)' = LastAttempt(x)
      BY <2>0, <3>4 DEF LastAttempt, TypeOK
    <3>8. \A x \in Deliveries : Matches(x)'
      BY <2>0, <3>2, <3>4, <3>5, <3>6, <3>7 DEF Matches
    <3>9. \A g \in Fibers : Reporting(g)' => fiber'[g] = fiber[g]
      BY <2>0, <3>4 DEF Reporting, Idle, TypeOK
    <3>10. SuccessWasProcessed'
      BY <2>0, <3>4, <3>9 DEF SuccessWasProcessed, Reporting
    <3> QED BY <2>0, <3>4, <3>5, <3>6, <3>7, <3>8, <3>10 DEF NewRunsAreUntried
  <2> QED BY <1>2, <2>0, <2>1, <2>2, <2>3, <2>4, <2>5, MostStepsAreUneventful
<1>3. PipelineInv /\ OutcomeInv /\ [Next]_vars => OutcomeInv'
  BY <1>2
<1>4. OutcomeInv => RunMatchesLastAttempt
  BY DEF OutcomeInv
<1> QED BY <1>1, <1>3, <1>4, LeasesCorrect, PTL DEF Spec

-----------------------------------------------------------------------------
(* Invariants of configuration *)

(***************************************************************************)
(* A delivery is subscribed when it is planned, so the invariant is about  *)
(* plans too; a subscription that is replaced keeps the time it began; and *)
(* a request whose version is still the endpoint's has read its clock      *)
(* after every interval of the endpoint began.                             *)
(***************************************************************************)
SubscribedBefore(p, e) ==
  \E i \in subscriptions[p] : i.type = TypeOf[e] /\ i.from <= occurredAt[e]

(* A delivery that no administrator asked for is of an expanded event, and *)
(* of none from before the endpoint was first subscribed to its type.      *)
InitialDeliveryWasSubscribed ==
  \A d \in Deliveries :
    IsInitial(d) /\ status[d] # "absent"
      => Projected(d.event) /\ SubscribedBefore(d.endpoint, d.event)

PlansAreSubscribed ==
  \A w \in Workers : \A i \in plan[w].inserts :
    /\ i.delivery.event \in plan[w].rows /\ i.delivery.event \notin Malformed
    /\ External(i.delivery.event)
    /\ SubscribedBefore(i.delivery.endpoint, i.delivery.event)

AbsentHasNone == \A p \in Endpoints : endpointState[p] = "absent" => subscriptions[p] = {}

ReplaysAreCommanded == \A r \in admitted : r.op = "replay" => r.command # None

NothingIsFromTheFuture ==
  /\ \A p \in Endpoints : \A i \in subscriptions[p] : i.from <= stamp
  /\ \A r \in admitted : r.now <= stamp

VersionsWereSeen == \A r \in admitted : r.version <= endpointVersion[r.endpoint]

UpToDateIsLater ==
  \A r \in admitted :
    r.op = "subscribe" /\ UpToDate(r) => \A i \in subscriptions[r.endpoint] : i.from <= r.now

SubscriptionInv ==
  /\ InitialDeliveryWasSubscribed /\ PlansAreSubscribed /\ AbsentHasNone /\ ReplaysAreCommanded
  /\ IntervalsAreOrdered /\ NothingIsFromTheFuture /\ VersionsWereSeen /\ UpToDateIsLater

(***************************************************************************)
(* Secrets are numbered without a gap, one is active, and what a rotation  *)
(* has left behind it or ahead of it is one secret; a pending one is the   *)
(* latest, and the one an up-to-date request to activate was shown.        *)
(***************************************************************************)
Rotated == {"pending", "retiring", "lapsed"}

NumberedTo(c, n) == \A s \in Secrets : c[s] = "absent" <=> s > n

OneActive(c) == \E a \in Secrets : \A s \in Secrets : c[s] = "active" <=> s = a

OneRotated(c) == \A s, t \in Secrets : c[s] \in Rotated /\ c[t] \in Rotated => s = t

PendingIs(c, n) == \A s \in Secrets : c[s] = "pending" => s = n

SecretsHold(p) ==
  /\ IF endpointState[p] = "absent" THEN NumberedTo(secret[p], 0) ELSE OneActive(secret[p])
  /\ OneRotated(secret[p])
  /\ \E n \in 0..MaxSecrets : NumberedTo(secret[p], n) /\ PendingIs(secret[p], n)

UpToDateSawTheLast ==
  \A r \in admitted : r.op \in Rotations /\ UpToDate(r) => r.target = LastSecret(r.endpoint)

SecretInv == (\A p \in Endpoints : SecretsHold(p)) /\ VersionsWereSeen /\ UpToDateSawTheLast

-----------------------------------------------------------------------------
(* What most steps leave alone *)

(* What a request has read, when it has just been admitted.                *)
Fresh(r) ==
  /\ r \in Request
  /\ r.now <= stamp /\ r.version <= endpointVersion[r.endpoint]
  /\ r.op \in {"create", "enable", "subscribe"} => r.now = stamp
  /\ r.op = "replay" => r.command # None
  /\ r.op \in Rotations => r.target = LastSecret(r.endpoint)

RequestsKept ==
  /\ \A p \in Endpoints : endpointVersion[p] <= endpointVersion'[p]
  /\ \A r \in admitted' : r \in admitted \/ Fresh(r)

NoNewInitial ==
  \A d \in Deliveries : IsInitial(d) /\ status'[d] # "absent" => status[d] # "absent"

NoNewPlan == \A w \in Workers : plan'[w] = plan[w] \/ plan'[w] = NoPlan

EndpointsStay ==
  \A p \in Endpoints : endpointState'[p] = "absent" <=> endpointState[p] = "absent"

EnablingIsDated ==
  \A p \in Endpoints :
    endpointState'[p] = "enabled"
      => \/ endpointState[p] = "enabled" /\ enabledAt'[p] = enabledAt[p]
         \/ \E r \in Dated(p) : enabledAt'[p] = r.now

SubscriptionQuiet ==
  /\ UNCHANGED <<subscriptions, occurredAt, outboxState>> /\ stamp <= stamp'
  /\ RequestsKept /\ NoNewInitial /\ NoNewPlan /\ EndpointsStay /\ EnablingIsDated

SecretQuiet == UNCHANGED secret /\ RequestsKept /\ EndpointsStay

(* A bulk cancellation creates no delivery.                                *)
LEMMA CancelCreatesNone ==
  ASSUME NEW D, CancelWaiting(D) PROVE NoNewInitial
BY DEF CancelWaiting, NoNewInitial, Runnable

(* A request that was handled made the version of its endpoint greater.    *)
LEMMA DoneIsSeen ==
  ASSUME TypeOK, NEW r \in admitted, Done(r)
  PROVE  /\ RequestsKept /\ admitted' = admitted \ {r} /\ r.endpoint \in Endpoints
         /\ endpointVersion' = [endpointVersion EXCEPT ![r.endpoint] = @ + 1]
<1>1. r.endpoint \in Endpoints
  BY DEF TypeOK, Request
<1> QED BY <1>1 DEF Done, RequestsKept, TypeOK

(* What the configuration handlers and the dispatcher do is all that       *)
(* disturbs a subscription or a secret.                                    *)
LEMMA MostStepsConfigureNothing ==
  ASSUME PipelineInv, ReplaysAreCommanded, [Next]_vars
  PROVE  \/ SubscriptionQuiet /\ SecretQuiet
         \/ \E r \in admitted, types \in SUBSET EventTypes :
              CreateEndpoint(r, types) \/ ReplaceSubscriptions(r, types)
         \/ \E r \in admitted : \/ StartSecretRotation(r) \/ ActivateRotation(r)
                                \/ CancelRotation(r) \/ CompleteRotation(r)
         \/ \E p \in Endpoints, s \in Secrets : SecretLapses(p, s)
         \/ Dispatching
<1> DEFINE Goal == SubscriptionQuiet /\ SecretQuiet
<1>0. TypeOK
  BY DEF PipelineInv, TypeInv
<1>n. /\ stamp \in Nat /\ stamp <= stamp
      /\ \A p \in Endpoints :
           endpointVersion[p] \in Nat /\ endpointVersion[p] <= endpointVersion[p]
  BY <1>0 DEF TypeOK
<1>z. UNCHANGED <<endpointState, enabledAt>> => EnablingIsDated
  BY DEF EnablingIsDated
<1>a. ASSUME UNCHANGED <<outboxVars, endpointState, enabledAt, endpointVersion, secret,
                         subscriptions, stamp>>,
             RequestsKept, NoNewInitial, NoNewPlan
      PROVE  Goal
  BY <1>n, <1>z, <1>a DEF outboxVars, SubscriptionQuiet, SecretQuiet, EndpointsStay
<1>b. ASSUME UNCHANGED <<endpointVersion, admitted>> PROVE RequestsKept
  BY <1>n, <1>b DEF RequestsKept
<1>c. UNCHANGED deliveryVars => NoNewInitial
  BY DEF deliveryVars, NoNewInitial
<1>d. UNCHANGED plan => NoNewPlan
  BY DEF NoNewPlan
<1>e. ASSUME NEW r, AdmitRequest(r), Fresh(r) PROVE Goal
  <2>1. RequestsKept
    BY <1>n, <1>e DEF AdmitRequest, RequestsKept, configVars
  <2> QED BY <1>a, <1>c, <1>d, <1>e, <2>1 DEF AdmitRequest, configVars
<1>f. ASSUME UNCHANGED <<outboxVars, configVars, deliveryVars, plan, stamp, admitted>> PROVE Goal
  BY <1>a, <1>b, <1>c, <1>d, <1>f DEF configVars
<1> HIDE DEF Goal
<1>1. CASE Tick
  <2>1. stamp <= stamp'
    BY <1>n, <1>1 DEF Tick
  <2>2. UNCHANGED <<outboxVars, configVars, deliveryVars, admitted, plan>>
    BY <1>1 DEF Tick
  <2> QED BY <2>1, <2>2, <1>z, <1>b, <1>c, <1>d
          DEF Goal, SubscriptionQuiet, SecretQuiet, EndpointsStay, outboxVars, configVars
<1>2. CASE Administration
  <2>1. ASSUME NEW op \in Operations \ ({"replay"} \cup Rotations), NEW p \in Endpoints,
               Admit(op, p)
        PROVE  Goal
    <3> DEFINE r == [op |-> op, endpoint |-> p, now |-> stamp, version |-> endpointVersion[p],
                     event |-> None, command |-> None, target |-> 0]
    <3>1. r \in Request
      BY <1>n DEF Request
    <3>2. Fresh(r)
      BY <1>n, <3>1 DEF Fresh
    <3> QED BY <1>e, <2>1, <3>2 DEF Admit
  <2>2. ASSUME NEW p \in Endpoints, NEW e \in Events, NEW c \in Commands, AdmitReplay(p, e, c)
        PROVE  Goal
    <3> DEFINE r == [op |-> "replay", endpoint |-> p, now |-> stamp, version |-> 0, event |-> e,
                     command |-> c, target |-> destination[p]]
    <3>1. r \in Request
      BY <1>0, <1>n DEF Request, Operations, TypeOK
    <3>2. Fresh(r)
      BY <1>n, <3>1, WebhookConstants DEF Fresh, Rotations
    <3> QED BY <1>e, <2>2, <3>2 DEF AdmitReplay
  <2>3. ASSUME NEW r \in admitted, Refuse(r) PROVE Goal
    <3>1. RequestsKept
      BY <1>n, <2>3 DEF Refuse, RequestsKept, configVars
    <3> QED BY <1>a, <1>c, <1>d, <2>3, <3>1 DEF Refuse, configVars
  <2>4. ASSUME NEW r \in admitted, ReplayEvent(r) PROVE Goal
    <3>1. NoNewInitial
      <4> DEFINE x == [event |-> r.event, endpoint |-> r.endpoint, command |-> r.command]
      <4>1. ~IsInitial(x)
        BY <2>4 DEF ReplayEvent, Pending, ReplaysAreCommanded, IsInitial
      <4>2. status' = [status EXCEPT ![x] = "queued"]
        BY <2>4 DEF ReplayEvent
      <4> HIDE DEF x
      <4> QED BY <1>0, <4>1, <4>2 DEF NoNewInitial, TypeOK
    <3>2. RequestsKept
      BY <1>n, <2>4 DEF ReplayEvent, RequestsKept, configVars
    <3> QED BY <1>a, <1>d, <2>4, <3>1, <3>2 DEF ReplayEvent, configVars
  <2>5. ASSUME NEW r \in admitted, EnableEndpoint(r) PROVE Goal
    <3>1. RequestsKept /\ r.endpoint \in Endpoints
      BY <1>0, <2>5, DoneIsSeen DEF EnableEndpoint
    <3>2. EndpointsStay
      BY <1>0, <2>5, <3>1 DEF EnableEndpoint, EndpointsStay, TypeOK
    <3>3. EnablingIsDated
      <4>1. r \in Dated(r.endpoint)
        BY <2>5 DEF EnableEndpoint, Pending, Dated
      <4>2. /\ enabledAt'[r.endpoint] = r.now
            /\ \A p \in Endpoints : p # r.endpoint =>
                 endpointState'[p] = endpointState[p] /\ enabledAt'[p] = enabledAt[p]
        BY <1>0, <2>5, <3>1 DEF EnableEndpoint, TypeOK
      <4> QED BY <4>1, <4>2 DEF EnablingIsDated
    <3> QED BY <1>c, <1>d, <1>n, <2>5, <3>1, <3>2, <3>3
            DEF EnableEndpoint, Goal, SubscriptionQuiet, SecretQuiet, outboxVars
  <2>6. ASSUME NEW r \in admitted, NEW retarget \in BOOLEAN, UpdateEndpoint(r, retarget)
        PROVE  Goal
    <3>1. RequestsKept
      BY <1>0, <2>6, DoneIsSeen DEF UpdateEndpoint
    <3> QED BY <1>c, <1>d, <1>n, <1>z, <2>6, <3>1
            DEF UpdateEndpoint, Goal, SubscriptionQuiet, SecretQuiet, EndpointsStay, outboxVars
  <2>7. ASSUME NEW p \in Endpoints, DisableEndpoint(p) PROVE Goal
    <3>1. RequestsKept /\ EndpointsStay /\ EnablingIsDated
      BY <1>0, <2>7 DEF DisableEndpoint, RequestsKept, EndpointsStay, EnablingIsDated, TypeOK
    <3>2. NoNewInitial
      BY <2>7, CancelCreatesNone DEF DisableEndpoint
    <3> QED BY <1>d, <1>n, <2>7, <3>1, <3>2
            DEF DisableEndpoint, Goal, SubscriptionQuiet, SecretQuiet, outboxVars
  <2>8. CASE ArchiveProject
    <3>1. NoNewInitial
      BY <2>8, CancelCreatesNone DEF ArchiveProject
    <3> QED BY <1>a, <1>b, <1>d, <2>8, <3>1 DEF ArchiveProject, configVars, Goal
  <2>9. CASE RestoreProject
    BY <1>f, <2>9 DEF RestoreProject, Goal
  <2>10. ASSUME NEW r \in admitted, NEW types \in SUBSET EventTypes,
                CreateEndpoint(r, types) \/ ReplaceSubscriptions(r, types)
         PROVE  \E q \in admitted, t \in SUBSET EventTypes :
                  CreateEndpoint(q, t) \/ ReplaceSubscriptions(q, t)
    BY <2>10
  <2> QED BY <1>2, <2>1, <2>2, <2>3, <2>4, <2>5, <2>6, <2>7, <2>8, <2>9, <2>10
          DEF Administration, Goal
<1>3. CASE Attempting
  <2>a. ASSUME UNCHANGED <<outboxVars, configVars, plan, stamp, admitted>>, NoNewInitial
        PROVE  Goal
    BY <1>a, <1>b, <1>d, <2>a DEF configVars
  <2>b. ASSUME NEW w \in Workers, Exit(w),
               UNCHANGED <<outboxVars, configVars, deliveryVars, stamp, admitted>>
        PROVE  Goal
    <3>1. NoNewPlan
      BY <1>0, <2>b DEF Exit, NoNewPlan, TypeOK
    <3> QED BY <1>a, <1>b, <1>c, <2>b, <3>1 DEF configVars
  <2>1. ASSUME NEW t \in Tokens, LeaseElapses(t) PROVE Goal
    BY <1>f, <2>1 DEF LeaseElapses
  <2>2. ASSUME NEW d \in Deliveries, RecoverLease(d) PROVE Goal
    <3>1. NoNewInitial
      BY <1>0, <2>2 DEF RecoverLease, NoNewInitial, TypeOK
    <3> QED BY <2>a, <2>2, <3>1 DEF RecoverLease
  <2>3. ASSUME NEW f \in Fibers, NEW d \in Deliveries, ClaimAttempt(f, d) PROVE Goal
    <3>1. NoNewInitial
      BY <1>0, <2>3 DEF ClaimAttempt, Claimable, Runnable, NoNewInitial, TypeOK
    <3> QED BY <2>a, <2>3, <3>1 DEF ClaimAttempt
  <2>4. ASSUME NEW f \in Fibers, NEW d \in Deliveries, ClaimRefused(f, d) PROVE Goal
    <3>1. WorkerOf[f] \in Workers
      BY WebhookConstants
    <3> QED BY <2>b, <2>4, <3>1 DEF ClaimRefused
  <2>5. ASSUME NEW f \in Fibers, NEW answer \in Answers, NEW processed \in BOOLEAN,
               SendEnds(f, answer, processed)
        PROVE  Goal
    BY <1>f, <2>5 DEF SendEnds
  <2>6. ASSUME NEW f \in Fibers, FinalizeStale(f) \/ FinalizeRead(f) PROVE Goal
    BY <1>f, <2>6 DEF FinalizeStale, FinalizeRead
  <2>7. ASSUME NEW f \in Fibers, FinalizeCommit(f) PROVE Goal
    <3>1. status[fiber[f].token.delivery] # "absent"
      BY <2>7 DEF FinalizeCommit, PipelineInv, LeaseInv, FinalizersHold, Finalizing, HoldsLease
    <3>2. NoNewInitial
      BY <1>0, <2>7, <3>1 DEF FinalizeCommit, NoNewInitial, TypeOK
    <3> QED BY <2>a, <2>7, <3>2 DEF FinalizeCommit
  <2>8. ASSUME NEW w \in Workers, WorkerCrash(w) PROVE Goal
    BY <2>b, <2>8 DEF WorkerCrash
  <2> QED BY <1>3, <2>1, <2>2, <2>3, <2>4, <2>5, <2>6, <2>7, <2>8 DEF Attempting, Goal
<1>4. CASE Rotating
  <2>1. ASSUME NEW op \in Rotations, NEW p \in Endpoints, AdmitRotation(op, p) PROVE Goal
    <3> DEFINE r == [op |-> op, endpoint |-> p, now |-> 0, version |-> endpointVersion[p],
                     event |-> None, command |-> None, target |-> LastSecret(p)]
    <3>1. r \in Request
      BY <1>n, LastSecretIsNatural DEF Request, Operations
    <3>2. Fresh(r)
      BY <1>n, <3>1 DEF Fresh, Rotations
    <3>3. admitted' = admitted \cup {r} /\ UNCHANGED configVars
      BY <2>1 DEF AdmitRotation
    <3> HIDE DEF r
    <3>4. RequestsKept
      BY <1>n, <3>2, <3>3 DEF RequestsKept, configVars
    <3> QED BY <1>a, <1>c, <1>d, <2>1, <3>4 DEF AdmitRotation, configVars
  <2> QED BY <1>4, <2>1 DEF Rotating, Goal
<1>5. CASE UNCHANGED vars
  BY <1>f, <1>5 DEF vars, Goal
<1> QED BY <1>1, <1>2, <1>3, <1>4, <1>5 DEF Next, Goal

-----------------------------------------------------------------------------
(* Subscriptions *)

(* An endpoint that kept its intervals, whether or not they were closed,   *)
(* was subscribed before whatever it was subscribed before.                *)
KeepsBeginnings ==
  \A p \in Endpoints : \A i \in subscriptions[p] :
    \E j \in subscriptions'[p] : j.type = i.type /\ j.from = i.from

EventsStay ==
  \A e \in Events :
    /\ outboxState[e] \in {"pending", "processed"} => occurredAt'[e] = occurredAt[e]
    /\ outboxState[e] = "processed" => outboxState'[e] = "processed"

LEMMA StaysSubscribed ==
  ASSUME TypeOK, KeepsBeginnings, EventsStay, NEW p \in Endpoints, NEW e \in Events,
         outboxState[e] \in {"pending", "processed"}, SubscribedBefore(p, e)
  PROVE  SubscribedBefore(p, e)'
BY DEF SubscribedBefore, KeepsBeginnings, EventsStay

(* So deliveries and plans that were there stay subscribed.                *)
LEMMA DeliveriesStaySubscribed ==
  ASSUME TypeOK, SubscriptionInv, KeepsBeginnings, EventsStay, NoNewInitial
  PROVE  InitialDeliveryWasSubscribed'
<1> SUFFICES ASSUME NEW d \in Deliveries, IsInitial(d), status'[d] # "absent"
             PROVE  Projected(d.event)' /\ SubscribedBefore(d.endpoint, d.event)'
  BY DEF InitialDeliveryWasSubscribed, IsInitial
<1>1. d.endpoint \in Endpoints /\ d.event \in Events
  BY DEF Deliveries
<1>2. Projected(d.event) /\ SubscribedBefore(d.endpoint, d.event)
  BY DEF NoNewInitial, SubscriptionInv, InitialDeliveryWasSubscribed, SubscribedBefore
<1>3. SubscribedBefore(d.endpoint, d.event)'
  BY <1>1, <1>2, StaysSubscribed DEF Projected
<1>4. Projected(d.event)'
  BY <1>1, <1>2 DEF Projected, EventsStay, External
<1> QED BY <1>3, <1>4 DEF SubscribedBefore

LEMMA PlansStaySubscribed ==
  ASSUME TypeOK, BatchInv, SubscriptionInv, KeepsBeginnings, EventsStay, NEW w \in Workers,
         plan'[w] = plan[w], NEW i \in plan'[w].inserts
  PROVE  /\ i.delivery.event \in plan'[w].rows /\ i.delivery.event \notin Malformed
         /\ External(i.delivery.event)
         /\ SubscribedBefore(i.delivery.endpoint, i.delivery.event)'
<1>1. /\ i.delivery.event \in plan[w].rows /\ i.delivery.event \notin Malformed
      /\ External(i.delivery.event)
      /\ SubscribedBefore(i.delivery.endpoint, i.delivery.event)
  BY DEF SubscriptionInv, PlansAreSubscribed
<1>2. i.delivery.endpoint \in Endpoints /\ i.delivery.event \in Events
  BY DEF TypeOK, Plans, Insert, Deliveries
<1>3. outboxState[i.delivery.event] = "pending"
  BY <1>1 DEF BatchInv
<1> QED BY <1>1, <1>2, <1>3, StaysSubscribed

(* Requests that were admitted earlier, and ones that have just been.      *)
LEMMA RequestsStaySound ==
  ASSUME TypeOK, SubscriptionInv, RequestsKept, stamp <= stamp', stamp' \in Nat, TypeOK'
  PROVE  /\ ReplaysAreCommanded' /\ VersionsWereSeen'
         /\ \A r \in admitted' : r.now <= stamp'
<1> SUFFICES ASSUME NEW r \in admitted'
             PROVE  /\ r.op = "replay" => r.command # None
                    /\ r.version <= endpointVersion'[r.endpoint] /\ r.now <= stamp'
  BY DEF ReplaysAreCommanded, VersionsWereSeen
<1>1. r \in admitted \/ Fresh(r)
  BY DEF RequestsKept
<1>2. /\ r.op = "replay" => r.command # None
      /\ r.version <= endpointVersion[r.endpoint] /\ r.now <= stamp
  BY <1>1 DEF Fresh, SubscriptionInv, ReplaysAreCommanded, VersionsWereSeen,
              NothingIsFromTheFuture
<1>3. /\ r.endpoint \in Endpoints /\ r.version \in Nat /\ r.now \in Nat /\ stamp \in Nat
      /\ endpointVersion[r.endpoint] \in Nat /\ endpointVersion'[r.endpoint] \in Nat
  BY DEF TypeOK, Request
<1>4. endpointVersion[r.endpoint] <= endpointVersion'[r.endpoint]
  BY <1>3 DEF RequestsKept
<1> QED BY <1>2, <1>3, <1>4

(* Steps that leave the subscriptions of every endpoint alone.             *)
LEMMA UnchangedIntervals ==
  ASSUME TypeOK, SubscriptionInv, RequestsKept, TypeOK', stamp <= stamp',
         UNCHANGED subscriptions,
         \A p \in Endpoints : endpointState'[p] = "absent" => endpointState[p] = "absent"
  PROVE  /\ AbsentHasNone' /\ IntervalsAreOrdered' /\ NothingIsFromTheFuture' /\ UpToDateIsLater'
         /\ ReplaysAreCommanded' /\ VersionsWereSeen' /\ KeepsBeginnings
<1>1. AbsentHasNone' /\ IntervalsAreOrdered' /\ KeepsBeginnings
  BY DEF SubscriptionInv, AbsentHasNone, IntervalsAreOrdered, KeepsBeginnings
<1>2. stamp' \in Nat /\ stamp \in Nat
  BY DEF TypeOK
<1>3. ReplaysAreCommanded' /\ VersionsWereSeen' /\ \A r \in admitted' : r.now <= stamp'
  BY <1>2, RequestsStaySound
<1>4. NothingIsFromTheFuture'
  <2>1. ASSUME NEW p \in Endpoints, NEW i \in subscriptions[p] PROVE i.from <= stamp'
    <3>1. i.from <= stamp /\ i.from \in Nat
      BY DEF SubscriptionInv, NothingIsFromTheFuture, TypeOK, Interval
    <3> QED BY <1>2, <3>1
  <2> QED BY <1>3, <2>1 DEF NothingIsFromTheFuture
<1>5. UpToDateIsLater'
  <2> SUFFICES ASSUME NEW r \in admitted', r.op = "subscribe", UpToDate(r)',
                      NEW i \in subscriptions[r.endpoint]
               PROVE  i.from <= r.now
    BY DEF UpToDateIsLater
  <2>1. CASE r \in admitted
    <3>1. /\ r.endpoint \in Endpoints /\ r.version \in Nat
          /\ endpointVersion[r.endpoint] \in Nat /\ endpointVersion'[r.endpoint] \in Nat
      BY <2>1 DEF TypeOK, Request
    <3>2. /\ r.version <= endpointVersion[r.endpoint]
          /\ endpointVersion[r.endpoint] <= endpointVersion'[r.endpoint]
          /\ endpointVersion'[r.endpoint] = r.version
      BY <2>1, <3>1 DEF SubscriptionInv, VersionsWereSeen, RequestsKept, UpToDate
    <3>3. UpToDate(r)
      BY <3>1, <3>2 DEF UpToDate
    <3> QED BY <2>1, <3>3 DEF SubscriptionInv, UpToDateIsLater
  <2>2. CASE Fresh(r)
    <3>1. r.endpoint \in Endpoints
      BY <2>2 DEF Fresh, Request
    <3> QED BY <2>2, <3>1 DEF Fresh, SubscriptionInv, NothingIsFromTheFuture
  <2> QED BY <2>1, <2>2 DEF RequestsKept
<1> QED BY <1>1, <1>3, <1>4, <1>5

LEMMA QuietSubscriptions ==
  ASSUME TypeInv, TypeOK', SubscriptionInv, SubscriptionQuiet
  PROVE  SubscriptionInv'
<1>1. TypeOK /\ BatchInv
  BY DEF TypeInv
<1>2. /\ AbsentHasNone' /\ IntervalsAreOrdered' /\ NothingIsFromTheFuture' /\ UpToDateIsLater'
      /\ ReplaysAreCommanded' /\ VersionsWereSeen' /\ KeepsBeginnings
  BY <1>1, UnchangedIntervals DEF SubscriptionQuiet, EndpointsStay
<1>3. EventsStay
  BY DEF SubscriptionQuiet, EventsStay
<1>4. InitialDeliveryWasSubscribed'
  BY <1>1, <1>2, <1>3, DeliveriesStaySubscribed DEF SubscriptionQuiet
<1>5. PlansAreSubscribed'
  <2> SUFFICES ASSUME NEW w \in Workers, NEW i \in plan'[w].inserts
               PROVE  /\ i.delivery.event \in plan'[w].rows /\ i.delivery.event \notin Malformed
                      /\ External(i.delivery.event)
                      /\ SubscribedBefore(i.delivery.endpoint, i.delivery.event)'
    BY DEF PlansAreSubscribed, External
  <2>1. plan'[w] = plan[w]
    BY DEF SubscriptionQuiet, NoNewPlan, NoPlan
  <2> QED BY <1>1, <1>2, <1>3, <2>1, PlansStaySubscribed
<1> QED BY <1>2, <1>4, <1>5 DEF SubscriptionInv

(* Publications and dispatchers.                                           *)
LEMMA DispatchKeepsSubscriptions ==
  ASSUME TypeInv, TypeOK', SubscriptionInv, Dispatching
  PROVE  SubscriptionInv'
<1>0. TypeOK /\ BatchInv
  BY DEF TypeInv
<1>a. ASSUME UNCHANGED <<subscriptions, endpointState, endpointVersion, stamp, admitted>>,
             EventsStay
      PROVE  /\ AbsentHasNone' /\ IntervalsAreOrdered' /\ NothingIsFromTheFuture'
             /\ UpToDateIsLater' /\ ReplaysAreCommanded' /\ VersionsWereSeen' /\ KeepsBeginnings
  <2>1. stamp \in Nat /\ \A p \in Endpoints : endpointVersion[p] \in Nat
    BY <1>0 DEF TypeOK
  <2>2. RequestsKept /\ stamp <= stamp'
    BY <1>a, <2>1 DEF RequestsKept
  <2> QED BY <1>0, <1>a, <2>2, UnchangedIntervals
<1>b. ASSUME EventsStay, KeepsBeginnings, UNCHANGED plan PROVE PlansAreSubscribed'
  BY <1>0, <1>b, PlansStaySubscribed DEF PlansAreSubscribed, External
<1>c. UNCHANGED status => NoNewInitial
  BY DEF NoNewInitial
<1>1. ASSUME NEW e \in Events, BeginPublication(e) \/ CommitPublication(e)
      PROVE  SubscriptionInv'
  <2>1. EventsStay
    BY <1>0, <1>1 DEF BeginPublication, CommitPublication, EventsStay, TypeOK
  <2>2. UNCHANGED <<configVars, deliveryVars, stamp, admitted, plan>>
    BY <1>1 DEF BeginPublication, CommitPublication
  <2> QED BY <1>0, <1>a, <1>b, <1>c, <2>1, <2>2, DeliveriesStaySubscribed
          DEF SubscriptionInv, configVars, deliveryVars
<1>2. ASSUME NEW w \in Workers, NEW rows \in SUBSET Events, DispatchRead(w, rows)
      PROVE  SubscriptionInv'
  <2>1. EventsStay /\ UNCHANGED <<configVars, deliveryVars, stamp, admitted, outboxVars>>
    BY <1>2 DEF DispatchRead, EventsStay, outboxVars
  <2>2. /\ AbsentHasNone' /\ IntervalsAreOrdered' /\ NothingIsFromTheFuture'
        /\ UpToDateIsLater' /\ ReplaysAreCommanded' /\ VersionsWereSeen' /\ KeepsBeginnings
    BY <1>a, <2>1 DEF configVars
  <2>3. ASSUME NEW i \in plan'[w].inserts
        PROVE  /\ i.delivery.event \in plan'[w].rows /\ i.delivery.event \notin Malformed
               /\ External(i.delivery.event)
               /\ SubscribedBefore(i.delivery.endpoint, i.delivery.event)'
    <3>1. plan'[w] = [rows |-> rows,
            inserts |-> {[delivery |-> Initial(ep[1], ep[2]), target |-> destination[ep[2]]] :
                           ep \in {x \in WellFormed(rows) \X Endpoints : Eligible(x[2], x[1])}}]
      BY <1>0, <1>2 DEF DispatchRead, TypeOK
    <3>2. PICK e \in WellFormed(rows), p \in Endpoints :
            Eligible(p, e) /\ i.delivery = Initial(e, p)
      BY <2>3, <3>1
    <3>3. i.delivery.event = e /\ i.delivery.endpoint = p
      BY <3>2 DEF Initial
    <3>4. SubscribedBefore(p, e)'
      BY <2>1, <3>2 DEF Eligible, Covers, SubscribedBefore, configVars, outboxVars
    <3>5. e \in rows /\ External(e) /\ e \notin Malformed
      BY <3>2 DEF WellFormed
    <3> QED BY <3>1, <3>3, <3>4, <3>5
  <2>4. \A v \in Workers : v # w => plan'[v] = plan[v]
    BY <1>0, <1>2 DEF DispatchRead, TypeOK
  <2>5. PlansAreSubscribed'
    <3> SUFFICES ASSUME NEW v \in Workers, NEW i \in plan'[v].inserts
                 PROVE  /\ i.delivery.event \in plan'[v].rows
                        /\ i.delivery.event \notin Malformed
                        /\ External(i.delivery.event)
                        /\ SubscribedBefore(i.delivery.endpoint, i.delivery.event)'
      BY DEF PlansAreSubscribed, External
    <3>1. CASE v = w
      BY <2>3, <3>1
    <3>2. CASE v # w
      BY <1>0, <2>1, <2>2, <2>4, <3>2, PlansStaySubscribed
    <3> QED BY <3>1, <3>2
  <2>6. InitialDeliveryWasSubscribed'
    BY <1>0, <1>c, <2>1, <2>2, DeliveriesStaySubscribed DEF deliveryVars
  <2> QED BY <2>2, <2>5, <2>6 DEF SubscriptionInv
<1>3. ASSUME NEW w \in Workers, DispatchCommit(w) PROVE SubscriptionInv'
  <2>1. EventsStay
    BY <1>0, <1>3 DEF DispatchCommit, EventsStay, TypeOK
  <2>2. UNCHANGED <<configVars, occurredAt, stamp, admitted>>
    BY <1>3 DEF DispatchCommit
  <2>3. /\ AbsentHasNone' /\ IntervalsAreOrdered' /\ NothingIsFromTheFuture'
        /\ UpToDateIsLater' /\ ReplaysAreCommanded' /\ VersionsWereSeen' /\ KeepsBeginnings
    BY <1>a, <2>1, <2>2 DEF configVars
  <2>4. \A v \in Workers : plan'[v] = IF v = w THEN NoPlan ELSE plan[v]
    BY <1>0, <1>3 DEF DispatchCommit, TypeOK
  <2>5. PlansAreSubscribed'
    <3> SUFFICES ASSUME NEW v \in Workers, NEW i \in plan'[v].inserts
                 PROVE  /\ i.delivery.event \in plan'[v].rows
                        /\ i.delivery.event \notin Malformed
                        /\ External(i.delivery.event)
                        /\ SubscribedBefore(i.delivery.endpoint, i.delivery.event)'
      BY DEF PlansAreSubscribed, External
    <3>1. plan'[v] = plan[v]
      BY <2>4 DEF NoPlan
    <3> QED BY <1>0, <2>1, <2>3, <3>1, PlansStaySubscribed
  <2>6. InitialDeliveryWasSubscribed'
    <3> SUFFICES ASSUME NEW d \in Deliveries, IsInitial(d), status'[d] # "absent"
                 PROVE  Projected(d.event)' /\ SubscribedBefore(d.endpoint, d.event)'
      BY DEF InitialDeliveryWasSubscribed, IsInitial
    <3>0. d.endpoint \in Endpoints /\ d.event \in Events
      BY DEF Deliveries
    <3>1. CASE status[d] # "absent"
      <4>1. Projected(d.event) /\ SubscribedBefore(d.endpoint, d.event)
        BY <3>1 DEF SubscriptionInv, InitialDeliveryWasSubscribed, SubscribedBefore
      <4>2. SubscribedBefore(d.endpoint, d.event)'
        BY <1>0, <2>1, <2>3, <3>0, <4>1, StaysSubscribed DEF Projected
      <4>3. Projected(d.event)'
        BY <2>1, <3>0, <4>1 DEF Projected, EventsStay, External
      <4> QED BY <4>2, <4>3 DEF SubscribedBefore
    <3>2. CASE status[d] = "absent"
      <4>1. PICK i \in Inserted(w) : i.delivery = d
        BY <1>3, <3>2 DEF DispatchCommit
      <4>2. i \in plan[w].inserts
        BY <4>1 DEF Inserted
      <4>3. /\ d.event \in plan[w].rows /\ d.event \notin Malformed /\ External(d.event)
            /\ SubscribedBefore(d.endpoint, d.event)
        BY <4>1, <4>2 DEF SubscriptionInv, PlansAreSubscribed
      <4>4. outboxState'[d.event] = "processed"
        BY <1>3, <3>0, <4>3 DEF DispatchCommit, Expanded
      <4>5. outboxState[d.event] = "pending"
        BY <1>0, <4>3 DEF BatchInv
      <4>6. SubscribedBefore(d.endpoint, d.event)'
        BY <1>0, <2>1, <2>3, <3>0, <4>3, <4>5, StaysSubscribed
      <4> QED BY <4>3, <4>4, <4>6 DEF SubscribedBefore, Projected, External
    <3> QED BY <3>1, <3>2
  <2> QED BY <2>3, <2>5, <2>6 DEF SubscriptionInv
<1> QED BY <1>1, <1>2, <1>3 DEF Dispatching

(* A handler that writes the intervals of its endpoint: ones it closes or  *)
(* opens are no earlier than the others.                                   *)
LEMMA ChangedIntervals ==
  ASSUME TypeInv, TypeOK', SubscriptionInv, NEW r \in admitted, Done(r), r.op # "replay",
         UNCHANGED <<stamp, outboxVars, plan>>, NoNewInitial, KeepsBeginnings,
         \A p \in Endpoints \ {r.endpoint} :
           subscriptions'[p] = subscriptions[p] /\ endpointState'[p] = endpointState[p],
         endpointState'[r.endpoint] # "absent",
         \A j \in subscriptions'[r.endpoint] :
           j.from <= stamp /\ (j.until = None \/ j.from <= j.until)
  PROVE  SubscriptionInv'
<1>0. TypeOK /\ BatchInv
  BY DEF TypeInv
<1>1. /\ RequestsKept /\ admitted' = admitted \ {r} /\ r.endpoint \in Endpoints
      /\ endpointVersion' = [endpointVersion EXCEPT ![r.endpoint] = @ + 1]
  BY <1>0, DoneIsSeen
<1>2. stamp \in Nat /\ stamp <= stamp'
  BY <1>0 DEF TypeOK
<1>3. ReplaysAreCommanded' /\ VersionsWereSeen' /\ \A q \in admitted' : q.now <= stamp'
  BY <1>0, <1>1, <1>2, RequestsStaySound
<1>4. EventsStay
  BY DEF EventsStay, outboxVars
<1>5. InitialDeliveryWasSubscribed'
  BY <1>0, <1>4, DeliveriesStaySubscribed
<1>6. PlansAreSubscribed'
  BY <1>0, <1>4, PlansStaySubscribed DEF PlansAreSubscribed, External
<1>7. AbsentHasNone' /\ IntervalsAreOrdered'
  BY <1>1 DEF SubscriptionInv, AbsentHasNone, IntervalsAreOrdered
<1>8. NothingIsFromTheFuture'
  BY <1>1, <1>3 DEF SubscriptionInv, NothingIsFromTheFuture
<1>9. UpToDateIsLater'
  <2> SUFFICES ASSUME NEW q \in admitted', q.op = "subscribe", UpToDate(q)',
                      NEW i \in subscriptions'[q.endpoint]
               PROVE  i.from <= q.now
    BY DEF UpToDateIsLater
  <2>1. q \in admitted /\ q.endpoint \in Endpoints /\ q.version \in Nat
    BY <1>0, <1>1 DEF TypeOK, Request
  <2>2. q.version <= endpointVersion[q.endpoint] /\ endpointVersion[q.endpoint] \in Nat
    BY <1>0, <2>1 DEF SubscriptionInv, VersionsWereSeen, TypeOK
  <2>3. endpointVersion'[q.endpoint] = q.version
    BY DEF UpToDate
  <2>4. q.endpoint # r.endpoint /\ UpToDate(q)
    BY <1>0, <1>1, <2>1, <2>2, <2>3 DEF UpToDate, TypeOK
  <2> QED BY <2>1, <2>4 DEF SubscriptionInv, UpToDateIsLater
<1> QED BY <1>3, <1>5, <1>6, <1>7, <1>8, <1>9 DEF SubscriptionInv

(* A new endpoint begins its subscriptions at the time it was asked for.   *)
LEMMA CreateKeepsSubscriptions ==
  ASSUME TypeInv, TypeOK', SubscriptionInv, NEW r \in admitted,
         NEW types \in SUBSET EventTypes, CreateEndpoint(r, types)
  PROVE  SubscriptionInv'
<1>0. TypeOK
  BY DEF TypeInv
<1>1. /\ r.op = "create" /\ Done(r) /\ endpointState[r.endpoint] = "absent"
      /\ subscriptions' = [subscriptions EXCEPT ![r.endpoint] = Opened(types, r.now)]
      /\ endpointState' = [endpointState EXCEPT ![r.endpoint] = "enabled"]
      /\ UNCHANGED <<stamp, outboxVars, plan, deliveryVars>>
  BY DEF CreateEndpoint, Pending
<1>2. r.endpoint \in Endpoints /\ r.now <= stamp
  BY <1>0 DEF TypeOK, Request, SubscriptionInv, NothingIsFromTheFuture
<1>3. \A p \in Endpoints \ {r.endpoint} :
        subscriptions'[p] = subscriptions[p] /\ endpointState'[p] = endpointState[p]
  BY <1>0, <1>1 DEF TypeOK
<1>4. KeepsBeginnings
  BY <1>1, <1>2, <1>3 DEF KeepsBeginnings, SubscriptionInv, AbsentHasNone
<1>5. endpointState'[r.endpoint] # "absent"
  BY <1>0, <1>1, <1>2 DEF TypeOK
<1>6. \A j \in subscriptions'[r.endpoint] :
        j.from <= stamp /\ (j.until = None \/ j.from <= j.until)
  BY <1>0, <1>1, <1>2 DEF TypeOK, Opened
<1>7. NoNewInitial
  BY <1>1 DEF NoNewInitial, deliveryVars
<1> QED BY <1>1, <1>3, <1>4, <1>5, <1>6, <1>7, ChangedIntervals

(* A replacement closes intervals at the time its request read, which is   *)
(* later than they began: the version of the endpoint has not moved since. *)
LEMMA ReplaceKeepsSubscriptions ==
  ASSUME TypeInv, TypeOK', SubscriptionInv, NEW r \in admitted,
         NEW types \in SUBSET EventTypes, ReplaceSubscriptions(r, types)
  PROVE  SubscriptionInv'
<1> DEFINE open    == {i \in subscriptions[r.endpoint] : i.until = None}
           removed == {i \in open : i.type \notin types}
           added   == types \ {i.type : i \in open}
           closed  == {[i EXCEPT !.until = r.now] : i \in removed}
<1>0. TypeOK
  BY DEF TypeInv
<1>1. /\ r.op = "subscribe" /\ UpToDate(r) /\ Done(r) /\ endpointState[r.endpoint] # "absent"
      /\ UNCHANGED <<stamp, outboxVars, plan, endpointState>>
  BY DEF ReplaceSubscriptions, Pending
<1>2. subscriptions' = [subscriptions EXCEPT ![r.endpoint] =
                          (@ \ removed) \cup closed \cup Opened(added, r.now)]
  BY DEF ReplaceSubscriptions
<1>3. r.endpoint \in Endpoints /\ r.now \in Nat /\ r.now <= stamp
  BY <1>0 DEF TypeOK, Request, SubscriptionInv, NothingIsFromTheFuture
<1>4. removed \subseteq subscriptions[r.endpoint] /\ removed \subseteq Interval
  BY <1>0, <1>3 DEF TypeOK
<1>5. \A i \in subscriptions[r.endpoint] : i.from <= stamp /\ i.from <= r.now
  BY <1>1, <1>3 DEF SubscriptionInv, UpToDateIsLater, NothingIsFromTheFuture
<1>6. \A i \in Interval : /\ [i EXCEPT !.until = r.now].until = r.now
                          /\ [i EXCEPT !.until = r.now].from = i.from
                          /\ [i EXCEPT !.until = r.now].type = i.type
  BY DEF Interval
<1>7. \A j \in closed : \E i \in removed : j.from = i.from /\ j.until = r.now
  BY <1>4, <1>6
<1>8. \A i \in removed : \E j \in closed : j.type = i.type /\ j.from = i.from
  BY <1>4, <1>6
<1>9. NoNewInitial
  <2>1. PICK D : CancelWaiting(D)
    BY DEF ReplaceSubscriptions
  <2> QED BY <2>1, CancelCreatesNone
<1> HIDE DEF removed, added, closed
<1>10. subscriptions'[r.endpoint] =
         (subscriptions[r.endpoint] \ removed) \cup closed \cup Opened(added, r.now)
  BY <1>0, <1>2, <1>3 DEF TypeOK
<1>11. \A p \in Endpoints \ {r.endpoint} :
         subscriptions'[p] = subscriptions[p] /\ endpointState'[p] = endpointState[p]
  BY <1>0, <1>1, <1>2 DEF TypeOK
<1>12. KeepsBeginnings
  BY <1>8, <1>10, <1>11 DEF KeepsBeginnings
<1>13. \A j \in subscriptions'[r.endpoint] :
         j.from <= stamp /\ (j.until = None \/ j.from <= j.until)
  <2> SUFFICES ASSUME NEW j \in subscriptions'[r.endpoint]
               PROVE  j.from <= stamp /\ (j.until = None \/ j.from <= j.until)
    OBVIOUS
  <2>1. CASE j \in subscriptions[r.endpoint]
    BY <1>3, <1>5, <2>1 DEF SubscriptionInv, IntervalsAreOrdered
  <2>2. CASE j \in closed
    BY <1>4, <1>5, <1>7, <2>2
  <2>3. CASE j \in Opened(added, r.now)
    BY <1>3, <2>3 DEF Opened
  <2> QED BY <1>10, <2>1, <2>2, <2>3
<1> QED BY <1>1, <1>9, <1>11, <1>12, <1>13, ChangedIntervals

(* The steps of a rotation have nothing to do with subscriptions.          *)
LEMMA RotationsAreQuiet ==
  ASSUME TypeOK, NEW r \in admitted,
         \/ StartSecretRotation(r) \/ ActivateRotation(r)
         \/ CancelRotation(r) \/ CompleteRotation(r)
  PROVE  SubscriptionQuiet
<1>1. OnlySecrets /\ Done(r)
  BY DEF StartSecretRotation, ActivateRotation, CancelRotation, CompleteRotation
<1>2. RequestsKept /\ stamp <= stamp'
  BY <1>1, DoneIsSeen DEF OnlySecrets, TypeOK
<1>3. NoNewInitial /\ NoNewPlan /\ EndpointsStay /\ EnablingIsDated
  BY <1>1 DEF OnlySecrets, deliveryVars, NoNewInitial, NoNewPlan, EndpointsStay,
              EnablingIsDated
<1>4. UNCHANGED <<subscriptions, occurredAt, outboxState>>
  BY <1>1 DEF OnlySecrets, outboxVars
<1> QED BY <1>2, <1>3, <1>4 DEF SubscriptionQuiet

LEMMA LapsesAreQuiet ==
  ASSUME TypeOK, NEW p \in Endpoints, NEW s \in Secrets, SecretLapses(p, s)
  PROVE  SubscriptionQuiet
<1>1. \A q \in Endpoints : endpointVersion[q] \in Nat /\ stamp \in Nat
  BY DEF TypeOK
<1>2. RequestsKept /\ stamp <= stamp'
  BY <1>1 DEF SecretLapses, RequestsKept, TypeOK
<1>3. NoNewInitial /\ NoNewPlan /\ EndpointsStay /\ EnablingIsDated
  BY DEF SecretLapses, deliveryVars, NoNewInitial, NoNewPlan, EndpointsStay, EnablingIsDated
<1>4. UNCHANGED <<subscriptions, occurredAt, outboxState>>
  BY DEF SecretLapses, outboxVars
<1> QED BY <1>2, <1>3, <1>4 DEF SubscriptionQuiet

(* Subscriptions, plans and requests keep their invariant.                 *)
THEOREM SubscriptionsCorrect == Spec => []SubscriptionInv
<1>1. Init => SubscriptionInv
  BY DEF Init, InitStore, SubscriptionInv, InitialDeliveryWasSubscribed, PlansAreSubscribed,
         AbsentHasNone, ReplaysAreCommanded, IntervalsAreOrdered, NothingIsFromTheFuture,
         VersionsWereSeen, UpToDateIsLater, NoPlan
<1>2. ASSUME PipelineInv, TypeOK', SubscriptionInv, [Next]_vars PROVE SubscriptionInv'
  <2>1. TypeInv /\ ReplaysAreCommanded
    BY <1>2 DEF PipelineInv, SubscriptionInv
  <2>2. CASE SubscriptionQuiet
    BY <1>2, <2>1, <2>2, QuietSubscriptions
  <2>3. ASSUME NEW r \in admitted, NEW types \in SUBSET EventTypes,
               CreateEndpoint(r, types) \/ ReplaceSubscriptions(r, types)
        PROVE  SubscriptionInv'
    BY <1>2, <2>1, <2>3, CreateKeepsSubscriptions, ReplaceKeepsSubscriptions
  <2>4. ASSUME NEW r \in admitted,
               \/ StartSecretRotation(r) \/ ActivateRotation(r)
               \/ CancelRotation(r) \/ CompleteRotation(r)
        PROVE  SubscriptionInv'
    BY <1>2, <2>1, <2>4, RotationsAreQuiet, QuietSubscriptions DEF TypeInv
  <2>5. ASSUME NEW p \in Endpoints, NEW s \in Secrets, SecretLapses(p, s)
        PROVE  SubscriptionInv'
    BY <1>2, <2>1, <2>5, LapsesAreQuiet, QuietSubscriptions DEF TypeInv
  <2>6. CASE Dispatching
    BY <1>2, <2>1, <2>6, DispatchKeepsSubscriptions
  <2> QED BY <1>2, <2>1, <2>2, <2>3, <2>4, <2>5, <2>6, MostStepsConfigureNothing
<1>3. PipelineInv /\ TypeOK' /\ SubscriptionInv /\ [Next]_vars => SubscriptionInv'
  BY <1>2
<1> QED BY <1>1, <1>3, LeasesCorrect, TypesHold, PTL DEF Spec

(* No subscriber gets by itself what was published before it first         *)
(* subscribed to the type.                                                 *)
THEOREM DeliveriesWereSubscribed == Spec => []InitialDeliveryWasSubscribed
BY SubscriptionsCorrect, PTL DEF SubscriptionInv

(* The CHECK constraint on activation intervals never fires.               *)
THEOREM IntervalsOrdered == Spec => []IntervalsAreOrdered
BY SubscriptionsCorrect, PTL DEF SubscriptionInv

-----------------------------------------------------------------------------
(* What is missed *)

(* It stays missed when the step neither begins to cover the event nor     *)
(* plans or makes its delivery, and the requests that come are dated now.  *)
LEMMA MissedIfUncovered ==
  ASSUME TypeOK, TypeOK', NEW p \in Endpoints, NEW e \in Events, Missed(p, e),
         occurredAt'[e] = occurredAt[e], outboxState'[e] # "unpublished", stamp <= stamp',
         \A r \in Dated(p)' : r \in Dated(p) \/ r.now = stamp,
         ~Wants(p, e)', NoNewInitial,
         \A w \in Workers : \A i \in plan'[w].inserts :
           i.delivery = Initial(e, p) => i \in plan[w].inserts
  PROVE  Missed(p, e)'
<1>1. occurredAt[e] \in Nat /\ stamp \in Nat /\ stamp' \in Nat /\ occurredAt[e] < stamp
  BY DEF TypeOK, Missed
<1>2. \A r \in Dated(p)' : occurredAt'[e] < r.now
  BY <1>1 DEF Missed
<1>3. Initial(e, p) \in Deliveries /\ IsInitial(Initial(e, p))
  BY DEF Initial, Deliveries, IsInitial
<1>4. status'[Initial(e, p)] = "absent"
  BY <1>3 DEF Missed, NoNewInitial
<1>5. \A w \in Workers : \A i \in plan'[w].inserts : i.delivery # Initial(e, p)
  BY DEF Missed
<1>6. Initial(e, p)' = Initial(e, p)
  BY DEF Initial
<1>7. occurredAt'[e] < stamp'
  BY <1>1
<1> QED BY <1>2, <1>4, <1>5, <1>6, <1>7 DEF Missed

(* A step that leaves the subscriptions alone, and enables an endpoint     *)
(* only from the time of a request on.                                     *)
LEMMA QuietMisses ==
  ASSUME TypeOK, TypeOK', NEW p \in Endpoints, NEW e \in Events, Missed(p, e), SubscriptionQuiet
  PROVE  Missed(p, e)'
<1>1. \A r \in Dated(p)' : r \in Dated(p) \/ r.now = stamp
  BY DEF SubscriptionQuiet, RequestsKept, Fresh, Dated, Pending
<1>2. ~Wants(p, e)'
  <2>1. CASE endpointState'[p] = "enabled" /\ endpointState[p] = "enabled"
               /\ enabledAt'[p] = enabledAt[p]
    BY <2>1 DEF Missed, Wants, SubscriptionQuiet
  <2>2. ASSUME NEW r \in Dated(p), enabledAt'[p] = r.now PROVE ~Wants(p, e)'
    <3>1. occurredAt[e] < r.now /\ occurredAt[e] \in Nat /\ r.now \in Nat
      BY <2>2 DEF Missed, TypeOK, Dated, Pending, Request
    <3> QED BY <2>2, <3>1 DEF Wants, SubscriptionQuiet
  <2>3. CASE endpointState'[p] # "enabled"
    BY <2>3 DEF Wants
  <2> QED BY <2>1, <2>2, <2>3 DEF SubscriptionQuiet, EnablingIsDated
<1>3. \A w \in Workers : \A i \in plan'[w].inserts : i \in plan[w].inserts
  BY DEF SubscriptionQuiet, NoNewPlan, NoPlan
<1> QED BY <1>1, <1>2, <1>3, MissedIfUncovered DEF SubscriptionQuiet, Missed

(* A request that creates the endpoint enables it from its own time on;    *)
(* one that replaces subscriptions begins the new ones then, and the ones  *)
(* it ends covered no more than they did.                                  *)
LEMMA HandlersMiss ==
  ASSUME TypeOK, TypeOK', NEW p \in Endpoints, NEW e \in Events, Missed(p, e),
         NEW r \in admitted, NEW types \in SUBSET EventTypes,
         CreateEndpoint(r, types) \/ ReplaceSubscriptions(r, types)
  PROVE  Missed(p, e)'
<1>1. /\ Done(r) /\ UNCHANGED <<stamp, outboxVars, plan>> /\ NoNewInitial
      /\ r.op \in {"create", "subscribe"}
  <2>1. CASE CreateEndpoint(r, types)
    BY <2>1 DEF CreateEndpoint, Pending, NoNewInitial, deliveryVars
  <2>2. CASE ReplaceSubscriptions(r, types)
    <3>1. PICK D : CancelWaiting(D)
      BY <2>2 DEF ReplaceSubscriptions
    <3> QED BY <2>2, <3>1, CancelCreatesNone DEF ReplaceSubscriptions, Pending
  <2> QED BY <2>1, <2>2
<1>2. /\ occurredAt[e] \in Nat /\ r.now \in Nat /\ r.endpoint \in Endpoints
      /\ stamp \in Nat
  BY DEF TypeOK, Request
<1>3. p = r.endpoint => r \in Dated(p) /\ occurredAt[e] < r.now
  BY <1>1 DEF Dated, Pending, Missed
<1>4. occurredAt' = occurredAt
  BY <1>1 DEF outboxVars
<1>5. CASE p # r.endpoint
  <2>1. /\ endpointState'[p] = endpointState[p] /\ enabledAt'[p] = enabledAt[p]
        /\ subscriptions'[p] = subscriptions[p]
    BY <1>5 DEF CreateEndpoint, ReplaceSubscriptions, TypeOK
  <2>2. ~Wants(p, e)'
    BY <1>4, <2>1 DEF Missed, Wants
  <2> QED BY <1>1, <1>2, <1>4, <2>2, MissedIfUncovered
          DEF Done, Dated, Pending, Missed, outboxVars
<1>6. CASE p = r.endpoint /\ CreateEndpoint(r, types)
  <2>1. enabledAt'[p] = r.now
    BY <1>6 DEF CreateEndpoint, TypeOK
  <2>2. ~Wants(p, e)'
    BY <1>2, <1>3, <1>4, <1>6, <2>1 DEF Wants
  <2> QED BY <1>1, <1>2, <1>4, <2>2, MissedIfUncovered
          DEF Done, Dated, Pending, Missed, outboxVars
<1>7. CASE p = r.endpoint /\ ReplaceSubscriptions(r, types)
  <2> DEFINE open    == {i \in subscriptions[p] : i.until = None}
             removed == {i \in open : i.type \notin types}
             added   == types \ {i.type : i \in open}
             closed  == {[i EXCEPT !.until = r.now] : i \in removed}
  <2>1. subscriptions'[p] = (subscriptions[p] \ removed) \cup closed \cup Opened(added, r.now)
    BY <1>7 DEF ReplaceSubscriptions, TypeOK
  <2>2. endpointState'[p] = endpointState[p] /\ enabledAt'[p] = enabledAt[p]
    BY <1>7 DEF ReplaceSubscriptions
  <2>3. \A i \in closed : \E j \in subscriptions[p] :
          j.until = None /\ j.type = i.type /\ j.from = i.from
    <3>1. removed \subseteq subscriptions[p] /\ removed \subseteq Interval
      BY DEF TypeOK
    <3>2. \A j \in Interval : /\ [j EXCEPT !.until = r.now].type = j.type
                              /\ [j EXCEPT !.until = r.now].from = j.from
      BY DEF Interval
    <3> QED BY <3>1, <3>2
  <2>4. \A i \in Opened(added, r.now) : i.from = r.now
    BY DEF Opened
  <2> HIDE DEF removed, added, closed
  <2>5. ~Wants(p, e)'
    <3> SUFFICES ASSUME Wants(p, e)' PROVE FALSE
      OBVIOUS
    <3>1. PICK i \in subscriptions'[p] :
            /\ i.type = TypeOf[e] /\ i.from <= occurredAt[e]
            /\ i.until = None \/ occurredAt[e] < i.until
      BY <1>4 DEF Wants
    <3>2. endpointState[p] = "enabled" /\ enabledAt[p] <= occurredAt[e]
      BY <1>4, <2>2 DEF Wants
    <3>3. \A j \in subscriptions[p] :
            ~(/\ j.type = TypeOf[e] /\ j.from <= occurredAt[e]
              /\ j.until = None \/ occurredAt[e] < j.until)
      BY <3>2 DEF Missed, Wants
    <3>4. CASE i \in subscriptions[p]
      BY <3>1, <3>3, <3>4
    <3>5. CASE i \in closed
      BY <2>3, <3>1, <3>3, <3>5
    <3>6. CASE i \in Opened(added, r.now)
      BY <1>2, <1>3, <1>7, <2>4, <3>1, <3>6
    <3> QED BY <2>1, <3>1, <3>4, <3>5, <3>6
  <2> QED BY <1>1, <1>2, <1>4, <2>5, MissedIfUncovered
          DEF Done, Dated, Pending, Missed, outboxVars
<1> QED BY <1>5, <1>6, <1>7

(* A dispatcher plans what the rows cover, and makes what it planned.      *)
LEMMA DispatchMisses ==
  ASSUME TypeOK, TypeOK', NEW p \in Endpoints, NEW e \in Events, Missed(p, e), Dispatching
  PROVE  Missed(p, e)'
<1>1. UNCHANGED <<configVars, stamp, admitted>>
  BY DEF Dispatching, BeginPublication, CommitPublication, DispatchRead, DispatchCommit
<1>2. stamp \in Nat /\ stamp <= stamp'
  BY <1>1 DEF TypeOK
<1>3. occurredAt'[e] = occurredAt[e] => ~Wants(p, e)'
  BY <1>1 DEF Missed, Wants, configVars
<1>4. \A r \in Dated(p)' : r \in Dated(p)
  BY <1>1 DEF Dated, Pending
<1>a. ASSUME occurredAt'[e] = occurredAt[e], outboxState'[e] # "unpublished", NoNewInitial,
             \A w \in Workers : \A i \in plan'[w].inserts :
               i.delivery = Initial(e, p) => i \in plan[w].inserts
      PROVE  Missed(p, e)'
  BY <1>2, <1>3, <1>4, <1>a, MissedIfUncovered
<1>5. ASSUME NEW x \in Events, BeginPublication(x) \/ CommitPublication(x)
      PROVE  Missed(p, e)'
  <2>1. occurredAt'[e] = occurredAt[e] /\ outboxState'[e] # "unpublished"
    BY <1>5 DEF BeginPublication, CommitPublication, Missed, TypeOK
  <2>2. NoNewInitial /\ UNCHANGED plan
    BY <1>5 DEF BeginPublication, CommitPublication, NoNewInitial, deliveryVars
  <2> QED BY <1>a, <2>1, <2>2
<1>6. ASSUME NEW w \in Workers, NEW rows \in SUBSET Events, DispatchRead(w, rows)
      PROVE  Missed(p, e)'
  <2>1. occurredAt'[e] = occurredAt[e] /\ outboxState'[e] # "unpublished" /\ NoNewInitial
    BY <1>6 DEF DispatchRead, outboxVars, deliveryVars, NoNewInitial, Missed
  <2>2. /\ \A v \in Workers : v # w => plan'[v] = plan[v]
        /\ plan'[w].inserts =
             {[delivery |-> Initial(ep[1], ep[2]), target |-> destination[ep[2]]] :
                ep \in {x \in WellFormed(rows) \X Endpoints : Eligible(x[2], x[1])}}
    BY <1>6 DEF DispatchRead, TypeOK
  <2>3. ~Eligible(p, e)
    BY DEF Eligible, Covers, Missed, Wants, TypeOK, Interval
  <2>4. ASSUME NEW i \in plan'[w].inserts PROVE i.delivery # Initial(e, p)
    <3>1. PICK ep \in {x \in WellFormed(rows) \X Endpoints : Eligible(x[2], x[1])} :
            i.delivery = Initial(ep[1], ep[2])
      BY <2>2, <2>4
    <3> QED BY <2>3, <3>1 DEF Initial
  <2> QED BY <1>a, <2>1, <2>2, <2>4
<1>7. ASSUME NEW w \in Workers, DispatchCommit(w) PROVE Missed(p, e)'
  <2>1. occurredAt'[e] = occurredAt[e] /\ outboxState'[e] # "unpublished"
    BY <1>7 DEF DispatchCommit, Missed, TypeOK
  <2>2. \A v \in Workers : \A i \in plan'[v].inserts : i \in plan[v].inserts
    BY <1>7 DEF DispatchCommit, TypeOK, NoPlan
  <2>3. Initial(e, p) \in Deliveries /\ Initial(e, p)' = Initial(e, p)
    BY DEF Initial, Deliveries
  <2>4. status'[Initial(e, p)] = "absent"
    BY <1>7, <2>3 DEF DispatchCommit, Inserted, Missed
  <2>5. /\ \A r \in Dated(p)' : occurredAt'[e] < r.now
        /\ occurredAt'[e] < stamp'
    BY <1>1, <1>4, <2>1 DEF Missed
  <2>6. \A v \in Workers : \A i \in plan'[v].inserts : i.delivery # Initial(e, p)
    BY <2>2 DEF Missed
  <2> QED BY <1>3, <2>1, <2>3, <2>4, <2>5, <2>6 DEF Missed
<1> QED BY <1>5, <1>6, <1>7 DEF Dispatching

(* Nothing that an endpoint has missed is covered, planned or made later.  *)
LEMMA MissedStays ==
  ASSUME PipelineInv, SubscriptionInv, TypeOK', [Next]_vars, NEW e \in Events,
         NEW p \in Endpoints, Missed(p, e)
  PROVE  Missed(p, e)'
<1>0. TypeOK /\ ReplaysAreCommanded
  BY DEF PipelineInv, TypeInv, SubscriptionInv
<1>1. CASE SubscriptionQuiet
  BY <1>0, <1>1, QuietMisses
<1>2. ASSUME NEW r \in admitted, NEW types \in SUBSET EventTypes,
             CreateEndpoint(r, types) \/ ReplaceSubscriptions(r, types)
      PROVE  Missed(p, e)'
  BY <1>0, <1>2, HandlersMiss
<1>3. ASSUME NEW r \in admitted,
             \/ StartSecretRotation(r) \/ ActivateRotation(r)
             \/ CancelRotation(r) \/ CompleteRotation(r)
      PROVE  Missed(p, e)'
  BY <1>0, <1>3, RotationsAreQuiet, QuietMisses
<1>4. ASSUME NEW q \in Endpoints, NEW s \in Secrets, SecretLapses(q, s) PROVE Missed(p, e)'
  BY <1>0, <1>4, LapsesAreQuiet, QuietMisses
<1>5. CASE Dispatching
  BY <1>0, <1>5, DispatchMisses
<1> QED BY <1>0, <1>1, <1>2, <1>3, <1>4, <1>5, MostStepsConfigureNothing

(* Whatever is reconfigured, no event that was missed is covered later.    *)
THEOREM MissedStaysMissed == Spec => MissedForGood
<1>1. PipelineInv /\ SubscriptionInv /\ TypeOK' /\ [Next]_vars =>
        \A e \in Events, p \in Endpoints : Missed(p, e) => Missed(p, e)'
  BY MissedStays
<1> QED BY <1>1, LeasesCorrect, SubscriptionsCorrect, TypesHold, PTL DEF Spec, MissedForGood

(* So what an endpoint has missed is never sent to it by itself.           *)
THEOREM MissedIsNeverSent ==
  ASSUME NEW e \in Events, NEW p \in Endpoints
  PROVE  Spec => [](Missed(p, e) => [](status[Initial(e, p)] = "absent"))
<1>1. PipelineInv /\ SubscriptionInv /\ TypeOK' /\ [Next]_vars /\ Missed(p, e) => Missed(p, e)'
  BY MissedStays
<1>2. Missed(p, e) => status[Initial(e, p)] = "absent"
  BY DEF Missed
<1> QED BY <1>1, <1>2, LeasesCorrect, SubscriptionsCorrect, TypesHold, PTL DEF Spec

-----------------------------------------------------------------------------
(* Expansion *)

(* From the time a publication begins, while the endpoint p is served: a   *)
(* dispatcher that took the event has planned its delivery, and the event  *)
(* is not marked processed without it.                                     *)
Promised(e, p) ==
  /\ outboxState[e] = "processed" => status[Initial(e, p)] # "absent"
  /\ \A w \in Workers :
       e \in plan[w].rows => \E i \in plan[w].inserts : i.delivery = Initial(e, p)

(* No row of a delivery disappears.                                        *)
LEMMA RunsStay ==
  ASSUME PipelineInv, [Next]_vars, NEW d \in Deliveries, status[d] # "absent"
  PROVE  status'[d] # "absent"
<1>0. TypeInv /\ TypeOK
  BY DEF PipelineInv, TypeInv
<1>1. CASE Uneventful
  BY <1>1 DEF Uneventful, Waits
<1>2. ASSUME NEW x \in Deliveries, RecoverLease(x) PROVE status'[d] # "absent"
  BY <1>0, <1>2 DEF RecoverLease, TypeOK
<1>3. ASSUME NEW f \in Fibers, NEW x \in Deliveries, ClaimAttempt(f, x)
      PROVE  status'[d] # "absent"
  BY <1>0, <1>3 DEF ClaimAttempt, TypeOK
<1>4. ASSUME NEW f \in Fibers, NEW answer \in Answers, NEW processed \in BOOLEAN,
             SendEnds(f, answer, processed)
      PROVE  status'[d] # "absent"
  BY <1>4 DEF SendEnds, deliveryVars
<1>5. ASSUME NEW f \in Fibers, FinalizeCommit(f) PROVE status'[d] # "absent"
  <2>1. FinalState(f) # "absent"
    BY DEF FinalState
  <2> QED BY <1>0, <1>5, <2>1 DEF FinalizeCommit, TypeOK
<1> QED BY <1>0, <1>1, <1>2, <1>3, <1>4, <1>5, MostStepsAreUneventful

LEMMA PromiseBegins ==
  ASSUME TypeInv, NEW e \in Events, NEW p \in Endpoints, outboxState[e] = "publishing"
  PROVE  Promised(e, p)
BY DEF TypeInv, BatchInv, Promised

(* A dispatcher that takes the event while the endpoint is served plans    *)
(* its delivery; what it planned is committed with the mark, or given up   *)
(* as a whole.                                                             *)
LEMMA PromiseIsKept ==
  ASSUME PipelineInv, SubscriptionInv, [Next]_vars, NEW e \in Events, NEW p \in Endpoints,
         Promised(e, p), Serves(p, e)
  PROVE  Promised(e, p)'
<1> DEFINE d == Initial(e, p)
<1>0. TypeOK /\ d \in Deliveries
  BY DEF PipelineInv, TypeInv, Initial, Deliveries
<1>1. status[d] # "absent" => status'[d] # "absent"
  BY <1>0, RunsStay
<1>2. ASSUME UNCHANGED outboxState, NoNewPlan PROVE Promised(e, p)'
  BY <1>1, <1>2 DEF Promised, NoNewPlan, NoPlan
<1>3. CASE Dispatching
  <2>1. ASSUME NEW x \in Events, BeginPublication(x) \/ CommitPublication(x)
        PROVE  Promised(e, p)'
    BY <1>0, <1>1, <2>1 DEF BeginPublication, CommitPublication, Promised, TypeOK
  <2>2. ASSUME NEW w \in Workers, NEW rows \in SUBSET Events, DispatchRead(w, rows)
        PROVE  Promised(e, p)'
    <3>1. /\ UNCHANGED <<outboxState, status>>
          /\ \A v \in Workers : v # w => plan'[v] = plan[v]
          /\ plan'[w].rows = rows
          /\ plan'[w].inserts =
               {[delivery |-> Initial(ep[1], ep[2]), target |-> destination[ep[2]]] :
                  ep \in {x \in WellFormed(rows) \X Endpoints : Eligible(x[2], x[1])}}
      BY <1>0, <2>2 DEF DispatchRead, TypeOK, outboxVars, deliveryVars
    <3>2. ASSUME e \in rows PROVE \E i \in plan'[w].inserts : i.delivery = d
      <4>1. <<e, p>> \in {x \in WellFormed(rows) \X Endpoints : Eligible(x[2], x[1])}
        BY <3>2 DEF Serves, WellFormed
      <4>2. [delivery |-> d, target |-> destination[p]] \in plan'[w].inserts
        BY <3>1, <4>1
      <4> QED BY <4>2
    <3> QED BY <3>1, <3>2 DEF Promised
  <2>3. ASSUME NEW w \in Workers, DispatchCommit(w) PROVE Promised(e, p)'
    <3>1. /\ plan'[w] = NoPlan /\ \A v \in Workers : v # w => plan'[v] = plan[v]
          /\ outboxState'[e] = IF e \in Expanded(w) THEN "processed" ELSE outboxState[e]
          /\ status'[d] = IF \E i \in Inserted(w) : i.delivery = d THEN "queued" ELSE status[d]
      BY <1>0, <2>3 DEF DispatchCommit, TypeOK
    <3>2. ASSUME e \in Expanded(w) PROVE status'[d] # "absent"
      <4>1. PICK i \in plan[w].inserts : i.delivery = d
        BY <3>2 DEF Expanded, Promised
      <4>2. CASE status[d] = "absent"
        BY <3>1, <4>1, <4>2 DEF Inserted
      <4> QED BY <1>1, <4>2
    <3> QED BY <1>1, <3>1, <3>2 DEF Promised, NoPlan
  <2> QED BY <1>3, <2>1, <2>2, <2>3 DEF Dispatching
<1>4. SubscriptionQuiet => UNCHANGED outboxState /\ NoNewPlan
  BY DEF SubscriptionQuiet
<1>5. ASSUME NEW r \in admitted,
             \/ \E types \in SUBSET EventTypes :
                  CreateEndpoint(r, types) \/ ReplaceSubscriptions(r, types)
             \/ StartSecretRotation(r) \/ ActivateRotation(r)
             \/ CancelRotation(r) \/ CompleteRotation(r)
      PROVE  UNCHANGED outboxState /\ NoNewPlan
  <2>1. UNCHANGED <<outboxVars, plan>>
    BY <1>5 DEF CreateEndpoint, ReplaceSubscriptions, StartSecretRotation, ActivateRotation,
                CancelRotation, CompleteRotation, OnlySecrets
  <2> QED BY <2>1 DEF outboxVars, NoNewPlan
<1>6. ASSUME NEW q \in Endpoints, NEW s \in Secrets, SecretLapses(q, s)
      PROVE  UNCHANGED outboxState /\ NoNewPlan
  BY <1>6 DEF SecretLapses, outboxVars, NoNewPlan
<1> QED BY <1>2, <1>3, <1>4, <1>5, <1>6, MostStepsConfigureNothing DEF SubscriptionInv

(* An endpoint that is subscribed when a publication begins, and stays so, *)
(* has its delivery when the event is marked processed.                    *)
THEOREM NothingLost == Spec => NoEventLost
<1>1. ASSUME NEW e \in Events, NEW p \in Endpoints
      PROVE  Spec => [](outboxState[e] = "publishing" /\ Serves(p, e)
                          => \/ <>~Serves(p, e)
                             \/ [](outboxState[e] = "processed"
                                    => status[Initial(e, p)] # "absent"))
  <2>1. PipelineInv /\ outboxState[e] = "publishing" => Promised(e, p)
    BY PromiseBegins DEF PipelineInv
  <2>2. PipelineInv /\ SubscriptionInv /\ [Next]_vars /\ Promised(e, p) /\ Serves(p, e)
          => Promised(e, p)'
    BY PromiseIsKept
  <2>3. Promised(e, p) => (outboxState[e] = "processed" => status[Initial(e, p)] # "absent")
    BY DEF Promised
  <2> QED BY <2>1, <2>2, <2>3, LeasesCorrect, SubscriptionsCorrect, PTL DEF Spec
<1> QED BY <1>1 DEF NoEventLost

-----------------------------------------------------------------------------
(* Signing secrets *)

(* The number of the latest secret is how many there are.                  *)
LEMMA LastOfNumbered ==
  ASSUME NEW c, NEW n \in 0..MaxSecrets, NumberedTo(c, n)
  PROVE  Cardinality(Secrets \ {s \in Secrets : c[s] = "absent"}) = n
<1>1. Secrets \ {s \in Secrets : c[s] = "absent"} = 1..n
  BY WebhookConstants DEF NumberedTo, Secrets
<1>2. Cardinality(1..n) = n
  BY FS_Interval
<1> QED BY <1>1, <1>2

(* One active secret and at most one that retires: one or two sign.        *)
LEMMA OneOrTwoSign ==
  ASSUME NEW c, OneActive(c), OneRotated(c)
  PROVE  Cardinality({s \in Secrets : c[s] \in {"active", "retiring"}}) \in 1..2
<1> DEFINE S == {s \in Secrets : c[s] \in {"active", "retiring"}}
<1>1. PICK a \in Secrets : \A s \in Secrets : c[s] = "active" <=> s = a
  BY DEF OneActive
<1>2. Cardinality({a}) = 1 /\ IsFiniteSet({a})
  BY FS_Singleton
<1>3. CASE \E b \in Secrets : c[b] = "retiring"
  <2>1. PICK b \in Secrets : c[b] = "retiring"
    BY <1>3
  <2>2. S = {a} \cup {b} /\ b \notin {a}
    BY <1>1, <2>1 DEF OneRotated, Rotated
  <2>3. Cardinality({a} \cup {b}) = Cardinality({a}) + 1
    BY <1>2, <2>2, FS_AddElement
  <2> QED BY <1>2, <2>2, <2>3
<1>4. CASE ~\E b \in Secrets : c[b] = "retiring"
  <2>1. S = {a}
    BY <1>1, <1>4
  <2> QED BY <1>2, <2>1
<1> QED BY <1>3, <1>4

(* A rotation changes the secrets of one endpoint, and no request that is  *)
(* left is up to date with that endpoint.                                  *)
LEMMA ChangedSecrets ==
  ASSUME TypeOK, TypeOK', SecretInv, NEW r \in admitted, Done(r), EndpointsStay,
         NEW c, secret' = [secret EXCEPT ![r.endpoint] = c],
         endpointState[r.endpoint] # "absent", OneActive(c), OneRotated(c),
         NEW n \in 0..MaxSecrets, NumberedTo(c, n), PendingIs(c, n)
  PROVE  SecretInv'
<1>1. /\ RequestsKept /\ admitted' = admitted \ {r} /\ r.endpoint \in Endpoints
      /\ endpointVersion' = [endpointVersion EXCEPT ![r.endpoint] = @ + 1]
  BY DoneIsSeen
<1>2. secret'[r.endpoint] = c /\ \A p \in Endpoints \ {r.endpoint} : secret'[p] = secret[p]
  BY <1>1 DEF TypeOK
<1>3. \A p \in Endpoints : SecretsHold(p)'
  <2> SUFFICES ASSUME NEW p \in Endpoints PROVE SecretsHold(p)'
    OBVIOUS
  <2>1. CASE p = r.endpoint
    BY <1>2, <2>1 DEF SecretsHold, EndpointsStay
  <2>2. CASE p # r.endpoint
    BY <1>2, <2>2 DEF SecretInv, SecretsHold, EndpointsStay
  <2> QED BY <2>1, <2>2
<1>4. ASSUME NEW q \in admitted'
      PROVE  /\ q.version <= endpointVersion'[q.endpoint]
             /\ UpToDate(q)' => UpToDate(q) /\ q.endpoint # r.endpoint
  <2>1. q \in admitted /\ q.endpoint \in Endpoints /\ q.version \in Nat
    BY <1>1 DEF TypeOK, Request
  <2>2. q.version <= endpointVersion[q.endpoint] /\ endpointVersion[q.endpoint] \in Nat
    BY <2>1 DEF SecretInv, VersionsWereSeen, TypeOK
  <2>3. endpointVersion'[q.endpoint] = IF q.endpoint = r.endpoint
                                       THEN endpointVersion[q.endpoint] + 1
                                       ELSE endpointVersion[q.endpoint]
    BY <1>1, <2>1 DEF TypeOK
  <2> QED BY <2>1, <2>2, <2>3 DEF UpToDate
<1>5. VersionsWereSeen'
  BY <1>4 DEF VersionsWereSeen
<1>6. UpToDateSawTheLast'
  <2> SUFFICES ASSUME NEW q \in admitted', q.op \in Rotations, UpToDate(q)'
               PROVE  q.target = LastSecret(q.endpoint)'
    BY DEF UpToDateSawTheLast
  <2>1. q \in admitted /\ q.endpoint \in Endpoints \ {r.endpoint}
    BY <1>1, <1>4 DEF TypeOK, Request
  <2>2. LastSecret(q.endpoint)' = LastSecret(q.endpoint)
    BY <1>2, <2>1 DEF LastSecret, In
  <2> QED BY <1>4, <2>1, <2>2 DEF SecretInv, UpToDateSawTheLast
<1> QED BY <1>3, <1>5, <1>6 DEF SecretInv

LEMMA QuietSecrets ==
  ASSUME TypeOK, TypeOK', SecretInv, SecretQuiet
  PROVE  SecretInv'
<1>1. \A p \in Endpoints : SecretsHold(p)'
  BY DEF SecretInv, SecretsHold, SecretQuiet, EndpointsStay
<1>2. ASSUME NEW r \in admitted'
      PROVE  /\ r.version <= endpointVersion'[r.endpoint]
             /\ r.op \in Rotations /\ UpToDate(r)' => r.target = LastSecret(r.endpoint)'
  <2>1. /\ r.endpoint \in Endpoints /\ r.version \in Nat
        /\ endpointVersion[r.endpoint] \in Nat /\ endpointVersion'[r.endpoint] \in Nat
    BY DEF TypeOK, Request
  <2>2. endpointVersion[r.endpoint] <= endpointVersion'[r.endpoint]
    BY <2>1 DEF SecretQuiet, RequestsKept
  <2>3. r \in admitted \/ Fresh(r)
    BY DEF SecretQuiet, RequestsKept
  <2>4. r.version <= endpointVersion[r.endpoint]
    BY <2>3 DEF Fresh, SecretInv, VersionsWereSeen
  <2>5. UpToDate(r)' => UpToDate(r)
    BY <2>1, <2>2, <2>4 DEF UpToDate
  <2>6. r.op \in Rotations /\ UpToDate(r) => r.target = LastSecret(r.endpoint)
    BY <2>3 DEF Fresh, SecretInv, UpToDateSawTheLast
  <2>7. LastSecret(r.endpoint)' = LastSecret(r.endpoint)
    BY DEF LastSecret, In, SecretQuiet
  <2> QED BY <2>1, <2>2, <2>4, <2>5, <2>6, <2>7
<1> QED BY <1>1, <1>2 DEF SecretInv, VersionsWereSeen, UpToDateSawTheLast

(* Configuration and dispatch have nothing to do with secrets, but that an *)
(* endpoint is created with its first.                                     *)
LEMMA ReplacementsAreQuiet ==
  ASSUME TypeOK, NEW r \in admitted, NEW types, ReplaceSubscriptions(r, types)
  PROVE  SecretQuiet
<1>1. RequestsKept
  BY DoneIsSeen DEF ReplaceSubscriptions
<1> QED BY <1>1 DEF ReplaceSubscriptions, SecretQuiet, EndpointsStay

LEMMA DispatchIsQuiet ==
  ASSUME TypeOK, Dispatching
  PROVE  SecretQuiet
<1>1. UNCHANGED <<configVars, admitted>>
  <2>1. ASSUME NEW e \in Events, BeginPublication(e) \/ CommitPublication(e)
        PROVE  UNCHANGED <<configVars, admitted>>
    BY <2>1 DEF BeginPublication, CommitPublication
  <2>2. ASSUME NEW w \in Workers, NEW rows \in SUBSET Events, DispatchRead(w, rows)
        PROVE  UNCHANGED <<configVars, admitted>>
    BY <2>2 DEF DispatchRead
  <2>3. ASSUME NEW w \in Workers, DispatchCommit(w) PROVE UNCHANGED <<configVars, admitted>>
    BY <2>3 DEF DispatchCommit
  <2> QED BY <2>1, <2>2, <2>3 DEF Dispatching
<1>2. \A p \in Endpoints : endpointVersion[p] \in Nat
  BY DEF TypeOK
<1> QED BY <1>1, <1>2 DEF SecretQuiet, RequestsKept, EndpointsStay, configVars

LEMMA CreateKeepsSecrets ==
  ASSUME TypeOK, TypeOK', SecretInv, NEW r \in admitted, NEW types, CreateEndpoint(r, types)
  PROVE  SecretInv'
<1>1. /\ RequestsKept /\ admitted' = admitted \ {r} /\ r.endpoint \in Endpoints
      /\ endpointVersion' = [endpointVersion EXCEPT ![r.endpoint] = @ + 1]
  BY DoneIsSeen DEF CreateEndpoint
<1>2. /\ endpointState[r.endpoint] = "absent"
      /\ endpointState' = [endpointState EXCEPT ![r.endpoint] = "enabled"]
      /\ secret' = [secret EXCEPT ![r.endpoint][1] = "active"]
  BY DEF CreateEndpoint
<1>3. /\ endpointState'[r.endpoint] # "absent"
      /\ \A p \in Endpoints \ {r.endpoint} :
           secret'[p] = secret[p] /\ endpointState'[p] = endpointState[p]
  BY <1>1, <1>2 DEF TypeOK
<1>4. 1 \in Secrets /\ 1 \in 0..MaxSecrets
  BY WebhookConstants DEF Secrets
<1>5. \A s \in Secrets : secret[r.endpoint][s] = "absent"
  BY <1>1, <1>2 DEF SecretInv, SecretsHold, NumberedTo, Secrets
<1>6. \A s \in Secrets : secret'[r.endpoint][s] = IF s = 1 THEN "active" ELSE "absent"
  BY <1>1, <1>2, <1>4, <1>5 DEF TypeOK
<1>7. /\ OneActive(secret'[r.endpoint]) /\ OneRotated(secret'[r.endpoint])
      /\ NumberedTo(secret'[r.endpoint], 1) /\ PendingIs(secret'[r.endpoint], 1)
  BY <1>4, <1>6 DEF OneActive, OneRotated, Rotated, NumberedTo, PendingIs, Secrets
<1>8. \A p \in Endpoints : SecretsHold(p)'
  <2> SUFFICES ASSUME NEW p \in Endpoints PROVE SecretsHold(p)'
    OBVIOUS
  <2>1. CASE p = r.endpoint
    BY <1>3, <1>4, <1>7, <2>1 DEF SecretsHold
  <2>2. CASE p # r.endpoint
    BY <1>3, <2>2 DEF SecretInv, SecretsHold
  <2> QED BY <2>1, <2>2
<1>9. ASSUME NEW q \in admitted'
      PROVE  /\ q.version <= endpointVersion'[q.endpoint]
             /\ UpToDate(q)' => UpToDate(q) /\ q.endpoint # r.endpoint
  <2>1. q \in admitted /\ q.endpoint \in Endpoints /\ q.version \in Nat
    BY <1>1 DEF TypeOK, Request
  <2>2. q.version <= endpointVersion[q.endpoint] /\ endpointVersion[q.endpoint] \in Nat
    BY <2>1 DEF SecretInv, VersionsWereSeen, TypeOK
  <2>3. endpointVersion'[q.endpoint] = IF q.endpoint = r.endpoint
                                       THEN endpointVersion[q.endpoint] + 1
                                       ELSE endpointVersion[q.endpoint]
    BY <1>1, <2>1 DEF TypeOK
  <2> QED BY <2>1, <2>2, <2>3 DEF UpToDate
<1>10. UpToDateSawTheLast'
  <2> SUFFICES ASSUME NEW q \in admitted', q.op \in Rotations, UpToDate(q)'
               PROVE  q.target = LastSecret(q.endpoint)'
    BY DEF UpToDateSawTheLast
  <2>1. q \in admitted /\ q.endpoint \in Endpoints \ {r.endpoint}
    BY <1>1, <1>9 DEF TypeOK, Request
  <2>2. LastSecret(q.endpoint)' = LastSecret(q.endpoint)
    BY <1>3, <2>1 DEF LastSecret, In
  <2> QED BY <1>9, <2>1, <2>2 DEF SecretInv, UpToDateSawTheLast
<1> QED BY <1>8, <1>9, <1>10 DEF SecretInv, VersionsWereSeen

(* An endpoint that has secrets is there.                                  *)
LEMMA HasSecretExists ==
  ASSUME SecretInv, NEW p \in Endpoints, NEW s \in Secrets, secret[p][s] # "absent"
  PROVE  endpointState[p] # "absent" /\ OneActive(secret[p])
BY DEF SecretInv, SecretsHold, NumberedTo, Secrets

(* What the steps of a rotation make of the secrets of one endpoint.       *)
LEMMA RotationsKeepSecrets ==
  ASSUME TypeOK, TypeOK', SecretInv, NEW r \in admitted,
         \/ StartSecretRotation(r) \/ ActivateRotation(r)
         \/ CancelRotation(r) \/ CompleteRotation(r)
  PROVE  SecretInv'
<1> DEFINE p == r.endpoint
           old == secret[r.endpoint]
<1>1. Done(r) /\ OnlySecrets /\ EndpointsStay /\ r.endpoint \in Endpoints
  <2>1. Done(r) /\ OnlySecrets
    BY DEF StartSecretRotation, ActivateRotation, CancelRotation, CompleteRotation
  <2> QED BY <2>1, DoneIsSeen DEF OnlySecrets, EndpointsStay
<1>2. old \in [Secrets -> SecretStates]
  BY <1>1 DEF TypeOK
<1>3. PICK n \in 0..MaxSecrets : NumberedTo(old, n) /\ PendingIs(old, n)
  BY <1>1 DEF SecretInv, SecretsHold
<1>4. OneRotated(old) /\ LastSecret(p) = n
  BY <1>1, <1>3, LastOfNumbered DEF SecretInv, SecretsHold, LastSecret, In
<1> HIDE DEF p, old
<1>5. ASSUME NEW c \in [Secrets -> SecretStates], secret' = [secret EXCEPT ![r.endpoint] = c],
             endpointState[p] # "absent", OneActive(c), OneRotated(c),
             NEW m \in 0..MaxSecrets, NumberedTo(c, m), PendingIs(c, m)
      PROVE  SecretInv'
  BY <1>1, <1>5, ChangedSecrets DEF p
<1>6. ASSUME NEW s \in Secrets, old[s] # "absent"
      PROVE  endpointState[p] # "absent" /\ OneActive(old)
  BY <1>1, <1>6, HasSecretExists DEF p, old
<1>7. CASE StartSecretRotation(r)
  <2> DEFINE c == [old EXCEPT ![n + 1] = "pending"]
  <2>1. /\ endpointState[p] # "absent" /\ n < MaxSecrets
        /\ In(p, "pending") \cup In(p, "retiring") \cup In(p, "lapsed") = {}
        /\ secret' = [secret EXCEPT ![r.endpoint][n + 1] = "pending"]
    BY <1>4, <1>7 DEF StartSecretRotation, p
  <2>2. n + 1 \in Secrets /\ n + 1 \in 0..MaxSecrets
    BY <2>1, WebhookConstants DEF Secrets
  <2>3. secret' = [secret EXCEPT ![r.endpoint] = c]
    BY <2>1 DEF old
  <2>4. c \in [Secrets -> SecretStates]
    BY <1>2, <2>2 DEF SecretStates
  <2>5. \A s \in Secrets : c[s] = IF s = n + 1 THEN "pending" ELSE old[s]
    BY <1>2, <2>2
  <2>6. \A s \in Secrets : old[s] \notin Rotated
    BY <2>1 DEF In, Rotated, old, p
  <2>7. old[n + 1] = "absent"
    BY <1>3, <2>2 DEF NumberedTo
  <2> HIDE DEF c
  <2>8. OneActive(c)
    <3>1. OneActive(old)
      BY <1>1, <2>1 DEF SecretInv, SecretsHold, p, old
    <3> QED BY <2>2, <2>5, <2>7, <3>1 DEF OneActive
  <2>9. OneRotated(c) /\ NumberedTo(c, n + 1) /\ PendingIs(c, n + 1)
    <3>1. \A s \in Secrets : s > n + 1 <=> s > n /\ s # n + 1
      BY <1>3 DEF Secrets
    <3> QED BY <1>3, <2>5, <2>6, <3>1 DEF OneRotated, NumberedTo, PendingIs, Rotated, Secrets
  <2> QED BY <1>5, <2>1, <2>2, <2>3, <2>4, <2>8, <2>9
<1>8. CASE ActivateRotation(r)
  <2>1. PICK new \in In(p, "pending"), o \in In(p, "active") :
          secret' = [secret EXCEPT ![r.endpoint] = Replaced(p, new, o)]
    BY <1>8 DEF ActivateRotation, p
  <2> DEFINE c == Replaced(p, new, o)
  <2>2. new \in Secrets /\ o \in Secrets /\ old[new] = "pending" /\ old[o] = "active"
    BY DEF In, old, p
  <2>3. c \in [Secrets -> SecretStates]
    BY <1>2, <2>2 DEF Replaced, SecretStates, old, p
  <2>4. \A s \in Secrets : c[s] = IF s = o THEN "retiring"
                                   ELSE IF s = new THEN "active" ELSE old[s]
    BY <1>2, <2>2 DEF Replaced, old, p
  <2> HIDE DEF c
  <2>5. endpointState[p] # "absent" /\ OneActive(old)
    BY <1>6, <2>2
  <2>6. OneActive(c)
    BY <2>2, <2>4, <2>5 DEF OneActive
  <2>7. OneRotated(c)
    BY <1>4, <2>2, <2>4 DEF OneRotated, Rotated
  <2>8. NumberedTo(c, n) /\ PendingIs(c, n)
    BY <1>3, <2>2, <2>4 DEF NumberedTo, PendingIs
  <2>9. secret' = [secret EXCEPT ![r.endpoint] = c]
    BY <2>1 DEF c
  <2> QED BY <1>3, <1>5, <2>3, <2>5, <2>6, <2>7, <2>8, <2>9
<1>9. CASE CancelRotation(r) \/ CompleteRotation(r)
  <2>1. PICK s \in Secrets, to \in {"canceled", "retired"} :
          old[s] \in Rotated /\ secret' = [secret EXCEPT ![r.endpoint][s] = to]
    BY <1>9 DEF CancelRotation, CompleteRotation, In, Rotated, old, p
  <2> DEFINE c == [old EXCEPT ![s] = to]
  <2>2. secret' = [secret EXCEPT ![r.endpoint] = c]
    BY <2>1 DEF old
  <2>3. c \in [Secrets -> SecretStates]
    BY <1>2 DEF SecretStates
  <2>4. \A t \in Secrets : c[t] = IF t = s THEN to ELSE old[t]
    BY <1>2
  <2> HIDE DEF c
  <2>5. endpointState[p] # "absent" /\ OneActive(old)
    BY <1>6, <2>1 DEF Rotated
  <2>6. OneActive(c)
    BY <2>1, <2>4, <2>5 DEF OneActive, Rotated
  <2>7. OneRotated(c) /\ NumberedTo(c, n) /\ PendingIs(c, n)
    BY <1>3, <1>4, <2>1, <2>4 DEF OneRotated, NumberedTo, PendingIs, Rotated
  <2> QED BY <1>3, <1>5, <2>2, <2>3, <2>5, <2>6, <2>7
<1> QED BY <1>7, <1>8, <1>9

(* The overlap of a rotation ends on one endpoint; its requests stay as up *)
(* to date as they were, and the number of its secrets does not change.    *)
LEMMA LapsesKeepSecrets ==
  ASSUME TypeOK, SecretInv, NEW p \in Endpoints, NEW s \in Secrets, SecretLapses(p, s)
  PROVE  SecretInv'
<1>1. /\ secret[p][s] = "retiring" /\ secret' = [secret EXCEPT ![p][s] = "lapsed"]
      /\ UNCHANGED <<endpointState, endpointVersion, admitted>>
  BY DEF SecretLapses, In
<1>2. \A q \in Endpoints, t \in Secrets :
        secret'[q][t] = IF q = p /\ t = s THEN "lapsed" ELSE secret[q][t]
  BY <1>1 DEF TypeOK
<1>3. ASSUME NEW q \in Endpoints PROVE SecretsHold(q)'
  <2>1. SecretsHold(q)
    BY DEF SecretInv
  <2>2. \A t \in Secrets : /\ secret'[q][t] = "absent" <=> secret[q][t] = "absent"
                           /\ secret'[q][t] = "active" <=> secret[q][t] = "active"
                           /\ secret'[q][t] = "pending" <=> secret[q][t] = "pending"
                           /\ secret'[q][t] \in Rotated <=> secret[q][t] \in Rotated
    BY <1>1, <1>2 DEF Rotated
  <2>3. OneRotated(secret'[q])
    BY <2>1, <2>2 DEF SecretsHold, OneRotated
  <2>4. \E n \in 0..MaxSecrets : NumberedTo(secret'[q], n) /\ PendingIs(secret'[q], n)
    BY <2>1, <2>2 DEF SecretsHold, NumberedTo, PendingIs
  <2>5. IF endpointState[q] = "absent" THEN NumberedTo(secret'[q], 0) ELSE OneActive(secret'[q])
    BY <2>1, <2>2 DEF SecretsHold, NumberedTo, OneActive
  <2> QED BY <1>1, <2>3, <2>4, <2>5 DEF SecretsHold
<1>4. \A q \in Endpoints : LastSecret(q)' = LastSecret(q)
  <2> SUFFICES ASSUME NEW q \in Endpoints
               PROVE  {t \in Secrets : secret'[q][t] = "absent"}
                        = {t \in Secrets : secret[q][t] = "absent"}
    BY DEF LastSecret, In
  <2> QED BY <1>1, <1>2
<1>5. VersionsWereSeen' /\ UpToDateSawTheLast'
  BY <1>1, <1>4 DEF SecretInv, VersionsWereSeen, UpToDateSawTheLast, UpToDate, TypeOK, Request
<1> QED BY <1>3, <1>5 DEF SecretInv

(* The secrets of every endpoint keep their invariant.                     *)
THEOREM SecretsCorrect == Spec => []SecretInv
<1>1. Init => SecretInv
  <2> SUFFICES ASSUME Init PROVE SecretInv
    OBVIOUS
  <2>1. 0 \in 0..MaxSecrets
    BY WebhookConstants
  <2>2. \A p \in Endpoints, s \in Secrets : secret[p][s] = "absent" /\ s > 0
    BY DEF Init, InitStore, Secrets
  <2>3. \A p \in Endpoints : endpointState[p] = "absent"
    BY DEF Init, InitStore
  <2> QED BY <2>1, <2>2, <2>3 DEF Init, InitStore, SecretInv, SecretsHold, NumberedTo, OneRotated,
               Rotated, PendingIs, VersionsWereSeen, UpToDateSawTheLast
<1>2. ASSUME PipelineInv, TypeOK', SubscriptionInv, SecretInv, [Next]_vars PROVE SecretInv'
  <2>1. TypeOK /\ ReplaysAreCommanded
    BY <1>2 DEF PipelineInv, TypeInv, SubscriptionInv
  <2>2. CASE SecretQuiet
    BY <1>2, <2>1, <2>2, QuietSecrets
  <2>3. ASSUME NEW r \in admitted, NEW types \in SUBSET EventTypes,
               CreateEndpoint(r, types) \/ ReplaceSubscriptions(r, types)
        PROVE  SecretInv'
    BY <1>2, <2>1, <2>2, <2>3, CreateKeepsSecrets, ReplacementsAreQuiet
  <2>4. ASSUME NEW r \in admitted,
               \/ StartSecretRotation(r) \/ ActivateRotation(r)
               \/ CancelRotation(r) \/ CompleteRotation(r)
        PROVE  SecretInv'
    BY <1>2, <2>1, <2>4, RotationsKeepSecrets
  <2>5. ASSUME NEW p \in Endpoints, NEW s \in Secrets, SecretLapses(p, s)
        PROVE  SecretInv'
    BY <1>2, <2>1, <2>5, LapsesKeepSecrets
  <2>6. CASE Dispatching
    BY <2>1, <2>2, <2>6, DispatchIsQuiet
  <2> QED BY <1>2, <2>2, <2>3, <2>4, <2>5, <2>6, <2>1, MostStepsConfigureNothing
<1>3. PipelineInv /\ TypeOK' /\ SubscriptionInv /\ SecretInv /\ [Next]_vars => SecretInv'
  BY <1>2
<1> QED BY <1>1, <1>3, SubscriptionsCorrect, LeasesCorrect, TypesHold, PTL DEF Spec

(* However rotations are begun, canceled and completed, every request can  *)
(* be verified by a receiver that follows them.                            *)
THEOREM RequestsVerifiable == Spec => ReceiversCanVerify
<1> DEFINE Step == \A p \in Endpoints :
       /\ endpointState'[p] # "absent" => CanSign(p)'
       /\ endpointState[p] # "absent" =>
            \A s \in Signing(p)' \ Signing(p) :
              /\ In(p, "active") \subseteq Signing(p)'
              /\ \E r \in admitted :
                   r.op = "activate" /\ r.endpoint = p /\ r.target = s
<1>1. ASSUME PipelineInv, SubscriptionInv, SecretInv, SecretInv', [Next]_vars PROVE Step
  <2>0. TypeOK /\ ReplaysAreCommanded
    BY <1>1 DEF PipelineInv, TypeInv, SubscriptionInv
  <2>1. ASSUME NEW p \in Endpoints, endpointState'[p] # "absent" PROVE CanSign(p)'
    BY <1>1, <2>1, OneOrTwoSign DEF SecretInv, SecretsHold, CanSign, Signing
  <2>2. ASSUME NEW p \in Endpoints, endpointState[p] # "absent",
               NEW s \in Signing(p)', s \notin Signing(p)
        PROVE  /\ In(p, "active") \subseteq Signing(p)'
               /\ \E r \in admitted : r.op = "activate" /\ r.endpoint = p /\ r.target = s
    <3>0. s \in Secrets /\ secret'[p][s] \in {"active", "retiring"}
          /\ secret[p][s] \notin {"active", "retiring"}
      BY <2>2 DEF Signing
    <3>1. ~UNCHANGED secret
      BY <3>0
    <3>2. CASE SecretQuiet
      BY <3>1, <3>2 DEF SecretQuiet
    <3>3. ASSUME NEW r \in admitted, NEW types \in SUBSET EventTypes,
                 CreateEndpoint(r, types) \/ ReplaceSubscriptions(r, types)
          PROVE  FALSE
      <4>1. CreateEndpoint(r, types)
        BY <2>0, <3>1, <3>3, ReplacementsAreQuiet DEF SecretQuiet
      <4>2. endpointState[r.endpoint] = "absent"
            /\ secret' = [secret EXCEPT ![r.endpoint][1] = "active"]
        BY <4>1 DEF CreateEndpoint
      <4> QED BY <2>0, <2>2, <3>0, <4>2 DEF TypeOK
    <3>4. ASSUME NEW r \in admitted, StartSecretRotation(r) PROVE FALSE
      <4>1. secret' = [secret EXCEPT ![r.endpoint][LastSecret(r.endpoint) + 1] = "pending"]
        BY <3>4 DEF StartSecretRotation
      <4> QED BY <2>0, <3>0, <4>1 DEF TypeOK
    <3>5. ASSUME NEW r \in admitted, CancelRotation(r) \/ CompleteRotation(r) PROVE FALSE
      <4>1. PICK t \in Secrets, to \in {"canceled", "retired"} :
              secret' = [secret EXCEPT ![r.endpoint][t] = to]
        BY <3>5 DEF CancelRotation, CompleteRotation, In
      <4> QED BY <2>0, <3>0, <4>1 DEF TypeOK
    <3>6. ASSUME NEW q \in Endpoints, NEW t \in Secrets, SecretLapses(q, t) PROVE FALSE
      BY <2>0, <3>0, <3>6 DEF SecretLapses, TypeOK
    <3>7. CASE Dispatching
      BY <2>0, <3>1, <3>7, DispatchIsQuiet DEF SecretQuiet
    <3>8. ASSUME NEW r \in admitted, ActivateRotation(r)
          PROVE  /\ In(p, "active") \subseteq Signing(p)'
                 /\ r.op = "activate" /\ r.endpoint = p /\ r.target = s
      <4>1. PICK new \in In(r.endpoint, "pending"), o \in In(r.endpoint, "active") :
              secret' = [secret EXCEPT ![r.endpoint] = Replaced(r.endpoint, new, o)]
        BY <3>8 DEF ActivateRotation
      <4>2. r.endpoint = p
        BY <2>0, <3>0, <4>1 DEF TypeOK
      <4>3. /\ new \in Secrets /\ o \in Secrets
            /\ secret[p][new] = "pending" /\ secret[p][o] = "active"
        BY <4>1, <4>2 DEF In
      <4>4. \A t \in Secrets : secret'[p][t] = IF t = o THEN "retiring"
                                               ELSE IF t = new THEN "active" ELSE secret[p][t]
        BY <2>0, <4>1, <4>2, <4>3 DEF Replaced, TypeOK
      <4>5. s = new
        BY <3>0, <4>3, <4>4
      <4>6. In(p, "active") = {o} /\ o \in Signing(p)'
        <5>1. OneActive(secret[p])
          BY <1>1, <2>2 DEF SecretInv, SecretsHold
        <5> QED BY <4>3, <4>4, <5>1 DEF OneActive, In, Signing
      <4>7. r.target = s
        <5>1. PICK n \in 0..MaxSecrets : NumberedTo(secret[p], n) /\ PendingIs(secret[p], n)
          BY <1>1 DEF SecretInv, SecretsHold
        <5>2. LastSecret(p) = n
          BY <5>1, LastOfNumbered DEF LastSecret, In
        <5>3. new = n
          BY <4>3, <5>1 DEF PendingIs
        <5>4. UpToDate(r) /\ r.op = "activate"
          BY <3>8 DEF ActivateRotation, Pending
        <5> QED BY <1>1, <4>2, <4>5, <5>2, <5>3, <5>4
                DEF SecretInv, UpToDateSawTheLast, Rotations
      <4> QED BY <3>8, <4>2, <4>6, <4>7 DEF ActivateRotation, Pending
    <3> QED BY <1>1, <2>0, <3>2, <3>3, <3>4, <3>5, <3>6, <3>7, <3>8, MostStepsConfigureNothing
  <2> QED BY <2>1, <2>2
<1>2. PipelineInv /\ SubscriptionInv /\ SecretInv /\ SecretInv' /\ [Next]_vars => [Step]_vars
  BY <1>1
<1> QED BY <1>2, SecretsCorrect, SubscriptionsCorrect, LeasesCorrect, PTL
        DEF Spec, ReceiversCanVerify
=============================================================================
