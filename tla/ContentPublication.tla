------------------------- MODULE ContentPublication -------------------------
(***************************************************************************)
(* Review, publication and unpublication of one entry in one exact locale. *)
(* A publish transaction holds the entry row from its first lock to its    *)
(* commit; it reads the authority, then claims its unique values, then     *)
(* writes, so that other entries' transactions run between these steps.    *)
(***************************************************************************)
EXTENDS ContentDrafts

(* resolveReferences: what is live in the locale for each entry referred to. *)
Pins(k) == {[entry |-> t, publication |-> head[<<t, k[2]>>].current] : t \in DraftRefs(k)}

(***************************************************************************)
(* compilePublicationSnapshot accepts a draft whose references are live;   *)
(* field validation is left out, every draft satisfies it.  authorizeScope *)
(* asks for an enabled locale before.                                      *)
(***************************************************************************)
Publishable(k) ==
  /\ k[1] \in exists
  /\ Enabled(k[2])
  /\ \A p \in Pins(k) : p.publication # 0

(* What authorityHash digests. *)
Candidate(k) ==
  [schema |-> schema.revision, shared |-> Len(shared[k[1]]),
   localized |-> Len(localized[k]), pins |-> Pins(k)]

PlanFor(k) ==
  [key |-> k, version |-> head[k].version, current |-> head[k].current,
   authority |-> Candidate(k)]

(***************************************************************************)
(* validate.  It reads without a transaction; a plan put together from two *)
(* states is refused by publish like any other plan that is out of date.   *)
(***************************************************************************)
ReviewPlan(k) ==
  /\ Publishable(k)
  /\ PlanFor(k) \notin plans
  /\ Spend("review")
  /\ plans' = plans \cup {PlanFor(k)}
  /\ UNCHANGED <<schema, draftVars, reader, releaseVars, claims, txn, adminVars>>

(* Mutant: publish compares the versions and not the authority hashes. *)
SameVersions(plan) ==
  LET now == PlanFor(plan.key)
  IN  plan = [now EXCEPT !.authority.pins = plan.authority.pins]

(* authorityConflict, and the comparison of the authority hashes. *)
Unchanged(plan) == plan = PlanFor(plan.key)

(* The live publication, if there is one. *)
Live(k) == {q \in publications : q.key = k /\ q.sequence = head[k].current}

LiveAuthority(k) == {p.authority : p \in Live(k)}

(* What the unique index guards of some projected values. *)
Guarded(values) == IF lookup THEN values ELSE {}

(***************************************************************************)
(* publish up to the compiled candidate and its projection.  A candidate   *)
(* that is live already only gets a receipt.                               *)
(***************************************************************************)
PublishResolve(plan) ==
  LET k == plan.key
  IN  /\ plan \in plans
      /\ Unlocked(k[1])
      /\ ~ Backfilled(k)
      /\ Spend("release")
      /\ Publishable(k)
      /\ Unchanged(plan)
      /\ Candidate(k) \notin LiveAuthority(k)
      /\ txn' = [txn EXCEPT ![k[1]] =
                   [phase |-> "resolved", locale |-> k[2], authority |-> Candidate(k),
                    values |-> DraftClaims(k), claims |-> Guarded(DraftClaims(k)),
                    locked |-> {}]]
      /\ UNCHANGED <<schema, draftVars, clientVars, releaseVars, claims, adminVars>>

(* Other entries that are being published in the locale. *)
Rivals(e) == {f \in Entries \ {e} : txn[f] # None /\ txn[f].locale = txn[e].locale}

(* The value whose lock comes next, in the order of the digests.           *)
NextClaims(e) ==
  LET left == txn[e].claims \ txn[e].locked
  IN  {c \in left : \A d \in left : DigestOf[c] <= DigestOf[d]}

WaitsForLock(e, f) ==
  /\ txn[e] # None
  /\ f \in Rivals(e)
  /\ NextClaims(e) \cap txn[f].locked # {}

(***************************************************************************)
(* lockUniqueDeliveryClaims: an advisory lock for each value that will be  *)
(* guarded, one after the other, held until the transaction ends.          *)
(***************************************************************************)
LockClaim(e) ==
  /\ txn[e] # None
  /\ \A f \in Entries : ~ WaitsForLock(e, f)
  /\ \E c \in NextClaims(e) : txn' = [txn EXCEPT ![e].locked = @ \cup {c}]
  /\ UNCHANGED <<schema, draftVars, clientVars, releaseVars, claims, adminVars, budget>>

(* The old rows are deleted next, unseen until the commit. *)
PublishClaim(e) ==
  /\ txn[e] # None
  /\ txn[e].phase = "resolved"
  /\ txn[e].locked = txn[e].claims
  /\ txn' = [txn EXCEPT ![e].phase = "claimed"]
  /\ UNCHANGED <<schema, draftVars, clientVars, releaseVars, claims, adminVars, budget>>

(* Mutant: the old rows are deleted before the locks are taken. *)
DeletesFirst(e) == Rivals(e)

(* The ones of them that have deleted their old rows. *)
Claimants(e) == {f \in Rivals(e) : txn[f].phase = "claimed"}

(***************************************************************************)
(* The unique index.  A row that an open transaction has deleted makes the *)
(* insert wait for the outcome, any other row of the value refuses it.     *)
(***************************************************************************)
ClaimedBy(f, e) == claims[<<f, txn[e].locale>>] \cap txn[e].claims # {}

WaitsFor(e, f) ==
  /\ txn[e] # None
  /\ txn[e].phase = "claimed"
  /\ f \in Claimants(e)
  /\ ClaimedBy(f, e)

(* The same for rows that the backfill has deleted. *)
WaitsForBackfill(e) ==
  /\ txn[e] # None
  /\ txn[e].phase = "claimed"
  /\ \E f \in Entries \ {e} : ClaimedBy(f, e) /\ Backfilled(<<f, txn[e].locale>>)

(* Mutant: the projection has no unique index. *)
NeverRefused(e) == FALSE

Refused(e) ==
  /\ txn[e] # None
  /\ txn[e].phase = "claimed"
  /\ \E f \in Entries \ ({e} \cup Claimants(e)) :
       ClaimedBy(f, e) /\ ~ Backfilled(<<f, txn[e].locale>>)

(* Mutant: only the first publication invalidates cursors. *)
OnlyFirstGeneration(l) == [generation EXCEPT ![l] = IF @ = 0 THEN 1 ELSE @]

(* incrementDeliveryGeneration *)
NextGeneration(l) == [generation EXCEPT ![l] = @ + 1]

(* Mutant: each locale counts its own events. *)
NextOfLocale(k) == head[k].version + 1

NextEvent(k) == eventSequence[k[1]] + 1

(* Mutant: a publication is numbered after the live one. *)
NextAfterLive(k) == head[k].current + 1

NextPublication(k) == head[k].latest + 1

(* Inserts and commit of publish. *)
PublishCommit(e) ==
  LET k == <<e, txn[e].locale>>
      n == NextPublication(k)
      s == NextEvent(k)
  IN  /\ txn[e] # None
      /\ txn[e].phase = "claimed"
      /\ ~ Refused(e)
      /\ ~ WaitsForBackfill(e)
      /\ \A f \in Entries : ~ WaitsFor(e, f)
      /\ eventSequence' = [eventSequence EXCEPT ![e] = s]
      /\ publications' = publications \cup
           {[key |-> k, sequence |-> n, event |-> s, authority |-> txn[e].authority,
             values |-> txn[e].values]}
      /\ claims' = [claims EXCEPT ![k] = txn[e].claims]
      /\ head' = [head EXCEPT ![k] =
                    [version |-> @.version + 1, latest |-> n, current |-> n]]
      /\ generation' = NextGeneration(k[2])
      /\ outbox' = outbox \cup {[entry |-> e, sequence |-> s, kind |-> "published",
                                 locale |-> k[2], publication |-> n]}
      /\ txn' = [txn EXCEPT ![e] = None]
      /\ UNCHANGED <<schema, draftVars, clientVars, adminVars, budget>>

(* The batch needs the publication head that the transaction of e holds. *)
BackfillWaitsFor(e) ==
  /\ backfill # None
  /\ txn[e] # None
  /\ LET k == <<e, txn[e].locale>> IN backfill.plan[k] # 0 /\ k \notin backfill.held

(* The transaction of e waits for the one of f, or for a batch that does.  *)
WaitsOn(e, f) ==
  \/ WaitsForLock(e, f)
  \/ WaitsFor(e, f)
  \/ WaitsForBackfill(e) /\ BackfillWaitsFor(f)

(* Each of them waits for one of them, and is waited for by one of them. *)
Circular(S, Waits(_, _)) == \A e \in S : \E f, g \in S : Waits(e, f) /\ Waits(g, e)

Deadlocked(e) == \E S \in SUBSET Entries : e \in S /\ Circular(S, WaitsOn)

Rollback(e) ==
  /\ txn' = [txn EXCEPT ![e] = None]
  /\ UNCHANGED <<schema, draftVars, clientVars, releaseVars, claims, adminVars>>

(* The unique index refuses the insert. *)
PublishRefused(e) == Refused(e) /\ Rollback(e) /\ UNCHANGED budget

(* PostgreSQL ends one transaction of a circular wait. *)
DeadlockVictim(e) == Deadlocked(e) /\ Rollback(e) /\ UNCHANGED budget

(* A failure of the process or of the connection before the commit. *)
PublishLost(e) == txn[e] # None /\ Rollback(e) /\ Spend("loss")

(* unpublish with the version and publication its client expects. *)
Unpublish(k) ==
  LET s == NextEvent(k)
  IN  /\ Unlocked(k[1])
      /\ ~ Backfilled(k)
      /\ Enabled(k[2])
      /\ Spend("release")
      /\ head[k].current # 0
      /\ eventSequence' = [eventSequence EXCEPT ![k[1]] = s]
      /\ claims' = [claims EXCEPT ![k] = {}]
      /\ head' = [head EXCEPT ![k].version = @ + 1, ![k].current = 0]
      /\ generation' = NextGeneration(k[2])
      /\ outbox' = outbox \cup {[entry |-> k[1], sequence |-> s, kind |-> "unpublished",
                                 locale |-> k[2], publication |-> head[k].current]}
      /\ UNCHANGED <<schema, draftVars, clientVars, publications, txn, adminVars>>
=============================================================================
