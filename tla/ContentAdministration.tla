----------------------- MODULE ContentAdministration -----------------------
(***************************************************************************)
(* What administrators and operators do to live content: the status of     *)
(* locales, the delivery configuration of the collection, and the          *)
(* backfill, which rebuilds the projections of current publications while  *)
(* publications go on.                                                     *)
(***************************************************************************)
EXTENDS ContentPublication

(* Mutant: a status change does not wait for open transactions. *)
UnlockedProject == TRUE

(* lockProject waits for every command on content, which shares the lock. *)
LocaleLockable == ProjectFree

(* What decideLocaleTransition permits; draft impact is the client's to confirm. *)
TransitionAllowed(l, status) ==
  /\ localeStatus[l] # status
  /\ l = English => status = "enabled"
  /\ localeStatus[l] = "removed" => status # "disabled"
  /\ status # "enabled" => \A e \in Entries : head[<<e, l>>].current = 0

UpdateStatus(l, status) ==
  /\ LocaleLockable
  /\ TransitionAllowed(l, status)
  /\ Spend("admin")
  /\ localeStatus' = [localeStatus EXCEPT ![l] = status]
  /\ UNCHANGED <<schema, draftVars, clientVars, releaseVars, claims, txn,
                 lookup, configVersion, backfill, overtaken>>

-----------------------------------------------------------------------------
(* The values the projection of a live publication holds, of its snapshot. *)
LiveValues(k) == IF head[k].current = 0 THEN {} ELSE UNION {p.values : p \in Live(k)}

(* The rows satisfy the unique index. *)
Unique(rows) ==
  \A e, f \in Entries, l \in Locales : e # f => rows[<<e, l>>] \cap rows[<<f, l>>] = {}

(* Mutant: a configuration change does not wait for open publications. *)
UnlockedCollection == TRUE

(* updateConfiguration locks the collection row for update. *)
ConfigurationLockable == CollectionFree

(***************************************************************************)
(* updateConfiguration, as far as unique lookup is concerned: it marks the *)
(* rows that are there, and fails where the index refuses that.  Rows that *)
(* the backfill is replacing are marked by whoever writes them last, which *)
(* is the backfill if it commits.                                          *)
(***************************************************************************)
UpdateConfiguration(unique) ==
  LET rows == [k \in Keys |-> IF unique THEN LiveValues(k) ELSE {}]
  IN  /\ ConfigurationLockable
      /\ unique # lookup
      /\ Spend("admin")
      /\ Unique(rows)
      /\ claims' = rows
      /\ lookup' = unique
      /\ configVersion' = configVersion + 1
      /\ overtaken' = (overtaken \/ backfill # None)
      /\ UNCHANGED <<schema, draftVars, clientVars, releaseVars, txn, localeStatus, backfill>>

-----------------------------------------------------------------------------
(***************************************************************************)
(* loadBatch and planBatch of runDeliveryBackfill, without a lock: which   *)
(* publication each head has, and the capability flags.  A dry run over    *)
(* everything has gone before; it only decides whether to begin.           *)
(***************************************************************************)
PlanBatch(batch) ==
  /\ backfill = None
  /\ batch # {}
  /\ \A k \in batch : head[k].current # 0
  /\ Spend("batch")
  /\ backfill' = [plan   |-> [k \in Keys |-> IF k \in batch THEN head[k].current ELSE 0],
                  lookup |-> lookup, held |-> {}]
  /\ UNCHANGED <<schema, draftVars, clientVars, releaseVars, claims, txn,
                 localeStatus, lookup, configVersion, overtaken>>

(* The heads of the batch that it has not locked yet. *)
Waiting == {k \in Keys : backfill.plan[k] # 0} \ backfill.held

(* No open transaction holds the head. *)
HeadFree(k) == txn[k[1]] # None => txn[k[1]].locale # k[2]

(* The publication the projections were made from is still the current one. *)
StillCurrent(k) == head[k].current = backfill.plan[k]

(***************************************************************************)
(* applyBatch locks the heads one by one, in the order of their ids, which *)
(* may be any, and deletes the rows of each.                               *)
(***************************************************************************)
LockHead(k) ==
  /\ backfill # None
  /\ k \in Waiting
  /\ HeadFree(k)
  /\ StillCurrent(k)
  /\ backfill' = [backfill EXCEPT !.held = @ \cup {k}]
  /\ UNCHANGED <<schema, draftVars, clientVars, releaseVars, claims, txn,
                 localeStatus, lookup, configVersion, overtaken, budget>>

(* The rows after the batch, with the flags it was planned under. *)
Rebuilt ==
  [k \in Keys |-> IF backfill.plan[k] = 0 THEN claims[k]
                  ELSE IF backfill.lookup THEN LiveValues(k) ELSE {}]

(* Inserts and commit of the batch. *)
ApplyBatch ==
  /\ backfill # None
  /\ Waiting = {}
  /\ Unique(Rebuilt)
  /\ claims' = Rebuilt
  /\ backfill' = None
  /\ UNCHANGED <<schema, draftVars, clientVars, releaseVars, txn,
                 localeStatus, lookup, configVersion, overtaken, budget>>

(***************************************************************************)
(* The batch is rolled back: a publication has changed, the unique index   *)
(* refuses a row, PostgreSQL ends a circular wait, or the process fails.   *)
(***************************************************************************)
BatchFails ==
  /\ backfill # None
  /\ \/ /\ \/ \E k \in Waiting : HeadFree(k) /\ ~ StillCurrent(k)
           \/ Waiting = {} /\ ~ Unique(Rebuilt)
           \/ \E e \in Entries : Deadlocked(e) /\ WaitsForBackfill(e)
        /\ UNCHANGED budget
     \/ Spend("loss")
  /\ backfill' = None
  /\ UNCHANGED <<schema, draftVars, clientVars, releaseVars, claims, txn,
                 localeStatus, lookup, configVersion, overtaken>>
=============================================================================
