----------------------------- MODULE FencedLease -----------------------------
(***************************************************************************)
(* What a lease with expiry promises: whoever works on a resource holds a  *)
(* token that was never used before; a token whose lease ran out may be    *)
(* superseded while its owner is still at work; closing a token releases   *)
(* the resource only if the token is still the one that holds it.          *)
(***************************************************************************)
EXTENDS TLAPS

CONSTANTS Resources, Tokens, ResourceOf, None

VARIABLES
  holder,   (* the token recorded with each resource, or None *)
  open,     (* tokens whose work is not closed                *)
  expired,  (* tokens whose lease has run out                 *)
  used      (* tokens ever drawn                              *)

leaseState == <<holder, open, expired, used>>

Init ==
  /\ holder = [r \in Resources |-> None]
  /\ open = {}
  /\ expired = {}
  /\ used = {}

Acquire(t) ==
  LET r == ResourceOf[t]
  IN  /\ t \notin used
      /\ holder[r] = None \/ holder[r] \in expired
      /\ holder' = [holder EXCEPT ![r] = t]
      /\ open' = open \cup {t}
      /\ used' = used \cup {t}
      /\ UNCHANGED expired

Expire(t) ==
  /\ t \in open
  /\ expired' = expired \cup {t}
  /\ UNCHANGED <<holder, open, used>>

Close(t) ==
  LET r == ResourceOf[t]
  IN  /\ t \in open
      /\ open' = open \ {t}
      /\ holder' = [holder EXCEPT ![r] = IF @ = t THEN None ELSE @]
      /\ UNCHANGED <<expired, used>>

Next == \E t \in Tokens : Acquire(t) \/ Expire(t) \/ Close(t)

Spec == Init /\ [][Next]_leaseState

(* While a lease runs, nobody else works on the resource. *)
Exclusion ==
  \A t1, t2 \in open \ expired : ResourceOf[t1] = ResourceOf[t2] => t1 = t2

(* A resource is never held by a running lease nobody works under. *)
NoOrphanedLease ==
  \A r \in Resources : holder[r] # None => holder[r] \in open \cup expired

-----------------------------------------------------------------------------
(* Exclusion follows from the fencing of tokens, for any number of resources. *)

LeaseTypeOK ==
  /\ holder \in [Resources -> Tokens \cup {None}]
  /\ open \subseteq Tokens
  /\ expired \subseteq Tokens
  /\ used \subseteq Tokens

(***************************************************************************)
(* Exclusion is not inductive: a running lease must also be the one its    *)
(* resource records, and a fresh token must be unknown to every set.       *)
(***************************************************************************)
LeaseInv ==
  /\ LeaseTypeOK
  /\ open \subseteq used
  /\ expired \subseteq used
  /\ \A t \in open \ expired : holder[ResourceOf[t]] = t
  /\ \A r \in Resources : holder[r] # None => /\ ResourceOf[holder[r]] = r
                                              /\ holder[r] \in open \cup expired

(* The invariant holds of every behaviour of the abstract lease. *)
THEOREM LeaseInvariant ==
  ASSUME ResourceOf \in [Tokens -> Resources], None \notin Tokens
  PROVE  Spec => []LeaseInv
<1>1. Init => LeaseInv
  BY DEF Init, LeaseInv, LeaseTypeOK
<1>2. LeaseInv /\ [Next]_leaseState => LeaseInv'
  <2> SUFFICES ASSUME LeaseInv, [Next]_leaseState PROVE LeaseInv'
    OBVIOUS
  <2> USE DEF LeaseInv, LeaseTypeOK
  <2>1. ASSUME NEW t \in Tokens, Acquire(t) PROVE LeaseInv'
    BY <2>1 DEF Acquire
  <2>2. ASSUME NEW t \in Tokens, Expire(t) PROVE LeaseInv'
    BY <2>2 DEF Expire
  <2>3. ASSUME NEW t \in Tokens, Close(t) PROVE LeaseInv'
    BY <2>3 DEF Close
  <2>4. CASE UNCHANGED leaseState
    BY <2>4 DEF leaseState
  <2> QED BY <2>1, <2>2, <2>3, <2>4 DEF Next
<1> QED BY <1>1, <1>2, PTL DEF Spec

(* While a lease runs nobody else works on the resource, whatever expires. *)
THEOREM LeaseExclusion ==
  ASSUME ResourceOf \in [Tokens -> Resources], None \notin Tokens
  PROVE  Spec => []Exclusion
<1>1. LeaseInv => Exclusion
  BY DEF LeaseInv, LeaseTypeOK, Exclusion
<1> QED BY <1>1, LeaseInvariant, PTL

(* No resource stays held by a running lease whose work is closed. *)
THEOREM LeaseNeverOrphaned ==
  ASSUME ResourceOf \in [Tokens -> Resources], None \notin Tokens
  PROVE  Spec => []NoOrphanedLease
<1>1. LeaseInv => NoOrphanedLease
  BY DEF LeaseInv, NoOrphanedLease
<1> QED BY <1>1, LeaseInvariant, PTL
=============================================================================
