--------------------------- MODULE ApiCredentials ---------------------------
(***************************************************************************)
(* API credentials of a project and their staged rotation: a successor is  *)
(* created pending, activation leaves both keys usable for a day, and      *)
(* completion, cancellation or revocation ends it.  Each transaction holds *)
(* the lock of the project and shares no row with those of other projects. *)
(***************************************************************************)
EXTENDS WorkspaceStore

KeyOthers == <<project, memberVars, lapsed>>

MayChangeKeys(u, p) == ProjectFree(p) /\ ManagesKeys(u, p)

IssueCredential(u, p, k) ==
  /\ MayChangeKeys(u, p)
  /\ project[p] = "active"
  /\ key[k] = "absent"
  /\ Spend("key")
  /\ key' = [key EXCEPT ![k] = "active"]
  /\ keyProject' = [keyProject EXCEPT ![k] = p]
  /\ UNCHANGED <<KeyOthers, predecessor, rotation>>

(* Only rotations that start from this key are looked for, not one that    *)
(* made it.                                                                *)
RotationsFrom(k) == {s \in OpenRotations : predecessor[s] = k}

StartRotation(u, k, s) ==
  /\ MayChangeKeys(u, keyProject[k])
  /\ project[keyProject[k]] = "active"
  /\ key[k] = "active" /\ CanAuthenticate(k)
  /\ RotationsFrom(k) = {}
  /\ key[s] = "absent"
  /\ Spend("key")
  /\ key' = [key EXCEPT ![s] = "pending"]
  /\ keyProject' = [keyProject EXCEPT ![s] = keyProject[k]]
  /\ predecessor' = [predecessor EXCEPT ![s] = k]
  /\ rotation' = [rotation EXCEPT ![s] = "pending"]
  /\ UNCHANGED KeyOthers

ActivateRotation(u, s) ==
  LET k == predecessor[s] IN
  /\ rotation[s] = "pending"
  /\ MayChangeKeys(u, keyProject[k])
  /\ project[keyProject[k]] = "active"
  /\ key[k] = "active" /\ CanAuthenticate(k)
  /\ key[s] = "pending" /\ s \notin lapsed
  /\ key' = [key EXCEPT ![k] = "retiring", ![s] = "active"]
  /\ rotation' = [rotation EXCEPT ![s] = "overlap"]
  /\ UNCHANGED <<KeyOthers, keyProject, predecessor, budget>>

CancelRotation(u, s) ==
  /\ rotation[s] = "pending"
  /\ MayChangeKeys(u, keyProject[s])
  /\ key[s] = "pending"
  /\ key' = [key EXCEPT ![s] = "canceled"]
  /\ rotation' = [rotation EXCEPT ![s] = "canceled"]
  /\ UNCHANGED <<KeyOthers, keyProject, predecessor, budget>>

CompleteRotation(u, s) ==
  LET k == predecessor[s] IN
  /\ rotation[s] = "overlap"
  /\ MayChangeKeys(u, keyProject[s])
  /\ key[k] = "retiring" /\ key[s] = "active"
  /\ key' = [key EXCEPT ![k] = "revoked"]
  /\ rotation' = [rotation EXCEPT ![s] = "completed"]
  /\ UNCHANGED <<KeyOthers, keyProject, predecessor, budget>>

-----------------------------------------------------------------------------
(* Revocation of an active key *)

Touching(k) == {s \in OpenRotations : k \in {s, predecessor[s]}}

(* Mutant: the other side of the rotation stays as it is. *)
SameSide(s, k) == k

OtherSide(s, k) == IF s = k THEN predecessor[s] ELSE s

RevokeKey(u, k) ==
  /\ MayChangeKeys(u, keyProject[k])
  /\ key[k] = "active"
  /\ Touching(k) = {}
  /\ key' = [key EXCEPT ![k] = "revoked"]
  /\ UNCHANGED <<KeyOthers, keyProject, predecessor, rotation, budget>>

(***************************************************************************)
(* An open rotation of the key is taken, any one of them: the query has a  *)
(* limit and no order.  The key must be the active side of it, and the     *)
(* other side goes with it.                                                *)
(***************************************************************************)
RevokeSides(u, k, s) ==
  /\ MayChangeKeys(u, keyProject[k])
  /\ key[k] = "active"
  /\ s \in Touching(k)
  /\ \/ /\ rotation[s] = "pending" /\ predecessor[s] = k
        /\ key[s] = "pending"
        /\ key' = [key EXCEPT ![OtherSide(s, k)] = "canceled", ![k] = "revoked"]
        /\ rotation' = [rotation EXCEPT ![s] = "canceled"]
     \/ /\ rotation[s] = "overlap" /\ s = k
        /\ key[predecessor[s]] = "retiring"
        /\ key' = [key EXCEPT ![OtherSide(s, k)] = "revoked", ![k] = "revoked"]
        /\ rotation' = [rotation EXCEPT ![s] = "completed"]
  /\ UNCHANGED <<KeyOthers, keyProject, predecessor, budget>>

(* The expiry or the retirement time of a key passes. *)
KeyLapses(k) ==
  /\ key[k] \in {"pending", "active", "retiring"}
  /\ k \notin lapsed
  /\ lapsed' = lapsed \cup {k}
  /\ UNCHANGED <<project, memberVars, keyVars, budget>>
=============================================================================
