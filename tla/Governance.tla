----------------------------- MODULE Governance -----------------------------
(***************************************************************************)
(* Who may enter a workspace and with which keys: projects, members,       *)
(* invitations and API credentials changed by several administrators.      *)
(***************************************************************************)
EXTENDS AccessMembers, ApiCredentials

vars == <<project, memberVars, keyVars, lapsed, budget>>

Membership ==
  \/ \E i \in Invitations :
       \/ AcceptRead(i) \/ AcceptExpired(i) \/ InvitationLapses(i)
       \/ \E actor \in Users : RevokeInvitation(actor, i)
       \/ \E actor, u \in Users, p \in Projects, role \in Roles :
            CreateInvitation(actor, i, p, u, role)
  \/ \E p \in Projects, u \in Users : ViewMember(p, u)
  \/ \E v \in viewed :
       \/ RefuseChange(v)
       \/ \E actor \in Users : RemoveRead(actor, v)
       \/ \E actor \in Users, role \in Roles : UpdateMemberPolicy(actor, v, role)
  \/ \E p \in Projects : AcceptCommit(p) \/ RemoveCommit(p) \/ RollBack(p)

Credentials ==
  \E u \in Users, k \in Keys :
    \/ \E p \in Projects : IssueCredential(u, p, k)
    \/ \E s \in Keys : StartRotation(u, k, s) \/ RevokeSides(u, k, s)
    \/ ActivateRotation(u, k) \/ CancelRotation(u, k) \/ CompleteRotation(u, k)
    \/ RevokeKey(u, k)
    \/ KeyLapses(k)

ProjectLife ==
  \E p \in Projects :
    \/ CreateProject(p)
    \/ \E u \in Users : ArchiveProject(u, p) \/ RestoreProject(u, p)

Next == Membership \/ Credentials \/ ProjectLife

Init == InitStore
Spec == Init /\ [][Next]_vars

-----------------------------------------------------------------------------
(* Members *)

(* "A project always keeps an owner": however owners remove and demote     *)
(* each other, some active membership with that role remains.              *)
OwnersRemain == \A p \in Projects : project[p] # "absent" => ActiveOwners(p) # {}

(* "Concurrent removals cannot leave stale workspace discovery access": a  *)
(* collaborator of the workspace is a member of some project.              *)
NoStaleDiscovery ==
  \A u \in Users \ {Owner} : wm[u] = "active" => \E p \in Projects : IsMember(u, p)

(* The other direction, which the design states too: "acceptance creates   *)
(* or reactivates a collaborator workspace membership when the user is not *)
(* already a workspace member", so a member of a project can enter it.     *)
ActiveMembersMayEnter ==
  \A u \in Users, p \in Projects : IsMember(u, p) => RoleIn(u, p) # None

(* What requests to change a member of p were made from. *)
Requested(p) == viewed \cup (IF txn[p].kind = "remove" THEN {txn[p].view} ELSE {})

(* An administrator removes or changes only a membership as the screen     *)
(* showed it: not one that was changed, or removed and invited again with  *)
(* another role, between the page and the request.                         *)
ChangeAppliesToWhatWasSeen ==
  [][\A p \in Projects, u \in Users :
       IsMember(u, p) /\ member'[p][u] # member[p][u] =>
         \E v \in Requested(p) :
           v.project = p /\ v.user = u /\ v.role = member[p][u].role]_vars

(* Nobody becomes a member, or comes back after a removal, except by using *)
(* up a pending invitation to that project for that role.                  *)
InvitationAdmitsOnce ==
  [][\A p \in Projects, u \in Users \ {Owner} :
       ~IsMember(u, p) /\ member'[p][u].status = "active" =>
         \E i \in Invitations :
           /\ invitation[i] = [status |-> "pending", project |-> p, user |-> u,
                               role |-> member'[p][u].role]
           /\ invitation'[i].status = "accepted"]_vars

-----------------------------------------------------------------------------
(* Credentials *)

(* A rotation and its two keys always agree, whichever administrators      *)
(* activate, complete, cancel and revoke in whichever order: a pending one *)
(* has a pending successor, a canceled one a canceled successor, one that  *)
(* overlaps a retiring predecessor, a completed one a revoked predecessor. *)
(* And no key retires outside exactly one overlapping rotation, so that a  *)
(* predecessor that can still authenticate can be found and ended.         *)
RotationsMatchKeys ==
  /\ \A s \in Keys :
       /\ rotation[s] = "pending"   => key[s] = "pending"
       /\ rotation[s] = "canceled"  => key[s] = "canceled"
       /\ rotation[s] = "overlap"   => key[predecessor[s]] = "retiring"
       /\ rotation[s] = "completed" => key[predecessor[s]] = "revoked"
  /\ \A k \in Keys : key[k] = "retiring" =>
       \E s \in Keys : {r \in Keys : predecessor[r] = k /\ rotation[r] = "overlap"} = {s}

(* "Revoking the active side of an open rotation atomically revokes or     *)
(* cancels every still-usable or pending key in that open rotation".       *)
RevocationClosesRotations ==
  [][\A k \in Keys : key[k] = "active" /\ key'[k] = "revoked" =>
       \A s \in Keys : rotation'[s] \in {"pending", "overlap"} => k \notin {s, predecessor[s]}]_vars
=============================================================================
