---------------------------- MODULE AccessMembers ----------------------------
(***************************************************************************)
(* Projects of a workspace, invitations to them and memberships.           *)
(***************************************************************************)
EXTENDS WorkspaceStore

Others == <<keyVars, lapsed>>

-----------------------------------------------------------------------------
(* Projects *)

(* The owner of the workspace creates a project and is its first owner. *)
CreateProject(p) ==
  /\ project[p] = "absent"
  /\ project' = [project EXCEPT ![p] = "active"]
  /\ member' = [member EXCEPT ![p][Owner] = [status |-> "active", role |-> "owner", version |-> 1]]
  /\ Spend("project")
  /\ UNCHANGED <<wm, invitation, viewed, txn, Others>>

ArchiveProject(u, p) ==
  /\ ProjectFree(p) /\ ManagesMembers(u, p)
  /\ project[p] = "active"
  /\ Spend("project")
  /\ project' = [project EXCEPT ![p] = "archived"]
  /\ UNCHANGED <<memberVars, Others>>

RestoreProject(u, p) ==
  /\ ProjectFree(p) /\ ManagesMembers(u, p)
  /\ project[p] = "archived"
  /\ project' = [project EXCEPT ![p] = "active"]
  /\ UNCHANGED <<memberVars, Others, budget>>

-----------------------------------------------------------------------------
(* Invitations *)

PendingFor(p, u) ==
  {i \in Invitations : /\ invitation[i].status = "pending"
                       /\ invitation[i].project = p /\ invitation[i].user = u}

(* Pending invitations of the address that have expired are marked first;  *)
(* the unique index on pending ones refuses a second that has not.         *)
CreateInvitation(actor, i, p, u, role) ==
  /\ ProjectFree(p) /\ ManagesMembers(actor, p)
  /\ invitation[i].status = "absent"
  /\ ~IsMember(u, p)
  /\ PendingFor(p, u) \subseteq lapsed
  /\ Spend("invitation")
  /\ invitation' =
       [j \in Invitations |->
          IF j = i THEN [status |-> "pending", project |-> p, user |-> u, role |-> role]
          ELSE IF j \in PendingFor(p, u) THEN [invitation[j] EXCEPT !.status = "expired"]
          ELSE invitation[j]]
  /\ UNCHANGED <<project, wm, member, viewed, txn, Others>>

RevokeInvitation(actor, i) ==
  LET p == invitation[i].project IN
  /\ ProjectFree(p) /\ ManagesMembers(actor, p)
  /\ invitation[i].status = "pending"
  /\ invitation' = [invitation EXCEPT ![i].status = IF i \in lapsed THEN "expired" ELSE "revoked"]
  /\ UNCHANGED <<project, wm, member, viewed, txn, Others, budget>>

(* An invitation met after its time is marked and refused. *)
AcceptExpired(i) ==
  /\ ProjectFree(invitation[i].project)
  /\ invitation[i].status = "pending"
  /\ i \in lapsed
  /\ invitation' = [invitation EXCEPT ![i].status = "expired"]
  /\ UNCHANGED <<project, wm, member, viewed, txn, Others, budget>>

(***************************************************************************)
(* Acceptance locks the project, the invitation and the user, and reads    *)
(* the workspace membership without a lock.  The second acceptance of an   *)
(* invitation by the same user reads and writes nothing, so it has no step *)
(* here.                                                                   *)
(***************************************************************************)
AcceptRead(i) ==
  LET p == invitation[i].project
      u == invitation[i].user IN
  /\ ProjectFree(p)
  /\ invitation[i].status = "pending"
  /\ i \notin lapsed
  /\ ~IsMember(u, p)
  /\ NotAccepting(u) /\ NotRemoving(u)
  /\ txn' = [txn EXCEPT ![p] = [kind |-> "accept", invitation |-> i, user |-> u, saw |-> wm[u]]]
  /\ UNCHANGED <<project, wm, member, invitation, viewed, Others, budget>>

(* Admission: the membership is created or comes back with a new version. *)
Admitted(p, u, role) ==
  [member EXCEPT ![p][u] = [status |-> "active", role |-> role, version |-> @.version + 1]]

(* Mutant: the invitation can be accepted once more. *)
UsedStays(i) == invitation

Used(i) == [invitation EXCEPT ![i].status = "accepted"]

AcceptCommit(p) ==
  LET t == txn[p] IN
  /\ t.kind = "accept"
  /\ t.saw = "revoked" => NotRemovedFrom(t.user)
  /\ wm' = IF t.saw = "active" THEN wm ELSE [wm EXCEPT ![t.user] = "active"]
  /\ member' = Admitted(p, t.user, invitation[t.invitation].role)
  /\ invitation' = Used(t.invitation)
  /\ txn' = [txn EXCEPT ![p] = NoTxn]
  /\ UNCHANGED <<project, viewed, Others, budget>>

-----------------------------------------------------------------------------
(* Members *)

(* An administrator's screen shows a membership. *)
ViewMember(p, u) ==
  /\ IsMember(u, p)
  /\ Spend("member")
  /\ viewed' = viewed \cup {[project |-> p, user |-> u, role |-> member[p][u].role,
                             version |-> member[p][u].version]}
  /\ UNCHANGED <<project, wm, member, invitation, txn, Others>>

(* Mutant: any active membership will do. *)
StillMember(v) == IsMember(v.user, v.project)

UpToDate(v) == IsMember(v.user, v.project) /\ member[v.project][v.user].version = v.version

(* Mutant: the owners are counted after one is gone. *)
LastOwnerOffByOne(v) ==
  /\ member[v.project][v.user].role = "owner"
  /\ Cardinality(ActiveOwners(v.project)) <= 0

LastOwner(v) ==
  /\ member[v.project][v.user].role = "owner"
  /\ Cardinality(ActiveOwners(v.project)) <= 1

(* A request for a row that has changed is refused. *)
RefuseChange(v) ==
  /\ ProjectFree(v.project)
  /\ ~UpToDate(v)
  /\ viewed' = viewed \ {v}
  /\ UNCHANGED <<project, wm, member, invitation, txn, Others, budget>>

UpdateMemberPolicy(actor, v, role) ==
  /\ ProjectFree(v.project) /\ ManagesMembers(actor, v.project)
  /\ UpToDate(v)
  /\ role # member[v.project][v.user].role
  /\ LastOwner(v) => role = "owner"
  /\ member' = [member EXCEPT ![v.project][v.user] =
                  [status |-> @.status, role |-> role, version |-> @.version + 1]]
  /\ viewed' = viewed \ {v}
  /\ UNCHANGED <<project, wm, invitation, txn, Others, budget>>

(* Mutant: the workspace membership is not locked. *)
WorkspaceMembershipUnlocked(v) == TRUE

WorkspaceMembershipFree(v) == NotRemovedFrom(v.user)

(***************************************************************************)
(* A removal locks the project and the workspace membership of the user,   *)
(* takes the project membership away and counts the memberships the user   *)
(* has left in the workspace, as far as other transactions have committed. *)
(***************************************************************************)
Remaining(v) == {q \in Projects \ {v.project} : IsMember(v.user, q)}

RemoveRead(actor, v) ==
  /\ ProjectFree(v.project) /\ ManagesMembers(actor, v.project)
  /\ UpToDate(v)
  /\ ~LastOwner(v)
  /\ WorkspaceMembershipFree(v)
  /\ NotAccepting(actor)
  /\ txn' = [txn EXCEPT ![v.project] = [kind |-> "remove", user |-> v.user, actor |-> actor,
                                        view |-> v, last |-> Remaining(v) = {}]]
  /\ viewed' = viewed \ {v}
  /\ UNCHANGED <<project, wm, member, invitation, Others, budget>>

(* With the last membership of a collaborator goes that of the workspace. *)
RemoveCommit(p) ==
  LET t == txn[p] IN
  /\ t.kind = "remove"
  /\ member' = [member EXCEPT ![p][t.user] =
                  [status |-> "removed", role |-> @.role, version |-> @.version + 1]]
  /\ wm' = IF t.last /\ t.user # Owner /\ wm[t.user] = "active"
           THEN [wm EXCEPT ![t.user] = "revoked"] ELSE wm
  /\ txn' = [txn EXCEPT ![p] = NoTxn]
  /\ UNCHANGED <<project, invitation, viewed, Others, budget>>

(* A process exits, or the database ends one of two transactions that wait *)
(* for each other.                                                         *)
RollBack(p) ==
  /\ txn[p] # NoTxn
  /\ txn' = [txn EXCEPT ![p] = NoTxn]
  /\ UNCHANGED <<project, wm, member, invitation, viewed, Others, budget>>

InvitationLapses(i) ==
  /\ invitation[i].status = "pending"
  /\ i \notin lapsed
  /\ lapsed' = lapsed \cup {i}
  /\ UNCHANGED <<project, memberVars, keyVars, budget>>
=============================================================================
