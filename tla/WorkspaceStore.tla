--------------------------- MODULE WorkspaceStore ---------------------------
(***************************************************************************)
(* The rows of one workspace that say who may do what: its projects, its   *)
(* members, their invitations and the API credentials, with the open       *)
(* transactions that hold the lock of a project row.  AccessMembers and    *)
(* ApiCredentials hold the transactions; Governance composes them.         *)
(*                                                                         *)
(* Every transaction on a project begins by locking its row, so two        *)
(* transactions overlap only when they concern different projects.  A      *)
(* transaction that shares no row with those of other projects is one      *)
(* step; acceptance and removal, which share the workspace membership of   *)
(* the user, are two: what they read and lock, and what they write.        *)
(***************************************************************************)
EXTENDS Naturals, FiniteSets

CONSTANTS
  Projects,
  Users,
  Owner,         (* the user who created the workspace                     *)
  Invitations,   (* rows of project_invitation                             *)
  Keys,          (* rows of api_credential                                 *)
  Roles,         (* project roles of the instance                          *)
  Bounds,        (* bounds of the instance on member changes, invitations, *)
                 (* new keys, and creation and archiving of projects: one  *)
                 (* record for each mix of them                            *)
  None           (* SQL null                                               *)

Budgets == [member: Nat, invitation: Nat, key: Nat, project: Nat]

ASSUME WorkspaceConstants ==
  /\ Owner \in Users
  /\ "owner" \in Roles
  /\ Roles \subseteq {"owner", "developer", "editor"}
  /\ Bounds \subseteq Budgets
  /\ None \notin Users \cup Keys \cup Roles \cup Invitations

VARIABLES
  project,        (* absent, active or archived                            *)
  wm,             (* workspace_membership: absent, active, revoked         *)
  member,         (* project_membership of each project and user           *)
  invitation,     (* project_invitation                                    *)
  viewed,         (* rows of member lists on the screens of administrators *)
  txn,            (* the open transaction that holds the lock of a project *)
  key,            (* api_credential.status                                 *)
  keyProject,     (* api_credential.project_id                             *)
  predecessor,    (* api_credential_rotation, known by its successor: the  *)
                  (* predecessor                                           *)
  rotation,       (* and its status                                        *)
  lapsed,         (* invitations and keys whose expiry or retirement time  *)
                  (* has passed                                            *)
  budget

memberVars == <<wm, member, invitation, viewed, txn>>
keyVars    == <<key, keyProject, predecessor, rotation>>

Memberships == [status: {"absent", "active", "removed"}, role: Roles, version: Nat]
InvitationRows == [status: {"absent", "pending", "accepted", "revoked", "expired"},
                   project: Projects, user: Users, role: Roles]
Views == [project: Projects, user: Users, role: Roles, version: Nat]

KeyStatuses == {"absent", "pending", "active", "retiring", "revoked", "canceled"}
RotationStatuses == {"none", "pending", "overlap", "canceled", "completed"}

NoTxn    == [kind |-> "none"]
Acceptances == [kind: {"accept"}, invitation: Invitations, user: Users,
                saw: {"absent", "active", "revoked"}]
Removals == [kind: {"remove"}, user: Users, actor: Users, view: Views, last: BOOLEAN]

TypeOK ==
  /\ project \in [Projects -> {"absent", "active", "archived"}]
  /\ wm \in [Users -> {"absent", "active", "revoked"}]
  /\ member \in [Projects -> [Users -> Memberships]]
  /\ invitation \in [Invitations -> InvitationRows]
  /\ viewed \subseteq Views
  /\ txn \in [Projects -> {NoTxn} \cup Acceptances \cup Removals]
  /\ key \in [Keys -> KeyStatuses]
  /\ keyProject \in [Keys -> Projects]
  /\ predecessor \in [Keys -> Keys \cup {None}]
  /\ rotation \in [Keys -> RotationStatuses]
  /\ lapsed \subseteq Invitations \cup Keys
  /\ budget \in Budgets

(* A workspace as createWorkspace leaves it: its owner and nothing else. *)
InitStore ==
  /\ project = [p \in Projects |-> "absent"]
  /\ wm = [u \in Users |-> IF u = Owner THEN "active" ELSE "absent"]
  /\ member = [p \in Projects |->
                 [u \in Users |-> [status |-> "absent", role |-> "owner", version |-> 0]]]
  /\ \E p \in Projects :
       /\ invitation = [i \in Invitations |-> [status |-> "absent", project |-> p,
                                               user |-> Owner, role |-> "owner"]]
       /\ keyProject = [k \in Keys |-> p]
  /\ viewed = {}
  /\ txn = [p \in Projects |-> NoTxn]
  /\ key = [k \in Keys |-> "absent"]
  /\ predecessor = [k \in Keys |-> None]
  /\ rotation = [k \in Keys |-> "none"]
  /\ lapsed = {}
  /\ budget \in Bounds

Spend(kind) ==
  /\ budget[kind] > 0
  /\ budget' = [budget EXCEPT ![kind] = @ - 1]

(***************************************************************************)
(* The locks of open transactions: of a project row; of the row of a user, *)
(* for update by an acceptance and shared by a removal, whose foreign key  *)
(* names the user who removes; and of a workspace membership by a removal. *)
(***************************************************************************)
ProjectFree(p)    == project[p] # "absent" /\ txn[p] = NoTxn
NotAccepting(u)   == \A p \in Projects : txn[p].kind = "accept" => txn[p].user # u
NotRemovedFrom(u) == \A p \in Projects : txn[p].kind = "remove" => txn[p].user # u
NotRemoving(u)    == \A p \in Projects : txn[p].kind = "remove" => txn[p].actor # u

(***************************************************************************)
(* selectUserProjectAccess: an active membership of the workspace is       *)
(* needed; its owner is an owner of every project.                         *)
(***************************************************************************)
IsMember(u, p) == member[p][u].status = "active"
RoleIn(u, p) ==
  CASE u = Owner                           -> "owner"
    [] u # Owner /\ wm[u] = "active" /\ IsMember(u, p) -> member[p][u].role
    [] OTHER                               -> None

ManagesMembers(u, p) == RoleIn(u, p) = "owner"
ManagesKeys(u, p)    == RoleIn(u, p) \in {"owner", "developer"}

ActiveOwners(p) == {u \in Users : IsMember(u, p) /\ member[p][u].role = "owner"}

(* Keys of the rotations that are open, as successor. *)
OpenRotations == {s \in Keys : rotation[s] \in {"pending", "overlap"}}
CanAuthenticate(k) == key[k] \in {"active", "retiring"} /\ k \notin lapsed
=============================================================================
