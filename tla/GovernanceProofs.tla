--------------------------- MODULE GovernanceProofs ---------------------------
(***************************************************************************)
(* Members and keys of a workspace, for any number of projects, users,     *)
(* invitations and keys and any bounds.                                    *)
(***************************************************************************)
EXTENDS Governance, FiniteSetTheorems, TLAPS

(* A project that was not created has no rows. *)
AbsentIsEmpty ==
  \A p \in Projects : project[p] = "absent" =>
    /\ txn[p] = NoTxn
    /\ \A u \in Users : ~IsMember(u, p)
    /\ \A v \in viewed : v.project # p

(* What a transaction read under the lock of its project stays true until  *)
(* it commits: an acceptance its invitation, a removal its membership and  *)
(* that the project has another owner.                                     *)
AcceptanceHolds ==
  \A p \in Projects : txn[p].kind = "accept" =>
    /\ invitation[txn[p].invitation].status = "pending"
    /\ invitation[txn[p].invitation].project = p
    /\ invitation[txn[p].invitation].user = txn[p].user
    /\ ~IsMember(txn[p].user, p)

RemovalStands(p) ==
  /\ txn[p].view.project = p /\ txn[p].view.user = txn[p].user
  /\ UpToDate(txn[p].view)
  /\ txn[p].view.role = member[p][txn[p].user].role
  /\ ActiveOwners(p) \ {txn[p].user} # {}

RemovalHolds == \A p \in Projects : txn[p].kind = "remove" => RemovalStands(p)

(* What a removal counted in other projects stays true as well, since the  *)
(* lock of the workspace membership lets one removal of a user in at a time.*)
OtherMembershipsHold ==
  \A p \in Projects : txn[p].kind = "remove" =>
    /\ ~txn[p].last => \E q \in Projects \ {p} : IsMember(txn[p].user, q)
    /\ \A q \in Projects : txn[q].kind = "remove" /\ txn[q].user = txn[p].user => q = p

(* Versions only grow, and a membership keeps its role with its version.   *)
ViewsAreOld ==
  \A v \in viewed :
    /\ v.version <= member[v.project][v.user].version
    /\ UpToDate(v) => v.role = member[v.project][v.user].role

MembersInv ==
  /\ TypeOK
  /\ AbsentIsEmpty /\ AcceptanceHolds /\ RemovalHolds /\ OtherMembershipsHold /\ ViewsAreOld
  /\ OwnersRemain /\ NoStaleDiscovery

(* A key has at most one open rotation, and the two sides of a rotation    *)
(* are in step. The predecessor of a pending one may be revoked.           *)
KeysInv ==
  /\ \A s \in Keys : rotation[s] # "none" =>
       predecessor[s] \in Keys /\ key[s] # "absent"
  /\ \A s \in Keys :
       /\ rotation[s] = "pending"   => key[s] = "pending"
       /\ rotation[s] = "canceled"  => key[s] = "canceled"
       /\ rotation[s] = "overlap"   => key[predecessor[s]] = "retiring"
       /\ rotation[s] = "completed" => key[predecessor[s]] = "revoked"
  /\ \A s, r \in OpenRotations : predecessor[s] = predecessor[r] => s = r
  /\ \A k \in Keys : key[k] = "retiring" =>
       \E s \in Keys : predecessor[s] = k /\ rotation[s] = "overlap"

(* The kind of a transaction is its type. *)
LEMMA TxnKinds ==
  ASSUME TypeOK
  PROVE  \A p \in Projects :
           /\ txn[p].kind = "accept" => txn[p] \in Acceptances
           /\ txn[p].kind = "remove" => txn[p] \in Removals
           /\ txn[p] = NoTxn => txn[p].kind = "none"
  BY DEF TypeOK, NoTxn, Acceptances, Removals

(* A transaction writes one row of memberships. *)
Writes(p, u, row) ==
  /\ p \in Projects /\ u \in Users /\ row \in Memberships
  /\ \A q \in Projects, x \in Users :
       member'[q][x] = IF q = p /\ x = u THEN row ELSE member[q][x]

LEMMA OneRow ==
  ASSUME TypeOK, NEW p \in Projects, NEW u \in Users, NEW row \in Memberships,
         member' = [member EXCEPT ![p][u] = row]
  PROVE  member' \in [Projects -> [Users -> Memberships]] /\ Writes(p, u, row)
  BY DEF TypeOK, Writes

(* An invitation changes its status only. *)
LEMMA InvitationStatus ==
  ASSUME TypeOK, NEW i \in Invitations,
         NEW status \in {"accepted", "revoked", "expired"}
  PROVE  /\ [invitation[i] EXCEPT !.status = status] \in InvitationRows
         /\ [invitation EXCEPT ![i].status = status] \in [Invitations -> InvitationRows]
<1>1. [invitation[i] EXCEPT !.status = status] \in InvitationRows
  BY DEF TypeOK, InvitationRows
<1> QED BY <1>1 DEF TypeOK

(* A role that a user is given, and the version that a row gets. *)
LEMMA Rows ==
  ASSUME TypeOK, NEW p \in Projects, NEW u \in Users, NEW role \in Roles
  PROVE  /\ [status |-> "active", role |-> role, version |-> member[p][u].version + 1] \in Memberships
         /\ [status |-> member[p][u].status, role |-> role, version |-> member[p][u].version + 1]
              \in Memberships
         /\ [status |-> "removed", role |-> member[p][u].role, version |-> member[p][u].version + 1]
              \in Memberships
         /\ [status |-> "active", role |-> "owner", version |-> 1] \in Memberships
  BY WorkspaceConstants DEF TypeOK, Memberships

(* Bounds are numbers. *)
LEMMA Spent ==
  ASSUME TypeOK, NEW kind \in {"member", "invitation", "key", "project"}, Spend(kind)
  PROVE  budget' \in Budgets
<1>1. budget \in Budgets
  BY DEF TypeOK
<1>2. budget[kind] \in Nat /\ budget[kind] - 1 \in Nat
  BY <1>1 DEF Budgets, Spend
<1>3. budget' = [budget EXCEPT ![kind] = budget[kind] - 1]
  BY DEF Spend
<1> QED BY <1>1, <1>2, <1>3 DEF Budgets

(***************************************************************************)
(* The rows that the transactions write: a change of role, an accepted     *)
(* invitation and a removal each write one row, of a new version.          *)
(***************************************************************************)
PolicyRow(v, role) ==
  [status |-> member[v.project][v.user].status, role |-> role,
   version |-> member[v.project][v.user].version + 1]
AcceptedRow(t, p) ==
  [status |-> "active", role |-> invitation[t.invitation].role,
   version |-> member[p][t.user].version + 1]
RemovedRow(t, p) ==
  [status |-> "removed", role |-> member[p][t.user].role, version |-> member[p][t.user].version + 1]

(* A change of role writes the row of the member it was decided for. *)
LEMMA PolicyWrites ==
  ASSUME TypeOK, NEW v \in viewed, NEW actor \in Users, NEW role \in Roles,
         UpdateMemberPolicy(actor, v, role)
  PROVE  /\ Writes(v.project, v.user, PolicyRow(v, role))
         /\ member' \in [Projects -> [Users -> Memberships]]
<1>1. v.project \in Projects /\ v.user \in Users
  BY DEF TypeOK, Views
<1>2. PolicyRow(v, role) \in Memberships
  BY <1>1, Rows DEF PolicyRow
<1>3. member' = [member EXCEPT ![v.project][v.user] = PolicyRow(v, role)]
  BY <1>1 DEF UpdateMemberPolicy, PolicyRow
<1> QED BY <1>1, <1>2, <1>3, OneRow

(* An acceptance writes the row of the user who follows the link. *)
LEMMA AcceptanceWrites ==
  ASSUME TypeOK, NEW p \in Projects, AcceptCommit(p)
  PROVE  /\ txn[p].user \in Users /\ txn[p].invitation \in Invitations
         /\ Writes(p, txn[p].user, AcceptedRow(txn[p], p))
         /\ member' \in [Projects -> [Users -> Memberships]]
<1>1. txn[p].user \in Users /\ txn[p].invitation \in Invitations
  BY TxnKinds DEF AcceptCommit, Acceptances
<1>2. invitation[txn[p].invitation].role \in Roles
  BY <1>1 DEF TypeOK, InvitationRows
<1>3. AcceptedRow(txn[p], p) \in Memberships
  BY <1>1, <1>2, Rows DEF AcceptedRow
<1>4. member' = [member EXCEPT ![p][txn[p].user] = AcceptedRow(txn[p], p)]
  BY DEF AcceptCommit, Admitted, AcceptedRow
<1> QED BY <1>1, <1>3, <1>4, OneRow

(* A removal writes the row of the user it read. *)
LEMMA RemovalWrites ==
  ASSUME TypeOK, NEW p \in Projects, RemoveCommit(p)
  PROVE  /\ txn[p].user \in Users
         /\ Writes(p, txn[p].user, RemovedRow(txn[p], p))
         /\ member' \in [Projects -> [Users -> Memberships]]
<1>1. txn[p].user \in Users
  BY TxnKinds DEF RemoveCommit, Removals
<1>2. RemovedRow(txn[p], p) \in Memberships
  BY <1>1, WorkspaceConstants, Rows DEF RemovedRow
<1>3. member' = [member EXCEPT ![p][txn[p].user] = RemovedRow(txn[p], p)]
  BY DEF RemoveCommit, RemovedRow
<1> QED BY <1>1, <1>2, <1>3, OneRow

(* The rows of the other projects, and so their owners, do not move. *)
LEMMA OwnersElsewhere ==
  ASSUME NEW p, NEW u, NEW row, Writes(p, u, row)
  PROVE  \A q \in Projects : q # p => ActiveOwners(q)' = ActiveOwners(q)
  BY DEF Writes, ActiveOwners, IsMember

(* A row that is written has a version that no screen has shown. *)
LEMMA VersionsGrow ==
  ASSUME TypeOK, ViewsAreOld, NEW p \in Projects, NEW u \in Users, NEW row, Writes(p, u, row),
         row.version = member[p][u].version + 1, viewed' \subseteq viewed
  PROVE  ViewsAreOld'
<1> SUFFICES ASSUME NEW v \in viewed
             PROVE  /\ v.version <= member'[v.project][v.user].version
                    /\ UpToDate(v)' => v.role = member'[v.project][v.user].role
  BY DEF ViewsAreOld
<1>1. v.project \in Projects /\ v.user \in Users /\ v.version \in Nat
  BY DEF TypeOK, Views
<1>2. v.version <= member[v.project][v.user].version /\ member[v.project][v.user].version \in Nat
  BY <1>1 DEF ViewsAreOld, TypeOK, Memberships
<1>3. CASE v.project = p /\ v.user = u
  <2>1. member'[v.project][v.user] = row
    BY <1>1, <1>3 DEF Writes
  <2>2. row.version = member[v.project][v.user].version + 1
    BY <1>3
  <2>3. v.version < row.version
    BY <1>1, <1>2, <2>2
  <2>4. row.version \in Nat
    BY <1>1, <1>2, <2>2
  <2> QED BY <1>1, <2>1, <2>3, <2>4 DEF UpToDate
<1>4. CASE ~(v.project = p /\ v.user = u)
  <2>1. member'[v.project][v.user] = member[v.project][v.user]
    BY <1>1, <1>4 DEF Writes
  <2> QED BY <1>1, <1>2, <2>1 DEF UpToDate, IsMember, ViewsAreOld
<1> QED BY <1>3, <1>4

(* Every transaction on members and projects keeps the types. *)
LEMMA MembersKeepTypes ==
  ASSUME TypeOK, Membership \/ ProjectLife
  PROVE  TypeOK'
<1> USE WorkspaceConstants, TxnKinds DEF TypeOK
<1>1. ASSUME NEW i \in Invitations, AcceptRead(i) PROVE TypeOK'
  <2>1. txn' \in [Projects -> {NoTxn} \cup Acceptances \cup Removals]
    BY <1>1 DEF AcceptRead, Acceptances, InvitationRows
  <2> QED BY <1>1, <2>1 DEF AcceptRead, Others, keyVars
<1>2. ASSUME NEW i \in Invitations, AcceptExpired(i) PROVE TypeOK'
  BY <1>2, InvitationStatus DEF AcceptExpired, Others, keyVars
<1>3. ASSUME NEW i \in Invitations, InvitationLapses(i) PROVE TypeOK'
  BY <1>3 DEF InvitationLapses, memberVars, keyVars
<1>4. ASSUME NEW i \in Invitations, NEW actor \in Users, RevokeInvitation(actor, i) PROVE TypeOK'
  BY <1>4, InvitationStatus DEF RevokeInvitation, Others, keyVars
<1>5. ASSUME NEW i \in Invitations, NEW actor \in Users, NEW u \in Users, NEW p \in Projects,
             NEW role \in Roles, CreateInvitation(actor, i, p, u, role)
      PROVE  TypeOK'
  <2>1. ASSUME NEW j \in Invitations PROVE invitation'[j] \in InvitationRows
    <3>1. CASE j = i
      BY <1>5, <3>1 DEF CreateInvitation, InvitationRows
    <3>2. CASE j # i
      BY <1>5, <3>2, InvitationStatus DEF CreateInvitation
    <3> QED BY <3>1, <3>2
  <2>2. invitation' \in [Invitations -> InvitationRows]
    BY <1>5, <2>1 DEF CreateInvitation
  <2> QED BY <1>5, <2>2, Spent DEF CreateInvitation, Others, keyVars
<1>6. ASSUME NEW p \in Projects, NEW u \in Users, ViewMember(p, u) PROVE TypeOK'
  <2>1. viewed' \subseteq Views
    BY <1>6 DEF ViewMember, Views, Memberships
  <2> QED BY <1>6, <2>1, Spent DEF ViewMember, Others, keyVars
<1>7. ASSUME NEW v \in viewed, RefuseChange(v) PROVE TypeOK'
  BY <1>7 DEF RefuseChange, Others, keyVars
<1>8. ASSUME NEW v \in viewed, NEW actor \in Users, RemoveRead(actor, v) PROVE TypeOK'
  <2>1. txn' \in [Projects -> {NoTxn} \cup Acceptances \cup Removals]
    BY <1>8 DEF RemoveRead, Removals, Views
  <2> QED BY <1>8, <2>1 DEF RemoveRead, Others, keyVars
<1>9. ASSUME NEW v \in viewed, NEW actor \in Users, NEW role \in Roles,
             UpdateMemberPolicy(actor, v, role)
      PROVE  TypeOK'
  BY <1>9, PolicyWrites DEF UpdateMemberPolicy, Others, keyVars
<1>10. ASSUME NEW p \in Projects, AcceptCommit(p) PROVE TypeOK'
  <2>1. invitation' \in [Invitations -> InvitationRows]
    BY <1>10, AcceptanceWrites, InvitationStatus DEF AcceptCommit, Used
  <2>2. member' \in [Projects -> [Users -> Memberships]]
    BY <1>10, AcceptanceWrites
  <2> QED BY <1>10, <2>1, <2>2, AcceptanceWrites DEF AcceptCommit, Others, keyVars
<1>11. ASSUME NEW p \in Projects, RemoveCommit(p) PROVE TypeOK'
  <2>1. member' \in [Projects -> [Users -> Memberships]]
    BY <1>11, RemovalWrites
  <2> QED BY <1>11, <2>1 DEF RemoveCommit, Others, keyVars
<1>12. ASSUME NEW p \in Projects, RollBack(p) PROVE TypeOK'
  BY <1>12 DEF RollBack, Others, keyVars
<1>13. ASSUME NEW p \in Projects, CreateProject(p) PROVE TypeOK'
  <2>1. member' \in [Projects -> [Users -> Memberships]]
    BY <1>13, OneRow, Rows DEF CreateProject
  <2> QED BY <1>13, <2>1, Spent DEF CreateProject, Others, keyVars
<1>14. ASSUME NEW p \in Projects, NEW u \in Users, ArchiveProject(u, p) PROVE TypeOK'
  BY <1>14, Spent DEF ArchiveProject, Others, keyVars, memberVars
<1>15. ASSUME NEW p \in Projects, NEW u \in Users, RestoreProject(u, p) PROVE TypeOK'
  BY <1>15 DEF RestoreProject, Others, keyVars, memberVars
<1> QED
  BY <1>1, <1>2, <1>3, <1>4, <1>5, <1>6, <1>7, <1>8, <1>9, <1>10, <1>11, <1>12, <1>13, <1>14,
     <1>15
    DEF Membership, ProjectLife

(* A membership that is not that of the last owner leaves another one.     *)
LEMMA AnotherOwner ==
  ASSUME MembersInv, NEW v \in Views, UpToDate(v), ~LastOwner(v), project[v.project] # "absent"
  PROVE  ActiveOwners(v.project) \ {v.user} # {}
<1>1. ActiveOwners(v.project) # {}
  BY DEF MembersInv, OwnersRemain, Views
<1>2. CASE member[v.project][v.user].role # "owner"
  BY <1>1, <1>2 DEF ActiveOwners
<1>3. CASE ~(Cardinality(ActiveOwners(v.project)) <= 1)
  <2>1. Cardinality({v.user}) = 1
    BY FS_Singleton
  <2>2. ActiveOwners(v.project) # {v.user}
    BY <1>3, <2>1
  <2> QED BY <1>1, <2>2
<1> QED BY <1>2, <1>3 DEF LastOwner

(* A removal stands as long as its transaction and its project do not move. *)
LEMMA RemovalStays ==
  ASSUME MembersInv, TypeOK', NEW q \in Projects, txn[q].kind = "remove", txn'[q] = txn[q],
         \A x \in Users : member'[q][x] = member[q][x]
  PROVE  RemovalStands(q)'
<1>1. RemovalStands(q) /\ txn[q].user \in Users
  BY TxnKinds DEF MembersInv, RemovalHolds, Removals
<1> QED BY <1>1 DEF RemovalStands, UpToDate, IsMember, ActiveOwners

(* Nothing happens to a project before it is created. *)
LEMMA KeepAbsentIsEmpty ==
  ASSUME MembersInv, TypeOK', Membership \/ ProjectLife
  PROVE  AbsentIsEmpty'
<1> USE WorkspaceConstants, TxnKinds
        DEF MembersInv, AbsentIsEmpty, AcceptanceHolds, RemovalHolds, OtherMembershipsHold,
            ViewsAreOld, OwnersRemain, NoStaleDiscovery, TypeOK, Memberships, InvitationRows,
            Views, Acceptances, Removals, NoTxn
<1>1. ASSUME NEW i \in Invitations, AcceptRead(i) PROVE AbsentIsEmpty'
  BY <1>1
    DEF AcceptRead, ProjectFree, NotAccepting, NotRemoving, UpToDate, ActiveOwners, IsMember,
        Others, keyVars
<1>2. ASSUME NEW i \in Invitations, AcceptExpired(i) PROVE AbsentIsEmpty'
  BY <1>2 DEF AcceptExpired, ProjectFree, UpToDate, ActiveOwners, IsMember, Others, keyVars
<1>3. ASSUME NEW i \in Invitations, InvitationLapses(i) PROVE AbsentIsEmpty'
  BY <1>3 DEF InvitationLapses, UpToDate, ActiveOwners, IsMember, memberVars, keyVars
<1>4. ASSUME NEW i \in Invitations, NEW actor \in Users, RevokeInvitation(actor, i)
      PROVE  AbsentIsEmpty'
  BY <1>4 DEF RevokeInvitation, ProjectFree, UpToDate, ActiveOwners, IsMember, Others, keyVars
<1>5. ASSUME NEW i \in Invitations, NEW actor \in Users, NEW u \in Users, NEW p \in Projects,
             NEW role \in Roles, CreateInvitation(actor, i, p, u, role)
      PROVE  AbsentIsEmpty'
  BY <1>5
    DEF CreateInvitation, ProjectFree, UpToDate, ActiveOwners, IsMember, Others, keyVars, Spend,
        PendingFor
<1>6. ASSUME NEW p \in Projects, NEW u \in Users, ViewMember(p, u) PROVE AbsentIsEmpty'
  BY <1>6 DEF ViewMember, UpToDate, ActiveOwners, IsMember, Others, keyVars, Spend
<1>7. ASSUME NEW v \in viewed, RefuseChange(v) PROVE AbsentIsEmpty'
  BY <1>7 DEF RefuseChange, ProjectFree, UpToDate, ActiveOwners, IsMember, Others, keyVars
<1>8. ASSUME NEW v \in viewed, NEW actor \in Users, RemoveRead(actor, v) PROVE AbsentIsEmpty'
  BY <1>8, SMTT(30)
    DEF RemoveRead, ProjectFree, NotAccepting, NotRemovedFrom, WorkspaceMembershipFree, Remaining,
        UpToDate, LastOwner, ActiveOwners, IsMember, Others, keyVars
<1>9. ASSUME NEW v \in viewed, NEW actor \in Users, NEW role \in Roles,
             UpdateMemberPolicy(actor, v, role)
      PROVE  AbsentIsEmpty'
  BY <1>9
    DEF UpdateMemberPolicy, ProjectFree, UpToDate, LastOwner, ActiveOwners, IsMember, Others,
        keyVars
<1>10. ASSUME NEW p \in Projects, AcceptCommit(p) PROVE AbsentIsEmpty'
  <2>1. project[p] # "absent" /\ UNCHANGED <<project, viewed>>
    BY <1>10 DEF AcceptCommit
  <2>2. \A q \in Projects : q # p => txn'[q] = txn[q]
    BY <1>10 DEF AcceptCommit
  <2>3. Writes(p, txn[p].user, AcceptedRow(txn[p], p))
    BY <1>10, AcceptanceWrites
  <2>4. AbsentIsEmpty
    OBVIOUS
  <2> HIDE DEF MembersInv, TypeOK
  <2> QED BY <2>1, <2>2, <2>3, <2>4 DEF AbsentIsEmpty, Writes, IsMember
<1>11. ASSUME NEW p \in Projects, RemoveCommit(p) PROVE AbsentIsEmpty'
  BY <1>11 DEF RemoveCommit, UpToDate, ActiveOwners, IsMember, Others, keyVars
<1>12. ASSUME NEW p \in Projects, RollBack(p) PROVE AbsentIsEmpty'
  BY <1>12 DEF RollBack, UpToDate, ActiveOwners, IsMember, Others, keyVars
<1>13. ASSUME NEW p \in Projects, CreateProject(p) PROVE AbsentIsEmpty'
  BY <1>13 DEF CreateProject, UpToDate, ActiveOwners, IsMember, Others, keyVars, Spend
<1>14. ASSUME NEW p \in Projects, NEW u \in Users, ArchiveProject(u, p) PROVE AbsentIsEmpty'
  BY <1>14
    DEF ArchiveProject, ProjectFree, UpToDate, ActiveOwners, IsMember, Others, memberVars,
        keyVars, Spend
<1>15. ASSUME NEW p \in Projects, NEW u \in Users, RestoreProject(u, p) PROVE AbsentIsEmpty'
  BY <1>15
    DEF RestoreProject, ProjectFree, UpToDate, ActiveOwners, IsMember, Others, memberVars,
        keyVars
<1> QED
  BY <1>1, <1>2, <1>3, <1>4, <1>5, <1>6, <1>7, <1>8, <1>9, <1>10, <1>11, <1>12, <1>13, <1>14,
     <1>15
    DEF Membership, ProjectLife

(* No other transaction on the project comes between the two steps of an   *)
(* acceptance.                                                             *)
LEMMA KeepAcceptanceHolds ==
  ASSUME MembersInv, TypeOK', Membership \/ ProjectLife
  PROVE  AcceptanceHolds'
<1> USE WorkspaceConstants, TxnKinds
        DEF MembersInv, AbsentIsEmpty, AcceptanceHolds, RemovalHolds, OtherMembershipsHold,
            ViewsAreOld, OwnersRemain, NoStaleDiscovery, TypeOK, Memberships, InvitationRows,
            Views, Acceptances, Removals, NoTxn
<1>1. ASSUME NEW i \in Invitations, AcceptRead(i) PROVE AcceptanceHolds'
  BY <1>1
    DEF AcceptRead, ProjectFree, NotAccepting, NotRemoving, UpToDate, ActiveOwners, IsMember,
        Others, keyVars
<1>2. ASSUME NEW i \in Invitations, AcceptExpired(i) PROVE AcceptanceHolds'
  BY <1>2 DEF AcceptExpired, ProjectFree, UpToDate, ActiveOwners, IsMember, Others, keyVars
<1>3. ASSUME NEW i \in Invitations, InvitationLapses(i) PROVE AcceptanceHolds'
  BY <1>3 DEF InvitationLapses, UpToDate, ActiveOwners, IsMember, memberVars, keyVars
<1>4. ASSUME NEW i \in Invitations, NEW actor \in Users, RevokeInvitation(actor, i)
      PROVE  AcceptanceHolds'
  BY <1>4 DEF RevokeInvitation, ProjectFree, UpToDate, ActiveOwners, IsMember, Others, keyVars
<1>5. ASSUME NEW i \in Invitations, NEW actor \in Users, NEW u \in Users, NEW p \in Projects,
             NEW role \in Roles, CreateInvitation(actor, i, p, u, role)
      PROVE  AcceptanceHolds'
  <2>1. ASSUME NEW q \in Projects, txn[q].kind = "accept"
        PROVE  invitation'[txn[q].invitation] = invitation[txn[q].invitation]
    BY <1>5, <2>1 DEF CreateInvitation, ProjectFree, PendingFor
  <2>2. UNCHANGED <<txn, member>>
    BY <1>5 DEF CreateInvitation
  <2> QED BY <2>1, <2>2 DEF IsMember
<1>6. ASSUME NEW p \in Projects, NEW u \in Users, ViewMember(p, u) PROVE AcceptanceHolds'
  BY <1>6 DEF ViewMember, UpToDate, ActiveOwners, IsMember, Others, keyVars, Spend
<1>7. ASSUME NEW v \in viewed, RefuseChange(v) PROVE AcceptanceHolds'
  BY <1>7 DEF RefuseChange, ProjectFree, UpToDate, ActiveOwners, IsMember, Others, keyVars
<1>8. ASSUME NEW v \in viewed, NEW actor \in Users, RemoveRead(actor, v) PROVE AcceptanceHolds'
  <2>1. \A q \in Projects : txn'[q].kind = "accept" => txn'[q] = txn[q]
    BY <1>8 DEF RemoveRead
  <2> QED BY <1>8, <2>1 DEF RemoveRead, IsMember
<1>9. ASSUME NEW v \in viewed, NEW actor \in Users, NEW role \in Roles,
             UpdateMemberPolicy(actor, v, role)
      PROVE  AcceptanceHolds'
  BY <1>9
    DEF UpdateMemberPolicy, ProjectFree, UpToDate, LastOwner, ActiveOwners, IsMember, Others,
        keyVars
<1>10. ASSUME NEW p \in Projects, AcceptCommit(p) PROVE AcceptanceHolds'
  <2>1. \A q \in Projects : txn'[q].kind = "accept" => q # p /\ txn'[q] = txn[q]
    BY <1>10 DEF AcceptCommit
  <2>2. txn[p].invitation \in Invitations /\ invitation[txn[p].invitation].project = p
    BY <1>10, AcceptanceWrites DEF AcceptCommit
  <2>3. \A i \in Invitations : i # txn[p].invitation => invitation'[i] = invitation[i]
    BY <1>10, <2>2 DEF AcceptCommit, Used
  <2>4. \A q \in Projects, u \in Users : q # p => member'[q][u] = member[q][u]
    <3>1. Writes(p, txn[p].user, AcceptedRow(txn[p], p))
      BY <1>10, AcceptanceWrites
    <3> HIDE DEF MembersInv, TypeOK
    <3> QED BY <3>1 DEF Writes
  <2>5. \A q \in Projects : txn[q].kind = "accept" =>
          txn[q].user \in Users /\ txn[q].invitation \in Invitations
    BY DEF TypeOK, Acceptances
  <2>6. ASSUME NEW q \in Projects, txn[q].kind = "accept"
        PROVE  invitation[txn[q].invitation].project = q
    <3>1. AcceptanceHolds
      OBVIOUS
    <3> HIDE DEF MembersInv, TypeOK
    <3> QED BY <2>6, <3>1 DEF AcceptanceHolds
  <2>7. AcceptanceHolds
    OBVIOUS
  <2> HIDE DEF MembersInv, TypeOK, AbsentIsEmpty, RemovalHolds, OtherMembershipsHold,
               ViewsAreOld, OwnersRemain, NoStaleDiscovery, AcceptanceHolds
  <2>8. ASSUME NEW q \in Projects, txn'[q].kind = "accept"
        PROVE  /\ txn'[q] = txn[q]
               /\ invitation'[txn[q].invitation] = invitation[txn[q].invitation]
               /\ member'[q][txn[q].user] = member[q][txn[q].user]
    <3>1. q # p /\ txn'[q] = txn[q] /\ txn[q].kind = "accept"
      BY <2>1, <2>8
    <3>2. txn[q].invitation # txn[p].invitation
      BY <3>1, <2>2, <2>6
    <3> QED BY <3>1, <3>2, <2>3, <2>4, <2>5
  <2> QED BY <2>7, <2>8 DEF IsMember, AcceptanceHolds
<1>11. ASSUME NEW p \in Projects, RemoveCommit(p) PROVE AcceptanceHolds'
  BY <1>11 DEF RemoveCommit, UpToDate, ActiveOwners, IsMember, Others, keyVars
<1>12. ASSUME NEW p \in Projects, RollBack(p) PROVE AcceptanceHolds'
  BY <1>12 DEF RollBack, UpToDate, ActiveOwners, IsMember, Others, keyVars
<1>13. ASSUME NEW p \in Projects, CreateProject(p) PROVE AcceptanceHolds'
  BY <1>13 DEF CreateProject, UpToDate, ActiveOwners, IsMember, Others, keyVars, Spend
<1>14. ASSUME NEW p \in Projects, NEW u \in Users, ArchiveProject(u, p) PROVE AcceptanceHolds'
  BY <1>14
    DEF ArchiveProject, ProjectFree, UpToDate, ActiveOwners, IsMember, Others, memberVars,
        keyVars, Spend
<1>15. ASSUME NEW p \in Projects, NEW u \in Users, RestoreProject(u, p) PROVE AcceptanceHolds'
  BY <1>15
    DEF RestoreProject, ProjectFree, UpToDate, ActiveOwners, IsMember, Others, memberVars,
        keyVars
<1> QED
  BY <1>1, <1>2, <1>3, <1>4, <1>5, <1>6, <1>7, <1>8, <1>9, <1>10, <1>11, <1>12, <1>13, <1>14,
     <1>15
    DEF Membership, ProjectLife

(* Nor between the two steps of a removal, so that the other owner it saw  *)
(* is still there.                                                         *)
LEMMA KeepRemovalHolds ==
  ASSUME MembersInv, TypeOK', Membership \/ ProjectLife
  PROVE  RemovalHolds'
<1> USE WorkspaceConstants, TxnKinds
        DEF MembersInv, AbsentIsEmpty, AcceptanceHolds, RemovalHolds, OtherMembershipsHold,
            ViewsAreOld, OwnersRemain, NoStaleDiscovery, TypeOK, Memberships, InvitationRows,
            Views, Acceptances, Removals, NoTxn
<1>1. ASSUME NEW i \in Invitations, AcceptRead(i) PROVE RemovalHolds'
  <2>1. \A q \in Projects : txn'[q].kind = "remove" => txn'[q] = txn[q]
    BY <1>1 DEF AcceptRead
  <2> QED BY <1>1, <2>1, RemovalStays DEF AcceptRead
<1>2. ASSUME NEW i \in Invitations, AcceptExpired(i) PROVE RemovalHolds'
  BY <1>2, RemovalStays DEF AcceptExpired
<1>3. ASSUME NEW i \in Invitations, InvitationLapses(i) PROVE RemovalHolds'
  BY <1>3, RemovalStays DEF InvitationLapses, memberVars
<1>4. ASSUME NEW i \in Invitations, NEW actor \in Users, RevokeInvitation(actor, i)
      PROVE  RemovalHolds'
  BY <1>4, RemovalStays DEF RevokeInvitation
<1>5. ASSUME NEW i \in Invitations, NEW actor \in Users, NEW u \in Users, NEW p \in Projects,
             NEW role \in Roles, CreateInvitation(actor, i, p, u, role)
      PROVE  RemovalHolds'
  BY <1>5, RemovalStays DEF CreateInvitation
<1>6. ASSUME NEW p \in Projects, NEW u \in Users, ViewMember(p, u) PROVE RemovalHolds'
  BY <1>6, RemovalStays DEF ViewMember
<1>7. ASSUME NEW v \in viewed, RefuseChange(v) PROVE RemovalHolds'
  BY <1>7, RemovalStays DEF RefuseChange
<1>8. ASSUME NEW v \in viewed, NEW actor \in Users, RemoveRead(actor, v) PROVE RemovalHolds'
  <2>1. v.project \in Projects /\ v.user \in Users /\ UpToDate(v) /\ UNCHANGED member
    BY <1>8 DEF RemoveRead
  <2>2. ActiveOwners(v.project) \ {v.user} # {}
    BY <1>8, <2>1, AnotherOwner DEF RemoveRead, ProjectFree
  <2>3. \A q \in Projects \ {v.project} : txn'[q] = txn[q]
    BY <1>8 DEF RemoveRead
  <2>4. txn'[v.project].user = v.user /\ txn'[v.project].view = v
    BY <1>8, <2>1 DEF RemoveRead
  <2>5. RemovalStands(v.project)'
    BY <2>1, <2>2, <2>4 DEF RemovalStands, UpToDate, IsMember, ActiveOwners
  <2>6. \A q \in Projects \ {v.project} : txn'[q].kind = "remove" => RemovalStands(q)'
    BY <2>1, <2>3, RemovalStays
  <2> QED BY <2>5, <2>6
<1>9. ASSUME NEW v \in viewed, NEW actor \in Users, NEW role \in Roles,
             UpdateMemberPolicy(actor, v, role)
      PROVE  RemovalHolds'
  <2>1. ASSUME NEW q \in Projects, txn'[q].kind = "remove"
        PROVE  txn'[q] = txn[q] /\ \A x \in Users : member'[q][x] = member[q][x]
    <3>1. UNCHANGED txn /\ txn[v.project] = NoTxn
      BY <1>9 DEF UpdateMemberPolicy, ProjectFree
    <3>2. q # v.project
      BY <2>1, <3>1
    <3>3. \A x \in Users : member'[q][x] = member[q][x]
      <4>1. Writes(v.project, v.user, PolicyRow(v, role))
        BY <1>9, PolicyWrites
      <4> HIDE DEF MembersInv, TypeOK
      <4> QED BY <3>2, <4>1 DEF Writes
    <3> QED BY <3>1, <3>3
  <2> QED BY <2>1, RemovalStays
<1>10. ASSUME NEW p \in Projects, AcceptCommit(p) PROVE RemovalHolds'
  <2>1. Writes(p, txn[p].user, AcceptedRow(txn[p], p))
    BY <1>10, AcceptanceWrites
  <2>2. \A q \in Projects : txn'[q].kind = "remove" => q # p /\ txn'[q] = txn[q]
    BY <1>10 DEF AcceptCommit
  <2>3. \A q \in Projects, x \in Users : q # p => member'[q][x] = member[q][x]
    BY <2>1 DEF Writes
  <2> SUFFICES ASSUME NEW q \in Projects, txn'[q].kind = "remove" PROVE RemovalStands(q)'
    BY DEF RemovalHolds
  <2>4. q # p /\ txn[q].kind = "remove" /\ txn'[q] = txn[q]
    BY <2>2
  <2>5. \A x \in Users : member'[q][x] = member[q][x]
    BY <2>3, <2>4
  <2> QED BY <2>4, <2>5, RemovalStays
<1>11. ASSUME NEW p \in Projects, RemoveCommit(p) PROVE RemovalHolds'
  <2>1. ASSUME NEW q \in Projects, txn'[q].kind = "remove"
        PROVE  txn'[q] = txn[q] /\ \A x \in Users : member'[q][x] = member[q][x]
    BY <1>11, <2>1, RemovalWrites DEF RemoveCommit, Writes
  <2> QED BY <2>1, RemovalStays
<1>12. ASSUME NEW p \in Projects, RollBack(p) PROVE RemovalHolds'
  BY <1>12, RemovalStays DEF RollBack
<1>13. ASSUME NEW p \in Projects, CreateProject(p) PROVE RemovalHolds'
  <2>1. \A q \in Projects : q # p => \A x \in Users : member'[q][x] = member[q][x]
    BY <1>13 DEF CreateProject
  <2>2. txn[p].kind # "remove" /\ UNCHANGED txn
    BY <1>13 DEF CreateProject
  <2> QED BY <2>1, <2>2, RemovalStays
<1>14. ASSUME NEW p \in Projects, NEW u \in Users, ArchiveProject(u, p) PROVE RemovalHolds'
  BY <1>14, RemovalStays DEF ArchiveProject, memberVars
<1>15. ASSUME NEW p \in Projects, NEW u \in Users, RestoreProject(u, p) PROVE RemovalHolds'
  BY <1>15, RemovalStays DEF RestoreProject, memberVars
<1> QED
  BY <1>1, <1>2, <1>3, <1>4, <1>5, <1>6, <1>7, <1>8, <1>9, <1>10, <1>11, <1>12, <1>13, <1>14,
     <1>15
    DEF Membership, ProjectLife

(* The lock of the workspace membership keeps a second removal of the user *)
(* from starting, and nothing else takes a membership away.                *)
LEMMA KeepOtherMembershipsHold ==
  ASSUME MembersInv, TypeOK', Membership \/ ProjectLife
  PROVE  OtherMembershipsHold'
<1> USE WorkspaceConstants DEF MembersInv, OtherMembershipsHold, NoTxn
<1>1. ASSUME NEW i \in Invitations, AcceptRead(i) PROVE OtherMembershipsHold'
  BY <1>1
    DEF AcceptRead, ProjectFree, NotAccepting, NotRemoving, UpToDate, ActiveOwners, IsMember,
        Others, keyVars
<1>2. ASSUME NEW i \in Invitations, AcceptExpired(i) PROVE OtherMembershipsHold'
  BY <1>2 DEF AcceptExpired, ProjectFree, UpToDate, ActiveOwners, IsMember, Others, keyVars
<1>3. ASSUME NEW i \in Invitations, InvitationLapses(i) PROVE OtherMembershipsHold'
  BY <1>3 DEF InvitationLapses, UpToDate, ActiveOwners, IsMember, memberVars, keyVars
<1>4. ASSUME NEW i \in Invitations, NEW actor \in Users, RevokeInvitation(actor, i)
      PROVE  OtherMembershipsHold'
  BY <1>4 DEF RevokeInvitation, ProjectFree, UpToDate, ActiveOwners, IsMember, Others, keyVars
<1>5. ASSUME NEW i \in Invitations, NEW actor \in Users, NEW u \in Users, NEW p \in Projects,
             NEW role \in Roles, CreateInvitation(actor, i, p, u, role)
      PROVE  OtherMembershipsHold'
  BY <1>5
    DEF CreateInvitation, ProjectFree, UpToDate, ActiveOwners, IsMember, Others, keyVars, Spend,
        PendingFor
<1>6. ASSUME NEW p \in Projects, NEW u \in Users, ViewMember(p, u) PROVE OtherMembershipsHold'
  BY <1>6 DEF ViewMember, UpToDate, ActiveOwners, IsMember, Others, keyVars, Spend
<1>7. ASSUME NEW v \in viewed, RefuseChange(v) PROVE OtherMembershipsHold'
  BY <1>7 DEF RefuseChange, ProjectFree, UpToDate, ActiveOwners, IsMember, Others, keyVars
<1>8. ASSUME NEW v \in viewed, NEW actor \in Users, RemoveRead(actor, v)
      PROVE  OtherMembershipsHold'
  <2>1. v.project \in Projects /\ v.user \in Users /\ UNCHANGED member
    BY <1>8 DEF RemoveRead, TypeOK, Views
  <2>2. \A q \in Projects : q # v.project => txn'[q] = txn[q]
    BY <1>8 DEF RemoveRead
  <2>3. \A q \in Projects : txn[q].kind = "remove" => txn[q].user # v.user
    BY <1>8 DEF RemoveRead, WorkspaceMembershipFree, NotRemovedFrom
  <2>4. txn'[v.project].user = v.user /\ (~txn'[v.project].last => Remaining(v) # {})
    BY <1>8, <2>1 DEF RemoveRead, TypeOK
  <2>5. ASSUME NEW q \in Projects, txn'[q].kind = "remove", ~txn'[q].last
        PROVE  \E r \in Projects \ {q} : member'[r][txn'[q].user].status = "active"
    <3>1. CASE q = v.project
      BY <2>1, <2>4, <2>5, <3>1 DEF Remaining, IsMember
    <3>2. CASE q # v.project
      BY <2>1, <2>2, <2>5, <3>2 DEF IsMember
    <3> QED BY <3>1, <3>2
  <2>6. ASSUME NEW q \in Projects, NEW r \in Projects, txn'[q].kind = "remove",
               txn'[r].kind = "remove", txn'[r].user = txn'[q].user
        PROVE  r = q
    BY <2>2, <2>3, <2>4, <2>6
  <2> QED BY <2>5, <2>6 DEF IsMember
<1>9. ASSUME NEW v \in viewed, NEW actor \in Users, NEW role \in Roles,
             UpdateMemberPolicy(actor, v, role)
      PROVE  OtherMembershipsHold'
  BY <1>9
    DEF UpdateMemberPolicy, ProjectFree, UpToDate, LastOwner, ActiveOwners, IsMember, Others,
        keyVars
<1>10. ASSUME NEW p \in Projects, AcceptCommit(p) PROVE OtherMembershipsHold'
  BY <1>10
    DEF AcceptCommit, Admitted, Used, NotRemovedFrom, UpToDate, ActiveOwners, IsMember, Others,
        keyVars
<1>11. ASSUME NEW p \in Projects, RemoveCommit(p) PROVE OtherMembershipsHold'
  <2>0. Writes(p, txn[p].user, RemovedRow(txn[p], p))
    BY <1>11, RemovalWrites
  <2>1. \A q \in Projects : txn'[q].kind = "remove" =>
          q # p /\ txn'[q] = txn[q] /\ txn[q].user # txn[p].user /\ txn[q].user \in Users
    BY <1>11, TxnKinds DEF RemoveCommit, TypeOK, Removals
  <2>2. \A q, r \in Projects : txn'[q].kind = "remove" =>
          member'[r][txn[q].user] = member[r][txn[q].user]
    BY <2>0, <2>1 DEF Writes
  <2> QED BY <2>1, <2>2 DEF IsMember
<1>12. ASSUME NEW p \in Projects, RollBack(p) PROVE OtherMembershipsHold'
  BY <1>12 DEF RollBack, UpToDate, ActiveOwners, IsMember, Others, keyVars
<1>13. ASSUME NEW p \in Projects, CreateProject(p) PROVE OtherMembershipsHold'
  BY <1>13 DEF CreateProject, UpToDate, ActiveOwners, IsMember, Others, keyVars, Spend
<1>14. ASSUME NEW p \in Projects, NEW u \in Users, ArchiveProject(u, p)
       PROVE  OtherMembershipsHold'
  BY <1>14
    DEF ArchiveProject, ProjectFree, UpToDate, ActiveOwners, IsMember, Others, memberVars,
        keyVars, Spend
<1>15. ASSUME NEW p \in Projects, NEW u \in Users, RestoreProject(u, p)
       PROVE  OtherMembershipsHold'
  BY <1>15
    DEF RestoreProject, ProjectFree, UpToDate, ActiveOwners, IsMember, Others, memberVars,
        keyVars
<1> QED
  BY <1>1, <1>2, <1>3, <1>4, <1>5, <1>6, <1>7, <1>8, <1>9, <1>10, <1>11, <1>12, <1>13, <1>14,
     <1>15
    DEF Membership, ProjectLife

(* A row that changes gets a version that no screen has shown. *)
LEMMA KeepViewsAreOld ==
  ASSUME MembersInv, TypeOK', Membership \/ ProjectLife
  PROVE  ViewsAreOld'
<1> USE WorkspaceConstants DEF MembersInv, AbsentIsEmpty, ViewsAreOld
<1>1. ASSUME NEW i \in Invitations, AcceptRead(i) PROVE ViewsAreOld'
  BY <1>1
    DEF AcceptRead, ProjectFree, NotAccepting, NotRemoving, UpToDate, ActiveOwners, IsMember,
        Others, keyVars
<1>2. ASSUME NEW i \in Invitations, AcceptExpired(i) PROVE ViewsAreOld'
  BY <1>2 DEF AcceptExpired, ProjectFree, UpToDate, ActiveOwners, IsMember, Others, keyVars
<1>3. ASSUME NEW i \in Invitations, InvitationLapses(i) PROVE ViewsAreOld'
  BY <1>3 DEF InvitationLapses, UpToDate, ActiveOwners, IsMember, memberVars, keyVars
<1>4. ASSUME NEW i \in Invitations, NEW actor \in Users, RevokeInvitation(actor, i)
      PROVE  ViewsAreOld'
  BY <1>4 DEF RevokeInvitation, ProjectFree, UpToDate, ActiveOwners, IsMember, Others, keyVars
<1>5. ASSUME NEW i \in Invitations, NEW actor \in Users, NEW u \in Users, NEW p \in Projects,
             NEW role \in Roles, CreateInvitation(actor, i, p, u, role)
      PROVE  ViewsAreOld'
  BY <1>5
    DEF CreateInvitation, ProjectFree, UpToDate, ActiveOwners, IsMember, Others, keyVars, Spend,
        PendingFor
<1>6. ASSUME NEW p \in Projects, NEW u \in Users, ViewMember(p, u) PROVE ViewsAreOld'
  <2> DEFINE w == [project |-> p, user |-> u, role |-> member[p][u].role,
                   version |-> member[p][u].version]
  <2>1. UNCHANGED member /\ viewed' = viewed \cup {w}
    BY <1>6 DEF ViewMember
  <2>2. w.version <= member[w.project][w.user].version
    BY DEF TypeOK, Memberships
  <2> QED BY <2>1, <2>2 DEF UpToDate, IsMember
<1>7. ASSUME NEW v \in viewed, RefuseChange(v) PROVE ViewsAreOld'
  BY <1>7 DEF RefuseChange, ProjectFree, UpToDate, ActiveOwners, IsMember, Others, keyVars
<1>8. ASSUME NEW v \in viewed, NEW actor \in Users, RemoveRead(actor, v) PROVE ViewsAreOld'
  BY <1>8
    DEF RemoveRead, ProjectFree, NotAccepting, NotRemovedFrom, WorkspaceMembershipFree, Remaining,
        UpToDate, LastOwner, ActiveOwners, IsMember, Others, keyVars
<1>9. ASSUME NEW v \in viewed, NEW actor \in Users, NEW role \in Roles,
             UpdateMemberPolicy(actor, v, role)
      PROVE  ViewsAreOld'
  <2>1. viewed' \subseteq viewed /\ PolicyRow(v, role).version = member[v.project][v.user].version + 1
    BY <1>9 DEF UpdateMemberPolicy, PolicyRow
  <2>2. Writes(v.project, v.user, PolicyRow(v, role))
    BY <1>9, PolicyWrites
  <2>3. v.project \in Projects /\ v.user \in Users
    BY <2>2 DEF Writes
  <2> QED BY <2>1, <2>2, <2>3, VersionsGrow
<1>10. ASSUME NEW p \in Projects, AcceptCommit(p) PROVE ViewsAreOld'
  <2>1. /\ viewed' = viewed
        /\ AcceptedRow(txn[p], p).version = member[p][txn[p].user].version + 1
    BY <1>10 DEF AcceptCommit, AcceptedRow
  <2> QED BY <1>10, <2>1, AcceptanceWrites, VersionsGrow
<1>11. ASSUME NEW p \in Projects, RemoveCommit(p) PROVE ViewsAreOld'
  <2>1. /\ viewed' = viewed
        /\ RemovedRow(txn[p], p).version = member[p][txn[p].user].version + 1
    BY <1>11 DEF RemoveCommit, RemovedRow
  <2> QED BY <1>11, <2>1, RemovalWrites, VersionsGrow
<1>12. ASSUME NEW p \in Projects, RollBack(p) PROVE ViewsAreOld'
  BY <1>12 DEF RollBack, UpToDate, ActiveOwners, IsMember, Others, keyVars
<1>13. ASSUME NEW p \in Projects, CreateProject(p) PROVE ViewsAreOld'
  BY <1>13 DEF CreateProject, UpToDate, ActiveOwners, IsMember, Others, keyVars, Spend
<1>14. ASSUME NEW p \in Projects, NEW u \in Users, ArchiveProject(u, p) PROVE ViewsAreOld'
  BY <1>14
    DEF ArchiveProject, ProjectFree, UpToDate, ActiveOwners, IsMember, Others, memberVars,
        keyVars, Spend
<1>15. ASSUME NEW p \in Projects, NEW u \in Users, RestoreProject(u, p) PROVE ViewsAreOld'
  BY <1>15
    DEF RestoreProject, ProjectFree, UpToDate, ActiveOwners, IsMember, Others, memberVars,
        keyVars
<1> QED
  BY <1>1, <1>2, <1>3, <1>4, <1>5, <1>6, <1>7, <1>8, <1>9, <1>10, <1>11, <1>12, <1>13, <1>14,
     <1>15
    DEF Membership, ProjectLife

(* The last owner is neither removed nor demoted. *)
LEMMA KeepOwnersRemain ==
  ASSUME MembersInv, TypeOK', Membership \/ ProjectLife
  PROVE  OwnersRemain'
<1> USE WorkspaceConstants DEF MembersInv, OwnersRemain
<1>1. ASSUME NEW i \in Invitations, AcceptRead(i) PROVE OwnersRemain'
  BY <1>1
    DEF AcceptRead, ProjectFree, NotAccepting, NotRemoving, UpToDate, ActiveOwners, IsMember,
        Others, keyVars
<1>2. ASSUME NEW i \in Invitations, AcceptExpired(i) PROVE OwnersRemain'
  BY <1>2 DEF AcceptExpired, ProjectFree, UpToDate, ActiveOwners, IsMember, Others, keyVars
<1>3. ASSUME NEW i \in Invitations, InvitationLapses(i) PROVE OwnersRemain'
  BY <1>3 DEF InvitationLapses, UpToDate, ActiveOwners, IsMember, memberVars, keyVars
<1>4. ASSUME NEW i \in Invitations, NEW actor \in Users, RevokeInvitation(actor, i)
      PROVE  OwnersRemain'
  BY <1>4 DEF RevokeInvitation, ProjectFree, UpToDate, ActiveOwners, IsMember, Others, keyVars
<1>5. ASSUME NEW i \in Invitations, NEW actor \in Users, NEW u \in Users, NEW p \in Projects,
             NEW role \in Roles, CreateInvitation(actor, i, p, u, role)
      PROVE  OwnersRemain'
  BY <1>5
    DEF CreateInvitation, ProjectFree, UpToDate, ActiveOwners, IsMember, Others, keyVars, Spend,
        PendingFor
<1>6. ASSUME NEW p \in Projects, NEW u \in Users, ViewMember(p, u) PROVE OwnersRemain'
  BY <1>6 DEF ViewMember, UpToDate, ActiveOwners, IsMember, Others, keyVars, Spend
<1>7. ASSUME NEW v \in viewed, RefuseChange(v) PROVE OwnersRemain'
  BY <1>7 DEF RefuseChange, ProjectFree, UpToDate, ActiveOwners, IsMember, Others, keyVars
<1>8. ASSUME NEW v \in viewed, NEW actor \in Users, RemoveRead(actor, v) PROVE OwnersRemain'
  BY <1>8
    DEF RemoveRead, ProjectFree, NotAccepting, NotRemovedFrom, WorkspaceMembershipFree, Remaining,
        UpToDate, LastOwner, ActiveOwners, IsMember, Others, keyVars
<1>9. ASSUME NEW v \in viewed, NEW actor \in Users, NEW role \in Roles,
             UpdateMemberPolicy(actor, v, role)
      PROVE  OwnersRemain'
  <2>0. Writes(v.project, v.user, PolicyRow(v, role))
    BY <1>9, PolicyWrites
  <2>1. UpToDate(v) /\ UNCHANGED project /\ project[v.project] # "absent"
    BY <1>9 DEF UpdateMemberPolicy, ProjectFree
  <2>2. \A q \in Projects : q # v.project => ActiveOwners(q)' = ActiveOwners(q)
    BY <2>0, OwnersElsewhere
  <2>3. ActiveOwners(v.project)' # {}
    <3>1. CASE role = "owner"
      BY <2>0, <2>1, <3>1 DEF Writes, PolicyRow, ActiveOwners, IsMember, UpToDate
    <3>2. CASE role # "owner"
      <4>1. ActiveOwners(v.project) \ {v.user} # {}
        BY <1>9, <2>1, <3>2, AnotherOwner DEF UpdateMemberPolicy, TypeOK
      <4> QED BY <2>0, <4>1 DEF Writes, ActiveOwners, IsMember
    <3> QED BY <3>1, <3>2
  <2> QED BY <2>0, <2>1, <2>2, <2>3
<1>10. ASSUME NEW p \in Projects, AcceptCommit(p) PROVE OwnersRemain'
  <2>0. Writes(p, txn[p].user, AcceptedRow(txn[p], p))
    BY <1>10, AcceptanceWrites
  <2>1. ~IsMember(txn[p].user, p) /\ UNCHANGED project
    BY <1>10 DEF AcceptCommit, AcceptanceHolds
  <2>2. \A q \in Projects : q # p => ActiveOwners(q)' = ActiveOwners(q)
    BY <2>0, OwnersElsewhere
  <2>3. ActiveOwners(p) \subseteq ActiveOwners(p)'
    BY <2>0, <2>1 DEF Writes, ActiveOwners, IsMember
  <2> QED BY <2>1, <2>2, <2>3
<1>11. ASSUME NEW p \in Projects, RemoveCommit(p) PROVE OwnersRemain'
  <2>0. Writes(p, txn[p].user, RemovedRow(txn[p], p))
    BY <1>11, RemovalWrites
  <2>1. ActiveOwners(p) \ {txn[p].user} # {} /\ UNCHANGED project
    BY <1>11 DEF RemoveCommit, RemovalHolds, RemovalStands
  <2>2. \A q \in Projects : q # p => ActiveOwners(q)' = ActiveOwners(q)
    BY <2>0, OwnersElsewhere
  <2>3. ActiveOwners(p)' # {}
    BY <2>0, <2>1 DEF Writes, ActiveOwners, IsMember
  <2> QED BY <2>1, <2>2, <2>3
<1>12. ASSUME NEW p \in Projects, RollBack(p) PROVE OwnersRemain'
  BY <1>12 DEF RollBack, UpToDate, ActiveOwners, IsMember, Others, keyVars
<1>13. ASSUME NEW p \in Projects, CreateProject(p) PROVE OwnersRemain'
  <2> DEFINE row == [status |-> "active", role |-> "owner", version |-> 1]
  <2>1. member' = [member EXCEPT ![p][Owner] = row] /\ project' = [project EXCEPT ![p] = "active"]
    BY <1>13 DEF CreateProject
  <2>2. row \in Memberships
    BY Rows
  <2>3. Writes(p, Owner, row)
    BY <2>1, <2>2, OneRow
  <2>4. \A q \in Projects : q # p => ActiveOwners(q)' = ActiveOwners(q) /\ project'[q] = project[q]
    BY <2>1, <2>3, OwnersElsewhere DEF TypeOK
  <2>5. ActiveOwners(p)' # {}
    BY <2>3 DEF Writes, ActiveOwners, IsMember
  <2> QED BY <2>4, <2>5
<1>14. ASSUME NEW p \in Projects, NEW u \in Users, ArchiveProject(u, p) PROVE OwnersRemain'
  BY <1>14
    DEF ArchiveProject, ProjectFree, UpToDate, ActiveOwners, IsMember, Others, memberVars,
        keyVars, Spend
<1>15. ASSUME NEW p \in Projects, NEW u \in Users, RestoreProject(u, p) PROVE OwnersRemain'
  BY <1>15
    DEF RestoreProject, ProjectFree, UpToDate, ActiveOwners, IsMember, Others, memberVars,
        keyVars
<1> QED
  BY <1>1, <1>2, <1>3, <1>4, <1>5, <1>6, <1>7, <1>8, <1>9, <1>10, <1>11, <1>12, <1>13, <1>14,
     <1>15
    DEF Membership, ProjectLife

(* The removal that takes the last membership takes the workspace one too. *)
LEMMA KeepNoStaleDiscovery ==
  ASSUME MembersInv, TypeOK', Membership \/ ProjectLife
  PROVE  NoStaleDiscovery'
<1> USE WorkspaceConstants, TxnKinds
        DEF MembersInv, AbsentIsEmpty, AcceptanceHolds, RemovalHolds, OtherMembershipsHold,
            ViewsAreOld, OwnersRemain, NoStaleDiscovery, TypeOK, Memberships, InvitationRows,
            Views, Acceptances, Removals, NoTxn
<1>1. ASSUME NEW i \in Invitations, AcceptRead(i) PROVE NoStaleDiscovery'
  BY <1>1
    DEF AcceptRead, ProjectFree, NotAccepting, NotRemoving, UpToDate, ActiveOwners, IsMember,
        Others, keyVars
<1>2. ASSUME NEW i \in Invitations, AcceptExpired(i) PROVE NoStaleDiscovery'
  BY <1>2 DEF AcceptExpired, ProjectFree, UpToDate, ActiveOwners, IsMember, Others, keyVars
<1>3. ASSUME NEW i \in Invitations, InvitationLapses(i) PROVE NoStaleDiscovery'
  BY <1>3 DEF InvitationLapses, UpToDate, ActiveOwners, IsMember, memberVars, keyVars
<1>4. ASSUME NEW i \in Invitations, NEW actor \in Users, RevokeInvitation(actor, i)
      PROVE  NoStaleDiscovery'
  BY <1>4 DEF RevokeInvitation, ProjectFree, UpToDate, ActiveOwners, IsMember, Others, keyVars
<1>5. ASSUME NEW i \in Invitations, NEW actor \in Users, NEW u \in Users, NEW p \in Projects,
             NEW role \in Roles, CreateInvitation(actor, i, p, u, role)
      PROVE  NoStaleDiscovery'
  BY <1>5
    DEF CreateInvitation, ProjectFree, UpToDate, ActiveOwners, IsMember, Others, keyVars, Spend,
        PendingFor
<1>6. ASSUME NEW p \in Projects, NEW u \in Users, ViewMember(p, u) PROVE NoStaleDiscovery'
  BY <1>6 DEF ViewMember, UpToDate, ActiveOwners, IsMember, Others, keyVars, Spend
<1>7. ASSUME NEW v \in viewed, RefuseChange(v) PROVE NoStaleDiscovery'
  BY <1>7 DEF RefuseChange, ProjectFree, UpToDate, ActiveOwners, IsMember, Others, keyVars
<1>8. ASSUME NEW v \in viewed, NEW actor \in Users, RemoveRead(actor, v) PROVE NoStaleDiscovery'
  BY <1>8, SMTT(30)
    DEF RemoveRead, ProjectFree, NotAccepting, NotRemovedFrom, WorkspaceMembershipFree, Remaining,
        UpToDate, LastOwner, ActiveOwners, IsMember, Others, keyVars
<1>9. ASSUME NEW v \in viewed, NEW actor \in Users, NEW role \in Roles,
             UpdateMemberPolicy(actor, v, role)
      PROVE  NoStaleDiscovery'
  BY <1>9
    DEF UpdateMemberPolicy, ProjectFree, UpToDate, LastOwner, ActiveOwners, IsMember, Others,
        keyVars
<1>10. ASSUME NEW p \in Projects, AcceptCommit(p) PROVE NoStaleDiscovery'
  BY <1>10
    DEF AcceptCommit, Admitted, Used, NotRemovedFrom, UpToDate, ActiveOwners, IsMember, Others,
        keyVars
<1>11. ASSUME NEW p \in Projects, RemoveCommit(p) PROVE NoStaleDiscovery'
  BY <1>11 DEF RemoveCommit, UpToDate, ActiveOwners, IsMember, Others, keyVars
<1>12. ASSUME NEW p \in Projects, RollBack(p) PROVE NoStaleDiscovery'
  BY <1>12 DEF RollBack, UpToDate, ActiveOwners, IsMember, Others, keyVars
<1>13. ASSUME NEW p \in Projects, CreateProject(p) PROVE NoStaleDiscovery'
  BY <1>13 DEF CreateProject, UpToDate, ActiveOwners, IsMember, Others, keyVars, Spend
<1>14. ASSUME NEW p \in Projects, NEW u \in Users, ArchiveProject(u, p) PROVE NoStaleDiscovery'
  BY <1>14
    DEF ArchiveProject, ProjectFree, UpToDate, ActiveOwners, IsMember, Others, memberVars,
        keyVars, Spend
<1>15. ASSUME NEW p \in Projects, NEW u \in Users, RestoreProject(u, p) PROVE NoStaleDiscovery'
  BY <1>15
    DEF RestoreProject, ProjectFree, UpToDate, ActiveOwners, IsMember, Others, memberVars,
        keyVars
<1> QED
  BY <1>1, <1>2, <1>3, <1>4, <1>5, <1>6, <1>7, <1>8, <1>9, <1>10, <1>11, <1>12, <1>13, <1>14,
     <1>15
    DEF Membership, ProjectLife

(* The membership invariant depends on no key. *)
LEMMA KeysLeaveMembers ==
  ASSUME MembersInv, TypeOK', UNCHANGED <<project, memberVars>>
  PROVE  MembersInv'
<1> USE DEF MembersInv, memberVars
<1>1. AbsentIsEmpty' /\ AcceptanceHolds'
  BY DEF AbsentIsEmpty, AcceptanceHolds, IsMember
<1>2. RemovalHolds'
  BY DEF RemovalHolds, RemovalStands, UpToDate, IsMember, ActiveOwners
<1>3. OtherMembershipsHold' /\ ViewsAreOld'
  BY DEF OtherMembershipsHold, ViewsAreOld, UpToDate, IsMember
<1>4. OwnersRemain' /\ NoStaleDiscovery'
  BY DEF OwnersRemain, NoStaleDiscovery, IsMember, ActiveOwners
<1> QED BY <1>1, <1>2, <1>3, <1>4

-----------------------------------------------------------------------------
(* Credentials *)

(* Every transaction on keys keeps the types and leaves members alone. *)
LEMMA KeysKeepTypes ==
  ASSUME TypeOK, Credentials
  PROVE  TypeOK' /\ UNCHANGED <<project, memberVars>>
<1> USE WorkspaceConstants DEF TypeOK, KeyStatuses, RotationStatuses
<1> SUFFICES ASSUME NEW u \in Users, NEW k \in Keys,
        \/ \E p \in Projects : IssueCredential(u, p, k)
        \/ \E s \in Keys : StartRotation(u, k, s) \/ RevokeSides(u, k, s)
        \/ ActivateRotation(u, k) \/ CancelRotation(u, k) \/ CompleteRotation(u, k)
        \/ RevokeKey(u, k)
        \/ KeyLapses(k)
      PROVE  TypeOK' /\ UNCHANGED <<project, memberVars>>
  BY DEF Credentials
<1>1. ASSUME NEW p \in Projects, IssueCredential(u, p, k)
      PROVE  TypeOK' /\ UNCHANGED <<project, memberVars>>
  BY <1>1, Spent DEF IssueCredential, OpenRotations, KeyOthers, memberVars
<1>2. ASSUME NEW s \in Keys, StartRotation(u, k, s)
      PROVE  TypeOK' /\ UNCHANGED <<project, memberVars>>
  BY <1>2, Spent
    DEF StartRotation, RotationsFrom, OpenRotations, CanAuthenticate, KeyOthers, memberVars
<1>3. ASSUME NEW s \in Keys, RevokeSides(u, k, s)
      PROVE  TypeOK' /\ UNCHANGED <<project, memberVars>>
  BY <1>3, Spent DEF RevokeSides, OpenRotations, Touching, OtherSide, KeyOthers, memberVars
<1>4. ASSUME ActivateRotation(u, k) PROVE TypeOK' /\ UNCHANGED <<project, memberVars>>
  BY <1>4, Spent DEF ActivateRotation, OpenRotations, CanAuthenticate, KeyOthers, memberVars
<1>5. ASSUME CancelRotation(u, k) PROVE TypeOK' /\ UNCHANGED <<project, memberVars>>
  BY <1>5, Spent DEF CancelRotation, OpenRotations, KeyOthers, memberVars
<1>6. ASSUME CompleteRotation(u, k) PROVE TypeOK' /\ UNCHANGED <<project, memberVars>>
  BY <1>6, Spent DEF CompleteRotation, OpenRotations, KeyOthers, memberVars
<1>7. ASSUME RevokeKey(u, k) PROVE TypeOK' /\ UNCHANGED <<project, memberVars>>
  BY <1>7, Spent DEF RevokeKey, OpenRotations, Touching, KeyOthers, memberVars
<1>8. ASSUME KeyLapses(k) PROVE TypeOK' /\ UNCHANGED <<project, memberVars>>
  BY <1>8, Spent DEF KeyLapses, OpenRotations, keyVars, memberVars
<1> QED
  BY <1>1, <1>2, <1>3, <1>4, <1>5, <1>6, <1>7, <1>8

(* No order of transactions takes the two sides of a rotation apart. *)
LEMMA KeysKeepRotations ==
  ASSUME TypeOK, KeysInv, Credentials
  PROVE  KeysInv'
<1> USE WorkspaceConstants DEF TypeOK, KeyStatuses, RotationStatuses, KeysInv, OpenRotations
<1> SUFFICES ASSUME NEW u \in Users, NEW k \in Keys,
        \/ \E p \in Projects : IssueCredential(u, p, k)
        \/ \E s \in Keys : StartRotation(u, k, s) \/ RevokeSides(u, k, s)
        \/ ActivateRotation(u, k) \/ CancelRotation(u, k) \/ CompleteRotation(u, k)
        \/ RevokeKey(u, k)
        \/ KeyLapses(k)
      PROVE  KeysInv'
  BY DEF Credentials
<1>1. ASSUME NEW p \in Projects, IssueCredential(u, p, k) PROVE KeysInv'
  BY <1>1 DEF IssueCredential, OpenRotations, KeyOthers, memberVars
<1>2. ASSUME NEW s \in Keys, StartRotation(u, k, s) PROVE KeysInv'
  BY <1>2 DEF StartRotation, RotationsFrom, OpenRotations, CanAuthenticate, KeyOthers, memberVars
<1>3. ASSUME NEW s \in Keys, RevokeSides(u, k, s) PROVE KeysInv'
  <2>1. CASE rotation[s] = "pending"
    <3>1. /\ predecessor[s] = k /\ s # k /\ key[s] = "pending" /\ key[k] = "active"
          /\ key' = [key EXCEPT ![s] = "canceled", ![k] = "revoked"]
          /\ rotation' = [rotation EXCEPT ![s] = "canceled"]
          /\ UNCHANGED predecessor
      BY <1>3, <2>1 DEF RevokeSides, OtherSide
    <3> QED BY <2>1, <3>1
  <2>2. CASE rotation[s] = "overlap"
    <3>1. /\ s = k /\ key[k] = "active" /\ predecessor[k] \in Keys /\ key[predecessor[k]] = "retiring"
          /\ key' = [key EXCEPT ![predecessor[k]] = "revoked", ![k] = "revoked"]
          /\ rotation' = [rotation EXCEPT ![k] = "completed"]
          /\ UNCHANGED predecessor
      BY <1>3, <2>2 DEF RevokeSides, OtherSide
    <3> QED BY <2>2, <3>1
  <2> QED BY <1>3, <2>1, <2>2 DEF RevokeSides
<1>4. ASSUME ActivateRotation(u, k) PROVE KeysInv'
  BY <1>4 DEF ActivateRotation, OpenRotations, CanAuthenticate, KeyOthers, memberVars
<1>5. ASSUME CancelRotation(u, k) PROVE KeysInv'
  BY <1>5 DEF CancelRotation, OpenRotations, KeyOthers, memberVars
<1>6. ASSUME CompleteRotation(u, k) PROVE KeysInv'
  BY <1>6 DEF CompleteRotation, OpenRotations, KeyOthers, memberVars
<1>7. ASSUME RevokeKey(u, k) PROVE KeysInv'
  BY <1>7 DEF RevokeKey, OpenRotations, Touching, KeyOthers, memberVars
<1>8. ASSUME KeyLapses(k) PROVE KeysInv'
  BY <1>8 DEF KeyLapses, OpenRotations, keyVars, memberVars
<1> QED
  BY <1>1, <1>2, <1>3, <1>4, <1>5, <1>6, <1>7, <1>8

-----------------------------------------------------------------------------
(* Theorems *)

(* A new workspace has an owner and nothing else. *)
LEMMA WorkspaceStarts == Init => MembersInv /\ KeysInv
<1> SUFFICES ASSUME Init PROVE MembersInv /\ KeysInv
  OBVIOUS
<1> USE WorkspaceConstants DEF Init, InitStore
<1>1. TypeOK
  <2>1. member \in [Projects -> [Users -> Memberships]]
    BY DEF Memberships
  <2>2. PICK p \in Projects :
          /\ invitation = [i \in Invitations |-> [status |-> "absent", project |-> p,
                                                  user |-> Owner, role |-> "owner"]]
          /\ keyProject = [k \in Keys |-> p]
    OBVIOUS
  <2>3. invitation \in [Invitations -> InvitationRows] /\ keyProject \in [Keys -> Projects]
    BY <2>2 DEF InvitationRows
  <2> QED BY <2>1, <2>3 DEF TypeOK, KeyStatuses, RotationStatuses
<1>2. /\ AbsentIsEmpty /\ AcceptanceHolds /\ RemovalHolds /\ OtherMembershipsHold
      /\ ViewsAreOld /\ OwnersRemain /\ NoStaleDiscovery
  BY DEF AbsentIsEmpty, AcceptanceHolds, RemovalHolds, OtherMembershipsHold, ViewsAreOld,
         OwnersRemain, NoStaleDiscovery, IsMember, NoTxn
<1>3. KeysInv
  BY DEF KeysInv, OpenRotations
<1> QED BY <1>1, <1>2, <1>3 DEF MembersInv

(* Members and keys are changed by different transactions. *)
LEMMA WorkspaceSteps ==
  ASSUME MembersInv, KeysInv, [Next]_vars
  PROVE  MembersInv' /\ KeysInv'
<1>1. CASE Membership \/ ProjectLife
  <2>1. TypeOK'
    BY <1>1, MembersKeepTypes DEF MembersInv
  <2>2. MembersInv'
    BY <1>1, <2>1, KeepAbsentIsEmpty, KeepAcceptanceHolds, KeepRemovalHolds,
       KeepOtherMembershipsHold, KeepViewsAreOld, KeepOwnersRemain, KeepNoStaleDiscovery
    DEF MembersInv
  <2>3. UNCHANGED keyVars
    BY <1>1
    DEF Membership, ProjectLife, AcceptRead, AcceptExpired, InvitationLapses, RevokeInvitation,
        CreateInvitation, ViewMember, RefuseChange, RemoveRead, UpdateMemberPolicy, AcceptCommit,
        RemoveCommit, RollBack, CreateProject, ArchiveProject, RestoreProject, Others
  <2> QED BY <2>2, <2>3 DEF KeysInv, keyVars, OpenRotations
<1>2. CASE Credentials
  BY <1>2, KeysKeepTypes, KeysLeaveMembers, KeysKeepRotations DEF MembersInv
<1>3. CASE UNCHANGED vars
  <2>1. TypeOK'
    BY <1>3 DEF vars, memberVars, keyVars, MembersInv, TypeOK
  <2> QED BY <1>3, <2>1, KeysLeaveMembers DEF vars, KeysInv, keyVars, OpenRotations
<1> QED BY <1>1, <1>2, <1>3 DEF Next

(* The inductive invariant of members and keys. *)
THEOREM WorkspaceInvariant == Spec => [](MembersInv /\ KeysInv)
<1>1. MembersInv /\ KeysInv /\ [Next]_vars => (MembersInv /\ KeysInv)'
  BY WorkspaceSteps
<1> QED BY WorkspaceStarts, <1>1, PTL DEF Spec

(* A project keeps an active owner, however owners remove and demote each  *)
(* other.                                                                  *)
THEOREM ProjectsKeepAnOwner == Spec => []OwnersRemain
<1>1. MembersInv => OwnersRemain
  BY DEF MembersInv
<1> QED BY <1>1, WorkspaceInvariant, PTL

(* Who can enter the workspace is a member of some project of it, although *)
(* removals from two projects do not see each other.                       *)
THEOREM DiscoveryEndsWithMembership == Spec => []NoStaleDiscovery
<1>1. MembersInv => NoStaleDiscovery
  BY DEF MembersInv
<1> QED BY <1>1, WorkspaceInvariant, PTL

(* A change or a removal applies to a membership in the role that the      *)
(* administrator saw.                                                      *)
THEOREM ChangesApplyToWhatWasSeen == Spec => ChangeAppliesToWhatWasSeen
<1> DEFINE Applies == \A p \in Projects, u \in Users :
       IsMember(u, p) /\ member'[p][u] # member[p][u] =>
         \E v \in Requested(p) :
           v.project = p /\ v.user = u /\ v.role = member[p][u].role
<1>1. MembersInv /\ [Next]_vars => [Applies]_vars
  <2> SUFFICES ASSUME MembersInv, Next, NEW p \in Projects, NEW u \in Users,
                      IsMember(u, p), member'[p][u] # member[p][u]
               PROVE  \E v \in Requested(p) :
                        v.project = p /\ v.user = u /\ v.role = member[p][u].role
    OBVIOUS
  <2>1. ASSUME NEW w \in viewed, NEW actor \in Users, NEW role \in Roles,
               UpdateMemberPolicy(actor, w, role)
        PROVE  \E v \in Requested(p) :
                 v.project = p /\ v.user = u /\ v.role = member[p][u].role
    <3>1. Writes(w.project, w.user, PolicyRow(w, role))
      BY <2>1, PolicyWrites DEF MembersInv
    <3>2. w.project = p /\ w.user = u
      BY <3>1 DEF Writes
    <3>3. w.role = member[p][u].role
      BY <2>1, <3>2 DEF UpdateMemberPolicy, MembersInv, ViewsAreOld
    <3> QED BY <3>2, <3>3 DEF Requested
  <2>2. ASSUME NEW q \in Projects, AcceptCommit(q) PROVE FALSE
    <3>1. Writes(q, txn[q].user, AcceptedRow(txn[q], q))
      BY <2>2, AcceptanceWrites DEF MembersInv
    <3>2. q = p /\ txn[q].user = u
      BY <3>1 DEF Writes
    <3> QED BY <2>2, <3>2 DEF AcceptCommit, MembersInv, AcceptanceHolds
  <2>3. ASSUME NEW q \in Projects, RemoveCommit(q)
        PROVE  \E v \in Requested(p) :
                 v.project = p /\ v.user = u /\ v.role = member[p][u].role
    <3>1. Writes(q, txn[q].user, RemovedRow(txn[q], q))
      BY <2>3, RemovalWrites DEF MembersInv
    <3>2. q = p /\ txn[q].user = u
      BY <3>1 DEF Writes
    <3>3. txn[p].kind = "remove" /\ RemovalStands(p)
      BY <2>3, <3>2 DEF RemoveCommit, MembersInv, RemovalHolds
    <3> QED BY <3>2, <3>3 DEF RemovalStands, Requested
  <2>4. ASSUME NEW q \in Projects, CreateProject(q) PROVE FALSE
    <3> DEFINE row == [status |-> "active", role |-> "owner", version |-> 1]
    <3>1. row \in Memberships
      BY WorkspaceConstants, Rows DEF MembersInv
    <3>2. Writes(q, Owner, row)
      BY <2>4, <3>1, OneRow, WorkspaceConstants DEF CreateProject, MembersInv
    <3>3. q = p
      BY <3>2 DEF Writes
    <3> QED BY <2>4, <3>3 DEF CreateProject, MembersInv, AbsentIsEmpty
  <2>5. CASE UNCHANGED member
    BY <2>5
  <2>6. Membership \/ ProjectLife \/ UNCHANGED member
    BY KeysKeepTypes DEF Next, MembersInv, memberVars
  <2> QED BY <2>1, <2>2, <2>3, <2>4, <2>5, <2>6
          DEF Membership, ProjectLife, AcceptRead, AcceptExpired, InvitationLapses,
              RevokeInvitation, CreateInvitation, ViewMember, RefuseChange, RemoveRead, RollBack,
              ArchiveProject, RestoreProject, memberVars
<1> QED BY <1>1, WorkspaceInvariant, PTL DEF Spec, ChangeAppliesToWhatWasSeen

(* Only a pending invitation, which is used up, admits to a project. *)
THEOREM OneInvitationAdmitsOnce == Spec => InvitationAdmitsOnce
<1> DEFINE Admits == \A p \in Projects, u \in Users \ {Owner} :
       ~IsMember(u, p) /\ member'[p][u].status = "active" =>
         \E i \in Invitations :
           /\ invitation[i] = [status |-> "pending", project |-> p, user |-> u,
                               role |-> member'[p][u].role]
           /\ invitation'[i].status = "accepted"
<1>1. MembersInv /\ [Next]_vars => [Admits]_vars
  <2> SUFFICES ASSUME MembersInv, Next, NEW p \in Projects, NEW u \in Users \ {Owner},
                      ~IsMember(u, p), member'[p][u].status = "active"
               PROVE  \E i \in Invitations :
                        /\ invitation[i] = [status |-> "pending", project |-> p, user |-> u,
                                            role |-> member'[p][u].role]
                        /\ invitation'[i].status = "accepted"
    OBVIOUS
  <2>1. ASSUME NEW w \in viewed, NEW actor \in Users, NEW role \in Roles,
               UpdateMemberPolicy(actor, w, role)
        PROVE  FALSE
    <3>1. Writes(w.project, w.user, PolicyRow(w, role))
      BY <2>1, PolicyWrites DEF MembersInv
    <3>2. w.project = p /\ w.user = u
      BY <3>1 DEF Writes, IsMember
    <3> QED BY <2>1, <3>2 DEF UpdateMemberPolicy, UpToDate
  <2>2. ASSUME NEW q \in Projects, AcceptCommit(q)
        PROVE  \E i \in Invitations :
                 /\ invitation[i] = [status |-> "pending", project |-> p, user |-> u,
                                     role |-> member'[p][u].role]
                 /\ invitation'[i].status = "accepted"
    <3>1. /\ Writes(q, txn[q].user, AcceptedRow(txn[q], q))
          /\ txn[q].invitation \in Invitations
      BY <2>2, AcceptanceWrites DEF MembersInv
    <3>2. q = p /\ txn[q].user = u
      BY <3>1 DEF Writes, IsMember
    <3>3. member'[p][u].role = invitation[txn[p].invitation].role
      BY <3>1, <3>2 DEF Writes, AcceptedRow
    <3>4. invitation[txn[p].invitation] \in InvitationRows
      BY <3>1, <3>2 DEF MembersInv, TypeOK
    <3>5. invitation[txn[p].invitation] = [status |-> "pending", project |-> p, user |-> u,
                                           role |-> member'[p][u].role]
      BY <2>2, <3>2, <3>3, <3>4 DEF AcceptCommit, MembersInv, AcceptanceHolds, InvitationRows
    <3>6. invitation'[txn[p].invitation].status = "accepted"
      BY <2>2, <3>1, <3>2, <3>4 DEF AcceptCommit, Used, MembersInv, TypeOK, InvitationRows
    <3> QED BY <3>1, <3>2, <3>5, <3>6
  <2>3. ASSUME NEW q \in Projects, RemoveCommit(q) PROVE FALSE
    <3>1. Writes(q, txn[q].user, RemovedRow(txn[q], q))
      BY <2>3, RemovalWrites DEF MembersInv
    <3>2. q = p /\ txn[q].user = u
      BY <3>1 DEF Writes, IsMember
    <3> QED BY <3>1, <3>2 DEF Writes, RemovedRow
  <2>4. ASSUME NEW q \in Projects, CreateProject(q) PROVE FALSE
    <3> DEFINE row == [status |-> "active", role |-> "owner", version |-> 1]
    <3>1. row \in Memberships
      BY WorkspaceConstants, Rows DEF MembersInv
    <3>2. Writes(q, Owner, row)
      BY <2>4, <3>1, OneRow, WorkspaceConstants DEF CreateProject, MembersInv
    <3> QED BY <3>2 DEF Writes, IsMember
  <2>5. CASE UNCHANGED member
    BY <2>5 DEF IsMember
  <2>6. Membership \/ ProjectLife \/ UNCHANGED member
    BY KeysKeepTypes DEF Next, MembersInv, memberVars
  <2> QED BY <2>1, <2>2, <2>3, <2>4, <2>5, <2>6
          DEF Membership, ProjectLife, AcceptRead, AcceptExpired, InvitationLapses,
              RevokeInvitation, CreateInvitation, ViewMember, RefuseChange, RemoveRead, RollBack,
              ArchiveProject, RestoreProject, memberVars
<1> QED BY <1>1, WorkspaceInvariant, PTL DEF Spec, InvitationAdmitsOnce

(* A rotation and its two keys agree, and a key that retires does so in    *)
(* exactly one rotation.                                                   *)
THEOREM RotationsAgreeWithKeys == Spec => []RotationsMatchKeys
<1>1. KeysInv => RotationsMatchKeys
  <2> SUFFICES ASSUME KeysInv PROVE RotationsMatchKeys
    OBVIOUS
  <2>1. ASSUME NEW k \in Keys, key[k] = "retiring"
        PROVE  \E s \in Keys : {r \in Keys : predecessor[r] = k /\ rotation[r] = "overlap"} = {s}
    <3>1. PICK s \in Keys : predecessor[s] = k /\ rotation[s] = "overlap"
      BY <2>1 DEF KeysInv
    <3>2. \A r \in Keys : predecessor[r] = k /\ rotation[r] = "overlap" => r = s
      BY <3>1 DEF KeysInv, OpenRotations
    <3> QED BY <3>1, <3>2
  <2> QED BY <2>1 DEF KeysInv, RotationsMatchKeys
<1> QED BY <1>1, WorkspaceInvariant, PTL

=============================================================================
