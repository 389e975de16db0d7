----------------------------- MODULE MCGovernance -----------------------------
(* Instances of the workspace for TLC. *)
EXTENDS Governance, TLC

CONSTANTS MemberBound, InvitationBound, KeyBound, ProjectBound

(* Runs that change members, and runs that change keys. *)
MCBounds ==
  {[member |-> MemberBound, invitation |-> InvitationBound, key |-> 0, project |-> ProjectBound],
   [member |-> 0, invitation |-> 0, key |-> KeyBound, project |-> ProjectBound]}

Symmetric == Permutations(Invitations) \cup Permutations(Keys)
=============================================================================
