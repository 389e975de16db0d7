\* Two administrators of a workspace with two projects change members and keys.
SPECIFICATION Spec
CONSTANTS
  None = None
  Projects = {"p1", "p2"}
  Users = {"w", "u"}
  Owner = "w"
  Invitations = {i1, i2, i3}
  Keys = {k1, k2, k3}
  Roles = {"owner", "editor"}
  Bounds <- MCBounds
  MemberBound = 2
  InvitationBound = 3
  KeyBound = 3
  ProjectBound = 2
SYMMETRY Symmetric
INVARIANTS
  OwnersRemain
  NoStaleDiscovery
  RotationsMatchKeys
PROPERTIES
  ChangeAppliesToWhatWasSeen
  InvitationAdmitsOnce
CHECK_DEADLOCK FALSE
