---------------------------- MODULE StudioGrants ----------------------------
(***************************************************************************)
(* What a user grants to a Studio: the consent, the authorization code,    *)
(* its redemption and the renewal of tokens.  The OAuth provider is a      *)
(* library; the policy, the claims and the bootstrap are the platform's.   *)
(***************************************************************************)
EXTENDS StudioPlatform

GrantOthers == <<commandVars, budget>>
Step(g, stage) == grant' = [grant EXCEPT ![g].stage = stage]

(* The user approves while the runtime is available; the provider stores   *)
(* the consent and the code later.                                         *)
Approve(g) ==
  /\ grant[g].stage = "none"
  /\ RuntimeAvailable
  /\ Spend("grant")
  /\ Step(g, "approved")
  /\ UNCHANGED <<commandVars, consent>>

IssueCode(g) ==
  /\ grant[g].stage = "approved"
  /\ Step(g, "issued")
  /\ consent' = TRUE
  /\ UNCHANGED GrantOthers

(* The provider takes the code of an enabled client, and passes on the     *)
(* metadata it has read.                                                   *)
RedeemCode(g) ==
  /\ grant[g].stage = "issued"
  /\ client.enabled
  /\ grant' = [grant EXCEPT ![g].stage = "redeeming", ![g].seen = MetadataOf(client)]
  /\ UNCHANGED <<GrantOthers, consent>>

(* The claims: the registration first, then project, capability and        *)
(* consent with the audit marker that carries the version that was read.   *)
ReadRegistration(g) ==
  /\ grant[g].stage = "redeeming"
  /\ registration.status = "active" /\ registration.address \in Portable
  /\ grant[g].seen = MetadataOf(registration)
  /\ Step(g, "read")
  /\ UNCHANGED <<GrantOthers, consent>>

EstablishMarker(g) ==
  /\ grant[g].stage = "read"
  /\ project = "active" /\ cms /\ consent
  /\ grant' = [grant EXCEPT ![g].stage = "marked", ![g].marker = grant[g].seen.version]
  /\ UNCHANGED <<GrantOthers, consent>>

(* The provider stores a refresh token before or after the claims of a     *)
(* redemption, and after those of a renewal, in place of the one before.   *)
StoreToken(g) ==
  /\ \/ grant[g].stage \in {"redeeming", "read", "marked"} /\ grant[g].row = 0
     \/ grant[g].pending
  /\ grant[g].row < Rows
  /\ grant' = [grant EXCEPT ![g].row = @ + 1, ![g].live = TRUE, ![g].pending = FALSE]
  /\ UNCHANGED <<GrantOthers, consent>>

(* The tokens reach the Studio server. *)
ReturnTokens(g) ==
  /\ grant[g].stage = "marked" /\ grant[g].row > 0
  /\ Step(g, "held")
  /\ UNCHANGED <<GrantOthers, consent>>

(* Mutant: the grant is as good for a later version of the registration. *)
MarkedOnce(g) == grant[g].marker > 0

MarkedForThisVersion(g) == grant[g].marker = registration.version

(* getBootstrap, with the access token of the grant. *)
Usable(g) ==
  /\ RuntimeAvailable
  /\ grant[g].marker > 0 /\ MarkedForThisVersion(g)
  /\ consent /\ grant[g].live

(* The claims of a renewal hold, and the provider goes on to rotate. *)
RenewTokens(g) ==
  /\ grant[g].stage = "held" /\ ~grant[g].pending
  /\ Usable(g)
  /\ grant' = [grant EXCEPT ![g].pending = TRUE]
  /\ UNCHANGED <<GrantOthers, consent>>

(* /oauth2/revoke, as far as it gets. *)
RevokeTokens(g) ==
  /\ grant' \in {grant, [grant EXCEPT ![g].live = FALSE]}
  /\ UNCHANGED <<GrantOthers, consent>>
=============================================================================
