------------------------------- MODULE Studio -------------------------------
(***************************************************************************)
(* A Studio server and the platform it belongs to: the processes that hold *)
(* sessions in a shared store, the provider that grants and renews their   *)
(* tokens, and the commands that start, move and end the Studio's runtime. *)
(***************************************************************************)
EXTENDS StudioServer, ControlPlane, StudioGrants

vars == <<serverVars, platformVars>>

(* A session is known by the grant its tokens come from. *)
ASSUME StudioGrantsAssumption == Sessions = Grants

Busy == {r \in Requests : ~At(r, "idle")}
MayStart == Cardinality(Busy) < budget.requests

Browse ==
  \/ /\ budget.requests > 0
     /\ \/ \E a \in Attempts : Login(a) \/ AttemptExpires(a)
        \/ \E s \in Sessions : Expire(s)
        \/ RotateKey
  \/ /\ MayStart
     /\ \E r \in Requests :
          \/ \E a \in Attempts : InspectAttempt(r, a)
          \/ \E s \in Sessions : LoadSession(r, s) \/ Logout(r, s)
  \/ \E r \in Requests : ServeAlone(r)

(* Steps of a request that are calls to the platform or the provider.      *)
CallPlatform(r) ==
  LET g == request[r].session IN
  \/ \E s \in Sessions :
       /\ ExchangeCode(r, s)
       /\ IF request'[r].session = s THEN ReturnTokens(s) ELSE UNCHANGED platformVars
  \/ /\ SubmitRefresh(r)
     /\ IF request'[r].stage = "renewed" THEN RenewTokens(g)
        ELSE RenewTokens(g) \/ UNCHANGED platformVars
  \/ /\ VerifyRefresh(r) /\ ~grant[g].pending
     /\ request'[r].stage = "verified" => Usable(g)
     /\ UNCHANGED platformVars
  \/ /\ CallUpstream(r)
     /\ request'[r].stage = "denied" => budget.refuses \/ ~Usable(g)
     /\ UNCHANGED platformVars
  \/ Revoke(r) /\ RevokeTokens(g)
  \/ /\ FinishLogin(r)
     /\ IF request[r].previous = None THEN UNCHANGED platformVars
        ELSE RevokeTokens(request[r].previous[1])

Administer ==
  \/ \E m \in Commands, x \in Wanted : Send(m, x)
  \/ \E archived \in BOOLEAN : SetArchived(archived)
  \/ \E c \in Connections :
       \/ \E q \in sent : Authorize(c, q)
       \/ InspectReceipt(c) \/ RollBack(c)
       \/ CreateProject(c) \/ EnableCapability(c) \/ PutRegistration(c) \/ SetRuntime(c)
       \/ CommitRevocation(c)

Provide ==
  \E g \in Grants :
    \/ Approve(g) \/ IssueCode(g) \/ RedeemCode(g)
    \/ ReadRegistration(g) \/ EstablishMarker(g) \/ StoreToken(g)

Next ==
  \/ Browse /\ UNCHANGED platformVars
  \/ \E r \in Requests : CallPlatform(r)
  \/ (Administer \/ Provide) /\ UNCHANGED serverVars

Init ==
  /\ InitStore
  /\ budget \in Bounds
  /\ InitPlatform

Spec == Init /\ [][Next]_vars

-----------------------------------------------------------------------------
(* A grant that was redeemed before a runtime ended is never usable again: *)
(* not by a token or a consent that was stored while the revocation was    *)
(* under way, and not after the Studio was activated again.                *)
AuthorityEndsWithItsRuntime == \A g \in ended : ~Usable(g)

(* A command that has taken effect is never refused when it is sent again: *)
(* not to a second connection that was waiting, and not when the row has   *)
(* meanwhile moved on, so a refusal that a client reports is true.         *)
CommittedIsConfirmed ==
  [][\A c \in Connections :
       txn'[c].stage = "refused" /\ txn[c].stage # "refused" =>
         receipt[txn[c].command] # txn[c].intent]_vars
=============================================================================
