---------------------------- MODULE StudioSessions ----------------------------
(***************************************************************************)
(* Requests of a signed-in browser: the bootstrap and content routes, the  *)
(* refresh of a session whose access token runs out, and logout.           *)
(***************************************************************************)
EXTENDS StudioStore

-----------------------------------------------------------------------------
(* Loading a session *)

(* A request with no record behind its cookie is answered 401 and does     *)
(* nothing more.                                                           *)
LoadSession(r, s) ==
  /\ At(r, "idle")
  /\ s \in browser /\ Live(s)
  /\ ReadInto(r, s, "loaded")
  /\ UNCHANGED <<storeVars, outside>>

(* A record under a retired key is encrypted again with the tokens read;   *)
(* a refusal is ignored.                                                   *)
Reencrypt(r) ==
  LET s == request[r].session IN
  /\ At(r, "loaded")
  /\ request[r].keyId # activeKey /\ MayReencrypt(r)
  /\ session' = [session EXCEPT ![s].keyId = activeKey, ![s].tokens = request[r].tokens]
  /\ request' = [request EXCEPT ![r].keyId = activeKey]
  /\ UNCHANGED <<attempt, activeKey, outside>>

(* The access token has more than a minute left. *)
StillFresh(r) ==
  /\ At(r, "loaded")
  /\ Goto(r, "ready")
  /\ UNCHANGED <<storeVars, outside>>

-----------------------------------------------------------------------------
(* refreshSession *)

ClaimRefresh(r) ==
  LET s == request[r].session IN
  /\ At(r, "loaded")
  /\ \E leaseOver \in BOOLEAN :
       /\ Claimable(r, leaseOver)
       /\ session' = [session EXCEPT ![s].owner = r, ![s].dispatched = FALSE]
  /\ request' = [request EXCEPT ![r].stage = "claimed", ![r].tokens = session[s].tokens]
  /\ UNCHANGED <<attempt, activeKey, outside>>

ClaimRefused(r) ==
  /\ At(r, "loaded")
  /\ \/ ~SameGeneration(r) /\ End(r)
     \/ \E leaseOver \in BOOLEAN : Terminal(r, leaseOver) /\ Goto(r, "terminal")
     \/ SameGeneration(r) /\ session[request[r].session].owner # None /\ Goto(r, "waiting")
  /\ UNCHANGED <<storeVars, outside>>

(* A waiter reads the record again until it finds a later generation, it   *)
(* finds none, or it has looked twenty times.                              *)
Wait(r) ==
  LET s == request[r].session IN
  /\ At(r, "waiting")
  /\ \/ Live(s) /\ session[s].generation > request[r].generation /\ ReadInto(r, s, "ready")
     \/ End(r)
  /\ UNCHANGED <<storeVars, outside>>

MarkRefreshDispatched(r) ==
  LET s == request[r].session IN
  /\ At(r, "claimed")
  /\ IF OwnsRefresh(r) /\ ~session[s].dispatched
     THEN /\ session' = [session EXCEPT ![s].dispatched = TRUE]
          /\ Goto(r, "dispatched")
     ELSE End(r) /\ UNCHANGED session
  /\ UNCHANGED <<attempt, activeKey, outside>>

(* The token endpoint rotates a token it has not seen before; its answer   *)
(* may be lost or unreadable, and it may refuse.                           *)
SubmitRefresh(r) ==
  /\ At(r, "dispatched")
  /\ request[r].tokens < MaxGeneration
  /\ submitted' = [submitted EXCEPT ![Token(r)] = @ + 1]
  /\ \/ /\ submitted[Token(r)] = 0 /\ Token(r) \notin revocations
        /\ request' = [request EXCEPT ![r].stage = "renewed", ![r].tokens = @ + 1]
     \/ Goto(r, "terminal")
  /\ UNCHANGED <<storeVars, browser, revocations, opened, uncommitted>>

(* bootstrapUpstream with the new access token; an access expiry that      *)
(* makes no sense also revokes the new tokens.                             *)
VerifyRefresh(r) ==
  /\ At(r, "renewed")
  /\ \E stage \in {"verified", "terminal", "denied"} : Goto(r, stage)
  /\ UNCHANGED <<storeVars, outside>>

Renewed(r) ==
  [status |-> "live", generation |-> request[r].generation + 1, tokens |-> request[r].tokens,
   owner |-> None, dispatched |-> FALSE, keyId |-> activeKey]

CommitRefresh(r) ==
  /\ At(r, "verified")
  /\ IF MayCommit(r)
     THEN /\ session' = [session EXCEPT ![request[r].session] = Renewed(r)]
          /\ request' = [request EXCEPT ![r].stage = "ready", ![r].generation = @ + 1]
          /\ UNCHANGED uncommitted
     ELSE /\ Goto(r, "revoking")
          /\ uncommitted' = uncommitted \cup {Token(r)}
          /\ UNCHANGED session
  /\ UNCHANGED <<attempt, activeKey, browser, submitted, revocations, opened>>

(* The store does not answer the commit, which it may have carried out. *)
CommitFails(r) ==
  /\ At(r, "verified")
  /\ \/ /\ MayCommit(r)
        /\ session' = [session EXCEPT ![request[r].session] = Renewed(r)]
        /\ UNCHANGED uncommitted
     \/ /\ uncommitted' = uncommitted \cup {Token(r)}
        /\ UNCHANGED session
  /\ End(r)
  /\ UNCHANGED <<attempt, activeKey, browser, submitted, revocations, opened>>

-----------------------------------------------------------------------------
(* Using and leaving a session *)

(* The platform answers, refuses the authority, or cannot be reached. *)
CallUpstream(r) ==
  /\ At(r, "ready")
  /\ Goto(r, "denied") \/ End(r)
  /\ UNCHANGED <<storeVars, outside>>

Logout(r, s) ==
  /\ At(r, "idle")
  /\ s \in browser /\ Live(s)
  /\ ReadInto(r, s, "leaving")
  /\ UNCHANGED <<storeVars, outside>>

(* The record goes, and after a denial or a logout the tokens that were    *)
(* read go too.  A store that fails is ignored, except by a logout.        *)
DeleteSession(r) ==
  /\ \E stage \in {"terminal", "denied", "leaving"} : At(r, stage)
  /\ session' = Deleted(request[r].session)
  /\ IF At(r, "terminal") THEN End(r) ELSE Goto(r, "revoking")
  /\ UNCHANGED <<attempt, activeKey, outside>>

DeleteFails(r) ==
  /\ At(r, "denied")
  /\ Crashes
  /\ Goto(r, "revoking")
  /\ UNCHANGED <<storeVars, outside>>

(* One bounded attempt, whatever comes of it. *)
Revoke(r) ==
  /\ At(r, "revoking")
  /\ revocations' = revocations \cup {Token(r)}
  /\ End(r)
  /\ UNCHANGED <<storeVars, browser, submitted, opened, uncommitted>>

(* Eight hours after the sign-in the store drops the record. *)
Expire(s) ==
  /\ Live(s)
  /\ session' = Deleted(s)
  /\ UNCHANGED <<attempt, activeKey, request, outside>>

(* A process dies, or a store call it cannot do without fails. *)
Crash(r) ==
  /\ Crashes
  /\ ~At(r, "idle")
  /\ End(r)
  /\ UNCHANGED <<storeVars, outside>>
=============================================================================
