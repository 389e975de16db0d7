----------------------------- MODULE StudioServer -----------------------------
(***************************************************************************)
(* The processes of a Studio server over one shared store.                 *)
(***************************************************************************)
EXTENDS StudioSessions, StudioLogin

serverVars == <<storeVars, request, outside>>

(* Steps of a request that concern the store alone. *)
ServeAlone(r) ==
  \/ ConsumeAttempt(r) \/ RejectLogin(r) \/ CreateSession(r)
  \/ \E s \in Sessions : ReadPrevious(r, s)
  \/ Reencrypt(r) \/ StillFresh(r)
  \/ ClaimRefresh(r) \/ ClaimRefused(r) \/ Wait(r) \/ MarkRefreshDispatched(r)
  \/ CommitRefresh(r) \/ CommitFails(r)
  \/ DeleteSession(r) \/ DeleteFails(r)
  \/ Crash(r)

-----------------------------------------------------------------------------
(* "Once dispatch begins, that generation is never submitted again":       *)
(* whichever processes claim, stall past their lease, die and race, the    *)
(* provider is given a refresh token once.                                 *)
SubmittedOnce == \A t \in Tokens : submitted[t] <= 1

(* The tokens inside a record are those of the record's generation: an     *)
(* envelope encrypted again under a new key never puts back the tokens     *)
(* that a refresh meanwhile replaced.                                      *)
EnvelopeIsCurrent == \A s \in Sessions : Live(s) => session[s].tokens = session[s].generation

(* "Logout or delete prevents a late commit from resurrecting a session",  *)
(* and a live record only moves to the next generation.                    *)
NeverResurrected ==
  [][\A s \in Sessions :
       /\ session[s].status = "gone" => session'[s].status = "gone"
       /\ Live(s) /\ session'[s].status = "live" =>
            session'[s].generation \in {session[s].generation, session[s].generation + 1}]_serverVars

(* An attempt is consumed once: however often the browser comes back from  *)
(* the provider with it, it establishes at most one session.               *)
AttemptOpensOneSession == \A a \in Attempts : Cardinality(opened[a]) <= 1

(* "Failed or stale commit triggers bounded compensation": refresh tokens  *)
(* that were received and could not be stored are revoked.                 *)
UncommittedIsRevoked ==
  \A t \in uncommitted :
    t \in revocations \/ \E r \in Requests : At(r, "revoking") /\ Token(r) = t
=============================================================================
