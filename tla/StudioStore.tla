----------------------------- MODULE StudioStore -----------------------------
(***************************************************************************)
(* The shared store of a Studio server: sign-in attempts, sessions whose   *)
(* encrypted record carries a fence for refreshes, and the requests that   *)
(* the server's processes have in flight.  Each Redis script is one step.  *)
(***************************************************************************)
EXTENDS Integers, FiniteSets

CONSTANTS Sessions,     \* opaque session keys, each drawn once
          Attempts,     \* opaque keys of sign-in attempts
          Requests,     \* requests the processes can serve at a time
          None,
          MaxAttempts,  \* maximumAttemptsPerRegistration
          MaxSessions,  \* maximumSessionsPerRegistration
          MaxGeneration,\* bound: refreshes of a session
          Crashes       \* whether processes die and store calls fail

ASSUME StudioAssumption ==
  /\ None \notin Sessions \cup Requests \cup Attempts
  /\ MaxAttempts \in Nat /\ MaxSessions \in Nat /\ MaxGeneration \in Nat \ {0}
  /\ Crashes \in BOOLEAN

VARIABLES
  attempt,     \* attempts by key
  session,     \* session records by key
  activeKey,   \* key that records are encrypted with
  request,     \* what each request holds
  browser,     \* session keys that reached a browser in a cookie
  submitted,   \* refresh tokens the token endpoint was given, how often
  revocations, \* refresh tokens the revocation endpoint was asked to revoke
  opened,      \* sessions established from each attempt
  uncommitted  \* refresh tokens received whose record could not be stored

storeVars == <<attempt, session, activeKey>>
outside == <<browser, submitted, revocations, opened, uncommitted>>

Generations == 0..MaxGeneration

(* A refresh token: the one that generation of the session was given. *)
Tokens == Sessions \X Generations

(* "tokens" stands for the tokens inside the envelope, which the store     *)
(* cannot read; the lease is over or not by the clock of who asks.         *)
Records ==
  [status: {"absent", "live", "gone"}, generation: Generations, tokens: Generations,
   owner: Requests \cup {None}, dispatched: BOOLEAN, keyId: 0..1]

NoRecord == [status |-> "absent", generation |-> 0, tokens |-> 0, owner |-> None,
             dispatched |-> FALSE, keyId |-> 0]

Live(s) == session[s].status = "live"

Stages ==
  {"idle", "loaded", "waiting", "terminal", "claimed", "dispatched", "renewed", "verified",
   "ready", "denied", "revoking", "leaving",
   "inspected", "consumed", "exchanged", "created"}

(* What a request holds: the session it works on with the generation and   *)
(* the tokens it read, an attempt, and the session it is to replace.       *)
Held == [stage: Stages, session: Sessions \cup {None}, generation: Generations,
         tokens: Generations, keyId: 0..1, attempt: Attempts \cup {None},
         previous: (Sessions \X Generations) \cup {None}]

Idle == [stage |-> "idle", session |-> None, generation |-> 0, tokens |-> 0,
         keyId |-> 0, attempt |-> None, previous |-> None]

StoreTypeOK ==
  /\ attempt \in [Attempts -> {"absent", "open", "consumed"}]
  /\ session \in [Sessions -> Records]
  /\ activeKey \in 0..1
  /\ request \in [Requests -> Held]
  /\ browser \in SUBSET Sessions
  /\ submitted \in [Tokens -> 0..2]
  /\ revocations \in SUBSET Tokens
  /\ opened \in [Attempts -> SUBSET Sessions]
  /\ uncommitted \in SUBSET Tokens

InitStore ==
  /\ attempt = [a \in Attempts |-> "absent"]
  /\ session = [s \in Sessions |-> NoRecord]
  /\ activeKey = 0
  /\ request = [r \in Requests |-> Idle]
  /\ browser = {}
  /\ submitted = [t \in Tokens |-> 0]
  /\ revocations = {}
  /\ opened = [a \in Attempts |-> {}]
  /\ uncommitted = {}

-----------------------------------------------------------------------------
(* Requests *)

At(r, stage) == request[r].stage = stage
Goto(r, stage) == request' = [request EXCEPT ![r].stage = stage]
End(r) == request' = [request EXCEPT ![r] = Idle]
Token(r) == <<request[r].session, request[r].tokens>>

-----------------------------------------------------------------------------
(* The scripts *)

(* A request holds the record as readSession returned it. *)
ReadInto(r, s, stage) ==
  request' = [request EXCEPT ![r] =
    [Idle EXCEPT !.stage = stage, !.session = s, !.generation = session[s].generation,
                 !.tokens = session[s].tokens, !.keyId = session[s].keyId]]

Deleted(s) == IF Live(s) THEN [session EXCEPT ![s] = [NoRecord EXCEPT !.status = "gone"]]
              ELSE session

(* Mutant: an envelope may be rewritten whatever the record holds now. *)
LiveRecord(r) == Live(request[r].session)

(* Only the generation that was read, and no refresh under way. *)
MayReencrypt(r) ==
  LET s == request[r].session IN
  Live(s) /\ session[s].generation = request[r].generation /\ session[s].owner = None

SameGeneration(r) ==
  LET s == request[r].session IN Live(s) /\ session[s].generation = request[r].generation

(* Mutant: a lease that is over frees a generation that was dispatched. *)
ReclaimsAnything(r, leaseOver) ==
  SameGeneration(r) /\ (session[request[r].session].owner # None => leaseOver)

Claimable(r, leaseOver) ==
  LET s == request[r].session IN
  SameGeneration(r) /\ (session[s].owner # None => leaseOver /\ ~session[s].dispatched)

Terminal(r, leaseOver) ==
  LET s == request[r].session IN
  SameGeneration(r) /\ session[s].owner # None /\ leaseOver /\ session[s].dispatched

OwnsRefresh(r) == SameGeneration(r) /\ session[request[r].session].owner = r

(* Mutant: the record is written whatever became of the one it replaces. *)
CommitsAnyway(r) == TRUE

MayCommit(r) == OwnsRefresh(r) /\ session[request[r].session].dispatched

Established == {s \in Sessions : Live(s)}
Outstanding == {a \in Attempts : attempt[a] = "open"}
=============================================================================
