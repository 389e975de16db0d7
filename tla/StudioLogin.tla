----------------------------- MODULE StudioLogin -----------------------------
(***************************************************************************)
(* Signing in: the attempt a browser starts, and the callback that turns   *)
(* it into a session, once, in place of the session the browser had.       *)
(***************************************************************************)
EXTENDS StudioStore

Login(a) ==
  /\ attempt[a] = "absent"
  /\ Cardinality(Outstanding) < MaxAttempts
  /\ attempt' = [attempt EXCEPT ![a] = "open"]
  /\ UNCHANGED <<session, activeKey, request, outside>>

AttemptExpires(a) ==
  /\ attempt[a] = "open"
  /\ attempt' = [attempt EXCEPT ![a] = "consumed"]
  /\ UNCHANGED <<session, activeKey, request, outside>>

(* A callback with another state, or for an attempt that is gone, ends     *)
(* here and consumes nothing.                                              *)
InspectAttempt(r, a) ==
  /\ At(r, "idle")
  /\ attempt[a] = "open"
  /\ request' = [request EXCEPT ![r] = [Idle EXCEPT !.stage = "inspected", !.attempt = a]]
  /\ UNCHANGED <<storeVars, outside>>

(* Mutant: what was inspected is good enough. *)
Inspected(r) == TRUE

StillOpen(r) == attempt[request[r].attempt] = "open"

(* The second of two callbacks finds nothing to consume; a callback that   *)
(* reports an error ends after it has consumed.                            *)
ConsumeAttempt(r) ==
  /\ At(r, "inspected")
  /\ attempt' = [attempt EXCEPT ![request[r].attempt] = "consumed"]
  /\ \/ StillOpen(r) /\ Goto(r, "consumed")
     \/ End(r)
  /\ UNCHANGED <<session, activeKey, outside>>

(* The code is exchanged for the tokens of a session with a new key.  The  *)
(* provider may refuse, or answer something unreadable.                    *)
ExchangeCode(r, s) ==
  /\ At(r, "consumed")
  /\ \/ /\ session[s].status = "absent"
        /\ \A q \in Requests : request[q].session # s
        /\ <<s, 1>> \notin revocations
        /\ request' = [request EXCEPT ![r].stage = "exchanged", ![r].session = s,
                                      ![r].generation = 1, ![r].tokens = 1]
     \/ End(r)
  /\ UNCHANGED <<storeVars, outside>>

(* The session the browser's cookie names, read before it is replaced. *)
ReadPrevious(r, p) ==
  /\ At(r, "exchanged") /\ request[r].previous = None
  /\ p \in browser /\ Live(p)
  /\ request' = [request EXCEPT ![r].previous = <<p, session[p].tokens>>]
  /\ UNCHANGED <<storeVars, outside>>

(* The bootstrap, or its access expiry, is no good; or the store fails. *)
RejectLogin(r) ==
  /\ At(r, "exchanged")
  /\ Goto(r, "revoking")
  /\ UNCHANGED <<storeVars, outside>>

Replaced(r) ==
  IF request[r].previous = None THEN session ELSE Deleted(request[r].previous[1])

NewRecord == [status |-> "live", generation |-> 1, tokens |-> 1, owner |-> None,
              dispatched |-> FALSE, keyId |-> activeKey]

(* The old record goes even when there is no room for the new one.  A      *)
(* callback that the store does not answer revokes its tokens, whether the *)
(* store has carried this out or not (RejectLogin).                        *)
CreateSession(r) ==
  LET a == request[r].attempt
      room == Cardinality({s \in Sessions : Replaced(r)[s].status = "live"}) < MaxSessions IN
  /\ At(r, "exchanged")
  /\ IF room
     THEN /\ session' = [Replaced(r) EXCEPT ![request[r].session] = NewRecord]
          /\ opened' = [opened EXCEPT ![a] = @ \cup {request[r].session}]
          /\ Goto(r, "created") \/ Goto(r, "revoking")
     ELSE /\ session' = Replaced(r)
          /\ Goto(r, "revoking")
          /\ UNCHANGED opened
  /\ UNCHANGED <<attempt, activeKey, browser, submitted, revocations, uncommitted>>

(* The tokens of the session replaced are revoked as they were read, and   *)
(* the answer carries the new cookie.                                      *)
FinishLogin(r) ==
  /\ At(r, "created")
  /\ revocations' = revocations \cup ({request[r].previous} \ {None})
  /\ browser' = browser \cup {request[r].session}
  /\ End(r)
  /\ UNCHANGED <<storeVars, submitted, opened, uncommitted>>

(* A deployment that encrypts with a new key and still reads the old. *)
RotateKey ==
  /\ activeKey = 0
  /\ activeKey' = 1
  /\ UNCHANGED <<attempt, session, request, outside>>
=============================================================================
