---------------------------- MODULE ControlPlane ----------------------------
(***************************************************************************)
(* Commands of the control plane: each is one transaction that authorizes, *)
(* takes the lock of its command id, looks for a receipt, locks the rows   *)
(* it changes, and leaves a receipt with its change.  A client that had no *)
(* answer sends the command again, whatever became of the first attempt.   *)
(***************************************************************************)
EXTENDS StudioPlatform

OAuth == <<consent, grant>>

(* What the CLI, or a program that uses the API, has reason to ask for in  *)
(* the state it has read, which may have changed when the command arrives. *)
Wanted ==
  {x \in Intents({registration.version}) :
     CASE x.op = "project.create"    -> project = "absent"
       [] x.op = "capability.enable" -> project # "absent" /\ ~cms
       [] x.op = "registration.put"  -> project # "absent"
       [] x.op = "runtime.set"       -> registration.status # "absent"}

(* The id is drawn at random, or was used before: for the same command, or *)
(* for another by mistake.                                                 *)
Used  == {q[1] : q \in sent}
Drawn == IF Used = Commands THEN {} ELSE {CHOOSE m \in Commands : m \notin Used}

Send(m, x) ==
  /\ x \in Wanted
  /\ m \in Used \cup Drawn
  /\ <<m, x>> \notin sent
  /\ Spend("command")
  /\ sent' = sent \cup {<<m, x>>}
  /\ UNCHANGED <<project, cms, registration, client, receipt, txn, ended, OAuth>>

Ends(c, outcome) == txn' = [txn EXCEPT ![c] = outcome]
Refused(c) == [stage |-> "refused", command |-> txn[c].command, intent |-> txn[c].intent,
               archived |-> txn[c].archived]

(* Nothing but the outcome: a replay or a refusal. *)
Answer(c, outcome) ==
  /\ Ends(c, outcome)
  /\ UNCHANGED <<project, cms, registration, client, receipt, sent, ended, OAuth, budget>>

-----------------------------------------------------------------------------
(* Before the change *)

(* Authorization reads the project without a lock. *)
Authorize(c, q) ==
  /\ txn[c].stage \in {"free", "refused"}
  /\ q[2].op = "project.create" \/ project # "absent"
  /\ Answer(c, [stage |-> "authorized", command |-> q[1], intent |-> q[2],
                archived |-> project = "archived"])

(* Mutant: the receipt is read before the lock of the command is held. *)
CommandUnlocked(c) == TRUE

CommandLocked(c) ==
  \A d \in Connections \ {c} :
    txn[d].stage \in {"inspected", "revoking"} => txn[d].command # txn[c].command

(* A matching receipt is replayed, whatever has become of the rows; any    *)
(* other command under the id is refused; and a first attempt goes on,     *)
(* unless its project was archived: a runtime can be ended even then.      *)
InspectReceipt(c) ==
  LET t == txn[c]
      found == receipt[t.command] IN
  /\ t.stage = "authorized"
  /\ CommandLocked(c)
  /\ CASE found = t.intent -> Answer(c, Free)
       [] found \notin {NoIntent, t.intent} -> Answer(c, Refused(c))
       [] found = NoIntent ->
            Answer(c, IF t.archived /\ t.intent.op \in {"capability.enable", "registration.put"}
                      THEN Refused(c) ELSE [t EXCEPT !.stage = "inspected"])

-----------------------------------------------------------------------------
(* The change, with its receipt *)

Doing(c, op) == txn[c].stage = "inspected" /\ txn[c].intent.op = op

Receive(c) == receipt' = [receipt EXCEPT ![txn[c].command] = txn[c].intent]

(* The key of a project is unique in its workspace. *)
CreateProject(c) ==
  /\ Doing(c, "project.create")
  /\ IF project = "absent"
     THEN /\ project' = "active"
          /\ cms' = txn[c].intent.cms
          /\ Receive(c) /\ Ends(c, Free)
          /\ UNCHANGED <<registration, client, sent, ended, OAuth, budget>>
     ELSE Answer(c, Refused(c))

(* The project is locked, and a capability is enabled only once. *)
EnableCapability(c) ==
  /\ Doing(c, "capability.enable")
  /\ IF cms THEN Answer(c, Refused(c))
     ELSE /\ cms' = TRUE
          /\ Receive(c) /\ Ends(c, Free)
          /\ UNCHANGED <<project, registration, client, sent, ended, OAuth, budget>>

(* The row of the registration is locked until the end. *)
RegistrationLocked(c) == \A d \in Connections \ {c} : txn[d].stage # "revoking"

UpToDate(c) == txn[c].intent.expected = registration.version

Changed(status, address) ==
  [status |-> status, version |-> registration.version + 1, address |-> address]

(* No change, and a receipt. *)
NoOp(c) ==
  /\ Receive(c) /\ Ends(c, Free)
  /\ UNCHANGED <<project, cms, registration, client, sent, ended, OAuth, budget>>

(* revokeStudioOAuthAuthority: the statements see the tokens and consents  *)
(* that are committed; rows that the provider stores afterwards are missed.*)
StartRevoking(c) ==
  Answer(c, [stage |-> "revoking", command |-> txn[c].command, intent |-> txn[c].intent,
             archived |-> txn[c].archived, tokens |-> LiveTokens, consents |-> Consented])

Moves(c) == registration.status # "absent" /\ txn[c].intent.address # registration.address

PutRegistration(c) ==
  LET x == txn[c].intent IN
  /\ Doing(c, "registration.put") /\ RegistrationLocked(c)
  /\ \/ ~UpToDate(c) /\ Answer(c, Refused(c))
     \/ /\ UpToDate(c) /\ Moves(c) /\ registration.status = "active"
        /\ IF x.actor = "user" THEN StartRevoking(c) ELSE Answer(c, Refused(c))
     \/ UpToDate(c) /\ registration.status # "absent" /\ ~Moves(c) /\ NoOp(c)
     \/ /\ UpToDate(c) /\ registration.status # "active"
        /\ Moves(c) \/ registration.status = "absent"
        /\ registration' = Changed("inactive", x.address)
        /\ Receive(c) /\ Ends(c, Free)
        /\ UNCHANGED <<project, cms, client, sent, ended, OAuth, budget>>

(* decideStudioRuntimeTransition *)
MayActivate(c) ==
  /\ txn[c].intent.actor = "user"
  /\ registration.address \in Portable
  /\ registration.status = "inactive" => ~txn[c].archived /\ cms

DerivedClient == [enabled |-> TRUE, version |-> registration.version + 1,
                  address |-> registration.address]

Activate(c) ==
  /\ registration' = Changed("active", registration.address)
  /\ client' = DerivedClient
  /\ Receive(c) /\ Ends(c, Free)
  /\ UNCHANGED <<project, cms, sent, ended, OAuth, budget>>

SetRuntime(c) ==
  LET x == txn[c].intent IN
  /\ Doing(c, "runtime.set") /\ RegistrationLocked(c)
  /\ IF registration.status = "absent" \/ ~UpToDate(c) \/ (x.enabled /\ ~MayActivate(c))
     THEN Answer(c, Refused(c))
     ELSE \/ x.enabled = (registration.status = "active") /\ NoOp(c)
          \/ x.enabled /\ registration.status = "inactive" /\ Activate(c)
          \/ ~x.enabled /\ registration.status = "active" /\ StartRevoking(c)

(* The end of a runtime: by a new address, or by a command to disable it.  *)
CommitRevocation(c) ==
  LET t == txn[c] IN
  /\ t.stage = "revoking"
  /\ registration' = Changed("inactive", IF t.intent.op = "registration.put"
                                         THEN t.intent.address ELSE registration.address)
  /\ client' = [client EXCEPT !.enabled = FALSE]
  /\ grant' = [g \in Grants |->
       IF <<g, grant[g].row>> \in t.tokens THEN [grant[g] EXCEPT !.live = FALSE] ELSE grant[g]]
  /\ consent' = (consent /\ Consented # t.consents)
  /\ ended' = ended \cup Redeemed
  /\ Receive(c) /\ Ends(c, Free)
  /\ UNCHANGED <<project, cms, sent, budget>>

(* A process dies, or its connection breaks. *)
RollBack(c) ==
  /\ txn[c].stage \in {"authorized", "inspected", "revoking"}
  /\ Answer(c, Free)

-----------------------------------------------------------------------------
(* The dashboard archives and restores the project. *)

SetArchived(archived) ==
  /\ project = IF archived THEN "active" ELSE "archived"
  /\ project' = IF archived THEN "archived" ELSE "active"
  /\ Spend("archive")
  /\ UNCHANGED <<cms, registration, client, receipt, sent, txn, ended, OAuth>>
=============================================================================
