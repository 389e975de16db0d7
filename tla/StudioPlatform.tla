--------------------------- MODULE StudioPlatform ---------------------------
(***************************************************************************)
(* The platform's side of Studio: one project with the registration of its *)
(* Studio, the OAuth client derived from it, the receipts of control-plane *)
(* commands, and the grants a user has given to that client.               *)
(*                                                                         *)
(* Transactions run at READ COMMITTED: a step sees what is committed, what *)
(* a transaction read in an earlier step may be out of date, and only its  *)
(* locks keep others away.  ControlPlane holds the transactions of         *)
(* commands and StudioGrants what the OAuth provider does.                 *)
(***************************************************************************)
EXTENDS Naturals, FiniteSets

CONSTANTS
  Commands,     \* command ids
  Connections,  \* database connections that serve commands
  Addresses,    \* application origin and mount path
  Portable,     \* addresses whose mount path every runtime can serve
  Grants,       \* authorization codes and what comes of them
  Bounds,       \* bounds of the instance, one record for each scenario
  Rows          \* bound: refresh tokens stored for a grant

(* requests: how many the Studio server serves at a time; command, archive *)
(* and grant: commands sent, changes of the project, approvals; refuses:   *)
(* content is refused to usable tokens too (the role they stand for was    *)
(* taken away, say); started: the runtime has been activated before.       *)
Budgets ==
  [requests: Nat, command: Nat, archive: Nat, grant: Nat, refuses: BOOLEAN, started: BOOLEAN]

ASSUME PlatformAssumption ==
  /\ Portable \subseteq Addresses /\ Portable # {}
  /\ Rows \in Nat
  /\ Bounds \subseteq Budgets

VARIABLES
  project,      \* absent, active or archived
  cms,          \* the cms capability is enabled
  registration, \* studio_registration; version 0 when there is none
  client,       \* oauth_client of the registration, disabled when absent
  receipt,      \* control_plane_command_receipt: what a command asked for
  sent,         \* commands that were sent, and may be sent again
  txn,          \* the open transaction of each connection
  consent,      \* the user's oauth_consent for the client
  grant,        \* codes, their establishment audit and refresh tokens
  ended,        \* grants that were redeemed before the runtime was ended
  budget        \* bounds of the instance

commandVars == <<project, cms, registration, client, receipt, sent, txn, ended>>
platformVars == <<commandVars, consent, grant, budget>>

Metadata == [version: Nat, address: Addresses]

(* A command, as its fingerprint tells it from others: the expected        *)
(* version 0 stands for null.                                              *)
Actors == {"user", "credential"}
Intents(versions) ==
  [op: {"project.create"}, actor: {"user"}, cms: BOOLEAN]
    \cup [op: {"capability.enable"}, actor: Actors]
    \cup [op: {"registration.put"}, actor: Actors, expected: versions, address: Addresses]
    \cup [op: {"runtime.set"}, actor: Actors, expected: versions \ {0}, enabled: BOOLEAN]
NoIntent == [op |-> "none"]

(* A connection that has nothing to do, or has just refused a command. *)
Free == [stage |-> "free"]
Serving == [stage: {"authorized", "inspected", "refused"},
            command: Commands, intent: Intents(Nat), archived: BOOLEAN]
(* One that has revoked: the tokens and consents that its statements saw.  *)
Revoking == [stage: {"revoking"}, command: Commands, intent: Intents(Nat), archived: BOOLEAN,
             tokens: SUBSET (Grants \X Nat), consents: SUBSET Grants]

GrantStages == {"none", "approved", "issued", "redeeming", "read", "marked", "held"}

(* seen: the client's metadata when the code was redeemed.  marker: the    *)
(* registration version of studio.session.established, 0 before.  row: the *)
(* number of the refresh token in use, 0 for none; pending: one is about   *)
(* to be stored.                                                           *)
GrantRecords ==
  [stage: GrantStages, seen: Metadata, marker: Nat, row: 0..Rows, live: BOOLEAN,
   pending: BOOLEAN]

PlatformTypeOK ==
  /\ project \in {"absent", "active", "archived"}
  /\ cms \in BOOLEAN
  /\ registration \in [status: {"absent", "inactive", "active"}, version: Nat, address: Addresses]
  /\ client \in [enabled: BOOLEAN, version: Nat, address: Addresses]
  /\ receipt \in [Commands -> Intents(Nat) \cup {NoIntent}]
  /\ sent \in SUBSET (Commands \X Intents(Nat))
  /\ txn \in [Connections -> {Free} \cup Serving \cup Revoking]
  /\ consent \in BOOLEAN
  /\ grant \in [Grants -> GrantRecords]
  /\ ended \in SUBSET Grants
  /\ budget \in Budgets

-----------------------------------------------------------------------------
(* The runtime *)

MetadataOf(r) == [version |-> r.version, address |-> r.address]

(* What authorizeOAuth, the token claims and the bootstrap all ask of the  *)
(* registration, its client and its project.                               *)
RuntimeAvailable ==
  /\ registration.status = "active" /\ registration.address \in Portable
  /\ client.enabled /\ MetadataOf(client) = MetadataOf(registration)
  /\ project = "active" /\ cms

LiveTokens == {<<g, grant[g].row>> : g \in {h \in Grants : grant[h].live}}
Consented  == {g \in Grants : grant[g].stage \notin {"none", "approved"}}
Redeemed   == Consented \ {g \in Grants : grant[g].stage = "issued"}

(* A workspace before its project, or with a runtime that was activated.   *)
InitPlatform ==
  LET started == budget.started IN
  /\ project = IF started THEN "active" ELSE "absent"
  /\ cms = started
  /\ \E a \in Portable :
       /\ registration = [status |-> IF started THEN "active" ELSE "absent",
                          version |-> IF started THEN 2 ELSE 0, address |-> a]
       /\ client = [enabled |-> started, version |-> registration.version, address |-> a]
       /\ grant = [g \in Grants |-> [stage |-> "none", seen |-> MetadataOf(client), marker |-> 0,
                                     row |-> 0, live |-> FALSE, pending |-> FALSE]]
  /\ receipt = [m \in Commands |-> NoIntent]
  /\ sent = {}
  /\ txn = [c \in Connections |-> Free]
  /\ consent = FALSE
  /\ ended = {}

Spend(kind) ==
  /\ budget[kind] > 0
  /\ budget' = [budget EXCEPT ![kind] = @ - 1]
=============================================================================
