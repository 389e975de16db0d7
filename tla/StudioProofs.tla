---------------------------- MODULE StudioProofs ----------------------------
(***************************************************************************)
(* What holds of a Studio and its platform for any number of commands,     *)
(* connections, grants, requests, attempts and sessions, and every bound.  *)
(***************************************************************************)
EXTENDS Studio, FiniteSetTheorems, TLAPS

-----------------------------------------------------------------------------
(* Types *)

LEMMA NoCommandIsNone == NoIntent \notin Intents(Nat)
BY DEF NoIntent, Intents

LEMMA IntentsGrow ==
  ASSUME NEW versions \in SUBSET Nat
  PROVE  Intents(versions) \subseteq Intents(Nat)
BY DEF Intents

LEMMA InitTyped == Init => PlatformTypeOK
<1> SUFFICES ASSUME Init PROVE PlatformTypeOK
  OBVIOUS
<1>1. budget \in Budgets /\ budget.started \in BOOLEAN
  BY PlatformAssumption DEF Init, PlatformAssumption, Budgets
<1>2. PICK a \in Portable :
        /\ registration = [status |-> IF budget.started THEN "active" ELSE "absent",
                           version |-> IF budget.started THEN 2 ELSE 0, address |-> a]
        /\ client = [enabled |-> budget.started, version |-> registration.version, address |-> a]
        /\ grant = [g \in Grants |-> [stage |-> "none", seen |-> MetadataOf(client), marker |-> 0,
                                      row |-> 0, live |-> FALSE, pending |-> FALSE]]
  BY DEF Init, InitPlatform
<1>3. a \in Addresses
  BY PlatformAssumption DEF PlatformAssumption
<1>4. registration \in [status: {"absent", "inactive", "active"}, version: Nat, address: Addresses]
  BY <1>1, <1>2, <1>3
<1>5. client \in [enabled: BOOLEAN, version: Nat, address: Addresses]
  BY <1>1, <1>2, <1>3
<1>6. MetadataOf(client) \in Metadata /\ 0 \in 0..Rows
  BY <1>5, PlatformAssumption DEF MetadataOf, Metadata, PlatformAssumption
<1>7. grant \in [Grants -> GrantRecords]
  BY <1>2, <1>6 DEF GrantRecords, GrantStages
<1>8. receipt \in [Commands -> Intents(Nat) \cup {NoIntent}] /\ txn \in [Connections -> {Free} \cup Serving \cup Revoking]
  BY DEF Init, InitPlatform
<1> QED
  BY <1>1, <1>4, <1>5, <1>7, <1>8 DEF Init, InitPlatform, PlatformTypeOK

(* What a step does to the platform's part.  A request that holds no       *)
(* session calls for no grant, and changes nothing.                        *)
PlatformStep ==
  \/ UNCHANGED platformVars
  \/ \E g : ReturnTokens(g) \/ RenewTokens(g) \/ RevokeTokens(g)
  \/ Administer
  \/ Provide

LEMMA StepKinds == [Next]_vars => PlatformStep
<1> SUFFICES ASSUME [Next]_vars PROVE PlatformStep
  OBVIOUS
<1>1. CASE UNCHANGED vars \/ (Browse /\ UNCHANGED platformVars)
  BY <1>1 DEF PlatformStep, vars
<1>2. ASSUME NEW r \in Requests, CallPlatform(r) PROVE PlatformStep
  BY <1>2, Zenon DEF PlatformStep, CallPlatform
<1>3. CASE Administer \/ Provide
  BY <1>3 DEF PlatformStep
<1> QED
  BY <1>1, <1>2, <1>3 DEF Next

(* Transactions, with and without an outcome *)

LEMMA AnswerTyped ==
  ASSUME PlatformTypeOK, NEW c \in Connections, NEW outcome \in {Free} \cup Serving \cup Revoking,
         Answer(c, outcome)
  PROVE  PlatformTypeOK'
BY DEF PlatformTypeOK, Answer, Ends, OAuth

(* A connection that holds a command. *)
Holding == {"authorized", "inspected", "refused", "revoking"}

LEMMA TxnTyped ==
  ASSUME PlatformTypeOK, NEW c \in Connections, txn[c].stage \in Holding
  PROVE  /\ txn[c].command \in Commands
         /\ txn[c].intent \in Intents(Nat)
         /\ txn[c].archived \in BOOLEAN
         /\ txn[c].stage = "revoking" => txn[c] \in Revoking
         /\ txn[c].stage # "revoking" => txn[c] \in Serving
BY DEF PlatformTypeOK, Holding, Free, Serving, Revoking

LEMMA RefusedTyped ==
  ASSUME PlatformTypeOK, NEW c \in Connections, txn[c].stage \in Holding
  PROVE  Refused(c) \in Serving
BY TxnTyped DEF Refused, Serving

LEMMA LiveTokensTyped == PlatformTypeOK => LiveTokens \subseteq Grants \X Nat
BY PlatformAssumption DEF PlatformTypeOK, LiveTokens, GrantRecords, PlatformAssumption

LEMMA StartRevokingTyped ==
  ASSUME PlatformTypeOK, NEW c \in Connections, txn[c].stage \in Holding, StartRevoking(c)
  PROVE  PlatformTypeOK'
<1>1. [stage |-> "revoking", command |-> txn[c].command, intent |-> txn[c].intent,
       archived |-> txn[c].archived, tokens |-> LiveTokens, consents |-> Consented] \in Revoking
  BY TxnTyped, LiveTokensTyped DEF Revoking, Consented
<1> QED
  BY <1>1, AnswerTyped DEF StartRevoking

LEMMA ReceiveTyped ==
  ASSUME PlatformTypeOK, NEW c \in Connections, txn[c].stage \in Holding, Receive(c), Ends(c, Free)
  PROVE  /\ receipt' \in [Commands -> Intents(Nat) \cup {NoIntent}]
         /\ txn' \in [Connections -> {Free} \cup Serving \cup Revoking]
BY TxnTyped DEF Receive, Ends, PlatformTypeOK

LEMMA CommandsTyped ==
  ASSUME PlatformTypeOK, Administer
  PROVE  PlatformTypeOK'
<1>1. ASSUME NEW m \in Commands, NEW x \in Wanted, Send(m, x) PROVE PlatformTypeOK'
  <2>1. x \in Intents(Nat)
    BY IntentsGrow DEF Wanted, PlatformTypeOK
  <2>2. budget' \in Budgets
    BY <1>1 DEF Send, Spend, PlatformTypeOK, Budgets
  <2> QED
    BY <1>1, <2>1, <2>2 DEF Send, PlatformTypeOK, OAuth
<1>2. ASSUME NEW archived \in BOOLEAN, SetArchived(archived) PROVE PlatformTypeOK'
  <2>1. budget' \in Budgets
    BY <1>2 DEF SetArchived, Spend, PlatformTypeOK, Budgets
  <2> QED
    BY <1>2, <2>1 DEF SetArchived, PlatformTypeOK, OAuth
<1>3. ASSUME NEW c \in Connections, NEW q \in sent, Authorize(c, q) PROVE PlatformTypeOK'
  <2>1. [stage |-> "authorized", command |-> q[1], intent |-> q[2],
         archived |-> project = "archived"] \in Serving
    BY DEF Serving, PlatformTypeOK
  <2> QED
    BY <1>3, <2>1, AnswerTyped DEF Authorize
<1>4. ASSUME NEW c \in Connections, InspectReceipt(c) PROVE PlatformTypeOK'
  <2>1. txn[c].stage \in Holding
    BY <1>4 DEF InspectReceipt, Holding
  <2>2. [txn[c] EXCEPT !.stage = "inspected"] \in Serving
    BY <1>4, <2>1, TxnTyped DEF InspectReceipt, Serving
  <2>3. receipt[txn[c].command] \in Intents(Nat) \cup {NoIntent}
    BY <2>1, TxnTyped DEF PlatformTypeOK
  <2>4. CASE Answer(c, Free)
    BY <2>4, AnswerTyped
  <2>5. CASE Answer(c, Refused(c))
    BY <2>1, <2>5, AnswerTyped, RefusedTyped
  <2>6. CASE Answer(c, [txn[c] EXCEPT !.stage = "inspected"])
    BY <2>2, <2>6, AnswerTyped
  <2> QED
    BY <1>4, <2>3, <2>4, <2>5, <2>6 DEF InspectReceipt
<1>5. ASSUME NEW c \in Connections, RollBack(c) PROVE PlatformTypeOK'
  BY <1>5, AnswerTyped DEF RollBack
<1>6. ASSUME NEW c \in Connections, CreateProject(c) PROVE PlatformTypeOK'
  <2>1. txn[c].stage \in Holding
    BY <1>6 DEF CreateProject, Doing, Holding
  <2>2. CASE Answer(c, Refused(c))
    BY <2>1, <2>2, AnswerTyped, RefusedTyped
  <2>3. CASE project = "absent"
    <3>1. txn[c].intent.cms \in BOOLEAN
      BY <1>6, <2>1, TxnTyped DEF CreateProject, Doing, Intents
    <3> QED
      BY <1>6, <2>1, <2>3, <3>1, ReceiveTyped DEF CreateProject, PlatformTypeOK, OAuth
  <2> QED
    BY <1>6, <2>2, <2>3 DEF CreateProject
<1>7. ASSUME NEW c \in Connections, EnableCapability(c) PROVE PlatformTypeOK'
  <2>1. txn[c].stage \in Holding
    BY <1>7 DEF EnableCapability, Doing, Holding
  <2>2. CASE Answer(c, Refused(c))
    BY <2>1, <2>2, AnswerTyped, RefusedTyped
  <2>3. CASE ~cms
    BY <1>7, <2>1, <2>3, ReceiveTyped DEF EnableCapability, PlatformTypeOK, OAuth
  <2> QED
    BY <1>7, <2>2, <2>3 DEF EnableCapability
<1>8. ASSUME NEW c \in Connections, PutRegistration(c) PROVE PlatformTypeOK'
  <2>1. txn[c].stage \in Holding /\ txn[c].intent.op = "registration.put"
    BY <1>8 DEF PutRegistration, Doing, Holding
  <2>2. CASE Answer(c, Refused(c))
    BY <2>1, <2>2, AnswerTyped, RefusedTyped
  <2>3. CASE StartRevoking(c)
    BY <2>1, <2>3, StartRevokingTyped
  <2>4. CASE NoOp(c)
    BY <2>1, <2>4, ReceiveTyped DEF NoOp, PlatformTypeOK, OAuth
  <2>5. CASE /\ registration' = Changed("inactive", txn[c].intent.address)
             /\ Receive(c) /\ Ends(c, Free)
             /\ UNCHANGED <<project, cms, client, sent, ended, OAuth, budget>>
    <3>1. txn[c].intent.address \in Addresses
      BY <2>1, TxnTyped DEF Intents
    <3>2. registration' \in [status: {"absent", "inactive", "active"}, version: Nat, address: Addresses]
      BY <2>5, <3>1 DEF Changed, PlatformTypeOK
    <3> QED
      BY <2>1, <2>5, <3>2, ReceiveTyped DEF PlatformTypeOK, OAuth
  <2> QED
    BY <1>8, <2>2, <2>3, <2>4, <2>5 DEF PutRegistration
<1>9. ASSUME NEW c \in Connections, SetRuntime(c) PROVE PlatformTypeOK'
  <2>1. txn[c].stage \in Holding
    BY <1>9 DEF SetRuntime, Doing, Holding
  <2>2. CASE Answer(c, Refused(c))
    BY <2>1, <2>2, AnswerTyped, RefusedTyped
  <2>3. CASE StartRevoking(c)
    BY <2>1, <2>3, StartRevokingTyped
  <2>4. CASE NoOp(c)
    BY <2>1, <2>4, ReceiveTyped DEF NoOp, PlatformTypeOK, OAuth
  <2>5. CASE Activate(c)
    BY <2>1, <2>5, ReceiveTyped DEF Activate, Changed, DerivedClient, PlatformTypeOK, OAuth
  <2> QED
    BY <1>9, <2>2, <2>3, <2>4, <2>5 DEF SetRuntime
<1>10. ASSUME NEW c \in Connections, CommitRevocation(c) PROVE PlatformTypeOK'
  <2>1. txn[c].stage \in Holding
    BY <1>10 DEF CommitRevocation, Holding
  <2>2. registration' \in [status: {"absent", "inactive", "active"}, version: Nat, address: Addresses]
    <3>1. txn[c].intent.op = "registration.put" => txn[c].intent.address \in Addresses
      BY <2>1, TxnTyped DEF Intents
    <3> QED
      BY <1>10, <3>1 DEF CommitRevocation, Changed, PlatformTypeOK
  <2>3. client' \in [enabled: BOOLEAN, version: Nat, address: Addresses]
    BY <1>10 DEF CommitRevocation, PlatformTypeOK
  <2>4. grant' \in [Grants -> GrantRecords]
    BY <1>10 DEF CommitRevocation, PlatformTypeOK, GrantRecords
  <2>5. consent' \in BOOLEAN /\ ended' \in SUBSET Grants
    BY <1>10 DEF CommitRevocation, PlatformTypeOK, Redeemed, Consented
  <2> QED
    BY <1>10, <2>1, <2>2, <2>3, <2>4, <2>5, ReceiveTyped DEF CommitRevocation, PlatformTypeOK
<1> QED
  BY <1>1, <1>2, <1>3, <1>4, <1>5, <1>6, <1>7, <1>8, <1>9, <1>10 DEF Administer

LEMMA GrantsTyped ==
  ASSUME PlatformTypeOK,
         Provide \/ \E g : ReturnTokens(g) \/ RenewTokens(g) \/ RevokeTokens(g)
  PROVE  PlatformTypeOK'
<1> USE DEF Step, GrantOthers, commandVars, GrantRecords, GrantStages
<1>1. ASSUME NEW g \in Grants, Approve(g) PROVE PlatformTypeOK'
  <2>1. budget' \in Budgets
    BY <1>1 DEF Approve, Spend, PlatformTypeOK, Budgets
  <2> QED
    BY <1>1, <2>1 DEF Approve, PlatformTypeOK
<1>2. ASSUME NEW g \in Grants, IssueCode(g) PROVE PlatformTypeOK'
  BY <1>2 DEF IssueCode, PlatformTypeOK
<1>3. ASSUME NEW g \in Grants, RedeemCode(g) PROVE PlatformTypeOK'
  <2>1. MetadataOf(client) \in Metadata
    BY DEF PlatformTypeOK, MetadataOf, Metadata
  <2>2. [grant[g] EXCEPT !.stage = "redeeming", !.seen = MetadataOf(client)] \in GrantRecords
    BY <2>1 DEF PlatformTypeOK
  <2>3. grant' = [grant EXCEPT ![g] = [grant[g] EXCEPT !.stage = "redeeming",
                                                       !.seen = MetadataOf(client)]]
    BY <1>3 DEF RedeemCode, PlatformTypeOK
  <2>4. grant' \in [Grants -> GrantRecords]
    <3> HIDE DEF GrantRecords
    <3> QED BY <2>2, <2>3 DEF PlatformTypeOK
  <2> QED
    BY <1>3, <2>4 DEF RedeemCode, PlatformTypeOK
<1>4. ASSUME NEW g \in Grants, ReadRegistration(g) PROVE PlatformTypeOK'
  BY <1>4 DEF ReadRegistration, PlatformTypeOK
<1>5. ASSUME NEW g \in Grants, EstablishMarker(g) PROVE PlatformTypeOK'
  <2> DEFINE marked == [grant[g] EXCEPT !.stage = "marked", !.marker = grant[g].seen.version]
  <2>1. grant \in [Grants -> GrantRecords] /\ grant[g].seen.version \in Nat
    BY DEF PlatformTypeOK, Metadata
  <2>2. marked \in GrantRecords
    BY <2>1
  <2>3. grant' = [grant EXCEPT ![g] = marked]
    BY <1>5, <2>1 DEF EstablishMarker
  <2>4. grant' \in [Grants -> GrantRecords]
    <3> HIDE DEF marked, GrantRecords
    <3> QED
      BY <2>1, <2>2, <2>3
  <2> QED
    BY <1>5, <2>4 DEF EstablishMarker, PlatformTypeOK
<1>6. ASSUME NEW g \in Grants, StoreToken(g) PROVE PlatformTypeOK'
  <2>1. grant[g].row + 1 \in 0..Rows
    BY <1>6, PlatformAssumption DEF StoreToken, PlatformTypeOK, PlatformAssumption
  <2>2. [grant[g] EXCEPT !.row = @ + 1, !.live = TRUE, !.pending = FALSE] \in GrantRecords
    BY <2>1 DEF PlatformTypeOK
  <2>3. grant' = [grant EXCEPT ![g] = [grant[g] EXCEPT !.row = @ + 1, !.live = TRUE, !.pending = FALSE]]
    BY <1>6 DEF StoreToken, PlatformTypeOK
  <2> QED
    BY <1>6, <2>2, <2>3 DEF StoreToken, PlatformTypeOK
<1>7. ASSUME NEW g, ReturnTokens(g) \/ RenewTokens(g) \/ RevokeTokens(g) PROVE PlatformTypeOK'
  <2>1. ASSUME g \notin Grants PROVE grant' \in [Grants -> GrantRecords]
    <3>1. grant' = grant
      BY <1>7, <2>1 DEF ReturnTokens, RenewTokens, RevokeTokens, PlatformTypeOK
    <3> QED
      BY <3>1 DEF PlatformTypeOK
  <2>2. ASSUME g \in Grants PROVE grant' \in [Grants -> GrantRecords]
    <3>1. /\ [grant[g] EXCEPT !.stage = "held"] \in GrantRecords
          /\ [grant[g] EXCEPT !.pending = TRUE] \in GrantRecords
          /\ [grant[g] EXCEPT !.live = FALSE] \in GrantRecords
      BY <2>2 DEF PlatformTypeOK
    <3>2. \/ grant' = grant
          \/ grant' = [grant EXCEPT ![g] = [grant[g] EXCEPT !.stage = "held"]]
          \/ grant' = [grant EXCEPT ![g] = [grant[g] EXCEPT !.pending = TRUE]]
          \/ grant' = [grant EXCEPT ![g] = [grant[g] EXCEPT !.live = FALSE]]
      BY <1>7, <2>2 DEF ReturnTokens, RenewTokens, RevokeTokens, PlatformTypeOK
    <3>3. grant \in [Grants -> GrantRecords]
      BY DEF PlatformTypeOK
    <3> HIDE DEF GrantRecords
    <3> QED
      BY <2>2, <3>1, <3>2, <3>3
  <2>3. grant' \in [Grants -> GrantRecords]
    BY <2>1, <2>2
  <2> QED
    BY <1>7, <2>3 DEF ReturnTokens, RenewTokens, RevokeTokens, PlatformTypeOK
<1> QED
  BY <1>1, <1>2, <1>3, <1>4, <1>5, <1>6, <1>7 DEF Provide

LEMMA StepTyped == PlatformTypeOK /\ [Next]_vars => PlatformTypeOK'
<1>1. UNCHANGED platformVars => (PlatformTypeOK => PlatformTypeOK')
  BY DEF platformVars, commandVars, PlatformTypeOK
<1> QED
  BY <1>1, StepKinds, CommandsTyped, GrantsTyped DEF PlatformStep

(* Every variable of the platform keeps its type.                          *)
THEOREM PlatformTypeCorrect == Spec => []PlatformTypeOK
BY InitTyped, StepTyped, PTL DEF Spec

-----------------------------------------------------------------------------
(* Grants and the versions of the registration *)

HasSeen(g) == grant[g].stage \in {"redeeming", "read", "marked", "held"}

(* A redeemed grant has seen a version that the registration has had, its  *)
(* audit marker is of that version, and the end of the runtime has left    *)
(* that version behind: versions only grow, so no marker catches up.       *)
GrantInv ==
  /\ client.version <= registration.version
  /\ \A g \in Grants :
       /\ HasSeen(g) => grant[g].seen.version <= registration.version
       /\ grant[g].marker # 0 => HasSeen(g) /\ grant[g].marker = grant[g].seen.version
  /\ \A g \in ended : HasSeen(g) /\ grant[g].seen.version < registration.version

LEMMA InitGrants == Init => GrantInv
BY PlatformAssumption DEF Init, InitPlatform, GrantInv, HasSeen, PlatformAssumption, Budgets

LEMMA GrantsKeptByCommands ==
  ASSUME PlatformTypeOK, GrantInv, Administer
  PROVE  GrantInv'
<1> USE DEF GrantInv, HasSeen
<1>1. CASE UNCHANGED <<registration, client, grant, ended>>
  BY <1>1
<1>2. ASSUME NEW c \in Connections, Activate(c) PROVE GrantInv'
  BY <1>2 DEF Activate, Changed, DerivedClient, PlatformTypeOK, OAuth, GrantRecords, Metadata
<1>3. ASSUME NEW c \in Connections, NEW address,
             registration' = Changed("inactive", address), UNCHANGED <<client, grant, ended>>
      PROVE  GrantInv'
  BY <1>3 DEF Changed, PlatformTypeOK, GrantRecords, Metadata
<1>4. ASSUME NEW c \in Connections, CommitRevocation(c) PROVE GrantInv'
  <2>1. registration'.version = registration.version + 1 /\ client'.version = client.version
    BY <1>4 DEF CommitRevocation, Changed, PlatformTypeOK
  <2>2. \A g \in Grants : /\ grant'[g].stage = grant[g].stage
                          /\ grant'[g].seen = grant[g].seen
                          /\ grant'[g].marker = grant[g].marker
    BY <1>4 DEF CommitRevocation, PlatformTypeOK, GrantRecords
  <2>3. \A g \in ended' : g \in Grants /\ HasSeen(g)
    BY <1>4 DEF CommitRevocation, Redeemed, Consented, PlatformTypeOK, GrantRecords, GrantStages
  <2> QED
    BY <2>1, <2>2, <2>3 DEF PlatformTypeOK, GrantRecords, Metadata
<1>5. ASSUME NEW c \in Connections, NEW outcome, Answer(c, outcome) PROVE GrantInv'
  BY <1>5, <1>1 DEF Answer, OAuth
<1>6. ASSUME NEW c \in Connections, PutRegistration(c) PROVE GrantInv'
  BY <1>6, <1>1, <1>3, <1>5 DEF PutRegistration, StartRevoking, NoOp, OAuth
<1>7. ASSUME NEW c \in Connections, SetRuntime(c) PROVE GrantInv'
  BY <1>7, <1>1, <1>2, <1>5 DEF SetRuntime, StartRevoking, NoOp, OAuth
<1>8. ASSUME NEW c \in Connections,
             InspectReceipt(c) \/ RollBack(c) \/ CreateProject(c) \/ EnableCapability(c)
      PROVE  GrantInv'
  BY <1>8, <1>1, <1>5 DEF InspectReceipt, RollBack, CreateProject, EnableCapability, OAuth
<1>9. ASSUME NEW c \in Connections, NEW q \in sent, Authorize(c, q) PROVE GrantInv'
  BY <1>9, <1>5 DEF Authorize
<1>10. ASSUME NEW m \in Commands, NEW x \in Wanted, Send(m, x) PROVE GrantInv'
  BY <1>10, <1>1 DEF Send, OAuth
<1>11. ASSUME NEW archived \in BOOLEAN, SetArchived(archived) PROVE GrantInv'
  BY <1>11, <1>1 DEF SetArchived, OAuth
<1> QED
  BY <1>4, <1>6, <1>7, <1>8, <1>9, <1>10, <1>11 DEF Administer

LEMMA GrantsKeptByProvider ==
  ASSUME PlatformTypeOK, GrantInv,
         Provide \/ \E g : ReturnTokens(g) \/ RenewTokens(g) \/ RevokeTokens(g)
  PROVE  GrantInv'
<1>1. UNCHANGED <<registration, client, ended>>
  BY DEF Provide, Approve, IssueCode, RedeemCode, ReadRegistration, EstablishMarker, StoreToken,
         ReturnTokens, RenewTokens, RevokeTokens, GrantOthers, commandVars
<1> DEFINE Same == \A h \in Grants : /\ grant'[h].stage = grant[h].stage
                                      /\ grant'[h].seen = grant[h].seen
                                      /\ grant'[h].marker = grant[h].marker
<1>2. Same => GrantInv'
  BY <1>1 DEF GrantInv, HasSeen, PlatformTypeOK
<1>3. ASSUME NEW g \in Grants, StoreToken(g) PROVE GrantInv'
  <2>1. Same
    BY <1>3 DEF StoreToken, PlatformTypeOK, GrantRecords
  <2> QED
    BY <1>2, <2>1
<1>4. ASSUME NEW g, RenewTokens(g) \/ RevokeTokens(g) PROVE GrantInv'
  <2>1. RenewTokens(g) => Same
    BY DEF RenewTokens, PlatformTypeOK, GrantRecords
  <2>2. RevokeTokens(g) => Same
    BY DEF RevokeTokens, PlatformTypeOK, GrantRecords
  <2> QED
    BY <1>2, <1>4, <2>1, <2>2
<1>5. ASSUME NEW g \in Grants, Approve(g) \/ IssueCode(g) PROVE GrantInv'
  <2>1. ~HasSeen(g) /\ ~HasSeen(g)' /\ grant'[g].marker = grant[g].marker
    BY <1>5 DEF Approve, IssueCode, Step, HasSeen, PlatformTypeOK, GrantRecords
  <2>2. \A h \in Grants \ {g} : grant'[h] = grant[h]
    BY <1>5 DEF Approve, IssueCode, Step, PlatformTypeOK
  <2> QED
    BY <1>1, <2>1, <2>2 DEF GrantInv, HasSeen, PlatformTypeOK
<1>6. ASSUME NEW g \in Grants, RedeemCode(g) PROVE GrantInv'
  BY <1>1, <1>6 DEF RedeemCode, MetadataOf, GrantInv, HasSeen, PlatformTypeOK, GrantRecords
<1>7. ASSUME NEW g \in Grants, ReadRegistration(g) PROVE GrantInv'
  BY <1>1, <1>7 DEF ReadRegistration, Step, GrantInv, HasSeen, PlatformTypeOK, GrantRecords
<1>8. ASSUME NEW g \in Grants, EstablishMarker(g) PROVE GrantInv'
  BY <1>1, <1>8 DEF EstablishMarker, GrantInv, HasSeen, PlatformTypeOK, GrantRecords
<1>9. ASSUME NEW g, ReturnTokens(g) PROVE GrantInv'
  BY <1>1, <1>9 DEF ReturnTokens, Step, GrantInv, HasSeen, PlatformTypeOK, GrantRecords
<1> QED
  BY <1>3, <1>4, <1>5, <1>6, <1>7, <1>8, <1>9 DEF Provide

LEMMA StepKeepsGrants == PlatformTypeOK /\ GrantInv /\ [Next]_vars => GrantInv'
<1>1. UNCHANGED platformVars => (GrantInv => GrantInv')
  BY DEF platformVars, commandVars, GrantInv, HasSeen
<1> QED
  BY <1>1, StepKinds, GrantsKeptByCommands, GrantsKeptByProvider DEF PlatformStep

LEMMA GrantInvImplies == PlatformTypeOK /\ GrantInv => AuthorityEndsWithItsRuntime
BY DEF GrantInv, AuthorityEndsWithItsRuntime, Usable, MarkedForThisVersion, PlatformTypeOK,
       GrantRecords, Metadata

(* The authority of a grant ends with the runtime it was given in, for any *)
(* number of grants and of commands that end and begin runtimes.           *)
THEOREM AuthorityEnds == Spec => []AuthorityEndsWithItsRuntime
<1>1. Init => PlatformTypeOK /\ GrantInv
  BY InitTyped, InitGrants
<1>2. (PlatformTypeOK /\ GrantInv) /\ [Next]_vars => (PlatformTypeOK /\ GrantInv)'
  BY StepTyped, StepKeepsGrants
<1> QED
  BY <1>1, <1>2, GrantInvImplies, PTL DEF Spec

-----------------------------------------------------------------------------
(* Receipts *)

Carrying(c) == txn[c].stage \in {"inspected", "revoking"}

(* A transaction that has found no receipt holds the lock of its command   *)
(* until it ends, so no receipt appears meanwhile.                         *)
ReceiptInv ==
  /\ \A c \in Connections : Carrying(c) => receipt[txn[c].command] = NoIntent
  /\ \A c, d \in Connections :
       Carrying(c) /\ Carrying(d) /\ c # d => txn[c].command # txn[d].command

LEMMA InitReceipts == Init => ReceiptInv
BY DEF Init, InitPlatform, ReceiptInv, Carrying, Free

LEMMA ReceiptsKept ==
  ASSUME PlatformTypeOK, ReceiptInv, Administer
  PROVE  ReceiptInv'
<1> USE DEF ReceiptInv, Carrying
<1>1. CASE UNCHANGED <<receipt, txn>>
  BY <1>1
<1>2. ASSUME NEW c \in Connections, NEW outcome, Answer(c, outcome),
             outcome.stage \notin {"inspected", "revoking"}
                \/ (Carrying(c) /\ outcome.command = txn[c].command)
      PROVE  ReceiptInv'
  BY <1>2 DEF Answer, Ends, PlatformTypeOK
<1>3. ASSUME NEW c \in Connections, Carrying(c), Receive(c), Ends(c, Free) PROVE ReceiptInv'
  BY <1>3, TxnTyped DEF Receive, Ends, Free, PlatformTypeOK, Holding
<1>4. ASSUME NEW c \in Connections, Answer(c, Free) \/ Answer(c, Refused(c)) PROVE ReceiptInv'
  BY <1>4, <1>2 DEF Free, Refused
<1>5. ASSUME NEW c \in Connections, Carrying(c), StartRevoking(c) PROVE ReceiptInv'
  BY <1>5, <1>2 DEF StartRevoking
<1>6. ASSUME NEW c \in Connections, InspectReceipt(c) PROVE ReceiptInv'
  <2>1. CASE /\ receipt[txn[c].command] = NoIntent
             /\ Answer(c, [txn[c] EXCEPT !.stage = "inspected"])
    <3>1. txn[c] \in Serving
      BY <1>6, TxnTyped DEF InspectReceipt, Holding
    <3>2. [txn[c] EXCEPT !.stage = "inspected"].command = txn[c].command
      BY <3>1 DEF Serving
    <3>3. \A d \in Connections \ {c} : Carrying(d) => txn[d].command # txn[c].command
      BY <1>6 DEF InspectReceipt, CommandLocked
    <3> QED
      BY <2>1, <3>2, <3>3 DEF Answer, Ends, PlatformTypeOK
  <2>2. receipt[txn[c].command] \in Intents(Nat) \cup {NoIntent}
    BY <1>6, TxnTyped DEF InspectReceipt, Holding, PlatformTypeOK
  <2> QED
    BY <1>4, <1>6, <2>1, <2>2 DEF InspectReceipt
<1>7. ASSUME NEW c \in Connections, CreateProject(c) \/ EnableCapability(c) PROVE ReceiptInv'
  BY <1>3, <1>4, <1>7 DEF CreateProject, EnableCapability, Doing
<1>8. ASSUME NEW c \in Connections, PutRegistration(c) PROVE ReceiptInv'
  BY <1>3, <1>4, <1>5, <1>8 DEF PutRegistration, NoOp, Doing
<1>9. ASSUME NEW c \in Connections, SetRuntime(c) PROVE ReceiptInv'
  BY <1>3, <1>4, <1>5, <1>9 DEF SetRuntime, NoOp, Activate, Doing
<1>10. ASSUME NEW c \in Connections, CommitRevocation(c) PROVE ReceiptInv'
  BY <1>3, <1>10 DEF CommitRevocation
<1>11. ASSUME NEW c \in Connections, RollBack(c) PROVE ReceiptInv'
  BY <1>4, <1>11 DEF RollBack
<1>12. ASSUME NEW c \in Connections, NEW q \in sent, Authorize(c, q) PROVE ReceiptInv'
  BY <1>2, <1>12 DEF Authorize
<1>13. ASSUME NEW m \in Commands, NEW x \in Wanted, Send(m, x) PROVE ReceiptInv'
  BY <1>1, <1>13 DEF Send
<1>14. ASSUME NEW archived \in BOOLEAN, SetArchived(archived) PROVE ReceiptInv'
  BY <1>1, <1>14 DEF SetArchived
<1> QED
  BY <1>6, <1>7, <1>8, <1>9, <1>10, <1>11, <1>12, <1>13, <1>14 DEF Administer

LEMMA TxnsUntouched ==
  ASSUME \/ UNCHANGED platformVars
         \/ Provide
         \/ \E g : ReturnTokens(g) \/ RenewTokens(g) \/ RevokeTokens(g)
  PROVE  UNCHANGED <<receipt, txn>>
BY DEF platformVars, Provide, Approve, IssueCode, RedeemCode, ReadRegistration, EstablishMarker,
       StoreToken, ReturnTokens, RenewTokens, RevokeTokens, GrantOthers, commandVars

LEMMA StepKeepsReceipts == PlatformTypeOK /\ ReceiptInv /\ [Next]_vars => ReceiptInv'
<1>1. UNCHANGED <<receipt, txn>> => (ReceiptInv => ReceiptInv')
  BY DEF ReceiptInv, Carrying
<1> QED
  BY <1>1, StepKinds, ReceiptsKept, TxnsUntouched DEF PlatformStep

(* What CommittedIsConfirmed says of one step. *)
Confirmed ==
  \A c \in Connections :
    txn'[c].stage = "refused" /\ txn[c].stage # "refused" =>
      receipt[txn[c].command] # txn[c].intent

LEMMA RefusalsAreTrue ==
  ASSUME PlatformTypeOK, ReceiptInv, Administer
  PROVE  Confirmed
<1>1. ASSUME NEW c \in Connections,
             Doing(c, "project.create") \/ Doing(c, "capability.enable")
               \/ Doing(c, "registration.put") \/ Doing(c, "runtime.set")
      PROVE  receipt[txn[c].command] # txn[c].intent
  BY <1>1, TxnTyped, NoCommandIsNone DEF Doing, Holding, ReceiptInv, Carrying
<1>2. ASSUME NEW c \in Connections, InspectReceipt(c), txn'[c].stage = "refused"
      PROVE  receipt[txn[c].command] # txn[c].intent
  <2>1. txn[c].intent # NoIntent
    BY <1>2, TxnTyped, NoCommandIsNone DEF InspectReceipt, Holding
  <2>2. receipt[txn[c].command] = txn[c].intent => Answer(c, Free)
    BY <1>2, <2>1 DEF InspectReceipt
  <2> QED
    BY <1>2, <2>2 DEF Answer, Ends, Free, PlatformTypeOK
<1>3. ASSUME NEW c \in Connections, NEW d \in Connections, NEW outcome, Ends(c, outcome),
             txn'[d].stage = "refused", txn[d].stage # "refused"
      PROVE  d = c /\ outcome.stage = "refused"
  BY <1>3 DEF Ends, PlatformTypeOK
<1>4. ASSUME NEW c \in Connections,
             CreateProject(c) \/ EnableCapability(c) \/ PutRegistration(c) \/ SetRuntime(c)
      PROVE  Confirmed
  <2>1. PICK outcome : Ends(c, outcome)
    BY <1>4 DEF CreateProject, EnableCapability, PutRegistration, SetRuntime, NoOp, Activate,
                StartRevoking, Answer
  <2> QED
    BY <1>1, <1>3, <1>4, <2>1 DEF Confirmed, CreateProject, EnableCapability, PutRegistration, SetRuntime
<1>5. ASSUME NEW c \in Connections, InspectReceipt(c) PROVE Confirmed
  <2>1. PICK outcome : Ends(c, outcome)
    BY <1>5 DEF InspectReceipt, Answer
  <2> QED
    BY <1>2, <1>3, <1>5, <2>1 DEF Confirmed
<1>6. ASSUME NEW c \in Connections,
             RollBack(c) \/ CommitRevocation(c) \/ \E q \in sent : Authorize(c, q)
      PROVE  Confirmed
  <2>1. ASSUME NEW outcome, Ends(c, outcome), outcome.stage # "refused" PROVE Confirmed
    BY <1>3, <2>1 DEF Confirmed
  <2>2. CASE RollBack(c) \/ CommitRevocation(c)
    BY <2>1, <2>2 DEF RollBack, CommitRevocation, Answer, Free
  <2>3. ASSUME NEW q \in sent, Authorize(c, q) PROVE Confirmed
    BY <2>1, <2>3 DEF Authorize, Answer
  <2> QED
    BY <1>6, <2>2, <2>3
<1>7. UNCHANGED txn => Confirmed
  BY DEF Confirmed
<1>8. ASSUME NEW m \in Commands, NEW x \in Wanted, Send(m, x) PROVE Confirmed
  BY <1>7, <1>8 DEF Send
<1>9. ASSUME NEW archived \in BOOLEAN, SetArchived(archived) PROVE Confirmed
  BY <1>7, <1>9 DEF SetArchived
<1> QED
  BY <1>4, <1>5, <1>6, <1>8, <1>9 DEF Administer

(* A command that took effect is not refused when it is sent again, for    *)
(* any number of commands, connections and retries.                        *)
THEOREM CommandsConfirmed == Spec => CommittedIsConfirmed
<1>1. Init => PlatformTypeOK /\ ReceiptInv
  BY InitTyped, InitReceipts
<1>2. (PlatformTypeOK /\ ReceiptInv) /\ [Next]_vars => (PlatformTypeOK /\ ReceiptInv)'
  BY StepTyped, StepKeepsReceipts
<1>3. UNCHANGED txn => Confirmed
  BY DEF Confirmed
<1>4. PlatformTypeOK /\ ReceiptInv /\ [Next]_vars => [Confirmed]_vars
  BY <1>3, StepKinds, TxnsUntouched, RefusalsAreTrue DEF PlatformStep
<1> QED
  BY <1>1, <1>2, <1>4, PTL DEF Spec, CommittedIsConfirmed, Confirmed

-----------------------------------------------------------------------------
(* Sessions *)

(* The refresh token of a generation is unused until its refresh is        *)
(* dispatched, and a later one has not been given out.                     *)
UnusedTokens ==
  \A s \in Sessions :
    /\ session[s].status = "absent" => \A n \in Generations : submitted[<<s, n>>] = 0
    /\ Live(s) =>
         /\ session[s].owner = None => ~session[s].dispatched
         /\ ~session[s].dispatched => submitted[<<s, session[s].generation>>] = 0
         /\ \A n \in Generations : n > session[s].generation => submitted[<<s, n>>] = 0

(* The request that is about to submit a refresh token is the only one     *)
(* that will: its record, while there is one, names it as the owner of a   *)
(* dispatched refresh, which no lease can take over.                       *)
DispatchedIsFenced ==
  \A r \in Requests :
    LET s == request[r].session IN
    At(r, "dispatched") =>
      /\ session[s].status # "absent"
      /\ submitted[Token(r)] = 0
      /\ Live(s) => OwnsRefresh(r) /\ session[s].dispatched
      /\ \A q \in Requests \ {r} : At(q, "dispatched") => request[q].session # s

(* The tokens that a request holds are those of the generation it read,    *)
(* and after a refresh those of the next.                                  *)
HeldTokens ==
  \A r \in Requests :
    /\ request[r].stage \notin {"idle", "inspected", "consumed"} => request[r].session \in Sessions
    /\ request[r].stage \in {"loaded", "claimed", "dispatched"} =>
         request[r].tokens = request[r].generation
    /\ request[r].stage \in {"renewed", "verified"} =>
         request[r].tokens = request[r].generation + 1

(* A callback that has consumed its attempt is the only one to have done   *)
(* so, and the key it draws is the key of no session and no other request. *)
SigningIn(r) == request[r].stage \in {"consumed", "exchanged"}

CallbacksAreApart ==
  /\ \A r \in Requests :
       /\ At(r, "inspected") => request[r].attempt \in Attempts
       /\ SigningIn(r) =>
            /\ request[r].attempt \in Attempts
            /\ attempt[request[r].attempt] = "consumed"
            /\ opened[request[r].attempt] = {}
            /\ \A q \in Requests \ {r} : SigningIn(q) => request[q].attempt # request[r].attempt
       /\ At(r, "exchanged") =>
            /\ session[request[r].session].status = "absent"
            /\ \A q \in Requests \ {r} : request[q].session # request[r].session
       /\ At(r, "created") => request[r].attempt \in Attempts
  /\ \A a \in Attempts :
       /\ attempt[a] # "consumed" => opened[a] = {}
       /\ opened[a] = {} \/ \E s \in Sessions : opened[a] = {s}

(* What a request read may be out of date by the time it writes; the fence *)
(* of the record and the consumed attempt are what make the difference.    *)
SessionInv ==
  /\ StoreTypeOK
  /\ SubmittedOnce
  /\ EnvelopeIsCurrent
  /\ UnusedTokens
  /\ DispatchedIsFenced
  /\ HeldTokens
  /\ CallbacksAreApart

(* A request goes on with x in its hands. *)
NowHolds(r, x) ==
  /\ r \in Requests /\ x \in Held
  /\ request' \in [Requests -> Held]
  /\ \A q \in Requests : request'[q] = IF q = r THEN x ELSE request[q]

(* A record of the store is written. *)
NowStored(s, row) ==
  /\ s \in Sessions /\ row \in Records
  /\ session' \in [Sessions -> Records]
  /\ \A t \in Sessions : session'[t] = IF t = s THEN row ELSE session[t]

Moved(r, stage) == [request[r] EXCEPT !.stage = stage]

LEMMA OneRequest ==
  ASSUME StoreTypeOK, NEW r \in Requests, NEW x \in Held, request' = [request EXCEPT ![r] = x]
  PROVE  NowHolds(r, x)
BY DEF StoreTypeOK, NowHolds

LEMMA OneRecord ==
  ASSUME StoreTypeOK, NEW s \in Sessions, NEW row \in Records,
         session' = [session EXCEPT ![s] = row]
  PROVE  NowStored(s, row)
BY DEF StoreTypeOK, NowStored

(* A stage changes nothing else. *)
LEMMA MovedFields ==
  ASSUME StoreTypeOK, NEW r \in Requests, NEW stage \in Stages
  PROVE  /\ Moved(r, stage) \in Held
         /\ Moved(r, stage).stage = stage
         /\ Moved(r, stage).session = request[r].session
         /\ Moved(r, stage).generation = request[r].generation
         /\ Moved(r, stage).tokens = request[r].tokens
         /\ Moved(r, stage).attempt = request[r].attempt
BY DEF StoreTypeOK, Held, Moved

LEMMA GotoHolds ==
  ASSUME StoreTypeOK, NEW r \in Requests, NEW stage \in Stages, Goto(r, stage)
  PROVE  NowHolds(r, Moved(r, stage))
<1>1. request' = [request EXCEPT ![r] = Moved(r, stage)]
  BY DEF Goto, StoreTypeOK, Moved
<1> QED BY <1>1, MovedFields, OneRequest

LEMMA NumbersStart == 0 \in Generations /\ 1 \in Generations
BY StudioAssumption DEF StudioAssumption, Generations

LEMMA IdleFields ==
  /\ Idle \in Held
  /\ Idle.stage = "idle" /\ Idle.session = None /\ Idle.attempt = None
BY NumbersStart DEF Idle, Held, Stages

LEMMA EndHolds ==
  ASSUME StoreTypeOK, NEW r \in Requests, End(r)
  PROVE  NowHolds(r, Idle)
BY IdleFields, OneRequest DEF End

(* A request that reads a live record holds its generation, tokens and key.*)
LEMMA ReadHolds ==
  ASSUME StoreTypeOK, EnvelopeIsCurrent, NEW r \in Requests, NEW s \in Sessions, Live(s),
         NEW stage \in Stages, ReadInto(r, s, stage)
  PROVE  \E x : /\ NowHolds(r, x)
                /\ x.stage = stage /\ x.session = s /\ x.attempt = None
                /\ x.generation = session[s].generation
                /\ x.tokens = x.generation
<1> DEFINE x == [Idle EXCEPT !.stage = stage, !.session = s, !.generation = session[s].generation,
                             !.tokens = session[s].tokens, !.keyId = session[s].keyId]
<1>1. /\ x \in Held /\ x.stage = stage /\ x.session = s /\ x.attempt = None
      /\ x.generation = session[s].generation /\ x.tokens = session[s].tokens
  BY NumbersStart DEF Idle, Held, StoreTypeOK, Records
<1>2. request' = [request EXCEPT ![r] = x]
  BY DEF ReadInto
<1>3. session[s].tokens = session[s].generation
  BY DEF EnvelopeIsCurrent
<1> HIDE DEF x
<1>4. NowHolds(r, x)
  BY <1>1, <1>2, OneRequest
<1> QED BY <1>1, <1>3, <1>4

-----------------------------------------------------------------------------
(* Steps that end or leave alone what there is *)

Frame == UNCHANGED <<attempt, session, activeKey, submitted, opened>>

(* What the other variables of the model may become in any step. *)
OutsideTyped ==
  browser' \in SUBSET Sessions /\ revocations' \in SUBSET Tokens /\ uncommitted' \in SUBSET Tokens

(* A request that ends, gives up or goes on with what it holds. *)
Quiet(r, x) ==
  \/ x = Idle
  \/ /\ x.session = request[r].session /\ x.generation = request[r].generation
     /\ x.tokens = request[r].tokens /\ x.attempt = request[r].attempt
     /\ \/ x.stage = request[r].stage
        \/ /\ x.stage \in {"waiting", "terminal", "ready", "denied", "revoking"}
           /\ request[r].session \in Sessions
        \/ x.stage = "verified" /\ request[r].stage = "renewed"

QuietRequests ==
  request' \in [Requests -> Held] /\ \A q \in Requests : Quiet(q, request'[q])

(* Records stay as they are or go. *)
RecordsEnd ==
  /\ session' \in [Sessions -> Records]
  /\ \A s \in Sessions :
       session'[s] = session[s] \/ (Live(s) /\ session'[s].status = "gone")

LEMMA OneQuietRequest ==
  ASSUME StoreTypeOK, NEW r, NEW x, NowHolds(r, x), Quiet(r, x)
  PROVE  QuietRequests
BY DEF NowHolds, Quiet, QuietRequests

LEMMA NoRequest == StoreTypeOK /\ UNCHANGED request => QuietRequests
BY DEF QuietRequests, Quiet, StoreTypeOK

LEMMA NoRecordChanges == StoreTypeOK /\ UNCHANGED session => RecordsEnd
BY DEF RecordsEnd, StoreTypeOK

LEMMA DeletedEnds ==
  ASSUME StoreTypeOK, NEW s \in Sessions
  PROVE  /\ Deleted(s) \in [Sessions -> Records]
         /\ \A t \in Sessions :
              Deleted(s)[t] = session[t] \/ (Live(t) /\ Deleted(s)[t].status = "gone")
<1> DEFINE row == [NoRecord EXCEPT !.status = "gone"]
<1>1. NoRecord \in Records
  BY NumbersStart DEF NoRecord, Records
<1>2. row \in Records /\ row.status = "gone"
  BY <1>1 DEF Records
<1> HIDE DEF row
<1>3. Deleted(s) = IF Live(s) THEN [session EXCEPT ![s] = row] ELSE session
  BY DEF Deleted, row
<1> QED BY <1>2, <1>3 DEF StoreTypeOK

(* Most steps only end or go on with what they have, and keep everything.  *)
LEMMA QuietStep ==
  ASSUME SessionInv, QuietRequests, RecordsEnd,
         UNCHANGED <<attempt, submitted, opened>>, activeKey' \in 0..1, OutsideTyped
  PROVE  SessionInv'
<1> USE DEF SessionInv
<1>1. StoreTypeOK'
  BY DEF StoreTypeOK, QuietRequests, RecordsEnd, OutsideTyped
<1>2. SubmittedOnce' /\ EnvelopeIsCurrent' /\ UnusedTokens'
  BY DEF SubmittedOnce, EnvelopeIsCurrent, UnusedTokens, Live, RecordsEnd
<1>3. DispatchedIsFenced'
  <2>1. \A q \in Requests : At(q, "dispatched")' =>
          At(q, "dispatched") /\ request'[q].session = request[q].session
            /\ request'[q].generation = request[q].generation
            /\ request'[q].tokens = request[q].tokens
    BY IdleFields DEF QuietRequests, Quiet, At
  <2>2. \A q \in Requests : At(q, "dispatched") => request[q].session \in Sessions
    BY DEF HeldTokens, At
  <2> QED
    BY <2>1, <2>2 DEF DispatchedIsFenced, OwnsRefresh, SameGeneration, Live, Token, RecordsEnd
<1>4. HeldTokens'
  BY IdleFields DEF HeldTokens, QuietRequests, Quiet
<1>5. CallbacksAreApart'
  <2>1. \A q \in Requests : request'[q].session \in {request[q].session, None}
    BY IdleFields DEF QuietRequests, Quiet
  <2>2. \A q \in Requests, stage \in {"inspected", "consumed", "exchanged", "created"} :
          At(q, stage)' =>
            At(q, stage) /\ request'[q].session = request[q].session
              /\ request'[q].attempt = request[q].attempt
    BY IdleFields DEF QuietRequests, Quiet, At
  <2>3. \A q \in Requests : At(q, "exchanged") => request[q].session \in Sessions
    BY DEF HeldTokens, At
  <2>4. None \notin Sessions
    BY StudioAssumption DEF StudioAssumption
  <2> QED
    BY <2>1, <2>2, <2>3, <2>4 DEF CallbacksAreApart, SigningIn, At, Live, RecordsEnd
<1> QED BY <1>1, <1>2, <1>3, <1>4, <1>5

(* A live record is read. *)
LEMMA ReadStep ==
  ASSUME SessionInv, NEW r \in Requests, NEW s \in Sessions, Live(s),
         NEW stage \in {"loaded", "ready", "leaving"}, ReadInto(r, s, stage), Frame, OutsideTyped
  PROVE  SessionInv'
<1> USE DEF SessionInv, Frame
<1>1. PICK x : /\ NowHolds(r, x)
               /\ x.stage = stage /\ x.session = s /\ x.attempt = None
               /\ x.generation = session[s].generation
               /\ x.tokens = x.generation
  BY ReadHolds DEF Stages
<1>2. StoreTypeOK'
  BY <1>1 DEF StoreTypeOK, NowHolds, OutsideTyped
<1>3. SubmittedOnce' /\ EnvelopeIsCurrent' /\ UnusedTokens'
  BY DEF SubmittedOnce, EnvelopeIsCurrent, UnusedTokens, Live
<1>4. \A q \in Requests : q # r => request'[q] = request[q]
  BY <1>1 DEF NowHolds
<1>5. request'[r] = x
  BY <1>1 DEF NowHolds
<1>6. DispatchedIsFenced'
  BY <1>1, <1>4, <1>5 DEF DispatchedIsFenced, OwnsRefresh, SameGeneration, Live, Token, At
<1>7. HeldTokens'
  BY <1>1, <1>4, <1>5 DEF HeldTokens
<1>8. CallbacksAreApart'
  BY <1>1, <1>4, <1>5 DEF CallbacksAreApart, SigningIn, At, Live
<1> QED BY <1>2, <1>3, <1>6, <1>7, <1>8

-----------------------------------------------------------------------------
(* Steps that change attempts or records *)

(* Attempts open and expire; no callback loses what it consumed. *)
LEMMA AttemptStep ==
  ASSUME SessionInv, NEW a \in Attempts,
         \/ attempt[a] = "absent" /\ attempt' = [attempt EXCEPT ![a] = "open"]
         \/ attempt[a] = "open" /\ attempt' = [attempt EXCEPT ![a] = "consumed"],
         activeKey' = activeKey, UNCHANGED <<session, request, submitted, opened>>, OutsideTyped
  PROVE  SessionInv'
<1> USE DEF SessionInv
<1>1. StoreTypeOK'
  BY DEF StoreTypeOK, OutsideTyped
<1>2. SubmittedOnce' /\ EnvelopeIsCurrent' /\ UnusedTokens'
  BY DEF SubmittedOnce, EnvelopeIsCurrent, UnusedTokens, Live
<1>3. DispatchedIsFenced' /\ HeldTokens'
  BY DEF DispatchedIsFenced, HeldTokens, OwnsRefresh, SameGeneration, Live, Token, At
<1>4. \A b \in Attempts : attempt'[b] = IF b = a THEN attempt'[a] ELSE attempt[b]
  BY DEF StoreTypeOK
<1>5. attempt[a] # "consumed"
  OBVIOUS
<1>6. CallbacksAreApart'
  BY <1>4, <1>5 DEF CallbacksAreApart, SigningIn, At
<1> QED BY <1>1, <1>2, <1>3, <1>6

LEMMA InspectStep ==
  ASSUME SessionInv, NEW r \in Requests, NEW a \in Attempts, InspectAttempt(r, a)
  PROVE  SessionInv'
<1> USE DEF SessionInv
<1> DEFINE x == [Idle EXCEPT !.stage = "inspected", !.attempt = a]
<1>1. x \in Held /\ x.stage = "inspected" /\ x.attempt = a /\ x.session = None
  BY IdleFields DEF Held, Stages
<1>2. request' = [request EXCEPT ![r] = x]
  BY DEF InspectAttempt
<1>3. UNCHANGED <<storeVars, outside>>
  BY DEF InspectAttempt
<1> HIDE DEF x
<1>4. NowHolds(r, x)
  BY <1>1, <1>2, OneRequest
<1>5. StoreTypeOK'
  BY <1>3, <1>4 DEF StoreTypeOK, NowHolds, storeVars, outside
<1>6. SubmittedOnce' /\ EnvelopeIsCurrent' /\ UnusedTokens'
  BY <1>3 DEF SubmittedOnce, EnvelopeIsCurrent, UnusedTokens, Live, storeVars, outside
<1>7. \A q \in Requests : request'[q] = IF q = r THEN x ELSE request[q]
  BY <1>4 DEF NowHolds
<1>8. DispatchedIsFenced'
  BY <1>1, <1>3, <1>7
     DEF DispatchedIsFenced, OwnsRefresh, SameGeneration, Live, Token, At, storeVars, outside
<1>9. HeldTokens'
  BY <1>1, <1>7 DEF HeldTokens
<1>10. CallbacksAreApart'
  <2>1. \A q \in Requests : At(q, "exchanged") => request[q].session # None
    BY StudioAssumption DEF HeldTokens, At, StudioAssumption
  <2> QED
    BY <1>1, <1>3, <1>7, <2>1 DEF CallbacksAreApart, SigningIn, At, storeVars, outside
<1> QED BY <1>5, <1>6, <1>8, <1>9, <1>10

(* The first callback that consumes an attempt is the only one to go on. *)
LEMMA ConsumeStep ==
  ASSUME SessionInv, NEW r \in Requests, ConsumeAttempt(r)
  PROVE  SessionInv'
<1> USE DEF SessionInv
<1> DEFINE a == request[r].attempt
<1>1. a \in Attempts /\ At(r, "inspected")
  BY DEF ConsumeAttempt, CallbacksAreApart
<1>2. /\ attempt' = [attempt EXCEPT ![a] = "consumed"]
      /\ UNCHANGED <<session, activeKey, outside>>
  BY DEF ConsumeAttempt
<1>3. PICK x : /\ NowHolds(r, x)
               /\ \/ x = Idle
                  \/ attempt[a] = "open" /\ x = Moved(r, "consumed")
  BY GotoHolds, EndHolds DEF ConsumeAttempt, StillOpen, Stages
<1>4. /\ x.stage \in {"idle", "consumed"}
      /\ x.stage = "consumed" => attempt[a] = "open" /\ x.attempt = a /\ x.session = request[r].session
      /\ x.stage = "idle" => x.session = None
  BY <1>3, IdleFields, MovedFields DEF Stages
<1>5. \A b \in Attempts : attempt'[b] = IF b = a THEN "consumed" ELSE attempt[b]
  BY <1>1, <1>2 DEF StoreTypeOK
<1>6. \A q \in Requests : request'[q] = IF q = r THEN x ELSE request[q]
  BY <1>3 DEF NowHolds
<1> HIDE DEF a
<1>7. StoreTypeOK'
  BY <1>1, <1>2, <1>3 DEF StoreTypeOK, NowHolds, outside
<1>8. SubmittedOnce' /\ EnvelopeIsCurrent' /\ UnusedTokens'
  BY <1>2 DEF SubmittedOnce, EnvelopeIsCurrent, UnusedTokens, Live, outside
<1>9. DispatchedIsFenced'
  BY <1>2, <1>4, <1>6
     DEF DispatchedIsFenced, OwnsRefresh, SameGeneration, Live, Token, At, outside
<1>10. HeldTokens'
  BY <1>4, <1>6 DEF HeldTokens
<1>11. CallbacksAreApart'
  <2>1. \A q \in Requests : At(q, "exchanged") => request[q].session # None
    BY StudioAssumption DEF HeldTokens, At, StudioAssumption
  <2>2. \A q \in Requests : SigningIn(q) /\ request[q].attempt = a => attempt[a] = "consumed"
    BY DEF CallbacksAreApart
  <2>3. attempt[a] = "open" => opened[a] = {}
    BY <1>1 DEF CallbacksAreApart
  <2> QED
    BY <1>1, <1>2, <1>4, <1>5, <1>6, <2>1, <2>2, <2>3
       DEF CallbacksAreApart, SigningIn, At, outside
<1> QED BY <1>7, <1>8, <1>9, <1>10, <1>11

(* The key is new: no session has had it and no request holds it. *)
LEMMA ExchangeStep ==
  ASSUME SessionInv, NEW r \in Requests, NEW s \in Sessions, ExchangeCode(r, s)
  PROVE  SessionInv'
<1> USE DEF SessionInv
<1>1. CASE End(r)
  <2>1. NowHolds(r, Idle)
    BY <1>1, EndHolds
  <2>2. /\ UNCHANGED <<attempt, session, activeKey, submitted, opened>> /\ OutsideTyped
        /\ activeKey \in 0..1
    BY DEF ExchangeCode, OutsideTyped, StoreTypeOK, storeVars, outside
  <2>3. QuietRequests /\ RecordsEnd
    BY <2>1, <2>2, OneQuietRequest, NoRecordChanges DEF Quiet
  <2> QED BY <2>2, <2>3, QuietStep
<1>2. CASE request'[r].session = s /\ request'[r].stage = "exchanged"
  <2> DEFINE x == [request[r] EXCEPT !.stage = "exchanged", !.session = s, !.generation = 1,
                                     !.tokens = 1]
  <2>1. /\ request[r] \in Held
        /\ At(r, "consumed")
        /\ UNCHANGED <<storeVars, outside>>
    BY DEF StoreTypeOK, ExchangeCode
  <2>2. /\ x \in Held /\ x.stage = "exchanged" /\ x.session = s
        /\ x.attempt = request[r].attempt
    BY <2>1, NumbersStart DEF Held, Stages
  <2>3. /\ request' = [request EXCEPT ![r] = x]
        /\ session[s].status = "absent"
        /\ \A q \in Requests : request[q].session # s
    <3>1. End(r) => request'[r].stage = "idle"
      BY DEF End, StoreTypeOK, Idle
    <3> QED BY <1>2, <3>1 DEF ExchangeCode, StoreTypeOK
  <2> HIDE DEF x
  <2>4. NowHolds(r, x)
    BY <2>2, <2>3, OneRequest
  <2>5. \A q \in Requests : request'[q] = IF q = r THEN x ELSE request[q]
    BY <2>4 DEF NowHolds
  <2>6. StoreTypeOK'
    BY <2>1, <2>4 DEF StoreTypeOK, NowHolds, storeVars, outside
  <2>7. SubmittedOnce' /\ EnvelopeIsCurrent' /\ UnusedTokens'
    BY <2>1 DEF SubmittedOnce, EnvelopeIsCurrent, UnusedTokens, Live, storeVars, outside
  <2>8. DispatchedIsFenced' /\ HeldTokens'
    BY <2>1, <2>2, <2>5
       DEF DispatchedIsFenced, HeldTokens, OwnsRefresh, SameGeneration, Live, Token, At,
           storeVars, outside
  <2>9. CallbacksAreApart'
    BY <2>1, <2>2, <2>3, <2>5 DEF CallbacksAreApart, SigningIn, At, storeVars, outside
  <2> QED BY <2>6, <2>7, <2>8, <2>9
<1>3. End(r) \/ (request'[r].session = s /\ request'[r].stage = "exchanged")
  BY DEF ExchangeCode, StoreTypeOK, Held
<1> QED BY <1>1, <1>2, <1>3

(* A new session is opened under a key that had none, and from an attempt  *)
(* that has opened none; the session it replaces is gone.                  *)
LEMMA CreateStep ==
  ASSUME SessionInv, NEW r \in Requests, CreateSession(r)
  PROVE  SessionInv'
<1> USE DEF SessionInv
<1> DEFINE s == request[r].session
           a == request[r].attempt
<1>1. /\ s \in Sessions /\ a \in Attempts
      /\ session[s].status = "absent"
      /\ opened[a] = {} /\ attempt[a] = "consumed"
      /\ \A q \in Requests \ {r} : request[q].session # s
      /\ \A q \in Requests \ {r} : SigningIn(q) => request[q].attempt # a
  BY DEF CreateSession, CallbacksAreApart, HeldTokens, SigningIn, At
<1>2. /\ Replaced(r) \in [Sessions -> Records]
      /\ \A t \in Sessions :
           Replaced(r)[t] = session[t] \/ (Live(t) /\ Replaced(r)[t].status = "gone")
  <2>1. CASE request[r].previous = None
    BY <2>1 DEF Replaced, StoreTypeOK
  <2>2. CASE request[r].previous # None
    <3>1. request[r].previous[1] \in Sessions
      BY <2>2 DEF StoreTypeOK, Held
    <3>2. Replaced(r) = Deleted(request[r].previous[1])
      BY <2>2 DEF Replaced
    <3> QED BY <3>1, <3>2, DeletedEnds
  <2> QED BY <2>1, <2>2
<1>3. /\ NewRecord \in Records
      /\ NewRecord.status = "live" /\ NewRecord.generation = 1 /\ NewRecord.tokens = 1
      /\ NewRecord.owner = None /\ NewRecord.dispatched = FALSE
  BY NumbersStart DEF NewRecord, Records, StoreTypeOK
<1>4. /\ UNCHANGED <<attempt, activeKey, submitted>> /\ OutsideTyped
      /\ At(r, "exchanged")
  BY DEF CreateSession, OutsideTyped, StoreTypeOK
<1>5. CASE /\ session' = [Replaced(r) EXCEPT ![s] = NewRecord]
           /\ opened' = [opened EXCEPT ![a] = @ \cup {s}]
           /\ Goto(r, "created") \/ Goto(r, "revoking")
  <2> PICK stage \in {"created", "revoking"} : Goto(r, stage)
    BY <1>5
  <2>1. NowHolds(r, Moved(r, stage))
    BY GotoHolds DEF Stages
  <2> DEFINE x == Moved(r, stage)
  <2>2. x.stage \in {"created", "revoking"} /\ x.session = s /\ x.attempt = a
    BY MovedFields DEF Stages
  <2> HIDE DEF x, s, a
  <2>3. \A q \in Requests : request'[q] = IF q = r THEN x ELSE request[q]
    BY <2>1 DEF NowHolds, x
  <2>4. /\ session' \in [Sessions -> Records]
        /\ session'[s] = NewRecord
        /\ \A t \in Sessions \ {s} : session'[t] = session[t] \/ session'[t].status = "gone"
    BY <1>1, <1>2, <1>3, <1>5
  <2>5. opened' \in [Attempts -> SUBSET Sessions] /\ opened'[a] = {s}
        /\ \A b \in Attempts \ {a} : opened'[b] = opened[b]
    BY <1>1, <1>5 DEF StoreTypeOK
  <2>6. StoreTypeOK'
    BY <1>4, <2>1, <2>4, <2>5 DEF StoreTypeOK, NowHolds, OutsideTyped
  <2>7. SubmittedOnce' /\ EnvelopeIsCurrent'
    BY <1>3, <1>4, <2>4 DEF SubmittedOnce, EnvelopeIsCurrent, Live
  <2>8. UnusedTokens'
    <3>1. \A n \in Generations : submitted[<<s, n>>] = 0
      BY <1>1 DEF UnusedTokens
    <3> QED
      BY <1>1, <1>3, <1>4, <2>4, <3>1, NumbersStart DEF UnusedTokens, Live
  <2>9. DispatchedIsFenced'
    BY <1>1, <1>4, <2>2, <2>3, <2>4
       DEF DispatchedIsFenced, HeldTokens, OwnsRefresh, SameGeneration, Live, Token, At
  <2>10. HeldTokens'
    BY <1>1, <2>2, <2>3 DEF HeldTokens
  <2>11. CallbacksAreApart'
    <3>1. \A q \in Requests : At(q, "exchanged")' =>
            q # r /\ At(q, "exchanged") /\ request'[q] = request[q] /\ request[q].session # s
              /\ request[q].session \in Sessions
      BY <1>1, <2>2, <2>3 DEF At, HeldTokens
    <3>2. \A q \in Requests : At(q, "exchanged")' =>
            session'[request'[q].session].status = "absent"
      BY <1>2, <1>5, <3>1 DEF CallbacksAreApart, Live
    <3> QED
      BY <1>1, <1>4, <2>2, <2>3, <2>5, <3>1, <3>2 DEF CallbacksAreApart, SigningIn, At
  <2> QED BY <2>6, <2>7, <2>8, <2>9, <2>10, <2>11
<1>6. CASE session' = Replaced(r) /\ Goto(r, "revoking") /\ opened' = opened
  <2>1. NowHolds(r, Moved(r, "revoking"))
    BY <1>6, GotoHolds DEF Stages
  <2> DEFINE x == Moved(r, "revoking")
  <2>2. x.stage = "revoking" /\ x.session = s /\ x.attempt = a
    BY MovedFields DEF Stages
  <2> HIDE DEF x, s, a
  <2>3. \A q \in Requests : request'[q] = IF q = r THEN x ELSE request[q]
    BY <2>1 DEF NowHolds, x
  <2>4. /\ session' \in [Sessions -> Records]
        /\ \A t \in Sessions :
             session'[t] = session[t] \/ (Live(t) /\ session'[t].status = "gone")
    BY <1>2, <1>6
  <2>5. StoreTypeOK'
    BY <1>4, <1>6, <2>1, <2>4 DEF StoreTypeOK, NowHolds, OutsideTyped
  <2>6. SubmittedOnce' /\ EnvelopeIsCurrent' /\ UnusedTokens'
    BY <1>4, <2>4 DEF SubmittedOnce, EnvelopeIsCurrent, UnusedTokens, Live
  <2>7. DispatchedIsFenced'
    BY <1>1, <1>4, <2>2, <2>3, <2>4
       DEF DispatchedIsFenced, HeldTokens, OwnsRefresh, SameGeneration, Live, Token, At
  <2>8. HeldTokens'
    BY <1>1, <2>2, <2>3 DEF HeldTokens
  <2>9. CallbacksAreApart'
    BY <1>1, <1>4, <1>6, <2>2, <2>3, <2>4
       DEF CallbacksAreApart, HeldTokens, SigningIn, At, Live
  <2> QED BY <2>5, <2>6, <2>7, <2>8, <2>9
<1> QED BY <1>5, <1>6 DEF CreateSession

(* The envelope is encrypted again with the tokens that were read, which   *)
(* are still those of the record.                                          *)
LEMMA ReencryptStep ==
  ASSUME SessionInv, NEW r \in Requests, Reencrypt(r)
  PROVE  SessionInv'
<1> USE DEF SessionInv
<1> DEFINE s == request[r].session
           row == [session[s] EXCEPT !.keyId = activeKey, !.tokens = request[r].tokens]
           x == [request[r] EXCEPT !.keyId = activeKey]
<1>1. /\ s \in Sessions /\ Live(s) /\ session[s].generation = request[r].generation
      /\ request[r].tokens = request[r].generation
      /\ At(r, "loaded")
  BY DEF Reencrypt, HeldTokens, MayReencrypt, At
<1>2. /\ row \in Records
      /\ row.status = "live" /\ row.generation = session[s].generation
      /\ row.tokens = row.generation
      /\ row.owner = session[s].owner /\ row.dispatched = session[s].dispatched
  <2>1. session[s] \in Records /\ session[s].status = "live" /\ activeKey \in 0..1
    BY <1>1 DEF StoreTypeOK, Live
  <2>2. request[r].tokens \in Generations
    BY DEF StoreTypeOK, Held
  <2> QED BY <1>1, <2>1, <2>2 DEF Records
<1>3. /\ x \in Held /\ Quiet(r, x)
  BY DEF StoreTypeOK, Held, Quiet
<1>4. session' = [session EXCEPT ![s] = row] /\ request' = [request EXCEPT ![r] = x]
  BY <1>1 DEF Reencrypt, StoreTypeOK
<1>5. UNCHANGED <<attempt, activeKey, submitted, opened>> /\ OutsideTyped
  BY DEF Reencrypt, OutsideTyped, StoreTypeOK, outside
<1>6. \A q \in Requests : /\ request'[q].stage = request[q].stage
                          /\ request'[q].session = request[q].session
                          /\ request'[q].generation = request[q].generation
                          /\ request'[q].tokens = request[q].tokens
                          /\ request'[q].attempt = request[q].attempt
  BY <1>4 DEF StoreTypeOK, Held
<1> HIDE DEF s, row, x
<1>7. NowStored(s, row) /\ NowHolds(r, x)
  BY <1>1, <1>2, <1>3, <1>4, OneRecord, OneRequest
<1>8. StoreTypeOK'
  BY <1>5, <1>7 DEF StoreTypeOK, NowStored, NowHolds, OutsideTyped
<1>9. /\ \A t \in Sessions : /\ session'[t].status = session[t].status
                             /\ session'[t].generation = session[t].generation
                             /\ session'[t].owner = session[t].owner
                             /\ session'[t].dispatched = session[t].dispatched
  BY <1>1, <1>2, <1>7 DEF NowStored, Live
<1>10. SubmittedOnce' /\ EnvelopeIsCurrent' /\ UnusedTokens'
  BY <1>1, <1>2, <1>5, <1>7, <1>9 DEF SubmittedOnce, EnvelopeIsCurrent, UnusedTokens, Live, NowStored
<1>11. DispatchedIsFenced' /\ HeldTokens'
  BY <1>5, <1>6, <1>9
     DEF DispatchedIsFenced, HeldTokens, OwnsRefresh, SameGeneration, Live, Token, At
<1>12. CallbacksAreApart'
  BY <1>5, <1>6, <1>9 DEF CallbacksAreApart, HeldTokens, SigningIn, At
<1> QED BY <1>8, <1>10, <1>11, <1>12

(* A refresh is claimed, or claimed again when its lease is over before    *)
(* anything was dispatched.                                                *)
LEMMA ClaimStep ==
  ASSUME SessionInv, NEW r \in Requests, ClaimRefresh(r)
  PROVE  SessionInv'
<1> USE DEF SessionInv
<1> DEFINE s == request[r].session
           row == [session[s] EXCEPT !.owner = r, !.dispatched = FALSE]
           x == [request[r] EXCEPT !.stage = "claimed", !.tokens = session[s].tokens]
<1>1. /\ s \in Sessions /\ Live(s) /\ session[s].generation = request[r].generation
      /\ session[s].owner # None => ~session[s].dispatched
      /\ At(r, "loaded")
      /\ session[s].tokens = session[s].generation
  BY DEF ClaimRefresh, HeldTokens, Claimable, SameGeneration, At, EnvelopeIsCurrent
<1>2. ~session[s].dispatched
  BY <1>1 DEF UnusedTokens
<1>3. /\ row \in Records
      /\ row.status = "live" /\ row.generation = session[s].generation
      /\ row.tokens = row.generation
      /\ row.owner = r /\ row.owner # None /\ row.dispatched = FALSE
  <2>1. session[s] \in Records /\ session[s].status = "live" /\ r # None
    BY <1>1, StudioAssumption DEF StoreTypeOK, Live, StudioAssumption
  <2> QED BY <1>1, <2>1 DEF Records
<1>4. /\ x \in Held /\ x.stage = "claimed" /\ x.session = s /\ x.attempt = request[r].attempt
      /\ x.generation = request[r].generation /\ x.tokens = x.generation
  <2>1. request[r] \in Held /\ session[s].tokens \in Generations
    BY <1>1 DEF StoreTypeOK, Records
  <2> QED BY <1>1, <2>1 DEF Held, Stages
<1>5. session' = [session EXCEPT ![s] = row] /\ request' = [request EXCEPT ![r] = x]
  BY <1>1 DEF ClaimRefresh, StoreTypeOK
<1>6. UNCHANGED <<attempt, activeKey, submitted, opened>> /\ OutsideTyped
  BY DEF ClaimRefresh, OutsideTyped, StoreTypeOK, outside
<1> HIDE DEF row, x
<1>7. NowStored(s, row) /\ NowHolds(r, x)
  BY <1>1, <1>3, <1>4, <1>5, OneRecord, OneRequest
<1> HIDE DEF s
<1>8. /\ \A t \in Sessions : session'[t] = IF t = s THEN row ELSE session[t]
      /\ \A q \in Requests : request'[q] = IF q = r THEN x ELSE request[q]
  BY <1>7 DEF NowStored, NowHolds
<1>9. StoreTypeOK'
  BY <1>6, <1>7 DEF StoreTypeOK, NowStored, NowHolds, OutsideTyped
<1>10. SubmittedOnce' /\ EnvelopeIsCurrent'
  BY <1>3, <1>6, <1>8 DEF SubmittedOnce, EnvelopeIsCurrent, Live
<1>11. UnusedTokens'
  BY <1>1, <1>2, <1>3, <1>6, <1>8 DEF UnusedTokens, Live
<1>12. DispatchedIsFenced'
  <2>1. \A q \in Requests : At(q, "dispatched") => request[q].session # s
    BY <1>1, <1>2 DEF DispatchedIsFenced
  <2> QED
    BY <1>4, <1>6, <1>8, <2>1
       DEF DispatchedIsFenced, HeldTokens, OwnsRefresh, SameGeneration, Live, Token, At
<1>13. HeldTokens'
  BY <1>1, <1>4, <1>8 DEF HeldTokens
<1>14. CallbacksAreApart'
  BY <1>1, <1>4, <1>6, <1>8 DEF CallbacksAreApart, HeldTokens, SigningIn, At, Live, s
<1> QED BY <1>9, <1>10, <1>11, <1>12, <1>13, <1>14

(* Only the owner of a refresh that nobody has dispatched dispatches it. *)
LEMMA MarkStep ==
  ASSUME SessionInv, NEW r \in Requests, MarkRefreshDispatched(r),
         OwnsRefresh(r), ~session[request[r].session].dispatched
  PROVE  SessionInv'
<1> USE DEF SessionInv
<1> DEFINE s == request[r].session
           row == [session[s] EXCEPT !.dispatched = TRUE]
           x == Moved(r, "dispatched")
<1>1. /\ s \in Sessions /\ Live(s) /\ session[s].generation = request[r].generation
      /\ session[s].owner = r
      /\ ~session[s].dispatched
      /\ At(r, "claimed") /\ request[r].tokens = request[r].generation
  BY DEF MarkRefreshDispatched, HeldTokens, OwnsRefresh, SameGeneration, At
<1>2. /\ row \in Records
      /\ row.status = "live" /\ row.generation = session[s].generation
      /\ row.tokens = session[s].tokens
      /\ row.owner = r /\ row.owner # None /\ row.dispatched = TRUE
  <2>1. session[s] \in Records /\ r # None /\ session[s].status = "live"
    BY <1>1, StudioAssumption DEF StoreTypeOK, Live, StudioAssumption
  <2> QED BY <1>1, <2>1 DEF Records
<1>3. /\ x \in Held /\ x.stage = "dispatched" /\ x.session = s /\ x.attempt = request[r].attempt
      /\ x.generation = request[r].generation /\ x.tokens = x.generation
  BY <1>1, MovedFields DEF Stages
<1>4. session' = [session EXCEPT ![s] = row] /\ Goto(r, "dispatched")
  BY <1>1 DEF MarkRefreshDispatched, StoreTypeOK
<1>5. UNCHANGED <<attempt, activeKey, submitted, opened>> /\ OutsideTyped
  BY DEF MarkRefreshDispatched, OutsideTyped, StoreTypeOK, outside
<1>6. NowHolds(r, x)
  BY <1>4, GotoHolds DEF Stages
<1> HIDE DEF row, x
<1>7. NowStored(s, row)
  BY <1>1, <1>2, <1>4, OneRecord
<1> HIDE DEF s
<1>8. /\ \A t \in Sessions : session'[t] = IF t = s THEN row ELSE session[t]
      /\ \A q \in Requests : request'[q] = IF q = r THEN x ELSE request[q]
  BY <1>6, <1>7 DEF NowStored, NowHolds
<1>9. StoreTypeOK'
  BY <1>5, <1>6, <1>7 DEF StoreTypeOK, NowStored, NowHolds, OutsideTyped
<1>10. SubmittedOnce' /\ EnvelopeIsCurrent'
  BY <1>1, <1>2, <1>5, <1>8 DEF SubmittedOnce, EnvelopeIsCurrent, Live
<1>11. UnusedTokens'
  BY <1>1, <1>2, <1>5, <1>8 DEF UnusedTokens, Live
<1>12. DispatchedIsFenced'
  <2>1. \A q \in Requests : At(q, "dispatched") => request[q].session # s
    BY <1>1 DEF DispatchedIsFenced
  <2>2. submitted[<<s, session[s].generation>>] = 0
    BY <1>1 DEF UnusedTokens
  <2> QED
    BY <1>1, <1>2, <1>3, <1>5, <1>8, <2>1, <2>2
       DEF DispatchedIsFenced, HeldTokens, OwnsRefresh, SameGeneration, Live, Token, At
<1>13. HeldTokens'
  BY <1>1, <1>3, <1>8 DEF HeldTokens
<1>14. CallbacksAreApart'
  BY <1>1, <1>3, <1>5, <1>8 DEF CallbacksAreApart, HeldTokens, SigningIn, At, Live, s
<1> QED BY <1>9, <1>10, <1>11, <1>12, <1>13, <1>14

(* The refresh token is submitted, for the first time. *)
LEMMA SubmitStep ==
  ASSUME SessionInv, NEW r \in Requests, SubmitRefresh(r)
  PROVE  SessionInv'
<1> USE DEF SessionInv
<1> DEFINE s == request[r].session
           g == request[r].tokens
<1>1. /\ s \in Sessions /\ g \in Generations /\ g + 1 \in Generations
      /\ At(r, "dispatched") /\ request[r].generation = g
      /\ session[s].status # "absent" /\ submitted[<<s, g>>] = 0
      /\ Live(s) => /\ session[s].generation = g /\ session[s].owner = r
                    /\ session[s].dispatched
      /\ \A q \in Requests \ {r} : At(q, "dispatched") => request[q].session # s
  <2>1. s \in Sessions /\ g \in Generations
    BY DEF SubmitRefresh, HeldTokens, At, StoreTypeOK, Held
  <2>2. g + 1 \in Generations
    BY <2>1, StudioAssumption DEF SubmitRefresh, Generations, StudioAssumption
  <2> QED BY <2>1, <2>2
          DEF SubmitRefresh, HeldTokens, DispatchedIsFenced, OwnsRefresh, SameGeneration, At, Token
<1>2. PICK x : /\ NowHolds(r, x)
               /\ x.session = s /\ x.attempt = request[r].attempt
               /\ \/ x.stage = "renewed" /\ x.tokens = x.generation + 1
                  \/ x.stage = "terminal"
  <2>1. CASE Goto(r, "terminal")
    BY <2>1, GotoHolds, MovedFields DEF Stages
  <2>2. CASE request' = [request EXCEPT ![r].stage = "renewed", ![r].tokens = @ + 1]
    <3> DEFINE y == [request[r] EXCEPT !.stage = "renewed", !.tokens = @ + 1]
    <3>1. request[r] \in Held
      BY DEF StoreTypeOK
    <3>2. /\ y \in Held /\ y.session = s /\ y.attempt = request[r].attempt
          /\ y.stage = "renewed" /\ y.tokens = y.generation + 1
      BY <1>1, <3>1 DEF Held, Stages
    <3>3. request' = [request EXCEPT ![r] = y]
      BY <2>2 DEF StoreTypeOK
    <3> HIDE DEF y
    <3>4. NowHolds(r, y)
      BY <3>2, <3>3, OneRequest
    <3> QED BY <3>2, <3>4
  <2> QED BY <2>1, <2>2 DEF SubmitRefresh
<1>3. /\ submitted' \in [Tokens -> 0..1]
      /\ \A t \in Sessions, n \in Generations :
           submitted'[<<t, n>>] = IF t = s /\ n = g THEN 1 ELSE submitted[<<t, n>>]
  <2>1. submitted' = [submitted EXCEPT ![<<s, g>>] = 1]
    BY <1>1 DEF SubmitRefresh, Token
  <2>2. submitted \in [Tokens -> 0..1]
    BY DEF StoreTypeOK, SubmittedOnce
  <2> QED BY <1>1, <2>1, <2>2 DEF Tokens
<1>4. /\ UNCHANGED <<attempt, session, activeKey, opened>> /\ OutsideTyped
  BY DEF SubmitRefresh, OutsideTyped, StoreTypeOK, storeVars
<1>5. \A q \in Requests : request'[q] = IF q = r THEN x ELSE request[q]
  BY <1>2 DEF NowHolds
<1> HIDE DEF s, g
<1>6. StoreTypeOK' /\ SubmittedOnce'
  BY <1>2, <1>3, <1>4 DEF StoreTypeOK, SubmittedOnce, NowHolds, OutsideTyped
<1>7. EnvelopeIsCurrent'
  BY <1>4 DEF EnvelopeIsCurrent, Live
<1>8. UnusedTokens'
  BY <1>1, <1>3, <1>4 DEF UnusedTokens, Live, StoreTypeOK, Records, Generations
<1>9. DispatchedIsFenced'
  <2>1. \A q \in Requests : At(q, "dispatched")' =>
          /\ q # r /\ At(q, "dispatched") /\ request'[q] = request[q]
          /\ request[q].session \in Sessions /\ request[q].tokens \in Generations
          /\ request[q].session # s
    BY <1>1, <1>2, <1>5 DEF At, HeldTokens, StoreTypeOK, Held
  <2> QED
    BY <1>3, <1>4, <2>1
       DEF DispatchedIsFenced, OwnsRefresh, SameGeneration, Live, Token, At
<1>10. HeldTokens'
  BY <1>1, <1>2, <1>5 DEF HeldTokens
<1>11. CallbacksAreApart'
  BY <1>1, <1>2, <1>4, <1>5 DEF CallbacksAreApart, SigningIn, At, s
<1> QED BY <1>6, <1>7, <1>8, <1>9, <1>10, <1>11

(* Only the owner of a dispatched refresh stores the next generation. *)
LEMMA CommitStep ==
  ASSUME SessionInv, NEW r \in Requests, At(r, "verified"), MayCommit(r),
         session' = [session EXCEPT ![request[r].session] = Renewed(r)],
         NEW x, NowHolds(r, x),
         x = Idle \/ (x.stage = "ready" /\ x.session = request[r].session),
         UNCHANGED <<attempt, activeKey, submitted, opened>>, OutsideTyped
  PROVE  SessionInv'
<1> USE DEF SessionInv
<1> DEFINE s == request[r].session
           row == Renewed(r)
<1>1. /\ s \in Sessions /\ Live(s) /\ session[s].generation = request[r].generation
      /\ session[s].owner = r
      /\ request[r].tokens = request[r].generation + 1
      /\ request[r].tokens \in Generations
  BY DEF MayCommit, OwnsRefresh, SameGeneration, HeldTokens, At, StoreTypeOK, Held
<1>2. /\ row \in Records
      /\ row.status = "live" /\ row.generation = session[s].generation + 1
      /\ row.tokens = row.generation
      /\ row.owner = None /\ row.dispatched = FALSE
  BY <1>1 DEF Renewed, Records, StoreTypeOK
<1>3. /\ x.stage \in {"idle", "ready"} /\ x.session \in {None, s}
      /\ x.stage = "ready" => x.session = s
  BY IdleFields
<1> HIDE DEF row
<1>4. NowStored(s, row)
  BY <1>1, <1>2, OneRecord DEF row
<1> HIDE DEF s
<1>5. /\ \A t \in Sessions : session'[t] = IF t = s THEN row ELSE session[t]
      /\ \A q \in Requests : request'[q] = IF q = r THEN x ELSE request[q]
  BY <1>4 DEF NowStored, NowHolds
<1>6. StoreTypeOK'
  BY <1>4 DEF StoreTypeOK, NowStored, NowHolds, OutsideTyped
<1>7. SubmittedOnce' /\ EnvelopeIsCurrent'
  BY <1>2, <1>5 DEF SubmittedOnce, EnvelopeIsCurrent, Live
<1>8. UnusedTokens'
  <2>1. \A n \in Generations : n > session[s].generation => submitted[<<s, n>>] = 0
    BY <1>1 DEF UnusedTokens
  <2>2. row.generation \in Generations /\ session[s].generation \in Generations
    BY <1>1, <1>2 DEF Records, StoreTypeOK
  <2>3. /\ submitted[<<s, row.generation>>] = 0
        /\ \A n \in Generations : n > row.generation => submitted[<<s, n>>] = 0
    BY <1>2, <2>1, <2>2 DEF Generations
  <2> QED BY <1>1, <1>2, <1>5, <2>3 DEF UnusedTokens, Live
<1>9. DispatchedIsFenced'
  <2>1. \A q \in Requests : At(q, "dispatched")' =>
          /\ q # r /\ At(q, "dispatched") /\ request'[q] = request[q]
          /\ request[q].session \in Sessions /\ request[q].session # s
    BY <1>1, <1>3, <1>5
       DEF At, HeldTokens, DispatchedIsFenced, OwnsRefresh, SameGeneration, Live
  <2> QED
    BY <1>5, <2>1 DEF DispatchedIsFenced, OwnsRefresh, SameGeneration, Live, Token, At
<1>10. HeldTokens'
  BY <1>1, <1>3, <1>5 DEF HeldTokens
<1>11. CallbacksAreApart'
  <2>1. None \notin Sessions
    BY StudioAssumption DEF StudioAssumption
  <2> QED
    BY <1>1, <1>2, <1>3, <1>5, <2>1 DEF CallbacksAreApart, HeldTokens, SigningIn, At, Live, s
<1> QED BY <1>6, <1>7, <1>8, <1>9, <1>10, <1>11

-----------------------------------------------------------------------------
(* Every step *)

(* Most steps of a request, by what they may do. *)
LEMMA QuietKinds ==
  ASSUME SessionInv, NEW r \in Requests,
         \/ RejectLogin(r) \/ StillFresh(r) \/ DeleteSession(r) \/ DeleteFails(r) \/ Crash(r)
         \/ ClaimRefused(r) \/ VerifyRefresh(r) \/ CallUpstream(r) \/ Revoke(r) \/ FinishLogin(r)
         \/ \E p \in Sessions : ReadPrevious(r, p)
  PROVE  SessionInv'
<1> USE DEF SessionInv
<1> DEFINE Stays == UNCHANGED <<attempt, submitted, opened, activeKey>>
<1>1. request[r].stage \notin {"idle", "inspected", "consumed"} => request[r].session \in Sessions
  BY DEF HeldTokens
<1>2. ASSUME NEW stage \in {"waiting", "terminal", "ready", "denied", "revoking"},
             Goto(r, stage), request[r].session \in Sessions
      PROVE  QuietRequests
  BY <1>2, GotoHolds, MovedFields, OneQuietRequest DEF Quiet, Stages
<1>3. End(r) => QuietRequests
  BY EndHolds, OneQuietRequest DEF Quiet
<1>4. QuietRequests
  <2>1. CASE VerifyRefresh(r)
    <3>1. CASE Goto(r, "verified")
      <4>1. request[r].stage = "renewed"
        BY <2>1 DEF VerifyRefresh, At
      <4> QED BY <3>1, <4>1, GotoHolds, MovedFields, OneQuietRequest DEF Quiet, Stages
    <3> QED BY <1>1, <1>2, <2>1, <3>1 DEF VerifyRefresh, At
  <2>2. ASSUME NEW p \in Sessions, ReadPrevious(r, p) PROVE QuietRequests
    <3> DEFINE x == [request[r] EXCEPT !.previous = <<p, session[p].tokens>>]
    <3>1. request[r] \in Held /\ session[p].tokens \in Generations
      BY DEF StoreTypeOK, Records
    <3>2. x \in Held /\ Quiet(r, x)
      BY <3>1 DEF Held, Quiet
    <3>3. request' = [request EXCEPT ![r] = x]
      BY <2>2 DEF ReadPrevious, StoreTypeOK
    <3> HIDE DEF x
    <3> QED BY <3>2, <3>3, OneRequest, OneQuietRequest
  <2>3. CASE RejectLogin(r) \/ StillFresh(r) \/ DeleteSession(r) \/ DeleteFails(r) \/ Crash(r)
    BY <1>1, <1>2, <1>3, <2>3 DEF RejectLogin, StillFresh, DeleteSession, DeleteFails, Crash, At
  <2>4. CASE ClaimRefused(r) \/ CallUpstream(r) \/ Revoke(r) \/ FinishLogin(r)
    BY <1>1, <1>2, <1>3, <2>4 DEF ClaimRefused, CallUpstream, Revoke, FinishLogin, At
  <2> QED BY <2>1, <2>2, <2>3, <2>4
<1>5. RecordsEnd
  <2>1. CASE DeleteSession(r)
    BY <1>1, <2>1, DeletedEnds DEF DeleteSession, At, RecordsEnd
  <2>2. UNCHANGED session \/ DeleteSession(r)
    BY DEF RejectLogin, StillFresh, DeleteFails, Crash, ClaimRefused, VerifyRefresh, CallUpstream,
           Revoke, FinishLogin, ReadPrevious, storeVars
  <2> QED BY <2>1, <2>2, NoRecordChanges
<1>6. Stays
  BY DEF RejectLogin, StillFresh, DeleteSession, DeleteFails, Crash, ClaimRefused, VerifyRefresh,
         CallUpstream, Revoke, FinishLogin, ReadPrevious, storeVars, outside
<1>7. OutsideTyped
  <2>1. CASE UNCHANGED <<browser, revocations, uncommitted>>
    BY <2>1 DEF OutsideTyped, StoreTypeOK
  <2>2. CASE Revoke(r)
    <3>1. Token(r) \in Tokens
      BY <1>1, <2>2 DEF Revoke, At, Token, Tokens, StoreTypeOK, Held
    <3> QED BY <2>2, <3>1 DEF Revoke, OutsideTyped, StoreTypeOK
  <2>3. CASE FinishLogin(r)
    <3>1. request[r].session \in Sessions /\ {request[r].previous} \ {None} \subseteq Tokens
      BY <1>1, <2>3 DEF FinishLogin, At, Tokens, StoreTypeOK, Held
    <3> QED BY <2>3, <3>1 DEF FinishLogin, OutsideTyped, StoreTypeOK
  <2>4. UNCHANGED <<browser, revocations, uncommitted>> \/ Revoke(r) \/ FinishLogin(r)
    BY DEF RejectLogin, StillFresh, DeleteSession, DeleteFails, Crash, ClaimRefused, VerifyRefresh,
           CallUpstream, ReadPrevious, outside
  <2> QED BY <2>1, <2>2, <2>3, <2>4
<1> QED BY <1>4, <1>5, <1>6, <1>7, QuietStep DEF StoreTypeOK

LEMMA RequestSteps ==
  ASSUME SessionInv, NEW r \in Requests, ServeAlone(r)
  PROVE  SessionInv'
<1> USE DEF SessionInv
<1>1. CASE CommitRefresh(r) \/ CommitFails(r)
  <2>1. /\ UNCHANGED <<attempt, activeKey, submitted, opened>> /\ At(r, "verified")
        /\ OutsideTyped
    <3>1. Token(r) \in Tokens
      BY <1>1 DEF CommitRefresh, CommitFails, HeldTokens, At, Token, Tokens, StoreTypeOK, Held
    <3> QED BY <1>1, <3>1 DEF CommitRefresh, CommitFails, OutsideTyped, StoreTypeOK
  <2>2. request[r].session \in Sessions /\ request[r].tokens = request[r].generation + 1
        /\ request[r].tokens \in Generations
    BY <2>1 DEF HeldTokens, At, StoreTypeOK, Held
  <2>3. CASE UNCHANGED session /\ (End(r) \/ Goto(r, "revoking"))
    <3>1. QuietRequests
      BY <2>2, <2>3, EndHolds, GotoHolds, MovedFields, OneQuietRequest DEF Quiet, Stages
    <3> QED BY <2>1, <2>3, <3>1, NoRecordChanges, QuietStep DEF StoreTypeOK
  <2>4. CASE /\ MayCommit(r)
             /\ session' = [session EXCEPT ![request[r].session] = Renewed(r)]
             /\ End(r)
    BY <2>1, <2>4, EndHolds, CommitStep
  <2>5. CASE /\ MayCommit(r)
             /\ session' = [session EXCEPT ![request[r].session] = Renewed(r)]
             /\ request' = [request EXCEPT ![r].stage = "ready", ![r].generation = @ + 1]
    <3> DEFINE x == [request[r] EXCEPT !.stage = "ready", !.generation = @ + 1]
    <3>1. request[r] \in Held
      BY DEF StoreTypeOK
    <3>2. x \in Held /\ x.stage = "ready" /\ x.session = request[r].session
      BY <2>2, <3>1 DEF Held, Stages
    <3>3. request' = [request EXCEPT ![r] = x]
      BY <2>5 DEF StoreTypeOK
    <3> HIDE DEF x
    <3>4. NowHolds(r, x)
      BY <3>2, <3>3, OneRequest
    <3> QED BY <2>1, <2>5, <3>2, <3>4, CommitStep
  <2> QED BY <1>1, <2>3, <2>4, <2>5 DEF CommitRefresh, CommitFails
<1>2. CASE Wait(r)
  <2>1. UNCHANGED <<storeVars, outside>> /\ OutsideTyped
    BY <1>2 DEF Wait, OutsideTyped, StoreTypeOK, outside
  <2>2. CASE End(r)
    <3>1. QuietRequests
      BY <2>2, EndHolds, OneQuietRequest DEF Quiet
    <3> QED BY <2>1, <3>1, NoRecordChanges, QuietStep DEF StoreTypeOK, storeVars, outside
  <2>3. CASE Live(request[r].session) /\ ReadInto(r, request[r].session, "ready")
    <3>1. request[r].session \in Sessions
      BY <1>2 DEF Wait, At, HeldTokens
    <3> QED BY <2>1, <2>3, <3>1, ReadStep DEF Frame, storeVars, outside
  <2> QED BY <1>2, <2>2, <2>3 DEF Wait
<1>3. CASE MarkRefreshDispatched(r)
  <2>1. CASE OwnsRefresh(r) /\ ~session[request[r].session].dispatched
    BY <1>3, <2>1, MarkStep
  <2>2. CASE End(r) /\ UNCHANGED session
    <3>1. QuietRequests
      BY <2>2, EndHolds, OneQuietRequest DEF Quiet
    <3>2. OutsideTyped /\ UNCHANGED <<attempt, activeKey, submitted, opened>>
      BY <1>3 DEF MarkRefreshDispatched, OutsideTyped, StoreTypeOK, outside
    <3> QED BY <2>2, <3>1, <3>2, NoRecordChanges, QuietStep DEF StoreTypeOK
  <2> QED BY <1>3, <2>1, <2>2 DEF MarkRefreshDispatched
<1> QED
  BY <1>1, <1>2, <1>3, QuietKinds, ConsumeStep, CreateStep, ReencryptStep, ClaimStep
     DEF ServeAlone

LEMMA PlatformCalls ==
  ASSUME SessionInv, NEW r \in Requests, CallPlatform(r)
  PROVE  SessionInv'
BY ExchangeStep, SubmitStep, QuietKinds DEF CallPlatform

LEMMA BrowserSteps ==
  ASSUME SessionInv, Browse
  PROVE  SessionInv'
<1> USE DEF SessionInv
<1>1. ASSUME NEW a \in Attempts, Login(a) \/ AttemptExpires(a) PROVE SessionInv'
  BY <1>1, AttemptStep DEF Login, AttemptExpires, OutsideTyped, StoreTypeOK, outside
<1>2. ASSUME NEW s \in Sessions, Expire(s) PROVE SessionInv'
  <2>1. RecordsEnd
    BY <1>2, DeletedEnds DEF Expire, RecordsEnd
  <2> QED
    BY <1>2, <2>1, NoRequest, QuietStep DEF Expire, OutsideTyped, StoreTypeOK, outside
<1>3. CASE RotateKey
  BY <1>3, NoRequest, NoRecordChanges, QuietStep DEF RotateKey, OutsideTyped, StoreTypeOK, outside
<1>4. ASSUME NEW r \in Requests, NEW s \in Sessions, LoadSession(r, s) \/ Logout(r, s)
      PROVE  SessionInv'
  BY <1>4, ReadStep
     DEF LoadSession, Logout, OutsideTyped, StoreTypeOK, Frame, storeVars, outside
<1> QED BY <1>1, <1>2, <1>3, <1>4, InspectStep, RequestSteps DEF Browse

LEMMA StepKeepsSessions == SessionInv /\ [Next]_vars => SessionInv'
<1> SUFFICES ASSUME SessionInv, [Next]_vars PROVE SessionInv'
  OBVIOUS
<1>1. CASE UNCHANGED serverVars
  <2>1. UNCHANGED <<attempt, session, activeKey, submitted, opened, request>> /\ OutsideTyped
    BY <1>1 DEF serverVars, storeVars, outside, OutsideTyped, SessionInv, StoreTypeOK
  <2> QED BY <2>1, NoRequest, NoRecordChanges, QuietStep DEF SessionInv, StoreTypeOK
<1> QED BY <1>1, BrowserSteps, PlatformCalls DEF Next, vars

LEMMA InitSessions == Init => SessionInv
<1> SUFFICES ASSUME Init PROVE SessionInv
  OBVIOUS
<1>1. NoRecord \in Records /\ NoRecord.status = "absent"
  BY NumbersStart DEF NoRecord, Records
<1>2. StoreTypeOK
  BY <1>1, IdleFields DEF Init, InitStore, StoreTypeOK
<1>3. \A r \in Requests : request[r].stage = "idle"
  BY IdleFields DEF Init, InitStore
<1>4. \A s \in Sessions : session[s].status = "absent"
  BY <1>1 DEF Init, InitStore
<1>5. SubmittedOnce /\ EnvelopeIsCurrent /\ UnusedTokens
  BY <1>4 DEF Init, InitStore, SubmittedOnce, EnvelopeIsCurrent, UnusedTokens, Live, Tokens
<1>6. DispatchedIsFenced /\ HeldTokens /\ CallbacksAreApart
  BY <1>3 DEF Init, InitStore, DispatchedIsFenced, HeldTokens, CallbacksAreApart, SigningIn, At
<1> QED BY <1>2, <1>5, <1>6 DEF SessionInv

(* The inductive invariant of the store, the requests and the provider's   *)
(* tokens.                                                                 *)
THEOREM SessionsCorrect == Spec => []SessionInv
BY InitSessions, StepKeepsSessions, PTL DEF Spec

(* However processes claim, stall, die and race, a refresh token is given  *)
(* to the provider once.                                                   *)
THEOREM RefreshSubmittedOnce == Spec => []SubmittedOnce
BY SessionsCorrect, PTL DEF SessionInv

(* A record's tokens are those of its generation, also when its envelope   *)
(* is encrypted again while a refresh is under way.                        *)
THEOREM EnvelopesCurrent == Spec => []EnvelopeIsCurrent
BY SessionsCorrect, PTL DEF SessionInv

(* Two callbacks with one attempt establish one session at most.           *)
THEOREM AttemptsOpenOnce == Spec => []AttemptOpensOneSession
<1>1. ASSUME SessionInv, NEW a \in Attempts PROVE Cardinality(opened[a]) <= 1
  <2>1. CASE opened[a] = {}
    BY <2>1, FS_EmptySet
  <2>2. ASSUME NEW s \in Sessions, opened[a] = {s} PROVE Cardinality(opened[a]) <= 1
    BY <2>2, FS_Singleton
  <2> QED BY <1>1, <2>1, <2>2 DEF SessionInv, CallbacksAreApart
<1>2. SessionInv => AttemptOpensOneSession
  BY <1>1 DEF AttemptOpensOneSession
<1> QED BY <1>2, SessionsCorrect, PTL

(* What NeverResurrected says of one step. *)
Succession ==
  \A s \in Sessions :
    /\ session[s].status = "gone" => session'[s].status = "gone"
    /\ Live(s) /\ session'[s].status = "live" =>
         session'[s].generation \in {session[s].generation, session[s].generation + 1}

(* A record is written while it is live, for its generation or the next,   *)
(* or under a key that had none.                                           *)
LEMMA WritesSucceed ==
  ASSUME SessionInv, [Next]_vars
  PROVE  Succession
<1> USE DEF SessionInv
<1>1. ASSUME UNCHANGED session PROVE Succession
  BY <1>1 DEF Succession
<1>2. ASSUME NEW s \in Sessions, session' = Deleted(s) PROVE Succession
  BY <1>2, DeletedEnds DEF Succession, Live
<1>3. ASSUME NEW r \in Requests, CreateSession(r) PROVE Succession
  <2>1. /\ request[r].session \in Sessions /\ session[request[r].session].status = "absent"
    BY <1>3 DEF CreateSession, HeldTokens, CallbacksAreApart, At
  <2>2. /\ Replaced(r) \in [Sessions -> Records]
        /\ \A t \in Sessions : Replaced(r)[t] = session[t] \/ Replaced(r)[t].status = "gone"
    <3>1. CASE request[r].previous = None
      BY <3>1 DEF Replaced, StoreTypeOK
    <3>2. CASE request[r].previous # None
      <4>1. request[r].previous[1] \in Sessions
        BY <3>2 DEF StoreTypeOK, Held
      <4> QED BY <3>2, <4>1, DeletedEnds DEF Replaced
    <3> QED BY <3>1, <3>2
  <2>3. \A t \in Sessions \ {request[r].session} :
          session'[t] = session[t] \/ session'[t].status = "gone"
    BY <1>3, <2>1, <2>2 DEF CreateSession
  <2> QED BY <2>1, <2>3 DEF Succession, Live
<1>4. ASSUME NEW r \in Requests, Reencrypt(r) \/ ClaimRefresh(r) \/ MarkRefreshDispatched(r)
      PROVE  Succession
  <2>1. \A s \in Sessions : session[s] \in Records
    BY DEF StoreTypeOK
  <2>2. \A s \in Sessions : /\ session'[s].status = session[s].status
                            /\ session'[s].generation = session[s].generation
    <3>1. CASE Reencrypt(r)
      BY <2>1, <3>1 DEF Reencrypt, StoreTypeOK, Records
    <3>2. CASE ClaimRefresh(r)
      BY <2>1, <3>2 DEF ClaimRefresh, StoreTypeOK, Records
    <3>3. CASE MarkRefreshDispatched(r)
      BY <2>1, <3>3 DEF MarkRefreshDispatched, StoreTypeOK, Records
    <3> QED BY <1>4, <3>1, <3>2, <3>3
  <2> QED BY <2>2 DEF Succession, Live
<1>5. ASSUME NEW r \in Requests, CommitRefresh(r) \/ CommitFails(r) PROVE Succession
  <2>1. CASE /\ MayCommit(r)
             /\ session' = [session EXCEPT ![request[r].session] = Renewed(r)]
    <3>1. /\ request[r].session \in Sessions /\ Live(request[r].session)
          /\ Renewed(r).status = "live"
          /\ Renewed(r).generation = session[request[r].session].generation + 1
      BY <1>5, <2>1
         DEF CommitRefresh, CommitFails, MayCommit, OwnsRefresh, SameGeneration, Renewed,
             HeldTokens, At
    <3> QED BY <2>1, <3>1 DEF Succession, StoreTypeOK, Live
  <2> QED BY <1>1, <1>5, <2>1 DEF CommitRefresh, CommitFails
<1>6. ASSUME NEW r \in Requests, DeleteSession(r) PROVE Succession
  <2>1. request[r].session \in Sessions
    BY <1>6 DEF DeleteSession, HeldTokens, At
  <2> QED BY <1>2, <1>6, <2>1 DEF DeleteSession
<1>7. ASSUME NEW r \in Requests, ServeAlone(r) PROVE Succession
  BY <1>1, <1>3, <1>4, <1>5, <1>6, <1>7
     DEF ServeAlone, ConsumeAttempt, RejectLogin, ReadPrevious, StillFresh, ClaimRefused, Wait,
         DeleteFails, Crash, storeVars
<1>8. ASSUME NEW r \in Requests, CallPlatform(r) PROVE Succession
  <2>1. UNCHANGED session
    BY <1>8 DEF CallPlatform, ExchangeCode, SubmitRefresh, VerifyRefresh, CallUpstream, Revoke,
                FinishLogin, storeVars
  <2> QED BY <1>1, <2>1
<1>9. CASE Browse
  <2>1. ASSUME NEW s \in Sessions, Expire(s) PROVE Succession
    BY <1>2, <2>1 DEF Expire
  <2>2. ASSUME NEW a \in Attempts, NEW s \in Sessions, NEW r \in Requests,
               \/ Login(a) \/ AttemptExpires(a) \/ RotateKey \/ InspectAttempt(r, a)
               \/ LoadSession(r, s) \/ Logout(r, s)
        PROVE  UNCHANGED session
    BY <2>2 DEF Login, AttemptExpires, RotateKey, InspectAttempt, LoadSession, Logout, storeVars
  <2> QED
    BY <1>1, <1>7, <1>9, <2>1, <2>2
       DEF Browse, Login, AttemptExpires, RotateKey, InspectAttempt, LoadSession, Logout, storeVars
<1>10. CASE UNCHANGED serverVars
  BY <1>1, <1>10 DEF serverVars, storeVars
<1> QED BY <1>8, <1>9, <1>10 DEF Next, vars

(* A logout, a denial or an expiry is never undone by a commit that comes  *)
(* late, and a record that lives moves to its next generation only.        *)
THEOREM SessionsStayGone == Spec => NeverResurrected
<1>1. SessionInv /\ [Next]_vars => [Succession]_serverVars
  BY WritesSucceed
<1>2. NeverResurrected <=> [][Succession]_serverVars
  BY DEF NeverResurrected, Succession
<1> QED BY <1>1, <1>2, SessionsCorrect, PTL DEF Spec
=============================================================================
