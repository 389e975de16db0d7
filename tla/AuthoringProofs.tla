--------------------------- MODULE AuthoringProofs ---------------------------
(***************************************************************************)
(* Schema authoring is sound for any number of developers, documents,      *)
(* revisions and dashboards: identities follow the revisions, a journal    *)
(* outlives what is uncertain, a push applies what was acknowledged, and   *)
(* Delivery is configured over published fields.                           *)
(***************************************************************************)
EXTENDS Authoring, TLAPS

-----------------------------------------------------------------------------
(* Types *)

Revision == [fields: SUBSET Fields, presentation: Presentations]

Planned == [step: {"planning"}, document: Documents, current: [Collections -> Nat],
            published: [Collections -> SUBSET Fields], active: SUBSET Collections]
Holding == [step: {"acquiring"}, body: Bodies]
Sent    == [step: {"waiting", "removing"}, body: Bodies, id: Commands]
Runs    == {Idle} \cup Planned \cup Holding \cup Sent

Requests == [process: Processes \cup {None}, command: Journals]

Configured   == [version: Nat, fields: SUBSET Fields]
Transactions == [step: {"idle"}] \cup
                [step: {"read", "checked"}, collection: Collections, fields: SUBSET Fields,
                 version: Nat]

AuthorityTypeOK ==
  /\ revisions \in [Collections -> Seq(Revision)]
  /\ identity \in [Collections -> [Fields -> {"new", "active", "retired"}]]
  /\ receipts \in [Commands -> Bodies \cup {None}]
  /\ delivery \in [Collections -> Configured]
  /\ configuring \in [Configurers -> Transactions]

ClientTypeOK ==
  /\ process \in [Processes -> Runs]
  /\ journal \in [Roots -> [Kinds -> Journals \cup {None}]]
  /\ requests \subseteq Requests
  /\ answers \subseteq Processes
  /\ uncertain \in [Roots -> [Kinds -> SUBSET Commands]]

(* What a run has in hand at each of its steps.                            *)
LEMMA HandsFull ==
  ASSUME ClientTypeOK, NEW p \in Processes
  PROVE  /\ At(p, "planning") => process[p] \in Planned
         /\ At(p, "acquiring") => process[p].body \in Bodies
         /\ At(p, "waiting") \/ At(p, "removing") => process[p] \in Sent
         /\ At(p, "acquiring") \/ At(p, "waiting") \/ At(p, "removing")
              => process[p].body.kind \in Kinds
<1>1. process[p] \in Runs
  BY DEF ClientTypeOK
<1>2. \A b \in Bodies : b.kind \in Kinds
  BY DEF Bodies, Kinds
<1> QED BY <1>1, <1>2 DEF Runs, Idle, At, Planned, Holding, Sent

(* The fields that a document gives a collection, and the ones published.  *)
LEMMA PublishedAreFields ==
  ASSUME AuthorityTypeOK, NEW c \in Collections
  PROVE  /\ Sequence(c) \in Nat
         /\ c \in Materialized => Published(c) \in Revision
         /\ PublishedFields(c) \subseteq Fields
<1>1. revisions[c] \in Seq(Revision)
  BY DEF AuthorityTypeOK
<1>2. Sequence(c) \in Nat /\ (Sequence(c) > 0 => Published(c) \in Revision)
  BY <1>1 DEF Sequence, Published
<1> QED BY <1>2 DEF PublishedFields, Materialized, Revision

LEMMA DocumentsDeclare ==
  ASSUME NEW document \in Documents
  PROVE  /\ Declared(document) \subseteq Collections
         /\ \A c \in Declared(document) : document[c] \subseteq Fields
BY SchemaAssumption DEF Declared

LEMMA ApplyTyped ==
  ASSUME AuthorityTypeOK, NEW m \in Journals, m.body.kind = "apply", ApplySchema(m)
  PROVE  AuthorityTypeOK'
<1>1. m.id \in Commands /\ m.body \in Bodies /\ m.body.document \in Documents
  BY DEF Journals, Bodies
<1> DEFINE d == m.body.document
           changed == Changed(d)
<1>2. Declared(d) \subseteq Collections /\ \A c \in Declared(d) : d[c] \subseteq Fields
  BY <1>1, DocumentsDeclare
<1>3. changed \subseteq Declared(d)
  BY DEF Changed
<1>4. \A c \in changed : NextRevision(d, c) \in Revision
  BY <1>2, <1>3, PublishedAreFields, SchemaAssumption DEF NextRevision, Revision
<1>5. revisions' \in [Collections -> Seq(Revision)]
  BY <1>4 DEF ApplySchema, AuthorityTypeOK
<1>6. \A c \in changed : Reconciled(d, c) \in [Fields -> {"new", "active", "retired"}]
  BY <1>2, <1>3 DEF Reconciled, AuthorityTypeOK
<1>7. identity' \in [Collections -> [Fields -> {"new", "active", "retired"}]]
  BY <1>6 DEF ApplySchema, AuthorityTypeOK
<1>8. receipts' \in [Commands -> Bodies \cup {None}] /\ UNCHANGED <<delivery, configuring>>
  BY <1>1 DEF ApplySchema, AuthorityTypeOK
<1> QED BY <1>5, <1>7, <1>8 DEF AuthorityTypeOK

LEMMA PublishTyped ==
  ASSUME AuthorityTypeOK, NEW m \in Journals, m.body.kind = "presentation",
         PublishPresentation(m)
  PROVE  AuthorityTypeOK'
<1>1. /\ m.id \in Commands /\ m.body \in Bodies /\ m.body.collection \in Collections
      /\ m.body.presentation \in Presentations
  BY DEF Journals, Bodies
<1>2. [fields |-> PublishedFields(m.body.collection), presentation |-> m.body.presentation]
        \in Revision
  BY <1>1, PublishedAreFields DEF Revision
<1>3. revisions' \in [Collections -> Seq(Revision)]
  BY <1>1, <1>2 DEF PublishPresentation, AuthorityTypeOK
<1>4. receipts' \in [Commands -> Bodies \cup {None}]
  BY <1>1 DEF PublishPresentation, AuthorityTypeOK
<1> QED BY <1>3, <1>4 DEF PublishPresentation, AuthorityTypeOK

LEMMA ConfigureTyped ==
  ASSUME AuthorityTypeOK, Dashboard
  PROVE  AuthorityTypeOK'
<1> PICK q \in Configurers :
      \/ \E s \in Selections : BeginConfigure(q, s[1], s[2])
      \/ CheckCapabilities(q) \/ Configure(q) \/ EndConfigure(q)
  BY DEF Dashboard
<1>0. configuring[q] \in Transactions
  BY DEF AuthorityTypeOK
<1>i. [step |-> "idle"] \in Transactions
  BY DEF Transactions
<1>1. ASSUME NEW s \in Selections, BeginConfigure(q, s[1], s[2]) PROVE AuthorityTypeOK'
  <2>1. s[1] \in Collections /\ s[2] \subseteq Fields
    BY SchemaAssumption
  <2>2. delivery[s[1]].version \in Nat
    BY <2>1 DEF AuthorityTypeOK, Configured
  <2>3. [step |-> "read", collection |-> s[1], fields |-> s[2],
         version |-> delivery[s[1]].version] \in Transactions
    BY <2>1, <2>2 DEF Transactions
  <2> QED BY <1>1, <2>3 DEF BeginConfigure, AuthorityTypeOK
<1>2. CASE CheckCapabilities(q)
  <2> DEFINE next == [configuring[q] EXCEPT !.step = "checked"]
  <2>1. next \in Transactions
    BY <1>0, <1>2 DEF CheckCapabilities, Transactions
  <2>2. configuring' = [configuring EXCEPT ![q] = next]
    BY <1>0, <1>2 DEF CheckCapabilities, Transactions
  <2> HIDE DEF next
  <2> QED BY <1>2, <2>1, <2>2 DEF CheckCapabilities, AuthorityTypeOK
<1>3. CASE Configure(q)
  <2>1. [version |-> configuring[q].version + 1, fields |-> configuring[q].fields] \in Configured
    BY <1>0, <1>3 DEF Configure, Transactions, Configured
  <2> QED BY <1>i, <1>3, <2>1 DEF Configure, AuthorityTypeOK
<1>4. CASE EndConfigure(q)
  BY <1>i, <1>4 DEF EndConfigure, AuthorityTypeOK
<1> QED BY <1>1, <1>2, <1>3, <1>4

(* A command that is sent, new or retained, is written down in full.       *)
LEMMA SendTyped ==
  ASSUME ClientTypeOK, NEW p \in Processes, At(p, "acquiring"), NEW m \in Commands, Send(p, m),
         journal' \in [Roots -> [Kinds -> Journals \cup {None}]]
  PROVE  ClientTypeOK'
<1> DEFINE b == process[p].body
<1>1. b \in Bodies /\ b.kind \in Kinds /\ RootOf[p] \in Roots
  BY HandsFull, ClientAssumption
<1>2. [step |-> "waiting", body |-> b, id |-> m] \in Runs
  BY <1>1 DEF Runs, Sent
<1>3. process' \in [Processes -> Runs]
  BY <1>2 DEF Send, ClientTypeOK
<1>4. [process |-> p, command |-> [id |-> m, body |-> b]] \in Requests
  BY <1>1 DEF Requests, Journals
<1>5. requests' \subseteq Requests
  BY <1>4 DEF Send, ClientTypeOK
<1>6. uncertain' \in [Roots -> [Kinds -> SUBSET Commands]]
  BY <1>1 DEF Send, ClientTypeOK
<1> QED BY <1>3, <1>5, <1>6 DEF Send, ClientTypeOK

LEMMA PushTyped ==
  ASSUME AuthorityTypeOK, ClientTypeOK, Push
  PROVE  ClientTypeOK'
<1>i. Idle \in Runs
  BY DEF Runs
<1>1. ASSUME NEW p \in Processes, NEW d \in Documents, PlanRevisions(p, d) PROVE ClientTypeOK'
  <2>1. Authority \in [Collections -> Nat] /\ CurrentFields \in [Collections -> SUBSET Fields]
    BY PublishedAreFields DEF Authority, CurrentFields
  <2>2. [step |-> "planning", document |-> d, current |-> Authority,
         published |-> CurrentFields, active |-> Materialized] \in Runs
    BY <2>1 DEF Runs, Planned, Materialized
  <2> QED BY <1>1, <2>2 DEF PlanRevisions, ClientTypeOK
<1>2. ASSUME NEW p \in Processes, PlanPush(p) PROVE ClientTypeOK'
  <2> DEFINE t == process[p]
  <2>1. t \in Planned
    BY <1>2, HandsFull DEF PlanPush
  <2>2. Risky(t.document, t.published) \subseteq Collections \X Fields
    BY <2>1, DocumentsDeclare DEF Risky, Planned
  <2>3. ApplyBody(p) \in Bodies
    BY <2>1, <2>2 DEF ApplyBody, Bodies, Planned, PlanHash
  <2>4. [step |-> "acquiring", body |-> ApplyBody(p)] \in Runs
    BY <2>3 DEF Runs, Holding
  <2> QED BY <1>i, <1>2, <2>4 DEF PlanPush, ClientTypeOK
<1>3. ASSUME NEW p \in Processes, NEW c \in Collections, NEW x \in Presentations,
             EditPresentation(p, c, x)
      PROVE  ClientTypeOK'
  <2> DEFINE b == [kind |-> "presentation", collection |-> c, expected |-> Sequence(c),
                   presentation |-> x]
  <2>1. b \in Bodies
    BY PublishedAreFields DEF Bodies
  <2>2. [step |-> "acquiring", body |-> b] \in Runs
    BY <2>1 DEF Runs, Holding
  <2> QED BY <1>3, <2>2 DEF EditPresentation, ClientTypeOK
<1>4. ASSUME NEW p \in Processes, NEW m \in Commands, LinkJournal(p, m) PROVE ClientTypeOK'
  <2>1. process[p].body \in Bodies /\ process[p].body.kind \in Kinds /\ RootOf[p] \in Roots
    BY <1>4, HandsFull, ClientAssumption DEF LinkJournal
  <2>2. [id |-> m, body |-> process[p].body] \in Journals
    BY <2>1 DEF Journals
  <2>3. journal' \in [Roots -> [Kinds -> Journals \cup {None}]]
    BY <1>4, <2>1, <2>2 DEF LinkJournal, ClientTypeOK
  <2> QED BY <1>4, <2>3, SendTyped DEF LinkJournal
<1>5. ASSUME NEW p \in Processes, ReuseJournal(p) PROVE ClientTypeOK'
  <2>1. process[p].body.kind \in Kinds /\ RootOf[p] \in Roots
    BY <1>5, HandsFull, ClientAssumption DEF ReuseJournal
  <2>2. Journal(p) \in Journals
    BY <1>5, <2>1 DEF ReuseJournal, Journal, ClientTypeOK
  <2>3. Journal(p).id \in Commands
    BY <2>2 DEF Journals
  <2> QED BY <1>5, <2>3, SendTyped DEF ReuseJournal, ClientTypeOK
<1>6. ASSUME NEW p \in Processes, RefuseJournal(p) PROVE ClientTypeOK'
  BY <1>i, <1>6 DEF RefuseJournal, ClientTypeOK
<1>7. ASSUME NEW p \in Processes, Receive(p) PROVE ClientTypeOK'
  <2> DEFINE next == [process[p] EXCEPT !.step = "removing"]
  <2>1. process[p] \in Sent /\ process[p].body.kind \in Kinds /\ RootOf[p] \in Roots
    BY <1>7, HandsFull, ClientAssumption DEF Receive
  <2>2. next \in Runs
    BY <2>1 DEF Runs, Sent
  <2>3. process' = [process EXCEPT ![p] = next] \/ process' = [process EXCEPT ![p] = Idle]
    BY <1>7 DEF Receive
  <2> HIDE DEF next
  <2>4. process' \in [Processes -> Runs]
    BY <1>i, <2>2, <2>3 DEF ClientTypeOK
  <2>5. uncertain' \in [Roots -> [Kinds -> SUBSET Commands]]
    BY <1>7, <2>1 DEF Receive, ClientTypeOK
  <2> QED BY <1>7, <2>4, <2>5 DEF Receive, ClientTypeOK
<1>8. ASSUME NEW p \in Processes, RemoveJournal(p) PROVE ClientTypeOK'
  <2>1. process[p].body.kind \in Kinds /\ RootOf[p] \in Roots
    BY <1>8, HandsFull, ClientAssumption DEF RemoveJournal
  <2> QED BY <1>i, <1>8, <2>1 DEF RemoveJournal, ClientTypeOK
<1>9. ASSUME NEW p \in Processes, Stop(p) PROVE ClientTypeOK'
  <2>1. \A q \in Requests : [q EXCEPT !.process = None] \in Requests
    BY DEF Requests
  <2>2. Orphaned(p) \subseteq Requests
    BY <2>1 DEF Orphaned, ClientTypeOK
  <2> QED BY <1>i, <1>9, <2>2 DEF Stop, ClientTypeOK
<1> QED BY <1>1, <1>2, <1>3, <1>4, <1>5, <1>6, <1>7, <1>8, <1>9 DEF Push

TypeOK == AuthorityTypeOK /\ ClientTypeOK

(* Every variable of authoring keeps its type.                             *)
THEOREM TypeCorrect == Spec => []TypeOK
<1>1. Init => TypeOK
  BY DEF Init, InitAuthority, InitClient, TypeOK, AuthorityTypeOK, ClientTypeOK, Transactions,
         Configured, Runs
<1>2. ASSUME TypeOK, [Next]_vars PROVE TypeOK'
  <2>0. AuthorityTypeOK /\ ClientTypeOK
    BY <1>2 DEF TypeOK
  <2>1. CASE Push
    <3>1. UNCHANGED authorityVars
      BY <2>1 DEF Push
    <3>2. AuthorityTypeOK'
      BY <2>0, <3>1 DEF AuthorityTypeOK, authorityVars
    <3> QED BY <2>0, <2>1, <3>2, PushTyped DEF TypeOK
  <2>2. CASE Dashboard
    <3>1. ClientTypeOK'
      BY <2>0, <2>2 DEF Dashboard, ClientTypeOK, clientVars
    <3> QED BY <2>0, <2>2, <3>1, ConfigureTyped DEF TypeOK
  <2>3. ASSUME NEW q \in requests, Handle(q) PROVE TypeOK'
    <3>1. q.command \in Journals /\ q.process \in Processes \cup {None}
      BY <2>0 DEF ClientTypeOK, Requests
    <3>2. ClientTypeOK'
      BY <2>0, <2>3, <3>1 DEF Handle, ClientTypeOK
    <3>3. AuthorityTypeOK'
      <4>1. CASE AnswerOnly
        BY <2>0, <4>1 DEF AnswerOnly, AuthorityTypeOK, authorityVars
      <4> QED BY <2>0, <2>3, <3>1, <4>1, ApplyTyped, PublishTyped DEF Handle
    <3> QED BY <3>2, <3>3 DEF TypeOK
  <2>4. ASSUME NEW q \in requests, Lose(q) PROVE TypeOK'
    BY <2>0, <2>4 DEF Lose, TypeOK, ClientTypeOK, AuthorityTypeOK, authorityVars
  <2>5. CASE UNCHANGED vars
    BY <2>0, <2>5 DEF vars, authorityVars, clientVars, TypeOK, ClientTypeOK, AuthorityTypeOK
  <2> QED BY <1>2, <2>1, <2>2, <2>3, <2>4, <2>5 DEF Next
<1>3. TypeOK /\ [Next]_vars => TypeOK'
  BY <1>2
<1> QED BY <1>1, <1>3, PTL DEF Spec

-----------------------------------------------------------------------------
(* Identities *)

(* What the identities of a collection remember of its revisions: the      *)
(* active ones are in the last revision, the new ones never were in one,   *)
(* and none comes back after a revision without it. The second part is     *)
(* what makes the third inductive: the revision that is appended brings    *)
(* no retired identity, and one that is not new is then still active.      *)
Remembers(s, row) ==
  /\ \A h \in Fields : row[h] = "active" <=> Len(s) > 0 /\ h \in s[Len(s)].fields
  /\ \A h \in Fields : row[h] = "new" => \A i \in 1..Len(s) : h \notin s[i].fields
  /\ \A i, j, k \in 1..Len(s) : i < j /\ j < k =>
       s[i].fields \cap s[k].fields \subseteq s[j].fields

IdentityInv == \A c \in Collections : Remembers(revisions[c], identity[c])

(* The rows after a revision: its fields are active, the rest that were    *)
(* active are retired.                                                     *)
After(row, fields) ==
  [h \in Fields |-> IF h \in fields THEN "active"
                    ELSE IF row[h] = "active" THEN "retired" ELSE row[h]]

LEMMA RemembersNext ==
  ASSUME NEW s \in Seq(Revision), NEW row \in [Fields -> {"new", "active", "retired"}],
         Remembers(s, row), NEW r \in Revision, \A h \in r.fields : row[h] # "retired"
  PROVE  Remembers(Append(s, r), After(row, r.fields))
<1> DEFINE t == Append(s, r)
           next == After(row, r.fields)
<1>1. /\ Len(s) \in Nat /\ Len(t) = Len(s) + 1 /\ t[Len(t)] = r
      /\ \A i \in 1..Len(s) : t[i] = s[i] /\ s[i].fields \subseteq Fields
      /\ r.fields \subseteq Fields
  <2>1. \A x \in Revision : x.fields \subseteq Fields
    BY DEF Revision
  <2>2. \A i \in 1..Len(s) : s[i] \in Revision
    OBVIOUS
  <2>3. Len(s) \in Nat /\ Len(t) = Len(s) + 1 /\ t[Len(t)] = r /\ \A i \in 1..Len(s) : t[i] = s[i]
    OBVIOUS
  <2> QED BY <2>1, <2>2, <2>3
<1> HIDE DEF t
<1>2. \A h \in Fields : next[h] = "active" <=> h \in r.fields
  BY DEF After
<1>3. ASSUME NEW h \in Fields, next[h] = "new", NEW i \in 1..Len(t) PROVE h \notin t[i].fields
  <2>1. h \notin r.fields /\ row[h] = "new"
    BY <1>3 DEF After
  <2>2. i = Len(t) \/ i \in 1..Len(s)
    BY <1>1
  <2> QED BY <1>1, <2>1, <2>2 DEF Remembers
<1>4. ASSUME NEW i \in 1..Len(t), NEW j \in 1..Len(t), NEW k \in 1..Len(t), i < j, j < k,
             NEW h \in t[i].fields, h \in t[k].fields
      PROVE  h \in t[j].fields
  <2>1. i \in 1..Len(s) /\ j \in 1..Len(s) /\ h \in s[i].fields /\ h \in Fields
    BY <1>1, <1>4
  <2>2. CASE k \in 1..Len(s)
    BY <1>1, <1>4, <2>1, <2>2 DEF Remembers
  <2>3. CASE k = Len(t)
    <3>1. row[h] = "active"
      BY <1>1, <1>4, <2>1, <2>3 DEF Remembers
    <3>2. Len(s) \in 1..Len(s) /\ h \in s[Len(s)].fields
      BY <1>1, <2>1, <3>1 DEF Remembers
    <3>3. h \in s[j].fields
      <4>1. CASE j = Len(s)
        BY <3>2, <4>1
      <4>2. CASE j < Len(s)
        BY <1>4, <2>1, <3>2, <4>2 DEF Remembers
      <4> QED BY <1>1, <2>1, <4>1, <4>2
    <3> QED BY <1>1, <2>1, <3>3
  <2> QED BY <1>1, <2>2, <2>3
<1> QED BY <1>1, <1>2, <1>3, <1>4 DEF Remembers

(* While identities remember the revisions, the active ones are published. *)
LEMMA ActiveIsPublished ==
  ASSUME AuthorityTypeOK, IdentityInv, NEW c \in Collections
  PROVE  Active(c) = PublishedFields(c)
<1>1. PublishedFields(c) \subseteq Fields /\ Sequence(c) \in Nat
  BY PublishedAreFields
<1>2. \A h \in Fields : identity[c][h] = "active" <=> Sequence(c) > 0 /\ h \in Published(c).fields
  BY DEF IdentityInv, Remembers, Sequence, Published
<1> QED BY <1>1, <1>2 DEF Active, PublishedFields, Materialized

LEMMA ApplyRemembers ==
  ASSUME AuthorityTypeOK, IdentityInv, NEW m \in Journals, m.body.kind = "apply", ApplySchema(m)
  PROVE  IdentityInv'
<1> SUFFICES ASSUME NEW c \in Collections PROVE Remembers(revisions'[c], identity'[c])
  BY DEF IdentityInv
<1> DEFINE d == m.body.document
<1>0. d \in Documents /\ Remembers(revisions[c], identity[c])
  BY DEF Journals, Bodies, IdentityInv
<1>1. CASE c \notin Changed(d)
  BY <1>0, <1>1 DEF ApplySchema
<1>2. CASE c \in Changed(d)
  <2> DEFINE r == NextRevision(d, c)
  <2>1. c \in Declared(d) /\ d[c] \subseteq Fields
    BY <1>0, <1>2, DocumentsDeclare DEF Changed
  <2>2. r \in Revision /\ r.fields = d[c]
    BY <2>1, PublishedAreFields, SchemaAssumption DEF NextRevision, Revision
  <2>3. \A h \in d[c] : identity[c][h] # "retired"
    BY <2>1 DEF ApplySchema, Accepts, Reconciles
  <2>4. identity[c] \in [Fields -> {"new", "active", "retired"}] /\ revisions[c] \in Seq(Revision)
    BY DEF AuthorityTypeOK
  <2>5. Reconciled(d, c) = After(identity[c], d[c])
    BY DEF Reconciled, After, Active
  <2>6. revisions'[c] = Append(revisions[c], r) /\ identity'[c] = After(identity[c], r.fields)
    BY <1>2, <2>2, <2>5 DEF ApplySchema
  <2> HIDE DEF r
  <2> QED BY <1>0, <2>2, <2>3, <2>4, <2>6, RemembersNext
<1> QED BY <1>1, <1>2

LEMMA PublishRemembers ==
  ASSUME AuthorityTypeOK, IdentityInv, NEW m \in Journals, m.body.kind = "presentation",
         PublishPresentation(m)
  PROVE  IdentityInv'
<1> SUFFICES ASSUME NEW c \in Collections PROVE Remembers(revisions'[c], identity'[c])
  BY DEF IdentityInv
<1>0. Remembers(revisions[c], identity[c])
  BY DEF IdentityInv
<1>1. CASE c # m.body.collection
  BY <1>0, <1>1 DEF PublishPresentation, AuthorityTypeOK
<1>2. CASE c = m.body.collection
  <2> DEFINE r == [fields |-> PublishedFields(c), presentation |-> m.body.presentation]
  <2>1. m.body.presentation \in Presentations
    BY DEF Journals, Bodies
  <2>2. r \in Revision
    BY <2>1, PublishedAreFields DEF Revision
  <2>3. Active(c) = PublishedFields(c)
    BY ActiveIsPublished
  <2>4. identity[c] \in [Fields -> {"new", "active", "retired"}] /\ revisions[c] \in Seq(Revision)
    BY DEF AuthorityTypeOK
  <2>5. After(identity[c], r.fields) = identity[c]
    BY <2>3, <2>4 DEF After, Active
  <2>6. \A h \in r.fields : identity[c][h] # "retired"
    BY <2>3 DEF Active
  <2>7. revisions'[c] = Append(revisions[c], r) /\ identity'[c] = identity[c]
    BY <1>2 DEF PublishPresentation, AuthorityTypeOK
  <2> HIDE DEF r
  <2> QED BY <1>0, <2>2, <2>4, <2>5, <2>6, <2>7, RemembersNext
<1> QED BY <1>1, <1>2

(* The active identities of a collection are the fields of its current     *)
(* revision, and a field that a revision dropped never comes back.         *)
THEOREM IdentitiesCorrect == Spec => []IdentitiesFollowRevisions
<1>1. Init => IdentityInv
  BY DEF Init, InitAuthority, IdentityInv, Remembers
<1>2. ASSUME TypeOK, IdentityInv, [Next]_vars PROVE IdentityInv'
  <2>1. CASE UNCHANGED <<revisions, identity>>
    BY <1>2, <2>1 DEF IdentityInv
  <2>2. Push \/ UNCHANGED vars => UNCHANGED <<revisions, identity>>
    BY DEF Push, vars, authorityVars
  <2>3. Dashboard => UNCHANGED <<revisions, identity>>
    BY DEF Dashboard, BeginConfigure, CheckCapabilities, Configure, EndConfigure
  <2>4. ASSUME NEW q \in requests, Handle(q) PROVE IdentityInv'
    <3>1. q.command \in Journals
      BY <1>2 DEF TypeOK, ClientTypeOK, Requests
    <3>2. AnswerOnly => UNCHANGED <<revisions, identity>>
      BY DEF AnswerOnly, authorityVars
    <3> QED BY <1>2, <2>1, <2>4, <3>1, <3>2, ApplyRemembers, PublishRemembers DEF Handle, TypeOK
  <2>5. ASSUME NEW q \in requests, Lose(q) PROVE UNCHANGED <<revisions, identity>>
    BY <2>5 DEF Lose, authorityVars
  <2> QED BY <1>2, <2>1, <2>2, <2>3, <2>4, <2>5 DEF Next
<1>3. TypeOK /\ IdentityInv /\ [Next]_vars => IdentityInv'
  BY <1>2
<1>4. ASSUME TypeOK, IdentityInv PROVE IdentitiesFollowRevisions
  <2> SUFFICES ASSUME NEW c \in Collections
               PROVE  /\ Active(c) = PublishedFields(c)
                      /\ \A i, j, k \in 1..Sequence(c) : i < j /\ j < k =>
                           revisions[c][i].fields \cap revisions[c][k].fields
                             \subseteq revisions[c][j].fields
    BY DEF IdentitiesFollowRevisions
  <2>1. Active(c) = PublishedFields(c)
    BY <1>4, ActiveIsPublished DEF TypeOK
  <2> QED BY <1>4, <2>1 DEF IdentityInv, Remembers, Sequence
<1>5. TypeOK /\ IdentityInv => IdentitiesFollowRevisions
  BY <1>4
<1> QED BY <1>1, <1>3, <1>5, TypeCorrect, PTL DEF Spec

-----------------------------------------------------------------------------
(* The retry journal *)

(* A project root is worked in by one run of the CLI at a time. (A run     *)
(* that ends is idle, and the next one in its root begins there.)          *)
OneProcessPerRoot == \A p, q \in Processes : RootOf[p] = RootOf[q] => p = q

(* A command is uncertain only while its journal is there to repeat it,    *)
(* and a journal is removed when its command is certain.                   *)
JournalInv ==
  /\ \A r \in Roots, k \in Kinds : \A m \in uncertain[r][k] :
       journal[r][k] # None /\ journal[r][k].id = m
  /\ \A p \in Processes :
       At(p, "removing") => uncertain[RootOf[p]][process[p].body.kind] = {}

LEMMA SendRetains ==
  ASSUME OneProcessPerRoot, ClientTypeOK, JournalInv, NEW p \in Processes, At(p, "acquiring"),
         NEW m \in Commands, Send(p, m),
         journal' = [journal EXCEPT ![RootOf[p]][process[p].body.kind] =
                       journal'[RootOf[p]][process[p].body.kind]],
         journal'[RootOf[p]][process[p].body.kind] # None,
         journal'[RootOf[p]][process[p].body.kind].id = m,
         uncertain[RootOf[p]][process[p].body.kind] \subseteq {m}
  PROVE  JournalInv'
<1> DEFINE home == RootOf[p]
           kind == process[p].body.kind
<1>1. home \in Roots /\ kind \in Kinds
  BY HandsFull, ClientAssumption
<1>2. /\ uncertain'[home][kind] = {m}
      /\ \A r \in Roots, k \in Kinds : r # home \/ k # kind =>
           uncertain'[r][k] = uncertain[r][k] /\ journal'[r][k] = journal[r][k]
  BY <1>1 DEF Send, ClientTypeOK
<1>3. process'[p].step = "waiting" /\ \A q \in Processes : q # p => process'[q] = process[q]
  BY DEF Send, ClientTypeOK
<1>4. ASSUME NEW r \in Roots, NEW k \in Kinds, NEW n \in uncertain'[r][k]
      PROVE  journal'[r][k] # None /\ journal'[r][k].id = n
  BY <1>2, <1>4 DEF JournalInv
<1>5. ASSUME NEW q \in Processes, At(q, "removing")'
      PROVE  uncertain'[RootOf[q]][process'[q].body.kind] = {}
  <2>1. q # p /\ process'[q] = process[q] /\ At(q, "removing")
    BY <1>3, <1>5 DEF At
  <2>2. RootOf[q] # home /\ RootOf[q] \in Roots /\ process[q].body.kind \in Kinds
    BY <2>1, HandsFull, ClientAssumption DEF OneProcessPerRoot
  <2> QED BY <1>2, <2>1, <2>2 DEF JournalInv
<1> QED BY <1>4, <1>5 DEF JournalInv

LEMMA PushRetains ==
  ASSUME OneProcessPerRoot, ClientTypeOK, JournalInv, Push
  PROVE  JournalInv'
<1> PICK p \in Processes :
      \/ \E d \in Documents : PlanRevisions(p, d)
      \/ PlanPush(p)
      \/ \E c \in Collections, x \in Presentations : EditPresentation(p, c, x)
      \/ \E m \in Commands : LinkJournal(p, m)
      \/ ReuseJournal(p) \/ RefuseJournal(p) \/ Receive(p) \/ RemoveJournal(p) \/ Stop(p)
  BY DEF Push
<1> DEFINE home == RootOf[p]
           kind == process[p].body.kind
<1>1. CASE UNCHANGED <<journal, uncertain>> /\ process'[p].step # "removing"
                /\ process' = [process EXCEPT ![p] = process'[p]]
  BY <1>1 DEF JournalInv, At, ClientTypeOK
<1>2. ASSUME NEW m \in Commands, LinkJournal(p, m) PROVE JournalInv'
  <2>1. home \in Roots /\ kind \in Kinds
    BY <1>2, HandsFull, ClientAssumption DEF LinkJournal
  <2>2. uncertain[home][kind] = {}
    BY <1>2, <2>1 DEF JournalInv, LinkJournal, Journal
  <2>3. journal'[home][kind] = [id |-> m, body |-> process[p].body]
    BY <1>2, <2>1 DEF LinkJournal, ClientTypeOK
  <2>4. process[p].body \in Bodies
    BY <1>2, HandsFull DEF LinkJournal
  <2>5. journal'[home][kind] # None /\ journal'[home][kind].id = m
    BY <2>3, <2>4, ClientAssumption DEF Journals
  <2> QED BY <1>2, <2>2, <2>3, <2>5, SendRetains DEF LinkJournal
<1>3. CASE ReuseJournal(p)
  <2>1. home \in Roots /\ kind \in Kinds
    BY <1>3, HandsFull, ClientAssumption DEF ReuseJournal
  <2>2. Journal(p) = journal[home][kind] /\ Journal(p) \in Journals
    BY <1>3, <2>1 DEF ReuseJournal, Journal, ClientTypeOK
  <2>3. Journal(p).id \in Commands /\ uncertain[home][kind] \subseteq {Journal(p).id}
    BY <2>1, <2>2 DEF JournalInv, Journals
  <2>4. journal' = [journal EXCEPT ![home][kind] = journal'[home][kind]]
    BY <1>3 DEF ReuseJournal, ClientTypeOK
  <2> QED BY <1>3, <2>2, <2>3, <2>4, SendRetains DEF ReuseJournal
<1>4. CASE Receive(p)
  <2>1. home \in Roots /\ kind \in Kinds /\ process[p] \in Sent
    BY <1>4, HandsFull, ClientAssumption DEF Receive
  <2>2. /\ uncertain'[home][kind] = uncertain[home][kind] \ {process[p].id}
        /\ \A r \in Roots, k \in Kinds : uncertain'[r][k] \subseteq uncertain[r][k]
    BY <1>4, <2>1 DEF Receive, ClientTypeOK
  <2>3. /\ \A q \in Processes : q # p => process'[q] = process[q]
        /\ At(p, "removing")' => process'[p].body = process[p].body
                                   /\ Journal(p) # None /\ Journal(p).id = process[p].id
    BY <1>4, <2>1 DEF Receive, ClientTypeOK, At, Idle, Sent
  <2>4. ASSUME NEW r \in Roots, NEW k \in Kinds, NEW n \in uncertain'[r][k]
        PROVE  journal'[r][k] # None /\ journal'[r][k].id = n
    BY <1>4, <2>2, <2>4 DEF JournalInv, Receive
  <2>5. ASSUME NEW q \in Processes, At(q, "removing")'
        PROVE  uncertain'[RootOf[q]][process'[q].body.kind] = {}
    <3>1. CASE q = p
      BY <2>1, <2>2, <2>3, <2>5, <3>1 DEF JournalInv, Journal
    <3>2. CASE q # p
      <4>1. process'[q] = process[q] /\ At(q, "removing")
        BY <2>3, <2>5, <3>2 DEF At
      <4>2. RootOf[q] \in Roots /\ process[q].body.kind \in Kinds
        BY <4>1, HandsFull, ClientAssumption
      <4> QED BY <2>2, <4>1, <4>2 DEF JournalInv
    <3> QED BY <3>1, <3>2
  <2> QED BY <2>4, <2>5 DEF JournalInv
<1>5. CASE RemoveJournal(p)
  <2>1. home \in Roots /\ kind \in Kinds /\ uncertain[home][kind] = {}
    BY <1>5, HandsFull, ClientAssumption DEF RemoveJournal, JournalInv
  <2>2. \A r \in Roots, k \in Kinds : r # home \/ k # kind => journal'[r][k] = journal[r][k]
    BY <1>5, <2>1 DEF RemoveJournal, ClientTypeOK
  <2>3. \A q \in Processes : At(q, "removing")' => process'[q] = process[q] /\ At(q, "removing")
    BY <1>5 DEF RemoveJournal, ClientTypeOK, At, Idle
  <2> QED BY <1>5, <2>1, <2>2, <2>3 DEF RemoveJournal, JournalInv
<1>6. CASE RefuseJournal(p) \/ Stop(p)
  BY <1>1, <1>6 DEF RefuseJournal, Stop, Idle, ClientTypeOK
<1>7. CASE PlanPush(p)
  BY <1>1, <1>7 DEF PlanPush, Idle, ClientTypeOK
<1>8. ASSUME NEW d \in Documents, PlanRevisions(p, d) PROVE JournalInv'
  BY <1>1, <1>8 DEF PlanRevisions, ClientTypeOK
<1>9. ASSUME NEW c \in Collections, NEW x \in Presentations, EditPresentation(p, c, x)
      PROVE  JournalInv'
  BY <1>1, <1>9 DEF EditPresentation, ClientTypeOK
<1> QED BY <1>2, <1>3, <1>4, <1>5, <1>6, <1>7, <1>8, <1>9

(* With one process in each root, a command that was sent and never        *)
(* answered keeps its journal through crashes, refusals and later runs.    *)
THEOREM JournalRetained == ASSUME OneProcessPerRoot PROVE Spec => []UncertainIsRetained
<1>1. Init => JournalInv
  BY ClientAssumption DEF Init, InitClient, JournalInv, At, Idle
<1>2. ASSUME TypeOK, JournalInv, [Next]_vars PROVE JournalInv'
  <2>1. CASE UNCHANGED <<process, journal, uncertain>>
    BY <1>2, <2>1 DEF JournalInv, At
  <2>2. Dashboard \/ UNCHANGED vars => UNCHANGED <<process, journal, uncertain>>
    BY DEF Dashboard, vars, clientVars
  <2>3. \A q \in requests : Handle(q) \/ Lose(q) => UNCHANGED <<process, journal, uncertain>>
    BY DEF Handle, Lose
  <2> QED BY <1>2, <2>1, <2>2, <2>3, PushRetains DEF Next, TypeOK
<1>3. TypeOK /\ JournalInv /\ [Next]_vars => JournalInv'
  BY <1>2
<1>4. JournalInv => UncertainIsRetained
  BY DEF JournalInv, UncertainIsRetained
<1> QED BY <1>1, <1>3, <1>4, TypeCorrect, PTL DEF Spec

-----------------------------------------------------------------------------
(* Delivery configuration *)

(* What a transaction checked is still true when it writes: the schema     *)
(* writers wait for it to end.                                             *)
CheckedInv ==
  \A q \in Configurers :
    configuring[q].step = "checked" =>
      configuring[q].fields \subseteq PublishedFields(configuring[q].collection)

(* The fields that are configured for Delivery are published at that       *)
(* moment, and the version grows by one.                                   *)
THEOREM ConfigurationChecked == Spec => ConfiguresPublishedFields
<1>1. Init => CheckedInv
  BY DEF Init, InitAuthority, CheckedInv
<1>2. ASSUME TypeOK, CheckedInv, [Next]_vars PROVE CheckedInv'
  <2>1. CASE UNCHANGED <<revisions, configuring>>
    BY <1>2, <2>1 DEF CheckedInv, PublishedFields, Materialized, Published, Sequence
  <2>2. Push \/ UNCHANGED vars => UNCHANGED <<revisions, configuring>>
    BY DEF Push, vars, authorityVars
  <2>3. ASSUME NEW q \in requests, Handle(q) \/ Lose(q) PROVE CheckedInv'
    <3>1. AnswerOnly \/ Lose(q) => UNCHANGED <<revisions, configuring>>
      BY DEF AnswerOnly, Lose, authorityVars
    <3>2. ApplySchema(q.command) \/ PublishPresentation(q.command)
            => ProjectFree /\ UNCHANGED configuring
      BY DEF ApplySchema, PublishPresentation
    <3>3. ProjectFree /\ UNCHANGED configuring => CheckedInv'
      BY DEF ProjectFree, CheckedInv
    <3> QED BY <2>1, <2>3, <3>1, <3>2, <3>3 DEF Handle
  <2>4. CASE Dashboard
    <3> PICK q \in Configurers :
          \/ \E s \in Selections : BeginConfigure(q, s[1], s[2])
          \/ CheckCapabilities(q) \/ Configure(q) \/ EndConfigure(q)
      BY <2>4 DEF Dashboard
    <3>0. /\ UNCHANGED revisions
          /\ \A o \in Configurers : o # q => configuring'[o] = configuring[o]
      BY <1>2 DEF BeginConfigure, CheckCapabilities, Configure, EndConfigure, TypeOK,
                  AuthorityTypeOK
    <3>1. \A c : PublishedFields(c)' = PublishedFields(c)
      BY <3>0 DEF PublishedFields, Materialized, Published, Sequence
    <3>2. configuring'[q].step = "checked" =>
            configuring'[q].fields \subseteq PublishedFields(configuring'[q].collection)
      <4>1. CASE CheckCapabilities(q)
        <5>1. configuring[q] \in Transactions
          BY <1>2 DEF TypeOK, AuthorityTypeOK
        <5>2. /\ configuring'[q].fields = configuring[q].fields
              /\ configuring'[q].collection = configuring[q].collection
          BY <1>2, <4>1, <5>1 DEF CheckCapabilities, Transactions, TypeOK, AuthorityTypeOK
        <5> QED BY <4>1, <5>2 DEF CheckCapabilities, Configurable
      <4>2. ~CheckCapabilities(q) => configuring'[q].step # "checked"
        BY <1>2 DEF BeginConfigure, Configure, EndConfigure, TypeOK, AuthorityTypeOK
      <4> QED BY <4>1, <4>2
    <3> QED BY <1>2, <3>0, <3>1, <3>2 DEF CheckedInv
  <2> QED BY <1>2, <2>1, <2>2, <2>3, <2>4 DEF Next
<1>3. ASSUME TypeOK, CheckedInv, [Next]_vars
      PROVE  \A c \in Collections :
               delivery'[c] # delivery[c] =>
                 /\ delivery'[c].fields \subseteq PublishedFields(c)
                 /\ delivery'[c].version = delivery[c].version + 1
  <2> SUFFICES ASSUME NEW c \in Collections, delivery'[c] # delivery[c]
               PROVE  /\ delivery'[c].fields \subseteq PublishedFields(c)
                      /\ delivery'[c].version = delivery[c].version + 1
    OBVIOUS
  <2>1. \A q \in requests : Handle(q) \/ Lose(q) => UNCHANGED delivery
    BY DEF Handle, Lose, ApplySchema, PublishPresentation, AnswerOnly, authorityVars
  <2>2. Push \/ UNCHANGED vars => UNCHANGED delivery
    BY DEF Push, vars, authorityVars
  <2>3. PICK q \in Configurers : Configure(q)
    BY <1>3, <2>1, <2>2 DEF Next, Dashboard, BeginConfigure, CheckCapabilities, EndConfigure
  <2>4. /\ c = configuring[q].collection
        /\ delivery'[c] = [version |-> delivery[c].version + 1, fields |-> configuring[q].fields]
    BY <1>3, <2>3 DEF Configure, TypeOK, AuthorityTypeOK
  <2> QED BY <1>3, <2>3, <2>4 DEF Configure, CheckedInv
<1>4. TypeOK /\ CheckedInv /\ [Next]_vars => CheckedInv'
  BY <1>2
<1>5. TypeOK /\ CheckedInv /\ [Next]_vars =>
        [\A c \in Collections :
           delivery'[c] # delivery[c] =>
             /\ delivery'[c].fields \subseteq PublishedFields(c)
             /\ delivery'[c].version = delivery[c].version + 1]_vars
  BY <1>3
<1> QED BY <1>1, <1>4, <1>5, TypeCorrect, PTL DEF Spec, ConfiguresPublishedFields

-----------------------------------------------------------------------------
(* Apply *)

(* A push applies exactly what its developer acknowledged, over exactly    *)
(* the revisions its plan was made from.                                   *)
THEOREM PlansApplied == Spec => AppliesWhatWasPlanned
<1> DEFINE Applied(m) ==
      LET body == receipts'[m] IN
      receipts[m] = None /\ body # None /\ body.kind = "apply" =>
        /\ \A c \in Collections : body.current[c] = Sequence(c)
        /\ body.acknowledged =
             {x \in Collections \X Fields :
                x[2] \in PublishedFields(x[1]) /\ x[2] \notin PublishedFields(x[1])'}
<1>1. ASSUME TypeOK, [Next]_vars, NEW m \in Commands PROVE Applied(m)
  <2> DEFINE body == receipts'[m]
  <2> SUFFICES ASSUME receipts[m] = None, body # None, body.kind = "apply"
               PROVE  /\ \A c \in Collections : body.current[c] = Sequence(c)
                      /\ body.acknowledged =
                           {x \in Collections \X Fields :
                              x[2] \in PublishedFields(x[1]) /\ x[2] \notin PublishedFields(x[1])'}
    OBVIOUS
  <2>1. Push \/ Dashboard \/ UNCHANGED vars => UNCHANGED receipts
    BY DEF Push, Dashboard, BeginConfigure, CheckCapabilities, Configure, EndConfigure, vars,
           authorityVars
  <2>2. \A q \in requests : Lose(q) \/ (Handle(q) /\ AnswerOnly) => UNCHANGED receipts
    BY DEF Lose, AnswerOnly, authorityVars
  <2>3. PICK q \in requests :
          \/ q.command.body.kind = "apply" /\ ApplySchema(q.command)
          \/ q.command.body.kind = "presentation" /\ PublishPresentation(q.command)
    BY <1>1, <2>1, <2>2 DEF Next, Handle
  <2>4. body = q.command.body
    BY <1>1, <2>3 DEF ApplySchema, PublishPresentation, TypeOK, AuthorityTypeOK
  <2>5. ApplySchema(q.command)
    BY <2>3, <2>4
  <2>6. q.command \in Journals /\ body.document \in Documents
    BY <1>1, <2>4 DEF TypeOK, ClientTypeOK, Requests, Journals, Bodies
  <2> DEFINE d == body.document
  <2>7. /\ Declared(d) \subseteq Collections /\ Materialized \subseteq Declared(d)
        /\ body.current = Authority /\ body.acknowledged = Risky(d, CurrentFields)
    BY <2>4, <2>5, <2>6, DocumentsDeclare DEF ApplySchema, Accepts, Reconciles
  <2>8. ASSUME NEW c \in Collections
        PROVE  PublishedFields(c)' = IF c \in Declared(d) THEN d[c] ELSE {}
    <3>1. /\ c \in Changed(d) => revisions'[c] = Append(revisions[c], NextRevision(d, c))
          /\ c \notin Changed(d) => revisions'[c] = revisions[c]
      BY <2>4, <2>5 DEF ApplySchema
    <3>2. revisions[c] \in Seq(Revision)
      BY <1>1 DEF TypeOK, AuthorityTypeOK
    <3>3. CASE c \in Changed(d)
      <4>1. d[c] \subseteq Fields /\ c \in Declared(d)
        BY <2>6, <3>3, DocumentsDeclare DEF Changed
      <4>2. NextRevision(d, c) \in Revision /\ NextRevision(d, c).fields = d[c]
        BY <1>1, <4>1, PublishedAreFields, SchemaAssumption DEF NextRevision, Revision, TypeOK
      <4>3. Len(revisions'[c]) > 0 /\ revisions'[c][Len(revisions'[c])] = NextRevision(d, c)
        BY <3>1, <3>2, <3>3, <4>2
      <4> QED BY <4>1, <4>2, <4>3 DEF PublishedFields, Materialized, Published, Sequence
    <3>4. CASE c \notin Changed(d)
      <4>1. PublishedFields(c)' = PublishedFields(c)
        BY <3>1, <3>4 DEF PublishedFields, Materialized, Published, Sequence
      <4> QED BY <2>7, <3>4, <4>1 DEF Changed, PublishedFields
    <3> QED BY <3>3, <3>4
  <2>9. \A c \in Collections : c \notin Declared(d) => PublishedFields(c) = {}
    BY <2>7 DEF PublishedFields
  <2>10. Risky(d, CurrentFields) =
           {x \in Collections \X Fields :
              x[2] \in PublishedFields(x[1]) /\ x[2] \notin PublishedFields(x[1])'}
    <3>1. \A c \in Declared(d) : CurrentFields[c] = PublishedFields(c)
      BY <2>7 DEF CurrentFields
    <3>2. \A x \in Collections \X Fields :
            x \in Risky(d, CurrentFields)
              <=> x[2] \in PublishedFields(x[1]) /\ x[2] \notin PublishedFields(x[1])'
      BY <2>7, <2>8, <2>9, <3>1 DEF Risky
    <3>3. Risky(d, CurrentFields) \subseteq Collections \X Fields
      BY <2>7 DEF Risky
    <3> QED BY <3>2, <3>3
  <2> QED BY <2>7, <2>10 DEF Authority
<1>2. TypeOK /\ [Next]_vars => [\A m \in Commands : Applied(m)]_vars
  BY <1>1
<1> QED BY <1>2, TypeCorrect, PTL DEF Spec, AppliesWhatWasPlanned
=============================================================================
