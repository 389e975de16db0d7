----------------------------- MODULE ToolingPull -----------------------------
(***************************************************************************)
(* "ffd schema pull": the command line reads the locales and the published *)
(* revision of each collection, page by page, while others publish. Every  *)
(* page is a transaction of its own. The manifest is read twice, with the  *)
(* revisions fetched in between, and is taken when both readings agree;    *)
(* otherwise everything is read once more.                                 *)
(*                                                                         *)
(* A revision is immutable and is known by its sequence number: the head   *)
(* of a collection only ever moves to a new one. An order of locales comes *)
(* back when a locale is disabled and enabled again.                       *)
(***************************************************************************)
EXTENDS FiniteSets, Integers

CONSTANTS
  Collections,   \* numbered in the order of their ids
  LocaleLists,   \* lists of enabled locales
  PageSize,
  ChangeBound    \* bound on what others change

ASSUME PullAssumption ==
  /\ Collections \subseteq Nat \ {0} /\ LocaleLists # {}
  /\ PageSize \in Nat \ {0} /\ ChangeBound \in Nat

VARIABLES
  locales,    \* the enabled locales
  revision,   \* the published revision of each collection, 0 for none
  pull,       \* the pull: its step, what the pass has read, the first pass
  taken,      \* history: the platform when the first pass ended
  changes     \* changes left

pullVars == <<locales, revision, pull, taken, changes>>

NoRevisions == [c \in Collections |-> 0]
Platform == [locales |-> locales, read |-> revision]

(* "retried" counts the passes' pairs, "cursor" is the last collection of  *)
(* the latest page, 0 before the first one.                                *)
StartOfPull(retried) ==
  [step |-> "first", retried |-> retried, cursor |-> 0, locales |-> locales,
   read |-> NoRevisions, before |-> [locales |-> locales, read |-> NoRevisions]]

InitPull ==
  /\ locales \in LocaleLists
  /\ revision \in [Collections -> {0, 1}]
  /\ pull = [StartOfPull(0) EXCEPT !.step = "idle"]
  /\ taken = Platform
  /\ changes = ChangeBound

-----------------------------------------------------------------------------
(* Others *)

Publish(c) ==
  /\ changes > 0 /\ changes' = changes - 1
  /\ revision' = [revision EXCEPT ![c] = @ + 1]
  /\ UNCHANGED <<locales, pull, taken>>

ChangeLocales(list) ==
  /\ changes > 0 /\ changes' = changes - 1
  /\ list # locales /\ locales' = list
  /\ UNCHANGED <<revision, pull, taken>>

-----------------------------------------------------------------------------
(* A pass over the manifest *)

Reading == pull.step \in {"first", "second"}

(* The server answers with the collections after the cursor.               *)
Rest == {c \in Collections : c > pull.cursor /\ revision[c] # 0}
UpTo(last) == {c \in Rest : c <= last}
Collected(page) == [c \in Collections |-> IF c \in page THEN revision[c] ELSE pull.read[c]]

SameLocales == pull.cursor = 0 \/ locales = pull.locales

ReadPage(last) ==
  /\ Reading /\ SameLocales
  /\ last \in Rest /\ UpTo(last) # Rest /\ Cardinality(UpTo(last)) = PageSize
  /\ pull' = [pull EXCEPT !.cursor = last, !.locales = locales, !.read = Collected(UpTo(last))]
  /\ UNCHANGED <<locales, revision, taken, changes>>

LastPage == Reading /\ SameLocales /\ Cardinality(Rest) <= PageSize
Manifest == [locales |-> locales, read |-> Collected(Rest)]

EndFirstPass ==
  /\ pull.step = "first" /\ LastPage
  /\ pull' = [pull EXCEPT !.step = "revisions", !.before = Manifest]
  /\ taken' = Platform
  /\ UNCHANGED <<locales, revision, changes>>

(* A page that shows other locales than the first page of its pass.        *)
LocalesChanged ==
  /\ Reading /\ ~SameLocales
  /\ pull' = [pull EXCEPT !.step = "failed"]
  /\ UNCHANGED <<locales, revision, taken, changes>>

-----------------------------------------------------------------------------
(* The pull *)

BeginPull ==
  /\ pull.step \in {"idle", "pulled", "failed"}
  /\ pull' = StartOfPull(0)
  /\ UNCHANGED <<locales, revision, taken, changes>>

(* The listed revisions are fetched by their ids. *)
FetchRevisions ==
  /\ pull.step = "revisions"
  /\ pull' = [pull EXCEPT !.step = "second", !.cursor = 0, !.read = NoRevisions]
  /\ UNCHANGED <<locales, revision, taken, changes>>

(* Mutant: the two passes are compared by their locales and collections.   *)
SameKeys ==
  /\ pull.before.locales = locales
  /\ \A c \in Collections : pull.before.read[c] = 0 <=> Manifest.read[c] = 0

Stable == pull.before = Manifest

EndSecondPass ==
  /\ pull.step = "second" /\ LastPage
  /\ IF Stable THEN pull' = [pull EXCEPT !.step = "pulled"]
     ELSE IF pull.retried = 0 THEN pull' = StartOfPull(1)
     ELSE pull' = [pull EXCEPT !.step = "failed"]
  /\ UNCHANGED <<locales, revision, taken, changes>>

(* A request fails, or the project or the right to read it is gone. *)
PullFails ==
  /\ Reading \/ pull.step = "revisions"
  /\ pull' = [pull EXCEPT !.step = "failed"]
  /\ UNCHANGED <<locales, revision, taken, changes>>

PullNext ==
  \/ \E c \in Collections : Publish(c) \/ ReadPage(c)
  \/ \E list \in LocaleLists : ChangeLocales(list)
  \/ BeginPull \/ EndFirstPass \/ FetchRevisions \/ EndSecondPass
  \/ LocalesChanged \/ PullFails

PullSpec == InitPull /\ [][PullNext]_pullVars

-----------------------------------------------------------------------------
ReadingType == [locales: LocaleLists, read: [Collections -> Nat]]

PullTypeOK ==
  /\ locales \in LocaleLists /\ revision \in [Collections -> Nat]
  /\ pull \in [step: {"idle", "first", "revisions", "second", "pulled", "failed"},
               retried: {0, 1}, cursor: Collections \cup {0}, locales: LocaleLists,
               read: [Collections -> Nat], before: ReadingType]
  /\ taken \in ReadingType
  /\ changes \in 0..ChangeBound

(* What is pulled was, at one moment, the platform: the locales and all    *)
(* the published revisions, although it was read in pages between which    *)
(* collections appeared, revisions were published and locales went and     *)
(* came back. That moment is the end of the first pass.                    *)
PulledWasCurrent == pull.step = "pulled" => pull.before = taken
=============================================================================
