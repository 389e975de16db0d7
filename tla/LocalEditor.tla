----------------------------- MODULE LocalEditor -----------------------------
(***************************************************************************)
(* "ffd editor": a process that shows the content of a project under the   *)
(* schema its code declares. It watches the files of the schema, extracts  *)
(* it again when one changes, asks the platform now and then which schema  *)
(* is published, and lets content be written only while the two agree.     *)
(*                                                                         *)
(* The process has one thread: a step is what runs between two awaits. An  *)
(* extraction reads all files in one step: a change to a file that it has  *)
(* read already is to it the same as a change after its end.               *)
(***************************************************************************)
EXTENDS Naturals

CONSTANTS
  Files,        \* files of the project that may hold parts of the schema
  Texts,        \* what a file may say
  Schemas,      \* project documents
  Invalid,      \* what code declares that is no schema
  Reads,        \* the files that are read to extract a code
  Says,         \* the schema that a code declares, or Invalid
  Unknown,      \* no code, or no schema
  FirstCode,    \* the code that was pushed when the project was set up
  EditBound,    \* bound on the changes of the code
  PushBound     \* bound on the schemas that others publish

Codes == [Files -> Texts]

ASSUME EditorAssumption ==
  /\ Reads \in [Codes -> SUBSET Files]
  /\ Says \in [Codes -> Schemas \cup {Invalid}]
  /\ \A c, d \in Codes : (\A f \in Reads[c] : c[f] = d[f]) => Says[c] = Says[d]
  /\ FirstCode \in Codes /\ Says[FirstCode] \in Schemas
  /\ Invalid \notin Schemas /\ Unknown \notin Schemas \cup Codes
  /\ EditBound \in Nat /\ PushBound \in Nat

VARIABLES
  code,       \* the files on disk
  hosted,     \* the schema that the platform publishes
  editor,     \* closed, prepared (extracted), authorized (asked) or open
  source,     \* the code that an extraction read last
  view,       \* the snapshot: its schema, valid, matches hosted, diagnostic
  known,      \* the hosted schema as it was last told
  fetching,   \* the answer to a question about it that is on its way
  watched,    \* files with a watcher
  stray,      \* those of them with a watcher that nothing closes
  events,     \* changes of watched files on their way to the process
  timer,      \* a reload is scheduled
  loading,    \* an extraction: no, begun or read
  rerun,      \* a reload was asked for while one was under way
  missed,     \* files that changed unwatched since they were last read
  left        \* changes and publications left

watcherVars == <<watched, stray, events, timer, loading, rerun>>
hostedVars == <<known, fetching>>
editorVars == <<code, hosted, editor, source, view, hostedVars, watcherVars, missed, left>>

Open == editor = "open"
NoView == [schema |-> Unknown, valid |-> FALSE, matches |-> FALSE, diagnostic |-> "none"]

Stopped ==
  /\ editor' = "closed" /\ source' = Unknown /\ view' = NoView
  /\ known' = Unknown /\ fetching' = Unknown
  /\ watched' = {} /\ stray' = {} /\ events' = {} /\ timer' = FALSE
  /\ loading' = "no" /\ rerun' = FALSE

InitEditor ==
  /\ code = FirstCode /\ hosted = Says[FirstCode]
  /\ editor = "closed" /\ source = Unknown /\ view = NoView
  /\ known = Unknown /\ fetching = Unknown
  /\ watched = {} /\ stray = {} /\ events = {} /\ timer = FALSE /\ loading = "no" /\ rerun = FALSE
  /\ missed = {}
  /\ left = [edits |-> EditBound, pushes |-> PushBound]

-----------------------------------------------------------------------------
(* Around the process *)

(* A watcher of a file that changes reports it, sooner or later.           *)
EditCode(f, text) ==
  /\ left.edits > 0 /\ text # code[f]
  /\ code' = [code EXCEPT ![f] = text]
  /\ left' = [left EXCEPT !.edits = @ - 1]
  /\ IF f \in watched THEN events' = events \cup {f} /\ UNCHANGED missed
     ELSE missed' = missed \cup {f} /\ UNCHANGED events
  /\ UNCHANGED <<hosted, editor, source, view, hostedVars, watched, stray, timer, loading, rerun>>

PushSchema(schema) ==
  /\ left.pushes > 0 /\ schema # hosted
  /\ hosted' = schema
  /\ left' = [left EXCEPT !.pushes = @ - 1]
  /\ UNCHANGED <<code, editor, source, view, hostedVars, watcherVars, missed>>

-----------------------------------------------------------------------------
(* Start and end *)

(* The code is extracted first and refused when it is invalid; then the    *)
(* platform is asked, and only then are the files watched.                 *)
Prepare ==
  /\ editor = "closed" /\ Says[code] # Invalid
  /\ editor' = "prepared" /\ source' = code /\ missed' = {}
  /\ UNCHANGED <<code, hosted, view, hostedVars, watcherVars, left>>

LoadHosted ==
  /\ editor = "prepared"
  /\ editor' = "authorized" /\ known' = hosted
  /\ UNCHANGED <<code, hosted, source, view, fetching, watcherVars, missed, left>>

Valid(schema) ==
  [schema |-> schema, valid |-> TRUE, matches |-> schema = known, diagnostic |-> "none"]

StartWatching ==
  /\ editor = "authorized"
  /\ editor' = "open" /\ view' = Valid(Says[source]) /\ watched' = Reads[source]
  /\ UNCHANGED <<code, hosted, source, hostedVars, stray, events, timer, loading, rerun, missed,
                 left>>

(* A failure of the start, a signal or a crash. *)
CloseEditor == editor # "closed" /\ Stopped /\ UNCHANGED <<code, hosted, missed, left>>

-----------------------------------------------------------------------------
(* Watching *)

(* A change schedules a reload, or puts off the one that is scheduled.     *)
Notice(f) ==
  /\ f \in events
  /\ events' = events \ {f} /\ timer' = TRUE
  /\ UNCHANGED <<code, hosted, editor, source, view, hostedVars, watched, stray, loading, rerun,
                 missed, left>>

(* Mutant: a reload that meets another one is dropped.                     *)
ReloadOnce ==
  /\ timer /\ timer' = FALSE
  /\ loading' = IF loading = "no" THEN "begun" ELSE loading
  /\ UNCHANGED <<code, hosted, editor, source, view, hostedVars, watched, stray, events, rerun,
                 missed, left>>

Reload ==
  /\ timer /\ timer' = FALSE
  /\ IF loading = "no" THEN loading' = "begun" /\ UNCHANGED rerun
     ELSE rerun' = TRUE /\ UNCHANGED loading
  /\ UNCHANGED <<code, hosted, editor, source, view, hostedVars, watched, stray, events, missed,
                 left>>

(* The extraction runs in a worker thread. *)
Extract ==
  /\ loading = "begun"
  /\ loading' = "read" /\ source' = code /\ missed' = {}
  /\ UNCHANGED <<code, hosted, editor, view, hostedVars, watched, stray, events, timer,
                 rerun, left>>

(* However a reload ends, one that was asked for meanwhile is scheduled.   *)
EndReload ==
  /\ loading' = "no" /\ rerun' = FALSE
  /\ timer' = (timer \/ rerun)

(* The watchers that are known are closed, and files get new ones. A change *)
(* that its watcher has not reported when it is closed may be lost.        *)
Rewatch(files) ==
  /\ watched' = stray \cup files
  /\ \E lost \in SUBSET (events \ stray) :
       /\ events \ watched' \subseteq lost
       /\ events' = events \ lost /\ missed' = missed \cup lost

Extracted ==
  /\ loading = "read" /\ Says[source] # Invalid
  /\ view' = Valid(Says[source])
  /\ Rewatch(Reads[source])
  /\ EndReload
  /\ UNCHANGED <<code, hosted, editor, source, hostedVars, stray, left>>

(* A file cannot be watched any more: the view is the new one but invalid, *)
(* and nothing will close the watchers that were started before.           *)
WatchingFails ==
  /\ loading = "read" /\ Says[source] # Invalid
  /\ view' = [Valid(Says[source]) EXCEPT !.valid = FALSE, !.matches = FALSE,
                                         !.diagnostic = "worker"]
  /\ \E files \in (SUBSET Reads[source]) \ {Reads[source]} :
       Rewatch(files) /\ stray' = stray \cup files
  /\ EndReload
  /\ UNCHANGED <<code, hosted, editor, source, hostedVars, left>>

(* The last valid view stays, and so do the watchers of its files. *)
Rejected(diagnostic) ==
  /\ view' = [view EXCEPT !.valid = FALSE, !.matches = FALSE, !.diagnostic = diagnostic]
  /\ EndReload
  /\ UNCHANGED <<code, hosted, editor, source, hostedVars, watched, stray, events, missed, left>>

ExtractionFails ==
  \/ loading = "read" /\ Says[source] = Invalid /\ Rejected("schema")
  \/ loading # "no" /\ Rejected("worker")

-----------------------------------------------------------------------------
(* The hosted schema *)

PollHosted ==
  /\ Open /\ fetching = Unknown
  /\ fetching' = hosted
  /\ UNCHANGED <<code, hosted, editor, source, view, known, watcherVars, missed, left>>

(* Mutant: only a view that already matches is compared again.             *)
DriftOnly(schema) == view.matches /\ view.schema = schema

StillMatches(schema) == view.valid /\ view.schema = schema

HostedAnswered ==
  /\ fetching # Unknown
  /\ known' = fetching /\ fetching' = Unknown
  /\ view' = [view EXCEPT !.matches = StillMatches(fetching)]
  /\ UNCHANGED <<code, hosted, editor, source, watcherVars, missed, left>>

PollFails ==
  /\ fetching # Unknown /\ fetching' = Unknown
  /\ UNCHANGED <<code, hosted, editor, source, view, known, watcherVars, missed, left>>

(* What the server behind the page asks before it passes a write on. *)
MayWrite == Open /\ view.valid /\ view.matches

-----------------------------------------------------------------------------
EditorNext ==
  \/ \E f \in Files, text \in Texts : EditCode(f, text)
  \/ \E schema \in Schemas : PushSchema(schema)
  \/ Prepare \/ LoadHosted \/ StartWatching \/ CloseEditor
  \/ \E f \in Files : Notice(f)
  \/ Reload \/ Extract \/ Extracted \/ WatchingFails \/ ExtractionFails
  \/ PollHosted \/ HostedAnswered \/ PollFails

EditorSpec == InitEditor /\ [][EditorNext]_editorVars

-----------------------------------------------------------------------------
EditorTypeOK ==
  /\ code \in Codes /\ hosted \in Schemas /\ source \in Codes \cup {Unknown}
  /\ editor \in {"closed", "prepared", "authorized", "open"}
  /\ view \in [schema: Schemas \cup {Unknown}, valid: BOOLEAN, matches: BOOLEAN,
               diagnostic: {"none", "schema", "worker"}]
  /\ {known, fetching} \subseteq Schemas \cup {Unknown}
  /\ watched \subseteq Files /\ missed \subseteq Files
  /\ stray \subseteq watched /\ events \subseteq watched
  /\ timer \in BOOLEAN /\ rerun \in BOOLEAN /\ loading \in {"no", "begun", "read"}

AtRest == Open /\ events = {} /\ ~timer /\ loading = "no"

(* An editor at rest shows the schema of the code on disk, or the          *)
(* diagnostic of the code on disk, unless a file of it changed while it    *)
(* was not watched or the reload itself failed; and it lets content be     *)
(* written exactly when the view it shows is valid and is the hosted       *)
(* schema it was last told of.                                             *)
ViewFollowsCode ==
  /\ AtRest /\ missed \cap Reads[code] = {} /\ view.diagnostic # "worker" =>
       IF view.valid THEN view.schema = Says[code] ELSE Says[code] = Invalid
  /\ Open => (MayWrite <=> view.valid /\ view.schema = known)
=============================================================================
