----------------------------- MODULE ProjectTools -----------------------------
(***************************************************************************)
(* The tools of the command line that work for themselves: the generator   *)
(* writes its output and its lock, the editor reads the schema, a pull     *)
(* reads the platform. None touches what another one writes, so that a     *)
(* behaviour needs to run only one of them.                                *)
(***************************************************************************)
EXTENDS GeneratorTransaction, LocalEditor, ToolingPull

VARIABLE tool   \* the tool that runs

ToolsInit ==
  /\ tool \in {"generator", "editor", "pull"}
  /\ Init /\ InitEditor /\ InitPull
  /\ tool # "pull" => revision = NoRevisions /\ locales = CHOOSE list \in LocaleLists : TRUE

ToolsNext ==
  /\ \/ tool = "generator" /\ Next /\ UNCHANGED <<editorVars, pullVars>>
     \/ tool = "editor" /\ EditorNext /\ UNCHANGED <<vars, pullVars>>
     \/ tool = "pull" /\ PullNext /\ UNCHANGED <<vars, editorVars>>
  /\ UNCHANGED tool

ToolsSpec == ToolsInit /\ [][ToolsNext]_<<vars, editorVars, pullVars, tool>>
=============================================================================
