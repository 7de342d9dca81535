---------------------------- MODULE ToolContract ----------------------------
(***************************************************************************)
(* What the agent may rely on when it calls a scene tool, whatever the     *)
(* tool and its arguments (agent/dispatcher.py, adapter/mutators/): what a *)
(* call may do to the scene and to Blender's undo history for the result   *)
(* it reports.  SceneMutation implements it tool by tool; PlanExecution    *)
(* builds on it without knowing any tool.                                  *)
(***************************************************************************)
CONSTANTS
  Scrappy,   \* the tools that may stop half-way through a change
  Readers    \* the tools that only read the scene

VARIABLES
  scene,     \* the scene's data
  saved,     \* the scene as the newest undo step holds it
  pushed,    \* Blender took the undo step pushed last
  tool,      \* the tool called last
  outcome    \* the result of that call

contractVars == <<scene, saved, pushed, tool, outcome>>

Outcomes == {"none", "ok", "unverified", "crashed", "failed"}

\* The change is in the scene, and on the undo stack if Blender takes the step; the
\* result, which does not tell the two apart, says whether the change was verified,
\* found different, or could not be compared.
Change ==
  /\ tool' \notin Readers
  /\ outcome' \in {"ok", "unverified", "crashed"}
  /\ pushed' \in BOOLEAN
  /\ saved' = IF pushed' THEN scene' ELSE saved

\* A tool that reads neither changes the scene nor pushes an undo step.
Read ==
  /\ tool' \in Readers
  /\ outcome' \in {"ok", "crashed"}
  /\ UNCHANGED <<scene, saved, pushed>>

\* An error result: no undo step, and no change unless the tool is a scrappy one.
Failure ==
  /\ outcome' = "failed"
  /\ UNCHANGED <<saved, pushed>>
  /\ tool' \notin Scrappy => scene' = scene

ContractInit == saved = scene /\ pushed = TRUE /\ outcome = "none"
ContractNext == Change \/ Read \/ Failure
Contract     == ContractInit /\ [][ContractNext]_contractVars
=============================================================================
