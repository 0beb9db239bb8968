--------------------------- MODULE WorkspaceRuntime ---------------------------
(***************************************************************************)
(* The embedding models workspaces selected: app/shared/                   *)
(* workspace_runtime.py.  A future per selection, built by one loader      *)
(* thread; `prepare` runs under a lock.                                    *)
(***************************************************************************)
EXTENDS Naturals, FiniteSets

CONSTANT Selections

VARIABLES
    future,         \* future[s]: "none", "pending", "ready" or "failed"
    builds,         \* builds[s]: builds of s submitted and not finished
    loading         \* the selections the loader thread is at: none or one

runtimeVars == <<future, builds, loading>>

RuntimeInit ==
    /\ future = [s \in Selections |-> "none"]
    /\ builds = [s \in Selections |-> 0]
    /\ loading = {}

\* Defect: only a finished build counts, one that is under way is submitted again.
NeedsBuildUnlessReady(s) == future[s] # "ready"

NeedsBuild(s) == future[s] \in {"none", "failed"}

\* prepare: the future of an earlier caller, or a new build when there is none or it failed.
Prepare(s) ==
    /\ IF NeedsBuild(s)
         THEN /\ future' = [future EXCEPT ![s] = "pending"]
              /\ builds' = [builds EXCEPT ![s] = @ + 1]
         ELSE UNCHANGED <<future, builds>>
    /\ UNCHANGED loading

\* The executor has one thread.
StartBuild(s) ==
    /\ loading = {}
    /\ builds[s] > 0
    /\ loading' = {s}
    /\ UNCHANGED <<future, builds>>

\* _build: model, profile row, vector store and cache, or an exception at any of them.
FinishBuild(s) ==
    /\ s \in loading
    /\ \E outcome \in {"ready", "failed"} : future' = [future EXCEPT ![s] = outcome]
    /\ builds' = [builds EXCEPT ![s] = @ - 1]
    /\ loading' = {}

===============================================================================
