---------------------------- MODULE Administration ----------------------------
(***************************************************************************)
(* What a deployment's people do beside asking: accounts and the gateway   *)
(* (Accounts), the move to another embedding model (EmbeddingMigration),   *)
(* what they see of documents that others change (DocumentViews) and of a  *)
(* job at work (JobTrace).  None of the four changes what another reads,   *)
(* so a behaviour is of one of them.                                       *)
(***************************************************************************)
EXTENDS Accounts, EmbeddingMigration, DocumentViews, JobTrace

VARIABLE part

vars == <<accountsVars, indexVars, viewsVars, traceVars, part>>

Init ==
    /\ part \in {"accounts", "index", "views", "trace"}
    /\ AccountsInit
    /\ part # "accounts" => users = <<>>
    /\ IndexInit
    /\ ViewsInit
    /\ TraceInit

Next ==
    /\ UNCHANGED part
    /\ \/ /\ part = "accounts" /\ AccountsNext
          /\ UNCHANGED <<indexVars, viewsVars, traceVars>>
       \/ /\ part = "index" /\ IndexNext
          /\ UNCHANGED <<accountsVars, viewsVars, traceVars>>
       \/ /\ part = "views" /\ ViewsNext
          /\ UNCHANGED <<accountsVars, indexVars, traceVars>>
       \/ /\ part = "trace" /\ TraceNext
          /\ UNCHANGED <<accountsVars, indexVars, viewsVars>>

Spec == Init /\ [][Next]_vars

\* Type invariant; a job's attempts never pass their limit.
TypeOK == AccountsTypeOK /\ IndexTypeOK /\ ViewsTypeOK /\ TraceTypeOK

\* What people are shown is what there was: a list read page by page is whole
\* although documents change in between, a version is the bytes it had, an update
\* that names no access takes one its document had at the version it replaces, and
\* the trace of a job tells one story for each attempt, whichever worker wrote it.
\* (AccessInherited claims more of updates than holds.)
ShownTruthful == ViewsTruthful /\ TraceTruthful
================================================================================
