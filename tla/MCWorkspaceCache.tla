---- MODULE MCWorkspaceCache ----
(* The instance of WorkspaceCache that TLC checks. Requests, workspaces and   *)
(* texts are interchangeable: nothing in WorkspaceCache chooses among them,   *)
(* and its properties are of states and steps only.                           *)
EXTENDS WorkspaceCache, TLC

Interchangeable ==
    Permutations(Request) \cup Permutations(Workspace) \cup Permutations(Text)
====
