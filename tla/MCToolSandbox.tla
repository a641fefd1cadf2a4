---------------------------- MODULE MCToolSandbox ----------------------------
(***************************************************************************)
(* TLC instances of ToolSandbox.                                           *)
(***************************************************************************)
EXTENDS ToolSandbox

\* In a cluster with KUBERNETES_MODE, and on a machine without either: between
\* them bash_execute and the git tools use every executor.
MCDeployments == {<<TRUE, TRUE>>, <<FALSE, FALSE>>}

\* One call that may be a sub-agent, one that may be a git tool, one that
\* stands in line for the MCP server.
CONSTANTS c1, c2, c3
MCCalls == {c1, c2, c3}
MCToolsOf == [c \in MCCalls |->
    CASE c = c1 -> {"bash_execute", "mcp", "delegate_task"}
      [] c = c2 -> {"mcp", "git_commit", "git_clone"}
      [] c = c3 -> {"mcp"}]
=============================================================================
