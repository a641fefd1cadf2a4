------------------------------ MODULE MCMcpHub ------------------------------
(***************************************************************************)
(* TLC instance of McpHub.                                                 *)
(***************************************************************************)
EXTENDS McpHub

\* One name of a built-in tool, two of tools of stdio servers: a plugin may clash
\* with any, and calls of the first are not multiplexed.  "fs" may list both names
\* of stdio tools, as "local_read" and as "read", "fs_local" only the first.
CONSTANTS t1, t2
MCTenants == {t1, t2}
MCBuiltins == {"read_file"}
MCStdioNames == {"mcp_fs_local_read", "mcp_fs_read"}
MCNames == MCBuiltins \cup MCStdioNames
MCServers == {"fs", "fs_local"}
MCCovered == [s \in MCServers |-> IF s = "fs" THEN MCStdioNames ELSE {"mcp_fs_local_read"}]

\* All that happens to plugins; plugins next to one server of each tenant, and next
\* to two servers of one tenant; or all that happens to calls.
PluginScope == [tenants |-> MCTenants, names |-> {"read_file", "mcp_fs_read"}, servers |-> {},
                calls |-> 0, ticks |-> 3, definitions |-> Definitions]
ClashScope  == [tenants |-> MCTenants, names |-> {"read_file", "mcp_fs_local_read"}, servers |-> {"fs_local"},
                calls |-> 0, ticks |-> 2, definitions |-> {"good"}]
ServerScope == [tenants |-> {t1}, names |-> MCStdioNames, servers |-> MCServers,
                calls |-> 0, ticks |-> 2, definitions |-> {"good"}]
CallScope(n, k) == [tenants |-> {t1}, names |-> {n}, servers |-> {}, calls |-> k, ticks |-> 2,
                    definitions |-> {"good"}]
MCScopes ==
    {PluginScope, ClashScope, ServerScope, CallScope("read_file", 4), CallScope("mcp_fs_read", 2)}
=============================================================================
