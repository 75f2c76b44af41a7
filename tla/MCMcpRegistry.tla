---------------------------- MODULE MCMcpRegistry ----------------------------
(***************************************************************************)
(* Instances of McpRegistry: two servers in mcp-servers.json, and requests *)
(* that change the block list, the quarantine and the incidents.           *)
(***************************************************************************)
EXTENDS McpRegistry

CONSTANTS s1, s2, ip1, dev1

BothServers == <<s1, s2>>
BundledServer == <<s1>>
Ask(tool, target) == [tool |-> tool, target |-> target]
MCRequests == {Ask("block_ip", ip1), Ask("unblock_ip", ip1), Ask("create_incident", "valid"),
               Ask("quarantine_device", dev1)}
=============================================================================
