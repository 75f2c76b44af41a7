----------------------------- MODULE SecurityOps -----------------------------
(***************************************************************************)
(* The security-ops MCP server (packages/mcp-servers/security-ops): the    *)
(* state of one server process and what its tools do to it.  A handler     *)
(* runs without a pause, so a call is one step.  The state is the memory   *)
(* of the process: every process starts fresh.                             *)
(***************************************************************************)
EXTENDS Integers, Sequences, SequencesExt

CONSTANTS
  Ips,        \* the strings isIP takes for an address
  Devices     \* the ids of fakeData/devices.ts

\* A request: the tool and the argument its outcome turns on.  Any target that is
\* not an address, a device or, for scan_logs and create_incident, "valid" stands
\* for a missing, blank or malformed argument.
Tools == {"block_ip", "unblock_ip", "quarantine_device", "create_incident", "scan_logs"}

Fresh == [blockedIps |-> <<>>, quarantined |-> {}, incidents |-> 0]

done(ops) == [ops |-> ops, answer |-> "result"]
isError(ops) == [ops |-> ops, answer |-> "error"]

isBlocked(ops, ip) == \E i \in DOMAIN ops.blockedIps : ops.blockedIps[i] = ip

\* Mutation of blockIp: an address on the list is put there again.
blockIpAgain(ops, ip) ==
  IF ip \in Ips THEN done([ops EXCEPT !.blockedIps = Append(@, ip)]) ELSE isError(ops)

blockIp(ops, ip) ==
  IF ip \in Ips /\ ~isBlocked(ops, ip)
  THEN done([ops EXCEPT !.blockedIps = Append(@, ip)]) ELSE isError(ops)

\* findIndex and splice: the first entry of the address goes.
unblockIp(ops, ip) ==
  IF ip \in Ips /\ isBlocked(ops, ip)
  THEN done([ops EXCEPT !.blockedIps = RemoveFirst(@, ip)]) ELSE isError(ops)

quarantineDevice(ops, id) ==
  IF id \in Devices /\ id \notin ops.quarantined
  THEN done([ops EXCEPT !.quarantined = @ \cup {id}]) ELSE isError(ops)

createIncident(ops, incident) ==
  IF incident = "valid" THEN done([ops EXCEPT !.incidents = @ + 1]) ELSE isError(ops)

scanLogs(ops, since) == IF since = "valid" THEN done(ops) ELSE isError(ops)

\* The CallTool handler; a tool nobody has is a protocol error, which reaches the
\* client as an exception.
handle(ops, request) ==
  CASE request.tool = "block_ip"          -> blockIp(ops, request.target)
    [] request.tool = "unblock_ip"        -> unblockIp(ops, request.target)
    [] request.tool = "quarantine_device" -> quarantineDevice(ops, request.target)
    [] request.tool = "create_incident"   -> createIncident(ops, request.target)
    [] request.tool = "scan_logs"         -> scanLogs(ops, request.target)
    [] OTHER                              -> [ops |-> ops, answer |-> "unknown"]
=============================================================================
