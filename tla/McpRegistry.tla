----------------------------- MODULE McpRegistry -----------------------------
(***************************************************************************)
(* The MCP side of the server: McpRegistry of packages/mcp-client, the     *)
(* boot loop of packages/server/src/mcp.ts and index.ts that fills it, and *)
(* the server processes its calls reach (SecurityOps).                     *)
(*                                                                         *)
(* Every connect makes a client with a stdio process of its own.  A call   *)
(* is what one turn makes of a proposal: it is resolved against the        *)
(* tools listed when the model is asked, and executed later.  Requests and *)
(* replies are messages: a call may time out while its request is on the   *)
(* way, a process may die before or after it has answered.                 *)
(*                                                                         *)
(* Nothing in the server calls disconnect, or connect after boot: that is  *)
(* what other users of the package may do, at any time.  The transport and *)
(* the SDK's Client are external.  The breaker that listens to the hooks   *)
(* is in BreakerClients.                                                   *)
(***************************************************************************)
EXTENDS SecurityOps, FiniteSets

CONSTANTS
  ServerIds,       \* server ids
  Env, File,       \* MCP_SERVERS and mcp-servers.json: a sequence of server ids, or
                   \* Unusable: not there, blank, or not what parseServers takes
  DefaultServers,  \* DEFAULT_SERVERS
  Unusable,
  Calls,           \* the calls
  Requests,        \* what they may ask for: [tool, target]
  Null,
  MaxClients,      \* bound: connects, those of the boot loop included
  MaxDisconnects   \* bound: disconnects

\* What becomes of a request that is sent, and what executeTool reports of a call.
Answers == {"awaited", "unsent", "result", "error", "unknown"}
Results == {"notConnected", "success", "toolError", "transportError"}

ASSUME RegistryAssumption ==
  /\ IsFiniteSet(Calls)
  /\ {Env, File} \subseteq Seq(ServerIds) \cup {Unusable} /\ DefaultServers \in Seq(ServerIds)
  /\ MaxClients \in Nat /\ MaxDisconnects \in Nat
  /\ Null \notin Nat \cup Answers \cup Results

VARIABLES
  boot,      \* entries of Config the boot loop has begun; one more: the server listens
  client,    \* client[k]: the k-th client made: server, pc, process alive, its state
  clients,   \* the registry's map of clients, by server id
  tools,     \* its map of tools: the client whose listing is cached
  closing,   \* disconnects that await close(): [server, client, number]
  closed,    \* history: disconnects begun so far
  call,      \* call[c]: what became of call c
  ran        \* history: the calls that reached a tool, in the order they ran

registryVars == <<boot, client, clients, tools, closing, closed, call, ran>>

ClientIds == 1 .. MaxClients
NewCall == [pc |-> "idle", server |-> Null, request |-> Null, client |-> Null,
            answer |-> Null, result |-> Null, forgotten |-> FALSE]

\* loadServerConfig: the environment, else the file, else the default.
Config == IF Env # Unusable THEN Env ELSE IF File # Unusable THEN File ELSE DefaultServers

Listening == boot = Len(Config) + 1

RegistryInit ==
  /\ boot = 0
  /\ client = <<>>
  /\ clients = [s \in ServerIds |-> Null]
  /\ tools = [s \in ServerIds |-> Null]
  /\ closing = {}
  /\ closed = 0
  /\ call = [c \in Calls |-> NewCall]
  /\ ran = <<>>

-----------------------------------------------------------------------------
(* connect                                                                 *)

Open(s) == client' = Append(client, [server |-> s, pc |-> "connecting", alive |-> TRUE,
                                     ops |-> Fresh])

\* connectConfiguredServers: one after the other, the next one when the last one is
\* connected or has failed.
Settled == boot > 0 => client[boot].pc \notin {"connecting", "listing"}
BootConnect ==
  /\ boot < Len(Config) /\ Len(client) < MaxClients /\ Settled
  /\ Open(Config[boot + 1])
  /\ boot' = boot + 1
  /\ UNCHANGED <<clients, tools, closing, closed, call, ran>>

Listen ==
  /\ boot = Len(Config) /\ Settled
  /\ boot' = boot + 1
  /\ UNCHANGED <<client, clients, tools, closing, closed, call, ran>>

Connect(s) ==
  /\ Listening /\ Len(client) < MaxClients
  /\ Open(s)
  /\ UNCHANGED <<boot, clients, tools, closing, closed, call, ran>>

Handshake(k) ==
  /\ client[k].pc = "connecting" /\ client[k].alive
  /\ client' = [client EXCEPT ![k].pc = "listing"]
  /\ UNCHANGED <<boot, clients, tools, closing, closed, call, ran>>

\* Mutation of ConnectFails: connectConfiguredServers lets the error through, and main
\* exits on it.
ConnectFailsBoot(k) ==
  /\ client[k].pc = "connecting"
  /\ boot' = 0
  /\ client' = [j \in DOMAIN client |-> [client[j] EXCEPT !.pc = "failed", !.alive = FALSE]]
  /\ UNCHANGED <<clients, tools, closing, closed, call, ran>>

\* The process does not start or does not answer: the SDK closes what it opened.
ConnectFails(k) ==
  /\ client[k].pc = "connecting"
  /\ client' = [client EXCEPT ![k].pc = "failed", ![k].alive = FALSE]
  /\ UNCHANGED <<boot, clients, tools, closing, closed, call, ran>>

\* Both maps, without a pause; what they held for this id is forgotten.
Register(k) ==
  /\ client[k].pc = "listing" /\ client[k].alive
  /\ client' = [client EXCEPT ![k].pc = "open"]
  /\ clients' = [clients EXCEPT ![client[k].server] = k]
  /\ tools' = [tools EXCEPT ![client[k].server] = k]
  /\ UNCHANGED <<boot, closing, closed, call, ran>>

\* listTools fails, connect throws, and nobody closes the client.
ListFails(k) ==
  /\ client[k].pc = "listing"
  /\ client' = [client EXCEPT ![k].pc = "failed"]
  /\ UNCHANGED <<boot, clients, tools, closing, closed, call, ran>>

-----------------------------------------------------------------------------
(* disconnect                                                              *)

\* Up to the await of close(): the client stays in both maps.
BeginDisconnect(s) ==
  /\ Listening /\ closed < MaxDisconnects /\ clients[s] # Null
  /\ closed' = closed + 1
  /\ closing' = closing \cup {[server |-> s, client |-> clients[s], number |-> closed]}
  /\ client' = [client EXCEPT ![clients[s]].pc = "closing"]
  /\ UNCHANGED <<boot, clients, tools, call, ran>>

\* Calls that were resolved and not yet executed when the server was forgotten.
Forget(s) ==
  call' = [c \in Calls |-> IF call[c].pc = "proposed" /\ call[c].server = s
                           THEN [call[c] EXCEPT !.forgotten = TRUE] ELSE call[c]]

\* Mutations of FinishDisconnect: the tools stay listed; the maps are cleared and the
\* client stays open.
FinishDisconnectKeepsTools(d) ==
  /\ client' = [client EXCEPT ![d.client].pc = "closed", ![d.client].alive = FALSE]
  /\ clients' = [clients EXCEPT ![d.server] = Null]
  /\ Forget(d.server)
  /\ closing' = closing \ {d}
  /\ UNCHANGED <<boot, tools, closed, ran>>
FinishDisconnectUnclosed(d) ==
  /\ client' = [client EXCEPT ![d.client].pc = "open"]
  /\ clients' = [clients EXCEPT ![d.server] = Null]
  /\ tools' = [tools EXCEPT ![d.server] = Null]
  /\ Forget(d.server)
  /\ closing' = closing \ {d}
  /\ UNCHANGED <<boot, closed, ran>>

\* close() is done: whatever the maps hold for the id by now is deleted.
FinishDisconnect(d) ==
  /\ client' = [client EXCEPT ![d.client].pc = "closed", ![d.client].alive = FALSE]
  /\ clients' = [clients EXCEPT ![d.server] = Null]
  /\ tools' = [tools EXCEPT ![d.server] = Null]
  /\ Forget(d.server)
  /\ closing' = closing \ {d}
  /\ UNCHANGED <<boot, closed, ran>>

\* close() rejects, and disconnect with it: both maps keep the client, which may be of use
\* again once nobody else is closing it.
DisconnectFails(d) ==
  /\ closing' = closing \ {d}
  /\ \/ UNCHANGED client
     \/ /\ client[d.client].pc = "closing" /\ \A e \in closing' : e.client # d.client
        /\ client' = [client EXCEPT ![d.client].pc = "open"]
  /\ UNCHANGED <<boot, clients, tools, closed, call, ran>>

-----------------------------------------------------------------------------
(* executeTool                                                             *)

\* The model proposes a tool that is listed now.
Propose(c, s, request) ==
  /\ Listening /\ call[c].pc = "idle" /\ tools[s] # Null
  /\ call' = [call EXCEPT ![c].pc = "proposed", ![c].server = s, ![c].request = request]
  /\ UNCHANGED <<boot, client, clients, tools, closing, closed, ran>>

\* Later, when the proposal is allowed.  On a client whose process is gone or that is
\* being closed, callTool throws and nothing is sent.
Execute(c) ==
  /\ call[c].pc = "proposed"
  /\ LET k == clients[call[c].server]
     IN  IF k = Null
         THEN call' = [call EXCEPT ![c].pc = "done", ![c].result = "notConnected"]
         ELSE call' = [call EXCEPT
                         ![c].pc = "waiting", ![c].client = k,
                         ![c].answer = IF client[k].alive /\ client[k].pc = "open"
                                       THEN "awaited" ELSE "unsent"]
  /\ UNCHANGED <<boot, client, clients, tools, closing, closed, ran>>

\* The request reaches the process, which may be after the caller gave up.
Serve(c) ==
  /\ call[c].answer = "awaited" /\ client[call[c].client].alive
  /\ LET k == call[c].client
         outcome == handle(client[k].ops, call[c].request)
     IN  /\ client' = [client EXCEPT ![k].ops = outcome.ops]
         /\ call' = [call EXCEPT ![c].answer = outcome.answer]
  /\ ran' = Append(ran, c)
  /\ UNCHANGED <<boot, clients, tools, closing, closed>>

\* The reply arrives: onTransportSuccess, also when the tool reports an error.
Return(c) ==
  /\ call[c].pc = "waiting" /\ call[c].answer \in {"result", "error"}
  /\ client[call[c].client].pc \in {"open", "closing"}
  /\ call' = [call EXCEPT ![c].pc = "done",
                ![c].result = IF call[c].answer = "result" THEN "success" ELSE "toolError"]
  /\ UNCHANGED <<boot, client, clients, tools, closing, closed, ran>>

\* Mutation of Break: a call that failed is sent once more.
BreakRetries(c) ==
  /\ call[c].pc = "waiting"
  /\ \/ call' = [call EXCEPT ![c].answer = "awaited"]
     \/ call' = [call EXCEPT ![c].pc = "done", ![c].result = "transportError"]
  /\ UNCHANGED <<boot, client, clients, tools, closing, closed, ran>>

\* callTool throws, onTransportError: a timeout, a closed connection, a protocol error.
Break(c) ==
  /\ call[c].pc = "waiting"
  /\ call' = [call EXCEPT ![c].pc = "done", ![c].result = "transportError"]
  /\ UNCHANGED <<boot, client, clients, tools, closing, closed, ran>>

\* A server process dies and takes its memory with it; nobody reconnects.
Crash(k) ==
  /\ client[k].alive
  /\ client' = [client EXCEPT ![k].alive = FALSE]
  /\ UNCHANGED <<boot, clients, tools, closing, closed, call, ran>>

-----------------------------------------------------------------------------

ConnectStep(k) == Handshake(k) \/ ConnectFails(k) \/ Register(k) \/ ListFails(k)
ExecuteStep(c) == Execute(c) \/ Serve(c) \/ Return(c) \/ Break(c)

RegistryNext ==
  \/ BootConnect \/ Listen
  \/ \E s \in ServerIds : Connect(s) \/ BeginDisconnect(s)
  \/ \E k \in DOMAIN client : ConnectStep(k) \/ Crash(k)
  \/ \E d \in closing : FinishDisconnect(d) \/ DisconnectFails(d)
  \/ \E c \in Calls : ExecuteStep(c) \/ \E s \in ServerIds, r \in Requests : Propose(c, s, r)

RegistrySpec == RegistryInit /\ [][RegistryNext]_registryVars

\* The boot loop goes on, and each connect it waits for is answered or times out.
RegistryFairSpec ==
  /\ RegistrySpec
  /\ WF_registryVars(BootConnect) /\ WF_registryVars(Listen)
  /\ \A k \in ClientIds : WF_registryVars(k \in DOMAIN client /\ ConnectStep(k))

-----------------------------------------------------------------------------
(* Properties                                                              *)

\* The runs on client k that were done there, with one of these tools on the target.
Done(k, names, target) ==
  {i \in DOMAIN ran : LET c == ran[i]
                      IN  /\ call[c].client = k /\ call[c].answer = "result"
                          /\ call[c].request.tool \in names
                          /\ call[c].request.target = target}

\* The last of some runs was of this tool.
LastRan(runs, name) ==
  \E i \in runs : call[ran[i]].request.tool = name /\ \A j \in runs : j <= i

\* What a process remembers is what its answers say, each once and in the order it ran,
\* lost replies and late requests included: an address is on the block list, once,
\* exactly if the last change to it was a block; a device is quarantined if a call did
\* so; there is an incident for each call that opened one.
MemoryIsTheRecord ==
  \A k \in DOMAIN client :
    LET ops == client[k].ops
    IN  /\ \A i, j \in DOMAIN ops.blockedIps : ops.blockedIps[i] = ops.blockedIps[j] => i = j
        /\ \A ip \in Ips :
             isBlocked(ops, ip) <=> LastRan(Done(k, {"block_ip", "unblock_ip"}, ip), "block_ip")
        /\ ops.quarantined = {id \in Devices : Done(k, {"quarantine_device"}, id) # {}}
        /\ ops.incidents = Cardinality(Done(k, {"create_incident"}, "valid"))

\* No call ever runs its tool twice, and one reported not connected never runs it; a
\* tool's own answer is reported only if it ran.  A transport error says nothing.
RunsAtMostOnce ==
  \A c \in Calls :
    LET runs == Cardinality({i \in DOMAIN ran : ran[i] = c})
    IN  /\ runs <= 1
        /\ call[c].result = "notConnected" => runs = 0
        /\ call[c].result \in {"success", "toolError"} => runs = 1

\* A call to a tool the model was offered finds its server in the registry, unless it
\* was disconnected after the offer: listing and clients never disagree.
NotConnectedIsExplained ==
  \A c \in Calls : call[c].result = "notConnected" => call[c].forgotten

\* A client that was registered and not closed is the one the registry holds, so calls
\* reach it and disconnect can close it, unless another connection was made under the
\* same id: that one replaced it, or the end of its disconnect deleted them both.
OrphansAreExplained ==
  \A k \in DOMAIN client :
    client[k].pc \in {"open", "closing"} /\ clients[client[k].server] # k =>
      \E j \in DOMAIN client \ {k} :
        client[j].server = client[k].server /\ client[j].pc \in {"open", "closing", "closed"}

\* One bad endpoint cannot block boot: whichever servers fail, and however, the server
\* listens in the end.
EveryBootListens == <>Listening
=============================================================================
