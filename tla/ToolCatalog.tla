----------------------------- MODULE ToolCatalog -----------------------------
(***************************************************************************)
(* How a tool gets from an extension to an agent's list of tools:          *)
(* ExtensionRegistry (packages/bridge/src/extension-registry.ts), WsClient,  *)
(* the Hub's ToolRegistry (packages/hub/src/tool-registry.ts) and the SSE    *)
(* notification (server.ts, server-sse.ts).                                *)
(*                                                                         *)
(* A batch is one registerTools call.  A catalog maps each tool name to the  *)
(* batch that defined it.  The Hub registers no tools of its own            *)
(* (registerHubTool has no caller), so hubTools is left out.                *)
(***************************************************************************)
EXTENDS Integers, Sequences, FiniteSets

CONSTANTS
  Names,        \* tool names
  Batches,      \* registerTools calls
  Provides,     \* the names a batch defines
  NoBatch,      \* no definition
  MaxDrops,     \* bound: lost sockets and failed attempts of the Bridge
  MaxSseDrops,  \* bound: lost notification streams
  MaxReloads,   \* bound: reloads of the VS Code window
  MaxAgain      \* bound: disposables that are disposed again

ASSUME ToolCatalogAssumption ==
  /\ Provides \in [Batches -> SUBSET Names]
  /\ NoBatch \notin Batches

VARIABLES
  batch,       \* where each batch stands; "again" has been disposed more than once,
               \* "gone" went with its extension host
  tools,       \* ExtensionRegistry.tools and handlers
  sendDue,     \* ExtensionRegistry.debounceTimer # null
  sock,        \* the WsClient and its socket
  toHub,       \* toolRegistry frames the Hub has not read
  bridgeTools, \* ToolRegistry.bridgeTools
  notified,    \* lastNotifiedToolHash
  sse,         \* the agent's notification stream is open
  noteDue,     \* a list_changed notification is on the stream
  agentNames,  \* names in the agent's last tools/list
  listed,      \* the agent has listed since its stream was opened
  spent        \* use of the bounds

bridgeVars == <<batch, tools, sendDue>>
agentVars  == <<sse, noteDue, agentNames, listed>>
hubVars    == <<bridgeTools, notified>>
vars == <<bridgeVars, sock, toHub, hubVars, agentVars, spent>>

NoTools  == [n \in Names |-> NoBatch]
Listing(catalog) == {n \in Names : catalog[n] # NoBatch}
Budget   == [drops |-> MaxDrops, sse |-> MaxSseDrops, reloads |-> MaxReloads,
             again |-> MaxAgain]

Init ==
  /\ batch = [b \in Batches |-> "new"]
  /\ tools = NoTools /\ sendDue = FALSE
  /\ sock = "absent" /\ toHub = <<>>
  /\ bridgeTools = NoTools /\ notified = {}
  /\ sse = FALSE /\ noteDue = FALSE /\ agentNames = {} /\ listed = FALSE
  /\ spent = [b \in DOMAIN Budget |-> 0]

Spend(b) == spent[b] < Budget[b] /\ spent' = [spent EXCEPT ![b] = @ + 1]

-----------------------------------------------------------------------------
(* ExtensionRegistry.                                                      *)

\* Mutant of RegisterTools: a name that is taken is redefined.
RegisterOver(b) ==
  /\ batch[b] = "new"
  /\ batch' = [batch EXCEPT ![b] = "registered"]
  /\ tools' = [n \in Names |-> IF n \in Provides[b] THEN b ELSE tools[n]]
  /\ sendDue' = TRUE
  /\ UNCHANGED <<sock, toHub, hubVars, agentVars, spent>>

\* A batch with a name that is taken is refused as a whole and changes nothing.
RegisterTools(b) ==
  /\ batch[b] = "new"
  /\ Provides[b] \cap Listing(tools) = {}
  /\ batch' = [batch EXCEPT ![b] = "registered"]
  /\ tools' = [n \in Names |-> IF n \in Provides[b] THEN b ELSE tools[n]]
  /\ sendDue' = TRUE
  /\ UNCHANGED <<sock, toHub, hubVars, agentVars, spent>>

\* The names of the batch are free, whoever defined them.
RemoveNames(b) == tools' = [n \in Names |-> IF n \in Provides[b] THEN NoBatch ELSE tools[n]]

\* Mutant of Dispose: the Hub is not told.
DisposeUnsent(b) ==
  /\ \/ /\ batch[b] = "registered" /\ UNCHANGED spent
        /\ batch' = [batch EXCEPT ![b] = "disposed"]
     \/ /\ batch[b] \in {"disposed", "again"} /\ Spend("again")
        /\ batch' = [batch EXCEPT ![b] = "again"]
  /\ RemoveNames(b)
  /\ UNCHANGED <<sendDue, sock, toHub, hubVars, agentVars>>

\* The disposable keeps no record of having been disposed: each time it removes the
\* names of its batch, also when another batch has taken them since.
Dispose(b) ==
  /\ \/ /\ batch[b] = "registered" /\ UNCHANGED spent
        /\ batch' = [batch EXCEPT ![b] = "disposed"]
     \/ /\ batch[b] \in {"disposed", "again"} /\ Spend("again")
        /\ batch' = [batch EXCEPT ![b] = "again"]
  /\ RemoveNames(b)
  /\ sendDue' = TRUE
  /\ UNCHANGED <<sock, toHub, hubVars, agentVars>>

\* The debounced send is dropped while the socket is not open.
SendTimerFires ==
  /\ sendDue /\ sendDue' = FALSE
  /\ toHub' = IF sock = "open" THEN Append(toHub, tools) ELSE toHub
  /\ UNCHANGED <<batch, tools, sock, hubVars, agentVars, spent>>

-----------------------------------------------------------------------------
(* WsClient.                                                               *)

HubReady ==
  /\ sock = "absent" /\ sock' = "connecting"
  /\ UNCHANGED <<bridgeVars, toHub, hubVars, agentVars, spent>>

\* Mutant of SocketOpens: the tools are sent on the first connection only.
OpenSendsNothing ==
  /\ sock = "connecting" /\ sock' = "open"
  /\ toHub' = <<>>
  /\ UNCHANGED <<bridgeVars, hubVars, agentVars, spent>>

\* The open handler asks the registry for its tools as they are now.
SocketOpens ==
  /\ sock = "connecting" /\ sock' = "open"
  /\ toHub' = <<tools>>
  /\ UNCHANGED <<bridgeVars, hubVars, agentVars, spent>>

SocketCloses ==
  /\ sock \in {"connecting", "open"} /\ Spend("drops")
  /\ sock' = "waiting" /\ toHub' = <<>>
  /\ UNCHANGED <<bridgeVars, hubVars, agentVars>>

ReconnectTimerFires ==
  /\ sock = "waiting" /\ sock' = "connecting"
  /\ UNCHANGED <<bridgeVars, toHub, hubVars, agentVars, spent>>

\* The window is reloaded: the registry and its timer are disposed of, and the
\* disposables go with their extension host; what extensions register next are new
\* batches.  The Hub survives.
Reload ==
  /\ sock # "absent" /\ Spend("reloads")
  /\ sock' = "absent" /\ toHub' = <<>>
  /\ batch' = [b \in Batches |-> IF batch[b] = "new" THEN "new" ELSE "gone"]
  /\ tools' = NoTools /\ sendDue' = FALSE
  /\ UNCHANGED <<hubVars, agentVars>>

-----------------------------------------------------------------------------
(* The Hub and its agent.                                                  *)

\* Mutant of NotifyChange: growth is announced, loss is not.
NotifyGrowth(names) ==
  /\ notified' = names
  /\ noteDue' = (noteDue \/ (sse /\ ~(names \subseteq notified)))

\* The list of names is compared with the one last announced; only streams that
\* are open now get the notification.
NotifyChange(names) ==
  /\ notified' = names
  /\ noteDue' = (noteDue \/ (sse /\ names # notified))

\* registryUpdateCb: the Bridge's tools are replaced in bulk.
HubReads ==
  /\ toHub # <<>> /\ toHub' = Tail(toHub)
  /\ bridgeTools' = Head(toHub)
  /\ NotifyChange(Listing(Head(toHub)))
  /\ UNCHANGED <<bridgeVars, sock, sse, agentNames, listed, spent>>

\* GET /mcp opens a stream.
AgentConnects ==
  /\ ~sse
  /\ sse' = TRUE /\ noteDue' = FALSE /\ listed' = FALSE
  /\ UNCHANGED <<bridgeVars, sock, toHub, hubVars, agentNames, spent>>

SseCloses ==
  /\ sse /\ Spend("sse")
  /\ sse' = FALSE /\ noteDue' = FALSE /\ listed' = FALSE
  /\ UNCHANGED <<bridgeVars, sock, toHub, hubVars, agentNames>>

\* tools/list, which an agent sends once its stream is open and for every
\* notification.  The Hub answers whether or not a Bridge is connected.
AgentLists ==
  /\ sse /\ (noteDue \/ ~listed)
  /\ noteDue' = FALSE /\ listed' = TRUE
  /\ agentNames' = Listing(bridgeTools)
  /\ UNCHANGED <<bridgeVars, sock, toHub, hubVars, sse, spent>>

Next ==
  \/ \E b \in Batches : RegisterTools(b) \/ Dispose(b)
  \/ SendTimerFires
  \/ HubReady \/ SocketOpens \/ SocketCloses \/ ReconnectTimerFires \/ Reload
  \/ HubReads \/ AgentConnects \/ SseCloses \/ AgentLists

Spec == Init /\ [][Next]_vars

\* Timers fire, the manager starts a client, a Hub that is there accepts it and
\* reads, and the agent reopens its stream and lists.
Fairness ==
  /\ WF_vars(SendTimerFires) /\ WF_vars(HubReady) /\ WF_vars(SocketOpens)
  /\ WF_vars(ReconnectTimerFires) /\ WF_vars(HubReads)
  /\ WF_vars(AgentConnects) /\ WF_vars(AgentLists)

FairSpec == Spec /\ Fairness

-----------------------------------------------------------------------------
(* Properties.                                                             *)

\* No name is left with a batch that was disposed of, and one that is registered has
\* each of its names, unless a batch with that name was disposed of more than once.
\* After that a name may be lost, taken by a third batch and lost again, when the
\* batch that lost it is disposed of for the first time (extension-registry.ts:70, :119).
BatchesKeepNames ==
  \A b \in Batches, n \in Names :
    /\ tools[n] = b => batch[b] = "registered" /\ n \in Provides[b]
    /\ batch[b] = "registered" /\ n \in Provides[b] =>
         \/ tools[n] = b
         \/ \E c \in Batches \ {b} : batch[c] = "again" /\ n \in Provides[c]

\* When nothing is on its way, the Hub's catalog is the registry, definition by
\* definition, whatever was registered while the socket was down.
CatalogAccurate ==
  sock = "open" /\ toHub = <<>> /\ ~sendDue => bridgeTools = tools

\* An agent whose list differs from the Hub's has a notification waiting: the
\* comparison with the list last announced to anyone is enough for everyone.
AgentHears == sse /\ listed /\ ~noteDue => agentNames = Listing(bridgeTools)

\* In the end the agent lists what the extensions register, across lost sockets,
\* lost streams and reloads.
AgentCatchesUp == <>[](agentNames = Listing(tools))

=============================================================================
