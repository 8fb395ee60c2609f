--------------------------- MODULE InvocationPath ---------------------------
(***************************************************************************)
(* A tools/call from end to end: the executor of the Hub                   *)
(* (packages/hub/src/mcp-call-executor-bridge.ts), its BridgeDispatch, the *)
(* socket, and the CommandRouter of the Bridge.  The two components are    *)
(* instances of their modules and share the frames on the wire; what each  *)
(* module leaves to its environment is done here by the other one.         *)
(*                                                                         *)
(* A call is <<request, attempt>>: the executor repeats a timed out call   *)
(* of an idempotent tool once.                                             *)
(***************************************************************************)
EXTENDS Integers, Sequences, FiniteSets

CONSTANTS
  Requests,       \* tools/call requests
  Idempotent,     \* those whose tool is registered as idempotent
  Guarded,        \* those whose tool asks for confirmation
  MaxConcurrent,
  MaxQueueDepth,
  None,
  MaxDrops        \* bound: results lost to the rate limit of the connection

ASSUME RequestsAssumption ==
  /\ Idempotent \subseteq Requests /\ Guarded \subseteq Requests
  /\ MaxConcurrent \in Nat /\ MaxQueueDepth \in Nat /\ MaxDrops \in Nat

Calls == Requests \X {1, 2}

VARIABLES
  inflight, queued, queue, pendingInvokes, timers, outcome,
  stateSlot, stateTimers, stateOutcome,
  connected, wsOpen, graceTimer, stopped, sent, earlier, toBridge,
  registered, phase, callTimers, executing, answers, cancelSeen, shutDown,
  linkUp, toHub,
  attempt,   \* the invoke a request awaits: 0 before the first
  told,      \* what the agent was answered
  reply,     \* success flag of the result that settled a call
  begun,     \* history: calls whose handler was called
  succeeded, \* history: calls whose handler returned
  limited    \* history: calls whose result the rate limit dropped

hubVars    == <<inflight, queued, queue, pendingInvokes, timers, outcome,
                stateSlot, stateTimers, stateOutcome,
                connected, wsOpen, graceTimer, stopped, sent, earlier, toBridge>>
bridgeVars == <<registered, phase, callTimers, executing, answers, cancelSeen,
                shutDown, linkUp, toHub>>
execVars   == <<attempt, told>>
history    == <<begun, succeeded, limited>>
vars       == <<hubVars, bridgeVars, execVars, reply, history>>

\* The Hub's end.  requestState takes no part in a tools/call, and the grace
\* timer only words the refusal of a call made without a Bridge.
Hub == INSTANCE BridgeDispatch WITH StateReqs <- {}, GraceMs <- 0

\* The Bridge's end.
Bridge == INSTANCE CommandRouter WITH
  Guarded <- Guarded \X {1, 2}, Encodable <- Calls

Init ==
  /\ Hub!Init
  /\ Bridge!Init /\ registered = Calls
  /\ attempt = [q \in Requests |-> 0]
  /\ told = [q \in Requests |-> "none"]
  /\ reply = [c \in Calls |-> "none"]
  /\ begun = {} /\ succeeded = {} /\ limited = {}

-----------------------------------------------------------------------------
(* The executor.                                                           *)

Current(q) == <<q, attempt[q]>>

\* Requests whose promise has been settled and whose continuation is due.
Due == {q \in Requests :
          /\ attempt[q] > 0 /\ told[q] = "none"
          /\ outcome[Current(q)] \notin {"idle", "waiting"}}

\* isInvokeTimeout: every JsonRpcError with code -32000 counts as a timeout.
IsInvokeTimeout(out) == out \in {"timeout", "cancelled"}

\* executeBridgeToolCall up to its await.
CallTool(q) ==
  /\ attempt[q] = 0
  /\ Hub!Invoke(<<q, 1>>)
  /\ attempt' = [attempt EXCEPT ![q] = 1]
  /\ UNCHANGED <<told, bridgeVars, reply, history>>

\* Mutant of Retry: idempotent is not consulted.
RetryAlways(q) ==
  /\ q \in Due
  /\ attempt[q] = 1
  /\ IsInvokeTimeout(outcome[Current(q)])
  /\ Hub!Invoke(<<q, 2>>)
  /\ attempt' = [attempt EXCEPT ![q] = 2]
  /\ UNCHANGED <<told, bridgeVars, reply, history>>

\* The catch branch that calls executeBridgeRetry.
Retry(q) ==
  /\ q \in Due
  /\ attempt[q] = 1 /\ q \in Idempotent
  /\ IsInvokeTimeout(outcome[Current(q)])
  /\ Hub!Invoke(<<q, 2>>)
  /\ attempt' = [attempt EXCEPT ![q] = 2]
  /\ UNCHANGED <<told, bridgeVars, reply, history>>

\* Mutant of Respond: the success flag of the result is not consulted.
RespondOk(q) ==
  /\ q \in Due
  /\ \/ ~IsInvokeTimeout(outcome[Current(q)])
     \/ attempt[q] = 2 \/ q \notin Idempotent
  /\ told' = [told EXCEPT ![q] =
                IF outcome[Current(q)] = "result" THEN "ok" ELSE "failed"]
  /\ UNCHANGED <<hubVars, bridgeVars, attempt, reply, history>>

\* Mutant of Respond: a retry that times out is not caught.
RespondUncaught(q) ==
  /\ q \in Due
  /\ ~IsInvokeTimeout(outcome[Current(q)]) \/ q \notin Idempotent
  /\ told' = [told EXCEPT ![q] =
       IF outcome[Current(q)] = "result" THEN reply[Current(q)] ELSE "failed"]
  /\ UNCHANGED <<hubVars, bridgeVars, attempt, reply, history>>

\* mapBridgeResult, or the error response.
Respond(q) ==
  /\ q \in Due
  /\ \/ ~IsInvokeTimeout(outcome[Current(q)])
     \/ attempt[q] = 2 \/ q \notin Idempotent
  /\ told' = [told EXCEPT ![q] =
       IF outcome[Current(q)] = "result" THEN reply[Current(q)] ELSE "failed"]
  /\ UNCHANGED <<hubVars, bridgeVars, attempt, reply, history>>

-----------------------------------------------------------------------------
(* The wire.                                                               *)

\* The message handler of the WsClient reads one frame.
BridgeReadsFrame ==
  /\ linkUp
  /\ Hub!BridgeReads
  /\ LET frame == Head(toBridge) IN
       \/ frame.type = "invoke" /\ Bridge!HandleInvoke(frame.id)
       \/ frame.type = "cancel" /\ Bridge!HandleCancel(frame.id)
  /\ begun' = begun \cup
                {c \in Calls : phase[c] # "running" /\ phase'[c] = "running"}
  /\ UNCHANGED <<execVars, reply, succeeded, limited>>

\* dispatchInbound lets a frame through to routeMessage.
HubReadsFrame ==
  /\ connected
  /\ Bridge!HubReads
  /\ LET frame == Head(toHub) IN
       \/ /\ frame.type = "result"
          /\ Hub!OnResult(frame.id)
          /\ reply' = [reply EXCEPT ![frame.id] = IF frame.ok THEN "ok" ELSE "failed"]
       \/ /\ frame.type = "cancelled"
          /\ Hub!OnCancelled(frame.id, frame.late)
          /\ UNCHANGED reply
  /\ UNCHANGED <<execVars, history>>

\* dispatchInbound drops a frame above 100 per second, results included.
RateLimited ==
  /\ connected
  /\ Cardinality(limited) < MaxDrops
  /\ Bridge!HubReads
  /\ limited' = limited \cup {Head(toHub).id}
  /\ UNCHANGED <<hubVars, execVars, reply, begun, succeeded>>

\* The Bridge's socket opens again; the Hub may not have noticed the loss of
\* the one before.
Reconnect ==
  /\ Bridge!LinkReturns
  /\ Hub!Connect \/ Hub!Evict
  /\ UNCHANGED <<execVars, reply, history>>

-----------------------------------------------------------------------------
(* Each end on its own.                                                    *)

HubAlone ==
  /\ \/ \E c \in Calls : Hub!TimerFires(c)
     \/ Hub!SocketCloses \/ Hub!HandleDisconnect
  /\ UNCHANGED <<bridgeVars, execVars, reply, history>>

BridgeAlone ==
  /\ \/ \E c \in Calls, yes \in BOOLEAN : Bridge!ConfirmAnswered(c, yes)
     \/ \E c \in Calls : Bridge!CallTimerFires(c)
     \/ Bridge!LinkDrops
  /\ begun' = begun \cup
                {c \in Calls : phase[c] # "running" /\ phase'[c] = "running"}
  /\ UNCHANGED <<hubVars, execVars, reply, succeeded, limited>>

ToolReturns(c, ok) ==
  /\ Bridge!HandlerSettles(c, ok)
  /\ succeeded' = IF ok THEN succeeded \cup {c} ELSE succeeded
  /\ UNCHANGED <<hubVars, execVars, reply, begun, limited>>

\* The Bridge's first connection, made before any request.
FirstConnection ==
  /\ Hub!Connect /\ linkUp
  /\ \A q \in Requests : attempt[q] = 0
  /\ UNCHANGED <<bridgeVars, execVars, reply, history>>

\* A continuation runs before the next event: Due is served first.
Next ==
  \/ \E q \in Requests : Retry(q) \/ Respond(q)
  \/ /\ Due = {}
     /\ \/ \E q \in Requests : CallTool(q)
        \/ BridgeReadsFrame \/ HubReadsFrame \/ RateLimited
        \/ HubAlone \/ BridgeAlone
        \/ \E c \in Calls, ok \in BOOLEAN : ToolReturns(c, ok)
        \/ FirstConnection \/ Reconnect

\* The event loop of the Hub runs continuations and expired timers.  Nothing
\* is assumed of the socket, of the Bridge or of a tool.
Fairness ==
  /\ WF_vars(\E q \in Requests : Retry(q) \/ Respond(q))
  /\ \A c \in Calls :
       WF_vars(Due = {} /\ Hub!TimerFires(c)
               /\ UNCHANGED <<bridgeVars, execVars, reply, history>>)

Spec == Init /\ [][Next]_vars
FairSpec == Spec /\ Fairness

-----------------------------------------------------------------------------
(* Properties.                                                             *)

\* While both ends agree on a socket, a slot of the Hub is held for a reason:
\* the invocation, its execution on the Bridge or its answer is still under
\* way, unless the rate limit dropped the answer.  A slot without a reason
\* would be idle until its timeout.
SlotHasReason ==
  connected /\ wsOpen /\ linkUp =>
    \A c \in pendingInvokes :
      \/ \E i \in DOMAIN toBridge : toBridge[i] = Hub!InvokeFrame(c)
      \/ phase[c] \in {"confirming", "running"}
      \/ \E i \in DOMAIN toHub :
           toHub[i] \in [type : {"result"}, id : {c}, ok : BOOLEAN]
             \cup {Bridge!CancelledFrame(c, FALSE)}
      \/ c \in limited

\* The agent is told that its call succeeded only if the handler of one of its
\* own attempts did return, even when a late first result meets a retry.
SuccessIsTrue ==
  \A q \in Requests : told[q] = "ok" => Current(q) \in succeeded

\* A tool that is not idempotent runs at most once per request, whatever is
\* lost, late or reconnected.
NoDuplicateEffect ==
  \A q \in Requests \ Idempotent : Cardinality(begun \cap ({q} \X {1, 2})) <= 1

\* Every request is answered, though the socket, the Bridge and the tool may
\* all fail.
RequestAnswered ==
  \A q \in Requests : (attempt[q] > 0) ~> (told[q] # "none")
=============================================================================
