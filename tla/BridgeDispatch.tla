--------------------------- MODULE BridgeDispatch ---------------------------
(***************************************************************************)
(* The Hub's invocation dispatcher: packages/hub/src/bridge-dispatch.ts,   *)
(* with the part of bridge-connection.ts that it shares state with (the    *)
(* connected flag, the socket's readyState, the grace timer).              *)
(*                                                                         *)
(* One element of Calls is one call of BridgeServer.invoke; the invocation *)
(* id that dispatch draws for it (randomUUID) is identified with the call. *)
(* JavaScript runs each handler to completion, so each handler is one      *)
(* action.  The Bridge at the other end of the socket is the environment:  *)
(* it may answer any invocation it was sent, in any order, late, twice or  *)
(* never.  InvocationPath replaces it with the real CommandRouter.         *)
(***************************************************************************)
EXTENDS Integers, Sequences, FiniteSets

CONSTANTS
  Calls,          \* invocations, each made at most once
  StateReqs,      \* requestState calls, each made at most once
  None,           \* the empty pendingStateRequest slot
  MaxConcurrent,  \* opts.maxConcurrent, 16 in production
  MaxQueueDepth,  \* opts.maxQueueDepth, 64 in production
  GraceMs         \* graceWindowMs: 0 fires onGraceExpired synchronously

ASSUME LimitsAssumption ==
  /\ MaxConcurrent \in Nat
  /\ MaxQueueDepth \in Nat
  /\ GraceMs \in Nat
ASSUME IdsAssumption == None \notin StateReqs

VARIABLES
  inflight,        \* counter of dispatched invocations
  queued,          \* counter of waiting invocations
  queue,           \* QueuedInvoke[]: the FIFO
  pendingInvokes,  \* keys of the Map of dispatched invocations
  timers,          \* invocations whose timeout timer is armed
  outcome,         \* what the caller's promise has come to
  stateSlot,       \* pendingStateRequest
  stateTimers,     \* requestState calls whose 10 s timer is armed
  stateOutcome,    \* what the requestState promise has come to
  connected,       \* BridgeConnectionState.connected
  wsOpen,          \* ws.readyState = OPEN
  graceTimer,      \* BridgeConnectionState.graceTimer # null
  stopped,         \* BridgeServer.close has run: no upgrade is accepted
  sent,            \* invocations whose frame went out on the current socket
  earlier,         \* invocations whose frame went out on an earlier socket
  toBridge         \* frames on the current socket not yet read by the Bridge

callVars  == <<inflight, queued, queue, pendingInvokes, timers, outcome>>
stateVars == <<stateSlot, stateTimers, stateOutcome>>
connVars  == <<connected, wsOpen, graceTimer, stopped>>
wireVars  == <<sent, earlier, toBridge>>
vars      == <<callVars, stateVars, connVars, wireVars>>

Waiting  == "waiting"
Rejected == {"timeout", "cancelled", "disconnected", "closed",
             "busy", "reconnecting", "notConnected"}
Outcomes == {"idle", Waiting, "result"} \cup Rejected

InvokeFrame(c) == [type |-> "invoke", id |-> c]
CancelFrame(c) == [type |-> "cancel", id |-> c]
StateFrame(r)  == [type |-> "getState", id |-> r]
Frames == [type : {"invoke", "cancel"}, id : Calls]
            \cup [type : {"getState"}, id : StateReqs]

InQueue == {queue[i] : i \in DOMAIN queue}

Init ==
  /\ inflight = 0 /\ queued = 0 /\ queue = <<>>
  /\ pendingInvokes = {} /\ timers = {}
  /\ outcome = [c \in Calls |-> "idle"]
  /\ stateSlot = None /\ stateTimers = {}
  /\ stateOutcome = [r \in StateReqs |-> "idle"]
  /\ connected = FALSE /\ wsOpen = FALSE /\ graceTimer = FALSE
  /\ stopped = FALSE
  /\ sent = {} /\ earlier = {} /\ toBridge = <<>>

-----------------------------------------------------------------------------
(* Helpers of the handlers.                                                *)

\* BridgeConnection.send: frames are dropped unless the socket is OPEN.
Send(frames) ==
  /\ toBridge' = IF wsOpen THEN toBridge \o frames ELSE toBridge
  /\ sent' = IF wsOpen
               THEN sent \cup {c \in Calls :
                      \E i \in DOMAIN frames : frames[i] = InvokeFrame(c)}
               ELSE sent
  /\ UNCHANGED earlier

\* Mutant of DequeueAndDispatch: the timer of a dequeued call is not armed.
DequeueUntimed(n, pend, armed, trailing) ==
  LET next == SubSeq(queue, 1, IF queue # <<>> /\ n < MaxConcurrent
                              THEN 1 ELSE 0) IN
    /\ inflight' = n + Len(next) /\ queued' = queued - Len(next)
    /\ queue' = SubSeq(queue, Len(next) + 1, Len(queue))
    /\ pendingInvokes' = pend \cup {next[i] : i \in DOMAIN next}
    /\ timers' = armed
    /\ Send([i \in DOMAIN next |-> InvokeFrame(next[i])] \o trailing)

\* Mutant of DequeueAndDispatch: the freed slot is not offered to the queue.
DequeueNothing(n, pend, armed, trailing) ==
  /\ inflight' = n /\ pendingInvokes' = pend /\ timers' = armed
  /\ Send(trailing)
  /\ UNCHANGED <<queue, queued>>

\* dequeueAndDispatch, run by a handler that has already brought the slot
\* counter and the two tables to n, pend and armed; trailing holds the frames
\* that handler sends afterwards.
DequeueAndDispatch(n, pend, armed, trailing) ==
  \/ /\ queue # <<>>
     /\ n < MaxConcurrent
     /\ LET next == Head(queue) IN
          /\ inflight' = n + 1
          /\ pendingInvokes' = pend \cup {next}
          /\ timers' = armed \cup {next}
          /\ Send(<<InvokeFrame(next)>> \o trailing)
     /\ queue' = Tail(queue)
     /\ queued' = queued - 1
  \/ /\ queue = <<>> \/ n >= MaxConcurrent
     /\ inflight' = n
     /\ pendingInvokes' = pend
     /\ timers' = armed
     /\ Send(trailing)
     /\ UNCHANGED <<queue, queued>>

\* The common tail of a result, a cancellation and a timeout: the slot of c is
\* given back, the next waiting invocation takes it, the caller is settled.
FreeSlot(c, trailing, result) ==
  /\ DequeueAndDispatch(inflight - 1, pendingInvokes \ {c}, timers \ {c},
                        trailing)
  /\ outcome' = [outcome EXCEPT ![c] = result]
  /\ UNCHANGED <<stateVars, connVars>>

\* Mutant of RejectAllPending: the promises of the queue are dropped with it.
RejectForgetsQueue(err) ==
  /\ inflight' = 0 /\ queued' = 0 /\ queue' = <<>>
  /\ timers' = timers \ pendingInvokes
  /\ pendingInvokes' = {}
  /\ outcome' = [c \in Calls |-> IF c \in pendingInvokes
                                   THEN err ELSE outcome[c]]
  /\ stateSlot' = None
  /\ UNCHANGED <<stateTimers, stateOutcome>>

\* rejectAllPending(err)
RejectAllPending(err) ==
  /\ inflight' = 0 /\ queued' = 0 /\ queue' = <<>>
  /\ timers' = timers \ pendingInvokes
  /\ pendingInvokes' = {}
  /\ outcome' = [c \in Calls |-> IF c \in pendingInvokes \cup InQueue
                                   THEN err ELSE outcome[c]]
  /\ stateSlot' = None
  /\ stateTimers' = stateTimers \ {stateSlot}
  /\ stateOutcome' = [r \in StateReqs |->
        IF r = stateSlot /\ stateOutcome[r] = Waiting
          THEN err ELSE stateOutcome[r]]

\* Mutant of SocketGone: unread frames are sent again on the next socket.
SocketGoneKeepsFrames == sent' = {} /\ earlier' = earlier \cup sent /\ UNCHANGED toBridge

\* The old socket is gone: its unread frames are lost.
SocketGone ==
  /\ toBridge' = <<>>
  /\ sent' = {}
  /\ earlier' = earlier \cup sent

-----------------------------------------------------------------------------
(* invoke                                                                  *)

\* Mutant of Refusal: the queue may hold one more.
RefusalOffByOne ==
  IF inflight >= MaxConcurrent /\ queued > MaxQueueDepth THEN "busy"
  ELSE IF connected THEN "none"
  ELSE IF graceTimer THEN "reconnecting" ELSE "notConnected"

\* The error invoke throws before it takes a slot or a place in the queue;
\* the queue-full check comes before the connection check.
Refusal ==
  IF inflight >= MaxConcurrent /\ queued >= MaxQueueDepth THEN "busy"
  ELSE IF connected THEN "none"
  ELSE IF graceTimer THEN "reconnecting" ELSE "notConnected"

InvokeRefused(c) ==
  /\ outcome[c] = "idle"
  /\ Refusal # "none"
  /\ outcome' = [outcome EXCEPT ![c] = Refusal]
  /\ UNCHANGED <<inflight, queued, queue, pendingInvokes, timers,
                 stateVars, connVars, wireVars>>

\* dispatchInvoke
InvokeDispatched(c) ==
  /\ outcome[c] = "idle"
  /\ Refusal = "none"
  /\ inflight < MaxConcurrent
  /\ inflight' = inflight + 1
  /\ pendingInvokes' = pendingInvokes \cup {c}
  /\ timers' = timers \cup {c}
  /\ outcome' = [outcome EXCEPT ![c] = Waiting]
  /\ Send(<<InvokeFrame(c)>>)
  /\ UNCHANGED <<queued, queue, stateVars, connVars>>

\* The dequeueAndDispatch that follows the push returns at its second guard,
\* because every slot is taken.
InvokeQueued(c) ==
  /\ outcome[c] = "idle"
  /\ Refusal = "none"
  /\ inflight >= MaxConcurrent
  /\ queued' = queued + 1
  /\ queue' = Append(queue, c)
  /\ outcome' = [outcome EXCEPT ![c] = Waiting]
  /\ UNCHANGED <<inflight, pendingInvokes, timers,
                 stateVars, connVars, wireVars>>

Invoke(c) == InvokeRefused(c) \/ InvokeDispatched(c) \/ InvokeQueued(c)

-----------------------------------------------------------------------------
(* The rest of an invocation's life.                                       *)

\* The setTimeout callback.  Its cancel frame goes out after the frame of the
\* invocation that takes over the slot.
TimerFires(c) ==
  /\ c \in timers
  /\ FreeSlot(c, <<CancelFrame(c)>>, "timeout")

\* Mutant of OnResult: an orphan result is not told apart.
OnResultUnchecked(c) == FreeSlot(c, <<>>, "result")

\* routeMessage, case "result"; an unknown id is an orphan and is only logged.
OnResult(c) ==
  \/ /\ c \in pendingInvokes
     /\ FreeSlot(c, <<>>, "result")
  \/ c \notin pendingInvokes /\ UNCHANGED vars

\* Mutant of OnCancelled: the Map is not consulted.
OnCancelledUnchecked(c, late) ==
  \/ ~late /\ FreeSlot(c, <<>>, "cancelled")
  \/ late /\ UNCHANGED vars

\* routeMessage, case "cancelled"; late:true is informational.
OnCancelled(c, late) ==
  \/ /\ ~late /\ c \in pendingInvokes
     /\ FreeSlot(c, <<>>, "cancelled")
  \/ (late \/ c \notin pendingInvokes) /\ UNCHANGED vars

\* cancel(id): the slot stays taken until the Bridge answers.
Cancel(c) ==
  /\ connected
  /\ c \in pendingInvokes
  /\ Send(<<CancelFrame(c)>>)
  /\ UNCHANGED <<callVars, stateVars, connVars>>

-----------------------------------------------------------------------------
(* requestState                                                            *)

\* Mutant of RequestState: the timer of the request in the slot is cleared.
RequestStateClears(r) ==
  /\ stateOutcome[r] = "idle" /\ connected
  /\ stateOutcome' = [stateOutcome EXCEPT ![r] = Waiting]
  /\ stateTimers' = {r} /\ stateSlot' = r
  /\ Send(<<StateFrame(r)>>)
  /\ UNCHANGED <<callVars, connVars>>

\* A second request overwrites the only slot; the first keeps its timer.
RequestState(r) ==
  /\ stateOutcome[r] = "idle"
  /\ \/ /\ connected
        /\ stateOutcome' = [stateOutcome EXCEPT ![r] = Waiting]
        /\ stateTimers' = stateTimers \cup {r}
        /\ stateSlot' = r
        /\ Send(<<StateFrame(r)>>)
     \/ /\ ~connected
        /\ stateOutcome' = [stateOutcome EXCEPT ![r] = "notConnected"]
        /\ UNCHANGED <<stateTimers, stateSlot, wireVars>>
  /\ UNCHANGED <<callVars, connVars>>

\* The timer callback compares the stored, wrapped resolve with the bare one,
\* which never are the same function: the slot keeps the settled request.
StateTimerFires(r) ==
  /\ r \in stateTimers
  /\ stateTimers' = stateTimers \ {r}
  /\ stateOutcome' = [stateOutcome EXCEPT ![r] = "timeout"]
  /\ UNCHANGED <<stateSlot, callVars, connVars, wireVars>>

\* routeMessage, case "stateSnapshot" with the right protocol version: the
\* request in the slot is resolved, which is a no-op when it has timed out.
OnStateSnapshot ==
  /\ stateSlot' = None
  /\ stateTimers' = stateTimers \ {stateSlot}
  /\ stateOutcome' = [r \in StateReqs |->
        IF r = stateSlot /\ stateOutcome[r] = Waiting
          THEN "result" ELSE stateOutcome[r]]
  /\ UNCHANGED <<callVars, connVars, wireVars>>

-----------------------------------------------------------------------------
(* The connection.                                                         *)

\* handleConnect on a Hub without a live socket.
Connect ==
  /\ ~connected /\ ~stopped
  /\ connected' = TRUE /\ wsOpen' = TRUE /\ graceTimer' = FALSE
  /\ UNCHANGED <<stopped, callVars, stateVars, wireVars>>

\* The upgrade handler evicts a live socket: handleDisconnect, then
\* handleUpgrade and handleConnect, in one turn of the event loop.
Evict ==
  /\ connected /\ ~stopped
  /\ RejectAllPending("disconnected")
  /\ SocketGone
  /\ wsOpen' = TRUE /\ graceTimer' = FALSE
  /\ UNCHANGED <<connected, stopped>>

\* The socket leaves OPEN (a close frame was sent, as for a snapshot with the
\* wrong protocol version, or received); its close event is still to come.
SocketCloses ==
  /\ connected /\ wsOpen
  /\ wsOpen' = FALSE
  /\ UNCHANGED <<connected, graceTimer, stopped, callVars, stateVars, wireVars>>

\* The close event: handleDisconnect, which rejects everything before it
\* starts the grace timer.
HandleDisconnect ==
  /\ connected
  /\ connected' = FALSE /\ wsOpen' = FALSE
  /\ RejectAllPending("disconnected")
  /\ SocketGone
  /\ graceTimer' = (GraceMs > 0)
  /\ UNCHANGED stopped

GraceExpires ==
  /\ graceTimer
  /\ graceTimer' = FALSE
  /\ UNCHANGED <<connected, wsOpen, stopped, callVars, stateVars, wireVars>>

\* BridgeServer.close: the connection first, then everything pending.
CloseServer ==
  /\ ~stopped
  /\ stopped' = TRUE
  /\ connected' = FALSE /\ wsOpen' = FALSE /\ graceTimer' = FALSE
  /\ RejectAllPending("closed")
  /\ SocketGone

-----------------------------------------------------------------------------
(* The environment: the Bridge reads frames and answers what it was sent.  *)

BridgeReads ==
  /\ toBridge # <<>>
  /\ toBridge' = Tail(toBridge)
  /\ UNCHANGED <<callVars, stateVars, connVars, sent, earlier>>

\* Invocations whose frame the Bridge has read; it answers no other.
ReadByBridge ==
  (sent \cup earlier) \
    {c \in Calls : \E i \in DOMAIN toBridge : toBridge[i] = InvokeFrame(c)}

\* Bound: at most one unread cancel frame per invocation from cancel(id).
MayCancel(c) == \A i \in DOMAIN toBridge : toBridge[i] # CancelFrame(c)

Next ==
  \/ \E c \in Calls :
       \/ Invoke(c)
       \/ TimerFires(c)
       \/ connected /\ c \in ReadByBridge /\ OnResult(c)
       \/ \E late \in BOOLEAN :
            connected /\ c \in ReadByBridge /\ OnCancelled(c, late)
       \/ MayCancel(c) /\ Cancel(c)
  \/ \E r \in StateReqs : RequestState(r) \/ StateTimerFires(r)
  \/ connected /\ OnStateSnapshot
  \/ Connect \/ Evict \/ SocketCloses \/ HandleDisconnect
  \/ GraceExpires \/ CloseServer
  \/ BridgeReads

\* Timers fire: the event loop of a live Node process runs every armed timer.
\* Nothing is assumed of callers, of the Bridge or of the network.
Fairness ==
  /\ \A c \in Calls : WF_vars(TimerFires(c))
  /\ \A r \in StateReqs : WF_vars(StateTimerFires(r))

Spec == Init /\ [][Next]_vars
FairSpec == Spec /\ Fairness

-----------------------------------------------------------------------------
(* Properties.                                                             *)

TypeOK ==
  /\ inflight \in Nat /\ queued \in Nat
  /\ queue \in Seq(Calls)
  /\ pendingInvokes \subseteq Calls /\ timers \subseteq Calls
  /\ outcome \in [Calls -> Outcomes]
  /\ stateSlot \in StateReqs \cup {None} /\ stateTimers \subseteq StateReqs
  /\ stateOutcome \in [StateReqs -> Outcomes]
  /\ connected \in BOOLEAN /\ wsOpen \in BOOLEAN
  /\ graceTimer \in BOOLEAN /\ stopped \in BOOLEAN
  /\ sent \subseteq Calls /\ earlier \subseteq Calls
  /\ toBridge \in Seq(Frames)

\* The two counters, which every handler adjusts by hand, agree with the tables
\* they count, and stay within their limits (CONC-01 to CONC-04).
SlotAccounting ==
  /\ inflight = Cardinality(pendingInvokes) /\ inflight <= MaxConcurrent
  /\ queued = Len(queue) /\ queued <= MaxQueueDepth

\* No slot is idle while an invocation waits, so nobody is overtaken by a
\* newcomer that finds a free slot: every handler that frees a slot refills
\* it in the same turn (CONC-05).
NoIdleSlot == queue # <<>> => inflight >= MaxConcurrent

\* An armed timer always belongs to the holder of a slot, and every holder has
\* one: a timer that outlives its invocation would give back a slot twice.
TimersOwnSlots == timers = pendingInvokes

\* A caller waits exactly when one table holds its promise, and one only: no
\* promise is forgotten, none is held twice.
CallerAccounted ==
  /\ {c \in Calls : outcome[c] = Waiting} = pendingInvokes \cup InQueue
  /\ pendingInvokes \cap InQueue = {}
  /\ \A i, j \in DOMAIN queue : queue[i] = queue[j] => i = j

\* Without a connection nothing is dispatched and nothing waits: what was
\* pending when it was lost, the queue included, has been rejected.
NothingHeldWhileDown ==
  ~connected => pendingInvokes = {} /\ queue = <<>> /\ stateSlot = None

\* A cancel frame only travels on the socket that carried its invocation, and
\* behind it: no cancel names an invocation this Bridge never heard of.
CancelFollowsInvoke ==
  \A i \in DOMAIN toBridge : toBridge[i].type = "cancel" =>
    /\ toBridge[i].id \in sent
    /\ \A j \in DOMAIN toBridge :
         toBridge[j] = InvokeFrame(toBridge[i].id) => j < i

\* A caller that has its answer never gets another: a result, a timeout, a
\* cancellation and a disconnect that race settle the promise once.
SettleOnce ==
  [][\A c \in Calls : outcome[c] \notin {"idle", Waiting} =>
       outcome'[c] = outcome[c]]_vars

\* CONC-03: an invocation leaves the queue from the front, into a slot, or
\* together with the whole queue when everything is rejected.
FifoStart ==
  [][queue # <<>> =>
       \/ Len(queue') >= Len(queue) /\ SubSeq(queue', 1, Len(queue)) = queue
       \/ Len(queue') = Len(queue) - 1 /\ queue' = Tail(queue)
            /\ Head(queue) \in pendingInvokes'
       \/ queue' = <<>> /\ \A c \in InQueue : outcome'[c] \in Rejected]_vars

\* BridgeDispatch implements the abstract service: slots are the dispatched
\* invocations, the line is the queue, done are the settled callers.
Service == INSTANCE InvocationService WITH
  running <- pendingInvokes,
  waiting <- queue,
  done    <- {c \in Calls : outcome[c] \notin {"idle", Waiting}}

\* Every step of the dispatcher is a step of the service or changes nothing of
\* it: FIFO, bounded, work-conserving, and refusing only when it must.
ImplementsService == Service!Spec

\* Every caller is answered in the end, whatever the Bridge does: timeouts of
\* those in front drain the queue.
EveryCallSettles ==
  \A c \in Calls : (outcome[c] = Waiting) ~> (outcome[c] # Waiting)

\* So is every requestState, also one whose slot a second request has taken.
EveryStateRequestSettles ==
  \A r \in StateReqs : (stateOutcome[r] = Waiting) ~> (stateOutcome[r] # Waiting)
=============================================================================
