------------------------ MODULE BridgeDispatch_proofs ------------------------
(***************************************************************************)
(* Proofs about BridgeDispatch, for every set of calls and every limit.    *)
(***************************************************************************)
EXTENDS BridgeDispatch, FiniteSetTheorems, SequenceTheorems, TLAPS

-----------------------------------------------------------------------------
(* Sequences without repetition, as the queue of calls is one.             *)

Elements(s) == {s[i] : i \in DOMAIN s}
Distinct(s) == \A i, j \in DOMAIN s : s[i] = s[j] => i = j

\* Taking the head off removes exactly that element.
LEMMA TailElements ==
  ASSUME NEW S, NEW s \in Seq(S), s # <<>>, Distinct(s)
  PROVE  /\ Head(s) \in Elements(s)
         /\ Elements(Tail(s)) = Elements(s) \ {Head(s)}
         /\ Distinct(Tail(s))
  <1>1. /\ Tail(s) \in Seq(S) /\ Len(Tail(s)) = Len(s) - 1
        /\ \A i \in 1 .. Len(Tail(s)) : Tail(s)[i] = s[i+1]
    BY HeadTailProperties
  <1>2. Len(s) \in Nat \ {0} /\ DOMAIN s = 1 .. Len(s) /\ Head(s) = s[1]
    BY EmptySeq, LenProperties
  <1>3. DOMAIN Tail(s) = 1 .. (Len(s) - 1)
    BY <1>1, LenProperties
  <1>4. Head(s) \in Elements(s)
    BY <1>2 DEF Elements
  <1>5. Distinct(Tail(s))
    BY <1>1, <1>2, <1>3 DEF Distinct
  <1>6. ASSUME NEW x \in Elements(Tail(s))
        PROVE  x \in Elements(s) \ {Head(s)}
    <2>1. PICK i \in DOMAIN Tail(s) : x = Tail(s)[i]
      BY <1>6 DEF Elements
    <2>2. i + 1 \in DOMAIN s /\ x = s[i+1] /\ i + 1 # 1
      BY <1>1, <1>2, <1>3, <2>1
    <2>3. x # Head(s)
      BY <1>2, <2>2 DEF Distinct
    <2>4. QED
      BY <2>2, <2>3 DEF Elements
  <1>7. ASSUME NEW x \in Elements(s) \ {Head(s)}
        PROVE  x \in Elements(Tail(s))
    <2>1. PICK i \in DOMAIN s : x = s[i]
      BY <1>7 DEF Elements
    <2>2. i - 1 \in DOMAIN Tail(s)
      BY <1>2, <1>3, <1>7, <2>1
    <2>3. Tail(s)[i-1] = s[(i-1)+1] /\ (i-1)+1 = i
      BY <1>1, <1>2, <1>3, <2>1, <2>2
    <2>4. QED
      BY <2>1, <2>2, <2>3 DEF Elements
  <1>8. QED
    BY <1>4, <1>5, <1>6, <1>7

\* Appending a new element adds exactly that element.
LEMMA AppendElements ==
  ASSUME NEW S, NEW s \in Seq(S), NEW e \in S
  PROVE  /\ Elements(Append(s, e)) = Elements(s) \cup {e}
         /\ Distinct(s) /\ e \notin Elements(s) => Distinct(Append(s, e))
  <1>1. /\ Append(s, e) \in Seq(S) /\ Len(Append(s, e)) = Len(s) + 1
        /\ \A i \in 1 .. Len(s) : Append(s, e)[i] = s[i]
        /\ Append(s, e)[Len(s) + 1] = e
    BY AppendProperties
  <1>2. Len(s) \in Nat /\ DOMAIN s = 1 .. Len(s)
        /\ DOMAIN Append(s, e) = 1 .. (Len(s) + 1)
    BY <1>1, LenProperties
  <1>3. Elements(Append(s, e)) = Elements(s) \cup {e}
    BY <1>1, <1>2 DEF Elements
  <1>4. ASSUME Distinct(s), e \notin Elements(s) PROVE Distinct(Append(s, e))
    <2>1. \A i \in 1 .. Len(s) : s[i] # e
      BY <1>2, <1>4 DEF Elements
    <2>2. QED
      BY <1>1, <1>2, <1>4, <2>1 DEF Distinct
  <1>5. QED
    BY <1>3, <1>4

-----------------------------------------------------------------------------
(* Types.                                                                  *)

\* TypeOK with counters that may be negative: inductive alone, unlike TypeOK,
\* which needs every slot to be given back by its holder.
Shape ==
  /\ inflight \in Int /\ queued \in Int
  /\ queue \in Seq(Calls)
  /\ pendingInvokes \subseteq Calls /\ timers \subseteq Calls
  /\ outcome \in [Calls -> Outcomes]
  /\ stateSlot \in StateReqs \cup {None} /\ stateTimers \subseteq StateReqs
  /\ stateOutcome \in [StateReqs -> Outcomes]
  /\ connected \in BOOLEAN /\ wsOpen \in BOOLEAN
  /\ graceTimer \in BOOLEAN /\ stopped \in BOOLEAN
  /\ sent \subseteq Calls /\ earlier \subseteq Calls
  /\ toBridge \in Seq(Frames)

\* What Send does to the variables of the wire, for any frames.
LEMMA SendType ==
  ASSUME Shape, NEW frames \in Seq(Frames), Send(frames)
  PROVE  /\ toBridge' \in Seq(Frames)
         /\ sent' \subseteq Calls
         /\ earlier' \subseteq Calls
  <1>1. toBridge \o frames \in Seq(Frames)
    BY ConcatProperties DEF Shape
  <1>2. QED
    BY <1>1 DEF Send, Shape

\* The frames the handlers build are frames.
LEMMA FrameTypes ==
  ASSUME NEW c \in Calls, NEW r \in StateReqs
  PROVE  InvokeFrame(c) \in Frames /\ CancelFrame(c) \in Frames
         /\ StateFrame(r) \in Frames
  BY DEF InvokeFrame, CancelFrame, StateFrame, Frames

\* The same for an invocation alone: there may be no state request.
LEMMA CallFrameTypes ==
  ASSUME NEW c \in Calls
  PROVE  InvokeFrame(c) \in Frames /\ CancelFrame(c) \in Frames
  BY DEF InvokeFrame, CancelFrame, Frames

\* The outcomes the handlers store are outcomes.
LEMMA OutcomeTypes ==
  /\ {"idle", Waiting, "result"} \subseteq Outcomes
  /\ Rejected \subseteq Outcomes
  BY DEF Outcomes

\* dequeueAndDispatch keeps the types.
LEMMA DequeueType ==
  ASSUME Shape,
         NEW n \in Int, NEW pend \in SUBSET Calls, NEW armed \in SUBSET Calls,
         NEW trailing \in Seq(Frames),
         DequeueAndDispatch(n, pend, armed, trailing)
  PROVE  /\ inflight' \in Int /\ queued' \in Int
         /\ queue' \in Seq(Calls)
         /\ pendingInvokes' \subseteq Calls /\ timers' \subseteq Calls
         /\ toBridge' \in Seq(Frames)
         /\ sent' \subseteq Calls /\ earlier' \subseteq Calls
  <1>1. CASE queue # <<>> /\ n < MaxConcurrent
    <2>1. Head(queue) \in Calls /\ Tail(queue) \in Seq(Calls)
      BY <1>1, HeadTailProperties DEF Shape
    <2>2. <<InvokeFrame(Head(queue))>> \o trailing \in Seq(Frames)
      BY <2>1, CallFrameTypes, ConcatProperties
    <2>3. Send(<<InvokeFrame(Head(queue))>> \o trailing)
      BY <1>1, LimitsAssumption DEF DequeueAndDispatch
    <2>4. /\ toBridge' \in Seq(Frames)
          /\ sent' \subseteq Calls /\ earlier' \subseteq Calls
      BY <2>2, <2>3, SendType
    <2>5. /\ inflight' = n + 1
          /\ pendingInvokes' = pend \cup {Head(queue)}
          /\ timers' = armed \cup {Head(queue)}
          /\ queue' = Tail(queue) /\ queued' = queued - 1
      BY <1>1, LimitsAssumption DEF DequeueAndDispatch
    <2>6. QED
      BY <2>1, <2>4, <2>5 DEF Shape
  <1>2. CASE ~(queue # <<>> /\ n < MaxConcurrent)
    <2>1. Send(trailing)
      BY <1>2, LimitsAssumption DEF DequeueAndDispatch
    <2>2. /\ toBridge' \in Seq(Frames)
          /\ sent' \subseteq Calls /\ earlier' \subseteq Calls
      BY <2>1, SendType
    <2>3. QED
      BY <1>2, <2>2, LimitsAssumption DEF DequeueAndDispatch, Shape
  <1>3. QED
    BY <1>1, <1>2

\* FreeSlot keeps the types.
LEMMA FreeSlotType ==
  ASSUME Shape, NEW c \in Calls, NEW trailing \in Seq(Frames),
         NEW res \in Outcomes, FreeSlot(c, trailing, res)
  PROVE  Shape'
  <1>1. inflight - 1 \in Int /\ pendingInvokes \ {c} \in SUBSET Calls
        /\ timers \ {c} \in SUBSET Calls
    BY DEF Shape
  <1>2. /\ inflight' \in Int /\ queued' \in Int
        /\ queue' \in Seq(Calls)
        /\ pendingInvokes' \subseteq Calls /\ timers' \subseteq Calls
        /\ toBridge' \in Seq(Frames)
        /\ sent' \subseteq Calls /\ earlier' \subseteq Calls
    BY <1>1, DequeueType DEF FreeSlot
  <1>3. outcome' \in [Calls -> Outcomes]
    BY DEF FreeSlot, Shape
  <1>4. QED
    BY <1>2, <1>3 DEF FreeSlot, Shape, stateVars, connVars

\* Rejecting everything and dropping the socket keeps the types.
LEMMA RejectType ==
  ASSUME Shape, NEW err \in Outcomes, RejectAllPending(err), SocketGone
  PROVE  /\ inflight' \in Int /\ queued' \in Int
         /\ queue' \in Seq(Calls)
         /\ pendingInvokes' \subseteq Calls /\ timers' \subseteq Calls
         /\ outcome' \in [Calls -> Outcomes]
         /\ stateSlot' \in StateReqs \cup {None}
         /\ stateTimers' \subseteq StateReqs
         /\ stateOutcome' \in [StateReqs -> Outcomes]
         /\ toBridge' \in Seq(Frames)
         /\ sent' \subseteq Calls /\ earlier' \subseteq Calls
  BY EmptySeq DEF Shape, RejectAllPending, SocketGone

\* The initial state is typed.
LEMMA TypeInit == Init => Shape
  <1> SUFFICES ASSUME Init PROVE Shape
    OBVIOUS
  <1>1. "idle" \in Outcomes
    BY DEF Outcomes
  <1>2. outcome \in [Calls -> Outcomes] /\ stateOutcome \in [StateReqs -> Outcomes]
    BY <1>1 DEF Init
  <1>3. queue \in Seq(Calls) /\ toBridge \in Seq(Frames)
    BY EmptySeq DEF Init
  <1>4. connected \in BOOLEAN /\ wsOpen \in BOOLEAN
        /\ graceTimer \in BOOLEAN /\ stopped \in BOOLEAN
    BY DEF Init
  <1>5. inflight \in Int /\ queued \in Int
    BY DEF Init
  <1>6. /\ pendingInvokes \subseteq Calls /\ timers \subseteq Calls
        /\ sent \subseteq Calls /\ earlier \subseteq Calls
        /\ stateSlot \in StateReqs \cup {None} /\ stateTimers \subseteq StateReqs
    BY DEF Init
  <1>7. QED
    BY <1>2, <1>3, <1>4, <1>5, <1>6 DEF Shape

\* Every variable keeps its type: the counters stay integers, the tables hold
\* calls, the wire carries frames (all handlers of bridge-dispatch.ts).
LEMMA ShapeNext == Shape /\ [Next]_vars => Shape'
  <1> SUFFICES ASSUME Shape, [Next]_vars PROVE Shape'
    OBVIOUS
  <1> USE DEF callVars, stateVars, connVars, wireVars
  <1>1. ASSUME NEW c \in Calls, Invoke(c) PROVE Shape'
    <2>1. CASE InvokeRefused(c)
      <3>1. Refusal \in Outcomes
        BY <2>1 DEF InvokeRefused, Refusal, Outcomes, Rejected
      <3>2. QED
        BY <2>1, <3>1 DEF InvokeRefused, Shape
    <2>2. CASE InvokeDispatched(c)
      <3>1. Send(<<InvokeFrame(c)>>) /\ <<InvokeFrame(c)>> \in Seq(Frames)
        BY <2>2, CallFrameTypes DEF InvokeDispatched
      <3>2. /\ toBridge' \in Seq(Frames)
            /\ sent' \subseteq Calls /\ earlier' \subseteq Calls
        BY <3>1, SendType
      <3>3. QED
        BY <2>2, <3>2, OutcomeTypes DEF InvokeDispatched, Shape
    <2>3. CASE InvokeQueued(c)
      <3>1. Append(queue, c) \in Seq(Calls)
        BY AppendProperties DEF Shape
      <3>2. QED
        BY <2>3, <3>1, OutcomeTypes DEF InvokeQueued, Shape
    <2>4. QED
      BY <1>1, <2>1, <2>2, <2>3 DEF Invoke
  <1>2. ASSUME NEW c \in Calls, TimerFires(c) PROVE Shape'
    <2>1. <<CancelFrame(c)>> \in Seq(Frames)
      BY CallFrameTypes
    <2>2. QED
      BY <1>2, <2>1, FreeSlotType, OutcomeTypes DEF TimerFires, Rejected
  <1>3. ASSUME NEW c \in Calls, OnResult(c) PROVE Shape'
    BY <1>3, FreeSlotType, OutcomeTypes, EmptySeq DEF OnResult, Shape, vars
  <1>4. ASSUME NEW c \in Calls, NEW late \in BOOLEAN, OnCancelled(c, late)
        PROVE Shape'
    BY <1>4, FreeSlotType, OutcomeTypes, EmptySeq
       DEF OnCancelled, Rejected, Shape, vars
  <1>5. ASSUME NEW c \in Calls, Cancel(c) PROVE Shape'
    <2>1. Send(<<CancelFrame(c)>>) /\ <<CancelFrame(c)>> \in Seq(Frames)
      BY <1>5, CallFrameTypes DEF Cancel
    <2>2. QED
      BY <1>5, <2>1, SendType DEF Cancel, Shape
  <1>6. ASSUME NEW r \in StateReqs, RequestState(r) PROVE Shape'
    <2>1. CASE connected
      <3>1. Send(<<StateFrame(r)>>)
        BY <1>6, <2>1 DEF RequestState
      <3>2. <<StateFrame(r)>> \in Seq(Frames)
        BY DEF StateFrame, Frames
      <3>3. QED
        BY <1>6, <2>1, <3>1, <3>2, SendType, OutcomeTypes
           DEF RequestState, Shape
    <2>2. CASE ~connected
      BY <1>6, <2>2, OutcomeTypes DEF RequestState, Shape, Rejected
    <2>3. QED
      BY <2>1, <2>2
  <1>7. ASSUME NEW r \in StateReqs, StateTimerFires(r) PROVE Shape'
    BY <1>7, OutcomeTypes DEF StateTimerFires, Shape, Rejected
  <1>8. CASE OnStateSnapshot
    BY <1>8, OutcomeTypes DEF OnStateSnapshot, Shape
  <1>9. CASE Evict
    <2>1. RejectAllPending("disconnected") /\ SocketGone
          /\ "disconnected" \in Outcomes
      BY <1>9, OutcomeTypes DEF Evict, Rejected
    <2>2. connected' \in BOOLEAN /\ wsOpen' \in BOOLEAN
          /\ graceTimer' \in BOOLEAN /\ stopped' \in BOOLEAN
      BY <1>9 DEF Evict, Shape
    <2>3. QED
      BY <2>1, <2>2, RejectType DEF Shape
  <1>10. CASE HandleDisconnect
    <2>1. RejectAllPending("disconnected") /\ SocketGone
          /\ "disconnected" \in Outcomes
      BY <1>10, OutcomeTypes DEF HandleDisconnect, Rejected
    <2>2. connected' \in BOOLEAN /\ wsOpen' \in BOOLEAN
          /\ graceTimer' \in BOOLEAN /\ stopped' \in BOOLEAN
      <3>1. (GraceMs > 0) \in BOOLEAN
        OBVIOUS
      <3>2. QED
        BY <1>10, <3>1, Zenon DEF HandleDisconnect, Shape
    <2>3. QED
      BY <2>1, <2>2, RejectType DEF Shape
  <1>11. CASE CloseServer
    <2>1. RejectAllPending("closed") /\ SocketGone /\ "closed" \in Outcomes
      BY <1>11, OutcomeTypes DEF CloseServer, Rejected
    <2>2. connected' \in BOOLEAN /\ wsOpen' \in BOOLEAN
          /\ graceTimer' \in BOOLEAN /\ stopped' \in BOOLEAN
      BY <1>11 DEF CloseServer
    <2>3. QED
      BY <2>1, <2>2, RejectType DEF Shape
  <1>12. CASE Connect \/ SocketCloses \/ GraceExpires
    BY <1>12 DEF Connect, SocketCloses, GraceExpires, Shape
  <1>13. CASE BridgeReads
    BY <1>13, HeadTailProperties DEF BridgeReads, Shape
  <1>14. CASE UNCHANGED vars
    BY <1>14 DEF vars, Shape
  <1>15. QED
    BY <1>1, <1>2, <1>3, <1>4, <1>5, <1>6, <1>7, <1>8, <1>9, <1>10, <1>11,
       <1>12, <1>13, <1>14 DEF Next

-----------------------------------------------------------------------------
(* The inductive invariant.                                                *)

\* None of the parts is inductive alone: the counters are right because a slot
\* is only given back by an invocation that holds one (TimersOwnSlots), which
\* is not also waiting (CallerAccounted); the queue may be left alone by a
\* refused or dispatched call because of NoIdleSlot.
IInv ==
  /\ Shape
  /\ IsFiniteSet(pendingInvokes)
  /\ SlotAccounting
  /\ NoIdleSlot
  /\ TimersOwnSlots
  /\ CallerAccounted
  /\ NothingHeldWhileDown

\* The queue, seen as a sequence without repetition.
LEMMA QueueElements ==
  InQueue = Elements(queue) /\ InQueue' = Elements(queue')
  BY DEF InQueue, Elements

\* Giving a slot back preserves the invariant.
LEMMA FreeSlotInv ==
  ASSUME IInv, NEW c \in pendingInvokes, NEW trailing \in Seq(Frames),
         NEW res \in Outcomes \ {"idle", Waiting}, FreeSlot(c, trailing, res)
  PROVE  IInv'
  <1> DEFINE pend == pendingInvokes \ {c}
  <1>0. c \in Calls /\ res \in Outcomes
    BY DEF IInv, Shape
  <1>1. Shape'
    BY <1>0, FreeSlotType DEF IInv
  <1>2. /\ IsFiniteSet(pend) /\ Cardinality(pend) = inflight - 1
        /\ Cardinality(pendingInvokes) \in Nat
    BY FS_RemoveElement, FS_CardinalityType DEF IInv, SlotAccounting
  <1>3. c \notin InQueue /\ outcome[c] = Waiting /\ connected /\ connected' = connected
        /\ queue \in Seq(Calls) /\ Distinct(queue) /\ inflight <= MaxConcurrent
        /\ inflight \in Int /\ timers \ {c} = pend
    BY DEF IInv, CallerAccounted, NothingHeldWhileDown, FreeSlot, connVars,
           Shape, SlotAccounting, TimersOwnSlots, Distinct
  <1>4. outcome' = [outcome EXCEPT ![c] = res] /\ outcome \in [Calls -> Outcomes]
    BY DEF FreeSlot, IInv, Shape
  <1>5. {d \in Calls : outcome'[d] = Waiting} = pend \cup InQueue
    <2>1. {d \in Calls : outcome'[d] = Waiting} = {d \in Calls : outcome[d] = Waiting} \ {c}
      BY <1>0, <1>4
    <2>2. {d \in Calls : outcome[d] = Waiting} = pendingInvokes \cup InQueue
      BY DEF IInv, CallerAccounted
    <2>3. c \notin InQueue
      BY <1>3
    <2>4. QED
      BY <2>1, <2>2, <2>3
  <1>6. DequeueAndDispatch(inflight - 1, pend, pend, trailing)
    BY <1>3 DEF FreeSlot
  <1>7. CASE queue # <<>>
    <2> DEFINE next == Head(queue)
    <2>1. inflight - 1 < MaxConcurrent
      BY <1>3, LimitsAssumption
    <2>2. /\ inflight' = (inflight - 1) + 1
          /\ pendingInvokes' = pend \cup {next} /\ timers' = pend \cup {next}
          /\ queue' = Tail(queue) /\ queued' = queued - 1
      BY <1>3, <1>6, <1>7, <2>1, LimitsAssumption DEF DequeueAndDispatch
    <2>3. /\ next \in InQueue /\ InQueue' = InQueue \ {next}
          /\ Distinct(queue')
      BY <1>3, <1>7, <2>2, TailElements, QueueElements
    <2>4. next \notin pend
      BY <2>3 DEF IInv, CallerAccounted
    <2>5. IsFiniteSet(pendingInvokes') /\ Cardinality(pendingInvokes') = inflight'
      <3>1. /\ IsFiniteSet(pend \cup {next})
            /\ Cardinality(pend \cup {next}) = Cardinality(pend) + 1
        <4> HIDE DEF pend, next
        <4>1. QED
          BY <1>2, <2>4, FS_AddElement
      <3>2. QED
        BY <1>2, <2>2, <3>1
    <2>6. Len(queue') = Len(queue) - 1 /\ Len(queue) \in Nat
      BY <1>3, <1>7, <2>2, HeadTailProperties, LenProperties
    <2>7. SlotAccounting'
      BY <1>3, <2>2, <2>5, <2>6, LimitsAssumption DEF IInv, SlotAccounting
    <2>8. NoIdleSlot'
      BY <1>3, <1>7, <2>2 DEF IInv, NoIdleSlot
    <2>9. CallerAccounted'
      <3>1. pendingInvokes' \cup InQueue' = pend \cup InQueue
        BY <2>2, <2>3
      <3>2. pendingInvokes' \cap InQueue' = {}
        BY <2>2, <2>3 DEF IInv, CallerAccounted
      <3>3. QED
        BY <1>5, <2>3, <3>1, <3>2 DEF CallerAccounted, Distinct
    <2>10. QED
      BY <1>1, <1>3, <2>2, <2>5, <2>7, <2>8, <2>9
         DEF IInv, TimersOwnSlots, NothingHeldWhileDown
  <1>8. CASE queue = <<>>
    <2>1. /\ inflight' = inflight - 1 /\ pendingInvokes' = pend /\ timers' = pend
          /\ queue' = queue /\ queued' = queued
      BY <1>6, <1>8 DEF DequeueAndDispatch
    <2>2. InQueue' = InQueue
      BY <2>1, QueueElements
    <2>3. SlotAccounting'
      BY <1>2, <1>3, <2>1, LimitsAssumption DEF IInv, SlotAccounting
    <2>4. CallerAccounted'
      BY <1>5, <2>1, <2>2 DEF IInv, CallerAccounted
    <2>5. QED
      BY <1>1, <1>2, <1>3, <1>8, <2>1, <2>3, <2>4
         DEF IInv, NoIdleSlot, TimersOwnSlots, NothingHeldWhileDown
  <1>9. QED
    BY <1>7, <1>8

\* Rejecting everything establishes the invariant, whatever else changes.
LEMMA RejectInv ==
  ASSUME IInv, Shape', NEW err \in Outcomes \ {"idle", Waiting},
         RejectAllPending(err)
  PROVE  IInv'
  <1>1. /\ inflight' = 0 /\ queued' = 0 /\ queue' = <<>>
        /\ pendingInvokes' = {} /\ timers' = {} /\ stateSlot' = None
    BY DEF RejectAllPending, IInv, TimersOwnSlots
  <1>2. IsFiniteSet(pendingInvokes') /\ Cardinality(pendingInvokes') = 0
    BY <1>1, FS_EmptySet
  <1>3. SlotAccounting'
    BY <1>1, <1>2, EmptySeq, LimitsAssumption DEF SlotAccounting
  <1>4. InQueue' = {} /\ DOMAIN queue' = {}
    BY <1>1, QueueElements DEF Elements
  <1>5. {c \in Calls : outcome'[c] = Waiting} = {}
    <2> SUFFICES ASSUME NEW c \in Calls PROVE outcome'[c] # Waiting
      OBVIOUS
    <2>1. outcome'[c] = IF c \in pendingInvokes \cup InQueue THEN err ELSE outcome[c]
      BY DEF RejectAllPending
    <2>2. QED
      BY <2>1 DEF IInv, CallerAccounted
  <1>6. CallerAccounted'
    BY <1>1, <1>4, <1>5 DEF CallerAccounted
  <1>7. QED
    BY <1>1, <1>2, <1>3, <1>6
       DEF IInv, NoIdleSlot, TimersOwnSlots, NothingHeldWhileDown

\* Steps that leave every table of invocations alone.
LEMMA TablesUnchanged ==
  ASSUME IInv, Shape', UNCHANGED callVars,
         ~connected' => ~connected /\ stateSlot' = stateSlot
  PROVE  IInv'
  <1>1. InQueue' = InQueue
    BY DEF callVars, InQueue
  <1>2. /\ SlotAccounting' /\ NoIdleSlot' /\ TimersOwnSlots'
        /\ IsFiniteSet(pendingInvokes')
    BY DEF IInv, callVars, SlotAccounting, NoIdleSlot, TimersOwnSlots
  <1>3. CallerAccounted'
    BY <1>1 DEF IInv, callVars, CallerAccounted
  <1>4. NothingHeldWhileDown'
    BY DEF IInv, callVars, NothingHeldWhileDown
  <1>5. QED
    BY <1>2, <1>3, <1>4 DEF IInv

\* invoke preserves the invariant.
LEMMA InvokeInv ==
  ASSUME IInv, Shape', NEW c \in Calls, Invoke(c)
  PROVE  IInv'
  <1>1. /\ outcome[c] = "idle" /\ c \notin pendingInvokes /\ c \notin InQueue
        /\ outcome \in [Calls -> Outcomes] /\ queue \in Seq(Calls)
        /\ inflight \in Int /\ Distinct(queue)
        /\ {d \in Calls : outcome[d] = Waiting} = pendingInvokes \cup InQueue
    BY DEF Invoke, InvokeRefused, InvokeDispatched, InvokeQueued, IInv,
           CallerAccounted, Waiting, Shape, Distinct
  <1>2. CASE InvokeRefused(c)
    <2>1. Refusal # Waiting /\ outcome' = [outcome EXCEPT ![c] = Refusal]
      BY <1>2 DEF InvokeRefused, Refusal, Waiting
    <2>2. {d \in Calls : outcome'[d] = Waiting} = {d \in Calls : outcome[d] = Waiting}
      BY <1>1, <2>1 DEF Waiting
    <2>3. /\ UNCHANGED <<inflight, queued, queue, pendingInvokes, timers>>
          /\ UNCHANGED <<connected, stateSlot>>
      BY <1>2 DEF InvokeRefused, stateVars, connVars
    <2>4. InQueue' = InQueue
      BY <2>3 DEF InQueue
    <2>5. CallerAccounted'
      BY <2>2, <2>3, <2>4 DEF IInv, CallerAccounted
    <2>6. QED
      BY <2>3, <2>5
         DEF IInv, SlotAccounting, NoIdleSlot, TimersOwnSlots, NothingHeldWhileDown
  <1>3. CASE InvokeDispatched(c)
    <2>1. /\ inflight < MaxConcurrent /\ connected /\ connected' = connected
          /\ inflight' = inflight + 1
          /\ pendingInvokes' = pendingInvokes \cup {c}
          /\ timers' = timers \cup {c} /\ queue' = queue /\ queued' = queued
          /\ outcome' = [outcome EXCEPT ![c] = Waiting]
      BY <1>3 DEF InvokeDispatched, Refusal, connVars
    <2>2. queue = <<>>
      BY <1>1, <2>1, LimitsAssumption DEF IInv, NoIdleSlot
    <2>3. IsFiniteSet(pendingInvokes') /\ Cardinality(pendingInvokes') = inflight'
      BY <1>1, <2>1, FS_AddElement DEF IInv, SlotAccounting
    <2>4. SlotAccounting'
      BY <1>1, <2>1, <2>3, LimitsAssumption DEF IInv, SlotAccounting
    <2>5. InQueue' = InQueue
      BY <2>1 DEF InQueue
    <2>6. {d \in Calls : outcome'[d] = Waiting}
            = {d \in Calls : outcome[d] = Waiting} \cup {c}
      BY <1>1, <2>1 DEF Waiting
    <2>7. CallerAccounted'
      <3>1. {d \in Calls : outcome'[d] = Waiting} = pendingInvokes' \cup InQueue'
        BY <1>1, <2>1, <2>5, <2>6
      <3>2. pendingInvokes' \cap InQueue' = {}
        BY <1>1, <2>1, <2>5 DEF IInv, CallerAccounted
      <3>3. QED
        BY <3>1, <3>2, <2>1 DEF IInv, CallerAccounted
    <2>8. QED
      BY <2>1, <2>2, <2>3, <2>4, <2>7
         DEF IInv, NoIdleSlot, TimersOwnSlots, NothingHeldWhileDown
  <1>4. CASE InvokeQueued(c)
    <2>1. /\ inflight >= MaxConcurrent /\ connected /\ connected' = connected
          /\ UNCHANGED <<inflight, pendingInvokes, timers, stateSlot>>
          /\ queued' = queued + 1 /\ queue' = Append(queue, c)
          /\ outcome' = [outcome EXCEPT ![c] = Waiting]
      BY <1>4 DEF InvokeQueued, Refusal, connVars, stateVars
    <2>2. queued < MaxQueueDepth
      BY <1>4, <2>1, LimitsAssumption DEF InvokeQueued, Refusal, IInv, Shape
    <2>3. Len(queue') = Len(queue) + 1 /\ Len(queue) \in Nat
      BY <1>1, <2>1, AppendProperties, LenProperties
    <2>4. SlotAccounting'
      BY <2>1, <2>2, <2>3, LimitsAssumption DEF IInv, SlotAccounting
    <2>5. InQueue' = InQueue \cup {c} /\ Distinct(queue')
      BY <1>1, <2>1, AppendElements, QueueElements
    <2>6. {d \in Calls : outcome'[d] = Waiting}
            = {d \in Calls : outcome[d] = Waiting} \cup {c}
      BY <1>1, <2>1 DEF Waiting
    <2>7. CallerAccounted'
      <3>1. {d \in Calls : outcome'[d] = Waiting} = pendingInvokes' \cup InQueue'
        BY <1>1, <2>1, <2>5, <2>6
      <3>2. pendingInvokes' \cap InQueue' = {}
        BY <1>1, <2>1, <2>5 DEF IInv, CallerAccounted
      <3>3. QED
        BY <3>1, <3>2, <2>5 DEF CallerAccounted, Distinct
    <2>8. NoIdleSlot' /\ TimersOwnSlots' /\ NothingHeldWhileDown'
      BY <2>1 DEF IInv, NoIdleSlot, TimersOwnSlots, NothingHeldWhileDown
    <2>9. QED
      BY <2>1, <2>4, <2>7, <2>8 DEF IInv
  <1>5. QED
    BY <1>2, <1>3, <1>4 DEF Invoke

LEMMA InvInit == Init => IInv
  <1> SUFFICES ASSUME Init, Shape PROVE IInv
    BY TypeInit
  <1>1. IsFiniteSet(pendingInvokes) /\ Cardinality(pendingInvokes) = 0
    BY FS_EmptySet DEF Init
  <1>2. SlotAccounting
    BY <1>1, EmptySeq, LimitsAssumption DEF Init, SlotAccounting
  <1>3. InQueue = {} /\ DOMAIN queue = {}
    BY DEF Init, InQueue
  <1>4. {c \in Calls : outcome[c] = Waiting} = {}
    BY DEF Init, Waiting
  <1>5. CallerAccounted
    BY <1>3, <1>4 DEF Init, CallerAccounted
  <1>6. QED
    BY <1>1, <1>2, <1>5
       DEF Init, IInv, NoIdleSlot, TimersOwnSlots, NothingHeldWhileDown

LEMMA InvNext == IInv /\ [Next]_vars => IInv'
  <1> SUFFICES ASSUME IInv, Shape', [Next]_vars PROVE IInv'
    BY ShapeNext DEF IInv
  <1>1. ASSUME NEW c \in Calls, Invoke(c) PROVE IInv'
    BY <1>1, InvokeInv
  <1>2. ASSUME NEW c \in Calls, TimerFires(c) PROVE IInv'
    <2>1. c \in pendingInvokes /\ <<CancelFrame(c)>> \in Seq(Frames)
          /\ "timeout" \in Outcomes \ {"idle", Waiting}
      BY <1>2, CallFrameTypes
         DEF TimerFires, IInv, TimersOwnSlots, Outcomes, Rejected, Waiting
    <2>2. QED
      BY <1>2, <2>1, FreeSlotInv DEF TimerFires
  <1>3. CASE UNCHANGED vars
    BY <1>3, TablesUnchanged DEF vars, connVars, stateVars
  <1>4. ASSUME NEW c \in Calls, OnResult(c) PROVE IInv'
    <2>1. <<>> \in Seq(Frames) /\ "result" \in Outcomes \ {"idle", Waiting}
      BY EmptySeq DEF Outcomes, Waiting
    <2>2. QED
      BY <1>3, <1>4, <2>1, FreeSlotInv DEF OnResult
  <1>5. ASSUME NEW c \in Calls, NEW late \in BOOLEAN, OnCancelled(c, late)
        PROVE IInv'
    <2>1. <<>> \in Seq(Frames) /\ "cancelled" \in Outcomes \ {"idle", Waiting}
      BY EmptySeq DEF Outcomes, Rejected, Waiting
    <2>2. QED
      BY <1>3, <1>5, <2>1, FreeSlotInv DEF OnCancelled
  <1>6. ASSUME NEW c \in Calls, Cancel(c) PROVE IInv'
    BY <1>6, TablesUnchanged DEF Cancel, connVars, stateVars
  <1>7. ASSUME NEW r \in StateReqs, RequestState(r) PROVE IInv'
    BY <1>7, TablesUnchanged DEF RequestState, connVars
  <1>8. ASSUME NEW r \in StateReqs, StateTimerFires(r) PROVE IInv'
    BY <1>8, TablesUnchanged DEF StateTimerFires, connVars
  <1>9. ASSUME connected, OnStateSnapshot PROVE IInv'
    BY <1>9, TablesUnchanged DEF OnStateSnapshot, connVars
  <1>10. CASE Evict
    BY <1>10, RejectInv DEF Evict, Outcomes, Rejected, Waiting
  <1>11. CASE HandleDisconnect
    BY <1>11, RejectInv DEF HandleDisconnect, Outcomes, Rejected, Waiting
  <1>12. CASE CloseServer
    BY <1>12, RejectInv DEF CloseServer, Outcomes, Rejected, Waiting
  <1>13. CASE Connect \/ SocketCloses \/ GraceExpires \/ BridgeReads
    BY <1>13, TablesUnchanged
       DEF Connect, SocketCloses, GraceExpires, BridgeReads, connVars, stateVars
  <1>14. QED
    BY <1>1, <1>2, <1>3, <1>4, <1>5, <1>6, <1>7, <1>8, <1>9, <1>10, <1>11,
       <1>12, <1>13 DEF Next

\* The invariant holds of every behaviour.
THEOREM Invariance == Spec => []IInv
  BY InvInit, InvNext, PTL DEF Spec

\* Every variable keeps its type; no handler of bridge-dispatch.ts takes a
\* counter below zero.
THEOREM TypeCorrect == Spec => []TypeOK
  <1>1. IInv => TypeOK
    <2> SUFFICES ASSUME IInv PROVE TypeOK
      OBVIOUS
    <2>1. inflight \in Nat
      BY FS_CardinalityType DEF IInv, SlotAccounting
    <2>2. queued \in Nat
      BY LenProperties DEF IInv, SlotAccounting, Shape
    <2>3. QED
      BY <2>1, <2>2 DEF IInv, Shape, TypeOK
  <1>2. QED
    BY <1>1, Invariance, PTL

\* The counters that limit concurrency agree with the tables they count, and
\* keep to their limits (CONC-01 to CONC-04): invoke, dequeueAndDispatch and
\* the three handlers that free a slot.
THEOREM SlotAccountingHolds == Spec => []SlotAccounting
  BY Invariance, PTL DEF IInv

\* No slot idles while an invocation waits (CONC-05).
THEOREM NoIdleSlotHolds == Spec => []NoIdleSlot
  BY Invariance, PTL DEF IInv

\* No armed timer outlives the invocation it belongs to.
THEOREM TimersOwnSlotsHolds == Spec => []TimersOwnSlots
  BY Invariance, PTL DEF IInv

\* Every waiting caller is in exactly one table, once.
THEOREM CallerAccountedHolds == Spec => []CallerAccounted
  BY Invariance, PTL DEF IInv

\* A Hub without a Bridge holds no invocation and no state request.
THEOREM NothingHeldWhileDownHolds == Spec => []NothingHeldWhileDown
  BY Invariance, PTL DEF IInv

-----------------------------------------------------------------------------
(* One answer per caller.                                                  *)

Settled == {c \in Calls : outcome[c] \notin {"idle", Waiting}}

\* A handler that frees a slot settles the caller it belongs to, and nobody
\* else; that caller was still waiting.
LEMMA FreeSlotSettles ==
  ASSUME IInv, NEW c \in pendingInvokes, NEW trailing,
         NEW res \in Outcomes \ {"idle", Waiting}, FreeSlot(c, trailing, res)
  PROVE  /\ Settled' = Settled \cup {c}
         /\ \A d \in Settled : outcome'[d] = outcome[d]
  <1>1. outcome' = [outcome EXCEPT ![c] = res] /\ outcome \in [Calls -> Outcomes]
        /\ c \in Calls /\ outcome[c] = Waiting
    BY DEF FreeSlot, IInv, Shape, CallerAccounted
  <1>2. QED
    BY <1>1 DEF Settled

\* Rejecting everything settles exactly those who wait.
LEMMA RejectSettles ==
  ASSUME IInv, NEW err \in Outcomes \ {"idle", Waiting}, RejectAllPending(err)
  PROVE  /\ Settled' = Settled \cup pendingInvokes \cup InQueue
         /\ \A d \in Settled : outcome'[d] = outcome[d]
  <1>1. outcome' = [c \in Calls |-> IF c \in pendingInvokes \cup InQueue
                                      THEN err ELSE outcome[c]]
    BY DEF RejectAllPending
  <1>2. \A c \in Calls : outcome[c] = Waiting <=> c \in pendingInvokes \cup InQueue
    BY DEF IInv, CallerAccounted
  <1>3. pendingInvokes \cup InQueue \subseteq Calls
    BY DEF IInv, CallerAccounted
  <1>4. QED
    BY <1>1, <1>2, <1>3 DEF Settled

\* The steps that settle nobody.
LEMMA NobodySettles ==
  ASSUME UNCHANGED callVars
  PROVE  Settled' = Settled /\ \A d \in Settled : outcome'[d] = outcome[d]
  BY DEF callVars, Settled

\* A settled caller keeps its answer, whatever races with what: the late
\* result, the timer, the cancellation, the disconnect.
THEOREM SettleOnceHolds == Spec => SettleOnce
  <1>1. IInv /\ [Next]_vars => \A d \in Settled : outcome'[d] = outcome[d]
    <2> SUFFICES ASSUME IInv, [Next]_vars
                 PROVE \A d \in Settled : outcome'[d] = outcome[d]
      OBVIOUS
    <2>0. {"result", "timeout", "cancelled", "disconnected", "closed"}
            \subseteq Outcomes \ {"idle", Waiting}
      BY DEF Outcomes, Rejected, Waiting
    <2>1. ASSUME NEW c \in Calls, Invoke(c)
          PROVE \A d \in Settled : outcome'[d] = outcome[d]
      <3>1. outcome[c] = "idle" /\ \E o : outcome' = [outcome EXCEPT ![c] = o]
        BY <2>1 DEF Invoke, InvokeRefused, InvokeDispatched, InvokeQueued
      <3>2. QED
        BY <3>1 DEF Settled, IInv, Shape
    <2>2. ASSUME NEW c \in Calls, TimerFires(c)
          PROVE \A d \in Settled : outcome'[d] = outcome[d]
      BY <2>0, <2>2, FreeSlotSettles DEF TimerFires, IInv, TimersOwnSlots
    <2>3. CASE UNCHANGED vars
      BY <2>3, NobodySettles DEF vars
    <2>4. ASSUME NEW c \in Calls, OnResult(c)
          PROVE \A d \in Settled : outcome'[d] = outcome[d]
      BY <2>0, <2>3, <2>4, FreeSlotSettles DEF OnResult
    <2>5. ASSUME NEW c \in Calls, NEW late \in BOOLEAN, OnCancelled(c, late)
          PROVE \A d \in Settled : outcome'[d] = outcome[d]
      BY <2>0, <2>3, <2>5, FreeSlotSettles DEF OnCancelled
    <2>6. CASE Evict \/ HandleDisconnect \/ CloseServer
      BY <2>0, <2>6, RejectSettles DEF Evict, HandleDisconnect, CloseServer
    <2>7. ASSUME UNCHANGED callVars
          PROVE \A d \in Settled : outcome'[d] = outcome[d]
      BY <2>7, NobodySettles
    <2>8. QED
      BY <2>1, <2>2, <2>3, <2>4, <2>5, <2>6, <2>7
         DEF Next, Cancel, RequestState, StateTimerFires, OnStateSnapshot,
             Connect, SocketCloses, GraceExpires, BridgeReads
  <1>2. (\A d \in Settled : outcome'[d] = outcome[d])
          => \A c \in Calls : outcome[c] \notin {"idle", Waiting} =>
               outcome'[c] = outcome[c]
    BY DEF Settled
  <1>3. QED
    BY <1>1, <1>2, Invariance, PTL DEF Spec, SettleOnce

-----------------------------------------------------------------------------
(* The dispatcher implements the abstract service.                         *)

\* The abstract views of the dispatcher's state.
LEMMA ServiceViews ==
  ASSUME IInv
  PROVE  /\ Service!Full <=> inflight >= MaxConcurrent
         /\ Service!InLine = InQueue
         /\ \A c \in Calls : outcome[c] = "idle" => Service!Fresh(c)
  <1>1. Service!Full <=> inflight >= MaxConcurrent
    <2>1. inflight = Cardinality(pendingInvokes)
      BY DEF IInv, SlotAccounting
    <2>2. Service!Cardinality(pendingInvokes) = Cardinality(pendingInvokes)
      BY DEF Service!Cardinality, Cardinality
    <2>3. QED
      BY <2>1, <2>2 DEF Service!Full
  <1>2. Service!InLine = InQueue
    BY DEF Service!InLine, InQueue
  <1>3. \A c \in Calls : outcome[c] = "idle" => Service!Fresh(c)
    BY <1>2 DEF Service!Fresh, IInv, CallerAccounted, Waiting
  <1>4. QED
    BY <1>1, <1>2, <1>3

\* Freeing a slot is the abstract Finish.
LEMMA FreeSlotFinishes ==
  ASSUME IInv, NEW c \in pendingInvokes, NEW trailing,
         NEW res \in Outcomes \ {"idle", Waiting}, FreeSlot(c, trailing, res)
  PROVE  Service!Finish(c)
  <1>1. Settled' = Settled \cup {c}
    BY FreeSlotSettles
  <1>2. inflight \in Int /\ inflight <= MaxConcurrent
        /\ DequeueAndDispatch(inflight - 1, pendingInvokes \ {c}, timers \ {c}, trailing)
    BY DEF IInv, Shape, SlotAccounting, FreeSlot
  <1>3. CASE queue = <<>>
    BY <1>1, <1>2, <1>3 DEF DequeueAndDispatch, Service!Finish, Settled
  <1>4. CASE queue # <<>>
    <2>1. pendingInvokes' = (pendingInvokes \ {c}) \cup {Head(queue)}
          /\ queue' = Tail(queue)
      BY <1>2, <1>4, LimitsAssumption DEF DequeueAndDispatch
    <2>2. QED
      BY <1>1, <1>4, <2>1 DEF Service!Finish, Settled
  <1>5. QED
    BY <1>3, <1>4

\* Rejecting everything is the abstract Abort.
LEMMA RejectAborts ==
  ASSUME IInv, NEW err \in Outcomes \ {"idle", Waiting}, RejectAllPending(err)
  PROVE  Service!Abort
  BY RejectSettles, ServiceViews DEF RejectAllPending, Service!Abort, Settled

\* invoke is Refuse, Start or Queue.
LEMMA InvokeServes ==
  ASSUME IInv, NEW c \in Calls, Invoke(c)
  PROVE  Service!Refuse(c) \/ Service!Start(c) \/ Service!Queue(c)
  <1>1. outcome[c] = "idle" /\ Service!Fresh(c) /\ outcome \in [Calls -> Outcomes]
        /\ inflight \in Int /\ queued = Len(queue)
        /\ (Service!Full <=> inflight >= MaxConcurrent)
    BY ServiceViews
       DEF Invoke, InvokeRefused, InvokeDispatched, InvokeQueued, IInv, Shape,
           SlotAccounting
  <1>2. CASE InvokeRefused(c)
    <2>1. Refusal \notin {"idle", Waiting} /\ outcome' = [outcome EXCEPT ![c] = Refusal]
          /\ UNCHANGED <<pendingInvokes, queue>>
      BY <1>2 DEF InvokeRefused, Refusal, Waiting
    <2>2. Settled' = Settled \cup {c}
      BY <1>1, <2>1 DEF Settled
    <2>3. \/ inflight >= MaxConcurrent /\ queued >= MaxQueueDepth
          \/ ~connected
      BY <1>2 DEF InvokeRefused, Refusal
    <2>4. \/ Service!Full /\ Len(queue) >= MaxQueueDepth
          \/ pendingInvokes = {} /\ queue = <<>>
      BY <1>1, <2>3 DEF IInv, NothingHeldWhileDown
    <2>5. QED
      BY <1>1, <2>1, <2>2, <2>4 DEF Service!Refuse, Settled
  <1>3. CASE InvokeDispatched(c)
    <2>1. inflight < MaxConcurrent /\ pendingInvokes' = pendingInvokes \cup {c}
          /\ queue' = queue /\ outcome' = [outcome EXCEPT ![c] = Waiting]
      BY <1>3 DEF InvokeDispatched
    <2>2. queue = <<>> /\ ~Service!Full
      BY <1>1, <2>1, LimitsAssumption DEF IInv, NoIdleSlot
    <2>3. Settled' = Settled
      BY <1>1, <2>1 DEF Settled
    <2>4. QED
      BY <1>1, <2>1, <2>2, <2>3 DEF Service!Start, Settled
  <1>4. CASE InvokeQueued(c)
    <2>1. inflight >= MaxConcurrent /\ pendingInvokes' = pendingInvokes
          /\ queue' = Append(queue, c) /\ outcome' = [outcome EXCEPT ![c] = Waiting]
      BY <1>4 DEF InvokeQueued
    <2>2. Len(queue) < MaxQueueDepth
      BY <1>1, <1>4, <2>1, LimitsAssumption DEF InvokeQueued, Refusal, IInv, Shape
    <2>3. Settled' = Settled
      BY <1>1, <2>1 DEF Settled
    <2>4. QED
      BY <1>1, <2>1, <2>2, <2>3 DEF Service!Queue, Settled
  <1>5. QED
    BY <1>2, <1>3, <1>4 DEF Invoke

\* BridgeDispatch implements InvocationService: bounded, first come first
\* served, never idle while somebody waits, refusing only when it must.
THEOREM Implementation == Spec => ImplementsService
  <1>1. Init => Service!Init
    BY DEF Init, Service!Init
  <1>2. IInv /\ [Next]_vars => [Service!Next]_(Service!svcVars)
    <2> SUFFICES ASSUME IInv, [Next]_vars
                 PROVE [Service!Next]_(Service!svcVars)
      OBVIOUS
    <2>0. {"result", "timeout", "cancelled", "disconnected", "closed"}
            \subseteq Outcomes \ {"idle", Waiting}
      BY DEF Outcomes, Rejected, Waiting
    <2>a. pendingInvokes \subseteq Calls
      BY DEF IInv, Shape
    <2>1. ASSUME NEW c \in Calls, Invoke(c) PROVE Service!Next
      BY <2>1, InvokeServes DEF Service!Next
    <2>2. ASSUME NEW c \in Calls, TimerFires(c) PROVE Service!Next
      BY <2>0, <2>2, FreeSlotFinishes
         DEF TimerFires, IInv, TimersOwnSlots, Service!Next
    <2>3. ASSUME UNCHANGED callVars PROVE UNCHANGED Service!svcVars
      BY <2>3 DEF callVars, Service!svcVars
    <2>4. ASSUME NEW c \in Calls, OnResult(c)
          PROVE Service!Next \/ UNCHANGED Service!svcVars
      BY <2>0, <2>3, <2>4, FreeSlotFinishes DEF OnResult, vars, Service!Next
    <2>5. ASSUME NEW c \in Calls, NEW late \in BOOLEAN, OnCancelled(c, late)
          PROVE Service!Next \/ UNCHANGED Service!svcVars
      BY <2>0, <2>3, <2>5, FreeSlotFinishes DEF OnCancelled, vars, Service!Next
    <2>6. CASE Evict \/ HandleDisconnect \/ CloseServer
      BY <2>0, <2>6, RejectAborts DEF Evict, HandleDisconnect, CloseServer, Service!Next
    <2>7. CASE UNCHANGED vars
      BY <2>3, <2>7 DEF vars
    <2>8. QED
      BY <2>1, <2>2, <2>3, <2>4, <2>5, <2>6, <2>7
         DEF Next, Cancel, RequestState, StateTimerFires, OnStateSnapshot,
             Connect, SocketCloses, GraceExpires, BridgeReads
  <1>3. QED
    BY <1>1, <1>2, Invariance, PTL DEF Spec, ImplementsService, Service!Spec
-----------------------------------------------------------------------------
(* First come, first served.                                               *)

Extends(t, s) == Len(t) >= Len(s) /\ SubSeq(t, 1, Len(s)) = s

\* A queue that stays, or to which one invocation is appended, keeps its front.
LEMMA QueueExtends ==
  ASSUME NEW S, NEW s \in Seq(S), NEW e \in S
  PROVE  Extends(s, s) /\ Extends(Append(s, e), s)
  <1>1. /\ Append(s, e) \in Seq(S) /\ Len(Append(s, e)) = Len(s) + 1
        /\ \A i \in 1 .. Len(s) : Append(s, e)[i] = s[i]
        /\ Len(s) \in Nat
    BY AppendProperties, LenProperties
  <1>2. ASSUME NEW t \in Seq(S), Len(t) >= Len(s), \A i \in 1 .. Len(s) : t[i] = s[i]
        PROVE  SubSeq(t, 1, Len(s)) = s
    <2>1. \A i \in 1 .. Len(s) : i \in 1 .. Len(t)
      BY <1>1, <1>2, LenProperties
    <2>2. /\ SubSeq(t, 1, Len(s)) \in Seq(S)
          /\ Len(SubSeq(t, 1, Len(s))) = Len(s)
          /\ \A i \in 1 .. Len(s) : SubSeq(t, 1, Len(s))[i] = t[i]
      BY <1>1, <1>2, LenProperties, SubSeqProperties
    <2>3. QED
      BY <1>2, <2>2, SeqEqual
  <1>3. QED
    BY <1>1, <1>2 DEF Extends

\* The three things a step may do to a queue that is not empty.
FifoStep ==
  \/ Extends(queue', queue)
  \/ Len(queue') = Len(queue) - 1 /\ queue' = Tail(queue)
       /\ Head(queue) \in pendingInvokes'
  \/ queue' = <<>> /\ \A c \in InQueue : outcome'[c] \in Rejected

\* A freed slot goes to the head of the queue.
LEMMA FreeSlotFifo ==
  ASSUME IInv, queue # <<>>, NEW c \in pendingInvokes, NEW trailing, NEW res,
         FreeSlot(c, trailing, res)
  PROVE  FifoStep
  <1>1. inflight \in Int /\ inflight <= MaxConcurrent /\ queue \in Seq(Calls)
        /\ DequeueAndDispatch(inflight - 1, pendingInvokes \ {c}, timers \ {c}, trailing)
    BY DEF IInv, Shape, SlotAccounting, FreeSlot
  <1>2. queue' = Tail(queue) /\ Head(queue) \in pendingInvokes'
    BY <1>1, LimitsAssumption DEF DequeueAndDispatch
  <1>3. QED
    BY <1>1, <1>2, HeadTailProperties DEF FifoStep

\* CONC-03: nobody leaves the queue out of turn, except with everybody else and
\* with an error.
THEOREM FifoStartHolds == Spec => FifoStart
  <1>1. IInv /\ [Next]_vars => (queue # <<>> => FifoStep)
    <2> SUFFICES ASSUME IInv, [Next]_vars, queue # <<>>
                 PROVE  FifoStep
      OBVIOUS
    <2>0. queue \in Seq(Calls)
      BY DEF IInv, Shape
    <2>1. ASSUME queue' = queue
          PROVE  FifoStep
      <3>1. Head(queue) \in Calls
        BY <2>0, HeadTailProperties
      <3>2. QED
        BY <2>0, <2>1, <3>1, QueueExtends DEF FifoStep
    <2>2. ASSUME NEW c \in Calls, Invoke(c) PROVE FifoStep
      <3>1. queue' = queue \/ queue' = Append(queue, c)
        BY <2>2 DEF Invoke, InvokeRefused, InvokeDispatched, InvokeQueued
      <3>2. QED
        BY <2>0, <2>1, <3>1, QueueExtends DEF FifoStep
    <2>3. ASSUME NEW c \in Calls, TimerFires(c) PROVE FifoStep
      BY <2>3, FreeSlotFifo DEF TimerFires, IInv, TimersOwnSlots
    <2>4. ASSUME NEW c \in Calls, OnResult(c) PROVE FifoStep
      BY <2>1, <2>4, FreeSlotFifo DEF OnResult, vars, callVars
    <2>5. ASSUME NEW c \in Calls, NEW late \in BOOLEAN, OnCancelled(c, late)
          PROVE  FifoStep
      BY <2>1, <2>5, FreeSlotFifo DEF OnCancelled, vars, callVars
    <2>6. ASSUME NEW err \in Rejected, RejectAllPending(err) PROVE FifoStep
      <3>1. InQueue \subseteq Calls
        BY DEF IInv, CallerAccounted
      <3>2. QED
        BY <2>6, <3>1 DEF RejectAllPending, FifoStep
    <2>7. CASE Evict \/ HandleDisconnect \/ CloseServer
      BY <2>6, <2>7 DEF Evict, HandleDisconnect, CloseServer, Rejected
    <2>8. ASSUME UNCHANGED callVars PROVE FifoStep
      BY <2>1, <2>8 DEF callVars
    <2>9. QED
      BY <2>2, <2>3, <2>4, <2>5, <2>7, <2>8
         DEF Next, Cancel, RequestState, StateTimerFires, OnStateSnapshot,
             Connect, SocketCloses, GraceExpires, BridgeReads, vars
  <1>2. QED
    BY <1>1, Invariance, PTL DEF Spec, FifoStart, FifoStep, Extends

-----------------------------------------------------------------------------
(* Cancels and invocations on the wire.                                    *)

\* What the frames on their way say: each names an invocation that was sent, and no
\* invocation is behind its own cancel.
Carries(frames, S) ==
  \A i \in DOMAIN frames :
    /\ frames[i].type \in {"invoke", "cancel"} => frames[i].id \in S
    /\ frames[i].type = "cancel" =>
         \A j \in DOMAIN frames : frames[j] = InvokeFrame(frames[i].id) => j < i

\* While the socket is open the holders of slots have been sent on it, and what was
\* sent on it is neither waiting nor still to be made: nothing is sent twice.
WireInv ==
  /\ wsOpen => connected /\ pendingInvokes \subseteq sent
  /\ \A c \in sent : outcome[c] # "idle" /\ c \notin InQueue
  /\ Carries(toBridge, sent)

\* One more frame: an invocation for the first time, or a cancel of one that was sent.
LEMMA CarriesAppend ==
  ASSUME NEW s \in Seq(Frames), NEW S, Carries(s, S), NEW f \in Frames,
         f.type = "invoke" => f.id \notin S,
         f.type = "cancel" => f.id \in S
  PROVE  Carries(Append(s, f), S \cup {c \in Calls : f = InvokeFrame(c)})
  <1> DEFINE t == Append(s, f)
             T == S \cup {c \in Calls : f = InvokeFrame(c)}
  <1>1. /\ t \in Seq(Frames) /\ Len(t) = Len(s) + 1 /\ Len(s) \in Nat
        /\ \A i \in 1 .. Len(s) : t[i] = s[i]
        /\ t[Len(s) + 1] = f
        /\ DOMAIN s = 1 .. Len(s) /\ DOMAIN t = 1 .. Len(s) + 1
    BY AppendProperties, LenProperties
  <1>2. f.type = "invoke" => f.id \in Calls /\ f = InvokeFrame(f.id)
    BY DEF Frames, InvokeFrame
  <1>3. \A c : InvokeFrame(c).type = "invoke" /\ InvokeFrame(c).id = c
    BY DEF InvokeFrame
  <1> HIDE DEF t
  <1> SUFFICES ASSUME NEW i \in DOMAIN t
               PROVE  /\ t[i].type \in {"invoke", "cancel"} => t[i].id \in T
                      /\ t[i].type = "cancel" =>
                           \A j \in DOMAIN t : t[j] = InvokeFrame(t[i].id) => j < i
    BY DEF Carries, t
  <1>4. CASE i = Len(s) + 1
    <2>1. t[i] = f
      BY <1>1, <1>4
    <2>2. f.type \in {"invoke", "cancel"} => f.id \in T
      BY <1>2
    <2>3. ASSUME f.type = "cancel", NEW j \in DOMAIN t, t[j] = InvokeFrame(f.id)
          PROVE  j < i
      <3>1. j # Len(s) + 1
        BY <1>1, <1>3, <2>3
      <3> QED
        BY <1>1, <1>4, <3>1
    <2> QED
      BY <2>1, <2>2, <2>3
  <1>5. CASE i # Len(s) + 1
    <2>1. i \in DOMAIN s /\ t[i] = s[i]
      BY <1>1, <1>5
    <2>2. s[i].type \in {"invoke", "cancel"} => s[i].id \in S
      BY <2>1 DEF Carries
    <2>3. ASSUME s[i].type = "cancel", NEW j \in DOMAIN t, t[j] = InvokeFrame(s[i].id)
          PROVE  j < i
      <3>1. CASE j = Len(s) + 1
        <4>1. f.type = "invoke" /\ f.id = s[i].id
          BY <1>1, <1>3, <2>3, <3>1
        <4> QED
          BY <2>2, <2>3, <4>1
      <3>2. CASE j # Len(s) + 1
        <4>1. j \in DOMAIN s /\ s[j] = InvokeFrame(s[i].id)
          BY <1>1, <2>3, <3>2
        <4> QED
          BY <2>1, <2>3, <4>1 DEF Carries
      <3> QED
        BY <3>1, <3>2
    <2> QED
      BY <2>1, <2>2, <2>3
  <1> QED
    BY <1>4, <1>5

\* Without its first frame the wire carries the rest.
LEMMA CarriesTail ==
  ASSUME NEW s \in Seq(Frames), s # <<>>, NEW S, Carries(s, S)
  PROVE  Carries(Tail(s), S)
  <1>1. /\ Tail(s) \in Seq(Frames) /\ Len(Tail(s)) = Len(s) - 1 /\ Len(s) \in Nat \ {0}
        /\ \A i \in 1 .. Len(Tail(s)) : Tail(s)[i] = s[i + 1]
        /\ DOMAIN s = 1 .. Len(s)
    BY HeadTailProperties, EmptySeq, LenProperties
  <1>2. DOMAIN Tail(s) = 1 .. Len(s) - 1
    BY <1>1, LenProperties
  <1>3. \A i \in DOMAIN Tail(s) : i \in Nat /\ i + 1 \in DOMAIN s /\ Tail(s)[i] = s[i + 1]
    BY <1>1, <1>2
  <1> QED
    BY <1>3 DEF Carries

\* send of no frame, of one and of two: what is dropped changes nothing.
LEMMA SendNone ==
  ASSUME Shape, Send(<<>>)
  PROVE  toBridge' = toBridge /\ sent' = sent
  <1>1. toBridge \o <<>> = toBridge
    BY ConcatEmptySeq DEF Shape
  <1>2. sent \cup {c \in Calls : \E i \in DOMAIN <<>> : <<>>[i] = InvokeFrame(c)} = sent
    OBVIOUS
  <1> QED
    BY <1>1, <1>2 DEF Send

LEMMA SendOne ==
  ASSUME Shape, NEW f \in Frames, Send(<<f>>), wsOpen
  PROVE  /\ toBridge' = Append(toBridge, f)
         /\ sent' = sent \cup {c \in Calls : f = InvokeFrame(c)}
  <1>1. toBridge \o <<f>> = Append(toBridge, f)
    BY AppendIsConcat DEF Shape
  <1>2. DOMAIN <<f>> = {1} /\ <<f>>[1] = f
    OBVIOUS
  <1> QED
    BY <1>1, <1>2 DEF Send

LEMMA SendTwo ==
  ASSUME Shape, NEW f \in Frames, NEW g \in Frames, Send(<<f>> \o <<g>>), wsOpen
  PROVE  /\ toBridge' = Append(Append(toBridge, f), g)
         /\ sent' = (sent \cup {c \in Calls : f = InvokeFrame(c)})
                      \cup {c \in Calls : g = InvokeFrame(c)}
  <1> DEFINE both == <<f>> \o <<g>>
  <1>1. <<f>> \in Seq(Frames) /\ <<g>> \in Seq(Frames)
    OBVIOUS
  <1>2. toBridge \o both = Append(Append(toBridge, f), g)
    <2>1. toBridge \o <<f>> = Append(toBridge, f) /\ Append(toBridge, f) \in Seq(Frames)
      BY AppendIsConcat, AppendProperties DEF Shape
    <2>2. Append(toBridge, f) \o <<g>> = Append(Append(toBridge, f), g)
      BY <2>1, AppendIsConcat
    <2>3. (toBridge \o <<f>>) \o <<g>> = toBridge \o (<<f>> \o <<g>>)
      BY <1>1, ConcatAssociative DEF Shape
    <2> QED
      BY <2>1, <2>2, <2>3
  <1>3. both = Append(<<f>>, g)
    BY <1>1, AppendIsConcat
  <1>4. Len(<<f>>) = 1 /\ <<f>>[1] = f
    OBVIOUS
  <1>5. /\ Append(<<f>>, g) \in Seq(Frames) /\ Len(Append(<<f>>, g)) = 2
        /\ Append(<<f>>, g)[1] = f /\ Append(<<f>>, g)[2] = g
    BY <1>1, <1>4, AppendProperties
  <1>6. DOMAIN both = {1, 2} /\ both[1] = f /\ both[2] = g
    <2>1. DOMAIN Append(<<f>>, g) = 1 .. 2
      BY <1>5, LenProperties
    <2> HIDE DEF both
    <2> QED
      BY <1>3, <1>5, <2>1
  <1>7. sent' = sent \cup {c \in Calls : \E i \in DOMAIN both : both[i] = InvokeFrame(c)}
        /\ toBridge' = toBridge \o both
    BY DEF Send
  <1>8. {c \in Calls : \E i \in DOMAIN both : both[i] = InvokeFrame(c)}
          = {c \in Calls : f = InvokeFrame(c)} \cup {c \in Calls : g = InvokeFrame(c)}
    <2> HIDE DEF both
    <2> QED
      BY <1>6
  <1> QED
    BY <1>2, <1>7, <1>8

\* What giving a slot back sends: the invocation that takes it over, then the cancel.
LEMMA FreeSlotSends ==
  ASSUME IInv, NEW c \in pendingInvokes, NEW trailing, NEW res, FreeSlot(c, trailing, res)
  PROVE  \/ /\ queue # <<>> /\ Head(queue) \in InQueue
            /\ pendingInvokes' = (pendingInvokes \ {c}) \cup {Head(queue)}
            /\ InQueue' = InQueue \ {Head(queue)}
            /\ Send(<<InvokeFrame(Head(queue))>> \o trailing)
         \/ /\ pendingInvokes' = pendingInvokes \ {c} /\ InQueue' = InQueue
            /\ Send(trailing)
  <1>1. DequeueAndDispatch(inflight - 1, pendingInvokes \ {c}, timers \ {c}, trailing)
    BY DEF FreeSlot
  <1>2. queue \in Seq(Calls) /\ Distinct(queue)
    BY DEF IInv, Shape, CallerAccounted, Distinct
  <1>3. CASE queue # <<>> /\ inflight - 1 < MaxConcurrent
    <2>1. /\ pendingInvokes' = (pendingInvokes \ {c}) \cup {Head(queue)}
          /\ queue' = Tail(queue) /\ Send(<<InvokeFrame(Head(queue))>> \o trailing)
      BY <1>1, <1>3, LimitsAssumption DEF DequeueAndDispatch, IInv, Shape
    <2> QED
      BY <1>2, <1>3, <2>1, TailElements, QueueElements
  <1>4. CASE ~(queue # <<>> /\ inflight - 1 < MaxConcurrent)
    <2>1. pendingInvokes' = pendingInvokes \ {c} /\ queue' = queue /\ Send(trailing)
      BY <1>1, <1>4, LimitsAssumption DEF DequeueAndDispatch, IInv, Shape
    <2> QED
      BY <2>1, QueueElements
  <1> QED
    BY <1>3, <1>4

\* A result, a cancellation and a timeout keep the wire in order: the caller whose
\* slot is given back was sent, the one that takes it over was not.
LEMMA FreeSlotWire ==
  ASSUME IInv, WireInv, NEW c \in pendingInvokes, NEW res \in Outcomes \ {"idle", Waiting},
         FreeSlot(c, <<>>, res) \/ FreeSlot(c, <<CancelFrame(c)>>, res)
  PROVE  WireInv'
  <1> DEFINE next == Head(queue)
  <1>1. /\ outcome' = [outcome EXCEPT ![c] = res] /\ UNCHANGED <<wsOpen, connected>>
        /\ outcome \in [Calls -> Outcomes] /\ c \in Calls /\ res # "idle"
        /\ toBridge \in Seq(Frames) /\ InQueue \subseteq Calls /\ Shape
        /\ InQueue \cap pendingInvokes = {}
        /\ \A d \in InQueue : outcome[d] = Waiting
    BY DEF FreeSlot, connVars, IInv, Shape, CallerAccounted
  <1>2. \A d \in Calls : outcome[d] # "idle" => outcome'[d] # "idle"
    BY <1>1
  <1>3. PICK trailing \in {<<>>, <<CancelFrame(c)>>} : FreeSlot(c, trailing, res)
    OBVIOUS
  <1>4. \/ /\ next \in InQueue
           /\ pendingInvokes' = (pendingInvokes \ {c}) \cup {next}
           /\ InQueue' = InQueue \ {next}
           /\ Send(<<InvokeFrame(next)>> \o trailing)
        \/ /\ pendingInvokes' = pendingInvokes \ {c} /\ InQueue' = InQueue
           /\ Send(trailing)
    BY <1>3, FreeSlotSends
  <1> HIDE DEF next
  <1>5. CASE ~wsOpen
    <2>1. toBridge' = toBridge /\ sent' = sent
      BY <1>4, <1>5 DEF Send
    <2>2. InQueue' \subseteq InQueue
      BY <1>4
    <2> QED
      BY <1>1, <1>2, <1>5, <2>1, <2>2 DEF WireInv, IInv, Shape
  <1>6. ASSUME wsOpen, NEW u \in {{}, {next}}, sent' = sent \cup u,
               u \subseteq InQueue, InQueue' = InQueue \ u,
               pendingInvokes' = (pendingInvokes \ {c}) \cup u,
               Carries(toBridge', sent')
        PROVE  WireInv'
    <2>1. \A d \in sent' : outcome'[d] # "idle" /\ d \notin InQueue'
      BY <1>1, <1>2, <1>6 DEF WireInv, IInv, Shape, Waiting
    <2>2. wsOpen' => connected' /\ pendingInvokes' \subseteq sent'
      BY <1>1, <1>6 DEF WireInv
    <2> QED
      BY <1>6, <2>1, <2>2 DEF WireInv
  <1>7. CancelFrame(c) \in Frames /\ CancelFrame(c).type = "cancel" /\ CancelFrame(c).id = c
        /\ {d \in Calls : CancelFrame(c) = InvokeFrame(d)} = {}
    BY <1>1, CallFrameTypes DEF CancelFrame, InvokeFrame
  <1>8. ASSUME wsOpen, Send(trailing), pendingInvokes' = pendingInvokes \ {c}, InQueue' = InQueue
        PROVE  WireInv'
    <2>1. sent' = sent /\ Carries(toBridge', sent')
      <3>1. CASE trailing = <<>>
        BY <1>1, <1>8, <3>1, SendNone DEF WireInv
      <3>2. CASE trailing = <<CancelFrame(c)>>
        <4>1. toBridge' = Append(toBridge, CancelFrame(c)) /\ sent' = sent
          BY <1>1, <1>7, <1>8, <3>2, SendOne
        <4>2. c \in sent /\ Carries(toBridge, sent)
          BY <1>8 DEF WireInv
        <4> QED
          BY <1>1, <1>7, <4>1, <4>2, CarriesAppend
      <3> QED
        BY <3>1, <3>2
    <2> QED
      BY <1>6, <1>8, <2>1
  <1>9. ASSUME wsOpen, Send(<<InvokeFrame(next)>> \o trailing), next \in InQueue,
               pendingInvokes' = (pendingInvokes \ {c}) \cup {next}, InQueue' = InQueue \ {next}
        PROVE  WireInv'
    <2> DEFINE f == InvokeFrame(next)
               wire == Append(toBridge, f)
               out == sent \cup {d \in Calls : f = InvokeFrame(d)}
    <2>1. next \in Calls /\ next \notin sent /\ f \in Frames /\ f.type = "invoke" /\ f.id = next
      BY <1>1, <1>9, CallFrameTypes DEF WireInv, InvokeFrame
    <2>2. out = sent \cup {next}
      BY <2>1 DEF InvokeFrame
    <2>3. wire \in Seq(Frames) /\ Carries(wire, out)
      BY <1>1, <2>1, CarriesAppend, AppendProperties DEF WireInv
    <2>4. sent' = out /\ Carries(toBridge', sent')
      <3>1. CASE trailing = <<>>
        <4>1. <<f>> \o <<>> = <<f>>
          BY <2>1, ConcatEmptySeq
        <4>2. Send(<<f>>)
          BY <1>9, <3>1, <4>1
        <4> QED
          BY <1>1, <1>9, <2>1, <2>3, <4>2, SendOne
      <3>2. CASE trailing = <<CancelFrame(c)>>
        <4>1. Send(<<f>> \o <<CancelFrame(c)>>)
          BY <1>9, <3>2
        <4>2. toBridge' = Append(wire, CancelFrame(c))
              /\ sent' = out \cup {d \in Calls : CancelFrame(c) = InvokeFrame(d)}
          BY <1>1, <1>7, <1>9, <2>1, <4>1, SendTwo
        <4>3. c \in out
          BY <1>9 DEF WireInv
        <4> HIDE DEF wire, out, f
        <4>4. Carries(Append(wire, CancelFrame(c)), out \cup {d \in Calls : CancelFrame(c) = InvokeFrame(d)})
          BY <1>7, <2>3, <4>3, CarriesAppend
        <4> QED
          BY <1>7, <4>2, <4>4
      <3> QED
        BY <3>1, <3>2
    <2> QED
      BY <1>6, <1>9, <2>2, <2>4
  <1> QED
    BY <1>4, <1>5, <1>8, <1>9

\* Sending a frame that is no invocation, while no table changes.
LEMMA SendKeepsWire ==
  ASSUME IInv, WireInv, UNCHANGED <<callVars, connVars>>, NEW f \in Frames, Send(<<f>>),
         f.type # "invoke", f.type = "cancel" => f.id \in pendingInvokes
  PROVE  WireInv'
  <1>1. UNCHANGED <<pendingInvokes, outcome, wsOpen, connected, InQueue>>
        /\ toBridge \in Seq(Frames) /\ Shape
    BY DEF callVars, connVars, InQueue, IInv, Shape
  <1>2. CASE ~wsOpen
    BY <1>1, <1>2 DEF Send, WireInv
  <1>3. CASE wsOpen
    <2>1. toBridge' = Append(toBridge, f) /\ sent' = sent \cup {c \in Calls : f = InvokeFrame(c)}
      BY <1>1, <1>3, SendOne
    <2>2. {c \in Calls : f = InvokeFrame(c)} = {}
      BY DEF InvokeFrame
    <2>3. Carries(toBridge', sent')
      BY <1>1, <1>3, <2>1, CarriesAppend DEF WireInv
    <2> QED
      BY <1>1, <2>1, <2>2, <2>3 DEF WireInv
  <1> QED
    BY <1>2, <1>3

\* invoke: a call is sent, or queued, before it was ever sent.
LEMMA InvokeWire ==
  ASSUME IInv, WireInv, NEW c \in Calls, Invoke(c)
  PROVE  WireInv'
  <1>1. /\ outcome[c] = "idle" /\ c \notin sent /\ UNCHANGED <<wsOpen, connected>>
        /\ outcome \in [Calls -> Outcomes] /\ queue \in Seq(Calls) /\ sent \subseteq Calls
        /\ toBridge \in Seq(Frames) /\ Shape /\ Distinct(queue)
        /\ c \notin InQueue
    BY DEF Invoke, InvokeRefused, InvokeDispatched, InvokeQueued, connVars, IInv, Shape, WireInv,
           CallerAccounted, Waiting, Distinct
  <1>2. PICK o \in Outcomes \ {"idle"} : outcome' = [outcome EXCEPT ![c] = o]
    BY DEF Invoke, InvokeRefused, InvokeDispatched, InvokeQueued, Refusal, Outcomes, Rejected,
           Waiting
  <1>3. \A d \in Calls : outcome[d] # "idle" => outcome'[d] # "idle"
    BY <1>1, <1>2
  <1>4. outcome'[c] # "idle"
    BY <1>1, <1>2
  <1>5. CASE InvokeRefused(c)
    <2>1. UNCHANGED <<pendingInvokes, InQueue, toBridge, sent>>
      BY <1>5 DEF InvokeRefused, wireVars, InQueue
    <2> QED
      BY <1>1, <1>3, <2>1 DEF WireInv
  <1>6. CASE InvokeQueued(c)
    <2>1. UNCHANGED <<pendingInvokes, toBridge, sent>> /\ queue' = Append(queue, c)
      BY <1>6 DEF InvokeQueued, wireVars
    <2>2. InQueue' = InQueue \cup {c}
      BY <1>1, <2>1, AppendElements, QueueElements
    <2> QED
      BY <1>1, <1>3, <2>1, <2>2 DEF WireInv
  <1>7. CASE InvokeDispatched(c)
    <2> DEFINE f == InvokeFrame(c)
    <2>1. /\ pendingInvokes' = pendingInvokes \cup {c} /\ InQueue' = InQueue /\ Send(<<f>>)
          /\ f \in Frames /\ f.type = "invoke" /\ f.id = c
          /\ {d \in Calls : f = InvokeFrame(d)} = {c}
      BY <1>7, CallFrameTypes DEF InvokeDispatched, InQueue, InvokeFrame
    <2> HIDE DEF f
    <2>2. CASE ~wsOpen
      <3>1. toBridge' = toBridge /\ sent' = sent
        BY <2>1, <2>2 DEF Send
      <3> QED
        BY <1>1, <1>3, <2>1, <2>2, <3>1 DEF WireInv
    <2>3. CASE wsOpen
      <3>1. toBridge' = Append(toBridge, f) /\ sent' = sent \cup {c}
        BY <1>1, <2>1, <2>3, SendOne
      <3>2. Carries(toBridge', sent')
        BY <1>1, <2>1, <3>1, CarriesAppend DEF WireInv
      <3>3. \A d \in sent' : outcome'[d] # "idle" /\ d \notin InQueue'
        BY <1>1, <1>3, <1>4, <2>1, <3>1 DEF WireInv
      <3> QED
        BY <1>1, <2>1, <2>3, <3>1, <3>2, <3>3 DEF WireInv
    <2> QED
      BY <2>2, <2>3
  <1> QED
    BY <1>5, <1>6, <1>7 DEF Invoke

\* The loss of a socket empties the wire.
LEMMA GoneWire ==
  ASSUME NEW err, RejectAllPending(err), SocketGone, wsOpen' => connected'
  PROVE  WireInv'
  <1>1. toBridge' = <<>> /\ sent' = {} /\ pendingInvokes' = {}
    BY DEF RejectAllPending, SocketGone
  <1> QED
    BY <1>1 DEF WireInv, Carries

LEMMA WireInit == Init => WireInv
  BY DEF Init, WireInv, Carries

LEMMA WireNext == IInv /\ WireInv /\ [Next]_vars => WireInv'
  <1> SUFFICES ASSUME IInv, WireInv, [Next]_vars PROVE WireInv'
    OBVIOUS
  <1>1. ASSUME UNCHANGED <<callVars, wsOpen, connected, sent, toBridge>> PROVE WireInv'
    BY <1>1 DEF WireInv, callVars, InQueue
  <1>2. ASSUME NEW c \in Calls, Invoke(c) PROVE WireInv'
    BY <1>2, InvokeWire
  <1>3. ASSUME NEW c \in Calls, TimerFires(c) PROVE WireInv'
    <2>1. c \in pendingInvokes /\ "timeout" \in Outcomes \ {"idle", Waiting}
      BY <1>3 DEF TimerFires, IInv, TimersOwnSlots, Outcomes, Rejected, Waiting
    <2> QED
      BY <1>3, <2>1, FreeSlotWire DEF TimerFires
  <1>4. ASSUME NEW c \in Calls, OnResult(c) PROVE WireInv'
    <2>1. "result" \in Outcomes \ {"idle", Waiting}
      BY DEF Outcomes, Waiting
    <2> QED
      BY <1>1, <1>4, <2>1, FreeSlotWire DEF OnResult, vars, connVars, wireVars
  <1>5. ASSUME NEW c \in Calls, NEW late \in BOOLEAN, OnCancelled(c, late) PROVE WireInv'
    <2>1. "cancelled" \in Outcomes \ {"idle", Waiting}
      BY DEF Outcomes, Rejected, Waiting
    <2> QED
      BY <1>1, <1>5, <2>1, FreeSlotWire DEF OnCancelled, vars, connVars, wireVars
  <1>6. ASSUME NEW c \in Calls, Cancel(c) PROVE WireInv'
    <2>1. /\ CancelFrame(c) \in Frames /\ CancelFrame(c).type = "cancel"
          /\ CancelFrame(c).id = c
      BY CallFrameTypes DEF CancelFrame
    <2> QED
      BY <1>6, <2>1, SendKeepsWire DEF Cancel
  <1>7. ASSUME NEW r \in StateReqs, RequestState(r) PROVE WireInv'
    <2>1. StateFrame(r) \in Frames /\ StateFrame(r).type = "getState"
      BY DEF StateFrame, Frames
    <2>2. Send(<<StateFrame(r)>>) \/ UNCHANGED wireVars
      BY <1>7 DEF RequestState
    <2> QED
      BY <1>1, <1>7, <2>1, <2>2, SendKeepsWire DEF RequestState, connVars, wireVars
  <1>8. ASSUME NEW r \in StateReqs, StateTimerFires(r) PROVE WireInv'
    BY <1>1, <1>8 DEF StateTimerFires, connVars, wireVars
  <1>9. CASE OnStateSnapshot \/ GraceExpires
    BY <1>1, <1>9 DEF OnStateSnapshot, GraceExpires, connVars, wireVars
  <1>10. CASE Evict \/ HandleDisconnect \/ CloseServer
    BY <1>10, GoneWire DEF Evict, HandleDisconnect, CloseServer
  <1>11. CASE Connect \/ SocketCloses
    <2>1. /\ UNCHANGED <<callVars, sent, toBridge>> /\ connected'
          /\ wsOpen' => wsOpen \/ pendingInvokes = {}
      BY <1>11 DEF Connect, SocketCloses, wireVars, IInv, NothingHeldWhileDown
    <2> QED
      BY <2>1 DEF WireInv, callVars, InQueue
  <1>12. CASE BridgeReads
    <2>1. /\ toBridge \in Seq(Frames) /\ toBridge # <<>> /\ toBridge' = Tail(toBridge)
          /\ UNCHANGED <<callVars, connVars, sent>>
      BY <1>12 DEF BridgeReads, IInv, Shape
    <2>2. Carries(toBridge', sent')
      BY <2>1, CarriesTail DEF WireInv
    <2> QED
      BY <2>1, <2>2 DEF WireInv, callVars, connVars, InQueue
  <1>13. CASE UNCHANGED vars
    BY <1>1, <1>13 DEF vars, connVars, wireVars
  <1> QED
    BY <1>2, <1>3, <1>4, <1>5, <1>6, <1>7, <1>8, <1>9, <1>10, <1>11, <1>12, <1>13 DEF Next

\* A cancel travels on the socket of its invocation and behind it: dispatchInvoke and
\* dequeueAndDispatch send an invocation once, and before anything that cancels it.
THEOREM CancelFollowsInvokeHolds == Spec => []CancelFollowsInvoke
  <1>1. WireInv => CancelFollowsInvoke
    BY DEF WireInv, Carries, CancelFollowsInvoke
  <1> QED
    BY <1>1, WireInit, WireNext, Invariance, PTL DEF Spec

-----------------------------------------------------------------------------
(* What a handler puts on the wire, for who composes the dispatcher with a *)
(* Bridge.                                                                 *)

\* A handler sends the invocations new and the cancels of cancelled.  No frame
\* is on the wire twice if none of those was there.
Posts(new, cancelled) ==
  /\ UNCHANGED <<earlier, connected, wsOpen>>
  /\ IF wsOpen
       THEN /\ sent' = sent \cup new
            /\ Elements(toBridge') = Elements(toBridge)
                 \cup {InvokeFrame(c) : c \in new} \cup {CancelFrame(c) : c \in cancelled}
            /\ /\ Distinct(toBridge)
               /\ \A c \in new : InvokeFrame(c) \notin Elements(toBridge)
               /\ \A c \in cancelled : CancelFrame(c) \notin Elements(toBridge)
               => Distinct(toBridge')
       ELSE UNCHANGED <<sent, toBridge>>

\* Send, with at most one frame of each kind.
LEMMA SendPosts ==
  ASSUME Shape, UNCHANGED <<connected, wsOpen>>,
         NEW c \in Calls, NEW d \in Calls
  PROVE  /\ Send(<<>>) => Posts({}, {})
         /\ Send(<<InvokeFrame(c)>>) => Posts({c}, {})
         /\ Send(<<CancelFrame(d)>>) => Posts({}, {d})
         /\ Send(<<InvokeFrame(c)>> \o <<CancelFrame(d)>>) => Posts({c}, {d})
  <1> DEFINE f == InvokeFrame(c)
             g == CancelFrame(d)
  <1>1. f \in Frames /\ g \in Frames /\ f # g /\ toBridge \in Seq(Frames)
    BY CallFrameTypes DEF InvokeFrame, CancelFrame, Shape
  <1>2. /\ {e \in Calls : f = InvokeFrame(e)} = {c}
        /\ {e \in Calls : g = InvokeFrame(e)} = {}
    BY DEF InvokeFrame, CancelFrame
  <1>3. \A frames : Send(frames) => earlier' = earlier
    BY DEF Send
  <1>4. ASSUME NEW frames, Send(frames), ~wsOpen PROVE UNCHANGED <<sent, toBridge>>
    BY <1>4 DEF Send
  <1>5. /\ {InvokeFrame(e) : e \in {c}} = {f} /\ {CancelFrame(e) : e \in {d}} = {g}
        /\ {InvokeFrame(e) : e \in {}} = {} /\ {CancelFrame(e) : e \in {}} = {}
    OBVIOUS
  <1>6. Send(<<>>) => Posts({}, {})
    <2> SUFFICES ASSUME Send(<<>>) PROVE Posts({}, {})
      OBVIOUS
    <2>1. toBridge' = toBridge /\ sent' = sent
      BY SendNone
    <2> QED
      BY <1>3, <1>5, <2>1 DEF Posts
  <1> HIDE DEF f, g
  <1>7. Send(<<f>>) => Posts({c}, {})
    <2> SUFFICES ASSUME Send(<<f>>) PROVE Posts({c}, {})
      OBVIOUS
    <2>1. wsOpen => toBridge' = Append(toBridge, f) /\ sent' = sent \cup {c}
      BY <1>1, <1>2, SendOne
    <2>2. wsOpen => /\ Elements(toBridge') = Elements(toBridge) \cup {f}
                    /\ Distinct(toBridge) /\ f \notin Elements(toBridge) => Distinct(toBridge')
      <3>1. /\ Elements(Append(toBridge, f)) = Elements(toBridge) \cup {f}
            /\ Distinct(toBridge) /\ f \notin Elements(toBridge)
                 => Distinct(Append(toBridge, f))
        BY <1>1, AppendElements
      <3>2. wsOpen => Elements(toBridge') = Elements(Append(toBridge, f))
                      /\ (Distinct(Append(toBridge, f)) => Distinct(toBridge'))
        BY <2>1 DEF Elements, Distinct
      <3> QED
        BY <3>1, <3>2
    <2>3. (wsOpen => sent' = sent \cup {c}) /\ earlier' = earlier /\ (~wsOpen => UNCHANGED <<sent, toBridge>>)
      BY <1>3, <1>4, <2>1
    <2> QED
      BY <1>1, <1>5, <2>2, <2>3 DEF Posts, f
  <1>8. Send(<<g>>) => Posts({}, {d})
    <2> SUFFICES ASSUME Send(<<g>>) PROVE Posts({}, {d})
      OBVIOUS
    <2>1. wsOpen => toBridge' = Append(toBridge, g) /\ sent' = sent
      BY <1>1, <1>2, SendOne
    <2>2. wsOpen => /\ Elements(toBridge') = Elements(toBridge) \cup {g}
                    /\ Distinct(toBridge) /\ g \notin Elements(toBridge) => Distinct(toBridge')
      <3>1. /\ Elements(Append(toBridge, g)) = Elements(toBridge) \cup {g}
            /\ Distinct(toBridge) /\ g \notin Elements(toBridge)
                 => Distinct(Append(toBridge, g))
        BY <1>1, AppendElements
      <3>2. wsOpen => Elements(toBridge') = Elements(Append(toBridge, g))
                      /\ (Distinct(Append(toBridge, g)) => Distinct(toBridge'))
        BY <2>1 DEF Elements, Distinct
      <3> QED
        BY <3>1, <3>2
    <2>3. (wsOpen => sent' = sent) /\ earlier' = earlier /\ (~wsOpen => UNCHANGED <<sent, toBridge>>)
      BY <1>3, <1>4, <2>1
    <2> QED
      BY <1>1, <1>5, <2>2, <2>3 DEF Posts, g
  <1>9. Send(<<f>> \o <<g>>) => Posts({c}, {d})
    <2> SUFFICES ASSUME Send(<<f>> \o <<g>>) PROVE Posts({c}, {d})
      OBVIOUS
    <2>1. PICK s : s = Append(toBridge, f)
      OBVIOUS
    <2>2. /\ s \in Seq(Frames) /\ Elements(s) = Elements(toBridge) \cup {f}
          /\ Distinct(toBridge) /\ f \notin Elements(toBridge) => Distinct(s)
      BY <1>1, <2>1, AppendElements, AppendProperties
    <2>3. wsOpen => toBridge' = Append(s, g) /\ sent' = sent \cup {c}
      BY <1>1, <1>2, <2>1, SendTwo
    <2>4. wsOpen => /\ Elements(toBridge') = Elements(s) \cup {g}
                    /\ Distinct(s) /\ g \notin Elements(s) => Distinct(toBridge')
      <3>1. /\ Elements(Append(s, g)) = Elements(s) \cup {g}
            /\ Distinct(s) /\ g \notin Elements(s) => Distinct(Append(s, g))
        BY <1>1, <2>2, AppendElements
      <3>2. wsOpen => Elements(toBridge') = Elements(Append(s, g))
                      /\ (Distinct(Append(s, g)) => Distinct(toBridge'))
        BY <2>3 DEF Elements, Distinct
      <3> QED
        BY <3>1, <3>2
    <2>5. wsOpen => /\ Elements(toBridge') = Elements(toBridge) \cup {f} \cup {g}
                    /\ Distinct(toBridge) /\ f \notin Elements(toBridge) /\ g \notin Elements(toBridge)
                         => Distinct(toBridge')
      BY <1>1, <2>2, <2>4
    <2>6. (wsOpen => sent' = sent \cup {c}) /\ earlier' = earlier /\ (~wsOpen => UNCHANGED <<sent, toBridge>>)
      BY <1>3, <1>4, <2>3
    <2> QED
      BY <1>1, <1>5, <2>5, <2>6 DEF Posts, f, g
  <1> QED
    BY <1>6, <1>7, <1>8, <1>9 DEF f, g

\* The slot of c goes to the invocations new, which leave the queue.
Refills(c, new, cancelled) ==
  /\ Posts(new, cancelled)
  /\ pendingInvokes' = (pendingInvokes \ {c}) \cup new
  /\ InQueue' = InQueue \ new

\* A result, a cancellation and a timeout: the invocation that takes the slot
\* over comes from the queue.
LEMMA FreeSlotPosts ==
  ASSUME IInv, NEW c \in pendingInvokes, NEW res
  PROVE  /\ FreeSlot(c, <<>>, res) => \E new \in SUBSET InQueue : Refills(c, new, {})
         /\ FreeSlot(c, <<CancelFrame(c)>>, res) =>
              \E new \in SUBSET InQueue : Refills(c, new, {c})
  <1> SUFFICES ASSUME NEW cancelled \in {{}, {c}}, NEW trailing,
                      trailing = IF cancelled = {} THEN <<>> ELSE <<CancelFrame(c)>>,
                      FreeSlot(c, trailing, res)
               PROVE  \E new \in SUBSET InQueue : Refills(c, new, cancelled)
    OBVIOUS
  <1> DEFINE next == Head(queue)
  <1>1. /\ Shape /\ UNCHANGED <<connected, wsOpen>> /\ c \in Calls /\ InQueue \subseteq Calls
    BY DEF IInv, Shape, FreeSlot, connVars, CallerAccounted
  <1>2. \/ /\ next \in InQueue
           /\ pendingInvokes' = (pendingInvokes \ {c}) \cup {next}
           /\ InQueue' = InQueue \ {next}
           /\ Send(<<InvokeFrame(next)>> \o trailing)
        \/ /\ pendingInvokes' = pendingInvokes \ {c} /\ InQueue' = InQueue
           /\ Send(trailing)
    BY FreeSlotSends
  <1> HIDE DEF next
  <1>3. ASSUME next \in InQueue, Send(<<InvokeFrame(next)>> \o trailing)
        PROVE  Posts({next}, cancelled)
    <2>1. CASE cancelled = {}
      <3>1. <<InvokeFrame(next)>> \o <<>> = <<InvokeFrame(next)>>
        <4>1. <<InvokeFrame(next)>> \in Seq(Frames)
          BY <1>1, <1>3, CallFrameTypes
        <4> QED
          BY <4>1, ConcatEmptySeq
      <3> QED
        BY <1>1, <1>3, <2>1, <3>1, SendPosts
    <2>2. CASE cancelled = {c}
      BY <1>1, <1>3, <2>2, SendPosts
    <2> QED
      BY <2>1, <2>2
  <1>4. ASSUME Send(trailing) PROVE Posts({}, cancelled)
    BY <1>1, <1>4, SendPosts
  <1> QED
    BY <1>2, <1>3, <1>4 DEF Refills

\* invoke sends the call, or nothing.
LEMMA InvokePosts ==
  ASSUME IInv, NEW c \in Calls, Invoke(c)
  PROVE  \E new \in SUBSET {c} :
           /\ Posts(new, {})
           /\ pendingInvokes' = pendingInvokes \cup new
           /\ InQueue' \subseteq (InQueue \cup {c}) \ new
  <1>1. Shape /\ UNCHANGED <<connected, wsOpen>> /\ outcome[c] = "idle" /\ c \notin InQueue
    BY DEF IInv, Invoke, InvokeRefused, InvokeDispatched, InvokeQueued, connVars,
       CallerAccounted, Waiting
  <1>2. Posts({}, {}) \/ ~UNCHANGED wireVars
    BY <1>1 DEF Posts, wireVars
  <1>3. CASE InvokeRefused(c)
    <2>1. InQueue' = InQueue
      BY <1>3 DEF InvokeRefused, InQueue
    <2> QED
      BY <1>1, <1>2, <1>3, <2>1 DEF InvokeRefused
  <1>4. CASE InvokeQueued(c)
    <2>1. queue \in Seq(Calls) /\ queue' = Append(queue, c)
      BY <1>4 DEF InvokeQueued, IInv, Shape
    <2>2. InQueue' = InQueue \cup {c}
      BY <2>1, AppendElements, QueueElements
    <2> QED
      BY <1>1, <1>2, <1>4, <2>2 DEF InvokeQueued
  <1>5. CASE InvokeDispatched(c)
    <2>1. InQueue' = InQueue
      BY <1>5 DEF InvokeDispatched, InQueue
    <2>2. Posts({c}, {})
      BY <1>1, <1>5, SendPosts DEF InvokeDispatched
    <2> QED
      BY <1>1, <1>5, <2>1, <2>2 DEF InvokeDispatched
  <1> QED
    BY <1>3, <1>4, <1>5 DEF Invoke
=============================================================================
