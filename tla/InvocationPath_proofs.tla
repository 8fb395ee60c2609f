------------------------ MODULE InvocationPath_proofs ------------------------
(***************************************************************************)
(* Theorems of InvocationPath, for every set of requests and every limit.  *)
(* What was proved of the dispatcher and of the router alone is used here  *)
(* through instances of their modules: every step of the path is a step of *)
(* each, so that their invariants hold of the path too.                    *)
(***************************************************************************)
EXTENDS InvocationPath, FiniteSetTheorems, SequenceTheorems, TLAPS

H == INSTANCE BridgeDispatch_proofs WITH StateReqs <- {}, GraceMs <- 0
B == INSTANCE CommandRouter_proofs WITH
  Guarded <- Guarded \X {1, 2}, Encodable <- Calls

-----------------------------------------------------------------------------
(* The instances.                                                          *)

\* What the two modules assume of their constants.
LEMMA InstanceAssumptions ==
  H!LimitsAssumption /\ H!IdsAssumption /\ B!CallsAssumption
  BY RequestsAssumption DEF Calls, H!LimitsAssumption, H!IdsAssumption, B!CallsAssumption

\* The dispatcher of the path is the one of the theorems, action by action.
LEMMA SameHub ==
  ASSUME NEW c, NEW late
  PROVE  /\ Hub!Init => H!Init
         /\ Hub!Invoke(c) => H!Invoke(c)
         /\ Hub!TimerFires(c) => H!TimerFires(c)
         /\ Hub!OnResult(c) => H!OnResult(c)
         /\ Hub!OnCancelled(c, late) => H!OnCancelled(c, late)
         /\ Hub!Connect => H!Connect
         /\ Hub!Evict => H!Evict
         /\ Hub!SocketCloses => H!SocketCloses
         /\ Hub!HandleDisconnect => H!HandleDisconnect
         /\ Hub!BridgeReads => H!BridgeReads
  <1> USE DEF Hub!Init, H!Init, Hub!Invoke, H!Invoke, Hub!InvokeRefused, H!InvokeRefused,
         Hub!InvokeDispatched, H!InvokeDispatched, Hub!InvokeQueued, H!InvokeQueued,
         Hub!Refusal, H!Refusal, Hub!TimerFires, H!TimerFires, Hub!OnResult, H!OnResult,
         Hub!OnCancelled, H!OnCancelled, Hub!FreeSlot, H!FreeSlot, Hub!DequeueAndDispatch,
         H!DequeueAndDispatch, Hub!Connect, H!Connect, Hub!Evict, H!Evict, Hub!SocketCloses,
         H!SocketCloses, Hub!HandleDisconnect, H!HandleDisconnect, Hub!RejectAllPending,
         H!RejectAllPending, Hub!SocketGone, H!SocketGone, Hub!BridgeReads, H!BridgeReads,
         Hub!Send, H!Send, Hub!InQueue, H!InQueue, Hub!InvokeFrame, H!InvokeFrame,
         Hub!CancelFrame, H!CancelFrame, Hub!Waiting, H!Waiting, Hub!callVars, H!callVars,
         Hub!stateVars, H!stateVars, Hub!connVars, H!connVars, Hub!wireVars, H!wireVars,
         Hub!vars, H!vars
  <1>1. Hub!Init => H!Init
    OBVIOUS
  <1>2. Hub!Invoke(c) => H!Invoke(c)
    OBVIOUS
  <1>3. Hub!TimerFires(c) => H!TimerFires(c)
    OBVIOUS
  <1>4. Hub!OnResult(c) => H!OnResult(c)
    OBVIOUS
  <1>5. Hub!OnCancelled(c, late) => H!OnCancelled(c, late)
    OBVIOUS
  <1>6. Hub!Connect => H!Connect
    OBVIOUS
  <1>7. Hub!Evict => H!Evict
    OBVIOUS
  <1>8. Hub!SocketCloses => H!SocketCloses
    OBVIOUS
  <1>9. Hub!HandleDisconnect => H!HandleDisconnect
    OBVIOUS
  <1>10. Hub!BridgeReads => H!BridgeReads
    OBVIOUS
  <1> QED
    BY <1>1, <1>2, <1>3, <1>4, <1>5, <1>6, <1>7, <1>8, <1>9, <1>10

\* So is the router.
LEMMA SameBridge ==
  ASSUME NEW c, NEW ok
  PROVE  /\ Bridge!Init => B!Init
         /\ Bridge!HandleInvoke(c) => B!HandleInvoke(c)
         /\ Bridge!HandleCancel(c) => B!HandleCancel(c)
         /\ Bridge!ConfirmAnswered(c, ok) => B!ConfirmAnswered(c, ok)
         /\ Bridge!HandlerSettles(c, ok) => B!HandlerSettles(c, ok)
         /\ Bridge!CallTimerFires(c) => B!CallTimerFires(c)
         /\ Bridge!HubReads => B!HubReads
         /\ Bridge!LinkDrops => B!LinkDrops
         /\ Bridge!LinkReturns => B!LinkReturns
  <1> USE DEF Bridge!Init, B!Init, Bridge!HandleInvoke, B!HandleInvoke, Bridge!HandleCancel,
         B!HandleCancel, Bridge!ConfirmAnswered, B!ConfirmAnswered, Bridge!HandlerSettles,
         B!HandlerSettles, Bridge!CallTimerFires, B!CallTimerFires, Bridge!HubReads, B!HubReads,
         Bridge!LinkDrops, B!LinkDrops, Bridge!LinkReturns, B!LinkReturns, Bridge!Start,
         B!Start, Bridge!Answer, B!Answer, Bridge!SendToHub, B!SendToHub, Bridge!ResultFrame,
         B!ResultFrame, Bridge!CancelledFrame, B!CancelledFrame, Bridge!routeVars, B!routeVars,
         Bridge!linkVars, B!linkVars, Bridge!vars, B!vars
  <1>1. Bridge!Init => B!Init
    OBVIOUS
  <1>2. Bridge!HandleInvoke(c) => B!HandleInvoke(c)
    OBVIOUS
  <1>3. Bridge!HandleCancel(c) => B!HandleCancel(c)
    OBVIOUS
  <1>4. Bridge!ConfirmAnswered(c, ok) => B!ConfirmAnswered(c, ok)
    OBVIOUS
  <1>5. Bridge!HandlerSettles(c, ok) => B!HandlerSettles(c, ok)
    OBVIOUS
  <1>6. Bridge!CallTimerFires(c) => B!CallTimerFires(c)
    OBVIOUS
  <1>7. Bridge!HubReads => B!HubReads
    OBVIOUS
  <1>8. Bridge!LinkDrops => B!LinkDrops
    OBVIOUS
  <1>9. Bridge!LinkReturns => B!LinkReturns
    OBVIOUS
  <1> QED
    BY <1>1, <1>2, <1>3, <1>4, <1>5, <1>6, <1>7, <1>8, <1>9

-----------------------------------------------------------------------------
(* The invariant of the path.                                              *)

\* The frames that the Bridge has not read, and the two kinds that it handles.
Wire == H!Elements(toBridge)

\* What the two ends know of each other.  The Bridge has heard of a call exactly
\* when its frame was sent and is not on the wire any more; what was sent is not
\* to be sent again; a cancel is sent once, and only for a call that is settled.
Linked ==
  /\ \A c \in sent : H!InvokeFrame(c) \in Wire \/ phase[c] # "none"
  /\ \A c \in Calls : phase[c] # "none" =>
       c \in sent \cup earlier /\ H!InvokeFrame(c) \notin Wire
  /\ \A c \in sent \cup earlier : outcome[c] # "idle" /\ c \notin H!InQueue
  /\ \A c \in Calls : H!CancelFrame(c) \in Wire \/ c \in cancelSeen => c \in H!Settled
  /\ \A c \in cancelSeen : H!CancelFrame(c) \notin Wire
  /\ H!Distinct(toBridge)
  /\ \A f \in B!OnSocket : phase[f.id] # "none"
  /\ \A c \in begun : c \in Calls /\ phase[c] # "none"

\* What keeps the slot of c taken: the disjunction of SlotHasReason.
Reason(c) ==
  H!InvokeFrame(c) \in Wire \/ B!Underway(c) \/ c \in limited

Reasoned == connected /\ wsOpen /\ linkUp => \A c \in pendingInvokes : Reason(c)

\* The executor: an attempt is made in its turn, and the second one only of an
\* idempotent tool.
Attempts ==
  /\ attempt \in [Requests -> 0 .. 2]
  /\ told \in [Requests -> {"none", "ok", "failed"}]
  /\ \A q \in Requests : told[q] # "none" => attempt[q] # 0
  /\ \A q \in Requests : attempt[q] = 2 => q \in Idempotent
  /\ \A c \in Calls : outcome[c] # "idle" => c[2] <= attempt[c[1]]

\* Every success that is reported, on its way or told is one of a handler.
Truth ==
  /\ reply \in [Calls -> {"none", "ok", "failed"}]
  /\ \A c \in Calls : B!ResultFrame(c, TRUE) \in B!OnSocket => c \in succeeded
  /\ \A c \in Calls : reply[c] = "ok" => c \in succeeded
  /\ SuccessIsTrue

\* The invariants of the two components, and what ties them to each other.
Ends == H!IInv /\ H!WireInv /\ B!IInv /\ Linked
JInv == Ends /\ Reasoned /\ Attempts /\ Truth

-----------------------------------------------------------------------------
(* Frames.                                                                 *)

\* A frame of the path names a call, and says what is to be done with it.
LEMMA PathFrames ==
  /\ \A f \in H!Frames : f.id \in Calls
       /\ (f.type = "invoke" => f = H!InvokeFrame(f.id))
       /\ (f.type = "cancel" => f = H!CancelFrame(f.id))
  /\ \A c, d : /\ H!InvokeFrame(c) # H!CancelFrame(d)
               /\ (H!InvokeFrame(c) = H!InvokeFrame(d) => c = d)
               /\ (H!CancelFrame(c) = H!CancelFrame(d) => c = d)
               /\ H!InvokeFrame(c).type = "invoke" /\ H!InvokeFrame(c).id = c
               /\ H!CancelFrame(c).type = "cancel" /\ H!CancelFrame(c).id = c
  BY DEF H!Frames, H!InvokeFrame, H!CancelFrame

\* What is on the wire was sent on this socket.
LEMMA WireSent ==
  ASSUME H!WireInv
  PROVE  \A c : H!InvokeFrame(c) \in Wire \/ H!CancelFrame(c) \in Wire => c \in sent
  <1> SUFFICES ASSUME NEW c, NEW i \in DOMAIN toBridge,
                      toBridge[i] \in {H!InvokeFrame(c), H!CancelFrame(c)}
               PROVE  c \in sent
    BY DEF Wire, H!Elements
  <1>1. toBridge[i].type \in {"invoke", "cancel"} /\ toBridge[i].id = c
    BY PathFrames
  <1> QED
    BY <1>1 DEF H!WireInv, H!Carries

\* The types that the proofs below keep needing.
LEMMA EndTypes ==
  ASSUME Ends
  PROVE  /\ outcome \in [Calls -> H!Outcomes] /\ pendingInvokes \subseteq Calls
         /\ H!InQueue \subseteq Calls
         /\ sent \subseteq Calls /\ earlier \subseteq Calls /\ toBridge \in Seq(H!Frames)
         /\ connected \in BOOLEAN /\ wsOpen \in BOOLEAN /\ linkUp \in BOOLEAN
         /\ phase \in [Calls -> B!Phases] /\ cancelSeen \subseteq Calls
         /\ toHub \in Seq(B!HubFrames)
         /\ \A c \in Calls : outcome[c] = "waiting" <=> c \in pendingInvokes \cup H!InQueue
  BY DEF Ends, H!IInv, H!Shape, H!CallerAccounted, H!Waiting, B!IInv, B!TypeOK

-----------------------------------------------------------------------------
(* Steps of the Hub.                                                       *)

\* A step of the dispatcher sends the invocations new and the cancels of
\* cancelled, all for the first time.
Adds(new, cancelled) ==
  /\ H!Posts(new, cancelled)
  /\ new \subseteq Calls /\ new \cap (sent \cup earlier) = {}
  /\ pendingInvokes' \subseteq pendingInvokes \cup new
  /\ H!InQueue' \cap (sent \cup earlier \cup new) = {}
  /\ \A d \in Calls : outcome[d] # "idle" \/ d \in new => outcome'[d] # "idle"
  /\ H!Settled \subseteq H!Settled'
  /\ cancelled \subseteq H!Settled' \ H!Settled

\* Giving a slot back.
LEMMA FreeSlotAdds ==
  ASSUME Ends, NEW c \in pendingInvokes, NEW res \in H!Outcomes \ {"idle", "waiting"},
         NEW cancelled,
         \/ cancelled = {} /\ H!FreeSlot(c, <<>>, res)
         \/ cancelled = {c} /\ H!FreeSlot(c, <<H!CancelFrame(c)>>, res)
  PROVE  /\ \E new \in SUBSET Calls : Adds(new, cancelled)
         /\ c \notin pendingInvokes'
         /\ \A d \in Calls : outcome'[d] # "idle" => outcome[d] # "idle"
  <1>1. H!IInv /\ H!WireInv
    BY DEF Ends
  <1>2. PICK new \in SUBSET H!InQueue :
          /\ H!Posts(new, cancelled)
          /\ pendingInvokes' = (pendingInvokes \ {c}) \cup new
          /\ H!InQueue' = H!InQueue \ new
    <2>1. /\ H!FreeSlot(c, <<>>, res) =>
               \E new \in SUBSET H!InQueue : H!Refills(c, new, {})
          /\ H!FreeSlot(c, <<H!CancelFrame(c)>>, res) =>
               \E new \in SUBSET H!InQueue : H!Refills(c, new, {c})
      BY <1>1, InstanceAssumptions, H!FreeSlotPosts
    <2> QED
      BY <2>1 DEF H!Refills
  <1>3. /\ H!Settled' = H!Settled \cup {c}
        /\ c \notin H!Settled /\ c \in Calls /\ outcome[c] = "waiting" /\ c \notin H!InQueue
    <2>1. H!Settled' = H!Settled \cup {c}
      BY <1>1, InstanceAssumptions, H!FreeSlotSettles DEF H!Waiting
    <2>2. c \in Calls /\ outcome[c] = "waiting"
      BY EndTypes
    <2>3. pendingInvokes \cap H!InQueue = {}
      BY <1>1 DEF H!IInv, H!CallerAccounted
    <2> QED
      BY <2>1, <2>2, <2>3 DEF H!Settled, H!Waiting
  <1>4. /\ outcome' = [outcome EXCEPT ![c] = res] /\ outcome \in [Calls -> H!Outcomes]
        /\ H!InQueue \subseteq Calls
        /\ \A d \in H!InQueue : outcome[d] = "waiting"
    BY EndTypes DEF H!FreeSlot
  <1>5. H!InQueue \cap (sent \cup earlier) = {}
    BY DEF Ends, Linked
  <1>6. Adds(new, cancelled)
    <2>1. \A d \in Calls : outcome[d] # "idle" \/ d \in new => outcome'[d] # "idle"
      BY <1>2, <1>4
    <2> QED
      BY <1>2, <1>3, <1>4, <1>5, <2>1 DEF Adds
  <1> QED
    BY <1>2, <1>3, <1>4, <1>6

\* A new call.
LEMMA InvokeAdds ==
  ASSUME Ends, NEW c \in Calls, H!Invoke(c)
  PROVE  /\ \E new \in SUBSET Calls : Adds(new, {})
         /\ \A d \in Calls \ {c} : outcome'[d] # "idle" => outcome[d] # "idle"
  <1>1. H!IInv /\ H!WireInv
    BY DEF Ends
  <1>2. PICK new \in SUBSET {c} :
          /\ H!Posts(new, {})
          /\ pendingInvokes' = pendingInvokes \cup new
          /\ H!InQueue' \subseteq (H!InQueue \cup {c}) \ new
    BY <1>1, InstanceAssumptions, H!InvokePosts
  <1>3. outcome[c] = "idle" /\ outcome \in [Calls -> H!Outcomes]
    BY EndTypes DEF H!Invoke, H!InvokeRefused, H!InvokeDispatched, H!InvokeQueued
  <1>4. PICK out \in H!Outcomes \ {"idle"} : outcome' = [outcome EXCEPT ![c] = out]
    BY DEF H!Invoke, H!InvokeRefused, H!InvokeDispatched, H!InvokeQueued, H!Refusal,
       H!Outcomes, H!Rejected, H!Waiting
  <1>5. c \notin sent \cup earlier /\ H!InQueue \cap (sent \cup earlier) = {}
    BY <1>3 DEF Ends, Linked
  <1>6. /\ \A d \in Calls \ {c} : outcome'[d] = outcome[d]
        /\ outcome'[c] # "idle"
    BY <1>3, <1>4
  <1>7. H!Settled \subseteq H!Settled'
    BY <1>3, <1>6 DEF H!Settled
  <1>8. Adds(new, {})
    BY <1>2, <1>5, <1>6, <1>7 DEF Adds
  <1> QED
    BY <1>6, <1>8

\* Nothing is sent.
LEMMA NothingAdds ==
  ASSUME Ends, UNCHANGED <<sent, earlier, toBridge, connected, wsOpen, pendingInvokes,
                           outcome, queue>>
  PROVE  Adds({}, {})
  <1>1. H!Posts({}, {})
    BY DEF H!Posts
  <1>2. H!InQueue' = H!InQueue /\ H!Settled' = H!Settled
    BY DEF H!InQueue, H!Settled
  <1>3. H!InQueue \cap (sent \cup earlier) = {}
    BY DEF Ends, Linked
  <1> QED
    BY <1>1, <1>2, <1>3 DEF Adds

\* Such a step keeps the two ends linked, also when the Hub has just read a frame.
LEMMA AddsLinked ==
  ASSUME Ends, NEW new, NEW cancelled, Adds(new, cancelled),
         UNCHANGED <<phase, cancelSeen, begun>>, B!OnSocket' \subseteq B!OnSocket
  PROVE  Linked'
  <1>1. Linked /\ H!WireInv
    BY DEF Ends
  <1>2. \A c : H!InvokeFrame(c) \in Wire \/ H!CancelFrame(c) \in Wire => c \in sent
    BY <1>1, WireSent
  <1>3. /\ \A c \in new : H!InvokeFrame(c) \notin Wire
        /\ \A c \in cancelled : H!CancelFrame(c) \notin Wire /\ c \notin cancelSeen
    <2>1. H!Settled \subseteq Calls /\ H!Settled' \subseteq Calls
      BY DEF H!Settled
    <2> QED
      BY <1>1, <1>2, <2>1 DEF Adds, Linked
  <1>4. /\ sent' \subseteq sent \cup new /\ sent \subseteq sent' /\ earlier' = earlier
        /\ H!Distinct(toBridge')
        /\ Wire \subseteq Wire'
        /\ \A c : H!InvokeFrame(c) \in Wire' => H!InvokeFrame(c) \in Wire \/ c \in new
        /\ \A c : H!CancelFrame(c) \in Wire' => H!CancelFrame(c) \in Wire \/ c \in cancelled
        /\ \A c \in sent' \ sent : H!InvokeFrame(c) \in Wire'
    <2>1. CASE wsOpen
      <3>1. /\ sent' = sent \cup new /\ earlier' = earlier
            /\ Wire' = Wire \cup {H!InvokeFrame(c) : c \in new}
                 \cup {H!CancelFrame(c) : c \in cancelled}
        BY <2>1 DEF Adds, H!Posts, Wire
      <3>2. H!Distinct(toBridge')
        BY <1>1, <1>3, <2>1 DEF Adds, H!Posts, Linked, Wire
      <3> QED
        BY <3>1, <3>2, PathFrames
    <2>2. CASE ~wsOpen
      BY <1>1, <2>2 DEF Adds, H!Posts, Linked, Wire
    <2> QED
      BY <2>1, <2>2
  <1>5. \A c \in sent' : H!InvokeFrame(c) \in Wire' \/ phase'[c] # "none"
    BY <1>1, <1>4 DEF Linked
  <1>6. \A c \in Calls : phase'[c] # "none" =>
          c \in sent' \cup earlier' /\ H!InvokeFrame(c) \notin Wire'
    BY <1>1, <1>4 DEF Linked, Adds
  <1>7. \A c \in sent' \cup earlier' : outcome'[c] # "idle" /\ c \notin H!InQueue'
    BY <1>1, <1>4, EndTypes DEF Linked, Adds
  <1>8. \A c \in Calls : H!CancelFrame(c) \in Wire' \/ c \in cancelSeen' => c \in H!Settled'
    BY <1>1, <1>4 DEF Linked, Adds
  <1>9. \A c \in cancelSeen' : H!CancelFrame(c) \notin Wire'
    BY <1>1, <1>3, <1>4 DEF Linked
  <1>10. /\ \A f \in B!OnSocket' : phase'[f.id] # "none"
         /\ \A c \in begun' : c \in Calls /\ phase'[c] # "none"
    BY <1>1 DEF Linked
  <1> QED
    BY <1>4, <1>5, <1>6, <1>7, <1>8, <1>9, <1>10 DEF Linked

\* It keeps every slot's reason, unless it takes an answer from its holder.
LEMMA AddsReasoned ==
  ASSUME Reasoned, NEW new, NEW cancelled, Adds(new, cancelled),
         UNCHANGED <<phase, linkUp>>, limited \subseteq limited',
         \A d \in pendingInvokes' : d \in limited' \/ B!AnswersTo(d) \cap B!OnSocket \subseteq B!OnSocket'
  PROVE  Reasoned'
  <1> SUFFICES ASSUME connected', wsOpen', linkUp', NEW c \in pendingInvokes'
               PROVE  Reason(c)'
    BY DEF Reasoned
  <1>1. /\ connected /\ wsOpen /\ linkUp /\ c \in pendingInvokes \cup new
        /\ Wire' = Wire \cup {H!InvokeFrame(d) : d \in new}
                     \cup {H!CancelFrame(d) : d \in cancelled}
    BY DEF Adds, H!Posts, Wire
  <1>2. CASE c \in new
    BY <1>1, <1>2 DEF Reason
  <1>3. CASE c \in limited'
    BY <1>3 DEF Reason
  <1>4. CASE c \in pendingInvokes /\ c \notin limited'
    <2>1. H!InvokeFrame(c) \in Wire \/ B!Underway(c)
      BY <1>1, <1>4 DEF Reasoned, Reason
    <2>2. B!Underway(c) => B!Underway(c)'
      BY <1>4 DEF B!Underway, B!AnswersTo, B!ResultFrame, B!CancelledFrame
    <2> QED
      BY <1>1, <2>1, <2>2 DEF Reason
  <1> QED
    BY <1>1, <1>2, <1>3, <1>4

\* The loss of the Hub's socket: what was sent on it was sent on an earlier one.
LEMMA GoneLinked ==
  ASSUME Ends, H!RejectAllPending("disconnected"), H!SocketGone,
         UNCHANGED <<phase, cancelSeen, begun, toHub>>
  PROVE  /\ Linked' /\ pendingInvokes' = {}
         /\ \A d \in Calls : outcome'[d] # "idle" => outcome[d] # "idle"
  <1>1. /\ toBridge' = <<>> /\ sent' = {} /\ earlier' = earlier \cup sent
        /\ pendingInvokes' = {} /\ queue' = <<>>
        /\ outcome' = [c \in Calls |-> IF c \in pendingInvokes \cup H!InQueue
                                         THEN "disconnected" ELSE outcome[c]]
    BY DEF H!RejectAllPending, H!SocketGone
  <1>2. Wire' = {} /\ H!InQueue' = {} /\ H!Distinct(toBridge')
    BY <1>1 DEF Wire, H!Elements, H!InQueue, H!Distinct
  <1>3. \A d \in Calls : outcome'[d] # "idle" <=> outcome[d] # "idle"
    BY <1>1, EndTypes
  <1>4. H!Settled \subseteq H!Settled'
    BY <1>1, EndTypes DEF H!Settled, H!Waiting
  <1>5. B!OnSocket' = B!OnSocket
    BY DEF B!OnSocket
  <1>6. Linked
    BY DEF Ends
  <1>7. \A c \in sent' \cup earlier' : outcome'[c] # "idle"
    BY <1>1, <1>3, <1>6, EndTypes DEF Linked
  <1>8. Linked'
    BY <1>1, <1>2, <1>4, <1>5, <1>6, <1>7 DEF Linked
  <1> QED
    BY <1>1, <1>3, <1>8

-----------------------------------------------------------------------------
(* Steps of the Bridge.                                                    *)

\* A handler of a call that the Bridge has heard of, which leaves the wire alone.
LEMMA AboutLinked ==
  ASSUME Ends, NEW c \in Calls, NEW ok, B!About(c, ok), UNCHANGED <<hubVars, cancelSeen>>,
         phase[c] # "none" \/ phase' = phase, phase' \in [Calls -> B!Phases],
         begun' = begun \cup {d \in Calls : phase[d] # "running" /\ phase'[d] = "running"}
  PROVE  Linked'
  <1>1. /\ UNCHANGED <<sent, earlier, outcome, toBridge>>
        /\ Wire' = Wire /\ H!InQueue' = H!InQueue /\ H!Settled' = H!Settled
        /\ H!Distinct(toBridge') = H!Distinct(toBridge)
    BY DEF hubVars, Wire, H!InQueue, H!Settled
  <1>2. Linked
    BY DEF Ends
  <1>3. \A d \in Calls : phase'[d] # "none" <=> phase[d] # "none"
    BY DEF B!About
  <1>4. \A d \in sent \cup earlier : d \in Calls
    BY EndTypes
  <1>5. \A f \in B!OnSocket' : phase'[f.id] # "none"
    <2> SUFFICES ASSUME NEW f \in B!OnSocket' PROVE phase'[f.id] # "none"
      OBVIOUS
    <2>1. CASE f \in B!OnSocket
      <3>1. phase[f.id] # "none" /\ f.id \in Calls
        BY <1>2, <2>1, EndTypes, B!FramesType DEF Linked, B!OnSocket, B!HubFrames
      <3> QED
        BY <1>3, <3>1
    <2>2. CASE f \notin B!OnSocket
      BY <2>2, <1>3 DEF B!About
    <2> QED
      BY <2>1, <2>2
  <1>6. \A d \in begun' : d \in Calls /\ phase'[d] # "none"
    BY <1>2, <1>3 DEF Linked
  <1>7. /\ \A d \in sent : H!InvokeFrame(d) \in Wire \/ phase'[d] # "none"
        /\ \A d \in Calls : phase'[d] # "none" =>
             d \in sent \cup earlier /\ H!InvokeFrame(d) \notin Wire
    BY <1>2, <1>3, <1>4 DEF Linked
  <1> QED
    BY <1>1, <1>2, <1>5, <1>6, <1>7 DEF Linked

\* It leaves every slot its reason: whatever it was doing for c, it does it still
\* or has put the answer on the socket.
LEMMA AboutReasoned ==
  ASSUME Ends, Reasoned, NEW c \in Calls, NEW ok, B!About(c, ok),
         UNCHANGED <<connected, wsOpen, pendingInvokes, limited>>,
         \A d \in Calls \ {c} : H!InvokeFrame(d) \in Wire => H!InvokeFrame(d) \in Wire',
         c \in pendingInvokes /\ connected /\ wsOpen /\ linkUp =>
           \/ phase' = phase /\ Reason(c) /\ (H!InvokeFrame(c) \in Wire => H!InvokeFrame(c) \in Wire')
           \/ phase' # phase /\ (phase[c] = "none" \/ B!Underway(c) \/ c \in limited)
  PROVE  Reasoned'
  <1> SUFFICES ASSUME connected', wsOpen', linkUp', NEW d \in pendingInvokes'
               PROVE  Reason(d)'
    BY DEF Reasoned
  <1>1. connected /\ wsOpen /\ linkUp /\ d \in pendingInvokes /\ d \in Calls /\ Reason(d)
    BY EndTypes DEF B!About, Reasoned
  <1>2. /\ B!OnSocket \subseteq B!OnSocket'
        /\ \A e : B!AnswersTo(e)' = B!AnswersTo(e)
    BY DEF B!About, B!AnswersTo, B!ResultFrame, B!CancelledFrame
  <1>3. ASSUME phase'[d] = phase[d], B!Underway(d) PROVE B!Underway(d)'
    BY <1>2, <1>3 DEF B!Underway
  <1>4. CASE d # c
    <2>1. phase'[d] = phase[d]
      BY <1>1, <1>4 DEF B!About
    <2> QED
      BY <1>1, <1>3, <1>4, <2>1 DEF Reason
  <1>5. CASE d = c /\ phase' = phase
    BY <1>1, <1>3, <1>5 DEF Reason
  <1>6. CASE d = c /\ phase' # phase
    BY <1>1, <1>6 DEF Reason, B!About
  <1> QED
    BY <1>4, <1>5, <1>6

-----------------------------------------------------------------------------
(* The frames that pass.                                                   *)

\* The Bridge reads an invocation that it has not heard of, or the first cancel of
\* one that it has.
LEMMA FrameRead ==
  ASSUME Ends, H!BridgeReads, NEW f, f = Head(toBridge)
  PROVE  /\ Wire' = Wire \ {f} /\ H!Distinct(toBridge') /\ f.id \in Calls
         /\ f.type = "invoke" =>
              f = H!InvokeFrame(f.id) /\ f.id \in sent /\ phase[f.id] = "none"
         /\ f.type = "cancel" =>
              /\ f = H!CancelFrame(f.id) /\ f.id \in sent /\ phase[f.id] # "none"
              /\ f.id \notin cancelSeen /\ f.id \in H!Settled
         /\ UNCHANGED <<pendingInvokes, outcome, queue, connected, wsOpen, sent, earlier>>
  <1>1. /\ toBridge \in Seq(H!Frames) /\ toBridge # <<>> /\ toBridge' = Tail(toBridge)
        /\ H!Distinct(toBridge) /\ H!WireInv /\ Linked
        /\ UNCHANGED <<pendingInvokes, outcome, queue, connected, wsOpen, sent, earlier>>
    BY EndTypes DEF H!BridgeReads, Ends, Linked, H!callVars, H!connVars
  <1>2. /\ Head(toBridge) \in Wire
        /\ H!Elements(Tail(toBridge)) = Wire \ {Head(toBridge)}
        /\ H!Distinct(Tail(toBridge))
    BY <1>1, InstanceAssumptions, H!TailElements DEF Wire
  <1>3. /\ Wire' = Wire \ {f} /\ H!Distinct(toBridge') /\ f \in Wire
    BY <1>1, <1>2 DEF Wire
  <1>4. f \in H!Frames /\ Len(toBridge) \in Nat \ {0} /\ DOMAIN toBridge = 1 .. Len(toBridge)
        /\ f = toBridge[1]
    BY <1>1, EmptySeq, LenProperties, HeadTailProperties
  <1>5. /\ f.id \in Calls
        /\ f.type = "invoke" => f = H!InvokeFrame(f.id)
        /\ f.type = "cancel" => f = H!CancelFrame(f.id)
    BY <1>4, PathFrames
  <1>6. ASSUME f.type = "invoke" PROVE f.id \in sent /\ phase[f.id] = "none"
    BY <1>1, <1>3, <1>5, <1>6, WireSent DEF Linked
  <1>7. ASSUME f.type = "cancel"
        PROVE  f.id \in sent /\ phase[f.id] # "none" /\ f.id \notin cancelSeen /\ f.id \in H!Settled
    <2>1. f.id \in sent
      BY <1>1, <1>3, <1>5, <1>7, WireSent
    <2>2. \A j \in DOMAIN toBridge : toBridge[j] = H!InvokeFrame(f.id) => j < 1
      BY <1>1, <1>4, <1>7 DEF H!WireInv, H!Carries
    <2>3. H!InvokeFrame(f.id) \notin Wire
      BY <1>4, <2>2 DEF Wire, H!Elements
    <2> QED
      BY <1>1, <1>3, <1>5, <1>7, <2>1, <2>3 DEF Linked
  <1> QED
    BY <1>1, <1>3, <1>5, <1>6, <1>7

\* The Hub reads an answer or an acknowledgement of a call that was sent and read.
LEMMA AnswerRead ==
  ASSUME Ends, B!HubReads, NEW f, f = Head(toHub)
  PROVE  /\ f \in B!HubFrames /\ f.id \in Calls /\ f \in B!OnSocket
         /\ f.id \in H!ReadByBridge
         /\ B!OnSocket = B!OnSocket' \cup {f}
         /\ UNCHANGED <<phase, cancelSeen, linkUp>>
  <1>1. /\ f \in B!HubFrames /\ f \in B!OnSocket /\ B!OnSocket = B!OnSocket' \cup {f}
        /\ UNCHANGED <<phase, cancelSeen, linkUp>>
    <2>1. /\ Head(toHub) \in B!HubFrames /\ Head(toHub) \in B!OnSocket
          /\ B!OnSocket = B!OnSocket' \cup {Head(toHub)}
      BY EndTypes, InstanceAssumptions, B!ReadFrame
    <2> QED
      BY <2>1 DEF B!HubReads, B!routeVars
  <1>2. f.id \in Calls
    BY <1>1 DEF B!HubFrames
  <1>3. f.id \in sent \cup earlier /\ H!InvokeFrame(f.id) \notin Wire
    BY <1>1, <1>2 DEF Ends, Linked
  <1>4. f.id \in H!ReadByBridge
    BY <1>3 DEF H!ReadByBridge, Wire, H!Elements
  <1> QED
    BY <1>1, <1>2, <1>4

\* A result, and a cancellation that is not late, give the slot back.
LEMMA SettlesAdds ==
  ASSUME Ends, NEW c \in Calls,
         H!OnResult(c) \/ \E late \in BOOLEAN : H!OnCancelled(c, late)
  PROVE  /\ \E new : Adds(new, {})
         /\ H!OnResult(c) \/ H!OnCancelled(c, FALSE) => c \notin pendingInvokes'
         /\ \A d \in Calls : outcome'[d] # "idle" => outcome[d] # "idle"
  <1>1. {"result", "cancelled"} \subseteq H!Outcomes \ {"idle", "waiting"}
    BY DEF H!Outcomes, H!Rejected
  <1>2. CASE UNCHANGED H!vars /\ c \notin pendingInvokes
    <2>1. Adds({}, {})
      BY <1>2, NothingAdds DEF H!vars, H!callVars, H!connVars, H!wireVars
    <2> QED
      BY <1>2, <2>1 DEF H!vars, H!callVars
  <1>3. CASE c \in pendingInvokes /\ \E res \in {"result", "cancelled"} : H!FreeSlot(c, <<>>, res)
    BY <1>1, <1>3, FreeSlotAdds
  <1>4. CASE UNCHANGED H!vars /\ c \in pendingInvokes /\ ~H!OnResult(c) /\ ~H!OnCancelled(c, FALSE)
    <2>1. Adds({}, {})
      BY <1>4, NothingAdds DEF H!vars, H!callVars, H!connVars, H!wireVars
    <2> QED
      BY <1>4, <2>1 DEF H!vars, H!callVars
  <1> QED
    <2>1. CASE H!OnResult(c)
      BY <1>2, <1>3, <2>1 DEF H!OnResult
    <2>2. CASE ~H!OnResult(c)
      <3>1. PICK late \in BOOLEAN : H!OnCancelled(c, late)
        BY <2>2
      <3>2. CASE H!OnCancelled(c, FALSE)
        BY <1>2, <1>3, <3>2 DEF H!OnCancelled
      <3>3. CASE ~H!OnCancelled(c, FALSE)
        <4>1. UNCHANGED H!vars /\ c \in pendingInvokes
          BY <3>1, <3>3 DEF H!OnCancelled
        <4> QED
          BY <1>4, <2>2, <3>3, <4>1
      <3> QED
        BY <3>2, <3>3
    <2> QED
      BY <2>1, <2>2

-----------------------------------------------------------------------------
(* The two ends stay linked, and every slot keeps its reason.              *)

\* What the Hub does while the Bridge does nothing.
LEMMA HubActsLinked ==
  ASSUME Ends, Reasoned, UNCHANGED <<bridgeVars, history>>,
         \/ \E c \in Calls : H!Invoke(c) \/ H!TimerFires(c)
         \/ H!SocketCloses \/ H!HandleDisconnect \/ H!Connect
  PROVE  Linked' /\ Reasoned'
  <1>1. /\ UNCHANGED <<phase, cancelSeen, begun, limited, linkUp, toHub>>
        /\ B!OnSocket' = B!OnSocket
    BY DEF bridgeVars, history, B!OnSocket
  <1>2. ASSUME NEW new, NEW cancelled, Adds(new, cancelled) PROVE Linked' /\ Reasoned'
    BY <1>1, <1>2, AddsLinked, AddsReasoned
  <1>3. ASSUME NEW c \in Calls, H!Invoke(c) PROVE Linked' /\ Reasoned'
    BY <1>2, <1>3, InvokeAdds
  <1>4. ASSUME NEW c \in Calls, H!TimerFires(c) PROVE Linked' /\ Reasoned'
    <2>1. c \in pendingInvokes
      BY <1>4 DEF H!TimerFires, Ends, H!IInv, H!TimersOwnSlots
    <2>2. "timeout" \in H!Outcomes \ {"idle", "waiting"}
      BY DEF H!Outcomes, H!Rejected
    <2>3. H!FreeSlot(c, <<H!CancelFrame(c)>>, "timeout")
      BY <1>4 DEF H!TimerFires
    <2>4. \E new \in SUBSET Calls : Adds(new, {c})
      BY <2>1, <2>2, <2>3, FreeSlotAdds
    <2> QED
      BY <1>2, <2>4
  <1>5. CASE H!HandleDisconnect
    <2>1. Linked' /\ ~connected'
      BY <1>1, <1>5, GoneLinked DEF H!HandleDisconnect
    <2> QED
      BY <2>1 DEF Reasoned
  <1>6. CASE H!SocketCloses \/ H!Connect
    <2>1. /\ UNCHANGED <<sent, earlier, outcome, toBridge, pendingInvokes, queue>>
          /\ Wire' = Wire /\ H!InQueue' = H!InQueue /\ H!Settled' = H!Settled
          /\ H!Distinct(toBridge') = H!Distinct(toBridge)
      BY <1>6 DEF H!SocketCloses, H!Connect, H!callVars, H!wireVars, Wire, H!InQueue, H!Settled
    <2>2. Linked'
      BY <1>1, <2>1 DEF Ends, Linked
    <2>3. Reasoned'
      <3>1. ~wsOpen' \/ pendingInvokes' = {}
        BY <1>6, <2>1 DEF H!SocketCloses, H!Connect, Ends, H!IInv, H!NothingHeldWhileDown
      <3> QED
        BY <3>1 DEF Reasoned
    <2> QED
      BY <2>2, <2>3
  <1> QED
    BY <1>3, <1>4, <1>5, <1>6

\* The Bridge reads a frame.
LEMMA BridgeReadsLinked ==
  ASSUME Ends, Reasoned, BridgeReadsFrame
  PROVE  Linked' /\ Reasoned'
  <1> DEFINE f == Head(toBridge)
             c == f.id
  <1>1. /\ linkUp /\ H!BridgeReads /\ UNCHANGED <<connected, wsOpen, pendingInvokes, limited>>
        /\ \/ f.type = "invoke" /\ B!HandleInvoke(c)
           \/ f.type = "cancel" /\ B!HandleCancel(c)
        /\ begun' = begun \cup {d \in Calls : phase[d] # "running" /\ phase'[d] = "running"}
    BY SameHub, SameBridge DEF BridgeReadsFrame, H!BridgeReads, H!callVars, H!connVars
  <1>2. /\ Wire' = Wire \ {f} /\ H!Distinct(toBridge') /\ c \in Calls
        /\ f.type = "invoke" =>
              f = H!InvokeFrame(c) /\ c \in sent /\ phase[c] = "none"
        /\ f.type = "cancel" =>
             /\ f = H!CancelFrame(c) /\ c \in sent /\ phase[c] # "none"
             /\ c \notin cancelSeen /\ c \in H!Settled
        /\ UNCHANGED <<pendingInvokes, outcome, queue, connected, wsOpen, sent, earlier>>
    BY <1>1, FrameRead
  <1> HIDE DEF f, c
  <1>3. /\ B!About(c, FALSE) /\ phase'[c] # "none"
        /\ f.type = "invoke" => cancelSeen' = cancelSeen
        /\ f.type = "cancel" => cancelSeen' = cancelSeen \cup {c}
    <2>1. B!IInv
      BY DEF Ends
    <2>2. CASE f.type = "invoke"
      <3>1. B!HandleInvoke(c)
        BY <1>1, <2>2
      <3>2. B!About(c, FALSE) /\ phase'[c] # "none"
        BY <1>2, <2>1, <3>1, InstanceAssumptions, B!HandlersAbout
      <3> QED
        BY <2>2, <3>1, <3>2 DEF B!HandleInvoke
    <2>3. CASE f.type = "cancel"
      <3>1. B!HandleCancel(c) /\ phase[c] # "none"
        BY <1>1, <1>2, <2>3
      <3>2. B!About(c, FALSE)
        BY <1>2, <2>1, <3>1, InstanceAssumptions, B!HandlersAbout
      <3> QED
        BY <2>3, <3>1, <3>2 DEF B!HandleCancel, B!About
    <2> QED
      BY <1>1, <2>2, <2>3
  <1>4. Linked /\ H!InQueue' = H!InQueue /\ H!Settled' = H!Settled
    BY <1>2 DEF Ends, H!InQueue, H!Settled
  <1>5. /\ \A d \in Calls \ {c} : phase'[d] = phase[d]
        /\ \A g \in B!OnSocket' : g \in B!OnSocket \/ g.id = c
        /\ \A g \in B!OnSocket : g.id \in Calls
    <2>1. \A g \in B!OnSocket : g.id \in Calls
      BY EndTypes DEF B!OnSocket, B!HubFrames
    <2> QED
      BY <1>3, <2>1 DEF B!About
  <1>6. /\ \A d : d # c => (H!InvokeFrame(d) \in Wire' <=> H!InvokeFrame(d) \in Wire)
        /\ \A d : H!CancelFrame(d) \in Wire' => H!CancelFrame(d) \in Wire
        /\ H!InvokeFrame(c) \notin Wire'
        /\ f.type = "cancel" => H!CancelFrame(c) \notin Wire'
    <2>1. CASE f.type = "invoke"
      BY <1>2, <2>1, PathFrames
    <2>2. CASE f.type = "cancel"
      BY <1>2, <1>4, <2>2, PathFrames DEF Linked
    <2> QED
      BY <1>1, <2>1, <2>2
  <1>7. Linked'
    <2>1. \A d \in sent' : H!InvokeFrame(d) \in Wire' \/ phase'[d] # "none"
      BY <1>2, <1>3, <1>4, <1>5, <1>6, EndTypes DEF Linked
    <2>2. \A d \in Calls : phase'[d] # "none" =>
            d \in sent' \cup earlier' /\ H!InvokeFrame(d) \notin Wire'
      <3>1. c \in sent
        BY <1>1, <1>2
      <3> QED
        BY <1>2, <1>4, <1>5, <1>6, <3>1 DEF Linked
    <2>3. \A d \in sent' \cup earlier' : outcome'[d] # "idle" /\ d \notin H!InQueue'
      BY <1>2, <1>4 DEF Linked
    <2>4. \A d \in Calls : H!CancelFrame(d) \in Wire' \/ d \in cancelSeen' => d \in H!Settled'
      BY <1>1, <1>2, <1>3, <1>4, <1>6 DEF Linked
    <2>5. \A d \in cancelSeen' : H!CancelFrame(d) \notin Wire'
      BY <1>1, <1>3, <1>4, <1>6 DEF Linked
    <2>6. \A g \in B!OnSocket' : phase'[g.id] # "none"
      BY <1>3, <1>4, <1>5 DEF Linked
    <2>7. \A d \in begun' : d \in Calls /\ phase'[d] # "none"
      BY <1>1, <1>3, <1>4, <1>5 DEF Linked
    <2> QED
      BY <1>2, <2>1, <2>2, <2>3, <2>4, <2>5, <2>6, <2>7 DEF Linked
  <1>8. Reasoned'
    <2>1. f.type = "cancel" => c \notin pendingInvokes
      BY <1>2, EndTypes DEF H!Settled, H!Waiting
    <2>2. f.type = "invoke" => phase' # phase /\ phase[c] = "none"
      BY <1>2, <1>3
    <2> QED
      BY <1>1, <1>2, <1>3, <1>6, <2>1, <2>2, AboutReasoned
  <1> QED
    BY <1>7, <1>8

\* A frame of the Bridge passes the Hub's message handler, or is dropped by it.
LEMMA HubReadsLinked ==
  ASSUME Ends, Reasoned, HubReadsFrame \/ RateLimited
  PROVE  /\ Linked' /\ Reasoned'
         /\ \A d \in Calls : outcome'[d] # "idle" => outcome[d] # "idle"
  <1> DEFINE f == Head(toHub)
             c == f.id
  <1>1. B!HubReads /\ begun' = begun /\ limited \subseteq limited'
    BY SameBridge DEF HubReadsFrame, RateLimited, history
  <1>2. /\ f \in B!HubFrames /\ c \in Calls
        /\ B!OnSocket = B!OnSocket' \cup {f}
        /\ UNCHANGED <<phase, cancelSeen, linkUp>>
    BY <1>1, AnswerRead
  <1>3. ASSUME NEW d \in Calls, d # c PROVE f \notin B!AnswersTo(d)
    BY <1>3 DEF B!AnswersTo, B!ResultFrame, B!CancelledFrame
  <1>4. CASE HubReadsFrame
    <2>1. \/ f.type = "result" /\ H!OnResult(c)
          \/ f.type = "cancelled" /\ H!OnCancelled(c, f.late)
      BY <1>4, SameHub DEF HubReadsFrame
    <2>2. f.type = "cancelled" => f.late \in BOOLEAN
      BY <1>2 DEF B!HubFrames
    <2>3. /\ \E new : Adds(new, {})
          /\ H!OnResult(c) \/ H!OnCancelled(c, FALSE) => c \notin pendingInvokes'
          /\ \A d \in Calls : outcome'[d] # "idle" => outcome[d] # "idle"
      BY <1>2, <2>1, <2>2, SettlesAdds
    <2>4. PICK new : Adds(new, {})
      BY <2>3
    <2>5. c \notin pendingInvokes' \/ f \notin B!AnswersTo(c)
      <3>1. CASE f.type = "result" \/ (f.type = "cancelled" /\ f.late = FALSE)
        BY <2>1, <2>3, <3>1
      <3>2. CASE f.type = "cancelled" /\ f.late = TRUE
        BY <3>2 DEF B!AnswersTo, B!ResultFrame, B!CancelledFrame
      <3> QED
        BY <2>1, <2>2, <3>1, <3>2
    <2>6. \A d \in pendingInvokes' : d \in Calls
      BY <2>4, EndTypes DEF Adds
    <2> HIDE DEF f, c
    <2>7. \A d \in pendingInvokes' : B!AnswersTo(d) \cap B!OnSocket \subseteq B!OnSocket'
      BY <1>2, <1>3, <2>5, <2>6
    <2> QED
      BY <1>1, <1>2, <2>3, <2>4, <2>7, AddsLinked, AddsReasoned
  <1>5. CASE RateLimited
    <2>1. /\ Adds({}, {}) /\ pendingInvokes \subseteq Calls /\ c \in limited'
          /\ UNCHANGED <<outcome, pendingInvokes>>
      BY <1>5, NothingAdds, EndTypes DEF RateLimited, hubVars
    <2> HIDE DEF f, c
    <2>2. \A d \in pendingInvokes' :
            d \in limited' \/ B!AnswersTo(d) \cap B!OnSocket \subseteq B!OnSocket'
      BY <1>2, <1>3, <2>1
    <2> QED
      BY <1>1, <1>2, <2>1, <2>2, AddsLinked, AddsReasoned
  <1> QED
    BY <1>4, <1>5

\* The Bridge's socket opens again: on the Hub nothing is left of the one before.
LEMMA ReconnectLinked ==
  ASSUME Ends, Reconnect
  PROVE  /\ Linked' /\ Reasoned'
         /\ \A d \in Calls : outcome'[d] # "idle" => outcome[d] # "idle"
  <1>1. /\ UNCHANGED <<phase, cancelSeen, begun, toHub>> /\ B!OnSocket' = B!OnSocket
        /\ H!Connect \/ H!Evict
    BY SameHub DEF Reconnect, Bridge!LinkReturns, Bridge!routeVars, history, B!OnSocket
  <1>2. CASE H!Connect
    <2>1. /\ UNCHANGED <<sent, earlier, outcome, toBridge, pendingInvokes>>
          /\ Wire' = Wire /\ H!InQueue' = H!InQueue /\ H!Settled' = H!Settled
          /\ H!Distinct(toBridge') = H!Distinct(toBridge)
      BY <1>2 DEF H!Connect, H!callVars, H!wireVars, Wire, H!InQueue, H!Settled
    <2>2. pendingInvokes' = {}
      BY <1>2, <2>1 DEF H!Connect, Ends, H!IInv, H!NothingHeldWhileDown
    <2>3. Linked'
      BY <1>1, <2>1 DEF Ends, Linked
    <2> QED
      BY <2>1, <2>2, <2>3 DEF Reasoned
  <1>3. CASE H!Evict
    <2>1. /\ Linked' /\ pendingInvokes' = {}
          /\ \A d \in Calls : outcome'[d] # "idle" => outcome[d] # "idle"
      BY <1>1, <1>3, GoneLinked DEF H!Evict
    <2> QED
      BY <2>1 DEF Reasoned
  <1> QED
    BY <1>1, <1>2, <1>3

\* The dialog, the timer, the handler of a call, or the loss of the socket.
LEMMA BridgeActsLinked ==
  ASSUME Ends, Reasoned, BridgeAlone \/ \E c \in Calls, ok \in BOOLEAN : ToolReturns(c, ok)
  PROVE  Linked' /\ Reasoned'
  <1>1. /\ UNCHANGED hubVars /\ limited' = limited /\ B!IInv
    BY DEF BridgeAlone, ToolReturns, Ends
  <1>2. UNCHANGED <<connected, wsOpen, pendingInvokes, toBridge>> /\ Wire' = Wire
    BY <1>1 DEF hubVars, Wire
  <1>3. ASSUME NEW c \in Calls, NEW ok, B!About(c, ok), cancelSeen' = cancelSeen,
               phase[c] # "none" \/ phase' = phase, phase' \in [Calls -> B!Phases],
               begun' = begun \cup {d \in Calls : phase[d] # "running" /\ phase'[d] = "running"}
        PROVE  Linked' /\ Reasoned'
    <2>1. Linked'
      BY <1>1, <1>3, AboutLinked
    <2>2. phase[c] # "none" => H!InvokeFrame(c) \notin Wire
      BY DEF Ends, Linked
    <2>3. connected /\ wsOpen /\ linkUp => \A d \in pendingInvokes : Reason(d)
      BY DEF Reasoned
    <2>4. Reasoned'
      BY <1>1, <1>2, <1>3, <2>2, <2>3, AboutReasoned DEF Reason
    <2> QED
      BY <2>1, <2>4
  <1>4. ASSUME NEW c \in Calls, NEW yes \in BOOLEAN, B!ConfirmAnswered(c, yes),
               begun' = begun \cup {d \in Calls : phase[d] # "running" /\ phase'[d] = "running"}
        PROVE  Linked' /\ Reasoned'
    <2>1. B!About(c, FALSE)
      BY <1>1, <1>4, InstanceAssumptions, B!HandlersAbout
    <2>2. phase[c] # "none" /\ cancelSeen' = cancelSeen /\ phase' \in [Calls -> B!Phases]
      BY <1>4, EndTypes DEF B!ConfirmAnswered, B!Start, B!Phases
    <2> QED
      BY <1>3, <1>4, <2>1, <2>2
  <1>5. ASSUME NEW c \in Calls, B!CallTimerFires(c),
               begun' = begun \cup {d \in Calls : phase[d] # "running" /\ phase'[d] = "running"}
        PROVE  Linked' /\ Reasoned'
    <2>1. B!About(c, FALSE)
      BY <1>1, <1>5, InstanceAssumptions, B!HandlersAbout
    <2>2. /\ phase[c] # "none" \/ phase' = phase
          /\ cancelSeen' = cancelSeen /\ phase' \in [Calls -> B!Phases]
      BY <1>5, EndTypes DEF B!CallTimerFires, B!Phases
    <2> QED
      BY <1>3, <1>5, <2>1, <2>2
  <1>6. ASSUME NEW c \in Calls, NEW ok \in BOOLEAN, ToolReturns(c, ok)
        PROVE  Linked' /\ Reasoned'
    <2>1. B!HandlerSettles(c, ok) /\ begun' = begun
      BY <1>6, SameBridge DEF ToolReturns
    <2>2. B!About(c, ok)
      BY <1>1, <2>1, InstanceAssumptions, B!HandlersAbout
    <2>3. /\ phase[c] # "none" \/ phase' = phase
          /\ cancelSeen' = cancelSeen /\ phase' \in [Calls -> B!Phases]
          /\ {d \in Calls : phase[d] # "running" /\ phase'[d] = "running"} = {}
      BY <2>1, EndTypes DEF B!HandlerSettles, B!Phases
    <2> QED
      BY <1>3, <2>1, <2>2, <2>3
  <1>7. ASSUME B!LinkDrops,
               begun' = begun \cup {d \in Calls : phase[d] # "running" /\ phase'[d] = "running"}
        PROVE  Linked' /\ Reasoned'
    <2>1. /\ UNCHANGED <<phase, cancelSeen>> /\ ~linkUp' /\ B!OnSocket' = {} /\ begun' = begun
      BY <1>7 DEF B!LinkDrops, B!routeVars, B!OnSocket
    <2>2. Adds({}, {})
      BY <1>1, NothingAdds DEF hubVars
    <2> QED
      BY <2>1, <2>2, AddsLinked DEF Reasoned
  <1> QED
    BY <1>4, <1>5, <1>6, <1>7, SameBridge DEF BridgeAlone

\* Every step keeps the ends linked and the slots held for a reason.
LEMMA LinkedNext == Ends /\ Reasoned /\ [Next]_vars => Linked' /\ Reasoned'
  <1> SUFFICES ASSUME Ends, Reasoned, [Next]_vars PROVE Linked' /\ Reasoned'
    OBVIOUS
  <1>1. ASSUME NEW q \in Requests, CallTool(q) \/ Retry(q) PROVE Linked' /\ Reasoned'
    <2>1. \E c \in Calls : H!Invoke(c)
      BY <1>1, SameHub DEF CallTool, Retry, Calls
    <2> QED
      BY <1>1, <2>1, HubActsLinked DEF CallTool, Retry
  <1>2. CASE HubAlone \/ FirstConnection
    <2>1. \/ \E c \in Calls : H!TimerFires(c)
          \/ H!SocketCloses \/ H!HandleDisconnect \/ H!Connect
      BY <1>2, SameHub DEF HubAlone, FirstConnection
    <2> QED
      BY <1>2, <2>1, HubActsLinked DEF HubAlone, FirstConnection
  <1>3. CASE BridgeReadsFrame
    BY <1>3, BridgeReadsLinked
  <1>4. CASE HubReadsFrame \/ RateLimited
    BY <1>4, HubReadsLinked
  <1>5. CASE BridgeAlone \/ \E c \in Calls, ok \in BOOLEAN : ToolReturns(c, ok)
    BY <1>5, BridgeActsLinked
  <1>6. CASE Reconnect
    BY <1>6, ReconnectLinked
  <1>7. ASSUME UNCHANGED <<hubVars, bridgeVars, history>> PROVE Linked' /\ Reasoned'
    <2>1. Adds({}, {})
      BY <1>7, NothingAdds DEF hubVars
    <2>2. UNCHANGED <<phase, cancelSeen, begun, limited, linkUp>> /\ B!OnSocket' = B!OnSocket
      BY <1>7 DEF bridgeVars, history, B!OnSocket
    <2> QED
      BY <2>1, <2>2, AddsLinked, AddsReasoned
  <1>8. ASSUME NEW q \in Requests, Respond(q) PROVE Linked' /\ Reasoned'
    BY <1>7, <1>8 DEF Respond
  <1>9. CASE UNCHANGED vars
    BY <1>7, <1>9 DEF vars
  <1> QED
    BY <1>1, <1>2, <1>3, <1>4, <1>5, <1>6, <1>8, <1>9 DEF Next

-----------------------------------------------------------------------------
(* Every step of the path is a step of each end.                           *)

LEMMA HubStep == Ends /\ [Next]_vars => [H!Next]_(H!vars)
  <1> SUFFICES ASSUME Ends, [Next]_vars PROVE [H!Next]_(H!vars)
    OBVIOUS
  <1>1. ASSUME UNCHANGED hubVars PROVE UNCHANGED H!vars
    BY <1>1 DEF hubVars, H!vars, H!callVars, H!stateVars, H!connVars, H!wireVars
  <1>2. ASSUME NEW q \in Requests, CallTool(q) \/ Retry(q) PROVE H!Next
    <2>1. \E c \in Calls : H!Invoke(c)
      BY <1>2, SameHub DEF CallTool, Retry, Calls
    <2> QED
      BY <2>1 DEF H!Next
  <1>3. CASE HubAlone \/ FirstConnection \/ Reconnect
    <2>1. \/ \E c \in Calls : H!TimerFires(c)
          \/ H!SocketCloses \/ H!HandleDisconnect \/ H!Connect \/ H!Evict
      BY <1>3, SameHub DEF HubAlone, FirstConnection, Reconnect
    <2> QED
      BY <2>1 DEF H!Next
  <1>4. CASE BridgeReadsFrame
    <2>1. H!BridgeReads
      BY <1>4, SameHub DEF BridgeReadsFrame
    <2> QED
      BY <2>1 DEF H!Next
  <1>5. CASE HubReadsFrame
    <2> DEFINE f == Head(toHub)
    <2>1. /\ connected
          /\ \/ H!OnResult(f.id)
             \/ f.type = "cancelled" /\ H!OnCancelled(f.id, f.late)
      BY <1>5, SameHub DEF HubReadsFrame
    <2>2. B!HubReads
      BY <1>5, SameBridge DEF HubReadsFrame
    <2>3. f \in B!HubFrames /\ f.id \in Calls /\ f.id \in H!ReadByBridge
      BY <2>2, AnswerRead
    <2>4. f.type = "cancelled" => f.late \in BOOLEAN
      BY <2>3 DEF B!HubFrames
    <2> HIDE DEF f
    <2>5. \/ \E c \in Calls : connected /\ c \in H!ReadByBridge /\ H!OnResult(c)
          \/ \E c \in Calls, late \in BOOLEAN :
               connected /\ c \in H!ReadByBridge /\ H!OnCancelled(c, late)
      BY <2>1, <2>3, <2>4
    <2> QED
      BY <2>5 DEF H!Next
  <1>6. ASSUME NEW q \in Requests, Respond(q) PROVE UNCHANGED hubVars
    BY <1>6 DEF Respond
  <1>7. CASE RateLimited \/ BridgeAlone \/ \E c \in Calls, ok \in BOOLEAN : ToolReturns(c, ok)
    BY <1>1, <1>7 DEF RateLimited, BridgeAlone, ToolReturns
  <1>8. CASE UNCHANGED vars
    BY <1>1, <1>8 DEF vars
  <1> QED
    BY <1>1, <1>2, <1>3, <1>4, <1>5, <1>6, <1>7, <1>8 DEF Next

LEMMA BridgeStep == Ends /\ [Next]_vars => [B!Next]_(B!vars)
  <1> SUFFICES ASSUME Ends, [Next]_vars PROVE [B!Next]_(B!vars)
    OBVIOUS
  <1>1. ASSUME UNCHANGED bridgeVars PROVE UNCHANGED B!vars
    BY <1>1 DEF bridgeVars, B!vars, B!routeVars, B!linkVars
  <1>2. ASSUME NEW q \in Requests, CallTool(q) \/ Retry(q) \/ Respond(q)
        PROVE  UNCHANGED bridgeVars
    BY <1>2 DEF CallTool, Retry, Respond, bridgeVars
  <1>3. CASE HubAlone \/ FirstConnection
    BY <1>1, <1>3 DEF HubAlone, FirstConnection
  <1>4. CASE BridgeReadsFrame
    <2> DEFINE f == Head(toBridge)
    <2>1. /\ linkUp /\ H!BridgeReads
          /\ \/ f.type = "invoke" /\ B!HandleInvoke(f.id)
             \/ f.type = "cancel" /\ B!HandleCancel(f.id)
      BY <1>4, SameHub, SameBridge DEF BridgeReadsFrame
    <2>2. /\ f.id \in Calls
          /\ f.type = "cancel" => phase[f.id] # "none" /\ f.id \notin cancelSeen
      BY <2>1, FrameRead
    <2> HIDE DEF f
    <2>3. \E c \in Calls :
            \/ linkUp /\ B!HandleInvoke(c)
            \/ linkUp /\ phase[c] # "none" /\ c \notin cancelSeen /\ B!HandleCancel(c)
      BY <2>1, <2>2
    <2> QED
      BY <2>3 DEF B!Next
  <1>5. CASE HubReadsFrame \/ RateLimited \/ Reconnect
    <2>1. B!HubReads \/ B!LinkReturns
      BY <1>5, SameBridge DEF HubReadsFrame, RateLimited, Reconnect
    <2> QED
      BY <2>1 DEF B!Next
  <1>6. CASE BridgeAlone \/ \E c \in Calls, ok \in BOOLEAN : ToolReturns(c, ok)
    <2>1. \/ \E c \in Calls, yes \in BOOLEAN : B!ConfirmAnswered(c, yes)
          \/ \E c \in Calls, ok \in BOOLEAN : B!HandlerSettles(c, ok)
          \/ \E c \in Calls : B!CallTimerFires(c)
          \/ B!LinkDrops
      BY <1>6, SameBridge DEF BridgeAlone, ToolReturns
    <2> QED
      BY <2>1 DEF B!Next
  <1>7. CASE UNCHANGED vars
    BY <1>1, <1>7 DEF vars
  <1> QED
    BY <1>1, <1>2, <1>3, <1>4, <1>5, <1>6, <1>7 DEF Next

\* So the invariants of the two ends, proved of each alone, hold of the path.
LEMMA EndsNext == Ends /\ Reasoned /\ [Next]_vars => Ends'
  <1> SUFFICES ASSUME Ends, Reasoned, [Next]_vars PROVE Ends'
    OBVIOUS
  <1>1. H!IInv /\ H!WireInv /\ B!IInv
    BY DEF Ends
  <1>2. [H!Next]_(H!vars) /\ [B!Next]_(B!vars)
    BY HubStep, BridgeStep
  <1>3. H!IInv' /\ H!WireInv'
    BY <1>1, <1>2, InstanceAssumptions, H!InvNext, H!WireNext
  <1>4. B!IInv'
    BY <1>1, <1>2, InstanceAssumptions, B!NextInv
  <1>5. Linked'
    BY LinkedNext
  <1> QED
    BY <1>3, <1>4, <1>5 DEF Ends

-----------------------------------------------------------------------------
(* The executor.                                                           *)

\* A call is a request and one of two attempts.
LEMMA CallParts ==
  /\ \A c \in Calls : c[1] \in Requests /\ c[2] \in {1, 2} /\ c = <<c[1], c[2]>>
  /\ \A q \in Requests : <<q, 1>> \in Calls /\ <<q, 2>> \in Calls
  BY DEF Calls

\* What a request that was made awaits is a call.
LEMMA CurrentCall ==
  ASSUME Attempts, NEW q \in Requests, attempt[q] > 0
  PROVE  Current(q) \in Calls
  <1>1. attempt[q] \in 0 .. 2
    BY DEF Attempts
  <1>2. attempt[q] = 1 \/ attempt[q] = 2
    BY <1>1
  <1> QED
    BY <1>2, CallParts DEF Current

\* Steps in which no call of the Hub is made.
LEMMA NoNewCall ==
  ASSUME Ends, Reasoned,
         \/ BridgeReadsFrame \/ HubReadsFrame \/ RateLimited
         \/ HubAlone \/ BridgeAlone
         \/ \E c \in Calls, ok \in BOOLEAN : ToolReturns(c, ok)
         \/ FirstConnection \/ Reconnect \/ \E q \in Requests : Respond(q)
         \/ UNCHANGED vars
  PROVE  \A d \in Calls : outcome'[d] # "idle" => outcome[d] # "idle"
  <1>1. ASSUME outcome' = outcome
        PROVE  \A d \in Calls : outcome'[d] # "idle" => outcome[d] # "idle"
    BY <1>1
  <1>2. CASE BridgeReadsFrame
    BY <1>2 DEF BridgeReadsFrame, Hub!BridgeReads, Hub!callVars
  <1>3. CASE HubReadsFrame \/ RateLimited
    BY <1>3, HubReadsLinked
  <1>4. CASE HubAlone
    <2>1. ASSUME NEW c \in Calls, H!TimerFires(c)
          PROVE  \A d \in Calls : outcome'[d] # "idle" => outcome[d] # "idle"
      <3>1. outcome' = [outcome EXCEPT ![c] = "timeout"] /\ c \in pendingInvokes
        BY <2>1 DEF H!TimerFires, H!FreeSlot, Ends, H!IInv, H!TimersOwnSlots
      <3> QED
        BY <3>1, EndTypes
    <2>2. CASE H!HandleDisconnect
      <3>1. outcome' = [c \in Calls |-> IF c \in pendingInvokes \cup H!InQueue
                                         THEN "disconnected" ELSE outcome[c]]
        BY <2>2 DEF H!HandleDisconnect, H!RejectAllPending
      <3> QED
        BY <3>1, EndTypes
    <2>3. CASE H!SocketCloses
      BY <2>3 DEF H!SocketCloses, H!callVars
    <2> QED
      BY <1>4, <2>1, <2>2, <2>3, SameHub DEF HubAlone
  <1>5. CASE Reconnect
    BY <1>5, ReconnectLinked
  <1>6. CASE FirstConnection
    BY <1>6 DEF FirstConnection, Hub!Connect, Hub!callVars
  <1>7. CASE BridgeAlone \/ (\E c \in Calls, ok \in BOOLEAN : ToolReturns(c, ok))
             \/ (\E q \in Requests : Respond(q)) \/ UNCHANGED vars
    BY <1>7 DEF BridgeAlone, ToolReturns, Respond, hubVars, vars
  <1> QED
    BY <1>2, <1>3, <1>4, <1>5, <1>6, <1>7

\* Attempts are made in their turn.
LEMMA AttemptsNext == JInv /\ [Next]_vars => Attempts'
  <1> SUFFICES ASSUME JInv, [Next]_vars PROVE Attempts'
    OBVIOUS
  <1>1. Ends /\ Reasoned /\ Attempts /\ Truth
    BY DEF JInv
  <1>2. ASSUME NEW q \in Requests, NEW n \in {1, 2}, H!Invoke(<<q, n>>),
               attempt[q] = n - 1, n = 2 => q \in Idempotent,
               attempt' = [attempt EXCEPT ![q] = n], told' = told
        PROVE  Attempts'
    <2>1. \A d \in Calls \ {<<q, n>>} : outcome'[d] # "idle" => outcome[d] # "idle"
      BY <1>1, <1>2, CallParts, InvokeAdds
    <2>2. /\ \A r \in Requests \ {q} : attempt'[r] = attempt[r]
          /\ attempt'[q] = n /\ attempt' \in [Requests -> 0 .. 2]
      BY <1>1, <1>2 DEF Attempts
    <2>3. ASSUME NEW d \in Calls, outcome'[d] # "idle" PROVE d[2] <= attempt'[d[1]]
      <3>1. CASE d = <<q, n>>
        BY <2>2, <3>1
      <3>2. CASE d # <<q, n>>
        <4>1. d[2] <= attempt[d[1]] /\ d[1] \in Requests /\ d[2] \in {1, 2}
          BY <1>1, <2>1, <2>3, <3>2, CallParts DEF Attempts
        <4>2. attempt[d[1]] <= attempt'[d[1]]
          BY <1>1, <1>2, <2>2, <4>1 DEF Attempts
        <4>3. attempt[d[1]] \in Int /\ attempt'[d[1]] \in Int
          BY <1>1, <2>2, <4>1 DEF Attempts
        <4> QED
          BY <4>1, <4>2, <4>3
      <3> QED
        BY <3>1, <3>2
    <2>4. \A r \in Requests : told'[r] # "none" => attempt'[r] # 0
      BY <1>1, <1>2, <2>2 DEF Attempts
    <2>5. \A r \in Requests : attempt'[r] = 2 => r \in Idempotent
      BY <1>1, <1>2, <2>2 DEF Attempts
    <2> QED
      BY <1>1, <1>2, <2>2, <2>3, <2>4, <2>5 DEF Attempts
  <1>3. ASSUME NEW q \in Requests, CallTool(q) PROVE Attempts'
    <2>1. /\ H!Invoke(<<q, 1>>) /\ attempt[q] = 1 - 1 /\ told' = told
          /\ 1 = 2 => q \in Idempotent
          /\ attempt' = [attempt EXCEPT ![q] = 1]
      BY <1>3, SameHub DEF CallTool
    <2> QED
      BY <1>2, <2>1
  <1>4. ASSUME NEW q \in Requests, Retry(q) PROVE Attempts'
    <2>1. /\ H!Invoke(<<q, 2>>) /\ attempt[q] = 2 - 1 /\ told' = told
          /\ 2 = 2 => q \in Idempotent
          /\ attempt' = [attempt EXCEPT ![q] = 2]
      BY <1>4, SameHub DEF Retry
    <2> QED
      BY <1>2, <2>1
  <1>5. ASSUME attempt' = attempt, told' = told,
               \A d \in Calls : outcome'[d] # "idle" => outcome[d] # "idle"
        PROVE  Attempts'
    BY <1>1, <1>5 DEF Attempts
  <1>6. ASSUME NEW q \in Requests, Respond(q) PROVE Attempts'
    <2>1. /\ attempt' = attempt /\ outcome' = outcome /\ q \in Due /\ attempt[q] > 0
          /\ told' = [told EXCEPT ![q] =
               IF outcome[Current(q)] = "result" THEN reply[Current(q)] ELSE "failed"]
      BY <1>6 DEF Respond, hubVars, Due
    <2>2. Current(q) \in Calls
      BY <1>1, <2>1, CurrentCall
    <2>3. reply[Current(q)] \in {"none", "ok", "failed"}
      BY <1>1, <2>2 DEF Truth
    <2>4. told' \in [Requests -> {"none", "ok", "failed"}]
      BY <1>1, <2>1, <2>3 DEF Attempts
    <2>5. \A r \in Requests : told'[r] # "none" => attempt'[r] # 0
      BY <1>1, <2>1 DEF Attempts
    <2> QED
      BY <1>1, <2>1, <2>4, <2>5 DEF Attempts
  <1>7. CASE \/ BridgeReadsFrame \/ HubReadsFrame \/ RateLimited
             \/ HubAlone \/ BridgeAlone
             \/ \E c \in Calls, ok \in BOOLEAN : ToolReturns(c, ok)
             \/ FirstConnection \/ Reconnect \/ UNCHANGED vars
    <2>1. attempt' = attempt /\ told' = told
      BY <1>7 DEF BridgeReadsFrame, HubReadsFrame, RateLimited, HubAlone, BridgeAlone,
         ToolReturns, FirstConnection, Reconnect, execVars, vars
    <2>2. \A d \in Calls : outcome'[d] # "idle" => outcome[d] # "idle"
      BY <1>1, <1>7, NoNewCall
    <2> QED
      BY <1>5, <2>1, <2>2
  <1> QED
    BY <1>3, <1>4, <1>6, <1>7 DEF Next

\* No success is made up on the way from the handler to the agent.
LEMMA TruthNext == JInv /\ [Next]_vars => Truth'
  <1> SUFFICES ASSUME JInv, [Next]_vars PROVE Truth'
    OBVIOUS
  <1>1. Ends /\ Reasoned /\ Attempts /\ Truth /\ B!IInv
    BY DEF JInv, Ends
  <1>2. ASSUME UNCHANGED <<attempt, told, reply>>, succeeded \subseteq succeeded',
               \A c \in Calls : B!ResultFrame(c, TRUE) \in B!OnSocket' =>
                 B!ResultFrame(c, TRUE) \in B!OnSocket \/ c \in succeeded'
        PROVE  Truth'
    <2>1. \A q \in Requests : Current(q)' = Current(q)
      BY <1>2 DEF Current
    <2>2. \A c : B!ResultFrame(c, TRUE)' = B!ResultFrame(c, TRUE)
      BY DEF B!ResultFrame
    <2> QED
      BY <1>1, <1>2, <2>1, <2>2 DEF Truth, SuccessIsTrue
  <1>3. ASSUME NEW q \in Requests, CallTool(q) \/ Retry(q) PROVE Truth'
    <2>1. /\ told' = told /\ reply' = reply /\ succeeded' = succeeded
          /\ B!OnSocket' = B!OnSocket /\ told[q] = "none"
          /\ \E n \in {1, 2} : attempt' = [attempt EXCEPT ![q] = n]
      BY <1>1, <1>3 DEF CallTool, Retry, Due, bridgeVars, history, B!OnSocket, Attempts
    <2>2. \A r \in Requests : told'[r] = "ok" => attempt'[r] = attempt[r]
      BY <1>1, <2>1 DEF Attempts
    <2>3. SuccessIsTrue'
      BY <1>1, <2>1, <2>2 DEF Truth, SuccessIsTrue, Current
    <2> QED
      BY <1>1, <2>1, <2>3 DEF Truth, B!ResultFrame
  <1>4. ASSUME NEW q \in Requests, Respond(q) PROVE Truth'
    <2>1. /\ UNCHANGED <<attempt, reply, succeeded>> /\ B!OnSocket' = B!OnSocket
          /\ q \in Due /\ attempt[q] > 0
          /\ told' = [told EXCEPT ![q] =
               IF outcome[Current(q)] = "result" THEN reply[Current(q)] ELSE "failed"]
      BY <1>4 DEF Respond, Due, bridgeVars, history, B!OnSocket
    <2>2. Current(q) \in Calls
      BY <1>1, <2>1, CurrentCall
    <2>3. \A r \in Requests : Current(r)' = Current(r)
      BY <2>1 DEF Current
    <2>4. told'[q] = "ok" => Current(q) \in succeeded
      BY <1>1, <2>1, <2>2 DEF Truth, Attempts
    <2>5. \A r \in Requests \ {q} : told'[r] = told[r]
      BY <1>1, <2>1 DEF Attempts
    <2>6. SuccessIsTrue'
      BY <1>1, <2>1, <2>3, <2>4, <2>5 DEF Truth, SuccessIsTrue
    <2> QED
      BY <1>1, <2>1, <2>6 DEF Truth, B!ResultFrame
  <1>5. CASE HubReadsFrame
    <2> DEFINE f == Head(toHub)
    <2>1. /\ UNCHANGED <<attempt, told, succeeded>>
          /\ \/ f.type = "result"
                  /\ reply' = [reply EXCEPT ![f.id] = IF f.ok THEN "ok" ELSE "failed"]
             \/ reply' = reply
      BY <1>5 DEF HubReadsFrame, execVars, history
    <2>2. f \in B!HubFrames /\ f.id \in Calls /\ f \in B!OnSocket /\ B!OnSocket' \subseteq B!OnSocket
      BY <1>1, <1>5, SameBridge, AnswerRead DEF HubReadsFrame
    <2> HIDE DEF f
    <2>3. f.type = "result" => f.ok \in BOOLEAN /\ (f.ok => f = B!ResultFrame(f.id, TRUE))
      BY <2>2 DEF B!HubFrames, B!ResultFrame
    <2>4. reply' \in [Calls -> {"none", "ok", "failed"}]
      BY <1>1, <2>1, <2>2 DEF Truth
    <2>5. \A c \in Calls : reply'[c] = "ok" => c \in succeeded
      BY <1>1, <2>1, <2>2, <2>3 DEF Truth
    <2>6. SuccessIsTrue'
      BY <1>1, <2>1 DEF Truth, SuccessIsTrue, Current
    <2> QED
      BY <1>1, <2>1, <2>2, <2>4, <2>5, <2>6 DEF Truth, B!ResultFrame
  <1>6. CASE RateLimited
    <2>1. B!OnSocket' \subseteq B!OnSocket
      BY <1>1, <1>6, SameBridge, AnswerRead DEF RateLimited
    <2> QED
      BY <1>2, <1>6, <2>1 DEF RateLimited, execVars
  <1>7. ASSUME NEW c \in Calls, NEW ok, B!About(c, ok), UNCHANGED <<attempt, told, reply>>,
               succeeded \subseteq succeeded', ok => c \in succeeded'
        PROVE  Truth'
    <2>1. \A d \in Calls : B!ResultFrame(d, TRUE).id = d
      BY DEF B!ResultFrame
    <2>2. \A f \in B!OnSocket' \ B!OnSocket : f.id = c /\ (f = B!ResultFrame(c, TRUE) => ok)
      BY <1>7 DEF B!About
    <2>3. ASSUME NEW d \in Calls, B!ResultFrame(d, TRUE) \in B!OnSocket' \ B!OnSocket
          PROVE  d \in succeeded'
      <3>1. d = c
        BY <2>1, <2>2, <2>3
      <3> QED
        BY <1>7, <2>2, <2>3, <3>1
    <2> QED
      BY <1>2, <1>7, <2>3
  <1>8. CASE BridgeReadsFrame
    <2> DEFINE c == Head(toBridge).id
    <2>1. /\ UNCHANGED <<attempt, told, reply, succeeded>> /\ H!BridgeReads
          /\ \/ Head(toBridge).type = "invoke" /\ B!HandleInvoke(c)
             \/ Head(toBridge).type = "cancel" /\ B!HandleCancel(c)
      BY <1>8, SameHub, SameBridge DEF BridgeReadsFrame, execVars
    <2>2. c \in Calls /\ (Head(toBridge).type = "cancel" => phase[c] # "none")
      BY <1>1, <2>1, FrameRead
    <2> HIDE DEF c
    <2>3. B!About(c, FALSE)
      BY <1>1, <2>1, <2>2, InstanceAssumptions, B!HandlersAbout
    <2> QED
      BY <1>7, <2>1, <2>2, <2>3
  <1>9. CASE BridgeAlone
    <2>1. UNCHANGED <<attempt, told, reply, succeeded>>
      BY <1>9 DEF BridgeAlone, execVars
    <2>2. CASE B!LinkDrops
      <3>1. B!OnSocket' = {}
        BY <2>2 DEF B!LinkDrops, B!OnSocket
      <3> QED
        BY <1>2, <2>1, <3>1
    <2>3. ASSUME NEW c \in Calls, B!CallTimerFires(c) \/ \E yes \in BOOLEAN : B!ConfirmAnswered(c, yes)
          PROVE  Truth'
      <3>1. B!About(c, FALSE)
        BY <1>1, <2>3, InstanceAssumptions, B!HandlersAbout
      <3> QED
        BY <1>7, <2>1, <3>1
    <2> QED
      BY <1>9, <2>2, <2>3, SameBridge DEF BridgeAlone
  <1>10. ASSUME NEW c \in Calls, NEW ok \in BOOLEAN, ToolReturns(c, ok) PROVE Truth'
    <2>1. B!HandlerSettles(c, ok)
      BY <1>10, SameBridge DEF ToolReturns
    <2>2. B!About(c, ok)
      BY <1>1, <2>1, InstanceAssumptions, B!HandlersAbout
    <2>3. UNCHANGED <<attempt, told, reply>> /\ succeeded \subseteq succeeded' /\ (ok => c \in succeeded')
      BY <1>10 DEF ToolReturns, execVars
    <2> QED
      BY <1>7, <2>2, <2>3
  <1>11. CASE HubAlone \/ FirstConnection \/ Reconnect \/ UNCHANGED vars
    <2>1. UNCHANGED <<attempt, told, reply, succeeded, toHub>>
      BY <1>11 DEF HubAlone, FirstConnection, Reconnect, Bridge!LinkReturns, bridgeVars,
         execVars, history, vars
    <2>2. B!OnSocket' = B!OnSocket
      BY <2>1 DEF B!OnSocket
    <2> QED
      BY <1>2, <2>1, <2>2
  <1> QED
    BY <1>3, <1>4, <1>5, <1>6, <1>8, <1>9, <1>10, <1>11 DEF Next

-----------------------------------------------------------------------------
(* The theorems.                                                           *)

LEMMA PathInit == Init => JInv
  <1> SUFFICES ASSUME Init PROVE JInv
    OBVIOUS
  <1>1. H!Init /\ B!Init
    BY SameHub, SameBridge DEF Init
  <1>2. H!IInv /\ H!WireInv /\ B!IInv
    BY <1>1, InstanceAssumptions, H!InvInit, H!WireInit, B!InitInv
  <1>3. /\ Wire = {} /\ B!OnSocket = {} /\ H!Distinct(toBridge)
        /\ sent = {} /\ earlier = {} /\ cancelSeen = {} /\ begun = {} /\ pendingInvokes = {}
        /\ \A c \in Calls : phase[c] = "none" /\ outcome[c] = "idle"
    BY <1>1 DEF H!Init, B!Init, Init, Wire, H!Elements, H!Distinct, B!OnSocket
  <1>4. Linked /\ Reasoned
    BY <1>3 DEF Linked, Reasoned
  <1>5. /\ attempt = [q \in Requests |-> 0] /\ told = [q \in Requests |-> "none"]
        /\ reply = [c \in Calls |-> "none"]
    BY DEF Init
  <1>6. Attempts
    BY <1>3, <1>5 DEF Attempts
  <1>7. Truth
    BY <1>3, <1>5 DEF Truth, SuccessIsTrue
  <1> QED
    BY <1>2, <1>4, <1>6, <1>7 DEF JInv, Ends

\* The invariant of the path: those of both ends, which their modules prove, with what
\* the two know of each other and what the executor makes of it.
THEOREM Invariance == Spec => []JInv
  <1>1. JInv /\ [Next]_vars => JInv'
    <2>1. JInv => Ends /\ Reasoned
      BY DEF JInv
    <2> QED
      BY <2>1, LinkedNext, EndsNext, AttemptsNext, TruthNext DEF JInv
  <1> QED
    BY <1>1, PathInit, PTL DEF Spec

\* The dispatcher on the path is the dispatcher that BridgeDispatch describes: the router,
\* the socket and the executor are one of the environments it is specified for.
THEOREM HubEnd == Spec => H!Spec
  <1>1. Init => H!Init
    BY SameHub DEF Init
  <1>2. JInv /\ [Next]_vars => [H!Next]_(H!vars)
    BY HubStep DEF JInv
  <1> QED
    BY <1>1, <1>2, Invariance, PTL DEF Spec, H!Spec

\* The router on the path is the router that CommandRouter describes: it is never given a
\* call twice, a cancel twice, or a cancel of a call that it has not heard of.
THEOREM BridgeEnd == Spec => B!Spec
  <1>1. Init => B!Init
    BY SameBridge DEF Init
  <1>2. JInv /\ [Next]_vars => [B!Next]_(B!vars)
    BY BridgeStep DEF JInv
  <1> QED
    BY <1>1, <1>2, Invariance, PTL DEF Spec, B!Spec

\* So the path as a whole serves its calls as the abstract service does: first come first
\* served, no slot idle while a call waits, no refusal without need.
THEOREM PathServes == Spec => H!ImplementsService
  BY HubEnd, InstanceAssumptions, H!Implementation

\* A slot of the Hub is held for a reason as long as both ends agree on a socket: no
\* interleaving of results, timeouts, cancels and reconnections leaves a slot to a call
\* that nobody works on, but for an answer that the rate limit dropped.
THEOREM SlotHasReasonHolds == Spec => []SlotHasReason
  <1>1. JInv => SlotHasReason
    <2> SUFFICES ASSUME JInv, connected, wsOpen, linkUp, NEW c \in pendingInvokes,
                        B!Underway(c)
                 PROVE  \/ phase[c] \in {"confirming", "running"}
                        \/ \E i \in DOMAIN toHub :
                             toHub[i] \in [type : {"result"}, id : {c}, ok : BOOLEAN]
                               \cup {Bridge!CancelledFrame(c, FALSE)}
      BY DEF SlotHasReason, JInv, Reasoned, Reason, Wire, H!Elements, H!InvokeFrame,
         Hub!InvokeFrame
    <2>1. B!AnswersTo(c) \subseteq [type : {"result"}, id : {c}, ok : BOOLEAN]
                                     \cup {Bridge!CancelledFrame(c, FALSE)}
      BY DEF B!AnswersTo, B!ResultFrame, B!CancelledFrame, Bridge!CancelledFrame
    <2> QED
      BY <2>1 DEF B!Underway, B!OnSocket
  <1> QED
    BY <1>1, Invariance, PTL

\* A success that the agent is told of is one that a handler reported for the attempt the
\* agent was waiting for.
THEOREM SuccessIsTrueHolds == Spec => []SuccessIsTrue
  <1>1. JInv => SuccessIsTrue
    BY DEF JInv, Truth
  <1> QED
    BY <1>1, Invariance, PTL

\* The handler of a tool that is not idempotent is called at most once per request: a call
\* that the Bridge has heard of was sent, a sent call was made, and only an idempotent tool
\* is called a second time.
THEOREM NoDuplicateEffectHolds == Spec => []NoDuplicateEffect
  <1>1. JInv => NoDuplicateEffect
    <2> SUFFICES ASSUME JInv, NEW q \in Requests \ Idempotent
                 PROVE  Cardinality(begun \cap ({q} \X {1, 2})) <= 1
      BY DEF NoDuplicateEffect
    <2>1. Linked /\ Attempts
      BY DEF JInv, Ends
    <2>2. ASSUME NEW c \in begun \cap ({q} \X {1, 2}) PROVE c = <<q, 1>>
      <3>1. c \in Calls /\ c[1] = q /\ c[2] \in {1, 2} /\ c = <<c[1], c[2]>>
        BY <2>2 DEF Calls
      <3>2. c[2] <= attempt[q]
        BY <2>1, <2>2, <3>1 DEF Linked, Attempts
      <3>3. attempt[q] \in 0 .. 2 /\ attempt[q] # 2
        BY <2>1 DEF Attempts
      <3>4. c[2] = 1
        BY <3>1, <3>2, <3>3
      <3> QED
        BY <3>1, <3>4
    <2>3. begun \cap ({q} \X {1, 2}) \subseteq {<<q, 1>>}
      BY <2>2
    <2>4. IsFiniteSet({<<q, 1>>}) /\ Cardinality({<<q, 1>>}) = 1
      BY FS_Singleton
    <2> QED
      BY <2>3, <2>4, FS_Subset
  <1> QED
    BY <1>1, Invariance, PTL
=============================================================================
