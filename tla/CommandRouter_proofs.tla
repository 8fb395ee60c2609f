------------------------ MODULE CommandRouter_proofs ------------------------
(***************************************************************************)
(* Theorems of CommandRouter for every set of calls.                       *)
(*                                                                         *)
(* Types are not inductive alone: that no call is answered twice is part   *)
(* of the type of answers, and it needs AnswerOnce (a call that can still  *)
(* be answered has not been).                                              *)
(***************************************************************************)
EXTENDS CommandRouter, SequenceTheorems, TLAPS

IInv == TypeOK /\ AnswerOnce /\ TrackedAreTimed

\* What sendIfOpen leaves on the socket is a sequence of frames, whether the
\* socket is open or not.
LEMMA SendToHubType ==
  ASSUME toHub \in Seq(HubFrames), linkUp \in BOOLEAN,
         NEW frame \in HubFrames, SendToHub(frame)
  PROVE  toHub' \in Seq(HubFrames) /\ linkUp' \in BOOLEAN
  BY DEF SendToHub

\* The two kinds of frames the Bridge sends.
LEMMA FramesType ==
  ASSUME NEW c \in Calls, NEW b \in BOOLEAN
  PROVE  ResultFrame(c, b) \in HubFrames /\ CancelledFrame(c, b) \in HubFrames
  BY DEF ResultFrame, CancelledFrame, HubFrames

\* An answer counts once for its call and for no other.
LEMMA AnswerType ==
  ASSUME TypeOK, NEW c \in Calls, answers[c] = 0,
         NEW frame \in HubFrames, Answer(c, frame)
  PROVE  /\ answers' \in [Calls -> 0..1]
         /\ answers' = [answers EXCEPT ![c] = 1]
         /\ toHub' \in Seq(HubFrames) /\ linkUp' \in BOOLEAN
  <1>1. toHub' \in Seq(HubFrames) /\ linkUp' \in BOOLEAN
    BY SendToHubType DEF TypeOK, Answer
  <1>2. answers' = [answers EXCEPT ![c] = 1]
    BY DEF TypeOK, Answer
  <1> QED
    BY <1>1, <1>2 DEF TypeOK

\* Start tracks a call that was not tracked and arms its timer in one step.
LEMMA StartInv ==
  ASSUME IInv, NEW c \in Calls, NEW throws \in BOOLEAN,
         phase[c] \in {"none", "confirming"}, Start(c, throws),
         registered' = registered, cancelSeen' = cancelSeen, shutDown' = shutDown
  PROVE  IInv'
  <1>1. TypeOK'
    BY DEF IInv, TypeOK, Start, Phases, linkVars
  <1>2. AnswerOnce'
    BY DEF IInv, TypeOK, AnswerOnce, Start, Phases
  <1>3. TrackedAreTimed'
    BY DEF IInv, TypeOK, TrackedAreTimed, Start
  <1> QED
    BY <1>1, <1>2, <1>3 DEF IInv

\* A call that was not tracked, or whose timer is stopped in the same step,
\* ends with its one answer.
LEMMA AnswerInv ==
  ASSUME IInv, NEW c \in Calls, NEW frame \in HubFrames, NEW end \in {"completed", "cancelled"},
         phase[c] \in {"none", "confirming", "running"},
         phase' = [phase EXCEPT ![c] = end],
         callTimers' = callTimers \ {c},
         executing' \subseteq executing,
         Answer(c, frame),
         registered' = registered, cancelSeen' \subseteq Calls, shutDown' = shutDown
  PROVE  IInv'
  <1>1. answers[c] = 0
    BY DEF IInv, AnswerOnce
  <1>2. /\ answers' \in [Calls -> 0..1]
        /\ answers' = [answers EXCEPT ![c] = 1]
        /\ toHub' \in Seq(HubFrames) /\ linkUp' \in BOOLEAN
    BY <1>1, AnswerType DEF IInv
  <1>3. TypeOK'
    BY <1>2 DEF IInv, TypeOK, Phases
  <1>4. AnswerOnce'
    BY <1>2 DEF IInv, TypeOK, AnswerOnce, Phases
  <1>5. TrackedAreTimed'
    BY DEF IInv, TypeOK, TrackedAreTimed
  <1> QED
    BY <1>3, <1>4, <1>5 DEF IInv

LEMMA InitInv == Init => IInv
  <1> SUFFICES ASSUME Init
               PROVE  IInv
    OBVIOUS
  <1>1. toHub \in Seq(HubFrames)
    BY EmptySeq DEF Init
  <1>2. TypeOK
    <2>1. phase \in [Calls -> Phases] /\ answers \in [Calls -> 0..1]
      BY DEF Init, Phases
    <2>2. /\ registered \subseteq Calls
          /\ callTimers \subseteq Calls /\ executing \subseteq Calls
          /\ cancelSeen \subseteq Calls
          /\ shutDown \in BOOLEAN /\ linkUp \in BOOLEAN
      BY DEF Init
    <2> QED
      BY <1>1, <2>1, <2>2 DEF TypeOK
  <1>3. AnswerOnce
    BY DEF Init, AnswerOnce
  <1>4. TrackedAreTimed
    BY DEF Init, TrackedAreTimed
  <1> QED
    BY <1>2, <1>3, <1>4 DEF IInv

LEMMA NextInv == IInv /\ [Next]_vars => IInv'
  <1> SUFFICES ASSUME IInv, [Next]_vars
               PROVE  IInv'
    OBVIOUS
  <1>1. ASSUME NEW c \in Calls, HandleInvoke(c)
        PROVE  IInv'
    <2>1. CASE /\ phase' = [phase EXCEPT ![c] = "completed"]
               /\ Answer(c, ResultFrame(c, FALSE))
               /\ UNCHANGED <<callTimers, executing>>
      <3>1. callTimers' = callTimers \ {c}
        BY <1>1, <2>1 DEF IInv, TrackedAreTimed, HandleInvoke
      <3>2. cancelSeen' \subseteq Calls
        BY <1>1 DEF HandleInvoke, IInv, TypeOK
      <3> QED
        BY <1>1, <2>1, <3>1, <3>2, FramesType, AnswerInv DEF HandleInvoke
    <2>2. CASE /\ phase' = [phase EXCEPT ![c] = "confirming"]
               /\ UNCHANGED <<callTimers, executing, answers, linkVars>>
      <3>1. TypeOK'
        BY <1>1, <2>2 DEF HandleInvoke, IInv, TypeOK, Phases, linkVars
      <3>2. AnswerOnce' /\ TrackedAreTimed'
        BY <1>1, <2>2 DEF HandleInvoke, IInv, TypeOK, AnswerOnce, TrackedAreTimed
      <3> QED
        BY <3>1, <3>2 DEF IInv
    <2>3. CASE \E throws \in BOOLEAN : Start(c, throws)
      BY <1>1, <2>3, StartInv DEF HandleInvoke
    <2> QED
      BY <1>1, <2>1, <2>2, <2>3 DEF HandleInvoke
  <1>2. ASSUME NEW c \in Calls, NEW yes \in BOOLEAN, ConfirmAnswered(c, yes)
        PROVE  IInv'
    <2>1. CASE \E throws \in BOOLEAN : Start(c, throws)
      BY <1>2, <2>1, StartInv DEF ConfirmAnswered
    <2>2. CASE /\ phase' = [phase EXCEPT ![c] = "completed"]
               /\ Answer(c, ResultFrame(c, FALSE))
               /\ UNCHANGED <<callTimers, executing>>
      <3>1. callTimers' = callTimers \ {c}
        BY <1>2, <2>2 DEF IInv, TrackedAreTimed, ConfirmAnswered
      <3>2. cancelSeen' \subseteq Calls
        BY <1>2 DEF ConfirmAnswered, IInv, TypeOK
      <3> QED
        BY <1>2, <2>2, <3>1, <3>2, FramesType, AnswerInv DEF ConfirmAnswered
    <2> QED
      BY <1>2, <2>1, <2>2 DEF ConfirmAnswered
  <1>3. ASSUME NEW c \in Calls, NEW ok \in BOOLEAN, HandlerSettles(c, ok)
        PROVE  IInv'
    <2> USE <1>3 DEF HandlerSettles
    <2>1. CASE phase[c] = "running" /\ ok /\ c \notin Encodable
      <3>1. TypeOK'
        BY <2>1 DEF IInv, TypeOK, Phases, linkVars
      <3>2. AnswerOnce'
        BY <2>1 DEF IInv, TypeOK, AnswerOnce
      <3>3. TrackedAreTimed'
        BY <2>1 DEF IInv, TypeOK, TrackedAreTimed
      <3> QED
        BY <3>1, <3>2, <3>3 DEF IInv
    <2>2. CASE phase[c] = "running" /\ ~(ok /\ c \notin Encodable)
      <3>1. cancelSeen' \subseteq Calls /\ executing' \subseteq executing
        BY DEF IInv, TypeOK
      <3> QED
        BY <2>2, <3>1, FramesType, AnswerInv
    <2>3. CASE phase[c] # "running"
      BY <2>3 DEF IInv, TypeOK, AnswerOnce, TrackedAreTimed, linkVars
    <2> QED
      BY <2>1, <2>2, <2>3
  <1>4. ASSUME NEW c \in Calls, CallTimerFires(c)
        PROVE  IInv'
    <2> USE <1>4 DEF CallTimerFires
    <2>1. CASE phase[c] = "running"
      <3>1. cancelSeen' \subseteq Calls /\ executing' \subseteq executing
        BY DEF IInv, TypeOK
      <3> QED
        BY <2>1, <3>1, FramesType, AnswerInv
    <2>2. CASE phase[c] # "running"
      BY <2>2 DEF IInv, TypeOK, AnswerOnce, TrackedAreTimed, linkVars
    <2> QED
      BY <2>1, <2>2
  <1>5. ASSUME NEW c \in Calls, HandleCancel(c)
        PROVE  IInv'
    <2> USE <1>5 DEF HandleCancel
    <2>1. cancelSeen' \subseteq Calls
      BY DEF IInv, TypeOK
    <2>2. CASE phase[c] = "running"
      BY <2>1, <2>2, FramesType, AnswerInv
    <2>3. CASE phase[c] # "running"
      <3>1. toHub' \in Seq(HubFrames) /\ linkUp' \in BOOLEAN
        BY <2>3, FramesType, SendToHubType DEF IInv, TypeOK
      <3> QED
        BY <2>1, <2>3, <3>1 DEF IInv, TypeOK, AnswerOnce, TrackedAreTimed
    <2> QED
      BY <2>2, <2>3
  <1>6. ASSUME CancelAll
        PROVE  IInv'
    <2>1. TypeOK'
      BY <1>6 DEF CancelAll, IInv, TypeOK, Phases, linkVars
    <2>2. AnswerOnce' /\ TrackedAreTimed'
      BY <1>6 DEF CancelAll, IInv, TypeOK, AnswerOnce, TrackedAreTimed
    <2> QED
      BY <2>1, <2>2 DEF IInv
  <1>7. ASSUME NEW c \in Calls, Unregister(c)
        PROVE  IInv'
    BY <1>7 DEF Unregister, IInv, TypeOK, AnswerOnce, TrackedAreTimed, routeVars, linkVars
  <1>8. ASSUME HubReads \/ LinkDrops \/ LinkReturns
        PROVE  IInv'
    <2>1. toHub' \in Seq(HubFrames)
      <3>1. CASE HubReads
        BY <3>1, HeadTailProperties DEF HubReads, IInv, TypeOK
      <3>2. CASE LinkDrops \/ LinkReturns
        BY <3>2, EmptySeq DEF LinkDrops, LinkReturns, IInv, TypeOK
      <3> QED
        BY <1>8, <3>1, <3>2
    <2>2. TypeOK'
      BY <1>8, <2>1 DEF HubReads, LinkDrops, LinkReturns, IInv, TypeOK, routeVars
    <2>3. AnswerOnce' /\ TrackedAreTimed'
      BY <1>8 DEF HubReads, LinkDrops, LinkReturns, IInv, AnswerOnce, TrackedAreTimed, routeVars
    <2> QED
      BY <2>2, <2>3 DEF IInv
  <1>9. CASE UNCHANGED vars
    BY <1>9 DEF vars, IInv, TypeOK, AnswerOnce, TrackedAreTimed, routeVars, linkVars
  <1> QED
    BY <1>1, <1>2, <1>3, <1>4, <1>5, <1>6, <1>7, <1>8, <1>9 DEF Next

\* The conjunction that every step preserves, for any number of calls.
THEOREM Invariance == Spec => []IInv
  BY InitInv, NextInv, PTL DEF Spec

\* Every variable keeps its type; in particular the router never answers one
\* invocation twice (command-router.ts: the completed flag and the Map).
THEOREM RouterTypes == Spec => []TypeOK
  <1>1. IInv => TypeOK
    BY DEF IInv
  <1> QED
    BY <1>1, Invariance, PTL

\* Whichever of handler, timeout, refusal and cancel comes first answers the
\* Hub, and the others send no answer.
THEOREM AnswerOnceHolds == Spec => []AnswerOnce
  <1>1. IInv => AnswerOnce
    BY DEF IInv
  <1> QED
    BY <1>1, Invariance, PTL

\* A call is in the inflight Map exactly while its timeout is armed.
THEOREM TrackedAreTimedHolds == Spec => []TrackedAreTimed
  <1>1. IInv => TrackedAreTimed
    BY DEF IInv
  <1> QED
    BY <1>1, Invariance, PTL

\* No handler takes an encodable call out of the Map without answering it,
\* except cancelAll.
LEMMA StepAnswers ==
  ASSUME IInv, Next, NEW c \in Encodable,
         phase[c] = "running", phase'[c] # "running"
  PROVE  answers'[c] = answers[c] + 1 \/ (shutDown' /\ ~shutDown)
  <1> USE CallsAssumption
  <1>1. phase # phase'
    OBVIOUS
  <1>2. ASSUME NEW d \in Calls, HandleInvoke(d) \/ \E yes \in BOOLEAN : ConfirmAnswered(d, yes)
        PROVE  FALSE
    BY <1>2 DEF HandleInvoke, ConfirmAnswered, Start, IInv, TypeOK
  <1>3. ASSUME NEW d \in Calls, NEW ok \in BOOLEAN, HandlerSettles(d, ok)
        PROVE  answers'[c] = answers[c] + 1
    BY <1>3, <1>1 DEF HandlerSettles, Answer, IInv, TypeOK
  <1>4. ASSUME NEW d \in Calls, CallTimerFires(d) \/ HandleCancel(d)
        PROVE  answers'[c] = answers[c] + 1
    BY <1>4, <1>1 DEF CallTimerFires, HandleCancel, Answer, IInv, TypeOK
  <1>5. ASSUME NEW d \in Calls, Unregister(d)
        PROVE  FALSE
    BY <1>5, <1>1 DEF Unregister, routeVars
  <1>6. ASSUME HubReads \/ LinkDrops \/ LinkReturns
        PROVE  FALSE
    BY <1>6, <1>1 DEF HubReads, LinkDrops, LinkReturns, routeVars
  <1> QED
    BY <1>2, <1>3, <1>4, <1>5, <1>6 DEF Next, CancelAll

\* A call leaves the Map with an answer, or at shutdown.
THEOREM NoSilentDropHolds == Spec => NoSilentDrop
  <1>1. IInv /\ [Next]_vars =>
          [\A c \in Encodable : phase[c] = "running" /\ phase'[c] # "running" =>
             answers'[c] = answers[c] + 1 \/ (shutDown' /\ ~shutDown)]_vars
    BY StepAnswers
  <1> QED
    BY <1>1, Invariance, PTL DEF Spec, NoSilentDrop

-----------------------------------------------------------------------------
(* What is on the socket, for who composes the router with a Hub.          *)

OnSocket == {toHub[i] : i \in DOMAIN toHub}

\* Frames that end an invocation of the Hub.
AnswersTo(c) == {ResultFrame(c, TRUE), ResultFrame(c, FALSE), CancelledFrame(c, FALSE)}

\* The call is being worked on, or its answer is on the socket.
Underway(c) ==
  phase[c] \in {"confirming", "running"} \/ \E f \in AnswersTo(c) : f \in OnSocket


\* sendIfOpen: the frame is added, or dropped.
LEMMA SentFrames ==
  ASSUME toHub \in Seq(HubFrames), NEW f \in HubFrames, SendToHub(f)
  PROVE  /\ linkUp' = linkUp
         /\ OnSocket' = IF linkUp THEN OnSocket \cup {f} ELSE OnSocket
  <1>1. CASE linkUp
    <2>1. PICK s : s = Append(toHub, f)
      OBVIOUS
    <2>2. /\ Len(toHub) \in Nat /\ DOMAIN toHub = 1 .. Len(toHub)
          /\ DOMAIN s = 1 .. (Len(toHub) + 1) /\ s[Len(toHub) + 1] = f
          /\ \A i \in 1 .. Len(toHub) : s[i] = toHub[i]
      BY <2>1, AppendProperties, LenProperties
    <2>3. {s[i] : i \in DOMAIN s} = OnSocket \cup {f}
      BY <2>2 DEF OnSocket
    <2>4. toHub' = s /\ linkUp' = linkUp
      BY <1>1, <2>1 DEF SendToHub
    <2> QED
      BY <1>1, <2>3, <2>4 DEF OnSocket
  <1>2. CASE ~linkUp
    BY <1>2 DEF SendToHub, OnSocket
  <1> QED
    BY <1>1, <1>2

\* The Hub takes the first frame, which may be there again.
LEMMA ReadFrame ==
  ASSUME toHub \in Seq(HubFrames), HubReads
  PROVE  /\ Head(toHub) \in HubFrames /\ Head(toHub) \in OnSocket
         /\ OnSocket = OnSocket' \cup {Head(toHub)}
  <1>1. /\ Tail(toHub) \in Seq(HubFrames) /\ Len(Tail(toHub)) = Len(toHub) - 1
        /\ \A i \in 1 .. Len(Tail(toHub)) : Tail(toHub)[i] = toHub[i + 1]
        /\ Head(toHub) \in HubFrames /\ toHub' = Tail(toHub)
    BY HeadTailProperties DEF HubReads
  <1>2. Len(toHub) \in Nat \ {0} /\ DOMAIN toHub = 1 .. Len(toHub) /\ Head(toHub) = toHub[1]
    BY EmptySeq, LenProperties DEF HubReads
  <1>3. DOMAIN Tail(toHub) = 1 .. (Len(toHub) - 1)
    BY <1>1, LenProperties
  <1>4. PICK s : s = Tail(toHub)
    OBVIOUS
  <1>5. /\ DOMAIN s = 1 .. (Len(toHub) - 1)
        /\ \A i \in 1 .. (Len(toHub) - 1) : s[i] = toHub[i + 1]
        /\ toHub' = s
    BY <1>1, <1>3, <1>4
  <1>6. ASSUME NEW i \in DOMAIN toHub PROVE i = 1 \/ \E j \in DOMAIN s : s[j] = toHub[i]
    <2>1. CASE i # 1
      <3>1. i - 1 \in 1 .. (Len(toHub) - 1) /\ (i - 1) + 1 = i
        BY <1>2, <2>1
      <3>2. i - 1 \in DOMAIN s /\ s[i - 1] = toHub[i]
        BY <1>5, <3>1
      <3> QED
        BY <3>2
    <2> QED
      BY <2>1
  <1>7. ASSUME NEW j \in DOMAIN s PROVE s[j] \in OnSocket
    <2>1. j + 1 \in DOMAIN toHub /\ s[j] = toHub[j + 1]
      BY <1>2, <1>5
    <2> QED
      BY <2>1 DEF OnSocket
  <1>8. OnSocket' = {s[j] : j \in DOMAIN s}
    BY <1>5 DEF OnSocket
  <1>9. Head(toHub) \in OnSocket
    BY <1>2 DEF OnSocket
  <1>10. ASSUME NEW f \in OnSocket PROVE f \in OnSocket' \cup {Head(toHub)}
    BY <1>2, <1>6, <1>8, <1>10 DEF OnSocket
  <1> QED
    BY <1>1, <1>7, <1>8, <1>9, <1>10

\* What a handler of call c adds to the socket, and does to its phase.
About(c, ok) ==
  /\ linkUp' = linkUp
  /\ \A f \in OnSocket' \ OnSocket :
       f.id = c /\ f \in HubFrames /\ (f = ResultFrame(c, TRUE) => ok)
  /\ OnSocket \subseteq OnSocket'
  /\ \A d \in Calls \ {c} : phase'[d] = phase[d]
  /\ phase'[c] # "none" \/ (phase' = phase /\ OnSocket' = OnSocket)
  /\ c \in Encodable /\ linkUp /\ (phase[c] = "none" \/ Underway(c)) /\ phase' # phase
       => Underway(c)'

\* Every handler is about its call, and only HandlerSettles reports success.
LEMMA HandlersAbout ==
  ASSUME IInv, NEW c \in Calls
  PROVE  /\ HandleInvoke(c) => About(c, FALSE) /\ phase'[c] # "none"
         /\ phase[c] # "none" /\ HandleCancel(c) => About(c, FALSE)
         /\ \A yes \in BOOLEAN : ConfirmAnswered(c, yes) => About(c, FALSE)
         /\ \A ok \in BOOLEAN : HandlerSettles(c, ok) => About(c, ok)
         /\ CallTimerFires(c) => About(c, FALSE)
  <1>1. /\ toHub \in Seq(HubFrames) /\ phase \in [Calls -> Phases]
        /\ callTimers = {d \in Calls : phase[d] = "running"}
        /\ linkUp \in BOOLEAN
    BY DEF IInv, TypeOK, TrackedAreTimed
  <1>2. ASSUME NEW f \in HubFrames, SendToHub(f), f.id = c, NEW ok \in BOOLEAN,
               f = ResultFrame(c, TRUE) => ok
        PROVE  /\ linkUp' = linkUp /\ OnSocket \subseteq OnSocket' /\ (linkUp => f \in OnSocket')
               /\ \A g \in OnSocket' \ OnSocket :
                    g.id = c /\ g \in HubFrames /\ (g = ResultFrame(c, TRUE) => ok)
    BY <1>1, <1>2, SentFrames
  <1>3. \A b \in BOOLEAN :
          /\ ResultFrame(c, b) \in HubFrames /\ ResultFrame(c, b).id = c
          /\ CancelledFrame(c, b) \in HubFrames /\ CancelledFrame(c, b).id = c
          /\ CancelledFrame(c, b) # ResultFrame(c, TRUE)
          /\ (ResultFrame(c, b) = ResultFrame(c, TRUE) => b)
          /\ ResultFrame(c, b) \in AnswersTo(c)
          /\ CancelledFrame(c, FALSE) \in AnswersTo(c)
    BY FramesType DEF ResultFrame, CancelledFrame, AnswersTo
  <1>4. ASSUME NEW b \in BOOLEAN, SendToHub(ResultFrame(c, b)), phase' = [phase EXCEPT ![c] = "completed"]
        PROVE  About(c, b)
    <2>1. linkUp => Underway(c)'
      BY <1>2, <1>3, <1>4 DEF Underway
    <2>2. phase'[c] # "none" /\ \A d \in Calls \ {c} : phase'[d] = phase[d]
      BY <1>1, <1>4
    <2>3. /\ linkUp' = linkUp /\ OnSocket \subseteq OnSocket'
          /\ \A g \in OnSocket' \ OnSocket :
               g.id = c /\ g \in HubFrames /\ (g = ResultFrame(c, TRUE) => b)
      BY <1>2, <1>3, <1>4
    <2> QED
      BY <2>1, <2>2, <2>3 DEF About
  <1>5. ASSUME UNCHANGED linkVars, NEW p \in {"confirming", "running"}, NEW b \in BOOLEAN,
               phase' = [phase EXCEPT ![c] = p]
        PROVE  About(c, b)
    <2>1. phase'[c] = p /\ OnSocket' = OnSocket /\ linkUp' = linkUp
      BY <1>1, <1>5 DEF linkVars, OnSocket
    <2> QED
      BY <1>1, <1>5, <2>1 DEF About, Underway
  <1>6. ASSUME UNCHANGED <<phase, linkVars>>, NEW b \in BOOLEAN
        PROVE  About(c, b)
    BY <1>6 DEF About, linkVars, OnSocket
  <1>7. HandleInvoke(c) => About(c, FALSE) /\ phase'[c] # "none"
    <2>1. HandleInvoke(c) => About(c, FALSE)
      BY <1>4, <1>5 DEF HandleInvoke, Answer, Start
    <2>2. HandleInvoke(c) => phase'[c] # "none"
      BY <1>1 DEF HandleInvoke, Start
    <2> QED
      BY <2>1, <2>2
  <1>8. phase[c] # "none" /\ HandleCancel(c) => About(c, FALSE)
    <2> SUFFICES ASSUME phase[c] # "none", HandleCancel(c) PROVE About(c, FALSE)
      OBVIOUS
    <2>1. CASE phase[c] = "running"
      <3>1. phase' = [phase EXCEPT ![c] = "cancelled"] /\ SendToHub(CancelledFrame(c, FALSE))
        BY <2>1 DEF HandleCancel, Answer
      <3>2. linkUp => Underway(c)'
        BY <1>2, <1>3, <3>1 DEF Underway
      <3>3. phase'[c] # "none" /\ \A d \in Calls \ {c} : phase'[d] = phase[d]
        BY <1>1, <3>1
      <3>4. /\ linkUp' = linkUp /\ OnSocket \subseteq OnSocket'
            /\ \A g \in OnSocket' \ OnSocket :
                 g.id = c /\ g \in HubFrames /\ (g = ResultFrame(c, TRUE) => FALSE)
        BY <1>2, <1>3, <3>1
      <3> QED
        BY <3>2, <3>3, <3>4 DEF About
    <2>2. CASE phase[c] # "running"
      <3>1. phase' = phase /\ SendToHub(CancelledFrame(c, TRUE))
        BY <2>2 DEF HandleCancel
      <3>2. /\ linkUp' = linkUp /\ OnSocket \subseteq OnSocket'
            /\ \A g \in OnSocket' \ OnSocket :
                 g.id = c /\ g \in HubFrames /\ (g = ResultFrame(c, TRUE) => FALSE)
        BY <1>2, <1>3, <3>1
      <3> QED
        BY <3>1, <3>2 DEF About
    <2> QED
      BY <2>1, <2>2
  <1>9. ASSUME NEW yes \in BOOLEAN, ConfirmAnswered(c, yes) PROVE About(c, FALSE)
    BY <1>4, <1>5, <1>9 DEF ConfirmAnswered, Answer, Start
  <1>10. ASSUME NEW ok \in BOOLEAN, HandlerSettles(c, ok), TRUE PROVE About(c, ok)
    <2>1. CASE phase[c] = "running" /\ ok /\ c \notin Encodable
      <3>1. UNCHANGED linkVars /\ phase' = [phase EXCEPT ![c] = "completed"]
        BY <1>10, <2>1 DEF HandlerSettles
      <3>2. OnSocket' = OnSocket /\ linkUp' = linkUp
        BY <3>1 DEF linkVars, OnSocket
      <3> QED
        BY <1>1, <2>1, <3>1, <3>2 DEF About
    <2>2. CASE phase[c] = "running" /\ ~(ok /\ c \notin Encodable)
      BY <1>4, <1>10, <2>2 DEF HandlerSettles, Answer
    <2>3. CASE phase[c] # "running"
      BY <1>6, <1>10, <2>3 DEF HandlerSettles
    <2> QED
      BY <2>1, <2>2, <2>3
  <1>11. CallTimerFires(c) => About(c, FALSE)
    BY <1>1, <1>4 DEF CallTimerFires, Answer
  <1> QED
    BY <1>7, <1>8, <1>9, <1>10, <1>11
=============================================================================
