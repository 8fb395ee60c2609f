---------------------------- MODULE CommandRouter ----------------------------
(***************************************************************************)
(* The Bridge's router of invocations to tool handlers:                    *)
(* packages/bridge/src/command-router.ts.  A call is one InvokeMessage; the *)
(* Hub draws a fresh id for each, so an id arrives at most once.           *)
(*                                                                         *)
(* handleInvoke is suspended while the confirmation dialog is open and     *)
(* while the handler runs; each resumption is an action.  Neither the user *)
(* nor a handler is assumed to answer.                                     *)
(***************************************************************************)
EXTENDS Integers, Sequences, FiniteSets

CONSTANTS
  Calls,     \* invocations
  Guarded,   \* those whose tool has requiresConfirmation
  Encodable  \* those whose handler returns what JSON.stringify accepts

ASSUME CallsAssumption == Guarded \subseteq Calls /\ Encodable \subseteq Calls

VARIABLES
  registered,  \* calls whose tool the extension registry holds
  phase,       \* where handleInvoke stands for each call
  callTimers,  \* armed timeoutTimer of the calls
  executing,   \* calls whose handler promise is unsettled
  answers,     \* number of result and cancelled(late: false) frames produced
  cancelSeen,  \* calls for which a cancel was handled
  shutDown,    \* cancelAll has run
  linkUp,      \* the WsClient's socket is open
  toHub        \* frames on that socket the Hub has not read

routeVars == <<phase, callTimers, executing, answers, cancelSeen, shutDown>>
linkVars  == <<linkUp, toHub>>
vars      == <<registered, routeVars, linkVars>>

\* "running" is the inflight Map: the Map entry is set when the phase starts
\* and deleted together with the completed and cancelled flags.
Phases == {"none", "confirming", "running", "cancelled", "completed"}

ResultFrame(c, ok)      == [type |-> "result", id |-> c, ok |-> ok]
CancelledFrame(c, late) == [type |-> "cancelled", id |-> c, late |-> late]
HubFrames == [type : {"result"}, id : Calls, ok : BOOLEAN]
               \cup [type : {"cancelled"}, id : Calls, late : BOOLEAN]

Init ==
  /\ registered \in SUBSET Calls
  /\ phase = [c \in Calls |-> "none"]
  /\ callTimers = {} /\ executing = {}
  /\ answers = [c \in Calls |-> 0]
  /\ cancelSeen = {}
  /\ shutDown = FALSE
  /\ linkUp = TRUE /\ toHub = <<>>

-----------------------------------------------------------------------------
(* Helpers.                                                                *)

\* WsClient.sendIfOpen drops the frame while the socket is not open.
SendToHub(frame) ==
  /\ toHub' = IF linkUp THEN Append(toHub, frame) ELSE toHub
  /\ UNCHANGED linkUp

Answer(c, frame) ==
  /\ answers' = [answers EXCEPT ![c] = @ + 1]
  /\ SendToHub(frame)

\* Mutant of Start: the timeout is armed only after the handler returned.
StartUntimed(c, throws) ==
  /\ phase' = [phase EXCEPT ![c] = "running"]
  /\ callTimers' = IF throws THEN callTimers ELSE callTimers \cup {c}
  /\ executing' = IF throws THEN executing ELSE executing \cup {c}
  /\ UNCHANGED <<answers, linkVars>>

\* Step 4 and on: the call is tracked, its timer armed and its handler called.
\* A handler that throws before it returns a promise rejects handleInvoke and
\* leaves the entry and the timer behind.
Start(c, throws) ==
  /\ phase' = [phase EXCEPT ![c] = "running"]
  /\ callTimers' = callTimers \cup {c}
  /\ executing' = IF throws THEN executing ELSE executing \cup {c}
  /\ UNCHANGED <<answers, linkVars>>

-----------------------------------------------------------------------------
(* Handlers.                                                               *)

\* handleInvoke up to its first suspension.
HandleInvoke(c) ==
  /\ phase[c] = "none"
  /\ \/ /\ c \notin registered
        /\ phase' = [phase EXCEPT ![c] = "completed"]
        /\ Answer(c, ResultFrame(c, FALSE))
        /\ UNCHANGED <<callTimers, executing>>
     \/ /\ c \in registered \cap Guarded
        /\ phase' = [phase EXCEPT ![c] = "confirming"]
        /\ UNCHANGED <<callTimers, executing, answers, linkVars>>
     \/ /\ c \in registered \ Guarded
        /\ \E throws \in BOOLEAN : Start(c, throws)
  /\ UNCHANGED <<registered, cancelSeen, shutDown>>

\* The dialog is answered.  The handler was looked up before the dialog was
\* shown and is called even if its tool has been unregistered since.
ConfirmAnswered(c, yes) ==
  /\ phase[c] = "confirming"
  /\ \/ /\ yes
        /\ \E throws \in BOOLEAN : Start(c, throws)
     \/ /\ ~yes
        /\ phase' = [phase EXCEPT ![c] = "completed"]
        /\ Answer(c, ResultFrame(c, FALSE))
        /\ UNCHANGED <<callTimers, executing>>
  /\ UNCHANGED <<registered, cancelSeen, shutDown>>

\* Mutant of HandlerSettles: the cancelled flag is not consulted.
HandlerSettlesAnyway(c, ok) ==
  /\ c \in executing
  /\ executing' = executing \ {c}
  /\ callTimers' = callTimers \ {c}
  /\ phase' = [phase EXCEPT ![c] = "completed"]
  /\ Answer(c, ResultFrame(c, ok))
  /\ UNCHANGED <<registered, cancelSeen, shutDown>>

\* The then and catch callbacks of the handler's promise.  When encoding the
\* data throws in sendResult, the entry is already marked completed and
\* removed, so the catch callback sends nothing.
HandlerSettles(c, ok) ==
  /\ c \in executing
  /\ executing' = executing \ {c}
  /\ callTimers' = callTimers \ {c}
  /\ \/ /\ phase[c] = "running"
        /\ phase' = [phase EXCEPT ![c] = "completed"]
        /\ IF ok /\ c \notin Encodable
             THEN UNCHANGED <<answers, linkVars>>
             ELSE Answer(c, ResultFrame(c, ok))
     \/ /\ phase[c] # "running"
        /\ UNCHANGED <<phase, answers, linkVars>>
  /\ UNCHANGED <<registered, cancelSeen, shutDown>>

\* Mutant of CallTimerFires: the call is forgotten without a word.
CallTimerSilent(c) ==
  /\ c \in callTimers
  /\ callTimers' = callTimers \ {c}
  /\ phase' = [phase EXCEPT ![c] = "completed"]
  /\ UNCHANGED <<answers, linkVars, registered, executing, cancelSeen, shutDown>>

\* The timeout callback; the handler itself goes on.
CallTimerFires(c) ==
  /\ c \in callTimers
  /\ callTimers' = callTimers \ {c}
  /\ \/ /\ phase[c] = "running"
        /\ phase' = [phase EXCEPT ![c] = "completed"]
        /\ Answer(c, ResultFrame(c, FALSE))
     \/ /\ phase[c] # "running"
        /\ UNCHANGED <<phase, answers, linkVars>>
  /\ UNCHANGED <<registered, executing, cancelSeen, shutDown>>

\* A call that is no longer tracked, or not yet, is acknowledged as late.
HandleCancel(c) ==
  /\ cancelSeen' = cancelSeen \cup {c}
  /\ \/ /\ phase[c] = "running"
        /\ phase' = [phase EXCEPT ![c] = "cancelled"]
        /\ callTimers' = callTimers \ {c}
        /\ Answer(c, CancelledFrame(c, FALSE))
     \/ /\ phase[c] # "running"
        /\ SendToHub(CancelledFrame(c, TRUE))
        /\ UNCHANGED <<phase, callTimers, answers>>
  /\ UNCHANGED <<registered, executing, shutDown>>

\* Shutdown: every tracked call is cancelled, nothing is sent.  Calls that wait
\* for their dialog are not tracked and stay where they are.
CancelAll ==
  /\ phase' = [c \in Calls |->
                 IF phase[c] = "running" THEN "cancelled" ELSE phase[c]]
  /\ callTimers' = callTimers \ {c \in Calls : phase[c] = "running"}
  /\ shutDown' = TRUE
  /\ UNCHANGED <<registered, executing, answers, cancelSeen, linkVars>>

-----------------------------------------------------------------------------
(* The environment: registrations, the Hub, the socket.                    *)

\* A registration is disposed of.
Unregister(c) ==
  /\ c \in registered
  /\ registered' = registered \ {c}
  /\ UNCHANGED <<routeVars, linkVars>>

HubReads ==
  /\ toHub # <<>>
  /\ toHub' = Tail(toHub)
  /\ UNCHANGED <<registered, routeVars, linkUp>>

LinkDrops ==
  /\ linkUp
  /\ linkUp' = FALSE /\ toHub' = <<>>
  /\ UNCHANGED <<registered, routeVars>>

LinkReturns ==
  /\ ~linkUp /\ ~shutDown
  /\ linkUp' = TRUE
  /\ UNCHANGED <<registered, routeVars, toHub>>

\* Bound: one cancel per call.  A frame is read only from an open socket, and
\* cleanupExtension closes the socket before it calls cancelAll.
Next ==
  \/ \E c \in Calls :
       \/ linkUp /\ HandleInvoke(c)
       \/ linkUp /\ phase[c] # "none" /\ c \notin cancelSeen /\ HandleCancel(c)
       \/ \E yes \in BOOLEAN : ConfirmAnswered(c, yes)
       \/ \E ok \in BOOLEAN : HandlerSettles(c, ok)
       \/ CallTimerFires(c)
       \/ Unregister(c)
  \/ ~linkUp /\ ~shutDown /\ CancelAll
  \/ HubReads \/ LinkDrops \/ LinkReturns

Fairness == \A c \in Calls : WF_vars(CallTimerFires(c))

Spec == Init /\ [][Next]_vars
FairSpec == Spec /\ Fairness

-----------------------------------------------------------------------------
(* Properties.                                                             *)

\* Every variable has its type; that of answers says that no call is answered twice.
TypeOK ==
  /\ registered \subseteq Calls
  /\ phase \in [Calls -> Phases]
  /\ callTimers \subseteq Calls /\ executing \subseteq Calls
  /\ answers \in [Calls -> 0..1]
  /\ cancelSeen \subseteq Calls
  /\ shutDown \in BOOLEAN /\ linkUp \in BOOLEAN
  /\ toHub \in Seq(HubFrames)

\* The handler's return, its failure, the timeout and a cancel race for one
\* call; exactly one of them answers the Hub.
AnswerOnce ==
  \A c \in Calls :
    /\ phase[c] \in {"completed", "cancelled"} /\ ~shutDown /\ c \in Encodable
         => answers[c] = 1
    /\ phase[c] \in {"none", "confirming", "running"} => answers[c] = 0

\* Only a tracked call has a timer, and every tracked call has one: nothing
\* can be tracked for ever.
TrackedAreTimed == callTimers = {c \in Calls : phase[c] = "running"}

\* A call leaves the Map of tracked calls only with an answer, or with all the
\* others at shutdown, when its data can be encoded.
NoSilentDrop ==
  [][\A c \in Encodable : phase[c] = "running" /\ phase'[c] # "running" =>
       answers'[c] = answers[c] + 1 \/ (shutDown' /\ ~shutDown)]_vars

\* Every tracked call is answered in the end, or the Bridge shuts down.
TrackedIsAnswered ==
  \A c \in Calls : (phase[c] = "running") ~> (phase[c] # "running")

=============================================================================
