-------------------------- MODULE InvocationService --------------------------
(***************************************************************************)
(* What the Hub promises its MCP callers about tool invocations            *)
(* (requirements-hub.md, CONC-01 to CONC-05), without counters, timers or  *)
(* frames: at most MaxConcurrent run, at most MaxQueueDepth wait, in       *)
(* order of arrival; a slot never idles while somebody waits; a call is    *)
(* refused only when both are full or nothing at all is held; losing the   *)
(* Bridge ends everything at once.  BridgeDispatch implements it.          *)
(***************************************************************************)
EXTENDS Integers, Sequences, FiniteSets

CONSTANTS Calls, MaxConcurrent, MaxQueueDepth

VARIABLES running,  \* calls that hold a slot
          waiting,  \* calls in line, in order of arrival
          done      \* calls whose caller has an answer

svcVars == <<running, waiting, done>>

InLine == {waiting[i] : i \in DOMAIN waiting}
Fresh(c) == c \notin running \cup InLine \cup done
Full == Cardinality(running) >= MaxConcurrent

Init == running = {} /\ waiting = <<>> /\ done = {}

Start(c) ==
  /\ Fresh(c) /\ ~Full /\ waiting = <<>>
  /\ running' = running \cup {c}
  /\ UNCHANGED <<waiting, done>>

Queue(c) ==
  /\ Fresh(c) /\ Full /\ Len(waiting) < MaxQueueDepth
  /\ waiting' = Append(waiting, c)
  /\ UNCHANGED <<running, done>>

Refuse(c) ==
  /\ Fresh(c)
  /\ \/ Full /\ Len(waiting) >= MaxQueueDepth
     \/ running = {} /\ waiting = <<>>
  /\ done' = done \cup {c}
  /\ UNCHANGED <<running, waiting>>

\* An answer, an error, a cancellation or a timeout: first in line takes over.
Finish(c) ==
  /\ c \in running
  /\ done' = done \cup {c}
  /\ \/ /\ waiting = <<>>
        /\ running' = running \ {c}
        /\ UNCHANGED waiting
     \/ /\ waiting # <<>>
        /\ running' = (running \ {c}) \cup {Head(waiting)}
        /\ waiting' = Tail(waiting)

Abort ==
  /\ done' = done \cup running \cup InLine
  /\ running' = {} /\ waiting' = <<>>

Next == \/ \E c \in Calls : Start(c) \/ Queue(c) \/ Refuse(c) \/ Finish(c)
        \/ Abort

Spec == Init /\ [][Next]_svcVars
=============================================================================
