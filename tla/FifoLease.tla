------------------------------ MODULE FifoLease ------------------------------
(***************************************************************************)
(* What the write lease promises (requirements-shared-browser-relay.md,    *)
(* SBR-F-021, -022, -023, -026), without timers and promises: one owner;   *)
(* the others stand in a line of bounded length and are served in the      *)
(* order in which they came; nobody leaves the line but by being served or *)
(* by going away; the lease lies free only when nobody stands in line.     *)
(***************************************************************************)
EXTENDS Naturals, Sequences

CONSTANTS Hubs, NoHub, MaxQueueDepth

VARIABLES owner, line

leaseVars == <<owner, line>>

Standing == {line[i] : i \in DOMAIN line}

Init == owner = NoHub /\ line = <<>>

Take(h) == owner = NoHub /\ owner' = h /\ UNCHANGED line

StandInLine(h) ==
  /\ owner # NoHub /\ h \notin Standing \cup {owner}
  /\ Len(line) < MaxQueueDepth
  /\ line' = Append(line, h) /\ UNCHANGED owner

\* The owner is done, gone or out of time.
HandOver ==
  /\ owner # NoHub
  /\ \/ line = <<>> /\ owner' = NoHub /\ UNCHANGED line
     \/ line # <<>> /\ owner' = Head(line) /\ line' = Tail(line)

\* A Hub that waits goes away; the others keep their order.
GoAway(i) ==
  /\ line' = [j \in 1 .. Len(line) - 1 |-> IF j < i THEN line[j] ELSE line[j + 1]]
  /\ UNCHANGED owner

Next == \/ \E h \in Hubs : Take(h) \/ StandInLine(h)
        \/ HandOver
        \/ \E i \in DOMAIN line : GoAway(i)

Spec == Init /\ [][Next]_leaseVars
=============================================================================
