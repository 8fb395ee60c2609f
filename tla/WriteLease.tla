------------------------------ MODULE WriteLease ------------------------------
(***************************************************************************)
(* WriteLeaseManager (packages/browser/src/write-lease.ts): the lease that  *)
(* a Hub must hold for its navigate, click, type and press_key requests to  *)
(* be forwarded to Chrome.                                                  *)
(*                                                                         *)
(* clearTimeout stops the timer that expiryTimer names and no other, so the *)
(* armed timers are a variable of their own: that there is never another    *)
(* one is a property and not an assumption.  Durations are left out: an     *)
(* armed timer fires at any time.  SharedRelay calls these operations.      *)
(***************************************************************************)
EXTENDS Integers, Sequences, FiniteSets

CONSTANTS
  Hubs,          \* hub ids
  NoHub,         \* holder = null
  MaxQueueDepth  \* maxQueueDepth, 8 in production

ASSUME LeaseAssumption == NoHub \notin Hubs /\ MaxQueueDepth \in Nat

VARIABLES
  holder,        \* holder
  queue,         \* queue: hub ids, first come first
  waiting,       \* keys of pendingAcquire: promises that acquire() has returned
  expiryTimer,   \* the timer the field names, or NoTimer
  armed          \* the timers that will fire

leaseVars == <<holder, queue, waiting, expiryTimer, armed>>

Timers  == [kind : {"lease", "extension"}, hub : Hubs]
NoTimer == [kind |-> "none", hub |-> NoHub]
LeaseTimer(h)     == [kind |-> "lease", hub |-> h]
ExtensionTimer(h) == [kind |-> "extension", hub |-> h]

Queued == {queue[i] : i \in DOMAIN queue}

LeaseInit ==
  /\ holder = NoHub /\ queue = <<>> /\ waiting = {}
  /\ expiryTimer = NoTimer /\ armed = {}

-----------------------------------------------------------------------------
(* Helpers.                                                                *)

\* Mutant of GrantTo: the promise is resolved but stays in pendingAcquire.
GrantKeepsPromise(h, rest, running) ==
  /\ holder' = h /\ queue' = rest
  /\ expiryTimer' = LeaseTimer(h)
  /\ armed' = running \cup {LeaseTimer(h)}
  /\ UNCHANGED waiting

\* grantTo, called with the rest of the queue and the timers left armed: the
\* promise of h is resolved and a timer of the full duration is armed.  A timer
\* that is still running is not cleared here.
GrantTo(h, rest, running) ==
  /\ holder' = h /\ queue' = rest
  /\ waiting' = waiting \ {h}
  /\ expiryTimer' = LeaseTimer(h)
  /\ armed' = running \cup {LeaseTimer(h)}

\* Mutant of GrantNext: pop() in the place of shift().
GrantLast(line, running) ==
  \/ line # <<>> /\ GrantTo(line[Len(line)], SubSeq(line, 1, Len(line) - 1), running)
  \/ /\ line = <<>> /\ holder' = NoHub /\ queue' = line
     /\ expiryTimer' = NoTimer /\ armed' = running
     /\ UNCHANGED waiting

\* shift() and grantTo for the first in line; without one the lease is free.
GrantNext(line, running) ==
  \/ line # <<>> /\ GrantTo(Head(line), Tail(line), running)
  \/ /\ line = <<>> /\ holder' = NoHub /\ queue' = line
     /\ expiryTimer' = NoTimer /\ armed' = running
     /\ UNCHANGED waiting

\* The queue without the place of h, who has one at most.
Without(line, h) ==
  IF \E i \in DOMAIN line : line[i] = h
    THEN LET i == CHOOSE n \in DOMAIN line : line[n] = h
         IN [j \in 1 .. Len(line) - 1 |-> IF j < i THEN line[j] ELSE line[j + 1]]
    ELSE line

-----------------------------------------------------------------------------
(* Operations.                                                             *)

\* acquire() resolves at once: the Hub holds the lease, or takes a free one.
\* Holding it again does not arm the timer anew.
AcquireNow(h) ==
  \/ holder = h /\ UNCHANGED leaseVars
  \/ holder = NoHub /\ GrantTo(h, queue, armed)

\* acquire() returns a promise that a grant will resolve.
Enqueue(h) ==
  /\ holder \notin {h, NoHub}
  /\ Len(queue) < MaxQueueDepth /\ h \notin Queued
  /\ queue' = Append(queue, h)
  /\ waiting' = waiting \cup {h}
  /\ UNCHANGED <<holder, expiryTimer, armed>>

\* acquire() is rejected: the queue is full, or the Hub stands in it.
Refuse(h) ==
  /\ holder \notin {h, NoHub}
  /\ Len(queue) >= MaxQueueDepth \/ h \in Queued
  /\ UNCHANGED leaseVars

\* Mutant of Release: who releases is not compared with the holder.
ReleaseAny(h) ==
  \/ /\ holder # NoHub /\ queue # <<>>
     /\ GrantNext(queue, armed \ {expiryTimer})
  \/ /\ holder # NoHub /\ queue = <<>>
     /\ expiryTimer' = ExtensionTimer(holder)
     /\ armed' = (armed \ {expiryTimer}) \cup {ExtensionTimer(holder)}
     /\ UNCHANGED <<holder, queue, waiting>>
  \/ holder = NoHub /\ UNCHANGED leaseVars

\* Mutant of Release: the timer of the full duration is left running.
ReleaseUncleared(h) ==
  \/ holder # h /\ UNCHANGED leaseVars
  \/ /\ holder = h /\ queue # <<>>
     /\ GrantNext(queue, armed)
  \/ /\ holder = h /\ queue = <<>>
     /\ expiryTimer' = ExtensionTimer(h)
     /\ armed' = armed \cup {ExtensionTimer(h)}
     /\ UNCHANGED <<holder, queue, waiting>>

\* release: the next in line takes over; without one the holder keeps the lease
\* for the extension.
Release(h) ==
  \/ holder # h /\ UNCHANGED leaseVars
  \/ /\ holder = h /\ queue # <<>>
     /\ GrantNext(queue, armed \ {expiryTimer})
  \/ /\ holder = h /\ queue = <<>>
     /\ expiryTimer' = ExtensionTimer(h)
     /\ armed' = (armed \ {expiryTimer}) \cup {ExtensionTimer(h)}
     /\ UNCHANGED <<holder, queue, waiting>>

\* releaseAll: the timer is cleared whoever holds the lease.
ReleaseAll(h) ==
  \/ /\ holder = h
     /\ LET line == Without(queue, h) IN
          \/ /\ line # <<>>
             /\ holder' = Head(line) /\ queue' = Tail(line)
             /\ waiting' = waiting \ {h, Head(line)}
             /\ expiryTimer' = LeaseTimer(Head(line))
             /\ armed' = (armed \ {expiryTimer}) \cup {LeaseTimer(Head(line))}
          \/ /\ line = <<>>
             /\ holder' = NoHub /\ queue' = line /\ waiting' = waiting \ {h}
             /\ expiryTimer' = NoTimer /\ armed' = armed \ {expiryTimer}
  \/ /\ holder # h
     /\ queue' = Without(queue, h)
     /\ waiting' = IF h \in Queued THEN waiting \ {h} ELSE waiting
     /\ expiryTimer' = NoTimer /\ armed' = armed \ {expiryTimer}
     /\ UNCHANGED holder

\* A timer fires.  Both callbacks look at the holder first.
Expire(t) ==
  /\ t \in armed
  /\ \/ holder = t.hub /\ GrantNext(queue, armed \ {t})
     \/ /\ holder # t.hub
        /\ armed' = armed \ {t}
        /\ expiryTimer' = IF t.kind = "extension" THEN NoTimer ELSE expiryTimer
        /\ UNCHANGED <<holder, queue, waiting>>

LeaseNext ==
  \/ \E h \in Hubs : \/ AcquireNow(h) \/ Enqueue(h) \/ Refuse(h)
                     \/ Release(h) \/ ReleaseAll(h)
  \/ \E t \in Timers : Expire(t)

LeaseSpec == LeaseInit /\ [][LeaseNext]_leaseVars

-----------------------------------------------------------------------------
(* Properties.                                                             *)

LeaseTypeOK ==
  /\ holder \in Hubs \cup {NoHub}
  /\ queue \in Seq(Hubs)
  /\ waiting \subseteq Hubs
  /\ expiryTimer \in Timers \cup {NoTimer}
  /\ armed \subseteq Timers

\* The promises that acquire() has returned and the places in the queue belong
\* to the same Hubs, one each; the holder is not among them, and nobody stands
\* in line for a lease that is free: no promise is left behind by the grants,
\* expiries and departures that move the queue (write-lease.ts:92, :171).
QueueMatchesPromises ==
  /\ waiting = Queued
  /\ \A i, j \in DOMAIN queue : queue[i] = queue[j] => i = j
  /\ holder \notin Queued
  /\ holder = NoHub => queue = <<>>
  /\ Len(queue) <= MaxQueueDepth

\* No timer runs that the field does not name, and the one it names is the
\* holder's: a lease is never ended by the timer of an earlier grant, although
\* grantTo arms one without clearing (write-lease.ts:197).
OnlyHoldersTimer ==
  /\ armed = IF expiryTimer = NoTimer THEN {} ELSE {expiryTimer}
  /\ expiryTimer # NoTimer => expiryTimer.hub = holder

Fifo == INSTANCE FifoLease WITH owner <- holder, line <- queue

\* The lease refines the first-come first-served lease.
ImplementsFifoLease == Fifo!Spec
=============================================================================
