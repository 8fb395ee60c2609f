------------------------- MODULE SharedRelay_proofs -------------------------
(***************************************************************************)
(* Proofs about SharedRelay, for every set of Hubs and requests, every      *)
(* queue length and every number of faults.  First come those about its    *)
(* lease alone, for any specification whose steps are the operations of    *)
(* WriteLease.                                                             *)
(***************************************************************************)
EXTENDS SharedRelay, SequenceTheorems, TLAPS

-----------------------------------------------------------------------------
(* The queue of the lease: a sequence without repetition, and the same     *)
(* without one place.                                                      *)

Elements(s) == {s[i] : i \in DOMAIN s}
Distinct(s) == \A i, j \in DOMAIN s : s[i] = s[j] => i = j

\* Appending a new element adds exactly that element.
LEMMA AppendElements ==
  ASSUME NEW S, NEW s \in Seq(S), NEW e \in S
  PROVE  /\ Elements(Append(s, e)) = Elements(s) \cup {e}
         /\ Distinct(s) /\ e \notin Elements(s) => Distinct(Append(s, e))
  <1>1. /\ Append(s, e) \in Seq(S) /\ Len(Append(s, e)) = Len(s) + 1
        /\ \A i \in 1 .. Len(s) : Append(s, e)[i] = s[i]
        /\ Append(s, e)[Len(s) + 1] = e
    BY AppendProperties
  <1>2. Len(s) \in Nat /\ DOMAIN s = 1 .. Len(s)
        /\ DOMAIN Append(s, e) = 1 .. (Len(s) + 1)
    BY <1>1, LenProperties
  <1>3. Elements(Append(s, e)) = Elements(s) \cup {e}
    BY <1>1, <1>2 DEF Elements
  <1>4. ASSUME Distinct(s), e \notin Elements(s) PROVE Distinct(Append(s, e))
    <2>1. \A i \in 1 .. Len(s) : s[i] # e
      BY <1>2, <1>4 DEF Elements
    <2>2. QED
      BY <1>1, <1>2, <1>4, <2>1 DEF Distinct
  <1>5. QED
    BY <1>3, <1>4

RemovedAt(s, i) == [j \in 1 .. Len(s) - 1 |-> IF j < i THEN s[j] ELSE s[j + 1]]

\* Removing a place keeps the other elements and their order.
LEMMA RemoveElements ==
  ASSUME NEW S, NEW s \in Seq(S), Distinct(s), NEW i \in DOMAIN s
  PROVE  /\ RemovedAt(s, i) \in Seq(S)
         /\ Len(RemovedAt(s, i)) = Len(s) - 1
         /\ Elements(RemovedAt(s, i)) = Elements(s) \ {s[i]}
         /\ Distinct(RemovedAt(s, i))
  <1> DEFINE t == RemovedAt(s, i)
             n == Len(s) - 1
  <1>1. /\ Len(s) \in Nat \ {0} /\ DOMAIN s = 1 .. Len(s) /\ i \in 1 .. Len(s)
        /\ \A k \in 1 .. Len(s) : s[k] \in S
    BY LenProperties, ElementOfSeq
  <1>2. /\ n \in Nat /\ DOMAIN t = 1 .. n
        /\ \A j \in 1 .. n : t[j] = IF j < i THEN s[j] ELSE s[j + 1]
    BY <1>1 DEF RemovedAt
  <1>3. t \in Seq(S) /\ Len(t) = n
    <2>1. t \in [1 .. n -> S]
      BY <1>1, <1>2 DEF RemovedAt
    <2>2. t \in Seq(S)
      BY <1>2, <2>1, SeqDef
    <2>3. QED
      BY <1>2, <2>2, LenProperties
  <1>4. Distinct(t)
    BY <1>1, <1>2 DEF Distinct
  <1>5. ASSUME NEW x \in Elements(t) PROVE x \in Elements(s) \ {s[i]}
    <2>1. PICK j \in 1 .. n : x = t[j]
      BY <1>2, <1>5 DEF Elements
    <2>2. CASE j < i
      <3>1. x = s[j] /\ j \in DOMAIN s /\ j # i
        BY <1>1, <1>2, <2>1, <2>2
      <3>2. QED
        BY <3>1 DEF Elements, Distinct
    <2>3. CASE ~(j < i)
      <3>1. x = s[j + 1] /\ j + 1 \in DOMAIN s /\ j + 1 # i
        BY <1>1, <1>2, <2>1, <2>3
      <3>2. QED
        BY <3>1 DEF Elements, Distinct
    <2>4. QED
      BY <2>2, <2>3
  <1>6. ASSUME NEW x \in Elements(s) \ {s[i]} PROVE x \in Elements(t)
    <2>1. PICK k \in DOMAIN s : x = s[k] /\ k # i
      BY <1>6 DEF Elements
    <2>2. CASE k < i
      BY <1>1, <1>2, <2>1, <2>2 DEF Elements
    <2>3. CASE k > i
      <3>1. k - 1 \in DOMAIN t /\ t[k - 1] = s[(k - 1) + 1] /\ (k - 1) + 1 = k
        BY <1>1, <1>2, <2>1, <2>3
      <3>2. QED
        BY <2>1, <3>1 DEF Elements
    <2>4. QED
      BY <1>1, <2>1, <2>2, <2>3
  <1> HIDE DEF t, n
  <1>7. QED
    BY <1>3, <1>4, <1>5, <1>6 DEF t, n

\* Taking the head off removes exactly that element.
LEMMA TailElements ==
  ASSUME NEW S, NEW s \in Seq(S), s # <<>>, Distinct(s)
  PROVE  /\ Head(s) \in Elements(s)
         /\ Elements(Tail(s)) = Elements(s) \ {Head(s)}
         /\ Distinct(Tail(s))
  <1> DEFINE n == Len(s) - 1
  <1>1. /\ Len(s) \in Nat \ {0} /\ DOMAIN s = 1 .. Len(s) /\ 1 \in DOMAIN s
        /\ Head(s) = s[1]
    BY EmptySeq, LenProperties
  <1>2. /\ Tail(s) \in Seq(S) /\ Len(Tail(s)) = n
        /\ \A j \in 1 .. Len(Tail(s)) : Tail(s)[j] = s[j + 1]
    BY HeadTailProperties
  <1>3. RemovedAt(s, 1) \in Seq(S) /\ Len(RemovedAt(s, 1)) = n
    BY <1>1, RemoveElements
  <1>4. \A j \in 1 .. n : RemovedAt(s, 1)[j] = s[j + 1]
    BY <1>1 DEF RemovedAt
  <1>5. Tail(s) = RemovedAt(s, 1)
    BY <1>2, <1>3, <1>4, SeqEqual
  <1>6. Head(s) \in Elements(s)
    BY <1>1 DEF Elements
  <1>7. Elements(RemovedAt(s, 1)) = Elements(s) \ {s[1]} /\ Distinct(RemovedAt(s, 1))
    BY <1>1, RemoveElements
  <1> QED
    BY <1>1, <1>5, <1>6, <1>7

\* What is left of a queue when a Hub leaves it.
LEMMA WithoutElements ==
  ASSUME NEW s \in Seq(Hubs), Distinct(s), NEW h
  PROVE  /\ Without(s, h) \in Seq(Hubs)
         /\ Len(Without(s, h)) <= Len(s)
         /\ Elements(Without(s, h)) = Elements(s) \ {h}
         /\ Distinct(Without(s, h))
         /\ h \notin Elements(s) => Without(s, h) = s
         /\ h \in Elements(s) => \E i \in DOMAIN s : Without(s, h) = RemovedAt(s, i)
  <1>0. Len(s) \in Nat
    BY LenProperties
  <1>1. CASE h \in Elements(s)
    <2> DEFINE i == CHOOSE n \in DOMAIN s : s[n] = h
    <2>1. i \in DOMAIN s /\ s[i] = h
      BY <1>1 DEF Elements
    <2>2. Without(s, h) = RemovedAt(s, i)
      BY <2>1 DEF Without, RemovedAt
    <2> HIDE DEF i
    <2>3. QED
      BY <1>0, <1>1, <2>1, <2>2, RemoveElements
  <1>2. CASE h \notin Elements(s)
    <2>1. Without(s, h) = s
      BY <1>2 DEF Without, Elements
    <2>2. QED
      BY <1>0, <1>2, <2>1
  <1>3. QED
    BY <1>1, <1>2

-----------------------------------------------------------------------------
(* The inductive invariant.                                                *)

\* The three properties are inductive together: the promises stay those of the
\* queue because nobody waits for a free lease, and a timer that fires is the
\* holder's because none of an earlier grant is left.
LeaseInv == LeaseTypeOK /\ QueueMatchesPromises /\ OnlyHoldersTimer

\* The queue as a sequence without repetition.
LEMMA QueueWords ==
  /\ Queued = Elements(queue)
  /\ (\A i, j \in DOMAIN queue : queue[i] = queue[j] => i = j) <=> Distinct(queue)
  /\ (\A i, j \in DOMAIN queue : queue[i] = queue[j] => i = j)' <=> Distinct(queue')
  /\ Queued' = Elements(queue')
  BY DEF Queued, Elements, Distinct

\* A state with a holder and its timer, or without both, satisfies the invariant.
LEMMA Granted ==
  ASSUME queue' \in Seq(Hubs), Distinct(queue'), Len(queue') <= MaxQueueDepth,
         waiting' = Elements(queue'), waiting' \subseteq Hubs,
         holder' \notin Elements(queue'),
         \/ /\ holder' \in Hubs /\ expiryTimer' = LeaseTimer(holder')
            /\ armed' = {expiryTimer'}
         \/ /\ holder' = NoHub /\ queue' = <<>>
            /\ expiryTimer' = NoTimer /\ armed' = {}
  PROVE  LeaseInv'
  <1>1. LeaseTypeOK'
    BY DEF LeaseTypeOK, Timers, LeaseTimer
  <1>2. QueueMatchesPromises'
    BY QueueWords, LeaseAssumption DEF QueueMatchesPromises
  <1>3. OnlyHoldersTimer'
    BY DEF OnlyHoldersTimer, LeaseTimer, NoTimer
  <1>4. QED
    BY <1>1, <1>2, <1>3 DEF LeaseInv

\* The next in line takes over and no other timer runs.
LEMMA NextGranted ==
  ASSUME LeaseInv, NEW line \in Seq(Hubs), Distinct(line), Len(line) <= MaxQueueDepth,
         waiting = Elements(line), GrantNext(line, {})
  PROVE  LeaseInv'
  <1>1. CASE line # <<>> /\ GrantTo(Head(line), Tail(line), {})
    <2>1. /\ Tail(line) \in Seq(Hubs) /\ Len(Tail(line)) <= Len(line)
          /\ Head(line) \in Hubs /\ Len(line) \in Nat
      BY <1>1, HeadTailProperties, LenProperties
    <2>2. /\ holder' = Head(line) /\ queue' = Tail(line)
          /\ waiting' = waiting \ {Head(line)}
          /\ expiryTimer' = LeaseTimer(holder') /\ armed' = {expiryTimer'}
      BY <1>1 DEF GrantTo
    <2>3. /\ Elements(Tail(line)) = Elements(line) \ {Head(line)}
          /\ Distinct(Tail(line))
      BY <1>1, TailElements
    <2>4. waiting \subseteq Hubs /\ Len(Tail(line)) <= MaxQueueDepth
      BY <2>1, LeaseAssumption, LenProperties DEF LeaseInv, LeaseTypeOK
    <2>5. QED
      BY <2>1, <2>2, <2>3, <2>4, Granted
  <1>2. CASE line = <<>> /\ GrantNext(line, {})
    <2>1. /\ holder' = NoHub /\ queue' = <<>>
          /\ expiryTimer' = NoTimer /\ armed' = {} /\ waiting' = waiting
      BY <1>2 DEF GrantNext
    <2>2. Elements(line) = {} /\ waiting \subseteq Hubs
      BY <1>2 DEF Elements, LeaseInv, LeaseTypeOK
    <2>3. QED
      BY <1>2, <2>1, <2>2, Granted
  <1>3. QED
    BY <1>1, <1>2 DEF GrantNext

\* The timer of the holder is the only one: without it none is armed.
LEMMA TimerCleared ==
  ASSUME LeaseInv
  PROVE  /\ armed \ {expiryTimer} = {}
         /\ \A t \in armed : armed \ {t} = {} /\ holder = t.hub
  BY DEF LeaseInv, OnlyHoldersTimer

\* Every operation of the lease keeps the invariant.
LEMMA LeaseStep == LeaseInv /\ [LeaseNext]_leaseVars => LeaseInv'
  <1> SUFFICES ASSUME LeaseInv, [LeaseNext]_leaseVars PROVE LeaseInv'
    OBVIOUS
  <1> USE LeaseAssumption
  <1>0. /\ queue \in Seq(Hubs) /\ Distinct(queue) /\ waiting = Elements(queue)
        /\ holder \notin Elements(queue) /\ Len(queue) <= MaxQueueDepth
        /\ waiting \subseteq Hubs /\ Len(queue) \in Nat
        /\ holder = NoHub => queue = <<>>
        /\ holder \in Hubs \cup {NoHub}
    BY QueueWords, LenProperties DEF LeaseInv, LeaseTypeOK, QueueMatchesPromises
  <1>1. ASSUME UNCHANGED leaseVars PROVE LeaseInv'
    BY <1>1 DEF leaseVars, LeaseInv, LeaseTypeOK, QueueMatchesPromises,
                OnlyHoldersTimer, Queued
  <1>2. ASSUME NEW h \in Hubs, AcquireNow(h) PROVE LeaseInv'
    <2>1. CASE holder = NoHub /\ GrantTo(h, queue, armed)
      <3>1. armed = {} /\ Elements(queue) = {}
        BY <1>0, <2>1 DEF LeaseInv, LeaseTypeOK, OnlyHoldersTimer, Timers, Elements
      <3>2. /\ holder' = h /\ queue' = <<>> /\ waiting' = {}
            /\ expiryTimer' = LeaseTimer(holder') /\ armed' = {expiryTimer'}
        BY <1>0, <2>1, <3>1 DEF GrantTo
      <3>3. QED
        BY <1>0, <2>1, <3>1, <3>2, Granted
    <2>2. QED
      BY <1>1, <1>2, <2>1 DEF AcquireNow
  <1>3. ASSUME NEW h \in Hubs, Enqueue(h) PROVE LeaseInv'
    <2>1. /\ queue' = Append(queue, h) /\ waiting' = waiting \cup {h}
          /\ h \notin Elements(queue) /\ Len(queue) < MaxQueueDepth
          /\ holder # h /\ holder # NoHub
          /\ UNCHANGED <<holder, expiryTimer, armed>>
      BY <1>3, QueueWords DEF Enqueue
    <2>2. /\ queue' \in Seq(Hubs) /\ Len(queue') = Len(queue) + 1
      BY <1>0, <2>1, AppendProperties
    <2>3. /\ Elements(queue') = Elements(queue) \cup {h} /\ Distinct(queue')
      BY <1>0, <2>1, AppendElements
    <2>4. LeaseTypeOK'
      BY <1>0, <2>1, <2>2 DEF LeaseInv, LeaseTypeOK
    <2>5. QueueMatchesPromises'
      BY <1>0, <2>1, <2>2, <2>3, QueueWords DEF QueueMatchesPromises
    <2>6. QED
      BY <2>1, <2>4, <2>5 DEF LeaseInv, OnlyHoldersTimer
  <1>4. ASSUME NEW h \in Hubs, Release(h) PROVE LeaseInv'
    <2>1. CASE holder = h /\ queue # <<>> /\ GrantNext(queue, armed \ {expiryTimer})
      BY <1>0, <2>1, TimerCleared, NextGranted
    <2>2. CASE /\ holder = h /\ queue = <<>>
               /\ expiryTimer' = ExtensionTimer(h)
               /\ armed' = (armed \ {expiryTimer}) \cup {ExtensionTimer(h)}
               /\ UNCHANGED <<holder, queue, waiting>>
      <3>1. expiryTimer' = ExtensionTimer(holder') /\ armed' = {expiryTimer'}
        BY <2>2, TimerCleared
      <3>2. ExtensionTimer(h) \in Timers
        BY DEF ExtensionTimer, Timers
      <3>3. LeaseTypeOK'
        BY <1>0, <2>2, <3>1, <3>2 DEF LeaseInv, LeaseTypeOK
      <3>4. OnlyHoldersTimer'
        BY <3>1 DEF OnlyHoldersTimer, ExtensionTimer, NoTimer
      <3>5. QueueMatchesPromises'
        BY <2>2 DEF LeaseInv, QueueMatchesPromises, Queued
      <3>6. QED
        BY <3>3, <3>4, <3>5 DEF LeaseInv
    <2>3. QED
      BY <1>1, <1>4, <2>1, <2>2 DEF Release
  <1>5. ASSUME NEW h \in Hubs, ReleaseAll(h) PROVE LeaseInv'
    <2> DEFINE line == Without(queue, h)
    <2>1. /\ line \in Seq(Hubs) /\ Len(line) <= MaxQueueDepth
          /\ Elements(line) = Elements(queue) \ {h} /\ Distinct(line)
          /\ h \notin Elements(queue) => line = queue
      BY <1>0, WithoutElements, LenProperties
    <2> HIDE DEF line
    <2>2. CASE holder = h
      <3>1. line = queue /\ waiting \ {h} = waiting
        BY <1>0, <2>1, <2>2
      <3>2. GrantNext(line, {})
        BY <1>5, <2>2, <3>1, TimerCleared DEF ReleaseAll, GrantNext, GrantTo, line
      <3>3. QED
        BY <1>0, <3>1, <3>2, NextGranted
    <2>3. CASE holder # h
      <3>1. /\ queue' = line /\ waiting' = Elements(line)
            /\ expiryTimer' = NoTimer /\ armed' = {} /\ holder' = holder
        BY <1>0, <1>5, <2>1, <2>3, QueueWords, TimerCleared DEF ReleaseAll, line
      <3>2. LeaseTypeOK'
        BY <1>0, <2>1, <3>1 DEF LeaseInv, LeaseTypeOK
      <3>3. holder' = NoHub => queue' = <<>>
        BY <1>0, <2>1, <3>1 DEF Elements
      <3>4. QueueMatchesPromises'
        BY <1>0, <2>1, <3>1, <3>3, QueueWords DEF QueueMatchesPromises
      <3>5. QED
        BY <3>1, <3>2, <3>4 DEF LeaseInv, OnlyHoldersTimer
    <2>4. QED
      BY <2>2, <2>3
  <1>6. ASSUME NEW t \in Timers, Expire(t) PROVE LeaseInv'
    <2>1. t \in armed /\ holder = t.hub /\ armed \ {t} = {}
      BY <1>6, TimerCleared DEF Expire
    <2>2. GrantNext(queue, {})
      BY <1>6, <2>1 DEF Expire
    <2>3. QED
      BY <1>0, <2>2, NextGranted
  <1>7. QED
    BY <1>1, <1>2, <1>3, <1>4, <1>5, <1>6 DEF LeaseNext, Refuse

LEMMA LeaseStarts == LeaseInit => LeaseInv
  <1> SUFFICES ASSUME LeaseInit PROVE LeaseInv
    OBVIOUS
  <1>1. queue = <<>> /\ queue \in Seq(Hubs) /\ Len(queue) = 0 /\ Queued = {}
    BY DEF LeaseInit, Queued
  <1>2. QED
    BY <1>1, LeaseAssumption
       DEF LeaseInit, LeaseInv, LeaseTypeOK, QueueMatchesPromises, OnlyHoldersTimer

-----------------------------------------------------------------------------
(* Theorems.                                                               *)

\* The invariant of every run of the lease.
THEOREM LeaseInvariant == LeaseSpec => []LeaseInv
  BY LeaseStarts, LeaseStep, PTL DEF LeaseSpec

\* Every operation is one of the first-come first-served lease, or none: a
\* release hands over to the first in line, a departure is the holder's handing
\* over or takes one place out of the line.
LEMMA LeaseServes ==
  LeaseInv /\ [LeaseNext]_leaseVars => [Fifo!Next]_(Fifo!leaseVars)
  <1> SUFFICES ASSUME LeaseInv, [LeaseNext]_leaseVars
               PROVE  Fifo!Next \/ UNCHANGED Fifo!leaseVars
    OBVIOUS
  <1>0. /\ queue \in Seq(Hubs) /\ Distinct(queue) /\ holder \notin Elements(queue)
        /\ Fifo!Standing = Elements(queue) /\ Queued = Elements(queue)
    BY QueueWords DEF LeaseInv, LeaseTypeOK, QueueMatchesPromises, Fifo!Standing, Elements
  <1>1. ASSUME UNCHANGED leaseVars PROVE UNCHANGED Fifo!leaseVars
    BY <1>1 DEF leaseVars, Fifo!leaseVars
  <1>2. ASSUME NEW running, GrantNext(queue, running), holder # NoHub PROVE Fifo!Next
    BY <1>2 DEF GrantNext, GrantTo, Fifo!Next, Fifo!HandOver
  <1>3. ASSUME NEW h \in Hubs, AcquireNow(h)
        PROVE  Fifo!Next \/ UNCHANGED Fifo!leaseVars
    BY <1>1, <1>3 DEF AcquireNow, GrantTo, Fifo!Next, Fifo!Take
  <1>4. ASSUME NEW h \in Hubs, Enqueue(h) PROVE Fifo!Next
    BY <1>0, <1>4 DEF Enqueue, Fifo!Next, Fifo!StandInLine
  <1>5. ASSUME NEW h \in Hubs, Release(h)
        PROVE  Fifo!Next \/ UNCHANGED Fifo!leaseVars
    <2>1. holder = h => holder # NoHub
      BY LeaseAssumption
    <2>2. QED
      BY <1>1, <1>2, <1>5, <2>1 DEF Release, Fifo!leaseVars
  <1>6. ASSUME NEW h \in Hubs, ReleaseAll(h)
        PROVE  Fifo!Next \/ UNCHANGED Fifo!leaseVars
    <2>1. /\ h \notin Elements(queue) => Without(queue, h) = queue
          /\ h \in Elements(queue) =>
               \E i \in DOMAIN queue : Without(queue, h) = RemovedAt(queue, i)
      BY <1>0, WithoutElements
    <2>2. CASE holder = h
      <3>1. Without(queue, h) = queue /\ holder # NoHub
        BY <1>0, <2>1, <2>2, LeaseAssumption
      <3>2. QED
        BY <1>6, <2>2, <3>1 DEF ReleaseAll, Fifo!Next, Fifo!HandOver
    <2>3. CASE holder # h /\ h \in Elements(queue)
      <3>1. PICK i \in DOMAIN queue : queue' = RemovedAt(queue, i)
        BY <1>6, <2>1, <2>3 DEF ReleaseAll
      <3>2. holder' = holder
        BY <1>6, <2>3 DEF ReleaseAll
      <3>3. QED
        BY <3>1, <3>2 DEF RemovedAt, Fifo!Next, Fifo!GoAway
    <2>4. CASE holder # h /\ h \notin Elements(queue)
      BY <1>6, <2>1, <2>4 DEF ReleaseAll, Fifo!leaseVars
    <2>5. QED
      BY <2>2, <2>3, <2>4
  <1>7. ASSUME NEW t \in Timers, Expire(t) PROVE Fifo!Next
    <2>1. holder = t.hub /\ holder # NoHub /\ GrantNext(queue, armed \ {t})
      BY <1>7, TimerCleared, LeaseAssumption DEF Expire, Timers
    <2>2. QED
      BY <1>2, <2>1
  <1>8. QED
    BY <1>1, <1>3, <1>4, <1>5, <1>6, <1>7 DEF LeaseNext, Refuse

\* WriteLease implements FifoLease: one owner, first come first served, nobody
\* in line for a free lease.
THEOREM LeaseImplementation == LeaseSpec => ImplementsFifoLease
  <1>1. LeaseInit => Fifo!Init
    BY DEF LeaseInit, Fifo!Init
  <1>2. QED
    BY <1>1, LeaseServes, LeaseInvariant, PTL
       DEF LeaseSpec, ImplementsFifoLease, Fifo!Spec

-----------------------------------------------------------------------------
(* The relay uses the lease as the lease is meant to be used.               *)

\* The resolver of a request releases the lease of its Hub, or does not touch it.
LEMMA ResolverLease ==
  ASSUME NEW r \in Requests, NEW now, Resolver(r, now)
  PROVE  [LeaseNext]_leaseVars
  BY SharedRelayAssumption DEF Resolver, LeaseNext

\* Every step is an operation of the lease or leaves it alone.
LEMMA RelayLeaseStep == [Next]_vars => [LeaseNext]_leaseVars
  <1> SUFFICES ASSUME [Next]_vars PROVE [LeaseNext]_leaseVars
    OBVIOUS
  <1> USE SharedRelayAssumption
  <1>1. ASSUME NEW r \in Requests, Receive(r) PROVE [LeaseNext]_leaseVars
    BY <1>1 DEF Receive, LeaseNext
  <1>2. ASSUME NEW r \in Requests, Forward(r) PROVE [LeaseNext]_leaseVars
    BY <1>2, ResolverLease DEF Forward, LeaseNext
  <1>3. ASSUME NEW r \in Requests, ResolveOne(r) PROVE [LeaseNext]_leaseVars
    BY <1>3, ResolverLease DEF ResolveOne
  <1>4. ASSUME NEW r \in Requests, ChromeAnswers(r) PROVE [LeaseNext]_leaseVars
    BY <1>4, ResolverLease DEF ChromeAnswers
  <1>5. ASSUME NEW r \in Requests, ChromeSilent(r) PROVE [LeaseNext]_leaseVars
    BY <1>5 DEF ChromeSilent
  <1>6. ASSUME NEW h \in Hubs, HubConnects(h) \/ HubCloses(h) \/ OldHubSocketCloses(h)
        PROVE  [LeaseNext]_leaseVars
    BY <1>6 DEF HubConnects, HubCloses, OldHubSocketCloses, HubGone, LeaseNext
  <1>7. CASE ChromeConnects \/ ChromeCloses \/ OldChromeCloses
    BY <1>7 DEF ChromeConnects, ChromeCloses, OldChromeCloses
  <1>8. ASSUME NEW t \in Timers, LeaseExpires(t) PROVE [LeaseNext]_leaseVars
    BY <1>8 DEF LeaseExpires, LeaseNext
  <1>9. CASE UNCHANGED vars
    BY <1>9 DEF vars
  <1>10. QED
    BY <1>1, <1>2, <1>3, <1>4, <1>5, <1>6, <1>7, <1>8, <1>9 DEF Next

\* The relay implements the lease, and so all that is proved of the lease.
THEOREM RelayImplementsLease == Spec => LeaseSpec
  <1>1. Init => LeaseInit
    BY DEF Init
  <1>2. QED
    BY <1>1, RelayLeaseStep, PTL DEF Spec, LeaseSpec

\* The promises of acquire() are those of the Hubs in line, whatever happens to
\* Hubs, Chrome and timers.
THEOREM PromisesKept == Spec => []QueueMatchesPromises
  BY RelayImplementsLease, LeaseInvariant, PTL DEF LeaseInv

\* No lease is ended by the timer of an earlier one.
THEOREM TimersOwned == Spec => []OnlyHoldersTimer
  BY RelayImplementsLease, LeaseInvariant, PTL DEF LeaseInv

\* The lease that the relay hands out is first come, first served.
THEOREM FirstComeFirstServed == Spec => ImplementsFifoLease
  BY RelayImplementsLease, LeaseImplementation, PTL

-----------------------------------------------------------------------------
(* One mutator.                                                            *)

InFlight == {"queued", "due", "running", "overrun"}

\* Everything is of the shape that the steps below rely on.
RelayShape ==
  /\ req \in [Requests -> Places] /\ reply \in [Requests -> Replies]
  /\ used \in [kinds : SUBSET FaultKinds, faults : Int]
  /\ pending \subseteq Requests /\ routed \subseteq Requests /\ resolving \subseteq Requests

\* A request in line is one whose promise is kept.
LineKept == \A r \in Requests : req[r] = "queued" => HubOf[r] \in waiting

\* A Hub that is patient has one mutation under way.
OneAtATime ==
  \A q, r \in Mutating :
    HubOf[q] = HubOf[r] /\ req[q] \in InFlight /\ req[r] \in InFlight => q = r

\* With one patient Hub per mutation and one Chrome, a mutation that runs is the
\* holder's; one that is about to be forwarded is so too, or will find no Chrome.
HolderRuns ==
  /\ ~oldChrome
  /\ \A r \in Requests : req[r] = "running" => chrome
  /\ resolving # {} => ~chrome
  /\ \A r \in Mutating : req[r] = "running" => holder = HubOf[r]
  /\ \A r \in Mutating : req[r] = "due" => holder = HubOf[r] \/ ~chrome

\* What patience, one Chrome and the lease say of the mutations under way.
PatientInv == OneAtATime /\ HolderRuns

MutatorInv ==
  /\ LeaseInv /\ RelayShape
  /\ NoneOf({"impatient", "twoChromes"}) => PatientInv

-----------------------------------------------------------------------------
(* What an operation of the lease does to the requests.                    *)

\* Which promises an operation of the lease drops, and who may lose the lease.
LEMMA PromisesDropped ==
  ASSUME LeaseInv, NEW h \in Hubs
  PROVE  /\ AcquireNow(h) => waiting' = waiting /\ holder' = h
                             /\ (holder' = holder \/ holder = NoHub)
         /\ Release(h) => /\ waiting \subseteq waiting' \cup {holder'}
                          /\ holder' = holder \/ holder = h
         /\ ReleaseAll(h) => waiting \subseteq waiting' \cup {holder', h}
  <1>1. AcquireNow(h) => waiting' = waiting /\ holder' = h
                         /\ (holder' = holder \/ holder = NoHub)
    <2>1. holder = NoHub => waiting = {}
      BY DEF LeaseInv, QueueMatchesPromises, Queued
    <2>2. QED
      BY <2>1 DEF AcquireNow, GrantTo, leaseVars
  <1>2. \A running : GrantNext(queue, running) => waiting \subseteq waiting' \cup {holder'}
    BY DEF GrantNext, GrantTo
  <1>3. QED
    BY <1>1, <1>2 DEF Release, ReleaseAll, leaseVars

LEMMA ExpiryDrops ==
  ASSUME NEW t \in Timers, Expire(t)
  PROVE  waiting \subseteq waiting' \cup {holder'}
  BY DEF Expire, GrantNext, GrantTo

\* Where LeaseMoves takes a request.
LEMMA MovesEffect ==
  ASSUME NEW now \in [Requests -> Places], NEW lost \in BOOLEAN, LeaseMoves(now, lost)
  PROVE  /\ req' \in [Requests -> Places]
         /\ \A r \in Requests :
              \/ req'[r] = now[r]
              \/ /\ now[r] = "queued" /\ HubOf[r] \notin waiting'
                 /\ \/ req'[r] = "due" /\ holder' = HubOf[r]
                    \/ req'[r] = "dead" /\ holder' # HubOf[r]
              \/ now[r] = "running" /\ req'[r] = "overrun"
         /\ \A r \in Requests : req'[r] = "queued" => HubOf[r] \in waiting'
         /\ \A r \in Mutating :
              req'[r] = "running" /\ lost /\ HubOf[r] = holder => holder' = holder
  BY SharedRelayAssumption DEF LeaseMoves, Places

\* The shape, the line and the order of a Hub's mutations outlive LeaseMoves.
LEMMA MovesKeep ==
  ASSUME NEW now \in [Requests -> Places], NEW lost \in BOOLEAN, LeaseMoves(now, lost),
         \A r \in Requests : now[r] = req[r] \/ now[r] \notin InFlight
  PROVE  /\ LineKept'
         /\ OneAtATime => OneAtATime'
         /\ \A r \in Requests : req'[r] = "running" => req[r] = "running"
         /\ \A r \in Requests : req'[r] = "due" =>
              now[r] = "due" \/ holder' = HubOf[r]
  <1>1. \A r \in Requests : req'[r] \in InFlight => req[r] \in InFlight
    BY MovesEffect DEF InFlight
  <1>2. LineKept'
    BY MovesEffect DEF LineKept
  <1>3. OneAtATime => OneAtATime'
    BY <1>1, SharedRelayAssumption DEF OneAtATime
  <1>4. QED
    BY <1>2, <1>3, MovesEffect DEF InFlight

\* Faults never change.
LEMMA ScenarioStays ==
  ASSUME RelayShape, NEW kind, Fault(kind) \/ UNCHANGED used
  PROVE  /\ used' \in [kinds : SUBSET FaultKinds, faults : Int]
         /\ \A kinds : NoneOf(kinds)' <=> NoneOf(kinds)
         /\ Fault(kind) => kind \in Faults
  BY DEF RelayShape, Fault, Faults, NoneOf

-----------------------------------------------------------------------------
(* The invariant of one mutator is inductive.                              *)

LEMMA MutatorStarts == Init => MutatorInv
  <1> SUFFICES ASSUME Init PROVE MutatorInv
    OBVIOUS
  <1>1. LeaseInv
    BY LeaseStarts DEF Init
  <1>2. RelayShape
    BY SharedRelayAssumption DEF Init, RelayShape, Places, Replies
  <1>3. PatientInv
    BY SharedRelayAssumption DEF Init, PatientInv, OneAtATime, HolderRuns, InFlight
  <1>4. QED
    BY <1>1, <1>2, <1>3 DEF MutatorInv

\* Replies after the two ways of changing them.
LEMMA ReplyShapes ==
  ASSUME RelayShape
  PROVE  /\ \A r \in Requests : Answered(r) \in [Requests -> Replies]
         /\ \A h \in Hubs : Unheard(h) \in [Requests -> Replies]
  BY DEF RelayShape, Answered, Unheard, Replies

\* The shape is kept by every step.
LEMMA ShapeStep == RelayShape /\ [Next]_vars => RelayShape'
  <1> SUFFICES ASSUME RelayShape, [Next]_vars PROVE RelayShape'
    OBVIOUS
  <1> USE SharedRelayAssumption
  <1>0. /\ req \in [Requests -> Places]
        /\ \A r \in Requests : \A p \in Places : [req EXCEPT ![r] = p] \in [Requests -> Places]
        /\ {"due", "queued", "done", "running", "silent", "overrun"} \subseteq Places
        /\ TRUE \in BOOLEAN /\ FALSE \in BOOLEAN
    BY DEF RelayShape, Places
  <1>1. ASSUME NEW r \in Requests, Receive(r) PROVE RelayShape'
    BY <1>0, <1>1, ReplyShapes DEF Receive, RelayShape, tables, sockets
  <1>2. ASSUME NEW r \in Requests, Forward(r) PROVE RelayShape'
    <2>1. req' \in [Requests -> Places]
      BY <1>0, <1>2, MovesEffect DEF Forward, Resolver
    <2>2. reply' \in [Requests -> Replies]
      BY <1>2, ReplyShapes DEF Forward, Resolver, RelayShape
    <2>3. QED
      BY <1>2, <2>1, <2>2 DEF Forward, RelayShape, sockets
  <1>3. ASSUME NEW r \in Requests, ResolveOne(r) PROVE RelayShape'
    <2>1. req' \in [Requests -> Places]
      BY <1>0, <1>3, MovesEffect DEF ResolveOne, Resolver
    <2>2. reply' \in [Requests -> Replies]
      BY <1>3, ReplyShapes DEF ResolveOne, Resolver
    <2>3. QED
      BY <1>3, <2>1, <2>2 DEF ResolveOne, RelayShape, sockets, tables
  <1>4. ASSUME NEW r \in Requests, ChromeAnswers(r) PROVE RelayShape'
    <2>1. req' \in [Requests -> Places]
      BY <1>0, <1>4, MovesEffect DEF ChromeAnswers, Resolver
    <2>2. reply' \in [Requests -> Replies]
      BY <1>4, ReplyShapes DEF ChromeAnswers, Resolver, RelayShape
    <2>3. QED
      BY <1>4, <2>1, <2>2 DEF ChromeAnswers, RelayShape, sockets
  <1>5. ASSUME NEW r \in Requests, ChromeSilent(r) PROVE RelayShape'
    BY <1>0, <1>5, ScenarioStays DEF ChromeSilent, RelayShape, sockets, tables
  <1>6. ASSUME NEW h \in Hubs, HubConnects(h) PROVE RelayShape'
    BY <1>6, ScenarioStays, ReplyShapes DEF HubConnects, RelayShape
  <1>7. ASSUME NEW h \in Hubs, HubGone(h) PROVE req' \in [Requests -> Places]
    BY <1>0, <1>7, MovesEffect DEF HubGone
  <1>8. ASSUME NEW h \in Hubs, HubCloses(h) PROVE RelayShape'
    BY <1>7, <1>8, ScenarioStays, ReplyShapes DEF HubCloses, HubGone, RelayShape
  <1>9. ASSUME NEW h \in Hubs, OldHubSocketCloses(h) PROVE RelayShape'
    BY <1>7, <1>9 DEF OldHubSocketCloses, HubGone, RelayShape
  <1>10. LeaveRunning \in [Requests -> Places]
    BY <1>0 DEF LeaveRunning
  <1>11. CASE ChromeConnects
    BY <1>10, <1>11, ScenarioStays DEF ChromeConnects, RelayShape, tables
  <1>12. CASE ChromeCloses
    BY <1>10, <1>12, ScenarioStays DEF ChromeCloses, ResolvePending, RelayShape
  <1>13. CASE OldChromeCloses
    BY <1>13 DEF OldChromeCloses, ResolvePending, RelayShape
  <1>14. ASSUME NEW t \in Timers, LeaseExpires(t) PROVE RelayShape'
    BY <1>0, <1>14, MovesEffect DEF LeaseExpires, RelayShape, tables
  <1>15. CASE UNCHANGED vars
    BY <1>15 DEF vars, relayVars, tables, RelayShape
  <1>16. QED
    BY <1>1, <1>2, <1>3, <1>4, <1>5, <1>6, <1>8, <1>9, <1>11, <1>12, <1>13,
       <1>14, <1>15 DEF Next

\* The line is kept by every step.
LEMMA LineStep == LeaseInv /\ RelayShape /\ LineKept /\ [Next]_vars => LineKept'
  <1> SUFFICES ASSUME LeaseInv, RelayShape, LineKept, [Next]_vars PROVE LineKept'
    OBVIOUS
  <1> USE SharedRelayAssumption
  <1>0. /\ req \in [Requests -> Places]
        /\ \A r \in Requests : [req EXCEPT ![r] = "done"] \in [Requests -> Places]
        /\ TRUE \in BOOLEAN /\ FALSE \in BOOLEAN
    BY DEF RelayShape, Places
  <1>1. ASSUME NEW now \in [Requests -> Places], NEW lost \in BOOLEAN, LeaseMoves(now, lost)
        PROVE  LineKept'
    BY <1>1, MovesEffect DEF LineKept
  <1>2. ASSUME waiting' = waiting,
               \A r \in Requests : req'[r] = "queued" => req[r] = "queued"
        PROVE  LineKept'
    BY <1>2 DEF LineKept
  <1>3. ASSUME NEW r \in Requests, Receive(r) PROVE LineKept'
    <2>1. HubOf[r] \in Hubs
      OBVIOUS
    <2>2. CASE req' = [req EXCEPT ![r] = "queued"] /\ Enqueue(HubOf[r])
      BY <1>0, <2>2 DEF Enqueue, LineKept
    <2>3. CASE /\ req' = [req EXCEPT ![r] = "due"]
               /\ AcquireNow(HubOf[r]) \/ UNCHANGED leaseVars
      BY <1>0, <1>2, <2>1, <2>3, PromisesDropped DEF leaseVars
    <2>4. CASE req' = [req EXCEPT ![r] = "done"] /\ Refuse(HubOf[r])
      BY <1>0, <1>2, <2>4 DEF Refuse, leaseVars
    <2>5. QED
      BY <1>3, <2>2, <2>3, <2>4 DEF Receive
  <1>4. ASSUME NEW r \in Requests, Forward(r) PROVE LineKept'
    <2>1. CASE req' = [req EXCEPT ![r] = "running"] /\ UNCHANGED leaseVars
      BY <1>0, <1>2, <2>1 DEF leaseVars
    <2>2. QED
      BY <1>0, <1>1, <1>4, <2>1 DEF Forward, Resolver
  <1>5. ASSUME NEW r \in Requests, ResolveOne(r) PROVE LineKept'
    BY <1>0, <1>1, <1>5 DEF ResolveOne, Resolver
  <1>6. ASSUME NEW r \in Requests, ChromeAnswers(r) PROVE LineKept'
    <2>1. CASE req' = [req EXCEPT ![r] = "done"] /\ UNCHANGED leaseVars
      BY <1>0, <1>2, <2>1 DEF leaseVars
    <2>2. QED
      BY <1>0, <1>1, <1>6, <2>1 DEF ChromeAnswers, Resolver
  <1>7. ASSUME NEW r \in Requests, ChromeSilent(r) PROVE LineKept'
    BY <1>0, <1>2, <1>7 DEF ChromeSilent, leaseVars
  <1>8. ASSUME NEW h \in Hubs, HubConnects(h) PROVE LineKept'
    BY <1>2, <1>8 DEF HubConnects, leaseVars
  <1>9. ASSUME NEW h \in Hubs, HubCloses(h) \/ OldHubSocketCloses(h) PROVE LineKept'
    BY <1>0, <1>1, <1>9 DEF HubCloses, OldHubSocketCloses, HubGone
  <1>10. \A r \in Requests : LeaveRunning[r] = "queued" => req[r] = "queued"
    BY DEF LeaveRunning
  <1>11. CASE ChromeConnects \/ ChromeCloses \/ OldChromeCloses
    BY <1>2, <1>10, <1>11 DEF ChromeConnects, ChromeCloses, OldChromeCloses, leaseVars
  <1>12. ASSUME NEW t \in Timers, LeaseExpires(t) PROVE LineKept'
    BY <1>0, <1>1, <1>12 DEF LeaseExpires
  <1>13. CASE UNCHANGED vars
    BY <1>2, <1>13 DEF vars, leaseVars, relayVars
  <1>14. QED
    BY <1>3, <1>4, <1>5, <1>6, <1>7, <1>8, <1>9, <1>11, <1>12, <1>13 DEF Next

\* After an operation of the lease that does not take the lease from a mutation
\* that still runs, PatientInv holds again.
LEMMA PatientMoves ==
  ASSUME PatientInv, NEW now \in [Requests -> Places], NEW lost \in BOOLEAN,
         LeaseMoves(now, lost),
         \A r \in Requests : now[r] = req[r] \/ now[r] \notin InFlight,
         \A r \in Mutating : req'[r] = "running" => holder' = holder,
         \A r \in Mutating : now[r] = "due" => holder' = holder \/ ~chrome,
         ~oldChrome', chrome' = chrome, resolving' # {} => ~chrome
  PROVE  PatientInv'
  <1>1. /\ OneAtATime'
        /\ \A r \in Requests : req'[r] = "running" => req[r] = "running"
        /\ \A r \in Requests : req'[r] = "due" => now[r] = "due" \/ holder' = HubOf[r]
    BY MovesKeep DEF PatientInv
  <1>2. \A r \in Requests : now[r] = "due" => req[r] = "due"
    BY DEF InFlight
  <1>3. HolderRuns'
    BY <1>1, <1>2, SharedRelayAssumption DEF PatientInv, HolderRuns
  <1>4. QED
    BY <1>1, <1>3 DEF PatientInv

\* The resolver releases the lease of the only mutation that its Hub has under way.
LEMMA PatientResolver ==
  ASSUME LeaseInv, RelayShape, PatientInv, NEW r \in Requests,
         NEW now \in [Requests -> Places], Resolver(r, now),
         \A q \in Requests : now[q] = req[q] \/ now[q] \notin InFlight,
         \/ resolving # {}
         \/ req[r] = "due" /\ ~chrome
         \/ req[r] \in InFlight /\ now[r] \notin InFlight
              /\ \A q \in Requests : req[q] # "due",
         UNCHANGED sockets, resolving' \subseteq resolving
  PROVE  PatientInv'
  <1>1. /\ LeaseMoves(now, FALSE) /\ HubOf[r] \in Hubs
        /\ FALSE \in BOOLEAN /\ Mutating \subseteq Requests
    BY SharedRelayAssumption DEF Resolver
  <1>2. r \notin Mutating => holder' = holder
    BY DEF Resolver, leaseVars
  <1>3. holder' = holder \/ (holder = HubOf[r] /\ r \in Mutating)
    BY <1>1, <1>2, PromisesDropped DEF Resolver
  <1>4. ~chrome \/ /\ req[r] \in InFlight /\ now[r] \notin InFlight
                   /\ \A q \in Requests : req[q] # "due"
    BY DEF PatientInv, HolderRuns
  <1>5. \A q \in Requests : req'[q] = "running" => req[q] = "running"
    BY <1>1, MovesEffect DEF InFlight
  <1>6. ASSUME NEW q \in Mutating, req'[q] = "running" PROVE holder' = holder
    <2>1. req[q] = "running" /\ chrome /\ holder = HubOf[q]
      BY <1>1, <1>5, <1>6 DEF PatientInv, HolderRuns
    <2>2. /\ req[r] \in InFlight /\ now[r] \notin InFlight
      BY <1>4, <2>1
    <2>3. q # r
      BY <1>1, <1>6, <2>2, MovesEffect DEF InFlight
    <2>4. req[q] \in InFlight
      BY <2>1 DEF InFlight
    <2>5. ~(holder = HubOf[r] /\ r \in Mutating)
      BY <2>1, <2>2, <2>3, <2>4 DEF PatientInv, OneAtATime
    <2>6. QED
      BY <1>3, <2>5
  <1>7. ASSUME NEW q \in Mutating, now[q] = "due" PROVE holder' = holder \/ ~chrome
    BY <1>1, <1>4, <1>7 DEF InFlight
  <1>8. ~oldChrome' /\ chrome' = chrome /\ (resolving' # {} => ~chrome)
    BY DEF sockets, PatientInv, HolderRuns
  <1>9. QED
    BY <1>1, <1>6, <1>7, <1>8, PatientMoves

\* Every step of patient Hubs and one Chrome keeps PatientInv.
LEMMA PatientStep ==
  /\ LeaseInv /\ RelayShape /\ PatientInv /\ NoneOf({"impatient", "twoChromes"})
  /\ [Next]_vars
  => PatientInv'
  <1> SUFFICES ASSUME LeaseInv, RelayShape, PatientInv,
                      NoneOf({"impatient", "twoChromes"}), [Next]_vars
               PROVE  PatientInv'
    OBVIOUS
  <1> USE SharedRelayAssumption
  <1>0. /\ req \in [Requests -> Places]
        /\ \A r \in Requests : [req EXCEPT ![r] = "done"] \in [Requests -> Places]
        /\ TRUE \in BOOLEAN /\ FALSE \in BOOLEAN /\ "done" \notin InFlight
        /\ "impatient" \notin Faults /\ "twoChromes" \notin Faults
    BY DEF RelayShape, Places, InFlight, NoneOf
  <1>1. ASSUME holder' = holder, sockets' = sockets, resolving' = resolving,
               \A r \in Requests : req'[r] = req[r] \/ req'[r] \notin InFlight
        PROVE  PatientInv'
    <2>1. ~oldChrome' /\ chrome' = chrome
      BY <1>1 DEF sockets, PatientInv, HolderRuns
    <2>2. OneAtATime'
      BY <1>1 DEF PatientInv, OneAtATime
    <2>3. HolderRuns'
      BY <1>1, <2>1 DEF PatientInv, HolderRuns, InFlight
    <2>4. QED
      BY <2>2, <2>3 DEF PatientInv
  <1>2. ASSUME NEW r \in Requests, Receive(r) PROVE PatientInv'
    <2> DEFINE h == HubOf[r]
    <2>1. /\ h \in Hubs /\ resolving' = resolving /\ resolving = {}
          /\ \A q \in Requests : req[q] # "due"
          /\ chrome' = chrome /\ ~oldChrome'
      BY <1>2 DEF Receive, Idle, sockets, PatientInv, HolderRuns
    <2>2. CASE req' = [req EXCEPT ![r] = "done"] /\ Refuse(h)
      BY <1>0, <1>1, <1>2, <2>2 DEF Receive, Refuse, leaseVars
    <2>3. CASE \/ req' = [req EXCEPT ![r] = "queued"] /\ Enqueue(h) /\ r \in Mutating
               \/ /\ req' = [req EXCEPT ![r] = "due"]
                  /\ r \notin Mutating \/ AcquireNow(h)
                  /\ r \notin Mutating => UNCHANGED leaseVars
      <3>1. \A q \in Of(h) \cap Mutating : r \in Mutating => req[q] \notin InFlight
        BY <1>0, <1>2 DEF Receive, MaySend, InFlight
      <3>2. \A q \in Requests : q # r => req'[q] = req[q]
        BY <1>0, <2>3
      <3>3. OneAtATime'
        BY <3>1, <3>2 DEF PatientInv, OneAtATime, Of
      <3>4. /\ holder' = holder \/ holder = NoHub
            /\ r \in Mutating /\ req'[r] = "due" => holder' = h
        BY <1>0, <2>1, <2>3, PromisesDropped DEF Enqueue, leaseVars
      <3>5. \A q \in Mutating : req[q] = "running" => holder = HubOf[q] /\ holder # NoHub
        BY LeaseAssumption DEF PatientInv, HolderRuns
      <3>6. \A q \in Requests : /\ req'[q] = "running" => req[q] = "running"
                                /\ req'[q] = "due" => q = r
        BY <1>0, <2>1, <2>3, <3>2
      <3>7. HolderRuns'
        BY <2>1, <3>4, <3>5, <3>6 DEF PatientInv, HolderRuns
      <3>8. QED
        BY <3>3, <3>7 DEF PatientInv
    <2>4. QED
      BY <1>2, <2>2, <2>3 DEF Receive
  <1>3. ASSUME NEW r \in Requests, Forward(r) PROVE PatientInv'
    <2> DEFINE now == [req EXCEPT ![r] = "done"]
    <2>0. /\ resolving = {} /\ resolving' = resolving /\ req[r] = "due"
          /\ UNCHANGED sockets /\ chrome' = chrome /\ ~oldChrome'
          /\ \A q \in Requests : now[q] = req[q] \/ now[q] \notin InFlight
          /\ now \in [Requests -> Places]
      BY <1>0, <1>3 DEF Forward, sockets, PatientInv, HolderRuns
    <2>1. CASE chrome /\ req' = [req EXCEPT ![r] = "running"] /\ UNCHANGED leaseVars
      <3>1. \A q \in Requests : /\ req'[q] \in InFlight => req[q] \in InFlight
                                /\ req'[q] = "running" => req[q] = "running" \/ q = r
                                /\ req'[q] = "due" => req[q] = "due"
        BY <1>0, <2>0, <2>1 DEF InFlight
      <3>2. OneAtATime'
        BY <3>1 DEF PatientInv, OneAtATime
      <3>3. HolderRuns'
        BY <2>0, <2>1, <3>1 DEF PatientInv, HolderRuns, leaseVars
      <3>4. QED
        BY <3>2, <3>3 DEF PatientInv
    <2>2. CASE ~chrome /\ Resolver(r, now)
      BY <1>0, <2>0, <2>2, PatientResolver
    <2>3. CASE /\ ~chrome /\ LeaseMoves(now, FALSE)
               /\ IF r \in Mutating THEN Release(HubOf[r]) ELSE UNCHANGED leaseVars
      <3>1. \A q \in Requests : req'[q] # "running"
        BY <1>0, <2>0, <2>3, MovesKeep DEF PatientInv, HolderRuns
      <3>2. QED
        BY <1>0, <2>0, <2>3, <3>1, PatientMoves
    <2>4. QED
      BY <1>3, <2>1, <2>2, <2>3 DEF Forward
  <1>4. ASSUME NEW r \in Requests, ResolveOne(r) PROVE PatientInv'
    <2>1. /\ resolving # {} /\ resolving' \subseteq resolving /\ UNCHANGED sockets
          /\ Resolver(r, req)
      BY <1>4 DEF ResolveOne
    <2>2. QED
      BY <1>0, <2>1, PatientResolver
  <1>5. ASSUME NEW r \in Requests, ChromeAnswers(r) PROVE PatientInv'
    <2> DEFINE now == [req EXCEPT ![r] = "done"]
    <2>1. /\ req[r] \in InFlight /\ \A q \in Requests : req[q] # "due"
          /\ UNCHANGED sockets /\ resolving' = resolving
          /\ \A q \in Requests : now[q] = req[q] \/ now[q] \notin InFlight
          /\ now[r] \notin InFlight
      BY <1>0, <1>5 DEF ChromeAnswers, Idle, InFlight
    <2>2. CASE Resolver(r, now)
      BY <1>0, <2>1, <2>2, PatientResolver
    <2>3. CASE req' = now /\ UNCHANGED leaseVars
      BY <1>0, <1>1, <2>1, <2>3 DEF leaseVars
    <2>4. QED
      BY <1>5, <2>2, <2>3 DEF ChromeAnswers
  <1>6. ASSUME NEW r \in Requests, ChromeSilent(r) PROVE PatientInv'
    BY <1>0, <1>1, <1>6 DEF ChromeSilent, leaseVars, InFlight
  <1>7. ASSUME NEW h \in Hubs, HubConnects(h) PROVE PatientInv'
    BY <1>7 DEF HubConnects, leaseVars, PatientInv, OneAtATime, HolderRuns
  <1>8. ASSUME LeaseMoves(req, TRUE), Idle, UNCHANGED <<chrome, oldChrome, resolving>>
        PROVE  PatientInv'
    <2>1. \A r \in Mutating : req'[r] = "running" => holder' = holder
      BY <1>0, <1>8, MovesEffect, MovesKeep DEF PatientInv, HolderRuns
    <2>2. QED
      BY <1>0, <1>8, <2>1, PatientMoves DEF Idle, PatientInv, HolderRuns
  <1>9. ASSUME NEW h \in Hubs, HubCloses(h) \/ OldHubSocketCloses(h) PROVE PatientInv'
    BY <1>8, <1>9 DEF HubCloses, OldHubSocketCloses, HubGone
  <1>10. ASSUME NEW t \in Timers, LeaseExpires(t) PROVE PatientInv'
    BY <1>8, <1>10 DEF LeaseExpires, sockets
  <1>11. CASE ChromeConnects
    BY <1>0, <1>11 DEF ChromeConnects, Fault, leaseVars, PatientInv, OneAtATime, HolderRuns, Idle
  <1>12. CASE ChromeCloses
    <2>1. \A r \in Requests : /\ req'[r] # "running"
                              /\ req'[r] \in InFlight => req[r] \in InFlight
                              /\ req'[r] = "due" => req[r] = "due"
      BY <1>12 DEF ChromeCloses, LeaveRunning, InFlight
    <2>2. holder' = holder /\ ~chrome' /\ ~oldChrome'
      BY <1>12 DEF ChromeCloses, leaseVars, PatientInv, HolderRuns
    <2>3. OneAtATime'
      BY <2>1 DEF PatientInv, OneAtATime
    <2>4. HolderRuns'
      BY <2>1, <2>2 DEF HolderRuns
    <2>5. QED
      BY <2>3, <2>4 DEF PatientInv
  <1>13. ~OldChromeCloses
    BY DEF OldChromeCloses, PatientInv, HolderRuns
  <1>14. CASE UNCHANGED vars
    BY <1>1, <1>14 DEF vars, leaseVars, relayVars
  <1>15. QED
    BY <1>2, <1>3, <1>4, <1>5, <1>6, <1>7, <1>9, <1>10, <1>11, <1>12, <1>13, <1>14 DEF Next

\* The scenario is chosen once.
LEMMA KindsStay ==
  RelayShape /\ [Next]_vars => \A kinds : NoneOf(kinds)' <=> NoneOf(kinds)
  <1> SUFFICES ASSUME RelayShape, [Next]_vars PROVE (\E kind : Fault(kind)) \/ UNCHANGED used
    BY ScenarioStays
  <1>1. QED
    BY DEF Next, Receive, Forward, ResolveOne, ChromeAnswers, ChromeSilent, HubConnects,
           HubCloses, OldHubSocketCloses, ChromeConnects, ChromeCloses,
           OldChromeCloses, LeaseExpires, vars, relayVars

\* With Hubs that send one mutation at a time, and one Chrome, no two Hubs'
\* mutations are in the browser while their Hubs hold the lease, whatever timers,
\* sockets and Chrome do.
THEOREM OnePatientMutator == Spec => []OneMutatorIfPatient
  <1>1. MutatorInv /\ [Next]_vars => MutatorInv'
    <2> SUFFICES ASSUME MutatorInv, [Next]_vars PROVE MutatorInv'
      OBVIOUS
    <2>1. LeaseInv' /\ RelayShape'
      BY RelayLeaseStep, LeaseStep, ShapeStep DEF MutatorInv
    <2>2. NoneOf({"impatient", "twoChromes"})' => PatientInv'
      BY PatientStep, KindsStay DEF MutatorInv
    <2>3. QED
      BY <2>1, <2>2 DEF MutatorInv
  <1>2. MutatorInv => OneMutatorIfPatient
    BY SharedRelayAssumption
       DEF MutatorInv, PatientInv, OneMutatorIfPatient, OneMutator, HolderRuns
  <1>3. QED
    BY MutatorStarts, <1>1, <1>2, PTL DEF Spec

-----------------------------------------------------------------------------
(* Answers.                                                                *)

Unforwarded == {"new", "queued", "due"}

\* A request with an entry, or before it has one, has not been answered.
EntriesUnanswered ==
  /\ resolving = {} \/ pending = {}
  /\ \A r \in pending \cup resolving : req[r] \notin Unforwarded
  /\ \A r \in Requests :
       r \in pending \cup resolving \/ req[r] \in Unforwarded =>
         reply[r] \in {"none", "dropped"}
  /\ \A r \in Requests : reply[r] # "twice"
  /\ \A r \in Requests : req[r] = "new" => reply[r] = "none"

\* While no Hub registers twice, who waits for an answer is connected, and its
\* request is in line or has its entries.
ListenersFound ==
  /\ open = hubs /\ oldSocket = {}
  /\ \A r \in Requests : req[r] # "new" /\ reply[r] = "none" =>
       /\ HubOf[r] \in hubs
       /\ req[r] \in {"queued", "due"} \/ r \in (pending \cap routed) \cup resolving

ReplyInv ==
  /\ LeaseInv /\ RelayShape /\ LineKept /\ EntriesUnanswered
  /\ NoneOf({"overlap"}) => ListenersFound

\* A step that answers or drops only requests without entries, and makes entries
\* only of requests it forwards.
LEMMA EntriesKept ==
  ASSUME EntriesUnanswered,
         \A r \in Requests : /\ req'[r] \in Unforwarded => req[r] \in Unforwarded
                             /\ req'[r] = "new" => req[r] = "new",
         \A r \in pending' \cup resolving' :
            r \in pending \cup resolving \/ (req[r] \in Unforwarded /\ req'[r] \notin Unforwarded),
         pending' \cup resolving' \subseteq Requests,
         resolving' = {} \/ pending' = {},
         \A r \in Requests :
            \/ reply'[r] = reply[r]
            \/ reply'[r] = "dropped" /\ req[r] # "new"
            \/ /\ reply'[r] = "sent" /\ r \notin pending' \cup resolving'
               /\ req'[r] \notin Unforwarded
  PROVE  EntriesUnanswered'
  BY DEF EntriesUnanswered, Unforwarded

\* What an answer does to a request that has not been answered.
LEMMA AnsweredOnce ==
  ASSUME RelayShape, NEW r \in Requests, reply[r] \in {"none", "dropped"}
  PROVE  /\ Answered(r)[r] = reply[r] \/ Answered(r)[r] = "sent"
         /\ Answered(r)[r] # "none"
         /\ \A q \in Requests : q # r => Answered(r)[q] = reply[q]
  BY DEF RelayShape, Answered

\* No operation of the lease sends a request back.
LEMMA MovesForward ==
  ASSUME NEW now \in [Requests -> Places], NEW lost \in BOOLEAN, LeaseMoves(now, lost),
         \A r \in Requests : now[r] = req[r] \/ now[r] = "done"
  PROVE  \A r \in Requests : /\ req'[r] \in Unforwarded => req[r] \in Unforwarded /\ now[r] # "done"
                             /\ req'[r] = "new" => req[r] = "new"
                             /\ now[r] = "done" => req'[r] = "done"
  BY MovesEffect DEF Unforwarded

\* No request is answered twice, whatever the order of answers, refusals, losses
\* of Chrome and losses of Hubs.
LEMMA EntriesStep ==
  RelayShape /\ RelayShape' /\ EntriesUnanswered /\ [Next]_vars => EntriesUnanswered'
  <1> SUFFICES ASSUME RelayShape, RelayShape', EntriesUnanswered, [Next]_vars
               PROVE  EntriesUnanswered'
    OBVIOUS
  <1> USE SharedRelayAssumption
  <1>0. /\ req \in [Requests -> Places]
        /\ \A r \in Requests : [req EXCEPT ![r] = "done"] \in [Requests -> Places]
        /\ TRUE \in BOOLEAN /\ FALSE \in BOOLEAN
        /\ pending' \cup resolving' \subseteq Requests
        /\ \A r \in pending \cup resolving : reply[r] \in {"none", "dropped"}
        /\ \A r \in Requests : req[r] \in Unforwarded => reply[r] \in {"none", "dropped"}
    BY DEF RelayShape, Places, EntriesUnanswered
  <1>1. ASSUME NEW r \in Requests, Receive(r) PROVE EntriesUnanswered'
    <2>1. /\ req[r] = "new" /\ UNCHANGED <<pending, resolving>>
          /\ req[r] \in Unforwarded /\ resolving' = {}
      BY <1>1 DEF Receive, tables, Unforwarded, Idle
    <2>2. CASE req' = [req EXCEPT ![r] = "done"] /\ reply' = Answered(r)
      <3>1. req'[r] = "done" /\ \A q \in Requests : q # r => req'[q] = req[q]
        BY <1>0, <2>2
      <3>2. r \notin pending \cup resolving
        BY <2>1 DEF EntriesUnanswered
      <3>3. QED
        BY <1>0, <2>1, <2>2, <3>1, <3>2, AnsweredOnce, EntriesKept DEF Unforwarded
    <2>3. CASE reply' = reply /\ \E p \in {"due", "queued"} : req' = [req EXCEPT ![r] = p]
      <3>1. \A q \in Requests : /\ q # r => req'[q] = req[q]
                                /\ req'[r] # "new"
        BY <1>0, <2>3
      <3>2. QED
        BY <1>0, <2>1, <2>3, <3>1, EntriesKept DEF Unforwarded
    <2>4. QED
      BY <1>1, <2>2, <2>3 DEF Receive
  <1>2. ASSUME NEW r \in Requests, Forward(r) PROVE EntriesUnanswered'
    <2> DEFINE now == [req EXCEPT ![r] = "done"]
    <2>1. /\ req[r] \in Unforwarded /\ resolving' = {} /\ resolving = {} /\ req[r] # "new"
          /\ now \in [Requests -> Places] /\ now[r] = "done"
          /\ \A q \in Requests : now[q] = req[q] \/ now[q] = "done"
      BY <1>0, <1>2 DEF Forward, Unforwarded
    <2>2. CASE /\ req' = [req EXCEPT ![r] = "running"] /\ reply' = reply
               /\ pending' \subseteq pending \cup {r}
      <3>1. req'[r] = "running" /\ \A q \in Requests : q # r => req'[q] = req[q]
        BY <1>0, <2>2
      <3>2. QED
        BY <1>0, <2>1, <2>2, <3>1, EntriesKept DEF Unforwarded
    <2>3. CASE LeaseMoves(now, FALSE) /\ pending' = pending
               /\ (reply' = reply \/ reply' = Answered(r))
      <3>1. \A q \in Requests : /\ req'[q] \in Unforwarded => req[q] \in Unforwarded
                                /\ req'[q] = "new" => req[q] = "new"
                                /\ req'[r] \notin Unforwarded
        BY <1>0, <2>1, <2>3, MovesForward
      <3>2. r \notin pending \cup resolving
        BY <2>1 DEF EntriesUnanswered
      <3>3. QED
        BY <1>0, <2>1, <2>3, <3>1, <3>2, AnsweredOnce, EntriesKept
    <2>4. QED
      BY <1>2, <2>2, <2>3 DEF Forward, Resolver
  <1>3. ASSUME NEW r \in Requests, NEW now \in [Requests -> Places], Resolver(r, now),
               \A q \in Requests : now[q] = req[q] \/ now[q] = "done",
               r \in pending \cup resolving, r \notin pending' \cup resolving',
               pending' \cup resolving' \subseteq pending \cup resolving,
               resolving' = {} \/ pending' = {}
        PROVE  EntriesUnanswered'
    <2>1. /\ LeaseMoves(now, FALSE) /\ reply' = Answered(r)
          /\ req[r] \notin Unforwarded
      BY <1>3 DEF Resolver, EntriesUnanswered
    <2>2. \A q \in Requests : /\ req'[q] \in Unforwarded => req[q] \in Unforwarded
                              /\ req'[q] = "new" => req[q] = "new"
      BY <1>0, <1>3, <2>1, MovesForward
    <2>3. QED
      BY <1>0, <1>3, <2>1, <2>2, AnsweredOnce, EntriesKept
  <1>4. ASSUME NEW r \in Requests, ResolveOne(r) PROVE EntriesUnanswered'
    <2>1. /\ resolving' = resolving \ {r} /\ Resolver(r, req) /\ r \in resolving
          /\ pending = {} /\ pending' = {}
      BY <1>4 DEF ResolveOne, tables, EntriesUnanswered
    <2>2. QED
      BY <1>0, <1>3, <2>1
  <1>5. ASSUME NEW r \in Requests, ChromeAnswers(r) PROVE EntriesUnanswered'
    <2>1. resolving' = {} /\ resolving = {} /\ req[r] \notin Unforwarded
      BY <1>5 DEF ChromeAnswers, Idle, Unforwarded
    <2>2. CASE r \in pending /\ pending' = pending \ {r} /\ Resolver(r, [req EXCEPT ![r] = "done"])
      <3>1. \A q \in Requests : [req EXCEPT ![r] = "done"][q] = req[q]
                                \/ [req EXCEPT ![r] = "done"][q] = "done"
        BY <1>0
      <3>2. QED
        BY <1>0, <1>3, <2>1, <2>2, <3>1
    <2>3. CASE req' = [req EXCEPT ![r] = "done"] /\ UNCHANGED <<pending, reply>>
      <3>1. req'[r] = "done" /\ \A q \in Requests : q # r => req'[q] = req[q]
        BY <1>0, <2>3
      <3>2. QED
        BY <1>0, <2>1, <2>3, <3>1, EntriesKept DEF Unforwarded
    <2>4. QED
      BY <1>5, <2>2, <2>3 DEF ChromeAnswers
  <1>6. ASSUME UNCHANGED reply,
               \A r \in Requests : \/ req'[r] = req[r]
                                   \/ req'[r] \notin Unforwarded,
               pending' \cup resolving' \subseteq pending \cup resolving,
               resolving' = {} \/ pending' = {}
        PROVE  EntriesUnanswered'
    BY <1>0, <1>6, EntriesKept DEF Unforwarded
  <1>7. ASSUME NEW r \in Requests, ChromeSilent(r) PROVE EntriesUnanswered'
    BY <1>0, <1>6, <1>7 DEF ChromeSilent, Idle, tables, Unforwarded
  <1>8. \A h \in Hubs, r \in Requests :
          \/ Unheard(h)[r] = reply[r]
          \/ Unheard(h)[r] = "dropped" /\ req[r] # "new"
    BY DEF Unheard
  <1>9. ASSUME NEW h \in Hubs, HubConnects(h) PROVE EntriesUnanswered'
    <2>1. /\ req' = req /\ resolving' = {} /\ resolving = {} /\ pending' \subseteq pending
          /\ reply' = reply \/ reply' = Unheard(h)
      BY <1>9 DEF HubConnects, Idle
    <2>2. QED
      BY <1>0, <1>8, <2>1, EntriesKept
  <1>10. ASSUME NEW h \in Hubs, HubCloses(h) \/ OldHubSocketCloses(h) PROVE EntriesUnanswered'
    <2>1. /\ LeaseMoves(req, TRUE) /\ resolving' = {} /\ resolving = {} /\ pending' \subseteq pending
          /\ reply' = reply \/ reply' = Unheard(h)
      BY <1>10 DEF HubCloses, OldHubSocketCloses, HubGone, Idle
    <2>2. \A q \in Requests : /\ req'[q] \in Unforwarded => req[q] \in Unforwarded
                              /\ req'[q] = "new" => req[q] = "new"
      BY <1>0, <2>1, MovesForward
    <2>3. QED
      BY <1>0, <1>8, <2>1, <2>2, EntriesKept
  <1>11. \A r \in Requests : \/ LeaveRunning[r] = req[r]
                             \/ LeaveRunning[r] \notin Unforwarded
    BY DEF LeaveRunning, Unforwarded
  <1>12. CASE ChromeConnects \/ ChromeCloses \/ OldChromeCloses
    BY <1>6, <1>11, <1>12
       DEF ChromeConnects, ChromeCloses, OldChromeCloses, ResolvePending, Idle, tables
  <1>13. ASSUME NEW t \in Timers, LeaseExpires(t) PROVE EntriesUnanswered'
    <2>1. /\ LeaseMoves(req, TRUE) /\ resolving' = {} /\ resolving = {} /\ UNCHANGED <<pending, reply>>
      BY <1>13 DEF LeaseExpires, Idle, tables
    <2>2. \A q \in Requests : /\ req'[q] \in Unforwarded => req[q] \in Unforwarded
                              /\ req'[q] = "new" => req[q] = "new"
      BY <1>0, <2>1, MovesForward
    <2>3. QED
      BY <1>0, <2>1, <2>2, EntriesKept
  <1>14. CASE UNCHANGED vars
    BY <1>6, <1>14 DEF vars, relayVars, tables, EntriesUnanswered
  <1>15. QED
    BY <1>1, <1>2, <1>4, <1>5, <1>7, <1>9, <1>10, <1>12, <1>13, <1>14 DEF Next

\* A request in line stays there or is about to be forwarded, unless its Hub goes.
LEMMA LineMoves ==
  ASSUME LineKept, NEW now \in [Requests -> Places], NEW lost \in BOOLEAN,
         LeaseMoves(now, lost),
         \A r \in Requests : now[r] = req[r] \/ (now[r] = "done" /\ req[r] # "new"),
         NEW gone \in SUBSET Hubs, waiting \subseteq waiting' \cup {holder'} \cup gone
  PROVE  \A r \in Requests :
           /\ now[r] \in {"queued", "due"} => req'[r] \in {"queued", "due"} \/ HubOf[r] \in gone
           /\ req'[r] # "new" => req[r] # "new"
  BY MovesEffect DEF LineKept

\* While no Hub registers twice, every step keeps the entries of those who listen.
LEMMA ListenersStep ==
  /\ LeaseInv /\ RelayShape /\ RelayShape' /\ LineKept /\ EntriesUnanswered
  /\ ListenersFound /\ NoneOf({"overlap"}) /\ [Next]_vars
  => ListenersFound'
  <1> SUFFICES ASSUME LeaseInv, RelayShape, RelayShape', LineKept, EntriesUnanswered,
                      ListenersFound, NoneOf({"overlap"}), [Next]_vars
               PROVE  ListenersFound'
    OBVIOUS
  <1> USE SharedRelayAssumption
  <1>0. /\ req \in [Requests -> Places]
        /\ \A r \in Requests : [req EXCEPT ![r] = "done"] \in [Requests -> Places]
        /\ TRUE \in BOOLEAN /\ FALSE \in BOOLEAN /\ {} \in SUBSET Hubs
        /\ open = hubs /\ oldSocket = {} /\ "overlap" \notin Faults
    BY DEF RelayShape, Places, ListenersFound, NoneOf
  <1> DEFINE Line(r)  == req[r] \in {"queued", "due"}
             Entry(r) == r \in (pending \cap routed) \cup resolving
  \* A step is right if it answers or drops the requests whose place it takes.
  <1>1. ASSUME UNCHANGED <<open, hubs, oldSocket>>,
               \A r \in Requests : reply'[r] = "none" /\ req'[r] # "new" =>
                 /\ req[r] # "new" \/ HubOf[r] \in hubs
                 /\ reply[r] = "none"
                 /\ req[r] = "new" \/ Line(r) => Line(r)' \/ Entry(r)'
                 /\ Entry(r) => Entry(r)'
        PROVE  ListenersFound'
    BY <1>1 DEF ListenersFound
  <1>2. \A r, q \in Requests : Answered(r)[q] = "none" => reply[q] = "none" /\ q # r
    BY DEF Answered, RelayShape
  <1>3. ASSUME NEW r \in Requests, Receive(r) PROVE ListenersFound'
    <2>1. /\ UNCHANGED <<open, hubs, oldSocket>> /\ HubOf[r] \in hubs
          /\ \A q \in Requests : Entry(q)' <=> Entry(q)
          /\ \A q \in Requests : q # r => req'[q] = req[q]
          /\ Line(r)' \/ reply' = Answered(r)
          /\ reply' = reply \/ reply' = Answered(r)
          /\ req[r] = "new"
      BY <1>0, <1>3 DEF Receive, tables, sockets
    <2>2. QED
      BY <1>1, <1>2, <2>1
  <1>4. ASSUME NEW r \in Requests, Forward(r) PROVE ListenersFound'
    <2> DEFINE now == [req EXCEPT ![r] = "done"]
    <2>1. /\ UNCHANGED <<open, hubs, oldSocket, resolving>> /\ req[r] = "due"
          /\ now \in [Requests -> Places] /\ now[r] = "done"
          /\ \A q \in Requests : q # r => now[q] = req[q]
          /\ \A q \in Requests : now[q] = req[q] \/ (now[q] = "done" /\ req[q] # "new")
          /\ reply[r] = "none" => HubOf[r] \in hubs
          /\ HubOf[r] \in Hubs
      BY <1>0, <1>4 DEF Forward, sockets, ListenersFound
    <2> HIDE DEF now
    <2>2. CASE /\ req' = [req EXCEPT ![r] = "running"] /\ reply' = reply
               /\ routed' = routed \cup {r}
               /\ pending' = IF HubOf[r] \in hubs THEN pending \cup {r} ELSE pending
      <3>1. \A q \in Requests : q # r => req'[q] = req[q]
        BY <1>0, <2>2
      <3>2. \A q \in Requests : Entry(q) => Entry(q)'
        BY <2>1, <2>2
      <3>3. HubOf[r] \in hubs => Entry(r)'
        BY <2>2
      <3>4. QED
        BY <1>1, <2>1, <2>2, <3>1, <3>2, <3>3
    <2>3. CASE /\ LeaseMoves(now, FALSE) /\ UNCHANGED <<routed, pending>>
               /\ IF r \in Mutating THEN Release(HubOf[r]) ELSE UNCHANGED leaseVars
               /\ \/ reply' = Answered(r)
                  \/ reply' = reply /\ HubOf[r] \notin hubs
      <3>1. waiting \subseteq waiting' \cup {holder'} \cup {}
        BY <2>1, <2>3, PromisesDropped DEF leaseVars
      <3>2. \A q \in Requests : /\ now[q] \in {"queued", "due"} => Line(q)'
                                /\ req'[q] # "new" => req[q] # "new"
        <4>1. /\ now \in [Requests -> Places] /\ LeaseMoves(now, FALSE)
              /\ \A q \in Requests : now[q] = req[q] \/ (now[q] = "done" /\ req[q] # "new")
          BY <2>1, <2>3
        <4>2. FALSE \in BOOLEAN /\ {} \in SUBSET Hubs
          BY <1>0
        <4>3. QED
          BY <3>1, <4>1, <4>2, LineMoves
      <3>3. \A q \in Requests : Entry(q) => Entry(q)'
        BY <2>1, <2>3
      <3>4. \A q \in Requests : reply'[q] = "none" => reply[q] = "none" /\ q # r
        BY <1>2, <2>1, <2>3
      <3>5. QED
        BY <1>1, <2>1, <3>2, <3>3, <3>4
    <2>4. QED
      BY <1>4, <2>2, <2>3 DEF Forward, Resolver, now
  <1>5. ASSUME NEW r \in Requests, NEW now \in [Requests -> Places], Resolver(r, now),
               \A q \in Requests : q # r => now[q] = req[q],
               \A q \in Requests : now[q] = req[q] \/ (now[q] = "done" /\ req[q] # "new"),
               \A q \in Requests : q # r => (Entry(q) => Entry(q)'),
               UNCHANGED <<open, hubs, oldSocket>>
        PROVE  ListenersFound'
    <2>1. LeaseMoves(now, FALSE) /\ reply' = Answered(r) /\ HubOf[r] \in Hubs
      BY <1>5 DEF Resolver
    <2>2. waiting \subseteq waiting' \cup {holder'} \cup {}
      BY <1>5, <2>1, PromisesDropped DEF Resolver, leaseVars
    <2>3. \A q \in Requests : /\ now[q] \in {"queued", "due"} => Line(q)'
                              /\ req'[q] # "new" => req[q] # "new"
      BY <1>0, <1>5, <2>1, <2>2, LineMoves
    <2>4. QED
      BY <1>1, <1>2, <1>5, <2>1, <2>3
  <1>6. ASSUME NEW r \in Requests, ResolveOne(r) PROVE ListenersFound'
    BY <1>0, <1>5, <1>6 DEF ResolveOne, tables, sockets
  <1>7. ASSUME NEW r \in Requests, ChromeAnswers(r) PROVE ListenersFound'
    <2> DEFINE now == [req EXCEPT ![r] = "done"]
    <2>1. /\ UNCHANGED <<open, hubs, oldSocket>> /\ resolving' = {} /\ resolving = {}
          /\ \A q \in Requests : q # r => now[q] = req[q]
          /\ \A q \in Requests : now[q] = req[q] \/ (now[q] = "done" /\ req[q] # "new")
          /\ now \in [Requests -> Places]
          /\ ~Line(r) /\ req[r] # "new" /\ routed' = routed \ {r}
      BY <1>0, <1>7 DEF ChromeAnswers, Idle, sockets
    <2>2. CASE Resolver(r, now) /\ pending' = pending \ {r}
      BY <1>5, <2>1, <2>2
    <2>3. CASE r \notin routed \cap pending /\ req' = now /\ UNCHANGED <<pending, reply>>
      <3>1. reply[r] # "none"
        BY <2>1, <2>3 DEF ListenersFound
      <3>2. QED
        BY <1>1, <2>1, <2>3, <3>1
    <2>4. QED
      BY <1>7, <2>2, <2>3 DEF ChromeAnswers
  <1>8. ASSUME NEW r \in Requests, ChromeSilent(r) PROVE ListenersFound'
    <2>1. /\ UNCHANGED <<open, hubs, oldSocket, reply, pending, routed, resolving>>
          /\ \A q \in Requests : q # r => req'[q] = req[q]
          /\ ~Line(r) /\ req[r] # "new"
      BY <1>0, <1>8 DEF ChromeSilent, sockets, tables
    <2>2. QED
      BY <1>1, <2>1
  <1>9. ASSUME NEW h \in Hubs, HubConnects(h) PROVE ListenersFound'
    <2>1. /\ h \notin open /\ open' = open \cup {h} /\ hubs' = hubs \cup {h} /\ oldSocket' = {}
          /\ pending' = pending \ Of(h) /\ UNCHANGED <<req, reply, routed, resolving>>
      BY <1>0, <1>9 DEF HubConnects, Fault
    <2>2. \A q \in Requests : HubOf[q] # h /\ Entry(q) => Entry(q)'
      BY <2>1 DEF Of
    <2>3. QED
      BY <1>0, <2>1, <2>2 DEF ListenersFound
  <1>10. ASSUME NEW h \in Hubs, HubCloses(h) PROVE ListenersFound'
    <2>1. /\ open' = open \ {h} /\ hubs' = hubs \ {h} /\ oldSocket' = {}
          /\ pending' = pending \ Of(h) /\ reply' = Unheard(h)
          /\ UNCHANGED <<routed, resolving>> /\ ReleaseAll(h) /\ LeaseMoves(req, TRUE)
          /\ {h} \in SUBSET Hubs
      BY <1>0, <1>10 DEF HubCloses, HubGone
    <2>2. waiting \subseteq waiting' \cup {holder'} \cup {h}
      BY <2>1, PromisesDropped
    <2>3. \A q \in Requests : /\ Line(q) => Line(q)' \/ HubOf[q] = h
                              /\ req'[q] # "new" => req[q] # "new"
      BY <1>0, <2>1, <2>2, LineMoves
    <2>4. \A q \in Requests : /\ HubOf[q] # h /\ Entry(q) => Entry(q)'
                              /\ reply'[q] = "none" /\ req[q] # "new" =>
                                   reply[q] = "none" /\ HubOf[q] # h
      BY <2>1 DEF Of, Unheard
    <2>5. QED
      BY <1>0, <2>1, <2>3, <2>4 DEF ListenersFound
  <1>11. ASSUME NEW h \in Hubs PROVE ~OldHubSocketCloses(h)
    BY <1>0 DEF OldHubSocketCloses
  <1>12. CASE ChromeConnects \/ ChromeCloses \/ OldChromeCloses
    <2>1. /\ UNCHANGED <<open, hubs, oldSocket, reply>>
          /\ req' = req \/ req' = LeaveRunning
          /\ \A q \in Requests : Entry(q) => Entry(q)'
      BY <1>12 DEF ChromeConnects, ChromeCloses, OldChromeCloses, ResolvePending, Idle, tables
    <2>2. \A q \in Requests : /\ Line(q) => LeaveRunning[q] = req[q]
                              /\ LeaveRunning[q] # "new" => req[q] # "new"
      BY DEF LeaveRunning
    <2>3. QED
      BY <1>1, <2>1, <2>2
  <1>13. ASSUME NEW t \in Timers, LeaseExpires(t) PROVE ListenersFound'
    <2>1. /\ LeaseMoves(req, TRUE) /\ UNCHANGED <<open, hubs, oldSocket, reply, pending, routed, resolving>>
          /\ waiting \subseteq waiting' \cup {holder'} \cup {}
      BY <1>13, ExpiryDrops DEF LeaseExpires, sockets, tables
    <2>2. \A q \in Requests : /\ Line(q) => Line(q)'
                              /\ req'[q] # "new" => req[q] # "new"
      BY <1>0, <2>1, LineMoves
    <2>3. QED
      BY <1>1, <2>1, <2>2
  <1>14. CASE UNCHANGED vars
    BY <1>1, <1>14 DEF vars, relayVars, tables, sockets
  <1>15. QED
    BY <1>3, <1>4, <1>6, <1>7, <1>8, <1>9, <1>10, <1>11, <1>12, <1>13, <1>14 DEF Next

\* No request is answered twice; none whose sender listens is forgotten.
THEOREM EveryReplyAccounted == Spec => []RepliesAccounted
  <1>1. Init => ReplyInv
    <2> SUFFICES ASSUME Init PROVE ReplyInv
      OBVIOUS
    <2>1. LeaseInv /\ RelayShape
      BY MutatorStarts DEF MutatorInv
    <2>2. LineKept /\ EntriesUnanswered /\ ListenersFound
      BY DEF Init, LineKept, EntriesUnanswered, ListenersFound, Unforwarded
    <2>3. QED
      BY <2>1, <2>2 DEF ReplyInv
  <1>2. ReplyInv /\ [Next]_vars => ReplyInv'
    <2> SUFFICES ASSUME ReplyInv, [Next]_vars PROVE ReplyInv'
      OBVIOUS
    <2>1. LeaseInv' /\ RelayShape' /\ LineKept'
      BY RelayLeaseStep, LeaseStep, ShapeStep, LineStep DEF ReplyInv
    <2>2. EntriesUnanswered'
      BY <2>1, EntriesStep DEF ReplyInv
    <2>3. NoneOf({"overlap"})' => ListenersFound'
      BY <2>1, ListenersStep, KindsStay DEF ReplyInv
    <2>4. QED
      BY <2>1, <2>2, <2>3 DEF ReplyInv
  <1>3. ReplyInv => RepliesAccounted
    BY DEF ReplyInv, RepliesAccounted, LineKept, EntriesUnanswered, ListenersFound
  <1>4. QED
    BY <1>1, <1>2, <1>3, PTL DEF Spec

-----------------------------------------------------------------------------
(* The status of Chrome.                                                   *)

\* While no socket is replaced, every connected Hub is in the table that the
\* status goes to.
StatusInv ==
  /\ oldSocket = {} /\ ~oldChrome
  /\ open = hubs /\ open \subseteq Hubs
  /\ told \in [Hubs -> BOOLEAN] /\ chrome \in BOOLEAN
  /\ \A h \in open : told[h] = chrome

\* Every connected Hub knows whether Chrome is there.
THEOREM StatusKnown == Spec => []StatusAccurate
  <1> DEFINE SInv == RelayShape /\ (NoneOf({"twoChromes", "overlap"}) => StatusInv)
  <1>1. Init => SInv
    BY MutatorStarts DEF Init, MutatorInv, StatusInv
  <1>2. SInv /\ [Next]_vars => SInv'
    <2> SUFFICES ASSUME RelayShape, NoneOf({"twoChromes", "overlap"}), StatusInv, [Next]_vars
                 PROVE  StatusInv'
      BY ShapeStep, KindsStay
    <2>1. "twoChromes" \notin Faults /\ "overlap" \notin Faults
      BY DEF NoneOf
    <2>2. CASE UNCHANGED sockets /\ UNCHANGED hubs
      BY <2>2 DEF sockets, StatusInv
    <2>3. ASSUME NEW r \in Requests,
                 \/ Receive(r) \/ Forward(r) \/ ResolveOne(r)
                 \/ ChromeAnswers(r) \/ ChromeSilent(r)
          PROVE  StatusInv'
      BY <2>2, <2>3 DEF Receive, Forward, ResolveOne, ChromeAnswers, ChromeSilent, tables
    <2>4. ASSUME NEW h \in Hubs, HubConnects(h) PROVE StatusInv'
      BY <2>1, <2>4 DEF HubConnects, Fault, StatusInv
    <2>5. ASSUME NEW h \in Hubs, HubCloses(h) PROVE StatusInv'
      BY <2>5 DEF HubCloses, HubGone, StatusInv
    <2>6. ASSUME NEW h \in Hubs PROVE ~OldHubSocketCloses(h)
      BY DEF OldHubSocketCloses, StatusInv
    <2>7. CASE ChromeConnects
      <3>1. /\ UNCHANGED <<hubs, open, oldSocket>> /\ ~oldChrome'
            /\ chrome' = TRUE /\ told' = Told(TRUE)
        BY <2>1, <2>7 DEF ChromeConnects, Fault, tables, StatusInv
      <3>2. QED
        BY <3>1 DEF Told, StatusInv
    <2>8. CASE ChromeCloses
      BY <2>8 DEF ChromeCloses, Told, StatusInv
    <2>9. ~OldChromeCloses
      BY DEF OldChromeCloses, StatusInv
    <2>10. ASSUME NEW t \in Timers, LeaseExpires(t) PROVE StatusInv'
      BY <2>2, <2>10 DEF LeaseExpires, tables
    <2>11. CASE UNCHANGED vars
      BY <2>2, <2>11 DEF vars, relayVars, tables
    <2>12. QED
      BY <2>3, <2>4, <2>5, <2>6, <2>7, <2>8, <2>9, <2>10, <2>11 DEF Next
  <1>3. SInv => StatusAccurate
    BY DEF StatusInv, StatusAccurate
  <1>4. QED
    BY <1>1, <1>2, <1>3, PTL DEF Spec
=============================================================================
