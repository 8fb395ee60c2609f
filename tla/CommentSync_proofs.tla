------------------------- MODULE CommentSync_proofs -------------------------
(***************************************************************************)
(* What is proved of CommentSync, for every set of threads and every         *)
(* scenario.                                                                *)
(***************************************************************************)
EXTENDS CommentSync, SequenceTheorems, TLAPS

Jobs == {"agent", "chrome", "sync", "lateSync", "merged"}

\* What is on disk, or is going there, has the three fields and no other.
Shaped(f) == f = [repo |-> f.repo, volatile |-> f.volatile, tombs |-> f.tombs]
DiskShape == Shaped(disk) /\ Shaped(file)

\* The last write of the queue, once it runs, has what is in the store: whatever was
\* changed after it began would have queued another.
LastWrite == Len(writes) = 1 /\ ~poisoned => file = Memory

\* DiskCurrent with what it rests on.
IInv == writes \in Seq(Jobs) /\ DiskShape /\ LastWrite /\ DiskCurrent

\* What is queued is in the queue, and runs if it is alone there.
LEMMA QueuedWrite ==
  ASSUME IInv, NEW who \in Jobs, Persist(who), UNCHANGED <<disk, poisoned>>
  PROVE  IInv'
  <1>1. writes' = Append(writes, who) /\ writes \in Seq(Jobs)
    BY DEF Persist, IInv
  <1>2. writes' \in Seq(Jobs) /\ writes' # <<>> /\ Len(writes') = Len(writes) + 1
    BY <1>1, AppendProperties
  <1>3. Len(writes) \in Nat /\ (writes # <<>> => Len(writes) # 0)
    BY <1>1, LenProperties, EmptySeq
  <1>4. CASE writes = <<>> /\ ~poisoned
    <2>1. file' = Memory'
      <3>1. Take(Memory')
        BY <1>4 DEF Persist
      <3> QED
        BY <3>1 DEF Take
    <2>2. Shaped(file)'
      BY <2>1 DEF Shaped, Memory
    <2> QED
      BY <1>2, <2>1, <2>2 DEF IInv, DiskShape, LastWrite, DiskCurrent, Shaped
  <1>5. CASE ~(writes = <<>> /\ ~poisoned)
    <2>1. Len(writes') # 1 \/ poisoned'
      <3>1. CASE poisoned
        BY <3>1
      <3>2. CASE writes # <<>>
        BY <1>2, <1>3, <3>2
      <3> QED
        BY <1>5, <3>1, <3>2
    <2>2. Shaped(file)'
      <3>1. Share
        BY <1>5 DEF Persist
      <3>2. PICK threads : file' = [file EXCEPT !.repo = threads]
        BY <3>1 DEF Share
      <3>3. file = [repo |-> file.repo, volatile |-> file.volatile, tombs |-> file.tombs]
        BY DEF IInv, DiskShape, Shaped
      <3>4. file' = [repo |-> threads, volatile |-> file.volatile, tombs |-> file.tombs]
        BY <3>2, <3>3
      <3> QED
        BY <3>4 DEF Shaped
    <2> QED
      BY <1>2, <2>1, <2>2 DEF IInv, DiskShape, LastWrite, DiskCurrent, Shaped
  <1> QED
    BY <1>4, <1>5

\* A step that leaves store and file alone leaves all parts alone.
LEMMA NoWrite ==
  ASSUME IInv, UNCHANGED <<code, disk, writes, file, poisoned>>
  PROVE  IInv'
  BY DEF IInv, DiskShape, Shaped, LastWrite, DiskCurrent, Memory, code

\* A write that ends, well or not, leaves a shorter queue, and the next one takes what
\* is there now.
LEMMA WriteEnds ==
  ASSUME IInv, WriteDone \/ WriteFails
  PROVE  IInv'
  <1>1. /\ writes \in Seq(Jobs) /\ writes # <<>> /\ writes' = Tail(writes)
        /\ UNCHANGED <<repo, volatile, tombs>> /\ DiskShape
    BY DEF IInv, WriteDone, WriteFails, code
  <1>2. writes' \in Seq(Jobs) /\ Len(writes') = Len(writes) - 1 /\ Len(writes) \in Nat
    BY <1>1, HeadTailProperties, LenProperties
  <1>3. Memory' = Memory
    BY <1>1 DEF Memory
  <1>4. CASE WriteDone
    <2>1. ~poisoned /\ ~poisoned' /\ disk' = file
      BY <1>4 DEF WriteDone
    <2>2. CASE writes' = <<>>
      <3>1. Len(writes') = 0
        BY <2>2
      <3>2. Len(writes) = 1 /\ Len(writes') # 1
        BY <1>2, <3>1
      <3>3. file = Memory /\ file' = file
        BY <1>1, <1>4, <2>1, <2>2, <3>2 DEF IInv, LastWrite, WriteDone
      <3> QED
        BY <1>1, <1>2, <1>3, <2>1, <3>2, <3>3
           DEF IInv, DiskShape, Shaped, LastWrite, DiskCurrent
    <2>3. CASE writes' # <<>>
      <3>1. file' = Memory
        BY <1>1, <1>4, <2>3 DEF WriteDone, Take
      <3>2. Shaped(file)'
        BY <3>1 DEF Shaped, Memory
      <3> QED
        BY <1>1, <1>2, <1>3, <2>1, <2>3, <3>1, <3>2
           DEF IInv, DiskShape, Shaped, LastWrite, DiskCurrent
    <2> QED
      BY <2>2, <2>3
  <1>5. CASE WriteFails
    BY <1>1, <1>2, <1>5 DEF WriteFails, IInv, DiskShape, Shaped, LastWrite, DiskCurrent
  <1> QED
    BY <1>4, <1>5

\* The loss of the connection renames the writes that wait for it.
LEMMA LinkLostKeeps ==
  ASSUME IInv, LinkLost
  PROVE  IInv'
  <1>1. /\ writes \in Seq(Jobs)
        /\ writes' = [i \in DOMAIN writes |-> IF writes[i] = "sync" THEN "lateSync" ELSE writes[i]]
    BY DEF IInv, LinkLost
  <1>2. DOMAIN writes = 1 .. Len(writes) /\ Len(writes) \in Nat
        /\ \A i \in 1 .. Len(writes) : writes[i] \in Jobs
    BY <1>1, LenProperties, ElementOfSeq
  <1>3. writes' \in [1 .. Len(writes) -> Jobs]
    BY <1>1, <1>2 DEF Jobs
  <1>4. writes' \in Seq(Jobs) /\ Len(writes') = Len(writes)
    BY <1>2, <1>3, LenProperties
  <1>5. writes' = <<>> => writes = <<>>
    BY <1>1, <1>4, EmptySeq
  <1>6. UNCHANGED <<code, disk, file, poisoned>>
    BY DEF LinkLost
  <1> QED
    BY <1>4, <1>5, <1>6 DEF IInv, DiskShape, Shaped, LastWrite, DiskCurrent, Memory, code

LEMMA Invariance == IInv /\ [Next]_vars => IInv'
  <1> SUFFICES ASSUME IInv, [Next]_vars PROVE IInv'
    OBVIOUS
  <1>1. ASSUME NEW t \in Threads,
               \/ AgentCreates(t) \/ AgentDeletes(t)
               \/ \E status \in Statuses : AgentSets(t, status)
        PROVE  IInv'
    <2>1. Persist("agent") /\ UNCHANGED <<disk, poisoned>>
      BY <1>1 DEF AgentCreates, AgentDeletes, AgentSets
    <2> QED
      BY <2>1, QueuedWrite DEF Jobs
  <1>2. ASSUME NEW t \in Threads,
               \/ UserCreates(t) \/ UserDeletes(t)
               \/ \E status \in Statuses : UserSets(t, status)
        PROVE  IInv'
    BY <1>2, NoWrite DEF UserCreates, UserDeletes, UserSets, ForwardChange, store
  <1>3. CASE WriteDone \/ WriteFails
    BY <1>3, WriteEnds
  <1>4. CASE OnSync
    BY <1>4, QueuedWrite DEF OnSync, Jobs
  <1>5. CASE OnReturned
    <2>1. \/ Persist("merged") /\ UNCHANGED <<disk, poisoned>>
          \/ UNCHANGED <<code, disk, writes, file, poisoned>>
      BY <1>5 DEF OnReturned
    <2> QED
      BY <2>1, QueuedWrite, NoWrite DEF Jobs
  <1>6. CASE OnAction
    <2>1. \/ Persist("chrome") /\ UNCHANGED <<disk, poisoned>>
          \/ UNCHANGED <<code, disk, writes, file, poisoned>>
      BY <1>6 DEF OnAction
    <2> QED
      BY <2>1, QueuedWrite, NoWrite DEF Jobs
  <1>7. CASE WriteEncodes \/ OnNotReturned \/ StartCycle \/ CycleTimesOut \/ LinkBack
    BY <1>7, NoWrite DEF WriteEncodes, OnNotReturned, StartCycle, CycleTimesOut, LinkBack, store
  <1>8. CASE LinkLost
    BY <1>8, LinkLostKeeps
  <1>9. CASE Reload
    <2>1. writes' = <<>> /\ writes' \in Seq(Jobs) /\ Len(writes') # 1
      BY <1>9, EmptySeq DEF Reload
    <2>2. DiskShape'
      BY <1>9 DEF Reload, IInv, DiskShape, Shaped
    <2>3. DiskCurrent'
      BY <1>9, <2>2 DEF Reload, DiskShape, Shaped, DiskCurrent, Memory
    <2> QED
      BY <2>1, <2>2, <2>3 DEF IInv, LastWrite
  <1>10. CASE OnRequest \/ SendState \/ OnMerged \/ OnFailed \/ ReplaceStores
    BY <1>10, NoWrite DEF OnRequest, SendState, OnMerged, OnFailed, ReplaceStores, store
  <1>11. CASE UNCHANGED vars
    BY <1>11, NoWrite DEF vars, store
  <1> QED
    BY <1>1, <1>2, <1>3, <1>4, <1>5, <1>6, <1>7, <1>8, <1>9, <1>10, <1>11 DEF Next

\* Once the write queue is empty and no write has failed, the file has what VS Code
\* shows, although a write takes what was there when it began and everything may
\* change while it runs (CommentStore._persist).
THEOREM DiskIsCurrent == Spec => []DiskCurrent
  <1>1. Init => IInv
    BY EmptySeq DEF Init, IInv, DiskShape, Shaped, LastWrite, DiskCurrent, Memory
  <1>2. IInv => DiskCurrent
    BY DEF IInv
  <1> QED
    BY <1>1, <1>2, Invariance, PTL DEF Spec

-----------------------------------------------------------------------------
(* The exchange, when changes follow one another and no fault but a slow       *)
(* Chrome is met.                                                           *)

\* Sequences, whatever is in them.
IsSeq(s)    == \E S : s \in Seq(S)
Elements(s) == {s[i] : i \in DOMAIN s}

LEMMA TailElements ==
  ASSUME NEW s, IsSeq(s), s # <<>>
  PROVE  /\ IsSeq(Tail(s)) /\ Elements(s) = {Head(s)} \cup Elements(Tail(s))
         /\ 1 \in DOMAIN s /\ Head(s) = s[1]
         /\ \A i \in DOMAIN Tail(s) : i + 1 \in DOMAIN s /\ i + 1 # 1 /\ Tail(s)[i] = s[i + 1]
  <1>1. PICK S : s \in Seq(S)
    BY DEF IsSeq
  <1>2. /\ DOMAIN s = 1 .. Len(s) /\ Len(s) \in Nat /\ Len(s) # 0 /\ Head(s) = s[1]
        /\ Tail(s) \in Seq(S) /\ Len(Tail(s)) = Len(s) - 1
        /\ \A i \in 1 .. Len(Tail(s)) : Tail(s)[i] = s[i + 1]
    BY <1>1, LenProperties, EmptySeq, HeadTailProperties
  <1>3. DOMAIN Tail(s) = 1 .. (Len(s) - 1)
    BY <1>2, LenProperties
  <1>4. \A i \in DOMAIN Tail(s) : i + 1 \in DOMAIN s /\ i + 1 # 1 /\ Tail(s)[i] = s[i + 1]
    BY <1>2, <1>3
  <1>5. 1 \in DOMAIN s
    BY <1>2
  <1>6. \A i \in DOMAIN s : i # 1 => i - 1 \in DOMAIN Tail(s) /\ Tail(s)[i - 1] = s[i]
    BY <1>2, <1>3
  <1>7. Elements(s) = {Head(s)} \cup Elements(Tail(s))
    <2>1. ASSUME NEW i \in DOMAIN s PROVE s[i] \in {Head(s)} \cup Elements(Tail(s))
      BY <1>2, <1>6 DEF Elements
    <2>2. ASSUME NEW i \in DOMAIN Tail(s) PROVE Tail(s)[i] \in Elements(s)
      BY <1>4 DEF Elements
    <2> QED
      BY <1>2, <1>5, <2>1, <2>2 DEF Elements
  <1> QED
    BY <1>2, <1>4, <1>5, <1>7 DEF IsSeq

LEMMA ConcatElements ==
  ASSUME NEW s, IsSeq(s), NEW u, IsSeq(u)
  PROVE  /\ IsSeq(s \o u) /\ Elements(s \o u) = Elements(s) \cup Elements(u)
         /\ s # <<>> => s \o u # <<>> /\ Head(s \o u) = Head(s)
         /\ \A i \in DOMAIN (s \o u) :
              \/ i \in DOMAIN s /\ (s \o u)[i] = s[i]
              \/ (s \o u)[i] \in Elements(u)
  <1>1. PICK S, U : s \in Seq(S) /\ u \in Seq(U)
    BY DEF IsSeq
  <1>2. s \in Seq(S \cup U) /\ u \in Seq(S \cup U)
    BY <1>1
  <1>3. /\ s \o u \in Seq(S \cup U) /\ Len(s \o u) = Len(s) + Len(u)
        /\ \A i \in 1 .. Len(s) : (s \o u)[i] = s[i]
        /\ \A i \in 1 .. Len(u) : (s \o u)[Len(s) + i] = u[i]
    BY <1>2, ConcatProperties
  <1>4. /\ DOMAIN s = 1 .. Len(s) /\ Len(s) \in Nat /\ DOMAIN u = 1 .. Len(u) /\ Len(u) \in Nat
        /\ DOMAIN (s \o u) = 1 .. (Len(s) + Len(u))
    BY <1>2, <1>3, LenProperties
  <1>5. \A i \in DOMAIN (s \o u) :
          \/ i \in DOMAIN s /\ (s \o u)[i] = s[i]
          \/ i - Len(s) \in DOMAIN u /\ (s \o u)[i] = u[i - Len(s)]
    <2> TAKE i \in DOMAIN (s \o u)
    <2>1. CASE i <= Len(s)
      BY <1>3, <1>4, <2>1
    <2>2. CASE i > Len(s)
      <3>1. i - Len(s) \in 1 .. Len(u) /\ Len(s) + (i - Len(s)) = i
        BY <1>4, <2>2
      <3> QED
        BY <1>3, <1>4, <3>1
    <2> QED
      BY <1>4, <2>1, <2>2
  <1>6. Elements(s \o u) = Elements(s) \cup Elements(u)
    <2>1. \A i \in DOMAIN s : i \in DOMAIN (s \o u) /\ (s \o u)[i] = s[i]
      BY <1>3, <1>4
    <2>2. \A i \in DOMAIN u : Len(s) + i \in DOMAIN (s \o u) /\ (s \o u)[Len(s) + i] = u[i]
      BY <1>3, <1>4
    <2> QED
      BY <1>5, <2>1, <2>2 DEF Elements
  <1>7. s # <<>> => s \o u # <<>> /\ Head(s \o u) = Head(s)
    <2> SUFFICES ASSUME s # <<>> PROVE s \o u # <<>> /\ Head(s \o u) = Head(s)
      OBVIOUS
    <2>1. Len(s) # 0 /\ Head(s) = s[1]
      BY <1>2, EmptySeq, HeadTailProperties
    <2>2. Len(s \o u) # 0 /\ (s \o u)[1] = s[1]
      BY <1>3, <1>4, <2>1
    <2>3. s \o u # <<>>
      BY <1>3, <2>2, EmptySeq
    <2>4. Head(s \o u) = (s \o u)[1]
      BY <1>3, <2>3, HeadTailProperties
    <2> QED
      BY <2>1, <2>2, <2>3, <2>4
  <1> QED
    BY <1>3, <1>5, <1>6, <1>7 DEF IsSeq, Elements

LEMMA SmallSeqs ==
  ASSUME NEW x
  PROVE  /\ IsSeq(<<>>) /\ Elements(<<>>) = {}
         /\ IsSeq(<<x>>) /\ Elements(<<x>>) = {x} /\ DOMAIN <<x>> = {1} /\ <<x>>[1] = x
  <1>1. <<>> \in Seq({x}) /\ <<x>> \in Seq({x})
    OBVIOUS
  <1>2. DOMAIN <<x>> = {1} /\ <<x>>[1] = x /\ DOMAIN <<>> = {}
    OBVIOUS
  <1> QED
    BY <1>1, <1>2 DEF IsSeq, Elements

LEMMA AppendElements ==
  ASSUME NEW s, IsSeq(s), NEW x
  PROVE  /\ IsSeq(Append(s, x)) /\ Elements(Append(s, x)) = Elements(s) \cup {x}
         /\ Append(s, x) # <<>>
  <1>1. PICK S : s \in Seq(S)
    BY DEF IsSeq
  <1>2. s \in Seq(S \cup {x}) /\ x \in S \cup {x}
    BY <1>1
  <1>3. /\ Append(s, x) \in Seq(S \cup {x}) /\ Len(Append(s, x)) = Len(s) + 1
        /\ \A i \in 1 .. Len(s) : Append(s, x)[i] = s[i]
        /\ Append(s, x)[Len(s) + 1] = x
    BY <1>2, AppendProperties
  <1>4. DOMAIN s = 1 .. Len(s) /\ Len(s) \in Nat /\ DOMAIN Append(s, x) = 1 .. (Len(s) + 1)
    BY <1>2, <1>3, LenProperties
  <1>5. Append(s, x) # <<>>
    BY <1>3, <1>4, EmptySeq
  <1>6. /\ \A i \in DOMAIN s : i \in DOMAIN Append(s, x) /\ Append(s, x)[i] = s[i]
        /\ Len(s) + 1 \in DOMAIN Append(s, x)
        /\ \A i \in DOMAIN Append(s, x) :
             (i \in DOMAIN s /\ Append(s, x)[i] = s[i]) \/ Append(s, x)[i] = x
    BY <1>3, <1>4
  <1>7. Elements(Append(s, x)) = Elements(s) \cup {x}
    BY <1>3, <1>6 DEF Elements
  <1> QED
    BY <1>3, <1>5, <1>7 DEF IsSeq

\* The states in the frames of a kind, and the kinds of the frames.
Of(frames, kind) == {f.state : f \in {g \in Elements(frames) : g.kind = kind}}
Kinds(frames)    == {f.kind : f \in Elements(frames)}

LEMMA FramesOfTail ==
  ASSUME NEW s, IsSeq(s), s # <<>>, NEW kind
  PROVE  /\ Of(s, kind) = Of(Tail(s), kind)
                            \cup (IF Head(s).kind = kind THEN {Head(s).state} ELSE {})
         /\ Kinds(s) = {Head(s).kind} \cup Kinds(Tail(s))
  <1>1. Elements(s) = {Head(s)} \cup Elements(Tail(s))
    BY TailElements
  <1> QED
    BY <1>1 DEF Of, Kinds

LEMMA FramesOfConcat ==
  ASSUME NEW s, IsSeq(s), NEW u, IsSeq(u), NEW kind
  PROVE  /\ Of(s \o u, kind) = Of(s, kind) \cup Of(u, kind)
         /\ Kinds(s \o u) = Kinds(s) \cup Kinds(u)
  <1>1. Elements(s \o u) = Elements(s) \cup Elements(u)
    BY ConcatElements
  <1> QED
    BY <1>1 DEF Of, Kinds

LEMMA OneFrame ==
  ASSUME NEW f, NEW kind
  PROVE  /\ IsSeq(<<f>>) /\ Kinds(<<f>>) = {f.kind}
         /\ Of(<<f>>, kind) = IF f.kind = kind THEN {f.state} ELSE {}
         /\ IsSeq(<<>>) /\ Kinds(<<>>) = {} /\ Of(<<>>, kind) = {}
  <1>1. /\ IsSeq(<<f>>) /\ Elements(<<f>>) = {f}
        /\ IsSeq(<<>>) /\ Elements(<<>>) = {}
    BY SmallSeqs
  <1> QED
    BY <1>1 DEF Of, Kinds

LEMMA WakeupFrames ==
  ASSUME NEW n \in Nat, n > 0
  PROVE  /\ IsSeq(Wakeups(n)) /\ Kinds(Wakeups(n)) = {"wakeup"}
         /\ Of(Wakeups(n), "merged") = {}
  <1> DEFINE w == [kind |-> "wakeup"]
  <1>1. Wakeups(n) = [i \in 1 .. n |-> w]
    BY DEF Wakeups
  <1>2. w.kind = "wakeup"
    OBVIOUS
  <1> HIDE DEF w
  <1>3. Wakeups(n) \in [1 .. n -> {w}]
    BY <1>1
  <1>4. Wakeups(n) \in Seq({w})
    BY <1>3, LenProperties
  <1>5. 1 \in 1 .. n
    OBVIOUS
  <1>6. Elements(Wakeups(n)) = {w}
    BY <1>1, <1>5 DEF Elements
  <1> QED
    BY <1>2, <1>4, <1>6 DEF Of, Kinds, IsSeq

-----------------------------------------------------------------------------
(* The invariant of the exchange.                                          *)

\* Copies on their way: in states that were read, in merged states, and in merged
\* states that go back.
Read     == Of(toCode, "sync")
Returned == Of(toCode, "returned")
Merged   == Of(toChrome, "merged") \cup {m.state : m \in Elements(merging)}

\* A state of Chrome is going to be read or is on its way, and with Awaited an answer.
Pulling == Kinds(toChrome) \cap {"wakeup", "request"} # {} \/ reading # <<>> \/ Read # {}
Pulled  == "agent" \in Elements(writes) \/ Pulling
Awaited == Pulled \/ "sync" \in Elements(writes) \/ Merged # {}

\* What Chrome may still have of a thread while VS Code has a copy that wins over it.
Older(copy) ==
  IF copy \in Statuses THEN {"none"} ELSE IF copy = "deleted" THEN Statuses ELSE {}

\* What Chrome is to have is what VS Code has.
Follows(t) ==
  /\ \A state \in Merged \cup Returned : state[t] = Export[t]
  /\ \A state \in Read \cup {page} : state[t] \in {Export[t]} \cup Older(Export[t])
  /\ page[t] # Export[t] => Awaited
  /\ want[t] = "none" <=> Export[t] \in {"none", "deleted"}
  /\ t \in byUser => want[t] \in {Export[t], "none"}

\* An agent's status is going to be undone by that of Chrome.
Overruled(t) ==
  /\ repo[t] \in Statuses /\ t \notin tombs /\ page[t] \in Statuses
  /\ \A state \in Read : state[t] = page[t]
  /\ Merged = {} /\ Returned = {} /\ Elements(writes) \cap {"sync", "merged"} = {}
  /\ Pulled
  /\ want[t] \in Statuses /\ t \notin byUser

\* A user's change is on its way.
Acting == toCode # <<>> /\ Head(toCode).kind = "action"
Does(op, has, copy) ==
  \/ op = "create" /\ has = "none" /\ copy = "open"
  \/ op \in Statuses /\ has \in Statuses \ {op} /\ copy = op
  \/ op = "delete" /\ has \in Statuses /\ copy = "deleted"
Forwarded(t) ==
  /\ Acting /\ Head(toCode).thread = t
  /\ Does(Head(toCode).op, Export[t], page[t])
  /\ \A state \in Read : state[t] = page[t]
  /\ Merged = {} /\ Returned = {} /\ writes = <<>>
  /\ want[t] = InChrome(t)

Views == [Threads -> Copies]
Forms ==
  /\ repo \in [Threads -> Statuses \cup {"none"}] /\ tombs \subseteq Threads
  /\ page \in Views /\ want \in [Threads -> Statuses \cup {"none"}]
  /\ Read \subseteq Views /\ Returned \subseteq Views /\ Merged \subseteq Views
  /\ IsSeq(writes) /\ IsSeq(reading) /\ IsSeq(merging) /\ IsSeq(toChrome) /\ IsSeq(toCode)

Upright == linked /\ ~poisoned /\ volatile = {}
Marked  == \A t \in tombs : repo[t] = "none"
Alone   == \A i \in DOMAIN toCode : toCode[i].kind = "action" => i = 1
Aimed   == Acting => \E t \in Threads : Forwarded(t)
Unborn  == \A t \in Threads \ born : Export[t] = "none" /\ page[t] = "none"
Staged  == \A t \in Threads : Follows(t) \/ Overruled(t) \/ Forwarded(t)

Good == Forms /\ Upright /\ Marked /\ Alone /\ Aimed /\ Unborn /\ Staged

Calm == Faults \subseteq {"slow"}
Used == used \in [kinds : SUBSET FaultKinds, faults : Int, changes : Int]
CalmGood == Used /\ (Calm => Good)

LEMMA ExportIs ==
  ASSUME NEW t \in Threads
  PROVE  Export[t] = IF t \in tombs THEN "deleted" ELSE repo[t]
  BY DEF Export, Shown

LEMMA ExportKept ==
  ASSUME UNCHANGED <<repo, tombs>>
  PROVE  Export' = Export
  BY DEF Export, Shown

LEMMA ExportForm ==
  ASSUME Forms
  PROVE  Export \in Views
  BY ExportIs DEF Forms, Views, Copies, Export, Shown

\* A stage is kept when its thread is left alone and what comes on its way fits.
LEMMA FollowsKept ==
  ASSUME NEW t, Follows(t), Export'[t] = Export[t], UNCHANGED <<want, byUser>>,
         \A state \in Merged' \cup Returned' : state \in Merged \cup Returned \/ state[t] = Export[t],
         \A state \in Read' \cup {page'} : state \in Read \cup {page} \/ state[t] = Export[t],
         Awaited => Awaited' \/ page'[t] = Export[t], page' = page \/ page'[t] = Export[t]
  PROVE  Follows(t)'
  BY DEF Follows, Older

LEMMA OverruledKept ==
  ASSUME NEW t, Overruled(t), repo'[t] = repo[t], t \in tombs' <=> t \in tombs,
         UNCHANGED <<page, want, byUser>>,
         Read' \subseteq Read \cup {page}, Merged' = {}, Returned' = {},
         Elements(writes') \cap {"sync", "merged"} = {}, Pulled'
  PROVE  Overruled(t)'
  BY DEF Overruled

LEMMA ForwardedKept ==
  ASSUME NEW t, Forwarded(t), UNCHANGED <<code, page, want>>,
         Acting', Head(toCode') = Head(toCode),
         Read' \subseteq Read \cup {page}, Merged' = {}, Returned' = {}, writes' = <<>>
  PROVE  Forwarded(t)'
  <1>1. Export' = Export
    BY ExportKept DEF code
  <1> QED
    BY <1>1 DEF Forwarded, InChrome

-----------------------------------------------------------------------------
(* What taking a frame and adding frames does to what is on its way.        *)

LEMMA TakenByCode ==
  ASSUME IsSeq(toCode), Alone, NEW kind, Asks(kind)
  PROVE  /\ IsSeq(toCode') /\ Alone' /\ ~Acting'
         /\ Read = Read' \cup (IF kind = "sync" THEN {Head(toCode).state} ELSE {})
         /\ Returned = Returned' \cup (IF kind = "returned" THEN {Head(toCode).state} ELSE {})
         /\ Acting => kind = "action"
  <1>1. toCode # <<>> /\ Head(toCode).kind = kind /\ toCode' = Tail(toCode)
    BY DEF Asks
  <1>2. IsSeq(toCode') /\ \A i \in DOMAIN toCode' : toCode'[i].kind # "action"
    BY <1>1, TailElements DEF Alone
  <1>3. ~Acting'
    <2> SUFFICES ASSUME Acting' PROVE FALSE
      OBVIOUS
    <2>1. toCode' # <<>> /\ Head(toCode').kind = "action"
      BY DEF Acting
    <2>2. 1 \in DOMAIN toCode' /\ Head(toCode') = toCode'[1]
      BY <1>2, <2>1, TailElements
    <2> QED
      BY <1>2, <2>1, <2>2
  <1>4. \A k : Of(toCode, k) = Of(toCode', k) \cup (IF kind = k THEN {Head(toCode).state} ELSE {})
    BY <1>1, FramesOfTail
  <1> QED
    BY <1>1, <1>2, <1>3, <1>4 DEF Read, Returned, Alone, Acting

LEMMA AddedForCode ==
  ASSUME IsSeq(toCode), Alone, linked, NEW frames, IsSeq(frames), Send(frames),
         "action" \notin Kinds(frames)
  PROVE  /\ IsSeq(toCode') /\ Alone' /\ (Acting' <=> Acting)
         /\ Acting => Head(toCode') = Head(toCode)
         /\ Read' = Read \cup Of(frames, "sync")
         /\ Returned' = Returned \cup Of(frames, "returned")
  <1>1. toCode' = toCode \o frames
    BY DEF Send
  <1>2. \A f \in Elements(frames) : f.kind # "action"
    BY DEF Kinds
  <1>3. /\ IsSeq(toCode') /\ Elements(toCode') = Elements(toCode) \cup Elements(frames)
        /\ toCode # <<>> => toCode' # <<>> /\ Head(toCode') = Head(toCode)
        /\ \A i \in DOMAIN toCode' :
             \/ i \in DOMAIN toCode /\ toCode'[i] = toCode[i]
             \/ toCode'[i] \in Elements(frames)
    BY <1>1, ConcatElements
  <1>4. Alone'
    BY <1>2, <1>3 DEF Alone
  <1>5. toCode = <<>> => ~Acting'
    <2> SUFFICES ASSUME toCode = <<>>, Acting' PROVE FALSE
      OBVIOUS
    <2>1. toCode' # <<>> /\ Head(toCode').kind = "action"
      BY DEF Acting
    <2>2. Head(toCode') \in Elements(toCode')
      BY <1>3, <2>1, TailElements
    <2>3. Elements(toCode) = {}
      BY SmallSeqs
    <2> QED
      BY <1>2, <1>3, <2>1, <2>2, <2>3
  <1>6. \A k : Of(toCode', k) = Of(toCode, k) \cup Of(frames, k)
    BY <1>1, FramesOfConcat
  <1> QED
    BY <1>3, <1>4, <1>5, <1>6 DEF Read, Returned, Acting

LEMMA TakenByChrome ==
  ASSUME IsSeq(toChrome), NEW kind, Gets(kind)
  PROVE  /\ IsSeq(toChrome') /\ Kinds(toChrome) = {kind} \cup Kinds(toChrome')
         /\ Of(toChrome, "merged") = Of(toChrome', "merged")
              \cup (IF kind = "merged" THEN {Head(toChrome).state} ELSE {})
  <1>1. toChrome # <<>> /\ Head(toChrome).kind = kind /\ toChrome' = Tail(toChrome)
    BY DEF Gets
  <1>2. IsSeq(toChrome')
    BY <1>1, TailElements
  <1> QED
    BY <1>1, <1>2, FramesOfTail

LEMMA AddedForChrome ==
  ASSUME IsSeq(toChrome), linked, NEW frames, IsSeq(frames), Push(frames)
  PROVE  /\ IsSeq(toChrome') /\ Kinds(toChrome') = Kinds(toChrome) \cup Kinds(frames)
         /\ Of(toChrome', "merged") = Of(toChrome, "merged") \cup Of(frames, "merged")
  <1>1. toChrome' = toChrome \o frames
    BY DEF Push
  <1>2. IsSeq(toChrome')
    BY <1>1, ConcatElements
  <1> QED
    BY <1>1, <1>2, FramesOfConcat

\* What a write that ends in good order pushes.
LEMMA WriteDoneFrames ==
  ASSUME IsSeq(toChrome), IsSeq(writes), linked, WriteDone
  PROVE  /\ IsSeq(writes') /\ Elements(writes) = {Head(writes)} \cup Elements(writes')
         /\ IsSeq(toChrome') /\ Kinds(toChrome) \subseteq Kinds(toChrome')
         /\ Of(toChrome', "merged") =
              Of(toChrome, "merged") \cup (IF Head(writes) = "sync" THEN {Export} ELSE {})
         /\ Head(writes) = "agent" => "wakeup" \in Kinds(toChrome')
  <1>1. writes # <<>> /\ writes' = Tail(writes) /\ AfterWrite(Head(writes), TRUE, Tail(writes))
    BY DEF WriteDone
  <1>2. IsSeq(writes') /\ Elements(writes) = {Head(writes)} \cup Elements(writes')
    BY <1>1, TailElements
  <1>3. CASE Head(writes) \in {"agent", "chrome"}
    <2>1. PICK n \in Nat : n > 0 /\ Push(Wakeups(n))
      <3>1. 1 + Hook(Tail(writes)) \in Nat /\ 1 + Hook(Tail(writes)) > 0
            /\ 2 + Hook(Tail(writes)) \in Nat /\ 2 + Hook(Tail(writes)) > 0
        BY DEF Hook
      <3> QED
        BY <1>1, <1>3, <3>1 DEF AfterWrite
    <2>2. IsSeq(Wakeups(n)) /\ Kinds(Wakeups(n)) = {"wakeup"} /\ Of(Wakeups(n), "merged") = {}
      BY <2>1, WakeupFrames
    <2>3. /\ IsSeq(toChrome') /\ Kinds(toChrome') = Kinds(toChrome) \cup Kinds(Wakeups(n))
          /\ Of(toChrome', "merged") = Of(toChrome, "merged") \cup Of(Wakeups(n), "merged")
      BY <2>1, <2>2, AddedForChrome
    <2> QED
      BY <1>2, <1>3, <2>2, <2>3
  <1>4. CASE Head(writes) = "sync"
    <2> DEFINE f == [kind |-> "merged", state |-> Export]
    <2>1. Push(<<f>>)
      BY <1>1, <1>4 DEF AfterWrite
    <2>2. f.kind = "merged" /\ f.state = Export
      OBVIOUS
    <2> HIDE DEF f
    <2>3. IsSeq(<<f>>) /\ Kinds(<<f>>) = {f.kind} /\ Of(<<f>>, "merged") = {Export}
      BY <2>2, OneFrame
    <2>4. /\ IsSeq(toChrome') /\ Kinds(toChrome') = Kinds(toChrome) \cup Kinds(<<f>>)
          /\ Of(toChrome', "merged") = Of(toChrome, "merged") \cup Of(<<f>>, "merged")
      BY <2>1, <2>3, AddedForChrome
    <2> QED
      BY <1>2, <1>4, <2>3, <2>4
  <1>5. CASE Head(writes) \notin {"agent", "chrome", "sync"}
    <2>1. UNCHANGED toChrome
      BY <1>1, <1>5 DEF AfterWrite
    <2> QED
      BY <1>2, <1>5, <2>1
  <1> QED
    BY <1>3, <1>4, <1>5

-----------------------------------------------------------------------------
(* The steps that leave the threads of both replicas alone.                 *)

LEMMA Background ==
  ASSUME Good, UNCHANGED <<code, page, ghosts, linked, poisoned>>,
         IsSeq(writes'), IsSeq(reading'), IsSeq(merging'), IsSeq(toChrome'), IsSeq(toCode'),
         Alone', Read' \subseteq Read \cup {page}, Returned' \subseteq Returned,
         Merged' \subseteq Merged \cup {Export},
         Merged' = {} \/ Merged # {} \/ "sync" \in Elements(writes),
         Pulled => Pulled', Awaited => Awaited',
         Acting => Acting' /\ Head(toCode') = Head(toCode), Acting' => Acting,
         \/ Elements(writes') \subseteq Elements(writes) /\ (writes = <<>> => writes' = <<>>)
         \/ ~Acting /\ \A t \in Threads : Follows(t)
  PROVE  Good'
  <1>1. Export' = Export /\ Export \in Views
    BY ExportKept, ExportForm DEF Good, code
  <1>2. ASSUME NEW t \in Threads, Follows(t) PROVE Follows(t)'
    <2>1. \A state \in Merged' \cup Returned' :
            state \in Merged \cup Returned \/ state[t] = Export[t]
      OBVIOUS
    <2>2. \A state \in Read' \cup {page'} :
            state \in Read \cup {page} \/ state[t] = Export[t]
      OBVIOUS
    <2>3. Export'[t] = Export[t] /\ UNCHANGED <<want, byUser, page>>
      BY <1>1 DEF ghosts
    <2> QED
      BY <1>2, <2>1, <2>2, <2>3, FollowsKept
  <1>3. ASSUME NEW t \in Threads, Overruled(t), Elements(writes') \subseteq Elements(writes)
        PROVE  Overruled(t)'
    <2>1. /\ Merged = {} /\ Returned = {} /\ Elements(writes) \cap {"sync", "merged"} = {}
          /\ Pulled
      BY <1>3 DEF Overruled
    <2>2. Merged' = {} /\ Returned' = {} /\ Elements(writes') \cap {"sync", "merged"} = {}
      BY <1>3, <2>1
    <2> QED
      BY <1>3, <2>1, <2>2, OverruledKept DEF ghosts, code
  <1>4. ASSUME NEW t \in Threads, Forwarded(t), writes = <<>> => writes' = <<>>
        PROVE  Forwarded(t)'
    <2>1. Merged = {} /\ Returned = {} /\ writes = <<>> /\ Acting
      BY <1>4 DEF Forwarded
    <2>2. Elements(writes) = {}
      BY <2>1, SmallSeqs
    <2>3. Merged' = {} /\ Returned' = {} /\ writes' = <<>>
      BY <1>4, <2>1, <2>2
    <2> QED
      BY <1>4, <2>1, <2>3, ForwardedKept DEF ghosts
  <1>5. Staged' /\ Aimed'
    <2>1. CASE ~Acting /\ \A t \in Threads : Follows(t)
      BY <1>2, <2>1 DEF Staged, Aimed
    <2>2. CASE Elements(writes') \subseteq Elements(writes) /\ (writes = <<>> => writes' = <<>>)
      BY <1>2, <1>3, <1>4, <2>2 DEF Good, Staged, Aimed
    <2> QED
      BY <2>1, <2>2
  <1>6. Forms'
    BY <1>1 DEF Good, Forms, code, ghosts
  <1>7. Upright' /\ Marked' /\ Unborn'
    BY <1>1 DEF Good, Upright, Marked, Unborn, code, ghosts
  <1> QED
    BY <1>5, <1>6, <1>7 DEF Good

LEMMA WriteDoneGood ==
  ASSUME Good, WriteDone
  PROVE  Good'
  <1>1. /\ writes # <<>> /\ UNCHANGED <<code, poisoned, chrome, linked, toCode, ghosts>>
        /\ IsSeq(toChrome) /\ IsSeq(writes) /\ linked
    BY DEF WriteDone, Good, Forms, Upright
  <1>2. /\ IsSeq(writes') /\ Elements(writes) = {Head(writes)} \cup Elements(writes')
        /\ IsSeq(toChrome') /\ Kinds(toChrome) \subseteq Kinds(toChrome')
        /\ Of(toChrome', "merged") =
             Of(toChrome, "merged") \cup (IF Head(writes) = "sync" THEN {Export} ELSE {})
        /\ Head(writes) = "agent" => "wakeup" \in Kinds(toChrome')
    BY <1>1, WriteDoneFrames
  <1>3. Read' = Read /\ Returned' = Returned /\ Alone' /\ IsSeq(toCode') /\ (Acting' <=> Acting)
    BY <1>1 DEF Read, Returned, Alone, Acting, Good, Forms
  <1>4. Merged' = Merged \cup (IF Head(writes) = "sync" THEN {Export} ELSE {})
    BY <1>1, <1>2 DEF Merged, chrome
  <1>5. Pulling => Pulling'
    BY <1>1, <1>2, <1>3 DEF Pulling, chrome
  <1>6. Pulled => Pulled'
    BY <1>2, <1>5 DEF Pulled, Pulling
  <1>7. Awaited => Awaited'
    BY <1>2, <1>4, <1>6 DEF Awaited
  <1> QED
    BY <1>1, <1>2, <1>3, <1>4, <1>6, <1>7, Background DEF chrome, Good, Forms

LEMMA SameWriting ==
  ASSUME UNCHANGED <<writes, toChrome, merging, reading>>, Read \subseteq Read'
  PROVE  /\ Merged' = Merged /\ Elements(writes') = Elements(writes)
         /\ Pulled => Pulled'
         /\ Awaited => Awaited'
  BY DEF Merged, Pulled, Pulling, Awaited

\* Chrome could not get the merged state, or it comes too late.
LEMMA NotReturnedGood ==
  ASSUME Good, OnNotReturned \/ (OnReturned /\ UNCHANGED <<code, writes>>)
  PROVE  Good'
  <1>1. /\ UNCHANGED <<code, writes, poisoned, chrome, linked, toChrome, ghosts>>
        /\ Asks("returned") \/ Asks("notReturned")
        /\ Forms /\ Alone
    BY DEF OnNotReturned, OnReturned, store, Good
  <1>2. /\ IsSeq(toCode') /\ Alone' /\ ~Acting' /\ ~Acting
        /\ Read = Read' /\ Returned' \subseteq Returned
    BY <1>1, TakenByCode DEF Forms
  <1>3. /\ Merged' = Merged /\ Elements(writes') = Elements(writes)
        /\ (Pulled => Pulled') /\ (Awaited => Awaited')
    BY <1>1, <1>2, SameWriting DEF chrome
  <1> QED
    BY <1>1, <1>2, <1>3, Background DEF chrome, Forms

LEMMA CycleGood ==
  ASSUME Good, StartCycle \/ CycleTimesOut
  PROVE  Good'
  <1>1. /\ UNCHANGED <<code, store, chrome, linked, toCode, ghosts>>
        /\ Forms /\ Alone /\ linked
    BY DEF StartCycle, CycleTimesOut, net, Good, Upright
  <1>2. /\ IsSeq(toChrome') /\ Kinds(toChrome) \subseteq Kinds(toChrome')
        /\ Of(toChrome', "merged") = Of(toChrome, "merged")
    <2>1. CASE CycleTimesOut
      BY <1>1, <2>1 DEF CycleTimesOut, net, Forms
    <2>2. CASE StartCycle
      <3>1. PICK f : f.kind = "request" /\ Push(<<f>>)
        <4>1. [kind |-> "request"].kind = "request" /\ Push(<<[kind |-> "request"]>>)
          BY <2>2 DEF StartCycle
        <4> QED
          BY <4>1
      <3>2. IsSeq(<<f>>) /\ Of(<<f>>, "merged") = {}
        BY <3>1, OneFrame
      <3> QED
        BY <1>1, <3>1, <3>2, AddedForChrome DEF Forms
    <2> QED
      BY <2>1, <2>2
  <1>3. /\ Read' = Read /\ Returned' = Returned /\ Alone' /\ (Acting' <=> Acting)
        /\ Merged' = Merged /\ Elements(writes') = Elements(writes)
    BY <1>1, <1>2 DEF Read, Returned, Alone, Acting, Merged, chrome, store
  <1>4. Pulled => Pulled'
    BY <1>1, <1>2, <1>3 DEF Pulled, Pulling, chrome
  <1>5. Awaited => Awaited'
    BY <1>3, <1>4 DEF Awaited
  <1> QED
    BY <1>1, <1>2, <1>3, <1>4, <1>5, Background DEF chrome, store, Forms

LEMMA RequestGood ==
  ASSUME Good, OnRequest
  PROVE  Good'
  <1>1. /\ UNCHANGED <<code, store, page, merging, linked, toCode, ghosts>>
        /\ Forms /\ Alone
    BY DEF OnRequest, Good
  <1>2. PICK kind \in {"wakeup", "request"} : Gets(kind) /\ reading' = Append(reading, kind)
    BY DEF OnRequest
  <1>3. /\ IsSeq(toChrome') /\ Of(toChrome', "merged") = Of(toChrome, "merged")
        /\ IsSeq(reading') /\ reading' # <<>>
    BY <1>1, <1>2, TakenByChrome, AppendElements DEF Forms
  <1>4. /\ Read' = Read /\ Returned' = Returned /\ Alone' /\ (Acting' <=> Acting)
        /\ Merged' = Merged /\ Elements(writes') = Elements(writes)
    BY <1>1, <1>3 DEF Read, Returned, Alone, Acting, Merged, store
  <1>5. Pulled' /\ Awaited'
    BY <1>3 DEF Pulled, Pulling, Awaited
  <1> QED
    BY <1>1, <1>3, <1>4, <1>5, Background DEF store, Forms

LEMMA SendStateGood ==
  ASSUME Good, SendState
  PROVE  Good'
  <1>1. /\ UNCHANGED <<code, store, page, merging, linked, toChrome, ghosts>>
        /\ reading # <<>> /\ reading' = Tail(reading)
        /\ Forms /\ Alone /\ linked
    BY DEF SendState, Good, Upright
  <1>2. PICK f : f.kind = "sync" /\ f.state = page /\ Send(<<f>>)
    <2>1. /\ Send(<<[kind |-> "sync", state |-> page]>>)
          /\ [kind |-> "sync", state |-> page].kind = "sync"
          /\ [kind |-> "sync", state |-> page].state = page
      BY DEF SendState
    <2> QED
      BY <2>1
  <1>3. /\ IsSeq(<<f>>) /\ Kinds(<<f>>) = {"sync"}
        /\ Of(<<f>>, "sync") = {page} /\ Of(<<f>>, "returned") = {}
    BY <1>2, OneFrame
  <1>4. /\ IsSeq(toCode') /\ Alone' /\ (Acting' <=> Acting)
        /\ Acting => Head(toCode') = Head(toCode)
        /\ Read' = Read \cup {page} /\ Returned' = Returned
    BY <1>1, <1>2, <1>3, AddedForCode DEF Forms
  <1>5. IsSeq(reading') /\ Merged' = Merged /\ Elements(writes') = Elements(writes)
    BY <1>1, TailElements DEF Forms, Merged, store
  <1>6. Pulled' /\ Awaited'
    BY <1>4 DEF Pulled, Pulling, Awaited
  <1> QED
    BY <1>1, <1>4, <1>5, <1>6, Background DEF store, Forms

LEMMA MergedGood ==
  ASSUME Good, OnMerged
  PROVE  Good'
  <1>1. /\ UNCHANGED <<code, store, page, reading, linked, toCode, ghosts>>
        /\ Forms /\ Alone /\ Gets("merged")
    BY DEF OnMerged, Good
  <1>2. PICK m : m.state = Head(toChrome).state /\ merging' = Append(merging, m)
    <2>1. /\ merging' = Append(merging, [job |-> Head(asked), state |-> Head(toChrome).state])
          /\ [job |-> Head(asked), state |-> Head(toChrome).state].state = Head(toChrome).state
      BY DEF OnMerged
    <2> QED
      BY <2>1
  <1>3. /\ IsSeq(toChrome') /\ Kinds(toChrome) = {"merged"} \cup Kinds(toChrome')
        /\ Of(toChrome, "merged") = Of(toChrome', "merged") \cup {Head(toChrome).state}
    BY <1>1, TakenByChrome DEF Forms
  <1>4. IsSeq(merging') /\ Elements(merging') = Elements(merging) \cup {m}
    BY <1>1, <1>2, AppendElements DEF Forms
  <1>5. Merged' = Merged
    BY <1>2, <1>3, <1>4 DEF Merged
  <1>6. /\ Read' = Read /\ Returned' = Returned /\ Alone' /\ (Acting' <=> Acting)
        /\ Elements(writes') = Elements(writes)
    BY <1>1 DEF Read, Returned, Alone, Acting, store
  <1>7. Pulled => Pulled'
    BY <1>1, <1>3, <1>6 DEF Pulled, Pulling
  <1>8. Awaited => Awaited'
    BY <1>5, <1>6, <1>7 DEF Awaited
  <1> QED
    BY <1>1, <1>3, <1>4, <1>5, <1>6, <1>7, <1>8, Background DEF store, Forms

LEMMA FailedGood ==
  ASSUME Good, OnFailed
  PROVE  Good'
  <1>1. /\ UNCHANGED <<code, store, page, reading, merging, linked, ghosts>>
        /\ Forms /\ Alone /\ linked /\ Gets("failed")
    BY DEF OnFailed, Good, Upright
  <1>2. PICK frames : /\ Send(frames) /\ IsSeq(frames) /\ "action" \notin Kinds(frames)
                      /\ Of(frames, "sync") = {} /\ Of(frames, "returned") = {}
    <2>1. CASE Head(asked) = "request"
      <3>1. PICK f : f.kind = "notReturned" /\ Send(<<f>>)
        <4>1. /\ Send(<<[kind |-> "notReturned"]>>)
              /\ [kind |-> "notReturned"].kind = "notReturned"
          BY <2>1 DEF OnFailed
        <4> QED
          BY <4>1
      <3>2. /\ IsSeq(<<f>>) /\ Kinds(<<f>>) = {"notReturned"}
            /\ Of(<<f>>, "sync") = {} /\ Of(<<f>>, "returned") = {}
        BY <3>1, OneFrame
      <3> QED
        BY <3>1, <3>2
    <2>2. CASE Head(asked) # "request"
      <3>1. Send(<<>>)
        BY <2>2 DEF OnFailed
      <3>2. /\ IsSeq(<<>>) /\ Kinds(<<>>) = {}
            /\ Of(<<>>, "sync") = {} /\ Of(<<>>, "returned") = {}
        BY OneFrame
      <3> QED
        BY <3>1, <3>2
    <2> QED
      BY <2>1, <2>2
  <1>3. /\ IsSeq(toCode') /\ Alone' /\ (Acting' <=> Acting)
        /\ Acting => Head(toCode') = Head(toCode)
        /\ Read' = Read /\ Returned' = Returned
    BY <1>1, <1>2, AddedForCode DEF Forms
  <1>4. /\ IsSeq(toChrome') /\ Kinds(toChrome) = {"failed"} \cup Kinds(toChrome')
        /\ Of(toChrome, "merged") = Of(toChrome', "merged")
    BY <1>1, TakenByChrome DEF Forms
  <1>5. Merged' = Merged /\ Elements(writes') = Elements(writes)
    BY <1>1, <1>4 DEF Merged, store
  <1>6. Pulled => Pulled'
    BY <1>1, <1>3, <1>4, <1>5 DEF Pulled, Pulling
  <1>7. Awaited => Awaited'
    BY <1>5, <1>6 DEF Awaited
  <1> QED
    BY <1>1, <1>3, <1>4, <1>5, <1>6, <1>7, Background DEF store, Forms

-----------------------------------------------------------------------------
(* The steps that change a replica.                                        *)

\* The stores become a merged state: every thread follows, so it is what VS Code has.
LEMMA ReplaceGood ==
  ASSUME Good, ReplaceStores
  PROVE  Good'
  <1> DEFINE m == Head(merging)
  <1>1. /\ UNCHANGED <<code, store, reading, linked, toChrome, ghosts>>
        /\ merging # <<>> /\ merging' = Tail(merging) /\ page' = m.state
        /\ Forms /\ Alone /\ linked
    BY DEF ReplaceStores, Good, Upright
  <1>2. IsSeq(merging') /\ Elements(merging) = {m} \cup Elements(merging')
    BY <1>1, TailElements DEF Forms
  <1>3. m.state \in Merged /\ Merged' \subseteq Merged
    BY <1>1, <1>2 DEF Merged
  <1>4. PICK frames : /\ Send(frames) /\ IsSeq(frames) /\ "action" \notin Kinds(frames)
                      /\ Of(frames, "sync") = {} /\ Of(frames, "returned") \subseteq {m.state}
    <2>1. CASE m.job = "request"
      <3>1. PICK f : f.kind = "returned" /\ f.state = m.state /\ Send(<<f>>)
        <4>1. /\ Send(<<[kind |-> "returned", state |-> m.state]>>)
              /\ [kind |-> "returned", state |-> m.state].kind = "returned"
              /\ [kind |-> "returned", state |-> m.state].state = m.state
          BY <2>1 DEF ReplaceStores
        <4> QED
          BY <4>1
      <3>2. /\ IsSeq(<<f>>) /\ Kinds(<<f>>) = {"returned"}
            /\ Of(<<f>>, "sync") = {} /\ Of(<<f>>, "returned") = {m.state}
        BY <3>1, OneFrame
      <3> QED
        BY <3>1, <3>2
    <2>2. CASE m.job # "request"
      <3>1. Send(<<>>)
        BY <2>2 DEF ReplaceStores
      <3>2. /\ IsSeq(<<>>) /\ Kinds(<<>>) = {}
            /\ Of(<<>>, "sync") = {} /\ Of(<<>>, "returned") = {}
        BY OneFrame
      <3> QED
        BY <3>1, <3>2
    <2> QED
      BY <2>1, <2>2
  <1> HIDE DEF m
  <1>5. /\ IsSeq(toCode') /\ Alone' /\ (Acting' <=> Acting)
        /\ Read' = Read /\ Returned' \subseteq Returned \cup {m.state}
    BY <1>1, <1>4, AddedForCode DEF Forms
  <1>6. \A t \in Threads : Follows(t) /\ ~Overruled(t) /\ ~Forwarded(t)
    BY <1>3 DEF Good, Staged, Overruled, Forwarded
  <1>7. Export' = Export /\ Export \in Views
    BY <1>1, ExportKept, ExportForm DEF code
  <1>8. ASSUME NEW t \in Threads PROVE page'[t] = Export[t]
    BY <1>1, <1>3, <1>6 DEF Follows
  <1>9. ASSUME NEW t \in Threads PROVE Follows(t)'
    <2>1. \A state \in Merged' \cup Returned' :
            state \in Merged \cup Returned \/ state[t] = Export[t]
      BY <1>3, <1>5
    <2>2. \A state \in Read' \cup {page'} :
            state \in Read \cup {page} \/ state[t] = Export[t]
      BY <1>5, <1>8
    <2>3. /\ Follows(t) /\ Export'[t] = Export[t] /\ UNCHANGED <<want, byUser>>
          /\ page'[t] = Export[t]
      BY <1>1, <1>6, <1>7, <1>8 DEF ghosts
    <2> QED
      BY <2>1, <2>2, <2>3, FollowsKept
  <1>10. ~Acting'
    BY <1>5, <1>6 DEF Good, Aimed
  <1>11. Staged' /\ Aimed'
    BY <1>9, <1>10 DEF Staged, Aimed
  <1>12. Forms'
    BY <1>1, <1>2, <1>3, <1>5 DEF Forms, code, ghosts, store
  <1>13. Upright' /\ Marked' /\ Unborn'
    BY <1>1, <1>7, <1>8 DEF Good, Upright, Marked, Unborn, code, ghosts, store
  <1> QED
    BY <1>5, <1>11, <1>12, <1>13 DEF Good

\* What applying a state does to one thread when no thread is volatile.
LEMMA ApplyAt ==
  ASSUME NEW state, Apply(state), volatile = {}, NEW t \in Threads
  PROVE  /\ repo'[t] = IF state[t] \notin {"none", "deleted"} /\ t \notin tombs THEN state[t]
                       ELSE IF state[t] = "none" /\ t \in tombs THEN "none" ELSE repo[t]
         /\ t \in tombs' <=> state[t] # "none" /\ (t \in tombs \/ state[t] = "deleted")
         /\ t \in volatile' => state[t] \notin {"none", "deleted"} /\ t \notin tombs
                               /\ repo[t] = "none"
  BY DEF Apply

LEMMA ApplyForm ==
  ASSUME NEW state \in Views, Apply(state), volatile = {}, Forms
  PROVE  /\ repo' \in [Threads -> Statuses \cup {"none"}]
         /\ tombs' \subseteq Threads /\ volatile' \subseteq Threads
  <1>1. repo' = [t \in Threads |-> repo'[t]] /\ tombs' \subseteq Threads /\ volatile' \subseteq Threads
    BY DEF Apply, Forms
  <1>2. ASSUME NEW t \in Threads PROVE repo'[t] \in Statuses \cup {"none"}
    BY <1>2, ApplyAt DEF Forms, Views, Copies
  <1> QED
    BY <1>1, <1>2

LEMMA ApplyFollows ==
  ASSUME NEW state \in Views, Apply(state), volatile = {}, Forms, Marked, NEW t \in Threads,
         state[t] \in {Export[t]} \cup Older(Export[t])
  PROVE  /\ repo'[t] = repo[t] /\ (t \in tombs' <=> t \in tombs) /\ t \notin volatile'
         /\ Export'[t] = Export[t]
  <1>1. Export[t] = IF t \in tombs THEN "deleted" ELSE repo[t]
    BY ExportIs
  <1>2. repo[t] \in Statuses \cup {"none"}
    BY DEF Forms
  <1>3. repo'[t] = repo[t] /\ (t \in tombs' <=> t \in tombs) /\ t \notin volatile'
    <2>1. CASE t \in tombs
      <3>1. state[t] \in {"deleted"} \cup Statuses /\ repo[t] = "none"
        BY <1>1, <2>1 DEF Older, Statuses, Marked
      <3> QED
        BY <2>1, <3>1, ApplyAt DEF Statuses
    <2>2. CASE t \notin tombs
      <3>1. state[t] \in {repo[t], "none"}
        BY <1>1, <1>2, <2>2 DEF Older, Statuses
      <3> QED
        BY <1>2, <2>2, <3>1, ApplyAt DEF Statuses
    <2> QED
      BY <2>1, <2>2
  <1>4. Export'[t] = IF t \in tombs' THEN "deleted" ELSE repo'[t]
    BY DEF Export, Shown
  <1> QED
    BY <1>1, <1>3, <1>4

LEMMA SyncGood ==
  ASSUME Good, OnSync
  PROVE  Good'
  <1> DEFINE state == Head(toCode).state
  <1>1. /\ UNCHANGED <<poisoned, chrome, linked, toChrome, ghosts>>
        /\ Asks("sync") /\ Apply(state) /\ writes' = Append(writes, "sync")
        /\ Forms /\ Alone /\ Marked /\ volatile = {}
    BY DEF OnSync, Persist, Good, Upright
  <1> HIDE DEF state
  <1>2. /\ IsSeq(toCode') /\ Alone' /\ ~Acting' /\ ~Acting
        /\ Read = Read' \cup {state} /\ Returned' = Returned
    BY <1>1, TakenByCode DEF Forms, state
  <1>3. /\ IsSeq(writes') /\ "sync" \in Elements(writes')
        /\ Merged' = Merged /\ Awaited' /\ state \in Views
    BY <1>1, <1>2, AppendElements DEF Forms, Merged, chrome, Awaited
  <1>4. /\ repo' \in [Threads -> Statuses \cup {"none"}]
        /\ tombs' \subseteq Threads /\ volatile' \subseteq Threads
    BY <1>1, <1>3, ApplyForm
  <1>5. ASSUME NEW t \in Threads, Follows(t)
        PROVE  /\ Follows(t)' /\ Export'[t] = Export[t] /\ t \notin volatile'
               /\ t \in tombs' => repo'[t] = "none"
    <2>1. state[t] \in {Export[t]} \cup Older(Export[t])
      BY <1>2, <1>5 DEF Follows
    <2>2. /\ repo'[t] = repo[t] /\ (t \in tombs' <=> t \in tombs) /\ t \notin volatile'
          /\ Export'[t] = Export[t]
      BY <1>1, <1>3, <2>1, ApplyFollows
    <2>3. UNCHANGED <<want, byUser, page>>
      BY <1>1 DEF ghosts, chrome
    <2>4. Follows(t)'
      BY <1>2, <1>3, <1>5, <2>2, <2>3, FollowsKept
    <2> QED
      BY <1>1, <2>2, <2>4 DEF Marked
  <1>6. ASSUME NEW t \in Threads, Overruled(t)
        PROVE  /\ Follows(t)' /\ t \notin volatile' /\ t \notin tombs' /\ Export[t] # "none"
    <2>1. /\ state[t] = page[t] /\ page[t] \in Statuses /\ t \notin tombs /\ repo[t] \in Statuses
          /\ Merged = {} /\ Returned = {} /\ want[t] \in Statuses /\ t \notin byUser
          /\ \A s \in Read : s[t] = page[t]
      BY <1>2, <1>6 DEF Overruled
    <2>2. repo'[t] = page[t] /\ t \notin tombs' /\ t \notin volatile'
      BY <1>1, <2>1, ApplyAt DEF Statuses
    <2>3. Export'[t] = page[t]
      BY <2>2 DEF Export, Shown
    <2>4. UNCHANGED <<want, byUser, page>>
      BY <1>1 DEF ghosts, chrome
    <2>5. Follows(t)'
      BY <1>2, <1>3, <2>1, <2>3, <2>4 DEF Follows, Statuses
    <2>6. Export[t] # "none"
      BY <2>1, ExportIs DEF Statuses
    <2> QED
      BY <2>2, <2>5, <2>6
  <1>7. \A t \in Threads : Follows(t) \/ Overruled(t)
    BY <1>2 DEF Good, Staged, Forwarded
  <1>8. volatile' = {} /\ Marked' /\ Staged' /\ Aimed'
    BY <1>2, <1>4, <1>5, <1>6, <1>7 DEF Marked, Staged, Aimed
  <1>9. Unborn'
    <2>1. ASSUME NEW t \in Threads \ born PROVE Export'[t] = "none" /\ page'[t] = "none"
      BY <1>1, <1>5, <1>6, <1>7, <2>1 DEF Good, Unborn, chrome
    <2> QED
      BY <1>1, <2>1 DEF Unborn, ghosts
  <1>10. Forms'
    BY <1>1, <1>2, <1>3, <1>4 DEF Forms, chrome, ghosts
  <1>11. Upright'
    BY <1>1, <1>8 DEF Good, Upright
  <1> QED
    BY <1>2, <1>8, <1>9, <1>10, <1>11 DEF Good

LEMMA ReturnedGood ==
  ASSUME Good, OnReturned
  PROVE  Good'
  <1>1. CASE UNCHANGED <<code, writes>>
    BY <1>1, NotReturnedGood
  <1>2. CASE Apply(Head(toCode).state) /\ Persist("merged")
    <2> DEFINE state == Head(toCode).state
    <2>1. /\ UNCHANGED <<poisoned, chrome, linked, toChrome, ghosts>>
          /\ Asks("returned") /\ Apply(state) /\ writes' = Append(writes, "merged")
          /\ Forms /\ Alone /\ Marked /\ volatile = {}
      BY <1>2 DEF OnReturned, Persist, Good, Upright
    <2> HIDE DEF state
    <2>2. /\ IsSeq(toCode') /\ Alone' /\ ~Acting' /\ ~Acting
          /\ Read' = Read /\ Returned = Returned' \cup {state}
      BY <2>1, TakenByCode DEF Forms, state
    <2>3. IsSeq(writes') /\ Elements(writes') = Elements(writes) \cup {"merged"}
      BY <2>1, AppendElements DEF Forms
    <2>4. Merged' = Merged /\ state \in Views
      BY <2>1, <2>2 DEF Forms, Merged, chrome
    <2>5. \A t \in Threads : Follows(t)
      BY <2>2 DEF Good, Staged, Overruled, Forwarded
    <2>6. ASSUME NEW t \in Threads
          PROVE  repo'[t] = repo[t] /\ (t \in tombs' <=> t \in tombs) /\ t \notin volatile'
      <3>1. state[t] \in {Export[t]} \cup Older(Export[t])
        BY <2>2, <2>5 DEF Follows
      <3> QED
        BY <2>1, <2>4, <3>1, ApplyFollows
    <2>7. /\ repo' \in [Threads -> Statuses \cup {"none"}]
          /\ tombs' \subseteq Threads /\ volatile' \subseteq Threads
      BY <2>1, <2>4, ApplyForm
    <2>8. UNCHANGED code
      <3>1. repo' = repo
        BY <2>1, <2>6, <2>7 DEF Forms
      <3>2. tombs' = tombs /\ volatile' = volatile
        BY <2>1, <2>6, <2>7 DEF Forms
      <3> QED
        BY <3>1, <3>2 DEF code
    <2>9. Pulled => Pulled'
      BY <2>1, <2>2, <2>3 DEF Pulled, Pulling, chrome
    <2>10. Awaited => Awaited'
      BY <2>3, <2>4, <2>9 DEF Awaited
    <2> QED
      BY <2>1, <2>2, <2>3, <2>4, <2>5, <2>8, <2>9, <2>10, Background DEF chrome, Forms
  <1> QED
    BY <1>1, <1>2 DEF OnReturned

\* A user's change reaches VS Code, which takes it.
LEMMA ActionTaken ==
  ASSUME Good, OnAction, NEW t \in Threads, Forwarded(t)
  PROVE  /\ Persist("chrome")
         /\ repo' \in [Threads -> Statuses \cup {"none"}] /\ tombs' \subseteq Threads
         /\ volatile' = {} /\ Marked'
         /\ Export'[t] = page[t]
         /\ \A u \in Threads \ {t} : repo'[u] = repo[u] /\ (u \in tombs' <=> u \in tombs)
  <1> DEFINE op == Head(toCode).op
  <1>1. /\ Does(op, Export[t], page[t]) /\ Head(toCode).thread = t
        /\ repo \in [Threads -> Statuses \cup {"none"}] /\ tombs \subseteq Threads
        /\ volatile = {} /\ Marked
    BY DEF Forwarded, Good, Forms, Upright
  <1>2. Export[t] = IF t \in tombs THEN "deleted" ELSE repo[t]
    BY ExportIs
  <1>3. \/ op = "create"   /\ CanCreate(t)  /\ Create(t) /\ Persist("chrome")
        \/ op = "resolved" /\ CanResolve(t) /\ SetStatus(t, "resolved") /\ Persist("chrome")
        \/ op = "open"     /\ CanReopen(t)  /\ SetStatus(t, "open") /\ Persist("chrome")
        \/ op = "delete"   /\ CanDelete(t)  /\ Delete(t) /\ Persist("chrome")
        \/ ~ \/ op = "create"   /\ CanCreate(t)
             \/ op = "resolved" /\ CanResolve(t)
             \/ op = "open"     /\ CanReopen(t)
             \/ op = "delete"   /\ CanDelete(t)
    BY <1>1 DEF OnAction
  <1>4. Export'[t] = IF t \in tombs' THEN "deleted" ELSE repo'[t]
    BY DEF Export, Shown
  <1> HIDE DEF op
  <1>5. CASE op = "create" /\ Export[t] = "none" /\ page[t] = "open"
    <2>1. repo[t] = "none" /\ t \notin tombs
      BY <1>2, <1>5
    <2>2. Create(t) /\ Persist("chrome")
      BY <1>3, <1>5, <2>1 DEF CanCreate
    <2>3. repo' = [repo EXCEPT ![t] = "open"] /\ volatile' = {} /\ tombs' = tombs
      BY <1>1, <2>2 DEF Create
    <2> QED
      BY <1>1, <1>4, <1>5, <2>1, <2>2, <2>3 DEF Statuses, Marked
  <1>6. CASE op \in Statuses /\ Export[t] \in Statuses \ {op} /\ page[t] = op
    <2>1. repo[t] \in Statuses \ {op} /\ t \notin tombs
      BY <1>2, <1>6 DEF Statuses
    <2>2. SetStatus(t, op) /\ Persist("chrome")
      BY <1>3, <1>6, <2>1 DEF CanResolve, CanReopen, Statuses
    <2>3. repo' = [repo EXCEPT ![t] = op] /\ volatile' = {} /\ tombs' = tombs
      BY <1>1, <2>2 DEF SetStatus
    <2> QED
      BY <1>1, <1>4, <1>6, <2>1, <2>2, <2>3 DEF Statuses, Marked
  <1>7. CASE op = "delete" /\ Export[t] \in Statuses /\ page[t] = "deleted"
    <2>1. repo[t] # "none" /\ t \notin tombs
      BY <1>2, <1>7 DEF Statuses
    <2>2. Delete(t) /\ Persist("chrome")
      BY <1>3, <1>7, <2>1 DEF CanDelete
    <2>3. repo' = [repo EXCEPT ![t] = "none"] /\ volatile' = {} /\ tombs' = tombs \cup {t}
      BY <1>1, <2>2 DEF Delete
    <2> QED
      BY <1>1, <1>4, <1>7, <2>1, <2>2, <2>3 DEF Marked
  <1> QED
    BY <1>1, <1>5, <1>6, <1>7 DEF Does

LEMMA ActionGood ==
  ASSUME Good, OnAction
  PROVE  Good'
  <1>1. /\ UNCHANGED <<poisoned, chrome, linked, toChrome, ghosts>> /\ Asks("action")
        /\ Forms /\ Alone
    BY DEF OnAction, Good
  <1>2. Acting
    BY <1>1 DEF Asks, Acting
  <1>3. PICK t \in Threads : Forwarded(t)
    BY <1>2 DEF Good, Aimed
  <1>4. /\ Merged = {} /\ Returned = {} /\ writes = <<>> /\ Head(toCode).thread = t
        /\ want[t] = InChrome(t) /\ Does(Head(toCode).op, Export[t], page[t])
        /\ \A state \in Read : state[t] = page[t]
    BY <1>3 DEF Forwarded
  <1>5. /\ writes' = Append(writes, "chrome")
        /\ repo' \in [Threads -> Statuses \cup {"none"}] /\ tombs' \subseteq Threads
        /\ volatile' = {} /\ Marked' /\ Export'[t] = page[t]
        /\ \A u \in Threads \ {t} : repo'[u] = repo[u] /\ (u \in tombs' <=> u \in tombs)
    BY <1>3, ActionTaken DEF Persist
  <1>6. /\ IsSeq(toCode') /\ Alone' /\ ~Acting' /\ Read' = Read /\ Returned' = {}
    <2>1. IsSeq(toCode)
      BY <1>1 DEF Forms
    <2>2. IsSeq(toCode') /\ Alone' /\ ~Acting' /\ Read = Read' /\ Returned = Returned'
      BY <1>1, <2>1, TakenByCode
    <2> QED
      BY <1>4, <2>2
  <1>7. /\ IsSeq(writes') /\ Elements(writes') = {"chrome"} /\ Merged' = {}
    <2>1. IsSeq(writes) /\ Elements(writes) = {}
      BY <1>1, <1>4, SmallSeqs DEF Forms
    <2>2. IsSeq(writes') /\ Elements(writes') = {"chrome"}
      BY <1>5, <2>1, AppendElements
    <2> QED
      BY <1>1, <1>4, <2>2 DEF Merged, chrome
  <1>8. Elements(writes) = {}
    BY <1>4, SmallSeqs
  <1>9. (Pulled => Pulled') /\ (Awaited => Awaited')
    BY <1>1, <1>4, <1>6, <1>7, <1>8 DEF Pulled, Pulling, Awaited, chrome
  <1>10. UNCHANGED <<page, want, byUser, born>>
    BY <1>1 DEF chrome, ghosts
  <1>11. Follows(t)'
    <2>1. page[t] \in Statuses \cup {"deleted"}
      BY <1>4 DEF Does, Statuses
    <2>2. want[t] = IF page[t] = "deleted" THEN "none" ELSE page[t]
      BY <1>4 DEF InChrome
    <2> QED
      BY <1>4, <1>5, <1>6, <1>7, <1>10, <2>1, <2>2 DEF Follows, Statuses
  <1>12. ASSUME NEW u \in Threads \ {t}
         PROVE  (Follows(u)' \/ Overruled(u)') /\ Export'[u] = Export[u]
    <2>1. repo'[u] = repo[u] /\ (u \in tombs' <=> u \in tombs)
      BY <1>5
    <2>2. Export'[u] = IF u \in tombs' THEN "deleted" ELSE repo'[u]
      BY DEF Export, Shown
    <2>3. Export'[u] = Export[u]
      BY <2>1, <2>2, ExportIs
    <2>4. ASSUME Follows(u) PROVE Follows(u)'
      BY <1>6, <1>7, <1>9, <1>10, <2>3, <2>4, FollowsKept
    <2>5. ASSUME Overruled(u) PROVE Overruled(u)'
      <3>1. Pulled'
        BY <1>9, <2>5 DEF Overruled
      <3> QED
        BY <1>6, <1>7, <1>10, <2>1, <2>5, <3>1, OverruledKept
    <2>6. ~Forwarded(u)
      BY <1>4 DEF Forwarded
    <2> QED
      BY <2>3, <2>4, <2>5, <2>6 DEF Good, Staged
  <1>13. Staged' /\ Aimed'
    BY <1>6, <1>11, <1>12 DEF Staged, Aimed
  <1>14. Unborn'
    <2>1. page[t] # "none"
      BY <1>4 DEF Does, Statuses
    <2> QED
      BY <1>10, <1>12, <2>1 DEF Good, Unborn
  <1>15. Forms'
    BY <1>1, <1>5, <1>6, <1>7, <1>10 DEF Forms, chrome, ghosts
  <1>16. Upright'
    BY <1>1, <1>5 DEF Good, Upright
  <1> QED
    BY <1>5, <1>6, <1>13, <1>14, <1>15, <1>16 DEF Good

-----------------------------------------------------------------------------
(* Changes, which are made when nothing is on its way.                     *)

LEMMA AtQuiet ==
  ASSUME Good, Quiet
  PROVE  /\ Read = {} /\ Returned = {} /\ Merged = {} /\ ~Acting
         /\ \A t \in Threads : Follows(t) /\ page[t] = Export[t]
  <1>1. /\ writes = <<>> /\ reading = <<>> /\ merging = <<>>
        /\ toChrome = <<>> /\ toCode = <<>>
    BY DEF Quiet
  <1>2. /\ Elements(writes) = {} /\ Elements(merging) = {} /\ Kinds(toChrome) = {}
        /\ Of(toChrome, "merged") = {} /\ Of(toCode, "sync") = {} /\ Of(toCode, "returned") = {}
    BY <1>1, SmallSeqs, OneFrame
  <1>3. Read = {} /\ Returned = {} /\ Merged = {} /\ ~Acting
    BY <1>1, <1>2 DEF Read, Returned, Merged, Acting
  <1>4. ~Pulled /\ ~Awaited
    BY <1>1, <1>2, <1>3 DEF Pulled, Pulling, Awaited
  <1>5. \A t \in Threads : Follows(t)
    BY <1>3, <1>4 DEF Good, Staged, Overruled, Forwarded
  <1> QED
    BY <1>3, <1>4, <1>5 DEF Follows

\* A thread that a change leaves alone.
LEMMA OtherFollows ==
  ASSUME Good, Quiet, NEW t \in Threads,
         Read' = {}, Returned' = {}, Merged' = {},
         Export'[t] = Export[t], page'[t] = page[t], want'[t] = want[t],
         t \in byUser' <=> t \in byUser
  PROVE  Follows(t)'
  <1>1. Follows(t) /\ page[t] = Export[t]
    BY AtQuiet
  <1> QED
    BY <1>1 DEF Follows

LEMMA AgentGood ==
  ASSUME Good, Quiet, NEW t \in Threads, Persist("agent"), UNCHANGED <<poisoned, chrome, net>>,
         NEW copy \in Statuses \cup {"none"}, repo' = [repo EXCEPT ![t] = copy],
         NEW status \in Statuses \cup {"none"}, want' = [want EXCEPT ![t] = status],
         tombs' \in {tombs, tombs \cup {t}}, volatile' = volatile \ {t} \/ volatile' = volatile,
         t \in tombs' => copy = "none", born' \in {born, born \cup {t}}, t \in born' \/ born' = born,
         byUser' = byUser \ {t}, t \notin born' => Export'[t] = "none",
         /\ Read' = {} /\ Returned' = {} /\ Merged' = {} /\ Elements(writes') = {"agent"}
            => Follows(t)' \/ Overruled(t)'
  PROVE  Good'
  <1>1. /\ Read = {} /\ Returned = {} /\ Merged = {} /\ ~Acting
        /\ \A u \in Threads : Follows(u) /\ page[u] = Export[u]
    BY AtQuiet
  <1>2. Forms /\ writes = <<>> /\ writes' = Append(writes, "agent")
    BY DEF Good, Quiet, Persist
  <1>3. IsSeq(writes') /\ Elements(writes') = {"agent"}
    BY <1>2, AppendElements, SmallSeqs DEF Forms
  <1>4. Read' = {} /\ Returned' = {} /\ Merged' = {} /\ ~Acting' /\ Alone'
    BY <1>1 DEF Read, Returned, Merged, Acting, Alone, Good, chrome, net
  <1>5. ASSUME NEW u \in Threads \ {t}
        PROVE  Follows(u)' /\ Export'[u] = Export[u] /\ (u \in tombs' <=> u \in tombs)
    <2>1. repo'[u] = repo[u] /\ (u \in tombs' <=> u \in tombs)
      BY <1>2 DEF Forms
    <2>2. Export'[u] = IF u \in tombs' THEN "deleted" ELSE repo'[u]
      BY DEF Export, Shown
    <2>3. Export'[u] = Export[u]
      BY <2>1, <2>2, ExportIs
    <2>4. page'[u] = page[u] /\ want'[u] = want[u] /\ (u \in byUser' <=> u \in byUser)
      BY <1>2 DEF Forms, chrome
    <2> QED
      BY <1>4, <2>1, <2>3, <2>4, OtherFollows
  <1>6. Staged' /\ Aimed'
    BY <1>3, <1>4, <1>5 DEF Staged, Aimed
  <1>7. Forms'
    BY <1>2, <1>3, <1>4 DEF Forms, chrome, net
  <1>8. Upright'
    BY DEF Good, Upright, net
  <1>9. Marked'
    BY <1>2 DEF Good, Marked, Forms
  <1>10. Unborn'
    <2>1. page' = page
      BY DEF chrome
    <2>2. ASSUME NEW u \in Threads \ born' PROVE Export'[u] = "none" /\ page'[u] = "none"
      <3>1. u \in Threads \ born
        BY <2>2
      <3> QED
        BY <1>5, <2>1, <2>2, <3>1 DEF Good, Unborn
    <2> QED
      BY <2>2 DEF Unborn
  <1> QED
    BY <1>4, <1>6, <1>7, <1>8, <1>9, <1>10 DEF Good

LEMMA AgentChanges ==
  ASSUME Good, Quiet, NEW t \in Threads, NEW status \in Statuses,
         AgentCreates(t) \/ AgentSets(t, status) \/ AgentDeletes(t)
  PROVE  Good'
  <1>1. /\ Follows(t) /\ page[t] = Export[t] /\ Forms /\ Marked /\ Unborn
        /\ Export[t] = IF t \in tombs THEN "deleted" ELSE repo[t]
        /\ repo[t] \in Statuses \cup {"none"} /\ want \in [Threads -> Statuses \cup {"none"}]
    BY AtQuiet, ExportIs DEF Good, Forms
  <1>2. /\ Persist("agent") /\ UNCHANGED <<poisoned, chrome, net>> /\ byUser' = byUser \ {t}
    BY DEF AgentCreates, AgentSets, AgentDeletes
  <1>3. page' = page
    BY <1>2 DEF chrome
  <1>4. Export'[t] = IF t \in tombs' THEN "deleted" ELSE repo'[t]
    BY DEF Export, Shown
  <1>5. Elements(writes') = {"agent"} => Pulled' /\ Awaited'
    BY DEF Pulled, Awaited
  <1>6. CASE AgentCreates(t)
    <2>1. /\ repo' = [repo EXCEPT ![t] = "open"] /\ volatile' = volatile \ {t} /\ tombs' = tombs
          /\ want' = [want EXCEPT ![t] = "open"] /\ t \notin born /\ born' = born \cup {t}
      BY <1>6 DEF AgentCreates, Create
    <2>2. Export[t] = "none" /\ t \notin tombs
      BY <1>1, <2>1 DEF Unborn
    <2>3. Export'[t] = "open" /\ want'[t] = "open"
      BY <1>1, <1>4, <2>1, <2>2 DEF Forms
    <2>4. /\ Read' = {} /\ Returned' = {} /\ Merged' = {} /\ Elements(writes') = {"agent"}
          => Follows(t)'
      BY <1>1, <1>2, <1>3, <1>5, <2>2, <2>3 DEF Follows, Older, Statuses
    <2>5. "open" \in Statuses
      BY DEF Statuses
    <2> QED
      BY <1>1, <1>2, <2>1, <2>2, <2>3, <2>4, <2>5, AgentGood
  <1>7. CASE AgentSets(t, status)
    <2>1. /\ repo' = [repo EXCEPT ![t] = status] /\ volatile' = volatile /\ tombs' = tombs
          /\ want' = [want EXCEPT ![t] = status] /\ born' = born
          /\ Shown(t) \in Statuses
      BY <1>7 DEF AgentSets, SetStatus
    <2>2. t \notin tombs /\ Export[t] \in Statuses
      BY <1>1, <2>1 DEF Shown, Statuses
    <2>3. repo'[t] = status /\ want'[t] = status /\ t \notin tombs'
      BY <1>1, <2>1, <2>2 DEF Forms
    <2>4. /\ Read' = {} /\ Returned' = {} /\ Merged' = {} /\ Elements(writes') = {"agent"}
          => Overruled(t)'
      BY <1>1, <1>2, <1>3, <1>5, <2>2, <2>3 DEF Overruled
    <2>5. t \in born
      BY <1>1, <2>2 DEF Unborn, Statuses
    <2> QED
      BY <1>1, <1>2, <2>1, <2>2, <2>3, <2>4, <2>5, AgentGood
  <1>8. CASE AgentDeletes(t)
    <2>1. /\ repo' = [repo EXCEPT ![t] = "none"] /\ volatile' = volatile \ {t}
          /\ tombs' = tombs \cup {t}
          /\ want' = [want EXCEPT ![t] = "none"] /\ born' = born
          /\ Shown(t) # "none"
      BY <1>8 DEF AgentDeletes, Delete
    <2>2. t \notin tombs /\ Export[t] \in Statuses
      BY <1>1, <2>1 DEF Shown, Statuses
    <2>3. Export'[t] = "deleted" /\ want'[t] = "none"
      BY <1>1, <1>4, <2>1 DEF Forms
    <2>4. /\ Read' = {} /\ Returned' = {} /\ Merged' = {} /\ Elements(writes') = {"agent"}
          => Follows(t)'
      BY <1>1, <1>2, <1>3, <1>5, <2>2, <2>3 DEF Follows, Older, Statuses
    <2>5. t \in born
      BY <1>1, <2>2 DEF Unborn, Statuses
    <2> QED
      BY <1>1, <1>2, <2>1, <2>2, <2>3, <2>4, <2>5, AgentGood
  <1> QED
    BY <1>6, <1>7, <1>8

\* What a user writes into a page store is forwarded, alone.
LEMMA UserGood ==
  ASSUME Good, Quiet, NEW t \in Threads, NEW op, NEW copy \in Copies \ {"none"},
         ForwardChange(t, op, copy), Does(op, Export[t], copy),
         born' \in {born, born \cup {t}}, t \in born'
  PROVE  Good'
  <1>1. /\ Read = {} /\ Returned = {} /\ Merged = {} /\ ~Acting
        /\ \A u \in Threads : Follows(u) /\ page[u] = Export[u]
    BY AtQuiet
  <1>2. /\ Forms /\ writes = <<>> /\ toCode = <<>> /\ linked
        /\ UNCHANGED <<code, store, reading, merging, linked, toChrome>>
        /\ page' = [page EXCEPT ![t] = copy] /\ byUser' = byUser \cup {t}
        /\ want' = [want EXCEPT ![t] = IF copy = "deleted" THEN "none" ELSE copy]
    BY DEF Good, Upright, Quiet, ForwardChange
  <1>3. PICK f : f.kind = "action" /\ f.op = op /\ f.thread = t /\ toCode' = toCode \o <<f>>
    <2> DEFINE g == [kind |-> "action", op |-> op, thread |-> t]
    <2>1. /\ toCode' = toCode \o <<g>>
          /\ g.kind = "action" /\ g.op = op /\ g.thread = t
      BY <1>2 DEF ForwardChange, Send
    <2> QED
      BY <2>1
  <1>4. /\ IsSeq(<<f>>) /\ Kinds(<<f>>) = {"action"}
        /\ Of(<<f>>, "sync") = {} /\ Of(<<f>>, "returned") = {}
    BY <1>3, OneFrame
  <1>5. toCode' = <<f>>
    <2>1. <<f>> \in Seq({f})
      OBVIOUS
    <2> QED
      BY <1>2, <1>3, <2>1, ConcatEmptySeq
  <1>6. /\ IsSeq(toCode') /\ Read' = {} /\ Returned' = {} /\ Merged' = {}
    BY <1>1, <1>2, <1>4, <1>5 DEF Read, Returned, Merged
  <1>7. DOMAIN <<f>> = {1} /\ Head(<<f>>) = f /\ <<f>> # <<>>
    OBVIOUS
  <1>8. Acting' /\ Head(toCode') = f /\ Alone'
    BY <1>3, <1>5, <1>7 DEF Acting, Alone
  <1>9. Export' = Export
    BY <1>2, ExportKept DEF code
  <1>10. page'[t] = copy /\ want'[t] = IF copy = "deleted" THEN "none" ELSE copy
    BY <1>2 DEF Forms, Views
  <1>11. Forwarded(t)'
    <2>1. writes' = <<>> /\ want'[t] = InChrome(t)'
      BY <1>2, <1>10 DEF store, InChrome
    <2>2. Does(Head(toCode').op, Export'[t], page'[t]) /\ Head(toCode').thread = t
      BY <1>3, <1>8, <1>9, <1>10
    <2> QED
      BY <1>6, <1>8, <2>1, <2>2 DEF Forwarded
  <1>12. ASSUME NEW u \in Threads \ {t} PROVE Follows(u)'
    <2>1. page'[u] = page[u] /\ want'[u] = want[u] /\ (u \in byUser' <=> u \in byUser)
      BY <1>2 DEF Forms, Views
    <2> QED
      BY <1>6, <1>9, <2>1, OtherFollows
  <1>13. Staged' /\ Aimed'
    BY <1>11, <1>12 DEF Staged, Aimed
  <1>14. Forms'
    <2>1. page' \in Views
      BY <1>2 DEF Forms, Views
    <2>2. want' \in [Threads -> Statuses \cup {"none"}]
      BY <1>2 DEF Forms, Copies
    <2> QED
      BY <1>2, <1>6, <2>1, <2>2 DEF Forms, code, store
  <1>15. Upright' /\ Marked'
    BY <1>2 DEF Good, Upright, Marked, code, store
  <1>16. Unborn'
    <2>1. ASSUME NEW u \in Threads \ born' PROVE Export'[u] = "none" /\ page'[u] = "none"
      <3>1. u \in Threads \ born /\ u # t
        BY <2>1
      <3>2. page'[u] = page[u]
        BY <1>2, <3>1 DEF Forms, Views
      <3> QED
        BY <1>9, <3>1, <3>2 DEF Good, Unborn
    <2> QED
      BY <2>1 DEF Unborn
  <1> QED
    BY <1>6, <1>8, <1>13, <1>14, <1>15, <1>16 DEF Good

LEMMA UserChanges ==
  ASSUME Good, Quiet, NEW t \in Threads, NEW status \in Statuses,
         UserCreates(t) \/ UserSets(t, status) \/ UserDeletes(t)
  PROVE  Good'
  <1>1. page[t] = Export[t] /\ Unborn
    BY AtQuiet DEF Good
  <1>2. CASE UserCreates(t)
    <2>1. t \notin born /\ born' = born \cup {t} /\ ForwardChange(t, "create", "open")
      BY <1>2 DEF UserCreates
    <2>2. Does("create", Export[t], "open") /\ "open" \in Copies \ {"none"}
      BY <1>1, <2>1 DEF Unborn, Does, Copies, Statuses
    <2> QED
      BY <2>1, <2>2, UserGood
  <1>3. ASSUME page[t] \in Statuses PROVE t \in born
    BY <1>1, <1>3 DEF Unborn, Statuses
  <1>4. CASE UserSets(t, status)
    <2>1. page[t] \in Statuses \ {status} /\ born' = born /\ ForwardChange(t, status, status)
      BY <1>4 DEF UserSets
    <2>2. Does(status, Export[t], status) /\ status \in Copies \ {"none"}
      BY <1>1, <2>1 DEF Does, Copies, Statuses
    <2> QED
      BY <1>3, <2>1, <2>2, UserGood
  <1>5. CASE UserDeletes(t)
    <2>1. page[t] \in Statuses /\ born' = born /\ ForwardChange(t, "delete", "deleted")
      BY <1>5 DEF UserDeletes
    <2>2. Does("delete", Export[t], "deleted") /\ "deleted" \in Copies \ {"none"}
      BY <1>1, <2>1 DEF Does, Copies, Statuses
    <2> QED
      BY <1>3, <2>1, <2>2, UserGood
  <1> QED
    BY <1>2, <1>4, <1>5

-----------------------------------------------------------------------------
(* The result.                                                             *)

LEMMA ScenarioStays ==
  ASSUME Used, [Next]_vars
  PROVE  Used' /\ Faults' = Faults
  <1>1. ASSUME NEW n \in Int, used' = [used EXCEPT !.faults = n] \/ used' = [used EXCEPT !.changes = n]
        PROVE  Used' /\ Faults' = Faults
    BY <1>1 DEF Used, Faults
  <1>2. ASSUME UNCHANGED used PROVE Used' /\ Faults' = Faults
    BY <1>2 DEF Used, Faults
  <1>3. used.faults - 1 \in Int /\ used.changes - 1 \in Int
    BY DEF Used
  <1>4. ASSUME Change PROVE Used' /\ Faults' = Faults
    <2>1. used' = [used EXCEPT !.changes = used.changes - 1]
      BY <1>4 DEF Change
    <2> QED
      BY <1>1, <1>3, <2>1
  <1>5. ASSUME NEW kind, Fault(kind) PROVE Used' /\ Faults' = Faults
    <2>1. used' = [used EXCEPT !.faults = used.faults - 1]
      BY <1>5 DEF Fault
    <2> QED
      BY <1>1, <1>3, <2>1
  <1>6. Change \/ (\E kind \in FaultKinds : Fault(kind)) \/ UNCHANGED used
    <2>1. ASSUME NEW t \in Threads, NEW status \in Statuses,
                 \/ AgentCreates(t) \/ AgentDeletes(t) \/ UserCreates(t) \/ UserDeletes(t)
                 \/ AgentSets(t, status) \/ UserSets(t, status)
          PROVE  Change
      BY <2>1 DEF AgentCreates, AgentDeletes, AgentSets, UserCreates, UserDeletes, UserSets,
                  ForwardChange
    <2>2. ASSUME WriteFails \/ CycleTimesOut \/ LinkLost \/ Reload
          PROVE  (\E kind \in FaultKinds : Fault(kind)) \/ UNCHANGED used
      BY <2>2 DEF WriteFails, CycleTimesOut, LinkLost, Reload, FaultKinds
    <2>3. ASSUME \/ WriteEncodes \/ WriteDone \/ OnSync \/ OnReturned \/ OnNotReturned \/ OnAction
                 \/ StartCycle \/ LinkBack \/ OnRequest \/ SendState \/ OnMerged \/ OnFailed
                 \/ ReplaceStores \/ UNCHANGED vars
          PROVE  UNCHANGED used
      BY <2>3 DEF WriteEncodes, WriteDone, OnSync, OnReturned, OnNotReturned, OnAction, StartCycle, LinkBack,
                  OnRequest, SendState, OnMerged, OnFailed, ReplaceStores, vars
    <2>4. "open" \in Statuses
      BY DEF Statuses
    <2> QED
      BY <2>1, <2>2, <2>3, <2>4 DEF Next
  <1> QED
    BY <1>2, <1>4, <1>5, <1>6

\* What the running write does with its own copy concerns nobody else.
LEMMA EncodesGood ==
  ASSUME Good, WriteEncodes \/ UNCHANGED vars
  PROVE  Good'
  <1>1. /\ UNCHANGED <<code, page, ghosts, linked, poisoned, writes, reading, merging>>
        /\ UNCHANGED <<toChrome, toCode>>
    BY DEF WriteEncodes, vars, store, chrome, net
  <1>2. /\ Read' = Read /\ Returned' = Returned /\ Alone' /\ (Acting' <=> Acting)
        /\ Merged' = Merged /\ Elements(writes') = Elements(writes)
    BY <1>1 DEF Read, Returned, Alone, Acting, Merged, Good
  <1>3. Read \subseteq Read' /\ (Pulled => Pulled') /\ (Awaited => Awaited')
    BY <1>1, <1>2, SameWriting
  <1> QED
    BY <1>1, <1>2, <1>3, Background DEF Good, Forms

LEMMA CalmInvariance == CalmGood /\ [Next]_vars => CalmGood'
  <1>1. ASSUME CalmGood, [Next]_vars PROVE Used' /\ Faults' = Faults
    BY <1>1, ScenarioStays DEF CalmGood
  <1> SUFFICES ASSUME CalmGood, [Next]_vars, Calm' PROVE Good'
    BY <1>1 DEF CalmGood
  <1>2. Calm /\ Good /\ linked /\ ~poisoned
    BY <1>1 DEF Calm, CalmGood, Good, Upright
  <1>3. "open" \in Statuses
    BY DEF Statuses
  <1>4. ASSUME NEW t \in Threads, NEW status \in Statuses,
               \/ AgentCreates(t) \/ AgentDeletes(t) \/ UserCreates(t) \/ UserDeletes(t)
               \/ AgentSets(t, status) \/ UserSets(t, status)
        PROVE  Good'
    <2>1. Quiet
      BY <1>2, <1>4 DEF AgentCreates, AgentDeletes, AgentSets, UserCreates, UserDeletes, UserSets,
                        ForwardChange, Change, Calm
    <2> QED
      BY <1>2, <1>4, <2>1, AgentChanges, UserChanges
  <1>5. CASE WriteDone \/ OnSync \/ OnReturned \/ OnNotReturned \/ OnAction
    BY <1>2, <1>5, WriteDoneGood, SyncGood, ReturnedGood, NotReturnedGood, ActionGood
  <1>6. CASE StartCycle \/ CycleTimesOut
    BY <1>2, <1>6, CycleGood
  <1>7. ~WriteFails /\ ~LinkLost /\ ~LinkBack /\ ~Reload
    BY <1>2 DEF WriteFails, LinkLost, LinkBack, Reload, Fault, Calm
  <1>8. CASE OnRequest \/ SendState \/ OnMerged \/ OnFailed \/ ReplaceStores
    BY <1>2, <1>8, RequestGood, SendStateGood, MergedGood, FailedGood, ReplaceGood
  <1>9. CASE WriteEncodes \/ UNCHANGED vars
    BY <1>2, <1>9, EncodesGood
  <1>10. Next => Good'
    BY <1>3, <1>4, <1>5, <1>6, <1>7, <1>8, <1>9 DEF Next
  <1> QED
    BY <1>9, <1>10

LEMMA CalmInit == Init => CalmGood
  <1> SUFFICES ASSUME Init PROVE CalmGood
    OBVIOUS
  <1>1. /\ repo = [t \in Threads |-> "none"] /\ page = [t \in Threads |-> "none"]
        /\ want = [t \in Threads |-> "none"] /\ volatile = {} /\ tombs = {} /\ byUser = {}
        /\ writes = <<>> /\ reading = <<>> /\ merging = <<>> /\ toChrome = <<>> /\ toCode = <<>>
        /\ linked /\ ~poisoned
    BY DEF Init
  <1>2. /\ Elements(writes) = {} /\ Elements(merging) = {} /\ IsSeq(<<>>)
        /\ Of(toChrome, "merged") = {} /\ Of(toCode, "sync") = {} /\ Of(toCode, "returned") = {}
    BY <1>1, SmallSeqs, OneFrame
  <1>3. Read = {} /\ Returned = {} /\ Merged = {} /\ ~Acting /\ Alone
    <2>1. DOMAIN <<>> = {}
      OBVIOUS
    <2> QED
      BY <1>1, <1>2, <2>1 DEF Read, Returned, Merged, Acting, Alone
  <1>4. \A t \in Threads : Export[t] = "none" /\ page[t] = "none" /\ want[t] = "none"
    BY <1>1, ExportIs
  <1>5. Staged /\ Aimed /\ Unborn
    BY <1>1, <1>3, <1>4 DEF Staged, Aimed, Unborn, Follows
  <1>6. Forms
    BY <1>1, <1>2, <1>3 DEF Forms, Views, Copies
  <1>7. Used
    BY CommentSyncAssumption DEF Init, Used
  <1> QED
    BY <1>1, <1>3, <1>5, <1>6, <1>7 DEF CalmGood, Good, Upright, Marked

\* When changes follow one another and nothing fails but that Chrome may be slow, then
\* whenever nothing is on its way both replicas show the same threads with the same
\* status, what was deleted is deleted in both and nothing else is, and the status that
\* a user gave is the one that is shown.
QuietAgrees ==
  Calm /\ Quiet =>
    \A t \in Threads :
      /\ Shown(t) = InChrome(t)
      /\ want[t] = "none" <=> Shown(t) = "none"
      /\ t \in byUser => want[t] = Shown(t)

\* A change is followed by an exchange that carries it to the other side, whatever
\* cycles, wakeups, writes and late answers overlap in between.
THEOREM ReplicasAgreeAtRest == Spec => []QuietAgrees
  <1>1. CalmGood => QuietAgrees
    <2> SUFFICES ASSUME Good, Quiet, NEW t \in Threads
                 PROVE  /\ Shown(t) = InChrome(t)
                        /\ want[t] = "none" <=> Shown(t) = "none"
                        /\ t \in byUser => want[t] = Shown(t)
      BY DEF CalmGood, QuietAgrees
    <2>1. Follows(t) /\ page[t] = Export[t]
      BY AtQuiet
    <2>2. Export[t] = IF t \in tombs THEN "deleted" ELSE repo[t]
      BY ExportIs
    <2>3. repo[t] \in Statuses \cup {"none"}
      BY DEF Good, Forms
    <2> QED
      BY <2>1, <2>2, <2>3 DEF Follows, Shown, InChrome, Statuses
  <1> QED
    BY <1>1, CalmInit, CalmInvariance, PTL DEF Spec

=============================================================================
