-------------------------- MODULE StateSync_proofs --------------------------
(***************************************************************************)
(* Proofs about StateSync, for every set of extensions and every number of *)
(* changes, lost sockets, discarded frames, pulls and reloads.             *)
(***************************************************************************)
EXTENDS StateSync, SequenceTheorems, TLAPS

-----------------------------------------------------------------------------
(* Frames and what they do to one key of the cache.                        *)

\* The frames of s that carry key k.
Carriers(s, k) == {i \in DOMAIN s : k \in DOMAIN s[i].patch}

\* Once the Hub has read s, its cache, now c, has v for k.
Arrives(s, c, k, v) ==
  \/ Carriers(s, k) = {} /\ c[k] = v
  \/ \E i \in Carriers(s, k) :
       s[i].patch[k] = v /\ \A j \in Carriers(s, k) : j <= i

\* Neither the cache nor a frame has a later value for k than v.
AtMost(s, c, k, v) ==
  c[k] <= v /\ \A i \in Carriers(s, k) : s[i].patch[k] <= v

\* The frames carry ever later values for k, none earlier than the cache's.
Ordered(s, c, k) ==
  \A i \in Carriers(s, k) :
    /\ c[k] <= s[i].patch[k]
    /\ \A j \in Carriers(s, k) : i <= j => s[i].patch[k] <= s[j].patch[k]

\* A frame's patch has keys and values of states.
LEMMA FrameValues ==
  ASSUME NEW f \in Frames
  PROVE  /\ DOMAIN f.patch \subseteq Keys
         /\ \A k \in DOMAIN f.patch : f.patch[k] \in 1..MaxVersion
  BY DEF Frames, Patches

\* The keys and values that a message carries of a state.
LEMMA CarryValues ==
  ASSUME NEW s \in States, NEW K \in SUBSET Keys
  PROVE  /\ DOMAIN Carry(s, K) = {j \in K : s[j] # 0}
         /\ \A k \in DOMAIN Carry(s, K) : Carry(s, K)[k] = s[k] /\ s[k] # 0
         /\ DOMAIN Carry(s, K) # {} => Carry(s, K) \in Patches
  <1>1. \A j \in Keys : s[j] # 0 => s[j] \in 1..MaxVersion
    BY StateSyncAssumption DEF States
  <1>2. Carry(s, K) \in [{j \in K : s[j] # 0} -> 1..MaxVersion]
    BY <1>1 DEF Carry
  <1> QED
    BY <1>2 DEF Carry, Patches

\* Reading a frame replaces the keys it carries.
LEMMA PatchedCache ==
  ASSUME NEW c \in States, NEW f \in Frames
  PROVE  /\ ApplyPatch(c, f.patch) \in States
         /\ \A k \in DOMAIN f.patch : ApplyPatch(c, f.patch)[k] = f.patch[k]
         /\ \A k \in Keys \ DOMAIN f.patch : ApplyPatch(c, f.patch)[k] = c[k]
  BY FrameValues, StateSyncAssumption DEF ApplyPatch, States

\* For key k, t is s with the frame f behind it, at place n.
OneMore(s, t, f, k, n) ==
  /\ t[n] = f /\ n \in Nat
  /\ k \notin DOMAIN f.patch => Carriers(t, k) = Carriers(s, k)
  /\ k \in DOMAIN f.patch => Carriers(t, k) = Carriers(s, k) \cup {n}
  /\ \A i \in Carriers(s, k) : i \in Int /\ i < n /\ t[i] = s[i]

\* One more frame on the wire.
LEMMA AppendFrame ==
  ASSUME NEW s \in Seq(Frames), NEW f \in Frames, NEW k
  PROVE  /\ Append(s, f) \in Seq(Frames)
         /\ OneMore(s, Append(s, f), f, k, Len(s) + 1)
  <1> DEFINE n == Len(s) + 1
  <1>1. PICK t : t = Append(s, f)
    OBVIOUS
  <1>2. /\ t \in Seq(Frames) /\ Len(t) = n /\ t[n] = f
        /\ \A i \in 1 .. Len(s) : t[i] = s[i]
    BY <1>1, AppendProperties
  <1>3. Len(s) \in Nat /\ DOMAIN s = 1 .. Len(s) /\ DOMAIN t = 1 .. n
    BY <1>2, LenProperties
  <1>4. OneMore(s, t, f, k, n)
    BY <1>2, <1>3 DEF Carriers, OneMore
  <1> QED
    BY <1>1, <1>2, <1>4

\* What it carries arrives; for the other keys nothing changes.
LEMMA OneMoreArrives ==
  ASSUME NEW s, NEW t, NEW f, NEW k, NEW n, OneMore(s, t, f, k, n), NEW c, NEW v
  PROVE  /\ k \in DOMAIN f.patch => Arrives(t, c, k, f.patch[k])
         /\ k \notin DOMAIN f.patch /\ Arrives(s, c, k, v) => Arrives(t, c, k, v)
  BY DEF OneMore, Arrives

\* It is the latest if what it carries is.
LEMMA OneMoreOrdered ==
  ASSUME NEW s, NEW t, NEW f \in Frames, NEW k \in Keys, NEW n, OneMore(s, t, f, k, n),
         NEW c \in States, NEW v \in Int
  PROVE  /\ AtMost(s, c, k, v) /\ (k \in DOMAIN f.patch => f.patch[k] <= v)
              => AtMost(t, c, k, v)
         /\ Ordered(s, c, k) /\ (k \in DOMAIN f.patch => AtMost(s, c, k, f.patch[k]))
              => Ordered(t, c, k)
  <1>1. k \in DOMAIN f.patch => f.patch[k] \in Int
    BY FrameValues
  <1>2. AtMost(s, c, k, v) /\ (k \in DOMAIN f.patch => f.patch[k] <= v)
          => AtMost(t, c, k, v)
    BY DEF AtMost, OneMore
  <1>3. ASSUME Ordered(s, c, k), k \in DOMAIN f.patch => AtMost(s, c, k, f.patch[k])
        PROVE  Ordered(t, c, k)
    <2>1. CASE k \notin DOMAIN f.patch
      BY <1>3, <2>1 DEF Ordered, OneMore
    <2>2. CASE k \in DOMAIN f.patch
      BY <1>1, <1>3, <2>2 DEF Ordered, AtMost, OneMore
    <2> QED
      BY <2>1, <2>2
  <1> QED
    BY <1>2, <1>3

\* The wire without its first frame.
LEMMA TailFrame ==
  ASSUME NEW s \in Seq(Frames), s # <<>>, NEW k
  PROVE  /\ Tail(s) \in Seq(Frames) /\ Head(s) \in Frames /\ Head(s) = s[1]
         /\ \A i \in Carriers(s, k) : i \in Nat /\ i >= 1
         /\ 1 \in Carriers(s, k) <=> k \in DOMAIN Head(s).patch
         /\ \A i \in Carriers(s, k) : i # 1 =>
              i - 1 \in Carriers(Tail(s), k) /\ Tail(s)[i - 1] = s[i]
         /\ \A i \in Carriers(Tail(s), k) :
              i \in Nat \ {0} /\ i + 1 \in Carriers(s, k) /\ Tail(s)[i] = s[i + 1]
  <1>1. /\ Tail(s) \in Seq(Frames) /\ Len(Tail(s)) = Len(s) - 1
        /\ \A i \in 1 .. Len(Tail(s)) : Tail(s)[i] = s[i+1]
        /\ Head(s) \in Frames
    BY HeadTailProperties
  <1>2. Len(s) \in Nat \ {0} /\ DOMAIN s = 1 .. Len(s) /\ Head(s) = s[1]
    BY EmptySeq, LenProperties
  <1>3. DOMAIN Tail(s) = 1 .. (Len(s) - 1)
    BY <1>1, LenProperties
  <1>4. PICK t : t = Tail(s)
    OBVIOUS
  <1>5. \A i \in 1 .. (Len(s) - 1) : t[i] = s[i + 1] /\ i \in Nat \ {0} /\ i + 1 \in 1 .. Len(s)
    BY <1>1, <1>2, <1>4
  <1>6. ASSUME NEW i \in Carriers(s, k), i # 1
        PROVE  i - 1 \in Carriers(t, k) /\ t[i - 1] = s[i]
    <2>1. /\ i - 1 \in 1 .. (Len(s) - 1) /\ (i - 1) + 1 = i
          /\ k \in DOMAIN s[i].patch
      BY <1>2, <1>6 DEF Carriers
    <2>2. t[i - 1] = s[i]
      BY <1>5, <2>1
    <2> QED
      BY <1>3, <1>4, <2>1, <2>2 DEF Carriers
  <1>7. \A i \in Carriers(t, k) : i \in Nat \ {0} /\ i + 1 \in Carriers(s, k) /\ t[i] = s[i + 1]
    BY <1>2, <1>3, <1>4, <1>5 DEF Carriers
  <1>8. /\ \A i \in Carriers(s, k) : i \in Nat /\ i >= 1
        /\ 1 \in Carriers(s, k) <=> k \in DOMAIN Head(s).patch
    BY <1>2 DEF Carriers
  <1> QED
    BY <1>1, <1>2, <1>4, <1>6, <1>7, <1>8

\* Reading the first frame brings the cache nearer to what arrives.
LEMMA ReadArrives ==
  ASSUME NEW s \in Seq(Frames), s # <<>>, NEW c \in States, NEW k \in Keys, NEW v,
         Arrives(s, c, k, v)
  PROVE  Arrives(Tail(s), ApplyPatch(c, Head(s).patch), k, v)
  <1> DEFINE d == ApplyPatch(c, Head(s).patch)
  <1>1. PICK t : t = Tail(s)
    OBVIOUS
  <1>2. /\ Head(s) \in Frames /\ Head(s) = s[1]
        /\ \A i \in Carriers(s, k) : i \in Nat /\ i >= 1
        /\ 1 \in Carriers(s, k) <=> k \in DOMAIN Head(s).patch
        /\ \A i \in Carriers(s, k) : i # 1 => i - 1 \in Carriers(t, k) /\ t[i - 1] = s[i]
        /\ \A i \in Carriers(t, k) : i \in Nat \ {0} /\ i + 1 \in Carriers(s, k) /\ t[i] = s[i + 1]
    BY <1>1, TailFrame
  <1>3. d[k] = IF k \in DOMAIN Head(s).patch THEN s[1].patch[k] ELSE c[k]
    BY <1>2, PatchedCache
  <1> HIDE DEF d
  <1>4. ASSUME Carriers(s, k) = {}, c[k] = v PROVE Arrives(t, d, k, v)
    <2>1. Carriers(t, k) = {} /\ d[k] = c[k]
      BY <1>2, <1>3, <1>4
    <2> QED
      BY <1>4, <2>1 DEF Arrives
  <1>5. ASSUME NEW i \in Carriers(s, k), s[i].patch[k] = v,
               \A j \in Carriers(s, k) : j <= i
        PROVE  Arrives(t, d, k, v)
    <2>1. \A j \in Carriers(t, k) : j + 1 <= i /\ j \in Nat \ {0}
      BY <1>2, <1>5
    <2>2. CASE i = 1
      <3>1. Carriers(t, k) = {}
        <4>1. ASSUME NEW j \in Carriers(t, k) PROVE FALSE
          BY <2>1, <2>2
        <4> QED
          BY <4>1
      <3>2. d[k] = v
        BY <1>2, <1>3, <1>5, <2>2
      <3> QED
        BY <3>1, <3>2 DEF Arrives
    <2>3. CASE i # 1
      <3>1. i - 1 \in Carriers(t, k) /\ t[i - 1].patch[k] = v
        BY <1>2, <1>5, <2>3
      <3>2. \A j \in Carriers(t, k) : j <= i - 1
        BY <1>2, <2>1
      <3> QED
        BY <3>1, <3>2 DEF Arrives
    <2> QED
      BY <2>2, <2>3
  <1>6. Arrives(t, d, k, v)
    <2>1. \/ Carriers(s, k) = {} /\ c[k] = v
          \/ \E i \in Carriers(s, k) :
               s[i].patch[k] = v /\ \A j \in Carriers(s, k) : j <= i
      BY DEF Arrives
    <2> QED
      BY <1>4, <1>5, <2>1
  <1> QED
    BY <1>1, <1>6 DEF d

\* Reading the first frame takes the cache forward, and no further than to the
\* latest value on its way; discarding it leaves the others in order.
LEMMA ReadOrdered ==
  ASSUME NEW s \in Seq(Frames), s # <<>>, NEW c \in States, NEW k \in Keys,
         Ordered(s, c, k)
  PROVE  /\ ApplyPatch(c, Head(s).patch)[k] >= c[k]
         /\ Ordered(Tail(s), ApplyPatch(c, Head(s).patch), k)
         /\ Ordered(Tail(s), c, k)
         /\ \A v \in Int : AtMost(s, c, k, v) =>
              /\ AtMost(Tail(s), ApplyPatch(c, Head(s).patch), k, v)
              /\ AtMost(Tail(s), c, k, v)
  <1> DEFINE d == ApplyPatch(c, Head(s).patch)
  <1>1. PICK t : t = Tail(s)
    OBVIOUS
  <1>2. /\ Head(s) \in Frames /\ Head(s) = s[1]
        /\ \A i \in Carriers(s, k) : i \in Nat /\ i >= 1
        /\ 1 \in Carriers(s, k) <=> k \in DOMAIN Head(s).patch
        /\ \A i \in Carriers(t, k) : i \in Nat \ {0} /\ i + 1 \in Carriers(s, k) /\ t[i] = s[i + 1]
    BY <1>1, TailFrame
  <1>3. d[k] = IF k \in DOMAIN Head(s).patch THEN s[1].patch[k] ELSE c[k]
    BY <1>2, PatchedCache
  <1>4. c[k] \in Int
    BY StateSyncAssumption DEF States
  <1> HIDE DEF d
  <1>5. d[k] >= c[k] /\ (k \notin DOMAIN Head(s).patch => d[k] = c[k])
    BY <1>2, <1>3, <1>4 DEF Ordered
  <1>6. ASSUME NEW i \in Carriers(t, k), NEW j \in Carriers(t, k), i <= j
        PROVE  t[i].patch[k] <= t[j].patch[k]
    <2>1. i + 1 \in Carriers(s, k) /\ j + 1 \in Carriers(s, k) /\ i + 1 <= j + 1
      BY <1>2, <1>6
    <2> QED
      BY <1>2, <2>1 DEF Ordered
  <1>7. ASSUME NEW i \in Carriers(t, k) PROVE c[k] <= t[i].patch[k] /\ d[k] <= t[i].patch[k]
    <2>1. i + 1 \in Carriers(s, k) /\ 1 <= i + 1 /\ t[i] = s[i + 1]
      BY <1>2
    <2> QED
      BY <1>2, <1>3, <2>1 DEF Ordered
  <1>8. Ordered(t, d, k) /\ Ordered(t, c, k)
    BY <1>6, <1>7 DEF Ordered
  <1>9. ASSUME NEW v \in Int, AtMost(s, c, k, v) PROVE AtMost(t, d, k, v) /\ AtMost(t, c, k, v)
    BY <1>2, <1>3, <1>9 DEF AtMost
  <1> QED
    BY <1>1, <1>5, <1>8, <1>9 DEF d

\* A wire with no frame, and with one.
LEMMA ShortWires ==
  ASSUME NEW f \in Frames, NEW k, NEW c, NEW v
  PROVE  /\ <<>> \in Seq(Frames) /\ <<f>> \in Seq(Frames)
         /\ AtMost(<<>>, c, k, v) <=> c[k] <= v
         /\ Ordered(<<>>, c, k)
         /\ OneMore(<<>>, <<f>>, f, k, 1)
  <1>1. Carriers(<<>>, k) = {}
    BY DEF Carriers
  <1>2. <<f>> \in Seq(Frames) /\ DOMAIN <<f>> = {1} /\ <<f>>[1] = f
    OBVIOUS
  <1>3. OneMore(<<>>, <<f>>, f, k, 1)
    BY <1>1, <1>2 DEF OneMore, Carriers
  <1> QED
    BY <1>1, <1>2, <1>3, EmptySeq DEF AtMost, Ordered

-----------------------------------------------------------------------------
(* The inductive invariant.                                                *)

Refs     == States \cup {Live}
Held     == Deref(last, cur)      \* the state the client would replay
Captured == Deref(captured, cur)  \* the state the open handler would send

\* A client has a state to send as soon as it exists, so that no frame is
\* empty; an open socket has stopped the grace timer.
Typed ==
  /\ clock \in 1..MaxVersion
  /\ cur \in States /\ sent \in States /\ cache \in States
  /\ last \in Refs /\ captured \in Refs
  /\ toHub \in Seq(Frames)
  /\ spent \in [DOMAIN Budget -> Nat]
  /\ sock \in Socks /\ graceArmed \in BOOLEAN
  /\ sock # "absent" => cur[Ide] # 0 /\ Held[Ide] # 0 /\ Captured[Ide] # 0
  /\ sock # "open" => toHub = <<>>
  /\ sock = "open" => ~graceArmed

\* For every key the cache, the frames behind it and the copies that may still
\* be sent are in the order of time.  A copy may be older than the state of the
\* publisher, and a key it does not carry (0) is not in the order.
InOrder ==
  \A k \in Keys :
    /\ cur[k] <= clock /\ sent[k] <= clock /\ Held[k] <= clock /\ Captured[k] <= clock
    /\ AtMost(toHub, cache, k, clock) /\ Ordered(toHub, cache, k)
    /\ cur[k] # 0 => /\ Held[k] <= cur[k] /\ Captured[k] <= cur[k]
                     /\ AtMost(toHub, cache, k, cur[k])
    /\ Held[k] # 0 => AtMost(toHub, cache, k, Held[k])
    /\ sock = "connecting" /\ Captured[k] # 0 => cache[k] <= Captured[k]

\* What the client would replay and is up to date is in the cache or on its way,
\* or a flush is due that will send it.
OnItsWay ==
  sock = "open" /\ spent["rate"] = 0 =>
    \A k \in Keys : cur[k] # 0 /\ Held[k] = cur[k] =>
      \/ Arrives(toHub, cache, k, cur[k])
      \/ k = Ide /\ debounce # {} /\ sent[k] # cur[k]

IInv == Typed /\ InOrder /\ OnItsWay

\* The state of the publisher moves on: what changes gets the next version.
Advances ==
  /\ clock' \in 1..MaxVersion /\ clock <= clock'
  /\ cur' \in States /\ sent' \in States
  /\ \A k \in Keys :
       /\ cur'[k] = cur[k] \/ (cur'[k] = clock' /\ clock < clock')
       /\ sent'[k] = sent[k] \/ sent'[k] = cur'[k]

\* The client sends f, if it can, and what it would replay takes it in.
Publishes(f) ==
  /\ toHub' = IF sock = "open" THEN Append(toHub, f) ELSE toHub
  /\ last' \in Refs
  /\ UNCHANGED <<captured, sock, hubVars>>
  /\ \A k \in Keys :
       /\ k \in DOMAIN f.patch => f.patch[k] = cur'[k] /\ cur'[k] # 0
       /\ Held'[k] \in {0, cur'[k], Deref(last, cur')[k]}
       /\ k \in DOMAIN f.patch /\ sock = "open" => Held'[k] = cur'[k]
       /\ k \notin DOMAIN f.patch => Held'[k] \in {0, Deref(last, cur')[k]}
  /\ sock # "absent" => Held'[Ide] # 0

\* sendStateUpdate, with any part of the current state.
LEMMA UpdatePublishes ==
  ASSUME Typed, Advances, NEW K \in SUBSET Keys, DOMAIN Carry(cur', K) # {},
         SendStateUpdate(Carry(cur', K)), UNCHANGED hubVars
  PROVE  \E f \in Frames : f.patch = Carry(cur', K) /\ Publishes(f)
  <1> DEFINE p == Carry(cur', K)
             f == [type |-> "update", patch |-> p]
             h == Deref(last, cur')
  <1>1. /\ DOMAIN p = {j \in K : cur'[j] # 0} /\ p \in Patches
        /\ \A k \in DOMAIN p : k \in Keys /\ p[k] = cur'[k] /\ p[k] # 0
        /\ \A k \in DOMAIN p : p[k] \in 0..MaxVersion
    <2>1. cur' \in States
      BY DEF Advances
    <2>2. /\ DOMAIN p = {j \in K : cur'[j] # 0} /\ p \in Patches
          /\ \A k \in DOMAIN p : p[k] = cur'[k] /\ cur'[k] # 0
      BY <2>1, CarryValues
    <2>3. \A k \in DOMAIN p : k \in Keys /\ cur'[k] \in 0..MaxVersion
      BY <2>1, <2>2 DEF States
    <2> QED
      BY <2>2, <2>3
  <1>2. f \in Frames
    BY <1>1 DEF Frames
  <1>3. h \in States
    BY DEF Deref, Typed, Refs, Advances
  <1>4. /\ toHub' = IF sock = "open" THEN Append(toHub, f) ELSE toHub
        /\ last' = IF sock = "absent" THEN last ELSE Spread(h, p)
        /\ UNCHANGED <<captured, sock>>
    BY DEF SendStateUpdate, SendIfOpen
  <1> HIDE DEF p
  <1>5. /\ Spread(h, p) \in States
        /\ \A k \in Keys : IF k \in DOMAIN p THEN Spread(h, p)[k] = p[k]
                           ELSE Spread(h, p)[k] \in {0, h[k]}
        /\ Spread(h, p)[Ide] \in {p[Ide], h[Ide]}
        /\ Ide \notin DOMAIN p => Spread(h, p)[Ide] = h[Ide]
    <2> HIDE DEF h
    <2>1. \A k \in Keys : h[k] \in 0..MaxVersion /\ 0 \in 0..MaxVersion
      BY <1>3, StateSyncAssumption DEF States
    <2>2. \A k \in Keys : Spread(h, p)[k] =
            IF k \in DOMAIN p THEN p[k]
            ELSE IF k \in Exts /\ DOMAIN p \cap Exts # {} THEN 0 ELSE h[k]
      BY DEF Spread
    <2>3. Spread(h, p) = [k \in Keys |-> Spread(h, p)[k]]
      BY DEF Spread
    <2>4. \A k \in Keys : Spread(h, p)[k] \in 0..MaxVersion
      BY <1>1, <2>1, <2>2
    <2>5. Spread(h, p) \in States
      BY <2>3, <2>4 DEF States
    <2>6. Ide \in Keys /\ Ide \notin Exts
      BY StateSyncAssumption DEF Keys
    <2> QED
      BY <2>2, <2>5, <2>6
  <1>6. last' \in Refs /\ Held' = IF sock = "absent" THEN h ELSE Spread(h, p)
    <2>1. CASE sock = "absent"
      BY <1>4, <2>1 DEF Held, Deref, Typed
    <2>2. CASE sock # "absent"
      BY <1>4, <1>5, <2>2, StateSyncAssumption DEF Held, Deref, Refs
    <2> QED
      BY <2>1, <2>2
  <1>7. sock # "absent" => h[Ide] # 0
    BY StateSyncAssumption DEF Typed, Held, Deref, Advances, Keys
  <1> HIDE DEF h
  <1>8. sock # "absent" => Held'[Ide] # 0
    BY <1>1, <1>5, <1>6, <1>7
  <1>9. ASSUME NEW k \in Keys
        PROVE  /\ k \in DOMAIN p => p[k] = cur'[k] /\ cur'[k] # 0
               /\ Held'[k] \in {0, cur'[k], h[k]}
               /\ k \in DOMAIN p /\ sock = "open" => Held'[k] = cur'[k]
               /\ k \notin DOMAIN p => Held'[k] \in {0, h[k]}
    BY <1>1, <1>5, <1>6
  <1>10. Publishes(f)
    BY <1>4, <1>6, <1>8, <1>9 DEF Publishes, h
  <1> QED
    BY <1>2, <1>10 DEF p

\* sendStateSnapshot, with the current state or the live object.
LEMMA SnapshotPublishes ==
  ASSUME Typed, cur' = cur, UNCHANGED <<captured, sock, hubVars>>, sock # "absent",
         NEW ref \in {cur, Live}, SendStateSnapshot(ref)
  PROVE  \E f \in Frames : f.patch = Carry(cur, Keys) /\ Publishes(f)
  <1> DEFINE p == Carry(cur, Keys)
             f == [type |-> "snapshot", patch |-> p]
  <1>1. Deref(ref, cur) = cur /\ ref \in Refs
    BY DEF Deref, Typed, Refs
  <1>2. /\ DOMAIN p = {j \in Keys : cur[j] # 0}
        /\ \A k \in DOMAIN p : p[k] = cur[k] /\ cur[k] # 0
        /\ DOMAIN p # {} => p \in Patches
    BY CarryValues DEF Typed
  <1>3. Ide \in DOMAIN p /\ cur[Ide] # 0
    BY <1>2 DEF Typed, Keys
  <1>4. f \in Frames
    BY <1>2, <1>3 DEF Frames
  <1>5. /\ toHub' = IF sock = "open" THEN Append(toHub, f) ELSE toHub
        /\ last' = ref
    BY <1>1 DEF SendStateSnapshot, SendIfOpen
  <1>6. Held' = cur
    BY <1>1, <1>5 DEF Held, Deref
  <1> HIDE DEF p
  <1>7. \A k \in Keys : k \notin DOMAIN p => Held'[k] = 0
    BY <1>2, <1>6
  <1>8. Publishes(f)
    BY <1>1, <1>2, <1>3, <1>5, <1>6, <1>7 DEF Publishes
  <1> QED
    BY <1>4, <1>8 DEF p

\* What the copies come to while the state moves on.
LEMMA CopiesAge ==
  ASSUME Typed, InOrder, Advances, NEW k \in Keys, NEW ref \in {last, captured}
  PROVE  /\ cur[k] \in Nat /\ cur'[k] \in Nat /\ cache[k] \in Nat
         /\ Deref(ref, cur)[k] \in Nat /\ Deref(ref, cur')[k] \in Nat
         /\ Deref(ref, cur')[k] = Deref(ref, cur)[k] \/ Deref(ref, cur')[k] = cur'[k]
         /\ Deref(ref, cur')[k] <= clock' /\ cur'[k] <= clock' /\ sent'[k] <= clock'
         /\ cur'[k] # 0 => Deref(ref, cur')[k] <= cur'[k]
         /\ cur'[k] # 0 => AtMost(toHub, cache, k, cur'[k])
         /\ AtMost(toHub, cache, k, clock')
  <1>1. /\ cur[k] \in Nat /\ cur'[k] \in Nat /\ cache[k] \in Nat /\ sent[k] \in Nat
        /\ clock \in Nat /\ clock' \in Nat /\ clock <= clock'
        /\ \A r \in States : r[k] \in Nat
    BY StateSyncAssumption DEF Typed, Advances, States
  <1>2. Deref(ref, cur)[k] \in Nat /\ Deref(ref, cur')[k] \in Nat
    BY <1>1 DEF Deref, Typed, Refs
  <1>3. /\ Deref(ref, cur)[k] <= clock /\ cur[k] <= clock /\ sent[k] <= clock
        /\ cur[k] # 0 => Deref(ref, cur)[k] <= cur[k] /\ AtMost(toHub, cache, k, cur[k])
        /\ AtMost(toHub, cache, k, clock)
    BY DEF InOrder, Held, Captured
  <1>4. /\ cur'[k] = cur[k] \/ (cur'[k] = clock' /\ clock < clock')
        /\ sent'[k] = sent[k] \/ sent'[k] = cur'[k]
    BY DEF Advances
  <1>5. \/ Deref(ref, cur') = Deref(ref, cur)
        \/ Deref(ref, cur') = cur' /\ Deref(ref, cur) = cur
    BY DEF Deref
  <1>6. AtMost(toHub, cache, k, clock')
    <2>1. \A i \in Carriers(toHub, k) : toHub[i].patch[k] \in Nat
      <3>1. \A i \in DOMAIN toHub : toHub[i] \in Frames
        BY ElementOfSeq, LenProperties DEF Typed
      <3>2. \A i \in Carriers(toHub, k) : toHub[i] \in Frames /\ k \in DOMAIN toHub[i].patch
        BY <3>1 DEF Carriers
      <3>3. \A f \in Frames : k \in DOMAIN f.patch => f.patch[k] \in Nat
        BY FrameValues
      <3> QED
        BY <3>2, <3>3
    <2> QED
      BY <1>1, <1>3, <2>1 DEF AtMost
  <1>7. cur'[k] # 0 => AtMost(toHub, cache, k, cur'[k])
    BY <1>3, <1>4, <1>6
  <1> QED
    BY <1>1, <1>2, <1>3, <1>4, <1>5, <1>6, <1>7

\* Publishing keeps the order: the frame carries the latest of every key.
LEMMA PublishOrder ==
  ASSUME Typed, InOrder, Advances, NEW f \in Frames, Publishes(f)
  PROVE  InOrder'
  <1> SUFFICES ASSUME NEW k \in Keys
               PROVE  /\ cur'[k] <= clock' /\ sent'[k] <= clock'
                      /\ Held'[k] <= clock' /\ Captured'[k] <= clock'
                      /\ AtMost(toHub', cache', k, clock') /\ Ordered(toHub', cache', k)
                      /\ cur'[k] # 0 => /\ Held'[k] <= cur'[k] /\ Captured'[k] <= cur'[k]
                                        /\ AtMost(toHub', cache', k, cur'[k])
                      /\ Held'[k] # 0 => AtMost(toHub', cache', k, Held'[k])
                      /\ sock' = "connecting" /\ Captured'[k] # 0 => cache'[k] <= Captured'[k]
    BY DEF InOrder
  <1> DEFINE h == Deref(last, cur')[k]
             g == Deref(captured, cur')[k]
  <1>1. /\ cur'[k] \in Nat /\ h \in Nat /\ g \in Nat /\ cache[k] \in Nat /\ clock' \in Nat
        /\ h = Held[k] \/ h = cur'[k]
        /\ g = Captured[k] \/ g = cur'[k]
        /\ h <= clock' /\ g <= clock' /\ cur'[k] <= clock' /\ sent'[k] <= clock'
        /\ cur'[k] # 0 => h <= cur'[k] /\ g <= cur'[k] /\ AtMost(toHub, cache, k, cur'[k])
        /\ AtMost(toHub, cache, k, clock')
    BY CopiesAge, StateSyncAssumption DEF Held, Captured, Advances
  <1>2. /\ cache' = cache /\ sock' = sock /\ Captured'[k] = g
        /\ Held'[k] \in {0, cur'[k], h}
        /\ k \in DOMAIN f.patch => f.patch[k] = cur'[k] /\ cur'[k] # 0
        /\ k \in DOMAIN f.patch /\ sock = "open" => Held'[k] = cur'[k]
        /\ toHub' = IF sock = "open" THEN Append(toHub, f) ELSE toHub
    BY DEF Publishes, hubVars, Captured
  <1>3. /\ Ordered(toHub, cache, k) /\ toHub \in Seq(Frames) /\ cache \in States
        /\ Held[k] # 0 => AtMost(toHub, cache, k, Held[k])
        /\ sock = "connecting" /\ Captured[k] # 0 => cache[k] <= Captured[k]
    BY DEF InOrder, Typed
  <1>4. h # 0 => AtMost(toHub, cache, k, h)
    BY <1>1, <1>3
  <1>5. sock = "connecting" /\ g # 0 => cache[k] <= g
    BY <1>1, <1>3 DEF AtMost
  <1> HIDE DEF h, g
  <1>6. CASE toHub' = toHub
    BY <1>1, <1>2, <1>3, <1>4, <1>5, <1>6
  <1>7. CASE sock = "open"
    <2>1. PICK n : OneMore(toHub, toHub', f, k, n)
      BY <1>2, <1>3, <1>7, AppendFrame
    <2>2. Ordered(toHub', cache, k)
      <3>1. (k \in DOMAIN f.patch => AtMost(toHub, cache, k, f.patch[k])) /\ cur'[k] \in Int
        BY <1>1, <1>2
      <3> QED
        BY <1>3, <2>1, <3>1, OneMoreOrdered
    <2>3. \A v \in Int : AtMost(toHub, cache, k, v) /\ (k \in DOMAIN f.patch => cur'[k] <= v)
            => AtMost(toHub', cache, k, v)
      BY <1>2, <1>3, <2>1, OneMoreOrdered
    <2>4. AtMost(toHub', cache, k, clock') /\ (cur'[k] # 0 => AtMost(toHub', cache, k, cur'[k]))
      BY <1>1, <2>3
    <2>5. Held'[k] # 0 => AtMost(toHub', cache, k, Held'[k])
      BY <1>1, <1>2, <1>4, <1>7, <2>3, <2>4
    <2> QED
      BY <1>1, <1>2, <1>7, <2>2, <2>4, <2>5
  <1> QED
    BY <1>2, <1>6, <1>7

\* Nothing is published: the state alone may move on.
LEMMA SilentOrder ==
  ASSUME Typed, InOrder, Advances, UNCHANGED <<last, captured, toHub, cache>>,
         sock' = "connecting" => sock = "connecting"
  PROVE  InOrder'
  <1> SUFFICES ASSUME NEW k \in Keys
               PROVE  /\ cur'[k] <= clock' /\ sent'[k] <= clock'
                      /\ Held'[k] <= clock' /\ Captured'[k] <= clock'
                      /\ AtMost(toHub', cache', k, clock') /\ Ordered(toHub', cache', k)
                      /\ cur'[k] # 0 => /\ Held'[k] <= cur'[k] /\ Captured'[k] <= cur'[k]
                                        /\ AtMost(toHub', cache', k, cur'[k])
                      /\ Held'[k] # 0 => AtMost(toHub', cache', k, Held'[k])
                      /\ sock' = "connecting" /\ Captured'[k] # 0 => cache'[k] <= Captured'[k]
    BY DEF InOrder
  <1> DEFINE h == Deref(last, cur')[k]
             g == Deref(captured, cur')[k]
  <1>1. /\ cur'[k] \in Nat /\ h \in Nat /\ g \in Nat /\ cache[k] \in Nat /\ clock' \in Nat
        /\ h = Held[k] \/ h = cur'[k]
        /\ g = Captured[k] \/ g = cur'[k]
        /\ h <= clock' /\ g <= clock' /\ cur'[k] <= clock' /\ sent'[k] <= clock'
        /\ cur'[k] # 0 => h <= cur'[k] /\ g <= cur'[k] /\ AtMost(toHub, cache, k, cur'[k])
        /\ AtMost(toHub, cache, k, clock')
    BY CopiesAge, StateSyncAssumption DEF Held, Captured, Advances
  <1>2. Held'[k] = h /\ Captured'[k] = g
    BY DEF Held, Captured
  <1>3. /\ Ordered(toHub, cache, k)
        /\ Held[k] # 0 => AtMost(toHub, cache, k, Held[k])
        /\ sock = "connecting" /\ Captured[k] # 0 => cache[k] <= Captured[k]
    BY DEF InOrder
  <1>4. h # 0 => AtMost(toHub, cache, k, h)
    BY <1>1, <1>3
  <1>5. sock = "connecting" /\ g # 0 => cache[k] <= g
    BY <1>1, <1>3 DEF AtMost
  <1> QED
    BY <1>1, <1>2, <1>3, <1>4, <1>5

\* While the state moves on, the types stay.
LEMMA AdvanceTyped ==
  ASSUME Typed, Advances, last' \in Refs, toHub' \in Seq(Frames),
         spent' \in [DOMAIN Budget -> Nat], UNCHANGED <<captured, sock, hubVars>>,
         sock # "absent" => Held'[Ide] # 0, sock # "open" => toHub' = toHub
  PROVE  Typed'
  <1>1. clock' # 0 /\ Ide \in Keys /\ cur'[Ide] \in {cur[Ide], clock'}
    BY StateSyncAssumption DEF Advances, Keys
  <1>2. sock # "absent" => cur'[Ide] # 0
    BY <1>1 DEF Typed
  <1>3. sock # "absent" => Captured'[Ide] # 0
    BY <1>2 DEF Typed, Captured, Deref
  <1> QED
    BY <1>2, <1>3 DEF Typed, Advances, hubVars

\* The frames that are published have the type of frames.
LEMMA PublishTyped ==
  ASSUME Typed, Advances, NEW f \in Frames, Publishes(f),
         spent' \in [DOMAIN Budget -> Nat]
  PROVE  Typed'
  <1>1. toHub' \in Seq(Frames)
    BY AppendProperties DEF Publishes, Typed
  <1> QED
    BY <1>1, AdvanceTyped DEF Publishes

\* What the client takes in of a change is on its way.
LEMMA PublishOnItsWay ==
  ASSUME Typed, OnItsWay, Advances, NEW f \in Frames, Publishes(f),
         spent'["rate"] = spent["rate"],
         \A k \in Keys \ DOMAIN f.patch : cur'[k] = cur[k],
         sock = "open" => \/ Ide \in DOMAIN f.patch
                          \/ sent[Ide] = cur[Ide]
                          \/ sent' = sent /\ debounce' = debounce
  PROVE  OnItsWay'
  <1> SUFFICES ASSUME sock' = "open", spent'["rate"] = 0,
                      NEW k \in Keys, cur'[k] # 0, Held'[k] = cur'[k]
               PROVE  \/ Arrives(toHub', cache', k, cur'[k])
                      \/ k = Ide /\ debounce' # {} /\ sent'[k] # cur'[k]
    BY DEF OnItsWay
  <1>1. /\ sock = "open" /\ spent["rate"] = 0 /\ cache' = cache
        /\ toHub' = Append(toHub, f) /\ toHub \in Seq(Frames)
        /\ k \in DOMAIN f.patch => f.patch[k] = cur'[k]
        /\ k \notin DOMAIN f.patch => Held'[k] \in {0, Deref(last, cur')[k]}
    BY DEF Publishes, hubVars, Typed
  <1>2. PICK n : OneMore(toHub, toHub', f, k, n)
    BY <1>1, AppendFrame
  <1>3. CASE k \in DOMAIN f.patch
    BY <1>1, <1>2, <1>3, OneMoreArrives
  <1>4. CASE k \notin DOMAIN f.patch
    <2>1. cur'[k] = cur[k] /\ Deref(last, cur')[k] = cur[k]
      BY <1>1, <1>4
    <2>2. Held[k] = cur[k]
      BY <2>1 DEF Held, Deref
    <2>3. \/ Arrives(toHub, cache, k, cur[k])
          \/ k = Ide /\ debounce # {} /\ sent[k] # cur[k]
      BY <1>1, <2>1, <2>2 DEF OnItsWay
    <2>4. CASE Arrives(toHub, cache, k, cur[k])
      BY <1>1, <1>2, <1>4, <2>1, <2>4, OneMoreArrives
    <2>5. CASE k = Ide /\ debounce # {} /\ sent[k] # cur[k]
      BY <1>1, <1>4, <2>1, <2>5
    <2> QED
      BY <2>3, <2>4, <2>5
  <1> QED
    BY <1>3, <1>4

\* All three parts together.
LEMMA PublishInv ==
  ASSUME IInv, Advances, NEW f \in Frames, Publishes(f),
         spent' \in [DOMAIN Budget -> Nat], spent'["rate"] = spent["rate"],
         \A k \in Keys \ DOMAIN f.patch : cur'[k] = cur[k],
         sock = "open" => \/ Ide \in DOMAIN f.patch
                          \/ sent[Ide] = cur[Ide]
                          \/ sent' = sent /\ debounce' = debounce
  PROVE  IInv'
  BY PublishOrder, PublishTyped, PublishOnItsWay DEF IInv

\* A change of one key.
LEMMA ChangeAdvances ==
  ASSUME Typed, NEW k \in Keys, Change(k), sent' = sent \/ sent' = cur'
  PROVE  /\ Advances /\ cur'[k] = clock' /\ clock < clock'
         /\ \A j \in Keys : j # k => cur'[j] = cur[j]
  <1>1. clock \in Nat /\ clock' = clock + 1 /\ clock' \in 1..MaxVersion /\ clock' \in 0..MaxVersion
    BY StateSyncAssumption DEF Typed, Change
  <1>2. cur \in States /\ sent \in States /\ cur' = [cur EXCEPT ![k] = clock']
    BY <1>1 DEF Typed, Change
  <1>3. cur' \in States /\ cur'[k] = clock' /\ \A j \in Keys : j # k => cur'[j] = cur[j]
    BY <1>1, <1>2 DEF States
  <1>4. clock < clock' /\ clock <= clock'
    BY <1>1
  <1>5. sent' \in States
    <2>1. sent \in States /\ cur' \in States
      BY <1>2, <1>3
    <2> QED
      BY <2>1
  <1>6. \A j \in Keys : /\ cur'[j] = cur[j] \/ (cur'[j] = clock' /\ clock < clock')
                        /\ sent'[j] = sent[j] \/ sent'[j] = cur'[j]
    <2>1. \A j \in Keys : sent'[j] = sent[j] \/ sent'[j] = cur'[j]
      OBVIOUS
    <2> QED
      BY <1>3, <1>4, <2>1
  <1> QED
    BY <1>1, <1>3, <1>4, <1>5, <1>6 DEF Advances

\* flushPatch: the patch has the editor's key unless that was sent before.
LEMMA FlushPublishes ==
  ASSUME Typed, Advances, FlushPatch, UNCHANGED hubVars
  PROVE  \/ /\ UNCHANGED <<sent, clientVars, toHub>>
            /\ \A k \in Keys : cur'[k] # 0 => cur'[k] = sent[k]
         \/ /\ sent' = cur'
            /\ \E f \in Frames :
                 /\ Publishes(f)
                 /\ \A k \in Keys : cur'[k] # 0 /\ cur'[k] # sent[k] => k \in DOMAIN f.patch
  <1> DEFINE K == {k \in Keys : cur'[k] # sent[k]
                     \/ (k \in Exts /\ \E e \in Exts : cur'[e] # sent[e])}
  <1>1. ComputePatch(cur', sent) = Carry(cur', K) /\ K \in SUBSET Keys
    BY DEF ComputePatch
  <1>2. \A k \in Keys : cur'[k] # sent[k] => k \in K
    OBVIOUS
  <1> HIDE DEF K
  <1>3. cur' \in States
    BY DEF Advances
  <1>4. DOMAIN Carry(cur', K) = {k \in K : cur'[k] # 0}
    BY <1>1, <1>3, CarryValues
  <1>5. CASE DOMAIN Carry(cur', K) = {}
    <2>1. UNCHANGED <<sent, clientVars, toHub>>
      BY <1>1, <1>5 DEF FlushPatch
    <2> QED
      BY <1>2, <1>4, <1>5, <2>1
  <1>6. CASE DOMAIN Carry(cur', K) # {}
    <2>1. SendStateUpdate(Carry(cur', K)) /\ sent' = cur'
      BY <1>1, <1>6 DEF FlushPatch
    <2>2. \E f \in Frames : f.patch = Carry(cur', K) /\ Publishes(f)
      BY <1>1, <1>6, <2>1, UpdatePublishes
    <2> QED
      BY <1>2, <1>4, <2>1, <2>2
  <1> QED
    BY <1>5, <1>6

\* A bounded step pays from one of its budgets.
LEMMA SpendTyped ==
  ASSUME Typed, NEW b \in DOMAIN Budget, Spend(b)
  PROVE  /\ spent' \in [DOMAIN Budget -> Nat]
         /\ b # "rate" => spent'["rate"] = spent["rate"]
         /\ b = "rate" => spent'["rate"] # 0
  <1>1. "rate" \in DOMAIN Budget
    BY DEF Budget
  <1>2. spent[b] + 1 \in Nat /\ spent[b] + 1 # 0
    BY DEF Typed
  <1>3. spent \in [DOMAIN Budget -> Nat] /\ spent' = [spent EXCEPT ![b] = spent[b] + 1]
    BY DEF Typed, Spend
  <1> QED
    BY <1>1, <1>2, <1>3

-----------------------------------------------------------------------------
(* Every step keeps the invariant.                                         *)

LEMMA InitInv == Init => IInv
  <1> SUFFICES ASSUME Init PROVE IInv
    OBVIOUS
  <1>1. Empty \in States /\ Ide \in Keys /\ \A k \in Keys : Empty[k] = 0
    BY StateSyncAssumption DEF Empty, States, Keys
  <1>2. Held = Empty /\ Captured = Empty
    BY DEF Init, Held, Captured, Deref
  <1>3. \A k : Carriers(toHub, k) = {}
    BY DEF Init, Carriers
  <1>4. Typed
    <2>1. clock \in 1..MaxVersion
      BY StateSyncAssumption DEF Init
    <2>2. spent \in [DOMAIN Budget -> Nat]
      BY DEF Init
    <2> QED
      BY <1>1, <2>1, <2>2, EmptySeq DEF Init, Typed, Refs, Socks
  <1>5. InOrder
    BY <1>1, <1>2, <1>3 DEF Init, InOrder, AtMost, Ordered
  <1>6. OnItsWay
    BY DEF Init, OnItsWay
  <1> QED
    BY <1>4, <1>5, <1>6 DEF IInv

LEMMA EditorEventInv ==
  ASSUME IInv, NEW category, EditorEvent(category)
  PROVE  IInv'
  <1>1. /\ Typed /\ InOrder /\ OnItsWay /\ sock # "absent" /\ Change(Ide) /\ sent' = sent
        /\ debounce' # {} /\ UNCHANGED <<last, captured, sock, toHub, hubVars, cache, spent>>
    BY DEF IInv, EditorEvent, clientVars, hubVars
  <1>2. Ide \in Keys
    BY DEF Keys
  <1>3. /\ Advances /\ cur'[Ide] = clock' /\ clock < clock'
        /\ \A j \in Keys : j # Ide => cur'[j] = cur[j]
    BY <1>1, <1>2, ChangeAdvances
  <1>4. cur'[Ide] # 0 /\ cur'[Ide] # sent[Ide]
    <2>1. clock' \in Int /\ clock \in Int /\ clock' > 0 /\ sent[Ide] \in Int /\ sent[Ide] <= clock
      BY <1>1, <1>2, <1>3, StateSyncAssumption DEF Advances, Typed, InOrder, States
    <2> QED
      BY <1>3, <2>1
  <1>5. Held'[Ide] # 0
    BY <1>1, <1>4 DEF Held, Deref, Typed
  <1>6. InOrder'
    BY <1>1, <1>3, SilentOrder
  <1>7. Typed'
    <2>1. last' \in Refs /\ toHub' \in Seq(Frames) /\ spent' \in [DOMAIN Budget -> Nat]
      BY <1>1 DEF Typed
    <2> QED
      BY <1>1, <1>3, <1>5, <2>1, AdvanceTyped
  <1>8. OnItsWay'
    <2> SUFFICES ASSUME sock = "open", spent["rate"] = 0,
                        NEW k \in Keys, cur'[k] # 0, Held'[k] = cur'[k]
                 PROVE  \/ Arrives(toHub, cache, k, cur'[k])
                        \/ k = Ide /\ debounce' # {} /\ sent'[k] # cur'[k]
      BY <1>1 DEF OnItsWay
    <2>1. CASE k = Ide
      BY <1>1, <1>4, <2>1
    <2>2. CASE k # Ide
      <3>1. cur'[k] = cur[k] /\ Held[k] = cur[k]
        BY <1>1, <1>3, <2>2 DEF Held, Deref
      <3> QED
        BY <1>1, <2>2, <3>1 DEF OnItsWay
    <2> QED
      BY <2>1, <2>2
  <1> QED
    BY <1>6, <1>7, <1>8 DEF IInv

LEMMA DebounceFiresInv ==
  ASSUME IInv, NEW category, DebounceFires(category)
  PROVE  IInv'
  <1>1. /\ Typed /\ InOrder /\ OnItsWay /\ FlushPatch /\ cur' = cur
        /\ UNCHANGED <<clock, hubVars, spent>>
    BY DEF IInv, DebounceFires
  <1>2. Advances
    <2>1. sent' = sent \/ sent' = cur
      BY <1>1 DEF FlushPatch
    <2>2. clock \in 1..MaxVersion /\ clock <= clock
      BY <1>1, StateSyncAssumption DEF Typed
    <2> QED
      BY <1>1, <2>1, <2>2 DEF Advances, Typed
  <1>3. spent' \in [DOMAIN Budget -> Nat] /\ Ide \in Keys /\ (sock = "open" => cur[Ide] # 0)
    BY <1>1 DEF Typed, Keys
  <1>4. CASE /\ UNCHANGED <<sent, clientVars, toHub>>
             /\ \A k \in Keys : cur'[k] # 0 => cur'[k] = sent[k]
    <2>1. UNCHANGED <<last, captured, sock, toHub, cache>> /\ Held' = Held
      BY <1>1, <1>4 DEF clientVars, hubVars, Held
    <2>2. InOrder'
      BY <1>1, <1>2, <2>1, SilentOrder
    <2>3. Typed'
      BY <1>1, <1>2, <1>3, <2>1, AdvanceTyped DEF Typed
    <2>4. OnItsWay'
      BY <1>1, <1>4, <2>1 DEF OnItsWay
    <2> QED
      BY <2>2, <2>3, <2>4 DEF IInv
  <1>5. ASSUME NEW f \in Frames, Publishes(f),
               \A k \in Keys : cur'[k] # 0 /\ cur'[k] # sent[k] => k \in DOMAIN f.patch
        PROVE  IInv'
    <2>1. sock = "open" => Ide \in DOMAIN f.patch \/ sent[Ide] = cur[Ide]
      BY <1>1, <1>3, <1>5
    <2> QED
      BY <1>1, <1>2, <1>3, <1>5, <2>1, PublishInv
  <1> QED
    BY <1>1, <1>2, <1>4, <1>5, FlushPublishes

LEMMA FoldersEventInv ==
  ASSUME IInv, FoldersEvent
  PROVE  IInv'
  <1>1. /\ Typed /\ InOrder /\ Change(Ide) /\ FlushPatch
        /\ UNCHANGED <<debounce, hubVars, spent>>
    BY DEF IInv, FoldersEvent
  <1>2. Ide \in Keys /\ (sent' = sent \/ sent' = cur')
    BY <1>1 DEF Keys, FlushPatch
  <1>3. /\ Advances /\ cur'[Ide] = clock' /\ clock < clock'
        /\ \A j \in Keys : j # Ide => cur'[j] = cur[j]
    BY <1>1, <1>2, ChangeAdvances
  <1>4. cur'[Ide] # 0 /\ cur'[Ide] # sent[Ide]
    <2>1. clock' \in Int /\ clock \in Int /\ clock' > 0 /\ sent[Ide] \in Int /\ sent[Ide] <= clock
      BY <1>1, <1>2, <1>3, StateSyncAssumption DEF Advances, Typed, InOrder, States
    <2> QED
      BY <1>3, <2>1
  <1>5. PICK f \in Frames : Publishes(f) /\ Ide \in DOMAIN f.patch
    BY <1>1, <1>2, <1>3, <1>4, FlushPublishes
  <1>6. \A k \in Keys \ DOMAIN f.patch : cur'[k] = cur[k]
    BY <1>3, <1>5
  <1>7. spent' \in [DOMAIN Budget -> Nat] /\ spent'["rate"] = spent["rate"]
    BY <1>1 DEF Typed
  <1> QED
    BY <1>3, <1>5, <1>6, <1>7, PublishInv

LEMMA PublishStateInv ==
  ASSUME IInv, NEW e \in Exts, PublishState(e)
  PROVE  IInv'
  <1>1. /\ Typed /\ Change(e) /\ SendStateUpdate(Carry(cur', {e}))
        /\ UNCHANGED <<sent, debounce, hubVars, spent>> /\ e \in Keys
    BY DEF IInv, PublishState, Keys
  <1>2. Advances /\ cur'[e] = clock' /\ \A j \in Keys : j # e => cur'[j] = cur[j]
    BY <1>1, ChangeAdvances
  <1>3. cur'[e] # 0 /\ cur' \in States
    BY <1>2 DEF Advances
  <1>4. DOMAIN Carry(cur', {e}) = {e}
    <2>1. {e} \in SUBSET Keys
      BY <1>1
    <2>2. DOMAIN Carry(cur', {e}) = {j \in {e} : cur'[j] # 0}
      BY <1>3, <2>1, CarryValues
    <2> QED
      BY <1>3, <2>2
  <1>5. {e} \in SUBSET Keys /\ DOMAIN Carry(cur', {e}) # {}
    BY <1>1, <1>4
  <1>6. PICK f \in Frames : f.patch = Carry(cur', {e}) /\ Publishes(f)
    BY <1>1, <1>2, <1>5, UpdatePublishes
  <1>7. \A k \in Keys \ DOMAIN f.patch : cur'[k] = cur[k]
    BY <1>2, <1>4, <1>6
  <1>8. spent' \in [DOMAIN Budget -> Nat] /\ spent'["rate"] = spent["rate"]
    BY <1>1 DEF Typed
  <1> QED
    BY <1>1, <1>2, <1>6, <1>7, <1>8, PublishInv

\* A snapshot of the current state, whatever it does to sentState.
LEMMA SnapshotInv ==
  ASSUME IInv, sock # "absent", NEW ref \in {cur, Live}, SendStateSnapshot(ref),
         sent' = sent \/ sent' = cur,
         spent' \in [DOMAIN Budget -> Nat], spent'["rate"] = spent["rate"],
         UNCHANGED <<cur, clock, captured, sock, hubVars>>
  PROVE  IInv'
  <1>1. Typed
    BY DEF IInv
  <1>2. Advances
    <2>1. clock \in 1..MaxVersion /\ clock <= clock
      BY <1>1, StateSyncAssumption DEF Typed
    <2> QED
      BY <1>1, <2>1 DEF Advances, Typed
  <1>3. PICK f \in Frames : f.patch = Carry(cur, Keys) /\ Publishes(f)
    BY <1>1, SnapshotPublishes
  <1>4. Ide \in DOMAIN f.patch
    <2>1. cur \in States /\ Keys \in SUBSET Keys /\ Ide \in Keys /\ cur[Ide] # 0
      BY <1>1 DEF Typed, Keys
    <2> QED
      BY <1>3, <2>1, CarryValues
  <1> QED
    BY <1>2, <1>3, <1>4, PublishInv

LEMMA KeyframeFiresInv ==
  ASSUME IInv, KeyframeFires
  PROVE  IInv'
  <1>1. /\ sock # "absent" /\ SendStateSnapshot(cur) /\ sent' = cur
        /\ UNCHANGED <<cur, clock, captured, sock, hubVars, spent>>
    BY DEF KeyframeFires
  <1>2. spent' \in [DOMAIN Budget -> Nat] /\ spent'["rate"] = spent["rate"]
    BY <1>1 DEF IInv, Typed
  <1> QED
    BY <1>1, <1>2, SnapshotInv

LEMMA GetStateInv ==
  ASSUME IInv, GetState
  PROVE  IInv'
  <1>1. /\ sock # "absent" /\ Spend("pulls") /\ SendStateSnapshot(Live)
        /\ UNCHANGED <<cur, sent, clock, captured, sock, hubVars>>
    BY DEF GetState, publisherVars
  <1>2. spent' \in [DOMAIN Budget -> Nat] /\ spent'["rate"] = spent["rate"]
    <2>1. "pulls" \in DOMAIN Budget /\ Typed
      BY DEF Budget, IInv
    <2> QED
      BY <1>1, <2>1, SpendTyped
  <1> QED
    BY <1>1, <1>2, SnapshotInv

LEMMA HubReadyInv ==
  ASSUME IInv, HubReady
  PROVE  IInv'
  <1>1. /\ Typed /\ InOrder /\ sock = "absent" /\ toHub = <<>>
        /\ cur' = [cur EXCEPT ![Ide] = clock] /\ sock' = "connecting"
        /\ captured' = Live /\ last' = Live
        /\ UNCHANGED <<sent, clock, toHub, cache, graceArmed, spent>>
    BY DEF IInv, Typed, HubReady, hubVars
  <1>2. Ide \in Keys /\ cur \in States /\ clock \in 0..MaxVersion /\ clock # 0 /\ clock \in Nat
    BY <1>1, StateSyncAssumption DEF Typed, Keys
  <1>3. cur' \in States /\ cur'[Ide] = clock /\ \A j \in Keys : j # Ide => cur'[j] = cur[j]
    BY <1>1, <1>2 DEF States
  <1>4. Held' = cur' /\ Captured' = cur'
    BY <1>1 DEF Held, Captured, Deref
  <1>5. Typed'
    BY <1>1, <1>2, <1>3, <1>4 DEF Typed, Refs, Socks
  <1>6. InOrder'
    <2> SUFFICES ASSUME NEW k \in Keys
                 PROVE  /\ cur'[k] <= clock /\ sent[k] <= clock /\ AtMost(toHub, cache, k, clock)
                        /\ Ordered(toHub, cache, k) /\ cur'[k] <= cur'[k]
                        /\ cur'[k] # 0 => /\ AtMost(toHub, cache, k, cur'[k])
                                          /\ cache[k] <= cur'[k]
      BY <1>1, <1>4 DEF InOrder
    <2>1. /\ cur[k] <= clock /\ sent[k] <= clock /\ AtMost(toHub, cache, k, clock)
          /\ Ordered(toHub, cache, k) /\ (cur[k] # 0 => AtMost(toHub, cache, k, cur[k]))
      BY <1>1 DEF InOrder
    <2>2. cur'[k] = cur[k] \/ cur'[k] = clock
      BY <1>3
    <2>3. clock <= clock /\ cur[k] <= cur[k]
      <3>1. cur[k] \in Int
        BY <1>2, StateSyncAssumption DEF States
      <3> QED
        BY <1>2, <3>1
    <2> QED
      BY <2>1, <2>2, <2>3 DEF AtMost
  <1>7. OnItsWay'
    BY <1>1 DEF OnItsWay
  <1> QED
    BY <1>5, <1>6, <1>7 DEF IInv

\* The snapshot is not older than the cache, and not newer than what the
\* publisher has now.
LEMMA SocketOpensInv ==
  ASSUME IInv, SocketOpens
  PROVE  IInv'
  <1> DEFINE p == Carry(Captured, Keys)
             f == [type |-> "snapshot", patch |-> p]
  <1>1. /\ Typed /\ InOrder /\ sock = "connecting" /\ sock' = "open" /\ last' = captured
        /\ toHub' = <<f>> /\ toHub = <<>> /\ graceArmed' = FALSE
        /\ UNCHANGED <<cur, sent, clock, captured, cache, spent>>
    BY DEF IInv, Typed, SocketOpens, publisherVars, Captured
  <1>2. Captured \in States /\ Keys \in SUBSET Keys /\ Ide \in Keys /\ Captured[Ide] # 0
    BY <1>1 DEF Typed, Captured, Deref, Refs, Keys
  <1>3. /\ DOMAIN p = {j \in Keys : Captured[j] # 0}
        /\ \A k \in DOMAIN p : p[k] = Captured[k]
        /\ DOMAIN p # {} => p \in Patches
    BY <1>2, CarryValues
  <1>4. f \in Frames
    BY <1>2, <1>3 DEF Frames
  <1>5. Held' = Captured /\ Captured' = Captured
    BY <1>1 DEF Held, Captured, Deref
  <1>6. \A k \in Keys : k \in DOMAIN f.patch <=> Captured[k] # 0
    BY <1>3
  <1>7. \A k \in Keys : k \in DOMAIN f.patch => f.patch[k] = Captured[k]
    BY <1>3
  <1>8. f.patch = p
    OBVIOUS
  <1> HIDE DEF f, p
  <1>9. toHub' \in Seq(Frames)
    BY <1>1, <1>4, ShortWires
  <1>10. Typed'
    BY <1>1, <1>2, <1>5, <1>9 DEF Typed, Socks
  <1>11. InOrder'
    <2> SUFFICES ASSUME NEW k \in Keys
                 PROVE  /\ cur[k] <= clock /\ sent[k] <= clock /\ Captured[k] <= clock
                        /\ AtMost(toHub', cache, k, clock) /\ Ordered(toHub', cache, k)
                        /\ cur[k] # 0 => /\ Captured[k] <= cur[k]
                                         /\ AtMost(toHub', cache, k, cur[k])
                        /\ Captured[k] # 0 => AtMost(toHub', cache, k, Captured[k])
      BY <1>1, <1>5 DEF InOrder
    <2>1. /\ cur[k] <= clock /\ sent[k] <= clock /\ Captured[k] <= clock
          /\ AtMost(<<>>, cache, k, clock)
          /\ cur[k] # 0 => Captured[k] <= cur[k] /\ AtMost(<<>>, cache, k, cur[k])
          /\ Captured[k] # 0 => cache[k] <= Captured[k]
      BY <1>1 DEF InOrder
    <2>2. cache \in States /\ clock \in Int /\ cur[k] \in Int /\ Captured[k] \in Int
      BY <1>1, <1>2, StateSyncAssumption DEF Typed, States
    <2>3. Captured[k] # 0 => AtMost(<<>>, cache, k, Captured[k])
      BY <1>4, <2>1, ShortWires
    <2>4. OneMore(<<>>, toHub', f, k, 1) /\ Ordered(<<>>, cache, k)
      BY <1>1, <1>4, ShortWires
    <2>5. \A v \in Int : AtMost(<<>>, cache, k, v) /\ (Captured[k] # 0 => Captured[k] <= v)
             => AtMost(toHub', cache, k, v)
      BY <1>4, <1>6, <1>7, <2>2, <2>4, OneMoreOrdered
    <2>6. Ordered(toHub', cache, k)
      <3>1. k \in DOMAIN f.patch => AtMost(<<>>, cache, k, f.patch[k])
        BY <1>6, <1>7, <2>3
      <3> QED
        BY <1>4, <2>2, <2>4, <3>1, OneMoreOrdered
    <2>7. AtMost(toHub', cache, k, clock) /\ (cur[k] # 0 => AtMost(toHub', cache, k, cur[k]))
      BY <2>1, <2>2, <2>5
    <2>8. Captured[k] # 0 => AtMost(toHub', cache, k, Captured[k])
      BY <2>2, <2>3, <2>5
    <2> QED
      BY <2>1, <2>6, <2>7, <2>8
  <1>12. OnItsWay'
    <2> SUFFICES ASSUME NEW k \in Keys, cur[k] # 0, Captured[k] = cur[k]
                 PROVE  Arrives(toHub', cache, k, cur[k])
      BY <1>1, <1>5 DEF OnItsWay
    <2>1. OneMore(<<>>, toHub', f, k, 1)
      BY <1>1, <1>4, ShortWires
    <2> QED
      BY <1>6, <1>7, <2>1, OneMoreArrives
  <1> QED
    BY <1>10, <1>11, <1>12 DEF IInv

\* An empty wire with the copies of before or copies with nothing in them.
LEMMA ClosedInv ==
  ASSUME IInv, toHub' = <<>>, sock' # "open", sock' \in Socks,
         spent' \in [DOMAIN Budget -> Nat], UNCHANGED <<clock, cache>>,
         graceArmed' \in BOOLEAN,
         \/ /\ sock # "absent" /\ UNCHANGED <<cur, sent, last>>
            /\ captured' = captured \/ captured' = last
            /\ sock' = "connecting" => captured' = last
         \/ /\ cur' = Empty /\ sent' = Empty /\ last' = Empty /\ captured' = Empty
            /\ sock' = "absent"
  PROVE  IInv'
  <1>1. Typed /\ InOrder
    BY DEF IInv
  <1>2. Empty \in States /\ \A k \in Keys : Empty[k] = 0
    BY StateSyncAssumption DEF Empty, States
  <1>3. /\ cur \in States /\ sent \in States /\ cache \in States /\ clock \in Nat
        /\ Held \in States /\ Captured \in States
    BY <1>1, StateSyncAssumption DEF Typed, Held, Captured, Deref, Refs
  <1>4. <<>> \in Seq(Frames)
    BY EmptySeq
  <1>5. ASSUME sock # "absent", UNCHANGED <<cur, sent, last>>,
               captured' = captured \/ captured' = last,
               sock' = "connecting" => captured' = last
        PROVE  Typed' /\ InOrder'
    <2>1. /\ Held' = Held /\ (Captured' = Captured \/ Captured' = Held)
          /\ sock' = "connecting" => Captured' = Held
      BY <1>5 DEF Held, Captured, Deref
    <2>2. Typed'
      BY <1>1, <1>4, <1>5, <2>1 DEF Typed
    <2>3. InOrder'
      <3> SUFFICES ASSUME NEW k \in Keys
                   PROVE  /\ cur[k] <= clock /\ sent[k] <= clock /\ Held[k] <= clock
                          /\ Captured'[k] <= clock
                          /\ AtMost(<<>>, cache, k, clock) /\ Ordered(<<>>, cache, k)
                          /\ cur[k] # 0 => /\ Held[k] <= cur[k] /\ Captured'[k] <= cur[k]
                                           /\ AtMost(<<>>, cache, k, cur[k])
                          /\ Held[k] # 0 => AtMost(<<>>, cache, k, Held[k])
                          /\ sock' = "connecting" /\ Held[k] # 0 => cache[k] <= Held[k]
        BY <1>5, <2>1 DEF InOrder
      <3>1. Ordered(<<>>, cache, k) /\ \A v : AtMost(<<>>, cache, k, v) <=> cache[k] <= v
        BY DEF Ordered, AtMost, Carriers
      <3>2. /\ cur[k] <= clock /\ sent[k] <= clock /\ Held[k] <= clock /\ Captured[k] <= clock
            /\ cache[k] <= clock
            /\ cur[k] # 0 => Held[k] <= cur[k] /\ Captured[k] <= cur[k] /\ cache[k] <= cur[k]
            /\ Held[k] # 0 => cache[k] <= Held[k]
        BY <1>1 DEF InOrder, AtMost
      <3> QED
        BY <2>1, <3>1, <3>2
    <2> QED
      BY <2>2, <2>3
  <1>6. ASSUME cur' = Empty, sent' = Empty, last' = Empty, captured' = Empty, sock' = "absent"
        PROVE  Typed' /\ InOrder'
    <2>1. Held' = Empty /\ Captured' = Empty
      BY <1>6 DEF Held, Captured, Deref
    <2>2. Typed'
      BY <1>1, <1>2, <1>4, <1>6 DEF Typed, Refs
    <2>3. InOrder'
      <3> SUFFICES ASSUME NEW k \in Keys
                   PROVE  /\ 0 <= clock /\ AtMost(<<>>, cache, k, clock)
                          /\ Ordered(<<>>, cache, k)
        BY <1>2, <1>6, <2>1 DEF InOrder
      <3>1. Ordered(<<>>, cache, k) /\ \A v : AtMost(<<>>, cache, k, v) <=> cache[k] <= v
        BY DEF Ordered, AtMost, Carriers
      <3> QED
        BY <1>1, <1>3, <3>1 DEF InOrder, AtMost
    <2> QED
      BY <2>2, <2>3
  <1> QED
    BY <1>5, <1>6 DEF IInv, OnItsWay

LEMMA SocketClosesInv ==
  ASSUME IInv, SocketCloses
  PROVE  IInv'
  <1>1. Typed /\ "drops" \in DOMAIN Budget /\ Spend("drops")
    BY DEF IInv, Budget, SocketCloses
  <1>2. spent' \in [DOMAIN Budget -> Nat]
    BY <1>1, SpendTyped
  <1> QED
    BY <1>1, <1>2, ClosedInv DEF SocketCloses, publisherVars, hubVars, Typed, Socks

LEMMA ReconnectTimerFiresInv ==
  ASSUME IInv, ReconnectTimerFires
  PROVE  IInv'
  <1>1. Typed
    BY DEF IInv
  <1> QED
    BY <1>1, ClosedInv DEF ReconnectTimerFires, publisherVars, hubVars, Typed, Socks

LEMMA ReloadInv ==
  ASSUME IInv, Reload
  PROVE  IInv'
  <1>1. Typed /\ "reloads" \in DOMAIN Budget /\ Spend("reloads")
    BY DEF IInv, Budget, Reload
  <1>2. spent' \in [DOMAIN Budget -> Nat]
    BY <1>1, SpendTyped
  <1> QED
    BY <1>1, <1>2, ClosedInv DEF Reload, hubVars, Typed, Socks

LEMMA HubNoticesCloseInv ==
  ASSUME IInv, HubNoticesClose
  PROVE  IInv'
  <1>1. /\ Typed /\ InOrder /\ sock # "open"
        /\ graceArmed' = TRUE /\ Held' = Held /\ Captured' = Captured
        /\ UNCHANGED <<cur, sent, clock, last, captured, sock, toHub, cache, spent>>
    BY DEF IInv, HubNoticesClose, publisherVars, clientVars, Held, Captured
  <1>2. Typed'
    BY <1>1 DEF Typed
  <1>3. InOrder'
    BY <1>1 DEF InOrder
  <1>4. OnItsWay'
    BY <1>1 DEF OnItsWay
  <1> QED
    BY <1>2, <1>3, <1>4 DEF IInv

\* A cleared modality is older than any other.
LEMMA GraceExpiresInv ==
  ASSUME IInv, GraceExpires
  PROVE  IInv'
  <1>1. /\ Typed /\ InOrder /\ sock # "open" /\ toHub = <<>>
        /\ graceArmed' = FALSE /\ Held' = Held /\ Captured' = Captured
        /\ cache' = [k \in Keys |-> IF k = Ide THEN cache[k] ELSE 0]
        /\ UNCHANGED <<cur, sent, clock, last, captured, sock, toHub, spent>>
    BY DEF IInv, Typed, GraceExpires, publisherVars, clientVars, Held, Captured
  <1>2. \A k \in Keys : cache[k] \in 0..MaxVersion /\ 0 \in 0..MaxVersion
    BY <1>1, StateSyncAssumption DEF Typed, States
  <1>3. cache' \in States /\ \A k \in Keys : cache'[k] \in Int /\ cache'[k] <= cache[k]
    BY <1>1, <1>2 DEF States
  <1>4. Typed'
    BY <1>1, <1>3 DEF Typed
  <1>5. InOrder'
    <2> SUFFICES ASSUME NEW k \in Keys
                 PROVE  /\ cur[k] <= clock /\ sent[k] <= clock
                        /\ Held[k] <= clock /\ Captured[k] <= clock
                        /\ AtMost(<<>>, cache', k, clock) /\ Ordered(<<>>, cache', k)
                        /\ cur[k] # 0 => /\ Held[k] <= cur[k] /\ Captured[k] <= cur[k]
                                         /\ AtMost(<<>>, cache', k, cur[k])
                        /\ Held[k] # 0 => AtMost(<<>>, cache', k, Held[k])
                        /\ sock = "connecting" /\ Captured[k] # 0 => cache'[k] <= Captured[k]
      BY <1>1 DEF InOrder
    <2>1. Ordered(<<>>, cache', k) /\ \A v : AtMost(<<>>, cache', k, v) <=> cache'[k] <= v
      BY DEF Ordered, AtMost, Carriers
    <2>2. /\ cur[k] <= clock /\ sent[k] <= clock /\ Held[k] <= clock /\ Captured[k] <= clock
          /\ cache[k] <= clock
          /\ cur[k] # 0 => Held[k] <= cur[k] /\ Captured[k] <= cur[k] /\ cache[k] <= cur[k]
          /\ Held[k] # 0 => cache[k] <= Held[k]
          /\ sock = "connecting" /\ Captured[k] # 0 => cache[k] <= Captured[k]
      BY <1>1 DEF InOrder, AtMost
    <2>3. cache[k] \in Int /\ clock \in Int /\ cur[k] \in Int /\ Held[k] \in Int /\ Captured[k] \in Int
      BY <1>1, StateSyncAssumption DEF Typed, States, Held, Captured, Deref, Refs
    <2>4. \A v \in Int : cache[k] <= v => cache'[k] <= v
      BY <1>3, <2>3
    <2> QED
      BY <2>1, <2>2, <2>3, <2>4
  <1>6. OnItsWay'
    BY <1>1 DEF OnItsWay
  <1> QED
    BY <1>4, <1>5, <1>6 DEF IInv

\* The frame in front is read, or discarded by the rate limit.
LEMMA HubTakesInv ==
  ASSUME IInv, toHub # <<>>, toHub' = Tail(toHub), spent' \in [DOMAIN Budget -> Nat],
         \/ cache' = ApplyPatch(cache, Head(toHub).patch) /\ spent' = spent
         \/ cache' = cache /\ spent'["rate"] # 0,
         UNCHANGED <<publisherVars, clientVars, graceArmed>>
  PROVE  IInv' /\ \A k \in Keys : cache'[k] >= cache[k]
  <1>1. /\ Typed /\ InOrder /\ OnItsWay /\ sock = "open" /\ Held' = Held /\ Captured' = Captured
        /\ toHub \in Seq(Frames) /\ cache \in States
        /\ UNCHANGED <<cur, sent, clock, debounce, last, captured, sock>>
    BY DEF IInv, Typed, publisherVars, clientVars, Held, Captured
  <1>2. Head(toHub) \in Frames /\ toHub' \in Seq(Frames)
    BY <1>1, HeadTailProperties
  <1>3. Typed'
    <2>1. cache' \in States
      BY <1>1, <1>2, PatchedCache
    <2> QED
      BY <1>1, <1>2, <2>1 DEF Typed
  <1>4. ASSUME NEW k \in Keys
        PROVE  /\ Ordered(toHub, cache, k)
               /\ cache'[k] >= cache[k] /\ Ordered(toHub', cache', k)
               /\ \A v \in Int : AtMost(toHub, cache, k, v) => AtMost(toHub', cache', k, v)
    <2>1. Ordered(toHub, cache, k) /\ cache[k] >= cache[k]
      <3>1. cache[k] \in Int
        BY <1>1, StateSyncAssumption DEF States
      <3> QED
        BY <1>1, <3>1 DEF InOrder
    <2> QED
      BY <1>1, <2>1, ReadOrdered
  <1>5. InOrder'
    <2> SUFFICES ASSUME NEW k \in Keys
                 PROVE  /\ cur[k] <= clock /\ sent[k] <= clock
                        /\ Held[k] <= clock /\ Captured[k] <= clock
                        /\ AtMost(toHub', cache', k, clock) /\ Ordered(toHub', cache', k)
                        /\ cur[k] # 0 => /\ Held[k] <= cur[k] /\ Captured[k] <= cur[k]
                                         /\ AtMost(toHub', cache', k, cur[k])
                        /\ Held[k] # 0 => AtMost(toHub', cache', k, Held[k])
      BY <1>1 DEF InOrder
    <2>1. clock \in Int /\ cur[k] \in Int /\ Held[k] \in Int
      BY <1>1, StateSyncAssumption DEF Typed, States, Held, Deref, Refs
    <2> QED
      BY <1>1, <1>4, <2>1 DEF InOrder
  <1>6. OnItsWay'
    <2> SUFFICES ASSUME spent'["rate"] = 0, NEW k \in Keys, cur[k] # 0, Held[k] = cur[k]
                 PROVE  \/ Arrives(toHub', cache', k, cur[k])
                        \/ k = Ide /\ debounce # {} /\ sent[k] # cur[k]
      BY <1>1 DEF OnItsWay
    <2>1. \/ Arrives(toHub, cache, k, cur[k])
          \/ k = Ide /\ debounce # {} /\ sent[k] # cur[k]
      BY <1>1 DEF OnItsWay
    <2> QED
      BY <1>1, <2>1, ReadArrives
  <1> QED
    BY <1>3, <1>4, <1>5, <1>6 DEF IInv

LEMMA HubReadsInv ==
  ASSUME IInv, HubReads
  PROVE  IInv' /\ \A k \in Keys : cache'[k] >= cache[k]
  <1>1. spent' \in [DOMAIN Budget -> Nat]
    BY DEF IInv, Typed, HubReads
  <1> QED
    BY <1>1, HubTakesInv DEF HubReads

LEMMA HubDropsInv ==
  ASSUME IInv, HubDrops
  PROVE  IInv'
  <1>1. Typed /\ "rate" \in DOMAIN Budget /\ Spend("rate")
    BY DEF IInv, Budget, HubDrops
  <1>2. spent' \in [DOMAIN Budget -> Nat] /\ spent'["rate"] # 0
    BY <1>1, SpendTyped
  <1> QED
    BY <1>2, HubTakesInv DEF HubDrops, hubVars

LEMMA NextInv ==
  ASSUME IInv, [Next]_vars
  PROVE  IInv'
  <1>1. CASE \E category \in Categories : EditorEvent(category) \/ DebounceFires(category)
    BY <1>1, EditorEventInv, DebounceFiresInv
  <1>2. CASE FoldersEvent \/ KeyframeFires \/ GetState
    BY <1>2, FoldersEventInv, KeyframeFiresInv, GetStateInv
  <1>3. CASE \E e \in Exts : PublishState(e)
    BY <1>3, PublishStateInv
  <1>4. CASE HubReady \/ SocketOpens \/ SocketCloses \/ ReconnectTimerFires \/ Reload
    BY <1>4, HubReadyInv, SocketOpensInv, SocketClosesInv, ReconnectTimerFiresInv, ReloadInv
  <1>5. CASE HubNoticesClose \/ GraceExpires \/ HubReads \/ HubDrops
    BY <1>5, HubNoticesCloseInv, GraceExpiresInv, HubReadsInv, HubDropsInv
  <1>6. CASE UNCHANGED vars
    BY <1>6 DEF vars, publisherVars, clientVars, hubVars, IInv, Typed, InOrder, OnItsWay,
       Held, Captured
  <1> QED
    BY <1>1, <1>2, <1>3, <1>4, <1>5, <1>6 DEF Next

-----------------------------------------------------------------------------
(* Theorems.                                                               *)

\* The copies of the state in the publisher, the client, the frames and the
\* Hub's cache stay in the order of time, and what the client would replay and
\* is up to date is in the cache, on its way or due.
THEOREM Invariance == Spec => []IInv
  <1>1. Init => IInv
    BY InitInv
  <1>2. IInv /\ [Next]_vars => IInv'
    BY NextInv
  <1> QED
    BY <1>1, <1>2, PTL DEF Spec

\* Once nothing is on its way, publisher, client and Hub never disagree on a
\* key on which the first two agree: StatePublisher.flushPatch,
\* WsClient.lastState and StateCache.applyPatch, whatever was dropped,
\* reconnected or cleared.
THEOREM ReplayAccurateHolds == Spec => []ReplayAccurate
  <1>1. IInv => ReplayAccurate
    <2> SUFFICES ASSUME IInv, Quiet, spent["rate"] = 0,
                        NEW k \in Keys, cur[k] # 0, Held[k] = cur[k]
                 PROVE  cache[k] = cur[k]
      BY DEF ReplayAccurate, Held
    <2>1. toHub = <<>> /\ debounce = {} /\ sock = "open"
      BY DEF Quiet
    <2>2. Arrives(toHub, cache, k, cur[k])
      BY <2>1 DEF IInv, OnItsWay
    <2>3. Carriers(toHub, k) = {}
      BY <2>1 DEF Carriers
    <2> QED
      BY <2>2, <2>3 DEF Arrives
  <1> QED
    BY <1>1, Invariance, PTL

\* No reconnect, replay or late frame takes the Hub's cache back to an older
\* value of a key.
THEOREM NeverBackwardsHolds == Spec => NeverBackwards
  <1>1. ASSUME IInv, [Next]_vars
        PROVE  [\A k \in Keys : cache'[k] >= cache[k] \/ (k \in Exts /\ GraceExpires)]_vars
    <2> SUFFICES ASSUME Next, NEW k \in Keys
                 PROVE  cache'[k] >= cache[k] \/ (k \in Exts /\ GraceExpires)
      BY <1>1
    <2>1. cache[k] \in Int
      BY <1>1, StateSyncAssumption DEF IInv, Typed, States
    <2>2. CASE HubReads
      BY <1>1, <2>2, HubReadsInv
    <2>3. CASE GraceExpires
      <3>1. CASE k = Ide
        BY <2>1, <2>3, <3>1 DEF GraceExpires, Keys
      <3>2. CASE k # Ide
        BY <2>3, <3>2 DEF Keys
      <3> QED
        BY <3>1, <3>2
    <2>4. CASE cache' = cache
      BY <2>1, <2>4
    <2>5. CASE Next /\ ~HubReads /\ ~GraceExpires
      <3>1. cache' = cache
        BY <2>5 DEF Next, hubVars, EditorEvent, DebounceFires, FoldersEvent, PublishState,
           KeyframeFires, GetState, HubReady, SocketOpens, SocketCloses,
           ReconnectTimerFires, Reload, HubNoticesClose, HubDrops
      <3> QED
        BY <2>4, <3>1
    <2> QED
      BY <2>2, <2>3, <2>5
  <1>2. IInv /\ [Next]_vars
          => [\A k \in Keys : cache'[k] >= cache[k] \/ (k \in Exts /\ GraceExpires)]_vars
    BY <1>1
  <1> QED
    BY <1>2, Invariance, PTL DEF Spec, NeverBackwards

=============================================================================
