------------------------- MODULE ToolCatalog_proofs -------------------------
(***************************************************************************)
(* What is proved of ToolCatalog, for all names, batches and bounds: the     *)
(* registry, the Hub's catalog and the agent's list, each relative to the    *)
(* one before it.                                                           *)
(***************************************************************************)
EXTENDS ToolCatalog, SequenceTheorems, TLAPS

Catalogs == [Names -> Batches \cup {NoBatch}]
Last(s)  == s[Len(s)]
Stages   == {"new", "registered", "disposed", "again", "gone"}

Shape ==
  /\ batch \in [Batches -> Stages]
  /\ tools \in Catalogs
  /\ toHub \in Seq(Catalogs)

\* Only an open socket carries frames, and unless a send is due the last of what is
\* on its way, or else what the Hub has, is the registry.
Delivery ==
  /\ sock # "open" => toHub = <<>>
  /\ sock = "open" /\ ~sendDue =>
       tools = IF toHub = <<>> THEN bridgeTools ELSE Last(toHub)

\* The Hub remembers what it has announced, and an agent without a notification
\* has that.
Announced ==
  /\ notified = Listing(bridgeTools)
  /\ sse /\ listed /\ ~noteDue => agentNames = notified

\* A batch with that name, other than b, has been disposed of more than once.
Robbed(b, n) == \E c \in Batches \ {b} : batch[c] = "again" /\ n \in Provides[c]

IInv == Shape /\ BatchesKeepNames /\ Delivery /\ Announced

USE ToolCatalogAssumption DEF Catalogs, Stages

\* What a step that does not touch the registry leaves alone.
LEMMA RegistryKept ==
  ASSUME Shape, BatchesKeepNames, UNCHANGED <<batch, tools>>
  PROVE  BatchesKeepNames' /\ tools' \in Catalogs
         /\ batch' \in [Batches -> Stages]
  BY DEF Shape, BatchesKeepNames

\* A batch is registered only when all of its names are free.
LEMMA RegisterKeeps ==
  ASSUME IInv, NEW b \in Batches, RegisterTools(b)
  PROVE  IInv'
  <1>1. Shape'
    BY DEF IInv, Shape, RegisterTools
  <1>2. BatchesKeepNames'
    <2>1. \A n \in Provides[b] : n \in Names /\ tools[n] = NoBatch
      BY DEF RegisterTools, Listing
    <2>2. SUFFICES ASSUME NEW c \in Batches, NEW n \in Names
                   PROVE  /\ tools'[n] = c => batch'[c] = "registered" /\ n \in Provides[c]
                          /\ batch'[c] = "registered" /\ n \in Provides[c] =>
                               tools'[n] = c \/ Robbed(c, n)'
      BY DEF BatchesKeepNames, Robbed
    <2>3. Robbed(c, n) => Robbed(c, n)'
      BY DEF IInv, Shape, Robbed, RegisterTools
    <2>4. CASE c = b
      BY <2>1, <2>4 DEF IInv, Shape, BatchesKeepNames, RegisterTools
    <2>5. CASE c # b
      BY <2>1, <2>3, <2>5 DEF IInv, Shape, BatchesKeepNames, Robbed, RegisterTools
    <2> QED
      BY <2>4, <2>5
  <1>3. Delivery' /\ Announced'
    BY DEF IInv, Delivery, Announced, RegisterTools, hubVars, agentVars, Listing
  <1> QED
    BY <1>1, <1>2, <1>3 DEF IInv

\* The first dispose of a batch takes the name of another only after a second dispose
\* of some batch took its own; that batch, or b itself, is the one that robs.
LEMMA DisposeKeeps ==
  ASSUME IInv, NEW b \in Batches, Dispose(b)
  PROVE  IInv'
  <1>1. Shape'
    BY DEF IInv, Shape, Dispose, RemoveNames
  <1>2. BatchesKeepNames'
    <2>1. SUFFICES ASSUME NEW c \in Batches, NEW n \in Names
                   PROVE  /\ tools'[n] = c => batch'[c] = "registered" /\ n \in Provides[c]
                          /\ batch'[c] = "registered" /\ n \in Provides[c] =>
                               tools'[n] = c \/ Robbed(c, n)'
      BY DEF BatchesKeepNames, Robbed
    <2>2. /\ c # b => batch'[c] = batch[c]
          /\ batch'[b] \in {"disposed", "again"}
          /\ batch[b] # "registered" => batch'[b] = "again"
          /\ \A d \in Batches : batch[d] = "again" => batch'[d] = "again"
      BY DEF IInv, Shape, Dispose
    <2>3. tools'[n] = IF n \in Provides[b] THEN NoBatch ELSE tools[n]
      BY DEF Dispose, RemoveNames
    <2>4. tools'[n] = c => batch'[c] = "registered" /\ n \in Provides[c]
      BY <2>2, <2>3 DEF IInv, BatchesKeepNames
    <2>5. ASSUME batch'[c] = "registered", n \in Provides[c]
          PROVE  tools'[n] = c \/ Robbed(c, n)'
      <3>1. c # b /\ batch[c] = "registered"
        BY <2>2, <2>5
      <3>2. tools[n] = c \/ Robbed(c, n)
        BY <2>5, <3>1 DEF IInv, BatchesKeepNames, Robbed
      <3>3. CASE Robbed(c, n)
        BY <2>2, <3>3 DEF Robbed
      <3>4. CASE tools[n] = c /\ n \notin Provides[b]
        BY <2>3, <3>4
      <3>5. CASE tools[n] = c /\ n \in Provides[b]
        <4>1. CASE batch[b] = "registered"
          <5>1. tools[n] # b
            BY <3>1, <3>5
          <5>2. PICK d \in Batches \ {b} : batch[d] = "again" /\ n \in Provides[d]
            BY <3>5, <4>1, <5>1 DEF IInv, BatchesKeepNames
          <5>3. d # c
            BY <3>1, <5>2
          <5> QED
            BY <2>2, <5>2, <5>3 DEF Robbed
        <4>2. CASE batch[b] # "registered"
          BY <2>2, <3>1, <3>5, <4>2 DEF Robbed
        <4> QED
          BY <4>1, <4>2
      <3> QED
        BY <3>2, <3>3, <3>4, <3>5
    <2> QED
      BY <2>4, <2>5
  <1>3. Delivery' /\ Announced'
    BY DEF IInv, Delivery, Announced, Dispose, RemoveNames, hubVars, agentVars, Listing
  <1> QED
    BY <1>1, <1>2, <1>3 DEF IInv

\* The debounced send puts the registry behind everything that is on its way.
LEMMA SendKeeps ==
  ASSUME IInv, SendTimerFires
  PROVE  IInv'
  <1>1. toHub \in Seq(Catalogs) /\ tools \in Catalogs
    BY DEF IInv, Shape
  <1>2. /\ Append(toHub, tools) \in Seq(Catalogs)
        /\ Append(toHub, tools) # <<>>
        /\ Last(Append(toHub, tools)) = tools
    BY <1>1, AppendProperties DEF Last
  <1>3. Shape' /\ BatchesKeepNames'
    BY <1>2, RegistryKept DEF IInv, Shape, SendTimerFires
  <1>4. Delivery' /\ Announced'
    BY <1>2 DEF IInv, Delivery, Announced, SendTimerFires, hubVars, agentVars, Listing, Last
  <1> QED
    BY <1>3, <1>4 DEF IInv

\* The open handler sends the registry first.
LEMMA OpenKeeps ==
  ASSUME IInv, SocketOpens
  PROVE  IInv'
  <1>1. <<tools>> \in Seq(Catalogs) /\ <<tools>> # <<>> /\ Last(<<tools>>) = tools
    BY DEF IInv, Shape, Last
  <1>2. Shape' /\ BatchesKeepNames'
    BY <1>1, RegistryKept DEF IInv, Shape, SocketOpens, bridgeVars
  <1>3. Delivery' /\ Announced'
    BY <1>1 DEF IInv, Delivery, Announced, SocketOpens, bridgeVars, hubVars, agentVars,
                Listing, Last
  <1> QED
    BY <1>2, <1>3 DEF IInv

\* A socket that is not open has nothing on its way.
LEMMA CloseKeeps ==
  ASSUME IInv, HubReady \/ SocketCloses \/ ReconnectTimerFires
  PROVE  IInv'
  <1>1. /\ sock' # "open" /\ toHub' = <<>>
        /\ UNCHANGED <<batch, tools, sendDue, bridgeTools, notified, sse, noteDue,
                       agentNames, listed>>
    BY DEF IInv, Delivery, HubReady, SocketCloses, ReconnectTimerFires, bridgeVars, hubVars,
           agentVars
  <1>2. Shape' /\ BatchesKeepNames'
    BY <1>1, RegistryKept DEF IInv, Shape
  <1>3. Delivery' /\ Announced'
    BY <1>1 DEF IInv, Delivery, Announced, Listing
  <1> QED
    BY <1>2, <1>3 DEF IInv

\* With the window the registry goes, and every batch with it.
LEMMA ReloadKeeps ==
  ASSUME IInv, Reload
  PROVE  IInv'
  <1>1. Shape'
    BY DEF IInv, Shape, Reload, NoTools
  <1>2. BatchesKeepNames'
    BY DEF IInv, Shape, BatchesKeepNames, Reload, NoTools
  <1>3. Delivery' /\ Announced'
    BY DEF IInv, Delivery, Announced, Reload, hubVars, agentVars, Listing
  <1> QED
    BY <1>1, <1>2, <1>3 DEF IInv

\* The Hub reads the frames in order, so the last one it reads is the registry.
LEMMA ReadKeeps ==
  ASSUME IInv, HubReads
  PROVE  IInv'
  <1>1. toHub \in Seq(Catalogs) /\ toHub # <<>>
    BY DEF IInv, Shape, HubReads
  <1>2. /\ Head(toHub) \in Catalogs /\ Tail(toHub) \in Seq(Catalogs)
        /\ Tail(toHub) = <<>> => Last(toHub) = Head(toHub)
        /\ Tail(toHub) # <<>> => Last(Tail(toHub)) = Last(toHub)
    <2>1. /\ Head(toHub) \in Catalogs /\ Tail(toHub) \in Seq(Catalogs)
          /\ Len(Tail(toHub)) = Len(toHub) - 1 /\ Len(toHub) \in Nat \ {0}
          /\ \A i \in 1 .. Len(Tail(toHub)) : Tail(toHub)[i] = toHub[i + 1]
      BY <1>1, HeadTailProperties, EmptySeq, LenProperties
    <2>2. Tail(toHub) = <<>> => Last(toHub) = Head(toHub)
      <3>1. HAVE Tail(toHub) = <<>>
      <3>2. Len(Tail(toHub)) = 0
        BY <3>1
      <3>3. Len(Tail(toHub)) = Len(toHub) - 1 /\ Len(toHub) \in Nat
        BY <2>1
      <3>4. Len(toHub) = 1
        BY <3>2, <3>3
      <3> QED
        BY <1>1, <3>4 DEF Last
    <2>3. Tail(toHub) # <<>> => Last(Tail(toHub)) = Last(toHub)
      <3>1. HAVE Tail(toHub) # <<>>
      <3>2. Len(Tail(toHub)) \in 1 .. Len(Tail(toHub))
        BY <2>1, <3>1, EmptySeq, LenProperties
      <3> QED
        BY <2>1, <3>2 DEF Last
    <2> QED
      BY <2>1, <2>2, <2>3
  <1>3. Shape' /\ BatchesKeepNames'
    BY <1>2, RegistryKept DEF IInv, Shape, HubReads, bridgeVars
  <1>4. Delivery'
    BY <1>1, <1>2 DEF IInv, Delivery, HubReads, bridgeVars, Last
  <1>5. Announced'
    BY DEF IInv, Announced, HubReads, NotifyChange, Listing
  <1> QED
    BY <1>3, <1>4, <1>5 DEF IInv

\* The agent's steps leave registry and Hub alone.
LEMMA AgentKeeps ==
  ASSUME IInv, AgentConnects \/ SseCloses \/ AgentLists
  PROVE  IInv'
  <1>1. UNCHANGED <<batch, tools, sendDue, sock, toHub, bridgeTools, notified>>
    BY DEF AgentConnects, SseCloses, AgentLists, bridgeVars, hubVars
  <1>2. Shape' /\ BatchesKeepNames' /\ Delivery'
    BY <1>1, RegistryKept DEF IInv, Shape, Delivery, Last
  <1>3. Announced'
    BY <1>1 DEF IInv, Announced, AgentConnects, SseCloses, AgentLists, Listing
  <1> QED
    BY <1>2, <1>3 DEF IInv

LEMMA InvInit == Init => IInv
  <1> SUFFICES ASSUME Init PROVE IInv
    OBVIOUS
  <1>1. Shape
    BY DEF Init, Shape, NoTools
  <1>2. BatchesKeepNames
    BY DEF Init, BatchesKeepNames, NoTools
  <1>3. Delivery /\ Announced
    BY DEF Init, Delivery, Announced, Listing, NoTools
  <1> QED
    BY <1>1, <1>2, <1>3 DEF IInv

LEMMA InvNext == IInv /\ [Next]_vars => IInv'
  <1> SUFFICES ASSUME IInv, [Next]_vars PROVE IInv'
    OBVIOUS
  <1>1. CASE \E b \in Batches : RegisterTools(b) \/ Dispose(b)
    BY <1>1, RegisterKeeps, DisposeKeeps
  <1>2. CASE SendTimerFires
    BY <1>2, SendKeeps
  <1>3. CASE SocketOpens
    BY <1>3, OpenKeeps
  <1>4. CASE HubReady \/ SocketCloses \/ ReconnectTimerFires
    BY <1>4, CloseKeeps
  <1>5. CASE Reload
    BY <1>5, ReloadKeeps
  <1>6. CASE HubReads
    BY <1>6, ReadKeeps
  <1>7. CASE AgentConnects \/ SseCloses \/ AgentLists
    BY <1>7, AgentKeeps
  <1>8. CASE UNCHANGED vars
    BY <1>8 DEF IInv, Shape, BatchesKeepNames, Delivery, Announced, Listing, Last, vars,
                bridgeVars, hubVars, agentVars
  <1> QED
    BY <1>1, <1>2, <1>3, <1>4, <1>5, <1>6, <1>7, <1>8 DEF Next

\* The invariant the theorems below are parts of.
THEOREM Invariance == Spec => []IInv
  BY InvInit, InvNext, PTL DEF Spec

\* No name outlives its batch, and a registered batch keeps its names whatever else is
\* registered, disposed of or refused, unless one with a name of its own was disposed
\* of more than once (ExtensionRegistry.registerTools and its disposable).
THEOREM NamesAreKept == Spec => []BatchesKeepNames
  <1>1. IInv => BatchesKeepNames
    BY DEF IInv
  <1> QED
    BY <1>1, Invariance, PTL

\* A Hub with nothing to read has the registry: the send on every opening of the
\* socket makes up for the debounced sends that were dropped (WsClient, ToolRegistry).
THEOREM CatalogIsAccurate == Spec => []CatalogAccurate
  <1>1. IInv => CatalogAccurate
    BY DEF IInv, Delivery, CatalogAccurate
  <1> QED
    BY <1>1, Invariance, PTL

\* An agent whose list is out of date has a notification waiting, for any number of
\* changes between two of its requests (the notification of server.ts).
THEOREM AgentIsTold == Spec => []AgentHears
  <1>1. IInv => AgentHears
    BY DEF IInv, Announced, AgentHears
  <1> QED
    BY <1>1, Invariance, PTL

=============================================================================
