------------------------ MODULE HubLifecycle_proofs ------------------------
(***************************************************************************)
(* What is proved of HubLifecycle, for all ports, bounds and combinations of *)
(* faults: the secrets of the manager and of its client; that a window that  *)
(* is not reloaded has one Hub; and that windows which follow one another    *)
(* leave no Hub behind and agree with theirs on the secret.                 *)
(***************************************************************************)
EXTENDS HubLifecycle, SequenceTheorems, FiniteSetTheorems, TLAPS

Hubs    == [up : {"down", "starting", "up"}, secret : Nat, seen : BOOLEAN, exit : BOOLEAN]
Clients == [sock : {"trying", "open"}, secret : Nat, port : Ports]

ManagerShape ==
  /\ act \in {"off", "polling", "done", "closing"}
  /\ rst \in {"idle", "reauth", "persist", "kill", "spawn", "polling"}
  /\ child \in Ports \cup {0} /\ target \in Ports
  /\ drawn \in Nat /\ procSecret \in Nat /\ stored \in Nat /\ gen \in Nat

Shape ==
  /\ ManagerShape
  /\ hub \in [Ports -> Hubs] /\ registry \in Ports \cup {0}
  /\ post \in [port : Ports \cup {0}, secret : Nat]
  /\ creating \in Seq(Ports) /\ clients \in Seq(Clients)
  /\ used \in [may : Scenarios, faults : Nat, commands : Nat]

\* A Hub that is up has entered itself in the registry.
Registered == registry = 0 => \A p \in Ports : hub[p].up # "up"

\* Between two windows there is nothing but Hubs and what is stored.
OffIsBlank == act = "off" => rst = "idle" /\ child = 0 /\ creating = <<>> /\ clients = <<>>

\* What is in memory is stored, and a restart that polls has stored its secret.
MemoryStored ==
  /\ act # "off" => procSecret = stored
  /\ rst = "polling" => stored = drawn

\* Every end of a restart brings the last client up to date, also one created
\* while the restart was in progress.
LastFresh == rst = "idle" => clients = <<>> \/ clients[Len(clients)].secret = stored

\* In its first window the manager has at most its child, with the secret the stage
\* of the restart tells; only between a lost answer and the kill it is unknown.
Alive(p) == hub[p].up # "down"
OneWindow ==
  NoReload =>
    /\ act # "closing"
    /\ rst = "spawn" => child = 0
    /\ \A p \in Ports : Alive(p) =>
         /\ p = child
         /\ rst \in {"idle", "reauth", "polling"} => hub[p].secret = procSecret
         /\ rst = "persist" => hub[p].secret = drawn

IInv == Shape /\ Registered /\ OffIsBlank /\ MemoryStored /\ LastFresh /\ OneWindow

USE HubLifecycleAssumption DEF Trying

-----------------------------------------------------------------------------
(* Helpers.                                                                *)

\* Sockets may be lost and secrets renewed: who the clients are stays the same.
LEMMA CutType ==
  ASSUME NEW cs \in Seq(Clients), NEW p
  PROVE  /\ Cut(cs, p) \in Seq(Clients) /\ Len(Cut(cs, p)) = Len(cs)
         /\ DOMAIN Cut(cs, p) = DOMAIN cs
         /\ \A i \in DOMAIN cs : Cut(cs, p)[i].secret = cs[i].secret
         /\ cs = <<>> => Cut(cs, p) = <<>>
  <1>1. DOMAIN cs = 1 .. Len(cs) /\ Len(cs) \in Nat /\ \A i \in 1 .. Len(cs) : cs[i] \in Clients
    BY LenProperties, ElementOfSeq
  <1>2. Cut(cs, p) \in [1 .. Len(cs) -> Clients]
    BY <1>1 DEF Cut, Clients
  <1>3. Cut(cs, p) \in Seq(Clients) /\ Len(Cut(cs, p)) = Len(cs)
    BY <1>1, <1>2, LenProperties
  <1>4. \A i \in DOMAIN cs : Cut(cs, p)[i].secret = cs[i].secret
    BY <1>1 DEF Cut, Clients
  <1>5. cs = <<>> => Cut(cs, p) = <<>>
    BY <1>1, <1>3, EmptySeq
  <1> QED
    BY <1>1, <1>2, <1>3, <1>4, <1>5

\* updateSecret
LEMMA RotatedType ==
  ASSUME IInv, OnCredentialsRotated
  PROVE  /\ clients' \in Seq(Clients)
         /\ clients = <<>> => clients' = <<>>
         /\ clients' = <<>> \/ clients'[Len(clients')].secret = drawn
  <1>1. clients \in Seq(Clients) /\ drawn \in Nat
    BY DEF IInv, Shape, ManagerShape
  <1>2. /\ DOMAIN clients = 1 .. Len(clients) /\ Len(clients) \in Nat
        /\ \A i \in 1 .. Len(clients) : clients[i] \in Clients
    BY <1>1, LenProperties, ElementOfSeq
  <1>3. clients' \in [1 .. Len(clients) -> Clients]
    BY <1>1, <1>2 DEF OnCredentialsRotated, Clients
  <1>4. clients' \in Seq(Clients) /\ Len(clients') = Len(clients)
    BY <1>2, <1>3, LenProperties
  <1>5. clients = <<>> <=> Len(clients) = 0
    BY <1>1, EmptySeq
  <1>6. clients' = <<>> <=> Len(clients') = 0
    BY <1>4, EmptySeq
  <1>7. CASE Len(clients) = 0
    BY <1>4, <1>5, <1>6, <1>7
  <1>8. CASE Len(clients) # 0
    <2>1. Len(clients) \in 1 .. Len(clients)
      BY <1>2, <1>8
    <2>2. clients'[Len(clients)] = [clients[Len(clients)] EXCEPT !.secret = drawn]
      BY <1>2, <2>1 DEF OnCredentialsRotated
    <2>3. clients'[Len(clients)].secret = drawn
      BY <1>2, <2>1, <2>2 DEF Clients
    <2> QED
      BY <1>4, <1>5, <1>8, <2>3
  <1> QED
    BY <1>7, <1>8

\* A client that exists has a last one.
LEMMA NonEmptyLast ==
  ASSUME IInv, clients # <<>>
  PROVE  Len(clients) \in DOMAIN clients /\ clients[Len(clients)] \in Clients
  <1>1. clients \in Seq(Clients)
    BY DEF IInv, Shape
  <1>2. DOMAIN clients = 1 .. Len(clients) /\ Len(clients) \in Nat /\ Len(clients) # 0
    BY <1>1, LenProperties, EmptySeq
  <1>3. Len(clients) \in 1 .. Len(clients)
    BY <1>2
  <1> QED
    BY <1>1, <1>2, <1>3, ElementOfSeq

\* onHubReady
LEMMA ReadyType ==
  ASSUME IInv, NEW p \in Ports, OnHubReady(p)
  PROVE  creating' \in Seq(Ports)
  BY AppendProperties DEF IInv, Shape, OnHubReady

\* A spawn on a port that is free.
LEMMA SpawnType ==
  ASSUME IInv, NEW s \in Nat, Spawn(s)
  PROVE  \E p \in Ports :
           /\ hub' = [hub EXCEPT ![p] = [up |-> "starting", secret |-> s,
                                         seen |-> FALSE, exit |-> FALSE]]
           /\ hub' \in [Ports -> Hubs] /\ hub[p].up = "down"
           /\ child' = p /\ procSecret' = s
  <1>1. PICK p \in Ports :
          /\ hub[p].up = "down"
          /\ hub' = [hub EXCEPT ![p] = [up |-> "starting", secret |-> s,
                                        seen |-> FALSE, exit |-> FALSE]]
          /\ child' = p /\ procSecret' = s
    BY DEF Spawn
  <1>2. [up |-> "starting", secret |-> s, seen |-> FALSE, exit |-> FALSE] \in Hubs
    BY DEF Hubs
  <1>3. hub' \in [Ports -> Hubs]
    BY <1>1, <1>2 DEF IInv, Shape
  <1> QED
    BY <1>1, <1>3

\* A fault keeps the scenario.
LEMMA FaultType ==
  ASSUME IInv, NEW kind, Fault(kind)
  PROVE  used' \in [may : Scenarios, faults : Nat, commands : Nat] /\ used'.may = used.may
         /\ kind \in used.may
  <1>1. used \in [may : Scenarios, faults : Nat, commands : Nat]
    BY DEF IInv, Shape
  <1>2. used' = [used EXCEPT !.faults = used.faults + 1] /\ kind \in used.may
    BY DEF Fault, Faults
  <1>3. used.faults + 1 \in Nat
    BY <1>1
  <1> QED
    BY <1>1, <1>2, <1>3

\* The exit of a Hub, whatever ends it: with the child the restart begins, and no
\* other Hub is left in a first window.
LEMMA ExitKeeps ==
  ASSUME IInv, NEW p \in Ports, HubExits(p),
         UNCHANGED <<registry, act, target, procSecret, stored, creating>>,
         post' = post, used' \in [may : Scenarios, faults : Nat, commands : Nat],
         used'.may = used.may
  PROVE  IInv'
  <1>1. /\ clients' \in Seq(Clients) /\ Len(clients') = Len(clients)
        /\ \A i \in DOMAIN clients : clients'[i].secret = clients[i].secret
        /\ clients = <<>> => clients' = <<>>
    BY CutType DEF IInv, Shape, HubExits
  <1>2. hub' \in [Ports -> Hubs] /\ hub'[p].up = "down"
        /\ \A q \in Ports \ {p} : hub'[q] = hub[q]
    BY DEF IInv, Shape, HubExits, Down, Hubs
  <1>3. \/ p # child /\ UNCHANGED <<child, rst, gen, drawn>>
        \/ p = child /\ child' = 0
             /\ \/ rst = "idle" /\ rst' = "reauth" /\ gen' = gen + 1 /\ drawn' = gen + 1
                \/ UNCHANGED <<rst, gen, drawn>>
    BY DEF HubExits, BeginRestart
  <1>4. Shape'
    <2>1. ManagerShape'
      <3>1. ManagerShape
        BY DEF IInv, Shape
      <3>2. gen + 1 \in Nat
        BY <3>1 DEF ManagerShape
      <3> QED
        BY <1>3, <3>1, <3>2 DEF ManagerShape
    <2>2. UNCHANGED <<registry, post, creating>> /\ Shape
      BY DEF IInv
    <2> QED
      BY <1>1, <1>2, <2>1, <2>2 DEF Shape
  <1>5. Registered'
    BY <1>2 DEF IInv, Registered
  <1>6. OffIsBlank' /\ MemoryStored'
    BY <1>1, <1>3 DEF IInv, OffIsBlank, MemoryStored
  <1>7. LastFresh'
    <2>1. CASE clients = <<>>
      BY <1>1, <2>1 DEF LastFresh
    <2>2. CASE clients # <<>>
      <3>1. Len(clients) \in DOMAIN clients
        BY <2>2, NonEmptyLast
      <3>2. clients'[Len(clients')].secret = clients[Len(clients)].secret
        BY <1>1, <3>1
      <3> QED
        BY <1>3, <2>2, <3>2 DEF IInv, LastFresh
    <2> QED
      BY <2>1, <2>2
  <1>8. OneWindow'
    BY <1>2, <1>3 DEF IInv, OneWindow, NoReload, Faults, Alive
  <1> QED
    BY <1>4, <1>5, <1>6, <1>7, <1>8 DEF IInv

-----------------------------------------------------------------------------
(* The steps.                                                              *)

\* A spawn by activation: in a first window there was no Hub before.
LEMMA ActivateKeeps ==
  ASSUME IInv, Activate
  PROVE  IInv'
  <1>1. /\ act = "off" /\ act' \in {"polling", "done"}
        /\ UNCHANGED <<registry, post, rst, drawn, clients, used>>
        /\ rst = "idle" /\ child = 0 /\ creating = <<>> /\ clients = <<>>
    BY DEF IInv, OffIsBlank, Activate
  <1>2. NoReload => \A p \in Ports : ~Alive(p)
    BY <1>1 DEF IInv, OneWindow
  <1>3. CASE Up(registry) /\ hub[registry].seen /\ UNCHANGED <<gen, stored, hub, child, attempted>>
               /\ procSecret' = stored /\ target' = registry /\ OnHubReady(registry)
    <2>1. registry \in Ports /\ hub[registry].up = "up"
      BY <1>3 DEF IInv, Shape, Up
    <2>2. ~NoReload
      BY <1>2, <2>1 DEF Alive
    <2>3. creating' \in Seq(Ports)
      BY <1>3, <2>1, ReadyType
    <2>4. Shape'
      BY <1>1, <1>3, <2>1, <2>3 DEF IInv, Shape, ManagerShape
    <2>5. Registered' /\ OffIsBlank' /\ MemoryStored' /\ LastFresh'
      BY <1>1, <1>3 DEF IInv, Registered, OffIsBlank, MemoryStored, LastFresh
    <2>6. OneWindow'
      BY <1>1, <2>2 DEF OneWindow, NoReload, Faults
    <2> QED
      BY <2>4, <2>5, <2>6 DEF IInv
  <1>4. ASSUME NEW s \in Nat, Spawn(s), stored' = s, gen' \in Nat,
               UNCHANGED <<target, creating>>
        PROVE  IInv'
    <2>1. PICK p \in Ports :
            /\ hub' = [hub EXCEPT ![p] = [up |-> "starting", secret |-> s,
                                          seen |-> FALSE, exit |-> FALSE]]
            /\ hub' \in [Ports -> Hubs] /\ hub[p].up = "down"
            /\ child' = p /\ procSecret' = s
      BY <1>4, SpawnType
    <2>2. Shape'
      BY <1>1, <1>4, <2>1 DEF IInv, Shape, ManagerShape
    <2>3. Registered'
      BY <1>1, <2>1 DEF IInv, Shape, Registered
    <2>4. OffIsBlank' /\ MemoryStored' /\ LastFresh'
      BY <1>1, <1>4, <2>1 DEF IInv, OffIsBlank, MemoryStored, LastFresh
    <2>5. OneWindow'
      BY <1>1, <1>2, <2>1 DEF IInv, Shape, OneWindow, NoReload, Faults, Alive
    <2> QED
      BY <2>2, <2>3, <2>4, <2>5 DEF IInv
  <1>5. stored \in Nat /\ gen \in Nat /\ gen + 1 \in Nat
    BY DEF IInv, Shape, ManagerShape
  <1> QED
    BY <1>3, <1>4, <1>5 DEF Activate

\* Activation's poll, and its end without a Hub.
LEMMA PollKeeps ==
  ASSUME IInv, ActivationPolled \/ ActivationPollFails
  PROVE  IInv'
  <1>1. /\ act = "polling" /\ act' = "done"
        /\ UNCHANGED <<hub, registry, post, rst, drawn, child, procSecret, stored, gen, clients>>
    BY DEF ActivationPolled, ActivationPollFails, linkVars
  <1>2. /\ target' \in Ports /\ creating' \in Seq(Ports)
        /\ used' \in [may : Scenarios, faults : Nat, commands : Nat] /\ used'.may = used.may
    <2>1. CASE ActivationPolled
      <3>1. PICK p \in Ports : target' = p /\ OnHubReady(p)
        BY <2>1 DEF IInv, Shape, ManagerShape, ActivationPolled, Up
      <3> QED
        BY <2>1, <3>1, ReadyType DEF IInv, Shape, ActivationPolled
    <2>2. CASE ActivationPollFails
      BY <2>2, FaultType DEF IInv, Shape, ManagerShape, ActivationPollFails, linkVars
    <2> QED
      BY <2>1, <2>2
  <1>3. Shape'
    BY <1>1, <1>2 DEF IInv, Shape, ManagerShape
  <1>4. Registered' /\ OffIsBlank' /\ MemoryStored' /\ LastFresh'
    BY <1>1 DEF IInv, Registered, OffIsBlank, MemoryStored, LastFresh
  <1>5. OneWindow'
    BY <1>1, <1>2 DEF IInv, OneWindow, NoReload, Faults, Alive
  <1> QED
    BY <1>3, <1>4, <1>5 DEF IInv

\* The client is created with what is stored at that moment.
LEMMA CreateKeeps ==
  ASSUME IInv, CreateClient
  PROVE  IInv'
  <1>1. /\ creating \in Seq(Ports) /\ creating # <<>> /\ creating' = Tail(creating)
        /\ UNCHANGED <<hub, registry, post, managerVars, used>>
    BY DEF IInv, Shape, CreateClient
  <1>2. Head(creating) \in Ports /\ creating' \in Seq(Ports)
    BY <1>1, HeadTailProperties
  <1> DEFINE new == [sock |-> "trying", secret |-> stored, port |-> Head(creating)]
  <1>3. new \in Clients /\ clients \in Seq(Clients) /\ clients' = Append(clients, new)
    BY <1>2 DEF IInv, Shape, ManagerShape, Clients, CreateClient
  <1>4. clients' \in Seq(Clients) /\ clients'[Len(clients')] = new
    BY <1>3, AppendProperties
  <1>5. clients'[Len(clients')].secret = stored
    BY <1>4
  <1>6. Shape'
    BY <1>1, <1>2, <1>4 DEF IInv, Shape, ManagerShape, managerVars
  <1>7. Registered' /\ OffIsBlank' /\ MemoryStored' /\ LastFresh'
    BY <1>1, <1>5 DEF IInv, Registered, OffIsBlank, MemoryStored, LastFresh, managerVars
  <1>8. OneWindow'
    BY <1>1 DEF IInv, OneWindow, NoReload, Faults, Alive, managerVars
  <1> QED
    BY <1>6, <1>7, <1>8 DEF IInv

\* The command draws a secret nobody has yet.
LEMMA CommandKeeps ==
  ASSUME IInv, RestartCommand
  PROVE  IInv'
  <1>1. /\ act \in {"done", "polling"} /\ rst = "idle" /\ rst' = "reauth"
        /\ gen' = gen + 1 /\ drawn' = gen + 1
        /\ UNCHANGED <<hub, registry, post, act, child, target, procSecret, stored, linkVars>>
    BY DEF RestartCommand, BeginRestart
  <1>2. gen \in Nat /\ gen + 1 \in Nat /\ used.commands \in Nat
        /\ used \in [may : Scenarios, faults : Nat, commands : Nat]
    BY DEF IInv, Shape, ManagerShape
  <1>3. used' \in [may : Scenarios, faults : Nat, commands : Nat] /\ used'.may = used.may
    <2>1. used' = [used EXCEPT !.commands = used.commands + 1] /\ used.commands + 1 \in Nat
      BY <1>2 DEF RestartCommand
    <2> QED
      BY <1>2, <2>1
  <1>4. Shape'
    BY <1>1, <1>2, <1>3 DEF IInv, Shape, ManagerShape, linkVars
  <1>5. Registered' /\ OffIsBlank' /\ MemoryStored' /\ LastFresh'
    BY <1>1 DEF IInv, Registered, OffIsBlank, MemoryStored, LastFresh, linkVars
  <1>6. OneWindow'
    BY <1>1, <1>3 DEF IInv, OneWindow, NoReload, Faults, Alive
  <1> QED
    BY <1>4, <1>5, <1>6 DEF IInv

\* The reauthentication: the Hub that accepts it has the secret the restart drew.
LEMMA ReauthKeeps ==
  ASSUME IInv, ReauthAccepted \/ ReauthRefused
  PROVE  IInv'
  <1>1. /\ rst = "reauth" /\ rst' \in {"persist", "kill"}
        /\ UNCHANGED <<registry, post, act, drawn, child, target, procSecret, stored, gen,
                       creating, clients>>
    BY DEF ReauthAccepted, ReauthRefused, linkVars
  <1>2. used' \in [may : Scenarios, faults : Nat, commands : Nat] /\ used'.may = used.may
    BY FaultType DEF IInv, Shape, ReauthAccepted, ReauthRefused
  <1>3. /\ hub' \in [Ports -> Hubs]
        /\ \A p \in Ports : hub'[p].up = hub[p].up
        /\ rst' = "persist" => Up(target) /\ hub'[target].secret = drawn
    <2>1. target \in Ports /\ drawn \in Nat /\ hub \in [Ports -> Hubs]
      BY DEF IInv, Shape, ManagerShape
    <2>2. CASE ReauthAccepted
      BY <2>1, <2>2 DEF ReauthAccepted, Hubs
    <2>3. CASE ReauthRefused
      BY <2>1, <2>3 DEF ReauthRefused
    <2> QED
      BY <2>2, <2>3
  <1>4. Shape'
    BY <1>1, <1>2, <1>3 DEF IInv, Shape, ManagerShape
  <1>5. Registered' /\ OffIsBlank' /\ MemoryStored' /\ LastFresh'
    BY <1>1, <1>3 DEF IInv, Registered, OffIsBlank, MemoryStored, LastFresh
  <1>6. OneWindow'
    <2>1. target \in Ports /\ (Up(target) => Alive(target))
      BY DEF IInv, Shape, ManagerShape, Up, Alive
    <2> QED
      BY <1>1, <1>2, <1>3, <2>1 DEF IInv, OneWindow, NoReload, Faults, Alive
  <1> QED
    BY <1>4, <1>5, <1>6 DEF IInv

\* The soft restart: memory, storage and client get the secret the Hub has already.
LEMMA SoftKeeps ==
  ASSUME IInv, SoftRestart
  PROVE  IInv'
  <1>1. /\ rst = "persist" /\ rst' = "idle" /\ procSecret' = drawn /\ stored' = drawn
        /\ UNCHANGED <<hub, registry, post, act, drawn, child, target, gen, creating, used>>
    BY DEF SoftRestart
  <1>2. clients' \in Seq(Clients) /\ (clients' = <<>> \/ clients'[Len(clients')].secret = drawn)
        /\ (clients = <<>> => clients' = <<>>)
    BY RotatedType DEF SoftRestart
  <1>3. Shape'
    BY <1>1, <1>2 DEF IInv, Shape, ManagerShape
  <1>4. Registered' /\ OffIsBlank' /\ MemoryStored' /\ LastFresh'
    BY <1>1, <1>2 DEF IInv, Registered, OffIsBlank, MemoryStored, LastFresh
  <1>5. OneWindow'
    BY <1>1 DEF IInv, OneWindow, NoReload, Faults, Alive
  <1> QED
    BY <1>3, <1>4, <1>5 DEF IInv

\* In a first window the kill leaves no Hub.
LEMMA KillKeeps ==
  ASSUME IInv, KillHub
  PROVE  IInv'
  <1>1. /\ rst = "kill" /\ rst' = "spawn"
        /\ UNCHANGED <<registry, post, act, drawn, target, procSecret, stored, gen, creating, used>>
    BY DEF KillHub
  <1>2. /\ hub' \in [Ports -> Hubs] /\ child' = 0 /\ clients' \in Seq(Clients)
        /\ \A p \in Ports : hub'[p].up = "down" \/ (hub'[p] = hub[p] /\ p # child)
        /\ (clients = <<>> => clients' = <<>>)
    <2>1. /\ child \in Ports \cup {0} /\ hub \in [Ports -> Hubs] /\ Down \in Hubs
          /\ clients \in Seq(Clients) /\ 0 \notin Ports
      BY DEF IInv, Shape, ManagerShape, Down, Hubs
    <2>2. CASE child = 0
      BY <2>1, <2>2 DEF KillHub
    <2>3. CASE child # 0
      <3>1. hub' = [hub EXCEPT ![child] = Down] /\ clients' = Cut(clients, child) /\ child' = 0
        BY <2>3 DEF KillHub
      <3>2. Down.up = "down"
        BY DEF Down
      <3> QED
        BY <2>1, <2>3, <3>1, <3>2, CutType
    <2> QED
      BY <2>2, <2>3
  <1>3. Shape'
    BY <1>1, <1>2 DEF IInv, Shape, ManagerShape
  <1>4. Registered' /\ OffIsBlank' /\ MemoryStored' /\ LastFresh'
    BY <1>1, <1>2 DEF IInv, Registered, OffIsBlank, MemoryStored, LastFresh
  <1>5. OneWindow'
    BY <1>1, <1>2 DEF IInv, OneWindow, NoReload, Faults, Alive
  <1> QED
    BY <1>3, <1>4, <1>5 DEF IInv

\* The spawn of a hard restart.
LEMMA RespawnKeeps ==
  ASSUME IInv, RestartSpawns
  PROVE  IInv'
  <1>1. /\ rst = "spawn" /\ rst' = "polling" /\ stored' = drawn /\ Spawn(drawn)
        /\ UNCHANGED <<registry, post, act, drawn, target, gen, creating, clients, used>>
    BY DEF RestartSpawns, linkVars
  <1>2. drawn \in Nat
    BY DEF IInv, Shape, ManagerShape
  <1>3. PICK p \in Ports :
          /\ hub' = [hub EXCEPT ![p] = [up |-> "starting", secret |-> drawn,
                                        seen |-> FALSE, exit |-> FALSE]]
          /\ hub' \in [Ports -> Hubs] /\ hub[p].up = "down"
          /\ child' = p /\ procSecret' = drawn
    BY <1>1, <1>2, SpawnType
  <1>4. NoReload => \A q \in Ports : ~Alive(q)
    BY <1>1 DEF IInv, OneWindow
  <1>5. Shape'
    BY <1>1, <1>3 DEF IInv, Shape, ManagerShape
  <1>6. Registered'
    BY <1>1, <1>3 DEF IInv, Shape, Registered
  <1>7. OffIsBlank' /\ MemoryStored' /\ LastFresh'
    BY <1>1, <1>3 DEF IInv, OffIsBlank, MemoryStored, LastFresh
  <1>8. OneWindow'
    BY <1>1, <1>3, <1>4 DEF IInv, Shape, OneWindow, NoReload, Faults, Alive
  <1> QED
    BY <1>5, <1>6, <1>7, <1>8 DEF IInv

\* The end of a hard restart, with or without a Hub: the last client is updated.
LEMMA RepollKeeps ==
  ASSUME IInv, RestartPolled \/ RestartPollFails
  PROVE  IInv'
  <1>1. /\ rst = "polling" /\ rst' = "idle" /\ OnCredentialsRotated
        /\ UNCHANGED <<hub, registry, post, act, drawn, child, procSecret, stored, gen>>
    BY DEF RestartPolled, RestartPollFails
  <1>2. clients' \in Seq(Clients) /\ (clients' = <<>> \/ clients'[Len(clients')].secret = drawn)
        /\ (clients = <<>> => clients' = <<>>)
    BY <1>1, RotatedType
  <1>3. /\ target' \in Ports /\ creating' \in Seq(Ports)
        /\ used' \in [may : Scenarios, faults : Nat, commands : Nat] /\ used'.may = used.may
    <2>1. CASE RestartPolled
      <3>1. registry \in Ports
        BY <2>1 DEF IInv, Shape, ManagerShape, Registered, RestartPolled, Up
      <3> QED
        BY <2>1, <3>1, ReadyType DEF IInv, Shape, RestartPolled
    <2>2. CASE RestartPollFails
      BY <2>2, FaultType DEF IInv, Shape, ManagerShape, RestartPollFails
    <2> QED
      BY <2>1, <2>2
  <1>4. Shape'
    BY <1>1, <1>2, <1>3 DEF IInv, Shape, ManagerShape
  <1>5. Registered' /\ OffIsBlank' /\ MemoryStored' /\ LastFresh'
    BY <1>1, <1>2 DEF IInv, Registered, OffIsBlank, MemoryStored, LastFresh
  <1>6. OneWindow'
    BY <1>1, <1>3 DEF IInv, OneWindow, NoReload, Faults, Alive
  <1> QED
    BY <1>4, <1>5, <1>6 DEF IInv

\* A Hub comes up, takes a request or a connection: none of this changes who lives
\* and with which secret.
LEMMA HubKeeps ==
  ASSUME IInv, UNCHANGED <<managerVars, creating, used>>,
         post' \in [port : Ports \cup {0}, secret : Nat],
         registry' \in Ports \cup {0}, Registered',
         hub' \in [Ports -> Hubs],
         \A p \in Ports : (hub'[p].up = "down" <=> hub[p].up = "down")
                         /\ hub'[p].secret = hub[p].secret,
         clients' \in Seq(Clients), Len(clients') = Len(clients),
         clients = <<>> => clients' = <<>>,
         \A i \in DOMAIN clients : clients'[i].secret = clients[i].secret
  PROVE  IInv'
  <1>1. Shape'
    BY DEF IInv, Shape, ManagerShape, managerVars
  <1>2. OffIsBlank' /\ MemoryStored'
    BY DEF IInv, OffIsBlank, MemoryStored, managerVars
  <1>3. LastFresh'
    <2>1. CASE clients = <<>>
      BY <2>1 DEF LastFresh
    <2>2. CASE clients # <<>>
      <3>1. clients'[Len(clients')].secret = clients[Len(clients)].secret
        BY <2>2, NonEmptyLast
      <3> QED
        BY <2>2, <3>1 DEF IInv, LastFresh, managerVars
    <2> QED
      BY <2>1, <2>2
  <1>4. OneWindow'
    BY DEF IInv, OneWindow, NoReload, Faults, Alive, managerVars
  <1> QED
    BY <1>1, <1>2, <1>3, <1>4 DEF IInv

\* A Hub enters itself in the registry.
LEMMA StartKeeps ==
  ASSUME IInv, NEW p \in Ports, HubStarts(p)
  PROVE  IInv'
  <1>1. hub \in [Ports -> Hubs] /\ clients \in Seq(Clients)
    BY DEF IInv, Shape
  <1>2. /\ hub' \in [Ports -> Hubs]
        /\ \A q \in Ports : /\ hub'[q].up = "down" <=> hub[q].up = "down"
                            /\ hub'[q].secret = hub[q].secret
    BY <1>1 DEF HubStarts, Hubs
  <1>3. Registered'
    BY DEF HubStarts, Registered
  <1> QED
    BY <1>1, <1>2, <1>3, HubKeeps DEF IInv, Shape, HubStarts, linkVars

\* The request that starts an exit timer.
LEMMA PostKeeps ==
  ASSUME IInv, HubHandlesPost
  PROVE  IInv'
  <1>1. /\ hub \in [Ports -> Hubs] /\ clients \in Seq(Clients)
        /\ post' = [port |-> 0, secret |-> 0]
        /\ UNCHANGED <<registry, managerVars, linkVars, used>>
    BY DEF IInv, Shape, HubHandlesPost, NoPost
  <1>2. \/ hub' = hub
        \/ post.port \in Ports /\ hub' = [hub EXCEPT ![post.port].exit = TRUE]
    BY DEF IInv, Shape, HubHandlesPost, Up
  <1>3. /\ hub' \in [Ports -> Hubs]
        /\ \A q \in Ports : /\ hub'[q].up = hub[q].up
                            /\ hub'[q].secret = hub[q].secret
    <2>1. CASE hub' = hub
      BY <1>1, <2>1
    <2>2. CASE post.port \in Ports /\ hub' = [hub EXCEPT ![post.port].exit = TRUE]
      <3> DEFINE p == post.port
      <3>1. p \in Ports /\ hub' = [hub EXCEPT ![p].exit = TRUE]
        BY <2>2
      <3> HIDE DEF p
      <3> QED
        BY <1>1, <3>1 DEF Hubs
    <2> QED
      BY <1>2, <2>1, <2>2
  <1>4. post' \in [port : Ports \cup {0}, secret : Nat]
    BY <1>1
  <1>5. Registered'
    BY <1>1, <1>3 DEF IInv, Registered
  <1> QED
    BY <1>1, <1>3, <1>4, <1>5, HubKeeps DEF IInv, Shape, linkVars

\* An upgrade that is accepted.
LEMMA ConnectKeeps ==
  ASSUME IInv, NEW i \in DOMAIN clients, Connect(i)
  PROVE  IInv'
  <1>1. /\ hub \in [Ports -> Hubs] /\ clients \in Seq(Clients)
        /\ UNCHANGED <<registry, post, managerVars, creating, used>>
    BY DEF IInv, Shape, Connect
  <1> DEFINE port == clients[i].port
  <1>2. port \in Ports
    <2>1. clients[i] \in Clients
      BY <1>1, LenProperties, ElementOfSeq
    <2> QED
      BY <2>1 DEF Clients
  <1>3. hub' = [hub EXCEPT ![port].seen = TRUE, ![port].exit = FALSE]
    BY DEF Connect
  <1>4. /\ hub' \in [Ports -> Hubs]
        /\ \A q \in Ports : /\ hub'[q].up = hub[q].up
                            /\ hub'[q].secret = hub[q].secret
    <2> HIDE DEF port
    <2> DEFINE seen == [hub EXCEPT ![port].seen = TRUE]
    <2>1. /\ seen \in [Ports -> Hubs]
          /\ \A q \in Ports : seen[q].up = hub[q].up /\ seen[q].secret = hub[q].secret
      BY <1>1, <1>2 DEF Hubs
    <2>2. hub' = [seen EXCEPT ![port].exit = FALSE]
      BY <1>3
    <2> HIDE DEF seen
    <2> QED
      BY <1>2, <2>1, <2>2 DEF Hubs
  <1>5. Registered'
    BY <1>1, <1>4 DEF IInv, Registered
  <1> DEFINE cut == Cut(clients, port)
  <1>6. /\ cut \in Seq(Clients) /\ Len(cut) = Len(clients) /\ DOMAIN cut = DOMAIN clients
        /\ \A j \in DOMAIN clients : cut[j].secret = clients[j].secret
    BY <1>1, CutType
  <1>7. clients' = [cut EXCEPT ![i].sock = "open"]
    BY DEF Connect
  <1> HIDE DEF cut, port
  <1>8. /\ clients' \in Seq(Clients) /\ Len(clients') = Len(clients)
        /\ \A j \in DOMAIN clients : clients'[j].secret = clients[j].secret
    <2>1. /\ DOMAIN cut = 1 .. Len(cut) /\ Len(cut) \in Nat
          /\ \A j \in 1 .. Len(cut) : cut[j] \in Clients
      BY <1>6, LenProperties, ElementOfSeq
    <2>2. clients' = [j \in 1 .. Len(cut) |->
                        IF j = i THEN [cut[j] EXCEPT !.sock = "open"] ELSE cut[j]]
      BY <1>6, <1>7, <2>1
    <2>3. clients' \in [1 .. Len(cut) -> Clients]
      BY <2>1, <2>2 DEF Clients
    <2>4. clients' \in Seq(Clients) /\ Len(clients') = Len(cut)
      BY <2>1, <2>3, LenProperties
    <2>5. \A j \in DOMAIN clients : clients'[j].secret = cut[j].secret
      BY <1>6, <2>1, <2>2 DEF Clients
    <2> QED
      BY <1>6, <2>4, <2>5
  <1>9. clients # <<>> 
    BY <1>1, EmptySeq
  <1> QED
    BY <1>1, <1>4, <1>5, <1>8, <1>9, HubKeeps DEF IInv, Shape

\* A socket is lost.
LEMMA DropKeeps ==
  ASSUME IInv, NEW i \in DOMAIN clients, LinkDrops(i)
  PROVE  IInv'
  <1>1. /\ clients \in Seq(Clients)
        /\ UNCHANGED <<hub, registry, post, managerVars, creating>>
        /\ used' \in [may : Scenarios, faults : Nat, commands : Nat] /\ used'.may = used.may
    BY FaultType DEF IInv, Shape, LinkDrops
  <1>2. /\ DOMAIN clients = 1 .. Len(clients) /\ Len(clients) \in Nat
        /\ \A j \in 1 .. Len(clients) : clients[j] \in Clients
    BY <1>1, LenProperties, ElementOfSeq
  <1>3. clients' = [j \in 1 .. Len(clients) |->
                      IF j = i THEN [clients[j] EXCEPT !.sock = "trying"] ELSE clients[j]]
    BY <1>2 DEF LinkDrops
  <1>4. clients' \in [1 .. Len(clients) -> Clients]
    BY <1>2, <1>3 DEF Clients
  <1>5. clients' \in Seq(Clients) /\ Len(clients') = Len(clients)
    BY <1>2, <1>4, LenProperties
  <1>6. \A j \in DOMAIN clients : clients'[j].secret = clients[j].secret
    BY <1>2, <1>3 DEF Clients
  <1>7. Shape'
    BY <1>1, <1>5 DEF IInv, Shape, ManagerShape, managerVars
  <1>8. clients # <<>>
    BY <1>1, EmptySeq
  <1>9. LastFresh'
    <2>1. clients'[Len(clients')].secret = clients[Len(clients)].secret
      BY <1>5, <1>6, <1>8, NonEmptyLast
    <2> QED
      BY <1>1, <1>8, <2>1 DEF IInv, LastFresh, managerVars
  <1>10. Registered' /\ OffIsBlank' /\ MemoryStored'
    BY <1>1, <1>8 DEF IInv, Registered, OffIsBlank, MemoryStored, managerVars
  <1>11. OneWindow'
    BY <1>1 DEF IInv, OneWindow, NoReload, Faults, Alive, managerVars
  <1> QED
    BY <1>7, <1>9, <1>10, <1>11 DEF IInv

\* A reload, which a first window does not have.
LEMMA ReloadKeeps ==
  ASSUME IInv, ReloadBegins \/ ReloadEnds
  PROVE  IInv'
  <1>1. CASE ReloadBegins
    <2>1. /\ act = "done" /\ act' = "closing"
          /\ post' = [port |-> target, secret |-> procSecret]
          /\ UNCHANGED <<hub, registry, rst, drawn, child, target, procSecret, stored, gen,
                         creating, clients>>
      BY <1>1 DEF ReloadBegins, linkVars
    <2>2. /\ used' \in [may : Scenarios, faults : Nat, commands : Nat]
          /\ used'.may = used.may /\ ~NoReload
      <3>1. PICK kind \in {"reload", "reloadBusy"} : Fault(kind)
        BY <1>1 DEF ReloadBegins
      <3> QED
        BY <3>1, FaultType DEF NoReload, Faults
    <2>3. Shape'
      BY <2>1, <2>2 DEF IInv, Shape, ManagerShape
    <2>4. Registered' /\ OffIsBlank' /\ MemoryStored' /\ LastFresh'
      BY <2>1 DEF IInv, Registered, OffIsBlank, MemoryStored, LastFresh
    <2>5. OneWindow'
      BY <2>2 DEF OneWindow, NoReload, Faults
    <2> QED
      BY <2>3, <2>4, <2>5 DEF IInv
  <1>2. CASE ReloadEnds
    <2>1. /\ act = "closing" /\ act' = "off" /\ rst' = "idle" /\ drawn' = 0 /\ child' = 0
          /\ target' = Preferred /\ procSecret' = 0 /\ creating' = <<>> /\ clients' = <<>>
          /\ UNCHANGED <<hub, registry, post, stored, gen, used>>
      BY <1>2 DEF ReloadEnds
    <2>2. ~NoReload /\ (~NoReload)'
      BY <2>1 DEF IInv, OneWindow, NoReload, Faults
    <2>3. Shape'
      BY <2>1 DEF IInv, Shape, ManagerShape
    <2>4. Registered' /\ OffIsBlank' /\ MemoryStored' /\ LastFresh'
      BY <2>1 DEF IInv, Registered, OffIsBlank, MemoryStored, LastFresh
    <2> QED
      BY <2>2, <2>3, <2>4 DEF IInv, OneWindow
  <1> QED
    BY <1>1, <1>2

LEMMA InvInit == Init => IInv
  <1> SUFFICES ASSUME Init PROVE IInv
    OBVIOUS
  <1>1. Down \in Hubs /\ Down.up = "down"
    BY DEF Down, Hubs
  <1>2. Shape
    BY <1>1 DEF Init, Shape, ManagerShape, NoPost
  <1>3. Registered /\ OffIsBlank /\ MemoryStored /\ LastFresh /\ OneWindow
    BY <1>1 DEF Init, Registered, OffIsBlank, MemoryStored, LastFresh, OneWindow, Alive
  <1> QED
    BY <1>2, <1>3 DEF IInv

LEMMA InvNext == IInv /\ [Next]_vars => IInv'
  <1> SUFFICES ASSUME IInv, [Next]_vars PROVE IInv'
    OBVIOUS
  <1>1. CASE Activate
    BY <1>1, ActivateKeeps
  <1>2. CASE ActivationPolled \/ ActivationPollFails
    BY <1>2, PollKeeps
  <1>3. CASE CreateClient
    BY <1>3, CreateKeeps
  <1>4. CASE RestartCommand
    BY <1>4, CommandKeeps
  <1>5. CASE ReauthAccepted \/ ReauthRefused
    BY <1>5, ReauthKeeps
  <1>6. CASE SoftRestart
    BY <1>6, SoftKeeps
  <1>7. CASE KillHub
    BY <1>7, KillKeeps
  <1>8. CASE RestartSpawns
    BY <1>8, RespawnKeeps
  <1>9. CASE RestartPolled \/ RestartPollFails
    BY <1>9, RepollKeeps
  <1>10. ASSUME NEW p \in Ports, HubStarts(p) PROVE IInv'
    BY <1>10, StartKeeps
  <1>11. ASSUME NEW p \in Ports, HubCrashes(p) PROVE IInv'
    <2>1. PICK kind : Fault(kind)
      BY <1>11 DEF HubCrashes
    <2> QED
      BY <1>11, <2>1, FaultType, ExitKeeps DEF HubCrashes, Alive
  <1>12. ASSUME NEW p \in Ports, HubMissesParent(p) PROVE IInv'
    BY <1>12, ExitKeeps DEF HubMissesParent, Up, Alive, IInv, Shape
  <1>13. ASSUME NEW p \in Ports, GraceExpires(p) PROVE IInv'
    BY <1>13, ExitKeeps DEF GraceExpires, Alive, IInv, Shape
  <1>14. ASSUME NEW i \in DOMAIN clients, Connect(i) \/ LinkDrops(i) PROVE IInv'
    BY <1>14, ConnectKeeps, DropKeeps
  <1>15. CASE HubHandlesPost
    BY <1>15, PostKeeps
  <1>16. CASE ReloadBegins \/ ReloadEnds
    BY <1>16, ReloadKeeps
  <1>17. CASE UNCHANGED vars
    BY <1>17 DEF IInv, Shape, ManagerShape, Registered, OffIsBlank, MemoryStored, LastFresh,
                 OneWindow, NoReload, Faults, Alive, vars, managerVars, linkVars
  <1> QED
    BY <1>1, <1>2, <1>3, <1>4, <1>5, <1>6, <1>7, <1>8, <1>9, <1>10, <1>11, <1>12, <1>13,
       <1>14, <1>15, <1>16, <1>17 DEF Next

-----------------------------------------------------------------------------
(* One window after another.                                               *)

Clean == Faults \cap Overlapping = {}

\* The exit timer of the Hub runs, or the request that starts it is on its way.
Leaving(p) ==
  \/ hub[p].exit
  \/ p = post.port /\ hub[p].up = "up" /\ hub[p].secret = post.secret

\* In every window: only the child starts, and once it is up it is in the registry.
Steady ==
  /\ stored = 0 => (act = "off" /\ \A p \in Ports : ~Alive(p))
  /\ rst # "idle" => drawn # 0
  /\ rst = "spawn" => child = 0
  /\ \A p \in Ports : hub[p].up = "starting" =>
       (p = child /\ (act = "polling" \/ rst = "polling"))
  /\ \A p \in Ports : hub[p].exit => hub[p].up = "up"
  /\ Up(child) => registry = child

\* A client never reaches a Hub of an earlier window that is leaving.
Mine(p) == ~Alive(p) \/ p = child \/ (act # "polling" /\ p = target)
OwnClients ==
  act # "off" =>
    /\ \A i \in DOMAIN creating : Mine(creating[i])
    /\ \A i \in DOMAIN clients : Mine(clients[i].port)

\* While activation polls, every Hub but the child is leaving.  The child itself may
\* be, when it has taken the port and the secret of the Hub a late request is for.
WhilePolling ==
  act = "polling" =>
    /\ child # 0 => (rst \in {"idle", "polling"} /\ hub[child].secret = procSecret)
    /\ (child = 0 \/ rst # "idle") =>
         (registry \in Ports /\ Alive(registry) => registry = child)
    /\ (child = 0 \/ rst # "idle" \/ hub[child].exit) => post = NoPost
    /\ \A p \in Ports : (Alive(p) /\ p # child) => Leaving(p)

\* Then the registry names the Hub in use, with the secret the restart has come to;
\* once the reauthentication was refused it is gone.
WhileServing ==
  act \in {"done", "closing"} =>
    /\ target = registry /\ child \in {0, target}
    /\ \A p \in Ports : (Alive(p) /\ p # target) => Leaving(p)
    /\ Alive(target) =>
         /\ rst \in {"idle", "reauth", "polling"} => hub[target].secret = procSecret
         /\ rst = "persist" => hub[target].secret = drawn
         /\ rst = "polling" => child = target
         /\ rst \notin {"kill", "spawn"}

\* When the window closes, its Hub is leaving unless a client has stopped its timer.
WhileClosing ==
  act = "closing" =>
    /\ rst = "idle"
    /\ Alive(target) => (Leaving(target) \/ hub[target].seen)

\* A Hub that is left and will not go is the one the next window adopts.
Between ==
  act = "off" =>
    /\ \A p \in Ports : Alive(p) => (Leaving(p) \/ (p = registry /\ hub[p].seen))
    /\ Up(registry) => hub[registry].secret = stored

Windows == Steady /\ OwnClients /\ WhilePolling /\ WhileServing /\ WhileClosing /\ Between

LEMMA HubTypes ==
  ASSUME IInv
  PROVE  /\ hub \in [Ports -> Hubs] /\ 0 \notin Ports
         /\ child \in Ports \cup {0} /\ target \in Ports /\ registry \in Ports \cup {0}
         /\ \A p \in Ports : hub[p].up \in {"down", "starting", "up"}
         /\ creating \in Seq(Ports) /\ clients \in Seq(Clients)
         /\ \A i \in DOMAIN creating : creating[i] \in Ports
         /\ \A i \in DOMAIN clients : clients[i].port \in Ports
  <1>1. /\ hub \in [Ports -> Hubs] /\ 0 \notin Ports
        /\ child \in Ports \cup {0} /\ target \in Ports /\ registry \in Ports \cup {0}
        /\ creating \in Seq(Ports) /\ clients \in Seq(Clients)
    BY DEF IInv, Shape, ManagerShape
  <1>2. \A p \in Ports : hub[p].up \in {"down", "starting", "up"}
    BY <1>1 DEF Hubs
  <1>3. \A i \in DOMAIN creating : creating[i] \in Ports
    BY <1>1, LenProperties, ElementOfSeq
  <1>4. \A i \in DOMAIN clients : clients[i] \in Clients
    BY <1>1, LenProperties, ElementOfSeq
  <1>5. \A i \in DOMAIN clients : clients[i].port \in Ports
    BY <1>4 DEF Clients
  <1> QED
    BY <1>1, <1>2, <1>3, <1>5

\* A step that leaves the clients where they are and whom they may reach.
LEMMA OwnClientsKept ==
  ASSUME IInv, OwnClients, act # "off" \/ act' = "off", creating' = creating,
         DOMAIN clients' = DOMAIN clients,
         \A i \in DOMAIN clients : clients'[i].port = clients[i].port,
         \A p \in Ports : Mine(p) => Mine(p)'
  PROVE  OwnClients'
  <1>1. CASE act' = "off"
    BY <1>1 DEF OwnClients
  <1>2. CASE act' # "off"
    <2>1. /\ \A i \in DOMAIN creating : Mine(creating[i]) /\ creating[i] \in Ports
          /\ \A i \in DOMAIN clients : Mine(clients[i].port) /\ clients[i].port \in Ports
      BY <1>2, HubTypes DEF OwnClients
    <2> QED
      BY <2>1 DEF OwnClients, Mine, Alive
  <1> QED
    BY <1>1, <1>2

\* Lost sockets and renewed secrets.
LEMMA CutPorts ==
  ASSUME IInv, NEW p, clients' = Cut(clients, p)
  PROVE  /\ DOMAIN clients' = DOMAIN clients
         /\ \A i \in DOMAIN clients : clients'[i].port = clients[i].port
  <1>1. \A i \in DOMAIN clients : clients[i] \in Clients
    BY HubTypes, LenProperties, ElementOfSeq
  <1> QED
    BY <1>1 DEF Cut, Clients

LEMMA RotatedPorts ==
  ASSUME IInv, OnCredentialsRotated
  PROVE  /\ DOMAIN clients' = DOMAIN clients
         /\ \A i \in DOMAIN clients : clients'[i].port = clients[i].port
  <1>1. \A i \in DOMAIN clients : clients[i] \in Clients
    BY HubTypes, LenProperties, ElementOfSeq
  <1> QED
    BY <1>1 DEF OnCredentialsRotated, Clients

\* A call of onHubReady for a Hub the manager has.
LEMMA OwnClientsReady ==
  ASSUME IInv, OwnClients, act # "off", NEW r \in Ports, OnHubReady(r),
         DOMAIN clients' = DOMAIN clients,
         \A i \in DOMAIN clients : clients'[i].port = clients[i].port,
         Mine(r)', \A p \in Ports : Mine(p) => Mine(p)'
  PROVE  OwnClients'
  <1>1. /\ \A i \in DOMAIN creating : Mine(creating[i]) /\ creating[i] \in Ports
        /\ \A i \in DOMAIN clients : Mine(clients[i].port) /\ clients[i].port \in Ports
        /\ creating \in Seq(Ports)
    BY HubTypes DEF OwnClients
  <1>2. creating' = Append(creating, r)
    BY DEF OnHubReady
  <1>3. \A i \in DOMAIN creating' : creating'[i] = r \/ (i \in DOMAIN creating /\ creating'[i] = creating[i])
    <2>1. /\ DOMAIN creating' = 1 .. Len(creating') /\ DOMAIN creating = 1 .. Len(creating)
          /\ Len(creating) \in Nat /\ Len(creating') = Len(creating) + 1
          /\ creating'[Len(creating) + 1] = r
          /\ \A i \in 1 .. Len(creating) : creating'[i] = creating[i]
      BY <1>1, <1>2, AppendProperties, LenProperties
    <2> QED
      BY <2>1
  <1> QED
    BY <1>1, <1>3 DEF OwnClients, Mine, Alive

\* Activation adopts the Hub that is left, or spawns beside those that leave.
LEMMA ActivateWindows ==
  ASSUME IInv, Windows, Activate
  PROVE  Windows'
  <1>1. /\ act = "off" /\ act' \in {"polling", "done"}
        /\ UNCHANGED <<registry, post, rst, drawn, clients, used>>
        /\ rst = "idle" /\ child = 0 /\ creating = <<>> /\ clients = <<>>
    BY DEF IInv, OffIsBlank, Activate
  <1>2. Steady /\ Between
    BY DEF Windows
  <1>3. /\ \A q \in Ports : Alive(q) => hub[q].up = "up"
        /\ \A q \in Ports : hub[q].exit => hub[q].up = "up"
    BY <1>1, <1>2, HubTypes DEF Steady, Alive
  <1>4. CASE Up(registry) /\ hub[registry].seen /\ UNCHANGED <<gen, stored, hub, child, attempted>>
               /\ procSecret' = stored /\ target' = registry /\ OnHubReady(registry)
               /\ act' = "done" /\ stored # 0
    <2>1. registry \in Ports /\ hub[registry].secret = stored
      BY <1>1, <1>2, <1>4, HubTypes DEF Up, Between
    <2>2. \A q \in Ports : (Alive(q) /\ q # registry) => Leaving(q)
      BY <1>1, <1>2 DEF Between
    <2>3. Steady'
      BY <1>1, <1>2, <1>3, <1>4, <2>1 DEF Steady, Alive, Up
    <2>4. OwnClients'
      <3>1. \A i \in DOMAIN creating' : creating'[i] = registry
        BY <1>1, <1>4, <2>1 DEF OnHubReady
      <3>2. DOMAIN clients' = {}
        BY <1>1
      <3> QED
        BY <1>4, <3>1, <3>2 DEF OwnClients, Mine
    <2>5. WhileServing'
      BY <1>1, <1>4, <2>1, <2>2 DEF WhileServing, Alive, Leaving
    <2>6. WhilePolling' /\ WhileClosing' /\ Between'
      BY <1>4 DEF WhilePolling, WhileClosing, Between
    <2> QED
      BY <2>3, <2>4, <2>5, <2>6 DEF Windows
  <1>5. ASSUME NEW s \in Nat, s # 0, Spawn(s), stored' = s, act' = "polling",
               UNCHANGED <<target, creating>>,
               stored # 0 => ~(Up(registry) /\ hub[registry].seen)
        PROVE  Windows'
    <2>1. PICK p \in Ports :
            /\ hub' = [hub EXCEPT ![p] = [up |-> "starting", secret |-> s,
                                          seen |-> FALSE, exit |-> FALSE]]
            /\ hub' \in [Ports -> Hubs] /\ hub[p].up = "down"
            /\ child' = p /\ procSecret' = s
      BY <1>5, SpawnType
    <2>2. /\ hub'[p] = [up |-> "starting", secret |-> s, seen |-> FALSE, exit |-> FALSE]
          /\ \A q \in Ports : q # p => hub'[q] = hub[q]
      BY <2>1, HubTypes
    <2>3. \A q \in Ports : Alive(q) => Leaving(q)
      <3>1. CASE stored = 0
        BY <1>2, <3>1 DEF Steady
      <3>2. CASE stored # 0
        BY <1>1, <1>2, <1>3, <1>5, <3>2, HubTypes DEF Between, Up
      <3> QED
        BY <3>1, <3>2
    <2>4. Steady'
      BY <1>1, <1>3, <1>5, <2>1, <2>2, HubTypes DEF Steady, Alive, Up
    <2>5. OwnClients'
      BY <1>1, <1>5 DEF OwnClients
    <2>6. WhilePolling'
      BY <1>1, <1>5, <2>1, <2>2, <2>3, HubTypes DEF WhilePolling, Alive, Leaving
    <2>7. WhileServing' /\ WhileClosing' /\ Between'
      BY <1>5 DEF WhileServing, WhileClosing, Between
    <2> QED
      BY <2>4, <2>5, <2>6, <2>7 DEF Windows
  <1>6. stored \in Nat /\ gen \in Nat /\ gen + 1 \in Nat /\ gen + 1 # 0
    BY DEF IInv, Shape, ManagerShape
  <1> QED
    BY <1>4, <1>5, <1>6 DEF Activate

\* Activation's poll finds its child, for the registry names no other that lives.
LEMMA PollWindows ==
  ASSUME IInv, Windows, Clean, ActivationPolled \/ ActivationPollFails
  PROVE  Windows'
  <1>1. ~ActivationPollFails
    BY DEF Clean, Overlapping, ActivationPollFails, Fault
  <1> DEFINE p == IF child # 0 THEN child ELSE registry
  <1>2. /\ act = "polling" /\ act' = "done" /\ Up(p) /\ target' = p /\ OnHubReady(p)
        /\ UNCHANGED <<hub, registry, post, rst, drawn, child, procSecret, stored, gen, clients>>
    BY <1>1 DEF ActivationPolled
  <1>3. Steady /\ WhilePolling /\ OwnClients
    BY DEF Windows
  <1>4. child # 0 /\ child \in Ports /\ p = child /\ hub[child].up = "up" /\ registry = child
    <2>1. CASE child = 0
      BY <1>2, <1>3, <2>1, HubTypes DEF WhilePolling, Up, Alive
    <2>2. CASE child # 0
      BY <1>2, <1>3, <2>2, HubTypes DEF Steady, Up
    <2> QED
      BY <2>1, <2>2
  <1>5. target' = child /\ OnHubReady(child)
    BY <1>2, <1>4
  <1> HIDE DEF p
  <1>6. Steady'
    BY <1>2, <1>3, <1>4 DEF Steady, Alive, Up
  <1>7. OwnClients'
    <2>1. \A q \in Ports : Mine(q) => Mine(q)'
      BY <1>2 DEF Mine, Alive
    <2>2. Mine(child)'
      BY <1>2 DEF Mine
    <2> QED
      BY <1>2, <1>3, <1>4, <1>5, <2>1, <2>2, OwnClientsReady
  <1>8. WhileServing'
    BY <1>2, <1>3, <1>4, <1>5 DEF WhilePolling, WhileServing, Alive, Leaving
  <1>9. WhilePolling' /\ WhileClosing' /\ Between'
    BY <1>2 DEF WhilePolling, WhileClosing, Between
  <1> QED
    BY <1>6, <1>7, <1>8, <1>9 DEF Windows

\* The new client is for the port that waited.
LEMMA CreateWindows ==
  ASSUME IInv, Windows, CreateClient
  PROVE  Windows'
  <1>1. /\ creating # <<>> /\ creating' = Tail(creating) /\ creating \in Seq(Ports)
        /\ clients \in Seq(Clients)
        /\ UNCHANGED <<hub, registry, post, managerVars, used>>
    BY HubTypes DEF CreateClient
  <1>2. PICK new : clients' = Append(clients, new) /\ new.port = Head(creating)
                   /\ new \in Clients
    <2>1. Head(creating) \in Ports /\ stored \in Nat
      BY <1>1, HeadTailProperties DEF IInv, Shape, ManagerShape
    <2> QED
      BY <2>1 DEF CreateClient, Clients
  <1>3. /\ \A i \in DOMAIN creating' : i + 1 \in DOMAIN creating /\ creating'[i] = creating[i + 1]
        /\ 1 \in DOMAIN creating /\ Head(creating) = creating[1]
    <2>1. /\ DOMAIN creating = 1 .. Len(creating) /\ Len(creating) \in Nat /\ Len(creating) # 0
          /\ Head(creating) = creating[1]
          /\ creating' \in Seq(Ports) /\ Len(creating') = Len(creating) - 1
          /\ \A i \in 1 .. Len(creating') : creating'[i] = creating[i + 1]
      BY <1>1, LenProperties, EmptySeq, HeadTailProperties
    <2>2. DOMAIN creating' = 1 .. Len(creating')
      BY <2>1, LenProperties
    <2> QED
      BY <2>1, <2>2
  <1>4. \A i \in DOMAIN clients' :
          clients'[i] = new \/ (i \in DOMAIN clients /\ clients'[i] = clients[i])
    <2>1. /\ DOMAIN clients = 1 .. Len(clients) /\ Len(clients) \in Nat
          /\ clients' \in Seq(Clients) /\ Len(clients') = Len(clients) + 1
          /\ clients'[Len(clients) + 1] = new
          /\ \A i \in 1 .. Len(clients) : clients'[i] = clients[i]
      BY <1>1, <1>2, LenProperties, AppendProperties
    <2>2. DOMAIN clients' = 1 .. Len(clients')
      BY <2>1, LenProperties
    <2> QED
      BY <2>1, <2>2
  <1>5. OwnClients'
    <2>1. \A q : Mine(q)' <=> Mine(q)
      BY <1>1 DEF Mine, Alive, managerVars
    <2>2. act' = act
      BY <1>1 DEF managerVars
    <2>3. OwnClients
      BY DEF Windows
    <2> QED
      BY <1>2, <1>3, <1>4, <2>1, <2>2, <2>3 DEF OwnClients
  <1>6. Steady' /\ WhilePolling' /\ WhileServing' /\ WhileClosing' /\ Between'
    BY <1>1 DEF Windows, Steady, WhilePolling, WhileServing, WhileClosing, Between, Alive, Up,
                Leaving, managerVars
  <1> QED
    BY <1>5, <1>6 DEF Windows

\* A restart begins with a Hub that has the manager's secret.
LEMMA CommandWindows ==
  ASSUME IInv, Windows, Clean, RestartCommand
  PROVE  Windows'
  <1>1. /\ act = "done" /\ rst = "idle" /\ rst' = "reauth" /\ drawn' = gen + 1
        /\ UNCHANGED <<hub, registry, post, act, child, target, procSecret, stored, creating,
                       clients>>
    BY DEF RestartCommand, BeginRestart, Clean, Overlapping, linkVars
  <1>2. gen + 1 # 0
    BY DEF IInv, Shape, ManagerShape
  <1>3. Steady'
    BY <1>1, <1>2 DEF Windows, Steady, Alive, Up
  <1>4. OwnClients'
    <2>1. \A p \in Ports : Mine(p) => Mine(p)'
      BY <1>1 DEF Mine, Alive
    <2> QED
      BY <1>1, <2>1, OwnClientsKept DEF Windows
  <1>5. WhileServing'
    BY <1>1 DEF Windows, WhileServing, Alive, Leaving
  <1>6. WhilePolling' /\ WhileClosing' /\ Between'
    BY <1>1 DEF WhilePolling, WhileClosing, Between
  <1> QED
    BY <1>3, <1>4, <1>5, <1>6 DEF Windows

\* A Hub that is in use accepts the secret; only one that is gone refuses.  While
\* activation polls, the Hub that accepts is one that leaves.
LEMMA ReauthWindows ==
  ASSUME IInv, Windows, Clean, ReauthAccepted \/ ReauthRefused
  PROVE  Windows'
  <1>1. /\ rst = "reauth" /\ rst' \in {"persist", "kill"}
        /\ UNCHANGED <<registry, post, act, drawn, child, target, procSecret, stored,
                       creating, clients>>
    BY DEF ReauthAccepted, ReauthRefused, linkVars
  <1>2. /\ rst' = "persist" => (Up(target) /\ hub' = [hub EXCEPT ![target].secret = drawn])
        /\ rst' = "kill" => (hub' = hub /\ ~(Up(target) /\ hub[target].secret = procSecret))
    BY DEF ReauthAccepted, ReauthRefused, Clean, Overlapping, Fault
  <1>3. Windows
    OBVIOUS
  <1>4. /\ \A q \in Ports : /\ hub'[q].up = hub[q].up /\ hub'[q].exit = hub[q].exit
                            /\ hub'[q].seen = hub[q].seen
                            /\ q # target => hub'[q].secret = hub[q].secret
        /\ rst' = "persist" => hub'[target].secret = drawn
    <2>1. hub \in [Ports -> Hubs] /\ target \in Ports /\ drawn \in Nat
      BY HubTypes DEF IInv, Shape, ManagerShape
    <2>2. CASE rst' = "persist"
      BY <1>2, <2>1, <2>2 DEF Hubs
    <2>3. CASE rst' = "kill"
      BY <1>2, <2>3
    <2> QED
      BY <1>1, <2>2, <2>3
  <1>5. Steady'
    <2>1. Up(child)' <=> Up(child)
      BY <1>1, <1>4, HubTypes DEF Up
    <2> QED
      BY <1>1, <1>3, <1>4, <2>1 DEF Windows, Steady, Alive
  <1>6. OwnClients'
    <2>1. \A p \in Ports : Mine(p) => Mine(p)'
      BY <1>1, <1>4 DEF Mine, Alive
    <2> QED
      BY <1>1, <1>3, <2>1, OwnClientsKept DEF Windows
  <1>7. WhilePolling'
    <2> SUFFICES ASSUME act = "polling" PROVE WhilePolling'
      BY <1>1 DEF WhilePolling
    <2>1. child = 0 /\ post = NoPost /\ (registry \in Ports /\ Alive(registry) => registry = child)
          /\ \A p \in Ports : (Alive(p) /\ p # child) => Leaving(p)
      BY <1>1, <1>3 DEF Windows, WhilePolling
    <2>2. \A p \in Ports : Leaving(p) => hub[p].exit
      BY <2>1, HubTypes DEF Leaving, NoPost
    <2> QED
      BY <1>1, <1>4, <2>1, <2>2 DEF WhilePolling, Alive, Leaving
  <1>8. WhileServing'
    <2> SUFFICES ASSUME act \in {"done", "closing"} PROVE WhileServing'
      BY <1>1 DEF WhileServing
    <2>1. /\ target = registry /\ child \in {0, target}
          /\ \A p \in Ports : (Alive(p) /\ p # target) => Leaving(p)
          /\ Alive(target) => hub[target].secret = procSecret
      BY <1>1, <1>3 DEF Windows, WhileServing
    <2>2. \A p \in Ports : (Alive(p) /\ p # target)' => Leaving(p)'
      BY <1>1, <1>4, <2>1 DEF Alive, Leaving
    <2>3. Alive(target) => Up(target)
      BY <1>1, <1>3, HubTypes DEF Windows, Steady, Alive, Up
    <2>4. rst' = "kill" => ~Alive(target)
      BY <1>2, <2>1, <2>3
    <2>5. Alive(target)' <=> Alive(target)
      BY <1>1, <1>4, HubTypes DEF Alive
    <2>6. rst' = "persist" \/ ~Alive(target)'
      BY <1>1, <2>4, <2>5
    <2> QED
      BY <1>1, <1>4, <2>1, <2>2, <2>6 DEF WhileServing
  <1>9. WhileClosing' /\ Between'
    BY <1>1, <1>3 DEF IInv, OffIsBlank, Windows, WhileClosing, Between
  <1> QED
    BY <1>5, <1>6, <1>7, <1>8, <1>9 DEF Windows

\* The soft restart gives the manager the secret its Hub already has.
LEMMA SoftWindows ==
  ASSUME IInv, Windows, SoftRestart
  PROVE  Windows'
  <1>1. /\ rst = "persist" /\ rst' = "idle" /\ procSecret' = drawn /\ stored' = drawn
        /\ UNCHANGED <<hub, registry, post, act, drawn, child, target, creating>>
        /\ OnCredentialsRotated
    BY DEF SoftRestart
  <1>2. Steady'
    BY <1>1 DEF Windows, Steady, Alive, Up
  <1>3. OwnClients'
    <2>1. \A p \in Ports : Mine(p) => Mine(p)'
      BY <1>1 DEF Mine, Alive
    <2> QED
      BY <1>1, <2>1, RotatedPorts, OwnClientsKept DEF Windows
  <1>4. WhilePolling'
    BY <1>1 DEF Windows, WhilePolling, Alive, Leaving
  <1>5. WhileServing'
    BY <1>1 DEF Windows, WhileServing, Alive, Leaving
  <1>6. WhileClosing' /\ Between'
    BY <1>1 DEF IInv, OffIsBlank, Windows, WhileClosing, Between
  <1> QED
    BY <1>2, <1>3, <1>4, <1>5, <1>6 DEF Windows

\* By the time of the kill there is nothing that could survive it.
LEMMA KillWindows ==
  ASSUME IInv, Windows, KillHub
  PROVE  Windows'
  <1>1. /\ rst = "kill" /\ rst' = "spawn" /\ child' = 0
        /\ UNCHANGED <<registry, post, act, drawn, target, procSecret, stored, creating>>
    BY DEF KillHub
  <1>2. /\ act = "off" => rst = "idle"
        /\ act \in {"off", "polling", "done", "closing"}
    BY DEF IInv, OffIsBlank, Shape, ManagerShape
  <1>3. act # "off" /\ act # "closing"
    BY <1>1, <1>2 DEF Windows, WhileClosing
  <1>4. child # 0 => (act = "done" /\ child = target /\ ~Alive(target))
    BY <1>1, <1>2, <1>3 DEF Windows, WhilePolling, WhileServing
  <1>5. /\ \A q \in Ports : hub'[q] = hub[q] \/ (hub'[q] = Down /\ ~Alive(q) /\ q = child)
        /\ \A q \in Ports : hub'[q].up = hub[q].up
        /\ DOMAIN clients' = DOMAIN clients
        /\ \A i \in DOMAIN clients : clients'[i].port = clients[i].port
    <2>1. CASE child = 0
      BY <2>1 DEF KillHub
    <2>2. CASE child # 0
      <3>1. hub' = [hub EXCEPT ![child] = Down] /\ clients' = Cut(clients, child)
        BY <2>2 DEF KillHub
      <3> QED
        BY <1>4, <2>2, <3>1, HubTypes, CutPorts DEF Alive, Down
    <2> QED
      BY <2>1, <2>2
  <1>6. \A q \in Ports : /\ Alive(q)' <=> Alive(q)
                         /\ Alive(q) => hub'[q] = hub[q]
                         /\ hub'[q].exit => hub[q].exit
    <2>1. Down.up = "down" /\ Down.exit = FALSE
      BY DEF Down
    <2> TAKE q \in Ports
    <2>2. CASE hub'[q] = hub[q]
      BY <2>2 DEF Alive
    <2>3. CASE hub'[q] = Down /\ ~Alive(q)
      BY <2>1, <2>3 DEF Alive
    <2> QED
      BY <1>5, <2>2, <2>3
  <1>7. Steady'
    <2>1. \A q \in Ports : hub[q].up # "starting"
      BY <1>1, <1>4, HubTypes DEF Windows, Steady, Alive
    <2> QED
      BY <1>1, <1>3, <1>5, <1>6, <2>1 DEF Windows, Steady, Up
  <1>8. OwnClients'
    <2>1. \A p \in Ports : Mine(p) => Mine(p)'
      BY <1>1, <1>4, <1>6 DEF Mine
    <2> QED
      BY <1>1, <1>3, <1>5, <2>1, OwnClientsKept DEF Windows
  <1>9. \A q \in Ports : (Alive(q) /\ Leaving(q)) => Leaving(q)'
    BY <1>1, <1>6 DEF Leaving
  <1>10. WhilePolling'
    <2> SUFFICES ASSUME act = "polling" PROVE WhilePolling'
      BY <1>1 DEF WhilePolling
    <2>1. child = 0 /\ post = NoPost /\ (registry \in Ports /\ Alive(registry) => registry = child)
          /\ \A p \in Ports : (Alive(p) /\ p # child) => Leaving(p)
      BY <1>1, <1>4 DEF Windows, WhilePolling
    <2>2. registry' \in Ports /\ Alive(registry)' => registry' = 0
      BY <1>1, <1>5, <2>1 DEF Alive
    <2> QED
      BY <1>1, <1>6, <1>9, <2>1, <2>2 DEF WhilePolling
  <1>11. WhileServing'
    <2> SUFFICES ASSUME act = "done" PROVE WhileServing'
      BY <1>1, <1>3 DEF WhileServing
    <2>1. target = registry /\ ~Alive(target) /\ target \in Ports
          /\ \A p \in Ports : (Alive(p) /\ p # target) => Leaving(p)
      BY <1>1, HubTypes DEF Windows, WhileServing
    <2>2. ~Alive(target)'
      BY <1>1, <1>5, <2>1 DEF Alive
    <2> QED
      BY <1>1, <1>6, <1>9, <2>1, <2>2 DEF WhileServing
  <1>12. WhileClosing' /\ Between'
    BY <1>1, <1>3 DEF WhileClosing, Between
  <1> QED
    BY <1>7, <1>8, <1>10, <1>11, <1>12 DEF Windows

\* The Hub of a hard restart takes the port of the one that is gone.
LEMMA RespawnWindows ==
  ASSUME IInv, Windows, RestartSpawns
  PROVE  Windows'
  <1>1. /\ rst = "spawn" /\ rst' = "polling" /\ stored' = drawn /\ Spawn(drawn)
        /\ UNCHANGED <<registry, post, act, drawn, target, creating, clients>>
    BY DEF RestartSpawns, linkVars
  <1>2. /\ act \in {"off", "polling", "done", "closing"} /\ drawn \in Nat
        /\ act = "off" => rst = "idle"
    BY DEF IInv, OffIsBlank, Shape, ManagerShape
  <1>3. act # "off" /\ act # "closing" /\ child = 0 /\ drawn # 0
    BY <1>1, <1>2 DEF Windows, WhileClosing, Steady
  <1>4. PICK p \in Ports :
          /\ hub' = [hub EXCEPT ![p] = [up |-> "starting", secret |-> drawn,
                                        seen |-> FALSE, exit |-> FALSE]]
          /\ hub[p].up = "down" /\ child' = p /\ procSecret' = drawn
          /\ hub[target].up = "down" => p = target
    BY <1>1 DEF Spawn
  <1>5. /\ hub'[p] = [up |-> "starting", secret |-> drawn, seen |-> FALSE, exit |-> FALSE]
        /\ \A q \in Ports : q # p => hub'[q] = hub[q]
    BY <1>4, HubTypes
  <1>6. Steady'
    <2>1. \A q \in Ports : hub[q].up # "starting"
      BY <1>3, HubTypes DEF Windows, Steady
    <2> QED
      BY <1>1, <1>3, <1>4, <1>5, <2>1 DEF Windows, Steady, Alive, Up
  <1>7. OwnClients'
    <2>1. \A q \in Ports : Mine(q) => Mine(q)'
      BY <1>1, <1>3, <1>4, <1>5, HubTypes DEF Mine, Alive
    <2> QED
      BY <1>1, <1>3, <2>1, OwnClientsKept DEF Windows
  <1>8. WhilePolling'
    <2> SUFFICES ASSUME act = "polling" PROVE WhilePolling'
      BY <1>1 DEF WhilePolling
    <2>1. post = NoPost /\ ~(registry \in Ports /\ Alive(registry))
          /\ \A q \in Ports : Alive(q) => Leaving(q)
      BY <1>1, <1>3, HubTypes DEF Windows, WhilePolling
    <2>2. \A q \in Ports : (Alive(q) /\ q # child)' => Leaving(q)'
      BY <1>1, <1>4, <1>5, <2>1 DEF Alive, Leaving
    <2>3. registry' \in Ports /\ Alive(registry)' => registry' = child'
      BY <1>1, <1>4, <1>5, <2>1 DEF Alive
    <2> QED
      BY <1>1, <1>4, <1>5, <2>1, <2>2, <2>3 DEF WhilePolling
  <1>9. WhileServing'
    <2> SUFFICES ASSUME act = "done" PROVE WhileServing'
      BY <1>1, <1>3 DEF WhileServing
    <2>1. target = registry /\ ~Alive(target)
          /\ \A q \in Ports : (Alive(q) /\ q # target) => Leaving(q)
      BY <1>1 DEF Windows, WhileServing
    <2>2. p = target
      BY <1>4, <2>1 DEF Alive
    <2> QED
      BY <1>1, <1>4, <1>5, <2>1, <2>2 DEF WhileServing, Alive, Leaving
  <1>10. WhileClosing' /\ Between'
    BY <1>1, <1>3 DEF WhileClosing, Between
  <1> QED
    BY <1>6, <1>7, <1>8, <1>9, <1>10 DEF Windows

\* A restart's poll reads the registry, where its own Hub is.
LEMMA RepollWindows ==
  ASSUME IInv, Windows, Clean, RestartPolled \/ RestartPollFails
  PROVE  Windows'
  <1>1. /\ rst = "polling" /\ rst' = "idle" /\ OnCredentialsRotated
        /\ UNCHANGED <<hub, registry, post, act, drawn, child, procSecret, stored>>
    BY DEF RestartPolled, RestartPollFails
  <1>2. /\ act \in {"off", "polling", "done", "closing"}
        /\ act = "off" => rst = "idle"
    BY DEF IInv, OffIsBlank, Shape, ManagerShape
  <1>3. act # "off" /\ act # "closing"
    BY <1>1, <1>2 DEF Windows, WhileClosing
  <1>4. \/ Up(target) /\ target' = registry /\ OnHubReady(registry)
        \/ child = 0 /\ target' = target /\ creating' = creating
    BY DEF RestartPolled, RestartPollFails, Clean, Overlapping, Fault
  <1>5. act = "done" => target' = target
    BY <1>4 DEF Windows, WhileServing
  <1>6. Steady'
    <2>1. \A q \in Ports : hub[q].up = "starting" => act = "polling"
      <3>1. CASE act = "done"
        BY <1>4, <3>1, HubTypes DEF Windows, Steady, WhileServing, Up
      <3> QED
        BY <1>2, <1>3, <3>1
    <2> QED
      BY <1>1, <2>1 DEF Windows, Steady, Alive, Up
  <1>7. OwnClients'
    <2>1. \A q \in Ports : Mine(q) => Mine(q)'
      BY <1>1, <1>2, <1>3, <1>5 DEF Mine, Alive
    <2>2. CASE child = 0 /\ target' = target /\ creating' = creating
      BY <1>1, <1>3, <2>1, <2>2, RotatedPorts, OwnClientsKept DEF Windows
    <2>3. CASE Up(target) /\ target' = registry /\ OnHubReady(registry)
      <3>1. registry \in Ports
        BY <2>3, HubTypes DEF IInv, Registered, Up
      <3>2. Mine(registry)'
        <4>1. CASE act = "polling"
          BY <1>1, <3>1, <4>1 DEF Windows, WhilePolling, Mine, Alive
        <4>2. CASE act = "done"
          BY <1>1, <2>3, <4>2 DEF Mine
        <4> QED
          BY <1>2, <1>3, <4>1, <4>2
      <3> QED
        BY <1>1, <1>3, <2>1, <2>3, <3>1, <3>2, RotatedPorts, OwnClientsReady DEF Windows
    <2> QED
      BY <1>4, <2>2, <2>3
  <1>8. WhilePolling'
    BY <1>1 DEF Windows, WhilePolling, Alive, Leaving
  <1>9. WhileServing'
    <2> SUFFICES ASSUME act = "done" PROVE WhileServing'
      BY <1>1, <1>3 DEF WhileServing
    <2>1. /\ target = registry /\ child \in {0, target}
          /\ \A q \in Ports : (Alive(q) /\ q # target) => Leaving(q)
          /\ Alive(target) => hub[target].secret = procSecret
      BY <1>1 DEF Windows, WhileServing
    <2> QED
      BY <1>1, <1>5, <2>1 DEF WhileServing, Alive, Leaving
  <1>10. WhileClosing' /\ Between'
    BY <1>1, <1>3 DEF WhileClosing, Between
  <1> QED
    BY <1>6, <1>7, <1>8, <1>9, <1>10 DEF Windows

\* The child comes up and enters itself in the registry.
LEMMA StartWindows ==
  ASSUME IInv, Windows, NEW p \in Ports, HubStarts(p)
  PROVE  Windows'
  <1>1. /\ hub[p].up = "starting" /\ hub' = [hub EXCEPT ![p].up = "up"] /\ registry' = p
        /\ UNCHANGED <<post, act, rst, drawn, child, target, procSecret, stored, creating, clients>>
    BY DEF HubStarts, managerVars, linkVars
  <1>2. /\ hub'[p].up = "up"
        /\ \A q \in Ports : /\ q # p => hub'[q] = hub[q]
                            /\ hub'[q].secret = hub[q].secret /\ hub'[q].exit = hub[q].exit
                            /\ hub'[q].seen = hub[q].seen
    BY <1>1, HubTypes DEF Hubs
  <1>3. p = child /\ (act = "polling" \/ rst = "polling") /\ ~hub[p].exit
    BY <1>1 DEF Windows, Steady
  <1>4. act \in {"off", "polling", "done", "closing"} /\ (act = "off" => rst = "idle")
    BY DEF IInv, OffIsBlank, Shape, ManagerShape
  <1>5. act # "off" /\ act # "closing"
    BY <1>3, <1>4 DEF Windows, WhileClosing
  <1>6. \A q \in Ports : Alive(q)' <=> Alive(q)
    BY <1>1, <1>2 DEF Alive
  <1>7. Steady'
    BY <1>1, <1>2, <1>3, <1>5, <1>6, HubTypes DEF Windows, Steady, Up
  <1>8. OwnClients'
    <2>1. \A q \in Ports : Mine(q) => Mine(q)'
      BY <1>1, <1>6 DEF Mine
    <2> QED
      BY <1>1, <1>5, <2>1, OwnClientsKept DEF Windows
  <1>9. \A q \in Ports : (q # p /\ Leaving(q)) => Leaving(q)'
    BY <1>1, <1>2 DEF Leaving
  <1>10. WhilePolling'
    BY <1>1, <1>2, <1>3, <1>6, <1>9, HubTypes DEF Windows, WhilePolling
  <1>11. WhileServing'
    <2> SUFFICES ASSUME act = "done" PROVE WhileServing'
      BY <1>1, <1>5 DEF WhileServing
    <2>1. child = target
      BY <1>3, HubTypes DEF Windows, WhileServing
    <2> QED
      BY <1>1, <1>2, <1>3, <1>6, <1>9, <2>1 DEF Windows, WhileServing
  <1>12. WhileClosing' /\ Between'
    BY <1>1, <1>5 DEF WhileClosing, Between
  <1> QED
    BY <1>7, <1>8, <1>10, <1>11, <1>12 DEF Windows

\* A Hub goes: one that leaves, the child with a restart, or the adopted one, which
\* nobody notices before the next restart.
LEMMA ExitWindows ==
  ASSUME IInv, Windows, NEW p \in Ports, HubExits(p),
         UNCHANGED <<registry, post, act, target, procSecret, stored, creating>>,
         p = child /\ act = "polling" => hub[p].exit,
         p = child => act # "closing"
  PROVE  Windows'
  <1>1. /\ clients' = Cut(clients, p) /\ DOMAIN clients' = DOMAIN clients
        /\ \A i \in DOMAIN clients : clients'[i].port = clients[i].port
    BY CutPorts DEF HubExits
  <1>2. /\ hub'[p].up = "down" /\ hub'[p].exit = FALSE
        /\ \A q \in Ports : q # p => hub'[q] = hub[q]
    BY HubTypes DEF HubExits, Down
  <1>3. \/ p # child /\ UNCHANGED <<child, rst, drawn>>
        \/ p = child /\ child' = 0
             /\ \/ rst = "idle" /\ rst' = "reauth" /\ drawn' = gen + 1
                \/ UNCHANGED <<rst, drawn>>
    BY DEF HubExits, BeginRestart
  <1>4. gen + 1 # 0 /\ act \in {"off", "polling", "done", "closing"}
        /\ (act = "off" => rst = "idle" /\ child = 0)
    BY DEF IInv, OffIsBlank, Shape, ManagerShape
  <1>5. /\ ~Alive(p)' /\ \A q \in Ports : q # p => (Alive(q)' <=> Alive(q))
        /\ \A q \in Ports : Alive(q)' => (Alive(q) /\ q # p)
        /\ \A q \in Ports : (Alive(q)' /\ Leaving(q)) => Leaving(q)'
    BY <1>2 DEF Alive, Leaving
  <1>6. Steady'
    <2>1. \A q \in Ports : hub'[q].exit => q # p /\ hub[q].exit
      BY <1>2
    <2>2. rst' = "spawn" => child' = 0
      BY <1>3 DEF Windows, Steady
    <2>3. rst' # "idle" => drawn' # 0
      BY <1>3, <1>4 DEF Windows, Steady
    <2>4. stored = 0 => (act = "off" /\ \A q \in Ports : ~Alive(q)')
      BY <1>5 DEF Windows, Steady
    <2>5. \A q \in Ports : hub'[q].up = "starting" => (q = child' /\ (act = "polling" \/ rst' = "polling"))
      BY <1>2, <1>3 DEF Windows, Steady
    <2>6. Up(child)' => (Up(child) /\ child' = child)
      BY <1>2, <1>3, HubTypes DEF Up
    <2>7. \A q \in Ports : hub'[q].exit => hub'[q].up = "up"
      BY <1>2, <2>1 DEF Windows, Steady
    <2> QED
      BY <2>2, <2>3, <2>4, <2>5, <2>6, <2>7 DEF Windows, Steady
  <1>7. OwnClients'
    <2>1. \A q \in Ports : Mine(q) => Mine(q)'
      BY <1>3, <1>5 DEF Mine
    <2> QED
      BY <1>1, <2>1, OwnClientsKept DEF Windows
  <1>8. WhilePolling'
    <2> SUFFICES ASSUME act = "polling" PROVE WhilePolling'
      BY DEF WhilePolling
    <2>1. \A q \in Ports : (Alive(q) /\ q # child)' => Leaving(q)'
      BY <1>3, <1>5 DEF Windows, WhilePolling
    <2>2. CASE p # child
      <3>1. /\ child # 0 => (rst \in {"idle", "polling"} /\ hub'[child].secret = procSecret)
            /\ (child = 0 \/ rst # "idle") =>
                 (registry \in Ports /\ Alive(registry)' => registry = child)
        BY <1>2, <1>5, <2>2, HubTypes DEF Windows, WhilePolling, Alive
      <3>2. (child = 0 \/ rst # "idle" \/ (child # 0 /\ hub'[child].exit)) => post = NoPost
        BY <1>2, <2>2, HubTypes DEF Windows, WhilePolling
      <3>3. UNCHANGED <<child, rst>>
        BY <1>3, <2>2
      <3>4. Alive(registry)' <=> hub'[registry].up # "down"
        BY DEF Alive
      <3> QED
        BY <2>1, <3>1, <3>2, <3>3, <3>4 DEF WhilePolling, Alive
    <2>3. CASE p = child
      <3>1. hub[p].exit
        BY <2>3
      <3>2. registry = p /\ post = NoPost
        BY <2>3, <3>1, HubTypes DEF Windows, Steady, WhilePolling, Up
      <3>3. child' = 0 /\ ~Alive(registry)'
        BY <1>2, <1>3, <2>3, <3>2 DEF Alive
      <3> QED
        BY <2>1, <3>2, <3>3 DEF WhilePolling
    <2> QED
      BY <2>2, <2>3
  <1>9. WhileServing'
    <2> SUFFICES ASSUME act \in {"done", "closing"} PROVE WhileServing'
      BY DEF WhileServing
    <2>1. /\ target = registry /\ child \in {0, target} /\ target \in Ports
          /\ \A q \in Ports : (Alive(q) /\ q # target) => Leaving(q)
      BY HubTypes DEF Windows, WhileServing
    <2>2. /\ child' \in {0, target}
          /\ \A q \in Ports : (Alive(q)' /\ q # target) => Leaving(q)'
      BY <1>3, <1>5, <2>1
    <2>3. CASE p = target
      <3>1. ~Alive(target)'
        BY <1>2, <2>3 DEF Alive
      <3> QED
        BY <2>1, <2>2, <3>1 DEF WhileServing
    <2>4. CASE p # target
      <3>1. UNCHANGED <<child, rst, drawn>> /\ hub'[target] = hub[target]
        BY <1>2, <1>3, <2>1, <2>4, HubTypes
      <3> QED
        BY <2>1, <2>2, <3>1 DEF Windows, WhileServing, Alive
    <2> QED
      BY <2>3, <2>4
  <1>10. WhileClosing'
    <2> SUFFICES ASSUME act = "closing" PROVE WhileClosing'
      BY DEF WhileClosing
    <2>1. rst' = "idle" /\ (Alive(target) => (Leaving(target) \/ hub[target].seen)) /\ target \in Ports
      BY <1>3, HubTypes DEF Windows, WhileClosing
    <2>2. CASE p = target
      BY <1>2, <2>1, <2>2 DEF WhileClosing, Alive
    <2>3. CASE p # target
      BY <1>2, <2>1, <2>3 DEF WhileClosing, Alive, Leaving
    <2> QED
      BY <2>2, <2>3
  <1>11. Between'
    <2> SUFFICES ASSUME act = "off" PROVE Between'
      BY DEF Between
    <2>1. /\ \A q \in Ports : Alive(q) => (Leaving(q) \/ (q = registry /\ hub[q].seen))
          /\ Up(registry) => hub[registry].secret = stored
      BY DEF Windows, Between
    <2>2. \A q \in Ports : Alive(q)' => (Leaving(q)' \/ (q = registry /\ hub'[q].seen))
      BY <1>2, <1>5, <2>1
    <2>3. Up(registry)' => (Up(registry) /\ hub'[registry] = hub[registry])
      BY <1>2, HubTypes DEF Up
    <2> QED
      BY <2>1, <2>2, <2>3 DEF Between
  <1> QED
    BY <1>6, <1>7, <1>8, <1>9, <1>10, <1>11 DEF Windows

\* The request starts the exit timer of the Hub it names, which was leaving before.
LEMMA PostWindows ==
  ASSUME IInv, Windows, HubHandlesPost
  PROVE  Windows'
  <1>1. /\ post' = NoPost
        /\ UNCHANGED <<registry, act, rst, drawn, child, target, procSecret, stored, creating,
                       clients>>
    BY DEF HubHandlesPost, managerVars, linkVars
  <1>2. \A q \in Ports :
          /\ hub'[q].up = hub[q].up /\ hub'[q].secret = hub[q].secret
          /\ hub'[q].seen = hub[q].seen
          /\ hub'[q].exit => (hub[q].exit \/ hub[q].up = "up")
          /\ Leaving(q) => hub'[q].exit
    <2>1. CASE Up(post.port) /\ hub[post.port].secret = post.secret
      <3> DEFINE p == post.port
      <3>1. p \in Ports /\ hub[p].up = "up" /\ hub' = [hub EXCEPT ![p].exit = TRUE]
        BY <2>1 DEF IInv, Shape, HubHandlesPost, Up
      <3>2. \A q \in Ports : Leaving(q) => (hub[q].exit \/ q = p)
        BY DEF Leaving
      <3> HIDE DEF p
      <3> QED
        BY <3>1, <3>2, HubTypes DEF Hubs
    <2>2. CASE ~(Up(post.port) /\ hub[post.port].secret = post.secret)
      <3>1. hub' = hub
        BY <2>2 DEF HubHandlesPost
      <3>2. \A q \in Ports : Leaving(q) => hub[q].exit
        BY <2>2, HubTypes DEF Leaving, Up
      <3> QED
        BY <3>1, <3>2
    <2> QED
      BY <2>1, <2>2
  <1>3. /\ \A q \in Ports : Alive(q)' <=> Alive(q)
        /\ \A q \in Ports : Leaving(q) => Leaving(q)'
    BY <1>2 DEF Alive, Leaving
  <1>4. /\ Up(child)' <=> Up(child)
        /\ Up(registry)' <=> Up(registry)
    BY <1>1, <1>2, HubTypes DEF Up
  <1>5. Steady'
    BY <1>1, <1>2, <1>3, <1>4 DEF Windows, Steady
  <1>6. OwnClients'
    <2>1. \A q \in Ports : Mine(q) => Mine(q)'
      BY <1>1, <1>3 DEF Mine
    <2> QED
      BY <1>1, <2>1, OwnClientsKept DEF Windows
  <1>7. WhilePolling'
    BY <1>1, <1>2, <1>3, HubTypes DEF Windows, WhilePolling, Alive
  <1>8. WhileServing'
    <2>1. Alive(target)' <=> Alive(target)
      BY <1>1, <1>3, HubTypes DEF Alive
    <2> QED
      BY <1>1, <1>2, <1>3, <2>1, HubTypes DEF Windows, WhileServing
  <1>9. WhileClosing'
    BY <1>1, <1>2, <1>3, HubTypes DEF Windows, WhileClosing, Alive, Leaving
  <1>10. Between'
    BY <1>1, <1>2, <1>3, <1>4, HubTypes DEF Windows, Between, Up
  <1> QED
    BY <1>5, <1>6, <1>7, <1>8, <1>9, <1>10 DEF Windows

\* A connection stops the exit timer of the Hub in use, never that of one that leaves.
LEMMA ConnectWindows ==
  ASSUME IInv, Windows, NEW i \in DOMAIN clients, Connect(i)
  PROVE  Windows'
  <1> DEFINE port == clients[i].port
  <1>1. /\ Up(port) /\ hub' = [hub EXCEPT ![port].seen = TRUE, ![port].exit = FALSE]
        /\ clients' = [Cut(clients, port) EXCEPT ![i].sock = "open"]
        /\ UNCHANGED <<registry, post, act, rst, drawn, child, target, procSecret, stored, creating>>
    BY DEF Connect, managerVars
  <1>2. port \in Ports /\ act # "off"
    BY HubTypes DEF IInv, OffIsBlank
  <1>3. /\ DOMAIN clients' = DOMAIN clients
        /\ \A j \in DOMAIN clients : clients'[j].port = clients[j].port
    <2>1. \A j \in DOMAIN clients : clients[j] \in Clients
      BY HubTypes, LenProperties, ElementOfSeq
    <2> DEFINE cut == Cut(clients, port)
    <2>2. /\ DOMAIN cut = DOMAIN clients
          /\ \A j \in DOMAIN clients : cut[j] \in Clients /\ cut[j].port = clients[j].port
      BY <2>1 DEF Cut, Clients
    <2>3. clients' = [cut EXCEPT ![i].sock = "open"]
      BY <1>1
    <2> HIDE DEF cut, port
    <2> QED
      BY <2>2, <2>3 DEF Clients
  <1>4. Mine(port)
    BY <1>2 DEF Windows, OwnClients
  <1> HIDE DEF port
  <1>5. /\ \A q \in Ports : /\ hub'[q].up = hub[q].up /\ hub'[q].secret = hub[q].secret
                            /\ q # port => hub'[q] = hub[q]
        /\ hub'[port].seen /\ ~hub'[port].exit
    <2> DEFINE seen == [hub EXCEPT ![port].seen = TRUE]
    <2>1. /\ seen \in [Ports -> Hubs] /\ seen[port].seen = TRUE
          /\ \A q \in Ports : /\ seen[q].up = hub[q].up /\ seen[q].secret = hub[q].secret
                              /\ q # port => seen[q] = hub[q]
      BY <1>2, HubTypes DEF Hubs
    <2>2. hub' = [seen EXCEPT ![port].exit = FALSE]
      BY <1>1
    <2> HIDE DEF seen
    <2> QED
      BY <1>2, <2>1, <2>2 DEF Hubs
  <1>6. /\ \A q \in Ports : Alive(q)' <=> Alive(q)
        /\ \A q \in Ports : q # port => (Leaving(q)' <=> Leaving(q))
        /\ \A q \in Ports : hub'[q].exit => hub[q].exit
    BY <1>1, <1>5 DEF Alive, Leaving
  <1>7. /\ Up(child)' <=> Up(child)
        /\ Alive(target)' <=> Alive(target)
    BY <1>1, <1>5, HubTypes DEF Up, Alive
  <1>8. port = child \/ (act # "polling" /\ port = target)
    BY <1>1, <1>4 DEF Mine, Up, Alive
  <1>9. Steady'
    <2>1. \A q \in Ports : hub'[q].exit => hub'[q].up = "up"
      BY <1>5, <1>6 DEF Windows, Steady
    <2>2. stored = 0 => (act = "off" /\ \A q \in Ports : ~Alive(q)')
      BY <1>6 DEF Windows, Steady
    <2>3. \A q \in Ports : hub'[q].up = "starting" =>
            (q = child /\ (act = "polling" \/ rst = "polling"))
      BY <1>5 DEF Windows, Steady
    <2> QED
      BY <1>1, <1>7, <2>1, <2>2, <2>3 DEF Windows, Steady
  <1>10. OwnClients'
    <2>1. \A q \in Ports : Mine(q) => Mine(q)'
      BY <1>1, <1>6 DEF Mine
    <2> QED
      BY <1>1, <1>2, <1>3, <2>1, OwnClientsKept DEF Windows
  <1>11. WhilePolling'
    <2> SUFFICES ASSUME act = "polling" PROVE WhilePolling'
      BY <1>1 DEF WhilePolling
    <2>1. port = child /\ child \in Ports
      BY <1>2, <1>8
    <2> QED
      BY <1>1, <1>5, <1>6, <2>1, HubTypes DEF Windows, WhilePolling, Alive
  <1>12. WhileServing'
    <2> SUFFICES ASSUME act \in {"done", "closing"} PROVE WhileServing'
      BY <1>1 DEF WhileServing
    <2>1. port = target
      BY <1>2, <1>8, HubTypes DEF Windows, WhileServing
    <2> QED
      BY <1>1, <1>5, <1>6, <1>7, <2>1, HubTypes DEF Windows, WhileServing
  <1>13. WhileClosing'
    <2> SUFFICES ASSUME act = "closing" PROVE WhileClosing'
      BY <1>1 DEF WhileClosing
    <2>1. port = target
      BY <1>2, <1>8, HubTypes DEF Windows, WhileServing
    <2> QED
      BY <1>1, <1>5, <2>1 DEF Windows, WhileClosing
  <1>14. Between'
    BY <1>1, <1>2 DEF Between
  <1> QED
    BY <1>9, <1>10, <1>11, <1>12, <1>13, <1>14 DEF Windows

\* A socket is lost.
LEMMA DropWindows ==
  ASSUME IInv, Windows, NEW i \in DOMAIN clients, LinkDrops(i)
  PROVE  Windows'
  <1>1. /\ clients' = [clients EXCEPT ![i].sock = "trying"]
        /\ UNCHANGED <<hub, registry, post, act, rst, drawn, child, target, procSecret, stored,
                       creating>>
    BY DEF LinkDrops, managerVars
  <1>2. \A j \in DOMAIN clients : clients[j] \in Clients
    BY HubTypes, LenProperties, ElementOfSeq
  <1>3. /\ DOMAIN clients' = DOMAIN clients
        /\ \A j \in DOMAIN clients : clients'[j].port = clients[j].port
    BY <1>1, <1>2 DEF Clients
  <1>4. OwnClients'
    <2>1. \A q \in Ports : Mine(q) => Mine(q)'
      BY <1>1 DEF Mine, Alive
    <2>2. act # "off" \/ act' = "off"
      BY <1>1
    <2> QED
      BY <1>1, <1>3, <2>1, <2>2, OwnClientsKept DEF Windows
  <1>5. Steady' /\ WhilePolling' /\ WhileServing' /\ WhileClosing' /\ Between'
    BY <1>1 DEF Windows, Steady, WhilePolling, WhileServing, WhileClosing, Between, Alive, Up,
                Leaving
  <1> QED
    BY <1>4, <1>5 DEF Windows

\* The request of a window that closes names its Hub and has the secret of that Hub.
LEMMA ReloadWindows ==
  ASSUME IInv, Windows, Clean, ReloadBegins \/ ReloadEnds
  PROVE  Windows'
  <1>1. CASE ReloadBegins
    <2>1. /\ act = "done" /\ act' = "closing" /\ post = NoPost /\ rst = "idle"
          /\ post' = [port |-> target, secret |-> procSecret]
          /\ UNCHANGED <<hub, registry, rst, drawn, child, target, procSecret, stored,
                         creating, clients>>
      BY <1>1 DEF ReloadBegins, linkVars, Clean, Overlapping, Fault
    <2>2. Steady'
      BY <2>1 DEF Windows, Steady, Alive, Up
    <2>3. OwnClients'
      <3>1. \A q \in Ports : Mine(q) => Mine(q)'
        BY <2>1 DEF Mine, Alive
      <3> QED
        BY <2>1, <3>1, OwnClientsKept DEF Windows
    <2>4. \A q \in Ports : Leaving(q) => Leaving(q)'
      BY <2>1, HubTypes DEF Leaving, NoPost
    <2>5. WhileServing'
      BY <2>1, <2>4 DEF Windows, WhileServing, Alive
    <2>6. WhileClosing'
      <3>1. Alive(target) => hub[target].up = "up" /\ hub[target].secret = procSecret
        BY <2>1, HubTypes DEF Windows, Steady, WhileServing, Alive
      <3>2. Alive(target)' => Leaving(target)'
        BY <2>1, <3>1 DEF Alive, Leaving
      <3> QED
        BY <2>1, <3>2 DEF WhileClosing
    <2>7. WhilePolling' /\ Between'
      BY <2>1 DEF WhilePolling, Between
    <2> QED
      BY <2>2, <2>3, <2>5, <2>6, <2>7 DEF Windows
  <1>2. CASE ReloadEnds
    <2>1. /\ act = "closing" /\ act' = "off" /\ rst' = "idle" /\ child' = 0
          /\ UNCHANGED <<hub, registry, post, stored>>
      BY <1>2 DEF ReloadEnds
    <2>2. procSecret = stored
      BY <2>1 DEF IInv, MemoryStored
    <2>3. /\ target = registry /\ rst = "idle"
          /\ \A q \in Ports : (Alive(q) /\ q # target) => Leaving(q)
          /\ Alive(target) => (Leaving(target) \/ hub[target].seen)
          /\ Alive(target) => hub[target].secret = stored
      BY <2>1, <2>2 DEF Windows, WhileServing, WhileClosing
    <2>4. Steady'
      <3>1. \A q \in Ports : hub[q].up # "starting"
        BY <2>1, <2>3 DEF Windows, Steady
      <3> QED
        BY <2>1, <3>1, HubTypes DEF Windows, Steady, Alive, Up
    <2>5. Between'
      BY <2>1, <2>3 DEF Between, Alive, Leaving, Up
    <2>6. OwnClients' /\ WhilePolling' /\ WhileServing' /\ WhileClosing'
      BY <2>1 DEF OwnClients, WhilePolling, WhileServing, WhileClosing
    <2> QED
      BY <2>4, <2>5, <2>6 DEF Windows
  <1> QED
    BY <1>1, <1>2

LEMMA WindowsInit == Init => Windows
  <1> SUFFICES ASSUME Init PROVE Windows
    OBVIOUS
  <1>1. \A p \in Ports : hub[p].up = "down" /\ ~hub[p].exit
    BY DEF Init, Down
  <1> QED
    BY <1>1 DEF Init, Windows, Steady, OwnClients, WhilePolling, WhileServing, WhileClosing,
                Between, Alive, Up

LEMMA WindowsNext == IInv /\ Clean /\ Windows /\ [Next]_vars => Windows'
  <1> SUFFICES ASSUME IInv, Clean, Windows, [Next]_vars PROVE Windows'
    OBVIOUS
  <1>1. CASE Activate
    BY <1>1, ActivateWindows
  <1>2. CASE ActivationPolled \/ ActivationPollFails
    BY <1>2, PollWindows
  <1>3. CASE CreateClient
    BY <1>3, CreateWindows
  <1>4. CASE RestartCommand
    BY <1>4, CommandWindows
  <1>5. CASE ReauthAccepted \/ ReauthRefused
    BY <1>5, ReauthWindows
  <1>6. CASE SoftRestart
    BY <1>6, SoftWindows
  <1>7. CASE KillHub
    BY <1>7, KillWindows
  <1>8. CASE RestartSpawns
    BY <1>8, RespawnWindows
  <1>9. CASE RestartPolled \/ RestartPollFails
    BY <1>9, RepollWindows
  <1>10. ASSUME NEW p \in Ports, HubStarts(p) PROVE Windows'
    BY <1>10, StartWindows
  <1>11. ASSUME NEW p \in Ports, HubCrashes(p) PROVE Windows'
    <2>1. /\ HubExits(p) /\ UNCHANGED <<registry, post, act, target, procSecret, stored, creating>>
          /\ ~(p = child /\ act = "polling")
      BY <1>11 DEF HubCrashes, Clean, Overlapping
    <2>2. ~(p = child /\ act = "closing")
      BY <1>11 DEF HubCrashes, Fault, Clean, Overlapping
    <2> QED
      BY <2>1, <2>2, ExitWindows
  <1>12. ASSUME NEW p \in Ports, HubMissesParent(p) PROVE Windows'
    BY <1>12, ExitWindows DEF HubMissesParent
  <1>13. ASSUME NEW p \in Ports, GraceExpires(p) PROVE Windows'
    <2>1. /\ HubExits(p) /\ UNCHANGED <<registry, post, act, target, procSecret, stored, creating>>
          /\ hub[p].exit
      BY <1>13 DEF GraceExpires
    <2>2. p = child => act # "closing"
      BY <1>13, HubTypes DEF GraceExpires, Windows, WhileServing
    <2> QED
      BY <2>1, <2>2, ExitWindows
  <1>14. ASSUME NEW i \in DOMAIN clients, Connect(i) \/ LinkDrops(i) PROVE Windows'
    BY <1>14, ConnectWindows, DropWindows
  <1>15. CASE HubHandlesPost
    BY <1>15, PostWindows
  <1>16. CASE ReloadBegins \/ ReloadEnds
    BY <1>16, ReloadWindows
  <1>17. CASE UNCHANGED vars
    BY <1>17 DEF Windows, Steady, OwnClients, Mine, WhilePolling, WhileServing, WhileClosing,
                 Between, Alive, Up, Leaving, vars, managerVars, linkVars
  <1> QED
    BY <1>1, <1>2, <1>3, <1>4, <1>5, <1>6, <1>7, <1>8, <1>9, <1>10, <1>11, <1>12, <1>13,
       <1>14, <1>15, <1>16, <1>17 DEF Next

\* The scenario of a behaviour does not change.
LEMMA ScenarioStays == IInv /\ [Next]_vars => used'.may = used.may
  <1> SUFFICES ASSUME IInv, [Next]_vars PROVE used'.may = used.may
    OBVIOUS
  <1>1. \A kind : Fault(kind) => used'.may = used.may
    BY FaultType
  <1>2. used' = used \/ (\E kind : Fault(kind)) \/ RestartCommand
    BY DEF Next, vars, Activate, ActivationPolled, ActivationPollFails, CreateClient,
           ReauthAccepted, ReauthRefused, SoftRestart, KillHub, RestartSpawns, RestartPolled,
           RestartPollFails, HubStarts, HubCrashes, GraceExpires, HubMissesParent, Connect,
           LinkDrops, HubHandlesPost, ReloadBegins, ReloadEnds
  <1>3. RestartCommand => used'.may = used.may
    <2>1. used \in [may : Scenarios, faults : Nat, commands : Nat]
      BY DEF IInv, Shape
    <2> QED
      BY <2>1 DEF RestartCommand
  <1> QED
    BY <1>1, <1>2, <1>3

-----------------------------------------------------------------------------
(* The theorems.                                                           *)

\* The invariant the theorems below are read off.
THEOREM Invariance == Spec => []IInv
  BY InvInit, InvNext, PTL DEF Spec

\* The client in use has the stored secret whenever no restart is in progress, under
\* every combination of faults: a client that was created during a restart is brought
\* up to date at its end (hub-manager-lifecycle.ts, extension-composition.ts).
THEOREM ClientIsFresh == Spec => []ClientSecretFresh
  <1>1. IInv => ClientSecretFresh
    BY DEF IInv, LastFresh, ClientSecretFresh
  <1> QED
    BY <1>1, Invariance, PTL

\* A manager whose window is not reloaded never has two Hubs, however restarts,
\* crashes, failed polls and lost answers follow one another.
THEOREM NeverTwoHubs == Spec => []OneHub
  <1>1. IInv => OneHub
    <2> SUFFICES ASSUME IInv, NoReload
                 PROVE  Cardinality({p \in Ports : hub[p].up # "down"}) <= 1
      BY DEF OneHub
    <2>1. {p \in Ports : hub[p].up # "down"} \subseteq {child}
      BY DEF IInv, OneWindow, Alive
    <2>2. IsFiniteSet({child}) /\ Cardinality({child}) = 1
      BY FS_Singleton
    <2> QED
      BY <2>1, <2>2, FS_Subset
  <1> QED
    BY <1>1, Invariance, PTL

\* Across reloads, without the faults that mix up the Hubs of two windows: who is alive,
\* which secret it has and what it is going to do, at each stage of a window.
THEOREM WindowsInvariance == Spec => [](Clean => Windows)
  <1>1. Init => (Clean => Windows)
    BY WindowsInit
  <1>2. IInv /\ (Clean => Windows) /\ [Next]_vars => (Clean => Windows)'
    BY ScenarioStays, WindowsNext DEF Clean, Faults
  <1> QED
    BY <1>1, <1>2, Invariance, PTL DEF Spec

\* The three copies of the secret agree whenever no restart is in progress: the
\* manager's, SecretStorage's and the Hub's (hub-manager.ts, hub-manager-lifecycle.ts).
THEOREM SecretsAgreeHolds == Spec => []SecretsAgree
  <1>1. IInv /\ (Clean => Windows) => SecretsAgree
    <2> SUFFICES ASSUME IInv, Clean => Windows, rst = "idle", act = "done"
                 PROVE  /\ procSecret = stored
                        /\ (NoReload \/ Clean) /\ Alive(target) => hub[target].secret = stored
      BY DEF SecretsAgree, Clean, Alive
    <2>1. procSecret = stored /\ target \in Ports
      BY DEF IInv, Shape, ManagerShape, MemoryStored
    <2>2. NoReload /\ Alive(target) => hub[target].secret = stored
      BY <2>1 DEF IInv, OneWindow
    <2>3. Clean /\ Alive(target) => hub[target].secret = stored
      BY <2>1 DEF Windows, WhileServing
    <2> QED
      BY <2>1, <2>2, <2>3
  <1> QED
    BY <1>1, Invariance, WindowsInvariance, PTL

\* No Hub is left behind: what is alive is in use or about to exit (hub-process.ts,
\* disconnect-handler.ts).
THEOREM NoOrphanHolds == Spec => []NoOrphan
  <1>1. IInv /\ (Clean => Windows) => NoOrphan
    <2> SUFFICES ASSUME IInv, Clean => Windows, act \in {"polling", "done"},
                        NoReload \/ Clean, NEW p \in Ports, Alive(p)
                 PROVE  p \in {child, target, post.port} \/ hub[p].exit
      BY DEF NoOrphan, Clean, Alive
    <2>1. CASE NoReload
      BY <2>1 DEF IInv, OneWindow
    <2>2. CASE Clean
      BY <2>2 DEF Windows, WhilePolling, WhileServing, Leaving
    <2> QED
      BY <2>1, <2>2
  <1> QED
    BY <1>1, Invariance, WindowsInvariance, PTL

=============================================================================
