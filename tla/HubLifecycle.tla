---------------------------- MODULE HubLifecycle ----------------------------
(***************************************************************************)
(* Who runs the Hub and who is connected to it: HubManager (activation,     *)
(* restart, exit handling), HubProcess, the WsClients that onHubReady        *)
(* creates (packages/bridge/src/hub-manager*.ts, hub-process.ts,             *)
(* extension-composition.ts), and on the Hub's side the check of the secret, *)
(* the eviction and the exit timer of POST /bridge/disconnect               *)
(* (packages/hub/src/bridge-connection.ts, disconnect-handler.ts).          *)
(*                                                                         *)
(* A Hub is known by the port it listens on.  A secret is the number of the  *)
(* rotation that drew it; the token is rotated with it and left out.  An     *)
(* await that may be overtaken ends an action.                              *)
(***************************************************************************)
EXTENDS Integers, Sequences, FiniteSets

CONSTANTS
  Ports,       \* ports a Hub may take, more than there are Hubs at once
  Preferred,   \* the configured one
  Scenarios,   \* sets of faults; those of one set may occur together
  MaxFaults,   \* bound: number of faults
  MaxCommands  \* bound: accordo.hub.restart commands

FaultKinds ==
  {"drop",         \* a socket of a client is lost
   "crash",        \* the Hub that is the manager's child exits
   "crashBusy",    \* the same while a restart is past the reauthentication
                   \* or the window closes
   "crashAdopted", \* a Hub of an earlier window exits
   "ackLost",      \* a Hub rotates its secret and the answer is lost
   "pollTimeout",  \* a Hub takes more than ten seconds to start
   "reload",       \* the window is reloaded
   "reloadBusy",   \* the same while a restart is in progress
   "latePost",     \* a Hub handles POST /bridge/disconnect after its timeout
   "graceRace",    \* the exit timer of a Hub expires once a Bridge adopted it
   "reparented",   \* init adopts the processes of a host that is gone
   "early"}        \* a crash or a restart command comes while activation polls

ASSUME HubLifecycleAssumption ==
  /\ Ports \subseteq Nat \ {0} /\ Cardinality(Ports) > 1
  /\ Preferred \in Ports
  /\ Scenarios \subseteq SUBSET FaultKinds

VARIABLES
  hub,       \* the Hub on each port
  registry,  \* port of the project's entry in hubs.json, or 0
  post,      \* POST /bridge/disconnect on its way: its port, or 0, and secret
  act,       \* where activation and deactivation stand
  rst,       \* where restart stands; restartInProgress unless idle
  drawn,     \* the secret the restart has drawn
  child,     \* port of processState.hubProcess, or 0
  target,    \* healthState.port
  procSecret,\* processState.secret, 0 for null
  stored,    \* the secret in SecretStorage, 0 for none
  attempted, \* processState.restartAttempted
  creating,  \* onHubReady calls that wait for secretStorage.get
  clients,   \* the WsClients; the last one is state.wsClient
  gen,       \* number of secrets drawn
  used       \* the scenario; faults and commands so far

managerVars == <<act, rst, drawn, child, target, procSecret, stored, attempted, gen>>
linkVars    == <<creating, clients>>
vars == <<hub, registry, post, managerVars, linkVars, used>>

Down == [up |-> "down", secret |-> 0, seen |-> FALSE, exit |-> FALSE]
Trying == "trying"
NoPost == [port |-> 0, secret |-> 0]

Init ==
  /\ hub = [p \in Ports |-> Down] /\ registry = 0 /\ post = NoPost
  /\ act = "off" /\ rst = "idle" /\ drawn = 0
  /\ child = 0 /\ target = Preferred
  /\ procSecret = 0 /\ stored = 0 /\ attempted = FALSE
  /\ creating = <<>> /\ clients = <<>>
  /\ gen = 0 /\ used \in [may : Scenarios, faults : {0}, commands : {0}]

\* The faults that may occur in this behaviour.
Faults == used.may
NoReload == Faults \cap {"reload", "reloadBusy"} = {}

Up(p) == p # 0 /\ hub[p].up = "up"

Fault(kind) ==
  /\ kind \in Faults /\ used.faults < MaxFaults
  /\ used' = [used EXCEPT !.faults = @ + 1]

-----------------------------------------------------------------------------
(* Helpers.                                                                *)

\* HubProcess.spawn.  A Hub takes the port it is given or, when that is taken,
\* another free one.
Spawn(secret) ==
  \E p \in Ports :
    /\ hub[p].up = "down" /\ (hub[target].up = "down" => p = target)
    /\ hub' = [hub EXCEPT ![p] = [up |-> "starting", secret |-> secret, seen |-> FALSE, exit |-> FALSE]]
    /\ child' = p /\ procSecret' = secret /\ attempted' = FALSE

\* onHubReady: the client is created once secretStorage.get has answered.
OnHubReady(p) == creating' = Append(creating, p)

\* Mutant of OnCredentialsRotated: the client is not told.
CredentialsKept == UNCHANGED clients

\* onCredentialsRotated: updateSecret on the client state.wsClient names.
OnCredentialsRotated ==
  clients' = [i \in DOMAIN clients |->
                IF i = Len(clients) THEN [clients[i] EXCEPT !.secret = drawn] ELSE clients[i]]

\* The sockets to a Hub that goes are lost; their clients try again for ever.
Cut(cs, p) == [i \in DOMAIN cs |-> IF cs[i].port = p THEN [cs[i] EXCEPT !.sock = Trying] ELSE cs[i]]

-----------------------------------------------------------------------------
(* Activation.                                                             *)

\* activateHub: stored credentials and the entry's health decide; a Hub that
\* has had a Bridge has tools and is adopted (bridge-connected, registry-loaded).
Activate ==
  /\ act = "off"
  /\ \/ /\ stored = 0
        /\ gen' = gen + 1 /\ stored' = gen + 1
        /\ Spawn(gen + 1) /\ act' = "polling"
        /\ UNCHANGED <<target, creating>>
     \/ /\ stored # 0 /\ Up(registry) /\ hub[registry].seen
        /\ procSecret' = stored /\ target' = registry
        /\ OnHubReady(registry) /\ act' = "done"
        /\ UNCHANGED <<gen, stored, hub, child, attempted>>
     \/ /\ stored # 0 /\ ~(Up(registry) /\ hub[registry].seen)
        /\ Spawn(stored) /\ act' = "polling"
        /\ UNCHANGED <<gen, stored, target, creating>>
  /\ UNCHANGED <<registry, post, rst, drawn, clients, used>>

\* spawnAndWait after its poll: the port is the one the spawned process has
\* entered in the registry.
ActivationPolled ==
  LET p == IF child # 0 THEN child ELSE registry
  IN /\ act = "polling" /\ Up(p)
     /\ target' = p /\ OnHubReady(p) /\ act' = "done"
     /\ UNCHANGED <<hub, registry, post, rst, drawn, child, procSecret, stored,
                    attempted, gen, clients, used>>

\* The poll gives up: nothing is reported.
ActivationPollFails ==
  /\ act = "polling" /\ ~Up(IF child # 0 THEN child ELSE registry)
  /\ Fault("pollTimeout")
  /\ act' = "done"
  /\ UNCHANGED <<hub, registry, post, rst, drawn, child, target, procSecret, stored,
                 attempted, gen, linkVars>>

\* After the await the client is created with the secret that is stored now, and
\* connects.  The client it replaces is not disconnected.
CreateClient ==
  /\ creating # <<>>
  /\ creating' = Tail(creating)
  /\ clients' = Append(clients, [sock |-> Trying, secret |-> stored, port |-> Head(creating)])
  /\ UNCHANGED <<hub, registry, post, managerVars, used>>

-----------------------------------------------------------------------------
(* Restart.                                                                *)

\* restart() draws the new credentials; a second call returns at once.
BeginRestart ==
  /\ rst' = "reauth" /\ gen' = gen + 1 /\ drawn' = gen + 1

RestartCommand ==
  /\ act = "done" \/ (act = "polling" /\ "early" \in Faults)
  /\ rst = "idle"
  /\ used.commands < MaxCommands
  /\ used' = [used EXCEPT !.commands = @ + 1]
  /\ BeginRestart
  /\ UNCHANGED <<hub, registry, post, act, child, target, procSecret, stored, attempted, linkVars>>

\* POST /bridge/reauth is accepted with the current secret.
ReauthAccepted ==
  /\ rst = "reauth" /\ Up(target) /\ hub[target].secret = procSecret
  /\ hub' = [hub EXCEPT ![target].secret = drawn]
  /\ \/ rst' = "persist" /\ UNCHANGED used
     \/ rst' = "kill" /\ Fault("ackLost")
  /\ UNCHANGED <<registry, post, act, drawn, child, target, procSecret, stored,
                 attempted, gen, linkVars>>

ReauthRefused ==
  /\ rst = "reauth" /\ ~(Up(target) /\ hub[target].secret = procSecret)
  /\ rst' = "kill"
  /\ UNCHANGED <<hub, registry, post, act, drawn, child, target, procSecret, stored,
                 attempted, gen, linkVars, used>>

\* Mutant of SoftRestart: the rotated credentials are not persisted.
SoftRestartForgets ==
  /\ rst = "persist" /\ rst' = "idle"
  /\ procSecret' = drawn
  /\ OnCredentialsRotated
  /\ UNCHANGED <<hub, registry, post, act, drawn, child, target, stored, attempted, gen,
                 creating, used>>

\* softRestart: memory, then SecretStorage, then the client.
SoftRestart ==
  /\ rst = "persist" /\ rst' = "idle"
  /\ procSecret' = drawn /\ stored' = drawn
  /\ OnCredentialsRotated
  /\ UNCHANGED <<hub, registry, post, act, drawn, child, target, attempted, gen, creating, used>>

\* Mutant of KillHub: the process is not waited for and lives on.
KillHubNot ==
  /\ rst = "kill" /\ rst' = "spawn"
  /\ child' = 0
  /\ UNCHANGED <<hub, registry, post, act, drawn, target, procSecret, stored, attempted, gen,
                 linkVars, used>>

\* killHub signals the child and waits for its exit; without a child it returns.
KillHub ==
  /\ rst = "kill" /\ rst' = "spawn"
  /\ \/ /\ child = 0 /\ UNCHANGED <<hub, clients, child>>
     \/ /\ child # 0
        /\ hub' = [hub EXCEPT ![child] = Down]
        /\ clients' = Cut(clients, child) /\ child' = 0
  /\ UNCHANGED <<registry, post, act, drawn, target, procSecret, stored, attempted, gen,
                 creating, used>>

\* hardRestart spawns and persists before it polls.
RestartSpawns ==
  /\ rst = "spawn" /\ rst' = "polling"
  /\ Spawn(drawn) /\ stored' = drawn
  /\ UNCHANGED <<registry, post, act, drawn, target, gen, linkVars, used>>

\* pollAndNotify finds a healthy Hub on the old port and reads the port from the
\* registry; onCredentialsRotated follows before the new client exists.
RestartPolled ==
  /\ rst = "polling" /\ Up(target) /\ rst' = "idle"
  /\ target' = registry /\ OnHubReady(registry)
  /\ OnCredentialsRotated
  /\ UNCHANGED <<hub, registry, post, act, drawn, child, procSecret, stored, attempted, gen, used>>

\* The poll gives up, for sure when the spawned Hub is gone: nothing is reported.
RestartPollFails ==
  /\ rst = "polling" /\ ~Up(target) /\ rst' = "idle"
  /\ \/ child = 0 /\ UNCHANGED used
     \/ child # 0 /\ Fault("pollTimeout")
  /\ OnCredentialsRotated
  /\ UNCHANGED <<hub, registry, post, act, drawn, child, target, procSecret, stored,
                 attempted, gen, creating>>

-----------------------------------------------------------------------------
(* The Hub processes.                                                      *)

\* A Hub enters itself in the registry and listens.
HubStarts(p) ==
  /\ hub[p].up = "starting"
  /\ hub' = [hub EXCEPT ![p].up = "up"] /\ registry' = p
  /\ UNCHANGED <<post, managerVars, linkVars, used>>

\* Mutant of HubExits: the exit of the child is not followed by a restart.
HubExitsUnseen(p) ==
  /\ hub' = [hub EXCEPT ![p] = Down] /\ clients' = Cut(clients, p)
  /\ child' = IF p = child THEN 0 ELSE child
  /\ UNCHANGED <<rst, gen, drawn, attempted>>

\* _onProcessExit: the exit of the child, and of no other Hub, starts a restart,
\* once per spawn and unless one is in progress.
HubExits(p) ==
  /\ hub' = [hub EXCEPT ![p] = Down] /\ clients' = Cut(clients, p)
  /\ \/ p # child /\ UNCHANGED <<child, rst, gen, drawn, attempted>>
     \/ /\ p = child /\ child' = 0 /\ attempted' = TRUE
        /\ IF ~attempted /\ rst = "idle" THEN BeginRestart ELSE UNCHANGED <<rst, gen, drawn>>

HubCrashes(p) ==
  /\ hub[p].up # "down"
  /\ p = child /\ act = "polling" => "early" \in Faults
  /\ Fault(CASE p # child -> "crashAdopted"
             [] p = child /\ rst \in {"idle", "reauth"} /\ act # "closing" -> "crash"
             [] OTHER -> "crashBusy")
  /\ HubExits(p)
  /\ UNCHANGED <<registry, post, act, target, procSecret, stored, creating>>

\* The check every five seconds that the parent lives, that is, that it is not
\* init.  The parent is the extension host that spawned the Hub.
HubMissesParent(p) ==
  /\ "reparented" \in Faults
  /\ Up(p) /\ p # child
  /\ HubExits(p)
  /\ UNCHANGED <<registry, post, act, target, procSecret, stored, creating, used>>

\* Mutant of HubHandlesPost: the request is answered and no timer started.
HubAnswersPost ==
  /\ post # NoPost /\ post' = NoPost
  /\ UNCHANGED <<hub, registry, managerVars, linkVars, used>>

\* POST /bridge/disconnect starts the exit timer, with or without a Bridge.
HubHandlesPost ==
  /\ post # NoPost /\ post' = NoPost
  /\ hub' = IF Up(post.port) /\ hub[post.port].secret = post.secret
              THEN [hub EXCEPT ![post.port].exit = TRUE] ELSE hub
  /\ UNCHANGED <<registry, managerVars, linkVars, used>>

\* The exit timer expires.  Its ten seconds are longer than a deactivation and,
\* but for the two faults, than an adoption.
GraceExpires(p) ==
  /\ hub[p].exit
  /\ \/ act \in {"off", "polling"} \/ p # target
     \/ act = "done" /\ Faults \cap {"latePost", "graceRace"} # {}
  /\ HubExits(p)
  /\ UNCHANGED <<registry, post, act, target, procSecret, stored, creating, used>>

-----------------------------------------------------------------------------
(* The sockets.                                                            *)

\* An upgrade with the Hub's secret is accepted: the connection the Hub has is
\* evicted and the exit timer cancelled.  Any other upgrade fails, with status
\* 401 or no answer, and is tried again.
Connect(i) ==
  /\ clients[i].sock = Trying
  /\ Up(clients[i].port) /\ hub[clients[i].port].secret = clients[i].secret
  /\ clients' = [Cut(clients, clients[i].port) EXCEPT ![i].sock = "open"]
  /\ hub' = [hub EXCEPT ![clients[i].port].seen = TRUE, ![clients[i].port].exit = FALSE]
  /\ UNCHANGED <<registry, post, managerVars, creating, used>>

LinkDrops(i) ==
  /\ clients[i].sock = "open" /\ Fault("drop")
  /\ clients' = [clients EXCEPT ![i].sock = Trying]
  /\ UNCHANGED <<hub, registry, post, managerVars, creating>>

-----------------------------------------------------------------------------
(* Reload of the window.                                                   *)

\* cleanupExtension starts with softDisconnect.  Bound: one such request at a time.
ReloadBegins ==
  /\ act = "done" /\ post = NoPost /\ Fault(IF rst = "idle" THEN "reload" ELSE "reloadBusy")
  /\ act' = "closing" /\ post' = [port |-> target, secret |-> procSecret]
  /\ UNCHANGED <<hub, registry, rst, drawn, child, target, procSecret, stored, attempted,
                 gen, linkVars>>

\* softDisconnect has its answer, or gave up waiting; the clients and what the
\* extension host remembers are gone, the Hubs and SecretStorage stay.
ReloadEnds ==
  /\ act = "closing" /\ (post = NoPost \/ "latePost" \in Faults)
  /\ act' = "off" /\ rst' = "idle" /\ drawn' = 0
  /\ child' = 0 /\ target' = Preferred /\ procSecret' = 0 /\ attempted' = FALSE
  /\ creating' = <<>> /\ clients' = <<>>
  /\ UNCHANGED <<hub, registry, post, stored, gen, used>>

Next ==
  \/ Activate \/ ActivationPolled \/ ActivationPollFails \/ CreateClient
  \/ RestartCommand \/ ReauthAccepted \/ ReauthRefused \/ SoftRestart
  \/ KillHub \/ RestartSpawns \/ RestartPolled \/ RestartPollFails
  \/ \E p \in Ports : HubStarts(p) \/ HubCrashes(p) \/ GraceExpires(p) \/ HubMissesParent(p)
  \/ \E i \in DOMAIN clients : Connect(i) \/ LinkDrops(i)
  \/ HubHandlesPost \/ ReloadBegins \/ ReloadEnds

Spec == Init /\ [][Next]_vars

\* Every await answers in the end, a Hub that was spawned comes up, and every
\* client keeps trying.
MaxClients == MaxFaults + MaxCommands + 2
Fairness ==
  /\ WF_vars(Activate) /\ WF_vars(ActivationPolled) /\ WF_vars(CreateClient)
  /\ WF_vars(ReauthAccepted) /\ WF_vars(ReauthRefused) /\ WF_vars(SoftRestart)
  /\ WF_vars(KillHub) /\ WF_vars(RestartSpawns) /\ WF_vars(RestartPolled)
  /\ WF_vars(RestartPollFails) /\ WF_vars(HubHandlesPost) /\ WF_vars(ReloadEnds)
  /\ \A p \in Ports : WF_vars(HubStarts(p))
  /\ \A i \in 1..MaxClients : WF_vars(i \in DOMAIN clients /\ Connect(i))

FairSpec == Spec /\ Fairness

-----------------------------------------------------------------------------
(* Properties.                                                             *)

\* Faults that, with a reload, let a Hub of the earlier window come up while the next
\* window spawns one: it polls the wrong one, or adopts a Hub with another secret.
Overlapping == {"pollTimeout", "reloadBusy", "early", "crashBusy", "ackLost"}

\* Whenever no restart is in progress, the three copies of the secret agree: the
\* one in memory, the one a reloaded window will find and, unless Hubs of two windows
\* are mixed up, the Hub's own.
SecretsAgree ==
  rst = "idle" /\ act = "done" =>
    /\ procSecret = stored
    /\ (NoReload \/ Faults \cap Overlapping = {}) /\ hub[target].up # "down" =>
         hub[target].secret = stored

\* The client the Bridge uses can authenticate after its next loss of the socket.
ClientSecretFresh ==
  rst = "idle" /\ act = "done" /\ creating = <<>> /\ clients # <<>> =>
    clients[Len(clients)].secret = stored

\* Without a reload there is never a second Hub, however restarts, crashes, late
\* starts and lost answers follow one another.  (With one, a Hub that is going to
\* exit and the new one may overlap.)
OneHub == NoReload => Cardinality({p \in Ports : hub[p].up # "down"}) <= 1

\* A Hub that is alive is the child or the Hub the Bridge talks to, or it is going
\* to exit: none is left behind.  Not so when Hubs of two windows overlap, or when an
\* adopted Hub is replaced (ackLost): killHub has no child to kill.
NoOrphan ==
  act \in {"polling", "done"} /\ (NoReload \/ Faults \cap Overlapping = {}) =>
    \A p \in Ports : hub[p].up # "down" => p \in {child, target, post.port} \/ hub[p].exit

\* Restarts, crashes and losses of the socket never leave the Bridge without a
\* connection for good, with reloads of the window or with lost answers and
\* restarts during activation.  Each other fault, or both of these together, can.
LinkComesBack ==
  \/ Faults \subseteq {"drop", "crash", "reload"}
  \/ Faults \subseteq {"drop", "crash", "ackLost", "early"}
  => []<>(\E i \in DOMAIN clients : clients[i].sock = "open")

=============================================================================
