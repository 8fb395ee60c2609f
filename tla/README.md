# Accordo: a verification of the Hub, the Bridge and the link between them

Accordo lets AI agents use a VS Code window. An agent speaks MCP (HTTP and a notification stream) to the **Hub**, a Node
process; the Hub speaks WebSocket to the **Bridge**, a VS Code extension; the Bridge calls the tool handlers that other
extensions registered. A second relay connects the browser tools of that window to a Chrome extension.

    agent --HTTP/SSE--> Hub --WebSocket--> Bridge --calls--> editor, comments, browser, ... tools
                                                     browser tools --WebSocket--> shared relay --> Chrome extension

All of it is single-threaded JavaScript: a handler runs to completion, and what makes the system hard is the order in
which handlers, timers, promise continuations, socket events and process exits follow one another. So one handler, up to
its next `await`, is one action of a model, and every event that the code does not control is chosen freely.

Paths below are relative to `src/packages/`.

## 1. Inventory

| Component | State it keeps | Operations | Hard behaviour | What makes it correct |
|---|---|---|---|---|
| Hub: invocation dispatch (`hub/src/bridge-dispatch.ts`, `bridge-connection.ts`) | pending invocations with timers, FIFO queue, two counters, a state request, the socket, grace timer | invoke, result, cancelled, timeout, cancel, requestState, connect, evict, close, grace | answer, timeout, cancel and disconnect race for one slot; a stale socket is replaced | every caller settled once and in the end; limits; FIFO; no idle slot |
| Hub: tools/call executor (`mcp-call-executor*.ts`) | the pending request | call, retry after a timeout, respond | retry while the first attempt still runs | no duplicate effect of a tool that is not idempotent; a success is true |
| Bridge: CommandRouter (`bridge/src/command-router.ts`) | Map of tracked calls with timers | invoke, cancel, timeout, unregister, cancelAll | cancel during the dialog; late handlers | one answer per call |
| Bridge: HubManager, HubProcess, HubHealth, rebind probe | child process, port, secret, flags; SecretStorage; `hubs.json` | activate, adopt, restart (soft, hard), poll, kill, exit, soft disconnect | exits and reloads in the middle of a restart; copies of a secret | secrets agree; one Hub; none left behind; the link comes back |
| Bridge: composition (`extension-composition.ts`) | the current client, publisher, router | onHubReady, onCredentialsRotated, cleanup | two asynchronous callbacks update one client | the current client has the current secret |
| Bridge: WsClient (`ws-client.ts`) | socket, last state, secret, reconnect timer | connect, open, close, send, reconnect | sends are dropped while a handshake runs | what is replayed is what the Hub should have |
| Bridge: StatePublisher, diff (`state-publisher.ts`, `state-diff.ts`) | current and sent state, debounce and keyframe timers | events, publishState, flush, keyframe | a sent state that was never delivered | the Hub's copy converges |
| Hub: StateCache (`state-cache.ts`) | merged state | applyPatch, clearModalities | clearing races with a replay | never older, in the end equal |
| Bridge: ExtensionRegistry (`extension-registry.ts`) | tools, handlers, batches, send timer | registerTools, dispose, send | batches that share names; a disposable disposed of twice | a name goes with its batch, and not before unless one is disposed of twice |
| Hub: ToolRegistry, notifications (`tool-registry.ts`, `server-sse.ts`) | catalog, names last announced, streams | replace, get, list, notify | one comparison for all streams | an agent whose list is out of date is told |
| Hub: exit timer, reauthentication, upgrade (`disconnect-handler.ts`, `server-reauth.ts`) | timer, secret | disconnect, reauth, upgrade | a late request | only an abandoned Hub exits |
| Hub: process (`index.ts`), registry file (`hub-registry.ts`) | `hubs.json`, port | start, parent check, write and remove an entry | two writers of one file; two starts on one port | an entry names the live Hub |
| Hub: MCP sessions, HTTP routing, stdio, prompt, directives, logs | session map; files | one request, one response | little | mapping of data |
| Comments: store, repository (`comments/src/comment-store.ts`) | threads, write queue, file | create, reply, resolve, delete, prune, document change | changes while a write runs, failed writes; pruning across an await | the file has every change once the queue is empty |
| Comments: browser sync (`comment-store-browser-sync.ts`, `browser-extension/src/sw-comment-sync.ts`) | tombstones on both sides | full-state exchange both ways | old states after deletions | replicas converge, nothing deleted returns |
| Browser: write lease (`browser/src/write-lease.ts`) | holder, queue, expiry timer | acquire, release, releaseAll, expiry | a timer cleared for another holder | one writer, FIFO, no lease for ever |
| Browser: shared relay (`shared-relay-server-*.ts`) | Chrome socket, Hub sockets, pending requests | connect, replace, request, response, close | late close of a replaced socket | every request answered, to its sender |
| Browser: relay ownership (`relay-discovery.ts`, `relay-lifecycle-*.ts`) | lock and discovery files | acquire, release, take over | two windows recover one stale lock | one owner |
| Browser tools, Chrome extension, editor, drawing, marp, md-viewer, voice, SDK, types | views, retention buffers | requests | little shared state | data conversion |

`PROJECT.json` lists each with its status, the runs, the source lines of every definition, and 40 hazards at their lines.

## 2. Modules and how they correspond to the code

| Module | Models | Extends or instantiates |
|---|---|---|
| `InvocationService` | what the Hub promises its callers: a bounded FIFO service (abstract) | |
| `BridgeDispatch` | dispatch and connection of the Hub; the Bridge is its environment | implements `InvocationService` |
| `BridgeDispatch_proofs` | its theorems | `BridgeDispatch`, `TLAPS` |
| `CommandRouter` | the router of the Bridge; the Hub is its environment | |
| `CommandRouter_proofs` | its theorems | `CommandRouter`, `TLAPS` |
| `InvocationPath` | a tools/call from end to end with the executor's retry | instances of `BridgeDispatch` and `CommandRouter` that share the frames on the wire |
| `InvocationPath_proofs` | its theorems | `InvocationPath`, instances of `BridgeDispatch_proofs` and `CommandRouter_proofs` |
| `StateSync` | publisher, client and cache of the IDE state | |
| `StateSync_proofs` | its theorems | `StateSync`, `TLAPS` |
| `ToolCatalog` | extension registry, client, Hub registry, an agent's list | |
| `ToolCatalog_proofs` | its theorems | `ToolCatalog`, `TLAPS` |
| `HubLifecycle` | who runs the Hub and who is connected to it | |
| `HubLifecycle_proofs` | its theorems | `HubLifecycle`, `TLAPS` |
| `FifoLease` | what the write lease promises to the Hubs: a bounded first-come first-served lease (abstract) | |
| `WriteLease` | the write lease with its promises and timers; its callers are any | implements `FifoLease` |
| `SharedRelay` | the relay between the Hubs' windows and Chrome, with its lease | extends `WriteLease` |
| `SharedRelay_proofs` | the theorems of `WriteLease` and `SharedRelay` | `SharedRelay`, `TLAPS` |
| `CommentSync` | browser comments in VS Code and in Chrome, their exchange, the write queue and the file | |
| `CommentSync_proofs` | its theorems | `CommentSync`, `TLAPS` |
| `MCBridgeDispatch`, `MCToolCatalog`, `MCSharedRelay`, `MCCommentSync` | symmetry and constants for model checking | |

A variable has the name of the field it stands for (`pendingInvokes`, `sentState` as `sent`, `restartInProgress` as
`rst # "idle"`), an action the name of the handler (`OnResult`, `HandleDisconnect`, `SoftRestart`). Data is reduced to what
the properties tell apart: an invocation is its id, a value of the IDE state is a version number, a tool definition is the
batch that registered it, a secret is the number of the rotation that drew it, a Hub is the port it listens on. Frames are
records; a socket is a FIFO sequence that is lost as a whole when the socket goes.

- `BridgeDispatch`: `inflight` and `queued` are the hand-kept counters, `timers` the armed timeouts, `outcome` what each
  caller's promise has come to. `DequeueAndDispatch` and `FreeSlot` are helpers as in the code, called by the actions. The
  identity test in the timer of `requestState`, which never holds, is modelled as what it does: it never clears the slot.
- `CommandRouter`: `phase = "running"` is membership in the inflight Map. A handler that throws before it returns a promise
  and data that `JSON.stringify` rejects are choices of `Start` and `HandlerSettles`.
- `InvocationPath`: the executor classifies every JSON-RPC error with code -32000 as a timeout, so a cancellation counts as
  one (`IsInvokeTimeout`); a continuation runs before the next event (`Due = {}` in `Next`).
- `StateSync`: the client's `lastState` may be the publisher's live object and not a copy (`Live`), for `getState` returns
  the object itself; the three merges (`Carry`, `Spread`, `ApplyPatch`) are three operators because the code has three rules.
- `ToolCatalog`: the debounced send is dropped by a closed socket, and the open handler reads the live registry. `Dispose` is
  the disposable, which can be called any number of times and each time removes the names of its batch (`RemoveNames`); the
  stage "again" is history. A reload takes the disposables with the extension host ("gone").
- `HubLifecycle`: `act` and `rst` are the program counters of activation and restart between their awaits; `child`,
  `target` and `registry` are the three places that name "the Hub"; `procSecret`, `stored` and the Hub's own are the copies
  of the secret.

- `WriteLease`: `expiryTimer` is the field, `armed` the timers that will fire: `clearTimeout` stops the one the field names,
  so that no other runs is a property. `waiting` are the promises of `acquire` that nothing has settled yet.
- `SharedRelay`: `hubs`, `pending` and `routed` are the server's tables; `req` says where a request is, and `due` is a
  resolved `acquire` whose continuation comes next; `oldSocket` and `oldChrome` are replaced sockets whose close event has
  not been handled yet. Chrome is the environment: it answers, in any order, or never.
- `CommentSync`: a thread is its status; `Apply` is the three passes of `applyBrowserCommentSyncState` over one thread,
  `Export` what VS Code answers, `page` the page stores of Chrome. `writes` is the chain of promises of `_persist` with, for
  each, who awaits it. A write takes its `file` when it begins (`Take`), in the microtask after the change or after the write
  before it: the tombstones and the list of threads are copies, the threads are the objects of the store. Until
  `WriteEncodes`, which is `JSON.stringify` after the directory has been made, a later change of status is therefore in the
  file and what is added or deleted is not (`Share`). The rename at the end is one step, so `disk` is never half a file.
  `reading`, `asked` and `merging` are the three stages of `handleRequestCommentStateSync` between its awaits. `want` and `byUser` are history: what was last done to a thread, and whether in Chrome. Chrome's read-modify-write
  of a page store is one step.

An operator whose comment says "Mutant of" is a plausible bug in the definition it names, kept so that each property can be
shown to fail for it.

## 3. Runs

`tlc -config X.cfg M` for each; all bounds are constants of the modules.

| Run | Shows | Bounds, and why they are enough |
|---|---|---|
| `BridgeDispatch_safety` | counters agree with tables, limits hold, no idle slot while somebody waits, each waiting caller is held by one table, a cancel follows its invoke, one settlement; refinement of `InvocationService` | 4 calls, 1 slot, queue of 2, no state request (the live run has them): one running, two waiting whose order counts, one refused. Calls are symmetric (no liveness here). The proofs cover every number of slots |
| `BridgeDispatch_live` | every caller and every state request is settled | 2 calls (one queued), 2 state requests that overwrite each other's slot, grace window 0 |
| `CommandRouter_safety` | each call answered once, none leaves the Map silently, each is answered in the end | 2 calls, one guarded, one whose data cannot be encoded: each race is between the events of one call, the second shows that calls do not disturb each other |
| `InvocationPath_safety` | a success is true, a tool that is not idempotent runs once | 2 requests, one retried and one guarded, through one slot: a late first answer meets a retry and a queued call |
| `InvocationPath_live` | every request is answered, with a result lost to the rate limit | 1 request with 2 attempts, 1 discarded frame |
| `StateSync` | client and Hub agree where they should, no value goes back, the cache converges | 2 changes and the initial state, 2 extensions (one patch replaces the other's modality), 2 lost sockets, 1 discarded frame, 1 getState, 1 reload |
| `ToolCatalog` | no name outlives its batch and none is lost but through a second dispose, the Hub's catalog is the registry when nothing is due, agents are told, and catch up | 3 batches that share a name, one with a second name; 1 second dispose, which is enough for a batch to lose its name, a third to take it and lose it again; 1 lost socket, 1 lost stream, 1 reload. The proofs cover every number |
| `HubLifecycle` | secrets agree, the client's secret is fresh, one Hub without reloads, no Hub left behind, the link comes back | 3 faults of one of five scenarios, 2 restart commands, 4 ports (as many as Hubs can overlap) |
| `SharedRelay` | promises and queue of the lease match, no timer runs but the holder's, one Hub mutates at a time where that can hold, every request is where its answer will find it, Hubs know whether Chrome is there; the line is served, requests are answered; refinement of `FifoLease` | 3 Hubs, 4 mutations (two of one Hub), a queue of 2, at most 2 faults of one of five scenarios: a holder, two in line whose order counts, a refusal, and a fault that meets each. Every request is a mutation, and the Hub that is refused stands in line already: requests that need no lease and a Hub that finds the queue full are left to the proofs, which cover every number |
| `SharedRelay_LeaseEnds` | *violated*: a Hub that goes clears the timer of the one that holds the lease | 1 fault |
| `CommentSync` | the file is current when the queue is empty, whatever was changed while a write ran; the replicas agree in the end, nothing deleted comes back, nothing is lost, a user's status stays | 1 thread, 4 changes one after the other, or 2 on top of one another, or 3 with 1 fault. Both merges treat each thread by itself, so that a second thread only adds changes. Overlapping exchanges are not bounded: each change wakes two or three |
| `CommentSync_AgentStatusKept` | *violated*: the exchange that an agent's resolve starts takes it back | 3 changes, no fault |

Deadlock checking is off everywhere because each of these systems may stop: when all calls are done, the window is closed
or the bounds are spent, nothing remains to happen.

**Scenarios of `HubLifecycle`.** A fault is an event of the environment, named in `FaultKinds`. Which invariants can hold
depends on which faults come together, so the constant `Scenarios` lists sets of faults and each behaviour draws its faults
from one of them; the properties name the combinations they except:

- one window: crashes at any moment, also during a restart (`crashBusy`) or while activation polls (`early`), lost answers
  to a reauthentication, Hubs that start too slowly;
- reloads with crashes of adopted Hubs, late disconnect requests, an exit timer that beats the adoption, Hubs that exit
  because the host that spawned them is gone;
- three small ones, for liveness and for lost answers after a reload.

`OneHub` excepts reloads (the old Hub may still be in its grace period); `SecretsAgree` (for the Hub's own secret) and `NoOrphan`
except a reload together with a fault of `Overlapping`, which can leave a Hub that starts while the next window spawns another;
`LinkComesBack` everything but the two harmless sets; each single exception has a counterexample when it is removed. No
scenario has a reload in the middle of a restart (`reloadBusy`): section 6 says what happens then.

**Scenarios of `SharedRelay`** are made in the same way: the socket of a Hub that holds the lease or of another one
(`hubCloses`, `otherCloses`), a Hub that registers again before its old socket has closed (`overlap`), Chrome that goes, is
replaced or is silent, and a Hub that sends a mutation before its last one is answered (`impatient`). A property names the
kinds it excepts; each exception has a counterexample when it is removed.

**Scenarios of `CommentSync`**: changes while nothing is on its way, changes at any time (`busy`), a lost connection, a Chrome
that answers late, a window that is reloaded, a write that fails. Here too each exception was seen to be needed.

## 4. Fairness

Weak fairness only, and only of what the code schedules itself: armed timers fire (the event loop of a live process),
continuations of settled promises run, the Hub reads what is on an open socket, a client keeps reconnecting.

- `BridgeDispatch`, `CommandRouter`: timers alone. No caller, Bridge, user or handler is assumed to act.
- `InvocationPath`: timers and the executor's continuations. The rest is left to the fault model.
- `StateSync`, `ToolCatalog`: timers, reads, and that a Hub which is there accepts a connection; lost sockets are bounded by
  `MaxDrops`, without which a socket that is always lost again would refute any convergence. Editor events need no fairness.
- `SharedRelay`: continuations run, armed timers fire, and Chrome answers what it was asked while it is there, unless the
  scenario has it silent. No Hub is assumed to connect, send or go.
- `CommentSync`: handlers read what is on an open connection, their continuations run, writes end (well or not), the
  connection comes back and the scheduler, an interval timer, starts the next cycle. No change and no fault is fair.
- `HubLifecycle`: every await answers, a spawned Hub comes up unless it crashes, a client retries. Exits are faults and
  never fair.

## 5. What is proved

`BridgeDispatch_proofs` proves, for every set of calls and state requests and every value of the limits, from
`LimitsAssumption` and `IdsAssumption` alone:

| Theorem | Statement |
|---|---|
| `TypeCorrect`, `SlotAccountingHolds`, `NoIdleSlotHolds`, `TimersOwnSlotsHolds`, `CallerAccountedHolds`, `NothingHeldWhileDownHolds` | `Spec => []` of the invariant of that name |
| `SettleOnceHolds` | `Spec => SettleOnce` |
| `Implementation` | `Spec => ImplementsService`: the dispatcher refines the bounded FIFO service |
| `CancelFollowsInvokeHolds` | `Spec => []CancelFollowsInvoke`: a cancel is behind its invocation, on the same socket |
| `FifoStartHolds` | `Spec => FifoStart`: nobody leaves the queue out of turn, except with everybody else and an error |

None of these invariants is inductive alone. A slot is freed by a handler that has found its invocation in the Map, clears
the timer, decrements the counter and calls the dequeue: that the counter does not go below zero needs the counter to equal
the size of the Map; that the next caller's promise is not in two tables needs the queue to have no duplicates and to be
disjoint from the Map; that a timer which fires finds its invocation needs timers and Map to be equal. So the invariant is

    IInv == Shape (types) /\ the pending set is finite /\ SlotAccounting /\ NoIdleSlot /\ TimersOwnSlots
            /\ CallerAccounted /\ NothingHeldWhileDown

First `Shape` is shown inductive by itself (`ShapeHolds`), then `Invariance` has one step per action. The helpers of the
code have lemmas of their own (`FreeSlotInv`, `RejectInv`, `DequeueType`, `InvokeInv`), cited by every handler that calls
them, and the sequence facts (`TailElements`, `AppendElements`, `QueueElements`) are stated once. The refinement maps each
handler to `Start`, `Queue`, `Refuse`, `Finish` or `Abort`, or to a stutter, with `IInv` before and after the step.

`CancelFollowsInvoke` needs an invariant of its own (`WireInv`): what is in the `Map` has been sent on the open socket, what
has been sent is neither waiting nor still to be made. From it follows that the invocation which a freed slot sends before
the trailing cancel is not one whose cancel is already on its way.

`CommandRouter_proofs` proves, for every set of calls, which of them are guarded and which return data that can be
encoded, from `CallsAssumption` alone:

| Theorem | Statement |
|---|---|
| `RouterTypes`, `AnswerOnceHolds`, `TrackedAreTimedHolds` | `Spec => []` of the invariant |
| `NoSilentDropHolds` | `Spec => NoSilentDrop` |

Here the type of `answers` (0 or 1) is itself the claim that nothing is answered twice, and it is not inductive: the step
that answers needs to know that the call it finds in the Map has no answer yet, which is the second part of `AnswerOnce`;
that the three events that can end a call stop its timer needs `TrackedAreTimed`. `IInv` is the conjunction of the three;
`StartInv` and `AnswerInv` treat the two things a handler can do to a call, tracking it and answering it.

`InvocationPath_proofs` proves of a call on its whole way, for every set of requests, guarded and idempotent tools, and
limits, from `RequestsAssumption` alone:

| Theorem | Statement |
|---|---|
| `HubEnd`, `BridgeEnd` | `Spec => H!Spec`, `Spec => B!Spec`: the path is a behaviour of `BridgeDispatch` and of `CommandRouter` |
| `PathServes` | `Spec => H!ImplementsService`: the path refines the bounded FIFO service |
| `SlotHasReasonHolds`, `SuccessIsTrueHolds`, `NoDuplicateEffectHolds` | `Spec => []` of the invariant |

`H` and `B` are instances of the two proof modules, so that their lemmas are at hand for the shared variables. Each module
leaves its other end free; here both are given, and every step of the path is a step of the dispatcher and of the router or
leaves them alone (`HubStep`, `BridgeStep`). For the router this is a claim of its own: it is never given a call twice, nor
a cancel that is not preceded by its call. The invariant is `JInv`, four parts that need each other:

- `Ends`: the invariants of the two ends, with `Linked`: a call that the Hub has sent is on the wire or known to the
  Bridge, what the Bridge knows was sent, a cancel is on the wire or seen only for a call the Hub has settled, and frames
  that answer are for calls the Bridge knows.
- `Reasoned`: while both ends agree on a socket, what the Hub's table holds is on the wire, under way, answered or dropped by
  the rate limit. That the slot which a timeout frees is given to a call whose frame goes out in the same step, is why
  the next call has a reason.
- `Attempts`: a request has a second attempt only if its tool is idempotent, and no call is made before its attempt.
- `Truth`: an answer of success, on the wire, at the Hub or with the agent, is for a call whose handler returned.

What a handler of the Hub does to the tables and the wire is summed up once (`Adds`: which calls it sends, which it
cancels), what one of the router does likewise (`About`: at most one call, at most one frame about it), so that `Linked` and
`Reasoned` are shown for these summaries and not for each handler. `NoDuplicateEffect` follows at the end: what began is known
to the Bridge, so it was sent, so it was made, and the only call of a request whose tool is not idempotent is the first.

`StateSync_proofs` proves, for all keys, extensions, changes and budgets of faults, that the caches agree
(`ReplayAccurateHolds`) and never go back (`NeverBackwardsHolds`). `ReplayAccurate` speaks of quiet states only; the invariant
has to follow the frames: `InOrder` says that the values of a key in the frames ascend, are at least what the Hub has and at
most what the publisher has, and `OnItsWay` that a value on which publisher and client agree is the last that the Hub will
have once it has read the socket (`Arrives`), or that a flush is due. That no frame is older than the cache is what keeps a
replay from undoing an update; while the handshake runs, what will be replayed must itself not be older than the cache.

`SharedRelay_proofs` proves of the write lease, for every set of Hubs, every depth of the queue and any sequence of calls, from
`LeaseAssumption` alone, that promises, queue and timers agree (`LeaseInvariant`) and that the lease refines `FifoLease`
(`LeaseImplementation`); and of the relay, for every set of requests and every scenario:

| Theorem | Statement |
|---|---|
| `RelayImplementsLease` | `Spec => LeaseSpec`: the relay calls the lease as its specification allows |
| `PromisesKept`, `TimersOwned`, `FirstComeFirstServed` | what is proved of the lease, carried over to the relay |
| `OnePatientMutator` | `Spec => []OneMutatorIfPatient` |
| `EveryReplyAccounted` | `Spec => []RepliesAccounted` |
| `StatusKnown` | `Spec => []StatusAccurate` |

`OneMutatorIfPatient` is not inductive: that the holder is the only Hub with a mutation in the browser needs each `due` or
`running` mutation to belong to the holder and each patient Hub to have at most one mutation under way (`MutatorInv`), which
in turn needs the promises to match the queue. `RepliesAccounted` needs the tables to contain no request that is not under
way and every one that is, until the loop that fails them has come to it (`ReplyInv`).

`CommentSync_proofs` proves `DiskIsCurrent` (`Spec => []DiskCurrent`) for every set of threads and scenario. A running write may
have little of what was changed since it began, so `DiskCurrent` needs `LastWrite`: the write that is alone in the queue has
what the store has. It had that when it began, and whatever changes the store also appends to the queue, so that it is then
alone no longer; when it is the last, nothing was changed. A failed write has no such successor, and no claim is made.

It also proves the safety half of what the exchange promises, `ReplicasAgreeAtRest` (`Spec => []QuietAgrees`): in scenarios
where changes follow one another and Chrome is at most slow, whenever nothing is on its way both replicas show the same
threads with the same status, what was deleted last is gone from both and nothing else is, and a user's status is the one
that is shown. That such a moment comes, and the faults that these properties admit besides, stay with TLC. Every thread is in
one of three stages, for all interleavings of cycles, wakeups, writes and late answers (`Staged`):

- it *follows*: every merged state on its way has of it what VS Code has, and every state that was read, and the page store, have
  that or what an applied state cannot put in its place (`Older`: no copy before a new thread, a live one before a
  tombstone); where the page store differs, a pull or an answer is on its way (`Awaited`);
- an agent's status is *overruled*: every state that was read has Chrome's, nothing merged is on its way and a pull is, so the next
  thing that happens to the thread is that VS Code takes Chrome's status. This is what `AgentStatusKept` runs into, and
  the reason why `QuietAgrees` says nothing of the status that an agent gave;
- a user's change is *forwarded*: the call is the next frame that VS Code reads, and its guard will let it through.

The states may overlap in any number, so the lemmas speak of sets of states on their way and not of cycles; `Background`
shows once that the nine steps which only move frames keep all three stages.

`ToolCatalog_proofs` proves, for all names, batches and bounds, that names are kept (`NamesAreKept`: whichever
batch loses a name early, another one with that name has been disposed of more than once), that the Hub's catalog is
the registry when nothing is due (`CatalogIsAccurate`) and that agents are told (`AgentIsTold`). The second needs to know that
the last frame on an open socket is the registry unless a send is due, which the frame sent on opening establishes (`Delivery`);
the third, that what was last announced is what the Hub has (`Announced`).

`HubLifecycle_proofs` proves, for all ports, bounds and scenarios:

| Theorem | Statement |
|---|---|
| `ClientIsFresh` | `Spec => []ClientSecretFresh`, under every combination of faults |
| `NeverTwoHubs` | `Spec => []OneHub` |
| `SecretsAgreeHolds` | `Spec => []SecretsAgree` |
| `NoOrphanHolds` | `Spec => []NoOrphan` |
| `WindowsInvariance` | `Spec => [](Clean => Windows)` |

The argument for one window is `OneWindow`: what is alive is the child; its secret is the manager's while no restart is in
progress, before the reauthentication and after the spawn, the one the restart drew once the Hub has accepted it, and unknown
only between a lost answer and the kill; after the kill there is no child. `ClientSecretFresh` rests on `LastFresh`: every way
a restart ends updates the last client, so it does not matter whether that client was created before or during the restart.

Across reloads, without the faults that `SecretsAgree` and `NoOrphan` except (`Clean`), the argument is `Windows`, one part per
stage of a window. While it serves, the registry, the health port and the child name one Hub, every other is leaving (its
exit timer runs, or the request that starts it is on its way with its secret), and a restart comes to the kill only when the
Hub is gone, so that the spawn takes its port. When the window closes, its Hub is leaving, unless a client has stopped
the timer, and then the registry names it and the stored secret is its own: it is the one the next window adopts. A client
never stops the timer of another Hub, because every port it was created for is dead, the child's or the health port
(`OwnClients`). While activation polls, a late request of the window before can still reach the child, when that has taken
the port and the secret of the Hub it was for; then no second one is on its way, and the restart that follows finds no
other Hub in the registry.

`TypeCorrect`, `TimersOwnSlotsHolds`, `NothingHeldWhileDownHolds`, `FifoStartHolds`, `RouterTypes`, `TrackedAreTimedHolds`
and `ReplicasAgreeAtRest` are in no run: the proof says more than a run of them would.

With these, every invariant, action property and refinement that a passing run checks is a theorem. Only model-checked is
liveness, which is beyond the prover as far as it rests on fairness and ENABLED: `EveryCallSettles`,
`EveryStateRequestSettles`, `TrackedIsAnswered`, `RequestAnswered`, `EventuallyAccurate`, `AgentCatchesUp`, `LinkComesBack`,
`WaiterServed`, `RequestReplied`, and that the replicas of `CommentSync` come to agree (`Converges`, `DeletedStaysDeleted`,
`NothingLost`, `UserStatusKept`; that they agree at rest is proved). No module uses a RECURSIVE operator, and no proof an induction over data.

## 6. Departures from the documents

Two are kept as runs (section 3): the lease whose timer another Hub's departure clears, and the status that an agent gives a
browser comment. Others that were met while modelling are part of the models, which do what the code does, and show in the
exceptions of the properties:

- A cancel that arrives while the confirmation dialog is open does not stop the tool: the call enters the Map only after the
  dialog (`command-router.ts:151`), where the comment (line 75) has the cancel dismiss it.
- A Hub that exits while a restart is under way is not started again and no error is shown (`hub-manager.ts:100`; LCM-10,
  `requirements-bridge.md:234`, wants one more attempt).
- The snapshot of a reconnect may be older than the publisher's state: an update that is published during the handshake is
  dropped and the open handler sends what was given to `connect` (`ws-client.ts:144`, against WS-07); a keyframe repairs it.
- A tool called by its old name (an alias) is not found by the executor (`mcp-call-executor.ts:123`), although the registry
  resolves aliases (`tool-registry.ts:117`).
- The first answer of a Hub with two mutations releases its lease while the second runs (`shared-relay-server-hub.ts:84`), so
  two Hubs mutate at once, where `write-lease.ts:4` promises one.
- Browser comments. When changes overlap exchanges, a deleted thread can come back for good: a state that Chrome read before it
  had the thread clears the tombstone (`comment-store-browser-sync.ts:162`), a later one still has the thread. A change that
  Chrome makes while the connection is down, or just before, can be lost: it is forwarded once (`sw-lifecycle.ts:26`), and a
  merged state that answers an older read replaces it. After one failed write no later one is tried before a reload
  (`comment-store.ts:191`), and every call throws after it has changed the store. At activation all threads on pages are
  pruned, for `stat` rejects their URIs (`comments-bootstrap.ts:127`); only Chrome's next state brings them back, as volatile.

- The Hub's limit does not bound what runs on the Bridge: a timeout forwards the next invocation before the cancel of the
  one it replaces (`bridge-dispatch.ts:397`), and a disconnect resets the counter while the Bridge goes on, although the
  Bridge relies on the Hub's limit (`requirements-bridge.md:310`).
- A handler that throws synchronously is reported only by the timeout (`command-router.ts:172`); one whose data cannot be
  encoded is never reported by the Bridge (`command-router.ts:181`).
- A patch of one extension's modality replaces all the others in the replay cache (`ws-client.ts:298`), so the snapshot of
  a reconnect may lack them; snapshots are merged and not replaced (`server.ts:164`; `setSnapshot` has no caller).
- The disposable of `registerTools` can be called again, and then removes the names of a later batch (`extension-registry.ts:121`;
  REG-05, `requirements-bridge.md:446`, has it "remove that extension's tools").
- A hard restart of an adopted Hub kills nothing, for there is no child (`hub-process.ts:226`): a second Hub is spawned.
- `onHubReady` replaces the client without disconnecting it (`extension-composition.ts:147`): after a hard restart the two
  clients of one Bridge evict each other.
- A disconnect request that is handled late ends a Hub that has a Bridge again (`server.ts:217`); a Hub whose first host is
  gone exits although a reloaded window has adopted it, where orphans become children of init (`hub/src/index.ts:268`).
- A reload between the Hub's rotation of the secret and its persistence (`hub-manager-lifecycle.ts:63`) leaves a Bridge
  that retries with the old secret for ever.
- A toolRegistry frame that the rate limit discards is not repeated before the next registration or reconnect
  (`bridge-connection.ts:264`); `ToolCatalog` leaves the rate limit out.

## 7. What is not modelled

Formatting and parsing (MCP, stdio, prompts, configuration files), logs, rendering, DOM work and audio: conversion of data
without a protocol. Backoff delays and rate counters: a delay is any time, the rate limit a bounded number of losses. The
per-message size limit. `setSnapshot`, `removeModalityState` and `registerHubTool`, which have no caller.

- Shared relay: events that Chrome originates, pairing and authorisation (stateless checks of a token), stop, and the relay of
  a single window, which has one Hub and no lease.
- Browser comments: replies and single comments (added by id like threads, with tombstones of the same kind), several pages,
  the sync that Chrome starts when it connects (a further source of the same exchange), the caps, threads on files.
- Relay ownership (`relay-discovery.ts`): two windows that find the same dead holder of the lock can both take it (line 145),
  and releasing removes the file whoever owns it (line 168). In the end the port decides: the loser cannot listen and runs a
  relay of its own window. Nothing more is promised, so there is no property that would hold.
- The registry file (`hub-registry.ts:80`): read, changed and replaced without a lock; of two Hubs of different projects that
  start together one may lose its entry. `HubLifecycle` has one project and one window.
- Terminal runs, voice, retention buffers: one process each that waits for one thing.

## 8. Plan

Done, in order of importance: `BridgeDispatch` with `InvocationService`; `CommandRouter`; `InvocationPath`; `HubLifecycle`;
`StateSync`; `ToolCatalog`; `WriteLease` with `FifoLease`; `SharedRelay`; `CommentSync`. Proved: all safety that the passing runs
check.

What would come next: the safety half of the other liveness properties, that is, for each the invariant that names what is enabled
as long as the goal is not reached (as `SlotHasReason` does for a call, `RepliesAccounted` for a request of the relay, `Staged` for the replicas); and, if
the code changes there, `RelayOwnership`, as soon as a window that loses its owner tries to become one.
