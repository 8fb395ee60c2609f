---------------------------- MODULE CommentSync ----------------------------
(***************************************************************************)
(* Browser comments in two replicas.  The CommentStore of VS Code           *)
(* (packages/comments/src/comment-store*.ts) and the page stores of the      *)
(* Chrome extension (packages/browser-extension/src/relay-sync-handlers.ts)  *)
(* exchange their full state: Chrome sends what it has, VS Code applies it    *)
(* and answers with the merged state, Chrome replaces its stores by that.     *)
(*                                                                         *)
(* A cycle is started by a wakeup, which VS Code pushes after each change of  *)
(* its own, or by the scheduler, which also applies the merged state a second *)
(* time when Chrome returns it.  Nothing keeps cycles apart.  A thread is its *)
(* status; replies and pages are left out.  The deleted ids of the repository *)
(* and the tombstones change together and are one variable.                   *)
(***************************************************************************)
EXTENDS Integers, Sequences

CONSTANTS
  Threads,   \* thread ids, each created at most once
  Scenarios  \* kinds of faults that occur together, with bounds on them and on changes

FaultKinds ==
  {"busy",       \* a change is made while a cycle is under way
   "linkLost",   \* the connection goes, with everything on its way
   "slow",       \* Chrome's answer comes after the scheduler has given up
   "writeFails", \* the file cannot be written
   "reload"}     \* the window is reloaded

ASSUME CommentSyncAssumption ==
  Scenarios \subseteq [kinds : SUBSET FaultKinds, faults : Nat, changes : Nat]

VARIABLES
  repo,      \* VS Code, _threads: the status of each, or "none"
  volatile,  \* those with retention volatile-browser
  tombs,     \* deleted ids and their tombstones
  disk,      \* what comments.json has of the three
  writes,    \* the write queue: for whom each write is; the first one is running
  file,      \* what the running write puts on disk, and what is there if none runs
  shared,    \* threads of file that are still the objects of the store
  poisoned,  \* the write queue is a rejected promise
  cycle,     \* of the scheduler: "idle", "asked" or "applying"
  page,      \* Chrome: its copy of each thread, "deleted" with a deletedAt
  reading,   \* handlers of wakeups and requests that read the stores
  asked,     \* those that wait for the merged state
  merging,   \* those that have it and write it into the stores
  linked,    \* VS Code and Chrome are connected
  toChrome,  \* frames to Chrome
  toCode,    \* frames to VS Code
  born,      \* threads that were created
  want,      \* the last status somebody gave a thread, "none" if deleted
  byUser,    \* threads whose last status was given in Chrome
  used       \* the scenario, with the faults and changes still to come

code   == <<repo, volatile, tombs>>
store  == <<disk, writes, file, shared, poisoned>>
chrome == <<page, reading, asked, merging>>
net    == <<linked, toChrome, toCode>>
ghosts == <<born, want, byUser>>
vars   == <<code, store, cycle, chrome, net, ghosts, used>>

Statuses == {"open", "resolved"}
Copies   == Statuses \cup {"none", "deleted"}
Memory   == [repo |-> repo, volatile |-> volatile, tombs |-> tombs]

Init ==
  /\ repo = [t \in Threads |-> "none"] /\ volatile = {} /\ tombs = {}
  /\ disk = Memory /\ file = Memory /\ shared = {}
  /\ writes = <<>> /\ poisoned = FALSE
  /\ cycle = "idle"
  /\ page = [t \in Threads |-> "none"]
  /\ reading = <<>> /\ asked = <<>> /\ merging = <<>>
  /\ linked = TRUE /\ toChrome = <<>> /\ toCode = <<>>
  /\ born = {} /\ want = [t \in Threads |-> "none"]
  /\ byUser = {} /\ used \in Scenarios

Faults == used.kinds
Fault(kind) ==
  /\ kind \in Faults /\ used.faults > 0
  /\ used' = [used EXCEPT !.faults = @ - 1]

Quiet ==
  /\ cycle = "idle"
  /\ writes = <<>> /\ reading = <<>> /\ asked = <<>> /\ merging = <<>>
  /\ toChrome = <<>> /\ toCode = <<>>

-----------------------------------------------------------------------------
(* Helpers.                                                                *)

Push(frames) == toChrome' = IF linked THEN toChrome \o frames ELSE toChrome
Send(frames) == toCode' = IF linked THEN toCode \o frames ELSE toCode
Wakeups(n)   == [i \in 1 .. n |-> [kind |-> "wakeup"]]

\* A write begins: the threads and tombstones of now are taken, the threads by
\* reference (toStoreFile).
Take(memory) ==
  file' = memory /\ shared' = {t \in Threads : memory.repo[t] # "none"}

\* A running write, until it encodes them, has the later statuses of the threads it
\* took, and none of what is added, deleted or forgotten.
Share ==
  /\ shared' = {t \in shared : repo'[t] # "none"}
  /\ file' = [file EXCEPT !.repo = [t \in Threads |-> IF t \in shared' THEN repo'[t] ELSE @[t]]]

\* Mutant of Persist: a change is left to the write that is running.
PersistOnce(who) ==
  /\ writes' = IF writes = <<>> THEN <<who>> ELSE writes
  /\ IF writes = <<>> /\ ~poisoned THEN Take(Memory') ELSE Share

\* Each change of the store queues a write, which begins at once if none is running.
Persist(who) ==
  /\ writes' = Append(writes, who)
  /\ IF writes = <<>> /\ ~poisoned THEN Take(Memory') ELSE Share

\* What readers of the store see: getAllThreads leaves deleted ids out.
Shown(t) == IF t \in tombs THEN "none" ELSE repo[t]

\* Mutant of Export: a thread is exported with the status of a new one.
ExportAsNew ==
  [t \in Threads |-> IF Shown(t) # "none" THEN "open"
                     ELSE IF t \in tombs THEN "deleted" ELSE "none"]

\* exportBrowserCommentSyncState: the threads and, where none is, the tombstone.
Export ==
  [t \in Threads |-> IF Shown(t) # "none" THEN Shown(t)
                     ELSE IF t \in tombs THEN "deleted" ELSE "none"]

\* Mutant of Apply: every thread that the state lacks is pruned.
ApplyPrunesAll(state) ==
  LET has  == {t \in Threads : state[t] # "none"}
      kept == (tombs \cap has) \cup {t \in has : state[t] = "deleted"}
      live == has \ kept
  IN /\ repo' = [t \in Threads |-> IF t \in live THEN state[t]
                                   ELSE IF t \in has THEN repo[t] ELSE "none"]
     /\ volatile' = (volatile \cap has) \cup {t \in live : repo[t] = "none"}
     /\ tombs' = kept

\* applyBrowserCommentSyncState, up to its write.  Volatile threads that the state
\* lacks are pruned and tombstones that it lacks are forgotten; of the others a
\* deleted one leaves a tombstone, a new one is added as volatile and one that is
\* there takes the status of the state.
Apply(state) ==
  LET has  == {t \in Threads : state[t] # "none"}
      dead == {t \in has : state[t] = "deleted"}
      kept == (tombs \cap has) \cup dead
      live == has \ kept
  IN /\ repo' = [t \in Threads |->
                   IF t \in live THEN state[t]
                   ELSE IF t \in has THEN repo[t]
                   ELSE IF t \in volatile \cup tombs THEN "none" ELSE repo[t]]
     /\ volatile' = (volatile \cap has) \cup {t \in live : repo[t] = "none"}
     /\ tombs' = kept

-----------------------------------------------------------------------------
(* Changes that VS Code makes, for an agent or for a request of Chrome.     *)

CanCreate(t)  == repo[t] = "none"
CanResolve(t) == repo[t] = "open"
CanReopen(t)  == repo[t] = "resolved"
CanDelete(t)  == repo[t] # "none"

Create(t) ==
  /\ repo' = [repo EXCEPT ![t] = "open"] /\ volatile' = volatile \ {t}
  /\ UNCHANGED tombs
SetStatus(t, status) ==
  repo' = [repo EXCEPT ![t] = status] /\ UNCHANGED <<volatile, tombs>>

\* Mutant of Delete: no tombstone is left.
DeleteUnmarked(t) ==
  repo' = [repo EXCEPT ![t] = "none"] /\ volatile' = volatile \ {t} /\ UNCHANGED tombs

Delete(t) ==
  /\ tombs' = tombs \cup {t} /\ repo' = [repo EXCEPT ![t] = "none"]
  /\ volatile' = volatile \ {t}

Change ==
  /\ "busy" \in Faults \/ Quiet
  /\ used.changes > 0 /\ used' = [used EXCEPT !.changes = @ - 1]

\* A tool call of an agent; its answer and its wakeups follow the write.
AgentCreates(t) ==
  /\ Change /\ t \notin born /\ Create(t)
  /\ Persist("agent")
  /\ born' = born \cup {t} /\ want' = [want EXCEPT ![t] = "open"] /\ byUser' = byUser \ {t}
  /\ UNCHANGED <<disk, poisoned, cycle, chrome, net>>

AgentSets(t, status) ==
  /\ Change /\ Shown(t) \in Statuses \ {status} /\ SetStatus(t, status)
  /\ Persist("agent")
  /\ want' = [want EXCEPT ![t] = status] /\ byUser' = byUser \ {t}
  /\ UNCHANGED <<disk, poisoned, cycle, chrome, net, born>>

AgentDeletes(t) ==
  /\ Change /\ Shown(t) # "none" /\ Delete(t)
  /\ Persist("agent")
  /\ want' = [want EXCEPT ![t] = "none"] /\ byUser' = byUser \ {t}
  /\ UNCHANGED <<disk, poisoned, cycle, chrome, net, born>>

-----------------------------------------------------------------------------
(* The write queue.                                                        *)

\* What follows a write, by whom it is for.  The central hook pushes no wakeup
\* while a state is being applied; the handler of an agent's tool pushes one of
\* its own, and so does the relay after a request of Chrome.
Applying(queue) == \E i \in DOMAIN queue : queue[i] \in {"sync", "lateSync", "merged"}
Hook(queue)     == IF Applying(queue) THEN 0 ELSE 1

AfterWrite(who, ok, rest) ==
  /\ CASE who = "agent"  /\ ok -> Push(Wakeups(1 + Hook(rest)))
       [] who = "chrome" /\ ok -> Push(Wakeups(2 + Hook(rest)))
       [] who = "sync" -> Push(<<[kind |-> IF ok THEN "merged" ELSE "failed", state |-> Export]>>)
       [] OTHER -> UNCHANGED toChrome
  /\ cycle' = IF who = "merged" THEN "idle" ELSE cycle

\* The directory is there, and the threads are encoded as they are now.
WriteEncodes ==
  /\ shared # {} /\ shared' = {}
  /\ UNCHANGED <<code, disk, writes, file, poisoned, cycle, chrome, net, ghosts, used>>

\* The file is written and renamed, what waits for it goes on and the next write begins.
WriteDone ==
  /\ writes # <<>> /\ ~poisoned /\ shared = {}
  /\ disk' = file
  /\ AfterWrite(Head(writes), TRUE, Tail(writes)) /\ writes' = Tail(writes)
  /\ IF Tail(writes) = <<>> THEN UNCHANGED <<file, shared>> ELSE Take(Memory)
  /\ UNCHANGED <<code, poisoned, chrome, linked, toCode, ghosts, used>>

\* A write is rejected, and then every later one; the old file stays.
WriteFails ==
  /\ writes # <<>>
  /\ \/ poisoned /\ UNCHANGED used
     \/ ~poisoned /\ Fault("writeFails")
  /\ poisoned' = TRUE /\ file' = disk /\ shared' = {}
  /\ AfterWrite(Head(writes), FALSE, Tail(writes)) /\ writes' = Tail(writes)
  /\ UNCHANGED <<code, disk, chrome, linked, toCode, ghosts>>

-----------------------------------------------------------------------------
(* VS Code and the link.                                                   *)

Asks(kind) == toCode # <<>> /\ Head(toCode).kind = kind /\ toCode' = Tail(toCode)

\* sync_comment_state: Chrome's state is applied; the answer follows the write.
OnSync ==
  /\ Asks("sync") /\ Apply(Head(toCode).state)
  /\ Persist("sync")
  /\ UNCHANGED <<disk, poisoned, cycle, chrome, linked, toChrome, ghosts, used>>

\* The merged state that the scheduler's request brings back is applied as well.
OnReturned ==
  /\ Asks("returned")
  /\ \/ /\ cycle = "asked" /\ cycle' = "applying"
        /\ Apply(Head(toCode).state) /\ Persist("merged")
     \/ /\ cycle # "asked" /\ UNCHANGED <<code, writes, file, shared, cycle>>
  /\ UNCHANGED <<disk, poisoned, chrome, linked, toChrome, ghosts, used>>

OnNotReturned ==
  /\ Asks("notReturned")
  /\ cycle' = IF cycle = "asked" THEN "idle" ELSE cycle
  /\ UNCHANGED <<code, store, chrome, linked, toChrome, ghosts, used>>

\* A change made in Chrome comes as a call of the comment tools.
OnAction ==
  /\ Asks("action")
  /\ LET t == Head(toCode).thread
         op == Head(toCode).op
     IN \/ op = "create"   /\ CanCreate(t)  /\ Create(t) /\ Persist("chrome")
        \/ op = "resolved" /\ CanResolve(t) /\ SetStatus(t, "resolved") /\ Persist("chrome")
        \/ op = "open"     /\ CanReopen(t)  /\ SetStatus(t, "open") /\ Persist("chrome")
        \/ op = "delete"   /\ CanDelete(t)  /\ Delete(t) /\ Persist("chrome")
        \/ /\ ~ \/ op = "create"   /\ CanCreate(t)
                \/ op = "resolved" /\ CanResolve(t)
                \/ op = "open"     /\ CanReopen(t)
                \/ op = "delete"   /\ CanDelete(t)
           /\ UNCHANGED <<code, writes, file, shared>>
  /\ UNCHANGED <<disk, poisoned, cycle, chrome, linked, toChrome, ghosts, used>>

\* syncBrowserComments, every 30 seconds and after a connection.
StartCycle ==
  /\ linked /\ cycle = "idle" /\ cycle' = "asked"
  /\ Push(<<[kind |-> "request"]>>)
  /\ UNCHANGED <<code, store, chrome, linked, toCode, ghosts, used>>

CycleTimesOut ==
  /\ cycle = "asked" /\ Fault("slow") /\ cycle' = "idle"
  /\ UNCHANGED <<code, store, chrome, net, ghosts>>

\* What waits for an answer fails; what is being written goes on.
Cut ==
  /\ linked' = FALSE /\ toChrome' = <<>> /\ toCode' = <<>>
  /\ reading' = <<>> /\ asked' = <<>>

LinkLost ==
  /\ linked /\ Fault("linkLost") /\ Cut
  /\ cycle' = IF cycle = "asked" THEN "idle" ELSE cycle
  /\ writes' = [i \in DOMAIN writes |-> IF writes[i] = "sync" THEN "lateSync" ELSE writes[i]]
  /\ merging' = [i \in DOMAIN merging |-> [merging[i] EXCEPT !.job = "wakeup"]]
  /\ UNCHANGED <<code, disk, file, shared, poisoned, page, ghosts>>

LinkBack ==
  /\ ~linked /\ linked' = TRUE
  /\ UNCHANGED <<code, store, cycle, chrome, toChrome, toCode, ghosts, used>>

\* The window is reloaded: the file is loaded, and if it has a thread that is not
\* deleted, all threads on pages are pruned, for stat() rejects an http URI.
Reload ==
  /\ Fault("reload") /\ Cut
  /\ LET live == {t \in Threads \ disk.tombs : disk.repo[t] # "none"} IN
       disk' = IF live = {} THEN disk
               ELSE [disk EXCEPT !.repo = [t \in Threads |-> "none"], !.volatile = {}]
  /\ repo' = disk'.repo /\ volatile' = disk'.volatile /\ tombs' = disk'.tombs
  /\ writes' = <<>> /\ file' = disk' /\ shared' = {} /\ poisoned' = FALSE /\ cycle' = "idle"
  /\ merging' = [i \in DOMAIN merging |-> [merging[i] EXCEPT !.job = "wakeup"]]
  /\ UNCHANGED <<page, ghosts>>

-----------------------------------------------------------------------------
(* Chrome.                                                                 *)

\* A user's change is written into the page store and then forwarded.
ForwardChange(t, op, copy) ==
  /\ Change /\ page' = [page EXCEPT ![t] = copy]
  /\ Send(<<[kind |-> "action", op |-> op, thread |-> t]>>)
  /\ want' = [want EXCEPT ![t] = IF copy = "deleted" THEN "none" ELSE copy]
  /\ byUser' = byUser \cup {t}
  /\ UNCHANGED <<code, store, cycle, reading, asked, merging, linked, toChrome>>

UserCreates(t) ==
  t \notin born /\ born' = born \cup {t} /\ ForwardChange(t, "create", "open")
UserSets(t, status) ==
  page[t] \in Statuses \ {status} /\ UNCHANGED born /\ ForwardChange(t, status, status)
UserDeletes(t) ==
  page[t] \in Statuses /\ UNCHANGED born /\ ForwardChange(t, "delete", "deleted")

Gets(kind) == toChrome # <<>> /\ Head(toChrome).kind = kind /\ toChrome' = Tail(toChrome)

\* request_comment_state_sync: the handler begins to read the stores.
OnRequest ==
  /\ \E kind \in {"wakeup", "request"} : Gets(kind) /\ reading' = Append(reading, kind)
  /\ UNCHANGED <<code, store, cycle, page, asked, merging, linked, toCode, ghosts, used>>

\* It has read them and sends what it has read.
SendState ==
  /\ reading # <<>> /\ reading' = Tail(reading)
  /\ Send(<<[kind |-> "sync", state |-> page]>>)
  /\ asked' = Append(asked, Head(reading))
  /\ UNCHANGED <<code, store, cycle, page, merging, linked, toChrome, ghosts, used>>

OnMerged ==
  /\ Gets("merged") /\ asked' = Tail(asked)
  /\ merging' = Append(merging, [job |-> Head(asked), state |-> Head(toChrome).state])
  /\ UNCHANGED <<code, store, cycle, page, reading, linked, toCode, ghosts, used>>

OnFailed ==
  /\ Gets("failed") /\ asked' = Tail(asked)
  /\ Send(IF Head(asked) = "request" THEN <<[kind |-> "notReturned"]>> ELSE <<>>)
  /\ UNCHANGED <<code, store, cycle, page, reading, merging, linked, ghosts, used>>

\* Mutant of ReplaceStores: the threads that are there stay as they are.
AddToStores ==
  /\ merging # <<>> /\ merging' = Tail(merging)
  /\ LET m == Head(merging) IN
       /\ page' = [t \in Threads |-> IF page[t] # "none" THEN page[t] ELSE m.state[t]]
       /\ Send(IF m.job = "request" THEN <<[kind |-> "returned", state |-> m.state]>> ELSE <<>>)
  /\ UNCHANGED <<code, store, cycle, reading, asked, linked, toChrome, ghosts, used>>

\* The page stores become the merged state, whatever was written since.
ReplaceStores ==
  /\ merging # <<>> /\ merging' = Tail(merging)
  /\ page' = Head(merging).state
  /\ Send(IF Head(merging).job = "request"
            THEN <<[kind |-> "returned", state |-> Head(merging).state]>> ELSE <<>>)
  /\ UNCHANGED <<code, store, cycle, reading, asked, linked, toChrome, ghosts, used>>

Next ==
  \/ \E t \in Threads :
       \/ AgentCreates(t) \/ AgentDeletes(t) \/ UserCreates(t) \/ UserDeletes(t)
       \/ \E status \in Statuses : AgentSets(t, status) \/ UserSets(t, status)
  \/ WriteEncodes \/ WriteDone \/ WriteFails \/ OnSync \/ OnReturned \/ OnNotReturned \/ OnAction
  \/ StartCycle \/ CycleTimesOut \/ LinkLost \/ LinkBack \/ Reload
  \/ OnRequest \/ SendState \/ OnMerged \/ OnFailed \/ ReplaceStores

Spec == Init /\ [][Next]_vars

\* Handlers run, writes end, the link comes back and the scheduler keeps going.
FairSpec ==
  /\ Spec
  /\ WF_vars(OnSync \/ OnReturned \/ OnNotReturned \/ OnAction)
  /\ WF_vars(OnRequest \/ OnMerged \/ OnFailed)
  /\ WF_vars(WriteEncodes) /\ WF_vars(WriteDone \/ (poisoned /\ WriteFails)) /\ WF_vars(SendState) /\ WF_vars(ReplaceStores)
  /\ WF_vars(StartCycle) /\ WF_vars(LinkBack)

-----------------------------------------------------------------------------
(* Properties.  Each excepts the kinds of faults under which the code does not  *)
(* keep it; what happens then is in the README.                                *)

NoneOf(kinds) == Faults \cap kinds = {}

InChrome(t) == IF page[t] = "deleted" THEN "none" ELSE page[t]

\* What was changed in VS Code is on disk once the write queue is empty.  A running
\* write has what was there when it began and of later changes a part at most; what
\* is changed meanwhile, by an agent, by Chrome or by a state that is applied, gets to
\* the disk with the writes that are queued behind it (_persist).
DiskCurrent == writes = <<>> /\ ~poisoned => disk = Memory

\* When changes have come to an end, readers of the comment tools and the user of
\* Chrome see the same threads with the same status, and go on to see them: the
\* full-state exchange (syncBrowserComments, handleRequestCommentStateSync) makes the
\* replicas agree, whatever overlaps, is lost or is loaded again.
Converges ==
  <>[](NoneOf({"writeFails"}) => \A t \in Threads : Shown(t) = InChrome(t))

\* What was deleted last, by an agent or in Chrome, is in the end deleted in both
\* and does not come back from an older copy (resetStaleTombstones and the
\* deletedAt of the two stores).
DeletedStaysDeleted ==
  <>[](NoneOf({"busy", "reload", "writeFails"}) =>
         \A t \in born : want[t] = "none" => Shown(t) = "none" /\ InChrome(t) = "none")

\* A thread that nobody has deleted is in the end there in both: a state that lacks it,
\* read before it came, takes it from neither for good (pruneVolatileBrowserThreads,
\* replaceLegacyPageStoresFromSyncPages).
NothingLost ==
  <>[](NoneOf({"linkLost", "reload", "writeFails"}) =>
         \A t \in born : want[t] # "none" => Shown(t) # "none" /\ InChrome(t) # "none")

\* The status that a user has given a thread in Chrome is in the end the one that
\* agents read, as long as nobody has changed it since (syncExistingBrowserThread).
UserStatusKept ==
  <>[](NoneOf({"busy", "linkLost", "reload", "writeFails"}) =>
         \A t \in byUser : want[t] \in {Shown(t), "none"})

\* Violated.  The same of the status that an agent has given a thread.  BR-F-124
\* (requirements-browser-extension.md:242): an agent can "read, create, reply,
\* resolve/reopen, and delete browser comments through Hub tools and see updated state
\* on subsequent reads".
AgentStatusKept ==
  <>[](\A t \in born \ byUser : want[t] \in {Shown(t), "none"})
=============================================================================
