------------------------------ MODULE StateSync ------------------------------
(***************************************************************************)
(* How the IDE state reaches the Hub's cache: StatePublisher               *)
(* (packages/bridge/src/state-publisher.ts), the replay cache of WsClient   *)
(* (ws-client.ts), BridgeConnection's grace window and the Hub's StateCache *)
(* (packages/hub/src/state-cache.ts).                                      *)
(*                                                                         *)
(* A state has one key for all the fields the editor events set (they are   *)
(* replaced whole, one by one) and one key for the modality of each         *)
(* extension (they are merged).  Values are version numbers; 0 stands for   *)
(* the empty state's value and for a modality that was never published.     *)
(***************************************************************************)
EXTENDS Integers, Sequences, FiniteSets

CONSTANTS
  Ide,          \* the key of the editor's fields
  Exts,         \* extensions that publish a modality
  Live,         \* a reference to StatePublisher.currentState, not a copy
  MaxVersion,   \* bound: number of changes of the IDE and the modalities
  MaxDrops,     \* bound: lost sockets and failed connection attempts
  MaxRateDrops, \* bound: frames the Hub's rate limit discards
  MaxPulls,     \* bound: getState requests
  MaxReloads    \* bound: reloads of the VS Code window

Keys   == {Ide} \cup Exts
States == [Keys -> 0..MaxVersion]
Empty  == [k \in Keys |-> 0]

ASSUME StateSyncAssumption == Ide \notin Exts /\ Live \notin States /\ MaxVersion \in Nat \ {0}

VARIABLES
  cur,       \* StatePublisher.currentState
  sent,      \* StatePublisher.sentState; null is compared like the empty state
  debounce,  \* armed debounce timers
  last,      \* WsClient.lastState: a copy, or the live object
  captured,  \* connect's argument, which the open handler sends
  sock,      \* the WsClient and its socket
  toHub,     \* frames on the socket the Hub has not read
  hubLink,   \* BridgeConnectionState.connected
  graceArmed,\* BridgeConnectionState.graceTimer # null
  cache,     \* the Hub's StateCache
  clock,     \* the latest version
  spent      \* use of the bounds

publisherVars == <<cur, sent, debounce, clock>>
clientVars    == <<last, captured, sock>>
hubVars       == <<hubLink, graceArmed, cache>>
vars == <<publisherVars, clientVars, toHub, hubVars, spent>>

Categories == {"editor", "tabs"}
Socks == {"absent", "connecting", "open", "waiting"}
Budget == [drops |-> MaxDrops, rate |-> MaxRateDrops, pulls |-> MaxPulls, reloads |-> MaxReloads]

Patches == {p \in UNION {[K -> 1..MaxVersion] : K \in SUBSET Keys} : DOMAIN p # {}}
Frames  == [type : {"snapshot", "update"}, patch : Patches]

Init ==
  /\ cur = Empty /\ sent = Empty /\ debounce = {} /\ clock = 1
  /\ last = Empty /\ captured = Empty /\ sock = "absent"
  /\ toHub = <<>>
  /\ hubLink = FALSE /\ graceArmed = FALSE /\ cache = Empty
  /\ spent = [b \in DOMAIN Budget |-> 0]

Spend(b) == spent[b] < Budget[b] /\ spent' = [spent EXCEPT ![b] = @ + 1]

-----------------------------------------------------------------------------
(* Operations on states.                                                   *)

\* What a message carries of the keys K of a state: a modality that was never
\* published is not in the object.
Carry(s, K) == [k \in {j \in K : s[j] # 0} |-> s[k]]

\* StateCache.applyPatch: modalities are merged key by key.
ApplyPatch(s, p) == [k \in Keys |-> IF k \in DOMAIN p THEN p[k] ELSE s[k]]

\* The spread {...lastState, ...patch}: a patch with modalities replaces all of
\* them.
Spread(s, p) ==
  [k \in Keys |-> CASE k \in DOMAIN p -> p[k]
                    [] k \in Exts \ DOMAIN p /\ DOMAIN p \cap Exts # {} -> 0
                    [] OTHER -> s[k]]

\* computePatch: all the modalities when one differs; an empty patch is null.
ComputePatch(c, s) ==
  Carry(c, {k \in Keys : c[k] # s[k] \/ (k \in Exts /\ \E e \in Exts : c[e] # s[e])})

Deref(ref, c) == IF ref = Live THEN c ELSE ref

-----------------------------------------------------------------------------
(* WsClient's sends.                                                       *)

\* sendIfOpen drops the message unless the socket is open.
SendIfOpen(type, p) ==
  toHub' = IF sock = "open" THEN Append(toHub, [type |-> type, patch |-> p]) ELSE toHub

\* Mutant of SendStateUpdate: the patch is not merged into lastState.
UpdateForgotten(p) ==
  /\ SendIfOpen("update", p)
  /\ UNCHANGED clientVars

SendStateUpdate(p) ==
  /\ last' = IF sock = "absent" THEN last ELSE Spread(Deref(last, cur'), p)
  /\ SendIfOpen("update", p)
  /\ UNCHANGED <<captured, sock>>

\* The state the caller passes becomes lastState, by reference.
SendStateSnapshot(ref) ==
  /\ last' = ref
  /\ SendIfOpen("snapshot", Carry(Deref(ref, cur), Keys))

-----------------------------------------------------------------------------
(* StatePublisher.                                                         *)

\* flushPatch: sentState advances even when the client drops the message.
FlushPatch ==
  LET patch == ComputePatch(cur', sent)
  IN IF DOMAIN patch = {}
       THEN UNCHANGED <<sent, clientVars, toHub>>
       ELSE SendStateUpdate(patch) /\ sent' = cur'

Change(k) ==
  /\ clock < MaxVersion
  /\ clock' = clock + 1
  /\ cur' = [cur EXCEPT ![k] = clock + 1]

\* An editor or tab event: the flush is debounced.
EditorEvent(category) ==
  /\ sock # "absent"
  /\ Change(Ide)
  /\ debounce' = debounce \cup {category}
  /\ UNCHANGED <<sent, clientVars, toHub, hubVars, spent>>

DebounceFires(category) ==
  /\ category \in debounce
  /\ debounce' = debounce \ {category}
  /\ cur' = cur
  /\ FlushPatch
  /\ UNCHANGED <<clock, hubVars, spent>>

\* A change of the workspace folders is flushed at once.
FoldersEvent ==
  /\ sock # "absent"
  /\ Change(Ide)
  /\ FlushPatch
  /\ UNCHANGED <<debounce, hubVars, spent>>

\* publishState: the push does not advance sentState.
PublishState(e) ==
  /\ Change(e)
  /\ SendStateUpdate(Carry(cur', {e}))
  /\ UNCHANGED <<sent, debounce, hubVars, spent>>

\* Mutant of KeyframeFires: the keyframe is skipped when nothing has changed
\* since the last send.
KeyframeIfChanged ==
  /\ sock # "absent" /\ toHub = <<>>
  /\ cur # sent
  /\ SendStateSnapshot(cur)
  /\ sent' = cur
  /\ UNCHANGED <<cur, debounce, clock, captured, sock, hubVars, spent>>

\* sendSnapshot on the keyframe timer, which runs from start to dispose.  Ten
\* minutes apart, keyframes do not pile up: the bound lets one fire when the Hub
\* has read everything.
KeyframeFires ==
  /\ sock # "absent" /\ toHub = <<>>
  /\ SendStateSnapshot(cur)
  /\ sent' = cur
  /\ UNCHANGED <<cur, debounce, clock, captured, sock, hubVars, spent>>

\* onGetState: the live object goes past the publisher, sentState stays.
GetState ==
  /\ sock = "open" /\ Spend("pulls")
  /\ SendStateSnapshot(Live)
  /\ UNCHANGED <<publisherVars, captured, sock, hubVars>>

-----------------------------------------------------------------------------
(* Connecting.                                                             *)

\* onHubReady creates the client, starts the publisher, which collects the
\* state of the IDE, and connects with the live state.
HubReady ==
  /\ sock = "absent"
  /\ cur' = [cur EXCEPT ![Ide] = clock]
  /\ sock' = "connecting"
  /\ captured' = Live /\ last' = Live
  /\ UNCHANGED <<sent, debounce, clock, toHub, hubVars, spent>>

\* Mutant of SocketOpens: the grace timer goes on after a reconnect.
OpenKeepsGrace ==
  /\ sock = "connecting"
  /\ sock' = "open"
  /\ last' = captured
  /\ toHub' = <<[type |-> "snapshot", patch |-> Carry(Deref(captured, cur), Keys)]>>
  /\ hubLink' = TRUE
  /\ UNCHANGED <<publisherVars, captured, cache, graceArmed, spent>>

\* The upgrade is accepted: handleConnect on the Hub, evicting what is left of
\* the previous socket, and the open handler in the client, which sends the
\* state connect was called with.
SocketOpens ==
  /\ sock = "connecting"
  /\ sock' = "open"
  /\ last' = captured
  /\ toHub' = <<[type |-> "snapshot", patch |-> Carry(Deref(captured, cur), Keys)]>>
  /\ hubLink' = TRUE /\ graceArmed' = FALSE
  /\ UNCHANGED <<publisherVars, captured, cache, spent>>

\* The close handler schedules a reconnect, whether the socket was open or the
\* attempt failed; unread frames are gone.
SocketCloses ==
  /\ sock \in {"connecting", "open"} /\ Spend("drops")
  /\ sock' = "waiting" /\ toHub' = <<>>
  /\ UNCHANGED <<publisherVars, last, captured, hubVars>>

\* The reconnect timer calls connect(lastState, lastTools).
ReconnectTimerFires ==
  /\ sock = "waiting"
  /\ sock' = "connecting" /\ captured' = last
  /\ UNCHANGED <<publisherVars, last, toHub, hubVars, spent>>

\* The window is reloaded: cleanupExtension, then a new extension host whose
\* publisher knows nothing.
Reload ==
  /\ sock # "absent" /\ Spend("reloads")
  /\ cur' = Empty /\ sent' = Empty /\ debounce' = {}
  /\ sock' = "absent" /\ last' = Empty /\ captured' = Empty
  /\ toHub' = <<>>
  /\ UNCHANGED <<clock, hubVars>>

-----------------------------------------------------------------------------
(* The Hub.                                                                *)

\* handleDisconnect, when the Hub notices that the socket is closed.
HubNoticesClose ==
  /\ hubLink /\ sock # "open"
  /\ hubLink' = FALSE /\ graceArmed' = TRUE
  /\ UNCHANGED <<publisherVars, clientVars, toHub, cache, spent>>

\* The grace window expires: clearModalities.
GraceExpires ==
  /\ graceArmed
  /\ graceArmed' = FALSE
  /\ cache' = [k \in Keys |-> IF k = Ide THEN cache[k] ELSE 0]
  /\ UNCHANGED <<publisherVars, clientVars, toHub, hubLink, spent>>

\* Snapshots and updates alike go to applyPatch; setSnapshot is not called.
HubReads ==
  /\ toHub # <<>>
  /\ toHub' = Tail(toHub)
  /\ cache' = ApplyPatch(cache, Head(toHub).patch)
  /\ UNCHANGED <<publisherVars, clientVars, hubLink, graceArmed, spent>>

\* dispatchInbound over its limit of messages per second.
HubDrops ==
  /\ toHub # <<>> /\ Spend("rate")
  /\ toHub' = Tail(toHub)
  /\ UNCHANGED <<publisherVars, clientVars, hubVars>>

Next ==
  \/ \E category \in Categories : EditorEvent(category) \/ DebounceFires(category)
  \/ FoldersEvent
  \/ \E e \in Exts : PublishState(e)
  \/ KeyframeFires \/ GetState
  \/ HubReady \/ SocketOpens \/ SocketCloses \/ ReconnectTimerFires \/ Reload
  \/ HubNoticesClose \/ GraceExpires \/ HubReads \/ HubDrops

Spec == Init /\ [][Next]_vars

\* Timers fire, the Hub keeps reading, the manager starts a client, and a Hub
\* that is there accepts it: with MaxDrops the failures are finite.
Fairness ==
  /\ \A category \in Categories : WF_vars(DebounceFires(category))
  /\ WF_vars(KeyframeFires) /\ WF_vars(ReconnectTimerFires)
  /\ WF_vars(HubReady) /\ WF_vars(SocketOpens) /\ WF_vars(HubReads)
  /\ WF_vars(HubNoticesClose) /\ WF_vars(GraceExpires)

FairSpec == Spec /\ Fairness

-----------------------------------------------------------------------------
(* Properties.                                                             *)

\* Nothing is on its way and no flush is due.
Quiet == sock = "open" /\ toHub = <<>> /\ debounce = {}

\* What the client would replay and is up to date is what the Hub has: the
\* three copies of the state (publisher, client, Hub) never disagree on a key on
\* which the first two agree, whatever was dropped, cleared or reconnected.  The
\* rate limit is excepted: a frame it discards is gone for the replay too.
ReplayAccurate ==
  Quiet /\ spent["rate"] = 0 =>
    \A k \in Keys : cur[k] # 0 /\ Deref(last, cur)[k] = cur[k] => cache[k] = cur[k]

\* The Hub never goes back to an older value of a key: a reconnect does not
\* replay one.  Modalities may be cleared when the grace window expires.
NeverBackwards ==
  [][\A k \in Keys : cache'[k] >= cache[k] \/ (k \in Exts /\ GraceExpires)]_vars

\* In the end the Hub has the value of every key, in spite of updates lost in a
\* handshake, rate-limited or cleared: keyframes repair the drift.
EventuallyAccurate ==
  <>[](sock = "open" /\ \A k \in Keys : cur[k] # 0 => cache[k] = cur[k])

=============================================================================
