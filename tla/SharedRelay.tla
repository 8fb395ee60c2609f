----------------------------- MODULE SharedRelay -----------------------------
(***************************************************************************)
(* SharedBrowserRelayServer (packages/browser/src/shared-relay-server-*.ts) *)
(* between the SharedRelayClients of several VS Code windows ("Hubs") and   *)
(* the one Chrome extension, with the write lease of WriteLease.  Tables of *)
(* the server, sockets with their late close events, and the mutations that *)
(* run in the browser.                                                      *)
(*                                                                         *)
(* A message on an open socket is handled when it is sent.  A handler that   *)
(* settles promises is followed by their continuations before the next       *)
(* event (Idle); so is the loop that fails all pending requests.             *)
(***************************************************************************)
EXTENDS WriteLease

CONSTANTS
  Requests,   \* requestIds, each sent at most once
  HubOf,      \* the Hub that sends it
  Mutating,   \* those whose action is in MUTATING_ACTIONS
  Scenarios   \* kinds of faults that occur together, with a bound on their number

FaultKinds ==
  {"hubCloses",    \* the socket of the holder, or of a Hub while none holds the lease, goes
   "otherCloses",  \* the socket of a Hub goes while another one holds the lease
   "overlap",      \* a Hub registers again before the close of its old socket
   "chromeCloses", \* the socket of Chrome goes
   "twoChromes",   \* a second Chrome connects
   "silent",       \* Chrome never answers a request
   "impatient"}    \* a Hub sends a mutation before the last one is answered

ASSUME SharedRelayAssumption ==
  /\ HubOf \in [Requests -> Hubs] /\ Mutating \subseteq Requests
  /\ Scenarios \subseteq [kinds : SUBSET FaultKinds, faults : Nat]

VARIABLES
  req,        \* where each request is
  reply,      \* what its sender has got
  hubs,       \* keys of hubs, and of pendingByHub
  pending,    \* entries of the maps in pendingByHub
  routed,     \* keys of requestIdToHub
  open,       \* Hubs whose socket is OPEN
  oldSocket,  \* Hubs with a replaced socket whose close event is still to come
  chrome,     \* chromeSocket # null
  oldChrome,  \* a replaced socket of Chrome has its close event still to come
  told,       \* the Chrome status that each Hub was last told
  resolving,  \* requests the running resolvePendingResponses has still to fail
  used        \* the scenario, with the number of faults still to come

tables  == <<hubs, pending, routed>>
sockets == <<open, oldSocket, chrome, oldChrome, told>>
relayVars == <<req, reply, tables, sockets, resolving, used>>
vars == <<leaseVars, relayVars>>

\* "due": its acquire() is resolved and doForward comes next; "overrun": runs in
\* a browser after its Hub lost the lease by time or by its socket, or after its
\* browser was replaced; "dead": its acquire() will never be settled.
Places  == {"new", "queued", "due", "running", "overrun", "done", "dead", "silent"}
Replies == {"none", "sent", "twice", "dropped"}

Init ==
  /\ LeaseInit
  /\ req = [r \in Requests |-> "new"] /\ reply = [r \in Requests |-> "none"]
  /\ hubs = {} /\ pending = {} /\ routed = {}
  /\ open = {} /\ oldSocket = {} /\ chrome = FALSE /\ oldChrome = FALSE
  /\ told = [h \in Hubs |-> FALSE]
  /\ resolving = {}
  /\ used \in Scenarios

Faults == used.kinds
Fault(kind) ==
  /\ kind \in Faults /\ used.faults > 0
  /\ used' = [used EXCEPT !.faults = @ - 1]

Of(h) == {r \in Requests : HubOf[r] = h}
Idle  == resolving = {} /\ \A r \in Requests : req[r] # "due"

-----------------------------------------------------------------------------
(* Helpers.                                                                *)

\* What an operation of the lease does to the requests: a grant wakes the one
\* that waits, a dropped promise never continues, and a lease that is lost while
\* its mutation runs leaves that mutation running.
LeaseMoves(now, lost) ==
  req' = [r \in Requests |->
            IF now[r] = "queued" /\ HubOf[r] \notin waiting'
              THEN IF holder' = HubOf[r] THEN "due" ELSE "dead"
            ELSE IF /\ lost /\ now[r] = "running" /\ r \in Mutating
                    /\ HubOf[r] = holder /\ holder' # holder
              THEN "overrun"
            ELSE now[r]]

\* The sender's socket is looked at when the answer is there.
Answered(r) ==
  [reply EXCEPT ![r] = IF @ = "none" THEN "sent" ELSE IF @ = "sent" THEN "twice" ELSE @]

\* Nobody listens for the answers to a socket that closes.
Unheard(h) ==
  [r \in Requests |-> IF /\ HubOf[r] = h /\ req[r] # "new" /\ reply[r] = "none"
                        THEN "dropped" ELSE reply[r]]

\* The resolver of a pending request: the answer, then the release of a mutation.
Resolver(r, now) ==
  /\ reply' = Answered(r)
  /\ IF r \in Mutating THEN Release(HubOf[r]) ELSE UNCHANGED leaseVars
  /\ LeaseMoves(now, FALSE)

\* Mutant of ResolvePending: the maps are cleared and nobody is told.
ForgetPending == pending' = {} /\ routed' = {} /\ UNCHANGED resolving

\* resolvePendingResponses: every entry is failed in the same task (ResolveOne);
\* nothing reads the tables meanwhile, so they are cleared here.
ResolvePending == resolving' = pending /\ pending' = {} /\ routed' = {}

\* A browser that is replaced or gone goes on with what it was asked.
LeaveRunning == [r \in Requests |-> IF req[r] = "running" THEN "overrun" ELSE req[r]]

Told(connected) == [h \in Hubs |-> IF h \in hubs THEN connected ELSE told[h]]

-----------------------------------------------------------------------------
(* Requests.                                                               *)

\* A Hub that is patient has its last mutation answered, or given up by Chrome,
\* before it sends another one.
MaySend(r) ==
  \/ r \notin Mutating \/ "impatient" \in Faults
  \/ \A q \in Of(HubOf[r]) \cap Mutating :
       req[q] \notin {"queued", "due", "running", "overrun"}

\* The message handler of a Hub's socket.  The rejection of acquire() comes a
\* timer later, with nothing in between that could change the answer.
Receive(r) ==
  LET h == HubOf[r] IN
  /\ Idle /\ h \in open /\ req[r] = "new" /\ MaySend(r)
  /\ \/ /\ r \notin Mutating \/ AcquireNow(h)
        /\ r \notin Mutating => UNCHANGED leaseVars
        /\ req' = [req EXCEPT ![r] = "due"] /\ UNCHANGED reply
     \/ /\ r \in Mutating /\ Enqueue(h)
        /\ req' = [req EXCEPT ![r] = "queued"] /\ UNCHANGED reply
     \/ /\ r \in Mutating /\ Refuse(h)
        /\ req' = [req EXCEPT ![r] = "done"] /\ reply' = Answered(r)
  /\ UNCHANGED <<tables, sockets, resolving, used>>

\* doForward.  Without Chrome the request fails and the lease is released, twice
\* where there is a resolver: the second finds another holder or none to wake.
Forward(r) ==
  /\ resolving = {} /\ req[r] = "due"
  /\ \/ /\ chrome /\ req' = [req EXCEPT ![r] = "running"]
        /\ routed' = routed \cup {r}
        /\ pending' = IF HubOf[r] \in hubs THEN pending \cup {r} ELSE pending
        /\ UNCHANGED <<reply, leaseVars>>
     \/ /\ ~chrome /\ HubOf[r] \in hubs
        /\ Resolver(r, [req EXCEPT ![r] = "done"])
        /\ UNCHANGED <<routed, pending>>
     \/ /\ ~chrome /\ HubOf[r] \notin hubs
        /\ IF r \in Mutating THEN Release(HubOf[r]) ELSE UNCHANGED leaseVars
        /\ LeaseMoves([req EXCEPT ![r] = "done"], FALSE)
        /\ UNCHANGED <<reply, routed, pending>>
  /\ UNCHANGED <<hubs, sockets, resolving, used>>

\* Mutant of ChromeAnswers: the entry of the Hub's map is not deleted.
ChromeAnswersTwice(r) ==
  /\ Idle /\ (chrome \/ oldChrome)
  /\ req[r] \in {"running", "overrun"}
  /\ routed' = routed \ {r}
  /\ \/ r \in routed \cap pending /\ Resolver(r, [req EXCEPT ![r] = "done"])
     \/ /\ r \notin routed \cap pending
        /\ req' = [req EXCEPT ![r] = "done"] /\ UNCHANGED <<reply, leaseVars>>
  /\ UNCHANGED <<hubs, pending, sockets, resolving, used>>

\* A response of Chrome: the two tables decide who hears of it.
ChromeAnswers(r) ==
  /\ Idle /\ (chrome \/ oldChrome)
  /\ req[r] \in {"running", "overrun"}
  /\ routed' = routed \ {r}
  /\ \/ /\ r \in routed \cap pending
        /\ pending' = pending \ {r}
        /\ Resolver(r, [req EXCEPT ![r] = "done"])
     \/ /\ r \notin routed \cap pending
        /\ req' = [req EXCEPT ![r] = "done"] /\ UNCHANGED <<pending, reply, leaseVars>>
  /\ UNCHANGED <<hubs, sockets, resolving, used>>

\* A request ends in Chrome and no response of it arrives.
ChromeSilent(r) ==
  /\ Idle /\ req[r] \in {"running", "overrun"}
  /\ \/ Fault("silent")
     \/ ~chrome /\ ~oldChrome /\ UNCHANGED used
  /\ req' = [req EXCEPT ![r] = "silent"]
  /\ UNCHANGED <<leaseVars, reply, tables, sockets, resolving>>

ResolveOne(r) ==
  /\ r \in resolving /\ resolving' = resolving \ {r}
  /\ Resolver(r, req)
  /\ UNCHANGED <<tables, sockets, used>>

\* Mutant of LeaseExpires: the next in line is not woken.
LeaseEndsOnly(t) ==
  /\ Idle /\ t \in armed /\ holder = t.hub
  /\ holder' = NoHub /\ expiryTimer' = NoTimer /\ armed' = armed \ {t}
  /\ UNCHANGED <<queue, waiting, relayVars>>

LeaseExpires(t) ==
  /\ Idle /\ Expire(t) /\ LeaseMoves(req, TRUE)
  /\ UNCHANGED <<reply, tables, sockets, resolving, used>>

-----------------------------------------------------------------------------
(* Sockets.                                                                *)

\* attachHubConnection.  A Hub that registers again replaces its old socket and
\* gets a new map; the close event of the old socket comes later.
HubConnects(h) ==
  /\ Idle
  /\ \/ h \notin open /\ UNCHANGED <<oldSocket, reply, used>>
     \/ /\ h \in open /\ oldSocket = {} /\ Fault("overlap")
        /\ oldSocket' = {h} /\ reply' = Unheard(h)
  /\ open' = open \cup {h} /\ hubs' = hubs \cup {h}
  /\ pending' = pending \ Of(h)
  /\ told' = [told EXCEPT ![h] = chrome]
  /\ UNCHANGED <<leaseVars, req, routed, chrome, oldChrome, resolving>>

\* The close handler of a Hub's socket, replaced or not: it goes by the hub id.
HubGone(h) ==
  /\ hubs' = hubs \ {h} /\ pending' = pending \ Of(h)
  /\ ReleaseAll(h) /\ LeaseMoves(req, TRUE)

HubCloses(h) ==
  /\ Idle /\ h \in open
  /\ Fault(IF holder \in {h, NoHub} THEN "hubCloses" ELSE "otherCloses")
  /\ open' = open \ {h} /\ reply' = Unheard(h)
  /\ HubGone(h)
  /\ told' = [told EXCEPT ![h] = FALSE]
  /\ UNCHANGED <<routed, oldSocket, chrome, oldChrome, resolving>>

OldHubSocketCloses(h) ==
  /\ Idle /\ h \in oldSocket /\ oldSocket' = oldSocket \ {h}
  /\ HubGone(h)
  /\ UNCHANGED <<reply, routed, open, chrome, oldChrome, told, resolving, used>>

\* Mutant of ChromeConnects: the Hubs are not told.
ChromeConnectsQuietly ==
  /\ Idle /\ ~chrome /\ chrome' = TRUE
  /\ UNCHANGED <<leaseVars, req, reply, tables, open, oldSocket, oldChrome, told, resolving, used>>

\* attachChromeConnection: a Chrome that is there is closed ("replaced").
ChromeConnects ==
  /\ Idle
  /\ \/ ~chrome /\ UNCHANGED <<oldChrome, req, used>>
     \/ /\ chrome /\ ~oldChrome /\ Fault("twoChromes")
        /\ oldChrome' = TRUE /\ req' = LeaveRunning
  /\ chrome' = TRUE /\ told' = Told(TRUE)
  /\ UNCHANGED <<leaseVars, reply, tables, open, oldSocket, resolving>>

ChromeCloses ==
  /\ Idle /\ chrome /\ Fault("chromeCloses")
  /\ chrome' = FALSE /\ told' = Told(FALSE)
  /\ ResolvePending /\ req' = LeaveRunning
  /\ UNCHANGED <<leaseVars, reply, hubs, open, oldSocket, oldChrome>>

\* The close event of a replaced Chrome: status and pending requests are treated
\* as if the present one had gone.
OldChromeCloses ==
  /\ Idle /\ oldChrome /\ oldChrome' = FALSE
  /\ told' = Told(FALSE)
  /\ ResolvePending
  /\ UNCHANGED <<leaseVars, req, reply, hubs, open, oldSocket, chrome, used>>

Next ==
  \/ \E r \in Requests : \/ Receive(r) \/ Forward(r) \/ ResolveOne(r)
                         \/ ChromeAnswers(r) \/ ChromeSilent(r)
  \/ \E h \in Hubs : HubConnects(h) \/ HubCloses(h) \/ OldHubSocketCloses(h)
  \/ ChromeConnects \/ ChromeCloses \/ OldChromeCloses
  \/ \E t \in Timers : LeaseExpires(t)

Spec == Init /\ [][Next]_vars

\* Continuations run, armed timers fire, and Chrome answers while it is there.
FairSpec ==
  /\ Spec
  /\ WF_vars(\E r \in Requests : Forward(r) \/ ResolveOne(r))
  /\ WF_vars(\E r \in Requests : ChromeAnswers(r))
  /\ WF_vars(\E t \in Timers : LeaseExpires(t))

-----------------------------------------------------------------------------
(* Properties.                                                             *)

NoneOf(kinds) == Faults \cap kinds = {}

\* "Ensures only one Hub client at a time can execute mutating browser actions"
\* (write-lease.ts:4): no two Hubs have a mutation in the browser, unless one of
\* them has lost its lease by time, by its socket or with its browser.
OneMutator ==
  \A q, r \in Mutating :
    req[q] = "running" /\ req[r] = "running" => HubOf[q] = HubOf[r]

\* OneMutator holds as long as every Hub sends one mutation at a time and there
\* is one Chrome: whoever's answer comes first releases the lease of its Hub, so
\* that a second mutation of that Hub runs without it (shared-relay-server-hub.ts:84).
OneMutatorIfPatient == NoneOf({"impatient", "twoChromes"}) => OneMutator

\* No request is forgotten and none is answered twice: one whose sender still
\* listens is in line, about to be forwarded, or has its entry in both tables,
\* where the answer of Chrome and the loss of Chrome will find it; and one that
\* waits is one whose promise is kept.  A Hub that registers twice loses its map.
RepliesAccounted ==
  /\ \A r \in Requests : reply[r] # "twice"
  /\ \A r \in Requests : req[r] = "queued" => HubOf[r] \in waiting
  /\ NoneOf({"overlap"}) =>
       \A r \in Requests : req[r] # "new" /\ reply[r] = "none" =>
         req[r] \in {"queued", "due"} \/ r \in (pending \cap routed) \cup resolving

\* Every connected Hub was last told whether Chrome is there.  The close event of
\* a replaced Chrome tells all of them that it is not (shared-relay-server-runtime.ts:117).
StatusAccurate ==
  NoneOf({"twoChromes", "overlap"}) => \A h \in open : told[h] = chrome

\* A lease that somebody holds ends by itself ("The lease auto-expires after
\* leaseDurationMs", write-lease.ts:21): its timer is armed.
LeaseEnds == holder # NoHub => expiryTimer \in armed

\* A Hub in line is served, or leaves: whatever the holder's request comes to,
\* also when Chrome never answers.  releaseAll for another Hub clears the holder's
\* timer, and then nothing serves the line (write-lease.ts:138).
WaiterServed ==
  \A h \in Hubs : (h \in Queued /\ NoneOf({"otherCloses", "overlap"})) ~> h \notin Queued

\* Every request that the server has taken is answered, unless its sender is
\* gone or Chrome is silent: leases, losses of Chrome and of other Hubs delay it
\* but do not lose it.
RequestReplied ==
  \A r \in Requests :
    (req[r] # "new" /\ NoneOf({"silent", "otherCloses", "overlap"})) ~> reply[r] # "none"
=============================================================================
