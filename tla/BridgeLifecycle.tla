--------------------------- MODULE BridgeLifecycle ---------------------------
(***************************************************************************)
(* How the gateway bridge starts, connects to RNS, reconnects and stops    *)
(* (gateway/rns_bridge.py, gateway/_rns_bridge_connection.py).             *)
(*                                                                         *)
(* Every start of the bridge begins a life of four threads: _rns_loop,     *)
(* which owns the connection, _bridge_loop, which copies the connection's  *)
(* flags into the health table the routing gates read, the handler's       *)
(* run_loop, and the queue's process_loop.  They share plain attributes of *)
(* the bridge object; no lock guards them.  The operator's stop() clears   *)
(* those attributes one after the other, gives each thread five seconds to *)
(* end and returns whether it has or not, so a thread inside a long call   *)
(* goes on with what it was doing.                                         *)
(*                                                                         *)
(* The RNS stack is the environment: it works, it is not there, or it      *)
(* raises somewhere in the middle of the connection's set-up.              *)
(***************************************************************************)
EXTENDS Integers, FiniteSets

CONSTANTS
    MaxStarts,      \* bound: how often the operator starts the bridge
    MaxAttempts,    \* ReconnectConfig.max_attempts
    MaxRouters      \* bound: routers counted

ASSUME LifecycleAssumption ==
    MaxStarts \in Nat \ {0} /\ MaxAttempts \in Nat \ {0} /\ MaxRouters \in Nat \ {0, 1}

Lives == 1 .. MaxStarts

VARIABLES
    running,    \* _running
    stopEvent,  \* _stop_event, shared with the handlers
    op,         \* the operator's call: idle, or a place inside stop()
    starts,     \* lives begun
    rns,        \* per life: _rns_loop
    bridge,     \* per life: _bridge_loop
    handler,    \* per life: the Meshtastic handler's run_loop is running
    worker,     \* per life: the queue's process_loop is running
    processing, \* the queue's _processing
    queueEvent, \* the queue's _stop_event
    stack,      \* the RNS installation, rnsd included
    opened,     \* _rns_pre_initialized
    link,       \* _connected_rns
    permanent,  \* _rns_init_failed_permanently
    attempts,   \* _rns_reconnect.attempts
    router,     \* _lxmf_router is set
    source,     \* _lxmf_source is set
    destination, \* Transport has the gateway's delivery destination; it takes it only once
    routers,    \* history: LXMRouters constructed, up to MaxRouters; their threads never end
    plugin,     \* the LXMF broadcast bridge and its announce thread
    state       \* the rns entry of the health table

flags   == <<running, stopEvent>>
queue   == <<worker, processing, queueEvent>>
session == <<router, source, routers>>
vars == <<flags, op, starts, rns, bridge, handler, queue, stack, opened, link, permanent,
          attempts, session, destination, plugin, state>>

RnsPlaces    == {"none", "top", "open", "router", "source", "announce", "ready",
                 "verdict", "healthy", "plugins", "ended"}
BridgePlaces == {"none", "top", "healthy", "disabled", "ended"}
OpPlaces     == {"idle", "plugin", "session", "link", "join"}
Stacks       == {"works", "absent", "raises"}

TypeOK ==
    /\ running \in BOOLEAN /\ stopEvent \in BOOLEAN
    /\ op \in OpPlaces
    /\ starts \in 0 .. MaxStarts
    /\ rns \in [Lives -> RnsPlaces]
    /\ bridge \in [Lives -> BridgePlaces]
    /\ handler \in [Lives -> BOOLEAN]
    /\ worker \in [Lives -> BOOLEAN]
    /\ processing \in BOOLEAN /\ queueEvent \in BOOLEAN
    /\ stack \in Stacks
    /\ opened \in BOOLEAN /\ link \in BOOLEAN /\ permanent \in BOOLEAN
    /\ attempts \in 0 .. MaxAttempts
    /\ router \in BOOLEAN /\ source \in BOOLEAN /\ destination \in BOOLEAN
    /\ routers \in 0 .. MaxRouters
    /\ plugin \in BOOLEAN
    /\ state \in {"healthy", "disconnected", "disabled"}

Init ==
    /\ running = FALSE /\ stopEvent = FALSE
    /\ op = "idle" /\ starts = 0
    /\ rns = [l \in Lives |-> "none"] /\ bridge = [l \in Lives |-> "none"]
    /\ handler = [l \in Lives |-> FALSE] /\ worker = [l \in Lives |-> FALSE]
    /\ processing = FALSE /\ queueEvent = FALSE
    /\ stack \in Stacks
    /\ opened = FALSE /\ link = FALSE /\ permanent = FALSE
    /\ attempts = 0
    /\ router = FALSE /\ source = FALSE /\ destination = FALSE /\ routers = 0
    /\ plugin = FALSE
    /\ state = "disconnected"

-----------------------------------------------------------------------------
(* The operator                                                            *)

\* Queue.start_processing: a worker that still runs keeps the new one from starting.
StartProcessing(l) ==
    IF processing
    THEN UNCHANGED queue
    ELSE /\ processing' = TRUE
         /\ queueEvent' = FALSE
         /\ worker' = [worker EXCEPT ![l] = TRUE]

\* start(): Reticulum is opened from the main thread if it can be, then the threads begin.
Start ==
    /\ op = "idle" /\ ~running
    /\ starts < MaxStarts
    /\ starts' = starts + 1
    /\ running' = TRUE
    /\ opened' = (opened \/ stack = "works")
    /\ rns' = [rns EXCEPT ![starts'] = "top"]
    /\ bridge' = [bridge EXCEPT ![starts'] = "top"]
    /\ handler' = [handler EXCEPT ![starts'] = TRUE]
    /\ StartProcessing(starts')
    /\ UNCHANGED <<stopEvent, op, stack, link, permanent, attempts, session, destination, plugin, state>>

lives == <<starts, rns, bridge, handler, worker, processing, stack, opened, permanent,
           attempts, routers, state>>

\* stop(): the flags, then Queue.stop_processing, whose join may run out.
Stop ==
    /\ op = "idle" /\ running
    /\ running' = FALSE
    /\ stopEvent' = TRUE
    /\ queueEvent' = TRUE
    /\ op' = "plugin"
    /\ UNCHANGED <<lives, link, router, source, destination, plugin>>

\* stop() of the broadcast bridge returns at once if it does not run.
StopPlugin ==
    /\ op = "plugin"
    /\ plugin' = FALSE
    /\ op' = "session"
    /\ UNCHANGED <<lives, flags, queueEvent, link, router, source, destination>>

\* _disconnect_rns: the router and the source first, the flag last.  Whether the RNS that
\* was shut down still has the destination is the library's affair.
DropSession ==
    /\ op = "session"
    /\ router' = FALSE /\ source' = FALSE
    /\ destination' \in {destination, FALSE}
    /\ op' = "link"
    /\ UNCHANGED <<lives, flags, queueEvent, link, plugin>>

DropLink ==
    /\ op = "link"
    /\ link' = FALSE
    /\ op' = "join"
    /\ UNCHANGED <<lives, flags, queueEvent, router, source, destination, plugin>>

\* Each join waits at most five seconds.
Join ==
    /\ op = "join"
    /\ op' = "idle"
    /\ UNCHANGED <<lives, flags, queueEvent, link, router, source, destination, plugin>>

-----------------------------------------------------------------------------
(* The RNS thread                                                          *)

elsewhere == <<flags, op, starts, bridge, handler, queue, stack>>
others    == <<elsewhere, destination>>

GoTo(l, place) == rns' = [rns EXCEPT ![l] = place]

\* Faulty: out of attempts, the loop just waits.
RnsTopNoReset(l) ==
    /\ rns[l] = "top" /\ running /\ ~permanent /\ ~link
    /\ state' = "disconnected"
    /\ attempts < MaxAttempts
    /\ GoTo(l, "open")
    /\ UNCHANGED <<others, opened, link, permanent, attempts, session, plugin>>

\* Faulty: the loop leaves the health table to the bridge loop.
RnsTopSilent(l) ==
    /\ rns[l] = "top" /\ running /\ ~permanent /\ ~link
    /\ IF attempts < MaxAttempts
       THEN GoTo(l, "open") /\ UNCHANGED attempts
       ELSE attempts' = 0 /\ UNCHANGED rns
    /\ UNCHANGED <<others, opened, link, permanent, session, plugin, state>>

\* Not connected: try, or begin the attempts anew after the longest wait.
RnsTop(l) ==
    /\ rns[l] = "top" /\ running /\ ~permanent /\ ~link
    /\ state' = "disconnected"
    /\ IF attempts < MaxAttempts
       THEN GoTo(l, "open") /\ UNCHANGED attempts
       ELSE attempts' = 0 /\ UNCHANGED rns
    /\ UNCHANGED <<others, opened, link, permanent, session, plugin>>

RnsGivenUp(l) ==
    /\ rns[l] = "top" /\ running /\ permanent
    /\ state' = "disabled"
    /\ UNCHANGED <<others, rns, opened, link, permanent, attempts, session, plugin>>

RnsEnd(l) ==
    /\ rns[l] = "top" /\ ~running
    /\ GoTo(l, "ended")
    /\ UNCHANGED <<others, opened, link, permanent, attempts, session, plugin, state>>

\* _connect_rns gives up: the flag is cleared, _rns_loop looks at it next.
Fail(l) ==
    /\ link' = FALSE
    /\ GoTo(l, "verdict")
    /\ UNCHANGED <<opened, permanent, session>>

\* No libraries, or a foreign owner of the shared instance: not worth a retry.
FailForGood(l) ==
    /\ link' = FALSE
    /\ permanent' = TRUE
    /\ GoTo(l, "verdict")
    /\ UNCHANGED <<opened, session>>

\* An exception outside _connect_rns's own handlers ends in the loop's.
LoopError(l) ==
    /\ link' = FALSE
    /\ GoTo(l, "top")
    /\ \/ permanent' = TRUE /\ state' = "disabled" /\ UNCHANGED attempts
       \/ /\ state' = "disconnected"
          /\ attempts' = IF attempts < MaxAttempts THEN attempts + 1 ELSE attempts
          /\ UNCHANGED permanent
    /\ UNCHANGED <<opened, session>>

\* _connect_rns up to _setup_lxmf: Reticulum is opened once per process.
Open(l) ==
    /\ rns[l] = "open"
    /\ \/ /\ opened \/ stack = "works"
          /\ GoTo(l, "router")
          /\ UNCHANGED <<opened, link, permanent, session, attempts, state>>
       \/ ~opened /\ stack # "works" /\ Fail(l) /\ UNCHANGED <<attempts, state>>
       \/ stack = "raises" /\ FailForGood(l) /\ UNCHANGED <<attempts, state>>
       \/ stack = "raises" /\ LoopError(l)
    /\ UNCHANGED <<others, plugin>>

\* Faulty: every attempt constructs a router of its own.
BuildRouterAnew(l) ==
    /\ rns[l] = "router"
    /\ \/ stack = "raises" /\ Fail(l)
       \/ /\ router' = TRUE
          /\ routers' = IF routers < MaxRouters THEN routers + 1 ELSE routers
          /\ GoTo(l, "source")
          /\ UNCHANGED <<opened, link, permanent, source>>
    /\ UNCHANGED <<others, attempts, plugin, state>>

\* _setup_lxmf: a router that an earlier attempt constructed is used again.
BuildRouter(l) ==
    /\ rns[l] = "router"
    /\ \/ stack = "raises" /\ Fail(l)
       \/ /\ router' = TRUE
          /\ routers' = IF ~router /\ routers < MaxRouters THEN routers + 1 ELSE routers
          /\ GoTo(l, "source")
          /\ UNCHANGED <<opened, link, permanent, source>>
    /\ UNCHANGED <<others, attempts, plugin, state>>

\* So is the delivery identity; without a router the call on None raises.
\* register_delivery_identity may raise after Transport has taken the destination, and
\* raises "already registered" ever after: there is no identity to use again.
RegisterSource(l) ==
    /\ rns[l] = "source"
    /\ \/ (~router \/ stack = "raises" \/ (destination /\ ~source))
          /\ destination' \in {destination, destination \/ (router /\ stack = "raises")}
          /\ Fail(l)
       \/ /\ router /\ (destination => source)
          /\ source' = TRUE /\ destination' = TRUE
          /\ GoTo(l, "announce")
          /\ UNCHANGED <<opened, link, permanent, router, routers>>
    /\ UNCHANGED <<elsewhere, attempts, plugin, state>>

Announce(l) ==
    /\ rns[l] = "announce"
    /\ \/ (~router \/ ~source \/ stack = "raises")
          /\ Fail(l)
       \/ /\ router /\ source
          /\ GoTo(l, "ready")
          /\ UNCHANGED <<opened, link, permanent, session>>
    /\ UNCHANGED <<others, attempts, plugin, state>>

\* The end of _setup_lxmf asks neither _running nor whether its router is still there.
Ready(l) ==
    /\ rns[l] = "ready"
    /\ link' = TRUE
    /\ GoTo(l, "verdict")
    /\ UNCHANGED <<others, opened, permanent, attempts, session, plugin, state>>

\* Faulty: an attempt that failed is repeated at once, inside the connection.
VerdictRetry(l) ==
    /\ rns[l] = "verdict"
    /\ attempts' = IF link THEN 0 ELSE IF attempts < MaxAttempts THEN attempts + 1 ELSE 0
    /\ GoTo(l, IF link THEN "healthy" ELSE "open")
    /\ UNCHANGED <<others, opened, link, permanent, session, plugin, state>>

\* record_success or record_failure.  Past MaxAttempts the counter is not told apart.
Verdict(l) ==
    /\ rns[l] = "verdict"
    /\ attempts' = IF link THEN 0 ELSE IF attempts < MaxAttempts THEN attempts + 1 ELSE attempts
    /\ GoTo(l, IF link THEN "healthy" ELSE "top")
    /\ UNCHANGED <<others, opened, link, permanent, session, plugin, state>>

MarkHealthy(l) ==
    /\ rns[l] = "healthy"
    /\ state' = "healthy"
    /\ GoTo(l, "plugins")
    /\ UNCHANGED <<others, opened, link, permanent, attempts, session, plugin>>

\* A broadcast bridge that cannot start is logged; the identity warm-up thread may be refused.
StartPlugins(l) ==
    /\ rns[l] = "plugins"
    /\ plugin' \in (IF stack = "raises" THEN {plugin, TRUE} ELSE {TRUE})
    /\ \/ GoTo(l, "top") /\ UNCHANGED <<opened, link, permanent, attempts, session, state>>
       \/ stack = "raises" /\ LoopError(l)
    /\ UNCHANGED others

RnsThread(l) ==
    \/ RnsTop(l) \/ RnsGivenUp(l) \/ RnsEnd(l)
    \/ Open(l) \/ BuildRouter(l) \/ RegisterSource(l) \/ Announce(l) \/ Ready(l)
    \/ Verdict(l) \/ MarkHealthy(l) \/ StartPlugins(l)

-----------------------------------------------------------------------------
(* The other threads and the RNS installation                              *)

connection == <<flags, op, starts, rns, stack, opened, link, permanent, attempts, session,
                destination, plugin>>

\* _sync_subsystem_states reads the flags.
Sync(l) ==
    /\ bridge[l] = "top" /\ running
    /\ link \/ permanent
    /\ bridge' = [bridge EXCEPT ![l] = IF permanent THEN "disabled" ELSE "healthy"]
    /\ UNCHANGED <<connection, handler, queue, state>>

\* It writes what it read, whatever happened since.
SyncWrite(l) ==
    /\ bridge[l] \in {"healthy", "disabled"}
    /\ state' = bridge[l]
    /\ bridge' = [bridge EXCEPT ![l] = "top"]
    /\ UNCHANGED <<connection, handler, queue>>

BridgeEnd(l) ==
    /\ bridge[l] = "top" /\ ~running
    /\ bridge' = [bridge EXCEPT ![l] = "ended"]
    /\ UNCHANGED <<connection, handler, queue, state>>

\* run_loop asks the event, not _running.
HandlerEnd(l) ==
    /\ handler[l] /\ stopEvent
    /\ handler' = [handler EXCEPT ![l] = FALSE]
    /\ UNCHANGED <<connection, bridge, queue, state>>

WorkerEnd(l) ==
    /\ worker[l] /\ queueEvent
    /\ worker' = [worker EXCEPT ![l] = FALSE]
    /\ processing' = FALSE
    /\ UNCHANGED <<connection, bridge, handler, queueEvent, state>>

StackChanges ==
    /\ stack' \in Stacks \ {stack}
    /\ UNCHANGED <<flags, op, starts, rns, bridge, handler, queue, opened, link, permanent,
                   attempts, session, destination, plugin, state>>

BridgeThread(l) == Sync(l) \/ SyncWrite(l) \/ BridgeEnd(l)
StopCall        == StopPlugin \/ DropSession \/ DropLink \/ Join

Next ==
    \/ Start \/ Stop \/ StopCall \/ StackChanges
    \/ \E l \in Lives : RnsThread(l) \/ BridgeThread(l) \/ HandlerEnd(l) \/ WorkerEnd(l)

Spec == Init /\ [][Next]_vars

\* Every thread that can take a step takes one, and a call of stop() that began goes on.
\* Nobody has to start or stop the bridge, and RNS need never work.
Fairness ==
    /\ WF_vars(StopCall)
    /\ \A l \in Lives : /\ WF_vars(RnsThread(l)) /\ WF_vars(BridgeThread(l))
                        /\ WF_vars(HandlerEnd(l)) /\ WF_vars(WorkerEnd(l))

FairSpec == Spec /\ Fairness

-----------------------------------------------------------------------------
(* What the bridge must keep                                               *)

\* Until the first stop, however many attempts fail and wherever they fail, one LXMRouter is
\* constructed (each keeps its job threads for good), and whoever finds the flag set finds the
\* router and the identity to send with.
OneUsableRouter ==
    starts = 1 /\ running => routers <= 1 /\ (link => router /\ source)

\* The health entry the routing gates read settles on the truth: each loop may write it from
\* flags that have changed since, but a wrong entry does not stay.
GateFollowsLink ==
    /\ (<>[](running /\ link)) => <>[](state = "healthy")
    /\ (<>[](running /\ permanent)) => <>[](state = "disabled")
    /\ (<>[](running /\ ~link /\ ~permanent)) => <>[](state = "disconnected")

Alive(l)  == handler[l] /\ worker[l] /\ rns[l] # "ended" /\ bridge[l] # "ended"
Serves    == link /\ router /\ source /\ \E l \in Lives : Alive(l)

\* The registration raised after Transport had the destination: quarantine_corrupt_ratchets
\* averts one cause of it, and nothing undoes it.
Wedged == destination /\ ~source

\* A bridge left running on an RNS that works, not given up and not wedged, serves in the end:
\* other failures and exhausted attempts of the past do not keep it from connecting, and its
\* threads are there.
RunningServes == (<>[](running /\ stack = "works" /\ ~permanent /\ ~Wedged)) => <>[]Serves

\* _setup_lxmf is separate to "allow LXMF setup to be retried independently"
\* (_rns_bridge_connection.py:319-320): wherever it failed, a retry can succeed.
SetupCanBeRetried == (<>[](running /\ stack = "works" /\ ~permanent)) => <>[]Serves

Quiet == \A l \in Lives : /\ rns[l] \in {"none", "ended"} /\ bridge[l] \in {"none", "ended"}
                         /\ ~handler[l] /\ ~worker[l]

\* "Restart the gateway bridge." (commands/gateway.py:156): a bridge that runs has the handler's
\* loop and the queue's worker running, whether it was started for the first time or again.
RunningHasThreads == running => \E l \in Lives : handler[l] /\ worker[l]

\* The four loops of every life end once the bridge is stopped, also those that outlive the
\* joins of stop().  Of the plug-in's announce thread see PluginStopped.
StopEnds == (<>[](~running)) => <>[]Quiet

\* "Stop LXMF broadcast bridge plug-in before tearing down RNS so its announce thread exits while
\* the router is still alive" (rns_bridge.py:668): once stop() returned, the plug-in is off.
PluginStopped == op = "idle" /\ ~running => ~plugin
=============================================================================
