-------------------------- MODULE GatewayHeartbeat --------------------------
(***************************************************************************)
(* Cross-gateway failover over MQTT (gateway/gateway_heartbeat.py): a      *)
(* primary that publishes a heartbeat per interval, the broker between     *)
(* them, and a secondary that becomes active when the primary goes silent. *)
(*                                                                         *)
(* The secondary runs three kinds of threads: paho's callback thread (one  *)
(* message at a time: `mqtt'), the check loop, and the threads the check   *)
(* loop starts to report a peer down (`down').  Each critical section of   *)
(* _peers_lock or _state_lock is a step.  What the primary makes of the    *)
(* secondary's heartbeats changes nothing but its event list and is left   *)
(* out; it is active whenever it runs.                                     *)
(*                                                                         *)
(* Time counts in heartbeat intervals (Tick).  Within an interval the      *)
(* threads interleave freely, but each finishes what it has begun before   *)
(* the interval ends, and an open session delivers what was published.  A  *)
(* session may also stall: nothing passes, yet neither end counts it as    *)
(* lost (the keepalive of 60 s lets 90 s pass, four heartbeats only 60).   *)
(***************************************************************************)
EXTENDS Integers, Sequences

CONSTANTS
    Threshold,      \* missed_heartbeats_threshold
    InboxCap        \* bound: the primary comes and goes only while fewer messages travel

ASSUME HeartbeatAssumption == Threshold \in Nat \ {0} /\ InboxCap \in Nat \ {0}

VARIABLES
    primary,    \* the primary's process and its MQTT session
    will,       \* the broker has lost the primary's session and owes its last will
    retained,   \* the retained status message of the primary
    session,    \* the secondary's process and its MQTT session
    inbox,      \* messages on their way to the secondary, in order
    state,      \* _state: active or standby
    known,      \* the primary is in _peers
    alive,      \* its entry's alive flag
    silence,    \* intervals since its last heartbeat, up to Threshold + 1
    grace,      \* intervals since the secondary's last (re)connection, up to Grace
    mqtt,       \* the callback thread: idle, or in _handle_peer_recovered / _handle_peer_down
    down,       \* the peer-down thread: none, started, decided
    pending,    \* _pending_peer_down holds the primary
    skipped,    \* history: an interval without a heartbeat published and let through
                \* since the last one handled and since the last reconnection
    raced       \* history: the secondary was promoted while the primary counted as alive

peer    == <<known, alive, silence>>
broker  == <<primary, will, retained>>
threads == <<mqtt, down, pending>>
vars    == <<broker, session, inbox, state, peer, grace, threads, skipped, raced>>

\* "deaf": the process runs, but its first connect raised and loop_start was never reached.
Sessions == {"down", "deaf", "offline", "online", "stalled"}
Open     == {"online", "stalled"}
Messages == {"heartbeat", "online", "offline"}
Grace    == 2
Running  == session # "down"

TypeOK ==
    /\ primary \in Sessions /\ session \in Sessions
    /\ will \in BOOLEAN
    /\ retained \in {"none", "online", "offline"}
    /\ inbox \in Seq(Messages)
    /\ session \notin Open => inbox = <<>>
    /\ state \in {"active", "standby"}
    /\ known \in BOOLEAN /\ alive \in BOOLEAN /\ alive => known
    /\ silence \in 0 .. Threshold + 1
    /\ grace \in 0 .. Grace
    /\ mqtt \in {"idle", "recovering", "downing"}
    /\ down \in {"none", "started", "decided"}
    /\ pending \in BOOLEAN
    /\ skipped \in BOOLEAN /\ raced \in BOOLEAN

Init ==
    /\ primary = "down" /\ session = "down"
    /\ will = FALSE /\ retained = "none"
    /\ inbox = <<>>
    /\ state = "standby"
    /\ known = FALSE /\ alive = FALSE /\ silence = 0
    /\ grace = Grace
    /\ mqtt = "idle" /\ down = "none" /\ pending = FALSE
    /\ skipped = FALSE /\ raced = FALSE

-----------------------------------------------------------------------------
(* The primary and the broker                                              *)

secondary == <<session, state, peer, grace, threads, skipped, raced>>

\* Only an open session receives.
Deliver(msgs) == inbox' = IF session \in Open THEN inbox \o msgs ELSE inbox

\* Heartbeats that arrive together count as one.
DeliverHeartbeat ==
    IF inbox # <<>> /\ inbox[Len(inbox)] = "heartbeat"
    THEN UNCHANGED inbox
    ELSE Deliver(<<"heartbeat">>)

\* What a lost session of the same client id still owes goes out before anything new.
Owed == IF will THEN <<"offline">> ELSE <<>>

\* on_connect: subscribe, then publish the retained status.
OnConnect ==
    /\ primary' = "online"
    /\ will' = FALSE
    /\ retained' = "online"
    /\ Deliver(Append(Owed, "online"))

\* start: a connect that raises is logged and loop_start is skipped, for good.
StartPrimary ==
    /\ primary = "down"
    /\ Len(inbox) < InboxCap
    /\ \/ OnConnect
       \/ primary' = "deaf" /\ UNCHANGED <<will, retained, inbox>>
    /\ UNCHANGED secondary

ReconnectPrimary ==
    /\ primary = "offline"
    /\ Len(inbox) < InboxCap
    /\ OnConnect
    /\ UNCHANGED secondary

\* The network or the process goes without a word: the broker owes the will.
LosePrimary ==
    /\ primary \in Open
    /\ primary' \in {"offline", "down"}
    /\ will' = TRUE
    /\ UNCHANGED <<retained, inbox, secondary>>

\* The network holds up what the primary sends, and lets it go again.
StallPrimary ==
    /\ primary = "online"
    /\ primary' = "stalled"
    /\ UNCHANGED <<will, retained, inbox, secondary>>

ResumePrimary ==
    /\ primary = "stalled"
    /\ primary' = "online"
    /\ DeliverHeartbeat \/ UNCHANGED inbox
    /\ UNCHANGED <<will, retained, secondary>>

CrashPrimary ==
    /\ primary \in {"offline", "deaf"}
    /\ primary' = "down"
    /\ UNCHANGED <<will, retained, inbox, secondary>>

\* stop: an open session says so itself, and the clean disconnect cancels the will.
StopPrimary ==
    /\ primary = "online"
    /\ Len(inbox) < InboxCap
    /\ primary' = "down"
    /\ retained' = "offline"
    /\ Deliver(<<"offline">>)
    /\ UNCHANGED <<will, secondary>>

\* The broker notices a lost session (keepalive or a reset connection).
PublishWill ==
    /\ will
    /\ Len(inbox) < InboxCap
    /\ will' = FALSE
    /\ retained' = "offline"
    /\ Deliver(Owed)
    /\ UNCHANGED <<primary, secondary>>

-----------------------------------------------------------------------------
(* The secondary's own session                                             *)

\* What the broker sends on subscription: the retained status, if there is one.
Retained == IF retained = "none" THEN <<>> ELSE <<retained>>

\* A fresh GatewayHeartbeat; start connects, or never will.
StartSecondary ==
    /\ session = "down"
    /\ \/ session' = "online" /\ inbox' = Retained /\ grace' = 0
       \/ session' = "deaf" /\ grace' = Grace /\ UNCHANGED inbox
    /\ state' = "standby"
    /\ known' = FALSE /\ alive' = FALSE /\ silence' = 0
    /\ skipped' = FALSE /\ raced' = FALSE
    /\ UNCHANGED <<broker, threads>>

\* The process ends and takes its threads and its peers with it.
CrashSecondary ==
    /\ Running
    /\ session' = "down"
    /\ inbox' = <<>>
    /\ state' = "standby"
    /\ known' = FALSE /\ alive' = FALSE /\ silence' = 0
    /\ mqtt' = "idle" /\ down' = "none" /\ pending' = FALSE
    /\ skipped' = FALSE /\ raced' = FALSE
    /\ grace' = Grace
    /\ UNCHANGED broker

\* on_disconnect runs on the callback thread; the session was clean.
LoseSecondary ==
    /\ session \in Open /\ mqtt = "idle"
    /\ session' = "offline"
    /\ inbox' = <<>>
    /\ UNCHANGED <<broker, state, peer, grace, threads, skipped, raced>>

\* The network holds up what the broker sends: no callback, and no reconnection after it.
StallSecondary ==
    /\ session = "online"
    /\ session' = "stalled"
    /\ UNCHANGED <<broker, inbox, state, peer, grace, threads, skipped, raced>>

ResumeSecondary ==
    /\ session = "stalled"
    /\ session' = "online"
    /\ UNCHANGED <<broker, inbox, state, peer, grace, threads, skipped, raced>>

\* on_connect.  Heartbeats are not retained, the status is.
ReconnectSecondary ==
    /\ session = "offline"
    /\ session' = "online"
    /\ inbox' = Retained
    /\ grace' = 0
    /\ skipped' = FALSE
    /\ UNCHANGED <<broker, state, peer, threads, raced>>

-----------------------------------------------------------------------------
(* The secondary's callback thread                                         *)

Hears(m) == session = "online" /\ mqtt = "idle" /\ inbox # <<>> /\ Head(inbox) = m /\ inbox' = Tail(inbox)

\* _handle_peer_heartbeat: the part under _peers_lock.
HearHeartbeat ==
    /\ Hears("heartbeat")
    /\ known' = TRUE /\ alive' = TRUE /\ silence' = 0
    /\ mqtt' = IF alive THEN "idle" ELSE "recovering"
    /\ skipped' = FALSE
    /\ UNCHANGED <<broker, session, state, grace, down, pending, raced>>

\* _handle_peer_status acts on "offline" only.
HearOnline ==
    /\ Hears("online")
    /\ UNCHANGED <<broker, session, state, peer, grace, threads, skipped, raced>>

\* Its part under _peers_lock; a peer that never sent a heartbeat has no entry.
HearOffline ==
    /\ Hears("offline")
    /\ alive' = FALSE
    /\ mqtt' = "downing"
    /\ UNCHANGED <<broker, session, state, known, silence, grace, down, pending, skipped, raced>>

\* Faulty: demotes only if nobody is reporting the peer down.
RecoverUnlessPending ==
    /\ mqtt = "recovering"
    /\ mqtt' = "idle"
    /\ IF pending THEN UNCHANGED <<state, raced>> ELSE state' = "standby" /\ raced' = FALSE
    /\ UNCHANGED <<broker, session, inbox, peer, grace, down, pending, skipped>>

\* _handle_peer_recovered: demotes an active secondary.
Recover ==
    /\ mqtt = "recovering"
    /\ mqtt' = "idle"
    /\ state' = "standby"
    /\ raced' = FALSE
    /\ UNCHANGED <<broker, session, inbox, peer, grace, down, pending, skipped>>

\* _handle_peer_down promotes a standby secondary if it knows the peer as primary ...
PromoteIfKnown ==
    /\ state' = IF known THEN "active" ELSE state
    /\ raced' = (raced \/ (state = "standby" /\ known /\ alive))

\* ... on the callback thread ...
GoDown ==
    /\ mqtt = "downing"
    /\ mqtt' = "idle"
    /\ PromoteIfKnown
    /\ UNCHANGED <<broker, session, inbox, peer, grace, down, pending, skipped>>

\* ... and on the thread that _check_peers started, whatever was heard meanwhile.
Decide ==
    /\ down = "started"
    /\ down' = "decided"
    /\ PromoteIfKnown
    /\ UNCHANGED <<broker, session, inbox, peer, grace, mqtt, pending, skipped>>

\* Faulty: the guard against duplicate threads is never lifted.
EndDownPending ==
    /\ down = "decided"
    /\ down' = "none"
    /\ UNCHANGED <<broker, session, inbox, state, peer, grace, mqtt, pending, skipped, raced>>

\* _handle_peer_down_safe's finally.
EndDown ==
    /\ down = "decided"
    /\ down' = "none"
    /\ pending' = FALSE
    /\ UNCHANGED <<broker, session, inbox, state, peer, grace, mqtt, skipped, raced>>

-----------------------------------------------------------------------------
(* The check loop, and time                                                *)

\* Faulty: no grace after a reconnection.
CheckDueAlways == Running /\ alive /\ silence > Threshold

\* Faulty: the loop rests while the broker is out of reach.
CheckDueConnected == session \in Open /\ grace = Grace /\ alive /\ silence > Threshold

\* _check_peers finds an alive peer silent for longer than the timeout, out of grace.
CheckDue == Running /\ grace = Grace /\ alive /\ silence > Threshold

\* One thread per peer: a second declaration starts none.
CheckPeers ==
    /\ CheckDue
    /\ alive' = FALSE
    /\ pending' = TRUE
    /\ down' = IF pending THEN down ELSE "started"
    /\ UNCHANGED <<broker, session, inbox, state, known, silence, grace, mqtt, skipped, raced>>

Settled ==
    /\ session = "online" => inbox = <<>>
    /\ mqtt = "idle" /\ down = "none"
    /\ ~CheckDue

\* A heartbeat interval ends; a connected primary publishes.
Tick ==
    /\ Settled
    /\ silence' = IF Running /\ known /\ silence <= Threshold THEN silence + 1 ELSE silence
    /\ grace'   = IF Running /\ grace < Grace THEN grace + 1 ELSE grace
    /\ IF primary = "online" THEN DeliverHeartbeat ELSE UNCHANGED inbox
    /\ skipped' = (skipped \/ (Running /\ (primary # "online" \/ session = "stalled")))
    /\ UNCHANGED <<broker, session, state, known, alive, threads, raced>>

Network ==
    \/ StartPrimary \/ ReconnectPrimary \/ LosePrimary \/ StallPrimary \/ ResumePrimary
    \/ CrashPrimary \/ StopPrimary \/ PublishWill
    \/ StartSecondary \/ CrashSecondary \/ LoseSecondary \/ ReconnectSecondary
    \/ StallSecondary \/ ResumeSecondary

Callback   == HearHeartbeat \/ HearOnline \/ HearOffline \/ Recover \/ GoDown
DownThread == Decide \/ EndDown

Next == Network \/ Callback \/ DownThread \/ CheckPeers \/ Tick

Spec == Init /\ [][Next]_vars

\* Threads are scheduled and time passes; nobody has to start, connect or fail.
FairSpec ==
    /\ Spec
    /\ WF_vars(Callback) /\ WF_vars(DownThread) /\ WF_vars(CheckPeers) /\ WF_vars(Tick)

-----------------------------------------------------------------------------
(* Properties                                                              *)

\* No thread of the secondary is in the middle of a peer event.
AtRest == Running /\ mqtt = "idle" /\ down = "none"

\* A secondary that counts the primary as dead, and has nothing under way, has
\* taken over: the guard against duplicate peer-down threads never swallows a
\* failover, and neither does a heartbeat that crosses the declaration.
NoLostFailover == AtRest /\ known /\ ~alive => state = "active"

\* A secondary that counts the primary as alive, and has nothing under way, has
\* stood down, unless a peer-down thread came after the heartbeat that refuted it.
StandsDown == AtRest /\ alive /\ state = "active" => raced

\* As long as its own session is open, the check loop declares down only a primary
\* that let an interval pass without a heartbeat coming through, since the last one
\* heard and since the secondary's own reconnection: what an outage that is over has
\* missed, however long it was, forges no failure (_last_mqtt_connect's grace).
NoForgedDown ==
    [][(CheckPeers /\ session \in Open) => skipped]_vars

\* A primary that is gone for good is replaced by a secondary that has heard it
\* once and whose own session stays as it is, open, stalled or lost: heard of or
\* not, on the first failover or on a later one.
DeadPrimaryReplaced ==
    \A s \in {"online", "stalled", "offline"} :
        <>[](primary = "down" /\ known /\ session = s) => <>[](state = "active")

\* "When primary recovers (heartbeats resume), secondary demotes back to standby"
\* (gateway_heartbeat.py:33).
FailbackCompletes ==
    <>[](primary = "online" /\ session = "online") => <>[](state = "standby")

\* "no election -- prevents split-brain" (gateway_heartbeat.py:29): no outage makes
\* the check loop declare down a primary that publishes in every interval, the
\* secondary's own outage included.
NoDownByOwnOutage == [][CheckPeers => skipped]_vars
=============================================================================
