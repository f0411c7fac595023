# meshanchor: a TLA+ model of the gateway

meshanchor relays messages between Meshtastic radios, MeshCore radios and the
Reticulum network (RNS, with LXMF on top).  Its core is `src/src/gateway`: a
bridge service with one loop and many callbacks, a persistent queue in SQLite,
circuit breakers per destination, accounting of what became of every message,
and receipts back to who sent it.  The modules here model that core; TLC checks them
on small instances and TLAPS proves the main safety properties for every
instance.  Paths below are relative to the repository (`src/`); `gateway/x.py`
stands for `src/gateway/x.py` in it.

## 1. The system

| part | state it keeps | operations | hard behaviour |
|---|---|---|---|
| persistent queue (`gateway/message_queue*.py`) | one SQLite table of rows: status, retry_count, retry_after, created_at | `enqueue`, `process_once`, `mark_*`, `expire_overdue`, `cleanup_stale`, `_shed_overflow`, `retry_dead_letter`, `clear_all` | two threads process, several enqueue, every statement its own transaction, crashes and disk errors between them |
| mesh to RNS accounting (`gateway/_m2r_accounting.py`, `_rns_bridge_xform.py`, `bridge_send_mixin.py`) | origin id -> legs, drops, terminals | track, settle, advance, terminal hook, replay claim | the hook of a leg may run before the tracker has settled; a row can end twice |
| application-layer ACKs (`gateway/message_queue_ack_mixin.py`, `bridge_ack_mixin.py`) | ack columns of the queue rows | register, mark acked, find overdue, mark timeout | delivery callback, radio ACK and timeout sweep race for one synthetic ACK |
| circuit breaker (`gateway/circuit_breaker.py`) | state, counters and time of last failure, per destination | `can_execute`, `record_success`, `record_failure`, `reset`, registry eviction | the decision and the outcome are separate calls, from several threads, and outcomes come late or never |
| radio failover, load balancer (`gateway/radio_failover.py`) | failover state, health of two radios | poll, evaluate, restart | dormant: its HTTP client is not in the repository |
| ACK tracker (`gateway/ack_tracker.py`) | packets in flight with a time to live | register, resolve, expire | replies repeated, reordered, from the wrong radio, or before the registration |
| reconnection (`gateway/reconnect.py`, `_rns_bridge_connection.py`) | attempt counter, slow-start phase, connection state | backoff, connect, lose | reconnect against stop; a set-up that fails halfway, again and again |
| bridge service (`gateway/rns_bridge.py`, `bridge_health*.py`, `bridge_rns_events_mixin.py`) | running flag, threads, in-memory queues, health | start, stop, bridge loop, LXMF callbacks | threads that outlive stop, two loops that write one health entry, a second start |
| delivery counters (`gateway/delivery_counters.py`, `delivery_legs.py`) | counters, ring of transitions | record, persist, snapshot | populations that must not count one message twice |
| preset bridge (`gateway/mesh_bridge.py`) | two persistent queues | receive, bridge loop | loops between the two meshes |
| LXMF broadcast and re-emit (`gateway/lxmf_broadcast_bridge.py`, `meshtastic_reemit_bridge.py`) | subscribers, recent hashes | fan out, suppress echoes | a message that comes back |
| MeshCore handler (`gateway/meshcore_*.py`) | connection, outbound queue, DM acks | connect loop, send, ack timeout | the radio disappears in mid-send |
| MeshCore supervisor (`supervisor/`, `utils/meshcore_supervisor_client.py`, `gateway/meshcore_supervisor_handler.py`) | client sessions, one radio session and its lock; per client: pending calls, health record | IPC requests, events, attach, probe | a session lost under waiting commands, answers after the timeout, events that overtake the attachment, deaths on both sides |
| node tracker, node state (`gateway/node_tracker.py`, `node_state.py`) | nodes and their state machine | hear, expire, save, load | stale and revived nodes |
| heartbeat failover (`gateway/gateway_heartbeat.py`) | state, peers and their last heartbeat, peers being declared down | publish, receive, check | a heartbeat that crosses the declaration; outages of either session; stalled links |
| MQTT bridge and downlink (`gateway/mqtt_*.py`) | client session, dedup window | receive, inject | broker redelivery |
| transmit guard (`utils/tx_guard.py`) | grants and depth counters of open contexts, refusals | allow, assert | none: it keeps tests off the air and is inert in production |
| orchestrator, daemon (`core/orchestrator.py`, `daemon.py`) | service states | start, stop, restart | dependencies, restart storms |
| health state, probes (`utils/shared_health_state.py`, `active_health_probe.py`) | per-service health | probe, report | flapping |
| event bus, offline sync (`utils/event_bus.py`, `offline_sync.py`) | subscribers; queued telemetry | publish; replay | callbacks that fail; partial replay |
| rnsd restart order (`utils/rnsd_restart_order.py`, `rns_init.py`) | who owns the shared instance | stop, start | a client takes the instance over |
| fleet watchdog, rule engine, tactical messages | last seen, rule edges, chunk sets | tick, reassemble | silence, cooldowns, lost chunks |

The parts that only observe, format or wrap other programs (terminal user
interface, map and web services, traffic capture, radio-frequency mathematics,
installer) are listed in `PROJECT.json` as not modelled, with the reason.

What makes each correct:

- *persistent queue*: one worker per row; no payload sent twice unless its row
  was reopened; every row's end is reported once and truthfully; dead letters
  stay dead; every row ends.
- *accounting*: a message is attempted once and has one outcome, which happened;
  none is forgotten.
- *application-layer ACKs*: one receipt per request, saying what happened;
  every request is decided.
- *circuit breaker*: a failing destination is blocked but for one trial; a
  healed one is served again.
- *ACK tracker*: one verdict per packet, and a CONFIRMED only for what its
  destination has; an ACK that overtakes its registration is lost, and the message
  stays SENT.
- *reconnection, bridge service*: one router however often the set-up fails; the
  health entry settles on the truth; a bridge left running connects in the end; no
  thread survives stop; a second start serves like the first.
- *delivery counters*: confirmations never exceed what was sent in the same
  population, across restarts.
- *preset bridge, LXMF broadcast, re-emit*: no message is bridged back to where
  it came from; a subscriber that stopped answering is tried ever more rarely
  and comes back when it answers.
- *MeshCore handler and supervisor*: one owner of the radio; one command
  at a time and none on a closing session; every call ends with its own answer or
  an error; the health record shows the radio.
- *node tracker and state*: only legal transitions; stale nodes leave, returning
  ones come back.
- *heartbeat failover*: a declared failure ends in a takeover, the secondary's own
  outages declare none, it stands down when the primary is back, and a dead
  primary is replaced.
- *MQTT bridge, downlink*: a redelivered packet is injected once.
- *transmit guard*: nothing transmits under test without an open grant.
- *orchestrator, daemon*: nothing runs before what it depends on; restarts are
  limited; stop reaches everything.
- *probes, health state*: no flapping within the hysteresis.
- *event bus, offline sync*: a failing subscriber harms no other; what was
  queued offline is sent in order and once.
- *rnsd restart order*: the shared instance has its owner back before its clients.
- *watchdog, rules, tactical messages*: one alarm per silence; a cooldown
  silences; a chunk set is complete before it is a message.

How they interact: a radio callback puts a message into an in-memory queue of
the bridge; the bridge loop transforms it and enqueues one or more rows (legs)
in the persistent queue; a processing thread claims a row, asks the circuit
breaker, calls the transport and records the outcome; the row's terminal hook
advances the accounting; LXMF delivery callbacks and radio ACKs arrive later on
other threads.

## 2. Plan

The order is by how much of the gateway's correctness hangs on a part.

| step | modules | status |
|---|---|---|
| 1 | `QueueContract`, `MessageQueue`: what the queue promises and how it keeps it | done, proved |
| 2 | `CircuitBreaker`: who may send | done, proved |
| 3 | `M2RAccounting` over `QueueContract`: what became of a message | done, proved |
| 4 | `AckSynthesis` over `QueueContract`: what its origin is told | done, proved |
| 5 | `GatewayHeartbeat`: which gateway of a pair is active | done, proved |
| 6 | `MeshCoreSupervisor`: one radio for several processes | done, proved |
| 7 | `BridgeLifecycle`: start, connect, reconnect, stop | done, proved |
| 8 | `AckTracker`: what a radio's acknowledgement proves | done, proved |
| 9 | `MeshCoreHandler` (connection loop, DM acks), `NodeState`, `Orchestrator`, `OfflineSync` | later |
| 10 | pure functions: retry and reconnect backoff, slow start, ingress policy, tactical chunking | later |

Abstract specifications worth stating: the queue's contract (stated), and
that the queue implements it (proved).  Every safety property that a passing run checks
is stated by a theorem; what remains with TLC is liveness.

Instances stay small: two threads of each kind that races, one or two rows,
one crash and one failed statement.  Each section below names its bounds.

*Not modelled, and why*, in general: content, wording and routing tables of
messages (data, not control); statistics and logs that no decision reads; real
time (deadlines are flags, and the steps that wait for them are enabled at any
moment after); sockets and radios themselves (their outcomes are nondeterministic
choices).  Radio failover and load balancing (`gateway/radio_failover.py`) are
dormant: `utils/meshtastic_http.py`, through which they poll the radios, is not
in the repository, so `_HAS_HTTP` is false and both refuse to start.

## 3. Conventions

One action per statement, handler or critical section, named after the function
where there is one.  `UNCHANGED` uses named groups of variables.  A history
variable is read by properties only.  Operators preceded by the comment
"Faulty:" are plausible bugs of the definition that follows; no specification
uses them, they exist to confirm that the properties notice.  `MC*.tla` declare
model values and symmetry sets; each `.cfg` begins with what it is for.  A run of
kind *violation* checks one sentence that the code's own documentation states
and the code does not keep; `PROJECT.json` quotes it under `findings`.  The other
findings name the `.cfg` that reproduces them and are not runs.  Deadlock
is off where the system may rest.

To check: `tlc -config MCQueue_workers.cfg MCQueue` and so on; to prove:
`tlapm MessageQueueProofs.tla` and so on.

## 4. The modules

### MessageQueue: the persistent queue

`MessageQueue.tla` models one table, the threads that call `enqueue`
(`Writers`) and the threads that call `process_once` (`Workers`).  In the
bridge there are two of the latter: the queue's own background loop
(`start_processing`, started by the bridge) and the bridge loop, which calls
`_drain_persistent_queue`.  The queues of `mesh_bridge.py` have one.

*Steps.*  Each SQL statement is one step.  Python's `sqlite3` opens a
transaction at the first INSERT, UPDATE or DELETE, so a SELECT and the
statement that uses its result are two steps even inside one `with
self._get_connection()`; that is where `MarkFailedRead`/`MarkFailedWrite`,
`CheckDuplicate` .. `Insert` and `ShedSelect`/`ShedDelete` come from.
`process_once` is `ExpireOverdue`, `Fetch` (gate and `get_pending`), then per
row `PaceBreak` or `MarkInProgress`, the call of `send_fn`, and one of `MarkDelivered`,
`DeliveredUnrecorded`, `MarkFailedRead`;`MarkFailedWrite`, `MarkDeferred`,
`MarkRefused`, `RecordingError`.  A terminal hook runs after the statement's
commit; the model runs it in the same step.  Only a crash could come between
the two, and the hooks' own state (the accounting of section M2R) is in memory
and dies with the process.

*What a send says and what it did.*  The payload leaves in `Transmit`, and
`send_fn` answers in `Send`.  A send can fail after `Transmit`: the radio-less
gateway's sender sends every chunk and answers `all(results)`
(`bridge_send_mixin.py:156-166`), and a PUT whose answer is lost has delivered
its packet (`meshtastic_protobuf_client.py:250-253`); and the process can die
between the two.  The senders that defer or refuse do so before they hand
anything over (`bridge_send_mixin.py:448`, `:471`, `meshcore_outbound_mixin.py:507`).
`wire` counts the calls that transmitted, `acked` holds the rows a call reported
sent.  The queue knows only the answer, so a payload that went out under a failed
call goes out again and may in the end be reported dropped: `NoResendAfterSuccess`
and `DropHonest` are claims about rows *reported sent*, and `ResendWithinBudget`
bounds what is on the air whatever was reported.

*Time.*  Row ids are in `created_at` order (ids are minted in order).  `due`
says that `retry_after` has passed, `recent` that the row is inside the 60 s
dedup window.  Staleness (`STALE_TIMEOUT`), purge age and `max_age_s` are all
longer than the dedup window, so the steps that ask about them choose among the
rows that are not `recent`.  This allows more timings than reality: a send may
outlive any number of stale resets.

*Environment.*  `Outcomes` are the ways a sender can end; `ready` is `ready_fn`
(RNS connected); `DbErrors` lets any bookkeeping write raise; `Crash` loses
everything but the table.

Checked by two runs, and two further instances that show a violation:

| run | instance | what it shows |
|---|---|---|
| `queue_workers` | 1 row, 2 workers, 1 writer, RetryPolicy with its own limit, crashes, db errors, revivals, a clear | the claim is the only arbiter needed, a row reported sent is not sent again unless reopened, the two ways of counting attempts never leave an active row without budget; and the queue implements `QueueContract`, hence runs the hook once and keeps dead letters dead (`HookOnce` and `DeadStaysDead`, proved) |
| `queue_single` | one caller of each kind, 2 rows, limit 1, fair, gate, pacing and deferrals | every exit fires the hook and what was reported sent is not reported dropped (proved for any number of workers); depth limit, backoff and bound on re-sends hold with one caller (proved under just that hypothesis); shedding is witnessed even when it races with the claim; every row ends, by age, behind a gate that stays shut |
| `MCQueue_late_delivery.cfg`, `MCQueue_stuck.cfg` (not listed as runs) | smallest instances | two sentences of the code's comments that the code does not keep (see findings) |

*Contract.*  `QueueContract.tla` is the abstract specification: the life of a
row (none, waiting, taken, done, dead, gone) and the report each step makes to
the terminal hook.  It is what `on_terminal`'s users can rely on, and what
`M2RAccounting` and `AckSynthesis` are composed with.  `ImplementsContract` maps
`status` to `state` and `fired` to `hooks`; the run `queue_workers` checks it
and `QueueImplementsContract` (in `MessageQueueProofs`) proves it.

Some sentences hold only with one caller of a kind; they are checked in
`queue_single` and proved from that hypothesis: with two enqueues in flight the depth limit ("Maximum active
messages") and the dedup window can be exceeded, because check and insert are
separate transactions; with two `process_once` callers a row that
one of them failed or deferred can be claimed by the other, from a batch fetched
earlier, inside its backoff.  And `_shed_overflow`, which "only sheds PENDING
messages", deletes a row that was claimed between its SELECT and its DELETE;
`HookOnce` and `DropHonest` except exactly those rows (`raced`).

*Bounds.*  One row is enough for what concerns a row and the threads that hold
it: rows interact only through the depth limit, the dedup window and the order
of a batch, and `queue_single` has two rows.  `MaxRetries` and
`MaxTries` are 2 and 3, so that one retry and both exhaustions happen; every bound is a constant of the
module.

*Fairness.*  Both loops keep calling `process_once` and every call returns
(the transports have timeouts), so `WF(WorkerStep)`; an `enqueue` under way
finishes; time passes.  Nobody is forced to enqueue, which is why
`StuckRowRecovered` fails: `cleanup_stale` has no other caller.  Expiry runs
only every 60 s and finds only pending rows, hence `SF` for it: a row that is
pending again and again is eventually pending when expiry runs.

*Not claimed.*  That a payload goes out once, or that "dropped" means not
transmitted: see above.  `ResendWithinBudget` holds with one caller only.  With two,
a stale reset between another worker's `mark_failed` SELECT and UPDATE loses one
increment and the bound can be exceeded; that needs a gap of `STALE_TIMEOUT`
between two adjacent statements, which the abstract clock permits and the
program practically does not.

*Not modelled.*  `note_clock` (shifting all rows after a wall-clock step), the
lifecycle log, the refusals that write no row (no sender, validator), starting
and stopping the process thread, and delivery counters.

### CircuitBreaker: who may send to a failing destination

`CircuitBreaker.tla` models the registry (`reg`, from destination to circuit
object), the circuit objects (`circ`) and the threads that use them (`pc`,
`dest`, `held`, `ok`).  A caller goes idle -> `Ask` (look the circuit up under
the registry's lock) -> `CanExecute` (decide under the circuit's lock) ->
calling -> `EndCall` (the outcome is known, the recorder looks the circuit up
again) -> `RecordSuccess` or `RecordFailure`.  `Abandon` is a caller that
returns without recording; `MayAbandon` switches it, because whether the
breaker's users may do that is what two of the instances are about.

*What is abstracted.*  `time.monotonic() - _last_failure_time >=
recovery_timeout` is the flag `elapsed`.  `_failure_count` is only compared with
the threshold, so it saturates there.  Which closed circuit is the oldest is
left open.  `reset_all` is a sequence of `Reset` steps: it holds the registry's
lock, but threads that hold a circuit already can come in between its resets.
Circuits a thread still holds after their eviction exist until it lets go of
them, which is why objects and table entries are distinct.

*History variables.*  `trials` (who was admitted in this half-open episode) and
`losses` (failures reported since the last reported success) are read by no
action.

| run | instance | what it shows |
|---|---|---|
| `breaker_registry` | 2 callers, 2 destinations, table of 1, threshold 1, callers may abandon | one half-open episode admits one caller, through evictions of circuits in use |
| `breaker_recovers` | 3 callers, 1 destination, threshold 2, fair, nobody abandons | a destination that failed often enough is blocked or on trial; a half-open circuit has its trial under way; the circuit of a destination that stays healthy closes for good |
| `MCBreaker_abandoned.cfg` (not listed as a run) | 2 callers, fair, may abandon | one abandoned trial blocks the destination forever |

Two sentences of the code hold only in a weaker form.  "Test calls in half-open
state (default: 1)" holds per half-open episode, not per moment: the late
failure of an older call reopens the circuit while its trial is in flight, and
the next recovery window admits a second trial.  And MAX_CIRCUITS bounds the
table only while some circuit in it is closed: `_get_or_create` inserts whether
or not `_evict_oldest_closed` found something to evict.

*Fairness.*  Somebody keeps sending to some destination, calls return (every
transport has a timeout) and time passes.  That the destination stays up is the
premise of `Recovers`, not an assumption.

*Bounds.*  Three callers are a trial, an old call with a late outcome and one
that asks meanwhile; threshold 2 distinguishes counting from opening on every
failure; two destinations for a table of one make every lookup an eviction.  A
failure reported to an evicted circuit is lost, so `FailingIsBlocked` is only
claimed where the table has room.


### M2RAccounting: what became of a message from the mesh

`M2RAccounting.tla` models `_process_mesh_to_rns` and the accounting it keeps:
every message counted attempted once, and delivered or dropped once.  The hard
part is that the outcome may come minutes later, from a row of the persistent
queue, through a hook that runs on another thread; `_m2r_pending` remembers
meanwhile how many legs a message (an *origin*) still waits for.

*Correspondence.*  `rows` and `info` are the queue's rows and what they carry:
one leg (destination `rns`) or the whole message for a replay (`rns_xform`).
`minted`, `tracked`, `entry` are the map of pending origins, `att`, `dlv`, `drp`
the three counters, kept per message so that a sum cannot hide two errors.  A
thread (`pc`, `job`) goes

    Attempt -> Refuse | Resolve -> SendDestination* ->
        DeliveredNow | BroadcastLost | RetryFailedLeg* DeliveredNow |
        TrackLegs -> Enqueue* -> Settle          (Raise from any of the first)

and a replay enters the same path at `Replay`, from `process_once`.  Which
exception handler applies, and what it counts, is `Raise`.

*Composition.*  The queue is present as `QueueContract`: `RowStep` takes any
step the contract allows and applies the hook (`Hear`) in the same step.  The
worker that holds a row ends it with `MarkDelivered`, `MarkUnsent` or
`Unrecorded` (the write that records the outcome raises); `Lapse`, `Stale` and
`SteppedOn` are what other threads do to rows.  That a real queue makes no
other steps is `QueueImplementsContract`.

*History variables* (read by properties only): `wire`, the messages this
process transmitted; `evicted`, those whose entry the cap pushed out; `blurred`,
those with a row that was left in progress, or stepped on, behind its sender.

| run | instance | what it shows |
|---|---|---|
| `m2r_outcomes` | 1 message of any kind, 2 threads, 2 destinations, 3 rows, a crash, a failed write, a late step | the counting is right whatever the order of requeue, hooks, replays, expiry and shedding: attempted once, at most one outcome, never forgotten, never an outcome that did not happen |
| `m2r_pending` | 2 messages, a map for 1, fair | with eviction: who is not evicted is attempted once, and eventually counted |
| `MCM2R_evicted.cfg` (not listed as a run) | 2 messages, a map for 1 | the path on which an evicted message is attempted twice (see findings) |
| `MCM2R_unrecorded.cfg` (not listed as a run) | as `m2r_outcomes`, one failed write | one path on which a message is attempted twice (see findings) |

*Bounds.*  Two destinations make a fan-out with different fates per leg; three
rows are two legs and a replay; two threads are the bridge loop, which also
drains the queue, and the queue's own loop.  `Lapse` gets strong fairness for
the reason given at the queue's expiry.

*Except.*  `AttemptedOnce` and `HonestOutcome` leave out `blurred` messages:
a row left in progress, or put back under its sender, is sent or replayed again.
`AttemptedOnce` leaves out `evicted` ones too: `_m2r_claim_replay` takes a replay
whose origin is no longer in the map for a first attempt.  `EventuallyCounted`
leaves out the evicted ones and rows left in progress with nobody to find them
(`MCQueue_stuck.cfg` shows that case at the queue itself).

All the safety properties are proved for every number of messages, rows,
destinations and threads (section 5).

### AckSynthesis: one receipt for every message that asked for one

`AckSynthesis.tla` models issue 66: a message may ask that its origin be told
`[delivered]`, `[failed]` or `[timeout]`.  The state is a column of the queue's
table (`ack`: none, pending, acked or timeout; `due`: `ack_timeout_at` has
passed) and whoever moves a record out of `pending` owes the origin one receipt
(`owed`) and sends it later, without a lock (`Emit`).

*Who competes.*  The callbacks of every copy handed to LXMF (`Callback`): a
queued row has several copies when it is sent again, a broadcast has one per
subscriber; and the sweep of the bridge loop (`SweepFind`, then row by row
`SweepMark`, each emission before the next mark).  `mark_acked` and
`mark_timeout` are single UPDATEs and one step each; either may raise.

*Two origins of records.*  `enqueue_message` commits the row first (`Enqueue`)
and registers the record second (`Register`); a broadcast registers an orphan
row first (`RegisterOrphan`) and fans out second (`HandOver`).  Rows move by
`QueueContract` (`RowMoves`, `Clear`); the queue's worker hands over a copy
while the row is taken, unless the row is for a radio, which never calls back.

*History variables*: `issued` (receipts ever owed), `heard` (callbacks that
ran), `missed` (broadcasts with a callback that could not record its verdict).

| run | instance | what it shows |
|---|---|---|
| `ack_receipts` | 1 queued message, 1 broadcast, any number of copies of each, a crash, a statement that raises or a receipt that is not sent, fair | one receipt per decided record, an honest one; a proof that came first beats the timeout of a broadcast; every record is decided |
| `MCAck_lost.cfg` (not listed as a run) | 1 queued message, a crash, fair | the sweep finalises the record before it sends the receipt, which can therefore be lost for good (see findings) |

*ProofBeatsTimeout is claimed of broadcasts only.*  For `enqueue_message` it
fails: the row may be sent and proved before its record exists, the proof finds
nothing to decide, and the sweep later reports a timeout.  Nothing in the
repository calls `enqueue_message` with `ack_required`, so this is listed as a
hazard and not as a finding.

*Fairness.*  The bridge loop sweeps every 30 s and never stops, emissions
return, time passes.  Nobody has to call back: `EveryRecordEnds` needs the
sweep alone.

*Bounds.*  Messages do not interact except in the sweep's list, so one of each
kind suffices.  `MaxCopies` bounds the copies whose callback is to come, not
those ever handed over: a broadcast goes on to its next subscriber, and a row
that was put back is sent again, so callbacks that disagree occur with one
copy in flight at a time.

*Not modelled.*  Whom a receipt is routed to and its wording: an absent handler,
a failing send and the deliberate suppression of receipts to `channel:` origins
all appear as a receipt that is not sent.  Nor are two broadcasts whose
millisecond ids collide, or a callback for a copy left with a propagation node.

### GatewayHeartbeat: who is active, primary or secondary

`GatewayHeartbeat.tla` models a pair of gateways that share an MQTT broker.  Roles
are configured, so only the secondary decides anything: `state` is its `_state`,
`known`, `alive`, `silence` the primary's entry in `_peers`.  Three kinds of
threads of the secondary race: paho's callback thread (`mqtt`: a heartbeat or an
"offline" is taken under `_peers_lock`, and `_handle_peer_recovered` or
`_handle_peer_down` runs afterwards, in a step of its own), the check loop
(`CheckPeers`), and the thread it starts (`down`: `Decide`, then `EndDown` takes
the peer out of `_pending_peer_down`).

*Environment.*  Either process may crash or stop and start again, with a connect
that raises (`deaf`: `start` logs it, skips `loop_start` and never tries again);
either session may be lost and regained, or stall.  The broker keeps the retained
status, delivers in order to an open session, and owes a lost session's will
(`will`), which is published when the broker notices or when the client takes its
old session over.

*Time* counts in heartbeat intervals: a `Tick` ends one, and within it the threads
finish what they began.  `silence > Threshold` is `elapsed > timeout`, `grace` the
two intervals after a (re)connection in which `_check_peers` returns early.
A stalled link is what lies between the two timeouts: the broker keeps a silent
session for 90 s (1.5 times the keepalive), the secondary a silent peer for 60.

| run | instance | what it shows |
|---|---|---|
| `heartbeat_pair` | threshold 2, no bound on crashes, outages and stalls | a declared failure always ends in a takeover (`NoLostFailover`: the guard against duplicate threads swallows none); the secondary stands down unless the race below happened (`StandsDown`); as long as its session is open, only a primary that let an interval pass is declared down: an outage of its own that is over forges no failure (`NoForgedDown`); a primary that is gone is replaced (`DeadPrimaryReplaced`) |
| `MCHeartbeat_failback.cfg` (not listed as a run) | the same, inbox of 1 | "when primary recovers, secondary demotes back to standby" fails: the heartbeat comes between the declaration and the thread that promotes; from then on both are active (see findings) |
| `MCHeartbeat_outage.cfg` (not listed as a run) | the same | "no election: prevents split-brain" fails: `_check_peers` goes on while the secondary's own session is lost and declares a healthy primary down (see findings) |

*Fairness.*  Threads run, the check loop keeps checking and time passes.  Nobody
has to start, connect, fail or recover; that the secondary's session stays as it
is, open, stalled or lost, is the premise of `DeadPrimaryReplaced`.

*Bounds.*  Two intervals of threshold and two of grace make a declaration within,
at and after the grace.  `InboxCap` only stops the primary from coming and going
while that many messages are under way; heartbeats that arrive together count as
one.

*What the properties do not say.*  `NoForgedDown` says nothing of a secondary whose
session is lost: it cannot tell its own outage from the primary's, and takes over in
both cases.  For a dead primary that is what `DeadPrimaryReplaced` asks (`offline` is
one of its cases); for a healthy one it makes two active gateways until the session
is back.  A secondary that starts while the primary is
dead never learns of it: roles travel in heartbeats only, so it stays in standby
(`known` in the premise).  Nothing in the repository asks `is_active` before it
transmits, so two active gateways are two that call themselves so.

*Not modelled.*  The primary's tracking of the secondary (it changes nothing but
its event list), callbacks (`rns_bridge` passes none), events, alerts and the
health score in the payload.  The check loop's own interval is that of the
heartbeats; their phase is left open.

### MeshCoreSupervisor: one radio, several processes

`MeshCoreSupervisor.tla` composes three programs: the supervisor that owns the
radio, the client library, and the gateway's handler on top of it.

*The supervisor* is one asyncio loop, so a step is what lies between two awaits.
The radio loop (`loop`) connects (`OpenRadio`, `Register`), probes (`Probe`,
`ProbeOk`, `ProbeFail`) and tears down (`Unregister`); each connection has a task
(`ReadRequest`, `Acquire`, `Air`, `EndSend`).  `_disconnect_radio` and
`_connect_and_register` do not take `_meshcore_lock`, although its comment says it
serialises "client ops + reconnect".  After a lost session, what keeps a command
off a session that is being closed is that nothing awaits between the release of
the lock and `_meshcore = None`, and that `_call_command` and `_send_message` read
`_meshcore` again under the lock.  A clean stop (`Stop`, `HangUp`, `PullRadio`,
`Exit`) cancels the radio loop, hangs up on every client and then pulls the session
while a command may be running on it; that command's client has been told by then.
`CommandsTakeTurns` is about both.  A reconnect uses the session itself
(`start_auto_message_fetching`, `loop = "fetching"`) while clients may already take
the lock: `ReconnectSerialised`, which is what the comment says, does not hold (see
findings).

*The client*: `Call` is `send_text` down to the socket, `ReadReply`, `ReadEvent`
and `EndReader` are the reader thread, `TimeOut` is the 10 s of `call`.  A call
that has timed out is still in the supervisor's hands, may be transmitted later
and is answered to nobody: `send_text` returning False does not mean that nothing
went on air, and a caller that retries sends twice.  `HonestSent` is the
direction that does hold.

*The handler*: `run_loop` attaches (`Connect`, `ReadHello`, `WireEvents`,
`RecordHello`) and reattaches (`NoticeGone`).  The reader thread runs from
`ReadHello` on, before `on_event` has registered anything, and the health record is
written from the hello last: an event that comes in between is lost or overwritten.

*History variables*: `aired`, the calls whose text went on air; `missed`, set when
an event came in between.

| run | instance | what it shows |
|---|---|---|
| `supervisor_shared` | a gateway with 2 calls and a tool; two of: the session is lost, the supervisor is stopped or killed, the gateway is killed; fair | commands and probe take turns on a session that lives, and a stop cuts off only commands nobody waits for (`CommandsTakeTurns`), success means this call's success (`HonestSent`), the health record is right once everything has arrived (`HealthHonest`), and every call ends without its timeout (`CallsEnd`) |
| `MCSupervisor_unlocked.cfg` (not listed as a run) | a gateway and a tool | a command runs while the reconnect starts the fetching on the same session (see findings) |
| `MCSupervisor_health.cfg` (not listed as a run) | a gateway, one lost session | a gateway that attaches while the radio connects may record it as disconnected for as long as it stays connected (see findings) |

*Fairness.*  Tasks and threads run, commands end (each has a timeout of its own)
and the lock is handed on (asyncio's lock is first come, first served; `SF` for
`Acquire`).  No radio has to answer and `TimeOut` is not fair.

*Bounds.*  A tool is a client of which only the commands exist: it is there to
hold the lock.  Faults are kept to two of the three kinds in one behaviour
(`MaxFaults`), so that the liveness check stays short.  Two calls are one that timed out and its successor.  Socket
buffers never fill: `_broadcast_event` holds `_clients_lock` while it drains, so
one client that stops reading would hold up all events, new clients and the
radio loop; that is listed as a hazard.

*Not modelled.*  Other events than `connection_state` (they are relayed in the
same way and lost in the same window), what meshcore_py's automatic fetching does
later on its own, a `create_serial` that fails halfway, the client's
`close` against a running `call`, and the persistent queue's path
(`queue_send` refuses every row, as its comment says).  When the supervisor dies
the health record keeps its last value until the next attach; `HealthHonest`
says nothing of that time.

### BridgeLifecycle: start, connect, reconnect, stop

`BridgeLifecycle.tla` models what `RNSMeshtasticBridge` does with its threads and
its RNS connection.  A `start()` begins a life of four threads: `_rns_loop`
(`rns`: a place in the connection's set-up), `_bridge_loop` (`bridge`: what it read
and is about to write into the health table), the handler's `run_loop` and the
queue's `process_loop`.  They share plain attributes and no lock: `running`,
`link` (`_connected_rns`), `permanent`, `router`, `source`.  `destination` is RNS's
own: Transport keeps the gateway's delivery destination once it was registered.

*The connection.*  `RnsTop` is the head of the loop, `Open`, `BuildRouter`,
`RegisterSource`, `Announce` and `Ready` are `_connect_rns` and `_setup_lxmf` cut
wherever RNS may raise or `stop()` may come in between; `Verdict`, `MarkHealthy` and
`StartPlugins` follow.  `Fail` is what `_connect_rns` catches itself, `LoopError`
what reaches the loop's own handler.  `RegisterSource` may raise before or after
Transport has taken the destination; after it, there is no identity to use again and
every retry raises "already registered", as the code's own comment says.  Nothing but `stop()` or that handler clears
the link again: an rnsd that goes away under a connected bridge is not noticed,
so this is not a step of the model.

*Stopping.*  `Stop` clears `running` and sets both events; `StopPlugin`,
`DropSession`, `DropLink` and `Join` follow in the order of the code.  A join waits
five seconds and returns, so any thread may outlive it.

| run | instance | what it shows |
|---|---|---|
| `bridge_life` | one start, 2 attempts before the counter starts anew, fair | until the stop, one LXMRouter of the gateway's own however many attempts fail, and a link that has one (`OneUsableRouter`); the health entry two loops write settles on the truth (`GateFollowsLink`); a bridge left running on an RNS that works serves in the end, unless a registration that raised has wedged it (`RunningServes`); the four loops of a stopped bridge end (`StopEnds`) |
| `bridge_restart` | two starts | "Restart the gateway bridge." fails: a queue worker that outlives its join keeps the second life from having one of its own, and the handler's loop of the second life finds the stop event of the first still set (see findings) |
| `MCBridge_wedge.cfg` (not listed as a run) | one start | a registration that raises after Transport took the destination keeps the bridge from ever connecting (`SetupCanBeRetried`, see findings) |
| `MCBridge_stop.cfg` (not listed as a run) | one start | the plug-in may be started after `stop()` has returned (see findings) |

*Fairness.*  Threads take their steps and a `stop()` that began goes on.  Nobody has
to start or stop the bridge; that RNS works in the end is the premise of
`RunningServes`.

*Bounds.*  Two attempts are one that leaves more and one that exhausts them; routers
are counted up to three.  With a second life `OneUsableRouter` says nothing: `stop()`
drops the router and a second one is built, as the code intends.  Nor does it say
anything of the moments after `stop()`, when a set-up that outlived the join goes on
with a router that is gone, or of the broadcast plug-in's own router.  `StopEnds`
speaks of the four loops; the plug-in's announce thread may survive them
(`PluginStopped`).

*Not modelled.*  The MeshCore and Meshtastic connections, what the loops do for
messages, the waits' lengths (`reconnect.py`'s delays only say when a step that is
enabled is taken), and a broadcast bridge that cannot start and is tried again
only at the next reconnection.  Whether Transport still has the destination after
`_disconnect_rns` is left open: it may or may not.

### AckTracker: what a radio's acknowledgement proves

`AckTracker.tla` models direct messages to Meshtastic nodes: the senders
(`_send_via_http_protobuf`, called directly or as the queue's sender), the tracker
of packets in flight, and the MQTT thread that hears every routing packet the radio
hears.  A message has a place (`stage`), each PUT that the radio took a packet
(`carries`), and a row of the queue that is tried again goes out as another packet
with the same message id.

*Steps.*  `Post`, `RecordSent`, `Arm`, `Finish` are the sender's, one per critical
section: the reply may be heard between any two.  `PostUnanswered` is a PUT whose
answer is lost, `PostPlain` a send through the fallbacks; neither is armed.
`Register` inserts, lets go of what is past its TTL and then of the oldest beyond
the cap.  `Resolve` is `pending_count` with its expiry and `resolve_leg`;
`RecordVerdict` follows outside the lock.  `aged` counts the oldest entries past
the TTL, in place of the clock.

*The air.*  An `ack` comes from the destination and therefore only for a packet
that reached it; `implicit` acks of the gateway's own radio and naks may be heard
at any time.  Every reply may be heard again, later, out of order, or never.

| run | instance | what it shows |
|---|---|---|
| `tracker_verdicts` | 2 messages of the queue, 1 direct, 3 packets, a tracker for 2, crashes | CONFIRMED means that the destination has the packet; one verdict per packet; a direct message's verdict finds its SENT; no entry is spent by anything but an ack of the destination, a nak, the TTL, the cap or a crash |
| `MCTracker_final.cfg` (not listed as a run) | 1 message of the queue, 2 packets | a message may be recorded both CONFIRMED and DROPPED (see findings) |

*Not lost, but not counted.*  A reply that overtakes its registration finds nothing,
and the message stays SENT for good; so does one whose entry was let go.  The code
prefers this to a false CONFIRMED.

*Bounds.*  Three packets for a tracker of two make the cap bite; two packets of one
message need one more attempt; the third message is the direct one.  No liveness is
claimed: no reply has to come.

*Not modelled.*  The delivery counters behind `record()`, decryption of the
envelope, and replies whose packet id the gateway never minted, which find nothing.
TCP mode has no tracker at all (see findings).

## 5. What is proved

### MessageQueueProofs

For every number of rows, workers and writers, every content set and any
combination of the switches, from `QueueAssumption` alone (no set need be finite):
`QueueTypeCorrect`, `QueueOneWorkerPerRow`, `QueueNoResend`, `QueueHookOnce`,
`QueueEveryExitFires`, `QueueDropHonest`, `QueueActiveHasBudget` and
`QueueDeadStaysDead`.

The invariants are not inductive as they stand.  `IInv` adds, for every row:
`BudgetAt` (a worker between `mark_failed`'s SELECT and UPDATE has read a count
below the budget, so what it writes back respects it), `WitnessAt` (a row in a
terminal state has fired, an active row that was not reopened has not),
`ClaimAt` (an `in_progress` row that was not reopened has at most one holder,
only rows that left `pending` have one, and a row reported sent has one only
until that is recorded) and `ExitAt` (how many hooks and which reports go with
each place a worker can be).  Each of Next's actions
preserves the four parts, one lemma per group of actions; the theorems follow.

`QueueImplementsContract`: `Spec => ImplementsContract`, the refinement above.
`Allowed(i)` lists, in the terms of
the table, what one step may do to a row and its hook; `AllowedStep` shows that
every action keeps within it for every row, on top of the queue's type
invariant and of `Born` (a row in a worker's hands or selected for shedding has
been inserted); `AllowedMaps` takes each of its cases to a step of the contract.
`ClearAll`, which touches all rows and calls no hook, is mapped by itself.

Three bounds hold with one caller of a kind, and their theorems say so in an
`ASSUME`, each with no more than it needs.  Without them the sentences are false,
see section 4; `MCQueue_single.cfg` is an instance that satisfies all three.

- `QueueBackoffHonoured` (`OneWorker`): the rest of a batch is always due, since
  the only thread that could set a backoff has the row in hand, and out of its
  batch (`BatchDue`).
- `QueueResendWithinBudget` (`OneWorker`, `NoRevival`): `Spent` counts the
  transmission under way with those made; the attempts counted keep up with it
  (`SpentAt`), because what was not counted by `mark_failed` is counted by
  `cleanup_stale`, a deferral, which counts nothing, has transmitted nothing, and
  the count that `mark_failed` read (`seen`) plus one covers the transmissions made
  by then, stale as it may be when it is written back.
- `QueueDepthBounded` (`OneWriter`, `NoRevival`; any number of workers): a writer
  that is about to insert has room, and one that is about to delete selected a
  row that still counts or found room made meanwhile (`Room`).  Only `Insert` and
  `retry_dead_letter` add to the active rows (`InPlayStep`).

### CircuitBreakerProofs

For every number of callers, destinations and circuit objects, every threshold
and table size, from `BreakerAssumption` alone: `BreakerTypeCorrect` and
`BreakerOneTrial`; with nobody abandoning, `BreakerHalfOpenHasTrial`; with a
table for all destinations, `BreakerFailingIsBlocked`.

The first lemmas say what each operation makes of one circuit: all of them
preserve `Sane` (a closed circuit is below the threshold, the trials are those
of the slot).  `IInv` adds what ties the table to the threads: no circuit is
registered twice, and a circuit in a caller's hands is registered, if at all,
for the destination the caller sends to (`HeldMatches`), so that an outcome
recorded for one destination cannot end another's trial.  `Settles` is the
common part of the two outcomes.  For the last theorem `CInv` adds that nothing
is ever evicted, hence that the circuit a caller holds is the registered one
(`Kept`), and that a closed circuit has counted every failure reported
(`Counted`).

`Recovers` is a liveness property and is only model-checked.

### M2RAccountingProofs

For any messages, any number of rows, destinations, origins and threads (finitely
many), any bounds and any interleaving of the bridge, the senders and the steps
other threads take on the table, from `M2RAssumption` alone: `M2RTypeCorrect`,
`NoOutcomeWithoutAttempt`, `NothingIsForgotten`, `CountedAtMostOnce` and
`OutcomeIsHonest`.  The rows make the steps of `QueueContract` and no others, which
`QueueImplementsContract` justifies.

The actions are first reduced to what the invariants read (`Works`, `Reduced`):
thirteen forms, of which `Shifts`, what a step of a row does to the accounting
through the hook, occurs in two.  Two inductive invariants follow.

- `Sums` contains a conservation law (`Conserved`): for every message, delivered
  plus dropped plus the threads that still bear an outcome plus the entries that
  still owe one equals the attempts, and is at most the attempts if an entry of
  the message was evicted.  That a step keeps the sum needs to be known of the
  parts: a thread queues the rows of an origin alone and has counted them
  (`QueueingInv`); the rows of an origin are of one message and one kind, and a
  message has one whole-message row (`RowInv`, `WholeInv`); an entry expects more
  reports than it heard and has heard the end of every row that ended
  (`EntryInv`), so that it cannot vanish undecided; and a replay has claimed its
  origin, which nobody tracks again (`ReplayInv`).  `NoOutcomeWithoutAttempt` and
  `NothingIsForgotten` read the sum from its two sides.
- `Clears` speaks of the messages none of whose rows was left in progress or
  stepped on behind its sender.  Then a row in hand is held by one thread
  (`HoldOf`), and the message is in one place: a whole-message row that no replay
  has taken up (`FreshOf`), the thread that routes, sends or queues it (`HandOf`),
  its leg rows, all of one origin (`LegOf`), or an entry that heard each end
  exactly once (`PendOf`).  Whence `CountedAtMostOnce` (`OnceOf`) and
  `OutcomeIsHonest` (`HonestOf`).

The module writes an update of two fields of one entry as two nested updates:
this is what tlapm 1.4.5 encodes reliably.

### AckSynthesisProofs

For any messages and any bounds, from `AckAssumption` alone: `AckTypeCorrect`,
`AckOneReceipt`, `AckHonestReceipt`, `AckProofBeatsTimeout`.  `IInv` adds to the
type invariant, for every message: `StartAt` (nothing is recorded before the
record is registered, and nothing handed over before the message is accepted,
which is where the order of a broadcast's two steps enters), `CountAt` (copies in
flight were handed over, what the sweep holds is past its deadline), `ReceiptAt`,
`HonestAt` (the two invariants, per message) and `ProofAt` (a broadcast's proof
that was heard and could be written has ended the record), from which the action
property follows.  `OweIssuesOne` is the lemma both arbiters share: who moves a
record out of `pending` issues its first receipt.

### GatewayHeartbeatProofs

For every threshold and every length of the inbox, from `HeartbeatAssumption`
alone: `HeartbeatTypeCorrect`, `HeartbeatNoLostFailover`, `HeartbeatStandsDown`,
`HeartbeatNoForgedDown`.  Each of the three properties has its own inductive
strengthening: `Takeover` and `Standing` name the thread that still owes what the
property promises, `Threaded` what a thread under way implies of the peer's entry,
and `Timely` says that, as long as the session is open and every interval let a
heartbeat through, either the entry is fresh or a heartbeat is waiting in the inbox, and that the entry is at
most one interval old once the grace is over: this is why no threshold is too low
for the grace.  The lemmas on the inbox (`DeliverOK`, `HearKeeps`) say that no
delivery and no other message loses a heartbeat.

### MeshCoreSupervisorProofs

For any number of gateways and tools and any bounds, from `SupervisorAssumption`
alone: `SupervisorTypeCorrect` (with the lock), `SupervisorCommandsTakeTurns`,
`SupervisorHonestSent`, `SupervisorHealthHonest`.  `RadioInv` closes on itself: the
lock is the command under way, and a session in use is alive or pulled by a clean
stop (`Held`), which has hung up on every client by then (`HungUp`).  The rest
is per client (`Fine`): what a client that dials finds on the wire (`Dials`), that
success on the wire is a text that went on air (`Replied`), and that the last
frame about the radio, or what was recorded if there is none, is the truth
(`Truthful`).  `AppendReply`, `AppendWord` and `DropHead` say what adding and
taking a frame does to that last word; `ReplyFine` and `BroadcastFine` are the two
ways the supervisor writes.

### BridgeLifecycleProofs

For any number of starts, attempts and routers, from `LifecycleAssumption` alone:
`LifecycleTypeCorrect` and `LifecycleOneUsableRouter`.  Until the first stop only
the RNS thread of the first life writes the session, so what its place in the
set-up implies of the router, the source and the link is inductive; the type
invariant is split by sort, and each action keeps both parts.  Nothing is proved of
the moments after `stop()` nor of the plug-in's own router.

### AckTrackerProofs

For any messages, any number of packets and any cap, from `TrackerAssumption`
alone: `TrackerTypeCorrect`, `TrackerHonestConfirm`, `TrackerOneVerdict`,
`TrackerSentFirst`, `TrackerAccountsForAll`.  The three properties of the verdicts
hang on the fourth: a packet being recorded is neither waiting nor recorded, so a
second verdict would need a second entry.  `Inv` adds that no packet is twice in the
tracker (`Distinct`) and that every sender has a packet in hand which the tracker
never saw (`SendersHold`), whence no packet is armed twice.  `SuffixFacts`,
`AppendFacts` and `RemoveFacts` say what the TTL, a registration and a reply do to
a sequence without repetitions, and `RegisterFacts` that a new entry survives the
cap.

### Only model-checked

The liveness properties (`EveryRowEnds`, `Recovers`, `EventuallyCounted`,
`EveryRecordEnds`, `DeadPrimaryReplaced`, `CallsEnd`, `GateFollowsLink`,
`RunningServes`, `StopEnds`): TLAPS does not reason about `ENABLED`, hence not about
fairness.  Every safety property of a passing run is stated by one of the
theorems above.
