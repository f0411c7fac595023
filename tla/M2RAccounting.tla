--------------------------- MODULE M2RAccounting ---------------------------
(***************************************************************************)
(* Mesh-to-RNS outcome accounting: gateway/_m2r_accounting.py and the code *)
(* that drives it, _process_mesh_to_rns (_rns_bridge_xform.py) and the     *)
(* requeue and replay paths of bridge_send_mixin.py.  The persistent queue *)
(* appears through its contract only: a row makes steps of QueueContract,  *)
(* and the hook of the step updates the accounting.                        *)
(*                                                                         *)
(* A row carries one leg of a message (destination "rns") or the whole     *)
(* message for a replay ("rns_xform").  Counters are kept per message here *)
(* so that a sum cannot hide two errors.  The echo guard, health records   *)
(* and content are left out; the state rns_state of the health tracker and *)
(* the _connected_rns flag are updated by other threads and may say        *)
(* anything when they are read.                                            *)
(***************************************************************************)
EXTENDS Integers, FiniteSets

CONSTANTS
    Msgs,           \* messages from the mesh
    Threads,        \* threads that run process_once
    Bridge,         \* the one of them that also runs the bridge loop
    Kinds,          \* kinds of message in use
    NumDests,       \* destinations on the default list
    PendingCap,     \* M2R_PENDING_CAP
    MaxRows,        \* bound on rows ever persisted
    MaxOrigins,     \* bound on origins ever minted
    MaxFaults,      \* bound on failed bookkeeping writes
    MaxLate,        \* bound on steps behind a sender's back
    MaxCrashes      \* bound on process crashes

ASSUME M2RAssumption ==
    /\ Msgs # {} /\ Bridge \in Threads /\ IsFiniteSet(Threads)
    /\ Kinds \subseteq {"direct", "open", "broadcast"}
    /\ NumDests \in Nat /\ PendingCap \in Nat \ {0}
    /\ MaxRows \in Nat /\ MaxOrigins \in Nat /\ MaxFaults \in Nat
    /\ MaxLate \in Nat /\ MaxCrashes \in Nat

VARIABLES
    kind, inbox,                \* of each message; those not yet taken
    rows, info,                 \* state of each row; what it carries
    minted, tracked, entry,     \* origins minted; _m2r_pending
    att, dlv, drp,              \* attempted, delivered, dropped, per message
    pc, job,                    \* per thread
    faults, late, crashes,      \* bounds
    wire,                       \* history: messages this process transmitted
    evicted,                    \* history: messages whose entry was evicted
    blurred                     \* history: messages with a row left in
                                \* progress, or stepped on, behind its sender

table      == <<rows, info>>
pending    == <<minted, tracked, entry>>
counters   == <<att, dlv, drp>>
accounting == <<tracked, entry, att, dlv, drp>>
thread     == <<pc, job>>
rest       == <<kind, faults, late, crashes, wire, blurred>>
vars == <<kind, inbox, rows, info, minted, tracked, entry, att, dlv, drp, pc, job,
          faults, late, crashes, wire, evicted, blurred>>

RowIds  == 1..MaxRows
Origins == 1..MaxOrigins
NoRow   == 0
NoOrigin == 0

Queue == INSTANCE QueueContract
         WITH Rows <- RowIds, state <- rows, hooks <- [r \in RowIds |-> [delivered |-> 0, dropped |-> 0]]

Blank   == [msg |-> CHOOSE m \in Msgs : TRUE, legs |-> 1, dropped |-> 0,
            terminals |-> 0, resolved |-> FALSE]
Unused  == [leg |-> TRUE, msg |-> Blank.msg, origin |-> NoOrigin]
Idle    == [row |-> NoRow, msg |-> Blank.msg, todo |-> 0, sent |-> 0, failed |-> 0,
            origin |-> NoOrigin, stored |-> 0]

Holds(t, r) == pc[t] # "idle" /\ job[t].row = r
Held(r) == \E t \in Threads : Holds(t, r)

Plus(f, m) == [f EXCEPT ![m] = @ + 1]
Goto(t, place) == pc' = [pc EXCEPT ![t] = place]
Destinations(m) == IF kind[m] = "direct" THEN 1 ELSE NumDests

------------------------------------------------------------------------------
(* The map of pending origins *)

\* Faulty: the first dropped leg drops the message.
LostOnFirst(o, e) ==
    LET lost == ~e.resolved /\ e.dropped >= 1
        over == e.terminals >= e.legs
    IN  /\ drp' = IF lost THEN Plus(drp, e.msg) ELSE drp
        /\ tracked' = IF over THEN tracked \ {o} ELSE tracked
        /\ entry' = [entry EXCEPT ![o] = IF over THEN Blank
                                         ELSE [e EXCEPT !.resolved = @ \/ lost]]

\* _m2r_advance, on the entry e that the caller has just updated.
Advance(o, e) ==
    LET lost == ~e.resolved /\ e.dropped >= e.legs
        over == e.terminals >= e.legs
    IN  /\ drp' = IF lost THEN Plus(drp, e.msg) ELSE drp
        /\ tracked' = IF over THEN tracked \ {o} ELSE tracked
        /\ entry' = [entry EXCEPT ![o] = IF over THEN Blank
                                         ELSE [e EXCEPT !.resolved = @ \/ lost]]

\* Faulty: every delivered leg counts.
HearEveryLeg(o, report) ==
    IF o \notin tracked
    THEN UNCHANGED accounting
    ELSE LET e == [entry[o] EXCEPT !.terminals = @ + 1]
         IN  /\ IF report = "delivered"
                THEN /\ dlv' = Plus(dlv, e.msg)
                     /\ Advance(o, [e EXCEPT !.resolved = TRUE])
                ELSE /\ Advance(o, [e EXCEPT !.dropped = @ + 1])
                     /\ UNCHANGED dlv
             /\ UNCHANGED att

\* _m2r_on_terminal.  A terminal of an origin this process does not track is
\* only witnessed.
HearLeg(o, report) ==
    IF o \notin tracked
    THEN UNCHANGED accounting
    ELSE LET e == [entry[o] EXCEPT !.terminals = @ + 1]
         IN  /\ IF report = "delivered"
                THEN /\ dlv' = IF e.resolved THEN dlv ELSE Plus(dlv, e.msg)
                     /\ Advance(o, [e EXCEPT !.resolved = TRUE])
                ELSE /\ Advance(o, [e EXCEPT !.dropped = @ + 1])
                     /\ UNCHANGED dlv
             /\ UNCHANGED att

\* Faulty: a row with an origin is left to its replay, dead or alive.
HearWholeDeaf(m, o, report) ==
    IF report = "delivered" \/ o # NoOrigin
    THEN UNCHANGED accounting
    ELSE /\ att' = Plus(att, m)
         /\ drp' = Plus(drp, m)
         /\ UNCHANGED <<dlv, tracked, entry>>

\* _m2r_on_xform_terminal: 'delivered' means the replay ran.
HearWhole(m, o, report) ==
    IF report = "delivered" \/ (o # NoOrigin /\ o \notin tracked)
    THEN UNCHANGED accounting
    ELSE IF o = NoOrigin
    THEN /\ att' = Plus(att, m)
         /\ drp' = Plus(drp, m)
         /\ UNCHANGED <<dlv, tracked, entry>>
    ELSE /\ Advance(o, [entry[o] EXCEPT !.terminals = @ + 1, !.dropped = @ + 1])
         /\ UNCHANGED <<att, dlv>>

Hear(r, report) ==
    IF report = "quiet" THEN UNCHANGED accounting
    ELSE IF info[r].leg THEN HearLeg(info[r].origin, report)
    ELSE HearWhole(info[r].msg, info[r].origin, report)

\* A step of the queue's contract, with its hook.
RowStep(r, to, report) ==
    /\ <<rows[r], to, report>> \in Queue!Steps
    /\ rows' = [rows EXCEPT ![r] = to]
    /\ Hear(r, report)
    /\ UNCHANGED <<info, minted, evicted>>

\* enqueue returned a row id.
Persist(leg, m, o) ==
    \E r \in RowIds :
        /\ <<rows[r], "waiting", "quiet">> \in Queue!Accepts
        /\ \A q \in RowIds : q < r => rows[q] # "none"
        /\ rows' = [rows EXCEPT ![r] = "waiting"]
        /\ info' = [info EXCEPT ![r] = [leg |-> leg, msg |-> m, origin |-> o]]

\* _m2r_track: a new origin, registered before its first row; beyond the cap
\* the oldest entry goes.
Track(m, legs) ==
    LET o == minted + 1
        all == tracked \cup {o}
        oldest == CHOOSE x \in all : \A y \in all : x <= y
        out == IF Cardinality(all) > PendingCap THEN {oldest} ELSE {}
    IN  /\ minted < MaxOrigins
        /\ minted' = o
        /\ tracked' = all \ out
        /\ entry' = [x \in Origins |->
                        IF x \in out THEN Blank
                        ELSE IF x = o THEN [Blank EXCEPT !.msg = m, !.legs = legs]
                        ELSE entry[x]]
        /\ evicted' = evicted \cup {entry[x].msg : x \in {y \in out : ~entry[y].resolved}}
        /\ UNCHANGED counters

------------------------------------------------------------------------------
(* _process_mesh_to_rns *)

\* It returns; a replay reports success to process_once.
Finish(t) ==
    /\ pc' = [pc EXCEPT ![t] = IF job[t].row = NoRow THEN "idle" ELSE "sent"]
    /\ job' = [job EXCEPT ![t] = IF job[t].row = NoRow THEN Idle
                                 ELSE [Idle EXCEPT !.row = job[t].row, !.msg = job[t].msg]]

\* The bridge loop finds RNS down: the message is queued for a first attempt,
\* or attempted and dropped on the spot.
RnsDown(m) ==
    /\ pc[Bridge] = "idle"
    /\ m \in inbox
    /\ inbox' = inbox \ {m}
    /\ \/ /\ Persist(FALSE, m, NoOrigin)
          /\ UNCHANGED counters
       \/ /\ att' = Plus(att, m)
          /\ drp' = Plus(drp, m)
          /\ UNCHANGED <<dlv, rows, info>>
    /\ UNCHANGED <<pending, thread, evicted, rest>>

\* A live message: no origin to claim, so the attempt is counted.
Attempt(m) ==
    /\ pc[Bridge] = "idle"
    /\ m \in inbox
    /\ inbox' = inbox \ {m}
    /\ att' = Plus(att, m)
    /\ Goto(Bridge, "routing")
    /\ job' = [job EXCEPT ![Bridge] = [Idle EXCEPT !.msg = m]]
    /\ UNCHANGED <<table, pending, dlv, drp, evicted, rest>>

\* F14: a direct message without a single RNS recipient.
Refuse(t) ==
    /\ pc[t] = "routing"
    /\ kind[job[t].msg] = "direct"
    /\ drp' = Plus(drp, job[t].msg)
    /\ Finish(t)
    /\ UNCHANGED <<inbox, table, pending, att, dlv, evicted, rest>>

Resolve(t) ==
    /\ pc[t] = "routing"
    /\ Goto(t, "sending")
    /\ job' = [job EXCEPT ![t].todo = Destinations(job[t].msg)]
    /\ UNCHANGED <<inbox, table, pending, counters, evicted, rest>>

\* send_to_rns for the next destination; it swallows its own exceptions.
SendDestination(t) ==
    /\ pc[t] = "sending"
    /\ job[t].todo > 0
    /\ \/ /\ job' = [job EXCEPT ![t] = [job[t] EXCEPT !.todo = @ - 1, !.sent = @ + 1]]
          /\ wire' = wire \cup {job[t].msg}
       \/ /\ job' = [job EXCEPT ![t] = [job[t] EXCEPT !.todo = @ - 1, !.failed = @ + 1]]
          /\ UNCHANGED wire
    /\ UNCHANGED <<kind, inbox, table, pending, counters, pc, faults, late, crashes, evicted, blurred>>

\* Partly sent: the failed legs are queued without an origin.
RetryFailedLeg(t) ==
    /\ pc[t] = "sending"
    /\ job[t].todo = 0 /\ job[t].sent > 0 /\ job[t].failed > 0
    /\ job' = [job EXCEPT ![t].failed = @ - 1]
    /\ \/ Persist(TRUE, job[t].msg, NoOrigin)
       \/ UNCHANGED table
    /\ UNCHANGED <<inbox, pending, counters, pc, evicted, rest>>

DeliveredNow(t) ==
    /\ pc[t] = "sending"
    /\ job[t].todo = 0 /\ job[t].sent > 0 /\ job[t].failed = 0
    /\ dlv' = Plus(dlv, job[t].msg)
    /\ Finish(t)
    /\ UNCHANGED <<inbox, table, pending, att, drp, evicted, rest>>

BroadcastLost(t) ==
    /\ pc[t] = "sending"
    /\ job[t].todo = 0 /\ job[t].sent = 0
    /\ kind[job[t].msg] = "broadcast"
    /\ drp' = Plus(drp, job[t].msg)
    /\ Finish(t)
    /\ UNCHANGED <<inbox, table, pending, att, dlv, evicted, rest>>

\* Nothing sent: track the message, then queue every failed leg.
TrackLegs(t) ==
    /\ pc[t] = "sending"
    /\ job[t].todo = 0 /\ job[t].sent = 0
    /\ kind[job[t].msg] # "broadcast"
    /\ Track(job[t].msg, IF job[t].failed = 0 THEN 1 ELSE job[t].failed)
    /\ Goto(t, "legs")
    /\ job' = [job EXCEPT ![t] = [job[t] EXCEPT !.todo = job[t].failed, !.origin = minted']]
    /\ UNCHANGED <<inbox, table, rest>>

\* An exception before the outcome was counted: delivered if anything went
\* out, dropped if this was a replay, else one whole-message row.
Raise(t) ==
    /\ pc[t] \in {"routing", "sending"}
    /\ IF job[t].sent > 0
       THEN /\ dlv' = Plus(dlv, job[t].msg)
            /\ Finish(t)
            /\ UNCHANGED <<pending, att, drp, evicted>>
       ELSE IF job[t].row # NoRow
       THEN /\ drp' = Plus(drp, job[t].msg)
            /\ Finish(t)
            /\ UNCHANGED <<pending, att, dlv, evicted>>
       ELSE /\ Track(job[t].msg, 1)
            /\ Goto(t, "whole")
            /\ job' = [job EXCEPT ![t] = [job[t] EXCEPT !.todo = 1, !.origin = minted']]
    /\ UNCHANGED <<inbox, table, rest>>

\* enqueue of the next row: it persists, or is refused, deduplicated or raises.
Enqueue(t) ==
    /\ pc[t] \in {"legs", "whole"}
    /\ job[t].todo > 0
    /\ \/ /\ Persist(pc[t] = "legs", job[t].msg, job[t].origin)
          /\ job' = [job EXCEPT ![t] = [job[t] EXCEPT !.todo = @ - 1, !.stored = @ + 1]]
       \/ /\ job' = [job EXCEPT ![t].todo = @ - 1]
          /\ UNCHANGED table
    /\ UNCHANGED <<inbox, pending, counters, pc, evicted, rest>>

\* Faulty: the provisional leg count is kept.
SettleKeepsLegs(t) ==
    /\ pc[t] \in {"legs", "whole"}
    /\ job[t].todo = 0
    /\ IF job[t].stored = 0
       THEN /\ drp' = Plus(drp, job[t].msg)
            /\ tracked' = tracked \ {job[t].origin}
            /\ entry' = [entry EXCEPT ![job[t].origin] = Blank]
       ELSE UNCHANGED <<drp, tracked, entry>>
    /\ Finish(t)
    /\ UNCHANGED <<inbox, table, minted, att, dlv, evicted, rest>>

\* _m2r_settle: legs is now the number of rows that exist; without any, the
\* message is dropped here.
Settle(t) ==
    LET o == job[t].origin
    IN  /\ pc[t] \in {"legs", "whole"}
        /\ job[t].todo = 0
        /\ IF job[t].stored = 0
           THEN /\ drp' = Plus(drp, job[t].msg)
                /\ tracked' = tracked \ {o}
                /\ entry' = [entry EXCEPT ![o] = Blank]
           ELSE IF o \in tracked
           THEN Advance(o, [entry[o] EXCEPT !.legs = job[t].stored])
           ELSE UNCHANGED <<drp, tracked, entry>>
        /\ Finish(t)
        /\ UNCHANGED <<inbox, table, minted, att, dlv, evicted, rest>>

------------------------------------------------------------------------------
(* The queue's senders, as process_once calls them *)

Dispatch(t, r) ==
    /\ pc[t] = "idle"
    /\ RowStep(r, "taken", "quiet")
    /\ Goto(t, IF info[r].leg THEN "leg" ELSE "replay")
    /\ job' = [job EXCEPT ![t] = [Idle EXCEPT !.row = r, !.msg = info[r].msg]]
    /\ UNCHANGED <<inbox, rest>>

\* _queue_send_rns
SendLeg(t) ==
    /\ pc[t] = "leg"
    /\ \/ /\ Goto(t, "sent")
          /\ wire' = wire \cup {job[t].msg}
       \/ /\ Goto(t, "unsent")
          /\ UNCHANGED wire
    /\ UNCHANGED <<kind, inbox, table, pending, counters, job, faults, late, crashes, evicted, blurred>>

\* _dispatch_rns_xform_spill while RNS is disconnected
ReplayOffline(t) ==
    /\ pc[t] = "replay"
    /\ Goto(t, "unsent")
    /\ UNCHANGED <<inbox, table, pending, counters, job, evicted, rest>>

\* Faulty: the replay counts the attempt again.
ReplayRecounts(t) ==
    LET o == info[job[t].row].origin
    IN  /\ pc[t] = "replay"
        /\ tracked' = tracked \ {o}
        /\ entry' = IF o \in tracked THEN [entry EXCEPT ![o] = Blank] ELSE entry
        /\ att' = Plus(att, job[t].msg)
        /\ Goto(t, "routing")
        /\ UNCHANGED <<inbox, table, minted, dlv, drp, job, evicted, rest>>

\* The replay takes over the resolution of its origin (_m2r_claim_replay), or
\* is the first attempt this process knows of.
Replay(t) ==
    LET o == info[job[t].row].origin
    IN  /\ pc[t] = "replay"
        /\ IF o \in tracked
           THEN /\ tracked' = tracked \ {o}
                /\ entry' = [entry EXCEPT ![o] = Blank]
                /\ UNCHANGED att
           ELSE /\ att' = Plus(att, job[t].msg)
                /\ UNCHANGED <<tracked, entry>>
        /\ Goto(t, "routing")
        /\ UNCHANGED <<inbox, table, minted, dlv, drp, job, evicted, rest>>

Leave(t) ==
    /\ Goto(t, "idle")
    /\ job' = [job EXCEPT ![t] = Idle]

\* mark_delivered; it reports only a row it changed.
MarkDelivered(t) ==
    LET r == job[t].row
    IN  /\ pc[t] = "sent"
        /\ \/ RowStep(r, "done", "delivered")
           \/ /\ rows[r] \in {"done", "gone"}
              /\ UNCHANGED <<table, pending, counters, evicted>>
        /\ Leave(t)
        /\ UNCHANGED <<inbox, rest>>

\* mark_failed, mark_deferred or mark_refused.
MarkUnsent(t) ==
    LET r == job[t].row
    IN  /\ pc[t] = "unsent"
        /\ \/ /\ rows[r] \in {"taken", "waiting"}
              /\ \/ RowStep(r, "dead", "dropped")
                 \/ /\ rows[r] = "taken"
                    /\ RowStep(r, "waiting", "quiet")
           \/ /\ rows[r] # "taken"
              /\ UNCHANGED <<table, pending, counters, evicted>>
        /\ Leave(t)
        /\ UNCHANGED <<inbox, rest>>

\* The bookkeeping write raises: the row stays as it is, a transmitted one
\* (stats.delivered_unrecorded) included.
Unrecorded(t) ==
    /\ faults < MaxFaults
    /\ pc[t] \in {"sent", "unsent"}
    /\ faults' = faults + 1
    /\ blurred' = IF pc[t] = "sent" THEN blurred \cup {job[t].msg} ELSE blurred
    /\ Leave(t)
    /\ UNCHANGED <<kind, inbox, table, pending, counters, late, crashes, wire, evicted>>

------------------------------------------------------------------------------
(* What other enqueues and passes do to rows *)

\* Expired or shed while waiting.
Lapse(r) ==
    /\ rows[r] = "waiting"
    /\ \E end \in {"dead", "gone"} : RowStep(r, end, "dropped")
    /\ UNCHANGED <<inbox, thread, rest>>

\* cleanup_stale, on a row whose sender is gone.
Stale(r) ==
    /\ rows[r] = "taken" /\ ~Held(r)
    /\ \/ RowStep(r, "waiting", "quiet")
       \/ RowStep(r, "dead", "dropped")
    /\ UNCHANGED <<inbox, thread, rest>>

\* cleanup_stale on a row whose send outlives STALE_TIMEOUT, or a deletion by
\* an overflow that selected the row while it was waiting.
SteppedOn(r) ==
    /\ late < MaxLate
    /\ rows[r] # "gone" /\ Held(r)
    /\ \/ rows[r] = "taken" /\ RowStep(r, "waiting", "quiet")
       \/ RowStep(r, "dead", "dropped")
       \/ RowStep(r, "gone", "dropped")
    /\ late' = late + 1
    /\ blurred' = blurred \cup {info[r].msg}
    /\ UNCHANGED <<kind, inbox, thread, faults, crashes, wire>>

\* The rows survive a crash.  Counters, pending origins and threads do not,
\* nor do messages not yet taken from the in-memory queue.
Crash ==
    /\ crashes < MaxCrashes
    /\ crashes' = crashes + 1
    /\ inbox' = {}
    /\ tracked' = {}
    /\ entry' = [o \in Origins |-> Blank]
    /\ att' = [m \in Msgs |-> 0]
    /\ dlv' = [m \in Msgs |-> 0]
    /\ drp' = [m \in Msgs |-> 0]
    /\ pc' = [t \in Threads |-> "idle"]
    /\ job' = [t \in Threads |-> Idle]
    /\ wire' = {}
    /\ evicted' = {}
    /\ blurred' = blurred \cup {info[r].msg : r \in {q \in RowIds : rows[q] = "taken"}}
    /\ UNCHANGED <<kind, table, minted, faults, late>>

------------------------------------------------------------------------------
Init ==
    /\ kind \in [Msgs -> Kinds]
    /\ inbox = Msgs
    /\ rows = [r \in RowIds |-> "none"]
    /\ info = [r \in RowIds |-> Unused]
    /\ minted = 0
    /\ tracked = {}
    /\ entry = [o \in Origins |-> Blank]
    /\ att = [m \in Msgs |-> 0]
    /\ dlv = [m \in Msgs |-> 0]
    /\ drp = [m \in Msgs |-> 0]
    /\ pc = [t \in Threads |-> "idle"]
    /\ job = [t \in Threads |-> Idle]
    /\ faults = 0 /\ late = 0 /\ crashes = 0
    /\ wire = {} /\ evicted = {} /\ blurred = {}

ThreadStep(t) ==
    \/ Refuse(t) \/ Resolve(t) \/ SendDestination(t) \/ RetryFailedLeg(t)
    \/ DeliveredNow(t) \/ BroadcastLost(t) \/ TrackLegs(t) \/ Raise(t)
    \/ Enqueue(t) \/ Settle(t)
    \/ SendLeg(t) \/ ReplayOffline(t) \/ Replay(t)
    \/ MarkDelivered(t) \/ MarkUnsent(t) \/ Unrecorded(t)

Next ==
    \/ \E m \in Msgs : RnsDown(m) \/ Attempt(m)
    \/ \E t \in Threads : ThreadStep(t)
    \/ \E t \in Threads, r \in RowIds : Dispatch(t, r)
    \/ \E r \in RowIds : Lapse(r) \/ Stale(r) \/ SteppedOn(r)
    \/ Crash

Spec == Init /\ [][Next]_vars

\* Calls return, and a waiting row past max_age_s is expired by a later pass,
\* however often it is taken and put back meanwhile.
Fairness ==
    /\ \A t \in Threads : WF_vars(ThreadStep(t))
    /\ \A r \in RowIds : SF_vars(Lapse(r))

FairSpec == Spec /\ Fairness

------------------------------------------------------------------------------
(* Properties *)

Places == {"idle", "routing", "sending", "legs", "whole", "leg", "replay", "sent", "unsent"}
Entries == [msg : Msgs, legs : Nat \ {0}, dropped : Nat, terminals : Nat, resolved : BOOLEAN]
Jobs == [row : RowIds \cup {NoRow}, msg : Msgs, todo : Nat, sent : Nat, failed : Nat,
         origin : Origins \cup {NoOrigin}, stored : Nat]

\* Every variable keeps its type; every entry expects at least one report.
TypeOK ==
    /\ kind \in [Msgs -> Kinds] /\ inbox \subseteq Msgs
    /\ rows \in [RowIds -> Queue!States]
    /\ info \in [RowIds -> [leg : BOOLEAN, msg : Msgs, origin : Origins \cup {NoOrigin}]]
    /\ minted \in 0..MaxOrigins /\ tracked \subseteq 1..minted
    /\ entry \in [Origins -> Entries]
    /\ {att, dlv, drp} \subseteq [Msgs -> Nat]
    /\ pc \in [Threads -> Places] /\ job \in [Threads -> Jobs]
    /\ faults \in Nat /\ late \in Nat /\ crashes \in Nat
    /\ wire \subseteq Msgs /\ evicted \subseteq Msgs /\ blurred \subseteq Msgs

Live(r) == rows[r] \in {"waiting", "taken"}

\* A thread between the attempt and the count or the entry that replaces it.
InHand(t, m) == pc[t] \in {"routing", "sending", "legs", "whole"} /\ job[t].msg = m

Unresolved(m) == \E o \in tracked : entry[o].msg = m /\ ~entry[o].resolved

\* "mesh_to_rns_attempted counts a message once": through refusals, partial
\* fan-outs, requeues, replays of replays, expiry and shedding, unless a row of
\* the message was left in progress or stepped on behind its sender, or the map
\* evicted its entry (the replay of an evicted origin counts as a first attempt).
AttemptedOnce == \A m \in Msgs \ (blurred \cup evicted) : att[m] <= 1

\* "delivered or dropped then counts it once": never more outcomes than
\* attempts, whatever the threads, the queue and its faults do.
OutcomesWithinAttempts == \A m \in Msgs : dlv[m] + drp[m] <= att[m]

\* "PENDING, which is a real state, not a missing count": an attempt without an
\* outcome is in a thread's hands or in the map of pending origins, unless the
\* map evicted it; and an entry of the map can still be decided: its thread is
\* still queueing rows, or one of its rows has not ended.
NothingForgotten ==
    /\ \A m \in Msgs \ evicted :
         att[m] > dlv[m] + drp[m] => Unresolved(m) \/ \E t \in Threads : InHand(t, m)
    /\ \A o \in tracked :
         \/ \E t \in Threads : pc[t] \in {"legs", "whole"} /\ job[t].origin = o
         \/ \E r \in RowIds : Live(r) /\ info[r].origin = o

\* "dropped" is counted for messages nothing of which this process transmitted,
\* "delivered" for messages it did transmit.
HonestOutcome ==
    \A m \in Msgs \ blurred : /\ dlv[m] > 0 => m \in wire
                              /\ drp[m] > 0 => m \notin wire

\* Every attempted message is eventually counted delivered or dropped, unless
\* its entry was evicted or one of its rows was left in progress by a failed
\* write (only an enqueue would find that one again, see MessageQueue).
LeftBehind(m) == \E r \in RowIds : rows[r] = "taken" /\ ~Held(r) /\ info[r].msg = m

EventuallyCounted ==
    \A m \in Msgs : att[m] > dlv[m] + drp[m] ~>
        att[m] = dlv[m] + drp[m] \/ m \in evicted \/ LeftBehind(m)

\* mesh_to_rns_attempted "counts a message once" (_m2r_accounting.py).
CountedOnce == \A m \in Msgs : att[m] <= 1
=============================================================================
