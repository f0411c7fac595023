---------------------------- MODULE MessageQueue ----------------------------
(***************************************************************************)
(* The persistent gateway queue (gateway/message_queue.py with its outage  *)
(* mixin): rows of one SQLite table shared by threads that enqueue         *)
(* (Writers) and threads that run process_once (Workers: the background    *)
(* process loop and the bridge loop's _drain_persistent_queue).            *)
(*                                                                         *)
(* Every SQL statement is one step.  sqlite3 opens a transaction at the    *)
(* first DML statement only, so a SELECT and the UPDATE or DELETE that     *)
(* uses its result are two steps, on one connection or on two.             *)
(*                                                                         *)
(* Time is abstract.  A row id is its place in created_at order.  Whether  *)
(* a backoff has elapsed and whether a row is still inside the dedup       *)
(* window are flags that only go one way; which in_progress rows are past  *)
(* STALE_TIMEOUT, which terminal rows are past the purge age and which     *)
(* pending rows are past max_age_s is chosen by the step that asks, among  *)
(* rows already outside the (shorter) dedup window.                        *)
(***************************************************************************)
EXTENDS Integers, FiniteSets

CONSTANTS
    MaxRows,        \* bound on rows ever inserted
    Workers,        \* threads that call process_once
    Writers,        \* threads that call enqueue
    Contents,       \* what the dedup hash tells apart
    Priorities,     \* priorities in use, LOW = 1 .. URGENT = 4
    MaxQueueSize,   \* max_queue_size
    BatchSize,      \* process_once(batch_size)
    MaxRetries,     \* max_retries of every row
    UsePolicy,      \* is a RetryPolicy configured?
    MaxTries,       \* RetryPolicy.max_tries
    Outcomes,       \* how a send_fn call may end
    HasMaxAge,      \* was the sender registered with max_age_s?
    Gated,          \* with a ready_fn?
    Paced,          \* with min_spacing_s > 0?
    OtherTraffic,   \* are rows enqueued for other destinations too?
    DbErrors,       \* can a write to the database fail?
    MaxCrashes,     \* bound on process crashes
    MaxRevivals,    \* bound on retry_dead_letter calls
    MaxClears       \* bound on clear_all calls

ASSUME QueueAssumption ==
    /\ MaxRows \in Nat /\ MaxQueueSize \in Nat /\ BatchSize \in Nat \ {0}
    /\ MaxRetries \in Nat \ {0} /\ MaxTries \in Nat \ {0}
    /\ MaxCrashes \in Nat /\ MaxRevivals \in Nat /\ MaxClears \in Nat
    /\ Contents # {} /\ Priorities \subseteq 1..4
    /\ Outcomes \subseteq {"sent", "failed", "deferred", "refused"}
    /\ {UsePolicy, HasMaxAge, Gated, Paced, OtherTraffic, DbErrors} \subseteq BOOLEAN

VARIABLES
    \* the table
    status, retry, content, prio, due, recent,
    \* process_once, per worker: where it is, the rest of its batch, the row
    \* in hand, the retry_count mark_failed read
    wpc, batch, cur, seen,
    \* enqueue, per writer: where it is, its arguments, how many rows it wants
    \* shed, the rows it selected to shed
    epc, req, need, victims,
    \* does ready_fn() hold?
    ready,
    \* bounds
    crashes, revivals, clears,
    \* history: hook calls and transmissions per row; rows a send_fn call
    \* reported sent; rows cleanup_stale or retry_dead_letter made active again
    \* or dead-lettered under a worker; rows shed after they had left 'pending';
    \* rows clear_all deleted
    fired, wire, acked, reopened, raced, cleared

row     == <<status, retry, content, prio, due, recent>>
worker  == <<wpc, batch, cur, seen>>
writer  == <<epc, req, need, victims>>
bounds  == <<crashes, revivals, clears>>
history == <<fired, wire, acked, reopened, raced, cleared>>
vars    == <<row, worker, writer, ready, bounds, history>>

Ids      == 1..MaxRows
Statuses == {"unborn", "pending", "in_progress", "delivered", "dead_letter", "gone"}
Active   == {"pending", "in_progress"}
Terminal == {"delivered", "dead_letter"}
NORMAL   == 2
Results  == {"delivered", "dropped"}
NoReq    == [content |-> CHOOSE c \in Contents : TRUE, prio |-> NORMAL]
\* a worker that has claimed a row and not yet recorded the outcome
Holding  == {"sending", "onair", "sent", "failed", "failing", "deferred", "refused"}
Holds(w, i) == wpc[w] \in Holding /\ cur[w] = i

\* A budget no active row has used up, whichever of mark_failed and
\* cleanup_stale counts.
Budget == IF UsePolicy /\ MaxTries > MaxRetries THEN MaxTries ELSE MaxRetries

------------------------------------------------------------------------------
(* Orders.  get_pending: priority DESC, created_at ASC.  _shed_overflow:   *)
(* priority ASC, created_at ASC.                                           *)

SentBefore(i, j) == prio[i] > prio[j] \/ (prio[i] = prio[j] /\ i < j)
ShedBefore(i, j) == prio[i] < prio[j] \/ (prio[i] = prio[j] /\ i < j)

FirstToSend(S, n) == {i \in S : Cardinality({j \in S : SentBefore(j, i)}) < n}
FirstToShed(S, n) == {i \in S : Cardinality({j \in S : ShedBefore(j, i)}) < n}

\* Faulty: the retry_after condition forgotten.
GetPendingIgnoresBackoff == FirstToSend({i \in Ids : status[i] = "pending"}, BatchSize)

\* get_pending's WHERE and ORDER BY ... LIMIT
GetPending == FirstToSend({i \in Ids : status[i] = "pending" /\ due[i]}, BatchSize)

\* _shed_overflow's WHERE and ORDER BY ... LIMIT
Sheddable(n) == FirstToShed({i \in Ids : status[i] = "pending" /\ prio[i] <= NORMAL}, n)

Depth == Cardinality({i \in Ids : status[i] \in Active})

\* _is_duplicate
IsDuplicate(c) ==
    \E i \in Ids : /\ content[i] = c /\ recent[i]
                   /\ status[i] \in Active \cup {"delivered"}

\* RetryPolicy.should_retry, or the max_retries comparison without a policy.
\* attempt is the retry_count already incremented for this failure.
ShouldRetry(error, attempt) ==
    IF UsePolicy
    THEN /\ error # "non_retriable"
         /\ attempt < MaxTries
         /\ error = "retriable" \/ attempt < 2
    ELSE attempt < MaxRetries

Fire(f, S, r) == [i \in Ids |-> IF i \in S THEN [f[i] EXCEPT ![r] = @ + 1] ELSE f[i]]

------------------------------------------------------------------------------
(* process_once *)

\* The loop takes the next row of the batch; an empty batch ends the pass.
Advance(w, rest) ==
    /\ batch' = [batch EXCEPT ![w] = rest]
    /\ wpc' = [wpc EXCEPT ![w] = IF rest = {} THEN "idle" ELSE "batch"]
    /\ cur' = [cur EXCEPT ![w] = 0]
    /\ seen' = [seen EXCEPT ![w] = 0]

\* Faulty: expiry moved behind the ready_fn gate.
ExpireBehindGate(w, i) ==
    /\ HasMaxAge /\ ready
    /\ wpc[w] = "idle"
    /\ status[i] = "pending" /\ ~recent[i]
    /\ status' = [status EXCEPT ![i] = "dead_letter"]
    /\ fired' = Fire(fired, {i}, "dropped")
    /\ UNCHANGED <<retry, content, prio, due, recent, worker, writer, ready, bounds,
                   wire, acked, reopened, raced, cleared>>

\* expire_overdue at the start of a pass, before the ready_fn gate.
ExpireOverdue(w, i) ==
    /\ HasMaxAge
    /\ wpc[w] = "idle"
    /\ status[i] = "pending" /\ ~recent[i]
    /\ status' = [status EXCEPT ![i] = "dead_letter"]
    /\ fired' = Fire(fired, {i}, "dropped")
    /\ UNCHANGED <<retry, content, prio, due, recent, worker, writer, ready, bounds,
                   wire, acked, reopened, raced, cleared>>

\* The gate, then get_pending.  A closed gate leaves every row untouched.
Fetch(w) ==
    /\ wpc[w] = "idle"
    /\ ready
    /\ GetPending # {}
    /\ Advance(w, GetPending)
    /\ UNCHANGED <<row, writer, ready, bounds, history>>

\* min_spacing_s not yet over: the rest of the batch waits for a later pass.
PaceBreak(w) ==
    /\ Paced
    /\ wpc[w] = "batch"
    /\ Advance(w, {})
    /\ UNCHANGED <<row, writer, ready, bounds, history>>

\* Faulty: the claim without AND status = 'pending'.
ClaimUnguarded(w) ==
    /\ wpc[w] = "batch"
    /\ \E i \in FirstToSend(batch[w], 1) :
         /\ status' = [status EXCEPT ![i] = "in_progress"]
         /\ batch' = [batch EXCEPT ![w] = @ \ {i}]
         /\ wpc' = [wpc EXCEPT ![w] = "sending"]
         /\ cur' = [cur EXCEPT ![w] = i]
    /\ UNCHANGED <<retry, content, prio, due, recent, seen, writer, ready, bounds, history>>

\* mark_in_progress: the claim.  It checks the status and nothing else.
MarkInProgress(w) ==
    /\ wpc[w] = "batch"
    /\ \E i \in FirstToSend(batch[w], 1) :
         \/ /\ status[i] = "pending"
            /\ status' = [status EXCEPT ![i] = "in_progress"]
            /\ batch' = [batch EXCEPT ![w] = @ \ {i}]
            /\ wpc' = [wpc EXCEPT ![w] = "sending"]
            /\ cur' = [cur EXCEPT ![w] = i]
            /\ UNCHANGED seen
         \/ /\ status[i] # "pending"
            /\ Advance(w, batch[w] \ {i})
            /\ UNCHANGED status
    /\ UNCHANGED <<retry, content, prio, due, recent, writer, ready, bounds, history>>

\* Inside send_fn, something of the payload leaves: a frame handed to the
\* radio, a chunk of several, a request whose answer is still out.
Transmit(w) ==
    /\ wpc[w] = "sending"
    /\ wpc' = [wpc EXCEPT ![w] = "onair"]
    /\ wire' = [wire EXCEPT ![cur[w]] = @ + 1]
    /\ UNCHANGED <<row, batch, cur, seen, writer, ready, bounds, fired, acked, reopened, raced, cleared>>

\* send_fn returns or raises.  It reports success only of what it has handed
\* over, defers and refuses only before it hands anything over, and may report
\* a failure of either: one chunk of several, or the answer, got lost.
Send(w, outcome) ==
    /\ \/ wpc[w] = "sending" /\ outcome # "sent"
       \/ wpc[w] = "onair" /\ outcome \in {"sent", "failed"}
    /\ wpc' = [wpc EXCEPT ![w] = outcome]
    /\ acked' = IF outcome = "sent" THEN acked \cup {cur[w]} ELSE acked
    /\ UNCHANGED <<row, batch, cur, seen, writer, ready, bounds, fired, wire, reopened, raced, cleared>>

\* Faulty: the hook runs although the UPDATE matched no row.
DeliveredBlindly(w) ==
    /\ wpc[w] = "sent"
    /\ status' = [status EXCEPT ![cur[w]] = IF @ = "gone" THEN @ ELSE "delivered"]
    /\ fired' = Fire(fired, {cur[w]}, "delivered")
    /\ Advance(w, batch[w])
    /\ UNCHANGED <<retry, content, prio, due, recent, writer, ready, bounds,
                   wire, acked, reopened, raced, cleared>>

MarkDelivered(w) ==
    /\ wpc[w] = "sent"
    /\ IF status[cur[w]] \notin {"delivered", "gone"}
       THEN /\ status' = [status EXCEPT ![cur[w]] = "delivered"]
            /\ fired' = Fire(fired, {cur[w]}, "delivered")
       ELSE UNCHANGED <<status, fired>>
    /\ Advance(w, batch[w])
    /\ UNCHANGED <<retry, content, prio, due, recent, writer, ready, bounds,
                   wire, acked, reopened, raced, cleared>>

\* Faulty: the bookkeeping error falls through to mark_failed.
UnrecordedRequeued(w) ==
    /\ DbErrors
    /\ wpc[w] = "sent"
    /\ wpc' = [wpc EXCEPT ![w] = "failed"]
    /\ UNCHANGED <<row, batch, cur, seen, writer, ready, bounds, history>>

\* mark_delivered raised after the send: the row stays as it is and the loop
\* goes on (stats.delivered_unrecorded).
DeliveredUnrecorded(w) ==
    /\ DbErrors
    /\ wpc[w] = "sent"
    /\ Advance(w, batch[w])
    /\ UNCHANGED <<row, writer, ready, bounds, history>>

\* mark_failed: SELECT ...
MarkFailedRead(w) ==
    /\ wpc[w] = "failed"
    /\ IF status[cur[w]] = "gone"
       THEN Advance(w, batch[w])
       ELSE /\ seen' = [seen EXCEPT ![w] = retry[cur[w]]]
            /\ wpc' = [wpc EXCEPT ![w] = "failing"]
            /\ UNCHANGED <<batch, cur>>
    /\ UNCHANGED <<row, writer, ready, bounds, history>>

\* ... then the guarded UPDATE of what was read, plus one.
MarkFailedWrite(w, error) ==
    /\ wpc[w] = "failing"
    /\ IF status[cur[w]] \in Active
       THEN /\ retry' = [retry EXCEPT ![cur[w]] = seen[w] + 1]
            /\ IF ShouldRetry(error, seen[w] + 1)
               THEN /\ status' = [status EXCEPT ![cur[w]] = "pending"]
                    /\ due' = [due EXCEPT ![cur[w]] = FALSE]
                    /\ UNCHANGED fired
               ELSE /\ status' = [status EXCEPT ![cur[w]] = "dead_letter"]
                    /\ fired' = Fire(fired, {cur[w]}, "dropped")
                    /\ UNCHANGED due
       ELSE UNCHANGED <<status, retry, due, fired>>
    /\ Advance(w, batch[w])
    /\ UNCHANGED <<content, prio, recent, writer, ready, bounds,
                   wire, acked, reopened, raced, cleared>>

MarkDeferred(w) ==
    /\ wpc[w] = "deferred"
    /\ IF status[cur[w]] \in Active
       THEN /\ status' = [status EXCEPT ![cur[w]] = "pending"]
            /\ due' = [due EXCEPT ![cur[w]] = FALSE]
       ELSE UNCHANGED <<status, due>>
    /\ Advance(w, batch[w])
    /\ UNCHANGED <<retry, content, prio, recent, writer, ready, bounds, history>>

MarkRefused(w) ==
    /\ wpc[w] = "refused"
    /\ IF status[cur[w]] \in Active
       THEN /\ status' = [status EXCEPT ![cur[w]] = "dead_letter"]
            /\ retry' = [retry EXCEPT ![cur[w]] = @ + 1]
            /\ fired' = Fire(fired, {cur[w]}, "dropped")
       ELSE UNCHANGED <<status, retry, fired>>
    /\ Advance(w, batch[w])
    /\ UNCHANGED <<content, prio, due, recent, writer, ready, bounds,
                   wire, acked, reopened, raced, cleared>>

\* Any other bookkeeping write that raises leaves process_once: the row stays
\* in_progress and the rest of the batch is forgotten.
RecordingError(w) ==
    /\ DbErrors
    /\ wpc[w] \in {"failed", "failing", "deferred", "refused"}
    /\ Advance(w, {})
    /\ UNCHANGED <<row, writer, ready, bounds, history>>

------------------------------------------------------------------------------
(* enqueue *)

\* enqueue returns.
Return(e) ==
    /\ epc' = [epc EXCEPT ![e] = "idle"]
    /\ req' = [req EXCEPT ![e] = NoReq]
    /\ need' = [need EXCEPT ![e] = 0]

\* _is_duplicate on its own connection; a duplicate is dropped there.
CheckDuplicate(e, c, p) ==
    /\ epc[e] = "idle"
    /\ \E i \in Ids : status[i] = "unborn"
    /\ ~IsDuplicate(c)
    /\ epc' = [epc EXCEPT ![e] = "cleanup"]
    /\ req' = [req EXCEPT ![e] = [content |-> c, prio |-> p]]
    /\ UNCHANGED <<row, worker, need, victims, ready, bounds, history>>

\* Faulty: a stale row is put back without counting the attempt.
ResetUncounted(S, P) ==
    /\ status' = [i \in Ids |-> CASE i \in P -> "gone" [] i \in S -> "pending"
                                  [] OTHER -> status[i]]
    /\ reopened' = reopened \cup S
    /\ UNCHANGED <<retry, fired>>

\* Faulty: counted, never exhausted.
ResetForever(S, P) ==
    /\ status' = [i \in Ids |-> CASE i \in P -> "gone" [] i \in S -> "pending"
                                  [] OTHER -> status[i]]
    /\ retry' = [i \in Ids |-> IF i \in S THEN retry[i] + 1 ELSE retry[i]]
    /\ reopened' = reopened \cup S
    /\ UNCHANGED fired

\* _maybe_auto_cleanup: not due, or purge_old of the terminal rows P followed
\* by cleanup_stale of the in_progress rows S.  P and S are disjoint, so the
\* two transactions commute.
CleanupStale(S, P) ==
    LET exhausted == {i \in S : retry[i] + 1 >= MaxRetries}
    IN  /\ status' = [i \in Ids |-> CASE i \in P -> "gone"
                                      [] i \in exhausted -> "dead_letter"
                                      [] i \in S \ exhausted -> "pending"
                                      [] OTHER -> status[i]]
        /\ retry' = [i \in Ids |-> IF i \in S THEN retry[i] + 1 ELSE retry[i]]
        /\ fired' = Fire(fired, exhausted, "dropped")
        /\ reopened' = reopened \cup S

SkipCleanup(e) ==
    /\ epc[e] = "cleanup"
    /\ epc' = [epc EXCEPT ![e] = "depth"]
    /\ UNCHANGED <<row, worker, req, need, victims, ready, bounds, history>>

SomeCleanup ==
    \E S \in SUBSET {i \in Ids : status[i] = "in_progress" /\ ~recent[i]} :
    \E P \in SUBSET {i \in Ids : status[i] \in Terminal /\ ~recent[i]} :
        /\ S \cup P # {}
        /\ CleanupStale(S, P)

AutoCleanup(e) ==
    /\ epc[e] = "cleanup"
    /\ epc' = [epc EXCEPT ![e] = "depth"]
    /\ SomeCleanup
    /\ UNCHANGED <<content, prio, due, recent, worker, req, need, victims, ready, bounds,
                   wire, acked, raced, cleared>>

\* The same cleanup run by an enqueue for another destination of this queue.
CleanupByOtherTraffic ==
    /\ OtherTraffic
    /\ SomeCleanup
    /\ UNCHANGED <<content, prio, due, recent, worker, writer, ready, bounds,
                   wire, acked, raced, cleared>>

\* Faulty: > for >=.
ReadDepthOffByOne(e) ==
    /\ epc[e] = "depth"
    /\ IF MaxQueueSize > 0 /\ Depth > MaxQueueSize
       THEN /\ need' = [need EXCEPT ![e] = Depth - MaxQueueSize + 1]
            /\ epc' = [epc EXCEPT ![e] = "shed"]
       ELSE /\ epc' = [epc EXCEPT ![e] = "insert"]
            /\ UNCHANGED need
    /\ UNCHANGED <<row, worker, req, victims, ready, bounds, history>>

\* get_queue_depth; max_queue_size = 0 means no limit.
ReadDepth(e) ==
    /\ epc[e] = "depth"
    /\ IF MaxQueueSize > 0 /\ Depth >= MaxQueueSize
       THEN /\ need' = [need EXCEPT ![e] = Depth - MaxQueueSize + 1]
            /\ epc' = [epc EXCEPT ![e] = "shed"]
       ELSE /\ epc' = [epc EXCEPT ![e] = "insert"]
            /\ UNCHANGED need
    /\ UNCHANGED <<row, worker, req, victims, ready, bounds, history>>

\* _shed_overflow: SELECT ...; nothing sheddable rejects the new message.
ShedSelect(e) ==
    /\ epc[e] = "shed"
    /\ \/ /\ Sheddable(need[e]) = {}
          /\ Return(e)
          /\ UNCHANGED victims
       \/ /\ Sheddable(need[e]) # {}
          /\ victims' = [victims EXCEPT ![e] = Sheddable(need[e])]
          /\ epc' = [epc EXCEPT ![e] = "delete"]
          /\ UNCHANGED <<req, need>>
    /\ UNCHANGED <<row, worker, ready, bounds, history>>

\* Faulty: the rows vanish unwitnessed.
ShedSilently(e) ==
    /\ epc[e] = "delete"
    /\ status' = [i \in Ids |-> IF i \in victims[e] THEN "gone" ELSE status[i]]
    /\ raced' = raced \cup {i \in victims[e] : status[i] # "pending"}
    /\ victims' = [victims EXCEPT ![e] = {}]
    /\ epc' = [epc EXCEPT ![e] = "insert"]
    /\ UNCHANGED <<retry, content, prio, due, recent, worker, req, need, ready, bounds,
                   fired, wire, acked, reopened, cleared>>

\* Faulty: witnessed as dropped, never deleted.
ShedNotDeleted(e) ==
    /\ epc[e] = "delete"
    /\ fired' = Fire(fired, victims[e], "dropped")
    /\ victims' = [victims EXCEPT ![e] = {}]
    /\ epc' = [epc EXCEPT ![e] = "insert"]
    /\ UNCHANGED <<row, worker, req, need, ready, bounds, wire, acked, reopened, raced, cleared>>

\* ... then DELETE by id, whatever the rows have become, and a DROPPED record
\* and hook call for every selected row.
ShedDelete(e) ==
    /\ epc[e] = "delete"
    /\ status' = [i \in Ids |-> IF i \in victims[e] THEN "gone" ELSE status[i]]
    /\ fired' = Fire(fired, victims[e], "dropped")
    /\ raced' = raced \cup {i \in victims[e] : status[i] # "pending"}
    /\ victims' = [victims EXCEPT ![e] = {}]
    /\ epc' = [epc EXCEPT ![e] = "insert"]
    /\ UNCHANGED <<retry, content, prio, due, recent, worker, req, need, ready, bounds,
                   wire, acked, reopened, cleared>>

\* INSERT; ids are minted in order.
Insert(e) ==
    /\ epc[e] = "insert"
    /\ \E i \in Ids :
         /\ status[i] = "unborn"
         /\ \A j \in Ids : j < i => status[j] # "unborn"
         /\ status' = [status EXCEPT ![i] = "pending"]
         /\ content' = [content EXCEPT ![i] = req[e].content]
         /\ prio' = [prio EXCEPT ![i] = req[e].prio]
         /\ due' = [due EXCEPT ![i] = TRUE]
         /\ recent' = [recent EXCEPT ![i] = TRUE]
    /\ Return(e)
    /\ UNCHANGED <<retry, worker, victims, ready, bounds, history>>

------------------------------------------------------------------------------
(* Operator calls, time, connectivity, crash *)

RetryDeadLetter(i) ==
    /\ revivals < MaxRevivals
    /\ status[i] = "dead_letter"
    /\ status' = [status EXCEPT ![i] = "pending"]
    /\ retry' = [retry EXCEPT ![i] = 0]
    /\ due' = [due EXCEPT ![i] = TRUE]
    /\ revivals' = revivals + 1
    /\ reopened' = reopened \cup {i}
    /\ UNCHANGED <<content, prio, recent, worker, writer, ready, crashes, clears,
                   fired, wire, acked, raced, cleared>>

\* clear_all deletes every row and calls no hook.
ClearAll ==
    /\ clears < MaxClears
    /\ status' = [i \in Ids |-> IF status[i] = "unborn" THEN "unborn" ELSE "gone"]
    /\ clears' = clears + 1
    /\ cleared' = cleared \cup {i \in Ids : status[i] \in Active}
    /\ UNCHANGED <<retry, content, prio, due, recent, worker, writer, ready, crashes, revivals,
                   fired, wire, acked, reopened, raced>>

BackoffElapses(i) ==
    /\ status[i] \in Active
    /\ ~due[i]
    /\ due' = [due EXCEPT ![i] = TRUE]
    /\ UNCHANGED <<status, retry, content, prio, recent, worker, writer, ready, bounds, history>>

DedupWindowPasses(i) ==
    /\ recent[i]
    /\ recent' = [recent EXCEPT ![i] = FALSE]
    /\ UNCHANGED <<status, retry, content, prio, due, worker, writer, ready, bounds, history>>

LinkChanges ==
    /\ Gated
    /\ ready' = ~ready
    /\ UNCHANGED <<row, worker, writer, bounds, history>>

\* Only the table survives a crash of the process.
Crash ==
    /\ crashes < MaxCrashes
    /\ crashes' = crashes + 1
    /\ wpc' = [w \in Workers |-> "idle"]
    /\ batch' = [w \in Workers |-> {}]
    /\ cur' = [w \in Workers |-> 0]
    /\ seen' = [w \in Workers |-> 0]
    /\ epc' = [e \in Writers |-> "idle"]
    /\ req' = [e \in Writers |-> NoReq]
    /\ need' = [e \in Writers |-> 0]
    /\ victims' = [e \in Writers |-> {}]
    /\ UNCHANGED <<row, ready, revivals, clears, history>>

------------------------------------------------------------------------------
Init ==
    /\ status = [i \in Ids |-> "unborn"]
    /\ retry = [i \in Ids |-> 0]
    /\ content = [i \in Ids |-> NoReq.content]
    /\ prio = [i \in Ids |-> NORMAL]
    /\ due = [i \in Ids |-> FALSE]
    /\ recent = [i \in Ids |-> FALSE]
    /\ wpc = [w \in Workers |-> "idle"]
    /\ batch = [w \in Workers |-> {}]
    /\ cur = [w \in Workers |-> 0]
    /\ seen = [w \in Workers |-> 0]
    /\ epc = [e \in Writers |-> "idle"]
    /\ req = [e \in Writers |-> NoReq]
    /\ need = [e \in Writers |-> 0]
    /\ victims = [e \in Writers |-> {}]
    /\ ready = TRUE
    /\ crashes = 0 /\ revivals = 0 /\ clears = 0
    /\ fired = [i \in Ids |-> [r \in Results |-> 0]]
    /\ wire = [i \in Ids |-> 0]
    /\ acked = {} /\ reopened = {} /\ raced = {} /\ cleared = {}

Errors == {"retriable", "non_retriable", "unknown"}

WorkerStep(w) ==
    \/ Fetch(w) \/ PaceBreak(w) \/ MarkInProgress(w)
    \/ Transmit(w) \/ \E o \in Outcomes : Send(w, o)
    \/ MarkDelivered(w) \/ DeliveredUnrecorded(w)
    \/ MarkFailedRead(w) \/ \E x \in Errors : MarkFailedWrite(w, x)
    \/ MarkDeferred(w) \/ MarkRefused(w) \/ RecordingError(w)

\* The steps of an enqueue already under way.
WriterStep(e) ==
    \/ SkipCleanup(e) \/ AutoCleanup(e) \/ ReadDepth(e)
    \/ ShedSelect(e) \/ ShedDelete(e) \/ Insert(e)

Next ==
    \/ \E w \in Workers : WorkerStep(w)
    \/ \E w \in Workers, i \in Ids : ExpireOverdue(w, i)
    \/ \E e \in Writers, c \in Contents, p \in Priorities : CheckDuplicate(e, c, p)
    \/ \E e \in Writers : WriterStep(e)
    \/ \E i \in Ids : RetryDeadLetter(i) \/ BackoffElapses(i) \/ DedupWindowPasses(i)
    \/ CleanupByOtherTraffic \/ ClearAll \/ LinkChanges \/ Crash

Spec == Init /\ [][Next]_vars

------------------------------------------------------------------------------
(* Fairness: the background loop and the bridge loop keep calling          *)
(* process_once and every call in it returns (transports have timeouts);   *)
(* an enqueue under way finishes; time passes.  Nothing makes anybody      *)
(* enqueue.  Expiry is attempted only every _EXPIRE_EVERY_S and needs the  *)
(* row to be pending at that moment, hence strong fairness.                *)

Fairness ==
    /\ \A w \in Workers : WF_vars(WorkerStep(w))
    /\ \A e \in Writers : WF_vars(WriterStep(e))
    /\ \A i \in Ids : WF_vars(BackoffElapses(i)) /\ WF_vars(DedupWindowPasses(i))
    /\ \A i \in Ids : SF_vars(\E w \in Workers : ExpireOverdue(w, i))

FairSpec == Spec /\ Fairness

------------------------------------------------------------------------------
(* Properties *)

Exits(i) == fired[i]["delivered"] + fired[i]["dropped"]

RowOK ==
    /\ status \in [Ids -> Statuses]
    /\ retry \in [Ids -> Nat]
    /\ content \in [Ids -> Contents]
    /\ prio \in [Ids -> 1..4]
    /\ due \in [Ids -> BOOLEAN]
    /\ recent \in [Ids -> BOOLEAN]

WorkerOK ==
    /\ wpc \in [Workers -> {"idle", "batch"} \cup Holding]
    /\ batch \in [Workers -> SUBSET Ids]
    /\ cur \in [Workers -> Ids \cup {0}]
    /\ \A w \in Workers : wpc[w] \in Holding => cur[w] \in Ids
    /\ seen \in [Workers -> Nat]

WriterOK ==
    /\ epc \in [Writers -> {"idle", "cleanup", "depth", "shed", "delete", "insert"}]
    /\ req \in [Writers -> [content : Contents, prio : 1..4]]
    /\ need \in [Writers -> Int]
    /\ victims \in [Writers -> SUBSET Ids]

HistoryOK ==
    /\ fired \in [Ids -> [Results -> Nat]]
    /\ wire \in [Ids -> Nat]
    /\ acked \subseteq Ids /\ reopened \subseteq Ids /\ raced \subseteq Ids /\ cleared \subseteq Ids

BoundsOK == ready \in BOOLEAN /\ crashes \in Nat /\ revivals \in Nat /\ clears \in Nat

\* Every variable keeps its type, and a worker past its claim has a row in hand.
TypeOK == RowOK /\ WorkerOK /\ WriterOK /\ HistoryOK /\ BoundsOK

\* mark_in_progress is the only arbiter between process_once callers: until
\* cleanup_stale or retry_dead_letter touches a row, no two workers have it in
\* hand, however stale the batches they iterate over.
OneWorkerPerRow ==
    \A i \in Ids \ reopened : \A v, w \in Workers : Holds(v, i) /\ Holds(w, i) => v = w

\* Once send_fn has reported success, nothing more of the row goes out unless
\* cleanup_stale or retry_dead_letter reopened it: not after a bookkeeping
\* error, a crash, a lost claim race or a deletion under the worker.
NoResendAfterSuccess == [][\A i \in acked \ reopened : wire'[i] = wire[i]]_vars

\* The terminal hook runs at most once per row, unless the row was reopened or
\* was shed after it had left 'pending'.
HookOnce == \A i \in Ids \ (reopened \cup raced) : Exits(i) <= 1

\* No row leaves the queue unwitnessed: delivered, dead-lettered, shed, expired
\* or purged, its hook has run (clear_all is the exception).
EveryExitFires ==
    \A i \in Ids \ cleared : status[i] \in Terminal \cup {"gone"} => Exits(i) > 0

\* A row reported dropped has never been reported sent, unless it was reopened
\* or shed after it had left 'pending'.  (It may have been transmitted: send_fn
\* also fails after the payload, or a part of it, has left.)
DropHonest ==
    \A i \in Ids : fired[i]["dropped"] > 0 /\ i \in acked => i \in reopened \cup raced

\* Every row still in play has an attempt left, although mark_failed writes
\* back a retry_count it read earlier and cleanup_stale counts on its own.
ActiveHasBudget == \A i \in Ids : status[i] \in Active => retry[i] < Budget

\* A dead letter is not retried behind the operator's back: a late mark_failed,
\* mark_deferred or cleanup_stale leaves it alone.
DeadStaysDead ==
    [][\A i \in Ids : status[i] = "dead_letter" =>
          status'[i] \in {"dead_letter", "delivered", "gone"} \/ revivals' > revivals]_vars

\* cleanup_stale bounds the life of a delivered-but-unrecorded row: "re-sent at
\* most max_retries times before dead-lettering".  With one process_once caller
\* no row is transmitted more often than its budget of attempts, those whose
\* failure or crash came after the transmission included.
ResendWithinBudget == \A i \in Ids : wire[i] <= Budget

\* max_queue_size: "Maximum active messages (pending + in_progress)".
DepthBound == MaxQueueSize > 0 => Depth <= MaxQueueSize

\* A row is dispatched only after the backoff its last failure or deferral set.
BackoffHonoured ==
    [][\A i \in Ids : status[i] = "pending" /\ status'[i] = "in_progress" => due[i]]_vars

\* on_terminal: "once per row, at every exit".
HookOncePerRow == \A i \in Ids : Exits(i) <= 1 + revivals

\* What a row looks like to the code that registered the sender.
Abstract(s) == CASE s = "unborn" -> "none"       [] s = "pending" -> "waiting"
                 [] s = "in_progress" -> "taken" [] s = "delivered" -> "done"
                 [] s = "dead_letter" -> "dead"  [] OTHER -> "gone"
Contract == INSTANCE QueueContract
            WITH Rows <- Ids, state <- [i \in Ids |-> Abstract(status[i])], hooks <- fired

\* The queue implements its contract: threads, batches and the table aside, a
\* row only ever makes the steps of QueueContract, and its hook is told of
\* exactly the ends the contract names, in the step that ends it.
ImplementsContract == Contract!Spec

\* Every accepted row is eventually delivered, dead-lettered, shed or expired,
\* unless a crash or a failed write leaves it in_progress behind its worker.
LeftBehind(i) == status[i] = "in_progress" /\ \A w \in Workers : ~Holds(w, i)
EveryRowEnds ==
    \A i \in Ids : status[i] = "pending" ~> status[i] \notin Active \/ LeftBehind(i)

\* Rows stuck in_progress "past STALE_TIMEOUT (crashed or wedged dispatch) are
\* reset to pending so they can be retried".
StuckRowRecovered == \A i \in Ids : status[i] = "in_progress" ~> status[i] # "in_progress"
=============================================================================
