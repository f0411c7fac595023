---------------------------- MODULE AckSynthesis ----------------------------
(***************************************************************************)
(* Application-layer receipts (issue 66): the ack columns of the queue's   *)
(* table (gateway/message_queue_ack_mixin.py) and the threads that race    *)
(* for them (bridge_ack_mixin.py): LXMF callbacks, several per message,    *)
(* and the sweep of the bridge loop.  Who moves a record out of 'pending'  *)
(* owes its origin one receipt and sends it afterwards, without a lock.    *)
(*                                                                         *)
(* A message comes from enqueue_message, which registers its record after  *)
(* the row is in the queue, or is a broadcast of LXMFBroadcastBridge,      *)
(* which registers a row of its own first and then fans out one copy per   *)
(* subscriber.  The rows of the former make steps of QueueContract.        *)
(***************************************************************************)
EXTENDS Integers, FiniteSets

CONSTANTS
    Queued,         \* messages of enqueue_message, all with ack_required
    Broadcasts,     \* broadcasts that ask for a receipt
    MaxCopies,      \* bound on copies of a message in LXMF's hands at a time
    MaxFaults,      \* bound on statements that raise and receipts not sent
    MaxCrashes      \* bound on process crashes

ASSUME AckAssumption ==
    /\ Queued \cap Broadcasts = {}
    /\ MaxCopies \in Nat /\ MaxFaults \in Nat /\ MaxCrashes \in Nat

VARIABLES
    row,            \* of each message, as QueueContract has it
    ack,            \* ack_status; what it was when the row went
    due,            \* has ack_timeout_at passed?
    pc,             \* per message, the thread that accepts it
    flying,         \* copies handed to LXMF whose callback is to come
    owed, told,     \* receipts to send, receipts sent, by kind
    batch,          \* of the sweep
    faults, crashes,
    issued,         \* history: receipts ever owed
    heard,          \* history: callbacks that ran
    missed          \* history: broadcasts with a callback that could not record

record  == <<row, ack, due>>
bounds  == <<faults, crashes>>
history == <<issued, heard, missed>>
vars    == <<record, pc, flying, owed, told, batch, bounds, history>>

Messages == Queued \cup Broadcasts
Kinds    == {"delivered", "failed", "timeout"}
Final    == {"acked", "timeout"}
NoReceipts == [k \in Kinds |-> 0]

Queue == INSTANCE QueueContract
         WITH Rows <- Messages, state <- row,
              hooks <- [m \in Messages |-> [delivered |-> 0, dropped |-> 0]]

Exists(m)  == row[m] \notin {"none", "gone"}
Pending(m) == Exists(m) /\ ack[m] = "pending"

Owe(m, k) ==
    /\ owed'   = [owed EXCEPT ![m][k] = @ + 1]
    /\ issued' = [issued EXCEPT ![m][k] = @ + 1]

Fault == faults < MaxFaults /\ faults' = faults + 1

------------------------------------------------------------------------------
(* The thread that accepts a message *)

\* enqueue_message: enqueue commits, and the row may be claimed from here on.
Enqueue(m) ==
    /\ m \in Queued /\ pc[m] = "new"
    /\ row' = [row EXCEPT ![m] = "waiting"]
    /\ pc' = [pc EXCEPT ![m] = "register"]
    /\ UNCHANGED <<ack, due, flying, owed, told, batch, bounds, history>>

\* register_pending_ack: UPDATE ... WHERE id = ?, which finds the row unless it
\* was deleted meanwhile.
Register(m) ==
    /\ m \in Queued /\ pc[m] = "register"
    /\ pc' = [pc EXCEPT ![m] = "accepted"]
    /\ \/ /\ ack' = IF Exists(m) THEN [ack EXCEPT ![m] = "pending"] ELSE ack
          /\ UNCHANGED faults
       \/ Fault /\ UNCHANGED ack
    /\ UNCHANGED <<row, due, flying, owed, told, batch, crashes, history>>

\* on_meshcore_message registers an orphan row, 'delivered' so that no worker
\* takes it.  If that raises, the fan-out asks for no receipt.  A fan-out that
\* has ended is one that hands over no more.
RegisterOrphan(m) ==
    /\ m \in Broadcasts /\ pc[m] = "new"
    /\ \/ /\ row' = [row EXCEPT ![m] = "done"]
          /\ ack' = [ack EXCEPT ![m] = "pending"]
          /\ pc' = [pc EXCEPT ![m] = "fanout"]
          /\ UNCHANGED faults
       \/ /\ Fault
          /\ pc' = [pc EXCEPT ![m] = "accepted"]
          /\ UNCHANGED <<row, ack>>
    /\ UNCHANGED <<due, flying, owed, told, batch, crashes, history>>

Sending(m) == (m \in Queued /\ row[m] = "taken") \/ pc[m] = "fanout"

\* Faulty: the fan-out may start before the record is registered.
HandOverEarly(m) ==
    /\ Sending(m) \/ (m \in Broadcasts /\ pc[m] = "new")
    /\ flying[m] < MaxCopies
    /\ flying' = [flying EXCEPT ![m] = @ + 1]
    /\ UNCHANGED <<record, pc, owed, told, batch, bounds, history>>

\* handle_outbound, with the callbacks registered on the copy: by the sender of
\* a claimed row or for the next subscriber of a fan-out.
HandOver(m) ==
    /\ Sending(m)
    /\ flying[m] < MaxCopies
    /\ flying' = [flying EXCEPT ![m] = @ + 1]
    /\ UNCHANGED <<record, pc, owed, told, batch, bounds, history>>

\* Whatever else the queue does with its rows; a row for a radio is delivered
\* without a copy.  An orphan is only purged.
RowMoves(m) ==
    /\ \E s \in Queue!Steps \ Queue!Accepts :
          /\ row[m] = s[1]
          /\ row' = [row EXCEPT ![m] = s[2]]
          /\ m \in Broadcasts => s \in Queue!Purges
    /\ UNCHANGED <<ack, due, pc, flying, owed, told, batch, bounds, history>>

\* clear_all
Clear ==
    /\ row' = [m \in Messages |-> IF row[m] = "none" THEN "none" ELSE "gone"]
    /\ UNCHANGED <<ack, due, pc, flying, owed, told, batch, bounds, history>>

------------------------------------------------------------------------------
(* Receipts *)

\* Faulty: the row is marked whatever its status is.
MarkAckedBlindly(m, k) ==
    \/ /\ Exists(m)
       /\ ack' = [ack EXCEPT ![m] = "acked"]
       /\ Owe(m, k)
       /\ UNCHANGED <<faults, missed>>
    \/ ~Exists(m) /\ UNCHANGED <<ack, owed, issued, faults, missed>>

\* mark_acked: the UPDATE is the gate.  A raise leaves the record to the sweep.
MarkAcked(m, k) ==
    \/ /\ Pending(m)
       /\ ack' = [ack EXCEPT ![m] = "acked"]
       /\ Owe(m, k)
       /\ UNCHANGED <<faults, missed>>
    \/ /\ ~Pending(m)
       /\ UNCHANGED <<ack, owed, issued, faults, missed>>
    \/ /\ Fault
       /\ missed' = missed \cup ({m} \cap Broadcasts)
       /\ UNCHANGED <<ack, owed, issued>>

\* Faulty: one failed subscriber fails the broadcast.
CallbackFailsAll(m, k) ==
    /\ flying[m] > 0
    /\ flying' = [flying EXCEPT ![m] = @ - 1]
    /\ heard' = [heard EXCEPT ![m] = @ \cup {k}]
    /\ MarkAcked(m, k)
    /\ UNCHANGED <<row, due, pc, told, batch, crashes>>

\* on_delivered or on_failed of one copy.  A subscriber that failed is no
\* verdict on the broadcast.
Callback(m, k) ==
    /\ flying[m] > 0
    /\ flying' = [flying EXCEPT ![m] = @ - 1]
    /\ heard' = [heard EXCEPT ![m] = @ \cup {k}]
    /\ IF m \in Broadcasts /\ k = "failed"
       THEN UNCHANGED <<ack, owed, issued, faults, missed>>
       ELSE MarkAcked(m, k)
    /\ UNCHANGED <<row, due, pc, told, batch, crashes>>

\* Faulty: only rows that were sent can be overdue.
OverdueDelivered == {m \in Messages : Pending(m) /\ due[m] /\ row[m] = "done"}

\* find_overdue_acks
Overdue == {m \in Messages : Pending(m) /\ due[m]}

\* _sweep_overdue_acks: a read, then row by row ...  (A read that raises is a
\* sweep that comes later.)
SweepFind ==
    /\ batch = {} /\ \A m \in Messages : owed[m]["timeout"] = 0
    /\ Overdue # {}
    /\ batch' = Overdue
    /\ UNCHANGED <<record, pc, flying, owed, told, bounds, history>>

\* ... mark_timeout, which loses against a callback that came first, ...
SweepMark(m) ==
    /\ m \in batch /\ \A n \in Messages : owed[n]["timeout"] = 0
    /\ batch' = batch \ {m}
    /\ \/ /\ Pending(m)
          /\ ack' = [ack EXCEPT ![m] = "timeout"]
          /\ Owe(m, "timeout")
          /\ UNCHANGED faults
       \/ ~Pending(m) /\ UNCHANGED <<ack, owed, issued, faults>>
       \/ Fault /\ UNCHANGED <<ack, owed, issued>>
    /\ UNCHANGED <<row, due, pc, flying, told, crashes, heard, missed>>

\* ... and the receipt: _emit_ack_to_origin, for callbacks and the sweep alike.
\* Nobody looks at its result: a handler that is absent or raises loses it.
Emit(m, k) ==
    /\ owed[m][k] > 0
    /\ owed' = [owed EXCEPT ![m][k] = @ - 1]
    /\ \/ told' = [told EXCEPT ![m][k] = @ + 1] /\ UNCHANGED faults
       \/ Fault /\ UNCHANGED told
    /\ UNCHANGED <<record, pc, flying, batch, crashes, history>>

Elapse(m) ==
    /\ ack[m] = "pending" /\ ~due[m]
    /\ due' = [due EXCEPT ![m] = TRUE]
    /\ UNCHANGED <<row, ack, pc, flying, owed, told, batch, bounds, history>>

\* Threads, LXMF's outbound messages and their callbacks die with the process.
\* A crash that finds nothing to lose is no step.
Crash ==
    /\ crashes < MaxCrashes /\ crashes' = crashes + 1
    /\ \/ batch # {}
       \/ \E m \in Messages : \/ pc[m] \in {"register", "fanout"}
                              \/ flying[m] > 0 \/ owed[m] # NoReceipts
    /\ pc' = [m \in Messages |-> IF pc[m] = "new" THEN "new" ELSE "accepted"]
    /\ flying' = [m \in Messages |-> 0]
    /\ owed' = [m \in Messages |-> NoReceipts]
    /\ batch' = {}
    /\ UNCHANGED <<record, told, faults, history>>

------------------------------------------------------------------------------
Init ==
    /\ row = [m \in Messages |-> "none"]
    /\ ack = [m \in Messages |-> "none"]
    /\ due = [m \in Messages |-> FALSE]
    /\ pc = [m \in Messages |-> "new"]
    /\ flying = [m \in Messages |-> 0]
    /\ owed = [m \in Messages |-> NoReceipts]
    /\ told = [m \in Messages |-> NoReceipts]
    /\ batch = {}
    /\ faults = 0 /\ crashes = 0
    /\ issued = [m \in Messages |-> NoReceipts]
    /\ heard = [m \in Messages |-> {}]
    /\ missed = {}

Next ==
    \/ \E m \in Messages :
          \/ Enqueue(m) \/ Register(m) \/ RegisterOrphan(m)
          \/ HandOver(m) \/ RowMoves(m) \/ SweepMark(m) \/ Elapse(m)
          \/ \E k \in {"delivered", "failed"} : Callback(m, k)
          \/ \E k \in Kinds : Emit(m, k)
    \/ SweepFind
    \/ Clear
    \/ Crash

Spec == Init /\ [][Next]_vars

SweepStep == SweepFind \/ \E m \in Messages : SweepMark(m) \/ Emit(m, "timeout")

\* The bridge loop sweeps every 30 s, what it calls returns, time passes.  No
\* callback is ever certain.
Fairness == WF_vars(SweepStep) /\ \A m \in Messages : WF_vars(Elapse(m))

FairSpec == Spec /\ Fairness

------------------------------------------------------------------------------
(* Properties *)

Sum(f) == f["delivered"] + f["failed"] + f["timeout"]

\* Every variable keeps its type, and no receipt is sent twice.
TypeOK ==
    /\ row \in [Messages -> {"none", "waiting", "taken", "done", "dead", "gone"}]
    /\ ack \in [Messages -> {"none", "pending"} \cup Final]
    /\ due \in [Messages -> BOOLEAN]
    /\ pc \in [Messages -> {"new", "register", "fanout", "accepted"}]
    /\ flying \in [Messages -> 0..MaxCopies]
    /\ owed \in [Messages -> [Kinds -> 0..1]]
    /\ told \in [Messages -> [Kinds -> 0..1]]
    /\ batch \subseteq Messages
    /\ faults \in 0..MaxFaults /\ crashes \in 0..MaxCrashes
    /\ issued \in [Messages -> [Kinds -> 0..1]]
    /\ heard \in [Messages -> SUBSET {"delivered", "failed"}]
    /\ missed \subseteq Messages

\* "Exactly one caller wins this row" (mark_acked): however many callbacks, a
\* sweep and a crash compete, a record that left 'pending' owed its origin one
\* receipt, and one that has not owed none; what is owed or sent was issued.
OneReceipt ==
    \A m \in Messages :
        /\ Sum(issued[m]) = IF ack[m] \in Final THEN 1 ELSE 0
        /\ \A k \in Kinds : owed[m][k] + told[m][k] <= issued[m][k]

\* A receipt says what happened: 'delivered' and 'failed' have a callback of
\* that kind behind them, a broadcast never fails as a whole, and a 'timeout'
\* was past its deadline.
HonestReceipt ==
    \A m \in Messages :
        /\ issued[m]["delivered"] > 0 => "delivered" \in heard[m]
        /\ issued[m]["failed"] > 0 => "failed" \in heard[m] /\ m \notin Broadcasts
        /\ issued[m]["timeout"] > 0 => due[m] /\ ack[m] = "timeout"

\* "The first subscriber whose LXMF delivery callback fires wins": a broadcast
\* times out only if no subscriber's proof came first (or the write that should
\* have recorded it raised), although copies are handed out, proofs arrive and
\* the sweep runs at the same time.
ProofBeatsTimeout ==
    [][\A m \in Broadcasts :
          ack[m] = "pending" /\ ack'[m] = "timeout"
              => "delivered" \notin heard[m] \/ m \in missed]_vars

\* A pending record gets its verdict even if no callback ever comes and through
\* crashes and database errors, unless its row is deleted.
EveryRecordEnds ==
    \A m \in Messages : ack[m] = "pending" ~> ack[m] \in Final \/ row[m] = "gone"

\* "Transition a pending-ack record to 'timeout' after the caller has emitted
\* the synthetic TIMEOUT ACK" (mark_timeout): a record that says 'timeout' has
\* had its receipt, or gets it.
TimedOutIsTold == \A m \in Messages : ack[m] = "timeout" ~> told[m]["timeout"] > 0
=============================================================================
