--------------------------- MODULE CircuitBreaker ---------------------------
(***************************************************************************)
(* Circuit breakers per destination (gateway/circuit_breaker.py) and the   *)
(* threads that use them: can_send, the call, record_success or            *)
(* record_failure.  Each of can_send and record_* first looks the circuit  *)
(* up under the registry's lock and then works on it under its own, so     *)
(* another thread can come in between, and so can anything while the call  *)
(* is under way.  A circuit that was evicted meanwhile is still in the     *)
(* hands of the thread that looked it up.                                  *)
(*                                                                         *)
(* time.monotonic() - _last_failure_time >= recovery_timeout is the flag   *)
(* `elapsed'.  _failure_count is compared with the threshold only and      *)
(* saturates there.  Which of the closed circuits is the oldest is left    *)
(* open.                                                                   *)
(***************************************************************************)
EXTENDS Integers, FiniteSets

CONSTANTS
    Callers,            \* threads that send
    Dests,              \* destinations
    Circuits,           \* CircuitBreaker objects
    NoCircuit,
    FailureThreshold,   \* failure_threshold
    MaxCircuits,        \* MAX_CIRCUITS
    MayAbandon          \* may a caller return between can_send and record_*?

ASSUME BreakerAssumption ==
    /\ FailureThreshold \in Nat \ {0}
    /\ MaxCircuits \in Nat \ {0}
    /\ Dests # {}
    /\ NoCircuit \notin Circuits
    /\ MayAbandon \in BOOLEAN

VARIABLES
    reg,        \* _circuits: the circuit of each destination
    circ,       \* the circuits; .trials is history: who was admitted in this half-open episode
    pc,         \* per caller: idle, ask (before can_execute), calling, record
    dest,       \* the destination it sends to
    held,       \* the circuit it looked up
    ok,         \* how its call ended
    up,         \* environment: does the destination accept?
    losses      \* history: failures reported for a destination since its last
                \* reported success or reset

caller == <<pc, dest, held, ok>>
vars   == <<reg, circ, caller, up, losses>>

AnyDest == CHOOSE d \in Dests : TRUE
Phases  == {"idle", "ask", "calling", "record"}
HalfOpenMaxCalls == 1       \* __post_init__ clamps it

Saturated(n) == IF n < FailureThreshold THEN n + 1 ELSE n

------------------------------------------------------------------------------
(* CircuitBreaker: what each call makes of a circuit k                     *)

NewCircuit == [state |-> "closed", failures |-> 0, elapsed |-> TRUE, half |-> 0, trials |-> {}]

\* _transition_to
TransitionTo(k, s) ==
    IF k.state = s THEN k
    ELSE [k EXCEPT !.state = s,
                   !.half = IF s = "half_open" THEN 0 ELSE @,
                   !.failures = IF s = "closed" THEN 0 ELSE @,
                   !.trials = {}]

\* Faulty: an open circuit is never tried again.
AdmitsNoTrial(k) == k.state = "closed"

\* can_execute's answer ...
Admits(k) ==
    \/ k.state = "closed"
    \/ k.state = "open" /\ k.elapsed
    \/ k.state = "half_open" /\ k.half < HalfOpenMaxCalls

\* Faulty: the transitioning caller does not take the trial slot.
AdmitUncounted(k, c) ==
    CASE k.state = "closed"    -> k
      [] k.state = "open"      -> [TransitionTo(k, "half_open") EXCEPT !.trials = {c}]
      [] k.state = "half_open" -> [k EXCEPT !.half = @ + 1, !.trials = @ \cup {c}]

\* ... and its effect when it admits caller c.
Admit(k, c) ==
    CASE k.state = "closed"    -> k
      [] k.state = "open"      ->
            [TransitionTo(k, "half_open") EXCEPT !.half = 1, !.trials = {c}]
      [] k.state = "half_open" -> [k EXCEPT !.half = @ + 1, !.trials = @ \cup {c}]

\* record_success
Success(k) ==
    [(IF k.state = "half_open" THEN TransitionTo(k, "closed") ELSE k) EXCEPT !.failures = 0]

\* Faulty: a failed trial leaves the circuit half-open.
FailureKeepsProbing(k) ==
    LET n == Saturated(k.failures)
        j == [k EXCEPT !.failures = n, !.elapsed = FALSE]
    IN  IF k.state = "closed" /\ n >= FailureThreshold THEN TransitionTo(j, "open") ELSE j

\* Faulty: the circuit opens one failure late.
FailureOffByOne(k) ==
    LET j == [k EXCEPT !.failures = Saturated(@), !.elapsed = FALSE]
    IN  IF k.state = "half_open" \/ (k.state = "closed" /\ k.failures >= FailureThreshold)
        THEN TransitionTo(j, "open") ELSE j

\* record_failure
Failure(k) ==
    LET n == Saturated(k.failures)
        j == [k EXCEPT !.failures = n, !.elapsed = FALSE]
    IN  IF k.state = "half_open" \/ (k.state = "closed" /\ n >= FailureThreshold)
        THEN TransitionTo(j, "open") ELSE j

\* reset
ResetCircuit(k) == [TransitionTo(k, "closed") EXCEPT !.failures = 0, !.half = 0]

------------------------------------------------------------------------------
(* CircuitBreakerRegistry                                                  *)

Tracked   == {d \in Dests : reg[d] # NoCircuit}
Evictable == {d \in Tracked : circ[reg[d]].state = "closed"}
Unused    == {o \in Circuits : /\ \A d \in Dests : reg[d] # o
                               /\ \A c \in Callers : held[c] # o}

\* _get_or_create(d) returns o.  A full table loses a closed circuit, or grows
\* when there is none.
GetOrCreate(d, o) ==
    \/ /\ reg[d] = o
       /\ UNCHANGED <<reg, circ>>
    \/ /\ reg[d] = NoCircuit
       /\ o \in Unused
       /\ IF Cardinality(Tracked) >= MaxCircuits /\ Evictable # {}
          THEN \E e \in Evictable : reg' = [reg EXCEPT ![e] = NoCircuit, ![d] = o]
          ELSE reg' = [reg EXCEPT ![d] = o]
       /\ circ' = [circ EXCEPT ![o] = NewCircuit]

\* can_send, first half
Ask(c, d) ==
    /\ pc[c] = "idle"
    /\ \E o \in Circuits : GetOrCreate(d, o) /\ held' = [held EXCEPT ![c] = o]
    /\ pc' = [pc EXCEPT ![c] = "ask"]
    /\ dest' = [dest EXCEPT ![c] = d]
    /\ UNCHANGED <<ok, up, losses>>

\* The caller is done with this message.
Done(c) ==
    /\ pc' = [pc EXCEPT ![c] = "idle"]
    /\ dest' = [dest EXCEPT ![c] = AnyDest]
    /\ ok' = [ok EXCEPT ![c] = FALSE]

\* can_send, second half: can_execute
CanExecute(c) ==
    /\ pc[c] = "ask"
    /\ held' = [held EXCEPT ![c] = NoCircuit]
    /\ LET k == circ[held[c]] IN
       IF Admits(k)
       THEN /\ circ' = [circ EXCEPT ![held[c]] = Admit(k, c)]
            /\ pc' = [pc EXCEPT ![c] = "calling"]
            /\ UNCHANGED <<dest, ok>>
       ELSE Done(c) /\ UNCHANGED circ
    /\ UNCHANGED <<reg, up, losses>>

\* The call ends as the destination is at that moment; the recorder looks the
\* circuit up again.
EndCall(c) ==
    /\ pc[c] = "calling"
    /\ ok' = [ok EXCEPT ![c] = up[dest[c]]]
    /\ \E o \in Circuits : GetOrCreate(dest[c], o) /\ held' = [held EXCEPT ![c] = o]
    /\ pc' = [pc EXCEPT ![c] = "record"]
    /\ UNCHANGED <<dest, up, losses>>

\* The caller returns without recording an outcome.
Abandon(c) ==
    /\ MayAbandon
    /\ pc[c] = "calling"
    /\ Done(c)
    /\ UNCHANGED <<reg, circ, held, up, losses>>

RecordSuccess(c) ==
    /\ pc[c] = "record" /\ ok[c]
    /\ circ' = [circ EXCEPT ![held[c]] = Success(@)]
    /\ losses' = [losses EXCEPT ![dest[c]] = 0]
    /\ held' = [held EXCEPT ![c] = NoCircuit]
    /\ Done(c)
    /\ UNCHANGED <<reg, up>>

RecordFailure(c) ==
    /\ pc[c] = "record" /\ ~ok[c]
    /\ circ' = [circ EXCEPT ![held[c]] = Failure(@)]
    /\ losses' = [losses EXCEPT ![dest[c]] = Saturated(@)]
    /\ held' = [held EXCEPT ![c] = NoCircuit]
    /\ Done(c)
    /\ UNCHANGED <<reg, up>>

\* reset, and each step of reset_all (after a reconnect)
Reset(d) ==
    /\ reg[d] # NoCircuit
    /\ circ' = [circ EXCEPT ![reg[d]] = ResetCircuit(@)]
    /\ losses' = [losses EXCEPT ![d] = 0]
    /\ UNCHANGED <<reg, caller, up>>

\* recovery_timeout has passed since the last failure.
Elapse(o) ==
    /\ o \notin Unused
    /\ ~circ[o].elapsed
    /\ circ' = [circ EXCEPT ![o].elapsed = TRUE]
    /\ UNCHANGED <<reg, caller, up, losses>>

Flip(d) ==
    /\ up' = [up EXCEPT ![d] = ~@]
    /\ UNCHANGED <<reg, circ, caller, losses>>

------------------------------------------------------------------------------
Init ==
    /\ reg = [d \in Dests |-> NoCircuit]
    /\ circ = [o \in Circuits |-> NewCircuit]
    /\ pc = [c \in Callers |-> "idle"]
    /\ dest = [c \in Callers |-> AnyDest]
    /\ held = [c \in Callers |-> NoCircuit]
    /\ ok = [c \in Callers |-> FALSE]
    /\ up = [d \in Dests |-> TRUE]
    /\ losses = [d \in Dests |-> 0]

CallStep(c) == CanExecute(c) \/ EndCall(c) \/ RecordSuccess(c) \/ RecordFailure(c)

Next ==
    \/ \E c \in Callers : CallStep(c) \/ Abandon(c) \/ \E d \in Dests : Ask(c, d)
    \/ \E d \in Dests : Reset(d) \/ Flip(d)
    \/ \E o \in Circuits : Elapse(o)

Spec == Init /\ [][Next]_vars

\* Somebody keeps sending, calls return (every transport has a timeout), time passes.
Fairness ==
    /\ \A c \in Callers : WF_vars(CallStep(c)) /\ WF_vars(\E d \in Dests : Ask(c, d))
    /\ \A o \in Circuits : WF_vars(Elapse(o))

FairSpec == Spec /\ Fairness

------------------------------------------------------------------------------
(* Properties *)

States == {"closed", "open", "half_open"}

\* Every variable keeps its type.
TypeOK ==
    /\ reg \in [Dests -> Circuits \cup {NoCircuit}]
    /\ circ \in [Circuits -> [state : States, failures : 0..FailureThreshold,
                              elapsed : BOOLEAN, half : 0..HalfOpenMaxCalls,
                              trials : SUBSET Callers]]
    /\ pc \in [Callers -> Phases]
    /\ dest \in [Callers -> Dests]
    /\ held \in [Callers -> Circuits \cup {NoCircuit}]
    /\ ok \in [Callers -> BOOLEAN]
    /\ up \in [Dests -> BOOLEAN]
    /\ losses \in [Dests -> 0..FailureThreshold]

\* Once FailureThreshold failures in a row have been reported for a destination
\* whose circuit was never evicted, its circuit is not closed, whatever late
\* outcomes, resets and trials come in between.
FailingIsBlocked ==
    \A d \in Tracked : losses[d] >= FailureThreshold => circ[reg[d]].state # "closed"

\* One half-open episode of a circuit admits one caller, the one whose
\* can_execute ended the open state included.
OneTrialPerEpisode == \A o \in Circuits : \A b, c \in circ[o].trials : b = c

\* A half-open circuit is left by an outcome and by nothing else, so the call
\* it admitted must still be on its way to report one.
HalfOpenHasTrial ==
    \A d \in Tracked : circ[reg[d]].state = "half_open" =>
        \E c \in circ[reg[d]].trials :
            dest[c] = d /\ (pc[c] = "calling" \/ (pc[c] = "record" /\ held[c] = reg[d]))

\* The breaker "blocks requests when a destination is unhealthy, then
\* periodically tests for recovery": when the destination stays healthy and
\* somebody keeps sending, the circuit closes for good.
Recovers ==
    \A d \in Dests :
        <>[]up[d] => <>[](reg[d] # NoCircuit /\ circ[reg[d]].state = "closed")
=============================================================================
