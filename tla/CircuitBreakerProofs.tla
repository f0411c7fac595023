------------------------ MODULE CircuitBreakerProofs ------------------------
(***************************************************************************)
(* Safety of CircuitBreaker for any number of callers, destinations and    *)
(* circuits and any threshold.                                             *)
(***************************************************************************)
EXTENDS CircuitBreaker, FiniteSetTheorems, TLAPS

CircuitType == [state : States, failures : 0..FailureThreshold, elapsed : BOOLEAN,
                half : 0..HalfOpenMaxCalls, trials : SUBSET Callers]

(* What holds of every circuit object: a closed one is below the threshold, *)
(* and the trials are those of the slot.                                    *)
Sane(k) ==
    /\ k \in CircuitType
    /\ k.state = "closed" => k.failures < FailureThreshold
    /\ k.state # "half_open" => k.trials = {}
    /\ k.state = "half_open" /\ k.half = 0 => k.trials = {}
    /\ \A b, c \in k.trials : b = c

------------------------------------------------------------------------------
(* The operations on one circuit *)

LEMMA Saturates ==
    ASSUME NEW n \in 0..FailureThreshold
    PROVE  /\ Saturated(n) \in 0..FailureThreshold
           /\ Saturated(n) >= n
           /\ n < FailureThreshold => Saturated(n) = n + 1
BY BreakerAssumption DEF Saturated

LEMMA NewIsSane == Sane(NewCircuit)
BY BreakerAssumption DEF Sane, CircuitType, NewCircuit, States, HalfOpenMaxCalls

LEMMA Transition ==
    ASSUME NEW k \in CircuitType, NEW s \in States, k.state # s
    PROVE  /\ TransitionTo(k, s) \in CircuitType
           /\ TransitionTo(k, s).state = s
           /\ TransitionTo(k, s).failures = IF s = "closed" THEN 0 ELSE k.failures
           /\ TransitionTo(k, s).trials = {}
<1>1. TransitionTo(k, s) =
        [state |-> s, failures |-> IF s = "closed" THEN 0 ELSE k.failures,
         elapsed |-> k.elapsed, half |-> IF s = "half_open" THEN 0 ELSE k.half, trials |-> {}]
  BY DEF TransitionTo, CircuitType
<1> QED
  BY <1>1, BreakerAssumption DEF CircuitType, HalfOpenMaxCalls

LEMMA AdmitSane ==
    ASSUME NEW k, NEW c \in Callers, Sane(k), Admits(k)
    PROVE  /\ Sane(Admit(k, c))
           /\ Admit(k, c).failures = k.failures
           /\ k.state = "closed" => Admit(k, c) = k
           /\ k.state # "closed" =>
                 Admit(k, c).state = "half_open" /\ c \in Admit(k, c).trials
<1>1. CASE k.state = "closed"
  BY <1>1 DEF Admit
<1>2. CASE k.state = "open"
  <2> DEFINE t == TransitionTo(k, "half_open")
             u == [t EXCEPT !.half = 1]
             j == [u EXCEPT !.trials = {c}]
  <2>1. Admit(k, c) = j
    BY <1>2 DEF Admit
  <2>2. t \in CircuitType /\ t.state = "half_open" /\ t.failures = k.failures
    BY <1>2, Transition DEF Sane, States
  <2> HIDE DEF t
  <2>3. /\ j \in CircuitType
        /\ j.state = "half_open" /\ j.half = 1 /\ j.trials = {c} /\ j.failures = k.failures
    <3>1. /\ u \in CircuitType
          /\ u.state = "half_open" /\ u.half = 1 /\ u.failures = k.failures
      BY <2>2 DEF CircuitType, HalfOpenMaxCalls
    <3> HIDE DEF u
    <3> QED
      BY <3>1 DEF CircuitType
  <2> HIDE DEF j
  <2> QED
    BY <2>1, <2>3, <1>2 DEF Sane
<1>3. CASE k.state = "half_open"
  <2> DEFINE u == [k EXCEPT !.half = @ + 1]
             j == [u EXCEPT !.trials = @ \cup {c}]
  <2>1. Admit(k, c) = j
    BY <1>3 DEF Admit
  <2>2. k \in CircuitType /\ k.half = 0 /\ k.trials = {}
    BY <1>3 DEF Admits, Sane, CircuitType, HalfOpenMaxCalls
  <2>3. /\ j \in CircuitType
        /\ j.state = "half_open" /\ j.half = 1 /\ j.trials = {c} /\ j.failures = k.failures
    <3>1. /\ u \in CircuitType
          /\ u.state = "half_open" /\ u.half = 1 /\ u.failures = k.failures /\ u.trials = {}
      BY <2>2, <1>3 DEF CircuitType, HalfOpenMaxCalls
    <3> HIDE DEF u
    <3> QED
      BY <3>1 DEF CircuitType
  <2> HIDE DEF j
  <2> QED
    BY <2>1, <2>3, <1>3 DEF Sane
<1>4. k.state \in {"closed", "open", "half_open"}
  BY DEF Sane, CircuitType, States
<1> QED
  BY <1>1, <1>2, <1>3, <1>4

LEMMA SuccessSane ==
    ASSUME NEW k, Sane(k)
    PROVE  Sane(Success(k)) /\ Success(k).state # "half_open"
<1> DEFINE t == IF k.state = "half_open" THEN TransitionTo(k, "closed") ELSE k
           j == [t EXCEPT !.failures = 0]
<1>1. Success(k) = j
  BY DEF Success
<1>2. t \in CircuitType /\ t.state # "half_open" /\ t.trials = {}
  BY Transition DEF Sane, States
<1> HIDE DEF t
<1>3. /\ j \in CircuitType /\ j.state # "half_open" /\ j.failures = 0 /\ j.trials = {}
  BY <1>2, BreakerAssumption DEF CircuitType
<1> HIDE DEF j
<1> QED
  BY <1>1, <1>3, BreakerAssumption DEF Sane

LEMMA FailureSane ==
    ASSUME NEW k, Sane(k)
    PROVE  /\ Sane(Failure(k))
           /\ Failure(k).state # "half_open"
           /\ Failure(k).state = "closed" =>
                 k.state = "closed" /\ Failure(k).failures = k.failures + 1
<1> DEFINE n == Saturated(k.failures)
           j == [k EXCEPT !.failures = n, !.elapsed = FALSE]
<1>0. k \in CircuitType /\ k.failures \in 0..FailureThreshold
  BY DEF Sane, CircuitType
<1>1. n \in 0..FailureThreshold /\ (k.failures < FailureThreshold => n = k.failures + 1)
  BY <1>0, Saturates
<1> HIDE DEF n
<1>2. /\ j \in CircuitType /\ j.state = k.state /\ j.failures = n /\ j.trials = k.trials
  BY <1>0, <1>1 DEF CircuitType
<1>3. Failure(k) = IF k.state = "half_open" \/ (k.state = "closed" /\ n >= FailureThreshold)
                   THEN TransitionTo(j, "open") ELSE j
  BY DEF Failure, n
<1> HIDE DEF j
<1>4. CASE k.state = "half_open" \/ (k.state = "closed" /\ n >= FailureThreshold)
  <2>1. /\ Failure(k) \in CircuitType
        /\ Failure(k).state = "open" /\ Failure(k).trials = {}
    BY <1>2, <1>3, <1>4, Transition DEF States
  <2> QED
    BY <2>1 DEF Sane
<1>5. CASE ~(k.state = "half_open" \/ (k.state = "closed" /\ n >= FailureThreshold))
  <2>1. Failure(k) = j
    BY <1>3, <1>5
  <2>2. k.state = "closed" => k.failures < FailureThreshold /\ n < FailureThreshold
    BY <1>0, <1>1, <1>5, BreakerAssumption DEF Sane
  <2>3. j.trials = {} /\ j.state # "half_open"
    BY <1>2, <1>5 DEF Sane
  <2> QED
    BY <2>1, <2>2, <2>3, <1>1, <1>2 DEF Sane
<1> QED
  BY <1>4, <1>5

LEMMA ResetSane ==
    ASSUME NEW k, Sane(k)
    PROVE  Sane(ResetCircuit(k)) /\ ResetCircuit(k).state = "closed"
<1> DEFINE t == TransitionTo(k, "closed")
           u == [t EXCEPT !.failures = 0]
           j == [u EXCEPT !.half = 0]
<1>1. ResetCircuit(k) = j
  BY DEF ResetCircuit
<1>2. t \in CircuitType /\ t.state = "closed" /\ t.trials = {}
  <2>1. CASE k.state = "closed"
    BY <2>1 DEF TransitionTo, Sane
  <2>2. CASE k.state # "closed"
    BY <2>2, Transition DEF Sane, States
  <2> QED
    BY <2>1, <2>2
<1> HIDE DEF t
<1>3. /\ j \in CircuitType /\ j.state = "closed" /\ j.failures = 0 /\ j.trials = {}
  <2>1. /\ u \in CircuitType /\ u.state = "closed" /\ u.failures = 0 /\ u.trials = {}
    BY <1>2, BreakerAssumption DEF CircuitType
  <2> HIDE DEF u
  <2> QED
    BY <2>1 DEF CircuitType, HalfOpenMaxCalls
<1> HIDE DEF j
<1> QED
  BY <1>1, <1>3, BreakerAssumption DEF Sane

LEMMA ElapseSane ==
    ASSUME NEW k, Sane(k)
    PROVE  LET j == [k EXCEPT !.elapsed = TRUE] IN
           /\ Sane(j) /\ j.state = k.state /\ j.trials = k.trials /\ j.failures = k.failures
<1> DEFINE j == [k EXCEPT !.elapsed = TRUE]
<1>1. /\ j \in CircuitType /\ j.state = k.state /\ j.trials = k.trials
      /\ j.failures = k.failures /\ j.half = k.half
  BY DEF Sane, CircuitType
<1> HIDE DEF j
<1>2. Sane(j)
  BY <1>1 DEF Sane
<1> QED
  BY <1>1, <1>2 DEF j

------------------------------------------------------------------------------
(* The inductive invariant *)

AllSane   == \A o \in Circuits : Sane(circ[o])
Injective == \A d, e \in Tracked : reg[d] = reg[e] => d = e
Holder(c) == pc[c] \in {"ask", "record"}
HeldOK    == \A c \in Callers : Holder(c) => held[c] \in Circuits
\* A circuit in somebody's hands is registered, if at all, where he sends.
HeldMatches == \A c \in Callers, d \in Tracked : Holder(c) /\ held[c] = reg[d] => dest[c] = d
Trialled  == ~MayAbandon => HalfOpenHasTrial

IInv == TypeOK /\ AllSane /\ Injective /\ HeldOK /\ HeldMatches /\ Trialled

LEMMA AnyDestType == AnyDest \in Dests
BY BreakerAssumption DEF AnyDest

LEMMA CircType == TypeOK <=>
    /\ reg \in [Dests -> Circuits \cup {NoCircuit}]
    /\ circ \in [Circuits -> CircuitType]
    /\ pc \in [Callers -> Phases]
    /\ dest \in [Callers -> Dests]
    /\ held \in [Callers -> Circuits \cup {NoCircuit}]
    /\ ok \in [Callers -> BOOLEAN]
    /\ up \in [Dests -> BOOLEAN]
    /\ losses \in [Dests -> 0..FailureThreshold]
BY DEF TypeOK, CircuitType

LEMMA CircTypeNext == TypeOK' <=>
    /\ reg' \in [Dests -> Circuits \cup {NoCircuit}]
    /\ circ' \in [Circuits -> CircuitType]
    /\ pc' \in [Callers -> Phases]
    /\ dest' \in [Callers -> Dests]
    /\ held' \in [Callers -> Circuits \cup {NoCircuit}]
    /\ ok' \in [Callers -> BOOLEAN]
    /\ up' \in [Dests -> BOOLEAN]
    /\ losses' \in [Dests -> 0..FailureThreshold]
BY DEF TypeOK, CircuitType

LEMMA InitIInv == Init => IInv
<1> SUFFICES ASSUME Init PROVE IInv
  OBVIOUS
<1>1. NewCircuit \in CircuitType /\ Sane(NewCircuit)
  BY NewIsSane DEF Sane
<1>2. circ \in [Circuits -> CircuitType] /\ AllSane
  BY <1>1 DEF Init, AllSane
<1>3. TypeOK
  BY <1>2, AnyDestType, CircType, BreakerAssumption DEF Init, Phases
<1>4. Tracked = {}
  BY DEF Tracked, Init
<1>5. Injective /\ HeldMatches /\ Trialled
  BY <1>4 DEF Injective, HeldMatches, Trialled, HalfOpenHasTrial
<1>6. HeldOK
  BY DEF HeldOK, Holder, Init
<1> QED
  BY <1>2, <1>3, <1>5, <1>6 DEF IInv

\* What a lookup returns and what it disturbs.
LEMMA Lookup ==
    ASSUME IInv, NEW d \in Dests, NEW o \in Circuits, GetOrCreate(d, o)
    PROVE  /\ reg' \in [Dests -> Circuits \cup {NoCircuit}]
           /\ circ' \in [Circuits -> CircuitType]
           /\ AllSane'
           /\ Injective'
           /\ reg'[d] = o
           /\ \A e \in Dests : reg'[e] # NoCircuit => reg'[e] = reg[e] \/ e = d
           /\ \A x \in Circuits : circ'[x] = circ[x] \/ (x = o /\ o \in Unused)
           /\ reg[d] # NoCircuit => UNCHANGED <<reg, circ>>
           /\ reg[d] = NoCircuit => circ'[o] = NewCircuit /\ o \in Unused
<1> USE CircType DEF IInv
<1>1. CASE reg[d] = o /\ UNCHANGED <<reg, circ>>
  <2>1. o # NoCircuit
    BY BreakerAssumption
  <2>2. AllSane' /\ Injective'
    BY <1>1 DEF AllSane, Injective, Tracked
  <2> QED
    BY <1>1, <2>1, <2>2
<1>2. CASE reg[d] = NoCircuit /\ o \in Unused
  <2>1. /\ \/ \E e \in Evictable : reg' = [reg EXCEPT ![e] = NoCircuit, ![d] = o]
           \/ reg' = [reg EXCEPT ![d] = o]
        /\ circ' = [circ EXCEPT ![o] = NewCircuit]
    <3>1. o # NoCircuit
      BY BreakerAssumption
    <3> QED
      BY <1>2, <3>1 DEF GetOrCreate
  <2>2. /\ reg' \in [Dests -> Circuits \cup {NoCircuit}]
        /\ reg'[d] = o
        /\ \A e \in Dests : reg'[e] # NoCircuit => reg'[e] = reg[e] \/ e = d
    BY <2>1, <1>2 DEF Evictable, Tracked
  <2>3. /\ circ' \in [Circuits -> CircuitType]
        /\ AllSane'
        /\ circ'[o] = NewCircuit
        /\ \A x \in Circuits : circ'[x] = circ[x] \/ x = o
    BY <2>1, NewIsSane DEF AllSane, Sane
  <2>4. Injective'
    BY <2>2, <1>2 DEF Injective, Tracked, Unused
  <2> QED
    BY <1>2, <2>2, <2>3, <2>4
<1> QED
  BY <1>1, <1>2 DEF GetOrCreate

\* The two steps that look a circuit up: Ask, and EndCall for the recorder.
LEMMA LookupIInv ==
    ASSUME IInv, NEW c \in Callers, NEW d \in Dests, NEW o \in Circuits, GetOrCreate(d, o),
           held' = [held EXCEPT ![c] = o],
           NEW p \in {"ask", "record"}, pc' = [pc EXCEPT ![c] = p],
           dest' = [dest EXCEPT ![c] = d],
           \/ pc[c] = "idle"
           \/ pc[c] = "calling" /\ p = "record" /\ dest[c] = d,
           ok' \in [Callers -> BOOLEAN],
           UNCHANGED <<up, losses>>
    PROVE  IInv'
<1>3. TypeOK
  BY DEF IInv
<1>1. /\ reg' \in [Dests -> Circuits \cup {NoCircuit}]
      /\ circ' \in [Circuits -> CircuitType]
      /\ AllSane' /\ Injective' /\ reg'[d] = o
      /\ \A e \in Dests : reg'[e] # NoCircuit => reg'[e] = reg[e] \/ e = d
      /\ \A x \in Circuits : circ'[x] = circ[x] \/ (x = o /\ o \in Unused)
      /\ reg[d] # NoCircuit => UNCHANGED <<reg, circ>>
      /\ reg[d] = NoCircuit => circ'[o] = NewCircuit /\ o \in Unused
  BY Lookup
<1>4. TypeOK'
  BY <1>1, <1>3, CircType, CircTypeNext DEF Phases
<1>5. HeldOK'
  BY <1>3, CircType DEF HeldOK, Holder, IInv
<1>6. HeldMatches'
  <2> SUFFICES ASSUME NEW b \in Callers, NEW e \in Dests, reg'[e] # NoCircuit,
                      Holder(b)', held'[b] = reg'[e]
               PROVE  dest'[b] = e
    BY DEF HeldMatches, Tracked
  <2>1. CASE b = c
    <3>1. held'[b] = o /\ dest'[b] = d
      BY <2>1, <1>3, CircType
    <3>2. d \in Tracked' /\ e \in Tracked' /\ reg'[d] = reg'[e]
      BY <3>1, <1>1, <1>3, BreakerAssumption DEF Tracked
    <3> QED
      BY <3>1, <3>2, <1>1 DEF Injective
  <2>2. CASE b # c
    <3>1. held'[b] = held[b] /\ dest'[b] = dest[b] /\ Holder(b)
      BY <2>2, <1>3, CircType DEF Holder
    <3>2. CASE reg'[e] = reg[e]
      BY <3>1, <3>2 DEF IInv, HeldMatches, Tracked
    <3>3. CASE reg'[e] # reg[e]
      <4>1. e = d /\ reg[d] = NoCircuit
        BY <3>3, <1>1
      <4>2. o \in Unused /\ held[b] = o
        BY <4>1, <3>1, <1>1
      <4> QED
        BY <4>2 DEF Unused
    <3> QED
      BY <3>2, <3>3
  <2> QED
    BY <2>1, <2>2
<1>7. Trialled'
  <2> SUFFICES ASSUME ~MayAbandon, NEW e \in Dests, reg'[e] # NoCircuit,
                      circ'[reg'[e]].state = "half_open"
               PROVE  \E b \in circ'[reg'[e]].trials : dest'[b] = e /\
                        (pc'[b] = "calling" \/ (pc'[b] = "record" /\ held'[b] = reg'[e]))
    BY DEF Trialled, HalfOpenHasTrial, Tracked
  <2>1. NewCircuit.state # "half_open"
    BY DEF NewCircuit
  <2>2. reg'[e] = reg[e] /\ circ'[reg[e]] = circ[reg[e]]
    <3>1. reg'[e] \in Circuits
      BY <1>1, CircType
    <3>2. CASE e = d
      BY <3>2, <2>1, <1>1
    <3>3. CASE e # d
      <4>1. reg'[e] = reg[e]
        BY <3>3, <1>1
      <4>2. o \in Unused => reg[e] # o
        BY DEF Unused
      <4> QED
        BY <4>1, <4>2, <3>1, <1>1
    <3> QED
      BY <3>2, <3>3
  <2>3. PICK b \in circ[reg[e]].trials :
            dest[b] = e /\ (pc[b] = "calling" \/ (pc[b] = "record" /\ held[b] = reg[e]))
    BY <2>2 DEF IInv, Trialled, HalfOpenHasTrial, Tracked
  <2>5. b \in Callers
    BY <2>2, <2>3, <1>1, <1>3, CircType DEF CircuitType
  <2>6. CASE b # c
    <3>1. pc'[b] = pc[b] /\ dest'[b] = dest[b] /\ held'[b] = held[b]
      BY <2>6, <2>5, <1>3, CircType
    <3> QED
      BY <2>2, <2>3, <3>1
  <2>7. CASE b = c
    <3>1. e = d
      BY <2>7, <2>3
    <3>2. pc'[b] = "record" /\ dest'[b] = e /\ held'[b] = reg'[e]
      BY <2>7, <2>3, <3>1, <1>1, <1>3, CircType
    <3> QED
      BY <2>2, <2>3, <3>2
  <2> QED
    BY <2>6, <2>7
<1>8. AllSane' /\ Injective'
  BY <1>1
<1> QED
  BY <1>4, <1>5, <1>6, <1>7, <1>8 DEF IInv

LEMMA AskIInv ==
    ASSUME IInv, NEW c \in Callers, NEW d \in Dests, Ask(c, d)
    PROVE  IInv'
<1>1. PICK o \in Circuits : GetOrCreate(d, o) /\ held' = [held EXCEPT ![c] = o]
  BY DEF Ask
<1>2. ok' \in [Callers -> BOOLEAN]
  BY CircType DEF Ask, IInv
<1>3. /\ pc[c] = "idle" /\ pc' = [pc EXCEPT ![c] = "ask"]
      /\ dest' = [dest EXCEPT ![c] = d]
      /\ UNCHANGED <<up, losses>>
  BY DEF Ask
<1> QED
  BY <1>1, <1>2, <1>3, LookupIInv

LEMMA EndCallIInv ==
    ASSUME IInv, NEW c \in Callers, EndCall(c)
    PROVE  IInv'
<1>1. PICK o \in Circuits : GetOrCreate(dest[c], o) /\ held' = [held EXCEPT ![c] = o]
  BY DEF EndCall
<1>2. TypeOK /\ dest[c] \in Dests
  BY CircType DEF IInv
<1>3. ok' \in [Callers -> BOOLEAN] /\ dest' = [dest EXCEPT ![c] = dest[c]]
  BY <1>2, CircType DEF EndCall
<1>4. /\ pc[c] = "calling" /\ pc' = [pc EXCEPT ![c] = "record"]
      /\ UNCHANGED <<up, losses>>
  BY DEF EndCall
<1> QED
  BY <1>1, <1>2, <1>3, <1>4, LookupIInv

\* A step that turns circuit o into k and leaves it off half-open, if the
\* caller c (who keeps no circuit) was at it at all.
LEMMA Settles ==
    ASSUME IInv, NEW c \in Callers, NEW o \in Circuits, NEW k,
           pc[c] = "record", held[c] = o,
           Sane(k), k.state # "half_open",
           circ' = [circ EXCEPT ![o] = k],
           losses' \in [Dests -> 0..FailureThreshold],
           held' = [held EXCEPT ![c] = NoCircuit],
           Done(c),
           UNCHANGED <<reg, up>>
    PROVE  IInv'
<1>1. TypeOK
  BY DEF IInv
<1>2. /\ pc' = [pc EXCEPT ![c] = "idle"]
      /\ dest' = [dest EXCEPT ![c] = AnyDest]
      /\ ok' = [ok EXCEPT ![c] = FALSE]
  BY DEF Done
<1>3. TypeOK'
  BY <1>1, <1>2, AnyDestType, CircType, CircTypeNext DEF Phases, Sane
<1>4. AllSane'
  BY <1>1, CircType DEF AllSane, IInv
<1>5. Injective'
  BY DEF Injective, Tracked, IInv
<1>6. HeldOK'
  BY <1>1, <1>2, CircType DEF HeldOK, Holder, IInv
<1>7. HeldMatches'
  BY <1>1, <1>2, CircType DEF HeldMatches, Holder, Tracked, IInv
<1>8. Trialled'
  <2> SUFFICES ASSUME ~MayAbandon, NEW e \in Dests, reg[e] # NoCircuit,
                      circ'[reg[e]].state = "half_open"
               PROVE  \E b \in circ'[reg[e]].trials : dest'[b] = e /\
                        (pc'[b] = "calling" \/ (pc'[b] = "record" /\ held'[b] = reg[e]))
    BY DEF Trialled, HalfOpenHasTrial, Tracked
  <2>1. reg[e] \in Circuits /\ reg[e] # o
    BY <1>1, CircType
  <2>2. circ'[reg[e]] = circ[reg[e]]
    BY <2>1, <1>1, CircType
  <2>3. PICK b \in circ[reg[e]].trials :
            dest[b] = e /\ (pc[b] = "calling" \/ (pc[b] = "record" /\ held[b] = reg[e]))
    BY <2>2 DEF IInv, Trialled, HalfOpenHasTrial, Tracked
  <2>4. b # c
    BY <2>1, <2>3
  <2>5. b \in Callers
    BY <2>1, <2>3, <1>1, CircType DEF CircuitType
  <2>6. pc'[b] = pc[b] /\ dest'[b] = dest[b] /\ held'[b] = held[b]
    BY <2>4, <2>5, <1>1, <1>2, CircType
  <2> QED
    BY <2>2, <2>3, <2>6
<1> QED
  BY <1>3, <1>4, <1>5, <1>6, <1>7, <1>8 DEF IInv

LEMMA RecordIInv ==
    ASSUME IInv, NEW c \in Callers, RecordSuccess(c) \/ RecordFailure(c)
    PROVE  IInv'
<1>1. TypeOK /\ held[c] \in Circuits /\ pc[c] = "record"
  BY DEF IInv, HeldOK, Holder, RecordSuccess, RecordFailure
<1>2. Sane(circ[held[c]])
  BY <1>1 DEF IInv, AllSane
<1>3. CASE RecordSuccess(c)
  <2>1. losses' \in [Dests -> 0..FailureThreshold]
    BY <1>3, <1>1, CircType, BreakerAssumption DEF RecordSuccess
  <2>2. circ' = [circ EXCEPT ![held[c]] = Success(circ[held[c]])]
    BY <1>3 DEF RecordSuccess
  <2>3. Sane(Success(circ[held[c]])) /\ Success(circ[held[c]]).state # "half_open"
    BY <1>2, SuccessSane
  <2>4. held' = [held EXCEPT ![c] = NoCircuit] /\ Done(c) /\ UNCHANGED <<reg, up>>
    BY <1>3 DEF RecordSuccess
  <2> QED
    BY <1>1, <2>1, <2>2, <2>3, <2>4, Settles
<1>4. CASE RecordFailure(c)
  <2>1. losses' \in [Dests -> 0..FailureThreshold]
    <3>1. dest[c] \in Dests /\ losses[dest[c]] \in 0..FailureThreshold
      BY <1>1, CircType
    <3>2. losses' = [losses EXCEPT ![dest[c]] = Saturated(losses[dest[c]])]
      BY <1>4 DEF RecordFailure
    <3> QED
      BY <3>1, <3>2, <1>1, Saturates, CircType
  <2>2. circ' = [circ EXCEPT ![held[c]] = Failure(circ[held[c]])]
    BY <1>4 DEF RecordFailure
  <2>3. Sane(Failure(circ[held[c]])) /\ Failure(circ[held[c]]).state # "half_open"
    BY <1>2, FailureSane
  <2>4. held' = [held EXCEPT ![c] = NoCircuit] /\ Done(c) /\ UNCHANGED <<reg, up>>
    BY <1>4 DEF RecordFailure
  <2> QED
    BY <1>1, <2>1, <2>2, <2>3, <2>4, Settles
<1> QED
  BY <1>3, <1>4

LEMMA CanExecuteIInv ==
    ASSUME IInv, NEW c \in Callers, CanExecute(c)
    PROVE  IInv'
<1> DEFINE o == held[c]
           k == circ[o]
<1>1. TypeOK /\ o \in Circuits /\ pc[c] = "ask" /\ dest[c] \in Dests
  BY CircType DEF IInv, HeldOK, Holder, CanExecute
<1>2. Sane(k)
  BY <1>1 DEF IInv, AllSane
<1>3. held' = [held EXCEPT ![c] = NoCircuit] /\ UNCHANGED <<reg, up, losses>>
  BY DEF CanExecute
<1>4. \/ /\ Admits(k)
         /\ circ' = [circ EXCEPT ![o] = Admit(k, c)]
         /\ pc' = [pc EXCEPT ![c] = "calling"]
         /\ UNCHANGED <<dest, ok>>
      \/ Done(c) /\ UNCHANGED circ
  BY DEF CanExecute
<1>5. /\ pc' \in [Callers -> Phases] /\ ~Holder(c)'
      /\ \A b \in Callers : b # c => pc'[b] = pc[b] /\ dest'[b] = dest[b] /\ held'[b] = held[b]
      /\ dest' \in [Callers -> Dests] /\ ok' \in [Callers -> BOOLEAN]
    <2>1. \E p \in {"calling", "idle"}, a \in Dests, r \in BOOLEAN :
           /\ pc' = [pc EXCEPT ![c] = p]
           /\ dest' = [dest EXCEPT ![c] = a]
           /\ ok' = [ok EXCEPT ![c] = r]
    <3>1. CASE Done(c)
      BY <3>1, AnyDestType DEF Done
    <3>2. CASE ~Done(c)
      <4>1. dest' = [dest EXCEPT ![c] = dest[c]] /\ ok' = [ok EXCEPT ![c] = ok[c]]
        BY <3>2, <1>1, <1>4, CircType
      <4>2. ok[c] \in BOOLEAN
        BY <1>1, CircType
      <4> HIDE DEF k
      <4> QED
        BY <3>2, <4>1, <4>2, <1>1, <1>4
    <3> QED
      BY <3>1, <3>2
  <2> HIDE DEF k
  <2> QED
    BY <2>1, <1>1, <1>3, CircType DEF Phases, Holder
<1>6. Admits(k) => /\ Sane(Admit(k, c))
                   /\ k.state = "closed" => Admit(k, c) = k
                   /\ k.state # "closed" => c \in Admit(k, c).trials
  BY <1>2, AdmitSane
<1>7. circ' \in [Circuits -> CircuitType] /\ AllSane'
  BY <1>1, <1>4, <1>6, CircType DEF IInv, AllSane, Sane
<1>8. \A x \in Circuits :
         \/ circ'[x] = circ[x]
         \/ /\ x = o /\ pc'[c] = "calling" /\ dest'[c] = dest[c]
            /\ c \in circ'[x].trials
  BY <1>1, <1>4, <1>6, CircType
<1> HIDE DEF k
<1>9. TypeOK'
  BY <1>1, <1>3, <1>5, <1>7, CircType, CircTypeNext
<1>10. Injective'
  BY <1>3 DEF Injective, Tracked, IInv
<1>11. HeldOK'
  BY <1>5 DEF HeldOK, Holder, IInv
<1>12. HeldMatches'
  BY <1>3, <1>5 DEF HeldMatches, Holder, Tracked, IInv
<1>13. Trialled'
  <2> SUFFICES ASSUME ~MayAbandon, NEW e \in Dests, reg[e] # NoCircuit,
                      circ'[reg[e]].state = "half_open"
               PROVE  \E b \in circ'[reg[e]].trials : dest'[b] = e /\
                        (pc'[b] = "calling" \/ (pc'[b] = "record" /\ held'[b] = reg[e]))
    BY <1>3 DEF Trialled, HalfOpenHasTrial, Tracked
  <2>1. reg[e] \in Circuits
    BY <1>1, CircType
  <2>2. CASE circ'[reg[e]] = circ[reg[e]]
    <3>1. PICK b \in circ[reg[e]].trials :
              dest[b] = e /\ (pc[b] = "calling" \/ (pc[b] = "record" /\ held[b] = reg[e]))
      BY <2>2 DEF IInv, Trialled, HalfOpenHasTrial, Tracked
    <3>2. b # c
      BY <3>1, <1>1
    <3>3. b \in Callers
      BY <2>1, <3>1, <1>1, CircType DEF CircuitType
    <3>4. pc'[b] = pc[b] /\ dest'[b] = dest[b] /\ held'[b] = held[b]
      BY <3>2, <3>3, <1>5
    <3> QED
      BY <2>2, <3>1, <3>4
  <2>3. CASE circ'[reg[e]] # circ[reg[e]]
    <3>1. /\ reg[e] = o /\ pc'[c] = "calling" /\ dest'[c] = dest[c]
          /\ c \in circ'[reg[e]].trials
      BY <2>1, <2>3, <1>8
    <3>2. dest[c] = e
      BY <3>1, <1>1 DEF IInv, HeldMatches, Holder, Tracked
    <3> QED
      BY <3>1, <3>2
  <2> QED
    BY <2>2, <2>3
<1> QED
  BY <1>7, <1>9, <1>10, <1>11, <1>12, <1>13 DEF IInv

LEMMA AbandonIInv ==
    ASSUME IInv, NEW c \in Callers, Abandon(c)
    PROVE  IInv'
<1>1. TypeOK /\ MayAbandon /\ UNCHANGED <<reg, circ, held, up, losses>>
  BY DEF IInv, Abandon
<1>2. /\ pc' = [pc EXCEPT ![c] = "idle"]
      /\ dest' = [dest EXCEPT ![c] = AnyDest]
      /\ ok' = [ok EXCEPT ![c] = FALSE]
  BY DEF Abandon, Done
<1>3. TypeOK'
  BY <1>1, <1>2, AnyDestType, CircType, CircTypeNext DEF Phases
<1>4. AllSane' /\ Injective' /\ Trialled'
  BY <1>1 DEF AllSane, Injective, Trialled, Tracked, IInv
<1>5. HeldOK'
  BY <1>1, <1>2, CircType DEF HeldOK, Holder, IInv
<1>6. HeldMatches'
  BY <1>1, <1>2, CircType DEF HeldMatches, Holder, Tracked, IInv
<1> QED
  BY <1>3, <1>4, <1>5, <1>6 DEF IInv

\* Reset and Elapse turn one circuit into another without touching the callers.
LEMMA ReworkIInv ==
    ASSUME IInv, NEW o \in Circuits, NEW k, Sane(k),
           k.state = "half_open" => circ[o].state = "half_open" /\ k.trials = circ[o].trials,
           circ' = [circ EXCEPT ![o] = k],
           losses' \in [Dests -> 0..FailureThreshold],
           UNCHANGED <<reg, caller, up>>
    PROVE  IInv'
<1>1. TypeOK /\ UNCHANGED <<pc, dest, held, ok>>
  BY DEF IInv, caller
<1>2. TypeOK'
  BY <1>1, CircType, CircTypeNext DEF Sane
<1>3. AllSane'
  BY <1>1, CircType DEF AllSane, IInv
<1>4. Injective' /\ HeldOK' /\ HeldMatches'
  BY <1>1 DEF Injective, HeldOK, HeldMatches, Holder, Tracked, IInv
<1>5. Trialled'
  <2> SUFFICES ASSUME ~MayAbandon, NEW e \in Dests, reg[e] # NoCircuit,
                      circ'[reg[e]].state = "half_open"
               PROVE  \E b \in circ'[reg[e]].trials : dest[b] = e /\
                        (pc[b] = "calling" \/ (pc[b] = "record" /\ held[b] = reg[e]))
    BY <1>1 DEF Trialled, HalfOpenHasTrial, Tracked
  <2>1. reg[e] \in Circuits
    BY <1>1, CircType
  <2>2. circ[reg[e]].state = "half_open" /\ circ'[reg[e]].trials = circ[reg[e]].trials
    BY <2>1, <1>1, CircType
  <2> QED
    BY <2>2 DEF IInv, Trialled, HalfOpenHasTrial, Tracked
<1> QED
  BY <1>2, <1>3, <1>4, <1>5 DEF IInv

LEMMA ResetIInv ==
    ASSUME IInv, NEW d \in Dests, Reset(d)
    PROVE  IInv'
<1>1. TypeOK /\ reg[d] \in Circuits
  BY CircType DEF IInv, Reset
<1>2. Sane(circ[reg[d]])
  BY <1>1 DEF IInv, AllSane
<1>3. circ' = [circ EXCEPT ![reg[d]] = ResetCircuit(circ[reg[d]])]
  BY DEF Reset
<1>4. losses' \in [Dests -> 0..FailureThreshold] /\ UNCHANGED <<reg, caller, up>>
  BY <1>1, CircType, BreakerAssumption DEF Reset
<1> QED
  BY <1>1, <1>2, <1>3, <1>4, ResetSane, ReworkIInv

LEMMA ElapseIInv ==
    ASSUME IInv, NEW o \in Circuits, Elapse(o)
    PROVE  IInv'
<1>1. Sane(circ[o]) /\ TypeOK
  BY DEF IInv, AllSane
<1> DEFINE k == [circ[o] EXCEPT !.elapsed = TRUE]
<1>2. Sane(k) /\ k.state = circ[o].state /\ k.trials = circ[o].trials
  BY <1>1, ElapseSane
<1>3. circ' = [circ EXCEPT ![o] = k]
  BY DEF Elapse
<1>4. losses' \in [Dests -> 0..FailureThreshold] /\ UNCHANGED <<reg, caller, up>>
  BY <1>1, CircType DEF Elapse
<1> HIDE DEF k
<1> QED
  BY <1>2, <1>3, <1>4, ReworkIInv

LEMMA StutterIInv ==
    ASSUME IInv, UNCHANGED vars
    PROVE  IInv'
<1>1. UNCHANGED <<reg, circ, pc, dest, held, ok, up, losses>>
  BY DEF vars, caller
<1>2. TypeOK'
  BY <1>1, CircType, CircTypeNext DEF IInv
<1> QED
  BY <1>1, <1>2 DEF IInv, AllSane, Injective, HeldOK, HeldMatches, Holder, Trialled,
                    HalfOpenHasTrial, Tracked

LEMMA FlipIInv ==
    ASSUME IInv, NEW d \in Dests, Flip(d)
    PROVE  IInv'
<1>1. UNCHANGED <<reg, circ, pc, dest, held, ok, losses>>
  BY DEF Flip, caller
<1>2. TypeOK'
  BY <1>1, CircType, CircTypeNext DEF IInv, Flip
<1> QED
  BY <1>1, <1>2 DEF IInv, AllSane, Injective, HeldOK, HeldMatches, Holder, Trialled,
                    HalfOpenHasTrial, Tracked

LEMMA StepIInv == IInv /\ [Next]_vars => IInv'
<1> SUFFICES ASSUME IInv, [Next]_vars PROVE IInv'
  OBVIOUS
<1>1. ASSUME NEW c \in Callers, CallStep(c) PROVE IInv'
  BY <1>1, CanExecuteIInv, EndCallIInv, RecordIInv DEF CallStep
<1>2. ASSUME NEW c \in Callers, Abandon(c) PROVE IInv'
  BY <1>2, AbandonIInv
<1>3. ASSUME NEW c \in Callers, NEW d \in Dests, Ask(c, d) PROVE IInv'
  BY <1>3, AskIInv
<1>4. ASSUME NEW d \in Dests, Reset(d) \/ Flip(d) PROVE IInv'
  BY <1>4, ResetIInv, FlipIInv
<1>5. ASSUME NEW o \in Circuits, Elapse(o) PROVE IInv'
  BY <1>5, ElapseIInv
<1> QED
  BY <1>1, <1>2, <1>3, <1>4, <1>5, StutterIInv DEF Next

LEMMA SpecIInv == Spec => []IInv
BY InitIInv, StepIInv, PTL DEF Spec

------------------------------------------------------------------------------
(* The theorems *)

\* CircuitBreaker and its registry keep their types, whatever the callers do.
THEOREM BreakerTypeCorrect == Spec => []TypeOK
<1>1. IInv => TypeOK
  BY DEF IInv
<1> QED
  BY <1>1, SpecIInv, PTL

\* can_execute: one half-open episode of a circuit admits one caller, however
\* many threads ask at once.
THEOREM BreakerOneTrial == Spec => []OneTrialPerEpisode
<1>1. IInv => OneTrialPerEpisode
  BY DEF IInv, AllSane, Sane, OneTrialPerEpisode
<1> QED
  BY <1>1, SpecIInv, PTL

\* When every caller that was admitted records an outcome, a half-open circuit
\* always has its trial under way: it cannot be left half-open for ever by
\* evictions, resets or late outcomes.
THEOREM BreakerHalfOpenHasTrial ==
    ASSUME MayAbandon = FALSE
    PROVE  Spec => []HalfOpenHasTrial
<1>1. IInv => HalfOpenHasTrial
  BY DEF IInv, Trialled
<1> QED
  BY <1>1, SpecIInv, PTL

------------------------------------------------------------------------------
(* A table with room for every destination evicts nothing, and then the        *)
(* failures reported for a destination are those its circuit has counted.      *)

Roomy == IsFiniteSet(Dests) /\ Cardinality(Dests) <= MaxCircuits

\* A caller's circuit is still the registered one.
Kept == \A c \in Callers : Holder(c) => reg[dest[c]] = held[c]

Counted ==
    \A d \in Dests :
        /\ reg[d] = NoCircuit => losses[d] = 0
        /\ reg[d] # NoCircuit /\ circ[reg[d]].state = "closed" =>
               losses[d] <= circ[reg[d]].failures

CInv == IInv /\ Kept /\ Counted

LEMMA Grows ==
    ASSUME Roomy, IInv, NEW d \in Dests, NEW o \in Circuits, GetOrCreate(d, o)
    PROVE  \/ reg[d] = o /\ UNCHANGED <<reg, circ>>
           \/ /\ reg[d] = NoCircuit /\ o \in Unused
              /\ reg' = [reg EXCEPT ![d] = o]
              /\ circ' = [circ EXCEPT ![o] = NewCircuit]
<1>1. CASE reg[d] = o /\ UNCHANGED <<reg, circ>>
  BY <1>1
<1>2. CASE reg[d] = NoCircuit /\ o \in Unused
  <2>1. IsFiniteSet(Tracked) /\ Cardinality(Tracked) < Cardinality(Dests)
    <3>1. Tracked \subseteq Dests \ {d}
      BY <1>2 DEF Tracked
    <3>2. /\ IsFiniteSet(Dests \ {d})
          /\ Cardinality(Dests \ {d}) = Cardinality(Dests) - 1
      BY FS_RemoveElement DEF Roomy
    <3>3. IsFiniteSet(Tracked) /\ Cardinality(Tracked) <= Cardinality(Dests \ {d})
      BY <3>1, <3>2, FS_Subset
    <3>4. Cardinality(Tracked) \in Nat /\ Cardinality(Dests) \in Nat
      BY <3>3, FS_CardinalityType DEF Roomy
    <3> QED
      BY <3>2, <3>3, <3>4
  <2>2. Cardinality(Tracked) \in Nat /\ Cardinality(Dests) \in Nat
    BY <2>1, FS_CardinalityType DEF Roomy
  <2>3. ~(Cardinality(Tracked) >= MaxCircuits)
    BY <2>1, <2>2, BreakerAssumption DEF Roomy
  <2>4. o # NoCircuit
    BY BreakerAssumption
  <2> QED
    BY <1>2, <2>3, <2>4 DEF GetOrCreate
<1> QED
  BY <1>1, <1>2 DEF GetOrCreate

LEMMA LookupCounts ==
    ASSUME Roomy, CInv, NEW c \in Callers, NEW d \in Dests, NEW o \in Circuits,
           GetOrCreate(d, o),
           held' = [held EXCEPT ![c] = o],
           NEW p \in Phases, pc' = [pc EXCEPT ![c] = p],
           dest' = [dest EXCEPT ![c] = d],
           UNCHANGED losses
    PROVE  Kept' /\ Counted'
<1>1. TypeOK
  BY DEF CInv, IInv
<1>2. CASE reg[d] = o /\ UNCHANGED <<reg, circ>>
  <2>1. Kept'
    BY <1>1, <1>2, CircType DEF Kept, Holder, CInv
  <2>2. Counted'
    BY <1>2 DEF Counted, CInv
  <2> QED
    BY <2>1, <2>2
<1>3. CASE /\ reg[d] = NoCircuit /\ o \in Unused
           /\ reg' = [reg EXCEPT ![d] = o]
           /\ circ' = [circ EXCEPT ![o] = NewCircuit]
  <2>1. Kept'
    <3> SUFFICES ASSUME NEW b \in Callers, Holder(b)' PROVE reg'[dest'[b]] = held'[b]
      BY DEF Kept
    <3>1. CASE b = c
      BY <3>1, <1>1, <1>3, CircType
    <3>2. CASE b # c
      <4>1. Holder(b) /\ dest'[b] = dest[b] /\ held'[b] = held[b] /\ dest[b] \in Dests
        BY <3>2, <1>1, CircType DEF Holder
      <4>2. reg[dest[b]] = held[b] /\ held[b] \in Circuits
        BY <4>1 DEF CInv, Kept, IInv, HeldOK
      <4>3. dest[b] # d
        BY <4>2, <1>3, BreakerAssumption
      <4> QED
        BY <4>1, <4>2, <4>3, <1>1, <1>3, CircType
    <3> QED
      BY <3>1, <3>2
  <2>2. Counted'
    <3> SUFFICES ASSUME NEW e \in Dests
                 PROVE  /\ reg'[e] = NoCircuit => losses[e] = 0
                        /\ reg'[e] # NoCircuit /\ circ'[reg'[e]].state = "closed" =>
                              losses[e] <= circ'[reg'[e]].failures
      BY DEF Counted
    <3>1. CASE e = d
      <4>1. reg'[e] = o /\ circ'[o] = NewCircuit /\ losses[e] = 0
        BY <3>1, <1>1, <1>3, CircType DEF CInv, Counted
      <4> QED
        BY <4>1, BreakerAssumption DEF NewCircuit
    <3>2. CASE e # d
      <4>1. reg'[e] = reg[e] /\ reg[e] # o
        BY <3>2, <1>1, <1>3, CircType DEF Unused
      <4>2. reg[e] # NoCircuit => circ'[reg[e]] = circ[reg[e]]
        BY <4>1, <1>1, <1>3, CircType
      <4> QED
        BY <4>1, <4>2 DEF CInv, Counted
    <3> QED
      BY <3>1, <3>2
  <2> QED
    BY <2>1, <2>2
<1> QED
  BY <1>2, <1>3, Grows DEF CInv

\* A step on the registered circuit of d that counts what it reports.
LEMMA WorkCounts ==
    ASSUME CInv, NEW d \in Dests, reg[d] \in Circuits, NEW k,
           circ' = [circ EXCEPT ![reg[d]] = k],
           \A e \in Dests : e # d => losses'[e] = losses[e],
           k.state = "closed" => losses'[d] <= k.failures,
           UNCHANGED reg
    PROVE  Counted'
<1>1. TypeOK /\ Injective
  BY DEF CInv, IInv
<1> SUFFICES ASSUME NEW e \in Dests
             PROVE  /\ reg[e] = NoCircuit => losses'[e] = 0
                    /\ reg[e] # NoCircuit /\ circ'[reg[e]].state = "closed" =>
                          losses'[e] <= circ'[reg[e]].failures
  BY DEF Counted
<1>2. CASE e = d
  BY <1>1, <1>2, CircType, BreakerAssumption
<1>3. CASE e # d
  <2>1. reg[e] # NoCircuit => reg[e] # reg[d] /\ reg[e] \in Circuits
    BY <1>1, <1>3, CircType, BreakerAssumption DEF Injective, Tracked
  <2>2. reg[e] # NoCircuit => circ'[reg[e]] = circ[reg[e]]
    BY <2>1, <1>1, CircType
  <2> QED
    BY <2>2, <1>3 DEF CInv, Counted
<1> QED
  BY <1>2, <1>3

\* A caller that lets go of its circuit, or keeps it, leaves the others' alone.
LEMMA ReleaseKeeps ==
    ASSUME CInv, NEW c \in Callers, ~Holder(c)',
           \A b \in Callers : b # c => pc'[b] = pc[b] /\ dest'[b] = dest[b] /\ held'[b] = held[b],
           UNCHANGED reg
    PROVE  Kept'
BY DEF Kept, Holder, CInv

LEMMA DoneReleases ==
    ASSUME TypeOK, NEW c \in Callers, Done(c)
    PROVE  /\ ~Holder(c)'
           /\ \A b \in Callers : b # c => pc'[b] = pc[b] /\ dest'[b] = dest[b]
BY CircType DEF Done, Holder

LEMMA CanExecuteCounts ==
    ASSUME CInv, NEW c \in Callers, CanExecute(c)
    PROVE  Kept' /\ Counted'
<1> DEFINE o == held[c]
           k == circ[o]
<1>1. TypeOK /\ o \in Circuits /\ dest[c] \in Dests /\ reg[dest[c]] = o
  BY CircType DEF CInv, Kept, IInv, HeldOK, Holder, CanExecute
<1>2. Sane(k)
  BY <1>1 DEF CInv, IInv, AllSane
<1>3. held' = [held EXCEPT ![c] = NoCircuit] /\ UNCHANGED <<reg, up, losses>>
  BY DEF CanExecute
<1>4. CASE /\ Admits(k)
           /\ circ' = [circ EXCEPT ![o] = Admit(k, c)]
           /\ pc' = [pc EXCEPT ![c] = "calling"]
           /\ UNCHANGED <<dest, ok>>
  <2>1. /\ Admit(k, c).failures = k.failures
        /\ k.state = "closed" => Admit(k, c) = k
        /\ k.state # "closed" => Admit(k, c).state = "half_open"
    BY <1>2, <1>4, AdmitSane
  <2>2. Admit(k, c).state = "closed" => losses[dest[c]] <= Admit(k, c).failures
    BY <1>1, <2>1, BreakerAssumption DEF CInv, Counted
  <2> DEFINE j == Admit(k, c)
  <2> HIDE DEF j
  <2>3. Counted'
    <3>1. circ' = [circ EXCEPT ![reg[dest[c]]] = j]
      BY <1>1, <1>4 DEF j
    <3> QED
      BY <3>1, <1>1, <1>3, <2>2, WorkCounts DEF j
  <2>4. Kept'
    BY <1>1, <1>3, <1>4, CircType, ReleaseKeeps DEF Holder
  <2> QED
    BY <2>3, <2>4
<1>5. CASE Done(c) /\ UNCHANGED circ
  <2>1. Counted'
    BY <1>3, <1>5 DEF Counted, CInv
  <2>2. Kept'
    BY <1>1, <1>3, <1>5, CircType, DoneReleases, ReleaseKeeps
  <2> QED
    BY <2>1, <2>2
<1> QED
  BY <1>4, <1>5 DEF CanExecute

LEMMA RecordCounts ==
    ASSUME CInv, NEW c \in Callers, RecordSuccess(c) \/ RecordFailure(c)
    PROVE  Kept' /\ Counted'
<1> DEFINE d == dest[c]
           k == circ[reg[d]]
<1>1. TypeOK /\ held[c] \in Circuits /\ d \in Dests /\ reg[d] = held[c]
  BY CircType DEF CInv, Kept, IInv, HeldOK, Holder, RecordSuccess, RecordFailure
<1>2. Sane(k)
  BY <1>1 DEF CInv, IInv, AllSane
<1>3. k.failures \in 0..FailureThreshold /\ losses[d] \in 0..FailureThreshold
  BY <1>1, <1>2, CircType DEF Sane, CircuitType
<1>4. Kept'
  <2>1. Done(c) /\ held' = [held EXCEPT ![c] = NoCircuit] /\ UNCHANGED reg
    BY DEF RecordSuccess, RecordFailure
  <2> QED
    BY <2>1, <1>1, CircType, DoneReleases, ReleaseKeeps
<1>5. CASE RecordSuccess(c)
  <2> DEFINE j == Success(k)
  <2>1. circ' = [circ EXCEPT ![reg[d]] = j] /\ UNCHANGED reg /\ losses' = [losses EXCEPT ![d] = 0]
    BY <1>1, <1>5 DEF RecordSuccess
  <2>2. j.failures \in Nat
    BY <1>2, SuccessSane, BreakerAssumption DEF Sane, CircuitType
  <2>3. losses'[d] = 0 /\ \A e \in Dests : e # d => losses'[e] = losses[e]
    BY <2>1, <1>1, CircType
  <2> HIDE DEF j, d
  <2>4. losses'[d] <= j.failures
    BY <2>2, <2>3
  <2> QED
    BY <2>1, <2>3, <2>4, <1>1, <1>4, WorkCounts
<1>6. CASE RecordFailure(c)
  <2> DEFINE j == Failure(k)
  <2>1. /\ circ' = [circ EXCEPT ![reg[d]] = j] /\ UNCHANGED reg
        /\ losses' = [losses EXCEPT ![d] = Saturated(losses[d])]
    BY <1>1, <1>6 DEF RecordFailure
  <2>2. j.state = "closed" => k.state = "closed" /\ j.failures = k.failures + 1
    BY <1>2, FailureSane
  <2>3. k.state = "closed" => losses[d] <= k.failures
    BY <1>1, BreakerAssumption DEF CInv, Counted
  <2>4. Saturated(losses[d]) <= losses[d] + 1
    BY <1>3, BreakerAssumption DEF Saturated
  <2>5. /\ losses'[d] = Saturated(losses[d])
        /\ \A e \in Dests : e # d => losses'[e] = losses[e]
    BY <2>1, <1>1, CircType
  <2>6. j.state = "closed" => losses'[d] <= j.failures
    <3>1. Saturated(losses[d]) \in 0..FailureThreshold
      BY <1>3, Saturates
    <3> HIDE DEF j, k, d
    <3> QED
      BY <3>1, <1>3, <2>2, <2>3, <2>4, <2>5, BreakerAssumption
  <2> HIDE DEF j, d
  <2> QED
    BY <2>1, <2>5, <2>6, <1>1, <1>4, WorkCounts
<1> QED
  BY <1>5, <1>6

LEMMA ResetCounts ==
    ASSUME CInv, NEW d \in Dests, Reset(d)
    PROVE  Kept' /\ Counted'
<1> DEFINE j == ResetCircuit(circ[reg[d]])
<1>1. TypeOK /\ reg[d] \in Circuits
  BY CircType DEF CInv, IInv, Reset
<1>2. /\ circ' = [circ EXCEPT ![reg[d]] = j]
      /\ losses' = [losses EXCEPT ![d] = 0]
      /\ UNCHANGED <<reg, pc, dest, held>>
  BY DEF Reset, caller
<1>3. j.failures \in Nat
  BY <1>1, ResetSane, BreakerAssumption DEF CInv, IInv, AllSane, Sane, CircuitType
<1>4. losses'[d] = 0 /\ \A e \in Dests : e # d => losses'[e] = losses[e]
  BY <1>1, <1>2, CircType
<1>5. Kept'
  BY <1>2 DEF Kept, Holder, CInv
<1> HIDE DEF j
<1>6. losses'[d] <= j.failures
  BY <1>3, <1>4
<1> QED
  BY <1>1, <1>2, <1>4, <1>5, <1>6, WorkCounts

LEMMA ElapseCounts ==
    ASSUME CInv, NEW o \in Circuits, Elapse(o)
    PROVE  Kept' /\ Counted'
<1> DEFINE j == [circ[o] EXCEPT !.elapsed = TRUE]
<1>1. TypeOK /\ Sane(circ[o])
  BY DEF CInv, IInv, AllSane
<1>2. circ' = [circ EXCEPT ![o] = j] /\ UNCHANGED <<reg, pc, dest, held, losses>>
  BY DEF Elapse, caller
<1>3. j.state = circ[o].state /\ j.failures = circ[o].failures
  BY <1>1, ElapseSane
<1>4. Kept'
  BY <1>2 DEF Kept, Holder, CInv
<1> HIDE DEF j
<1>5. \A x \in Circuits : circ'[x].state = circ[x].state /\ circ'[x].failures = circ[x].failures
  BY <1>1, <1>2, <1>3, CircType
<1>6. \A d \in Dests : reg[d] # NoCircuit => reg[d] \in Circuits
  BY <1>1, CircType
<1>7. Counted'
  BY <1>2, <1>5, <1>6 DEF CInv, Counted
<1> QED
  BY <1>4, <1>7

LEMMA StepCInv == ASSUME Roomy PROVE CInv /\ [Next]_vars => CInv'
<1> SUFFICES ASSUME CInv, [Next]_vars PROVE Kept' /\ Counted'
  BY StepIInv DEF CInv
<1>0. TypeOK
  BY DEF CInv, IInv
<1>1. ASSUME NEW c \in Callers, CanExecute(c) PROVE Kept' /\ Counted'
  BY <1>1, CanExecuteCounts
<1>2. ASSUME NEW c \in Callers, RecordSuccess(c) \/ RecordFailure(c) PROVE Kept' /\ Counted'
  BY <1>2, RecordCounts
<1>3. ASSUME NEW c \in Callers, EndCall(c) PROVE Kept' /\ Counted'
  <2>1. PICK o \in Circuits : GetOrCreate(dest[c], o) /\ held' = [held EXCEPT ![c] = o]
    BY <1>3 DEF EndCall
  <2>2. dest[c] \in Dests /\ dest' = [dest EXCEPT ![c] = dest[c]]
    BY <1>0, <1>3, CircType DEF EndCall
  <2>3. "record" \in Phases /\ pc' = [pc EXCEPT ![c] = "record"] /\ UNCHANGED losses
    BY <1>3 DEF EndCall, Phases
  <2> QED
    BY <2>1, <2>2, <2>3, LookupCounts
<1>4. ASSUME NEW c \in Callers, NEW d \in Dests, Ask(c, d) PROVE Kept' /\ Counted'
  <2>1. PICK o \in Circuits : GetOrCreate(d, o) /\ held' = [held EXCEPT ![c] = o]
    BY <1>4 DEF Ask
  <2>2. /\ "ask" \in Phases /\ pc' = [pc EXCEPT ![c] = "ask"]
        /\ dest' = [dest EXCEPT ![c] = d] /\ UNCHANGED losses
    BY <1>4 DEF Ask, Phases
  <2> QED
    BY <2>1, <2>2, LookupCounts
<1>5. ASSUME NEW c \in Callers, Abandon(c) PROVE Kept' /\ Counted'
  <2>1. Done(c) /\ UNCHANGED <<reg, circ, held, losses>>
    BY <1>5 DEF Abandon
  <2>2. Kept'
    BY <2>1, <1>0, DoneReleases, ReleaseKeeps
  <2> QED
    BY <2>1, <2>2 DEF Counted, CInv
<1>6. ASSUME NEW d \in Dests, Reset(d) PROVE Kept' /\ Counted'
  BY <1>6, ResetCounts
<1>7. ASSUME NEW d \in Dests, Flip(d) PROVE Kept' /\ Counted'
  BY <1>7 DEF Flip, caller, Kept, Holder, Counted, CInv
<1>8. ASSUME NEW o \in Circuits, Elapse(o) PROVE Kept' /\ Counted'
  BY <1>8, ElapseCounts
<1>9. CASE UNCHANGED vars
  BY <1>9 DEF vars, caller, Kept, Holder, Counted, CInv
<1> QED
  BY <1>1, <1>2, <1>3, <1>4, <1>5, <1>6, <1>7, <1>8, <1>9 DEF Next, CallStep

\* A destination that failed FailureThreshold times in a row is blocked or on
\* trial, whatever late outcomes and resets come in between, as long as the
\* table has room for every destination.
THEOREM BreakerFailingIsBlocked ==
    ASSUME Roomy
    PROVE  Spec => []FailingIsBlocked
<1>1. Init => CInv
  BY InitIInv DEF Init, CInv, Kept, Holder, Counted
<1>2. CInv /\ [Next]_vars => CInv'
  BY StepCInv
<1>3. CInv => FailingIsBlocked
  <2> SUFFICES ASSUME CInv, NEW d \in Dests, reg[d] # NoCircuit, losses[d] >= FailureThreshold,
                      circ[reg[d]].state = "closed"
               PROVE  FALSE
    BY DEF FailingIsBlocked, Tracked
  <2>1. TypeOK /\ reg[d] \in Circuits
    BY CircType DEF CInv, IInv
  <2>2. /\ circ[reg[d]].failures < FailureThreshold
        /\ circ[reg[d]].failures \in 0..FailureThreshold /\ losses[d] \in 0..FailureThreshold
    BY <2>1, CircType DEF CInv, IInv, AllSane, Sane, CircuitType
  <2>3. losses[d] <= circ[reg[d]].failures
    BY DEF CInv, Counted
  <2> QED
    BY <2>2, <2>3, BreakerAssumption
<1> QED
  BY <1>1, <1>2, <1>3, PTL DEF Spec
=============================================================================
