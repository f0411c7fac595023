------------------------ MODULE BridgeLifecycleProofs ------------------------
(* Types of the bridge's life cycle, and the one usable router of its first  *)
(* run, for every number of attempts and of later restarts.                  *)
EXTENDS BridgeLifecycle, TLAPS

\* The type invariant by sort: what is counted or a place, and what is a flag.
Places ==
    /\ op \in OpPlaces
    /\ starts \in 0 .. MaxStarts
    /\ rns \in [Lives -> RnsPlaces]
    /\ bridge \in [Lives -> BridgePlaces]
    /\ stack \in Stacks
    /\ attempts \in 0 .. MaxAttempts
    /\ routers \in 0 .. MaxRouters
    /\ state \in {"healthy", "disconnected", "disabled"}

Flags ==
    /\ running \in BOOLEAN /\ stopEvent \in BOOLEAN
    /\ processing \in BOOLEAN /\ queueEvent \in BOOLEAN
    /\ opened \in BOOLEAN /\ link \in BOOLEAN /\ permanent \in BOOLEAN
    /\ router \in BOOLEAN /\ source \in BOOLEAN /\ destination \in BOOLEAN
    /\ plugin \in BOOLEAN

FlagsPerLife ==
    /\ handler \in [Lives -> BOOLEAN]
    /\ worker \in [Lives -> BOOLEAN]

LEMMA TypeBySort == TypeOK <=> Places /\ Flags /\ FlagsPerLife
  BY DEF TypeOK, Places, Flags, FlagsPerLife

LEMMA TypeBySortNext == TypeOK' <=> Places' /\ Flags' /\ FlagsPerLife'
  BY DEF TypeOK, Places, Flags, FlagsPerLife

LEMMA RnsPlaceTypes ==
    ASSUME Places, NEW l \in Lives, RnsThread(l)
    PROVE  Places'
  <1> USE LifecycleAssumption DEF Places, RnsPlaces, others, elsewhere, flags, queue, session, GoTo
  <1>1. CASE RnsTop(l)
    BY <1>1 DEF RnsTop
  <1>2. CASE RnsGivenUp(l)
    BY <1>2 DEF RnsGivenUp
  <1>3. CASE RnsEnd(l)
    BY <1>3 DEF RnsEnd
  <1>4. CASE Open(l)
    BY <1>4 DEF Open, Fail, FailForGood, LoopError
  <1>5. CASE BuildRouter(l)
    BY <1>5 DEF BuildRouter, Fail
  <1>6. CASE RegisterSource(l)
    BY <1>6 DEF RegisterSource, Fail
  <1>7. CASE Announce(l)
    BY <1>7 DEF Announce, Fail
  <1>8. CASE Ready(l)
    BY <1>8 DEF Ready
  <1>9. CASE Verdict(l)
    BY <1>9 DEF Verdict
  <1>10. CASE MarkHealthy(l)
    BY <1>10 DEF MarkHealthy
  <1>11. CASE StartPlugins(l)
    BY <1>11 DEF StartPlugins, LoopError
  <1> QED
    BY <1>1, <1>2, <1>3, <1>4, <1>5, <1>6, <1>7, <1>8, <1>9, <1>10, <1>11 DEF RnsThread

LEMMA RnsFlagTypes ==
    ASSUME Flags, NEW l \in Lives, RnsThread(l)
    PROVE  Flags'
  <1> USE DEF Flags, others, elsewhere, flags, queue, session
  <1>1. CASE RnsTop(l)
    BY <1>1 DEF RnsTop
  <1>2. CASE RnsGivenUp(l)
    BY <1>2 DEF RnsGivenUp
  <1>3. CASE RnsEnd(l)
    BY <1>3 DEF RnsEnd
  <1>4. CASE Open(l)
    <2>0. /\ UNCHANGED <<running, stopEvent, processing, queueEvent, destination, plugin>>
          /\ UNCHANGED session
      BY <1>4 DEF Open, Fail, FailForGood, LoopError
    <2>1. opened' \in BOOLEAN
      BY <1>4 DEF Open, Fail, FailForGood, LoopError
    <2>2. link' \in BOOLEAN
      BY <1>4 DEF Open, Fail, FailForGood, LoopError
    <2>3. permanent' \in BOOLEAN
      BY <1>4 DEF Open, Fail, FailForGood, LoopError
    <2> QED
      BY <2>0, <2>1, <2>2, <2>3
  <1>5. CASE BuildRouter(l)
    BY <1>5 DEF BuildRouter, Fail
  <1>6. CASE RegisterSource(l)
    BY <1>6 DEF RegisterSource, Fail
  <1>7. CASE Announce(l)
    BY <1>7 DEF Announce, Fail
  <1>8. CASE Ready(l)
    BY <1>8 DEF Ready
  <1>9. CASE Verdict(l)
    BY <1>9 DEF Verdict
  <1>10. CASE MarkHealthy(l)
    BY <1>10 DEF MarkHealthy
  <1>11. CASE StartPlugins(l)
    BY <1>11 DEF StartPlugins, LoopError
  <1> QED
    BY <1>1, <1>2, <1>3, <1>4, <1>5, <1>6, <1>7, <1>8, <1>9, <1>10, <1>11 DEF RnsThread

LEMMA StepPlaces ==
    ASSUME Places, [Next]_vars
    PROVE  Places'
  <1> USE LifecycleAssumption DEF Places
  <1>1. CASE Start
    BY <1>1 DEF Start, StartProcessing, session, Lives, RnsPlaces, BridgePlaces
  <1>2. CASE Stop \/ StopCall
    BY <1>2 DEF Stop, StopCall, StopPlugin, DropSession, DropLink, Join, lives, OpPlaces
  <1>3. CASE StackChanges
    BY <1>3 DEF StackChanges, session
  <1>4. ASSUME NEW l \in Lives, RnsThread(l)
        PROVE  Places'
    BY <1>4, RnsPlaceTypes
  <1>5. ASSUME NEW l \in Lives, BridgeThread(l)
        PROVE  Places'
    BY <1>5 DEF BridgeThread, Sync, SyncWrite, BridgeEnd, connection, session, BridgePlaces
  <1>6. ASSUME NEW l \in Lives, HandlerEnd(l) \/ WorkerEnd(l)
        PROVE  Places'
    BY <1>6 DEF HandlerEnd, WorkerEnd, connection, session
  <1>7. CASE UNCHANGED vars
    BY <1>7 DEF vars, session
  <1> QED
    BY <1>1, <1>2, <1>3, <1>4, <1>5, <1>6, <1>7 DEF Next

LEMMA StepFlags ==
    ASSUME Flags, [Next]_vars
    PROVE  Flags'
  <1> USE DEF Flags
  <1>1. CASE Start
    BY <1>1 DEF Start, StartProcessing, session, queue
  <1>2. CASE Stop \/ StopCall
    <2>1. CASE Stop
      BY <2>1 DEF Stop, lives
    <2>2. CASE StopPlugin
      BY <2>2 DEF StopPlugin, lives, flags
    <2>3. CASE DropSession
      BY <2>3 DEF DropSession, lives, flags
    <2>4. CASE DropLink
      BY <2>4 DEF DropLink, lives, flags
    <2>5. CASE Join
      BY <2>5 DEF Join, lives, flags
    <2> QED
      BY <1>2, <2>1, <2>2, <2>3, <2>4, <2>5 DEF StopCall
  <1>3. CASE StackChanges
    BY <1>3 DEF StackChanges, flags, queue, session
  <1>4. ASSUME NEW l \in Lives, RnsThread(l)
        PROVE  Flags'
    BY <1>4, RnsFlagTypes
  <1>5. ASSUME NEW l \in Lives, BridgeThread(l)
        PROVE  Flags'
    BY <1>5 DEF BridgeThread, Sync, SyncWrite, BridgeEnd, connection, flags, queue, session
  <1>6. ASSUME NEW l \in Lives, HandlerEnd(l) \/ WorkerEnd(l)
        PROVE  Flags'
    BY <1>6 DEF HandlerEnd, WorkerEnd, connection, flags, session, queue
  <1>7. CASE UNCHANGED vars
    BY <1>7 DEF vars, flags, queue, session
  <1> QED
    BY <1>1, <1>2, <1>3, <1>4, <1>5, <1>6, <1>7 DEF Next

LEMMA StepFlagsPerLife ==
    ASSUME Places, FlagsPerLife, [Next]_vars
    PROVE  FlagsPerLife'
  <1>1. CASE Start
    <2>1. handler' = [handler EXCEPT ![starts'] = TRUE]
      BY <1>1 DEF Start
    <2>2. worker' = worker \/ worker' = [worker EXCEPT ![starts'] = TRUE]
      BY <1>1 DEF Start, StartProcessing, queue
    <2> QED
      BY <2>1, <2>2 DEF FlagsPerLife
  <1>2. ASSUME NEW l \in Lives, HandlerEnd(l) \/ WorkerEnd(l)
        PROVE  FlagsPerLife'
    <2>1. handler' = handler \/ handler' = [handler EXCEPT ![l] = FALSE]
      BY <1>2 DEF HandlerEnd, WorkerEnd
    <2>2. worker' = worker \/ worker' = [worker EXCEPT ![l] = FALSE]
      BY <1>2 DEF HandlerEnd, WorkerEnd, queue
    <2> QED
      BY <2>1, <2>2 DEF FlagsPerLife
  <1>3. CASE UNCHANGED <<handler, worker>>
    BY <1>3 DEF FlagsPerLife
  <1>4. ASSUME NEW l \in Lives, RnsThread(l) \/ BridgeThread(l)
        PROVE  UNCHANGED <<handler, worker>>
    BY <1>4 DEF RnsThread, RnsTop, RnsGivenUp, RnsEnd, Open, BuildRouter, RegisterSource, Announce,
                Ready, Verdict, MarkHealthy, StartPlugins, others, elsewhere, queue, BridgeThread, Sync,
                SyncWrite, BridgeEnd
  <1>5. Stop \/ StopCall \/ StackChanges \/ UNCHANGED vars => UNCHANGED <<handler, worker>>
    BY DEF Stop, StopCall, StopPlugin, DropSession, DropLink, Join, lives, StackChanges, vars, queue
  <1> QED
    BY <1>1, <1>2, <1>3, <1>4, <1>5 DEF Next

LEMMA InitTypes == Init => TypeOK
  <1>1. Init => Places
    BY LifecycleAssumption DEF Init, Places, RnsPlaces, BridgePlaces, OpPlaces, Lives
  <1>2. Init => Flags /\ FlagsPerLife
    BY DEF Init, Flags, FlagsPerLife
  <1> QED
    BY <1>1, <1>2, TypeBySort

\* Types, for any number of starts and attempts: each life's threads keep to their places and
\* the attempts never exceed the most that _rns_loop makes before it begins anew.
THEOREM LifecycleTypeCorrect == Spec => []TypeOK
  <1>1. Init => TypeOK
    BY InitTypes
  <1>2. TypeOK /\ [Next]_vars => TypeOK'
    BY StepPlaces, StepFlags, StepFlagsPerLife, TypeBySort, TypeBySortNext
  <1> QED
    BY <1>1, <1>2, PTL DEF Spec

-----------------------------------------------------------------------------

\* Nothing exists before the first start, and only the first life runs before the second.
Untouched ==
    /\ op # "idle" => ~running /\ starts # 0
    /\ starts = 0 => ~running /\ ~router /\ ~source /\ ~link /\ routers = 0 /\ rns[1] = "none"
    /\ starts <= 1 => \A l \in Lives : l # 1 => rns[l] = "none"

\* While the first life runs, the routers ever constructed are the one that is set.
OneSession ==
    starts = 1 /\ running =>
        /\ routers = IF router THEN 1 ELSE 0
        /\ (link \/ rns[1] = "ready") => router /\ source

RouterInv == TypeOK /\ Untouched /\ OneSession

LEMMA FirstLife == 1 \in Lives
  BY LifecycleAssumption DEF Lives

\* An RNS thread of a life that has begun; in the first life there is no other.
LEMMA RnsThreadLives ==
    ASSUME RouterInv, NEW l \in Lives, RnsThread(l)
    PROVE  /\ starts # 0 /\ (starts = 1 => l = 1)
           /\ UNCHANGED <<op, running, starts>>
           /\ \A k \in Lives : k # l => rns'[k] = rns[k]
  <1>1. rns[l] # "none"
    BY DEF RnsThread, RnsTop, RnsGivenUp, RnsEnd, Open, BuildRouter, RegisterSource, Announce,
           Ready, Verdict, MarkHealthy, StartPlugins
  <1>2. starts # 0 /\ (starts = 1 => l = 1)
    BY <1>1, FirstLife, LifecycleAssumption DEF RouterInv, Untouched, TypeOK
  <1>3. UNCHANGED <<op, running, starts>>
    BY DEF RnsThread, others, elsewhere, flags, RnsTop, RnsGivenUp, RnsEnd, Open, BuildRouter, RegisterSource, Announce,
           Ready, Verdict, MarkHealthy, StartPlugins
  <1>4. rns' = rns \/ \E place : rns' = [rns EXCEPT ![l] = place]
    BY DEF RnsThread, GoTo, Fail, FailForGood, LoopError,
           RnsTop, RnsGivenUp, RnsEnd, Open, BuildRouter, RegisterSource, Announce,
           Ready, Verdict, MarkHealthy, StartPlugins
  <1> QED
    BY <1>2, <1>3, <1>4 DEF RouterInv, TypeOK

\* Failing anywhere keeps the router and the identity; a new attempt takes them up again.
LEMMA RnsKeepsSession ==
    ASSUME RouterInv, NEW l \in Lives, RnsThread(l)
    PROVE  Untouched' /\ OneSession'
  <1>1. Untouched'
    BY RnsThreadLives, LifecycleAssumption DEF RouterInv, Untouched, TypeOK
  <1>2. OneSession'
    <2> SUFFICES ASSUME starts = 1, running, l = 1, UNCHANGED <<starts, running>>
                 PROVE  /\ routers' = IF router' THEN 1 ELSE 0
                        /\ (link' \/ rns'[1] = "ready") => router' /\ source'
      BY RnsThreadLives DEF OneSession
    <2>0. /\ rns \in [Lives -> RnsPlaces] /\ 1 \in Lives /\ MaxRouters \in Nat \ {0, 1}
          /\ routers = IF router THEN 1 ELSE 0
          /\ (link \/ rns[1] = "ready") => router /\ source
      BY FirstLife, LifecycleAssumption DEF RouterInv, TypeOK, OneSession
    <2> USE <2>0 DEF GoTo, session
    <2>1. CASE RnsTop(l) \/ RnsGivenUp(l) \/ RnsEnd(l)
      BY <2>1 DEF RnsTop, RnsGivenUp, RnsEnd
    <2>2. CASE Open(l)
      BY <2>2 DEF Open, Fail, FailForGood, LoopError
    <2>3. CASE BuildRouter(l)
      BY <2>3 DEF BuildRouter, Fail
    <2>4. CASE RegisterSource(l)
      BY <2>4 DEF RegisterSource, Fail
    <2>5. CASE Announce(l)
      BY <2>5 DEF Announce, Fail
    <2>6. CASE Ready(l)
      BY <2>6 DEF Ready
    <2>7. CASE Verdict(l) \/ MarkHealthy(l)
      BY <2>7 DEF Verdict, MarkHealthy
    <2>8. CASE StartPlugins(l)
      BY <2>8 DEF StartPlugins, LoopError
    <2> QED
      BY <2>1, <2>2, <2>3, <2>4, <2>5, <2>6, <2>7, <2>8 DEF RnsThread
  <1> QED
    BY <1>1, <1>2

LEMMA RouterStep ==
    ASSUME RouterInv, [Next]_vars
    PROVE  Untouched' /\ OneSession'
  <1> USE DEF RouterInv, Untouched, OneSession
  <1>1. CASE Start
    <2>1. /\ starts' = starts + 1 /\ running' = TRUE /\ op' = "idle"
          /\ rns' = [rns EXCEPT ![starts'] = "top"]
          /\ UNCHANGED <<router, source, routers, link>>
      BY <1>1 DEF Start, session
    <2> QED
      BY <2>1, FirstLife, LifecycleAssumption DEF TypeOK, Lives
  <1>2. CASE Stop \/ StopCall
    <2>1. ~running' /\ UNCHANGED <<starts, rns, routers>> /\ starts # 0
      <3>1. CASE Stop
        BY <3>1, FirstLife DEF Stop, lives
      <3>2. CASE StopPlugin \/ DropLink \/ Join
        BY <3>2 DEF StopPlugin, DropLink, Join, lives, flags
      <3>3. CASE DropSession
        BY <3>3 DEF DropSession, lives, flags
      <3> QED
        BY <1>2, <3>1, <3>2, <3>3 DEF StopCall
    <2> QED
      BY <2>1
  <1>3. ASSUME NEW l \in Lives, RnsThread(l)
        PROVE  Untouched' /\ OneSession'
    BY <1>3, RnsKeepsSession
  <1>4. CASE UNCHANGED <<op, running, starts, rns, link, session>>
    BY <1>4 DEF session
  <1>5. StackChanges \/ UNCHANGED vars => UNCHANGED <<op, running, starts, rns, link, session>>
    BY DEF StackChanges, vars, flags, session
  <1>6. ASSUME NEW l \in Lives, BridgeThread(l) \/ HandlerEnd(l) \/ WorkerEnd(l)
        PROVE  UNCHANGED <<op, running, starts, rns, link, session>>
    BY <1>6 DEF BridgeThread, Sync, SyncWrite, BridgeEnd, HandlerEnd, WorkerEnd, connection, flags,
                session
  <1> QED
    BY <1>1, <1>2, <1>3, <1>4, <1>5, <1>6 DEF Next

\* Until the first stop one router is constructed, however many attempts fail, and whoever finds
\* the connection's flag set finds the router and the identity: for every number of attempts.
THEOREM LifecycleOneUsableRouter == Spec => []OneUsableRouter
  <1>1. Init => Untouched /\ OneSession
    BY FirstLife DEF Init, Untouched, OneSession
  <1>2. Init => TypeOK
    BY InitTypes
  <1>3. RouterInv /\ [Next]_vars => RouterInv'
    BY RouterStep, StepPlaces, StepFlags, StepFlagsPerLife, TypeBySort, TypeBySortNext DEF RouterInv
  <1>4. RouterInv => OneUsableRouter
    BY DEF RouterInv, OneSession, OneUsableRouter
  <1> QED
    BY <1>1, <1>2, <1>3, <1>4, PTL DEF Spec, RouterInv
=============================================================================
