------------------------- MODULE MessageQueueProofs -------------------------
EXTENDS MessageQueue, FiniteSetTheorems, TLAPS

USE QueueAssumption DEF QueueAssumption

LEMMA FireType ==
    ASSUME NEW f \in [Ids -> [Results -> Nat]], NEW S, NEW r \in Results
    PROVE  /\ Fire(f, S, r) \in [Ids -> [Results -> Nat]]
           /\ \A i \in Ids, q \in Results :
                Fire(f, S, r)[i][q] = IF i \in S /\ q = r THEN f[i][q] + 1 ELSE f[i][q]
  BY DEF Fire

LEMMA DepthType == Depth \in Nat
  <1>1. IsFiniteSet(Ids)
    <2>1. 1 \in Int /\ MaxRows \in Int
      OBVIOUS
    <2> QED
      BY <2>1, FS_Interval, Zenon DEF Ids
  <1>2. IsFiniteSet({i \in Ids : status[i] \in Active})
    BY <1>1, FS_Subset
  <1> QED
    BY <1>2, FS_CardinalityType DEF Depth

LEMMA NoReqType == NoReq \in [content : Contents, prio : 1..4]
  BY DEF NoReq, NORMAL

LEMMA AdvanceType ==
    ASSUME WorkerOK, NEW w \in Workers, NEW rest \in SUBSET Ids, Advance(w, rest)
    PROVE  WorkerOK'
  BY DEF WorkerOK, Advance, Holding

LEMMA ReturnType ==
    ASSUME WriterOK, NEW e \in Writers, Return(e), UNCHANGED victims
    PROVE  WriterOK'
  BY NoReqType DEF WriterOK, Return

LEMMA CleanupType ==
    ASSUME RowOK, HistoryOK, SomeCleanup, UNCHANGED <<content, prio, due, recent, wire, acked, raced, cleared>>
    PROVE  RowOK' /\ HistoryOK'
  BY FireType DEF RowOK, HistoryOK, SomeCleanup, CleanupStale, Statuses, Results

LEMMA TypeInit == Init => TypeOK
  BY NoReqType DEF Init, TypeOK, RowOK, WorkerOK, WriterOK, HistoryOK, BoundsOK, Statuses, NORMAL, Holding, NoReq, Ids

LEMMA TypeStep == TypeOK /\ [Next]_vars => TypeOK'
  <1> SUFFICES ASSUME TypeOK, [Next]_vars PROVE TypeOK'
    OBVIOUS
  <1> USE DEF TypeOK
  <1>1. ASSUME NEW w \in Workers, Fetch(w) PROVE TypeOK'
    <2>1. RowOK'
      BY <1>1 DEF Fetch, RowOK, row, Statuses, Active
    <2>2. WorkerOK'
      BY <1>1, AdvanceType DEF Fetch, WorkerOK, worker, Holding, GetPending, FirstToSend
    <2>3. WriterOK'
      BY <1>1, NoReqType DEF Fetch, WriterOK, writer
    <2>4. HistoryOK'
      BY <1>1, FireType DEF Fetch, HistoryOK, history, Results
    <2>5. BoundsOK'
      BY <1>1 DEF Fetch, BoundsOK, bounds
    <2> QED
      BY <2>1, <2>2, <2>3, <2>4, <2>5
  <1>2. ASSUME NEW w \in Workers, PaceBreak(w) PROVE TypeOK'
    <2>1. RowOK'
      BY <1>2 DEF PaceBreak, RowOK, row, Statuses, Active
    <2>2. WorkerOK'
      BY <1>2, AdvanceType DEF PaceBreak, WorkerOK, worker, Holding
    <2>3. WriterOK'
      BY <1>2, NoReqType DEF PaceBreak, WriterOK, writer
    <2>4. HistoryOK'
      BY <1>2, FireType DEF PaceBreak, HistoryOK, history, Results
    <2>5. BoundsOK'
      BY <1>2 DEF PaceBreak, BoundsOK, bounds
    <2> QED
      BY <2>1, <2>2, <2>3, <2>4, <2>5
  <1>3. ASSUME NEW w \in Workers, MarkInProgress(w) PROVE TypeOK'
    <2>1. RowOK'
      BY <1>3 DEF MarkInProgress, RowOK, row, Statuses, Active
    <2>2. WorkerOK'
      BY <1>3, AdvanceType DEF MarkInProgress, WorkerOK, worker, Holding, FirstToSend
    <2>3. WriterOK'
      BY <1>3, NoReqType DEF MarkInProgress, WriterOK, writer
    <2>4. HistoryOK'
      BY <1>3, FireType DEF MarkInProgress, HistoryOK, history, Results
    <2>5. BoundsOK'
      BY <1>3 DEF MarkInProgress, BoundsOK, bounds
    <2> QED
      BY <2>1, <2>2, <2>3, <2>4, <2>5
  <1>4. ASSUME NEW w \in Workers, NEW o \in Outcomes, Send(w, o) PROVE TypeOK'
    <2>1. RowOK'
      BY <1>4 DEF Send, RowOK, row, Statuses, Active
    <2>2. WorkerOK'
      BY <1>4 DEF Send, WorkerOK, worker, Holding
    <2>3. WriterOK'
      BY <1>4, NoReqType DEF Send, WriterOK, writer
    <2>4. HistoryOK'
      BY <1>4 DEF Send, HistoryOK, history, WorkerOK, Holding
    <2>5. BoundsOK'
      BY <1>4 DEF Send, BoundsOK, bounds
    <2> QED
      BY <2>1, <2>2, <2>3, <2>4, <2>5
  <1>4a. ASSUME NEW w \in Workers, Transmit(w) PROVE TypeOK'
    <2>1. RowOK'
      BY <1>4a DEF Transmit, RowOK, row, Statuses, Active
    <2>2. WorkerOK'
      BY <1>4a DEF Transmit, WorkerOK, worker, Holding
    <2>3. WriterOK'
      BY <1>4a, NoReqType DEF Transmit, WriterOK, writer
    <2>4. HistoryOK'
      BY <1>4a DEF Transmit, HistoryOK, history, WorkerOK, Holding
    <2>5. BoundsOK'
      BY <1>4a DEF Transmit, BoundsOK, bounds
    <2> QED
      BY <2>1, <2>2, <2>3, <2>4, <2>5
  <1>5. ASSUME NEW w \in Workers, MarkDelivered(w) PROVE TypeOK'
    <2>1. RowOK'
      BY <1>5 DEF MarkDelivered, RowOK, row, Statuses, Active
    <2>2. WorkerOK'
      BY <1>5, AdvanceType DEF MarkDelivered, WorkerOK, worker, Holding
    <2>3. WriterOK'
      BY <1>5, NoReqType DEF MarkDelivered, WriterOK, writer
    <2>4. HistoryOK'
      BY <1>5, FireType DEF MarkDelivered, HistoryOK, history, Results
    <2>5. BoundsOK'
      BY <1>5 DEF MarkDelivered, BoundsOK, bounds
    <2> QED
      BY <2>1, <2>2, <2>3, <2>4, <2>5
  <1>6. ASSUME NEW w \in Workers, DeliveredUnrecorded(w) PROVE TypeOK'
    <2>1. RowOK'
      BY <1>6 DEF DeliveredUnrecorded, RowOK, row, Statuses, Active
    <2>2. WorkerOK'
      BY <1>6, AdvanceType DEF DeliveredUnrecorded, WorkerOK, worker, Holding
    <2>3. WriterOK'
      BY <1>6, NoReqType DEF DeliveredUnrecorded, WriterOK, writer
    <2>4. HistoryOK'
      BY <1>6, FireType DEF DeliveredUnrecorded, HistoryOK, history, Results
    <2>5. BoundsOK'
      BY <1>6 DEF DeliveredUnrecorded, BoundsOK, bounds
    <2> QED
      BY <2>1, <2>2, <2>3, <2>4, <2>5
  <1>7. ASSUME NEW w \in Workers, MarkFailedRead(w) PROVE TypeOK'
    <2>1. RowOK'
      BY <1>7 DEF MarkFailedRead, RowOK, row, Statuses, Active
    <2>2. WorkerOK'
      <3>1. CASE status[cur[w]] = "gone"
        BY <1>7, <3>1, AdvanceType DEF MarkFailedRead, WorkerOK
      <3>2. CASE status[cur[w]] # "gone"
        BY <1>7, <3>2 DEF MarkFailedRead, WorkerOK, RowOK, Holding
      <3> QED
        BY <3>1, <3>2
    <2>3. WriterOK'
      BY <1>7, NoReqType DEF MarkFailedRead, WriterOK, writer
    <2>4. HistoryOK'
      BY <1>7, FireType DEF MarkFailedRead, HistoryOK, history, Results
    <2>5. BoundsOK'
      BY <1>7 DEF MarkFailedRead, BoundsOK, bounds
    <2> QED
      BY <2>1, <2>2, <2>3, <2>4, <2>5
  <1>8. ASSUME NEW w \in Workers, NEW x \in Errors, MarkFailedWrite(w, x) PROVE TypeOK'
    <2>1. RowOK'
      <3>1. CASE status[cur[w]] \in Active
        <4>1. cur[w] \in Ids /\ seen[w] + 1 \in Nat
          BY <1>8 DEF MarkFailedWrite, WorkerOK, Holding
        <4>2. retry' = [retry EXCEPT ![cur[w]] = seen[w] + 1]
          BY <1>8, <3>1 DEF MarkFailedWrite
        <4>3. /\ status' \in {[status EXCEPT ![cur[w]] = "pending"], [status EXCEPT ![cur[w]] = "dead_letter"]}
              /\ due' \in {due, [due EXCEPT ![cur[w]] = FALSE]}
          BY <1>8, <3>1 DEF MarkFailedWrite
        <4>4. UNCHANGED <<content, prio, recent>>
          BY <1>8 DEF MarkFailedWrite
        <4> QED
          BY <4>1, <4>2, <4>3, <4>4 DEF RowOK, Statuses
      <3>2. CASE status[cur[w]] \notin Active
        BY <1>8, <3>2 DEF MarkFailedWrite, RowOK
      <3> QED
        BY <3>1, <3>2
    <2>2. WorkerOK'
      BY <1>8, AdvanceType DEF MarkFailedWrite, WorkerOK, worker, Holding
    <2>3. WriterOK'
      BY <1>8, NoReqType DEF MarkFailedWrite, WriterOK, writer
    <2>4. HistoryOK'
      BY <1>8, FireType DEF MarkFailedWrite, HistoryOK, history, Results
    <2>5. BoundsOK'
      BY <1>8 DEF MarkFailedWrite, BoundsOK, bounds
    <2> QED
      BY <2>1, <2>2, <2>3, <2>4, <2>5
  <1>9. ASSUME NEW w \in Workers, MarkDeferred(w) PROVE TypeOK'
    <2>1. RowOK'
      BY <1>9 DEF MarkDeferred, RowOK, row, Statuses, Active
    <2>2. WorkerOK'
      BY <1>9, AdvanceType DEF MarkDeferred, WorkerOK, worker, Holding
    <2>3. WriterOK'
      BY <1>9, NoReqType DEF MarkDeferred, WriterOK, writer
    <2>4. HistoryOK'
      BY <1>9, FireType DEF MarkDeferred, HistoryOK, history, Results
    <2>5. BoundsOK'
      BY <1>9 DEF MarkDeferred, BoundsOK, bounds
    <2> QED
      BY <2>1, <2>2, <2>3, <2>4, <2>5
  <1>10. ASSUME NEW w \in Workers, MarkRefused(w) PROVE TypeOK'
    <2>1. RowOK'
      BY <1>10 DEF MarkRefused, RowOK, row, Statuses, Active
    <2>2. WorkerOK'
      BY <1>10, AdvanceType DEF MarkRefused, WorkerOK, worker, Holding
    <2>3. WriterOK'
      BY <1>10, NoReqType DEF MarkRefused, WriterOK, writer
    <2>4. HistoryOK'
      BY <1>10, FireType DEF MarkRefused, HistoryOK, history, Results
    <2>5. BoundsOK'
      BY <1>10 DEF MarkRefused, BoundsOK, bounds
    <2> QED
      BY <2>1, <2>2, <2>3, <2>4, <2>5
  <1>11. ASSUME NEW w \in Workers, RecordingError(w) PROVE TypeOK'
    <2>1. RowOK'
      BY <1>11 DEF RecordingError, RowOK, row, Statuses, Active
    <2>2. WorkerOK'
      BY <1>11, AdvanceType DEF RecordingError, WorkerOK, worker, Holding
    <2>3. WriterOK'
      BY <1>11, NoReqType DEF RecordingError, WriterOK, writer
    <2>4. HistoryOK'
      BY <1>11, FireType DEF RecordingError, HistoryOK, history, Results
    <2>5. BoundsOK'
      BY <1>11 DEF RecordingError, BoundsOK, bounds
    <2> QED
      BY <2>1, <2>2, <2>3, <2>4, <2>5
  <1>12. ASSUME NEW w \in Workers, NEW i \in Ids, ExpireOverdue(w, i) PROVE TypeOK'
    <2>1. RowOK'
      BY <1>12 DEF ExpireOverdue, RowOK, row, Statuses, Active
    <2>2. WorkerOK'
      BY <1>12 DEF ExpireOverdue, WorkerOK, worker, Holding
    <2>3. WriterOK'
      BY <1>12, NoReqType DEF ExpireOverdue, WriterOK, writer
    <2>4. HistoryOK'
      BY <1>12, FireType DEF ExpireOverdue, HistoryOK, history, Results
    <2>5. BoundsOK'
      BY <1>12 DEF ExpireOverdue, BoundsOK, bounds
    <2> QED
      BY <2>1, <2>2, <2>3, <2>4, <2>5
  <1>13. ASSUME NEW e \in Writers, NEW c \in Contents, NEW p \in Priorities, CheckDuplicate(e, c, p) PROVE TypeOK'
    <2>1. RowOK'
      BY <1>13 DEF CheckDuplicate, RowOK, row, Statuses, Active
    <2>2. WorkerOK'
      BY <1>13 DEF CheckDuplicate, WorkerOK, worker, Holding
    <2>3. WriterOK'
      BY <1>13, NoReqType DEF CheckDuplicate, WriterOK, writer
    <2>4. HistoryOK'
      BY <1>13, FireType DEF CheckDuplicate, HistoryOK, history, Results
    <2>5. BoundsOK'
      BY <1>13 DEF CheckDuplicate, BoundsOK, bounds
    <2> QED
      BY <2>1, <2>2, <2>3, <2>4, <2>5
  <1>14. ASSUME NEW e \in Writers, SkipCleanup(e) PROVE TypeOK'
    <2>1. RowOK'
      BY <1>14 DEF SkipCleanup, RowOK, row, Statuses, Active
    <2>2. WorkerOK'
      BY <1>14 DEF SkipCleanup, WorkerOK, worker, Holding
    <2>3. WriterOK'
      BY <1>14, NoReqType DEF SkipCleanup, WriterOK, writer
    <2>4. HistoryOK'
      BY <1>14, FireType DEF SkipCleanup, HistoryOK, history, Results
    <2>5. BoundsOK'
      BY <1>14 DEF SkipCleanup, BoundsOK, bounds
    <2> QED
      BY <2>1, <2>2, <2>3, <2>4, <2>5
  <1>15. ASSUME NEW e \in Writers, AutoCleanup(e) PROVE TypeOK'
    <2>1. RowOK'
      BY <1>15, CleanupType DEF AutoCleanup
    <2>2. WorkerOK'
      BY <1>15 DEF AutoCleanup, WorkerOK, worker, Holding
    <2>3. WriterOK'
      BY <1>15, NoReqType DEF AutoCleanup, WriterOK, writer
    <2>4. HistoryOK'
      BY <1>15, CleanupType DEF AutoCleanup
    <2>5. BoundsOK'
      BY <1>15 DEF AutoCleanup, BoundsOK, bounds
    <2> QED
      BY <2>1, <2>2, <2>3, <2>4, <2>5
  <1>16. ASSUME NEW e \in Writers, ReadDepth(e) PROVE TypeOK'
    <2>1. RowOK'
      BY <1>16 DEF ReadDepth, RowOK, row, Statuses, Active
    <2>2. WorkerOK'
      BY <1>16 DEF ReadDepth, WorkerOK, worker, Holding
    <2>3. WriterOK'
      BY <1>16, NoReqType, DepthType DEF ReadDepth, WriterOK, writer
    <2>4. HistoryOK'
      BY <1>16, FireType DEF ReadDepth, HistoryOK, history, Results
    <2>5. BoundsOK'
      BY <1>16 DEF ReadDepth, BoundsOK, bounds
    <2> QED
      BY <2>1, <2>2, <2>3, <2>4, <2>5
  <1>17. ASSUME NEW e \in Writers, ShedSelect(e) PROVE TypeOK'
    <2>1. RowOK'
      BY <1>17 DEF ShedSelect, RowOK, row, Statuses, Active
    <2>2. WorkerOK'
      BY <1>17 DEF ShedSelect, WorkerOK, worker, Holding
    <2>3. WriterOK'
      <3>1. Sheddable(need[e]) \in SUBSET Ids
        BY DEF Sheddable, FirstToShed
      <3>2. CASE Sheddable(need[e]) = {}
        <4>1. Return(e) /\ UNCHANGED victims
          BY <1>17, <3>2 DEF ShedSelect
        <4> QED
          BY <4>1, ReturnType
      <3>3. CASE Sheddable(need[e]) # {}
        <4>1. /\ victims' = [victims EXCEPT ![e] = Sheddable(need[e])]
              /\ epc' = [epc EXCEPT ![e] = "delete"]
              /\ UNCHANGED <<req, need>>
          BY <1>17, <3>3 DEF ShedSelect
        <4> QED
          BY <3>1, <4>1 DEF WriterOK
      <3> QED
        BY <3>2, <3>3
    <2>4. HistoryOK'
      BY <1>17, FireType DEF ShedSelect, HistoryOK, history, Results
    <2>5. BoundsOK'
      BY <1>17 DEF ShedSelect, BoundsOK, bounds
    <2> QED
      BY <2>1, <2>2, <2>3, <2>4, <2>5
  <1>18. ASSUME NEW e \in Writers, ShedDelete(e) PROVE TypeOK'
    <2>1. RowOK'
      BY <1>18 DEF ShedDelete, RowOK, row, Statuses, Active
    <2>2. WorkerOK'
      BY <1>18 DEF ShedDelete, WorkerOK, worker, Holding
    <2>3. WriterOK'
      BY <1>18, NoReqType DEF ShedDelete, WriterOK, writer
    <2>4. HistoryOK'
      BY <1>18, FireType DEF ShedDelete, HistoryOK, WriterOK, Results
    <2>5. BoundsOK'
      BY <1>18 DEF ShedDelete, BoundsOK, bounds
    <2> QED
      BY <2>1, <2>2, <2>3, <2>4, <2>5
  <1>19. ASSUME NEW e \in Writers, Insert(e) PROVE TypeOK'
    <2>1. RowOK'
      BY <1>19 DEF Insert, RowOK, WriterOK, Statuses
    <2>2. WorkerOK'
      BY <1>19 DEF Insert, WorkerOK, worker, Holding
    <2>3. WriterOK'
      BY <1>19, NoReqType, ReturnType DEF Insert, WriterOK, writer
    <2>4. HistoryOK'
      BY <1>19, FireType DEF Insert, HistoryOK, history, Results
    <2>5. BoundsOK'
      BY <1>19 DEF Insert, BoundsOK, bounds
    <2> QED
      BY <2>1, <2>2, <2>3, <2>4, <2>5
  <1>20. ASSUME NEW i \in Ids, RetryDeadLetter(i) PROVE TypeOK'
    <2>1. RowOK'
      BY <1>20 DEF RetryDeadLetter, RowOK, row, Statuses, Active
    <2>2. WorkerOK'
      BY <1>20 DEF RetryDeadLetter, WorkerOK, worker, Holding
    <2>3. WriterOK'
      BY <1>20, NoReqType DEF RetryDeadLetter, WriterOK, writer
    <2>4. HistoryOK'
      BY <1>20, FireType DEF RetryDeadLetter, HistoryOK, history, Results
    <2>5. BoundsOK'
      BY <1>20 DEF RetryDeadLetter, BoundsOK, bounds
    <2> QED
      BY <2>1, <2>2, <2>3, <2>4, <2>5
  <1>21. ASSUME NEW i \in Ids, BackoffElapses(i) PROVE TypeOK'
    <2>1. RowOK'
      BY <1>21 DEF BackoffElapses, RowOK, row, Statuses, Active
    <2>2. WorkerOK'
      BY <1>21 DEF BackoffElapses, WorkerOK, worker, Holding
    <2>3. WriterOK'
      BY <1>21, NoReqType DEF BackoffElapses, WriterOK, writer
    <2>4. HistoryOK'
      BY <1>21, FireType DEF BackoffElapses, HistoryOK, history, Results
    <2>5. BoundsOK'
      BY <1>21 DEF BackoffElapses, BoundsOK, bounds
    <2> QED
      BY <2>1, <2>2, <2>3, <2>4, <2>5
  <1>22. ASSUME NEW i \in Ids, DedupWindowPasses(i) PROVE TypeOK'
    <2>1. RowOK'
      BY <1>22 DEF DedupWindowPasses, RowOK, row, Statuses, Active
    <2>2. WorkerOK'
      BY <1>22 DEF DedupWindowPasses, WorkerOK, worker, Holding
    <2>3. WriterOK'
      BY <1>22, NoReqType DEF DedupWindowPasses, WriterOK, writer
    <2>4. HistoryOK'
      BY <1>22, FireType DEF DedupWindowPasses, HistoryOK, history, Results
    <2>5. BoundsOK'
      BY <1>22 DEF DedupWindowPasses, BoundsOK, bounds
    <2> QED
      BY <2>1, <2>2, <2>3, <2>4, <2>5
  <1>23. CASE CleanupByOtherTraffic
    <2>1. RowOK'
      BY <1>23, CleanupType DEF CleanupByOtherTraffic
    <2>2. WorkerOK'
      BY <1>23 DEF CleanupByOtherTraffic, WorkerOK, worker, Holding
    <2>3. WriterOK'
      BY <1>23, NoReqType DEF CleanupByOtherTraffic, WriterOK, writer
    <2>4. HistoryOK'
      BY <1>23, CleanupType DEF CleanupByOtherTraffic
    <2>5. BoundsOK'
      BY <1>23 DEF CleanupByOtherTraffic, BoundsOK, bounds
    <2> QED
      BY <2>1, <2>2, <2>3, <2>4, <2>5
  <1>24. CASE ClearAll
    <2>1. RowOK'
      BY <1>24 DEF ClearAll, RowOK, row, Statuses, Active
    <2>2. WorkerOK'
      BY <1>24 DEF ClearAll, WorkerOK, worker, Holding
    <2>3. WriterOK'
      BY <1>24, NoReqType DEF ClearAll, WriterOK, writer
    <2>4. HistoryOK'
      BY <1>24, FireType DEF ClearAll, HistoryOK, history, Results
    <2>5. BoundsOK'
      BY <1>24 DEF ClearAll, BoundsOK, bounds
    <2> QED
      BY <2>1, <2>2, <2>3, <2>4, <2>5
  <1>25. CASE LinkChanges
    <2>1. RowOK'
      BY <1>25 DEF LinkChanges, RowOK, row, Statuses, Active
    <2>2. WorkerOK'
      BY <1>25 DEF LinkChanges, WorkerOK, worker, Holding
    <2>3. WriterOK'
      BY <1>25, NoReqType DEF LinkChanges, WriterOK, writer
    <2>4. HistoryOK'
      BY <1>25, FireType DEF LinkChanges, HistoryOK, history, Results
    <2>5. BoundsOK'
      BY <1>25 DEF LinkChanges, BoundsOK, bounds
    <2> QED
      BY <2>1, <2>2, <2>3, <2>4, <2>5
  <1>26. CASE Crash
    <2>1. RowOK'
      BY <1>26 DEF Crash, RowOK, row, Statuses, Active
    <2>2. WorkerOK'
      BY <1>26 DEF Crash, WorkerOK, worker, Holding
    <2>3. WriterOK'
      BY <1>26, NoReqType DEF Crash, WriterOK, writer
    <2>4. HistoryOK'
      BY <1>26, FireType DEF Crash, HistoryOK, history, Results
    <2>5. BoundsOK'
      BY <1>26 DEF Crash, BoundsOK, bounds
    <2> QED
      BY <2>1, <2>2, <2>3, <2>4, <2>5
  <1>27. CASE UNCHANGED vars
    BY <1>27 DEF vars, row, worker, writer, bounds, history, RowOK, WorkerOK, WriterOK, HistoryOK, BoundsOK
  <1> QED
    BY <1>1, <1>2, <1>3, <1>4, <1>4a, <1>5, <1>6, <1>7, <1>8, <1>9, <1>10, <1>11, <1>12, <1>13, <1>14, <1>15, <1>16, <1>17, <1>18, <1>19, <1>20, <1>21, <1>22, <1>23, <1>24, <1>25, <1>26, <1>27 DEF Next, WorkerStep, WriterStep

-----------------------------------------------------------------------------
(* Budget and witness: what the row-changing steps do to the counts.        *)

Unfinished == {"unborn", "pending", "in_progress"}

\* A row that is not waiting for anything any more has run its hook.
WitnessAt(i) == status[i] \in Terminal \cup {"gone"} => Exits(i) > 0

\* A row still in play has an attempt left.
BudgetAt(i) == status[i] \in Unfinished => retry[i] < Budget

LEMMA RetryBudget ==
    ASSUME NEW x, NEW n \in Nat, ShouldRetry(x, n)
    PROVE  n < Budget
  BY DEF ShouldRetry, Budget

LEMMA BudgetStep ==
    ASSUME TypeOK, [Next]_vars, NEW i \in Ids, BudgetAt(i)
    PROVE  BudgetAt(i)'
  <1>1. ASSUME NEW w \in Workers, Fetch(w) PROVE BudgetAt(i)'
    BY <1>1 DEF Fetch, TypeOK, BudgetAt, Unfinished, Active, Budget, RowOK, WorkerOK, HistoryOK, Holding, row, worker, history, Advance
  <1>2. ASSUME NEW w \in Workers, PaceBreak(w) PROVE BudgetAt(i)'
    BY <1>2 DEF PaceBreak, TypeOK, BudgetAt, Unfinished, Active, Budget, RowOK, WorkerOK, HistoryOK, Holding, row, worker, history, Advance
  <1>3. ASSUME NEW w \in Workers, MarkInProgress(w) PROVE BudgetAt(i)'
    BY <1>3 DEF MarkInProgress, TypeOK, BudgetAt, Unfinished, Active, Budget, RowOK, WorkerOK, HistoryOK, Holding, row, worker, history, Advance, FirstToSend
  <1>4. ASSUME NEW w \in Workers, NEW o \in Outcomes, Send(w, o) PROVE BudgetAt(i)'
    BY <1>4 DEF Send, TypeOK, BudgetAt, Unfinished, Active, Budget, RowOK, WorkerOK, HistoryOK, Holding, row, worker, history
  <1>4a. ASSUME NEW w \in Workers, Transmit(w) PROVE BudgetAt(i)'
    BY <1>4a DEF Transmit, TypeOK, BudgetAt, Unfinished, Active, Budget, RowOK, WorkerOK, HistoryOK, Holding, row, worker, history
  <1>5. ASSUME NEW w \in Workers, MarkDelivered(w) PROVE BudgetAt(i)'
    BY <1>5 DEF MarkDelivered, TypeOK, BudgetAt, Unfinished, Active, Budget, RowOK, WorkerOK, HistoryOK, Holding, row, worker, history, Advance
  <1>6. ASSUME NEW w \in Workers, DeliveredUnrecorded(w) PROVE BudgetAt(i)'
    BY <1>6 DEF DeliveredUnrecorded, TypeOK, BudgetAt, Unfinished, Active, Budget, RowOK, WorkerOK, HistoryOK, Holding, row, worker, history, Advance
  <1>7. ASSUME NEW w \in Workers, MarkFailedRead(w) PROVE BudgetAt(i)'
    BY <1>7 DEF MarkFailedRead, TypeOK, BudgetAt, Unfinished, Active, Budget, RowOK, WorkerOK, HistoryOK, Holding, row, worker, history, Advance
  <1>8. ASSUME NEW w \in Workers, NEW x \in Errors, MarkFailedWrite(w, x) PROVE BudgetAt(i)'
    BY <1>8, RetryBudget DEF MarkFailedWrite, BudgetAt, Unfinished, TypeOK, RowOK, WorkerOK, Active, Holding
  <1>9. ASSUME NEW w \in Workers, MarkDeferred(w) PROVE BudgetAt(i)'
    BY <1>9 DEF MarkDeferred, TypeOK, BudgetAt, Unfinished, Active, Budget, RowOK, WorkerOK, HistoryOK, Holding, row, worker, history, Advance
  <1>10. ASSUME NEW w \in Workers, MarkRefused(w) PROVE BudgetAt(i)'
    BY <1>10 DEF MarkRefused, TypeOK, BudgetAt, Unfinished, Active, Budget, RowOK, WorkerOK, HistoryOK, Holding, row, worker, history, Advance
  <1>11. ASSUME NEW w \in Workers, RecordingError(w) PROVE BudgetAt(i)'
    BY <1>11 DEF RecordingError, TypeOK, BudgetAt, Unfinished, Active, Budget, RowOK, WorkerOK, HistoryOK, Holding, row, worker, history, Advance
  <1>12. ASSUME NEW w \in Workers, NEW j \in Ids, ExpireOverdue(w, j) PROVE BudgetAt(i)'
    BY <1>12 DEF ExpireOverdue, TypeOK, BudgetAt, Unfinished, Active, Budget, RowOK, WorkerOK, HistoryOK, Holding, row, worker, history
  <1>13. ASSUME NEW e \in Writers, NEW c \in Contents, NEW p \in Priorities, CheckDuplicate(e, c, p) PROVE BudgetAt(i)'
    BY <1>13 DEF CheckDuplicate, TypeOK, BudgetAt, Unfinished, Active, Budget, RowOK, WorkerOK, HistoryOK, Holding, row, worker, history
  <1>14. ASSUME NEW e \in Writers, SkipCleanup(e) PROVE BudgetAt(i)'
    BY <1>14 DEF SkipCleanup, TypeOK, BudgetAt, Unfinished, Active, Budget, RowOK, WorkerOK, HistoryOK, Holding, row, worker, history
  <1>15. ASSUME NEW e \in Writers, AutoCleanup(e) PROVE BudgetAt(i)'
    BY <1>15 DEF AutoCleanup, TypeOK, BudgetAt, Unfinished, Active, Budget, RowOK, WorkerOK, HistoryOK, Holding, row, worker, history, SomeCleanup, CleanupStale
  <1>16. ASSUME NEW e \in Writers, ReadDepth(e) PROVE BudgetAt(i)'
    BY <1>16 DEF ReadDepth, TypeOK, BudgetAt, Unfinished, Active, Budget, RowOK, WorkerOK, HistoryOK, Holding, row, worker, history
  <1>17. ASSUME NEW e \in Writers, ShedSelect(e) PROVE BudgetAt(i)'
    BY <1>17 DEF ShedSelect, TypeOK, BudgetAt, Unfinished, Active, Budget, RowOK, WorkerOK, HistoryOK, Holding, row, worker, history
  <1>18. ASSUME NEW e \in Writers, ShedDelete(e) PROVE BudgetAt(i)'
    BY <1>18 DEF ShedDelete, TypeOK, BudgetAt, Unfinished, Active, Budget, RowOK, WorkerOK, HistoryOK, Holding, row, worker, history
  <1>19. ASSUME NEW e \in Writers, Insert(e) PROVE BudgetAt(i)'
    BY <1>19 DEF Insert, TypeOK, BudgetAt, Unfinished, Active, Budget, RowOK, WorkerOK, HistoryOK, Holding, row, worker, history
  <1>20. ASSUME NEW j \in Ids, RetryDeadLetter(j) PROVE BudgetAt(i)'
    BY <1>20 DEF RetryDeadLetter, TypeOK, BudgetAt, Unfinished, Active, Budget, RowOK, WorkerOK, HistoryOK, Holding, row, worker, history
  <1>21. ASSUME NEW j \in Ids, BackoffElapses(j) PROVE BudgetAt(i)'
    BY <1>21 DEF BackoffElapses, TypeOK, BudgetAt, Unfinished, Active, Budget, RowOK, WorkerOK, HistoryOK, Holding, row, worker, history
  <1>22. ASSUME NEW j \in Ids, DedupWindowPasses(j) PROVE BudgetAt(i)'
    BY <1>22 DEF DedupWindowPasses, TypeOK, BudgetAt, Unfinished, Active, Budget, RowOK, WorkerOK, HistoryOK, Holding, row, worker, history
  <1>23. CASE CleanupByOtherTraffic
    BY <1>23 DEF CleanupByOtherTraffic, TypeOK, BudgetAt, Unfinished, Active, Budget, RowOK, WorkerOK, HistoryOK, Holding, row, worker, history, SomeCleanup, CleanupStale
  <1>24. CASE ClearAll
    BY <1>24 DEF ClearAll, TypeOK, BudgetAt, Unfinished, Active, Budget, RowOK, WorkerOK, HistoryOK, Holding, row, worker, history
  <1>25. CASE LinkChanges
    BY <1>25 DEF LinkChanges, TypeOK, BudgetAt, Unfinished, Active, Budget, RowOK, WorkerOK, HistoryOK, Holding, row, worker, history
  <1>26. CASE Crash
    BY <1>26 DEF Crash, TypeOK, BudgetAt, Unfinished, Active, Budget, RowOK, WorkerOK, HistoryOK, Holding, row, worker, history
  <1>27. CASE UNCHANGED vars
    BY <1>27 DEF vars, row, worker, history, TypeOK, BudgetAt, Unfinished, Active, Budget
  <1> QED
    BY <1>1, <1>2, <1>3, <1>4, <1>4a, <1>5, <1>6, <1>7, <1>8, <1>9, <1>10, <1>11, <1>12, <1>13, <1>14, <1>15, <1>16, <1>17, <1>18, <1>19, <1>20, <1>21, <1>22, <1>23, <1>24, <1>25, <1>26, <1>27 DEF Next, WorkerStep, WriterStep

LEMMA WitnessStep ==
    ASSUME TypeOK, [Next]_vars, NEW i \in Ids \ cleared', WitnessAt(i)
    PROVE  WitnessAt(i)'
  <1>1. ASSUME NEW w \in Workers, Fetch(w) PROVE WitnessAt(i)'
    BY <1>1 DEF Fetch, TypeOK, WitnessAt, Exits, Fire, Terminal, Active, Results, RowOK, WorkerOK, HistoryOK, Holding, row, worker, history, Advance
  <1>2. ASSUME NEW w \in Workers, PaceBreak(w) PROVE WitnessAt(i)'
    BY <1>2 DEF PaceBreak, TypeOK, WitnessAt, Exits, Fire, Terminal, Active, Results, RowOK, WorkerOK, HistoryOK, Holding, row, worker, history, Advance
  <1>3. ASSUME NEW w \in Workers, MarkInProgress(w) PROVE WitnessAt(i)'
    BY <1>3 DEF MarkInProgress, TypeOK, WitnessAt, Exits, Fire, Terminal, Active, Results, RowOK, WorkerOK, HistoryOK, Holding, row, worker, history, Advance, FirstToSend
  <1>4. ASSUME NEW w \in Workers, NEW o \in Outcomes, Send(w, o) PROVE WitnessAt(i)'
    BY <1>4 DEF Send, TypeOK, WitnessAt, Exits, Fire, Terminal, Active, Results, RowOK, WorkerOK, HistoryOK, Holding, row, worker, history
  <1>4a. ASSUME NEW w \in Workers, Transmit(w) PROVE WitnessAt(i)'
    BY <1>4a DEF Transmit, TypeOK, WitnessAt, Exits, Fire, Terminal, Active, Results, RowOK, WorkerOK, HistoryOK, Holding, row, worker, history
  <1>5. ASSUME NEW w \in Workers, MarkDelivered(w) PROVE WitnessAt(i)'
    BY <1>5 DEF MarkDelivered, TypeOK, WitnessAt, Exits, Fire, Terminal, Active, Results, RowOK, WorkerOK, HistoryOK, Holding, row, worker, history, Advance
  <1>6. ASSUME NEW w \in Workers, DeliveredUnrecorded(w) PROVE WitnessAt(i)'
    BY <1>6 DEF DeliveredUnrecorded, TypeOK, WitnessAt, Exits, Fire, Terminal, Active, Results, RowOK, WorkerOK, HistoryOK, Holding, row, worker, history, Advance
  <1>7. ASSUME NEW w \in Workers, MarkFailedRead(w) PROVE WitnessAt(i)'
    BY <1>7 DEF MarkFailedRead, TypeOK, WitnessAt, Exits, Fire, Terminal, Active, Results, RowOK, WorkerOK, HistoryOK, Holding, row, worker, history, Advance
  <1>8. ASSUME NEW w \in Workers, NEW x \in Errors, MarkFailedWrite(w, x) PROVE WitnessAt(i)'
    BY <1>8 DEF MarkFailedWrite, TypeOK, WitnessAt, Exits, Fire, Terminal, Active, Results, RowOK, WorkerOK, HistoryOK, Holding, row, worker, history, Advance
  <1>9. ASSUME NEW w \in Workers, MarkDeferred(w) PROVE WitnessAt(i)'
    BY <1>9 DEF MarkDeferred, TypeOK, WitnessAt, Exits, Fire, Terminal, Active, Results, RowOK, WorkerOK, HistoryOK, Holding, row, worker, history, Advance
  <1>10. ASSUME NEW w \in Workers, MarkRefused(w) PROVE WitnessAt(i)'
    <2>1. CASE UNCHANGED <<status, fired>>
      BY <2>1 DEF WitnessAt, Exits
    <2>2. CASE /\ status[cur[w]] \in Active
               /\ status' = [status EXCEPT ![cur[w]] = "dead_letter"]
               /\ fired' = Fire(fired, {cur[w]}, "dropped")
      <3>1. CASE i = cur[w]
        <4>1. fired'[i]["dropped"] = fired[i]["dropped"] + 1 /\ fired'[i]["delivered"] = fired[i]["delivered"]
          BY <2>2, <3>1, FireType DEF TypeOK, HistoryOK, Results
        <4>2. fired[i]["dropped"] \in Nat /\ fired[i]["delivered"] \in Nat
          BY DEF TypeOK, HistoryOK, Results
        <4> QED
          BY <4>1, <4>2 DEF WitnessAt, Exits
      <3>2. CASE i # cur[w]
        <4>1. status'[i] = status[i] /\ fired'[i] = fired[i]
          BY <2>2, <3>2 DEF Fire, TypeOK, RowOK
        <4> QED
          BY <4>1 DEF WitnessAt, Exits
      <3> QED
        BY <3>1, <3>2
    <2> QED
      BY <1>10, <2>1, <2>2 DEF MarkRefused
  <1>11. ASSUME NEW w \in Workers, RecordingError(w) PROVE WitnessAt(i)'
    BY <1>11 DEF RecordingError, TypeOK, WitnessAt, Exits, Fire, Terminal, Active, Results, RowOK, WorkerOK, HistoryOK, Holding, row, worker, history, Advance
  <1>12. ASSUME NEW w \in Workers, NEW j \in Ids, ExpireOverdue(w, j) PROVE WitnessAt(i)'
    BY <1>12 DEF ExpireOverdue, TypeOK, WitnessAt, Exits, Fire, Terminal, Active, Results, RowOK, WorkerOK, HistoryOK, Holding, row, worker, history
  <1>13. ASSUME NEW e \in Writers, NEW c \in Contents, NEW p \in Priorities, CheckDuplicate(e, c, p) PROVE WitnessAt(i)'
    BY <1>13 DEF CheckDuplicate, TypeOK, WitnessAt, Exits, Fire, Terminal, Active, Results, RowOK, WorkerOK, HistoryOK, Holding, row, worker, history
  <1>14. ASSUME NEW e \in Writers, SkipCleanup(e) PROVE WitnessAt(i)'
    BY <1>14 DEF SkipCleanup, TypeOK, WitnessAt, Exits, Fire, Terminal, Active, Results, RowOK, WorkerOK, HistoryOK, Holding, row, worker, history
  <1>15. ASSUME NEW e \in Writers, AutoCleanup(e) PROVE WitnessAt(i)'
    BY <1>15 DEF AutoCleanup, TypeOK, WitnessAt, Exits, Fire, Terminal, Active, Results, RowOK, WorkerOK, HistoryOK, Holding, row, worker, history, SomeCleanup, CleanupStale
  <1>16. ASSUME NEW e \in Writers, ReadDepth(e) PROVE WitnessAt(i)'
    BY <1>16 DEF ReadDepth, TypeOK, WitnessAt, Exits, Fire, Terminal, Active, Results, RowOK, WorkerOK, HistoryOK, Holding, row, worker, history
  <1>17. ASSUME NEW e \in Writers, ShedSelect(e) PROVE WitnessAt(i)'
    BY <1>17 DEF ShedSelect, TypeOK, WitnessAt, Exits, Fire, Terminal, Active, Results, RowOK, WorkerOK, HistoryOK, Holding, row, worker, history
  <1>18. ASSUME NEW e \in Writers, ShedDelete(e) PROVE WitnessAt(i)'
    BY <1>18 DEF ShedDelete, TypeOK, WitnessAt, Exits, Fire, Terminal, Active, Results, RowOK, WorkerOK, HistoryOK, Holding, row, worker, history
  <1>19. ASSUME NEW e \in Writers, Insert(e) PROVE WitnessAt(i)'
    BY <1>19 DEF Insert, TypeOK, WitnessAt, Exits, Fire, Terminal, Active, Results, RowOK, WorkerOK, HistoryOK, Holding, row, worker, history
  <1>20. ASSUME NEW j \in Ids, RetryDeadLetter(j) PROVE WitnessAt(i)'
    BY <1>20 DEF RetryDeadLetter, TypeOK, WitnessAt, Exits, Fire, Terminal, Active, Results, RowOK, WorkerOK, HistoryOK, Holding, row, worker, history
  <1>21. ASSUME NEW j \in Ids, BackoffElapses(j) PROVE WitnessAt(i)'
    BY <1>21 DEF BackoffElapses, TypeOK, WitnessAt, Exits, Fire, Terminal, Active, Results, RowOK, WorkerOK, HistoryOK, Holding, row, worker, history
  <1>22. ASSUME NEW j \in Ids, DedupWindowPasses(j) PROVE WitnessAt(i)'
    BY <1>22 DEF DedupWindowPasses, TypeOK, WitnessAt, Exits, Fire, Terminal, Active, Results, RowOK, WorkerOK, HistoryOK, Holding, row, worker, history
  <1>23. CASE CleanupByOtherTraffic
    BY <1>23 DEF CleanupByOtherTraffic, TypeOK, WitnessAt, Exits, Fire, Terminal, Active, Results, RowOK, WorkerOK, HistoryOK, Holding, row, worker, history, SomeCleanup, CleanupStale
  <1>24. CASE ClearAll
    BY <1>24 DEF ClearAll, TypeOK, RowOK, Statuses, WitnessAt, Exits, Terminal, Active
  <1>25. CASE LinkChanges
    BY <1>25 DEF LinkChanges, TypeOK, WitnessAt, Exits, Fire, Terminal, Active, Results, RowOK, WorkerOK, HistoryOK, Holding, row, worker, history
  <1>26. CASE Crash
    BY <1>26 DEF Crash, TypeOK, WitnessAt, Exits, Fire, Terminal, Active, Results, RowOK, WorkerOK, HistoryOK, Holding, row, worker, history
  <1>27. CASE UNCHANGED vars
    BY <1>27 DEF vars, row, worker, history, TypeOK, WitnessAt, Exits, Fire, Terminal, Active, Results
  <1> QED
    BY <1>1, <1>2, <1>3, <1>4, <1>4a, <1>5, <1>6, <1>7, <1>8, <1>9, <1>10, <1>11, <1>12, <1>13, <1>14, <1>15, <1>16, <1>17, <1>18, <1>19, <1>20, <1>21, <1>22, <1>23, <1>24, <1>25, <1>26, <1>27 DEF Next, WorkerStep, WriterStep

-----------------------------------------------------------------------------
(* Claims and exits.                                                        *)

\* Who may have row i in hand, and when its success has been reported.
ClaimAt(i) ==
    /\ i \in acked => status[i] \in {"in_progress", "delivered", "gone"}
    /\ \A w \in Workers : Holds(w, i) =>
         /\ status[i] \in {"in_progress", "gone"}
         /\ i \in acked => wpc[w] = "sent"
    /\ \A v, w \in Workers : Holds(v, i) /\ Holds(w, i) => v = w

\* When the terminal hook of row i may already have run.
ExitAt(i) ==
    /\ status[i] \in Unfinished => Exits(i) = 0
    /\ Exits(i) <= 1
    /\ \A w \in Workers : Holds(w, i) => Exits(i) = 0
    /\ fired[i]["dropped"] > 0 => i \notin acked

LEMMA ClaimStep ==
    ASSUME TypeOK, [Next]_vars, NEW i \in Ids \ reopened', ClaimAt(i)
    PROVE  ClaimAt(i)'
  <1>1. ASSUME NEW w \in Workers, Fetch(w) PROVE ClaimAt(i)'
    BY <1>1 DEF Fetch, TypeOK, ClaimAt, Holds, Active, Terminal, RowOK, WorkerOK, HistoryOK, Holding, row, worker, history, Advance
  <1>2. ASSUME NEW w \in Workers, PaceBreak(w) PROVE ClaimAt(i)'
    BY <1>2 DEF PaceBreak, TypeOK, ClaimAt, Holds, Active, Terminal, RowOK, WorkerOK, HistoryOK, Holding, row, worker, history, Advance
  <1>3. ASSUME NEW w \in Workers, MarkInProgress(w) PROVE ClaimAt(i)'
    <2>1. PICK j \in FirstToSend(batch[w], 1) :
             \/ /\ status[j] = "pending"
                /\ status' = [status EXCEPT ![j] = "in_progress"]
                /\ wpc' = [wpc EXCEPT ![w] = "sending"]
                /\ cur' = [cur EXCEPT ![w] = j]
             \/ Advance(w, batch[w] \ {j}) /\ UNCHANGED status
      BY <1>3 DEF MarkInProgress
    <2>2. j \in Ids
      BY <2>1 DEF FirstToSend, TypeOK, WorkerOK
    <2>3. wpc[w] = "batch" /\ UNCHANGED <<acked, reopened>>
      BY <1>3 DEF MarkInProgress, history
    <2>4. CASE Advance(w, batch[w] \ {j}) /\ UNCHANGED status
      BY <2>3, <2>4 DEF Advance, ClaimAt, Holds, Holding, TypeOK, WorkerOK
    <2>5. CASE /\ status[j] = "pending"
               /\ status' = [status EXCEPT ![j] = "in_progress"]
               /\ wpc' = [wpc EXCEPT ![w] = "sending"]
               /\ cur' = [cur EXCEPT ![w] = j]
      BY <2>2, <2>3, <2>5 DEF ClaimAt, Holds, Holding, TypeOK, WorkerOK, RowOK, HistoryOK
    <2> QED
      BY <2>1, <2>4, <2>5
  <1>4. ASSUME NEW w \in Workers, NEW o \in Outcomes, Send(w, o) PROVE ClaimAt(i)'
    BY <1>4 DEF Send, TypeOK, ClaimAt, Holds, Active, Terminal, RowOK, WorkerOK, HistoryOK, Holding, row, worker, history
  <1>4a. ASSUME NEW w \in Workers, Transmit(w) PROVE ClaimAt(i)'
    BY <1>4a DEF Transmit, TypeOK, ClaimAt, Holds, Active, Terminal, RowOK, WorkerOK, HistoryOK, Holding, row, worker, history
  <1>5. ASSUME NEW w \in Workers, MarkDelivered(w) PROVE ClaimAt(i)'
    BY <1>5 DEF MarkDelivered, TypeOK, ClaimAt, Holds, Active, Terminal, RowOK, WorkerOK, HistoryOK, Holding, row, worker, history, Advance
  <1>6. ASSUME NEW w \in Workers, DeliveredUnrecorded(w) PROVE ClaimAt(i)'
    BY <1>6 DEF DeliveredUnrecorded, TypeOK, ClaimAt, Holds, Active, Terminal, RowOK, WorkerOK, HistoryOK, Holding, row, worker, history, Advance
  <1>7. ASSUME NEW w \in Workers, MarkFailedRead(w) PROVE ClaimAt(i)'
    <2>1. wpc[w] = "failed" /\ UNCHANGED <<status, acked>>
      BY <1>7 DEF MarkFailedRead, row, history
    <2>2. CASE Advance(w, batch[w])
      BY <2>1, <2>2 DEF Advance, ClaimAt, Holds, Holding, TypeOK, WorkerOK
    <2>3. CASE wpc' = [wpc EXCEPT ![w] = "failing"] /\ UNCHANGED cur
      BY <2>1, <2>3 DEF ClaimAt, Holds, Holding, TypeOK, WorkerOK
    <2> QED
      BY <1>7, <2>2, <2>3 DEF MarkFailedRead
  <1>8. ASSUME NEW w \in Workers, NEW x \in Errors, MarkFailedWrite(w, x) PROVE ClaimAt(i)'
    BY <1>8 DEF MarkFailedWrite, TypeOK, ClaimAt, Holds, Active, Terminal, RowOK, WorkerOK, HistoryOK, Holding, row, worker, history, Advance
  <1>9. ASSUME NEW w \in Workers, MarkDeferred(w) PROVE ClaimAt(i)'
    BY <1>9 DEF MarkDeferred, TypeOK, ClaimAt, Holds, Active, Terminal, RowOK, WorkerOK, HistoryOK, Holding, row, worker, history, Advance
  <1>10. ASSUME NEW w \in Workers, MarkRefused(w) PROVE ClaimAt(i)'
    BY <1>10 DEF MarkRefused, TypeOK, ClaimAt, Holds, Active, Terminal, RowOK, WorkerOK, HistoryOK, Holding, row, worker, history, Advance
  <1>11. ASSUME NEW w \in Workers, RecordingError(w) PROVE ClaimAt(i)'
    BY <1>11 DEF RecordingError, TypeOK, ClaimAt, Holds, Active, Terminal, RowOK, WorkerOK, HistoryOK, Holding, row, worker, history, Advance
  <1>12. ASSUME NEW w \in Workers, NEW j \in Ids, ExpireOverdue(w, j) PROVE ClaimAt(i)'
    BY <1>12 DEF ExpireOverdue, TypeOK, ClaimAt, Holds, Active, Terminal, RowOK, WorkerOK, HistoryOK, Holding, row, worker, history
  <1>13. ASSUME NEW e \in Writers, NEW c \in Contents, NEW p \in Priorities, CheckDuplicate(e, c, p) PROVE ClaimAt(i)'
    BY <1>13 DEF CheckDuplicate, TypeOK, ClaimAt, Holds, Active, Terminal, RowOK, WorkerOK, HistoryOK, Holding, row, worker, history
  <1>14. ASSUME NEW e \in Writers, SkipCleanup(e) PROVE ClaimAt(i)'
    BY <1>14 DEF SkipCleanup, TypeOK, ClaimAt, Holds, Active, Terminal, RowOK, WorkerOK, HistoryOK, Holding, row, worker, history
  <1>15. ASSUME NEW e \in Writers, AutoCleanup(e) PROVE ClaimAt(i)'
    BY <1>15 DEF AutoCleanup, TypeOK, ClaimAt, Holds, Active, Terminal, RowOK, WorkerOK, HistoryOK, Holding, row, worker, history, SomeCleanup, CleanupStale
  <1>16. ASSUME NEW e \in Writers, ReadDepth(e) PROVE ClaimAt(i)'
    BY <1>16 DEF ReadDepth, TypeOK, ClaimAt, Holds, Active, Terminal, RowOK, WorkerOK, HistoryOK, Holding, row, worker, history
  <1>17. ASSUME NEW e \in Writers, ShedSelect(e) PROVE ClaimAt(i)'
    BY <1>17 DEF ShedSelect, TypeOK, ClaimAt, Holds, Active, Terminal, RowOK, WorkerOK, HistoryOK, Holding, row, worker, history
  <1>18. ASSUME NEW e \in Writers, ShedDelete(e) PROVE ClaimAt(i)'
    BY <1>18 DEF ShedDelete, TypeOK, ClaimAt, Holds, Active, Terminal, RowOK, WorkerOK, HistoryOK, Holding, row, worker, history
  <1>19. ASSUME NEW e \in Writers, Insert(e) PROVE ClaimAt(i)'
    BY <1>19 DEF Insert, TypeOK, ClaimAt, Holds, Active, Terminal, RowOK, WorkerOK, HistoryOK, Holding, row, worker, history
  <1>20. ASSUME NEW j \in Ids, RetryDeadLetter(j) PROVE ClaimAt(i)'
    BY <1>20 DEF RetryDeadLetter, TypeOK, ClaimAt, Holds, Active, Terminal, RowOK, WorkerOK, HistoryOK, Holding, row, worker, history
  <1>21. ASSUME NEW j \in Ids, BackoffElapses(j) PROVE ClaimAt(i)'
    BY <1>21 DEF BackoffElapses, TypeOK, ClaimAt, Holds, Active, Terminal, RowOK, WorkerOK, HistoryOK, Holding, row, worker, history
  <1>22. ASSUME NEW j \in Ids, DedupWindowPasses(j) PROVE ClaimAt(i)'
    BY <1>22 DEF DedupWindowPasses, TypeOK, ClaimAt, Holds, Active, Terminal, RowOK, WorkerOK, HistoryOK, Holding, row, worker, history
  <1>23. CASE CleanupByOtherTraffic
    BY <1>23 DEF CleanupByOtherTraffic, TypeOK, ClaimAt, Holds, Active, Terminal, RowOK, WorkerOK, HistoryOK, Holding, row, worker, history, SomeCleanup, CleanupStale
  <1>24. CASE ClearAll
    BY <1>24 DEF ClearAll, TypeOK, ClaimAt, Holds, Active, Terminal, RowOK, WorkerOK, HistoryOK, Holding, row, worker, history
  <1>25. CASE LinkChanges
    BY <1>25 DEF LinkChanges, TypeOK, ClaimAt, Holds, Active, Terminal, RowOK, WorkerOK, HistoryOK, Holding, row, worker, history
  <1>26. CASE Crash
    BY <1>26 DEF Crash, TypeOK, ClaimAt, Holds, Active, Terminal, RowOK, WorkerOK, HistoryOK, Holding, row, worker, history
  <1>27. CASE UNCHANGED vars
    BY <1>27 DEF vars, row, worker, history, TypeOK, ClaimAt, Holds, Active, Terminal
  <1> QED
    BY <1>1, <1>2, <1>3, <1>4, <1>4a, <1>5, <1>6, <1>7, <1>8, <1>9, <1>10, <1>11, <1>12, <1>13, <1>14, <1>15, <1>16, <1>17, <1>18, <1>19, <1>20, <1>21, <1>22, <1>23, <1>24, <1>25, <1>26, <1>27 DEF Next, WorkerStep, WriterStep

LEMMA ExitStep ==
    ASSUME TypeOK, [Next]_vars, NEW i \in Ids \ (reopened' \cup raced'), ClaimAt(i), ExitAt(i)
    PROVE  ExitAt(i)'
  <1>1. ASSUME NEW w \in Workers, Fetch(w) PROVE ExitAt(i)'
    BY <1>1 DEF Fetch, TypeOK, ClaimAt, ExitAt, Exits, Fire, Holds, Active, Terminal, Unfinished, Results, RowOK, WorkerOK, HistoryOK, Holding, row, worker, history, Advance
  <1>2. ASSUME NEW w \in Workers, PaceBreak(w) PROVE ExitAt(i)'
    BY <1>2 DEF PaceBreak, TypeOK, ClaimAt, ExitAt, Exits, Fire, Holds, Active, Terminal, Unfinished, Results, RowOK, WorkerOK, HistoryOK, Holding, row, worker, history, Advance
  <1>3. ASSUME NEW w \in Workers, MarkInProgress(w) PROVE ExitAt(i)'
    BY <1>3 DEF MarkInProgress, TypeOK, ClaimAt, ExitAt, Exits, Fire, Holds, Active, Terminal, Unfinished, Results, RowOK, WorkerOK, HistoryOK, Holding, row, worker, history, Advance, FirstToSend
  <1>4. ASSUME NEW w \in Workers, NEW o \in Outcomes, Send(w, o) PROVE ExitAt(i)'
    BY <1>4 DEF Send, TypeOK, ClaimAt, ExitAt, Exits, Fire, Holds, Active, Terminal, Unfinished, Results, RowOK, WorkerOK, HistoryOK, Holding, row, worker, history
  <1>4a. ASSUME NEW w \in Workers, Transmit(w) PROVE ExitAt(i)'
    BY <1>4a DEF Transmit, TypeOK, ClaimAt, ExitAt, Exits, Fire, Holds, Active, Terminal, Unfinished, Results, RowOK, WorkerOK, HistoryOK, Holding, row, worker, history
  <1>5. ASSUME NEW w \in Workers, MarkDelivered(w) PROVE ExitAt(i)'
    <2>1. Holds(w, cur[w]) /\ cur[w] \in Ids /\ UNCHANGED acked
      BY <1>5 DEF MarkDelivered, Holds, Holding, TypeOK, WorkerOK
    <2>2. \A v \in Workers, k \in Ids : Holds(v, k)' => v # w /\ Holds(v, k)
      BY <1>5 DEF MarkDelivered, Advance, Holds, Holding, TypeOK, WorkerOK
    <2>3. CASE UNCHANGED <<status, fired>>
      BY <2>1, <2>2, <2>3 DEF ExitAt, Exits
    <2>4. CASE /\ status[cur[w]] \notin {"delivered", "gone"}
               /\ status' = [status EXCEPT ![cur[w]] = "delivered"]
               /\ fired' = Fire(fired, {cur[w]}, "delivered")
      <3>1. CASE i = cur[w]
        <4>1. /\ Exits(i) = 0 /\ fired[i]["delivered"] \in Nat /\ fired[i]["dropped"] \in Nat
          BY <2>1, <3>1 DEF ExitAt, TypeOK, HistoryOK, Results
        <4>2. fired'[i]["delivered"] = fired[i]["delivered"] + 1 /\ fired'[i]["dropped"] = fired[i]["dropped"]
          BY <2>4, <3>1, FireType DEF TypeOK, HistoryOK, Results
        <4>3. \A v \in Workers : ~Holds(v, i)'
          BY <2>1, <2>2, <3>1 DEF ClaimAt
        <4> QED
          BY <2>1, <2>4, <3>1, <4>1, <4>2, <4>3 DEF ExitAt, Exits, Unfinished, TypeOK, RowOK
      <3>2. CASE i # cur[w]
        <4>1. status'[i] = status[i] /\ fired'[i] = fired[i]
          BY <2>4, <3>2 DEF Fire, TypeOK, RowOK
        <4> QED
          BY <2>1, <2>2, <4>1 DEF ExitAt, Exits
      <3> QED
        BY <3>1, <3>2
    <2> QED
      BY <1>5, <2>3, <2>4 DEF MarkDelivered
  <1>6. ASSUME NEW w \in Workers, DeliveredUnrecorded(w) PROVE ExitAt(i)'
    BY <1>6 DEF DeliveredUnrecorded, TypeOK, ClaimAt, ExitAt, Exits, Fire, Holds, Active, Terminal, Unfinished, Results, RowOK, WorkerOK, HistoryOK, Holding, row, worker, history, Advance
  <1>7. ASSUME NEW w \in Workers, MarkFailedRead(w) PROVE ExitAt(i)'
    BY <1>7 DEF MarkFailedRead, TypeOK, ClaimAt, ExitAt, Exits, Fire, Holds, Active, Terminal, Unfinished, Results, RowOK, WorkerOK, HistoryOK, Holding, row, worker, history, Advance
  <1>8. ASSUME NEW w \in Workers, NEW x \in Errors, MarkFailedWrite(w, x) PROVE ExitAt(i)'
    BY <1>8 DEF MarkFailedWrite, TypeOK, ClaimAt, ExitAt, Exits, Fire, Holds, Active, Terminal, Unfinished, Results, RowOK, WorkerOK, HistoryOK, Holding, row, worker, history, Advance
  <1>9. ASSUME NEW w \in Workers, MarkDeferred(w) PROVE ExitAt(i)'
    BY <1>9 DEF MarkDeferred, TypeOK, ClaimAt, ExitAt, Exits, Fire, Holds, Active, Terminal, Unfinished, Results, RowOK, WorkerOK, HistoryOK, Holding, row, worker, history, Advance
  <1>10. ASSUME NEW w \in Workers, MarkRefused(w) PROVE ExitAt(i)'
    <2>1. Holds(w, cur[w]) /\ cur[w] \in Ids /\ UNCHANGED acked /\ wpc[w] = "refused"
      BY <1>10 DEF MarkRefused, Holds, Holding, TypeOK, WorkerOK
    <2>2. \A v \in Workers, k \in Ids : Holds(v, k)' => v # w /\ Holds(v, k)
      BY <1>10 DEF MarkRefused, Advance, Holds, Holding, TypeOK, WorkerOK
    <2>3. CASE UNCHANGED <<status, fired>>
      BY <2>1, <2>2, <2>3 DEF ExitAt, Exits
    <2>4. CASE /\ status[cur[w]] \in Active
               /\ status' = [status EXCEPT ![cur[w]] = "dead_letter"]
               /\ fired' = Fire(fired, {cur[w]}, "dropped")
      <3>1. CASE i = cur[w]
        <4>1. /\ Exits(i) = 0 /\ fired[i]["delivered"] \in Nat /\ fired[i]["dropped"] \in Nat
              /\ i \notin acked
          BY <2>1, <3>1 DEF ExitAt, ClaimAt, TypeOK, HistoryOK, Results
        <4>2. fired'[i]["dropped"] = fired[i]["dropped"] + 1 /\ fired'[i]["delivered"] = fired[i]["delivered"]
          BY <2>4, <3>1, FireType DEF TypeOK, HistoryOK, Results
        <4>3. \A v \in Workers : ~Holds(v, i)'
          BY <2>1, <2>2, <3>1 DEF ClaimAt
        <4> QED
          BY <2>1, <2>4, <3>1, <4>1, <4>2, <4>3 DEF ExitAt, Exits, Unfinished, TypeOK, RowOK
      <3>2. CASE i # cur[w]
        <4>1. status'[i] = status[i] /\ fired'[i] = fired[i]
          BY <2>4, <3>2 DEF Fire, TypeOK, RowOK
        <4> QED
          BY <2>1, <2>2, <4>1 DEF ExitAt, Exits
      <3> QED
        BY <3>1, <3>2
    <2> QED
      BY <1>10, <2>3, <2>4 DEF MarkRefused
  <1>11. ASSUME NEW w \in Workers, RecordingError(w) PROVE ExitAt(i)'
    BY <1>11 DEF RecordingError, TypeOK, ClaimAt, ExitAt, Exits, Fire, Holds, Active, Terminal, Unfinished, Results, RowOK, WorkerOK, HistoryOK, Holding, row, worker, history, Advance
  <1>12. ASSUME NEW w \in Workers, NEW j \in Ids, ExpireOverdue(w, j) PROVE ExitAt(i)'
    BY <1>12 DEF ExpireOverdue, TypeOK, ClaimAt, ExitAt, Exits, Fire, Holds, Active, Terminal, Unfinished, Results, RowOK, WorkerOK, HistoryOK, Holding, row, worker, history
  <1>13. ASSUME NEW e \in Writers, NEW c \in Contents, NEW p \in Priorities, CheckDuplicate(e, c, p) PROVE ExitAt(i)'
    BY <1>13 DEF CheckDuplicate, TypeOK, ClaimAt, ExitAt, Exits, Fire, Holds, Active, Terminal, Unfinished, Results, RowOK, WorkerOK, HistoryOK, Holding, row, worker, history
  <1>14. ASSUME NEW e \in Writers, SkipCleanup(e) PROVE ExitAt(i)'
    BY <1>14 DEF SkipCleanup, TypeOK, ClaimAt, ExitAt, Exits, Fire, Holds, Active, Terminal, Unfinished, Results, RowOK, WorkerOK, HistoryOK, Holding, row, worker, history
  <1>15. ASSUME NEW e \in Writers, AutoCleanup(e) PROVE ExitAt(i)'
    BY <1>15 DEF AutoCleanup, TypeOK, ClaimAt, ExitAt, Exits, Fire, Holds, Active, Terminal, Unfinished, Results, RowOK, WorkerOK, HistoryOK, Holding, row, worker, history, SomeCleanup, CleanupStale
  <1>16. ASSUME NEW e \in Writers, ReadDepth(e) PROVE ExitAt(i)'
    BY <1>16 DEF ReadDepth, TypeOK, ClaimAt, ExitAt, Exits, Fire, Holds, Active, Terminal, Unfinished, Results, RowOK, WorkerOK, HistoryOK, Holding, row, worker, history
  <1>17. ASSUME NEW e \in Writers, ShedSelect(e) PROVE ExitAt(i)'
    BY <1>17 DEF ShedSelect, TypeOK, ClaimAt, ExitAt, Exits, Fire, Holds, Active, Terminal, Unfinished, Results, RowOK, WorkerOK, HistoryOK, Holding, row, worker, history
  <1>18. ASSUME NEW e \in Writers, ShedDelete(e) PROVE ExitAt(i)'
    BY <1>18 DEF ShedDelete, TypeOK, ClaimAt, ExitAt, Exits, Fire, Holds, Active, Terminal, Unfinished, Results, RowOK, WorkerOK, HistoryOK, Holding, row, worker, history
  <1>19. ASSUME NEW e \in Writers, Insert(e) PROVE ExitAt(i)'
    BY <1>19 DEF Insert, TypeOK, ClaimAt, ExitAt, Exits, Fire, Holds, Active, Terminal, Unfinished, Results, RowOK, WorkerOK, HistoryOK, Holding, row, worker, history
  <1>20. ASSUME NEW j \in Ids, RetryDeadLetter(j) PROVE ExitAt(i)'
    BY <1>20 DEF RetryDeadLetter, TypeOK, ClaimAt, ExitAt, Exits, Fire, Holds, Active, Terminal, Unfinished, Results, RowOK, WorkerOK, HistoryOK, Holding, row, worker, history
  <1>21. ASSUME NEW j \in Ids, BackoffElapses(j) PROVE ExitAt(i)'
    BY <1>21 DEF BackoffElapses, TypeOK, ClaimAt, ExitAt, Exits, Fire, Holds, Active, Terminal, Unfinished, Results, RowOK, WorkerOK, HistoryOK, Holding, row, worker, history
  <1>22. ASSUME NEW j \in Ids, DedupWindowPasses(j) PROVE ExitAt(i)'
    BY <1>22 DEF DedupWindowPasses, TypeOK, ClaimAt, ExitAt, Exits, Fire, Holds, Active, Terminal, Unfinished, Results, RowOK, WorkerOK, HistoryOK, Holding, row, worker, history
  <1>23. CASE CleanupByOtherTraffic
    BY <1>23 DEF CleanupByOtherTraffic, TypeOK, ClaimAt, ExitAt, Exits, Fire, Holds, Active, Terminal, Unfinished, Results, RowOK, WorkerOK, HistoryOK, Holding, row, worker, history, SomeCleanup, CleanupStale
  <1>24. CASE ClearAll
    BY <1>24 DEF ClearAll, TypeOK, ClaimAt, ExitAt, Exits, Fire, Holds, Active, Terminal, Unfinished, Results, RowOK, WorkerOK, HistoryOK, Holding, row, worker, history
  <1>25. CASE LinkChanges
    BY <1>25 DEF LinkChanges, TypeOK, ClaimAt, ExitAt, Exits, Fire, Holds, Active, Terminal, Unfinished, Results, RowOK, WorkerOK, HistoryOK, Holding, row, worker, history
  <1>26. CASE Crash
    BY <1>26 DEF Crash, TypeOK, ClaimAt, ExitAt, Exits, Fire, Holds, Active, Terminal, Unfinished, Results, RowOK, WorkerOK, HistoryOK, Holding, row, worker, history
  <1>27. CASE UNCHANGED vars
    BY <1>27 DEF vars, row, worker, history, TypeOK, ClaimAt, ExitAt, Exits, Fire, Holds, Active, Terminal, Unfinished, Results
  <1> QED
    BY <1>1, <1>2, <1>3, <1>4, <1>4a, <1>5, <1>6, <1>7, <1>8, <1>9, <1>10, <1>11, <1>12, <1>13, <1>14, <1>15, <1>16, <1>17, <1>18, <1>19, <1>20, <1>21, <1>22, <1>23, <1>24, <1>25, <1>26, <1>27 DEF Next, WorkerStep, WriterStep
-----------------------------------------------------------------------------
(* The inductive invariant and the theorems.                                *)

IInv ==
    /\ TypeOK
    /\ \A i \in Ids : BudgetAt(i)
    /\ \A i \in Ids \ cleared : WitnessAt(i)
    /\ \A i \in Ids \ reopened : ClaimAt(i)
    /\ \A i \in Ids \ (reopened \cup raced) : ExitAt(i)

LEMMA BudgetPositive == Budget > 0
  BY DEF Budget

LEMMA IInvInit == Init => IInv
  <1> SUFFICES ASSUME Init PROVE IInv
    OBVIOUS
  <1>1. TypeOK
    BY TypeInit
  <1>2. \A i \in Ids : BudgetAt(i) /\ WitnessAt(i)
    BY BudgetPositive DEF Init, BudgetAt, WitnessAt, Terminal
  <1>3. \A i \in Ids : ClaimAt(i) /\ ExitAt(i)
    BY DEF Init, ClaimAt, ExitAt, Exits, Holds, Holding, Results
  <1> QED
    BY <1>1, <1>2, <1>3 DEF IInv

\* The history sets only grow.
LEMMA HistoryGrows ==
    ASSUME [Next]_vars
    PROVE  reopened \subseteq reopened' /\ raced \subseteq raced' /\ cleared \subseteq cleared'
  <1>1. ASSUME NEW w \in Workers, Fetch(w) PROVE reopened \subseteq reopened' /\ raced \subseteq raced' /\ cleared \subseteq cleared'
    BY <1>1 DEF Fetch, history
  <1>2. ASSUME NEW w \in Workers, PaceBreak(w) PROVE reopened \subseteq reopened' /\ raced \subseteq raced' /\ cleared \subseteq cleared'
    BY <1>2 DEF PaceBreak, history
  <1>3. ASSUME NEW w \in Workers, MarkInProgress(w) PROVE reopened \subseteq reopened' /\ raced \subseteq raced' /\ cleared \subseteq cleared'
    BY <1>3 DEF MarkInProgress, history
  <1>4. ASSUME NEW w \in Workers, NEW o \in Outcomes, Send(w, o) PROVE reopened \subseteq reopened' /\ raced \subseteq raced' /\ cleared \subseteq cleared'
    BY <1>4 DEF Send, history
  <1>4a. ASSUME NEW w \in Workers, Transmit(w) PROVE reopened \subseteq reopened' /\ raced \subseteq raced' /\ cleared \subseteq cleared'
    BY <1>4a DEF Transmit, history
  <1>5. ASSUME NEW w \in Workers, MarkDelivered(w) PROVE reopened \subseteq reopened' /\ raced \subseteq raced' /\ cleared \subseteq cleared'
    BY <1>5 DEF MarkDelivered, history
  <1>6. ASSUME NEW w \in Workers, DeliveredUnrecorded(w) PROVE reopened \subseteq reopened' /\ raced \subseteq raced' /\ cleared \subseteq cleared'
    BY <1>6 DEF DeliveredUnrecorded, history
  <1>7. ASSUME NEW w \in Workers, MarkFailedRead(w) PROVE reopened \subseteq reopened' /\ raced \subseteq raced' /\ cleared \subseteq cleared'
    BY <1>7 DEF MarkFailedRead, history
  <1>8. ASSUME NEW w \in Workers, NEW x \in Errors, MarkFailedWrite(w, x) PROVE reopened \subseteq reopened' /\ raced \subseteq raced' /\ cleared \subseteq cleared'
    BY <1>8 DEF MarkFailedWrite, history
  <1>9. ASSUME NEW w \in Workers, MarkDeferred(w) PROVE reopened \subseteq reopened' /\ raced \subseteq raced' /\ cleared \subseteq cleared'
    BY <1>9 DEF MarkDeferred, history
  <1>10. ASSUME NEW w \in Workers, MarkRefused(w) PROVE reopened \subseteq reopened' /\ raced \subseteq raced' /\ cleared \subseteq cleared'
    BY <1>10 DEF MarkRefused, history
  <1>11. ASSUME NEW w \in Workers, RecordingError(w) PROVE reopened \subseteq reopened' /\ raced \subseteq raced' /\ cleared \subseteq cleared'
    BY <1>11 DEF RecordingError, history
  <1>12. ASSUME NEW w \in Workers, NEW i \in Ids, ExpireOverdue(w, i) PROVE reopened \subseteq reopened' /\ raced \subseteq raced' /\ cleared \subseteq cleared'
    BY <1>12 DEF ExpireOverdue, history
  <1>13. ASSUME NEW e \in Writers, NEW c \in Contents, NEW p \in Priorities, CheckDuplicate(e, c, p) PROVE reopened \subseteq reopened' /\ raced \subseteq raced' /\ cleared \subseteq cleared'
    BY <1>13 DEF CheckDuplicate, history
  <1>14. ASSUME NEW e \in Writers, SkipCleanup(e) PROVE reopened \subseteq reopened' /\ raced \subseteq raced' /\ cleared \subseteq cleared'
    BY <1>14 DEF SkipCleanup, history
  <1>15. ASSUME NEW e \in Writers, AutoCleanup(e) PROVE reopened \subseteq reopened' /\ raced \subseteq raced' /\ cleared \subseteq cleared'
    BY <1>15 DEF AutoCleanup, history, SomeCleanup, CleanupStale
  <1>16. ASSUME NEW e \in Writers, ReadDepth(e) PROVE reopened \subseteq reopened' /\ raced \subseteq raced' /\ cleared \subseteq cleared'
    BY <1>16 DEF ReadDepth, history
  <1>17. ASSUME NEW e \in Writers, ShedSelect(e) PROVE reopened \subseteq reopened' /\ raced \subseteq raced' /\ cleared \subseteq cleared'
    BY <1>17 DEF ShedSelect, history
  <1>18. ASSUME NEW e \in Writers, ShedDelete(e) PROVE reopened \subseteq reopened' /\ raced \subseteq raced' /\ cleared \subseteq cleared'
    BY <1>18 DEF ShedDelete, history
  <1>19. ASSUME NEW e \in Writers, Insert(e) PROVE reopened \subseteq reopened' /\ raced \subseteq raced' /\ cleared \subseteq cleared'
    BY <1>19 DEF Insert, history
  <1>20. ASSUME NEW i \in Ids, RetryDeadLetter(i) PROVE reopened \subseteq reopened' /\ raced \subseteq raced' /\ cleared \subseteq cleared'
    BY <1>20 DEF RetryDeadLetter, history
  <1>21. ASSUME NEW i \in Ids, BackoffElapses(i) PROVE reopened \subseteq reopened' /\ raced \subseteq raced' /\ cleared \subseteq cleared'
    BY <1>21 DEF BackoffElapses, history
  <1>22. ASSUME NEW i \in Ids, DedupWindowPasses(i) PROVE reopened \subseteq reopened' /\ raced \subseteq raced' /\ cleared \subseteq cleared'
    BY <1>22 DEF DedupWindowPasses, history
  <1>23. CASE CleanupByOtherTraffic
    BY <1>23 DEF CleanupByOtherTraffic, history, SomeCleanup, CleanupStale
  <1>24. CASE ClearAll
    BY <1>24 DEF ClearAll, history
  <1>25. CASE LinkChanges
    BY <1>25 DEF LinkChanges, history
  <1>26. CASE Crash
    BY <1>26 DEF Crash, history
  <1>27. CASE UNCHANGED vars
    BY <1>27 DEF vars, history
  <1> QED
    BY <1>1, <1>2, <1>3, <1>4, <1>4a, <1>5, <1>6, <1>7, <1>8, <1>9, <1>10, <1>11, <1>12, <1>13, <1>14, <1>15, <1>16, <1>17, <1>18, <1>19, <1>20, <1>21, <1>22, <1>23, <1>24, <1>25, <1>26, <1>27 DEF Next, WorkerStep, WriterStep

LEMMA IInvStep == IInv /\ [Next]_vars => IInv'
  <1> SUFFICES ASSUME IInv, [Next]_vars PROVE IInv'
    OBVIOUS
  <1>1. TypeOK'
    BY TypeStep DEF IInv
  <1>2. ASSUME NEW i \in Ids PROVE BudgetAt(i)'
    BY BudgetStep DEF IInv
  <1>3. ASSUME NEW i \in Ids \ cleared' PROVE WitnessAt(i)'
    BY WitnessStep, HistoryGrows DEF IInv
  <1>4. ASSUME NEW i \in Ids \ reopened' PROVE ClaimAt(i)'
    BY ClaimStep, HistoryGrows DEF IInv
  <1>5. ASSUME NEW i \in Ids \ (reopened' \cup raced') PROVE ExitAt(i)'
    BY ExitStep, HistoryGrows DEF IInv
  <1> QED
    BY <1>1, <1>2, <1>3, <1>4, <1>5 DEF IInv, Ids

LEMMA Inductive == Spec => []IInv
  BY IInvInit, IInvStep, PTL DEF Spec

\* The queue's variables keep their types.
THEOREM QueueTypeCorrect == Spec => []TypeOK
  <1>1. IInv => TypeOK
    BY DEF IInv
  <1> QED
    BY <1>1, Inductive, PTL

\* mark_in_progress arbitrates between any number of process_once callers.
THEOREM QueueOneWorkerPerRow == Spec => []OneWorkerPerRow
  <1>1. IInv => OneWorkerPerRow
    BY DEF IInv, ClaimAt, OneWorkerPerRow
  <1> QED
    BY <1>1, Inductive, PTL

\* The terminal hook runs at most once outside the two known races.
THEOREM QueueHookOnce == Spec => []HookOnce
  <1>1. IInv => HookOnce
    BY DEF IInv, ExitAt, HookOnce
  <1> QED
    BY <1>1, Inductive, PTL

\* No row leaves unwitnessed.
THEOREM QueueEveryExitFires == Spec => []EveryExitFires
  <1>1. IInv => EveryExitFires
    BY DEF IInv, WitnessAt, EveryExitFires
  <1> QED
    BY <1>1, Inductive, PTL

\* What is reported dropped was never reported sent, outside the two known races.
THEOREM QueueDropHonest == Spec => []DropHonest
  <1>1. IInv => DropHonest
    BY DEF IInv, ExitAt, DropHonest, TypeOK, HistoryOK
  <1> QED
    BY <1>1, Inductive, PTL

\* Every row in play has an attempt left.
THEOREM QueueActiveHasBudget == Spec => []ActiveHasBudget
  <1>1. IInv => ActiveHasBudget
    BY DEF IInv, BudgetAt, ActiveHasBudget, Active, Unfinished
  <1> QED
    BY <1>1, Inductive, PTL

\* A row whose success has been reported is in nobody's hand but for the record.
LEMMA ResendStep ==
    ASSUME TypeOK, [Next]_vars, NEW i \in Ids, i \in acked => ClaimAt(i)
    PROVE  i \in acked => wire'[i] = wire[i]
  <1> DEFINE Quiet == i \in acked => wire'[i] = wire[i]
  <1>1. ASSUME NEW w \in Workers, Fetch(w) PROVE Quiet
    BY <1>1 DEF Fetch, history
  <1>2. ASSUME NEW w \in Workers, PaceBreak(w) PROVE Quiet
    BY <1>2 DEF PaceBreak, history
  <1>3. ASSUME NEW w \in Workers, MarkInProgress(w) PROVE Quiet
    BY <1>3 DEF MarkInProgress, history
  <1>4. ASSUME NEW w \in Workers, NEW o \in Outcomes, Send(w, o) PROVE Quiet
    BY <1>4 DEF Send, history
  <1>4a. ASSUME NEW w \in Workers, Transmit(w) PROVE Quiet
    BY <1>4a DEF Transmit, ClaimAt, Holds, Holding, TypeOK, WorkerOK, HistoryOK
  <1>5. ASSUME NEW w \in Workers, MarkDelivered(w) PROVE Quiet
    BY <1>5 DEF MarkDelivered, history
  <1>6. ASSUME NEW w \in Workers, DeliveredUnrecorded(w) PROVE Quiet
    BY <1>6 DEF DeliveredUnrecorded, history
  <1>7. ASSUME NEW w \in Workers, MarkFailedRead(w) PROVE Quiet
    BY <1>7 DEF MarkFailedRead, history
  <1>8. ASSUME NEW w \in Workers, NEW x \in Errors, MarkFailedWrite(w, x) PROVE Quiet
    BY <1>8 DEF MarkFailedWrite, history
  <1>9. ASSUME NEW w \in Workers, MarkDeferred(w) PROVE Quiet
    BY <1>9 DEF MarkDeferred, history
  <1>10. ASSUME NEW w \in Workers, MarkRefused(w) PROVE Quiet
    BY <1>10 DEF MarkRefused, history
  <1>11. ASSUME NEW w \in Workers, RecordingError(w) PROVE Quiet
    BY <1>11 DEF RecordingError, history
  <1>12. ASSUME NEW w \in Workers, NEW j \in Ids, ExpireOverdue(w, j) PROVE Quiet
    BY <1>12 DEF ExpireOverdue, history
  <1>13. ASSUME NEW e \in Writers, NEW c \in Contents, NEW p \in Priorities, CheckDuplicate(e, c, p) PROVE Quiet
    BY <1>13 DEF CheckDuplicate, history
  <1>14. ASSUME NEW e \in Writers, SkipCleanup(e) PROVE Quiet
    BY <1>14 DEF SkipCleanup, history
  <1>15. ASSUME NEW e \in Writers, AutoCleanup(e) PROVE Quiet
    BY <1>15 DEF AutoCleanup, history
  <1>16. ASSUME NEW e \in Writers, ReadDepth(e) PROVE Quiet
    BY <1>16 DEF ReadDepth, history
  <1>17. ASSUME NEW e \in Writers, ShedSelect(e) PROVE Quiet
    BY <1>17 DEF ShedSelect, history
  <1>18. ASSUME NEW e \in Writers, ShedDelete(e) PROVE Quiet
    BY <1>18 DEF ShedDelete, history
  <1>19. ASSUME NEW e \in Writers, Insert(e) PROVE Quiet
    BY <1>19 DEF Insert, history
  <1>20. ASSUME NEW j \in Ids, RetryDeadLetter(j) PROVE Quiet
    BY <1>20 DEF RetryDeadLetter, history
  <1>21. ASSUME NEW j \in Ids, BackoffElapses(j) PROVE Quiet
    BY <1>21 DEF BackoffElapses, history
  <1>22. ASSUME NEW j \in Ids, DedupWindowPasses(j) PROVE Quiet
    BY <1>22 DEF DedupWindowPasses, history
  <1>23. CASE CleanupByOtherTraffic
    BY <1>23 DEF CleanupByOtherTraffic, history
  <1>24. CASE ClearAll
    BY <1>24 DEF ClearAll, history
  <1>25. CASE LinkChanges
    BY <1>25 DEF LinkChanges, history
  <1>26. CASE Crash
    BY <1>26 DEF Crash, history
  <1>27. CASE UNCHANGED vars
    BY <1>27 DEF vars, history
  <1> QED
    BY <1>1, <1>2, <1>3, <1>4, <1>4a, <1>5, <1>6, <1>7, <1>8, <1>9, <1>10, <1>11, <1>12, <1>13, <1>14, <1>15, <1>16, <1>17, <1>18, <1>19, <1>20, <1>21, <1>22, <1>23, <1>24, <1>25, <1>26, <1>27 DEF Next, WorkerStep, WriterStep

\* Once send_fn has reported success the row stays off the air, cleanup_stale
\* and retry_dead_letter apart.
THEOREM QueueNoResend == Spec => NoResendAfterSuccess
  <1>1. IInv /\ [Next]_vars => [\A i \in acked \ reopened : wire'[i] = wire[i]]_vars
    <2> SUFFICES ASSUME IInv, [Next]_vars, NEW i \in acked \ reopened PROVE wire'[i] = wire[i]
      OBVIOUS
    <2>1. i \in Ids
      BY DEF IInv, TypeOK, HistoryOK
    <2>2. TypeOK /\ ClaimAt(i)
      BY <2>1 DEF IInv
    <2> QED
      BY <2>1, <2>2, ResendStep
  <1> QED
    BY <1>1, Inductive, PTL DEF Spec, NoResendAfterSuccess

LEMMA DeadStep ==
    ASSUME TypeOK, [Next]_vars, NEW i \in Ids
    PROVE  status[i] = "dead_letter" => status'[i] \in {"dead_letter", "delivered", "gone"} \/ revivals' > revivals
  <1> DEFINE Stays == status[i] = "dead_letter" => status'[i] \in {"dead_letter", "delivered", "gone"} \/ revivals' > revivals
  <1>1. ASSUME NEW w \in Workers, Fetch(w) PROVE Stays
    BY <1>1 DEF Fetch, row, TypeOK, RowOK, BoundsOK, Active
  <1>2. ASSUME NEW w \in Workers, PaceBreak(w) PROVE Stays
    BY <1>2 DEF PaceBreak, row, TypeOK, RowOK, BoundsOK, Active
  <1>3. ASSUME NEW w \in Workers, MarkInProgress(w) PROVE Stays
    BY <1>3 DEF MarkInProgress, row, TypeOK, RowOK, BoundsOK, Active
  <1>4. ASSUME NEW w \in Workers, NEW o \in Outcomes, Send(w, o) PROVE Stays
    BY <1>4 DEF Send, row, TypeOK, RowOK, BoundsOK, Active
  <1>4a. ASSUME NEW w \in Workers, Transmit(w) PROVE Stays
    BY <1>4a DEF Transmit, row, TypeOK, RowOK, BoundsOK, Active
  <1>5. ASSUME NEW w \in Workers, MarkDelivered(w) PROVE Stays
    BY <1>5 DEF MarkDelivered, row, TypeOK, RowOK, BoundsOK, Active
  <1>6. ASSUME NEW w \in Workers, DeliveredUnrecorded(w) PROVE Stays
    BY <1>6 DEF DeliveredUnrecorded, row, TypeOK, RowOK, BoundsOK, Active
  <1>7. ASSUME NEW w \in Workers, MarkFailedRead(w) PROVE Stays
    BY <1>7 DEF MarkFailedRead, row, TypeOK, RowOK, BoundsOK, Active
  <1>8. ASSUME NEW w \in Workers, NEW x \in Errors, MarkFailedWrite(w, x) PROVE Stays
    BY <1>8 DEF MarkFailedWrite, row, TypeOK, RowOK, BoundsOK, Active
  <1>9. ASSUME NEW w \in Workers, MarkDeferred(w) PROVE Stays
    BY <1>9 DEF MarkDeferred, row, TypeOK, RowOK, BoundsOK, Active
  <1>10. ASSUME NEW w \in Workers, MarkRefused(w) PROVE Stays
    BY <1>10 DEF MarkRefused, row, TypeOK, RowOK, BoundsOK, Active
  <1>11. ASSUME NEW w \in Workers, RecordingError(w) PROVE Stays
    BY <1>11 DEF RecordingError, row, TypeOK, RowOK, BoundsOK, Active
  <1>12. ASSUME NEW w \in Workers, NEW j \in Ids, ExpireOverdue(w, j) PROVE Stays
    BY <1>12 DEF ExpireOverdue, row, TypeOK, RowOK, BoundsOK, Active
  <1>13. ASSUME NEW e \in Writers, NEW c \in Contents, NEW p \in Priorities, CheckDuplicate(e, c, p) PROVE Stays
    BY <1>13 DEF CheckDuplicate, row, TypeOK, RowOK, BoundsOK, Active
  <1>14. ASSUME NEW e \in Writers, SkipCleanup(e) PROVE Stays
    BY <1>14 DEF SkipCleanup, row, TypeOK, RowOK, BoundsOK, Active
  <1>15. ASSUME NEW e \in Writers, AutoCleanup(e) PROVE Stays
    BY <1>15 DEF AutoCleanup, row, TypeOK, RowOK, BoundsOK, Active, SomeCleanup, CleanupStale
  <1>16. ASSUME NEW e \in Writers, ReadDepth(e) PROVE Stays
    BY <1>16 DEF ReadDepth, row, TypeOK, RowOK, BoundsOK, Active
  <1>17. ASSUME NEW e \in Writers, ShedSelect(e) PROVE Stays
    BY <1>17 DEF ShedSelect, row, TypeOK, RowOK, BoundsOK, Active
  <1>18. ASSUME NEW e \in Writers, ShedDelete(e) PROVE Stays
    BY <1>18 DEF ShedDelete, row, TypeOK, RowOK, BoundsOK, Active
  <1>19. ASSUME NEW e \in Writers, Insert(e) PROVE Stays
    BY <1>19 DEF Insert, row, TypeOK, RowOK, BoundsOK, Active
  <1>20. ASSUME NEW j \in Ids, RetryDeadLetter(j) PROVE Stays
    BY <1>20 DEF RetryDeadLetter, row, TypeOK, RowOK, BoundsOK, Active
  <1>21. ASSUME NEW j \in Ids, BackoffElapses(j) PROVE Stays
    BY <1>21 DEF BackoffElapses, row, TypeOK, RowOK, BoundsOK, Active
  <1>22. ASSUME NEW j \in Ids, DedupWindowPasses(j) PROVE Stays
    BY <1>22 DEF DedupWindowPasses, row, TypeOK, RowOK, BoundsOK, Active
  <1>23. CASE CleanupByOtherTraffic
    BY <1>23 DEF CleanupByOtherTraffic, row, TypeOK, RowOK, BoundsOK, Active, SomeCleanup, CleanupStale
  <1>24. CASE ClearAll
    BY <1>24 DEF ClearAll, row, TypeOK, RowOK, BoundsOK, Active
  <1>25. CASE LinkChanges
    BY <1>25 DEF LinkChanges, row, TypeOK, RowOK, BoundsOK, Active
  <1>26. CASE Crash
    BY <1>26 DEF Crash, row, TypeOK, RowOK, BoundsOK, Active
  <1>27. CASE UNCHANGED vars
    BY <1>27 DEF vars, row
  <1> QED
    BY <1>1, <1>2, <1>3, <1>4, <1>4a, <1>5, <1>6, <1>7, <1>8, <1>9, <1>10, <1>11, <1>12, <1>13, <1>14, <1>15, <1>16, <1>17, <1>18, <1>19, <1>20, <1>21, <1>22, <1>23, <1>24, <1>25, <1>26, <1>27 DEF Next, WorkerStep, WriterStep

\* A dead letter is retried by retry_dead_letter only.
THEOREM QueueDeadStaysDead == Spec => DeadStaysDead
  <1>1. IInv /\ [Next]_vars =>
          [\A i \in Ids : status[i] = "dead_letter" =>
             status'[i] \in {"dead_letter", "delivered", "gone"} \/ revivals' > revivals]_vars
    BY DeadStep DEF IInv
  <1> QED
    BY <1>1, Inductive, PTL DEF Spec, DeadStaysDead

------------------------------------------------------------------------------
(* MessageQueue implements QueueContract *)

\* What one step may do to row i, in the terms of the table.
Reported(i, q) == fired'[i] = [fired[i] EXCEPT ![q] = @ + 1]
Silent(i)      == fired'[i] = fired[i]

Allowed(i) ==
    \/ status'[i] = status[i] /\ Silent(i)
    \/ status[i] = "unborn" /\ status'[i] = "pending" /\ Silent(i)
    \/ status[i] = "pending" /\ status'[i] = "in_progress" /\ Silent(i)
    \/ status[i] \in {"in_progress", "dead_letter"} /\ status'[i] = "pending" /\ Silent(i)
    \/ status[i] \in {"pending", "in_progress", "dead_letter"} /\ status'[i] = "delivered" /\ Reported(i, "delivered")
    \/ status[i] \in {"pending", "in_progress"} /\ status'[i] = "dead_letter" /\ Reported(i, "dropped")
    \/ status[i] # "unborn" /\ status'[i] = "gone" /\ Reported(i, "dropped")
    \/ status[i] \in {"delivered", "dead_letter"} /\ status'[i] = "gone" /\ Silent(i)

\* Rows in the hands of a worker, or selected for shedding, exist.
Born ==
    /\ \A w \in Workers : wpc[w] \in Holding => status[cur[w]] # "unborn"
    /\ \A e \in Writers : \A i \in victims[e] : status[i] # "unborn"

LEMMA FireReports ==
    ASSUME NEW S, NEW q, fired' = Fire(fired, S, q), NEW i \in Ids
    PROVE  (i \in S => Reported(i, q)) /\ (i \notin S => Silent(i))
  BY DEF Fire, Reported, Silent

\* The refinement mapping takes an allowed step of a row to a step of the contract.
LEMMA AllowedMaps ==
    ASSUME TypeOK, TypeOK', NEW i \in Ids, Allowed(i)
    PROVE  Contract!Moves(i) \/ Contract!Rests(i)
  <1> USE DEF Contract!Moves, Contract!Rests, Contract!Told, Abstract, Reported, Silent, Allowed
  <1> DEFINE Step(a, b, q) == <<a, b, q>> \in Contract!Steps
  <1>1. /\ Step("none", "waiting", "quiet") /\ Step("waiting", "taken", "quiet")
        /\ Step("taken", "waiting", "quiet") /\ Step("dead", "waiting", "quiet")
        /\ \A s \in {"waiting", "taken", "dead"} : Step(s, "done", "delivered")
        /\ \A s \in {"waiting", "taken"} : Step(s, "dead", "dropped")
        /\ \A s \in {"waiting", "taken", "done", "dead", "gone"} : Step(s, "gone", "dropped")
        /\ \A s \in {"done", "dead"} : Step(s, "gone", "quiet")
    BY DEF Contract!Steps, Contract!Accepts, Contract!Takes, Contract!PutsBack, Contract!Delivers,
           Contract!Drops, Contract!ShedsLate, Contract!Revives, Contract!Purges
  <1>2. status[i] \in Statuses /\ status'[i] \in Statuses
    BY DEF TypeOK, RowOK
  <1> DEFINE From == Abstract(status[i])
             To   == Abstract(status'[i])
  <1>3. ASSUME NEW q, Step(From, To, q), fired'[i] = Contract!Told(fired[i], q)
        PROVE  Contract!Moves(i)
    <2>1. <<From, To, q>> \in Contract!Steps
      BY <1>3
    <2> QED
      BY <2>1, <1>3
  <1>4. CASE status'[i] = status[i] /\ Silent(i)
    BY <1>4
  <1> HIDE DEF Step
  <1>5. CASE status[i] = "unborn" /\ status'[i] = "pending" /\ Silent(i)
    BY <1>1, <1>3, <1>5
  <1>6. CASE status[i] = "pending" /\ status'[i] = "in_progress" /\ Silent(i)
    BY <1>1, <1>3, <1>6
  <1>7. CASE status[i] \in {"in_progress", "dead_letter"} /\ status'[i] = "pending" /\ Silent(i)
    BY <1>1, <1>3, <1>7
  <1>8. CASE status[i] \in {"pending", "in_progress", "dead_letter"} /\ status'[i] = "delivered" /\ Reported(i, "delivered")
    BY <1>1, <1>3, <1>8
  <1>9. CASE status[i] \in {"pending", "in_progress"} /\ status'[i] = "dead_letter" /\ Reported(i, "dropped")
    BY <1>1, <1>3, <1>9
  <1>10. CASE status[i] # "unborn" /\ status'[i] = "gone" /\ Reported(i, "dropped")
    BY <1>1, <1>2, <1>3, <1>10 DEF Statuses
  <1>11. CASE status[i] \in {"delivered", "dead_letter"} /\ status'[i] = "gone" /\ Silent(i)
    BY <1>1, <1>3, <1>11
  <1> QED
    BY <1>4, <1>5, <1>6, <1>7, <1>8, <1>9, <1>10, <1>11

LEMMA CleanupAllowed ==
    ASSUME TypeOK, SomeCleanup, NEW i \in Ids
    PROVE  Allowed(i) /\ (status[i] # "unborn" => status'[i] # "unborn")
  <1> USE DEF TypeOK, RowOK
  <1>1. PICK S \in SUBSET {j \in Ids : status[j] = "in_progress" /\ ~recent[j]} :
        \E P \in SUBSET {j \in Ids : status[j] \in Terminal /\ ~recent[j]} : CleanupStale(S, P)
    BY DEF SomeCleanup
  <1>2. PICK P \in SUBSET {j \in Ids : status[j] \in Terminal /\ ~recent[j]} : CleanupStale(S, P)
    BY <1>1
  <1> DEFINE X == {j \in S : retry[j] + 1 >= MaxRetries}
  <1>3. fired' = Fire(fired, X, "dropped")
    BY <1>2 DEF CleanupStale
  <1>4. (i \in X => Reported(i, "dropped")) /\ (i \notin X => Silent(i))
    BY <1>3, FireReports
  <1>5. status'[i] = CASE i \in P -> "gone" [] i \in X -> "dead_letter"
                       [] i \in S \ X -> "pending" [] OTHER -> status[i]
    BY <1>2 DEF CleanupStale
  <1> HIDE DEF X
  <1>6. CASE i \in P
    <2>1. status[i] \in {"delivered", "dead_letter"} /\ i \notin S
      BY <1>6 DEF Terminal
    <2>2. status'[i] = "gone"
      BY <1>5, <1>6, <2>1 DEF X
    <2>3. Silent(i)
      BY <1>4, <2>1 DEF X
    <2> QED
      BY <2>1, <2>2, <2>3 DEF Allowed
  <1>7. CASE i \in X /\ i \notin P
    <2>1. status[i] = "in_progress"
      BY <1>7 DEF X
    <2>2. status'[i] = "dead_letter"
      BY <1>5, <1>7 DEF X
    <2> QED
      BY <1>4, <1>7, <2>1, <2>2 DEF Allowed
  <1>8. CASE i \in S /\ i \notin X /\ i \notin P
    <2>1. status[i] = "in_progress"
      BY <1>8
    <2>2. status'[i] = "pending"
      BY <1>5, <1>8
    <2> QED
      BY <1>4, <1>8, <2>1, <2>2 DEF Allowed
  <1>9. CASE i \notin S /\ i \notin X /\ i \notin P
    <2>1. status'[i] = status[i]
      BY <1>5, <1>9
    <2> QED
      BY <1>4, <1>9, <2>1 DEF Allowed
  <1> QED
    BY <1>6, <1>7, <1>8, <1>9 DEF X

LEMMA BornInit == Init => Born
  BY DEF Init, Born, Holding

LEMMA BornStep ==
    ASSUME TypeOK, [Next]_vars, Born
    PROVE  Born'
  <1> USE DEF TypeOK, RowOK, WorkerOK, WriterOK
  <1>0. ASSUME UNCHANGED <<status, worker, writer>> PROVE Born'
    BY <1>0 DEF Born, worker, writer
  <1>1. ASSUME NEW w \in Workers, Fetch(w) PROVE Born'
    BY <1>1 DEF Fetch, Born, Holding, row, worker, writer, Active, Advance
  <1>2. ASSUME NEW w \in Workers, PaceBreak(w) PROVE Born'
    BY <1>2 DEF PaceBreak, Born, Holding, row, worker, writer, Active, Advance
  <1>3. ASSUME NEW w \in Workers, MarkInProgress(w) PROVE Born'
    <2>1. PICK j \in FirstToSend(batch[w], 1) :
            \/ /\ status[j] = "pending"
               /\ status' = [status EXCEPT ![j] = "in_progress"]
               /\ wpc' = [wpc EXCEPT ![w] = "sending"]
               /\ cur' = [cur EXCEPT ![w] = j]
            \/ /\ Advance(w, batch[w] \ {j})
               /\ UNCHANGED status
      BY <1>3 DEF MarkInProgress
    <2>2. j \in Ids
      BY <2>1 DEF FirstToSend
    <2>3. UNCHANGED victims
      BY <1>3 DEF MarkInProgress, writer
    <2> QED
      BY <2>1, <2>2, <2>3 DEF Born, Holding, Advance
  <1>4. ASSUME NEW w \in Workers, NEW o \in Outcomes, Send(w, o) PROVE Born'
    BY <1>4 DEF Send, Born, Holding, row, worker, writer, Active, Advance
  <1>4a. ASSUME NEW w \in Workers, Transmit(w) PROVE Born'
    BY <1>4a DEF Transmit, Born, Holding, row, worker, writer, Active, Advance
  <1>5. ASSUME NEW w \in Workers, MarkDelivered(w) PROVE Born'
    BY <1>5 DEF MarkDelivered, Born, Holding, row, worker, writer, Active, Advance
  <1>6. ASSUME NEW w \in Workers, DeliveredUnrecorded(w) PROVE Born'
    BY <1>6 DEF DeliveredUnrecorded, Born, Holding, row, worker, writer, Active, Advance
  <1>7. ASSUME NEW w \in Workers, MarkFailedRead(w) PROVE Born'
    BY <1>7 DEF MarkFailedRead, Born, Holding, row, worker, writer, Active, Advance
  <1>8. ASSUME NEW w \in Workers, NEW x \in Errors, MarkFailedWrite(w, x) PROVE Born'
    BY <1>8 DEF MarkFailedWrite, Born, Holding, row, worker, writer, Active, Advance
  <1>9. ASSUME NEW w \in Workers, MarkDeferred(w) PROVE Born'
    BY <1>9 DEF MarkDeferred, Born, Holding, row, worker, writer, Active, Advance
  <1>10. ASSUME NEW w \in Workers, MarkRefused(w) PROVE Born'
    BY <1>10 DEF MarkRefused, Born, Holding, row, worker, writer, Active, Advance
  <1>11. ASSUME NEW w \in Workers, RecordingError(w) PROVE Born'
    BY <1>11 DEF RecordingError, Born, Holding, row, worker, writer, Active, Advance
  <1>12. ASSUME NEW w \in Workers, NEW j \in Ids, ExpireOverdue(w, j) PROVE Born'
    BY <1>12 DEF ExpireOverdue, Born, Holding, row, worker, writer, Active, Advance
  <1>13. ASSUME NEW e \in Writers, NEW c \in Contents, NEW p \in Priorities, CheckDuplicate(e, c, p) PROVE Born'
    BY <1>13 DEF CheckDuplicate, Born, Holding, row, worker, writer, Active
  <1>14. ASSUME NEW e \in Writers, SkipCleanup(e) PROVE Born'
    BY <1>14 DEF SkipCleanup, Born, Holding, row, worker, writer, Active
  <1>15. ASSUME NEW e \in Writers, AutoCleanup(e) PROVE Born'
    BY <1>15, CleanupAllowed DEF AutoCleanup, Born, Holding, row, worker, writer, Active
  <1>16. ASSUME NEW e \in Writers, ReadDepth(e) PROVE Born'
    BY <1>16 DEF ReadDepth, Born, Holding, row, worker, writer, Active
  <1>17. ASSUME NEW e \in Writers, ShedSelect(e) PROVE Born'
    <2>1. \A j \in Sheddable(need[e]) : j \in Ids /\ status[j] = "pending"
      BY DEF Sheddable, FirstToShed
    <2>2. /\ victims' = victims \/ victims' = [victims EXCEPT ![e] = Sheddable(need[e])]
          /\ UNCHANGED <<status, wpc, cur>>
      BY <1>17 DEF ShedSelect, row, worker
    <2> QED
      BY <2>1, <2>2 DEF Born
  <1>18. ASSUME NEW e \in Writers, ShedDelete(e) PROVE Born'
    BY <1>18 DEF ShedDelete, Born, Holding, row, worker, writer, Active
  <1>19. ASSUME NEW e \in Writers, Insert(e) PROVE Born'
    BY <1>19 DEF Insert, Born, Holding, row, worker, writer, Active, Return, Sheddable, FirstToShed
  <1>20. ASSUME NEW j \in Ids, RetryDeadLetter(j) PROVE Born'
    BY <1>20 DEF RetryDeadLetter, Born, Holding, row, worker, writer, Active
  <1>21. ASSUME NEW j \in Ids, BackoffElapses(j) PROVE Born'
    BY <1>21 DEF BackoffElapses, Born, Holding, row, worker, writer, Active
  <1>22. ASSUME NEW j \in Ids, DedupWindowPasses(j) PROVE Born'
    BY <1>22 DEF DedupWindowPasses, Born, Holding, row, worker, writer, Active
  <1>23. CASE CleanupByOtherTraffic
    BY <1>23, CleanupAllowed DEF CleanupByOtherTraffic, Born, Holding, row, worker, writer, Active
  <1>24. CASE ClearAll
    BY <1>24 DEF ClearAll, Born, Holding, row, worker, writer, Active
  <1>25. CASE LinkChanges
    BY <1>25 DEF LinkChanges, Born, Holding, row, worker, writer, Active
  <1>26. CASE Crash
    BY <1>26 DEF Crash, Born, Holding, row, worker, writer, Active
  <1>27. CASE UNCHANGED vars
    BY <1>27, <1>0 DEF vars, row
  <1> QED
    BY <1>1, <1>2, <1>3, <1>4, <1>4a, <1>5, <1>6, <1>7, <1>8, <1>9, <1>10, <1>11, <1>12, <1>13, <1>14, <1>15, <1>16, <1>17, <1>18, <1>19, <1>20, <1>21, <1>22, <1>23, <1>24, <1>25, <1>26, <1>27 DEF Next, WorkerStep, WriterStep

LEMMA AllowedStep ==
    ASSUME TypeOK, Born, Next, ~ClearAll, NEW i \in Ids
    PROVE  Allowed(i)
  <1> USE DEF TypeOK, RowOK, WorkerOK, WriterOK, HistoryOK, Allowed
  <1>1. ASSUME NEW w \in Workers, Fetch(w) PROVE Allowed(i)
    BY <1>1 DEF Fetch, row, history, Silent
  <1>2. ASSUME NEW w \in Workers, PaceBreak(w) PROVE Allowed(i)
    BY <1>2 DEF PaceBreak, row, history, Silent
  <1>3. ASSUME NEW w \in Workers, MarkInProgress(w) PROVE Allowed(i)
    BY <1>3 DEF MarkInProgress, row, history, Silent, Born, Holding, Active, Statuses, Results, Terminal
  <1>4. ASSUME NEW w \in Workers, NEW o \in Outcomes, Send(w, o) PROVE Allowed(i)
    BY <1>4 DEF Send, row, history, Silent
  <1>4a. ASSUME NEW w \in Workers, Transmit(w) PROVE Allowed(i)
    BY <1>4a DEF Transmit, row, history, Silent
  <1>5. ASSUME NEW w \in Workers, MarkDelivered(w) PROVE Allowed(i)
    <2>1. /\ wpc[w] = "sent" /\ status[cur[w]] # "unborn" /\ cur[w] \in Ids
      BY <1>5 DEF MarkDelivered, Born, Holding
    <2>2. CASE status[cur[w]] \notin {"delivered", "gone"}
      <3>1. status' = [status EXCEPT ![cur[w]] = "delivered"] /\ fired' = Fire(fired, {cur[w]}, "delivered")
        BY <1>5, <2>2 DEF MarkDelivered
      <3>2. (i = cur[w] => Reported(i, "delivered")) /\ (i # cur[w] => Silent(i))
        BY <3>1, FireReports
      <3> QED
        BY <2>1, <2>2, <3>1, <3>2 DEF Statuses
    <2>3. CASE status[cur[w]] \in {"delivered", "gone"}
      BY <1>5, <2>3 DEF MarkDelivered, Silent
    <2> QED
      BY <2>2, <2>3
  <1>6. ASSUME NEW w \in Workers, DeliveredUnrecorded(w) PROVE Allowed(i)
    BY <1>6 DEF DeliveredUnrecorded, row, history, Silent
  <1>7. ASSUME NEW w \in Workers, MarkFailedRead(w) PROVE Allowed(i)
    BY <1>7 DEF MarkFailedRead, row, history, Silent
  <1>8. ASSUME NEW w \in Workers, NEW x \in Errors, MarkFailedWrite(w, x) PROVE Allowed(i)
    <2>1. CASE status[cur[w]] \in Active /\ ~ShouldRetry(x, seen[w] + 1)
      <3>1. status' = [status EXCEPT ![cur[w]] = "dead_letter"] /\ fired' = Fire(fired, {cur[w]}, "dropped")
        BY <1>8, <2>1 DEF MarkFailedWrite
      <3>2. (i = cur[w] => Reported(i, "dropped")) /\ (i # cur[w] => Silent(i))
        BY <3>1, FireReports
      <3> QED
        BY <2>1, <3>1, <3>2 DEF Active
    <2>2. CASE status[cur[w]] \in Active /\ ShouldRetry(x, seen[w] + 1)
      <3>1. status' = [status EXCEPT ![cur[w]] = "pending"] /\ fired' = fired
        BY <1>8, <2>2 DEF MarkFailedWrite
      <3> QED
        BY <2>2, <3>1 DEF Active, Silent
    <2>3. CASE status[cur[w]] \notin Active
      BY <1>8, <2>3 DEF MarkFailedWrite, Silent
    <2> QED
      BY <2>1, <2>2, <2>3
  <1>9. ASSUME NEW w \in Workers, MarkDeferred(w) PROVE Allowed(i)
    BY <1>9 DEF MarkDeferred, row, history, Silent, Born, Holding, Active, Statuses, Results, Terminal
  <1>10. ASSUME NEW w \in Workers, MarkRefused(w) PROVE Allowed(i)
    <2>1. CASE status[cur[w]] \in Active
      <3>1. status' = [status EXCEPT ![cur[w]] = "dead_letter"] /\ fired' = Fire(fired, {cur[w]}, "dropped")
        BY <1>10, <2>1 DEF MarkRefused
      <3>2. (i = cur[w] => Reported(i, "dropped")) /\ (i # cur[w] => Silent(i))
        BY <3>1, FireReports
      <3> QED
        BY <2>1, <3>1, <3>2 DEF Active
    <2>2. CASE status[cur[w]] \notin Active
      BY <1>10, <2>2 DEF MarkRefused, Silent
    <2> QED
      BY <2>1, <2>2
  <1>11. ASSUME NEW w \in Workers, RecordingError(w) PROVE Allowed(i)
    BY <1>11 DEF RecordingError, row, history, Silent
  <1>12. ASSUME NEW w \in Workers, NEW j \in Ids, ExpireOverdue(w, j) PROVE Allowed(i)
    <2>1. /\ status[j] = "pending" /\ status' = [status EXCEPT ![j] = "dead_letter"]
          /\ fired' = Fire(fired, {j}, "dropped")
      BY <1>12 DEF ExpireOverdue
    <2>2. (i = j => Reported(i, "dropped")) /\ (i # j => Silent(i))
      BY <2>1, FireReports
    <2> QED
      BY <2>1, <2>2
  <1>13. ASSUME NEW e \in Writers, NEW c \in Contents, NEW p \in Priorities, CheckDuplicate(e, c, p) PROVE Allowed(i)
    BY <1>13 DEF CheckDuplicate, row, history, Silent
  <1>14. ASSUME NEW e \in Writers, SkipCleanup(e) PROVE Allowed(i)
    BY <1>14 DEF SkipCleanup, row, history, Silent
  <1>15. ASSUME NEW e \in Writers, AutoCleanup(e) PROVE Allowed(i)
    BY <1>15, CleanupAllowed DEF AutoCleanup, row, history
  <1>16. ASSUME NEW e \in Writers, ReadDepth(e) PROVE Allowed(i)
    BY <1>16 DEF ReadDepth, row, history, Silent
  <1>17. ASSUME NEW e \in Writers, ShedSelect(e) PROVE Allowed(i)
    BY <1>17 DEF ShedSelect, row, history, Silent
  <1>18. ASSUME NEW e \in Writers, ShedDelete(e) PROVE Allowed(i)
    <2>1. /\ status' = [j \in Ids |-> IF j \in victims[e] THEN "gone" ELSE status[j]]
          /\ fired' = Fire(fired, victims[e], "dropped")
      BY <1>18 DEF ShedDelete
    <2>2. (i \in victims[e] => Reported(i, "dropped")) /\ (i \notin victims[e] => Silent(i))
      BY <2>1, FireReports
    <2>3. i \in victims[e] => status[i] # "unborn"
      BY DEF Born
    <2> QED
      BY <2>1, <2>2, <2>3
  <1>19. ASSUME NEW e \in Writers, Insert(e) PROVE Allowed(i)
    BY <1>19 DEF Insert, row, history, Silent, Born, Holding, Active, Statuses, Results, Terminal
  <1>20. ASSUME NEW j \in Ids, RetryDeadLetter(j) PROVE Allowed(i)
    BY <1>20 DEF RetryDeadLetter, row, history, Silent, Born, Holding, Active, Statuses, Results, Terminal
  <1>21. ASSUME NEW j \in Ids, BackoffElapses(j) PROVE Allowed(i)
    BY <1>21 DEF BackoffElapses, row, history, Silent
  <1>22. ASSUME NEW j \in Ids, DedupWindowPasses(j) PROVE Allowed(i)
    BY <1>22 DEF DedupWindowPasses, row, history, Silent
  <1>23. CASE CleanupByOtherTraffic
    BY <1>23, CleanupAllowed DEF CleanupByOtherTraffic, row, history
  <1>24. CASE LinkChanges
    BY <1>24 DEF LinkChanges, row, history, Silent
  <1>25. CASE Crash
    BY <1>25 DEF Crash, row, history, Silent
  <1> QED
    BY <1>1, <1>2, <1>3, <1>4, <1>4a, <1>5, <1>6, <1>7, <1>8, <1>9, <1>10, <1>11, <1>12, <1>13, <1>14, <1>15, <1>16, <1>17, <1>18, <1>19, <1>20, <1>21, <1>22, <1>23, <1>24, <1>25 DEF Next, WorkerStep, WriterStep

LEMMA ClearAllMaps ==
    ASSUME TypeOK, ClearAll
    PROVE  Contract!Cleared
  BY DEF TypeOK, RowOK, ClearAll, Contract!Cleared, Abstract, Statuses

LEMMA ContractInit == Init => Contract!Init
  BY DEF Init, Contract!Init, Abstract, Contract!Reports, Results

LEMMA ContractStep ==
    ASSUME TypeOK, TypeOK', Born, [Next]_vars
    PROVE  [Contract!Next]_(Contract!vars)
  <1>1. CASE ClearAll
    BY <1>1, ClearAllMaps DEF Contract!Next
  <1>2. CASE Next /\ ~ClearAll
    <2>1. \A i \in Ids : Contract!Moves(i) \/ Contract!Rests(i)
      BY <1>2, AllowedStep, AllowedMaps
    <2> QED
      BY <2>1 DEF Contract!Next, Contract!RowsMove
  <1>3. CASE UNCHANGED vars
    BY <1>3 DEF vars, row, history, Contract!vars
  <1> QED
    BY <1>1, <1>2, <1>3

\* The persistent queue, threads, crashes and database errors included, is an
\* implementation of QueueContract: each of its steps is a step of the contract
\* or leaves the rows and the hooks alone.
THEOREM QueueImplementsContract == Spec => ImplementsContract
  <1>1. Init => Born
    BY BornInit
  <1>2. TypeOK /\ Born /\ [Next]_vars => Born'
    BY BornStep
  <1>3. Spec => []Born
    BY <1>1, <1>2, QueueTypeCorrect, PTL DEF Spec
  <1>4. TypeOK /\ TypeOK' /\ Born /\ [Next]_vars => [Contract!Next]_(Contract!vars)
    BY ContractStep
  <1> QED
    BY <1>3, <1>4, ContractInit, QueueTypeCorrect, PTL DEF Spec, ImplementsContract, Contract!Spec

------------------------------------------------------------------------------
(* Bounds that hold with one caller of a kind and no retry_dead_letter *)

OneWorker == \A v, w \in Workers : v = w
OneWriter == \A d, e \in Writers : d = e
NoRevival == MaxRevivals = 0

\* process_once has fetched only rows whose backoff is over, and what it has in
\* hand it has taken out of its batch.
BatchDue ==
    \A w \in Workers : /\ \A i \in batch[w] : due[i]
                       /\ wpc[w] \in Holding => cur[w] \notin batch[w]

LEMMA BatchDueStep ==
    ASSUME OneWorker, TypeOK, BatchDue, [Next]_vars
    PROVE  BatchDue'
  <1>1. ASSUME NEW w \in Workers, Fetch(w) PROVE BatchDue'
    BY <1>1 DEF Fetch, BatchDue, OneWorker, TypeOK, RowOK, WorkerOK, Holding, row, Advance, GetPending, FirstToSend
  <1>2. ASSUME NEW w \in Workers, PaceBreak(w) PROVE BatchDue'
    BY <1>2 DEF PaceBreak, BatchDue, OneWorker, TypeOK, RowOK, WorkerOK, Holding, Ids, row, worker, Advance
  <1>3. ASSUME NEW w \in Workers, MarkInProgress(w) PROVE BatchDue'
    BY <1>3 DEF MarkInProgress, BatchDue, OneWorker, TypeOK, RowOK, WorkerOK, Holding, Ids, row, worker, Advance, FirstToSend
  <1>4. ASSUME NEW w \in Workers, NEW o \in Outcomes, Send(w, o) PROVE BatchDue'
    BY <1>4 DEF Send, BatchDue, OneWorker, TypeOK, RowOK, WorkerOK, Holding, Ids, row, worker
  <1>4a. ASSUME NEW w \in Workers, Transmit(w) PROVE BatchDue'
    BY <1>4a DEF Transmit, BatchDue, OneWorker, TypeOK, RowOK, WorkerOK, Holding, Ids, row, worker
  <1>5. ASSUME NEW w \in Workers, MarkDelivered(w) PROVE BatchDue'
    BY <1>5 DEF MarkDelivered, BatchDue, OneWorker, TypeOK, RowOK, WorkerOK, Holding, Ids, row, worker, Advance
  <1>6. ASSUME NEW w \in Workers, DeliveredUnrecorded(w) PROVE BatchDue'
    BY <1>6 DEF DeliveredUnrecorded, BatchDue, OneWorker, TypeOK, RowOK, WorkerOK, Holding, Ids, row, worker, Advance
  <1>7. ASSUME NEW w \in Workers, MarkFailedRead(w) PROVE BatchDue'
    BY <1>7 DEF MarkFailedRead, BatchDue, OneWorker, TypeOK, RowOK, WorkerOK, Holding, Ids, row, worker, Advance
  <1>8. ASSUME NEW w \in Workers, NEW x \in Errors, MarkFailedWrite(w, x) PROVE BatchDue'
    <2>1. /\ wpc[w] = "failing" /\ batch' = [batch EXCEPT ![w] = batch[w]]
          /\ wpc' = [wpc EXCEPT ![w] = IF batch[w] = {} THEN "idle" ELSE "batch"]
          /\ due' = due \/ due' = [due EXCEPT ![cur[w]] = FALSE]
      BY <1>8 DEF MarkFailedWrite, Advance
    <2>2. \A i \in batch[w] : due[i] /\ i # cur[w] /\ i \in Ids
      BY <2>1 DEF BatchDue, Holding, TypeOK, WorkerOK
    <2>3. batch'[w] = batch[w] /\ wpc'[w] \notin Holding
      BY <2>1 DEF TypeOK, WorkerOK, Holding
    <2>4. \A i \in batch[w] : due'[i]
      BY <2>1, <2>2 DEF TypeOK, RowOK
    <2> QED
      BY <2>3, <2>4 DEF OneWorker, BatchDue
  <1>9. ASSUME NEW w \in Workers, MarkDeferred(w) PROVE BatchDue'
    <2>1. /\ wpc[w] = "deferred" /\ batch' = [batch EXCEPT ![w] = batch[w]]
          /\ wpc' = [wpc EXCEPT ![w] = IF batch[w] = {} THEN "idle" ELSE "batch"]
          /\ due' = due \/ due' = [due EXCEPT ![cur[w]] = FALSE]
      BY <1>9 DEF MarkDeferred, Advance
    <2>2. \A i \in batch[w] : due[i] /\ i # cur[w] /\ i \in Ids
      BY <2>1 DEF BatchDue, Holding, TypeOK, WorkerOK
    <2>3. batch'[w] = batch[w] /\ wpc'[w] \notin Holding
      BY <2>1 DEF TypeOK, WorkerOK, Holding
    <2>4. \A i \in batch[w] : due'[i]
      BY <2>1, <2>2 DEF TypeOK, RowOK
    <2> QED
      BY <2>3, <2>4 DEF OneWorker, BatchDue
  <1>10. ASSUME NEW w \in Workers, MarkRefused(w) PROVE BatchDue'
    BY <1>10 DEF MarkRefused, BatchDue, OneWorker, TypeOK, RowOK, WorkerOK, Holding, Ids, row, worker, Advance
  <1>11. ASSUME NEW w \in Workers, RecordingError(w) PROVE BatchDue'
    BY <1>11 DEF RecordingError, BatchDue, OneWorker, TypeOK, RowOK, WorkerOK, Holding, Ids, row, worker, Advance
  <1>12. ASSUME NEW w \in Workers, NEW j \in Ids, ExpireOverdue(w, j) PROVE BatchDue'
    BY <1>12 DEF ExpireOverdue, BatchDue, OneWorker, TypeOK, RowOK, WorkerOK, Holding, Ids, row, worker
  <1>13. ASSUME NEW e \in Writers, NEW c \in Contents, NEW p \in Priorities, CheckDuplicate(e, c, p) PROVE BatchDue'
    BY <1>13 DEF CheckDuplicate, BatchDue, OneWorker, TypeOK, RowOK, WorkerOK, Holding, Ids, row, worker
  <1>14. ASSUME NEW e \in Writers, SkipCleanup(e) PROVE BatchDue'
    BY <1>14 DEF SkipCleanup, BatchDue, OneWorker, TypeOK, RowOK, WorkerOK, Holding, Ids, row, worker
  <1>15. ASSUME NEW e \in Writers, AutoCleanup(e) PROVE BatchDue'
    BY <1>15 DEF AutoCleanup, BatchDue, OneWorker, TypeOK, RowOK, WorkerOK, Holding, Ids, row, worker, SomeCleanup, CleanupStale
  <1>16. ASSUME NEW e \in Writers, ReadDepth(e) PROVE BatchDue'
    BY <1>16 DEF ReadDepth, BatchDue, OneWorker, TypeOK, RowOK, WorkerOK, Holding, Ids, row, worker
  <1>17. ASSUME NEW e \in Writers, ShedSelect(e) PROVE BatchDue'
    BY <1>17 DEF ShedSelect, BatchDue, OneWorker, TypeOK, RowOK, WorkerOK, Holding, Ids, row, worker, Return
  <1>18. ASSUME NEW e \in Writers, ShedDelete(e) PROVE BatchDue'
    BY <1>18 DEF ShedDelete, BatchDue, OneWorker, TypeOK, RowOK, WorkerOK, Holding, Ids, row, worker
  <1>19. ASSUME NEW e \in Writers, Insert(e) PROVE BatchDue'
    BY <1>19 DEF Insert, BatchDue, OneWorker, TypeOK, RowOK, WorkerOK, Holding, Ids, row, worker, Return
  <1>20. ASSUME NEW j \in Ids, RetryDeadLetter(j) PROVE BatchDue'
    BY <1>20 DEF RetryDeadLetter, BatchDue, OneWorker, TypeOK, RowOK, WorkerOK, Holding, Ids, row, worker
  <1>21. ASSUME NEW j \in Ids, BackoffElapses(j) PROVE BatchDue'
    BY <1>21 DEF BackoffElapses, BatchDue, OneWorker, TypeOK, RowOK, WorkerOK, Holding, Ids, row, worker
  <1>22. ASSUME NEW j \in Ids, DedupWindowPasses(j) PROVE BatchDue'
    BY <1>22 DEF DedupWindowPasses, BatchDue, OneWorker, TypeOK, RowOK, WorkerOK, Holding, Ids, row, worker
  <1>23. CASE CleanupByOtherTraffic
    BY <1>23 DEF CleanupByOtherTraffic, BatchDue, OneWorker, TypeOK, RowOK, WorkerOK, Holding, Ids, row, worker, SomeCleanup, CleanupStale
  <1>24. CASE ClearAll
    BY <1>24 DEF ClearAll, BatchDue, OneWorker, TypeOK, RowOK, WorkerOK, Holding, Ids, row, worker
  <1>25. CASE LinkChanges
    BY <1>25 DEF LinkChanges, BatchDue, OneWorker, TypeOK, RowOK, WorkerOK, Holding, Ids, row, worker
  <1>26. CASE Crash
    BY <1>26 DEF Crash, BatchDue, OneWorker, TypeOK, RowOK, WorkerOK, Holding, Ids, row, worker
  <1>27. CASE UNCHANGED vars
    BY <1>27 DEF vars, BatchDue, OneWorker, TypeOK, RowOK, WorkerOK, Holding, Ids, row, worker
  <1> QED
    BY <1>1, <1>2, <1>3, <1>4, <1>4a, <1>5, <1>6, <1>7, <1>8, <1>9, <1>10, <1>11, <1>12, <1>13, <1>14, <1>15, <1>16, <1>17, <1>18, <1>19, <1>20, <1>21, <1>22, <1>23, <1>24, <1>25, <1>26, <1>27 DEF Next, WorkerStep, WriterStep

\* What the queue promises of a row once it has gone out: the attempts counted
\* keep up with the transmissions, for the row in hand as well.
Unsent(i) == \E w \in Workers : wpc[w] = "sending" /\ cur[w] = i
Waits(i)  == \E w \in Workers : wpc[w] = "deferred" /\ cur[w] = i
Spent(i)  == IF Unsent(i) THEN wire[i] + 1 ELSE wire[i]

SpentAt(i) ==
    /\ Spent(i) <= Budget
    /\ status[i] = "unborn" => Spent(i) = 0
    /\ status[i] = "pending" => Spent(i) <= retry[i] /\ Spent(i) < Budget
    /\ status[i] = "in_progress" => Spent(i) <= retry[i] + 1
    /\ status[i] \in Active /\ Waits(i) => wire[i] <= retry[i] /\ wire[i] < Budget
    /\ \A w \in Workers : wpc[w] = "failing" /\ cur[w] = i /\ status[i] \in Active => wire[i] <= seen[w] + 1

LEMMA BudgetNat == Budget \in Nat /\ MaxRetries <= Budget
  BY DEF Budget

\* cleanup_stale counts before it puts a row back.
LEMMA CleanupSpent ==
    ASSUME TypeOK, NEW i \in Ids, SpentAt(i), SomeCleanup, UNCHANGED <<wpc, cur, seen, wire>>
    PROVE  SpentAt(i)'
  <1>1. Spent(i)' = Spent(i) /\ (Waits(i)' <=> Waits(i)) /\ wire[i] <= Spent(i) /\ Spent(i) \in Nat
    BY DEF Spent, Unsent, Waits, TypeOK, HistoryOK
  <1>2. \/ status'[i] = status[i] /\ retry'[i] = retry[i]
        \/ status'[i] = "gone"
        \/ /\ status[i] = "in_progress" /\ retry'[i] = retry[i] + 1
           /\ \/ status'[i] = "pending" /\ retry[i] + 1 < MaxRetries
              \/ status'[i] = "dead_letter"
    <2>1. PICK S \in SUBSET {j \in Ids : status[j] = "in_progress" /\ ~recent[j]},
               P \in SUBSET {j \in Ids : status[j] \in Terminal /\ ~recent[j]} : CleanupStale(S, P)
      BY DEF SomeCleanup
    <2>2. CASE i \in P
      BY <2>1, <2>2 DEF CleanupStale, Terminal
    <2>3. CASE i \in S /\ i \notin P
      BY <2>1, <2>3 DEF CleanupStale, Terminal, TypeOK, RowOK
    <2>4. CASE i \notin S /\ i \notin P
      BY <2>1, <2>4 DEF CleanupStale, Terminal
    <2> QED
      BY <2>2, <2>3, <2>4
  <1>3. retry[i] \in Nat /\ wire'[i] = wire[i] /\ wire[i] \in Nat
    BY DEF TypeOK, RowOK, HistoryOK
  <1>4. \A w \in Workers : wpc'[w] = "failing" /\ cur'[w] = i =>
          wpc[w] = "failing" /\ cur[w] = i /\ seen'[w] = seen[w]
    OBVIOUS
  <1>5. CASE status'[i] = status[i] /\ retry'[i] = retry[i]
    BY <1>1, <1>3, <1>4, <1>5 DEF SpentAt
  <1>6. CASE status'[i] \in {"gone", "dead_letter"}
    BY <1>1, <1>6 DEF SpentAt, Active
  <1>7. CASE status[i] = "in_progress" /\ retry'[i] = retry[i] + 1 /\ status'[i] = "pending"
             /\ retry[i] + 1 < MaxRetries
    <2>1. Spent(i) <= retry[i] + 1
      BY <1>7 DEF SpentAt
    <2>2. \A w \in Workers : wpc[w] = "failing" /\ cur[w] = i => wire[i] <= seen[w] + 1
      BY <1>7 DEF SpentAt, Active
    <2> QED
      BY <1>1, <1>3, <1>4, <1>7, <2>1, <2>2, BudgetNat DEF SpentAt
  <1> QED
    BY <1>2, <1>5, <1>6, <1>7

LEMMA SpentStep ==
    ASSUME OneWorker, NoRevival, TypeOK, Born, [Next]_vars, NEW i \in Ids, SpentAt(i)
    PROVE  SpentAt(i)'
  <1>1. ASSUME NEW w \in Workers, Fetch(w) PROVE SpentAt(i)'
    BY <1>1 DEF Fetch, SpentAt, Spent, Unsent, Waits, OneWorker, NoRevival, TypeOK, RowOK, WorkerOK, HistoryOK, BoundsOK, Born, Active, Holding, row, worker, history, bounds, Advance
  <1>2. ASSUME NEW w \in Workers, PaceBreak(w) PROVE SpentAt(i)'
    BY <1>2 DEF PaceBreak, SpentAt, Spent, Unsent, Waits, OneWorker, NoRevival, TypeOK, RowOK, WorkerOK, HistoryOK, BoundsOK, Born, Active, Holding, row, worker, history, bounds, Advance
  <1>3. ASSUME NEW w \in Workers, MarkInProgress(w) PROVE SpentAt(i)'
    <2>1. wpc[w] = "batch" /\ UNCHANGED <<wire, retry>>
      BY <1>3 DEF MarkInProgress, history, Advance
    <2>2. ~Unsent(i) /\ Spent(i) = wire[i]
      BY <2>1 DEF Unsent, Spent, OneWorker
    <2>3. PICK j \in FirstToSend(batch[w], 1) :
             \/ /\ status[j] = "pending"
                /\ status' = [status EXCEPT ![j] = "in_progress"]
                /\ wpc' = [wpc EXCEPT ![w] = "sending"]
                /\ cur' = [cur EXCEPT ![w] = j]
             \/ Advance(w, batch[w] \ {j}) /\ UNCHANGED status
      BY <1>3 DEF MarkInProgress
    <2>4. j \in Ids
      BY <2>3 DEF FirstToSend, TypeOK, WorkerOK
    <2>5. wpc'[w] \in {"idle", "batch", "sending"}
      BY <2>3 DEF Advance, TypeOK, WorkerOK
    <2>6. \A v \in Workers : wpc'[v] \in {"idle", "batch", "sending"}
      BY <2>5 DEF OneWorker
    <2>7. ~Waits(i)' /\ \A v \in Workers : wpc'[v] # "failing"
      BY <2>6 DEF Waits, Holding
    <2>8. CASE Unsent(i)'
      <3>1. i = j /\ status[i] = "pending" /\ status'[i] = "in_progress"
        BY <2>3, <2>4, <2>8 DEF Unsent, Advance, TypeOK, RowOK, WorkerOK, OneWorker
      <3>2. Spent(i)' = wire[i] + 1
        BY <2>8, <2>1 DEF Spent
      <3>3. wire[i] <= retry[i] /\ wire[i] < Budget /\ wire[i] \in Nat /\ retry[i] \in Nat
        BY <3>1, <2>2 DEF SpentAt, TypeOK, RowOK, HistoryOK
      <3> QED
        BY <3>1, <3>2, <3>3, <2>1, <2>7, BudgetNat DEF SpentAt
    <2>9. CASE ~Unsent(i)'
      <3>1. Spent(i)' = wire[i]
        BY <2>9, <2>1 DEF Spent
      <3>2. status'[i] = status[i] \/ (status[i] = "pending" /\ status'[i] = "in_progress")
        BY <2>3, <2>4 DEF TypeOK, RowOK
      <3>3. retry'[i] = retry[i] /\ wire[i] \in Nat /\ retry[i] \in Nat
        BY <2>1 DEF TypeOK, RowOK, HistoryOK
      <3> QED
        BY <3>1, <3>2, <3>3, <2>2, <2>7 DEF SpentAt
    <2> QED
      BY <2>8, <2>9
  <1>4. ASSUME NEW w \in Workers, NEW o \in Outcomes, Send(w, o) PROVE SpentAt(i)'
    <2>1. wpc[w] \in {"sending", "onair"} /\ cur[w] \in Ids /\ UNCHANGED <<status, retry, cur, seen, wire>>
      BY <1>4 DEF Send, row, TypeOK, WorkerOK, Holding
    <2>2. wpc'[w] = o /\ o \in {"sent", "failed", "deferred", "refused"}
      <3>1. o \in {"sent", "failed", "deferred", "refused"}
        OBVIOUS
      <3> QED
        BY <1>4, <3>1 DEF Send, TypeOK, WorkerOK
    <2>3. \A v \in Workers : wpc'[v] # "sending" /\ wpc'[v] # "failing"
      BY <2>2 DEF OneWorker
    <2>4. wire[i] \in Nat /\ retry[i] \in Nat /\ Spent(i) \in Nat /\ wire[i] <= Spent(i)
      BY DEF Spent, TypeOK, RowOK, HistoryOK
    <2>5. Spent(i)' = wire[i]
      BY <2>1, <2>3 DEF Spent, Unsent
    <2>6. Waits(i)' => wpc[w] = "sending" /\ cur[w] = i
      BY <1>4, <2>1, <2>2 DEF Waits, Send, OneWorker
    <2>7. Waits(i)' => Spent(i) = wire[i] + 1
      BY <2>6 DEF Spent, Unsent
    <2>8. status'[i] = status[i] /\ retry'[i] = retry[i] /\ wire'[i] = wire[i]
      BY <2>1
    <2>9. Waits(i)' /\ status[i] \in Active => wire[i] <= retry[i] /\ wire[i] < Budget
      BY <2>4, <2>7, BudgetNat DEF SpentAt, Active
    <2> QED
      BY <2>3, <2>4, <2>5, <2>8, <2>9, BudgetNat DEF SpentAt
  <1>4a. ASSUME NEW w \in Workers, Transmit(w) PROVE SpentAt(i)'
    <2>1. wpc[w] = "sending" /\ cur[w] \in Ids /\ UNCHANGED <<status, retry, cur, seen>>
      BY <1>4a DEF Transmit, row, TypeOK, WorkerOK, Holding
    <2>2. \A v \in Workers : wpc'[v] = "onair"
      BY <1>4a DEF Transmit, OneWorker, TypeOK, WorkerOK
    <2>3. ~Unsent(i)' /\ ~Waits(i)' /\ \A v \in Workers : wpc'[v] # "failing"
      BY <2>2 DEF Unsent, Waits
    <2>4. Unsent(i) <=> cur[w] = i
      BY <2>1 DEF Unsent, OneWorker
    <2>5. wire'[i] = Spent(i)
      BY <1>4a, <2>1, <2>4 DEF Transmit, Spent, TypeOK, HistoryOK
    <2>6. Spent(i)' = Spent(i) /\ status'[i] = status[i] /\ retry'[i] = retry[i]
      BY <2>1, <2>3, <2>5 DEF Spent
    <2> QED
      BY <2>3, <2>6 DEF SpentAt
  <1>5. ASSUME NEW w \in Workers, MarkDelivered(w) PROVE SpentAt(i)'
    BY <1>5 DEF MarkDelivered, SpentAt, Spent, Unsent, Waits, OneWorker, NoRevival, TypeOK, RowOK, WorkerOK, HistoryOK, BoundsOK, Born, Active, Holding, row, worker, history, bounds, Advance
  <1>6. ASSUME NEW w \in Workers, DeliveredUnrecorded(w) PROVE SpentAt(i)'
    BY <1>6 DEF DeliveredUnrecorded, SpentAt, Spent, Unsent, Waits, OneWorker, NoRevival, TypeOK, RowOK, WorkerOK, HistoryOK, BoundsOK, Born, Active, Holding, row, worker, history, bounds, Advance
  <1>7. ASSUME NEW w \in Workers, MarkFailedRead(w) PROVE SpentAt(i)'
    BY <1>7 DEF MarkFailedRead, SpentAt, Spent, Unsent, Waits, OneWorker, NoRevival, TypeOK, RowOK, WorkerOK, HistoryOK, BoundsOK, Born, Active, Holding, row, worker, history, bounds, Advance
  <1>8. ASSUME NEW w \in Workers, NEW x \in Errors, MarkFailedWrite(w, x) PROVE SpentAt(i)'
    <2>1. wpc[w] = "failing" /\ cur[w] \in Ids /\ UNCHANGED wire
      BY <1>8 DEF MarkFailedWrite, TypeOK, WorkerOK, Holding
    <2>2. \A v \in Workers : wpc'[v] \in {"idle", "batch"}
      BY <1>8 DEF MarkFailedWrite, Advance, OneWorker, TypeOK, WorkerOK
    <2>3. ~Unsent(i) /\ ~Unsent(i)' /\ ~Waits(i)' /\ \A v \in Workers : wpc'[v] # "failing"
      BY <2>1, <2>2 DEF Unsent, Waits, OneWorker
    <2>4. Spent(i) = wire[i] /\ Spent(i)' = wire[i] /\ wire[i] \in Nat
      BY <2>1, <2>3 DEF Spent, TypeOK, HistoryOK
    <2>5. CASE i # cur[w] \/ UNCHANGED <<status, retry>>
      <3>1. status'[i] = status[i] /\ retry'[i] = retry[i]
        BY <1>8, <2>5 DEF MarkFailedWrite, TypeOK, RowOK
      <3> QED
        BY <3>1, <2>3, <2>4 DEF SpentAt
    <2>6. CASE i = cur[w] /\ status[i] \in Active
      <3>1. wire[i] <= seen[w] + 1 /\ seen[w] \in Nat
        BY <2>1, <2>6 DEF SpentAt, TypeOK, WorkerOK
      <3>2. retry'[i] = seen[w] + 1
        BY <1>8, <2>6 DEF MarkFailedWrite, TypeOK, RowOK
      <3>3. \/ status'[i] = "pending" /\ ShouldRetry(x, seen[w] + 1)
            \/ status'[i] = "dead_letter"
        BY <1>8, <2>6 DEF MarkFailedWrite, TypeOK, RowOK
      <3>4. status'[i] = "pending" => seen[w] + 1 < Budget
        BY <3>1, <3>3, RetryBudget
      <3>5. wire[i] <= Budget
        BY <2>4 DEF SpentAt
      <3> QED
        BY <2>3, <2>4, <3>1, <3>2, <3>3, <3>4, <3>5, BudgetNat DEF SpentAt, Active
    <2> QED
      BY <1>8, <2>5, <2>6 DEF MarkFailedWrite
  <1>9. ASSUME NEW w \in Workers, MarkDeferred(w) PROVE SpentAt(i)'
    BY <1>9 DEF MarkDeferred, SpentAt, Spent, Unsent, Waits, OneWorker, NoRevival, TypeOK, RowOK, WorkerOK, HistoryOK, BoundsOK, Born, Active, Holding, row, worker, history, bounds, Advance
  <1>10. ASSUME NEW w \in Workers, MarkRefused(w) PROVE SpentAt(i)'
    BY <1>10 DEF MarkRefused, SpentAt, Spent, Unsent, Waits, OneWorker, NoRevival, TypeOK, RowOK, WorkerOK, HistoryOK, BoundsOK, Born, Active, Holding, row, worker, history, bounds, Advance
  <1>11. ASSUME NEW w \in Workers, RecordingError(w) PROVE SpentAt(i)'
    BY <1>11 DEF RecordingError, SpentAt, Spent, Unsent, Waits, OneWorker, NoRevival, TypeOK, RowOK, WorkerOK, HistoryOK, BoundsOK, Born, Active, Holding, row, worker, history, bounds, Advance
  <1>12. ASSUME NEW w \in Workers, NEW j \in Ids, ExpireOverdue(w, j) PROVE SpentAt(i)'
    BY <1>12 DEF ExpireOverdue, SpentAt, Spent, Unsent, Waits, OneWorker, NoRevival, TypeOK, RowOK, WorkerOK, HistoryOK, BoundsOK, Born, Active, Holding, row, worker, history, bounds
  <1>13. ASSUME NEW e \in Writers, NEW c \in Contents, NEW p \in Priorities, CheckDuplicate(e, c, p) PROVE SpentAt(i)'
    BY <1>13 DEF CheckDuplicate, SpentAt, Spent, Unsent, Waits, OneWorker, NoRevival, TypeOK, RowOK, WorkerOK, HistoryOK, BoundsOK, Born, Active, Holding, row, worker, history, bounds
  <1>14. ASSUME NEW e \in Writers, SkipCleanup(e) PROVE SpentAt(i)'
    BY <1>14 DEF SkipCleanup, SpentAt, Spent, Unsent, Waits, OneWorker, NoRevival, TypeOK, RowOK, WorkerOK, HistoryOK, BoundsOK, Born, Active, Holding, row, worker, history, bounds
  <1>15. ASSUME NEW e \in Writers, AutoCleanup(e) PROVE SpentAt(i)'
    <2>1. SomeCleanup /\ UNCHANGED <<wpc, cur, seen, wire>>
      BY <1>15 DEF AutoCleanup, worker
    <2> QED
      BY <2>1, CleanupSpent
  <1>16. ASSUME NEW e \in Writers, ReadDepth(e) PROVE SpentAt(i)'
    BY <1>16 DEF ReadDepth, SpentAt, Spent, Unsent, Waits, OneWorker, NoRevival, TypeOK, RowOK, WorkerOK, HistoryOK, BoundsOK, Born, Active, Holding, row, worker, history, bounds
  <1>17. ASSUME NEW e \in Writers, ShedSelect(e) PROVE SpentAt(i)'
    BY <1>17 DEF ShedSelect, SpentAt, Spent, Unsent, Waits, OneWorker, NoRevival, TypeOK, RowOK, WorkerOK, HistoryOK, BoundsOK, Born, Active, Holding, row, worker, history, bounds, Return
  <1>18. ASSUME NEW e \in Writers, ShedDelete(e) PROVE SpentAt(i)'
    BY <1>18 DEF ShedDelete, SpentAt, Spent, Unsent, Waits, OneWorker, NoRevival, TypeOK, RowOK, WorkerOK, HistoryOK, BoundsOK, Born, Active, Holding, row, worker, history, bounds
  <1>19. ASSUME NEW e \in Writers, Insert(e) PROVE SpentAt(i)'
    <2>1. UNCHANGED <<retry, wpc, cur, seen, wire>>
      BY <1>19 DEF Insert, worker, history
    <2>2. status'[i] = status[i] \/ (status[i] = "unborn" /\ status'[i] = "pending")
      BY <1>19 DEF Insert, TypeOK, RowOK
    <2>3. CASE status'[i] = status[i]
      BY <2>1, <2>3 DEF SpentAt, Spent, Unsent, Waits
    <2>4. CASE status[i] = "unborn" /\ status'[i] = "pending"
      <3>1. \A v \in Workers : wpc[v] \in Holding => cur[v] # i
        BY <2>4 DEF Born
      <3>2. ~Unsent(i)' /\ ~Waits(i)' /\ Spent(i)' = Spent(i)
        BY <3>1, <2>1 DEF Unsent, Waits, Spent, Holding
      <3>3. \A v \in Workers : ~(wpc'[v] = "failing" /\ cur'[v] = i)
        BY <3>1, <2>1 DEF Holding
      <3>4. Spent(i) = 0 /\ retry'[i] \in Nat
        BY <2>4, <2>1 DEF SpentAt, TypeOK, RowOK
      <3> QED
        BY <3>2, <3>3, <3>4, <2>4, BudgetNat, BudgetPositive DEF SpentAt
    <2> QED
      BY <2>2, <2>3, <2>4
  <1>20. ASSUME NEW j \in Ids, RetryDeadLetter(j) PROVE SpentAt(i)'
    BY <1>20 DEF RetryDeadLetter, SpentAt, Spent, Unsent, Waits, OneWorker, NoRevival, TypeOK, RowOK, WorkerOK, HistoryOK, BoundsOK, Born, Active, Holding, row, worker, history, bounds
  <1>21. ASSUME NEW j \in Ids, BackoffElapses(j) PROVE SpentAt(i)'
    BY <1>21 DEF BackoffElapses, SpentAt, Spent, Unsent, Waits, OneWorker, NoRevival, TypeOK, RowOK, WorkerOK, HistoryOK, BoundsOK, Born, Active, Holding, row, worker, history, bounds
  <1>22. ASSUME NEW j \in Ids, DedupWindowPasses(j) PROVE SpentAt(i)'
    BY <1>22 DEF DedupWindowPasses, SpentAt, Spent, Unsent, Waits, OneWorker, NoRevival, TypeOK, RowOK, WorkerOK, HistoryOK, BoundsOK, Born, Active, Holding, row, worker, history, bounds
  <1>23. CASE CleanupByOtherTraffic
    <2>1. SomeCleanup /\ UNCHANGED <<wpc, cur, seen, wire>>
      BY <1>23 DEF CleanupByOtherTraffic, worker
    <2> QED
      BY <2>1, CleanupSpent
  <1>24. CASE ClearAll
    BY <1>24 DEF ClearAll, SpentAt, Spent, Unsent, Waits, OneWorker, NoRevival, TypeOK, RowOK, WorkerOK, HistoryOK, BoundsOK, Born, Active, Holding, row, worker, history, bounds
  <1>25. CASE LinkChanges
    BY <1>25 DEF LinkChanges, SpentAt, Spent, Unsent, Waits, OneWorker, NoRevival, TypeOK, RowOK, WorkerOK, HistoryOK, BoundsOK, Born, Active, Holding, row, worker, history, bounds
  <1>26. CASE Crash
    <2>1. UNCHANGED <<status, retry, wire>> /\ \A v \in Workers : wpc'[v] = "idle"
      BY <1>26 DEF Crash, row, history
    <2>2. ~Unsent(i)' /\ ~Waits(i)' /\ Spent(i)' = wire[i] /\ wire[i] <= Spent(i)
      BY <2>1 DEF Unsent, Waits, Spent, Holding, TypeOK, HistoryOK
    <2>3. status'[i] = status[i] /\ retry'[i] = retry[i] /\ retry[i] \in Nat
          /\ wire[i] \in Nat /\ Spent(i) \in Nat
      BY <2>1 DEF Spent, TypeOK, RowOK, HistoryOK
    <2>4. \A v \in Workers : wpc'[v] # "failing"
      BY <2>1
    <2> QED
      BY <2>2, <2>3, <2>4, BudgetNat DEF SpentAt
  <1>27. CASE UNCHANGED vars
    BY <1>27 DEF vars, SpentAt, Spent, Unsent, Waits, OneWorker, NoRevival, TypeOK, RowOK, WorkerOK, HistoryOK, BoundsOK, Born, Active, Holding, row, worker, history, bounds
  <1> QED
    BY <1>1, <1>2, <1>3, <1>4, <1>4a, <1>5, <1>6, <1>7, <1>8, <1>9, <1>10, <1>11, <1>12, <1>13, <1>14, <1>15, <1>16, <1>17, <1>18, <1>19, <1>20, <1>21, <1>22, <1>23, <1>24, <1>25, <1>26, <1>27 DEF Next, WorkerStep, WriterStep

\* Rows that count towards the depth.
InPlay == {i \in Ids : status[i] \in Active}

LEMMA InPlayStep ==
    ASSUME NoRevival, TypeOK, [Next]_vars, ~ \E e \in Writers : Insert(e)
    PROVE  InPlay' \subseteq InPlay
  <1>1. ASSUME NEW w \in Workers, Fetch(w) PROVE InPlay' \subseteq InPlay
    BY <1>1 DEF Fetch, InPlay, NoRevival, TypeOK, RowOK, BoundsOK, Active, row, Ids, Advance
  <1>2. ASSUME NEW w \in Workers, PaceBreak(w) PROVE InPlay' \subseteq InPlay
    BY <1>2 DEF PaceBreak, InPlay, NoRevival, TypeOK, RowOK, BoundsOK, Active, row, Ids, Advance
  <1>3. ASSUME NEW w \in Workers, MarkInProgress(w) PROVE InPlay' \subseteq InPlay
    BY <1>3 DEF MarkInProgress, InPlay, NoRevival, TypeOK, RowOK, BoundsOK, Active, row, Ids, Advance, FirstToSend
  <1>4. ASSUME NEW w \in Workers, NEW o \in Outcomes, Send(w, o) PROVE InPlay' \subseteq InPlay
    BY <1>4 DEF Send, InPlay, NoRevival, TypeOK, RowOK, BoundsOK, Active, row, Ids
  <1>4a. ASSUME NEW w \in Workers, Transmit(w) PROVE InPlay' \subseteq InPlay
    BY <1>4a DEF Transmit, InPlay, NoRevival, TypeOK, RowOK, BoundsOK, Active, row, Ids
  <1>5. ASSUME NEW w \in Workers, MarkDelivered(w) PROVE InPlay' \subseteq InPlay
    BY <1>5 DEF MarkDelivered, InPlay, NoRevival, TypeOK, RowOK, BoundsOK, Active, row, Ids, Advance
  <1>6. ASSUME NEW w \in Workers, DeliveredUnrecorded(w) PROVE InPlay' \subseteq InPlay
    BY <1>6 DEF DeliveredUnrecorded, InPlay, NoRevival, TypeOK, RowOK, BoundsOK, Active, row, Ids, Advance
  <1>7. ASSUME NEW w \in Workers, MarkFailedRead(w) PROVE InPlay' \subseteq InPlay
    BY <1>7 DEF MarkFailedRead, InPlay, NoRevival, TypeOK, RowOK, BoundsOK, Active, row, Ids, Advance
  <1>8. ASSUME NEW w \in Workers, NEW x \in Errors, MarkFailedWrite(w, x) PROVE InPlay' \subseteq InPlay
    BY <1>8 DEF MarkFailedWrite, InPlay, NoRevival, TypeOK, RowOK, BoundsOK, Active, row, Ids, Advance
  <1>9. ASSUME NEW w \in Workers, MarkDeferred(w) PROVE InPlay' \subseteq InPlay
    BY <1>9 DEF MarkDeferred, InPlay, NoRevival, TypeOK, RowOK, BoundsOK, Active, row, Ids, Advance
  <1>10. ASSUME NEW w \in Workers, MarkRefused(w) PROVE InPlay' \subseteq InPlay
    BY <1>10 DEF MarkRefused, InPlay, NoRevival, TypeOK, RowOK, BoundsOK, Active, row, Ids, Advance
  <1>11. ASSUME NEW w \in Workers, RecordingError(w) PROVE InPlay' \subseteq InPlay
    BY <1>11 DEF RecordingError, InPlay, NoRevival, TypeOK, RowOK, BoundsOK, Active, row, Ids, Advance
  <1>12. ASSUME NEW w \in Workers, NEW j \in Ids, ExpireOverdue(w, j) PROVE InPlay' \subseteq InPlay
    BY <1>12 DEF ExpireOverdue, InPlay, NoRevival, TypeOK, RowOK, BoundsOK, Active, row, Ids
  <1>13. ASSUME NEW e \in Writers, NEW c \in Contents, NEW p \in Priorities, CheckDuplicate(e, c, p) PROVE InPlay' \subseteq InPlay
    BY <1>13 DEF CheckDuplicate, InPlay, NoRevival, TypeOK, RowOK, BoundsOK, Active, row, Ids
  <1>14. ASSUME NEW e \in Writers, SkipCleanup(e) PROVE InPlay' \subseteq InPlay
    BY <1>14 DEF SkipCleanup, InPlay, NoRevival, TypeOK, RowOK, BoundsOK, Active, row, Ids
  <1>15. ASSUME NEW e \in Writers, AutoCleanup(e) PROVE InPlay' \subseteq InPlay
    BY <1>15 DEF AutoCleanup, InPlay, NoRevival, TypeOK, RowOK, BoundsOK, Active, row, Ids, SomeCleanup, CleanupStale
  <1>16. ASSUME NEW e \in Writers, ReadDepth(e) PROVE InPlay' \subseteq InPlay
    BY <1>16 DEF ReadDepth, InPlay, NoRevival, TypeOK, RowOK, BoundsOK, Active, row, Ids
  <1>17. ASSUME NEW e \in Writers, ShedSelect(e) PROVE InPlay' \subseteq InPlay
    BY <1>17 DEF ShedSelect, InPlay, NoRevival, TypeOK, RowOK, BoundsOK, Active, row, Ids, Return
  <1>18. ASSUME NEW e \in Writers, ShedDelete(e) PROVE InPlay' \subseteq InPlay
    BY <1>18 DEF ShedDelete, InPlay, NoRevival, TypeOK, RowOK, BoundsOK, Active, row, Ids
  <1>19. ASSUME NEW e \in Writers, Insert(e) PROVE InPlay' \subseteq InPlay
    BY <1>19
  <1>20. ASSUME NEW j \in Ids, RetryDeadLetter(j) PROVE InPlay' \subseteq InPlay
    BY <1>20 DEF RetryDeadLetter, InPlay, NoRevival, TypeOK, RowOK, BoundsOK, Active, row, Ids
  <1>21. ASSUME NEW j \in Ids, BackoffElapses(j) PROVE InPlay' \subseteq InPlay
    BY <1>21 DEF BackoffElapses, InPlay, NoRevival, TypeOK, RowOK, BoundsOK, Active, row, Ids
  <1>22. ASSUME NEW j \in Ids, DedupWindowPasses(j) PROVE InPlay' \subseteq InPlay
    BY <1>22 DEF DedupWindowPasses, InPlay, NoRevival, TypeOK, RowOK, BoundsOK, Active, row, Ids
  <1>23. CASE CleanupByOtherTraffic
    BY <1>23 DEF CleanupByOtherTraffic, InPlay, NoRevival, TypeOK, RowOK, BoundsOK, Active, row, Ids, SomeCleanup, CleanupStale
  <1>24. CASE ClearAll
    BY <1>24 DEF ClearAll, InPlay, NoRevival, TypeOK, RowOK, BoundsOK, Active, row, Ids
  <1>25. CASE LinkChanges
    BY <1>25 DEF LinkChanges, InPlay, NoRevival, TypeOK, RowOK, BoundsOK, Active, row, Ids
  <1>26. CASE Crash
    BY <1>26 DEF Crash, InPlay, NoRevival, TypeOK, RowOK, BoundsOK, Active, row, Ids
  <1>27. CASE UNCHANGED vars
    BY <1>27 DEF vars, InPlay, NoRevival, TypeOK, RowOK, BoundsOK, Active, row, Ids
  <1> QED
    BY <1>1, <1>2, <1>3, <1>4, <1>4a, <1>5, <1>6, <1>7, <1>8, <1>9, <1>10, <1>11, <1>12, <1>13, <1>14, <1>15, <1>16, <1>17, <1>18, <1>19, <1>20, <1>21, <1>22, <1>23, <1>24, <1>25, <1>26, <1>27 DEF Next, WorkerStep, WriterStep

LEMMA InPlayFinite == IsFiniteSet(InPlay) /\ Depth = Cardinality(InPlay)
  <1>1. IsFiniteSet(Ids)
    <2>1. 1 \in Int /\ MaxRows \in Int
      OBVIOUS
    <2> QED
      BY <2>1, FS_Interval, Zenon DEF Ids
  <1> QED
    BY <1>1, FS_Subset DEF InPlay, Depth

\* Where an enqueue may be about to insert or to shed.
LEMMA WriterPlaces ==
    ASSUME TypeOK, [Next]_vars, NEW e \in Writers
    PROVE  /\ epc'[e] = "insert" =>
                \/ epc[e] = "insert"
                \/ ~(MaxQueueSize > 0 /\ Depth >= MaxQueueSize) /\ UNCHANGED status
                \/ ShedDelete(e)
           /\ epc'[e] = "delete" =>
                \/ epc[e] = "delete" /\ victims'[e] = victims[e]
                \/ victims'[e] # {} /\ victims'[e] \subseteq InPlay /\ UNCHANGED status
  <1> DEFINE Places(f) ==
             /\ epc'[f] = "insert" =>
                  \/ epc[f] = "insert"
                  \/ ~(MaxQueueSize > 0 /\ Depth >= MaxQueueSize) /\ UNCHANGED status
                  \/ ShedDelete(f)
             /\ epc'[f] = "delete" =>
                  \/ epc[f] = "delete" /\ victims'[f] = victims[f]
                  \/ victims'[f] # {} /\ victims'[f] \subseteq InPlay /\ UNCHANGED status
  <1> SUFFICES Places(e)
    OBVIOUS
  <1>1. ASSUME NEW w \in Workers, WorkerStep(w) PROVE Places(e)
    BY <1>1 DEF WorkerStep, Fetch, PaceBreak, MarkInProgress, Transmit, Send, MarkDelivered, DeliveredUnrecorded,
                MarkFailedRead, MarkFailedWrite, MarkDeferred, MarkRefused, RecordingError, writer
  <1>2. ASSUME NEW w \in Workers, NEW i \in Ids, ExpireOverdue(w, i) PROVE Places(e)
    BY <1>2 DEF ExpireOverdue, writer
  <1>3. ASSUME NEW f \in Writers, NEW c \in Contents, NEW p \in Priorities, CheckDuplicate(f, c, p)
        PROVE  Places(e)
    BY <1>3 DEF CheckDuplicate, TypeOK, WriterOK
  <1>4. ASSUME NEW f \in Writers, SkipCleanup(f) \/ AutoCleanup(f) PROVE Places(e)
    BY <1>4 DEF SkipCleanup, AutoCleanup, TypeOK, WriterOK
  <1>5. ASSUME NEW f \in Writers, ReadDepth(f) PROVE Places(e)
    BY <1>5 DEF ReadDepth, TypeOK, WriterOK, row
  <1>6. ASSUME NEW f \in Writers, ShedSelect(f) PROVE Places(e)
    <2>1. Sheddable(need[f]) \subseteq InPlay
      BY DEF Sheddable, FirstToShed, InPlay, Active
    <2> QED
      BY <1>6, <2>1 DEF ShedSelect, Return, TypeOK, WriterOK, row
  <1>7. ASSUME NEW f \in Writers, ShedDelete(f) PROVE Places(e)
    <2>1. e = f \/ (epc'[e] = epc[e] /\ victims'[e] = victims[e])
      BY <1>7 DEF ShedDelete, TypeOK, WriterOK
    <2>2. epc'[f] = "insert"
      BY <1>7 DEF ShedDelete, TypeOK, WriterOK
    <2> QED
      BY <1>7, <2>1, <2>2
  <1>8. ASSUME NEW f \in Writers, Insert(f) PROVE Places(e)
    BY <1>8 DEF Insert, Return, TypeOK, WriterOK
  <1>9. ASSUME NEW i \in Ids, RetryDeadLetter(i) \/ BackoffElapses(i) \/ DedupWindowPasses(i) PROVE Places(e)
    BY <1>9 DEF RetryDeadLetter, BackoffElapses, DedupWindowPasses, writer
  <1>10. CASE CleanupByOtherTraffic \/ ClearAll \/ LinkChanges
    BY <1>10 DEF CleanupByOtherTraffic, ClearAll, LinkChanges, writer
  <1>11. CASE Crash
    BY <1>11 DEF Crash
  <1>12. CASE UNCHANGED vars
    BY <1>12 DEF vars, writer
  <1> QED
    BY <1>1, <1>2, <1>3, <1>4, <1>5, <1>6, <1>7, <1>8, <1>9, <1>10, <1>11, <1>12 DEF Next, WriterStep

\* A writer about to insert has room; a writer about to shed selected a row
\* that still counts, unless room was made meanwhile.
RoomAt(e) ==
    /\ epc[e] = "insert" => Depth < MaxQueueSize
    /\ epc[e] = "delete" => Depth < MaxQueueSize \/ \E i \in victims[e] : i \in InPlay

Room == DepthBound /\ (MaxQueueSize > 0 => \A e \in Writers : RoomAt(e))

LEMMA RoomStep ==
    ASSUME OneWriter, NoRevival, TypeOK, Room, [Next]_vars
    PROVE  Room'
  <1> SUFFICES ASSUME MaxQueueSize > 0 PROVE Depth' <= MaxQueueSize /\ \A e \in Writers : RoomAt(e)'
    BY DEF Room, DepthBound
  <1>1. Depth <= MaxQueueSize /\ Depth \in Nat /\ \A e \in Writers : RoomAt(e)
    BY DepthType DEF Room, DepthBound
  <1>2. /\ IsFiniteSet(InPlay) /\ Depth = Cardinality(InPlay)
        /\ Depth' = Cardinality(InPlay')
    <2>1. Depth' = Cardinality(InPlay')
      BY DEF Depth, InPlay
    <2> QED
      BY <2>1, InPlayFinite
  <1>3. ASSUME NEW e \in Writers, Insert(e) PROVE Depth' <= MaxQueueSize /\ \A f \in Writers : RoomAt(f)'
    <2>1. Depth < MaxQueueSize
      BY <1>1, <1>3 DEF RoomAt, Insert
    <2>2. PICK i \in Ids : status' = [status EXCEPT ![i] = "pending"]
      BY <1>3 DEF Insert
    <2>3. InPlay' \subseteq InPlay \cup {i}
      BY <2>2 DEF InPlay, TypeOK, RowOK
    <2>4. Depth' <= MaxQueueSize
      <3>1. IsFiniteSet(InPlay \cup {i}) /\ Cardinality(InPlay \cup {i}) \in {Depth, Depth + 1}
        BY <1>2, FS_AddElement
      <3>2. Cardinality(InPlay') <= Cardinality(InPlay \cup {i})
        BY <2>3, <3>1, FS_Subset
      <3>3. Depth' <= Depth + 1 /\ Depth' \in Nat
        <4>1. Cardinality(InPlay \cup {i}) <= Depth + 1 /\ Cardinality(InPlay \cup {i}) \in Nat
          BY <1>1, <3>1
        <4>2. Cardinality(InPlay') \in Nat
          BY <2>3, <3>1, FS_Subset, FS_CardinalityType
        <4> HIDE QueueAssumption
        <4> QED
          BY <1>1, <1>2, <3>2, <4>1, <4>2
      <3> QED
        BY <1>1, <2>1, <3>3
    <2>5. \A f \in Writers : epc'[f] = "idle"
      BY <1>3 DEF OneWriter, Insert, Return, TypeOK, WriterOK
    <2> QED
      BY <2>4, <2>5 DEF RoomAt
  <1>4. CASE ~ \E e \in Writers : Insert(e)
    <2>1. InPlay' \subseteq InPlay
      BY <1>4, InPlayStep
    <2>2. Depth' <= Depth /\ Depth' \in Nat /\ IsFiniteSet(InPlay')
      BY <1>2, <2>1, FS_Subset, FS_CardinalityType
    <2>3. ASSUME NEW i \in InPlay, i \notin InPlay' PROVE Depth' < Depth
      <3>1. Depth' = Depth => InPlay' = InPlay
        BY <1>2, <2>1, FS_Subset
      <3> QED
        BY <3>1, <2>2, <2>3, <1>1
    <2>4. ASSUME NEW e \in Writers PROVE RoomAt(e)'
      <3>1. CASE epc'[e] = "insert"
        <4>1. Depth' < MaxQueueSize
          <5>1. CASE epc[e] = "insert" 
            BY <5>1, <1>1, <2>2 DEF RoomAt
          <5>2. CASE ~(MaxQueueSize > 0 /\ Depth >= MaxQueueSize)
            BY <5>2, <1>1, <2>2
          <5>3. CASE ShedDelete(e)
            <6>1. epc[e] = "delete" /\ \A i \in victims[e] : i \notin InPlay'
              BY <5>3 DEF ShedDelete, InPlay, Active
            <6> QED
              BY <6>1, <1>1, <2>2, <2>3 DEF RoomAt
          <5> QED
            BY <5>1, <5>2, <5>3, <3>1, WriterPlaces
        <4> QED
          BY <4>1, <3>1 DEF RoomAt
      <3>2. CASE epc'[e] = "delete"
        <4>1. CASE epc[e] = "delete" /\ victims'[e] = victims[e]
          BY <4>1, <3>2, <1>1, <2>2, <2>3 DEF RoomAt
        <4>2. CASE victims'[e] # {} /\ victims'[e] \subseteq InPlay /\ UNCHANGED status
          <5>1. InPlay' = InPlay
            BY <4>2 DEF InPlay
          <5> QED
            BY <4>2, <5>1, <3>2 DEF RoomAt
        <4> QED
          BY <4>1, <4>2, <3>2, WriterPlaces
      <3>3. CASE epc'[e] \notin {"insert", "delete"}
        BY <3>3 DEF RoomAt
      <3> QED
        BY <3>1, <3>2, <3>3
    <2> QED
      BY <1>1, <2>2, <2>4
  <1> QED
    BY <1>3, <1>4

\* max_queue_size bounds the active messages, as long as one thread enqueues
\* and nothing is revived.
THEOREM QueueDepthBounded ==
    ASSUME OneWriter, NoRevival
    PROVE  Spec => []DepthBound
  <1>1. Init => TypeOK /\ Room
    <2> SUFFICES ASSUME Init PROVE Room
      BY TypeInit
    <2>1. InPlay = {} /\ \A e \in Writers : epc[e] = "idle"
      BY DEF Init, InPlay, Active
    <2>2. Depth = 0
      BY <2>1, InPlayFinite, FS_EmptySet
    <2> QED
      BY <2>1, <2>2 DEF Room, DepthBound, RoomAt
  <1>2. TypeOK /\ Room /\ [Next]_vars => (TypeOK /\ Room)'
    BY TypeStep, RoomStep
  <1>3. Room => DepthBound
    BY DEF Room
  <1> QED
    BY <1>1, <1>2, <1>3, PTL DEF Spec

LEMMA DispatchStep ==
    ASSUME TypeOK, BatchDue, [Next]_vars, NEW i \in Ids
    PROVE  status[i] = "pending" /\ status'[i] = "in_progress" => due[i]
  <1> DEFINE Due == status[i] = "pending" /\ status'[i] = "in_progress" => due[i]
  <1> SUFFICES Due
    OBVIOUS
  <1>1. ASSUME NEW w \in Workers, Fetch(w) PROVE Due
    BY <1>1 DEF Fetch, BatchDue, TypeOK, RowOK, row, Advance
  <1>2. ASSUME NEW w \in Workers, PaceBreak(w) PROVE Due
    BY <1>2 DEF PaceBreak, BatchDue, TypeOK, RowOK, row, Advance
  <1>3. ASSUME NEW w \in Workers, MarkInProgress(w) PROVE Due
    BY <1>3 DEF MarkInProgress, BatchDue, TypeOK, RowOK, Advance, FirstToSend
  <1>4. ASSUME NEW w \in Workers, NEW o \in Outcomes, Send(w, o) PROVE Due
    BY <1>4 DEF Send, BatchDue, TypeOK, RowOK, row
  <1>4a. ASSUME NEW w \in Workers, Transmit(w) PROVE Due
    BY <1>4a DEF Transmit, BatchDue, TypeOK, RowOK, row
  <1>5. ASSUME NEW w \in Workers, MarkDelivered(w) PROVE Due
    BY <1>5 DEF MarkDelivered, BatchDue, TypeOK, RowOK, row, Advance
  <1>6. ASSUME NEW w \in Workers, DeliveredUnrecorded(w) PROVE Due
    BY <1>6 DEF DeliveredUnrecorded, BatchDue, TypeOK, RowOK, row, Advance
  <1>7. ASSUME NEW w \in Workers, MarkFailedRead(w) PROVE Due
    BY <1>7 DEF MarkFailedRead, BatchDue, TypeOK, RowOK, row, Advance
  <1>8. ASSUME NEW w \in Workers, NEW x \in Errors, MarkFailedWrite(w, x) PROVE Due
    BY <1>8 DEF MarkFailedWrite, BatchDue, TypeOK, RowOK, row, Advance
  <1>9. ASSUME NEW w \in Workers, MarkDeferred(w) PROVE Due
    BY <1>9 DEF MarkDeferred, BatchDue, TypeOK, RowOK, row, Advance
  <1>10. ASSUME NEW w \in Workers, MarkRefused(w) PROVE Due
    BY <1>10 DEF MarkRefused, BatchDue, TypeOK, RowOK, row, Advance
  <1>11. ASSUME NEW w \in Workers, RecordingError(w) PROVE Due
    BY <1>11 DEF RecordingError, BatchDue, TypeOK, RowOK, row, Advance
  <1>12. ASSUME NEW w \in Workers, NEW j \in Ids, ExpireOverdue(w, j) PROVE Due
    BY <1>12 DEF ExpireOverdue, BatchDue, TypeOK, RowOK, row
  <1>13. ASSUME NEW e \in Writers, NEW c \in Contents, NEW p \in Priorities, CheckDuplicate(e, c, p) PROVE Due
    BY <1>13 DEF CheckDuplicate, BatchDue, TypeOK, RowOK, row
  <1>14. ASSUME NEW e \in Writers, SkipCleanup(e) PROVE Due
    BY <1>14 DEF SkipCleanup, BatchDue, TypeOK, RowOK, row
  <1>15. ASSUME NEW e \in Writers, AutoCleanup(e) PROVE Due
    BY <1>15 DEF AutoCleanup, BatchDue, TypeOK, RowOK, row, SomeCleanup, CleanupStale
  <1>16. ASSUME NEW e \in Writers, ReadDepth(e) PROVE Due
    BY <1>16 DEF ReadDepth, BatchDue, TypeOK, RowOK, row
  <1>17. ASSUME NEW e \in Writers, ShedSelect(e) PROVE Due
    BY <1>17 DEF ShedSelect, BatchDue, TypeOK, RowOK, row, Return
  <1>18. ASSUME NEW e \in Writers, ShedDelete(e) PROVE Due
    BY <1>18 DEF ShedDelete, BatchDue, TypeOK, RowOK, row
  <1>19. ASSUME NEW e \in Writers, Insert(e) PROVE Due
    BY <1>19 DEF Insert, BatchDue, TypeOK, RowOK, row, Return
  <1>20. ASSUME NEW j \in Ids, RetryDeadLetter(j) PROVE Due
    BY <1>20 DEF RetryDeadLetter, BatchDue, TypeOK, RowOK, row
  <1>21. ASSUME NEW j \in Ids, BackoffElapses(j) PROVE Due
    BY <1>21 DEF BackoffElapses, BatchDue, TypeOK, RowOK, row
  <1>22. ASSUME NEW j \in Ids, DedupWindowPasses(j) PROVE Due
    BY <1>22 DEF DedupWindowPasses, BatchDue, TypeOK, RowOK, row
  <1>23. CASE CleanupByOtherTraffic
    BY <1>23 DEF CleanupByOtherTraffic, BatchDue, TypeOK, RowOK, row, SomeCleanup, CleanupStale
  <1>24. CASE ClearAll
    BY <1>24 DEF ClearAll, BatchDue, TypeOK, RowOK, row
  <1>25. CASE LinkChanges
    BY <1>25 DEF LinkChanges, BatchDue, TypeOK, RowOK, row
  <1>26. CASE Crash
    BY <1>26 DEF Crash, BatchDue, TypeOK, RowOK, row
  <1>27. CASE UNCHANGED vars
    BY <1>27 DEF vars, BatchDue, TypeOK, RowOK, row
  <1> QED
    BY <1>1, <1>2, <1>3, <1>4, <1>4a, <1>5, <1>6, <1>7, <1>8, <1>9, <1>10, <1>11, <1>12, <1>13, <1>14, <1>15, <1>16, <1>17, <1>18, <1>19, <1>20, <1>21, <1>22, <1>23, <1>24, <1>25, <1>26, <1>27 DEF Next, WorkerStep, WriterStep

\* A row is dispatched only after its backoff, as long as one thread calls
\* process_once.
THEOREM QueueBackoffHonoured ==
    ASSUME OneWorker
    PROVE  Spec => BackoffHonoured
  <1>1. Init => TypeOK /\ BatchDue
    <2>1. Init => BatchDue
      BY DEF Init, BatchDue, Holding
    <2> QED
      BY <2>1, TypeInit
  <1>2. TypeOK /\ BatchDue /\ [Next]_vars => (TypeOK /\ BatchDue)'
    BY TypeStep, BatchDueStep
  <1>3. TypeOK /\ BatchDue /\ [Next]_vars =>
          [\A i \in Ids : status[i] = "pending" /\ status'[i] = "in_progress" => due[i]]_vars
    BY DispatchStep
  <1> QED
    BY <1>1, <1>2, <1>3, PTL DEF Spec, BackoffHonoured

\* A payload goes out at most as often as its budget of attempts, as long as one thread calls
\* process_once and nothing is revived, whatever crashes and failed writes leave.
THEOREM QueueResendWithinBudget ==
    ASSUME OneWorker, NoRevival
    PROVE  Spec => []ResendWithinBudget
  <1> DEFINE SInv == TypeOK /\ Born /\ \A i \in Ids : SpentAt(i)
  <1>1. Init => SInv
    <2>1. Init => \A i \in Ids : SpentAt(i)
      BY BudgetNat, BudgetPositive DEF Init, SpentAt, Spent, Unsent, Waits, Holding, Active
    <2> QED
      BY <2>1, TypeInit, BornInit
  <1>2. SInv /\ [Next]_vars => SInv'
    <2> SUFFICES ASSUME SInv, [Next]_vars PROVE SInv'
      OBVIOUS
    <2>1. TypeOK' /\ Born'
      BY TypeStep, BornStep
    <2>2. \A i \in Ids : SpentAt(i)'
      BY SpentStep
    <2> QED
      BY <2>1, <2>2 DEF Ids
  <1>3. SInv => ResendWithinBudget
    BY BudgetNat DEF SpentAt, Spent, ResendWithinBudget, TypeOK, HistoryOK
  <1> QED
    BY <1>1, <1>2, <1>3, PTL DEF Spec
=============================================================================
