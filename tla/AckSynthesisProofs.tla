------------------------- MODULE AckSynthesisProofs -------------------------
(***************************************************************************)
(* Safety of the receipts of AckSynthesis, for any set of messages and any *)
(* bounds.  IInv says of each message how its record, its receipts and the *)
(* thread that accepts it fit together; each action preserves it.          *)
(***************************************************************************)
EXTENDS AckSynthesis, TLAPS

\* Before a message is accepted nothing is known of it; before its record is
\* registered, nothing is recorded.
StartAt(m) ==
    /\ pc[m] = "new" => /\ row[m] = "none" /\ flying[m] = 0 /\ heard[m] = {}
    /\ pc[m] \in {"new", "register"} => ack[m] = "none"

\* What the sweep holds was overdue.
CountAt(m) == m \in batch => due[m]

\* OneReceipt, for one message.
ReceiptAt(m) ==
    /\ Sum(issued[m]) = IF ack[m] \in Final THEN 1 ELSE 0
    /\ \A k \in Kinds : owed[m][k] + told[m][k] <= issued[m][k]

\* HonestReceipt, for one message.
HonestAt(m) ==
    /\ issued[m]["delivered"] > 0 => "delivered" \in heard[m]
    /\ issued[m]["failed"] > 0 => "failed" \in heard[m] /\ m \notin Broadcasts
    /\ issued[m]["timeout"] > 0 => due[m] /\ ack[m] = "timeout"

\* A proof that was heard and could be written down has ended the record.
ProofAt(m) ==
    m \in Broadcasts /\ "delivered" \in heard[m] /\ m \notin missed => ~Pending(m)

InvAt(m) == StartAt(m) /\ CountAt(m) /\ ReceiptAt(m) /\ HonestAt(m) /\ ProofAt(m)

IInv == TypeOK /\ \A m \in Messages : InvAt(m)

------------------------------------------------------------------------------
(* The initial states *)

LEMMA InitInv == ASSUME AckAssumption, Init PROVE IInv
  BY DEF Init, IInv, TypeOK, InvAt, StartAt, CountAt, ReceiptAt, HonestAt, ProofAt,
         Pending, Exists, Sum, NoReceipts, Kinds, Final, Messages, AckAssumption

\* A stuttering step.
LEMMA StutterInv == ASSUME IInv, UNCHANGED vars PROVE IInv'
  BY DEF vars, record, bounds, history, IInv, TypeOK, InvAt, StartAt, CountAt,
         ReceiptAt, HonestAt, ProofAt, Pending, Exists, Sum

------------------------------------------------------------------------------
(* Accepting a message *)

LEMMA EnqueueInv ==
    ASSUME IInv, NEW n \in Messages, Enqueue(n)
    PROVE  IInv'
<1>1. TypeOK'
  BY DEF IInv, TypeOK, Enqueue, bounds, history
<1>2. ASSUME NEW m \in Messages PROVE InvAt(m)'
  BY <1>2 DEF IInv, TypeOK, Enqueue, bounds, history, InvAt, StartAt, CountAt,
              ReceiptAt, HonestAt, ProofAt, Pending, Exists, Sum
<1> QED BY <1>1, <1>2 DEF IInv

LEMMA FaultsTyped ==
    ASSUME AckAssumption, TypeOK, Fault \/ UNCHANGED faults
    PROVE  faults' \in 0..MaxFaults
  BY DEF AckAssumption, TypeOK, Fault

LEMMA RegisterInv ==
    ASSUME AckAssumption, IInv, NEW n \in Messages, Register(n)
    PROVE  IInv'
<1>1. TypeOK'
  <2>1. faults' \in 0..MaxFaults
    BY FaultsTyped DEF IInv, Register
  <2>2. ack' \in [Messages -> {"none", "pending"} \cup Final]
    BY DEF IInv, TypeOK, Register
  <2> QED
    BY <2>1, <2>2 DEF IInv, TypeOK, Register, bounds, history
<1>2. ASSUME NEW m \in Messages PROVE InvAt(m)'
  <2>1. InvAt(m) /\ n \in Queued /\ n \notin Broadcasts /\ ack[n] = "none"
    BY <1>2 DEF IInv, InvAt, StartAt, Register, AckAssumption
  <2> QED
    BY <1>2, <2>1 DEF IInv, TypeOK, Register, Fault, bounds, history, InvAt, StartAt,
                CountAt, ReceiptAt, HonestAt, ProofAt, Pending, Exists, Sum, Final
<1> QED BY <1>1, <1>2 DEF IInv

LEMMA RegisterOrphanInv ==
    ASSUME AckAssumption, IInv, NEW n \in Messages, RegisterOrphan(n)
    PROVE  IInv'
<1>1. TypeOK'
  <2>1. faults' \in 0..MaxFaults
    BY FaultsTyped DEF IInv, RegisterOrphan
  <2>2. /\ row' \in [Messages -> {"none", "waiting", "taken", "done", "dead", "gone"}]
        /\ ack' \in [Messages -> {"none", "pending"} \cup Final]
        /\ pc' \in [Messages -> {"new", "register", "fanout", "accepted"}]
    BY DEF IInv, TypeOK, RegisterOrphan
  <2> QED
    BY <2>1, <2>2 DEF IInv, TypeOK, RegisterOrphan, bounds, history
<1>2. ASSUME NEW m \in Messages PROVE InvAt(m)'
  <2>1. InvAt(m) /\ ack[n] = "none" /\ heard[n] = {}
    BY <1>2 DEF IInv, InvAt, StartAt, RegisterOrphan
  <2> QED
    BY <1>2, <2>1 DEF IInv, TypeOK, RegisterOrphan, Fault, bounds, history, InvAt,
                StartAt, CountAt, ReceiptAt, HonestAt, ProofAt, Pending, Exists, Sum, Final
<1> QED BY <1>1, <1>2 DEF IInv

LEMMA HandOverInv ==
    ASSUME AckAssumption, IInv, NEW n \in Messages, HandOver(n)
    PROVE  IInv'
<1>1. TypeOK' /\ \A m \in Messages : CountAt(m)'
  BY DEF IInv, TypeOK, HandOver, record, bounds, history, AckAssumption, InvAt, CountAt
<1>2. ASSUME NEW m \in Messages PROVE InvAt(m)'
  <2>1. InvAt(m) /\ pc[n] # "new"
    BY <1>2 DEF IInv, InvAt, StartAt, HandOver, Sending
  <2>2. StartAt(m)'
    BY <1>2, <2>1 DEF IInv, TypeOK, InvAt, StartAt, HandOver, record, bounds, history
  <2> QED
    BY <1>1, <1>2, <2>1, <2>2 DEF HandOver, record, bounds, history, InvAt, ReceiptAt,
                                  HonestAt, ProofAt, Pending, Exists, Sum
<1> QED BY <1>1, <1>2 DEF IInv

------------------------------------------------------------------------------
(* The queue moves rows *)

\* The steps of the contract lead from state to state, and none of those that
\* an orphan may make leads back into the table.
LEMMA StepsTyped ==
    ASSUME NEW s \in Queue!Steps \ Queue!Accepts
    PROVE  /\ s[1] \in {"waiting", "taken", "done", "dead", "gone"}
           /\ s[2] \in {"waiting", "taken", "done", "dead", "gone"}
           /\ s \in Queue!Purges => s[1] \in {"done", "dead"} /\ s[2] = "gone"
  BY DEF Queue!Steps, Queue!Accepts, Queue!Takes, Queue!PutsBack, Queue!Delivers,
         Queue!Drops, Queue!ShedsLate, Queue!Revives, Queue!Purges

LEMMA RowMovesInv ==
    ASSUME IInv, NEW n \in Messages, RowMoves(n)
    PROVE  IInv'
<1>1. PICK s \in Queue!Steps \ Queue!Accepts :
          /\ row[n] = s[1] /\ row' = [row EXCEPT ![n] = s[2]]
          /\ n \in Broadcasts => s \in Queue!Purges
  BY DEF RowMoves
<1>2. /\ row[n] # "none" /\ s[2] \in {"waiting", "taken", "done", "dead", "gone"}
      /\ n \in Broadcasts => s[2] = "gone"
  BY <1>1, StepsTyped
<1>3. TypeOK'
  BY <1>1, <1>2 DEF IInv, TypeOK, RowMoves, bounds, history
<1>4. ASSUME NEW m \in Messages PROVE InvAt(m)'
  <2>1. InvAt(m)
    BY <1>4 DEF IInv
  <2>2. /\ Pending(m)' => m \notin Broadcasts \/ Pending(m)
        /\ row'[m] = "none" <=> row[m] = "none"
    BY <1>1, <1>2, <1>4 DEF Pending, Exists, RowMoves, IInv, TypeOK
  <2> QED
    BY <1>4, <2>1, <2>2 DEF RowMoves, bounds, history, InvAt, StartAt, CountAt,
                            ReceiptAt, HonestAt, ProofAt, Sum
<1> QED BY <1>3, <1>4 DEF IInv

LEMMA ClearInv ==
    ASSUME IInv, Clear
    PROVE  IInv'
<1>1. TypeOK'
  BY DEF IInv, TypeOK, Clear, bounds, history
<1>2. ASSUME NEW m \in Messages PROVE InvAt(m)'
  BY <1>2 DEF IInv, TypeOK, Clear, bounds, history, InvAt, StartAt, CountAt,
              ReceiptAt, HonestAt, ProofAt, Pending, Exists, Sum
<1> QED BY <1>1, <1>2 DEF IInv

------------------------------------------------------------------------------
(* Receipts *)

\* A record that is pending has issued nothing, so that owing its first receipt
\* makes one.
LEMMA OweIssuesOne ==
    ASSUME TypeOK, NEW n \in Messages, NEW k \in Kinds, Owe(n, k),
           ReceiptAt(n), ack[n] = "pending", UNCHANGED told
    PROVE  /\ owed' \in [Messages -> [Kinds -> 0..1]]
           /\ issued' \in [Messages -> [Kinds -> 0..1]]
           /\ \A j \in Kinds : issued'[n][j] = IF j = k THEN 1 ELSE 0
           /\ Sum(issued'[n]) = 1
           /\ \A j \in Kinds : owed'[n][j] + told'[n][j] <= issued'[n][j]
           /\ \A m \in Messages : m # n => owed'[m] = owed[m] /\ issued'[m] = issued[m]
<1>1. \A j \in Kinds : issued[n][j] = 0 /\ owed[n][j] = 0 /\ told[n][j] = 0
  <2>1. /\ issued[n]["delivered"] \in 0..1 /\ issued[n]["failed"] \in 0..1
        /\ issued[n]["timeout"] \in 0..1
        /\ \A j \in Kinds : owed[n][j] \in 0..1 /\ told[n][j] \in 0..1
    BY DEF TypeOK, Kinds
  <2>2. Sum(issued[n]) = 0
    BY DEF ReceiptAt, Final
  <2>3. \A j \in Kinds : issued[n][j] = 0
    BY <2>1, <2>2 DEF Sum, Kinds
  <2> QED
    BY <2>1, <2>3 DEF ReceiptAt
<1>2. /\ issued' = [issued EXCEPT ![n] = [issued[n] EXCEPT ![k] = 1]]
      /\ owed' = [owed EXCEPT ![n] = [owed[n] EXCEPT ![k] = 1]]
  <2>1. issued[n][k] + 1 = 1 /\ owed[n][k] + 1 = 1
    BY <1>1
  <2>2. /\ issued' = [issued EXCEPT ![n] = [issued[n] EXCEPT ![k] = issued[n][k] + 1]]
        /\ owed' = [owed EXCEPT ![n] = [owed[n] EXCEPT ![k] = owed[n][k] + 1]]
    BY DEF Owe, TypeOK
  <2> QED BY <2>1, <2>2
<1>3. \A j \in Kinds : /\ issued'[n][j] = IF j = k THEN 1 ELSE 0
                       /\ owed'[n][j] = IF j = k THEN 1 ELSE 0
  BY <1>1, <1>2 DEF TypeOK
<1>4. Sum(issued'[n]) = 1
  BY <1>3 DEF Sum, Kinds
<1>5. /\ owed' \in [Messages -> [Kinds -> 0..1]]
      /\ issued' \in [Messages -> [Kinds -> 0..1]]
      /\ \A m \in Messages : m # n => owed'[m] = owed[m] /\ issued'[m] = issued[m]
  BY <1>2 DEF TypeOK
<1> QED BY <1>1, <1>3, <1>4, <1>5

LEMMA CallbackInv ==
    ASSUME AckAssumption, IInv, NEW n \in Messages, NEW k \in {"delivered", "failed"},
           Callback(n, k)
    PROVE  IInv'
<1> USE DEF Callback
<1>0. k \in Kinds /\ \A m \in Messages : InvAt(m)
  BY DEF Kinds, IInv
<1>1. \/ UNCHANGED <<ack, owed, issued, faults, missed>> /\ (~Pending(n) \/ (n \in Broadcasts /\ k = "failed"))
      \/ Pending(n) /\ ack' = [ack EXCEPT ![n] = "acked"] /\ Owe(n, k) /\ UNCHANGED <<faults, missed>>
                   /\ (n \in Broadcasts => k = "delivered")
      \/ Fault /\ missed' = missed \cup ({n} \cap Broadcasts) /\ UNCHANGED <<ack, owed, issued>>
  BY DEF MarkAcked
<1>2. /\ faults' \in 0..MaxFaults /\ missed' \subseteq Messages
      /\ flying' \in [Messages -> 0..MaxCopies]
      /\ heard' \in [Messages -> SUBSET {"delivered", "failed"}]
      /\ \A m \in Messages : CountAt(m)' /\ StartAt(m)'
  <2>1. faults' \in 0..MaxFaults
    BY <1>1, FaultsTyped DEF IInv, TypeOK
  <2>2. missed' \subseteq Messages
    BY <1>1 DEF IInv, TypeOK
  <2>3. /\ flying' \in [Messages -> 0..MaxCopies]
        /\ heard' \in [Messages -> SUBSET {"delivered", "failed"}]
    BY DEF IInv, TypeOK, AckAssumption
  <2>4. pc[n] \notin {"new"} /\ (pc[n] = "register" => ~Pending(n))
    BY <1>0 DEF InvAt, StartAt, CountAt, IInv, TypeOK, Pending
  <2>5. ASSUME NEW m \in Messages PROVE CountAt(m)'
    BY <2>5, <1>0 DEF InvAt, CountAt, IInv, TypeOK, AckAssumption
  <2>6. ASSUME NEW m \in Messages PROVE StartAt(m)'
    BY <2>4, <2>6, <1>0, <1>1 DEF InvAt, StartAt, IInv, TypeOK
  <2> QED BY <2>1, <2>2, <2>3, <2>5, <2>6
<1>3. CASE UNCHANGED <<ack, owed, issued, faults, missed>> /\ (~Pending(n) \/ (n \in Broadcasts /\ k = "failed"))
  <2>1. TypeOK'
    BY <1>2, <1>3 DEF IInv, TypeOK
  <2>2. ASSUME NEW m \in Messages PROVE ReceiptAt(m)' /\ HonestAt(m)' /\ ProofAt(m)'
    BY <1>0, <1>3, <2>2 DEF IInv, TypeOK, InvAt, ReceiptAt, HonestAt, ProofAt, Pending, Exists, Sum
  <2> QED BY <1>2, <2>1, <2>2 DEF IInv, InvAt
<1>4. CASE /\ Pending(n) /\ ack' = [ack EXCEPT ![n] = "acked"] /\ Owe(n, k)
           /\ UNCHANGED <<faults, missed>> /\ (n \in Broadcasts => k = "delivered")
  <2>1. /\ owed' \in [Messages -> [Kinds -> 0..1]]
        /\ issued' \in [Messages -> [Kinds -> 0..1]]
        /\ \A j \in Kinds : issued'[n][j] = IF j = k THEN 1 ELSE 0
        /\ Sum(issued'[n]) = 1
        /\ \A j \in Kinds : owed'[n][j] + told'[n][j] <= issued'[n][j]
        /\ \A m \in Messages : m # n => owed'[m] = owed[m] /\ issued'[m] = issued[m]
    BY <1>0, <1>4, OweIssuesOne DEF IInv, InvAt, Pending
  <2>2. ack' \in [Messages -> {"none", "pending"} \cup Final]
    BY <1>4 DEF IInv, TypeOK, Final
  <2>3. TypeOK'
    BY <1>2, <1>4, <2>1, <2>2 DEF IInv, TypeOK
  <2>4. ReceiptAt(n)' /\ HonestAt(n)' /\ ProofAt(n)'
    BY <1>4, <2>1 DEF IInv, TypeOK, ReceiptAt, HonestAt, ProofAt, Pending, Final, Kinds
  <2>5. ASSUME NEW m \in Messages, m # n PROVE ReceiptAt(m)' /\ HonestAt(m)' /\ ProofAt(m)'
    BY <1>0, <1>4, <2>1, <2>5 DEF IInv, TypeOK, InvAt, ReceiptAt, HonestAt, ProofAt, Pending, Exists, Sum
  <2> QED BY <1>2, <2>3, <2>4, <2>5 DEF IInv, InvAt
<1>5. CASE Fault /\ missed' = missed \cup ({n} \cap Broadcasts) /\ UNCHANGED <<ack, owed, issued>>
  <2>1. TypeOK'
    BY <1>2, <1>5 DEF IInv, TypeOK
  <2>2. ASSUME NEW m \in Messages PROVE ReceiptAt(m)' /\ HonestAt(m)' /\ ProofAt(m)'
    BY <1>0, <1>5, <2>2 DEF IInv, TypeOK, InvAt, ReceiptAt, HonestAt, ProofAt, Pending, Exists, Sum
  <2> QED BY <1>2, <2>1, <2>2 DEF IInv, InvAt
<1> QED BY <1>1, <1>3, <1>4, <1>5

LEMMA SweepFindInv ==
    ASSUME IInv, SweepFind
    PROVE  IInv'
<1>1. batch' \subseteq Messages /\ \A m \in batch' : due[m]
  BY DEF SweepFind, Overdue
<1>2. TypeOK'
  BY <1>1 DEF IInv, TypeOK, SweepFind, record, bounds, history
<1>3. ASSUME NEW m \in Messages PROVE InvAt(m)'
  BY <1>1, <1>3 DEF IInv, SweepFind, record, bounds, history, InvAt, StartAt, CountAt,
                    ReceiptAt, HonestAt, ProofAt, Pending, Exists, Sum
<1> QED BY <1>2, <1>3 DEF IInv

LEMMA SweepMarkInv ==
    ASSUME AckAssumption, IInv, NEW n \in Messages, SweepMark(n)
    PROVE  IInv'
<1>0. due[n] /\ "timeout" \in Kinds /\ \A m \in Messages : InvAt(m)
  BY DEF IInv, InvAt, CountAt, SweepMark, Kinds
<1>1. CASE ack' = [ack EXCEPT ![n] = "timeout"] /\ Pending(n) /\ Owe(n, "timeout") /\ UNCHANGED faults
  <2>1. /\ owed' \in [Messages -> [Kinds -> 0..1]]
        /\ issued' \in [Messages -> [Kinds -> 0..1]]
        /\ \A j \in Kinds : issued'[n][j] = IF j = "timeout" THEN 1 ELSE 0
        /\ Sum(issued'[n]) = 1
        /\ \A j \in Kinds : owed'[n][j] + told'[n][j] <= issued'[n][j]
        /\ \A m \in Messages : m # n => owed'[m] = owed[m] /\ issued'[m] = issued[m]
    BY <1>0, <1>1, OweIssuesOne DEF IInv, InvAt, Pending, SweepMark
  <2>2. ack' \in [Messages -> {"none", "pending"} \cup Final]
    BY <1>1 DEF IInv, TypeOK, Final
  <2>3. TypeOK'
    BY <1>1, <2>1, <2>2 DEF IInv, TypeOK, SweepMark
  <2>4. InvAt(n)'
    BY <1>0, <1>1, <2>1 DEF IInv, TypeOK, SweepMark, InvAt, StartAt, CountAt, ReceiptAt, HonestAt, ProofAt,
                            Pending, Exists, Final, Kinds
  <2>5. ASSUME NEW m \in Messages, m # n PROVE InvAt(m)'
    BY <1>0, <1>1, <2>1, <2>5 DEF IInv, TypeOK, SweepMark, InvAt, StartAt, CountAt, ReceiptAt, HonestAt,
                                  ProofAt, Pending, Exists, Sum
  <2> QED BY <2>3, <2>4, <2>5 DEF IInv
<1>2. CASE UNCHANGED <<ack, owed, issued>> /\ (Fault \/ UNCHANGED faults)
  <2>1. TypeOK'
    BY <1>2, FaultsTyped DEF IInv, TypeOK, SweepMark
  <2>2. ASSUME NEW m \in Messages PROVE InvAt(m)'
    BY <1>0, <1>2, <2>2 DEF SweepMark, InvAt, StartAt, CountAt, ReceiptAt, HonestAt, ProofAt, Pending,
                            Exists, Sum
  <2> QED BY <2>1, <2>2 DEF IInv
<1> QED BY <1>1, <1>2 DEF SweepMark

LEMMA EmitInv ==
    ASSUME AckAssumption, IInv, NEW n \in Messages, NEW k \in Kinds, Emit(n, k)
    PROVE  IInv'
<1>0. InvAt(n) /\ \A j \in Kinds : owed[n][j] \in 0..1 /\ told[n][j] \in 0..1 /\ issued[n][j] \in 0..1
  BY DEF IInv, TypeOK
<1>1. /\ owed[n][k] = 1 /\ told[n][k] = 0
      /\ owed' = [owed EXCEPT ![n] = [owed[n] EXCEPT ![k] = 0]]
      /\ \/ told' = [told EXCEPT ![n] = [told[n] EXCEPT ![k] = 1]]
         \/ told' = told
  <2>1. owed[n][k] = 1 /\ told[n][k] = 0 /\ owed[n][k] - 1 = 0 /\ told[n][k] + 1 = 1
    BY <1>0 DEF Emit, InvAt, ReceiptAt
  <2>2. /\ owed' = [owed EXCEPT ![n] = [owed[n] EXCEPT ![k] = owed[n][k] - 1]]
        /\ \/ told' = [told EXCEPT ![n] = [told[n] EXCEPT ![k] = told[n][k] + 1]]
           \/ told' = told
    BY DEF Emit, IInv, TypeOK
  <2> QED BY <2>1, <2>2
<1>2. /\ owed' \in [Messages -> [Kinds -> 0..1]] /\ told' \in [Messages -> [Kinds -> 0..1]]
      /\ \A j \in Kinds : owed'[n][j] + told'[n][j] <= issued[n][j]
      /\ \A m \in Messages : m # n => owed'[m] = owed[m] /\ told'[m] = told[m]
  <2>1. owed' \in [Messages -> [Kinds -> 0..1]] /\ told' \in [Messages -> [Kinds -> 0..1]]
    <3>1. [owed[n] EXCEPT ![k] = 0] \in [Kinds -> 0..1] /\ [told[n] EXCEPT ![k] = 1] \in [Kinds -> 0..1]
      BY DEF IInv, TypeOK
    <3>2. owed' \in [Messages -> [Kinds -> 0..1]]
      BY <1>1, <3>1 DEF IInv, TypeOK
    <3>3. CASE told' = told
      BY <3>2, <3>3 DEF IInv, TypeOK
    <3>4. CASE told' = [told EXCEPT ![n] = [told[n] EXCEPT ![k] = 1]]
      BY <3>1, <3>2, <3>4 DEF IInv, TypeOK
    <3> QED BY <1>1, <3>3, <3>4
  <2>2. \A j \in Kinds : owed'[n][j] + told'[n][j] <= owed[n][j] + told[n][j]
    BY <1>0, <1>1 DEF IInv, TypeOK
  <2>3. \A m \in Messages : m # n => owed'[m] = owed[m] /\ told'[m] = told[m]
    BY <1>1 DEF IInv, TypeOK
  <2>4. \A j \in Kinds : owed'[n][j] + told'[n][j] <= issued[n][j]
    <3>1. \A j \in Kinds : owed[n][j] + told[n][j] <= issued[n][j]
      BY <1>0 DEF InvAt, ReceiptAt
    <3>2. \A j \in Kinds : owed'[n][j] \in 0..1 /\ told'[n][j] \in 0..1
      BY <2>1
    <3> QED BY <1>0, <2>2, <3>1, <3>2
  <2> QED BY <2>1, <2>3, <2>4
<1>3. TypeOK'
  <2>1. faults' \in 0..MaxFaults
    BY FaultsTyped DEF Emit, IInv
  <2> QED BY <1>2, <2>1 DEF IInv, TypeOK, Emit, record, history
<1>4. ASSUME NEW m \in Messages PROVE InvAt(m)'
  BY <1>2, <1>4 DEF IInv, Emit, record, bounds, history, InvAt, StartAt, CountAt, ReceiptAt, HonestAt,
                    ProofAt, Pending, Exists, Sum
<1> QED BY <1>3, <1>4 DEF IInv

LEMMA ElapseInv ==
    ASSUME IInv, NEW n \in Messages, Elapse(n)
    PROVE  IInv'
<1>1. TypeOK'
  BY DEF IInv, TypeOK, Elapse, bounds, history
<1>2. ASSUME NEW m \in Messages PROVE InvAt(m)'
  BY <1>2 DEF IInv, TypeOK, Elapse, bounds, history, InvAt, StartAt, CountAt, ReceiptAt, HonestAt, ProofAt,
              Pending, Exists, Sum
<1> QED BY <1>1, <1>2 DEF IInv

LEMMA CrashInv ==
    ASSUME AckAssumption, IInv, Crash
    PROVE  IInv'
<1>1. TypeOK'
  BY DEF IInv, TypeOK, Crash, record, history, NoReceipts, Kinds, AckAssumption
<1>2. ASSUME NEW m \in Messages PROVE InvAt(m)'
  <2>1. InvAt(m) /\ told[m] \in [Kinds -> 0..1] /\ issued[m] \in [Kinds -> 0..1]
        /\ owed[m] \in [Kinds -> 0..1]
    BY <1>2 DEF IInv, TypeOK
  <2>2. \A k \in Kinds : owed'[m][k] + told'[m][k] <= issued'[m][k]
    <3>1. \A k \in Kinds : owed'[m][k] = 0 /\ told'[m][k] = told[m][k] /\ issued'[m][k] = issued[m][k]
      BY <1>2 DEF Crash, NoReceipts, history
    <3> QED BY <2>1, <3>1 DEF InvAt, ReceiptAt
  <2> QED
    BY <1>2, <2>1, <2>2 DEF Crash, record, history, InvAt, StartAt, CountAt, ReceiptAt, HonestAt, ProofAt,
                                  Pending, Exists, Sum
<1> QED BY <1>1, <1>2 DEF IInv

------------------------------------------------------------------------------
(* The theorems *)

LEMMA NextInv == ASSUME AckAssumption, IInv, [Next]_vars PROVE IInv'
  BY StutterInv, EnqueueInv, RegisterInv, RegisterOrphanInv, HandOverInv, RowMovesInv,
     CallbackInv, EmitInv, SweepMarkInv, ElapseInv, SweepFindInv, ClearInv, CrashInv
     DEF Next

LEMMA AckInv == Spec => []IInv
  BY AckAssumption, InitInv, NextInv, PTL DEF Spec

\* Every variable keeps its type; in particular no receipt is owed or sent
\* twice, for any number of messages, crashes and failed statements.
THEOREM AckTypeCorrect == Spec => []TypeOK
  BY AckInv, PTL DEF IInv

\* A record that left 'pending' owed its origin exactly one receipt, whoever
\* competed for it (mark_acked, mark_timeout).
THEOREM AckOneReceipt == Spec => []OneReceipt
<1>1. IInv => OneReceipt
  BY DEF IInv, InvAt, ReceiptAt, OneReceipt
<1> QED BY <1>1, AckInv, PTL

\* Receipts say what the callbacks and the clock said.
THEOREM AckHonestReceipt == Spec => []HonestReceipt
<1>1. IInv => HonestReceipt
  BY DEF IInv, InvAt, HonestAt, HonestReceipt
<1> QED BY <1>1, AckInv, PTL

\* A broadcast whose proof was heard and recorded is not timed out: the orphan
\* row is registered before the first copy leaves.
THEOREM AckProofBeatsTimeout == Spec => ProofBeatsTimeout
<1>1. ASSUME AckAssumption, IInv, [Next]_vars, NEW m \in Broadcasts,
             ack[m] = "pending", ack'[m] = "timeout"
      PROVE  "delivered" \notin heard[m] \/ m \in missed
  <2>1. m \in Messages /\ InvAt(m)
    BY <1>1 DEF Messages, IInv
  <2>2. ~UNCHANGED ack
    BY <1>1
  <2>3. \E n \in Messages : SweepMark(n) \/ Register(n) \/ RegisterOrphan(n)
                            \/ \E k \in {"delivered", "failed"} : Callback(n, k)
    BY <1>1, <2>2 DEF Next, vars, record, Enqueue, HandOver, RowMoves, Elapse, Emit, SweepFind, Clear, Crash
  <2>4. SweepMark(m) /\ Pending(m)
    BY <1>1, <2>1, <2>3 DEF SweepMark, Register, RegisterOrphan, Callback, MarkAcked, IInv, TypeOK
  <2> QED BY <1>1, <2>1, <2>4 DEF InvAt, ProofAt
<1>2. AckAssumption /\ IInv /\ [Next]_vars
      => (\A m \in Broadcasts : ack[m] = "pending" /\ ack'[m] = "timeout"
            => "delivered" \notin heard[m] \/ m \in missed)
  BY <1>1
<1> QED BY <1>2, AckAssumption, AckInv, PTL DEF Spec, ProofBeatsTimeout
=============================================================================
