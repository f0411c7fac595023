------------------------ MODULE M2RAccountingProofs ------------------------
(***************************************************************************)
(* Proofs about M2RAccounting.  Works reduces the actions of the module to *)
(* what the invariants read; from there two inductive invariants are built *)
(* on each other.                                                          *)
(*                                                                         *)
(* Sums: the outcomes of a message, the threads that still bear one and    *)
(* the entries that still owe one add up to its attempts.  It needs to     *)
(* know who counts what: which rows belong to which origin, that a thread  *)
(* queues the rows of an origin alone, that an entry expects more reports  *)
(* than it heard.                                                          *)
(*                                                                         *)
(* Clears: for a message none of whose rows was left in progress or        *)
(* stepped on behind its sender, the whole of its life is with one thread, *)
(* one entry or one row at a time, so that it is attempted once and the    *)
(* outcome is what happened.                                               *)
(***************************************************************************)
EXTENDS M2RAccounting, FiniteSetTheorems, WellFoundedInduction, TLAPS

\* What a step of the contract may be.
LEMMA StepShape ==
    ASSUME NEW a, NEW to, NEW q, <<a, to, q>> \in Queue!Steps
    PROVE  /\ a \in Queue!States /\ to \in Queue!States \ {"none"}
           /\ q \in {"quiet", "delivered", "dropped"}
           /\ q = "delivered" => a \in {"waiting", "taken", "dead"} /\ to = "done"
           /\ q = "dropped" => a # "none" /\ to \in {"dead", "gone"}
           /\ to = "taken" => a = "waiting"
           /\ to = "waiting" => q = "quiet"
  BY DEF Queue!Steps, Queue!States, Queue!Accepts, Queue!Takes, Queue!PutsBack, Queue!Delivers,
         Queue!Drops, Queue!ShedsLate, Queue!Revives, Queue!Purges

\* A report that reaches the entry of origin o.
Reported(o, q) ==
    LET e    == entry[o]
        d    == e.dropped + (IF q = "dropped" THEN 1 ELSE 0)
        got  == q = "delivered" /\ ~e.resolved
        lost == q = "dropped" /\ ~e.resolved /\ d >= e.legs
        over == e.terminals + 1 >= e.legs
    IN  /\ o \in tracked
        /\ UNCHANGED att
        /\ dlv' = IF got THEN Plus(dlv, e.msg) ELSE dlv
        /\ drp' = IF lost THEN Plus(drp, e.msg) ELSE drp
        /\ tracked' = IF over THEN tracked \ {o} ELSE tracked
        /\ \A p \in Origins \ {o} : entry'[p] = entry[p]
        /\ ~over => /\ entry'[o].msg = e.msg /\ entry'[o].legs = e.legs
                    /\ entry'[o].dropped = d /\ entry'[o].terminals = e.terminals + 1
                    /\ entry'[o].resolved <=> (e.resolved \/ got \/ lost)

\* The map of pending origins is indexed by origins that were minted.
LEMMA TrackedOrigins == TypeOK => tracked \subseteq Origins /\ NoOrigin \notin tracked
  BY M2RAssumption DEF TypeOK, Origins, NoOrigin

\* What _m2r_advance makes of an entry: dropped once every leg is, gone once every
\* leg has reported.
LEMMA AdvanceFacts ==
    ASSUME TypeOK, NEW o \in tracked, NEW f \in Entries, Advance(o, f)
    PROVE  LET lost == ~f.resolved /\ f.dropped >= f.legs
               over == f.terminals >= f.legs
           IN  /\ drp' = IF lost THEN Plus(drp, f.msg) ELSE drp
               /\ tracked' = IF over THEN tracked \ {o} ELSE tracked
               /\ \A p \in Origins \ {o} : entry'[p] = entry[p]
               /\ ~over => /\ entry'[o].msg = f.msg /\ entry'[o].legs = f.legs
                           /\ entry'[o].dropped = f.dropped /\ entry'[o].terminals = f.terminals
                           /\ entry'[o].resolved <=> (f.resolved \/ lost)
  <1> DEFINE lost == ~f.resolved /\ f.dropped >= f.legs
             over == f.terminals >= f.legs
             g == [f EXCEPT !.resolved = @ \/ lost]
  <1>1. /\ drp' = IF lost THEN Plus(drp, f.msg) ELSE drp
        /\ tracked' = IF over THEN tracked \ {o} ELSE tracked
        /\ entry' = [entry EXCEPT ![o] = IF over THEN Blank ELSE g]
    BY DEF Advance
  <1>2. entry \in [Origins -> Entries] /\ o \in Origins
    BY TrackedOrigins DEF TypeOK
  <1>3. /\ g.msg = f.msg /\ g.legs = f.legs /\ g.dropped = f.dropped /\ g.terminals = f.terminals
        /\ g.resolved <=> (f.resolved \/ lost)
    BY DEF Entries
  <1>4. \A p \in Origins \ {o} : entry'[p] = entry[p]
    BY <1>1, <1>2
  <1>5. ~over => entry'[o] = g
    BY <1>1, <1>2
  <1> HIDE DEF g
  <1> QED
    BY <1>1, <1>3, <1>4, <1>5

\* The three ways a report is added to an entry.
LEMMA OneMore ==
    ASSUME NEW e \in Entries
    PROVE  /\ LET f == [[e EXCEPT !.terminals = @ + 1] EXCEPT !.resolved = TRUE]
              IN  /\ f \in Entries /\ f.msg = e.msg /\ f.legs = e.legs /\ f.dropped = e.dropped
                  /\ f.terminals = e.terminals + 1 /\ f.resolved
           /\ LET f == [[e EXCEPT !.terminals = @ + 1] EXCEPT !.dropped = @ + 1]
              IN  /\ f \in Entries /\ f.msg = e.msg /\ f.legs = e.legs /\ f.dropped = e.dropped + 1
                  /\ f.terminals = e.terminals + 1 /\ (f.resolved <=> e.resolved)
           /\ LET f == [e EXCEPT !.terminals = @ + 1, !.dropped = @ + 1]
              IN  /\ f \in Entries /\ f.msg = e.msg /\ f.legs = e.legs /\ f.dropped = e.dropped + 1
                  /\ f.terminals = e.terminals + 1 /\ (f.resolved <=> e.resolved)
  <1> DEFINE f == [e EXCEPT !.terminals = @ + 1]
             g == [f EXCEPT !.resolved = TRUE]
             h == [f EXCEPT !.dropped = @ + 1]
             k == [e EXCEPT !.terminals = @ + 1, !.dropped = @ + 1]
  <1>1. /\ f \in Entries /\ f.msg = e.msg /\ f.legs = e.legs /\ f.dropped = e.dropped
        /\ f.terminals = e.terminals + 1 /\ f.resolved = e.resolved
    BY DEF Entries
  <1>2. k = h
    BY DEF Entries
  <1> HIDE DEF f
  <1>3. /\ g \in Entries /\ g.msg = f.msg /\ g.legs = f.legs /\ g.dropped = f.dropped
        /\ g.terminals = f.terminals /\ g.resolved
    BY <1>1 DEF Entries
  <1>4. /\ h \in Entries /\ h.msg = f.msg /\ h.legs = f.legs /\ h.dropped = f.dropped + 1
        /\ h.terminals = f.terminals /\ h.resolved = f.resolved
    BY <1>1 DEF Entries
  <1> QED
    BY <1>1, <1>2, <1>3, <1>4 DEF f

\* What the hook does with a report, whichever kind of row it is about.
LEMMA HearCases ==
    ASSUME TypeOK, NEW r \in RowIds, NEW q \in {"quiet", "delivered", "dropped"}, Hear(r, q)
    PROVE  \/ /\ q = "quiet" \/ info[r].origin \notin tracked \/ (q = "delivered" /\ ~info[r].leg)
              /\ UNCHANGED accounting
           \/ /\ q = "dropped" /\ ~info[r].leg /\ info[r].origin = NoOrigin
              /\ att' = Plus(att, info[r].msg) /\ drp' = Plus(drp, info[r].msg)
              /\ UNCHANGED <<dlv, tracked, entry>>
           \/ /\ q # "quiet" /\ (q = "delivered" => info[r].leg)
              /\ Reported(info[r].origin, q)
  <1> DEFINE o == info[r].origin
             e == entry[o]
             f == [e EXCEPT !.terminals = @ + 1]
  <1>1. CASE q = "quiet"
    BY <1>1 DEF Hear
  <1>2. CASE q # "quiet" /\ o \notin tracked /\ ~(q = "dropped" /\ ~info[r].leg /\ o = NoOrigin)
    <2>1. UNCHANGED accounting
      BY <1>2, TrackedOrigins DEF Hear, HearLeg, HearWhole
    <2> QED
      BY <2>1, <1>2
  <1>3. CASE q = "dropped" /\ ~info[r].leg /\ o = NoOrigin
    BY <1>3, TrackedOrigins DEF Hear, HearWhole
  <1>4. CASE q = "delivered" /\ ~info[r].leg
    BY <1>4 DEF Hear, HearWhole
  <1>5. CASE q = "delivered" /\ info[r].leg /\ o \in tracked
    <2> DEFINE g == [f EXCEPT !.resolved = TRUE]
    <2>1. e \in Entries
      BY <1>5, TrackedOrigins DEF TypeOK
    <2>2. /\ dlv' = IF f.resolved THEN dlv ELSE Plus(dlv, f.msg)
          /\ Advance(o, g)
          /\ UNCHANGED att
      BY <1>5 DEF Hear, HearLeg
    <2>3. /\ g \in Entries /\ g.msg = e.msg /\ g.legs = e.legs /\ g.dropped = e.dropped
          /\ g.terminals = e.terminals + 1 /\ g.resolved
      BY <2>1, OneMore
    <2>4. f.msg = e.msg /\ (f.resolved <=> e.resolved)
      BY <2>1 DEF Entries
    <2>5. dlv' = IF e.resolved THEN dlv ELSE Plus(dlv, e.msg)
      BY <2>2, <2>4
    <2> HIDE DEF g, f
    <2>6. Reported(o, q)
      BY <1>5, <2>2, <2>3, <2>5, <2>1, AdvanceFacts DEF Reported, Entries
    <2> QED
      BY <2>6, <1>5
  <1>6. CASE q = "dropped" /\ o \in tracked
    <2>1. e \in Entries /\ o # NoOrigin
      BY <1>6, TrackedOrigins DEF TypeOK
    <2>2. \E g \in Entries :
             /\ Advance(o, g)
             /\ g.msg = e.msg /\ g.legs = e.legs /\ g.dropped = e.dropped + 1
             /\ g.terminals = e.terminals + 1 /\ (g.resolved <=> e.resolved)
      <3>1. CASE info[r].leg
        <4> DEFINE g == [f EXCEPT !.dropped = @ + 1]
        <4>1. Advance(o, g)
          BY <1>6, <3>1 DEF Hear, HearLeg
        <4> QED
          BY <4>1, <2>1, OneMore
      <3>2. CASE ~info[r].leg
        <4> DEFINE g == [e EXCEPT !.terminals = @ + 1, !.dropped = @ + 1]
        <4>1. Advance(o, g)
          BY <1>6, <3>2, <2>1 DEF Hear, HearWhole
        <4> QED
          BY <4>1, <2>1, OneMore
      <3> QED
        BY <3>1, <3>2
    <2>3. UNCHANGED <<att, dlv>>
      BY <1>6, <2>1 DEF Hear, HearLeg, HearWhole
    <2> HIDE DEF f
    <2>4. Reported(o, q)
      BY <1>6, <2>2, <2>3, <2>1, AdvanceFacts DEF Reported, Entries
    <2> QED
      BY <2>4, <1>6
  <1> QED
    BY <1>1, <1>2, <1>3, <1>4, <1>5, <1>6

------------------------------------------------------------------------------
(* New origins, new rows *)

\* The oldest pending origin exists: it is the one the cap evicts.
LEMMA Smallest ==
    ASSUME NEW S, S \subseteq Nat, S # {}
    PROVE  \E x \in S : \A y \in S : x <= y
  <1>1. PICK x \in S : \A y \in S : ~ (<<y, x>> \in OpToRel(<, Nat))
    BY NatLessThanWellFounded, WFMin
  <1>2. \A y \in S : ~ (y < x)
    BY <1>1 DEF OpToRel
  <1> QED
    BY <1>2

LEMMA BlankTyped == Blank \in Entries /\ Blank.msg \in Msgs
  BY M2RAssumption DEF Blank, Entries

\* The entry of an origin that nobody has reported on.
IsNew(e, m, n) == e.msg = m /\ e.legs = n /\ e.dropped = 0 /\ e.terminals = 0 /\ ~e.resolved

\* The new origin is tracked; at most one other entry goes.
LEMMA TrackFacts ==
    ASSUME TypeOK, NEW m \in Msgs, NEW n \in Nat \ {0}, Track(m, n)
    PROVE  \E out \in SUBSET tracked :
              /\ out = {} \/ \E x \in tracked : out = {x}
              /\ minted' = minted + 1 /\ minted + 1 \in Origins
              /\ tracked' = (tracked \ out) \cup {minted + 1}
              /\ entry' \in [Origins -> Entries]
              /\ IsNew(entry'[minted + 1], m, n)
              /\ \A p \in tracked \ out : entry'[p] = entry[p]
              /\ evicted' = evicted \cup {entry[x].msg : x \in {y \in out : ~entry[y].resolved}}
              /\ UNCHANGED counters
  <1> DEFINE o == minted + 1
             all == tracked \cup {o}
             oldest == CHOOSE x \in all : \A y \in all : x <= y
             out == IF Cardinality(all) > PendingCap THEN {oldest} ELSE {}
  <1>1. /\ minted \in 0..MaxOrigins /\ tracked \subseteq 1..minted
        /\ minted < MaxOrigins /\ o \in Origins /\ o \notin tracked
    <2>1. minted \in 0..MaxOrigins /\ tracked \subseteq 1..minted
      BY DEF TypeOK
    <2>2. minted < MaxOrigins
      BY DEF Track
    <2> QED
      BY <2>1, <2>2, M2RAssumption DEF Origins
  <1>2. oldest \in all /\ \A y \in all : oldest <= y
    <2>1. all \subseteq Nat /\ all # {}
      BY <1>1, M2RAssumption
    <2> QED
      BY <2>1, Smallest
  <1>3. Cardinality(all) > PendingCap => oldest \in tracked
    <2>1. CASE tracked = {}
      <3>1. all = {o}
        BY <2>1
      <3>2. Cardinality(all) = 1
        BY <3>1, FS_Singleton
      <3> QED
        BY <3>2, M2RAssumption
    <2>2. CASE tracked # {}
      <3>1. PICK p \in tracked : TRUE
        BY <2>2
      <3>2. oldest <= p /\ p <= minted
        BY <1>1, <1>2, <3>1
      <3> QED
        BY <3>2, <1>1, <1>2, M2RAssumption
    <2> QED
      BY <2>1, <2>2
  <1>4. out \in SUBSET tracked /\ (out = {} \/ \E x \in tracked : out = {x}) /\ o \notin out
    BY <1>3, <1>1
  <1>5. /\ minted' = o /\ tracked' = all \ out /\ UNCHANGED counters
        /\ entry' = [x \in Origins |-> IF x \in out THEN Blank
                                       ELSE IF x = o THEN [Blank EXCEPT !.msg = m, !.legs = n]
                                       ELSE entry[x]]
        /\ evicted' = evicted \cup {entry[x].msg : x \in {y \in out : ~entry[y].resolved}}
    BY DEF Track
  <1> HIDE DEF out
  <1> DEFINE b == [Blank EXCEPT !.msg = m, !.legs = n]
  <1>6. b \in Entries /\ IsNew(b, m, n)
    <2>1. Blank \in Entries /\ Blank.dropped = 0 /\ Blank.terminals = 0 /\ ~Blank.resolved
      BY BlankTyped DEF Blank
    <2> QED
      BY <2>1 DEF IsNew, Entries
  <1> HIDE DEF b
  <1>8. tracked \subseteq Origins /\ entry \in [Origins -> Entries]
    BY TrackedOrigins DEF TypeOK
  <1>9. /\ entry' = [x \in Origins |-> IF x \in out THEN Blank ELSE IF x = o THEN b ELSE entry[x]]
        /\ \A x \in Origins : entry[x] \in Entries
    BY <1>5, <1>8 DEF b
  <1>12. entry' \in [Origins -> Entries] /\ IsNew(entry'[o], m, n)
    BY <1>4, <1>6, <1>9, <1>1, BlankTyped
  <1>10. \A p \in tracked \ out : entry'[p] = entry[p]
    BY <1>1, <1>4, <1>5, <1>8
  <1>11. tracked' = (tracked \ out) \cup {o}
    BY <1>4, <1>5
  <1> QED
    BY <1>1, <1>4, <1>5, <1>12, <1>10, <1>11

\* A row that was inserted.
Born(r) == rows[r] # "none"

\* A row is written once.
LEMMA PersistFacts ==
    ASSUME TypeOK, NEW leg \in BOOLEAN, NEW m \in Msgs, NEW o \in Origins \cup {NoOrigin},
           Persist(leg, m, o)
    PROVE  \E r \in RowIds :
              /\ ~Born(r) /\ rows' = [rows EXCEPT ![r] = "waiting"]
              /\ info' = [info EXCEPT ![r] = [leg |-> leg, msg |-> m, origin |-> o]]
  BY DEF Persist, Queue!Accepts, Born

------------------------------------------------------------------------------
(* Types *)

\* The type invariant by sort.  Each action is shown to keep one sort at a time.
TableOK ==
    /\ rows \in [RowIds -> Queue!States]
    /\ info \in [RowIds -> [leg : BOOLEAN, msg : Msgs, origin : Origins \cup {NoOrigin}]]
PendingOK ==
    /\ minted \in 0..MaxOrigins /\ tracked \subseteq 1..minted
    /\ entry \in [Origins -> Entries]
CountersOK == att \in [Msgs -> Nat] /\ dlv \in [Msgs -> Nat] /\ drp \in [Msgs -> Nat]
ThreadOK == pc \in [Threads -> Places] /\ job \in [Threads -> Jobs]
RestOK ==
    /\ kind \in [Msgs -> Kinds] /\ inbox \subseteq Msgs
    /\ faults \in Nat /\ late \in Nat /\ crashes \in Nat
    /\ wire \subseteq Msgs /\ evicted \subseteq Msgs /\ blurred \subseteq Msgs

LEMMA Sorts == TypeOK <=> TableOK /\ PendingOK /\ CountersOK /\ ThreadOK /\ RestOK
  BY DEF TypeOK, TableOK, PendingOK, CountersOK, ThreadOK, RestOK
LEMMA SortsNext == TypeOK' <=> TableOK' /\ PendingOK' /\ CountersOK' /\ ThreadOK' /\ RestOK'
  BY DEF TypeOK, TableOK, PendingOK, CountersOK, ThreadOK, RestOK

\* A thread with a row from the queue in hand.
AtRow == {"leg", "replay", "sent", "unsent"}
RowInHand == \A t \in Threads : pc[t] \in AtRow => job[t].row \in RowIds

\* The initial values are typed.
LEMMA IdleTyped == Idle \in Jobs /\ Unused \in [leg : BOOLEAN, msg : Msgs, origin : Origins \cup {NoOrigin}]
  <1> DEFINE m == Blank.msg
  <1>1. m \in Msgs
    BY BlankTyped
  <1> HIDE DEF m
  <1>2. [row |-> NoRow, msg |-> m, todo |-> 0, sent |-> 0, failed |-> 0,
         origin |-> NoOrigin, stored |-> 0] \in Jobs
    BY <1>1 DEF Jobs
  <1>3. [leg |-> TRUE, msg |-> m, origin |-> NoOrigin] \in [leg : BOOLEAN, msg : Msgs, origin : Origins \cup {NoOrigin}]
    BY <1>1
  <1> QED
    BY <1>2, <1>3 DEF Idle, Unused, m

\* The operators keep the sorts they write.
LEMMA PlusTyped ==
    ASSUME NEW f \in [Msgs -> Nat], NEW m \in Msgs
    PROVE  Plus(f, m) \in [Msgs -> Nat]
  BY DEF Plus

LEMMA BlankOut ==
    ASSUME PendingOK, NEW o
    PROVE  [entry EXCEPT ![o] = Blank] \in [Origins -> Entries] /\ tracked \ {o} \subseteq 1..minted
  BY BlankTyped DEF PendingOK

LEMMA AdvanceTyped ==
    ASSUME PendingOK, CountersOK, NEW o, NEW f \in Entries, Advance(o, f)
    PROVE  /\ drp' \in [Msgs -> Nat] /\ tracked' \subseteq 1..minted
           /\ entry' \in [Origins -> Entries]
  <1> DEFINE lost == ~f.resolved /\ f.dropped >= f.legs
             g == [f EXCEPT !.resolved = @ \/ lost]
  <1>1. g \in Entries
    BY DEF Entries
  <1>2. /\ drp' = IF lost THEN Plus(drp, f.msg) ELSE drp
        /\ \/ tracked' = tracked
           \/ tracked' = tracked \ {o}
        /\ \/ entry' = [entry EXCEPT ![o] = Blank]
           \/ entry' = [entry EXCEPT ![o] = g]
    BY DEF Advance
  <1> HIDE DEF g
  <1>3. f.msg \in Msgs
    BY DEF Entries
  <1> QED
    BY <1>1, <1>2, <1>3, BlankTyped, PlusTyped DEF PendingOK, CountersOK

LEMMA HearTyped ==
    ASSUME TypeOK, NEW r \in RowIds, NEW q \in {"quiet", "delivered", "dropped"}, Hear(r, q), UNCHANGED minted
    PROVE  PendingOK' /\ CountersOK'
  <1> USE Sorts DEF PendingOK, CountersOK
  <1> DEFINE o == info[r].origin
             e == entry[o]
             f == [e EXCEPT !.terminals = @ + 1]
  <1>1. CASE UNCHANGED accounting
    BY <1>1 DEF accounting
  <1>2. CASE att' = Plus(att, info[r].msg) /\ drp' = Plus(drp, info[r].msg) /\ UNCHANGED <<dlv, tracked, entry>>
    BY <1>2, PlusTyped DEF TableOK
  <1>3. CASE o \in tracked /\ q = "delivered" /\ info[r].leg
    <2>1. e \in Entries
      BY <1>3, TrackedOrigins
    <2>2. Advance(o, [f EXCEPT !.resolved = TRUE]) /\ UNCHANGED att /\ dlv' \in {dlv, Plus(dlv, f.msg)}
      BY <1>3 DEF Hear, HearLeg
    <2>3. [f EXCEPT !.resolved = TRUE] \in Entries
      BY <2>1, OneMore
    <2>4. f.msg \in Msgs
      BY <2>1 DEF Entries
    <2> HIDE DEF f
    <2> QED
      BY <2>2, <2>3, <2>4, AdvanceTyped, PlusTyped
  <1>4. CASE o \in tracked /\ q = "dropped"
    <2>1. e \in Entries /\ o # NoOrigin
      BY <1>4, TrackedOrigins
    <2>2. CASE info[r].leg
      <3>1. Advance(o, [f EXCEPT !.dropped = @ + 1]) /\ UNCHANGED <<att, dlv>>
        BY <1>4, <2>2 DEF Hear, HearLeg
      <3>2. [f EXCEPT !.dropped = @ + 1] \in Entries
        BY <2>1, OneMore
      <3> QED
        BY <3>1, <3>2, AdvanceTyped
    <2>3. CASE ~info[r].leg
      <3> DEFINE g == [e EXCEPT !.terminals = @ + 1, !.dropped = @ + 1]
      <3>1. Advance(o, g) /\ UNCHANGED <<att, dlv>>
        BY <1>4, <2>1, <2>3 DEF Hear, HearWhole
      <3>2. g \in Entries
        BY <2>1, OneMore
      <3> HIDE DEF g
      <3> QED
        BY <3>1, <3>2, AdvanceTyped
    <2> QED
      BY <2>2, <2>3
  <1>5. CASE o \notin tracked /\ ~(q = "dropped" /\ ~info[r].leg /\ o = NoOrigin)
    BY <1>5, <1>1 DEF Hear, HearLeg, HearWhole
  <1>6. CASE q = "delivered" /\ ~info[r].leg
    BY <1>6, <1>1 DEF Hear, HearWhole
  <1>7. CASE q = "quiet"
    BY <1>7, <1>1 DEF Hear
  <1>8. CASE q = "dropped" /\ ~info[r].leg /\ o = NoOrigin
    <2>1. o \notin tracked
      BY <1>8, TrackedOrigins
    <2> QED
      BY <2>1, <1>8, <1>2 DEF Hear, HearWhole
  <1> QED
    BY <1>3, <1>4, <1>5, <1>6, <1>7, <1>8

LEMMA RowStepTyped ==
    ASSUME TypeOK, NEW r \in RowIds, NEW to, NEW q, RowStep(r, to, q)
    PROVE  TableOK' /\ PendingOK' /\ CountersOK' /\ evicted' = evicted
  <1>1. to \in Queue!States /\ q \in {"quiet", "delivered", "dropped"}
    BY StepShape DEF RowStep
  <1>2. Hear(r, q) /\ rows' = [rows EXCEPT ![r] = to] /\ UNCHANGED <<info, minted, evicted>>
    BY DEF RowStep
  <1>3. PendingOK' /\ CountersOK'
    BY <1>1, <1>2, HearTyped
  <1> QED
    BY <1>1, <1>2, <1>3, Sorts DEF TableOK

LEMMA PersistTyped ==
    ASSUME TypeOK, NEW leg \in BOOLEAN, NEW m \in Msgs, NEW o \in Origins \cup {NoOrigin}, Persist(leg, m, o)
    PROVE  TableOK'
  BY PersistFacts, Sorts DEF TableOK, Queue!States

LEMMA TrackTyped ==
    ASSUME TypeOK, NEW m \in Msgs, NEW n \in Nat \ {0}, Track(m, n)
    PROVE  PendingOK' /\ CountersOK' /\ evicted' \subseteq Msgs /\ minted' \in Origins
  <1> USE Sorts DEF PendingOK, CountersOK
  <1>1. PICK out \in SUBSET tracked :
              /\ minted' = minted + 1 /\ minted + 1 \in Origins
              /\ tracked' = (tracked \ out) \cup {minted + 1}
              /\ entry' \in [Origins -> Entries]
              /\ evicted' = evicted \cup {entry[x].msg : x \in {y \in out : ~entry[y].resolved}}
              /\ UNCHANGED counters
    BY TrackFacts
  <1>2. \A x \in out : entry[x].msg \in Msgs
    BY TrackedOrigins DEF Entries
  <1> QED
    BY <1>1, <1>2, M2RAssumption DEF counters, Origins, RestOK

LEMMA ThreadTyped ==
    ASSUME ThreadOK, NEW t \in Threads, NEW p \in Places, NEW j \in Jobs,
           pc' = [pc EXCEPT ![t] = p], job' = [job EXCEPT ![t] = j]
    PROVE  ThreadOK'
  BY DEF ThreadOK

LEMMA FinishTyped ==
    ASSUME ThreadOK, NEW t \in Threads, Finish(t)
    PROVE  ThreadOK'
  <1> DEFINE j == [Idle EXCEPT !.row = job[t].row, !.msg = job[t].msg]
  <1>1. job[t] \in Jobs
    BY DEF ThreadOK
  <1>2. j \in Jobs
    BY <1>1, IdleTyped DEF Jobs
  <1> HIDE DEF j
  <1>3. \/ pc' = [pc EXCEPT ![t] = "idle"] /\ job' = [job EXCEPT ![t] = Idle]
        \/ pc' = [pc EXCEPT ![t] = "sent"] /\ job' = [job EXCEPT ![t] = j]
    BY DEF Finish, j
  <1> QED
    BY <1>2, <1>3, IdleTyped, ThreadTyped DEF Places

LEMMA LeaveTyped ==
    ASSUME ThreadOK, NEW t \in Threads, Leave(t)
    PROVE  ThreadOK'
  BY IdleTyped, ThreadTyped DEF Leave, Goto, Places

\* The changes a step of t makes to its own job.
LEMMA JobEdits ==
    ASSUME NEW j \in Jobs
    PROVE  /\ \A n \in Nat : [j EXCEPT !.todo = n] \in Jobs
           /\ \A o \in Origins, n \in Nat : [j EXCEPT !.todo = n, !.origin = o] \in Jobs
           /\ j.todo > 0 => /\ [j EXCEPT !.todo = @ - 1] \in Jobs
                            /\ [j EXCEPT !.todo = @ - 1, !.sent = @ + 1] \in Jobs
                            /\ [j EXCEPT !.todo = @ - 1, !.failed = @ + 1] \in Jobs
                            /\ [j EXCEPT !.todo = @ - 1, !.stored = @ + 1] \in Jobs
           /\ j.failed > 0 => [j EXCEPT !.failed = @ - 1] \in Jobs
           /\ \A m \in Msgs : [j EXCEPT !.msg = m] \in Jobs
           /\ \A m \in Msgs, r \in RowIds : [j EXCEPT !.row = r, !.msg = m] \in Jobs
  <1>1. \A n \in Nat : [j EXCEPT !.todo = n] \in Jobs
    BY DEF Jobs
  <1>2. \A o \in Origins, n \in Nat : [j EXCEPT !.todo = n, !.origin = o] \in Jobs
    BY DEF Jobs
  <1>3. \A m \in Msgs : [j EXCEPT !.msg = m] \in Jobs
    BY DEF Jobs
  <1>4. \A m \in Msgs, r \in RowIds : [j EXCEPT !.row = r, !.msg = m] \in Jobs
    BY DEF Jobs
  <1>5. \A n \in Nat, k \in Nat : /\ [j EXCEPT !.todo = n, !.sent = k] \in Jobs
                                  /\ [j EXCEPT !.todo = n, !.failed = k] \in Jobs
                                  /\ [j EXCEPT !.todo = n, !.stored = k] \in Jobs
    BY DEF Jobs
  <1>6. \A n \in Nat : [j EXCEPT !.failed = n] \in Jobs
    BY DEF Jobs
  <1>7. /\ j.todo > 0 => j.todo - 1 \in Nat
        /\ j.failed > 0 => j.failed - 1 \in Nat
        /\ j.sent + 1 \in Nat /\ j.failed + 1 \in Nat /\ j.stored + 1 \in Nat
    BY DEF Jobs
  <1> QED
    BY <1>1, <1>2, <1>3, <1>4, <1>5, <1>6, <1>7

\* The type invariant, one case per action.
LEMMA TypeInit == Init => TypeOK
  <1> SUFFICES ASSUME Init PROVE TypeOK
    OBVIOUS
  <1>1. TableOK
    BY IdleTyped DEF Init, TableOK, Queue!States
  <1>2. PendingOK
    BY BlankTyped, M2RAssumption DEF Init, PendingOK
  <1>3. CountersOK /\ RestOK
    BY DEF Init, CountersOK, RestOK
  <1>4. ThreadOK
    BY IdleTyped DEF Init, ThreadOK, Places
  <1> QED
    BY <1>1, <1>2, <1>3, <1>4, Sorts

LEMMA TypeStep ==
    ASSUME TypeOK, RowInHand, [Next]_vars
    PROVE  TypeOK'
  <1> USE Sorts
  <1>1. ASSUME NEW m \in Msgs, RnsDown(m) PROVE TypeOK'
    <2>1. TableOK'
      BY <1>1, PersistTyped DEF RnsDown, TableOK, Origins
    <2>2. CountersOK'
      BY <1>1, PlusTyped DEF RnsDown, CountersOK, counters
    <2>3. PendingOK' /\ ThreadOK' /\ RestOK'
      BY <1>1 DEF RnsDown, pending, thread, rest, PendingOK, ThreadOK, RestOK
    <2> QED
      BY <2>1, <2>2, <2>3, SortsNext
  <1>2. ASSUME NEW m \in Msgs, Attempt(m) PROVE TypeOK'
    <2>1. ThreadOK'
      BY <1>2, IdleTyped, JobEdits, ThreadTyped, M2RAssumption DEF Attempt, Goto, Places
    <2>2. CountersOK'
      BY <1>2, PlusTyped DEF Attempt, CountersOK
    <2>3. TableOK' /\ PendingOK' /\ RestOK'
      BY <1>2 DEF Attempt, table, pending, rest, PendingOK, TableOK, RestOK
    <2> QED
      BY <2>1, <2>2, <2>3, SortsNext
  <1>3. ASSUME NEW t \in Threads, ThreadStep(t) PROVE TypeOK'
    <2> DEFINE j == job[t]
               m == job[t].msg
    <2>1. /\ j \in Jobs /\ m \in Msgs /\ j.failed \in Nat /\ j.todo \in Nat /\ j.stored \in Nat
          /\ kind[m] \in Kinds
      BY DEF ThreadOK, RestOK, Jobs
    <2>2. CASE Refuse(t) \/ DeliveredNow(t) \/ BroadcastLost(t)
      <3>1. ThreadOK'
        BY <2>2, FinishTyped DEF Refuse, DeliveredNow, BroadcastLost
      <3>2. CountersOK'
        BY <2>1, <2>2, PlusTyped DEF Refuse, DeliveredNow, BroadcastLost, CountersOK
      <3>3. TableOK' /\ PendingOK' /\ RestOK'
        BY <2>2 DEF Refuse, DeliveredNow, BroadcastLost, table, pending, rest, PendingOK, TableOK, RestOK
      <3> QED
        BY <3>1, <3>2, <3>3, SortsNext
    <2>3. CASE Resolve(t)
      <3>1. Destinations(m) \in Nat
        BY M2RAssumption DEF Destinations
      <3>2. [j EXCEPT !.todo = Destinations(m)] \in Jobs
        BY <2>1, <3>1, JobEdits
      <3>3. job' = [job EXCEPT ![t] = [j EXCEPT !.todo = Destinations(m)]]
        BY <2>3 DEF Resolve, ThreadOK
      <3> HIDE DEF j, m
      <3>4. ThreadOK'
        BY <2>3, <3>2, <3>3, ThreadTyped DEF Resolve, Goto, Places
      <3>5. TableOK' /\ PendingOK' /\ CountersOK' /\ RestOK'
        BY <2>3 DEF Resolve, table, pending, counters, rest, PendingOK, TableOK, RestOK, CountersOK
      <3> QED
        BY <3>4, <3>5, SortsNext
    <2>4. CASE SendDestination(t)
      <3>1. \E k \in Jobs : job' = [job EXCEPT ![t] = k]
        <4>1. CASE job' = [job EXCEPT ![t] = [j EXCEPT !.todo = @ - 1, !.sent = @ + 1]]
          <5>1. job' = [job EXCEPT ![t] = [j EXCEPT !.todo = @ - 1, !.sent = @ + 1]]
            BY <4>1, <2>1 DEF ThreadOK, Jobs
          <5> HIDE DEF j
          <5> QED
            BY <5>1, <2>1, <2>4, JobEdits DEF SendDestination, j
        <4>2. CASE job' = [job EXCEPT ![t] = [j EXCEPT !.todo = @ - 1, !.failed = @ + 1]]
          <5>1. job' = [job EXCEPT ![t] = [j EXCEPT !.todo = @ - 1, !.failed = @ + 1]]
            BY <4>2, <2>1 DEF ThreadOK, Jobs
          <5> HIDE DEF j
          <5> QED
            BY <5>1, <2>1, <2>4, JobEdits DEF SendDestination, j
        <4> QED
          BY <4>1, <4>2, <2>4 DEF SendDestination
      <3>2. ThreadOK'
        BY <2>4, <3>1 DEF SendDestination, ThreadOK
      <3>3. TableOK' /\ PendingOK' /\ CountersOK' /\ RestOK'
        BY <2>1, <2>4 DEF SendDestination, table, pending, counters, PendingOK, TableOK, RestOK, CountersOK
      <3> QED
        BY <3>2, <3>3, SortsNext
    <2>5. CASE RetryFailedLeg(t)
      <3>1. job' = [job EXCEPT ![t] = [j EXCEPT !.failed = @ - 1]]
        BY <2>5, <2>1 DEF RetryFailedLeg, ThreadOK, Jobs
      <3>2. [j EXCEPT !.failed = @ - 1] \in Jobs
        BY <2>1, <2>5, JobEdits DEF RetryFailedLeg
      <3> HIDE DEF j
      <3>3. ThreadOK'
        BY <2>5, <3>1, <3>2 DEF RetryFailedLeg, ThreadOK
      <3>4. TableOK'
        BY <2>1, <2>5, PersistTyped DEF RetryFailedLeg, TableOK, table
      <3>5. PendingOK' /\ CountersOK' /\ RestOK'
        BY <2>5 DEF RetryFailedLeg, pending, counters, rest, PendingOK, RestOK, CountersOK
      <3> QED
        BY <3>3, <3>4, <3>5, SortsNext
    <2>6. CASE TrackLegs(t)
      <3> DEFINE n == IF j.failed = 0 THEN 1 ELSE j.failed
      <3>1. Track(m, n) /\ n \in Nat \ {0}
        BY <2>6, <2>1 DEF TrackLegs
      <3>2. PendingOK' /\ CountersOK' /\ evicted' \subseteq Msgs /\ minted' \in Origins
        BY <3>1, <2>1, TrackTyped
      <3>3. job' = [job EXCEPT ![t] = [j EXCEPT !.todo = j.failed, !.origin = minted']]
        BY <2>6, <2>1 DEF TrackLegs, ThreadOK, Jobs
      <3>4. [j EXCEPT !.todo = j.failed, !.origin = minted'] \in Jobs
        BY <2>1, <3>2, JobEdits
      <3> HIDE DEF j
      <3>5. ThreadOK'
        BY <2>6, <3>3, <3>4, ThreadTyped DEF TrackLegs, Goto, Places
      <3>6. TableOK' /\ RestOK'
        BY <2>6, <3>2 DEF TrackLegs, table, rest, TableOK, RestOK
      <3> QED
        BY <3>2, <3>5, <3>6, SortsNext
    <2>7. CASE Raise(t)
      <3>1. CASE Finish(t) /\ UNCHANGED <<pending, att, evicted>>
                 /\ \/ dlv' = Plus(dlv, m) /\ UNCHANGED drp
                    \/ drp' = Plus(drp, m) /\ UNCHANGED dlv
        <4>1. ThreadOK' /\ CountersOK'
          BY <2>1, <3>1, FinishTyped, PlusTyped DEF CountersOK
        <4>2. TableOK' /\ PendingOK' /\ RestOK'
          BY <2>7, <3>1 DEF Raise, table, pending, rest, PendingOK, TableOK, RestOK
        <4> QED
          BY <4>1, <4>2, SortsNext
      <3>2. CASE Track(m, 1) /\ Goto(t, "whole")
                 /\ job' = [job EXCEPT ![t] = [job[t] EXCEPT !.todo = 1, !.origin = minted']]
        <4>2. PendingOK' /\ CountersOK' /\ evicted' \subseteq Msgs /\ minted' \in Origins
          BY <3>2, <2>1, TrackTyped
        <4>3. job' = [job EXCEPT ![t] = [j EXCEPT !.todo = 1, !.origin = minted']]
          BY <3>2, <2>1 DEF ThreadOK, Jobs
        <4>4. [j EXCEPT !.todo = 1, !.origin = minted'] \in Jobs
          BY <2>1, <4>2, JobEdits
        <4> HIDE DEF j
        <4>5. ThreadOK'
          BY <3>2, <4>3, <4>4, ThreadTyped DEF Goto, Places
        <4>6. TableOK' /\ RestOK'
          BY <2>7, <4>2 DEF Raise, table, rest, TableOK, RestOK
        <4> QED
          BY <4>2, <4>5, <4>6, SortsNext
      <3>3. CASE j.sent > 0
        <4>1. dlv' = Plus(dlv, m) /\ Finish(t) /\ UNCHANGED <<pending, att, drp, evicted>>
          BY <2>7, <3>3 DEF Raise
        <4> HIDE DEF m
        <4> QED
          BY <4>1, <3>1 DEF pending
      <3>4. CASE ~(j.sent > 0) /\ j.row # NoRow
        BY <2>7, <3>1, <3>4 DEF Raise
      <3>5. CASE ~(j.sent > 0) /\ j.row = NoRow
        <4>1. Track(m, 1) /\ Goto(t, "whole") /\ job' = [job EXCEPT ![t] = [job[t] EXCEPT !.todo = 1, !.origin = minted']]
          BY <2>7, <3>5 DEF Raise
        <4> QED
          BY <4>1, <3>2
      <3> QED
        BY <3>3, <3>4, <3>5
    <2>8. CASE Enqueue(t)
      <3>1. \E k \in Jobs : job' = [job EXCEPT ![t] = k]
        <4>1. CASE job' = [job EXCEPT ![t] = [j EXCEPT !.todo = @ - 1, !.stored = @ + 1]]
          <5>1. job' = [job EXCEPT ![t] = [j EXCEPT !.todo = @ - 1, !.stored = @ + 1]]
            BY <4>1, <2>1 DEF ThreadOK, Jobs
          <5> HIDE DEF j
          <5> QED
            BY <5>1, <2>1, <2>8, JobEdits DEF Enqueue, j
        <4>2. CASE job' = [job EXCEPT ![t].todo = @ - 1]
          <5>1. job' = [job EXCEPT ![t] = [j EXCEPT !.todo = @ - 1]]
            BY <4>2, <2>1 DEF ThreadOK, Jobs
          <5> HIDE DEF j
          <5> QED
            BY <5>1, <2>1, <2>8, JobEdits DEF Enqueue, j
        <4> QED
          BY <4>1, <4>2, <2>8 DEF Enqueue
      <3>2. ThreadOK'
        BY <2>8, <3>1 DEF Enqueue, ThreadOK
      <3>3. j.origin \in Origins \cup {NoOrigin}
        BY <2>1 DEF Jobs
      <3>4. TableOK'
        BY <2>1, <2>8, <3>3, PersistTyped DEF Enqueue, TableOK, table
      <3>5. PendingOK' /\ CountersOK' /\ RestOK'
        BY <2>8 DEF Enqueue, pending, counters, rest, PendingOK, RestOK, CountersOK
      <3> QED
        BY <3>2, <3>4, <3>5, SortsNext
    <2>9. CASE Settle(t)
      <3> DEFINE o == j.origin
      <3>1. ThreadOK'
        BY <2>9, FinishTyped DEF Settle
      <3>2. TableOK' /\ RestOK'
        BY <2>9 DEF Settle, table, rest, TableOK, RestOK
      <3>3. PendingOK' /\ CountersOK'
        <4>1. CASE j.stored = 0
          <5>1. /\ drp' = Plus(drp, m) /\ tracked' = tracked \ {o}
                /\ entry' = [entry EXCEPT ![o] = Blank] /\ UNCHANGED <<minted, att, dlv>>
            BY <4>1, <2>9 DEF Settle
          <5> HIDE DEF j, m, o
          <5>2. drp' \in [Msgs -> Nat]
            BY <5>1, <2>1, PlusTyped DEF CountersOK
          <5>3. PendingOK'
            BY <5>1, BlankOut DEF PendingOK
          <5> QED
            BY <5>1, <5>2, <5>3 DEF CountersOK
        <4>2. CASE j.stored # 0 /\ o \in tracked
          <5>1. [entry[o] EXCEPT !.legs = j.stored] \in Entries
            BY <4>2, <2>1, TrackedOrigins DEF PendingOK, Entries
          <5>2. Advance(o, [entry[o] EXCEPT !.legs = j.stored]) /\ UNCHANGED <<minted, att, dlv>>
            BY <4>2, <2>9 DEF Settle
          <5> QED
            BY <5>1, <5>2, AdvanceTyped DEF PendingOK, CountersOK
        <4>3. CASE j.stored # 0 /\ o \notin tracked
          BY <4>3, <2>9 DEF Settle, PendingOK, CountersOK
        <4> QED
          BY <4>1, <4>2, <4>3
      <3> QED
        BY <3>1, <3>2, <3>3, SortsNext
    <2>10. CASE SendLeg(t) \/ ReplayOffline(t)
      <3>1. ThreadOK'
        BY <2>10 DEF SendLeg, ReplayOffline, Goto, ThreadOK, Places
      <3>2. TableOK' /\ PendingOK' /\ CountersOK' /\ RestOK'
        BY <2>1, <2>10 DEF SendLeg, ReplayOffline, table, pending, counters, rest, PendingOK, TableOK, RestOK, CountersOK
      <3> QED
        BY <3>1, <3>2, SortsNext
    <2>11. CASE Replay(t)
      <3>1. ThreadOK'
        BY <2>11 DEF Replay, Goto, ThreadOK, Places
      <3>2. PendingOK'
        BY <2>1, <2>11, BlankOut DEF Replay, PendingOK
      <3>3. CountersOK'
        BY <2>1, <2>11, PlusTyped DEF Replay, CountersOK, counters
      <3>4. TableOK' /\ RestOK'
        BY <2>11 DEF Replay, table, rest, TableOK, RestOK
      <3> QED
        BY <3>1, <3>2, <3>3, <3>4, SortsNext
    <2>12. CASE MarkDelivered(t) \/ MarkUnsent(t) \/ Unrecorded(t)
      <3>1. ThreadOK'
        BY <2>12, LeaveTyped DEF MarkDelivered, MarkUnsent, Unrecorded
      <3>2. j.row \in RowIds
        BY <2>12 DEF MarkDelivered, MarkUnsent, Unrecorded, RowInHand, AtRow
      <3>3. \/ UNCHANGED <<table, pending, counters, evicted>>
            \/ \E to, q : RowStep(j.row, to, q)
        BY <2>12 DEF MarkDelivered, MarkUnsent, Unrecorded
      <3>4. TableOK' /\ PendingOK' /\ CountersOK' /\ evicted' = evicted
        BY <3>2, <3>3, RowStepTyped DEF table, pending, counters, PendingOK, TableOK, CountersOK
      <3>5. RestOK'
        BY <2>1, <2>12, <3>4 DEF MarkDelivered, MarkUnsent, Unrecorded, rest, RestOK
      <3> QED
        BY <3>1, <3>4, <3>5, SortsNext
    <2> QED
      BY <1>3, <2>2, <2>3, <2>4, <2>5, <2>6, <2>7, <2>8, <2>9, <2>10, <2>11, <2>12 DEF ThreadStep
  <1>4. ASSUME NEW t \in Threads, NEW r \in RowIds, Dispatch(t, r) PROVE TypeOK'
    <2>1. info[r].msg \in Msgs
      BY DEF TableOK
    <2>2. [Idle EXCEPT !.row = r, !.msg = info[r].msg] \in Jobs
      BY <2>1, IdleTyped, JobEdits
    <2>3. ThreadOK'
      BY <1>4, <2>2, ThreadTyped DEF Dispatch, Goto, Places
    <2>4. TableOK' /\ PendingOK' /\ CountersOK' /\ evicted' = evicted
      BY <1>4, RowStepTyped DEF Dispatch
    <2>5. RestOK'
      BY <1>4, <2>4 DEF Dispatch, rest, RestOK
    <2> QED
      BY <2>3, <2>4, <2>5, SortsNext
  <1>5. ASSUME NEW r \in RowIds, Lapse(r) \/ Stale(r) \/ SteppedOn(r) PROVE TypeOK'
    <2>1. \E to, q : RowStep(r, to, q)
      BY <1>5 DEF Lapse, Stale, SteppedOn
    <2>2. TableOK' /\ PendingOK' /\ CountersOK' /\ evicted' = evicted
      BY <2>1, RowStepTyped
    <2>3. ThreadOK'
      BY <1>5 DEF Lapse, Stale, SteppedOn, thread, ThreadOK
    <2>4. info[r].msg \in Msgs
      BY DEF TableOK
    <2>5. RestOK'
      BY <1>5, <2>2, <2>4 DEF Lapse, Stale, SteppedOn, rest, RestOK
    <2> QED
      BY <2>2, <2>3, <2>5, SortsNext
  <1>6. CASE Crash
    <2>1. TableOK'
      BY <1>6 DEF Crash, table, TableOK
    <2>2. PendingOK'
      BY <1>6, BlankTyped DEF Crash, PendingOK
    <2>3. CountersOK'
      BY <1>6 DEF Crash, CountersOK
    <2>4. ThreadOK'
      BY <1>6, IdleTyped DEF Crash, ThreadOK, Places
    <2>5. \A q \in RowIds : info[q].msg \in Msgs
      BY DEF TableOK
    <2>6. RestOK'
      BY <1>6, <2>5 DEF Crash, RestOK
    <2> QED
      BY <2>1, <2>2, <2>3, <2>4, <2>6, SortsNext
  <1>7. CASE UNCHANGED vars
    BY <1>7 DEF vars, TypeOK
  <1> QED
    BY <1>1, <1>2, <1>3, <1>4, <1>5, <1>6, <1>7 DEF Next

------------------------------------------------------------------------------
(* The steps, reduced to what the invariants read *)

\* A thread in _process_mesh_to_rns, and one that queues what it could not send.
Handling == {"routing", "sending", "legs", "whole"}
Queueing == {"legs", "whole"}

\* The parts of a step that concern its thread.
Others(t) == \A u \in Threads \ {t} : pc'[u] = pc[u] /\ job'[u] = job[u]
Kept(t)   == job'[t].row = job[t].row /\ job'[t].msg = job[t].msg
Loaded(t, row, m) == job'[t].row = row /\ job'[t].msg = m /\ job'[t].sent = 0 /\ job'[t].stored = 0
Finished(t) ==
    /\ Others(t)
    /\ pc'[t] = IF job[t].row = NoRow THEN "idle" ELSE "sent"
    /\ job'[t].row = job[t].row /\ job'[t].sent = 0 /\ job'[t].stored = 0
    /\ job[t].row # NoRow => job'[t].msg = job[t].msg

\* A new row.
Adds(r, leg, m, o) ==
    /\ ~Born(r) /\ rows'[r] = "waiting"
    /\ (info'[r].leg <=> leg) /\ info'[r].msg = m /\ info'[r].origin = o
    /\ \A q \in RowIds \ {r} : rows'[q] = rows[q] /\ info'[q] = info[q]

\* A step of a row, and what the accounting makes of it.
Shifts(r, to, q) ==
    /\ Born(r) /\ <<rows[r], to, q>> \in Queue!Steps
    /\ q = "delivered" => info[r].leg \/ info[r].origin \notin tracked
    /\ rows' = [rows EXCEPT ![r] = to] /\ UNCHANGED <<info, minted, evicted>>
    /\ \/ /\ q = "quiet" \/ info[r].origin \notin tracked
          /\ UNCHANGED <<tracked, entry, att, dlv, drp>>
       \/ /\ q = "dropped" /\ ~info[r].leg /\ info[r].origin = NoOrigin
          /\ att' = Plus(att, info[r].msg) /\ drp' = Plus(drp, info[r].msg)
          /\ UNCHANGED <<dlv, tracked, entry>>
       \/ /\ q # "quiet" /\ (q = "delivered" => info[r].leg)
          /\ Reported(info[r].origin, q)

\* The link is down: the message is queued whole, or refused by the queue.
Arrives(m) ==
    /\ m \in inbox /\ inbox' = inbox \ {m}
    /\ \/ UNCHANGED <<att, dlv, drp>> /\ \E r \in RowIds : Adds(r, FALSE, m, NoOrigin)
       \/ /\ att' = Plus(att, m) /\ drp' = Plus(drp, m)
          /\ UNCHANGED <<dlv, rows, info>>
    /\ UNCHANGED <<minted, tracked, entry, pc, job, wire, evicted, blurred>>

\* The bridge takes a message up.
Attempts(m) ==
    /\ m \in inbox /\ inbox' = inbox \ {m}
    /\ pc[Bridge] = "idle" /\ pc'[Bridge] = "routing"
    /\ Loaded(Bridge, NoRow, m) /\ Others(Bridge)
    /\ att' = Plus(att, m)
    /\ UNCHANGED <<rows, info, minted, tracked, entry, dlv, drp, wire, evicted, blurred>>

\* A first attempt or a replay ends with its outcome.
Closes(t) ==
    /\ pc[t] \in {"routing", "sending"} /\ Finished(t)
    /\ \/ drp' = Plus(drp, job[t].msg) /\ job[t].sent = 0 /\ UNCHANGED dlv
       \/ dlv' = Plus(dlv, job[t].msg) /\ job[t].sent > 0 /\ UNCHANGED drp
    /\ UNCHANGED <<inbox, rows, info, minted, tracked, entry, att, wire, evicted, blurred>>

\* A destination is resolved or sent to.
Sends(t) ==
    /\ pc[t] \in {"routing", "sending"} /\ pc'[t] = "sending"
    /\ Others(t) /\ Kept(t) /\ job'[t].stored = job[t].stored
    /\ \/ job'[t].sent = job[t].sent /\ UNCHANGED wire
       \/ job'[t].sent = job[t].sent + 1 /\ wire' = wire \cup {job[t].msg}
    /\ UNCHANGED <<inbox, rows, info, minted, tracked, entry, att, dlv, drp, evicted, blurred>>

\* A failed leg of a fan-out that went out in part is queued on its own.
Retries(t) ==
    /\ pc[t] = "sending" /\ job[t].sent > 0 /\ UNCHANGED pc
    /\ Others(t) /\ Kept(t) /\ job'[t].stored = job[t].stored /\ job'[t].sent = job[t].sent
    /\ UNCHANGED <<rows, info>> \/ \E r \in RowIds : Adds(r, TRUE, job[t].msg, NoOrigin)
    /\ UNCHANGED <<inbox, minted, tracked, entry, att, dlv, drp, wire, evicted, blurred>>

\* Nothing went out: the origin is tracked before its rows are queued.
Begins(t) ==
    /\ pc[t] \in {"routing", "sending"} /\ job[t].sent = 0
    /\ pc'[t] = "legs" \/ (pc'[t] = "whole" /\ job[t].row = NoRow)
    /\ Others(t) /\ Kept(t) /\ job'[t].stored = job[t].stored /\ job'[t].sent = job[t].sent
    /\ job'[t].origin = minted + 1
    /\ \E n \in Nat \ {0} : /\ Track(job[t].msg, n) /\ job'[t].todo <= n
                            /\ pc'[t] = "whole" => n = 1
    /\ UNCHANGED <<inbox, rows, info, wire, blurred>>

\* A row of the origin is queued, or refused by the queue.
Enqueues(t) ==
    /\ pc[t] \in Queueing /\ job[t].todo > 0 /\ UNCHANGED pc
    /\ Others(t) /\ Kept(t) /\ job'[t].origin = job[t].origin
    /\ job'[t].todo = job[t].todo - 1 /\ job'[t].sent = job[t].sent
    /\ \/ UNCHANGED <<rows, info>> /\ job'[t].stored = job[t].stored
       \/ /\ job'[t].stored = job[t].stored + 1
          /\ \E r \in RowIds : Adds(r, pc[t] = "legs", job[t].msg, job[t].origin)
    /\ UNCHANGED <<inbox, minted, tracked, entry, att, dlv, drp, wire, evicted, blurred>>

\* The rest of _m2r_settle, with the entry of o when it stays.
Settles(t) ==
    LET o    == job[t].origin
        e    == entry[o]
        lost == ~e.resolved /\ e.dropped >= job[t].stored
        over == e.terminals >= job[t].stored
    IN  /\ pc[t] \in Queueing /\ job[t].todo = 0 /\ Finished(t)
        /\ \/ /\ job[t].stored = 0
              /\ drp' = Plus(drp, job[t].msg) /\ tracked' = tracked \ {o}
           \/ /\ job[t].stored # 0 /\ o \in tracked
              /\ drp' = IF lost THEN Plus(drp, e.msg) ELSE drp
              /\ tracked' = IF over THEN tracked \ {o} ELSE tracked
              /\ ~over => /\ entry'[o].msg = e.msg /\ entry'[o].legs = job[t].stored
                          /\ entry'[o].dropped = e.dropped /\ entry'[o].terminals = e.terminals
                          /\ entry'[o].resolved <=> (e.resolved \/ lost)
           \/ /\ job[t].stored # 0 /\ o \notin tracked
              /\ UNCHANGED <<drp, tracked, entry>>
        /\ \A p \in Origins \ {o} : entry'[p] = entry[p]
        /\ UNCHANGED <<inbox, rows, info, minted, att, dlv, wire, evicted, blurred>>

\* process_once hands a row to its sender.
Takes(t, r) ==
    /\ pc[t] = "idle" /\ rows[r] = "waiting" /\ rows' = [rows EXCEPT ![r] = "taken"]
    /\ pc'[t] = IF info[r].leg THEN "leg" ELSE "replay"
    /\ Loaded(t, r, info[r].msg) /\ Others(t)
    /\ UNCHANGED <<inbox, info, minted, tracked, entry, att, dlv, drp, wire, evicted, blurred>>

\* The sender of a row answers.
Goes(t) ==
    /\ \/ pc[t] = "leg" /\ pc'[t] = "sent" /\ wire' = wire \cup {job[t].msg}
       \/ pc[t] \in {"leg", "replay"} /\ pc'[t] = "unsent" /\ UNCHANGED wire
    /\ Others(t) /\ UNCHANGED job
    /\ UNCHANGED <<inbox, rows, info, minted, tracked, entry, att, dlv, drp, evicted, blurred>>

\* A replay claims its origin, or counts as a first attempt.
Replays(t) ==
    LET o == info[job[t].row].origin
    IN  /\ pc[t] = "replay" /\ pc'[t] = "routing" /\ Others(t) /\ UNCHANGED job
        /\ \/ o \in tracked /\ tracked' = tracked \ {o} /\ UNCHANGED att
           \/ o \notin tracked /\ att' = Plus(att, job[t].msg) /\ UNCHANGED tracked
        /\ \A p \in Origins \ {o} : entry'[p] = entry[p]
        /\ UNCHANGED <<inbox, rows, info, minted, dlv, drp, wire, evicted, blurred>>

\* The holder of a row records what became of it, or fails to.
Leaves(t) ==
    /\ pc[t] \in {"sent", "unsent"} /\ pc'[t] = "idle"
    /\ Loaded(t, NoRow, Idle.msg) /\ Others(t)
    /\ \/ /\ pc[t] = "sent" => \/ job[t].msg \in blurred' \/ rows[job[t].row] \in {"done", "gone"}
          /\ pc[t] = "unsent" => blurred' = blurred
          /\ blurred \subseteq blurred'
          /\ UNCHANGED <<rows, info, minted, tracked, entry, att, dlv, drp, evicted>>
       \/ /\ \E to, q : /\ Shifts(job[t].row, to, q)
                        /\ pc[t] = "sent" => q = "delivered"
                        /\ pc[t] = "unsent" => q # "delivered" /\ to # "taken"
                        /\ to = "waiting" => rows[job[t].row] = "taken"
          /\ UNCHANGED blurred
    /\ UNCHANGED <<inbox, wire>>

\* Somebody else moves a row.
Moves(r) ==
    /\ \E to, q : /\ Shifts(r, to, q) /\ q # "delivered" /\ to # "taken"
                  /\ to = "waiting" => rows[r] = "taken"
    /\ Live(r) \/ info[r].msg \in blurred'
    /\ blurred \subseteq blurred'
    /\ rows[r] # "waiting" /\ Held(r) => info[r].msg \in blurred'
    /\ UNCHANGED <<inbox, pc, job, wire>>

------------------------------------------------------------------------------
(* The inductive invariant *)

\* What a thread carries.
JobOK(t) ==
    /\ pc[t] \in AtRow => job[t].row \in RowIds
    /\ pc[t] = "whole" => job[t].row = NoRow
    /\ pc[t] # "idle" => job[t].msg \notin inbox
    /\ pc[t] # "idle" /\ job[t].row = NoRow => t = Bridge
    /\ pc[t] # "idle" /\ job[t].row # NoRow =>
          /\ Born(job[t].row) /\ info[job[t].row].msg = job[t].msg
          /\ pc[t] = "leg" => info[job[t].row].leg
          /\ pc[t] \in Handling \cup {"replay"} => ~info[job[t].row].leg
    /\ pc[t] \notin Queueing => job[t].stored = 0
    /\ pc[t] # "sending" => job[t].sent = 0
    /\ job[t].sent > 0 => job[t].msg \in wire

JobInv == \A t \in Threads : JobOK(t)

\* A replay has claimed its origin before it acts.
ReplayOK(t) ==
    pc[t] \in Handling \cup {"sent"} /\ job[t].row # NoRow /\ ~info[job[t].row].leg
    => info[job[t].row].origin \notin tracked

ReplayInv == \A t \in Threads : ReplayOK(t)

\* Types and shapes of what the steps read.
LEMMA JobTypes ==
    ASSUME TypeOK, NEW t \in Threads
    PROVE  /\ pc[t] \in Places /\ job[t] \in Jobs
           /\ job[t].row \in RowIds \cup {NoRow} /\ job[t].msg \in Msgs /\ job[t].todo \in Nat
           /\ job[t].sent \in Nat /\ job[t].failed \in Nat /\ job[t].stored \in Nat
           /\ job[t].origin \in Origins \cup {NoOrigin}
  BY DEF TypeOK, Jobs

LEMMA IdleFields ==
    /\ Idle.row = NoRow /\ Idle.sent = 0 /\ Idle.stored = 0
    /\ \A r, m : LET j == [Idle EXCEPT !.row = r, !.msg = m]
                 IN  j.row = r /\ j.msg = m /\ j.sent = 0 /\ j.stored = 0
    /\ \A m : LET j == [Idle EXCEPT !.msg = m]
              IN  j.row = NoRow /\ j.msg = m /\ j.sent = 0 /\ j.stored = 0
  BY DEF Idle

LEMMA FinishShape ==
    ASSUME TypeOK, NEW t \in Threads, Finish(t)
    PROVE  Finished(t)
  <1>1. pc \in [Threads -> Places] /\ job \in [Threads -> Jobs]
    BY DEF TypeOK
  <1> DEFINE j == [Idle EXCEPT !.row = job[t].row, !.msg = job[t].msg]
  <1>2. j.row = job[t].row /\ j.msg = job[t].msg /\ j.sent = 0 /\ j.stored = 0
    BY IdleFields
  <1> HIDE DEF j
  <1>3. /\ pc' = [pc EXCEPT ![t] = IF job[t].row = NoRow THEN "idle" ELSE "sent"]
        /\ job' = [job EXCEPT ![t] = IF job[t].row = NoRow THEN Idle ELSE j]
    BY DEF Finish, j
  <1> QED
    BY <1>1, <1>2, <1>3, IdleFields DEF Finished, Others

LEMMA PersistShape ==
    ASSUME TypeOK, NEW leg \in BOOLEAN, NEW m \in Msgs, NEW o \in Origins \cup {NoOrigin},
           Persist(leg, m, o)
    PROVE  \E r \in RowIds : Adds(r, leg, m, o)
  <1>1. PICK r \in RowIds :
              /\ ~Born(r) /\ rows' = [rows EXCEPT ![r] = "waiting"]
              /\ info' = [info EXCEPT ![r] = [leg |-> leg, msg |-> m, origin |-> o]]
    BY PersistFacts
  <1>2. rows \in [RowIds -> Queue!States] /\ DOMAIN info = RowIds
    BY DEF TypeOK
  <1>3. Adds(r, leg, m, o)
    BY <1>1, <1>2 DEF Adds
  <1> QED
    BY <1>3

LEMMA RowStepShape ==
    ASSUME TypeOK, NEW r \in RowIds, NEW to, NEW q, RowStep(r, to, q), Born(r),
           q = "delivered" => info[r].leg \/ info[r].origin \notin tracked
    PROVE  Shifts(r, to, q)
  <1>1. <<rows[r], to, q>> \in Queue!Steps /\ Hear(r, q)
    BY DEF RowStep
  <1>2. q \in {"quiet", "delivered", "dropped"}
    BY <1>1, StepShape
  <1>3. rows' = [rows EXCEPT ![r] = to] /\ UNCHANGED <<info, minted, evicted>>
    BY DEF RowStep
  <1>4. \/ /\ q = "quiet" \/ info[r].origin \notin tracked
           /\ UNCHANGED <<tracked, entry, att, dlv, drp>>
        \/ /\ q = "dropped" /\ ~info[r].leg /\ info[r].origin = NoOrigin
           /\ att' = Plus(att, info[r].msg) /\ drp' = Plus(drp, info[r].msg)
           /\ UNCHANGED <<dlv, tracked, entry>>
        \/ /\ q # "quiet" /\ (q = "delivered" => info[r].leg)
           /\ Reported(info[r].origin, q)
    BY <1>1, <1>2, HearCases DEF accounting
  <1> QED
    BY <1>1, <1>3, <1>4 DEF Shifts

LEMMA SettleShape ==
    ASSUME TypeOK, NEW t \in Threads, Settle(t)
    PROVE  Settles(t)
  <1> DEFINE o == job[t].origin
             e == entry[o]
             n == job[t].stored
             f == [e EXCEPT !.legs = n]
             lost == ~e.resolved /\ e.dropped >= n
             over == e.terminals >= n
  <1>1. Finished(t) /\ pc[t] \in Queueing /\ job[t].todo = 0
    BY FinishShape DEF Settle, Queueing
  <1>2. UNCHANGED <<inbox, rows, info, minted, att, dlv, wire, evicted, blurred>>
    BY DEF Settle, table, rest
  <1>3. entry \in [Origins -> Entries] /\ n \in Nat
    BY JobTypes DEF TypeOK
  <1>4. CASE n = 0
    <2>1. drp' = Plus(drp, job[t].msg) /\ tracked' = tracked \ {o} /\ entry' = [entry EXCEPT ![o] = Blank]
      BY <1>4 DEF Settle
    <2>2. \A p \in Origins \ {o} : entry'[p] = entry[p]
      BY <1>3, <2>1
    <2> QED
      BY <1>1, <1>2, <1>4, <2>1, <2>2 DEF Settles
  <1>5. CASE n # 0 /\ o \in tracked
    <2>1. Advance(o, f)
      BY <1>5 DEF Settle
    <2>2. e \in Entries
      BY <1>3, <1>5, TrackedOrigins
    <2>3. /\ f \in Entries /\ f.msg = e.msg /\ f.legs = n /\ f.dropped = e.dropped
          /\ f.terminals = e.terminals /\ f.resolved = e.resolved
      BY <1>3, <1>5, <2>2 DEF Entries
    <2> HIDE DEF f
    <2>4. /\ drp' = IF lost THEN Plus(drp, e.msg) ELSE drp
          /\ tracked' = IF over THEN tracked \ {o} ELSE tracked
          /\ \A p \in Origins \ {o} : entry'[p] = entry[p]
          /\ ~over => /\ entry'[o].msg = e.msg /\ entry'[o].legs = n
                      /\ entry'[o].dropped = e.dropped /\ entry'[o].terminals = e.terminals
                      /\ entry'[o].resolved <=> (e.resolved \/ lost)
      BY <1>5, <2>1, <2>3, AdvanceFacts
    <2> QED
      BY <1>1, <1>2, <1>5, <2>4 DEF Settles
  <1>6. CASE n # 0 /\ o \notin tracked
    <2>1. UNCHANGED <<drp, tracked, entry>>
      BY <1>6 DEF Settle
    <2> QED
      BY <1>1, <1>2, <1>6, <2>1 DEF Settles
  <1> QED
    BY <1>4, <1>5, <1>6

\* Every step is one of these.
Works ==
    \/ \E m \in Msgs : Arrives(m) \/ Attempts(m)
    \/ \E t \in Threads : \/ Closes(t) \/ Sends(t) \/ Retries(t) \/ Begins(t) \/ Enqueues(t)
                          \/ Settles(t) \/ Goes(t) \/ Replays(t) \/ Leaves(t)
    \/ \E t \in Threads, r \in RowIds : Takes(t, r)
    \/ \E r \in RowIds : Moves(r)

\* The reduction, one case per action.  Nothing below opens an action again.
LEMMA Reduced ==
    ASSUME TypeOK, JobInv, ReplayInv, [Next]_vars
    PROVE  Works \/ Crash \/ UNCHANGED vars
  <1>1. /\ pc \in [Threads -> Places] /\ job \in [Threads -> Jobs] /\ rows \in [RowIds -> Queue!States]
        /\ info \in [RowIds -> [leg : BOOLEAN, msg : Msgs, origin : Origins \cup {NoOrigin}]]
        /\ entry \in [Origins -> Entries]
    BY DEF TypeOK
  <1>2. ASSUME NEW m \in Msgs, RnsDown(m) PROVE Arrives(m)
    <2>1. \/ UNCHANGED <<att, dlv, drp>> /\ \E r \in RowIds : Adds(r, FALSE, m, NoOrigin)
          \/ att' = Plus(att, m) /\ drp' = Plus(drp, m) /\ UNCHANGED <<dlv, rows, info>>
      <3>1. CASE Persist(FALSE, m, NoOrigin) /\ UNCHANGED counters
        BY <3>1, PersistShape DEF counters
      <3>2. CASE ~(Persist(FALSE, m, NoOrigin) /\ UNCHANGED counters)
        BY <3>2, <1>2 DEF RnsDown
      <3> QED
        BY <3>1, <3>2
    <2>2. m \in inbox /\ inbox' = inbox \ {m} /\ UNCHANGED <<minted, tracked, entry, pc, job, wire, evicted, blurred>>
      BY <1>2 DEF RnsDown, pending, thread, rest
    <2> QED
      BY <2>1, <2>2 DEF Arrives
  <1>3. ASSUME NEW m \in Msgs, Attempt(m) PROVE Attempts(m)
    <2> DEFINE j == [Idle EXCEPT !.msg = m]
    <2>1. j.row = NoRow /\ j.msg = m /\ j.sent = 0 /\ j.stored = 0
      BY IdleFields
    <2>2. pc' = [pc EXCEPT ![Bridge] = "routing"] /\ job' = [job EXCEPT ![Bridge] = j]
      BY <1>3 DEF Attempt, Goto
    <2> HIDE DEF j
    <2>3. Loaded(Bridge, NoRow, m) /\ Others(Bridge) /\ pc'[Bridge] = "routing"
      BY <1>1, <2>1, <2>2, M2RAssumption DEF Loaded, Others
    <2>4. /\ m \in inbox /\ inbox' = inbox \ {m} /\ pc[Bridge] = "idle" /\ att' = Plus(att, m)
          /\ UNCHANGED <<rows, info, minted, tracked, entry, dlv, drp, wire, evicted, blurred>>
      BY <1>3 DEF Attempt, table, pending, rest
    <2> QED
      BY <2>3, <2>4 DEF Attempts
  <1>4. ASSUME NEW t \in Threads, ThreadStep(t)
        PROVE  \/ Closes(t) \/ Sends(t) \/ Retries(t) \/ Begins(t) \/ Enqueues(t)
               \/ Settles(t) \/ Goes(t) \/ Replays(t) \/ Leaves(t)
    <2>1. /\ job[t] \in Jobs /\ job[t].msg \in Msgs /\ job[t].todo \in Nat /\ job[t].sent \in Nat
          /\ job[t].failed \in Nat /\ job[t].stored \in Nat /\ job[t].origin \in Origins \cup {NoOrigin}
      BY JobTypes
    <2>2. pc[t] # "sending" => job[t].sent = 0
      BY DEF JobInv, JobOK
    <2>3. CASE Refuse(t) \/ DeliveredNow(t) \/ BroadcastLost(t)
      BY <2>1, <2>2, <2>3, FinishShape DEF Refuse, DeliveredNow, BroadcastLost, table, pending, rest, Closes
    <2>4. CASE Resolve(t)
      <3>1. Others(t) /\ Kept(t) /\ job'[t].stored = job[t].stored /\ job'[t].sent = job[t].sent /\ pc'[t] = "sending"
        BY <1>1, <2>1, <2>4 DEF Resolve, Goto, Others, Kept, Jobs
      <3> QED
        BY <3>1, <2>4 DEF Resolve, Sends, table, pending, counters, rest
    <2>5. CASE SendDestination(t)
      <3>1. /\ Others(t) /\ Kept(t) /\ job'[t].stored = job[t].stored /\ pc'[t] = "sending"
            /\ \/ job'[t].sent = job[t].sent /\ UNCHANGED wire
               \/ job'[t].sent = job[t].sent + 1 /\ wire' = wire \cup {job[t].msg}
        BY <1>1, <2>1, <2>5 DEF SendDestination, Goto, Others, Kept, Jobs
      <3> QED
        BY <3>1, <2>5 DEF SendDestination, Sends, table, pending, counters
    <2>6. CASE RetryFailedLeg(t)
      <3>1. Others(t) /\ Kept(t) /\ job'[t].stored = job[t].stored /\ job'[t].sent = job[t].sent
        BY <1>1, <2>1, <2>6 DEF RetryFailedLeg, Others, Kept, Jobs
      <3>2. UNCHANGED <<rows, info>> \/ \E r \in RowIds : Adds(r, TRUE, job[t].msg, NoOrigin)
        BY <2>1, <2>6, PersistShape DEF RetryFailedLeg, table
      <3> QED
        BY <3>1, <3>2, <2>6 DEF RetryFailedLeg, Retries, pending, counters, rest
    <2>7. CASE TrackLegs(t)
      <3> DEFINE n == IF job[t].failed = 0 THEN 1 ELSE job[t].failed
      <3>1. Track(job[t].msg, n) /\ n \in Nat \ {0} /\ minted' = minted + 1
        BY <2>1, <2>7 DEF TrackLegs, Track
      <3>2. /\ Others(t) /\ Kept(t) /\ job'[t].stored = job[t].stored /\ pc'[t] = "legs"
            /\ job'[t].origin = minted + 1 /\ job'[t].todo <= n /\ job'[t].sent = job[t].sent
        BY <1>1, <2>1, <2>7, <3>1 DEF TrackLegs, Goto, Others, Kept, Jobs
      <3>3. pc[t] \in {"routing", "sending"} /\ job[t].sent = 0 /\ UNCHANGED <<inbox, rows, info, wire, blurred>>
        BY <2>1, <2>7 DEF TrackLegs, table, rest
      <3> HIDE DEF n
      <3> QED
        BY <3>1, <3>2, <3>3 DEF Begins
    <2>8. CASE Raise(t)
      <3>1. pc[t] \in {"routing", "sending"} /\ UNCHANGED <<inbox, rows, info, wire, blurred>>
        BY <2>8 DEF Raise, table, rest
      <3>2. CASE job[t].sent > 0
        <4>1. dlv' = Plus(dlv, job[t].msg) /\ Finish(t) /\ UNCHANGED <<pending, att, drp, evicted>>
          BY <2>8, <3>2 DEF Raise
        <4> QED
          BY <3>1, <3>2, <4>1, FinishShape DEF Closes, pending
      <3>3. CASE ~(job[t].sent > 0) /\ job[t].row # NoRow
        <4>1. drp' = Plus(drp, job[t].msg) /\ Finish(t) /\ UNCHANGED <<pending, att, dlv, evicted>>
          BY <2>8, <3>3 DEF Raise
        <4> QED
          BY <2>1, <3>1, <3>3, <4>1, FinishShape DEF Closes, pending
      <3>4. CASE ~(job[t].sent > 0) /\ job[t].row = NoRow
        <4>1. Track(job[t].msg, 1) /\ Goto(t, "whole") /\ job' = [job EXCEPT ![t] = [job[t] EXCEPT !.todo = 1, !.origin = minted']]
          BY <2>8, <3>4 DEF Raise
        <4>2. minted' = minted + 1
          BY <4>1 DEF Track
        <4>3. /\ Others(t) /\ Kept(t) /\ job'[t].stored = job[t].stored /\ pc'[t] = "whole"
              /\ job'[t].origin = minted + 1 /\ job'[t].todo <= 1 /\ job'[t].sent = job[t].sent
          BY <1>1, <2>1, <4>1, <4>2 DEF Goto, Others, Kept, Jobs
        <4>4. job[t].sent = 0 /\ Track(job[t].msg, 1) /\ 1 \in Nat \ {0}
          BY <2>1, <3>4, <4>1
        <4> QED
          BY <3>1, <3>4, <4>3, <4>4 DEF Begins
      <3> QED
        BY <3>2, <3>3, <3>4
    <2>9. CASE Enqueue(t)
      <3>1. /\ pc[t] \in Queueing /\ job[t].todo > 0 /\ UNCHANGED pc
            /\ UNCHANGED <<inbox, minted, tracked, entry, att, dlv, drp, wire, evicted, blurred>>
        BY <2>9 DEF Enqueue, Queueing, pending, counters, rest
      <3>2. CASE Persist(pc[t] = "legs", job[t].msg, job[t].origin)
                   /\ job' = [job EXCEPT ![t] = [job[t] EXCEPT !.todo = @ - 1, !.stored = @ + 1]]
        <4>1. /\ Others(t) /\ Kept(t) /\ job'[t].origin = job[t].origin
              /\ job'[t].todo = job[t].todo - 1 /\ job'[t].stored = job[t].stored + 1 /\ job'[t].sent = job[t].sent
          <5> DEFINE j == [job[t] EXCEPT !.todo = @ - 1, !.stored = @ + 1]
          <5>1. /\ j.row = job[t].row /\ j.msg = job[t].msg /\ j.origin = job[t].origin
                /\ j.todo = job[t].todo - 1 /\ j.stored = job[t].stored + 1 /\ j.sent = job[t].sent
            BY <2>1 DEF Jobs
          <5> HIDE DEF j
          <5>2. job' = [job EXCEPT ![t] = j]
            BY <3>2 DEF j
          <5> QED
            BY <1>1, <3>1, <5>1, <5>2 DEF Others, Kept
        <4> DEFINE leg == pc[t] = "legs"
        <4>2. Persist(leg, job[t].msg, job[t].origin) /\ leg \in BOOLEAN
          BY <3>2
        <4> HIDE DEF leg
        <4>3. \E r \in RowIds : Adds(r, leg, job[t].msg, job[t].origin)
          BY <4>2, <2>1, PersistShape
        <4> QED
          BY <3>1, <4>1, <4>3 DEF Enqueues, leg
      <3>3. CASE UNCHANGED table /\ job' = [job EXCEPT ![t].todo = @ - 1]
        <4>1. /\ Others(t) /\ Kept(t) /\ job'[t].origin = job[t].origin
              /\ job'[t].todo = job[t].todo - 1 /\ job'[t].stored = job[t].stored /\ job'[t].sent = job[t].sent
          <5> DEFINE j == [job[t] EXCEPT !.todo = @ - 1]
          <5>1. job' = [job EXCEPT ![t] = j]
            BY <1>1, <2>1, <3>3 DEF Jobs
          <5>2. /\ j.row = job[t].row /\ j.msg = job[t].msg /\ j.origin = job[t].origin
                /\ j.todo = job[t].todo - 1 /\ j.stored = job[t].stored /\ j.sent = job[t].sent
            BY <2>1 DEF Jobs
          <5> HIDE DEF j
          <5> QED
            BY <1>1, <3>1, <5>1, <5>2 DEF Others, Kept
        <4> QED
          BY <3>1, <3>3, <4>1 DEF Enqueues, table
      <3> QED
        BY <2>9, <3>2, <3>3 DEF Enqueue
    <2>10. CASE Settle(t)
      BY <2>10, SettleShape
    <2>11. CASE SendLeg(t) \/ ReplayOffline(t)
      BY <1>1, <2>11 DEF SendLeg, ReplayOffline, Goes, Goto, Others, table, pending, counters, rest
    <2>12. CASE Replay(t)
      <3> DEFINE o == info[job[t].row].origin
      <3>1. /\ pc[t] = "replay" /\ pc'[t] = "routing" /\ Others(t) /\ UNCHANGED job
            /\ UNCHANGED <<inbox, rows, info, minted, dlv, drp, wire, evicted, blurred>>
        BY <1>1, <2>12 DEF Replay, Goto, Others, table, rest
      <3>2. \/ o \in tracked /\ tracked' = tracked \ {o} /\ UNCHANGED att
            \/ o \notin tracked /\ att' = Plus(att, job[t].msg) /\ UNCHANGED tracked
        BY <2>12 DEF Replay
      <3>3. \A p \in Origins \ {o} : entry'[p] = entry[p]
        BY <1>1, <2>12 DEF Replay
      <3> QED
        BY <3>1, <3>2, <3>3 DEF Replays
    <2>13. CASE MarkDelivered(t) \/ MarkUnsent(t) \/ Unrecorded(t)
      <3> DEFINE r == job[t].row
      <3>1. /\ pc[t] \in {"sent", "unsent"} /\ Leave(t) /\ UNCHANGED <<inbox, wire>>
        BY <2>13 DEF MarkDelivered, MarkUnsent, Unrecorded, rest
      <3>2. Loaded(t, NoRow, Idle.msg) /\ Others(t) /\ pc'[t] = "idle"
        BY <1>1, <3>1, IdleFields DEF Leave, Goto, Loaded, Others
      <3>3. r \in RowIds /\ r # NoRow /\ Born(r)
        BY <3>1 DEF JobInv, JobOK, AtRow, RowIds, NoRow
      <3>4. pc[t] = "sent" => info[r].leg \/ info[r].origin \notin tracked
        BY <3>1, <3>3 DEF ReplayInv, ReplayOK
      <3>5. CASE Unrecorded(t)
        BY <3>1, <3>2, <3>5 DEF Unrecorded, Leaves, table, pending, counters
      <3>6. CASE MarkDelivered(t)
        <4>1. CASE RowStep(r, "done", "delivered")
          <5>1. Shifts(r, "done", "delivered")
            BY <4>1, <3>3, <3>4, <3>6, RowStepShape DEF MarkDelivered
          <5> QED
            BY <5>1, <3>1, <3>2, <3>6 DEF MarkDelivered, Leaves, rest
        <4>2. CASE rows[r] \in {"done", "gone"} /\ UNCHANGED <<table, pending, counters, evicted>>
          BY <4>2, <3>1, <3>2, <3>6 DEF MarkDelivered, Leaves, table, pending, counters, rest
        <4> QED
          BY <3>6, <4>1, <4>2 DEF MarkDelivered
      <3>7. CASE MarkUnsent(t)
        <4>1. CASE RowStep(r, "dead", "dropped") \/ (rows[r] = "taken" /\ RowStep(r, "waiting", "quiet"))
          <5>1. Shifts(r, "dead", "dropped") \/ (rows[r] = "taken" /\ Shifts(r, "waiting", "quiet"))
            BY <4>1, <3>3, RowStepShape
          <5> QED
            BY <5>1, <3>1, <3>2, <3>7 DEF MarkUnsent, Leaves, rest
        <4>2. CASE UNCHANGED <<table, pending, counters, evicted>>
          BY <4>2, <3>1, <3>2, <3>7 DEF MarkUnsent, Leaves, table, pending, counters, rest
        <4> QED
          BY <3>7, <4>1, <4>2 DEF MarkUnsent
      <3> QED
        BY <2>13, <3>5, <3>6, <3>7
    <2> QED
      BY <1>4, <2>3, <2>4, <2>5, <2>6, <2>7, <2>8, <2>9, <2>10, <2>11, <2>12, <2>13 DEF ThreadStep
  <1>5. ASSUME NEW t \in Threads, NEW r \in RowIds, Dispatch(t, r) PROVE Takes(t, r)
    <2> DEFINE j == [Idle EXCEPT !.row = r, !.msg = info[r].msg]
    <2>1. j.row = r /\ j.msg = info[r].msg /\ j.sent = 0 /\ j.stored = 0
      BY IdleFields
    <2>2. pc' = [pc EXCEPT ![t] = IF info[r].leg THEN "leg" ELSE "replay"] /\ job' = [job EXCEPT ![t] = j]
      BY <1>5 DEF Dispatch, Goto
    <2> HIDE DEF j
    <2>3. Loaded(t, r, info[r].msg) /\ Others(t) /\ pc'[t] = IF info[r].leg THEN "leg" ELSE "replay"
      BY <1>1, <2>1, <2>2 DEF Loaded, Others
    <2>4. rows[r] = "waiting" /\ rows' = [rows EXCEPT ![r] = "taken"] /\ UNCHANGED <<info, minted, evicted>>
      BY <1>5, StepShape DEF Dispatch, RowStep
    <2>5. UNCHANGED accounting
      BY <1>5 DEF Dispatch, RowStep, Hear
    <2>6. pc[t] = "idle" /\ UNCHANGED <<inbox, wire, blurred>>
      BY <1>5 DEF Dispatch, rest
    <2> QED
      BY <2>3, <2>4, <2>5, <2>6 DEF Takes, accounting
  <1>6. ASSUME NEW r \in RowIds, Lapse(r) \/ Stale(r) \/ SteppedOn(r) PROVE Moves(r)
    <2>1. UNCHANGED <<inbox, pc, job, wire>> /\ blurred \subseteq blurred'
      BY <1>6 DEF Lapse, Stale, SteppedOn, thread, rest
    <2>2. rows[r] # "waiting" /\ Held(r) => info[r].msg \in blurred'
      BY <1>6 DEF Lapse, Stale, SteppedOn
    <2>3. \E to, q : RowStep(r, to, q) /\ q # "delivered" /\ to # "taken" /\ (to = "waiting" => rows[r] = "taken")
      BY <1>6 DEF Lapse, Stale, SteppedOn
    <2>4. PICK to, q : RowStep(r, to, q) /\ q # "delivered" /\ to # "taken" /\ (to = "waiting" => rows[r] = "taken")
      BY <2>3
    <2>7. Live(r) \/ info[r].msg \in blurred'
      BY <1>6 DEF Lapse, Stale, SteppedOn, Live
    <2>5. Born(r)
      <3>1. CASE rows[r] \in {"waiting", "taken"}
        BY <3>1 DEF Born
      <3>2. CASE SteppedOn(r) /\ ~(rows[r] = "taken")
        <4>1. RowStep(r, "dead", "dropped") \/ RowStep(r, "gone", "dropped")
          BY <3>2 DEF SteppedOn
        <4> QED
          BY <4>1, StepShape DEF RowStep, Born
      <3> QED
        BY <3>1, <3>2, <1>6 DEF Lapse, Stale
    <2>6. Shifts(r, to, q)
      BY <2>4, <2>5, RowStepShape
    <2> QED
      BY <2>1, <2>2, <2>4, <2>6, <2>7 DEF Moves
  <1> QED
    BY <1>2, <1>3, <1>4, <1>5, <1>6 DEF Next, Works

\* The rows of an origin, and those that have ended.
RowsOf(o)  == {r \in RowIds : Born(r) /\ info[r].origin = o}
EndedOf(o) == {r \in RowIds : Born(r) /\ info[r].origin = o /\ ~Live(r)}

\* The thread that queues the rows of an origin.
QueueingOK(t) ==
    pc[t] \in Queueing =>
        LET o == job[t].origin
        IN  /\ o \in 1..minted
            /\ job[t].stored = Cardinality(RowsOf(o))
            /\ o \in tracked => entry[o].msg = job[t].msg /\ job[t].stored + job[t].todo <= entry[o].legs
            /\ o \notin tracked /\ RowsOf(o) = {} => job[t].msg \in evicted
            /\ \A r \in RowsOf(o) : info[r].msg = job[t].msg /\ (info[r].leg <=> pc[t] = "legs")
            /\ pc[t] = "whole" => /\ o \in tracked => entry[o].legs = 1
                                  /\ job[t].stored + job[t].todo <= 1

QueueingInv ==
    /\ \A t \in Threads : QueueingOK(t)
    /\ \A t, u \in Threads :
         pc[t] \in Queueing /\ pc[u] \in Queueing /\ job[t].origin = job[u].origin => t = u

\* Rows of one origin are of one message and one kind; a message has one whole
\* row at most.
RowInv ==
    /\ \A r \in RowIds : Born(r) =>
         /\ info[r].origin \in 0..minted /\ info[r].msg \notin inbox
         /\ info[r].origin \in tracked => /\ entry[info[r].origin].msg = info[r].msg
                                          /\ ~info[r].leg => entry[info[r].origin].legs = 1
    /\ \A r, q \in RowIds : Born(r) /\ Born(q) =>
         /\ info[r].origin = info[q].origin /\ info[r].origin # NoOrigin =>
               info[r].msg = info[q].msg /\ (info[r].leg <=> info[q].leg)
         /\ ~info[r].leg /\ ~info[q].leg /\ info[r].msg = info[q].msg => r = q

\* Nobody is about to write a second one.
WholeOK(t) ==
    \A r \in RowIds : Born(r) /\ ~info[r].leg /\ info[r].msg = job[t].msg =>
        /\ pc[t] \in {"routing", "sending"} => job[t].row # NoRow
        /\ pc[t] = "whole" => job[t].todo = 0 /\ info[r].origin = job[t].origin

WholeInv == \A t \in Threads : WholeOK(t)

\* An entry expects more reports than it heard, and heard at least the ends of
\* the rows that ended.
EntryOK(o) ==
    LET e == entry[o]
    IN  /\ e.dropped <= e.terminals /\ e.terminals < e.legs
        /\ e.resolved <=> e.dropped # e.terminals
        /\ Cardinality(EndedOf(o)) <= e.terminals
        /\ RowsOf(o) = {} => e.terminals = 0
        /\ \/ \E t \in Threads : pc[t] \in Queueing /\ job[t].origin = o
           \/ e.legs = Cardinality(RowsOf(o))

EntryInv == \A o \in tracked : EntryOK(o)

\* What has not arrived was neither attempted nor sent.
InboxInv == \A m \in inbox : att[m] = 0 /\ m \notin wire

\* Who bears the outcome of an attempt: a thread, then an entry with rows.
Bears(t, m) == job[t].msg = m /\ (pc[t] \in {"routing", "sending"} \/ (pc[t] \in Queueing /\ job[t].stored = 0))
Bearers(m)  == {t \in Threads : Bears(t, m)}
Owes(o, m)  == o \in tracked /\ entry[o].msg = m /\ ~entry[o].resolved /\ RowsOf(o) # {}
Owing(m)    == {o \in Origins : Owes(o, m)}

\* The conservation law: every attempt of a message is an outcome, or in the hands
\* of one thread, or owed by one entry; eviction alone loses one.
Sum(m) == dlv[m] + drp[m] + Cardinality(Bearers(m)) + Cardinality(Owing(m))
ConservedAt(m) == Sum(m) <= att[m] /\ (m \notin evicted => Sum(m) = att[m])

Conserved == \A m \in Msgs : ConservedAt(m)

\* The strengthening of OutcomesWithinAttempts and NothingForgotten.
Sums == /\ TypeOK /\ JobInv /\ ReplayInv /\ QueueingInv /\ RowInv /\ WholeInv
        /\ EntryInv /\ InboxInv /\ Conserved

------------------------------------------------------------------------------
(* How the sets they speak of change *)

\* Two sets that differ in one element at most.
LEMMA Counting ==
    ASSUME NEW S, NEW T, IsFiniteSet(S), NEW x, \A y : y # x => (y \in S <=> y \in T)
    PROVE  /\ IsFiniteSet(T) /\ Cardinality(S) \in Nat /\ Cardinality(T) \in Nat
           /\ Cardinality(T) + (IF x \in S THEN 1 ELSE 0) = Cardinality(S) + (IF x \in T THEN 1 ELSE 0)
  <1>1. CASE x \in S /\ x \notin T
    <2>1. T = S \ {x}
      BY <1>1
    <2>2. IsFiniteSet(T) /\ Cardinality(T) = Cardinality(S) - 1
      BY <1>1, <2>1, FS_RemoveElement
    <2> QED
      BY <1>1, <2>2, FS_CardinalityType
  <1>2. CASE x \notin S /\ x \in T
    <2>1. T = S \cup {x}
      BY <1>2
    <2> QED
      BY <1>2, <2>1, FS_AddElement, FS_CardinalityType
  <1>3. CASE x \in S <=> x \in T
    <2>1. T = S
      BY <1>3
    <2> QED
      BY <1>3, <2>1, FS_CardinalityType
  <1> QED
    BY <1>1, <1>2, <1>3

\* The sets that are counted are finite.
LEMMA Finite ==
    /\ IsFiniteSet(RowIds) /\ IsFiniteSet(Origins)
    /\ \A o : /\ IsFiniteSet(RowsOf(o)) /\ IsFiniteSet(EndedOf(o))
              /\ Cardinality(RowsOf(o)) \in Nat /\ Cardinality(EndedOf(o)) \in Nat
              /\ Cardinality(EndedOf(o)) <= Cardinality(RowsOf(o))
              /\ Cardinality(RowsOf(o)) = 0 <=> RowsOf(o) = {}
    /\ \A m : /\ IsFiniteSet(Bearers(m)) /\ IsFiniteSet(Owing(m))
              /\ Cardinality(Bearers(m)) \in Nat /\ Cardinality(Owing(m)) \in Nat
  <1>1. IsFiniteSet(RowIds) /\ IsFiniteSet(Origins)
    BY FS_Interval, M2RAssumption DEF RowIds, Origins
  <1>2. ASSUME NEW o
        PROVE  /\ IsFiniteSet(RowsOf(o)) /\ IsFiniteSet(EndedOf(o))
               /\ Cardinality(RowsOf(o)) \in Nat /\ Cardinality(EndedOf(o)) \in Nat
               /\ Cardinality(EndedOf(o)) <= Cardinality(RowsOf(o))
               /\ Cardinality(RowsOf(o)) = 0 <=> RowsOf(o) = {}
    <2>1. RowsOf(o) \subseteq RowIds /\ EndedOf(o) \subseteq RowsOf(o)
      BY DEF RowsOf, EndedOf
    <2>2. IsFiniteSet(RowsOf(o))
      BY <1>1, <2>1, FS_Subset
    <2> QED
      BY <2>1, <2>2, FS_Subset, FS_CardinalityType, FS_EmptySet
  <1>3. ASSUME NEW m
        PROVE  /\ IsFiniteSet(Bearers(m)) /\ IsFiniteSet(Owing(m))
               /\ Cardinality(Bearers(m)) \in Nat /\ Cardinality(Owing(m)) \in Nat
    <2>1. Bearers(m) \subseteq Threads /\ Owing(m) \subseteq Origins
      BY DEF Bearers, Owing
    <2> QED
      BY <1>1, <2>1, FS_Subset, FS_CardinalityType, M2RAssumption
  <1> QED
    BY <1>1, <1>2, <1>3

\* A step over rows keeps the rows of every origin; one row may end.
LEMMA RowsKept ==
    ASSUME UNCHANGED <<rows, info>>
    PROVE  \A o : RowsOf(o)' = RowsOf(o) /\ EndedOf(o)' = EndedOf(o)
  BY DEF RowsOf, EndedOf, Born, Live

LEMMA RowsShifted ==
    ASSUME TypeOK, NEW r \in RowIds, NEW to, NEW q, Shifts(r, to, q)
    PROVE  /\ \A x \in RowIds : Born(x)' <=> Born(x)
           /\ \A o : RowsOf(o)' = RowsOf(o)
           /\ \A o : Cardinality(EndedOf(o)') <= Cardinality(EndedOf(o))
                                                + (IF q # "quiet" /\ o = info[r].origin THEN 1 ELSE 0)
           /\ q = "dropped" => ~Live(r)'
  <1>1. /\ rows[r] # "none" /\ to # "none" /\ rows' = [rows EXCEPT ![r] = to] /\ info' = info
        /\ rows \in [RowIds -> Queue!States] /\ <<rows[r], to, q>> \in Queue!Steps
    BY StepShape DEF Shifts, Born, TypeOK
  <1>3. q = "quiet" /\ to \notin {"waiting", "taken"} => rows[r] \notin {"waiting", "taken"}
    BY <1>1 DEF Queue!Steps, Queue!Accepts, Queue!Takes, Queue!PutsBack, Queue!Delivers,
         Queue!Drops, Queue!ShedsLate, Queue!Revives, Queue!Purges
  <1>4. \A x \in RowIds : Born(x)' <=> Born(x)
    BY <1>1 DEF Born
  <1>5. \A o : RowsOf(o)' = RowsOf(o)
    BY <1>1, <1>4 DEF RowsOf
  <1>6. ASSUME NEW o
        PROVE  Cardinality(EndedOf(o)') <= Cardinality(EndedOf(o)) + (IF q # "quiet" /\ o = info[r].origin THEN 1 ELSE 0)
    <2>1. \A y : y # r => (y \in EndedOf(o) <=> y \in EndedOf(o)')
      BY <1>1, <1>4 DEF EndedOf, Live
    <2>2. r \in EndedOf(o)' /\ q = "quiet" => r \in EndedOf(o)
      BY <1>1, <1>3 DEF EndedOf, Live, Born
    <2>3. r \in EndedOf(o)' => o = info[r].origin
      BY <1>1 DEF EndedOf
    <2>4. IsFiniteSet(EndedOf(o))
      BY Finite
    <2>5. /\ Cardinality(EndedOf(o)) \in Nat /\ Cardinality(EndedOf(o)') \in Nat
          /\ Cardinality(EndedOf(o)') + (IF r \in EndedOf(o) THEN 1 ELSE 0)
             = Cardinality(EndedOf(o)) + (IF r \in EndedOf(o)' THEN 1 ELSE 0)
      <3> DEFINE S == EndedOf(o)
                 T == EndedOf(o)'
      <3>1. IsFiniteSet(S) /\ \A y : y # r => (y \in S <=> y \in T)
        BY <2>1, <2>4
      <3> HIDE DEF S, T
      <3>2. /\ Cardinality(S) \in Nat /\ Cardinality(T) \in Nat
            /\ Cardinality(T) + (IF r \in S THEN 1 ELSE 0) = Cardinality(S) + (IF r \in T THEN 1 ELSE 0)
        BY <3>1, Counting
      <3> QED
        BY <3>2 DEF S, T
    <2> QED
      BY <2>2, <2>3, <2>5
  <1>7. q = "dropped" => ~Live(r)'
    BY <1>1, StepShape DEF Live
  <1> QED
    BY <1>4, <1>5, <1>6, <1>7

\* A new row is one more of its origin, and has not ended.
LEMMA RowsAdded ==
    ASSUME TypeOK, NEW r \in RowIds, NEW leg, NEW m, NEW o, Adds(r, leg, m, o)
    PROVE  /\ RowsOf(o)' = RowsOf(o) \cup {r} /\ r \notin RowsOf(o)
           /\ Cardinality(RowsOf(o)') = Cardinality(RowsOf(o)) + 1
           /\ \A p : p # o => RowsOf(p)' = RowsOf(p)
           /\ \A p : EndedOf(p)' = EndedOf(p)
  <1>1. RowsOf(o)' = RowsOf(o) \cup {r} /\ r \notin RowsOf(o)
    BY DEF Adds, RowsOf, Born
  <1>2. Cardinality(RowsOf(o)') = Cardinality(RowsOf(o)) + 1
    BY <1>1, Finite, FS_AddElement
  <1>3. \A p : p # o => RowsOf(p)' = RowsOf(p)
    BY DEF Adds, RowsOf, Born
  <1>4. \A p : EndedOf(p)' = EndedOf(p)
    BY DEF Adds, EndedOf, Born, Live
  <1> QED
    BY <1>1, <1>2, <1>3, <1>4

\* A row keeps what it carries; history only grows.
LEMMA Steady ==
    ASSUME TypeOK, JobInv, Works
    PROVE  /\ \A r \in RowIds : Born(r) => Born(r)' /\ info'[r] = info[r]
           /\ minted <= minted' /\ inbox' \subseteq inbox
           /\ wire \subseteq wire' /\ evicted \subseteq evicted' /\ blurred \subseteq blurred'
  <1> DEFINE Goal == /\ \A r \in RowIds : Born(r) => Born(r)' /\ info'[r] = info[r]
                     /\ minted <= minted' /\ inbox' \subseteq inbox
                     /\ wire \subseteq wire' /\ evicted \subseteq evicted' /\ blurred \subseteq blurred'
  <1>1. minted \in Nat
    BY M2RAssumption DEF TypeOK
  <1>2. ASSUME NEW m \in Msgs, Arrives(m) PROVE Goal
    <2>1. \A r \in RowIds : Born(r) => Born(r)' /\ info'[r] = info[r]
      BY <1>2 DEF Arrives, Adds, Born
    <2> QED
      BY <1>1, <1>2, <2>1 DEF Arrives
  <1>3. ASSUME NEW m \in Msgs, Attempts(m) PROVE Goal
    BY <1>1, <1>3 DEF Attempts, Born
  <1>4. ASSUME NEW t \in Threads, Closes(t) \/ Sends(t) \/ Goes(t) \/ Replays(t) \/ Settles(t) PROVE Goal
    BY <1>1, <1>4 DEF Closes, Sends, Goes, Replays, Settles, Born
  <1>5. ASSUME NEW t \in Threads, Retries(t) \/ Enqueues(t) PROVE Goal
    <2>1. \A r \in RowIds : Born(r) => Born(r)' /\ info'[r] = info[r]
      BY <1>5 DEF Retries, Enqueues, Adds, Born
    <2>2. UNCHANGED <<inbox, minted, wire, evicted, blurred>>
      BY <1>5 DEF Retries, Enqueues
    <2> QED
      BY <1>1, <2>1, <2>2
  <1>6. ASSUME NEW t \in Threads, Begins(t) PROVE Goal
    <2>1. minted' = minted + 1 /\ evicted \subseteq evicted'
      BY <1>6 DEF Begins, Track
    <2> QED
      BY <1>1, <1>6, <2>1 DEF Begins, Born
  <1>7. ASSUME NEW t \in Threads, Leaves(t) PROVE Goal
    <2>1. CASE UNCHANGED <<rows, info, minted, evicted>>
      BY <1>1, <1>7, <2>1 DEF Leaves, Born
    <2>2. ASSUME NEW to, NEW q, Shifts(job[t].row, to, q), UNCHANGED blurred PROVE Goal
      <3>1. job[t].row \in RowIds
        BY <1>7 DEF Leaves, JobInv, JobOK, AtRow
      <3>2. UNCHANGED <<info, minted, evicted>>
        BY <2>2 DEF Shifts
      <3> QED
        BY <1>1, <1>7, <2>2, <3>1, <3>2, RowsShifted DEF Leaves
    <2> QED
      BY <1>7, <2>1, <2>2 DEF Leaves
  <1>8. ASSUME NEW t \in Threads, NEW r \in RowIds, Takes(t, r) PROVE Goal
    <2>1. rows \in [RowIds -> Queue!States]
      BY DEF TypeOK
    <2> QED
      BY <1>1, <1>8, <2>1 DEF Takes, Born
  <1>9. ASSUME NEW r \in RowIds, Moves(r) PROVE Goal
    <2>1. PICK to, q : Shifts(r, to, q)
      BY <1>9 DEF Moves
    <2>2. UNCHANGED <<info, minted, evicted>>
      BY <2>1 DEF Shifts
    <2> QED
      BY <1>1, <1>9, <2>1, <2>2, RowsShifted DEF Moves
  <1> HIDE DEF Goal
  <1>10. Goal
    BY <1>2, <1>3, <1>4, <1>5, <1>6, <1>7, <1>8, <1>9 DEF Works
  <1> QED
    BY <1>10 DEF Goal

------------------------------------------------------------------------------
(* The jobs *)

\* A thread that does not act keeps its job.
LEMMA JobFrame ==
    ASSUME TypeOK, JobInv, Works, NEW u \in Threads, pc'[u] = pc[u], job'[u] = job[u]
    PROVE  JobOK(u)'
  <1>1. JobOK(u)
    BY DEF JobInv
  <1>2. pc[u] # "idle" /\ job[u].row # NoRow => job[u].row \in RowIds
    BY JobTypes
  <1> QED
    BY <1>1, <1>2, Steady DEF JobOK

\* JobInv is preserved.
LEMMA JobStep ==
    ASSUME TypeOK, TypeOK', JobInv, RowInv, Works
    PROVE  JobInv'
  <1> USE DEF JobOK, AtRow, Handling, Queueing
  <1>1. ASSUME NEW t \in Threads, JobOK(t)', Others(t) PROVE JobInv'
    BY <1>1, JobFrame DEF Others, JobInv
  <1>2. ASSUME pc' = pc, job' = job PROVE JobInv'
    BY <1>2, JobFrame DEF JobInv
  <1>3. \A t \in Threads : JobOK(t) /\ job[t].row \in RowIds \cup {NoRow} /\ job[t].sent \in Nat
    BY JobTypes DEF JobInv
  <1>4. NoRow \notin RowIds
    BY DEF NoRow, RowIds
  <1>5. ASSUME NEW m \in Msgs, Arrives(m) PROVE JobInv'
    BY <1>2, <1>5 DEF Arrives
  <1>6. ASSUME NEW m \in Msgs, Attempts(m) PROVE JobInv'
    <2>1. JobOK(Bridge)'
      BY <1>6, Steady, M2RAssumption DEF Attempts, Loaded
    <2> QED
      BY <1>1, <1>6, <2>1, M2RAssumption DEF Attempts
  <1>7. ASSUME NEW t \in Threads, Closes(t) \/ Settles(t) PROVE JobInv'
    <2>1. /\ Finished(t) /\ pc[t] \in Handling /\ UNCHANGED <<rows, info, wire, inbox>>
      BY <1>7 DEF Closes, Settles
    <2>2. JobOK(t)'
      BY <1>3, <2>1 DEF Finished, Born
    <2> QED
      BY <1>1, <2>1, <2>2 DEF Finished
  <1>8. ASSUME NEW t \in Threads, Sends(t) PROVE JobInv'
    <2>1. JobOK(t)'
      BY <1>3, <1>8 DEF Sends, Kept, Born
    <2> QED
      BY <1>1, <1>8, <2>1 DEF Sends
  <1>9. ASSUME NEW t \in Threads, Retries(t) \/ Enqueues(t) PROVE JobInv'
    <2>1. /\ Others(t) /\ Kept(t) /\ UNCHANGED <<pc, inbox, wire>> /\ job'[t].sent = job[t].sent
          /\ pc[t] \in Queueing \/ job'[t].stored = job[t].stored
      BY <1>9 DEF Retries, Enqueues
    <2>3. JobOK(t)'
      BY <1>3, <2>1, Steady DEF Kept
    <2> QED
      BY <1>1, <2>1, <2>3
  <1>10. ASSUME NEW t \in Threads, Begins(t) PROVE JobInv'
    <2>1. JobOK(t)'
      BY <1>3, <1>10 DEF Begins, Kept, Born
    <2> QED
      BY <1>1, <1>10, <2>1 DEF Begins
  <1>11. ASSUME NEW t \in Threads, Goes(t) \/ Replays(t) PROVE JobInv'
    <2>1. JobOK(t)'
      BY <1>3, <1>11 DEF Goes, Replays, Born
    <2> QED
      BY <1>1, <1>11, <2>1 DEF Goes, Replays
  <1>12. ASSUME NEW t \in Threads, Leaves(t) PROVE JobInv'
    <2>1. JobOK(t)'
      BY <1>12 DEF Leaves, Loaded
    <2> QED
      BY <1>1, <1>12, <2>1 DEF Leaves
  <1>13. ASSUME NEW t \in Threads, NEW r \in RowIds, Takes(t, r) PROVE JobInv'
    <2>1. rows[r] = "waiting" /\ rows' = [rows EXCEPT ![r] = "taken"] /\ info' = info /\ inbox' = inbox
          /\ Loaded(t, r, info[r].msg) /\ pc'[t] = IF info[r].leg THEN "leg" ELSE "replay"
      BY <1>13 DEF Takes
    <2>2. Born(r) /\ rows'[r] = "taken" /\ info[r].msg \notin inbox
      <3>1. rows \in [RowIds -> Queue!States]
        BY DEF TypeOK
      <3> QED
        BY <2>1, <3>1 DEF RowInv, Born
    <2>3. JobOK(t)'
      BY <1>4, <2>1, <2>2 DEF Loaded, Born
    <2> QED
      BY <1>1, <1>13, <2>3 DEF Takes
  <1>14. ASSUME NEW r \in RowIds, Moves(r) PROVE JobInv'
    BY <1>2, <1>14 DEF Moves
  <1> QED
    BY <1>5, <1>6, <1>7, <1>8, <1>9, <1>10, <1>11, <1>12, <1>13, <1>14 DEF Works

------------------------------------------------------------------------------
(* The origins of the replays *)

\* Only a new origin comes under track; an entry that stays keeps its message.
LEMMA PendingMoves ==
    ASSUME TypeOK, JobInv, Works
    PROVE  /\ tracked \subseteq 1..minted /\ minted \in Nat /\ minted' \in {minted, minted + 1}
           /\ \A o \in tracked' : o \in tracked \/ (o = minted + 1 /\ minted' = minted + 1)
           /\ \A o \in tracked' : o \in tracked => entry'[o].msg = entry[o].msg
           /\ minted' # minted => \E t \in Threads : Begins(t)
  <1> DEFINE Goal == /\ minted' \in {minted, minted + 1}
                     /\ \A o \in tracked' : o \in tracked \/ (o = minted + 1 /\ minted' = minted + 1)
                     /\ \A o \in tracked' : o \in tracked => entry'[o].msg = entry[o].msg
                     /\ minted' # minted => \E t \in Threads : Begins(t)
  <1>1. tracked \subseteq 1..minted /\ minted \in Nat /\ tracked \subseteq Origins
    BY TrackedOrigins, M2RAssumption DEF TypeOK
  <1>2. ASSUME UNCHANGED <<minted, tracked, entry>> PROVE Goal
    BY <1>2
  <1>3. ASSUME NEW r \in RowIds, NEW to, NEW q, Shifts(r, to, q) PROVE Goal
    <2>1. UNCHANGED minted
      BY <1>3 DEF Shifts
    <2>2. CASE UNCHANGED <<tracked, entry>>
      BY <2>1, <2>2
    <2>3. CASE Reported(info[r].origin, q)
      BY <1>1, <2>1, <2>3 DEF Reported
    <2> QED
      BY <1>3, <2>2, <2>3 DEF Shifts
  <1>4. ASSUME NEW t \in Threads, Begins(t) PROVE Goal
    <2>1. PICK n \in Nat \ {0} : Track(job[t].msg, n)
      BY <1>4 DEF Begins
    <2>2. job[t].msg \in Msgs
      BY JobTypes
    <2>3. \E out \in SUBSET tracked :
              /\ minted' = minted + 1 /\ tracked' = (tracked \ out) \cup {minted + 1}
              /\ \A p \in tracked \ out : entry'[p] = entry[p]
      BY <2>1, <2>2, TrackFacts
    <2>4. minted + 1 \notin tracked
      BY <1>1
    <2> QED
      BY <1>4, <2>3, <2>4
  <1>5. ASSUME NEW t \in Threads, Settles(t) PROVE Goal
    BY <1>1, <1>5 DEF Settles
  <1>6. ASSUME NEW t \in Threads, Replays(t) PROVE Goal
    BY <1>1, <1>6 DEF Replays
  <1>7. ASSUME NEW t \in Threads, Leaves(t) PROVE Goal
    <2>1. job[t].row \in RowIds
      BY <1>7 DEF Leaves, JobInv, JobOK, AtRow
    <2> QED
      BY <2>1, <1>7, <1>2, <1>3 DEF Leaves
  <1>8. ASSUME NEW r \in RowIds, Moves(r) PROVE Goal
    BY <1>8, <1>3 DEF Moves
  <1>9. ASSUME NEW m \in Msgs, Arrives(m) \/ Attempts(m) PROVE Goal
    BY <1>9, <1>2 DEF Arrives, Attempts
  <1>10. ASSUME NEW t \in Threads, Closes(t) \/ Sends(t) \/ Retries(t) \/ Enqueues(t) \/ Goes(t) PROVE Goal
    BY <1>10, <1>2 DEF Closes, Sends, Retries, Enqueues, Goes
  <1>11. ASSUME NEW t \in Threads, NEW r \in RowIds, Takes(t, r) PROVE Goal
    BY <1>11, <1>2 DEF Takes
  <1> HIDE DEF Goal
  <1>12. Goal
    BY <1>4, <1>5, <1>6, <1>7, <1>8, <1>9, <1>10, <1>11 DEF Works
  <1> QED
    BY <1>1, <1>12 DEF Goal

\* An origin of a row that is not under track never comes back.
LEMMA LostOrigin ==
    ASSUME TypeOK, JobInv, RowInv, Works, NEW r \in RowIds, Born(r), info[r].origin \notin tracked
    PROVE  info'[r].origin = info[r].origin /\ info[r].origin \notin tracked'
  <1>1. info[r].origin \in 0..minted
    BY DEF RowInv
  <1> QED
    BY <1>1, PendingMoves, Steady

\* ReplayInv is preserved: a claimed origin is not tracked again.
LEMMA ReplayStep ==
    ASSUME TypeOK, JobInv, ReplayInv, RowInv, Works
    PROVE  ReplayInv'
  <1> USE DEF ReplayOK, Handling, Queueing
  <1>1. \A t \in Threads : /\ ReplayOK(t) /\ job[t].row \in RowIds \cup {NoRow}
                           /\ pc[t] # "idle" /\ job[t].row # NoRow =>
                                /\ Born(job[t].row) /\ job[t].row \in RowIds
                                /\ pc[t] = "leg" => info[job[t].row].leg
    BY JobTypes DEF ReplayInv, JobInv, JobOK
  <1>2. ASSUME NEW t \in Threads, pc[t] \in Handling \cup {"sent"}, job'[t].row = job[t].row PROVE ReplayOK(t)'
    BY <1>1, <1>2, LostOrigin, Steady
  <1>3. ASSUME NEW t \in Threads, pc'[t] = pc[t], job'[t] = job[t] PROVE ReplayOK(t)'
    BY <1>2, <1>3
  <1>4. ASSUME NEW t \in Threads, Others(t), ReplayOK(t)' PROVE ReplayInv'
    BY <1>3, <1>4 DEF Others, ReplayInv
  <1>5. ASSUME pc' = pc, job' = job PROVE ReplayInv'
    BY <1>3, <1>5 DEF ReplayInv
  <1>6. ASSUME NEW t \in Threads, Closes(t) \/ Settles(t) \/ Sends(t) \/ Retries(t) \/ Begins(t) \/ Enqueues(t)
        PROVE  ReplayInv'
    <2>1. Others(t) /\ job'[t].row = job[t].row /\ pc[t] \in Handling
      BY <1>6 DEF Closes, Settles, Sends, Retries, Begins, Enqueues, Finished, Kept
    <2> QED
      BY <1>2, <1>4, <2>1
  <1>7. ASSUME NEW t \in Threads, Goes(t) PROVE ReplayInv'
    <2>1. ReplayOK(t)'
      BY <1>1, <1>7 DEF Goes
    <2> QED
      BY <1>4, <1>7, <2>1 DEF Goes
  <1>8. ASSUME NEW t \in Threads, Replays(t) PROVE ReplayInv'
    <2>1. ReplayOK(t)'
      BY <1>8 DEF Replays
    <2> QED
      BY <1>4, <1>8, <2>1 DEF Replays
  <1>9. ASSUME NEW t \in Threads, Leaves(t) PROVE ReplayInv'
    <2>1. ReplayOK(t)' /\ Others(t)
      BY <1>9 DEF Leaves
    <2> QED
      BY <1>4, <2>1
  <1>10. ASSUME NEW t \in Threads, NEW r \in RowIds, Takes(t, r) PROVE ReplayInv'
    <2>1. ReplayOK(t)' /\ Others(t)
      BY <1>10 DEF Takes
    <2> QED
      BY <1>4, <2>1
  <1>11. ASSUME NEW m \in Msgs, Attempts(m) PROVE ReplayInv'
    <2>1. ReplayOK(Bridge)' /\ Others(Bridge)
      BY <1>11 DEF Attempts, Loaded
    <2> QED
      BY <1>4, <2>1, M2RAssumption
  <1>12. ASSUME NEW m \in Msgs, Arrives(m) PROVE ReplayInv'
    BY <1>5, <1>12 DEF Arrives
  <1>13. ASSUME NEW r \in RowIds, Moves(r) PROVE ReplayInv'
    BY <1>5, <1>13 DEF Moves
  <1> QED
    BY <1>6, <1>7, <1>8, <1>9, <1>10, <1>11, <1>12, <1>13 DEF Works

------------------------------------------------------------------------------
(* Rows *)

\* What the steps make of an entry that was there before.
EntryKept(o)  == o \in tracked' /\ entry'[o] = entry[o]
EntryTold(o)  == \E r \in RowIds, q \in {"delivered", "dropped"} : 
                    /\ Born(r) /\ info[r].origin = o /\ Reported(o, q)
                    /\ \E to : Shifts(r, to, q)
EntrySettled(o) == \E t \in Threads : Settles(t) /\ job[t].origin = o
EntryEvicted(o) == /\ \E t \in Threads : Begins(t)
                   /\ o \notin tracked' /\ (entry[o].resolved \/ entry[o].msg \in evicted')
EntryClaimed(o) == /\ \E t \in Threads : Replays(t) /\ info[job[t].row].origin = o
                   /\ o \notin tracked'

\* Whatever a step does to a tracked entry is one of these.
LEMMA EntryFates ==
    ASSUME TypeOK, JobInv, Works, NEW o \in tracked
    PROVE  EntryKept(o) \/ EntryTold(o) \/ EntrySettled(o) \/ EntryEvicted(o) \/ EntryClaimed(o)
  <1> DEFINE Goal == EntryKept(o) \/ EntryTold(o) \/ EntrySettled(o) \/ EntryEvicted(o) \/ EntryClaimed(o)
  <1>1. o \in Origins /\ o # NoOrigin
    BY TrackedOrigins
  <1>2. ASSUME UNCHANGED <<tracked, entry>> PROVE Goal
    BY <1>2 DEF EntryKept
  <1>3. ASSUME NEW r \in RowIds, NEW to, NEW q, Shifts(r, to, q) PROVE Goal
    <2>1. CASE UNCHANGED <<tracked, entry>>
      BY <1>2, <2>1
    <2>2. CASE Reported(info[r].origin, q) /\ q # "quiet"
      <3>1. Born(r) /\ q \in {"delivered", "dropped"}
        BY <1>3, <2>2, StepShape DEF Shifts
      <3>2. CASE info[r].origin = o
        BY <1>3, <2>2, <3>1, <3>2 DEF EntryTold
      <3>3. CASE info[r].origin # o
        BY <1>1, <2>2, <3>3 DEF Reported, EntryKept
      <3> QED
        BY <3>2, <3>3
    <2> QED
      BY <1>3, <2>1, <2>2 DEF Shifts
  <1>4. ASSUME NEW t \in Threads, Begins(t) PROVE Goal
    <2>1. PICK n \in Nat \ {0} : Track(job[t].msg, n)
      BY <1>4 DEF Begins
    <2>2. job[t].msg \in Msgs
      BY JobTypes
    <2>3. PICK out \in SUBSET tracked :
              /\ minted' = minted + 1 /\ tracked' = (tracked \ out) \cup {minted + 1}
              /\ \A p \in tracked \ out : entry'[p] = entry[p]
              /\ evicted' = evicted \cup {entry[x].msg : x \in {y \in out : ~entry[y].resolved}}
      BY <2>1, <2>2, TrackFacts
    <2>4. o # minted + 1
      BY PendingMoves
    <2>5. CASE o \in out
      BY <1>4, <2>3, <2>4, <2>5 DEF EntryEvicted
    <2>6. CASE o \notin out
      BY <2>3, <2>6 DEF EntryKept
    <2> QED
      BY <2>5, <2>6
  <1>5. ASSUME NEW t \in Threads, Settles(t) PROVE Goal
    <2>1. CASE job[t].origin = o
      BY <1>5, <2>1 DEF EntrySettled
    <2>2. CASE job[t].origin # o
      BY <1>1, <1>5, <2>2 DEF Settles, EntryKept
    <2> QED
      BY <2>1, <2>2
  <1>6. ASSUME NEW t \in Threads, Replays(t) PROVE Goal
    <2>1. CASE info[job[t].row].origin = o
      BY <1>6, <2>1 DEF Replays, EntryClaimed
    <2>2. CASE info[job[t].row].origin # o
      BY <1>1, <1>6, <2>2 DEF Replays, EntryKept
    <2> QED
      BY <2>1, <2>2
  <1>7. ASSUME NEW t \in Threads, Leaves(t) PROVE Goal
    <2>1. job[t].row \in RowIds
      BY <1>7 DEF Leaves, JobInv, JobOK, AtRow
    <2> QED
      BY <2>1, <1>7, <1>2, <1>3 DEF Leaves
  <1>8. ASSUME NEW r \in RowIds, Moves(r) PROVE Goal
    BY <1>8, <1>3 DEF Moves
  <1>9. ASSUME NEW m \in Msgs, Arrives(m) \/ Attempts(m) PROVE Goal
    BY <1>9, <1>2 DEF Arrives, Attempts
  <1>10. ASSUME NEW t \in Threads, Closes(t) \/ Sends(t) \/ Retries(t) \/ Enqueues(t) \/ Goes(t) PROVE Goal
    BY <1>10, <1>2 DEF Closes, Sends, Retries, Enqueues, Goes
  <1>11. ASSUME NEW t \in Threads, NEW r \in RowIds, Takes(t, r) PROVE Goal
    BY <1>11, <1>2 DEF Takes
  <1> HIDE DEF Goal
  <1>12. Goal
    BY <1>4, <1>5, <1>6, <1>7, <1>8, <1>9, <1>10, <1>11 DEF Works
  <1> QED
    BY <1>12 DEF Goal

\* What happens to the table.
TableKept   == (\A r \in RowIds : Born(r)' <=> Born(r)) /\ UNCHANGED info /\ \A o : RowsOf(o)' = RowsOf(o)
TableGrew(leg, m, o) == \E r \in RowIds : Adds(r, leg, m, o)

\* Whatever a step does to the table is one of these.
LEMMA TableFates ==
    ASSUME TypeOK, JobInv, Works
    PROVE  \/ TableKept
           \/ \E m \in Msgs : Arrives(m) /\ TableGrew(FALSE, m, NoOrigin)
           \/ \E t \in Threads : Retries(t) /\ TableGrew(TRUE, job[t].msg, NoOrigin)
           \/ \E t \in Threads : /\ Enqueues(t) /\ TableGrew(pc[t] = "legs", job[t].msg, job[t].origin)
                                 /\ job'[t].stored = job[t].stored + 1
  <1> DEFINE Goal == \/ TableKept
                     \/ \E m \in Msgs : Arrives(m) /\ TableGrew(FALSE, m, NoOrigin)
                     \/ \E t \in Threads : Retries(t) /\ TableGrew(TRUE, job[t].msg, NoOrigin)
                     \/ \E t \in Threads : /\ Enqueues(t) /\ TableGrew(pc[t] = "legs", job[t].msg, job[t].origin)
                                           /\ job'[t].stored = job[t].stored + 1
  <1>1. ASSUME UNCHANGED <<rows, info>> PROVE Goal
    BY <1>1, RowsKept DEF TableKept, Born
  <1>2. ASSUME NEW r \in RowIds, NEW to, NEW q, Shifts(r, to, q) PROVE Goal
    <2>1. UNCHANGED info
      BY <1>2 DEF Shifts
    <2> QED
      BY <1>2, <2>1, RowsShifted DEF TableKept
  <1>3. ASSUME NEW t \in Threads, Leaves(t) PROVE Goal
    <2>1. job[t].row \in RowIds
      BY <1>3 DEF Leaves, JobInv, JobOK, AtRow
    <2> QED
      BY <2>1, <1>1, <1>2, <1>3 DEF Leaves
  <1>4. ASSUME NEW r \in RowIds, Moves(r) PROVE Goal
    BY <1>4, <1>2 DEF Moves
  <1>5. ASSUME NEW m \in Msgs, Arrives(m) \/ Attempts(m) PROVE Goal
    BY <1>5, <1>1 DEF Arrives, Attempts, TableGrew
  <1>6. ASSUME NEW t \in Threads, Closes(t) \/ Sends(t) \/ Begins(t) \/ Goes(t) \/ Settles(t) \/ Replays(t) PROVE Goal
    BY <1>6, <1>1 DEF Closes, Sends, Begins, Goes, Settles, Replays
  <1>7. ASSUME NEW t \in Threads, Retries(t) PROVE Goal
    BY <1>7, <1>1 DEF Retries, TableGrew
  <1>8. ASSUME NEW t \in Threads, Enqueues(t) PROVE Goal
    BY <1>8, <1>1 DEF Enqueues, TableGrew
  <1>9. ASSUME NEW t \in Threads, NEW r \in RowIds, Takes(t, r) PROVE Goal
    <2>1. rows[r] # "none" /\ rows' = [rows EXCEPT ![r] = "taken"] /\ UNCHANGED info
      BY <1>9 DEF Takes
    <2>2. rows \in [RowIds -> Queue!States]
      BY DEF TypeOK
    <2>3. \A x \in RowIds : Born(x)' <=> Born(x)
      BY <2>1, <2>2 DEF Born
    <2> QED
      BY <2>1, <2>3 DEF TableKept, RowsOf
  <1> HIDE DEF Goal
  <1>10. Goal
    BY <1>3, <1>4, <1>5, <1>6, <1>7, <1>8, <1>9 DEF Works
  <1> QED
    BY <1>10 DEF Goal

\* RowInv is preserved.
LEMMA RowInvStep ==
    ASSUME TypeOK, JobInv, QueueingInv, RowInv, WholeInv, Works
    PROVE  RowInv'
  <1> DEFINE Good(r) == /\ info[r].origin \in 0..minted /\ info[r].msg \notin inbox
                        /\ info[r].origin \in tracked => /\ entry[info[r].origin].msg = info[r].msg
                                                         /\ ~info[r].leg => entry[info[r].origin].legs = 1
             Match(r, q) == /\ info[r].origin = info[q].origin /\ info[r].origin # NoOrigin =>
                                   info[r].msg = info[q].msg /\ (info[r].leg <=> info[q].leg)
                            /\ ~info[r].leg /\ ~info[q].leg /\ info[r].msg = info[q].msg => r = q
  <1>1. \A r \in RowIds : Born(r) => Good(r)
    BY DEF RowInv
  <1>2. \A r, q \in RowIds : Born(r) /\ Born(q) => Match(r, q)
    BY DEF RowInv
  <1>3. minted \in Nat /\ minted' \in {minted, minted + 1} /\ NoOrigin \notin tracked'
    BY TrackedOrigins, PendingMoves DEF NoOrigin
  <1>4. ASSUME NEW r \in RowIds, Born(r) PROVE Good(r)'
    <2> DEFINE o == info[r].origin
    <2>1. info'[r] = info[r] /\ inbox' \subseteq inbox /\ Good(r)
      BY <1>1, <1>4, Steady
    <2>2. o \in tracked' => o \in tracked /\ entry'[o].msg = entry[o].msg
      BY <1>3, <2>1, PendingMoves
    <2>3. ASSUME o \in tracked, o \in tracked', ~info[r].leg PROVE entry'[o].legs = 1
      <3>1. entry[o].legs = 1
        BY <2>1, <2>3
      <3>2. CASE EntryKept(o)
        BY <3>1, <3>2 DEF EntryKept
      <3>3. CASE EntryTold(o)
        <4>1. PICK q \in {"delivered", "dropped"} : Reported(o, q)
          BY <3>3 DEF EntryTold
        <4>2. entry[o] \in Entries
          BY <2>3, TrackedOrigins DEF TypeOK
        <4>3. tracked' = IF entry[o].terminals + 1 >= 1 THEN tracked \ {o} ELSE tracked
          BY <3>1, <4>1 DEF Reported
        <4> QED
          BY <2>3, <4>2, <4>3 DEF Entries
      <3>4. CASE EntrySettled(o)
        <4>1. PICK t \in Threads : Settles(t) /\ job[t].origin = o
          BY <3>4 DEF EntrySettled
        <4>2. pc[t] \in Queueing /\ QueueingOK(t) /\ r \in RowsOf(o)
          BY <1>4, <4>1 DEF Settles, QueueingInv, RowsOf
        <4>3. pc[t] = "whole" /\ job[t].stored + job[t].todo <= 1
          BY <2>3, <4>1, <4>2 DEF QueueingOK, Queueing
        <4>4. job[t].stored # 0 /\ job[t].stored = 1
          BY <2>3, <4>1, <4>3, JobTypes DEF Settles
        <4>5. entry'[o].legs = job[t].stored
          BY <2>3, <4>1, <4>4 DEF Settles
        <4> QED
          BY <4>4, <4>5
      <3>5. CASE EntryEvicted(o) \/ EntryClaimed(o)
        BY <2>3, <3>5 DEF EntryEvicted, EntryClaimed
      <3> QED
        BY <2>3, <3>2, <3>3, <3>4, <3>5, EntryFates
    <2> QED
      BY <1>3, <2>1, <2>2, <2>3
  <1>5. ASSUME TableKept PROVE RowInv'
    <2>1. \A r, q \in RowIds : Born(r)' /\ Born(q)' => Match(r, q)'
      BY <1>2, <1>5 DEF TableKept
    <2>2. \A r \in RowIds : Born(r)' => Good(r)'
      BY <1>4, <1>5 DEF TableKept
    <2> QED
      BY <2>1, <2>2 DEF RowInv
  <1>6. ASSUME NEW x \in RowIds, NEW leg, NEW m, NEW o, Adds(x, leg, m, o), Good(x)',
               \A q \in RowIds : Born(q) => Match(x, q)' /\ Match(q, x)'
        PROVE  RowInv'
    <2>1. \A q \in RowIds : Born(q)' => q = x \/ Born(q)
      BY <1>6 DEF Adds, Born
    <2>2. \A r, q \in RowIds : Born(r) /\ Born(q) => Match(r, q)'
      BY <1>2, Steady
    <2>3. \A r, q \in RowIds : Born(r)' /\ Born(q)' => Match(r, q)'
      BY <1>6, <2>1, <2>2
    <2>4. \A r \in RowIds : Born(r)' => Good(r)'
      BY <1>4, <1>6, <2>1
    <2> HIDE DEF Good, Match
    <2> QED
      BY <2>3, <2>4 DEF RowInv, Good, Match
  <1>7. ASSUME NEW m \in Msgs, Arrives(m), TableGrew(FALSE, m, NoOrigin) PROVE RowInv'
    <2>1. PICK x \in RowIds : Adds(x, FALSE, m, NoOrigin)
      BY <1>7 DEF TableGrew
    <2>2. ~Born(x) /\ info'[x].msg = m /\ info'[x].origin = NoOrigin /\ m \in inbox /\ m \notin inbox'
      BY <1>7, <2>1 DEF Adds, Arrives
    <2>3. Good(x)'
      BY <1>3, <2>2 DEF NoOrigin
    <2>4. \A q \in RowIds : Born(q) => info'[q].msg # m
      BY <1>1, <2>2, Steady
    <2>5. \A q \in RowIds : Born(q) => Match(x, q)' /\ Match(q, x)'
      BY <2>2, <2>4
    <2> QED
      BY <1>6, <2>1, <2>3, <2>5
  <1>8. ASSUME NEW t \in Threads, Retries(t), TableGrew(TRUE, job[t].msg, NoOrigin) PROVE RowInv'
    <2>1. PICK x \in RowIds : Adds(x, TRUE, job[t].msg, NoOrigin)
      BY <1>8 DEF TableGrew
    <2>2. job[t].msg \notin inbox /\ inbox' = inbox
      BY <1>8 DEF Retries, JobInv, JobOK
    <2>3. info'[x].msg = job[t].msg /\ info'[x].origin = NoOrigin /\ info'[x].leg
      BY <2>1 DEF Adds
    <2>4. Good(x)'
      BY <1>3, <2>2, <2>3 DEF NoOrigin
    <2>5. \A q \in RowIds : Born(q) => Match(x, q)' /\ Match(q, x)'
      BY <2>3
    <2> QED
      BY <1>6, <2>1, <2>4, <2>5
  <1>9. ASSUME NEW t \in Threads, Enqueues(t), TableGrew(pc[t] = "legs", job[t].msg, job[t].origin) PROVE RowInv'
    <2> DEFINE o == job[t].origin
               m == job[t].msg
    <2>1. PICK x \in RowIds : Adds(x, pc[t] = "legs", m, o)
      BY <1>9 DEF TableGrew
    <2>2. /\ pc[t] \in Queueing /\ QueueingOK(t) /\ WholeOK(t) /\ job[t].todo > 0 /\ m \notin inbox
          /\ UNCHANGED <<inbox, minted, tracked, entry>>
      BY <1>9 DEF Enqueues, QueueingInv, WholeInv, JobInv, JobOK, Queueing
    <2>3. ~Born(x) /\ info'[x].msg = m /\ info'[x].origin = o /\ (info'[x].leg <=> pc[t] = "legs")
      BY <2>1 DEF Adds
    <2>4. Good(x)'
      BY <1>3, <2>2, <2>3 DEF QueueingOK, Queueing
    <2>5. \A q \in RowIds : Born(q) /\ info[q].origin = o => info[q].msg = m /\ (info[q].leg <=> pc[t] = "legs")
      BY <2>2 DEF QueueingOK, RowsOf
    <2>6. \A q \in RowIds : Born(q) /\ pc[t] = "whole" /\ ~info[q].leg => info[q].msg # m
      BY <2>2, JobTypes DEF WholeOK
    <2>7. \A q \in RowIds : Born(q) => Match(x, q)' /\ Match(q, x)'
      BY <2>2, <2>3, <2>5, <2>6, Steady DEF Queueing
    <2> QED
      BY <1>6, <2>1, <2>4, <2>7
  <1> QED
    BY <1>5, <1>7, <1>8, <1>9, TableFates

------------------------------------------------------------------------------
(* Threads that queue rows *)

\* The entry of an origin goes before any of its rows exists only by eviction.
LEMMA NoRowsYet ==
    ASSUME TypeOK, JobInv, EntryInv, Works, NEW o \in tracked, RowsOf(o) = {}, o \notin tracked'
    PROVE  EntrySettled(o) \/ entry[o].msg \in evicted'
  <1>1. ~entry[o].resolved
    BY TrackedOrigins DEF EntryInv, EntryOK, TypeOK, Entries
  <1>2. ~EntryKept(o)
    BY DEF EntryKept
  <1>3. ~EntryTold(o)
    BY DEF EntryTold, RowsOf
  <1>4. ~EntryClaimed(o)
    <2>1. ASSUME NEW t \in Threads, Replays(t), info[job[t].row].origin = o PROVE FALSE
      <3>1. job[t].row \in RowIds /\ Born(job[t].row)
        BY <2>1 DEF Replays, JobInv, JobOK, AtRow, RowIds, NoRow
      <3> QED
        BY <2>1, <3>1 DEF RowsOf
    <2> QED
      BY <2>1 DEF EntryClaimed
  <1> QED
    BY <1>1, <1>2, <1>3, <1>4, EntryFates DEF EntryEvicted

\* Only the thread that queues the rows of an origin adds one.
LEMMA RowsFrame ==
    ASSUME TypeOK, JobInv, QueueingInv, Works, NEW u \in Threads,
           pc[u] \in Queueing, pc'[u] = pc[u], job'[u] = job[u], NEW o, o = job[u].origin
    PROVE  RowsOf(o)' = RowsOf(o)
  <1>1. o # NoOrigin
    BY DEF QueueingInv, QueueingOK, NoOrigin
  <1>2. CASE TableKept
    BY <1>2 DEF TableKept
  <1>3. ASSUME NEW leg, NEW m, TableGrew(leg, m, NoOrigin) PROVE RowsOf(o)' = RowsOf(o)
    BY <1>1, <1>3, RowsAdded DEF TableGrew
  <1>4. ASSUME NEW t \in Threads, Enqueues(t), TableGrew(pc[t] = "legs", job[t].msg, job[t].origin),
               job'[t].stored = job[t].stored + 1
        PROVE  RowsOf(o)' = RowsOf(o)
    <2>1. t # u
      BY <1>4, JobTypes
    <2>2. job[t].origin # o
      BY <1>4, <2>1 DEF Enqueues, QueueingInv
    <2> QED
      BY <1>4, <2>2, RowsAdded DEF TableGrew
  <1> QED
    BY <1>2, <1>3, <1>4, TableFates

\* QueueingOK when the rows of the origin stay as they are.
LEMMA QueueingFrame ==
    ASSUME TypeOK, JobInv, QueueingInv, EntryInv, Works, NEW u \in Threads,
           pc'[u] = pc[u], job'[u] = job[u]
    PROVE  QueueingOK(u)'
  <1> SUFFICES ASSUME pc[u] \in Queueing PROVE QueueingOK(u)'
    BY DEF QueueingOK
  <1>0. PICK o : o = job[u].origin
    OBVIOUS
  <1> DEFINE m == job[u].msg
  <1>1. QueueingOK(u) /\ RowsOf(o)' = RowsOf(o)
    <2>1. QueueingOK(u)
      BY DEF QueueingInv
    <2>2. RowsOf(o)' = RowsOf(o)
      BY <1>0, RowsFrame
    <2> QED
      BY <2>1, <2>2
  <1>2. o \in 1..minted' /\ (o \in tracked' => o \in tracked /\ entry'[o].msg = entry[o].msg)
    BY <1>0, <1>1, PendingMoves, Steady DEF QueueingOK
  <1>3. ~EntrySettled(o)
    BY <1>0 DEF EntrySettled, Settles, Finished, QueueingInv, Queueing
  <1>4. o \in tracked' => entry'[o].legs = entry[o].legs
    <2>1. SUFFICES ASSUME o \in tracked' PROVE entry'[o].legs = entry[o].legs
      OBVIOUS
    <2>2. CASE EntryKept(o)
      BY <2>2 DEF EntryKept
    <2>3. CASE EntryTold(o)
      BY <2>1, <2>3 DEF EntryTold, Reported
    <2> QED
      BY <1>2, <1>3, <2>1, <2>2, <2>3, EntryFates DEF EntryEvicted, EntryClaimed
  <1>5. o \notin tracked' /\ RowsOf(o) = {} => m \in evicted'
    BY <1>0, <1>1, <1>3, NoRowsYet, Steady DEF QueueingOK
  <1>6. \A r \in RowsOf(o) : info'[r] = info[r]
    BY Steady DEF RowsOf
  <1> QED
    BY <1>0, <1>1, <1>2, <1>4, <1>5, <1>6 DEF QueueingOK

\* QueueingInv is preserved.
LEMMA QueueingStep ==
    ASSUME TypeOK, TypeOK', JobInv, QueueingInv, RowInv, EntryInv, Works
    PROVE  QueueingInv'
  <1> DEFINE Apart(t, u) == pc[t] \in Queueing /\ pc[u] \in Queueing /\ job[t].origin = job[u].origin => t = u
  <1>1. \A t \in Threads : QueueingOK(t) /\ \A u \in Threads : Apart(t, u)
    BY DEF QueueingInv
  <1>2. ASSUME NEW t \in Threads, Others(t), QueueingOK(t)', \A u \in Threads \ {t} : Apart(t, u)' /\ Apart(u, t)'
        PROVE  QueueingInv'
    <2>1. \A u \in Threads : QueueingOK(u)'
      BY <1>2, QueueingFrame DEF Others
    <2>2. \A u, v \in Threads \ {t} : Apart(u, v)'
      BY <1>1, <1>2 DEF Others
    <2> QED
      BY <1>2, <2>1, <2>2 DEF QueueingInv
  <1>3. ASSUME pc' = pc, job' = job PROVE QueueingInv'
    BY <1>3, QueueingFrame DEF QueueingInv
  <1>4. ASSUME NEW t \in Threads, Others(t), pc'[t] \notin Queueing PROVE QueueingInv'
    <2>1. QueueingOK(t)'
      BY <1>4 DEF QueueingOK
    <2> QED
      BY <1>2, <1>4, <2>1
  <1>5. ASSUME NEW t \in Threads, Closes(t) \/ Settles(t) \/ Sends(t) \/ Retries(t) \/ Goes(t) \/ Replays(t) \/ Leaves(t)
        PROVE  QueueingInv'
    <2>1. Others(t) /\ pc'[t] \notin Queueing
      BY <1>5 DEF Closes, Settles, Sends, Retries, Goes, Replays, Leaves, Finished, Queueing
    <2> QED
      BY <1>4, <2>1
  <1>6. ASSUME NEW t \in Threads, Begins(t) PROVE QueueingInv'
    <2>1. PICK o, m : o = minted + 1 /\ m = job[t].msg
      OBVIOUS
    <2>2. PICK n \in Nat \ {0} : Track(m, n) /\ job'[t].todo <= n /\ (pc'[t] = "whole" => n = 1)
      BY <1>6, <2>1 DEF Begins
    <2>3. /\ Others(t) /\ job'[t].origin = o /\ job'[t].msg = m /\ pc'[t] \in Queueing
          /\ UNCHANGED <<rows, info>> /\ job'[t].stored = job[t].stored
      BY <1>6, <2>1 DEF Begins, Kept, Queueing
    <2>4. job[t].stored = 0
      BY <1>6 DEF Begins, JobInv, JobOK, Queueing
    <2>5. /\ minted' = o /\ o \in tracked' /\ o \in Origins
          /\ entry'[o].msg = m /\ entry'[o].legs = n
      BY <2>1, <2>2, JobTypes, TrackFacts DEF IsNew
    <2>6. minted \in Nat /\ \A u \in Threads : pc[u] \in Queueing => job[u].origin # o
      BY <1>1, <2>1, PendingMoves DEF QueueingOK
    <2>7. RowsOf(o)' = {}
      <3>1. RowsOf(o) = {}
        BY <2>1, <2>6 DEF RowInv, RowsOf
      <3> QED
        BY <2>3, <3>1, RowsKept
    <2>8. Cardinality(RowsOf(o)') = 0
      BY <2>7, FS_EmptySet
    <2>9. QueueingOK(t)'
      <3>1. job'[t].todo \in Nat /\ o \in 1..minted'
        BY <2>1, <2>5, <2>6, SortsNext DEF ThreadOK, Jobs
      <3> QED
        BY <2>2, <2>3, <2>4, <2>5, <2>7, <2>8, <3>1 DEF QueueingOK, Queueing
    <2>10. \A u \in Threads \ {t} : Apart(t, u)' /\ Apart(u, t)'
      BY <2>3, <2>6 DEF Others
    <2> QED
      BY <1>2, <2>3, <2>9, <2>10
  <1>7. ASSUME NEW t \in Threads, Enqueues(t) PROVE QueueingInv'
    <2>1. PICK o, m : o = job[t].origin /\ m = job[t].msg
      OBVIOUS
    <2>2. /\ pc[t] \in Queueing /\ pc' = pc /\ Others(t) /\ job'[t].msg = m /\ job'[t].origin = o
          /\ job[t].todo > 0 /\ job'[t].todo = job[t].todo - 1
          /\ UNCHANGED <<inbox, minted, tracked, entry, evicted>> /\ QueueingOK(t)
      BY <1>1, <1>7, <2>1 DEF Enqueues, Kept
    <2>3. job[t].todo \in Nat /\ job[t].stored \in Nat /\ (o \in tracked => entry[o].legs \in Nat)
      BY JobTypes, TrackedOrigins DEF TypeOK, Entries
    <2>4. QueueingOK(t)'
      <3>1. CASE UNCHANGED <<rows, info>> /\ job'[t].stored = job[t].stored
        <4>1. RowsOf(o)' = RowsOf(o) /\ info' = info
          BY <3>1, RowsKept
        <4> QED
          BY <2>1, <2>2, <2>3, <3>1, <4>1 DEF QueueingOK, Queueing
      <3>2. CASE job'[t].stored = job[t].stored + 1 /\ TableGrew(pc[t] = "legs", m, o)
        <4>1. PICK x \in RowIds : Adds(x, pc[t] = "legs", m, o)
          BY <3>2 DEF TableGrew
        <4>2. RowsOf(o)' = RowsOf(o) \cup {x} /\ Cardinality(RowsOf(o)') = Cardinality(RowsOf(o)) + 1
          BY <4>1, RowsAdded
        <4>3. info'[x].msg = m /\ (info'[x].leg <=> pc[t] = "legs")
          BY <4>1 DEF Adds
        <4>4. \A r \in RowsOf(o) : info'[r] = info[r]
          BY Steady DEF RowsOf
        <4> QED
          BY <2>1, <2>2, <2>3, <3>2, <4>2, <4>3, <4>4 DEF QueueingOK, Queueing
      <3> QED
        BY <1>7, <2>1, <3>1, <3>2 DEF Enqueues, TableGrew
    <2>5. \A u \in Threads \ {t} : Apart(t, u)' /\ Apart(u, t)'
      BY <1>1, <2>1, <2>2 DEF Others
    <2> QED
      BY <1>2, <2>2, <2>4, <2>5
  <1>8. ASSUME NEW m \in Msgs, Attempts(m) PROVE QueueingInv'
    BY <1>4, <1>8, M2RAssumption DEF Attempts, Queueing
  <1>9. ASSUME NEW t \in Threads, NEW r \in RowIds, Takes(t, r) PROVE QueueingInv'
    BY <1>4, <1>9 DEF Takes, Queueing
  <1>10. ASSUME NEW m \in Msgs, Arrives(m) PROVE QueueingInv'
    BY <1>3, <1>10 DEF Arrives
  <1>11. ASSUME NEW r \in RowIds, Moves(r) PROVE QueueingInv'
    BY <1>3, <1>11 DEF Moves
  <1> QED
    BY <1>5, <1>6, <1>7, <1>8, <1>9, <1>10, <1>11 DEF Works

\* Only the bridge loop writes whole rows, and only of messages without one.
LEMMA WholeStep ==
    ASSUME TypeOK, TypeOK', JobInv, QueueingInv, RowInv, WholeInv, Works
    PROVE  WholeInv'
  <1> DEFINE Early(t, r) == /\ pc[t] \in {"routing", "sending"} => job[t].row # NoRow
                            /\ pc[t] = "whole" => job[t].todo = 0 /\ info[r].origin = job[t].origin
             Alike(t, r) == ~info[r].leg /\ info[r].msg = job[t].msg
             Old(t) == \A r \in RowIds : Born(r) /\ Alike(t, r)' => Early(t, r)'
  <1>1. \A t \in Threads, r \in RowIds : Born(r) /\ Alike(t, r) => Early(t, r)
    BY DEF WholeInv, WholeOK
  <1>2. \A r \in RowIds : Born(r) => info'[r] = info[r] /\ info[r].msg \notin inbox
    BY Steady DEF RowInv
  <1>3. ASSUME NEW t \in Threads, pc'[t] = pc[t], job'[t] = job[t] PROVE Old(t)
    BY <1>1, <1>2, <1>3
  <1>4. ASSUME NEW t \in Threads, pc'[t] \notin {"routing", "sending", "whole"} PROVE Old(t) /\ \A r \in RowIds : Early(t, r)'
    BY <1>4
  <1>5. ASSUME \A t \in Threads : Old(t), TableKept PROVE WholeInv'
    BY <1>5 DEF TableKept, WholeInv, WholeOK
  <1>6. ASSUME NEW x \in RowIds, NEW leg, NEW m, NEW o, Adds(x, leg, m, o), \A t \in Threads : Old(t),
               \A t \in Threads : Alike(t, x)' => Early(t, x)'
        PROVE  WholeInv'
    <2>1. \A q \in RowIds : Born(q)' => q = x \/ Born(q)
      BY <1>6 DEF Adds, Born
    <2> HIDE DEF Alike, Early
    <2>2. \A t \in Threads, r \in RowIds : Born(r)' /\ Alike(t, r)' => Early(t, r)'
      BY <2>1, <1>6
    <2> QED
      BY <2>2 DEF WholeInv, WholeOK, Alike, Early
  <1>7. \A t \in Threads : Old(t)
    <2>1. ASSUME pc' = pc, job' = job PROVE \A t \in Threads : Old(t)
      BY <1>3, <2>1
    <2>2. ASSUME NEW t \in Threads, Others(t), Old(t) PROVE \A u \in Threads : Old(u)
      BY <1>3, <2>2 DEF Others
    <2>3. ASSUME NEW t \in Threads, Others(t), pc'[t] \notin {"routing", "sending", "whole"} PROVE \A u \in Threads : Old(u)
      BY <1>4, <2>2, <2>3
    <2> HIDE DEF Old
    <2>4. ASSUME NEW m \in Msgs, Arrives(m) PROVE \A t \in Threads : Old(t)
      BY <2>1, <2>4 DEF Arrives
    <2>5. ASSUME NEW r \in RowIds, Moves(r) PROVE \A t \in Threads : Old(t)
      BY <2>1, <2>5 DEF Moves
    <2>6. ASSUME NEW t \in Threads, Closes(t) \/ Settles(t) \/ Goes(t) \/ Leaves(t) PROVE \A u \in Threads : Old(u)
      <3>1. Others(t) /\ pc'[t] \notin {"routing", "sending", "whole"}
        BY <2>6 DEF Closes, Settles, Goes, Leaves, Finished
      <3> QED
        BY <2>3, <3>1
    <2>7. ASSUME NEW t \in Threads, NEW r \in RowIds, Takes(t, r) PROVE \A u \in Threads : Old(u)
      BY <2>3, <2>7 DEF Takes
    <2>8. ASSUME NEW t \in Threads, Sends(t) \/ Retries(t) PROVE \A u \in Threads : Old(u)
      <3>1. /\ Others(t) /\ job'[t].row = job[t].row /\ job'[t].msg = job[t].msg
            /\ pc[t] \in {"routing", "sending"} /\ pc'[t] = "sending"
        BY <2>8 DEF Sends, Retries, Kept
      <3>2. Old(t)
        BY <1>1, <1>2, <3>1 DEF Old
      <3> QED
        BY <2>2, <3>1, <3>2
    <2>9. ASSUME NEW t \in Threads, Begins(t) PROVE \A u \in Threads : Old(u)
      <3>1. /\ Others(t) /\ job'[t].msg = job[t].msg /\ pc[t] \in {"routing", "sending"}
            /\ pc'[t] = "legs" \/ (pc'[t] = "whole" /\ job[t].row = NoRow)
        BY <2>9 DEF Begins, Kept
      <3>2. Old(t)
        BY <1>1, <1>2, <3>1 DEF Old
      <3> QED
        BY <2>2, <3>1, <3>2
    <2>10. ASSUME NEW t \in Threads, Enqueues(t) PROVE \A u \in Threads : Old(u)
      <3>1. /\ Others(t) /\ job'[t].msg = job[t].msg /\ pc' = pc /\ pc[t] \in Queueing /\ job[t].todo > 0
            /\ job[t].todo \in Nat
        BY <2>10, JobTypes DEF Enqueues, Kept
      <3>2. Old(t)
        BY <1>1, <1>2, <3>1 DEF Old, Queueing
      <3> QED
        BY <2>2, <3>1, <3>2
    <2>11. ASSUME NEW t \in Threads, Replays(t) PROVE \A u \in Threads : Old(u)
      <3>1. Others(t) /\ job' = job /\ pc'[t] = "routing" /\ job[t].row # NoRow
        BY <2>11 DEF Replays, JobInv, JobOK, AtRow, RowIds, NoRow
      <3>2. Old(t)
        BY <3>1 DEF Old
      <3> QED
        BY <2>2, <3>1, <3>2
    <2>12. ASSUME NEW m \in Msgs, Attempts(m) PROVE \A u \in Threads : Old(u)
      <3>1. Others(Bridge) /\ job'[Bridge].msg = m /\ m \in inbox /\ pc'[Bridge] = "routing"
        BY <2>12 DEF Attempts, Loaded
      <3>2. Old(Bridge)
        BY <1>2, <3>1 DEF Old
      <3> QED
        BY <2>2, <3>1, <3>2, M2RAssumption
    <2> QED
      BY <2>4, <2>5, <2>6, <2>7, <2>8, <2>9, <2>10, <2>11, <2>12 DEF Works
  <1>8. ASSUME NEW m \in Msgs, Arrives(m), TableGrew(FALSE, m, NoOrigin) PROVE WholeInv'
    <2>1. PICK x \in RowIds : Adds(x, FALSE, m, NoOrigin)
      BY <1>8 DEF TableGrew
    <2>2. /\ info'[x].msg = m /\ m \in inbox /\ pc' = pc /\ job' = job
      BY <1>8, <2>1 DEF Adds, Arrives
    <2>3. \A t \in Threads : pc[t] # "idle" => job[t].msg \notin inbox
      BY DEF JobInv, JobOK
    <2>4. \A t \in Threads : Alike(t, x)' => Early(t, x)'
      BY <2>2, <2>3
    <2> HIDE DEF Old, Alike, Early
    <2> QED
      BY <1>6, <1>7, <2>1, <2>4
  <1>9. ASSUME NEW t \in Threads, Retries(t), TableGrew(TRUE, job[t].msg, NoOrigin) PROVE WholeInv'
    <2>1. PICK x \in RowIds : Adds(x, TRUE, job[t].msg, NoOrigin)
      BY <1>9 DEF TableGrew
    <2>2. info'[x].leg
      BY <2>1 DEF Adds
    <2>3. \A u \in Threads : Alike(u, x)' => Early(u, x)'
      BY <2>2
    <2> HIDE DEF Old, Alike, Early
    <2> QED
      BY <1>6, <1>7, <2>1, <2>3
  <1>10. ASSUME NEW t \in Threads, Enqueues(t), TableGrew(pc[t] = "legs", job[t].msg, job[t].origin) PROVE WholeInv'
    <2>1. PICK x \in RowIds : Adds(x, pc[t] = "legs", job[t].msg, job[t].origin)
      BY <1>10 DEF TableGrew
    <2>2. /\ (info'[x].leg <=> pc[t] = "legs") /\ info'[x].origin = job[t].origin
      BY <2>1 DEF Adds
    <2>3. /\ pc' = pc /\ Others(t) /\ pc[t] \in Queueing /\ job'[t].origin = job[t].origin
          /\ job'[t].todo = job[t].todo - 1 /\ job[t].todo > 0
      BY <1>10 DEF Enqueues
    <2>4. \A u \in Threads : /\ pc[u] # "idle" /\ job[u].row = NoRow => u = Bridge
                             /\ pc[u] = "whole" => job[u].row = NoRow
      BY DEF JobInv, JobOK
    <2>5. /\ job[t].todo \in Nat /\ job[t].stored \in Nat
          /\ pc[t] = "whole" => job[t].stored + job[t].todo <= 1
      BY <2>3, JobTypes DEF QueueingInv, QueueingOK
    <2>6. ASSUME NEW u \in Threads, Alike(u, x)' PROVE Early(u, x)'
      <3>1. CASE u = t
        BY <2>2, <2>3, <2>5, <2>6, <3>1 DEF Queueing
      <3>2. CASE u # t
        <4>1. pc'[u] = pc[u] /\ job'[u] = job[u]
          BY <2>3, <3>2 DEF Others
        <4> QED
          BY <2>2, <2>3, <2>4, <2>6, <3>2, <4>1 DEF Queueing
      <3> QED
        BY <3>1, <3>2
    <2> HIDE DEF Old, Alike, Early
    <2> QED
      BY <1>6, <1>7, <2>1, <2>6
  <1> HIDE DEF Old
  <1> QED
    BY <1>5, <1>7, <1>8, <1>9, <1>10, TableFates

------------------------------------------------------------------------------
(* The map of pending origins *)

\* An entry of its own message, with rows that nobody else writes.
LEMMA RowsGrow ==
    ASSUME TypeOK, JobInv, Works, NEW o
    PROVE  /\ RowsOf(o) \subseteq RowsOf(o)'
           /\ \/ RowsOf(o)' = RowsOf(o)
              \/ o = NoOrigin
              \/ \E t \in Threads : Enqueues(t) /\ job[t].origin = o
  <1>1. CASE TableKept
    BY <1>1 DEF TableKept
  <1>2. ASSUME NEW leg, NEW m, NEW p, TableGrew(leg, m, p)
        PROVE  RowsOf(o) \subseteq RowsOf(o)' /\ (o # p => RowsOf(o)' = RowsOf(o))
    BY <1>2, RowsAdded DEF TableGrew
  <1>3. ASSUME NEW t \in Threads, Enqueues(t), TableGrew(pc[t] = "legs", job[t].msg, job[t].origin)
        PROVE  /\ RowsOf(o) \subseteq RowsOf(o)'
               /\ RowsOf(o)' = RowsOf(o) \/ (Enqueues(t) /\ job[t].origin = o)
    <2> DEFINE leg == pc[t] = "legs"
    <2>1. TableGrew(leg, job[t].msg, job[t].origin)
      BY <1>3
    <2> HIDE DEF leg
    <2> QED
      BY <1>2, <1>3, <2>1
  <1>4. ASSUME NEW t \in Threads, Retries(t), TableGrew(TRUE, job[t].msg, NoOrigin)
        PROVE  RowsOf(o) \subseteq RowsOf(o)' /\ (o # NoOrigin => RowsOf(o)' = RowsOf(o))
    BY <1>2, <1>4
  <1>5. ASSUME NEW m \in Msgs, Arrives(m), TableGrew(FALSE, m, NoOrigin)
        PROVE  RowsOf(o) \subseteq RowsOf(o)' /\ (o # NoOrigin => RowsOf(o)' = RowsOf(o))
    BY <1>2, <1>5
  <1> QED
    BY <1>1, <1>3, <1>4, <1>5, TableFates

\* The ends of rows the accounting does not hear of are not of its origins.
LEMMA EndsHeard ==
    ASSUME TypeOK, JobInv, Works, NEW o \in tracked, EntryKept(o) \/ EntrySettled(o)
    PROVE  Cardinality(EndedOf(o)') <= Cardinality(EndedOf(o)) \/ EntryTold(o)
  <1> DEFINE Goal == Cardinality(EndedOf(o)') <= Cardinality(EndedOf(o)) \/ EntryTold(o)
  <1>1. o # NoOrigin /\ Cardinality(EndedOf(o)) \in Nat
    BY TrackedOrigins, Finite
  <1>2. ASSUME UNCHANGED <<rows, info>> PROVE Goal
    BY <1>1, <1>2, RowsKept
  <1>3. ASSUME NEW r \in RowIds, NEW leg, NEW m, NEW p, Adds(r, leg, m, p) PROVE Goal
    BY <1>1, <1>3, RowsAdded
  <1>4. ASSUME NEW r \in RowIds, NEW to, NEW q, Shifts(r, to, q) PROVE Goal
    <2>1. /\ q \in {"quiet", "delivered", "dropped"} /\ Born(r)
          /\ Cardinality(EndedOf(o)') <= Cardinality(EndedOf(o)) + (IF q # "quiet" /\ o = info[r].origin THEN 1 ELSE 0)
      BY <1>4, StepShape, RowsShifted DEF Shifts
    <2>2. CASE q # "quiet" /\ o = info[r].origin
      <3>1. Reported(o, q)
        BY <1>1, <1>4, <2>2 DEF Shifts
      <3> QED
        BY <1>4, <2>1, <2>2, <3>1 DEF EntryTold
    <2>3. CASE ~(q # "quiet" /\ o = info[r].origin)
      <3>1. Cardinality(EndedOf(o)') <= Cardinality(EndedOf(o)) + 0
        BY <2>1, <2>3
      <3>2. IsFiniteSet(EndedOf(o)')
        <4>1. EndedOf(o)' \subseteq RowIds
          BY DEF EndedOf
        <4> QED
          BY <4>1, Finite, FS_Subset
      <3>3. Cardinality(EndedOf(o)') \in Nat
        BY <3>2, FS_CardinalityType
      <3> QED
        BY <1>1, <3>1, <3>3
    <2> QED
      BY <2>2, <2>3
  <1>5. ASSUME NEW t \in Threads, Leaves(t) PROVE Goal
    <2>1. job[t].row \in RowIds
      BY <1>5 DEF Leaves, JobInv, JobOK, AtRow
    <2> QED
      BY <2>1, <1>2, <1>4, <1>5 DEF Leaves
  <1>6. ASSUME NEW r \in RowIds, Moves(r) PROVE Goal
    BY <1>6, <1>4 DEF Moves
  <1>7. ASSUME NEW m \in Msgs, Arrives(m) \/ Attempts(m) PROVE Goal
    BY <1>7, <1>2, <1>3 DEF Arrives, Attempts
  <1>8. ASSUME NEW t \in Threads, Closes(t) \/ Sends(t) \/ Begins(t) \/ Goes(t) \/ Settles(t) \/ Replays(t) PROVE Goal
    BY <1>8, <1>2 DEF Closes, Sends, Begins, Goes, Settles, Replays
  <1>9. ASSUME NEW t \in Threads, Retries(t) PROVE Goal
    BY <1>9, <1>2, <1>3 DEF Retries
  <1>10. ASSUME NEW t \in Threads, Enqueues(t) PROVE Goal
    BY <1>10, <1>2, <1>3 DEF Enqueues
  <1>11. ASSUME NEW t \in Threads, NEW r \in RowIds, Takes(t, r) PROVE Goal
    <2>1. rows[r] = "waiting" /\ rows' = [rows EXCEPT ![r] = "taken"] /\ UNCHANGED info
      BY <1>11 DEF Takes
    <2>2. rows \in [RowIds -> Queue!States]
      BY DEF TypeOK
    <2>3. EndedOf(o)' = EndedOf(o)
      BY <2>1, <2>2 DEF EndedOf, Born, Live
    <2> QED
      BY <1>1, <2>3
  <1> HIDE DEF Goal
  <1>12. Goal
    BY <1>5, <1>6, <1>7, <1>8, <1>9, <1>10, <1>11 DEF Works
  <1> QED
    BY <1>12 DEF Goal

\* EntryInv is preserved.
LEMMA EntryStep ==
    ASSUME TypeOK, TypeOK', JobInv, QueueingInv, RowInv, EntryInv, Works
    PROVE  EntryInv'
  <1> SUFFICES ASSUME NEW o \in tracked' PROVE EntryOK(o)'
    BY DEF EntryInv
  <1>1. o \in tracked \/ (o = minted + 1 /\ minted' = minted + 1)
    BY PendingMoves
  <1>2. CASE o \notin tracked
    <2>1. o = minted + 1 /\ \E t \in Threads : Begins(t)
      BY <1>1, <1>2, PendingMoves
    <2>2. PICK t \in Threads : Begins(t)
      BY <2>1
    <2>3. PICK n \in Nat \ {0} : Track(job[t].msg, n)
      BY <2>2 DEF Begins
    <2>4. IsNew(entry'[o], job[t].msg, n)
      BY <2>1, <2>3, JobTypes, TrackFacts
    <2>5. RowsOf(o)' = {}
      <3>1. RowsOf(o) = {} /\ minted \in Nat
        BY <2>1, PendingMoves DEF RowInv, RowsOf
      <3>2. UNCHANGED <<rows, info>>
        BY <2>2 DEF Begins
      <3> QED
        BY <3>1, <3>2, RowsKept
    <2>6. Cardinality(EndedOf(o)') = 0
      <3>1. EndedOf(o)' \subseteq RowsOf(o)'
        BY DEF EndedOf, RowsOf
      <3> QED
        BY <2>5, <3>1, FS_EmptySet
    <2>7. pc'[t] \in Queueing /\ job'[t].origin = o
      BY <2>1, <2>2 DEF Begins, Queueing
    <2> QED
      BY <2>3, <2>4, <2>6, <2>7 DEF EntryOK, IsNew
  <1>3. CASE o \in tracked
    <2> DEFINE e == entry[o]
    <2>1. EntryOK(o) /\ o \in Origins /\ o # NoOrigin
      BY <1>3, TrackedOrigins DEF EntryInv
    <2>2. /\ e.dropped \in Nat /\ e.terminals \in Nat /\ e.legs \in Nat
          /\ Cardinality(EndedOf(o)) \in Nat /\ Cardinality(RowsOf(o)) \in Nat
      BY <2>1, Finite DEF TypeOK, Entries
    <2>3. Cardinality(EndedOf(o)') \in Nat
      <3>1. EndedOf(o)' \subseteq RowIds
        BY DEF EndedOf
      <3> QED
        BY <3>1, Finite, FS_Subset, FS_CardinalityType
    <2>4. RowsOf(o) \subseteq RowsOf(o)'
      BY RowsGrow
    <2>5. CASE EntryTold(o)
      <3>1. PICK r \in RowIds, q \in {"delivered", "dropped"} :
                 Born(r) /\ info[r].origin = o /\ Reported(o, q) /\ \E to : Shifts(r, to, q)
        BY <2>5 DEF EntryTold
      <3>2. /\ Cardinality(EndedOf(o)') <= Cardinality(EndedOf(o)) + 1
            /\ RowsOf(o)' = RowsOf(o)
        BY <3>1, RowsShifted
      <3>3. r \in RowsOf(o)
        BY <3>1 DEF RowsOf
      <3>4. ~(e.terminals + 1 >= e.legs)
        BY <3>1 DEF Reported
      <3>5. /\ entry'[o].legs = e.legs /\ entry'[o].terminals = e.terminals + 1
            /\ entry'[o].dropped = e.dropped + (IF q = "dropped" THEN 1 ELSE 0)
            /\ entry'[o].resolved <=> \/ e.resolved
                                      \/ q = "delivered" /\ ~e.resolved
                                      \/ q = "dropped" /\ ~e.resolved /\ e.dropped + 1 >= e.legs
        BY <3>1, <3>4 DEF Reported
      <3>6. \A t \in Threads : pc[t] \in Queueing => pc'[t] = pc[t] /\ job'[t] = job[t]
        <4>1. UNCHANGED <<info, minted>> /\ entry' # entry
          <5>1. entry'[o] # entry[o]
            BY <2>2, <3>5
          <5> QED
            BY <3>1, <5>1 DEF Shifts
        <4>2. ASSUME NEW m \in Msgs, Arrives(m) \/ Attempts(m) PROVE FALSE
          BY <4>1, <4>2 DEF Arrives, Attempts
        <4>3. ASSUME NEW t \in Threads,
                     Closes(t) \/ Sends(t) \/ Retries(t) \/ Begins(t) \/ Enqueues(t) \/ Goes(t)
              PROVE  FALSE
          <5>1. UNCHANGED entry \/ Begins(t)
            BY <4>3 DEF Closes, Sends, Retries, Enqueues, Goes
          <5>2. Begins(t) => minted' = minted + 1
            BY DEF Begins, Track
          <5> QED
            BY <4>1, <5>1, <5>2, PendingMoves
        <4>4. ASSUME NEW t \in Threads, Settles(t) \/ Replays(t) PROVE FALSE
          <5>1. CASE Settles(t)
            <6>1. o = job[t].origin
              BY <2>1, <2>2, <3>5, <5>1 DEF Settles
            <6> QED
              BY <1>3, <2>2, <3>5, <5>1, <6>1 DEF Settles
          <5>2. CASE Replays(t)
            <6>1. o = info[job[t].row].origin
              BY <2>1, <2>2, <3>5, <5>2 DEF Replays
            <6> QED
              BY <1>3, <2>2, <3>1, <5>2, <6>1 DEF Replays
          <5> QED
            BY <4>4, <5>1, <5>2
        <4>5. ASSUME NEW t \in Threads, NEW x \in RowIds, Takes(t, x) PROVE FALSE
          BY <4>1, <4>5 DEF Takes
        <4>6. ASSUME NEW t \in Threads, Leaves(t)
              PROVE  \A u \in Threads : pc[u] \in Queueing => pc'[u] = pc[u] /\ job'[u] = job[u]
          BY <4>6 DEF Leaves, Others, Queueing
        <4>7. ASSUME NEW x \in RowIds, Moves(x)
              PROVE  \A u \in Threads : pc[u] \in Queueing => pc'[u] = pc[u] /\ job'[u] = job[u]
          BY <4>7 DEF Moves
        <4> QED
          BY <4>2, <4>3, <4>4, <4>5, <4>6, <4>7 DEF Works
      <3> QED
        BY <2>1, <2>2, <2>3, <3>2, <3>3, <3>4, <3>5, <3>6 DEF EntryOK
    <2>6. CASE EntryKept(o) /\ ~EntryTold(o) /\ ~EntrySettled(o)
      <3>1. entry'[o] = e /\ Cardinality(EndedOf(o)') <= Cardinality(EndedOf(o))
        BY <1>3, <2>6, EndsHeard DEF EntryKept
      <3>2. \A t \in Threads : pc[t] \in Queueing /\ job[t].origin = o => pc'[t] \in Queueing /\ job'[t].origin = o
        <4>1. SUFFICES ASSUME NEW t \in Threads, pc[t] \in Queueing, job[t].origin = o
                       PROVE  pc'[t] \in Queueing /\ job'[t].origin = o
          OBVIOUS
        <4>2. ~Settles(t)
          BY <2>6, <4>1 DEF EntrySettled
        <4>3. ASSUME NEW u \in Threads, Others(u), u # t PROVE pc'[t] \in Queueing /\ job'[t].origin = o
          BY <4>1, <4>3 DEF Others
        <4>4. ASSUME pc' = pc, job' = job PROVE pc'[t] \in Queueing /\ job'[t].origin = o
          BY <4>1, <4>4
        <4>5. ASSUME NEW u \in Threads, Closes(u) \/ Sends(u) \/ Retries(u) \/ Begins(u) \/ Goes(u) \/ Replays(u) \/ Leaves(u)
              PROVE  pc'[t] \in Queueing /\ job'[t].origin = o
          <5>1. Others(u) /\ pc[u] \notin Queueing
            BY <4>5 DEF Closes, Sends, Retries, Begins, Goes, Replays, Leaves, Finished, Queueing
          <5> QED
            BY <4>1, <4>3, <5>1
        <4>6. ASSUME NEW u \in Threads, Settles(u) PROVE pc'[t] \in Queueing /\ job'[t].origin = o
          BY <4>2, <4>3, <4>6 DEF Settles, Finished
        <4>7. ASSUME NEW u \in Threads, Enqueues(u) PROVE pc'[t] \in Queueing /\ job'[t].origin = o
          BY <4>1, <4>3, <4>7 DEF Enqueues
        <4>8. ASSUME NEW m \in Msgs, Arrives(m) \/ Attempts(m) PROVE pc'[t] \in Queueing /\ job'[t].origin = o
          <5>1. CASE Arrives(m)
            BY <4>4, <5>1 DEF Arrives
          <5>2. CASE Attempts(m)
            BY <4>1, <4>3, <5>2, M2RAssumption DEF Attempts, Queueing
          <5> QED
            BY <4>8, <5>1, <5>2
        <4>9. ASSUME NEW u \in Threads, NEW r \in RowIds, Takes(u, r) PROVE pc'[t] \in Queueing /\ job'[t].origin = o
          BY <4>1, <4>3, <4>9 DEF Takes, Queueing
        <4>10. ASSUME NEW r \in RowIds, Moves(r) PROVE pc'[t] \in Queueing /\ job'[t].origin = o
          BY <4>4, <4>10 DEF Moves
        <4> QED
          BY <4>5, <4>6, <4>7, <4>8, <4>9, <4>10 DEF Works
      <3>3. \/ RowsOf(o)' = RowsOf(o)
            \/ \E t \in Threads : pc[t] \in Queueing /\ job[t].origin = o
        BY <2>1, RowsGrow DEF Enqueues
      <3> QED
        BY <2>1, <2>2, <2>3, <2>4, <3>1, <3>2, <3>3 DEF EntryOK
    <2>7. CASE EntrySettled(o) /\ ~EntryTold(o)
      <3>1. PICK t \in Threads : Settles(t) /\ job[t].origin = o
        BY <2>7 DEF EntrySettled
      <3> DEFINE n == job[t].stored
      <3>2. QueueingOK(t) /\ pc[t] \in Queueing
        BY <3>1 DEF Settles, QueueingInv
      <3>3. n = Cardinality(RowsOf(o)) /\ n # 0 /\ ~(e.terminals >= n)
        BY <1>3, <3>1, <3>2 DEF Settles, QueueingOK
      <3>4. /\ entry'[o].legs = n /\ entry'[o].dropped = e.dropped /\ entry'[o].terminals = e.terminals
            /\ entry'[o].resolved <=> (e.resolved \/ (~e.resolved /\ e.dropped >= n))
        BY <1>3, <3>1, <3>3 DEF Settles
      <3>5. RowsOf(o)' = RowsOf(o) /\ EndedOf(o)' = EndedOf(o)
        BY <3>1, RowsKept DEF Settles
      <3> QED
        BY <2>1, <2>2, <3>3, <3>4, <3>5 DEF EntryOK
    <2>8. ~EntryEvicted(o) /\ ~EntryClaimed(o)
      BY DEF EntryEvicted, EntryClaimed
    <2> QED
      BY <1>3, <2>5, <2>6, <2>7, <2>8, EntryFates
  <1> QED
    BY <1>2, <1>3

\* Nothing is counted or sent of a message still in the inbox.
LEMMA InboxStep ==
    ASSUME TypeOK, JobInv, RowInv, InboxInv, Works
    PROVE  InboxInv'
  <1> SUFFICES ASSUME NEW m \in inbox' PROVE att'[m] = 0 /\ m \notin wire'
    BY DEF InboxInv
  <1>1. m \in inbox /\ att[m] = 0 /\ m \notin wire /\ att \in [Msgs -> Nat] /\ m \in Msgs
    BY Steady DEF InboxInv, TypeOK
  <1> DEFINE Goal == att'[m] = 0 /\ m \notin wire'
  <1>2. \A t \in Threads : pc[t] # "idle" => job[t].msg # m
    BY <1>1 DEF JobInv, JobOK
  <1>3. \A r \in RowIds : Born(r) => info[r].msg # m
    BY <1>1 DEF RowInv
  <1>4. ASSUME NEW r \in RowIds, NEW to, NEW q, Shifts(r, to, q) PROVE att'[m] = 0
    BY <1>1, <1>3, <1>4 DEF Shifts, Reported, Plus
  <1>5. ASSUME NEW t \in Threads, Leaves(t) PROVE Goal
    <2>1. job[t].row \in RowIds
      BY <1>5 DEF Leaves, JobInv, JobOK, AtRow
    <2> QED
      BY <2>1, <1>1, <1>4, <1>5 DEF Leaves
  <1>6. ASSUME NEW r \in RowIds, Moves(r) PROVE Goal
    BY <1>1, <1>6, <1>4 DEF Moves
  <1>7. ASSUME NEW x \in Msgs, Arrives(x) \/ Attempts(x) PROVE Goal
    BY <1>1, <1>7 DEF Arrives, Attempts, Plus
  <1>8. ASSUME NEW t \in Threads, Closes(t) \/ Retries(t) \/ Enqueues(t) \/ Settles(t) PROVE Goal
    BY <1>1, <1>8 DEF Closes, Retries, Enqueues, Settles
  <1>9. ASSUME NEW t \in Threads, Sends(t) \/ Goes(t) \/ Replays(t) PROVE Goal
    BY <1>1, <1>2, <1>9 DEF Sends, Goes, Replays, Plus
  <1>10. ASSUME NEW t \in Threads, Begins(t) PROVE Goal
    <2>1. UNCHANGED att
      BY <1>10 DEF Begins, Track, counters
    <2> QED
      BY <1>1, <1>10, <2>1 DEF Begins
  <1>11. ASSUME NEW t \in Threads, NEW r \in RowIds, Takes(t, r) PROVE Goal
    BY <1>1, <1>11 DEF Takes
  <1> HIDE DEF Goal
  <1>12. Goal
    BY <1>5, <1>6, <1>7, <1>8, <1>9, <1>10, <1>11 DEF Works
  <1> QED
    BY <1>12 DEF Goal

------------------------------------------------------------------------------
(* Attempts and their outcomes *)

\* The terms of the sum that one step may change: one thread, one origin.
Weight(t, m) == IF Bears(t, m) THEN 1 ELSE 0
Debt(o, m)   == IF Owes(o, m) THEN 1 ELSE 0
Level(m, t, o) == dlv[m] + drp[m] + Weight(t, m) + Debt(o, m)

\* A step that changes what one thread bears and one entry owes, and balances
\* them, unless the message was evicted.
SameBut(m, t, o) == /\ \A u \in Threads \ {t} : Bears(u, m)' <=> Bears(u, m)
                    /\ \A p \in Origins \ {o} : Owes(p, m)' <=> Owes(p, m)
Evens(m, t, o) ==
    /\ Level(m, t, o)' + att[m] <= Level(m, t, o) + att'[m]
    /\ m \notin evicted' => Level(m, t, o)' + att[m] = Level(m, t, o) + att'[m]

\* The law holds after a step if it holds of these terms.
LEMMA Balance ==
    ASSUME TypeOK, TypeOK', NEW m \in Msgs, NEW t \in Threads, NEW o, ConservedAt(m),
           evicted \subseteq evicted', SameBut(m, t, o), Evens(m, t, o)
    PROVE  ConservedAt(m)'
  <1>1. /\ att[m] \in Nat /\ dlv[m] \in Nat /\ drp[m] \in Nat
        /\ att'[m] \in Nat /\ dlv'[m] \in Nat /\ drp'[m] \in Nat
    BY DEF TypeOK
  <1>2. /\ Cardinality(Bearers(m)) \in Nat /\ Cardinality(Bearers(m)') \in Nat
        /\ Cardinality(Bearers(m)') + Weight(t, m) = Cardinality(Bearers(m)) + Weight(t, m)'
    <2> DEFINE S == Bearers(m)
               T == Bearers(m)'
    <2>1. IsFiniteSet(S) /\ \A y : y # t => (y \in S <=> y \in T)
      BY Finite DEF Bearers, SameBut
    <2>2. (t \in S <=> Bears(t, m)) /\ (t \in T <=> Bears(t, m)')
      BY DEF Bearers
    <2> HIDE DEF S, T
    <2>3. /\ Cardinality(S) \in Nat /\ Cardinality(T) \in Nat
          /\ Cardinality(T) + (IF t \in S THEN 1 ELSE 0) = Cardinality(S) + (IF t \in T THEN 1 ELSE 0)
      BY <2>1, Counting
    <2>4. /\ Weight(t, m) = IF t \in S THEN 1 ELSE 0
          /\ Weight(t, m)' = IF t \in T THEN 1 ELSE 0
      BY <2>2 DEF Weight
    <2>5. /\ Cardinality(S) \in Nat /\ Cardinality(T) \in Nat
          /\ Cardinality(T) + Weight(t, m) = Cardinality(S) + Weight(t, m)'
      BY <2>3, <2>4
    <2> QED
      BY <2>5 DEF S, T
  <1>3. /\ Cardinality(Owing(m)) \in Nat /\ Cardinality(Owing(m)') \in Nat
        /\ Cardinality(Owing(m)') + Debt(o, m) = Cardinality(Owing(m)) + Debt(o, m)'
    <2> DEFINE S == Owing(m)
               T == Owing(m)'
    <2>1. IsFiniteSet(S) /\ \A y : y # o => (y \in S <=> y \in T)
      BY Finite DEF Owing, SameBut
    <2>2. (o \in S <=> Owes(o, m)) /\ (o \in T <=> Owes(o, m)')
      <3>1. tracked \subseteq Origins /\ tracked' \subseteq Origins
        BY M2RAssumption DEF TypeOK, Origins
      <3> QED
        BY <3>1 DEF Owing, Owes
    <2> HIDE DEF S, T
    <2>3. /\ Cardinality(S) \in Nat /\ Cardinality(T) \in Nat
          /\ Cardinality(T) + (IF o \in S THEN 1 ELSE 0) = Cardinality(S) + (IF o \in T THEN 1 ELSE 0)
      BY <2>1, Counting
    <2>4. /\ Debt(o, m) = IF o \in S THEN 1 ELSE 0
          /\ Debt(o, m)' = IF o \in T THEN 1 ELSE 0
      BY <2>2 DEF Debt
    <2>5. /\ Cardinality(S) \in Nat /\ Cardinality(T) \in Nat
          /\ Cardinality(T) + Debt(o, m) = Cardinality(S) + Debt(o, m)'
      BY <2>3, <2>4
    <2> QED
      BY <2>5 DEF S, T
  <1>4. /\ Weight(t, m) \in Nat /\ Weight(t, m)' \in Nat /\ Debt(o, m) \in Nat /\ Debt(o, m)' \in Nat
    BY DEF Weight, Debt
  <1>5. Sum(m)' + Level(m, t, o) = Sum(m) + Level(m, t, o)'
    <2> DEFINE W == Weight(t, m)
               WW == Weight(t, m)'
               D == Debt(o, m)
               DD == Debt(o, m)'
               B == Cardinality(Bearers(m))
               BB == Cardinality(Bearers(m)')
               O == Cardinality(Owing(m))
               OO == Cardinality(Owing(m)')
    <2>1. /\ B \in Nat /\ BB \in Nat /\ BB + W = B + WW
          /\ O \in Nat /\ OO \in Nat /\ OO + D = O + DD
          /\ W \in Nat /\ WW \in Nat /\ D \in Nat /\ DD \in Nat
      BY <1>2, <1>3, <1>4
    <2>2. /\ Sum(m) = dlv[m] + drp[m] + B + O /\ Level(m, t, o) = dlv[m] + drp[m] + W + D
          /\ Sum(m)' = dlv'[m] + drp'[m] + BB + OO /\ Level(m, t, o)' = dlv'[m] + drp'[m] + WW + DD
      BY DEF Sum, Level
    <2> HIDE DEF W, WW, D, DD, B, BB, O, OO
    <2>3. /\ dlv[m] + drp[m] \in Int /\ dlv'[m] + drp'[m] \in Int
          /\ Sum(m) = (dlv[m] + drp[m]) + (B + O)
          /\ Level(m, t, o) = (dlv[m] + drp[m]) + (W + D)
          /\ Sum(m)' = (dlv'[m] + drp'[m]) + (BB + OO)
          /\ Level(m, t, o)' = (dlv'[m] + drp'[m]) + (WW + DD)
      BY <1>1, <2>1, <2>2
    <2>4. (BB + OO) + (W + D) = (B + O) + (WW + DD)
      BY <2>1
    <2> QED
      BY <2>1, <2>3, <2>4
  <1>6. /\ Sum(m) \in Nat /\ Sum(m)' \in Nat /\ Level(m, t, o) \in Nat /\ Level(m, t, o)' \in Nat
    BY <1>1, <1>2, <1>3, <1>4 DEF Level, Sum
  <1>7. Sum(m)' <= att'[m]
    BY <1>1, <1>5, <1>6 DEF Evens, ConservedAt
  <1>8. ASSUME m \notin evicted' PROVE Sum(m)' = att'[m]
    <2>1. Level(m, t, o)' + att[m] = Level(m, t, o) + att'[m]
      BY <1>8 DEF Evens
    <2>2. m \notin evicted
      BY <1>8
    <2>3. Sum(m) = att[m]
      BY <2>2 DEF ConservedAt
    <2> QED
      BY <1>1, <1>5, <1>6, <2>1, <2>3
  <1> QED
    BY <1>7, <1>8 DEF ConservedAt

\* A counter of one message.
LEMMA PlusAt ==
    ASSUME NEW f \in [Msgs -> Nat], NEW k \in Msgs, NEW m \in Msgs
    PROVE  Plus(f, k)[m] = f[m] + (IF m = k THEN 1 ELSE 0)
  BY DEF Plus

\* An end that is reported, or a step that reports nothing.
LEMMA Countable ==
    ASSUME TypeOK
    PROVE  /\ att \in [Msgs -> Nat] /\ dlv \in [Msgs -> Nat] /\ drp \in [Msgs -> Nat]
           /\ \A m \in Msgs : att[m] \in Nat /\ dlv[m] \in Nat /\ drp[m] \in Nat
           /\ tracked \subseteq Origins /\ NoOrigin \in 0..MaxOrigins /\ NoOrigin \notin Origins
           /\ \A o \in Origins : o \in 0..MaxOrigins
           /\ \A r \in RowIds : info[r].origin \in 0..MaxOrigins
           /\ \A t \in Threads : job[t].origin \in 0..MaxOrigins
  <1>1. /\ att \in [Msgs -> Nat] /\ dlv \in [Msgs -> Nat] /\ drp \in [Msgs -> Nat]
        /\ info \in [RowIds -> [leg : BOOLEAN, msg : Msgs, origin : Origins \cup {NoOrigin}]]
    BY DEF TypeOK
  <1>2. /\ NoOrigin \in 0..MaxOrigins /\ NoOrigin \notin Origins
        /\ \A o \in Origins \cup {NoOrigin} : o \in 0..MaxOrigins
    BY M2RAssumption DEF NoOrigin, Origins
  <1>3. \A t \in Threads : job[t].origin \in Origins \cup {NoOrigin}
    BY JobTypes
  <1> QED
    BY <1>1, <1>2, <1>3, TrackedOrigins

\* A report moves what an entry owed to a counter.
LEMMA ShiftBalance ==
    ASSUME TypeOK, TypeOK', RowInv, EntryInv, NEW r \in RowIds, NEW to, NEW q, Shifts(r, to, q),
           NEW m \in Msgs, NEW t, Bears(t, m)' <=> Bears(t, m), NEW o, o = info[r].origin
    PROVE  (\A p \in Origins \ {o} : Owes(p, m)' <=> Owes(p, m)) /\ Evens(m, t, o)
  <1>1. /\ att \in [Msgs -> Nat] /\ dlv \in [Msgs -> Nat] /\ drp \in [Msgs -> Nat]
        /\ att[m] \in Nat /\ dlv[m] \in Nat /\ drp[m] \in Nat /\ Debt(o, m) \in Nat
        /\ tracked \subseteq Origins
    BY Countable DEF Debt
  <1>2. Weight(t, m)' = Weight(t, m) /\ Weight(t, m) \in Nat
    BY DEF Weight
  <1>3. \A p : RowsOf(p)' = RowsOf(p)
    BY RowsShifted
  <1>4. Born(r) /\ r \in RowsOf(o)
    BY DEF Shifts, RowsOf
  <1>5. CASE UNCHANGED <<tracked, entry>>
    <2>1. \A p : Owes(p, m)' <=> Owes(p, m)
      BY <1>3, <1>5 DEF Owes
    <2>2. att'[m] - att[m] = (dlv'[m] + drp'[m]) - (dlv[m] + drp[m])
      <3>1. CASE UNCHANGED <<att, dlv, drp>>
        BY <1>1, <3>1
      <3>2. CASE /\ att' = Plus(att, info[r].msg) /\ drp' = Plus(drp, info[r].msg) /\ UNCHANGED dlv
        <4>1. info[r].msg \in Msgs
          BY DEF TypeOK
        <4>2. /\ att'[m] = att[m] + (IF m = info[r].msg THEN 1 ELSE 0)
              /\ drp'[m] = drp[m] + (IF m = info[r].msg THEN 1 ELSE 0)
          BY <1>1, <3>2, <4>1, PlusAt
        <4> QED
          BY <1>1, <3>2, <4>2
      <3>3. CASE Reported(o, q)
        <4>1. ~(entry[o].terminals + 1 >= entry[o].legs) /\ entry[o].terminals \in Nat
          BY <1>1, <1>5, <3>3 DEF Reported, TypeOK, Entries
        <4> QED
          BY <1>5, <3>3, <4>1 DEF Reported
      <3> QED
        BY <3>1, <3>2, <3>3 DEF Shifts
    <2>3. /\ att'[m] \in Nat /\ dlv'[m] \in Nat /\ drp'[m] \in Nat
          /\ Debt(o, m)' = Debt(o, m)
      BY <2>1 DEF TypeOK, Debt
    <2> QED
      BY <1>1, <1>2, <2>1, <2>2, <2>3 DEF Evens, Level
  <1>6. CASE Reported(o, q) /\ q \in {"delivered", "dropped"}
    <2> DEFINE e == entry[o]
    <2>1. /\ o \in tracked /\ e.msg \in Msgs /\ e.dropped \in Nat /\ e.terminals \in Nat
          /\ e.legs \in Nat /\ e.terminals < e.legs /\ (e.resolved <=> e.dropped # e.terminals)
          /\ e.dropped <= e.terminals
      BY <1>1, <1>6 DEF Reported, TypeOK, Entries, EntryInv, EntryOK
    <2>2. \A p \in Origins \ {o} : Owes(p, m)' <=> Owes(p, m)
      BY <1>3, <1>6 DEF Owes, Reported
    <2>3. Debt(o, m) = IF e.msg = m /\ ~e.resolved THEN 1 ELSE 0
      BY <1>4, <2>1 DEF Debt, Owes
    <2>4. UNCHANGED att
      BY <1>6 DEF Reported
    <2>5. CASE e.resolved
      <3>1. UNCHANGED <<dlv, drp>> /\ ~Owes(o, m)'
        BY <1>6, <2>5 DEF Reported, Owes
      <3>2. Debt(o, m)' = 0
        BY <3>1 DEF Debt
      <3> QED
        BY <1>1, <1>2, <2>2, <2>3, <2>4, <2>5, <3>1, <3>2 DEF Evens, Level
    <2>6. CASE ~e.resolved /\ q = "delivered"
      <3>1. dlv' = Plus(dlv, e.msg) /\ drp' = drp /\ ~Owes(o, m)'
        BY <1>6, <2>6 DEF Reported, Owes
      <3>2. Debt(o, m)' = 0
        BY <3>1 DEF Debt
      <3>3. dlv'[m] = dlv[m] + Debt(o, m)
        BY <1>1, <2>1, <2>3, <2>6, <3>1, PlusAt
      <3> QED
        BY <1>1, <1>2, <2>2, <2>4, <3>1, <3>2, <3>3 DEF Evens, Level
    <2>7. CASE ~e.resolved /\ q = "dropped" /\ e.dropped + 1 >= e.legs
      <3>1. drp' = Plus(drp, e.msg) /\ dlv' = dlv /\ ~Owes(o, m)'
        BY <1>6, <2>1, <2>7 DEF Reported, Owes
      <3>2. Debt(o, m)' = 0
        BY <3>1 DEF Debt
      <3>3. drp'[m] = drp[m] + Debt(o, m)
        BY <1>1, <2>1, <2>3, <2>7, <3>1, PlusAt
      <3> QED
        BY <1>1, <1>2, <2>2, <2>4, <3>1, <3>2, <3>3 DEF Evens, Level
    <2>8. CASE ~e.resolved /\ q = "dropped" /\ ~(e.dropped + 1 >= e.legs)
      <3>1. /\ UNCHANGED <<drp, dlv>> /\ o \in tracked' /\ entry'[o].msg = e.msg /\ ~entry'[o].resolved
        BY <1>6, <2>1, <2>8 DEF Reported
      <3>2. Debt(o, m)' = Debt(o, m)
        BY <1>3, <1>4, <2>3, <2>8, <3>1 DEF Debt, Owes
      <3> QED
        BY <1>1, <1>2, <2>2, <2>4, <3>1, <3>2 DEF Evens, Level
    <2> QED
      BY <1>6, <2>5, <2>6, <2>7, <2>8
  <1>7. q \in {"quiet", "delivered", "dropped"}
    BY StepShape DEF Shifts
  <1> QED
    BY <1>5, <1>6, <1>7 DEF Shifts

\* The law is preserved, one case per reduced step.
LEMMA ConservedStep ==
    ASSUME TypeOK, TypeOK', JobInv, QueueingInv, RowInv, EntryInv, Conserved, Works
    PROVE  Conserved'
  <1> SUFFICES ASSUME NEW m \in Msgs PROVE ConservedAt(m)'
    BY DEF Conserved
  <1> DEFINE Goal == \E t \in Threads, o \in 0..MaxOrigins : SameBut(m, t, o) /\ Evens(m, t, o)
  <1>1. /\ att \in [Msgs -> Nat] /\ dlv \in [Msgs -> Nat] /\ drp \in [Msgs -> Nat]
        /\ att' \in [Msgs -> Nat] /\ dlv' \in [Msgs -> Nat] /\ drp' \in [Msgs -> Nat]
        /\ att[m] \in Nat /\ dlv[m] \in Nat /\ drp[m] \in Nat
        /\ NoOrigin \in 0..MaxOrigins /\ tracked \subseteq Origins /\ NoOrigin \notin Origins
        /\ \A o \in Origins : o \in 0..MaxOrigins
    <2>1. att' \in [Msgs -> Nat] /\ dlv' \in [Msgs -> Nat] /\ drp' \in [Msgs -> Nat]
      BY DEF TypeOK
    <2> QED
      BY <2>1, Countable
  <1>2. \A t, o : /\ Weight(t, m) \in {0, 1} /\ Weight(t, m)' \in {0, 1}
                  /\ Debt(o, m) \in {0, 1} /\ Debt(o, m)' \in {0, 1}
                  /\ (Bears(t, m)' <=> Bears(t, m)) => Weight(t, m)' = Weight(t, m)
                  /\ (Owes(o, m)' <=> Owes(o, m)) => Debt(o, m)' = Debt(o, m)
    BY DEF Weight, Debt
  <1>3. ASSUME NEW t \in Threads, Others(t) PROVE \A u \in Threads \ {t} : Bears(u, m)' <=> Bears(u, m)
    BY <1>3 DEF Others, Bears
  <1>4. ASSUME UNCHANGED <<pc, job>> PROVE \A t \in Threads : Bears(t, m)' <=> Bears(t, m)
    BY <1>4 DEF Bears
  <1>5. ASSUME UNCHANGED <<tracked, entry>>, NEW o, \A p \in Origins \ {o} : RowsOf(p)' = RowsOf(p)
        PROVE  \A p \in Origins \ {o} : Owes(p, m)' <=> Owes(p, m)
    BY <1>5 DEF Owes
  <1>6. ~Owes(NoOrigin, m) /\ ~Owes(NoOrigin, m)'
    BY <1>1, TypeOK', M2RAssumption DEF Owes, TypeOK, NoOrigin
  <1>7. ASSUME NEW k \in Msgs, Arrives(k) PROVE Goal
    <2>1. Bridge \in Threads /\ UNCHANGED <<pc, job, tracked, entry>>
      BY <1>7, M2RAssumption DEF Arrives
    <2>2. \A p \in Origins \ {NoOrigin} : RowsOf(p)' = RowsOf(p)
      <3>1. CASE UNCHANGED <<rows, info>>
        BY <3>1, RowsKept
      <3>2. ASSUME NEW r \in RowIds, Adds(r, FALSE, k, NoOrigin)
            PROVE  \A p \in Origins \ {NoOrigin} : RowsOf(p)' = RowsOf(p)
        BY <3>2, RowsAdded
      <3> QED
        BY <1>7, <3>1, <3>2 DEF Arrives
    <2>3. SameBut(m, Bridge, NoOrigin)
      BY <1>4, <1>5, <2>1, <2>2 DEF SameBut
    <2>4. att'[m] + dlv[m] + drp[m] = att[m] + dlv'[m] + drp'[m]
      <3>1. CASE UNCHANGED <<att, dlv, drp>>
        BY <1>1, <3>1
      <3>2. CASE att' = Plus(att, k) /\ drp' = Plus(drp, k) /\ UNCHANGED dlv
        <4>1. /\ att'[m] = att[m] + (IF m = k THEN 1 ELSE 0)
              /\ drp'[m] = drp[m] + (IF m = k THEN 1 ELSE 0)
          BY <1>1, <3>2, PlusAt
        <4> QED
          BY <1>1, <3>2, <4>1
      <3> QED
        BY <1>7, <3>1, <3>2 DEF Arrives
    <2>5. Weight(Bridge, m)' = Weight(Bridge, m) /\ Debt(NoOrigin, m)' = Debt(NoOrigin, m)
      BY <1>2, <1>4, <1>6, <2>1
    <2>6. Evens(m, Bridge, NoOrigin)
      BY <1>1, <1>2, <2>4, <2>5 DEF Evens, Level
    <2> QED
      BY <1>1, <2>1, <2>3, <2>6
  <1>8. ASSUME NEW k \in Msgs, Attempts(k) PROVE Goal
    <2>1. Bridge \in Threads /\ Others(Bridge) /\ UNCHANGED <<tracked, entry, dlv, drp>>
      BY <1>8, M2RAssumption DEF Attempts
    <2>2. \A p : RowsOf(p)' = RowsOf(p)
      BY <1>8, RowsKept DEF Attempts
    <2>3. SameBut(m, Bridge, NoOrigin)
      BY <1>3, <1>5, <2>1, <2>2 DEF SameBut
    <2>4. att'[m] = att[m] + (IF m = k THEN 1 ELSE 0)
      BY <1>1, <1>8, PlusAt DEF Attempts
    <2>5. Weight(Bridge, m)' = (IF m = k THEN 1 ELSE 0) /\ Weight(Bridge, m) = 0
      BY <1>8 DEF Attempts, Loaded, Weight, Bears, Queueing
    <2>6. Evens(m, Bridge, NoOrigin)
      BY <1>1, <1>2, <1>6, <2>1, <2>4, <2>5 DEF Evens, Level
    <2> QED
      BY <1>1, <2>1, <2>3, <2>6
  <1>9. ASSUME NEW t \in Threads, Closes(t) PROVE Goal
    <2>1. Others(t) /\ UNCHANGED <<rows, info, tracked, entry, att>> /\ job[t].msg \in Msgs
      BY <1>9, JobTypes DEF Closes, Finished
    <2>2. \A p : RowsOf(p)' = RowsOf(p)
      BY <2>1, RowsKept
    <2>3. SameBut(m, t, NoOrigin)
      BY <1>3, <1>5, <2>1, <2>2 DEF SameBut
    <2>4. dlv'[m] + drp'[m] = dlv[m] + drp[m] + (IF m = job[t].msg THEN 1 ELSE 0)
      <3>1. CASE drp' = Plus(drp, job[t].msg) /\ UNCHANGED dlv
        <4>1. drp'[m] = drp[m] + (IF m = job[t].msg THEN 1 ELSE 0)
          BY <1>1, <2>1, <3>1, PlusAt
        <4> QED
          BY <1>1, <3>1, <4>1
      <3>2. CASE dlv' = Plus(dlv, job[t].msg) /\ UNCHANGED drp
        <4>1. dlv'[m] = dlv[m] + (IF m = job[t].msg THEN 1 ELSE 0)
          BY <1>1, <2>1, <3>2, PlusAt
        <4> QED
          BY <1>1, <3>2, <4>1
      <3> QED
        BY <1>9, <3>1, <3>2 DEF Closes
    <2>5. Weight(t, m) = (IF m = job[t].msg THEN 1 ELSE 0) /\ Weight(t, m)' = 0
      BY <1>9 DEF Closes, Finished, Weight, Bears, Queueing
    <2>6. Evens(m, t, NoOrigin)
      BY <1>1, <1>2, <1>6, <2>1, <2>4, <2>5 DEF Evens, Level
    <2> QED
      BY <1>1, <2>3, <2>6
  <1>10. ASSUME NEW t \in Threads, Sends(t) \/ Retries(t) \/ Goes(t) PROVE Goal
    <2>1. Others(t) /\ UNCHANGED <<tracked, entry, att, dlv, drp, evicted>>
      BY <1>10 DEF Sends, Retries, Goes
    <2>2. \A p \in Origins \ {NoOrigin} : RowsOf(p)' = RowsOf(p)
      <3>1. CASE UNCHANGED <<rows, info>>
        BY <3>1, RowsKept
      <3>2. CASE \E r \in RowIds : Adds(r, TRUE, job[t].msg, NoOrigin)
        BY <3>2, RowsAdded
      <3> QED
        BY <1>10, <3>1, <3>2 DEF Sends, Retries, Goes
    <2>3. SameBut(m, t, NoOrigin)
      BY <1>3, <1>5, <2>1, <2>2 DEF SameBut
    <2>4. Bears(t, m)' <=> Bears(t, m)
      BY <1>10 DEF Sends, Retries, Goes, Bears, Kept, Queueing
    <2>5. Evens(m, t, NoOrigin)
      BY <1>1, <1>2, <1>6, <2>1, <2>4 DEF Evens, Level
    <2> QED
      BY <1>1, <2>3, <2>5
  <1>11. ASSUME NEW t \in Threads, NEW r \in RowIds, Takes(t, r) PROVE Goal
    <2>1. Others(t) /\ UNCHANGED <<tracked, entry, att, dlv, drp, evicted>>
      BY <1>11 DEF Takes
    <2>2. \A p \in Origins \ {NoOrigin} : RowsOf(p)' = RowsOf(p)
      <3>1. rows \in [RowIds -> Queue!States]
        BY DEF TypeOK
      <3> QED
        BY <1>11, <3>1 DEF Takes, RowsOf, Born
    <2>3. SameBut(m, t, NoOrigin)
      BY <1>3, <1>5, <2>1, <2>2 DEF SameBut
    <2>4. Bears(t, m)' <=> Bears(t, m)
      BY <1>11 DEF Takes, Bears, Queueing
    <2>5. Evens(m, t, NoOrigin)
      BY <1>1, <1>2, <1>6, <2>1, <2>4 DEF Evens, Level
    <2> QED
      BY <1>1, <2>3, <2>5
  <1>12. ASSUME NEW t \in Threads, Begins(t) PROVE Goal
    <2>1. /\ Others(t) /\ UNCHANGED <<rows, info>> /\ job[t].msg \in Msgs /\ job[t].stored = 0
          /\ minted \in Nat
      BY <1>12, JobTypes, PendingMoves DEF Begins, JobInv, JobOK, Queueing
    <2>2. PICK n \in Nat \ {0} : Track(job[t].msg, n)
      BY <1>12 DEF Begins
    <2>3. PICK out \in SUBSET tracked :
              /\ out = {} \/ \E x \in tracked : out = {x}
              /\ minted' = minted + 1 /\ minted + 1 \in Origins
              /\ tracked' = (tracked \ out) \cup {minted + 1}
              /\ \A p \in tracked \ out : entry'[p] = entry[p]
              /\ evicted' = evicted \cup {entry[x].msg : x \in {y \in out : ~entry[y].resolved}}
              /\ UNCHANGED counters
      BY <2>1, <2>2, TrackFacts
    <2>4. RowsOf(minted + 1) = {} /\ minted + 1 \notin tracked
      BY <2>1, PendingMoves DEF RowInv, RowsOf
    <2>5. \A p : RowsOf(p)' = RowsOf(p)
      BY <2>1, RowsKept
    <2>6. \A p : p \notin out => (Owes(p, m)' <=> Owes(p, m))
      BY <2>3, <2>4, <2>5 DEF Owes
    <2>7. Bears(t, m)' <=> Bears(t, m)
      BY <1>12, <2>1 DEF Begins, Bears, Kept, Queueing
    <2>8. \A u \in Threads \ {t} : Bears(u, m)' <=> Bears(u, m)
      BY <1>3, <2>1
    <2>9. UNCHANGED <<att, dlv, drp>>
      BY <2>3 DEF counters
    <2>10. CASE out = {}
      <3>1. SameBut(m, t, NoOrigin)
        BY <2>6, <2>8, <2>10 DEF SameBut
      <3>2. Evens(m, t, NoOrigin)
        BY <1>1, <1>2, <1>6, <2>7, <2>9 DEF Evens, Level
      <3> QED
        BY <1>1, <3>1, <3>2
    <2>11. ASSUME NEW x \in tracked, out = {x} PROVE Goal
      <3>1. SameBut(m, t, x)
        BY <2>6, <2>8, <2>11 DEF SameBut
      <3>2. ~Owes(x, m)' /\ Debt(x, m)' = 0
        BY <2>3, <2>4, <2>11 DEF Owes, Debt
      <3>3. Owes(x, m) => m \in evicted'
        BY <2>3, <2>11 DEF Owes
      <3>4. m \notin evicted' => Debt(x, m) = 0
        BY <3>3 DEF Debt
      <3>5. Evens(m, t, x)
        BY <1>1, <1>2, <2>7, <2>9, <3>2, <3>4 DEF Evens, Level
      <3> QED
        BY <1>1, <3>1, <3>5
    <2> QED
      BY <2>3, <2>10, <2>11
  <1>13. ASSUME NEW t \in Threads, Enqueues(t) PROVE Goal
    <2>1. PICK o, k : o = job[t].origin /\ k = job[t].msg
      OBVIOUS
    <2>2. /\ Others(t) /\ UNCHANGED <<tracked, entry, att, dlv, drp, evicted, pc>> /\ pc[t] \in Queueing
          /\ job'[t].msg = k /\ job'[t].origin = o /\ k \in Msgs /\ job[t].stored \in Nat
          /\ QueueingOK(t) /\ o \in 0..MaxOrigins
      BY <1>13, <2>1, JobTypes, M2RAssumption DEF Enqueues, QueueingInv, Kept, Origins, NoOrigin
    <2>3. \A u \in Threads \ {t} : Bears(u, m)' <=> Bears(u, m)
      BY <1>3, <2>2
    <2>4. CASE UNCHANGED <<rows, info>> /\ job'[t].stored = job[t].stored
      <3>1. \A p : Owes(p, m)' <=> Owes(p, m)
        BY <2>2, <2>4, RowsKept DEF Owes
      <3>2. Bears(t, m)' <=> Bears(t, m)
        BY <2>1, <2>2, <2>4 DEF Bears
      <3>3. Evens(m, t, o)
        BY <1>1, <1>2, <2>2, <3>1, <3>2 DEF Evens, Level
      <3> QED
        BY <2>2, <2>3, <3>1, <3>3 DEF SameBut
    <2>5. ASSUME NEW r \in RowIds, NEW leg, Adds(r, leg, k, o), job'[t].stored = job[t].stored + 1 PROVE Goal
      <3>1. /\ RowsOf(o)' = RowsOf(o) \cup {r} /\ \A p : p # o => RowsOf(p)' = RowsOf(p)
        BY <2>5, RowsAdded
      <3>2. SameBut(m, t, o)
        BY <2>2, <2>3, <3>1 DEF SameBut, Owes
      <3>3. Weight(t, m)' = 0 /\ Weight(t, m) = IF m = k /\ job[t].stored = 0 THEN 1 ELSE 0
        BY <2>1, <2>2, <2>5 DEF Weight, Bears, Queueing
      <3>4. /\ job[t].stored = 0 <=> RowsOf(o) = {}
            /\ o \in tracked => entry[o].msg = k
            /\ o \notin tracked /\ RowsOf(o) = {} => k \in evicted
        BY <2>1, <2>2, Finite DEF QueueingOK
      <3>5. CASE RowsOf(o) # {}
        <4>1. Debt(o, m)' = Debt(o, m)
          BY <2>2, <3>1, <3>5 DEF Debt, Owes
        <4>2. Weight(t, m) = 0
          BY <3>3, <3>4, <3>5
        <4> QED
          BY <1>1, <1>2, <2>2, <3>2, <3>3, <4>1, <4>2 DEF Evens, Level
      <3>6. CASE RowsOf(o) = {} /\ o \in tracked
        <4>1. ~entry[o].resolved
          <5>1. entry[o].dropped \in Nat /\ entry[o].terminals \in Nat
            BY <1>1, <3>6 DEF TypeOK, Entries
          <5>2. EntryOK(o)
            BY <3>6 DEF EntryInv
          <5> QED
            BY <3>6, <5>1, <5>2 DEF EntryOK
        <4>2. Debt(o, m) = 0 /\ Debt(o, m)' = IF m = k THEN 1 ELSE 0
          BY <2>2, <3>1, <3>4, <3>6, <4>1 DEF Debt, Owes
        <4>3. Weight(t, m) = IF m = k THEN 1 ELSE 0
          BY <3>3, <3>4, <3>6
        <4> QED
          BY <1>1, <1>2, <2>2, <3>2, <3>3, <4>2, <4>3 DEF Evens, Level
      <3>7. CASE RowsOf(o) = {} /\ o \notin tracked
        <4>1. Debt(o, m) = 0 /\ Debt(o, m)' = 0
          BY <2>2, <3>7 DEF Debt, Owes
        <4>2. m \notin evicted' => Weight(t, m) = 0
          BY <2>2, <3>3, <3>4, <3>7
        <4> QED
          BY <1>1, <1>2, <2>2, <3>2, <3>3, <4>1, <4>2 DEF Evens, Level
      <3> QED
        BY <3>5, <3>6, <3>7
    <2>6. CASE job'[t].stored = job[t].stored + 1 /\ \E r \in RowIds : Adds(r, pc[t] = "legs", job[t].msg, job[t].origin)
      <3>1. PICK leg : leg = (pc[t] = "legs")
        OBVIOUS
      <3>2. \E r \in RowIds : Adds(r, leg, k, o)
        BY <2>1, <2>6, <3>1 DEF Adds
      <3> QED
        BY <2>5, <2>6, <3>2
    <2> QED
      BY <1>13, <2>4, <2>6 DEF Enqueues
  <1>14. ASSUME NEW t \in Threads, Settles(t) PROVE Goal
    <2>1. PICK o, k, n : o = job[t].origin /\ k = job[t].msg /\ n = job[t].stored
      OBVIOUS
    <2> DEFINE e == entry[o]
    <2>2. /\ Others(t) /\ UNCHANGED <<rows, info, att, dlv, evicted>> /\ pc[t] \in Queueing
          /\ k \in Msgs /\ n \in Nat /\ QueueingOK(t) /\ o \in 0..MaxOrigins
          /\ \A p \in Origins \ {o} : entry'[p] = entry[p]
          /\ tracked' \subseteq tracked /\ \A p \in tracked \ {o} : p \in tracked'
      BY <1>14, <2>1, JobTypes, M2RAssumption DEF Settles, Finished, QueueingInv, Origins, NoOrigin
    <2>3. \A p : RowsOf(p)' = RowsOf(p)
      BY <2>2, RowsKept
    <2>4. SameBut(m, t, o)
      BY <1>1, <1>3, <2>2, <2>3 DEF SameBut, Owes
    <2>5. Weight(t, m)' = 0 /\ Weight(t, m) = IF m = k /\ n = 0 THEN 1 ELSE 0
      BY <1>14, <2>1, <2>2 DEF Settles, Finished, Weight, Bears, Queueing
    <2>6. /\ n = 0 <=> RowsOf(o) = {}
          /\ o \in tracked => e.msg = k
      BY <2>1, <2>2, Finite DEF QueueingOK
    <2>7. CASE n = 0
      <3>1. drp' = Plus(drp, k) /\ Debt(o, m) = 0 /\ Debt(o, m)' = 0
        BY <1>14, <2>1, <2>3, <2>6, <2>7 DEF Settles, Debt, Owes
      <3>2. drp'[m] = drp[m] + IF m = k THEN 1 ELSE 0
        BY <1>1, <2>2, <3>1, PlusAt
      <3> QED
        BY <1>1, <1>2, <2>2, <2>4, <2>5, <2>7, <3>1, <3>2 DEF Evens, Level
    <2>8. CASE n # 0 /\ o \notin tracked
      <3>1. drp' = drp /\ Debt(o, m) = 0 /\ Debt(o, m)' = 0
        BY <1>14, <2>1, <2>2, <2>8 DEF Settles, Debt, Owes
      <3> QED
        BY <1>1, <1>2, <2>2, <2>4, <2>5, <2>8, <3>1 DEF Evens, Level
    <2>9. CASE n # 0 /\ o \in tracked
      <3>1. /\ e.dropped \in Nat /\ e.terminals \in Nat /\ e.dropped <= e.terminals
            /\ e.resolved <=> e.dropped # e.terminals
        BY <1>1, <2>9 DEF TypeOK, Entries, EntryInv, EntryOK
      <3>2. Debt(o, m) = IF m = k /\ ~e.resolved THEN 1 ELSE 0
        BY <2>6, <2>9 DEF Debt, Owes
      <3>3. CASE e.resolved
        <4>1. drp' = drp /\ ~Owes(o, m)'
          BY <1>14, <2>1, <2>9, <3>1, <3>3 DEF Settles, Owes
        <4>2. Debt(o, m)' = 0
          BY <4>1 DEF Debt
        <4> QED
          BY <1>1, <1>2, <2>2, <2>4, <2>5, <2>9, <3>2, <3>3, <4>1, <4>2 DEF Evens, Level
      <3>4. CASE ~e.resolved /\ e.dropped >= n
        <4>1. drp' = Plus(drp, k) /\ ~Owes(o, m)'
          BY <1>14, <2>1, <2>6, <2>9, <3>1, <3>4 DEF Settles, Owes
        <4>2. Debt(o, m)' = 0
          BY <4>1 DEF Debt
        <4>3. drp'[m] = drp[m] + IF m = k THEN 1 ELSE 0
          BY <1>1, <2>2, <4>1, PlusAt
        <4> QED
          BY <1>1, <1>2, <2>2, <2>4, <2>5, <2>9, <3>2, <3>4, <4>2, <4>3 DEF Evens, Level
      <3>5. CASE ~e.resolved /\ ~(e.dropped >= n)
        <4>1. drp' = drp /\ o \in tracked' /\ entry'[o].msg = e.msg /\ ~entry'[o].resolved
          BY <1>14, <2>1, <2>9, <3>1, <3>5 DEF Settles
        <4>2. Debt(o, m)' = Debt(o, m)
          BY <2>3, <2>9, <3>5, <4>1 DEF Debt, Owes
        <4> QED
          BY <1>1, <1>2, <2>2, <2>4, <2>5, <2>9, <4>1, <4>2 DEF Evens, Level
      <3> QED
        BY <3>3, <3>4, <3>5
    <2> QED
      BY <2>7, <2>8, <2>9
  <1>15. ASSUME NEW t \in Threads, Replays(t) PROVE Goal
    <2>1. PICK r, o, k : r = job[t].row /\ o = info[r].origin /\ k = job[t].msg
      OBVIOUS
    <2>2. /\ Others(t) /\ UNCHANGED <<rows, info, dlv, drp, evicted>> /\ k \in Msgs
          /\ r \in RowIds /\ Born(r) /\ info[r].msg = k /\ ~info[r].leg
      BY <1>15, <2>1, JobTypes DEF Replays, JobInv, JobOK, AtRow, RowIds, NoRow
    <2>3. \A p : RowsOf(p)' = RowsOf(p)
      BY <2>2, RowsKept
    <2>4. Weight(t, m) = 0 /\ Weight(t, m)' = IF m = k THEN 1 ELSE 0
      BY <1>15, <2>1 DEF Replays, Weight, Bears, Queueing
    <2>5. o \in 0..MaxOrigins
      BY <2>1, <2>2, Countable
    <2>6. SameBut(m, t, o)
      BY <1>1, <1>3, <1>15, <2>1, <2>2, <2>3 DEF SameBut, Owes, Replays
    <2>7. CASE o \in tracked
      <3>1. tracked' = tracked \ {o} /\ att' = att
        BY <1>15, <2>1, <2>7 DEF Replays
      <3>2. entry[o].msg = k /\ entry[o].legs = 1
        BY <2>1, <2>2, <2>7 DEF RowInv
      <3>3. ~entry[o].resolved
        <4>1. entry[o].dropped \in Nat /\ entry[o].terminals \in Nat
          BY <1>1, <2>7 DEF TypeOK, Entries
        <4>2. EntryOK(o)
          BY <2>7 DEF EntryInv
        <4> QED
          BY <3>2, <4>1, <4>2 DEF EntryOK
      <3>4. Debt(o, m)' = 0 /\ Debt(o, m) = IF m = k THEN 1 ELSE 0
        BY <2>1, <2>2, <2>7, <3>1, <3>2, <3>3 DEF Debt, Owes, RowsOf
      <3> QED
        BY <1>1, <1>2, <2>2, <2>4, <2>5, <2>6, <3>1, <3>4 DEF Evens, Level
    <2>8. CASE o \notin tracked
      <3>1. tracked' = tracked /\ att' = Plus(att, k)
        BY <1>15, <2>1, <2>8 DEF Replays
      <3>2. Debt(o, m)' = 0 /\ Debt(o, m) = 0
        BY <2>8, <3>1 DEF Debt, Owes
      <3>3. att'[m] = att[m] + IF m = k THEN 1 ELSE 0
        BY <1>1, <2>2, <3>1, PlusAt
      <3> QED
        BY <1>1, <1>2, <2>2, <2>4, <2>5, <2>6, <3>2, <3>3 DEF Evens, Level
    <2> QED
      BY <2>7, <2>8
  <1>16. ASSUME NEW t \in Threads, \A u \in Threads : Bears(u, m)' <=> Bears(u, m),
                NEW r \in RowIds, NEW to, NEW q, Shifts(r, to, q)
         PROVE  Goal
    <2>1. PICK o : o = info[r].origin
      OBVIOUS
    <2>2. o \in 0..MaxOrigins
      BY <2>1, Countable
    <2>3. (\A p \in Origins \ {o} : Owes(p, m)' <=> Owes(p, m)) /\ Evens(m, t, o)
      BY <1>16, <2>1, ShiftBalance
    <2> QED
      BY <1>16, <2>2, <2>3 DEF SameBut
  <1>17. ASSUME NEW t \in Threads, Leaves(t) PROVE Goal
    <2>1. Bears(t, m)' <=> Bears(t, m)
      BY <1>17 DEF Leaves, Bears, Queueing
    <2>2. \A u \in Threads : Bears(u, m)' <=> Bears(u, m)
      BY <1>3, <1>17, <2>1 DEF Leaves
    <2>3. job[t].row \in RowIds
      BY <1>17 DEF Leaves, JobInv, JobOK, AtRow
    <2>4. CASE UNCHANGED <<rows, info, minted, tracked, entry, att, dlv, drp, evicted>>
      <3>1. \A p : Owes(p, m)' <=> Owes(p, m)
        BY <2>4, RowsKept DEF Owes
      <3>2. SameBut(m, t, NoOrigin) /\ Evens(m, t, NoOrigin)
        BY <1>1, <1>2, <2>2, <2>4, <3>1 DEF SameBut, Evens, Level
      <3> QED
        BY <1>1, <3>2
    <2>5. CASE \E to, q : Shifts(job[t].row, to, q)
      BY <1>16, <2>2, <2>3, <2>5
    <2> QED
      BY <1>17, <2>4, <2>5 DEF Leaves
  <1>18. ASSUME NEW r \in RowIds, Moves(r) PROVE Goal
    <2>1. \A u \in Threads : Bears(u, m)' <=> Bears(u, m)
      BY <1>4, <1>18 DEF Moves
    <2>2. \E to, q : Shifts(r, to, q)
      BY <1>18 DEF Moves
    <2> QED
      BY <1>16, <2>1, <2>2, M2RAssumption
  <1> HIDE DEF Goal
  <1>19. Goal
    BY <1>7, <1>8, <1>9, <1>10, <1>11, <1>12, <1>13, <1>14, <1>15, <1>17, <1>18 DEF Works
  <1>20. PICK t \in Threads, o \in 0..MaxOrigins : SameBut(m, t, o) /\ Evens(m, t, o)
    BY <1>19 DEF Goal
  <1>21. ConservedAt(m) /\ evicted \subseteq evicted'
    BY Steady DEF Conserved
  <1> QED
    BY <1>20, <1>21, Balance

------------------------------------------------------------------------------
(* The invariant of the sums *)

\* Sums holds initially, after a crash, and after every other step.
LEMMA SumsInit == Init => Sums
  <1> SUFFICES ASSUME Init PROVE Sums
    OBVIOUS
  <1>1. TypeOK
    BY TypeInit
  <1>2. /\ inbox = Msgs /\ tracked = {} /\ wire = {} /\ (\A r \in RowIds : ~Born(r))
        /\ \A t \in Threads : pc[t] = "idle" /\ job[t] = Idle
    BY DEF Init, Born
  <1>3. JobInv /\ ReplayInv /\ QueueingInv /\ RowInv /\ WholeInv /\ EntryInv
    BY <1>2, IdleFields DEF JobInv, JobOK, AtRow, Handling, Queueing, ReplayInv, ReplayOK, QueueingInv, QueueingOK,
         RowInv, WholeInv, WholeOK, EntryInv
  <1>4. InboxInv
    BY <1>2 DEF Init, InboxInv
  <1>5. ASSUME NEW m \in Msgs PROVE ConservedAt(m)
    <2>1. Bearers(m) = {} /\ Owing(m) = {}
      BY <1>2 DEF Bearers, Bears, Owing, Owes, Queueing
    <2>2. att[m] = 0 /\ dlv[m] = 0 /\ drp[m] = 0
      BY DEF Init
    <2> QED
      BY <2>1, <2>2, FS_EmptySet DEF ConservedAt, Sum
  <1> QED
    BY <1>1, <1>3, <1>4, <1>5 DEF Sums, Conserved

LEMMA SumsCrash == Sums /\ Crash => Sums'
  <1> SUFFICES ASSUME Sums, Crash PROVE Sums'
    OBVIOUS
  <1>1. TypeOK'
    BY TypeStep DEF Sums, RowInHand, JobInv, JobOK, Next
  <1>2. /\ inbox' = {} /\ tracked' = {} /\ UNCHANGED <<rows, info, minted>>
        /\ \A t \in Threads : pc'[t] = "idle" /\ job'[t] = Idle
    BY DEF Crash, table
  <1>3. JobInv' /\ ReplayInv' /\ QueueingInv' /\ WholeInv' /\ EntryInv' /\ InboxInv'
    BY <1>2, IdleFields DEF JobInv, JobOK, AtRow, Handling, Queueing, ReplayInv, ReplayOK, QueueingInv, QueueingOK,
         WholeInv, WholeOK, EntryInv, InboxInv
  <1>4. RowInv'
    <2>1. \A r \in RowIds : Born(r)' <=> Born(r)
      BY <1>2 DEF Born
    <2> QED
      BY <1>2, <2>1 DEF Sums, RowInv
  <1>5. ASSUME NEW m \in Msgs PROVE ConservedAt(m)'
    <2>1. Bearers(m)' = {} /\ Owing(m)' = {}
      BY <1>2 DEF Bearers, Bears, Owing, Owes, Queueing
    <2>2. att'[m] = 0 /\ dlv'[m] = 0 /\ drp'[m] = 0
      BY DEF Crash
    <2>3. Sum(m)' = 0
      BY <2>1, <2>2, FS_EmptySet DEF Sum
    <2> QED
      BY <2>2, <2>3 DEF ConservedAt
  <1> QED
    BY <1>1, <1>3, <1>4, <1>5 DEF Sums, Conserved

LEMMA SumsStep == Sums /\ [Next]_vars => Sums'
  <1> SUFFICES ASSUME Sums, [Next]_vars PROVE Sums'
    OBVIOUS
  <1>1. TypeOK'
    BY TypeStep DEF Sums, RowInHand, JobInv, JobOK
  <1>2. CASE Works
    BY <1>1, <1>2, JobStep, ReplayStep, QueueingStep, RowInvStep, WholeStep, EntryStep, InboxStep,
       ConservedStep DEF Sums
  <1>3. CASE Crash
    BY <1>3, SumsCrash
  <1>4. CASE UNCHANGED vars
    <2>1. /\ UNCHANGED <<inbox, rows, info, minted, tracked, entry, att, dlv, drp, pc, job, wire, evicted>>
      BY <1>4 DEF vars
    <2>2. /\ \A r \in RowIds : (Born(r)' <=> Born(r)) /\ (Live(r)' <=> Live(r))
          /\ \A o : RowsOf(o)' = RowsOf(o) /\ EndedOf(o)' = EndedOf(o)
      BY <2>1, RowsKept DEF Born, Live
    <2>3. JobInv' /\ ReplayInv' /\ InboxInv'
      <3>1. ASSUME NEW t \in Threads PROVE JobOK(t)'
        <4>1. JobOK(t) /\ TypeOK
          BY DEF Sums, JobInv
        <4>2. pc[t] # "idle" /\ job[t].row # NoRow => job[t].row \in RowIds
          BY <4>1, JobTypes
        <4> QED
          BY <2>1, <2>2, <4>1, <4>2 DEF JobOK
      <3>2. ReplayInv'
        BY <2>1 DEF Sums, ReplayInv, ReplayOK
      <3> QED
        BY <2>1, <3>1, <3>2 DEF Sums, JobInv, InboxInv
    <2>4. QueueingInv'
      <3>1. \A t \in Threads : QueueingOK(t)'
        BY <2>1, <2>2 DEF Sums, QueueingInv, QueueingOK
      <3> QED
        BY <2>1, <3>1 DEF Sums, QueueingInv
    <2>7. RowInv' /\ WholeInv'
      BY <2>1, <2>2 DEF Sums, RowInv, WholeInv, WholeOK
    <2>8. EntryInv'
      <3>1. \A o \in tracked : EntryOK(o)'
        BY <2>1, <2>2 DEF Sums, EntryInv, EntryOK
      <3> QED
        BY <2>1, <3>1 DEF EntryInv
    <2>5. \A m : Bearers(m)' = Bearers(m) /\ Owing(m)' = Owing(m)
      BY <2>1, <2>2 DEF Bearers, Bears, Owing, Owes
    <2>6. Conserved'
      BY <2>1, <2>5 DEF Sums, Conserved, ConservedAt, Sum
    <2> QED
      BY <1>1, <2>3, <2>4, <2>6, <2>7, <2>8 DEF Sums
  <1> QED
    BY <1>2, <1>3, <1>4, Reduced DEF Sums

\* Sums is an invariant.
LEMMA SumsHold == Spec => []Sums
  <1>1. Init => Sums
    BY SumsInit
  <1>2. Sums /\ [Next]_vars => Sums'
    BY SumsStep
  <1> QED
    BY <1>1, <1>2, PTL DEF Spec

\* Every variable keeps its type in every reachable state.
THEOREM M2RTypeCorrect == Spec => []TypeOK
  <1>1. Sums => TypeOK
    BY DEF Sums
  <1> QED
    BY <1>1, SumsHold, PTL

\* No interleaving of the bridge, the queue's senders and the passes over the
\* table counts more outcomes of a message than attempts of it.
THEOREM NoOutcomeWithoutAttempt == Spec => []OutcomesWithinAttempts
  <1>1. ASSUME Sums PROVE OutcomesWithinAttempts
    <2> SUFFICES ASSUME NEW m \in Msgs PROVE dlv[m] + drp[m] <= att[m]
      BY DEF OutcomesWithinAttempts
    <2>1. /\ att[m] \in Nat /\ dlv[m] \in Nat /\ drp[m] \in Nat /\ ConservedAt(m)
          /\ Cardinality(Bearers(m)) \in Nat /\ Cardinality(Owing(m)) \in Nat
      BY <1>1, Countable, Finite DEF Sums, Conserved
    <2> QED
      BY <2>1 DEF ConservedAt, Sum
  <1> QED
    BY <1>1, SumsHold, PTL

\* An attempt without an outcome is in somebody's hands, unless it was evicted,
\* and every pending origin can still be decided.
THEOREM NothingIsForgotten == Spec => []NothingForgotten
  <1>1. ASSUME Sums PROVE NothingForgotten
    <2>1. ASSUME NEW m \in Msgs \ evicted, att[m] > dlv[m] + drp[m]
          PROVE  Unresolved(m) \/ \E t \in Threads : InHand(t, m)
      <3>1. /\ att[m] \in Nat /\ dlv[m] \in Nat /\ drp[m] \in Nat /\ ConservedAt(m)
            /\ Cardinality(Bearers(m)) \in Nat /\ Cardinality(Owing(m)) \in Nat
        BY <1>1, Countable, Finite DEF Sums, Conserved
      <3>2. Cardinality(Bearers(m)) # 0 \/ Cardinality(Owing(m)) # 0
        BY <2>1, <3>1 DEF ConservedAt, Sum
      <3>3. Bearers(m) # {} \/ Owing(m) # {}
        BY <3>2, FS_EmptySet
      <3> QED
        BY <3>3 DEF Bearers, Bears, InHand, Queueing, Owing, Owes, Unresolved
    <2>2. ASSUME NEW o \in tracked, ~\E t \in Threads : pc[t] \in {"legs", "whole"} /\ job[t].origin = o
          PROVE  \E r \in RowIds : Live(r) /\ info[r].origin = o
      <3>1. EntryOK(o) /\ entry[o].terminals \in Nat /\ entry[o].legs \in Nat
        BY <1>1, TrackedOrigins DEF Sums, EntryInv, TypeOK, Entries
      <3>2. Cardinality(EndedOf(o)) # Cardinality(RowsOf(o))
        <4>1. Cardinality(EndedOf(o)) \in Nat /\ Cardinality(RowsOf(o)) \in Nat
          BY Finite
        <4> QED
          BY <2>2, <3>1, <4>1 DEF EntryOK, Queueing
      <3>3. PICK r \in RowsOf(o) : r \notin EndedOf(o)
        BY <3>2 DEF RowsOf, EndedOf
      <3> QED
        BY <3>3 DEF RowsOf, EndedOf
    <2> QED
      BY <2>1, <2>2 DEF NothingForgotten
  <1> QED
    BY <1>1, SumsHold, PTL

------------------------------------------------------------------------------
(* Messages whose rows nobody stepped on                                    *)

\* Rows by what may still come of them, and who deals with a message.
LegRow(r)   == Born(r) /\ info[r].leg
Replayed(r) == \E t \in Threads : Holds(t, r) /\ pc[t] \in Handling \cup {"sent"}
Fresh(r)    == Live(r) /\ ~info[r].leg /\ ~Replayed(r)
Deals(t, m) == job[t].msg = m /\ (pc[t] \in {"routing", "sending", "legs"} \/ (pc[t] = "whole" /\ job[t].stored = 0))

\* A row that is held is taken, by one thread.
HoldOf(m) ==
    \A t \in Threads : pc[t] # "idle" /\ job[t].row # NoRow /\ job[t].msg = m =>
        /\ rows[job[t].row] = "taken"
        /\ \A u \in Threads : pc[u] # "idle" /\ job[u].row = job[t].row => u = t

\* A whole-message row that no replay has taken up is all there is of its
\* message: nothing was sent, counted as an outcome or queued beside it.
FreshOf(m) ==
    \A r \in RowIds : Fresh(r) /\ info[r].msg = m =>
        /\ dlv[m] = 0 /\ drp[m] = 0 /\ m \notin wire
        /\ \A q \in RowIds : LegRow(q) => info[q].msg # m
        /\ \A t \in Threads : ~Deals(t, m)
        /\ \A o \in tracked : entry[o].msg = m => o = info[r].origin
        /\ m \notin evicted /\ info[r].origin \notin tracked => att[m] = 0

\* One thread at most routes, sends or queues a message, and what else there is
\* of the message came from it.
HandOf(m) ==
    /\ \A t, u \in Threads : Deals(t, m) /\ Deals(u, m) => t = u
    /\ \A t \in Threads : Deals(t, m) /\ pc[t] \in {"routing", "sending"} =>
         /\ dlv[m] = 0 /\ drp[m] = 0
         /\ job[t].sent = 0 => m \notin wire /\ \A q \in RowIds : LegRow(q) => info[q].msg # m
         /\ \A q \in RowIds : LegRow(q) /\ info[q].msg = m => info[q].origin = NoOrigin
         /\ \A o \in tracked : entry[o].msg # m
    /\ \A t \in Threads : Deals(t, m) /\ pc[t] \in Queueing =>
         /\ job[t].stored = 0 => m \notin wire /\ dlv[m] = 0
         /\ job[t].stored = 0 \/ job[t].todo > 0 => drp[m] = 0
         /\ \A q \in RowIds : LegRow(q) /\ info[q].msg = m => info[q].origin = job[t].origin
         /\ \A o \in tracked : entry[o].msg = m => o = job[t].origin

\* The legs of a message have one origin; none is left once it counts dropped.
LegOf(m) ==
    \A r \in RowIds : LegRow(r) /\ info[r].msg = m =>
        /\ \A q \in RowIds : LegRow(q) /\ info[q].msg = m => info[q].origin = info[r].origin
        /\ Live(r) => drp[m] = 0
        /\ \A o \in tracked : entry[o].msg = m => o = info[r].origin

\* A message has one entry, which heard each row end once; a leg that went out
\* while the entry is unresolved is still to be marked.
PendOf(m) ==
    /\ \A o, p \in tracked : entry[o].msg = m /\ entry[p].msg = m => o = p
    /\ \A o \in tracked : entry[o].msg = m =>
         /\ entry[o].terminals = Cardinality(EndedOf(o)) /\ drp[m] = 0
         /\ ~entry[o].resolved => dlv[m] = 0
         /\ ~entry[o].resolved /\ m \in wire =>
               \E t \in Threads : pc[t] = "sent" /\ LegRow(job[t].row) /\ info[job[t].row].origin = o

\* AttemptedOnce and HonestOutcome, of one message.
OnceOf(m)   == m \notin evicted => att[m] <= 1
HonestOf(m) == (dlv[m] > 0 => m \in wire) /\ (drp[m] > 0 => m \notin wire)

ClearOf(m) == HoldOf(m) /\ FreshOf(m) /\ HandOf(m) /\ LegOf(m) /\ PendOf(m) /\ OnceOf(m) /\ HonestOf(m)

\* A leg row is sent when its holder is about to mark it delivered.
SentInv == \A t \in Threads : pc[t] = "sent" /\ info[job[t].row].leg => job[t].msg \in wire

\* The strengthening of AttemptedOnce and HonestOutcome, on top of Sums.
Clears == SentInv /\ \A m \in Msgs \ blurred : ClearOf(m)

\* A step that leaves no row of m behind its sender.
Calm(m) == /\ Sums /\ Sums' /\ SentInv /\ ClearOf(m) /\ Works /\ m \notin blurred'

LEMMA Calmly ==
    ASSUME NEW m, Calm(m)
    PROVE  /\ TypeOK /\ JobInv /\ QueueingInv /\ RowInv /\ WholeInv /\ EntryInv /\ InboxInv /\ ReplayInv /\ Conserved
           /\ TypeOK' /\ JobInv' /\ QueueingInv' /\ RowInv' /\ WholeInv' /\ EntryInv'
           /\ SentInv /\ Works /\ m \notin blurred' /\ m \notin blurred
           /\ HoldOf(m) /\ FreshOf(m) /\ HandOf(m) /\ LegOf(m) /\ PendOf(m) /\ OnceOf(m) /\ HonestOf(m)
  <1>1. /\ TypeOK /\ JobInv /\ QueueingInv /\ RowInv /\ WholeInv /\ EntryInv /\ InboxInv /\ ReplayInv /\ Conserved
        /\ TypeOK' /\ JobInv' /\ QueueingInv' /\ RowInv' /\ WholeInv' /\ EntryInv'
    BY DEF Calm, Sums
  <1>2. SentInv /\ Works /\ m \notin blurred' /\ ClearOf(m)
    BY DEF Calm
  <1>3. m \notin blurred
    BY <1>1, <1>2, Steady
  <1> QED
    BY <1>1, <1>2, <1>3 DEF ClearOf

\* A live row that its holder marks, or that a pass moves while nobody holds it.
Handed(r, to, q) ==
    /\ Live(r) /\ Shifts(r, to, q) /\ to # "taken" /\ (to = "waiting" => rows[r] = "taken")
    /\ \/ \E t \in Threads : Leaves(t) /\ job[t].row = r /\ rows[r] = "taken" /\ (q = "delivered" <=> pc[t] = "sent")
       \/ Moves(r) /\ ~Held(r) /\ q # "delivered"

\* A row that is not blurred is moved by its holder, or while nobody holds it.
LEMMA HandedByHolder ==
    ASSUME NEW m \in Msgs, Calm(m), NEW t \in Threads, Leaves(t), job[t].msg = m
    PROVE  /\ job[t].row \in RowIds /\ info[job[t].row].msg = m /\ rows[job[t].row] = "taken" /\ UNCHANGED blurred
           /\ \/ UNCHANGED <<rows, info, minted, tracked, entry, att, dlv, drp, evicted>> /\ pc[t] = "unsent"
              \/ \E to, q : Handed(job[t].row, to, q)
  <1>1. PICK r : r = job[t].row
    OBVIOUS
  <1>2. JobOK(t) /\ HoldOf(m) /\ m \notin blurred'
    BY Calmly DEF JobInv
  <1>3. pc[t] \in {"sent", "unsent"}
    BY DEF Leaves
  <1>4. r \in RowIds /\ r # NoRow /\ info[r].msg = m /\ Born(r)
    BY <1>1, <1>2, <1>3 DEF JobOK, AtRow, RowIds, NoRow
  <1>5. rows[r] = "taken"
    BY <1>1, <1>2, <1>3, <1>4 DEF HoldOf
  <1>6. ASSUME \E to, q : /\ Shifts(r, to, q)
                          /\ pc[t] = "sent" => q = "delivered"
                          /\ pc[t] = "unsent" => q # "delivered" /\ to # "taken"
                          /\ to = "waiting" => rows[r] = "taken"
        PROVE  \E to, q : Handed(r, to, q)
    <2>1. PICK to, q : /\ Shifts(r, to, q)
                       /\ pc[t] = "sent" => q = "delivered"
                       /\ pc[t] = "unsent" => q # "delivered" /\ to # "taken"
      BY <1>6
    <2>2. q = "delivered" => to = "done"
      BY <2>1, StepShape DEF Shifts
    <2> QED
      BY <1>1, <1>3, <1>5, <2>1, <2>2 DEF Handed, Live
  <1>7. /\ UNCHANGED blurred
        /\ \/ UNCHANGED <<rows, info, minted, tracked, entry, att, dlv, drp, evicted>> /\ pc[t] = "unsent"
           \/ \E to, q : /\ Shifts(r, to, q)
                         /\ pc[t] = "sent" => q = "delivered"
                         /\ pc[t] = "unsent" => q # "delivered" /\ to # "taken"
                         /\ to = "waiting" => rows[r] = "taken"
    BY <1>1, <1>2, <1>3, <1>5 DEF Leaves
  <1> QED
    BY <1>1, <1>4, <1>5, <1>6, <1>7

LEMMA HandedByPass ==
    ASSUME NEW m \in Msgs, Calm(m), NEW r \in RowIds, Moves(r), info[r].msg = m
    PROVE  ~Held(r) /\ \E to, q : Handed(r, to, q)
  <1>1. HoldOf(m) /\ m \notin blurred' /\ JobInv
    BY Calmly
  <1>2. Live(r) /\ (rows[r] # "waiting" => ~Held(r))
    BY <1>1 DEF Moves
  <1>3. ~Held(r)
    <2> SUFFICES ASSUME NEW t \in Threads, Holds(t, r) PROVE rows[r] # "waiting"
      BY <1>2 DEF Held
    <2>1. pc[t] # "idle" /\ job[t].row = r /\ r # NoRow
      BY DEF Holds, RowIds, NoRow
    <2>2. job[t].msg = m
      BY <1>1, <2>1 DEF JobInv, JobOK
    <2> QED
      BY <1>1, <2>1, <2>2 DEF HoldOf
  <1> QED
    BY <1>2, <1>3 DEF Moves, Handed

\* What a step does to a row of the message.
RowPut(r) == rows'[r] = rows[r] \/ (rows[r] = "waiting" /\ rows'[r] = "taken" /\ \E t \in Threads : Takes(t, r))

\* A row of m stays, is taken up, is handed over or is new.
LEMMA RowFates ==
    ASSUME NEW m \in Msgs, Calm(m), NEW r \in RowIds, Born(r), info[r].msg = m
    PROVE  /\ Born(r)' /\ info'[r] = info[r]
           /\ RowPut(r) \/ \E to, q : Handed(r, to, q)
  <1> DEFINE Goal == RowPut(r) \/ \E to, q : Handed(r, to, q)
  <1>1. TypeOK /\ JobInv /\ Works /\ rows \in [RowIds -> Queue!States]
    BY Calmly DEF TypeOK
  <1>2. Born(r)' /\ info'[r] = info[r]
    BY <1>1, Steady
  <1>3. ASSUME UNCHANGED rows PROVE Goal
    BY <1>3 DEF RowPut
  <1>4. ASSUME NEW x \in RowIds, NEW leg, NEW k, NEW o, Adds(x, leg, k, o) PROVE Goal
    BY <1>4 DEF Adds, RowPut
  <1>5. ASSUME NEW k \in Msgs, Arrives(k) \/ Attempts(k) PROVE Goal
    <2>1. UNCHANGED rows \/ \E x \in RowIds : Adds(x, FALSE, k, NoOrigin)
      BY <1>5 DEF Arrives, Attempts
    <2> HIDE DEF Goal
    <2> QED
      BY <2>1, <1>3, <1>4
  <1>6. ASSUME NEW t \in Threads, Closes(t) \/ Sends(t) \/ Begins(t) \/ Settles(t) \/ Goes(t) \/ Replays(t) PROVE Goal
    <2>1. UNCHANGED rows
      BY <1>6 DEF Closes, Sends, Begins, Settles, Goes, Replays
    <2> QED
      BY <2>1, <1>3
  <1>7. ASSUME NEW t \in Threads, Retries(t) PROVE Goal
    <2>1. UNCHANGED rows \/ \E x \in RowIds : Adds(x, TRUE, job[t].msg, NoOrigin)
      BY <1>7 DEF Retries
    <2> HIDE DEF Goal
    <2> QED
      BY <2>1, <1>3, <1>4
  <1>8. ASSUME NEW t \in Threads, Enqueues(t) PROVE Goal
    <2>1. PICK leg : leg = (pc[t] = "legs")
      OBVIOUS
    <2>2. UNCHANGED rows \/ \E x \in RowIds : Adds(x, leg, job[t].msg, job[t].origin)
      BY <1>8, <2>1 DEF Enqueues, Adds
    <2> HIDE DEF Goal
    <2> QED
      BY <2>2, <1>3, <1>4
  <1>9. ASSUME NEW t \in Threads, NEW x \in RowIds, Takes(t, x) PROVE Goal
    <2>1. CASE x = r
      BY <1>1, <1>9, <2>1 DEF Takes, RowPut
    <2>2. CASE x # r
      BY <1>1, <1>9, <2>2 DEF Takes, RowPut
    <2> QED
      BY <2>1, <2>2
  <1>10. ASSUME NEW x \in RowIds, x # r, NEW to, NEW q, Shifts(x, to, q) PROVE Goal
    <2>1. rows'[r] = rows[r]
      BY <1>1, <1>10 DEF Shifts
    <2> QED
      BY <2>1 DEF RowPut
  <1>11. ASSUME NEW t \in Threads, Leaves(t) PROVE Goal
    <2>1. JobOK(t) /\ job[t].row \in RowIds /\ pc[t] # "idle" /\ job[t].row # NoRow
      BY <1>1, <1>11 DEF JobInv, JobOK, AtRow, Leaves, RowIds, NoRow
    <2>2. CASE job[t].row = r
      <3>1. job[t].msg = m
        BY <2>1, <2>2 DEF JobOK
      <3>2. UNCHANGED rows \/ \E to, q : Handed(r, to, q)
        BY <1>11, <2>2, <3>1, HandedByHolder
      <3> QED
        BY <1>3, <3>2
    <2>3. CASE job[t].row # r
      <3>1. UNCHANGED rows \/ \E to, q : Shifts(job[t].row, to, q)
        BY <1>11 DEF Leaves
      <3> HIDE DEF Goal
      <3> QED
        BY <1>3, <1>10, <2>1, <2>3, <3>1
    <2> QED
      BY <2>2, <2>3
  <1>12. ASSUME NEW x \in RowIds, Moves(x) PROVE Goal
    <2>1. CASE x = r
      BY <1>12, <2>1, HandedByPass
    <2>2. CASE x # r
      <3>1. \E to, q : Shifts(x, to, q)
        BY <1>12 DEF Moves
      <3> HIDE DEF Goal
      <3> QED
        BY <1>10, <2>2, <3>1
    <2> QED
      BY <2>1, <2>2
  <1> HIDE DEF Goal
  <1>13. Goal
    BY <1>1, <1>5, <1>6, <1>7, <1>8, <1>9, <1>11, <1>12 DEF Works
  <1> QED
    BY <1>2, <1>13 DEF Goal

\* HoldOf is preserved.
LEMMA HoldStep ==
    ASSUME NEW m \in Msgs, Calm(m)
    PROVE  HoldOf(m)'
  <1>1. TypeOK /\ JobInv /\ JobInv' /\ Works /\ HoldOf(m) /\ rows \in [RowIds -> Queue!States]
    BY Calmly DEF TypeOK
  <1> SUFFICES ASSUME NEW t \in Threads, pc'[t] # "idle", job'[t].row # NoRow, job'[t].msg = m
               PROVE  /\ rows'[job'[t].row] = "taken"
                      /\ \A u \in Threads : pc'[u] # "idle" /\ job'[u].row = job'[t].row => u = t
    BY DEF HoldOf
  <1>2. PICK r : r = job'[t].row
    OBVIOUS
  <1>3. r \in RowIds /\ r # NoRow /\ info'[r].msg = m /\ Born(r)'
    <2>1. JobOK(t)' /\ job'[t].row \in RowIds \cup {NoRow}
      BY <1>1, Calmly, JobTypes DEF JobInv, TypeOK, Jobs
    <2> QED
      BY <1>2, <2>1 DEF JobOK
  <1> DEFINE Held2(u) == pc[u] # "idle" /\ job[u].row = r
             Took(u) == Takes(u, r)
  <1>4. ASSUME NEW u \in Threads, pc'[u] # "idle", job'[u].row = r PROVE Held2(u) \/ Took(u)
    <2>1. CASE pc'[u] = pc[u] /\ job'[u] = job[u]
      BY <1>4, <2>1
    <2>2. ASSUME NEW v \in Threads, Others(v), v # u PROVE Held2(u)
      <3>1. pc'[u] = pc[u] /\ job'[u] = job[u]
        BY <2>2 DEF Others
      <3> QED
        BY <1>4, <3>1
    <2>3. ASSUME NEW k \in Msgs, Arrives(k) \/ Attempts(k) PROVE Held2(u)
      <3>1. CASE Arrives(k)
        BY <1>4, <3>1 DEF Arrives
      <3>2. CASE Attempts(k)
        BY <1>3, <1>4, <2>2, <3>2, M2RAssumption DEF Attempts, Loaded
      <3> QED
        BY <2>3, <3>1, <3>2
    <2>4. ASSUME NEW v \in Threads, Closes(v) \/ Sends(v) \/ Retries(v) \/ Begins(v) \/ Enqueues(v)
                                    \/ Settles(v) \/ Goes(v) \/ Replays(v)
          PROVE Held2(u)
      <3>1. Others(v) /\ pc[v] # "idle" /\ job'[v].row = job[v].row
        BY <2>4 DEF Closes, Sends, Retries, Begins, Enqueues, Settles, Goes, Replays, Finished, Kept, Queueing
      <3> QED
        BY <1>4, <2>2, <3>1
    <2>5. ASSUME NEW v \in Threads, Leaves(v) PROVE Held2(u)
      <3>1. Others(v) /\ pc'[v] = "idle"
        BY <2>5 DEF Leaves
      <3> QED
        BY <1>4, <2>2, <3>1
    <2>6. ASSUME NEW v \in Threads, NEW x \in RowIds, Takes(v, x) PROVE Held2(u) \/ Took(u)
      <3>1. Others(v) /\ job'[v].row = x
        BY <2>6 DEF Takes, Loaded
      <3> QED
        BY <1>4, <2>2, <2>6, <3>1
    <2>7. ASSUME NEW x \in RowIds, Moves(x) PROVE Held2(u)
      BY <1>4, <2>7 DEF Moves
    <2> HIDE DEF Held2, Took
    <2> QED
      BY <1>1, <2>3, <2>4, <2>5, <2>6, <2>7 DEF Works
  <1>5. Held2(t) \/ Took(t)
    BY <1>2, <1>4
  <1>6. ASSUME Took(t), NEW u \in Threads, Took(u) PROVE u = t
    BY <1>3, <1>6 DEF Takes, Others, Loaded
  <1>7. CASE Took(t) /\ ~Held2(t)
    <2>1. rows[r] = "waiting" /\ rows'[r] = "taken" /\ info'[r] = info[r] /\ Born(r)
      BY <1>1, <1>3, <1>7 DEF Takes, Born
    <2>2. ASSUME NEW u \in Threads, Held2(u) PROVE FALSE
      <3>1. job[u].msg = m
        BY <1>1, <1>3, <2>1, <2>2 DEF JobInv, JobOK
      <3> QED
        BY <1>1, <1>3, <2>1, <2>2, <3>1 DEF HoldOf
    <2> HIDE DEF Held2, Took
    <2> QED
      BY <1>2, <1>4, <1>6, <1>7, <2>1, <2>2
  <1>8. CASE Held2(t)
    <2>1. Born(r) /\ info[r].msg = job[t].msg
      BY <1>1, <1>3, <1>8 DEF JobInv, JobOK
    <2>2. info'[r] = info[r] /\ job[t].msg = m
      BY <1>1, <1>3, <2>1, Steady
    <2>3. rows[r] = "taken" /\ \A u \in Threads : pc[u] # "idle" /\ job[u].row = r => u = t
      BY <1>1, <1>3, <1>8, <2>2 DEF HoldOf
    <2>4. \A u \in Threads : ~Took(u)
      BY <2>3 DEF Takes
    <2>5. ASSUME NEW to, NEW q, Handed(r, to, q) PROVE FALSE
      <3>1. ~(Moves(r) /\ ~Held(r))
        BY <1>8 DEF Held, Holds
      <3>2. PICK v \in Threads : Leaves(v) /\ job[v].row = r
        BY <2>5, <3>1 DEF Handed
      <3>3. pc[v] # "idle" /\ pc'[v] = "idle"
        BY <3>2 DEF Leaves
      <3> QED
        BY <2>3, <3>2, <3>3
    <2>6. rows'[r] = "taken"
      BY <1>3, <2>1, <2>2, <2>3, <2>5, RowFates DEF RowPut
    <2> HIDE DEF Took
    <2> QED
      BY <1>2, <1>4, <2>3, <2>4, <2>6
  <1> QED
    BY <1>5, <1>7, <1>8

\* SentInv is preserved.
LEMMA SentStep ==
    ASSUME TypeOK, JobInv, SentInv, Works
    PROVE  SentInv'
  <1> SUFFICES ASSUME NEW u \in Threads, pc'[u] = "sent", info'[job'[u].row].leg
               PROVE  job'[u].msg \in wire'
    BY DEF SentInv
  <1> DEFINE Goal == job'[u].msg \in wire'
  <1>1. wire \subseteq wire' /\ \A r \in RowIds : Born(r) => info'[r] = info[r]
    BY Steady
  <1>2. JobOK(u) /\ job[u].row \in RowIds \cup {NoRow}
    BY JobTypes DEF JobInv
  <1>3. ASSUME pc'[u] = pc[u], job'[u] = job[u] PROVE Goal
    <2>1. info'[job[u].row] = info[job[u].row]
      BY <1>1, <1>2, <1>3 DEF JobOK, AtRow, RowIds, NoRow
    <2> QED
      BY <1>1, <1>3, <2>1 DEF SentInv
  <1>4. ASSUME NEW v \in Threads, Others(v), v # u PROVE Goal
    BY <1>3, <1>4 DEF Others
  <1>5. ASSUME NEW k \in Msgs, Arrives(k) \/ Attempts(k) PROVE Goal
    <2>1. CASE Arrives(k)
      BY <1>3, <2>1 DEF Arrives
    <2>2. CASE Attempts(k)
      BY <1>4, <2>2, M2RAssumption DEF Attempts
    <2> QED
      BY <1>5, <2>1, <2>2
  <1>6. ASSUME NEW v \in Threads, Closes(v) \/ Settles(v) PROVE Goal
    <2>1. Finished(v) /\ pc[v] \in Handling /\ Others(v)
      BY <1>6 DEF Closes, Settles, Finished, Handling, Queueing
    <2>2. ASSUME u = v PROVE FALSE
      <3>1. job[u].row # NoRow /\ job'[u].row = job[u].row
        BY <2>1, <2>2 DEF Finished
      <3>2. Born(job[u].row) /\ ~info[job[u].row].leg
        BY <1>2, <2>1, <2>2, <3>1 DEF JobOK, Handling
      <3> QED
        BY <1>1, <1>2, <3>1, <3>2
    <2> QED
      BY <1>4, <2>1, <2>2
  <1>7. ASSUME NEW v \in Threads,
               Sends(v) \/ Retries(v) \/ Begins(v) \/ Enqueues(v) \/ Replays(v) \/ Leaves(v)
        PROVE  Goal
    <2>1. Others(v) /\ pc'[v] # "sent"
      BY <1>7 DEF Sends, Retries, Begins, Enqueues, Replays, Leaves, Queueing
    <2> QED
      BY <1>4, <2>1
  <1>8. ASSUME NEW v \in Threads, Goes(v) PROVE Goal
    BY <1>4, <1>8 DEF Goes
  <1>9. ASSUME NEW v \in Threads, NEW r \in RowIds, Takes(v, r) PROVE Goal
    BY <1>4, <1>9 DEF Takes
  <1>10. ASSUME NEW r \in RowIds, Moves(r) PROVE Goal
    BY <1>3, <1>10 DEF Moves
  <1> HIDE DEF Goal
  <1>11. Goal
    BY <1>5, <1>6, <1>7, <1>8, <1>9, <1>10 DEF Works
  <1> QED
    BY <1>11 DEF Goal

\* Where the legs of the message come from.
LegAdded(q, t, m) ==
    /\ job[t].msg = m /\ info'[q].msg = m /\ ~Born(q)
    /\ \/ Retries(t) /\ info'[q].origin = NoOrigin
       \/ Enqueues(t) /\ pc[t] = "legs" /\ info'[q].origin = job[t].origin

\* Where a leg, a whole-message row, an entry and a transmission can come from.
LEMMA LegFates ==
    ASSUME NEW m \in Msgs, Calm(m), NEW q \in RowIds, LegRow(q)', info'[q].msg = m
    PROVE  \/ LegRow(q) /\ info'[q] = info[q] /\ (Live(q)' => Live(q))
           \/ \E t \in Threads : LegAdded(q, t, m)
  <1>1. TypeOK /\ JobInv /\ Works
    BY Calmly
  <1>2. CASE Born(q)
    <2>1. info'[q] = info[q]
      BY <1>1, <1>2, Steady
    <2>2. RowPut(q) \/ \E to, x : Handed(q, to, x)
      BY <1>2, <2>1, RowFates
    <2>3. Live(q)' => Live(q)
      BY <2>2 DEF RowPut, Live, Handed
    <2> QED
      BY <1>2, <2>1, <2>3 DEF LegRow
  <1>3. CASE ~Born(q)
    <2>1. ~TableKept
      BY <1>3 DEF TableKept, LegRow
    <2>2. ASSUME NEW x \in RowIds, NEW leg, NEW k, NEW o, Adds(x, leg, k, o) PROVE x = q
      <3>1. x # q => rows'[q] = rows[q]
        BY <2>2 DEF Adds
      <3> QED
        BY <1>3, <3>1 DEF Born, LegRow
    <2>3. ASSUME NEW k \in Msgs, Arrives(k), TableGrew(FALSE, k, NoOrigin) PROVE FALSE
      <3>1. Adds(q, FALSE, k, NoOrigin)
        BY <2>2, <2>3 DEF TableGrew
      <3> QED
        BY <3>1 DEF Adds, LegRow
    <2>4. ASSUME NEW t \in Threads, Retries(t), TableGrew(TRUE, job[t].msg, NoOrigin) PROVE LegAdded(q, t, m)
      <3>1. Adds(q, TRUE, job[t].msg, NoOrigin)
        BY <2>2, <2>4 DEF TableGrew
      <3> QED
        BY <1>3, <2>4, <3>1 DEF Adds, LegAdded
    <2>5. ASSUME NEW t \in Threads, Enqueues(t), TableGrew(pc[t] = "legs", job[t].msg, job[t].origin)
          PROVE  LegAdded(q, t, m)
      <3>1. PICK leg : leg = (pc[t] = "legs")
        OBVIOUS
      <3>2. \E x \in RowIds : Adds(x, leg, job[t].msg, job[t].origin)
        BY <2>5, <3>1 DEF TableGrew, Adds
      <3>3. Adds(q, leg, job[t].msg, job[t].origin)
        BY <2>2, <3>2
      <3> QED
        BY <1>3, <2>5, <3>1, <3>3 DEF Adds, LegAdded, LegRow
    <2> QED
      BY <1>1, <2>1, <2>3, <2>4, <2>5, TableFates
  <1> QED
    BY <1>2, <1>3

\* Where a whole-message row that nobody replays comes from.
WholeAdded(r, m) ==
    /\ info'[r].msg = m /\ ~Born(r)
    /\ \/ Arrives(m) /\ info'[r].origin = NoOrigin
       \/ \E t \in Threads : /\ Enqueues(t) /\ pc[t] = "whole" /\ job[t].msg = m
                             /\ info'[r].origin = job[t].origin /\ job'[t].stored = job[t].stored + 1

LEMMA FreshFates ==
    ASSUME NEW m \in Msgs, Calm(m), NEW r \in RowIds, Fresh(r)', info'[r].msg = m
    PROVE  \/ Fresh(r) /\ info'[r] = info[r] /\ info[r].msg = m
           \/ WholeAdded(r, m)
  <1>1. TypeOK /\ JobInv /\ Works /\ HoldOf(m) /\ Live(r)' /\ ~info'[r].leg /\ ~Replayed(r)'
    BY Calmly DEF Fresh
  <1>2. CASE Born(r)
    <2>1. info'[r] = info[r]
      BY <1>1, <1>2, Steady
    <2>2. RowPut(r) \/ \E to, x : Handed(r, to, x)
      BY <1>2, <2>1, RowFates
    <2>3. Live(r)
      BY <1>1, <2>2 DEF RowPut, Live, Handed
    <2>4. ASSUME NEW t \in Threads, Holds(t, r), pc[t] \in Handling \cup {"sent"} PROVE FALSE
      <3>1. pc[t] # "idle" /\ job[t].row = r /\ r # NoRow
        BY <2>4 DEF Holds, RowIds, NoRow
      <3>2. job[t].msg = m
        BY <1>1, <2>1, <3>1 DEF JobInv, JobOK
      <3>3. ~(pc'[t] \in Handling \cup {"sent"} /\ job'[t].row = r)
        BY <1>1 DEF Replayed, Holds, Handling
      <3>4. rows[r] = "taken" /\ \A u \in Threads : pc[u] # "idle" /\ job[u].row = r => u = t
        BY <1>1, <3>1, <3>2 DEF HoldOf
      <3>5. ASSUME NEW v \in Threads, Others(v), v # t PROVE FALSE
        BY <2>4, <3>1, <3>3, <3>5 DEF Others
      <3>6. ASSUME NEW k \in Msgs, Arrives(k) \/ Attempts(k) PROVE FALSE
        <4>1. CASE Arrives(k)
          BY <2>4, <3>1, <3>3, <4>1 DEF Arrives
        <4>2. CASE Attempts(k)
          BY <3>1, <3>5, <4>2, M2RAssumption DEF Attempts
        <4> QED
          BY <3>6, <4>1, <4>2
      <3>7. ASSUME NEW v \in Threads, Closes(v) \/ Settles(v) \/ Sends(v) \/ Retries(v) \/ Begins(v)
                                       \/ Enqueues(v) \/ Goes(v) \/ Replays(v)
            PROVE  FALSE
        <4>1. Others(v) /\ job'[v].row = job[v].row
          BY <3>7 DEF Closes, Settles, Sends, Retries, Begins, Enqueues, Goes, Replays, Finished, Kept
        <4>2. pc[v] \in {"leg", "replay"} \/ pc'[v] \in Handling \/ pc'[v] = "sent" \/ job[v].row = NoRow
          BY <3>7 DEF Closes, Settles, Sends, Retries, Begins, Enqueues, Goes, Replays, Finished, Queueing, Handling
        <4> QED
          BY <2>4, <3>1, <3>3, <3>5, <4>1, <4>2 DEF Handling
      <3>8. ASSUME NEW v \in Threads, Leaves(v) PROVE FALSE
        <4>1. v = t
          BY <3>5, <3>8 DEF Leaves
        <4>2. pc[t] = "sent"
          BY <2>4, <3>8, <4>1 DEF Leaves, Handling
        <4>3. \E to, x : Handed(r, to, x)
          BY <3>1, <3>2, <3>8, <4>1, <4>2, HandedByHolder
        <4>4. PICK to, x : Handed(r, to, x)
          BY <4>3
        <4>5. x = "delivered"
          <5>1. ~(Moves(r) /\ ~Held(r))
            BY <2>4 DEF Held
          <5> QED
            BY <3>4, <4>2, <4>4, <5>1 DEF Handed, Leaves
        <4>6. rows'[r] = "done"
          <5>1. rows \in [RowIds -> Queue!States]
            BY <1>1 DEF TypeOK
          <5> QED
            BY <4>4, <4>5, <5>1, StepShape DEF Handed, Shifts
        <4> QED
          BY <1>1, <4>6 DEF Live
      <3>9. ASSUME NEW v \in Threads, NEW x \in RowIds, Takes(v, x) PROVE FALSE
        BY <3>1, <3>5, <3>9 DEF Takes
      <3>10. ASSUME NEW x \in RowIds, Moves(x) PROVE FALSE
        BY <2>4, <3>1, <3>3, <3>10 DEF Moves
      <3> QED
        BY <1>1, <3>6, <3>7, <3>8, <3>9, <3>10 DEF Works
    <2> QED
      BY <1>1, <2>1, <2>3, <2>4 DEF Fresh, Replayed
  <1>3. CASE ~Born(r)
    <2>1. ~TableKept
      BY <1>1, <1>3 DEF TableKept, Live, Born
    <2>2. ASSUME NEW x \in RowIds, NEW leg, NEW k, NEW o, Adds(x, leg, k, o) PROVE x = r
      <3>1. x # r => rows'[r] = rows[r]
        BY <2>2 DEF Adds
      <3> QED
        BY <1>1, <1>3, <3>1 DEF Born, Live
    <2>3. ASSUME NEW k \in Msgs, Arrives(k), TableGrew(FALSE, k, NoOrigin) PROVE WholeAdded(r, m)
      <3>1. Adds(r, FALSE, k, NoOrigin)
        BY <2>2, <2>3 DEF TableGrew
      <3> QED
        BY <1>3, <2>3, <3>1 DEF Adds, WholeAdded
    <2>4. ASSUME NEW t \in Threads, Retries(t), TableGrew(TRUE, job[t].msg, NoOrigin) PROVE FALSE
      <3>1. Adds(r, TRUE, job[t].msg, NoOrigin)
        BY <2>2, <2>4 DEF TableGrew
      <3> QED
        BY <1>1, <3>1 DEF Adds
    <2>5. ASSUME NEW t \in Threads, Enqueues(t), TableGrew(pc[t] = "legs", job[t].msg, job[t].origin),
                 job'[t].stored = job[t].stored + 1
          PROVE  WholeAdded(r, m)
      <3>1. PICK leg : leg = (pc[t] = "legs")
        OBVIOUS
      <3>2. \E x \in RowIds : Adds(x, leg, job[t].msg, job[t].origin)
        BY <2>5, <3>1 DEF TableGrew, Adds
      <3>3. Adds(r, leg, job[t].msg, job[t].origin)
        BY <2>2, <3>2
      <3>4. pc[t] = "whole" /\ job[t].msg = m /\ info'[r].origin = job[t].origin
        BY <1>1, <2>5, <3>1, <3>3 DEF Adds, Enqueues, Queueing
      <3> QED
        BY <1>3, <2>5, <3>4 DEF WholeAdded
    <2> QED
      BY <1>1, <2>1, <2>3, <2>4, <2>5, TableFates
  <1> QED
    BY <1>2, <1>3

\* Who deals with the message after the step did before, or takes it up.
LEMMA DealsFates ==
    ASSUME NEW m \in Msgs, Calm(m), NEW t \in Threads, Deals(t, m)'
    PROVE  \/ Deals(t, m) /\ pc'[t] = pc[t] /\ job'[t] = job[t]
           \/ Deals(t, m) /\ (Sends(t) \/ Retries(t) \/ Begins(t) \/ Enqueues(t))
           \/ Attempts(m) /\ t = Bridge
           \/ Replays(t) /\ job[t].msg = m
  <1> DEFINE Goal == \/ Deals(t, m) /\ pc'[t] = pc[t] /\ job'[t] = job[t]
                     \/ Deals(t, m) /\ (Sends(t) \/ Retries(t) \/ Begins(t) \/ Enqueues(t))
                     \/ Attempts(m) /\ t = Bridge
                     \/ Replays(t) /\ job[t].msg = m
  <1>1. TypeOK /\ Works /\ JobInv
    BY Calmly
  <1>2. job'[t].msg = m /\ (pc'[t] \in {"routing", "sending", "legs"} \/ (pc'[t] = "whole" /\ job'[t].stored = 0))
    BY DEF Deals
  <1>3. job[t].stored \in Nat
    BY <1>1, JobTypes
  <1>4. ASSUME pc'[t] = pc[t], job'[t] = job[t] PROVE Goal
    BY <1>2, <1>4 DEF Deals
  <1>5. ASSUME NEW v \in Threads, Others(v), v # t PROVE Goal
    BY <1>4, <1>5 DEF Others
  <1>6. ASSUME NEW k \in Msgs, Arrives(k) \/ Attempts(k) PROVE Goal
    <2>1. CASE Arrives(k)
      BY <1>4, <2>1 DEF Arrives
    <2>2. CASE Attempts(k) /\ t # Bridge
      BY <1>5, <2>2, M2RAssumption DEF Attempts
    <2>3. CASE Attempts(k) /\ t = Bridge
      BY <1>2, <2>3 DEF Attempts, Loaded
    <2> QED
      BY <1>6, <2>1, <2>2, <2>3
  <1>7. ASSUME NEW v \in Threads, Closes(v) \/ Settles(v) \/ Goes(v) \/ Leaves(v) PROVE Goal
    <2>1. Others(v) /\ pc'[v] \in {"idle", "sent", "unsent"}
      BY <1>7 DEF Closes, Settles, Goes, Leaves, Finished
    <2> QED
      BY <1>2, <1>5, <2>1
  <1>8. ASSUME NEW v \in Threads, Sends(v) \/ Retries(v) \/ Begins(v) PROVE Goal
    <2>1. Others(v) /\ job'[v].msg = job[v].msg /\ pc[v] \in {"routing", "sending"}
      BY <1>8 DEF Sends, Retries, Begins, Kept
    <2>2. CASE v = t
      BY <1>2, <1>8, <2>1, <2>2 DEF Deals
    <2> QED
      BY <1>5, <2>1, <2>2
  <1>9. ASSUME NEW v \in Threads, Enqueues(v) PROVE Goal
    <2>1. Others(v) /\ job'[v].msg = job[v].msg /\ pc' = pc
          /\ (job'[v].stored = job[v].stored \/ job'[v].stored = job[v].stored + 1)
      BY <1>9 DEF Enqueues, Kept
    <2>2. CASE v = t
      BY <1>2, <1>3, <1>9, <2>1, <2>2 DEF Deals
    <2> QED
      BY <1>5, <2>1, <2>2
  <1>10. ASSUME NEW v \in Threads, Replays(v) PROVE Goal
    BY <1>2, <1>5, <1>10 DEF Replays
  <1>11. ASSUME NEW v \in Threads, NEW r \in RowIds, Takes(v, r) PROVE Goal
    BY <1>2, <1>5, <1>11 DEF Takes
  <1>12. ASSUME NEW r \in RowIds, Moves(r) PROVE Goal
    BY <1>4, <1>12 DEF Moves
  <1> HIDE DEF Goal
  <1>13. Goal
    BY <1>1, <1>6, <1>7, <1>8, <1>9, <1>10, <1>11, <1>12 DEF Works
  <1> QED
    BY <1>13 DEF Goal

\* An entry of the message was there, or is new and blank.
EntryAdded(o, t, m) ==
    /\ Begins(t) /\ job[t].msg = m /\ o = minted + 1 /\ o \notin tracked
    /\ entry'[o].terminals = 0 /\ RowsOf(o)' = {} /\ RowsOf(o) = {}

LEMMA PendFates ==
    ASSUME NEW m \in Msgs, Calm(m), NEW o \in tracked', entry'[o].msg = m
    PROVE  \/ o \in tracked /\ entry[o].msg = m
           \/ \E t \in Threads : EntryAdded(o, t, m)
  <1>1. TypeOK /\ Works /\ JobInv /\ RowInv
    BY Calmly
  <1>2. CASE o \in tracked
    BY <1>1, <1>2, PendingMoves
  <1>3. CASE o \notin tracked
    <2>1. o = minted + 1 /\ \E t \in Threads : Begins(t)
      BY <1>1, <1>3, PendingMoves
    <2>2. PICK t \in Threads : Begins(t)
      BY <2>1
    <2>3. PICK n \in Nat \ {0} : Track(job[t].msg, n)
      BY <2>2 DEF Begins
    <2>4. IsNew(entry'[o], job[t].msg, n)
      BY <1>1, <2>1, <2>3, JobTypes, TrackFacts
    <2>5. RowsOf(o) = {} /\ RowsOf(o)' = {}
      <3>1. RowsOf(o) = {} /\ minted \in Nat
        BY <1>1, <2>1, PendingMoves DEF RowInv, RowsOf
      <3>2. UNCHANGED <<rows, info>>
        BY <2>2 DEF Begins
      <3> QED
        BY <3>1, <3>2, RowsKept
    <2> QED
      BY <1>3, <2>1, <2>2, <2>4, <2>5 DEF EntryAdded, IsNew
  <1> QED
    BY <1>2, <1>3

\* The message goes out.
Transmits(t, m) ==
    /\ job[t].msg = m
    /\ \/ Sends(t) /\ job'[t].sent = job[t].sent + 1
       \/ Goes(t) /\ pc[t] = "leg" /\ pc'[t] = "sent"

\* A transmission is a send under way or a leg.
LEMMA WireFates ==
    ASSUME NEW m \in Msgs, Calm(m), m \in wire'
    PROVE  m \in wire \/ \E t \in Threads : Transmits(t, m)
  <1> DEFINE Goal == m \in wire \/ \E t \in Threads : Transmits(t, m)
  <1>1. Works
    BY Calmly
  <1>2. ASSUME UNCHANGED wire PROVE Goal
    BY <1>2
  <1>3. ASSUME NEW k \in Msgs, Arrives(k) \/ Attempts(k) PROVE UNCHANGED wire
    BY <1>3 DEF Arrives, Attempts
  <1>4. ASSUME NEW t \in Threads, Closes(t) \/ Retries(t) \/ Begins(t) \/ Enqueues(t) \/ Settles(t)
                                  \/ Replays(t) \/ Leaves(t)
        PROVE  UNCHANGED wire
    BY <1>4 DEF Closes, Retries, Begins, Enqueues, Settles, Replays, Leaves
  <1>5. ASSUME NEW t \in Threads, Sends(t) \/ Goes(t) PROVE Goal
    BY <1>5 DEF Sends, Goes, Transmits
  <1>6. ASSUME NEW t \in Threads, NEW r \in RowIds, Takes(t, r) PROVE UNCHANGED wire
    BY <1>6 DEF Takes
  <1>7. ASSUME NEW r \in RowIds, Moves(r) PROVE UNCHANGED wire
    BY <1>7 DEF Moves
  <1> HIDE DEF Goal
  <1>8. Goal
    BY <1>1, <1>2, <1>3, <1>4, <1>5, <1>6, <1>7 DEF Works
  <1> QED
    BY <1>8 DEF Goal

\* How the counters of the message change.
Still(m) == att'[m] = att[m] /\ dlv'[m] = dlv[m] /\ drp'[m] = drp[m]
Orphaned(r, m) ==
    /\ info[r].msg = m /\ ~info[r].leg /\ info[r].origin = NoOrigin
    /\ \E to : Handed(r, to, "dropped")
    /\ att' = Plus(att, m) /\ drp' = Plus(drp, m) /\ UNCHANGED dlv
Told(r, q, m) ==
    /\ info[r].msg = m /\ info[r].origin \in tracked /\ entry[info[r].origin].msg = m
    /\ q \in {"delivered", "dropped"} /\ (q = "delivered" => info[r].leg)
    /\ \E to : Handed(r, to, q)
    /\ Reported(info[r].origin, q)

CountFate(m) ==
    \/ Still(m) \/ Arrives(m) \/ Attempts(m)
    \/ \E t \in Threads : job[t].msg = m /\ Closes(t)
    \/ \E t \in Threads : job[t].msg = m /\ Settles(t) /\ (job[t].stored # 0 => job[t].origin \in tracked)
    \/ \E t \in Threads : job[t].msg = m /\ Replays(t) /\ info[job[t].row].origin \notin tracked
    \/ \E r \in RowIds : Orphaned(r, m) \/ \E q : Told(r, q, m)

\* There are no others.
LEMMA CountFates ==
    ASSUME NEW m \in Msgs, Calm(m)
    PROVE  CountFate(m)
  <1>1. /\ TypeOK /\ JobInv /\ RowInv /\ QueueingInv /\ Works
        /\ att \in [Msgs -> Nat] /\ dlv \in [Msgs -> Nat] /\ drp \in [Msgs -> Nat]
    BY Calmly, Countable
  <1>2. ASSUME NEW k \in Msgs, Arrives(k) \/ Attempts(k) PROVE CountFate(m)
    <2>1. CASE k = m
      BY <1>2, <2>1 DEF CountFate
    <2>2. CASE k # m
      <3>1. Still(m)
        BY <1>1, <1>2, <2>2 DEF Still, Arrives, Attempts, Plus
      <3> QED
        BY <3>1 DEF CountFate
    <2> QED
      BY <2>1, <2>2
  <1>3. ASSUME NEW t \in Threads, Closes(t) PROVE CountFate(m)
    <2>1. CASE job[t].msg = m
      BY <1>3, <2>1 DEF CountFate
    <2>2. CASE job[t].msg # m
      <3>1. Still(m)
        BY <1>1, <1>3, <2>2 DEF Still, Closes, Plus
      <3> QED
        BY <3>1 DEF CountFate
    <2> QED
      BY <2>1, <2>2
  <1>4. ASSUME NEW t \in Threads, Sends(t) \/ Retries(t) \/ Begins(t) \/ Enqueues(t) \/ Goes(t) PROVE CountFate(m)
    <2>1. Still(m)
      BY <1>4 DEF Still, Sends, Retries, Begins, Enqueues, Goes, Track, counters
    <2> QED
      BY <2>1 DEF CountFate
  <1>5. ASSUME NEW t \in Threads, Settles(t) PROVE CountFate(m)
    <2>1. CASE job[t].msg = m /\ (job[t].stored # 0 => job[t].origin \in tracked)
      BY <1>5, <2>1 DEF CountFate
    <2>2. CASE ~(job[t].msg = m /\ (job[t].stored # 0 => job[t].origin \in tracked))
      <3>1. job[t].origin \in tracked => entry[job[t].origin].msg = job[t].msg
        BY <1>1, <1>5 DEF QueueingInv, QueueingOK, Settles
      <3>2. Still(m)
        BY <1>1, <1>5, <2>2, <3>1 DEF Still, Settles, Plus
      <3> QED
        BY <3>2 DEF CountFate
    <2> QED
      BY <2>1, <2>2
  <1>6. ASSUME NEW t \in Threads, Replays(t) PROVE CountFate(m)
    <2>1. CASE job[t].msg = m /\ info[job[t].row].origin \notin tracked
      BY <1>6, <2>1 DEF CountFate
    <2>2. CASE ~(job[t].msg = m /\ info[job[t].row].origin \notin tracked)
      <3>1. Still(m)
        BY <1>1, <1>6, <2>2 DEF Still, Replays, Plus
      <3> QED
        BY <3>1 DEF CountFate
    <2> QED
      BY <2>1, <2>2
  <1>7. ASSUME NEW t \in Threads, NEW r \in RowIds, Takes(t, r) PROVE CountFate(m)
    <2>1. Still(m)
      BY <1>7 DEF Still, Takes
    <2> QED
      BY <2>1 DEF CountFate
  <1>8. ASSUME NEW r \in RowIds, info[r].msg # m, NEW to, NEW q, Shifts(r, to, q) PROVE CountFate(m)
    <2>1. info[r].origin \in tracked => entry[info[r].origin].msg # m
      BY <1>1, <1>8 DEF RowInv, Shifts
    <2>2. Still(m)
      BY <1>1, <1>8, <2>1 DEF Still, Shifts, Reported, Plus
    <2> QED
      BY <2>2 DEF CountFate
  <1>9. ASSUME NEW r \in RowIds, info[r].msg = m, NEW to, NEW q, Handed(r, to, q) PROVE CountFate(m)
    <2>1. Shifts(r, to, q) /\ Born(r)
      BY <1>9 DEF Handed, Shifts
    <2>2. q \in {"quiet", "delivered", "dropped"}
      BY <2>1, StepShape DEF Shifts
    <2>3. CASE UNCHANGED <<tracked, entry, att, dlv, drp>>
      BY <2>3 DEF CountFate, Still
    <2>4. CASE /\ q = "dropped" /\ ~info[r].leg /\ info[r].origin = NoOrigin
               /\ att' = Plus(att, info[r].msg) /\ drp' = Plus(drp, info[r].msg) /\ UNCHANGED <<dlv, tracked, entry>>
      <3>1. Orphaned(r, m)
        BY <1>9, <2>4 DEF Orphaned
      <3> QED
        BY <3>1 DEF CountFate
    <2>5. CASE /\ q # "quiet" /\ (q = "delivered" => info[r].leg) /\ Reported(info[r].origin, q)
      <3>1. info[r].origin \in tracked
        BY <2>5 DEF Reported
      <3>2. entry[info[r].origin].msg = m
        BY <1>1, <1>9, <2>1, <3>1 DEF RowInv
      <3>3. Told(r, q, m)
        BY <1>9, <2>2, <2>5, <3>1, <3>2 DEF Told
      <3> QED
        BY <3>3 DEF CountFate
    <2> QED
      BY <2>1, <2>3, <2>4, <2>5 DEF Shifts
  <1>10. ASSUME NEW t \in Threads, Leaves(t) PROVE CountFate(m)
    <2>1. job[t].row \in RowIds /\ info[job[t].row].msg = job[t].msg
      <3>1. JobOK(t) /\ pc[t] \in {"sent", "unsent"}
        BY <1>1, <1>10 DEF JobInv, Leaves
      <3> QED
        BY <3>1 DEF JobOK, AtRow, RowIds, NoRow
    <2>2. ASSUME UNCHANGED <<att, dlv, drp>> PROVE CountFate(m)
      BY <2>2 DEF CountFate, Still
    <2>3. CASE job[t].msg = m
      <3>1. UNCHANGED <<att, dlv, drp>> \/ \E to, q : Handed(job[t].row, to, q)
        BY <1>10, <2>3, HandedByHolder
      <3> QED
        BY <1>9, <2>1, <2>2, <2>3, <3>1
    <2>4. CASE job[t].msg # m
      <3>1. UNCHANGED <<att, dlv, drp>> \/ \E to, q : Shifts(job[t].row, to, q)
        BY <1>10 DEF Leaves
      <3> QED
        BY <1>8, <2>1, <2>2, <2>4, <3>1
    <2> QED
      BY <2>3, <2>4
  <1>11. ASSUME NEW r \in RowIds, Moves(r) PROVE CountFate(m)
    <2>1. CASE info[r].msg = m
      <3>1. \E to, q : Handed(r, to, q)
        BY <1>11, <2>1, HandedByPass
      <3> QED
        BY <1>9, <2>1, <3>1
    <2>2. CASE info[r].msg # m
      <3>1. \E to, q : Shifts(r, to, q)
        BY <1>11 DEF Moves
      <3> QED
        BY <1>8, <2>2, <3>1
    <2> QED
      BY <2>1, <2>2
  <1> QED
    BY <1>1, <1>2, <1>3, <1>4, <1>5, <1>6, <1>7, <1>10, <1>11 DEF Works

\* A whole-message row that ends or is put back had nobody replaying it.
LEMMA HandedFresh ==
    ASSUME NEW m \in Msgs, Calm(m), NEW r \in RowIds, NEW to, NEW q, Handed(r, to, q),
           info[r].msg = m, ~info[r].leg, q # "delivered"
    PROVE  Fresh(r)
  <1>1. HoldOf(m) /\ JobInv /\ Live(r)
    BY Calmly DEF Handed
  <1>2. ASSUME NEW u \in Threads, Holds(u, r), pc[u] \in Handling \cup {"sent"} PROVE FALSE
    <2>1. pc[u] # "idle" /\ job[u].row = r /\ r # NoRow /\ Held(r)
      BY <1>2 DEF Holds, Held, RowIds, NoRow
    <2>2. job[u].msg = m
      BY <1>1, <2>1 DEF JobInv, JobOK
    <2>3. PICK t \in Threads : Leaves(t) /\ job[t].row = r /\ (q = "delivered" <=> pc[t] = "sent")
      BY <2>1 DEF Handed
    <2>4. pc[t] = "unsent"
      BY <2>3 DEF Leaves
    <2>5. t = u
      BY <1>1, <2>1, <2>2, <2>3, <2>4 DEF HoldOf
    <2> QED
      BY <1>2, <2>4, <2>5 DEF Handling
  <1> QED
    BY <1>1, <1>2 DEF Fresh, Replayed

\* A replay starts from such a row.
LEMMA ReplayFresh ==
    ASSUME NEW m \in Msgs, Calm(m), NEW t \in Threads, Replays(t), job[t].msg = m
    PROVE  job[t].row \in RowIds /\ info[job[t].row].msg = m /\ Fresh(job[t].row) /\ Born(job[t].row)
  <1>1. PICK r : r = job[t].row
    OBVIOUS
  <1>2. pc[t] = "replay" /\ JobOK(t) /\ HoldOf(m) /\ JobInv
    BY Calmly DEF Replays, JobInv
  <1>3. r \in RowIds /\ r # NoRow /\ info[r].msg = m /\ ~info[r].leg /\ Born(r)
    BY <1>1, <1>2 DEF JobOK, AtRow, RowIds, NoRow
  <1>4. rows[r] = "taken" /\ \A u \in Threads : pc[u] # "idle" /\ job[u].row = r => u = t
    BY <1>1, <1>2, <1>3 DEF HoldOf
  <1>5. ~Replayed(r)
    BY <1>2, <1>4 DEF Replayed, Holds, Handling
  <1> QED
    BY <1>1, <1>3, <1>4, <1>5 DEF Fresh, Live

\* A leg in hand is live.
LEMMA LegHeld ==
    ASSUME NEW m \in Msgs, Calm(m), NEW t \in Threads, job[t].msg = m,
           pc[t] = "leg" \/ (pc[t] = "sent" /\ LegRow(job[t].row))
    PROVE  job[t].row \in RowIds /\ LegRow(job[t].row) /\ Live(job[t].row) /\ info[job[t].row].msg = m
  <1>1. JobOK(t) /\ HoldOf(m)
    BY Calmly DEF JobInv
  <1>2. job[t].row \in RowIds /\ job[t].row # NoRow
    BY <1>1 DEF JobOK, AtRow, RowIds, NoRow
  <1> QED
    BY <1>1, <1>2 DEF JobOK, HoldOf, LegRow, Live

\* Messages of entries were taken from the inbox.
LEMMA EntryTaken ==
    ASSUME TypeOK, JobInv, QueueingInv, RowInv, EntryInv, NEW o \in tracked
    PROVE  entry[o].msg \notin inbox
  <1>1. EntryOK(o) /\ entry[o].terminals \in Nat /\ entry[o].legs \in Nat
    BY TrackedOrigins DEF EntryInv, TypeOK, Entries
  <1>2. ASSUME NEW t \in Threads, pc[t] \in Queueing, job[t].origin = o PROVE entry[o].msg \notin inbox
    BY <1>2 DEF QueueingInv, QueueingOK, JobInv, JobOK, Queueing
  <1>3. CASE entry[o].legs = Cardinality(RowsOf(o))
    <2>1. RowsOf(o) # {}
      BY <1>1, <1>3, Finite DEF EntryOK
    <2>2. PICK r \in RowIds : Born(r) /\ info[r].origin = o
      BY <2>1 DEF RowsOf
    <2> QED
      BY <2>2 DEF RowInv
  <1> QED
    BY <1>1, <1>2, <1>3 DEF EntryOK

\* A report that is quiet leaves the accounting alone.
LEMMA QuietShape ==
    ASSUME NEW a \in {"waiting", "taken"}, NEW to, <<a, to, "quiet">> \in Queue!Steps
    PROVE  to \in {"waiting", "taken"}
  BY DEF Queue!Steps, Queue!Accepts, Queue!Takes, Queue!PutsBack, Queue!Delivers,
         Queue!Drops, Queue!ShedsLate, Queue!Revives, Queue!Purges

\* A row that is marked or moved ends exactly when that is reported.
LEMMA HandedEnds ==
    ASSUME TypeOK, NEW r \in RowIds, NEW to, NEW q, Handed(r, to, q)
    PROVE  /\ Born(r) /\ rows'[r] = to /\ q \in {"quiet", "delivered", "dropped"}
           /\ Live(r)' <=> q = "quiet"
           /\ \A x \in RowIds : x # r => rows'[x] = rows[x]
           /\ UNCHANGED <<info, wire>>
           /\ q # "quiet" => /\ EndedOf(info[r].origin)' = EndedOf(info[r].origin) \cup {r}
                             /\ r \notin EndedOf(info[r].origin)
                             /\ Cardinality(EndedOf(info[r].origin)') = Cardinality(EndedOf(info[r].origin)) + 1
  <1>1. /\ Live(r) /\ Born(r) /\ <<rows[r], to, q>> \in Queue!Steps /\ UNCHANGED info
        /\ rows' = [rows EXCEPT ![r] = to] /\ rows \in [RowIds -> Queue!States]
    BY DEF Handed, Shifts, TypeOK
  <1>2. rows'[r] = to /\ \A x \in RowIds : x # r => rows'[x] = rows[x]
    BY <1>1
  <1>3. q \in {"quiet", "delivered", "dropped"} /\ to # "none" /\ (q # "quiet" => to \in {"done", "dead", "gone"})
    BY <1>1, StepShape
  <1>4. Live(r)' <=> q = "quiet"
    <2>1. q = "quiet" => to \in {"waiting", "taken"}
      BY <1>1, QuietShape DEF Live
    <2> QED
      BY <1>2, <1>3, <2>1 DEF Live
  <1>5. UNCHANGED wire
    BY DEF Handed, Leaves, Moves
  <1>6. ASSUME q # "quiet"
        PROVE  /\ EndedOf(info[r].origin)' = EndedOf(info[r].origin) \cup {r}
               /\ r \notin EndedOf(info[r].origin)
               /\ Cardinality(EndedOf(info[r].origin)') = Cardinality(EndedOf(info[r].origin)) + 1
    <2>1. PICK o : o = info[r].origin
      OBVIOUS
    <2>2. EndedOf(o)' = EndedOf(o) \cup {r} /\ r \notin EndedOf(o)
      BY <1>1, <1>2, <1>3, <1>4, <1>6, <2>1 DEF EndedOf, Born, Live
    <2>3. Cardinality(EndedOf(o)') = Cardinality(EndedOf(o)) + 1
      BY <2>2, Finite, FS_AddElement
    <2>4. EndedOf(info[r].origin)' = EndedOf(o)'
      BY <1>1, <2>1 DEF EndedOf
    <2> QED
      BY <2>1, <2>2, <2>3, <2>4
  <1> QED
    BY <1>1, <1>2, <1>3, <1>4, <1>5, <1>6

\* The rows of an entry of the message end one at a time, and it is told.
LEMMA EndedFates ==
    ASSUME NEW m \in Msgs, Calm(m), NEW o \in tracked, entry[o].msg = m
    PROVE  \/ EndedOf(o)' = EndedOf(o)
           \/ \E r \in RowIds : \E q : Told(r, q, m) /\ info[r].origin = o
  <1>1. TypeOK /\ JobInv /\ RowInv /\ Works /\ o # NoOrigin
    BY Calmly, TrackedOrigins
  <1>2. \A r \in RowsOf(o) : r \in RowIds /\ Born(r) /\ info[r].origin = o /\ info[r].msg = m
    BY <1>1 DEF RowsOf, RowInv
  <1>3. ASSUME NEW r \in RowsOf(o), NEW to, NEW q, Handed(r, to, q), q # "quiet"
        PROVE  Told(r, q, m)
    <2>1. Shifts(r, to, q) /\ q \in {"delivered", "dropped"}
      BY <1>1, <1>2, <1>3, HandedEnds DEF Handed
    <2>2. Reported(o, q) /\ (q = "delivered" => info[r].leg)
      BY <1>1, <1>2, <1>3, <2>1 DEF Shifts
    <2> QED
      BY <1>2, <1>3, <2>1, <2>2 DEF Told
  <1>4. CASE \A r \in RowsOf(o) : \A to, q : Handed(r, to, q) => q = "quiet"
    <2>1. ASSUME NEW r \in RowsOf(o) PROVE Born(r)' /\ info'[r] = info[r] /\ (Live(r)' <=> Live(r))
      <3>1. Born(r)' /\ info'[r] = info[r] /\ (RowPut(r) \/ \E to, q : Handed(r, to, q))
        BY <1>2, RowFates
      <3>2. CASE RowPut(r)
        BY <3>1, <3>2 DEF RowPut, Live
      <3>3. ASSUME NEW to, NEW q, Handed(r, to, q) PROVE Live(r)' <=> Live(r)
        BY <1>1, <1>2, <1>4, <3>3, HandedEnds DEF Handed
      <3> QED
        BY <3>1, <3>2, <3>3
    <2>2. ASSUME NEW x \in EndedOf(o)' PROVE x \in RowsOf(o)
      <3>1. x \in RowIds /\ Born(x)' /\ info'[x].origin = o /\ ~Live(x)'
        BY <2>2 DEF EndedOf
      <3>2. CASE Born(x)
        BY <1>1, <3>1, <3>2, Steady DEF RowsOf
      <3>3. CASE ~Born(x)
        <4>1. ~TableKept
          BY <3>1, <3>3 DEF TableKept
        <4>2. ASSUME NEW y \in RowIds, NEW leg, NEW k, NEW p, Adds(y, leg, k, p) PROVE FALSE
          <5>1. y = x
            BY <3>1, <3>3, <4>2 DEF Adds, Born
          <5> QED
            BY <3>1, <4>2, <5>1 DEF Adds, Live
        <4>3. ASSUME NEW t \in Threads, TableGrew(pc[t] = "legs", job[t].msg, job[t].origin) PROVE FALSE
          <5>1. PICK leg : leg = (pc[t] = "legs")
            OBVIOUS
          <5>2. \E y \in RowIds : Adds(y, leg, job[t].msg, job[t].origin)
            BY <4>3, <5>1 DEF TableGrew, Adds
          <5> QED
            BY <4>2, <5>2
        <4>4. ASSUME NEW leg, NEW k, NEW p, TableGrew(leg, k, p) PROVE FALSE
          BY <4>2, <4>4 DEF TableGrew
        <4> QED
          BY <1>1, <4>1, <4>3, <4>4, TableFates
      <3> QED
        BY <3>2, <3>3
    <2> QED
      BY <1>2, <2>1, <2>2 DEF EndedOf, RowsOf
  <1> QED
    BY <1>2, <1>3, <1>4

\* An entry of the message changes when its thread settles it or a row reports to it.
LEMMA EntryMoves ==
    ASSUME NEW m \in Msgs, Calm(m), NEW o \in tracked, o \in tracked', entry[o].msg = m
    PROVE  \/ entry'[o] = entry[o]
           \/ \E t \in Threads : Settles(t) /\ job[t].origin = o
           \/ \E r \in RowIds : \E q : Told(r, q, m) /\ info[r].origin = o
  <1> DEFINE Goal == \/ entry'[o] = entry[o]
                     \/ \E t \in Threads : Settles(t) /\ job[t].origin = o
                     \/ \E r \in RowIds : \E q : Told(r, q, m) /\ info[r].origin = o
  <1>1. TypeOK /\ JobInv /\ RowInv /\ Works /\ o \in Origins
    BY Calmly, TrackedOrigins
  <1>2. ASSUME UNCHANGED entry PROVE Goal
    BY <1>2
  <1>3. ASSUME NEW k \in Msgs, Arrives(k) \/ Attempts(k) PROVE Goal
    BY <1>2, <1>3 DEF Arrives, Attempts
  <1>4. ASSUME NEW t \in Threads, Closes(t) \/ Sends(t) \/ Retries(t) \/ Enqueues(t) \/ Goes(t) PROVE Goal
    BY <1>2, <1>4 DEF Closes, Sends, Retries, Enqueues, Goes
  <1>5. ASSUME NEW t \in Threads, Begins(t) PROVE Goal
    <2>1. PICK n \in Nat \ {0} : Track(job[t].msg, n)
      BY <1>5 DEF Begins
    <2>2. PICK out \in SUBSET tracked : /\ tracked' = (tracked \ out) \cup {minted + 1}
                                        /\ \A p \in tracked \ out : entry'[p] = entry[p]
      BY <1>1, <2>1, JobTypes, TrackFacts
    <2>3. o # minted + 1
      BY <1>1, PendingMoves
    <2> QED
      BY <2>2, <2>3
  <1>6. ASSUME NEW t \in Threads, Settles(t) PROVE Goal
    BY <1>1, <1>6 DEF Settles
  <1>7. ASSUME NEW t \in Threads, Replays(t) PROVE Goal
    BY <1>1, <1>7 DEF Replays
  <1>8. ASSUME NEW t \in Threads, NEW r \in RowIds, Takes(t, r) PROVE Goal
    BY <1>2, <1>8 DEF Takes
  <1>9. ASSUME NEW r \in RowIds, info[r].msg # m, NEW to, NEW q, Shifts(r, to, q) PROVE Goal
    <2>1. info[r].origin \in tracked => info[r].origin # o
      BY <1>1, <1>9 DEF RowInv, Shifts
    <2> QED
      BY <1>1, <1>2, <1>9, <2>1 DEF Shifts, Reported
  <1>10. ASSUME NEW r \in RowIds, info[r].msg = m, NEW to, NEW q, Handed(r, to, q) PROVE Goal
    <2>1. Shifts(r, to, q) /\ Born(r)
      BY <1>10 DEF Handed, Shifts
    <2>2. q \in {"quiet", "delivered", "dropped"}
      BY <2>1, StepShape DEF Shifts
    <2>3. CASE q # "quiet" /\ (q = "delivered" => info[r].leg) /\ Reported(info[r].origin, q)
      <3>1. info[r].origin \in tracked
        BY <2>3 DEF Reported
      <3>2. CASE info[r].origin = o
        <4>1. Told(r, q, m)
          BY <1>10, <2>2, <2>3, <3>1, <3>2 DEF Told
        <4> QED
          BY <3>2, <4>1
      <3>3. CASE info[r].origin # o
        BY <1>1, <2>3, <3>3 DEF Reported
      <3> QED
        BY <3>2, <3>3
    <2> QED
      BY <1>2, <2>1, <2>3 DEF Shifts
  <1>11. ASSUME NEW t \in Threads, Leaves(t) PROVE Goal
    <2>1. job[t].row \in RowIds /\ info[job[t].row].msg = job[t].msg
      <3>1. JobOK(t) /\ pc[t] \in {"sent", "unsent"}
        BY <1>1, <1>11 DEF JobInv, Leaves
      <3> QED
        BY <3>1 DEF JobOK, AtRow, RowIds, NoRow
    <2>2. CASE job[t].msg = m
      <3>1. UNCHANGED entry \/ \E to, q : Handed(job[t].row, to, q)
        BY <1>11, <2>2, HandedByHolder
      <3> QED
        BY <1>2, <1>10, <2>1, <2>2, <3>1
    <2>3. CASE job[t].msg # m
      <3>1. UNCHANGED entry \/ \E to, q : Shifts(job[t].row, to, q)
        BY <1>11 DEF Leaves
      <3> QED
        BY <1>2, <1>9, <2>1, <2>3, <3>1
    <2> QED
      BY <2>2, <2>3
  <1>12. ASSUME NEW r \in RowIds, Moves(r) PROVE Goal
    <2>1. CASE info[r].msg = m
      <3>1. \E to, q : Handed(r, to, q)
        BY <1>12, <2>1, HandedByPass
      <3> QED
        BY <1>10, <2>1, <3>1
    <2>2. CASE info[r].msg # m
      <3>1. \E to, q : Shifts(r, to, q)
        BY <1>12 DEF Moves
      <3> QED
        BY <1>9, <2>2, <3>1
    <2> QED
      BY <2>1, <2>2
  <1> HIDE DEF Goal
  <1>13. Goal
    BY <1>1, <1>3, <1>4, <1>5, <1>6, <1>7, <1>8, <1>11, <1>12 DEF Works
  <1> QED
    BY <1>13 DEF Goal

\* While one of its rows is live, an entry heard of fewer drops than it has rows.
LEMMA Undecided ==
    ASSUME NEW m \in Msgs, Calm(m), NEW o \in tracked, entry[o].msg = m, NEW r \in RowsOf(o), Live(r)
    PROVE  entry[o].dropped < Cardinality(RowsOf(o))
  <1>1. EntryOK(o) /\ PendOf(m) /\ entry[o].dropped \in Nat /\ entry[o].terminals \in Nat
    BY Calmly, TrackedOrigins DEF EntryInv, TypeOK, Entries
  <1>2. entry[o].dropped <= Cardinality(EndedOf(o))
    BY <1>1 DEF EntryOK, PendOf
  <1>3. EndedOf(o) \cup {r} \subseteq RowsOf(o) /\ r \notin EndedOf(o)
    BY DEF EndedOf, RowsOf
  <1>4. Cardinality(EndedOf(o) \cup {r}) = Cardinality(EndedOf(o)) + 1
    BY <1>3, Finite, FS_AddElement
  <1>5. Cardinality(EndedOf(o) \cup {r}) <= Cardinality(RowsOf(o))
    BY <1>3, Finite, FS_Subset
  <1> QED
    BY <1>1, <1>2, <1>4, <1>5, Finite

\* The drop that decides an entry is that of its last live row, and nobody is
\* still queueing rows for it.
LEMMA LastOne ==
    ASSUME NEW m \in Msgs, Calm(m), NEW r \in RowIds, Told(r, "dropped", m), NEW o, o = info[r].origin,
           entry[o].dropped + 1 >= entry[o].legs
    PROVE  /\ \A x \in RowsOf(o) : Live(x) => x = r
           /\ \A t \in Threads : pc[t] \in Queueing /\ job[t].origin = o => job[t].todo = 0
           /\ r \in RowsOf(o)
  <1>1. /\ o \in tracked /\ entry[o].msg = m /\ TypeOK /\ QueueingInv
        /\ EntryOK(o) /\ PendOf(m) /\ entry[o].dropped \in Nat /\ entry[o].terminals \in Nat /\ entry[o].legs \in Nat
    BY Calmly, TrackedOrigins DEF EntryInv, TypeOK, Entries, Told
  <1>2. entry[o].dropped <= Cardinality(EndedOf(o))
    BY <1>1 DEF EntryOK, PendOf
  <1>3. Live(r) /\ r \in RowsOf(o)
    BY DEF Told, Handed, Shifts, RowsOf
  <1>4. \A x \in RowsOf(o) : x \in RowIds /\ (Live(x) => x \notin EndedOf(o))
    BY DEF RowsOf, EndedOf
  <1>5. EndedOf(o) \subseteq RowsOf(o) /\ r \notin EndedOf(o)
    BY <1>3 DEF EndedOf, RowsOf
  <1>6. Cardinality(EndedOf(o) \cup {r}) = Cardinality(EndedOf(o)) + 1 /\ IsFiniteSet(EndedOf(o) \cup {r})
    BY <1>5, Finite, FS_AddElement
  <1>7. ASSUME NEW t \in Threads, pc[t] \in Queueing, job[t].origin = o
        PROVE  /\ Cardinality(RowsOf(o)) + job[t].todo <= entry[o].legs /\ job[t].todo \in Nat
    BY <1>1, <1>7, JobTypes DEF QueueingInv, QueueingOK
  <1>8. Cardinality(RowsOf(o)) <= entry[o].legs
    BY <1>1, <1>7, Finite DEF EntryOK
  <1>9. ASSUME NEW x \in RowsOf(o), Live(x), x # r PROVE FALSE
    <2>1. x \notin EndedOf(o) \cup {r} /\ (EndedOf(o) \cup {r}) \cup {x} \subseteq RowsOf(o)
      BY <1>3, <1>4, <1>5, <1>9
    <2>2. Cardinality((EndedOf(o) \cup {r}) \cup {x}) = Cardinality(EndedOf(o) \cup {r}) + 1
      BY <1>6, <2>1, FS_AddElement
    <2>3. Cardinality((EndedOf(o) \cup {r}) \cup {x}) <= Cardinality(RowsOf(o))
      BY <2>1, Finite, FS_Subset
    <2> QED
      BY <1>1, <1>2, <1>6, <1>8, <2>2, <2>3, Finite
  <1>10. Cardinality(EndedOf(o)) + 1 <= Cardinality(RowsOf(o))
    <2>1. EndedOf(o) \cup {r} \subseteq RowsOf(o)
      BY <1>3, <1>5
    <2> QED
      BY <1>6, <2>1, Finite, FS_Subset
  <1>11. ASSUME NEW t \in Threads, pc[t] \in Queueing, job[t].origin = o PROVE job[t].todo = 0
    BY <1>1, <1>2, <1>7, <1>10, <1>11, Finite
  <1> QED
    BY <1>3, <1>9, <1>11

\* Only whoever marks it delivered moves on from a leg that went out.
LEMMA SentKept ==
    ASSUME NEW m \in Msgs, Calm(m), NEW u \in Threads, pc[u] = "sent", job[u].msg = m, LegRow(job[u].row)
    PROVE  \/ /\ pc'[u] = "sent" /\ job'[u].row = job[u].row
              /\ LegRow(job[u].row)' /\ info'[job[u].row] = info[job[u].row]
           \/ \E to : Handed(job[u].row, to, "delivered")
  <1> DEFINE Goal == (pc'[u] = "sent" /\ job'[u].row = job[u].row) \/ \E to : Handed(job[u].row, to, "delivered")
  <1>1. TypeOK /\ JobInv /\ Works /\ HoldOf(m)
    BY Calmly
  <1>2. PICK r : r = job[u].row
    OBVIOUS
  <1>3. r \in RowIds /\ r # NoRow /\ LegRow(r) /\ Born(r) /\ info[r].leg
    BY <1>2, LegHeld DEF LegRow, RowIds, NoRow
  <1>4. Born(r)' /\ info'[r] = info[r]
    BY <1>1, <1>3, Steady
  <1>5. ASSUME pc'[u] = pc[u], job'[u] = job[u] PROVE Goal
    BY <1>5
  <1>6. ASSUME NEW v \in Threads, Others(v), v # u PROVE Goal
    BY <1>5, <1>6 DEF Others
  <1>7. ASSUME NEW k \in Msgs, Arrives(k) \/ Attempts(k) PROVE Goal
    <2>1. CASE Arrives(k)
      BY <1>5, <2>1 DEF Arrives
    <2>2. CASE Attempts(k)
      BY <1>6, <2>2, M2RAssumption DEF Attempts
    <2> QED
      BY <1>7, <2>1, <2>2
  <1>8. ASSUME NEW v \in Threads, Closes(v) \/ Sends(v) \/ Retries(v) \/ Begins(v) \/ Enqueues(v)
                                  \/ Settles(v) \/ Goes(v) \/ Replays(v)
        PROVE  Goal
    <2>1. Others(v)
      BY <1>8 DEF Closes, Sends, Retries, Begins, Enqueues, Settles, Goes, Replays, Finished
    <2>2. pc[v] # "sent"
      BY <1>8 DEF Closes, Sends, Retries, Begins, Enqueues, Settles, Goes, Replays, Queueing
    <2> QED
      BY <1>6, <2>1, <2>2
  <1>9. ASSUME NEW v \in Threads, Leaves(v) PROVE Goal
    <2>1. Others(v)
      BY <1>9 DEF Leaves
    <2>2. CASE v = u
      <3>1. \E to, q : Handed(r, to, q)
        BY <1>2, <1>9, <2>2, HandedByHolder
      <3>2. PICK to, q : Handed(r, to, q)
        BY <3>1
      <3>3. Held(r)
        BY <1>2 DEF Held, Holds
      <3>4. PICK w \in Threads : Leaves(w) /\ job[w].row = r /\ (q = "delivered" <=> pc[w] = "sent")
        BY <3>2, <3>3 DEF Handed
      <3>5. w = u
        BY <1>1, <1>2, <1>3, <3>4 DEF HoldOf, Leaves
      <3>6. q = "delivered"
        BY <3>4, <3>5
      <3> QED
        BY <1>2, <3>2, <3>6
    <2> QED
      BY <1>6, <2>1, <2>2
  <1>10. ASSUME NEW v \in Threads, NEW x \in RowIds, Takes(v, x) PROVE Goal
    BY <1>6, <1>10 DEF Takes
  <1>11. ASSUME NEW x \in RowIds, Moves(x) PROVE Goal
    BY <1>5, <1>11 DEF Moves
  <1> HIDE DEF Goal
  <1>12. Goal
    BY <1>1, <1>7, <1>8, <1>9, <1>10, <1>11 DEF Works
  <1>13. LegRow(r)'
    BY <1>3, <1>4 DEF LegRow
  <1> QED
    BY <1>2, <1>3, <1>4, <1>12, <1>13 DEF Goal, LegRow

\* Whoever adds a leg deals with the message.
LEMMA LegDealt ==
    ASSUME NEW m \in Msgs, NEW t \in Threads, NEW q, LegAdded(q, t, m)
    PROVE  /\ Deals(t, m) /\ UNCHANGED <<pc, tracked, entry, att, dlv, drp, wire>>
           /\ \/ pc[t] = "sending" /\ job[t].sent > 0 /\ Retries(t) /\ info'[q].origin = NoOrigin
              \/ pc[t] = "legs" /\ job[t].todo > 0 /\ Enqueues(t) /\ info'[q].origin = job[t].origin
  BY DEF LegAdded, Retries, Enqueues, Deals

\* Who closes a message, or settles it without a row, deals with it.
LEMMA ClosesDeals ==
    ASSUME NEW m \in Msgs, NEW t \in Threads, job[t].msg = m,
           Closes(t) \/ Begins(t) \/ Sends(t) \/ Retries(t)
    PROVE  Deals(t, m) /\ pc[t] \in {"routing", "sending"}
  BY DEF Closes, Begins, Sends, Retries, Deals

\* A thread queues rows of its own origin only, and counts them.
LEMMA NoneStored ==
    ASSUME NEW m \in Msgs, Calm(m), NEW t \in Threads, pc[t] \in Queueing, job[t].msg = m
    PROVE  /\ job[t].stored = 0 <=> RowsOf(job[t].origin) = {}
           /\ job[t].stored = 0 => Deals(t, m)
           /\ job[t].stored = Cardinality(RowsOf(job[t].origin)) /\ job[t].stored \in Nat
           /\ job[t].origin \in tracked => entry[job[t].origin].msg = m
           /\ pc[t] = "legs" => Deals(t, m)
  BY Calmly, Finite, JobTypes DEF QueueingInv, QueueingOK, Deals, Queueing

\* LegOf is preserved.
LEMMA LegStep ==
    ASSUME NEW m \in Msgs, Calm(m)
    PROVE  LegOf(m)'
  <1>1. /\ TypeOK /\ JobInv /\ RowInv /\ Works /\ LegOf(m) /\ HandOf(m) /\ FreshOf(m) /\ PendOf(m)
        /\ \A t \in Threads : drp[m] \in Nat
    BY Calmly, Countable
  <1>2. SUFFICES ASSUME NEW r \in RowIds, LegRow(r)', info'[r].msg = m
                 PROVE  /\ \A q \in RowIds : LegRow(q)' /\ info'[q].msg = m => info'[q].origin = info'[r].origin
                        /\ Live(r)' => drp'[m] = 0
                        /\ \A o \in tracked' : entry'[o].msg = m => o = info'[r].origin
    BY DEF LegOf
  <1>3. ASSUME NEW x \in RowIds, LegRow(x)', info'[x].msg = m
        PROVE  \/ LegRow(x) /\ info[x].msg = m /\ info'[x] = info[x] /\ (Live(x)' => Live(x))
               \/ \E t \in Threads : LegAdded(x, t, m)
    BY <1>3, LegFates
  <1>4. ASSUME NEW x \in RowIds, LegRow(x), info[x].msg = m, NEW y \in RowIds, NEW t \in Threads, LegAdded(y, t, m)
        PROVE  info'[y].origin = info[x].origin
    <2>1. Deals(t, m)
      BY <1>4, LegDealt
    <2> QED
      BY <1>1, <1>4, <2>1, LegDealt DEF HandOf, Queueing
  <1>5. ASSUME NEW x \in RowIds, NEW y \in RowIds, NEW t \in Threads, LegAdded(x, t, m),
               NEW u \in Threads, LegAdded(y, u, m)
        PROVE  info'[y].origin = info'[x].origin
    <2>1. Deals(t, m) /\ Deals(u, m)
      BY <1>5, LegDealt
    <2>2. t = u
      BY <1>1, <2>1 DEF HandOf
    <2> QED
      BY <1>5, <2>2, LegDealt
  <1>6. ASSUME NEW q \in RowIds, LegRow(q)', info'[q].msg = m PROVE info'[q].origin = info'[r].origin
    BY <1>1, <1>2, <1>3, <1>4, <1>5, <1>6 DEF LegOf
  <1>7. ASSUME Live(r)' PROVE drp'[m] = 0
    <2>1. CASE \E t \in Threads : LegAdded(r, t, m)
      <3>1. PICK t \in Threads : LegAdded(r, t, m)
        BY <2>1
      <3>2. Deals(t, m) /\ drp' = drp /\ (pc[t] = "sending" \/ (pc[t] = "legs" /\ job[t].todo > 0))
        BY <3>1, LegDealt
      <3> QED
        BY <1>1, <3>2 DEF HandOf, Queueing
    <2>2. CASE LegRow(r) /\ info[r].msg = m /\ info'[r] = info[r] /\ Live(r)
      <3>1. drp[m] = 0 /\ Born(r)
        BY <1>1, <2>2 DEF LegOf, LegRow
      <3>2. ASSUME Still(m) PROVE drp'[m] = 0
        BY <3>1, <3>2 DEF Still
      <3>3. ASSUME Arrives(m) PROVE FALSE
        BY <1>1, <2>2, <3>1, <3>3 DEF Arrives, RowInv
      <3>4. ASSUME Attempts(m) PROVE drp'[m] = 0
        BY <3>1, <3>4 DEF Attempts
      <3>5. ASSUME NEW t \in Threads, job[t].msg = m, Closes(t) PROVE drp'[m] = 0
        <4>1. Deals(t, m) /\ pc[t] \in {"routing", "sending"}
          BY <3>5, ClosesDeals
        <4>2. job[t].sent # 0
          BY <1>1, <2>2, <4>1 DEF HandOf
        <4> QED
          BY <3>1, <3>5, <4>2 DEF Closes
      <3>6. ASSUME NEW t \in Threads, job[t].msg = m, Settles(t), job[t].stored # 0 => job[t].origin \in tracked
            PROVE  drp'[m] = 0
        <4>1. PICK o : o = job[t].origin
          OBVIOUS
        <4>2. pc[t] \in Queueing
          BY <3>6 DEF Settles
        <4>3. job[t].stored # 0
          <5>1. job[t].stored = 0 => Deals(t, m) /\ RowsOf(o) = {}
            BY <3>6, <4>1, <4>2, NoneStored
          <5>2. Deals(t, m) => info[r].origin = o
            BY <1>1, <2>2, <4>1, <4>2 DEF HandOf
          <5> QED
            BY <3>1, <5>1, <5>2 DEF RowsOf
        <4>4. o \in tracked /\ entry[o].msg = m /\ job[t].stored = Cardinality(RowsOf(o)) /\ entry[o].dropped \in Nat
          BY <1>1, <3>6, <4>1, <4>2, <4>3, NoneStored, TrackedOrigins DEF TypeOK, Entries
        <4>5. o = info[r].origin /\ r \in RowsOf(o)
          BY <1>1, <2>2, <3>1, <4>4 DEF LegOf, RowsOf
        <4>6. entry[o].dropped < job[t].stored
          BY <2>2, <4>4, <4>5, Undecided
        <4>7. ~(entry[o].dropped >= job[t].stored)
          BY <4>4, <4>6, Finite
        <4>8. drp' = drp
          BY <3>6, <4>1, <4>3, <4>4, <4>7 DEF Settles
        <4> QED
          BY <3>1, <4>8
      <3>7. ASSUME NEW t \in Threads, Replays(t) PROVE drp'[m] = 0
        BY <3>1, <3>7 DEF Replays
      <3>8. ASSUME NEW x \in RowIds, Orphaned(x, m) PROVE FALSE
        <4>1. Fresh(x) /\ info[x].msg = m
          BY <3>8, HandedFresh DEF Orphaned
        <4> QED
          BY <1>1, <2>2, <4>1 DEF FreshOf
      <3>9. ASSUME NEW x \in RowIds, NEW q, Told(x, q, m) PROVE drp'[m] = 0
        <4>1. PICK o : o = info[x].origin
          OBVIOUS
        <4>2. o \in tracked /\ entry[o].msg = m /\ Reported(o, q) /\ \E to : Handed(x, to, q)
          BY <3>9, <4>1 DEF Told
        <4>3. o = info[r].origin /\ r \in RowsOf(o)
          BY <1>1, <2>2, <3>1, <4>2 DEF LegOf, RowsOf
        <4>4. ASSUME q = "dropped", entry[o].dropped + 1 >= entry[o].legs PROVE FALSE
          <5>1. r = x
            BY <2>2, <3>9, <4>1, <4>3, <4>4, LastOne
          <5> QED
            BY <1>1, <1>7, <4>2, <4>4, <5>1, HandedEnds
        <4>5. entry[o].dropped \in Nat /\ entry[o].legs \in Nat
          BY <1>1, <4>2, TrackedOrigins DEF TypeOK, Entries
        <4>6. drp' = drp
          BY <4>2, <4>4, <4>5 DEF Reported
        <4> QED
          BY <3>1, <4>6
      <3> QED
        BY <3>2, <3>3, <3>4, <3>5, <3>6, <3>7, <3>8, <3>9, CountFates DEF CountFate
    <2> QED
      BY <1>2, <1>3, <1>7, <2>1, <2>2
  <1>8. ASSUME NEW o \in tracked', entry'[o].msg = m PROVE o = info'[r].origin
    <2>1. CASE o \in tracked /\ entry[o].msg = m
      <3>1. CASE LegRow(r) /\ info[r].msg = m /\ info'[r] = info[r]
        BY <1>1, <2>1, <3>1 DEF LegOf
      <3>2. ASSUME NEW t \in Threads, LegAdded(r, t, m) PROVE o = info'[r].origin
        <4>1. Deals(t, m)
          BY <3>2, LegDealt
        <4> QED
          BY <1>1, <2>1, <3>2, <4>1, LegDealt DEF HandOf, Queueing
      <3> QED
        BY <1>2, <1>3, <3>1, <3>2
    <2>2. ASSUME NEW t \in Threads, EntryAdded(o, t, m) PROVE FALSE
      <3>1. Deals(t, m) /\ pc[t] \in {"routing", "sending"} /\ job[t].sent = 0 /\ Begins(t)
        BY <2>2, ClosesDeals DEF EntryAdded, Begins
      <3>2. ~(LegRow(r) /\ info[r].msg = m)
        BY <1>1, <3>1 DEF HandOf
      <3>3. PICK u \in Threads : LegAdded(r, u, m)
        BY <1>2, <1>3, <3>2
      <3>4. pc' = pc
        BY <3>3, LegDealt
      <3> QED
        BY <3>1, <3>4 DEF Begins
    <2> QED
      BY <1>8, <2>1, <2>2, PendFates
  <1> QED
    BY <1>6, <1>7, <1>8

\* OnceOf is preserved: the claim of a replay finds its entry.
LEMMA OnceStep ==
    ASSUME NEW m \in Msgs, Calm(m)
    PROVE  OnceOf(m)'
  <1>1. /\ TypeOK /\ JobInv /\ Works /\ OnceOf(m) /\ FreshOf(m) /\ InboxInv /\ evicted \subseteq evicted'
        /\ att \in [Msgs -> Nat] /\ NoOrigin \notin tracked
    BY Calmly, Countable, Steady, TrackedOrigins
  <1> SUFFICES ASSUME m \notin evicted' PROVE att'[m] <= 1
    BY DEF OnceOf
  <1>2. att[m] <= 1 /\ m \notin evicted
    BY <1>1 DEF OnceOf
  <1>3. ASSUME att[m] = 0, att' = Plus(att, m) PROVE att'[m] <= 1
    BY <1>1, <1>3 DEF Plus
  <1>4. ASSUME att' = att PROVE att'[m] <= 1
    BY <1>2, <1>4
  <1>5. ASSUME Still(m) PROVE att'[m] <= 1
    BY <1>2, <1>5 DEF Still
  <1>6. ASSUME Arrives(m) \/ Attempts(m) PROVE att'[m] <= 1
    <2>1. att[m] = 0
      BY <1>1, <1>6 DEF Arrives, Attempts, InboxInv
    <2> QED
      BY <1>3, <1>4, <1>6, <2>1 DEF Arrives, Attempts
  <1>7. ASSUME NEW t \in Threads, Closes(t) \/ Settles(t) PROVE att'[m] <= 1
    BY <1>4, <1>7 DEF Closes, Settles
  <1>8. ASSUME NEW t \in Threads, job[t].msg = m, Replays(t), info[job[t].row].origin \notin tracked
        PROVE  att'[m] <= 1
    <2>1. job[t].row \in RowIds /\ info[job[t].row].msg = m /\ Fresh(job[t].row)
      BY <1>8, ReplayFresh
    <2>2. att[m] = 0
      BY <1>1, <1>2, <1>8, <2>1 DEF FreshOf
    <2>3. att' = Plus(att, m)
      BY <1>8 DEF Replays
    <2> QED
      BY <1>3, <2>2, <2>3
  <1>9. ASSUME NEW r \in RowIds, Orphaned(r, m) PROVE att'[m] <= 1
    <2>1. Fresh(r) /\ info[r].msg = m /\ info[r].origin = NoOrigin /\ att' = Plus(att, m)
      BY <1>9, HandedFresh DEF Orphaned
    <2>2. att[m] = 0
      BY <1>1, <1>2, <2>1 DEF FreshOf
    <2> QED
      BY <1>3, <2>1, <2>2
  <1>10. ASSUME NEW r \in RowIds, NEW q, Told(r, q, m) PROVE att'[m] <= 1
    BY <1>4, <1>10 DEF Told, Reported
  <1> QED
    BY <1>5, <1>6, <1>7, <1>8, <1>9, <1>10, CountFates DEF CountFate

\* A message of the inbox is nowhere else.
LEMMA InboxAlone ==
    ASSUME NEW m \in Msgs, Calm(m), m \in inbox
    PROVE  /\ att[m] = 0 /\ dlv[m] = 0 /\ drp[m] = 0 /\ m \notin wire
           /\ \A r \in RowIds : Born(r) => info[r].msg # m
           /\ \A t \in Threads : pc[t] # "idle" => job[t].msg # m
           /\ \A t \in Threads : ~Deals(t, m)
           /\ \A o \in tracked : entry[o].msg # m
  <1>1. TypeOK /\ JobInv /\ QueueingInv /\ RowInv /\ EntryInv /\ InboxInv /\ Conserved
    BY Calmly
  <1>2. att[m] = 0 /\ m \notin wire
    BY <1>1 DEF InboxInv
  <1>3. dlv[m] = 0 /\ drp[m] = 0
    <2>1. Sum(m) <= att[m]
      BY <1>1 DEF Conserved, ConservedAt
    <2> QED
      BY <1>1, <1>2, <2>1, Finite, Countable DEF Sum
  <1>4. \A t \in Threads : pc[t] # "idle" => job[t].msg # m
    BY <1>1 DEF JobInv, JobOK
  <1>5. \A o \in tracked : entry[o].msg # m
    BY <1>1, EntryTaken
  <1> QED
    BY <1>1, <1>2, <1>3, <1>4, <1>5 DEF RowInv, Deals

\* Beside a whole-message row that nobody replays, and that stays so, nothing
\* happens to the message.
LEMMA FreshStays ==
    ASSUME NEW m \in Msgs, Calm(m), NEW r \in RowIds, Fresh(r), info[r].msg = m, Fresh(r)', info'[r] = info[r]
    PROVE  /\ \A t \in Threads : ~Deals(t, m) /\ ~(job[t].msg = m /\ Replays(t))
           /\ ~Arrives(m) /\ ~Attempts(m)
           /\ \A q \in RowIds : LegRow(q) => info[q].msg # m
           /\ \A x \in RowIds : ~Orphaned(x, m) /\ \A q : ~Told(x, q, m)
           /\ \A t \in Threads : job[t].msg = m /\ Settles(t) =>
                /\ job[t].stored # 0 /\ pc[t] = "whole"
                /\ job[t].origin \in tracked => drp' = drp /\ job[t].origin \in tracked'
  <1>1. /\ TypeOK /\ JobInv /\ QueueingInv /\ RowInv /\ EntryInv /\ FreshOf(m) /\ Works
        /\ Live(r) /\ ~info[r].leg /\ Born(r)
    BY Calmly DEF Fresh, Live, Born
  <1>2. \A t \in Threads : ~Deals(t, m)
    BY <1>1 DEF FreshOf
  <1>3. \A x \in RowIds : Born(x) /\ ~info[x].leg /\ info[x].msg = m => x = r
    BY <1>1 DEF RowInv
  <1>4. \A q \in RowIds : LegRow(q) => info[q].msg # m
    BY <1>1 DEF FreshOf
  <1>5. ASSUME NEW t \in Threads, job[t].msg = m, Replays(t) PROVE FALSE
    <2>1. job[t].row \in RowIds /\ info[job[t].row].msg = m /\ Fresh(job[t].row) /\ Born(job[t].row)
      BY <1>5, ReplayFresh
    <2>2. job[t].row = r
      BY <1>3, <2>1 DEF Fresh
    <2>3. Replayed(r)'
      BY <1>5, <2>2 DEF Replayed, Holds, Replays, Handling
    <2> QED
      BY <2>3 DEF Fresh
  <1>6. m \notin inbox
    BY <1>1 DEF RowInv
  <1>7. ASSUME NEW x \in RowIds, info[x].msg = m, NEW to, NEW q, Handed(x, to, q), q # "quiet" PROVE FALSE
    <2>1. Born(x) /\ ~Live(x)'
      BY <1>1, <1>7, HandedEnds
    <2>2. x = r
      BY <1>3, <1>4, <1>7, <2>1 DEF LegRow
    <2> QED
      BY <2>1, <2>2 DEF Fresh
  <1>8. ASSUME NEW x \in RowIds PROVE ~Orphaned(x, m) /\ \A q : ~Told(x, q, m)
    <2>1. ~Orphaned(x, m)
      BY <1>7 DEF Orphaned
    <2>2. ASSUME NEW q, Told(x, q, m) PROVE FALSE
      BY <1>7, <2>2 DEF Told
    <2> QED
      BY <2>1, <2>2
  <1>9. ASSUME NEW t \in Threads, job[t].msg = m, Settles(t)
        PROVE  /\ job[t].stored # 0 /\ pc[t] = "whole"
               /\ job[t].origin \in tracked => drp' = drp /\ job[t].origin \in tracked'
    <2>1. PICK o : o = job[t].origin
      OBVIOUS
    <2>2. job[t].stored # 0 /\ pc[t] = "whole" /\ job[t].stored \in Nat
      BY <1>1, <1>2, <1>9, NoneStored DEF Settles, Queueing
    <2>3. ASSUME o \in tracked PROVE drp' = drp /\ o \in tracked'
      <3>1. /\ entry[o].legs = 1 /\ entry[o].dropped \in Nat /\ entry[o].terminals \in Nat
            /\ entry[o].dropped <= entry[o].terminals /\ entry[o].terminals < entry[o].legs
        BY <1>1, <1>9, <2>1, <2>2, <2>3, TrackedOrigins
           DEF QueueingInv, QueueingOK, Queueing, EntryInv, EntryOK, TypeOK, Entries
      <3>2. ~(entry[o].dropped >= job[t].stored) /\ ~(entry[o].terminals >= job[t].stored)
        BY <2>2, <3>1
      <3> QED
        BY <1>9, <2>1, <2>2, <2>3, <3>2 DEF Settles
    <2> QED
      BY <2>1, <2>2, <2>3
  <1> QED
    BY <1>2, <1>4, <1>5, <1>6, <1>8, <1>9 DEF Arrives, Attempts

\* So it stays all there is of the message.
LEMMA FreshOld ==
    ASSUME NEW m \in Msgs, Calm(m), NEW r \in RowIds, Fresh(r), info[r].msg = m, Fresh(r)', info'[r] = info[r]
    PROVE  /\ dlv'[m] = 0 /\ drp'[m] = 0 /\ m \notin wire'
           /\ \A q \in RowIds : LegRow(q)' => info'[q].msg # m
           /\ \A t \in Threads : ~Deals(t, m)'
           /\ \A o \in tracked' : entry'[o].msg = m => o = info'[r].origin
           /\ m \notin evicted' /\ info'[r].origin \notin tracked' => att'[m] = 0
  <1>1. /\ TypeOK /\ JobInv /\ QueueingInv /\ RowInv /\ EntryInv /\ FreshOf(m) /\ Works
        /\ Live(r) /\ ~info[r].leg /\ Born(r) /\ evicted \subseteq evicted'
    BY Calmly, Steady DEF Fresh, Live, Born
  <1>2. dlv[m] = 0 /\ drp[m] = 0 /\ m \notin wire
    BY <1>1 DEF FreshOf
  <1>3. /\ \A t \in Threads : ~Deals(t, m) /\ ~(job[t].msg = m /\ Replays(t))
        /\ ~Arrives(m) /\ ~Attempts(m)
        /\ \A q \in RowIds : LegRow(q) => info[q].msg # m
        /\ \A x \in RowIds : ~Orphaned(x, m) /\ \A q : ~Told(x, q, m)
        /\ \A t \in Threads : job[t].msg = m /\ Settles(t) =>
             /\ job[t].stored # 0 /\ pc[t] = "whole"
             /\ job[t].origin \in tracked => drp' = drp /\ job[t].origin \in tracked'
    BY FreshStays
  <1>4. Still(m)
    <2>1. ASSUME NEW t \in Threads, job[t].msg = m, Closes(t) PROVE FALSE
      BY <1>3, <2>1, ClosesDeals
    <2>2. ASSUME NEW t \in Threads, job[t].msg = m, Settles(t), job[t].stored # 0 => job[t].origin \in tracked
          PROVE  Still(m)
      <3>1. drp' = drp
        BY <1>3, <2>2
      <3>2. UNCHANGED <<att, dlv>>
        BY <2>2 DEF Settles
      <3> QED
        BY <3>1, <3>2 DEF Still
    <2> QED
      BY <1>3, <2>1, <2>2, CountFates DEF CountFate
  <1>5. m \notin wire'
    <2>1. ASSUME NEW t \in Threads, Transmits(t, m) PROVE FALSE
      <3>1. CASE Sends(t)
        BY <1>3, <2>1, <3>1, ClosesDeals DEF Transmits
      <3>2. CASE Goes(t) /\ pc[t] = "leg"
        BY <1>3, <2>1, <3>2, LegHeld DEF Transmits
      <3> QED
        BY <2>1, <3>1, <3>2 DEF Transmits
    <2> QED
      BY <1>2, <2>1, WireFates
  <1>6. ASSUME NEW q \in RowIds, LegRow(q)', info'[q].msg = m PROVE FALSE
    <2>1. PICK t \in Threads : LegAdded(q, t, m)
      BY <1>3, <1>6, LegFates
    <2> QED
      BY <1>3, <2>1, LegDealt
  <1>7. ASSUME NEW t \in Threads, Deals(t, m)' PROVE FALSE
    BY <1>3, <1>7, DealsFates
  <1>8. ASSUME NEW o \in tracked', entry'[o].msg = m PROVE o = info'[r].origin
    <2>1. ASSUME NEW t \in Threads, EntryAdded(o, t, m) PROVE FALSE
      BY <1>3, <2>1, ClosesDeals DEF EntryAdded
    <2>2. o \in tracked /\ entry[o].msg = m
      BY <1>8, <2>1, PendFates
    <2> QED
      BY <1>1, <2>2 DEF FreshOf
  <1>9. ASSUME m \notin evicted', info'[r].origin \notin tracked' PROVE att'[m] = 0
    <2>1. PICK o : o = info[r].origin
      OBVIOUS
    <2>2. CASE o \notin tracked
      BY <1>1, <1>4, <1>9, <2>1, <2>2 DEF FreshOf, Still
    <2>3. CASE o \in tracked
      <3>1. entry[o].msg = m /\ entry[o].legs = 1 /\ EntryOK(o) /\ o \notin tracked'
        BY <1>1, <1>9, <2>1, <2>3 DEF RowInv, EntryInv
      <3>2. ~entry[o].resolved
        <4>1. entry[o].dropped \in Nat /\ entry[o].terminals \in Nat
          BY <1>1, <2>3, TrackedOrigins DEF TypeOK, Entries
        <4> QED
          BY <3>1, <4>1 DEF EntryOK
      <3>3. ~EntryKept(o) /\ ~EntryEvicted(o)
        BY <1>9, <3>1, <3>2 DEF EntryKept, EntryEvicted
      <3>4. ~EntrySettled(o)
        <4> SUFFICES ASSUME NEW t \in Threads, Settles(t), job[t].origin = o PROVE FALSE
          BY DEF EntrySettled
        <4>1. job[t].msg = m
          BY <1>1, <2>3, <3>1 DEF Settles, QueueingInv, QueueingOK
        <4> QED
          BY <1>3, <2>3, <3>1, <4>1
      <3>5. ~EntryClaimed(o)
        <4> SUFFICES ASSUME NEW t \in Threads, Replays(t), info[job[t].row].origin = o PROVE FALSE
          BY DEF EntryClaimed
        <4>1. JobOK(t) /\ pc[t] = "replay"
          BY <1>1 DEF JobInv, Replays
        <4>2. job[t].row \in RowIds /\ Born(job[t].row) /\ info[job[t].row].msg = job[t].msg
          BY <4>1 DEF JobOK, AtRow, RowIds, NoRow
        <4>3. job[t].msg = m
          BY <1>1, <2>3, <3>1, <4>2 DEF RowInv
        <4> QED
          BY <1>3, <4>3
      <3>6. EntryTold(o)
        BY <1>1, <2>3, <3>3, <3>4, <3>5, EntryFates
      <3>7. PICK x \in RowIds, q \in {"delivered", "dropped"} :
               Born(x) /\ info[x].origin = o /\ Reported(o, q) /\ \E to : Shifts(x, to, q)
        BY <3>6 DEF EntryTold
      <3>8. x = r
        <4>1. info[x].msg = m
          BY <1>1, <2>3, <3>1, <3>7 DEF RowInv
        <4> QED
          BY <1>1, <1>3, <3>7, <4>1 DEF RowInv, LegRow
      <3>9. PICK to : Shifts(r, to, q)
        BY <3>7, <3>8
      <3>10. rows'[r] = to /\ to \in {"done", "dead", "gone"}
        <4>1. rows \in [RowIds -> Queue!States]
          BY <1>1 DEF TypeOK
        <4> QED
          BY <3>7, <3>9, <4>1, StepShape DEF Shifts
      <3> QED
        BY <3>10 DEF Fresh, Live
    <2> QED
      BY <2>2, <2>3
  <1> QED
    BY <1>2, <1>4, <1>5, <1>6, <1>7, <1>8, <1>9 DEF Still

\* So is the first such row.
LEMMA FreshNew ==
    ASSUME NEW m \in Msgs, Calm(m), NEW r \in RowIds, Fresh(r)', WholeAdded(r, m)
    PROVE  /\ dlv'[m] = 0 /\ drp'[m] = 0 /\ m \notin wire'
           /\ \A q \in RowIds : LegRow(q)' => info'[q].msg # m
           /\ \A t \in Threads : ~Deals(t, m)'
           /\ \A o \in tracked' : entry'[o].msg = m => o = info'[r].origin
           /\ m \notin evicted' /\ info'[r].origin \notin tracked' => att'[m] = 0
  <1>1. TypeOK /\ JobInv /\ QueueingInv /\ RowInv /\ HandOf(m) /\ Works
    BY Calmly
  <1>2. CASE Arrives(m)
    <2>1. m \in inbox /\ UNCHANGED <<pc, tracked, entry, wire>> /\ UNCHANGED <<att, dlv, drp>>
      BY <1>2 DEF Arrives, WholeAdded, Fresh, Live, Born
    <2>2. ASSUME NEW q \in RowIds, LegRow(q)', info'[q].msg = m PROVE FALSE
      <3>1. ASSUME NEW t \in Threads, LegAdded(q, t, m) PROVE FALSE
        BY <2>1, <3>1, InboxAlone, LegDealt
      <3> QED
        BY <2>1, <2>2, <3>1, InboxAlone, LegFates DEF LegRow
    <2>3. ASSUME NEW t \in Threads, Deals(t, m)' PROVE FALSE
      <3>1. ~Attempts(m) /\ ~(Replays(t) /\ job[t].msg = m)
        BY <2>1, InboxAlone, M2RAssumption DEF Attempts, Replays
      <3> QED
        BY <2>1, <2>3, <3>1, InboxAlone, DealsFates
    <2> QED
      BY <2>1, <2>2, <2>3, InboxAlone
  <1>3. ASSUME NEW t \in Threads, Enqueues(t), pc[t] = "whole", job[t].msg = m, info'[r].origin = job[t].origin,
               job'[t].stored = job[t].stored + 1
        PROVE  /\ dlv'[m] = 0 /\ drp'[m] = 0 /\ m \notin wire'
               /\ \A q \in RowIds : LegRow(q)' => info'[q].msg # m
               /\ \A u \in Threads : ~Deals(u, m)'
               /\ \A o \in tracked' : entry'[o].msg = m => o = info'[r].origin
               /\ m \notin evicted' /\ info'[r].origin \notin tracked' => att'[m] = 0
    <2>1. PICK o : o = job[t].origin
      OBVIOUS
    <2>2. /\ pc[t] \in Queueing /\ job[t].todo > 0 /\ UNCHANGED <<pc, tracked, entry, att, dlv, drp, wire, evicted>>
          /\ Others(t)
      BY <1>3 DEF Enqueues
    <2>3. job[t].stored = 0 /\ job[t].stored \in Nat
      BY <1>1, <1>3, <2>2, JobTypes DEF QueueingInv, QueueingOK
    <2>4. RowsOf(o) = {} /\ Deals(t, m)
      BY <1>3, <2>1, <2>2, <2>3, NoneStored
    <2>5. dlv[m] = 0 /\ drp[m] = 0 /\ m \notin wire
      BY <1>1, <2>2, <2>3, <2>4 DEF HandOf
    <2>6. \A q \in RowIds : LegRow(q) => info[q].msg # m
      BY <1>1, <2>1, <2>2, <2>4 DEF HandOf, LegRow, RowsOf
    <2>7. \A p \in tracked : entry[p].msg = m => p = o
      BY <1>1, <2>1, <2>2, <2>4 DEF HandOf
    <2>8. \A u \in Threads : Deals(u, m) => u = t
      BY <1>1, <2>4 DEF HandOf
    <2>9. ASSUME NEW q \in RowIds, LegRow(q)', info'[q].msg = m PROVE FALSE
      <3>1. PICK u \in Threads : LegAdded(q, u, m)
        BY <2>6, <2>9, LegFates
      <3> QED
        BY <1>3, <2>8, <3>1, LegDealt
    <2>10. ASSUME NEW u \in Threads, Deals(u, m)' PROVE FALSE
      <3>1. ~Attempts(m) /\ ~Replays(u)
        BY <2>2, M2RAssumption DEF Attempts, Replays
      <3>2. u = t
        BY <2>8, <2>10, <3>1, DealsFates
      <3>3. job'[t].stored # 0 /\ pc'[t] = "whole"
        BY <1>3, <2>2, <2>3
      <3> QED
        BY <2>10, <3>2, <3>3 DEF Deals
    <2>11. o \in tracked \/ m \in evicted
      BY <1>1, <1>3, <2>1, <2>2, <2>4 DEF QueueingInv, QueueingOK
    <2> QED
      BY <1>3, <2>1, <2>2, <2>5, <2>7, <2>9, <2>10, <2>11
  <1> QED
    BY <1>2, <1>3 DEF WholeAdded

\* FreshOf is preserved.
LEMMA FreshStep ==
    ASSUME NEW m \in Msgs, Calm(m)
    PROVE  FreshOf(m)'
  <1> SUFFICES ASSUME NEW r \in RowIds, Fresh(r)', info'[r].msg = m
               PROVE  /\ dlv'[m] = 0 /\ drp'[m] = 0 /\ m \notin wire'
                      /\ \A q \in RowIds : LegRow(q)' => info'[q].msg # m
                      /\ \A t \in Threads : ~Deals(t, m)'
                      /\ \A o \in tracked' : entry'[o].msg = m => o = info'[r].origin
                      /\ m \notin evicted' /\ info'[r].origin \notin tracked' => att'[m] = 0
    BY DEF FreshOf
  <1>1. CASE Fresh(r) /\ info'[r] = info[r] /\ info[r].msg = m
    BY <1>1, FreshOld
  <1>2. CASE WholeAdded(r, m)
    BY <1>2, FreshNew
  <1> QED
    BY <1>1, <1>2, FreshFates

\* Beside a thread that deals with the message there is no other, no replay to
\* start and nothing in the inbox.
LEMMA DealtAlone ==
    ASSUME NEW m \in Msgs, Calm(m), NEW t \in Threads, Deals(t, m)
    PROVE  /\ \A u \in Threads : Deals(u, m) => u = t
           /\ m \notin inbox /\ ~Arrives(m) /\ ~Attempts(m)
           /\ \A u \in Threads : ~(Replays(u) /\ job[u].msg = m)
           /\ \A x \in RowIds : ~Orphaned(x, m)
  <1>1. JobInv /\ HandOf(m) /\ FreshOf(m)
    BY Calmly
  <1>2. m \notin inbox
    BY <1>1 DEF JobInv, JobOK, Deals
  <1>3. ASSUME NEW u \in Threads, Replays(u), job[u].msg = m PROVE FALSE
    BY <1>1, <1>3, ReplayFresh DEF FreshOf
  <1>4. ASSUME NEW x \in RowIds, Orphaned(x, m) PROVE FALSE
    <2>1. Fresh(x) /\ info[x].msg = m
      BY <1>4, HandedFresh DEF Orphaned
    <2> QED
      BY <1>1, <2>1 DEF FreshOf
  <1> QED
    BY <1>1, <1>2, <1>3, <1>4 DEF HandOf, Arrives, Attempts

\* One thread at most deals with a message after a step.
LEMMA DealsUnique ==
    ASSUME NEW m \in Msgs, Calm(m), NEW t \in Threads, NEW u \in Threads, Deals(t, m)', Deals(u, m)'
    PROVE  t = u
  <1>1. ASSUME NEW v \in Threads, Deals(v, m)' PROVE Deals(v, m) \/ (Attempts(m) /\ v = Bridge) \/ (Replays(v) /\ job[v].msg = m)
    BY <1>1, DealsFates
  <1>2. ASSUME Deals(t, m) \/ Deals(u, m) PROVE t = u
    BY <1>1, <1>2, DealtAlone
  <1>3. CASE Attempts(m) /\ Replays(t)
    BY <1>3, M2RAssumption DEF Attempts, Replays, Others
  <1>4. CASE Attempts(m) /\ Replays(u)
    BY <1>4, M2RAssumption DEF Attempts, Replays, Others
  <1>5. CASE Replays(t) /\ Replays(u)
    BY <1>5 DEF Replays, Others
  <1> QED
    BY <1>1, <1>2, <1>3, <1>4, <1>5

\* A message in hand before routing ends: nothing came of it yet, except what
\* the sends left.
LEMMA HandKept ==
    ASSUME NEW m \in Msgs, Calm(m), NEW t \in Threads, Deals(t, m)', Deals(t, m),
           pc'[t] \in {"routing", "sending"}
    PROVE  /\ dlv'[m] = 0 /\ drp'[m] = 0
           /\ job'[t].sent = 0 => m \notin wire' /\ \A q \in RowIds : LegRow(q)' => info'[q].msg # m
           /\ \A q \in RowIds : LegRow(q)' /\ info'[q].msg = m => info'[q].origin = NoOrigin
           /\ \A o \in tracked' : entry'[o].msg # m
  <1>1. TypeOK /\ JobInv /\ HandOf(m) /\ Works /\ job[t].sent \in Nat
    BY Calmly, JobTypes
  <1>2. /\ \A u \in Threads : Deals(u, m) => u = t
        /\ ~Arrives(m) /\ ~Attempts(m)
        /\ \A u \in Threads : ~(Replays(u) /\ job[u].msg = m)
        /\ \A x \in RowIds : ~Orphaned(x, m)
    BY DealtAlone
  <1>3. (pc'[t] = pc[t] /\ job'[t] = job[t]) \/ Sends(t) \/ Retries(t)
    <2>1. ~Begins(t)
      BY DEF Begins
    <2>2. ~Enqueues(t)
      <3> SUFFICES ASSUME Enqueues(t) PROVE FALSE
        OBVIOUS
      <3>1. pc[t] \in Queueing /\ pc' = pc
        BY DEF Enqueues
      <3> QED
        BY <3>1 DEF Queueing
    <2> QED
      BY <1>2, <2>1, <2>2, DealsFates
  <1>4. pc[t] \in {"routing", "sending"}
    BY <1>3 DEF Sends, Retries
  <1>5. /\ dlv[m] = 0 /\ drp[m] = 0
        /\ job[t].sent = 0 => m \notin wire /\ \A q \in RowIds : LegRow(q) => info[q].msg # m
        /\ \A q \in RowIds : LegRow(q) /\ info[q].msg = m => info[q].origin = NoOrigin
        /\ \A o \in tracked : entry[o].msg # m
    BY <1>1, <1>4 DEF HandOf
  <1>6. \A u \in Threads : job[u].msg = m => ~Closes(u) /\ ~Begins(u)
    <2> SUFFICES ASSUME NEW u \in Threads, job[u].msg = m, Closes(u) \/ Begins(u) PROVE FALSE
      OBVIOUS
    <2>1. u = t
      BY <1>2, ClosesDeals
    <2> QED
      BY <2>1 DEF Closes, Begins, Finished
  <1>7. Still(m)
    <2>1. ASSUME NEW u \in Threads, job[u].msg = m, Settles(u), job[u].stored # 0 => job[u].origin \in tracked
          PROVE  FALSE
      <3>1. pc[u] \in Queueing
        BY <2>1 DEF Settles
      <3>2. u # t
        BY <1>4, <3>1 DEF Queueing
      <3> QED
        BY <1>2, <1>5, <2>1, <3>1, <3>2, NoneStored
    <2>2. \A x \in RowIds : \A q : ~Told(x, q, m)
      BY <1>5 DEF Told
    <2> QED
      BY <1>2, <1>6, <2>1, <2>2, CountFates DEF CountFate
  <1>8. ASSUME NEW q \in RowIds, NEW u \in Threads, LegAdded(q, u, m)
        PROVE  info'[q].origin = NoOrigin /\ job'[t].sent # 0
    <2>1. u = t
      BY <1>2, <1>8, LegDealt
    <2>2. Retries(t) /\ job[t].sent > 0 /\ info'[q].origin = NoOrigin
      BY <1>4, <1>8, <2>1, LegDealt
    <2> QED
      BY <1>1, <2>2 DEF Retries
  <1>9. ASSUME NEW q \in RowIds, LegRow(q)', info'[q].msg = m PROVE info'[q].origin = NoOrigin
    BY <1>5, <1>8, <1>9, LegFates
  <1>10. ASSUME job'[t].sent = 0 PROVE m \notin wire' /\ \A q \in RowIds : LegRow(q)' => info'[q].msg # m
    <2>1. job[t].sent = 0
      <3>1. job'[t].sent = job[t].sent \/ job'[t].sent = job[t].sent + 1
        BY <1>3 DEF Sends, Retries
      <3> QED
        BY <1>1, <1>10, <3>1
    <2>2. ASSUME NEW q \in RowIds, LegRow(q)', info'[q].msg = m PROVE FALSE
      BY <1>5, <1>8, <1>10, <2>1, <2>2, LegFates
    <2>3. ASSUME NEW u \in Threads, Transmits(u, m) PROVE FALSE
      <3>1. CASE Sends(u) /\ job'[u].sent = job[u].sent + 1
        <4>1. u = t
          BY <1>2, <2>3, <3>1, ClosesDeals DEF Transmits
        <4> QED
          BY <1>1, <1>10, <2>1, <3>1, <4>1
      <3>2. CASE Goes(u) /\ pc[u] = "leg"
        <4>1. job[u].row \in RowIds /\ LegRow(job[u].row) /\ info[job[u].row].msg = m
          BY <2>3, <3>2, LegHeld DEF Transmits
        <4> QED
          BY <1>5, <2>1, <4>1
      <3> QED
        BY <2>3, <3>1, <3>2 DEF Transmits
    <2> QED
      BY <1>5, <2>1, <2>2, <2>3, WireFates
  <1>11. ASSUME NEW o \in tracked', entry'[o].msg = m PROVE FALSE
    BY <1>5, <1>6, <1>11, PendFates DEF EntryAdded
  <1> QED
    BY <1>5, <1>7, <1>9, <1>10, <1>11 DEF Still

\* A message just taken from the inbox, or from its row.
LEMMA HandTaken ==
    ASSUME NEW m \in Msgs, Calm(m), NEW t \in Threads, Deals(t, m)', pc'[t] \in {"routing", "sending"},
           (Attempts(m) /\ t = Bridge) \/ (Replays(t) /\ job[t].msg = m)
    PROVE  /\ dlv'[m] = 0 /\ drp'[m] = 0 /\ m \notin wire'
           /\ \A q \in RowIds : LegRow(q)' => info'[q].msg # m
           /\ \A o \in tracked' : entry'[o].msg # m
  <1>1. /\ UNCHANGED <<rows, info, dlv, drp, wire>>
        /\ \A u \in Threads : ~Begins(u)
    <2>1. UNCHANGED <<rows, info, dlv, drp, wire>>
      BY DEF Attempts, Replays
    <2>2. \A u \in Threads : ~Begins(u)
      <3> SUFFICES ASSUME NEW u \in Threads, Begins(u) PROVE FALSE
        OBVIOUS
      <3>1. pc[t] \in {"idle", "replay"} /\ pc'[t] = "routing"
        BY DEF Attempts, Replays
      <3> QED
        BY <3>1 DEF Begins, Others
    <2> QED
      BY <2>1, <2>2
  <1>2. /\ dlv[m] = 0 /\ drp[m] = 0 /\ m \notin wire
        /\ \A q \in RowIds : LegRow(q) => info[q].msg # m
    <2>1. CASE Attempts(m)
      BY <2>1, InboxAlone DEF Attempts, LegRow
    <2>2. CASE Replays(t) /\ job[t].msg = m
      BY <2>2, ReplayFresh, Calmly DEF FreshOf
    <2> QED
      BY <2>1, <2>2
  <1>3. ASSUME NEW o \in tracked', o \in tracked, entry[o].msg = m PROVE FALSE
    <2>1. CASE Attempts(m)
      BY <1>3, <2>1, InboxAlone DEF Attempts
    <2>2. CASE Replays(t) /\ job[t].msg = m
      <3>1. job[t].row \in RowIds /\ info[job[t].row].msg = m /\ Fresh(job[t].row)
        BY <2>2, ReplayFresh
      <3>2. o = info[job[t].row].origin
        BY <1>3, <3>1, Calmly DEF FreshOf
      <3> QED
        BY <1>3, <2>2, <3>2 DEF Replays
    <2> QED
      BY <2>1, <2>2
  <1>4. \A q \in RowIds : LegRow(q)' => info'[q].msg # m
    BY <1>1, <1>2 DEF LegRow, Born
  <1> QED
    BY <1>1, <1>2, <1>3, <1>4, PendFates DEF EntryAdded

\* A message whose rows are being queued.
LEMMA HandQueued ==
    ASSUME NEW m \in Msgs, Calm(m), NEW t \in Threads, Deals(t, m)', pc'[t] \in Queueing
    PROVE  /\ job'[t].stored = 0 => m \notin wire' /\ dlv'[m] = 0
           /\ job'[t].stored = 0 \/ job'[t].todo > 0 => drp'[m] = 0
           /\ \A q \in RowIds : LegRow(q)' /\ info'[q].msg = m => info'[q].origin = job'[t].origin
           /\ \A o \in tracked' : entry'[o].msg = m => o = job'[t].origin
  <1>1. /\ TypeOK /\ JobInv /\ HandOf(m) /\ Works /\ QueueingInv
        /\ job[t].sent \in Nat /\ job[t].stored \in Nat /\ job[t].todo \in Nat
    BY Calmly, JobTypes
  <1>2. Deals(t, m) /\ ((pc'[t] = pc[t] /\ job'[t] = job[t]) \/ Begins(t) \/ Enqueues(t))
    <2>1. ~Sends(t) /\ ~Retries(t) /\ ~Replays(t) /\ ~(Attempts(m) /\ t = Bridge)
      <3>1. pc'[t] # "sending" /\ pc'[t] # "routing"
        BY DEF Queueing
      <3> QED
        BY <3>1 DEF Sends, Retries, Replays, Attempts
    <2> QED
      BY <2>1, DealsFates
  <1>3. /\ \A u \in Threads : Deals(u, m) => u = t
        /\ ~Arrives(m) /\ ~Attempts(m)
        /\ \A u \in Threads : ~(Replays(u) /\ job[u].msg = m)
        /\ \A x \in RowIds : ~Orphaned(x, m)
    BY <1>2, DealtAlone
  <1>4. job[t].msg = m
    BY <1>2 DEF Deals
  <1>5. CASE Begins(t)
    <2>1. /\ pc[t] \in {"routing", "sending"} /\ job[t].sent = 0
          /\ UNCHANGED <<rows, info, wire>> /\ job'[t].origin = minted + 1
      BY <1>5 DEF Begins
    <2>2. dlv' = dlv /\ drp' = drp
      BY <1>5 DEF Begins, Track, counters
    <2>3. /\ dlv[m] = 0 /\ drp[m] = 0 /\ m \notin wire
          /\ \A q \in RowIds : LegRow(q) => info[q].msg # m
          /\ \A o \in tracked : entry[o].msg # m
      BY <1>1, <1>2, <2>1 DEF HandOf
    <2>4. \A q \in RowIds : LegRow(q)' => info'[q].msg # m
      BY <2>1, <2>3 DEF LegRow, Born
    <2>5. ASSUME NEW o \in tracked', entry'[o].msg = m PROVE o = job'[t].origin
      BY <2>1, <2>3, <2>5, PendFates DEF EntryAdded
    <2> QED
      BY <2>1, <2>2, <2>3, <2>4, <2>5
  <1>6. CASE (pc'[t] = pc[t] /\ job'[t] = job[t]) \/ Enqueues(t)
    <2>1. pc[t] \in Queueing /\ pc'[t] = pc[t] /\ job'[t].origin = job[t].origin
      BY <1>6 DEF Enqueues
    <2>2. PICK o : o = job[t].origin
      OBVIOUS
    <2>3. /\ job[t].stored = 0 => m \notin wire /\ dlv[m] = 0
          /\ job[t].stored = 0 \/ job[t].todo > 0 => drp[m] = 0
          /\ \A q \in RowIds : LegRow(q) /\ info[q].msg = m => info[q].origin = o
          /\ \A p \in tracked : entry[p].msg = m => p = o
      BY <1>1, <1>2, <2>1, <2>2 DEF HandOf
    <2>4. \A u \in Threads : job[u].msg = m => ~Closes(u) /\ ~Begins(u) /\ ~Sends(u)
      <3> SUFFICES ASSUME NEW u \in Threads, job[u].msg = m, Closes(u) \/ Begins(u) \/ Sends(u) PROVE FALSE
        OBVIOUS
      <3>1. u = t /\ pc[u] \in {"routing", "sending"}
        BY <1>3, ClosesDeals
      <3> QED
        BY <2>1, <3>1 DEF Queueing
    <2>5. ASSUME NEW q \in RowIds, LegRow(q)', info'[q].msg = m PROVE info'[q].origin = o
      <3>1. ASSUME NEW u \in Threads, LegAdded(q, u, m) PROVE info'[q].origin = o
        <4>1. u = t
          BY <1>3, <3>1, LegDealt
        <4> QED
          BY <2>1, <2>2, <3>1, <4>1, LegDealt DEF Queueing
      <3> QED
        BY <2>3, <2>5, <3>1, LegFates
    <2>6. ASSUME NEW p \in tracked', entry'[p].msg = m PROVE p = o
      BY <2>3, <2>4, <2>6, PendFates DEF EntryAdded
    <2>7. ASSUME job[t].stored = 0, NEW x \in RowIds, LegRow(x), info[x].msg = m PROVE FALSE
      <3>1. RowsOf(o) = {}
        BY <1>4, <2>1, <2>2, <2>7, NoneStored
      <3> QED
        BY <2>3, <2>7, <3>1 DEF LegRow, RowsOf
    <2>8. CASE Enqueues(t)
      <3>1. /\ UNCHANGED <<dlv, drp, wire>> /\ job[t].todo > 0
            /\ job'[t].stored = job[t].stored \/ job'[t].stored = job[t].stored + 1
        BY <2>8 DEF Enqueues
      <3> QED
        BY <1>1, <2>1, <2>2, <2>3, <2>5, <2>6, <3>1
    <2>9. CASE pc'[t] = pc[t] /\ job'[t] = job[t]
      <3>1. ASSUME job[t].stored = 0 PROVE m \notin wire'
        <4> SUFFICES ASSUME NEW u \in Threads, Transmits(u, m) PROVE FALSE
          BY <2>3, <3>1, WireFates
        <4>1. Goes(u) /\ pc[u] = "leg" /\ job[u].msg = m
          BY <2>4 DEF Transmits
        <4> QED
          BY <2>7, <3>1, <4>1, LegHeld
      <3>2. ASSUME NEW x \in RowIds, NEW q, Told(x, q, m) PROVE info[x].origin = o /\ x \in RowsOf(o) /\ job[t].stored # 0
        <4>1. info[x].origin = o
          BY <2>3, <3>2 DEF Told
        <4>2. x \in RowsOf(o)
          BY <3>2, <4>1 DEF Told, Handed, Shifts, RowsOf
        <4> QED
          BY <1>4, <2>1, <2>2, <4>1, <4>2, NoneStored
      <3>3. ASSUME NEW u \in Threads, job[u].msg = m, Settles(u) PROVE ~(job[u].stored # 0 => job[u].origin \in tracked)
        <4> SUFFICES ASSUME job[u].stored # 0 => job[u].origin \in tracked PROVE FALSE
          OBVIOUS
        <4>1. pc[u] \in Queueing /\ pc'[u] \in {"idle", "sent"}
          BY <3>3 DEF Settles, Finished
        <4>2. u # t
          BY <2>1, <2>9, <4>1 DEF Queueing
        <4>3. job[u].stored # 0 /\ job[u].origin \in tracked /\ entry[job[u].origin].msg = m
          BY <1>3, <3>3, <4>1, <4>2, NoneStored
        <4>4. job[u].origin = o
          BY <2>3, <4>3
        <4> QED
          BY <1>1, <2>1, <2>2, <4>1, <4>2, <4>4 DEF QueueingInv
      <3>4. \/ Still(m)
            \/ \E x \in RowIds : \E q : Told(x, q, m)
        BY <1>3, <2>4, <3>3, CountFates DEF CountFate
      <3>5. ASSUME job[t].stored = 0 PROVE dlv'[m] = 0
        BY <2>3, <3>2, <3>4, <3>5 DEF Still
      <3>6. ASSUME job[t].stored = 0 \/ job[t].todo > 0 PROVE drp'[m] = 0
        <4>1. drp[m] = 0
          BY <2>3, <3>6
        <4>2. ASSUME NEW x \in RowIds, NEW q, Told(x, q, m) PROVE drp' = drp
          <5>1. info[x].origin = o /\ job[t].stored # 0 /\ job[t].todo > 0 /\ o \in tracked /\ Reported(o, q)
            BY <3>2, <3>6, <4>2 DEF Told
          <5>2. entry[o].dropped \in Nat /\ entry[o].legs \in Nat
            BY <1>1, <5>1, TrackedOrigins DEF TypeOK, Entries
          <5>3. ~(q = "dropped" /\ entry[o].dropped + 1 >= entry[o].legs)
            BY <1>1, <2>1, <2>2, <4>2, <5>1, LastOne
          <5> QED
            BY <5>1, <5>2, <5>3 DEF Reported
        <4> QED
          BY <3>4, <4>1, <4>2 DEF Still
      <3> QED
        BY <2>1, <2>2, <2>5, <2>6, <2>9, <3>1, <3>5, <3>6
    <2> QED
      BY <1>6, <2>8, <2>9
  <1> QED
    BY <1>2, <1>5, <1>6

\* HandOf is preserved.
LEMMA HandStep ==
    ASSUME NEW m \in Msgs, Calm(m)
    PROVE  HandOf(m)'
  <1>1. ASSUME NEW t \in Threads, NEW u \in Threads, Deals(t, m)', Deals(u, m)' PROVE t = u
    BY <1>1, DealsUnique
  <1>2. ASSUME NEW t \in Threads, Deals(t, m)', pc'[t] \in {"routing", "sending"}
        PROVE  /\ dlv'[m] = 0 /\ drp'[m] = 0
               /\ job'[t].sent = 0 => m \notin wire' /\ \A q \in RowIds : LegRow(q)' => info'[q].msg # m
               /\ \A q \in RowIds : LegRow(q)' /\ info'[q].msg = m => info'[q].origin = NoOrigin
               /\ \A o \in tracked' : entry'[o].msg # m
    <2>1. CASE Deals(t, m)
      BY <1>2, <2>1, HandKept
    <2>2. CASE (Attempts(m) /\ t = Bridge) \/ (Replays(t) /\ job[t].msg = m)
      BY <1>2, <2>2, HandTaken
    <2> QED
      BY <1>2, <2>1, <2>2, DealsFates
  <1>3. ASSUME NEW t \in Threads, Deals(t, m)', pc'[t] \in Queueing
        PROVE  /\ job'[t].stored = 0 => m \notin wire' /\ dlv'[m] = 0
               /\ job'[t].stored = 0 \/ job'[t].todo > 0 => drp'[m] = 0
               /\ \A q \in RowIds : LegRow(q)' /\ info'[q].msg = m => info'[q].origin = job'[t].origin
               /\ \A o \in tracked' : entry'[o].msg = m => o = job'[t].origin
    BY <1>3, HandQueued
  <1> QED
    BY <1>1, <1>2, <1>3 DEF HandOf, Queueing

\* A row's end changes its entry, and no other row ends with it.
LEMMA ToldShape ==
    ASSUME NEW m \in Msgs, Calm(m), NEW r \in RowIds, NEW q, Told(r, q, m), NEW o, o = info[r].origin, o \in tracked'
    PROVE  /\ entry'[o].msg = m /\ entry'[o].terminals = entry[o].terminals + 1
           /\ drp' = drp /\ UNCHANGED wire
           /\ entry'[o].resolved <=> (entry[o].resolved \/ q = "delivered")
           /\ q # "delivered" => dlv' = dlv
           /\ Cardinality(EndedOf(o)') = Cardinality(EndedOf(o)) + 1
  <1>1. /\ o \in tracked /\ entry[o].msg = m /\ Reported(o, q) /\ q \in {"delivered", "dropped"}
        /\ \E to : Handed(r, to, q)
    BY DEF Told
  <1>2. /\ TypeOK /\ EntryOK(o) /\ entry[o].dropped \in Nat /\ entry[o].legs \in Nat /\ entry[o].terminals \in Nat
        /\ entry[o].resolved \in BOOLEAN
    BY <1>1, Calmly, TrackedOrigins DEF EntryInv, TypeOK, Entries
  <1>3. ~(entry[o].terminals + 1 >= entry[o].legs)
    BY <1>1 DEF Reported
  <1>4. ~(entry[o].dropped + 1 >= entry[o].legs)
    BY <1>2, <1>3 DEF EntryOK
  <1>5. PICK to : Handed(r, to, q)
    BY <1>1
  <1>6. UNCHANGED wire /\ Cardinality(EndedOf(o)') = Cardinality(EndedOf(o)) + 1
    <2>1. /\ UNCHANGED wire /\ EndedOf(info[r].origin)' = EndedOf(o)'
          /\ Cardinality(EndedOf(info[r].origin)') = Cardinality(EndedOf(info[r].origin)) + 1
      <3>1. /\ UNCHANGED <<info, wire>>
            /\ Cardinality(EndedOf(info[r].origin)') = Cardinality(EndedOf(info[r].origin)) + 1
        BY <1>1, <1>2, <1>5, HandedEnds
      <3> QED
        BY <3>1 DEF EndedOf
    <2> QED
      BY <2>1
  <1> QED
    BY <1>1, <1>2, <1>3, <1>4, <1>6 DEF Reported

\* The new entry of a message that nothing was sent of.
LEMMA PendNew ==
    ASSUME NEW m \in Msgs, Calm(m), NEW o, NEW t \in Threads, EntryAdded(o, t, m)
    PROVE  /\ entry'[o].terminals = Cardinality(EndedOf(o)') /\ drp'[m] = 0 /\ dlv'[m] = 0 /\ m \notin wire'
           /\ \A p \in tracked : entry[p].msg # m
           /\ o = minted + 1
  <1>1. /\ Begins(t) /\ job[t].msg = m /\ entry'[o].terminals = 0 /\ RowsOf(o)' = {} /\ o = minted + 1
        /\ job[t].sent = 0 /\ UNCHANGED wire
    BY DEF EntryAdded, Begins
  <1>2. UNCHANGED <<dlv, drp>>
    BY <1>1 DEF Begins, Track, counters
  <1>3. HandOf(m) /\ Deals(t, m) /\ pc[t] \in {"routing", "sending"}
    BY <1>1, ClosesDeals, Calmly
  <1>4. EndedOf(o)' = {}
    BY <1>1 DEF EndedOf, RowsOf
  <1> QED
    BY <1>1, <1>2, <1>3, <1>4, FS_EmptySet DEF HandOf

\* What holds of an entry of the message after a step that leaves it as it is.
LEMMA PendQuiet ==
    ASSUME NEW m \in Msgs, Calm(m), NEW o \in tracked, o \in tracked', entry[o].msg = m, entry'[o] = entry[o]
    PROVE  /\ entry'[o].terminals = Cardinality(EndedOf(o)') /\ drp'[m] = 0
           /\ ~entry'[o].resolved => dlv'[m] = 0
           /\ ~entry'[o].resolved /\ m \in wire' =>
                 \E t \in Threads : pc'[t] = "sent" /\ LegRow(job[t].row)' /\ info'[job'[t].row].origin = o
  <1>1. /\ TypeOK /\ JobInv /\ RowInv /\ HandOf(m) /\ FreshOf(m) /\ LegOf(m) /\ PendOf(m) /\ QueueingInv /\ EntryInv
        /\ NoOrigin \notin tracked /\ entry[o].terminals \in Nat
    BY Calmly, TrackedOrigins DEF TypeOK, Entries
  <1>2. /\ entry[o].terminals = Cardinality(EndedOf(o)) /\ drp[m] = 0
        /\ ~entry[o].resolved => dlv[m] = 0
        /\ ~entry[o].resolved /\ m \in wire =>
              \E t \in Threads : pc[t] = "sent" /\ LegRow(job[t].row) /\ info[job[t].row].origin = o
    BY <1>1 DEF PendOf
  <1>3. \A p \in tracked : entry[p].msg = m => p = o
    BY <1>1 DEF PendOf
  <1>4. ASSUME NEW x \in RowIds, NEW q, Told(x, q, m) PROVE FALSE
    <2>1. info[x].origin = o
      BY <1>3, <1>4 DEF Told
    <2>2. entry'[o].terminals = entry[o].terminals + 1
      BY <1>4, <2>1, ToldShape
    <2> QED
      BY <1>1, <2>2
  <1>5. EndedOf(o)' = EndedOf(o)
    BY <1>4, EndedFates
  <1>6. ASSUME NEW t \in Threads, job[t].msg = m, Closes(t) \/ Sends(t) PROVE FALSE
    BY <1>1, <1>6, ClosesDeals DEF HandOf
  <1>7. ASSUME NEW t \in Threads, job[t].msg = m, Settles(t), job[t].stored # 0 => job[t].origin \in tracked
        PROVE  drp' = drp /\ dlv' = dlv
    <2>1. pc[t] \in Queueing /\ dlv' = dlv
      BY <1>7 DEF Settles
    <2>2. CASE job[t].stored = 0
      <3>1. Deals(t, m)
        BY <1>7, <2>1, <2>2, NoneStored
      <3>2. o = job[t].origin
        BY <1>1, <2>1, <3>1 DEF HandOf
      <3> QED
        BY <1>7, <2>2, <3>2 DEF Settles
    <2>3. CASE job[t].stored # 0
      <3>1. o = job[t].origin /\ job[t].stored \in Nat
        BY <1>3, <1>7, <2>1, <2>3, NoneStored
      <3>2. EntryOK(o) /\ entry[o].dropped \in Nat
        BY <1>1, TrackedOrigins DEF EntryInv, TypeOK, Entries
      <3>3. ~(entry[o].terminals >= job[t].stored)
        BY <1>7, <2>3, <3>1 DEF Settles
      <3>4. ~(entry[o].dropped >= job[t].stored)
        BY <1>1, <3>1, <3>2, <3>3 DEF EntryOK
      <3> QED
        BY <1>7, <2>1, <2>3, <3>1, <3>4 DEF Settles
    <2> QED
      BY <2>2, <2>3
  <1>8. ASSUME NEW x \in RowIds, Orphaned(x, m) PROVE FALSE
    <2>1. Fresh(x) /\ info[x].msg = m /\ info[x].origin = NoOrigin
      BY <1>8, HandedFresh DEF Orphaned
    <2> QED
      BY <1>1, <2>1 DEF FreshOf
  <1>9. ~Arrives(m)
    BY <1>1, InboxAlone DEF Arrives
  <1>10. drp'[m] = drp[m] /\ dlv'[m] = dlv[m]
    <2>1. CASE Still(m)
      BY <2>1 DEF Still
    <2>2. CASE Attempts(m)
      BY <2>2 DEF Attempts
    <2>3. ASSUME NEW t \in Threads, Replays(t) PROVE drp' = drp /\ dlv' = dlv
      BY <2>3 DEF Replays
    <2> QED
      BY <1>4, <1>6, <1>7, <1>8, <1>9, <2>1, <2>2, <2>3, CountFates DEF CountFate
  <1>11. ASSUME ~entry'[o].resolved, m \in wire'
         PROVE  \E t \in Threads : pc'[t] = "sent" /\ LegRow(job[t].row)' /\ info'[job'[t].row].origin = o
    <2>1. CASE m \in wire
      <3>1. PICK u \in Threads : pc[u] = "sent" /\ LegRow(job[u].row) /\ info[job[u].row].origin = o
        BY <1>2, <1>11, <2>1
      <3>2. PICK r : r = job[u].row
        OBVIOUS
      <3>3. r \in RowIds /\ info[r].msg = job[u].msg /\ Born(r) /\ info[r].leg
        <4>1. JobOK(u)
          BY <1>1 DEF JobInv
        <4> QED
          BY <3>1, <3>2, <4>1 DEF JobOK, AtRow, RowIds, NoRow, LegRow
      <3>4. job[u].msg = m
        BY <1>1, <3>1, <3>2, <3>3 DEF RowInv
      <3>5. ASSUME NEW to, Handed(r, to, "delivered") PROVE FALSE
        <4>1. Cardinality(EndedOf(info[r].origin)') = Cardinality(EndedOf(info[r].origin)) + 1 /\ UNCHANGED info
          BY <1>1, <3>3, <3>5, HandedEnds
        <4>2. EndedOf(info[r].origin)' = EndedOf(o)'
          BY <3>1, <3>2, <4>1 DEF EndedOf
        <4> QED
          BY <1>1, <1>2, <1>5, <3>1, <3>2, <4>1, <4>2
      <3>6. /\ pc'[u] = "sent" /\ job'[u].row = r
            /\ LegRow(job[u].row)' /\ info'[r] = info[r]
        BY <3>1, <3>2, <3>4, <3>5, SentKept
      <3> QED
        BY <3>1, <3>2, <3>6
    <2>2. CASE m \notin wire
      <3>1. PICK u \in Threads : Goes(u) /\ pc[u] = "leg" /\ pc'[u] = "sent" /\ job[u].msg = m
        BY <1>6, <1>11, <2>2, WireFates DEF Transmits
      <3>2. PICK r : r = job[u].row
        OBVIOUS
      <3>3. r \in RowIds /\ LegRow(r) /\ info[r].msg = m
        BY <3>1, <3>2, LegHeld
      <3>4. o = info[r].origin
        BY <1>1, <3>3 DEF LegOf
      <3>5. UNCHANGED <<rows, info, job>>
        BY <3>1 DEF Goes
      <3>6. job'[u].row = r /\ info'[r].origin = o /\ LegRow(r)'
        BY <3>2, <3>3, <3>4, <3>5 DEF LegRow, Born
      <3> QED
        BY <3>1, <3>6
    <2> QED
      BY <2>1, <2>2
  <1> QED
    BY <1>2, <1>5, <1>10, <1>11

\* An entry that stays keeps what PendOf says of it.
LEMMA PendOld ==
    ASSUME NEW m \in Msgs, Calm(m), NEW o \in tracked, o \in tracked', entry[o].msg = m
    PROVE  /\ entry'[o].terminals = Cardinality(EndedOf(o)') /\ drp'[m] = 0
           /\ ~entry'[o].resolved => dlv'[m] = 0
           /\ ~entry'[o].resolved /\ m \in wire' =>
                 \E t \in Threads : pc'[t] = "sent" /\ LegRow(job[t].row)' /\ info'[job'[t].row].origin = o
  <1>1. TypeOK /\ JobInv /\ RowInv /\ PendOf(m) /\ entry[o].terminals \in Nat /\ EntryOK(o) /\ entry[o].dropped \in Nat
    BY Calmly, TrackedOrigins DEF TypeOK, Entries, EntryInv
  <1>2. /\ entry[o].terminals = Cardinality(EndedOf(o)) /\ drp[m] = 0
        /\ ~entry[o].resolved => dlv[m] = 0
        /\ ~entry[o].resolved /\ m \in wire =>
              \E t \in Threads : pc[t] = "sent" /\ LegRow(job[t].row) /\ info[job[t].row].origin = o
    BY <1>1 DEF PendOf
  <1>3. CASE entry'[o] = entry[o]
    BY <1>3, PendQuiet
  <1>4. ASSUME NEW t \in Threads, Settles(t), job[t].origin = o
        PROVE  /\ entry'[o].terminals = Cardinality(EndedOf(o)') /\ drp'[m] = 0
               /\ ~entry'[o].resolved => dlv'[m] = 0
               /\ ~entry'[o].resolved /\ m \in wire' =>
                     \E u \in Threads : pc'[u] = "sent" /\ LegRow(job[u].row)' /\ info'[job'[u].row].origin = o
    <2>1. job[t].stored # 0 /\ job[t].stored \in Nat /\ pc[t] \in Queueing /\ Others(t)
          /\ UNCHANGED <<rows, info, wire, dlv>>
      BY <1>1, <1>4, JobTypes DEF Settles, Finished
    <2>2. ~(entry[o].terminals >= job[t].stored)
      BY <1>4, <2>1 DEF Settles
    <2>3. ~(entry[o].dropped >= job[t].stored)
      BY <1>1, <2>1, <2>2 DEF EntryOK
    <2>4. drp' = drp /\ entry'[o].terminals = entry[o].terminals /\ (entry'[o].resolved <=> entry[o].resolved)
      BY <1>4, <2>1, <2>2, <2>3 DEF Settles
    <2>5. EndedOf(o)' = EndedOf(o)
      BY <2>1, RowsKept
    <2>6. ASSUME ~entry[o].resolved, m \in wire
          PROVE  \E u \in Threads : pc'[u] = "sent" /\ LegRow(job[u].row)' /\ info'[job'[u].row].origin = o
      <3>1. PICK u \in Threads : pc[u] = "sent" /\ LegRow(job[u].row) /\ info[job[u].row].origin = o
        BY <1>2, <2>6
      <3>2. PICK r : r = job[u].row
        OBVIOUS
      <3>3. pc'[u] = "sent" /\ job'[u].row = r
        BY <2>1, <3>1, <3>2 DEF Others, Queueing
      <3>4. LegRow(r)' /\ info'[r].origin = o
        BY <2>1, <3>1, <3>2 DEF LegRow, Born
      <3> QED
        BY <3>3, <3>4
    <2> QED
      BY <1>2, <2>1, <2>4, <2>5, <2>6
  <1>5. ASSUME NEW r \in RowIds, NEW q, Told(r, q, m), info[r].origin = o
        PROVE  /\ entry'[o].terminals = Cardinality(EndedOf(o)') /\ drp'[m] = 0
               /\ ~entry'[o].resolved => dlv'[m] = 0
               /\ ~entry'[o].resolved /\ m \in wire' =>
                     \E u \in Threads : pc'[u] = "sent" /\ LegRow(job[u].row)' /\ info'[job'[u].row].origin = o
    <2>1. /\ entry'[o].terminals = entry[o].terminals + 1
          /\ drp' = drp /\ UNCHANGED wire
          /\ entry'[o].resolved <=> (entry[o].resolved \/ q = "delivered")
          /\ q # "delivered" => dlv' = dlv
          /\ Cardinality(EndedOf(o)') = Cardinality(EndedOf(o)) + 1
      BY <1>5, ToldShape
    <2>2. ASSUME ~entry'[o].resolved, m \in wire'
          PROVE  \E u \in Threads : pc'[u] = "sent" /\ LegRow(job[u].row)' /\ info'[job'[u].row].origin = o
      <3>1. PICK u \in Threads : pc[u] = "sent" /\ LegRow(job[u].row) /\ info[job[u].row].origin = o
        BY <1>2, <2>1, <2>2
      <3>2. PICK x : x = job[u].row
        OBVIOUS
      <3>3. x \in RowIds /\ info[x].msg = job[u].msg /\ Born(x)
        <4>1. JobOK(u)
          BY <1>1 DEF JobInv
        <4> QED
          BY <3>1, <3>2, <4>1 DEF JobOK, AtRow, RowIds, NoRow, LegRow
      <3>4. job[u].msg = m
        BY <1>1, <3>1, <3>2, <3>3 DEF RowInv
      <3>5. PICK to : Handed(r, to, q)
        BY <1>5 DEF Told
      <3>6. q = "dropped"
        BY <1>5, <2>1, <2>2 DEF Told
      <3>7. ASSUME NEW end, Handed(x, end, "delivered") PROVE FALSE
        <4>1. ~Live(x)' /\ rows'[x] = end /\ Live(x) /\ end = "done"
          <5>1. ~Live(x)' /\ rows'[x] = end
            BY <1>1, <3>3, <3>7, HandedEnds
          <5> QED
            BY <3>7, <5>1, StepShape DEF Handed, Shifts
        <4>2. rows'[r] = to /\ to \in {"dead", "gone"} /\ \A y \in RowIds : y # r => rows'[y] = rows[y]
          <5>1. rows'[r] = to /\ \A y \in RowIds : y # r => rows'[y] = rows[y]
            BY <1>1, <3>5, HandedEnds
          <5>2. to \in {"dead", "gone"}
            BY <3>5, <3>6, StepShape DEF Handed, Shifts
          <5> QED
            BY <5>1, <5>2
        <4> QED
          BY <3>3, <4>1, <4>2 DEF Live
      <3>8. /\ pc'[u] = "sent" /\ job'[u].row = x
            /\ LegRow(job[u].row)' /\ info'[x] = info[x]
        BY <3>1, <3>2, <3>4, <3>7, SentKept
      <3> QED
        BY <3>1, <3>2, <3>8
    <2> QED
      BY <1>2, <2>1, <2>2
  <1> QED
    BY <1>3, <1>4, <1>5, EntryMoves

\* PendOf is preserved.
LEMMA PendStep ==
    ASSUME NEW m \in Msgs, Calm(m)
    PROVE  PendOf(m)'
  <1>1. PendOf(m)
    BY Calmly
  <1>2. ASSUME NEW o \in tracked', NEW p \in tracked', entry'[o].msg = m, entry'[p].msg = m PROVE o = p
    <2>1. CASE \E t \in Threads : EntryAdded(o, t, m)
      BY <1>2, <2>1, PendNew, PendFates
    <2>2. CASE \E t \in Threads : EntryAdded(p, t, m)
      BY <1>2, <2>2, PendNew, PendFates
    <2>3. CASE o \in tracked /\ entry[o].msg = m /\ p \in tracked /\ entry[p].msg = m
      BY <1>1, <2>3 DEF PendOf
    <2> QED
      BY <1>2, <2>1, <2>2, <2>3, PendFates
  <1>3. ASSUME NEW o \in tracked', entry'[o].msg = m
        PROVE  /\ entry'[o].terminals = Cardinality(EndedOf(o)') /\ drp'[m] = 0
               /\ ~entry'[o].resolved => dlv'[m] = 0
               /\ ~entry'[o].resolved /\ m \in wire' =>
                     \E t \in Threads : pc'[t] = "sent" /\ LegRow(job[t].row)' /\ info'[job'[t].row].origin = o
    <2>1. CASE o \in tracked /\ entry[o].msg = m
      BY <1>3, <2>1, PendOld
    <2>2. CASE \E t \in Threads : EntryAdded(o, t, m)
      <3>1. entry'[o].terminals = Cardinality(EndedOf(o)') /\ drp'[m] = 0 /\ dlv'[m] = 0 /\ m \notin wire'
        BY <2>2, PendNew
      <3> QED
        BY <3>1
    <2> QED
      BY <1>3, <2>1, <2>2, PendFates
  <1> QED
    BY <1>2, <1>3 DEF PendOf

\* An unresolved entry of a message that went out has a live row, which its
\* sender is about to mark delivered.
LEMMA SentWitness ==
    ASSUME NEW m \in Msgs, Calm(m), NEW o \in tracked, entry[o].msg = m, ~entry[o].resolved, m \in wire
    PROVE  \E u \in Threads : /\ pc[u] = "sent" /\ job[u].msg = m /\ LegRow(job[u].row)
                              /\ job[u].row \in RowsOf(o) /\ Live(job[u].row)
  <1>1. JobInv /\ RowInv /\ PendOf(m)
    BY Calmly
  <1>2. PICK u \in Threads : pc[u] = "sent" /\ LegRow(job[u].row) /\ info[job[u].row].origin = o
    BY <1>1 DEF PendOf
  <1>3. JobOK(u) /\ Born(job[u].row) /\ info[job[u].row].leg
    BY <1>1, <1>2 DEF JobInv, LegRow
  <1>4. job[u].row \in RowIds /\ info[job[u].row].msg = job[u].msg
    BY <1>2, <1>3 DEF JobOK, AtRow, RowIds, NoRow
  <1>5. job[u].msg = m
    BY <1>1, <1>2, <1>3, <1>4 DEF RowInv
  <1> QED
    BY <1>2, <1>3, <1>4, <1>5, LegHeld DEF RowsOf

\* HonestOf is preserved.
LEMMA HonestStep ==
    ASSUME NEW m \in Msgs, Calm(m)
    PROVE  HonestOf(m)'
  <1>1. /\ TypeOK /\ JobInv /\ RowInv /\ HoldOf(m) /\ HandOf(m) /\ FreshOf(m) /\ LegOf(m) /\ HonestOf(m) /\ SentInv
        /\ wire \subseteq wire' /\ dlv[m] \in Nat /\ drp[m] \in Nat
    BY Calmly, Steady, Countable
  <1>2. ASSUME dlv'[m] > 0 PROVE m \in wire'
    <2>1. ASSUME dlv'[m] = dlv[m] PROVE m \in wire'
      BY <1>1, <1>2, <2>1 DEF HonestOf
    <2>2. ASSUME Still(m) PROVE m \in wire'
      BY <2>1, <2>2 DEF Still
    <2>3. ASSUME Arrives(m) PROVE dlv' = dlv
      BY <2>3 DEF Arrives
    <2>4. ASSUME Attempts(m) PROVE dlv' = dlv
      BY <2>4 DEF Attempts
    <2>5. ASSUME NEW t \in Threads, job[t].msg = m, Closes(t) PROVE m \in wire'
      <3>1. job[t].sent > 0 => m \in wire
        BY <1>1, <2>5 DEF JobInv, JobOK
      <3> QED
        BY <1>1, <2>1, <2>5, <3>1 DEF Closes
    <2>6. ASSUME NEW t \in Threads, Settles(t) PROVE dlv' = dlv
      BY <2>6 DEF Settles
    <2>7. ASSUME NEW t \in Threads, Replays(t) PROVE dlv' = dlv
      BY <2>7 DEF Replays
    <2>8. ASSUME NEW r \in RowIds, Orphaned(r, m) PROVE dlv' = dlv
      BY <2>8 DEF Orphaned
    <2>9. ASSUME NEW r \in RowIds, NEW q, Told(r, q, m) PROVE m \in wire'
      <3>1. CASE q # "delivered"
        <4>1. dlv' = dlv
          BY <2>9, <3>1 DEF Told, Reported
        <4> QED
          BY <2>1, <4>1
      <3>2. CASE q = "delivered"
        <4>1. info[r].leg /\ info[r].msg = m /\ \E to : Handed(r, to, q)
          BY <2>9, <3>2 DEF Told
        <4>2. PICK t \in Threads : pc[t] = "sent" /\ job[t].row = r
          BY <3>2, <4>1 DEF Handed
        <4>3. job[t].msg = m
          BY <1>1, <4>1, <4>2 DEF JobInv, JobOK, RowIds, NoRow
        <4> QED
          BY <1>1, <4>1, <4>2, <4>3 DEF SentInv
      <3> QED
        BY <3>1, <3>2
    <2> QED
      BY <2>1, <2>2, <2>3, <2>4, <2>5, <2>6, <2>7, <2>8, <2>9, CountFates DEF CountFate
  <1>3. ASSUME drp'[m] > 0, m \in wire' PROVE FALSE
    <2>1. CASE m \notin wire
      <3>1. PICK t \in Threads : Transmits(t, m)
        BY <1>3, <2>1, WireFates
      <3>2. drp' = drp
        BY <3>1 DEF Transmits, Sends, Goes
      <3>3. drp[m] = 0
        <4>1. CASE Sends(t)
          BY <1>1, <3>1, <4>1, ClosesDeals DEF Transmits, HandOf
        <4>2. CASE Goes(t) /\ pc[t] = "leg"
          BY <1>1, <3>1, <4>2, LegHeld DEF Transmits, LegOf
        <4> QED
          BY <3>1, <4>1, <4>2 DEF Transmits
      <3> QED
        BY <1>3, <3>2, <3>3
    <2>2. CASE m \in wire
      <3>1. drp[m] = 0
        BY <1>1, <2>2 DEF HonestOf
      <3>2. drp' # drp /\ ~Still(m)
        BY <1>3, <3>1 DEF Still
      <3>3. ~Arrives(m) /\ ~Attempts(m)
        BY <2>2, InboxAlone DEF Arrives, Attempts
      <3>4. ASSUME NEW t \in Threads, job[t].msg = m, Closes(t) PROVE FALSE
        <4>1. Deals(t, m) /\ pc[t] \in {"routing", "sending"}
          BY <3>4, ClosesDeals
        <4>2. job[t].sent # 0
          BY <1>1, <2>2, <4>1 DEF HandOf
        <4> QED
          BY <3>2, <3>4, <4>2 DEF Closes
      <3>5. ASSUME NEW t \in Threads, job[t].msg = m, Settles(t), job[t].stored # 0 => job[t].origin \in tracked
            PROVE  FALSE
        <4>1. PICK o : o = job[t].origin
          OBVIOUS
        <4>2. pc[t] \in Queueing
          BY <3>5 DEF Settles
        <4>3. job[t].stored # 0
          BY <1>1, <2>2, <3>5, <4>2, NoneStored DEF HandOf
        <4>4. o \in tracked /\ entry[o].msg = m /\ job[t].stored = Cardinality(RowsOf(o)) /\ entry[o].dropped \in Nat
          BY <1>1, <3>5, <4>1, <4>2, <4>3, NoneStored, TrackedOrigins DEF TypeOK, Entries
        <4>5. ~entry[o].resolved /\ entry[o].dropped >= job[t].stored
          BY <3>2, <3>5, <4>1, <4>3, <4>4 DEF Settles
        <4>6. PICK u \in Threads : job[u].row \in RowsOf(o) /\ Live(job[u].row)
          BY <2>2, <4>4, <4>5, SentWitness
        <4>7. entry[o].dropped < Cardinality(RowsOf(o))
          BY <4>4, <4>6, Undecided
        <4> QED
          BY <4>4, <4>5, <4>7, Finite
      <3>6. ASSUME NEW t \in Threads, Replays(t) PROVE FALSE
        BY <3>2, <3>6 DEF Replays
      <3>7. ASSUME NEW x \in RowIds, Orphaned(x, m) PROVE FALSE
        <4>1. Fresh(x) /\ info[x].msg = m
          BY <3>7, HandedFresh DEF Orphaned
        <4> QED
          BY <1>1, <2>2, <4>1 DEF FreshOf
      <3>8. ASSUME NEW x \in RowIds, NEW q, Told(x, q, m) PROVE FALSE
        <4>1. PICK o : o = info[x].origin
          OBVIOUS
        <4>2. o \in tracked /\ entry[o].msg = m /\ Reported(o, q) /\ info[x].msg = m
          BY <3>8, <4>1 DEF Told
        <4>3. entry[o].dropped \in Nat /\ entry[o].legs \in Nat
          BY <1>1, <4>2, TrackedOrigins DEF TypeOK, Entries
        <4>4. q = "dropped" /\ ~entry[o].resolved /\ entry[o].dropped + 1 >= entry[o].legs
          BY <3>2, <4>2, <4>3 DEF Reported
        <4>5. PICK u \in Threads : /\ pc[u] = "sent" /\ job[u].msg = m
                                   /\ job[u].row \in RowsOf(o) /\ Live(job[u].row)
          BY <2>2, <4>2, <4>4, SentWitness
        <4>6. job[u].row = x
          BY <3>8, <4>1, <4>4, <4>5, LastOne
        <4>7. PICK to : Handed(x, to, q)
          BY <3>8 DEF Told
        <4>8. Held(x)
          BY <4>5, <4>6 DEF Held, Holds
        <4>9. PICK t \in Threads : Leaves(t) /\ job[t].row = x /\ (q = "delivered" <=> pc[t] = "sent")
          BY <4>7, <4>8 DEF Handed
        <4>10. t = u
          BY <1>1, <4>5, <4>6, <4>9 DEF HoldOf, Leaves, RowIds, NoRow
        <4> QED
          BY <4>4, <4>5, <4>9, <4>10
      <3> QED
        BY <3>2, <3>3, <3>4, <3>5, <3>6, <3>7, <3>8, CountFates DEF CountFate
    <2> QED
      BY <2>1, <2>2
  <1> QED
    BY <1>2, <1>3 DEF HonestOf

\* Clears holds initially, after a crash, when nothing happens, and after a step.
LEMMA ClearsInit == Init => Clears
  <1> SUFFICES ASSUME Init PROVE Clears
    OBVIOUS
  <1>1. /\ \A t \in Threads : pc[t] = "idle"
        /\ \A r \in RowIds : rows[r] = "none"
        /\ tracked = {} /\ wire = {}
        /\ \A m \in Msgs : att[m] = 0 /\ dlv[m] = 0 /\ drp[m] = 0
    BY DEF Init
  <1>2. SentInv
    BY <1>1 DEF SentInv
  <1>3. ASSUME NEW m \in Msgs PROVE ClearOf(m)
    <2>1. \A r \in RowIds : ~Fresh(r) /\ ~LegRow(r)
      BY <1>1 DEF Fresh, Live, LegRow, Born
    <2>2. \A t \in Threads : ~Deals(t, m)
      BY <1>1 DEF Deals
    <2>3. HoldOf(m)
      BY <1>1 DEF HoldOf
    <2>4. FreshOf(m) /\ LegOf(m)
      BY <2>1 DEF FreshOf, LegOf
    <2>5. HandOf(m)
      BY <2>2 DEF HandOf
    <2>6. PendOf(m)
      BY <1>1 DEF PendOf
    <2>7. OnceOf(m) /\ HonestOf(m)
      BY <1>1 DEF OnceOf, HonestOf
    <2> QED
      BY <2>3, <2>4, <2>5, <2>6, <2>7 DEF ClearOf
  <1> QED
    BY <1>2, <1>3 DEF Clears

\* After a crash only rows are left, and those that were taken are behind their
\* sender's back.
LEMMA ClearsCrash == Sums /\ Clears /\ Crash => Clears'
  <1> SUFFICES ASSUME Sums, Clears, Crash PROVE Clears'
    OBVIOUS
  <1>1. /\ \A t \in Threads : pc'[t] = "idle"
        /\ UNCHANGED <<rows, info>>
        /\ tracked' = {} /\ wire' = {}
        /\ \A m \in Msgs : att'[m] = 0 /\ dlv'[m] = 0 /\ drp'[m] = 0
        /\ blurred' = blurred \cup {info[r].msg : r \in {q \in RowIds : rows[q] = "taken"}}
    BY DEF Crash, table
  <1>2. JobInv
    BY DEF Sums
  <1>3. SentInv'
    BY <1>1 DEF SentInv
  <1>4. ASSUME NEW m \in Msgs \ blurred' PROVE ClearOf(m)'
    <2>1. ClearOf(m) /\ \A r \in RowIds : info[r].msg = m => rows[r] # "taken"
      BY <1>1, <1>4 DEF Clears
    <2>2. \A r \in RowIds : LegRow(r)' <=> LegRow(r)
      BY <1>1 DEF LegRow, Born
    <2>3. \A t \in Threads : ~Deals(t, m)'
      BY <1>1 DEF Deals
    <2>4. HoldOf(m)'
      BY <1>1 DEF HoldOf
    <2>5. FreshOf(m)'
      <3> SUFFICES ASSUME NEW r \in RowIds, Fresh(r)', info'[r].msg = m
                   PROVE  \A q \in RowIds : LegRow(q)' => info'[q].msg # m
        BY <1>1, <2>3 DEF FreshOf
      <3>1. Live(r) /\ ~info[r].leg /\ info[r].msg = m
        BY <1>1 DEF Fresh, Live
      <3>2. ASSUME NEW t \in Threads, Holds(t, r) PROVE FALSE
        <4>1. pc[t] # "idle" /\ job[t].row = r /\ r # NoRow
          BY <3>2 DEF Holds, RowIds, NoRow
        <4>2. job[t].msg = m
          BY <1>2, <3>1, <4>1 DEF JobInv, JobOK
        <4>3. rows[r] = "taken"
          BY <2>1, <4>1, <4>2 DEF ClearOf, HoldOf
        <4> QED
          BY <2>1, <3>1, <4>3
      <3>3. Fresh(r)
        BY <3>1, <3>2 DEF Fresh, Replayed
      <3> QED
        BY <1>1, <2>1, <2>2, <3>1, <3>3 DEF ClearOf, FreshOf
    <2>6. HandOf(m)'
      BY <2>3 DEF HandOf
    <2>7. LegOf(m)'
      BY <1>1, <2>1, <2>2 DEF ClearOf, LegOf
    <2>8. PendOf(m)'
      BY <1>1 DEF PendOf
    <2>9. OnceOf(m)' /\ HonestOf(m)'
      BY <1>1 DEF OnceOf, HonestOf
    <2> QED
      BY <2>4, <2>5, <2>6, <2>7, <2>8, <2>9 DEF ClearOf
  <1> QED
    BY <1>3, <1>4 DEF Clears

LEMMA ClearsStutter == Clears /\ UNCHANGED vars => Clears'
  <1> SUFFICES ASSUME Clears, UNCHANGED vars PROVE Clears'
    OBVIOUS
  <1>1. UNCHANGED <<rows, info, tracked, entry, att, dlv, drp, pc, job, wire, evicted, blurred>>
    BY DEF vars
  <1>2. SentInv'
    BY <1>1 DEF Clears, SentInv
  <1>3. ASSUME NEW m \in Msgs \ blurred' PROVE ClearOf(m)'
    <2>1. ClearOf(m)
      BY <1>1, <1>3 DEF Clears
    <2>2. /\ \A r : LegRow(r)' <=> LegRow(r)
          /\ \A r : Live(r)' <=> Live(r)
          /\ \A r : Fresh(r)' <=> Fresh(r)
          /\ \A t : Deals(t, m)' <=> Deals(t, m)
          /\ \A o : EndedOf(o)' = EndedOf(o)
      BY <1>1 DEF LegRow, Born, Live, Fresh, Replayed, Holds, Deals, EndedOf
    <2>3. HoldOf(m)'
      BY <1>1, <2>1 DEF ClearOf, HoldOf
    <2>4. FreshOf(m)'
      BY <1>1, <2>1, <2>2 DEF ClearOf, FreshOf
    <2>5. HandOf(m)'
      BY <1>1, <2>1, <2>2 DEF ClearOf, HandOf
    <2>6. LegOf(m)'
      BY <1>1, <2>1, <2>2 DEF ClearOf, LegOf
    <2>7. PendOf(m)'
      BY <1>1, <2>1, <2>2 DEF ClearOf, PendOf, LegRow, Born
    <2>8. OnceOf(m)' /\ HonestOf(m)'
      BY <1>1, <2>1 DEF ClearOf, OnceOf, HonestOf
    <2> QED
      BY <2>3, <2>4, <2>5, <2>6, <2>7, <2>8 DEF ClearOf
  <1> QED
    BY <1>2, <1>3 DEF Clears

LEMMA ClearsStep == Sums /\ Clears /\ [Next]_vars => Clears'
  <1> SUFFICES ASSUME Sums, Clears, [Next]_vars PROVE Clears'
    OBVIOUS
  <1>1. Sums' /\ TypeOK /\ JobInv /\ ReplayInv
    BY SumsStep DEF Sums
  <1>2. Works \/ Crash \/ UNCHANGED vars
    BY <1>1, Reduced
  <1>3. CASE Works
    <2>1. SentInv /\ SentInv'
      BY <1>1, <1>3, SentStep DEF Clears
    <2>2. ASSUME NEW m \in Msgs \ blurred' PROVE ClearOf(m)'
      <3>1. m \notin blurred
        BY <1>1, <1>3, <2>2, Steady
      <3>2. Calm(m)
        BY <1>1, <1>3, <2>1, <2>2, <3>1 DEF Calm, Clears
      <3>3. HoldOf(m)' /\ FreshOf(m)' /\ HandOf(m)' /\ LegOf(m)'
        BY <3>2, HoldStep, FreshStep, HandStep, LegStep
      <3>4. PendOf(m)' /\ OnceOf(m)' /\ HonestOf(m)'
        BY <3>2, PendStep, OnceStep, HonestStep
      <3> QED
        BY <3>3, <3>4 DEF ClearOf
    <2> QED
      BY <2>1, <2>2 DEF Clears
  <1> QED
    BY <1>2, <1>3, ClearsCrash, ClearsStutter

\* Sums and Clears are invariants.
LEMMA ClearsHold == Spec => [](Sums /\ Clears)
  <1>1. Init => Sums /\ Clears
    BY SumsInit, ClearsInit
  <1>2. Sums /\ Clears /\ [Next]_vars => (Sums /\ Clears)'
    BY SumsStep, ClearsStep
  <1> QED
    BY <1>1, <1>2, PTL DEF Spec

\* A message whose entry was not evicted, and none of whose rows was left in
\* progress or stepped on behind its sender, is attempted once at most: replays,
\* replays of replays, expiry and shedding do not count it again.
THEOREM CountedAtMostOnce == Spec => []AttemptedOnce
  <1>1. Sums /\ Clears => AttemptedOnce
    BY DEF Clears, ClearOf, OnceOf, AttemptedOnce
  <1> QED
    BY <1>1, ClearsHold, PTL

\* What is counted delivered went out, and nothing that went out is counted
\* dropped, as long as nobody stepped on a row behind its sender.
THEOREM OutcomeIsHonest == Spec => []HonestOutcome
  <1>1. Sums /\ Clears => HonestOutcome
    BY DEF Clears, ClearOf, HonestOf, HonestOutcome
  <1> QED
    BY <1>1, ClearsHold, PTL
============================================================================
