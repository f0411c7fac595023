--------------------------- MODULE AckTrackerProofs ---------------------------
(* The verdicts of the ACK tracker, for any messages, packets and cap.         *)
EXTENDS AckTracker, SequenceTheorems, TLAPS

-----------------------------------------------------------------------------
(* Sequences without repetition                                              *)

Distinct(seq) == \A i, j \in 1 .. Len(seq) : seq[i] = seq[j] => i = j

\* The youngest entries: those from position k + 1 on.
LEMMA SuffixFacts ==
    ASSUME NEW S, NEW s \in Seq(S), Distinct(s), NEW k \in 0 .. Len(s)
    PROVE  LET t == SubSeq(s, k + 1, Len(s))
           IN /\ t \in Seq(S) /\ Len(t) = Len(s) - k
              /\ Distinct(t)
              /\ ToSet(t) \subseteq ToSet(s)
              /\ k < Len(s) => t[Len(t)] = s[Len(s)]
  <1> DEFINE t == SubSeq(s, k + 1, Len(s))
  <1>1. t \in Seq(S) /\ Len(t) = Len(s) - k /\ \A i \in 1 .. Len(t) : t[i] = s[k + i]
    <2>1. \A i \in k + 1 .. Len(s) : s[i] \in S
      BY ElementOfSeq
    <2>2. t = [i \in 1 .. Len(s) - k |-> s[k + i]]
      BY SubSeqProperties
    <2> QED
      BY <2>1, <2>2, SubSeqProperties
  <1> HIDE DEF t
  <1>2. ASSUME NEW i \in 1 .. Len(t), NEW j \in 1 .. Len(t), t[i] = t[j]
        PROVE  i = j
    <2>1. /\ k + i \in 1 .. Len(s) /\ k + j \in 1 .. Len(s)
          /\ s[k + i] = s[k + j]
      BY <1>1, <1>2
    <2>2. k + i = k + j
      BY <2>1 DEF Distinct
    <2> QED
      BY <2>2
  <1>3. ToSet(t) \subseteq ToSet(s)
    BY <1>1 DEF ToSet
  <1>4. k < Len(s) => t[Len(t)] = s[Len(s)]
    <2>1. Len(s) \in Nat
      BY LenProperties
    <2> QED
      BY <1>1, <2>1
  <1> QED
    BY <1>1, <1>2, <1>3, <1>4 DEF t, Distinct

LEMMA AppendFacts ==
    ASSUME NEW S, NEW s \in Seq(S), Distinct(s), NEW e \in S, e \notin ToSet(s)
    PROVE  LET t == Append(s, e)
           IN /\ t \in Seq(S) /\ Len(t) = Len(s) + 1
              /\ Distinct(t)
              /\ ToSet(t) = ToSet(s) \cup {e}
              /\ t[Len(t)] = e
  <1> DEFINE t == Append(s, e)
  <1>1. /\ t \in Seq(S) /\ Len(t) = Len(s) + 1 /\ t[Len(t)] = e
        /\ \A i \in 1 .. Len(s) : t[i] = s[i]
    BY AppendProperties
  <1>2. \A i \in 1 .. Len(s) : s[i] \in ToSet(s)
    BY DEF ToSet
  <1>3. Distinct(t)
    BY <1>1, <1>2 DEF Distinct
  <1>4. ToSet(t) = ToSet(s) \cup {e}
    BY <1>1 DEF ToSet
  <1> QED
    BY <1>1, <1>3, <1>4

LEMMA RemoveFacts ==
    ASSUME NEW S, NEW s \in Seq(S), Distinct(s), NEW i \in 1 .. Len(s)
    PROVE  LET t == RemoveAt(s, i)
           IN /\ t \in Seq(S) /\ Len(t) = Len(s) - 1
              /\ Distinct(t)
              /\ ToSet(t) = ToSet(s) \ {s[i]}
  <1> DEFINE t == RemoveAt(s, i)
             a == SubSeq(s, 1, i - 1)
             b == SubSeq(s, i + 1, Len(s))
  <1>1. t = a \o b
    BY DEF RemoveAt
  <1>2. /\ a \in Seq(S) /\ Len(a) = i - 1
        /\ \A j \in 1 .. i - 1 : a[j] = s[j]
    <2>1. a = [j \in 1 .. i - 1 |-> s[j]]
      BY SubSeqProperties
    <2> QED
      BY <2>1, ElementOfSeq, SubSeqProperties
  <1>3. /\ b \in Seq(S) /\ Len(b) = Len(s) - i
        /\ \A j \in 1 .. Len(s) - i : b[j] = s[i + j]
    BY SuffixFacts, SubSeqProperties
  <1>4. /\ t \in Seq(S) /\ Len(t) = Len(s) - 1
        /\ \A j \in 1 .. Len(t) : t[j] = IF j < i THEN s[j] ELSE s[j + 1]
    <2> HIDE DEF t, a, b
    <2>1. /\ t \in Seq(S) /\ Len(t) = Len(a) + Len(b)
          /\ \A j \in 1 .. Len(a) + Len(b) : t[j] = IF j <= Len(a) THEN a[j] ELSE b[j - Len(a)]
      BY <1>1, <1>2, <1>3, ConcatProperties
    <2>2. ASSUME NEW j \in 1 .. Len(s) - 1
          PROVE  t[j] = IF j < i THEN s[j] ELSE s[j + 1]
      <3>1. CASE j < i
        BY <2>1, <1>2, <1>3, <3>1
      <3>2. CASE ~(j < i)
        <4>1. i \in Int /\ j \in Int /\ Len(s) \in Nat
          BY LenProperties
        <4>2. Len(a) = i - 1 /\ ~(j <= Len(a)) /\ Len(a) + Len(b) = Len(s) - 1
          BY <4>1, <1>2, <1>3, <3>2
        <4>3. t[j] = b[j - Len(a)]
          BY <2>1, <4>2
        <4>4. j - (i - 1) \in 1 .. Len(s) - i
          BY <4>1, <3>2
        <4>5. t[j] = b[j - (i - 1)] /\ j - (i - 1) \in 1 .. Len(s) - i
          BY <4>2, <4>3, <4>4
        <4>6. i + (j - (i - 1)) = j + 1
          BY <4>1, SMT
        <4>7. b[j - (i - 1)] = s[i + (j - (i - 1))]
          BY <4>5, <1>3
        <4> QED
          BY <4>5, <4>6, <4>7, <3>2
      <3> QED
        BY <3>1, <3>2
    <2> QED
      BY <2>1, <2>2, <1>2, <1>3
  <1>5. Distinct(t)
    BY <1>4 DEF Distinct
  <1>6. ToSet(t) \subseteq ToSet(s) \ {s[i]}
    BY <1>4 DEF ToSet, Distinct
  <1>7. ASSUME NEW x \in ToSet(s) \ {s[i]}
        PROVE  x \in ToSet(t)
    <2>1. PICK j \in 1 .. Len(s) : x = s[j] /\ j # i
      BY <1>7 DEF ToSet
    <2>2. x = t[IF j < i THEN j ELSE j - 1]
      BY <2>1, <1>4
    <2> QED
      BY <2>1, <2>2, <1>4 DEF ToSet
  <1> QED
    BY <1>4, <1>5, <1>6, <1>7
-----------------------------------------------------------------------------
(* The invariant                                                             *)

SenderTypes ==
    /\ stage \in [Messages -> {"idle", "posted", "recorded", "handed", "done"}]
    /\ carries \in Seq(Messages) /\ Len(carries) <= MaxPackets
    /\ current \in [Messages -> 0 .. MaxPackets]

TrackerTypes ==
    /\ pending \in Seq(Packets) /\ Len(pending) <= MaxPending
    /\ aged \in 0 .. Len(pending)
    /\ Distinct(pending)
    /\ armed \subseteq Packets /\ forgotten \subseteq Packets

VerdictTypes ==
    /\ reached \subseteq Packets
    /\ verdict \in Replies \cup {None}
    /\ sent \subseteq Messages
    /\ confirmed \in [Packets -> 0 .. 2] /\ dropped \in [Packets -> 0 .. 2]

\* Each sender has a packet of its own in hand, which the tracker never saw; a direct message
\* whose packet is recorded or armed has its SENT.
SendersHold ==
    /\ armed \subseteq Minted
    /\ \A m \in Messages : stage[m] \in {"posted", "recorded"} =>
          current[m] \in Minted \ armed /\ carries[current[m]] = m
    /\ \A m \in Messages : stage[m] = "recorded" => m \in sent
    /\ \A p \in armed : carries[p] \in Direct => carries[p] \in sent

\* The reply the MQTT thread is about to record.
HonestReply ==
    /\ verdict.kind # "implicit"
    /\ verdict.kind = "ack" => verdict.packet \in reached

Inv ==
    /\ SenderTypes /\ TrackerTypes /\ VerdictTypes
    /\ SendersHold /\ EveryPacketAccounted
    /\ HonestReply /\ HonestConfirm /\ OneVerdictPerPacket

LEMMA Initially == Init => Inv
  <1> SUFFICES ASSUME Init PROVE Inv
    OBVIOUS
  <1> USE TrackerAssumption
  <1>1. ToSet(pending) = {} /\ Len(pending) = 0 /\ pending \in Seq(Packets)
    BY EmptySeq DEF Init, ToSet
  <1>2. Len(carries) = 0 /\ carries \in Seq(Messages)
    BY EmptySeq DEF Init
  <1>3. SenderTypes
    BY <1>2 DEF Init, SenderTypes
  <1>4. TrackerTypes
    BY <1>1 DEF Init, TrackerTypes, Distinct
  <1>5. VerdictTypes
    BY DEF Init, VerdictTypes
  <1>6. SendersHold
    BY DEF Init, SendersHold
  <1>7. Verdicts = {} /\ {verdict.packet} \ {0} = {}
    BY DEF Init, Verdicts, None, Packets
  <1>8. EveryPacketAccounted
    BY <1>1, <1>7 DEF Init, EveryPacketAccounted
  <1>9. HonestReply
    BY DEF Init, HonestReply, None
  <1>10. HonestConfirm /\ OneVerdictPerPacket
    BY DEF Init, HonestConfirm, OneVerdictPerPacket, Packets
  <1> QED
    BY <1>3, <1>4, <1>5, <1>6, <1>8, <1>9, <1>10 DEF Inv

-----------------------------------------------------------------------------
(* The entries                                                               *)

LEMMA FreshFacts ==
    ASSUME TrackerTypes
    PROVE  /\ Fresh \in Seq(Packets) /\ Len(Fresh) = Len(pending) - aged
           /\ Distinct(Fresh)
           /\ ToSet(Fresh) \subseteq ToSet(pending)
  BY SuffixFacts DEF TrackerTypes, Fresh

\* A new entry is there, whatever the TTL and the cap let go.
LEMMA RegisterFacts ==
    ASSUME TrackerTypes, NEW p \in Packets, p \notin ToSet(pending), Register(p)
    PROVE  /\ TrackerTypes'
           /\ p \in ToSet(pending') /\ ToSet(pending') \subseteq ToSet(pending) \cup {p}
           /\ armed' = armed \cup {p}
           /\ forgotten' = forgotten \cup (ToSet(pending) \ ToSet(pending'))
  <1> USE TrackerAssumption
  <1> DEFINE all == Append(Fresh, p)
             k   == Len(all) - MaxPending
  <1>1. /\ all \in Seq(Packets) /\ Len(all) = Len(Fresh) + 1 /\ Distinct(all)
        /\ ToSet(all) \subseteq ToSet(pending) \cup {p}
        /\ all[Len(all)] = p
    BY FreshFacts, AppendFacts
  <1>2. /\ pending' = IF Len(all) > MaxPending THEN Youngest(all) ELSE all
        /\ aged' = 0 /\ armed' = armed \cup {p}
        /\ forgotten' = forgotten \cup (ToSet(pending) \ ToSet(pending'))
    BY DEF Register
  <1> HIDE DEF all
  <1>3. Len(all) \in Nat
    BY <1>1, LenProperties
  <1>4. /\ pending' \in Seq(Packets) /\ Len(pending') <= MaxPending /\ Len(pending') \in Nat
        /\ Distinct(pending') /\ ToSet(pending') \subseteq ToSet(all)
        /\ p \in ToSet(pending')
    <2>1. CASE Len(all) > MaxPending
      <3>1. k \in 0 .. Len(all) /\ Len(all) - k = MaxPending
        BY <1>3, <2>1
      <3>2. pending' = SubSeq(all, k + 1, Len(all))
        BY <1>2, <2>1 DEF Youngest
      <3>3. /\ pending' \in Seq(Packets) /\ Len(pending') = Len(all) - k
            /\ Distinct(pending') /\ ToSet(pending') \subseteq ToSet(all)
            /\ k < Len(all) => pending'[Len(pending')] = all[Len(all)]
        <4> HIDE DEF k
        <4> QED
          BY <1>1, <3>1, <3>2, SuffixFacts
      <3>4. Len(pending') = MaxPending /\ pending'[MaxPending] = all[Len(all)]
        BY <1>3, <3>1, <3>3
      <3>5. p \in ToSet(pending')
        BY <1>1, <3>4 DEF ToSet
      <3> QED
        BY <3>3, <3>4, <3>5
    <2>2. CASE ~(Len(all) > MaxPending)
      <3>1. pending' = all /\ Len(all) <= MaxPending
        BY <1>2, <1>3, <2>2
      <3>2. p \in ToSet(all)
        <4>1. Len(all) \in 1 .. Len(all)
          BY <1>1, <1>3, FreshFacts, LenProperties
        <4> QED
          BY <1>1, <4>1 DEF ToSet
      <3> QED
        BY <1>1, <1>3, <3>1, <3>2
    <2> QED
      BY <2>1, <2>2
  <1>5. ToSet(pending) \subseteq Packets
    BY ElementOfSeq DEF TrackerTypes, ToSet
  <1>6. armed' \subseteq Packets /\ forgotten' \subseteq Packets
    BY <1>2, <1>5 DEF TrackerTypes
  <1>7. TrackerTypes'
    BY <1>2, <1>4, <1>6 DEF TrackerTypes, Packets
  <1> QED
    BY <1>1, <1>2, <1>4, <1>7

-----------------------------------------------------------------------------
(* The senders                                                               *)

LEMMA MintedArePackets == SenderTypes => Minted \subseteq Packets
  <1>1. SenderTypes => Len(carries) \in Nat /\ Len(carries) <= MaxPackets
    BY LenProperties DEF SenderTypes
  <1> QED
    BY <1>1, TrackerAssumption DEF Minted, Packets

\* A step that touches neither the tracker nor the verdicts keeps what is said of them.
LEMMA TrackerUntouched ==
    ASSUME Inv, UNCHANGED <<tracker, verdict, confirmed, dropped, armed, forgotten>>
    PROVE  TrackerTypes' /\ EveryPacketAccounted' /\ OneVerdictPerPacket'
  <1>1. TrackerTypes'
    BY DEF Inv, TrackerTypes, Distinct, tracker
  <1>2. Verdicts' = Verdicts
    BY DEF Verdicts
  <1>3. EveryPacketAccounted'
    BY <1>2 DEF Inv, EveryPacketAccounted, tracker
  <1>4. OneVerdictPerPacket'
    BY DEF Inv, OneVerdictPerPacket
  <1> QED
    BY <1>1, <1>3, <1>4

LEMMA SenderStep ==
    ASSUME Inv, NEW m \in Messages, Post(m) \/ PostUnanswered(m) \/ PostPlain(m) \/ RecordSent(m) \/ Finish(m)
    PROVE  Inv'
  <1> USE TrackerAssumption
  <1>1. /\ UNCHANGED <<tracker, verdict, confirmed, dropped, armed, forgotten>>
        /\ UNCHANGED reached
    BY DEF Post, PostUnanswered, PostPlain, RecordSent, Finish, unseen
  <1>2. TrackerTypes' /\ EveryPacketAccounted' /\ OneVerdictPerPacket'
    BY <1>1, TrackerUntouched
  <1>3. /\ carries' \in Seq(Messages) /\ Len(carries') <= MaxPackets
        /\ Len(carries') \in Nat /\ Len(carries) \in Nat /\ Minted \subseteq Minted'
        /\ \A p \in Minted : carries'[p] = carries[p]
    <2>1. Len(carries) \in Nat /\ carries \in Seq(Messages) /\ Len(carries) <= MaxPackets
      BY LenProperties DEF Inv, SenderTypes
    <2>2. CASE carries' = Append(carries, m) /\ Len(carries) < MaxPackets
      BY <2>1, <2>2, AppendProperties DEF Minted
    <2>3. CASE carries' = carries
      BY <2>1, <2>3 DEF Minted
    <2> QED
      BY <2>2, <2>3 DEF Post, PostUnanswered, PostPlain, RecordSent, Finish
  <1>4. sent \subseteq sent' /\ sent' \subseteq Messages
    BY DEF Post, PostUnanswered, PostPlain, RecordSent, Finish, Inv, VerdictTypes
  <1>5. CASE Post(m)
    <2>1. /\ carries' = Append(carries, m) /\ Len(carries') = Len(carries) + 1
          /\ carries'[Len(carries')] = m
      BY <1>5, AppendProperties DEF Post, Inv, SenderTypes
    <2>2. /\ current' = [current EXCEPT ![m] = Len(carries')]
          /\ stage' = [stage EXCEPT ![m] = "posted"]
      BY <1>5 DEF Post, At
    <2>3. SenderTypes'
      BY <1>3, <2>2 DEF Inv, SenderTypes
    <2>4. Len(carries') \in Minted' \ armed
      BY <1>3, <2>1 DEF Inv, SendersHold, Minted
    <2>5. SendersHold'
      <3>1. armed' \subseteq Minted'
        BY <1>1, <1>3 DEF Inv, SendersHold
      <3>2. ASSUME NEW n \in Messages, stage'[n] \in {"posted", "recorded"}
            PROVE  current'[n] \in Minted' \ armed' /\ carries'[current'[n]] = n
        <4>1. CASE n = m
          BY <1>1, <2>1, <2>2, <2>4, <4>1 DEF Inv, SenderTypes
        <4>2. CASE n # m
          <5>1. stage[n] = stage'[n] /\ current'[n] = current[n]
            BY <2>2, <4>2 DEF Inv, SenderTypes
          <5> QED
            BY <1>1, <1>3, <3>2, <5>1 DEF Inv, SendersHold
        <4> QED
          BY <4>1, <4>2
      <3>3. \A n \in Messages : stage'[n] = "recorded" => n \in sent'
        BY <1>4, <2>2 DEF Inv, SendersHold, SenderTypes
      <3>4. \A p \in armed' : carries'[p] \in Direct => carries'[p] \in sent'
        BY <1>1, <1>3, <1>4 DEF Inv, SendersHold
      <3> QED
        BY <3>1, <3>2, <3>3, <3>4 DEF SendersHold
    <2> QED
      BY <1>1, <1>2, <1>4, <2>3, <2>5
      DEF Inv, VerdictTypes, HonestReply, HonestConfirm
  <1>6. CASE PostUnanswered(m) \/ PostPlain(m) \/ RecordSent(m) \/ Finish(m)
    <2>1. /\ \E s \in {"idle", "recorded", "handed", "done"} :
                stage' = [stage EXCEPT ![m] = s]
          /\ current' = current \/ current' = [current EXCEPT ![m] = 0]
      BY <1>6 DEF PostUnanswered, PostPlain, RecordSent, Finish, At
    <2>2. SenderTypes'
      BY <1>3, <2>1 DEF Inv, SenderTypes
    <2>3. /\ stage'[m] \in {"posted", "recorded"} => RecordSent(m)
          /\ \A n \in Messages \ {m} : stage'[n] = stage[n] /\ current'[n] = current[n]
      BY <1>6, <2>1 DEF PostUnanswered, PostPlain, RecordSent, Finish, At, Inv, SenderTypes
    <2>4. RecordSent(m) => /\ stage[m] = "posted" /\ current' = current /\ carries' = carries
                           /\ m \in sent'
      BY DEF RecordSent
    <2>5. SendersHold'
      <3>1. armed' \subseteq Minted'
        BY <1>1, <1>3 DEF Inv, SendersHold
      <3>2. ASSUME NEW n \in Messages, stage'[n] \in {"posted", "recorded"}
            PROVE  current'[n] \in Minted' \ armed' /\ carries'[current'[n]] = n
        <4>1. stage[n] \in {"posted", "recorded"} /\ current'[n] = current[n]
          BY <2>3, <2>4, <3>2
        <4> QED
          BY <1>1, <1>3, <4>1 DEF Inv, SendersHold
      <3>3. \A n \in Messages : stage'[n] = "recorded" => n \in sent'
        BY <1>4, <2>3, <2>4 DEF Inv, SendersHold
      <3>4. \A p \in armed' : carries'[p] \in Direct => carries'[p] \in sent'
        BY <1>1, <1>3, <1>4 DEF Inv, SendersHold
      <3> QED
        BY <3>1, <3>2, <3>3, <3>4 DEF SendersHold
    <2> QED
      BY <1>1, <1>2, <1>4, <2>2, <2>5
      DEF Inv, VerdictTypes, HonestReply, HonestConfirm
  <1> QED
    BY <1>5, <1>6

LEMMA ArmStep ==
    ASSUME Inv, NEW m \in Messages, Arm(m)
    PROVE  Inv'
  <1> DEFINE p == current[m]
  <1>1. p \in Minted \ armed /\ carries[p] = m /\ (m \in Direct => m \in sent)
    BY DEF Arm, Inv, SendersHold
  <1>2. p \in Packets
    BY <1>1, MintedArePackets DEF Inv
  <1>3. p \notin ToSet(pending)
    BY <1>1 DEF Inv, EveryPacketAccounted
  <1>4. /\ Register(p) /\ UNCHANGED <<carries, current, reached, verdict, sent, confirmed, dropped>>
        /\ stage' = [stage EXCEPT ![m] = "handed"]
    BY DEF Arm, At, ledger
  <1> HIDE DEF p
  <1>5. /\ TrackerTypes'
        /\ p \in ToSet(pending') /\ ToSet(pending') \subseteq ToSet(pending) \cup {p}
        /\ armed' = armed \cup {p}
        /\ forgotten' = forgotten \cup (ToSet(pending) \ ToSet(pending'))
    BY <1>2, <1>3, <1>4, RegisterFacts DEF Inv
  <1>6. SenderTypes' /\ VerdictTypes' /\ Verdicts' = Verdicts
    BY <1>4 DEF Inv, SenderTypes, VerdictTypes, Verdicts
  <1>7. EveryPacketAccounted'
    BY <1>1, <1>4, <1>5, <1>6 DEF Inv, EveryPacketAccounted
  <1>8. SendersHold'
    <2>1. armed' \subseteq Minted'
      BY <1>1, <1>4, <1>5 DEF Inv, SendersHold, Minted
    <2>2. ASSUME NEW n \in Messages, stage'[n] \in {"posted", "recorded"}
          PROVE  current'[n] \in Minted' \ armed' /\ carries'[current'[n]] = n
      <3>1. n # m /\ stage[n] = stage'[n] /\ current'[n] = current[n]
        BY <1>4, <2>2 DEF Inv, SenderTypes
      <3>2. current[n] \in Minted \ armed /\ carries[current[n]] = n
        BY <2>2, <3>1 DEF Inv, SendersHold
      <3>3. current[n] # p
        BY <1>1, <3>1, <3>2
      <3> QED
        BY <1>4, <1>5, <3>1, <3>2, <3>3 DEF Minted
    <2>3. \A n \in Messages : stage'[n] = "recorded" => n \in sent'
      BY <1>4 DEF Inv, SendersHold, SenderTypes
    <2>4. \A q \in armed' : carries'[q] \in Direct => carries'[q] \in sent'
      BY <1>1, <1>4, <1>5 DEF Inv, SendersHold
    <2> QED
      BY <2>1, <2>2, <2>3, <2>4 DEF SendersHold
  <1> QED
    BY <1>4, <1>5, <1>6, <1>7, <1>8
    DEF Inv, HonestReply, HonestConfirm, OneVerdictPerPacket

-----------------------------------------------------------------------------
(* The air, the tracker and the MQTT thread                                  *)

\* SendersHold reads the senders, the armed packets and the SENT.
LEMMA SendersUntouched ==
    ASSUME Inv, UNCHANGED <<senders, armed, sent>>
    PROVE  SenderTypes' /\ SendersHold'
  BY DEF Inv, SenderTypes, SendersHold, senders, Minted

LEMMA ReachStep ==
    ASSUME Inv, NEW p \in Minted, Reach(p)
    PROVE  Inv'
  <1>1. /\ UNCHANGED <<tracker, verdict, confirmed, dropped, armed, forgotten>>
        /\ UNCHANGED <<senders, armed, sent>>
        /\ reached' = reached \cup {p}
    BY DEF Reach, ledger
  <1>2. p \in Packets
    BY MintedArePackets DEF Inv
  <1>3. VerdictTypes' /\ HonestReply' /\ HonestConfirm'
    BY <1>1, <1>2 DEF Inv, VerdictTypes, HonestReply, HonestConfirm
  <1> QED
    BY <1>1, <1>3, TrackerUntouched, SendersUntouched DEF Inv

LEMMA AgeStep ==
    ASSUME Inv, Age
    PROVE  Inv'
  <1>1. /\ UNCHANGED <<senders, reached, pending, verdict, sent, confirmed, dropped, armed, forgotten>>
        /\ aged < Len(pending) /\ aged' = aged + 1
    BY DEF Age, ledger
  <1>2. Len(pending) \in Nat
    BY LenProperties DEF Inv, TrackerTypes
  <1>3. TrackerTypes'
    BY <1>1, <1>2 DEF Inv, TrackerTypes, Distinct
  <1>4. SenderTypes' /\ SendersHold'
    BY <1>1, SendersUntouched
  <1>5. Verdicts' = Verdicts
    BY <1>1 DEF Verdicts
  <1>6. EveryPacketAccounted'
    BY <1>1, <1>5 DEF Inv, EveryPacketAccounted
  <1>7. VerdictTypes' /\ HonestReply' /\ HonestConfirm' /\ OneVerdictPerPacket'
    BY <1>1 DEF Inv, VerdictTypes, HonestReply, HonestConfirm, OneVerdictPerPacket
  <1> QED
    BY <1>3, <1>4, <1>6, <1>7 DEF Inv

LEMMA IgnoreStep ==
    ASSUME Inv, NEW r \in OnAir, Ignore(r)
    PROVE  Inv'
  <1>1. /\ UNCHANGED <<senders, reached, verdict, sent, confirmed, dropped, armed>>
        /\ pending' = Fresh /\ aged' = 0
        /\ forgotten' = forgotten \cup (ToSet(pending) \ ToSet(Fresh))
    BY DEF Ignore, Expire, unheard, ledger
  <1>2. /\ Fresh \in Seq(Packets) /\ Len(Fresh) = Len(pending) - aged
        /\ Distinct(Fresh) /\ ToSet(Fresh) \subseteq ToSet(pending)
    BY FreshFacts DEF Inv
  <1>3. ToSet(pending) \subseteq armed
    BY DEF Inv, EveryPacketAccounted
  <1>4. TrackerTypes'
    <2>1. Len(pending) \in Nat /\ Len(Fresh) \in Nat
      BY <1>2, LenProperties DEF Inv, TrackerTypes
    <2>2. Len(Fresh) <= MaxPending
      BY <1>2, <2>1, TrackerAssumption DEF Inv, TrackerTypes
    <2>3. /\ pending' \in Seq(Packets) /\ Len(pending') <= MaxPending
          /\ aged' \in 0 .. Len(pending')
      BY <1>1, <1>2, <2>1, <2>2
    <2>4. armed' \subseteq Packets /\ forgotten' \subseteq Packets
      BY <1>1, <1>3 DEF Inv, TrackerTypes
    <2> QED
      BY <1>1, <1>2, <2>3, <2>4 DEF TrackerTypes, Packets
  <1>5. SenderTypes' /\ SendersHold'
    BY <1>1, SendersUntouched
  <1>6. Verdicts' = Verdicts
    BY <1>1 DEF Verdicts
  <1>7. EveryPacketAccounted'
    BY <1>1, <1>2, <1>6 DEF Inv, EveryPacketAccounted
  <1>8. VerdictTypes' /\ HonestReply' /\ HonestConfirm' /\ OneVerdictPerPacket'
    BY <1>1 DEF Inv, VerdictTypes, HonestReply, HonestConfirm, OneVerdictPerPacket
  <1> QED
    BY <1>4, <1>5, <1>7, <1>8 DEF Inv

LEMMA SettleStep ==
    ASSUME Inv, NEW r \in OnAir, NEW i \in 1 .. Len(Fresh), Settle(r, i)
    PROVE  Inv'
  <1>1. /\ UNCHANGED <<senders, reached, sent, confirmed, dropped, armed>>
        /\ verdict = None
        /\ pending' = RemoveAt(Fresh, i) /\ aged' = 0
        /\ Fresh[i] = r.packet /\ verdict' = r /\ r.kind # "implicit"
        /\ forgotten' = forgotten \cup (ToSet(pending) \ ToSet(Fresh))
    BY DEF Settle, Expire, unheard, ledger
  <1>2. r \in Replies /\ (r.kind = "ack" => r.packet \in reached)
    BY DEF OnAir
  <1>3. /\ Fresh \in Seq(Packets) /\ Len(Fresh) = Len(pending) - aged
        /\ Distinct(Fresh) /\ ToSet(Fresh) \subseteq ToSet(pending)
    BY FreshFacts DEF Inv
  <1>4. /\ pending' \in Seq(Packets) /\ Len(pending') = Len(Fresh) - 1
        /\ Distinct(pending') /\ ToSet(pending') = ToSet(Fresh) \ {r.packet}
    BY <1>1, <1>3, RemoveFacts
  <1>5. r.packet \in ToSet(Fresh) /\ r.packet # 0
    BY <1>1, <1>2 DEF ToSet, Replies, Packets
  <1>6. ToSet(pending) \subseteq armed
    BY DEF Inv, EveryPacketAccounted
  <1>7. TrackerTypes'
    <2>1. Len(pending) \in Nat /\ Len(Fresh) \in Nat /\ Len(pending') \in Nat
      BY <1>3, <1>4, LenProperties DEF Inv, TrackerTypes
    <2>2. Len(pending') <= MaxPending
      BY <1>3, <1>4, <2>1, TrackerAssumption DEF Inv, TrackerTypes
    <2>3. pending' \in Seq(Packets) /\ aged' \in 0 .. Len(pending')
      BY <1>1, <1>4, <2>1
    <2>4. armed' \subseteq Packets /\ forgotten' \subseteq Packets
      BY <1>1, <1>6 DEF Inv, TrackerTypes
    <2> QED
      BY <1>4, <2>2, <2>3, <2>4 DEF TrackerTypes, Packets
  <1>8. SenderTypes' /\ SendersHold'
    BY <1>1, SendersUntouched
  <1>9. EveryPacketAccounted'
    <2>1. Verdicts' = Verdicts /\ {verdict.packet} \ {0} = {} /\ {verdict'.packet} \ {0} = {r.packet}
      BY <1>1, <1>5 DEF Verdicts, None
    <2> QED
      BY <1>1, <1>3, <1>4, <1>5, <2>1 DEF Inv, EveryPacketAccounted
  <1>10. VerdictTypes' /\ HonestReply' /\ HonestConfirm' /\ OneVerdictPerPacket'
    BY <1>1, <1>2 DEF Inv, VerdictTypes, HonestReply, HonestConfirm, OneVerdictPerPacket
  <1> QED
    BY <1>7, <1>8, <1>9, <1>10 DEF Inv

LEMMA RecordStep ==
    ASSUME Inv, RecordVerdict
    PROVE  Inv'
  <1> DEFINE p == verdict.packet
  <1>1. /\ verdict \in Replies /\ p \in Packets
        /\ UNCHANGED <<senders, reached, tracker, sent, armed, forgotten>> /\ verdict' = None
    BY DEF RecordVerdict, Inv, VerdictTypes, Replies
  <1>2. {p} \ {0} = {p} /\ {verdict'.packet} \ {0} = {}
    BY <1>1 DEF None, Packets
  <1>3. p \in armed /\ p \notin Verdicts /\ p \notin ToSet(pending) /\ p \notin forgotten
    BY <1>2 DEF Inv, EveryPacketAccounted
  <1>4. confirmed[p] = 0 /\ dropped[p] = 0
    BY <1>1, <1>3 DEF Verdicts, Inv, VerdictTypes
  <1>5. \/ dropped' = [dropped EXCEPT ![p] = 1] /\ confirmed' = confirmed
        \/ /\ confirmed' = [confirmed EXCEPT ![p] = 1] /\ dropped' = dropped
           /\ p \in reached
    <2>1. CASE verdict.kind = "nak"
      BY <1>1, <1>4, <2>1 DEF RecordVerdict, More, Inv, VerdictTypes
    <2>2. CASE verdict.kind # "nak"
      <3>1. p \in reached
        BY <1>1, <2>2 DEF Inv, HonestReply, Replies, Kinds
      <3> QED
        BY <1>1, <1>4, <2>2, <3>1 DEF RecordVerdict, More, Inv, VerdictTypes
    <2> QED
      BY <2>1, <2>2
  <1> HIDE DEF p
  <1>6. Verdicts' = Verdicts \cup {p}
    BY <1>1, <1>4, <1>5 DEF Verdicts, Inv, VerdictTypes
  <1>7. EveryPacketAccounted'
    BY <1>1, <1>2, <1>3, <1>6 DEF Inv, EveryPacketAccounted, tracker, p
  <1>8. TrackerTypes'
    BY <1>1 DEF Inv, TrackerTypes, Distinct, tracker
  <1>9. SenderTypes' /\ SendersHold'
    BY <1>1, SendersUntouched
  <1>10. VerdictTypes' /\ HonestReply'
    BY <1>1, <1>5 DEF Inv, VerdictTypes, HonestReply, None
  <1>11. HonestConfirm' /\ OneVerdictPerPacket'
    BY <1>1, <1>4, <1>5 DEF Inv, VerdictTypes, HonestConfirm, OneVerdictPerPacket
  <1> QED
    BY <1>7, <1>8, <1>9, <1>10, <1>11 DEF Inv

LEMMA CrashStep ==
    ASSUME Inv, Crash
    PROVE  Inv'
  <1> USE TrackerAssumption
  <1>1. /\ stage' = [m \in Messages |-> IF m \in Queued /\ stage[m] # "done" THEN "idle"
                                        ELSE IF stage[m] = "idle" THEN "idle" ELSE "done"]
        /\ current' = [m \in Messages |-> 0] /\ carries' = carries
        /\ pending' = <<>> /\ aged' = 0 /\ verdict' = None
        /\ forgotten' = forgotten \cup ToSet(pending) \cup ({verdict.packet} \ {0})
        /\ UNCHANGED <<reached, sent, confirmed, dropped, armed>>
    BY DEF Crash, ledger
  <1>2. ToSet(pending') = {} /\ Len(pending') = 0 /\ pending' \in Seq(Packets)
    BY <1>1, EmptySeq DEF ToSet
  <1>3. {verdict'.packet} \ {0} = {} /\ Verdicts' = Verdicts
    BY <1>1 DEF None, Verdicts
  <1>4. EveryPacketAccounted'
    BY <1>1, <1>2, <1>3 DEF Inv, EveryPacketAccounted
  <1>5. TrackerTypes'
    <2>1. forgotten' \subseteq armed
      BY <1>1 DEF Inv, EveryPacketAccounted
    <2>2. Len(pending') <= MaxPending /\ aged' \in 0 .. Len(pending')
      BY <1>1, <1>2
    <2>3. Distinct(pending')
      BY <1>2 DEF Distinct
    <2>4. armed' \subseteq Packets /\ forgotten' \subseteq Packets
      BY <1>1, <2>1 DEF Inv, TrackerTypes
    <2> QED
      BY <1>2, <2>2, <2>3, <2>4 DEF TrackerTypes, Packets
  <1>6. SenderTypes'
    BY <1>1 DEF Inv, SenderTypes
  <1>7. SendersHold'
    BY <1>1 DEF Inv, SendersHold, Minted
  <1>8. VerdictTypes' /\ HonestReply' /\ HonestConfirm' /\ OneVerdictPerPacket'
    BY <1>1 DEF Inv, VerdictTypes, HonestReply, HonestConfirm, OneVerdictPerPacket, None
  <1> QED
    BY <1>4, <1>5, <1>6, <1>7, <1>8 DEF Inv

LEMMA StutterStep ==
    ASSUME Inv, UNCHANGED vars
    PROVE  Inv'
  <1>1. /\ UNCHANGED <<tracker, verdict, confirmed, dropped, armed, forgotten>>
        /\ UNCHANGED <<senders, armed, sent>> /\ UNCHANGED reached
    BY DEF vars, ledger
  <1>2. VerdictTypes' /\ HonestReply' /\ HonestConfirm'
    BY <1>1 DEF Inv, VerdictTypes, HonestReply, HonestConfirm
  <1> QED
    BY <1>1, <1>2, TrackerUntouched, SendersUntouched DEF Inv

LEMMA Invariance == Spec => []Inv
  <1>1. Inv /\ [Next]_vars => Inv'
    <2> SUFFICES ASSUME Inv, [Next]_vars PROVE Inv'
      OBVIOUS
    <2>1. CASE \E m \in Messages : Sender(m)
      BY <2>1, SenderStep, ArmStep DEF Sender
    <2>2. CASE \E p \in Minted : Reach(p)
      BY <2>2, ReachStep
    <2>3. CASE \E r \in OnAir : Resolve(r)
      BY <2>3, IgnoreStep, SettleStep DEF Resolve
    <2>4. CASE RecordVerdict
      BY <2>4, RecordStep
    <2>5. CASE Age
      BY <2>5, AgeStep
    <2>6. CASE Crash
      BY <2>6, CrashStep
    <2>7. CASE UNCHANGED vars
      BY <2>7, StutterStep
    <2> QED
      BY <2>1, <2>2, <2>3, <2>4, <2>5, <2>6, <2>7 DEF Next
  <1> QED
    BY Initially, <1>1, PTL DEF Spec

-----------------------------------------------------------------------------
(* The theorems                                                              *)

\* Every state of the senders, the tracker and the verdicts has its type, and the tracker never
\* holds more than its cap.
THEOREM TrackerTypeCorrect == Spec => []TypeOK
  <1>1. Inv => TypeOK
    BY DEF Inv, SenderTypes, TrackerTypes, VerdictTypes, TypeOK
  <1> QED
    BY <1>1, Invariance, PTL

\* resolve_leg confirms nothing that did not arrive: the destination has every packet recorded as
\* CONFIRMED, whatever is lost, repeated, reordered, forgotten or restarted.
THEOREM TrackerHonestConfirm == Spec => []HonestConfirm
  <1>1. Inv => HonestConfirm
    BY DEF Inv
  <1> QED
    BY <1>1, Invariance, PTL

\* A packet gets one verdict, however many replies are heard and whatever they say.
THEOREM TrackerOneVerdict == Spec => []OneVerdictPerPacket
  <1>1. Inv => OneVerdictPerPacket
    BY DEF Inv
  <1> QED
    BY <1>1, Invariance, PTL

\* The verdict on a direct message never precedes its SENT.
THEOREM TrackerSentFirst == Spec => []DirectSentFirst
  <1>1. Inv => DirectSentFirst
    <2> SUFFICES ASSUME Inv, NEW p \in Minted, carries[p] \in Direct, confirmed[p] + dropped[p] > 0
                 PROVE  carries[p] \in sent
      BY DEF DirectSentFirst
    <2>1. p \in Packets
      BY MintedArePackets DEF Inv
    <2>2. p \in armed
      BY <2>1 DEF Verdicts, Inv, EveryPacketAccounted
    <2> QED
      BY <2>2 DEF Inv, SendersHold
  <1> QED
    BY <1>1, Invariance, PTL

\* Nothing that was armed disappears: it waits, is decided, or was let go, and only one of these.
THEOREM TrackerAccountsForAll == Spec => []EveryPacketAccounted
  <1>1. Inv => EveryPacketAccounted
    BY DEF Inv
  <1> QED
    BY <1>1, Invariance, PTL
=============================================================================
