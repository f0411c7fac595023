----------------------- MODULE GatewayHeartbeatProofs -----------------------
(***************************************************************************)
(* For every threshold: the types, and the three safety properties of the  *)
(* secondary.  Each is carried by one conjunct of IInv.                    *)
(***************************************************************************)
EXTENDS GatewayHeartbeat, TLAPS

\* What is under way says how old the peer's entry can be: time passes only while
\* no thread is in the middle of a peer event.
Threaded ==
    /\ session = "down" => mqtt = "idle" /\ down = "none"
    /\ pending <=> down # "none"
    /\ mqtt = "recovering" => alive
    /\ mqtt = "downing" => ~alive
    /\ alive /\ (mqtt = "recovering" \/ down # "none") => silence = 0

\* A peer counted as dead has been, or is going to be, taken over from.
Takeover == known /\ ~alive => state = "active" \/ mqtt = "downing" \/ down = "started"

\* Active over a peer that counts as alive: it is being stood down, or was raced.
Standing == alive /\ state = "active" => raced \/ mqtt = "recovering"

Waiting == \E i \in 1 .. Len(inbox) : inbox[i] = "heartbeat"

\* As long as every interval let a heartbeat through, the last one is recent or its
\* successor is in the inbox.
Timely ==
    session \in Open /\ ~skipped /\ grace >= 1
        => silence = 0 \/ (Waiting /\ (grace = Grace => silence <= 1))

IInv == TypeOK /\ Threaded /\ Takeover /\ Standing /\ Timely

peerState == <<known, alive, silence, mqtt, down, pending, state, raced, session, skipped, grace>>

\* TypeOK by sort, for the provers.
Places ==
    /\ primary \in Sessions /\ session \in Sessions
    /\ retained \in {"none", "online", "offline"}
    /\ state \in {"active", "standby"}
    /\ mqtt \in {"idle", "recovering", "downing"}
    /\ down \in {"none", "started", "decided"}
Flags ==
    /\ will \in BOOLEAN /\ pending \in BOOLEAN /\ skipped \in BOOLEAN /\ raced \in BOOLEAN
    /\ known \in BOOLEAN /\ alive \in BOOLEAN /\ alive => known
Counts == silence \in 0 .. Threshold + 1 /\ grace \in 0 .. Grace
Box    == inbox \in Seq(Messages) /\ (session \notin Open => inbox = <<>>)

LEMMA Sorts == TypeOK <=> Places /\ Flags /\ Counts /\ Box
BY DEF TypeOK, Places, Flags, Counts, Box

LEMMA SortsNext == TypeOK' <=> Places' /\ Flags' /\ Counts' /\ Box'
BY DEF TypeOK, Places, Flags, Counts, Box

-----------------------------------------------------------------------------
(* The inbox                                                               *)

LEMMA WaitingAppend ==
    ASSUME NEW ms \in Seq(Messages), inbox \in Seq(Messages), inbox' = inbox \o ms, Waiting
    PROVE  Waiting'
<1>1. PICK i \in 1 .. Len(inbox) : inbox[i] = "heartbeat"
  BY DEF Waiting
<1>2. i \in 1 .. Len(inbox') /\ inbox'[i] = "heartbeat"
  BY <1>1
<1> QED
  BY <1>2 DEF Waiting

\* Delivery keeps the inbox well formed and loses no heartbeat.
LEMMA DeliverOK ==
    ASSUME TypeOK, NEW ms \in Seq(Messages), Deliver(ms)
    PROVE  /\ inbox' \in Seq(Messages)
           /\ session \notin Open => inbox' = <<>>
           /\ session \in Open /\ Waiting => Waiting'
<1>1. CASE session \in Open
  <2>1. inbox' = inbox \o ms
    BY <1>1 DEF Deliver
  <2>2. inbox' \in Seq(Messages)
    BY <2>1 DEF TypeOK
  <2>3. Waiting => Waiting'
    BY <2>1, WaitingAppend DEF TypeOK
  <2> QED
    BY <1>1, <2>2, <2>3
<1>2. CASE session \notin Open
  BY <1>2 DEF Deliver, TypeOK
<1> QED
  BY <1>1, <1>2

LEMMA DeliverHeartbeatOK ==
    ASSUME TypeOK, DeliverHeartbeat
    PROVE  /\ inbox' \in Seq(Messages)
           /\ session \notin Open => inbox' = <<>>
           /\ session \in Open => Waiting'
<1>1. CASE inbox # <<>> /\ inbox[Len(inbox)] = "heartbeat"
  <2>1. inbox' = inbox
    BY <1>1 DEF DeliverHeartbeat
  <2>2. Len(inbox) \in 1 .. Len(inbox)
    BY <1>1 DEF TypeOK
  <2>3. Waiting
    BY <1>1, <2>2 DEF Waiting
  <2> QED
    BY <1>1, <2>1, <2>2, <2>3 DEF TypeOK, Waiting
<1>2. CASE ~(inbox # <<>> /\ inbox[Len(inbox)] = "heartbeat")
  <2>1. Deliver(<<"heartbeat">>)
    BY <1>2 DEF DeliverHeartbeat
  <2>2. <<"heartbeat">> \in Seq(Messages)
    BY DEF Messages
  <2>3. ASSUME session \in Open PROVE Waiting'
    <3>1. inbox' = inbox \o <<"heartbeat">>
      BY <2>1, <2>3 DEF Deliver
    <3>2. Len(inbox) + 1 \in 1 .. Len(inbox') /\ inbox'[Len(inbox) + 1] = "heartbeat"
      BY <3>1 DEF TypeOK
    <3> QED
      BY <3>2 DEF Waiting
  <2> QED
    BY <2>1, <2>2, <2>3, DeliverOK
<1> QED
  BY <1>1, <1>2

\* A message that is heard and is no heartbeat leaves the heartbeats behind it.
LEMMA HearKeeps ==
    ASSUME TypeOK, NEW m \in Messages, Hears(m)
    PROVE  /\ inbox' \in Seq(Messages)
           /\ session = "online" /\ mqtt = "idle"
           /\ m # "heartbeat" /\ Waiting => Waiting'
<1>1. inbox \in Seq(Messages) /\ inbox # <<>> /\ Head(inbox) = m /\ inbox' = Tail(inbox)
  BY DEF Hears, TypeOK
<1>2. inbox' \in Seq(Messages)
  BY <1>1
<1>3. ASSUME m # "heartbeat", Waiting PROVE Waiting'
  <2>1. PICK i \in 1 .. Len(inbox) : inbox[i] = "heartbeat"
    BY <1>3 DEF Waiting
  <2>2. i # 1
    BY <1>1, <1>3, <2>1
  <2>3. i - 1 \in 1 .. Len(inbox') /\ inbox'[i - 1] = "heartbeat"
    BY <1>1, <2>1, <2>2
  <2> QED
    BY <2>3 DEF Waiting
<1> QED
  BY <1>2, <1>3 DEF Hears

\* A step of the primary or the broker that only delivers.
LEMMA PeerUntouched ==
    ASSUME IInv, UNCHANGED peerState,
           primary' \in Sessions, will' \in BOOLEAN, retained' \in {"none", "online", "offline"},
           inbox' \in Seq(Messages), session \notin Open => inbox' = <<>>,
           session \in Open /\ Waiting => Waiting'
    PROVE  IInv'
<1>1. TypeOK'
  BY DEF IInv, TypeOK, peerState
<1>2. Threaded' /\ Takeover' /\ Standing'
  BY DEF IInv, peerState, Threaded, Takeover, Standing
<1>3. Timely'
  BY DEF IInv, peerState, Timely
<1> QED
  BY <1>1, <1>2, <1>3 DEF IInv

-----------------------------------------------------------------------------
(* One lemma per group of actions                                          *)

LEMMA PrimarySteps ==
    ASSUME HeartbeatAssumption, IInv,
           \/ StartPrimary \/ ReconnectPrimary \/ LosePrimary \/ StallPrimary \/ ResumePrimary
           \/ CrashPrimary \/ StopPrimary \/ PublishWill
    PROVE  IInv'
<1> USE DEF secondary, peer, threads, peerState
<1>0. TypeOK
  BY DEF IInv
<1>1. Owed \in Seq(Messages) /\ <<"offline">> \in Seq(Messages)
      /\ Append(Owed, "online") \in Seq(Messages)
  <2>1. <<"offline">> \in Seq(Messages) /\ <<>> \in Seq(Messages) /\ "online" \in Messages
    BY DEF Messages
  <2>2. Owed \in Seq(Messages)
    BY <2>1 DEF Owed
  <2> QED
    BY <2>1, <2>2
<1>2. CASE OnConnect /\ UNCHANGED secondary
  <2>1. Deliver(Append(Owed, "online")) /\ primary' \in Sessions /\ will' \in BOOLEAN
        /\ retained' \in {"none", "online", "offline"}
    BY <1>2 DEF OnConnect, Sessions
  <2> QED
    BY <1>0, <1>1, <1>2, <2>1, DeliverOK, PeerUntouched
<1>3. CASE UNCHANGED <<retained, inbox, secondary>> /\ primary' \in Sessions /\ will' \in BOOLEAN
  <2>1. /\ inbox' \in Seq(Messages) /\ (session \notin Open => inbox' = <<>>)
        /\ Waiting => Waiting'
        /\ retained' \in {"none", "online", "offline"}
    BY <1>0, <1>3 DEF TypeOK, Waiting
  <2> QED
    BY <1>3, <2>1, PeerUntouched
<1>4. CASE StartPrimary
  <2>1. OnConnect \/ (primary' = "deaf" /\ UNCHANGED <<will, retained, inbox>>)
    BY <1>4 DEF StartPrimary
  <2>2. UNCHANGED secondary
    BY <1>4 DEF StartPrimary
  <2>3. CASE primary' = "deaf" /\ UNCHANGED <<will, retained, inbox>>
    BY <1>0, <1>3, <2>2, <2>3 DEF TypeOK, Sessions
  <2> QED
    BY <1>2, <2>1, <2>2, <2>3
<1>5. CASE ReconnectPrimary
  BY <1>2, <1>5 DEF ReconnectPrimary
<1>6. CASE LosePrimary
  BY <1>3, <1>6 DEF LosePrimary, Sessions
<1>7. CASE StallPrimary
  BY <1>0, <1>3, <1>7 DEF StallPrimary, Sessions, TypeOK
<1>8. CASE ResumePrimary
  <2>1. /\ primary' \in Sessions /\ will' \in BOOLEAN
        /\ retained' \in {"none", "online", "offline"}
        /\ UNCHANGED secondary /\ UNCHANGED will
    BY <1>0, <1>8 DEF ResumePrimary, Sessions, TypeOK
  <2>2. CASE DeliverHeartbeat
    BY <1>0, <2>1, <2>2, DeliverHeartbeatOK, PeerUntouched
  <2>3. CASE UNCHANGED inbox
    BY <1>0, <1>3, <1>8, <2>1, <2>3 DEF ResumePrimary
  <2> QED
    BY <1>8, <2>2, <2>3 DEF ResumePrimary
<1>9. CASE CrashPrimary
  BY <1>0, <1>3, <1>9 DEF CrashPrimary, Sessions, TypeOK
<1>10. CASE StopPrimary
  <2>1. /\ Deliver(<<"offline">>) /\ primary' \in Sessions /\ will' \in BOOLEAN
        /\ retained' \in {"none", "online", "offline"} /\ UNCHANGED secondary
    BY <1>0, <1>10 DEF StopPrimary, Sessions, TypeOK
  <2> QED
    BY <1>0, <1>1, <2>1, DeliverOK, PeerUntouched
<1>11. CASE PublishWill
  <2>1. /\ Deliver(Owed) /\ primary' \in Sessions /\ will' \in BOOLEAN
        /\ retained' \in {"none", "online", "offline"} /\ UNCHANGED secondary
    BY <1>0, <1>11 DEF PublishWill, Sessions, TypeOK
  <2> QED
    BY <1>0, <1>1, <2>1, DeliverOK, PeerUntouched
<1> QED
  BY <1>4, <1>5, <1>6, <1>7, <1>8, <1>9, <1>10, <1>11

LEMMA SecondarySteps ==
    ASSUME HeartbeatAssumption, IInv,
           \/ StartSecondary \/ CrashSecondary \/ LoseSecondary \/ ReconnectSecondary
           \/ StallSecondary \/ ResumeSecondary
    PROVE  IInv'
<1> USE DEF broker, peer, threads, Open, Grace
<1>0. /\ TypeOK /\ Threaded /\ Takeover /\ Standing /\ Timely
      /\ Places /\ Flags /\ Counts /\ Box
  BY Sorts DEF IInv
<1>1. Retained \in Seq(Messages)
  <2>1. CASE retained = "none"
    BY <2>1 DEF Retained
  <2>2. CASE retained # "none"
    <3>1. retained \in Messages
      BY <1>0, <2>2 DEF TypeOK, Messages
    <3> QED
      BY <2>2, <3>1 DEF Retained
  <2> QED
    BY <2>1, <2>2
<1>2. <<>> \in Seq(Messages)
  OBVIOUS
<1>3. CASE StartSecondary
  <2>1. /\ session = "down" /\ UNCHANGED broker /\ UNCHANGED threads
        /\ state' = "standby" /\ known' = FALSE /\ alive' = FALSE /\ silence' = 0
        /\ skipped' = FALSE /\ raced' = FALSE
    BY <1>3 DEF StartSecondary
  <2>2. \/ session' = "online" /\ inbox' \in Seq(Messages) /\ grace' = 0
        \/ session' = "deaf" /\ inbox' = <<>> /\ grace' = 2
    BY <1>0, <1>1, <1>3 DEF StartSecondary, TypeOK
  <2>3. session' \in Sessions /\ inbox' \in Seq(Messages) /\ grace' \in 0 .. 2
        /\ (session' \notin {"online", "stalled"} => inbox' = <<>>)
    <3>1. CASE session' = "online" /\ inbox' \in Seq(Messages) /\ grace' = 0
      BY <3>1 DEF Sessions
    <3>2. CASE session' = "deaf" /\ inbox' = <<>> /\ grace' = 2
      BY <1>2, <3>2 DEF Sessions
    <3> QED
      BY <2>2, <3>1, <3>2
  <2>4. TypeOK'
    <3>1. Places'
      BY <1>0, <2>1, <2>3 DEF Places, Sessions
    <3>2. Flags'
      BY <1>0, <2>1, <2>3 DEF Flags
    <3>3. Counts'
      BY <1>0, <2>1, <2>3, HeartbeatAssumption DEF Counts, Grace
    <3>4. Box'
      BY <1>0, <2>1, <2>3 DEF Box, Open
    <3> QED
      BY <3>1, <3>2, <3>3, <3>4, SortsNext
  <2>5. Threaded' /\ Takeover' /\ Standing' /\ Timely'
    BY <1>0, <2>1 DEF Threaded, Takeover, Standing, Timely
  <2> QED
    BY <2>4, <2>5 DEF IInv
<1>4. CASE CrashSecondary
  <2>1. /\ session' = "down" /\ inbox' = <<>> /\ UNCHANGED broker
        /\ state' = "standby" /\ known' = FALSE /\ alive' = FALSE /\ silence' = 0
        /\ mqtt' = "idle" /\ down' = "none" /\ pending' = FALSE
        /\ skipped' = FALSE /\ raced' = FALSE /\ grace' = 2
    BY <1>4 DEF CrashSecondary
  <2>2. TypeOK'
    <3>1. Places'
      BY <1>0, <1>2, <2>1 DEF Places, Sessions
    <3>2. Flags'
      BY <1>0, <1>2, <2>1 DEF Flags
    <3>3. Counts'
      BY <1>0, <1>2, <2>1, HeartbeatAssumption DEF Counts, Grace
    <3>4. Box'
      BY <1>0, <1>2, <2>1 DEF Box, Open
    <3> QED
      BY <3>1, <3>2, <3>3, <3>4, SortsNext
  <2>3. Threaded' /\ Takeover' /\ Standing' /\ Timely'
    BY <2>1 DEF Threaded, Takeover, Standing, Timely
  <2> QED
    BY <2>2, <2>3 DEF IInv
<1>5. CASE LoseSecondary
  <2>1. /\ session' = "offline" /\ inbox' = <<>> /\ UNCHANGED <<grace, skipped, raced, state>>
        /\ UNCHANGED broker /\ UNCHANGED peer /\ UNCHANGED threads
    BY <1>5 DEF LoseSecondary
  <2>2. TypeOK'
    <3>1. Places'
      BY <1>0, <1>2, <2>1 DEF Places, Sessions
    <3>2. Flags'
      BY <1>0, <1>2, <2>1 DEF Flags
    <3>3. Counts'
      BY <1>0, <1>2, <2>1, HeartbeatAssumption DEF Counts, Grace
    <3>4. Box'
      BY <1>0, <1>2, <2>1 DEF Box, Open
    <3> QED
      BY <3>1, <3>2, <3>3, <3>4, SortsNext
  <2>3. Threaded' /\ Takeover' /\ Standing' /\ Timely'
    BY <1>0, <2>1 DEF Threaded, Takeover, Standing, Timely
  <2> QED
    BY <2>2, <2>3 DEF IInv
<1>6. CASE ReconnectSecondary
  <2>1. /\ session' = "online" /\ inbox' \in Seq(Messages) /\ grace' = 0 /\ skipped' = FALSE
        /\ UNCHANGED <<raced, state>>
        /\ UNCHANGED broker /\ UNCHANGED peer /\ UNCHANGED threads
    BY <1>1, <1>6 DEF ReconnectSecondary
  <2>2. TypeOK'
    <3>1. Places'
      BY <1>0, <2>1 DEF Places, Sessions
    <3>2. Flags'
      BY <1>0, <2>1 DEF Flags
    <3>3. Counts'
      BY <1>0, <2>1, HeartbeatAssumption DEF Counts, Grace
    <3>4. Box'
      BY <1>0, <2>1 DEF Box, Open
    <3> QED
      BY <3>1, <3>2, <3>3, <3>4, SortsNext
  <2>3. Threaded' /\ Takeover' /\ Standing' /\ Timely'
    BY <1>0, <2>1 DEF Threaded, Takeover, Standing, Timely
  <2> QED
    BY <2>2, <2>3 DEF IInv
<1>7. CASE StallSecondary \/ ResumeSecondary
  <2>1. /\ session \in Open /\ session' \in Open
        /\ UNCHANGED <<inbox, grace, skipped, raced, state>>
        /\ UNCHANGED broker /\ UNCHANGED peer /\ UNCHANGED threads
    BY <1>7 DEF StallSecondary, ResumeSecondary
  <2>2. Waiting' <=> Waiting
    BY <2>1 DEF Waiting
  <2>3. TypeOK'
    <3>1. Places'
      BY <1>0, <2>1 DEF Places, Sessions
    <3>2. Flags'
      BY <1>0, <2>1 DEF Flags
    <3>3. Counts'
      BY <1>0, <2>1, HeartbeatAssumption DEF Counts, Grace
    <3>4. Box'
      BY <1>0, <2>1 DEF Box, Open
    <3> QED
      BY <3>1, <3>2, <3>3, <3>4, SortsNext
  <2>4. Threaded' /\ Takeover' /\ Standing' /\ Timely'
    BY <1>0, <2>1, <2>2 DEF Threaded, Takeover, Standing, Timely
  <2> QED
    BY <2>3, <2>4 DEF IInv
<1> QED
  BY <1>3, <1>4, <1>5, <1>6, <1>7

LEMMA ThreadSteps ==
    ASSUME HeartbeatAssumption, IInv, Callback \/ DownThread \/ CheckPeers
    PROVE  IInv'
<1> USE DEF broker, peer, threads
<1>0. TypeOK /\ Places /\ Flags /\ Counts /\ Box
  BY Sorts DEF IInv
<1>1. CASE HearHeartbeat
  <2>1. /\ inbox' \in Seq(Messages) /\ session = "online" /\ mqtt = "idle"
    BY <1>0, <1>1, HearKeeps DEF HearHeartbeat, Messages
  <2>2. /\ known' = TRUE /\ alive' = TRUE /\ silence' = 0 /\ skipped' = FALSE
        /\ mqtt' = (IF alive THEN "idle" ELSE "recovering")
        /\ UNCHANGED <<session, state, grace, down, pending, raced>> /\ UNCHANGED broker
    BY <1>1 DEF HearHeartbeat
  <2>3. TypeOK'
    <3>1. Places'
      BY <1>0, <2>1, <2>2 DEF Places, Sessions
    <3>2. Flags'
      BY <1>0, <2>1, <2>2 DEF Flags
    <3>3. Counts'
      BY <1>0, <2>1, <2>2, HeartbeatAssumption DEF Counts, Grace
    <3>4. Box'
      BY <1>0, <2>1, <2>2 DEF Box, Open
    <3> QED
      BY <3>1, <3>2, <3>3, <3>4, SortsNext
  <2>4. Threaded' /\ Takeover' /\ Timely'
    BY <2>1, <2>2 DEF IInv, Threaded, Takeover, Timely
  <2>5. Standing'
    BY <2>1, <2>2 DEF IInv, Standing
  <2> QED
    BY <2>3, <2>4, <2>5 DEF IInv
<1>2. CASE HearOnline
  <2>1. /\ inbox' \in Seq(Messages) /\ session = "online" /\ (Waiting => Waiting')
    BY <1>0, <1>2, HearKeeps DEF HearOnline, Messages
  <2> QED
    BY <1>2, <2>1 DEF HearOnline, IInv, TypeOK, Threaded, Takeover, Standing, Timely, Open
<1>3. CASE HearOffline
  <2>1. /\ inbox' \in Seq(Messages) /\ session = "online" /\ mqtt = "idle" /\ (Waiting => Waiting')
    BY <1>0, <1>3, HearKeeps DEF HearOffline, Messages
  <2> QED
    BY <1>3, <2>1 DEF HearOffline, IInv, TypeOK, Threaded, Takeover, Standing, Timely, Open
<1>4. CASE Recover
  <2>1. Waiting' <=> Waiting
    BY <1>4 DEF Recover, Waiting
  <2> QED
    BY <1>4, <2>1 DEF Recover, IInv, TypeOK, Threaded, Takeover, Standing, Timely
<1>5. CASE GoDown
  <2>1. Waiting' <=> Waiting
    BY <1>5 DEF GoDown, Waiting
  <2> QED
    BY <1>5, <2>1 DEF GoDown, PromoteIfKnown, IInv, TypeOK, Threaded, Takeover, Standing, Timely
<1>6. CASE Decide
  <2>1. Waiting' <=> Waiting
    BY <1>6 DEF Decide, Waiting
  <2> QED
    BY <1>6, <2>1 DEF Decide, PromoteIfKnown, IInv, TypeOK, Threaded, Takeover, Standing, Timely
<1>7. CASE EndDown
  <2>1. Waiting' <=> Waiting
    BY <1>7 DEF EndDown, Waiting
  <2> QED
    BY <1>7, <2>1 DEF EndDown, IInv, TypeOK, Threaded, Takeover, Standing, Timely
<1>8. CASE CheckPeers
  <2>1. Waiting' <=> Waiting
    BY <1>8 DEF CheckPeers, Waiting
  <2>2. silence > 0
    BY <1>0, <1>8, HeartbeatAssumption DEF CheckPeers, CheckDue, TypeOK
  <2> QED
    BY <1>8, <2>1, <2>2
    DEF CheckPeers, CheckDue, Running, IInv, TypeOK, Threaded, Takeover, Standing, Timely
<1> QED
  BY <1>1, <1>2, <1>3, <1>4, <1>5, <1>6, <1>7, <1>8 DEF Callback, DownThread

LEMMA TickStep ==
    ASSUME HeartbeatAssumption, IInv, Tick
    PROVE  IInv'
<1> USE DEF broker, peer, threads
<1>0. TypeOK
  BY DEF IInv
<1>1. /\ UNCHANGED <<broker, session, state, known, alive, mqtt, down, pending, raced>>
      /\ mqtt = "idle" /\ down = "none"
      /\ session = "online" => inbox = <<>>
  BY DEF Tick, Settled
<1>2. silence' \in 0 .. Threshold + 1 /\ silence' <= silence + 1
  BY <1>0, HeartbeatAssumption DEF Tick, TypeOK
<1>3. grace' \in 0 .. Grace /\ (Running /\ grace' = Grace => grace >= 1)
  BY <1>0 DEF Tick, TypeOK, Grace
<1>4. inbox' \in Seq(Messages) /\ (session \notin Open => inbox' = <<>>)
  <2>1. CASE primary = "online"
    BY <1>0, <2>1, DeliverHeartbeatOK DEF Tick
  <2>2. CASE primary # "online"
    BY <1>0, <2>2 DEF Tick, TypeOK
  <2> QED
    BY <2>1, <2>2
<1>5. skipped' \in BOOLEAN
  BY <1>0 DEF Tick, TypeOK
<1>6. TypeOK'
  BY <1>0, <1>1, <1>2, <1>3, <1>4, <1>5 DEF TypeOK
<1>7. Threaded' /\ Takeover' /\ Standing'
  BY <1>1 DEF IInv, Threaded, Takeover, Standing
<1>8. ASSUME session' \in Open, ~skipped'
      PROVE  Waiting' /\ (grace' = Grace => silence' <= 1)
  <2>1. Running /\ session \in Open
    BY <1>1, <1>8 DEF Running, Open
  <2>2. ~skipped /\ primary = "online" /\ session = "online"
    BY <1>8, <2>1 DEF Tick, Open
  <2>3. Waiting'
    BY <1>0, <2>1, <2>2, DeliverHeartbeatOK DEF Tick
  <2>4. ~Waiting
    BY <1>1, <2>2 DEF Waiting
  <2>5. grace' = Grace => silence = 0
    BY <1>3, <2>1, <2>2, <2>4 DEF IInv, Timely
  <2> QED
    BY <1>0, <1>2, <2>3, <2>5 DEF TypeOK
<1>9. Timely'
  BY <1>8 DEF Timely
<1> QED
  BY <1>6, <1>7, <1>9 DEF IInv

-----------------------------------------------------------------------------
(* The theorems                                                            *)

LEMMA InitIInv == HeartbeatAssumption /\ Init => IInv
<1> SUFFICES ASSUME HeartbeatAssumption, Init PROVE IInv
  OBVIOUS
<1>1. <<>> \in Seq(Messages)
  OBVIOUS
<1>2. TypeOK
  <2>1. Places
    BY DEF Init, Places, Sessions
  <2>2. Flags
    BY DEF Init, Flags
  <2>3. Counts
    BY DEF HeartbeatAssumption, Init, Counts, Grace
  <2>4. Box
    BY <1>1 DEF Init, Box
  <2> QED
    BY <2>1, <2>2, <2>3, <2>4, Sorts
<1>3. Threaded /\ Takeover /\ Standing /\ Timely
  BY DEF Init, Threaded, Takeover, Standing, Timely, Open
<1> QED
  BY <1>2, <1>3 DEF IInv

LEMMA StepIInv == HeartbeatAssumption /\ IInv /\ [Next]_vars => IInv'
<1> SUFFICES ASSUME HeartbeatAssumption, IInv, [Next]_vars PROVE IInv'
  OBVIOUS
<1>1. CASE Next
  BY <1>1, PrimarySteps, SecondarySteps, ThreadSteps, TickStep DEF Next, Network
<1>2. CASE UNCHANGED vars
  <2>1. Waiting' <=> Waiting
    BY <1>2 DEF vars, Waiting
  <2> QED
    BY <1>2, <2>1 DEF vars, broker, peer, threads, IInv, TypeOK, Threaded, Takeover, Standing, Timely
<1> QED
  BY <1>1, <1>2

\* The invariant that carries all of the following.
THEOREM HeartbeatInductive == Spec => []IInv
<1>1. HeartbeatAssumption
  BY HeartbeatAssumption
<1> QED
  BY <1>1, InitIInv, StepIInv, PTL DEF Spec

\* Every variable of the pair keeps its type, whatever the sessions and threads do:
\* in particular a secondary without an open session has nothing to hear.
THEOREM HeartbeatTypeCorrect == Spec => []TypeOK
<1>1. IInv => TypeOK
  BY DEF IInv
<1> QED
  BY <1>1, HeartbeatInductive, PTL

\* A declared failure always ends in a takeover (_check_peers, _handle_peer_down_safe).
THEOREM HeartbeatNoLostFailover == Spec => []NoLostFailover
<1>1. IInv => NoLostFailover
  BY DEF IInv, Takeover, NoLostFailover, AtRest
<1> QED
  BY <1>1, HeartbeatInductive, PTL

\* The secondary stands down for a primary that is back (_handle_peer_recovered),
\* except when the thread of an older declaration promotes it afterwards.
THEOREM HeartbeatStandsDown == Spec => []StandsDown
<1>1. IInv => StandsDown
  BY DEF IInv, Standing, StandsDown, AtRest
<1> QED
  BY <1>1, HeartbeatInductive, PTL

\* The grace after a reconnection is long enough: no threshold, however low, makes
\* the secondary take an outage of its own that is over for the primary's
\* (_check_peers).
THEOREM HeartbeatNoForgedDown == Spec => NoForgedDown
<1>1. IInv /\ [Next]_vars => [(CheckPeers /\ session \in Open) => skipped]_vars
  <2> SUFFICES ASSUME IInv, CheckPeers, session \in Open PROVE skipped
    OBVIOUS
  <2>1. grace = Grace /\ silence > Threshold /\ Threshold >= 1 /\ silence \in Nat
    BY HeartbeatAssumption DEF CheckPeers, CheckDue, IInv, TypeOK
  <2>2. skipped \in BOOLEAN
    BY DEF IInv, TypeOK
  <2> QED
    BY <2>1, <2>2, HeartbeatAssumption DEF IInv, Timely, Open, Grace
<1> QED
  BY <1>1, HeartbeatInductive, PTL DEF Spec, NoForgedDown
=============================================================================
