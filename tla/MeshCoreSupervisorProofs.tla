---------------------- MODULE MeshCoreSupervisorProofs ----------------------
(***************************************************************************)
(* For any number of gateways and tools and any bounds: the types and the  *)
(* lock, and the safety properties of the shared radio.  IInv adds to      *)
(* TypeOK that a session in use is alive (Held) and pulled in a shutdown   *)
(* only when every client has been told (HungUp), what a client that dials *)
(* finds (Dials), that replies on the wire are honest (Replied), and that  *)
(* the last word about the radio on its way to a gateway is true           *)
(* (Truthful).                                                             *)
(***************************************************************************)
EXTENDS MeshCoreSupervisor, TLAPS

\* TypeOK by sort.
LoopSort == loop \in {"dead", "connecting", "fetching", "running", "probing", "closing",
                     "stopping", "leaving"}
            /\ radio \in BOOLEAN /\ registered \in BOOLEAN
TaskSort == task \in [Connections -> {"idle", "locking", "sending"}]
LockSort ==
    /\ lock \in Connections \union {"nobody", "probe"}
    /\ lock = "probe" <=> loop = "probing"
    /\ \A c \in Connections : lock = c <=> task[c] = "sending"
ServeSort ==
    /\ conn \in [Clients -> {"none", "accepted", "open", "left", "closed"}]
    /\ requests \in [Clients -> Seq(1 .. MaxSends)]
    /\ serving \in [Clients -> 0 .. MaxSends]
    /\ \A c \in Clients : task[c] = "idle" <=> serving[c] = 0
WireSort == wire \in [Clients -> Seq(Frames)]
RunSort ==
    /\ run \in [Clients -> {"detached", "connecting", "wiring", "recording", "attached"}]
    /\ hello \in [Clients -> BOOLEAN] /\ reader \in [Clients -> BOOLEAN]
    /\ health \in [Clients -> BOOLEAN] /\ missed \in [Clients -> BOOLEAN]
CallSort ==
    /\ sent \in [Clients -> 0 .. MaxSends]
    /\ call \in [Clients -> {"idle", "waiting", "sent", "failed"}]
    /\ aired \in [Clients -> SUBSET (1 .. MaxSends)]
BoundSort == drops \in 0 .. MaxDrops /\ deaths \in 0 .. MaxDeaths /\ crashes \in 0 .. MaxCrashes

\* The session lives while it is used, but for a shutdown, and is gone before it is closed.
Held ==
    /\ loop \in {"fetching", "running", "probing"} => radio
    /\ loop = "closing" => ~radio
    /\ \A c \in Connections : task[c] = "sending" => radio \/ loop = "leaving"

\* A shutdown forgets the session after it has hung up on every client.
HungUp == loop = "leaving" => \A c \in Clients : conn[c] # "open"

\* Nothing is on the wire to a client that has not been greeted, and nobody but the
\* dialling thread reads before the hello, which comes first.
Dials(c) ==
    /\ conn[c] \in {"none", "left", "accepted"} => wire[c] = <<>>
    /\ run[c] \in {"detached", "connecting"} => ~reader[c]
    /\ run[c] = "connecting" /\ conn[c] = "open" => wire[c] # <<>>
    /\ run[c] = "connecting" /\ wire[c] # <<>> => Head(wire[c]) \in Hellos

\* Success on the wire is the success of a text that went on air.
Honest(c, f) == f.kind = "reply" /\ f.ok => f.id \in aired[c]
Replied(c) == \A i \in 1 .. Len(wire[c]) : Honest(c, wire[c][i])

\* The last frame about the radio says u; no frame is about the radio.
LastSays(w, u) ==
    \A i \in 1 .. Len(w) :
        w[i].kind # "reply" /\ (\A j \in 1 .. Len(w) : j > i => w[j].kind = "reply")
            => w[i].up = u
Silent(w) == \A i \in 1 .. Len(w) : w[i].kind = "reply"

\* What the client will record if nothing more arrives.
Heard(c) == IF run[c] \in {"wiring", "recording"} THEN hello[c] ELSE health[c]

Truthful(c) ==
    conn[c] = "open" /\ (run[c] = "connecting" \/ ~missed[c])
        => /\ LastSays(wire[c], registered)
           /\ Silent(wire[c]) => run[c] # "connecting" /\ Heard(c) = registered

Told(c) == call[c] = "sent" => sent[c] \in aired[c]

Fine(c) == Dials(c) /\ Replied(c) /\ Truthful(c) /\ Told(c)

IInv == TypeOK /\ Held /\ HungUp /\ \A c \in Clients : Fine(c)

-----------------------------------------------------------------------------
(* Frames and sorts                                                        *)

LEMMA Sorts ==
    TypeOK <=> /\ LoopSort /\ TaskSort /\ LockSort /\ ServeSort /\ WireSort
               /\ RunSort /\ CallSort /\ BoundSort
BY DEF TypeOK, LoopSort, TaskSort, LockSort, ServeSort, WireSort, RunSort, CallSort, BoundSort

LEMMA SortsNext ==
    TypeOK' <=> /\ LoopSort' /\ TaskSort' /\ LockSort' /\ ServeSort' /\ WireSort'
                /\ RunSort' /\ CallSort' /\ BoundSort'
BY DEF TypeOK, LoopSort, TaskSort, LockSort, ServeSort, WireSort, RunSort, CallSort, BoundSort

LEMMA HeadTail ==
    ASSUME NEW S, NEW w \in Seq(S), w # <<>>
    PROVE  Head(w) \in S /\ Tail(w) \in Seq(S)
OBVIOUS

LEMMA TailShape ==
    ASSUME NEW S, NEW w \in Seq(S), w # <<>>
    PROVE  /\ Len(w) \in Nat \ {0} /\ Len(Tail(w)) = Len(w) - 1 /\ Head(w) = w[1]
           /\ \A i \in 1 .. Len(Tail(w)) : Tail(w)[i] = w[i + 1]
OBVIOUS

LEMMA FrameKinds ==
    ASSUME NEW f \in Frames
    PROVE  /\ f.kind \in {"event", "hello", "reply"}
           /\ f.kind # "reply" => f.up \in BOOLEAN
           /\ f.kind = "reply" => f.ok \in BOOLEAN /\ f.id \in 1 .. MaxSends
           /\ f \in Hellos => f.kind = "hello" /\ f.up \in BOOLEAN
BY DEF Frames, Events, Hellos, Replies

LEMMA FramesMade ==
    /\ \A u \in BOOLEAN : [kind |-> "event", up |-> u] \in Frames
    /\ \A u \in BOOLEAN : [kind |-> "hello", up |-> u] \in Frames \intersect Hellos
    /\ \A n \in 1 .. MaxSends, ok \in BOOLEAN : [kind |-> "reply", id |-> n, ok |-> ok] \in Frames
BY DEF Frames, Events, Hellos, Replies

LEMMA AppendReply ==
    ASSUME NEW w \in Seq(Frames), NEW f \in Frames, f.kind = "reply", NEW u
    PROVE  /\ LastSays(w, u) => LastSays(Append(w, f), u)
           /\ Silent(Append(w, f)) => Silent(w)
<1> DEFINE v == Append(w, f)
<1>1. /\ Len(v) = Len(w) + 1 /\ v[Len(w) + 1] = f /\ Len(w) \in Nat
      /\ \A i \in 1 .. Len(w) : v[i] = w[i]
  OBVIOUS
<1>2. ASSUME LastSays(w, u) PROVE LastSays(v, u)
  <2> SUFFICES ASSUME NEW i \in 1 .. Len(v), v[i].kind # "reply",
                      \A j \in 1 .. Len(v) : j > i => v[j].kind = "reply"
               PROVE  v[i].up = u
    BY DEF LastSays
  <2>1. i \in 1 .. Len(w)
    BY <1>1
  <2>2. \A j \in 1 .. Len(w) : j > i => w[j].kind = "reply"
    BY <1>1
  <2> QED
    BY <1>1, <1>2, <2>1, <2>2 DEF LastSays
<1>3. ASSUME Silent(v) PROVE Silent(w)
  BY <1>1, <1>3 DEF Silent
<1> QED
  BY <1>2, <1>3

LEMMA AppendWord ==
    ASSUME NEW w \in Seq(Frames), NEW f \in Frames, f.kind # "reply"
    PROVE  LastSays(Append(w, f), f.up) /\ ~Silent(Append(w, f))
<1> DEFINE v == Append(w, f)
<1>1. Len(v) = Len(w) + 1 /\ v[Len(w) + 1] = f /\ Len(w) \in Nat
  OBVIOUS
<1>2. ~Silent(v)
  BY <1>1 DEF Silent
<1>3. LastSays(v, f.up)
  <2> SUFFICES ASSUME NEW i \in 1 .. Len(v),
                      \A j \in 1 .. Len(v) : j > i => v[j].kind = "reply"
               PROVE  v[i].up = f.up
    BY DEF LastSays
  <2>1. i = Len(w) + 1
    BY <1>1
  <2> QED
    BY <1>1, <2>1
<1> QED
  BY <1>2, <1>3

LEMMA DropHead ==
    ASSUME NEW w \in Seq(Frames), w # <<>>, NEW u
    PROVE  /\ LastSays(w, u) => LastSays(Tail(w), u)
           /\ Silent(Tail(w)) => \/ Silent(w) /\ Head(w).kind = "reply"
                                 \/ /\ Head(w).kind # "reply"
                                    /\ LastSays(w, u) => Head(w).up = u
<1> DEFINE v == Tail(w)
<1>1. /\ Len(v) = Len(w) - 1 /\ Len(w) \in Nat \ {0} /\ Head(w) = w[1]
      /\ \A i \in 1 .. Len(v) : v[i] = w[i + 1]
  OBVIOUS
<1>2. ASSUME LastSays(w, u) PROVE LastSays(v, u)
  <2> SUFFICES ASSUME NEW i \in 1 .. Len(v), v[i].kind # "reply",
                      \A j \in 1 .. Len(v) : j > i => v[j].kind = "reply"
               PROVE  v[i].up = u
    BY DEF LastSays
  <2>1. i + 1 \in 1 .. Len(w) /\ w[i + 1].kind # "reply"
    BY <1>1
  <2>2. ASSUME NEW j \in 1 .. Len(w), j > i + 1 PROVE w[j].kind = "reply"
    <3>1. j - 1 \in 1 .. Len(v) /\ j - 1 > i /\ v[j - 1] = w[j]
      BY <1>1, <2>2
    <3> QED
      BY <3>1
  <2>3. w[i + 1].up = u
    BY <1>2, <2>1, <2>2 DEF LastSays
  <2> QED
    BY <1>1, <2>3
<1>3. ASSUME Silent(v), NEW j \in 1 .. Len(w), j > 1 PROVE w[j].kind = "reply"
  <2>1. j - 1 \in 1 .. Len(v) /\ v[j - 1] = w[j]
    BY <1>1, <1>3
  <2> QED
    BY <1>3, <2>1 DEF Silent
<1>4. ASSUME Silent(v), Head(w).kind = "reply" PROVE Silent(w)
  BY <1>1, <1>3, <1>4 DEF Silent
<1>5. ASSUME Silent(v), Head(w).kind # "reply", LastSays(w, u) PROVE Head(w).up = u
  <2>1. 1 \in 1 .. Len(w)
    BY <1>1
  <2> QED
    BY <1>1, <1>3, <1>5, <2>1 DEF LastSays
<1> QED
  BY <1>2, <1>4, <1>5
-----------------------------------------------------------------------------
(* The radio and its lock                                                  *)

RadioInv == LoopSort /\ TaskSort /\ LockSort /\ Held

LEMMA RadioStep ==
    ASSUME SupervisorAssumption, RadioInv, Next
    PROVE  RadioInv'
<1> USE SupervisorAssumption DEF SupervisorAssumption
<1>a. "nobody" \notin Connections /\ "probe" \notin Connections /\ Clients \subseteq Connections
  BY DEF Connections
<1> DEFINE same == UNCHANGED <<loop, radio, registered, lock, task>>
<1>0. ASSUME same PROVE RadioInv'
  BY <1>0 DEF RadioInv, LoopSort, TaskSort, LockSort, Held
<1>1. CASE StartSupervisor
  BY <1>1 DEF StartSupervisor, serverVars, RadioInv, LoopSort, TaskSort, LockSort, Held
<1>2. CASE OpenRadio
  BY <1>2 DEF OpenRadio, serverVars, RadioInv, LoopSort, TaskSort, LockSort, Held
<1>3. CASE Register
  BY <1>3 DEF Register, RadioInv, LoopSort, TaskSort, LockSort, Held
<1>4. CASE Probe
  BY <1>a, <1>4 DEF Probe, serverVars, RadioInv, LoopSort, TaskSort, LockSort, Held
<1>5. CASE ProbeOk
  BY <1>a, <1>5 DEF ProbeOk, serverVars, RadioInv, LoopSort, TaskSort, LockSort, Held
<1>6. CASE ProbeFail
  <2>1. \A c \in Connections : task[c] # "sending"
    BY <1>a, <1>6 DEF ProbeFail, RadioInv, LockSort
  <2> QED
    BY <1>a, <1>6, <2>1 DEF ProbeFail, serverVars, RadioInv, LoopSort, TaskSort, LockSort, Held
<1>7. CASE Unregister
  <2>1. \A c \in Connections : task[c] # "sending"
    BY <1>7 DEF Unregister, RadioInv, Held
  <2> QED
    BY <1>a, <1>7, <2>1 DEF Unregister, RadioInv, LoopSort, TaskSort, LockSort, Held
<1>8. CASE Die \/ Exit
  <2>1. /\ loop' = "dead" /\ radio' = FALSE /\ registered' = FALSE /\ lock' = "nobody"
        /\ task' = [c \in Connections |-> "idle"]
    BY <1>8 DEF Die, Exit, ProcessEnds
  <2>2. \A c \in Connections : task'[c] # "sending" /\ lock' # c
    BY <1>a, <2>1
  <2> QED
    BY <2>1, <2>2 DEF RadioInv, LoopSort, TaskSort, LockSort, Held
<1>16. CASE Stop
  <2>1. UNCHANGED <<radio, registered, task>> /\ loop' = "stopping" /\ loop # "leaving"
        /\ lock' = IF lock = "probe" THEN "nobody" ELSE lock
    BY <1>16 DEF Stop, serverVars, Stopping
  <2>2. LoopSort' /\ TaskSort' /\ Held'
    BY <2>1 DEF RadioInv, LoopSort, TaskSort, Held
  <2>3. LockSort'
    BY <1>a, <2>1 DEF RadioInv, LockSort
  <2> QED
    BY <2>2, <2>3 DEF RadioInv
<1>17. CASE PullRadio
  BY <1>17 DEF PullRadio, serverVars, RadioInv, LoopSort, TaskSort, LockSort, Held
<1>9. ASSUME NEW t \in Tools, AskTool(t) PROVE RadioInv'
  <2>1. t \in Connections /\ task' = [task EXCEPT ![t] = "locking"] /\ task[t] = "idle"
        /\ UNCHANGED <<loop, radio, registered, lock>>
    BY <1>9 DEF AskTool, radioVars, Connections
  <2> QED
    BY <2>1 DEF RadioInv, LoopSort, TaskSort, LockSort, Held
<1>10. ASSUME NEW t \in Connections, task[t] = "sending", lock' = "nobody",
              task' = [task EXCEPT ![t] = "idle"], UNCHANGED <<loop, radio, registered>>
       PROVE  RadioInv'
  <2>1. lock = t
    BY <1>10 DEF RadioInv, LockSort
  <2>2. \A c \in Connections : task'[c] # "sending"
    BY <1>10, <2>1 DEF RadioInv, LockSort, TaskSort
  <2>3. loop # "probing"
    BY <1>a, <2>1 DEF RadioInv, LockSort
  <2> QED
    BY <1>a, <1>10, <2>2, <2>3 DEF RadioInv, LoopSort, TaskSort, LockSort, Held
<1>11. ASSUME NEW t \in Tools, EndTool(t) PROVE RadioInv'
  BY <1>10, <1>11 DEF EndTool, Connections
<1>12. ASSUME NEW c \in Clients, EndSend(c) PROVE RadioInv'
  BY <1>a, <1>10, <1>12 DEF EndSend
<1>13. ASSUME NEW c \in Clients, ReadRequest(c) PROVE RadioInv'
  <2>1. CASE UNCHANGED task
    BY <1>0, <1>13, <2>1 DEF ReadRequest, radioVars
  <2>2. CASE task' = [task EXCEPT ![c] = "locking"]
    <3>1. UNCHANGED <<loop, radio, registered, lock>> /\ task[c] = "idle" /\ c \in Connections
      BY <1>a, <1>13 DEF ReadRequest, radioVars
    <3> QED
      BY <2>2, <3>1 DEF RadioInv, LoopSort, TaskSort, LockSort, Held
  <2> QED
    BY <1>13, <2>1, <2>2 DEF ReadRequest
<1>14. ASSUME NEW c \in Connections, Acquire(c) PROVE RadioInv'
  <2>1. UNCHANGED <<loop, radio, registered>> /\ task[c] = "locking" /\ lock = "nobody"
    BY <1>14 DEF Acquire
  <2>2. CASE radio /\ task' = [task EXCEPT ![c] = "sending"] /\ lock' = c
    <3>1. \A d \in Connections : task'[d] = "sending" <=> d = c
      BY <1>a, <2>1, <2>2 DEF RadioInv, TaskSort, LockSort
    <3> QED
      BY <1>a, <2>1, <2>2, <3>1 DEF RadioInv, LoopSort, TaskSort, LockSort, Held
  <2>3. CASE task' = [task EXCEPT ![c] = "idle"] /\ UNCHANGED lock
    BY <1>a, <2>1, <2>3 DEF RadioInv, LoopSort, TaskSort, LockSort, Held
  <2> QED
    BY <1>14, <2>2, <2>3 DEF Acquire
<1>15. ASSUME NEW c \in Clients,
              \/ Greet(c) \/ Forget(c) \/ Air(c) \/ Attach(c) \/ Reader(c) \/ Call(c)
              \/ TimeOut(c) \/ CrashClient(c) \/ HangUp(c)
       PROVE  same
  BY <1>15 DEF HangUp, Greet, Forget, Air, Attach, Connect, ReadHello, NoHello, WireEvents, RecordHello,
               NoticeGone, Reader, ReadEvent, ReadReply, EndReader, Call, TimeOut, CrashClient,
               radioVars, serverVars
<1> QED
  BY <1>0, <1>1, <1>2, <1>3, <1>4, <1>5, <1>6, <1>7, <1>8, <1>9, <1>11, <1>12, <1>13, <1>14, <1>15,
     <1>16, <1>17
  DEF Next, Loop, Shutdown, Task

-----------------------------------------------------------------------------
(* The other sorts                                                         *)

LEMMA ServeStep ==
    ASSUME SupervisorAssumption, TypeOK, Next
    PROVE  ServeSort'
<1> USE SupervisorAssumption DEF SupervisorAssumption
<1>a. Clients \subseteq Connections /\ TaskSort /\ ServeSort /\ Clients \intersect Tools = {}
  BY Sorts DEF Connections
<1> DEFINE same == UNCHANGED <<conn, requests, task, serving>>
           Served == UNCHANGED serving /\ \A c \in Clients : task'[c] = task[c]
<1>0. ASSUME conn' \in [Clients -> {"none", "accepted", "open", "left", "closed"}],
             requests' \in [Clients -> Seq(1 .. MaxSends)], Served
      PROVE  ServeSort'
  BY <1>a, <1>0 DEF ServeSort
<1>1. ASSUME same PROVE ServeSort'
  BY <1>0, <1>1, <1>a DEF ServeSort
<1>2. CASE Die \/ Exit
  <2>1. /\ requests' = [c \in Clients |-> <<>>] /\ serving' = [c \in Clients |-> 0]
        /\ \A c \in Clients : task'[c] = "idle"
        /\ conn' \in [Clients -> {"none", "accepted", "open", "left", "closed"}]
    BY <1>a, <1>2 DEF Die, Exit, ProcessEnds, Connections, ServeSort
  <2>2. <<>> \in Seq(1 .. MaxSends) /\ 0 \in 0 .. MaxSends
    OBVIOUS
  <2> QED
    BY <2>1, <2>2 DEF ServeSort
<1>3. ASSUME NEW t \in Tools, AskTool(t) \/ EndTool(t) PROVE ServeSort'
  <2>1. UNCHANGED <<conn, requests, serving>> /\ \A c \in Clients : task'[c] = task[c]
    BY <1>a, <1>3 DEF AskTool, EndTool, TaskSort
  <2> QED
    BY <1>a, <2>1 DEF ServeSort
<1>e. ASSUME NEW c \in Clients, UNCHANGED <<conn, requests>>,
             task' = [task EXCEPT ![c] = "idle"], serving' = [serving EXCEPT ![c] = 0]
      PROVE  ServeSort'
  <2>1. serving' \in [Clients -> 0 .. MaxSends]
    BY <1>a, <1>e DEF ServeSort
  <2>2. \A d \in Clients : task'[d] = "idle" <=> serving'[d] = 0
    BY <1>a, <1>e DEF ServeSort, TaskSort
  <2> QED
    BY <1>a, <1>e, <2>1, <2>2 DEF ServeSort
<1>4. ASSUME NEW c \in Connections, Acquire(c) PROVE ServeSort'
  <2>1. UNCHANGED <<conn, requests>> /\ task[c] = "locking"
        /\ \A d \in Connections : d # c => task'[d] = task[d]
    BY <1>a, <1>4 DEF Acquire, TaskSort
  <2>2. CASE c \in Clients /\ ~radio
    BY <1>4, <1>e, <2>2 DEF Acquire
  <2>3. CASE c \in Clients /\ radio
    <3>1. task'[c] = "sending" /\ UNCHANGED serving
      BY <1>a, <1>4, <2>3 DEF Acquire, TaskSort
    <3> QED
      BY <1>a, <2>1, <3>1 DEF ServeSort
  <2>4. CASE c \notin Clients
    BY <1>a, <1>4, <2>1, <2>4 DEF Acquire, ServeSort
  <2> QED
    BY <2>2, <2>3, <2>4
<1>5. ASSUME NEW c \in Clients, EndSend(c) PROVE ServeSort'
  BY <1>5, <1>e DEF EndSend
<1>6. ASSUME NEW c \in Clients, ReadRequest(c) PROVE ServeSort'
  <2>1. /\ UNCHANGED conn /\ requests' = [requests EXCEPT ![c] = Tail(@)]
        /\ requests[c] # <<>> /\ requests[c] \in Seq(1 .. MaxSends)
    BY <1>a, <1>6 DEF ReadRequest, ServeSort
  <2>2. Tail(requests[c]) \in Seq(1 .. MaxSends) /\ Head(requests[c]) \in 1 .. MaxSends
    BY <2>1, HeadTail
  <2>3. requests' \in [Clients -> Seq(1 .. MaxSends)]
    BY <1>a, <2>1, <2>2 DEF ServeSort
  <2>4. CASE UNCHANGED <<task, serving>>
    BY <1>0, <1>a, <2>1, <2>3, <2>4 DEF ServeSort
  <2>5. CASE task' = [task EXCEPT ![c] = "locking"]
             /\ serving' = [serving EXCEPT ![c] = Head(requests[c])]
    <3>1. serving'[c] \in 1 .. MaxSends /\ serving' \in [Clients -> 0 .. MaxSends]
      BY <1>a, <2>2, <2>5 DEF ServeSort
    <3>2. \A d \in Clients : d # c => serving'[d] = serving[d] /\ task'[d] = task[d]
      BY <1>a, <2>5 DEF ServeSort, TaskSort
    <3>3. task'[c] # "idle"
      BY <1>a, <2>5 DEF TaskSort
    <3>4. ASSUME NEW d \in Clients PROVE task'[d] = "idle" <=> serving'[d] = 0
      <4>1. CASE d = c
        BY <3>1, <3>3, <4>1
      <4>2. CASE d # c
        BY <1>a, <3>2, <4>2 DEF ServeSort
      <4> QED
        BY <4>1, <4>2
    <3> QED
      BY <1>a, <2>1, <2>3, <3>1, <3>4 DEF ServeSort
  <2> QED
    BY <1>6, <2>4, <2>5 DEF ReadRequest
<1>7. ASSUME NEW c \in Clients, Call(c) PROVE ServeSort'
  <2>1. sent[c] + 1 \in 1 .. MaxSends
    BY <1>7, Sorts DEF Call, CallSort
  <2>2. requests' = [requests EXCEPT ![c] = Append(@, sent[c] + 1)] \/ UNCHANGED requests
    BY <1>7 DEF Call
  <2>3. Append(requests[c], sent[c] + 1) \in Seq(1 .. MaxSends)
    BY <1>a, <2>1 DEF ServeSort
  <2>4. requests' \in [Clients -> Seq(1 .. MaxSends)]
    BY <1>a, <2>2, <2>3 DEF ServeSort
  <2>5. UNCHANGED <<conn, task, serving>>
    BY <1>7 DEF Call
  <2> QED
    BY <1>0, <1>a, <2>4, <2>5 DEF ServeSort
<1>8. ASSUME NEW c \in Clients,
             \/ Greet(c) \/ Forget(c) \/ Connect(c) \/ NoHello(c) \/ EndReader(c) \/ CrashClient(c)
             \/ HangUp(c)
      PROVE  ServeSort'
  <2>1. conn' \in [Clients -> {"none", "accepted", "open", "left", "closed"}]
    BY <1>a, <1>8 DEF Greet, Forget, Connect, NoHello, EndReader, CrashClient, HangUp, ServeSort
  <2>2. UNCHANGED <<requests, task, serving>>
    BY <1>8 DEF Greet, Forget, Connect, NoHello, EndReader, CrashClient, HangUp
  <2> QED
    BY <1>0, <1>a, <2>1, <2>2 DEF ServeSort
<1>9. ASSUME NEW c \in Clients,
             \/ Air(c) \/ ReadHello(c) \/ WireEvents(c) \/ RecordHello(c) \/ NoticeGone(c)
             \/ ReadEvent(c) \/ ReadReply(c) \/ TimeOut(c)
      PROVE  same
  BY <1>9 DEF Air, ReadHello, WireEvents, RecordHello, NoticeGone, ReadEvent, ReadReply, TimeOut,
              serverVars
<1>10. ASSUME StartSupervisor \/ OpenRadio \/ Loop \/ Stop \/ PullRadio PROVE same
  BY <1>10 DEF Stop, PullRadio, StartSupervisor, OpenRadio, Loop, Register, Probe, ProbeOk, ProbeFail, Unregister,
               serverVars
<1> QED
  BY <1>1, <1>2, <1>3, <1>4, <1>5, <1>6, <1>7, <1>8, <1>9, <1>10
  DEF Next, Shutdown, Task, Attach, Reader
\* The three ways a frame is added.
LEMMA BroadcastWire ==
    ASSUME WireSort, NEW up \in BOOLEAN, Broadcast(up)
    PROVE  /\ WireSort'
           /\ \A c \in Clients :
                wire'[c] = IF conn[c] = "open"
                           THEN Append(wire[c], [kind |-> "event", up |-> up]) ELSE wire[c]
<1>1. [kind |-> "event", up |-> up] \in Frames
  BY FramesMade
<1>2. \A c \in Clients :
        wire'[c] = IF conn[c] = "open"
                   THEN Append(wire[c], [kind |-> "event", up |-> up]) ELSE wire[c]
  BY DEF Broadcast
<1>3. \A c \in Clients : wire'[c] \in Seq(Frames)
  <2> SUFFICES ASSUME NEW c \in Clients PROVE wire'[c] \in Seq(Frames)
    OBVIOUS
  <2>1. wire[c] \in Seq(Frames)
    BY DEF WireSort
  <2>2. Append(wire[c], [kind |-> "event", up |-> up]) \in Seq(Frames)
    BY <1>1, <2>1
  <2> QED
    BY <1>2, <2>1, <2>2
<1>4. wire' = [c \in Clients |-> wire'[c]]
  BY DEF Broadcast
<1>5. WireSort'
  BY <1>3, <1>4 DEF WireSort
<1> QED
  BY <1>2, <1>5

LEMMA ReplyWire ==
    ASSUME WireSort, NEW c \in Clients, NEW id \in 1 .. MaxSends, NEW ok \in BOOLEAN,
           Reply(c, id, ok)
    PROVE  /\ WireSort'
           /\ \A d \in Clients : d # c => wire'[d] = wire[d]
           /\ \/ /\ conn[c] = "open"
                 /\ wire'[c] = Append(wire[c], [kind |-> "reply", id |-> id, ok |-> ok])
              \/ conn[c] # "open" /\ wire'[c] = wire[c]
<1> DEFINE f == [kind |-> "reply", id |-> id, ok |-> ok]
<1>1. f \in Frames
  BY FramesMade
<1>2. CASE conn[c] = "open"
  <2>1. wire' = [wire EXCEPT ![c] = Append(wire[c], f)]
    BY <1>2 DEF Reply
  <2>2. Append(wire[c], f) \in Seq(Frames)
    BY <1>1 DEF WireSort
  <2> HIDE DEF f
  <2>3. wire'[c] = Append(wire[c], f) /\ WireSort' /\ \A d \in Clients : d # c => wire'[d] = wire[d]
    BY <2>1, <2>2 DEF WireSort
  <2> QED
    BY <1>2, <2>3 DEF f
<1>3. CASE conn[c] # "open"
  BY <1>3 DEF Reply, WireSort
<1> QED
  BY <1>2, <1>3

LEMMA GreetWire ==
    ASSUME WireSort, registered \in BOOLEAN, NEW c \in Clients, Greet(c)
    PROVE  /\ WireSort'
           /\ \A d \in Clients : d # c => wire'[d] = wire[d]
           /\ wire'[c] = Append(wire[c], [kind |-> "hello", up |-> registered])
<1> DEFINE f == [kind |-> "hello", up |-> registered]
<1>1. f \in Frames
  BY FramesMade
<1>2. Append(wire[c], f) \in Seq(Frames)
  BY <1>1 DEF WireSort
<1>3. wire' = [wire EXCEPT ![c] = Append(wire[c], f)]
  BY DEF Greet
<1> HIDE DEF f
<1>4. wire'[c] = Append(wire[c], f) /\ WireSort' /\ \A d \in Clients : d # c => wire'[d] = wire[d]
  BY <1>2, <1>3 DEF WireSort
<1> QED
  BY <1>4 DEF f

\* ... and the one way it is taken.
LEMMA PopWire ==
    ASSUME WireSort, NEW c \in Clients, wire[c] # <<>>, wire' = [wire EXCEPT ![c] = Tail(@)]
    PROVE  /\ WireSort'
           /\ Head(wire[c]) \in Frames
           /\ \A d \in Clients : d # c => wire'[d] = wire[d]
           /\ wire'[c] = Tail(wire[c])
<1>1. wire[c] \in Seq(Frames)
  BY DEF WireSort
<1>2. Head(wire[c]) \in Frames /\ Tail(wire[c]) \in Seq(Frames)
  BY <1>1, HeadTail
<1> QED
  BY <1>2 DEF WireSort

\* The answer of a task, whatever it is: ReadRequest, Acquire and EndSend.
LEMMA Answers ==
    ASSUME SupervisorAssumption, TypeOK, NEW c \in Clients,
           ReadRequest(c) \/ Acquire(c) \/ EndSend(c)
    PROVE  \/ UNCHANGED wire
           \/ \E id \in 1 .. MaxSends, ok \in BOOLEAN :
                Reply(c, id, ok) /\ (ok => id \in aired[c])
<1>0. ServeSort /\ WireSort /\ CallSort
  BY Sorts
<1>1. CASE ReadRequest(c)
  <2>1. requests[c] \in Seq(1 .. MaxSends) /\ requests[c] # <<>>
    BY <1>0, <1>1 DEF ReadRequest, ServeSort
  <2>2. Head(requests[c]) \in 1 .. MaxSends
    BY <2>1, HeadTail
  <2> QED
    BY <1>1, <2>2 DEF ReadRequest
<1>2. CASE Acquire(c)
  <2>1. serving[c] \in 1 .. MaxSends
    BY <1>0, <1>2 DEF Acquire, ServeSort, SupervisorAssumption
  <2> QED
    BY <1>2, <2>1 DEF Acquire
<1>3. CASE EndSend(c)
  <2>1. serving[c] \in 1 .. MaxSends
    BY <1>0, <1>3 DEF EndSend, ServeSort, SupervisorAssumption
  <2>2. PICK ok \in {FALSE, serving[c] \in aired[c]} : Reply(c, serving[c], ok)
    BY <1>3 DEF EndSend
  <2>3. ok \in BOOLEAN /\ (ok => serving[c] \in aired[c])
    <3>1. CASE ok = FALSE
      BY <3>1
    <3>2. CASE ok = (serving[c] \in aired[c])
      <4>1. CASE serving[c] \in aired[c]
        <5>1. (serving[c] \in aired[c]) = TRUE
          BY <4>1
        <5> QED
          BY <3>2, <4>1, <5>1
      <4>2. CASE serving[c] \notin aired[c]
        <5>1. (serving[c] \in aired[c]) = FALSE
          BY <4>2
        <5> QED
          BY <3>2, <5>1
      <4> QED
        BY <4>1, <4>2
    <3> QED
      BY <2>2, <3>1, <3>2
  <2> QED
    BY <2>1, <2>2, <2>3
<1> QED
  BY <1>1, <1>2, <1>3

LEMMA WireStep ==
    ASSUME SupervisorAssumption, TypeOK, Next
    PROVE  WireSort'
<1>0. WireSort /\ LoopSort
  BY Sorts
<1>1. ASSUME UNCHANGED wire PROVE WireSort'
  BY <1>0, <1>1 DEF WireSort
<1>2. ASSUME Register \/ Unregister PROVE WireSort'
  BY <1>0, <1>2, BroadcastWire DEF Register, Unregister
<1>3. ASSUME NEW c \in Clients, Greet(c) PROVE WireSort'
  BY <1>0, <1>3, GreetWire DEF LoopSort
<1>4. ASSUME NEW c \in Clients, ReadRequest(c) \/ Acquire(c) \/ EndSend(c) PROVE WireSort'
  BY <1>0, <1>1, <1>4, Answers, ReplyWire
<1>5. ASSUME NEW c \in Clients, ReadHello(c) \/ ReadEvent(c) \/ ReadReply(c) PROVE WireSort'
  BY <1>0, <1>5, PopWire DEF ReadHello, ReadEvent, ReadReply, Reads
<1>6. ASSUME NEW c \in Clients, CrashClient(c) PROVE WireSort'
  <2>1. wire' = [wire EXCEPT ![c] = <<>>] /\ <<>> \in Seq(Frames)
    BY <1>6 DEF CrashClient
  <2> QED
    BY <1>0, <2>1 DEF WireSort
<1>7. ASSUME NEW c \in Clients,
             \/ Forget(c) \/ Air(c) \/ Connect(c) \/ NoHello(c) \/ WireEvents(c) \/ RecordHello(c)
             \/ NoticeGone(c) \/ EndReader(c) \/ Call(c) \/ TimeOut(c)
             \/ HangUp(c)
      PROVE  UNCHANGED wire
  BY <1>7 DEF HangUp, Forget, Air, Connect, NoHello, WireEvents, RecordHello, NoticeGone, EndReader, Call,
              TimeOut, serverVars
<1>8. ASSUME \/ StartSupervisor \/ OpenRadio \/ Probe \/ ProbeOk \/ ProbeFail
             \/ Stop \/ PullRadio \/ Exit \/ Die
      PROVE  UNCHANGED wire
  BY <1>8 DEF Stop, PullRadio, Exit, ProcessEnds, StartSupervisor, OpenRadio, Probe, ProbeOk, ProbeFail, Die, serverVars
<1>9. ASSUME NEW t \in Connections, AskTool(t) \/ EndTool(t) \/ (t \notin Clients /\ Acquire(t))
      PROVE  UNCHANGED wire
  BY <1>9 DEF AskTool, EndTool, Acquire
<1> QED
  BY <1>1, <1>2, <1>3, <1>4, <1>5, <1>6, <1>7, <1>8, <1>9
  DEF Next, Loop, Shutdown, Task, Attach, Reader, Connections

LEMMA ClientStep ==
    ASSUME SupervisorAssumption, TypeOK, \A c \in Clients : Dials(c), Next
    PROVE  RunSort' /\ CallSort' /\ BoundSort'
<1> USE SupervisorAssumption DEF SupervisorAssumption
<1>0. RunSort /\ CallSort /\ BoundSort /\ WireSort /\ ServeSort
  BY Sorts
<1> DEFINE same == UNCHANGED <<attachVars, callVars, bounds>>
<1>1. ASSUME same PROVE RunSort' /\ CallSort' /\ BoundSort'
  BY <1>0, <1>1 DEF RunSort, CallSort, BoundSort, attachVars, callVars, bounds
<1>2. CASE ProbeFail \/ Stop \/ Exit \/ Die
  BY <1>0, <1>2 DEF ProbeFail, Stop, Exit, Die, ProcessEnds, attachVars, callVars, RunSort, CallSort, BoundSort
<1>3. ASSUME NEW c \in Clients, Air(c) PROVE RunSort' /\ CallSort' /\ BoundSort'
  <2>1. serving[c] \in 1 .. MaxSends
    BY <1>0, <1>3 DEF Air, ServeSort
  <2> QED
    BY <1>0, <1>3, <2>1 DEF Air, attachVars, bounds, RunSort, CallSort, BoundSort
<1>4. ASSUME NEW c \in Clients, ReadHello(c) PROVE RunSort' /\ CallSort' /\ BoundSort'
  <2>1. Head(wire[c]).up \in BOOLEAN
    BY <1>0, <1>4, FrameKinds, HeadTail DEF ReadHello, WireSort, Dials
  <2> QED
    BY <1>0, <1>4, <2>1 DEF ReadHello, callVars, bounds, RunSort, CallSort, BoundSort
<1>5. ASSUME NEW c \in Clients, ReadEvent(c) PROVE RunSort' /\ CallSort' /\ BoundSort'
  <2>1. Head(wire[c]).up \in BOOLEAN
    BY <1>0, <1>5, FrameKinds, HeadTail DEF ReadEvent, Reads, WireSort
  <2>2. health' \in [Clients -> BOOLEAN]
    BY <1>0, <1>5, <2>1 DEF ReadEvent, RunSort
  <2>3. missed' \in [Clients -> BOOLEAN]
    <3>1. (missed[c] \/ run[c] \in {"wiring", "recording"}) \in BOOLEAN
      OBVIOUS
    <3> QED
      BY <1>0, <1>5, <3>1 DEF ReadEvent, RunSort
  <2> QED
    BY <1>0, <1>5, <2>2, <2>3 DEF ReadEvent, callVars, bounds, RunSort, CallSort, BoundSort
<1>6. ASSUME NEW c \in Clients,
             Connect(c) \/ NoHello(c) \/ WireEvents(c) \/ RecordHello(c) \/ NoticeGone(c)
      PROVE  RunSort' /\ CallSort' /\ BoundSort'
  BY <1>0, <1>6 DEF Connect, NoHello, WireEvents, RecordHello, NoticeGone, callVars, bounds,
                    RunSort, CallSort, BoundSort
<1>7. ASSUME NEW c \in Clients, CrashClient(c) PROVE RunSort' /\ CallSort' /\ BoundSort'
  BY <1>0, <1>7 DEF CrashClient, RunSort, CallSort, BoundSort
<1>8. ASSUME NEW c \in Clients, ReadReply(c) \/ TimeOut(c) \/ Call(c)
      PROVE  RunSort' /\ CallSort' /\ BoundSort'
  <2>1. UNCHANGED <<attachVars, aired, bounds>>
    BY <1>8 DEF ReadReply, TimeOut, Call
  <2>2. call' \in [Clients -> {"idle", "waiting", "sent", "failed"}]
    BY <1>0, <1>8 DEF ReadReply, TimeOut, Call, CallSort
  <2>3. sent' \in [Clients -> 0 .. MaxSends]
    <3>1. CASE UNCHANGED sent
      BY <1>0, <3>1 DEF CallSort
    <3>2. CASE Call(c)
      BY <1>0, <3>2 DEF Call, CallSort
    <3> QED
      BY <1>8, <3>1, <3>2 DEF ReadReply, TimeOut
  <2> QED
    BY <1>0, <2>1, <2>2, <2>3 DEF attachVars, bounds, RunSort, CallSort, BoundSort
<1>9. ASSUME NEW c \in Clients, EndReader(c) PROVE RunSort' /\ CallSort' /\ BoundSort'
  BY <1>0, <1>9 DEF EndReader, bounds, RunSort, CallSort, BoundSort
<1>10. ASSUME NEW c \in Connections,
              AskTool(c) \/ EndTool(c) \/ Acquire(c) \/ Greet(c) \/ ReadRequest(c) \/ EndSend(c) \/ Forget(c)
              \/ HangUp(c)
       PROVE  same
  BY <1>10 DEF HangUp, AskTool, EndTool, Acquire, Greet, ReadRequest, EndSend, Forget
<1>11. ASSUME StartSupervisor \/ OpenRadio \/ Register \/ Probe \/ ProbeOk \/ Unregister \/ PullRadio PROVE same
  BY <1>11 DEF PullRadio, StartSupervisor, OpenRadio, Register, Probe, ProbeOk, Unregister
<1> QED
  BY <1>1, <1>2, <1>3, <1>4, <1>5, <1>6, <1>7, <1>8, <1>9, <1>10, <1>11
  DEF Next, Loop, Shutdown, Task, Attach, Reader, Connections
-----------------------------------------------------------------------------
(* What holds of each client                                               *)

\* Nothing of c's moves.
Still(c) ==
    /\ registered' = registered /\ wire'[c] = wire[c] /\ conn'[c] = conn[c]
    /\ run'[c] = run[c] /\ hello'[c] = hello[c] /\ reader'[c] = reader[c]
    /\ health'[c] = health[c] /\ missed'[c] = missed[c]
    /\ call'[c] = call[c] /\ sent'[c] = sent[c] /\ aired'[c] = aired[c]

LEMMA StillFine ==
    ASSUME NEW c \in Clients, Fine(c), Still(c)
    PROVE  Fine(c)'
BY DEF Fine, Still, Dials, Replied, Honest, Truthful, Heard, Told

LEMMA ReplyFine ==
    ASSUME NEW c \in Clients, WireSort, Fine(c), NEW id \in 1 .. MaxSends, NEW ok \in BOOLEAN,
           Reply(c, id, ok), ok => id \in aired[c],
           UNCHANGED <<registered, conn, attachVars, callVars>>
    PROVE  \A d \in Clients : Fine(d) => Fine(d)'
<1> USE DEF attachVars, callVars
<1>1. ASSUME NEW d \in Clients, d # c, Fine(d) PROVE Fine(d)'
  BY <1>1, ReplyWire, StillFine DEF Still
<1>2. CASE conn[c] # "open"
  BY <1>2, ReplyWire, StillFine, <1>1 DEF Still
<1>3. CASE conn[c] = "open"
  <2> DEFINE f == [kind |-> "reply", id |-> id, ok |-> ok]
  <2>1. f \in Frames /\ f.kind = "reply" /\ f.ok = ok /\ f.id = id
    BY FramesMade
  <2>2. wire'[c] = Append(wire[c], f) /\ wire[c] \in Seq(Frames)
    BY <1>3, ReplyWire DEF WireSort
  <2> HIDE DEF f
  <2>3. Dials(c)'
    BY <1>3, <2>2 DEF Fine, Dials
  <2>4. Replied(c)'
    BY <2>1, <2>2 DEF Fine, Replied, Honest
  <2>5. Truthful(c)'
    <3>1. /\ LastSays(wire[c], registered) => LastSays(wire'[c], registered)
          /\ Silent(wire'[c]) => Silent(wire[c])
      BY <2>1, <2>2, AppendReply
    <3> QED
      BY <3>1 DEF Fine, Truthful, Heard
  <2>6. Told(c)'
    BY DEF Fine, Told
  <2> QED
    BY <1>1, <2>3, <2>4, <2>5, <2>6 DEF Fine
<1> QED
  BY <1>2, <1>3

LEMMA BroadcastFine ==
    ASSUME WireSort, NEW up \in BOOLEAN, Broadcast(up), registered' = up,
           UNCHANGED <<conn, attachVars, callVars>>,
           NEW c \in Clients, Fine(c)
    PROVE  Fine(c)'
<1> USE DEF attachVars, callVars
<1>1. CASE conn[c] # "open"
  <2>1. wire'[c] = wire[c]
    BY <1>1, BroadcastWire
  <2> QED
    BY <1>1, <2>1 DEF Fine, Dials, Replied, Honest, Truthful, Told
<1>2. CASE conn[c] = "open"
  <2> DEFINE f == [kind |-> "event", up |-> up]
  <2>1. f \in Frames /\ f.kind # "reply" /\ f.up = up
    BY FramesMade
  <2>2. wire'[c] = Append(wire[c], f) /\ wire[c] \in Seq(Frames)
    BY <1>2, BroadcastWire DEF WireSort
  <2> HIDE DEF f
  <2>3. Dials(c)'
    BY <1>2, <2>2 DEF Fine, Dials
  <2>4. Replied(c)'
    BY <2>1, <2>2 DEF Fine, Replied, Honest
  <2>5. Truthful(c)'
    <3>1. LastSays(wire'[c], up) /\ ~Silent(wire'[c])
      BY <2>1, <2>2, AppendWord
    <3> QED
      BY <3>1 DEF Fine, Truthful
  <2>6. Told(c)'
    BY DEF Fine, Told
  <2> QED
    BY <2>3, <2>4, <2>5, <2>6 DEF Fine
<1> QED
  BY <1>1, <1>2

LEMMA GreetFine ==
    ASSUME WireSort, registered \in BOOLEAN, conn \in [Clients -> {"none", "accepted", "open", "left", "closed"}],
           NEW c \in Clients, Greet(c), Fine(c)
    PROVE  \A d \in Clients : Fine(d) => Fine(d)'
<1> USE DEF Greet, radioVars, attachVars, callVars
<1>1. ASSUME NEW d \in Clients, d # c, Fine(d) PROVE Fine(d)'
  BY <1>1, GreetWire, StillFine DEF Still
<1> DEFINE f == [kind |-> "hello", up |-> registered]
<1>2. f \in Frames /\ f \in Hellos /\ f.kind = "hello" /\ f.up = registered
  BY FramesMade
<1>3. wire'[c] = Append(wire[c], f) /\ wire[c] = <<>> /\ wire[c] \in Seq(Frames)
  BY GreetWire DEF WireSort, Fine, Dials
<1> HIDE DEF f
<1>4. Len(wire'[c]) = 1 /\ wire'[c][1] = f /\ Head(wire'[c]) = f /\ wire'[c] # <<>>
  BY <1>3
<1>5. conn'[c] \in {"open", "closed"}
  OBVIOUS
<1>6. Dials(c)'
  BY <1>2, <1>4, <1>5 DEF Fine, Dials
<1>7. Replied(c)'
  BY <1>2, <1>4 DEF Replied, Honest
<1>8. Truthful(c)'
  <2>1. LastSays(wire'[c], registered) /\ ~Silent(wire'[c])
    BY <1>2, <1>3, AppendWord
  <2> QED
    BY <2>1 DEF Truthful
<1>9. Told(c)'
  BY DEF Fine, Told
<1> QED
  BY <1>1, <1>6, <1>7, <1>8, <1>9 DEF Fine

\* Taking the first frame disturbs neither what the others say nor that they are honest.
LEMMA PopKeeps ==
    ASSUME WireSort, NEW c \in Clients, wire[c] # <<>>, wire' = [wire EXCEPT ![c] = Tail(@)],
           Replied(c), UNCHANGED aired
    PROVE  /\ Replied(c)'
           /\ Honest(c, Head(wire[c]))
           /\ \A u : /\ LastSays(wire[c], u) => LastSays(wire'[c], u)
                     /\ Silent(wire'[c]) => \/ Silent(wire[c]) /\ Head(wire[c]).kind = "reply"
                                            \/ /\ Head(wire[c]).kind # "reply"
                                               /\ LastSays(wire[c], u) => Head(wire[c]).up = u
<1>1. wire[c] \in Seq(Frames) /\ wire'[c] = Tail(wire[c])
  BY PopWire DEF WireSort
<1>2. Len(wire'[c]) = Len(wire[c]) - 1 /\ \A i \in 1 .. Len(wire'[c]) : wire'[c][i] = wire[c][i + 1]
  BY <1>1, TailShape
<1>3. Replied(c)'
  <2> SUFFICES ASSUME NEW i \in 1 .. Len(wire'[c]) PROVE Honest(c, wire[c][i + 1])
    BY <1>2 DEF Replied, Honest
  <2>1. i + 1 \in 1 .. Len(wire[c])
    BY <1>1, <1>2, TailShape
  <2> QED
    BY <2>1 DEF Replied
<1>4. Honest(c, Head(wire[c]))
  <2>1. 1 \in 1 .. Len(wire[c]) /\ Head(wire[c]) = wire[c][1]
    BY <1>1, TailShape
  <2> QED
    BY <2>1 DEF Replied
<1> QED
  BY <1>1, <1>3, <1>4, DropHead
LEMMA ServerFine ==
    ASSUME SupervisorAssumption, TypeOK, \A d \in Clients : Fine(d),
           NEW c \in Clients, Acquire(c) \/ Task(c) \/ Air(c)
    PROVE  \A d \in Clients : Fine(d)'
<1> USE DEF radioVars, attachVars, callVars
<1>0. WireSort /\ LoopSort /\ ServeSort /\ CallSort
  BY Sorts
<1>1. CASE ReadRequest(c) \/ Acquire(c) \/ EndSend(c)
  <2>1. UNCHANGED <<registered, conn, attachVars, callVars>>
    BY <1>1 DEF ReadRequest, Acquire, EndSend
  <2>2. CASE UNCHANGED wire
    BY <2>1, <2>2, StillFine DEF Still
  <2>3. CASE \E id \in 1 .. MaxSends, ok \in BOOLEAN : Reply(c, id, ok) /\ (ok => id \in aired[c])
    BY <1>0, <2>1, <2>3, ReplyFine
  <2> QED
    BY <1>1, <2>2, <2>3, Answers
<1>2. CASE Greet(c)
  BY <1>0, <1>2, GreetFine DEF LoopSort, ServeSort
<1>3. CASE Forget(c)
  <2>1. ASSUME NEW d \in Clients, d # c PROVE Fine(d)'
    BY <1>3, <2>1, StillFine DEF Forget, Still
  <2>2. /\ UNCHANGED <<registered, wire, attachVars, callVars>>
        /\ conn[c] = "left" /\ conn'[c] = "none"
    BY <1>0, <1>3 DEF Forget, ServeSort
  <2>3. Fine(c)'
    BY <2>2 DEF Fine, Dials, Replied, Honest, Truthful, Heard, Told
  <2> QED
    BY <2>1, <2>3
<1>4. CASE Air(c)
  <2>1. ASSUME NEW d \in Clients, d # c PROVE Fine(d)'
    BY <1>4, <2>1, StillFine DEF Air, Still, serverVars
  <2>2. /\ UNCHANGED <<registered, wire, conn, attachVars, sent, call>>
        /\ aired[c] \subseteq aired'[c]
    BY <1>0, <1>4 DEF Air, serverVars, CallSort
  <2>3. Fine(c)'
    BY <2>2 DEF Fine, Dials, Replied, Honest, Truthful, Heard, Told
  <2> QED
    BY <2>1, <2>3
<1> QED
  BY <1>1, <1>2, <1>3, <1>4 DEF Task

LEMMA AttachFine ==
    ASSUME SupervisorAssumption, TypeOK, \A d \in Clients : Fine(d),
           NEW c \in Clients, Attach(c) \/ CrashClient(c) \/ Call(c) \/ TimeOut(c)
    PROVE  \A d \in Clients : Fine(d)'
<1> USE DEF radioVars, serverVars, attachVars, callVars
<1>0. WireSort /\ RunSort /\ ServeSort /\ CallSort /\ LoopSort
  BY Sorts
<1>1. ASSUME NEW d \in Clients, d # c PROVE Fine(d)'
  <2>1. Still(d)
    BY <1>0, <1>1 DEF Still, Attach, Connect, ReadHello, NoHello, WireEvents, RecordHello,
       NoticeGone, CrashClient, Call, TimeOut, WireSort, RunSort, ServeSort, CallSort
  <2> QED
    BY <2>1, StillFine
<1>2. CASE Connect(c)
  <2>1. /\ conn'[c] = "accepted" /\ run'[c] = "connecting" /\ wire[c] = <<>> /\ ~reader[c]
        /\ UNCHANGED <<wire, reader, sent, call, aired>>
    BY <1>0, <1>2 DEF Connect, RunSort, ServeSort, Fine, Dials
  <2> QED
    BY <1>1, <2>1 DEF Fine, Dials, Replied, Honest, Truthful, Told
<1>3. CASE ReadHello(c)
  <2>1. /\ run[c] = "connecting" /\ wire[c] # <<>> /\ wire' = [wire EXCEPT ![c] = Tail(@)]
        /\ run'[c] = "wiring" /\ reader'[c] = TRUE /\ hello'[c] = Head(wire[c]).up
        /\ UNCHANGED <<registered, conn, sent, call, aired>>
    BY <1>0, <1>3 DEF ReadHello, RunSort
  <2>2. conn[c] \notin {"none", "left", "accepted"} /\ Head(wire[c]) \in Hellos
    BY <2>1 DEF Fine, Dials
  <2>3. Dials(c)'
    BY <2>1, <2>2 DEF Dials
  <2>4. Replied(c)'
    BY <1>0, <2>1, PopKeeps DEF Fine
  <2>5. Truthful(c)'
    <3>1. Head(wire[c]).kind = "hello"
      BY <2>2 DEF Hellos
    <3>2. /\ LastSays(wire[c], registered) => LastSays(wire'[c], registered)
          /\ Silent(wire'[c]) => (LastSays(wire[c], registered) => Head(wire[c]).up = registered)
      BY <1>0, <2>1, <3>1, PopKeeps DEF Fine
    <3> QED
      BY <2>1, <3>2 DEF Fine, Truthful, Heard
  <2>6. Told(c)'
    BY <2>1 DEF Fine, Told
  <2> QED
    BY <1>1, <2>3, <2>4, <2>5, <2>6 DEF Fine
<1>4. CASE NoHello(c)
  <2>1. /\ conn'[c] = "none" /\ run'[c] = "detached" /\ wire[c] = <<>> /\ ~reader[c]
        /\ UNCHANGED <<wire, reader, sent, call, aired>>
    BY <1>0, <1>4 DEF NoHello, RunSort, ServeSort, Fine, Dials
  <2> QED
    BY <1>1, <2>1 DEF Fine, Dials, Replied, Honest, Truthful, Told
<1>5. CASE WireEvents(c)
  <2>1. /\ run[c] = "wiring" /\ run'[c] = "recording"
        /\ UNCHANGED <<registered, conn, wire, hello, reader, health, missed, sent, call, aired>>
    BY <1>0, <1>5 DEF WireEvents, RunSort
  <2> QED
    BY <1>1, <2>1 DEF Fine, Dials, Replied, Honest, Truthful, Heard, Told
<1>6. CASE RecordHello(c)
  <2>1. /\ run[c] = "recording" /\ run'[c] = "attached" /\ health'[c] = hello[c]
        /\ UNCHANGED <<registered, conn, wire, reader, missed, sent, call, aired>>
    BY <1>0, <1>6 DEF RecordHello, RunSort
  <2> QED
    BY <1>1, <2>1 DEF Fine, Dials, Replied, Honest, Truthful, Heard, Told
<1>7. CASE NoticeGone(c)
  <2>1. /\ run[c] = "attached" /\ run'[c] = "detached" /\ ~reader[c]
        /\ UNCHANGED <<registered, conn, wire, hello, reader, health, missed, sent, call, aired>>
    BY <1>0, <1>7 DEF NoticeGone, RunSort
  <2> QED
    BY <1>1, <2>1 DEF Fine, Dials, Replied, Honest, Truthful, Heard, Told
<1>8. CASE CrashClient(c)
  <2>1. /\ conn'[c] \in {"left", "none"} /\ run'[c] = "detached" /\ reader'[c] = FALSE
        /\ wire'[c] = <<>> /\ call'[c] = "idle"
    BY <1>0, <1>8 DEF CrashClient, RunSort, ServeSort, CallSort, WireSort
  <2> QED
    BY <1>1, <2>1 DEF Fine, Dials, Replied, Truthful, Told
<1>9. CASE Call(c) \/ TimeOut(c)
  <2>1. /\ call'[c] # "sent"
        /\ UNCHANGED <<registered, conn, wire, run, hello, reader, health, missed, aired>>
    BY <1>0, <1>9 DEF Call, TimeOut, CallSort
  <2> QED
    BY <1>1, <2>1 DEF Fine, Dials, Replied, Honest, Truthful, Heard, Told
<1> QED
  BY <1>2, <1>3, <1>4, <1>5, <1>6, <1>7, <1>8, <1>9 DEF Attach

LEMMA ReaderFine ==
    ASSUME SupervisorAssumption, TypeOK, \A d \in Clients : Fine(d),
           NEW c \in Clients, Reader(c)
    PROVE  \A d \in Clients : Fine(d)'
<1> USE DEF radioVars, attachVars, callVars
<1>0. WireSort /\ RunSort /\ ServeSort /\ CallSort /\ LoopSort
  BY Sorts
<1>1. ASSUME NEW d \in Clients, d # c PROVE Fine(d)'
  <2>1. Still(d)
    BY <1>0, <1>1 DEF Still, Reader, ReadEvent, ReadReply, EndReader,
       WireSort, RunSort, ServeSort, CallSort
  <2> QED
    BY <2>1, StillFine
<1>2. reader[c] /\ run[c] \notin {"detached", "connecting"}
  BY DEF Reader, ReadEvent, ReadReply, EndReader, Reads, Fine, Dials
<1>3. CASE ReadEvent(c)
  <2>1. /\ wire[c] # <<>> /\ wire' = [wire EXCEPT ![c] = Tail(@)] /\ Head(wire[c]).kind = "event"
        /\ UNCHANGED <<registered, conn, run, hello, reader, sent, call, aired>>
    BY <1>3 DEF ReadEvent, Reads
  <2>2. /\ health'[c] = (IF run[c] \in {"recording", "attached"} THEN Head(wire[c]).up ELSE health[c])
        /\ missed'[c] = (missed[c] \/ run[c] \in {"wiring", "recording"})
    BY <1>0, <1>3 DEF ReadEvent, RunSort
  <2>3. Dials(c)'
    BY <1>2, <2>1 DEF Fine, Dials
  <2>4. Replied(c)'
    BY <1>0, <2>1, PopKeeps DEF Fine
  <2>5. Truthful(c)'
    <3>1. SUFFICES ASSUME conn[c] = "open", ~missed'[c]
                   PROVE  /\ LastSays(wire'[c], registered)
                          /\ Silent(wire'[c]) => Heard(c)' = registered
      BY <1>2, <2>1 DEF Truthful
    <3>2. run[c] = "attached" /\ ~missed[c]
      BY <1>0, <1>2, <2>2, <3>1 DEF RunSort
    <3>3. LastSays(wire[c], registered)
      BY <3>1, <3>2 DEF Fine, Truthful
    <3>4. /\ LastSays(wire'[c], registered)
          /\ Silent(wire'[c]) => Head(wire[c]).up = registered
      BY <1>0, <2>1, <3>3, PopKeeps DEF Fine
    <3> QED
      BY <2>1, <2>2, <3>2, <3>4 DEF Heard
  <2>6. Told(c)'
    BY <2>1 DEF Fine, Told
  <2> QED
    BY <1>1, <2>3, <2>4, <2>5, <2>6 DEF Fine
<1>4. CASE ReadReply(c)
  <2>1. /\ wire[c] # <<>> /\ wire' = [wire EXCEPT ![c] = Tail(@)] /\ Head(wire[c]).kind = "reply"
        /\ UNCHANGED <<registered, conn, run, hello, reader, health, missed, sent, aired>>
    BY <1>4 DEF ReadReply, Reads
  <2>2. call'[c] = (IF call[c] = "waiting" /\ sent[c] = Head(wire[c]).id
                    THEN IF Head(wire[c]).ok THEN "sent" ELSE "failed" ELSE call[c])
    BY <1>0, <1>4 DEF ReadReply, CallSort
  <2>3. Dials(c)'
    BY <1>2, <2>1 DEF Fine, Dials
  <2>4. Replied(c)'
    BY <1>0, <2>1, PopKeeps DEF Fine
  <2>5. Truthful(c)'
    <3>1. /\ LastSays(wire[c], registered) => LastSays(wire'[c], registered)
          /\ Silent(wire'[c]) => Silent(wire[c])
      BY <1>0, <2>1, PopKeeps DEF Fine
    <3> QED
      BY <2>1, <3>1 DEF Fine, Truthful, Heard
  <2>6. Told(c)'
    <3>1. Honest(c, Head(wire[c]))
      BY <1>0, <2>1, PopKeeps DEF Fine
    <3> QED
      BY <2>1, <2>2, <3>1 DEF Fine, Told, Honest
  <2> QED
    BY <1>1, <2>3, <2>4, <2>5, <2>6 DEF Fine
<1>5. CASE EndReader(c)
  <2>1. /\ conn'[c] = "none" /\ wire[c] = <<>> /\ reader'[c] = FALSE
        /\ UNCHANGED <<wire, run, sent, aired>> /\ (call'[c] = "sent" => call[c] = "sent")
    BY <1>0, <1>5 DEF EndReader, RunSort, ServeSort, CallSort
  <2> QED
    BY <1>1, <1>2, <2>1 DEF Fine, Dials, Replied, Honest, Truthful, Told
<1> QED
  BY <1>3, <1>4, <1>5 DEF Reader

LEMMA FineStep ==
    ASSUME SupervisorAssumption, IInv, Next
    PROVE  \A c \in Clients : Fine(c)'
<1> USE DEF radioVars, serverVars, attachVars, callVars
<1>0. /\ TypeOK /\ \A c \in Clients : Fine(c)
      /\ WireSort /\ LoopSort /\ ServeSort
  BY Sorts DEF IInv
<1>1. ASSUME UNCHANGED <<registered, wire, conn, attachVars, callVars>>
      PROVE  \A c \in Clients : Fine(c)'
  BY <1>0, <1>1, StillFine DEF Still
<1>2. ASSUME \/ StartSupervisor \/ OpenRadio \/ Probe \/ ProbeOk \/ ProbeFail
             \/ Stop \/ PullRadio
      PROVE  UNCHANGED <<registered, wire, conn, attachVars, callVars>>
  BY <1>2 DEF Stop, PullRadio, StartSupervisor, OpenRadio, Probe, ProbeOk, ProbeFail
<1>3. ASSUME Register \/ Unregister PROVE \A c \in Clients : Fine(c)'
  BY <1>0, <1>3, BroadcastFine DEF Register, Unregister
<1>4. ASSUME Die \/ Exit PROVE \A c \in Clients : Fine(c)'
  <2> SUFFICES ASSUME NEW c \in Clients PROVE Fine(c)'
    OBVIOUS
  <2>1. /\ UNCHANGED <<wire, attachVars, callVars>>
        /\ conn'[c] \in {"closed", "none"} /\ (conn'[c] = "none" => conn[c] \in {"none", "left"})
    BY <1>0, <1>4 DEF Die, Exit, ProcessEnds, ServeSort
  <2> QED
    BY <1>0, <2>1 DEF Fine, Dials, Replied, Honest, Truthful, Told
<1>5. ASSUME NEW t \in Connections, AskTool(t) \/ EndTool(t) \/ (t \notin Clients /\ Acquire(t))
      PROVE  UNCHANGED <<registered, wire, conn, attachVars, callVars>>
  BY <1>5 DEF AskTool, EndTool, Acquire
<1>6. ASSUME NEW c \in Clients, HangUp(c) PROVE \A d \in Clients : Fine(d)'
  <2>1. ASSUME NEW d \in Clients, d # c PROVE Fine(d)'
    BY <1>0, <1>6, <2>1, StillFine DEF HangUp, Still
  <2>2. /\ UNCHANGED <<registered, wire, attachVars, callVars>>
        /\ conn[c] \in {"accepted", "open"} /\ conn'[c] = "closed"
    BY <1>0, <1>6 DEF HangUp, ServeSort
  <2>3. Fine(c)'
    BY <1>0, <2>2 DEF Fine, Dials, Replied, Honest, Truthful, Told
  <2> QED
    BY <2>1, <2>3
<1> QED
  BY <1>0, <1>1, <1>2, <1>3, <1>4, <1>5, <1>6, ServerFine, AttachFine, ReaderFine
  DEF Next, Loop, Shutdown, Connections

\* Once hung up nobody is greeted into the shutdown.
LEMMA HungUpStep ==
    ASSUME SupervisorAssumption, TypeOK, HungUp, Next
    PROVE  HungUp'
<1>0. ServeSort /\ LoopSort
  BY Sorts
<1>1. ASSUME UNCHANGED <<loop, conn>> PROVE HungUp'
  BY <1>1 DEF HungUp
<1>2. ASSUME loop' # "leaving" PROVE HungUp'
  BY <1>2 DEF HungUp
<1>3. CASE \/ StartSupervisor \/ OpenRadio \/ Register \/ Probe \/ ProbeOk \/ ProbeFail
           \/ Unregister \/ Stop \/ Exit \/ Die
  BY <1>2, <1>3 DEF StartSupervisor, OpenRadio, Register, Probe, ProbeOk, ProbeFail, Unregister,
                    Stop, Exit, Die, ProcessEnds
<1>4. CASE PullRadio
  BY <1>4 DEF PullRadio, serverVars, HungUp
<1>5. ASSUME NEW c \in Clients,
             \/ Greet(c) \/ Forget(c) \/ Connect(c) \/ NoHello(c) \/ EndReader(c)
             \/ CrashClient(c) \/ HangUp(c)
      PROVE  HungUp'
  <2>1. UNCHANGED loop /\ \A d \in Clients : d # c => conn'[d] = conn[d]
    BY <1>0, <1>5 DEF Greet, Forget, Connect, NoHello, EndReader, CrashClient, HangUp, radioVars,
                      ServeSort
  <2>2. loop = "leaving" => conn'[c] # "open"
    BY <1>0, <1>5 DEF Greet, Forget, Connect, NoHello, EndReader, CrashClient, HangUp, Stopping,
                      ServeSort
  <2> QED
    BY <2>1, <2>2 DEF HungUp
<1>6. ASSUME NEW c \in Connections,
             \/ AskTool(c) \/ EndTool(c) \/ Acquire(c) \/ ReadRequest(c) \/ EndSend(c) \/ Air(c)
             \/ ReadHello(c) \/ WireEvents(c) \/ RecordHello(c) \/ NoticeGone(c) \/ ReadEvent(c)
             \/ ReadReply(c) \/ Call(c) \/ TimeOut(c)
      PROVE  UNCHANGED <<loop, conn>>
  BY <1>6 DEF AskTool, EndTool, Acquire, ReadRequest, EndSend, Air, ReadHello, WireEvents,
              RecordHello, NoticeGone, ReadEvent, ReadReply, Call, TimeOut, radioVars, serverVars
<1> QED
  BY <1>1, <1>3, <1>4, <1>5, <1>6
  DEF Next, Loop, Shutdown, Task, Attach, Reader, Connections

-----------------------------------------------------------------------------
(* The theorems                                                            *)

LEMMA InitIInv == SupervisorAssumption /\ Init => IInv
<1> SUFFICES ASSUME SupervisorAssumption, Init PROVE IInv
  OBVIOUS
<1> USE SupervisorAssumption DEF SupervisorAssumption, Init
<1>1. "nobody" \notin Connections /\ "probe" \notin Connections
  BY DEF Connections
<1>2. LoopSort /\ TaskSort /\ LockSort /\ BoundSort
  <2>1. LoopSort
    BY DEF LoopSort
  <2>2. TaskSort
    BY DEF TaskSort
  <2>3. LockSort
    BY <1>1 DEF LockSort
  <2>4. BoundSort
    BY DEF BoundSort
  <2> QED
    BY <2>1, <2>2, <2>3, <2>4
<1>3. ServeSort /\ WireSort
  <2>1. <<>> \in Seq(1 .. MaxSends) /\ <<>> \in Seq(Frames)
    OBVIOUS
  <2>2. \A c \in Clients : task[c] = "idle"
    BY DEF Connections
  <2> QED
    BY <2>1, <2>2 DEF ServeSort, WireSort
<1>4. RunSort /\ CallSort
  BY DEF RunSort, CallSort
<1>5. Held /\ HungUp
  BY DEF Held, HungUp
<1>6. \A c \in Clients : Fine(c)
  BY DEF Fine, Dials, Replied, Truthful, Told
<1> QED
  BY <1>2, <1>3, <1>4, <1>5, <1>6, Sorts DEF IInv

LEMMA StepIInv == SupervisorAssumption /\ IInv /\ [Next]_vars => IInv'
<1> SUFFICES ASSUME SupervisorAssumption, IInv, [Next]_vars PROVE IInv'
  OBVIOUS
<1>1. CASE Next
  <2>1. RadioInv
    BY Sorts DEF IInv, RadioInv
  <2>2. RadioInv' /\ ServeSort' /\ WireSort' /\ RunSort' /\ CallSort' /\ BoundSort'
    BY <1>1, <2>1, RadioStep, ServeStep, WireStep, ClientStep DEF IInv, Fine
  <2> QED
    BY <1>1, <2>2, FineStep, HungUpStep, SortsNext DEF IInv, RadioInv
<1>2. CASE UNCHANGED vars
  <2> USE DEF vars, radioVars, serverVars, attachVars, callVars, bounds
  <2>1. TypeOK'
    BY <1>2, Sorts, SortsNext
    DEF IInv, LoopSort, TaskSort, LockSort, ServeSort, WireSort, RunSort, CallSort, BoundSort
  <2>2. Held' /\ HungUp'
    BY <1>2 DEF IInv, Held, HungUp
  <2>3. \A c \in Clients : Fine(c)'
    BY <1>2, StillFine DEF IInv, Still
  <2> QED
    BY <2>1, <2>2, <2>3 DEF IInv
<1> QED
  BY <1>1, <1>2

\* The invariant that carries all of the following.
THEOREM SupervisorInductive == Spec => []IInv
<1>1. SupervisorAssumption
  BY SupervisorAssumption
<1> QED
  BY <1>1, InitIInv, StepIInv, PTL DEF Spec

\* Types, and the lock of the radio is held by exactly the command or probe under way
\* (_meshcore_lock, whatever the supervisor's tasks and the deaths of both sides).
THEOREM SupervisorTypeCorrect == Spec => []TypeOK
<1>1. IInv => TypeOK
  BY DEF IInv
<1> QED
  BY <1>1, SupervisorInductive, PTL

\* Commands and the probe take turns on a session that lives, and one that a clean stop
\* cuts off has no client waiting (_invoke, _probe_radio, _disconnect_radio, run).
THEOREM SupervisorCommandsTakeTurns == Spec => []CommandsTakeTurns
<1>1. IInv => CommandsTakeTurns
  <2> SUFFICES ASSUME IInv PROVE CommandsTakeTurns
    OBVIOUS
  <2>1. ASSUME NEW w \in Users PROVE w = lock /\ (radio \/ loop = "leaving")
    <3>1. CASE w \in Connections /\ task[w] = "sending"
      BY <3>1 DEF IInv, TypeOK, Held
    <3>2. CASE loop = "probing" /\ w = "probe"
      BY <3>2 DEF IInv, TypeOK, Held
    <3> QED
      BY <2>1, <3>1, <3>2 DEF Users
  <2>2. ASSUME NEW c \in Clients, task[c] = "sending", ~radio PROVE conn[c] # "open"
    <3>1. c \in Connections
      BY DEF Connections
    <3> QED
      BY <2>2, <3>1 DEF IInv, Held, HungUp
  <2> QED
    BY <2>1, <2>2 DEF CommandsTakeTurns
<1> QED
  BY <1>1, SupervisorInductive, PTL

\* A send that is reported as sent went on air (send_text, _dispatch_line).
THEOREM SupervisorHonestSent == Spec => []HonestSent
<1>1. IInv => HonestSent
  BY DEF IInv, Fine, Told, HonestSent
<1> QED
  BY <1>1, SupervisorInductive, PTL

\* The health record agrees with the supervisor once everything has arrived, unless an
\* event came before the handler listened (_record_hello, _on_connection_state).
THEOREM SupervisorHealthHonest == Spec => []HealthHonest
<1>1. IInv => HealthHonest
  <2> SUFFICES ASSUME IInv, NEW c \in Clients,
                      run[c] = "attached", conn[c] = "open", wire[c] = <<>>, ~missed[c]
               PROVE  health[c] = registered
    BY DEF HealthHonest
  <2>1. Silent(wire[c])
    BY DEF Silent
  <2> QED
    BY <2>1 DEF IInv, Fine, Truthful, Heard
<1> QED
  BY <1>1, SupervisorInductive, PTL
=============================================================================
