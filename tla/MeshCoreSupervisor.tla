------------------------- MODULE MeshCoreSupervisor -------------------------
(***************************************************************************)
(* One process owns the MeshCore radio (supervisor/meshcore_radio.py), the *)
(* gateways and tools that want to use it connect through a Unix socket    *)
(* (utils/meshcore_supervisor_client.py), each with a handler that sends   *)
(* text and keeps its process's health record of the radio                 *)
(* (gateway/meshcore_supervisor_handler.py).                               *)
(*                                                                         *)
(* The supervisor is one asyncio loop: what happens between two awaits is  *)
(* one step.  Its tasks are the radio loop and one task per connection.  A *)
(* client process has three threads: the handler's run_loop, which         *)
(* attaches and reattaches, the reader, and one that sends.                *)
(*                                                                         *)
(* Requests of one connection are numbered over the life of the client     *)
(* (`sent'), which stands for (client object, request id).  The only       *)
(* command modelled is send_message; the other ones differ in that nothing *)
(* goes on air.                                                            *)
(***************************************************************************)
EXTENDS Integers, Sequences, FiniteSets

CONSTANTS
    Clients,        \* gateways: processes with a handler
    Tools,          \* other clients, of which only the commands are modelled
    MaxSends,       \* bound: calls of one client
    MaxDrops,       \* bound: health probes that fail
    MaxDeaths,      \* bound: deaths and stops of the supervisor
    MaxCrashes,     \* bound: deaths of clients
    MaxFaults       \* bound: all of these together

ASSUME SupervisorAssumption ==
    /\ Clients \intersect Tools = {}
    /\ {"nobody", "probe"} \intersect (Clients \union Tools) = {}
    /\ MaxSends \in Nat /\ MaxDrops \in Nat /\ MaxDeaths \in Nat /\ MaxCrashes \in Nat
    /\ MaxFaults \in Nat

VARIABLES
    loop,       \* the radio loop: where it awaits; "stopping" and "leaving" are run's
                \* shutdown before and after it forgets the session; "dead" without a supervisor
    radio,      \* _meshcore is a session
    registered, \* the connection manager's has_persistent
    lock,       \* _meshcore_lock: "nobody", "probe" or the client or tool served
    conn,       \* per client: its connection as the supervisor has it
    requests,   \* per client: numbers of requests written and not yet read
    task,       \* per client and tool: its connection's task: idle, locking, sending
    serving,    \* per client: the request the task is at, 0 between requests
    wire,       \* per client: frames to it, in order
    run,        \* per client: the handler's run_loop
    hello,      \* per client: what the hello frame said of the radio, until it is recorded
    reader,     \* per client: the reader thread runs (_connected of the client object)
    health,     \* per client: record_connection_event's last word on the radio
    sent,       \* per client: number of its last call
    call,       \* per client: how that call stands
    aired,      \* history, per client: calls whose text went on air
    missed,     \* history, per client: an event came before this attachment's handler was in place
    drops, deaths, crashes      \* bounds

radioVars  == <<loop, radio, registered, lock>>
serverVars == <<conn, requests, task, serving, wire>>
attachVars == <<run, hello, reader, health, missed>>
callVars   == <<sent, call, aired>>
bounds     == <<drops, deaths, crashes>>
vars       == <<radioVars, serverVars, attachVars, callVars, bounds>>

Events  == [kind : {"event"}, up : BOOLEAN]
Hellos  == [kind : {"hello"}, up : BOOLEAN]
Replies == [kind : {"reply"}, id : 1 .. MaxSends, ok : BOOLEAN]
Frames  == Events \union Hellos \union Replies

Connections == Clients \union Tools

TypeOK ==
    /\ loop \in {"dead", "connecting", "fetching", "running", "probing", "closing",
                 "stopping", "leaving"}
    /\ radio \in BOOLEAN /\ registered \in BOOLEAN
    /\ lock \in Connections \union {"nobody", "probe"}
    /\ lock = "probe" <=> loop = "probing"
    /\ \A c \in Connections : lock = c <=> task[c] = "sending"
    /\ conn \in [Clients -> {"none", "accepted", "open", "left", "closed"}]
    /\ requests \in [Clients -> Seq(1 .. MaxSends)]
    /\ task \in [Connections -> {"idle", "locking", "sending"}]
    /\ serving \in [Clients -> 0 .. MaxSends]
    /\ \A c \in Clients : task[c] = "idle" <=> serving[c] = 0
    /\ wire \in [Clients -> Seq(Frames)]
    /\ run \in [Clients -> {"detached", "connecting", "wiring", "recording", "attached"}]
    /\ hello \in [Clients -> BOOLEAN] /\ reader \in [Clients -> BOOLEAN]
    /\ health \in [Clients -> BOOLEAN]
    /\ sent \in [Clients -> 0 .. MaxSends]
    /\ call \in [Clients -> {"idle", "waiting", "sent", "failed"}]
    /\ aired \in [Clients -> SUBSET (1 .. MaxSends)]
    /\ missed \in [Clients -> BOOLEAN]
    /\ drops \in 0 .. MaxDrops /\ deaths \in 0 .. MaxDeaths /\ crashes \in 0 .. MaxCrashes

Init ==
    /\ loop = "dead" /\ radio = FALSE /\ registered = FALSE /\ lock = "nobody"
    /\ conn = [c \in Clients |-> "none"]
    /\ requests = [c \in Clients |-> <<>>]
    /\ task = [c \in Connections |-> "idle"] /\ serving = [c \in Clients |-> 0]
    /\ wire = [c \in Clients |-> <<>>]
    /\ run = [c \in Clients |-> "detached"]
    /\ hello = [c \in Clients |-> FALSE] /\ reader = [c \in Clients |-> FALSE]
    /\ health = [c \in Clients |-> FALSE]
    /\ sent = [c \in Clients |-> 0] /\ call = [c \in Clients |-> "idle"]
    /\ aired = [c \in Clients |-> {}]
    /\ missed = [c \in Clients |-> FALSE]
    /\ drops = 0 /\ deaths = 0 /\ crashes = 0

\* Bound: something may still fail.
MayFail == drops + deaths + crashes < MaxFaults

-----------------------------------------------------------------------------
(* The supervisor: radio loop                                              *)

\* _broadcast_event("connection_state"): every connection that has had its hello.
Broadcast(up) ==
    wire' = [c \in Clients |->
               IF conn[c] = "open" THEN Append(wire[c], [kind |-> "event", up |-> up]) ELSE wire[c]]

StartSupervisor ==
    /\ loop = "dead"
    /\ loop' = "connecting"
    /\ UNCHANGED <<radio, registered, lock, serverVars, attachVars, callVars, bounds>>

\* _connect_and_register: create_serial returns, clients may use the session from now
\* on, and start_auto_message_fetching, which uses it too, is awaited without the lock.
OpenRadio ==
    /\ loop = "connecting"
    /\ loop' = "fetching"
    /\ radio' = TRUE
    /\ UNCHANGED <<registered, lock, serverVars, attachVars, callVars, bounds>>

\* Its rest: register_persistent, then the event, without an await between them.
Register ==
    /\ loop = "fetching"
    /\ loop' = "running"
    /\ registered' = TRUE
    /\ Broadcast(TRUE)
    /\ UNCHANGED <<radio, lock, conn, requests, task, serving, attachVars, callVars, bounds>>

\* _probe_radio, once it has the lock.
Probe ==
    /\ loop = "running" /\ lock = "nobody"
    /\ loop' = "probing"
    /\ lock' = "probe"
    /\ UNCHANGED <<radio, registered, serverVars, attachVars, callVars, bounds>>

ProbeOk ==
    /\ loop = "probing"
    /\ loop' = "running"
    /\ lock' = "nobody"
    /\ UNCHANGED <<radio, registered, serverVars, attachVars, callVars, bounds>>

\* Faulty: _disconnect_radio awaits the disconnect before it forgets the session.
ProbeFailLate ==
    /\ loop = "probing" /\ drops < MaxDrops /\ MayFail
    /\ loop' = "closing"
    /\ lock' = "nobody"
    /\ drops' = drops + 1
    /\ UNCHANGED <<radio, registered, serverVars, attachVars, callVars, deaths, crashes>>

\* The lock is released and _disconnect_radio forgets the session before anybody
\* who waited for the lock runs; then it awaits the session's disconnect.
ProbeFail ==
    /\ loop = "probing" /\ drops < MaxDrops /\ MayFail
    /\ loop' = "closing"
    /\ lock' = "nobody"
    /\ radio' = FALSE
    /\ drops' = drops + 1
    /\ UNCHANGED <<registered, serverVars, attachVars, callVars, deaths, crashes>>

\* unregister_persistent, then the event; the loop backs off and connects again.
Unregister ==
    /\ loop = "closing"
    /\ loop' = "connecting"
    /\ radio' = FALSE
    /\ registered' = FALSE
    /\ Broadcast(FALSE)
    /\ UNCHANGED <<lock, conn, requests, task, serving, attachVars, callVars, bounds>>

Stopping == loop \in {"stopping", "leaving"}

\* SIGTERM: run wakes and cancels the radio loop wherever it awaits.
Stop ==
    /\ loop # "dead" /\ ~Stopping /\ deaths < MaxDeaths /\ MayFail
    /\ deaths' = deaths + 1
    /\ loop' = "stopping"
    /\ lock' = IF lock = "probe" THEN "nobody" ELSE lock
    /\ UNCHANGED <<radio, registered, serverVars, attachVars, callVars, drops, crashes>>

\* _close_clients, one after the other; what a task is at goes on.
HangUp(c) ==
    /\ loop = "stopping" /\ conn[c] \in {"accepted", "open"}
    /\ conn' = [conn EXCEPT ![c] = "closed"]
    /\ UNCHANGED <<radioVars, requests, task, serving, wire, attachVars, callVars, bounds>>

\* _disconnect_radio, without the lock: a command may be on the session.
PullRadio ==
    /\ loop = "stopping" /\ \A c \in Clients : conn[c] # "open"
    /\ loop' = "leaving"
    /\ radio' = FALSE
    /\ UNCHANGED <<registered, lock, serverVars, attachVars, callVars, bounds>>

\* Faulty: the session is torn down before the clients are told.
PullRadioFirst ==
    /\ loop = "stopping"
    /\ loop' = "leaving"
    /\ radio' = FALSE
    /\ UNCHANGED <<registered, lock, serverVars, attachVars, callVars, bounds>>

\* Every connection ends with the process, whatever a task was at.
ProcessEnds ==
    /\ loop' = "dead" /\ radio' = FALSE /\ registered' = FALSE /\ lock' = "nobody"
    /\ conn' = [c \in Clients |->
                  IF conn[c] \in {"accepted", "open", "closed"} THEN "closed" ELSE "none"]
    /\ requests' = [c \in Clients |-> <<>>]
    /\ task' = [c \in Connections |-> "idle"] /\ serving' = [c \in Clients |-> 0]
    /\ UNCHANGED <<wire, attachVars, callVars, drops, crashes>>

\* The session's disconnect and the server's end are awaited, run returns.
Exit == loop = "leaving" /\ ProcessEnds /\ UNCHANGED deaths

\* Killed.
Die ==
    /\ loop # "dead" /\ deaths < MaxDeaths /\ MayFail
    /\ deaths' = deaths + 1
    /\ ProcessEnds

-----------------------------------------------------------------------------
(* The supervisor: the task of one connection                              *)

\* A tool's request, where _invoke finds a session.
AskTool(t) ==
    /\ task[t] = "idle" /\ radio /\ ~Stopping
    /\ task' = [task EXCEPT ![t] = "locking"]
    /\ UNCHANGED <<radioVars, conn, requests, serving, wire, attachVars, callVars, bounds>>

\* Its command returns, fails or times out.
EndTool(t) ==
    /\ task[t] = "sending"
    /\ task' = [task EXCEPT ![t] = "idle"]
    /\ lock' = "nobody"
    /\ UNCHANGED <<loop, radio, registered, conn, requests, serving, wire, attachVars, callVars, bounds>>

\* _handle_client: joins _clients and writes the hello, without an await between; in
\* a shutdown it hangs up at once.
Greet(c) ==
    /\ conn[c] = "accepted"
    /\ conn' = [conn EXCEPT ![c] = IF Stopping THEN "closed" ELSE "open"]
    /\ wire' = [wire EXCEPT ![c] = Append(@, [kind |-> "hello", up |-> registered])]
    /\ UNCHANGED <<radioVars, requests, task, serving, attachVars, callVars, bounds>>

\* A reply to somebody who has left goes nowhere.
Reply(c, id, ok) ==
    wire' = IF conn[c] = "open"
            THEN [wire EXCEPT ![c] = Append(@, [kind |-> "reply", id |-> id, ok |-> ok])]
            ELSE wire

\* readline, and _invoke up to the lock: without a session the answer is an error.
\* Nothing is read any more in a shutdown.
ReadRequest(c) ==
    /\ ~Stopping
    /\ conn[c] \in {"open", "left"} /\ task[c] = "idle" /\ requests[c] # <<>>
    /\ requests' = [requests EXCEPT ![c] = Tail(@)]
    /\ \/ /\ radio
          /\ task' = [task EXCEPT ![c] = "locking"]
          /\ serving' = [serving EXCEPT ![c] = Head(requests[c])]
          /\ UNCHANGED wire
       \/ /\ ~radio
          /\ Reply(c, Head(requests[c]), FALSE)
          /\ UNCHANGED <<task, serving>>
    /\ UNCHANGED <<radioVars, conn, attachVars, callVars, bounds>>

\* The lock; _meshcore is read again under it.
Acquire(c) ==
    /\ task[c] = "locking" /\ lock = "nobody"
    /\ \/ /\ radio
          /\ task' = [task EXCEPT ![c] = "sending"] /\ lock' = c
          /\ UNCHANGED <<serving, wire>>
       \/ /\ ~radio
          /\ task' = [task EXCEPT ![c] = "idle"]
          /\ IF c \in Clients
             THEN serving' = [serving EXCEPT ![c] = 0] /\ Reply(c, serving[c], FALSE)
             ELSE UNCHANGED <<serving, wire>>
          /\ UNCHANGED lock
    /\ UNCHANGED <<loop, radio, registered, conn, requests, attachVars, callVars, bounds>>

\* The radio transmits.
Air(c) ==
    /\ task[c] = "sending"
    /\ serving[c] \notin aired[c]
    /\ aired' = [aired EXCEPT ![c] = @ \union {serving[c]}]
    /\ UNCHANGED <<radioVars, serverVars, attachVars, sent, call, bounds>>

\* _send_message ends: with success only if the companion accepted the text, with an
\* error if it refused, the transmit guard did, or 10 s passed, on air or not.
EndSend(c) ==
    /\ task[c] = "sending"
    /\ task' = [task EXCEPT ![c] = "idle"] /\ serving' = [serving EXCEPT ![c] = 0]
    /\ lock' = "nobody"
    /\ \E ok \in {FALSE, serving[c] \in aired[c]} : Reply(c, serving[c], ok)
    /\ UNCHANGED <<loop, radio, registered, conn, requests, attachVars, callVars, bounds>>

\* End of file on a connection whose client has gone, once its requests are read.
Forget(c) ==
    /\ conn[c] = "left" /\ task[c] = "idle" /\ requests[c] = <<>>
    /\ conn' = [conn EXCEPT ![c] = "none"]
    /\ UNCHANGED <<radioVars, requests, task, serving, wire, attachVars, callVars, bounds>>

-----------------------------------------------------------------------------
(* A client: the handler's run_loop                                        *)

\* connect: the socket.  A client that has left connects again when the supervisor
\* has let its old connection go: the two overlap like those of two clients.
Connect(c) ==
    /\ run[c] = "detached" /\ conn[c] = "none" /\ loop # "dead" /\ ~Stopping
    /\ run' = [run EXCEPT ![c] = "connecting"]
    /\ conn' = [conn EXCEPT ![c] = "accepted"]
    /\ UNCHANGED <<radioVars, requests, task, serving, wire, hello, reader, health, missed,
                   callVars, bounds>>

\* The hello is read inline; the reader thread starts.
ReadHello(c) ==
    /\ run[c] = "connecting" /\ wire[c] # <<>>
    /\ run' = [run EXCEPT ![c] = "wiring"]
    /\ hello' = [hello EXCEPT ![c] = Head(wire[c]).up]
    /\ wire' = [wire EXCEPT ![c] = Tail(@)]
    /\ reader' = [reader EXCEPT ![c] = TRUE]
    /\ missed' = [missed EXCEPT ![c] = FALSE]
    /\ UNCHANGED <<radioVars, conn, requests, task, serving, health, callVars, bounds>>

\* "connection closed before hello".
NoHello(c) ==
    /\ run[c] = "connecting" /\ wire[c] = <<>> /\ conn[c] = "closed"
    /\ run' = [run EXCEPT ![c] = "detached"]
    /\ conn' = [conn EXCEPT ![c] = "none"]
    /\ UNCHANGED <<radioVars, requests, task, serving, wire, hello, reader, health, missed,
                   callVars, bounds>>

\* The handler's connect: on_event for every kind, _client, _connected.
WireEvents(c) ==
    /\ run[c] = "wiring"
    /\ run' = [run EXCEPT ![c] = "recording"]
    /\ UNCHANGED <<radioVars, serverVars, hello, reader, health, missed, callVars, bounds>>

\* Faulty: attached is taken for connected.
RecordAttached(c) ==
    /\ run[c] = "recording"
    /\ run' = [run EXCEPT ![c] = "attached"]
    /\ health' = [health EXCEPT ![c] = TRUE] /\ hello' = [hello EXCEPT ![c] = FALSE]
    /\ UNCHANGED <<radioVars, serverVars, reader, missed, callVars, bounds>>

\* ... and what the hello said becomes the health record.
RecordHello(c) ==
    /\ run[c] = "recording"
    /\ run' = [run EXCEPT ![c] = "attached"]
    /\ health' = [health EXCEPT ![c] = hello[c]] /\ hello' = [hello EXCEPT ![c] = FALSE]
    /\ UNCHANGED <<radioVars, serverVars, reader, missed, callVars, bounds>>

\* run_loop's look at client.connected.  The health record stays as it was.
NoticeGone(c) ==
    /\ run[c] = "attached" /\ ~reader[c]
    /\ run' = [run EXCEPT ![c] = "detached"]
    /\ UNCHANGED <<radioVars, serverVars, hello, reader, health, missed, callVars, bounds>>

\* The process ends; what it has written is still read by the supervisor.
CrashClient(c) ==
    /\ run[c] # "detached" /\ crashes < MaxCrashes /\ MayFail
    /\ crashes' = crashes + 1
    /\ run' = [run EXCEPT ![c] = "detached"]
    /\ reader' = [reader EXCEPT ![c] = FALSE]
    /\ hello' = [hello EXCEPT ![c] = FALSE] /\ health' = [health EXCEPT ![c] = FALSE]
    /\ missed' = [missed EXCEPT ![c] = FALSE]
    /\ call' = [call EXCEPT ![c] = "idle"]
    /\ conn' = [conn EXCEPT ![c] = IF @ \in {"accepted", "open"} THEN "left" ELSE "none"]
    /\ wire' = [wire EXCEPT ![c] = <<>>]
    /\ UNCHANGED <<radioVars, requests, task, serving, sent, aired, drops, deaths>>

-----------------------------------------------------------------------------
(* A client: the reader thread                                             *)

Reads(c) == reader[c] /\ wire[c] # <<>>

\* _fire_event: nobody listens before WireEvents.
ReadEvent(c) ==
    /\ Reads(c) /\ Head(wire[c]).kind = "event"
    /\ wire' = [wire EXCEPT ![c] = Tail(@)]
    /\ health' = [health EXCEPT ![c] =
                    IF run[c] \in {"recording", "attached"} THEN Head(wire[c]).up ELSE @]
    /\ missed' = [missed EXCEPT ![c] = @ \/ run[c] \in {"wiring", "recording"}]
    /\ UNCHANGED <<radioVars, conn, requests, task, serving, run, hello, reader, callVars, bounds>>

\* Faulty: a reply goes to whoever waits.
ReadReplyAny(c) ==
    /\ Reads(c) /\ Head(wire[c]).kind = "reply"
    /\ wire' = [wire EXCEPT ![c] = Tail(@)]
    /\ call' = [call EXCEPT ![c] =
                  IF call[c] = "waiting" THEN IF Head(wire[c]).ok THEN "sent" ELSE "failed" ELSE @]
    /\ UNCHANGED <<radioVars, conn, requests, task, serving, attachVars, sent, aired, bounds>>

\* _dispatch_line: a reply to a call that has timed out finds no queue.
ReadReply(c) ==
    /\ Reads(c) /\ Head(wire[c]).kind = "reply"
    /\ wire' = [wire EXCEPT ![c] = Tail(@)]
    /\ call' = [call EXCEPT ![c] =
                  IF call[c] = "waiting" /\ sent[c] = Head(wire[c]).id
                  THEN IF Head(wire[c]).ok THEN "sent" ELSE "failed"
                  ELSE @]
    /\ UNCHANGED <<radioVars, conn, requests, task, serving, attachVars, sent, aired, bounds>>

\* Faulty: the reader ends without waking the callers.
EndReaderSilently(c) ==
    /\ reader[c] /\ wire[c] = <<>> /\ conn[c] = "closed"
    /\ reader' = [reader EXCEPT ![c] = FALSE]
    /\ conn' = [conn EXCEPT ![c] = "none"]
    /\ missed' = [missed EXCEPT ![c] = FALSE]
    /\ UNCHANGED <<radioVars, requests, task, serving, wire, run, hello, health, callVars, bounds>>

\* End of file: _reader_loop's finally wakes the caller with an error.
EndReader(c) ==
    /\ reader[c] /\ wire[c] = <<>> /\ conn[c] = "closed"
    /\ reader' = [reader EXCEPT ![c] = FALSE]
    /\ conn' = [conn EXCEPT ![c] = "none"]
    /\ missed' = [missed EXCEPT ![c] = FALSE]
    /\ call' = [call EXCEPT ![c] = IF @ = "waiting" THEN "failed" ELSE @]
    /\ UNCHANGED <<radioVars, requests, task, serving, wire, run, hello, health, sent, aired, bounds>>

-----------------------------------------------------------------------------
(* A client: the thread that sends                                         *)

\* send_text: refused at once unless attached; a dead socket is an error at once.
Call(c) ==
    /\ call[c] # "waiting" /\ sent[c] < MaxSends
    /\ run[c] \in {"recording", "attached"} /\ reader[c]
    /\ sent' = [sent EXCEPT ![c] = @ + 1]
    /\ \/ /\ conn[c] = "open"
          /\ requests' = [requests EXCEPT ![c] = Append(@, sent[c] + 1)]
          /\ call' = [call EXCEPT ![c] = "waiting"]
       \/ /\ conn[c] = "closed"
          /\ call' = [call EXCEPT ![c] = "failed"]
          /\ UNCHANGED requests
    /\ UNCHANGED <<radioVars, conn, task, serving, wire, attachVars, aired, bounds>>

\* SupervisorTimeout: the request stays where it is.
TimeOut(c) ==
    /\ call[c] = "waiting"
    /\ call' = [call EXCEPT ![c] = "failed"]
    /\ UNCHANGED <<radioVars, serverVars, attachVars, sent, aired, bounds>>

-----------------------------------------------------------------------------
Loop     == Register \/ Probe \/ ProbeOk \/ ProbeFail \/ Unregister
Shutdown == (\E c \in Clients : HangUp(c)) \/ PullRadio \/ Exit

Task(c)   == Greet(c) \/ ReadRequest(c) \/ EndSend(c) \/ Forget(c)
Attach(c) == Connect(c) \/ ReadHello(c) \/ NoHello(c) \/ WireEvents(c) \/ RecordHello(c) \/ NoticeGone(c)
Reader(c) == ReadEvent(c) \/ ReadReply(c) \/ EndReader(c)

Next ==
    \/ StartSupervisor \/ OpenRadio \/ Loop \/ Stop \/ Shutdown \/ Die
    \/ \E t \in Tools : AskTool(t) \/ EndTool(t)
    \/ \E c \in Connections : Acquire(c)
    \/ \E c \in Clients :
         Task(c) \/ Air(c) \/ Attach(c) \/ Reader(c) \/ Call(c) \/ TimeOut(c) \/ CrashClient(c)

Spec == Init /\ [][Next]_vars

\* Tasks and threads run, every command ends, the lock is handed on in turn; no radio
\* has to answer, and nobody has to start, send, time out or die.
FairSpec ==
    /\ Spec
    /\ WF_vars(Loop \/ Shutdown)
    /\ \A c \in Clients :
         WF_vars(Task(c)) /\ SF_vars(Acquire(c)) /\ WF_vars(Attach(c)) /\ WF_vars(Reader(c))
    /\ \A t \in Tools : WF_vars(EndTool(t)) /\ SF_vars(Acquire(t))

-----------------------------------------------------------------------------
(* Properties                                                              *)

\* Who uses the radio under _meshcore_lock, and who does at all.
Users    == {c \in Connections : task[c] = "sending"} \union (IF loop = "probing" THEN {"probe"} ELSE {})
AllUsers == Users \union (IF loop = "fetching" THEN {"fetch"} ELSE {})

\* Commands and the probe take turns, and the session they use lives until they are
\* done: _disconnect_radio takes no lock, and yet a lost session is never pulled from
\* under a command, nor does a waiting command start on it.  A clean stop does pull it,
\* but then nobody waits for the answer: the client has been told before.
CommandsTakeTurns ==
    /\ \A u, v \in Users : u = v
    /\ Users # {} => radio \/ loop = "leaving"
    /\ \A c \in Clients : task[c] = "sending" /\ ~radio => conn[c] # "open"

\* "serialise client ops + reconnect" (meshcore_radio.py:101, of _meshcore_lock): no
\* command runs while the radio loop itself uses the session.
ReconnectSerialised == \A u, v \in AllUsers : u = v

\* send_text's success is the success of its own text: an answer to an earlier call
\* that timed out is not taken for it, and what was refused or cut off is none.
HonestSent == \A c \in Clients : call[c] = "sent" => sent[c] \in aired[c]

\* The health record of an attached gateway shows the supervisor's radio as soon as
\* what is under way has arrived, unless an event overtook the handler's connect.
HealthHonest ==
    \A c \in Clients :
        (run[c] = "attached" /\ conn[c] = "open" /\ wire[c] = <<>> /\ ~missed[c])
            => health[c] = registered

\* Every call ends without its timeout: a supervisor that lives answers, through
\* lost sessions and waiting clients, and one that dies wakes the caller.
CallsEnd == \A c \in Clients : (call[c] = "waiting") ~> (call[c] # "waiting")

\* "Reflect the radio's ACTUAL state from the supervisor hello"
\* (meshcore_supervisor_handler.py:132), "let the health monitor know what the
\* radio's underlying state is so the bridge surface reflects it" (353-354): a
\* radio that stays connected is in the end recorded as connected.
HealthFollowsRadio ==
    \A c \in Clients : <>[](registered /\ run[c] = "attached") => <>[](health[c])
=============================================================================
