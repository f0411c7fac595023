---------------------------- MODULE AckTracker -----------------------------
(***************************************************************************)
(* How a direct message to a Meshtastic node earns its CONFIRMED or        *)
(* DROPPED (gateway/ack_tracker.py, gateway/mqtt_bridge_handler.py).       *)
(*                                                                         *)
(* Each PUT to the radio's HTTP API carries a fresh packet id; a message   *)
(* of the persistent queue that is tried again goes out as another packet. *)
(* The sender arms the packet in the tracker after the PUT returns.  The   *)
(* MQTT thread hears every routing packet the radio hears: the ack of the  *)
(* destination, the implicit ack of the gateway's own radio, which proves  *)
(* that the packet left and no more, and naks.  It looks the packet up,    *)
(* takes it out of the tracker and then records the verdict.               *)
(*                                                                         *)
(* Replies are lost, repeated and reordered: each may be heard any number  *)
(* of times, at any later moment, or never.  The tracker lives in memory;  *)
(* the queue's rows survive a crash.  The counters' database is left out:  *)
(* what counts here is that record() was called.                           *)
(***************************************************************************)
EXTENDS Integers, SequencesExt

CONSTANTS
    Direct,     \* messages sent at once: their sender records SENT itself
    Queued,     \* messages of the persistent queue: mark_delivered records SENT
    MaxPending, \* the tracker's cap
    MaxPackets  \* bound: packets put on the air

Messages == Direct \cup Queued
Packets  == 1 .. MaxPackets

ASSUME TrackerAssumption ==
    /\ Direct \cap Queued = {}
    /\ MaxPending \in Nat \ {0} /\ MaxPackets \in Nat \ {0}

VARIABLES
    stage,      \* per message: what its sender does with it
    carries,    \* the message of each packet, in the order of their ids
    current,    \* per message: the packet its sender has in hand, or 0
    reached,    \* packets the destination received
    pending,    \* the tracker: packets in the order of registration
    aged,       \* how many of them, the oldest first, are past the TTL
    verdict,    \* the MQTT thread: the reply it resolved and has yet to record, or none
    sent,       \* messages with a SENT
    confirmed,  \* per packet: CONFIRMED recorded, up to 2
    dropped,    \* per packet: DROPPED recorded for a nak, up to 2
    armed,      \* history: packets ever registered
    forgotten   \* history: packets the tracker let go without a verdict

senders == <<stage, carries, current>>
tracker == <<pending, aged>>
ledger  == <<sent, confirmed, dropped>>
vars    == <<senders, reached, tracker, verdict, ledger, armed, forgotten>>

Kinds   == {"ack", "implicit", "nak"}
Replies == [packet : Packets, kind : Kinds]
None    == [packet |-> 0, kind |-> "none"]
Minted  == 1 .. Len(carries)

TypeOK ==
    /\ stage \in [Messages -> {"idle", "posted", "recorded", "handed", "done"}]
    /\ carries \in Seq(Messages) /\ Len(carries) <= MaxPackets
    /\ current \in [Messages -> 0 .. MaxPackets]
    /\ reached \subseteq Packets
    /\ pending \in Seq(Packets) /\ Len(pending) <= MaxPending
    /\ aged \in 0 .. Len(pending)
    /\ verdict \in Replies \cup {None}
    /\ sent \subseteq Messages
    /\ confirmed \in [Packets -> 0 .. 2] /\ dropped \in [Packets -> 0 .. 2]
    /\ armed \subseteq Packets /\ forgotten \subseteq Packets

Init ==
    /\ stage = [m \in Messages |-> "idle"]
    /\ carries = <<>>
    /\ current = [m \in Messages |-> 0]
    /\ reached = {}
    /\ pending = <<>> /\ aged = 0
    /\ verdict = None
    /\ sent = {}
    /\ confirmed = [p \in Packets |-> 0] /\ dropped = [p \in Packets |-> 0]
    /\ armed = {} /\ forgotten = {}

-----------------------------------------------------------------------------
(* The senders                                                             *)

unseen == <<reached, tracker, verdict, confirmed, dropped, armed, forgotten>>

At(m, s) == stage' = [stage EXCEPT ![m] = s]

\* send_text_direct_with_id: the radio takes the packet, under an id of its own.
Post(m) ==
    /\ stage[m] = "idle"
    /\ Len(carries) < MaxPackets
    /\ carries' = Append(carries, m)
    /\ current' = [current EXCEPT ![m] = Len(carries')]
    /\ At(m, "posted")
    /\ UNCHANGED <<unseen, sent>>

\* The radio took it, but the answer is lost: the fallback sends again, with no id to arm.
PostUnanswered(m) ==
    /\ stage[m] = "idle"
    /\ Len(carries) < MaxPackets
    /\ carries' = Append(carries, m)
    /\ UNCHANGED current
    /\ At(m, "handed")
    /\ sent' = IF m \in Direct THEN sent \cup {m} ELSE sent
    /\ UNCHANGED unseen

\* Only the fallback, the session client or the CLI, gets through.
PostPlain(m) ==
    /\ stage[m] = "idle"
    /\ At(m, "handed")
    /\ sent' = IF m \in Direct THEN sent \cup {m} ELSE sent
    /\ UNCHANGED <<unseen, carries, current>>

\* _maybe_register_ack, a direct message: SENT first.
RecordSent(m) ==
    /\ m \in Direct
    /\ stage[m] = "posted"
    /\ sent' = sent \cup {m}
    /\ At(m, "recorded")
    /\ UNCHANGED <<unseen, carries, current>>

Fresh == SubSeq(pending, aged + 1, Len(pending))

\* The youngest MaxPending of seq.
Youngest(seq) == SubSeq(seq, Len(seq) - MaxPending + 1, Len(seq))

\* register: the entry first, then the TTL and the cap, in one critical section.
Register(p) ==
    LET all == Append(Fresh, p)
    IN /\ pending' = IF Len(all) > MaxPending THEN Youngest(all) ELSE all
       /\ aged' = 0
       /\ armed' = armed \cup {p}
       /\ forgotten' = forgotten \cup (ToSet(pending) \ ToSet(pending'))

\* Faulty: a direct message is armed before its SENT is recorded.
ArmEarly(m) ==
    /\ stage[m] = "posted" /\ current[m] \notin armed
    /\ Register(current[m])
    /\ At(m, IF m \in Direct THEN "posted" ELSE "handed")
    /\ UNCHANGED <<carries, current, reached, verdict, ledger>>

\* Then the entry that the ack will find.
Arm(m) ==
    /\ stage[m] = IF m \in Direct THEN "recorded" ELSE "posted"
    /\ Register(current[m])
    /\ At(m, "handed")
    /\ UNCHANGED <<carries, current, reached, verdict, ledger>>

\* The send is over.  The queue records SENT, or fails to mark the row and will try it again.
Finish(m) ==
    /\ stage[m] = "handed"
    /\ current' = [current EXCEPT ![m] = 0]
    /\ \/ At(m, "done") /\ sent' = IF m \in Queued THEN sent \cup {m} ELSE sent
       \/ m \in Queued /\ At(m, "idle") /\ UNCHANGED sent
    /\ UNCHANGED <<unseen, carries>>

-----------------------------------------------------------------------------
(* The air                                                                 *)

Reach(p) ==
    /\ p \notin reached
    /\ reached' = reached \cup {p}
    /\ UNCHANGED <<senders, tracker, verdict, ledger, armed, forgotten>>

\* The destination acknowledges what it received.  The gateway's radio hears its packet relayed
\* or echoed through MQTT, or gives it up, at any time; the destination may refuse it as well.
OnAir == {r \in Replies : r.packet \in (IF r.kind = "ack" THEN reached ELSE Minted)}

-----------------------------------------------------------------------------
(* The tracker and the MQTT thread                                         *)

unheard == <<senders, reached, ledger, armed>>

\* pending_count, before the lookup: what is past the TTL goes.
Expire ==
    /\ verdict = None /\ pending # <<>>
    /\ aged' = 0
    /\ forgotten' = forgotten \cup (ToSet(pending) \ ToSet(Fresh))

\* Faulty: whoever sent the ack, it confirms.
SettleAnySender(r, i) ==
    /\ Expire
    /\ Fresh[i] = r.packet
    /\ pending' = RemoveAt(Fresh, i)
    /\ verdict' = r
    /\ UNCHANGED unheard

\* Faulty: the entry stays, for the other replies to come.
SettleKeeps(r, i) ==
    /\ Expire
    /\ Fresh[i] = r.packet /\ r.kind # "implicit"
    /\ pending' = Fresh
    /\ verdict' = r
    /\ UNCHANGED unheard

\* Faulty: an implicit ack is refused, and its entry is gone.
SettleSpends(r, i) ==
    /\ Expire
    /\ Fresh[i] = r.packet
    /\ pending' = RemoveAt(Fresh, i)
    /\ verdict' = IF r.kind = "implicit" THEN None ELSE r
    /\ UNCHANGED unheard

\* resolve_leg: the ack of the destination, or a nak of whoever sent it, takes the entry out.
Settle(r, i) ==
    /\ Expire
    /\ Fresh[i] = r.packet /\ r.kind # "implicit"
    /\ pending' = RemoveAt(Fresh, i)
    /\ verdict' = r
    /\ UNCHANGED unheard

\* An implicit ack, whose sender is not the destination, or a packet that is not there.
Ignore(r) ==
    /\ Expire
    /\ r.kind = "implicit" \/ r.packet \notin ToSet(Fresh)
    /\ pending' = Fresh
    /\ UNCHANGED <<unheard, verdict>>

Resolve(r) == Ignore(r) \/ \E i \in 1 .. Len(Fresh) : Settle(r, i)

More(n) == IF n < 2 THEN n + 1 ELSE n

\* _handle_routing_envelope, after the lookup.
RecordVerdict ==
    /\ verdict # None
    /\ IF verdict.kind = "nak"
       THEN dropped' = [dropped EXCEPT ![verdict.packet] = More(@)] /\ UNCHANGED confirmed
       ELSE confirmed' = [confirmed EXCEPT ![verdict.packet] = More(@)] /\ UNCHANGED dropped
    /\ verdict' = None
    /\ UNCHANGED <<senders, reached, tracker, sent, armed, forgotten>>

\* The oldest entry passes the TTL.
Age ==
    /\ aged < Len(pending)
    /\ aged' = aged + 1
    /\ UNCHANGED <<senders, reached, pending, verdict, ledger, armed, forgotten>>

\* The process ends and starts anew: rows in progress are tried again, nothing is in flight.
Crash ==
    /\ stage' = [m \in Messages |-> IF m \in Queued /\ stage[m] # "done" THEN "idle"
                                    ELSE IF stage[m] = "idle" THEN "idle" ELSE "done"]
    /\ current' = [m \in Messages |-> 0]
    /\ pending' = <<>> /\ aged' = 0
    /\ verdict' = None
    /\ forgotten' = forgotten \cup ToSet(pending) \cup ({verdict.packet} \ {0})
    /\ UNCHANGED <<carries, reached, ledger, armed>>

Sender(m) == \/ Post(m) \/ PostUnanswered(m) \/ PostPlain(m)
             \/ RecordSent(m) \/ Arm(m) \/ Finish(m)

Next ==
    \/ \E m \in Messages : Sender(m)
    \/ \E p \in Minted : Reach(p)
    \/ \E r \in OnAir : Resolve(r)
    \/ RecordVerdict \/ Age \/ Crash

Spec == Init /\ [][Next]_vars

-----------------------------------------------------------------------------
(* What the verdicts must mean                                             *)

\* CONFIRMED is a proof of delivery: the destination has the packet, whatever the gateway's own
\* radio said of it and in whatever order the replies came.
HonestConfirm == \A p \in Packets : confirmed[p] > 0 => p \in reached

\* Repeated and contradicting replies to a packet make one verdict.
OneVerdictPerPacket == \A p \in Packets : confirmed[p] + dropped[p] <= 1

\* A verdict on a direct message finds its SENT recorded: the reply may overtake the sender's
\* next line, it then finds nothing and the message stays SENT.
DirectSentFirst ==
    \A p \in Minted : carries[p] \in Direct /\ confirmed[p] + dropped[p] > 0 => carries[p] \in sent

Verdicts == {p \in Packets : confirmed[p] + dropped[p] > 0}

\* A packet armed is waiting, about to be recorded, recorded, or let go by the TTL, the cap or a
\* crash, and only one of these: no reply but an ack of the destination or a nak spends an entry.
EveryPacketAccounted ==
    LET waiting  == ToSet(pending)
        deciding == {verdict.packet} \ {0}
    IN /\ armed = waiting \cup deciding \cup Verdicts \cup forgotten
       /\ waiting \cap (deciding \cup Verdicts \cup forgotten) = {}
       /\ deciding \cap (Verdicts \cup forgotten) = {}
       /\ Verdicts \cap forgotten = {}

\* "Final positive outcome", "Final negative outcome" (delivery_counters.py:99, 102): one of them
\* per message.
FinalOutcome ==
    \A p, q \in Minted : p \in Verdicts /\ q \in Verdicts /\ carries[p] = carries[q] => p = q
=============================================================================
