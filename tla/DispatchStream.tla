---------------------------- MODULE DispatchStream ----------------------------
(***************************************************************************)
(* The JetStream stream behind subject campaign.dispatched and its durable *)
(* consumer broadcast-delivery-pool, as far as the workers can see it, and *)
(* the receipts subject dispatch.result still owes to its own consumer.    *)
(*                                                                         *)
(* The consumer pushes a message to the client buffers: `copies` holds the *)
(* pushed copies no worker has started on, each with the delivery count    *)
(* msg.Metadata().NumDelivered reports. A Nak, or an AckWait that runs out,*)
(* pushes one more copy; an acknowledged message is never pushed again, but*)
(* a copy pushed earlier may still sit in a buffer.                        *)
(***************************************************************************)
EXTENDS Contracts

VARIABLES
    published,     \* messages JetStream stored
    acked,         \* messages acknowledged (gone from the stream)
    copies,        \* pushed copies, not yet taken by a worker
    delivered,     \* NumDelivered of the last copy pushed
    receipts       \* results on dispatch.result, not yet acknowledged

taskVars == <<published, acked, copies, delivered>>
streamVars == <<taskVars, receipts>>

Copies == [task : TargetDispatchTask, n : 1..MaxDelivered]

TaskTypeOK ==
    /\ published \subseteq TargetDispatchTask
    /\ acked \subseteq TargetDispatchTask
    /\ copies \subseteq Copies
    /\ delivered \in [TargetDispatchTask -> 0..MaxDelivered]

StreamTypeOK == TaskTypeOK /\ receipts \subseteq TargetDeliveryResult

StreamInit ==
    /\ published = {}
    /\ acked = {}
    /\ copies = {}
    /\ delivered = [m \in TargetDispatchTask |-> 0]
    /\ receipts = {}

NextDelivery(m) == IF delivered[m] < MaxDelivered THEN delivered[m] + 1
                                                  ELSE MaxDelivered

Push(m) ==
    /\ delivered' = [delivered EXCEPT ![m] = NextDelivery(m)]
    /\ copies' = copies \cup {[task |-> m, n |-> NextDelivery(m)]}

\* A publication is stored and pushed at once.
Publish(m) ==
    /\ published' = published \cup {m}
    /\ Push(m)
    /\ UNCHANGED acked

\* A worker starts on a pushed copy.
TakeCopy(c) ==
    /\ copies' = copies \ {c}
    /\ UNCHANGED <<published, acked, delivered>>

Ack(m) ==
    /\ acked' = acked \cup {m}
    /\ UNCHANGED <<published, copies, delivered>>

\* Nak and NakWithDelay; a late one, for a message another copy has had
\* acknowledged meanwhile, is ignored by the server.
Nak(m) ==
    IF m \in acked THEN UNCHANGED taskVars
                   ELSE Push(m) /\ UNCHANGED <<published, acked>>

\* AckWait ran out on a message that is still unacknowledged.
AckWaitExpires(m) ==
    /\ m \in published \ acked
    /\ Push(m)
    /\ UNCHANGED <<published, acked>>

PublishResult(r) == receipts' = receipts \cup {r}

AckResult(r) == receipts' = receipts \ {r}

=============================================================================
