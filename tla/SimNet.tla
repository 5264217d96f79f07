------------------------------- MODULE SimNet -------------------------------
(***************************************************************************)
(* The simulated network of ledger-sim (net.rs): one queue of messages with *)
(* delivery times, directed partitions, bounded and lossy links, and a      *)
(* reorder window.  A message is the identity of its Send entry, so a       *)
(* duplicate equals its original.  Every draw from the seed tree is a       *)
(* choice.  All links have one configuration, the link fields of config.    *)
(***************************************************************************)
EXTENDS Naturals, Sequences, FiniteSets

VARIABLES
    config,          \* RunConfig; for links: capacity, jitter, lossy, window, draw, block
    queue,           \* messages [from, seq, to, deliver_at], in sending order
    partitions       \* directed pairs

netVars == <<config, queue, partitions>>

\* The fault schedule has its partitions applied before the run.
NetInit ==
    /\ queue = <<>>
    /\ partitions = config.partitions

queued_for(q, from, to) == Cardinality({i \in DOMAIN q : q[i].from = from /\ q[i].to = to})

\* try_send_via_link and try_send_at_with_identity: the queue after one
\* transmission and what became of the message.
transmit_once(q, message, delay) ==
    IF <<message.from, message.to>> \in partitions THEN {[queue |-> q, fate |-> "lost"]}
    ELSE IF queued_for(q, message.from, message.to) >= config.capacity THEN {[queue |-> q, fate |-> "full"]}
    ELSE {[queue |-> Append(q, [message EXCEPT !.deliver_at = @ + delay + j]), fate |-> "queued"] :
             j \in 0..config.jitter}
         \cup (IF config.lossy THEN {[queue |-> q, fate |-> "lost"]} ELSE {})

toggle_partition(pair) ==
    partitions' = IF pair \in partitions THEN partitions \ {pair} ELSE partitions \cup {pair}

ReadyIndexes(task, now) ==
    {i \in DOMAIN queue : queue[i].to = task /\ queue[i].deliver_at <= now}
has_ready_message(task, now) == ReadyIndexes(task, now) # {}
Oldest(S) == CHOOSE i \in S : \A j \in S : i <= j
Newest(S) == CHOOSE i \in S : \A j \in S : i >= j

\* The deliverable messages of the link that the oldest one came over.
link_candidates(task, now) ==
    LET ready == ReadyIndexes(task, now)
    IN  {i \in ready : queue[i].from = queue[Oldest(ready)].from}

\* peek_index and recv_with_window: the oldest, or with a window the newest.
peek_index(task, now) ==
    LET candidates == link_candidates(task, now)
    IN  IF config.window = 0 THEN Oldest(candidates) ELSE Newest(candidates)

\* recv_at_effective: the indexes that a receive may serve.
served(task, now) ==
    LET candidates == link_candidates(task, now)
    IN  IF config.draw /\ config.window > 0
        THEN {i \in candidates : Cardinality({j \in candidates : j >= i}) <= config.window}
        ELSE {peek_index(task, now)}

RemoveIndex(q, i) == SubSeq(q, 1, i - 1) \o SubSeq(q, i + 1, Len(q))

\* The delivery times of the queue; the earliest is earliest_delivery_time.
DeliveryTimes == {queue[i].deliver_at : i \in DOMAIN queue}
=============================================================================
