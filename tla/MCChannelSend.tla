---------------------------- MODULE MCChannelSend ----------------------------
(* Constants of the ChannelSend runs. *)
EXTENDS ChannelSend

MCConns == {"c1", "c2"}
MCChannels == {"g1", "g2"}
MCChannel1 == {"g1"}

(* c1 sends any batch of one or two packets to g1 and g2; c2 one packet   *)
(* to g1, so the two connections meet on g1's store and delivery.         *)
MCBatches ==
    [c \in MCConns |->
        IF c = "c1"
        THEN {<<p>> : p \in Packet} \cup {<<p, q>> : p, q \in Packet}
        ELSE {<<p>> : p \in {r \in Packet : r.ch = "g1"}}]

(* Each connection sends one persistent message to the one channel.       *)
MCBatchesOrder == [c \in MCConns |-> {<<[ch |-> "g1", kind |-> "msg"]>>}]
=============================================================================
