------------------------------ MODULE MCRecvack ------------------------------
(* One recipient, four messages: two syncOnce persistent ones whose acks   *)
(* move the cursor, a persistent read-diffusion one and a transient one.   *)
EXTENDS Recvack

MCMsgs == {"m1", "m2", "m3", "m4"}

MCFlags ==
    [m \in MCMsgs |->
        CASE m = "m1" -> [persist |-> TRUE,  syncOnce |-> TRUE,  seq |-> 1]
          [] m = "m2" -> [persist |-> TRUE,  syncOnce |-> TRUE,  seq |-> 2]
          [] m = "m3" -> [persist |-> TRUE,  syncOnce |-> FALSE, seq |-> 3]
          [] m = "m4" -> [persist |-> FALSE, syncOnce |-> FALSE, seq |-> 0]]
=============================================================================
