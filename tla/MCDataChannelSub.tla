--------------------------- MODULE MCDataChannelSub ---------------------------
(* Three connections of one uid and device flag, two device ids, and two   *)
(* materializations of the data channel, so that it can be evicted and    *)
(* created again.                                                          *)
EXTENDS DataChannelSub

MCConns == {"c1", "c2", "c3"}
MCDeviceIDs == {"d1", "d2"}
=============================================================================
