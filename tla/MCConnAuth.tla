----------------------------- MODULE MCConnAuth -----------------------------
(* Model-checking instance of ConnAuth: three connections of one           *)
(* (uid, deviceFlag) and two device ids.                                   *)
EXTENDS ConnAuth

MCConns == {"c1", "c2", "c3"}
MCDeviceIDs == {"d1", "d2"}
=============================================================================
