-------------------------- MODULE MCFramePipeline --------------------------
(* Constants of the FramePipeline runs: three frame types (PING is the one *)
(* whose handler takes no pooled slice), and four frames per connection. *)
EXTENDS FramePipeline

MCFrameTypes == {"SEND", "RECVACK", "PING"}
=============================================================================
