----------------------------- MODULE ChannelSend -----------------------------
(***************************************************************************)
(* The SEND path: Processor.processMsgs and prcocessChannelMessages        *)
(* (internal/server/processor.go 249-406) with storeChannelMessagesIfNeed  *)
(* and storeChannelMessagesToNotifyQueue, for several connections whose    *)
(* batches are handled concurrently by the frame work pool.  A batch is    *)
(* split by channel, the partitions are visited in map order (any), and    *)
(* each partition runs GetChannel and the permission check, builds its     *)
(* messages, appends them to the store, to the notify queue and to the     *)
(* channel (Channel.Put), and collects sendacks that processMsgs writes at *)
(* the end.  The store, the notify queue and Channel.Put are not in src/   *)
(* and follow spec 4.4 and 6: each call is atomic and may fail.            *)
(***************************************************************************)
EXTENDS Naturals, Sequences, SequencesExt, FiniteSets

CONSTANTS
    Conns,      \* connections sending a batch
    Channels,   \* channel keys (channelId, channelType)
    Batches,    \* Batches[c]: the SEND batches connection c may send
    WebhookOn   \* opts.WebhookOn()

(* What the model tells apart of a SendPacket: a persistent message, one   *)
(* with NoPersist, a stream item (Setting stream), one asking for syncOnce *)
(* (clients may not), and one whose msgKey or payload does not decode.     *)
Kinds == {"msg", "noPersist", "stream", "syncOnce", "badKey"}
Packet == [ch : Channels, kind : Kinds]

Reasons == {"Success", "SystemError", "ChannelNotExist", "Denied",
            "NotSupportHeader", "PayloadDecodeError"}

ASSUME WebhookOn \in BOOLEAN
ASSUME \A c \in Conns : Batches[c] \subseteq Seq(Packet) \ {<<>>}

VARIABLES
    batch,    \* batch[c]: the SEND packets of c's run, in frame order
    pc,       \* where c's processMsgs is
    todo,     \* partitions (channel keys) not yet visited
    cur,      \* the partition being processed
    msgs,     \* the packets built into Messages for the partition
    acks,     \* sendackPackets: collected, written at the end
    out,      \* sendacks written to c, in write order
    log,      \* log[ch]: message ids appended to the channel; seq = index
    streams,  \* message ids appended as stream items
    nq,       \* the notify queue
    dq        \* dq[ch]: message ids handed to Channel.Put, in call order

vars == <<batch, pc, todo, cur, msgs, acks, out, log, streams, nq, dq>>

TypeOK ==
    /\ \A c \in Conns : batch[c] \in Batches[c]
    /\ pc \in [Conns -> {"split", "check", "build", "store", "notify", "put", "done"}]
    /\ todo \in [Conns -> SUBSET Channels]
    /\ cur \in [Conns -> Channels]
    /\ \A c \in Conns :
         /\ msgs[c] \in Seq(1..Len(batch[c]))
         /\ \A a \in Range(acks[c] \o out[c]) :
              a.i \in 1..Len(batch[c]) /\ a.reason \in Reasons
              /\ a.seq \in 0..Len(log[batch[c][a.i].ch])
    /\ log \in [Channels -> Seq(Conns \X Nat)]
    /\ streams \subseteq Conns \X Nat
    /\ nq \in Seq(Conns \X Nat)
    /\ dq \in [Channels -> Seq(Conns \X Nat)]

Init ==
    /\ batch \in {b \in [Conns -> UNION {Batches[c] : c \in Conns}] :
                     \A c \in Conns : b[c] \in Batches[c]}
    /\ pc = [c \in Conns |-> "split"]
    /\ todo = [c \in Conns |-> {batch[c][i].ch : i \in 1..Len(batch[c])}]
    /\ cur = [c \in Conns |-> CHOOSE ch \in Channels : TRUE]
    /\ msgs = [c \in Conns |-> <<>>]
    /\ acks = [c \in Conns |-> <<>>]
    /\ out = [c \in Conns |-> <<>>]
    /\ log = [ch \in Channels |-> <<>>]
    /\ streams = {}
    /\ nq = <<>>
    /\ dq = [ch \in Channels |-> <<>>]

-----------------------------------------------------------------------------
(* The packets of c's partition ch, in frame order (channelSendPacketMap). *)
Part(c, ch) == SelectSeq([i \in 1..Len(batch[c]) |-> i], LAMBDA i : batch[c][i].ch = ch)

(* The packets of is whose kind is in K, in order.                         *)
OfKind(c, is, K) == SelectSeq(is, LAMBDA i : batch[c][i].kind \in K)

Ids(c, is) == [k \in 1..Len(is) |-> <<c, is[k]>>]

\* Mutant: the seq taken one past the message's index.
MsgSeqNext(ch, id) == IF id \in Range(log[ch]) THEN 1 + CHOOSE k \in 1..Len(log[ch]) : log[ch][k] = id
                      ELSE 0

(* The messageSeq a Message carries: set by AppendMessages, else 0.        *)
MsgSeq(ch, id) == IF id \in Range(log[ch]) THEN CHOOSE k \in 1..Len(log[ch]) : log[ch][k] = id
                 ELSE 0

(* respSendackPacketsFnc: a sendack per SendPacket, without messageSeq.    *)
PacketAcks(is, reason) == [k \in 1..Len(is) |-> [i |-> is[k], reason |-> reason, seq |-> 0]]

(* respSendackPacketsWithRecvFnc / getSendackPacket: a sendack per built   *)
(* Message, with the messageSeq it carries.                                *)
MsgAcks(c, reason) ==
    [k \in 1..Len(msgs[c]) |-> [i |-> msgs[c][k], reason |-> reason,
                                seq |-> MsgSeq(cur[c], <<c, msgs[c][k]>>)]]

(* The partition loop of processMsgs: the next channel key in map order.   *)
NextPartition(c) ==
    /\ pc[c] = "split" /\ todo[c] # {}
    /\ \E ch \in todo[c] :
         /\ cur' = [cur EXCEPT ![c] = ch]
         /\ todo' = [todo EXCEPT ![c] = @ \ {ch}]
    /\ pc' = [pc EXCEPT ![c] = "check"]
    /\ UNCHANGED <<batch, msgs, acks, out, log, streams, nq, dq>>

(* After the loop: p.response(conn, sendackPackets...).                    *)
Respond(c) ==
    /\ pc[c] = "split" /\ todo[c] = {}
    /\ out' = [out EXCEPT ![c] = @ \o acks[c]]
    /\ acks' = [acks EXCEPT ![c] = <<>>]
    /\ pc' = [pc EXCEPT ![c] = "done"]
    /\ UNCHANGED <<batch, todo, cur, msgs, log, streams, nq, dq>>

\* Mutant: the permission denial answered without its `return`.
CheckNoReturn(c) ==
    /\ pc[c] = "check"
    /\ \E r \in {"Success", "SystemError", "ChannelNotExist", "Denied"} :
         /\ pc' = [pc EXCEPT ![c] = IF r \in {"Success", "Denied"} THEN "build" ELSE "split"]
         /\ acks' = [acks EXCEPT ![c] = @ \o IF r = "Success" THEN <<>>
                                             ELSE PacketAcks(Part(c, cur[c]), r)]
    /\ UNCHANGED <<batch, todo, cur, msgs, out, log, streams, nq, dq>>

\* Mutant: a GetChannel error returns (nil, err) without sendacks.
CheckNoAckOnError(c) ==
    /\ pc[c] = "check"
    /\ \E r \in {"Success", "SystemError", "ChannelNotExist", "Denied"} :
         /\ pc' = [pc EXCEPT ![c] = IF r = "Success" THEN "build" ELSE "split"]
         /\ acks' = [acks EXCEPT ![c] = @ \o IF r \in {"Success", "SystemError"} THEN <<>>
                                             ELSE PacketAcks(Part(c, cur[c]), r)]
    /\ UNCHANGED <<batch, todo, cur, msgs, out, log, streams, nq, dq>>

(* GetChannel (error: SystemError; nil: ChannelNotExist) and hasPermission *)
(* (a denial's reason); each ends the partition with a sendack per packet.*)
(* Which outcome happens is ChannelAdmin's subject; here any may.          *)
Check(c) ==
    /\ pc[c] = "check"
    /\ \E r \in {"Success", "SystemError", "ChannelNotExist", "Denied"} :
         /\ pc' = [pc EXCEPT ![c] = IF r = "Success" THEN "build" ELSE "split"]
         /\ acks' = [acks EXCEPT ![c] = @ \o IF r = "Success" THEN <<>>
                                             ELSE PacketAcks(Part(c, cur[c]), r)]
    /\ UNCHANGED <<batch, todo, cur, msgs, out, log, streams, nq, dq>>

(* The packet loop: a syncOnce packet gets NotSupportHeader in the batch's *)
(* sendacks; a packet failing checkAndDecodePayload gets its               *)
(* PayloadDecodeError sendack written at once; the others become Messages. *)
(* With no Message the partition ends here.                                *)
Build(c) ==
    LET is == Part(c, cur[c])
        ms == OfKind(c, is, {"msg", "noPersist", "stream"}) IN
    /\ pc[c] = "build"
    /\ acks' = [acks EXCEPT ![c] = @ \o PacketAcks(OfKind(c, is, {"syncOnce"}), "NotSupportHeader")]
    /\ out' = [out EXCEPT ![c] = @ \o PacketAcks(OfKind(c, is, {"badKey"}), "PayloadDecodeError")]
    /\ msgs' = [msgs EXCEPT ![c] = ms]
    /\ pc' = [pc EXCEPT ![c] = IF ms = <<>> THEN "split" ELSE "store"]
    /\ UNCHANGED <<batch, todo, cur, log, streams, nq, dq>>

\* Mutant: the failure sendacks built from the SendPackets (no messageSeq).
FailPartitionNoSeq(c) ==
    /\ acks' = [acks EXCEPT ![c] = @ \o PacketAcks(msgs[c], "SystemError")]
    /\ pc' = [pc EXCEPT ![c] = "split"]

(* A failed call: sendacks SystemError for every built Message, and the    *)
(* partition ends (processMsgs only logs the error).                       *)
FailPartition(c) ==
    /\ acks' = [acks EXCEPT ![c] = @ \o MsgAcks(c, "SystemError")]
    /\ pc' = [pc EXCEPT ![c] = "split"]

\* Mutant: a store error answers every packet of the partition.
StoreFailAckAll(c) ==
    /\ acks' = [acks EXCEPT ![c] = @ \o PacketAcks(Part(c, cur[c]), "SystemError")]
    /\ pc' = [pc EXCEPT ![c] = "split"]

StoreFail(c) == FailPartition(c)

(* storeChannelMessagesIfNeed: stream Messages are appended one by one as  *)
(* stream items (an error returns at once, earlier items stay); the        *)
(* persistent ones, if any, with one AppendMessages call, which gives them *)
(* the next seqs of the channel in order.  NoPersist Messages are skipped. *)
Store(c) ==
    LET st == Ids(c, OfKind(c, msgs[c], {"stream"}))
        pm == Ids(c, OfKind(c, msgs[c], {"msg"}))
        ch == cur[c] IN
    /\ pc[c] = "store"
    /\ \/ /\ streams' = streams \cup Range(st)
          /\ log' = [log EXCEPT ![ch] = @ \o pm]
          /\ pc' = [pc EXCEPT ![c] = IF WebhookOn THEN "notify" ELSE "put"]
          /\ UNCHANGED acks
       \/ \E k \in 1..Len(st) :
            /\ streams' = streams \cup Range(SubSeq(st, 1, k - 1))
            /\ StoreFail(c) /\ UNCHANGED log
       \/ /\ pm # <<>>
          /\ streams' = streams \cup Range(st)
          /\ StoreFail(c) /\ UNCHANGED log
    /\ UNCHANGED <<batch, todo, cur, msgs, out, nq, dq>>

(* storeChannelMessagesToNotifyQueue: the non-stream Messages are appended *)
(* to the notify queue (the call is made also when that list is empty).    *)
Notify(c) ==
    /\ pc[c] = "notify"
    /\ \/ /\ nq' = nq \o Ids(c, OfKind(c, msgs[c], {"msg", "noPersist"}))
          /\ pc' = [pc EXCEPT ![c] = "put"]
          /\ UNCHANGED acks
       \/ /\ FailPartition(c) /\ UNCHANGED nq
    /\ UNCHANGED <<batch, todo, cur, msgs, out, log, streams, dq>>

\* Mutant: Put's error ignored, the Messages answered Success.
PutIgnoreError(c) ==
    /\ pc[c] = "put"
    /\ \/ dq' = [dq EXCEPT ![cur[c]] = @ \o Ids(c, msgs[c])]
       \/ UNCHANGED dq
    /\ acks' = [acks EXCEPT ![c] = @ \o MsgAcks(c, "Success")]
    /\ pc' = [pc EXCEPT ![c] = "split"]
    /\ UNCHANGED <<batch, todo, cur, msgs, out, log, streams, nq>>

(* channel.Put hands the Messages to the delivery engine; then a Success   *)
(* sendack per Message, with its messageSeq.                               *)
Put(c) ==
    /\ pc[c] = "put"
    /\ \/ /\ dq' = [dq EXCEPT ![cur[c]] = @ \o Ids(c, msgs[c])]
          /\ acks' = [acks EXCEPT ![c] = @ \o MsgAcks(c, "Success")]
          /\ pc' = [pc EXCEPT ![c] = "split"]
       \/ /\ FailPartition(c) /\ UNCHANGED dq
    /\ UNCHANGED <<batch, todo, cur, msgs, out, log, streams, nq>>

(* One step of c's processMsgs, run by the pool worker handling its run.   *)
Step(c) ==
    \/ NextPartition(c) \/ Check(c) \/ Build(c) \/ Store(c) \/ Notify(c)
    \/ Put(c) \/ Respond(c)

Next == \E c \in Conns : Step(c)

(* The pool runs every submitted task to its end; store calls return       *)
(* (they carry context deadlines, spec 5).                                 *)
Spec == Init /\ [][Next]_vars /\ \A c \in Conns : WF_vars(Step(c))

-----------------------------------------------------------------------------
Answered(c, i) == \E k \in 1..Len(out[c]) : out[c][k].i = i

(* A Success sendack tells the truth: a persistent message is in the      *)
(* channel's store at the messageSeq the sendack carries, a NoPersist or   *)
(* stream message carries 0, and either was handed to Channel.Put.  The    *)
(* sendack is built after three separately failing calls of               *)
(* prcocessChannelMessages, each of which must end the partition.          *)
SuccessAckTruth ==
    \A c \in Conns : \A k \in 1..Len(out[c]) :
        LET a == out[c][k]  p == batch[c][a.i]  id == <<c, a.i>> IN
        a.reason = "Success" =>
            /\ IF p.kind = "msg" THEN a.seq > 0 /\ log[p.ch][a.seq] = id
                                 ELSE a.seq = 0
            /\ id \in Range(dq[p.ch])

(* A packet rejected for what it is or where it goes (NotSupportHeader,    *)
(* PayloadDecodeError, ChannelNotExist, a permission denial), whether its *)
(* sendack is written or still collected, never reaches                   *)
(* the store, the stream store, the notify queue or a channel (spec 8.9,   *)
(* 4.4 d).                                                                 *)
RejectedNeverStored ==
    \A c \in Conns : \A a \in Range(acks[c] \o out[c]) :
        LET id == <<c, a.i>> IN
        a.reason \notin {"Success", "SystemError"} =>
            /\ \A ch \in Channels : id \notin Range(log[ch]) \cup Range(dq[ch])
            /\ id \notin streams \cup Range(nq)

(* processMsgs answers each SEND packet at most once: a packet is in one  *)
(* partition, and within it each exit answers only what earlier steps did *)
(* not (syncOnce and decode errors are answered while building, so the     *)
(* failure exits answer the built Messages only).                          *)
AckedAtMostOnce ==
    \A c \in Conns : \A k, l \in 1..Len(out[c]) :
        k # l => out[c][k].i # out[c][l].i

(* A SystemError sendack for a persistent message carries a messageSeq   *)
(* exactly when the message is in the store: a notify-queue or Put error  *)
(* after AppendMessages answers SystemError for a stored message, and the *)
(* seq is what tells the client that its resend would store it twice.     *)
SystemErrorSeqTellsStored ==
    \A c \in Conns : \A k \in 1..Len(out[c]) :
        LET a == out[c][k]  p == batch[c][a.i] IN
        (a.reason = "SystemError" /\ p.kind = "msg") =>
            ((a.seq > 0) <=> <<c, a.i>> \in Range(log[p.ch]))

(* Every SEND packet of the batch is eventually answered by a sendack.    *)
EveryPacketAnswered ==
    <>(\A c \in Conns : \A i \in 1..Len(batch[c]) : Answered(c, i))

(* Spec 4.8: per channel, messages reach the delivery engine in messageSeq *)
(* order, "because store append serializes seq assignment".  Channel.Put   *)
(* is called after AppendMessages returns, outside any lock.               *)
DeliveredInSeqOrder ==
    \A ch \in Channels :
        LET s == SelectSeq(dq[ch], LAMBDA id : id \in Range(log[ch])) IN
        \A k \in 1..(Len(s) - 1) : MsgSeq(ch, s[k]) < MsgSeq(ch, s[k + 1])
=============================================================================
