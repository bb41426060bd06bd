------------------------------- MODULE Recvack -------------------------------
(***************************************************************************)
(* Delivery of persistent and transient messages to one recipient          *)
(* (uid, deviceId) and the RECVACK handler Processor.processRecvacks       *)
(* (internal/server/processor.go 630-653).  The delivery engine and its    *)
(* retry queue are not in src/ and follow spec 4.8: an entry per           *)
(* persistent message, re-dispatched on each timing-wheel expiry to the    *)
(* recipient's live connection, dropped after MaxRetry sends.  The         *)
(* recipient's connection may be lost at any time, losing the RECVs and    *)
(* RECVACKs in flight; entries survive it.                                 *)
(***************************************************************************)
EXTENDS Naturals, FiniteSetsExt

CONSTANTS
    Msgs,       \* messages Channel.Put hands to the engine for the recipient
    Flags,      \* Flags[m]: [persist, syncOnce, seq] of m's RecvPacket
    Levels,     \* device levels the recipient's connections may have
    MaxRetry,   \* sends of an entry before the engine drops it
    MaxDrops    \* connection losses in a behaviour

Master == 1
Slave == 0

ASSUME MaxRetry \in Nat \ {0} /\ MaxDrops \in Nat /\ Levels \subseteq {Slave, Master}

VARIABLES
    st,       \* st[m]: "new" (not dispatched), "untracked" (transient),
              \* "queued" (retry entry), "finished" (entry removed by an
              \* ack), "exhausted" (entry dropped after MaxRetry sends)
    sends,    \* sends[m]: RECVs of m the engine has written
    conn,     \* "up" or "down": the recipient's connection
    level,    \* conn.DeviceLevel() of the current connection
    drops,    \* connection losses so far
    wire,     \* RECVs written and not yet read by the client
    ackwire,  \* RECVACKs sent by the client, not yet handled
    cursor,   \* the store's cursor of the uid
    handled   \* history: <<m, level>> of every RECVACK processRecvacks handled

vars == <<st, sends, conn, level, drops, wire, ackwire, cursor, handled>>

MaxSeq == 10

TypeOK ==
    /\ st \in [Msgs -> {"new", "untracked", "queued", "finished", "exhausted"}]
    /\ sends \in [Msgs -> 0..MaxRetry]
    /\ conn \in {"up", "down"} /\ level \in Levels /\ drops \in 0..MaxDrops
    /\ wire \subseteq Msgs /\ ackwire \subseteq Msgs
    /\ cursor \in 0..MaxSeq /\ handled \subseteq Msgs \X Levels

Init ==
    /\ st = [m \in Msgs |-> "new"]
    /\ sends = [m \in Msgs |-> 0]
    /\ conn = "up" /\ level \in Levels /\ drops = 0
    /\ wire = {} /\ ackwire = {}
    /\ cursor = 0 /\ handled = {}

-----------------------------------------------------------------------------
(* A RECV written to the live connection, if there is one.                 *)
Write(m) == wire' = IF conn = "up" THEN wire \cup {m} ELSE wire

(* Channel.Put hands m to the engine: a retry entry for a persistent       *)
(* message, and a first RECV.                                              *)
Dispatch(m) ==
    /\ st[m] = "new"
    /\ st' = [st EXCEPT ![m] = IF Flags[m].persist THEN "queued" ELSE "untracked"]
    /\ sends' = [sends EXCEPT ![m] = 1]
    /\ Write(m)
    /\ UNCHANGED <<conn, level, drops, ackwire, cursor, handled>>

\* Mutant: the budget check lets one more send through.
RetryExpireOverBudget(m) ==
    /\ st[m] = "queued"
    /\ IF sends[m] <= MaxRetry
         THEN /\ sends' = [sends EXCEPT ![m] = @ + 1] /\ Write(m)
              /\ UNCHANGED st
         ELSE /\ st' = [st EXCEPT ![m] = "exhausted"]
              /\ UNCHANGED <<sends, wire>>
    /\ UNCHANGED <<conn, level, drops, ackwire, cursor, handled>>

(* The entry's deadline passes: m is sent again, or dropped after          *)
(* MaxRetry sends.                                                         *)
RetryExpire(m) ==
    /\ st[m] = "queued"
    /\ IF sends[m] < MaxRetry
         THEN /\ sends' = [sends EXCEPT ![m] = @ + 1] /\ Write(m)
              /\ UNCHANGED st
         ELSE /\ st' = [st EXCEPT ![m] = "exhausted"]
              /\ UNCHANGED <<sends, wire>>
    /\ UNCHANGED <<conn, level, drops, ackwire, cursor, handled>>

(* The client reads a RECV and answers with a RECVACK echoing its flags.   *)
ClientRecv(m) ==
    /\ m \in wire
    /\ wire' = wire \ {m}
    /\ ackwire' = ackwire \cup {m}
    /\ UNCHANGED <<st, sends, conn, level, drops, cursor, handled>>

\* Mutant: the recipient's entries are dropped with its connection.
DropForgetEntries ==
    /\ conn = "up" /\ drops < MaxDrops
    /\ conn' = "down" /\ drops' = drops + 1
    /\ wire' = {} /\ ackwire' = {}
    /\ st' = [m \in Msgs |-> IF st[m] = "queued" THEN "exhausted" ELSE st[m]]
    /\ UNCHANGED <<sends, level, cursor, handled>>

(* The connection is lost: what is in flight either way is gone.           *)
Drop ==
    /\ conn = "up" /\ drops < MaxDrops
    /\ conn' = "down" /\ drops' = drops + 1
    /\ wire' = {} /\ ackwire' = {}
    /\ UNCHANGED <<st, sends, level, cursor, handled>>

(* The recipient connects again, with the level CONNECT gives it.          *)
Reconnect ==
    /\ conn = "down"
    /\ conn' = "up"
    /\ level' \in Levels
    /\ UNCHANGED <<st, sends, drops, wire, ackwire, cursor, handled>>

(* retryQueue.finishMessage(uid, deviceId, messageId): the entry goes; a   *)
(* missing entry is an error the handler only logs.                        *)
FinishMessage(m) ==
    st' = IF st[m] = "queued" THEN [st EXCEPT ![m] = "finished"] ELSE st

(* UpdateMessageOfUserCursorIfNeed(uid, seq), for a syncOnce persistent    *)
(* message acked from a Master device: the cursor becomes                 *)
(* max(cursor, seq) (spec 4.7).                                            *)
UpdateCursor(m) ==
    cursor' = IF Flags[m].syncOnce /\ Flags[m].persist /\ level = Master
              THEN IF Flags[m].seq > cursor THEN Flags[m].seq ELSE cursor
              ELSE cursor

(* processRecvacks for one ack on the live connection.                     *)
ProcessRecvack(m) ==
    /\ conn = "up" /\ m \in ackwire
    /\ ackwire' = ackwire \ {m}
    /\ IF Flags[m].persist THEN FinishMessage(m) ELSE UNCHANGED st
    /\ UpdateCursor(m)
    /\ handled' = handled \cup {<<m, level>>}
    /\ UNCHANGED <<sends, conn, level, drops, wire>>

Next ==
    \/ \E m \in Msgs :
         \/ Dispatch(m) \/ RetryExpire(m) \/ ClientRecv(m) \/ ProcessRecvack(m)
    \/ Drop
    \/ Reconnect

(* The timing wheel fires every deadline, the client reads its socket and *)
(* the server handles the acks it receives; losses and reconnects are not *)
(* fair: a recipient may stay away.                                        *)
Fairness ==
    \A m \in Msgs :
        /\ WF_vars(Dispatch(m)) /\ WF_vars(RetryExpire(m))
        /\ WF_vars(ClientRecv(m)) /\ WF_vars(ProcessRecvack(m))

Spec == Init /\ [][Next]_vars /\ Fairness

-----------------------------------------------------------------------------
(* The abstract retry queue, seen through the engine's state: the entries *)
(* are the queued messages with their send counts.                        *)
Abstract == INSTANCE RetryQueue WITH
    entries <- [m \in {x \in Msgs : st[x] = "queued"} |-> sends[m]],
    dispatched <- {m \in Msgs : st[m] # "new"},
    acked <- handled

(* Spec 2, 4.7 and 4.8: the engine and processRecvacks implement the retry *)
(* queue.  An entry leaves the queue only by an ack of a message that was  *)
(* sent or after MaxRetry sends, never because the connection was lost;    *)
(* each ack moves the cursor as RetryQueue's Ack does; and every entry     *)
(* ends, even if the recipient never comes back.                           *)
RetryQueueSpec == Abstract!Spec

=============================================================================
