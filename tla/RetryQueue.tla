------------------------------ MODULE RetryQueue ------------------------------
(***************************************************************************)
(* What the retry queue and the RECVACK handler promise for one recipient  *)
(* (uid, deviceId), spec 2 ("Retry queue entry", "Cursor"), 4.7 and 4.8,   *)
(* with the connection and the wire hidden: a persistent message handed to *)
(* the engine gets an entry with a send count; an entry is sent again      *)
(* while its count is under the budget and dropped when it reaches it; an  *)
(* ack of a message the recipient was sent removes its entry and, for a    *)
(* syncOnce persistent message acked by a Master device, raises the cursor *)
(* to the message's seq.  No other step removes an entry: entries survive  *)
(* disconnects.                                                            *)
(***************************************************************************)
EXTENDS Naturals

CONSTANTS Msgs, Flags, Levels, MaxRetry

VARIABLES
    entries,     \* entries[m]: the send count of m's retry entry
    dispatched,  \* messages handed to the engine
    cursor,      \* the uid's cursor
    acked        \* <<m, level>> of every ack handled

Master == 1

Init ==
    /\ entries = [m \in {} |-> 0]
    /\ dispatched = {}
    /\ cursor = 0
    /\ acked = {}

WithoutEntry(m) == [x \in DOMAIN entries \ {m} |-> entries[x]]

Put(m) ==
    /\ m \notin dispatched
    /\ dispatched' = dispatched \cup {m}
    /\ entries' = IF Flags[m].persist
                    THEN [x \in DOMAIN entries \cup {m} |->
                            IF x = m THEN 1 ELSE entries[x]]
                    ELSE entries
    /\ UNCHANGED <<cursor, acked>>

Resend(m) ==
    /\ m \in DOMAIN entries /\ entries[m] < MaxRetry
    /\ entries' = [entries EXCEPT ![m] = @ + 1]
    /\ UNCHANGED <<dispatched, cursor, acked>>

GiveUp(m) ==
    /\ m \in DOMAIN entries /\ entries[m] = MaxRetry
    /\ entries' = WithoutEntry(m)
    /\ UNCHANGED <<dispatched, cursor, acked>>

Ack(m, l) ==
    /\ m \in dispatched /\ l \in Levels
    /\ entries' = WithoutEntry(m)
    /\ cursor' = IF Flags[m].syncOnce /\ Flags[m].persist /\ l = Master
                    /\ Flags[m].seq > cursor
                 THEN Flags[m].seq ELSE cursor
    /\ acked' = acked \cup {<<m, l>>}
    /\ UNCHANGED dispatched

Next ==
    \E m \in Msgs :
        \/ Put(m) \/ Resend(m) \/ GiveUp(m)
        \/ \E l \in Levels : Ack(m, l)

vars == <<entries, dispatched, cursor, acked>>

(* The timer serves every entry until it ends. *)
Spec == Init /\ [][Next]_vars /\ \A m \in Msgs : WF_vars(Resend(m) \/ GiveUp(m))
=============================================================================
