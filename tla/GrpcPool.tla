------------------------------ MODULE GrpcPool ------------------------------
(***************************************************************************)
(* The gRPC client pool of pkg/grpcpool/pool.go: a buffered channel of     *)
(* slots, each empty (nil ClientConn) or holding a client connection;      *)
(* Pool.Get takes a slot, Pool.Close closes the pool, and                  *)
(* ClientConn.Close returns a slot.  Users are goroutines that Get, use    *)
(* and Close a connection concurrently with one goroutine closing the      *)
(* pool.  Each step below is one access to shared state: the p.clients     *)
(* field, the channel, or a connection.                                    *)
(*                                                                         *)
(* Times (timeUsed, timeInitiated) are abstracted: whether a connection is *)
(* idle too long, in TransientFailure, or past maxLifeDuration is a        *)
(* nondeterministic choice where the code tests it.                       *)
(***************************************************************************)
EXTENDS Naturals, Sequences, FiniteSets

CONSTANTS
    Users,          \* goroutines using the pool
    Capacity,       \* capacity argument of New (> 0 after its clamping)
    InitConns,      \* init argument of New (0 .. capacity after clamping)
    MaxConns,       \* bound on the connections the factory creates
    MaxErrorCount,  \* MaxErrorCount of pool.go
    Nil             \* a nil *grpc.ClientConn

ASSUME Capacity \in Nat \ {0} /\ InitConns \in 0..Capacity
ASSUME MaxConns >= InitConns /\ MaxErrorCount \in Nat \ {0}

Conns == 1..MaxConns

VARIABLES
    chan,        \* the buffered channel p.clients: slots in FIFO order
    field,       \* the p.clients field: "set", or "nil" after Pool.Close
    chanClosed,  \* close(clients) has run
    conn,        \* conn[c]: "unborn", "open" or "closed"
    pc,          \* program counter of each user
    w,           \* the user's wrapper: [cc, pooled, err, unhealthy]
    slot,        \* slot[u]: the user holds a slot taken from the channel
    closer,      \* progress of Pool.Close: "idle", "close", "drain", "done"
    panicked     \* a goroutine sent on a closed channel

vars == <<chan, field, chanClosed, conn, pc, w, slot, closer, panicked>>

PCs == {"idle", "recv", "check", "factory", "use", "send", "closed"}
Wrapper == [cc : Conns \cup {Nil}, pooled : BOOLEAN, err : 0..MaxErrorCount,
            unhealthy : BOOLEAN]

TypeOK ==
    /\ chan \in Seq(Conns \cup {Nil}) /\ Len(chan) <= Capacity
    /\ field \in {"set", "nil"}
    /\ chanClosed \in BOOLEAN
    /\ conn \in [Conns -> {"unborn", "open", "closed"}]
    /\ pc \in [Users -> PCs]
    /\ w \in [Users -> Wrapper]
    /\ slot \in [Users -> BOOLEAN]
    /\ closer \in {"idle", "close", "drain", "done"}
    /\ panicked \in BOOLEAN

(* ClientConn{pool: p}: an empty slot of this pool. *)
Empty == [cc |-> Nil, pooled |-> TRUE, err |-> 0, unhealthy |-> FALSE]

\* Mutant: the fill loop runs `i <= capacity-init` (one slot too many).
InitOneSlotTooMany ==
    /\ chan = [i \in 1..(Capacity + 1) |-> IF i <= InitConns THEN i ELSE Nil]
    /\ field = "set"
    /\ chanClosed = FALSE
    /\ conn = [c \in Conns |-> IF c <= InitConns THEN "open" ELSE "unborn"]
    /\ pc = [u \in Users |-> "idle"]
    /\ w = [u \in Users |-> Empty]
    /\ slot = [u \in Users |-> FALSE]
    /\ closer = "idle"
    /\ panicked = FALSE

(* NewWithContext: init connections created, the rest of the capacity      *)
(* filled with empty slots.                                                *)
Init ==
    /\ chan = [i \in 1..Capacity |-> IF i <= InitConns THEN i ELSE Nil]
    /\ field = "set"
    /\ chanClosed = FALSE
    /\ conn = [c \in Conns |-> IF c <= InitConns THEN "open" ELSE "unborn"]
    /\ pc = [u \in Users |-> "idle"]
    /\ w = [u \in Users |-> Empty]
    /\ slot = [u \in Users |-> FALSE]
    /\ closer = "idle"
    /\ panicked = FALSE

Running == ~panicked

-----------------------------------------------------------------------------
(* Get: getClients() under the read lock; nil answers ErrClosed (no state  *)
(* change, so not a step here).                                            *)
GetStart(u) ==
    /\ Running /\ pc[u] \in {"idle", "closed"} /\ field = "set"
    /\ pc' = [pc EXCEPT ![u] = "recv"]
    /\ w' = [w EXCEPT ![u] = Empty]
    /\ UNCHANGED <<chan, field, chanClosed, conn, slot, closer, panicked>>

(* `wrapper = <-clients`: the head slot; on a closed, drained channel the  *)
(* receive yields the zero ClientConn, whose pool pointer is nil.          *)
GetRecv(u) ==
    /\ Running /\ pc[u] = "recv"
    /\ \/ /\ chan # <<>>
          /\ w' = [w EXCEPT ![u] = [Empty EXCEPT !.cc = Head(chan)]]
          /\ chan' = Tail(chan)
          /\ slot' = [slot EXCEPT ![u] = TRUE]
       \/ /\ chan = <<>> /\ chanClosed
          /\ w' = [w EXCEPT ![u] = [Empty EXCEPT !.pooled = FALSE]]
          /\ UNCHANGED <<chan, slot>>
    /\ pc' = [pc EXCEPT ![u] = "check"]
    /\ UNCHANGED <<field, chanClosed, conn, closer, panicked>>

(* `case <-ctx.Done()`: the caller's context is done (ErrTimeout).  Go's   *)
(* select picks among ready cases at random, so this may win also when a   *)
(* slot is waiting in the channel.                                         *)
GetTimeout(u) ==
    /\ Running /\ pc[u] = "recv"
    /\ pc' = [pc EXCEPT ![u] = "idle"]
    /\ UNCHANGED <<chan, field, chanClosed, conn, w, slot, closer, panicked>>

\* Mutant: the stale connection dropped from the wrapper without closing it
\* (line 167 dropped).
GetCheckNoClose(u) ==
    /\ Running /\ pc[u] = "check"
    /\ \/ /\ w[u].cc # Nil
          /\ w' = [w EXCEPT ![u].cc = Nil]
       \/ UNCHANGED w
    /\ pc' = [pc EXCEPT ![u] = IF w'[u].cc = Nil THEN "factory" ELSE "use"]
    /\ UNCHANGED <<chan, field, chanClosed, conn, slot, closer, panicked>>

\* Mutant: the closed connection left in the wrapper (line 168 dropped).
GetCheckKeepConn(u) ==
    /\ Running /\ pc[u] = "check"
    /\ \/ /\ w[u].cc # Nil
          /\ conn' = [conn EXCEPT ![w[u].cc] = "closed"]
          /\ UNCHANGED w
       \/ UNCHANGED <<conn, w>>
    /\ pc' = [pc EXCEPT ![u] = IF w'[u].cc = Nil THEN "factory" ELSE "use"]
    /\ UNCHANGED <<chan, field, chanClosed, slot, closer, panicked>>

(* needClose: a connection idle longer than idleTimeout, or in             *)
(* TransientFailure or Shutdown, is closed and dropped from the wrapper.   *)
GetCheck(u) ==
    /\ Running /\ pc[u] = "check"
    /\ \/ /\ w[u].cc # Nil
          /\ conn' = [conn EXCEPT ![w[u].cc] = "closed"]
          /\ w' = [w EXCEPT ![u].cc = Nil]
       \/ UNCHANGED <<conn, w>>
    /\ pc' = [pc EXCEPT ![u] = IF w'[u].cc = Nil THEN "factory" ELSE "use"]
    /\ UNCHANGED <<chan, field, chanClosed, slot, closer, panicked>>

\* Mutant: no placeholder put back when the factory fails.
GetFactoryNoPlaceholder(u) ==
    /\ Running /\ pc[u] = "factory"
    /\ \/ \E c \in Conns :
            /\ conn[c] = "unborn" /\ \A d \in Conns : d < c => conn[d] # "unborn"
            /\ conn' = [conn EXCEPT ![c] = "open"]
            /\ w' = [w EXCEPT ![u].cc = c]
            /\ pc' = [pc EXCEPT ![u] = "use"]
            /\ UNCHANGED <<chan, slot, panicked>>
       \/ /\ pc' = [pc EXCEPT ![u] = "idle"]
          /\ slot' = [slot EXCEPT ![u] = FALSE]
          /\ UNCHANGED <<chan, conn, w, panicked>>
    /\ UNCHANGED <<field, chanClosed, closer>>

(* p.factory(ctx) for an empty slot.  On success the user holds the new    *)
(* connection.  On error an empty slot is sent back on the `clients` Get   *)
(* read at its start (a send on that channel once closed panics) and the   *)
(* error is returned.                                                      *)
GetFactory(u) ==
    /\ Running /\ pc[u] = "factory"
    /\ \/ \E c \in Conns :
            /\ conn[c] = "unborn" /\ \A d \in Conns : d < c => conn[d] # "unborn"
            /\ conn' = [conn EXCEPT ![c] = "open"]
            /\ w' = [w EXCEPT ![u].cc = c]
            /\ pc' = [pc EXCEPT ![u] = "use"]
            /\ UNCHANGED <<chan, slot, panicked>>
       \/ /\ chanClosed
          /\ panicked' = TRUE
          /\ UNCHANGED <<chan, pc, slot, conn, w>>
       \/ /\ ~chanClosed /\ Len(chan) < Capacity
          /\ chan' = Append(chan, Nil)
          /\ pc' = [pc EXCEPT ![u] = "idle"]
          /\ slot' = [slot EXCEPT ![u] = FALSE]
          /\ UNCHANGED <<conn, w, panicked>>
    /\ UNCHANGED <<field, chanClosed, closer>>

-----------------------------------------------------------------------------
(* The caller's use of a held connection: a failed call (ErrorCountInc), a *)
(* successful one (ErrorCountReset), Unhealthy().                          *)
ErrorCountInc(u) ==
    /\ Running /\ pc[u] = "use" /\ w[u].err < MaxErrorCount
    /\ w' = [w EXCEPT ![u].err = @ + 1]
    /\ UNCHANGED <<chan, field, chanClosed, conn, pc, slot, closer, panicked>>

ErrorCountReset(u) ==
    /\ Running /\ pc[u] = "use" /\ w[u].err > 0
    /\ w' = [w EXCEPT ![u].err = 0]
    /\ UNCHANGED <<chan, field, chanClosed, conn, pc, slot, closer, panicked>>

Unhealthy(u) ==
    /\ Running /\ pc[u] = "use" /\ ~w[u].unhealthy
    /\ w' = [w EXCEPT ![u].unhealthy = TRUE]
    /\ UNCHANGED <<chan, field, chanClosed, conn, pc, slot, closer, panicked>>

(* ClientConn.Close up to the send: a wrapper whose ClientConn is nil      *)
(* answers ErrAlreadyClosed; a closed pool (nil pool pointer or nil        *)
(* p.clients, read under the lock) answers ErrClosed, and the connection   *)
(* stays open.                                                             *)
CloseCheck(u) ==
    /\ Running /\ pc[u] \in {"use", "closed"}
    /\ pc' = [pc EXCEPT ![u] =
                IF w[u].cc = Nil \/ ~w[u].pooled \/ field = "nil" THEN "closed"
                ELSE "send"]
    /\ slot' = [slot EXCEPT ![u] = IF pc'[u] = "closed" THEN FALSE ELSE @]
    /\ UNCHANGED <<chan, field, chanClosed, conn, w, closer, panicked>>

\* Mutant: `c.ClientConn = nil` after the send left out (line 265).
CloseSendKeepConn(u) ==
    /\ Running /\ pc[u] = "send"
    /\ \E expired \in BOOLEAN, seen \in IF field = "set" THEN {"set"} ELSE {"set", "nil"} :
         LET bad == w[u].unhealthy \/ w[u].err >= MaxErrorCount \/ expired
             back == IF bad THEN Nil ELSE w[u].cc IN
         /\ conn' = IF bad THEN [conn EXCEPT ![w[u].cc] = "closed"] ELSE conn
         /\ \/ /\ seen = "set" /\ chanClosed
               /\ panicked' = TRUE
               /\ UNCHANGED <<chan, w, slot, pc>>
            \/ /\ seen = "set" /\ ~chanClosed /\ Len(chan) < Capacity
               /\ chan' = Append(chan, back)
               /\ pc' = [pc EXCEPT ![u] = "closed"]
               /\ slot' = [slot EXCEPT ![u] = FALSE]
               /\ UNCHANGED <<w, panicked>>
            \/ /\ seen = "nil" \/ Len(chan) = Capacity
               /\ pc' = [pc EXCEPT ![u] = "closed"]
               /\ slot' = [slot EXCEPT ![u] = FALSE]
               /\ UNCHANGED <<chan, w, panicked>>
    /\ UNCHANGED <<field, chanClosed, closer>>

(***************************************************************************)
(* ClientConn.Close from the lifetime check to the end.  A wrapper past    *)
(* maxLifeDuration, marked Unhealthy or with errorCount >= MaxErrorCount   *)
(* has its connection closed and an empty slot returned; otherwise the     *)
(* connection is returned.  The send reads c.pool.clients without the      *)
(* lock: after Pool.Close set it nil the read may see nil or, as a data    *)
(* race may, the old channel.  A send on the closed channel panics; on nil *)
(* or a full channel the select takes default (ErrFullPool).  On success   *)
(* the wrapper's ClientConn is set nil.  The new wrapper carries neither   *)
(* errorCount nor unhealthy.                                               *)
(***************************************************************************)
CloseSend(u) ==
    /\ Running /\ pc[u] = "send"
    /\ \E expired \in BOOLEAN, seen \in IF field = "set" THEN {"set"} ELSE {"set", "nil"} :
         LET bad == w[u].unhealthy \/ w[u].err >= MaxErrorCount \/ expired
             back == IF bad THEN Nil ELSE w[u].cc IN
         /\ conn' = IF bad THEN [conn EXCEPT ![w[u].cc] = "closed"] ELSE conn
         /\ \/ /\ seen = "set" /\ chanClosed
               /\ panicked' = TRUE
               /\ UNCHANGED <<chan, w, slot, pc>>
            \/ /\ seen = "set" /\ ~chanClosed /\ Len(chan) < Capacity
               /\ chan' = Append(chan, back)
               /\ w' = [w EXCEPT ![u].cc = Nil]
               /\ pc' = [pc EXCEPT ![u] = "closed"]
               /\ slot' = [slot EXCEPT ![u] = FALSE]
               /\ UNCHANGED panicked
            \/ /\ seen = "nil" \/ Len(chan) = Capacity
               /\ pc' = [pc EXCEPT ![u] = "closed"]
               /\ slot' = [slot EXCEPT ![u] = FALSE]
               /\ UNCHANGED <<chan, w, panicked>>
    /\ UNCHANGED <<field, chanClosed, closer>>

(* Pool.Close: under the lock p.clients is read and set nil.               *)
PoolCloseStart ==
    /\ Running /\ closer = "idle"
    /\ field' = "nil"
    /\ closer' = "close"
    /\ UNCHANGED <<chan, chanClosed, conn, pc, w, slot, panicked>>

(* close(clients), after the unlock. *)
PoolCloseChan ==
    /\ Running /\ closer = "close"
    /\ chanClosed' = TRUE
    /\ closer' = "drain"
    /\ UNCHANGED <<chan, field, conn, pc, w, slot, panicked>>

(* `for client := range clients`: each buffered slot's connection is       *)
(* closed; the loop ends when the closed channel is empty.                 *)
PoolCloseDrain ==
    /\ Running /\ closer = "drain"
    /\ \/ /\ chan # <<>>
          /\ chan' = Tail(chan)
          /\ conn' = IF Head(chan) = Nil THEN conn
                     ELSE [conn EXCEPT ![Head(chan)] = "closed"]
          /\ UNCHANGED closer
       \/ /\ chan = <<>>
          /\ closer' = "done"
          /\ UNCHANGED <<chan, conn>>
    /\ UNCHANGED <<field, chanClosed, pc, w, slot, panicked>>

Next ==
    \/ \E u \in Users :
         \/ GetStart(u) \/ GetRecv(u) \/ GetTimeout(u) \/ GetCheck(u)
         \/ GetFactory(u) \/ ErrorCountInc(u) \/ ErrorCountReset(u)
         \/ Unhealthy(u) \/ CloseCheck(u) \/ CloseSend(u)
    \/ PoolCloseStart \/ PoolCloseChan \/ PoolCloseDrain

Spec == Init /\ [][Next]_vars

-----------------------------------------------------------------------------
Holding(u) == pc[u] \in {"check", "factory", "use", "send"}

(* While the pool is open every slot is either in the channel or held by   *)
(* exactly one user between Get and ClientConn.Close: Get's factory error  *)
(* path puts a placeholder back, Close returns the slot, unhealthy or not. *)
SlotsConserved ==
    field = "set" => Len(chan) + Cardinality({u \in Users : slot[u]}) = Capacity

(* No connection is handed to two users, or held by one while also waiting *)
(* in the channel: a closed wrapper's ClientConn is set nil so a second    *)
(* Close cannot return it again.                                           *)
ExclusiveUse ==
    \A c \in Conns :
        Cardinality({i \in 1..Len(chan) : chan[i] = c})
          + Cardinality({u \in Users : Holding(u) /\ w[u].cc = c}) <= 1

(* A connection Get hands out is open: needClose drops closed ones, and    *)
(* Pool.Close only closes connections it drained from the channel.         *)
HeldConnsOpen ==
    \A u \in Users : pc[u] = "use" => conn[w[u].cc] = "open"

(* No goroutine sends on the closed channel (a panic of the server).       *)
NoSendOnClosedChannel == ~panicked

(* While the pool is open no gRPC connection leaks: every open connection  *)
(* waits in the channel or is held by a user between Get and Close.  The   *)
(* paths that give a connection up (needClose in Get; an unhealthy,        *)
(* failing or expired wrapper in ClientConn.Close) close it before they    *)
(* drop it, and Get's factory error puts back only an empty slot.          *)
OpenConnsAccounted ==
    field = "set" =>
        \A c \in Conns : conn[c] = "open" =>
            \/ \E i \in 1..Len(chan) : chan[i] = c
            \/ \E u \in Users : Holding(u) /\ w[u].cc = c
=============================================================================
