------------------------------ MODULE ConnAuth ------------------------------
(***************************************************************************)
(* The CONNECT handler Processor.processAuth and the close handler         *)
(* Processor.processClose (internal/server/processor.go) acting on the     *)
(* connection manager's index, for the connections of one                 *)
(* (uid, deviceFlag).  Kicks only relate connections of the same uid and   *)
(* device flag (GetConnsWith filters by both), so other pairs are          *)
(* independent copies of this one.                                         *)
(*                                                                         *)
(* processAuth runs on the goroutine of its connection, concurrently with  *)
(* the handlers of other connections; it is split at the one read of      *)
(* shared state that its later writes depend on, GetConnsWith.  The kick   *)
(* closes run later on the timing wheel.                                   *)
(***************************************************************************)
EXTENDS Naturals, FiniteSets

CONSTANTS
    Conns,               \* connection ids (model values)
    DeviceIDs,           \* device ids a client may present
    DeviceLevels,        \* levels a login may get: subset of {Slave, Master}
    NoDevice,            \* deviceID of a connection that has not connected
    LoopVarPerIteration  \* TRUE: Go >= 1.22 range variables; FALSE: earlier Go

(* okproto.DeviceLevel values: the byte conn.SetDeviceLevel stores.       *)
Slave == 0
Master == 1

ASSUME DeviceLevels \subseteq {Slave, Master} /\ DeviceLevels # {}
ASSUME LoopVarPerIteration \in BOOLEAN
ASSUME NoDevice \notin DeviceIDs

VARIABLES
    phase,    \* progress of processAuth on each connection
    closed,   \* connections whose socket is closed (processClose has run)
    dev,      \* conn.DeviceID(), set by processAuth
    level,    \* the device level processAuth computed
    index,    \* connections indexed by the connection manager (spec 4.3.6)
    seen,     \* oldConns: what GetConnsWith returned to processAuth
    closeAt   \* connections whose close is scheduled on the timing wheel

vars == <<phase, closed, dev, level, index, seen, closeAt>>

Phases == {"new", "authing", "authed", "rejected"}

TypeOK ==
    /\ phase \in [Conns -> Phases]
    /\ closed \subseteq Conns
    /\ dev \in [Conns -> DeviceIDs \cup {NoDevice}]
    /\ level \in [Conns -> DeviceLevels \cup {Slave}]
    /\ index \subseteq Conns
    /\ seen \in [Conns -> SUBSET Conns]
    /\ closeAt \subseteq Conns

Init ==
    /\ phase = [c \in Conns |-> "new"]
    /\ closed = {}
    /\ dev = [c \in Conns |-> NoDevice]
    /\ level = [c \in Conns |-> Slave]
    /\ index = {}
    /\ seen = [c \in Conns |-> {}]
    /\ closeAt = {}

\* Mutant: the stored level byte taken without a range check.
AuthReadRawLevel(c) ==
    /\ phase[c] = "new"
    /\ c \notin closed
    /\ \E d \in DeviceIDs, l \in 0..2 :
         /\ dev' = [dev EXCEPT ![c] = d]
         /\ level' = [level EXCEPT ![c] = l]
    /\ seen' = [seen EXCEPT ![c] = index]
    /\ phase' = [phase EXCEPT ![c] = "authing"]
    /\ UNCHANGED <<closed, index, closeAt>>

(***************************************************************************)
(* processAuth up to GetConnsWith: empty clientKey, manager token, user    *)
(* token and ban checks all pass; the device level is Slave for the        *)
(* manager uid and without token auth, else the stored level of            *)
(* (uid, deviceFlag).  The old connections of (uid, deviceFlag) are read.  *)
(***************************************************************************)
AuthRead(c) ==
    /\ phase[c] = "new"
    /\ c \notin closed
    /\ \E d \in DeviceIDs, l \in DeviceLevels :
         /\ dev' = [dev EXCEPT ![c] = d]
         /\ level' = [level EXCEPT ![c] = l]
    /\ seen' = [seen EXCEPT ![c] = index]
    /\ phase' = [phase EXCEPT ![c] = "authing"]
    /\ UNCHANGED <<closed, index, closeAt>>

(* One of the early returns of processAuth: empty clientKey, wrong manager *)
(* or user token, token lookup error, ban, or bad clientKey encoding.  A   *)
(* connack with AuthFail or Ban is sent and nothing else changes.          *)
AuthReject(c) ==
    /\ phase[c] = "new"
    /\ c \notin closed
    /\ phase' = [phase EXCEPT ![c] = "rejected"]
    /\ UNCHANGED <<closed, dev, level, index, seen, closeAt>>

(* The connections the kick loop removes from the index: all old          *)
(* connections for a Master login, those of the same deviceID for Slave.  *)
Kicked(c) ==
    CASE level[c] = Master -> seen[c]
      [] level[c] = Slave  -> {o \in seen[c] : dev[o] = dev[c]}
      [] OTHER             -> {}

\* Mutant: the closures of a pre-1.22 build, which all read the loop's one
\* oldConn variable and close its last value.
CloseTargetsLastOnly(c, last) == IF Kicked(c) = {} THEN {} ELSE {last}

\* Mutant: the Slave branch schedules a close for every old connection.
CloseTargetsAllOld(c, last) == seen[c]

(* The connections the timing-wheel closures close.  Each closure reads    *)
(* the range variable oldConn when it fires: with per-iteration variables  *)
(* that is its own connection; before Go 1.22 it is the one variable of    *)
(* the loop, holding the last element of oldConns (map order: any).        *)
CloseTargets(c, last) ==
    IF LoopVarPerIteration THEN Kicked(c)
    ELSE IF Kicked(c) = {} THEN {} ELSE {last}

(***************************************************************************)
(* processAuth from the kick loop to the connack: old connections are      *)
(* removed from the index and their close scheduled (4 s or 5 s later),    *)
(* the connection gets its context and attributes and is indexed with      *)
(* AddConn.  The connack and the online webhook change no modelled state;  *)
(* Disconnect{ConnectKick} to kicked connections of another device is an   *)
(* outgoing frame only.                                                    *)
(***************************************************************************)
AuthKick(c) ==
    /\ phase[c] = "authing"
    /\ \E last \in IF seen[c] = {} THEN {c} ELSE seen[c] :
         closeAt' = closeAt \cup CloseTargets(c, last)
    /\ index' = (index \ Kicked(c)) \cup {c}
    /\ phase' = [phase EXCEPT ![c] = "authed"]
    /\ UNCHANGED <<closed, dev, level, seen>>

(* processClose, run when the socket of c closes: an authed connection     *)
(* (one with a context) is removed from the index.                         *)
ProcessClose(c) ==
    /\ closed' = closed \cup {c}
    /\ index' = IF phase[c] = "authed" THEN index \ {c} ELSE index

(* The peer, the idle timeout or a failed write closes the connection.     *)
ClientClose(c) ==
    /\ c \notin closed
    /\ ProcessClose(c)
    /\ UNCHANGED <<phase, dev, level, seen, closeAt>>

\* Mutant: the closure closes the connection only if it is still indexed.
TimerCloseIfIndexed(c) ==
    /\ c \in closeAt /\ c \in index
    /\ closeAt' = closeAt \ {c}
    /\ IF c \in closed THEN UNCHANGED <<closed, index>> ELSE ProcessClose(c)
    /\ UNCHANGED <<phase, dev, level, seen>>

(* A kick closure fires: oldConn.Close(); closing a closed conn is a no-op.*)
TimerClose(c) ==
    /\ c \in closeAt
    /\ closeAt' = closeAt \ {c}
    /\ IF c \in closed THEN UNCHANGED <<closed, index>> ELSE ProcessClose(c)
    /\ UNCHANGED <<phase, dev, level, seen>>

Next ==
    \E c \in Conns :
        \/ AuthRead(c)
        \/ AuthReject(c)
        \/ AuthKick(c)
        \/ ClientClose(c)
        \/ TimerClose(c)

Fairness ==
    \A c \in Conns : WF_vars(AuthKick(c)) /\ WF_vars(TimerClose(c))

Spec == Init /\ [][Next]_vars /\ Fairness

-----------------------------------------------------------------------------
(* An authed, open connection that is no longer indexed can only have been *)
(* removed by a kick in processAuth, so its close must be scheduled: else  *)
(* it stays open and authed, able to send, but unreachable by delivery.   *)
OrphanHasScheduledClose ==
    \A c \in Conns :
        (phase[c] = "authed" /\ c \notin closed /\ c \notin index)
            => c \in closeAt

(* The kick closures of processAuth only close connections the kick took   *)
(* out of the index, never a live indexed connection of another device.   *)
ScheduledCloseTargetsUnindexed ==
    \A c \in closeAt : c \notin index

(* Every connection a kick removes from the index is eventually closed    *)
(* (spec 8.1: closed within 5 s of the kick), whatever the clients do.     *)
KickedEventuallyClosed ==
    \A c \in Conns :
        (phase[c] = "authed" /\ c \notin index) ~> (c \in closed)

(* Spec 8.1: after a Master login at most one Master connection of the    *)
(* (uid, deviceFlag) is indexed, also when two CONNECTs race.             *)
SingleMasterIndexed ==
    \A a, b \in index :
        (a # b /\ level[a] = Master) => level[b] # Master
=============================================================================
