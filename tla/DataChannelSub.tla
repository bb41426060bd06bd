---------------------------- MODULE DataChannelSub ----------------------------
(***************************************************************************)
(* SUB / UNSUB of one data channel (Processor.processSub, internal/server/ *)
(* processor.go 548-617) by the connections of one uid, composed with the  *)
(* CONNECT and close handlers of ConnAuth, whose index ExistConnsWithUID   *)
(* reads.  processSub runs on the pool worker of its connection, in        *)
(* parallel with the handlers of the uid's other connections; it is split  *)
(* at each call on shared state (GetChannel, AddSubscriber,               *)
(* ExistConnsWithUID, RemoveSubscriber, GetAllSubscribers,                 *)
(* RemoveDataChannel).  The channel manager is not in src/: GetChannel of  *)
(* a data channel returns the registered object, or materializes a new     *)
(* one (spec 4.9, "data (ephemeral pub/sub)"), or fails; RemoveDataChannel *)
(* unregisters whatever object is registered under the id.  Channel        *)
(* objects are numbered by generation; the uid is the only subscriber the  *)
(* model tells apart.                                                      *)
(***************************************************************************)
EXTENDS Naturals

CONSTANTS Conns, DeviceIDs, DeviceLevels, NoDevice, LoopVarPerIteration,
          MaxGen,        \* channel objects materialized in a behaviour
          MaxSubFrames   \* SUB frames one connection sends

VARIABLES phase, closed, dev, level, index, seen, closeAt,
    reg,     \* generation registered under the channel id, 0: none
    gens,    \* generations materialized so far
    member,  \* member[g]: the uid is in object g's subscribers
    rec,     \* rec[c]: c's connContext records the subscription
    spc,     \* where processSub of c is
    obj,     \* the channel object c's processSub got from GetChannel
    frames   \* SUB frames c has sent

Auth == INSTANCE ConnAuth

authVars == <<phase, closed, dev, level, index, seen, closeAt>>
subVars == <<reg, gens, member, rec, spc, obj, frames>>
vars == <<authVars, subVars>>

Gens == 1..MaxGen

TypeOK ==
    /\ Auth!TypeOK
    /\ reg \in 0..MaxGen /\ gens \in 0..MaxGen
    /\ member \in [Gens -> BOOLEAN]
    /\ rec \in [Conns -> BOOLEAN]
    /\ spc \in [Conns -> {"idle", "sub", "unsub", "remove", "emptyCheck",
                          "evict", "record"}]
    /\ obj \in [Conns -> 0..MaxGen]
    /\ frames \in [Conns -> 0..MaxSubFrames]

Init ==
    /\ Auth!Init
    /\ reg = 0 /\ gens = 0
    /\ member = [g \in Gens |-> FALSE]
    /\ rec = [c \in Conns |-> FALSE]
    /\ spc = [c \in Conns |-> "idle"]
    /\ obj = [c \in Conns |-> 0]
    /\ frames = [c \in Conns |-> 0]

-----------------------------------------------------------------------------
(* A SUB frame of an authed, open connection.  The early returns (channel  *)
(* id not a URL or empty: no suback; not a data channel:                   *)
(* NotSupportChannelType; GetChannel error: SystemError; no channel:       *)
(* ChannelNotExist) change nothing.  Otherwise GetChannel yields the       *)
(* object c works on, and c goes on to subscribe or unsubscribe.           *)
SubFrame(c) ==
    /\ phase[c] = "authed" /\ c \notin closed
    /\ spc[c] = "idle" /\ frames[c] < MaxSubFrames
    /\ frames' = [frames EXCEPT ![c] = @ + 1]
    /\ \/ UNCHANGED <<reg, gens, spc, obj>>
       \/ /\ reg # 0
          /\ obj' = [obj EXCEPT ![c] = reg]
          /\ spc' \in {[spc EXCEPT ![c] = a] : a \in {"sub", "unsub"}}
          /\ UNCHANGED <<reg, gens>>
       \/ /\ reg = 0 /\ gens < MaxGen
          /\ gens' = gens + 1 /\ reg' = gens + 1
          /\ obj' = [obj EXCEPT ![c] = gens + 1]
          /\ spc' \in {[spc EXCEPT ![c] = a] : a \in {"sub", "unsub"}}
    /\ UNCHANGED <<authVars, member, rec>>

(* Subscribe: channel.AddSubscriber(uid), connCtx.subscribeChannel, and a  *)
(* Success suback.                                                         *)
Subscribe(c) ==
    /\ spc[c] = "sub"
    /\ member' = [member EXCEPT ![obj[c]] = TRUE]
    /\ rec' = [rec EXCEPT ![c] = TRUE]
    /\ spc' = [spc EXCEPT ![c] = "idle"]
    /\ UNCHANGED <<authVars, reg, gens, obj, frames>>

(* Unsubscribe, first call: ExistConnsWithUID(uid) on the index.           *)
UnsubExist(c) ==
    /\ spc[c] = "unsub"
    /\ spc' = [spc EXCEPT ![c] = IF index = {} THEN "remove" ELSE "emptyCheck"]
    /\ UNCHANGED <<authVars, reg, gens, member, rec, obj, frames>>

(* channel.RemoveSubscriber(uid), when no connection of the uid existed.   *)
UnsubRemove(c) ==
    /\ spc[c] = "remove"
    /\ member' = [member EXCEPT ![obj[c]] = FALSE]
    /\ spc' = [spc EXCEPT ![c] = "emptyCheck"]
    /\ UNCHANGED <<authVars, reg, gens, rec, obj, frames>>

(* len(channel.GetAllSubscribers()) == 0 on c's object.                    *)
UnsubEmptyCheck(c) ==
    /\ spc[c] = "emptyCheck"
    /\ spc' = [spc EXCEPT ![c] = IF member[obj[c]] THEN "record" ELSE "evict"]
    /\ UNCHANGED <<authVars, reg, gens, member, rec, obj, frames>>

(* channelManager.RemoveDataChannel(channelID, channelType).               *)
UnsubEvict(c) ==
    /\ spc[c] = "evict"
    /\ reg' = 0
    /\ spc' = [spc EXCEPT ![c] = "record"]
    /\ UNCHANGED <<authVars, gens, member, rec, obj, frames>>

(* connCtx.unscribeChannel and a Success suback.                           *)
UnsubRecord(c) ==
    /\ spc[c] = "record"
    /\ rec' = [rec EXCEPT ![c] = FALSE]
    /\ spc' = [spc EXCEPT ![c] = "idle"]
    /\ UNCHANGED <<authVars, reg, gens, member, obj, frames>>

(* processClose also releases the connContext, and its subscription        *)
(* records with it (spec 3: "subscriptions torn down"); a close of a      *)
(* closed connection runs no processClose.                                 *)
Release(c) == rec' = IF c \in closed THEN rec ELSE [rec EXCEPT ![c] = FALSE]

Next ==
    \E c \in Conns :
        \/ (Auth!AuthRead(c) \/ Auth!AuthReject(c) \/ Auth!AuthKick(c))
             /\ UNCHANGED subVars
        \/ (Auth!ClientClose(c) \/ Auth!TimerClose(c))
             /\ Release(c) /\ UNCHANGED <<reg, gens, member, spc, obj, frames>>
        \/ SubFrame(c) \/ Subscribe(c)
        \/ UnsubExist(c) \/ UnsubRemove(c) \/ UnsubEmptyCheck(c)
        \/ UnsubEvict(c) \/ UnsubRecord(c)

Spec == Init /\ [][Next]_vars

-----------------------------------------------------------------------------
(* Spec 4.6: the uid stays a subscriber of the registered data channel as *)
(* long as one of its indexed connections holds a subscription, so that   *)
(* publishes reach it.  An UNSUB of another, kicked or closing, connection *)
(* of the uid checks the index and the subscriber count and then removes   *)
(* the subscriber or the channel in separate calls, while a new login of  *)
(* the uid subscribes in between.                                          *)
IndexedSubscriberLive ==
    \A c \in index :
        (rec[c] /\ spc[c] = "idle") => (reg # 0 /\ member[reg])
=============================================================================
