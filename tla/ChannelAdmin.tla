---------------------------- MODULE ChannelAdmin ----------------------------
(***************************************************************************)
(* The channel admin HTTP API (internal/server/api_channel.go) and the     *)
(* SEND permission check (Processor.hasPermission, processor.go) on the    *)
(* two copies of a channel's membership: the store's and the channel       *)
(* manager's cached Channel object.                                        *)
(*                                                                         *)
(* Every handler is a sequence of calls, each atomic: a store call (which  *)
(* may fail, ending the request with an error response), GetChannel, or a  *)
(* method of the Channel object GetChannel returned.  Requests are served  *)
(* concurrently by the HTTP server, one per request slot, so the calls of  *)
(* two requests interleave.  A handler is written below as the list of     *)
(* its calls; Exec runs the next call of one request.                      *)
(***************************************************************************)
EXTENDS Naturals, Sequences, SequencesExt, FiniteSets

CONSTANTS
    Uids,         \* user ids
    Keys,         \* channel ids (person ids already canonical: IsFakeChannel)
    ChanType,     \* [Keys -> {"group", "person"}]
    Requests,     \* concurrent request slots of the HTTP server
    Handlers,     \* the requests clients may send (records, see below)
    StoreCanFail  \* whether a store call may return an error

Lists == {"sub", "allow", "deny"}       \* persisted membership sets
CacheLists == Lists \cup {"tmp"}        \* tmpSubscribers live only in cache

VARIABLES
    store,    \* store[k]: [exists, sub, allow, deny] (spec 6 store API)
    cache,    \* cache[k]: [on, sub, tmp, allow, deny]; on = FALSE: not cached
    req,      \* req[r]: the request a slot serves and its local variables
    panicked, \* a handler dereferenced a nil *Channel
    storeErr  \* ghost: some store call has returned an error

vars == <<store, cache, req, panicked, storeErr>>

StoreRec == [exists : BOOLEAN, sub : SUBSET Uids, allow : SUBSET Uids,
             deny : SUBSET Uids]
CacheRec == [on : BOOLEAN, sub : SUBSET Uids, tmp : SUBSET Uids,
             allow : SUBSET Uids, deny : SUBSET Uids]
Call == [side : {"store", "cache", "get", "getChecked", "evict"},
         call : STRING, list : CacheLists \cup {"none"},
         uids : SUBSET Uids, key : Keys]
Status == {"idle", "busy", "ok", "err"}

(* The request of a slot that has served none yet. *)
NoHandler == [op |-> "none", key |-> CHOOSE k \in Keys : TRUE, list |-> "none",
              uids |-> {}, tmp |-> FALSE, reset |-> FALSE]

TypeOK ==
    /\ store \in [Keys -> StoreRec]
    /\ cache \in [Keys -> CacheRec]
    /\ req \in [Requests -> [h : Handlers \cup {NoHandler}, ops : Seq(Call),
                             status : Status, exist : SUBSET Uids,
                             nil : BOOLEAN, stale : BOOLEAN]]
    /\ panicked \in BOOLEAN
    /\ storeErr \in BOOLEAN

Uncached == [on |-> FALSE, sub |-> {}, tmp |-> {}, allow |-> {}, deny |-> {}]

Init ==
    /\ store \in [Keys -> {s \in StoreRec : s.allow = {} /\ s.deny = {}
                                            /\ (~s.exists => s.sub = {})}]
    /\ cache = [k \in Keys |-> Uncached]
    /\ req = [r \in Requests |-> [h |-> NoHandler, ops |-> <<>>, status |-> "idle",
                                  exist |-> {}, nil |-> FALSE, stale |-> FALSE]]
    /\ panicked = FALSE
    /\ storeErr = FALSE

-----------------------------------------------------------------------------
(* Calls.  S: a store call; C: a method of the Channel object; Get:        *)
(* channelManager.GetChannel with (Checked) or without a nil check.       *)
S(k, call, list, u) == [side |-> "store", call |-> call, list |-> list, uids |-> u, key |-> k]
C(k, call, list, u) == [side |-> "cache", call |-> call, list |-> list, uids |-> u, key |-> k]
Get(k) == [side |-> "get", call |-> "", list |-> "none", uids |-> {}, key |-> k]
GetChecked(k) == [Get(k) EXCEPT !.side = "getChecked"]
Evict(k) == [Get(k) EXCEPT !.side = "evict"]

(* The calls of `if cond { call }`. *)
If(cond, calls) == IF cond THEN calls ELSE <<>>

(* One call per element of the request's uid list, in request order.       *)
(* calls[u] are the calls of the iteration for u.                          *)
PerUid(U, calls) == FlattenSeq([i \in 1..Cardinality(U) |-> calls[SetToSeq(U)[i]]])

\* Mutant: the cache invalidation after the store rewrite left out.
CreateOrUpdateNoEvict(k, U) ==
    << S(k, "info", "none", {}), S(k, "removeAll", "sub", {}) >>
    \o If(U # {}, << S(k, "add", "sub", U) >>)

(* channelCreateOrUpdate (api_channel.go 74-113), group channels only.     *)
CreateOrUpdate(k, U) ==
    << S(k, "info", "none", {}), S(k, "removeAll", "sub", {}) >>
    \o If(U # {}, << S(k, "add", "sub", U) >>) \o << Evict(k) >>

(* updateOrAddChannelInfo (116-136): the cached ChannelInfo is replaced;   *)
(* the membership sets are untouched.                                      *)
UpdateInfo(k) == << S(k, "info", "none", {}) >>

(* addSubscriber with addTmpSubscriberWithReq / addSubscriberWithReq.      *)
AddSubscriber(k, U, tmp, reset) ==
    << GetChecked(k) >> \o
    IF tmp THEN If(reset, << C(k, "removeAll", "tmp", {}) >>) \o << C(k, "add", "tmp", U) >>
    ELSE IF reset THEN << S(k, "removeAll", "sub", {}), C(k, "removeAll", "sub", {}),
                         S(k, "addNew", "sub", U), C(k, "addNew", "sub", U) >>
    ELSE << S(k, "get", "sub", {}), S(k, "addNew", "sub", U), C(k, "addNew", "sub", U) >>

(* removeSubscriber (234-275); DeleteConversation only changes the reply.  *)
RemoveSubscriber(k, U, tmp) ==
    << GetChecked(k) >> \o
    IF tmp THEN << C(k, "remove", "tmp", U) >>
    ELSE << S(k, "remove", "sub", U), C(k, "remove", "sub", U) >>

\* Mutant: the group branch written like the person branch, one uid per
\* iteration with RemoveAll before each.
ListSetPerUid(k, l, U) ==
    PerUid(U, [u \in U |-> << S(k, "removeAll", l, {}), S(k, "add", l, {u}),
                             Get(k), C(k, "set", l, {u}) >>])

(* blacklist/whitelist add, set and remove of a group channel: the store   *)
(* call(s), GetChannel, then the Channel method, unchecked for nil.        *)
ListAdd(k, l, U) == << S(k, "add", l, U), Get(k), C(k, "add", l, U) >>
ListSet(k, l, U) ==
    << S(k, "removeAll", l, {}) >> \o If(U # {}, << S(k, "add", l, U) >>)
    \o << Get(k), C(k, "set", l, U) >>
ListRemove(k, l, U) == << S(k, "remove", l, U), Get(k), C(k, "remove", l, U) >>

(* The person-channel branches of blacklistAdd/Set/Remove loop over the    *)
(* uids; with IsFakeChannel(channelID) every iteration uses channelID.     *)
PersonDenyAdd(k, U) == PerUid(U, [u \in U |-> ListAdd(k, "deny", {u})])
PersonDenySet(k, U) ==
    PerUid(U, [u \in U |-> << S(k, "removeAll", "deny", {}), S(k, "add", "deny", {u}),
                             Get(k), C(k, "set", "deny", {u}) >>])
PersonDenyRemove(k, U) == PerUid(U, [u \in U |-> ListRemove(k, "deny", {u})])

(* channelDelete (448-463). *)
Delete(k) == << S(k, "delete", "none", {}), Evict(k) >>

(* The calls of a request h.  Handlers are records                         *)
(* [op, key, list, uids, tmp, reset]; the checks that reject a request     *)
(* before any call (bad JSON, req.Check, person channel where refused,     *)
(* empty uids of blacklistAdd) make no call and are not listed.            *)
Calls(h) ==
    LET k == h.key  U == h.uids  person == ChanType[k] = "person" IN
    CASE h.op = "createOrUpdate" -> CreateOrUpdate(k, U)
      [] h.op = "updateInfo"     -> UpdateInfo(k)
      [] h.op = "subscriberAdd"  -> AddSubscriber(k, U, h.tmp, h.reset)
      [] h.op = "subscriberRemove" -> RemoveSubscriber(k, U, h.tmp)
      [] h.op = "listAdd" -> IF person /\ h.list = "deny" THEN PersonDenyAdd(k, U)
                             ELSE ListAdd(k, h.list, U)
      [] h.op = "listSet" -> IF person /\ h.list = "deny" THEN PersonDenySet(k, U)
                             ELSE ListSet(k, h.list, U)
      [] h.op = "listRemove" -> IF person /\ h.list = "deny" THEN PersonDenyRemove(k, U)
                                ELSE ListRemove(k, h.list, U)
      [] h.op = "delete" -> Delete(k)

-----------------------------------------------------------------------------
(* A membership set after one store call or Channel method: Add*, Remove*, *)
(* RemoveAll*, Set*, and addSubscriberWithReq's AddSubscribers of the uids *)
(* not in existSubscribers.                                                *)
Upd(set, call, U, exist) ==
    CASE call = "add"       -> set \cup U
      [] call = "remove"    -> set \ U
      [] call = "removeAll" -> {}
      [] call = "set"       -> U
      [] call = "addNew"    -> set \cup (U \ exist)
      [] OTHER              -> set

(* A store call: AddOrUpdateChannel marks the channel existing,            *)
(* DeleteChannelAndClearMessages removes it, GetSubscribers reads only.    *)
StoreApply(s, o, exist) ==
    CASE o.call = "info"   -> [s EXCEPT !.exists = TRUE]
      [] o.call = "delete" -> [exists |-> FALSE, sub |-> {}, allow |-> {}, deny |-> {}]
      [] o.list \in Lists  -> [s EXCEPT ![o.list] = Upd(s[o.list], o.call, o.uids, exist)]
      [] OTHER             -> s

\* Mutant: the stored record cached as is, without the Channel fields.
LoadRaw(s) == s

(* A Channel materialized from the store on a cache miss.                  *)
Load(s) == [on |-> TRUE, sub |-> s.sub, tmp |-> {}, allow |-> s.allow, deny |-> s.deny]

(* `if len(newSubscribers) > 0`: an empty AddSubscribers is not called.    *)
Skipped(o, exist) == o.call = "addNew" /\ o.uids \ exist = {}

Head1(r) == Head(req[r].ops)

(* The request moves past its next call; the last one answers OK.          *)
Advance(r, exist, nil, stale) ==
    req' = [req EXCEPT ![r] = [@ EXCEPT !.ops = Tail(@), !.exist = exist,
                                 !.nil = nil, !.stale = stale,
                                 !.status = IF Len(req[r].ops) = 1 THEN "ok" ELSE "busy"]]

(* An error response: the handler returns.                                 *)
Fail(r) == req' = [req EXCEPT ![r] = [@ EXCEPT !.ops = <<>>, !.status = "err"]]

Start(r) ==
    /\ req[r].status # "busy"
    /\ \E h \in Handlers :
         req' = [req EXCEPT ![r] = [h |-> h, ops |-> Calls(h), exist |-> {},
                                    nil |-> FALSE, stale |-> FALSE,
                                    status |-> IF Calls(h) = <<>> THEN "ok" ELSE "busy"]]
    /\ UNCHANGED <<store, cache, panicked, storeErr>>

ExecStore(r) ==
    LET o == Head1(r)  k == o.key  x == req[r] IN
    /\ x.status = "busy" /\ o.side = "store"
    /\ store' = [store EXCEPT ![k] = StoreApply(@, o, x.exist)]
    /\ Advance(r, IF o.call = "get" THEN store[k].sub ELSE x.exist, x.nil, x.stale)
    /\ UNCHANGED <<cache, panicked, storeErr>>

(* A store call returns an error (every `if err != nil` after one).        *)
ExecStoreFail(r) ==
    LET o == Head1(r) IN
    /\ StoreCanFail
    /\ req[r].status = "busy" /\ o.side = "store" /\ ~Skipped(o, req[r].exist)
    /\ Fail(r)
    /\ storeErr' = TRUE
    /\ UNCHANGED <<store, cache, panicked>>

(* channelManager.GetChannel: the cached object, else one loaded from the  *)
(* store, else nil; the checked form answers an error for nil.             *)
ExecGet(r) ==
    LET o == Head1(r)  k == o.key  x == req[r] IN
    /\ x.status = "busy" /\ o.side \in {"get", "getChecked"}
    /\ \/ /\ cache[k].on
          /\ Advance(r, x.exist, FALSE, FALSE) /\ UNCHANGED cache
       \/ /\ ~cache[k].on /\ store[k].exists
          /\ cache' = [cache EXCEPT ![k] = Load(store[k])]
          /\ Advance(r, x.exist, FALSE, FALSE)
       \/ /\ ~cache[k].on /\ ~store[k].exists
          /\ IF o.side = "getChecked" THEN Fail(r) ELSE Advance(r, x.exist, TRUE, FALSE)
          /\ UNCHANGED cache
    /\ UNCHANGED <<store, panicked, storeErr>>

(* GetChannel's store read fails on a cache miss.                          *)
ExecGetFail(r) ==
    LET o == Head1(r) IN
    /\ StoreCanFail
    /\ req[r].status = "busy" /\ o.side \in {"get", "getChecked"}
    /\ ~cache[o.key].on
    /\ Fail(r)
    /\ storeErr' = TRUE
    /\ UNCHANGED <<store, cache, panicked>>

(* A method of the Channel object: on nil it panics (the HTTP server       *)
(* recovers and the request ends); on an object evicted since GetChannel   *)
(* it changes that orphan, not the cache.                                  *)
ExecCache(r) ==
    LET o == Head1(r)  k == o.key  x == req[r] IN
    /\ x.status = "busy" /\ o.side = "cache"
    /\ IF x.nil
         THEN /\ panicked' = TRUE /\ Fail(r) /\ UNCHANGED cache
         ELSE /\ cache' = IF x.stale \/ Skipped(o, x.exist) THEN cache
                          ELSE [cache EXCEPT ![k][o.list] = Upd(@, o.call, o.uids, x.exist)]
              /\ Advance(r, x.exist, x.nil, x.stale)
              /\ UNCHANGED panicked
    /\ UNCHANGED <<store, storeErr>>

(* DeleteChannelFromCache / DeleteChannel: the object leaves the cache;    *)
(* requests holding it keep a stale pointer.                               *)
ExecEvict(r) ==
    LET o == Head1(r)  k == o.key IN
    /\ req[r].status = "busy" /\ o.side = "evict"
    /\ cache' = [cache EXCEPT ![k] = Uncached]
    /\ req' = [q \in Requests |->
                 IF q = r THEN [req[r] EXCEPT !.ops = Tail(@),
                                !.status = IF Len(req[r].ops) = 1 THEN "ok" ELSE "busy"]
                 ELSE IF req[q].status = "busy" /\ req[q].h.key = k
                      THEN [req[q] EXCEPT !.stale = TRUE] ELSE req[q]]
    /\ UNCHANGED <<store, panicked, storeErr>>

(* SEND's GetChannel (processor.go 307) materializes a channel on a miss.  *)
CacheLoad(k) ==
    /\ ~cache[k].on /\ store[k].exists
    /\ cache' = [cache EXCEPT ![k] = Load(store[k])]
    /\ UNCHANGED <<store, req, panicked, storeErr>>

Next ==
    \/ \E r \in Requests :
         \/ Start(r) \/ ExecStore(r) \/ ExecStoreFail(r) \/ ExecGet(r)
         \/ ExecGetFail(r) \/ ExecCache(r) \/ ExecEvict(r)
    \/ \E k \in Keys : CacheLoad(k)

Spec == Init /\ [][Next]_vars

-----------------------------------------------------------------------------
(* hasPermission (processor.go 410-426) with Channel.Allow (spec 4.5) on a *)
(* channel's sets: allowlist, then denylist, then for a group the          *)
(* subscribers and tmpSubscribers.                                         *)
Verdict(ch, type, u) ==
    CASE ch.allow # {} /\ u \notin ch.allow -> "NotAllowSend"
      [] u \in ch.deny                      -> "InBlacklist"
      [] type \notin {"person", "info"} /\ u \notin ch.sub \cup ch.tmp
                                            -> "SubscriberNotExist"
      [] OTHER                              -> "Success"

Quiescent == \A r \in Requests : req[r].status # "busy"

(* When no admin request is in flight, every cached channel exists in the  *)
(* store and SEND's permission check on the cached copy answers what it    *)
(* would answer on the store's sets (plus the cache-only tmpSubscribers):  *)
(* the admin handlers write both copies.  Stated for histories in which no *)
(* store call failed: a handler returning on a store error after its       *)
(* first write leaves the copies apart (README, "Known divergences").      *)
CacheAgreesWithStore ==
    (Quiescent /\ ~storeErr) =>
        \A k \in Keys : cache[k].on =>
            /\ store[k].exists
            /\ \A u \in Uids :
                 Verdict(cache[k], ChanType[k], u)
                   = Verdict([sub |-> store[k].sub, tmp |-> cache[k].tmp,
                              allow |-> store[k].allow, deny |-> store[k].deny],
                             ChanType[k], u)

(* A blacklistSet or whitelistSet answered OK leaves exactly the request's *)
(* uids in the list, in the store and in the cache (the API's "set").      *)
ListSetExact ==
    \A r \in Requests :
        LET h == req[r].h IN
        (req[r].status = "ok" /\ h.op = "listSet") =>
            /\ store[h.key][h.list] = h.uids
            /\ cache[h.key].on => cache[h.key][h.list] = h.uids

=============================================================================
