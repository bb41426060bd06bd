---------------------------- MODULE FramePipeline ----------------------------
(***************************************************************************)
(* The frame pipeline of one connection: the decoder queues frames on the  *)
(* connection context, Processor.process pops them all, processFrames      *)
(* splits the batch with sameFrames into runs of one frame type and        *)
(* submits each run to the frame work pool as its own task, and            *)
(* processSameFrame hands a run to its handler and calls finishFrames      *)
(* (internal/server/processor.go).  The connection context (queue,         *)
(* in-flight count, drain scheduling) and the pool are not in src/ and     *)
(* follow spec 4.1 and 5, except that the pool is modelled as the code     *)
(* uses it: Submit(func()) takes no connection key, so any submitted task  *)
(* may run next.  The handlers of SEND, RECVACK and SUB runs     *)
(* collect the run in a slice taken from the frame pool (framepool.go, a   *)
(* sync.Pool per packet type) and put it back after the handler returns.   *)
(***************************************************************************)
EXTENDS Naturals, Sequences, SequencesExt

CONSTANTS
    FrameTypes,       \* frame types a client may send
    MaxFrames         \* frames one connection sends in a behaviour

VARIABLES
    arrived,   \* arrived[i]: type of the i-th frame the decoder produced
    queue,     \* frames queued on the connection context, not yet popped
    inflight,  \* frames popped and not yet finished (finishFrames)
    pool,      \* runs submitted to the frame work pool, not yet run
    handled,   \* frames handed to handlers, in handling order
    batch,     \* the frames the last process() popped
    runs,      \* the runs processFrames submitted for that batch
    fpool      \* fpool[t]: the slices the frame pool of type t holds

vars == <<arrived, queue, inflight, pool, handled, batch, runs, fpool>>

(* The frame types whose handlers take their slice from the frame pool.    *)
PooledTypes == {"SEND", "RECVACK", "SUB"}

Frames == 1..MaxFrames

TypeOK ==
    /\ arrived \in Seq(FrameTypes) /\ Len(arrived) <= MaxFrames
    /\ queue \in Seq(Frames)
    /\ inflight \in 0..MaxFrames
    /\ pool \in Seq(Seq(Frames))
    /\ handled \in Seq(Frames)
    /\ batch \in Seq(Frames)
    /\ runs \in Seq(Seq(Frames))
    /\ fpool \in [PooledTypes -> SUBSET Seq(Frames)]

Init ==
    /\ arrived = <<>>
    /\ queue = <<>>
    /\ inflight = 0
    /\ pool = <<>>
    /\ handled = <<>>
    /\ batch = <<>>
    /\ runs = <<>>
    /\ fpool = [t \in PooledTypes |-> {}]

-----------------------------------------------------------------------------
\* Mutant: the inner loop never extends a run (one callback per frame).
RunEndFirst(fs, ty, e) == e

(* The inner loop of sameFrames: from index e, advance while the frame has *)
(* the type of the run's first frame fs[1]; the result is the run's end    *)
(* (one past its last frame).                                              *)
RECURSIVE RunEnd(_, _, _)
RunEnd(fs, ty, e) ==
    IF e <= Len(fs) /\ ty[fs[e]] = ty[fs[1]] THEN RunEnd(fs, ty, e + 1) ELSE e

(* sameFrames: the callback's frames[start:end] for each run, in order.    *)
RECURSIVE SameFrames(_, _)
SameFrames(fs, ty) ==
    IF fs = <<>> THEN <<>>
    ELSE LET e == RunEnd(fs, ty, 2) IN
         << SubSeq(fs, 1, e - 1) >> \o SameFrames(SubSeq(fs, e, Len(fs)), ty)

(* The decoder appends a frame and queues it on the connection context.    *)
Receive ==
    /\ Len(arrived) < MaxFrames
    /\ \E t \in FrameTypes : arrived' = Append(arrived, t)
    /\ queue' = Append(queue, Len(arrived) + 1)
    /\ UNCHANGED <<inflight, pool, handled, batch, runs, fpool>>

(* A drain task runs process(): popFrames takes every queued frame, and    *)
(* processFrames submits one pool task per run.  A drain is scheduled only *)
(* when the previous batch is finished (spec 4.1).                         *)
Process ==
    /\ queue # <<>>
    /\ inflight = 0
    /\ batch' = queue
    /\ queue' = <<>>
    /\ inflight' = Len(queue)
    /\ runs' = SameFrames(queue, arrived)
    /\ pool' = pool \o SameFrames(queue, arrived)
    /\ UNCHANGED <<arrived, handled, fpool>>

\* Mutant: finishFrames(len(frames)) subtracting the count twice.
FinishFramesTwice(n) == inflight' = inflight - 2 * n

\* Mutant: finishFrames(1) for every run.
FinishFramesOne(n) == inflight' = inflight - 1

(* connContext.finishFrames(n): n frames of the batch are done.            *)
FinishFrames(n) == inflight' = inflight - n

\* Mutant: the slice put back with its length (the [:0] left out).
ResetKeep(s) == s

(* Put*Packets: the slice goes back to the pool resliced to length zero.   *)
Reset(s) == SubSeq(s, 1, 0)

(* Get*Packets: a slice the pool holds, or a new empty one (sync.Pool may  *)
(* also have dropped what it held).                                        *)
PoolGet(t) == fpool[t] \cup {<<>>}

(* A pool worker runs the task of pool[i]: processSameFrame appends the    *)
(* run to a slice from the frame pool of its type, hands the slice to the  *)
(* handler, puts it back, and calls finishFrames(len(frames)).  Runs of    *)
(* other types are handed over as they are.  The pool has no per-         *)
(* connection key, so any submitted run i may be the next to run.          *)
ProcessSameFrame(i) ==
    /\ i \in 1..Len(pool)
    /\ LET t == arrived[pool[i][1]] IN
       IF t \in PooledTypes
         THEN \E s \in PoolGet(t) :
                /\ handled' = handled \o (s \o pool[i])
                /\ fpool' = [fpool EXCEPT ![t] = (@ \ {s}) \cup {Reset(s \o pool[i])}]
         ELSE /\ handled' = handled \o pool[i]
              /\ UNCHANGED fpool
    /\ FinishFrames(Len(pool[i]))
    /\ pool' = RemoveAt(pool, i)
    /\ UNCHANGED <<arrived, queue, batch, runs>>

Next ==
    \/ Receive
    \/ Process
    \/ \E i \in 1..MaxFrames : ProcessSameFrame(i)

(* The pool runs every submitted task and the connection context schedules *)
(* a drain whenever frames are queued and none are in flight.              *)
Fairness ==
    /\ WF_vars(Process)
    /\ WF_vars(\E i \in 1..MaxFrames : ProcessSameFrame(i))

Spec == Init /\ [][Next]_vars /\ Fairness

-----------------------------------------------------------------------------
(* The reference definition of spec 4.2: rs is the split of fs into        *)
(* maximal runs of one frame type, in order.                               *)
IsMaximalRuns(rs, fs, ty) ==
    /\ FlattenSeq(rs) = fs
    /\ \A j \in 1..Len(rs) :
         /\ rs[j] # <<>>
         /\ \A a, b \in 1..Len(rs[j]) : ty[rs[j][a]] = ty[rs[j][b]]
    /\ \A j \in 1..(Len(rs) - 1) : ty[Last(rs[j])] # ty[rs[j + 1][1]]

(* sameFrames hands processSameFrame exactly the maximal same-type runs of *)
(* every batch process() pops (spec 4.2 and its example in section 8).     *)
RunsAreMaximal == IsMaximalRuns(runs, batch, arrived)

(* Every frame the decoder produced reaches a handler at most once: a     *)
(* slice taken from the frame pool never carries the frames of an earlier  *)
(* run into the next handler call (Put*Packets reslices to [:0]).          *)
HandedOnce ==
    /\ IsInjective(handled)
    /\ Range(handled) \subseteq 1..Len(arrived)

(* Every frame the decoder produced is eventually handed to a handler: the *)
(* in-flight count returns to zero after each batch, so the connection     *)
(* context schedules the next drain and no frame stays queued forever.     *)
EveryFrameHandled ==
    \A f \in Frames : f <= Len(arrived) ~> \E j \in 1..Len(handled) : handled[j] = f
=============================================================================
