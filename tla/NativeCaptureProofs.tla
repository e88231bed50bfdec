------------------------ MODULE NativeCaptureProofs ------------------------
(***************************************************************************)
(* Proofs about NativeCapture, for every set of readers and workers, every *)
(* capacity and every configuration.                                       *)
(***************************************************************************)
EXTENDS NativeCapture, SequenceTheorems, FiniteSetTheorems, TLAPS

-----------------------------------------------------------------------------
(* The inductive invariant, in parts *)

StartLabels == StartCalls \cup {"error_lock", "error", "publish_lock", "publish"}
CloseLabels == {"close_stream", "drain", "closed"} \cup CloseCalls
StopLabels  == {"clear_lock", "clear", "notify", "delete"}
Publishing  == pc[Controller] \in {"publish_lock", "publish"}

\* A callback at the queue has a parse attempt in hand.
AttemptInHand == \A w \in Workers : pc[w] \in {"enqueue_lock", "enqueue"} => tries[w] # <<>>

\* The mutex is held by the thread inside a critical section.
Inside == {"error", "publish", "clear", "enqueue", "read", "recheck"}
MutexInv == \A t \in Threads : mutex = t <=> pc[t] \in Inside

\* Which call the controller is in, and what it has found out so far.
CallInv ==
  /\ pc[Controller] \in StartLabels => op = "start" /\ ~started
  /\ pc[Controller] \in CloseLabels => op \in {"start", "stop", "destroy"} /\ (op = "start" => ~started)
  /\ pc[Controller] \in StopLabels => op \in {"stop", "destroy"}
  /\ pc[Controller] \in {"notify", "delete"} => ~started
  /\ pc[Controller] = "delete" => op = "destroy"
  /\ pc[Controller] # "idle" => allocated
  /\ ~allocated => op = "destroy" /\ ~started

\* What a start will report, from the failure on.
ReportInv ==
  /\ pc[Controller] \in {"error_lock", "error"} => failing \in StartCalls /\ status = FailureStatus(failing)
  /\ pc[Controller] \in CloseLabels /\ op = "start" =>
       last_error \in StartCalls /\ status = FailureStatus(last_error)
  /\ pc[Controller] = "idle" /\ op = "start" =>
       IF started THEN status = "PKTMON_OK"
       ELSE last_error \in StartCalls /\ status = FailureStatus(last_error)
  /\ started => last_error = "none"

\* The rung of the ladder the controller stands on.
HeldInv ==
  /\ LayeredHandles
  /\ pc[Controller] = "load" => held = {}
  /\ pc[Controller] \in {"resolve", "initialize"} => held = {"module"}
  /\ pc[Controller] = "create_session" => held = {"module", "api"}
  /\ pc[Controller] \in {"constraints", "create_stream"} => held = {"module", "api", "session"}
  /\ pc[Controller] \in {"attach", "activate", "publish_lock", "publish"} => held = Handles
  /\ pc[Controller] \in {"error_lock", "error"} /\ failing = "load" => held = {}
  /\ pc[Controller] \in {"close_stream", "drain"} /\ started => held = Handles
  /\ pc[Controller] = "close_session" => held \subseteq {"module", "api", "session"}
  /\ pc[Controller] = "uninitialize" => held \subseteq {"module", "api"}
  /\ pc[Controller] = "free_library" => held \subseteq {"module"}
  /\ pc[Controller] \in StopLabels \cup {"closed"} => held = {}
  /\ pc[Controller] = "idle" => held = IF started THEN Handles ELSE {}

\* When PktMonApi may call back.
FlowInv ==
  /\ flow = "on" <=> Publishing \/ (started /\ pc[Controller] \in {"idle", "close_stream"})
  /\ flow = "draining" <=> pc[Controller] = "drain"

\* Callbacks and packets exist only while a capture is being published, runs or
\* is being closed, and they belong to it.
QuietInv ==
  /\ flow = "off" => AllIdle(Workers)
  /\ ~started /\ ~Publishing => queue = <<>> /\ AllIdle(Workers)
  /\ \A w \in Workers : pc[w] # "idle" => packet[w].epoch = epoch

\* A reader sleeps only while the stop that would wake it is still to come.
ReaderInv ==
  /\ Waiters # {} => started \/ ControllerAt("notify")
  /\ op = "destroy" => AllIdle(Readers)

IInv ==
  /\ TypeOK /\ AttemptInHand /\ MutexInv /\ CallInv /\ ReportInv
  /\ HeldInv /\ FlowInv /\ QuietInv /\ QueueIsCurrent /\ ReaderInv /\ NoLostWakeup

-----------------------------------------------------------------------------
(* Lemmas about the operators *)

\* A configuration, whatever the caller put into it, yields a capacity of at
\* least one (apply_capture_config).
LEMMA ApplyConfigType ==
  ASSUME NEW c \in Configs
  PROVE  ApplyConfig(c) \in [capacity: Nat \ {0}, includeEmpty: BOOLEAN]
<1>1. c \in [wellSized: BOOLEAN, capacity: Nat, includeEmpty: BOOLEAN]
  BY InputAssumption
<1>2. DefaultCapacity \in Nat \ {0}
  BY InputAssumption
<1>3. c.wellSized \in BOOLEAN /\ c.capacity \in Nat /\ c.includeEmpty \in BOOLEAN
  BY <1>1
<1>. QED BY <1>2, <1>3 DEF ApplyConfig, DefaultConfig

\* Every element of p is x or an element of q.
OldOrNew(p, q, x) == \A i \in 1 .. Len(p) : p[i] = x \/ \E j \in 1 .. Len(q) : p[i] = q[j]

\* enqueue_packet leaves at most capacity packets, all of them from the queue
\* or the new one.
LEMMA PushProperties ==
  ASSUME NEW S, NEW q \in Seq(S), NEW cap \in Nat \ {0}, NEW x \in S,
         NEW p, p = PushDroppingOldest(q, cap, x)
  PROVE  /\ p \in Seq(S)
         /\ Len(p) <= cap /\ Len(p) <= Len(q) + 1
         /\ OldOrNew(p, q, x)
<1> DEFINE kept == Lesser(Len(q), cap - 1)
           low  == Len(q) - kept + 1
           tail == SubSeq(q, low, Len(q))
<1>1. kept \in Nat /\ kept <= Len(q) /\ kept <= cap - 1
  BY DEF Lesser
<1>2. low \in 1 .. Len(q) + 1
  BY <1>1
<1>3. tail \in Seq(S) /\ Len(tail) = kept /\ \A i \in 1 .. kept : tail[i] = q[low + i - 1]
  BY <1>1, <1>2, SubSeqProperties
<1>4. p = Append(tail, x)
  BY DEF PushDroppingOldest
<1> HIDE DEF kept, tail
<1>5. p \in Seq(S) /\ Len(p) = kept + 1 /\ p[kept + 1] = x /\ \A i \in 1 .. kept : p[i] = tail[i]
  BY <1>1, <1>3, <1>4, AppendProperties
<1>6. ASSUME NEW i \in 1 .. kept PROVE \E j \in 1 .. Len(q) : p[i] = q[j]
  <2>1. p[i] = q[low + i - 1]
    BY <1>3, <1>5
  <2>2. low + i - 1 \in 1 .. Len(q)
    BY <1>1, <1>2
  <2>. QED BY <2>1, <2>2
<1>. QED BY <1>1, <1>5, <1>6 DEF OldOrNew

\* Reading a prefix leaves a sequence and takes a non-empty one.
LEMMA TakeProperties ==
  ASSUME NEW S, NEW q \in Seq(S), q # <<>>, NEW k \in Nat \ {0}
  PROVE  LET n == Lesser(k, Len(q))
         IN /\ n \in 1 .. Len(q)
            /\ SubSeq(q, 1, n) \in Seq(S)
            /\ Len(SubSeq(q, 1, n)) = n
            /\ \A i \in 1 .. n : SubSeq(q, 1, n)[i] = q[i]
            /\ SubSeq(q, n + 1, Len(q)) \in Seq(S)
            /\ Len(SubSeq(q, n + 1, Len(q))) = Len(q) - n
            /\ \A i \in 1 .. Len(q) - n : SubSeq(q, n + 1, Len(q))[i] = q[n + i]
<1> DEFINE n == Lesser(k, Len(q))
<1>1. Len(q) \in Nat \ {0}
  BY EmptySeq
<1>2. n \in 1 .. Len(q)
  BY <1>1 DEF Lesser
<1> HIDE DEF n
<1>3. \A i \in 1 .. Len(q) : q[i] \in S
  OBVIOUS
<1>4. /\ SubSeq(q, 1, n) \in Seq(S)
      /\ Len(SubSeq(q, 1, n)) = n
      /\ \A i \in 1 .. n : SubSeq(q, 1, n)[i] = q[i]
  <2>1. \A i \in 1 .. n : q[i] \in S
    BY <1>2, <1>3
  <2>2. /\ SubSeq(q, 1, n) \in Seq(S)
        /\ Len(SubSeq(q, 1, n)) = IF 1 <= n THEN n - 1 + 1 ELSE 0
        /\ \A i \in 1 .. n - 1 + 1 : SubSeq(q, 1, n)[i] = q[1 + i - 1]
    BY <1>2, <2>1, SubSeqProperties
  <2>. QED BY <1>2, <2>2
<1>5. /\ SubSeq(q, n + 1, Len(q)) \in Seq(S)
      /\ Len(SubSeq(q, n + 1, Len(q))) = Len(q) - n
      /\ \A i \in 1 .. Len(q) - n : SubSeq(q, n + 1, Len(q))[i] = q[n + i]
  <2>1. \A i \in n + 1 .. Len(q) : q[i] \in S
    BY <1>2, <1>3
  <2>2. /\ SubSeq(q, n + 1, Len(q)) \in Seq(S)
        /\ Len(SubSeq(q, n + 1, Len(q))) = IF n + 1 <= Len(q) THEN Len(q) - (n + 1) + 1 ELSE 0
        /\ \A i \in 1 .. Len(q) - (n + 1) + 1 : SubSeq(q, n + 1, Len(q))[i] = q[n + 1 + i - 1]
    BY <1>1, <1>2, <2>1, SubSeqProperties
  <2>. QED BY <1>1, <1>2, <2>2
<1>. QED BY <1>2, <1>4, <1>5 DEF n

-----------------------------------------------------------------------------
(* Type correctness *)

\* A step leaves every thread at a label of its own and the mutex with a thread
\* or with nobody.
LEMMA ThreadTypesKept ==
  ASSUME ThreadTypes, [Next]_vars
  PROVE  ThreadTypes'
<1> USE ThreadsAssumption DEF ThreadTypes, Threads, ControllerAt, ControllerGoes, Unlock
<1>1. ASSUME NEW t \in Threads, Lock(t) PROVE ThreadTypes'
  <2>1. PICK pair \in LockOrder : pc[t] = pair[1] /\ pc' = [pc EXCEPT ![t] = pair[2]]
    BY <1>1 DEF Lock
  <2>2. /\ pair[1] \in ControllerLabels => pair[2] \in ControllerLabels
        /\ pair[1] \in WorkerLabels => pair[2] \in WorkerLabels
        /\ pair[1] \in ReaderLabels => pair[2] \in ReaderLabels
    BY DEF LockOrder, ControllerLabels, WorkerLabels, ReaderLabels, StartCalls, CloseCalls
  <2>. QED BY <1>1, <2>1, <2>2 DEF Lock
<1>2. CASE StartAgain
  BY <1>2 DEF StartAgain, threadVars
<1>3. ASSUME NEW c \in Configs, StartBegin(c) PROVE ThreadTypes'
  BY <1>3 DEF StartBegin, ControllerLabels, StartCalls
<1>4. CASE StartCallSucceeds
  BY <1>4 DEF StartCallSucceeds, ControllerLabels, StartCalls, CallOrder
<1>5. ASSUME NEW filled \in BOOLEAN, StartCallFails(filled) PROVE ThreadTypes'
  BY <1>5 DEF StartCallFails, ControllerLabels
<1>6. CASE SetError
  BY <1>6 DEF SetError, ControllerLabels
<1>7. CASE Publish
  BY <1>7 DEF Publish, ControllerLabels
<1>8. CASE CloseStreamBegin
  BY <1>8 DEF CloseStreamBegin, ControllerLabels, CloseCalls
<1>9. CASE CloseStreamEnd
  BY <1>9 DEF CloseStreamEnd, ControllerLabels, CloseCalls
<1>10. CASE CloseHandle
  BY <1>10 DEF CloseHandle, ControllerLabels, CloseCalls, CloseOrder
<1>11. CASE CloseReturns
  BY <1>11 DEF CloseReturns, ControllerLabels
<1>12. ASSUME NEW call \in {"stop", "destroy"}, StopBegin(call) PROVE ThreadTypes'
  BY <1>12 DEF StopBegin, ControllerLabels
<1>13. CASE StopClear
  BY <1>13 DEF StopClear, ControllerLabels
<1>14. CASE StopNotify
  BY <1>14 DEF StopNotify, Waiters, ControllerLabels, ReaderLabels
<1>15. CASE Delete
  BY <1>15 DEF Delete, ControllerLabels
<1>16. CASE Create
  BY <1>16 DEF Create, threadVars
<1>17. ASSUME NEW w \in Workers, NEW d \in Descriptors, Deliver(w, d) PROVE ThreadTypes'
  BY <1>17 DEF Deliver, WorkerLabels
<1>18. ASSUME NEW w \in Workers, CallbackCheck(w) PROVE ThreadTypes'
  BY <1>18 DEF CallbackCheck, CallbackReturns, WorkerLabels
<1>19. ASSUME NEW w \in Workers, CallbackParse(w) PROVE ThreadTypes'
  BY <1>19 DEF CallbackParse, CallbackReturns, WorkerLabels
<1>20. ASSUME NEW w \in Workers, EnqueueRefused(w) PROVE ThreadTypes'
  BY <1>20 DEF EnqueueRefused, WorkerLabels
<1>21. ASSUME NEW w \in Workers, Enqueue(w) PROVE ThreadTypes'
  BY <1>21 DEF Enqueue, Waiters, WorkerLabels, ReaderLabels
<1>22. ASSUME NEW r \in Readers, NEW call \in ReadApis, NEW n \in 1 .. MaxBatch, ReadCall(r, call, n)
       PROVE ThreadTypes'
  BY <1>22 DEF ReadCall, ReaderLabels
<1>23. ASSUME NEW r \in Readers, ReadFirst(r) PROVE ThreadTypes'
  BY <1>23 DEF ReadFirst, ReadReturnsNothing, Take, ReaderLabels
<1>24. ASSUME NEW r \in Readers, ReadWoken(r) PROVE ThreadTypes'
  BY <1>24 DEF ReadWoken, ReadReturnsNothing, Take, ReaderLabels
<1>25. ASSUME NEW r \in Readers, ReadTimeout(r) PROVE ThreadTypes'
  BY <1>25 DEF ReadTimeout, ReaderLabels
<1>26. ASSUME NEW r \in Readers, Copy(r) PROVE ThreadTypes'
  BY <1>26 DEF Copy, ReaderLabels
<1>27. CASE UNCHANGED vars
  BY <1>27 DEF vars, threadVars
<1>. QED
  BY <1>1, <1>2, <1>3, <1>4, <1>5, <1>6, <1>7, <1>8, <1>9, <1>10, <1>11, <1>12, <1>13, <1>14, <1>15,
     <1>16, <1>17, <1>18, <1>19, <1>20, <1>21, <1>22, <1>23, <1>24, <1>25, <1>26, <1>27
  DEF Next, ControllerCalls, ControllerProceeds, WorkerProceeds, ReaderProceeds

\* A step keeps the types of the controller's variables: no thread but
\* the controller touches them.
LEMMA ControlTypesKept ==
  ASSUME ControlTypes, [Next]_vars
  PROVE  ControlTypes'
<1> USE DEF ControlTypes, controlVars, ControllerAt
<1>1. ASSUME NEW t \in Threads, Lock(t) PROVE ControlTypes'
  BY <1>1 DEF Lock
<1>2. CASE StartAgain
  BY <1>2 DEF StartAgain
<1>3. ASSUME NEW c \in Configs, StartBegin(c) PROVE ControlTypes'
  <2>1. config' \in [capacity: Nat \ {0}, includeEmpty: BOOLEAN]
    BY <1>3, ApplyConfigType DEF StartBegin
  <2>2. /\ allocated' \in BOOLEAN /\ stopping' \in BOOLEAN /\ started' \in BOOLEAN
        /\ op' \in {"create", "start", "stop", "destroy"}
        /\ UNCHANGED <<status, failing, held, last_error, flow>>
    BY ONLY <1>3, ControlTypes DEF StartBegin, ControlTypes
  <2>3. epoch' \in Nat
    BY <1>3 DEF StartBegin
  <2>. QED BY <2>1, <2>2, <2>3
<1>4. CASE StartCallSucceeds
  BY <1>4 DEF StartCallSucceeds, Opens
<1>5. ASSUME NEW filled \in BOOLEAN, StartCallFails(filled) PROVE ControlTypes'
  BY <1>5 DEF StartCallFails, FailureStatus, Opens
<1>6. CASE SetError
  BY <1>6 DEF SetError
<1>7. CASE Publish
  BY <1>7 DEF Publish
<1>8. CASE CloseStreamBegin
  BY <1>8 DEF CloseStreamBegin
<1>9. CASE CloseStreamEnd
  BY <1>9 DEF CloseStreamEnd
<1>10. CASE CloseHandle
  BY <1>10 DEF CloseHandle
<1>11. CASE CloseReturns
  BY <1>11 DEF CloseReturns
<1>12. ASSUME NEW call \in {"stop", "destroy"}, StopBegin(call) PROVE ControlTypes'
  BY <1>12 DEF StopBegin
<1>13. CASE StopClear
  BY <1>13, ZenonT(40) DEF StopClear
<1>14. CASE StopNotify
  BY <1>14 DEF StopNotify
<1>15. CASE Delete
  BY <1>15 DEF Delete
<1>16. CASE Create
  BY <1>16, InputAssumption DEF Create, DefaultConfig
<1>17. ASSUME NEW w \in Workers, NEW d \in Descriptors, Deliver(w, d) PROVE ControlTypes'
  BY <1>17 DEF Deliver
<1>18. ASSUME NEW w \in Workers, WorkerProceeds(w) PROVE ControlTypes'
  BY <1>18 DEF WorkerProceeds, CallbackCheck, CallbackParse, EnqueueRefused, Enqueue
<1>19. ASSUME NEW r \in Readers, NEW call \in ReadApis, NEW n \in 1 .. MaxBatch, ReadCall(r, call, n)
       PROVE ControlTypes'
  BY <1>19 DEF ReadCall
<1>20. ASSUME NEW r \in Readers, ReaderProceeds(r) \/ ReadTimeout(r) PROVE ControlTypes'
  BY <1>20 DEF ReaderProceeds, ReadFirst, ReadWoken, ReadReturnsNothing, Take, ReadTimeout, Copy
<1>21. CASE UNCHANGED vars
  BY <1>21 DEF vars
<1>. QED
  BY <1>1, <1>2, <1>3, <1>4, <1>5, <1>6, <1>7, <1>8, <1>9, <1>10, <1>11, <1>12, <1>13, <1>14, <1>15,
     <1>16, <1>17, <1>18, <1>19, <1>20, <1>21
  DEF Next, ControllerCalls, ControllerProceeds

\* A step keeps the types of the queue and of what threads hold of its packets.
LEMMA PacketTypesKept ==
  ASSUME ControlTypes, PacketTypes, AttemptInHand, [Next]_vars
  PROVE  PacketTypes'
<1> USE DEF PacketTypes, readVars, workVars
<1>1. ASSUME NEW t \in Threads, Lock(t) PROVE PacketTypes'
  BY <1>1 DEF Lock
<1>2. ASSUME StartAgain \/ \E c \in Configs : StartBegin(c) PROVE PacketTypes'
  BY <1>2 DEF StartAgain, StartBegin
<1>3. ASSUME StartCallSucceeds \/ \E filled \in BOOLEAN : StartCallFails(filled) PROVE PacketTypes'
  BY <1>3 DEF StartCallSucceeds, StartCallFails
<1>4. ASSUME SetError \/ Publish PROVE PacketTypes'
  BY <1>4 DEF SetError, Publish
<1>5. ASSUME CloseStreamBegin \/ CloseStreamEnd \/ CloseHandle \/ CloseReturns PROVE PacketTypes'
  BY <1>5 DEF CloseStreamBegin, CloseStreamEnd, CloseHandle, CloseReturns
<1>6. ASSUME (\E call \in {"stop", "destroy"} : StopBegin(call)) \/ StopNotify \/ Delete PROVE PacketTypes'
  BY <1>6 DEF StopBegin, StopNotify, Delete
<1>7. CASE StopClear
  BY <1>7, EmptySeq DEF StopClear
<1>8. CASE Create
  BY <1>8, EmptySeq DEF Create
<1>9. ASSUME NEW w \in Workers, NEW d \in Descriptors, Deliver(w, d) PROVE PacketTypes'
  <2>1. d \in Seq(Outcomes)
    BY InputAssumption
  <2>2. [id |-> arrivals + 1, epoch |-> epoch] \in Packet
    BY DEF Packet, ControlTypes
  <2>. QED BY <1>9, <2>1, <2>2 DEF Deliver
<1>10. ASSUME NEW w \in Workers, CallbackReturns(w), UNCHANGED <<readVars, arrivals, queue>> PROVE PacketTypes'
  <2>1. NoPacket \in Packet
    BY DEF NoPacket, Packet
  <2>. QED BY <1>10, <2>1 DEF CallbackReturns
<1>11. ASSUME NEW w \in Workers, tries[w] # <<>>, tries' = [tries EXCEPT ![w] = Tail(@)],
              UNCHANGED <<readVars, packet, arrivals, queue>>
       PROVE  PacketTypes'
  <2>1. Tail(tries[w]) \in Seq(Outcomes)
    BY <1>11, HeadTailProperties
  <2>. QED BY <1>11, <2>1
<1>12. ASSUME NEW w \in Workers, CallbackCheck(w) PROVE PacketTypes'
  BY <1>10, <1>12 DEF CallbackCheck
<1>13. ASSUME NEW w \in Workers, CallbackParse(w) PROVE PacketTypes'
  BY <1>10, <1>11, <1>13 DEF CallbackParse
<1>14. ASSUME NEW w \in Workers, Enqueue(w) PROVE PacketTypes'
  <2>1. packet[w] \in Packet /\ config.capacity \in Nat \ {0} /\ NoPacket \in Packet
    BY DEF ControlTypes, NoPacket, Packet
  <2>2. queue' \in Seq(Packet)
    BY <1>14, <2>1, PushProperties DEF Enqueue
  <2>. QED BY <1>14, <2>1, <2>2 DEF Enqueue
<1>15. ASSUME NEW r \in Readers, NEW call \in ReadApis, NEW n \in 1 .. MaxBatch, ReadCall(r, call, n)
       PROVE PacketTypes'
  BY <1>15, BoundAssumption DEF ReadCall
<1>16. ASSUME NEW r \in Readers, ReadReturnsNothing(r) PROVE PacketTypes'
  BY <1>16 DEF ReadReturnsNothing, ReadForgets, ReadApis
<1>17. ASSUME NEW r \in Readers, queue # <<>>, Take(r) PROVE PacketTypes'
  <2> DEFINE n == Lesser(count[r], Len(queue))
  <2>1. /\ n \in 1 .. Len(queue)
        /\ SubSeq(queue, 1, n) \in Seq(Packet)
        /\ SubSeq(queue, 1, n)[n] = queue[n]
        /\ SubSeq(queue, n + 1, Len(queue)) \in Seq(Packet)
    <3>1. count[r] \in Nat \ {0} /\ queue \in Seq(Packet)
      OBVIOUS
    <3>2. /\ n \in 1 .. Len(queue)
          /\ SubSeq(queue, 1, n) \in Seq(Packet)
          /\ \A i \in 1 .. n : SubSeq(queue, 1, n)[i] = queue[i]
          /\ SubSeq(queue, n + 1, Len(queue)) \in Seq(Packet)
      BY ONLY <1>17, <3>1, TakeProperties
    <3>. QED BY <3>2
  <2>2. queue[n].id \in Nat
    BY <2>1 DEF Packet
  <2>3. last_taken' \in Nat /\ queue' \in Seq(Packet) /\ out' \in [Readers -> Seq(Packet)]
    BY <1>17, <2>1, <2>2 DEF Take
  <2>4. read_payload' \in Seq(Packet) /\ read_batch_payloads' \in Seq(Packet)
    BY <1>17, <2>1 DEF Take
  <2>. QED BY <1>17, <2>3, <2>4 DEF Take
<1>18. ASSUME NEW r \in Readers, ReadFirst(r) PROVE PacketTypes'
  BY <1>16, <1>17, <1>18 DEF ReadFirst
<1>19. ASSUME NEW r \in Readers, ReadWoken(r) PROVE PacketTypes'
  BY <1>16, <1>17, <1>19 DEF ReadWoken
<1>20. ASSUME NEW r \in Readers, ReadTimeout(r) PROVE PacketTypes'
  BY <1>20 DEF ReadTimeout
<1>21. ASSUME NEW r \in Readers, Copy(r) PROVE PacketTypes'
  BY <1>21, EmptySeq DEF Copy, ReadForgets, ReadApis
<1>22. ASSUME NEW w \in Workers, EnqueueRefused(w) PROVE PacketTypes'
  BY <1>11, <1>22 DEF EnqueueRefused, AttemptInHand, Unlock
<1>23. CASE UNCHANGED vars
  BY <1>23 DEF vars
<1>. QED
  BY <1>1, <1>2, <1>3, <1>4, <1>5, <1>6, <1>7, <1>8, <1>9, <1>12, <1>13, <1>14, <1>15,
     <1>18, <1>19, <1>20, <1>21, <1>22, <1>23
  DEF Next, ControllerCalls, ControllerProceeds, WorkerProceeds, ReaderProceeds

-----------------------------------------------------------------------------
(* Who changes what *)

ControllerStep == ControllerCalls \/ ControllerProceeds \/ Lock(Controller)

\* Readers and workers change nothing of the controller's.
LEMMA OthersFrame ==
  ASSUME ThreadTypes, [Next]_vars, ~ControllerStep
  PROVE  pc'[Controller] = pc[Controller] /\ UNCHANGED <<controlVars, flow>>
<1> USE ThreadsAssumption DEF ThreadTypes, Threads, Unlock
<1>1. ASSUME NEW t \in Threads, Lock(t), t # Controller
      PROVE  pc'[Controller] = pc[Controller] /\ UNCHANGED <<controlVars, flow>>
  BY <1>1 DEF Lock
<1>2. ASSUME NEW w \in Workers, WorkerProceeds(w)
      PROVE  pc'[Controller] = pc[Controller] /\ UNCHANGED <<controlVars, flow>>
  BY <1>2 DEF WorkerProceeds, CallbackCheck, CallbackParse, CallbackReturns, EnqueueRefused, Enqueue, Waiters
<1>3. ASSUME NEW w \in Workers, NEW d \in Descriptors, Deliver(w, d)
      PROVE  pc'[Controller] = pc[Controller] /\ UNCHANGED <<controlVars, flow>>
  BY <1>3 DEF Deliver
<1>4. ASSUME NEW r \in Readers, ReaderProceeds(r) \/ ReadTimeout(r)
      PROVE  pc'[Controller] = pc[Controller] /\ UNCHANGED <<controlVars, flow>>
  BY <1>4 DEF ReaderProceeds, ReadFirst, ReadWoken, ReadReturnsNothing, Take, ReadTimeout, Copy
<1>5. ASSUME NEW r \in Readers, NEW call \in ReadApis, NEW n \in 1 .. MaxBatch, ReadCall(r, call, n)
      PROVE  pc'[Controller] = pc[Controller] /\ UNCHANGED <<controlVars, flow>>
  BY <1>5 DEF ReadCall
<1>6. CASE UNCHANGED vars
  BY <1>6 DEF vars, threadVars
<1>. QED BY <1>1, <1>2, <1>3, <1>4, <1>5, <1>6 DEF Next, ControllerStep

\* The controller moves no worker, and no reader but those it wakes.
LEMMA ControllerFrame ==
  ASSUME ThreadTypes, ControllerStep
  PROVE  /\ \A w \in Workers : pc'[w] = pc[w]
         /\ UNCHANGED workVars
         /\ \/ \A r \in Readers : pc'[r] = pc[r]
            \/ /\ StopNotify
               /\ \A r \in Readers : pc'[r] = IF pc[r] = "waiting" THEN "relock" ELSE pc[r]
<1> USE ThreadsAssumption DEF ThreadTypes, Threads, Unlock, ControllerGoes, threadVars
<1> DEFINE Kept == \A t \in Readers \cup Workers : pc'[t] = pc[t]
<1>1. CASE ControllerCalls
  <2>1. Kept /\ UNCHANGED workVars
    BY <1>1 DEF ControllerCalls, StartAgain, StartBegin, StopBegin, Create
  <2>. QED BY <2>1
<1>2. CASE StartCallSucceeds \/ (\E filled \in BOOLEAN : StartCallFails(filled)) \/ SetError \/ Publish
  <2>1. Kept /\ UNCHANGED workVars
    BY <1>2 DEF StartCallSucceeds, StartCallFails, SetError, Publish
  <2>. QED BY <2>1
<1>3. CASE CloseStreamBegin \/ CloseStreamEnd \/ CloseHandle \/ CloseReturns
  <2>1. Kept /\ UNCHANGED workVars
    BY <1>3 DEF CloseStreamBegin, CloseStreamEnd, CloseHandle, CloseReturns
  <2>. QED BY <2>1
<1>4. CASE StopClear \/ Delete \/ Lock(Controller)
  <2>1. Kept /\ UNCHANGED workVars
    BY <1>4 DEF StopClear, Delete, Lock
  <2>. QED BY <2>1
<1>5. CASE StopNotify
  BY <1>5 DEF StopNotify, Waiters, WorkerLabels
<1>. QED BY <1>1, <1>2, <1>3, <1>4, <1>5 DEF ControllerStep, ControllerProceeds

-----------------------------------------------------------------------------
(* The controller's part of the invariant *)

\* Every step keeps what the controller's position says about its call.
LEMMA CallKept ==
  ASSUME ThreadTypes, ControlTypes, CallInv, [Next]_vars
  PROVE  CallInv'
<1> DEFINE labels == StartLabels \cup CloseLabels \cup StopLabels
<1> USE ThreadsAssumption
    DEF ThreadTypes, Threads, CallInv, ControllerAt, ControllerGoes, Unlock, controlVars, threadVars,
        StartLabels, CloseLabels, StopLabels, StartCalls, CloseCalls
<1>1. CASE ~ControllerStep
  BY <1>1, OthersFrame
<1>2. CASE Lock(Controller)
  BY <1>2 DEF Lock, LockOrder
<1>3. CASE StartAgain
  BY <1>3 DEF StartAgain
<1>4. ASSUME NEW c \in Configs, StartBegin(c) PROVE CallInv'
  BY <1>4 DEF StartBegin
<1>5. CASE StartCallSucceeds
  BY <1>5 DEF StartCallSucceeds, CallOrder
<1>6. ASSUME NEW filled \in BOOLEAN, StartCallFails(filled) PROVE CallInv'
  BY <1>6 DEF StartCallFails
<1>7. CASE SetError
  BY <1>7 DEF SetError
<1>8. CASE Publish
  BY <1>8 DEF Publish
<1>9. CASE CloseStreamBegin
  BY <1>9 DEF CloseStreamBegin
<1>10. CASE CloseStreamEnd
  BY <1>10 DEF CloseStreamEnd
<1>11. CASE CloseHandle
  BY <1>11 DEF CloseHandle, CloseOrder
<1>12. CASE CloseReturns
  BY <1>12 DEF CloseReturns
<1>13. ASSUME NEW call \in {"stop", "destroy"}, StopBegin(call) PROVE CallInv'
  BY <1>13 DEF StopBegin
<1>14. CASE StopClear
  BY <1>14 DEF StopClear
<1>15. CASE StopNotify
  BY <1>15 DEF StopNotify
<1>16. CASE Delete
  BY <1>16 DEF Delete
<1>17. CASE Create
  BY <1>17 DEF Create
<1>. QED
  BY <1>1, <1>2, <1>3, <1>4, <1>5, <1>6, <1>7, <1>8, <1>9, <1>10, <1>11, <1>12, <1>13, <1>14, <1>15, <1>16, <1>17
  DEF ControllerStep, ControllerCalls, ControllerProceeds

\* What a start will report follows its failure through set_error and the
\* descent to its return.
LEMMA ReportKept ==
  ASSUME ThreadTypes, ControlTypes, CallInv, ReportInv, [Next]_vars
  PROVE  ReportInv'
<1> USE ThreadsAssumption
    DEF ThreadTypes, Threads, ReportInv, CallInv, ControllerAt, ControllerGoes, Unlock, controlVars, threadVars,
        StartLabels, CloseLabels, StopLabels, StartCalls, CloseCalls
<1>1. CASE ~ControllerStep
  BY <1>1, OthersFrame
<1>2. CASE Lock(Controller)
  BY <1>2 DEF Lock, LockOrder
<1>3. CASE StartAgain
  BY <1>3 DEF StartAgain
<1>4. ASSUME NEW c \in Configs, StartBegin(c) PROVE ReportInv'
  BY <1>4 DEF StartBegin
<1>5. CASE StartCallSucceeds
  BY <1>5 DEF StartCallSucceeds, CallOrder
<1>6. ASSUME NEW filled \in BOOLEAN, StartCallFails(filled) PROVE ReportInv'
  BY <1>6 DEF StartCallFails
<1>7. CASE SetError
  BY <1>7 DEF SetError
<1>8. CASE Publish
  BY <1>8 DEF Publish
<1>9. CASE CloseStreamBegin
  BY <1>9 DEF CloseStreamBegin
<1>10. CASE CloseStreamEnd
  BY <1>10 DEF CloseStreamEnd
<1>11. CASE CloseHandle
  BY <1>11 DEF CloseHandle, CloseOrder
<1>12. CASE CloseReturns
  BY <1>12 DEF CloseReturns
<1>13. ASSUME NEW call \in {"stop", "destroy"}, StopBegin(call) PROVE ReportInv'
  BY <1>13 DEF StopBegin
<1>14. CASE StopClear
  BY <1>14 DEF StopClear
<1>15. CASE StopNotify
  BY <1>15 DEF StopNotify
<1>16. CASE Delete
  BY <1>16 DEF Delete
<1>17. CASE Create
  BY <1>17 DEF Create
<1>. QED
  BY <1>1, <1>2, <1>3, <1>4, <1>5, <1>6, <1>7, <1>8, <1>9, <1>10, <1>11, <1>12, <1>13, <1>14, <1>15, <1>16, <1>17
  DEF ControllerStep, ControllerCalls, ControllerProceeds

\* The controller climbs and descends the ladder one rung at a time.
LEMMA HeldKept ==
  ASSUME ThreadTypes, ControlTypes, CallInv, HeldInv, [Next]_vars
  PROVE  HeldInv'
<1> USE ThreadsAssumption
    DEF ThreadTypes, ControlTypes, Threads, HeldInv, LayeredHandles, CallInv, Handles, ControllerAt, ControllerGoes,
        Unlock, controlVars, threadVars, StartLabels, CloseLabels, StopLabels, StartCalls, CloseCalls
<1>1. CASE ~ControllerStep
  <2>1. /\ pc'[Controller] = pc[Controller] /\ UNCHANGED <<held, failing, started>>
    BY <1>1, OthersFrame
  <2>. QED BY <2>1
<1>2. CASE Lock(Controller)
  BY <1>2 DEF Lock, LockOrder
<1>3. CASE StartAgain
  BY <1>3 DEF StartAgain
<1>4. ASSUME NEW c \in Configs, StartBegin(c) PROVE HeldInv'
  BY <1>4 DEF StartBegin
<1>5. CASE StartCallSucceeds
  <2>1. PICK pair \in CallOrder : /\ pc[Controller] = pair[1] /\ held' = held \cup Opens(pair[1])
                                 /\ pc' = [pc EXCEPT ![Controller] = pair[2]]
                                 /\ UNCHANGED <<failing, started>>
    BY <1>5 DEF StartCallSucceeds
  <2>2. Opens("load") = {"module"} /\ Opens("initialize") = {"api"} /\ Opens("create_session") = {"session"}
    BY DEF Opens
  <2>3. Opens("create_stream") = {"stream"}
        /\ \A call \in {"resolve", "constraints", "attach", "activate"} : Opens(call) = {}
    BY DEF Opens
  <2>4. CASE pair = <<"load", "resolve">>
    BY <2>1, <2>2, <2>3, <2>4, ZenonT(60)
  <2>5. CASE pair = <<"resolve", "initialize">>
    BY <2>1, <2>2, <2>3, <2>5
  <2>6. CASE pair = <<"initialize", "create_session">>
    BY <2>1, <2>2, <2>3, <2>6
  <2>7. CASE pair = <<"create_session", "constraints">>
    BY <2>1, <2>2, <2>3, <2>7
  <2>8. CASE pair = <<"constraints", "create_stream">>
    BY <2>1, <2>2, <2>3, <2>8
  <2>9. CASE pair = <<"create_stream", "attach">>
    BY <2>1, <2>2, <2>3, <2>9
  <2>10. CASE pair = <<"attach", "activate">>
    BY <2>1, <2>2, <2>3, <2>10
  <2>11. CASE pair = <<"activate", "publish_lock">>
    BY <2>1, <2>2, <2>3, <2>11
  <2>. QED BY <2>4, <2>5, <2>6, <2>7, <2>8, <2>9, <2>10, <2>11 DEF CallOrder
<1>6. ASSUME NEW filled \in BOOLEAN, StartCallFails(filled) PROVE HeldInv'
  BY <1>6 DEF StartCallFails, Opens
<1>7. CASE SetError
  BY <1>7 DEF SetError
<1>8. CASE Publish
  BY <1>8 DEF Publish
<1>9. CASE CloseStreamBegin
  BY <1>9 DEF CloseStreamBegin
<1>10. CASE CloseStreamEnd
  BY <1>10 DEF CloseStreamEnd
<1>11. CASE CloseHandle
  <2>1. PICK step \in CloseOrder : /\ pc[Controller] = step[1] /\ held' = held \ {step[2]}
                                  /\ pc' = [pc EXCEPT ![Controller] = step[3]]
                                  /\ UNCHANGED <<failing, started>>
    BY <1>11 DEF CloseHandle
  <2>2. CASE step = <<"close_session", "session", "uninitialize">>
    BY <2>1, <2>2
  <2>3. CASE step = <<"uninitialize", "api", "free_library">>
    BY <2>1, <2>3
  <2>4. CASE step = <<"free_library", "module", "closed">>
    BY <2>1, <2>4
  <2>. QED BY <2>2, <2>3, <2>4 DEF CloseOrder
<1>12. CASE CloseReturns
  BY <1>12 DEF CloseReturns
<1>13. ASSUME NEW call \in {"stop", "destroy"}, StopBegin(call) PROVE HeldInv'
  BY <1>13 DEF StopBegin
<1>14. CASE StopClear
  BY <1>14 DEF StopClear
<1>15. CASE StopNotify
  BY <1>15 DEF StopNotify
<1>16. CASE Delete
  BY <1>16 DEF Delete
<1>17. CASE Create
  BY <1>17 DEF Create
<1>. QED
  BY <1>1, <1>2, <1>3, <1>4, <1>5, <1>6, <1>7, <1>8, <1>9, <1>10, <1>11, <1>12, <1>13, <1>14, <1>15, <1>16, <1>17
  DEF ControllerStep, ControllerCalls, ControllerProceeds

\* Packets flow exactly from SetSessionActive(TRUE) to CloseRealtimeStream.
LEMMA FlowKept ==
  ASSUME ThreadTypes, ControlTypes, CallInv, HeldInv, FlowInv, [Next]_vars
  PROVE  FlowInv'
<1> USE ThreadsAssumption
    DEF ThreadTypes, ControlTypes, Threads, FlowInv, Publishing, CallInv, Handles, ControllerAt, ControllerGoes,
        Unlock, controlVars, threadVars, StartLabels, CloseLabels, StopLabels, StartCalls, CloseCalls
<1>1. CASE ~ControllerStep
  BY <1>1, OthersFrame
<1>2. CASE Lock(Controller)
  BY <1>2 DEF Lock, LockOrder
<1>3. CASE StartAgain
  BY <1>3 DEF StartAgain
<1>4. ASSUME NEW c \in Configs, StartBegin(c) PROVE FlowInv'
  BY <1>4 DEF StartBegin
<1>5. CASE StartCallSucceeds
  BY <1>5 DEF StartCallSucceeds, CallOrder, Opens
<1>6. ASSUME NEW filled \in BOOLEAN, StartCallFails(filled) PROVE FlowInv'
  BY <1>6 DEF StartCallFails
<1>7. CASE SetError
  BY <1>7 DEF SetError
<1>8. CASE Publish
  BY <1>8 DEF Publish
<1>9. CASE CloseStreamBegin
  <2>1. started => "stream" \in held
    BY <1>9 DEF CloseStreamBegin, HeldInv
  <2>. QED BY <1>9, <2>1 DEF CloseStreamBegin
<1>10. CASE CloseStreamEnd
  BY <1>10 DEF CloseStreamEnd
<1>11. CASE CloseHandle
  BY <1>11 DEF CloseHandle, CloseOrder
<1>12. CASE CloseReturns
  BY <1>12 DEF CloseReturns
<1>13. ASSUME NEW call \in {"stop", "destroy"}, StopBegin(call) PROVE FlowInv'
  BY <1>13 DEF StopBegin
<1>14. CASE StopClear
  BY <1>14 DEF StopClear
<1>15. CASE StopNotify
  BY <1>15 DEF StopNotify
<1>16. CASE Delete
  BY <1>16 DEF Delete
<1>17. CASE Create
  BY <1>17 DEF Create
<1>. QED
  BY <1>1, <1>2, <1>3, <1>4, <1>5, <1>6, <1>7, <1>8, <1>9, <1>10, <1>11, <1>12, <1>13, <1>14, <1>15, <1>16, <1>17
  DEF ControllerStep, ControllerCalls, ControllerProceeds

-----------------------------------------------------------------------------
(* The workers' and readers' part of the invariant *)

\* Only a successful look at its next attempt takes a callback to the queue.
LEMMA AttemptKept ==
  ASSUME ThreadTypes, PacketTypes, AttemptInHand, [Next]_vars
  PROVE  AttemptInHand'
<1> USE ThreadsAssumption DEF ThreadTypes, PacketTypes, Threads, AttemptInHand, Unlock, workVars
<1>1. CASE ControllerStep
  BY <1>1, ControllerFrame
<1>2. ASSUME NEW t \in Threads, Lock(t) PROVE AttemptInHand'
  BY <1>2 DEF Lock, LockOrder
<1>3. ASSUME NEW w \in Workers, NEW d \in Descriptors, Deliver(w, d) PROVE AttemptInHand'
  BY <1>3 DEF Deliver
<1>4. ASSUME NEW w \in Workers, CallbackCheck(w) \/ CallbackParse(w) \/ EnqueueRefused(w) PROVE AttemptInHand'
  BY <1>4 DEF CallbackCheck, CallbackParse, CallbackReturns, EnqueueRefused
<1>5. ASSUME NEW w \in Workers, Enqueue(w) PROVE AttemptInHand'
  BY <1>5 DEF Enqueue, Waiters
<1>6. ASSUME NEW r \in Readers, ReaderProceeds(r) \/ ReadTimeout(r) PROVE AttemptInHand'
  BY <1>6 DEF ReaderProceeds, ReadFirst, ReadWoken, ReadReturnsNothing, Take, ReadTimeout, Copy
<1>7. ASSUME NEW r \in Readers, NEW call \in ReadApis, NEW n \in 1 .. MaxBatch, ReadCall(r, call, n)
      PROVE  AttemptInHand'
  BY <1>7 DEF ReadCall
<1>8. CASE UNCHANGED vars
  BY <1>8 DEF vars, threadVars
<1>. QED BY <1>1, <1>2, <1>3, <1>4, <1>5, <1>6, <1>7, <1>8 DEF Next, ControllerStep, WorkerProceeds

\* The mutex is taken on the way into a critical section and given back on the
\* way out.
LEMMA MutexKept ==
  ASSUME ThreadTypes, MutexInv, [Next]_vars
  PROVE  MutexInv'
<1> USE ThreadsAssumption
    DEF ThreadTypes, Threads, MutexInv, Inside, ControllerAt, ControllerGoes, Unlock, threadVars
<1>1. ASSUME NEW t \in Threads, Lock(t) PROVE MutexInv'
  BY <1>1 DEF Lock, LockOrder
<1>2. CASE ControllerCalls
  BY <1>2 DEF ControllerCalls, StartAgain, StartBegin, StopBegin, Create
<1>3. CASE StartCallSucceeds
  BY <1>3 DEF StartCallSucceeds, CallOrder
<1>4. ASSUME NEW filled \in BOOLEAN, StartCallFails(filled) PROVE MutexInv'
  BY <1>4 DEF StartCallFails, StartCalls
<1>5. CASE SetError \/ Publish \/ StopClear
  BY <1>5 DEF SetError, Publish, StopClear
<1>6. CASE CloseStreamBegin \/ CloseStreamEnd \/ CloseReturns \/ Delete
  BY <1>6 DEF CloseStreamBegin, CloseStreamEnd, CloseReturns, Delete
<1>7. CASE CloseHandle
  BY <1>7 DEF CloseHandle, CloseOrder
<1>8. CASE StopNotify
  BY <1>8 DEF StopNotify, Waiters
<1>9. ASSUME NEW w \in Workers, NEW d \in Descriptors, Deliver(w, d) PROVE MutexInv'
  BY <1>9 DEF Deliver
<1>10. ASSUME NEW w \in Workers, CallbackCheck(w) \/ CallbackParse(w) \/ EnqueueRefused(w) PROVE MutexInv'
  BY <1>10 DEF CallbackCheck, CallbackParse, CallbackReturns, EnqueueRefused
<1>11. ASSUME NEW w \in Workers, Enqueue(w) PROVE MutexInv'
  BY <1>11 DEF Enqueue, Waiters
<1>12. ASSUME NEW r \in Readers, ReaderProceeds(r) \/ ReadTimeout(r) PROVE MutexInv'
  BY <1>12 DEF ReaderProceeds, ReadFirst, ReadWoken, ReadReturnsNothing, Take, ReadTimeout, Copy
<1>13. ASSUME NEW r \in Readers, NEW call \in ReadApis, NEW n \in 1 .. MaxBatch, ReadCall(r, call, n)
       PROVE  MutexInv'
  BY <1>13 DEF ReadCall
<1>14. CASE UNCHANGED vars
  BY <1>14 DEF vars
<1>. QED
  BY <1>1, <1>2, <1>3, <1>4, <1>5, <1>6, <1>7, <1>8, <1>9, <1>10, <1>11, <1>12, <1>13, <1>14
  DEF Next, ControllerProceeds, WorkerProceeds

\* When the controller is about to clear the queue, or has no capture, nothing
\* can call back.
LEMMA ClearIsQuiet ==
  ASSUME ControlTypes, FlowInv, QuietInv, ControllerAt("clear")
  PROVE  AllIdle(Workers)
BY DEF ControlTypes, FlowInv, QuietInv, Publishing, ControllerAt

\* Callbacks and packets appear only while packets flow and are gone when the
\* capture is.
LEMMA QuietKept ==
  ASSUME ThreadTypes, ControlTypes, PacketTypes, CallInv, FlowInv, QuietInv, [Next]_vars
  PROVE  QuietInv'
<1> USE ThreadsAssumption
    DEF ThreadTypes, ControlTypes, Threads, QuietInv, Publishing, AllIdle, ControllerAt, Unlock
<1>1. CASE ControllerStep
  <2> USE ControllerFrame DEF workVars, ControllerGoes
  <2>1. CASE ControllerCalls
    <3>1. CASE StartAgain
      BY <1>1, <3>1 DEF StartAgain, threadVars
    <3>2. ASSUME NEW c \in Configs, StartBegin(c) PROVE QuietInv'
      BY <1>1, <3>2 DEF StartBegin, FlowInv
    <3>3. ASSUME NEW call \in {"stop", "destroy"}, StopBegin(call) PROVE QuietInv'
      BY <1>1, <3>3 DEF StopBegin
    <3>4. CASE Create
      BY <1>1, <3>4 DEF Create, threadVars, CallInv
    <3>. QED BY <2>1, <3>1, <3>2, <3>3, <3>4 DEF ControllerCalls
  <2>2. CASE StartCallSucceeds
    BY <1>1, <2>2 DEF StartCallSucceeds, CallOrder
  <2>3. ASSUME NEW filled \in BOOLEAN, StartCallFails(filled) PROVE QuietInv'
    BY <1>1, <2>3 DEF StartCallFails, StartCalls
  <2>4. CASE SetError
    BY <1>1, <2>4 DEF SetError
  <2>5. CASE Publish
    BY <1>1, <2>5 DEF Publish
  <2>6. CASE CloseStreamBegin
    BY <1>1, <2>6 DEF CloseStreamBegin, controlVars
  <2>7. CASE CloseStreamEnd
    BY <1>1, <2>7 DEF CloseStreamEnd
  <2>8. CASE CloseHandle
    BY <1>1, <2>8 DEF CloseHandle, CloseOrder
  <2>9. CASE CloseReturns
    BY <1>1, <2>9 DEF CloseReturns, controlVars
  <2>10. CASE StopClear
    BY <1>1, <2>10, ClearIsQuiet DEF StopClear
  <2>11. CASE StopNotify
    BY <1>1, <2>11 DEF StopNotify, controlVars
  <2>12. CASE Delete
    BY <1>1, <2>12 DEF Delete
  <2>13. CASE Lock(Controller)
    BY <1>1, <2>13 DEF Lock, LockOrder, controlVars
  <2>. QED
    BY <1>1, <2>1, <2>2, <2>3, <2>4, <2>5, <2>6, <2>7, <2>8, <2>9, <2>10, <2>11, <2>12, <2>13
    DEF ControllerStep, ControllerProceeds
<1>2. CASE ~ControllerStep
  <2> USE DEF controlVars, workVars
  <2>1. pc'[Controller] = pc[Controller] /\ UNCHANGED <<flow, started, epoch>>
    BY <1>2, OthersFrame
  <2>2. ASSUME NEW t \in Threads, Lock(t) PROVE QuietInv'
    BY <2>1, <2>2 DEF Lock, LockOrder
  <2>3. ASSUME NEW w \in Workers, NEW d \in Descriptors, Deliver(w, d) PROVE QuietInv'
    BY <2>1, <2>3 DEF Deliver, FlowInv, PacketTypes
  <2>4. ASSUME NEW w \in Workers, WorkerProceeds(w) PROVE QuietInv'
    <3>1. pc[w] # "idle"
      BY <2>4 DEF WorkerProceeds, CallbackCheck, CallbackParse, EnqueueRefused, Enqueue
    <3>2. \A v \in Workers : pc'[v] # "idle" => pc[v] # "idle" /\ packet'[v] = packet[v]
      BY <2>4, <3>1 DEF WorkerProceeds, CallbackCheck, CallbackParse, CallbackReturns, EnqueueRefused, Enqueue,
                        Waiters, PacketTypes
    <3>. QED BY <2>1, <3>1, <3>2
  <2>5. ASSUME NEW r \in Readers, ReaderProceeds(r) \/ ReadTimeout(r) PROVE QuietInv'
    <3>1. \A v \in Workers : pc'[v] = pc[v] /\ packet'[v] = packet[v]
      BY <2>5 DEF ReaderProceeds, ReadFirst, ReadWoken, ReadReturnsNothing, Take, ReadTimeout, Copy
    <3>2. queue = <<>> => queue' = <<>>
      BY <2>5 DEF ReaderProceeds, ReadFirst, ReadWoken, ReadReturnsNothing, Take, ReadTimeout, Copy
    <3>. QED BY <2>1, <3>1, <3>2
  <2>6. ASSUME NEW r \in Readers, NEW call \in ReadApis, NEW n \in 1 .. MaxBatch, ReadCall(r, call, n)
        PROVE  QuietInv'
    BY <2>1, <2>6 DEF ReadCall
  <2>7. CASE UNCHANGED vars
    BY <2>1, <2>7 DEF vars, threadVars
  <2>. QED BY <1>2, <2>2, <2>3, <2>4, <2>5, <2>6, <2>7 DEF Next, ControllerStep
<1>. QED BY <1>1, <1>2

\* The queue stays within the capacity in force and holds packets of the
\* capture in force: both change only while it is empty.
LEMMA QueueKept ==
  ASSUME ThreadTypes, ControlTypes, PacketTypes, CallInv, QuietInv, QueueIsCurrent, [Next]_vars
  PROVE  QueueIsCurrent'
<1> USE ThreadsAssumption DEF ThreadTypes, ControlTypes, PacketTypes, Threads, QueueIsCurrent
<1>1. ASSUME queue' = <<>>, config'.capacity \in Nat PROVE QueueIsCurrent'
  BY <1>1
<1>2. ASSUME UNCHANGED <<queue, config, epoch>> PROVE QueueIsCurrent'
  BY <1>2
<1>3. ASSUME NEW c \in Configs, StartBegin(c) PROVE QueueIsCurrent'
  <2>1. queue' = <<>>
    BY <1>3 DEF StartBegin, QuietInv, Publishing, ControllerAt
  <2>2. config'.capacity \in Nat
    BY <1>3, ApplyConfigType DEF StartBegin
  <2>. QED BY <1>1, <2>1, <2>2
<1>4. CASE Create
  BY <1>1, <1>4, InputAssumption DEF Create, DefaultConfig
<1>5. CASE StopClear
  BY <1>1, <1>5 DEF StopClear
<1>6. ASSUME NEW w \in Workers, Enqueue(w) PROVE QueueIsCurrent'
  <2>1. packet[w] \in Packet /\ config.capacity \in Nat \ {0} /\ queue \in Seq(Packet)
    OBVIOUS
  <2>2. packet[w].epoch = epoch /\ UNCHANGED <<config, epoch>>
    BY <1>6 DEF Enqueue, QuietInv, controlVars
  <2>3. PICK cap \in Nat \ {0}, x \in Packet : cap = config.capacity /\ x = packet[w]
    BY <2>1
  <2>4. queue' = PushDroppingOldest(queue, cap, x)
    BY <1>6, <2>3 DEF Enqueue
  <2>5. Len(queue') <= cap
    BY ONLY <2>1, <2>3, <2>4, PushProperties
  <2>6. OldOrNew(queue', queue, x)
    BY ONLY <2>1, <2>3, <2>4, PushProperties
  <2>. QED BY <2>2, <2>3, <2>5, <2>6 DEF OldOrNew
<1>7. ASSUME NEW r \in Readers, queue # <<>>, Take(r) PROVE QueueIsCurrent'
  <2> DEFINE n == Lesser(count[r], Len(queue))
  <2>1. count[r] \in Nat \ {0} /\ queue \in Seq(Packet)
    OBVIOUS
  <2>2. /\ n \in 1 .. Len(queue)
        /\ Len(SubSeq(queue, n + 1, Len(queue))) = Len(queue) - n
        /\ \A i \in 1 .. Len(queue) - n : SubSeq(queue, n + 1, Len(queue))[i] = queue[n + i]
    BY ONLY <1>7, <2>1, TakeProperties
  <2>3. queue' = SubSeq(queue, n + 1, Len(queue)) /\ UNCHANGED <<config, epoch>>
    BY <1>7 DEF Take, controlVars
  <2> HIDE DEF n
  <2>4. Len(queue') <= config'.capacity
    BY <2>2, <2>3
  <2>5. ASSUME NEW i \in 1 .. Len(queue') PROVE queue'[i].epoch = epoch
    <3>1. queue'[i] = queue[n + i] /\ n + i \in 1 .. Len(queue)
      BY <2>2, <2>3
    <3>. QED BY <3>1
  <2>. QED BY <2>3, <2>4, <2>5
<1>8. ASSUME NEW r \in Readers, ReaderProceeds(r) \/ ReadTimeout(r) PROVE QueueIsCurrent'
  BY <1>2, <1>7, <1>8
  DEF ReaderProceeds, ReadFirst, ReadWoken, ReadReturnsNothing, ReadTimeout, Copy, controlVars
<1>9. ASSUME NEW w \in Workers, CallbackCheck(w) \/ CallbackParse(w) \/ EnqueueRefused(w) PROVE QueueIsCurrent'
  BY <1>2, <1>9 DEF CallbackCheck, CallbackParse, EnqueueRefused, controlVars
<1>10. ASSUME NEW w \in Workers, NEW d \in Descriptors, Deliver(w, d) PROVE QueueIsCurrent'
  BY <1>2, <1>10 DEF Deliver, controlVars
<1>11. ASSUME NEW r \in Readers, NEW call \in ReadApis, NEW n \in 1 .. MaxBatch, ReadCall(r, call, n)
       PROVE  QueueIsCurrent'
  BY <1>2, <1>11 DEF ReadCall, controlVars
<1>12. ASSUME NEW t \in Threads, Lock(t) PROVE QueueIsCurrent'
  BY <1>2, <1>12 DEF Lock, controlVars
<1>13. CASE StartAgain \/ \E call \in {"stop", "destroy"} : StopBegin(call)
  BY <1>2, <1>13 DEF StartAgain, StopBegin
<1>14. CASE StartCallSucceeds \/ (\E filled \in BOOLEAN : StartCallFails(filled)) \/ SetError \/ Publish
  BY <1>2, <1>14 DEF StartCallSucceeds, StartCallFails, SetError, Publish
<1>15. CASE CloseStreamBegin \/ CloseStreamEnd \/ CloseHandle \/ CloseReturns \/ StopNotify \/ Delete
  BY <1>2, <1>15 DEF CloseStreamBegin, CloseStreamEnd, CloseHandle, CloseReturns, StopNotify, Delete, controlVars
<1>16. CASE UNCHANGED vars
  BY <1>2, <1>16 DEF vars, controlVars
<1>. QED
  BY <1>3, <1>4, <1>5, <1>6, <1>8, <1>9, <1>10, <1>11, <1>12, <1>13, <1>14, <1>15, <1>16
  DEF Next, ControllerCalls, ControllerProceeds, WorkerProceeds

\* A reader begins to wait only while the capture runs, and no reader is in a
\* call from the beginning of PktmonDestroy.
LEMMA ReaderKept ==
  ASSUME ThreadTypes, ControlTypes, CallInv, ReaderInv, [Next]_vars
  PROVE  ReaderInv'
<1> USE ThreadsAssumption
    DEF ThreadTypes, ControlTypes, Threads, ReaderInv, Waiters, AllIdle, ControllerAt, Unlock
<1>1. CASE ControllerStep
  <2>1. CASE StopNotify
    BY <2>1 DEF StopNotify, controlVars
  <2>2. CASE ~StopNotify
    <3>1. \A r \in Readers : pc'[r] = pc[r]
      BY <1>1, <2>2, ControllerFrame
    <3>2. op' = "destroy" => AllIdle(Readers)
      BY <1>1, <2>2 DEF ControllerStep, ControllerCalls, ControllerProceeds, StartAgain, StartBegin, StopBegin, Create,
        CallersQuiescent, StartCallSucceeds, StartCallFails, SetError, Publish, CloseStreamBegin, CloseStreamEnd,
        CloseHandle, CloseReturns, StopClear, Delete, Lock, controlVars
    <3>3. started \/ ControllerAt("notify") => (started \/ ControllerAt("notify"))'
      <4>1. CASE StopClear
        BY <4>1 DEF StopClear
      <4>2. CASE Create
        BY <4>2 DEF Create, CallInv
      <4>3. ~StopClear /\ ~Create /\ started => started'
        BY <1>1, <2>2 DEF ControllerStep, ControllerCalls, ControllerProceeds, StartAgain, StartBegin, StopBegin,
          StartCallSucceeds, StartCallFails, SetError, Publish, CloseStreamBegin, CloseStreamEnd,
          CloseHandle, CloseReturns, Delete, Lock, controlVars
      <4>4. pc[Controller] # "notify"
        BY <1>1, <2>2 DEF ControllerStep, ControllerCalls, ControllerProceeds, StartAgain, StartBegin, StopBegin, Create,
          StartCallSucceeds, StartCallFails, SetError, Publish, CloseStreamBegin, CloseStreamEnd,
          CloseHandle, CloseReturns, StopClear, Delete, Lock, StartCalls, CallOrder, CloseOrder, LockOrder
      <4>. QED BY <4>1, <4>2, <4>3, <4>4
    <3>. QED BY <3>1, <3>2, <3>3
  <2>. QED BY <2>1, <2>2
<1>2. CASE ~ControllerStep
  <2> USE DEF controlVars
  <2>1. pc'[Controller] = pc[Controller] /\ UNCHANGED <<op, started>>
    BY <1>2, OthersFrame
  <2>2. ASSUME NEW t \in Threads, Lock(t) PROVE ReaderInv'
    BY <2>1, <2>2 DEF Lock, LockOrder
  <2>3. ASSUME NEW w \in Workers, NEW d \in Descriptors, Deliver(w, d) PROVE ReaderInv'
    BY <2>1, <2>3 DEF Deliver
  <2>4. ASSUME NEW w \in Workers, WorkerProceeds(w) PROVE ReaderInv'
    BY <2>1, <2>4 DEF WorkerProceeds, CallbackCheck, CallbackParse, CallbackReturns, EnqueueRefused, Enqueue
  <2>5. ASSUME NEW r \in Readers, ReadFirst(r) PROVE ReaderInv'
    BY <2>1, <2>5 DEF ReadFirst, ReadReturnsNothing, Take
  <2>6. ASSUME NEW r \in Readers, ReadWoken(r) \/ ReadTimeout(r) \/ Copy(r) PROVE ReaderInv'
    BY <2>1, <2>6 DEF ReadWoken, ReadReturnsNothing, Take, ReadTimeout, Copy
  <2>7. ASSUME NEW r \in Readers, NEW call \in ReadApis, NEW n \in 1 .. MaxBatch, ReadCall(r, call, n)
        PROVE  ReaderInv'
    BY <2>1, <2>7 DEF ReadCall
  <2>8. CASE UNCHANGED vars
    BY <2>1, <2>8 DEF vars, threadVars
  <2>. QED BY <1>2, <2>2, <2>3, <2>4, <2>5, <2>6, <2>7, <2>8 DEF Next, ControllerStep, ReaderProceeds
<1>. QED BY <1>1, <1>2

\* A packet is queued only together with a wakeup, and a woken reader that
\* leaves takes a packet with it or leaves an empty queue.
LEMMA WakeupKept ==
  ASSUME ThreadTypes, ControlTypes, PacketTypes, AttemptInHand, NoLostWakeup, [Next]_vars
  PROVE  NoLostWakeup'
<1>1. /\ IsFiniteSet(Woken) /\ IsFiniteSet(Woken')
      /\ Cardinality(Woken) \in Nat /\ Cardinality(Woken') \in Nat
  <2>1. Woken \subseteq Readers /\ Woken' \subseteq Readers
    BY DEF Woken
  <2>. QED BY <2>1, ThreadsAssumption, FS_Subset, FS_CardinalityType
<1>2. Len(queue) \in Nat /\ Len(queue') \in Nat
  <2>1. queue \in Seq(Packet) /\ queue' \in Seq(Packet)
    BY PacketTypesKept DEF PacketTypes
  <2>. QED BY <2>1
<1>3. ASSUME Len(queue') <= Len(queue), Waiters' \subseteq Waiters, Woken \subseteq Woken'
      PROVE  NoLostWakeup'
  <2>1. Cardinality(Woken) <= Cardinality(Woken')
    BY <1>1, <1>3, FS_Subset
  <2>. QED BY <1>1, <1>2, <1>3, <2>1 DEF NoLostWakeup
<1>4. ASSUME queue' = <<>> PROVE NoLostWakeup'
  <2>1. Len(queue') = 0
    BY <1>4
  <2>. QED BY <1>1, <2>1 DEF NoLostWakeup
<1>5. ASSUME Waiters' = {} PROVE NoLostWakeup'
  BY <1>5 DEF NoLostWakeup
<1>6. ASSUME UNCHANGED queue, Waiters' \subseteq Waiters, Woken \subseteq Woken' PROVE NoLostWakeup'
  BY <1>2, <1>3, <1>6
<1> USE ThreadsAssumption DEF ThreadTypes, Threads, ControllerAt, Unlock
<1>7. CASE ControllerStep
  <2>1. CASE StopNotify
    <3>1. Waiters' = {}
      BY <2>1 DEF StopNotify, Waiters
    <3>. QED BY <1>5, <3>1
  <2>2. CASE ~StopNotify
    <3>1. Waiters' = Waiters /\ Woken' = Woken
      BY <1>7, <2>2, ControllerFrame DEF Waiters, Woken
    <3>2. queue' = queue \/ queue' = <<>>
      BY <1>7, <2>2 DEF ControllerStep, ControllerCalls, ControllerProceeds, StartAgain, StartBegin, StopBegin, Create,
        StartCallSucceeds, StartCallFails, SetError, Publish, CloseStreamBegin, CloseStreamEnd,
        CloseHandle, CloseReturns, StopClear, Delete, Lock
    <3>. QED BY <1>4, <1>6, <3>1, <3>2
  <2>. QED BY <2>1, <2>2
<1>8. ASSUME NEW t \in Threads, Lock(t) PROVE NoLostWakeup'
  <2>1. UNCHANGED queue /\ Waiters' \subseteq Waiters /\ Woken \subseteq Woken'
    BY <1>8 DEF Lock, LockOrder, Waiters, Woken
  <2>. QED BY <1>6, <2>1
<1>9. ASSUME NEW w \in Workers, Enqueue(w) PROVE NoLostWakeup'
  <2>1. CASE Waiters = {}
    <3>1. Waiters' = {}
      BY <1>9, <2>1 DEF Enqueue, Waiters, WorkerLabels
    <3>. QED BY <1>5, <3>1
  <2>2. CASE Waiters # {}
    <3>1. PICK r \in Waiters : pc' = [pc EXCEPT ![w] = "idle", ![r] = "relock"]
      BY <1>9, <2>2 DEF Enqueue
    <3>2. Woken' = Woken \cup {r} /\ r \notin Woken
      BY <3>1 DEF Waiters, Woken
    <3>3. Cardinality(Woken') = Cardinality(Woken) + 1
      BY <1>1, <3>2, FS_AddElement
    <3>4. Len(queue') <= Len(queue) + 1
      <4>1. packet[w] \in Packet /\ config.capacity \in Nat \ {0} /\ queue \in Seq(Packet)
        BY DEF PacketTypes, ControlTypes
      <4>2. queue' = PushDroppingOldest(queue, config.capacity, packet[w])
        BY <1>9 DEF Enqueue
      <4>. QED BY ONLY <4>1, <4>2, PushProperties
    <3>5. Len(queue) <= Cardinality(Woken)
      BY <2>2 DEF NoLostWakeup
    <3>6. Len(queue') <= Cardinality(Woken')
      BY ONLY <1>1, <1>2, <3>3, <3>4, <3>5
    <3>. QED BY <3>6 DEF NoLostWakeup
  <2>. QED BY <2>1, <2>2
<1>10. ASSUME NEW w \in Workers, CallbackCheck(w) \/ CallbackParse(w) \/ EnqueueRefused(w) PROVE NoLostWakeup'
  <2>1. UNCHANGED queue /\ Waiters' = Waiters /\ Woken' = Woken
    BY <1>10 DEF CallbackCheck, CallbackParse, CallbackReturns, EnqueueRefused, Waiters, Woken
  <2>. QED BY <1>6, <2>1
<1>11. ASSUME NEW w \in Workers, NEW d \in Descriptors, Deliver(w, d) PROVE NoLostWakeup'
  <2>1. UNCHANGED queue /\ Waiters' = Waiters /\ Woken' = Woken
    BY <1>11 DEF Deliver, Waiters, Woken
  <2>. QED BY <1>6, <2>1
<1>12. ASSUME NEW r \in Readers, NEW call \in ReadApis, NEW n \in 1 .. MaxBatch, ReadCall(r, call, n)
       PROVE  NoLostWakeup'
  <2>1. UNCHANGED queue /\ Waiters' = Waiters /\ Woken' = Woken
    BY <1>12 DEF ReadCall, Waiters, Woken
  <2>. QED BY <1>6, <2>1
<1>13. ASSUME NEW r \in Readers, ReadTimeout(r) \/ Copy(r) PROVE NoLostWakeup'
  <2>1. UNCHANGED queue /\ Waiters' \subseteq Waiters /\ Woken \subseteq Woken'
    BY <1>13 DEF ReadTimeout, Copy, Waiters, Woken
  <2>. QED BY <1>6, <2>1
<1>14. ASSUME NEW r \in Readers, queue # <<>>, Take(r)
       PROVE  Len(queue') + 1 <= Len(queue)
  <2>1. count[r] \in Nat \ {0} /\ queue \in Seq(Packet)
    BY DEF PacketTypes
  <2> DEFINE n == Lesser(count[r], Len(queue))
  <2>2. n \in 1 .. Len(queue) /\ Len(SubSeq(queue, n + 1, Len(queue))) = Len(queue) - n
    BY ONLY <1>14, <2>1, TakeProperties
  <2>3. queue' = SubSeq(queue, n + 1, Len(queue))
    BY <1>14 DEF Take
  <2> HIDE DEF n
  <2>. QED BY <1>2, <2>2, <2>3
<1>15. ASSUME NEW r \in Readers, ReadFirst(r) PROVE NoLostWakeup'
  <2>1. CASE ~started
    <3>1. UNCHANGED queue /\ Waiters' = Waiters /\ Woken' = Woken
      BY <1>15, <2>1 DEF ReadFirst, ReadReturnsNothing, Waiters, Woken
    <3>. QED BY <1>6, <3>1
  <2>2. CASE started /\ queue = <<>>
    <3>1. queue' = <<>>
      BY <1>15, <2>2 DEF ReadFirst
    <3>. QED BY <1>4, <3>1
  <2>3. CASE started /\ queue # <<>>
    <3>1. Take(r) /\ Waiters' = Waiters /\ Woken' = Woken
      BY <1>15, <2>3 DEF ReadFirst, Take, Waiters, Woken
    <3>2. Len(queue') <= Len(queue)
      BY <1>2, <1>14, <2>3, <3>1
    <3>. QED BY <1>3, <3>1, <3>2
  <2>. QED BY <2>1, <2>2, <2>3
<1>16. ASSUME NEW r \in Readers, ReadWoken(r) PROVE NoLostWakeup'
  <2>1. CASE queue = <<>>
    <3>1. queue' = <<>>
      BY <1>16, <2>1 DEF ReadWoken, ReadReturnsNothing
    <3>. QED BY <1>4, <3>1
  <2>2. CASE queue # <<>>
    <3>1. Take(r) /\ Waiters' = Waiters /\ Woken' = Woken \ {r} /\ r \in Woken
      BY <1>16, <2>2 DEF ReadWoken, Take, Waiters, Woken
    <3>2. Cardinality(Woken') = Cardinality(Woken) - 1
      BY <1>1, <3>1, FS_RemoveElement
    <3>3. Len(queue') + 1 <= Len(queue)
      BY <1>14, <2>2, <3>1
    <3>4. Waiters' # {} => Len(queue) <= Cardinality(Woken)
      BY <3>1 DEF NoLostWakeup
    <3>5. Waiters' # {} => Len(queue') <= Cardinality(Woken')
      BY ONLY <1>1, <1>2, <3>2, <3>3, <3>4
    <3>. QED BY <3>5 DEF NoLostWakeup
  <2>. QED BY <2>1, <2>2
<1>17. CASE UNCHANGED vars
  <2>1. UNCHANGED queue /\ Waiters' = Waiters /\ Woken' = Woken
    BY <1>17 DEF vars, threadVars, Waiters, Woken
  <2>. QED BY <1>6, <2>1
<1>. QED
  BY <1>7, <1>8, <1>9, <1>10, <1>11, <1>12, <1>13, <1>15, <1>16, <1>17
  DEF Next, ControllerStep, WorkerProceeds, ReaderProceeds

-----------------------------------------------------------------------------
(* The theorems *)

\* The initial state satisfies the inductive invariant.
LEMMA InitInvariant == Init => IInv
<1> SUFFICES ASSUME Init PROVE IInv
  OBVIOUS
<1> USE DEF Init
<1>1. \A t \in Threads : pc[t] = "idle"
  OBVIOUS
<1>2. Controller \in Threads /\ Readers \subseteq Threads /\ Workers \subseteq Threads
  BY DEF Threads
<1>3. ThreadTypes
  BY <1>1 DEF ThreadTypes, Threads, ControllerLabels, WorkerLabels, ReaderLabels
<1>4. ControlTypes
  <2>1. DefaultConfig \in [capacity: Nat \ {0}, includeEmpty: BOOLEAN]
    BY InputAssumption DEF DefaultConfig
  <2>. QED BY <2>1 DEF ControlTypes
<1>5. PacketTypes
  BY EmptySeq DEF PacketTypes, NoPacket, Packet, ReadApis
<1>6. AttemptInHand /\ MutexInv
  BY <1>1, <1>2, ThreadsAssumption DEF AttemptInHand, MutexInv, Inside
<1>7. CallInv /\ ReportInv
  BY <1>1, <1>2 DEF CallInv, ReportInv, StartLabels, CloseLabels, StopLabels, StartCalls, CloseCalls
<1>8. HeldInv
  BY <1>1, <1>2 DEF HeldInv, LayeredHandles, StopLabels
<1>9. FlowInv
  BY <1>1, <1>2 DEF FlowInv, Publishing
<1>10. QuietInv
  BY <1>1, <1>2 DEF QuietInv, AllIdle
<1>11. QueueIsCurrent
  BY <1>4 DEF QueueIsCurrent, ControlTypes
<1>12. Waiters = {}
  BY <1>1, <1>2 DEF Waiters
<1>. QED
  BY <1>3, <1>4, <1>5, <1>6, <1>7, <1>8, <1>9, <1>10, <1>11, <1>12
  DEF IInv, TypeOK, ReaderInv, NoLostWakeup

\* Every step keeps the inductive invariant.
LEMMA StepInvariant == IInv /\ [Next]_vars => IInv'
<1> SUFFICES ASSUME IInv, [Next]_vars PROVE IInv'
  OBVIOUS
<1>1. ThreadTypes /\ ControlTypes /\ PacketTypes
  BY DEF IInv, TypeOK
<1>2. ThreadTypes' /\ ControlTypes' /\ PacketTypes'
  BY <1>1, ThreadTypesKept, ControlTypesKept, PacketTypesKept DEF IInv
<1>3. AttemptInHand' /\ MutexInv'
  BY <1>1, AttemptKept, MutexKept DEF IInv
<1>4. CallInv' /\ ReportInv' /\ HeldInv' /\ FlowInv'
  BY <1>1, CallKept, ReportKept, HeldKept, FlowKept DEF IInv
<1>5. QuietInv' /\ QueueIsCurrent'
  BY <1>1, QuietKept, QueueKept DEF IInv
<1>6. ReaderInv' /\ NoLostWakeup'
  BY <1>1, ReaderKept, WakeupKept DEF IInv
<1>. QED BY <1>2, <1>3, <1>4, <1>5, <1>6 DEF IInv, TypeOK

\* The inductive invariant holds in every reachable state.
THEOREM Invariance == Spec => []IInv
BY InitInvariant, StepInvariant, PTL DEF Spec

\* Every variable keeps its type and the capacity is never zero, on every path
\* of start, stop, callback and read.
THEOREM TypeCorrect == Spec => []TypeOK
<1>1. IInv => TypeOK
  BY DEF IInv
<1>. QED BY <1>1, Invariance, PTL

\* The handles of start_direct_capture and close_direct_capture always form a
\* ladder, whichever calls fail.
THEOREM HandlesAreLayered == Spec => []LayeredHandles
<1>1. IInv => LayeredHandles
  BY DEF IInv, HeldInv
<1>. QED BY <1>1, Invariance, PTL

\* What PktmonStartConfig reports is what it did.
THEOREM StartIsAllOrNothing == Spec => []StartOutcome
<1>1. IInv => StartOutcome
  <2> SUFFICES ASSUME IInv, ControllerAt("idle"), op = "start" PROVE StartOutcome
    BY DEF StartOutcome
  <2>1. started \in BOOLEAN
    BY DEF IInv, TypeOK, ControlTypes
  <2>2. CASE started
    BY <2>2 DEF StartOutcome, IInv, ReportInv, HeldInv, FlowInv, ControllerAt
  <2>3. CASE ~started
    <3>1. last_error \in StartCalls /\ status = FailureStatus(last_error) /\ held = {}
      BY <2>3 DEF IInv, ReportInv, HeldInv, ControllerAt
    <3>2. status # "PKTMON_OK"
      BY <3>1 DEF FailureStatus
    <3>. QED BY <2>3, <3>1, <3>2 DEF StartOutcome
  <2>. QED BY <2>1, <2>2, <2>3
<1>. QED BY <1>1, Invariance, PTL

\* After PktmonStop nothing of the capture is left, for any number of readers
\* and delivering threads.
THEOREM StopIsQuiet == Spec => []StoppedIsQuiet
<1>1. IInv => StoppedIsQuiet
  <2> SUFFICES ASSUME IInv, ControllerAt("idle"), ~started
               PROVE  queue = <<>> /\ AllIdle(Workers) /\ flow = "off" /\ held = {} /\ Waiters = {}
    BY DEF StoppedIsQuiet
  <2> USE DEF ControllerAt
  <2>1. queue = <<>> /\ AllIdle(Workers)
    BY DEF IInv, QuietInv, Publishing
  <2>2. flow = "off"
    BY DEF IInv, FlowInv, Publishing, TypeOK, ControlTypes
  <2>3. held = {}
    BY DEF IInv, HeldInv
  <2>4. Waiters = {}
    BY DEF IInv, ReaderInv
  <2>. QED BY <2>1, <2>2, <2>3, <2>4
<1>. QED BY <1>1, Invariance, PTL

\* The queue is bounded by the capacity in force and never mixes captures.
THEOREM QueueStaysCurrent == Spec => []QueueIsCurrent
<1>1. IInv => QueueIsCurrent
  BY DEF IInv
<1>. QED BY <1>1, Invariance, PTL

\* No packet waits in the queue for a reader that nobody wakes.
THEOREM WakeupsSuffice == Spec => []NoLostWakeup
<1>1. IInv => NoLostWakeup
  BY DEF IInv
<1>. QED BY <1>1, Invariance, PTL

\* PktmonDestroy frees a CaptureState only when nothing can reach it.
THEOREM DestroyIsSafe == Spec => []FreedIsUnreachable
<1>1. IInv => FreedIsUnreachable
  <2> SUFFICES ASSUME IInv, ~allocated
               PROVE  held = {} /\ flow = "off" /\ AllIdle(Workers) /\ mutex = NoThread
    BY DEF FreedIsUnreachable
  <2>1. pc[Controller] = "idle" /\ ~started /\ op = "destroy"
    BY DEF IInv, CallInv
  <2>2. held = {} /\ AllIdle(Workers)
    BY <2>1 DEF IInv, HeldInv, QuietInv, Publishing
  <2>3. flow = "off"
    BY <2>1 DEF IInv, FlowInv, Publishing, TypeOK, ControlTypes
  <2>4. \A t \in Threads : pc[t] \notin Inside
    BY <2>1, <2>2 DEF IInv, ReaderInv, AllIdle, Threads, Inside
  <2>5. mutex = NoThread
    BY <2>4 DEF IInv, MutexInv, TypeOK, ThreadTypes
  <2>. QED BY <2>2, <2>3, <2>5
<1>. QED BY <1>1, Invariance, PTL

\* With one reader the payloads it copies after the call are those of the
\* packets it was handed: only its own calls write the buffers, and the capture
\* is not freed under it.
THEOREM PayloadsAreIntact ==
  ASSUME NEW reader, Readers = {reader}
  PROVE  Spec => []PayloadIntact
<1>1. Init => PayloadIntact
  BY DEF Init, PayloadIntact, Threads
<1>2. IInv /\ PayloadIntact /\ [Next]_vars => PayloadIntact'
  <2> SUFFICES ASSUME IInv, PayloadIntact, [Next]_vars PROVE PayloadIntact'
    OBVIOUS
  <2> USE ThreadsAssumption DEF PayloadIntact, Threads, Unlock
  <2>1. ThreadTypes /\ PacketTypes
    BY DEF IInv, TypeOK
  <2> USE <2>1 DEF ThreadTypes, PacketTypes
  <2>2. ASSUME pc'[reader] = "copy" => pc[reader] = "copy",
               UNCHANGED <<allocated, out, api, read_payload, read_batch_payloads>>
        PROVE  PayloadIntact'
    BY <2>2
  <2>3. CASE ControllerStep
    <3>1. pc'[reader] = "copy" => pc[reader] = "copy"
      BY <2>3, ControllerFrame
    <3>2. CASE Delete \/ Create
      <4>1. op = "destroy"
        BY <3>2 DEF Delete, Create, IInv, CallInv, ControllerAt
      <4>. QED BY <3>1, <4>1 DEF IInv, ReaderInv, AllIdle
    <3>3. CASE ~Delete /\ ~Create
      <4>1. UNCHANGED <<allocated, out, api, read_payload, read_batch_payloads>>
        BY <2>3, <3>3 DEF ControllerStep, ControllerCalls, ControllerProceeds, StartAgain, StartBegin, StopBegin,
          StartCallSucceeds, StartCallFails, SetError, Publish, CloseStreamBegin, CloseStreamEnd,
          CloseHandle, CloseReturns, StopClear, StopNotify, Lock, controlVars, readVars
      <4>. QED BY <2>2, <3>1, <4>1
    <3>. QED BY <3>2, <3>3
  <2>4. ASSUME NEW t \in Threads, Lock(t) PROVE PayloadIntact'
    BY <2>2, <2>4 DEF Lock, LockOrder, controlVars, readVars
  <2>5. ASSUME NEW w \in Workers, NEW d \in Descriptors, Deliver(w, d) PROVE PayloadIntact'
    BY <2>2, <2>5 DEF Deliver, controlVars, readVars
  <2>6. ASSUME NEW w \in Workers, WorkerProceeds(w) PROVE PayloadIntact'
    <3>1. pc'[reader] = "copy" => pc[reader] = "copy"
      BY <2>6 DEF WorkerProceeds, CallbackCheck, CallbackParse, CallbackReturns, EnqueueRefused, Enqueue, Waiters
    <3>2. UNCHANGED <<allocated, out, api, read_payload, read_batch_payloads>>
      BY <2>6 DEF WorkerProceeds, CallbackCheck, CallbackParse, CallbackReturns, EnqueueRefused, Enqueue,
                  controlVars, readVars
    <3>. QED BY <2>2, <3>1, <3>2
  <2>7. ASSUME Take(reader), pc[reader] # "idle" PROVE PayloadIntact'
    <3>1. allocated /\ allocated' = allocated
      BY <2>7 DEF Take, controlVars, IInv, CallInv, ReaderInv, AllIdle
    <3>2. out'[reader] = IF api'[reader] = "PktmonRead" THEN read_payload' ELSE read_batch_payloads'
      BY <2>7 DEF Take
    <3>. QED BY <3>1, <3>2
  <2>8. ASSUME NEW r \in Readers, ReadFirst(r) \/ ReadWoken(r) PROVE PayloadIntact'
    <3>1. r = reader /\ pc[r] # "idle"
      BY <2>8 DEF ReadFirst, ReadWoken
    <3>2. CASE Take(r)
      BY <2>7, <3>1, <3>2
    <3>3. CASE ~Take(r)
      <4>1. pc'[reader] # "copy"
        BY <2>8, <3>1, <3>3 DEF ReadFirst, ReadWoken, ReadReturnsNothing
      <4>. QED BY <4>1
    <3>. QED BY <3>2, <3>3
  <2>9. ASSUME NEW r \in Readers, ReadTimeout(r) \/ Copy(r) PROVE PayloadIntact'
    BY <2>9 DEF ReadTimeout, Copy
  <2>10. ASSUME NEW r \in Readers, NEW call \in ReadApis, NEW n \in 1 .. MaxBatch, ReadCall(r, call, n)
         PROVE  PayloadIntact'
    BY <2>10 DEF ReadCall
  <2>11. CASE UNCHANGED vars
    BY <2>2, <2>11 DEF vars, threadVars, controlVars, readVars
  <2>. QED
    BY <2>3, <2>4, <2>5, <2>6, <2>8, <2>9, <2>10, <2>11 DEF Next, ControllerStep, ReaderProceeds
<1>. QED BY <1>1, <1>2, Invariance, PTL DEF Spec

-----------------------------------------------------------------------------
(* The order of reads *)

OrderedIds(q) == \A i \in 1 .. Len(q) : \A j \in 1 .. i - 1 : q[j].id < q[i].id

LEMMA QueueIds ==
  ASSUME NEW q \in Seq(Packet)
  PROVE  \A i \in 1 .. Len(q) : q[i] \in Packet /\ q[i].id \in Nat
<1>1. \A i \in 1 .. Len(q) : q[i] \in Packet
  OBVIOUS
<1>2. \A x \in Packet : x.id \in Nat
  BY DEF Packet
<1>. QED BY ONLY <1>1, <1>2

\* What is left of an ordered queue after its oldest have gone is ordered.
LEMMA CutOrder ==
  ASSUME NEW q, NEW p, NEW n \in Nat, NEW m \in Nat, OrderedIds(q), Len(p) = m, Len(q) \in Nat,
         \A i \in 1 .. m : n + i \in 1 .. Len(q) /\ p[i] = q[n + i]
  PROVE  OrderedIds(p)
<1> SUFFICES ASSUME NEW i \in 1 .. m, NEW j \in 1 .. i - 1 PROVE p[j].id < p[i].id
  BY DEF OrderedIds
<1>1. PICK a \in Int, b \in Int : a = n + i /\ b = n + j
  OBVIOUS
<1>2. j \in 1 .. m /\ b \in 1 .. a - 1
  BY <1>1
<1>3. a \in 1 .. Len(q) /\ p[i] = q[a] /\ p[j] = q[b]
  BY <1>1, <1>2
<1>4. q[b].id < q[a].id
  BY ONLY <1>2, <1>3, OrderedIds(q) DEF OrderedIds
<1>. QED BY ONLY <1>3, <1>4

\* A younger packet keeps the queue ordered, whether others make room or not.
LEMMA PushOrder ==
  ASSUME NEW q \in Seq(Packet), NEW cap \in Nat \ {0}, NEW x \in Packet, OrderedIds(q),
         \A i \in 1 .. Len(q) : q[i].id < x.id,
         NEW p, p = PushDroppingOldest(q, cap, x)
  PROVE  OrderedIds(p)
<1> DEFINE kept == Lesser(Len(q), cap - 1)
           low  == Len(q) - kept + 1
           tail == SubSeq(q, low, Len(q))
<1>1. kept \in Nat /\ kept <= Len(q)
  BY DEF Lesser
<1>2. low \in 1 .. Len(q) + 1 /\ low + kept = Len(q) + 1
  BY <1>1
<1>3. tail = SubSeq(q, low, Len(q)) /\ p = Append(tail, x) /\ Len(q) \in Nat
  BY DEF PushDroppingOldest
<1> HIDE DEF kept, low, tail
<1>4. tail \in Seq(Packet) /\ Len(tail) = kept /\ \A i \in 1 .. kept : tail[i] = q[low + i - 1]
  <2>1. \A i \in low .. Len(q) : q[i] \in Packet
    BY <1>2
  <2>2. kept = Len(q) - low + 1 /\ low \in Nat /\ low <= Len(q) + 1
    BY ONLY <1>1, <1>2, <1>3
  <2>. QED BY ONLY <1>1, <1>2, <1>3, <2>1, <2>2, SubSeqProperties
<1>5. Len(p) = kept + 1 /\ p[kept + 1] = x /\ \A i \in 1 .. kept : p[i] = q[low + i - 1]
  BY ONLY <1>1, <1>3, <1>4, AppendProperties, x \in Packet
<1>6. Len(q) \in Nat
  OBVIOUS
<1>7. \A i \in 1 .. kept : low + i - 1 \in 1 .. Len(q)
  BY ONLY <1>1, <1>2, <1>6
<1>8. ASSUME NEW i \in 1 .. kept + 1, NEW j \in 1 .. i - 1 PROVE p[j].id < p[i].id
  <2>1. j \in 1 .. kept
    BY ONLY <1>1, <1>8
  <2>2. CASE i = kept + 1
    BY ONLY <1>5, <1>7, <2>1, <2>2, \A k \in 1 .. Len(q) : q[k].id < x.id
  <2>3. CASE i \in 1 .. kept
    <3>1. PICK a \in Int, b \in Int : a = low + i - 1 /\ b = low + j - 1
      BY ONLY <1>2, <1>6, <1>8, <2>1, <2>3
    <3>2. a \in 1 .. Len(q) /\ b \in 1 .. a - 1
      BY ONLY <1>2, <1>6, <1>7, <1>8, <2>1, <2>3, <3>1
    <3>3. p[i] = q[a] /\ p[j] = q[b]
      BY ONLY <1>5, <2>1, <2>3, <3>1
    <3>4. q[b].id < q[a].id
      BY ONLY <3>2, OrderedIds(q) DEF OrderedIds
    <3>. QED BY ONLY <3>3, <3>4
  <2>. QED BY ONLY <1>1, <1>8, <2>2, <2>3
<1>. QED BY ONLY <1>5, <1>8 DEF OrderedIds

\* With one worker: its packet is the last that arrived, and everything read or
\* queued arrived before it.
ArrivalOrder ==
  /\ last_taken <= arrivals
  /\ \A i \in 1 .. Len(queue) : queue[i].id <= arrivals
  /\ \A w \in Workers : pc[w] # "idle" =>
       /\ packet[w].id = arrivals
       /\ last_taken < arrivals
       /\ \A i \in 1 .. Len(queue) : queue[i].id < arrivals
  /\ ReadInOrder

\* With one delivering thread packets are read in the order they arrived in, and
\* none twice, through overflow, stops and restarts.
THEOREM ReadsAreInOrder ==
  ASSUME NEW worker, Workers = {worker}
  PROVE  Spec => []ReadInOrder
<1>1. Init => ArrivalOrder
  BY EmptySeq DEF Init, ArrivalOrder, ReadInOrder, Threads
<1>2. IInv /\ ArrivalOrder /\ [Next]_vars => ArrivalOrder'
  <2> SUFFICES ASSUME IInv, ArrivalOrder, [Next]_vars PROVE ArrivalOrder'
    OBVIOUS
  <2> USE ThreadsAssumption DEF Threads, Unlock
  <2>1. ThreadTypes /\ PacketTypes
    BY DEF IInv, TypeOK
  <2> USE <2>1 DEF ThreadTypes, PacketTypes
  <2>2. ASSUME UNCHANGED <<last_taken, arrivals>>, queue' = queue \/ queue' = <<>>,
               pc'[worker] # "idle" => pc[worker] # "idle" /\ packet'[worker] = packet[worker]
        PROVE  ArrivalOrder'
    <3>1. CASE queue' = queue
      BY <2>2, <3>1 DEF ArrivalOrder, ReadInOrder
    <3>2. CASE queue' = <<>>
      <4>1. Len(queue') = 0
        BY <3>2, EmptySeq
      <4>. QED BY <2>2, <4>1 DEF ArrivalOrder, ReadInOrder
    <3>. QED BY <2>2, <3>1, <3>2
  <2>3. CASE ControllerStep
    <3>1. pc'[worker] = pc[worker] /\ packet' = packet /\ arrivals' = arrivals
      BY <2>3, ControllerFrame DEF workVars
    <3>2. last_taken' = last_taken /\ (queue' = queue \/ queue' = <<>>)
      BY <2>3 DEF ControllerStep, ControllerCalls, ControllerProceeds, StartAgain, StartBegin, StopBegin, Create,
          StartCallSucceeds, StartCallFails, SetError, Publish, CloseStreamBegin, CloseStreamEnd,
          CloseHandle, CloseReturns, StopClear, StopNotify, Delete, Lock, readVars
    <3>. QED BY <2>2, <3>1, <3>2
  <2>4. ASSUME NEW t \in Threads, Lock(t) PROVE ArrivalOrder'
    <3>1. pc'[worker] # "idle" => pc[worker] # "idle"
      BY <2>4 DEF Lock, LockOrder
    <3>. QED BY <2>2, <2>4, <3>1 DEF Lock, readVars, workVars
  <2>5. ASSUME NEW w \in Workers, NEW d \in Descriptors, Deliver(w, d) PROVE ArrivalOrder'
    <3>1. /\ arrivals' = arrivals + 1 /\ UNCHANGED <<queue, last_taken>>
          /\ packet'[worker].id = arrivals + 1
      BY <2>5 DEF Deliver, readVars
    <3>2. \A i \in 1 .. Len(queue) : queue[i].id \in Nat /\ queue[i].id <= arrivals
      BY QueueIds DEF ArrivalOrder
    <3>. QED BY <3>1, <3>2 DEF ArrivalOrder, ReadInOrder
  <2>6. ASSUME NEW w \in Workers, CallbackCheck(w) \/ CallbackParse(w) \/ EnqueueRefused(w) PROVE ArrivalOrder'
    <3>1. /\ UNCHANGED <<last_taken, arrivals, queue>>
          /\ pc'[worker] # "idle" => pc[worker] # "idle" /\ packet'[worker] = packet[worker]
      BY <2>6 DEF CallbackCheck, CallbackParse, CallbackReturns, EnqueueRefused, readVars
    <3>. QED BY <2>2, <3>1
  <2>7. ASSUME NEW w \in Workers, Enqueue(w) PROVE ArrivalOrder'
    <3>1. /\ w = worker /\ pc'[worker] = "idle" /\ UNCHANGED <<last_taken, arrivals>>
          /\ queue' = PushDroppingOldest(queue, config.capacity, packet[worker])
      BY <2>7 DEF Enqueue, Waiters, readVars
    <3>2. /\ packet[worker] \in Packet /\ config.capacity \in Nat \ {0} /\ queue \in Seq(Packet)
          /\ packet[worker].id = arrivals /\ last_taken < arrivals
          /\ \A i \in 1 .. Len(queue) : queue[i].id < packet[worker].id /\ last_taken < queue[i].id
          /\ OrderedIds(queue)
      BY <2>7, <3>1 DEF ArrivalOrder, ReadInOrder, OrderedIds, Enqueue, IInv, TypeOK, ControlTypes
    <3>3. PICK cap \in Nat \ {0}, x \in Packet : cap = config.capacity /\ x = packet[worker]
      BY <3>2
    <3>4. /\ queue' \in Seq(Packet) /\ OldOrNew(queue', queue, x) /\ OrderedIds(queue')
      BY ONLY <3>1, <3>2, <3>3, PushProperties, PushOrder
    <3>5. \A i \in 1 .. Len(queue') : last_taken < queue'[i].id /\ queue'[i].id <= arrivals
      <4>1. \A i \in 1 .. Len(queue) : queue[i].id \in Nat
        BY <3>2, QueueIds
      <4>. QED BY ONLY <3>2, <3>3, <3>4, <4>1, arrivals \in Nat DEF OldOrNew
    <3>. QED BY <3>1, <3>2, <3>4, <3>5 DEF ArrivalOrder, ReadInOrder, OrderedIds
  <2>8. ASSUME NEW r \in Readers, queue # <<>>, Take(r) PROVE ArrivalOrder'
    <3> DEFINE n == Lesser(count[r], Len(queue))
    <3>1. count[r] \in Nat \ {0} /\ queue \in Seq(Packet)
      OBVIOUS
    <3>2. /\ n \in 1 .. Len(queue)
          /\ \A i \in 1 .. n : SubSeq(queue, 1, n)[i] = queue[i]
          /\ Len(SubSeq(queue, n + 1, Len(queue))) = Len(queue) - n
          /\ \A i \in 1 .. Len(queue) - n : SubSeq(queue, n + 1, Len(queue))[i] = queue[n + i]
      BY ONLY <2>8, <3>1, TakeProperties
    <3>3. /\ queue' = SubSeq(queue, n + 1, Len(queue))
          /\ last_taken' = SubSeq(queue, 1, n)[n].id
          /\ UNCHANGED <<arrivals, packet>> /\ pc'[worker] = pc[worker]
      BY <2>8 DEF Take, workVars
    <3> HIDE DEF n
    <3>4. last_taken' = queue[n].id
      <4>1. n \in 1 .. n
        BY <3>2
      <4>. QED BY ONLY <3>2, <3>3, <4>1
    <3>5. /\ Len(queue') = Len(queue) - n
          /\ \A i \in 1 .. Len(queue') : queue'[i] = queue[n + i] /\ n + i \in 1 .. Len(queue)
      BY <3>2, <3>3
    <3>6. /\ OrderedIds(queue)
          /\ \A i \in 1 .. Len(queue) : queue[i].id \in Nat /\ queue[i].id <= arrivals
          /\ \A i \in 1 .. Len(queue) : n < i => queue[n].id < queue[i].id
      <4>1. OrderedIds(queue) /\ \A i \in 1 .. Len(queue) : queue[i].id <= arrivals
        BY DEF ArrivalOrder, ReadInOrder, OrderedIds
      <4>2. \A i \in 1 .. Len(queue) : n < i => n \in 1 .. i - 1
        BY <3>2
      <4>. QED BY <4>1, <4>2, QueueIds DEF OrderedIds
    <3>7. \A i \in 1 .. Len(queue') : last_taken' < queue'[i].id /\ queue'[i].id <= arrivals
      <4> SUFFICES ASSUME NEW i \in 1 .. Len(queue')
                   PROVE  last_taken' < queue'[i].id /\ queue'[i].id <= arrivals
        OBVIOUS
      <4>1. PICK a \in 1 .. Len(queue) : queue'[i] = queue[a] /\ n < a
        BY <3>2, <3>5
      <4>. QED BY ONLY <3>4, <3>6, <4>1
    <3>8. OrderedIds(queue')
      <4>1. n \in Nat /\ Len(queue') \in Nat /\ Len(queue) \in Nat
        BY <3>2, <3>5
      <4>. QED BY ONLY <3>5, <3>6, <4>1, CutOrder
    <3>9. ASSUME NEW w \in Workers, pc'[w] # "idle"
          PROVE  /\ packet'[w].id = arrivals /\ last_taken' < arrivals
                 /\ \A i \in 1 .. Len(queue') : queue'[i].id < arrivals
      <4>1. packet[w].id = arrivals /\ \A i \in 1 .. Len(queue) : queue[i].id < arrivals
        BY <3>3, <3>9 DEF ArrivalOrder
      <4>. QED BY ONLY <3>2, <3>3, <3>4, <3>5, <4>1
    <3>10. last_taken' <= arrivals'
      BY <3>2, <3>3, <3>4, <3>6
    <3>. QED BY <3>3, <3>7, <3>8, <3>9, <3>10 DEF ArrivalOrder, ReadInOrder, OrderedIds
  <2>9. ASSUME NEW r \in Readers, ReaderProceeds(r) \/ ReadTimeout(r), ~Take(r) \/ queue = <<>> PROVE ArrivalOrder'
    <3>1. /\ UNCHANGED <<last_taken, arrivals, queue, packet>> /\ pc'[worker] = pc[worker]
      BY <2>9 DEF ReaderProceeds, ReadFirst, ReadWoken, ReadReturnsNothing, ReadTimeout, Copy, readVars, workVars
    <3>. QED BY <2>2, <3>1
  <2>10. ASSUME NEW r \in Readers, NEW call \in ReadApis, NEW n \in 1 .. MaxBatch, ReadCall(r, call, n)
         PROVE  ArrivalOrder'
    BY <2>2, <2>10 DEF ReadCall, workVars
  <2>11. CASE UNCHANGED vars
    BY <2>2, <2>11 DEF vars, threadVars, readVars, workVars
  <2>. QED
    BY <2>3, <2>4, <2>5, <2>6, <2>7, <2>8, <2>9, <2>10, <2>11 DEF Next, ControllerStep, WorkerProceeds
<1>3. ArrivalOrder => ReadInOrder
  BY DEF ArrivalOrder
<1>. QED BY <1>1, <1>2, <1>3, Invariance, PTL DEF Spec
=============================================================================
