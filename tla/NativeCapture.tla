--------------------------- MODULE NativeCapture ---------------------------
(***************************************************************************)
(* One CaptureState of the native shim (native/src/pktmon_backend.cpp):    *)
(* the packet queue with its mutex and condition variable, the ladder of   *)
(* PktMonApi handles that a capture climbs and descends, and the threads   *)
(* that meet on it:                                                        *)
(*                                                                         *)
(*   Controller  creates, starts, stops and destroys the capture, one call *)
(*               at a time (PktmonCreate, PktmonStartConfig, PktmonStop,   *)
(*               PktmonDestroy);                                           *)
(*   Readers     call PktmonRead and PktmonReadBatch, then copy what they  *)
(*               were handed (backend.py, _packet_from_native);            *)
(*   Workers     are the threads of PktMonApi.dll that run                 *)
(*               direct_packet_callback.                                   *)
(*                                                                         *)
(* A critical section is a step that takes the mutex and a step that does  *)
(* the section's work and gives the mutex back.  What the packets contain  *)
(* is left out: a callback carries the outcomes its parse attempts would   *)
(* have, and a packet is its arrival number and the capture it belongs to. *)
(***************************************************************************)
EXTENDS Integers, Sequences, FiniteSets

CONSTANTS
  Controller,        \* the application thread that owns the capture
  Readers,           \* application threads that read packets
  Workers,           \* PktMonApi threads that deliver packets
  NoThread,          \* the value of mutex when nobody holds it
  DefaultCapacity,   \* kDefaultQueueCapacity
  Configs,           \* the PktmonCaptureConfig values a start may be given
  Descriptors,       \* the stream data descriptors a callback may be given
  MaxBatch,          \* bound: the largest packet_count of PktmonReadBatch
  MaxPackets,        \* bound: callbacks in a behaviour
  MaxStarts          \* bound: captures started in a behaviour

Threads == {Controller} \cup Readers \cup Workers

\* What a parse attempt of enqueue_packet comes to: no TCP or UDP packet found,
\* a packet without payload, a packet with payload.
Outcomes == {"unparsed", "empty", "data"}

ASSUME ThreadsAssumption ==
  /\ Controller \notin Readers \cup Workers
  /\ Readers \cap Workers = {}
  /\ NoThread \notin Threads
  /\ IsFiniteSet(Readers)

ASSUME InputAssumption ==
  /\ DefaultCapacity \in Nat \ {0}
  /\ Configs \subseteq [wellSized: BOOLEAN, capacity: Nat, includeEmpty: BOOLEAN]
  /\ Descriptors \subseteq Seq(Outcomes)

ASSUME BoundAssumption ==
  /\ MaxBatch \in Nat \ {0}
  /\ MaxPackets \in Nat
  /\ MaxStarts \in Nat

VARIABLES
  pc,                   \* where each thread is
  mutex,                \* CaptureState::mutex: the thread that holds it
  allocated,            \* the CaptureState exists
  op,                   \* the controller's current (or last) call
  status,               \* the PktmonStatus of the last PktmonStartConfig
  failing,              \* the PktMonApi call whose error a start is reporting
  held,                 \* the handle fields that are not null
  flow,                 \* whether PktMonApi may call direct_packet_callback
  stopping,             \* CaptureState::stopping
  started,              \* CaptureState::started
  config,               \* queue_capacity and include_empty_payloads
  last_error,           \* the failed call CaptureState::last_error names
  queue,                \* CaptureState::queue
  packet,               \* per worker: the packet its callback was given
  tries,                \* per worker: the parse attempts it has left
  api,                  \* per reader: the function it called
  count,                \* per reader: the packet_count it asked for
  out,                  \* per reader: the packet headers it was handed
  read_payload,         \* whose payload CaptureState::read_payload holds
  read_batch_payloads,  \* the same for CaptureState::read_batch_payloads
  epoch,                \* history: captures started so far
  arrivals,             \* history: callbacks so far
  last_taken            \* history: arrival number of the last packet read

threadVars  == <<pc, mutex>>
controlVars == <<allocated, op, status, failing, held, stopping, started, config, last_error, epoch>>
readVars    == <<api, count, out, read_payload, read_batch_payloads, last_taken>>
workVars    == <<packet, tries, arrivals>>
vars == <<threadVars, controlVars, readVars, workVars, flow, queue>>

-----------------------------------------------------------------------------
(* Types and tables *)

Handles == {"module", "api", "session", "stream"}
Packet  == [id: Nat, epoch: Nat]

\* The calls start_direct_capture makes, in order, up to the publication of
\* the capture by PktmonStartConfig.
StartCalls == {"load", "resolve", "initialize", "create_session", "constraints",
               "create_stream", "attach", "activate"}

CallOrder ==
  { <<"load", "resolve">>, <<"resolve", "initialize">>, <<"initialize", "create_session">>,
    <<"create_session", "constraints">>, <<"constraints", "create_stream">>,
    <<"create_stream", "attach">>, <<"attach", "activate">>, <<"activate", "publish_lock">> }

\* The handle field a call of start_direct_capture fills in.
Opens(call) ==
  { h \in Handles : <<call, h>> \in { <<"load", "module">>, <<"initialize", "api">>,
                                     <<"create_session", "session">>, <<"create_stream", "stream">> } }

FailureStatus(call) ==
  IF call = "load" THEN "PKTMON_E_LOAD_DLL"
  ELSE IF call = "resolve" THEN "PKTMON_E_MISSING_EXPORT"
  ELSE "PKTMON_E_PROCESS"

\* The calls close_direct_capture makes once the stream is closed, each with
\* the handle it gives up, in order.
CloseCalls == {"close_session", "uninitialize", "free_library"}
\* Mutant: the API handle is given back before the session.
CloseOrder_ApiFirst ==
  { <<"close_session", "api", "uninitialize">>,
    <<"uninitialize", "session", "free_library">>,
    <<"free_library", "module", "closed">> }
CloseOrder ==
  { <<"close_session", "session", "uninitialize">>,
    <<"uninitialize", "api", "free_library">>,
    <<"free_library", "module", "closed">> }

\* Where a thread waits for the mutex, and where it is once it holds it.
LockOrder ==
  { <<"error_lock", "error">>, <<"publish_lock", "publish">>, <<"clear_lock", "clear">>,
    <<"enqueue_lock", "enqueue">>, <<"read_lock", "read">>, <<"relock", "recheck">> }

ControllerLabels ==
  {"idle", "error_lock", "error", "publish_lock", "publish", "close_stream", "drain",
   "closed", "clear_lock", "clear", "notify", "delete"} \cup StartCalls \cup CloseCalls
WorkerLabels == {"idle", "callback", "parse", "enqueue_lock", "enqueue"}
ReaderLabels == {"idle", "read_lock", "read", "waiting", "relock", "recheck", "copy"}

Waiters == {r \in Readers : pc[r] = "waiting"}
NoPacket == [id |-> 0, epoch |-> 0]
ReadApis == {"PktmonRead", "PktmonReadBatch"}

\* apply_capture_config: the defaults, overridden by the fields of a
\* configuration of the right size that are not zero.
DefaultConfig == [capacity |-> DefaultCapacity, includeEmpty |-> TRUE]

\* Mutant: a zero capacity is taken for a capacity.
ApplyConfig_KeepsZero(c) ==
  IF c.wellSized
  THEN [capacity |-> c.capacity, includeEmpty |-> c.includeEmpty]
  ELSE DefaultConfig

ApplyConfig(c) ==
  IF c.wellSized
  THEN [capacity     |-> IF c.capacity > 0 THEN c.capacity ELSE DefaultCapacity,
        includeEmpty |-> c.includeEmpty]
  ELSE DefaultConfig

Lesser(a, b) == IF a < b THEN a ELSE b

\* Mutant: a full queue drops its newest packet.
PushDroppingOldest_DropsNewest(q, capacity, item) ==
  LET kept == Lesser(Len(q), capacity - 1)
  IN Append(SubSeq(q, 1, kept), item)

\* The queue after enqueue_packet: the oldest packets are dropped until there
\* is room for one more.
PushDroppingOldest(q, capacity, item) ==
  LET kept == Lesser(Len(q), capacity - 1)
  IN Append(SubSeq(q, Len(q) - kept + 1, Len(q)), item)

-----------------------------------------------------------------------------
(* The initial state: PktmonCreate has returned a new CaptureState. *)

Init ==
  /\ pc = [t \in Threads |-> "idle"]
  /\ mutex = NoThread
  /\ allocated = TRUE
  /\ op = "create"
  /\ status = "PKTMON_OK"
  /\ failing = "none"
  /\ held = {}
  /\ flow = "off"
  /\ stopping = FALSE
  /\ started = FALSE
  /\ config = DefaultConfig
  /\ last_error = "none"
  /\ queue = <<>>
  /\ packet = [w \in Workers |-> NoPacket]
  /\ tries = [w \in Workers |-> <<>>]
  /\ api = [r \in Readers |-> "PktmonRead"]
  /\ count = [r \in Readers |-> 1]
  /\ out = [r \in Readers |-> <<>>]
  /\ read_payload = <<>>
  /\ read_batch_payloads = <<>>
  /\ epoch = 0
  /\ arrivals = 0
  /\ last_taken = 0

-----------------------------------------------------------------------------
(* The mutex *)

\* A thread acquires CaptureState::mutex.
Lock(t) ==
  /\ mutex = NoThread
  /\ mutex' = t
  /\ \E pair \in LockOrder : pc[t] = pair[1] /\ pc' = [pc EXCEPT ![t] = pair[2]]
  /\ UNCHANGED <<controlVars, readVars, workVars, flow, queue>>

\* Thread t leaves its critical section for label.
Unlock(t, label) ==
  /\ mutex' = NoThread
  /\ pc' = [pc EXCEPT ![t] = label]

-----------------------------------------------------------------------------
(* The controller: PktmonStartConfig *)

ControllerAt(label) == pc[Controller] = label
ControllerGoes(label) == pc' = [pc EXCEPT ![Controller] = label] /\ UNCHANGED mutex

\* A capture that is already started is left alone, whatever the new arguments.
StartAgain ==
  /\ ControllerAt("idle") /\ allocated /\ started
  /\ op' = "start"
  /\ status' = "PKTMON_OK"
  /\ UNCHANGED <<threadVars, allocated, failing, held, stopping, started, config, last_error, epoch>>
  /\ UNCHANGED <<readVars, workVars, flow, queue>>

StartBegin(c) ==
  /\ ControllerAt("idle") /\ allocated /\ ~started
  /\ epoch < MaxStarts
  /\ op' = "start"
  /\ stopping' = FALSE
  /\ config' = ApplyConfig(c)
  /\ epoch' = epoch + 1
  /\ ControllerGoes("load")
  /\ UNCHANGED <<allocated, status, failing, held, started, last_error, readVars, workVars, flow, queue>>

\* A call of start_direct_capture succeeds; the last one, SetSessionActive,
\* lets packets flow.
StartCallSucceeds ==
  \E pair \in CallOrder :
     /\ ControllerAt(pair[1])
     /\ held' = held \cup Opens(pair[1])
     /\ flow' = IF pair[1] = "activate" THEN "on" ELSE flow
     /\ ControllerGoes(pair[2])
     /\ UNCHANGED <<allocated, op, status, failing, stopping, started, config, last_error, epoch>>
     /\ UNCHANGED <<readVars, workVars, queue>>

\* A call fails.  A create call that returns a failing HRESULT may have filled
\* in its handle field all the same; LoadLibrary cannot.
StartCallFails(filled) ==
  LET call == pc[Controller]
  IN /\ call \in StartCalls
     /\ filled => call # "load"
     /\ held' = IF filled THEN held \cup Opens(call) ELSE held
     /\ failing' = call
     /\ status' = FailureStatus(call)
     /\ ControllerGoes("error_lock")
     /\ UNCHANGED <<allocated, op, stopping, started, config, last_error, epoch>>
     /\ UNCHANGED <<readVars, workVars, flow, queue>>

\* Mutant: the start returns without closing what it had opened.
SetError_KeepsHandles ==
  /\ ControllerAt("error")
  /\ last_error' = failing
  /\ Unlock(Controller, "idle")
  /\ UNCHANGED <<allocated, op, status, failing, held, stopping, started, config, epoch>>
  /\ UNCHANGED <<readVars, workVars, flow, queue>>

\* set_error, before close_direct_capture; when the DLL did not load there is
\* nothing to close.
SetError ==
  /\ ControllerAt("error")
  /\ last_error' = failing
  /\ Unlock(Controller, IF failing = "load" THEN "idle" ELSE "close_stream")
  /\ UNCHANGED <<allocated, op, status, failing, held, stopping, started, config, epoch>>
  /\ UNCHANGED <<readVars, workVars, flow, queue>>

\* The last section of PktmonStartConfig.
Publish ==
  /\ ControllerAt("publish")
  /\ started' = TRUE
  /\ last_error' = "none"
  /\ status' = "PKTMON_OK"
  /\ Unlock(Controller, "idle")
  /\ UNCHANGED <<allocated, op, failing, held, stopping, config, epoch>>
  /\ UNCHANGED <<readVars, workVars, flow, queue>>

-----------------------------------------------------------------------------
(* The controller: close_direct_capture *)

\* Mutant: the stream is closed inside the critical section.
CloseStreamBegin_Locked ==
  /\ ControllerAt("close_stream") /\ mutex = NoThread
  /\ IF "stream" \in held
     THEN /\ flow' = "draining" /\ mutex' = Controller
          /\ pc' = [pc EXCEPT ![Controller] = "drain"]
     ELSE flow' = flow /\ ControllerGoes("close_session")
  /\ UNCHANGED <<controlVars, readVars, workVars, queue>>

\* SetSessionActive(FALSE), then the call of CloseRealtimeStream: no callback
\* begins from here on.
CloseStreamBegin ==
  /\ ControllerAt("close_stream")
  /\ IF "stream" \in held
     THEN flow' = "draining" /\ ControllerGoes("drain")
     ELSE flow' = flow /\ ControllerGoes("close_session")
  /\ UNCHANGED <<controlVars, readVars, workVars, queue>>

\* CloseRealtimeStream returns when no callback is running.
CloseStreamEnd ==
  /\ ControllerAt("drain")
  /\ \A w \in Workers : pc[w] = "idle"
  /\ flow' = "off"
  /\ held' = held \ {"stream"}
  /\ ControllerGoes("close_session")
  /\ UNCHANGED <<allocated, op, status, failing, stopping, started, config, last_error, epoch>>
  /\ UNCHANGED <<readVars, workVars, queue>>

\* CloseSessionHandle, Uninitialize and FreeLibrary, each for a handle that is
\* not null; the field is null afterwards.
CloseHandle ==
  \E step \in CloseOrder :
     /\ ControllerAt(step[1])
     /\ held' = held \ {step[2]}
     /\ ControllerGoes(step[3])
     /\ UNCHANGED <<allocated, op, status, failing, stopping, started, config, last_error, epoch>>
     /\ UNCHANGED <<readVars, workVars, flow, queue>>

\* close_direct_capture returns to the start that failed, or to stop_capture.
CloseReturns ==
  /\ ControllerAt("closed")
  /\ ControllerGoes(IF op = "start" THEN "idle" ELSE "clear_lock")
  /\ UNCHANGED <<controlVars, readVars, workVars, flow, queue>>

-----------------------------------------------------------------------------
(* The controller: PktmonStop, PktmonDestroy, PktmonCreate *)

\* A capture is destroyed only when no other thread is in a call or still copies
\* the result of one: PktmonSniffer.stop() closes its backend when it has joined
\* the drain thread.  A stop that does not wait is outside this module; Sniffer has
\* it, and NoUseAfterDestroy there says what it can do.
CallersQuiescent == \A r \in Readers : pc[r] = "idle"

\* Mutant: PktmonDestroy frees the state without stopping the capture.
StopBegin_DestroyDeletes(call) ==
  /\ ControllerAt("idle") /\ allocated
  /\ call \in {"stop", "destroy"}
  /\ call = "destroy" => CallersQuiescent
  /\ op' = call
  /\ stopping' = TRUE
  /\ ControllerGoes(IF call = "destroy" THEN "delete" ELSE "close_stream")
  /\ UNCHANGED <<allocated, status, failing, held, started, config, last_error, epoch>>
  /\ UNCHANGED <<readVars, workVars, flow, queue>>

StopBegin(call) ==
  /\ ControllerAt("idle") /\ allocated
  /\ call \in {"stop", "destroy"}
  /\ call = "destroy" => CallersQuiescent
  /\ op' = call
  /\ stopping' = TRUE
  /\ ControllerGoes("close_stream")
  /\ UNCHANGED <<allocated, status, failing, held, started, config, last_error, epoch>>
  /\ UNCHANGED <<readVars, workVars, flow, queue>>

\* Mutant: the queue survives the stop.
StopClear_KeepsQueue ==
  /\ ControllerAt("clear")
  /\ started' = FALSE
  /\ Unlock(Controller, "notify")
  /\ UNCHANGED <<allocated, op, status, failing, held, stopping, config, last_error, epoch>>
  /\ UNCHANGED <<readVars, workVars, flow, queue>>

\* Mutant: the stop empties the payload buffers too.
StopClear_ClearsBuffers ==
  /\ ControllerAt("clear")
  /\ started' = FALSE
  /\ queue' = <<>> /\ read_payload' = <<>> /\ read_batch_payloads' = <<>>
  /\ Unlock(Controller, "notify")
  /\ UNCHANGED <<allocated, op, status, failing, held, stopping, config, last_error, epoch>>
  /\ UNCHANGED <<api, count, out, last_taken, workVars, flow>>

StopClear ==
  /\ ControllerAt("clear")
  /\ started' = FALSE
  /\ queue' = <<>>
  /\ Unlock(Controller, "notify")
  /\ UNCHANGED <<allocated, op, status, failing, held, stopping, config, last_error, epoch>>
  /\ UNCHANGED <<readVars, workVars, flow>>

\* Mutant: the stop wakes one reader.
StopNotify_WakesOne ==
  /\ ControllerAt("notify")
  /\ \E woken \in SUBSET Waiters :
       /\ Cardinality(woken) = Lesser(1, Cardinality(Waiters))
       /\ pc' = [t \in Threads |->
                   IF t = Controller THEN (IF op = "destroy" THEN "delete" ELSE "idle")
                   ELSE IF t \in woken THEN "relock" ELSE pc[t]]
  /\ UNCHANGED <<mutex, controlVars, readVars, workVars, flow, queue>>

\* notify_all, outside the lock; stop_capture returns.
StopNotify ==
  /\ ControllerAt("notify")
  /\ pc' = [t \in Threads |->
              IF t = Controller THEN (IF op = "destroy" THEN "delete" ELSE "idle")
              ELSE IF t \in Waiters THEN "relock" ELSE pc[t]]
  /\ UNCHANGED <<mutex, controlVars, readVars, workVars, flow, queue>>

Delete ==
  /\ ControllerAt("delete")
  /\ allocated' = FALSE
  /\ ControllerGoes("idle")
  /\ UNCHANGED <<op, status, failing, held, stopping, started, config, last_error, epoch>>
  /\ UNCHANGED <<readVars, workVars, flow, queue>>

\* PktmonCreate: a new CaptureState with its member initialisers.
Create ==
  /\ ControllerAt("idle") /\ ~allocated
  /\ allocated' = TRUE
  /\ op' = "create"
  /\ held' = {} /\ stopping' = FALSE /\ started' = FALSE
  /\ config' = DefaultConfig
  /\ last_error' = "none"
  /\ queue' = <<>> /\ read_payload' = <<>> /\ read_batch_payloads' = <<>>
  /\ UNCHANGED <<threadVars, status, failing, epoch, api, count, out, last_taken, workVars, flow>>

-----------------------------------------------------------------------------
(* The workers: direct_packet_callback *)

\* PktMonApi runs the callback on a packet of the current capture.
Deliver(w, d) ==
  /\ pc[w] = "idle" /\ flow = "on"
  /\ arrivals < MaxPackets
  /\ arrivals' = arrivals + 1
  /\ packet' = [packet EXCEPT ![w] = [id |-> arrivals + 1, epoch |-> epoch]]
  /\ tries' = [tries EXCEPT ![w] = d]
  /\ pc' = [pc EXCEPT ![w] = "callback"]
  /\ UNCHANGED <<mutex, controlVars, readVars, flow, queue>>

CallbackReturns(w) ==
  /\ packet' = [packet EXCEPT ![w] = NoPacket]
  /\ tries' = [tries EXCEPT ![w] = <<>>]
  /\ pc' = [pc EXCEPT ![w] = "idle"]

\* The check of stopping, outside the lock.
CallbackCheck(w) ==
  /\ pc[w] = "callback"
  /\ IF stopping
     THEN CallbackReturns(w)
     ELSE pc' = [pc EXCEPT ![w] = "parse"] /\ UNCHANGED <<packet, tries>>
  /\ UNCHANGED <<mutex, controlVars, readVars, arrivals, flow, queue>>

\* enqueue_stream_data: one attempt of parse_packet_bytes after the other,
\* until one finds a packet or none is left.
CallbackParse(w) ==
  /\ pc[w] = "parse"
  /\ \/ tries[w] = <<>> /\ CallbackReturns(w)
     \/ /\ tries[w] # <<>> /\ Head(tries[w]) = "unparsed"
        /\ tries' = [tries EXCEPT ![w] = Tail(@)]
        /\ UNCHANGED <<pc, packet>>
     \/ /\ tries[w] # <<>> /\ Head(tries[w]) # "unparsed"
        /\ pc' = [pc EXCEPT ![w] = "enqueue_lock"]
        /\ UNCHANGED <<packet, tries>>
  /\ UNCHANGED <<mutex, controlVars, readVars, arrivals, flow, queue>>

\* The section of enqueue_packet refuses a packet without payload, and the
\* callback goes on to its next attempt.
EnqueueRefused(w) ==
  /\ pc[w] = "enqueue"
  /\ ~config.includeEmpty /\ Head(tries[w]) = "empty"
  /\ tries' = [tries EXCEPT ![w] = Tail(@)]
  /\ Unlock(w, "parse")
  /\ UNCHANGED <<controlVars, readVars, packet, arrivals, flow, queue>>

\* Mutant: only the packet that ends an empty queue is announced.
Enqueue_NotifiesWhenEmpty(w) ==
  /\ pc[w] = "enqueue"
  /\ config.includeEmpty \/ Head(tries[w]) # "empty"
  /\ queue' = PushDroppingOldest(queue, config.capacity, packet[w])
  /\ mutex' = NoThread
  /\ packet' = [packet EXCEPT ![w] = NoPacket]
  /\ tries' = [tries EXCEPT ![w] = <<>>]
  /\ \/ (Waiters = {} \/ queue # <<>>) /\ pc' = [pc EXCEPT ![w] = "idle"]
     \/ queue = <<>> /\ \E r \in Waiters : pc' = [pc EXCEPT ![w] = "idle", ![r] = "relock"]
  /\ UNCHANGED <<controlVars, readVars, arrivals, flow>>

\* The section of enqueue_packet: make room, append, notify one waiter.
Enqueue(w) ==
  /\ pc[w] = "enqueue"
  /\ config.includeEmpty \/ Head(tries[w]) # "empty"
  /\ queue' = PushDroppingOldest(queue, config.capacity, packet[w])
  /\ mutex' = NoThread
  /\ packet' = [packet EXCEPT ![w] = NoPacket]
  /\ tries' = [tries EXCEPT ![w] = <<>>]
  /\ \/ Waiters = {} /\ pc' = [pc EXCEPT ![w] = "idle"]
     \/ \E r \in Waiters : pc' = [pc EXCEPT ![w] = "idle", ![r] = "relock"]
  /\ UNCHANGED <<controlVars, readVars, arrivals, flow>>

-----------------------------------------------------------------------------
(* The readers: PktmonRead and PktmonReadBatch *)

ReadCall(r, call, n) ==
  /\ pc[r] = "idle" /\ allocated /\ op # "destroy"
  /\ call = "PktmonRead" => n = 1
  /\ api' = [api EXCEPT ![r] = call]
  /\ count' = [count EXCEPT ![r] = n]
  /\ pc' = [pc EXCEPT ![r] = "read_lock"]
  /\ UNCHANGED <<mutex, controlVars, out, read_payload, read_batch_payloads, last_taken>>
  /\ UNCHANGED <<workVars, flow, queue>>

\* The call is over; what it asked for is forgotten.
ReadForgets(r) ==
  /\ api' = [api EXCEPT ![r] = "PktmonRead"]
  /\ count' = [count EXCEPT ![r] = 1]

\* PKTMON_E_NOT_STARTED or PKTMON_E_TIMEOUT: nothing is handed out.
ReadReturnsNothing(r) ==
  /\ ReadForgets(r)
  /\ Unlock(r, "idle")
  /\ UNCHANGED <<controlVars, out, read_payload, read_batch_payloads, last_taken>>
  /\ UNCHANGED <<workVars, flow, queue>>

\* Mutant: the last packet handed out stays in the queue.
Take_LeavesLast(r) ==
  LET n     == Lesser(count[r], Len(queue))
      taken == SubSeq(queue, 1, n)
  IN /\ queue' = SubSeq(queue, n, Len(queue))
     /\ out' = [out EXCEPT ![r] = taken]
     /\ IF api[r] = "PktmonRead"
        THEN read_payload' = taken /\ UNCHANGED read_batch_payloads
        ELSE read_batch_payloads' = taken /\ UNCHANGED read_payload
     /\ last_taken' = taken[n].id
     /\ Unlock(r, "copy")
     /\ UNCHANGED <<controlVars, api, count, workVars, flow>>

\* The first packets of the queue move to the reader: their headers into its
\* structures, their payloads into the buffer its call uses.
Take(r) ==
  LET n     == Lesser(count[r], Len(queue))
      taken == SubSeq(queue, 1, n)
  IN /\ queue' = SubSeq(queue, n + 1, Len(queue))
     /\ out' = [out EXCEPT ![r] = taken]
     /\ IF api[r] = "PktmonRead"
        THEN read_payload' = taken /\ UNCHANGED read_batch_payloads
        ELSE read_batch_payloads' = taken /\ UNCHANGED read_payload
     /\ last_taken' = taken[n].id
     /\ Unlock(r, "copy")
     /\ UNCHANGED <<controlVars, api, count, workVars, flow>>

\* The section before the wait.
ReadFirst(r) ==
  /\ pc[r] = "read"
  /\ \/ ~started /\ ReadReturnsNothing(r)
     \/ /\ started /\ queue = <<>>
        /\ Unlock(r, "waiting")
        /\ UNCHANGED <<controlVars, readVars, workVars, flow, queue>>
     \/ started /\ queue # <<>> /\ Take(r)

\* wait_for ends without a notification: the timeout, or a spurious wakeup.
ReadTimeout(r) ==
  /\ pc[r] = "waiting"
  /\ pc' = [pc EXCEPT ![r] = "relock"]
  /\ UNCHANGED <<mutex, controlVars, readVars, workVars, flow, queue>>

\* Mutant: a reader that finds nothing waits for another timeout.
ReadWoken_WaitsAgain(r) ==
  /\ pc[r] = "recheck"
  /\ IF queue = <<>>
     THEN Unlock(r, "waiting") /\ UNCHANGED <<controlVars, readVars, workVars, flow, queue>>
     ELSE Take(r)

\* The section after the wait looks at the queue again, and not at started.
ReadWoken(r) ==
  /\ pc[r] = "recheck"
  /\ IF queue = <<>> THEN ReadReturnsNothing(r) ELSE Take(r)

\* _packet_from_native copies the payloads after the native call returned.
Copy(r) ==
  /\ pc[r] = "copy"
  /\ out' = [out EXCEPT ![r] = <<>>]
  /\ ReadForgets(r)
  /\ pc' = [pc EXCEPT ![r] = "idle"]
  /\ UNCHANGED <<mutex, controlVars, read_payload, read_batch_payloads, last_taken>>
  /\ UNCHANGED <<workVars, flow, queue>>

-----------------------------------------------------------------------------
(* The specification *)

ControllerCalls ==
  \/ StartAgain
  \/ \E c \in Configs : StartBegin(c)
  \/ \E call \in {"stop", "destroy"} : StopBegin(call)
  \/ Create

ControllerProceeds ==
  \/ StartCallSucceeds
  \/ \E filled \in BOOLEAN : StartCallFails(filled)
  \/ SetError \/ Publish
  \/ CloseStreamBegin \/ CloseStreamEnd \/ CloseHandle \/ CloseReturns
  \/ StopClear \/ StopNotify \/ Delete

WorkerProceeds(w) == CallbackCheck(w) \/ CallbackParse(w) \/ EnqueueRefused(w) \/ Enqueue(w)
ReaderProceeds(r) == ReadFirst(r) \/ ReadWoken(r) \/ Copy(r)

Next ==
  \/ ControllerCalls
  \/ ControllerProceeds
  \/ \E t \in Threads : Lock(t)
  \/ \E w \in Workers : WorkerProceeds(w) \/ \E d \in Descriptors : Deliver(w, d)
  \/ \E r \in Readers : ReaderProceeds(r) \/ ReadTimeout(r) \/ \E call \in ReadApis, n \in 1 .. MaxBatch : ReadCall(r, call, n)

Spec == Init /\ [][Next]_vars

\* A thread inside a call is scheduled, a mutex that keeps becoming free is
\* eventually acquired, and a timed wait ends.  Nothing makes a caller call or
\* a packet arrive.
Fairness ==
  /\ WF_vars(ControllerProceeds)
  /\ \A t \in Threads : SF_vars(Lock(t))
  /\ \A w \in Workers : WF_vars(WorkerProceeds(w))
  /\ \A r \in Readers : WF_vars(ReaderProceeds(r)) /\ WF_vars(ReadTimeout(r))

FairSpec == Spec /\ Fairness

-----------------------------------------------------------------------------
(* Properties *)

AllIdle(S) == \A t \in S : pc[t] = "idle"

ThreadTypes ==
  /\ pc \in [Threads -> ControllerLabels \cup WorkerLabels \cup ReaderLabels]
  /\ pc[Controller] \in ControllerLabels
  /\ \A w \in Workers : pc[w] \in WorkerLabels
  /\ \A r \in Readers : pc[r] \in ReaderLabels
  /\ mutex \in Threads \cup {NoThread}

ControlTypes ==
  /\ allocated \in BOOLEAN /\ stopping \in BOOLEAN /\ started \in BOOLEAN
  /\ op \in {"create", "start", "stop", "destroy"}
  /\ status \in {"PKTMON_OK", "PKTMON_E_LOAD_DLL", "PKTMON_E_MISSING_EXPORT", "PKTMON_E_PROCESS"}
  /\ failing \in StartCalls \cup {"none"}
  /\ last_error \in StartCalls \cup {"none"}
  /\ held \in SUBSET Handles
  /\ flow \in {"off", "on", "draining"}
  /\ config \in [capacity: Nat \ {0}, includeEmpty: BOOLEAN]
  /\ epoch \in Nat

PacketTypes ==
  /\ queue \in Seq(Packet)
  /\ packet \in [Workers -> Packet]
  /\ tries \in [Workers -> Seq(Outcomes)]
  /\ api \in [Readers -> ReadApis]
  /\ count \in [Readers -> Nat \ {0}]
  /\ out \in [Readers -> Seq(Packet)]
  /\ read_payload \in Seq(Packet)
  /\ read_batch_payloads \in Seq(Packet)
  /\ arrivals \in Nat /\ last_taken \in Nat

\* Every variable has its type; the capacity in force is never zero, whatever
\* configuration the start was given (apply_capture_config).
TypeOK == ThreadTypes /\ ControlTypes /\ PacketTypes

\* The handles form a ladder: a stream is held only with its session, a session
\* only with the API handle, the API handle only with the DLL loaded - on every
\* path by which a start fails or a stop descends (start_direct_capture,
\* close_direct_capture).
LayeredHandles ==
  /\ "stream" \in held => "session" \in held
  /\ "session" \in held => "api" \in held
  /\ "api" \in held => "module" \in held

\* What a finished PktmonStartConfig says is so: after PKTMON_OK the capture is
\* started, holds every handle and packets flow; after an error it is not
\* started, every handle taken on the way was given back, and PktmonLastError
\* names the call that failed.
StartOutcome ==
  ControllerAt("idle") /\ op = "start" =>
    IF status = "PKTMON_OK"
    THEN started /\ held = Handles /\ flow = "on" /\ last_error = "none"
    ELSE ~started /\ held = {} /\ last_error \in StartCalls /\ FailureStatus(last_error) = status

\* Once PktmonStop has returned the capture is quiet: no packet is queued, no
\* callback runs, none can begin, no handle is held and no reader still sleeps
\* on the condition variable - although a callback may have passed the check of
\* stopping before the stop began, and a reader may have begun to wait.
StoppedIsQuiet ==
  ControllerAt("idle") /\ ~started =>
    queue = <<>> /\ AllIdle(Workers) /\ flow = "off" /\ held = {} /\ Waiters = {}

\* The queue never exceeds the capacity of the running capture and holds no
\* packet of an earlier one, across any sequence of starts and stops with
\* different capacities (enqueue_packet, stop_capture, apply_capture_config).
QueueIsCurrent ==
  /\ Len(queue) <= config.capacity
  /\ \A i \in 1 .. Len(queue) : queue[i].epoch = epoch

\* Packets are read in the order of their callbacks and none twice, with one
\* delivering thread: queued packets are younger than every packet read, and
\* ordered among themselves.
ReadInOrder ==
  \A i \in 1 .. Len(queue) :
    /\ last_taken < queue[i].id
    /\ \A j \in 1 .. i - 1 : queue[j].id < queue[i].id

\* No wakeup is lost: while a reader sleeps there are at least as many woken
\* readers on their way to the queue as there are packets in it, so a packet is
\* never queued with nobody coming for it (notify_one for every packet, and the
\* wait has no predicate).
Woken == {r \in Readers : pc[r] \in {"relock", "recheck"}}
NoLostWakeup == Waiters # {} => Len(queue) <= Cardinality(Woken)

\* A CaptureState is deleted only when PktMonApi can no longer reach it: the
\* stream it was registered with is closed, no callback holds its address, and
\* nobody holds its mutex (PktmonDestroy stops before it deletes).
FreedIsUnreachable ==
  ~allocated => held = {} /\ flow = "off" /\ AllIdle(Workers) /\ mutex = NoThread

\* The payload bytes a reader copies after the call are those of the packets
\* whose headers it was handed, also when the capture is stopped or restarted
\* in between - provided one thread reads (read_payload, read_batch_payloads).
PayloadIntact ==
  \A r \in Readers : pc[r] = "copy" =>
    /\ allocated
    /\ out[r] = IF api[r] = "PktmonRead" THEN read_payload ELSE read_batch_payloads

\* PktmonStop and PktmonDestroy end, although they wait for callbacks that wait
\* for the mutex and although readers hold it again and again.
StopCompletes == op \in {"stop", "destroy"} /\ ~ControllerAt("idle") ~> ControllerAt("idle")

\* Every PktmonRead and PktmonReadBatch returns.
ReadReturns == \A r \in Readers : pc[r] # "idle" ~> pc[r] = "idle"
=============================================================================
