------------------------------ MODULE Sniffer ------------------------------
(***************************************************************************)
(* PktmonSniffer (src/pktmon_interface/capture.py): an application thread  *)
(* that starts and stops, one that reads or iterates, and the drain        *)
(* threads that start() creates, which move packets from the native        *)
(* capture to prn, to results and to a bounded queue.  They share the      *)
(* sniffer's attributes without a lock; a step is what runs between two    *)
(* places where the interpreter may switch threads and another may look.   *)
(*                                                                         *)
(* A PktmonBackend (backend.py) is seen here as the life of its native     *)
(* handle, which NativeCapture models from within.  sniff() is start()     *)
(* followed by read()s.                                                    *)
(***************************************************************************)
EXTENDS Integers, Sequences

CONSTANTS
  App, Reader,    \* the application threads: one starts and stops, one reads
  JoinModes,      \* how App's stop() may join: "wait" until the drain thread
                  \* has ended, "timeout" before that, "skip" with join=False
  CallbackModes,  \* how a stop() that the callback calls may join
  PrnOutcomes,    \* how the callback may end: "returns", "raises" an Exception,
                  \* "exits" with an exception that is none
  Store,          \* store
  QueueSize,      \* queue_size
  DrainBatch,     \* drain_batch_size
  CallbackBatch,  \* callback_batch_size
  MaxThreads,     \* bound: drain threads started in a behaviour
  MaxBackends,    \* bound: backends created in a behaviour
  MaxPackets      \* bound: packets captured in a behaviour

Drains   == 1 .. MaxThreads
Stoppers == {App} \cup Drains
Threads  == {App, Reader} \cup Drains
Backends == 1 .. MaxBackends
None     == 0

ASSUME SnifferAssumption ==
  /\ App \notin Drains \cup {None} /\ Reader \notin Stoppers
  /\ JoinModes \subseteq {"wait", "timeout", "skip"}
  /\ CallbackModes \subseteq {"wait", "timeout", "skip"}
  /\ PrnOutcomes \subseteq {"returns", "raises", "exits"}
  /\ Store \in BOOLEAN
  /\ QueueSize \in Nat \ {0} /\ DrainBatch \in Nat \ {0} /\ CallbackBatch \in Nat
  /\ MaxThreads \in Nat /\ MaxBackends \in Nat \ {0} /\ MaxPackets \in Nat

VARIABLES
  pc,             \* where each thread is
  my,             \* per thread: the backend its current call has got hold of
  batch,          \* per drain thread: what is left of the list read_many returned
  native,         \* per backend: its native handle
  backend,        \* _backend
  owns,           \* _owns_backend
  stopping,       \* _stopping
  started,        \* _started
  error,          \* _error is not None
  callback_error, \* _callback_error is not None
  thread,         \* _thread
  packets,        \* _packets
  queue,          \* _queue
  result,         \* history: App's last call and how it ended
  captured,       \* history: the last packet handed out by a native capture
  taken,          \* history: the last packet read() returned
  left            \* history: who may have left a running drain thread behind: the
                  \* application once it called a stop() that need not wait, a
                  \* callback once a stop() of its own got past the join

handleVars == <<native, backend, owns>>
flagVars   == <<stopping, started, error, callback_error, thread>>
packetVars == <<batch, packets, queue, captured, taken>>
dataVars   == <<packetVars, left>>
vars == <<pc, my, handleVars, flagVars, dataVars, result>>

\* The states of a handle: not created, created, capturing, stopped by close(),
\* destroyed with the handle still set, and set to None.
HandleStates == {"none", "created", "capturing", "stopped", "destroyed", "closed"}

StopLabels ==
  {"stop_wait", "stop_timeout", "stop_take", "stop_release",
   "close_stop", "close_destroy", "close_forget"}
AppLabels ==
  {"idle", "start_native", "start_assign", "start_clear", "start_run"} \cup StopLabels
IterLabels   == {"iter_check", "iter_read", "iter_wait"}
ReaderLabels == {"idle", "blocked", "timed"} \cup IterLabels
DrainLabels ==
  {"unborn", "begin", "check", "fetch", "enter", "reading", "store", "prn", "put", "done"}
    \cup StopLabels

Init ==
  /\ pc = [t \in Threads |-> IF t \in Drains THEN "unborn" ELSE "idle"]
  /\ my = [t \in Stoppers |-> None]
  /\ batch = [d \in Drains |-> <<>>]
  /\ owns \in BOOLEAN
  /\ backend = IF owns THEN None ELSE 1
  /\ native = [b \in Backends |-> IF b = backend THEN "created" ELSE "none"]
  /\ stopping = FALSE /\ started = FALSE /\ error = FALSE /\ callback_error = FALSE
  /\ thread = None
  /\ packets = <<>> /\ queue = <<>>
  /\ result = [call |-> "init", raised |-> FALSE]
  /\ captured = 0 /\ taken = 0 /\ left = {}

At(t, label) == pc[t] = label
AppAt(label) == At(App, label)
Ascending(s) == \A i, j \in 1 .. Len(s) : i < j => s[i] < s[j]
Goes(t, label) == pc' = [pc EXCEPT ![t] = label]
Alive(d) == pc[d] \notin {"unborn", "done"}

\* A call of App ends; a stop() that the callback called ends, and what it
\* raises is an Exception the drain thread keeps.
Ends(t, call, raised) ==
  IF t = App
  THEN /\ Goes(App, "idle")
       /\ result' = [call |-> call, raised |-> raised]
       /\ UNCHANGED callback_error
  ELSE /\ Goes(t, "put")
       /\ callback_error' = (callback_error \/ raised)
       /\ UNCHANGED result

\* There is no drain thread to wait for.
ThreadEnded == \A d \in Drains : d = thread => ~Alive(d)

-----------------------------------------------------------------------------
(* start() *)

\* A start() that does nothing, or whose PktmonBackend() raises.
StartLeavesAll ==
  /\ AppAt("idle")
  /\ started \/ backend = None
  /\ Ends(App, "start", ~started)
  /\ UNCHANGED <<my, handleVars, stopping, started, error, thread, dataVars>>

StartBegin ==
  /\ AppAt("idle") /\ ~started
  /\ thread < MaxThreads
  /\ Goes(App, "start_native")
  /\ \/ /\ backend # None
        /\ my' = [my EXCEPT ![App] = backend]
        /\ UNCHANGED native
     \/ /\ backend = None
        /\ \E b \in Backends :
             /\ native[b] = "none" /\ \A c \in 1 .. b - 1 : native[c] # "none"
             /\ my' = [my EXCEPT ![App] = b]
             /\ native' = [native EXCEPT ![b] = "created"]
  /\ UNCHANGED <<backend, owns, flagVars, dataVars, result>>

\* PktmonStartConfig; a capture that is already started is left alone.
StartNativeSucceeds ==
  /\ AppAt("start_native")
  /\ native' = [native EXCEPT ![my[App]] = "capturing"]
  /\ Goes(App, "start_assign")
  /\ UNCHANGED <<my, backend, owns, flagVars, dataVars, result>>

\* Mutant: a new backend whose start fails is not closed.
StartNativeFails_Leaks ==
  /\ AppAt("start_native") /\ native[my[App]] = "created"
  /\ Ends(App, "start", TRUE)
  /\ UNCHANGED <<my, handleVars, stopping, started, error, thread, dataVars>>

\* backend.start() raises; a backend that only start() knows is closed when it
\* is collected (__del__).
StartNativeFails ==
  /\ AppAt("start_native") /\ native[my[App]] = "created"
  /\ native' = IF my[App] = backend THEN native ELSE [native EXCEPT ![my[App]] = "closed"]
  /\ Ends(App, "start", TRUE)
  /\ UNCHANGED <<my, backend, owns, stopping, started, error, thread, dataVars>>

StartAssign ==
  /\ AppAt("start_assign")
  /\ backend' = my[App]
  /\ error' = FALSE /\ callback_error' = FALSE
  /\ Goes(App, "start_clear")
  /\ UNCHANGED <<my, native, owns, stopping, started, thread, dataVars, result>>

StartClear ==
  /\ AppAt("start_clear")
  /\ stopping' = FALSE
  /\ Goes(App, "start_run")
  /\ UNCHANGED <<my, handleVars, started, error, callback_error, thread, dataVars, result>>

\* The new thread exists when start() returns; it need not have run yet.
StartRun ==
  /\ AppAt("start_run")
  /\ started' = TRUE
  /\ thread' = thread + 1
  /\ pc' = [pc EXCEPT ![App] = "idle", ![thread + 1] = "begin"]
  /\ result' = [call |-> "start", raised |-> FALSE]
  /\ UNCHANGED <<my, handleVars, stopping, error, callback_error, dataVars>>

-----------------------------------------------------------------------------
(* stop(), called by the application or by the callback *)

Stop(t, how) ==
  /\ \/ t = App /\ AppAt("idle") /\ how \in JoinModes
     \/ t # App /\ At(t, "prn") /\ how \in CallbackModes
  /\ stopping' = TRUE
  /\ left' = IF how = "wait" \/ (how = "timeout" /\ t # App) THEN left ELSE left \cup {t}
  /\ Goes(t, CASE how = "wait" -> "stop_wait" [] how = "timeout" -> "stop_timeout"
                [] how = "skip" -> "stop_take")
  /\ UNCHANGED <<my, handleVars, started, error, callback_error, thread, packetVars, result>>

\* join() has waited, or not: an error of the drain thread raises, and ends
\* stop() here with everything else left undone.
PassesJoin(t) ==
  /\ IF error \/ t = thread
     THEN Ends(t, "stop", TRUE) /\ UNCHANGED left
     ELSE /\ Goes(t, "stop_take")
          /\ left' = left \cup ({t} \ {App})
          /\ UNCHANGED <<callback_error, result>>
  /\ UNCHANGED <<my, handleVars, stopping, started, error, thread, packetVars>>

\* Mutant: the thread is not waited for.
StopJoin_NoWait(t) ==
  /\ At(t, "stop_wait") \/ At(t, "stop_timeout")
  /\ PassesJoin(t)

\* join(): the thread has ended or the wait has; joining the current thread
\* raises at once.
StopJoin(t) ==
  /\ At(t, "stop_wait") \/ At(t, "stop_timeout")
  /\ (At(t, "stop_wait") /\ thread # t) => ThreadEnded
  /\ PassesJoin(t)

StopTake(t) ==
  /\ At(t, "stop_take")
  /\ my' = [my EXCEPT ![t] = backend]
  /\ Goes(t, "stop_release")
  /\ UNCHANGED <<handleVars, flagVars, dataVars, result>>

\* Mutant: the sniffer stays started.
StopRelease_StaysStarted(t) ==
  /\ At(t, "stop_release")
  /\ backend' = IF owns THEN None ELSE backend
  /\ IF my[t] # None /\ owns THEN Goes(t, "close_stop") /\ UNCHANGED <<callback_error, result>>
     ELSE Ends(t, "stop", FALSE)
  /\ UNCHANGED <<my, native, owns, stopping, started, error, thread, dataVars>>

StopRelease(t) ==
  /\ At(t, "stop_release")
  /\ backend' = IF owns THEN None ELSE backend
  /\ started' = FALSE
  /\ IF my[t] # None /\ owns THEN Goes(t, "close_stop") /\ UNCHANGED <<callback_error, result>>
     ELSE Ends(t, "stop", FALSE)
  /\ UNCHANGED <<my, native, owns, stopping, error, thread, dataVars>>

\* PktmonBackend.close(): PktmonStop, PktmonDestroy, and the handle is None; a
\* handle that is None already is left alone.
Close(t) ==
  /\ \/ /\ At(t, "close_stop") /\ native[my[t]] = "closed"
        /\ Ends(t, "stop", FALSE)
        /\ UNCHANGED native
     \/ /\ At(t, "close_stop") /\ native[my[t]] # "closed"
        /\ native' = [native EXCEPT ![my[t]] = "stopped"]
        /\ Goes(t, "close_destroy") /\ UNCHANGED <<callback_error, result>>
     \/ /\ At(t, "close_destroy")
        /\ native' = [native EXCEPT ![my[t]] = "destroyed"]
        /\ Goes(t, "close_forget") /\ UNCHANGED <<callback_error, result>>
     \/ /\ At(t, "close_forget")
        /\ native' = [native EXCEPT ![my[t]] = "closed"]
        /\ Ends(t, "stop", FALSE)
  /\ UNCHANGED <<my, backend, owns, stopping, started, error, thread, dataVars>>

-----------------------------------------------------------------------------
(* read() and iteration *)

ReaderMoves(from, to) ==
  /\ At(Reader, from) /\ Goes(Reader, to)
  /\ UNCHANGED <<my, handleVars, flagVars, dataVars, result>>

\* running
Running == started /\ ~ThreadEnded

\* read() without a timeout or with one; it raises, and leaves all as it is,
\* when there is an error.
ReadCall == ~error /\ (ReaderMoves("idle", "blocked") \/ ReaderMoves("idle", "timed"))

\* An iteration of a started sniffer; its own start() does nothing.
IterBegin == started /\ ReaderMoves("idle", "iter_check")
IterCheck == ReaderMoves("iter_check", IF Running THEN "iter_read" ELSE "idle")

\* Mutant: the iteration reads without a timeout.
IterRead_Blocks == ReaderMoves("iter_read", IF error THEN "idle" ELSE "blocked")

\* The read() of an iteration has a timeout.
IterRead  == ReaderMoves("iter_read", IF error THEN "idle" ELSE "iter_wait")

\* queue.get() finds a packet, or waits in vain.
ReadTakes ==
  /\ pc[Reader] \in {"blocked", "timed", "iter_wait"}
  /\ queue # <<>>
  /\ taken' = Head(queue)
  /\ queue' = Tail(queue)
  /\ Goes(Reader, IF At(Reader, "iter_wait") THEN "iter_check" ELSE "idle")
  /\ UNCHANGED <<my, handleVars, flagVars, batch, packets, captured, left, result>>

ReadTimesOut ==
  /\ queue = <<>>
  /\ ReaderMoves("timed", "idle") \/ ReaderMoves("iter_wait", "iter_check")

-----------------------------------------------------------------------------
(* _run() *)

DrainMoves(d, from, to) ==
  /\ At(d, from) /\ Goes(d, to)
  /\ UNCHANGED <<my, handleVars, flagVars, dataVars, result>>

\* The assertion is outside the try: nobody hears of its failure.
Begin(d) == DrainMoves(d, "begin", IF backend = None THEN "done" ELSE "check")

\* Mutant: the loop runs for ever.
Check_Forever(d) == DrainMoves(d, "check", "fetch")

Check(d) == DrainMoves(d, "check", IF stopping THEN "done" ELSE "fetch")

\* Mutant: the thread ends without a trace.
Fails_Silently(d) ==
  /\ Goes(d, "done")
  /\ UNCHANGED <<my, handleVars, flagVars, dataVars, result>>

\* An exception ends the loop and is kept for read() and join().
Fails(d) ==
  /\ error' = TRUE
  /\ Goes(d, "done")
  /\ UNCHANGED <<my, handleVars, stopping, started, callback_error, thread, dataVars, result>>

Fetch(d) ==
  /\ At(d, "fetch")
  /\ \/ backend = None /\ Fails(d)
     \/ /\ backend # None
        /\ my' = [my EXCEPT ![d] = backend]
        /\ Goes(d, "enter")
        /\ UNCHANGED <<handleVars, flagVars, dataVars, result>>

\* read_many() hands the handle to the native library, which refuses None.
Enter(d) ==
  /\ At(d, "enter")
  /\ IF native[my[d]] = "closed" THEN Fails(d) ELSE DrainMoves(d, "enter", "reading")

\* PKTMON_E_TIMEOUT or PKTMON_E_NOT_STARTED; a read in a capture that was
\* destroyed may just as well fail.
ReadNothing(d) ==
  \/ DrainMoves(d, "reading", "check")
  \/ At(d, "reading") /\ native[my[d]] \in {"destroyed", "closed"} /\ Fails(d)

\* Mutant: a list that is too long loses its newest packets.
Newest_Oldest(list) ==
  IF CallbackBatch > 0 /\ Len(list) > CallbackBatch THEN SubSeq(list, 1, CallbackBatch) ELSE list

\* A list longer than callback_batch_size loses its oldest packets.
Newest(list) ==
  IF CallbackBatch > 0 /\ Len(list) > CallbackBatch
  THEN SubSeq(list, Len(list) - CallbackBatch + 1, Len(list))
  ELSE list

\* read_many() returns a list.
ReadPackets(d, list) ==
  /\ At(d, "reading") /\ native[my[d]] = "capturing"
  /\ captured' = list[Len(list)]
  /\ batch' = [batch EXCEPT ![d] = Newest(list)]
  /\ Goes(d, "store")
  /\ UNCHANGED <<my, handleVars, flagVars, packets, queue, taken, left, result>>

StorePacket(d) ==
  /\ At(d, "store")
  /\ packets' = IF Store THEN Append(packets, Head(batch[d])) ELSE packets
  /\ Goes(d, "prn")
  /\ UNCHANGED <<my, handleVars, flagVars, batch, queue, captured, taken, left, result>>

\* Mutant: a packet whose callback did not return is handled again.
PrnEnds_Again(d) ==
  /\ At(d, "prn")
  /\ "returns" \in PrnOutcomes
  /\ \E label \in {"put", "store"} : Goes(d, label)
  /\ UNCHANGED <<my, handleVars, flagVars, dataVars, result>>

\* prn returns, raises what is kept aside, or exits, which ends the loop.
PrnEnds(d) ==
  \/ "returns" \in PrnOutcomes /\ DrainMoves(d, "prn", "put")
  \/ /\ "raises" \in PrnOutcomes /\ At(d, "prn")
     /\ Ends(d, "prn", TRUE)
     /\ UNCHANGED <<my, handleVars, stopping, started, error, thread, dataVars>>
  \/ "exits" \in PrnOutcomes /\ At(d, "prn") /\ Fails(d)

\* Mutant: the queue has no limit.
Put_Unbounded(d) ==
  /\ At(d, "put")
  /\ queue' = Append(queue, Head(batch[d]))
  /\ batch' = [batch EXCEPT ![d] = Tail(@)]
  /\ Goes(d, IF Len(batch[d]) = 1 THEN "check" ELSE "store")
  /\ UNCHANGED <<my, handleVars, flagVars, packets, captured, taken, left, result>>

\* put_nowait: a full queue drops the packet.
Put(d) ==
  /\ At(d, "put")
  /\ queue' = IF Len(queue) < QueueSize THEN Append(queue, Head(batch[d])) ELSE queue
  /\ batch' = [batch EXCEPT ![d] = Tail(@)]
  /\ Goes(d, IF Len(batch[d]) = 1 THEN "check" ELSE "store")
  /\ UNCHANGED <<my, handleVars, flagVars, packets, captured, taken, left, result>>

-----------------------------------------------------------------------------
(* The specification *)

AppCalls == StartLeavesAll \/ StartBegin \/ \E how \in JoinModes : Stop(App, how)

StopProceeds(t) == StopJoin(t) \/ StopTake(t) \/ StopRelease(t) \/ Close(t)

AppProceeds ==
  \/ StartNativeSucceeds \/ StartNativeFails \/ StartAssign \/ StartClear \/ StartRun
  \/ StopProceeds(App)

ReaderCalls == ReadCall \/ IterBegin

ReaderProceeds == IterCheck \/ IterRead \/ ReadTakes \/ ReadTimesOut

DrainHandles(d) ==
  \/ Begin(d) \/ Check(d) \/ Fetch(d) \/ Enter(d)
  \/ StorePacket(d) \/ PrnEnds(d) \/ Put(d)
  \/ StopProceeds(d) \/ \E how \in CallbackModes : Stop(d, how)

\* A capture hands out packets it captured next, the ones its queue dropped
\* left out.
DrainReads(d) ==
  \/ ReadNothing(d)
  \/ \E n \in 1 .. DrainBatch :
       \E list \in [1 .. n -> captured + 1 .. MaxPackets] :
         Ascending(list) /\ ReadPackets(d, list)

DrainProceeds(d) == DrainHandles(d) \/ DrainReads(d)

Next ==
  \/ AppCalls \/ AppProceeds \/ ReaderCalls \/ ReaderProceeds
  \/ \E d \in Drains : DrainProceeds(d)

Spec == Init /\ [][Next]_vars

\* The interpreter schedules every thread, and a timed wait ends; a native read
\* ends (ReadReturns of NativeCapture), and so does prn.  Nothing makes the
\* application call.
Fairness ==
  WF_vars(AppProceeds) /\ WF_vars(ReaderProceeds) /\ \A d \in Drains : WF_vars(DrainProceeds(d))

FairSpec == Spec /\ Fairness

-----------------------------------------------------------------------------
(* Properties *)

\* The thread has taken the backend out of the sniffer and is closing it.
Closing(t, b) ==
  my[t] = b /\ pc[t] \in {"stop_release", "close_stop", "close_destroy", "close_forget"}

\* Every variable has its type, and the queue its limit.
TypeOK ==
  /\ pc \in [Threads -> AppLabels \cup ReaderLabels \cup DrainLabels]
  /\ pc[App] \in AppLabels /\ pc[Reader] \in ReaderLabels
  /\ \A d \in Drains : pc[d] \in DrainLabels
  /\ my \in [Stoppers -> Backends \cup {None}]
  /\ batch \in [Drains -> Seq(1 .. MaxPackets)]
  /\ \A d \in Drains : Len(batch[d]) <= DrainBatch
  /\ native \in [Backends -> HandleStates]
  /\ backend \in Backends \cup {None} /\ owns \in BOOLEAN
  /\ stopping \in BOOLEAN /\ started \in BOOLEAN
  /\ error \in BOOLEAN /\ callback_error \in BOOLEAN
  /\ thread \in Drains \cup {None}
  /\ packets \in Seq(1 .. MaxPackets)
  /\ queue \in Seq(1 .. MaxPackets) /\ Len(queue) <= QueueSize
  /\ captured \in 0 .. MaxPackets /\ taken \in 0 .. MaxPackets /\ left \subseteq Stoppers

\* However often the sniffer is stopped and started again, one drain thread
\* runs: the native payload buffers serve a single reader, and stop() joins
\* before it lets start() clear _stopping.
DrainsAlone == \A d, e \in Drains : Alive(d) /\ Alive(e) => d = e

\* No thread is inside the native library with a handle that has been
\* destroyed: no drain thread that reads, since stop() joins before it closes,
\* and none of two that close at once, one of them the callback.  Also when the
\* callback of the first drain thread stops without joining; not when the
\* application does.
NoUseAfterDestroy ==
  left = {} \/ (App \notin left /\ thread <= 1) =>
    /\ \A d \in Drains : At(d, "reading") => native[my[d]] \notin {"destroyed", "closed"}
    /\ \A t \in Stoppers :
         /\ At(t, "close_stop") => native[my[t]] # "destroyed"
         /\ At(t, "close_destroy") => native[my[t]] = "stopped"

\* Drain threads are left behind by the application, or by callbacks of the first
\* one, but not by both: a stop() of a callback that got past the join may
\* otherwise release the backend of a later start.
OneLeaves == left \subseteq {App} \/ (App \notin left /\ thread <= 1)

\* A stop() that returns leaves a sniffer that can be started again and, if the
\* backend is its own, no native capture behind that nobody is closing; one
\* that raises does so because of an error the drain thread left.
StopOutcome ==
  OneLeaves /\ AppAt("idle") /\ result.call = "stop" =>
    IF result.raised THEN error
    ELSE /\ ~started /\ stopping
         /\ owns => /\ backend = None
                    /\ \A b \in Backends :
                         native[b] \in {"none", "closed"} \/ \E d \in Drains : Closing(d, b)

\* Between calls the sniffer knows every backend that is not closed, or a
\* callback is closing it, whatever failed: a native capture session is never
\* left running with nobody to stop it (start(), stop(), __del__).
NothingLeaks ==
  OneLeaves /\ AppAt("idle") =>
    \A b \in Backends :
      native[b] \notin {"none", "closed"} => b = backend \/ \E d \in Drains : Closing(d, b)

\* A drain thread that ended without being told to left an error, which read()
\* and join() raise; start() does not wipe it.
NoSilentDeath ==
  AppAt("idle") /\ thread # None /\ ThreadEnded => stopping \/ error

\* Results and queue hold packets in the order they were captured, none twice,
\* across restarts; read() never returns an older one after a younger.
InOrder ==
  /\ Ascending(packets)
  /\ Ascending(queue)
  /\ \A i \in 1 .. Len(queue) : taken < queue[i]

\* stop() ends: the drain thread it waits for does, also when the callback
\* called stop() itself.
StopEnds == pc[App] \in StopLabels ~> AppAt("idle")

\* An iteration ends once the drain thread has, whether it was stopped or
\* failed, and whatever is left in the queue: its reads do not wait for ever.
IterationEnds ==
  pc[Reader] \in IterLabels /\ ~Running ~> At(Reader, "idle") \/ Running

\* What capture.py asserts of a drain thread's first step.
AssertionHolds == \A d \in Drains : At(d, "begin") => backend # None
=============================================================================
