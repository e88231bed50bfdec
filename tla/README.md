# Verification of pktmon-interface

TLA+ models of the packet capture of this repository, model-checked with TLC and
proved with TLAPS. The program is a C++ shim over `PktMonApi.dll`
(`native/src/pktmon_backend.cpp`), a ctypes wrapper (`backend.py`), and a
background sniffer (`capture.py`).

## The system

| Part | State | Operations | Interacts with |
|---|---|---|---|
| **Capture shim** `native/src/pktmon_backend.cpp` | per capture: mutex, condition variable, packet queue, two payload buffers, `stopping`, `started`, configuration, four PktMonApi handles, `last_error` | `PktmonCreate`, `PktmonStart`/`StartConfig`, `PktmonRead`, `PktmonReadBatch`, `PktmonStop`, `PktmonDestroy`, `PktmonLastError`; `direct_packet_callback` | called by `backend.py`; calls PktMonApi.dll, whose threads call it back |
| **Packet parser** `parse_ip_packet`, `parse_packet_bytes` | none | bytes to an optional TCP or UDP packet | run by the callback, outside the lock |
| **Filter parser** `configure_session_constraints` | none | filter text to session constraints | run by a start |
| **Export probe** `PktmonProbe`, `PktmonGetExportReport` | none | reads the exports of the DLL | `PktmonBackend.probe` |
| **PktmonBackend** `backend.py` | the native handle | `start`, `read`, `read_many`, `close`, `probe`, `last_error` | the shim's C ABI |
| **PktmonSniffer** `capture.py` | `_backend`, `_owns_backend`, `_thread`, `_stopping`, `_started`, `_error`, `_callback_error`, `_packets`, `_queue` | `start`, `stop`, `join`, `read`, `sniff`, iteration; the drain thread `_run` | the application, its `prn` callback, `PktmonBackend` |
| **CLI** `cli.py` | none | `probe`, `packets` | `PktmonBackend` |
| **Models, packaging** | none | data class, build | - |

Where it is hard:

* *Three kinds of threads meet on a capture*: the application's, the readers' and
  PktMonApi's. The callback checks `stopping` without the lock and enqueues
  later; a stop waits for callbacks that wait for the lock; a reader waits on a
  condition variable without a predicate, while packets are announced by
  `notify_one` and a stop by a `notify_all` outside the lock.
* *A start makes eight calls that can all fail*, each needing another amount of
  undoing.
* *A capture is restarted* with other capacities and policies; its queue and
  payload buffers outlive the restart.
* *Lifetimes*: PktMonApi holds the address of a state that `PktmonDestroy`
  deletes; a reader copies payload bytes from native buffers after the native call
  has given the lock back.
* *The sniffer's attributes are shared without a lock* between the application
  and the drain thread: `stop` takes the backend away and closes it, with or
  without having joined, and `start` clears the event that told the previous
  thread to end. The drain thread may also end by itself, by an exception that
  comes from anywhere, or stop the sniffer from within its own callback while the
  application does the same.
* *A packet passes two bounded queues* that drop at opposite ends, a batch that is
  cut, and a callback that may leave in the middle.
* *The two sides of the C ABI agree on structures by declaration only*, and the
  library may be of another version: records are decoded from an array whose stride
  each side computes for itself, options go through narrow fields.
* *Texts cross the ABI in two calls*, for the size and for the text, and what they
  tell may change in between.
* *Timeouts are split* over reads (`sniff`, iteration), and *Ctrl+C* may interrupt a
  command while it closes its capture.

What makes each part correct is said by the properties below; `PROJECT.json`
("hazards") lists every hazard at its line, with the properties that guard it.

## Modules

| Module | What it is |
|---|---|
| `NativeCapture` | the shim: one capture, its controller, readers and delivering threads |
| `CaptureContract` | what the shim promises, without threads: a bounded buffer that drops its oldest, opened and closed |
| `NativeRefinement` | the refinement mapping from `NativeCapture` to `CaptureContract` |
| `NativeCaptureProofs` | the inductive invariant of `NativeCapture` and what follows from it |
| `NativeRefinementProofs` | the proof that `NativeCapture` implements `CaptureContract` |
| `Sniffer` | `PktmonSniffer` with its drain threads, and the life of the native handles behind it |
| `CapturePipeline` | `Sniffer` and `CaptureContract` composed: a packet's way from its arrival to `read()` |
| `SnifferProofs` | the inductive invariant of `Sniffer` and what follows from it |
| `PipelineProofs` | that `CapturePipeline` is a `Sniffer`, loses packets only for a reason, and implements `PacketStream` |
| `PacketStream` | what the composition promises: a stream that may lose packets, and no more |
| `Sniff` | one `sniff()`, with its clock |
| `PacketsCommand` | the commands of the CLI, `close()` and `__del__`, with Ctrl+C |
| `Application` | `Sniff` and `PacketsCommand` side by side: a behaviour is about one of them |
| `ApplicationProofs` | an inductive invariant for each of the two |
| `CaptureFilter` | the filter parser, and the constraints it adds one by one |
| `CaptureFilterProofs` | what holds for every filter, among it that a documented one is understood |
| `PacketParser` | from a stream descriptor to the packet that is queued |
| `PacketFrames` | frames as a network carries them, as input of `PacketParser`, and the packets they should become |
| `PacketParserProofs` | that the parser is well defined on all bytes, and finds the packet of every frame |
| `StreamTime` | the time stamp of a packet, from metadata or from the clock |
| `AbiLayout` | the structures that cross the ABI, as a compiler and as ctypes lay them out |
| `PacketRecord` | `read_many()`: an array of records and its decoding, with libraries of several versions |
| `CaptureOptions` | the options of a capture, from the sniffer's arguments to the stream |
| `TextBuffer` | `copy_text` and the buffers it fills |
| `LastError` | how the message of a failed start is told |
| `ExportProbe` | the probe, the report and the start, as users of one library |
| `BackendCalls` | `PacketRecord`, `CaptureOptions`, `StreamTime`, `LastError` and `ExportProbe` side by side: a behaviour is about one of them, and the variables of the others are not in use |
| `BackendCallsProofs` | an inductive invariant for each of the five, and what the text of an address tells |
| `MC...` | finite instances, for TLC, of the module it names |

`Sniffer` and `CaptureContract` meet in `CapturePipeline`; `PacketRecord`,
`CaptureOptions` and `StreamTime` extend `AbiLayout`, and `LastError`,
`ExportProbe` and `PacketRecord` extend `TextBuffer`. The rest stand alone: they
share with `NativeCapture` only a step, which they show from within.

### NativeCapture

Every thread has a program counter `pc`. A critical section is two steps: the
mutex is acquired (`Lock`), then the section does its work and gives the mutex back
(`Unlock`), so anything that does not need the mutex can come between.

* *Controller.* `StartBegin` is `PktmonStartConfig` up to
  `start_direct_capture`; `StartCallSucceeds` and `StartCallFails` are its eight
  calls (load, resolve, initialize, create session, constraints, create stream,
  attach, activate), in the order of `CallOrder`. A failing call leads through
  `SetError` to `close_direct_capture` (`CloseStreamBegin`, `CloseStreamEnd`,
  `CloseHandle`, `CloseReturns`), except a failed load, which has nothing to close.
  `Publish` is the final section. `StopBegin`, the same closing steps, `StopClear`
  and `StopNotify` are `stop_capture`; `PktmonDestroy` adds `Delete`, and `Create`
  starts over.
* *Workers.* `Deliver` is PktMonApi calling `direct_packet_callback`;
  `CallbackCheck` its check of `stopping`; `CallbackParse` the one or two parse
  attempts of `enqueue_stream_data`; `EnqueueRefused` and `Enqueue` the section of
  `enqueue_packet`. A descriptor is the sequence of the outcomes its parse attempts
  would have, a packet its arrival number and the capture it belongs to.
* *Readers.* `ReadCall`, `ReadFirst` (the section before the wait), `ReadTimeout`
  (a timeout or a spurious wakeup), `ReadWoken` (the section after it) are
  `PktmonRead` and `PktmonReadBatch`; `Copy` is `_packet_from_native`, which copies
  the payloads after the call returned.

`epoch`, `arrivals` and `last_taken` are history variables.

Assumed of what is not in this repository: PktMonApi calls the callback only
between a successful `SetSessionActive(TRUE)` and the call of
`CloseRealtimeStream`, and `CloseRealtimeStream` returns when no callback is
running - which `close_direct_capture` relies on, since its caller may free the
callback's context at once. `std::mutex` excludes; `wait_for` ends. A create call
that fails may or may not have filled in its handle. Of the callers it is assumed
that one thread controls a capture and that nobody is in a read when it is
destroyed (`CallersQuiescent`). The second is what `PktmonSniffer.stop` sees to by joining
the drain thread before it closes the backend, and what `Sniffer` checks of it
(`NoUseAfterDestroy`); a `stop(join=False)`, or a join that takes longer than its two
seconds, does destroy the capture under a drain thread that may be in `PktmonReadBatch`,
and what the shim does then is outside this module.

### Sniffer

One application thread `App` that starts and stops, one, `Reader`, that reads or
iterates, and the drain threads that `start()` creates. A step is what runs between
two places where another thread may look: `start()` is split at the native start,
the assignment of `_backend`, the clearing of `_stopping` and the start of the
thread; `stop()` at the event, the join, the look at `_backend`, its
release and the three effects of `close()`; a turn of `_run` at the check of
`_stopping`, the look at `_backend`, the native call, and for each packet
`results`, the callback and the queue; iteration at its look at `running` and at
its reads. `native` is the life of each handle: created, capturing, stopped,
destroyed while the handle is still set, closed.

`JoinModes` says how a stop of `App` may join: `"wait"` (the thread ends within the
timeout), `"timeout"` (it does not), `"skip"` (`join=False`); `CallbackModes` says it
of a stop that the callback calls, where joining the current thread raises, and
what is raised ends in `callback_error`. `PrnOutcomes` says how else the callback
may end: return, raise an `Exception`, which is kept aside, or exit with an
exception that is none, which ends the thread. `owns` covers both a sniffer that
creates its backend and one that is given it.

`left` is a history variable: who called a `stop()` that need not wait for the drain
thread. The properties say with it how far they go. `NoUseAfterDestroy` is for
stops that wait, and for the first drain thread's callback stopping without
joining while the application does; `StopOutcome` and `NothingLeaks` need
`OneLeaves`: threads are left behind by the application or by the callbacks of the
first of them, but not by both. The condition is a real limit of the code, and proving
these properties is what showed it: when the application left a thread behind and
started again, a stop in that thread's callback may already have passed the join, and then
takes and releases the backend of the new start.

### CapturePipeline and PacketStream

`CapturePipeline` replaces what `Sniffer` leaves open of a native read: a turn of the
drain thread takes what the shim's queue (`buffer`) holds, and the steps of the two that
are one call - the native start, the stop, the destruction, `read_many` - are
taken together (`Contract` is an instance of `CaptureContract`, so `ImplementsContract`
joins what is checked here to the threads of the shim). `PacketStream` is a set of packets
in transit with a step for an arrival, one that delivers the earliest, and one that loses any
of them. `Stream` maps to it what is in the sniffer's queue, in the drain thread's hand and
in the native queue; that each of these keeps its order, and all of them together, is what
the refinement has to show.

### Sniff

One `sniff()` after its start, with a clock that goes on between any two steps:
`deadline`, `wait` and `until` are the times it computes. Where the code has `None`
or a time, the model has a set with no or one time in it. The drain thread is reduced to
what can be seen of it: packets in the queue, an error, an end. `ReturnsAsPromised` is
for the calls that return.

### PacketsCommand

What `probe` and `packets` do to their capture, with `KeyboardInterrupt` raised
between any two steps: `Create`, `Assign` and `Enter` are `PktmonBackend()` up to the body of the
`with` statement, `Probe` a look at the exports, which may raise, then come the start and the
loop, `close()` from the `with` statement, and `__del__`, which
calls `close()` once more if the handle is still set. An exception in `__del__` is
ignored, as CPython does. What they print and the status they exit with is left out.

`ClosedOnce` says that a capture that was created is destroyed when the process ends
(`DestroyedInTheEnd`), and once (`DestroyedOnce`). Each part names the moments at which Ctrl+C
breaks it: the object does not know its capture before `_handle` is assigned, `__del__` is not
called again when it is interrupted, and a handle that was destroyed and not yet forgotten is
destroyed again.

### CaptureFilter

A start turns its filter text into constraints: `Skip`, `OutOfRange` and `Choose`
are the two blocks of `configure_session_constraints`, first for TCP and then for
UDP; `AddSucceeds` and `AddFails` are the calls of
`PacketMonitorAddCaptureConstraint`. A text is a sequence of words, each with the
number of spaces in front of it, which may be none, since the code looks for its
markers anywhere: keywords, keywords in capitals, numbers, and `or` for any other
text. `Contains` and `PortAfter` are `contains_case_insensitive` and
`extract_port_after`; as in the code only the first occurrence of a marker counts,
its two words are one space apart, and any number of spaces may follow. Ports and
ints are scaled down, `AsInt` wraps as an int does.

`Meant` reads a filter clause by clause, without regard to how the code does it.
It is compared with what the session captures (`Captured`: constraints are
alternatives, and the ports of one are conditions on source and destination, as
the use of a constraint per direction implies) for the filters the README shows:
at most one clause per protocol, ports in range (`Documented`). Beyond that form
the code differs from such a reading: a second clause of a protocol is
ignored, `udp port 53 or tcp` constrains TCP to port 53, two spaces in
`udp  port 53` leave UDP without a port, and a text without
`tcp` or `udp`, the default `""` among them, leaves the session open to everything.

### PacketParser and PacketFrames

One descriptor, byte by byte. `AttemptSlice` and `AttemptWhole` are the calls of
`enqueue_packet`; a parse is a set of one packet or none. `Tier` lists the four
kinds of places where `parse_packet_bytes` looks, in its order: the beginning,
behind an Ethernet header, behind a SNAP header, and wherever a byte looks like
the beginning of an IP header. The `queue` here holds what this descriptor adds to the
queue of `NativeCapture`.

`PacketFrames` lays out a frame from its layers with an encoder of its own
(addresses, options, a zero IPv4 length as segmentation offload leaves it,
padding, truncation, bytes of the buffer before and behind it), and
`DeliversWhatWasSent` says what must come out of a TCP or UDP packet whose headers were
captured, `DeliversNothingElse` that otherwise nothing does - or, where bytes of the buffer follow a
frame that was cut or gives no length (`RunsOn`), at most the one packet that the frame and
those bytes make together (`RunOn`): `enqueue_stream_data` parses the whole buffer when the
slice has no packet. The first is for any payload; the second depends on payloads and
bytes behind that do not look like IP packets themselves, as the ones of the instance. `FramesAssumption` keeps to frames there can be: the length fits its field, IPv6
has no options. Left to the reader: fragments are
not told from whole packets, an ICMP error that quotes a packet would be found by
the scan, MAC addresses that begin with the nibble 4 or 6 can be taken for an IP
header, and an IPv6 jumbogram (length zero) is not delivered.

### StreamTime

One delivered packet whose metadata is where the descriptor says, fits the buffer or
lacks bytes, and has a time stamp or none; the clock goes on at every step. What is
left out is the parse in between, which uses the time but does not change it.

### AbiLayout, PacketRecord and CaptureOptions

`AbiLayout` lists the structures of `pktmon_backend.h` and `pktmon_api.h` with the
ctypes ones of `backend.py`, and computes offsets and sizes by the rule both
follow. `LayoutAssumption` holds the static assertions of the shim
(`AbiAsserted`) and that both declarations of a structure agree field by field
(`AbiAgrees`); TLC evaluates it.

`PacketRecord` is one `read_many()`: `Prepare` makes the array, `Check` and `Fill` are
`PktmonReadBatch` (or `PktmonRead`, again and again, with a library that has no batches),
and `Decode` reads the bytes back. The library's record may be this one, a grown or a
shrunk one: the shim then writes where its own layout says. `AddressText` is the
decimal and hexadecimal text of an address in its 64 bytes.

`CaptureOptions` follows the four options through four layers: the sniffer's
`max(1, ...)`, the clamps of the backend, the field that keeps the low bits, and
`apply_capture_config`, with a start that may fail, repeated starts of one backend
and libraries that cannot read the config.

### TextBuffer, LastError and ExportProbe

`TextBuffer` is `copy_text`: called without a buffer it tells how much room the text needs.
`LastError` interleaves the two calls of `last_error()` by several threads whose
starts fail with other messages, and a close, after which a start is refused.
`ExportProbe` interleaves the three calls of `probe()` - each loads the library, looks at its
exports and gives it back; `json.loads` then takes the report, or raises when it was
cut - with another thread's start and stop, while the file may be replaced by
another when nobody holds it. A library is the set of its exports; `references` is
its reference count in the process.

## Runs

| Run | Instance | Shows |
|---|---|---|
| `native_callbacks` | 1 reader, 2 workers, 3 configurations, 2 descriptors, 3 packets, 2 starts | `TypeOK`, `LayeredHandles`, `StartOutcome`, `QueueIsCurrent`, `FreedIsUnreachable`, `PayloadIntact`, `ImplementsContract` |
| `native_readers` | 2 readers, 1 worker, 2 packets, 1 start, capacity 2, batches of 2, fairness | `NoLostWakeup`, `StoppedIsQuiet`, `ReadInOrder`, `StopCompletes`, `ReadReturns` |
| `pipeline_stream` | 2 drain threads and captures, 5 packets, a native queue of 3, batches of 3 cut to 2, a queue of 1; joining stops, also by the callback | `TypeOK`, `DrainsAlone`, `NoSilentDeath`, `InOrder`, `ImplementsStream`, `LossHasReason` |
| `pipeline_liveness` | the same with 3 packets, both queues of 1, fairness | `PacketsMoveOn`, `StopEnds`, `IterationEnds` |
| `sniffer_unjoined` | 2 drain threads, 2 backends, 2 packets, batches of 2 cut to 1; the application joins, times out or does not join, the callback joins or not | `StopOutcome`, `NothingLeaks`, `NoUseAfterDestroy` |
| `sniffer_assertion` | 1 drain thread, `join=False` | a violation of `AssertionHolds` |
| `filter_meaning` | all filters of one or two clauses, all sequences of up to four words, of three words 0 to 2 spaces apart; ports up to 15, ints of 6 bits | `TypeOK`, `CapturesWhatIsMeant`, `OnlyNamedProtocols`, `RangeChecked` |
| `filter_overflow` | the same with a number of more than 6 bits | a violation of `RangeChecked` |
| `frames_delivered` | 4 link layers, both IP versions, with and without options, payload, padding, at 4 lengths of truncation, with 0, 5 and 30 bytes behind; a limit of 90 bytes | `DeliversWhatWasSent`, `DeliversNothingElse` |
| `frames_truncated` | frames truncated after their headers, with other bytes behind | a violation of `EmptyIsNotCounted` |
| `backend_calls` | `PacketRecord`: up to 3 packets, limits 1 and 2, 4 record layouts, with and without batches | `DecodesWhatWasQueued`, `StaysInArray` |
| | `CaptureOptions`: 9 arguments around the width of each field, scaled to 16 and 8 values, 3 libraries | `WorksAsMeant` |
| | `StreamTime`: buffers of 6 sizes, metadata at 6 places, a clock of 3 ticks | `TimeIsOfThePacket` |
| | `LastError`: 2 starting threads, 4 messages | `TellsItsFailure` |
| | `ExportProbe`: 1 prober and a capture, 12 libraries | `HeldByItsUsers`, `ProbeTells` |
| `application_calls` | `Sniff`: 5 timeouts, counts 0 to 2, a queue of 2, 4 packets, fairness | `ReturnsAsPromised`, `SniffEnds` |
| | `PacketsCommand`: both commands, Ctrl+C three times | `ClosedOnce` |

Why the bounds are enough.

* *The shim.* Two starts show a restart with another capacity; three arrivals fill
  a queue of two and overflow it, and one of one twice; two workers race each
  other between parse and enqueue, and both with the stop. A capacity of one, a
  zero capacity and a configuration of the wrong size are the three branches of
  `apply_capture_config`. The descriptors have one attempt that does not parse, and
  two of which the first is refused by the policy. Two readers can be asleep,
  woken and ahead of each other at once, which is where a notification could be
  lost.
* *The sniffer.* Two drain threads are what an unjoined stop needs to go wrong; batches of two end
  in the middle when a callback exits. In the pipeline five packets can be in all
  three places at once with one dropped on each side, and a batch of three is cut.
* *Filters and frames.* Four words hold every clause of the grammar with one word too many or too few
  around it, three with none, one and two spaces every distance the code tells
  apart, and six-bit ints have numbers on both sides of the port range and of the
  sign. The truncations cut the payload, the transport header, the IP header and
  everything, and a limit of 90 bytes plays the 262144 of the code for the longest
  frames. The bytes behind a frame are none, as few as complete a cut transport
  header, and enough for the rest of a cut IP header as well.
* *Calls across the ABI.* The layouts differ from this record in its padding,
  behind it and in its middle, and the addresses are the ones whose texts are
  nearest to each other (1.10.0.0 and 11.0.0.0) and longest. The arguments are
  below, at and above what a field holds, and twice that, where the low bits are
  zero. The sizes hold the whole of the metadata, all but its last byte, and none.
  The messages are of several lengths, one the beginning of another. The libraries lack
  every single export, all of them, or are not there.
* *Calls of the application.* Timeouts are none, negative, zero, shorter and as long
  as the clock's range, and the queue overflows while a `sniff()` runs. Three
  interrupts are one in the command, one in `close()` and one in `__del__`.

The proofs remove the bounds altogether for every invariant and refinement, but for
`DeliversNothingElse`; they stay for that one and for the liveness properties.

Deadlock is checked in the runs of the shim, the sniffer and the pipeline, which
never stop, since the application can always make another call. The filter, the
packet parser, a `read_many()`, a `sniff()` and a command return, and their runs may
stop.

Fairness. `FairSpec` of `NativeCapture` asks that a thread inside a call goes on
(weak fairness of `ControllerProceeds`, `WorkerProceeds`, `ReaderProceeds`),
that a timed wait ends (`ReadTimeout`), and that a mutex that keeps becoming
free is acquired (strong fairness of `Lock`: `std::mutex` does not promise it, a
preemptive scheduler in effect gives it). Nothing makes a caller call or a packet
arrive. `FairPipelineSpec` asks that the application's threads and the drain threads
are scheduled when they are inside a call; that a native read ends is
`ReadReturns`, and that the callback does is assumed. For `Sniff` the caller's
thread is scheduled and time goes on; no packet need come. A command has no
fairness: what it promises is safety.

### What the violations show

`sniffer_assertion`: `capture.py:85` asserts that the backend is there when the drain thread begins.
`start()` only creates the thread; a `stop(join=False)` right after it sets
`_backend` to `None` without waiting, and the thread that then begins fails its
assertion, outside the `try` that would keep the error.

`filter_overflow`: `extract_port_after` accumulates digits in an int without a
limit. "tcp port 4294967376" wraps to 80 and passes the check whose message is
"tcp port is outside the valid range". For numbers below 2^31 the check is
complete (`RangeIsChecked`).

`frames_truncated`: `enqueue_packet` returns false for bytes that do not parse and
for a packet the policy refuses, and `enqueue_stream_data` answers both with a
parse of the whole buffer. With `include_empty_payloads=False`, a packet
truncated after its headers is found again by that second parse, which takes the
buffer's next bytes for its payload, and is counted - the README's "payload-only
behavior" would not. Under either policy the same second parse completes a header that
was cut with the bytes behind it, so that a packet may come with ports and addresses
it never had; no document speaks of that, and `DeliversNothingElse` says how far it goes.

### What holds, and a reader may not expect

* A `stop()` that finds an error of the drain thread raises in `join` and leaves
  the backend open and the sniffer started: another `stop()` raises again, and
  `start()` does nothing. `StopOutcome` states it, and `NothingLeaks` that the
  capture is at least still known.
* A start of a started capture reports success and ignores its arguments
  (`StartAgain`). So a backend that was given to a sniffer keeps capturing after
  `stop()`, with the options of its first start.
* `PayloadIntact` needs a single reader. `DrainsAlone` says that a sniffer whose stops join
  is one; with `join=False`, from outside or in a callback, followed by a start, there are two
  drain threads. If in addition the old one's callback stops without joining, it can
  take away the backend of the new start, which then nobody closes before it is
  collected: `OneLeaves`.
* `read()` and `sniff()` without a timeout wait for ever when the drain thread has ended.
  A `sniff()` that raises loses the packets it had taken, and `sniff(timeout=0)` returns none, even
  if some are waiting.
* An iteration ends without a word when the drain thread has, with or without an
  error, and leaves what is in the queue.
* A capacity of 2^32 or more becomes a smaller one. A library without
  `PktmonStartConfig` ignores every option, `include_empty_payloads=False` among them.
  `struct_size` does not show a field that was put into padding.
* Packets whose metadata has a time stamp carry an earlier time than those without: times may go
  backwards in the order of packets.
* Ctrl+C between `PktmonDestroy` and `_handle = None` makes `__del__` use the
  destroyed capture; one between `PktmonCreate` and the assignment of its handle, or a
  further one in `__del__`, leaves it undestroyed, and in the last case perhaps running:
  `ClosedOnce` names these moments.
* A `probe()` during which the library is replaced by one that lacks more raises, since
  its JSON is cut.
* Beyond the documented filters and frames: see `CaptureFilter` and `PacketParser`.

## Proofs

A run shows a property on one small instance; the theorems below show it for every value
of the constants that satisfies the assumptions named in the modules. TLC evaluates
those assumptions on each instance.

| Theorem | States | Beyond the module's own assumptions |
|---|---|---|
| `NativeCaptureProofs` | | |
| `TypeCorrect` | `Spec => []TypeOK` | |
| `HandlesAreLayered` | `Spec => []LayeredHandles` | |
| `StartIsAllOrNothing` | `Spec => []StartOutcome` | |
| `StopIsQuiet` | `Spec => []StoppedIsQuiet` | |
| `QueueStaysCurrent` | `Spec => []QueueIsCurrent` | |
| `WakeupsSuffice` | `Spec => []NoLostWakeup` | |
| `DestroyIsSafe` | `Spec => []FreedIsUnreachable` | |
| `PayloadsAreIntact` | `Spec => []PayloadIntact` | `Readers = {reader}` |
| `ReadsAreInOrder` | `Spec => []ReadInOrder` | `Workers = {worker}` |
| `NativeRefinementProofs` | | |
| `Refinement` | `Spec => ImplementsContract` | |
| `SnifferProofs` | | |
| `TypeCorrect` | `Spec => []TypeOK` | |
| `HandlesAreUsable` | `Spec => []NoUseAfterDestroy` | |
| `NoCaptureLeaks` | `Spec => []NothingLeaks` | |
| `StopLeavesNothing` | `Spec => []StopOutcome` | |
| `OneDrainThread` | `Spec => []DrainsAlone` | `Joining` |
| `DeathsAreTold` | `Spec => []NoSilentDeath` | `Joining` |
| `PacketsStayInOrder` | `Spec => []InOrder` | `Joining` |
| `PipelineProofs` | | |
| `PipelineIsSniffer` | `PipelineSpec => Spec` | |
| `PipelineIsSafe` | the four invariants of `pipeline_stream` | |
| `LossesHaveReasons` | `PipelineSpec => LossHasReason` | |
| `PipelineIsAStream` | `PipelineSpec => ImplementsStream` | |
| `CaptureFilterProofs` | | |
| `TypeCorrect` | `Spec => []TypeOK` | |
| `NamesAreConstrained` | `Spec => []OnlyNamedProtocols` | |
| `RangeIsChecked` | `Spec => []RangeChecked` | `NumbersFit` |
| `FiltersAreUnderstood` | `Spec => []CapturesWhatIsMeant` | |
| `PacketParserProofs` | | |
| `TypeCorrect` | `Spec => []TypeOK` | |
| `FramesAreDelivered` | `FrameSpec => []DeliversWhatWasSent` | |
| `BackendCallsProofs` | | |
| `ArraysAreLargeEnough` | `Spec => []StaysInArray` | |
| `PacketsAreDecoded` | `Spec => []DecodesWhatWasQueued` | |
| `CapturesWorkAsMeant` | `Spec => []WorksAsMeant` | |
| `TimesAreOfThePacket` | `Spec => []TimeIsOfThePacket` | |
| `FailuresAreTold` | `Spec => []TellsItsFailure` | |
| `LibraryIsHeldByItsUsers` | `Spec => []HeldByItsUsers` | |
| `ProbesTellTheTruth` | `Spec => []ProbeTells` | |
| `ApplicationProofs` | | |
| `SniffReturnsAsPromised` | `Spec => []ReturnsAsPromised` | |
| `ClosedInTheEnd` | `Spec => []ClosedOnce` | |

`Joining` says that every `stop()` waits for its drain thread (`JoinModes` and
`CallbackModes` within `{"wait"}`), as `stop()` does by default; `NumbersFit` that the
numbers of a filter fit an int, without which `filter_overflow` shows the opposite. Two
readers or two workers do break `PayloadIntact` and `ReadInOrder`; the sniffer has one
reader, which is what `DrainsAlone` is for.

### The shim

The theorems of the shim all rest on one inductive invariant, `IInv`. None of the properties is inductive
by itself: that the state is quiet after a stop depends on no callback running
once the stream is closed, that on when packets flow, that on which handles are held at
which point of the call in progress. `IInv` is the conjunction of `TypeOK` and

* `AttemptInHand`: a worker about to enqueue still has the attempt that parsed;
* `MutexInv`: the mutex is held by exactly the thread inside a section;
* `CallInv`, `ReportInv`: what `op`, `started`, `allocated`, `status` and `last_error` are at each
  point of each controller call;
* `HeldInv`: which handles are held there;
* `FlowInv`: callbacks run only while the stream is open, and packets flow only
  between activation and closing;
* `QuietInv`: from the clear on, the queue stays empty and the sleepers can
  only become fewer;
* `QueueIsCurrent`, `ReaderInv` (a reader in a call has a capture to read from),
  and `NoLostWakeup`.

There is one lemma per part that says each step keeps it (`...Kept`), with a case
per action; `OthersFrame` and `ControllerFrame` collect what the steps of one kind
of thread leave alone, and `PushProperties` and `TakeProperties` what the queue
operators do. `NoLostWakeup` is the delicate one: an enqueue moves one
sleeper to the woken, so the cardinalities of both change together, and a
take of several packets by a reader that was never asleep only helps. The
refinement adds that packets in flight have numbers no buffered or settled
packet has (`FlightInv`); each step is then shown to be a step of the contract or
a stutter (`StepSimulation`).

`PayloadsAreIntact` and `ReadsAreInOrder` follow from small invariants of their own on
top of `IInv`. For the first: between the take and the copy of the only reader nobody
writes the buffers; a stop does not touch them, and a destruction waits for the
reader. For the second (`ArrivalOrder`): the only worker's packet is the last that
arrived, so that everything queued or read arrived before it.

### The sniffer and the pipeline

The invariant of `Sniffer` has a part that always holds (`GeneralInv`: types, a thread that
handles a packet has one, what the application's call in progress knows, drain threads are
born in order, whose the backend is) and parts that hold as long as `left` says that
threads which were not waited for cannot interfere:

* `AloneInv`, `JoinedInv`: a running drain thread is the last one and has a backend; past
  its join the application is alone;
* `DeathInv`: a thread that ended without being told to left an error;
* `ClosedInv`, `UsedInv`: a handle between `PktmonStop` and `None` is in the hands of exactly the
  thread that closes it, and no thread uses a closed one;
* `ReleaseInv`, `HeldInv`: what a stop is about to release is still what the sniffer has,
  and an open backend is the sniffer's, or a start prepares it, or a stop closes it;
* `OrderInv`: `taken`, the queue, the drain thread's batch and the results are ordered
  one after the other, and all of it below `captured`.

That two stops meet, the application's and the callback's, is what makes `ClosedInv` and
`HeldInv` hard: each stop reads `_backend`, releases it and clears it in separate steps,
and `OneReleases` shows that one at most is past its join.

A pipeline's step is a step of `Sniffer` (`PipelineIsSniffer`), so the invariant carries
over. `BufferInv` adds that the native queue is ordered and above everything handed
out. A packet that leaves the transit is then followed through each action
(`LossesHaveReasons`), and the refinement of `PacketStream` needs, in addition, that the first of the
queue is the least of everything in transit, which is `OrderInv`.

### The filter and the parser

The filter's invariant says that what is pending belongs to the protocol at hand,
that every constraint in the session is for a named protocol, and that a named
protocol that is done with has one (`ProtocolsInv`); `RangeInv` adds that its port
passed the check, and `PassedMeansInRange` that the port checked is the one the
first clause gives. For `FiltersAreUnderstood`, `SessionInv` says exactly what the session
holds at each point, and `PortOfClause` that in a documented filter the
search finds the port of the only clause, or none (`MarkersFound`, `FirstMarker`).

An index outside a buffer has no value in TLA+, so the parser's `TypeCorrect`, which is for
all descriptors, of any bytes, any length, offset and limit, is where every read is shown to be in bounds: a
header that `Ip4` or `Ip6` finds ends inside the buffer (`IsHeader`), and a
transport header that `CarriesTransport` accepts ends inside the packet.

`FramesAreDelivered` follows the bytes of a frame through the parser. `Lies(bytes, at, a)` says that
the bytes `a` are found in others from `at` on; what lies in a part lies in the
whole (`LiesWithin`), so each header field has its place in its header
(`Header4`, `Header6`, `TransportHeader`, `LinkHeader`) and each header its place in the frame
(`FrameLayout`). The slice of the buffer is a beginning of the frame
(`SliceOfFrame`), and with its headers whole the same layers lie in it
(`CapturedLayout`); where the payload ends is a matter of the length field, the padding and the
cut (`Ends`). `FrameParses` says that the packet is found at its place, and `NoRawPacket`,
`EthernetFound` and `SnapFound` that no earlier place parses. The invariant, `FrameInv`, is
then short: a frame that is to be delivered is either still at its first attempt or
done with it. It needs no assumption on the payload, since the search never gets
to it.

### The calls of the backend and of the application

Each of these has an inductive invariant of its own.

* `RecordInv`: the array has a record's size for each record, and its first number is that
  size, so a library with a larger record stops at the first one.
* `DecodeInv`: what was decoded and what is still waiting make up what was offered; before a
  decoding each record filled so far holds the fields of its packet (`FilledInv`), each of
  which reads back (`RecordRead`): the fields lie apart (`PacketFieldsLieApart`), a later
  record leaves the earlier ones alone (`WrittenStays`), and a text ends at its NUL
  (`TextRead`). With `AddressTexts` and `AddressesApart` different addresses, of either version of IP,
  have different texts that fit their field.
* `OptionInv`: a started capture has what the start that succeeded made of its options;
  the rest is arithmetic of the clamps and of the low bits.
* `TimeInv`, `ErrorInv`: what a thread has found so far is right; for a text, `CopiedText`
  says that `copy_text` into a buffer of the size that was asked for loses nothing.
* `ExportInv`: the reference count is the number of users (`UsersCounted`), a library in use
  is the one that is there, and what a prober has been told is about the library its
  call looked at.
* `SniffInv`: the deadline is a timeout after the beginning, no wait ends after it,
  and every packet that left the queue is collected, in order.
* `CommandInv`: where the capture is, and whether the handle is set, at each step of a
  command and of a close, called by the `with` statement (`WithInv`) or by `__del__`
  after a Ctrl+C (`DelInv`).

They assume of the layouts only what TLC computes from `AbiLayout`: `struct_size` comes first
in a record, the fields lie apart and within it, an address has at least 40 bytes, a library with records of
the same size has the fields at the same places, the metadata has a positive size, both sides
declare one config, and a config of another version has another size (`RecordAssumption`,
`OptionsAssumption`, `TimeAssumption`). The provers cannot evaluate the recursive `Offsets`.
That equal sizes mean equal places is what the code itself relies on: `struct_size` is all it
compares.

### What is only model-checked

* The liveness properties (`StopCompletes`, `ReadReturns`, `PacketsMoveOn`, `StopEnds`, `IterationEnds`,
  `SniffEnds`): fairness and `ENABLED` are out of the prover's reach.
* `DeliversNothingElse`: it is about the payloads, and the bytes behind a frame, of the instance. The
  search goes through the bytes of a frame of another protocol or with a cut header, and
  through all of the buffer if the slice had nothing, and any of them may hold a whole IP
  packet.

## Not modelled

* In the shim: two controllers of one capture, and reads that overlap a destruction; the
  code does not protect them. In the repository only a sniffer's stop that does not
  wait for its drain thread, or a callback that stops, can come to that, which `Sniffer` follows up to
  the use of the handle. Several application threads that start and stop one sniffer.
* What PktMonApi.dll does with a second session of one name (the name depends on
  the process only): creating a session may fail, no more.
* Null or wrongly sized arguments of the C ABI, which return at once (a start with the
  handle of a closed backend is in `LastError`);
  `direct_event_callback` and `PktmonVersion`, which do nothing.
* Of the filter: separators other than spaces, and words that contain a
  protocol's name.
* Of the sniffer: a thread that cannot be started, and what `prn` does besides
  stopping the sniffer.
* Of the CLI: the parsing of arguments, the lines it prints and its exit status.
* Where `PktmonBackend` looks for its DLL: that is one step that may fail.
* The data class of a packet and the build, which have no behaviour at run time.

## Plan

The model covers every operation of the program that changes state, and every invariant that
does not depend on the instance is proved. What could still be added is a condition on
payloads and bytes behind a frame under which `DeliversNothingElse` holds for all frames: that,
wherever the search may look, in the slice and in the whole buffer, no bytes other than the
frame's own IP header, continued by what lies behind it, begin a header with a protocol and
lengths that fit.
