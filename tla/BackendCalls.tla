---------------------------- MODULE BackendCalls ----------------------------
(***************************************************************************)
(* The calls that carry something across a library boundary: read_many()   *)
(* (PacketRecord), start() with its options (CaptureOptions) and with its  *)
(* error text (LastError), probe() (ExportProbe) and the delivery of a     *)
(* packet's time (StreamTime).  They share no state, so a behaviour is     *)
(* about one of them, and the variables of the others are not in use.      *)
(***************************************************************************)
EXTENDS AbiLayout

CONSTANTS
  Queues, Limits, RecordLayouts,                         \* of PacketRecord
  Words, HalfWords, Arguments, Defaults, ConfigLayouts,  \* of CaptureOptions
  Sizes, Places, MaxTime,                                \* of StreamTime
  Starters, Messages, InvalidHandle,                     \* of LastError
  Probers, Images                                        \* of ExportProbe

VARIABLES
  call,    \* the module this behaviour is about
  pc, layout, size,
  offered, limit, batched, queue, memory, payloads, decoded, touched,
  options, started, stream, meant,
  descriptor, written, sent, clock, timestamp, packet, lastRead,
  last_error, handle, buffer, mine, shown, intact,
  image, references, module, info, report, capture, start, seen

recordVars == <<offered, limit, batched, queue, memory, payloads, decoded, touched>>
optionVars == <<options, started, stream, meant>>
timeVars   == <<descriptor, written, sent, clock, timestamp, packet, lastRead>>
errorVars  == <<last_error, handle, buffer, mine, shown, intact>>
exportVars == <<image, references, module, info, report, capture, start, seen>>

Records == INSTANCE PacketRecord WITH Layouts <- RecordLayouts
Starts  == INSTANCE CaptureOptions WITH Layouts <- ConfigLayouts
Times   == INSTANCE StreamTime
Errors  == INSTANCE LastError
Exports == INSTANCE ExportProbe

ASSUME CallAssumption ==
  /\ Records!RecordAssumption /\ Starts!OptionsAssumption /\ Times!TimeAssumption
  /\ Errors!LastErrorAssumption /\ Exports!ExportAssumption

NoRecord ==
  /\ offered = <<>> /\ limit = 0 /\ batched = FALSE /\ queue = <<>> /\ memory = <<>>
  /\ payloads = <<>> /\ decoded = <<>> /\ touched = 0
NoOption == options = <<>> /\ started = FALSE /\ stream = <<>> /\ meant = <<>>
NoTime ==
  /\ descriptor = <<>> /\ written = 0 /\ sent = 0 /\ clock = 0 /\ timestamp = 0
  /\ packet = 0 /\ lastRead = -1
NoError ==
  /\ last_error = <<>> /\ handle = "none" /\ buffer = <<>> /\ mine = <<>>
  /\ shown = <<>> /\ intact = <<>>
NoExport ==
  /\ image = {} /\ references = 0 /\ module = <<>> /\ info = <<>> /\ report = <<>>
  /\ capture = "stopped" /\ start = <<>> /\ seen = <<>>

Init ==
  \/ /\ call = "record" /\ Records!Init /\ size = 0
     /\ NoOption /\ NoTime /\ NoError /\ NoExport
  \/ /\ call = "options" /\ Starts!Init /\ pc = "" /\ size = 0
     /\ NoRecord /\ NoTime /\ NoError /\ NoExport
  \/ /\ call = "time" /\ Times!Init /\ layout = <<>> /\ size = 0
     /\ NoRecord /\ NoOption /\ NoError /\ NoExport
  \/ /\ call = "error" /\ Errors!Init /\ layout = <<>>
     /\ NoRecord /\ NoOption /\ NoTime /\ NoExport
  \/ /\ call = "exports" /\ Exports!Init /\ layout = <<>>
     /\ NoRecord /\ NoOption /\ NoTime /\ NoError

Next ==
  \/ /\ call = "record" /\ Records!Next
     /\ UNCHANGED <<call, size, optionVars, timeVars, errorVars, exportVars>>
  \/ /\ call = "options" /\ Starts!Next
     /\ UNCHANGED <<call, pc, size, recordVars, timeVars, errorVars, exportVars>>
  \/ /\ call = "time" /\ Times!Next
     /\ UNCHANGED <<call, layout, size, recordVars, optionVars, errorVars, exportVars>>
  \/ /\ call = "error" /\ Errors!Next
     /\ UNCHANGED <<call, layout, recordVars, optionVars, timeVars, exportVars>>
  \/ /\ call = "exports" /\ Exports!Next
     /\ UNCHANGED <<call, layout, recordVars, optionVars, timeVars, errorVars>>

vars == <<call, pc, layout, size, recordVars, optionVars, timeVars, errorVars, exportVars>>

Spec == Init /\ [][Next]_vars

-----------------------------------------------------------------------------
(* The properties of the five, each where it applies *)

\* PacketRecord: Python gets the packets that were waiting, field by field.
DecodesWhatWasQueued == call = "record" => Records!DecodesWhatWasQueued

\* PacketRecord: the shim stays inside Python's array.
StaysInArray == call = "record" => Records!StaysInArray

\* CaptureOptions: a capture works with what its sniffer was given.
WorksAsMeant == call = "options" => Starts!WorksAsMeant

\* StreamTime: a packet's time is when it was seen, or while it was delivered.
TimeIsOfThePacket == call = "time" => Times!TimeIsOfThePacket

\* LastError: a failed start tells its own failure, if nobody changed the text.
TellsItsFailure == call = "error" => Errors!TellsItsFailure

\* ExportProbe: the library is held by exactly those who use it.
HeldByItsUsers == call = "exports" => Exports!HeldByItsUsers

\* ExportProbe: what a probe says is what a start finds, and its report is whole;
\* it raises only when the library was replaced.
ProbeTells == call = "exports" => Exports!ProbeTells
=============================================================================
