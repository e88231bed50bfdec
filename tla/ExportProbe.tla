----------------------------- MODULE ExportProbe -----------------------------
(***************************************************************************)
(* The exports of PktMonApi.dll as the shim looks at them: PktmonProbe and *)
(* PktmonGetExportReport, called by PktmonBackend.probe(), and the start   *)
(* and stop of a capture (native/src/pktmon_backend.cpp).  They share the  *)
(* reference count of the library in this process; the file may be         *)
(* replaced by another while nobody holds it.                              *)
(***************************************************************************)
EXTENDS TextBuffer, FiniteSets

\* kPktmonExports, in its order.
kPktmonExports ==
  << "AddCaptureConstraint", "AttachOutputToSession", "CloseRealtimeStream",
     "CloseSessionHandle", "CreateLiveSession", "CreateRealtimeStream",
     "Initialize", "SetSessionActive", "Uninitialize" >>

\* What resolve_direct_api asks for, in its order.
DirectApi ==
  << "Initialize", "Uninitialize", "CreateLiveSession", "CloseSessionHandle",
     "CreateRealtimeStream", "CloseRealtimeStream", "AttachOutputToSession",
     "SetSessionActive", "AddCaptureConstraint" >>

\* No library, and none looked at.
Absent == {"absent"}
None   == {"none"}

CONSTANTS
  Probers,   \* the threads that call probe()
  Images     \* the libraries that may be installed: sets of exports, or Absent

ExportAssumption ==
  /\ IsFiniteSet(Probers)
  /\ Images \subseteq SUBSET STRING /\ None \notin Images

VARIABLES
  image,        \* the library that is installed
  references,   \* how often it is loaded, by this code
  pc,           \* per prober: what it does next
  module,       \* per prober: the library its call has loaded, or Absent
  info,         \* per prober: what PktmonProbe filled in
  size,         \* per prober: the size of the report
  report,       \* per prober: the text of the report it was given
  capture,      \* "stopped", "resolving" or "running"
  start,        \* how the last start ended
  seen          \* history, per prober: the library each of its calls looked at

proberVars  == <<pc, module, info, size, report, seen>>
captureVars == <<capture, start>>
vars == <<image, references, proberVars, captureVars>>

Calls == {"probe", "size", "text"}
NotYet == [status |-> "none"]

Init ==
  /\ image \in Images
  /\ references = 0
  /\ pc = [p \in Probers |-> "probe"]
  /\ module = [p \in Probers |-> None]
  /\ info = [p \in Probers |-> NotYet]
  /\ size = [p \in Probers |-> 0]
  /\ report = [p \in Probers |-> <<>>]
  /\ capture = "stopped" /\ start = NotYet
  /\ seen = [p \in Probers |-> [c \in Calls |-> None]]

\* LoadLibraryW and GetProcAddress
Loaded(img)        == img # Absent
Exported(img, name) == Loaded(img) /\ name \in img

-----------------------------------------------------------------------------
(* Probing *)

\* Mutant: the last of the names is not looked up.
Missing_AllButLast(img) ==
  {i \in 1 .. Len(kPktmonExports) - 1 : ~Exported(img, kPktmonExports[i])}

\* probe_exports: the exports that are missing.
Missing(img) == {i \in 1 .. Len(kPktmonExports) : ~Exported(img, kPktmonExports[i])}

Status(img) ==
  CASE ~Loaded(img)                        -> "load_dll"
    [] Loaded(img) /\ Missing(img) # {}    -> "missing_export"
    [] Loaded(img) /\ Missing(img) = {}    -> "ok"

Info(img) ==
  [status |-> Status(img), export_count |-> Len(kPktmonExports),
   missing_count |-> Cardinality(Missing(img)), capture_ready |-> Status(img) = "ok"]

\* JSON: "false" is one character longer than "true".
Word(flag) == IF flag THEN <<"t">> ELSE <<"f", "f">>

\* export_report: dll_loaded, capture_ready, and whether each export is there.
Report(img) ==
  LET export(i) == Word(Exported(img, kPktmonExports[i])) IN
    Word(Loaded(img)) \o Word(Status(img) = "ok")
      \o export(1) \o export(2) \o export(3) \o export(4) \o export(5)
      \o export(6) \o export(7) \o export(8) \o export(9) \o <<"end">>

\* A call loads the library.
Load(p) ==
  /\ pc[p] \in Calls /\ module[p] = None
  /\ module' = [module EXCEPT ![p] = image]
  /\ references' = references + IF Loaded(image) THEN 1 ELSE 0
  /\ seen' = [seen EXCEPT ![p][pc[p]] = image]
  /\ UNCHANGED <<image, pc, info, size, report, captureVars>>

\* Mutant: a library that lacks exports is not given back.
Free_WhenReady(img) == references' = references - IF Status(img) = "ok" THEN 1 ELSE 0

Free(img) == references' = references - IF Loaded(img) THEN 1 ELSE 0

\* Each call ends after it has given the library back: PktmonProbe, the report
\* for its size, and the report for its text.
Ends(p, call, next) ==
  /\ pc[p] = call /\ module[p] # None
  /\ pc' = [pc EXCEPT ![p] = next]
  /\ module' = [module EXCEPT ![p] = None]
  /\ Free(module[p])
  /\ UNCHANGED <<image, captureVars, seen>>

Probes(p) ==
  /\ Ends(p, "probe", "size")
  /\ info' = [info EXCEPT ![p] = Info(module[p])]
  /\ UNCHANGED <<size, report>>

AsksSize(p) ==
  /\ Ends(p, "size", "text")
  /\ size' = [size EXCEPT ![p] = Needed(Report(module[p]))]
  /\ UNCHANGED <<info, report>>

\* json.loads: an object that lacks its end does not parse, and raises.
Decodes(text) == text # <<>> /\ text[Len(text)] = "end"

AsksText(p) ==
  LET text == Value(CopyText(Report(module[p]), Cleared(size[p]))) IN
    /\ Ends(p, "text", IF Decodes(text) THEN "done" ELSE "raised")
    /\ report' = [report EXCEPT ![p] = text]
    /\ UNCHANGED <<info, size>>

-----------------------------------------------------------------------------
(* Starting and stopping a capture, as far as the library is concerned *)

StartLoads ==
  /\ capture = "stopped"
  /\ IF Loaded(image)
     THEN /\ capture' = "resolving" /\ references' = references + 1
          /\ UNCHANGED start
     ELSE /\ start' = [status |-> "load_dll", image |-> image]
          /\ UNCHANGED <<capture, references>>
  /\ UNCHANGED <<image, proberVars>>

\* resolve_direct_api stops at the first export that is missing, and the start
\* gives the library back.
StartResolves ==
  /\ capture = "resolving"
  /\ LET lacking == {i \in 1 .. Len(DirectApi) : ~Exported(image, DirectApi[i])} IN
       IF lacking = {}
       THEN /\ capture' = "running"
            /\ start' = [status |-> "ok", image |-> image]
            /\ UNCHANGED references
       ELSE /\ capture' = "stopped"
            /\ start' = [status |-> "missing_export", image |-> image,
                         name |-> DirectApi[Min(lacking)]]
            /\ references' = references - 1
  /\ UNCHANGED <<image, proberVars>>

\* close_direct_capture
Stops ==
  /\ capture = "running"
  /\ capture' = "stopped"
  /\ references' = references - 1
  /\ UNCHANGED <<image, start, proberVars>>

\* Somebody installs another library, or removes it, while none is loaded.
Replaced ==
  /\ references = 0
  /\ image' \in Images
  /\ UNCHANGED <<references, proberVars, captureVars>>

Next ==
  \/ StartLoads \/ StartResolves \/ Stops \/ Replaced
  \/ \E p \in Probers : Load(p) \/ Probes(p) \/ AsksSize(p) \/ AsksText(p)

Spec == Init /\ [][Next]_vars

-----------------------------------------------------------------------------
(* Properties *)

\* However probes and captures overlap, each loads and gives back the library
\* as often: it is never unloaded under a call or a running capture, and never
\* stays loaded for nobody.
HeldByItsUsers ==
  references = (IF capture = "stopped" THEN 0 ELSE 1)
             + Cardinality({p \in Probers : module[p] # None /\ Loaded(module[p])})

\* A probe foretells a start with the same library: it is ready exactly when
\* the start resolves everything, a failed start fails with the probe's status,
\* and it names an export the probe missed.
ForetellsStart ==
  \A p \in Probers :
    info[p] # NotYet /\ start # NotYet /\ seen[p]["probe"] = start.image =>
      /\ info[p].status = start.status
      /\ info[p].capture_ready <=> start.status = "ok"
      /\ start.status = "missing_export" =>
           \E i \in Missing(start.image) : kPktmonExports[i] = start.name

\* A probe() that returns has the whole report of the library of its last call,
\* and never a piece of one; it raises only if the library was replaced, between
\* the calls for the report, by one that lacks more.
ReportIsWhole ==
  \A p \in Probers :
    /\ pc[p] = "done" => report[p] = Report(seen[p]["text"])
    /\ pc[p] = "raised" => Len(Report(seen[p]["size"])) < Len(Report(seen[p]["text"]))

\* What probe() tells is true: of the starts to come, and in its report.
ProbeTells == ForetellsStart /\ ReportIsWhole
=============================================================================
