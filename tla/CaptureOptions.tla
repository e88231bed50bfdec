---------------------------- MODULE CaptureOptions ----------------------------
(***************************************************************************)
(* The four options of a capture, from the arguments of PktmonSniffer to   *)
(* the options that the shim and its stream work with: clamped by the      *)
(* sniffer, clamped and narrowed to the fields of CaptureConfig by the     *)
(* backend, checked and applied by the shim.  Several sniffers may be      *)
(* given one backend, and a start may fail.                                *)
(*                                                                         *)
(* A field of 32 bits holds Words values and one of 16 bits HalfWords.     *)
(***************************************************************************)
EXTENDS AbiLayout

CONSTANTS
  Words, HalfWords,
  Arguments,   \* what the integer arguments may be
  Defaults,    \* kDefaultQueueCapacity, kDefaultBufferSizeMultiplier, ...
  Layouts      \* PktmonCaptureConfig in the library; <<>> when it has no
               \* PktmonStartConfig

Options(numbers) ==
  [queue_capacity : numbers, buffer_size_multiplier : numbers, truncation_size : numbers,
   include_empty_payloads : BOOLEAN]

\* The two sides of the C ABI agree; and versions of the library that differ in
\* their config differ in its size, which is all that tells them apart.
OptionsAssumption ==
  /\ HalfWords \in Nat \ {0, 1} /\ Words \in Nat /\ HalfWords <= Words
  /\ Arguments \subseteq Int
  /\ Defaults \in Options(Nat)
  /\ Defaults.queue_capacity \in 1 .. Words - 1
  /\ Defaults.buffer_size_multiplier \in 1 .. HalfWords - 1
  /\ Defaults.truncation_size \in 1 .. HalfWords - 1
  /\ Defaults.include_empty_payloads
  /\ AbiAgrees
  /\ \A other \in Layouts \ {PktmonCaptureConfig, <<>>} : SizeOf(other) # SizeOf(CaptureConfig)

VARIABLES
  layout,    \* the library
  options,   \* the options in CaptureState
  started,
  stream,    \* what the realtime stream was created with
  meant      \* history: the arguments of the sniffer whose start succeeded

vars == <<layout, options, started, stream, meant>>

-----------------------------------------------------------------------------
AtLeastOne(n) == Max({n, 1})

\* PktmonSniffer.__init__
SnifferOptions(arguments) ==
  [arguments EXCEPT !.queue_capacity = AtLeastOne(@),
                    !.buffer_size_multiplier = AtLeastOne(@),
                    !.truncation_size = AtLeastOne(@)]

\* PktmonBackend.start: ctypes keeps the low bits of what is assigned to a field.
Config(o) ==
  [o EXCEPT !.queue_capacity = AtLeastOne(@) % Words,
            !.buffer_size_multiplier = Min({AtLeastOne(@), HalfWords - 1}) % HalfWords,
            !.truncation_size = Min({AtLeastOne(@), HalfWords - 1}) % HalfWords]

\* apply_capture_config: a config of another size is as good as none, and a
\* zero asks for the default.
ApplyConfig(size, config) ==
  LET orDefault(name) == IF config[name] > 0 THEN config[name] ELSE Defaults[name]
  IN IF size # SizeOf(layout) THEN Defaults
     ELSE [config EXCEPT !.queue_capacity = orDefault("queue_capacity"),
                         !.buffer_size_multiplier = orDefault("buffer_size_multiplier"),
                         !.truncation_size = orDefault("truncation_size")]

\* PktmonStart, for a library without PktmonStartConfig, makes its own config.
StartDefaults == Defaults

\* The options of a start.
Applied(arguments) ==
  IF layout = <<>> THEN StartDefaults
  ELSE ApplyConfig(SizeOf(CaptureConfig), Config(SnifferOptions(arguments)))

-----------------------------------------------------------------------------
Init ==
  /\ layout \in Layouts
  /\ options = Defaults /\ started = FALSE
  /\ stream = <<>> /\ meant = <<>>

\* Mutant: the options are applied before started is looked at.
StartAgain_Applies(arguments) ==
  /\ started
  /\ options' = Applied(arguments)
  /\ UNCHANGED <<layout, started, stream, meant>>

\* A start of a capture that runs returns PKTMON_OK.
StartAgain(arguments) == started /\ UNCHANGED vars

StartSucceeds(arguments) ==
  /\ ~started /\ started' = TRUE
  /\ options' = Applied(arguments)
  /\ stream' = <<options'.buffer_size_multiplier, options'.truncation_size>>
  /\ meant' = arguments
  /\ UNCHANGED layout

\* Some call on the way to an active session fails; what was opened is closed.
StartFails(arguments) ==
  /\ ~started
  /\ options' = Applied(arguments)
  /\ UNCHANGED <<layout, started, stream, meant>>

\* The backend's close(): the next one has a new CaptureState.
Close ==
  /\ options' = Defaults /\ started' = FALSE
  /\ stream' = <<>> /\ meant' = <<>>
  /\ UNCHANGED layout

Next ==
  \/ \E arguments \in Options(Arguments) :
       StartAgain(arguments) \/ StartSucceeds(arguments) \/ StartFails(arguments)
  \/ Close

Spec == Init /\ [][Next]_vars

-----------------------------------------------------------------------------
(* Properties *)

Within(n, low, high) == Max({low, Min({n, high})})

\* A capture works with what its sniffer was given, for as long as it runs and
\* whoever starts it again with other options: the 16-bit options as near as
\* their fields allow, and the capacity exactly when it fits, and otherwise as
\* something smaller that is not zero.  A library that cannot read the config
\* has every option at its default, never some of each.
WorksAsMeant ==
  started =>
    /\ stream = <<options.buffer_size_multiplier, options.truncation_size>>
    /\ layout # PktmonCaptureConfig => options = Defaults
    /\ layout = PktmonCaptureConfig =>
         /\ options.include_empty_payloads = meant.include_empty_payloads
         /\ stream = <<Within(meant.buffer_size_multiplier, 1, HalfWords - 1),
                       Within(meant.truncation_size, 1, HalfWords - 1)>>
         /\ IF meant.queue_capacity < Words
            THEN options.queue_capacity = AtLeastOne(meant.queue_capacity)
            ELSE options.queue_capacity \in 1 .. meant.queue_capacity - 1
=============================================================================
