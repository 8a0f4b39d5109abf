----------------------------- MODULE FstEvents ------------------------------
(***************************************************************************)
(* MIDI events and parameters in the FST plugin (src/src/plugin/fst/       *)
(* plugin.cpp).  The host gives the events of a block, then asks for the   *)
(* block.  Each message is dispatched twice: to the plugin, which marks    *)
(* the controllers it has seen, and to Proxy, which acts on it.  The host  *)
(* may also have turned helper parameters, which stand for controllers:    *)
(* they act unless the controller's own message came in the same block.    *)
(* Proxy's out events go back to the host through a buffer of fixed size.  *)
(*                                                                         *)
(* Proxy's own work is in the modules Proxy and ProxyRules: here a call of *)
(* it leaves any number of out events, up to MaxOutEvents.  The events are *)
(* numbered in the order in which Proxy made them.                         *)
(***************************************************************************)
EXTENDS MidiDispatcher, FiniteSets, SequencesExt

CONSTANTS
  Buffers,        \* the four bytes of the messages that the host has
  Parameters,     \* the indices of parameters that the host sets
  MaxMessages,    \* bound: messages in a block
  MaxOutEvents,   \* bound: out events that one call of Proxy leaves
  BufferSize,     \* OUT_EVENTS_BUFFER_SIZE
  QueueCapacity,  \* bound: of each queue between the threads
  MinSamples,     \* min_samples_before_next_cc_ui_update
  BlockSizes,     \* sample counts of blocks
  HostHabits      \* "events_twice": gives events more than once before a block,
                  \* "drops_events": may suspend or resume instead of asking for the block

MAX_MIDI_CC == 119
PITCH_WHEEL == 120
CHANNEL_PRESSURE_ID == 121

(***************************************************************************)
(* The array of parameters: helpers by controller, then Proxy's own up to  *)
(* the toggle of sustain pedal handling, "Settings Changed", and the rest. *)
(***************************************************************************)
Z1SUS == 89
PARAM_ID_COUNT == 99
PATCH_CHANGED_PARAMETER_INDEX == Z1SUS
NUMBER_OF_PARAMETERS == MAX_MIDI_CC + 1 + 1 + 1 + PARAM_ID_COUNT + 1

IsHelper(index) == index <= CHANNEL_PRESSURE_ID
SettingsChanged == CHANNEL_PRESSURE_ID + 1 + Z1SUS
IsExported(index) == ~IsHelper(index) /\ index # SettingsChanged

ASSUME BuffersAssumption == \A buffer \in Buffers : buffer \in [1..4 -> Byte]
ASSUME ParametersAssumption == Parameters \subseteq 0..(NUMBER_OF_PARAMETERS - 1)
ASSUME BoundsAssumption ==
  /\ MaxMessages \in Nat /\ MaxOutEvents \in Nat /\ BufferSize \in Nat \ {0}
  /\ QueueCapacity \in Nat /\ MinSamples \in Nat \ {0}
  /\ BlockSizes \subseteq Nat \ {0}
ASSUME HabitsAssumption == HostHabits \subseteq {"events_twice", "drops_events"}

VARIABLES
  running_status,            \* of the plugin and of Proxy
  midi_cc_received,          \* the marked controllers
  received_midi_cc_cleared,
  had_midi_cc_event,
  remaining,                 \* remaining_samples_before_next_cc_ui_update
  block,                     \* the audio thread's place in a block, and the messages left
  out_events,                \* Proxy's out events, a sequence of numbers
  made,                      \* history: how many Proxy has made since it reset or a block ended
  is_dirty,                  \* Proxy's
  is_suspended,
  to_audio_messages, to_gui_messages,
  need_host_update,
  acted,                     \* what made controllers act in this block
  ignored,                   \* helpers that were ignored in this block
  sent,                      \* the events that the host got for the last block
  is_display_stale           \* a controller moved since the host updated its display

midi_vars == <<running_status, midi_cc_received, received_midi_cc_cleared>>
update_vars == <<had_midi_cc_event, remaining>>
out_vars == <<out_events, made>>
seen_vars == <<acted, ignored, sent>>
vars == <<midi_vars, update_vars, block, out_vars, is_dirty, is_suspended, to_audio_messages,
          to_gui_messages, need_host_update, seen_vars, is_display_stale>>

NoStatus == [plugin |-> NO_STATUS, proxy |-> NO_STATUS]

Init ==
  /\ running_status = NoStatus
  /\ midi_cc_received = {} /\ received_midi_cc_cleared = TRUE
  /\ had_midi_cc_event = FALSE
  /\ remaining = 0
  /\ block = [pc |-> "idle", left |-> 0]
  /\ out_events = <<>> /\ made = 0
  /\ is_dirty = FALSE
  /\ is_suspended = FALSE
  /\ to_audio_messages = <<>> /\ to_gui_messages = <<>>
  /\ need_host_update = FALSE
  /\ acted = {} /\ ignored = {} /\ sent = <<>>
  /\ is_display_stale = FALSE

Pushed(queue, message) ==
  IF Len(queue) < QueueCapacity THEN Append(queue, message) ELSE queue

Numbered(count) == [i \in 1..count |-> i]

\* a call of Proxy that makes so many out events
PushOutEvents(count) ==
  /\ out_events' = out_events \o [i \in 1..count |-> made + i]
  /\ made' = made + count

(***************************************************************************)
(* Proxy's begin_processing, with these out events: a change of the zone   *)
(* drops them and makes its own; those of a reset are kept.                *)
(***************************************************************************)
ChangeZone ==
  \E count \in 0..MaxOutEvents : out_events' = Numbered(count) /\ made' = count

\* mutant of BeginProcessing: what a reset made is dropped
BeginProcessingForgetful(events, had_reset) ==
  \/ ChangeZone
  \/ out_events' = <<>> /\ made' = IF had_reset THEN Len(events) ELSE 0

BeginProcessing(events, had_reset) ==
  \/ ChangeZone
  \/ /\ out_events' = IF had_reset THEN events ELSE <<>>
     /\ made' = IF had_reset THEN Len(events) ELSE 0

-----------------------------------------------------------------------------
(* The audio thread: events. *)

\* Proxy's handlers that do something
ProxyActsOn == {"note_on", "note_off", "control_change", "channel_pressure",
                "pitch_wheel_change"}

MovesController(event) ==
  event.type \in {"control_change", "channel_pressure", "pitch_wheel_change"}

\* the plugin's own control_change
Marks(event) == IF event.type = "control_change" THEN {event.number} ELSE {}

(***************************************************************************)
(* process_vst_events: clears the marks, dispatches one message after the  *)
(* other, and at last sees whether the display is to be updated.           *)
(***************************************************************************)
StartEvents(count) ==
  /\ ~is_suspended
  /\ block.pc = "idle" \/ (block.pc = "events" /\ "events_twice" \in HostHabits)
  /\ midi_cc_received' = {}
  /\ received_midi_cc_cleared' = TRUE
  /\ block' = [pc |-> "dispatch", left |-> count]
  /\ sent' = <<>>
  /\ UNCHANGED <<running_status, update_vars, out_vars, is_dirty, is_suspended,
                 to_audio_messages, to_gui_messages, need_host_update, acted, ignored,
                 is_display_stale>>

ProcessVstMidiEvent(buffer) ==
  /\ block.pc = "dispatch" /\ block.left > 0
  /\ block' = [block EXCEPT !.left = @ - 1]
  /\ LET plugin == DispatchEvent(running_status.plugin, buffer)
         proxy == DispatchEvent(running_status.proxy, buffer)
     IN  /\ running_status' = [plugin |-> plugin.running_status,
                               proxy |-> proxy.running_status]
         /\ midi_cc_received' = midi_cc_received \cup Marks(plugin.event)
         /\ had_midi_cc_event' = (had_midi_cc_event \/ MovesController(plugin.event))
         /\ acted' = acted \cup {[number |-> n, by |-> "message"] : n \in Marks(proxy.event)}
         /\ \E count \in 0..(IF proxy.event.type \in ProxyActsOn THEN MaxOutEvents ELSE 0) :
              PushOutEvents(count)
         /\ is_display_stale' = (is_display_stale \/ MovesController(proxy.event))
  /\ UNCHANGED <<received_midi_cc_cleared, remaining, is_dirty, is_suspended,
                 to_audio_messages, to_gui_messages, need_host_update, ignored, sent>>

\* mutant of HadEvent: a message that came too early for an update is forgotten
HadEventForgetful(had) == FALSE

HadEvent(had) == had /\ remaining # 0

FinishEvents ==
  /\ block.pc = "dispatch" /\ block.left = 0
  /\ block' = [block EXCEPT !.pc = "events"]
  /\ had_midi_cc_event' = HadEvent(had_midi_cc_event)
  /\ \/ /\ had_midi_cc_event /\ remaining = 0
        /\ remaining' = MinSamples
        /\ to_gui_messages' = Pushed(to_gui_messages, "PARAMS_CHANGED")
     \/ /\ ~had_midi_cc_event \/ remaining # 0
        /\ UNCHANGED <<remaining, to_gui_messages>>
  /\ UNCHANGED <<midi_vars, out_vars, is_dirty, is_suspended, to_audio_messages,
                 need_host_update, seen_vars, is_display_stale>>

-----------------------------------------------------------------------------
(* The audio thread: generate_samples. *)

\* mutants of MarksOfBlock: new marks are dropped; old ones stay if a block has no events
MarksOfBlockDropped == [marked |-> {}, cleared |-> FALSE]

MarksOfBlockKept ==
  [marked |-> IF received_midi_cc_cleared THEN midi_cc_received ELSE {},
   cleared |-> received_midi_cc_cleared]

MarksOfBlock ==
  [marked |-> IF received_midi_cc_cleared THEN midi_cc_received ELSE {}, cleared |-> FALSE]

PrepareProcessing ==
  /\ ~is_suspended
  /\ block.pc \in {"idle", "events"}
  /\ midi_cc_received' = MarksOfBlock.marked
  /\ received_midi_cc_cleared' = MarksOfBlock.cleared
  /\ block' = [pc |-> "messages", left |-> Len(to_audio_messages)]
  /\ sent' = <<>>
  /\ UNCHANGED <<running_status, update_vars, out_vars, is_dirty, is_suspended,
                 to_audio_messages, to_gui_messages, need_host_update, acted, ignored,
                 is_display_stale>>

PopMessage ==
  /\ block.pc = "messages" /\ block.left > 0
  /\ to_audio_messages' = Tail(to_audio_messages)
  /\ block' = [block EXCEPT !.left = @ - 1]

\* handle_change_param of a parameter of Proxy: SET_PARAM, which may change its value;
\* a change of the zone waits for begin_processing
HandleExportedParam ==
  /\ PopMessage
  /\ IsExported(Head(to_audio_messages))
  /\ is_dirty' \in BOOLEAN
  /\ UNCHANGED <<midi_vars, update_vars, out_vars, is_suspended, to_gui_messages,
                 need_host_update, seen_vars, is_display_stale>>

(***************************************************************************)
(* Of a helper.  The parameter "Settings Changed" has no controller: its   *)
(* mark is read one bit past the end of midi_cc_received, but whatever is  *)
(* read there, Proxy::control_change returns early for such a controller.  *)
(***************************************************************************)
HandleHelper ==
  /\ PopMessage
  /\ ~IsExported(Head(to_audio_messages))
  /\ LET number == Head(to_audio_messages)
         helper == [number |-> number, by |-> "helper"]
     IN  \/ /\ IsHelper(number) /\ number \in midi_cc_received
            /\ ignored' = ignored \cup {number}
            /\ UNCHANGED <<out_vars, acted>>
         \/ /\ IsHelper(number) /\ number \notin midi_cc_received
            /\ acted' = acted \cup {helper}
            /\ \E count \in 0..MaxOutEvents : PushOutEvents(count)
            /\ UNCHANGED ignored
         \/ /\ ~IsHelper(number)
            /\ UNCHANGED <<out_vars, acted, ignored>>
  /\ UNCHANGED <<midi_vars, update_vars, is_dirty, is_suspended, to_gui_messages,
                 need_host_update, sent, is_display_stale>>

\* mutant of Buffered: the last event that fits waits for one that does not come
BufferedOneShort(b, event) ==
  LET buffer == [b.buffer EXCEPT ![b.next] = event]
  IN  IF b.next = BufferSize
      THEN [buffer |-> buffer, next |-> 1, sent |-> b.sent \o SubSeq(buffer, 1, b.next - 1)]
      ELSE [buffer |-> buffer, next |-> b.next + 1, sent |-> b.sent]

\* a full buffer goes to the host at once and is filled again from its start
Buffered(b, event) ==
  LET buffer == [b.buffer EXCEPT ![b.next] = event]
  IN  IF b.next = BufferSize
      THEN [buffer |-> buffer, next |-> 1, sent |-> b.sent \o SubSeq(buffer, 1, b.next)]
      ELSE [buffer |-> buffer, next |-> b.next + 1, sent |-> b.sent]

EmptyBuffer == [buffer |-> [i \in 1..BufferSize |-> 0], next |-> 1, sent |-> <<>>]

SendOutEvents(events) ==
  LET after[k \in 0..Len(events)] ==
        IF k = 0 THEN EmptyBuffer ELSE Buffered(after[k - 1], events[k])
      b == after[Len(events)]
  IN  b.sent \o SubSeq(b.buffer, 1, b.next - 1)

\* mutant of Remaining: below zero it is never zero
RemainingUnclamped(count) == IF had_midi_cc_event THEN remaining - count ELSE remaining

Remaining(count) ==
  IF ~had_midi_cc_event THEN remaining
  ELSE IF remaining >= count THEN remaining - count ELSE 0

(***************************************************************************)
(* The end of prepare_processing and finalize_processing; whether the time *)
(* has come for the GUI thread to be told of settings is in FstPlugin.     *)
(***************************************************************************)
FinalizeProcessing(count) ==
  /\ block.pc = "messages" /\ block.left = 0
  /\ remaining' = Remaining(count)
  /\ sent' = SendOutEvents(out_events)
  /\ BeginProcessing(out_events, FALSE)
  /\ \/ /\ is_dirty /\ is_dirty' = FALSE
        /\ to_gui_messages' = Pushed(to_gui_messages, "PROXY_WAS_DIRTY")
     \/ UNCHANGED <<is_dirty, to_gui_messages>>
  /\ block' = [block EXCEPT !.pc = "idle"]
  /\ acted' = {} /\ ignored' = {}
  /\ UNCHANGED <<midi_vars, had_midi_cc_event, is_suspended, to_audio_messages,
                 need_host_update, is_display_stale>>

-----------------------------------------------------------------------------
(* The GUI thread. *)

SetParameter(index) ==
  /\ to_audio_messages' = IF index = PATCH_CHANGED_PARAMETER_INDEX THEN to_audio_messages
                          ELSE Pushed(to_audio_messages, index)
  /\ UNCHANGED <<midi_vars, update_vars, block, out_vars, is_dirty, is_suspended,
                 to_gui_messages, need_host_update, seen_vars, is_display_stale>>

\* process_internal_messages_in_gui_thread: whether the host has to update its display
NeedsUpdate == need_host_update \/ to_gui_messages # <<>>

\* the host reads everything it shows when it is told to update its display
Idle ==
  /\ to_gui_messages' = <<>>
  /\ need_host_update' = FALSE
  /\ is_display_stale' = (is_display_stale /\ ~NeedsUpdate)
  /\ UNCHANGED <<midi_vars, update_vars, block, out_vars, is_dirty, is_suspended,
                 to_audio_messages, seen_vars>>

\* what the host's calls about its set-up have in common: no block is under way
CallHost ==
  /\ to_gui_messages' = <<>>
  /\ need_host_update' = NeedsUpdate
  /\ running_status' = NoStatus
  /\ UNCHANGED <<midi_cc_received, received_midi_cc_cleared, had_midi_cc_event, is_dirty,
                 to_audio_messages, sent, is_display_stale>>

SetSampleRate ==
  /\ block.pc = "idle"
  /\ CallHost
  /\ remaining' = MinSamples
  /\ UNCHANGED <<block, out_vars, is_suspended, acted, ignored>>

SetBlockSize ==
  /\ block.pc = "idle"
  /\ CallHost
  /\ UNCHANGED <<remaining, block, out_vars, is_suspended, acted, ignored>>

\* no events wait for their block, or the host drops them
BetweenBlocks == block.pc = "idle" \/ (block.pc = "events" /\ "drops_events" \in HostHabits)

Suspend ==
  /\ BetweenBlocks
  /\ CallHost
  /\ is_suspended' = TRUE
  /\ block' = [block EXCEPT !.pc = "idle"]
  /\ acted' = {} /\ ignored' = {}
  /\ UNCHANGED <<remaining, out_vars>>

\* Proxy's reset drops its out events and makes others, and begin_processing keeps them
Resume ==
  /\ BetweenBlocks
  /\ CallHost
  /\ is_suspended' = FALSE
  /\ \E count \in 0..MaxOutEvents : BeginProcessing(Numbered(count), TRUE)
  /\ block' = [block EXCEPT !.pc = "idle"]
  /\ acted' = {} /\ ignored' = {}
  /\ UNCHANGED remaining

-----------------------------------------------------------------------------
ReadEvents ==
  \/ \E buffer \in Buffers : ProcessVstMidiEvent(buffer)
  \/ FinishEvents

GiveEvents ==
  \/ \E count \in 0..MaxMessages : StartEvents(count)
  \/ ReadEvents

GenerateSamples ==
  \/ PrepareProcessing
  \/ HandleExportedParam
  \/ HandleHelper
  \/ \E count \in BlockSizes : FinalizeProcessing(count)

SetUp == SetSampleRate \/ SetBlockSize \/ Suspend \/ Resume

Next ==
  \/ GiveEvents
  \/ GenerateSamples
  \/ \E index \in Parameters : SetParameter(index)
  \/ Idle
  \/ SetUp

Spec == Init /\ [][Next]_vars

(***************************************************************************)
(* The host asks for blocks and is idle now and then, a list of events     *)
(* that was begun is read to its end, what the host suspends it resumes,   *)
(* and some day it has settled on a sample rate.  Whether it ever gives    *)
(* another list of events is up to it.                                     *)
(***************************************************************************)
FairSpec ==
  /\ Spec
  /\ SF_vars(GenerateSamples) /\ WF_vars(ReadEvents)
  /\ WF_vars(Idle) /\ WF_vars(is_suspended /\ Resume)
  /\ <>[][~SetSampleRate]_vars

-----------------------------------------------------------------------------
(* Properties. *)

(***************************************************************************)
(* Types; the pause between updates of the host's display never runs below *)
(* zero, where it would not end.                                           *)
(***************************************************************************)
TypeOK ==
  /\ running_status \in [plugin : Byte, proxy : Byte]
  /\ midi_cc_received \subseteq 0..MAX_MIDI_CC
  /\ received_midi_cc_cleared \in BOOLEAN /\ had_midi_cc_event \in BOOLEAN
  /\ remaining \in 0..MinSamples
  /\ block \in [pc : {"idle", "dispatch", "events", "messages"},
                    left : 0..(MaxMessages + QueueCapacity)]
  /\ out_events \in Seq(Nat) /\ made \in Nat
  /\ is_dirty \in BOOLEAN /\ is_suspended \in BOOLEAN /\ need_host_update \in BOOLEAN
  /\ to_audio_messages \in Seq(Parameters) /\ Len(to_audio_messages) <= QueueCapacity
  /\ to_gui_messages \in Seq({"PARAMS_CHANGED", "PROXY_WAS_DIRTY"})
  /\ Len(to_gui_messages) <= QueueCapacity
  /\ acted \subseteq [number : 0..CHANNEL_PRESSURE_ID, by : {"message", "helper"}]
  /\ ignored \subseteq 0..CHANNEL_PRESSURE_ID
  /\ is_display_stale \in BOOLEAN

(***************************************************************************)
(* In no block does a controller act both by its MIDI message and by its   *)
(* helper parameter, with which the host repeats the message: the marks    *)
(* are of the block that is under way, and the plugin, with its own        *)
(* running status, has understood the messages as Proxy has.  (Pitch bend  *)
(* and channel pressure messages are not marked.)                          *)
(***************************************************************************)
OneSourcePerBlock ==
  \A a, b \in acted : a.number = b.number /\ a.number <= MAX_MIDI_CC => a.by = b.by

(***************************************************************************)
(* A helper is only ignored for a message on which Proxy has acted in the  *)
(* same block: no mark is left from an earlier one, also when a block has  *)
(* no events at all.                                                       *)
(***************************************************************************)
HelpersAreNotLost ==
  \A number \in ignored : [number |-> number, by |-> "message"] \in acted

(***************************************************************************)
(* At the end of a block the host gets every out event that Proxy has made *)
(* since the last block or since it reset, once and in order, however many *)
(* buffers they fill: also the note-offs of a reset and the messages of a  *)
(* change of the zone, which wait for the next block.                      *)
(***************************************************************************)
EveryEventIsSent ==
  [][\A count \in BlockSizes : FinalizeProcessing(count) => sent' = Numbered(made)]_vars

\* the next list of events will update the display
UpdateIsDue == had_midi_cc_event /\ remaining = 0

(***************************************************************************)
(* After a controller has moved the host updates its display, or the pause *)
(* since the last update runs out and the next list of events will update  *)
(* it: the movement is not forgotten, and the pause is not endless.  (The  *)
(* code looks at the pause only when it is given events: without another   *)
(* list, the display stays as it is.)                                      *)
(***************************************************************************)
DisplayCatchesUp == is_display_stale ~> (~is_display_stale \/ UpdateIsDue)
=============================================================================
