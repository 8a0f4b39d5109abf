-------------------------- MODULE FstEventsProofs ---------------------------
(***************************************************************************)
(* Helper parameters and MIDI messages in the FST plugin: for all messages *)
(* of the host, all parameters it sets, and all bounds, a controller has   *)
(* one source per block, and no helper is ignored without a message.       *)
(*                                                                         *)
(* The inductive invariant says what the marks mean at each place of a     *)
(* block: they are the controllers that messages have moved in this block, *)
(* since the plugin and Proxy read each message with the same running      *)
(* status.                                                                 *)
(***************************************************************************)
EXTENDS FstEvents, StackLemmas, SequenceTheorems, TLAPS

Message(n) == [number |-> n, by |-> "message"]
Helper(n) == [number |-> n, by |-> "helper"]

\* the marks are what messages moved, and every helper that acted is unmarked
MarksAreOfBlock ==
  /\ \A n \in midi_cc_received : Message(n) \in acted
  /\ \A a \in acted : \/ a = Message(a.number) /\ a.number \in midi_cc_received
                      \/ a = Helper(a.number) /\ a.number \notin midi_cc_received

IdleInv == /\ acted = {} /\ ignored = {}
           /\ received_midi_cc_cleared => midi_cc_received = {}

EventsInv == /\ received_midi_cc_cleared /\ ignored = {}
             /\ MarksAreOfBlock
             /\ \A a \in acted : a.by = "message"

MessagesInv ==
  /\ ~received_midi_cc_cleared
  /\ MarksAreOfBlock
  /\ ignored \subseteq midi_cc_received

BlockInv ==
  /\ running_status.plugin = running_status.proxy
  /\ block.pc = "idle" => IdleInv
  /\ block.pc \in {"dispatch", "events"} => EventsInv
  /\ block.pc = "messages" => MessagesInv

\* the messages that were counted are still in the queue
CountedAreThere == block.pc = "messages" => block.left <= Len(to_audio_messages)

\* Proxy's out events are those that it made, in their order
AllAreThere == out_events = Numbered(made)

TypeInv == TypeOK /\ CountedAreThere /\ AllAreThere

IInv == TypeInv /\ BlockInv

Places == {"idle", "dispatch", "events", "messages"}
Block == [pc : Places, left : 0..(MaxMessages + QueueCapacity)]

-----------------------------------------------------------------------------
(* Types. *)

(* What a message is understood as has a type. *)
LEMMA DispatchEventType ==
  ASSUME NEW status \in Byte, NEW buffer \in [1..4 -> Byte]
  PROVE  LET d == DispatchEvent(status, buffer)
         IN  /\ d.running_status \in Byte
             /\ d.event.type = "control_change" => d.event.number \in 0..MAX_MIDI_CC
<1> DEFINE begins == IsStatusByte(buffer[1])
           now == IF begins THEN buffer[1] ELSE status
           first == IF begins THEN 2 ELSE 1
           last == first + DataBytes(now) - 1
           data == SubSeq(buffer, first, last)
<1>1. now \in Byte /\ first \in 1..2
  OBVIOUS
<1>2. DataBytes(now) \in 0..2
  BY DEF DataBytes
<1>3. Len(buffer) = 4
  <2>1. buffer \in Seq(Byte)
    BY SeqDef
  <2> QED  BY <2>1, LenProperties
<1>4. ASSUME last >= first, last <= Len(buffer) PROVE data[1] \in Byte
  <2>1. first \in Int /\ last \in Int /\ first <= last /\ last <= 4
    BY <1>1, <1>2, <1>3, <1>4
  <2>2. \A i \in first..last : buffer[i] \in Byte
    BY <1>1, <2>1
  <2> HIDE DEF first, last, now, begins
  <2>3. data[1] = buffer[first + 1 - 1]
    BY <2>1, <2>2, SubSeqProperties
  <2> QED  BY <2>1, <2>2, <2>3
<1>5. ASSUME NEW bytes, bytes[1] \in Byte, EventOf(now, bytes).type = "control_change"
      PROVE  EventOf(now, bytes).number \in 0..MAX_MIDI_CC
  <2>1. MessageType(now) = CONTROL_CHANGE /\ bytes[1] < CONTROL_CHANGE_ALL_SOUND_OFF
    BY <1>5 DEF EventOf
  <2>2. EventOf(now, bytes).number = bytes[1]
    BY <2>1 DEF EventOf, NOTE_OFF, NOTE_ON, CONTROL_CHANGE
  <2> QED  BY <1>5, <2>1, <2>2 DEF Byte, MAX_MIDI_CC, CONTROL_CHANGE_ALL_SOUND_OFF
<1>6. \/ DispatchEvent(status, buffer).event = NoEvent
      \/ /\ last >= first /\ last <= Len(buffer)
         /\ DispatchEvent(status, buffer).event = EventOf(now, data)
  BY DEF DispatchEvent
<1>7. DispatchEvent(status, buffer).running_status = now
  BY DEF DispatchEvent
<1> HIDE DEF now, first, last, data, begins
<1>8. CASE DispatchEvent(status, buffer).event = NoEvent
  BY <1>1, <1>7, <1>8 DEF NoEvent
<1>9. CASE /\ last >= first /\ last <= Len(buffer)
           /\ DispatchEvent(status, buffer).event = EventOf(now, data)
  <2>1. data[1] \in Byte
    BY <1>4, <1>9
  <2>2. ASSUME EventOf(now, data).type = "control_change"
        PROVE  EventOf(now, data).number \in 0..MAX_MIDI_CC
    BY <1>5, <2>1, <2>2
  <2> QED  BY <1>1, <1>7, <1>9, <2>2
<1> QED
  BY <1>6, <1>8, <1>9

(* Pushing keeps a queue a queue. *)
LEMMA PushedType ==
  ASSUME NEW S, NEW queue \in Seq(S), Len(queue) <= QueueCapacity, NEW message \in S
  PROVE  /\ Pushed(queue, message) \in Seq(S) /\ Len(Pushed(queue, message)) <= QueueCapacity
         /\ Len(queue) <= Len(Pushed(queue, message))
  BY AppendProperties, LenProperties, BoundsAssumption DEF Pushed

(* The loops of the audio thread pop what is there. *)
LEMMA PopFacts ==
  ASSUME TypeInv, PopMessage
  PROVE  /\ Head(to_audio_messages) \in Parameters
         /\ to_audio_messages' \in Seq(Parameters)
         /\ Len(to_audio_messages') <= QueueCapacity
         /\ block' \in Block /\ block'.pc = "messages" /\ block.pc = "messages"
         /\ CountedAreThere'
<1>1. /\ block \in Block /\ block.pc = "messages" /\ block.left > 0
      /\ block' = [block EXCEPT !.left = @ - 1]
      /\ block.left <= Len(to_audio_messages)
      /\ to_audio_messages \in Seq(Parameters) /\ Len(to_audio_messages) <= QueueCapacity
      /\ to_audio_messages' = Tail(to_audio_messages)
  BY DEF TypeInv, TypeOK, CountedAreThere, PopMessage, Block, Places
<1>2. block' \in Block /\ block'.pc = "messages" /\ block'.left = block.left - 1
  BY <1>1, BoundsAssumption DEF Block
<1>3. to_audio_messages # <<>> /\ Len(to_audio_messages) \in Nat
  BY <1>1, EmptySeq, LenProperties DEF Block
<1>4. /\ Head(to_audio_messages) \in Parameters
      /\ to_audio_messages' \in Seq(Parameters)
      /\ Len(to_audio_messages') = Len(to_audio_messages) - 1
  BY <1>1, <1>3, HeadTailProperties
<1> QED
  BY <1>1, <1>2, <1>3, <1>4, BoundsAssumption DEF CountedAreThere, Block

LEMMA NumberedType ==
  ASSUME NEW count \in Nat
  PROVE  /\ Numbered(count) \in Seq(Nat) /\ Len(Numbered(count)) = count
         /\ \A i \in 1..count : Numbered(count)[i] = i
BY DEF Numbered

(* A call of Proxy adds to its out events. *)
LEMMA PushedOutEvents ==
  ASSUME TypeInv, NEW count \in 0..MaxOutEvents, PushOutEvents(count)
  PROVE  out_events' \in Seq(Nat) /\ made' \in Nat /\ AllAreThere'
<1>1. PICK n \in Nat, k \in Nat : n = made /\ k = count
  BY BoundsAssumption DEF TypeInv, TypeOK
<1>2. PICK old \in Seq(Nat) :
        old = out_events /\ Len(old) = n /\ \A i \in 1..n : old[i] = i
  BY <1>1, NumberedType DEF TypeInv, AllAreThere
<1>3. PICK new \in Seq(Nat) :
        /\ new = [i \in 1..k |-> n + i] /\ Len(new) = k
        /\ \A i \in 1..k : new[i] = n + i
  <2>1. \A i \in 1..k : n + i \in Nat
    OBVIOUS
  <2>2. [i \in 1..k |-> n + i] \in Seq(Nat)
    BY <2>1
  <2>3. Len([i \in 1..k |-> n + i]) = k
    OBVIOUS
  <2> QED BY <2>2, <2>3
<1>4. PICK both \in Seq(Nat) :
        /\ both = old \o new /\ Len(both) = n + k
        /\ \A i \in 1..(n + k) : both[i] = IF i <= n THEN old[i] ELSE new[i - n]
  <2>1. /\ old \o new \in Seq(Nat)
        /\ Len(old \o new) = Len(old) + Len(new)
        /\ \A i \in 1..Len(old) + Len(new) :
             (old \o new)[i] = IF i <= Len(old) THEN old[i] ELSE new[i - Len(old)]
    BY ConcatProperties
  <2>2. Len(old) = n /\ Len(new) = k
    BY <1>2, <1>3
  <2> QED BY <2>1, <2>2, Zenon
<1>5. ASSUME NEW i \in 1..(n + k) PROVE both[i] = i
  <2>1. CASE i <= n
    BY <1>2, <1>4, <2>1
  <2>2. CASE ~(i <= n)
    <3>1. i - n \in 1..k /\ n + (i - n) = i
      BY <2>2
    <3> QED BY <1>3, <1>4, <2>2, <3>1
  <2> QED BY <2>1, <2>2
<1>6. n + k \in Nat
  OBVIOUS
<1>7. both = Numbered(n + k)
  BY <1>4, <1>5, <1>6, NumberedType, SeqEqual
<1>8. out_events' = both /\ made' = n + k
  BY <1>1, <1>2, <1>3, <1>4 DEF PushOutEvents
<1> QED BY <1>6, <1>7, <1>8 DEF AllAreThere

(* What begin_processing leaves are the events of a reset or of a zone. *)
LEMMA BegunOutEvents ==
  ASSUME NEW events, NEW had_reset \in BOOLEAN, BeginProcessing(events, had_reset),
         had_reset => \E count \in 0..MaxOutEvents : events = Numbered(count)
  PROVE  out_events' \in Seq(Nat) /\ made' \in Nat /\ AllAreThere'
<1>1. \E count \in Nat : out_events' = Numbered(count) /\ made' = count
  <2>1. CASE ChangeZone
    BY <2>1, BoundsAssumption DEF ChangeZone
  <2>2. CASE had_reset /\ out_events' = events /\ made' = Len(events)
    <3>1. PICK count \in Nat : events = Numbered(count)
      BY <2>2, BoundsAssumption
    <3> QED BY <2>2, <3>1, NumberedType
  <2>3. CASE ~had_reset /\ out_events' = <<>> /\ made' = 0
    <3>1. Numbered(0) = <<>>
      BY DEF Numbered
    <3> QED BY <2>3, <3>1
  <2> QED BY <2>1, <2>2, <2>3 DEF BeginProcessing
<1> QED BY <1>1, NumberedType DEF AllAreThere

-----------------------------------------------------------------------------
(* Types: one lemma per action that does more than push or leave alone. *)

LEMMA InitTypes == Init => TypeInv
<1> SUFFICES ASSUME Init PROVE TypeInv
  OBVIOUS
<1>1. /\ to_audio_messages \in Seq(Parameters)
      /\ to_gui_messages \in Seq({"PARAMS_CHANGED", "PROXY_WAS_DIRTY"})
  BY EmptySeq DEF Init
<1>2. Len(to_audio_messages) <= QueueCapacity /\ Len(to_gui_messages) <= QueueCapacity
  BY BoundsAssumption DEF Init
<1>3. running_status \in [plugin : Byte, proxy : Byte]
  BY DEF Init, NoStatus, NO_STATUS, Byte
<1>4. block \in Block
  BY BoundsAssumption DEF Init, Block, Places
<1>5. /\ remaining \in 0..MinSamples /\ out_events \in Seq(Nat) /\ made \in Nat
      /\ AllAreThere
  BY BoundsAssumption, EmptySeq DEF Init, AllAreThere, Numbered
<1>6. TypeOK
  BY <1>1, <1>2, <1>3, <1>4, <1>5 DEF Init, TypeOK, Block, Places
<1>7. CountedAreThere
  BY DEF Init, CountedAreThere
<1> QED  BY <1>5, <1>6, <1>7 DEF TypeInv

LEMMA StartEventsTypes ==
  ASSUME TypeInv, NEW count \in 0..MaxMessages, StartEvents(count)
  PROVE  TypeInv'
<1>1. block' \in Block /\ block'.pc = "dispatch"
  BY BoundsAssumption DEF StartEvents, Block, Places
<1>2. TypeOK'
  BY <1>1 DEF TypeInv, TypeOK, StartEvents, update_vars, out_vars, Block, Places
<1>3. AllAreThere'
  BY DEF TypeInv, AllAreThere, StartEvents, out_vars
<1> QED  BY <1>1, <1>2, <1>3 DEF TypeInv, CountedAreThere

LEMMA ProcessVstMidiEventTypes ==
  ASSUME TypeInv, NEW buffer \in Buffers, ProcessVstMidiEvent(buffer)
  PROVE  TypeInv'
<1> DEFINE plugin == DispatchEvent(running_status.plugin, buffer)
           proxy == DispatchEvent(running_status.proxy, buffer)
<1>1. buffer \in [1..4 -> Byte] /\ running_status.plugin \in Byte /\ running_status.proxy \in Byte
  BY BuffersAssumption DEF TypeInv, TypeOK
<1>2. /\ plugin.running_status \in Byte /\ proxy.running_status \in Byte
      /\ plugin.event.type = "control_change" => plugin.event.number \in 0..MAX_MIDI_CC
      /\ proxy.event.type = "control_change" => proxy.event.number \in 0..MAX_MIDI_CC
  BY <1>1, DispatchEventType
<1>3. Marks(plugin.event) \subseteq 0..MAX_MIDI_CC /\ Marks(proxy.event) \subseteq 0..MAX_MIDI_CC
  BY <1>2 DEF Marks
<1>4. /\ running_status' = [plugin |-> plugin.running_status, proxy |-> proxy.running_status]
      /\ midi_cc_received' = midi_cc_received \cup Marks(plugin.event)
      /\ had_midi_cc_event' = (had_midi_cc_event \/ MovesController(plugin.event))
      /\ acted' = acted \cup {[number |-> n, by |-> "message"] : n \in Marks(proxy.event)}
      /\ \E count \in 0..(IF proxy.event.type \in ProxyActsOn THEN MaxOutEvents ELSE 0) :
           PushOutEvents(count)
      /\ is_display_stale' = (is_display_stale \/ MovesController(proxy.event))
      /\ block.pc = "dispatch" /\ block.left > 0 /\ block' = [block EXCEPT !.left = @ - 1]
      /\ UNCHANGED <<received_midi_cc_cleared, remaining, is_dirty, is_suspended,
                     to_audio_messages, to_gui_messages, need_host_update, ignored, sent>>
  BY DEF ProcessVstMidiEvent
<1> HIDE DEF plugin, proxy
<1>5. block' \in Block /\ block'.pc = "dispatch"
  <2>1. /\ block \in Block /\ block.pc = "dispatch" /\ block.left > 0
        /\ block' = [block EXCEPT !.left = @ - 1]
    BY <1>4 DEF TypeInv, TypeOK, Block, Places
  <2> QED BY <2>1, BoundsAssumption DEF Block
<1>6. out_events' \in Seq(Nat) /\ made' \in Nat /\ AllAreThere'
  <2>1. PICK count \in 0..MaxOutEvents : PushOutEvents(count)
    BY <1>4, BoundsAssumption
  <2> QED BY <2>1, PushedOutEvents
<1>7. acted' \subseteq [number : 0..CHANNEL_PRESSURE_ID, by : {"message", "helper"}]
  BY <1>3, <1>4 DEF TypeInv, TypeOK, MAX_MIDI_CC, CHANNEL_PRESSURE_ID
<1>8. running_status' \in [plugin : Byte, proxy : Byte]
  BY <1>2, <1>4
<1>9. midi_cc_received' \subseteq 0..MAX_MIDI_CC
  BY <1>3, <1>4 DEF TypeInv, TypeOK
<1>10. had_midi_cc_event' \in BOOLEAN /\ is_display_stale' \in BOOLEAN
  BY <1>4, Zenon DEF TypeInv, TypeOK, MovesController
<1>11. TypeOK'
  BY <1>4, <1>5, <1>6, <1>7, <1>8, <1>9, <1>10 DEF TypeInv, TypeOK, out_vars, Block, Places
<1> QED  BY <1>5, <1>6, <1>11 DEF TypeInv, CountedAreThere

LEMMA FinishEventsTypes ==
  ASSUME TypeInv, FinishEvents
  PROVE  TypeInv'
<1>1. block' \in Block /\ block'.pc = "events"
  BY DEF TypeInv, TypeOK, FinishEvents, Block, Places
<1>2. /\ to_gui_messages' \in Seq({"PARAMS_CHANGED", "PROXY_WAS_DIRTY"})
      /\ Len(to_gui_messages') <= QueueCapacity
  BY PushedType DEF TypeInv, TypeOK, FinishEvents
<1>3. remaining' \in 0..MinSamples
  BY BoundsAssumption DEF TypeInv, TypeOK, FinishEvents
<1>4. had_midi_cc_event' \in BOOLEAN
  BY Zenon DEF TypeInv, TypeOK, FinishEvents, HadEvent
<1>5. TypeOK'
  BY <1>1, <1>2, <1>3, <1>4 DEF TypeInv, TypeOK, FinishEvents, midi_vars, out_vars, seen_vars,
     Block, Places
<1>6. AllAreThere'
  BY DEF TypeInv, AllAreThere, FinishEvents, out_vars
<1> QED  BY <1>1, <1>5, <1>6 DEF TypeInv, CountedAreThere

LEMMA PrepareProcessingTypes ==
  ASSUME TypeInv, PrepareProcessing
  PROVE  TypeInv'
<1>1. Len(to_audio_messages) \in Nat /\ Len(to_audio_messages) <= QueueCapacity
  BY LenProperties DEF TypeInv, TypeOK
<1>2. block' \in Block /\ block'.left = Len(to_audio_messages)
  BY <1>1, BoundsAssumption DEF PrepareProcessing, Block, Places
<1>3. TypeOK'
  BY <1>2 DEF TypeInv, TypeOK, PrepareProcessing, MarksOfBlock, update_vars, out_vars, Block, Places
<1>4. CountedAreThere'
  BY <1>1, <1>2 DEF CountedAreThere, PrepareProcessing
<1>5. AllAreThere'
  BY DEF TypeInv, AllAreThere, PrepareProcessing, out_vars
<1> QED  BY <1>3, <1>4, <1>5 DEF TypeInv

LEMMA HandleExportedParamTypes ==
  ASSUME TypeInv, HandleExportedParam
  PROVE  TypeInv'
<1>1. PopMessage
  BY DEF HandleExportedParam
<1>2. AllAreThere'
  BY DEF TypeInv, AllAreThere, HandleExportedParam, out_vars
<1>3. TypeOK'
  BY <1>1, <1>2, PopFacts DEF TypeInv, TypeOK, HandleExportedParam, midi_vars, update_vars,
     out_vars, seen_vars, Block, Places
<1> QED  BY <1>1, <1>2, <1>3, PopFacts DEF TypeInv

LEMMA HandleHelperTypes ==
  ASSUME TypeInv, HandleHelper
  PROVE  TypeInv'
<1> DEFINE number == Head(to_audio_messages)
<1>1. PopMessage
  BY DEF HandleHelper
<1>2. number \in 0..(NUMBER_OF_PARAMETERS - 1)
  BY <1>1, PopFacts, ParametersAssumption
<1>3. \/ /\ IsHelper(number)
         /\ ignored' = ignored \cup {number}
         /\ UNCHANGED <<out_vars, acted>>
      \/ /\ IsHelper(number)
         /\ acted' = acted \cup {Helper(number)}
         /\ \E count \in 0..MaxOutEvents : PushOutEvents(count)
         /\ UNCHANGED ignored
      \/ UNCHANGED <<out_vars, acted, ignored>>
  BY DEF HandleHelper, Helper
<1> HIDE DEF number
<1>4. IsHelper(number) => number \in 0..CHANNEL_PRESSURE_ID
  BY <1>2 DEF IsHelper, CHANNEL_PRESSURE_ID, NUMBER_OF_PARAMETERS, MAX_MIDI_CC, PARAM_ID_COUNT
<1>5. out_events' \in Seq(Nat) /\ made' \in Nat /\ AllAreThere'
  <2>1. CASE UNCHANGED out_vars
    BY <2>1 DEF TypeInv, TypeOK, AllAreThere, out_vars
  <2>2. CASE \E count \in 0..MaxOutEvents : PushOutEvents(count)
    BY <2>2, PushedOutEvents
  <2> QED BY <1>3, <2>1, <2>2
<1>6. /\ acted' \subseteq [number : 0..CHANNEL_PRESSURE_ID, by : {"message", "helper"}]
      /\ ignored' \subseteq 0..CHANNEL_PRESSURE_ID
  <2>1. IsHelper(number)
          => Helper(number) \in [number : 0..CHANNEL_PRESSURE_ID, by : {"message", "helper"}]
    BY <1>4 DEF Helper
  <2>2. /\ acted \subseteq [number : 0..CHANNEL_PRESSURE_ID, by : {"message", "helper"}]
        /\ ignored \subseteq 0..CHANNEL_PRESSURE_ID
    BY DEF TypeInv, TypeOK
  <2> QED  BY <1>3, <1>4, <2>1, <2>2
<1>7. TypeOK'
  BY <1>1, <1>5, <1>6, PopFacts DEF TypeInv, TypeOK, HandleHelper, midi_vars, update_vars,
     out_vars, Block, Places
<1> QED  BY <1>1, <1>5, <1>7, PopFacts DEF TypeInv

LEMMA FinalizeProcessingTypes ==
  ASSUME TypeInv, NEW count \in BlockSizes, FinalizeProcessing(count)
  PROVE  TypeInv'
<1>1. block' \in Block /\ block'.pc = "idle"
  BY DEF TypeInv, TypeOK, FinalizeProcessing, Block, Places
<1>2. remaining' \in 0..MinSamples
  BY BoundsAssumption DEF TypeInv, TypeOK, FinalizeProcessing, Remaining
<1>3. /\ to_gui_messages' \in Seq({"PARAMS_CHANGED", "PROXY_WAS_DIRTY"})
      /\ Len(to_gui_messages') <= QueueCapacity
  BY PushedType DEF TypeInv, TypeOK, FinalizeProcessing
<1>4. out_events' \in Seq(Nat) /\ made' \in Nat /\ AllAreThere'
  BY BegunOutEvents DEF FinalizeProcessing
<1>5. TypeOK'
  BY <1>1, <1>2, <1>3, <1>4 DEF TypeInv, TypeOK, FinalizeProcessing, midi_vars, Block, Places
<1> QED  BY <1>1, <1>4, <1>5 DEF TypeInv, CountedAreThere

LEMMA SetParameterTypes ==
  ASSUME TypeInv, NEW index \in Parameters, SetParameter(index)
  PROVE  TypeInv'
<1>1. /\ to_audio_messages' \in Seq(Parameters) /\ Len(to_audio_messages') <= QueueCapacity
      /\ Len(to_audio_messages) <= Len(to_audio_messages')
  BY PushedType, LenProperties DEF TypeInv, TypeOK, SetParameter
<1>2. TypeOK'
  BY <1>1 DEF TypeInv, TypeOK, SetParameter, midi_vars, update_vars, out_vars, seen_vars
<1>3. Len(to_audio_messages) \in Nat /\ Len(to_audio_messages') \in Nat
  BY <1>1, LenProperties DEF TypeInv, TypeOK
<1>4. CountedAreThere'
  BY <1>1, <1>3 DEF TypeInv, TypeOK, CountedAreThere, SetParameter
<1>5. AllAreThere'
  BY DEF TypeInv, AllAreThere, SetParameter, out_vars
<1> QED  BY <1>2, <1>4, <1>5 DEF TypeInv

(* A queue that was emptied. *)
LEMMA EmptiedQueue ==
  /\ <<>> \in Seq({"PARAMS_CHANGED", "PROXY_WAS_DIRTY"})
  /\ Len(<<>>) <= QueueCapacity
  BY EmptySeq, BoundsAssumption

LEMMA IdleTypes ==
  ASSUME TypeInv, Idle
  PROVE  TypeInv'
<1>1. to_gui_messages' = <<>> /\ AllAreThere'
  BY DEF TypeInv, AllAreThere, Idle, out_vars
<1>2. is_display_stale' \in BOOLEAN
  BY Zenon DEF TypeInv, TypeOK, Idle
<1>3. TypeOK'
  BY <1>1, <1>2, EmptiedQueue DEF TypeInv, TypeOK, Idle, midi_vars, update_vars, out_vars, seen_vars
<1> QED  BY <1>1, <1>3 DEF TypeInv, CountedAreThere, Idle

LEMMA SetUpTypes ==
  ASSUME TypeInv, SetUp
  PROVE  TypeInv'
<1>1. CallHost /\ to_gui_messages' = <<>>
  BY DEF SetUp, SetSampleRate, SetBlockSize, Suspend, Resume, CallHost
<1>2. block' \in Block /\ (block' = block \/ block'.pc = "idle")
  BY DEF TypeInv, TypeOK, SetUp, SetSampleRate, SetBlockSize, Suspend, Resume, Block, Places
<1>3. /\ remaining' \in 0..MinSamples /\ is_suspended' \in BOOLEAN
      /\ acted' \in {acted, {}} /\ ignored' \in {ignored, {}}
  <2> USE BoundsAssumption DEF TypeInv, TypeOK
  <2>1. CASE SetSampleRate
    BY <2>1 DEF SetSampleRate
  <2>2. CASE SetBlockSize
    BY <2>2 DEF SetBlockSize
  <2>3. CASE Suspend
    BY <2>3 DEF Suspend
  <2>4. CASE Resume
    BY <2>4 DEF Resume
  <2> QED  BY <2>1, <2>2, <2>3, <2>4 DEF SetUp
<1>7. out_events' \in Seq(Nat) /\ made' \in Nat /\ AllAreThere'
  <2>1. CASE SetSampleRate \/ SetBlockSize \/ Suspend
    <3>1. UNCHANGED out_vars
      BY <2>1 DEF SetSampleRate, SetBlockSize, Suspend
    <3> QED BY <3>1 DEF TypeInv, TypeOK, AllAreThere, out_vars
  <2>2. CASE Resume
    <3>1. PICK count \in 0..MaxOutEvents : BeginProcessing(Numbered(count), TRUE)
      BY <2>2 DEF Resume
    <3> QED BY <3>1, BegunOutEvents
  <2> QED BY <2>1, <2>2 DEF SetUp
<1>4. NoStatus \in [plugin : Byte, proxy : Byte]
  BY DEF NoStatus, NO_STATUS, Byte
<1>5. need_host_update' \in BOOLEAN
  BY <1>1, Zenon DEF TypeInv, TypeOK, CallHost, NeedsUpdate
<1>6. TypeOK'
  BY <1>1, <1>2, <1>3, <1>4, <1>5, <1>7, EmptiedQueue DEF TypeInv, TypeOK, CallHost, Block, Places
<1> QED  BY <1>1, <1>2, <1>6, <1>7 DEF TypeInv, CountedAreThere, CallHost

LEMMA NextTypes == TypeInv /\ [Next]_vars => TypeInv'
<1> SUFFICES ASSUME TypeInv, [Next]_vars PROVE TypeInv'
  OBVIOUS
<1>1. CASE GiveEvents
  BY <1>1, StartEventsTypes, ProcessVstMidiEventTypes, FinishEventsTypes DEF GiveEvents,
     ReadEvents
<1>2. CASE GenerateSamples
  BY <1>2, PrepareProcessingTypes, HandleExportedParamTypes, HandleHelperTypes,
     FinalizeProcessingTypes DEF GenerateSamples
<1>3. CASE \E index \in Parameters : SetParameter(index)
  BY <1>3, SetParameterTypes
<1>4. CASE Idle \/ SetUp
  BY <1>4, IdleTypes, SetUpTypes
<1>5. CASE UNCHANGED vars
  BY <1>5 DEF TypeInv, TypeOK, CountedAreThere, AllAreThere, vars, midi_vars, update_vars,
     out_vars, seen_vars
<1> QED  BY <1>1, <1>2, <1>3, <1>4, <1>5 DEF Next

(***************************************************************************)
(* Every variable of the FST plugin's event handling keeps its type, and   *)
(* its queues their bounds, whatever the host's habits, messages and       *)
(* parameters are; in particular the pause between updates of the host's   *)
(* display stays between zero and its length.                              *)
(***************************************************************************)
THEOREM TypeCorrect == Spec => []TypeOK
<1>1. Init => TypeInv
  BY InitTypes
<1>2. TypeInv /\ [Next]_vars => TypeInv'
  BY NextTypes
<1>3. TypeInv => TypeOK
  BY DEF TypeInv
<1> QED  BY <1>1, <1>2, <1>3, PTL DEF Spec

-----------------------------------------------------------------------------
(* What holds at each place of a block: one lemma per action. *)

LEMMA InitBlock == Init => BlockInv
  BY DEF Init, BlockInv, IdleInv, NoStatus

(* Without habits of the host, events start a block that has none yet. *)
LEMMA StartEventsBlock ==
  ASSUME BlockInv, HostHabits = {}, NEW count \in 0..MaxMessages, StartEvents(count)
  PROVE  BlockInv'
<1>1. block.pc = "idle" /\ block'.pc = "dispatch"
  BY DEF StartEvents
<1>2. EventsInv'
  BY <1>1 DEF BlockInv, IdleInv, StartEvents, EventsInv, MarksAreOfBlock
<1> QED  BY <1>1, <1>2 DEF BlockInv, StartEvents

(* Both dispatchers understand a message in the same way. *)
LEMMA ProcessVstMidiEventBlock ==
  ASSUME TypeInv, BlockInv, NEW buffer \in Buffers, ProcessVstMidiEvent(buffer)
  PROVE  BlockInv'
<1> DEFINE dispatched == DispatchEvent(running_status.plugin, buffer)
           moved == Marks(dispatched.event)
<1>1. running_status.proxy = running_status.plugin /\ EventsInv
  BY DEF BlockInv, ProcessVstMidiEvent
<1>2. /\ running_status' = [plugin |-> dispatched.running_status,
                            proxy |-> dispatched.running_status]
      /\ midi_cc_received' = midi_cc_received \cup moved
      /\ acted' = acted \cup {[number |-> n, by |-> "message"] : n \in moved}
      /\ UNCHANGED <<received_midi_cc_cleared, ignored>>
  BY <1>1 DEF ProcessVstMidiEvent
<1>3. block'.pc = "dispatch"
  BY DEF TypeInv, TypeOK, ProcessVstMidiEvent
<1> HIDE DEF dispatched, moved
<1>4. acted' = acted \cup {Message(n) : n \in moved}
  BY <1>2 DEF Message
<1>5. \A n \in midi_cc_received' : Message(n) \in acted'
  BY <1>1, <1>2, <1>4 DEF EventsInv, MarksAreOfBlock
<1>6. \A a \in acted' : a = Message(a.number) /\ a.number \in midi_cc_received' /\ a.by = "message"
  <2>1. \A a \in acted : a = Message(a.number) /\ a.number \in midi_cc_received
    BY <1>1 DEF EventsInv, MarksAreOfBlock, Message, Helper
  <2>2. \A n \in moved : Message(n).number = n /\ Message(n).by = "message"
    BY DEF Message
  <2> QED  BY <1>1, <1>2, <1>4, <2>1, <2>2 DEF EventsInv
<1>7. EventsInv'
  BY <1>1, <1>2, <1>5, <1>6 DEF EventsInv, MarksAreOfBlock
<1> QED  BY <1>2, <1>3, <1>7 DEF BlockInv

LEMMA FinishEventsBlock ==
  ASSUME TypeInv, BlockInv, FinishEvents
  PROVE  BlockInv'
<1>1. block.pc = "dispatch" /\ block'.pc = "events"
  BY DEF TypeInv, TypeOK, FinishEvents
<1>2. EventsInv'
  BY <1>1 DEF BlockInv, FinishEvents, midi_vars, seen_vars, EventsInv, MarksAreOfBlock
<1> QED  BY <1>1, <1>2 DEF BlockInv, FinishEvents, midi_vars

(* Marks that no event list of this block has cleared are dropped. *)
LEMMA PrepareProcessingBlock ==
  ASSUME BlockInv, PrepareProcessing
  PROVE  BlockInv'
<1>1. block'.pc = "messages"
  BY DEF PrepareProcessing
<1>2. CASE block.pc = "idle"
  BY <1>1, <1>2 DEF BlockInv, IdleInv, PrepareProcessing, MarksOfBlock, MessagesInv,
     MarksAreOfBlock
<1>3. CASE block.pc = "events"
  BY <1>1, <1>3 DEF BlockInv, EventsInv, PrepareProcessing, MarksOfBlock, MessagesInv,
     MarksAreOfBlock
<1> QED  BY <1>2, <1>3 DEF PrepareProcessing

LEMMA HandleExportedParamBlock ==
  ASSUME TypeInv, BlockInv, HandleExportedParam
  PROVE  BlockInv'
<1>1. block.pc = "messages" /\ block'.pc = "messages"
  BY PopFacts DEF HandleExportedParam
<1> QED
  BY <1>1 DEF BlockInv, MessagesInv, MarksAreOfBlock, HandleExportedParam, midi_vars, seen_vars

(* A helper acts if it is unmarked and is ignored if it is marked. *)
LEMMA HandleHelperBlock ==
  ASSUME TypeInv, BlockInv, HandleHelper
  PROVE  BlockInv'
<1> DEFINE number == Head(to_audio_messages)
<1>1. block.pc = "messages" /\ block'.pc = "messages" /\ MessagesInv
  BY PopFacts DEF HandleHelper, BlockInv
<1>2. \/ /\ number \in midi_cc_received
         /\ ignored' = ignored \cup {number}
         /\ acted' = acted
      \/ /\ number \notin midi_cc_received
         /\ acted' = acted \cup {Helper(number)}
         /\ ignored' = ignored
      \/ acted' = acted /\ ignored' = ignored
  BY DEF HandleHelper, Helper
<1>3. UNCHANGED <<running_status, midi_cc_received, received_midi_cc_cleared>>
  BY DEF HandleHelper, midi_vars
<1> HIDE DEF number
<1>4. Helper(number).number = number
  BY DEF Helper
<1>5. MessagesInv'
  BY <1>1, <1>2, <1>3, <1>4 DEF MessagesInv, MarksAreOfBlock
<1> QED  BY <1>1, <1>3, <1>5 DEF BlockInv

LEMMA FinalizeProcessingBlock ==
  ASSUME TypeInv, BlockInv, NEW count, FinalizeProcessing(count)
  PROVE  BlockInv'
<1>1. block'.pc = "idle"
  BY DEF TypeInv, TypeOK, FinalizeProcessing
<1>2. IdleInv'
  BY DEF BlockInv, MessagesInv, FinalizeProcessing, midi_vars, IdleInv
<1> QED  BY <1>1, <1>2 DEF BlockInv, FinalizeProcessing, midi_vars

LEMMA SetUpBlock ==
  ASSUME TypeInv, BlockInv, HostHabits = {}, SetUp
  PROVE  BlockInv'
<1>1. /\ running_status' = NoStatus
      /\ UNCHANGED <<midi_cc_received, received_midi_cc_cleared>>
  BY DEF SetUp, SetSampleRate, SetBlockSize, Suspend, Resume, CallHost
<1>2. CASE Suspend \/ Resume
  <2>1. block.pc = "idle" /\ block'.pc = "idle" /\ acted' = {} /\ ignored' = {}
    BY <1>2 DEF TypeInv, TypeOK, Suspend, Resume, BetweenBlocks
  <2> QED  BY <1>1, <2>1 DEF BlockInv, IdleInv, NoStatus
<1>3. CASE SetSampleRate \/ SetBlockSize
  <2>1. UNCHANGED <<block, acted, ignored>>
    BY <1>3 DEF SetSampleRate, SetBlockSize
  <2> QED
    BY <1>1, <2>1 DEF BlockInv, IdleInv, EventsInv, MessagesInv, MarksAreOfBlock, NoStatus
<1> QED  BY <1>2, <1>3 DEF SetUp

(* Steps that leave the event handling alone. *)
LEMMA QuietBlock ==
  ASSUME BlockInv, UNCHANGED <<midi_vars, block, acted, ignored>>
  PROVE  BlockInv'
  BY DEF BlockInv, IdleInv, EventsInv, MessagesInv, MarksAreOfBlock, midi_vars

LEMMA NextIInv ==
  ASSUME HostHabits = {}
  PROVE  IInv /\ [Next]_vars => IInv'
<1> SUFFICES ASSUME IInv, [Next]_vars PROVE BlockInv'
  BY NextTypes DEF IInv
<1>1. TypeInv /\ BlockInv
  BY DEF IInv
<1>2. CASE GiveEvents
  BY <1>1, <1>2, StartEventsBlock, ProcessVstMidiEventBlock, FinishEventsBlock DEF GiveEvents, ReadEvents
<1>3. CASE GenerateSamples
  BY <1>1, <1>3, PrepareProcessingBlock, HandleExportedParamBlock, HandleHelperBlock,
     FinalizeProcessingBlock DEF GenerateSamples
<1>4. CASE SetUp
  BY <1>1, <1>4, SetUpBlock
<1>5. CASE Idle \/ \E index \in Parameters : SetParameter(index)
  BY <1>1, <1>5, QuietBlock DEF Idle, SetParameter, seen_vars
<1>6. CASE UNCHANGED vars
  BY <1>1, <1>6, QuietBlock DEF vars, seen_vars
<1> QED  BY <1>2, <1>3, <1>4, <1>5, <1>6 DEF Next

LEMMA Invariance ==
  ASSUME HostHabits = {}
  PROVE  Spec => []IInv
<1>1. Init => IInv
  BY InitTypes, InitBlock DEF IInv
<1>2. IInv /\ [Next]_vars => IInv'
  BY NextIInv
<1> QED  BY <1>1, <1>2, PTL DEF Spec

-----------------------------------------------------------------------------
(***************************************************************************)
(* With a host that gives a block's events once and then asks for the      *)
(* block, no controller acts both by its MIDI message and by its helper    *)
(* parameter in one block (OneSourcePerBlock), whatever messages and       *)
(* parameters it sends.                                                    *)
(***************************************************************************)
THEOREM OneSource ==
  ASSUME HostHabits = {}
  PROVE  Spec => []OneSourcePerBlock
<1>1. IInv => OneSourcePerBlock
  <2> SUFFICES ASSUME IInv, NEW a \in acted, NEW b \in acted, a.number = b.number
               PROVE  a.by = b.by
    BY DEF OneSourcePerBlock
  <2>1. block.pc \in Places /\ BlockInv
    BY DEF IInv, TypeInv, TypeOK, Places
  <2>2. block.pc # "idle"
    BY <2>1 DEF BlockInv, IdleInv
  <2>3. MarksAreOfBlock
    BY <2>1, <2>2 DEF BlockInv, EventsInv, MessagesInv, Places
  <2> QED  BY <2>3 DEF MarksAreOfBlock, Message, Helper
<1> QED  BY <1>1, Invariance, PTL

(***************************************************************************)
(* With such a host, a helper parameter is ignored only if a message of    *)
(* the same block has moved its controller (HelpersAreNotLost).            *)
(***************************************************************************)
THEOREM HelpersKept ==
  ASSUME HostHabits = {}
  PROVE  Spec => []HelpersAreNotLost
<1>1. IInv => HelpersAreNotLost
  <2> SUFFICES ASSUME IInv, NEW number \in ignored
               PROVE  Message(number) \in acted
    BY DEF HelpersAreNotLost, Message
  <2>1. block.pc \in Places /\ BlockInv
    BY DEF IInv, TypeInv, TypeOK, Places
  <2>2. block.pc = "messages"
    BY <2>1 DEF BlockInv, IdleInv, EventsInv, Places
  <2> QED  BY <2>1, <2>2 DEF BlockInv, MessagesInv, MarksAreOfBlock
<1> QED  BY <1>1, Invariance, PTL

-----------------------------------------------------------------------------
(* The buffer of out events. *)

Fills == [buffer : [1..BufferSize -> Nat], next : 1..BufferSize, sent : Seq(Nat)]

\* the first k events were sent or are in the buffer, in order
Holds(b, events, k) ==
  /\ b \in Fills
  /\ Len(b.sent) + b.next - 1 = k
  /\ \A i \in 1..Len(b.sent) : b.sent[i] = events[i]
  /\ \A i \in 1..(b.next - 1) : b.buffer[i] = events[Len(b.sent) + i]

(* What is sent of a buffer is its first part. *)
LEMMA FirstPart ==
  ASSUME NEW S, NEW n \in Nat, NEW f \in [1..n -> S], NEW m \in 0..n
  PROVE  /\ SubSeq(f, 1, m) \in Seq(S) /\ Len(SubSeq(f, 1, m)) = m
         /\ \A i \in 1..m : SubSeq(f, 1, m)[i] = f[i]
<1>1. m \in Int /\ 1 \in Int /\ \A i \in 1..m : f[i] \in S
  OBVIOUS
<1>2. /\ SubSeq(f, 1, m) \in Seq(S)
      /\ Len(SubSeq(f, 1, m)) = IF 1 <= m THEN m - 1 + 1 ELSE 0
      /\ \A i \in 1..(m - 1 + 1) : SubSeq(f, 1, m)[i] = f[1 + i - 1]
  BY <1>1, SubSeqProperties
<1>3. m - 1 + 1 = m /\ (~(1 <= m) => m = 0) /\ \A i \in 1..m : 1 + i - 1 = i
  BY <1>1
<1> QED BY <1>2, <1>3

(* An event goes to its place, also if the buffer is sent for it. *)
LEMMA BufferedHolds ==
  ASSUME NEW b \in Fills, NEW event \in Nat
  PROVE  /\ Buffered(b, event) \in Fills
         /\ \A events : \A k \in Nat \ {0} :
              Holds(b, events, k - 1) /\ event = events[k] => Holds(Buffered(b, event), events, k)
<1> DEFINE c == [b.buffer EXCEPT ![b.next] = event]
           full == SubSeq(c, 1, b.next)
<1>1. /\ BufferSize \in Nat \ {0} /\ b.next \in 1..BufferSize /\ b.sent \in Seq(Nat)
      /\ b.buffer \in [1..BufferSize -> Nat] /\ Len(b.sent) \in Nat
  BY BoundsAssumption, LenProperties DEF Fills
<1>2. /\ c \in [1..BufferSize -> Nat] /\ c[b.next] = event
      /\ \A i \in 1..BufferSize : i # b.next => c[i] = b.buffer[i]
  BY <1>1
<1> HIDE DEF c
<1>3. CASE b.next = BufferSize
  <2> DEFINE d == b.sent \o full
  <2>1. Buffered(b, event) = [buffer |-> c, next |-> 1, sent |-> d]
    BY <1>3 DEF Buffered, c
  <2>2. /\ full \in Seq(Nat) /\ Len(full) = BufferSize
        /\ \A i \in 1..BufferSize : full[i] = c[i]
    BY <1>1, <1>2, <1>3, FirstPart
  <2> HIDE DEF full
  <2>3. d \in Seq(Nat) /\ Len(d) = Len(b.sent) + BufferSize
    BY <1>1, <2>2, ConcatProperties, LenProperties
  <2>4. ASSUME NEW i \in 1..Len(d)
        PROVE  d[i] = IF i <= Len(b.sent) THEN b.sent[i] ELSE full[i - Len(b.sent)]
    BY <1>1, <2>2, <2>3, ConcatProperties
  <2> HIDE DEF d
  <2>5. Buffered(b, event) \in Fills
    BY <1>1, <1>2, <2>1, <2>3 DEF Fills
  <2>6. ASSUME NEW events, NEW k \in Nat \ {0}, Holds(b, events, k - 1), event = events[k]
        PROVE  Holds(Buffered(b, event), events, k)
    <3>1. /\ Len(b.sent) + BufferSize = k
          /\ \A i \in 1..Len(b.sent) : b.sent[i] = events[i]
          /\ \A i \in 1..(BufferSize - 1) : b.buffer[i] = events[Len(b.sent) + i]
      BY <1>1, <1>3, <2>6 DEF Holds
    <3>2. ASSUME NEW i \in 1..Len(d) PROVE d[i] = events[i]
      <4>1. CASE i <= Len(b.sent)
        BY <1>1, <2>4, <3>1, <4>1
      <4>2. CASE ~(i <= Len(b.sent))
        <5> DEFINE j == i - Len(b.sent)
        <5>1. j \in 1..BufferSize /\ i = Len(b.sent) + j
          BY <1>1, <2>3, <4>2
        <5>2. d[i] = c[j]
          BY <2>2, <2>4, <4>2, <5>1
        <5> HIDE DEF j
        <5>3. CASE j = BufferSize
          BY <1>2, <1>3, <2>6, <3>1, <5>1, <5>2, <5>3
        <5>4. CASE j # BufferSize
          <6>1. j \in 1..(BufferSize - 1)
            BY <1>1, <5>1, <5>4
          <6> QED BY <1>2, <1>3, <3>1, <5>1, <5>2, <5>4, <6>1
        <5> QED BY <5>3, <5>4
      <4> QED BY <4>1, <4>2
    <3> QED BY <1>1, <2>1, <2>3, <2>5, <3>1, <3>2 DEF Holds
  <2> QED BY <2>5, <2>6
<1>4. CASE b.next # BufferSize
  <2>1. Buffered(b, event) = [buffer |-> c, next |-> b.next + 1, sent |-> b.sent]
    BY <1>4 DEF Buffered, c
  <2>2. b.next + 1 \in 1..BufferSize
    BY <1>1, <1>4
  <2>3. Buffered(b, event) \in Fills
    BY <1>1, <1>2, <2>1, <2>2 DEF Fills
  <2>4. ASSUME NEW events, NEW k \in Nat \ {0}, Holds(b, events, k - 1), event = events[k]
        PROVE  Holds(Buffered(b, event), events, k)
    <3>1. /\ Len(b.sent) + b.next - 1 = k - 1
          /\ \A i \in 1..Len(b.sent) : b.sent[i] = events[i]
          /\ \A i \in 1..(b.next - 1) : b.buffer[i] = events[Len(b.sent) + i]
      BY <2>4 DEF Holds
    <3>3. Len(b.sent) + b.next = k /\ b.next + 1 - 1 = b.next /\ Len(b.sent) + (b.next + 1) - 1 = k
      <4>1. Len(b.sent) \in Int /\ b.next \in Int /\ k \in Int
        BY <1>1
      <4>2. Len(b.sent) + b.next - 1 = k - 1
        BY <3>1
      <4> QED BY <4>1, <4>2
    <3>2. ASSUME NEW i \in 1..b.next PROVE c[i] = events[Len(b.sent) + i]
      <4>1. CASE i = b.next
        BY <1>1, <1>2, <2>4, <3>3, <4>1
      <4>2. CASE i # b.next
        <5>1. i \in 1..(b.next - 1) /\ i \in 1..BufferSize
          BY <1>1, <4>2
        <5> QED BY <1>2, <3>1, <4>2, <5>1
      <4> QED BY <4>1, <4>2
    <3> DEFINE r == Buffered(b, event)
    <3>4. r.buffer = c /\ r.next = b.next + 1 /\ r.sent = b.sent /\ r \in Fills
      BY <2>1, <2>3
    <3>5. r.next - 1 = b.next /\ Len(r.sent) + r.next - 1 = k
      BY <1>1, <3>3, <3>4
    <3> HIDE DEF r
    <3>6. Holds(r, events, k)
      BY <3>1, <3>2, <3>4, <3>5 DEF Holds
    <3> QED BY <3>6 DEF r
  <2> QED BY <2>3, <2>4
<1> QED BY <1>3, <1>4

(* The loop over the out events sends each of them once. *)
LEMMA SendsAll ==
  ASSUME NEW events \in Seq(Nat)
  PROVE  SendOutEvents(events) = events
<1> DEFINE N == Len(events)
           body(f) == [k \in 0..N |-> IF k = 0 THEN EmptyBuffer ELSE Buffered(f[k - 1], events[k])]
           after == CHOOSE f : f = body(f)
<1>1. N \in Nat /\ \A k \in 1..N : events[k] \in Nat
  BY LenProperties
<1>2. EmptyBuffer \in Fills /\ Holds(EmptyBuffer, events, 0)
  <2>1. BufferSize \in Nat \ {0}
    BY BoundsAssumption
  <2>2. EmptyBuffer \in Fills
    BY <2>1 DEF EmptyBuffer, Fills
  <2> QED BY <2>2 DEF EmptyBuffer, Holds
<1>3. PICK steps \in [1..N -> [Fills -> Fills]] :
        \A k \in 1..N, b \in Fills : steps[k][b] = Buffered(b, events[k])
  <2> DEFINE st == [k \in 1..N |-> [b \in Fills |-> Buffered(b, events[k])]]
  <2> HIDE DEF N
  <2>1. \A k \in 1..N : [b \in Fills |-> Buffered(b, events[k])] \in [Fills -> Fills]
    BY <1>1, BufferedHolds
  <2>2. st \in [1..N -> [Fills -> Fills]]
    BY <2>1
  <2>3. \A k \in 1..N, b \in Fills : st[k][b] = Buffered(b, events[k])
    OBVIOUS
  <2> HIDE DEF st
  <2> QED BY <2>2, <2>3
<1>4. PICK g \in [0..N -> Fills] : Follows(g, N, EmptyBuffer, steps)
  <2> HIDE DEF N
  <2> QED BY <1>1, <1>2, StepwiseRecursion
<1>5. /\ g[0] = EmptyBuffer
      /\ \A k \in 1..N : g[k - 1] \in Fills /\ g[k] = Buffered(g[k - 1], events[k])
  <2>1. g[0] = EmptyBuffer /\ \A k \in 1..N : g[k] = steps[k][g[k - 1]]
    BY <1>4 DEF Follows
  <2>2. ASSUME NEW k \in 1..N PROVE g[k - 1] \in Fills
    <3>1. k - 1 \in 0..N
      BY <1>1
    <3> HIDE DEF N
    <3> QED BY <3>1
  <2> HIDE DEF N
  <2> QED BY <1>3, <2>1, <2>2
<1>6. g = body(g)
  <2>1. \A k \in 0..N : g[k] = IF k = 0 THEN EmptyBuffer ELSE Buffered(g[k - 1], events[k])
    BY <1>1, <1>5
  <2> HIDE DEF N
  <2> QED BY <2>1
<1>7. after = body(after)
  <2> HIDE DEF N
  <2> QED BY <1>6
<1>8. /\ after[0] = EmptyBuffer
      /\ \A k \in 1..N : after[k] = Buffered(after[k - 1], events[k])
  <2> HIDE DEF after
  <2>1. \A k \in 0..N : after[k] = IF k = 0 THEN EmptyBuffer ELSE Buffered(after[k - 1], events[k])
    BY <1>7
  <2> QED BY <1>1, <2>1
<1>9. \A k \in 0..N : Holds(after[k], events, k)
  <2> DEFINE W == {k \in 0..N : Holds(after[k], events, k)}
  <2> HIDE DEF after
  <2>1. 0 \in W
    BY <1>1, <1>2, <1>8
  <2>2. ASSUME NEW k \in 1..N, k - 1 \in W PROVE k \in W
    <3>1. k \in Nat \ {0} /\ events[k] \in Nat /\ Holds(after[k - 1], events, k - 1)
      BY <1>1, <2>2
    <3>2. after[k - 1] \in Fills
      BY <3>1 DEF Holds
    <3>3. Holds(Buffered(after[k - 1], events[k]), events, k)
      BY <3>1, <3>2, BufferedHolds
    <3> QED BY <1>8, <3>3
  <2>3. \A k \in 0..N : k \in W
    <3> HIDE DEF W, N
    <3> QED BY <1>1, <2>1, <2>2, InductionUpTo
  <2> QED BY <2>3
<1> DEFINE b == after[N]
           rest == SubSeq(b.buffer, 1, b.next - 1)
<1>10. SendOutEvents(events) = b.sent \o rest
  BY DEF SendOutEvents
<1>11. Holds(b, events, N)
  BY <1>1, <1>9
<1> HIDE DEF after, b
<1>12. /\ b.sent \in Seq(Nat) /\ Len(b.sent) \in Nat /\ b.next \in 1..BufferSize
       /\ b.buffer \in [1..BufferSize -> Nat] /\ BufferSize \in Nat \ {0}
       /\ Len(b.sent) + b.next - 1 = N
       /\ \A i \in 1..Len(b.sent) : b.sent[i] = events[i]
       /\ \A i \in 1..(b.next - 1) : b.buffer[i] = events[Len(b.sent) + i]
  BY <1>11, BoundsAssumption, LenProperties DEF Holds, Fills
<1>13. /\ rest \in Seq(Nat) /\ Len(rest) = b.next - 1
       /\ \A i \in 1..(b.next - 1) : rest[i] = b.buffer[i]
  <2>1. b.next - 1 \in 0..BufferSize
    BY <1>12
  <2> QED BY <1>12, <2>1, FirstPart
<1> DEFINE all == b.sent \o rest
<1> HIDE DEF rest
<1>14. /\ all \in Seq(Nat) /\ Len(all) = N
       /\ \A i \in 1..N : all[i] = IF i <= Len(b.sent) THEN b.sent[i] ELSE rest[i - Len(b.sent)]
  <2>1. Len(b.sent) + Len(rest) = N
    <3>1. Len(b.sent) \in Int /\ b.next \in Int /\ Len(b.sent) + b.next - 1 = N
      BY <1>12
    <3> QED BY <1>13, <3>1
  <2>2. /\ all \in Seq(Nat) /\ Len(all) = Len(b.sent) + Len(rest)
        /\ \A i \in 1..(Len(b.sent) + Len(rest)) :
             all[i] = IF i <= Len(b.sent) THEN b.sent[i] ELSE rest[i - Len(b.sent)]
    <3>1. b.sent \in Seq(Nat) /\ rest \in Seq(Nat)
      BY <1>12, <1>13
    <3> QED BY <3>1, ConcatProperties
  <2> QED BY <2>1, <2>2
<1> HIDE DEF all
<1>15. ASSUME NEW i \in 1..N PROVE all[i] = events[i]
  <2>1. CASE i <= Len(b.sent)
    BY <1>12, <1>14, <2>1
  <2>2. CASE ~(i <= Len(b.sent))
    <3> DEFINE j == i - Len(b.sent)
    <3>1. j \in 1..(b.next - 1) /\ i = Len(b.sent) + j
      <4>1. Len(b.sent) \in Int /\ b.next \in Int /\ Len(b.sent) + b.next - 1 = N /\ N \in Nat
        BY <1>1, <1>12
      <4> HIDE DEF N
      <4> QED BY <2>2, <4>1
    <3>2. all[i] = rest[j]
      BY <1>14, <2>2
    <3> HIDE DEF j
    <3> QED BY <1>12, <1>13, <3>1, <3>2
  <2> QED BY <2>1, <2>2
<1>16. all = events
  BY <1>14, <1>15, SeqEqual
<1> QED BY <1>10, <1>16 DEF all

(***************************************************************************)
(* At the end of a block the host gets every out event that Proxy has made *)
(* since the last block or since it reset, once and in order               *)
(* (EveryEventIsSent), for every number of out events and every size of    *)
(* the buffer.  Between blocks Proxy's list holds just those events: only  *)
(* a reset or a change of the zone clears it without sending it, and what  *)
(* these two make stays in it until the next block.                        *)
(***************************************************************************)
THEOREM EveryEventSent == Spec => EveryEventIsSent
<1>1. ASSUME TypeInv, NEW count \in BlockSizes, FinalizeProcessing(count)
      PROVE  sent' = Numbered(made)
  <2>1. out_events \in Seq(Nat) /\ out_events = Numbered(made)
    BY <1>1 DEF TypeInv, TypeOK, AllAreThere
  <2>2. SendOutEvents(out_events) = out_events
    BY <2>1, SendsAll
  <2> QED BY <1>1, <2>1, <2>2 DEF FinalizeProcessing
<1>2. TypeInv /\ [Next]_vars
        => [\A count \in BlockSizes : FinalizeProcessing(count) => sent' = Numbered(made)]_vars
  BY <1>1
<1>3. Init => TypeInv
  BY InitTypes
<1>4. TypeInv /\ [Next]_vars => TypeInv'
  BY NextTypes
<1> QED BY <1>2, <1>3, <1>4, PTL DEF Spec, EveryEventIsSent
=============================================================================
