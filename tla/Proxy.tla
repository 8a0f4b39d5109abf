------------------------------- MODULE Proxy --------------------------------
(***************************************************************************)
(* The voice allocation core of src/src/proxy.cpp: how Proxy assigns MPE   *)
(* member channels to notes, steals voices, defers Note Offs while the     *)
(* sustain pedal is down, and stops everything when it is resumed or when  *)
(* the zone settings change.                                               *)
(*                                                                         *)
(* note_stack, note_stack_below and note_stack_above are sequences, newest *)
(* note first: module NoteStack checks that the linked lists of the code   *)
(* are that, used as Proxy uses them.  deferred_note_offs is the linked    *)
(* list itself, because Proxy does not keep to that use with it.           *)
(*                                                                         *)
(* The host runs blocks: BeginProcessing, some MIDI messages, Deliver (the *)
(* plugin hands out_events to the host).  The receiver and the player's    *)
(* keys are the environment's state.                                       *)
(***************************************************************************)
EXTENDS NoteList

CONSTANTS
  ZoneSettings,     \* the zone configurations the user may ask for
  ExcessModes,      \* the excess note handling modes the user may ask for
  SustainSettings,  \* the sustain pedal handling toggles the user may ask for
  TimeOffsets,      \* time offsets of pedal messages within a block
  MaxEvents,        \* bound: no MIDI message is sent past this many events
  MaxDiscarded      \* bound: no reset clears events past this many tones discarded

MIDI_CHANNELS == 0..15
MPE_MEMBER_CHANNELS_MAX == 15
INVALID_CHANNEL == 255

ExcessModeSet == {"ignore", "lowest", "highest", "oldest", "newest"}

ZoneSettingSet == [channel_count : 1..MPE_MEMBER_CHANNELS_MAX,
                   manager_channel : {0, 15},
                   offset_below_anchor : -48..48,
                   offset_above_anchor : -48..48,
                   anchor : 0..127]

ASSUME ZoneAssumption == ZoneSettings \subseteq ZoneSettingSet /\ ZoneSettings # {}
ASSUME SettingsAssumption == /\ ExcessModes \subseteq ExcessModeSet /\ ExcessModes # {}
                             /\ SustainSettings \subseteq {"on", "off"}
                             /\ SustainSettings # {}
ASSUME BoundAssumption == MaxEvents \in Nat /\ MaxDiscarded \in Nat

VARIABLES
  params,               \* the settings, as the last processed messages left them
  zone,                 \* the zone configuration in force
  note_stack, note_stack_below, note_stack_above,
  channels_by_notes,    \* the channel last given to each note
  available_channels,   \* FIFO of unused member channels
  deferred_note_offs,
  is_sustain_pedal_on,
  previous_pedal_message,
  is_suspended, had_reset,
  out_events,
  in_block, sounding, keys,  \* host, receiver and player
  discarded                  \* history: tones whose pending events a reset cleared

note_vars == <<note_stack, note_stack_below, note_stack_above, channels_by_notes,
               available_channels, deferred_note_offs, out_events>>
lifecycle_vars == <<zone, is_suspended, had_reset, in_block, sounding, discarded>>
vars == <<params, note_vars, is_sustain_pedal_on, previous_pedal_message,
          lifecycle_vars, keys>>

-----------------------------------------------------------------------------
(* Zones and channels. *)

\* first_channel, first_channel + channel_increment, ...
MemberChannels(z) ==
  [i \in 1..z.channel_count |-> IF z.manager_channel = 0 THEN i ELSE 15 - i]

IsAboveAnchor(z, n) == n >= z.anchor

\* mutant of Transpose: not clamped to the MIDI notes
TransposeUnclamped(z, n) ==
  n + (IF IsAboveAnchor(z, n) THEN z.offset_above_anchor ELSE z.offset_below_anchor)

Transpose(z, n) ==
  LET moved == n + (IF IsAboveAnchor(z, n) THEN z.offset_above_anchor
                                           ELSE z.offset_below_anchor)
  IN  IF moved < 0 THEN 0 ELSE IF moved > 127 THEN 127 ELSE moved

\* mutant of NoteEvent: transposes by the settings, not by the zone in force
NoteEventBySettings(type, c, n) ==
  [type |-> type, channel |-> c, pitch |-> Transpose(params.zone, n)]

NoteEvent(type, c, n) == [type |-> type, channel |-> c, pitch |-> Transpose(zone, n)]

-----------------------------------------------------------------------------
(***************************************************************************)
(* The handlers compose push_note_on and push_note_off, so these work on   *)
(* the note state as a record.                                             *)
(***************************************************************************)
Voices == [stack |-> note_stack, below |-> note_stack_below,
           above |-> note_stack_above, channel |-> channels_by_notes,
           available |-> available_channels, deferred |-> deferred_note_offs,
           events |-> out_events]

Become(v) == /\ note_stack' = v.stack
             /\ note_stack_below' = v.below
             /\ note_stack_above' = v.above
             /\ channels_by_notes' = v.channel
             /\ available_channels' = v.available
             /\ deferred_note_offs' = v.deferred
             /\ out_events' = v.events

PushNoteOn(v, c, n) ==
  [v EXCEPT !.stack = <<n>> \o @,
            !.channel = [@ EXCEPT ![n] = c],
            !.above = IF IsAboveAnchor(zone, n) THEN <<n>> \o @ ELSE @,
            !.below = IF IsAboveAnchor(zone, n) THEN @ ELSE <<n>> \o @,
            !.events = Append(@, NoteEvent("on", c, n))]
PushNoteOffOneHalf(v, c, n) ==
  [v EXCEPT !.events = Append(@, NoteEvent("off", c, n)),
            !.stack = RemoveFirst(@, n), !.above = RemoveFirst(@, n),
            !.deferred = Unlink(@, n)]

PushNoteOffKeepsDeferral(v, c, n) ==
  [v EXCEPT !.events = Append(@, NoteEvent("off", c, n)),
            !.stack = RemoveFirst(@, n),
            !.above = RemoveFirst(@, n), !.below = RemoveFirst(@, n)]

PushNoteOff(v, c, n) ==
  [v EXCEPT !.events = Append(@, NoteEvent("off", c, n)),
            !.stack = RemoveFirst(@, n),
            !.above = RemoveFirst(@, n),
            !.below = RemoveFirst(@, n),
            !.deferred = Unlink(@, n)]

\* Queue::push drops the item when the queue is full
Enqueue(queue, c) ==
  IF Len(queue) < MPE_MEMBER_CHANNELS_MAX THEN Append(queue, c) ELSE queue

\* mutant of HandleNoteOff: the channel is not made available again
HandleNoteOffLosesChannel(v, n) == PushNoteOff(v, v.channel[n], n)

HandleNoteOff(v, n) ==
  LET off == PushNoteOff(v, v.channel[n], n)
  IN  [off EXCEPT !.available = Enqueue(@, v.channel[n])]
(***************************************************************************)
(* Pops deferred notes until none is left.  Every pop clears the popped    *)
(* note's next pointer, so a damaged list ends too.                        *)
(***************************************************************************)
ProcessDeferredNoteOffs(v) ==
  LET most == Cardinality(Note) + 1
      released[k \in 0..most] ==
        IF k = 0 THEN v
        ELSE LET w == released[k - 1]
             IN  IF w.deferred.head = INVALID_NOTE THEN w
                 ELSE HandleNoteOff([w EXCEPT !.deferred = BasicPop(@)],
                                    w.deferred.head)
  IN  released[most]

\* mutants of StopAllNotes: one note is missed, or a list is not cleared
StopAllNotesButOne ==
  /\ out_events' = [i \in 1..(Len(note_stack) - 1) |->
                      NoteEvent("off", channels_by_notes[note_stack[i]], note_stack[i])]
  /\ note_stack' = <<>> /\ note_stack_below' = <<>> /\ note_stack_above' = <<>>
  /\ deferred_note_offs' = EmptyList
  /\ is_sustain_pedal_on' = FALSE

StopAllNotesKeepsDeferral ==
  /\ out_events' = [i \in DOMAIN note_stack |->
                      NoteEvent("off", channels_by_notes[note_stack[i]], note_stack[i])]
  /\ note_stack' = <<>> /\ note_stack_below' = <<>> /\ note_stack_above' = <<>>
  /\ is_sustain_pedal_on' = FALSE
  /\ UNCHANGED deferred_note_offs

StopAllNotes ==
  /\ out_events' = [i \in DOMAIN note_stack |->
                      NoteEvent("off", channels_by_notes[note_stack[i]], note_stack[i])]
  /\ note_stack' = <<>> /\ note_stack_below' = <<>> /\ note_stack_above' = <<>>
  /\ deferred_note_offs' = EmptyList
  /\ is_sustain_pedal_on' = FALSE

(***************************************************************************)
(* The receiver: a tone sounds after some events if the last event of that *)
(* channel and pitch is a Note On, or if it sounded and has no event.      *)
(***************************************************************************)
Tone(event) == <<event.channel, event.pitch>>

HearAll(events) ==
  {tone \in sounding \cup {Tone(events[i]) : i \in DOMAIN events} :
     \/ tone \in sounding /\ \A i \in DOMAIN events : Tone(events[i]) # tone
     \/ \E i \in DOMAIN events :
          /\ Tone(events[i]) = tone /\ events[i].type = "on"
          /\ \A j \in DOMAIN events : j > i => Tone(events[j]) # tone}

\* events that the receiver has yet to get
Undelivered == IF in_block \/ had_reset THEN out_events ELSE <<>>

(***************************************************************************)
(* What reset() and update_zone_config() do alike: forget the events of    *)
(* before, stop all notes, and start afresh with the channels of zone z.   *)
(* The receiver never gets the events that were still to be delivered:     *)
(* "discarded" is the tones that they would have started or ended.         *)
(***************************************************************************)
ApplyZone(z) ==
  /\ Undelivered # <<>> => Cardinality(discarded) < MaxDiscarded
  /\ StopAllNotes
  /\ zone' = z
  /\ available_channels' = MemberChannels(z)
  /\ discarded' = discarded \cup (HearAll(Undelivered) \ sounding)
                           \cup (sounding \ HearAll(Undelivered))
  /\ UNCHANGED <<channels_by_notes, previous_pedal_message, sounding, keys>>

-----------------------------------------------------------------------------
ParamSettings == [zone : ZoneSettings, excess : ExcessModes, sustain : SustainSettings]

Init ==
  /\ params \in ParamSettings
  /\ zone = params.zone
  /\ note_stack = <<>> /\ note_stack_below = <<>> /\ note_stack_above = <<>>
  /\ channels_by_notes = [n \in Note |-> INVALID_CHANNEL]
  /\ available_channels = MemberChannels(zone)
  /\ deferred_note_offs = EmptyList
  /\ is_sustain_pedal_on = FALSE
  /\ previous_pedal_message = <<>>
  /\ is_suspended = FALSE /\ had_reset = FALSE
  /\ out_events = <<>>
  /\ in_block = FALSE /\ sounding = {} /\ keys = {} /\ discarded = {}

-----------------------------------------------------------------------------
(* Handlers of MIDI messages. *)

Held == ToSet(note_stack)

StealNote ==
  CASE params.excess = "lowest" -> Min(Held)
    [] params.excess = "highest" -> Max(Held)
    [] params.excess = "oldest" -> Last(note_stack)
    [] params.excess = "newest" -> Head(note_stack)

\* mutant of Retrigger: the Note On before the Note Off
RetriggerOnFirst(n) ==
  /\ n \in Held /\ params.excess # "ignore"
  /\ LET c == channels_by_notes[n]
     IN  Become(PushNoteOff(PushNoteOn(Voices, c, n), c, n))

\* the note sounds already: its channel gets a Note Off and a new Note On
Retrigger(n) ==
  /\ n \in Held /\ params.excess # "ignore"
  /\ LET c == channels_by_notes[n]
     IN  Become(PushNoteOn(PushNoteOff(Voices, c, n), c, n))

\* mutant of Allocate: the channel stays in the queue
AllocateWithoutPop(n) ==
  /\ n \notin Held /\ available_channels # <<>>
  /\ Become(PushNoteOn(Voices, Head(available_channels), n))

Allocate(n) ==
  /\ n \notin Held /\ available_channels # <<>>
  /\ Become(PushNoteOn([Voices EXCEPT !.available = Tail(@)],
                       Head(available_channels), n))
Steal(n) ==
  /\ n \notin Held /\ available_channels = <<>> /\ note_stack # <<>>
  /\ params.excess # "ignore"
  /\ LET c == channels_by_notes[StealNote]
     IN  Become(PushNoteOn(PushNoteOff(Voices, c, StealNote), c, n))

NoteOnRefused(n) ==
  \/ n \in Held /\ params.excess = "ignore"
  \/ /\ n \notin Held /\ available_channels = <<>>
     /\ note_stack = <<>> \/ params.excess = "ignore"

NoteOn(n) ==
  /\ in_block /\ Len(out_events) < MaxEvents
  /\ \/ ~is_suspended /\ (Retrigger(n) \/ Allocate(n) \/ Steal(n))
     \/ (is_suspended \/ NoteOnRefused(n)) /\ UNCHANGED note_vars
  /\ keys' = keys \cup {n}
  /\ UNCHANGED <<params, is_sustain_pedal_on, previous_pedal_message, lifecycle_vars>>

DefersNoteOffs == params.sustain = "on" /\ is_sustain_pedal_on

\* mutant of Defer: the Note Off is dropped
DeferForgets(n) == n \in Held /\ DefersNoteOffs /\ UNCHANGED note_vars

Defer(n) ==
  /\ n \in Held /\ DefersNoteOffs
  /\ Become([Voices EXCEPT !.deferred = BasicPush(@, n)])

Release(n) ==
  /\ n \in Held /\ ~DefersNoteOffs
  /\ Become(HandleNoteOff(Voices, n))

NoteOff(n) ==
  /\ in_block
  /\ \/ ~is_suspended /\ (Defer(n) \/ Release(n))
     \/ (is_suspended \/ n \notin Held) /\ UNCHANGED note_vars
  /\ keys' = keys \ {n}
  /\ UNCHANGED <<params, is_sustain_pedal_on, previous_pedal_message, lifecycle_vars>>

(***************************************************************************)
(* control_change for the sustain pedal.  A message equal in value and     *)
(* time offset to the previous one is taken for a clone and dropped.       *)
(***************************************************************************)
SustainPedal(is_down, time_offset) ==
  /\ in_block /\ ~is_suspended
  /\ previous_pedal_message # <<time_offset, is_down>>
  /\ previous_pedal_message' = <<time_offset, is_down>>
  /\ \/ params.sustain = "off" /\ UNCHANGED <<note_vars, is_sustain_pedal_on>>
     \/ /\ params.sustain = "on"
        /\ is_sustain_pedal_on' = is_down
        /\ IF is_down THEN UNCHANGED note_vars
                      ELSE Become(ProcessDeferredNoteOffs(Voices))
  /\ UNCHANGED <<params, lifecycle_vars, keys>>

-----------------------------------------------------------------------------
(* Settings, blocks and lifecycle. *)

\* whatever the queued messages of the other thread set the parameters to
ProcessMessages(p) ==
  /\ params' = p
  /\ UNCHANGED <<note_vars, is_sustain_pedal_on, previous_pedal_message,
                 lifecycle_vars, keys>>

BeginProcessing(p) ==
  /\ ~in_block /\ in_block' = TRUE
  /\ params' = p
  /\ \/ /\ is_suspended
        /\ UNCHANGED <<note_vars, is_sustain_pedal_on, previous_pedal_message, zone,
                       had_reset, sounding, discarded, keys>>
     \/ /\ ~is_suspended /\ p.zone # zone
        /\ ApplyZone(p.zone)
        /\ had_reset' = FALSE
     \/ /\ ~is_suspended /\ p.zone = zone
        /\ had_reset' = FALSE
        /\ out_events' = IF had_reset THEN out_events ELSE <<>>
        /\ UNCHANGED <<note_stack, note_stack_below, note_stack_above,
                       channels_by_notes, available_channels, deferred_note_offs,
                       is_sustain_pedal_on, previous_pedal_message, zone,
                       sounding, discarded, keys>>
  /\ UNCHANGED is_suspended

\* the host suspends and resumes when it likes, also twice in a row
Suspend ==
  /\ is_suspended' = TRUE
  /\ UNCHANGED <<params, note_vars, is_sustain_pedal_on, previous_pedal_message,
                 zone, had_reset, in_block, sounding, discarded, keys>>

\* reset() forgets the events of a block that was begun and not delivered
Resume ==
  /\ is_suspended' = FALSE
  /\ ApplyZone(params.zone)
  /\ had_reset' = TRUE /\ in_block' = FALSE
  /\ UNCHANGED params

\* the plugin hands the events of the block to the host
Deliver ==
  /\ in_block /\ in_block' = FALSE
  /\ sounding' = HearAll(out_events)
  /\ discarded' = discarded \ {Tone(out_events[i]) : i \in DOMAIN out_events}
  /\ UNCHANGED <<params, note_vars, is_sustain_pedal_on, previous_pedal_message,
                 zone, is_suspended, had_reset, keys>>

Next ==
  \/ \E n \in Note : NoteOn(n) \/ NoteOff(n)
  \/ \E is_down \in BOOLEAN, t \in TimeOffsets : SustainPedal(is_down, t)
  \/ \E p \in ParamSettings : ProcessMessages(p) \/ BeginProcessing(p)
  \/ Suspend \/ Resume \/ Deliver

Spec == Init /\ [][Next]_vars

-----------------------------------------------------------------------------
(* Properties. *)

Events == [type : {"on", "off"}, channel : MIDI_CHANNELS \cup {INVALID_CHANNEL},
           pitch : 0..127]
ToneSet == (MIDI_CHANNELS \cup {INVALID_CHANNEL}) \X (0..127)

(* Every variable keeps its type. *)
TypeOK ==
  /\ params \in ParamSettings /\ zone \in ZoneSettings
  /\ note_stack \in Seq(Note)
  /\ note_stack_below \in Seq(Note) /\ note_stack_above \in Seq(Note)
  /\ channels_by_notes \in [Note -> MIDI_CHANNELS \cup {INVALID_CHANNEL}]
  /\ available_channels \in Seq(MIDI_CHANNELS)
  /\ deferred_note_offs \in List
  /\ is_sustain_pedal_on \in BOOLEAN
  /\ previous_pedal_message \in {<<>>} \cup (TimeOffsets \X BOOLEAN)
  /\ is_suspended \in BOOLEAN /\ had_reset \in BOOLEAN /\ in_block \in BOOLEAN
  /\ out_events \in Seq(Events)
  /\ sounding \subseteq ToneSet /\ discarded \subseteq ToneSet
  /\ keys \subseteq Note

(***************************************************************************)
(* The member channels of the zone in force are divided between the held   *)
(* notes, one channel each, and available_channels, each listed once: no   *)
(* channel is lost, used twice or used outside the zone, whatever order    *)
(* notes start, are stolen, are retriggered, end, and zones change in.     *)
(***************************************************************************)
ChannelPartition ==
  LET used == {channels_by_notes[n] : n \in Held}
      free == ToSet(available_channels)
  IN  /\ used \cap free = {}
      /\ used \cup free = ToSet(MemberChannels(zone))
      /\ Len(note_stack) + Len(available_channels) = zone.channel_count

(***************************************************************************)
(* When no channel is available there is a note to steal: note_on never    *)
(* reaches its MPE_EMULATOR_ASSERT_NOT_REACHED.                            *)
(***************************************************************************)
StealingHasAVictim == available_channels = <<>> => note_stack # <<>>

\* which element of a sequence stands before which
Before(s) == {p \in ToSet(s) \X ToSet(s) :
                \E i, j \in DOMAIN s : i < j /\ p = <<s[i], s[j]>>}

\* "half" has the given notes, each once, in the order of note_stack
IsHalf(half, notes) ==
  /\ IsInjective(half) /\ ToSet(half) = notes
  /\ Before(half) \subseteq Before(note_stack)

(***************************************************************************)
(* The two halves are the held notes on either side of the anchor in       *)
(* force, in the order of the whole stack, although they are maintained    *)
(* by separate pushes and removals and the anchor can change.              *)
(***************************************************************************)
HalvesFollowTheAnchor ==
  /\ IsHalf(note_stack_above, {n \in Held : IsAboveAnchor(zone, n)})
  /\ IsHalf(note_stack_below, {n \in Held : ~IsAboveAnchor(zone, n)})

\* the held notes, as the receiver should hear them
HeldTones == {<<channels_by_notes[n], Transpose(zone, n)>> : n \in Held}

(***************************************************************************)
(* proxy.hpp:706 reset() is to "turn off the sustain pedal and all active  *)
(* notes": once it has the pending events, the receiver sounds exactly the *)
(* held notes, each on its channel at its transposed pitch.                *)
(***************************************************************************)
HeldIsHeard == HearAll(Undelivered) = HeldTones

(***************************************************************************)
(* The same but for what a reset that comes before the delivery of earlier *)
(* events discards: the receiver gets every held note, and a tone hangs    *)
(* only if a reset or a new zone cleared its Note Off and no later event   *)
(* of that channel and pitch was delivered.  Nothing else (stealing,       *)
(* retriggering, deferring, new settings, blocks while suspended) makes a  *)
(* tone hang.                                                              *)
(***************************************************************************)
HeardUnlessDiscarded ==
  /\ HeldTones \subseteq HearAll(Undelivered)
  /\ HearAll(Undelivered) \ HeldTones \subseteq discarded

(***************************************************************************)
(* Each Note Off the receiver gets ends a tone that it sounds, and each    *)
(* Note On comes to a channel that is silent but for tones that a reset    *)
(* left hanging: an MPE receiver may bend and press every note by itself.  *)
(* Transposition and anchor may change between a note's two events.  While *)
(* suspended, the events of the last block are delivered again.            *)
(***************************************************************************)
EventsArePaired ==
  ~is_suspended =>
    \A k \in DOMAIN Undelivered :
      LET heard == HearAll(SubSeq(Undelivered, 1, k - 1))
          event == Undelivered[k]
      IN  IF event.type = "off" THEN Tone(event) \in heard \cup discarded
          ELSE \A tone \in heard \ discarded : tone[1] # event.channel

DeferredChain == Chain(deferred_note_offs)

(***************************************************************************)
(* A held note has its key down or waits for the pedal: no note is left    *)
(* on that neither a Note Off nor the pedal will end.                      *)
(***************************************************************************)
NoHungNotes == ~is_suspended => Held \subseteq keys \cup ToSet(DeferredChain)

(***************************************************************************)
(* test_proxy.cpp:2154 "when_a_sustained_note_is_retriggered_then_its_     *)
(* note_off_is_no_longer_deferred": no key that is down waits for the      *)
(* pedal to end its note.                                                  *)
(***************************************************************************)
DeferredKeysAreUp == ~is_suspended => ToSet(DeferredChain) \cap keys = {}

(***************************************************************************)
(* The Note Offs waiting for the pedal are of held notes, each once, and   *)
(* there are none while the pedal is up: the loop of                       *)
(* process_deferred_note_offs ends each note once and leaves none behind,  *)
(* and note_stack is never asked to remove a note that it does not hold.   *)
(***************************************************************************)
DeferralsAreWarranted ==
  /\ ToSet(DeferredChain) \subseteq Held
  /\ Cardinality(ToSet(DeferredChain)) = Len(DeferredChain)
  /\ ~is_sustain_pedal_on => DeferredChain = <<>>

(***************************************************************************)
(* README.md "Handle Sustain Pedal": Note Off events are "deferred until   *)
(* the pedal is released again": a processed pedal-up message ends every   *)
(* deferral.                                                               *)
(***************************************************************************)
PedalUpEndsDeferral ==
  [][\A t \in TimeOffsets : SustainPedal(FALSE, t) => (DeferredChain = <<>>)']_vars
(* Seen as who holds which channel, Proxy does only what MpeVoices allows. *)
Promise == INSTANCE MpeVoices
             WITH ChannelSets <- {ToSet(MemberChannels(z)) : z \in ZoneSettings},
                  assigned <- [n \in Held |-> channels_by_notes[n]],
                  free <- ToSet(available_channels)

ImplementsMpeVoices == Promise!VoicesSpec
=============================================================================
