# MPE Emulator: specifications and proofs

MPE Emulator turns the single-channel MIDI of a conventional keyboard into MPE:
every note gets a MIDI channel of its own, so that controllers can bend and
press notes one by one. This directory holds TLA+ models of its core, TLC
configurations that check them on small instances, and TLAPS proofs. Paths like
`proxy.cpp:1402` are below `src/src/`.

## 1. Inventory

| Component | State | Operations | Hard because |
|---|---|---|---|
| `NoteStack`, `BasicNoteStack` (`note_stack.cpp`) | `next`, `previous`, `head`, cached `oldest_`, `lowest_`, `highest_` | `push`, `pop`, `remove`, `clear`, `find`, walks | stale pointers, caches, long call sequences |
| `Proxy`, voices (`proxy.cpp`) | `note_stack` and its halves, `channels_by_notes`, `available_channels`, zone fields, `had_reset`, `is_suspended`, `out_events` | `note_on`, `note_off`, `begin_processing`, `reset`, `suspend`, `resume` | five ways for a note to end, settings that change while notes sound, events cleared before delivery |
| `Proxy`, sustain pedal | `deferred_note_offs`, `is_sustain_pedal_on`, `previous_controller_message` | `control_change`, `process_deferred_note_offs` | removal from a list the note may not be in; toggling; the clone filter |
| `Proxy`, controller rules | `rules[9]`, channel statistics of the stacks | `process_controller_event`, `push_resets_for_new_note`, `push_resets_for_note_off`, `reset_rules_and_global_controllers` | targets move when notes come and go; statistics are cached; zone changes move the manager channel |
| `Proxy`, parameters | `params`, `param_ratios_atomic`, `messages`, `is_dirty_` | `push_message`, `process_messages` | two threads, a bounded queue, partial imports |
| `SPSCQueue` | `items`, `next_push`, `next_pop` | `push`, `pop`, `length` | lock-free, full and empty |
| `Queue` | the same without atomics | `push`, `pop`, `clear` | bounded |
| `Midi::EventDispatcher` (`midi.hpp`) | the running status of each handler | `dispatch_event` | partial messages; two handlers read each message |
| FST plugin, programs | three `SPSCQueue`s, `Bank`, copies of the current program for the GUI thread | host calls, `generate_samples`, `idle` | two threads, reordering between queues, stale copies |
| FST plugin, events | marks of the controllers of a block, helper parameters, buffers of out events, pauses between display updates | `process_vst_events`, `generate_samples`, `set_parameter`, `idle` | marks set in one call and read in another; buffers filled exactly; an update that must come some day |
| VST 3 plugin | `events`, `processSetup` | `process`, `setActive`, `setProcessing`, `setState`, controller callbacks | two threads, event order within a block |
| `Bank`, `Serializer` | 128 programs, the current one | import, export | partial imports |
| GUI, strings, math, vendored SDKs, JSFX version | - | - | not modelled, see section 7 |

How they interact. The host calls a plugin's audio callback once per block. The
plugin calls `Proxy::begin_processing()`, hands MIDI messages to `Proxy` (VST 3
sorts them by time, FST parses them with `Midi::EventDispatcher`), and then copies
`Proxy::out_events` to the host. The GUI thread and host state imports reach
`Proxy` only through `messages`, an `SPSCQueue`, which `begin_processing()` and
`process_messages()` empty. Suspending and resuming come from the host between
blocks. The FST plugin has three more queues: calls about programs go to the
audio thread, which owns the bank, and from time to time it sends back the
current program and the bank, which the GUI thread keeps copies of for the host.

What makes each component correct:

- `NoteStack`: it is a LIFO of unique notes; `find` is membership; the cached
  notes are those of the list.
- `Proxy`, voices: a member channel belongs to at most one note and none is
  lost; what the receiver sounds is what `Proxy` holds, unless a reset clears
  events before they are delivered; each Note Off ends a
  sounding tone and each Note On comes to a silent channel; only a full zone
  steals, one voice at a time.
- `Proxy`, sustain pedal: a deferred Note Off is of a held note whose key is
  up, and it is sent when the pedal goes up.
- `Proxy`, rules: after any notes and messages the receiver's controllers are
  where the rules put them: a target has the last input or the initial value,
  whoever stopped being a target is back at the initial value, a half moves
  together, the manager channel follows the global rules.
- `Proxy`, parameters: every accepted message is applied once and in order; the
  dirty flag is set while there are unsaved changes.
- `SPSCQueue`: a bounded FIFO, linearizable for one producer and one consumer.
- VST 3 plugin: the state that was loaded last is in force unless somebody
  changed it, and the host knows of unsaved changes. Sorting and moving events
  in time changes neither the held notes nor where controllers end up.
- FST plugin: what is edited in a program stays in that program, and a bank that
  is loaded is the one that was sent; the GUI
  thread's copies converge to the audio thread's bank. A controller acts once
  per block, by its message or by its helper parameter; every out event goes to
  the host once, those of a reset or a zone change included; a moved controller
  is shown, or will be by the next list of events.
- Dispatchers: all handlers of a message understand it in the same way.

The hazards, each at its line and with the properties that watch it, are in
`PROJECT.json`.

## 2. Modules

| Module | What it is |
|---|---|
| `NoteList` | the linked list of `note_stack.cpp` as operators on a record |
| `NoteStack` | one `NoteStack` under `Proxy`'s use (`ProxySpec`) and under any calls (`ApiSpec`) |
| `NoteOrder` | its promise: a LIFO of unique notes. `NoteStack` under `ProxySpec` implements it |
| `Proxy` | voice allocation, stealing, sustain pedal, resets, suspending; host, receiver and keys |
| `MpeVoices` | its promise: each sounding note has a member channel to itself. `Proxy` implements it |
| `MCProxy` | zones for TLC |
| `ProxyRules` | controller rules: targets, statistics, set-up and reset controllers, fallback, MIDI Learn; the receiver's controllers |
| `MCProxyRules` | rules, edits, inputs and zones for TLC |
| `SPSCQueue` | the lock-free queue, each access to an index or a slot a step; a pushing thread and a thread that runs the users' pop loop |
| `BoundedFifo` | its promise: a bounded FIFO whose calls are steps. `SPSCQueue` implements it |
| `ProxyParams` | `Proxy`'s parameters, their atomic copies and the dirty flag; the messages and their handlers; the serializer |
| `Vst3State` | loading, saving and editing settings in the VST 3 plugin: main thread and audio thread |
| `Vst3Events` | the events of a block in the VST 3 plugin: collecting, sorting, processing, sample offsets |
| `FstPlugin`, `MCFstPlugin` | programs in the FST plugin: host calls, three queues and `Proxy`'s, the audio thread's bank, the GUI thread's copies; banks for TLC |
| `ProgramBank` | its promise: only the current program is edited, selecting changes no program, and all are replaced only by a bank that was sent. `FstPlugin` implements it |
| `MidiDispatcher` | `dispatch_event` with running status, as an operator |
| `FstEvents`, `MCFstEvents` | MIDI events, helper parameters, out events and display updates in the FST plugin; messages and parameters for TLC |
| `StackLemmas` | lemmas on sequences without repetitions, least and greatest notes, induction up to a number and recursion in steps |
| `ParamLemmas` | lemmas on messages to parameters: what a sequence of them leaves, and that reading a serialized state restores it |
| `ProxyProofs`, `ProxyRulesProofs`, `SPSCQueueProofs`, `Vst3Proofs`, `FstPluginProofs`, `FstEventsProofs` | theorems; those about `NoteStack` and `MpeVoices` are in `ProxyProofs`, those about `Vst3State` and `Vst3Events` in `Vst3Proofs` |

**From code to model.** `Proxy`'s variables have the names of `Proxy`'s
members. `zone` is the record of `channel_count`, `manager_channel`, the two
offsets and `anchor_` (the fields that `update_zone_config` compares);
`first_channel` and `channel_increment` follow from it in `MemberChannels`.
`params` are the settings these fields and the handlers read. Each handler of a
MIDI message is an action: `NoteOn` and `NoteOff` with one disjunct per way
they go, `SustainPedal` (a CC 64 message, with the clone filter in front),
`BeginProcessing`, `Suspend`, `Resume`. `NoteOn` composes `PushNoteOff` and
`PushNoteOn` on a record of the note state, as the code calls them one after the
other, and `Become` assigns the result. `Deliver` is the plugin handing
`out_events` to the host, `sounding` what an MPE receiver makes of it: a tone is
a channel and a pitch, and `HearAll` says that the last event of a tone counts.
`keys` are the player's: they tell a held note that waits for a key from one
that hangs. `discarded` is history: the tones that events would have started or
ended which a reset, or a change of the zone, cleared before the plugin handed
them over; a tone leaves it when an event of that tone is delivered.

**Sequences for linked lists.** In `Proxy`, `note_stack` and its halves are
sequences. `NoteStack` justifies that: under `ProxySpec`, which pushes only
notes that are not held, and removes only held ones or ones of the other half,
the linked list is the sequence (`ImplementsNoteOrder`) and its answers are the
sequence's (`AnswersAreThoseOfTheWalk`), both of which are proved. `deferred_note_offs` is
not used that way, notes are removed from it that are not in it, so there
`Proxy` has the list itself, pointers and all. `DeferralsAreWarranted` checks
that what leaves that list is held, so that `note_stack` keeps to `ProxySpec`.

**Abstractions.** Velocities, time offsets of notes, channels of incoming notes
(ignored by the code) and all controller events are left out of `Proxy`: they
neither change the note state nor the notes' events. `ProxyRules` has them. A pedal message is its
value (up or down) and its time offset within the block, as both feed the clone
filter. The messages of the other thread are abstracted to "the parameters are
now p". `Init` starts from any settings rather than from the defaults, as after
a first block that found them.

**Rules.** `ProxyRules` has the notes in less detail and the controllers in full.
With no channel free any held note may give up its channel, a sounding key may
be retriggered or be refused, and every Note Off is handled at once: `Proxy` in
any of its modes does a part of that, as a deferred Note Off that is handled
later is a Note Off that comes later. `PushNoteOn` and `PushNoteOff` work on a
record of the stack, the channels, the cached statistics and what the receiver
was told, so that retriggering composes them as the code does; the order of the
events that one call sends only matters where two rules write the same
controller, and there `SendByRules` lets the later rule have the last word. A
value is one of three levels, the least number that tells the ends from the
middle: the curves and the midpoint bend what lies in between, inverting swaps
the ends. `controls` is what the receiver was last told on each channel; `Init`
is a plugin that was resumed once, since the constructor sends nothing.
`unsettled` says what an edit of a rule has yet to reach: editing sends nothing
by itself, so what a property promises starts again with the next note or reset.

**The queue.** A thread's position in `push()` or in the loop around `pop()` is
`producer.pc` or `consumer.pc`, named for the access that comes next. The code
leaves the memory order at its default, so the accesses to the indices are
sequentially consistent. `item = std::move(replacement)` and the store of
`next_pop` are one step, since only the popping thread can tell them apart. The
refinement to `BoundedFifo` lets a push take effect when it stores `next_push`
and a pop when it stores `next_pop`; between the swap and the store the item in
the hand of `pop()` is still the first of the queue. The capacities of the code
(8192 and 256) are the constant `Capacity`.

**Parameters.** `px` is the record of the values of the parameters (`params`),
the copies that other threads read (`ratios`, the code's `param_ratios_atomic`)
and `is_dirty`. Handlers of messages are operators on it. `handle_clear` is
modelled by its result, and assigns the dirty flag as the code does. A
serialized state is the settings one gets back from it; reading it sends `CLEAR`
and then the parameters that differ from their defaults, from the main thread
one push a step, from the audio thread at once. Widgets, automation and hosts
may send any value at any time, also one that is set already, as nothing in the
code filters them. `px.hides` is history: it is set when a message that changed
nothing took the dirty flag from `TRUE` to `FALSE`, and reset when the VST 3
plugin next tells its host that settings changed, or the FST plugin publishes them.

**The VST 3 plugin.** A step of the audio thread handles one message or one
event; a step of the main thread pushes one message or reads one parameter.
`saved` and `is_modified` are the host's: what it loaded or saved last, and
whether it was told of changes since. The host saves when nothing is on its way
(`GetState`): a state that is read while an import is in the queue is a mixture,
and no document says otherwise. `edited` only serves to say what
`LoadedStateIsInForce` is about.

**The events of the VST 3 plugin.** `ProcessBlock` is one call of `process()`: the
notes and the controller points of the block, each in the order of their
offsets, are concatenated, sorted, handed to `Proxy` and turned into events of
the host with the offsets that `initialize_cc_event` computes. `Proxy` has here
one rule with the newest note as target: enough for a set-up before each Note
On, one behind it, a reset of the previous target, and messages for the target,
all with the offset of the event that causes them. `Sorted` has the results that
sorting may have: `Orders` are the rearrangements that leave the events in time,
and keep the order of equal times only if the list is no longer than
`StableSortLength` (16 in libstdc++, where `std::sort` is an insertion sort up to
there). `is_fresh` is for the first block, whose `events` are a vector that was
constructed with 8192 entries, so that it is long whatever the host sends.
`unsure` is history: the keys that were pressed and released at one sample, last
in a block whose order is lost, and not used since. The receiver takes the events of a block
by offset: of those that are about the same thing, the `Latest` counts.

**The events of the FST plugin.** A host gives the events of a block
(`process_vst_events`), then asks for the block (`generate_samples`). Each
message is dispatched twice, to the plugin and to `Proxy`, each with a running
status of its own (`running_status.plugin`, `.proxy`); a message is a step. What
`Proxy` does with it is any number of out events up to `MaxOutEvents`; they are
numbered as they are made, and `made` is how many there are since a reset or the
end of a block. `BeginProcessing` is the end of that function: a change of the
zone clears the list and makes events of its own, which then wait for the next
block, as do those of a reset; otherwise the list is cleared. `Resume` is a reset
with `begin_processing()` behind it, also of a plugin that is not suspended;
`Suspend` leaves the list alone.
`StartEvents` clears the marks, `ProcessVstMidiEvent` marks the controllers,
`FinishEvents` decides on an update of the display; `PrepareProcessing` keeps
the marks if they are of this block, each message of the queue is a step
(`HandleExportedParam`, `HandleHelper`), and `FinalizeProcessing` counts the
pause down and sends the out events through the buffer. `acted` says by what
controllers were moved in the block, `ignored` which helpers were not taken,
`sent` what the host got; nothing in the code depends on them. Host calls
outside blocks empty the queue to the GUI thread, as in the code.

**The programs of the FST plugin.** `gui` holds the copies of the GUI thread, `audio` the audio
thread's place in a block: the strings queue, then the others, each counted once;
in `handle_change_program`, before the old program is saved (`"save"`) and before
the new one is loaded (`"switch"`), since a knob may be turned in between; and
publishing, one push a step. A program is a name and settings. The patch in
`PROGRAM_CHANGED` has no name, so until the `BANK_CHANGED` behind it is handled
the copy of the name is the default. `PROXY_WAS_DIRTY` only tells the host to
refresh its display. MIDI Learn is in `Vst3State` only, notes and controllers are
in the other modules. The refinement to `ProgramBank` takes for the current program what
`Proxy` plays; a knob that is turned between `"save"` and `"switch"` is
overruled by the new program's settings and changes neither program. Commands
act on the program that is current when the audio thread gets to them; as it
empties the queue of strings first, a rename right after a change of programs
names the old one.

**The host.** Blocks alternate `BeginProcessing` and `Deliver`; `Suspend` and
`Resume` may come at any time, also within a block, twice without a block
between them, or with blocks run while suspended. The VST 3 plugin itself resets
twice: in `setActive(true)` and in `setProcessing(true)`, which its host calls one
after the other. The FST plugin calls
`begin_processing()` at the end of a block instead of at its start, so there
`in_block` spans the time between two `generate_samples` calls. In `FstEvents` the
host keeps to its interface: one list of events before a block, no suspending
between the two, no blocks while suspended; `HostHabits` adds `"events_twice"`,
giving two lists, and `"drops_events"`, suspending or resuming between the events
and the block, which section 5 uses.

## 3. Runs

Bounds: `MaxEvents` stops new notes once the block has that many events (2 lets
one note on finish after another, and a steal overshoot; resets add one event per
held note). `MaxDiscarded` stops resets that would clear events, and changes of
the zone likewise, once that many tones are discarded: with 1 the first such
reset of a history may still discard several, and everything that may follow
happens with what it left. Three notes on zones of two channels and of one channel are the
smallest instance where an excess note mode chooses between victims, where a
queue has more than one free channel, and where a zone change both grows and
shrinks the zone. The zones also differ in manager channel, anchor (40 is above
one and below the other) and offsets (clamped at both ends in one).
`ProxyAllocation` has three of the modes and `ProxySustain` the other two; the
cached notes that they choose by are checked in `NoteStack`, and the theorems are
for all five. `VIEW WithoutKeys` in `ProxyAllocation` leaves the player's keys out of
the fingerprint of a state: only `NoteOn`, `NoteOff` and nothing else writes them,
no guard reads them, and no property of that run mentions them.

| Run | Module | Expect | Shows |
|---|---|---|---|
| `NoteStack` | `NoteStack` | pass | the list is a LIFO of unique notes with current caches, as `Proxy` uses it |
| `ProxyAllocation` | `MCProxy` | pass | channels, halves, tones, pairing, stealing; only a reset that clears a Note Off makes a tone hang; refinement of `MpeVoices` |
| `ProxySustain` | `MCProxy` | pass | sustain pedal with stealing, 2 notes; resets and blocks as in `ProxyAllocation` |
| `ProxySustainSteal` | `MCProxy` | violation | 3 sustained notes and retriggering damage the deferred list |
| `ProxyResetTwice` | `MCProxy` | violation | the second of two resets before a block clears the first one's Note Offs |
| `ProxyRules` | `MCProxyRules` | pass | current statistics; targets, other notes, halves and the manager channel have the values that the rules give them; notes start with their set-up |
| `SPSCQueue` | `SPSCQueue` | pass | linearizable; no data race; the counted items are there; accepted items arrive |
| `Vst3State` | `Vst3State` | pass | loaded states are in force, unsaved changes are known unless an edit repeated a value, other threads read current values; 2 parameters, 3 calls, with widgets, automation and MIDI Learn |
| `Vst3UnsavedChanges` | `Vst3State` | violation | an edit that repeats a value hides an unsaved change from the host |
| `Vst3Events` | `Vst3Events` | pass | keys and held notes agree, controllers end where `Proxy` sent them, whatever the order in a block |
| `FstPrograms` | `MCFstPlugin` | pass | refinement of `ProgramBank`; copies are right when all is quiet, and catch up for good, unless an edit repeated a value |
| `FstEvents` | `MCFstEvents` | pass | one source per controller and block, no lost helper, all events sent (also those of resets and zone changes), display updates |

The three violations are disagreements of the code with its documentation and
tests; `findings` in `PROJECT.json` quotes both sides. Section 5 has more. All runs are finite without
symmetry. `SPSCQueue` uses 3 items on a ring for 3, so that both indices wrap
around at different times, and a full ring and a push that fails occur.

In the runs of the plugins a parameter has two values and the calls of the host
and the user are bounded by `MaxCalls`: three calls let a change come before, in
and behind another one's messages, and there are as many blocks in between as
the order needs. The queues hold what these calls can push, as those of the code
do for any but thousands of calls without a block; `FstPlugin` with a queue for
9 messages shows that a `BANK_CHANGED` that is dropped leaves old copies. Two
programs and one parameter suffice to tell programs apart. `MinSamples` and
`BlockSizes` are chosen so that a block is as long as the pause between updates
or longer.

`ProxyRules` has every target with the resets "last" and "init", fallback, no
input, no reset, and three pairs of rules that meet in an input or an output:
two rules are the fewest that do, and no property relates three. Three notes, of which
the middle one is on either side of the anchor depending on the zone, on a zone of
two channels and one of one channel with different manager channels; three edits
turn a reset on, move a target and turn a global reset on. That makes 127,000 states.
`Vst3Events` takes each pair of lists of up to two notes and two points at the
offsets of blocks of one and of two samples, and goes from block to block with
what is held. Two offsets are enough: tones keep theirs, and controllers leave at
the last sample or, in a block of one sample, at one of two, so that an offset in
the middle is to all others as the first one is. `StableSortLength = 3` makes lists of four events too
long to be sorted stably and shorter ones not. `FstEvents` has a
message of each kind that a dispatcher tells apart, so that the running status
is taken over by a cut message; two messages in a list, a buffer for two out
events, of which each call of `Proxy` makes one at most (fewer, as many and more
are sent), a queue for one message in each
direction, which is full as soon as there is one, and a pause of one and a half
blocks.

Fairness is assumed in three runs. In `FstPrograms` the host goes on processing
blocks (`AudioNext`), without which a plugin does nothing at all, and the GUI
thread empties its queue, as `idle()` does at every timer tick of the host, and
finishes the calls it began (`GuiNext`); nothing obliges the host or the user to
call. In `SPSCQueue` under `FairSpec`, for `ItemsArrive`: a push that was called goes on (there is no waiting in it), and the popping
thread keeps running its loop, as `begin_processing()` does once per block and
the idle handler of the FST plugin once per timer tick. No fairness is assumed
on starting pushes. In `FstEvents`, for `DisplayCatchesUp`: the host goes on
asking for blocks (`SF` of `GenerateSamples`, since suspending disables it), a
list of events that was begun is read to its end (`WF` of `ReadEvents`), the host
is idle now and then (`WF`), it resumes what it suspended (`WF`), and it does
not change the sample rate for ever, since that starts the pause anew. Whether it
ever gives another list of events is up to it, as the code assumes too
(`plugin/fst/plugin.cpp:957`), and so the property ends with the pause over and
the update due: without another list the code does not look again.

Each property of a passing run has a mutant: an operator that differs from the
code as a plausible bug would (its comment says how), which makes the property
fail. They stand in the modules before the operators that they are mutants of.

## 4. Proofs

All theorems are about the specifications that the runs check, for every value
of the constants that the named assumptions allow; an assumption that a theorem
adds is in its statement and below.

**How induction over data is done.** The provers cannot use an induction
principle with a predicate as parameter. `StackLemmas` states induction with a
set instead (`InductionUpTo`: a set that has 0, and `k` with `k - 1`, has all
numbers up to `N`), proved from the least element of a set of numbers, and
recursion with a function (`StepwiseRecursion`). With these, `AfterUnfolds` and
`UpdatedUnfolds` show that recursive functions over a queue are what their
recursions say, which is all that facts about queues of any length need. For
`Min`, `Max` and `RemoveFirst`, `StackLemmas` says what they return.

**`ProxyProofs`**, for every set of notes, every set of zones and all excess
note modes. Where sustain pedal handling is off (`SustainSettings = {"off"}`, the
default of the plugin), nothing else is assumed:

- `TypeCorrect`, `ChannelsPartitioned`, `HalvesAreSplit`, `AlwaysAVictim`:
  types; the member channels are divided between held notes and free channels;
  the halves are the notes below and above the anchor in force; with no free
  channel there is a note to steal.
- `ReceiverHearsHeld` (`HeardUnlessDiscarded`), `ReceiverGetsPairs`
  (`EventsArePaired`): the receiver sounds all held notes, and other tones only
  if a reset or a change of the zone cleared their Note Offs; but for those, no
  Note On comes to a channel that sounds, and every Note Off ends a tone. Of the
  host nothing is assumed: it may reset twice before a block, or in the middle of
  one, and run blocks while suspended.
- `ProxyImplementsMpeVoices`: the refinement of `MpeVoices`. A handler may take
  a channel from a note and give it to another, which is the abstract `TakeOver`;
  the others are `Start`, `Stop` or `Reconfigure`. `VoicesStayApart` is the
  invariant of the promise.

With sustain pedal handling on they hold for a pedal that is used plainly, and so
does what the pedal is for:

- `VoicesUnderPedal`, `ReceiverUnderPedal`, `ImplementsUnderPedal`: the above.
- `NothingHangs` (`NoHungNotes`): every held note whose key is up waits for the
  pedal. `WaitingIsWarranted` (`DeferralsAreWarranted`): only held notes wait,
  each once, and none while the pedal is up. `PedalUpEndsEveryDeferral`
  (`PedalUpEndsDeferral`): a pedal that goes up ends them all.
- `WaitingKeysAreUp` (`DeferredKeysAreUp`): a note that waits has its key up. It
  also assumes that excess notes are not ignored; where they are, the second
  press of a key is refused and its note keeps waiting.

`PlainPedalling` says of each step: its handling is not switched off while the
pedal is down, and while it is down no voice is stolen and no key that is down is
pressed again. It is needed because `push_note_off` takes a note out of the list of
deferred Note Offs whether it is there or not. A note that does not wait may be
one whose `next` pointer is left over from an earlier removal, and then taking it
out damages the list: `ProxySustainSteal` and section 5 show it. `PlainWhenOff`
says that with handling off every behaviour is plain, so that the theorems
without the condition follow from those with it. Plain behaviours still have
pedals that go down and up any number of times, keys that are pressed again while
their notes wait, zones that change, and resets and blocks while `Proxy` is
suspended.

`ChannelPartition` is not inductive: it does not say that two held notes have
different channels, that a channel is queued once, or that the halves hold the
notes that a removal takes out of them. `VoicesOK(z, v, inHand)` adds that, for
a note state `v` in the middle of a handler that has the channels `inHand`. The
lemmas about `PushNoteOn`, `PushNoteOff`, taking and returning a channel each
say how they pass a channel on; `ReplaceOK`, `AllocateOK` and `HandleNoteOffOK`
chain them as the handlers do, and `NextIInv` goes through the actions. For the
receiver, `HeardInv` distinguishes the times when `out_events` is still to be
delivered from those when it is old, and says what becomes of the tones in
`discarded`: they are those of no held note.

The pedal's part of the invariant is `PedalInv`. Its `DeferOK` says that the
pointers of the deferred list are those of a sequence of held notes without
repetitions, and that no other note has a `previous` pointer (`Pointers`); of
their `next` pointers it says nothing, as a removal may leave them. `PushLinks`,
`PopLinks` and `UnlinkTakesOut` say what the operations of the list make of that
sequence, `UnlinkFromEmpty` that nothing is to be feared from left-over pointers
while the list is empty. The loop of `process_deferred_note_offs` is modelled by
a recursive function with one iteration more than there are notes.
`EndsMore` shows that an iteration ends the deferral of one more of the notes that
waited; `ProcessDeferredEnds` concludes by induction that the loop has no note
left to end when it stops.

The last part of the module is about `NoteStack` under `ProxySpec`, for every
set of notes and without further assumptions: `ListTypeCorrect`,
`AnswersAreCurrent` (`AnswersAreThoseOfTheWalk`) and `ProxyImplementsNoteOrder`.
The invariant `ListInv` says that there is a sequence for which the list
`Stands`: the pointers of the notes in it lead to their neighbours, its ends are
the head and the oldest note, its least and greatest notes are the cached ones,
and no other note has a `previous` pointer. A removed head keeps its `next`
pointer, so nothing is said of the `next` pointers of notes that are not held,
except of those of the other half: they must be clear, or removing such a note
would damage the list. `ChainIs` shows that the walk meets just that sequence;
`PushStands`, `RemoveStands`, `RemoveForeignIsNoOp` and `PopAndRemoveStands`
say which sequence the list stands for after each call. The last one is about a
list that is wrong for a moment: `pop` does not correct the oldest note, and the
removal of the popped note does.

**`ProxyRulesProofs`**, for all zones, rules, edits, controller messages and
notes, without further assumptions: `TypeCorrect`, `StatisticsAreCurrent`,
`TheTargetHasTheLastValue`, `OthersHaveTheInitialValue`, `AllNotesOfAHalfMove`,
`TheGlobalValueIsCurrent` and `SetUpBeforeNoteOn`, which are all properties of
the `ProxyRules` run. The invariant is about the record that the handlers work
on: `Consistent` says that held notes have distinct member channels and that
both halves' statistics are theirs, and `Kept` is the four controller properties
for that record, each for rules that have their output to themselves. It is
stronger than they are in two places. A target of a rule that resets to the
initial value has the last input or the initial value, as it may have
become one a moment ago; and while a rule learns, no message falls back to the
manager channel. Notes that share a half change target one after the other: the
argument goes note by note, with what a removal does to the lowest, highest,
newest and oldest note of its half, and a controller that is sent to a channel
leaves all other channels as they were.

**`SPSCQueueProofs`**, for every capacity and every set of items:
`TypeCorrect`, `Linearizable` (`SPSCQueue` implements `BoundedFifo`), `RaceFree` (no slot is
written while the other thread may be about to empty it) and `PromiseKept` (the
pops of a counted loop succeed). `IInv` adds to the types what each thread knows
at each place: a producer that passed the check for a full ring has
`Count < Capacity`, since only it can make the queue longer, and a consumer that
counted `left` items has `left <= Count`, since only it can make it shorter. The
refinement maps `StoreNextPush` to `Put`, a full `LoadNextPop` to `Refuse`,
`StoreNextPop` to `Take` and every other step to a stutter; `SwapItem` is the
one where the mapping has to look into the consumer's hand. `ItemsArrive` is a
liveness property and is model-checked only.

**`Vst3Proofs`**, about `Vst3State`, for all numbers of parameters, values and capacities:

- `TypeCorrect`, and `CopiesLagOnlyAfterLearning` (`OnlyLearningLags`).
- `LoadedStateComesIntoForce` (`LoadedStateIsInForce`): the invariant is that
  the parameters *will* be the loaded state once all that is queued, followed by
  what `setState` has yet to push, is processed. Processing a message moves it
  from the one side of that formula to the other (`ProcessHead`), and pushing
  one appends to it (`ProcessConcat`); `ImportRestores` starts it.
- `ChangesAreKnown` (`OnlyRepeatsHideChanges`): while a state is on its way, the
  edits behind it either leave the dirty flag set, or leave the settings that were
  saved, or an edit that changes nothing has cleared the flag (`px.hides`): there
  is no other way for a change to be forgotten. What an edit does to the flag, to
  `hides` and to the settings is stated for each message, and carried over queues
  of any length.
- The last two are about behaviours in which the queue takes the messages of the
  states that are loaded (`[]StateFits`), since nobody is told of a message that
  is dropped. `LargeQueueIsNeverFull` shows that a queue with room for
  `MaxCalls` states makes it so.

and about `Vst3Events`, for all notes, block lengths and lists of events:

- `KeysStayHeld` (`KeysAreHeld`). `Balanced` is what holds between the messages of
  a block: what `Proxy` has sent is in time, and of each note the last tone is a
  Note On if and only if the note is held. `ProcessEventsGo` carries it through the
  loop. `SortingKeepsKeys` is the other half: sorting keeps the order of the events
  of a key, as notes are collected in order, so that the last one is the same before
  and after. That needs the order of equal times, which `IsStable` gives; where it
  does not hold, the proof shows that a key outside `unsure` has only presses or
  only releases at its last sample, so that any order of them ends the same. No
  assumption is made on the length of lists or on `StableSortLength`.
- `ControllersEndWhereSent` (`LastValuesArrive`), without assumptions. All
  controllers of a block leave with the same offset, except in a block of one
  sample, where those that set up a note leave before the others (`last > 0` in
  `ControllerOffset`). `Balanced` says that each set-up is followed by a controller
  that is none (`Overwritten`), so that the last controller that `Proxy` sends to a
  note is never a set-up, and arrives last.

**`FstPluginProofs`**, for all programs, banks, settings and capacities:

- `TypeCorrect`, and `ImplementsBank`, the refinement of `ProgramBank`, without
  further assumptions. The abstract bank has what `Proxy` plays in place of the
  current program, so the invariant needs two facts that it does not mention: a
  serialized state is made of the copies of the parameters, so they must equal
  the parameters, and between the two halves of `handle_change_program` the saved
  program must be what is still played. Then saving is a stutter, loading is
  `Select`, and each of the other steps that touch `Proxy`'s parameters or the
  bank is `Edit`, `Rename`, or `Load` of one of the host's banks, just as it was sent.
- `HostGetsWhatIsPlayed` (`CopiesAreCurrent`). The invariant beyond that: unless a
  change is still to be noticed (`Due`), or an edit that repeats a value has taken
  the dirty flag back (`px.hides`), what the copies *will* be once all that is
  published is handled (`Told`) is what is played, and likewise for the names and
  the current program. When all is quiet, nothing is due and `Told` is what the
  copies are. Edits may be sent at any time and set anything. Assumption:
  `[]QueuesFit`, a place left in each of the three queues, since nobody learns of
  a message that is dropped.

**`FstEventsProofs`**, for all messages, parameters, buffer sizes and bounds:

- `TypeCorrect`: types, and that the pause between display updates stays within
  its length and each queue within its capacity. Its invariant adds to the types
  that the messages that were counted are still in the queue
  (`CountedAreThere`), for which pushes of the GUI thread only ever add.
- `OneSource` and `HelpersKept`: `OneSourcePerBlock` and `HelpersAreNotLost`.
  Assumption: `HostHabits = {}`. Neither is inductive, as neither says what the
  marks are. `BlockInv` does, place by place: between blocks nothing has acted
  and marks that count are empty; while events come in, the marks are the
  controllers that messages have moved, and no helper has acted; while messages
  of the GUI thread are handled, that still holds, each helper that acted is
  unmarked and each that was ignored is marked. The step that matters is
  `ProcessVstMidiEvent`: the plugin and `Proxy` have the same running status,
  so both understand the message in the same way.
- `EveryEventSent` (`EveryEventIsSent`), without further assumptions. The invariant
  `AllAreThere` says that `Proxy`'s list holds all events since a reset or a block,
  in order: it goes through resets and zone changes between blocks, which clear
  the list and fill it anew (`BegunOutEvents`), and through the calls of `Proxy` in
  a block (`PushedOutEvents`). `SendsAll` is about the buffer: `Holds` says that the
  events so far are those that were sent, followed by those in the buffer.

**What stays with TLC**, and why:

- Liveness: `ItemsArrive`, `CopiesCatchUp`, `DisplayCatchesUp`.
- The sustain pedal where it is not used plainly. The run `ProxySustain` checks it
  with two notes, where it holds; with three it does not (`ProxySustainSteal`).

## 5. Known disagreements without a run of their own

The runs with expected violations are the three that are the most telling. The
modules also hold what is needed to see these:

- Removing an absent note is not always a no-op, although
  `src/tests/test_note_stack.cpp:331` says so: `RemovingAbsentNoteIsNoOp` fails for
  `NoteStack` under `ApiSpec`, with a note that was the head when it was removed
  and is removed again after others were pushed. `ProxySpec` excludes it for
  `note_stack` and its halves; for the deferred notes it is what
  `ProxySustainSteal` shows.
- Switching sustain pedal handling off with the pedal down leaves deferred notes
  waiting when the pedal goes up, although `src/README.md:381` says that Note Off
  events are deferred until then: `PedalUpEndsDeferral` fails with `SustainSettings = {"on", "off"}`.
- `process_message` assigns the dirty flag (`proxy.cpp:1335`), which
  `Vst3UnsavedChanges` shows in the VST 3 plugin. In the FST plugin the host's
  copies stay old for it, until the next publication: `Settled => Agreed` fails in
  `FstPrograms` without `px.hides`. There the host and the user need not repeat
  anything: a parameter sent while another program is being loaded may be set to
  what that program already has, and hides the edit before it.
- The controllers that set up a note leave at the end of the block instead of
  with its Note On: `initialize_cc_event` (`plugin/vst3/plugin.cpp:698`) takes the
  greater of the last offset and a sum that by precedence is the condition of
  `?:`. A comment at line 680 wants "the same sample offset". `ControllerOffset`
  has it as it is in the code.
- `PATCH_CHANGED_PARAMETER_INDEX` (`plugin/fst/plugin.hpp:91`) is `Z1SUS`, 89, the id
  of a parameter of `Proxy`; in the array of parameters "Settings Changed" has the
  place 211, although `plugin/fst/plugin.cpp:445` asserts that the two are equal. When
  settings change, the plugin automates the helper of controller 89 instead, and
  ignores what the host sets that helper to (`SetParameter` in `FstEvents`).
- What MIDI Learn has assigned is not saved (`proxy.cpp:938`), against
  `src/README.md:485`: `SavedStateHasLearned` fails in `Vst3State`.
- Notes in the very first block of the VST 3 plugin may be processed in another
  order than they have (`plugin/vst3/plugin.cpp:266`): the vector is constructed
  with 8192 entries, which `std::sort` does not sort stably. `KeysAreHeld`
  allows for it with `unsure`, and fails without.
- A host of the FST plugin that gives two lists of events before one block makes
  a controller act twice (`OneSourcePerBlock` fails with `"events_twice"`: the
  second list clears the first one's marks), and one that suspends between
  events and block loses helpers (`HelpersAreNotLost` fails with
  `"drops_events"`). The interface of the host permits neither.
- The damaged list of deferred notes of `ProxySustainSteal` does more with one more note:
  four notes on three channels, sustain pedal handling on and the oldest note
  stolen, make pedal-up end a note twice. Its channel is then queued twice, and
  two notes later share it: `ChannelPartition` fails. This is why the theorems
  of `ProxyProofs` about the pedal assume that no voice is stolen while it is down.

## 6. Plan

- `Proxy` under `ProxyRules`: sustain pedal handling together with rules, on the
  smallest zone.

## 7. Not modelled

- Sending a helper's controller event at time offset 0 behind later events of the
  block in the FST plugin: the offsets do not survive `SendOutEvents`' model.
- What `Proxy::reset()` does not send when no notes are held (the pedal's value):
  `StopAllNotes` follows it, and no property says more.
- Texts: names that are cut or cleaned, the text format of the serializer,
  upgrades of old settings, number formatting and fixed tables (`strings.cpp`),
  what the host asks for as text.
- Bus arrangements and the factory of the VST 3 plugin, the editor window and
  chunks' bytes of the FST plugin.
- Floating-point curves (`math.cpp`): three levels stand for values.
- Drawing and window-system code of the GUI. Its messages to `Proxy` are in.
- The JSFX version, an independent implementation with fewer features.
- The vendored VST 3 SDK and FST. They are most of the lines of the repository,
  so that the share of all lines that the modules stand for stays small, however
  much of `src/src` they cover.
