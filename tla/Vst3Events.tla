----------------------------- MODULE Vst3Events -----------------------------
(***************************************************************************)
(* The events of a block in the VST 3 plugin, src/src/plugin/vst3/         *)
(* plugin.cpp: process() collects the notes and then the controller points *)
(* that the host has for the block, sorts them by time, hands them to      *)
(* Proxy, and turns Proxy's out_events into events of the host.            *)
(*                                                                         *)
(* Proxy is here what it is with one rule that moves the newest note and   *)
(* resets to the initial value (modules Proxy and ProxyRules have the      *)
(* rest): what matters is how its events of one block lie in time.  There  *)
(* is a channel for each note.                                             *)
(***************************************************************************)
EXTENDS Integers, Sequences, SequencesExt

CONSTANTS
  Note,           \* the MIDI notes that are ever played
  BlockLengths,   \* numbers of samples of a block
  MaxNotes,       \* bound: note events in a block
  MaxPoints,      \* bound: controller points in a block
  StableSortLength \* the longest list that std::sort keeps in order, 16 in libstdc++

ASSUME NoteAssumption == Note \subseteq 0..127
ASSUME BlockAssumption == /\ BlockLengths \subseteq Nat \ {0}
                          /\ MaxNotes \in Nat /\ MaxPoints \in Nat
                          /\ StableSortLength \in Nat

INIT == 0
Level == {INIT, 1}

VARIABLES
  is_fresh,             \* events still has the entries it was constructed with
  held,                 \* Proxy: held notes, newest first
  meant,                \* Proxy: the last value it sent to each note's channel
  keys,                 \* player: the keys that are down
  unsure,               \* player: the keys whose last events std::sort may have swapped
  sounding, controls    \* receiver

event_vars == <<is_fresh, held, meant, keys, unsure, sounding, controls>>

-----------------------------------------------------------------------------
(* What the host has for a block: events with sample offsets, in order. *)

\* "on_silently" is a Note On with a velocity that rounds to 0
NoteEvents(last) ==
  [type : {"on", "on_silently", "off"}, note : Note, offset : 0..last]

Points(last) == [type : {"controller"}, value : Level, offset : 0..last]

InOrder(events) ==
  \A i, j \in DOMAIN events : i < j => events[i].offset <= events[j].offset

EventLists(kinds, most) ==
  {list \in UNION {[1..n -> kinds] : n \in 0..most} : InOrder(list)}

-----------------------------------------------------------------------------
(* Collecting and sorting. *)

\* in time, and at the same time as they were collected
Earlier(events, i, j) ==
  \/ events[i].offset < events[j].offset
  \/ events[i].offset = events[j].offset /\ i < j

(***************************************************************************)
(* Event::operator< compares times only, and std::sort keeps the order of  *)
(* equal events in short lists only.  In the first block the list is long: *)
(* the vector is constructed with 8192 entries.                            *)
(***************************************************************************)
IsStable(events) == ~is_fresh /\ Len(events) <= StableSortLength

Orders(events) ==
  {order \in Surjection(DOMAIN events, DOMAIN events) :
     \A i, j \in DOMAIN events :
       i < j => IF IsStable(events)
                THEN Earlier(events, order[i], order[j])
                ELSE events[order[i]].offset <= events[order[j]].offset}

Sorted(events) ==
  {[i \in DOMAIN events |-> events[order[i]]] : order \in Orders(events)}

-----------------------------------------------------------------------------
(* Proxy, and what it has to say about each event. *)

Control(n, value, e, is_pre_note_on_setup) ==
  [type |-> "controller", note |-> n, value |-> value, offset |-> e.offset,
   pre |-> is_pre_note_on_setup]

Tone(type, n, e) == [type |-> type, note |-> n, offset |-> e.offset]

Send(p, e) == [p EXCEPT !.out = Append(@, e)]

ProxyNoteOff(p, n, e) ==
  LET q == Send([p EXCEPT !.held = RemoveFirst(@, n)], Tone("off", n, e))
  IN  IF n = Head(p.held) /\ q.held # <<>>
      THEN Send(q, Control(Head(q.held), INIT, e, FALSE))
      ELSE q

ProxyNoteOn(p, n, e) ==
  LET q == IF p.held = <<>> THEN p ELSE Send(p, Control(Head(p.held), INIT, e, FALSE))
      r == Send([q EXCEPT !.held = <<n>> \o @], Control(n, INIT, e, TRUE))
  IN  Send(Send(r, Tone("on", n, e)), Control(n, INIT, e, FALSE))

\* mutant of ProcessEvent: a silent Note On starts a note
ProcessEventSilently(p, e) ==
  CASE e.type \in {"on", "on_silently"} ->
         ProxyNoteOn(IF e.note \in ToSet(p.held) THEN ProxyNoteOff(p, e.note, e) ELSE p,
                     e.note, e)
    [] e.type = "off" ->
         IF e.note \in ToSet(p.held) THEN ProxyNoteOff(p, e.note, e) ELSE p
    [] e.type = "controller" ->
         IF p.held = <<>> THEN p
         ELSE Send(p, Control(Head(p.held), e.value, e, FALSE))

\* process_event
ProcessEvent(p, e) ==
  CASE e.type = "on" ->
         ProxyNoteOn(IF e.note \in ToSet(p.held) THEN ProxyNoteOff(p, e.note, e) ELSE p,
                     e.note, e)
    [] e.type \in {"off", "on_silently"} ->
         IF e.note \in ToSet(p.held) THEN ProxyNoteOff(p, e.note, e) ELSE p
    [] e.type = "controller" ->
         IF p.held = <<>> THEN p
         ELSE Send(p, Control(Head(p.held), e.value, e, FALSE))

ProcessEvents(events) ==
  LET after[k \in 0..Len(events)] ==
        IF k = 0 THEN [held |-> held, out |-> <<>>]
        ELSE ProcessEvent(after[k - 1], events[k])
  IN  after[Len(events)]

-----------------------------------------------------------------------------
(* From Proxy's events to the host's. *)

\* mutant of ControllerOffset: the wrong ones are deferred
ControllerOffsetSwapped(e, last) == IF e.pre THEN last ELSE e.offset

(***************************************************************************)
(* initialize_cc_event: the sum binds tighter than "?:", so that           *)
(* "sample_offset + is_pre_note_on_setup" is the condition.                *)
(***************************************************************************)
ControllerOffset(e, last) ==
  LET sum == e.offset + (IF e.pre THEN 1 ELSE 0)
  IN  IF last > 0 THEN last ELSE IF sum # 0 THEN 0 ELSE 1

GenerateOutEvents(out, last) ==
  [i \in DOMAIN out |-> IF out[i].type = "controller"
                        THEN [out[i] EXCEPT !.offset = ControllerOffset(out[i], last)]
                        ELSE out[i]]

-----------------------------------------------------------------------------
(* The receiver takes the events of a block in the order of their offsets. *)

Latest(events, among) ==
  CHOOSE i \in among : \A j \in among \ {i} : Earlier(events, j, i)

ControlsOf(events, n) ==
  {i \in DOMAIN events : events[i].type = "controller" /\ events[i].note = n}

TonesOf(events, n) ==
  {i \in DOMAIN events : events[i].type # "controller" /\ events[i].note = n}

ControlsAfter(before, events) ==
  [n \in Note |-> LET own == ControlsOf(events, n)
                  IN  IF own = {} THEN before[n] ELSE events[Latest(events, own)].value]

SoundingAfter(before, events) ==
  {n \in Note : LET own == TonesOf(events, n)
                IN  IF own = {} THEN n \in before ELSE events[Latest(events, own)].type = "on"}

\* what Proxy sent last, in the order in which it did
MeantAfter(before, out) ==
  [n \in Note |-> LET own == ControlsOf(out, n)
                  IN  IF own = {} THEN before[n] ELSE out[Max(own)].value]

PressedAfter(before, notes) ==
  {n \in Note : LET own == TonesOf(notes, n)
                IN  IF own = {} THEN n \in before ELSE notes[Max(own)].type = "on"}

\* keys that were both pressed and released in the last instant that has them
\* in the block, when the order of these events is lost
UnsureAfter(before, notes, is_stable) ==
  {n \in Note :
     LET own == TonesOf(notes, n)
         final == notes[Max(own)]
     IN  IF own = {} THEN n \in before
         ELSE /\ ~is_stable
              /\ \E i \in own : /\ notes[i].offset = final.offset
                                /\ (notes[i].type = "on") # (final.type = "on")}

-----------------------------------------------------------------------------
EventsInit ==
  /\ is_fresh = TRUE
  /\ held = <<>> /\ keys = {} /\ unsure = {} /\ sounding = {}
  /\ meant = [n \in Note |-> INIT] /\ controls = [n \in Note |-> INIT]

ProcessBlock(notes, points, last) ==
  /\ \E events \in Sorted(notes \o points) :
       LET p == ProcessEvents(events)
           vst == GenerateOutEvents(p.out, last)
       IN  /\ held' = p.held
           /\ meant' = MeantAfter(meant, p.out)
           /\ controls' = ControlsAfter(controls, vst)
           /\ sounding' = SoundingAfter(sounding, vst)
  /\ is_fresh' = FALSE
  /\ keys' = PressedAfter(keys, notes)
  /\ unsure' = UnsureAfter(unsure, notes, IsStable(notes \o points))

EventsNext ==
  \E length \in BlockLengths :
    \E notes \in EventLists(NoteEvents(length - 1), MaxNotes),
       points \in EventLists(Points(length - 1), MaxPoints) :
         ProcessBlock(notes, points, length - 1)

EventsSpec == EventsInit /\ [][EventsNext]_event_vars

-----------------------------------------------------------------------------
(* Properties. *)

(***************************************************************************)
(* After each block the receiver sounds exactly the notes that Proxy holds,*)
(* and those are the keys that are down by the host's events in the host's *)
(* order, whatever notes start and end at the same sample, also by silent  *)
(* Note Ons, and whatever controllers come in between.  A key is in doubt  *)
(* only if it was pressed and released at one sample of the first block or *)
(* of a block too long to be sorted stably, and only until it is used      *)
(* again.                                                                  *)
(***************************************************************************)
KeysAreHeld ==
  /\ ToSet(held) = sounding
  /\ \A n \in Note \ unsure : n \in keys <=> n \in sounding

(***************************************************************************)
(* plugin.cpp:688 "In order to avoid this deferred Note On setup           *)
(* overwriting any actual, non-setup control event, we need to also defer  *)
(* all other control events": moved as they are in time, the controller    *)
(* events of a block still leave each channel at the last value that Proxy *)
(* sent to it.                                                             *)
(***************************************************************************)
LastValuesArrive == controls = meant
=============================================================================
