----------------------------- MODULE ProxyRules -----------------------------
(***************************************************************************)
(* The controller rules of src/src/proxy.cpp: which MPE channels a         *)
(* controller message goes to, and which controllers are set up or reset   *)
(* when notes come and go and their targets move.                          *)
(*                                                                         *)
(* Module Proxy has the notes in detail.  Here a full zone may give up any *)
(* note, a key that sounds may be retriggered or refused, and Note Offs    *)
(* are never deferred: that covers every order in which Proxy starts and   *)
(* ends notes.  "controls" is the receiver's state: what it was last told  *)
(* on each channel about each controller.                                  *)
(***************************************************************************)
EXTENDS Integers, Sequences, SequencesExt

CONSTANTS
  Note,           \* the MIDI notes that are ever played
  Zones,          \* the zone configurations the user may ask for
  ControllerId,   \* the controllers that messages are about
  RuleSets,       \* the rules one may start with, sequences of RuleSetting
  Edits,          \* bound: changes of the first rule while playing, <<from, to>>
  Inputs,         \* controller messages from the host: <<controller, level>>
  TimeOffsets     \* time offsets of messages within a block

INVALID_CHANNEL == 255
SUSTAIN_PEDAL == "sustain"

(***************************************************************************)
(* Controller values are three levels, the middle one in the middle of the *)
(* range.  The receiver's value of a controller it was never told is Unset.*)
(***************************************************************************)
Level == 0..2
Unset == 3

Picks == {"lowest", "highest", "oldest", "newest"}
Sides == {"any", "below", "above"}

Target == [pick : Picks, side : Sides] \cup [pick : {"all"}, side : {"below", "above"}]
            \cup [pick : {"global"}, side : {"any"}]

RuleSetting == [target : Target, reset : {"off", "last", "init"},
                in_cc : ControllerId \cup {"none", "learn"},
                out_cc : ControllerId \cup {"none", "learn"},
                init_value : Level, invert : BOOLEAN, fallback : BOOLEAN]

Zone == [manager_channel : {0, 15}, member_channels : Seq(1..14), anchor : 0..127]

ASSUME NoteAssumption == Note \subseteq 0..127 /\ Note # {}
ASSUME ZoneAssumption == /\ Zones \subseteq Zone /\ Zones # {}
                         /\ \A z \in Zones : IsInjective(z.member_channels)
ASSUME ControllerAssumption == /\ SUSTAIN_PEDAL \in ControllerId
                               /\ {"none", "learn"} \cap ControllerId = {}
ASSUME RuleAssumption == RuleSets \subseteq Seq(RuleSetting) /\ Edits \subseteq RuleSetting \X RuleSetting
ASSUME InputAssumption == Inputs \subseteq ControllerId \X Level

VARIABLES
  rules, zone,
  note_stack,                   \* the held notes, newest first
  channels_by_notes,            \* the channels of the held notes
  available_channels,           \* FIFO of unused member channels
  channel_stats,                \* the code's channel_stats, _below and _above
  last_input_value,             \* of each rule
  previous_controller_message,  \* of each controller
  controls,                     \* receiver: what it was last told
  unsettled                     \* what an edit of the rules has yet to reach

vars == <<rules, zone, note_stack, channels_by_notes, available_channels, channel_stats,
          last_input_value, previous_controller_message, controls, unsettled>>

-----------------------------------------------------------------------------
(* Rules. *)

\* mutant of Distort: inverts around the wrong level
DistortAroundOne(rule, level) == IF rule.invert THEN 1 - level ELSE level

\* the curve and the midpoint bend the levels in between, inverting swaps the ends
Distort(rule, level) == IF rule.invert THEN 2 - level ELSE level

\* mutant of NeedsReset: the side of the target counts for single notes, too
NeedsResetOnItsSide(rule, side) ==
  rule.reset # "off" /\ rule.target.pick # "global" /\ rule.target.side \in {"any", side}

\* needs_reset_for_note_event: side is the side of the anchor that the note is on
NeedsReset(rule, side) ==
  /\ rule.reset # "off" /\ rule.target.pick # "global"
  /\ rule.target.pick = "all" => rule.target.side = side

\* mutant of ResetValue: all notes of a half are reset as single notes are
ResetValueOfSingles(i, last) ==
  Distort(rules[i], IF rules[i].reset = "last" THEN last[i] ELSE rules[i].init_value)

ResetValue(i, last) ==
  Distort(rules[i], IF rules[i].reset = "last" \/ rules[i].target.pick = "all"
                    THEN last[i] ELSE rules[i].init_value)

(***************************************************************************)
(* The receiver after every rule i has sent level[i] to the channels to[i]:*)
(* where two rules meet the later one has the last word.  Nothing is sent  *)
(* for output controllers that are none or MIDI Learn.                     *)
(***************************************************************************)
SendByRules(told, to, level) ==
  [c \in DOMAIN told |-> [cc \in ControllerId |->
     LET senders == {i \in DOMAIN rules : rules[i].out_cc = cc /\ c \in to[i]}
     IN  IF senders = {} THEN told[c][cc] ELSE level[Max(senders)]]]

SendTo(told, c, cc, level) == [told EXCEPT ![c][cc] = level]

-----------------------------------------------------------------------------
(* Notes, their channels, and the statistics of channels. *)

Side(n) == IF n >= zone.anchor THEN "above" ELSE "below"

\* where the notes of the code's note_stack, note_stack_below or note_stack_above are
Half(stack, side) == {i \in DOMAIN stack : side \in {"any", Side(stack[i])}}

HalfNotes(stack, side) == {stack[i] : i \in Half(stack, side)}

NoStats == [pick \in Picks |-> INVALID_CHANNEL]

PickedNote(stack, side) ==
  [lowest |-> Min(HalfNotes(stack, side)), highest |-> Max(HalfNotes(stack, side)),
   oldest |-> stack[Max(Half(stack, side))], newest |-> stack[Min(Half(stack, side))]]

MakeStats(stack, channel, side) ==
  IF Half(stack, side) = {} THEN NoStats
  ELSE [pick \in Picks |-> channel[PickedNote(stack, side)[pick]]]

AllStats(stack, channel) == [side \in Sides |-> MakeStats(stack, channel, side)]

(***************************************************************************)
(* The handlers compose push_note_on and push_note_off, so these work on a *)
(* record of what the two change.                                          *)
(***************************************************************************)
Voices == [stack |-> note_stack, channel |-> channels_by_notes,
           stats |-> channel_stats, controls |-> controls]

(***************************************************************************)
(* reset_outdated_targets_if_changed: the target of rule i according to    *)
(* the statistics a, if it is none according to b.                         *)
(***************************************************************************)
OutdatedTarget(i, a, b) ==
  LET t == rules[i].target
  IN  IF t.pick \in Picks
      THEN {a[t.side][t.pick]} \ {b[t.side][t.pick], INVALID_CHANNEL}
      ELSE {}

ResetValues(last) == [i \in DOMAIN rules |-> ResetValue(i, last)]

(***************************************************************************)
(* push_resets_for_new_note: "outdated" has the rules' previous targets    *)
(* when it is called before the Note On, and is empty after it.            *)
(***************************************************************************)
SetUpNote(told, c, n, is_first_note, outdated) ==
  LET to == [i \in DOMAIN rules |->
               IF NeedsReset(rules[i], Side(n))
               THEN {c} \cup outdated[i]
                      \cup (IF is_first_note /\ rules[i].fallback
                            THEN {zone.manager_channel} ELSE {})
               ELSE {}]
  IN  SendByRules(told, to, ResetValues(last_input_value))

\* mutant of StatsOfHalf: the other half's statistics are remade
StatsOfOtherHalf(v, n) ==
  [side \in Sides |-> IF side # Side(n)
                      THEN MakeStats(v.stack, v.channel, side) ELSE v.stats[side]]

\* a new note changes the statistics of all notes and of its half
StatsOfHalf(v, n) ==
  [side \in Sides |-> IF side \in {"any", Side(n)}
                      THEN MakeStats(v.stack, v.channel, side) ELSE v.stats[side]]

\* note n begins on channel c
Begin(v, c, n) ==
  [v EXCEPT !.stack = <<n>> \o @,
            !.channel = [m \in DOMAIN @ \cup {n} |-> IF m = n THEN c ELSE @[m]]]

\* mutant of BeforeNoteOn: the manager channel is reset behind the Note On only
BeforeNoteOnOfLaterNote(v, c, n) ==
  LET held == Begin(v, c, n)
      stats == StatsOfHalf(held, n)
      outdated == [i \in DOMAIN rules |-> OutdatedTarget(i, v.stats, stats) \ {c}]
  IN  [held EXCEPT !.stats = stats, !.controls = SetUpNote(@, c, n, FALSE, outdated)]

\* what is held, and what the receiver was told, when the Note On is sent
BeforeNoteOn(v, c, n) ==
  LET held == Begin(v, c, n)
      stats == StatsOfHalf(held, n)
      outdated == [i \in DOMAIN rules |-> OutdatedTarget(i, v.stats, stats) \ {c}]
  IN  [held EXCEPT !.stats = stats,
                   !.controls = SetUpNote(@, c, n, v.stack = <<>>, outdated)]

PushNoteOn(v, c, n) ==
  [BeforeNoteOn(v, c, n) EXCEPT
     !.controls = SetUpNote(@, c, n, v.stack = <<>>, [i \in DOMAIN rules |-> {}])]

\* mutant of PushNoteOff: the note that was the target is reset, not the next one
PushNoteOffResetsOld(v, n) ==
  LET stack == RemoveFirst(v.stack, n)
      stats == AllStats(stack, v.channel)
      to == [i \in DOMAIN rules |-> IF NeedsReset(rules[i], Side(n))
                                    THEN OutdatedTarget(i, v.stats, stats) ELSE {}]
  IN  [v EXCEPT !.stack = stack, !.stats = stats,
                !.channel = Restrict(@, ToSet(stack)),
                !.controls = SendByRules(@, to, ResetValues(last_input_value))]

\* what becomes a target of a rule is reset
PushNoteOff(v, n) ==
  LET stack == RemoveFirst(v.stack, n)
      stats == AllStats(stack, v.channel)
      to == [i \in DOMAIN rules |-> IF NeedsReset(rules[i], Side(n))
                                    THEN OutdatedTarget(i, stats, v.stats) ELSE {}]
  IN  [v EXCEPT !.stack = stack, !.stats = stats,
                !.channel = Restrict(@, ToSet(stack)),
                !.controls = SendByRules(@, to, ResetValues(last_input_value))]

\* the newest note is popped, its channel's pedal is let up, and it ends
EndNewest(v) ==
  LET n == Head(v.stack)
  IN  PushNoteOff([v EXCEPT !.stack = Tail(@),
                            !.controls = SendTo(@, v.channel[n], SUSTAIN_PEDAL, 0)], n)

(***************************************************************************)
(* Lets up the sustain pedal and ends each note, the newest first, with    *)
(* the resets that this causes.                                            *)
(***************************************************************************)
StopAllNotes(v) ==
  LET stopped[k \in 0..Len(v.stack)] ==
        IF k = 0
        THEN [v EXCEPT !.controls = SendTo(@, zone.manager_channel, SUSTAIN_PEDAL, 0)]
        ELSE EndNewest(stopped[k - 1])
  IN  IF v.stack = <<>> THEN v ELSE stopped[Len(v.stack)]

\* mutant of ResetGlobalControllers: on the manager channel of the zone before
ResetGlobalControllersBefore(told, z) ==
  SendByRules(told,
    [i \in DOMAIN rules |-> IF rules[i].reset # "off" /\ rules[i].target.pick = "global"
                            THEN {zone.manager_channel} ELSE {}],
    [i \in DOMAIN rules |-> Distort(rules[i], rules[i].init_value)])

\* reset_rules_and_global_controllers, with z.manager_channel for manager_channel
ResetGlobalControllers(told, z) ==
  SendByRules(told,
    [i \in DOMAIN rules |-> IF rules[i].reset # "off" /\ rules[i].target.pick = "global"
                            THEN {z.manager_channel} ELSE {}],
    [i \in DOMAIN rules |-> Distort(rules[i], rules[i].init_value)])

-----------------------------------------------------------------------------
InitialValues == [i \in DOMAIN rules |-> rules[i].init_value]

ChannelsInUse ==
  UNION {{z.manager_channel} \cup ToSet(z.member_channels) : z \in Zones}

\* the receiver before the first message, with its pedal up
ToldNothing == [c \in ChannelsInUse |->
                  [cc \in ControllerId |-> IF cc = SUSTAIN_PEDAL THEN 0 ELSE Unset]]

(***************************************************************************)
(* A plugin that was resumed once: the constructor sends nothing.          *)
(***************************************************************************)
Init ==
  /\ rules \in RuleSets /\ zone \in Zones
  /\ note_stack = <<>>
  /\ channels_by_notes = <<>>
  /\ available_channels = zone.member_channels
  /\ channel_stats = [side \in Sides |-> NoStats]
  /\ last_input_value = InitialValues
  /\ previous_controller_message = [cc \in ControllerId |-> <<>>]
  /\ controls = ResetGlobalControllers(ToldNothing, zone)
  /\ unsettled = {}

Held == ToSet(note_stack)

Become(v) == /\ note_stack' = v.stack
             /\ channels_by_notes' = v.channel
             /\ channel_stats' = v.stats
             /\ controls' = v.controls

SetUpUnchanged == UNCHANGED <<rules, zone, last_input_value, previous_controller_message>>

\* once no note is left that began before an edit, all notes follow the new rules
Settle == unsettled' = IF note_stack' = <<>> THEN unsettled \ {"notes"} ELSE unsettled

Allocate(n) ==
  /\ n \notin Held /\ available_channels # <<>>
  /\ available_channels' = Tail(available_channels)
  /\ Become(PushNoteOn(Voices, Head(available_channels), n))
  /\ SetUpUnchanged /\ Settle

\* note n takes the channel of the held note m, which may be the same note
TakeOver(n, m) ==
  /\ m \in Held
  /\ n = m \/ (n \notin Held /\ available_channels = <<>>)
  /\ Become(PushNoteOn(PushNoteOff(Voices, m), channels_by_notes[m], n))
  /\ SetUpUnchanged /\ Settle /\ UNCHANGED available_channels

Release(n) ==
  /\ n \in Held
  /\ Become(PushNoteOff(Voices, n))
  /\ available_channels' = Append(available_channels, channels_by_notes[n])
  /\ SetUpUnchanged /\ Settle

(***************************************************************************)
(* Controller messages.                                                    *)
(***************************************************************************)
Matches(rule, cc) == rule.in_cc \in {cc, "learn"}

\* the channels that process_controller_event collects for a rule
TargetsOf(rule) ==
  LET channel == channels_by_notes
      of == MakeStats(note_stack, channel, rule.target.side)
  IN  IF (rule.fallback /\ note_stack = <<>>) \/ rule.target.pick = "global"
      THEN {zone.manager_channel}
      ELSE IF rule.target.pick = "all"
           THEN {channel[n] : n \in HalfNotes(note_stack, rule.target.side)}
           ELSE {of[rule.target.pick]} \ {INVALID_CHANNEL}

ProcessControllerEvent(cc, level) ==
  LET matched == {i \in DOMAIN rules : Matches(rules[i], cc)}
      to == [i \in DOMAIN rules |-> IF i \in matched THEN TargetsOf(rules[i]) ELSE {}]
  IN  /\ rules' = [i \in DOMAIN rules |->
                     IF i \in matched THEN [rules[i] EXCEPT !.in_cc = cc] ELSE rules[i]]
      /\ last_input_value' = [i \in DOMAIN rules |->
                                IF i \in matched THEN level ELSE last_input_value[i]]
      /\ controls' = IF matched = {}
                     THEN SendTo(controls, zone.manager_channel, cc, level)
                     ELSE SendByRules(controls, to,
                            [i \in DOMAIN rules |-> Distort(rules[i], level)])

\* a message equal in value and time offset to the previous one is taken for a clone
ControlChange(cc, level, time_offset) ==
  /\ previous_controller_message[cc] # <<time_offset, level>>
  /\ previous_controller_message' =
       [previous_controller_message EXCEPT ![cc] = <<time_offset, level>>]
  /\ ProcessControllerEvent(cc, level)
  /\ UNCHANGED <<zone, note_stack, channels_by_notes, available_channels,
                 channel_stats, unsettled>>

(***************************************************************************)
(* A rule is edited: nothing is sent until notes or controllers come.      *)
(***************************************************************************)
EditRule(edit) ==
  /\ rules # <<>> /\ rules[1] = edit[1]
  /\ rules' = [rules EXCEPT ![1] = edit[2]]
  /\ unsettled' = IF note_stack = <<>> THEN {"global"} ELSE {"global", "notes"}
  /\ UNCHANGED <<zone, note_stack, channels_by_notes, available_channels, channel_stats,
                 last_input_value, previous_controller_message, controls>>

(***************************************************************************)
(* reset and update_zone_config: the notes end in the old zone, the rules  *)
(* start afresh in the new one.  The Multi Channel Messages that announce  *)
(* it change no controller of a rule.                                      *)
(***************************************************************************)
Reset(z) ==
  LET stopped == StopAllNotes(Voices)
  IN  /\ Become([stopped EXCEPT !.controls = ResetGlobalControllers(@, z)])
      /\ zone' = z
      /\ available_channels' = z.member_channels
      /\ last_input_value' = InitialValues
      /\ unsettled' = {}
      /\ UNCHANGED <<rules, previous_controller_message>>

Next ==
  \/ \E n \in Note : Allocate(n) \/ Release(n) \/ \E m \in Note : TakeOver(n, m)
  \/ \E input \in Inputs, t \in TimeOffsets : ControlChange(input[1], input[2], t)
  \/ \E edit \in Edits : EditRule(edit)
  \/ \E z \in Zones : Reset(z)

Spec == Init /\ [][Next]_vars

-----------------------------------------------------------------------------
(* Properties. *)

(* Every variable keeps its type. *)
TypeOK ==
  LET Channel == ChannelsInUse \cup {INVALID_CHANNEL}
  IN  /\ rules \in Seq(RuleSetting) /\ zone \in Zones
      /\ note_stack \in Seq(Note) /\ channels_by_notes \in [Held -> ChannelsInUse]
      /\ available_channels \in Seq(ChannelsInUse)
      /\ channel_stats \in [Sides -> [Picks -> Channel]]
      /\ last_input_value \in [DOMAIN rules -> Level]
      /\ previous_controller_message \in
           [ControllerId -> {<<>>} \cup (TimeOffsets \X Level)]
      /\ controls \in [ChannelsInUse -> [ControllerId -> Level \cup {Unset}]]
      /\ unsettled \subseteq {"notes", "global"}

(***************************************************************************)
(* The cached statistics of channels are those of the notes held now, for  *)
(* the whole keyboard and for both halves, though a Note On remakes one    *)
(* half only: the resets of the next note are decided by comparing them.   *)
(***************************************************************************)
StatsAreCurrent == channel_stats = AllStats(note_stack, channels_by_notes)

\* no other rule writes the same controller, and there is something to write
Alone(i) == /\ rules[i].out_cc \in ControllerId
            /\ \A j \in DOMAIN rules \ {i} : rules[j].out_cc # rules[i].out_cc

\* messages about the controller that rule i writes do not go past the rules
Covered(i) == \E j \in DOMAIN rules : rules[j].in_cc = rules[i].out_cc

SingleRules(reset) == {i \in DOMAIN rules :
  Alone(i) /\ rules[i].target.pick \in Picks /\ rules[i].reset = reset}

TargetChannel(i) ==
  MakeStats(note_stack, channels_by_notes, rules[i].target.side)[rules[i].target.pick]

Sounding == {channels_by_notes[n] : n \in Held}

(***************************************************************************)
(* README.md "LST: send the value that was received most recently for this *)
(* rule to the affected notes": whatever notes begin, end, are retriggered *)
(* or give up their channel, the note that is the target of such a rule is *)
(* where the rule's last input put it.                                     *)
(***************************************************************************)
LastValueFollowsTheTarget ==
  "notes" \notin unsettled =>
    \A i \in SingleRules("last") :
      TargetChannel(i) \in Sounding =>
        controls[TargetChannel(i)][rules[i].out_cc]
          = Distort(rules[i], last_input_value[i])

(***************************************************************************)
(* README.md "INI: send the initial value": at most the target of such a   *)
(* rule is anywhere else than at the initial value; all other notes are    *)
(* back at it, on both sides of the anchor, and so is the manager channel  *)
(* of a rule with global fallback, which would bend them all.              *)
(***************************************************************************)
OthersAreAtInitialValue ==
  "notes" \notin unsettled =>
    \A i \in SingleRules("init") :
      LET initial == Distort(rules[i], rules[i].init_value)
          cc == rules[i].out_cc
      IN  /\ \A c \in Sounding \ {TargetChannel(i)} : controls[c][cc] = initial
          /\ TargetChannel(i) \in Sounding =>
               controls[TargetChannel(i)][cc]
                 \in {initial, Distort(rules[i], last_input_value[i])}
          /\ rules[i].fallback /\ Covered(i) /\ Held # {} =>
               controls[zone.manager_channel][cc] = initial

(***************************************************************************)
(* README.md "All BA: send to all notes below the anchor": all notes of    *)
(* the half have the rule's last input, those that began after it as well. *)
(***************************************************************************)
HalfMovesTogether ==
  "notes" \notin unsettled =>
    \A i \in DOMAIN rules :
      Alone(i) /\ rules[i].target.pick = "all" /\ rules[i].reset # "off" =>
        \A n \in HalfNotes(note_stack, rules[i].target.side) :
          controls[channels_by_notes[n]][rules[i].out_cc]
            = Distort(rules[i], last_input_value[i])

(***************************************************************************)
(* README.md "the output controller of the rule will be reset when the     *)
(* plugin is re-initialized by the host, and when the zone configuration   *)
(* is changed": a global rule's controller on the manager channel in force *)
(* is where the input since then, or the initial value, puts it.           *)
(***************************************************************************)
GlobalValueIsCurrent ==
  "global" \notin unsettled =>
    \A i \in DOMAIN rules :
      Alone(i) /\ Covered(i) /\ rules[i].target.pick = "global" /\ rules[i].reset # "off" =>
        controls[zone.manager_channel][rules[i].out_cc]
          = Distort(rules[i], last_input_value[i])

(***************************************************************************)
(* proxy.cpp:519 "we send a setup sequence both before and after the Note  *)
(* On": the receiver starts a note with all its controllers in place, as   *)
(* the sequence after the Note On changes nothing any more, for any rules. *)
(***************************************************************************)
NotesStartWithTheirSetUp ==
  \A n \in Note \ Held : available_channels # <<>> =>
    LET c == Head(available_channels)
    IN  PushNoteOn(Voices, c, n).controls = BeforeNoteOn(Voices, c, n).controls
=============================================================================
