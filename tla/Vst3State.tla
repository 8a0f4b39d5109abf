----------------------------- MODULE Vst3State ------------------------------
(***************************************************************************)
(* The settings of the VST 3 plugin (src/src/plugin/vst3/plugin.cpp) and   *)
(* who changes them: the host's main thread, which loads and saves states  *)
(* and runs the editor's widgets, and the audio thread, which alone        *)
(* touches Proxy's parameters.  They share the queue messages and, read    *)
(* only and one by one, the copies of the parameters.  All parameters are  *)
(* inputs of rules, which may learn.                                       *)
(***************************************************************************)
EXTENDS ProxyParams

CONSTANTS
  QueueCapacity, \* of Proxy's messages
  MidiLearn,     \* the value "MIDI Learn"; not in Values if no rule learns
  Writers,       \* who edits: "widgets", "automation"
  MaxCalls       \* bound: calls and edits

ASSUME QueueCapacityAssumption == QueueCapacity \in Nat \ {0}
ASSUME WritersAssumption == Writers \subseteq {"widgets", "automation"}
ASSUME MaxCallsAssumption == MaxCalls \in Nat

VARIABLES
  px,            \* Proxy's parameters
  messages,      \* Proxy's messages, a queue that drops what does not fit
  main,          \* the main thread: what it is doing and what it has yet to push or read
  audio,         \* the audio thread: its place in process() and the messages it counted
  notices,       \* MSG_PROXY_DIRTY sent and not delivered yet
  is_modified,   \* whether the host knows of unsaved changes
  saved,         \* the settings that the host saved or loaded last
  edited,        \* whether anybody changed a setting since a state was last loaded
  calls          \* how many calls and edits there were

vars == <<px, messages, main, audio, notices, is_modified, saved, edited, calls>>
host_vars == <<is_modified, saved>>

Mains == [pc : {"idle", "set_state", "get_state"}, todo : Seq(Messages), read : Seq(Values)]
Idle == [pc |-> "idle", todo |-> <<>>, read |-> <<>>]

Init ==
  /\ px = FreshParams
  /\ messages = <<>>
  /\ main = Idle
  /\ audio = [pc |-> "idle", left |-> 0]
  /\ notices = 0
  /\ is_modified = FALSE
  /\ saved = Defaults
  /\ edited = FALSE
  /\ calls = 0

PushMessage(m) == messages' = IF Len(messages) < QueueCapacity THEN Append(messages, m)
                                                               ELSE messages

Count == calls < MaxCalls /\ calls' = calls + 1

-----------------------------------------------------------------------------
(* The main thread. *)

\* what setState pushes
StateMessages(settings) == ImportMessages(settings) \o <<ClearDirtyFlag>>

SetState(settings) ==
  /\ main.pc = "idle" /\ Count
  /\ main' = [Idle EXCEPT !.pc = "set_state", !.todo = StateMessages(settings)]
  /\ saved' = settings
  /\ is_modified' = FALSE
  /\ edited' = FALSE
  /\ UNCHANGED <<px, messages, audio, notices>>

PushNext ==
  /\ main.pc = "set_state"
  /\ PushMessage(Head(main.todo))
  /\ main' = IF Len(main.todo) = 1 THEN Idle ELSE [main EXCEPT !.todo = Tail(@)]
  /\ UNCHANGED <<px, audio, notices, host_vars, edited, calls>>

\* getState, once the audio thread has seen everything that was pushed
GetState ==
  /\ main.pc = "idle" /\ Count
  /\ messages = <<>> /\ audio.pc = "idle"
  /\ main' = [Idle EXCEPT !.pc = "get_state"]
  /\ UNCHANGED <<px, messages, audio, notices, host_vars, edited>>

ReadRatio ==
  /\ main.pc = "get_state"
  /\ LET read == Append(main.read, Serialize(px)[Len(main.read) + 1])
     IN  IF Len(read) < ParamCount
           THEN main' = [main EXCEPT !.read = read] /\ UNCHANGED host_vars
           ELSE main' = Idle /\ saved' = read /\ is_modified' = FALSE
  /\ UNCHANGED <<px, messages, audio, notices, edited, calls>>

\* a widget sends its value also when Proxy has it already
TurnWidget(id, value) ==
  /\ main.pc = "idle" /\ "widgets" \in Writers /\ Count
  /\ PushMessage(SetParam(id, value))
  /\ edited' = TRUE
  /\ UNCHANGED <<px, main, audio, notices, host_vars>>

\* a widget of the open editor polls its parameter
RefreshWidget(id) ==
  /\ main.pc = "idle" /\ "widgets" \in Writers /\ Count
  /\ PushMessage(RefreshParam(id))
  /\ UNCHANGED <<px, main, audio, notices, host_vars, edited>>

\* mutant of Notify: without a message
NotifyUnasked ==
  /\ main.pc = "idle"
  /\ notices' = notices - 1
  /\ is_modified' = TRUE
  /\ UNCHANGED <<px, messages, main, audio, saved, edited, calls>>

\* Controller::notify with MSG_PROXY_DIRTY
Notify ==
  /\ main.pc = "idle" /\ notices > 0
  /\ notices' = notices - 1
  /\ is_modified' = TRUE
  /\ UNCHANGED <<px, messages, main, audio, saved, edited, calls>>

-----------------------------------------------------------------------------
(* The audio thread's process(). *)

Process ==
  /\ audio.pc = "idle"
  /\ audio' = [pc |-> "messages", left |-> Len(messages)]
  /\ UNCHANGED <<px, messages, main, notices, host_vars, edited, calls>>

\* a round of the loop of process_messages
ProcessNextMessage ==
  /\ audio.pc = "messages" /\ audio.left > 0
  /\ px' = ProcessMessage(px, Head(messages))
  /\ messages' = Tail(messages)
  /\ audio' = [audio EXCEPT !.left = @ - 1]
  /\ UNCHANGED <<main, notices, host_vars, edited, calls>>

StartEvents ==
  /\ audio.pc = "messages" /\ audio.left = 0
  /\ audio' = [audio EXCEPT !.pc = "events"]
  /\ UNCHANGED <<px, messages, main, notices, host_vars, edited, calls>>

\* process_event with a change of an exported parameter
Automate(id, value) ==
  /\ audio.pc = "events" /\ "automation" \in Writers /\ Count
  /\ px' = HandleSetParam(px, id, value)
  /\ edited' = TRUE
  /\ UNCHANGED <<messages, main, audio, notices, host_vars>>

\* process_controller_event, for the rules that wait for a controller
Learn(value) ==
  /\ audio.pc = "events" /\ Count
  /\ \E id \in ParamId : px.params[id] = MidiLearn
  /\ value # MidiLearn
  /\ px' = [px EXCEPT !.params = [id \in ParamId |->
                                    IF @[id] = MidiLearn THEN value ELSE @[id]],
                      !.is_dirty = TRUE]
  /\ edited' = TRUE
  /\ UNCHANGED <<messages, main, audio, notices, host_vars>>

FinishProcess ==
  /\ audio.pc = "events"
  /\ audio' = [pc |-> "idle", left |-> 0]
  /\ \/ /\ px.is_dirty
        /\ px' = [px EXCEPT !.is_dirty = FALSE, !.hides = FALSE]
        /\ notices' = notices + 1
     \/ ~px.is_dirty /\ UNCHANGED <<px, notices>>
  /\ UNCHANGED <<messages, main, host_vars, edited, calls>>

MainNext ==
  \/ \E settings \in Settings : SetState(settings)
  \/ PushNext \/ GetState \/ ReadRatio \/ Notify
  \/ \E id \in ParamId, value \in Values : TurnWidget(id, value)
  \/ \E id \in ParamId : RefreshWidget(id)

AudioNext ==
  \/ Process \/ ProcessNextMessage \/ StartEvents \/ FinishProcess
  \/ \E id \in ParamId, value \in Values : Automate(id, value)
  \/ \E value \in Values : Learn(value)

Next == MainNext \/ AudioNext

Spec == Init /\ [][Next]_vars

-----------------------------------------------------------------------------
(* Properties. *)

(* Every variable keeps its type. *)
TypeOK ==
  /\ px \in ParamStates
  /\ messages \in Seq(Messages) /\ Len(messages) <= QueueCapacity
  /\ main \in Mains
  /\ audio \in [pc : {"idle", "messages", "events"}, left : 0..QueueCapacity]
  /\ notices \in Nat /\ is_modified \in BOOLEAN /\ edited \in BOOLEAN
  /\ saved \in Settings
  /\ calls \in 0..MaxCalls

\* nothing is on its way between the threads
Quiet ==
  /\ main.pc = "idle" /\ audio.pc = "idle"
  /\ messages = <<>> /\ notices = 0

(***************************************************************************)
(* However blocks and edits interleave with the messages of a state that   *)
(* is loaded, in the end exactly that state is in force, unless somebody   *)
(* changed a setting since.                                                *)
(***************************************************************************)
LoadedStateIsInForce == Quiet /\ ~edited => px.ratios = saved /\ px.params = saved

\* a setting is not as the host saved or loaded it last; a rule that was saved
\* before it was known to have learnt may differ
IsUnsaved == \E id \in ParamId : px.params[id] # saved[id] /\ saved[id] # MidiLearn

(***************************************************************************)
(* The host knows when the settings are not those it saved or loaded last  *)
(* (tests/test_proxy.cpp: "when_proxy_config_changes_then_proxy_becomes_   *)
(* dirty"), so that it never lets the user quit without saving them.       *)
(***************************************************************************)
UnsavedChangesAreKnown == Quiet /\ IsUnsaved => is_modified

(***************************************************************************)
(* Only a message that repeats a value keeps a change from the host: it    *)
(* does not get lost between the threads, among the messages of a state    *)
(* that is loaded, while a state is read for saving, or in a block that    *)
(* began before it.                                                        *)
(***************************************************************************)
OnlyRepeatsHideChanges == Quiet /\ IsUnsaved => is_modified \/ px.hides

(***************************************************************************)
(* Other threads read current values, apart from a parameter that MIDI     *)
(* Learn has just set: those still see "MIDI Learn".                       *)
(***************************************************************************)
OnlyLearningLags ==
  \A id \in ParamId : px.ratios[id] \in {px.params[id], MidiLearn}

(***************************************************************************)
(* README.md, MIDI Learn: "the first controller message that is received   *)
(* after selecting this option will be assigned to the input of the rule". *)
(* So a state that was saved after that has the controller.                *)
(***************************************************************************)
SavedStateHasLearned == Quiet /\ ~is_modified => saved = px.params
=============================================================================
