----------------------------- MODULE FstPlugin ------------------------------
(***************************************************************************)
(* Programs in the FST plugin (src/src/plugin/fst/plugin.cpp).  The audio  *)
(* thread owns the bank and Proxy's parameters; the GUI thread answers the *)
(* host from copies.  Two queues go to the audio thread, one for calls     *)
(* with strings and one for the others, and one comes back; the editor's   *)
(* knobs have Proxy's own queue.  A step of a thread pops or pushes one    *)
(* message of a queue, apart from draining a queue, which moves no other   *)
(* state that the other thread can see.                                    *)
(***************************************************************************)
EXTENDS ProxyParams, SequencesExt

CONSTANTS
  Programs,      \* indices of programs
  Names,         \* their names
  DefaultName,   \* the name of a program that was given none
  BuiltInName,   \* the name of the first program at first
  HostBanks,     \* banks that the host may load
  QueueCapacity, \* of each queue between the threads
  MinSamples,    \* min_samples_before_next_bank_update
  BlockSizes,    \* sample counts of blocks
  Calls,         \* which calls the host and the user make
  MaxCalls       \* bound: calls and edits

CallKinds == {"set_program", "set_program_name", "set_patch", "set_bank", "get_patch",
              "set_parameter", "knob", "resume", "set_sample_rate"}

Program == [name : Names, settings : Settings]

ASSUME ProgramsAssumption == 0 \in Programs
ASSUME NamesAssumption == {DefaultName, BuiltInName} \subseteq Names
ASSUME HostBanksAssumption == HostBanks \subseteq [Programs -> Program]
ASSUME QueueCapacityAssumption == QueueCapacity \in Nat \ {0}
ASSUME SamplesAssumption == MinSamples \in Nat /\ BlockSizes \subseteq Nat \ {0}
ASSUME CallsAssumption == Calls \subseteq CallKinds
ASSUME MaxCallsAssumption == MaxCalls \in Nat

VARIABLES
  px,                             \* Proxy's parameters
  messages,                       \* Proxy's messages
  to_audio_messages, to_audio_string_messages, to_gui_messages,
  bank,                           \* the audio thread's programs
  current_program,                \* and the index of the current one
  need_bank_update,               \* whether the GUI thread's copy is out of date
  remaining,                      \* remaining_samples_before_next_bank_update
  audio,                          \* the audio thread: its place in a block, the messages
                                  \* it counted, the program to change to, what to publish
  gui,                            \* the GUI thread's copies, and what it has yet to push
  calls

audio_vars == <<px, messages, bank, current_program, need_bank_update, remaining, audio>>
vars == <<audio_vars, to_audio_messages, to_audio_string_messages, to_gui_messages, gui, calls>>

Patch(name, settings) == [name |-> name, settings |-> settings]

IdleAudio(index) == [pc |-> "idle", left |-> 0, new_program |-> index, todo |-> <<>>]

BuiltInPrograms ==
  [i \in Programs |-> Patch(IF i = 0 THEN BuiltInName ELSE DefaultName, Defaults)]

Init ==
  /\ px = FreshParams
  /\ messages = <<>>
  /\ to_audio_messages = <<>> /\ to_audio_string_messages = <<>> /\ to_gui_messages = <<>>
  /\ bank = BuiltInPrograms
  /\ current_program = 0
  /\ need_bank_update = FALSE
  /\ remaining \in {0, MinSamples}
  /\ audio = IdleAudio(current_program)
  /\ gui = [current_program_index |-> current_program,
            current_patch |-> bank[current_program],
            program_names |-> [i \in Programs |-> bank[i].name],
            serialized_bank |-> bank,
            todo |-> <<>>]
  /\ calls = 0

\* SPSCQueue's push
Push(queue, m) == IF Len(queue) < QueueCapacity THEN Append(queue, m) ELSE queue

-----------------------------------------------------------------------------
(* The audio thread: generate_samples. *)

\* bank[index].import(Serializer::serialize(proxy)): no name, so the name stays
ImportedInto(programs, index, p) == [programs EXCEPT ![index].settings = Serialize(p)]

\* import_settings_in_audio_thread and clear_dirty_flag
ImportClean(p, settings) ==
  [ImportSettings(ProcessMessages(p, messages), settings) EXCEPT !.is_dirty = FALSE]

PrepareProcessing ==
  /\ audio.pc = "idle"
  /\ audio' = [audio EXCEPT !.pc = "strings", !.left = Len(to_audio_string_messages)]
  /\ UNCHANGED <<px, messages, to_audio_messages, to_audio_string_messages, to_gui_messages,
                 bank, current_program, need_bank_update, remaining, gui, calls>>

StringsDone ==
  /\ audio.pc = "strings" /\ audio.left = 0
  /\ audio' = [audio EXCEPT !.pc = "messages", !.left = Len(to_audio_messages)]
  /\ UNCHANGED <<px, messages, to_audio_messages, to_audio_string_messages, to_gui_messages,
                 bank, current_program, need_bank_update, remaining, gui, calls>>

HandleRenameProgram(name) ==
  /\ bank' = [bank EXCEPT ![current_program].name = name]
  /\ UNCHANGED <<px, messages>>

HandleImportPatch(settings) ==
  /\ px' = ImportClean(px, settings)
  /\ messages' = <<>>
  /\ bank' = ImportedInto(bank, current_program, px')

HandleImportBank(programs) ==
  /\ bank' = programs
  /\ px' = ImportClean(px, programs[current_program].settings)
  /\ messages' = <<>>

PopString ==
  /\ audio.pc = "strings" /\ audio.left > 0
  /\ LET m == Head(to_audio_string_messages)
     IN  \/ m.type = "RENAME_PROGRAM" /\ HandleRenameProgram(m.name)
         \/ m.type = "IMPORT_PATCH" /\ HandleImportPatch(m.patch.settings)
         \/ m.type = "IMPORT_BANK" /\ HandleImportBank(m.programs)
  /\ to_audio_string_messages' = Tail(to_audio_string_messages)
  /\ need_bank_update' = TRUE
  /\ audio' = [audio EXCEPT !.left = @ - 1]
  /\ UNCHANGED <<to_audio_messages, to_gui_messages, current_program, remaining, gui, calls>>

\* handle_change_program up to process_messages, and the other messages
PopMessage ==
  /\ audio.pc = "messages" /\ audio.left > 0
  /\ LET m == Head(to_audio_messages)
     IN  \/ /\ m.type = "CHANGE_PROGRAM" /\ m.index = current_program
            /\ audio' = [audio EXCEPT !.left = @ - 1]
            /\ UNCHANGED <<px, messages>>
         \/ /\ m.type = "CHANGE_PROGRAM" /\ m.index # current_program
            /\ px' = ProcessMessages(px, messages)
            /\ messages' = <<>>
            /\ audio' = [audio EXCEPT !.pc = "save", !.left = @ - 1, !.new_program = m.index]
         \/ /\ m.type = "CHANGE_PARAM"
            /\ px' = HandleSetParam(px, m.id, m.value)
            /\ audio' = [audio EXCEPT !.left = @ - 1]
            /\ UNCHANGED messages
  /\ to_audio_messages' = Tail(to_audio_messages)
  /\ UNCHANGED <<to_audio_string_messages, to_gui_messages, bank, current_program,
                 need_bank_update, remaining, gui, calls>>

\* mutant of SaveOldProgram: what was edited goes to the new program
SaveOldProgramAsNew ==
  /\ audio.pc = "save"
  /\ bank' = ImportedInto(bank, audio.new_program, px)
  /\ audio' = [audio EXCEPT !.pc = "switch"]
  /\ UNCHANGED <<px, messages, to_audio_messages, to_audio_string_messages, to_gui_messages,
                 current_program, need_bank_update, remaining, gui, calls>>

SaveOldProgram ==
  /\ audio.pc = "save"
  /\ bank' = ImportedInto(bank, current_program, px)
  /\ audio' = [audio EXCEPT !.pc = "switch"]
  /\ UNCHANGED <<px, messages, to_audio_messages, to_audio_string_messages, to_gui_messages,
                 current_program, need_bank_update, remaining, gui, calls>>

\* mutant of LoadNewProgram: the GUI thread is not told
LoadNewProgramQuietly ==
  /\ audio.pc = "switch"
  /\ px' = ImportClean(px, bank[audio.new_program].settings)
  /\ messages' = <<>>
  /\ current_program' = audio.new_program
  /\ audio' = [audio EXCEPT !.pc = "messages"]
  /\ UNCHANGED <<to_audio_messages, to_audio_string_messages, to_gui_messages, bank,
                 need_bank_update, remaining, gui, calls>>

\* the rest of handle_change_program; it processes Proxy's messages once more
LoadNewProgram ==
  /\ audio.pc = "switch"
  /\ px' = ImportClean(px, bank[audio.new_program].settings)
  /\ messages' = <<>>
  /\ current_program' = audio.new_program
  /\ need_bank_update' = TRUE
  /\ audio' = [audio EXCEPT !.pc = "messages"]
  /\ UNCHANGED <<to_audio_messages, to_audio_string_messages, to_gui_messages, bank,
                 remaining, gui, calls>>

\* mutant of RemainingAfter: a long block is not an exception
RemainingAfterUnclamped(sample_count) == remaining - sample_count

RemainingAfter(sample_count) == IF remaining >= sample_count THEN remaining - sample_count ELSE 0

\* process_messages at the end of prepare_processing, and finalize_processing
FinalizeProcessing(sample_count) ==
  /\ audio.pc = "messages" /\ audio.left = 0
  /\ LET p == ProcessMessages(px, messages)
         b == ImportedInto(bank, current_program, p)
         idle == IdleAudio(current_program)
     IN  \/ /\ remaining > 0
            /\ remaining' = RemainingAfter(sample_count)
            /\ px' = p /\ audio' = idle
            /\ UNCHANGED <<bank, need_bank_update>>
         \/ /\ remaining = 0
            /\ ~p.is_dirty /\ ~need_bank_update
            /\ px' = p /\ audio' = idle
            /\ UNCHANGED <<bank, need_bank_update, remaining>>
         \/ /\ remaining = 0
            /\ p.is_dirty \/ need_bank_update
            /\ remaining' = MinSamples
            /\ need_bank_update' = FALSE
            /\ px' = [p EXCEPT !.is_dirty = FALSE, !.hides = FALSE]
            /\ bank' = b
            /\ audio' = [idle EXCEPT !.pc = "publish",
                 !.todo = << [type |-> "PROGRAM_CHANGED", index |-> current_program,
                              patch |-> Patch(DefaultName, Serialize(p))],
                             [type |-> "BANK_CHANGED", programs |-> b] >>
                          \o IF p.is_dirty THEN <<[type |-> "PROXY_WAS_DIRTY"]>> ELSE <<>>]
  /\ messages' = <<>>
  /\ UNCHANGED <<to_audio_messages, to_audio_string_messages, to_gui_messages,
                 current_program, gui, calls>>

PublishNext ==
  /\ audio.pc = "publish"
  /\ to_gui_messages' = Push(to_gui_messages, Head(audio.todo))
  /\ audio' = IF Len(audio.todo) = 1 THEN IdleAudio(current_program)
                                     ELSE [audio EXCEPT !.todo = Tail(@)]
  /\ UNCHANGED <<px, messages, to_audio_messages, to_audio_string_messages, bank,
                 current_program, need_bank_update, remaining, gui, calls>>

-----------------------------------------------------------------------------
(* The GUI thread. *)

\* the patch that comes with PROGRAM_CHANGED has no name
HandleProgramChanged(g, index, patch) ==
  [g EXCEPT !.current_program_index = index,
            !.current_patch = patch,
            !.program_names[index] = DefaultName]

\* mutant of HandleBankChanged: names are left alone
HandleBankChangedNamesKept(g, programs) == [g EXCEPT !.serialized_bank = programs]

HandleBankChanged(g, programs) ==
  [g EXCEPT !.serialized_bank = programs,
            !.program_names = [i \in Programs |-> programs[i].name]]

HandleInGuiThread(g, m) ==
  CASE m.type = "PROGRAM_CHANGED" -> HandleProgramChanged(g, m.index, m.patch)
    [] m.type = "BANK_CHANGED"    -> HandleBankChanged(g, m.programs)
    [] m.type = "PROXY_WAS_DIRTY" -> g

\* the copies after each of the messages ms
Updated(g, ms) ==
  LET updated[k \in 0..Len(ms)] ==
        IF k = 0 THEN g ELSE HandleInGuiThread(updated[k - 1], ms[k])
  IN  updated

\* the copies after process_internal_messages_in_gui_thread
UpToDate == Updated(gui, to_gui_messages)[Len(to_gui_messages)]

Idle ==
  /\ gui.todo = <<>> /\ to_gui_messages # <<>>
  /\ gui' = UpToDate
  /\ to_gui_messages' = <<>>
  /\ UNCHANGED <<audio_vars, to_audio_messages, to_audio_string_messages, calls>>

\* a call of the host, or an edit of the user, one of at most MaxCalls
Called(call) ==
  /\ call \in Calls /\ gui.todo = <<>>
  /\ calls < MaxCalls /\ calls' = calls + 1

SetProgram(index) ==
  /\ Called("set_program")
  /\ gui' = [gui EXCEPT !.current_program_index = index]
  /\ to_audio_messages' = Push(to_audio_messages, [type |-> "CHANGE_PROGRAM", index |-> index])
  /\ UNCHANGED <<audio_vars, to_audio_string_messages, to_gui_messages>>

SetProgramName(name) ==
  /\ Called("set_program_name")
  /\ to_audio_string_messages' =
       Push(to_audio_string_messages, [type |-> "RENAME_PROGRAM", name |-> name])
  /\ gui' = [UpToDate EXCEPT !.program_names[UpToDate.current_program_index] = name]
  /\ to_gui_messages' = <<>>
  /\ UNCHANGED <<audio_vars, to_audio_messages>>

\* set_chunk with a preset: the renaming is pushed after the patch
SetPatch(patch) ==
  /\ Called("set_patch")
  /\ to_audio_string_messages' =
       Push(to_audio_string_messages, [type |-> "IMPORT_PATCH", patch |-> patch])
  /\ gui' = [UpToDate EXCEPT
               !.current_patch = patch,
               !.program_names[UpToDate.current_program_index] = patch.name,
               !.todo = <<[type |-> "RENAME_PROGRAM", name |-> patch.name]>>]
  /\ to_gui_messages' = <<>>
  /\ UNCHANGED <<audio_vars, to_audio_messages>>

PushRename ==
  /\ gui.todo # <<>>
  /\ to_audio_string_messages' = Push(to_audio_string_messages, Head(gui.todo))
  /\ gui' = [gui EXCEPT !.todo = Tail(@)]
  /\ UNCHANGED <<audio_vars, to_audio_messages, to_gui_messages, calls>>

\* set_chunk with a bank
SetBank(programs) ==
  /\ Called("set_bank")
  /\ to_audio_string_messages' =
       Push(to_audio_string_messages, [type |-> "IMPORT_BANK", programs |-> programs])
  /\ gui' = HandleBankChanged(UpToDate, programs)
  /\ to_gui_messages' = <<>>
  /\ UNCHANGED <<audio_vars, to_audio_messages>>

\* get_chunk of a preset names the copy of the patch
GetPatch ==
  /\ Called("get_patch")
  /\ gui' = [UpToDate EXCEPT
               !.current_patch.name = UpToDate.program_names[UpToDate.current_program_index]]
  /\ to_gui_messages' = <<>>
  /\ UNCHANGED <<audio_vars, to_audio_messages, to_audio_string_messages>>

SetParameter(id, value) ==
  /\ Called("set_parameter")
  /\ to_audio_messages' =
       Push(to_audio_messages, [type |-> "CHANGE_PARAM", id |-> id, value |-> value])
  /\ UNCHANGED <<audio_vars, gui, to_audio_string_messages, to_gui_messages>>

TurnKnob(id, value) ==
  /\ Called("knob")
  /\ messages' = Push(messages, SetParam(id, value))
  /\ UNCHANGED <<px, bank, current_program, need_bank_update, remaining, audio, gui,
                 to_audio_messages, to_audio_string_messages, to_gui_messages>>

\* resume() between blocks: Proxy's begin_processing in the host's thread
Resume ==
  /\ Called("resume") /\ audio.pc = "idle"
  /\ px' = ProcessMessages(px, messages)
  /\ messages' = <<>>
  /\ gui' = UpToDate
  /\ to_gui_messages' = <<>>
  /\ UNCHANGED <<bank, current_program, need_bank_update, remaining, audio,
                 to_audio_messages, to_audio_string_messages>>

\* set_sample_rate() between blocks
SetSampleRate ==
  /\ Called("set_sample_rate") /\ audio.pc = "idle"
  /\ remaining' = MinSamples
  /\ gui' = UpToDate
  /\ to_gui_messages' = <<>>
  /\ UNCHANGED <<px, messages, bank, current_program, need_bank_update, audio,
                 to_audio_messages, to_audio_string_messages>>

-----------------------------------------------------------------------------
AudioNext ==
  \/ PrepareProcessing \/ PopString \/ StringsDone \/ PopMessage
  \/ SaveOldProgram \/ LoadNewProgram \/ PublishNext
  \/ \E sample_count \in BlockSizes : FinalizeProcessing(sample_count)

GuiNext == Idle \/ PushRename

HostNext ==
  \/ \E index \in Programs : SetProgram(index)
  \/ \E name \in Names : SetProgramName(name)
  \/ \E patch \in Program : SetPatch(patch)
  \/ \E programs \in HostBanks : SetBank(programs)
  \/ \E id \in ParamId, value \in Values : SetParameter(id, value) \/ TurnKnob(id, value)
  \/ GetPatch \/ Resume \/ SetSampleRate

Next == AudioNext \/ GuiNext \/ HostNext

Spec == Init /\ [][Next]_vars

(***************************************************************************)
(* The host goes on processing blocks, and the GUI thread empties its      *)
(* queue at every idle call and goes on with a call it began.              *)
(***************************************************************************)
FairSpec == Spec /\ WF_vars(AudioNext) /\ WF_vars(GuiNext)

-----------------------------------------------------------------------------
(* Properties. *)

AudioMessages ==
  {[type |-> "CHANGE_PROGRAM", index |-> index] : index \in Programs}
    \cup {[type |-> "CHANGE_PARAM", id |-> id, value |-> value] : id \in ParamId, value \in Values}

StringMessages ==
  {[type |-> "RENAME_PROGRAM", name |-> name] : name \in Names}
    \cup {[type |-> "IMPORT_PATCH", patch |-> patch] : patch \in Program}
    \cup {[type |-> "IMPORT_BANK", programs |-> programs] : programs \in HostBanks}

GuiMessages ==
  [type : {"PROGRAM_CHANGED"}, index : Programs, patch : Program]
    \cup [type : {"BANK_CHANGED"}, programs : [Programs -> Program]]
    \cup [type : {"PROXY_WAS_DIRTY"}]

(* Every variable keeps its type. *)
TypeOK ==
  /\ px \in ParamStates
  /\ messages \in Seq(Messages) /\ Len(messages) <= QueueCapacity
  /\ to_audio_messages \in Seq(AudioMessages) /\ Len(to_audio_messages) <= QueueCapacity
  /\ to_audio_string_messages \in Seq(StringMessages)
  /\ Len(to_audio_string_messages) <= QueueCapacity
  /\ to_gui_messages \in Seq(GuiMessages) /\ Len(to_gui_messages) <= QueueCapacity
  /\ bank \in [Programs -> Program]
  /\ current_program \in Programs
  /\ need_bank_update \in BOOLEAN
  /\ remaining \in 0..MinSamples
  /\ audio \in [pc : {"idle", "strings", "messages", "save", "switch", "publish"},
                left : 0..QueueCapacity, new_program : Programs, todo : Seq(GuiMessages)]
  /\ gui \in [current_program_index : Programs, current_patch : Program,
              program_names : [Programs -> Names], serialized_bank : [Programs -> Program],
              todo : Seq(StringMessages)]
  /\ calls \in 0..MaxCalls

\* the programs as the player has them: the current one is what Proxy plays
EffectivePrograms == [bank EXCEPT ![current_program].settings = px.params]

Promise == INSTANCE ProgramBank WITH
  programs <- EffectivePrograms, current <- current_program,
  BankSet <- HostBanks, SettingSet <- Settings, NameSet <- Names,
  ProgramSet <- Program

(***************************************************************************)
(* Whatever reaches the audio thread, in whatever order, edits or names the*)
(* program that is current then, selects another one, or loads a bank that *)
(* the host sent: nothing that was edited in a program is lost or ends up  *)
(* in another one.                                                         *)
(***************************************************************************)
ImplementsProgramBank == Promise!BankSpec

\* nothing is on its way between the threads
Settled ==
  /\ audio.pc = "idle" /\ ~need_bank_update /\ ~px.is_dirty
  /\ gui.todo = <<>>
  /\ messages = <<>> /\ to_audio_messages = <<>>
  /\ to_audio_string_messages = <<>> /\ to_gui_messages = <<>>

\* what the host and its user are told is what is played
Agreed ==
  /\ gui.current_program_index = current_program
  /\ gui.serialized_bank = EffectivePrograms
  /\ gui.current_patch.settings = px.params
  /\ \A i \in Programs : gui.program_names[i] = bank[i].name

(***************************************************************************)
(* Once nothing is on its way, the chunks, names and program that the host *)
(* gets are those that are played, whatever notifications came late, and   *)
(* whatever edits came while a program was being loaded; unless an edit    *)
(* that repeated a value hid another one.                                  *)
(***************************************************************************)
CopiesAreCurrent == Settled => Agreed \/ px.hides

(***************************************************************************)
(* The copies catch up for good once host and user stop: every change      *)
(* starts an update, no update is missed while the next one waits, and     *)
(* only an edit that repeats a value can hide a change, until the next     *)
(* update.                                                                 *)
(***************************************************************************)
CopiesCatchUp == <>[](Agreed \/ px.hides)
=============================================================================
