-------------------------- MODULE FstPluginProofs --------------------------
(***************************************************************************)
(* Proofs of the properties of FstPlugin: the types of what its threads    *)
(* pass on, that it implements ProgramBank, and that the copies which      *)
(* answer the host are those that are played once all is quiet.            *)
(***************************************************************************)
EXTENDS FstPlugin, ParamLemmas

(* Where the audio thread is: what it counted is still there. *)
PlacesOK ==
  /\ audio.pc = "strings" => audio.left <= Len(to_audio_string_messages)
  /\ audio.pc \in {"messages", "save", "switch"} => audio.left <= Len(to_audio_messages)
  /\ audio.pc = "publish" => audio.todo # <<>>

(***************************************************************************)
(* A serialized state is made of the copies that other threads read, so    *)
(* these must be current; and when the next program is loaded, the old one *)
(* has been saved as it was played.                                        *)
(***************************************************************************)
ProgramsOK ==
  /\ px.ratios = px.params
  /\ audio.pc = "switch" => bank[current_program].settings = px.params

TypeAndPlaces == TypeOK /\ PlacesOK

IInv == TypeAndPlaces /\ ProgramsOK

GuiCopies ==
  [current_program_index : Programs, current_patch : Program,
   program_names : [Programs -> Names], serialized_bank : [Programs -> Program],
   todo : Seq(StringMessages)]

Audios ==
  [pc : {"idle", "strings", "messages", "save", "switch", "publish"},
   left : 0..QueueCapacity, new_program : Programs, todo : Seq(GuiMessages)]

-----------------------------------------------------------------------------
(* Types of messages and of what is made of them. *)

LEMMA AudioMessageTypes ==
  ASSUME NEW m \in AudioMessages
  PROVE  /\ m.type = "CHANGE_PROGRAM" => m.index \in Programs
         /\ m.type = "CHANGE_PARAM" => m.id \in ParamId /\ m.value \in Values
BY DEF AudioMessages

LEMMA StringMessageTypes ==
  ASSUME NEW m \in StringMessages
  PROVE  /\ m.type = "RENAME_PROGRAM" => m.name \in Names
         /\ m.type = "IMPORT_PATCH" => m.patch \in Program
         /\ m.type = "IMPORT_BANK" => m.programs \in HostBanks
BY DEF StringMessages

LEMMA GuiMessageTypes ==
  ASSUME NEW m \in GuiMessages
  PROVE  \/ m.type = "PROGRAM_CHANGED" /\ m.index \in Programs /\ m.patch \in Program
         \/ m.type = "BANK_CHANGED" /\ m.programs \in [Programs -> Program]
         \/ m.type = "PROXY_WAS_DIRTY"
BY DEF GuiMessages

(* A queue that a message is pushed to, and one that a message is popped from. *)
LEMMA PushedQueue ==
  ASSUME NEW S, NEW queue \in Seq(S), NEW m \in S, Len(queue) <= QueueCapacity
  PROVE  /\ Push(queue, m) \in Seq(S) /\ Len(Push(queue, m)) <= QueueCapacity
         /\ Len(queue) <= Len(Push(queue, m))
<1>1. CASE Len(queue) < QueueCapacity
  <2>1. Push(queue, m) = Append(queue, m)
    BY <1>1 DEF Push
  <2> QED BY <1>1, <2>1, QueueCapacityAssumption
<1>2. CASE ~(Len(queue) < QueueCapacity)
  <2>1. Push(queue, m) = queue
    BY <1>2 DEF Push
  <2> QED BY <2>1
<1> QED BY <1>1, <1>2

LEMMA PoppedQueue ==
  ASSUME NEW S, NEW queue \in Seq(S), Len(queue) > 0
  PROVE  /\ Head(queue) \in S /\ Tail(queue) \in Seq(S)
         /\ Len(Tail(queue)) = Len(queue) - 1 /\ Len(queue) \in Nat
<1>1. Len(queue) \in Nat /\ queue # <<>>
  OBVIOUS
<1> QED BY <1>1

LEMMA DefaultsType == Defaults \in Settings
BY DefaultValueAssumption DEF Defaults, Settings

(* What the audio thread's operators make. *)
LEMMA PatchType ==
  ASSUME NEW name \in Names, NEW settings \in Settings
  PROVE  Patch(name, settings) \in Program
BY DEF Patch, Program

LEMMA ImportedIntoType ==
  ASSUME NEW programs \in [Programs -> Program], NEW index \in Programs, NEW p \in ParamStates
  PROVE  ImportedInto(programs, index, p) \in [Programs -> Program]
<1>1. programs[index] \in Program /\ p.ratios \in Settings
  BY DEF ParamStates
<1>2. [programs[index] EXCEPT !.settings = p.ratios] \in Program
  BY <1>1 DEF Program
<1> QED BY <1>1, <1>2 DEF ImportedInto, Serialize

LEMMA ImportCleanType ==
  ASSUME NEW p \in ParamStates, messages \in Seq(Messages), NEW settings \in Settings
  PROVE  /\ ImportClean(p, settings) \in ParamStates
         /\ ImportClean(p, settings).params = settings
         /\ ImportClean(p, settings).ratios = settings
<1>1. PICK q \in ParamStates : q = ProcessMessages(p, messages)
  BY ProcessMessagesType
<1>2. PICK r \in ParamStates : r = ImportSettings(q, settings)
  BY ImportRestores
<1>3. r.params = settings /\ r.ratios = settings
  BY <1>2, ImportRestores
<1>4. ImportClean(p, settings) = [r EXCEPT !.is_dirty = FALSE]
  BY <1>1, <1>2 DEF ImportClean
<1> QED BY <1>3, <1>4 DEF ParamStates

LEMMA IdleAudioType ==
  ASSUME NEW index \in Programs
  PROVE  IdleAudio(index) \in Audios /\ IdleAudio(index).pc = "idle"
<1>1. 0 \in 0..QueueCapacity /\ <<>> \in Seq(GuiMessages)
  BY QueueCapacityAssumption
<1> QED BY <1>1 DEF IdleAudio, Audios

(* The GUI thread's copies after a message, and after all of them. *)
LEMMA HandleInGuiThreadType ==
  ASSUME NEW g \in GuiCopies, NEW m \in GuiMessages
  PROVE  HandleInGuiThread(g, m) \in GuiCopies
<1>1. CASE m.type = "PROGRAM_CHANGED" /\ m.index \in Programs /\ m.patch \in Program
  <2>1. HandleInGuiThread(g, m) = HandleProgramChanged(g, m.index, m.patch)
    BY <1>1 DEF HandleInGuiThread
  <2>2. DefaultName \in Names
    BY NamesAssumption
  <2>3. [g.program_names EXCEPT ![m.index] = DefaultName] \in [Programs -> Names]
    BY <2>2 DEF GuiCopies
  <2>4. [g EXCEPT !.current_program_index = m.index, !.current_patch = m.patch,
                  !.program_names = [g.program_names EXCEPT ![m.index] = DefaultName]]
          \in GuiCopies
    BY <1>1, <2>3 DEF GuiCopies
  <2>5. HandleProgramChanged(g, m.index, m.patch) \in GuiCopies
    BY <2>4 DEF HandleProgramChanged
  <2> QED BY <2>1, <2>5
<1>2. CASE m.type = "BANK_CHANGED" /\ m.programs \in [Programs -> Program]
  <2>1. HandleInGuiThread(g, m) = HandleBankChanged(g, m.programs)
    BY <1>2 DEF HandleInGuiThread
  <2>2. [i \in Programs |-> m.programs[i].name] \in [Programs -> Names]
    BY <1>2 DEF Program
  <2> QED BY <1>2, <2>1, <2>2 DEF HandleBankChanged, GuiCopies
<1>3. CASE m.type = "PROXY_WAS_DIRTY"
  BY <1>3 DEF HandleInGuiThread
<1> QED BY <1>1, <1>2, <1>3, GuiMessageTypes

LEMMA HandleBankChangedType ==
  ASSUME NEW g \in GuiCopies, NEW programs \in [Programs -> Program]
  PROVE  HandleBankChanged(g, programs) \in GuiCopies
<1>1. [i \in Programs |-> programs[i].name] \in [Programs -> Names]
  BY DEF Program
<1> QED BY <1>1 DEF HandleBankChanged, GuiCopies

(* Updated is the function that its recursion describes. *)
LEMMA UpdatedUnfolds ==
  ASSUME NEW g \in GuiCopies, NEW ms \in Seq(GuiMessages)
  PROVE  /\ Updated(g, ms) \in [0..Len(ms) -> GuiCopies]
         /\ Updated(g, ms)[0] = g
         /\ \A k \in 1..Len(ms) :
              Updated(g, ms)[k] = HandleInGuiThread(Updated(g, ms)[k - 1], ms[k])
<1> DEFINE N == Len(ms)
           body(f) == [k \in 0..N |-> IF k = 0 THEN g ELSE HandleInGuiThread(f[k - 1], ms[k])]
           updated == CHOOSE f : f = body(f)
<1>1. N \in Nat /\ \A k \in 1..N : ms[k] \in GuiMessages
  OBVIOUS
<1>2. PICK steps \in [1..N -> [GuiCopies -> GuiCopies]] :
        \A k \in 1..N, c \in GuiCopies : steps[k][c] = HandleInGuiThread(c, ms[k])
  <2> DEFINE st == [k \in 1..N |-> [c \in GuiCopies |-> HandleInGuiThread(c, ms[k])]]
  <2>1. \A k \in 1..N : [c \in GuiCopies |-> HandleInGuiThread(c, ms[k])]
                          \in [GuiCopies -> GuiCopies]
    BY <1>1, HandleInGuiThreadType
  <2>2. st \in [1..N -> [GuiCopies -> GuiCopies]]
    <3> HIDE DEF N
    <3> QED BY <2>1
  <2>3. \A k \in 1..N, c \in GuiCopies : st[k][c] = HandleInGuiThread(c, ms[k])
    OBVIOUS
  <2> HIDE DEF st
  <2> QED BY <2>2, <2>3
<1>3. PICK h \in [0..N -> GuiCopies] : Follows(h, N, g, steps)
  <2> HIDE DEF N
  <2> QED BY <1>1, StepwiseRecursion
<1>4. /\ h[0] = g
      /\ \A k \in 1..N : k - 1 \in 0..N /\ h[k] = HandleInGuiThread(h[k - 1], ms[k])
  <2>1. h[0] = g /\ \A k \in 1..N : h[k] = steps[k][h[k - 1]]
    BY <1>3 DEF Follows
  <2>2. ASSUME NEW k \in 1..N PROVE k - 1 \in 0..N /\ h[k - 1] \in GuiCopies
    BY <1>1
  <2> HIDE DEF N
  <2> QED BY <1>2, <2>1, <2>2
<1>5. h = body(h)
  <2>1. \A k \in 0..N : h[k] = IF k = 0 THEN g ELSE HandleInGuiThread(h[k - 1], ms[k])
    BY <1>1, <1>4
  <2> HIDE DEF N
  <2> QED BY <2>1
<1>6. updated = body(updated)
  <2> HIDE DEF N
  <2> QED BY <1>5
<1>7. /\ updated[0] = g
      /\ \A k \in 1..N : updated[k] = HandleInGuiThread(updated[k - 1], ms[k])
  <2> HIDE DEF updated
  <2>1. \A k \in 0..N : updated[k] = IF k = 0 THEN g ELSE HandleInGuiThread(updated[k - 1], ms[k])
    BY <1>6
  <2> QED BY <1>1, <2>1
<1>8. \A k \in 0..N : updated[k] = h[k]
  <2> DEFINE E == {k \in 0..N : updated[k] = h[k]}
  <2> HIDE DEF updated
  <2>1. 0 \in E
    BY <1>1, <1>4, <1>7
  <2>2. \A k \in 1..N : k - 1 \in E => k \in E
    BY <1>1, <1>4, <1>7
  <2>3. \A k \in 0..N : k \in E
    <3> HIDE DEF E, N
    <3> QED BY <1>1, <2>1, <2>2, InductionUpTo
  <2> QED BY <2>3
<1>9. updated \in [0..N -> GuiCopies]
  <2>1. updated = [k \in 0..N |-> updated[k]]
    <3> HIDE DEF N
    <3> QED BY <1>6
  <2> HIDE DEF updated, N
  <2> QED BY <1>8, <2>1
<1>10. Updated(g, ms) = updated
  BY DEF Updated
<1> HIDE DEF updated
<1> QED BY <1>7, <1>9, <1>10

LEMMA UpToDateType ==
  ASSUME gui \in GuiCopies, to_gui_messages \in Seq(GuiMessages)
  PROVE  UpToDate \in GuiCopies
<1>1. PICK n \in 0..Len(to_gui_messages) : n = Len(to_gui_messages)
  OBVIOUS
<1> QED BY <1>1, UpdatedUnfolds DEF UpToDate

-----------------------------------------------------------------------------
(* Types and places. *)

LEMMA InitTypeAndPlaces == Init => TypeAndPlaces
<1> SUFFICES ASSUME Init PROVE TypeAndPlaces
  OBVIOUS
<1>1. px \in ParamStates
  BY DefaultsType DEF Init, FreshParams, ParamStates
<1>2. \A i \in Programs : Patch(IF i = 0 THEN BuiltInName ELSE DefaultName, Defaults) \in Program
  BY NamesAssumption, DefaultsType, PatchType
<1>3. bank \in [Programs -> Program] /\ current_program \in Programs
  BY <1>2, ProgramsAssumption DEF Init, BuiltInPrograms
<1>4. audio \in Audios /\ audio.pc = "idle"
  BY <1>3, IdleAudioType DEF Init
<1>5. gui \in GuiCopies
  <2>1. [i \in Programs |-> bank[i].name] \in [Programs -> Names] /\ bank[current_program] \in Program
    BY <1>3 DEF Program
  <2>2. <<>> \in Seq(StringMessages)
    OBVIOUS
  <2> QED BY <1>3, <2>1, <2>2 DEF Init, GuiCopies
<1>6. remaining \in 0..MinSamples
  BY SamplesAssumption DEF Init
<1>7. \A S : <<>> \in Seq(S) /\ Len(<<>>) = 0
  OBVIOUS
<1>8. /\ messages = <<>> /\ to_audio_messages = <<>> /\ to_audio_string_messages = <<>>
      /\ to_gui_messages = <<>> /\ need_bank_update = FALSE /\ calls = 0
  BY DEF Init
<1>9. 0 <= QueueCapacity /\ 0 \in 0..MaxCalls
  BY QueueCapacityAssumption, MaxCallsAssumption
<1>10. TypeOK
  BY <1>1, <1>3, <1>4, <1>5, <1>6, <1>7, <1>8, <1>9 DEF TypeOK, Audios, GuiCopies
<1>11. PlacesOK
  BY <1>4 DEF PlacesOK
<1> QED BY <1>10, <1>11 DEF TypeAndPlaces

(* TypeOK with the names of the sets of records, and its parts. *)
Typed ==
  /\ px \in ParamStates
  /\ messages \in Seq(Messages)
  /\ Len(messages) <= QueueCapacity
  /\ to_audio_messages \in Seq(AudioMessages)
  /\ Len(to_audio_messages) <= QueueCapacity
  /\ to_audio_string_messages \in Seq(StringMessages)
  /\ Len(to_audio_string_messages) <= QueueCapacity
  /\ to_gui_messages \in Seq(GuiMessages)
  /\ Len(to_gui_messages) <= QueueCapacity
  /\ bank \in [Programs -> Program]
  /\ current_program \in Programs
  /\ need_bank_update \in BOOLEAN
  /\ remaining \in 0..MinSamples
  /\ audio \in Audios
  /\ gui \in GuiCopies
  /\ calls \in 0..MaxCalls

LEMMA TypedIsTypeOK == Typed <=> TypeOK
BY DEF Typed, TypeOK, Audios, GuiCopies

LEMMA Types ==
  ASSUME TypeOK
  PROVE  Typed
BY TypedIsTypeOK

LEMMA NoMessages ==
  /\ \A S : <<>> \in Seq(S)
  /\ Len(<<>>) <= QueueCapacity
  /\ QueueCapacity \in Nat
BY QueueCapacityAssumption

(* The audio thread drains its queues. *)
LEMMA PopStringTypes ==
  ASSUME TypeAndPlaces, PopString
  PROVE  TypeAndPlaces'
<1> DEFINE m == Head(to_audio_string_messages)
<1>1. TypeOK /\ PlacesOK
  BY DEF TypeAndPlaces
<1>2. /\ audio.pc = "strings" /\ audio.left > 0 /\ audio.left <= Len(to_audio_string_messages)
      /\ audio.left \in Nat
  BY <1>1, Types DEF Typed, PopString, PlacesOK, Audios
<1>3. /\ m \in StringMessages /\ Tail(to_audio_string_messages) \in Seq(StringMessages)
      /\ Len(Tail(to_audio_string_messages)) = Len(to_audio_string_messages) - 1
      /\ Len(to_audio_string_messages) \in Nat
  BY <1>1, <1>2, Types, PoppedQueue DEF Typed
<1>4. /\ px' \in ParamStates /\ bank' \in [Programs -> Program]
      /\ messages' \in {messages, <<>>}
  <2>1. \/ m.type = "RENAME_PROGRAM" /\ HandleRenameProgram(m.name)
        \/ m.type = "IMPORT_PATCH" /\ HandleImportPatch(m.patch.settings)
        \/ m.type = "IMPORT_BANK" /\ HandleImportBank(m.programs)
    BY DEF PopString
  <2>2. CASE m.type = "RENAME_PROGRAM" /\ HandleRenameProgram(m.name)
    <3>1. m.name \in Names /\ bank[current_program] \in Program
      BY <1>1, <1>3, <2>2, StringMessageTypes, Types DEF Typed
    <3>2. [bank[current_program] EXCEPT !.name = m.name] \in Program
      BY <3>1 DEF Program
    <3>3. bank' \in [Programs -> Program]
      BY <1>1, <2>2, <3>2, Types DEF Typed, HandleRenameProgram
    <3> QED BY <1>1, <2>2, <3>3, Types DEF Typed, HandleRenameProgram
  <2>3. CASE m.type = "IMPORT_PATCH" /\ HandleImportPatch(m.patch.settings)
    <3>1. m.patch.settings \in Settings
      BY <1>3, <2>3, StringMessageTypes DEF Program
    <3>2. px' \in ParamStates
      BY <1>1, <2>3, <3>1, Types, ImportCleanType DEF Typed, HandleImportPatch
    <3>3. ImportedInto(bank, current_program, px') \in [Programs -> Program]
      BY <1>1, <3>2, Types, ImportedIntoType DEF Typed
    <3> QED BY <2>3, <3>2, <3>3 DEF HandleImportPatch
  <2>4. CASE m.type = "IMPORT_BANK" /\ HandleImportBank(m.programs)
    <3>1. m.programs \in [Programs -> Program]
      BY <1>3, <2>4, StringMessageTypes, HostBanksAssumption
    <3>2. m.programs[current_program].settings \in Settings
      BY <1>1, <3>1, Types DEF Typed, Program
    <3>3. px' \in ParamStates
      BY <1>1, <2>4, <3>2, Types, ImportCleanType DEF Typed, HandleImportBank
    <3> QED BY <2>4, <3>1, <3>3 DEF HandleImportBank
  <2> QED BY <2>1, <2>2, <2>3, <2>4
<1>5. /\ audio' \in Audios /\ audio'.pc = "strings" /\ audio'.left = audio.left - 1
  <2>1. audio.left - 1 \in 0..QueueCapacity
    <3>1. audio.left \in 0..QueueCapacity
      BY <1>1, Types DEF Typed, Audios
    <3> QED BY <1>2, <3>1, NoMessages
  <2> QED BY <1>1, <1>2, <2>1, Types DEF Typed, PopString, Audios
<1>6. /\ to_audio_string_messages' = Tail(to_audio_string_messages)
      /\ need_bank_update' = TRUE
      /\ UNCHANGED <<to_audio_messages, to_gui_messages, current_program, remaining, gui, calls>>
  BY DEF PopString
<1> HIDE DEF m
<1>7. TypeOK'
  <2>1. need_bank_update' \in BOOLEAN
    BY <1>6
  <2>2. messages' \in Seq(Messages) /\ Len(messages') <= QueueCapacity
    BY <1>1, <1>4, Types, NoMessages DEF Typed
  <2>3. /\ to_audio_string_messages' \in Seq(StringMessages)
        /\ Len(to_audio_string_messages') <= QueueCapacity
    BY <1>1, <1>3, <1>6, Types, NoMessages DEF Typed
  <2>4. Typed'
    BY <1>1, <1>4, <1>5, <1>6, <2>1, <2>2, <2>3, Types DEF Typed
  <2> QED BY <2>4, TypedIsTypeOK, PTL
<1>8. PlacesOK'
  BY <1>2, <1>3, <1>5, <1>6 DEF PlacesOK
<1> QED BY <1>7, <1>8 DEF TypeAndPlaces

LEMMA PopMessageTypes ==
  ASSUME TypeAndPlaces, PopMessage
  PROVE  TypeAndPlaces'
<1> DEFINE m == Head(to_audio_messages)
<1>1. TypeOK /\ PlacesOK
  BY DEF TypeAndPlaces
<1>2. /\ audio.pc = "messages" /\ audio.left > 0 /\ audio.left <= Len(to_audio_messages)
      /\ audio.left \in Nat
  BY <1>1, Types DEF Typed, PopMessage, PlacesOK, Audios
<1>3. /\ m \in AudioMessages /\ Tail(to_audio_messages) \in Seq(AudioMessages)
      /\ Len(Tail(to_audio_messages)) = Len(to_audio_messages) - 1
      /\ Len(to_audio_messages) \in Nat
  BY <1>1, <1>2, Types, PoppedQueue DEF Typed
<1>4. audio.left - 1 \in 0..QueueCapacity
  <2>1. audio.left \in 0..QueueCapacity
    BY <1>1, Types DEF Typed, Audios
  <2> QED BY <1>2, <2>1, NoMessages
<1>5. [audio EXCEPT !.left = @ - 1] \in Audios /\ [audio EXCEPT !.left = @ - 1].left = audio.left - 1
      /\ [audio EXCEPT !.left = @ - 1].pc = "messages"
  BY <1>1, <1>2, <1>4, Types DEF Typed, Audios
<1>6. /\ px' \in ParamStates /\ messages' \in {messages, <<>>}
      /\ audio' \in Audios /\ audio'.pc \in {"messages", "save"} /\ audio'.left = audio.left - 1
  <2>1. CASE /\ m.type = "CHANGE_PROGRAM" /\ m.index = current_program
             /\ audio' = [audio EXCEPT !.left = @ - 1]
             /\ UNCHANGED <<px, messages>>
    BY <1>1, <1>5, <2>1, Types DEF Typed
  <2>2. CASE /\ m.type = "CHANGE_PROGRAM"
             /\ px' = ProcessMessages(px, messages)
             /\ messages' = <<>>
             /\ audio' = [audio EXCEPT !.pc = "save", !.left = @ - 1, !.new_program = m.index]
    <3>1. m.index \in Programs
      BY <1>3, <2>2, AudioMessageTypes
    <3>2. px' \in ParamStates
      BY <1>1, <2>2, Types, ProcessMessagesType DEF Typed
    <3>3. audio' \in Audios /\ audio'.pc = "save" /\ audio'.left = audio.left - 1
      BY <1>1, <1>4, <2>2, <3>1, Types DEF Typed, Audios
    <3> QED BY <2>2, <3>2, <3>3
  <2>3. CASE /\ m.type = "CHANGE_PARAM"
             /\ px' = HandleSetParam(px, m.id, m.value)
             /\ audio' = [audio EXCEPT !.left = @ - 1]
             /\ UNCHANGED messages
    <3>1. m.id \in ParamId /\ m.value \in Values
      BY <1>3, <2>3, AudioMessageTypes
    <3>2. px' \in ParamStates
      BY <1>1, <2>3, <3>1, Types DEF Typed, HandleSetParam, HandleRefreshParam, ParamStates, Settings
    <3> QED BY <1>5, <2>3, <3>2
  <2> QED BY <2>1, <2>2, <2>3 DEF PopMessage
<1>7. /\ to_audio_messages' = Tail(to_audio_messages)
      /\ UNCHANGED <<to_audio_string_messages, to_gui_messages, bank, current_program,
                     need_bank_update, remaining, gui, calls>>
  BY DEF PopMessage
<1> HIDE DEF m
<1>8. TypeOK'
  <2>1. messages' \in Seq(Messages) /\ Len(messages') <= QueueCapacity
    BY <1>1, <1>6, Types, NoMessages DEF Typed
  <2>2. /\ to_audio_messages' \in Seq(AudioMessages)
        /\ Len(to_audio_messages') <= QueueCapacity
    BY <1>1, <1>3, <1>7, Types, NoMessages DEF Typed
  <2>3. Typed'
    BY <1>1, <1>6, <1>7, <2>1, <2>2, Types DEF Typed
  <2> QED BY <2>3, TypedIsTypeOK, PTL
<1>9. PlacesOK'
  BY <1>2, <1>3, <1>6, <1>7 DEF PlacesOK
<1> QED BY <1>8, <1>9 DEF TypeAndPlaces

(* The audio thread's other steps. *)
LEMMA StepTypes ==
  ASSUME TypeAndPlaces, PrepareProcessing \/ StringsDone \/ PublishNext
  PROVE  TypeAndPlaces'
<1>1. Typed /\ PlacesOK
  BY TypedIsTypeOK DEF TypeAndPlaces
<1>2. audio' \in Audios /\ to_gui_messages' \in Seq(GuiMessages)
      /\ Len(to_gui_messages') <= QueueCapacity
      /\ UNCHANGED <<px, messages, to_audio_messages, to_audio_string_messages, bank,
                     current_program, need_bank_update, remaining, gui, calls>>
      /\ PlacesOK'
  <2>1. CASE PrepareProcessing
    <3>1. Len(to_audio_string_messages) \in 0..QueueCapacity
      BY <1>1, NoMessages DEF Typed
    <3>2. audio' \in Audios /\ audio'.pc = "strings" /\ audio'.left = Len(to_audio_string_messages)
      BY <1>1, <2>1, <3>1 DEF Typed, PrepareProcessing, Audios
    <3>3. /\ UNCHANGED <<px, messages, to_audio_messages, to_audio_string_messages, bank,
                         current_program, need_bank_update, remaining, gui, calls>>
          /\ UNCHANGED to_gui_messages
      BY <2>1 DEF PrepareProcessing
    <3>4. PlacesOK'
      BY <3>1, <3>2, <3>3 DEF PlacesOK
    <3> QED BY <1>1, <3>2, <3>3, <3>4 DEF Typed
  <2>2. CASE StringsDone
    <3>1. Len(to_audio_messages) \in 0..QueueCapacity
      BY <1>1, NoMessages DEF Typed
    <3>2. audio' \in Audios /\ audio'.pc = "messages" /\ audio'.left = Len(to_audio_messages)
      BY <1>1, <2>2, <3>1 DEF Typed, StringsDone, Audios
    <3>3. /\ UNCHANGED <<px, messages, to_audio_messages, to_audio_string_messages, bank,
                         current_program, need_bank_update, remaining, gui, calls>>
          /\ UNCHANGED to_gui_messages
      BY <2>2 DEF StringsDone
    <3>4. PlacesOK'
      BY <3>1, <3>2, <3>3 DEF PlacesOK
    <3> QED BY <1>1, <3>2, <3>3, <3>4 DEF Typed
  <2>3. CASE PublishNext
    <3>1. audio.pc = "publish" /\ audio.todo # <<>> /\ audio.todo \in Seq(GuiMessages)
      BY <1>1, <2>3 DEF Typed, PlacesOK, Audios, PublishNext
    <3>2. /\ Head(audio.todo) \in GuiMessages /\ Tail(audio.todo) \in Seq(GuiMessages)
          /\ Len(audio.todo) # 1 => Tail(audio.todo) # <<>>
      <4>1. Len(audio.todo) > 0
        BY <3>1
      <4>2. /\ Head(audio.todo) \in GuiMessages /\ Tail(audio.todo) \in Seq(GuiMessages)
            /\ Len(Tail(audio.todo)) = Len(audio.todo) - 1 /\ Len(audio.todo) \in Nat
        BY <3>1, <4>1, PoppedQueue
      <4>3. \A t \in Seq(GuiMessages) : Len(t) > 0 => t # <<>>
        OBVIOUS
      <4>4. Len(audio.todo) # 1 => Len(Tail(audio.todo)) > 0
        <5>1. \A n \in Nat : n > 0 /\ n # 1 => n - 1 > 0
          OBVIOUS
        <5> QED BY <4>1, <4>2, <5>1
      <4> QED BY <4>2, <4>3, <4>4
    <3>3. /\ to_gui_messages' \in Seq(GuiMessages) /\ Len(to_gui_messages') <= QueueCapacity
      BY <1>1, <2>3, <3>2, PushedQueue DEF Typed, PublishNext
    <3>4. audio' \in Audios /\ PlacesOK'
      <4>1. CASE Len(audio.todo) = 1
        <5>1. audio' = IdleAudio(current_program)
          BY <2>3, <4>1 DEF PublishNext
        <5>2. audio' \in Audios /\ audio'.pc = "idle"
          BY <1>1, <5>1, IdleAudioType DEF Typed
        <5> QED BY <5>2 DEF PlacesOK
      <4>2. CASE Len(audio.todo) # 1
        <5>1. audio' = [audio EXCEPT !.todo = Tail(audio.todo)]
          BY <2>3, <4>2 DEF PublishNext
        <5>2. audio' \in Audios /\ audio'.pc = "publish" /\ audio'.todo = Tail(audio.todo)
          BY <1>1, <3>1, <3>2, <5>1 DEF Typed, Audios
        <5> QED BY <3>2, <4>2, <5>2 DEF PlacesOK
      <4> QED BY <4>1, <4>2
    <3> QED BY <2>3, <3>3, <3>4 DEF PublishNext
  <2> QED BY <2>1, <2>2, <2>3
<1>3. Typed'
  BY <1>1, <1>2 DEF Typed
<1>4. TypeOK'
  BY <1>3, TypedIsTypeOK, PTL
<1> QED BY <1>2, <1>4 DEF TypeAndPlaces

LEMMA ChangeProgramTypes ==
  ASSUME TypeAndPlaces, SaveOldProgram \/ LoadNewProgram
  PROVE  TypeAndPlaces'
<1>1. Typed /\ PlacesOK
  BY TypedIsTypeOK DEF TypeAndPlaces
<1>2. /\ px' \in ParamStates /\ bank' \in [Programs -> Program] /\ current_program' \in Programs
      /\ messages' \in {messages, <<>>} /\ need_bank_update' \in {need_bank_update, TRUE}
      /\ audio' \in Audios /\ audio'.left = audio.left
      /\ audio'.pc \in {"switch", "messages"} /\ audio.pc \in {"save", "switch"}
      /\ UNCHANGED <<to_audio_messages, to_audio_string_messages, to_gui_messages,
                     remaining, gui, calls>>
  <2>1. CASE SaveOldProgram
    <3>1. bank' \in [Programs -> Program]
      BY <1>1, <2>1, ImportedIntoType DEF Typed, SaveOldProgram
    <3>2. audio' \in Audios /\ audio'.pc = "switch" /\ audio'.left = audio.left /\ audio.pc = "save"
      BY <1>1, <2>1 DEF Typed, SaveOldProgram, Audios
    <3> QED BY <1>1, <2>1, <3>1, <3>2 DEF Typed, SaveOldProgram
  <2>2. CASE LoadNewProgram
    <3>1. audio.new_program \in Programs
      BY <1>1 DEF Typed, Audios
    <3>2. bank[audio.new_program].settings \in Settings
      BY <1>1, <3>1 DEF Typed, Program
    <3>3. px' \in ParamStates
      BY <1>1, <2>2, <3>2, ImportCleanType DEF Typed, LoadNewProgram
    <3>4. audio' \in Audios /\ audio'.pc = "messages" /\ audio'.left = audio.left
          /\ audio.pc = "switch"
      BY <1>1, <2>2 DEF Typed, LoadNewProgram, Audios
    <3> QED BY <1>1, <2>2, <3>1, <3>3, <3>4 DEF Typed, LoadNewProgram
  <2> QED BY <2>1, <2>2
<1>3. /\ messages' \in Seq(Messages) /\ Len(messages') <= QueueCapacity
      /\ need_bank_update' \in BOOLEAN
  BY <1>1, <1>2, NoMessages DEF Typed
<1>4. Typed'
  BY <1>1, <1>2, <1>3 DEF Typed
<1>5. TypeOK'
  BY <1>4, TypedIsTypeOK, PTL
<1>6. PlacesOK'
  BY <1>1, <1>2 DEF PlacesOK
<1> QED BY <1>5, <1>6 DEF TypeAndPlaces

(* What is published is made of the current program. *)
LEMMA FinalizeProcessingTypes ==
  ASSUME TypeAndPlaces, NEW sample_count \in BlockSizes, FinalizeProcessing(sample_count)
  PROVE  TypeAndPlaces'
<1>1. Typed /\ PlacesOK
  BY TypedIsTypeOK DEF TypeAndPlaces
<1>2. PICK p \in ParamStates : p = ProcessMessages(px, messages)
  BY <1>1, ProcessMessagesType DEF Typed
<1>3. PICK b \in [Programs -> Program] : b = ImportedInto(bank, current_program, p)
  BY <1>1, ImportedIntoType DEF Typed
<1>4. PICK idle \in Audios : idle = IdleAudio(current_program) /\ idle.pc = "idle"
  BY <1>1, IdleAudioType DEF Typed
<1>5. /\ px' \in ParamStates /\ bank' \in [Programs -> Program]
      /\ need_bank_update' \in {need_bank_update, FALSE}
      /\ remaining' \in 0..MinSamples
      /\ audio' \in Audios /\ PlacesOK'
  <2>1. CASE /\ remaining > 0
             /\ remaining' = RemainingAfter(sample_count)
             /\ px' = p /\ audio' = idle
             /\ UNCHANGED <<bank, need_bank_update>>
    <3>1. remaining' \in 0..MinSamples
      <4>1. remaining \in 0..MinSamples /\ MinSamples \in Nat /\ sample_count \in Nat \ {0}
        BY <1>1, SamplesAssumption DEF Typed
      <4>2. CASE remaining >= sample_count
        BY <2>1, <4>1, <4>2 DEF RemainingAfter
      <4>3. CASE ~(remaining >= sample_count)
        BY <2>1, <4>1, <4>3 DEF RemainingAfter
      <4> QED BY <4>2, <4>3
    <3>2. PlacesOK'
      BY <1>4, <2>1 DEF PlacesOK
    <3> QED BY <1>1, <1>2, <1>4, <2>1, <3>1, <3>2 DEF Typed
  <2>2. CASE /\ px' = p /\ audio' = idle
             /\ UNCHANGED <<bank, need_bank_update, remaining>>
    <3>1. PlacesOK'
      BY <1>4, <2>2 DEF PlacesOK
    <3> QED BY <1>1, <1>2, <1>4, <2>2, <3>1 DEF Typed
  <2>3. CASE /\ remaining' = MinSamples
             /\ need_bank_update' = FALSE
             /\ px' = [p EXCEPT !.is_dirty = FALSE, !.hides = FALSE]
             /\ bank' = b
             /\ audio' = [idle EXCEPT !.pc = "publish",
                  !.todo = << [type |-> "PROGRAM_CHANGED", index |-> current_program,
                               patch |-> Patch(DefaultName, Serialize(p))],
                              [type |-> "BANK_CHANGED", programs |-> b] >>
                           \o IF p.is_dirty THEN <<[type |-> "PROXY_WAS_DIRTY"]>> ELSE <<>>]
    <3>1. Patch(DefaultName, Serialize(p)) \in Program
      BY NamesAssumption, PatchType DEF Serialize, ParamStates
    <3>2. PICK m1 \in GuiMessages :
            m1 = [type |-> "PROGRAM_CHANGED", index |-> current_program,
                  patch |-> Patch(DefaultName, Serialize(p))]
      BY <1>1, <3>1 DEF Typed, GuiMessages
    <3>3. PICK m2 \in GuiMessages : m2 = [type |-> "BANK_CHANGED", programs |-> b]
      BY DEF GuiMessages
    <3>4. PICK m3 \in GuiMessages : m3 = [type |-> "PROXY_WAS_DIRTY"]
      BY DEF GuiMessages
    <3>5. PICK rest \in Seq(GuiMessages) : rest = IF p.is_dirty THEN <<m3>> ELSE <<>>
      <4>1. <<m3>> \in Seq(GuiMessages) /\ <<>> \in Seq(GuiMessages)
        OBVIOUS
      <4> QED BY <4>1
    <3>6. <<m1, m2>> \o rest \in Seq(GuiMessages) /\ <<m1, m2>> \o rest # <<>>
      <4>1. <<m1, m2>> \in Seq(GuiMessages) /\ Len(<<m1, m2>>) = 2
        OBVIOUS
      <4>2. PICK both \in Seq(GuiMessages) : both = <<m1, m2>> /\ Len(both) = 2
        BY <4>1
      <4>3. both \o rest \in Seq(GuiMessages) /\ Len(both \o rest) > 0
        BY <4>2
      <4>4. \A t \in Seq(GuiMessages) : Len(t) > 0 => t # <<>>
        OBVIOUS
      <4> QED BY <4>2, <4>3, <4>4
    <3>7. audio' = [idle EXCEPT !.pc = "publish", !.todo = <<m1, m2>> \o rest]
      BY <2>3, <3>2, <3>3, <3>4, <3>5
    <3>8. audio' \in Audios /\ audio'.pc = "publish" /\ audio'.todo = <<m1, m2>> \o rest
      BY <3>6, <3>7 DEF Audios
    <3>9. PlacesOK'
      BY <3>6, <3>8 DEF PlacesOK
    <3>10. px' \in ParamStates
      BY <2>3 DEF ParamStates
    <3>11. remaining' \in 0..MinSamples
      BY <2>3, SamplesAssumption
    <3> QED BY <2>3, <3>8, <3>9, <3>10, <3>11
  <2> QED BY <1>2, <1>3, <1>4, <2>1, <2>2, <2>3 DEF FinalizeProcessing
<1>6. /\ messages' = <<>>
      /\ UNCHANGED <<to_audio_messages, to_audio_string_messages, to_gui_messages,
                     current_program, gui, calls>>
  BY DEF FinalizeProcessing
<1>7. /\ messages' \in Seq(Messages) /\ Len(messages') <= QueueCapacity
      /\ need_bank_update' \in BOOLEAN
  BY <1>1, <1>5, <1>6, NoMessages DEF Typed
<1>8. Typed'
  BY <1>1, <1>5, <1>6, <1>7 DEF Typed
<1>9. TypeOK'
  BY <1>8, TypedIsTypeOK, PTL
<1> QED BY <1>5, <1>9 DEF TypeAndPlaces

(* The GUI thread and the host. *)
LEMMA SetProgramTypes ==
  ASSUME TypeAndPlaces, NEW index \in Programs, SetProgram(index)
  PROVE  TypeAndPlaces'
<1>1. Typed /\ PlacesOK
  BY TypedIsTypeOK DEF TypeAndPlaces
<1>2. [type |-> "CHANGE_PROGRAM", index |-> index] \in AudioMessages
  BY DEF AudioMessages
<1>3. /\ to_audio_messages' \in Seq(AudioMessages) /\ Len(to_audio_messages') <= QueueCapacity
      /\ Len(to_audio_messages) <= Len(to_audio_messages')
  BY <1>1, <1>2, PushedQueue DEF Typed, SetProgram
<1>4. gui' \in GuiCopies
  BY <1>1 DEF Typed, SetProgram, GuiCopies
<1>5. calls' \in 0..MaxCalls
  BY <1>1, MaxCallsAssumption DEF Typed, SetProgram, Called
<1>6. UNCHANGED <<px, messages, bank, current_program, need_bank_update, remaining, audio,
                  to_audio_string_messages, to_gui_messages>>
  BY DEF SetProgram, audio_vars
<1>7. Typed'
  BY <1>1, <1>3, <1>4, <1>5, <1>6 DEF Typed
<1>8. TypeOK'
  BY <1>7, TypedIsTypeOK, PTL
<1>9. PlacesOK'
  <2>1. audio.left \in Nat /\ Len(to_audio_messages) \in Nat /\ Len(to_audio_messages') \in Nat
    BY <1>1, <1>3, NoMessages DEF Typed, Audios
  <2> QED BY <1>1, <1>3, <1>6, <2>1 DEF PlacesOK
<1> QED BY <1>8, <1>9 DEF TypeAndPlaces

LEMMA SetParameterTypes ==
  ASSUME TypeAndPlaces, NEW id \in ParamId, NEW value \in Values,
         SetParameter(id, value) \/ TurnKnob(id, value)
  PROVE  TypeAndPlaces'
<1>1. Typed /\ PlacesOK
  BY TypedIsTypeOK DEF TypeAndPlaces
<1>2. /\ [type |-> "CHANGE_PARAM", id |-> id, value |-> value] \in AudioMessages
      /\ SetParam(id, value) \in Messages
  BY DEF AudioMessages, Messages
<1>3. /\ to_audio_messages' \in Seq(AudioMessages) /\ Len(to_audio_messages') <= QueueCapacity
      /\ Len(to_audio_messages) <= Len(to_audio_messages')
      /\ messages' \in Seq(Messages) /\ Len(messages') <= QueueCapacity
  <2>1. CASE SetParameter(id, value)
    <3>1. /\ to_audio_messages' \in Seq(AudioMessages)
          /\ Len(to_audio_messages') <= QueueCapacity
          /\ Len(to_audio_messages) <= Len(to_audio_messages')
      BY <1>1, <1>2, <2>1, PushedQueue DEF Typed, SetParameter
    <3>2. messages' = messages
      BY <2>1 DEF SetParameter, audio_vars
    <3> QED BY <1>1, <3>1, <3>2 DEF Typed
  <2>2. CASE TurnKnob(id, value)
    <3>1. messages' \in Seq(Messages) /\ Len(messages') <= QueueCapacity
      BY <1>1, <1>2, <2>2, PushedQueue DEF Typed, TurnKnob
    <3>2. to_audio_messages' = to_audio_messages /\ Len(to_audio_messages) \in Nat
      BY <1>1, <2>2 DEF Typed, TurnKnob
    <3> QED BY <1>1, <3>1, <3>2 DEF Typed
  <2> QED BY <2>1, <2>2
<1>4. calls' \in 0..MaxCalls
  BY <1>1, MaxCallsAssumption DEF Typed, SetParameter, TurnKnob, Called
<1>5. UNCHANGED <<px, bank, current_program, need_bank_update, remaining, audio, gui,
                  to_audio_string_messages, to_gui_messages>>
  BY DEF SetParameter, TurnKnob, audio_vars
<1>6. Typed'
  BY <1>1, <1>3, <1>4, <1>5 DEF Typed
<1>7. TypeOK'
  BY <1>6, TypedIsTypeOK, PTL
<1>8. PlacesOK'
  <2>1. audio.left \in Nat /\ Len(to_audio_messages) \in Nat /\ Len(to_audio_messages') \in Nat
    BY <1>1, <1>3, NoMessages DEF Typed, Audios
  <2> QED BY <1>1, <1>3, <1>5, <2>1 DEF PlacesOK
<1> QED BY <1>7, <1>8 DEF TypeAndPlaces

(* The calls that bring the copies up to date first, and idle. *)
LEMMA CopiesTypes ==
  ASSUME TypeAndPlaces, gui' \in GuiCopies, px' \in ParamStates,
         messages' \in {messages, <<>>}, to_gui_messages' \in {to_gui_messages, <<>>},
         remaining' \in {remaining, MinSamples},
         to_audio_string_messages' \in Seq(StringMessages),
         Len(to_audio_string_messages') <= QueueCapacity,
         Len(to_audio_string_messages) <= Len(to_audio_string_messages'),
         \/ calls' = calls
         \/ calls < MaxCalls /\ calls' = calls + 1,
         UNCHANGED <<bank, current_program, need_bank_update, audio, to_audio_messages>>
  PROVE  TypeAndPlaces'
<1>1. Typed /\ PlacesOK
  BY TypedIsTypeOK DEF TypeAndPlaces
<1>2. /\ messages' \in Seq(Messages) /\ Len(messages') <= QueueCapacity
      /\ to_gui_messages' \in Seq(GuiMessages) /\ Len(to_gui_messages') <= QueueCapacity
  BY <1>1, NoMessages DEF Typed
<1>3. remaining' \in 0..MinSamples
  BY <1>1, SamplesAssumption DEF Typed
<1>4. calls' \in 0..MaxCalls
  BY <1>1, MaxCallsAssumption DEF Typed
<1>5. Typed'
  BY <1>1, <1>2, <1>3, <1>4 DEF Typed
<1>6. TypeOK'
  BY <1>5, TypedIsTypeOK, PTL
<1>7. PlacesOK'
  <2>1. /\ audio.left \in Nat /\ Len(to_audio_string_messages) \in Nat
        /\ Len(to_audio_string_messages') \in Nat
    BY <1>1, NoMessages DEF Typed, Audios
  <2> QED BY <1>1, <2>1 DEF PlacesOK
<1> QED BY <1>6, <1>7 DEF TypeAndPlaces

LEMMA IdleTypes ==
  ASSUME TypeAndPlaces, Idle \/ GetPatch \/ Resume \/ SetSampleRate
  PROVE  TypeAndPlaces'
<1>1. Typed
  BY TypedIsTypeOK DEF TypeAndPlaces
<1>2. PICK g \in GuiCopies : g = UpToDate
  BY <1>1, UpToDateType DEF Typed
<1>3. gui' \in GuiCopies
  <2>1. CASE Idle \/ Resume \/ SetSampleRate
    BY <1>2, <2>1 DEF Idle, Resume, SetSampleRate
  <2>2. CASE GetPatch
    <3>1. gui' = [g EXCEPT !.current_patch.name = g.program_names[g.current_program_index]]
      BY <1>2, <2>2 DEF GetPatch
    <3>2. [g.current_patch EXCEPT !.name = g.program_names[g.current_program_index]] \in Program
      BY DEF GuiCopies, Program
    <3> QED BY <3>1, <3>2 DEF GuiCopies
  <2> QED BY <2>1, <2>2
<1>4. px' \in ParamStates
  BY <1>1, ProcessMessagesType DEF Typed, Idle, GetPatch, Resume, SetSampleRate, audio_vars
<1>5. /\ messages' \in {messages, <<>>} /\ to_gui_messages' \in {to_gui_messages, <<>>}
      /\ remaining' \in {remaining, MinSamples}
      /\ to_audio_string_messages' = to_audio_string_messages
      /\ \/ calls' = calls
         \/ calls < MaxCalls /\ calls' = calls + 1
      /\ UNCHANGED <<bank, current_program, need_bank_update, audio, to_audio_messages>>
  BY DEF Idle, GetPatch, Resume, SetSampleRate, audio_vars, Called
<1>6. /\ to_audio_string_messages' \in Seq(StringMessages)
      /\ Len(to_audio_string_messages') <= QueueCapacity
      /\ Len(to_audio_string_messages) <= Len(to_audio_string_messages')
  BY <1>1, <1>5, NoMessages DEF Typed
<1> QED BY <1>3, <1>4, <1>5, <1>6, CopiesTypes

LEMMA StringCallTypes ==
  ASSUME TypeAndPlaces,
         \/ \E name \in Names : SetProgramName(name)
         \/ \E patch \in Program : SetPatch(patch)
         \/ \E programs \in HostBanks : SetBank(programs)
         \/ PushRename
  PROVE  TypeAndPlaces'
<1>1. Typed
  BY TypedIsTypeOK DEF TypeAndPlaces
<1>2. PICK g \in GuiCopies : g = UpToDate
  BY <1>1, UpToDateType DEF Typed
<1>3. gui' \in GuiCopies
      /\ \E m \in StringMessages : to_audio_string_messages' = Push(to_audio_string_messages, m)
  <2>1. ASSUME NEW name \in Names, SetProgramName(name)
        PROVE  gui' \in GuiCopies
               /\ \E m \in StringMessages :
                    to_audio_string_messages' = Push(to_audio_string_messages, m)
    <3>1. PICK m \in StringMessages : m = [type |-> "RENAME_PROGRAM", name |-> name]
      BY DEF StringMessages
    <3>2. gui' = [g EXCEPT !.program_names[g.current_program_index] = name]
      BY <1>2, <2>1 DEF SetProgramName
    <3>3. [g.program_names EXCEPT ![g.current_program_index] = name] \in [Programs -> Names]
      BY DEF GuiCopies
    <3>4. gui' \in GuiCopies
      BY <3>2, <3>3 DEF GuiCopies
    <3> QED BY <2>1, <3>1, <3>4 DEF SetProgramName
  <2>2. ASSUME NEW patch \in Program, SetPatch(patch)
        PROVE  gui' \in GuiCopies
               /\ \E m \in StringMessages :
                    to_audio_string_messages' = Push(to_audio_string_messages, m)
    <3>1. PICK m \in StringMessages : m = [type |-> "IMPORT_PATCH", patch |-> patch]
      BY DEF StringMessages
    <3>2. patch.name \in Names
      BY DEF Program
    <3>3. PICK rename \in StringMessages : rename = [type |-> "RENAME_PROGRAM", name |-> patch.name]
      BY <3>2 DEF StringMessages
    <3>4. gui' = [g EXCEPT !.current_patch = patch,
                           !.program_names[g.current_program_index] = patch.name,
                           !.todo = <<rename>>]
      BY <1>2, <2>2, <3>3 DEF SetPatch
    <3>5. [g.program_names EXCEPT ![g.current_program_index] = patch.name]
            \in [Programs -> Names]
      BY <3>2 DEF GuiCopies
    <3>6. <<rename>> \in Seq(StringMessages)
      OBVIOUS
    <3>7. gui' \in GuiCopies
      BY <3>4, <3>5, <3>6 DEF GuiCopies
    <3> QED BY <2>2, <3>1, <3>7 DEF SetPatch
  <2>3. ASSUME NEW programs \in HostBanks, SetBank(programs)
        PROVE  gui' \in GuiCopies
               /\ \E m \in StringMessages :
                    to_audio_string_messages' = Push(to_audio_string_messages, m)
    <3>1. PICK m \in StringMessages : m = [type |-> "IMPORT_BANK", programs |-> programs]
      BY DEF StringMessages
    <3>2. programs \in [Programs -> Program]
      BY HostBanksAssumption
    <3>3. gui' \in GuiCopies
      BY <1>2, <2>3, <3>2, HandleBankChangedType DEF SetBank
    <3> QED BY <2>3, <3>1, <3>3 DEF SetBank
  <2>4. ASSUME PushRename
        PROVE  gui' \in GuiCopies
               /\ \E m \in StringMessages :
                    to_audio_string_messages' = Push(to_audio_string_messages, m)
    <3>1. gui.todo \in Seq(StringMessages) /\ gui.todo # <<>>
      BY <1>1, <2>4 DEF Typed, GuiCopies, PushRename
    <3>2. Head(gui.todo) \in StringMessages /\ Tail(gui.todo) \in Seq(StringMessages)
      BY <3>1
    <3>3. gui' \in GuiCopies
      BY <1>1, <2>4, <3>2 DEF Typed, GuiCopies, PushRename
    <3> QED BY <2>4, <3>2, <3>3 DEF PushRename
  <2> QED BY <2>1, <2>2, <2>3, <2>4
<1>4. /\ to_gui_messages' \in {to_gui_messages, <<>>}
      /\ \/ calls' = calls
         \/ calls < MaxCalls /\ calls' = calls + 1
      /\ UNCHANGED <<px, messages, bank, current_program, need_bank_update, remaining, audio,
                     to_audio_messages>>
  BY DEF SetProgramName, SetPatch, SetBank, PushRename, audio_vars, Called
<1>5. px' \in ParamStates /\ messages' \in {messages, <<>>} /\ remaining' \in {remaining, MinSamples}
  BY <1>1, <1>4 DEF Typed
<1>6. /\ to_audio_string_messages' \in Seq(StringMessages)
      /\ Len(to_audio_string_messages') <= QueueCapacity
      /\ Len(to_audio_string_messages) <= Len(to_audio_string_messages')
  BY <1>1, <1>3, PushedQueue DEF Typed
<1> QED BY <1>3, <1>4, <1>5, <1>6, CopiesTypes

LEMMA NextTypeAndPlaces == TypeAndPlaces /\ [Next]_vars => TypeAndPlaces'
<1> SUFFICES ASSUME TypeAndPlaces, [Next]_vars PROVE TypeAndPlaces'
  OBVIOUS
<1>1. CASE AudioNext
  BY <1>1, StepTypes, PopStringTypes, PopMessageTypes, ChangeProgramTypes, FinalizeProcessingTypes
     DEF AudioNext
<1>2. CASE GuiNext
  BY <1>2, IdleTypes, StringCallTypes DEF GuiNext
<1>3. CASE HostNext
  BY <1>3, SetProgramTypes, StringCallTypes, SetParameterTypes, IdleTypes DEF HostNext
<1>4. CASE UNCHANGED vars
  <2>1. TypeOK' <=> TypeOK
    BY <1>4 DEF vars, audio_vars, TypeOK
  <2>2. PlacesOK' <=> PlacesOK
    BY <1>4 DEF vars, audio_vars, PlacesOK
  <2> QED BY <2>1, <2>2 DEF TypeAndPlaces
<1> QED BY <1>1, <1>2, <1>3, <1>4 DEF Next

LEMMA TypesAndPlacesStay == Spec => []TypeAndPlaces
BY InitTypeAndPlaces, NextTypeAndPlaces, PTL DEF Spec

(***************************************************************************)
(* Every variable keeps its type: what one thread reads from a queue is a  *)
(* message that the other pushed, and the countdown to the next update of  *)
(* the bank never passes zero, however long a block is.                    *)
(***************************************************************************)
THEOREM TypeCorrect == Spec => []TypeOK
<1>1. TypeAndPlaces => TypeOK
  BY DEF TypeAndPlaces
<1> QED BY <1>1, TypesAndPlacesStay, PTL

-----------------------------------------------------------------------------
(* FstPlugin implements ProgramBank. *)

(* The settings, or the name, of one program of a bank are replaced. *)
WithSettings(programs, i, settings) == [programs EXCEPT ![i].settings = settings]
WithName(programs, i, name) == [programs EXCEPT ![i].name = name]

LEMMA Replacements ==
  ASSUME NEW programs \in [Programs -> Program], NEW i \in Programs,
         NEW s \in Settings, NEW name \in Names
  PROVE  /\ WithSettings(programs, i, s) \in [Programs -> Program]
         /\ WithName(programs, i, name) \in [Programs -> Program]
<1>1. PICK q \in Program : q = programs[i]
  OBVIOUS
<1>2. [q EXCEPT !.settings = s] \in Program /\ [q EXCEPT !.name = name] \in Program
  BY DEF Program
<1> QED BY <1>1, <1>2 DEF WithSettings, WithName

LEMMA SettingsReplaced ==
  ASSUME NEW programs \in [Programs -> Program], NEW i \in Programs,
         NEW s \in Settings, NEW t \in Settings, NEW name \in Names
  PROVE  /\ WithSettings(programs, i, s)[i].settings = s
         /\ WithSettings(WithSettings(programs, i, s), i, t) = WithSettings(programs, i, t)
         /\ programs[i].settings = s => WithSettings(programs, i, s) = programs
         /\ WithName(WithSettings(programs, i, s), i, name)
              = WithSettings(WithName(programs, i, name), i, s)
<1>1. PICK q \in Program : q = programs[i]
  OBVIOUS
<1>2. /\ [q EXCEPT !.settings = s].settings = s
      /\ [[q EXCEPT !.settings = s] EXCEPT !.settings = t] = [q EXCEPT !.settings = t]
      /\ q.settings = s => [q EXCEPT !.settings = s] = q
      /\ [[q EXCEPT !.settings = s] EXCEPT !.name = name]
           = [[q EXCEPT !.name = name] EXCEPT !.settings = s]
  BY DEF Program
<1>3. PICK a \in [Programs -> Program] : a = WithSettings(programs, i, s)
  BY Replacements
<1>4. PICK b \in [Programs -> Program] : b = WithName(programs, i, name)
  BY Replacements
<1>5. /\ a = [programs EXCEPT ![i] = [q EXCEPT !.settings = s]]
      /\ a[i] = [q EXCEPT !.settings = s]
      /\ b = [programs EXCEPT ![i] = [q EXCEPT !.name = name]]
      /\ b[i] = [q EXCEPT !.name = name]
      /\ WithSettings(programs, i, t) = [programs EXCEPT ![i] = [q EXCEPT !.settings = t]]
  <2>1. a = [programs EXCEPT ![i] = [q EXCEPT !.settings = s]]
    BY <1>1, <1>3 DEF WithSettings
  <2>2. b = [programs EXCEPT ![i] = [q EXCEPT !.name = name]]
    BY <1>1, <1>4 DEF WithName
  <2>3. WithSettings(programs, i, t) = [programs EXCEPT ![i] = [q EXCEPT !.settings = t]]
    BY <1>1 DEF WithSettings
  <2>4. \A x : [programs EXCEPT ![i] = x][i] = x
    OBVIOUS
  <2> QED BY <2>1, <2>2, <2>3, <2>4
<1>6. /\ WithSettings(a, i, t) = [a EXCEPT ![i] = [a[i] EXCEPT !.settings = t]]
      /\ WithName(a, i, name) = [a EXCEPT ![i] = [a[i] EXCEPT !.name = name]]
      /\ WithSettings(b, i, s) = [b EXCEPT ![i] = [b[i] EXCEPT !.settings = s]]
  BY DEF WithSettings, WithName
<1>7. \A x, y : [[programs EXCEPT ![i] = x] EXCEPT ![i] = y] = [programs EXCEPT ![i] = y]
  OBVIOUS
<1>8. WithSettings(a, i, t) = WithSettings(programs, i, t)
  <2>1. WithSettings(a, i, t) = [a EXCEPT ![i] = [q EXCEPT !.settings = t]]
    BY <1>2, <1>5, <1>6
  <2> QED BY <1>5, <1>7, <2>1
<1>9. q.settings = s => a = programs
  BY <1>1, <1>2, <1>5
<1>10. WithName(a, i, name) = WithSettings(b, i, s)
  <2>1. PICK both : both = [[q EXCEPT !.settings = s] EXCEPT !.name = name]
    OBVIOUS
  <2>2. WithName(a, i, name) = [a EXCEPT ![i] = both]
    BY <1>5, <1>6, <2>1
  <2>3. WithSettings(b, i, s) = [b EXCEPT ![i] = both]
    BY <1>2, <1>5, <1>6, <2>1
  <2> QED BY <1>5, <1>7, <2>2, <2>3
<1>11. a[i].settings = s
  BY <1>2, <1>5
<1> QED BY <1>1, <1>3, <1>4, <1>8, <1>9, <1>10, <1>11

LEMMA EffectiveIs ==
  EffectivePrograms = WithSettings(bank, current_program, px.params)
BY DEF EffectivePrograms, WithSettings

LEMMA InitPrograms == Init => ProgramsOK /\ Promise!BankInit
<1> SUFFICES ASSUME Init PROVE ProgramsOK /\ Promise!BankInit
  OBVIOUS
<1>1. Typed
  BY InitTypeAndPlaces, TypedIsTypeOK DEF TypeAndPlaces
<1>2. px.ratios = px.params /\ audio.pc = "idle"
  BY DEF Init, FreshParams, IdleAudio
<1>3. px.params \in Settings /\ DefaultName \in Names
  BY <1>1, NamesAssumption DEF Typed, ParamStates
<1>4. EffectivePrograms \in [Programs -> Program]
  BY <1>1, <1>3, Replacements, EffectiveIs DEF Typed
<1>5. Promise!BankInit
  BY <1>1, <1>4 DEF Typed, Promise!BankInit
<1> QED BY <1>2, <1>5 DEF ProgramsOK

(* A step that only plays the current program on, or edits it. *)
LEMMA EditingStep ==
  ASSUME TypeAndPlaces, ProgramsOK, TypeAndPlaces', px'.ratios = px'.params,
         current_program' = current_program, audio'.pc # "switch",
         \/ bank' = bank
         \/ bank' = ImportedInto(bank, current_program, px')
  PROVE  ProgramsOK' /\ Promise!BankNext
<1>1. Typed /\ Typed'
  BY TypedIsTypeOK, PTL DEF TypeAndPlaces
<1>2. /\ px.params \in Settings /\ px'.params \in Settings /\ DefaultName \in Names
      /\ bank \in [Programs -> Program] /\ current_program \in Programs
  BY <1>1, NamesAssumption DEF Typed, ParamStates
<1>3. bank' = bank \/ bank' = WithSettings(bank, current_program, px'.params)
  BY DEF ImportedInto, Serialize, WithSettings
<1>4. WithSettings(bank', current_program, px'.params)
        = WithSettings(bank, current_program, px'.params)
  BY <1>2, <1>3, SettingsReplaced
<1>5. EffectivePrograms' = WithSettings(bank', current_program, px'.params)
  BY DEF EffectivePrograms, WithSettings
<1>6. WithSettings(EffectivePrograms, current_program, px'.params)
        = WithSettings(bank, current_program, px'.params)
  BY <1>2, SettingsReplaced, EffectiveIs
<1>7. Promise!Edit(px'.params)
  BY <1>4, <1>5, <1>6 DEF Promise!Edit, WithSettings
<1>8. ProgramsOK'
  BY DEF ProgramsOK
<1> QED BY <1>2, <1>7, <1>8 DEF Promise!BankNext

(* A step of which the player notices nothing. *)
LEMMA UnnoticedStep ==
  ASSUME ProgramsOK, UNCHANGED <<px, bank, current_program>>,
         audio'.pc = audio.pc \/ audio'.pc # "switch"
  PROVE  ProgramsOK' /\ UNCHANGED <<EffectivePrograms, current_program>>
<1>1. UNCHANGED <<EffectivePrograms, current_program>>
  BY DEF EffectivePrograms
<1>2. ProgramsOK'
  BY DEF ProgramsOK
<1> QED BY <1>1, <1>2

LEMMA PopStringImplements ==
  ASSUME TypeAndPlaces, ProgramsOK, TypeAndPlaces', PopString
  PROVE  ProgramsOK' /\ Promise!BankNext
<1> DEFINE m == Head(to_audio_string_messages)
<1>1. Typed /\ PlacesOK
  BY TypedIsTypeOK DEF TypeAndPlaces
<1>2. /\ audio.pc = "strings" /\ audio.left > 0 /\ audio.left <= Len(to_audio_string_messages)
      /\ audio.left \in Nat /\ to_audio_string_messages \in Seq(StringMessages)
  BY <1>1, NoMessages DEF Typed, PopString, PlacesOK, Audios
<1>3. m \in StringMessages
  <2>1. Len(to_audio_string_messages) > 0
    <3>1. Len(to_audio_string_messages) \in Nat
      BY <1>2
    <3> QED BY <1>2, <3>1
  <2> QED BY <1>2, <2>1, PoppedQueue
<1>4. /\ px.params \in Settings /\ bank \in [Programs -> Program] /\ current_program \in Programs
      /\ px \in ParamStates /\ messages \in Seq(Messages) /\ DefaultName \in Names
  BY <1>1, NamesAssumption DEF Typed, ParamStates
<1>5. audio'.pc = "strings" /\ current_program' = current_program
  BY <1>1, <1>2 DEF PopString, Typed, Audios
<1>6. \/ m.type = "RENAME_PROGRAM" /\ HandleRenameProgram(m.name)
      \/ m.type = "IMPORT_PATCH" /\ HandleImportPatch(m.patch.settings)
      \/ m.type = "IMPORT_BANK" /\ HandleImportBank(m.programs)
  BY DEF PopString
<1>7. CASE m.type = "RENAME_PROGRAM" /\ HandleRenameProgram(m.name)
  <2>1. PICK name \in Names : name = m.name
    BY <1>3, <1>7, StringMessageTypes
  <2>2. bank' = WithName(bank, current_program, name) /\ px' = px
    BY <1>7, <2>1 DEF HandleRenameProgram, WithName
  <2>3. WithName(EffectivePrograms, current_program, name)
          = WithSettings(bank', current_program, px.params)
    BY <1>4, <2>2, SettingsReplaced, EffectiveIs
  <2>4. EffectivePrograms' = WithName(EffectivePrograms, current_program, name)
    BY <1>5, <2>2, <2>3 DEF EffectivePrograms, WithSettings
  <2>5. Promise!Rename(name)
    BY <1>5, <2>4 DEF Promise!Rename, WithName
  <2>6. ProgramsOK'
    BY <1>5, <2>2 DEF ProgramsOK
  <2> QED BY <2>5, <2>6 DEF Promise!BankNext
<1>8. CASE m.type = "IMPORT_PATCH" /\ HandleImportPatch(m.patch.settings)
  <2>1. PICK settings \in Settings : settings = m.patch.settings
    BY <1>3, <1>8, StringMessageTypes DEF Program
  <2>2. px'.params = settings /\ px'.ratios = settings
    BY <1>4, <1>8, <2>1, ImportCleanType DEF HandleImportPatch
  <2>3. bank' = ImportedInto(bank, current_program, px')
    BY <1>8 DEF HandleImportPatch
  <2> QED BY <1>5, <2>2, <2>3, EditingStep
<1>9. CASE m.type = "IMPORT_BANK" /\ HandleImportBank(m.programs)
  <2>1. PICK programs \in HostBanks :
          programs = m.programs /\ programs \in [Programs -> Program]
    BY <1>3, <1>9, StringMessageTypes, HostBanksAssumption
  <2>2. programs[current_program].settings \in Settings
    BY <1>4, <2>1 DEF Program
  <2>3. /\ px'.params = programs[current_program].settings
        /\ px'.ratios = programs[current_program].settings
        /\ bank' = programs
    BY <1>4, <1>9, <2>1, <2>2, ImportCleanType DEF HandleImportBank
  <2>4. EffectivePrograms' = programs
    <3>1. EffectivePrograms' = WithSettings(programs, current_program, px'.params)
      BY <1>5, <2>3 DEF EffectivePrograms, WithSettings
    <3> QED BY <1>4, <2>1, <2>2, <2>3, <3>1, SettingsReplaced
  <2>5. Promise!Load(programs)
    BY <1>5, <2>4 DEF Promise!Load
  <2>6. ProgramsOK'
    BY <1>5, <2>3 DEF ProgramsOK
  <2> QED BY <2>5, <2>6 DEF Promise!BankNext
<1> QED BY <1>6, <1>7, <1>8, <1>9

LEMMA PopMessageImplements ==
  ASSUME TypeAndPlaces, ProgramsOK, TypeAndPlaces', PopMessage
  PROVE  ProgramsOK' /\ Promise!BankNext
<1> DEFINE m == Head(to_audio_messages)
<1>1. Typed /\ PlacesOK
  BY TypedIsTypeOK DEF TypeAndPlaces
<1>2. /\ audio.pc = "messages" /\ audio.left > 0 /\ audio.left <= Len(to_audio_messages)
      /\ audio.left \in Nat /\ to_audio_messages \in Seq(AudioMessages)
  BY <1>1, NoMessages DEF Typed, PopMessage, PlacesOK, Audios
<1>3. m \in AudioMessages
  <2>1. Len(to_audio_messages) > 0
    <3>1. Len(to_audio_messages) \in Nat
      BY <1>2
    <3> QED BY <1>2, <3>1
  <2> QED BY <1>2, <2>1, PoppedQueue
<1>4. px \in ParamStates /\ messages \in Seq(Messages) /\ px.ratios = px.params
  BY <1>1 DEF Typed, ProgramsOK
<1>5. current_program' = current_program /\ bank' = bank
  BY DEF PopMessage
<1>6. px'.ratios = px'.params /\ audio'.pc # "switch"
  <2>1. CASE /\ audio' = [audio EXCEPT !.left = @ - 1]
             /\ UNCHANGED <<px, messages>>
    BY <1>1, <1>2, <1>4, <2>1 DEF Typed, Audios
  <2>2. CASE /\ px' = ProcessMessages(px, messages)
             /\ audio' = [audio EXCEPT !.pc = "save", !.left = @ - 1, !.new_program = m.index]
    BY <1>1, <1>4, <2>2, CopiesStayCurrent DEF Typed, Audios
  <2>3. CASE /\ m.type = "CHANGE_PARAM"
             /\ px' = HandleSetParam(px, m.id, m.value)
             /\ audio' = [audio EXCEPT !.left = @ - 1]
    <3>1. m.id \in ParamId /\ m.value \in Values
      BY <1>3, <2>3, AudioMessageTypes
    <3>2. /\ px'.params = [px.params EXCEPT ![m.id] = m.value]
          /\ px'.ratios = [px.ratios EXCEPT ![m.id] = m.value]
      BY <1>4, <2>3, <3>1 DEF HandleSetParam, HandleRefreshParam, ParamStates, Settings
    <3> QED BY <1>1, <1>2, <1>4, <2>3, <3>2 DEF Typed, Audios
  <2> QED BY <2>1, <2>2, <2>3 DEF PopMessage
<1> QED BY <1>5, <1>6, EditingStep

(* Another program is selected: it is saved, and then the other is loaded. *)
LEMMA SaveOldProgramImplements ==
  ASSUME TypeAndPlaces, ProgramsOK, SaveOldProgram
  PROVE  ProgramsOK' /\ UNCHANGED <<EffectivePrograms, current_program>>
<1>1. Typed
  BY TypedIsTypeOK DEF TypeAndPlaces
<1>2. /\ px.params \in Settings /\ bank \in [Programs -> Program] /\ current_program \in Programs
      /\ DefaultName \in Names
  BY <1>1, NamesAssumption DEF Typed, ParamStates
<1>3. /\ bank' = WithSettings(bank, current_program, px.params)
      /\ px' = px /\ current_program' = current_program
  BY DEF SaveOldProgram, ImportedInto, Serialize, ProgramsOK, WithSettings
<1>4. EffectivePrograms' = EffectivePrograms
  <2>1. EffectivePrograms' = WithSettings(bank', current_program, px.params)
    BY <1>3 DEF EffectivePrograms, WithSettings
  <2> QED BY <1>2, <1>3, <2>1, SettingsReplaced, EffectiveIs
<1>5. bank'[current_program].settings = px.params
  BY <1>2, <1>3, SettingsReplaced
<1> QED BY <1>3, <1>4, <1>5 DEF ProgramsOK

LEMMA LoadNewProgramImplements ==
  ASSUME TypeAndPlaces, ProgramsOK, LoadNewProgram
  PROVE  ProgramsOK' /\ Promise!BankNext
<1>1. Typed
  BY TypedIsTypeOK DEF TypeAndPlaces
<1>2. /\ bank \in [Programs -> Program] /\ current_program \in Programs
      /\ px \in ParamStates /\ messages \in Seq(Messages) /\ px.params \in Settings
      /\ DefaultName \in Names
  BY <1>1, NamesAssumption DEF Typed, ParamStates
<1>3. PICK new \in Programs : new = audio.new_program
  BY <1>1 DEF Typed, Audios
<1>4. bank[new].settings \in Settings
  BY <1>2 DEF Program
<1>5. /\ px'.params = bank[new].settings /\ px'.ratios = bank[new].settings
      /\ bank' = bank /\ current_program' = new
  BY <1>2, <1>3, <1>4, ImportCleanType DEF LoadNewProgram
<1>6. EffectivePrograms' = bank
  <2>1. EffectivePrograms' = WithSettings(bank, new, px'.params)
    BY <1>5 DEF EffectivePrograms, WithSettings
  <2> QED BY <1>2, <1>4, <1>5, <2>1, SettingsReplaced
<1>7. EffectivePrograms = bank
  <2>1. bank[current_program].settings = px.params
    BY DEF LoadNewProgram, ProgramsOK
  <2> QED BY <1>2, <2>1, SettingsReplaced, EffectiveIs
<1>8. Promise!Select(new)
  BY <1>5, <1>6, <1>7 DEF Promise!Select
<1>9. audio'.pc = "messages"
  BY <1>1 DEF LoadNewProgram, Typed, Audios
<1> QED BY <1>5, <1>8, <1>9 DEF ProgramsOK, Promise!BankNext

LEMMA FinalizeProcessingImplements ==
  ASSUME TypeAndPlaces, ProgramsOK, TypeAndPlaces',
         NEW sample_count \in BlockSizes, FinalizeProcessing(sample_count)
  PROVE  ProgramsOK' /\ Promise!BankNext
<1>1. Typed
  BY TypedIsTypeOK DEF TypeAndPlaces
<1>2. PICK p \in ParamStates : p = ProcessMessages(px, messages) /\ p.ratios = p.params
  BY <1>1, ProcessMessagesType, CopiesStayCurrent DEF Typed, ProgramsOK
<1>3. PICK idle \in Audios : idle = IdleAudio(current_program) /\ idle.pc = "idle"
  BY <1>1, IdleAudioType DEF Typed
<1>4. current_program' = current_program
  BY DEF FinalizeProcessing
<1>5. /\ px'.ratios = px'.params /\ px'.ratios = p.ratios /\ audio'.pc # "switch"
      /\ \/ bank' = bank
         \/ bank' = ImportedInto(bank, current_program, p)
  <2>1. CASE px' = p /\ audio' = idle /\ bank' = bank
    BY <1>2, <1>3, <2>1
  <2>2. CASE /\ px' = [p EXCEPT !.is_dirty = FALSE, !.hides = FALSE]
             /\ bank' = ImportedInto(bank, current_program, p)
             /\ \E todo : audio' = [idle EXCEPT !.pc = "publish", !.todo = todo]
    <3>1. audio'.pc = "publish"
      BY <2>2 DEF Audios
    <3>2. px'.ratios = p.ratios /\ px'.params = p.params
      BY <2>2 DEF ParamStates
    <3> QED BY <1>2, <2>2, <3>1, <3>2
  <2> QED BY <1>2, <1>3, <2>1, <2>2 DEF FinalizeProcessing
<1>6. ImportedInto(bank, current_program, px') = ImportedInto(bank, current_program, p)
  BY <1>5 DEF ImportedInto, Serialize
<1> QED BY <1>4, <1>5, <1>6, EditingStep

LEMMA ResumeImplements ==
  ASSUME TypeAndPlaces, ProgramsOK, TypeAndPlaces', Resume
  PROVE  ProgramsOK' /\ Promise!BankNext
<1>1. px \in ParamStates /\ messages \in Seq(Messages)
  BY TypedIsTypeOK DEF TypeAndPlaces, Typed
<1>2. px'.ratios = px'.params
  BY <1>1, CopiesStayCurrent DEF Resume, ProgramsOK
<1>3. current_program' = current_program /\ bank' = bank /\ audio'.pc # "switch"
  BY DEF Resume
<1> QED BY <1>2, <1>3, EditingStep

LEMMA NextImplements ==
  ASSUME TypeAndPlaces, ProgramsOK, [Next]_vars
  PROVE  ProgramsOK' /\ [Promise!BankNext]_<<EffectivePrograms, current_program>>
<1>1. TypeAndPlaces' /\ Typed
  BY NextTypeAndPlaces, TypedIsTypeOK DEF TypeAndPlaces
<1>2. CASE PopString \/ PopMessage \/ LoadNewProgram \/ Resume
           \/ \E sample_count \in BlockSizes : FinalizeProcessing(sample_count)
  BY <1>1, <1>2, PopStringImplements, PopMessageImplements, LoadNewProgramImplements,
     ResumeImplements, FinalizeProcessingImplements
<1>3. CASE SaveOldProgram
  BY <1>3, SaveOldProgramImplements
<1>4. CASE PrepareProcessing \/ StringsDone \/ PublishNext
  <2>1. UNCHANGED <<px, bank, current_program>>
    BY <1>4 DEF PrepareProcessing, StringsDone, PublishNext
  <2>2. audio'.pc # "switch"
    <3>1. CASE PrepareProcessing \/ StringsDone
      BY <1>1, <3>1 DEF PrepareProcessing, StringsDone, Typed, Audios
    <3>2. CASE PublishNext /\ Len(audio.todo) = 1
      BY <3>2 DEF PublishNext, IdleAudio
    <3>3. CASE PublishNext /\ Len(audio.todo) # 1
      BY <1>1, <3>3 DEF PublishNext, Typed, Audios
    <3> QED BY <1>4, <3>1, <3>2, <3>3
  <2> QED BY <2>1, <2>2, UnnoticedStep
<1>5. CASE GuiNext \/ GetPatch \/ SetSampleRate
           \/ (\E index \in Programs : SetProgram(index))
           \/ (\E name \in Names : SetProgramName(name))
           \/ (\E patch \in Program : SetPatch(patch))
           \/ (\E programs \in HostBanks : SetBank(programs))
           \/ (\E id \in ParamId, value \in Values : SetParameter(id, value) \/ TurnKnob(id, value))
  <2>1. UNCHANGED <<px, bank, current_program, audio>>
    BY <1>5 DEF GuiNext, Idle, PushRename, GetPatch, SetSampleRate, SetProgram, SetProgramName,
                SetPatch, SetBank, SetParameter, TurnKnob, audio_vars
  <2> QED BY <2>1, UnnoticedStep
<1>6. CASE UNCHANGED vars
  <2>1. UNCHANGED <<px, bank, current_program, audio>>
    BY <1>6 DEF vars, audio_vars
  <2> QED BY <2>1, UnnoticedStep
<1> QED BY <1>2, <1>3, <1>4, <1>5, <1>6 DEF Next, AudioNext, HostNext

(***************************************************************************)
(* Whatever reaches the audio thread, in whatever order, edits, names or   *)
(* imports the program that is current then, selects another one, which    *)
(* changes no program, or loads one of the banks that the host sent, just  *)
(* as it was sent.  The two halves of handle_change_program with a knob's  *)
(* message between them are one selection, because what the first half     *)
(* saved is what is played until the second half, and saved states are     *)
(* read back as they were.                                                 *)
(***************************************************************************)
THEOREM ImplementsBank == Spec => ImplementsProgramBank
<1>1. Init => IInv /\ Promise!BankInit
  BY InitTypeAndPlaces, InitPrograms DEF IInv
<1>2. IInv /\ [Next]_vars => IInv' /\ [Promise!BankNext]_<<EffectivePrograms, current_program>>
  BY NextTypeAndPlaces, NextImplements DEF IInv
<1> QED BY <1>1, <1>2, PTL DEF Spec, ImplementsProgramBank, Promise!BankSpec, Promise!bank_vars

-----------------------------------------------------------------------------
(* Edits on their way. *)

\* Proxy's queue has only what knobs push to it
KnobsOnly == \A k \in 1..Len(messages) : messages[k].type = "SET_PARAM"

(***************************************************************************)
(* How the parameters may get from p to q by edits: the dirty flag tells   *)
(* of a change, or something hid one, or nothing changed and there was     *)
(* nothing to tell of before.                                              *)
(***************************************************************************)
Noticed(p, q) ==
  \/ q.is_dirty = TRUE
  \/ q.hides = TRUE
  \/ p.is_dirty = FALSE /\ p.hides = FALSE /\ q.params = p.params

LEMMA NothingToNotice ==
  ASSUME NEW p \in ParamStates
  PROVE  Noticed(p, p)
BY DEF Noticed, ParamStates

LEMMA EditIsNoticed ==
  ASSUME NEW p \in ParamStates, NEW id \in ParamId, NEW value \in Values
  PROVE  Noticed(p, HandleSetParam(p, id, value))
<1>1. PICK q : q = HandleSetParam(p, id, value)
  OBVIOUS
<1>2. /\ q.params = [p.params EXCEPT ![id] = value]
      /\ q.is_dirty = (p.params[id] # value)
      /\ q.hides = (p.hides \/ (p.is_dirty /\ p.params[id] = value))
  BY <1>1 DEF HandleSetParam, HandleRefreshParam, ParamStates
<1>3. CASE p.params[id] # value
  BY <1>1, <1>2, <1>3 DEF Noticed
<1>4. CASE p.params[id] = value
  <2>1. q.params = p.params
    BY <1>2, <1>4 DEF ParamStates, Settings
  <2>2. p.is_dirty \in BOOLEAN /\ p.hides \in BOOLEAN
    BY DEF ParamStates
  <2> QED BY <1>1, <1>2, <1>4, <2>1, <2>2 DEF Noticed
<1> QED BY <1>3, <1>4

LEMMA NoticedInTurn ==
  ASSUME NEW p, NEW q, NEW r, Noticed(p, q), Noticed(q, r)
  PROVE  Noticed(p, r)
BY DEF Noticed

(* What the knobs' messages do is noticed. *)
LEMMA KnobsAreNoticed ==
  ASSUME TypeAndPlaces, KnobsOnly
  PROVE  /\ ProcessMessages(px, messages) \in ParamStates
         /\ Noticed(px, ProcessMessages(px, messages))
<1>1. PICK p \in ParamStates, ms \in Seq(Messages) : p = px /\ ms = messages
  BY TypedIsTypeOK DEF TypeAndPlaces, Typed
<1>2. \A k \in 1..Len(ms) : ms[k].type = "SET_PARAM"
  BY <1>1 DEF KnobsOnly
<1> DEFINE a == After(p, ms)
           E == {k \in 0..Len(ms) : Noticed(p, a[k])}
<1>3. Unfolds(a, p, ms)
  BY AfterUnfolds
<1> HIDE DEF a
<1>4. 0 \in E
  BY <1>3, NothingToNotice DEF Unfolds
<1>5. ASSUME NEW k \in 1..Len(ms), k - 1 \in E PROVE k \in E
  <2>1. PICK q \in ParamStates, m \in Messages :
          q = a[k - 1] /\ Noticed(p, q) /\ a[k] = ProcessMessage(q, m) /\ m = ms[k]
    BY <1>3, <1>5 DEF Unfolds
  <2>2. PICK id \in ParamId, value \in Values : m = SetParam(id, value)
    BY <1>2, <2>1 DEF Messages, RefreshParam, ClearMessage, ClearDirtyFlag
  <2>3. ProcessMessage(q, m) = HandleSetParam(q, id, value)
    BY <2>2 DEF ProcessMessage, SetParam
  <2>4. Noticed(q, a[k])
    BY <2>1, <2>3, EditIsNoticed
  <2> QED BY <2>1, <2>4, NoticedInTurn
<1>6. Len(ms) \in E
  <2>1. Len(ms) \in Nat /\ Len(ms) \in 0..Len(ms)
    OBVIOUS
  <2> HIDE DEF E
  <2> QED BY <1>4, <1>5, <2>1, InductionUpTo
<1>7. ProcessMessages(p, ms) = a[Len(ms)]
  BY DEF ProcessMessages, a
<1> QED BY <1>1, <1>6, <1>7, ProcessMessagesType

LEMMA NextKeepsKnobs ==
  ASSUME TypeAndPlaces, KnobsOnly, [Next]_vars
  PROVE  KnobsOnly'
<1>1. PICK ms \in Seq(Messages) : ms = messages
  BY TypedIsTypeOK DEF TypeAndPlaces, Typed
<1>2. \/ messages' = messages \/ messages' = <<>>
      \/ \E id \in ParamId, value \in Values : messages' = Append(ms, SetParam(id, value))
  <2>1. CASE AudioNext
    BY <2>1 DEF AudioNext, PrepareProcessing, StringsDone, PopString, PopMessage, SaveOldProgram,
                LoadNewProgram, FinalizeProcessing, PublishNext, HandleRenameProgram,
                HandleImportPatch, HandleImportBank
  <2>2. CASE GuiNext
    BY <2>2 DEF GuiNext, Idle, PushRename, audio_vars
  <2>3. CASE HostNext
    BY <1>1, <2>3 DEF HostNext, SetProgram, SetProgramName, SetPatch, SetBank, SetParameter,
                      TurnKnob, GetPatch, Resume, SetSampleRate, Push, audio_vars
  <2>4. CASE UNCHANGED vars
    BY <2>4 DEF vars, audio_vars
  <2> QED BY <2>1, <2>2, <2>3, <2>4 DEF Next
<1>3. CASE messages' = messages \/ messages' = <<>>
  BY <1>3 DEF KnobsOnly
<1>4. CASE \E id \in ParamId, value \in Values : messages' = Append(ms, SetParam(id, value))
  <2>1. PICK m : messages' = Append(ms, m) /\ m.type = "SET_PARAM"
    BY <1>4 DEF SetParam
  <2>2. \A k \in 1..Len(Append(ms, m)) :
          Append(ms, m)[k] = m \/ (k \in 1..Len(ms) /\ Append(ms, m)[k] = ms[k])
    OBVIOUS
  <2> QED BY <1>1, <2>1, <2>2 DEF KnobsOnly
<1> QED BY <1>2, <1>3, <1>4

-----------------------------------------------------------------------------
(* What the copies will be. *)

\* the copies g once the messages ms are handled
Handled(g, ms) == Updated(g, ms)[Len(ms)]

LEMMA HandledType ==
  ASSUME NEW g \in GuiCopies, NEW ms \in Seq(GuiMessages)
  PROVE  Handled(g, ms) \in GuiCopies
<1>1. Len(ms) \in 0..Len(ms)
  OBVIOUS
<1> QED BY <1>1, UpdatedUnfolds DEF Handled

LEMMA UpdatedOnce ==
  ASSUME NEW g \in GuiCopies, NEW ms \in Seq(GuiMessages),
         NEW b \in [0..Len(ms) -> GuiCopies], b[0] = g,
         \A k \in 1..Len(ms) : b[k] = HandleInGuiThread(b[k - 1], ms[k])
  PROVE  Handled(g, ms) = b[Len(ms)]
<1> DEFINE a == Updated(g, ms)
           E == {k \in 0..Len(ms) : a[k] = b[k]}
<1>1. Len(ms) \in Nat /\ 0 \in 0..Len(ms)
  OBVIOUS
<1>2. a[0] = g /\ \A k \in 1..Len(ms) : a[k] = HandleInGuiThread(a[k - 1], ms[k])
  BY UpdatedUnfolds
<1> HIDE DEF a
<1>3. 0 \in E
  BY <1>1, <1>2
<1>4. \A k \in 1..Len(ms) : k - 1 \in E => k \in E
  <2>1. \A k \in 1..Len(ms) : k \in 0..Len(ms)
    BY <1>1
  <2> QED BY <1>2, <2>1
<1>5. Len(ms) \in E
  <2>1. Len(ms) \in 0..Len(ms)
    BY <1>1
  <2> HIDE DEF E
  <2> QED BY <1>1, <1>3, <1>4, <2>1, InductionUpTo
<1> QED BY <1>5 DEF Handled, a

LEMMA HandledNothing ==
  ASSUME NEW g \in GuiCopies
  PROVE  Handled(g, <<>>) = g
<1>1. <<>> \in Seq(GuiMessages) /\ Len(<<>>) = 0
  OBVIOUS
<1> QED BY <1>1, UpdatedUnfolds DEF Handled

LEMMA HandledHead ==
  ASSUME NEW g \in GuiCopies, NEW ms \in Seq(GuiMessages), ms # <<>>
  PROVE  /\ HandleInGuiThread(g, Head(ms)) \in GuiCopies
         /\ Handled(HandleInGuiThread(g, Head(ms)), Tail(ms)) = Handled(g, ms)
<1>1. PICK rest \in Seq(GuiMessages) : rest = Tail(ms)
  <2>1. Tail(ms) \in Seq(GuiMessages)
    OBVIOUS
  <2> QED BY <2>1
<1>2. PICK N \in Nat : Len(rest) = N /\ Len(ms) = N + 1
  BY <1>1
<1>3. /\ Head(ms) = ms[1] /\ Head(ms) \in GuiMessages
      /\ \A k \in 1..N : rest[k] = ms[k + 1]
  BY <1>1, <1>2
<1>4. PICK h \in GuiCopies : h = HandleInGuiThread(g, Head(ms))
  BY <1>3, HandleInGuiThreadType
<1>5. PICK a \in [0..(N + 1) -> GuiCopies] :
        /\ a = Updated(g, ms) /\ a[0] = g
        /\ \A k \in 1..(N + 1) : a[k] = HandleInGuiThread(a[k - 1], ms[k])
  <2>1. /\ Updated(g, ms) \in [0..Len(ms) -> GuiCopies] /\ Updated(g, ms)[0] = g
        /\ \A k \in 1..Len(ms) : Updated(g, ms)[k] = HandleInGuiThread(Updated(g, ms)[k - 1], ms[k])
    BY UpdatedUnfolds
  <2> QED BY <1>2, <2>1
<1> DEFINE b == [k \in 0..N |-> a[k + 1]]
<1>6. \A k \in 0..N : k + 1 \in 0..(N + 1)
  BY <1>2
<1>7. b \in [0..N -> GuiCopies]
  BY <1>5, <1>6
<1>8. b[0] = h
  <2>1. 0 \in 0..N /\ 1 \in 1..(N + 1) /\ 1 - 1 = 0 /\ 0 + 1 = 1
    BY <1>2
  <2> QED BY <1>3, <1>4, <1>5, <2>1
<1>9. ASSUME NEW k \in 1..N PROVE b[k] = HandleInGuiThread(b[k - 1], rest[k])
  <2>1. /\ k \in 0..N /\ k - 1 \in 0..N /\ k + 1 \in 1..(N + 1)
        /\ (k + 1) - 1 = k /\ (k - 1) + 1 = k
    BY <1>2
  <2>2. b[k] = a[k + 1] /\ b[k - 1] = a[k]
    BY <2>1
  <2> QED BY <1>3, <1>5, <2>1, <2>2
<1>10. b[N] = a[N + 1]
  <2>1. N \in 0..N
    BY <1>2
  <2> QED BY <2>1
<1> HIDE DEF b
<1>11. Handled(h, rest) = b[N]
  BY <1>2, <1>7, <1>8, <1>9, UpdatedOnce
<1> QED BY <1>1, <1>2, <1>4, <1>5, <1>10, <1>11 DEF Handled

LEMMA HandledAppend ==
  ASSUME NEW g \in GuiCopies, NEW ms \in Seq(GuiMessages), NEW m \in GuiMessages
  PROVE  Handled(g, Append(ms, m)) = HandleInGuiThread(Handled(g, ms), m)
<1>1. PICK longer \in Seq(GuiMessages) : longer = Append(ms, m)
  <2>1. Append(ms, m) \in Seq(GuiMessages)
    OBVIOUS
  <2> QED BY <2>1
<1>2. PICK N \in Nat : Len(ms) = N /\ Len(longer) = N + 1
  BY <1>1
<1>3. longer[N + 1] = m /\ \A k \in 1..N : longer[k] = ms[k]
  BY <1>1, <1>2
<1>4. PICK a \in [0..N -> GuiCopies] :
        /\ a = Updated(g, ms) /\ a[0] = g
        /\ \A k \in 1..N : a[k] = HandleInGuiThread(a[k - 1], ms[k])
  BY <1>2, UpdatedUnfolds
<1>5. PICK last \in GuiCopies : last = HandleInGuiThread(a[N], m)
  <2>1. N \in 0..N
    BY <1>2
  <2> QED BY <1>4, <2>1, HandleInGuiThreadType
<1> DEFINE b == [k \in 0..(N + 1) |-> IF k = N + 1 THEN last ELSE a[k]]
<1>6. \A k \in 0..(N + 1) : k \in 0..N \/ k = N + 1
  BY <1>2
<1>7. b \in [0..(N + 1) -> GuiCopies]
  BY <1>4, <1>6
<1>8. 0 \in 0..(N + 1) /\ 0 # N + 1 /\ N + 1 \in 0..(N + 1) /\ N \in 0..(N + 1) /\ N # N + 1
      /\ (N + 1) - 1 = N
  BY <1>2
<1>9. b[0] = g /\ b[N + 1] = last /\ b[N] = a[N]
  BY <1>4, <1>8
<1>10. ASSUME NEW k \in 1..(N + 1) PROVE b[k] = HandleInGuiThread(b[k - 1], longer[k])
  <2>1. CASE k = N + 1
    BY <1>3, <1>5, <1>8, <1>9, <2>1
  <2>2. CASE k # N + 1
    <3>1. /\ k \in 1..N /\ k \in 0..(N + 1) /\ k - 1 \in 0..(N + 1) /\ k - 1 # N + 1
      BY <1>2, <2>2
    <3>2. b[k] = a[k] /\ b[k - 1] = a[k - 1]
      BY <2>2, <3>1
    <3> QED BY <1>3, <1>4, <3>1, <3>2
  <2> QED BY <2>1, <2>2
<1> HIDE DEF b
<1>11. Handled(g, longer) = b[N + 1]
  BY <1>2, <1>7, <1>9, <1>10, UpdatedOnce
<1> QED BY <1>1, <1>2, <1>4, <1>5, <1>9, <1>11 DEF Handled

(***************************************************************************)
(* No message makes copies differ in what they had in common, and a        *)
(* message that moves the index moves it to the same program in all of     *)
(* them: g and h are the copies before some messages, g2 and h2 after.     *)
(***************************************************************************)
Alike(g, h, g2, h2) ==
  /\ g.serialized_bank = h.serialized_bank => g2.serialized_bank = h2.serialized_bank
  /\ g.current_patch.settings = h.current_patch.settings
       => g2.current_patch.settings = h2.current_patch.settings
  /\ g.program_names = h.program_names => g2.program_names = h2.program_names
  /\ \/ g2.current_program_index = h2.current_program_index
     \/ /\ g2.current_program_index = g.current_program_index
        /\ h2.current_program_index = h.current_program_index

LEMMA AlikeAfterMessage ==
  ASSUME NEW g, NEW h, NEW g1 \in GuiCopies, NEW h1 \in GuiCopies, NEW m \in GuiMessages,
         Alike(g, h, g1, h1)
  PROVE  Alike(g, h, HandleInGuiThread(g1, m), HandleInGuiThread(h1, m))
<1>1. CASE m.type = "PROGRAM_CHANGED" /\ m.index \in Programs /\ m.patch \in Program
  <2>1. /\ HandleInGuiThread(g1, m) = HandleProgramChanged(g1, m.index, m.patch)
        /\ HandleInGuiThread(h1, m) = HandleProgramChanged(h1, m.index, m.patch)
    BY <1>1 DEF HandleInGuiThread
  <2>2. ASSUME NEW c \in GuiCopies
        PROVE  /\ HandleProgramChanged(c, m.index, m.patch).serialized_bank = c.serialized_bank
               /\ HandleProgramChanged(c, m.index, m.patch).current_patch = m.patch
               /\ HandleProgramChanged(c, m.index, m.patch).current_program_index = m.index
               /\ HandleProgramChanged(c, m.index, m.patch).program_names
                    = [c.program_names EXCEPT ![m.index] = DefaultName]
    BY DEF HandleProgramChanged, GuiCopies
  <2>3. PICK g2, h2 : g2 = HandleInGuiThread(g1, m) /\ h2 = HandleInGuiThread(h1, m)
    OBVIOUS
  <2>4. /\ g2.serialized_bank = g1.serialized_bank /\ h2.serialized_bank = h1.serialized_bank
        /\ g2.current_patch = h2.current_patch
        /\ g2.current_program_index = h2.current_program_index
        /\ g1.program_names = h1.program_names => g2.program_names = h2.program_names
    BY <2>1, <2>2, <2>3
  <2>5. Alike(g, h, g2, h2)
    BY <2>4 DEF Alike
  <2> QED BY <2>3, <2>5
<1>2. CASE m.type = "BANK_CHANGED" /\ m.programs \in [Programs -> Program]
  <2>1. /\ HandleInGuiThread(g1, m) = HandleBankChanged(g1, m.programs)
        /\ HandleInGuiThread(h1, m) = HandleBankChanged(h1, m.programs)
    BY <1>2 DEF HandleInGuiThread
  <2>2. ASSUME NEW c \in GuiCopies
        PROVE  /\ HandleBankChanged(c, m.programs).serialized_bank = m.programs
               /\ HandleBankChanged(c, m.programs).current_patch = c.current_patch
               /\ HandleBankChanged(c, m.programs).current_program_index = c.current_program_index
               /\ HandleBankChanged(c, m.programs).program_names
                    = [i \in Programs |-> m.programs[i].name]
    BY DEF HandleBankChanged, GuiCopies
  <2> QED BY <2>1, <2>2 DEF Alike
<1>3. CASE m.type = "PROXY_WAS_DIRTY"
  BY <1>3 DEF HandleInGuiThread
<1> QED BY <1>1, <1>2, <1>3, GuiMessageTypes

LEMMA HandledAlike ==
  ASSUME NEW g \in GuiCopies, NEW h \in GuiCopies, NEW ms \in Seq(GuiMessages)
  PROVE  Alike(g, h, Handled(g, ms), Handled(h, ms))
<1> DEFINE a == Updated(g, ms)
           b == Updated(h, ms)
           E == {k \in 0..Len(ms) : Alike(g, h, a[k], b[k])}
<1>1. Len(ms) \in Nat /\ 0 \in 0..Len(ms) /\ Len(ms) \in 0..Len(ms)
      /\ \A k \in 1..Len(ms) : k \in 0..Len(ms) /\ k - 1 \in 0..Len(ms) /\ ms[k] \in GuiMessages
  OBVIOUS
<1>2. /\ a \in [0..Len(ms) -> GuiCopies] /\ b \in [0..Len(ms) -> GuiCopies]
      /\ a[0] = g /\ b[0] = h
      /\ \A k \in 1..Len(ms) : /\ a[k] = HandleInGuiThread(a[k - 1], ms[k])
                              /\ b[k] = HandleInGuiThread(b[k - 1], ms[k])
  BY UpdatedUnfolds
<1> HIDE DEF a, b
<1>3. 0 \in E
  <2>1. Alike(g, h, g, h)
    BY DEF Alike
  <2> QED BY <1>1, <1>2, <2>1
<1>4. ASSUME NEW k \in 1..Len(ms), k - 1 \in E PROVE k \in E
  <2>1. a[k - 1] \in GuiCopies /\ b[k - 1] \in GuiCopies /\ Alike(g, h, a[k - 1], b[k - 1])
    BY <1>1, <1>2, <1>4
  <2> QED BY <1>1, <1>2, <2>1, AlikeAfterMessage
<1>5. Len(ms) \in E
  <2> HIDE DEF E
  <2> QED BY <1>1, <1>3, <1>4, InductionUpTo
<1> QED BY <1>5 DEF Handled, a, b

LEMMA AlikeInTurn ==
  ASSUME NEW a1, NEW b1, NEW a2, NEW b2, NEW a3, NEW b3,
         Alike(a1, b1, a2, b2), Alike(a2, b2, a3, b3)
  PROVE  Alike(a1, b1, a3, b3)
BY DEF Alike

\* the copies once all that is published is handled
Told == Handled(Handled(gui, to_gui_messages), audio.todo)

\* the bank will be published anyway
Due == need_bank_update \/ to_audio_string_messages # <<>> \/ gui.todo # <<>>

\* another program will be loaded
Selected ==
  \/ audio.pc \in {"save", "switch"}
  \/ \E k \in 1..Len(to_audio_messages) :
       /\ to_audio_messages[k].type = "CHANGE_PROGRAM"
       /\ to_audio_messages[k].index # current_program

(***************************************************************************)
(* The copies will be what is played, or what is played will be published. *)
(* Settings that were edited are covered by the dirty flag, if nothing     *)
(* hid them, names and banks by need_bank_update, and the index by the     *)
(* program that is going to be loaded.                                     *)
(***************************************************************************)
CopiesOK ==
  /\ \/ Due
     \/ px.is_dirty
     \/ px.hides
     \/ Told.serialized_bank = EffectivePrograms /\ Told.current_patch.settings = px.params
  /\ \/ Due
     \/ \A i \in Programs : Told.program_names[i] = bank[i].name
  /\ \/ need_bank_update
     \/ Selected
     \/ Told.current_program_index = current_program
  /\ audio.pc # "publish" => audio.todo = <<>>

LEMMA ToldType ==
  ASSUME TypeAndPlaces
  PROVE  /\ UpToDate = Handled(gui, to_gui_messages) /\ UpToDate \in GuiCopies
         /\ gui \in GuiCopies /\ to_gui_messages \in Seq(GuiMessages)
         /\ audio \in Audios /\ audio.todo \in Seq(GuiMessages)
         /\ Told = Handled(UpToDate, audio.todo) /\ Told \in GuiCopies
<1>1. /\ gui \in GuiCopies /\ to_gui_messages \in Seq(GuiMessages)
      /\ audio \in Audios /\ audio.todo \in Seq(GuiMessages)
  BY TypedIsTypeOK DEF TypeAndPlaces, Typed, Audios
<1>2. UpToDate = Handled(gui, to_gui_messages)
  BY DEF UpToDate, Handled
<1>3. PICK g \in GuiCopies : g = UpToDate
  BY <1>1, UpToDateType
<1>4. Handled(g, audio.todo) \in GuiCopies
  BY <1>1, HandledType
<1> QED BY <1>1, <1>2, <1>3, <1>4 DEF Told

(* A step after which the copies will be as before, but for what is due. *)
LEMMA CopiesStay ==
  ASSUME CopiesOK, current_program' = current_program,
         audio'.pc # "publish" => audio'.todo = <<>>,
         \/ Due'
         \/ /\ ~Due
            /\ Told'.serialized_bank = Told.serialized_bank
            /\ Told'.current_patch.settings = Told.current_patch.settings
            /\ Told'.program_names = Told.program_names
            /\ Noticed(px, px')
            /\ px'.params = px.params => EffectivePrograms' = EffectivePrograms
            /\ \A i \in Programs : bank'[i].name = bank[i].name,
         \/ need_bank_update'
         \/ Selected'
         \/ Told'.current_program_index = current_program
         \/ /\ ~need_bank_update /\ ~Selected
            /\ Told'.current_program_index = Told.current_program_index
  PROVE  CopiesOK'
<1>1. \/ Due'
      \/ px'.is_dirty
      \/ px'.hides
      \/ Told'.serialized_bank = EffectivePrograms' /\ Told'.current_patch.settings = px'.params
  BY DEF CopiesOK, Noticed
<1>2. Due' \/ \A i \in Programs : Told'.program_names[i] = bank'[i].name
  BY DEF CopiesOK
<1>3. \/ need_bank_update'
      \/ Selected'
      \/ Told'.current_program_index = current_program'
  BY DEF CopiesOK
<1> QED BY <1>1, <1>2, <1>3 DEF CopiesOK

LEMMA PopMessageKeepsCopies ==
  ASSUME TypeAndPlaces, KnobsOnly, CopiesOK, PopMessage
  PROVE  CopiesOK'
<1>1. Typed /\ PlacesOK
  BY TypedIsTypeOK DEF TypeAndPlaces
<1>2. /\ audio.pc = "messages" /\ audio.left > 0 /\ audio.left <= Len(to_audio_messages)
      /\ audio.left \in Nat /\ to_audio_messages \in Seq(AudioMessages)
  BY <1>1, NoMessages DEF Typed, PopMessage, PlacesOK, Audios
<1>3. PICK N \in Nat \ {0} : N = Len(to_audio_messages)
  BY <1>2
<1>4. PICK m \in AudioMessages : m = to_audio_messages[1] /\ m = Head(to_audio_messages)
  BY <1>2, <1>3
<1>5. /\ to_audio_messages' = Tail(to_audio_messages)
      /\ Len(Tail(to_audio_messages)) = N - 1
      /\ \A k \in 1..(N - 1) : Tail(to_audio_messages)[k] = to_audio_messages[k + 1]
  BY <1>2, <1>3 DEF PopMessage
<1>6. UNCHANGED <<to_audio_string_messages, to_gui_messages, bank, current_program,
                  need_bank_update, gui>>
  BY DEF PopMessage
<1>7. audio'.todo = audio.todo /\ audio'.pc \in {"messages", "save"} /\ audio.todo = <<>>
  <2>1. \/ audio' = [audio EXCEPT !.left = @ - 1]
        \/ audio' = [audio EXCEPT !.pc = "save", !.left = @ - 1,
                                  !.new_program = Head(to_audio_messages).index]
    BY DEF PopMessage
  <2>2. audio \in Audios
    BY <1>1 DEF Typed
  <2>3. audio'.todo = audio.todo /\ audio'.pc \in {"messages", "save"}
    BY <1>2, <2>1, <2>2 DEF Audios
  <2> QED BY <1>2, <2>3 DEF CopiesOK
<1>8. Told' = Told /\ Due' = Due
  BY <1>6, <1>7 DEF Told, Due
<1>9. Noticed(px, px')
  <2>1. CASE px' = px \/ px' = ProcessMessages(px, messages)
    BY <1>1, <2>1, KnobsAreNoticed, NothingToNotice DEF Typed
  <2>2. CASE m.type = "CHANGE_PARAM" /\ px' = HandleSetParam(px, m.id, m.value)
    <3>1. PICK id \in ParamId, value \in Values : px' = HandleSetParam(px, id, value)
      BY <1>4, <2>2, AudioMessageTypes
    <3> QED BY <1>1, <3>1, EditIsNoticed DEF Typed
  <2> QED BY <1>4, <2>1, <2>2 DEF PopMessage
<1>10. Selected => Selected'
  <2> SUFFICES ASSUME Selected, audio'.pc # "save" PROVE Selected'
    BY DEF Selected
  <2>1. PICK k \in 1..N : /\ to_audio_messages[k].type = "CHANGE_PROGRAM"
                          /\ to_audio_messages[k].index # current_program
    BY <1>2, <1>3 DEF Selected
  <2>2. ~(m.type = "CHANGE_PROGRAM" /\ m.index # current_program)
    <3> SUFFICES ASSUME m.type = "CHANGE_PROGRAM", m.index # current_program PROVE FALSE
      OBVIOUS
    <3>1. audio' = [audio EXCEPT !.pc = "save", !.left = @ - 1, !.new_program = m.index]
      BY <1>4 DEF PopMessage
    <3>2. audio \in Audios
      BY <1>1 DEF Typed
    <3>3. audio'.pc = "save"
      BY <3>1, <3>2 DEF Audios
    <3> QED BY <3>3
  <2>3. k # 1
    BY <1>4, <2>1, <2>2
  <2>4. PICK h \in 1..(N - 1) : h + 1 = k
    <3>1. k - 1 \in 1..(N - 1) /\ (k - 1) + 1 = k
      BY <1>3, <2>3
    <3> QED BY <3>1
  <2>5. /\ to_audio_messages'[h].type = "CHANGE_PROGRAM"
        /\ to_audio_messages'[h].index # current_program'
        /\ h \in 1..Len(to_audio_messages')
    BY <1>5, <1>6, <2>1, <2>4
  <2> QED BY <2>5 DEF Selected
<1>11. audio'.pc # "publish" => audio'.todo = <<>>
  BY <1>7
<1>12. Due' \/ ~Due
  BY <1>8
<1>13. need_bank_update' \/ Selected' \/ (~need_bank_update /\ ~Selected)
  BY <1>6, <1>10
<1>14. px'.params = px.params => EffectivePrograms' = EffectivePrograms
  BY <1>6 DEF EffectivePrograms
<1> QED BY <1>6, <1>8, <1>9, <1>11, <1>12, <1>13, <1>14, CopiesStay

(* The other steps of a block up to its end. *)
LEMMA BlockStepsKeepCopies ==
  ASSUME TypeAndPlaces, ProgramsOK, CopiesOK,
         \/ PrepareProcessing \/ StringsDone \/ PopString \/ SaveOldProgram \/ LoadNewProgram
  PROVE  CopiesOK'
<1>1. Typed /\ PlacesOK
  BY TypedIsTypeOK DEF TypeAndPlaces
<1>2. /\ UNCHANGED <<to_audio_messages, to_gui_messages, gui>>
      /\ audio.pc # "publish" /\ audio'.pc # "publish" /\ audio'.todo = audio.todo
  BY <1>1 DEF PrepareProcessing, StringsDone, PopString, SaveOldProgram, LoadNewProgram,
              Typed, Audios
<1>3. Told' = Told /\ audio'.todo = <<>>
  BY <1>2 DEF Told, CopiesOK
<1>4. CASE PrepareProcessing \/ StringsDone
  <2>1. /\ UNCHANGED <<px, bank, current_program, need_bank_update, to_audio_string_messages>>
        /\ audio.pc \notin {"save", "switch"}
    BY <1>4 DEF PrepareProcessing, StringsDone
  <2>2. EffectivePrograms' = EffectivePrograms /\ Due' = Due /\ (Selected => Selected')
    BY <1>2, <2>1 DEF EffectivePrograms, Due, Selected
  <2>3. \A i \in Programs : bank'[i].name = bank[i].name
    BY <2>1
  <2> QED BY <1>1, <1>2, <1>3, <2>1, <2>2, <2>3, NothingToNotice, CopiesStay DEF Typed
<1>5. CASE PopString \/ LoadNewProgram
  <2>1. need_bank_update' = TRUE
    BY <1>5 DEF PopString, LoadNewProgram
  <2> QED BY <1>3, <2>1 DEF CopiesOK, Due
<1>6. CASE SaveOldProgram
  <2>1. /\ UNCHANGED <<px, current_program, need_bank_update, to_audio_string_messages>>
        /\ audio'.pc = "switch" /\ bank' = ImportedInto(bank, current_program, px)
    BY <1>1, <1>6 DEF SaveOldProgram, Typed, Audios
  <2>2. /\ bank \in [Programs -> Program] /\ current_program \in Programs
        /\ px.params \in Settings /\ px.ratios = px.params /\ DefaultName \in Names
    BY <1>1, NamesAssumption DEF Typed, ParamStates, ProgramsOK
  <2>3. bank' = WithSettings(bank, current_program, px.params)
    BY <2>1, <2>2 DEF ImportedInto, Serialize, WithSettings
  <2>4. EffectivePrograms' = EffectivePrograms
    <3>1. EffectivePrograms' = WithSettings(bank', current_program, px.params)
      BY <2>1 DEF EffectivePrograms, WithSettings
    <3>2. EffectivePrograms' = WithSettings(bank, current_program, px.params)
      BY <2>2, <2>3, <3>1, SettingsReplaced
    <3> QED BY <3>2, EffectiveIs
  <2>5. \A i \in Programs : bank'[i].name = bank[i].name
    BY <2>2, <2>3 DEF WithSettings, Program
  <2>6. Due' = Due /\ Selected'
    BY <1>2, <2>1 DEF Due, Selected
  <2> QED BY <1>1, <1>2, <1>3, <2>1, <2>4, <2>5, <2>6, NothingToNotice, CopiesStay DEF Typed
<1> QED BY <1>4, <1>5, <1>6

\* what finalize_processing pushes
IsPublished(ms, index, patch, programs) ==
  \E rest \in {<<>>, <<[type |-> "PROXY_WAS_DIRTY"]>>} :
    ms = << [type |-> "PROGRAM_CHANGED", index |-> index, patch |-> patch],
            [type |-> "BANK_CHANGED", programs |-> programs] >> \o rest

(* What PROGRAM_CHANGED and BANK_CHANGED leave of any copies. *)
LEMMA PublishedCopies ==
  ASSUME NEW g \in GuiCopies, NEW index \in Programs, NEW patch \in Program,
         NEW b \in [Programs -> Program], NEW ms, IsPublished(ms, index, patch, b)
  PROVE  /\ Handled(g, ms).serialized_bank = b
         /\ Handled(g, ms).current_patch = patch
         /\ Handled(g, ms).current_program_index = index
         /\ Handled(g, ms).program_names = [i \in Programs |-> b[i].name]
<1>1. PICK m1 \in GuiMessages : m1 = [type |-> "PROGRAM_CHANGED", index |-> index, patch |-> patch]
  <2>1. [type |-> "PROGRAM_CHANGED", index |-> index, patch |-> patch] \in GuiMessages
    BY DEF GuiMessages
  <2> QED BY <2>1
<1>2. PICK m2 \in GuiMessages : m2 = [type |-> "BANK_CHANGED", programs |-> b]
  <2>1. [type |-> "BANK_CHANGED", programs |-> b] \in GuiMessages
    BY DEF GuiMessages
  <2> QED BY <2>1
<1>3. PICK m3 \in GuiMessages : m3 = [type |-> "PROXY_WAS_DIRTY"]
  <2>1. [type |-> "PROXY_WAS_DIRTY"] \in GuiMessages
    BY DEF GuiMessages
  <2> QED BY <2>1
<1>4. PICK none \in Seq(GuiMessages) : none = <<>>
  <2>1. <<>> \in Seq(GuiMessages)
    OBVIOUS
  <2> QED BY <2>1
<1>5. PICK one \in Seq(GuiMessages) : one = Append(none, m1)
  <2>1. Append(none, m1) \in Seq(GuiMessages)
    OBVIOUS
  <2> QED BY <2>1
<1>6. PICK two \in Seq(GuiMessages) : two = Append(one, m2)
  <2>1. Append(one, m2) \in Seq(GuiMessages)
    OBVIOUS
  <2> QED BY <2>1
<1>7. PICK three \in Seq(GuiMessages) : three = Append(two, m3)
  <2>1. Append(two, m3) \in Seq(GuiMessages)
    OBVIOUS
  <2> QED BY <2>1
<1>8. two = <<m1, m2>>
  <2>1. Append(<<>>, m1) = <<m1>>
    OBVIOUS
  <2>2. one[1] = m1 /\ Len(one) = 1
    BY <1>4, <1>5, <2>1
  <2>3. two[1] = m1 /\ two[2] = m2 /\ Len(two) = 2
    BY <1>5, <1>6, <2>2
  <2>4. <<m1, m2>> \in Seq(GuiMessages) /\ Len(<<m1, m2>>) = 2
    OBVIOUS
  <2>5. \A i \in 1..2 : two[i] = <<m1, m2>>[i]
    BY <2>3
  <2> QED BY <2>3, <2>4, <2>5, SeqEqual
<1>9. ms = two \/ ms = three
  <2>1. PICK rest \in {<<>>, <<m3>>} : ms = <<m1, m2>> \o rest
    BY <1>1, <1>2, <1>3 DEF IsPublished
  <2>2. two \o <<>> = two /\ two \o <<m3>> = Append(two, m3)
    OBVIOUS
  <2> QED BY <1>7, <1>8, <2>1, <2>2
<1>10. PICK g1 \in GuiCopies : g1 = HandleInGuiThread(g, m1)
  BY HandleInGuiThreadType
<1>11. PICK g2 \in GuiCopies : g2 = HandleInGuiThread(g1, m2)
  BY HandleInGuiThreadType
<1>12. HandleInGuiThread(g2, m3) = g2
  BY <1>3 DEF HandleInGuiThread
<1>13. Handled(g, none) = g
  BY <1>4, HandledNothing
<1>14. Handled(g, one) = g1
  BY <1>5, <1>10, <1>13, HandledAppend
<1>15. Handled(g, two) = g2
  BY <1>6, <1>11, <1>14, HandledAppend
<1>16. Handled(g, three) = g2
  BY <1>7, <1>12, <1>15, HandledAppend
<1>17. Handled(g, ms) = g2
  BY <1>9, <1>15, <1>16
<1>18. g1.current_patch = patch /\ g1.current_program_index = index
  <2>1. g1 = HandleProgramChanged(g, index, patch)
    BY <1>1, <1>10 DEF HandleInGuiThread
  <2> QED BY <2>1 DEF HandleProgramChanged, GuiCopies
<1>19. /\ g2.serialized_bank = b /\ g2.program_names = [i \in Programs |-> b[i].name]
       /\ g2.current_patch = g1.current_patch
       /\ g2.current_program_index = g1.current_program_index
  <2>1. g2 = HandleBankChanged(g1, b)
    BY <1>2, <1>11 DEF HandleInGuiThread
  <2> QED BY <2>1 DEF HandleBankChanged, GuiCopies
<1> QED BY <1>17, <1>18, <1>19

LEMMA FinalizeProcessingKeepsCopies ==
  ASSUME TypeAndPlaces, ProgramsOK, KnobsOnly, CopiesOK,
         px'.ratios = px'.params,
         NEW sample_count \in BlockSizes, FinalizeProcessing(sample_count)
  PROVE  CopiesOK'
<1>1. Typed /\ PlacesOK
  BY TypedIsTypeOK DEF TypeAndPlaces
<1>2. PICK p \in ParamStates : p = ProcessMessages(px, messages) /\ Noticed(px, p)
  BY KnobsAreNoticed
<1>3. PICK b \in [Programs -> Program] : b = ImportedInto(bank, current_program, p)
  BY <1>1, ImportedIntoType DEF Typed
<1>4. PICK idle \in Audios :
        idle = IdleAudio(current_program) /\ idle.pc = "idle" /\ idle.todo = <<>>
  BY <1>1, IdleAudioType DEF Typed, IdleAudio
<1>5. /\ audio.pc = "messages" /\ audio.todo = <<>>
      /\ UNCHANGED <<to_audio_messages, to_audio_string_messages, to_gui_messages,
                     current_program, gui>>
  BY DEF FinalizeProcessing, CopiesOK
<1>6. CASE px' = p /\ audio' = idle /\ UNCHANGED <<bank, need_bank_update>>
  <2>1. Told' = Told
    BY <1>4, <1>5, <1>6 DEF Told
  <2>2. Due' = Due /\ (Selected => Selected')
    BY <1>5, <1>6 DEF Due, Selected
  <2>3. Noticed(px, px') /\ (px'.params = px.params => EffectivePrograms' = EffectivePrograms)
    BY <1>2, <1>5, <1>6 DEF EffectivePrograms
  <2>4. audio'.todo = <<>> /\ \A i \in Programs : bank'[i].name = bank[i].name
    BY <1>4, <1>6
  <2> QED BY <1>5, <1>6, <2>1, <2>2, <2>3, <2>4, CopiesStay
<1>7. CASE /\ px' = [p EXCEPT !.is_dirty = FALSE, !.hides = FALSE]
           /\ bank' = b
           /\ audio' = [idle EXCEPT !.pc = "publish",
                !.todo = << [type |-> "PROGRAM_CHANGED", index |-> current_program,
                             patch |-> Patch(DefaultName, Serialize(p))],
                            [type |-> "BANK_CHANGED", programs |-> b] >>
                         \o IF p.is_dirty THEN <<[type |-> "PROXY_WAS_DIRTY"]>> ELSE <<>>]
  <2>1. /\ px'.params = p.params /\ px'.ratios = p.ratios /\ p.params \in Settings
        /\ current_program \in Programs /\ DefaultName \in Names
        /\ bank \in [Programs -> Program]
    BY <1>1, <1>7, NamesAssumption DEF Typed, ParamStates
  <2>2. PICK patch \in Program : patch = Patch(DefaultName, Serialize(p)) /\ patch.settings = p.params
    <3>1. Patch(DefaultName, p.params) \in Program /\ Patch(DefaultName, p.params).settings = p.params
      BY <2>1, PatchType DEF Patch
    <3> QED BY <2>1, <3>1 DEF Serialize
  <2>3. PICK index \in Programs : index = current_program
    BY <2>1
  <2>4. PICK published : audio'.todo = published /\ IsPublished(published, index, patch, b)
    <3>1. PICK todo : /\ audio' = [idle EXCEPT !.pc = "publish", !.todo = todo]
                      /\ IsPublished(todo, index, patch, b)
      BY <1>7, <2>2, <2>3 DEF IsPublished
    <3>2. audio'.todo = todo
      BY <3>1 DEF Audios
    <3> QED BY <3>1, <3>2
  <2>5. PICK g \in GuiCopies : g = Handled(gui, to_gui_messages)
    BY ToldType
  <2>6. Told' = Handled(g, published)
    BY <1>5, <2>4, <2>5 DEF Told
  <2>7. /\ Told'.serialized_bank = b
        /\ Told'.current_patch = patch
        /\ Told'.current_program_index = current_program
        /\ Told'.program_names = [i \in Programs |-> b[i].name]
    <3>1. /\ Handled(g, published).serialized_bank = b
          /\ Handled(g, published).current_patch = patch
          /\ Handled(g, published).current_program_index = index
          /\ Handled(g, published).program_names = [i \in Programs |-> b[i].name]
      BY <2>4, PublishedCopies
    <3> QED BY <2>3, <2>6, <3>1
  <2>8. EffectivePrograms' = b
    <3>1. b = WithSettings(bank, current_program, p.params)
      BY <1>3, <2>1 DEF ImportedInto, Serialize, WithSettings
    <3>2. EffectivePrograms' = WithSettings(b, current_program, p.params)
      BY <1>5, <1>7, <2>1 DEF EffectivePrograms, WithSettings
    <3> QED BY <2>1, <3>1, <3>2, SettingsReplaced
  <2>9. audio'.pc = "publish"
    BY <1>7 DEF Audios
  <2> QED BY <1>5, <1>7, <2>1, <2>2, <2>7, <2>8, <2>9 DEF CopiesOK
<1> QED BY <1>2, <1>3, <1>4, <1>6, <1>7 DEF FinalizeProcessing

(***************************************************************************)
(* The queues with commands and notifications take what is pushed: when    *)
(* one is full, the message is dropped, and nobody is told.                *)
(***************************************************************************)
QueuesFit ==
  /\ Len(to_audio_messages) < QueueCapacity
  /\ Len(to_audio_string_messages) < QueueCapacity
  /\ Len(to_gui_messages) < QueueCapacity

LEMMA PublishNextKeepsCopies ==
  ASSUME TypeAndPlaces, CopiesOK, QueuesFit, PublishNext
  PROVE  CopiesOK'
<1>1. Typed /\ PlacesOK
  BY TypedIsTypeOK DEF TypeAndPlaces
<1>2. PICK todo \in Seq(GuiMessages) : todo = audio.todo /\ todo # <<>> /\ audio.pc = "publish"
  BY <1>1 DEF Typed, PlacesOK, Audios, PublishNext
<1>3. /\ Head(todo) \in GuiMessages /\ Tail(todo) \in Seq(GuiMessages)
      /\ Len(todo) = 1 => Tail(todo) = <<>>
  <2>1. Len(todo) > 0
    BY <1>2
  <2>2. /\ Head(todo) \in GuiMessages /\ Tail(todo) \in Seq(GuiMessages)
        /\ Len(Tail(todo)) = Len(todo) - 1
    BY <2>1, PoppedQueue
  <2>3. Len(todo) = 1 => Len(Tail(todo)) = 0
    BY <2>2
  <2> QED BY <2>2, <2>3, ElementsOfSeq
<1>4. audio'.todo = Tail(todo) /\ (audio'.pc # "publish" => audio'.todo = <<>>)
      /\ audio'.pc \notin {"save", "switch"}
  <2>1. CASE Len(todo) = 1
    <3>1. audio' = IdleAudio(current_program)
      BY <1>2, <2>1 DEF PublishNext
    <3> QED BY <1>3, <2>1, <3>1 DEF IdleAudio
  <2>2. CASE Len(todo) # 1
    <3>1. audio' = [audio EXCEPT !.todo = Tail(todo)]
      BY <1>2, <2>2 DEF PublishNext
    <3>2. audio'.todo = Tail(todo) /\ audio'.pc = "publish"
      BY <1>1, <1>2, <3>1 DEF Typed, Audios
    <3> QED BY <3>2
  <2> QED BY <2>1, <2>2
<1>5. /\ to_gui_messages' = Append(to_gui_messages, Head(todo))
      /\ UNCHANGED <<px, bank, current_program, need_bank_update, to_audio_messages,
                     to_audio_string_messages, gui>>
  BY <1>2 DEF PublishNext, Push, QueuesFit
<1>6. Told' = Told
  <2>1. PICK g \in GuiCopies : g = Handled(gui, to_gui_messages)
    BY ToldType
  <2>2. Handled(gui, Append(to_gui_messages, Head(todo))) = HandleInGuiThread(g, Head(todo))
    BY <1>3, <2>1, ToldType, HandledAppend
  <2>3. Handled(HandleInGuiThread(g, Head(todo)), Tail(todo)) = Handled(g, todo)
    BY <1>2, HandledHead
  <2> QED BY <1>2, <1>4, <1>5, <2>1, <2>2, <2>3 DEF Told
<1>7. Due' = Due /\ (Selected => Selected') /\ EffectivePrograms' = EffectivePrograms
  BY <1>2, <1>5 DEF Due, Selected, EffectivePrograms
<1>8. \A i \in Programs : bank'[i].name = bank[i].name
  BY <1>5
<1>9. Noticed(px, px')
  BY <1>1, <1>5, NothingToNotice DEF Typed
<1> QED BY <1>4, <1>5, <1>6, <1>7, <1>8, <1>9, CopiesStay

(* The GUI thread's copies, brought up to date or changed by a call. *)
LEMMA ToldAfterDraining ==
  ASSUME TypeAndPlaces, gui' \in GuiCopies, to_gui_messages' = <<>>, audio' = audio
  PROVE  Alike(UpToDate, gui', Told, Told')
<1>1. PICK g \in GuiCopies : g = UpToDate
  BY ToldType
<1>2. PICK h \in GuiCopies : h = gui'
  OBVIOUS
<1>3. PICK todo \in Seq(GuiMessages) : todo = audio.todo
  BY ToldType
<1>4. Told = Handled(g, todo)
  BY <1>1, <1>3, ToldType
<1>5. Told' = Handled(h, todo)
  <2>1. Handled(h, <<>>) = h
    BY HandledNothing
  <2> QED BY <1>2, <1>3, <2>1 DEF Told
<1> QED BY <1>1, <1>2, <1>4, <1>5, HandledAlike

LEMMA ToldAfterCall ==
  ASSUME TypeAndPlaces, gui' \in GuiCopies, to_gui_messages' = to_gui_messages, audio' = audio
  PROVE  Alike(gui, gui', Told, Told')
<1>1. PICK g \in GuiCopies : g = gui
  BY ToldType
<1>2. PICK h \in GuiCopies : h = gui'
  OBVIOUS
<1>3. PICK ms \in Seq(GuiMessages) : ms = to_gui_messages
  BY ToldType
<1>4. PICK todo \in Seq(GuiMessages) : todo = audio.todo
  BY ToldType
<1>5. PICK g1 \in GuiCopies : g1 = Handled(g, ms)
  BY HandledType
<1>6. PICK h1 \in GuiCopies : h1 = Handled(h, ms)
  BY HandledType
<1>7. Alike(g, h, g1, h1) /\ Alike(g1, h1, Handled(g1, todo), Handled(h1, todo))
  BY <1>5, <1>6, HandledAlike
<1>8. Told = Handled(g1, todo) /\ Told' = Handled(h1, todo)
  BY <1>1, <1>2, <1>3, <1>4, <1>5, <1>6 DEF Told
<1> QED BY <1>1, <1>2, <1>7, <1>8, AlikeInTurn

LEMMA SelectedStays ==
  ASSUME TypeAndPlaces, NEW m \in AudioMessages,
         to_audio_messages' \in {to_audio_messages, Append(to_audio_messages, m)},
         audio' = audio, current_program' = current_program, Selected
  PROVE  Selected'
<1>1. to_audio_messages \in Seq(AudioMessages)
  BY TypedIsTypeOK DEF TypeAndPlaces, Typed
<1>2. CASE audio.pc \in {"save", "switch"}
  BY <1>2 DEF Selected
<1>3. CASE \E k \in 1..Len(to_audio_messages) :
             /\ to_audio_messages[k].type = "CHANGE_PROGRAM"
             /\ to_audio_messages[k].index # current_program
  <2>1. PICK k \in 1..Len(to_audio_messages) :
          /\ to_audio_messages[k].type = "CHANGE_PROGRAM"
          /\ to_audio_messages[k].index # current_program
    BY <1>3
  <2>2. /\ Append(to_audio_messages, m)[k] = to_audio_messages[k]
        /\ k \in 1..Len(Append(to_audio_messages, m))
    BY <1>1
  <2>3. to_audio_messages'[k] = to_audio_messages[k] /\ k \in 1..Len(to_audio_messages')
    BY <2>2
  <2> QED BY <2>1, <2>3 DEF Selected
<1> QED BY <1>2, <1>3 DEF Selected

LEMMA QuietCallsKeepCopies ==
  ASSUME TypeAndPlaces, KnobsOnly, CopiesOK, Idle \/ GetPatch \/ Resume \/ SetSampleRate
  PROVE  CopiesOK'
<1>1. PICK g \in GuiCopies : g = UpToDate
  BY ToldType
<1>2. /\ gui' \in GuiCopies
      /\ gui'.serialized_bank = g.serialized_bank /\ gui'.program_names = g.program_names
      /\ gui'.current_patch.settings = g.current_patch.settings
      /\ gui'.current_program_index = g.current_program_index
  <2>1. CASE Idle \/ Resume \/ SetSampleRate
    BY <1>1, <2>1 DEF Idle, Resume, SetSampleRate
  <2>2. CASE GetPatch
    <3>1. PICK name \in Names : name = g.program_names[g.current_program_index]
      BY DEF GuiCopies
    <3>2. PICK patch \in Program : patch = [g.current_patch EXCEPT !.name = name]
      BY DEF GuiCopies, Program
    <3>3. patch.settings = g.current_patch.settings
      BY <3>2 DEF GuiCopies, Program
    <3>4. gui' = [g EXCEPT !.current_patch = patch]
      BY <1>1, <2>2, <3>1, <3>2 DEF GetPatch
    <3> QED BY <3>3, <3>4 DEF GuiCopies
  <2> QED BY <2>1, <2>2
<1>3. /\ to_gui_messages' = <<>> /\ gui.todo = <<>>
      /\ UNCHANGED <<bank, current_program, need_bank_update, audio, to_audio_messages,
                     to_audio_string_messages>>
      /\ px' = px \/ px' = ProcessMessages(px, messages)
  BY DEF Idle, GetPatch, Resume, SetSampleRate, Called, audio_vars
<1>4. Alike(g, gui', Told, Told')
  BY <1>1, <1>2, <1>3, ToldAfterDraining
<1>5. /\ Told'.serialized_bank = Told.serialized_bank /\ Told'.program_names = Told.program_names
      /\ Told'.current_patch.settings = Told.current_patch.settings
      /\ Told'.current_program_index = Told.current_program_index
  BY <1>2, <1>4 DEF Alike
<1>6. Noticed(px, px') /\ (px'.params = px.params => EffectivePrograms' = EffectivePrograms)
  <2>1. px \in ParamStates
    BY TypedIsTypeOK DEF TypeAndPlaces, Typed
  <2>2. Noticed(px, px')
    BY <1>3, <2>1, KnobsAreNoticed, NothingToNotice
  <2> QED BY <1>3, <2>2 DEF EffectivePrograms
<1>7. Due' \/ ~Due
  BY <1>3 DEF Due
<1>8. Selected' = Selected /\ \A i \in Programs : bank'[i].name = bank[i].name
  BY <1>3 DEF Selected
<1>9. audio'.pc # "publish" => audio'.todo = <<>>
  BY <1>3 DEF CopiesOK
<1> QED BY <1>3, <1>5, <1>6, <1>7, <1>8, <1>9, CopiesStay

LEMMA StringCallsKeepCopies ==
  ASSUME TypeAndPlaces, TypeAndPlaces', CopiesOK, QueuesFit,
         \/ \E name \in Names : SetProgramName(name)
         \/ \E patch \in Program : SetPatch(patch)
         \/ \E programs \in HostBanks : SetBank(programs)
         \/ PushRename
  PROVE  CopiesOK'
<1>1. PICK g \in GuiCopies : g = UpToDate
  BY ToldType
<1>2. gui \in GuiCopies /\ gui' \in GuiCopies
      /\ to_audio_string_messages \in Seq(StringMessages)
  <2>1. Typed /\ (Typed)'
    BY TypedIsTypeOK, PTL DEF TypeAndPlaces
  <2> QED BY <2>1 DEF Typed
<1>3. /\ \E m : to_audio_string_messages' = Append(to_audio_string_messages, m)
      /\ UNCHANGED <<px, bank, current_program, need_bank_update, audio, to_audio_messages>>
  BY DEF SetProgramName, SetPatch, SetBank, PushRename, Push, QueuesFit, audio_vars
<1>4. Due'
  <2>1. PICK m : to_audio_string_messages' = Append(to_audio_string_messages, m)
    BY <1>3
  <2>2. Append(to_audio_string_messages, m) # <<>>
    BY <1>2
  <2> QED BY <2>1, <2>2 DEF Due
<1>5. Told'.current_program_index = Told.current_program_index
  <2>1. CASE PushRename
    <3>1. gui'.current_program_index = gui.current_program_index
      BY <1>2, <2>1 DEF PushRename, GuiCopies
    <3>2. Alike(gui, gui', Told, Told')
      BY <1>2, <1>3, <2>1, ToldAfterCall DEF PushRename
    <3> QED BY <3>1, <3>2 DEF Alike
  <2>2. CASE \/ \E name \in Names : SetProgramName(name)
             \/ \E patch \in Program : SetPatch(patch)
             \/ \E programs \in HostBanks : SetBank(programs)
    <3>1. gui'.current_program_index = g.current_program_index
      <4>1. ASSUME NEW name \in Names, SetProgramName(name)
            PROVE  gui'.current_program_index = g.current_program_index
        BY <1>1, <4>1 DEF SetProgramName, GuiCopies
      <4>2. ASSUME NEW patch \in Program, SetPatch(patch)
            PROVE  gui'.current_program_index = g.current_program_index
        BY <1>1, <4>2 DEF SetPatch, GuiCopies
      <4>3. ASSUME NEW programs \in HostBanks, SetBank(programs)
            PROVE  gui'.current_program_index = g.current_program_index
        BY <1>1, <4>3 DEF SetBank, HandleBankChanged, GuiCopies
      <4> QED BY <2>2, <4>1, <4>2, <4>3
    <3>2. to_gui_messages' = <<>>
      BY <2>2 DEF SetProgramName, SetPatch, SetBank
    <3>3. Alike(g, gui', Told, Told')
      BY <1>1, <1>2, <1>3, <3>2, ToldAfterDraining
    <3> QED BY <3>1, <3>3 DEF Alike
  <2> QED BY <2>1, <2>2
<1>6. Selected' = Selected
  BY <1>3 DEF Selected
<1>7. audio'.pc # "publish" => audio'.todo = <<>>
  BY <1>3 DEF CopiesOK
<1> QED BY <1>3, <1>4, <1>5, <1>6, <1>7, CopiesStay

LEMMA SetProgramKeepsCopies ==
  ASSUME TypeAndPlaces, CopiesOK, QueuesFit, NEW index \in Programs, SetProgram(index)
  PROVE  CopiesOK'
<1>1. PICK m \in AudioMessages : m = [type |-> "CHANGE_PROGRAM", index |-> index]
  <2>1. [type |-> "CHANGE_PROGRAM", index |-> index] \in AudioMessages
    BY DEF AudioMessages
  <2> QED BY <2>1
<1>2. /\ to_audio_messages' = Append(to_audio_messages, m)
      /\ UNCHANGED <<px, bank, current_program, need_bank_update, audio,
                     to_audio_string_messages, to_gui_messages>>
  BY <1>1 DEF SetProgram, Push, QueuesFit, audio_vars
<1>3. gui' = [gui EXCEPT !.current_program_index = index] /\ gui \in GuiCopies
  BY ToldType DEF SetProgram
<1>4. /\ gui' \in GuiCopies /\ gui'.current_program_index = index /\ gui'.todo = gui.todo
      /\ gui'.serialized_bank = gui.serialized_bank /\ gui'.program_names = gui.program_names
      /\ gui'.current_patch = gui.current_patch
  BY <1>3 DEF GuiCopies
<1>5. Alike(gui, gui', Told, Told')
  BY <1>2, <1>4, ToldAfterCall
<1>6. /\ Told'.serialized_bank = Told.serialized_bank /\ Told'.program_names = Told.program_names
      /\ Told'.current_patch.settings = Told.current_patch.settings
      /\ \/ Told'.current_program_index = Told.current_program_index
         \/ Told'.current_program_index = index
  BY <1>4, <1>5 DEF Alike
<1>7. Due' = Due /\ EffectivePrograms' = EffectivePrograms
  BY <1>2, <1>4 DEF Due, EffectivePrograms
<1>8. Selected => Selected'
  BY <1>2, SelectedStays
<1>9. index = current_program \/ Selected'
  <2> SUFFICES ASSUME index # current_program PROVE Selected'
    OBVIOUS
  <2>1. to_audio_messages \in Seq(AudioMessages)
    BY TypedIsTypeOK DEF TypeAndPlaces, Typed
  <2>2. PICK k \in 1..Len(Append(to_audio_messages, m)) : Append(to_audio_messages, m)[k] = m
    <3>1. /\ Len(to_audio_messages) + 1 \in 1..Len(Append(to_audio_messages, m))
          /\ Append(to_audio_messages, m)[Len(to_audio_messages) + 1] = m
      BY <2>1
    <3> QED BY <3>1
  <2>3. m.type = "CHANGE_PROGRAM" /\ m.index # current_program
    BY <1>1
  <2> QED BY <1>2, <2>2, <2>3 DEF Selected
<1>10. \/ need_bank_update'
       \/ Selected'
       \/ Told'.current_program_index = current_program
       \/ /\ ~need_bank_update /\ ~Selected
          /\ Told'.current_program_index = Told.current_program_index
  BY <1>2, <1>6, <1>8, <1>9
<1>11. audio'.pc # "publish" => audio'.todo = <<>>
  BY <1>2 DEF CopiesOK
<1>12. \A i \in Programs : bank'[i].name = bank[i].name
  BY <1>2
<1>13. Noticed(px, px')
  BY <1>2, NothingToNotice, TypedIsTypeOK DEF TypeAndPlaces, Typed
<1> QED BY <1>2, <1>6, <1>7, <1>10, <1>11, <1>12, <1>13, CopiesStay

LEMMA EditsKeepCopies ==
  ASSUME TypeAndPlaces, CopiesOK, NEW id \in ParamId, NEW value \in Values,
         SetParameter(id, value) \/ TurnKnob(id, value)
  PROVE  CopiesOK'
<1>1. PICK m \in AudioMessages : m = [type |-> "CHANGE_PARAM", id |-> id, value |-> value]
  <2>1. [type |-> "CHANGE_PARAM", id |-> id, value |-> value] \in AudioMessages
    BY DEF AudioMessages
  <2> QED BY <2>1
<1>2. /\ to_audio_messages' \in {to_audio_messages, Append(to_audio_messages, m)}
      /\ UNCHANGED <<px, bank, current_program, need_bank_update, audio, gui,
                     to_audio_string_messages, to_gui_messages>>
  BY <1>1 DEF SetParameter, TurnKnob, Push, audio_vars
<1>3. Told' = Told /\ Due' = Due /\ EffectivePrograms' = EffectivePrograms
  BY <1>2 DEF Told, Due, EffectivePrograms
<1>4. Selected => Selected'
  BY <1>2, SelectedStays
<1>5. audio'.pc # "publish" => audio'.todo = <<>>
  BY <1>2 DEF CopiesOK
<1>6. \A i \in Programs : bank'[i].name = bank[i].name
  BY <1>2
<1>7. Noticed(px, px')
  BY <1>2, NothingToNotice, TypedIsTypeOK DEF TypeAndPlaces, Typed
<1> QED BY <1>2, <1>3, <1>4, <1>5, <1>6, <1>7, CopiesStay

LEMMA UnchangedKeepsCopies ==
  ASSUME CopiesOK, UNCHANGED vars
  PROVE  CopiesOK'
<1>1. UNCHANGED <<px, bank, current_program, need_bank_update, audio, gui, to_audio_messages,
                  to_audio_string_messages, to_gui_messages>>
  BY DEF vars, audio_vars
<1>2. Told' = Told /\ Due' = Due /\ EffectivePrograms' = EffectivePrograms /\ Selected' = Selected
  BY <1>1 DEF Told, Due, EffectivePrograms, Selected
<1> QED BY <1>1, <1>2 DEF CopiesOK

CopiesInv == IInv /\ KnobsOnly /\ CopiesOK

LEMMA InitCopies == Init => CopiesInv
<1> SUFFICES ASSUME Init PROVE CopiesInv
  OBVIOUS
<1>1. TypeAndPlaces /\ ProgramsOK /\ KnobsOnly
  BY InitTypeAndPlaces, InitPrograms DEF Init, KnobsOnly
<1>2. Typed
  BY <1>1, TypedIsTypeOK DEF TypeAndPlaces
<1>3. /\ to_gui_messages = <<>> /\ audio.todo = <<>>
      /\ gui.current_program_index = current_program
      /\ gui.current_patch = bank[current_program]
      /\ gui.program_names = [i \in Programs |-> bank[i].name]
      /\ gui.serialized_bank = bank
      /\ bank = BuiltInPrograms /\ px.params = Defaults
  BY DEF Init, IdleAudio, FreshParams
<1>4. Told = gui
  <2>1. Handled(gui, <<>>) = gui
    BY <1>2, HandledNothing DEF Typed
  <2> QED BY <1>3, <2>1 DEF Told
<1>5. bank[current_program].settings = px.params
  BY <1>2, <1>3 DEF Typed, BuiltInPrograms, Patch
<1>6. EffectivePrograms = bank
  <2>1. px.params \in Settings /\ DefaultName \in Names
    BY <1>2, NamesAssumption DEF Typed, ParamStates
  <2> QED BY <1>2, <1>5, <2>1, SettingsReplaced, EffectiveIs DEF Typed
<1>7. CopiesOK
  BY <1>3, <1>4, <1>5, <1>6 DEF CopiesOK
<1> QED BY <1>1, <1>7 DEF CopiesInv, IInv

LEMMA NextKeepsCopies ==
  ASSUME CopiesInv, QueuesFit, [Next]_vars
  PROVE  CopiesInv'
<1>1. IInv /\ TypeAndPlaces /\ ProgramsOK /\ KnobsOnly /\ CopiesOK
  BY DEF CopiesInv, IInv
<1>2. TypeAndPlaces' /\ KnobsOnly'
  BY <1>1, NextTypeAndPlaces, NextKeepsKnobs
<1>3. ProgramsOK'
  BY <1>1, NextImplements
<1>4. CopiesOK'
  <2>1. CASE AudioNext
    <3>1. px'.ratios = px'.params
      BY <1>3 DEF ProgramsOK
    <3> QED BY <1>1, <2>1, <3>1, PopMessageKeepsCopies, BlockStepsKeepCopies,
               FinalizeProcessingKeepsCopies, PublishNextKeepsCopies DEF AudioNext
  <2>2. CASE GuiNext
    BY <1>1, <1>2, <2>2, QuietCallsKeepCopies, StringCallsKeepCopies DEF GuiNext
  <2>3. CASE HostNext
    BY <1>1, <1>2, <2>3, QuietCallsKeepCopies, StringCallsKeepCopies, SetProgramKeepsCopies,
       EditsKeepCopies DEF HostNext
  <2>4. CASE UNCHANGED vars
    BY <1>1, <2>4, UnchangedKeepsCopies
  <2> QED BY <2>1, <2>2, <2>3, <2>4 DEF Next
<1> QED BY <1>2, <1>3, <1>4 DEF CopiesInv, IInv

(***************************************************************************)
(* Once nothing is on its way, the chunks, names and program that the host *)
(* gets are those that are played: whatever notifications came late, and   *)
(* whatever edits came while a program was being loaded.  Two things can   *)
(* break this: a full queue, which drops what is pushed (QueuesFit), and   *)
(* an edit that repeats a value, for which handle_set_param assigns FALSE  *)
(* to the dirty flag and so hides a change before it (px.hides), until the *)
(* next publication.                                                       *)
(***************************************************************************)
THEOREM HostGetsWhatIsPlayed == Spec /\ []QueuesFit => []CopiesAreCurrent
<1>1. CopiesInv => CopiesAreCurrent
  <2> SUFFICES ASSUME CopiesInv, Settled, ~px.hides PROVE Agreed
    BY DEF CopiesAreCurrent
  <2>1. TypeAndPlaces /\ CopiesOK
    BY DEF CopiesInv, IInv
  <2>2. ~Due /\ ~px.is_dirty /\ ~Selected /\ ~need_bank_update
    BY DEF Settled, Due, Selected
  <2>3. Told = gui
    <3>1. audio.todo = <<>> /\ to_gui_messages = <<>>
      BY <2>1 DEF CopiesOK, Settled
    <3>2. Handled(gui, <<>>) = gui
      BY <2>1, ToldType, HandledNothing
    <3> QED BY <3>1, <3>2 DEF Told
  <2> QED BY <2>1, <2>2, <2>3 DEF CopiesOK, Agreed
<1>2. Init => CopiesInv
  BY InitCopies
<1>3. CopiesInv /\ QueuesFit /\ [Next]_vars => CopiesInv'
  BY NextKeepsCopies
<1> QED BY <1>1, <1>2, <1>3, PTL DEF Spec
=============================================================================
