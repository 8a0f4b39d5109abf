----------------------------- MODULE Vst3Proofs -----------------------------
(***************************************************************************)
(* Proofs of the properties of the VST 3 plugin: of its parameters and its *)
(* state (Vst3State), and, from "Events in time" on, of the events of its  *)
(* blocks (Vst3Events).                                                    *)
(*                                                                         *)
(* What is on its way to the audio thread is Pending: the queued messages  *)
(* and those that setState has yet to push.  The invariants of Vst3State   *)
(* say what the parameters will be once all of it is processed.            *)
(***************************************************************************)
EXTENDS Vst3State, Vst3Events, ParamLemmas, StackLemmas

Pending == messages \o main.todo

\* no message of a state that is loaded is dropped: MaxCalls states with all
\* their parameters fit in the queue, or the audio thread keeps up
StateFits == main.pc = "set_state" => Len(messages) < QueueCapacity

(***************************************************************************)
(* Where the threads are.                                                  *)
(***************************************************************************)
PlacesOK ==
  /\ audio.left <= Len(messages)
  /\ audio.pc = "idle" => ~px.is_dirty
  /\ main.pc = "idle" => main.todo = <<>>
  /\ main.pc = "set_state" => main.todo # <<>>
  /\ main.pc = "get_state" =>
       main.todo = <<>> /\ messages = <<>> /\ Len(main.read) < ParamCount

(***************************************************************************)
(* What is loaded will be in force, and a state that is being saved has    *)
(* the values that were loaded, unless somebody changes a setting.         *)
(***************************************************************************)
LeadsTo(p, ms, settings) ==
  /\ ProcessMessages(p, ms).params = settings
  /\ ProcessMessages(p, ms).ratios = settings

LoadedWillBeInForce ==
  ~edited => /\ LeadsTo(px, Pending, saved)
             /\ main.pc = "get_state" =>
                  \A i \in 1..Len(main.read) : main.read[i] = saved[i]

\* the messages ms are widgets' from k + 1 on: edits and refreshes
WidgetsFrom(ms, k) ==
  \A j \in (k + 1)..Len(ms) : ms[j].type \in {"REFRESH_PARAM", "SET_PARAM"}

\* whether a setting is not as saved; what was saved as learning may have learnt
Unsaved(p, settings) ==
  \E id \in ParamId : p.params[id] # settings[id] /\ settings[id] # MidiLearn

\* the settings that the host has are on their way, and then only edits
StateOnItsWay(p, ms, settings) ==
  \E k \in 1..Len(ms) :
    /\ ms[k] = ClearDirtyFlag
    /\ After(p, ms)[k].params = settings
    /\ WidgetsFrom(ms, k)

\* only edits are on their way, and if Proxy has unsaved settings it is dirty
\* or was until an edit repeated a value
OnlyEdits(p, ms, settings) ==
  /\ Unsaved(p, settings) => p.is_dirty \/ p.hides
  /\ WidgetsFrom(ms, 0)

(***************************************************************************)
(* The host knows of every unsaved change, will be told of it, or will be  *)
(* told once the messages on their way are processed; or a message has     *)
(* hidden it.                                                              *)
(***************************************************************************)
ChangesWillBeKnown ==
  \/ is_modified
  \/ notices > 0
  \/ px.hides
  \/ audio.pc = "events" /\ px.is_dirty
  \/ StateOnItsWay(px, Pending, saved)
  \/ OnlyEdits(px, Pending, saved)

\* a value that changes after getState has read it dirties Proxy
ReadChangesWillBeKnown ==
  main.pc = "get_state" =>
    \A i \in 1..Len(main.read) :
      main.read[i] # px.ratios[i] /\ main.read[i] # MidiLearn =>
        notices > 0 \/ px.is_dirty \/ px.hides

-----------------------------------------------------------------------------
(* Types and places. *)

TypeAndPlaces == TypeOK /\ PlacesOK

(* What setState pushes restores the state, and clears the flag at the end. *)
LEMMA StateMessagesRestore ==
  ASSUME NEW p \in ParamStates, NEW settings \in Settings
  PROVE  /\ StateMessages(settings) \in Seq(Messages) /\ StateMessages(settings) # <<>>
         /\ StateMessages(settings)[Len(StateMessages(settings))] = ClearDirtyFlag
         /\ ProcessMessages(p, StateMessages(settings)).params = settings
         /\ ProcessMessages(p, StateMessages(settings)).ratios = settings
<1>1. PICK ms \in Seq(Messages) :
        /\ ms = ImportMessages(settings)
        /\ ProcessMessages(p, ms).params = settings /\ ProcessMessages(p, ms).ratios = settings
  BY ImportRestores DEF ImportSettings
<1>2. ClearDirtyFlag \in Messages
  BY DEF Messages
<1>3. StateMessages(settings) = Append(ms, ClearDirtyFlag)
  BY <1>1, <1>2 DEF StateMessages
<1>4. PICK q \in ParamStates : q = ProcessMessages(p, ms)
  BY ProcessMessagesType
<1>5. ProcessMessages(p, Append(ms, ClearDirtyFlag)) = [q EXCEPT !.is_dirty = FALSE]
  BY <1>2, <1>4, ProcessAppend DEF ProcessMessage, ClearDirtyFlag
<1>6. /\ Append(ms, ClearDirtyFlag) \in Seq(Messages) /\ Append(ms, ClearDirtyFlag) # <<>>
      /\ Append(ms, ClearDirtyFlag)[Len(Append(ms, ClearDirtyFlag))] = ClearDirtyFlag
  BY <1>2
<1> QED BY <1>1, <1>3, <1>4, <1>5, <1>6 DEF ParamStates

LEMMA PushMessageType ==
  ASSUME messages \in Seq(Messages), Len(messages) <= QueueCapacity,
         NEW m \in Messages, PushMessage(m)
  PROVE  /\ messages' \in Seq(Messages) /\ Len(messages') <= QueueCapacity
         /\ Len(messages) <= Len(messages')
         /\ messages' = messages \/ messages' = Append(messages, m)
<1>1. CASE Len(messages) < QueueCapacity
  <2>1. messages' = Append(messages, m)
    BY <1>1 DEF PushMessage
  <2> QED BY <1>1, <2>1, QueueCapacityAssumption
<1>2. CASE ~(Len(messages) < QueueCapacity)
  <2>1. messages' = messages
    BY <1>2 DEF PushMessage
  <2> QED BY <2>1
<1> QED BY <1>1, <1>2

LEMMA InitTypeAndPlaces == Init => TypeAndPlaces
<1> SUFFICES ASSUME Init PROVE TypeAndPlaces
  OBVIOUS
<1>1. Defaults \in Settings
  BY DefaultValueAssumption DEF Defaults, Settings
<1>2. px \in ParamStates /\ px.is_dirty = FALSE
  BY <1>1 DEF Init, FreshParams, ParamStates
<1>3. main \in Mains /\ main.pc = "idle" /\ main.todo = <<>>
  BY DEF Init, Idle, Mains
<1>4. /\ messages = <<>> /\ audio = [pc |-> "idle", left |-> 0] /\ notices = 0 /\ calls = 0
      /\ is_modified = FALSE /\ edited = FALSE /\ saved = Defaults
  BY DEF Init
<1>5. messages \in Seq(Messages) /\ Len(messages) = 0
  BY <1>4
<1>6. /\ audio \in [pc : {"idle", "messages", "events"}, left : 0..QueueCapacity]
      /\ audio.left = 0 /\ Len(messages) <= QueueCapacity /\ calls \in 0..MaxCalls
  BY <1>4, <1>5, QueueCapacityAssumption, MaxCallsAssumption
<1>7. TypeOK
  BY <1>1, <1>2, <1>3, <1>4, <1>5, <1>6 DEF TypeOK
<1>8. PlacesOK
  BY <1>2, <1>3, <1>5, <1>6 DEF PlacesOK
<1> QED BY <1>7, <1>8 DEF TypeAndPlaces

(* An automated parameter is set as by a message. *)
LEMMA AutomateIsAMessage ==
  ASSUME NEW id \in ParamId, NEW value \in Values
  PROVE  /\ SetParam(id, value) \in Messages
         /\ HandleSetParam(px, id, value) = ProcessMessage(px, SetParam(id, value))
BY DEF SetParam, ProcessMessage, Messages

(* A rule that learns changes no other parameter and no copy. *)
LEMMA LearnSteps ==
  ASSUME px \in ParamStates, NEW value \in Values, Learn(value)
  PROVE  /\ px' \in ParamStates /\ px'.is_dirty = TRUE /\ px'.ratios = px.ratios
         /\ \A id \in ParamId :
              px'.params[id] = IF px.params[id] = MidiLearn THEN value ELSE px.params[id]
<1> DEFINE learnt == [id \in ParamId |-> IF px.params[id] = MidiLearn THEN value
                                                                     ELSE px.params[id]]
<1>1. learnt \in Settings
  BY DEF ParamStates, Settings
<1>2. px' = [px EXCEPT !.params = learnt, !.is_dirty = TRUE]
  BY DEF Learn
<1>3. \A id \in ParamId : learnt[id] = IF px.params[id] = MidiLearn THEN value
                                                                   ELSE px.params[id]
  OBVIOUS
<1> HIDE DEF learnt
<1>4. px' \in ParamStates /\ px'.is_dirty = TRUE /\ px'.ratios = px.ratios /\ px'.params = learnt
  BY <1>1, <1>2 DEF ParamStates
<1> QED BY <1>3, <1>4

(* At the end of a block the flag is taken, and the host is told of it. *)
LEMMA FlagIsTaken ==
  ASSUME px \in ParamStates, notices \in Nat, FinishProcess
  PROVE  /\ px' \in ParamStates /\ px'.is_dirty = FALSE
         /\ px'.params = px.params /\ px'.ratios = px.ratios /\ notices' \in Nat
         /\ IF px.is_dirty THEN notices' > 0 ELSE px' = px /\ notices' = notices
<1>1. CASE px.is_dirty
  <2>1. px' = [px EXCEPT !.is_dirty = FALSE, !.hides = FALSE] /\ notices' = notices + 1
    BY <1>1 DEF FinishProcess
  <2>2. /\ px' \in ParamStates /\ px'.is_dirty = FALSE
        /\ px'.params = px.params /\ px'.ratios = px.ratios
    BY <2>1 DEF ParamStates
  <2> QED BY <1>1, <2>1, <2>2
<1>2. CASE ~px.is_dirty
  <2>1. px' = px /\ notices' = notices
    BY <1>2 DEF FinishProcess
  <2>2. px.is_dirty \in BOOLEAN
    BY DEF ParamStates
  <2> QED BY <1>2, <2>1, <2>2
<1> QED BY <1>1, <1>2

(* Every step keeps types and places. *)
LEMMA NextTypeAndPlaces == TypeAndPlaces /\ [Next]_vars => TypeAndPlaces'
<1> SUFFICES ASSUME TypeAndPlaces, [Next]_vars PROVE TypeAndPlaces'
  OBVIOUS
<1>1. /\ px \in ParamStates /\ messages \in Seq(Messages) /\ Len(messages) <= QueueCapacity
      /\ main.pc \in {"idle", "set_state", "get_state"} /\ main.todo \in Seq(Messages)
      /\ main.read \in Seq(Values) /\ main \in Mains
      /\ audio \in [pc : {"idle", "messages", "events"}, left : 0..QueueCapacity]
      /\ notices \in Nat /\ is_modified \in BOOLEAN /\ edited \in BOOLEAN
      /\ saved \in Settings /\ calls \in 0..MaxCalls
  BY DEF TypeAndPlaces, TypeOK, Mains
<1>2. PlacesOK
  BY DEF TypeAndPlaces
<1>3. /\ QueueCapacity \in Nat \ {0} /\ MaxCalls \in Nat /\ ParamCount \in Nat \ {0}
      /\ Idle \in Mains /\ Idle.pc = "idle" /\ Idle.todo = <<>> /\ Idle.read = <<>>
  BY QueueCapacityAssumption, MaxCallsAssumption, ParamCountAssumption DEF Idle, Mains
<1>4. Count => calls' \in 0..MaxCalls
  BY <1>1, <1>3 DEF Count
<1>5. ASSUME NEW settings \in Settings, SetState(settings) PROVE TypeAndPlaces'
  <2>1. PICK ms \in Seq(Messages) : ms = StateMessages(settings) /\ ms # <<>>
    BY <1>1, StateMessagesRestore
  <2>2. /\ main' = [Idle EXCEPT !.pc = "set_state", !.todo = ms]
        /\ saved' = settings /\ is_modified' = FALSE /\ edited' = FALSE
        /\ UNCHANGED <<px, messages, audio, notices>> /\ calls' \in 0..MaxCalls
    BY <1>4, <1>5, <2>1 DEF SetState
  <2>3. main' \in Mains /\ main'.pc = "set_state" /\ main'.todo = ms
    BY <1>3, <2>1, <2>2 DEF Mains
  <2>4. TypeOK'
    BY <1>1, <2>2, <2>3 DEF TypeOK
  <2>5. PlacesOK'
    BY <1>2, <2>1, <2>2, <2>3 DEF PlacesOK
  <2> QED BY <2>4, <2>5 DEF TypeAndPlaces
<1>6. CASE PushNext
  <2>1. /\ main.pc = "set_state" /\ main.todo # <<>> /\ PushMessage(Head(main.todo))
        /\ main' = IF Len(main.todo) = 1 THEN Idle ELSE [main EXCEPT !.todo = Tail(@)]
        /\ UNCHANGED <<px, audio, notices, is_modified, saved, edited, calls>>
    BY <1>2, <1>6 DEF PushNext, PlacesOK, host_vars
  <2>2. /\ Head(main.todo) \in Messages /\ Tail(main.todo) \in Seq(Messages)
        /\ Len(Tail(main.todo)) = Len(main.todo) - 1 /\ Len(main.todo) \in Nat \ {0}
    BY <1>1, <2>1
  <2>3. /\ messages' \in Seq(Messages) /\ Len(messages') <= QueueCapacity
        /\ Len(messages) <= Len(messages')
    BY <1>1, <2>1, <2>2, PushMessageType
  <2>4. /\ main' \in Mains
        /\ \/ main'.pc = "idle" /\ main'.todo = <<>>
           \/ main'.pc = "set_state" /\ main'.todo # <<>>
    <3>1. CASE Len(main.todo) = 1
      <4>1. main' = Idle
        BY <2>1, <3>1
      <4> QED BY <1>3, <4>1
    <3>2. CASE Len(main.todo) # 1
      <4>1. main' = [main EXCEPT !.todo = Tail(main.todo)] /\ Tail(main.todo) # <<>>
        <5>1. Len(Tail(main.todo)) # 0
          BY <2>2, <3>2
        <5>2. \A rest \in Seq(Messages) : Len(rest) # 0 => rest # <<>>
          OBVIOUS
        <5>3. Tail(main.todo) # <<>>
          BY <2>2, <5>1, <5>2
        <5> QED BY <2>1, <3>2, <5>3
      <4> QED BY <1>1, <2>1, <2>2, <4>1 DEF Mains
    <3> QED BY <3>1, <3>2
  <2>5. TypeOK'
    BY <1>1, <2>1, <2>3, <2>4 DEF TypeOK
  <2>6. audio.left <= Len(messages) /\ audio.left \in Nat /\ Len(messages) \in Nat
        /\ Len(messages') \in Nat
    BY <1>1, <1>2, <2>3 DEF PlacesOK
  <2>7. PlacesOK'
    BY <1>2, <2>1, <2>3, <2>4, <2>6 DEF PlacesOK
  <2> QED BY <2>5, <2>7 DEF TypeAndPlaces
<1>7. CASE GetState
  <2>1. /\ main' = [Idle EXCEPT !.pc = "get_state"] /\ messages = <<>>
        /\ UNCHANGED <<px, messages, audio, notices, is_modified, saved, edited>>
        /\ calls' \in 0..MaxCalls
    BY <1>4, <1>7 DEF GetState, host_vars
  <2>2. main' \in Mains /\ main'.pc = "get_state" /\ main'.todo = <<>> /\ main'.read = <<>>
    BY <1>3, <2>1 DEF Mains
  <2>3. Len(main'.read) < ParamCount
    BY <1>3, <2>2
  <2>4. TypeOK'
    BY <1>1, <2>1, <2>2 DEF TypeOK
  <2>5. PlacesOK'
    BY <1>2, <2>1, <2>2, <2>3 DEF PlacesOK
  <2> QED BY <2>4, <2>5 DEF TypeAndPlaces
<1>8. CASE ReadRatio
  <2>1. /\ main.pc = "get_state" /\ main.todo = <<>> /\ messages = <<>>
        /\ Len(main.read) < ParamCount
        /\ UNCHANGED <<px, messages, audio, notices, edited, calls>>
    BY <1>2, <1>8 DEF ReadRatio, PlacesOK
  <2>2. Len(main.read) + 1 \in ParamId /\ Len(main.read) \in Nat
    BY <1>1, <1>3, <2>1 DEF ParamId
  <2>3. PICK value \in Values : value = Serialize(px)[Len(main.read) + 1]
    BY <1>1, <2>2 DEF Serialize, ParamStates, Settings
  <2>4. PICK read \in Seq(Values) :
          read = Append(main.read, value) /\ Len(read) = Len(main.read) + 1
    <3>1. /\ Append(main.read, value) \in Seq(Values)
          /\ Len(Append(main.read, value)) = Len(main.read) + 1
      BY <1>1
    <3> QED BY <3>1
  <2>5. CASE Len(read) < ParamCount
    <3>1. main' = [main EXCEPT !.read = read] /\ UNCHANGED <<is_modified, saved>>
      BY <1>8, <2>3, <2>4, <2>5 DEF ReadRatio, host_vars
    <3>2. main' \in Mains /\ main'.pc = "get_state" /\ main'.todo = <<>> /\ main'.read = read
      BY <1>1, <2>1, <3>1 DEF Mains
    <3>3. TypeOK'
      BY <1>1, <2>1, <3>1, <3>2 DEF TypeOK
    <3>4. PlacesOK'
      BY <1>2, <2>1, <2>5, <3>1, <3>2 DEF PlacesOK
    <3> QED BY <3>3, <3>4 DEF TypeAndPlaces
  <2>6. CASE ~(Len(read) < ParamCount)
    <3>1. main' = Idle /\ saved' = read /\ is_modified' = FALSE
      BY <1>8, <2>3, <2>4, <2>6 DEF ReadRatio
    <3>2. read \in Settings
      <4>1. Len(read) = ParamCount
        BY <1>3, <2>1, <2>2, <2>4, <2>6
      <4> QED BY <4>1 DEF Settings, ParamId
    <3>3. TypeOK'
      BY <1>1, <1>3, <2>1, <3>1, <3>2 DEF TypeOK
    <3>4. PlacesOK'
      BY <1>2, <1>3, <2>1, <3>1 DEF PlacesOK
    <3> QED BY <3>3, <3>4 DEF TypeAndPlaces
  <2> QED BY <2>5, <2>6
<1>9. ASSUME NEW m \in Messages, PushMessage(m), main.pc = "idle", edited' \in BOOLEAN,
             UNCHANGED <<px, main, audio, notices, is_modified, saved>>, calls' \in 0..MaxCalls
      PROVE  TypeAndPlaces'
  <2>1. /\ messages' \in Seq(Messages) /\ Len(messages') <= QueueCapacity
        /\ Len(messages) <= Len(messages')
    BY <1>1, <1>9, PushMessageType
  <2>2. TypeOK'
    BY <1>1, <1>9, <2>1 DEF TypeOK
  <2>3. /\ audio.left <= Len(messages) /\ audio.left \in Nat /\ Len(messages) \in Nat
        /\ Len(messages') \in Nat
    BY <1>1, <1>2, <2>1 DEF PlacesOK
  <2>4. PlacesOK'
    BY <1>2, <1>9, <2>1, <2>3 DEF PlacesOK
  <2> QED BY <2>2, <2>4 DEF TypeAndPlaces
<1>10. ASSUME NEW id \in ParamId, NEW value \in Values, TurnWidget(id, value)
       PROVE  TypeAndPlaces'
  <2>1. SetParam(id, value) \in Messages
    BY DEF Messages
  <2> QED BY <1>4, <1>9, <1>10, <2>1 DEF TurnWidget, host_vars
<1>11. ASSUME NEW id \in ParamId, RefreshWidget(id) PROVE TypeAndPlaces'
  <2>1. RefreshParam(id) \in Messages
    BY DEF Messages
  <2> QED BY <1>1, <1>4, <1>9, <1>11, <2>1 DEF RefreshWidget, host_vars
<1>12. CASE Notify
  <2>1. /\ notices > 0 /\ notices' = notices - 1 /\ is_modified' = TRUE
        /\ UNCHANGED <<px, messages, main, audio, saved, edited, calls>>
    BY <1>12 DEF Notify
  <2>2. TypeOK'
    BY <1>1, <2>1 DEF TypeOK
  <2>3. PlacesOK'
    BY <1>2, <2>1 DEF PlacesOK
  <2> QED BY <2>2, <2>3 DEF TypeAndPlaces
<1>13. CASE Process
  <2>1. /\ audio' = [pc |-> "messages", left |-> Len(messages)]
        /\ UNCHANGED <<px, messages, main, notices, is_modified, saved, edited, calls>>
    BY <1>13 DEF Process, host_vars
  <2>2. Len(messages) \in 0..QueueCapacity
    BY <1>1, <1>3
  <2>3. TypeOK'
    BY <1>1, <2>1, <2>2 DEF TypeOK
  <2>4. PlacesOK'
    BY <1>2, <2>1, <2>2 DEF PlacesOK
  <2> QED BY <2>3, <2>4 DEF TypeAndPlaces
<1>14. CASE ProcessNextMessage
  <2>1. /\ audio.pc = "messages" /\ audio.left > 0 /\ messages # <<>>
        /\ px' = ProcessMessage(px, Head(messages)) /\ messages' = Tail(messages)
        /\ audio' = [audio EXCEPT !.left = @ - 1]
        /\ UNCHANGED <<main, notices, is_modified, saved, edited, calls>>
    BY <1>1, <1>2, <1>14 DEF ProcessNextMessage, host_vars, PlacesOK
  <2>2. /\ Head(messages) \in Messages /\ Tail(messages) \in Seq(Messages)
        /\ Len(Tail(messages)) = Len(messages) - 1
    BY <1>1, <2>1
  <2>3. px' \in ParamStates
    BY <1>1, <2>1, <2>2, ProcessMessageType
  <2>4. /\ audio' \in [pc : {"idle", "messages", "events"}, left : 0..QueueCapacity]
        /\ audio'.left = audio.left - 1 /\ audio'.pc = "messages" /\ audio.left \in Nat
    <3>1. audio.left \in 0..QueueCapacity /\ audio.left - 1 \in 0..QueueCapacity
      BY <1>1, <1>3, <2>1
    <3> QED BY <1>1, <2>1, <3>1
  <2>5. audio.left <= Len(messages) /\ Len(messages) \in Nat
    BY <1>1, <1>2 DEF PlacesOK
  <2>6. TypeOK'
    <3>1. messages' \in Seq(Messages) /\ Len(messages') <= QueueCapacity
      BY <1>1, <1>3, <2>1, <2>2, <2>5
    <3> QED BY <1>1, <2>1, <2>3, <2>4, <3>1 DEF TypeOK
  <2>7. main.pc # "get_state"
    BY <1>2, <2>1 DEF PlacesOK
  <2>8. PlacesOK'
    BY <1>2, <2>1, <2>2, <2>4, <2>5, <2>7 DEF PlacesOK
  <2> QED BY <2>6, <2>8 DEF TypeAndPlaces
<1>15. ASSUME audio' \in [pc : {"idle", "messages", "events"}, left : 0..QueueCapacity],
              audio'.left = audio.left \/ audio'.left = 0, audio'.pc = "idle" => ~px'.is_dirty,
              px' \in ParamStates, notices' \in Nat, edited' \in BOOLEAN,
              UNCHANGED <<messages, main, is_modified, saved>>, calls' \in 0..MaxCalls
       PROVE  TypeAndPlaces'
  <2>1. TypeOK'
    BY <1>1, <1>15 DEF TypeOK
  <2>2. audio'.left <= Len(messages)
    BY <1>1, <1>2, <1>15 DEF PlacesOK
  <2>3. PlacesOK'
    BY <1>2, <1>15, <2>2 DEF PlacesOK
  <2> QED BY <2>1, <2>3 DEF TypeAndPlaces
<1>16. CASE StartEvents
  <2>1. /\ audio' = [audio EXCEPT !.pc = "events"]
        /\ UNCHANGED <<px, messages, main, notices, is_modified, saved, edited, calls>>
    BY <1>16 DEF StartEvents, host_vars
  <2>2. /\ audio' \in [pc : {"idle", "messages", "events"}, left : 0..QueueCapacity]
        /\ audio'.left = audio.left /\ audio'.pc = "events"
    BY <1>1, <2>1
  <2> QED BY <1>1, <1>15, <2>1, <2>2
<1>17. ASSUME NEW id \in ParamId, NEW value \in Values, Automate(id, value)
       PROVE  TypeAndPlaces'
  <2>1. px' \in ParamStates
    BY <1>1, <1>17, AutomateIsAMessage, ProcessMessageType DEF Automate
  <2>2. /\ audio.pc = "events" /\ edited' = TRUE /\ calls' \in 0..MaxCalls
        /\ UNCHANGED <<messages, main, audio, notices, is_modified, saved>>
    BY <1>4, <1>17 DEF Automate, host_vars
  <2> QED BY <1>1, <1>15, <2>1, <2>2
<1>18. ASSUME NEW value \in Values, Learn(value) PROVE TypeAndPlaces'
  <2>1. px' \in ParamStates
    BY <1>1, <1>18, LearnSteps
  <2>2. /\ audio.pc = "events" /\ edited' = TRUE /\ calls' \in 0..MaxCalls
        /\ UNCHANGED <<messages, main, audio, notices, is_modified, saved>>
    BY <1>4, <1>18 DEF Learn, host_vars
  <2> QED BY <1>1, <1>15, <2>1, <2>2
<1>19. CASE FinishProcess
  <2>1. /\ audio' = [pc |-> "idle", left |-> 0]
        /\ UNCHANGED <<messages, main, is_modified, saved, edited, calls>>
    BY <1>19 DEF FinishProcess, host_vars
  <2>2. px' \in ParamStates /\ px'.is_dirty = FALSE /\ notices' \in Nat
    BY <1>1, <1>19, FlagIsTaken
  <2>3. /\ audio' \in [pc : {"idle", "messages", "events"}, left : 0..QueueCapacity]
        /\ audio'.left = 0
    BY <1>1, <1>3, <2>1
  <2> QED BY <1>1, <1>15, <2>1, <2>2, <2>3
<1>20. CASE UNCHANGED vars
  <2>1. TypeOK'
    BY <1>1, <1>20 DEF vars, TypeOK
  <2>2. PlacesOK'
    BY <1>2, <1>20 DEF vars, PlacesOK
  <2> QED BY <2>1, <2>2 DEF TypeAndPlaces
<1> QED BY <1>5, <1>6, <1>7, <1>8, <1>10, <1>11, <1>12, <1>13, <1>14, <1>16, <1>17, <1>18,
           <1>19, <1>20 DEF Next, MainNext, AudioNext

(***************************************************************************)
(* The messages of both threads are what they should be, a state that is   *)
(* being read is a list of as many values as have been read, and the audio *)
(* thread never counts more messages than there are, however main thread   *)
(* and audio thread interleave.                                            *)
(***************************************************************************)
THEOREM TypeCorrect == Spec => []TypeOK
<1>1. TypeAndPlaces => TypeOK
  BY DEF TypeAndPlaces
<1> QED BY <1>1, InitTypeAndPlaces, NextTypeAndPlaces, PTL DEF Spec

-----------------------------------------------------------------------------
(* Copies that lag. *)

\* a copy is current, or still that of a rule that learns
CopiesLag(p) == \A id \in ParamId : p.ratios[id] \in {p.params[id], MidiLearn}

(* A message brings the copies of what it sets up to date. *)
LEMMA MessageKeepsCopies ==
  ASSUME NEW p \in ParamStates, NEW m \in Messages, CopiesLag(p)
  PROVE  CopiesLag(ProcessMessage(p, m))
<1>1. CASE \E id \in ParamId, value \in Values : m = SetParam(id, value)
  <2>1. PICK id \in ParamId, value \in Values : m = SetParam(id, value)
    BY <1>1
  <2>2. ProcessMessage(p, m) = HandleSetParam(p, id, value)
    BY <2>1 DEF ProcessMessage, SetParam
  <2>3. /\ HandleSetParam(p, id, value).params = [p.params EXCEPT ![id] = value]
        /\ HandleSetParam(p, id, value).ratios = [p.ratios EXCEPT ![id] = value]
    BY DEF HandleSetParam, HandleRefreshParam, ParamStates, Settings
  <2> QED BY <2>2, <2>3 DEF CopiesLag, ParamStates, Settings
<1>2. CASE \E id \in ParamId : m = RefreshParam(id)
  <2>1. PICK id \in ParamId : m = RefreshParam(id)
    BY <1>2
  <2>2. ProcessMessage(p, m) = HandleRefreshParam(p, id)
    BY <2>1 DEF ProcessMessage, RefreshParam
  <2>3. /\ HandleRefreshParam(p, id).params = p.params
        /\ HandleRefreshParam(p, id).ratios = [p.ratios EXCEPT ![id] = p.params[id]]
    BY DEF HandleRefreshParam, ParamStates, Settings
  <2> QED BY <2>2, <2>3 DEF CopiesLag, ParamStates, Settings
<1>3. CASE m = ClearMessage
  <2>1. ProcessMessage(p, m) = HandleClear(p)
    BY <1>3 DEF ProcessMessage, ClearMessage
  <2> QED BY <2>1 DEF HandleClear, CopiesLag
<1>4. CASE m = ClearDirtyFlag
  <2>1. ProcessMessage(p, m) = [p EXCEPT !.is_dirty = FALSE]
    BY <1>4 DEF ProcessMessage, ClearDirtyFlag
  <2> QED BY <2>1 DEF CopiesLag, ParamStates
<1> QED BY <1>1, <1>2, <1>3, <1>4 DEF Messages

LEMMA NextCopiesLag ==
  TypeAndPlaces /\ CopiesLag(px) /\ [Next]_vars => CopiesLag(px')
<1> SUFFICES ASSUME TypeAndPlaces, CopiesLag(px), [Next]_vars PROVE CopiesLag(px')
  OBVIOUS
<1>1. px \in ParamStates /\ messages \in Seq(Messages)
  BY DEF TypeAndPlaces, TypeOK
<1>2. CASE ProcessNextMessage
  <2>1. audio.left > 0 /\ audio.left \in Nat /\ audio.left <= Len(messages)
    BY <1>2 DEF ProcessNextMessage, TypeAndPlaces, TypeOK, PlacesOK
  <2>2. Head(messages) \in Messages
    BY <1>1, <2>1
  <2> QED BY <1>1, <1>2, <2>2, MessageKeepsCopies DEF ProcessNextMessage
<1>3. ASSUME NEW id \in ParamId, NEW value \in Values, Automate(id, value)
      PROVE  CopiesLag(px')
  BY <1>1, <1>3, AutomateIsAMessage, MessageKeepsCopies DEF Automate
<1>4. ASSUME NEW value \in Values, Learn(value) PROVE CopiesLag(px')
  <2>1. /\ px'.ratios = px.ratios
        /\ \A id \in ParamId :
             px'.params[id] = IF px.params[id] = MidiLearn THEN value ELSE px.params[id]
    BY <1>1, <1>4, LearnSteps
  <2> QED BY <2>1 DEF CopiesLag
<1>5. CASE FinishProcess
  <2>1. px'.params = px.params /\ px'.ratios = px.ratios
    BY <1>1, <1>5 DEF FinishProcess, ParamStates
  <2> QED BY <2>1 DEF CopiesLag
<1>6. CASE MainNext \/ Process \/ StartEvents \/ UNCHANGED vars
  <2>1. px' = px
    BY <1>6 DEF MainNext, SetState, PushNext, GetState, ReadRatio, Notify, TurnWidget,
                RefreshWidget, Process, StartEvents, vars
  <2> QED BY <2>1
<1> QED BY <1>2, <1>3, <1>4, <1>5, <1>6 DEF Next, AudioNext

(***************************************************************************)
(* A copy of a parameter that other threads read is current except while   *)
(* it shows that a rule is still learning: nothing but MIDI Learn changes  *)
(* a parameter without refreshing its copy.                                *)
(***************************************************************************)
THEOREM CopiesLagOnlyAfterLearning == Spec => []OnlyLearningLags
<1>1. Init => CopiesLag(px)
  BY DEF Init, FreshParams, CopiesLag
<1>2. CopiesLag(px) => OnlyLearningLags
  BY DEF CopiesLag, OnlyLearningLags
<1>3. TypeAndPlaces /\ CopiesLag(px) /\ [Next]_vars => CopiesLag(px)'
  BY NextCopiesLag
<1> QED BY <1>1, <1>2, <1>3, InitTypeAndPlaces, NextTypeAndPlaces, PTL DEF Spec

-----------------------------------------------------------------------------
(* What the messages on their way lead to. *)

(* Pending is a sequence of messages. *)
LEMMA PendingType == TypeAndPlaces => Pending \in Seq(Messages)
<1> SUFFICES ASSUME TypeAndPlaces PROVE Pending \in Seq(Messages)
  OBVIOUS
<1>1. messages \in Seq(Messages) /\ main.todo \in Seq(Messages)
  BY DEF TypeAndPlaces, TypeOK, Mains
<1> QED BY <1>1 DEF Pending

(* Processing a message takes it from the front of what is pending. *)
LEMMA ProcessNextPending ==
  ASSUME TypeAndPlaces, ProcessNextMessage
  PROVE  /\ Pending # <<>> /\ px' = ProcessMessage(px, Head(Pending))
         /\ Pending' = Tail(Pending)
<1>1. /\ messages \in Seq(Messages) /\ main.todo \in Seq(Messages)
      /\ audio.left > 0 /\ audio.left \in Nat /\ audio.left <= Len(messages)
  BY DEF ProcessNextMessage, TypeAndPlaces, TypeOK, PlacesOK, Mains
<1>2. /\ px' = ProcessMessage(px, Head(messages)) /\ messages' = Tail(messages)
      /\ main' = main
  BY DEF ProcessNextMessage
<1>3. messages # <<>>
  BY <1>1
<1>4. \A s, t \in Seq(Messages) : s # <<>> =>
        s \o t # <<>> /\ Head(s \o t) = Head(s) /\ Tail(s \o t) = Tail(s) \o t
  OBVIOUS
<1> QED BY <1>1, <1>2, <1>3, <1>4 DEF Pending

(* Pushing a message of a state, while there is room, leaves what is pending. *)
LEMMA PushNextPending ==
  ASSUME TypeAndPlaces, StateFits, PushNext
  PROVE  Pending' = Pending
<1>1. /\ messages \in Seq(Messages) /\ main.todo \in Seq(Messages) /\ main.todo # <<>>
      /\ main.pc = "set_state"
  BY DEF PushNext, TypeAndPlaces, TypeOK, PlacesOK, Mains
<1>2. messages' = Append(messages, Head(main.todo))
  BY <1>1 DEF PushNext, PushMessage, StateFits
<1>3. main'.todo = Tail(main.todo)
  <2>1. CASE Len(main.todo) = 1
    <3>1. main' = Idle
      BY <2>1 DEF PushNext
    <3>2. \A s \in Seq(Messages) : Len(s) = 1 => Tail(s) = <<>>
      <4>1. \A s \in Seq(Messages) : Len(s) = 1 => Tail(s) \in Seq(Messages) /\ Len(Tail(s)) = 0
        OBVIOUS
      <4>2. \A s \in Seq(Messages) : Len(s) = 0 => s = <<>>
        OBVIOUS
      <4> QED BY <4>1, <4>2
    <3> QED BY <1>1, <2>1, <3>1, <3>2 DEF Idle
  <2>2. CASE Len(main.todo) # 1
    BY <2>2 DEF PushNext, TypeAndPlaces, TypeOK, Mains
  <2> QED BY <2>1, <2>2
<1>4. \A s, t \in Seq(Messages) : t # <<>> => Append(s, Head(t)) \o Tail(t) = s \o t
  OBVIOUS
<1> QED BY <1>1, <1>2, <1>3, <1>4 DEF Pending

(* Steps that neither push nor process nor call. *)
LEMMA QuietPending ==
  ASSUME TypeAndPlaces, UNCHANGED messages, main.todo = <<>>, main'.todo = <<>>
  PROVE  Pending' = Pending
BY DEF Pending

(* A widget's message comes last. *)
LEMMA WidgetPending ==
  ASSUME TypeAndPlaces, main.pc = "idle", UNCHANGED main, NEW m \in Messages, PushMessage(m)
  PROVE  /\ Pending = messages
         /\ Pending' = Pending \/ Pending' = Append(Pending, m)
<1>1. messages \in Seq(Messages) /\ Len(messages) <= QueueCapacity /\ main.todo = <<>>
  BY DEF TypeAndPlaces, TypeOK, PlacesOK
<1>2. messages' \in Seq(Messages) /\ (messages' = messages \/ messages' = Append(messages, m))
  BY <1>1, PushMessageType
<1>3. \A s \in Seq(Messages) : s \o <<>> = s
  OBVIOUS
<1>4. Pending = messages /\ Pending' = messages'
  BY <1>1, <1>2, <1>3 DEF Pending
<1> QED BY <1>2, <1>4

(* A state that is loaded comes after everything that was pushed before. *)
LEMMA SetStatePending ==
  ASSUME TypeAndPlaces, NEW settings \in Settings, SetState(settings)
  PROVE  Pending' = messages \o StateMessages(settings) /\ messages \in Seq(Messages)
<1>1. /\ messages' = messages /\ messages \in Seq(Messages)
      /\ main' = [Idle EXCEPT !.pc = "set_state", !.todo = StateMessages(settings)]
  BY DEF SetState, TypeAndPlaces, TypeOK
<1>2. main'.todo = StateMessages(settings)
  BY <1>1 DEF Idle
<1> QED BY <1>1, <1>2 DEF Pending

-----------------------------------------------------------------------------
(* A loaded state comes into force. *)

LEMMA InitLoaded == Init => LoadedWillBeInForce
<1> SUFFICES ASSUME Init PROVE LoadedWillBeInForce
  OBVIOUS
<1>1. Pending = <<>> /\ main.pc = "idle" /\ px.params = saved /\ px.ratios = saved
  BY DEF Init, Idle, Pending, FreshParams
<1>2. ProcessMessages(px, Pending) = px
  <2>1. px \in ParamStates
    BY InitTypeAndPlaces DEF TypeAndPlaces, TypeOK
  <2> QED BY <1>1, <2>1, AfterNothing
<1> QED BY <1>1, <1>2 DEF LoadedWillBeInForce, LeadsTo

(* Reading one by one copies that do not change reads what they are. *)
LEMMA ReadLoaded ==
  ASSUME TypeAndPlaces, LoadedWillBeInForce, ReadRatio
  PROVE  LoadedWillBeInForce'
<1>1. /\ main.pc = "get_state" /\ main.todo = <<>> /\ messages = <<>>
      /\ main.read \in Seq(Values) /\ Len(main.read) < ParamCount /\ main \in Mains
      /\ px \in ParamStates /\ saved \in Settings
      /\ UNCHANGED <<px, messages, edited>>
  BY DEF ReadRatio, TypeAndPlaces, TypeOK, PlacesOK, Mains
<1>2. CASE edited
  BY <1>1, <1>2 DEF LoadedWillBeInForce
<1>3. CASE ~edited
  <2>1. LeadsTo(px, Pending, saved) /\ \A i \in 1..Len(main.read) : main.read[i] = saved[i]
    BY <1>1, <1>3 DEF LoadedWillBeInForce
  <2>2. Pending = <<>>
    BY <1>1 DEF Pending
  <2>3. px.params = saved /\ px.ratios = saved
    BY <1>1, <2>1, <2>2, AfterNothing DEF LeadsTo
  <2>4. /\ Len(main.read) \in Nat /\ Len(main.read) + 1 \in ParamId
        /\ saved[Len(main.read) + 1] \in Values
    BY <1>1, ParamCountAssumption DEF ParamId, Settings
  <2>5. PICK value \in Values : value = saved[Len(main.read) + 1]
    BY <2>4
  <2>6. PICK read \in Seq(Values) :
          /\ read = Append(main.read, value) /\ Len(read) = Len(main.read) + 1
          /\ \A i \in 1..Len(main.read) : read[i] = main.read[i]
          /\ read[Len(main.read) + 1] = value
    <3>1. /\ Append(main.read, value) \in Seq(Values)
          /\ Len(Append(main.read, value)) = Len(main.read) + 1
          /\ \A i \in 1..Len(main.read) : Append(main.read, value)[i] = main.read[i]
          /\ Append(main.read, value)[Len(main.read) + 1] = value
      BY <1>1
    <3> QED BY <3>1
  <2>7. \A i \in 1..Len(read) : read[i] = saved[i]
    <3>1. \A i \in 1..Len(read) : i \in 1..Len(main.read) \/ i = Len(main.read) + 1
      BY <2>4, <2>6
    <3> QED BY <2>1, <2>5, <2>6, <3>1
  <2>8. CASE Len(read) < ParamCount
    <3>1. main' = [main EXCEPT !.read = read] /\ saved' = saved
      BY <2>3, <2>5, <2>6, <2>8 DEF ReadRatio, Serialize, host_vars
    <3>2. main'.todo = <<>> /\ main'.read = read
      BY <1>1, <3>1 DEF Mains
    <3>3. Pending' = Pending
      BY <1>1, <3>2, QuietPending
    <3> QED BY <1>1, <2>1, <2>7, <3>1, <3>2, <3>3 DEF LoadedWillBeInForce
  <2>9. CASE ~(Len(read) < ParamCount)
    <3>1. main' = Idle /\ saved' = read
      BY <2>3, <2>5, <2>6, <2>9 DEF ReadRatio, Serialize
    <3>2. Len(read) = ParamCount
      BY <1>1, <2>4, <2>6, <2>9, ParamCountAssumption
    <3>3. read = saved
      BY <1>1, <2>7, <3>2 DEF Settings, ParamId
    <3>4. main'.todo = <<>> /\ main'.pc = "idle"
      BY <3>1 DEF Idle
    <3>5. Pending' = Pending
      BY <1>1, <3>4, QuietPending
    <3> QED BY <1>1, <2>1, <3>1, <3>3, <3>4, <3>5 DEF LoadedWillBeInForce
  <2> QED BY <2>8, <2>9
<1> QED BY <1>2, <1>3

(* A refresh of a copy that is current changes nothing. *)
LEMMA RefreshLeadsToTheSame ==
  ASSUME NEW p \in ParamStates, NEW ms \in Seq(Messages), NEW settings \in Settings,
         LeadsTo(p, ms, settings), NEW id \in ParamId
  PROVE  LeadsTo(p, Append(ms, RefreshParam(id)), settings)
<1>1. PICK q \in ParamStates : q = ProcessMessages(p, ms)
  BY ProcessMessagesType
<1>2. RefreshParam(id) \in Messages
  BY DEF Messages
<1>3. ProcessMessages(p, Append(ms, RefreshParam(id))) = HandleRefreshParam(q, id)
  BY <1>1, <1>2, ProcessAppend DEF ProcessMessage, RefreshParam
<1>4. q.params = settings /\ q.ratios = settings
  BY <1>1 DEF LeadsTo
<1>5. /\ HandleRefreshParam(q, id).params = settings
      /\ HandleRefreshParam(q, id).ratios = settings
  BY <1>4 DEF HandleRefreshParam, ParamStates, Settings
<1> QED BY <1>3, <1>5 DEF LeadsTo

LEMMA NextLoaded ==
  TypeAndPlaces /\ StateFits /\ LoadedWillBeInForce /\ [Next]_vars => LoadedWillBeInForce'
<1> SUFFICES ASSUME TypeAndPlaces, StateFits, LoadedWillBeInForce, [Next]_vars
             PROVE  LoadedWillBeInForce'
  OBVIOUS
<1>1. /\ px \in ParamStates /\ messages \in Seq(Messages) /\ saved \in Settings
      /\ main.todo \in Seq(Messages)
      /\ main.pc = "idle" => main.todo = <<>>
      /\ Pending \in Seq(Messages)
  BY PendingType DEF TypeAndPlaces, TypeOK, PlacesOK, Mains
<1>2. ASSUME NEW settings \in Settings, SetState(settings) PROVE LoadedWillBeInForce'
  <2>1. PICK ms \in Seq(Messages) : ms = StateMessages(settings)
    BY <1>1, StateMessagesRestore
  <2>2. PICK q \in ParamStates : q = ProcessMessages(px, messages)
    BY <1>1, ProcessMessagesType
  <2>3. ProcessMessages(px, messages \o ms) = ProcessMessages(q, ms)
    BY <1>1, <2>2, ProcessConcat
  <2>4. LeadsTo(px, messages \o ms, settings)
    BY <2>1, <2>3, StateMessagesRestore DEF LeadsTo
  <2>5. px' = px /\ saved' = settings /\ main'.pc = "set_state"
    BY <1>2 DEF SetState, Idle
  <2>6. Pending' = messages \o ms
    BY <1>2, <2>1, SetStatePending
  <2> QED BY <2>4, <2>5, <2>6 DEF LoadedWillBeInForce
<1>3. ASSUME Pending' = Pending, UNCHANGED <<px, saved, edited>>, main'.pc # "get_state"
      PROVE  LoadedWillBeInForce'
  BY <1>3 DEF LoadedWillBeInForce
<1>4. CASE PushNext
  <2>1. main'.pc # "get_state" /\ UNCHANGED <<px, saved, edited>>
    <3>1. main.pc = "set_state" /\ main \in Mains
      BY <1>4 DEF PushNext, TypeAndPlaces, TypeOK
    <3>2. main' = Idle \/ main' = [main EXCEPT !.todo = Tail(@)]
      BY <1>4 DEF PushNext
    <3>3. main'.pc # "get_state"
      BY <3>1, <3>2 DEF Idle, Mains
    <3> QED BY <1>4, <3>3 DEF PushNext, host_vars
  <2> QED BY <1>3, <1>4, <2>1, PushNextPending
<1>5. CASE GetState
  <2>1. /\ main' = [Idle EXCEPT !.pc = "get_state"] /\ main.pc = "idle"
        /\ UNCHANGED <<px, messages, edited, saved>>
    BY <1>5 DEF GetState, host_vars
  <2>2. main'.todo = <<>> /\ main'.read = <<>> /\ main.todo = <<>>
    BY <1>1, <2>1 DEF Idle
  <2>3. Pending' = Pending
    BY <2>1, <2>2, QuietPending
  <2>4. \A i \in 1..Len(main'.read) : FALSE
    BY <2>2
  <2> QED BY <2>1, <2>3, <2>4 DEF LoadedWillBeInForce
<1>6. CASE ReadRatio
  BY <1>6, ReadLoaded
<1>7. ASSUME edited' = TRUE PROVE LoadedWillBeInForce'
  BY <1>7 DEF LoadedWillBeInForce
<1>8. ASSUME NEW id \in ParamId, RefreshWidget(id) PROVE LoadedWillBeInForce'
  <2>1. RefreshParam(id) \in Messages
    BY DEF Messages
  <2>2. PICK m \in Messages : m = RefreshParam(id)
    BY <2>1
  <2>3. main.pc = "idle" /\ PushMessage(m) /\ UNCHANGED <<main, px, edited, saved>>
    BY <1>8, <2>2 DEF RefreshWidget, host_vars
  <2>4. Pending' = Pending \/ Pending' = Append(Pending, m)
    BY <2>3, WidgetPending
  <2>5. CASE Pending' = Pending
    BY <1>3, <2>3, <2>5
  <2>6. CASE Pending' = Append(Pending, m)
    <3>1. LeadsTo(px, Pending, saved) => LeadsTo(px, Append(Pending, m), saved)
      BY <1>1, <2>2, RefreshLeadsToTheSame
    <3> QED BY <2>3, <2>6, <3>1 DEF LoadedWillBeInForce
  <2> QED BY <2>4, <2>5, <2>6
<1>9. CASE ProcessNextMessage
  <2>1. /\ Pending # <<>> /\ px' = ProcessMessage(px, Head(Pending))
        /\ Pending' = Tail(Pending)
    BY <1>9, ProcessNextPending
  <2>2. PICK ms \in Seq(Messages) : ms = Pending
    BY <1>1
  <2>3. LeadsTo(px, ms, saved) => LeadsTo(ProcessMessage(px, Head(ms)), Tail(ms), saved)
    BY <1>1, <2>1, <2>2, ProcessHead DEF LeadsTo
  <2>4. UNCHANGED <<main, edited, saved>> /\ main.pc # "get_state"
    <3>1. audio.left > 0 /\ audio.left <= Len(messages) /\ audio.left \in Nat
      BY <1>9 DEF ProcessNextMessage, TypeAndPlaces, TypeOK, PlacesOK
    <3>2. messages # <<>>
      BY <1>1, <3>1
    <3> QED BY <1>9, <3>2 DEF ProcessNextMessage, host_vars, TypeAndPlaces, PlacesOK
  <2> QED BY <2>1, <2>2, <2>3, <2>4 DEF LoadedWillBeInForce
<1>10. CASE FinishProcess
  <2>1. UNCHANGED <<messages, main, saved, edited>>
    BY <1>10 DEF FinishProcess, host_vars
  <2>2. Pending' = Pending
    BY <2>1 DEF Pending
  <2>3. PICK q \in ParamStates : q = px' /\ q.params = px.params /\ q.ratios = px.ratios
    <3>1. notices \in Nat
      BY DEF TypeAndPlaces, TypeOK
    <3> QED BY <1>1, <1>10, <3>1, FlagIsTaken
  <2>4. LeadsTo(px, Pending, saved) => LeadsTo(q, Pending, saved)
    BY <1>1, <2>3, DirtyFlagChangesNothing DEF LeadsTo
  <2> QED BY <2>1, <2>2, <2>3, <2>4 DEF LoadedWillBeInForce
<1>11. CASE Notify \/ Process \/ StartEvents \/ UNCHANGED vars
  <2>1. UNCHANGED <<px, messages, main, saved, edited>>
    BY <1>11 DEF Notify, Process, StartEvents, vars, host_vars
  <2>2. Pending' = Pending
    BY <2>1 DEF Pending
  <2> QED BY <2>1, <2>2 DEF LoadedWillBeInForce
<1>12. ASSUME NEW id \in ParamId, NEW value \in Values, TurnWidget(id, value) \/ Automate(id, value)
       PROVE  LoadedWillBeInForce'
  BY <1>7, <1>12 DEF TurnWidget, Automate
<1>13. ASSUME NEW value \in Values, Learn(value) PROVE LoadedWillBeInForce'
  BY <1>7, <1>13 DEF Learn
<1> QED BY <1>2, <1>4, <1>5, <1>6, <1>8, <1>9, <1>10, <1>11, <1>12, <1>13
        DEF Next, MainNext, AudioNext

(***************************************************************************)
(* A state that the host loads comes into force completely, even when the  *)
(* audio thread processes some of its messages in one block and the rest   *)
(* in others, after edits that were pushed before it, between states that  *)
(* are saved, and whatever the parameters were: as long as the queue takes *)
(* the messages of the state.  If it does not, push_message drops them and *)
(* nobody is told.                                                         *)
(***************************************************************************)
THEOREM LoadedStateComesIntoForce == Spec /\ []StateFits => []LoadedStateIsInForce
<1>1. TypeAndPlaces /\ LoadedWillBeInForce => LoadedStateIsInForce
  <2> SUFFICES ASSUME TypeAndPlaces, LoadedWillBeInForce, Quiet, ~edited
               PROVE  px.ratios = saved /\ px.params = saved
    BY DEF LoadedStateIsInForce
  <2>1. Pending = <<>> /\ px \in ParamStates
    BY DEF Quiet, Pending, TypeAndPlaces, TypeOK, PlacesOK
  <2> QED BY <2>1, AfterNothing DEF LoadedWillBeInForce, LeadsTo
<1> QED BY <1>1, InitTypeAndPlaces, NextTypeAndPlaces, InitLoaded, NextLoaded, PTL DEF Spec

-----------------------------------------------------------------------------
(* Unsaved changes are known. *)

LEMMA WidgetsFromTail ==
  ASSUME NEW ms \in Seq(Messages), ms # <<>>, NEW k \in Nat, WidgetsFrom(ms, k + 1)
  PROVE  WidgetsFrom(Tail(ms), k)
<1>1. PICK t \in Seq(Messages) :
        /\ t = Tail(ms) /\ Len(t) = Len(ms) - 1 /\ Len(ms) \in Nat \ {0}
        /\ \A j \in 1..Len(t) : t[j] = ms[j + 1]
  <2>1. /\ Tail(ms) \in Seq(Messages) /\ Len(Tail(ms)) = Len(ms) - 1 /\ Len(ms) \in Nat \ {0}
        /\ \A j \in 1..Len(Tail(ms)) : Tail(ms)[j] = ms[j + 1]
    OBVIOUS
  <2> QED BY <2>1
<1>2. ASSUME NEW j \in (k + 1)..Len(t) PROVE t[j].type \in {"REFRESH_PARAM", "SET_PARAM"}
  <2>1. j + 1 \in ((k + 1) + 1)..Len(ms) /\ t[j] = ms[j + 1]
    BY <1>1
  <2> QED BY <2>1 DEF WidgetsFrom
<1> QED BY <1>1, <1>2 DEF WidgetsFrom

\* another message of a widget
LEMMA WidgetsFromAppend ==
  ASSUME NEW ms \in Seq(Messages), NEW m \in Messages,
         m.type \in {"REFRESH_PARAM", "SET_PARAM"}, NEW k \in Nat, WidgetsFrom(ms, k)
  PROVE  WidgetsFrom(Append(ms, m), k)
<1>1. PICK c \in Seq(Messages) :
        /\ c = Append(ms, m) /\ Len(c) = Len(ms) + 1 /\ Len(ms) \in Nat
        /\ \A j \in 1..Len(ms) : c[j] = ms[j]
        /\ c[Len(ms) + 1] = m
  <2>1. /\ Append(ms, m) \in Seq(Messages) /\ Len(Append(ms, m)) = Len(ms) + 1
        /\ Len(ms) \in Nat /\ Append(ms, m)[Len(ms) + 1] = m
        /\ \A j \in 1..Len(ms) : Append(ms, m)[j] = ms[j]
    OBVIOUS
  <2> QED BY <2>1
<1>2. ASSUME NEW j \in (k + 1)..Len(c) PROVE c[j].type \in {"REFRESH_PARAM", "SET_PARAM"}
  <2>1. CASE j = Len(ms) + 1
    BY <1>1, <2>1
  <2>2. CASE j # Len(ms) + 1
    <3>1. j \in (k + 1)..Len(ms) /\ j \in 1..Len(ms)
      BY <1>1, <2>2
    <3> QED BY <1>1, <3>1 DEF WidgetsFrom
  <2> QED BY <2>1, <2>2
<1> QED BY <1>1, <1>2 DEF WidgetsFrom

(* Once a state has been imported it is in force, and its flag cleared. *)
LEMMA StateArrives ==
  ASSUME NEW p \in ParamStates, NEW ms \in Seq(Messages), ms # <<>>, NEW settings,
         StateOnItsWay(p, ms, settings)
  PROVE  \/ StateOnItsWay(ProcessMessage(p, Head(ms)), Tail(ms), settings)
         \/ OnlyEdits(ProcessMessage(p, Head(ms)), Tail(ms), settings)
<1>1. PICK q \in ParamStates, t \in Seq(Messages) :
        /\ q = ProcessMessage(p, Head(ms)) /\ t = Tail(ms)
        /\ \A j \in 0..Len(t) : After(q, t)[j] = After(p, ms)[j + 1]
        /\ Len(t) = Len(ms) - 1 /\ Len(ms) \in Nat \ {0} /\ Head(ms) = ms[1]
        /\ \A j \in 1..Len(t) : t[j] = ms[j + 1]
  <2>1. /\ Tail(ms) \in Seq(Messages) /\ Len(Tail(ms)) = Len(ms) - 1 /\ Len(ms) \in Nat \ {0}
        /\ \A j \in 1..Len(Tail(ms)) : Tail(ms)[j] = ms[j + 1]
        /\ Head(ms) = ms[1]
    OBVIOUS
  <2> QED BY <2>1, AfterHead
<1>2. PICK k \in 1..Len(ms) : /\ ms[k] = ClearDirtyFlag
                              /\ After(p, ms)[k].params = settings
                              /\ WidgetsFrom(ms, k)
  BY DEF StateOnItsWay
<1>3. CASE k = 1
  <2>1. After(q, t)[0] = After(p, ms)[1]
    BY <1>1
  <2>2. After(q, t)[0] = q
    BY AfterUnfolds DEF Unfolds
  <2>3. ~Unsaved(q, settings)
    BY <1>2, <1>3, <2>1, <2>2 DEF Unsaved
  <2>4. WidgetsFrom(t, 0)
    BY <1>1, <1>2, <1>3, WidgetsFromTail
  <2> QED BY <1>1, <2>3, <2>4 DEF OnlyEdits
<1>4. CASE k # 1
  <2>1. PICK i \in 1..Len(t) : i + 1 = k
    <3>1. k - 1 \in 1..Len(t) /\ (k - 1) + 1 = k
      BY <1>1, <1>4
    <3> QED BY <3>1
  <2>2. t[i] = ClearDirtyFlag
    BY <1>1, <1>2, <2>1
  <2>3. After(q, t)[i].params = settings
    <3>1. i \in 0..Len(t)
      OBVIOUS
    <3> QED BY <1>1, <1>2, <2>1, <3>1
  <2>4. WidgetsFrom(t, i)
    BY <1>1, <1>2, <2>1, WidgetsFromTail
  <2>5. StateOnItsWay(q, t, settings)
    BY <2>2, <2>3, <2>4 DEF StateOnItsWay
  <2> QED BY <1>1, <2>5
<1> QED BY <1>3, <1>4

(***************************************************************************)
(* An edit that changes its parameter makes Proxy dirty; one that repeats  *)
(* a value leaves what is unsaved, and hides it if Proxy was dirty.        *)
(***************************************************************************)
LEMMA EditTells ==
  ASSUME NEW p \in ParamStates, NEW id \in ParamId, NEW value \in Values, NEW settings
  PROVE  /\ (Unsaved(p, settings) => p.is_dirty \/ p.hides) =>
              LET q == HandleSetParam(p, id, value)
              IN  Unsaved(q, settings) => q.is_dirty \/ q.hides
<1>1. PICK q \in ParamStates : q = HandleSetParam(p, id, value)
  BY DEF HandleSetParam, HandleRefreshParam, ParamStates, Settings
<1>2. /\ q.params = [p.params EXCEPT ![id] = value]
      /\ q.is_dirty = (p.params[id] # value)
      /\ q.hides = (p.hides \/ (p.is_dirty /\ p.params[id] = value))
  BY <1>1 DEF HandleSetParam, HandleRefreshParam, ParamStates, Settings
<1>3. CASE p.params[id] = value
  <2>1. q.params = p.params
    BY <1>2, <1>3 DEF ParamStates, Settings
  <2>2. Unsaved(q, settings) => Unsaved(p, settings)
    BY <2>1 DEF Unsaved
  <2> QED BY <1>1, <1>2, <1>3, <2>2
<1>4. CASE p.params[id] # value
  BY <1>1, <1>2, <1>4
<1> QED BY <1>3, <1>4

LEMMA EditArrives ==
  ASSUME NEW p \in ParamStates, NEW ms \in Seq(Messages), ms # <<>>, NEW settings,
         OnlyEdits(p, ms, settings)
  PROVE  OnlyEdits(ProcessMessage(p, Head(ms)), Tail(ms), settings)
<1>1. 1 \in (0 + 1)..Len(ms) /\ Head(ms) = ms[1] /\ Head(ms) \in Messages
  OBVIOUS
<1>2. PICK m \in Messages : m = Head(ms)
  BY <1>1
<1>3. m.type \in {"REFRESH_PARAM", "SET_PARAM"}
  BY <1>1, <1>2 DEF OnlyEdits, WidgetsFrom
<1>4. WidgetsFrom(ms, 0 + 1)
  BY DEF OnlyEdits, WidgetsFrom
<1>5. WidgetsFrom(Tail(ms), 0)
  BY <1>4, WidgetsFromTail
<1>6. Unsaved(ProcessMessage(p, m), settings) =>
        ProcessMessage(p, m).is_dirty \/ ProcessMessage(p, m).hides
  <2>1. CASE \E id \in ParamId, value \in Values : m = SetParam(id, value)
    <3>1. PICK id \in ParamId, value \in Values : m = SetParam(id, value)
      BY <2>1
    <3>2. ProcessMessage(p, m) = HandleSetParam(p, id, value)
      BY <3>1 DEF ProcessMessage, SetParam
    <3> QED BY <3>2, EditTells DEF OnlyEdits
  <2>2. CASE \E id \in ParamId : m = RefreshParam(id)
    <3>1. PICK id \in ParamId : m = RefreshParam(id)
      BY <2>2
    <3>2. ProcessMessage(p, m) = HandleRefreshParam(p, id)
      BY <3>1 DEF ProcessMessage, RefreshParam
    <3>3. /\ HandleRefreshParam(p, id).params = p.params
          /\ HandleRefreshParam(p, id).is_dirty = p.is_dirty
          /\ HandleRefreshParam(p, id).hides = p.hides
      BY DEF HandleRefreshParam, ParamStates
    <3> QED BY <3>2, <3>3 DEF OnlyEdits, Unsaved
  <2>3. CASE m \in {ClearMessage, ClearDirtyFlag}
    BY <1>3, <2>3 DEF ClearMessage, ClearDirtyFlag
  <2> QED BY <2>1, <2>2, <2>3 DEF Messages
<1> QED BY <1>2, <1>5, <1>6 DEF OnlyEdits

(* No message takes back that a change is hidden. *)
LEMMA HidesForGood ==
  ASSUME NEW p \in ParamStates, NEW m \in Messages, p.hides
  PROVE  ProcessMessage(p, m).hides
<1>1. CASE \E id \in ParamId, value \in Values : m = SetParam(id, value)
  <2>1. PICK id \in ParamId, value \in Values : m = SetParam(id, value)
    BY <1>1
  <2>2. ProcessMessage(p, m) = HandleSetParam(p, id, value)
    BY <2>1 DEF ProcessMessage, SetParam
  <2> QED BY <2>2 DEF HandleSetParam, HandleRefreshParam, ParamStates
<1>2. CASE \E id \in ParamId : m = RefreshParam(id)
  <2>1. PICK id \in ParamId : m = RefreshParam(id)
    BY <1>2
  <2>2. ProcessMessage(p, m) = HandleRefreshParam(p, id)
    BY <2>1 DEF ProcessMessage, RefreshParam
  <2> QED BY <2>2 DEF HandleRefreshParam, ParamStates
<1>3. CASE m = ClearMessage
  BY <1>3 DEF ProcessMessage, ClearMessage, HandleClear
<1>4. CASE m = ClearDirtyFlag
  <2>1. ProcessMessage(p, m) = [p EXCEPT !.is_dirty = FALSE]
    BY <1>4 DEF ProcessMessage, ClearDirtyFlag
  <2> QED BY <2>1 DEF ParamStates
<1> QED BY <1>1, <1>2, <1>3, <1>4 DEF Messages

(* Where messages lead the settings depends on the settings alone. *)
LEMMA StateStaysOnItsWay ==
  ASSUME NEW p \in ParamStates, NEW q \in ParamStates, p.params = q.params,
         NEW ms \in Seq(Messages), NEW settings, StateOnItsWay(p, ms, settings)
  PROVE  StateOnItsWay(q, ms, settings)
<1>1. \A k \in 0..Len(ms) : After(p, ms)[k].params = After(q, ms)[k].params
  BY ParamsIgnoreTheRest
<1>2. \A k \in 1..Len(ms) : k \in 0..Len(ms)
  OBVIOUS
<1> QED BY <1>1, <1>2 DEF StateOnItsWay

(* A widget's message does not hide what is on its way. *)
LEMMA WidgetsMessageArrives ==
  ASSUME NEW p \in ParamStates, NEW ms \in Seq(Messages), NEW m \in Messages, NEW settings,
         m.type \in {"REFRESH_PARAM", "SET_PARAM"}
  PROVE  /\ StateOnItsWay(p, ms, settings) => StateOnItsWay(p, Append(ms, m), settings)
         /\ OnlyEdits(p, ms, settings) => OnlyEdits(p, Append(ms, m), settings)
<1>1. PICK c \in Seq(Messages) :
        /\ c = Append(ms, m) /\ Len(c) = Len(ms) + 1 /\ Len(ms) \in Nat
        /\ \A j \in 1..Len(ms) : c[j] = ms[j]
        /\ \A j \in 0..Len(ms) : After(p, c)[j] = After(p, ms)[j]
  <2>1. PICK more \in Seq(Messages) : more = <<m>>
    <3>1. <<m>> \in Seq(Messages)
      OBVIOUS
    <3> QED BY <3>1
  <2>2. /\ Append(ms, m) \in Seq(Messages) /\ Append(ms, m) = ms \o <<m>>
        /\ Len(Append(ms, m)) = Len(ms) + 1 /\ Len(ms) \in Nat
        /\ \A j \in 1..Len(ms) : Append(ms, m)[j] = ms[j]
    OBVIOUS
  <2>3. \A j \in 0..Len(ms) : After(p, ms \o more)[j] = After(p, ms)[j]
    BY AfterConcat
  <2> QED BY <2>1, <2>2, <2>3
<1>2. ASSUME StateOnItsWay(p, ms, settings) PROVE StateOnItsWay(p, c, settings)
  <2>1. PICK k \in 1..Len(ms) : /\ ms[k] = ClearDirtyFlag
                                /\ After(p, ms)[k].params = settings
                                /\ WidgetsFrom(ms, k)
    BY <1>2 DEF StateOnItsWay
  <2>2. k \in Nat /\ k \in 0..Len(ms) /\ k \in 1..Len(c)
    BY <1>1
  <2>3. WidgetsFrom(c, k)
    BY <1>1, <2>1, <2>2, WidgetsFromAppend
  <2>4. c[k] = ClearDirtyFlag /\ After(p, c)[k].params = settings
    BY <1>1, <2>1, <2>2
  <2> QED BY <2>2, <2>3, <2>4 DEF StateOnItsWay
<1>3. ASSUME OnlyEdits(p, ms, settings) PROVE OnlyEdits(p, c, settings)
  <2>1. WidgetsFrom(ms, 0)
    BY <1>3 DEF OnlyEdits
  <2>2. WidgetsFrom(c, 0)
    BY <1>1, <2>1, WidgetsFromAppend
  <2> QED BY <1>3, <2>2 DEF OnlyEdits
<1> QED BY <1>1, <1>2, <1>3

(* A state that is loaded is on its way, whatever is pending. *)
LEMMA LoadedStateIsOnItsWay ==
  ASSUME NEW p \in ParamStates, NEW ms \in Seq(Messages), NEW settings \in Settings
  PROVE  StateOnItsWay(p, ms \o StateMessages(settings), settings)
<1>1. PICK more \in Seq(Messages) :
        /\ more = StateMessages(settings) /\ more # <<>> /\ more[Len(more)] = ClearDirtyFlag
        /\ \A q \in ParamStates : ProcessMessages(q, more).params = settings
  <2>1. StateMessages(settings) \in Seq(Messages)
    BY StateMessagesRestore
  <2> QED BY <2>1, StateMessagesRestore
<1>2. PICK c \in Seq(Messages) :
        /\ c = ms \o more /\ Len(c) \in Nat \ {0} /\ c[Len(c)] = ClearDirtyFlag
  <2>1. /\ ms \o more \in Seq(Messages) /\ Len(ms \o more) = Len(ms) + Len(more)
        /\ Len(ms) \in Nat /\ Len(more) \in Nat \ {0}
    BY <1>1
  <2>2. (ms \o more)[Len(ms) + Len(more)] = more[Len(more)]
    BY <2>1
  <2>3. /\ Len(ms \o more) \in Nat \ {0}
        /\ (ms \o more)[Len(ms \o more)] = ClearDirtyFlag
    BY <1>1, <2>1, <2>2
  <2> QED BY <2>1, <2>3
<1>3. After(p, c)[Len(c)].params = settings
  <2>1. PICK q \in ParamStates : q = ProcessMessages(p, ms)
    BY ProcessMessagesType
  <2>2. ProcessMessages(p, ms \o more) = ProcessMessages(q, more)
    BY <2>1, ProcessConcat
  <2>3. ProcessMessages(p, c).params = settings
    BY <1>1, <1>2, <2>2
  <2> QED BY <2>3 DEF ProcessMessages
<1>4. WidgetsFrom(c, Len(c))
  BY <1>2 DEF WidgetsFrom
<1>5. Len(c) \in 1..Len(c)
  BY <1>2
<1>6. StateOnItsWay(p, c, settings)
  BY <1>2, <1>3, <1>4, <1>5 DEF StateOnItsWay
<1> QED BY <1>1, <1>2, <1>6

LEMMA InitKnown == Init => ChangesWillBeKnown
<1> SUFFICES ASSUME Init PROVE ChangesWillBeKnown
  OBVIOUS
<1>1. Pending = <<>> /\ px.params = saved
  BY DEF Init, Idle, Pending, FreshParams
<1>2. OnlyEdits(px, Pending, saved)
  BY <1>1 DEF OnlyEdits, Unsaved, WidgetsFrom
<1> QED BY <1>2 DEF ChangesWillBeKnown

(***************************************************************************)
(* A state that was read completely: what changed since a value was read   *)
(* has dirtied Proxy, and a copy that was behind was still learning.       *)
(***************************************************************************)
LEMMA ReadStateIsKnown ==
  ASSUME TypeAndPlaces, CopiesLag(px), ReadChangesWillBeKnown, ChangesWillBeKnown, ReadRatio
  PROVE  ChangesWillBeKnown' /\ ReadChangesWillBeKnown'
<1>1. /\ main.pc = "get_state" /\ main.todo = <<>> /\ messages = <<>>
      /\ main.read \in Seq(Values) /\ Len(main.read) < ParamCount /\ main \in Mains
      /\ px \in ParamStates /\ saved \in Settings
      /\ UNCHANGED <<px, messages, notices, audio>>
  BY DEF ReadRatio, TypeAndPlaces, TypeOK, PlacesOK, Mains
<1>2. \A i \in 1..Len(main.read) : main.read[i] # px.ratios[i] /\ main.read[i] # MidiLearn =>
        notices > 0 \/ px.is_dirty \/ px.hides
  BY <1>1 DEF ReadChangesWillBeKnown
<1>3. /\ Len(main.read) \in Nat /\ Len(main.read) + 1 \in ParamId
      /\ px.ratios[Len(main.read) + 1] \in Values
  BY <1>1, ParamCountAssumption DEF ParamId, ParamStates, Settings
<1>4. PICK value \in Values : value = px.ratios[Len(main.read) + 1]
  BY <1>3
<1>5. PICK read \in Seq(Values) :
        /\ read = Append(main.read, value) /\ Len(read) = Len(main.read) + 1
        /\ \A i \in 1..Len(main.read) : read[i] = main.read[i]
        /\ read[Len(main.read) + 1] = value
  <2>1. /\ Append(main.read, value) \in Seq(Values)
        /\ Len(Append(main.read, value)) = Len(main.read) + 1
        /\ \A i \in 1..Len(main.read) : Append(main.read, value)[i] = main.read[i]
        /\ Append(main.read, value)[Len(main.read) + 1] = value
    BY <1>1
  <2> QED BY <2>1
<1>6. \A i \in 1..Len(read) : read[i] # px.ratios[i] /\ read[i] # MidiLearn =>
                                notices > 0 \/ px.is_dirty \/ px.hides
  <2>1. \A i \in 1..Len(read) : i \in 1..Len(main.read) \/ i = Len(main.read) + 1
    BY <1>3, <1>5
  <2> QED BY <1>2, <1>4, <1>5, <2>1
<1>7. CASE Len(read) < ParamCount
  <2>1. main' = [main EXCEPT !.read = read] /\ saved' = saved /\ is_modified' = is_modified
    BY <1>4, <1>5, <1>7 DEF ReadRatio, Serialize, host_vars
  <2>2. main'.todo = <<>> /\ main'.read = read
    BY <1>1, <2>1 DEF Mains
  <2>3. Pending' = Pending
    BY <1>1, <2>2, QuietPending
  <2>4. ReadChangesWillBeKnown'
    BY <1>1, <1>6, <2>2 DEF ReadChangesWillBeKnown
  <2> QED BY <1>1, <2>1, <2>3, <2>4 DEF ChangesWillBeKnown
<1>8. CASE ~(Len(read) < ParamCount)
  <2>1. main' = Idle /\ saved' = read
    BY <1>4, <1>5, <1>8 DEF ReadRatio, Serialize
  <2>2. Len(read) = ParamCount
    BY <1>1, <1>3, <1>5, <1>8, ParamCountAssumption
  <2>3. main'.todo = <<>> /\ main'.pc = "idle" /\ Pending' = <<>>
    BY <1>1, <2>1 DEF Idle, Pending
  <2>4. Unsaved(px, read) => notices > 0 \/ px.is_dirty \/ px.hides
    <3> SUFFICES ASSUME NEW id \in ParamId, px.params[id] # read[id], read[id] # MidiLearn
                 PROVE  notices > 0 \/ px.is_dirty \/ px.hides
      BY DEF Unsaved
    <3>1. read[id] # px.ratios[id]
      BY DEF CopiesLag
    <3> QED BY <1>6, <2>2, <3>1 DEF ParamId
  <2>5. WidgetsFrom(<<>>, 0)
    BY DEF WidgetsFrom
  <2>6. notices > 0 \/ OnlyEdits(px, <<>>, read)
    BY <2>4, <2>5 DEF OnlyEdits
  <2> QED BY <1>1, <2>1, <2>3, <2>6 DEF ChangesWillBeKnown, ReadChangesWillBeKnown
<1> QED BY <1>7, <1>8

(***************************************************************************)
(* Every step leaves unsaved changes known, or hidden by a message.        *)
(***************************************************************************)
KnownInv ==
  /\ TypeAndPlaces /\ CopiesLag(px)
  /\ ChangesWillBeKnown /\ ReadChangesWillBeKnown

LEMMA NextKnown ==
  KnownInv /\ StateFits /\ [Next]_vars => ChangesWillBeKnown' /\ ReadChangesWillBeKnown'
<1> SUFFICES ASSUME KnownInv, StateFits, [Next]_vars
             PROVE  ChangesWillBeKnown' /\ ReadChangesWillBeKnown'
  OBVIOUS
<1>1. /\ TypeAndPlaces /\ CopiesLag(px) /\ ChangesWillBeKnown /\ ReadChangesWillBeKnown
      /\ px \in ParamStates /\ messages \in Seq(Messages) /\ saved \in Settings
      /\ main.todo \in Seq(Messages) /\ Pending \in Seq(Messages)
      /\ notices \in Nat
  BY PendingType DEF KnownInv, TypeAndPlaces, TypeOK, Mains
<1>2. /\ main.pc = "idle" => main.todo = <<>>
      /\ main.pc = "get_state" => messages = <<>> /\ main.todo = <<>>
      /\ audio.pc = "idle" => ~px.is_dirty
  BY <1>1 DEF TypeAndPlaces, PlacesOK
<1>3. ASSUME Pending' = Pending, UNCHANGED <<px, audio, notices, is_modified, saved>>
      PROVE  ChangesWillBeKnown'
  BY <1>1, <1>3 DEF ChangesWillBeKnown
<1>4. ASSUME main'.pc # "get_state" PROVE ReadChangesWillBeKnown'
  BY <1>4 DEF ReadChangesWillBeKnown
<1>5. ASSUME NEW settings \in Settings, SetState(settings)
      PROVE  ChangesWillBeKnown' /\ ReadChangesWillBeKnown'
  <2>1. /\ Pending' = messages \o StateMessages(settings) /\ px' = px /\ saved' = settings
        /\ main'.pc = "set_state"
    BY <1>1, <1>5, SetStatePending DEF SetState, Idle
  <2>2. StateOnItsWay(px, messages \o StateMessages(settings), settings)
    BY <1>1, LoadedStateIsOnItsWay
  <2> QED BY <1>4, <2>1, <2>2 DEF ChangesWillBeKnown
<1>6. CASE PushNext
  <2>1. main'.pc # "get_state" /\ UNCHANGED <<px, audio, notices, is_modified, saved>>
    <3>1. main.pc = "set_state" /\ main \in Mains
      BY <1>1, <1>6 DEF PushNext, TypeAndPlaces, TypeOK
    <3>2. main' = Idle \/ main' = [main EXCEPT !.todo = Tail(@)]
      BY <1>6 DEF PushNext
    <3>3. main'.pc # "get_state"
      BY <3>1, <3>2 DEF Idle, Mains
    <3> QED BY <1>6, <3>3 DEF PushNext, host_vars
  <2> QED BY <1>1, <1>3, <1>4, <1>6, <2>1, PushNextPending
<1>7. CASE GetState
  <2>1. /\ main' = [Idle EXCEPT !.pc = "get_state"] /\ main.pc = "idle"
        /\ UNCHANGED <<px, messages, audio, notices, is_modified, saved>>
    BY <1>7 DEF GetState, host_vars
  <2>2. main'.todo = <<>> /\ main'.read = <<>> /\ main.todo = <<>>
    BY <1>2, <2>1 DEF Idle
  <2>3. Pending' = Pending
    BY <1>1, <2>1, <2>2, QuietPending
  <2>4. \A i \in 1..Len(main'.read) : FALSE
    BY <2>2
  <2> QED BY <1>3, <2>1, <2>3, <2>4 DEF ReadChangesWillBeKnown
<1>8. CASE ReadRatio
  BY <1>1, <1>8, ReadStateIsKnown
<1>9. ASSUME NEW m \in Messages, PushMessage(m), main.pc = "idle",
             UNCHANGED <<main, px, audio, notices, is_modified, saved>>,
             m.type \in {"REFRESH_PARAM", "SET_PARAM"}
      PROVE  ChangesWillBeKnown' /\ ReadChangesWillBeKnown'
  <2>1. Pending = messages /\ (Pending' = Pending \/ Pending' = Append(Pending, m))
    BY <1>1, <1>9, WidgetPending
  <2>2. CASE Pending' = Pending
    BY <1>3, <1>4, <1>9, <2>2
  <2>3. CASE Pending' = Append(Pending, m)
    <3>1. /\ StateOnItsWay(px, Pending, saved) => StateOnItsWay(px, Append(Pending, m), saved)
          /\ OnlyEdits(px, Pending, saved) => OnlyEdits(px, Append(Pending, m), saved)
      BY <1>1, <1>9, <2>1, WidgetsMessageArrives
    <3>2. ChangesWillBeKnown'
      BY <1>1, <1>9, <2>3, <3>1 DEF ChangesWillBeKnown
    <3> QED BY <1>4, <1>9, <3>2
  <2> QED BY <2>1, <2>2, <2>3
<1>10. ASSUME NEW id \in ParamId, NEW value \in Values, TurnWidget(id, value)
       PROVE  ChangesWillBeKnown' /\ ReadChangesWillBeKnown'
  <2>1. PICK m \in Messages : m = SetParam(id, value) /\ m.type = "SET_PARAM"
    <3>1. SetParam(id, value) \in Messages /\ SetParam(id, value).type = "SET_PARAM"
      BY DEF Messages, SetParam
    <3> QED BY <3>1
  <2> QED BY <1>9, <1>10, <2>1 DEF TurnWidget, host_vars
<1>11. ASSUME NEW id \in ParamId, RefreshWidget(id)
       PROVE  ChangesWillBeKnown' /\ ReadChangesWillBeKnown'
  <2>1. PICK m \in Messages : m = RefreshParam(id) /\ m.type = "REFRESH_PARAM"
    <3>1. RefreshParam(id) \in Messages /\ RefreshParam(id).type = "REFRESH_PARAM"
      BY DEF Messages, RefreshParam
    <3> QED BY <3>1
  <2> QED BY <1>9, <1>11, <2>1 DEF RefreshWidget, host_vars
<1>12. CASE Notify
  <2>1. is_modified' = TRUE /\ main'.pc # "get_state"
    BY <1>12 DEF Notify
  <2> QED BY <1>4, <2>1 DEF ChangesWillBeKnown
<1>13. CASE Process \/ StartEvents
  <2>1. /\ UNCHANGED <<px, messages, main, notices, is_modified, saved>>
        /\ audio.pc # "events"
    BY <1>13 DEF Process, StartEvents, host_vars
  <2>2. Pending' = Pending
    BY <2>1 DEF Pending
  <2> QED BY <1>1, <2>1, <2>2 DEF ChangesWillBeKnown, ReadChangesWillBeKnown
<1>14. CASE ProcessNextMessage
  <2>1. /\ Pending # <<>> /\ px' = ProcessMessage(px, Head(Pending))
        /\ Pending' = Tail(Pending)
    BY <1>1, <1>14, ProcessNextPending
  <2>2. /\ UNCHANGED <<main, notices, is_modified, saved>> /\ audio.pc = "messages"
        /\ main.pc # "get_state"
    <3>1. audio.left > 0 /\ audio.left <= Len(messages) /\ audio.left \in Nat
      BY <1>1, <1>14 DEF ProcessNextMessage, TypeAndPlaces, TypeOK, PlacesOK
    <3>2. messages # <<>>
      BY <1>1, <3>1
    <3> QED BY <1>2, <1>14, <3>2 DEF ProcessNextMessage, host_vars
  <2>3. PICK ms \in Seq(Messages) : ms = Pending
    BY <1>1
  <2>4. StateOnItsWay(px, ms, saved) =>
          \/ StateOnItsWay(ProcessMessage(px, Head(ms)), Tail(ms), saved)
          \/ OnlyEdits(ProcessMessage(px, Head(ms)), Tail(ms), saved)
    BY <1>1, <2>1, <2>3, StateArrives
  <2>5. OnlyEdits(px, ms, saved) => OnlyEdits(ProcessMessage(px, Head(ms)), Tail(ms), saved)
    BY <1>1, <2>1, <2>3, EditArrives
  <2>6. px.hides => px'.hides
    <3>1. Head(ms) \in Messages
      BY <2>1, <2>3
    <3> QED BY <1>1, <2>1, <2>3, <3>1, HidesForGood
  <2>7. ChangesWillBeKnown'
    BY <1>1, <2>1, <2>2, <2>3, <2>4, <2>5, <2>6 DEF ChangesWillBeKnown
  <2> QED BY <1>4, <2>2, <2>7
<1>15. ASSUME audio.pc = "events", px'.is_dirty = TRUE, UNCHANGED <<audio, main>>
       PROVE  ChangesWillBeKnown' /\ ReadChangesWillBeKnown'
  BY <1>15 DEF ChangesWillBeKnown, ReadChangesWillBeKnown
<1>16. ASSUME NEW id \in ParamId, NEW value \in Values, Automate(id, value)
       PROVE  ChangesWillBeKnown' /\ ReadChangesWillBeKnown'
  <2>1. /\ px' = HandleSetParam(px, id, value) /\ audio.pc = "events"
        /\ UNCHANGED <<messages, main, audio, notices, is_modified, saved>>
    BY <1>16 DEF Automate, host_vars
  <2>2. /\ px'.params = [px.params EXCEPT ![id] = value]
        /\ px'.ratios = [px.ratios EXCEPT ![id] = value]
        /\ px'.is_dirty = (px.params[id] # value)
        /\ px'.hides = (px.hides \/ (px.is_dirty /\ px.params[id] = value))
    BY <1>1, <2>1 DEF HandleSetParam, HandleRefreshParam, ParamStates, Settings
  <2>3. CASE px.params[id] # value
    BY <1>15, <2>1, <2>2, <2>3
  <2>4. CASE px.params[id] = value
    <3>1. px'.params = px.params /\ Pending' = Pending
      BY <1>1, <2>1, <2>2, <2>4 DEF ParamStates, Settings, Pending
    <3>2. px.is_dirty \/ px.hides => px'.hides
      BY <2>2, <2>4
    <3>3. ReadChangesWillBeKnown'
      <4> SUFFICES ASSUME main.pc = "get_state", NEW i \in 1..Len(main.read),
                          main.read[i] # px'.ratios[i], main.read[i] # MidiLearn
                   PROVE  notices > 0 \/ px'.hides
        BY <2>1 DEF ReadChangesWillBeKnown
      <4>1. i \in ParamId /\ px.ratios[i] \in {px.params[i], MidiLearn}
        <5>1. main.read \in Seq(Values) /\ Len(main.read) < ParamCount /\ Len(main.read) \in Nat
          BY <1>1 DEF TypeAndPlaces, TypeOK, PlacesOK, Mains
        <5>2. i \in ParamId
          BY <5>1, ParamCountAssumption DEF ParamId
        <5> QED BY <1>1, <5>2 DEF CopiesLag
      <4>2. px'.ratios[i] = IF i = id THEN value ELSE px.ratios[i]
        BY <1>1, <2>2, <4>1 DEF ParamStates, Settings
      <4>3. main.read[i] # px.ratios[i]
        BY <2>4, <4>1, <4>2
      <4> QED BY <1>1, <3>2, <4>3 DEF ReadChangesWillBeKnown
    <3>4. CASE px.is_dirty \/ px.hides
      BY <3>2, <3>3, <3>4 DEF ChangesWillBeKnown
    <3>5. CASE ~px.is_dirty /\ ~px.hides
      <4>1. StateOnItsWay(px, Pending, saved) => StateOnItsWay(px', Pending, saved)
        <5>1. PICK q \in ParamStates : q = px'
          BY <1>1, <2>1, AutomateIsAMessage, ProcessMessageType
        <5>2. px.params = q.params
          BY <3>1, <5>1
        <5>3. StateOnItsWay(px, Pending, saved) => StateOnItsWay(q, Pending, saved)
          BY <1>1, <5>2, StateStaysOnItsWay
        <5> QED BY <5>1, <5>3
      <4>2. OnlyEdits(px, Pending, saved) => OnlyEdits(px', Pending, saved)
        BY <3>1, <3>5 DEF OnlyEdits, Unsaved
      <4>3. ChangesWillBeKnown'
        BY <1>1, <2>1, <3>1, <3>5, <4>1, <4>2 DEF ChangesWillBeKnown
      <4> QED BY <3>3, <4>3
    <3> QED BY <1>1, <3>4, <3>5
  <2> QED BY <2>3, <2>4
<1>17. ASSUME NEW value \in Values, Learn(value)
       PROVE  ChangesWillBeKnown' /\ ReadChangesWillBeKnown'
  BY <1>1, <1>15, <1>17, LearnSteps DEF Learn
<1>18. CASE FinishProcess
  <2>1. UNCHANGED <<messages, main, is_modified, saved>>
    BY <1>18 DEF FinishProcess, host_vars
  <2>2. Pending' = Pending
    BY <2>1 DEF Pending
  <2>3. CASE px.is_dirty
    <3>1. notices' > 0
      BY <1>1, <1>18, <2>3, FlagIsTaken
    <3> QED BY <3>1 DEF ChangesWillBeKnown, ReadChangesWillBeKnown
  <2>4. CASE ~px.is_dirty
    <3>1. px' = px /\ notices' = notices
      BY <1>1, <1>18, <2>4, FlagIsTaken
    <3> QED BY <1>1, <2>1, <2>2, <2>4, <3>1 DEF ChangesWillBeKnown, ReadChangesWillBeKnown
  <2> QED BY <2>3, <2>4
<1>19. CASE UNCHANGED vars
  <2>1. UNCHANGED <<px, messages, main, audio, notices, is_modified, saved>>
    BY <1>19 DEF vars
  <2>2. Pending' = Pending
    BY <2>1 DEF Pending
  <2> QED BY <1>1, <2>1, <2>2 DEF ChangesWillBeKnown, ReadChangesWillBeKnown
<1> QED BY <1>5, <1>6, <1>7, <1>8, <1>10, <1>11, <1>12, <1>13, <1>14, <1>16, <1>17, <1>18,
           <1>19 DEF Next, MainNext, AudioNext

(***************************************************************************)
(* The host knows of every change that was not saved, or hears of it in    *)
(* time: however edits of widgets, automation and MIDI Learn interleave    *)
(* with states that are loaded and saved in the middle of a block, and     *)
(* whether or not they change anything.  What keeps a change from the host *)
(* is only an edit that repeats a value while Proxy is dirty, since        *)
(* handle_set_param then assigns FALSE to the dirty flag; and a queue too  *)
(* full for a state, which is assumed not to happen.                       *)
(***************************************************************************)
THEOREM ChangesAreKnown == Spec /\ []StateFits => []OnlyRepeatsHideChanges
<1>1. KnownInv => OnlyRepeatsHideChanges
  <2> SUFFICES ASSUME KnownInv, Quiet, Unsaved(px, saved), ~px.hides PROVE is_modified
    BY DEF OnlyRepeatsHideChanges, IsUnsaved, Unsaved
  <2>1. Pending = <<>> /\ notices = 0 /\ audio.pc = "idle" /\ ~px.is_dirty
    BY DEF KnownInv, Quiet, Pending, TypeAndPlaces, PlacesOK
  <2>2. ~StateOnItsWay(px, Pending, saved)
    BY <2>1 DEF StateOnItsWay
  <2>3. ~OnlyEdits(px, Pending, saved)
    BY <2>1 DEF OnlyEdits
  <2> QED BY <2>1, <2>2, <2>3 DEF KnownInv, ChangesWillBeKnown
<1>2. Init => KnownInv
  <2> SUFFICES ASSUME Init PROVE KnownInv
    OBVIOUS
  <2>1. CopiesLag(px) /\ main.pc = "idle"
    BY DEF Init, FreshParams, CopiesLag, Idle
  <2>2. ReadChangesWillBeKnown
    BY <2>1 DEF ReadChangesWillBeKnown
  <2> QED BY <2>1, <2>2, InitTypeAndPlaces, InitKnown DEF KnownInv
<1>3. KnownInv /\ StateFits /\ [Next]_vars => KnownInv'
  <2> SUFFICES ASSUME KnownInv, StateFits, [Next]_vars PROVE KnownInv'
    OBVIOUS
  <2>1. TypeAndPlaces /\ CopiesLag(px)
    BY DEF KnownInv
  <2>2. TypeAndPlaces' /\ CopiesLag(px)'
    BY <2>1, NextTypeAndPlaces, NextCopiesLag
  <2>3. ChangesWillBeKnown' /\ ReadChangesWillBeKnown'
    BY NextKnown
  <2> QED BY <2>2, <2>3 DEF KnownInv
<1> QED BY <1>1, <1>2, <1>3, PTL DEF Spec

-----------------------------------------------------------------------------
(* A queue in which everything fits. *)

\* the messages of a state: a clear, the settings, and the end
LEMMA StateMessagesLength ==
  ASSUME NEW settings \in Settings
  PROVE  Len(StateMessages(settings)) \in 0..(ParamCount + 2)
<1>1. PICK l : Lists(l, settings) /\ NonDefaultSettings(settings) = l[ParamCount]
  BY SettingsAreListed
<1>2. /\ ParamCount \in Nat \ {0} /\ ParamId = 1..ParamCount
      /\ \A k \in 0..ParamCount : l[k] \in Seq(Messages)
  BY <1>1, ParamCountAssumption DEF ParamId, Lists
<1> DEFINE W == {k \in 0..ParamCount : Len(l[k]) \in 0..k}
<1>3. 0 \in W
  BY <1>1, <1>2 DEF Lists
<1>4. ASSUME NEW k \in 1..ParamCount, k - 1 \in W PROVE k \in W
  <2>1. /\ k \in ParamId /\ k \in 0..ParamCount /\ l[k - 1] \in Seq(Messages)
        /\ Len(l[k - 1]) \in 0..(k - 1)
    BY <1>2, <1>4
  <2>2. SetParam(k, settings[k]) \in Messages
    BY <2>1 DEF Settings, Messages
  <2>3. Len(l[k]) = Len(l[k - 1]) \/ Len(l[k]) = Len(l[k - 1]) + 1
    <3>1. CASE settings[k] = DefaultValue
      BY <1>1, <2>1, <3>1 DEF Lists
    <3>2. CASE settings[k] # DefaultValue
      <4>1. l[k] = Append(l[k - 1], SetParam(k, settings[k]))
        BY <1>1, <2>1, <3>2 DEF Lists
      <4>2. \A s \in Seq(Messages), m \in Messages : Len(Append(s, m)) = Len(s) + 1
        OBVIOUS
      <4> QED BY <2>1, <2>2, <4>1, <4>2
    <3> QED BY <3>1, <3>2
  <2> QED BY <2>1, <2>3
<1>5. ParamCount \in W
  <2>1. \A k \in 0..ParamCount : k \in W
    <3> HIDE DEF W
    <3> QED BY <1>2, <1>3, <1>4, InductionUpTo
  <2>2. ParamCount \in 0..ParamCount
    BY <1>2
  <2> HIDE DEF W
  <2> QED BY <2>1, <2>2
<1>6. PICK ms \in Seq(Messages) : ms = NonDefaultSettings(settings) /\ Len(ms) \in 0..ParamCount
  BY <1>1, <1>2, <1>5
<1>7. StateMessages(settings) = (<<ClearMessage>> \o ms) \o <<ClearDirtyFlag>>
  BY <1>6 DEF StateMessages, ImportMessages
<1>8. ClearMessage \in Messages /\ ClearDirtyFlag \in Messages
  BY DEF Messages
<1>9. Len((<<ClearMessage>> \o ms) \o <<ClearDirtyFlag>>) = Len(ms) + 2
  BY <1>8
<1> QED BY <1>2, <1>6, <1>7, <1>9

\* every call pushes at most the messages of a state
MessagesCounted == Len(messages) + Len(main.todo) <= calls * (ParamCount + 2)

LEMMA NextMessagesCounted ==
  TypeAndPlaces /\ MessagesCounted /\ [Next]_vars => MessagesCounted'
<1> SUFFICES ASSUME TypeAndPlaces, MessagesCounted, [Next]_vars PROVE MessagesCounted'
  OBVIOUS
<1> DEFINE K == ParamCount + 2
<1>1. /\ messages \in Seq(Messages) /\ main.todo \in Seq(Messages) /\ main \in Mains
      /\ Len(messages) \in Nat /\ Len(main.todo) \in Nat /\ calls \in Nat /\ K \in Nat
      /\ Len(messages) <= QueueCapacity /\ px \in ParamStates
  BY ParamCountAssumption DEF TypeAndPlaces, TypeOK, Mains
<1>2. /\ Len(messages) + Len(main.todo) <= calls * K /\ calls * K \in Nat
      /\ (calls + 1) * K = calls * K + K /\ K >= 1
  BY <1>1, ParamCountAssumption DEF MessagesCounted
<1>3. /\ main.pc = "idle" => main.todo = <<>>
      /\ main.pc = "set_state" => main.todo # <<>>
      /\ main.pc = "get_state" => main.todo = <<>>
  BY DEF TypeAndPlaces, PlacesOK
<1> HIDE DEF K
<1>4. ASSUME Len(messages') + Len(main'.todo) <= calls' * K PROVE MessagesCounted'
  BY <1>4 DEF MessagesCounted, K
<1>5. ASSUME UNCHANGED <<main, calls>>, Len(messages') \in Nat, Len(messages') <= Len(messages)
      PROVE  MessagesCounted'
  BY <1>1, <1>2, <1>4, <1>5
<1>6. ASSUME NEW settings \in Settings, SetState(settings) PROVE MessagesCounted'
  <2>1. /\ messages' = messages /\ main.pc = "idle" /\ calls' = calls + 1
        /\ main'.todo = StateMessages(settings)
    BY <1>6 DEF SetState, Count, Idle
  <2>2. Len(StateMessages(settings)) \in 0..K
    BY StateMessagesLength DEF K
  <2>3. main.todo = <<>> /\ Len(main.todo) = 0
    BY <1>3, <2>1
  <2> QED BY <1>1, <1>2, <1>4, <2>1, <2>2, <2>3
<1>7. CASE PushNext
  <2>1. /\ main.todo # <<>> /\ PushMessage(Head(main.todo)) /\ calls' = calls
        /\ main' = IF Len(main.todo) = 1 THEN Idle ELSE [main EXCEPT !.todo = Tail(@)]
    BY <1>3, <1>7 DEF PushNext
  <2>2. Head(main.todo) \in Messages /\ Len(Tail(main.todo)) = Len(main.todo) - 1
    BY <1>1, <2>1
  <2>3. Len(main'.todo) = Len(main.todo) - 1
    <3>1. CASE Len(main.todo) = 1
      <4>1. main' = Idle
        BY <2>1, <3>1
      <4>2. main'.todo = <<>>
        BY <4>1 DEF Idle
      <4> QED BY <3>1, <4>2
    <3>2. CASE Len(main.todo) # 1
      <4>1. main' = [main EXCEPT !.todo = Tail(main.todo)]
        BY <2>1, <3>2
      <4> QED BY <1>1, <2>2, <4>1 DEF Mains
    <3> QED BY <3>1, <3>2
  <2>4. messages' = messages \/ messages' = Append(messages, Head(main.todo))
    BY <1>1, <2>1, <2>2, PushMessageType
  <2>5. Len(messages') = Len(messages) \/ Len(messages') = Len(messages) + 1
    BY <1>1, <2>2, <2>4
  <2>6. Len(messages') + Len(main'.todo) <= Len(messages) + Len(main.todo)
    BY <1>1, <2>3, <2>5
  <2>7. Len(messages') \in Nat /\ Len(main'.todo) \in Nat
    <3>1. Len(main.todo) # 0
      BY <1>1, <2>1
    <3> QED BY <1>1, <2>3, <2>5, <3>1
  <2>8. Len(messages') + Len(main'.todo) <= calls * K
    BY <1>1, <1>2, <2>6, <2>7
  <2> QED BY <1>4, <2>1, <2>8
<1>8. CASE GetState \/ ReadRatio
  <2>1. /\ messages' = messages /\ main'.todo = <<>> /\ main.todo = <<>>
        /\ calls' = calls \/ calls' = calls + 1
    <3>1. CASE GetState
      BY <1>3, <3>1 DEF GetState, Count, Idle
    <3>2. CASE ReadRatio
      <4>1. main.pc = "get_state" /\ main.todo = <<>> /\ messages' = messages /\ calls' = calls
        BY <1>3, <3>2 DEF ReadRatio
      <4>2. \/ main' = Idle
            \/ main' = [main EXCEPT !.read = Append(main.read, Serialize(px)[Len(main.read) + 1])]
        BY <3>2 DEF ReadRatio
      <4> QED BY <1>1, <4>1, <4>2 DEF Idle, Mains
    <3> QED BY <1>8, <3>1, <3>2
  <2> QED BY <1>1, <1>2, <1>4, <2>1
<1>9. ASSUME NEW m \in Messages, PushMessage(m), UNCHANGED main, calls' = calls + 1
      PROVE  MessagesCounted'
  <2>1. messages' = messages \/ messages' = Append(messages, m)
    BY <1>1, <1>9, PushMessageType
  <2>2. Len(messages') = Len(messages) \/ Len(messages') = Len(messages) + 1
    BY <1>1, <2>1
  <2> QED BY <1>1, <1>2, <1>4, <1>9, <2>2
<1>10. ASSUME NEW id \in ParamId, NEW value \in Values, TurnWidget(id, value)
       PROVE  MessagesCounted'
  <2>1. SetParam(id, value) \in Messages
    BY DEF Messages
  <2> QED BY <1>9, <1>10, <2>1 DEF TurnWidget, Count
<1>11. ASSUME NEW id \in ParamId, RefreshWidget(id) PROVE MessagesCounted'
  <2>1. RefreshParam(id) \in Messages
    BY DEF Messages
  <2> QED BY <1>9, <1>11, <2>1 DEF RefreshWidget, Count
<1>12. CASE ProcessNextMessage
  <2>1. audio.left > 0 /\ audio.left <= Len(messages) /\ audio.left \in Nat
    BY <1>12 DEF ProcessNextMessage, TypeAndPlaces, TypeOK, PlacesOK
  <2>2. Len(Tail(messages)) = Len(messages) - 1 /\ Len(Tail(messages)) \in Nat
    BY <1>1, <2>1
  <2> QED BY <1>1, <1>5, <1>12, <2>2 DEF ProcessNextMessage
<1>13. ASSUME UNCHANGED <<messages, main>>, calls' = calls \/ calls' = calls + 1
       PROVE  MessagesCounted'
  BY <1>1, <1>2, <1>4, <1>13
<1>14. CASE Notify \/ Process \/ StartEvents \/ FinishProcess \/ UNCHANGED vars
  BY <1>13, <1>14 DEF Notify, Process, StartEvents, FinishProcess, vars
<1>15. ASSUME NEW id \in ParamId, NEW value \in Values, Automate(id, value) PROVE MessagesCounted'
  BY <1>13, <1>15 DEF Automate, Count
<1>16. ASSUME NEW value \in Values, Learn(value) PROVE MessagesCounted'
  BY <1>13, <1>16 DEF Learn, Count
<1> QED BY <1>6, <1>7, <1>8, <1>10, <1>11, <1>12, <1>14, <1>15, <1>16
        DEF Next, MainNext, AudioNext

(***************************************************************************)
(* A queue that takes the messages of as many states as there are calls is *)
(* large enough for the two theorems above: it never drops a message.      *)
(***************************************************************************)
THEOREM LargeQueueIsNeverFull ==
  ASSUME QueueCapacity >= MaxCalls * (ParamCount + 2)
  PROVE  Spec => []StateFits
<1>1. Init => MessagesCounted
  <2> SUFFICES ASSUME Init PROVE MessagesCounted
    OBVIOUS
  <2>1. messages = <<>> /\ main.todo = <<>> /\ calls = 0
    BY DEF Init, Idle
  <2> QED BY <2>1, ParamCountAssumption DEF MessagesCounted
<1>2. TypeAndPlaces /\ MessagesCounted => StateFits
  <2> SUFFICES ASSUME TypeAndPlaces, MessagesCounted, main.pc = "set_state"
               PROVE  Len(messages) < QueueCapacity
    BY DEF StateFits
  <2>1. /\ messages \in Seq(Messages) /\ main.todo \in Seq(Messages) /\ main.todo # <<>>
        /\ calls \in 0..MaxCalls
    BY DEF TypeAndPlaces, TypeOK, PlacesOK, Mains
  <2>2. Len(messages) \in Nat /\ Len(main.todo) \in Nat \ {0}
    BY <2>1
  <2>3. calls * (ParamCount + 2) <= MaxCalls * (ParamCount + 2)
    BY <2>1, ParamCountAssumption, MaxCallsAssumption
  <2> QED BY <2>1, <2>2, <2>3, ParamCountAssumption, MaxCallsAssumption,
             QueueCapacityAssumption DEF MessagesCounted
<1> QED BY <1>1, <1>2, InitTypeAndPlaces, NextTypeAndPlaces, NextMessagesCounted, PTL DEF Spec
-----------------------------------------------------------------------------
(* Events in time. *)

\* what Proxy sends, with the offset of the event that causes it
OutEvents ==
  [type : {"controller"}, note : Note, value : Level, offset : Nat, pre : BOOLEAN]
    \cup [type : {"on", "off"}, note : Note, offset : Nat]

InEvents(last) == NoteEvents(last) \cup Points(last)

ProxyStates ==
  {p \in [held : Seq(Note), out : Seq(OutEvents)] : Unique(p.held)}

\* what is sent is sent in time, and not after off
InTime(out, off) ==
  \A i \in 1..Len(out) :
    out[i].offset <= off /\ \A j \in 1..i : out[j].offset <= out[i].offset

\* set-ups, apart from those of the notes in open, are followed by controllers
\* that are none
Overwritten(out, open) ==
  \A i \in 1..Len(out) :
    out[i].type = "controller" /\ out[i].pre /\ out[i].note \notin open =>
      \E j \in (i + 1)..Len(out) :
        out[j].type = "controller" /\ ~out[j].pre /\ out[j].note = out[i].note

\* whether n sounds after out
Heard(out, n, before) ==
  LET own == TonesOf(out, n)
  IN  IF own = {} THEN n \in before ELSE out[Max(own)].type = "on"

LEMMA LatestIs ==
  ASSUME NEW events, NEW among, NEW i \in among, i \in Int,
         \A j \in among : j \in Int /\ events[j].offset \in Int,
         \A j \in among \ {i} : Earlier(events, j, i)
  PROVE  Latest(events, among) = i
<1>1. Latest(events, among) \in among
      /\ \A j \in among \ {Latest(events, among)} : Earlier(events, j, Latest(events, among))
  BY DEF Latest
<1>2. ASSUME NEW k \in among, k # i, Earlier(events, i, k) PROVE FALSE
  <2>1. Earlier(events, k, i) /\ k \in Int /\ events[k].offset \in Int /\ events[i].offset \in Int
    BY <1>2
  <2> QED BY <1>2, <2>1 DEF Earlier
<1> QED BY <1>1, <1>2

LEMMA OutEventFields ==
  ASSUME NEW e \in OutEvents
  PROVE  /\ e.type \in {"controller", "on", "off"} /\ e.note \in Note /\ e.offset \in Nat
         /\ e.type = "controller" => e.pre \in BOOLEAN /\ e.value \in Level
  BY DEF OutEvents

LEMMA SentInTime ==
  ASSUME NEW out \in Seq(OutEvents), NEW e \in OutEvents, NEW off \in Nat,
         InTime(out, off), e.offset = off
  PROVE  InTime(Append(out, e), off)
<1> DEFINE t == Append(out, e)
<1>1. /\ Len(t) = Len(out) + 1 /\ Len(out) \in Nat
      /\ t[Len(out) + 1] = e /\ \A i \in 1..Len(out) : t[i] = out[i]
  OBVIOUS
<1> HIDE DEF t
<1>2. ASSUME NEW i \in 1..Len(t)
      PROVE  t[i].offset <= off /\ \A j \in 1..i : t[j].offset <= t[i].offset
  <2>1. CASE i \in 1..Len(out)
    <3>1. \A j \in 1..i : j \in 1..Len(out)
      BY <1>1, <2>1
    <3> QED BY <1>1, <2>1, <3>1 DEF InTime
  <2>2. CASE i = Len(out) + 1
    <3>1. ASSUME NEW j \in 1..i PROVE t[j].offset <= off
      <4>1. j \in 1..Len(out) \/ j = i
        BY <1>1, <2>2
      <4> QED BY <1>1, <2>2, <4>1 DEF InTime
    <3> QED BY <1>1, <2>2, <3>1
  <2> QED BY <1>1, <2>1, <2>2
<1> QED BY <1>2 DEF InTime, t

\* which notes are being set up after e
OpenAfter(open, e) ==
  IF e.type # "controller" THEN open
  ELSE IF e.pre THEN open \cup {e.note} ELSE open \ {e.note}

LEMMA SentOverwrites ==
  ASSUME NEW out \in Seq(OutEvents), NEW e \in OutEvents, NEW open, Overwritten(out, open)
  PROVE  Overwritten(Append(out, e), OpenAfter(open, e))
<1> DEFINE t == Append(out, e)
<1>1. /\ Len(t) = Len(out) + 1 /\ Len(out) \in Nat
      /\ t[Len(out) + 1] = e /\ \A i \in 1..Len(out) : t[i] = out[i]
  OBVIOUS
<1> HIDE DEF t
<1>2. ASSUME NEW i \in 1..Len(t), t[i].type = "controller", t[i].pre,
             t[i].note \notin OpenAfter(open, e)
      PROVE  \E j \in (i + 1)..Len(t) :
               t[j].type = "controller" /\ ~t[j].pre /\ t[j].note = t[i].note
  <2>1. i # Len(out) + 1
    BY <1>1, <1>2 DEF OpenAfter
  <2>2. i \in 1..Len(out) /\ t[i] = out[i]
    BY <1>1, <2>1
  <2>3. CASE out[i].note \in open
    <3>1. e.type = "controller" /\ ~e.pre /\ e.note = t[i].note
      BY <1>2, <2>2, <2>3 DEF OpenAfter
    <3>2. Len(out) + 1 \in (i + 1)..Len(t)
      BY <1>1, <2>2
    <3> QED BY <1>1, <3>1, <3>2
  <2>4. CASE out[i].note \notin open
    <3>1. PICK j \in (i + 1)..Len(out) :
            out[j].type = "controller" /\ ~out[j].pre /\ out[j].note = out[i].note
      BY <1>2, <2>2, <2>4 DEF Overwritten
    <3>2. j \in (i + 1)..Len(t) /\ j \in 1..Len(out)
      BY <1>1, <2>2
    <3> QED BY <1>1, <2>2, <3>1, <3>2
  <2> QED BY <2>3, <2>4
<1> QED BY <1>2 DEF Overwritten, t

LEMMA SentIsHeard ==
  ASSUME NEW out \in Seq(OutEvents), NEW e \in OutEvents, NEW n, NEW before
  PROVE  Heard(Append(out, e), n, before) <=>
           IF e.type # "controller" /\ e.note = n THEN e.type = "on" ELSE Heard(out, n, before)
<1> DEFINE t == Append(out, e)
           old == TonesOf(out, n)
           own == TonesOf(t, n)
<1>1. /\ Len(t) = Len(out) + 1 /\ Len(out) \in Nat
      /\ t[Len(out) + 1] = e /\ \A i \in 1..Len(out) : t[i] = out[i]
      /\ DOMAIN t = 1..(Len(out) + 1) /\ DOMAIN out = 1..Len(out)
  OBVIOUS
<1>2. own = old \cup (IF e.type # "controller" /\ e.note = n THEN {Len(out) + 1} ELSE {})
  <2> HIDE DEF t
  <2> QED BY <1>1 DEF TonesOf
<1>3. old \subseteq 1..Len(out)
  BY <1>1 DEF TonesOf
<1>4. /\ Heard(t, n, before) <=> IF own = {} THEN n \in before ELSE t[Max(own)].type = "on"
      /\ Heard(out, n, before) <=> IF old = {} THEN n \in before ELSE out[Max(old)].type = "on"
  BY DEF Heard
<1> HIDE DEF t, own, old
<1>5. CASE e.type # "controller" /\ e.note = n
  <2>1. own \in SUBSET Int /\ Len(out) + 1 \in own /\ \A y \in own : y =< Len(out) + 1
    <3>1. own = old \cup {Len(out) + 1}
      BY <1>2, <1>5
    <3>2. \A y \in old : y \in Int /\ y =< Len(out) + 1
      BY <1>1, <1>3
    <3> QED BY <1>1, <3>1, <3>2
  <2>2. Max(own) = Len(out) + 1
    BY <2>1, MaxIs
  <2> QED BY <1>1, <1>4, <1>5, <2>1, <2>2 DEF t
<1>6. CASE ~(e.type # "controller" /\ e.note = n)
  <2>1. own = old
    BY <1>2, <1>6
  <2>2. old # {} => Max(old) \in 1..Len(out)
    <3>1. old \in SUBSET (0..Len(out)) /\ Len(out) \in Nat
      BY <1>1, <1>3
    <3> QED BY <1>3, <3>1, MaxInRange
  <2>3. Heard(t, n, before) <=> Heard(out, n, before)
    BY <1>1, <1>4, <2>1, <2>2
  <2> QED BY <1>6, <2>3 DEF t
<1> QED BY <1>5, <1>6

-----------------------------------------------------------------------------
(* Proxy, message by message. *)

(***************************************************************************)
(* What was sent so far is in time and leaves the notes in tones sounding; *)
(* only the notes in open are being set up.                                *)
(***************************************************************************)
Balanced(p, off, open, tones, before) ==
  /\ p \in ProxyStates
  /\ InTime(p.out, off)
  /\ Overwritten(p.out, open)
  /\ \A n \in Note : n \in tones <=> Heard(p.out, n, before)

\* which notes sound after e
OnAfter(tones, e) ==
  CASE e.type = "on"  -> tones \cup {e.note}
    [] e.type = "off" -> tones \ {e.note}
    [] OTHER          -> tones

LEMMA ProxyFields ==
  ASSUME NEW p \in ProxyStates
  PROVE  /\ p.held \in Seq(Note) /\ p.out \in Seq(OutEvents) /\ Unique(p.held)
         /\ p = [held |-> p.held, out |-> p.out]
  BY DEF ProxyStates

LEMMA SendKeeps ==
  ASSUME NEW p \in ProxyStates, NEW e \in OutEvents
  PROVE  /\ Send(p, e) \in ProxyStates
         /\ Send(p, e).held = p.held /\ Send(p, e).out = Append(p.out, e)
<1>1. p.held \in Seq(Note) /\ p.out \in Seq(OutEvents) /\ Unique(p.held)
      /\ p \in [held : Seq(Note), out : Seq(OutEvents)]
  BY DEF ProxyStates
<1>2. Append(p.out, e) \in Seq(OutEvents)
  BY <1>1
<1>3. Send(p, e) = [p EXCEPT !.out = Append(p.out, e)]
  BY DEF Send
<1>4. /\ Send(p, e) \in [held : Seq(Note), out : Seq(OutEvents)]
      /\ Send(p, e).held = p.held /\ Send(p, e).out = Append(p.out, e)
  BY <1>1, <1>2, <1>3
<1> QED BY <1>1, <1>4 DEF ProxyStates

LEMMA SendBalances ==
  ASSUME NEW p, NEW e \in OutEvents, NEW off \in Nat, NEW open, NEW tones, NEW before,
         Balanced(p, off, open, tones, before), e.offset = off
  PROVE  Balanced(Send(p, e), off, OpenAfter(open, e), OnAfter(tones, e), before)
<1>1. p \in ProxyStates /\ p.out \in Seq(OutEvents)
  BY ProxyFields DEF Balanced
<1>2. Send(p, e) \in ProxyStates /\ Send(p, e).out = Append(p.out, e)
  BY <1>1, SendKeeps
<1>3. InTime(Append(p.out, e), off)
  BY <1>1, SentInTime DEF Balanced
<1>4. Overwritten(Append(p.out, e), OpenAfter(open, e))
  BY <1>1, SentOverwrites DEF Balanced
<1>5. ASSUME NEW n \in Note
      PROVE  n \in OnAfter(tones, e) <=> Heard(Append(p.out, e), n, before)
  <2>1. Heard(Append(p.out, e), n, before) <=>
           IF e.type # "controller" /\ e.note = n THEN e.type = "on" ELSE Heard(p.out, n, before)
    BY <1>1, SentIsHeard
  <2>2. n \in tones <=> Heard(p.out, n, before)
    BY DEF Balanced
  <2>3. e.type \in {"controller", "on", "off"}
    BY OutEventFields
  <2> QED BY <2>1, <2>2, <2>3 DEF OnAfter
<1> QED BY <1>2, <1>3, <1>4, <1>5 DEF Balanced

LEMMA HoldBalances ==
  ASSUME NEW p, NEW off, NEW open, NEW tones, NEW before, Balanced(p, off, open, tones, before),
         NEW h \in Seq(Note), Unique(h)
  PROVE  /\ Balanced([p EXCEPT !.held = h], off, open, tones, before)
         /\ [p EXCEPT !.held = h].held = h
<1>1. p \in [held : Seq(Note), out : Seq(OutEvents)]
  BY DEF Balanced, ProxyStates
<1>2. /\ [p EXCEPT !.held = h] \in [held : Seq(Note), out : Seq(OutEvents)]
      /\ [p EXCEPT !.held = h].held = h /\ [p EXCEPT !.held = h].out = p.out
  BY <1>1
<1> QED BY <1>2 DEF Balanced, ProxyStates

\* e is a controller of n that has to do with no set-up
MovesOnly(c, off) == c \in OutEvents /\ c.type = "controller" /\ ~c.pre /\ c.offset = off

LEMMA ControlIsSent ==
  ASSUME NEW n \in Note, NEW value \in Level, NEW e, e.offset \in Nat
  PROVE  MovesOnly(Control(n, value, e, FALSE), e.offset)
  BY DEF Control, OutEvents, MovesOnly

LEMMA ToneIsSent ==
  ASSUME NEW n \in Note, NEW type \in {"on", "off"}, NEW e, e.offset \in Nat
  PROVE  /\ Tone(type, n, e) \in OutEvents
         /\ Tone(type, n, e).offset = e.offset
         /\ Tone(type, n, e).type = type /\ Tone(type, n, e).note = n
  BY DEF Tone, OutEvents

LEMMA MoveBalances ==
  ASSUME NEW off \in Nat, NEW c, MovesOnly(c, off),
         NEW p, NEW tones, NEW before, Balanced(p, off, {}, tones, before)
  PROVE  Balanced(Send(p, c), off, {}, tones, before) /\ Send(p, c).held = p.held
<1>1. c \in OutEvents /\ c.offset = off /\ OnAfter(tones, c) = tones /\ OpenAfter({}, c) = {}
  BY DEF MovesOnly, OnAfter, OpenAfter
<1>2. Balanced(Send(p, c), off, OpenAfter({}, c), OnAfter(tones, c), before)
  BY <1>1, SendBalances
<1>3. Send(p, c).held = p.held
  BY <1>1, SendKeeps DEF Balanced
<1> QED BY <1>1, <1>2, <1>3

LEMMA NoteOffBalances ==
  ASSUME NEW e, e.offset \in Nat, NEW p, NEW before, NEW n \in ToSet(p.held),
         Balanced(p, e.offset, {}, ToSet(p.held), before)
  PROVE  /\ Balanced(ProxyNoteOff(p, n, e), e.offset, {}, ToSet(p.held) \ {n}, before)
         /\ ToSet(ProxyNoteOff(p, n, e).held) = ToSet(p.held) \ {n}
<1> DEFINE h == RemoveFirst(p.held, n)
           t == Tone("off", n, e)
           q == Send([p EXCEPT !.held = h], t)
           c == Control(Head(q.held), INIT, e, FALSE)
<1>1. p.held \in Seq(Note) /\ Unique(p.held) /\ n \in Note
  BY ProxyFields, ElementsOfSeq DEF Balanced
<1>2. h \in Seq(Note) /\ Unique(h) /\ ToSet(h) = ToSet(p.held) \ {n}
  BY <1>1, RemovePresent
<1>3. ProxyNoteOff(p, n, e) = IF n = Head(p.held) /\ q.held # <<>> THEN Send(q, c) ELSE q
  BY DEF ProxyNoteOff
<1>4. Balanced(q, e.offset, {}, ToSet(p.held) \ {n}, before) /\ q.held = h
  <2> DEFINE r == [p EXCEPT !.held = h]
  <2> HIDE DEF h
  <2>1. Balanced(r, e.offset, {}, ToSet(p.held), before) /\ r.held = h
    BY <1>2, HoldBalances
  <2>2. t \in OutEvents /\ t.offset = e.offset /\ OpenAfter({}, t) = {}
        /\ OnAfter(ToSet(p.held), t) = ToSet(p.held) \ {n}
    <3>1. t \in OutEvents /\ t.offset = e.offset /\ t.type = "off" /\ t.note = n
      BY <1>1, ToneIsSent
    <3> HIDE DEF t
    <3> QED BY <3>1 DEF OpenAfter, OnAfter
  <2> HIDE DEF r, t
  <2>3. Balanced(Send(r, t), e.offset, OpenAfter({}, t), OnAfter(ToSet(p.held), t), before)
    BY <2>1, <2>2, SendBalances
  <2>4. Send(r, t).held = h
    BY <2>1, <2>2, SendKeeps DEF Balanced
  <2> QED BY <2>2, <2>3, <2>4 DEF r
<1> HIDE DEF h, q
<1>5. q.held # <<>> => Head(q.held) \in Note
  BY <1>2, <1>4
<1>6. q.held # <<>> => /\ Balanced(Send(q, c), e.offset, {}, ToSet(p.held) \ {n}, before)
                      /\ Send(q, c).held = q.held
  <2> SUFFICES ASSUME q.held # <<>>
               PROVE  /\ Balanced(Send(q, c), e.offset, {}, ToSet(p.held) \ {n}, before)
                      /\ Send(q, c).held = q.held
    OBVIOUS
  <2>1. PICK m \in Note : m = Head(q.held)
    BY <1>5
  <2>2. INIT \in Level
    BY DEF Level
  <2>3. MovesOnly(c, e.offset)
    BY <2>1, <2>2, ControlIsSent
  <2> HIDE DEF c
  <2> QED BY <1>4, <2>3, MoveBalances
<1> QED BY <1>2, <1>3, <1>4, <1>6

LEMMA NoteOnBalances ==
  ASSUME NEW e, e.offset \in Nat, NEW p, NEW before, NEW n \in Note, n \notin ToSet(p.held),
         Balanced(p, e.offset, {}, ToSet(p.held), before),
         NEW notes, notes = ToSet(p.held) \cup {n}
  PROVE  /\ Balanced(ProxyNoteOn(p, n, e), e.offset, {}, ToSet(ProxyNoteOn(p, n, e).held), before)
         /\ ToSet(ProxyNoteOn(p, n, e).held) = notes
<1> DEFINE d == Control(Head(p.held), INIT, e, FALSE)
           q == IF p.held = <<>> THEN p ELSE Send(p, d)
           h == <<n>> \o q.held
           a == Control(n, INIT, e, TRUE)
           r == Send([q EXCEPT !.held = h], a)
           t == Tone("on", n, e)
           u == Send(r, t)
           c == Control(n, INIT, e, FALSE)
           tones == ToSet(p.held)
<1>1. p.held \in Seq(Note) /\ Unique(p.held)
  BY ProxyFields DEF Balanced
<1>2. Balanced(q, e.offset, {}, tones, before) /\ q.held = p.held
  <2>1. p.held # <<>> => Head(p.held) \in Note
    BY <1>1
  <2>2. p.held # <<>> => Balanced(Send(p, d), e.offset, {}, tones, before) /\ Send(p, d).held = p.held
    <3> SUFFICES ASSUME p.held # <<>>
                 PROVE  Balanced(Send(p, d), e.offset, {}, tones, before) /\ Send(p, d).held = p.held
      OBVIOUS
    <3>1. PICK m \in Note : m = Head(p.held)
      BY <2>1
    <3>2. INIT \in Level
      BY DEF Level
    <3>3. MovesOnly(d, e.offset)
      BY <3>1, <3>2, ControlIsSent
    <3>4. Balanced(p, e.offset, {}, tones, before)
      OBVIOUS
    <3> HIDE DEF d, tones
    <3> QED BY <3>3, <3>4, MoveBalances
  <2> QED BY <2>2
<1>3. ProxyNoteOn(p, n, e) = Send(u, c)
  BY DEF ProxyNoteOn
<1> HIDE DEF q
<1>4. h \in Seq(Note) /\ Unique(h) /\ ToSet(h) = tones \cup {n}
  BY <1>1, <1>2, PushInFront
<1> HIDE DEF h
<1>5. Balanced(r, e.offset, {n}, tones, before) /\ r.held = h
  <2> DEFINE s == [q EXCEPT !.held = h]
  <2>1. Balanced(s, e.offset, {}, tones, before) /\ s.held = h
    BY <1>2, <1>4, HoldBalances
  <2>2. a \in OutEvents /\ a.offset = e.offset /\ OpenAfter({}, a) = {n} /\ OnAfter(tones, a) = tones
    <3>1. INIT \in Level
      BY DEF Level
    <3>2. a \in OutEvents /\ a.offset = e.offset /\ a.type = "controller" /\ a.pre /\ a.note = n
      BY <3>1 DEF Control, OutEvents
    <3> HIDE DEF a, tones
    <3> QED BY <3>2 DEF OpenAfter, OnAfter
  <2> HIDE DEF s, a
  <2>3. Balanced(Send(s, a), e.offset, OpenAfter({}, a), OnAfter(tones, a), before)
    BY <2>1, <2>2, SendBalances
  <2>4. Send(s, a).held = h
    BY <2>1, <2>2, SendKeeps DEF Balanced
  <2> QED BY <2>2, <2>3, <2>4 DEF s
<1> HIDE DEF r
<1>6. Balanced(u, e.offset, {n}, tones \cup {n}, before) /\ u.held = h
  <2>1. t \in OutEvents /\ t.offset = e.offset /\ OpenAfter({n}, t) = {n}
        /\ OnAfter(tones, t) = tones \cup {n}
    <3>1. t \in OutEvents /\ t.offset = e.offset /\ t.type = "on" /\ t.note = n
      BY ToneIsSent
    <3> HIDE DEF t, tones
    <3> QED BY <3>1 DEF OpenAfter, OnAfter
  <2> HIDE DEF t
  <2>2. Balanced(Send(r, t), e.offset, OpenAfter({n}, t), OnAfter(tones, t), before)
    BY <1>5, <2>1, SendBalances
  <2>3. Send(r, t).held = h
    BY <1>5, <2>1, SendKeeps DEF Balanced
  <2> QED BY <2>1, <2>2, <2>3
<1> HIDE DEF u
<1>7. Balanced(Send(u, c), e.offset, {}, tones \cup {n}, before) /\ Send(u, c).held = h
  <2>1. c \in OutEvents /\ c.offset = e.offset /\ OpenAfter({n}, c) = {}
        /\ OnAfter(tones \cup {n}, c) = tones \cup {n}
    <3>1. INIT \in Level
      BY DEF Level
    <3>2. c \in OutEvents /\ c.offset = e.offset /\ c.type = "controller" /\ ~c.pre /\ c.note = n
      BY <3>1 DEF Control, OutEvents
    <3> HIDE DEF c, tones
    <3> QED BY <3>2 DEF OpenAfter, OnAfter
  <2> HIDE DEF c
  <2>2. Balanced(Send(u, c), e.offset, OpenAfter({n}, c), OnAfter(tones \cup {n}, c), before)
    BY <1>6, <2>1, SendBalances
  <2>3. Send(u, c).held = h
    BY <1>6, <2>1, SendKeeps DEF Balanced
  <2> QED BY <2>1, <2>2, <2>3
<1> QED BY <1>3, <1>4, <1>7

\* which notes are held after e
HeldAfter(before, e) ==
  CASE e.type = "controller" -> before
    [] e.type = "on"         -> before \cup {e.note}
    [] OTHER                 -> before \ {e.note}

LEMMA InEventFields ==
  ASSUME NEW last \in Nat, NEW e \in InEvents(last)
  PROVE  /\ e.type \in {"controller", "on", "on_silently", "off"}
         /\ e.offset \in 0..last
         /\ e.type # "controller" => e \in NoteEvents(last) /\ e.note \in Note
         /\ e.type = "controller" => e.value \in Level
  BY DEF InEvents, NoteEvents, Points

LEMMA ProcessEventBalances ==
  ASSUME NEW last \in Nat, NEW e \in InEvents(last), NEW p, NEW before,
         Balanced(p, e.offset, {}, ToSet(p.held), before)
  PROVE  /\ Balanced(ProcessEvent(p, e), e.offset, {}, ToSet(ProcessEvent(p, e).held), before)
         /\ ToSet(ProcessEvent(p, e).held) = HeldAfter(ToSet(p.held), e)
<1>1. /\ e.type \in {"controller", "on", "on_silently", "off"} /\ e.offset \in Nat
      /\ e.type # "controller" => e.note \in Note
      /\ e.type = "controller" => e.value \in Level
  BY InEventFields
<1>2. p.held \in Seq(Note) /\ Unique(p.held)
  BY ProxyFields DEF Balanced
<1> DEFINE n == e.note
           q == IF n \in ToSet(p.held) THEN ProxyNoteOff(p, n, e) ELSE p
<1>3. ASSUME e.type # "controller"
      PROVE  Balanced(q, e.offset, {}, ToSet(q.held), before) /\ ToSet(q.held) = ToSet(p.held) \ {n}
  <2>1. CASE n \in ToSet(p.held)
    <3>1. /\ Balanced(ProxyNoteOff(p, n, e), e.offset, {}, ToSet(p.held) \ {n}, before)
          /\ ToSet(ProxyNoteOff(p, n, e).held) = ToSet(p.held) \ {n}
      <4>1. PICK m \in ToSet(p.held) : m = n
        BY <2>1
      <4> HIDE DEF n
      <4> QED BY <1>1, <4>1, NoteOffBalances
    <3> QED BY <2>1, <3>1
  <2>2. CASE n \notin ToSet(p.held)
    <3>1. ToSet(p.held) \ {n} = ToSet(p.held)
      BY <2>2
    <3> QED BY <2>2, <3>1
  <2> QED BY <2>1, <2>2
<1>4. CASE e.type = "on"
  <2>1. ProcessEvent(p, e) = ProxyNoteOn(q, n, e)
    BY <1>4 DEF ProcessEvent
  <2> HIDE DEF q
  <2>2. /\ Balanced(q, e.offset, {}, ToSet(q.held), before) /\ n \notin ToSet(q.held) /\ n \in Note
        /\ ToSet(q.held) \cup {n} = ToSet(p.held) \cup {n}
    BY <1>1, <1>3, <1>4
  <2>3. /\ Balanced(ProxyNoteOn(q, n, e), e.offset, {}, ToSet(ProxyNoteOn(q, n, e).held), before)
        /\ ToSet(ProxyNoteOn(q, n, e).held) = ToSet(q.held) \cup {n}
    <3>1. PICK m \in Note : m = n
      BY <2>2
    <3>2. PICK r \in ProxyStates : r = q
      BY <2>2 DEF Balanced
    <3>3. /\ Balanced(r, e.offset, {}, ToSet(r.held), before) /\ m \notin ToSet(r.held)
          /\ e.offset \in Nat
      BY <1>1, <2>2, <3>1, <3>2
    <3>4. PICK notes \in SUBSET (ToSet(r.held) \cup {m}) : notes = ToSet(r.held) \cup {m}
      OBVIOUS
    <3>5. /\ Balanced(ProxyNoteOn(r, m, e), e.offset, {}, ToSet(ProxyNoteOn(r, m, e).held), before)
          /\ ToSet(ProxyNoteOn(r, m, e).held) = notes
      BY <3>3, <3>4, NoteOnBalances
    <3> QED BY <3>1, <3>2, <3>4, <3>5
  <2>4. HeldAfter(ToSet(p.held), e) = ToSet(p.held) \cup {n}
    BY <1>4 DEF HeldAfter
  <2> QED BY <2>1, <2>2, <2>3, <2>4
<1>5. CASE e.type \in {"off", "on_silently"}
  <2>1. ProcessEvent(p, e) = q
    BY <1>5 DEF ProcessEvent
  <2>2. HeldAfter(ToSet(p.held), e) = ToSet(p.held) \ {n}
    BY <1>5 DEF HeldAfter
  <2> HIDE DEF q
  <2> QED BY <1>3, <1>5, <2>1, <2>2
<1>6. CASE e.type = "controller"
  <2> DEFINE c == Control(Head(p.held), e.value, e, FALSE)
  <2>1. ProcessEvent(p, e) = IF p.held = <<>> THEN p ELSE Send(p, c)
    BY <1>6 DEF ProcessEvent
  <2>2. HeldAfter(ToSet(p.held), e) = ToSet(p.held)
    BY <1>6 DEF HeldAfter
  <2>3. p.held # <<>> => MovesOnly(c, e.offset)
    <3>1. p.held # <<>> => Head(p.held) \in Note
      BY <1>2
    <3> QED BY <1>1, <1>6, <3>1, ControlIsSent
  <2> HIDE DEF c
  <2>4. p.held # <<>> => /\ Balanced(Send(p, c), e.offset, {}, ToSet(p.held), before)
                        /\ Send(p, c).held = p.held
    <3> SUFFICES ASSUME p.held # <<>>
                 PROVE  /\ Balanced(Send(p, c), e.offset, {}, ToSet(p.held), before)
                        /\ Send(p, c).held = p.held
      OBVIOUS
    <3> QED BY <1>1, <2>3, MoveBalances
  <2> QED BY <2>1, <2>2, <2>4
<1> QED BY <1>1, <1>4, <1>5, <1>6

\* whether the key of n is down after the first k events
Pressed(events, k, n, before) ==
  LET own == {i \in 1..k : events[i].type # "controller" /\ events[i].note = n}
  IN  IF own = {} THEN n \in before ELSE events[Max(own)].type = "on"

LEMMA PressedNext ==
  ASSUME NEW events, NEW k \in Nat \ {0}, NEW n, NEW before
  PROVE  Pressed(events, k, n, before) <=>
           IF events[k].type # "controller" /\ events[k].note = n THEN events[k].type = "on"
           ELSE Pressed(events, k - 1, n, before)
<1> DEFINE own == {i \in 1..k : events[i].type # "controller" /\ events[i].note = n}
           old == {i \in 1..(k - 1) : events[i].type # "controller" /\ events[i].note = n}
<1>1. /\ Pressed(events, k, n, before)
           <=> IF own = {} THEN n \in before ELSE events[Max(own)].type = "on"
      /\ Pressed(events, k - 1, n, before)
           <=> IF old = {} THEN n \in before ELSE events[Max(old)].type = "on"
  BY DEF Pressed
<1>2. CASE events[k].type # "controller" /\ events[k].note = n
  <2>1. own \in SUBSET Int /\ k \in own /\ \A y \in own : y =< k
    BY <1>2
  <2> HIDE DEF own
  <2>2. Max(own) = k
    BY <2>1, MaxIs
  <2> QED BY <1>1, <1>2, <2>1, <2>2
<1>3. CASE ~(events[k].type # "controller" /\ events[k].note = n)
  <2>1. own = old
    BY <1>3
  <2> HIDE DEF own, old
  <2> QED BY <1>1, <1>3, <2>1
<1> QED BY <1>2, <1>3

\* the proxy before the first of the events of a block, and after the k-th
Start == [held |-> held, out |-> <<>>]

Goes(q, events, k) ==
  /\ Balanced(q, IF k = 0 THEN 0 ELSE events[k].offset, {}, ToSet(q.held), ToSet(held))
  /\ \A n \in Note : n \in ToSet(q.held) <=> Pressed(events, k, n, ToSet(held))

LEMMA GoesFirst ==
  ASSUME held \in Seq(Note), Unique(held), NEW events
  PROVE  Goes(Start, events, 0) /\ Start \in ProxyStates
<1>1. Start \in ProxyStates /\ Start.held = held /\ Start.out = <<>>
  BY DEF Start, ProxyStates
<1>2. InTime(<<>>, 0) /\ Overwritten(<<>>, {})
  BY DEF InTime, Overwritten
<1>3. ASSUME NEW n, NEW before PROVE Heard(<<>>, n, before) <=> n \in before
  <2>1. TonesOf(<<>>, n) = {}
    BY DEF TonesOf
  <2> QED BY <2>1 DEF Heard
<1>4. ASSUME NEW n, NEW before PROVE Pressed(events, 0, n, before) <=> n \in before
  BY DEF Pressed
<1> QED BY <1>1, <1>2, <1>3, <1>4 DEF Goes, Balanced

LEMMA GoesNext ==
  ASSUME NEW last \in Nat, NEW events \in Seq(InEvents(last)), InOrder(events),
         NEW k \in 1..Len(events), NEW q, Goes(q, events, k - 1)
  PROVE  /\ Goes(ProcessEvent(q, events[k]), events, k)
         /\ ProcessEvent(q, events[k]) \in ProxyStates
<1> DEFINE e == events[k]
           r == ProcessEvent(q, e)
<1>1. e \in InEvents(last) /\ k \in Nat \ {0} /\ k - 1 \in Nat
  OBVIOUS
<1>2. e.offset \in Nat
  BY <1>1, InEventFields
<1>3. Balanced(q, e.offset, {}, ToSet(q.held), ToSet(held))
  <2> DEFINE off == IF k - 1 = 0 THEN 0 ELSE events[k - 1].offset
  <2>1. Balanced(q, off, {}, ToSet(q.held), ToSet(held))
    BY DEF Goes
  <2>2. off \in Nat /\ off <= e.offset
    <3>1. CASE k = 1
      BY <1>2, <3>1
    <3>2. CASE k # 1
      <4>1. k - 1 \in 1..Len(events) /\ k - 1 < k /\ DOMAIN events = 1..Len(events)
        BY <3>2
      <4>2. events[k - 1].offset <= events[k].offset
        BY <4>1 DEF InOrder
      <4>3. events[k - 1] \in InEvents(last)
        BY <4>1
      <4>4. events[k - 1].offset \in Nat
        BY <4>3, InEventFields
      <4> QED BY <3>2, <4>2, <4>4
    <3> QED BY <3>1, <3>2
  <2> HIDE DEF off, e
  <2>3. q.out \in Seq(OutEvents)
    BY <2>1, ProxyFields DEF Balanced
  <2>4. \A i \in 1..Len(q.out) : q.out[i].offset \in Nat
    BY <2>3, OutEventFields
  <2>5. InTime(q.out, e.offset)
    BY <1>2, <2>1, <2>2, <2>4 DEF InTime, Balanced
  <2> QED BY <2>1, <2>5 DEF Balanced
<1>4. Balanced(r, e.offset, {}, ToSet(r.held), ToSet(held))
  <2> HIDE DEF e
  <2> QED BY <1>1, <1>3, ProcessEventBalances
<1>5. ToSet(r.held) = HeldAfter(ToSet(q.held), e)
  <2> HIDE DEF e
  <2> QED BY <1>1, <1>3, ProcessEventBalances
<1>6. ASSUME NEW n \in Note
      PROVE  n \in ToSet(r.held) <=> Pressed(events, k, n, ToSet(held))
  <2>1. Pressed(events, k, n, ToSet(held)) <=>
           IF e.type # "controller" /\ e.note = n THEN e.type = "on"
           ELSE Pressed(events, k - 1, n, ToSet(held))
    BY <1>1, PressedNext
  <2>2. Pressed(events, k - 1, n, ToSet(held)) <=> n \in ToSet(q.held)
    BY DEF Goes
  <2> HIDE DEF e, r
  <2> QED BY <1>5, <2>1, <2>2 DEF HeldAfter
<1> HIDE DEF r
<1>7. Goes(r, events, k)
  BY <1>1, <1>4, <1>6 DEF Goes
<1> QED BY <1>4, <1>7 DEF r, Balanced

(***************************************************************************)
(* The loop over the events of a block.  A message leads from one good     *)
(* state to the next, so the recursion has a solution.                     *)
(***************************************************************************)
LEMMA ProcessEventsGo ==
  ASSUME NEW last \in Nat, NEW events \in Seq(InEvents(last)), InOrder(events),
         held \in Seq(Note), Unique(held)
  PROVE  Goes(ProcessEvents(events), events, Len(events))
<1> DEFINE N == Len(events)
           body(f) == [k \in 0..N |-> IF k = 0 THEN Start ELSE ProcessEvent(f[k - 1], events[k])]
           after == CHOOSE f : f = body(f)
           Stay(k, q) == IF ProcessEvent(q, events[k]) \in ProxyStates
                         THEN ProcessEvent(q, events[k]) ELSE q
<1>1. N \in Nat
  OBVIOUS
<1>2. PICK steps \in [1..N -> [ProxyStates -> ProxyStates]] :
        \A k \in 1..N, q \in ProxyStates : steps[k][q] = Stay(k, q)
  <2> DEFINE st == [k \in 1..N |-> [q \in ProxyStates |-> Stay(k, q)]]
  <2>1. \A k \in 1..N : [q \in ProxyStates |-> Stay(k, q)] \in [ProxyStates -> ProxyStates]
    OBVIOUS
  <2>2. st \in [1..N -> [ProxyStates -> ProxyStates]]
    <3> HIDE DEF N, Stay
    <3> QED BY <2>1
  <2>3. \A k \in 1..N, q \in ProxyStates : st[k][q] = Stay(k, q)
    <3> HIDE DEF N, Stay
    <3> QED OBVIOUS
  <2> HIDE DEF st, Stay
  <2> QED BY <2>2, <2>3
<1>3. Start \in ProxyStates
  BY GoesFirst
<1>4. PICK g \in [0..N -> ProxyStates] : Follows(g, N, Start, steps)
  <2> HIDE DEF N
  <2> QED BY <1>1, <1>3, StepwiseRecursion
<1>5. g[0] = Start /\ \A k \in 1..N : g[k] = Stay(k, g[k - 1])
  <2>1. g[0] = Start /\ \A k \in 1..N : g[k] = steps[k][g[k - 1]]
    BY <1>4 DEF Follows
  <2>2. ASSUME NEW k \in 1..N PROVE g[k - 1] \in ProxyStates
    <3>1. k - 1 \in 0..N
      BY <1>1
    <3> HIDE DEF N
    <3> QED BY <3>1
  <2> HIDE DEF N, Stay
  <2> QED BY <1>2, <2>1, <2>2
<1>6. \A k \in 0..N : Goes(g[k], events, k)
  <2> DEFINE W == {k \in 0..N : Goes(g[k], events, k)}
  <2>1. 0 \in W
    BY <1>1, <1>5, GoesFirst
  <2>2. ASSUME NEW k \in 1..N, k - 1 \in W PROVE k \in W
    <3>1. /\ Goes(ProcessEvent(g[k - 1], events[k]), events, k)
          /\ ProcessEvent(g[k - 1], events[k]) \in ProxyStates
      BY <2>2, GoesNext
    <3>2. g[k] = ProcessEvent(g[k - 1], events[k])
      BY <1>5, <3>1
    <3> QED BY <1>1, <3>1, <3>2
  <2>3. \A k \in 0..N : k \in W
    <3> HIDE DEF W, N
    <3> QED BY <1>1, <2>1, <2>2, InductionUpTo
  <2> QED BY <2>3
<1>7. \A k \in 1..N : g[k] = ProcessEvent(g[k - 1], events[k])
  <2> SUFFICES ASSUME NEW k \in 1..N PROVE g[k] = ProcessEvent(g[k - 1], events[k])
    OBVIOUS
  <2>1. Goes(g[k - 1], events, k - 1)
    BY <1>1, <1>6
  <2>2. ProcessEvent(g[k - 1], events[k]) \in ProxyStates
    BY <2>1, GoesNext
  <2> QED BY <1>5, <2>2
<1> HIDE DEF Stay
<1>8. g = body(g)
  <2>1. \A k \in 0..N : g[k] = IF k = 0 THEN Start ELSE ProcessEvent(g[k - 1], events[k])
    BY <1>1, <1>5, <1>7
  <2> HIDE DEF N
  <2> QED BY <2>1
<1>9. after = body(after)
  <2> HIDE DEF N
  <2> QED BY <1>8
<1>10. after[0] = Start /\ \A k \in 1..N : after[k] = ProcessEvent(after[k - 1], events[k])
  <2> HIDE DEF after
  <2>1. \A k \in 0..N : after[k] = IF k = 0 THEN Start ELSE ProcessEvent(after[k - 1], events[k])
    BY <1>9
  <2> QED BY <1>1, <2>1
<1>11. \A k \in 0..N : after[k] = g[k]
  <2> DEFINE E == {k \in 0..N : after[k] = g[k]}
  <2> HIDE DEF after
  <2>1. 0 \in E
    BY <1>1, <1>5, <1>10
  <2>2. \A k \in 1..N : k - 1 \in E => k \in E
    BY <1>1, <1>7, <1>10
  <2>3. \A k \in 0..N : k \in E
    <3> HIDE DEF E, N
    <3> QED BY <1>1, <2>1, <2>2, InductionUpTo
  <2> QED BY <2>3
<1>12. ProcessEvents(events) = after[N]
  BY DEF ProcessEvents, Start
<1>13. N \in 0..N
  BY <1>1
<1> HIDE DEF after, N
<1>14. ProcessEvents(events) = g[N] /\ Goes(g[N], events, N)
  BY <1>6, <1>11, <1>12, <1>13
<1> QED BY <1>14 DEF N

-----------------------------------------------------------------------------
(* Sorting. *)

LEMMA EventListsAre ==
  ASSUME NEW kinds, NEW most \in Nat, NEW list \in EventLists(kinds, most)
  PROVE  list \in Seq(kinds) /\ InOrder(list) /\ DOMAIN list = 1..Len(list) /\ Len(list) \in Nat
<1>1. PICK n \in 0..most : list \in [1..n -> kinds]
  BY DEF EventLists
<1>2. n \in Nat
  OBVIOUS
<1>3. list \in Seq(kinds)
  BY <1>1, <1>2
<1> QED BY <1>3 DEF EventLists

\* the order in which the events of s were collected
Rearranges(order, events, s) ==
  /\ order \in Surjection(1..Len(events), 1..Len(events))
  /\ \A i \in 1..Len(events) : s[i] = events[order[i]]
  /\ \A i, j \in 1..Len(events) :
       i < j => IF IsStable(events) THEN Earlier(events, order[i], order[j])
                ELSE events[order[i]].offset <= events[order[j]].offset

LEMMA SortedAre ==
  ASSUME NEW last \in Nat, NEW events \in Seq(InEvents(last)), NEW s \in Sorted(events)
  PROVE  /\ s \in Seq(InEvents(last)) /\ Len(s) = Len(events) /\ InOrder(s)
         /\ \E order : Rearranges(order, events, s)
<1> DEFINE N == Len(events)
<1>1. N \in Nat /\ DOMAIN events = 1..N
  OBVIOUS
<1>2. PICK order \in Orders(events) : s = [i \in DOMAIN events |-> events[order[i]]]
  BY DEF Sorted
<1>3. /\ order \in Surjection(1..N, 1..N)
      /\ \A i, j \in 1..N :
           i < j => IF IsStable(events) THEN Earlier(events, order[i], order[j])
                    ELSE events[order[i]].offset <= events[order[j]].offset
  BY <1>1, <1>2 DEF Orders
<1>4. order \in [1..N -> 1..N]
  BY <1>3 DEF Surjection
<1>5. \A i \in 1..N : s[i] = events[order[i]] /\ events[order[i]] \in InEvents(last)
                       /\ events[order[i]].offset \in Int
  <2> SUFFICES ASSUME NEW i \in 1..N
               PROVE  /\ s[i] = events[order[i]] /\ events[order[i]] \in InEvents(last)
                      /\ events[order[i]].offset \in Int
    OBVIOUS
  <2>1. order[i] \in 1..N
    BY <1>4
  <2>2. events[order[i]] \in InEvents(last)
    BY <1>1, <2>1
  <2>3. events[order[i]].offset \in 0..last
    BY <2>2, InEventFields
  <2> QED BY <1>1, <1>2, <2>2, <2>3
<1>6. s \in [1..N -> InEvents(last)]
  BY <1>1, <1>2, <1>5
<1>7. s \in Seq(InEvents(last)) /\ Len(s) = N /\ DOMAIN s = 1..N
  <2> HIDE DEF N
  <2> QED BY <1>1, <1>6
<1>8. ASSUME NEW i \in 1..N, NEW j \in 1..N, i < j PROVE s[i].offset <= s[j].offset
  BY <1>3, <1>5, <1>8 DEF Earlier
<1>9. InOrder(s)
  <2>1. \A i, j \in 1..N : i < j => s[i].offset <= s[j].offset
    BY <1>8
  <2> HIDE DEF N
  <2> QED BY <1>7, <2>1 DEF InOrder
<1>10. Rearranges(order, events, s)
  BY <1>3, <1>5 DEF Rearranges
<1> QED BY <1>7, <1>9, <1>10

(***************************************************************************)
(* The last event of a key comes last in the sorted block as well: events  *)
(* of one key keep their order, and controller points are not about keys.  *)
(* If the order of events at one sample is lost, another event of the key  *)
(* may come last, which does the same unless the key is in doubt.          *)
(***************************************************************************)
LEMMA SortingKeepsKeys ==
  ASSUME NEW last \in Nat, NEW notes \in Seq(NoteEvents(last)), InOrder(notes),
         NEW points \in Seq(Points(last)),
         NEW events \in Seq(InEvents(last)), events = notes \o points,
         NEW s \in Sorted(events), NEW n \in Note, NEW before, NEW doubt,
         n \notin UnsureAfter(doubt, notes, IsStable(events))
  PROVE  Pressed(s, Len(s), n, before) <=> n \in PressedAfter(before, notes)
<1> DEFINE N == Len(events)
           M == Len(notes)
           own == TonesOf(notes, n)
           sorted == {i \in 1..N : s[i].type # "controller" /\ s[i].note = n}
<1>1. /\ M \in Nat /\ DOMAIN notes = 1..M /\ N \in Nat /\ M <= N
      /\ \A i \in 1..M : events[i] = notes[i]
      /\ \A i \in (M + 1)..N : events[i] = points[i - M] /\ i - M \in 1..Len(points)
  OBVIOUS
<1>2. \A i \in (M + 1)..N : events[i].type = "controller"
  <2> SUFFICES ASSUME NEW i \in (M + 1)..N PROVE events[i].type = "controller"
    OBVIOUS
  <2>1. points[i - M] \in Points(last) /\ events[i] = points[i - M]
    BY <1>1
  <2> QED BY <2>1 DEF Points
<1>3. \A i \in 1..M : events[i].type # "controller" /\ events[i].offset \in Int
  <2> SUFFICES ASSUME NEW i \in 1..M
               PROVE  events[i].type # "controller" /\ events[i].offset \in Int
    OBVIOUS
  <2>1. notes[i] \in NoteEvents(last) /\ events[i] = notes[i]
    BY <1>1
  <2> QED BY <2>1 DEF NoteEvents
<1>4. Len(s) = N
  BY SortedAre
<1>5. PICK order : Rearranges(order, events, s)
  BY SortedAre
<1>6. order \in [1..N -> 1..N] /\ \A j \in 1..N : \E k \in 1..N : order[k] = j
  BY <1>5 DEF Surjection, Rearranges
<1>7. own = {i \in 1..M : notes[i].note = n}
  BY <1>1, <1>3 DEF TonesOf
<1>8. Pressed(s, N, n, before)
        <=> IF sorted = {} THEN n \in before ELSE s[Max(sorted)].type = "on"
  BY DEF Pressed
<1>9. n \in PressedAfter(before, notes)
        <=> IF own = {} THEN n \in before ELSE notes[Max(own)].type = "on"
  BY DEF PressedAfter
<1> HIDE DEF N, M, own
<1>10. ASSUME NEW i \in sorted PROVE order[i] \in own /\ s[i] = notes[order[i]]
  <2>1. order[i] \in 1..N /\ s[i] = events[order[i]]
    BY <1>5, <1>6 DEF Rearranges, N
  <2>2. order[i] \in 1..M
    <3>1. PICK j \in 1..N : j = order[i]
      BY <2>1
    <3>2. events[j].type # "controller"
      BY <2>1, <3>1
    <3>3. j \notin (M + 1)..N
      BY <1>2, <3>2
    <3> QED BY <1>1, <3>1, <3>3
  <2>3. s[i].note = n
    OBVIOUS
  <2> QED BY <1>1, <1>7, <2>1, <2>2, <2>3
<1>11. ASSUME NEW j \in own PROVE \E k \in sorted : order[k] = j
  <2>1. j \in 1..M /\ j \in 1..N /\ notes[j].note = n
    BY <1>1, <1>7
  <2>2. PICK k \in 1..N : order[k] = j
    BY <1>6, <2>1
  <2>3. s[k].type # "controller" /\ s[k].note = n
    BY <1>1, <1>3, <1>5, <2>1, <2>2 DEF Rearranges, N
  <2> QED BY <2>2, <2>3
<1>12. CASE sorted = {}
  <2>1. own = {}
    BY <1>11, <1>12
  <2> HIDE DEF sorted
  <2> QED BY <1>4, <1>8, <1>9, <1>12, <2>1
<1>13. CASE sorted # {}
  <2>1. sorted \in SUBSET (0..N)
    OBVIOUS
  <2>2. Max(sorted) \in sorted /\ \A i \in sorted : i =< Max(sorted)
    <3> HIDE DEF sorted
    <3> QED BY <1>1, <1>13, <2>1, MaxInRange
  <2>3. PICK m \in sorted : m = Max(sorted)
    BY <2>2
  <2>4. order[m] \in own /\ s[m] = notes[order[m]]
    BY <1>10
  <2>5. ASSUME NEW j \in own, IsStable(events) PROVE j =< order[m]
    <3>1. PICK k \in sorted : order[k] = j
      BY <1>11
    <3>2. k \in 1..N /\ m \in 1..N /\ k =< m /\ j \in 1..M /\ order[m] \in 1..M
      BY <1>7, <2>2, <2>3, <2>4, <3>1
    <3>3. CASE k = m
      BY <3>1, <3>2, <3>3
    <3>4. CASE k # m
      <4>2. Earlier(events, j, order[m])
        BY <1>5, <2>5, <3>1, <3>2, <3>4 DEF Rearranges, N
      <4>3. /\ events[j].offset = notes[j].offset /\ events[order[m]].offset = notes[order[m]].offset
            /\ events[j].offset \in Int /\ events[order[m]].offset \in Int
        BY <1>1, <1>3, <3>2
      <4>4. order[m] < j => notes[order[m]].offset <= notes[j].offset
        BY <1>1, <3>2 DEF InOrder
      <4> QED BY <3>2, <4>2, <4>3, <4>4 DEF Earlier
    <3> QED BY <3>3, <3>4
  <2>6. own # {} /\ Max(own) \in own /\ \A j \in own : j =< Max(own)
    <3>1. own \in SUBSET (0..N)
      BY <1>1, <1>7
    <3> QED BY <1>1, <2>4, <3>1, MaxInRange
  <2>7. PICK final \in own : final = Max(own)
    BY <2>6
  <2>8. CASE IsStable(events)
    <3>1. final =< order[m] /\ order[m] =< final /\ final \in Int /\ order[m] \in Int
      BY <1>7, <2>4, <2>5, <2>6, <2>7, <2>8
    <3>2. order[m] = final
      BY <3>1
    <3> HIDE DEF sorted
    <3> QED BY <1>4, <1>8, <1>9, <1>13, <2>3, <2>4, <2>6, <2>7, <3>2
  <2>9. CASE ~IsStable(events)
    <3>1. PICK k \in sorted : order[k] = final
      BY <1>11
    <3>2. /\ k \in 1..N /\ m \in 1..N /\ k =< m /\ final \in 1..M /\ order[m] \in 1..M
          /\ order[m] =< final
      BY <1>7, <2>2, <2>3, <2>4, <2>6, <2>7, <3>1
    <3>3. /\ events[final].offset = notes[final].offset
          /\ events[order[m]].offset = notes[order[m]].offset
          /\ events[final].offset \in Int /\ events[order[m]].offset \in Int
      BY <1>1, <1>3, <3>2
    <3>4. events[final].offset <= events[order[m]].offset
      <4>1. CASE k = m
        BY <3>1, <3>3, <4>1
      <4>2. CASE k # m
        <5>1. k < m
          BY <1>1, <3>2, <4>2
        <5> QED BY <1>5, <2>9, <3>1, <3>2, <5>1 DEF Rearranges, N
      <4> QED BY <4>1, <4>2
    <3>5. notes[order[m]].offset <= notes[final].offset
      <4>1. CASE order[m] = final
        BY <3>3, <4>1
      <4>2. CASE order[m] # final
        <5>1. PICK j \in 1..M : j = order[m]
          BY <3>2
        <5>2. j < final /\ j \in DOMAIN notes /\ final \in DOMAIN notes
          BY <1>1, <3>2, <4>2, <5>1
        <5> QED BY <5>1, <5>2 DEF InOrder
      <4> QED BY <4>1, <4>2
    <3>6. notes[order[m]].offset = notes[final].offset
      BY <3>3, <3>4, <3>5
    <3>7. ~ \E i \in own : /\ notes[i].offset = notes[final].offset
                           /\ (notes[i].type = "on") # (notes[final].type = "on")
      BY <2>6, <2>7, <2>9 DEF UnsureAfter, own
    <3>8. notes[order[m]].type = "on" <=> notes[final].type = "on"
      BY <2>4, <3>6, <3>7
    <3> HIDE DEF sorted
    <3> QED BY <1>4, <1>8, <1>9, <1>13, <2>3, <2>4, <2>6, <2>7, <3>8
  <2> QED BY <2>8, <2>9
<1> HIDE DEF sorted
<1> QED BY <1>12, <1>13

-----------------------------------------------------------------------------
(* What the receiver gets. *)

LEMMA OutEventsAre ==
  ASSUME NEW last \in Nat, NEW out \in Seq(OutEvents), NEW i \in 1..Len(out)
  PROVE  LET vst == GenerateOutEvents(out, last) IN
         /\ DOMAIN vst = 1..Len(out)
         /\ vst[i].type = out[i].type /\ vst[i].note = out[i].note
         /\ out[i].type # "controller" => vst[i].offset = out[i].offset
         /\ out[i].type = "controller" => /\ vst[i].value = out[i].value
                                         /\ vst[i].offset = ControllerOffset(out[i], last)
<1> DEFINE vst == GenerateOutEvents(out, last)
<1>1. DOMAIN out = 1..Len(out) /\ out[i] \in OutEvents
  OBVIOUS
<1>2. /\ DOMAIN vst = 1..Len(out)
      /\ vst[i] = IF out[i].type = "controller"
                  THEN [out[i] EXCEPT !.offset = ControllerOffset(out[i], last)]
                  ELSE out[i]
  BY <1>1 DEF GenerateOutEvents
<1> HIDE DEF vst
<1>3. CASE out[i].type = "controller"
  <2>1. out[i] \in [type : {"controller"}, note : Note, value : Level, offset : Nat, pre : BOOLEAN]
    BY <1>1, <1>3 DEF OutEvents
  <2> QED BY <1>2, <1>3, <2>1 DEF vst
<1>4. CASE out[i].type # "controller"
  BY <1>2, <1>4 DEF vst
<1> QED BY <1>3, <1>4

(***************************************************************************)
(* All controller events go to the end of the block, or in a block of one  *)
(* sample set-ups to its beginning and the others behind it.  So the order *)
(* of a note's controllers can only change between set-ups and others, and *)
(* the last one is none of the set-ups.                                    *)
(***************************************************************************)
LEMMA LastControlArrives ==
  ASSUME NEW last \in Nat, NEW out \in Seq(OutEvents), Overwritten(out, {}), InTime(out, last),
         NEW n, ControlsOf(out, n) # {}
  PROVE  LET vst == GenerateOutEvents(out, last) IN
         /\ Latest(vst, ControlsOf(out, n)) = Max(ControlsOf(out, n))
         /\ vst[Max(ControlsOf(out, n))].value = out[Max(ControlsOf(out, n))].value
<1> DEFINE vst == GenerateOutEvents(out, last)
           own == ControlsOf(out, n)
<1>1. Len(out) \in Nat /\ own = {i \in 1..Len(out) : out[i].type = "controller" /\ out[i].note = n}
  BY DEF ControlsOf
<1>2. own # {}
  OBVIOUS
<1> HIDE DEF own
<1>3. Max(own) \in own /\ \A i \in own : i =< Max(own)
  <2>1. own \in SUBSET (0..Len(out))
    BY <1>1
  <2> QED BY <1>1, <1>2, <2>1, MaxInRange
<1>4. PICK m \in own : m = Max(own)
  BY <1>3
<1>5. m \in 1..Len(out) /\ out[m].type = "controller" /\ out[m].note = n
  BY <1>1
<1>6. ~out[m].pre
  <2> SUFFICES ASSUME out[m].pre PROVE FALSE
    OBVIOUS
  <2>1. PICK j \in (m + 1)..Len(out) :
          out[j].type = "controller" /\ ~out[j].pre /\ out[j].note = out[m].note
    BY <1>5 DEF Overwritten
  <2>2. j \in own /\ j > m
    BY <1>1, <1>5, <2>1
  <2> QED BY <1>3, <1>4, <1>5, <2>2
<1>7. ASSUME NEW i \in own
      PROVE  /\ i \in 1..Len(out) /\ i =< m
             /\ vst[i].offset \in Int /\ vst[i].value = out[i].value
             /\ vst[i].offset <= vst[m].offset
  <2>1. i \in 1..Len(out) /\ i =< m /\ out[i].type = "controller"
    BY <1>1, <1>3, <1>4
  <2>2. vst[i].value = out[i].value /\ vst[i].offset = ControllerOffset(out[i], last)
    BY <2>1, OutEventsAre
  <2>3. vst[m].offset = ControllerOffset(out[m], last)
    BY <1>5, OutEventsAre
  <2>4. out[i] \in OutEvents /\ out[m] \in OutEvents
    BY <1>5, <2>1
  <2>5. out[i].offset \in 0..last /\ out[m].offset \in 0..last
    <3>1. out[i].offset \in Nat /\ out[m].offset \in Nat
      BY <2>4, OutEventFields
    <3>2. out[i].offset <= last /\ out[m].offset <= last
      BY <1>5, <2>1 DEF InTime
    <3> QED BY <3>1, <3>2
  <2>6. /\ ControllerOffset(out[i], last) \in Int
        /\ ControllerOffset(out[i], last) <= ControllerOffset(out[m], last)
    <3> HIDE DEF vst
    <3>1. CASE last > 0
      BY <3>1 DEF ControllerOffset
    <3>2. CASE last = 0
      <4>1. out[i].offset = 0 /\ out[m].offset = 0
        BY <2>5, <3>2
      <4>2. ControllerOffset(out[m], last) = 1
        BY <1>6, <3>2, <4>1 DEF ControllerOffset
      <4>3. ControllerOffset(out[i], last) = IF out[i].pre THEN 0 ELSE 1
        BY <3>2, <4>1 DEF ControllerOffset
      <4> QED BY <4>2, <4>3
    <3> QED BY <3>1, <3>2
  <2> HIDE DEF vst
  <2> QED BY <2>1, <2>2, <2>3, <2>6
<1>8. Latest(vst, own) = m
  <2> HIDE DEF vst
  <2>1. ASSUME NEW j \in own \ {m} PROVE Earlier(vst, j, m)
    <3>1. j \in Int /\ m \in Int /\ j < m /\ vst[j].offset \in Int /\ vst[m].offset \in Int
          /\ vst[j].offset <= vst[m].offset
      BY <1>5, <1>7
    <3> QED BY <3>1 DEF Earlier
  <2>2. \A j \in own : j \in Int /\ vst[j].offset \in Int
    BY <1>7
  <2> QED BY <2>1, <2>2, LatestIs
<1> QED BY <1>4, <1>7, <1>8 DEF own

LEMMA LastToneArrives ==
  ASSUME NEW last \in Nat, NEW out \in Seq(OutEvents), InTime(out, last),
         NEW n, TonesOf(out, n) # {}
  PROVE  LET vst == GenerateOutEvents(out, last) IN
         /\ Latest(vst, TonesOf(out, n)) = Max(TonesOf(out, n))
         /\ vst[Max(TonesOf(out, n))].type = out[Max(TonesOf(out, n))].type
<1> DEFINE vst == GenerateOutEvents(out, last)
           own == TonesOf(out, n)
<1>1. Len(out) \in Nat /\ own = {i \in 1..Len(out) : out[i].type # "controller" /\ out[i].note = n}
  BY DEF TonesOf
<1>2. own # {}
  OBVIOUS
<1> HIDE DEF own
<1>3. Max(own) \in own /\ \A i \in own : i =< Max(own)
  <2>1. own \in SUBSET (0..Len(out))
    BY <1>1
  <2> QED BY <1>1, <1>2, <2>1, MaxInRange
<1>4. PICK m \in own : m = Max(own)
  BY <1>3
<1>5. ASSUME NEW i \in own
      PROVE  /\ i \in 1..Len(out) /\ i =< m
             /\ vst[i].offset \in Int /\ vst[i].type = out[i].type
             /\ vst[i].offset = out[i].offset
  <2>1. i \in 1..Len(out) /\ i =< m /\ out[i].type # "controller"
    BY <1>1, <1>3, <1>4
  <2>2. vst[i].type = out[i].type /\ vst[i].offset = out[i].offset
    BY <2>1, OutEventsAre
  <2>3. out[i].offset \in Nat
    BY <2>1, OutEventFields
  <2> HIDE DEF vst
  <2> QED BY <2>1, <2>2, <2>3
<1>6. Latest(vst, own) = m
  <2> HIDE DEF vst
  <2>1. ASSUME NEW j \in own \ {m} PROVE Earlier(vst, j, m)
    <3>1. j \in 1..Len(out) /\ m \in 1..Len(out) /\ j =< m
      BY <1>5
    <3>2. j < m /\ j \in 1..m
      BY <1>1, <3>1
    <3>3. out[j].offset <= out[m].offset
      BY <3>1, <3>2 DEF InTime
    <3>4. vst[j].offset \in Int /\ vst[m].offset \in Int /\ vst[j].offset <= vst[m].offset
      BY <1>5, <3>3
    <3> QED BY <3>2, <3>4 DEF Earlier
  <2>2. \A j \in own : j \in Int /\ vst[j].offset \in Int
    BY <1>5
  <2> QED BY <2>1, <2>2, LatestIs
<1> QED BY <1>4, <1>5, <1>6 DEF own

-----------------------------------------------------------------------------
(* Block by block. *)

HeldOK == held \in Seq(Note) /\ Unique(held)

\* a block with these notes and points, taken in the order s
Took(last, notes, points, s) ==
  /\ last \in Nat
  /\ notes \in Seq(NoteEvents(last)) /\ InOrder(notes) /\ points \in Seq(Points(last))
  /\ notes \o points \in Seq(InEvents(last)) /\ s \in Sorted(notes \o points)
  /\ s \in Seq(InEvents(last)) /\ InOrder(s)
  /\ held' = ProcessEvents(s).held
  /\ meant' = MeantAfter(meant, ProcessEvents(s).out)
  /\ controls' = ControlsAfter(controls, GenerateOutEvents(ProcessEvents(s).out, last))
  /\ sounding' = SoundingAfter(sounding, GenerateOutEvents(ProcessEvents(s).out, last))
  /\ keys' = PressedAfter(keys, notes)
  /\ unsure' = UnsureAfter(unsure, notes, IsStable(notes \o points))

LEMMA BlockIsTaken ==
  ASSUME EventsNext
  PROVE  \E last, notes, points, s : Took(last, notes, points, s)
<1>0. PICK length \in BlockLengths :
        \E notes \in EventLists(NoteEvents(length - 1), MaxNotes),
           points \in EventLists(Points(length - 1), MaxPoints) :
             ProcessBlock(notes, points, length - 1)
  BY DEF EventsNext
<1>1. PICK notes \in EventLists(NoteEvents(length - 1), MaxNotes),
           points \in EventLists(Points(length - 1), MaxPoints) :
        ProcessBlock(notes, points, length - 1)
  BY <1>0
<1>2. PICK last \in Nat : last = length - 1
  BY BlockAssumption
<1>3. /\ notes \in Seq(NoteEvents(last)) /\ InOrder(notes)
      /\ points \in Seq(Points(last))
  BY <1>2, BlockAssumption, EventListsAre
<1>4. notes \in Seq(InEvents(last)) /\ points \in Seq(InEvents(last))
  <2>1. notes \in [1..Len(notes) -> NoteEvents(last)] /\ Len(notes) \in Nat
    BY <1>3
  <2>2. points \in [1..Len(points) -> Points(last)] /\ Len(points) \in Nat
    BY <1>3
  <2>3. NoteEvents(last) \subseteq InEvents(last) /\ Points(last) \subseteq InEvents(last)
    BY DEF InEvents
  <2>4. /\ notes \in [1..Len(notes) -> InEvents(last)]
        /\ points \in [1..Len(points) -> InEvents(last)]
    BY <2>1, <2>2, <2>3
  <2> QED BY <2>1, <2>2, <2>4
<1>5. notes \o points \in Seq(InEvents(last))
  BY <1>4, ConcatElements
<1>6. PICK s \in Sorted(notes \o points) :
        /\ held' = ProcessEvents(s).held
        /\ meant' = MeantAfter(meant, ProcessEvents(s).out)
        /\ controls' = ControlsAfter(controls, GenerateOutEvents(ProcessEvents(s).out, last))
        /\ sounding' = SoundingAfter(sounding, GenerateOutEvents(ProcessEvents(s).out, last))
  BY <1>1, <1>2 DEF ProcessBlock
<1>7. s \in Seq(InEvents(last)) /\ InOrder(s)
  <2>1. PICK events \in Seq(InEvents(last)) : events = notes \o points
    BY <1>5
  <2> QED BY <2>1, SortedAre
<1>8. /\ keys' = PressedAfter(keys, notes)
      /\ unsure' = UnsureAfter(unsure, notes, IsStable(notes \o points))
  BY <1>1 DEF ProcessBlock
<1>9. Took(last, notes, points, s)
  BY <1>3, <1>5, <1>6, <1>7, <1>8 DEF Took
<1> QED BY <1>9

LEMMA BlockBalances ==
  ASSUME HeldOK, NEW last, NEW notes, NEW points, NEW s, Took(last, notes, points, s)
  PROVE  /\ ProcessEvents(s).held \in Seq(Note) /\ Unique(ProcessEvents(s).held)
         /\ ProcessEvents(s).out \in Seq(OutEvents)
         /\ InTime(ProcessEvents(s).out, last) /\ Overwritten(ProcessEvents(s).out, {})
         /\ \A n \in Note : /\ n \in ToSet(ProcessEvents(s).held)
                                <=> Heard(ProcessEvents(s).out, n, ToSet(held))
                            /\ n \in ToSet(ProcessEvents(s).held)
                                <=> Pressed(s, Len(s), n, ToSet(held))
<1> DEFINE p == ProcessEvents(s)
           off == IF Len(s) = 0 THEN 0 ELSE s[Len(s)].offset
<1>1. last \in Nat /\ s \in Seq(InEvents(last)) /\ InOrder(s) /\ Len(s) \in Nat
  BY DEF Took
<1>2. Goes(p, s, Len(s))
  BY <1>1, ProcessEventsGo DEF HeldOK
<1> HIDE DEF p
<1>3. /\ Balanced(p, off, {}, ToSet(p.held), ToSet(held))
      /\ \A n \in Note : n \in ToSet(p.held) <=> Pressed(s, Len(s), n, ToSet(held))
  BY <1>2 DEF Goes
<1>4. off \in 0..last
  <2>1. Len(s) # 0 => s[Len(s)] \in InEvents(last)
    BY <1>1
  <2>2. Len(s) # 0 => s[Len(s)].offset \in 0..last
    BY <1>1, <2>1, InEventFields
  <2> QED BY <1>1, <2>2
<1> HIDE DEF off
<1>5. /\ p \in ProxyStates /\ InTime(p.out, off) /\ Overwritten(p.out, {})
      /\ \A n \in Note : n \in ToSet(p.held) <=> Heard(p.out, n, ToSet(held))
  BY <1>3 DEF Balanced
<1>6. p.held \in Seq(Note) /\ Unique(p.held) /\ p.out \in Seq(OutEvents)
  BY <1>5, ProxyFields
<1>7. InTime(p.out, last)
  <2>1. ASSUME NEW i \in 1..Len(p.out) PROVE p.out[i].offset <= last
    <3>1. p.out[i] \in OutEvents /\ p.out[i].offset <= off
      BY <1>5, <1>6 DEF InTime
    <3>2. p.out[i].offset \in Nat
      BY <3>1, OutEventFields
    <3> QED BY <1>1, <1>4, <3>1, <3>2
  <2> QED BY <1>5, <2>1 DEF InTime
<1> QED BY <1>3, <1>5, <1>6, <1>7 DEF p

LEMMA BlockKeepsHeldOK ==
  ASSUME HeldOK, [EventsNext]_event_vars
  PROVE  HeldOK'
<1>1. CASE EventsNext
  <2>1. PICK last, notes, points, s : Took(last, notes, points, s)
    BY <1>1, BlockIsTaken
  <2>2. ProcessEvents(s).held \in Seq(Note) /\ Unique(ProcessEvents(s).held)
    BY <2>1, BlockBalances
  <2>3. held' = ProcessEvents(s).held
    BY <2>1 DEF Took
  <2> QED BY <2>2, <2>3 DEF HeldOK
<1>2. CASE UNCHANGED event_vars
  BY <1>2 DEF event_vars, HeldOK
<1> QED BY <1>1, <1>2

LEMMA SameControls ==
  ASSUME NEW last \in Nat, NEW out \in Seq(OutEvents), NEW n
  PROVE  /\ ControlsOf(GenerateOutEvents(out, last), n) = ControlsOf(out, n)
         /\ TonesOf(GenerateOutEvents(out, last), n) = TonesOf(out, n)
<1> DEFINE vst == GenerateOutEvents(out, last)
<1>1. DOMAIN out = 1..Len(out)
  OBVIOUS
<1>2. DOMAIN vst = 1..Len(out)
  BY <1>1 DEF GenerateOutEvents
<1>3. \A i \in 1..Len(out) : vst[i].type = out[i].type /\ vst[i].note = out[i].note
  BY OutEventsAre
<1> HIDE DEF vst
<1>4. ControlsOf(vst, n) = ControlsOf(out, n) /\ TonesOf(vst, n) = TonesOf(out, n)
  BY <1>1, <1>2, <1>3 DEF ControlsOf, TonesOf
<1> QED BY <1>4 DEF vst

(***************************************************************************)
(* However controllers are moved within a block, the receiver ends with    *)
(* the value that Proxy sent to each channel last.                         *)
(***************************************************************************)
THEOREM ControllersEndWhereSent == EventsSpec => []LastValuesArrive
<1>1. EventsInit => HeldOK /\ LastValuesArrive
  BY DEF EventsInit, HeldOK, LastValuesArrive, Unique
<1>2. HeldOK /\ LastValuesArrive /\ [EventsNext]_event_vars => HeldOK' /\ LastValuesArrive'
  <2> SUFFICES ASSUME HeldOK, LastValuesArrive, [EventsNext]_event_vars
               PROVE  LastValuesArrive'
    BY BlockKeepsHeldOK
  <2>1. CASE EventsNext
    <3>1. PICK last, notes, points, s : Took(last, notes, points, s)
      BY <2>1, BlockIsTaken
    <3> DEFINE out == ProcessEvents(s).out
               vst == GenerateOutEvents(out, last)
    <3>2. last \in Nat /\ meant' = MeantAfter(meant, out) /\ controls' = ControlsAfter(controls, vst)
      BY <3>1 DEF Took
    <3>3. out \in Seq(OutEvents) /\ InTime(out, last) /\ Overwritten(out, {})
      BY <3>1, BlockBalances
    <3> HIDE DEF out
    <3>4. ASSUME NEW n \in Note PROVE controls'[n] = meant'[n]
      <4> DEFINE own == ControlsOf(out, n)
      <4>1. ControlsOf(vst, n) = own
        BY <3>2, <3>3, SameControls
      <4>2. own # {} => Latest(vst, own) = Max(own) /\ vst[Max(own)].value = out[Max(own)].value
        BY <3>2, <3>3, LastControlArrives
      <4>3. meant'[n] = IF own = {} THEN meant[n] ELSE out[Max(own)].value
        BY <3>2 DEF MeantAfter
      <4> HIDE DEF vst
      <4>4. controls'[n] = IF ControlsOf(vst, n) = {} THEN controls[n]
                           ELSE vst[Latest(vst, ControlsOf(vst, n))].value
        BY <3>2 DEF ControlsAfter
      <4> HIDE DEF own
      <4> QED BY <4>1, <4>2, <4>3, <4>4 DEF LastValuesArrive
    <3>5. controls' = [n \in Note |-> controls'[n]] /\ meant' = [n \in Note |-> meant'[n]]
      BY <3>2 DEF ControlsAfter, MeantAfter
    <3>6. [n \in Note |-> controls'[n]] = [n \in Note |-> meant'[n]]
      BY <3>4
    <3> QED BY <3>5, <3>6 DEF LastValuesArrive
  <2>2. CASE UNCHANGED event_vars
    BY <2>2 DEF event_vars, LastValuesArrive
  <2> QED BY <2>1, <2>2
<1> QED BY <1>1, <1>2, PTL DEF EventsSpec

(***************************************************************************)
(* The receiver sounds what Proxy holds after every block, and that is     *)
(* what the keys say, whatever starts and ends at the same sample, but for *)
(* the keys whose order in time std::sort may have lost.                   *)
(***************************************************************************)
THEOREM KeysStayHeld == EventsSpec => []KeysAreHeld
<1>1. EventsInit => HeldOK /\ KeysAreHeld
  BY DEF EventsInit, HeldOK, KeysAreHeld, Unique, ToSet
<1>2. HeldOK /\ KeysAreHeld /\ [EventsNext]_event_vars => HeldOK' /\ KeysAreHeld'
  <2> SUFFICES ASSUME HeldOK, KeysAreHeld, [EventsNext]_event_vars
               PROVE  KeysAreHeld'
    BY BlockKeepsHeldOK
  <2>1. CASE EventsNext
    <3>1. PICK last, notes, points, s : Took(last, notes, points, s)
      BY <2>1, BlockIsTaken
    <3> DEFINE p == ProcessEvents(s)
               out == p.out
               vst == GenerateOutEvents(out, last)
    <3>2. /\ last \in Nat /\ held' = p.held /\ sounding' = SoundingAfter(sounding, vst)
          /\ keys' = PressedAfter(keys, notes)
          /\ unsure' = UnsureAfter(unsure, notes, IsStable(notes \o points))
      BY <3>1 DEF Took
    <3>3. p.held \in Seq(Note) /\ out \in Seq(OutEvents) /\ InTime(out, last)
      BY <3>1, BlockBalances
    <3>4. \A n \in Note : /\ n \in ToSet(p.held) <=> Heard(out, n, ToSet(held))
                          /\ n \in ToSet(p.held) <=> Pressed(s, Len(s), n, ToSet(held))
      BY <3>1, BlockBalances
    <3>5. ToSet(held) = sounding /\ \A n \in Note \ unsure : n \in keys <=> n \in sounding
      BY DEF KeysAreHeld
    <3> HIDE DEF p
    <3>6. ToSet(p.held) \subseteq Note
      BY <3>3, ElementsOfSeq
    <3>7. ASSUME NEW n \in Note PROVE n \in sounding' <=> n \in ToSet(p.held)
      <4> DEFINE own == TonesOf(out, n)
      <4> HIDE DEF out
      <4>1. TonesOf(vst, n) = own
        BY <3>2, <3>3, SameControls
      <4>2. own # {} => Latest(vst, own) = Max(own) /\ vst[Max(own)].type = out[Max(own)].type
        BY <3>2, <3>3, LastToneArrives
      <4> HIDE DEF vst
      <4>3. n \in sounding' <=> IF TonesOf(vst, n) = {} THEN n \in sounding
                                ELSE vst[Latest(vst, TonesOf(vst, n))].type = "on"
        BY <3>2 DEF SoundingAfter
      <4>4. Heard(out, n, ToSet(held))
              <=> IF own = {} THEN n \in ToSet(held) ELSE out[Max(own)].type = "on"
        BY DEF Heard
      <4> HIDE DEF own
      <4> QED BY <3>4, <3>5, <4>1, <4>2, <4>3, <4>4
    <3>8. ASSUME NEW n \in Note \ unsure' PROVE n \in keys' <=> n \in ToSet(p.held)
      <4>1. PICK events \in Seq(InEvents(last)) : events = notes \o points
        BY <3>1 DEF Took
      <4>2. /\ notes \in Seq(NoteEvents(last)) /\ InOrder(notes) /\ points \in Seq(Points(last))
            /\ s \in Sorted(events)
        BY <3>1, <4>1 DEF Took
      <4>3. n \notin UnsureAfter(unsure, notes, IsStable(events))
        BY <3>2, <3>8, <4>1
      <4>4. PICK before : before = ToSet(held)
        OBVIOUS
      <4>5. Pressed(s, Len(s), n, before) <=> n \in PressedAfter(before, notes)
        BY <3>2, <4>1, <4>2, <4>3, SortingKeepsKeys
      <4>6. n \in PressedAfter(before, notes) <=> n \in PressedAfter(keys, notes)
        <5>1. CASE TonesOf(notes, n) = {}
          <6>1. n \notin unsure
            BY <4>3, <5>1 DEF UnsureAfter
          <6> QED BY <3>5, <4>4, <5>1, <6>1 DEF PressedAfter
        <5>2. CASE TonesOf(notes, n) # {}
          BY <5>2 DEF PressedAfter
        <5> QED BY <5>1, <5>2
      <4> QED BY <3>2, <3>4, <4>4, <4>5, <4>6
    <3>9. sounding' \subseteq Note /\ keys' \subseteq Note
      BY <3>2 DEF SoundingAfter, PressedAfter
    <3>10. ToSet(p.held) = sounding'
      BY <3>6, <3>7, <3>9
    <3> QED BY <3>2, <3>8, <3>10 DEF KeysAreHeld
  <2>2. CASE UNCHANGED event_vars
    BY <2>2 DEF event_vars, KeysAreHeld
  <2> QED BY <2>1, <2>2
<1> QED BY <1>1, <1>2, PTL DEF EventsSpec
=============================================================================
