---------------------------- MODULE ProxyParams -----------------------------
(***************************************************************************)
(* The parameters of src/src/proxy.cpp and the messages that change them:  *)
(* a parameter's value, the copy of it that other threads may read         *)
(* (param_ratios_atomic), and the dirty flag.  Values are what parameters  *)
(* can be told apart by; a message to a discrete parameter has been        *)
(* rounded to one of them.                                                 *)
(*                                                                         *)
(* "hides" is history, which no handler reads: whether the dirty flag told *)
(* of a change and a message that changed nothing took that back, because  *)
(* process_message assigns the flag where it should only raise it.         *)
(***************************************************************************)
EXTENDS Naturals, Sequences

CONSTANTS
  ParamCount,    \* PARAM_ID_COUNT
  Values,        \* what a parameter can be set to
  DefaultValue   \* the default of every parameter

ASSUME ParamCountAssumption == ParamCount \in Nat \ {0}
ASSUME DefaultValueAssumption == DefaultValue \in Values

ParamId == 1..ParamCount
Settings == [ParamId -> Values]
Defaults == [id \in ParamId |-> DefaultValue]

\* Proxy's params, param_ratios_atomic and is_dirty_
ParamStates == [params : Settings, ratios : Settings, is_dirty : BOOLEAN,
                hides : BOOLEAN]

FreshParams == [params |-> Defaults, ratios |-> Defaults, is_dirty |-> FALSE,
                hides |-> FALSE]

SetParam(id, value) == [type |-> "SET_PARAM", id |-> id, value |-> value]
RefreshParam(id) == [type |-> "REFRESH_PARAM", id |-> id]
ClearMessage == [type |-> "CLEAR"]
ClearDirtyFlag == [type |-> "CLEAR_DIRTY_FLAG"]

Messages ==
  {SetParam(id, value) : id \in ParamId, value \in Values}
    \cup {RefreshParam(id) : id \in ParamId} \cup {ClearMessage, ClearDirtyFlag}

-----------------------------------------------------------------------------
(* Handlers of messages, run by the audio thread. *)

\* mutant of HandleRefreshParam: other threads never see the new value
HandleRefreshParamNot(px, id) == px

HandleRefreshParam(px, id) == [px EXCEPT !.ratios[id] = px.params[id]]

\* mutant of HandleSetParam: compares with the default, not with the old value
HandleSetParamFromDefault(px, id, value) ==
  [HandleRefreshParam([px EXCEPT !.params[id] = value], id)
     EXCEPT !.is_dirty = value # DefaultValue,
            !.hides = @ \/ (px.is_dirty /\ px.params[id] = value)]

HandleSetParam(px, id, value) ==
  [HandleRefreshParam([px EXCEPT !.params[id] = value], id)
     EXCEPT !.is_dirty = px.params[id] # value,
            !.hides = @ \/ (px.is_dirty /\ px.params[id] = value)]

\* handle_clear sets every parameter to its default
HandleClear(px) ==
  [params |-> Defaults, ratios |-> Defaults, is_dirty |-> px.params # Defaults,
   hides |-> px.hides \/ (px.is_dirty /\ px.params = Defaults)]

ProcessMessage(px, m) ==
  CASE m.type = "SET_PARAM"        -> HandleSetParam(px, m.id, m.value)
    [] m.type = "REFRESH_PARAM"    -> HandleRefreshParam(px, m.id)
    [] m.type = "CLEAR"            -> HandleClear(px)
    [] m.type = "CLEAR_DIRTY_FLAG" -> [px EXCEPT !.is_dirty = FALSE]

\* the parameters after each of the messages ms
After(px, ms) ==
  LET after[k \in 0..Len(ms)] ==
        IF k = 0 THEN px ELSE ProcessMessage(after[k - 1], ms[k])
  IN  after

ProcessMessages(px, ms) == After(px, ms)[Len(ms)]

-----------------------------------------------------------------------------
(* The serializer.  A serialized state is the settings that are read back  *)
(* from it: it lists the parameters that differ from their defaults.       *)

Serialize(px) == px.ratios

NonDefaultSettings(settings) ==
  LET listed[k \in 0..ParamCount] ==
        IF k = 0 THEN <<>>
        ELSE IF settings[k] = DefaultValue THEN listed[k - 1]
        ELSE Append(listed[k - 1], SetParam(k, settings[k]))
  IN  listed[ParamCount]

\* mutant of ImportMessages: parameters that are not listed keep their values
ImportMessagesWithoutClear(settings) == NonDefaultSettings(settings)

\* the messages that process_lines sends
ImportMessages(settings) == <<ClearMessage>> \o NonDefaultSettings(settings)

ImportSettings(px, settings) == ProcessMessages(px, ImportMessages(settings))
=============================================================================
