--------------------------- MODULE MidiDispatcher ---------------------------
(***************************************************************************)
(* Reading the first message of a buffer of MIDI bytes (src/src/midi.hpp,  *)
(* EventDispatcher::dispatch_event), with running status: a handler        *)
(* remembers the last status byte, and data bytes at the start of a buffer *)
(* are read as if that byte came first.                                    *)
(***************************************************************************)
EXTENDS Integers, Sequences

Byte == 0..255

\* running_status of a handler that has seen no status byte
NO_STATUS == 0

NOTE_OFF == 128
NOTE_ON == 144
AFTERTOUCH == 160
CONTROL_CHANGE == 176
PROGRAM_CHANGE == 192
CHANNEL_PRESSURE == 208
PITCH_BEND_CHANGE == 224
CONTROL_CHANGE_ALL_SOUND_OFF == 120

IsStatusByte(byte) == byte >= 128

MessageType(status) == status - (status % 16)

\* the data bytes of a message; system messages have none that are read
DataBytes(status) ==
  CASE MessageType(status) \in {NOTE_OFF, NOTE_ON, AFTERTOUCH, CONTROL_CHANGE,
                                PITCH_BEND_CHANGE} -> 2
    [] MessageType(status) \in {PROGRAM_CHANGE, CHANNEL_PRESSURE} -> 1
    [] OTHER -> 0

NoEvent == [type |-> "none", number |-> 0]

(***************************************************************************)
(* The handler that is called: its number is the note or the controller.   *)
(***************************************************************************)
EventOf(status, data) ==
  LET Event(type) == [type |-> type, number |-> data[1]]
  IN  CASE MessageType(status) = NOTE_OFF -> Event("note_off")
        [] MessageType(status) = NOTE_ON -> Event(IF data[2] = 0 THEN "note_off" ELSE "note_on")
        [] MessageType(status) = CONTROL_CHANGE ->
             Event(IF data[1] < CONTROL_CHANGE_ALL_SOUND_OFF THEN "control_change"
                                                            ELSE "channel_mode")
        [] MessageType(status) = CHANNEL_PRESSURE -> Event("channel_pressure")
        [] MessageType(status) = PITCH_BEND_CHANGE -> Event("pitch_wheel_change")
        [] OTHER -> Event("unused")

\* what a handler remembers and which of its functions is called
DispatchEvent(running_status, buffer) ==
  LET begins == IsStatusByte(buffer[1])
      status == IF begins THEN buffer[1] ELSE running_status
      first == IF begins THEN 2 ELSE 1
      last == first + DataBytes(status) - 1
      is_complete == /\ last >= first /\ last <= Len(buffer)
                     /\ \A i \in first..last : ~IsStatusByte(buffer[i])
  IN  [running_status |-> status,
       event |-> IF is_complete THEN EventOf(status, SubSeq(buffer, first, last))
                                ELSE NoEvent]
=============================================================================
