----------------------------- MODULE MpeVoices ------------------------------
(***************************************************************************)
(* What Proxy promises to an MPE receiver: every sounding note has a       *)
(* member channel to itself, and every member channel is either free or    *)
(* has one note.  Which note is stolen, which free channel is taken, and   *)
(* when notes end is left open.                                            *)
(***************************************************************************)
CONSTANTS Note, ChannelSets   \* the sets of member channels a zone can have

VARIABLES assigned,   \* the channel of each sounding note
          free        \* the member channels with no note

voice_vars == <<assigned, free>>

Sounding == DOMAIN assigned

Channels(notes) == {assigned[n] : n \in notes}

VoicesInit == /\ assigned = [n \in {} |-> 0]
              /\ free \in ChannelSets

Start(n) ==
  /\ n \notin Sounding
  /\ \E c \in free :
       /\ assigned' = [m \in Sounding \cup {n} |-> IF m = n THEN c ELSE assigned[m]]
       /\ free' = free \ {c}

TakeOver(n, victim) ==
  /\ n \notin Sounding /\ victim \in Sounding /\ free = {}
  /\ assigned' = [m \in (Sounding \ {victim}) \cup {n} |->
                    IF m = n THEN assigned[victim] ELSE assigned[m]]
  /\ UNCHANGED free

Stop(notes) ==
  /\ notes # {} /\ notes \subseteq Sounding
  /\ assigned' = [m \in Sounding \ notes |-> assigned[m]]
  /\ free' = free \cup Channels(notes)

Reconfigure ==
  /\ assigned' = [n \in {} |-> 0]
  /\ free' \in ChannelSets

VoicesNext ==
  \/ \E n \in Note : Start(n) \/ \E victim \in Note : TakeOver(n, victim)
  \/ \E notes \in SUBSET Note : Stop(notes)
  \/ Reconfigure

VoicesSpec == VoicesInit /\ [][VoicesNext]_voice_vars

(***************************************************************************)
(* No two sounding notes share a channel, no free channel has a note, and  *)
(* the channels in play are those of one zone: none is lost or invented.   *)
(***************************************************************************)
OneNotePerChannel ==
  /\ \A n, m \in Sounding : assigned[n] = assigned[m] => n = m
  /\ Channels(Sounding) \cap free = {}
  /\ Channels(Sounding) \cup free \in ChannelSets
=============================================================================
