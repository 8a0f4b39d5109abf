---------------------------- MODULE ProxyProofs -----------------------------
(***************************************************************************)
(* Proofs about Proxy, for every set of notes, zone settings and excess    *)
(* note handling modes.  They begin with the linked list of NoteList, which*)
(* deferred Note Offs are kept in, and with what each handler does to a    *)
(* note state.  The theorems come in two forms: for a sustain pedal that is*)
(* used plainly (PlainPedalling), and without that condition for sustain   *)
(* pedal handling switched off, its default.  The last part is about       *)
(* NoteStack: the linked list that the program keeps where Proxy.tla has a *)
(* sequence of held notes stands for that sequence.                        *)
(***************************************************************************)
EXTENDS Proxy, NoteStack, StackLemmas, FiniteSetTheorems

VoiceRecords ==
  [stack : Seq(Note), below : Seq(Note), above : Seq(Note),
   channel : [Note -> MIDI_CHANNELS \cup {INVALID_CHANNEL}],
   available : Seq(MIDI_CHANNELS), deferred : List, events : Seq(Events)]

(***************************************************************************)
(* The note state v is in order while the handler has the channels inHand  *)
(* (none or one) that it took from a note or from available_channels.      *)
(***************************************************************************)
HalvesOK(z, v) ==
  /\ Unique(v.above) /\ ToSet(v.above) = {n \in ToSet(v.stack) : IsAboveAnchor(z, n)}
  /\ Unique(v.below) /\ ToSet(v.below) = {n \in ToSet(v.stack) : ~IsAboveAnchor(z, n)}
  /\ Before(v.above) \subseteq Before(v.stack) /\ Before(v.below) \subseteq Before(v.stack)

ChannelsOK(z, v, inHand) ==
  LET used == {v.channel[n] : n \in ToSet(v.stack)}
      free == ToSet(v.available)
  IN  /\ \A n, m \in ToSet(v.stack) : v.channel[n] = v.channel[m] => n = m
      /\ used \cap free = {} /\ used \cap inHand = {} /\ free \cap inHand = {}
      /\ used \cup free \cup inHand = ToSet(MemberChannels(z))

CountOK(z, v, inHand) ==
  Len(v.stack) + Len(v.available) + (IF inHand = {} THEN 0 ELSE 1) = z.channel_count

VoicesOK(z, v, inHand) ==
  /\ v \in VoiceRecords
  /\ Unique(v.stack) /\ Unique(v.available)
  /\ HalvesOK(z, v)
  /\ ChannelsOK(z, v, inHand)
  /\ CountOK(z, v, inHand)

-----------------------------------------------------------------------------
(* The constants' assumptions, unfolded: what a zone is. *)
LEMMA ZoneFacts ==
  ASSUME NEW z \in ZoneSettings
  PROVE  /\ z.channel_count \in 1..15 /\ z.manager_channel \in {0, 15}
         /\ z.offset_below_anchor \in Int /\ z.offset_above_anchor \in Int
         /\ z.anchor \in Int
  BY ZoneAssumption DEF ZoneSettingSet, MPE_MEMBER_CHANNELS_MAX

(* A zone's member channels are distinct, channel_count of them, in 0..15. *)
LEMMA MemberChannelFacts ==
  ASSUME NEW z \in ZoneSettings
  PROVE  /\ MemberChannels(z) \in Seq(MIDI_CHANNELS)
         /\ Unique(MemberChannels(z))
         /\ Len(MemberChannels(z)) = z.channel_count
         /\ MemberChannels(z) # <<>>
<1> DEFINE s == MemberChannels(z)
<1>1. /\ z.channel_count \in 1..15 /\ z.manager_channel \in {0, 15}
  BY ZoneFacts
<1>2. s = [i \in 1..z.channel_count |-> IF z.manager_channel = 0 THEN i ELSE 15 - i]
  BY DEF MemberChannels
<1> HIDE DEF s
<1>3. \A i \in 1..z.channel_count : s[i] \in MIDI_CHANNELS
  BY <1>1, <1>2 DEF MIDI_CHANNELS
<1>4. s \in Seq(MIDI_CHANNELS) /\ DOMAIN s = 1..z.channel_count
  <2>1. s \in [1..z.channel_count -> MIDI_CHANNELS] /\ z.channel_count \in Nat
    <3>1. z.channel_count \in Nat
      BY <1>1
    <3>2. s \in [1..z.channel_count -> MIDI_CHANNELS]
      BY <1>2, <1>3, Zenon
    <3> QED BY <3>1, <3>2
  <2> QED BY <2>1
<1>5. Len(s) = z.channel_count
  BY <1>1, <1>4
<1>6. Unique(s)
  BY <1>1, <1>2, <1>4 DEF Unique
<1> QED BY <1>1, <1>4, <1>5, <1>6 DEF s

(* The order of elements, by their positions. *)
LEMMA BeforeByPosition ==
  ASSUME NEW s, NEW e, NEW f
  PROVE  <<e, f>> \in Before(s) <=> \E i, j \in DOMAIN s : i < j /\ e = s[i] /\ f = s[j]
<1>1. \A i \in DOMAIN s : s[i] \in ToSet(s)
  BY DEF ToSet
<1> QED BY <1>1 DEF Before

(* What is pushed in front stands before all others. *)
LEMMA BeforeAfterPush ==
  ASSUME NEW s \in Seq(Note), NEW n \in Note
  PROVE  Before(<<n>> \o s) = Before(s) \cup {<<n, m>> : m \in ToSet(s)}
<1> DEFINE t == <<n>> \o s
<1>1. /\ Len(t) = Len(s) + 1 /\ Len(s) \in Nat /\ t \in Seq(Note)
      /\ t[1] = n /\ \A i \in 1..Len(s) : t[i + 1] = s[i]
  BY PushInFront
<1> HIDE DEF t
<1>2. DOMAIN s = 1..Len(s) /\ DOMAIN t = 1..Len(t) /\ ToSet(s) = {s[i] : i \in 1..Len(s)}
  BY <1>1, ElementsOfSeq
<1>3. ASSUME NEW p \in Before(t) PROVE p \in Before(s) \cup {<<n, m>> : m \in ToSet(s)}
  <2>1. PICK i \in 1..Len(t), j \in 1..Len(t) : i < j /\ p = <<t[i], t[j]>>
    BY <1>2 DEF Before
  <2>2. j - 1 \in 1..Len(s) /\ t[j] = s[j - 1]
    <3>1. j - 1 \in 1..Len(s) /\ (j - 1) + 1 = j
      BY <1>1, <2>1
    <3> QED BY <1>1, <3>1
  <2>3. CASE i = 1
    BY <1>1, <1>2, <2>1, <2>2, <2>3
  <2>4. CASE i # 1
    <3>1. i - 1 \in 1..Len(s) /\ (i - 1) + 1 = i /\ i - 1 < j - 1
      BY <1>1, <2>1, <2>4
    <3>2. t[i] = s[i - 1]
      BY <1>1, <3>1
    <3>3. <<s[i - 1], s[j - 1]>> \in Before(s)
      BY <1>2, <2>2, <3>1, BeforeByPosition
    <3> QED BY <2>1, <2>2, <3>2, <3>3
  <2> QED BY <2>3, <2>4
<1>4. ASSUME NEW p \in Before(s) PROVE p \in Before(t)
  <2>1. PICK i \in 1..Len(s), j \in 1..Len(s) : i < j /\ p = <<s[i], s[j]>>
    BY <1>2 DEF Before
  <2>2. i + 1 \in DOMAIN t /\ j + 1 \in DOMAIN t /\ i + 1 < j + 1
        /\ p = <<t[i + 1], t[j + 1]>>
    BY <1>1, <1>2, <2>1
  <2> QED BY <2>2, BeforeByPosition
<1>5. ASSUME NEW m \in ToSet(s) PROVE <<n, m>> \in Before(t)
  <2>1. PICK j \in 1..Len(s) : m = s[j]
    BY <1>2
  <2>2. 1 \in DOMAIN t /\ j + 1 \in DOMAIN t /\ 1 < j + 1 /\ n = t[1] /\ m = t[j + 1]
    BY <1>1, <1>2, <2>1
  <2> QED BY <2>2, BeforeByPosition
<1> QED BY <1>3, <1>4, <1>5 DEF t

(* Removing an element leaves the order of the others. *)
LEMMA BeforeAfterRemove ==
  ASSUME NEW s \in Seq(Note), Unique(s), NEW n \in ToSet(s)
  PROVE  Before(RemoveFirst(s, n)) = {p \in Before(s) : p[1] # n /\ p[2] # n}
<1> DEFINE t == RemoveFirst(s, n)
<1>1. /\ t \in Seq(Note) /\ Len(t) = Len(s) - 1 /\ Len(s) \in Nat
  BY RemovedPosition
<1>2. PICK k \in 1..Len(s) :
        /\ s[k] = n /\ \A i \in 1..Len(s) : i # k => s[i] # n
        /\ \A i \in 1..(k - 1) : t[i] = s[i]
        /\ \A i \in k..(Len(s) - 1) : t[i] = s[i + 1]
  BY RemovedPosition
<1> HIDE DEF t
<1>3. DOMAIN s = 1..Len(s) /\ DOMAIN t = 1..(Len(s) - 1)
  BY <1>1
<1> DEFINE old(i) == IF i < k THEN i ELSE i + 1
           new(i) == IF i < k THEN i ELSE i - 1
<1>4. ASSUME NEW i \in 1..(Len(s) - 1)
      PROVE  old(i) \in 1..Len(s) /\ t[i] = s[old(i)] /\ t[i] # n
  BY <1>1, <1>2
<1>5. ASSUME NEW i \in 1..Len(s), i # k
      PROVE  new(i) \in 1..(Len(s) - 1) /\ t[new(i)] = s[i]
  <2>1. CASE i < k
    BY <1>1, <1>2, <2>1
  <2>2. CASE i > k
    <3>1. i - 1 \in k..(Len(s) - 1) /\ (i - 1) + 1 = i
      BY <1>1, <2>2
    <3> QED BY <1>1, <1>2, <2>2, <3>1
  <2> QED BY <1>5, <2>1, <2>2
<1>6. ASSUME NEW p \in Before(t) PROVE p \in Before(s) /\ p[1] # n /\ p[2] # n
  <2>1. PICK i \in DOMAIN t, j \in DOMAIN t : i < j /\ p = <<t[i], t[j]>>
    BY DEF Before
  <2>2. old(i) < old(j)
    BY <1>1, <1>3, <2>1
  <2>3. <<s[old(i)], s[old(j)]>> \in Before(s)
    BY <1>3, <1>4, <2>2, BeforeByPosition
  <2> QED BY <1>3, <1>4, <2>1, <2>3
<1>7. ASSUME NEW p \in Before(s), p[1] # n, p[2] # n PROVE p \in Before(t)
  <2>1. PICK i \in DOMAIN s, j \in DOMAIN s : i < j /\ p = <<s[i], s[j]>>
    BY DEF Before
  <2>2. i # k /\ j # k
    BY <1>2, <1>7, <2>1
  <2>3. new(i) < new(j)
    BY <1>1, <1>3, <2>1, <2>2
  <2>4. <<t[new(i)], t[new(j)]>> \in Before(t)
    BY <1>3, <1>5, <2>2, <2>3, BeforeByPosition
  <2> QED BY <1>3, <1>5, <2>1, <2>2, <2>4
<1> QED BY <1>6, <1>7 DEF t

(* Order is among elements. *)
LEMMA BeforeElements ==
  ASSUME NEW s \in Seq(Note), NEW p \in Before(s)
  PROVE  p[1] \in ToSet(s) /\ p[2] \in ToSet(s)
  BY DEF Before, ToSet

(* Transposed pitches stay within the MIDI notes. *)
LEMMA EventType ==
  ASSUME zone \in ZoneSettings, NEW type \in {"on", "off"},
         NEW c \in MIDI_CHANNELS \cup {INVALID_CHANNEL}, NEW n \in Note
  PROVE  NoteEvent(type, c, n) \in Events
<1>1. n \in Int
  BY NoteAssumption
<1>2. Transpose(zone, n) \in 0..127
  BY <1>1, ZoneFacts DEF Transpose
<1> QED BY <1>2 DEF NoteEvent, Events

(* Unlinking a note leaves a well-typed list. *)
LEMMA UnlinkType ==
  ASSUME NEW list \in List, NEW n \in Note
  PROVE  Unlink(list, n) \in List
<1>1. /\ list.next[n] \in OptionalNote /\ list.previous[n] \in OptionalNote
      /\ list.head \in OptionalNote /\ list.oldest \in OptionalNote
      /\ n \in OptionalNote /\ INVALID_NOTE \in OptionalNote
  BY DEF List, OptionalNote
<1>2. ASSUME NEW links \in [Note -> OptionalNote], NEW at \in OptionalNote,
             NEW to \in OptionalNote
      PROVE  Link(links, at, to) \in [Note -> OptionalNote]
  BY <1>2 DEF Link, OptionalNote
<1> QED BY <1>1, <1>2 DEF Unlink, List

(* The empty list is well-typed. *)
LEMMA EmptyListType == EmptyList \in List
  BY DEF EmptyList, List, OptionalNote

-----------------------------------------------------------------------------
(***************************************************************************)
(* The linked list of NoteList: walking along it, and what its operations  *)
(* do to the pointers.                                                     *)
(***************************************************************************)

(***************************************************************************)
(* The list that stands for the sequence s, newest note first: the         *)
(* pointers of the notes in s lead to their neighbours, and no pointer     *)
(* towards newer notes is left with a note that is not in s.               *)
(***************************************************************************)
Pointers(l, s) ==
  /\ l \in List /\ s \in Seq(Note) /\ Unique(s)
  /\ l.head = IF s = <<>> THEN INVALID_NOTE ELSE s[1]
  /\ \A i \in 1..Len(s) :
       /\ l.next[s[i]] = IF i = Len(s) THEN INVALID_NOTE ELSE s[i + 1]
       /\ l.previous[s[i]] = IF i = 1 THEN INVALID_NOTE ELSE s[i - 1]
  /\ \A n \in Note \ ToSet(s) : l.previous[n] = INVALID_NOTE

\* the cached notes are those of s
Oldest(l, s) == l.oldest = IF s = <<>> THEN INVALID_NOTE ELSE s[Len(s)]

LEMMA NotesAreValid ==
  /\ INVALID_NOTE \notin Note /\ Note \subseteq Nat /\ Note \subseteq 0..127
  /\ Note \subseteq Int /\ IsFiniteSet(Note) /\ Cardinality(Note) \in Nat
<1>1. INVALID_NOTE \notin Note /\ Note \subseteq Nat /\ Note \subseteq 0..127 /\ Note \subseteq Int
  BY NoteAssumption DEF INVALID_NOTE
<1>2. IsFiniteSet(0..127)
  <2>1. 0 \in Int /\ 127 \in Int
    OBVIOUS
  <2> QED BY <2>1, FS_Interval
<1>3. IsFiniteSet(Note)
  BY <1>1, <1>2, FS_Subset
<1> QED BY <1>1, <1>3, FS_CardinalityType

LEMMA UniqueIsShort ==
  ASSUME NEW s \in Seq(Note), Unique(s)
  PROVE  Len(s) <= Cardinality(Note)
<1>1. s \in [1..Len(s) -> Note] /\ Len(s) \in Nat /\ DOMAIN s = 1..Len(s)
  OBVIOUS
<1>2. s \in Injection(1..Len(s), Note)
  BY <1>1 DEF Injection, IsInjective, Unique
<1>3. Cardinality(1..Len(s)) <= Cardinality(Note)
  BY <1>2, NotesAreValid, FS_Injection
<1>4. Cardinality(1..Len(s)) = Len(s)
  <2>1. \A m \in Nat : 1 \in Int /\ m \in Int /\ m - 1 + 1 = m /\ (1 > m => m = 0)
    OBVIOUS
  <2>2. \A m \in Nat : Cardinality(1..m) = IF 1 > m THEN 0 ELSE m - 1 + 1
    BY <2>1, FS_Interval
  <2> QED BY <1>1, <2>1, <2>2
<1> QED BY <1>3, <1>4

LEMMA UniqueIsCounted ==
  ASSUME NEW s \in Seq(Note), Unique(s)
  PROVE  Cardinality(ToSet(s)) = Len(s)
<1>1. /\ s \in [1..Len(s) -> ToSet(s)] /\ Len(s) \in Nat /\ DOMAIN s = 1..Len(s)
      /\ ToSet(s) = {s[i] : i \in 1..Len(s)} /\ ToSet(s) \subseteq Note
  BY ElementsOfSeq
<1>2. s \in Injection(1..Len(s), ToSet(s)) /\ s \in Surjection(1..Len(s), ToSet(s))
  BY <1>1 DEF Injection, IsInjective, Unique, Surjection
<1>3. IsFiniteSet(ToSet(s))
  BY <1>1, NotesAreValid, FS_Subset
<1>4. Cardinality(1..Len(s)) = Cardinality(ToSet(s))
  BY <1>2, <1>3, FS_Injection
<1>5. Cardinality(1..Len(s)) = Len(s)
  <2>1. \A m \in Nat : 1 \in Int /\ m \in Int /\ m - 1 + 1 = m /\ (1 > m => m = 0)
    OBVIOUS
  <2>2. \A m \in Nat : Cardinality(1..m) = IF 1 > m THEN 0 ELSE m - 1 + 1
    BY <2>1, FS_Interval
  <2> QED BY <1>1, <2>1, <2>2
<1> QED BY <1>4, <1>5

(* The step of the walk. *)
Onward(l, seen) ==
  LET n == IF seen = <<>> THEN l.head ELSE l.next[Last(seen)]
  IN  IF n = INVALID_NOTE THEN seen ELSE Append(seen, n)

LEMMA OnwardType ==
  ASSUME NEW l \in List, NEW seen \in Seq(Note)
  PROVE  Onward(l, seen) \in Seq(Note)
<1>1. CASE seen = <<>>
  <2>1. l.head \in OptionalNote
    BY DEF List
  <2>2. Onward(l, seen) = IF l.head = INVALID_NOTE THEN seen ELSE Append(seen, l.head)
    BY <1>1 DEF Onward
  <2> QED BY <2>1, <2>2 DEF OptionalNote
<1>2. CASE seen # <<>>
  <2>1. Last(seen) \in Note
    <3>1. Len(seen) \in 1..Len(seen)
      BY <1>2
    <3> QED BY <3>1 DEF Last
  <2>2. PICK n \in OptionalNote : n = l.next[Last(seen)]
    BY <2>1 DEF List
  <2>3. Onward(l, seen) = IF n = INVALID_NOTE THEN seen ELSE Append(seen, n)
    BY <1>2, <2>2 DEF Onward
  <2> QED BY <2>3 DEF OptionalNote
<1> QED BY <1>1, <1>2

LEMMA ChainUnfolds ==
  ASSUME NEW l \in List
  PROVE  \E walk \in [0..Cardinality(Note) -> Seq(Note)] :
           /\ walk[0] = <<>>
           /\ \A k \in 1..Cardinality(Note) : walk[k] = Onward(l, walk[k - 1])
           /\ Chain(l) = walk[Cardinality(Note)]
<1> DEFINE N == Cardinality(Note)
           body(f) == [k \in 0..N |->
                         IF k = 0 THEN <<>>
                         ELSE LET seen == f[k - 1]
                                  n == IF seen = <<>> THEN l.head ELSE l.next[Last(seen)]
                              IN  IF n = INVALID_NOTE THEN seen ELSE Append(seen, n)]
           walk == CHOOSE f : f = body(f)
           Notes == Seq(Note)
<1>1. N \in Nat /\ <<>> \in Notes
  BY NotesAreValid
<1>2. PICK steps \in [1..N -> [Notes -> Notes]] :
        \A k \in 1..N, seen \in Notes : steps[k][seen] = Onward(l, seen)
  <2> DEFINE onward == [seen \in Notes |-> Onward(l, seen)]
             st == [k \in 1..N |-> onward]
  <2>1. onward \in [Notes -> Notes]
    BY OnwardType
  <2>2. st \in [1..N -> [Notes -> Notes]]
    <3> HIDE DEF N, Notes, onward
    <3> QED BY <2>1
  <2>3. \A k \in 1..N, seen \in Notes : st[k][seen] = Onward(l, seen)
    OBVIOUS
  <2> HIDE DEF st
  <2> QED BY <2>2, <2>3
<1>3. PICK g \in [0..N -> Notes] : Follows(g, N, <<>>, steps)
  <2> HIDE DEF N, Notes
  <2> QED BY <1>1, StepwiseRecursion
<1>4. g[0] = <<>> /\ \A k \in 1..N : k - 1 \in 0..N /\ g[k] = Onward(l, g[k - 1])
  <2>1. ASSUME NEW k \in 1..N PROVE k - 1 \in 0..N /\ g[k - 1] \in Notes
    BY <1>1
  <2>2. g[0] = <<>> /\ \A k \in 1..N : g[k] = steps[k][g[k - 1]]
    BY <1>3 DEF Follows
  <2> HIDE DEF N, Notes
  <2> QED BY <1>2, <2>1, <2>2
<1>5. g = body(g)
  <2>1. \A k \in 0..N : k = 0 \/ (k \in 1..N /\ k # 0)
    <3> HIDE DEF N
    <3> QED BY <1>1
  <2>2. \A k \in 1..N : body(g)[k] = Onward(l, g[k - 1])
    <3> HIDE DEF N
    <3>1. \A k \in 1..N : k \in 0..N /\ k # 0
      BY <1>1
    <3> QED BY <3>1 DEF Onward
  <2>3. \A k \in 0..N : g[k] = body(g)[k]
    <3>1. body(g)[0] = <<>>
      BY <1>1
    <3> HIDE DEF body, N
    <3> QED BY <1>1, <1>4, <2>1, <2>2, <3>1
  <2> HIDE DEF N, Notes
  <2> QED BY <2>3
<1>6. walk = body(walk)
  <2> HIDE DEF N
  <2> QED BY <1>5
<1>7. /\ walk[0] = <<>>
      /\ \A k \in 1..N : walk[k] = Onward(l, walk[k - 1])
  <2> HIDE DEF walk
  <2>1. \A k \in 0..N : walk[k] = body(walk)[k]
    BY <1>6
  <2> QED BY <1>1, <2>1 DEF Onward
<1>8. \A k \in 0..N : walk[k] = g[k]
  <2> DEFINE E == {k \in 0..N : walk[k] = g[k]}
  <2> HIDE DEF walk
  <2>1. 0 \in E
    BY <1>1, <1>4, <1>7
  <2>2. \A k \in 1..N : k - 1 \in E => k \in E
    BY <1>1, <1>4, <1>7
  <2>3. \A k \in 0..N : k \in E
    <3> HIDE DEF E, N
    <3> QED BY <1>1, <2>1, <2>2, InductionUpTo
  <2> QED BY <2>3
<1>9. Chain(l) = walk[N]
  BY DEF Chain
<1>10. Chain(l) = g[N] /\ g \in [0..Cardinality(Note) -> Seq(Note)]
  <2> HIDE DEF walk
  <2> QED BY <1>1, <1>8, <1>9
<1> QED BY <1>3, <1>4, <1>10

(* The walk meets the notes of s, in their order. *)
LEMMA ChainIs ==
  ASSUME NEW l, NEW s, Pointers(l, s)
  PROVE  Chain(l) = s
<1> DEFINE N == Cardinality(Note)
<1>1. /\ l \in List /\ s \in Seq(Note) /\ Unique(s) /\ Len(s) \in Nat /\ N \in Nat /\ Len(s) <= N
  BY NotesAreValid, UniqueIsShort DEF Pointers
<1>2. PICK walk \in [0..N -> Seq(Note)] :
        /\ walk[0] = <<>>
        /\ \A k \in 1..N : walk[k] = Onward(l, walk[k - 1])
        /\ Chain(l) = walk[N]
  BY <1>1, ChainUnfolds
<1> HIDE DEF N
<1> DEFINE Met == {k \in 0..N : /\ Len(walk[k]) = IF k <= Len(s) THEN k ELSE Len(s)
                                /\ \A i \in 1..Len(walk[k]) : walk[k][i] = s[i]}
<1>3. 0 \in Met
  BY <1>1, <1>2
<1>4. ASSUME NEW k \in 1..N, k - 1 \in Met PROVE k \in Met
  <2>1. PICK seen \in Seq(Note) :
          /\ seen = walk[k - 1] /\ walk[k] = Onward(l, seen)
          /\ Len(seen) = IF k - 1 <= Len(s) THEN k - 1 ELSE Len(s)
          /\ \A i \in 1..Len(seen) : seen[i] = s[i]
    BY <1>1, <1>2, <1>4
  <2>2. Len(seen) \in Nat /\ Len(seen) <= Len(s) /\ k \in 0..N /\ k \in Nat
    BY <1>1, <2>1
  <2>3. CASE Len(seen) = Len(s)
    <3>1. Onward(l, seen) = seen
      <4>1. CASE s = <<>>
        <5>1. seen = <<>> /\ l.head = INVALID_NOTE
          BY <2>3, <4>1 DEF Pointers
        <5> QED BY <5>1 DEF Onward
      <4>2. CASE s # <<>>
        <5>1. Len(s) \in 1..Len(s) /\ seen # <<>>
          BY <1>1, <2>3, <4>2
        <5>2. Last(seen) = s[Len(s)]
          BY <2>1, <2>3, <5>1 DEF Last
        <5>3. l.next[s[Len(s)]] = INVALID_NOTE
          BY <5>1 DEF Pointers
        <5> QED BY <5>1, <5>2, <5>3 DEF Onward
      <4> QED BY <4>1, <4>2
    <3>2. Len(seen) = IF k <= Len(s) THEN k ELSE Len(s)
      BY <1>1, <2>1, <2>2, <2>3
    <3> QED BY <2>1, <2>2, <3>1, <3>2
  <2>4. CASE Len(seen) < Len(s)
    <3>1. Len(seen) = k - 1 /\ k <= Len(s) /\ k \in 1..Len(s) /\ s[k] \in Note /\ s # <<>>
      BY <1>1, <2>1, <2>2, <2>4
    <3>2. Onward(l, seen) = Append(seen, s[k])
      <4>1. CASE k = 1
        <5>1. seen = <<>> /\ l.head = s[k]
          BY <3>1, <4>1 DEF Pointers
        <5> QED BY <3>1, <5>1, NotesAreValid DEF Onward
      <4>2. CASE k # 1
        <5>1. k - 1 \in 1..Len(s) /\ k - 1 # Len(s) /\ (k - 1) + 1 = k /\ seen # <<>>
          BY <1>1, <3>1, <4>2
        <5>2. Last(seen) = s[k - 1]
          BY <2>1, <3>1, <5>1 DEF Last
        <5>3. l.next[s[k - 1]] = s[k]
          BY <5>1 DEF Pointers
        <5> QED BY <3>1, <5>1, <5>2, <5>3, NotesAreValid DEF Onward
      <4> QED BY <4>1, <4>2
    <3>3. /\ Len(Append(seen, s[k])) = k
          /\ \A i \in 1..k : Append(seen, s[k])[i] = s[i]
      BY <2>1, <3>1
    <3> QED BY <2>1, <2>2, <3>1, <3>2, <3>3
  <2> QED BY <1>1, <2>2, <2>3, <2>4
<1>5. N \in Met
  <2>1. \A k \in 0..N : k \in Met
    <3> HIDE DEF Met
    <3> QED BY <1>1, <1>3, <1>4, InductionUpTo
  <2>2. N \in 0..N
    BY <1>1
  <2> QED BY <2>1, <2>2
<1>6. /\ Chain(l) \in Seq(Note) /\ Len(Chain(l)) = Len(s)
      /\ \A i \in 1..Len(s) : Chain(l)[i] = s[i]
  BY <1>1, <1>2, <1>5
<1>7. \A t, u \in Seq(Note) : Len(t) = Len(u) /\ (\A i \in 1..Len(t) : t[i] = u[i]) => t = u
  OBVIOUS
<1> QED BY <1>1, <1>6, <1>7

-----------------------------------------------------------------------------
(* What the operations do to the pointers. *)

(* find() is membership. *)
LEMMA FindIsMembership ==
  ASSUME NEW l, NEW s, Pointers(l, s), NEW n \in Note
  PROVE  Find(l, n) <=> n \in ToSet(s)
<1>1. s \in Seq(Note) /\ Len(s) \in Nat /\ ToSet(s) = {s[i] : i \in 1..Len(s)}
  BY ElementsOfSeq DEF Pointers
<1>2. ASSUME n \in ToSet(s) PROVE Find(l, n)
  <2>1. PICK i \in 1..Len(s) : s[i] = n
    BY <1>1, <1>2
  <2>2. s # <<>>
    BY <1>1, <2>1
  <2>3. CASE i = 1
    BY <2>1, <2>2, <2>3 DEF Find, Pointers
  <2>4. CASE i # 1
    <3>1. i - 1 \in 1..Len(s) /\ s[i - 1] \in Note
      BY <1>1, <2>4
    <3>2. l.previous[n] = s[i - 1]
      BY <2>1, <2>4 DEF Pointers
    <3> QED BY <3>1, <3>2, NotesAreValid DEF Find
  <2> QED BY <2>3, <2>4
<1>3. ASSUME n \notin ToSet(s) PROVE ~Find(l, n)
  <2>1. l.previous[n] = INVALID_NOTE
    BY <1>3 DEF Pointers
  <2>2. l.head # n
    <3>1. s # <<>> => 1 \in 1..Len(s)
      BY <1>1
    <3> QED BY <1>1, <1>3, <3>1, NotesAreValid DEF Pointers
  <2> QED BY <2>1, <2>2 DEF Find
<1> QED BY <1>2, <1>3

(* A new note becomes the head. *)
LEMMA PushLinks ==
  ASSUME NEW l, NEW s, Pointers(l, s), NEW n \in Note, n \notin ToSet(s)
  PROVE  /\ Pointers(BasicPush(l, n), <<n>> \o s)
         /\ Oldest(l, s) => Oldest(BasicPush(l, n), <<n>> \o s)
         /\ BasicPush(l, n).lowest = l.lowest /\ BasicPush(l, n).highest = l.highest
         /\ \A m \in Note \ {n} : BasicPush(l, n).next[m] = l.next[m]
<1> DEFINE r == BasicPush(l, n)
           t == <<n>> \o s
           aged == [l EXCEPT !.oldest = IF @ = INVALID_NOTE THEN n ELSE @]
<1>1. /\ l \in List /\ s \in Seq(Note) /\ Unique(s) /\ Len(s) \in Nat
      /\ ToSet(s) = {s[i] : i \in 1..Len(s)} /\ (s = <<>> <=> Len(s) = 0)
  BY ElementsOfSeq DEF Pointers
<1>2. /\ l.next \in [Note -> OptionalNote] /\ l.previous \in [Note -> OptionalNote]
      /\ l.head \in OptionalNote /\ l.oldest \in OptionalNote /\ n \in OptionalNote
      /\ l.lowest \in OptionalNote /\ l.highest \in OptionalNote
      /\ INVALID_NOTE \in OptionalNote
  BY <1>1 DEF List, OptionalNote
<1>3. /\ aged \in List /\ aged.head = l.head /\ aged.previous = l.previous
      /\ aged.next = l.next /\ aged.lowest = l.lowest /\ aged.highest = l.highest
      /\ aged.oldest = IF l.oldest = INVALID_NOTE THEN n ELSE l.oldest
  BY <1>1, <1>2 DEF List
<1>4. ~Find(aged, n)
  BY <1>3, FindIsMembership DEF Find
<1>5. r = [aged EXCEPT !.previous = Link(@, aged.head, n),
                       !.next = Link(@, n, aged.head),
                       !.head = n]
  BY <1>4 DEF BasicPush
<1> HIDE DEF aged
<1>6. /\ r.previous = Link(l.previous, l.head, n) /\ r.next = Link(l.next, n, l.head)
      /\ r.head = n /\ r.oldest = aged.oldest
      /\ r.lowest = l.lowest /\ r.highest = l.highest
      /\ r = [next |-> r.next, previous |-> r.previous, head |-> r.head,
              oldest |-> r.oldest, lowest |-> r.lowest, highest |-> r.highest]
  BY <1>3, <1>5 DEF List
<1> HIDE DEF r
<1>7. /\ r.previous \in [Note -> OptionalNote] /\ r.next \in [Note -> OptionalNote]
      /\ \A m \in Note : r.previous[m] = IF m = l.head THEN n ELSE l.previous[m]
      /\ \A m \in Note : r.next[m] = IF m = n THEN l.head ELSE l.next[m]
  <2>1. /\ Link(l.previous, l.head, n) \in [Note -> OptionalNote]
        /\ \A m \in Note :
             Link(l.previous, l.head, n)[m] = IF m = l.head THEN n ELSE l.previous[m]
    BY <1>2, NotesAreValid DEF Link
  <2>2. /\ Link(l.next, n, l.head) \in [Note -> OptionalNote]
        /\ \A m \in Note :
             Link(l.next, n, l.head)[m] = IF m = n THEN l.head ELSE l.next[m]
    BY <1>2, NotesAreValid DEF Link
  <2> QED BY <1>6, <2>1, <2>2
<1>8. r \in List
  BY <1>2, <1>3, <1>6, <1>7 DEF List
<1>9. /\ t \in Seq(Note) /\ Len(t) = Len(s) + 1 /\ t[1] = n
      /\ \A i \in 1..Len(s) : t[i + 1] = s[i]
      /\ ToSet(t) = ToSet(s) \cup {n} /\ Unique(t)
  BY <1>1, PushInFront
<1>10. t # <<>>
  BY <1>1, <1>9
<1> HIDE DEF t
<1>11. l.head = IF s = <<>> THEN INVALID_NOTE ELSE s[1]
  BY DEF Pointers
<1>12. ASSUME NEW i \in 1..Len(t)
       PROVE  /\ r.next[t[i]] = IF i = Len(t) THEN INVALID_NOTE ELSE t[i + 1]
              /\ r.previous[t[i]] = IF i = 1 THEN INVALID_NOTE ELSE t[i - 1]
  <2>1. CASE i = 1
    <3>1. r.next[n] = l.head
      BY <1>7
    <3>2. l.head = IF i = Len(t) THEN INVALID_NOTE ELSE t[i + 1]
      BY <1>1, <1>9, <1>11, <2>1
    <3>3. l.head # n /\ l.previous[n] = INVALID_NOTE
      <4>1. s # <<>> => s[1] \in ToSet(s)
        BY <1>1
      <4> QED BY <1>11, <4>1, NotesAreValid DEF Pointers
    <3> QED BY <1>7, <1>9, <2>1, <3>1, <3>2, <3>3
  <2>2. CASE i # 1
    <3>1. PICK j \in 1..Len(s) : j = i - 1 /\ t[i] = s[j] /\ i = j + 1
      <4>1. i - 1 \in 1..Len(s) /\ (i - 1) + 1 = i
        BY <1>1, <1>9, <2>2
      <4> QED BY <1>9, <4>1
    <3>2. s[j] \in Note /\ s[j] # n /\ s # <<>> /\ 1 \in 1..Len(s)
      BY <1>1, <3>1
    <3>3. r.next[t[i]] = IF j = Len(s) THEN INVALID_NOTE ELSE s[j + 1]
      BY <1>7, <3>1, <3>2 DEF Pointers
    <3>4. j # Len(s) => j + 1 \in 1..Len(s) /\ t[(j + 1) + 1] = s[j + 1]
      BY <1>1, <1>9, <3>1
    <3>5. r.next[t[i]] = IF i = Len(t) THEN INVALID_NOTE ELSE t[i + 1]
      BY <1>1, <1>9, <3>1, <3>3, <3>4
    <3>6. CASE j = 1
      <4>1. s[j] = l.head
        BY <1>11, <3>2, <3>6
      <4> QED BY <1>7, <1>9, <3>1, <3>2, <3>5, <3>6, <4>1
    <3>7. CASE j # 1
      <4>1. s[j] # l.head
        BY <1>1, <1>11, <3>2, <3>7 DEF Unique
      <4>2. r.previous[t[i]] = s[j - 1]
        <5>1. l.previous[s[j]] = s[j - 1]
          BY <3>7 DEF Pointers
        <5> QED BY <1>7, <3>1, <3>2, <4>1, <5>1
      <4>3. t[i - 1] = s[j - 1]
        <5>1. j - 1 \in 1..Len(s) /\ (j - 1) + 1 = i - 1
          BY <1>1, <3>1, <3>7
        <5> QED BY <1>9, <5>1
      <4> QED BY <2>2, <3>5, <4>2, <4>3
    <3> QED BY <3>6, <3>7
  <2> QED BY <2>1, <2>2
<1>13. ASSUME NEW m \in Note \ ToSet(t) PROVE r.previous[m] = INVALID_NOTE
  <2>1. m \notin ToSet(s) /\ l.previous[m] = INVALID_NOTE
    BY <1>9 DEF Pointers
  <2>2. m # l.head
    <3>1. s # <<>> => s[1] \in ToSet(s)
      BY <1>1
    <3> QED BY <1>11, <2>1, <3>1, NotesAreValid
  <2> QED BY <1>7, <2>1, <2>2
<1>14. Pointers(r, t)
  BY <1>6, <1>8, <1>9, <1>10, <1>12, <1>13 DEF Pointers
<1>15. ASSUME Oldest(l, s) PROVE Oldest(r, t)
  <2>1. s = <<>> => Len(t) = 1
    BY <1>1, <1>9
  <2>2. s # <<>> => Len(s) \in 1..Len(s) /\ s[Len(s)] \in Note /\ t[Len(t)] = s[Len(s)]
    BY <1>1, <1>9
  <2> QED BY <1>3, <1>6, <1>9, <1>10, <1>15, <2>1, <2>2, NotesAreValid DEF Oldest
<1>16. \A m \in Note \ {n} : r.next[m] = l.next[m]
  BY <1>7
<1> QED BY <1>6, <1>14, <1>15, <1>16 DEF r, t

(* The notes without the one at place k. *)
LEMMA WithoutPlace ==
  ASSUME NEW s \in Seq(Note), Unique(s), NEW k \in 1..Len(s), NEW n \in Note, n = s[k]
  PROVE  /\ RemoveFirst(s, n) \in Seq(Note) /\ Unique(RemoveFirst(s, n))
         /\ Len(RemoveFirst(s, n)) = Len(s) - 1 /\ Len(s) \in Nat
         /\ ToSet(RemoveFirst(s, n)) = ToSet(s) \ {n} /\ n \in ToSet(s) /\ s # <<>>
         /\ \A i \in 1..(k - 1) : RemoveFirst(s, n)[i] = s[i]
         /\ \A i \in k..(Len(s) - 1) : RemoveFirst(s, n)[i] = s[i + 1]
<1> DEFINE t == RemoveFirst(s, n)
<1>1. /\ Len(s) \in Nat /\ ToSet(s) = {s[i] : i \in 1..Len(s)} /\ DOMAIN s = 1..Len(s)
  BY ElementsOfSeq
<1>2. \A i, j \in 1..Len(s) : s[i] = s[j] => i = j
  BY <1>1 DEF Unique
<1>3. n \in ToSet(s) /\ s # <<>>
  BY <1>1
<1>4. t \in Seq(Note) /\ Len(t) = Len(s) - 1 /\ Unique(t) /\ ToSet(t) = ToSet(s) \ {n}
  BY <1>3, RemovePresent
<1>5. PICK j \in 1..Len(s) :
        /\ s[j] = n
        /\ \A i \in 1..(j - 1) : t[i] = s[i]
        /\ \A i \in j..(Len(s) - 1) : t[i] = s[i + 1]
  BY <1>3, RemovedPosition
<1>6. j = k
  BY <1>2, <1>5
<1> HIDE DEF t
<1>7. /\ \A i \in 1..(k - 1) : t[i] = s[i]
      /\ \A i \in k..(Len(s) - 1) : t[i] = s[i + 1]
  BY <1>5, <1>6
<1> QED BY <1>1, <1>3, <1>4, <1>7 DEF t

(***************************************************************************)
(* The note that was at place k is out of r when r's pointers are those of *)
(* l with that note's neighbours joined.                                   *)
(***************************************************************************)
Older(s, k) == IF k = Len(s) THEN INVALID_NOTE ELSE s[k + 1]

Newer(s, k) == IF k = 1 THEN INVALID_NOTE ELSE s[k - 1]

JoinsNeighbours(r, l, s, k) ==
  /\ r \in List
  /\ r.head = IF k = 1 THEN Older(s, k) ELSE l.head
  /\ r.previous[s[k]] = INVALID_NOTE
  /\ \A m \in Note \ {s[k]} :
       /\ r.next[m] = IF m = Newer(s, k) THEN Older(s, k) ELSE l.next[m]
       /\ r.previous[m] = IF m = Older(s, k) THEN Newer(s, k) ELSE l.previous[m]

LEMMA TakenOut ==
  ASSUME NEW l, NEW s, Pointers(l, s), NEW k \in 1..Len(s),
         NEW r, JoinsNeighbours(r, l, s, k), NEW n \in Note, n = s[k]
  PROVE  Pointers(r, RemoveFirst(s, n))
<1> DEFINE t == RemoveFirst(s, n)
<1>1. /\ l \in List /\ s \in Seq(Note) /\ Unique(s) /\ Len(s) \in Nat /\ n \in Note
      /\ ToSet(s) = {s[i] : i \in 1..Len(s)} /\ DOMAIN s = 1..Len(s)
  BY ElementsOfSeq DEF Pointers
<1>2. \A i, j \in 1..Len(s) : s[i] = s[j] => i = j
  BY <1>1 DEF Unique
<1>3. /\ t \in Seq(Note) /\ Len(t) = Len(s) - 1 /\ Unique(t)
      /\ ToSet(t) = ToSet(s) \ {n} /\ n \in ToSet(s) /\ s # <<>>
      /\ \A i \in 1..(k - 1) : t[i] = s[i]
      /\ \A i \in k..(Len(s) - 1) : t[i] = s[i + 1]
  <2>1. s \in Seq(Note) /\ Unique(s)
    BY <1>1
  <2> QED BY <2>1, WithoutPlace
<1>4. /\ \A i \in 1..(k - 1) : t[i] = s[i]
      /\ \A i \in k..(Len(s) - 1) : t[i] = s[i + 1]
  BY <1>3
<1> HIDE DEF t
<1>5. r.head = IF t = <<>> THEN INVALID_NOTE ELSE t[1]
  <2>1. l.head = s[1] /\ (t = <<>> <=> Len(s) = 1)
    <3>1. t = <<>> <=> Len(t) = 0
      BY <1>3
    <3>2. Len(t) = 0 <=> Len(s) = 1
      BY <1>1, <1>3
    <3> QED BY <1>3, <3>1, <3>2 DEF Pointers
  <2>2. CASE k = 1
    <3>1. Len(s) # 1 => t[1] = s[2]
      BY <1>1, <1>4, <2>2
    <3> QED BY <2>1, <2>2, <3>1 DEF JoinsNeighbours, Older
  <2>3. CASE k # 1
    <3>1. t[1] = s[1] /\ Len(s) # 1
      BY <1>1, <1>4, <2>3
    <3> QED BY <2>1, <2>3, <3>1 DEF JoinsNeighbours
  <2> QED BY <2>2, <2>3
<1>6. ASSUME NEW i \in 1..Len(t)
      PROVE  /\ r.next[t[i]] = IF i = Len(t) THEN INVALID_NOTE ELSE t[i + 1]
             /\ r.previous[t[i]] = IF i = 1 THEN INVALID_NOTE ELSE t[i - 1]
  <2>0. /\ i \in Int /\ k \in Int /\ Len(s) \in Int /\ Len(t) = Len(s) - 1
        /\ 1 <= i /\ i <= Len(s) - 1 /\ 1 <= k /\ k <= Len(s)
    BY <1>1, <1>3
  <2>1. PICK j \in 1..Len(s) : j = (IF i < k THEN i ELSE i + 1) /\ t[i] = s[j] /\ j # k
    BY <1>1, <1>3, <1>4
  <2>2. s[j] \in Note /\ s[j] # n
    BY <1>1, <1>2, <2>1
  <2>3. l.next[s[j]] = Older(s, j) /\ l.previous[s[j]] = Newer(s, j)
    BY DEF Pointers, Older, Newer
  <2>4. r.next[s[j]] = IF j + 1 = k THEN Older(s, k) ELSE Older(s, j)
    <3>1. s[j] = Newer(s, k) <=> j + 1 = k
      <4>1. k # 1 => k - 1 \in 1..Len(s)
        BY <2>0
      <4>2. k = 1 => j + 1 # k
        BY <2>0
      <4>3. j + 1 = k <=> j = k - 1
        BY <2>0
      <4> QED BY <1>1, <1>2, <2>2, <4>1, <4>2, <4>3, NotesAreValid DEF Newer
    <3> QED BY <2>2, <2>3, <3>1 DEF JoinsNeighbours
  <2>5. r.previous[s[j]] = IF j - 1 = k THEN Newer(s, k) ELSE Newer(s, j)
    <3>1. s[j] = Older(s, k) <=> j - 1 = k
      <4>1. k # Len(s) => k + 1 \in 1..Len(s)
        BY <2>0
      <4>2. k = Len(s) => j - 1 # k
        BY <2>0
      <4>3. j - 1 = k <=> j = k + 1
        BY <2>0
      <4> QED BY <1>1, <1>2, <2>2, <4>1, <4>2, <4>3, NotesAreValid DEF Older
    <3> QED BY <2>2, <2>3, <3>1 DEF JoinsNeighbours
  <2>6. r.next[t[i]] = IF i = Len(t) THEN INVALID_NOTE ELSE t[i + 1]
    <3>1. CASE i < k - 1
      <4>1. j = i /\ j + 1 # k /\ i + 1 \in 1..(k - 1) /\ i # Len(t) /\ j # Len(s)
        BY <2>0, <2>1, <3>1
      <4> QED BY <1>4, <2>1, <2>4, <4>1 DEF Older
    <3>2. CASE i = k - 1
      <4>1. j = i /\ j + 1 = k /\ i + 1 = k /\ (i = Len(t) <=> k = Len(s))
        BY <2>0, <2>1, <3>2
      <4>2. k # Len(s) => k \in k..(Len(s) - 1)
        BY <2>0
      <4> QED BY <1>4, <2>1, <2>4, <4>1, <4>2 DEF Older
    <3>3. CASE i >= k
      <4>1. j = i + 1 /\ j + 1 # k /\ (i = Len(t) <=> j = Len(s))
        BY <2>0, <2>1, <3>3
      <4>2. j # Len(s) => i + 1 \in k..(Len(s) - 1)
        BY <2>0, <3>3, <4>1
      <4> QED BY <1>4, <2>1, <2>4, <4>1, <4>2 DEF Older
    <3> QED BY <1>1, <3>1, <3>2, <3>3
  <2>7. r.previous[t[i]] = IF i = 1 THEN INVALID_NOTE ELSE t[i - 1]
    <3>1. CASE i < k
      <4>1. j = i /\ j - 1 # k /\ (i # 1 => i - 1 \in 1..(k - 1))
        BY <2>0, <2>1, <3>1
      <4> QED BY <1>4, <2>1, <2>5, <4>1 DEF Newer
    <3>2. CASE i = k
      <4>1. j = i + 1 /\ j - 1 = k /\ (i # 1 => i - 1 \in 1..(k - 1))
        BY <2>0, <2>1, <3>2
      <4> QED BY <1>4, <2>1, <2>5, <3>2, <4>1 DEF Newer
    <3>3. CASE i > k
      <4>1. j = i + 1 /\ j - 1 # k /\ i # 1 /\ j # 1 /\ j - 1 = (i - 1) + 1
        BY <2>0, <2>1, <3>3
      <4>2. i - 1 \in k..(Len(s) - 1)
        BY <1>1, <1>3, <3>3
      <4> QED BY <1>4, <2>1, <2>5, <4>1, <4>2 DEF Newer
    <3> QED BY <1>1, <3>1, <3>2, <3>3
  <2> QED BY <2>6, <2>7
<1>7. ASSUME NEW m \in Note \ ToSet(t) PROVE r.previous[m] = INVALID_NOTE
  <2>1. CASE m = n
    BY <2>1 DEF JoinsNeighbours
  <2>2. CASE m # n
    <3>1. m \notin ToSet(s) /\ l.previous[m] = INVALID_NOTE
      BY <1>3, <2>2 DEF Pointers
    <3>2. m # Older(s, k)
      <4>1. Len(s) \in Nat
        BY <1>1
      <4>2. k # Len(s) => k + 1 \in 1..Len(s)
        BY <4>1
      <4>3. k # Len(s) => s[k + 1] \in ToSet(s)
        BY <1>1, <4>2
      <4> QED BY <3>1, <4>3, NotesAreValid DEF Older
    <3> QED BY <2>2, <3>1, <3>2 DEF JoinsNeighbours
  <2> QED BY <2>1, <2>2
<1>8. r \in List
  BY DEF JoinsNeighbours
<1>9. Pointers(r, t)
  BY <1>3, <1>5, <1>6, <1>7, <1>8 DEF Pointers
<1> QED BY <1>9 DEF t

(* The pointers do not include the cached notes. *)
LEMMA PointersKept ==
  ASSUME NEW l, NEW s, Pointers(l, s), NEW r \in List,
         r.head = l.head, r.next = l.next, r.previous = l.previous
  PROVE  Pointers(r, s)
  BY DEF Pointers

(* The oldest note follows when the last note is taken out. *)
LEMMA OldestFollows ==
  ASSUME NEW l, NEW s \in Seq(Note), Unique(s), Oldest(l, s),
         NEW k \in 1..Len(s), NEW n \in Note, n = s[k],
         NEW r, r.oldest = IF l.oldest = n THEN Newer(s, k) ELSE l.oldest
  PROVE  Oldest(r, RemoveFirst(s, n))
<1> DEFINE t == RemoveFirst(s, n)
<1>1. /\ t \in Seq(Note) /\ Len(t) = Len(s) - 1 /\ Len(s) \in Nat /\ s # <<>>
      /\ \A i \in 1..(k - 1) : t[i] = s[i]
      /\ \A i \in k..(Len(s) - 1) : t[i] = s[i + 1]
  BY WithoutPlace
<1> HIDE DEF t
<1>2. l.oldest = s[Len(s)] /\ Len(s) \in 1..Len(s) /\ (t = <<>> <=> Len(s) = 1)
  <2>1. t = <<>> <=> Len(t) = 0
    BY <1>1
  <2> QED BY <1>1, <2>1 DEF Oldest
<1>3. Oldest(r, t)
  <2>1. CASE k = Len(s)
    <3>1. r.oldest = Newer(s, k)
      BY <1>2, <2>1
    <3>2. k # 1 => t[Len(t)] = s[k - 1]
      BY <1>1, <2>1
    <3> QED BY <1>2, <2>1, <3>1, <3>2 DEF Oldest, Newer
  <2>2. CASE k # Len(s)
    <3>1. s[Len(s)] # n
      <4>1. DOMAIN s = 1..Len(s)
        BY <1>1
      <4> QED BY <1>2, <2>2, <4>1 DEF Unique
    <3>2. t[Len(t)] = s[Len(s)] /\ Len(s) # 1
      BY <1>1, <2>2
    <3> QED BY <1>2, <3>1, <3>2 DEF Oldest
  <2> QED BY <2>1, <2>2
<1> QED BY <1>3 DEF t

(* remove<>: the note's neighbours are joined. *)
LEMMA UnlinkJoins ==
  ASSUME NEW l, NEW s, Pointers(l, s),
         NEW k \in 1..Len(s), NEW n \in Note, n = s[k]
  PROVE  /\ JoinsNeighbours(Unlink(l, n), l, s, k)
         /\ Oldest(l, s) => Oldest(Unlink(l, n), RemoveFirst(s, n))
         /\ Unlink(l, n).lowest = l.lowest /\ Unlink(l, n).highest = l.highest
<1> DEFINE u == Unlink(l, n)
           shared == [l EXCEPT !.oldest = IF @ = n THEN l.previous[n] ELSE @,
                               !.previous = Link(@, l.next[n], l.previous[n])]
<1>1. /\ l \in List /\ s \in Seq(Note) /\ Unique(s) /\ Len(s) \in Nat /\ DOMAIN s = 1..Len(s)
  BY DEF Pointers
<1>2. /\ l.next \in [Note -> OptionalNote] /\ l.previous \in [Note -> OptionalNote]
      /\ l.head \in OptionalNote /\ l.oldest \in OptionalNote
      /\ l.lowest \in OptionalNote /\ l.highest \in OptionalNote
      /\ INVALID_NOTE \in OptionalNote
  BY <1>1 DEF List, OptionalNote
<1>3. PICK older \in OptionalNote :
        older = l.next[n] /\ older = Older(s, k) /\ older # n
  <2>1. l.next[n] = Older(s, k) /\ l.next[n] \in OptionalNote
    BY <1>2 DEF Pointers, Older
  <2>2. Older(s, k) # n
    <3>1. Len(s) \in Nat
      BY <1>1
    <3>2. k # Len(s) => k + 1 \in 1..Len(s) /\ k + 1 # k
      BY <3>1
    <3> QED BY <1>1, <3>2, NotesAreValid DEF Older, Unique
  <2> QED BY <2>1, <2>2
<1>4. PICK newer \in OptionalNote :
        newer = l.previous[n] /\ newer = Newer(s, k) /\ newer # n
  <2>1. l.previous[n] = Newer(s, k) /\ l.previous[n] \in OptionalNote
    BY <1>2 DEF Pointers, Newer
  <2>2. Newer(s, k) # n
    BY <1>1, NotesAreValid DEF Newer, Unique
  <2> QED BY <2>1, <2>2
<1>5. n = l.head <=> k = 1
  <2>1. 1 \in 1..Len(s) /\ s # <<>>
    BY <1>1
  <2>2. l.head = s[1]
    BY <2>1 DEF Pointers
  <2> QED BY <1>1, <2>1, <2>2 DEF Unique
<1>6. newer = INVALID_NOTE <=> k = 1
  <2>1. k # 1 => k - 1 \in 1..Len(s)
    BY <1>1
  <2> QED BY <1>1, <1>4, <2>1, NotesAreValid DEF Newer
<1>7. /\ shared.oldest = IF l.oldest = n THEN newer ELSE l.oldest
      /\ shared.previous = Link(l.previous, older, newer)
      /\ shared.next = l.next /\ shared.head = l.head
      /\ shared.lowest = l.lowest /\ shared.highest = l.highest
      /\ shared = [next |-> shared.next, previous |-> shared.previous, head |-> shared.head,
                   oldest |-> shared.oldest, lowest |-> shared.lowest,
                   highest |-> shared.highest]
  <2>1. shared = [l EXCEPT !.oldest = IF l.oldest = n THEN newer ELSE l.oldest,
                           !.previous = Link(l.previous, older, newer)]
    BY <1>3, <1>4
  <2> HIDE DEF shared
  <2>2. l = [next |-> l.next, previous |-> l.previous, head |-> l.head,
             oldest |-> l.oldest, lowest |-> l.lowest, highest |-> l.highest]
    BY <1>1 DEF List
  <2> QED BY <2>1, <2>2
<1>8. u = IF n = l.head
          THEN [shared EXCEPT !.head = older]
          ELSE [shared EXCEPT !.next = Link(Link(@, newer, older), n, INVALID_NOTE),
                              !.previous = Link(@, n, INVALID_NOTE)]
  BY <1>3, <1>4 DEF Unlink
<1> HIDE DEF shared, u
<1>9. /\ shared.previous \in [Note -> OptionalNote]
      /\ \A m \in Note : shared.previous[m] = IF m = older THEN newer ELSE l.previous[m]
  BY <1>2, <1>7, NotesAreValid DEF Link
<1>10. /\ u.oldest = shared.oldest /\ u.lowest = l.lowest /\ u.highest = l.highest
       /\ u.head = IF k = 1 THEN older ELSE l.head
       /\ u.next = IF k = 1 THEN l.next
                   ELSE Link(Link(l.next, newer, older), n, INVALID_NOTE)
       /\ u.previous = IF k = 1 THEN shared.previous
                       ELSE Link(shared.previous, n, INVALID_NOTE)
       /\ u = [next |-> u.next, previous |-> u.previous, head |-> u.head,
               oldest |-> u.oldest, lowest |-> u.lowest, highest |-> u.highest]
  BY <1>5, <1>7, <1>8
<1>11. /\ u.previous \in [Note -> OptionalNote]
       /\ \A m \in Note \ {n} : u.previous[m] = shared.previous[m]
       /\ u.previous[n] = INVALID_NOTE
  <2>1. CASE k = 1
    BY <1>3, <1>4, <1>6, <1>9, <1>10, <2>1
  <2>2. CASE k # 1
    BY <1>2, <1>9, <1>10, <2>2, NotesAreValid DEF Link
  <2> QED BY <2>1, <2>2
<1>12. /\ u.next \in [Note -> OptionalNote]
       /\ \A m \in Note \ {n} : u.next[m] = IF m = newer THEN older ELSE l.next[m]
  <2>1. CASE k = 1
    BY <1>2, <1>6, <1>10, <2>1, NotesAreValid
  <2>2. CASE k # 1
    <3>1. newer \in Note
      BY <1>6, <2>2 DEF OptionalNote
    <3>2. u.next = [[l.next EXCEPT ![newer] = older] EXCEPT ![n] = INVALID_NOTE]
      BY <1>10, <2>2, <3>1, NotesAreValid DEF Link
    <3> QED BY <1>2, <3>1, <3>2
  <2> QED BY <2>1, <2>2
<1>13. u \in List
  BY <1>2, <1>7, <1>10, <1>11, <1>12 DEF List
<1>14. JoinsNeighbours(u, l, s, k)
  BY <1>3, <1>4, <1>9, <1>10, <1>11, <1>12, <1>13 DEF JoinsNeighbours
<1>15. Oldest(l, s) => Oldest(u, RemoveFirst(s, n))
  BY <1>1, <1>4, <1>7, <1>10, OldestFollows
<1> QED BY <1>10, <1>14, <1>15 DEF u

(* BasicPop takes the head out. *)
LEMMA PopLinks ==
  ASSUME NEW l, NEW s, Pointers(l, s), NEW n \in Note, n = l.head
  PROVE  /\ s # <<>> /\ 1 \in 1..Len(s) /\ n = s[1] /\ n \in ToSet(s)
         /\ JoinsNeighbours(BasicPop(l), l, s, 1)
         /\ Pointers(BasicPop(l), RemoveFirst(s, n))
         /\ BasicPop(l).next[n] = INVALID_NOTE
         /\ BasicPop(l).oldest = l.oldest
         /\ BasicPop(l).lowest = l.lowest /\ BasicPop(l).highest = l.highest
<1>1. /\ l \in List /\ s \in Seq(Note) /\ Unique(s) /\ Len(s) \in Nat
      /\ (s = <<>> <=> Len(s) = 0)
      /\ ToSet(s) = {s[i] : i \in 1..Len(s)} /\ DOMAIN s = 1..Len(s)
  BY ElementsOfSeq DEF Pointers
<1>2. s # <<>> /\ 1 \in 1..Len(s) /\ n = s[1] /\ n \in ToSet(s)
  <2>1. s # <<>> /\ (s # <<>> => l.head = s[1])
    BY <1>1, NotesAreValid DEF Pointers
  <2>2. \A m \in Nat : m # 0 => 1 \in 1..m
    OBVIOUS
  <2> QED BY <1>1, <2>1, <2>2
<1> DEFINE b == BasicPop(l)
<1>3. PICK older \in OptionalNote :
        older = l.next[n] /\ older = Older(s, 1) /\ older # n
  <2>1. l.next[n] = Older(s, 1) /\ l.next[n] \in OptionalNote
    BY <1>1, <1>2 DEF Pointers, Older, List
  <2>2. Older(s, 1) # n
    <3>1. 1 # Len(s) => 2 \in 1..Len(s)
      BY <1>1, <1>2
    <3> QED BY <1>1, <1>2, <3>1, NotesAreValid DEF Older, Unique
  <2> QED BY <2>1, <2>2
<1>4. b = [l EXCEPT !.head = older,
                    !.previous = Link(@, older, INVALID_NOTE),
                    !.next = Link(@, n, INVALID_NOTE)]
  BY <1>3 DEF BasicPop
<1> HIDE DEF b
<1>5. /\ b.head = older /\ b.previous = Link(l.previous, older, INVALID_NOTE)
      /\ b.next = Link(l.next, n, INVALID_NOTE) /\ b.oldest = l.oldest
      /\ b.lowest = l.lowest /\ b.highest = l.highest
      /\ b = [next |-> b.next, previous |-> b.previous, head |-> b.head,
              oldest |-> b.oldest, lowest |-> b.lowest, highest |-> b.highest]
  <2>1. l = [next |-> l.next, previous |-> l.previous, head |-> l.head,
             oldest |-> l.oldest, lowest |-> l.lowest, highest |-> l.highest]
    BY <1>1 DEF List
  <2> QED BY <1>4, <2>1
<1>6. /\ l.next \in [Note -> OptionalNote] /\ l.previous \in [Note -> OptionalNote]
      /\ l.oldest \in OptionalNote /\ l.lowest \in OptionalNote
      /\ l.highest \in OptionalNote /\ INVALID_NOTE \in OptionalNote
  BY <1>1 DEF List, OptionalNote
<1>7. /\ b.previous \in [Note -> OptionalNote]
      /\ \A m \in Note :
           b.previous[m] = IF m = older THEN INVALID_NOTE ELSE l.previous[m]
  BY <1>5, <1>6, NotesAreValid DEF Link
<1>8. /\ b.next \in [Note -> OptionalNote] /\ b.next[n] = INVALID_NOTE
       /\ \A m \in Note \ {n} : b.next[m] = l.next[m]
  BY <1>5, <1>6, NotesAreValid DEF Link
<1>9. b \in List
  BY <1>5, <1>6, <1>7, <1>8 DEF List
<1>10. l.previous[n] = INVALID_NOTE /\ Newer(s, 1) = INVALID_NOTE
  BY <1>1, <1>2 DEF Pointers, Newer
<1>11. JoinsNeighbours(b, l, s, 1)
  <2>1. \A m \in Note \ {n} : m # INVALID_NOTE
    BY NotesAreValid
  <2>2. b.previous[n] = INVALID_NOTE
    BY <1>7, <1>10
  <2> QED BY <1>2, <1>3, <1>5, <1>7, <1>8, <1>9, <1>10, <2>1, <2>2 DEF JoinsNeighbours
<1>12. Pointers(b, RemoveFirst(s, n))
  BY <1>2, <1>11, TakenOut
<1> QED BY <1>2, <1>5, <1>8, <1>11, <1>12 DEF b

(* A note without pointers is only ever the oldest. *)
LEMMA UnlinkLoose ==
  ASSUME NEW l \in List, NEW n \in Note, l.head # n,
         l.next[n] = INVALID_NOTE, l.previous[n] = INVALID_NOTE
  PROVE  Unlink(l, n) = [l EXCEPT !.oldest = IF @ = n THEN INVALID_NOTE ELSE @]
<1>1. /\ l.next \in [Note -> OptionalNote] /\ l.previous \in [Note -> OptionalNote]
      /\ l = [next |-> l.next, previous |-> l.previous, head |-> l.head,
              oldest |-> l.oldest, lowest |-> l.lowest, highest |-> l.highest]
  BY DEF List
<1>2. /\ [l.next EXCEPT ![n] = INVALID_NOTE] = l.next
      /\ [l.previous EXCEPT ![n] = INVALID_NOTE] = l.previous
  BY <1>1
<1>3. /\ Link(Link(l.next, INVALID_NOTE, INVALID_NOTE), n, INVALID_NOTE) = l.next
      /\ Link(l.previous, INVALID_NOTE, INVALID_NOTE) = l.previous
      /\ Link(l.previous, n, INVALID_NOTE) = l.previous
  BY <1>2, NotesAreValid DEF Link
<1> DEFINE shared == [l EXCEPT !.oldest = IF @ = n THEN INVALID_NOTE ELSE @,
                               !.previous = Link(@, INVALID_NOTE, INVALID_NOTE)]
<1>4. Unlink(l, n) = [shared EXCEPT
                        !.next = Link(Link(@, INVALID_NOTE, INVALID_NOTE), n, INVALID_NOTE),
                        !.previous = Link(@, n, INVALID_NOTE)]
  BY DEF Unlink
<1>5. shared = [l EXCEPT !.oldest = IF @ = n THEN INVALID_NOTE ELSE @]
  BY <1>1, <1>3
<1> HIDE DEF shared
<1>6. shared.next = l.next /\ shared.previous = l.previous
      /\ shared = [next |-> shared.next, previous |-> shared.previous,
                   head |-> shared.head, oldest |-> shared.oldest,
                   lowest |-> shared.lowest, highest |-> shared.highest]
  BY <1>1, <1>5
<1>7. Unlink(l, n) = shared
  BY <1>3, <1>4, <1>6
<1> QED BY <1>5, <1>7

(* Unlinking a note of the list takes it out. *)
LEMMA UnlinkTakesOut ==
  ASSUME NEW l, NEW s, Pointers(l, s), NEW n \in Note, n \in ToSet(s)
  PROVE  Pointers(Unlink(l, n), RemoveFirst(s, n))
<1>1. ToSet(s) = {s[i] : i \in 1..Len(s)}
  BY ElementsOfSeq DEF Pointers
<1>2. PICK k \in 1..Len(s) : n = s[k]
  BY <1>1
<1> QED BY <1>2, UnlinkJoins, TakenOut

(* The empty list stands for the empty sequence. *)
LEMMA EmptyPointers == Pointers(EmptyList, <<>>)
<1>1. <<>> \in Seq(Note) /\ Unique(<<>>) /\ Len(<<>>) = 0
  BY DEF Unique
<1> QED BY <1>1, EmptyListType DEF Pointers, EmptyList

(* Unlinking from an empty list leaves it empty, whatever next pointers    *)
(* are left in it.                                                         *)
LEMMA UnlinkFromEmpty ==
  ASSUME NEW l, Pointers(l, <<>>), NEW n \in Note
  PROVE  Pointers(Unlink(l, n), <<>>)
<1> DEFINE u == Unlink(l, n)
<1>1. /\ l \in List /\ l.head = INVALID_NOTE /\ l.head # n /\ ToSet(<<>>) = {}
      /\ \A m \in Note : l.previous[m] = INVALID_NOTE
  BY NotesAreValid DEF Pointers, ToSet
<1>2. u \in List
  BY <1>1, UnlinkType
<1>3. PICK older \in OptionalNote : older = l.next[n]
  BY <1>1 DEF List
<1>4. /\ u.head = INVALID_NOTE
      /\ u.previous = Link(Link(l.previous, older, INVALID_NOTE), n, INVALID_NOTE)
  <2>1. l = [next |-> l.next, previous |-> l.previous, head |-> l.head,
             oldest |-> l.oldest, lowest |-> l.lowest, highest |-> l.highest]
    BY <1>1 DEF List
  <2> QED BY <1>1, <1>3, <2>1 DEF Unlink
<1>5. \A m \in Note : u.previous[m] = INVALID_NOTE
  <2>1. l.previous \in [Note -> OptionalNote] /\ INVALID_NOTE \in OptionalNote
    BY <1>1 DEF List, OptionalNote
  <2>2. PICK links \in [Note -> OptionalNote] :
          /\ links = Link(l.previous, older, INVALID_NOTE)
          /\ \A m \in Note : links[m] = INVALID_NOTE
    BY <1>1, <2>1 DEF Link, OptionalNote
  <2>3. u.previous = Link(links, n, INVALID_NOTE)
    BY <1>4, <2>2
  <2> QED BY <2>2, <2>3 DEF Link
<1> HIDE DEF u
<1>6. Pointers(u, <<>>)
  <2>1. <<>> \in Seq(Note) /\ Unique(<<>>) /\ Len(<<>>) = 0
    BY DEF Unique
  <2> QED BY <1>2, <1>4, <1>5, <2>1 DEF Pointers
<1> QED BY <1>6 DEF u

(* Pushing a note, in the list or not, leaves a list with that note in it. *)
LEMMA PushAdds ==
  ASSUME NEW l, NEW s, Pointers(l, s), NEW n \in Note
  PROVE  \E t : Pointers(BasicPush(l, n), t) /\ ToSet(t) = ToSet(s) \cup {n}
<1>1. l \in List /\ s \in Seq(Note) /\ Unique(s)
  BY DEF Pointers
<1>2. CASE n \notin ToSet(s)
  <2>1. Pointers(BasicPush(l, n), <<n>> \o s) /\ ToSet(<<n>> \o s) = ToSet(s) \cup {n}
    BY <1>1, <1>2, PushLinks, PushInFront
  <2> QED BY <2>1
<1>3. CASE n \in ToSet(s)
  <2> DEFINE aged == [l EXCEPT !.oldest = IF @ = INVALID_NOTE THEN n ELSE @]
             u == Unlink(aged, n)
             t == RemoveFirst(s, n)
             b == BasicPush(u, n)
             r == BasicPush(l, n)
  <2>1. aged \in List /\ Pointers(aged, s)
    <3>1. aged \in List /\ aged.head = l.head /\ aged.next = l.next /\ aged.previous = l.previous
      BY <1>1 DEF List, OptionalNote
    <3> HIDE DEF aged
    <3> QED BY <3>1, PointersKept
  <2>2. Find(aged, n)
    <3> HIDE DEF aged
    <3> QED BY <1>3, <2>1, FindIsMembership
  <2>3. Pointers(u, t)
    <3> HIDE DEF aged
    <3> QED BY <1>3, <2>1, UnlinkTakesOut
  <2>4. t \in Seq(Note) /\ ToSet(t) = ToSet(s) \ {n}
    BY <1>1, <1>3, RemovePresent
  <2>5. r = [u EXCEPT !.previous = Link(@, u.head, n), !.next = Link(@, n, u.head), !.head = n]
    BY <2>2 DEF BasicPush
  <2> HIDE DEF aged, u, t
  <2>6. Pointers(b, <<n>> \o t) /\ u \in List
    <3>1. n \notin ToSet(t)
      BY <2>4
    <3>2. Pointers(b, <<n>> \o t)
      BY <2>3, <3>1, PushLinks
    <3>3. u \in List
      BY <2>3 DEF Pointers
    <3> QED BY <3>2, <3>3
  <2>7. /\ b.previous = r.previous /\ b.next = r.next /\ b.head = r.head
        /\ b \in List /\ r.oldest = u.oldest /\ r.lowest = u.lowest /\ r.highest = u.highest
        /\ r = [next |-> r.next, previous |-> r.previous, head |-> r.head,
                oldest |-> r.oldest, lowest |-> r.lowest, highest |-> r.highest]
    <3> DEFINE a == [u EXCEPT !.oldest = IF @ = INVALID_NOTE THEN n ELSE @]
    <3>1. a.head = u.head /\ a.next = u.next /\ a.previous = u.previous /\ a \in List
      BY <2>6 DEF List, OptionalNote
    <3>2. ~Find(a, n)
      <4>1. ~Find(u, n)
        BY <2>3, <2>4, FindIsMembership
      <4> QED BY <3>1, <4>1 DEF Find
    <3>3. b = [a EXCEPT !.previous = Link(@, a.head, n), !.next = Link(@, n, a.head), !.head = n]
      BY <3>2 DEF BasicPush
    <3> HIDE DEF a
    <3>4. b.previous = Link(u.previous, u.head, n) /\ b.next = Link(u.next, n, u.head) /\ b.head = n
      BY <3>1, <3>3 DEF List
    <3>5. b \in List
      BY <2>6 DEF Pointers
    <3> HIDE DEF b, r
    <3> QED BY <2>5, <2>6, <3>4, <3>5 DEF List
  <2> HIDE DEF b, r
  <2>8. r \in List
    BY <2>6, <2>7 DEF List
  <2>9. Pointers(r, <<n>> \o t)
    BY <2>6, <2>7, <2>8, PointersKept
  <2>10. ToSet(<<n>> \o t) = ToSet(s) \cup {n}
    BY <1>3, <2>4, PushInFront
  <2> QED BY <2>9, <2>10 DEF r
<1> QED BY <1>2, <1>3

-----------------------------------------------------------------------------
(* What the building blocks of the handlers do to the note state. *)

(* push_note_on with a channel in hand. *)
LEMMA PushNoteOnOK ==
  ASSUME zone \in ZoneSettings, NEW c \in MIDI_CHANNELS, NEW n \in Note,
         NEW v, VoicesOK(zone, v, {c}), n \notin ToSet(v.stack)
  PROVE  VoicesOK(zone, PushNoteOn(v, c, n), {})
<1> DEFINE w == PushNoteOn(v, c, n)
           up == IsAboveAnchor(zone, n)
<1>1. v \in VoiceRecords /\ Unique(v.stack) /\ Unique(v.available)
  BY DEF VoicesOK
<1>2. /\ w.stack = <<n>> \o v.stack /\ w.channel = [v.channel EXCEPT ![n] = c]
      /\ w.above = IF up THEN <<n>> \o v.above ELSE v.above
      /\ w.below = IF up THEN v.below ELSE <<n>> \o v.below
      /\ w.available = v.available
      /\ w.deferred = v.deferred
      /\ w.events = Append(v.events, NoteEvent("on", c, n))
      /\ w = [v EXCEPT !.stack = w.stack, !.channel = w.channel, !.above = w.above,
                         !.below = w.below, !.events = w.events]
  BY <1>1 DEF PushNoteOn, VoiceRecords
<1> HIDE DEF w
<1>3. /\ w.stack \in Seq(Note) /\ Unique(w.stack)
      /\ Len(w.stack) = Len(v.stack) + 1
      /\ ToSet(w.stack) = ToSet(v.stack) \cup {n}
  BY <1>1, <1>2, PushInFront DEF VoiceRecords
<1>4. /\ w.above \in Seq(Note) /\ w.below \in Seq(Note) /\ HalvesOK(zone, w)
  <2>1. /\ v.above \in Seq(Note) /\ v.below \in Seq(Note) /\ HalvesOK(zone, v)
        /\ n \notin ToSet(v.above) /\ n \notin ToSet(v.below)
    BY <1>1 DEF VoicesOK, VoiceRecords, HalvesOK
  <2>2. /\ <<n>> \o v.above \in Seq(Note) /\ Unique(<<n>> \o v.above)
        /\ ToSet(<<n>> \o v.above) = ToSet(v.above) \cup {n}
    BY <2>1, PushInFront DEF HalvesOK
  <2>3. /\ <<n>> \o v.below \in Seq(Note) /\ Unique(<<n>> \o v.below)
        /\ ToSet(<<n>> \o v.below) = ToSet(v.below) \cup {n}
    BY <2>1, PushInFront DEF HalvesOK
  <2>6. Before(w.above) \subseteq Before(w.stack) /\ Before(w.below) \subseteq Before(w.stack)
    <3>1. /\ Before(w.stack) = Before(v.stack) \cup {<<n, m>> : m \in ToSet(v.stack)}
          /\ Before(<<n>> \o v.above) = Before(v.above) \cup {<<n, m>> : m \in ToSet(v.above)}
          /\ Before(<<n>> \o v.below) = Before(v.below) \cup {<<n, m>> : m \in ToSet(v.below)}
      BY <1>1, <1>2, <2>1, BeforeAfterPush DEF VoiceRecords
    <3>2. ToSet(v.above) \subseteq ToSet(v.stack) /\ ToSet(v.below) \subseteq ToSet(v.stack)
          /\ Before(v.above) \subseteq Before(v.stack) /\ Before(v.below) \subseteq Before(v.stack)
      BY <2>1 DEF HalvesOK
    <3> QED BY <1>2, <3>1, <3>2
  <2>4. CASE up
    BY <1>2, <1>3, <2>1, <2>2, <2>4, <2>6 DEF HalvesOK
  <2>5. CASE ~up
    BY <1>2, <1>3, <2>1, <2>3, <2>5, <2>6 DEF HalvesOK
  <2> QED BY <2>4, <2>5
<1>5. w \in VoiceRecords
  <2>1. w.channel \in [Note -> MIDI_CHANNELS \cup {INVALID_CHANNEL}]
    BY <1>1, <1>2 DEF VoiceRecords
  <2>2. w.events \in Seq(Events)
    BY <1>1, <1>2, EventType DEF VoiceRecords
  <2> QED BY <1>1, <1>2, <1>3, <1>4, <2>1, <2>2 DEF VoiceRecords
<1>6. ChannelsOK(zone, w, {})
  <2>1. /\ \A m \in ToSet(v.stack) : w.channel[m] = v.channel[m]
        /\ w.channel[n] = c
        /\ ToSet(v.stack) \subseteq Note
    BY <1>1, <1>2, ElementsOfSeq DEF VoiceRecords
  <2>2. ChannelsOK(zone, v, {c})
    BY DEF VoicesOK
  <2>3. {w.channel[m] : m \in ToSet(w.stack)} = {v.channel[m] : m \in ToSet(v.stack)} \cup {c}
    BY <1>3, <2>1
  <2>4. \A m, p \in ToSet(w.stack) : w.channel[m] = w.channel[p] => m = p
    BY <1>3, <2>1, <2>2 DEF ChannelsOK
  <2> QED BY <1>2, <2>2, <2>3, <2>4 DEF ChannelsOK
<1>7. CountOK(zone, w, {})
  BY <1>1, <1>2, <1>3, ElementsOfSeq, ZoneFacts DEF VoicesOK, CountOK, VoiceRecords
<1> QED BY <1>1, <1>2, <1>3, <1>4, <1>5, <1>6, <1>7 DEF VoicesOK, w

(* push_note_off of a held note leaves its channel in hand. *)
LEMMA PushNoteOffOK ==
  ASSUME zone \in ZoneSettings, NEW v, VoicesOK(zone, v, {}),
         NEW n \in Note, n \in ToSet(v.stack)
  PROVE  LET c == v.channel[n]
             w == PushNoteOff(v, c, n)
         IN  /\ c \in MIDI_CHANNELS /\ VoicesOK(zone, w, {c})
             /\ ToSet(w.stack) = ToSet(v.stack) \ {n}
             /\ w.channel = v.channel
             /\ w.available = v.available
<1> DEFINE c == v.channel[n]
           w == PushNoteOff(v, c, n)
<1>1. /\ v \in VoiceRecords /\ Unique(v.stack) /\ Unique(v.available)
      /\ HalvesOK(zone, v) /\ ChannelsOK(zone, v, {}) /\ CountOK(zone, v, {})
  BY DEF VoicesOK
<1>2. c \in MIDI_CHANNELS
  BY <1>1, MemberChannelFacts, ElementsOfSeq DEF ChannelsOK
<1>3. /\ w.stack = RemoveFirst(v.stack, n)
      /\ w.above = RemoveFirst(v.above, n)
      /\ w.below = RemoveFirst(v.below, n)
      /\ w.channel = v.channel
      /\ w.available = v.available
      /\ w.deferred = Unlink(v.deferred, n)
      /\ w.events = Append(v.events, NoteEvent("off", c, n))
      /\ w = [v EXCEPT !.events = w.events, !.stack = w.stack, !.above = w.above,
                         !.below = w.below, !.deferred = w.deferred]
  BY <1>1 DEF PushNoteOff, VoiceRecords
<1> HIDE DEF w
<1>4. /\ w.stack \in Seq(Note) /\ Unique(w.stack)
      /\ Len(w.stack) = Len(v.stack) - 1
      /\ ToSet(w.stack) = ToSet(v.stack) \ {n}
  BY <1>1, <1>3, RemovePresent DEF VoiceRecords
<1>5. /\ w.above \in Seq(Note) /\ w.below \in Seq(Note) /\ HalvesOK(zone, w)
  <2>1. ASSUME NEW s \in Seq(Note), Unique(s)
        PROVE  /\ RemoveFirst(s, n) \in Seq(Note) /\ Unique(RemoveFirst(s, n))
               /\ ToSet(RemoveFirst(s, n)) = ToSet(s) \ {n}
    <3>1. CASE n \in ToSet(s)
      BY <2>1, <3>1, RemovePresent
    <3>2. CASE n \notin ToSet(s)
      BY <2>1, <3>2, RemoveAbsent
    <3> QED BY <3>1, <3>2
  <2>2. /\ v.above \in Seq(Note) /\ v.below \in Seq(Note)
        /\ Unique(v.above) /\ Unique(v.below)
    BY <1>1 DEF VoiceRecords, HalvesOK
  <2>3. /\ w.above \in Seq(Note) /\ Unique(w.above) /\ ToSet(w.above) = ToSet(v.above) \ {n}
        /\ w.below \in Seq(Note) /\ Unique(w.below) /\ ToSet(w.below) = ToSet(v.below) \ {n}
    BY <1>3, <2>1, <2>2
  <2>4. ASSUME NEW s \in Seq(Note), Unique(s), Before(s) \subseteq Before(v.stack)
        PROVE  Before(RemoveFirst(s, n)) \subseteq Before(w.stack)
    <3>1. Before(w.stack) = {p \in Before(v.stack) : p[1] # n /\ p[2] # n}
      BY <1>1, <1>3, BeforeAfterRemove DEF VoiceRecords
    <3>2. CASE n \in ToSet(s)
      BY <2>4, <3>1, <3>2, BeforeAfterRemove
    <3>3. CASE n \notin ToSet(s)
      <4>1. RemoveFirst(s, n) = s
        BY <3>3, RemoveAbsent
      <4>2. \A p \in Before(s) : p[1] # n /\ p[2] # n
        BY <3>3, BeforeElements
      <4> QED BY <2>4, <3>1, <4>1, <4>2
    <3> QED BY <3>2, <3>3
  <2>5. Before(w.above) \subseteq Before(w.stack) /\ Before(w.below) \subseteq Before(w.stack)
    BY <1>1, <1>3, <2>2, <2>4 DEF HalvesOK
  <2> QED BY <1>1, <1>4, <2>3, <2>5 DEF HalvesOK
<1>6. w \in VoiceRecords
  <2>1. w.deferred \in List
    BY <1>1, <1>3, UnlinkType DEF VoiceRecords
  <2>2. w.events \in Seq(Events)
    BY <1>1, <1>2, <1>3, EventType DEF VoiceRecords
  <2> QED BY <1>1, <1>3, <1>4, <1>5, <2>1, <2>2 DEF VoiceRecords
<1>7. ChannelsOK(zone, w, {c})
  <2> DEFINE used == {v.channel[m] : m \in ToSet(v.stack)}
             usedNow == {w.channel[m] : m \in ToSet(w.stack)}
  <2>1. usedNow = used \ {c}
    BY <1>1, <1>3, <1>4 DEF ChannelsOK
  <2>2. c \in used
    OBVIOUS
  <2>3. \A m, p \in ToSet(w.stack) : w.channel[m] = w.channel[p] => m = p
    BY <1>1, <1>3, <1>4 DEF ChannelsOK
  <2>4. used \cap ToSet(v.available) = {}
        /\ used \cup ToSet(v.available) = ToSet(MemberChannels(zone))
    BY <1>1 DEF ChannelsOK
  <2> HIDE DEF used, c
  <2>5. /\ usedNow \cap ToSet(w.available) = {} /\ usedNow \cap {c} = {}
        /\ ToSet(w.available) \cap {c} = {}
        /\ usedNow \cup ToSet(w.available) \cup {c} = ToSet(MemberChannels(zone))
    BY <1>3, <2>1, <2>2, <2>4
  <2> QED BY <2>3, <2>5 DEF ChannelsOK
<1>8. CountOK(zone, w, {c})
  <2>1. /\ Len(v.stack) + Len(v.available) = zone.channel_count /\ {c} # {}
        /\ Len(v.stack) \in Nat /\ Len(v.available) \in Nat
        /\ zone.channel_count \in Int
    BY <1>1, ElementsOfSeq, ZoneFacts DEF CountOK, VoiceRecords
  <2> HIDE DEF c
  <2>2. Len(w.stack) + Len(w.available) + 1 = zone.channel_count
    <3> DEFINE held == Len(v.stack)
               unused == Len(v.available)
    <3>1. Len(w.available) = unused /\ Len(w.stack) = held - 1
      BY <1>3, <1>4
    <3>2. held + unused = zone.channel_count /\ held \in Nat /\ unused \in Nat
      BY <2>1
    <3> HIDE DEF held, unused
    <3>3. held - 1 + unused + 1 = zone.channel_count
      BY <3>2
    <3> QED BY <3>1, <3>3
  <2> QED BY <2>1, <2>2 DEF CountOK
<1> QED BY <1>1, <1>2, <1>3, <1>4, <1>5, <1>6, <1>7, <1>8 DEF VoicesOK, w

(* Taking the oldest free channel in hand. *)
LEMMA TakeChannelOK ==
  ASSUME zone \in ZoneSettings, NEW v, VoicesOK(zone, v, {}), v.available # <<>>
  PROVE  LET c == Head(v.available)
             w == [v EXCEPT !.available = Tail(@)]
         IN  /\ c \in MIDI_CHANNELS /\ VoicesOK(zone, w, {c})
             /\ w.stack = v.stack /\ w.channel = v.channel /\ w.events = v.events
<1> DEFINE c == Head(v.available)
           w == [v EXCEPT !.available = Tail(@)]
<1>1. /\ v \in VoiceRecords /\ Unique(v.stack) /\ Unique(v.available)
      /\ HalvesOK(zone, v) /\ ChannelsOK(zone, v, {}) /\ CountOK(zone, v, {})
  BY DEF VoicesOK
<1>2. /\ w.stack = v.stack /\ w.above = v.above /\ w.below = v.below
      /\ w.channel = v.channel /\ w.events = v.events
      /\ w.available = Tail(v.available)
      /\ w = [v EXCEPT !.available = w.available]
  BY <1>1 DEF VoiceRecords
<1>3. /\ c \in MIDI_CHANNELS /\ c \in ToSet(v.available)
      /\ w.available \in Seq(MIDI_CHANNELS) /\ Unique(w.available)
      /\ Len(w.available) = Len(v.available) - 1
      /\ ToSet(w.available) = ToSet(v.available) \ {c}
  BY <1>1, <1>2, Dequeue DEF VoiceRecords
<1> HIDE DEF w, c
<1>4. w \in VoiceRecords
  BY <1>1, <1>2, <1>3 DEF VoiceRecords
<1>5. HalvesOK(zone, w)
  BY <1>1, <1>2 DEF HalvesOK
<1>6. ChannelsOK(zone, w, {c})
  BY <1>1, <1>2, <1>3 DEF ChannelsOK
<1>7. CountOK(zone, w, {c})
  <2> DEFINE held == Len(v.stack)
             unused == Len(v.available)
  <2>1. Len(w.available) = unused - 1 /\ Len(w.stack) = held
    BY <1>2, <1>3
  <2>2. held + unused = zone.channel_count /\ held \in Nat /\ unused \in Nat
    BY <1>1, ElementsOfSeq DEF CountOK, VoiceRecords
  <2> HIDE DEF held, unused
  <2>3. held + (unused - 1) + 1 = zone.channel_count
    BY <2>2
  <2> QED BY <2>1, <2>3 DEF CountOK
<1> QED BY <1>1, <1>2, <1>3, <1>4, <1>5, <1>6, <1>7 DEF VoicesOK, w, c

(* Queueing the channel in hand: the queue has room for it. *)
LEMMA ReturnChannelOK ==
  ASSUME zone \in ZoneSettings, NEW c \in MIDI_CHANNELS, NEW v, VoicesOK(zone, v, {c})
  PROVE  LET w == [v EXCEPT !.available = Enqueue(@, c)]
         IN  /\ VoicesOK(zone, w, {})
             /\ w.stack = v.stack /\ w.channel = v.channel /\ w.events = v.events
             /\ ToSet(w.available) = ToSet(v.available) \cup {c}
<1> DEFINE w == [v EXCEPT !.available = Enqueue(@, c)]
           held == Len(v.stack)
           unused == Len(v.available)
<1>1. /\ v \in VoiceRecords /\ Unique(v.stack) /\ Unique(v.available)
      /\ HalvesOK(zone, v) /\ ChannelsOK(zone, v, {c}) /\ CountOK(zone, v, {c})
  BY DEF VoicesOK
<1>2. /\ w.stack = v.stack /\ w.above = v.above /\ w.below = v.below
      /\ w.channel = v.channel /\ w.events = v.events
      /\ w.available = Enqueue(v.available, c)
      /\ w = [v EXCEPT !.available = w.available]
  BY <1>1 DEF VoiceRecords
<1>3. /\ held + unused + 1 = zone.channel_count /\ held \in Nat /\ unused \in Nat
      /\ zone.channel_count \in 1..15
  BY <1>1, ElementsOfSeq, ZoneFacts DEF CountOK, VoiceRecords
<1>4. w.available = Append(v.available, c)
  <2> HIDE DEF held
  <2>1. unused < 15
    <3> HIDE DEF unused
    <3> QED BY <1>3
  <2> QED BY <1>2, <2>1 DEF Enqueue, MPE_MEMBER_CHANNELS_MAX
<1>5. /\ w.available \in Seq(MIDI_CHANNELS) /\ Unique(w.available)
      /\ Len(w.available) = unused + 1
      /\ ToSet(w.available) = ToSet(v.available) \cup {c}
  <2>1. /\ v.available \in Seq(MIDI_CHANNELS) /\ Unique(v.available)
        /\ c \notin ToSet(v.available)
    BY <1>1 DEF VoiceRecords, ChannelsOK
  <2> HIDE DEF w
  <2> QED BY <1>4, <2>1, AppendNew
<1> HIDE DEF w, held, unused
<1>6. w \in VoiceRecords
  BY <1>1, <1>2, <1>5 DEF VoiceRecords
<1>7. HalvesOK(zone, w)
  BY <1>1, <1>2 DEF HalvesOK
<1>8. ChannelsOK(zone, w, {})
  BY <1>1, <1>2, <1>5 DEF ChannelsOK
<1>9. CountOK(zone, w, {})
  <2>1. held + (unused + 1) + 0 = zone.channel_count
    BY <1>3
  <2>2. Len(w.stack) = held
    BY <1>2 DEF held
  <2> QED BY <1>5, <2>1, <2>2 DEF CountOK
<1> QED BY <1>1, <1>2, <1>5, <1>6, <1>7, <1>8, <1>9 DEF VoicesOK, w

-----------------------------------------------------------------------------
(* What the receiver hears. *)

Tones(z, v) == {<<v.channel[n], Transpose(z, n)>> : n \in ToSet(v.stack)}

(* Each of the events finds its tone sounding, or its channel silent, but  *)
(* for the tones that a reset discarded events of.                         *)
Paired(events) ==
  \A k \in DOMAIN events :
    LET heard == HearAll(SubSeq(events, 1, k - 1))
    IN  IF events[k].type = "off" THEN Tone(events[k]) \in heard \cup discarded
        ELSE \A tone \in heard \ discarded : tone[1] # events[k].channel

LastHeardOn(es, tone) ==
  \E i \in DOMAIN es : /\ Tone(es[i]) = tone /\ es[i].type = "on"
                       /\ \A j \in DOMAIN es : j > i => Tone(es[j]) # tone

NeverHeard(es, tone) == \A i \in DOMAIN es : Tone(es[i]) # tone

(* The last event of a tone, if it has any, says whether a held note       *)
(* sounds it.                                                              *)
Tells(es, tones) ==
  \A tone : NeverHeard(es, tone) \/ (LastHeardOn(es, tone) <=> tone \in tones)

(* The tones of held notes sound, and besides them only hanging ones. *)
Sounds(heard, tones) ==
  tones \subseteq heard /\ heard \subseteq tones \cup discarded

HeardOK(v) ==
  /\ Tells(v.events, Tones(zone, v))
  /\ Sounds(HearAll(v.events), Tones(zone, v))
  /\ is_suspended \/ Paired(v.events)

(* The two ways of being heard, without the set they are chosen from. *)
LEMMA HeardTones ==
  ASSUME NEW es, NEW tone
  PROVE  tone \in HearAll(es) <=> (tone \in sounding /\ NeverHeard(es, tone))
                                    \/ LastHeardOn(es, tone)
  BY DEF HearAll, LastHeardOn, NeverHeard

(* One more event is the last of its own tone and no other's. *)
LEMMA LastHeardAppend ==
  ASSUME NEW es \in Seq(Events), NEW e \in Events
  PROVE  LET more == Append(es, e)
         IN  /\ \A tone : tone # Tone(e) =>
                  /\ NeverHeard(more, tone) <=> NeverHeard(es, tone)
                  /\ LastHeardOn(more, tone) <=> LastHeardOn(es, tone)
             /\ ~NeverHeard(more, Tone(e))
             /\ LastHeardOn(more, Tone(e)) <=> e.type = "on"
<1> DEFINE more == Append(es, e)
           last == Len(es) + 1
<1>1. /\ DOMAIN es = 1..Len(es) /\ DOMAIN more = 1..last /\ Len(es) \in Nat
      /\ more[last] = e /\ \A i \in 1..Len(es) : more[i] = es[i]
  OBVIOUS
<1> HIDE DEF more
<1>2. \A i \in 1..last : i = last \/ i \in 1..Len(es)
  BY <1>1
<1>3. \A i \in 1..Len(es) : i \in 1..last /\ last > i
  BY <1>1
<1>4. last \in 1..last /\ \A i \in 1..last : ~(i > last)
  BY <1>1
<1> HIDE DEF last
<1>5. ASSUME NEW tone, tone # Tone(e)
      PROVE  /\ NeverHeard(more, tone) <=> NeverHeard(es, tone)
             /\ LastHeardOn(more, tone) <=> LastHeardOn(es, tone)
  <2>1. NeverHeard(more, tone) <=> NeverHeard(es, tone)
    BY <1>1, <1>2, <1>3, <1>5 DEF NeverHeard
  <2>2. LastHeardOn(more, tone) => LastHeardOn(es, tone)
    BY <1>1, <1>2, <1>3, <1>5 DEF LastHeardOn
  <2>3. LastHeardOn(es, tone) => LastHeardOn(more, tone)
    BY <1>1, <1>2, <1>3, <1>5 DEF LastHeardOn
  <2> QED BY <2>1, <2>2, <2>3
<1>6. ~NeverHeard(more, Tone(e))
  BY <1>1, <1>4 DEF NeverHeard
<1>7. e.type = "on" => LastHeardOn(more, Tone(e))
  BY <1>1, <1>4 DEF LastHeardOn
<1>8. LastHeardOn(more, Tone(e)) => e.type = "on"
  BY <1>1, <1>2, <1>3, <1>4 DEF LastHeardOn
<1> QED BY <1>5, <1>6, <1>7, <1>8 DEF more

(* One more event adds or ends its own tone only. *)
LEMMA HearAppend ==
  ASSUME NEW es \in Seq(Events), NEW e \in Events
  PROVE  HearAll(Append(es, e)) = IF e.type = "on" THEN HearAll(es) \cup {Tone(e)}
                                                   ELSE HearAll(es) \ {Tone(e)}
<1>1. PICK more : more = Append(es, e)
  OBVIOUS
<1>2. \A tone : tone # Tone(e) => (tone \in HearAll(more) <=> tone \in HearAll(es))
  BY <1>1, LastHeardAppend, HeardTones
<1>3. Tone(e) \in HearAll(more) <=> e.type = "on"
  BY <1>1, LastHeardAppend, HeardTones
<1> QED BY <1>1, <1>2, <1>3

(* One more event tells of its own tone. *)
LEMMA TellsAppend ==
  ASSUME NEW es \in Seq(Events), NEW e \in Events, NEW tones, Tells(es, tones)
  PROVE  Tells(Append(es, e), IF e.type = "on" THEN tones \cup {Tone(e)}
                                               ELSE tones \ {Tone(e)})
<1>1. PICK more : more = Append(es, e)
  OBVIOUS
<1>2. PICK then : then = IF e.type = "on" THEN tones \cup {Tone(e)} ELSE tones \ {Tone(e)}
  OBVIOUS
<1>3. \A tone : tone # Tone(e) => (tone \in then <=> tone \in tones)
  BY <1>2
<1>4. Tone(e) \in then <=> e.type = "on"
  BY <1>2
<1>5. Tells(more, then)
  BY <1>1, <1>3, <1>4, LastHeardAppend DEF Tells
<1> QED BY <1>1, <1>2, <1>5

(* One more event that finds its tone sounding, or its channel silent. *)
LEMMA PairedAppend ==
  ASSUME NEW es \in Seq(Events), NEW e \in Events, Paired(es),
         IF e.type = "off" THEN Tone(e) \in HearAll(es) \cup discarded
         ELSE \A tone \in HearAll(es) \ discarded : tone[1] # e.channel
  PROVE  Paired(Append(es, e))
<1> DEFINE more == Append(es, e)
<1>1. /\ DOMAIN es = 1..Len(es) /\ DOMAIN more = 1..(Len(es) + 1) /\ Len(es) \in Nat
      /\ more[Len(es) + 1] = e
  OBVIOUS
<1>2. ASSUME NEW k \in 1..Len(es)
      PROVE  more[k] = es[k] /\ SubSeq(more, 1, k - 1) = SubSeq(es, 1, k - 1)
  OBVIOUS
<1>3. SubSeq(more, 1, (Len(es) + 1) - 1) = es
  OBVIOUS
<1> HIDE DEF more
<1>4. ASSUME NEW k \in DOMAIN more
      PROVE  LET heard == HearAll(SubSeq(more, 1, k - 1))
             IN  IF more[k].type = "off" THEN Tone(more[k]) \in heard \cup discarded
                 ELSE \A tone \in heard \ discarded : tone[1] # more[k].channel
  <2>1. CASE k = Len(es) + 1
    BY <1>1, <1>3, <2>1
  <2>2. CASE k \in 1..Len(es)
    BY <1>1, <1>2, <2>2 DEF Paired
  <2> QED BY <1>1, <2>1, <2>2
<1> QED BY <1>4 DEF Paired, more

(* What events make the receiver hear depends on what it hears before.     *)
LEMMA HearUnchanged ==
  ASSUME sounding' = sounding, NEW es
  PROVE  HearAll(es)' = HearAll(es)
  BY DEF HearAll, Tone

LEMMA PairedUnchanged ==
  ASSUME sounding' = sounding, discarded' = discarded, NEW es, Paired(es)
  PROVE  Paired(es)'
<1>1. \A some : HearAll(some)' = HearAll(some)
  BY DEF HearAll, Tone
<1>2. \A event : Tone(event)' = Tone(event)
  BY DEF Tone
<1> QED BY <1>1, <1>2 DEF Paired

LEMMA HeardUnchanged ==
  ASSUME sounding' = sounding, discarded' = discarded, zone' = zone,
         is_suspended => is_suspended', NEW v, HeardOK(v)
  PROVE  HeardOK(v)'
<1>1. HearAll(v.events)' = HearAll(v.events)
  BY HearUnchanged
<1>2. Paired(v.events) => Paired(v.events)'
  BY PairedUnchanged
<1>3. Tones(zone, v)' = Tones(zone, v)
  BY DEF Tones, Transpose, IsAboveAnchor
<1>4. PICK es, tones : es = v.events /\ tones = Tones(zone, v)
  OBVIOUS
<1>5. Tells(es, tones) => Tells(es, tones)'
  BY DEF Tells, NeverHeard, LastHeardOn, Tone
<1>6. Sounds(HearAll(v.events), Tones(zone, v))'
  BY <1>1, <1>3 DEF HeardOK, Sounds
<1> QED BY <1>2, <1>3, <1>4, <1>5, <1>6 DEF HeardOK

(* push_note_on makes the receiver hear the new note as well. *)
LEMMA PushNoteOnHeard ==
  ASSUME zone \in ZoneSettings, NEW c \in MIDI_CHANNELS, NEW n \in Note,
         NEW v, VoicesOK(zone, v, {c}), n \notin ToSet(v.stack), HeardOK(v)
  PROVE  HeardOK(PushNoteOn(v, c, n))
<1> DEFINE w == PushNoteOn(v, c, n)
           e == NoteEvent("on", c, n)
<1>1. /\ v \in VoiceRecords /\ v.stack \in Seq(Note)
      /\ ToSet(v.stack) \subseteq Note
      /\ v.channel \in [Note -> MIDI_CHANNELS \cup {INVALID_CHANNEL}]
      /\ v.events \in Seq(Events)
  BY ElementsOfSeq DEF VoicesOK, VoiceRecords
<1>2. /\ w.stack = <<n>> \o v.stack /\ w.channel = [v.channel EXCEPT ![n] = c]
      /\ w.events = Append(v.events, e)
  BY <1>1 DEF PushNoteOn, VoiceRecords
<1>3. /\ e \in Events /\ e.type = "on" /\ Tone(e) = <<c, Transpose(zone, n)>>
  BY EventType DEF NoteEvent, Tone
<1>4. ToSet(w.stack) = ToSet(v.stack) \cup {n}
  BY <1>1, <1>2, PushInFront
<1> HIDE DEF w, e
<1>5. Tones(zone, w) = Tones(zone, v) \cup {Tone(e)}
  <2>1. /\ w.channel[n] = c
        /\ \A m \in ToSet(v.stack) : w.channel[m] = v.channel[m]
    BY <1>1, <1>2
  <2> QED BY <1>3, <1>4, <2>1 DEF Tones
<1>6. HearAll(w.events) = HearAll(v.events) \cup {Tone(e)}
  BY <1>1, <1>2, <1>3, HearAppend
<1>7. is_suspended \/ Paired(w.events)
  <2>1. \A m \in ToSet(v.stack) : v.channel[m] # c
    BY DEF VoicesOK, ChannelsOK
  <2>2. \A tone \in Tones(zone, v) : tone[1] # e.channel
    BY <2>1 DEF Tones, e, NoteEvent
  <2>3. \A tone \in HearAll(v.events) \ discarded : tone[1] # e.channel
    BY <2>2 DEF HeardOK, Sounds
  <2> QED BY <1>1, <1>2, <1>3, <2>3, PairedAppend DEF HeardOK
<1>8. Tells(w.events, Tones(zone, w))
  <2>1. PICK tones : tones = Tones(zone, v)
    OBVIOUS
  <2>2. Tells(v.events, tones)
    BY <2>1 DEF HeardOK
  <2>3. Tells(Append(v.events, e), IF e.type = "on" THEN tones \cup {Tone(e)}
                                                    ELSE tones \ {Tone(e)})
    BY <1>1, <1>3, <2>2, TellsAppend
  <2> QED BY <1>2, <1>3, <1>5, <2>1, <2>3
<1>9. Sounds(HearAll(w.events), Tones(zone, w))
  BY <1>5, <1>6 DEF HeardOK, Sounds
<1> QED BY <1>7, <1>8, <1>9 DEF HeardOK, w

(* push_note_off of a held note ends that note's tone and no other. *)
LEMMA PushNoteOffHeard ==
  ASSUME zone \in ZoneSettings, NEW v, VoicesOK(zone, v, {}),
         NEW n \in Note, n \in ToSet(v.stack), HeardOK(v)
  PROVE  HeardOK(PushNoteOff(v, v.channel[n], n))
<1> DEFINE c == v.channel[n]
           w == PushNoteOff(v, c, n)
           e == NoteEvent("off", c, n)
<1>1. /\ v \in VoiceRecords /\ v.events \in Seq(Events) /\ ChannelsOK(zone, v, {})
  BY DEF VoicesOK, VoiceRecords
<1>2. /\ c \in MIDI_CHANNELS /\ w.channel = v.channel
      /\ ToSet(w.stack) = ToSet(v.stack) \ {n}
  BY PushNoteOffOK
<1>3. w.events = Append(v.events, e)
  BY <1>1 DEF PushNoteOff, VoiceRecords
<1>4. /\ e \in Events /\ e.type = "off" /\ Tone(e) = <<c, Transpose(zone, n)>>
  BY <1>2, EventType DEF NoteEvent, Tone
<1>5. \A m \in ToSet(v.stack) : v.channel[m] = v.channel[n] => m = n
  BY <1>1 DEF ChannelsOK
<1> HIDE DEF w, e
<1>6. Tones(zone, w) = Tones(zone, v) \ {Tone(e)}
  BY <1>2, <1>4, <1>5 DEF Tones
<1>7. HearAll(w.events) = HearAll(v.events) \ {Tone(e)}
  BY <1>1, <1>3, <1>4, HearAppend
<1>8. is_suspended \/ Paired(w.events)
  <2>1. Tone(e) \in HearAll(v.events)
    BY <1>4 DEF HeardOK, Sounds, Tones, c
  <2> QED BY <1>1, <1>3, <1>4, <2>1, PairedAppend DEF HeardOK
<1>9. Tells(w.events, Tones(zone, w))
  BY <1>1, <1>3, <1>4, <1>6, TellsAppend DEF HeardOK
<1>10. Sounds(HearAll(w.events), Tones(zone, w))
  BY <1>6, <1>7 DEF HeardOK, Sounds
<1> QED BY <1>8, <1>9, <1>10 DEF HeardOK, w

-----------------------------------------------------------------------------
(* What the handlers do. *)

(* handle_note_off: the note is gone and its channel available again. *)
LEMMA HandleNoteOffOK ==
  ASSUME zone \in ZoneSettings, NEW v, VoicesOK(zone, v, {}),
         NEW n \in Note, n \in ToSet(v.stack)
  PROVE  /\ VoicesOK(zone, HandleNoteOff(v, n), {})
         /\ HeardOK(v) => HeardOK(HandleNoteOff(v, n))
<1> DEFINE c == v.channel[n]
           off == PushNoteOff(v, c, n)
           w == [off EXCEPT !.available = Enqueue(@, c)]
<1>1. c \in MIDI_CHANNELS /\ VoicesOK(zone, off, {c})
  BY PushNoteOffOK
<1>2. HeardOK(v) => HeardOK(off)
  BY PushNoteOffHeard
<1> HIDE DEF off, c
<1>3. VoicesOK(zone, w, {}) /\ w.stack = off.stack /\ w.channel = off.channel
      /\ w.events = off.events
  BY <1>1, ReturnChannelOK
<1> HIDE DEF w
<1>4. HeardOK(off) => HeardOK(w)
  BY <1>3 DEF HeardOK, Tones
<1>5. w = HandleNoteOff(v, n)
  BY DEF HandleNoteOff, w, off, c
<1> QED BY <1>2, <1>3, <1>4, <1>5

(* A note that ends and frees its channel. *)
LEMMA ReleaseVoice ==
  ASSUME zone \in ZoneSettings, NEW v, VoicesOK(zone, v, {}),
         NEW n \in Note, n \in ToSet(v.stack)
  PROVE  LET w == HandleNoteOff(v, n)
         IN  /\ ToSet(w.available) = ToSet(v.available) \cup {v.channel[n]}
             /\ ToSet(w.stack) = ToSet(v.stack) \ {n}
             /\ w.channel = v.channel
<1> DEFINE c == v.channel[n]
           off == PushNoteOff(v, c, n)
           w == [off EXCEPT !.available = Enqueue(@, c)]
<1>1. /\ c \in MIDI_CHANNELS /\ VoicesOK(zone, off, {c})
      /\ ToSet(off.stack) = ToSet(v.stack) \ {n}
      /\ off.channel = v.channel /\ off.available = v.available
  BY PushNoteOffOK
<1> HIDE DEF off, c
<1>2. /\ w.stack = off.stack /\ w.channel = off.channel
      /\ ToSet(w.available) = ToSet(off.available) \cup {c}
  BY <1>1, ReturnChannelOK
<1> HIDE DEF w
<1>3. w = HandleNoteOff(v, n)
  BY DEF HandleNoteOff, w, off, c
<1> QED BY <1>1, <1>2, <1>3 DEF c

-----------------------------------------------------------------------------
(* The Note Offs that wait for the sustain pedal. *)

Waits(v) == ToSet(Chain(v.deferred))

DeferOK(v) ==
  Pointers(v.deferred, Chain(v.deferred)) /\ Waits(v) \subseteq ToSet(v.stack)

(* A list of held notes is the chain that is walked. *)
LEMMA DeferralsAre ==
  ASSUME NEW v, NEW s, Pointers(v.deferred, s), ToSet(s) \subseteq ToSet(v.stack)
  PROVE  DeferOK(v) /\ Chain(v.deferred) = s /\ Waits(v) = ToSet(s)
<1>1. Chain(v.deferred) = s
  BY ChainIs
<1> QED BY <1>1 DEF DeferOK, Waits

(* No note waits when the list is empty. *)
LEMMA NobodyWaits ==
  ASSUME NEW v, DeferOK(v)
  PROVE  /\ Chain(v.deferred) = <<>> <=> Waits(v) = {}
         /\ v.deferred.head = INVALID_NOTE <=> Waits(v) = {}
<1>1. PICK s : s = Chain(v.deferred) /\ Pointers(v.deferred, s)
  BY DEF DeferOK
<1>2. /\ s \in Seq(Note) /\ Len(s) \in Nat /\ ToSet(s) = {s[i] : i \in 1..Len(s)}
      /\ (s = <<>> <=> Len(s) = 0)
  BY <1>1, ElementsOfSeq DEF Pointers
<1>3. s = <<>> <=> ToSet(s) = {}
  <2>1. s # <<>> => 1 \in 1..Len(s)
    BY <1>2
  <2>2. s = <<>> => 1..Len(s) = {}
    BY <1>2
  <2> QED BY <1>2, <2>1, <2>2
<1>4. v.deferred.head = INVALID_NOTE <=> s = <<>>
  <2>1. s # <<>> => s[1] \in Note
    BY <1>2
  <2> QED BY <1>1, <2>1, NotesAreValid DEF Pointers
<1> QED BY <1>1, <1>3, <1>4 DEF Waits

(* Another list of deferred Note Offs leaves the voices as they are. *)
LEMMA OnlyDeferral ==
  ASSUME NEW v, VoicesOK(zone, v, {}), NEW d \in List
  PROVE  LET w == [v EXCEPT !.deferred = d]
         IN  /\ VoicesOK(zone, w, {}) /\ (HeardOK(v) => HeardOK(w))
             /\ w.deferred = d /\ w.stack = v.stack /\ w.channel = v.channel
             /\ w.available = v.available
<1> DEFINE w == [v EXCEPT !.deferred = d]
<1>1. v \in VoiceRecords
  BY DEF VoicesOK
<1>2. /\ w \in VoiceRecords /\ w.deferred = d /\ w.stack = v.stack
      /\ w.above = v.above /\ w.below = v.below /\ w.channel = v.channel
      /\ w.available = v.available /\ w.events = v.events
  BY <1>1 DEF VoiceRecords
<1> HIDE DEF w
<1>3. VoicesOK(zone, w, {})
  <2>1. HalvesOK(zone, w) /\ Unique(w.stack) /\ Unique(w.available)
    BY <1>2 DEF VoicesOK, HalvesOK
  <2>2. ChannelsOK(zone, w, {})
    BY <1>2 DEF VoicesOK, ChannelsOK
  <2>3. CountOK(zone, w, {})
    BY <1>2 DEF VoicesOK, CountOK
  <2> QED BY <1>2, <2>1, <2>2, <2>3 DEF VoicesOK
<1>4. HeardOK(v) => HeardOK(w)
  BY <1>2 DEF HeardOK, Tones
<1> QED BY <1>2, <1>3, <1>4 DEF w

(* push_note_off keeps the list in order when it has the note, or nothing. *)
LEMMA PushNoteOffWaits ==
  ASSUME NEW v \in VoiceRecords, Unique(v.stack), DeferOK(v),
         NEW n \in Note, n \in ToSet(v.stack), Waits(v) = {} \/ n \in Waits(v), NEW c
  PROVE  LET w == PushNoteOff(v, c, n)
         IN  DeferOK(w) /\ Waits(w) = Waits(v) \ {n}
<1> DEFINE w == PushNoteOff(v, c, n)
<1>1. PICK s : s = Chain(v.deferred) /\ Pointers(v.deferred, s) /\ Waits(v) = ToSet(s)
  BY DEF DeferOK, Waits
<1>2. w.deferred = Unlink(v.deferred, n) /\ w.stack = RemoveFirst(v.stack, n)
  BY DEF PushNoteOff, VoiceRecords
<1>3. ToSet(w.stack) = ToSet(v.stack) \ {n}
  BY <1>2, RemovePresent DEF VoiceRecords
<1>4. PICK t : Pointers(Unlink(v.deferred, n), t) /\ ToSet(t) = ToSet(s) \ {n}
  <2>1. CASE n \in ToSet(s)
    <3>1. ToSet(RemoveFirst(s, n)) = ToSet(s) \ {n}
      BY <1>1, <2>1, RemovePresent DEF Pointers
    <3> QED BY <1>1, <2>1, <3>1, UnlinkTakesOut
  <2>2. CASE Waits(v) = {}
    <3>1. s = <<>> /\ ToSet(s) = {}
      BY <1>1, <2>2, NobodyWaits
    <3>2. Pointers(Unlink(v.deferred, n), s)
      BY <1>1, <3>1, UnlinkFromEmpty
    <3> QED BY <3>1, <3>2
  <2> QED BY <1>1, <2>1, <2>2
<1> HIDE DEF w
<1>5. ToSet(t) \subseteq ToSet(w.stack)
  BY <1>1, <1>3, <1>4 DEF DeferOK
<1>6. Pointers(w.deferred, t)
  BY <1>2, <1>4
<1>7. DeferOK(w) /\ Waits(w) = ToSet(t)
  BY <1>5, <1>6, DeferralsAre
<1> QED BY <1>1, <1>4, <1>7 DEF w

(* handle_note_off as well. *)
LEMMA HandleNoteOffWaits ==
  ASSUME NEW v \in VoiceRecords, Unique(v.stack), DeferOK(v),
         NEW n \in Note, n \in ToSet(v.stack), Waits(v) = {} \/ n \in Waits(v)
  PROVE  LET w == HandleNoteOff(v, n)
         IN  DeferOK(w) /\ Waits(w) = Waits(v) \ {n}
<1> DEFINE off == PushNoteOff(v, v.channel[n], n)
           w == HandleNoteOff(v, n)
<1>1. DeferOK(off) /\ Waits(off) = Waits(v) \ {n}
  BY PushNoteOffWaits
<1>2. w.deferred = off.deferred /\ w.stack = off.stack
  BY DEF HandleNoteOff, PushNoteOff, VoiceRecords
<1> HIDE DEF off, w
<1>3. DeferOK(w) /\ Waits(w) = Waits(off)
  BY <1>1, <1>2 DEF DeferOK, Waits
<1> QED BY <1>1, <1>3 DEF w

(* push_note_on does not touch the list. *)
LEMMA PushNoteOnWaits ==
  ASSUME NEW v \in VoiceRecords, DeferOK(v), NEW n \in Note, NEW c
  PROVE  LET w == PushNoteOn(v, c, n)
         IN  DeferOK(w) /\ Waits(w) = Waits(v) /\ ToSet(w.stack) = ToSet(v.stack) \cup {n}
<1> DEFINE w == PushNoteOn(v, c, n)
<1>1. w.deferred = v.deferred /\ w.stack = <<n>> \o v.stack
  BY DEF PushNoteOn, VoiceRecords
<1>2. ToSet(w.stack) = ToSet(v.stack) \cup {n}
  BY <1>1, PushInFront DEF VoiceRecords
<1> HIDE DEF w
<1>3. DeferOK(w) /\ Waits(w) = Waits(v)
  BY <1>1, <1>2 DEF DeferOK, Waits
<1> QED BY <1>2, <1>3 DEF w

-----------------------------------------------------------------------------
(* The loop of process_deferred_note_offs. *)

\* w is v after the waiting notes "ended" have been ended
Ended(v, w, ended) ==
  /\ VoicesOK(zone, w, {}) /\ DeferOK(w) /\ (HeardOK(v) => HeardOK(w))
  /\ ended \subseteq Waits(v) /\ Waits(w) = Waits(v) \ ended
  /\ ToSet(w.stack) = ToSet(v.stack) \ ended
  /\ w.channel = v.channel
  /\ ToSet(w.available) = ToSet(v.available) \cup {v.channel[n] : n \in ended}

EndNext(v) ==
  IF v.deferred.head = INVALID_NOTE THEN v
  ELSE HandleNoteOff([v EXCEPT !.deferred = BasicPop(@)], v.deferred.head)

(* One iteration: the newest deferral's note ends. *)
LEMMA EndNextOK ==
  ASSUME zone \in ZoneSettings, NEW v, VoicesOK(zone, v, {}), DeferOK(v), Waits(v) # {}
  PROVE  \E n \in Waits(v) : Ended(v, EndNext(v), {n})
<1>1. PICK s : /\ s = Chain(v.deferred) /\ Pointers(v.deferred, s)
               /\ Waits(v) = ToSet(s) /\ ToSet(s) \subseteq ToSet(v.stack)
  BY DEF DeferOK, Waits
<1>2. v \in VoiceRecords /\ v.deferred \in List /\ Unique(v.stack) /\ ToSet(v.stack) \subseteq Note
  BY ElementsOfSeq DEF VoicesOK, VoiceRecords
<1>3. PICK n \in Note : n = v.deferred.head
  <2>1. v.deferred.head # INVALID_NOTE
    BY NobodyWaits
  <2> QED BY <1>2, <2>1 DEF List, OptionalNote
<1> DEFINE b == BasicPop(v.deferred)
           u == [v EXCEPT !.deferred = b]
           w == HandleNoteOff(u, n)
           t == RemoveFirst(s, n)
<1>4. n \in ToSet(s) /\ Pointers(b, t) /\ b.next[n] = INVALID_NOTE
  BY <1>1, <1>3, PopLinks
<1>5. t \in Seq(Note) /\ ToSet(t) = ToSet(s) \ {n} /\ b \in List
  BY <1>1, <1>4, RemovePresent DEF Pointers
<1>6. b.head # n /\ b.previous[n] = INVALID_NOTE
  <2>1. t # <<>> => t[1] \in ToSet(t)
    <3> HIDE DEF t
    <3> QED BY <1>5, ElementsOfSeq
  <2> HIDE DEF t, b
  <2> QED BY <1>4, <1>5, <2>1, NotesAreValid DEF Pointers
<1> HIDE DEF b, t
<1>7. /\ VoicesOK(zone, u, {}) /\ (HeardOK(v) => HeardOK(u)) /\ u \in VoiceRecords
      /\ u.deferred = b /\ u.stack = v.stack /\ u.channel = v.channel
      /\ u.available = v.available
  BY <1>5, OnlyDeferral DEF VoicesOK
<1> HIDE DEF u
<1>8. n \in ToSet(u.stack)
  BY <1>1, <1>4, <1>7
<1>9. VoicesOK(zone, w, {}) /\ (HeardOK(u) => HeardOK(w))
  BY <1>7, <1>8, HandleNoteOffOK
<1>10. /\ ToSet(w.available) = ToSet(v.available) \cup {v.channel[n]}
       /\ ToSet(w.stack) = ToSet(v.stack) \ {n} /\ w.channel = v.channel
  BY <1>7, <1>8, ReleaseVoice
<1>11. w.deferred = Unlink(b, n)
  BY <1>7 DEF HandleNoteOff, PushNoteOff, VoiceRecords
<1> HIDE DEF w
<1>12. Pointers(w.deferred, t)
  <2>1. Unlink(b, n) = [b EXCEPT !.oldest = IF @ = n THEN INVALID_NOTE ELSE @]
    BY <1>4, <1>5, <1>6, UnlinkLoose
  <2>2. /\ Unlink(b, n) \in List /\ Unlink(b, n).head = b.head
        /\ Unlink(b, n).next = b.next /\ Unlink(b, n).previous = b.previous
    BY <1>5, <2>1 DEF List, OptionalNote
  <2> QED BY <1>4, <1>11, <2>2, PointersKept
<1>13. DeferOK(w) /\ Waits(w) = ToSet(t)
  <2>1. ToSet(t) \subseteq ToSet(w.stack)
    BY <1>1, <1>5, <1>10
  <2> QED BY <1>12, <2>1, DeferralsAre
<1>14. EndNext(v) = w
  BY <1>3, NotesAreValid DEF EndNext, w, u, b
<1>15. {v.channel[m] : m \in {n}} = {v.channel[n]}
  OBVIOUS
<1>16. Ended(v, w, {n})
  BY <1>1, <1>4, <1>5, <1>7, <1>9, <1>10, <1>13, <1>15 DEF Ended
<1> QED BY <1>1, <1>4, <1>14, <1>16

(* An iteration ends one more of the notes that waited at first. *)
LEMMA EndsMore ==
  ASSUME zone \in ZoneSettings, NEW v, NEW w, Ended(v, w, Waits(v) \ Waits(w))
  PROVE  LET x == EndNext(w)
         IN  /\ Ended(v, x, Waits(v) \ Waits(x))
             /\ Waits(w) = {} => Waits(x) = {}
             /\ Waits(w) # {} => \E n \in Waits(w) : Waits(x) = Waits(w) \ {n}
<1> DEFINE x == EndNext(w)
<1>1. VoicesOK(zone, w, {}) /\ DeferOK(w)
  BY DEF Ended
<1>2. CASE Waits(w) = {}
  <2>1. x = w
    BY <1>1, <1>2, NobodyWaits DEF EndNext
  <2> QED BY <1>2, <2>1
<1>3. CASE Waits(w) # {}
  <2>1. PICK n \in Waits(w) : Ended(w, x, {n})
    BY <1>1, <1>3, EndNextOK
  <2> HIDE DEF x
  <2> DEFINE before == Waits(v) \ Waits(w)
             after == Waits(v) \ Waits(x)
  <2>2. /\ Waits(w) = Waits(v) \ before /\ Waits(x) = Waits(w) \ {n}
        /\ after = before \cup {n} /\ n \in Waits(v)
    BY <2>1 DEF Ended
  <2>3. /\ ToSet(x.stack) = ToSet(v.stack) \ after /\ x.channel = v.channel
    BY <2>1, <2>2 DEF Ended
  <2>4. ToSet(x.available) = ToSet(v.available) \cup {v.channel[m] : m \in after}
    <3>1. /\ ToSet(w.available) = ToSet(v.available) \cup {v.channel[m] : m \in before}
          /\ w.channel = v.channel
      BY DEF Ended
    <3>2. ToSet(x.available) = ToSet(w.available) \cup {w.channel[m] : m \in {n}}
      BY <2>1 DEF Ended
    <3>3. {v.channel[m] : m \in after} = {v.channel[m] : m \in before} \cup {v.channel[m] : m \in {n}}
      BY <2>2
    <3> QED BY <3>1, <3>2, <3>3
  <2>5. VoicesOK(zone, x, {}) /\ DeferOK(x) /\ (HeardOK(v) => HeardOK(x))
    BY <2>1 DEF Ended
  <2>6. after \subseteq Waits(v) /\ Waits(x) = Waits(v) \ after
    BY <2>2
  <2> HIDE DEF after, before
  <2>7. Ended(v, x, after)
    BY <2>3, <2>4, <2>5, <2>6 DEF Ended
  <2> QED BY <1>3, <2>2, <2>7 DEF after, x
<1> QED BY <1>2, <1>3

(* The loop makes at most one iteration per note, so it ends them all. *)
LEMMA ProcessDeferredEnds ==
  ASSUME zone \in ZoneSettings, NEW v, VoicesOK(zone, v, {}), DeferOK(v)
  PROVE  LET w == ProcessDeferredNoteOffs(v)
         IN  Waits(w) = {} /\ Ended(v, w, Waits(v))
<1> DEFINE most == Cardinality(Note) + 1
           body(f) == [k \in 0..most |->
                         IF k = 0 THEN v
                         ELSE LET w == f[k - 1]
                              IN  IF w.deferred.head = INVALID_NOTE THEN w
                                  ELSE HandleNoteOff([w EXCEPT !.deferred = BasicPop(@)],
                                                     w.deferred.head)]
           released == CHOOSE f : f = body(f)
           Good == {w \in VoiceRecords : Ended(v, w, Waits(v) \ Waits(w))}
<1>1. most \in Nat /\ most \in 0..most
  BY NotesAreValid
<1>2. v \in Good
  <2>1. v \in VoiceRecords
    BY DEF VoicesOK
  <2>2. Ended(v, v, {})
    BY DEF Ended
  <2>3. Waits(v) \ Waits(v) = {}
    OBVIOUS
  <2> QED BY <2>1, <2>2, <2>3
<1>3. ASSUME NEW w \in Good
      PROVE  /\ EndNext(w) \in Good
             /\ Waits(w) = {} => Waits(EndNext(w)) = {}
             /\ Waits(w) # {} => \E n \in Waits(w) : Waits(EndNext(w)) = Waits(w) \ {n}
  <2>1. Ended(v, w, Waits(v) \ Waits(w))
    OBVIOUS
  <2>2. PICK x : x = EndNext(w)
    OBVIOUS
  <2>3. /\ Ended(v, x, Waits(v) \ Waits(x))
        /\ Waits(w) = {} => Waits(x) = {}
        /\ Waits(w) # {} => \E n \in Waits(w) : Waits(x) = Waits(w) \ {n}
    BY <2>1, <2>2, EndsMore
  <2>4. x \in VoiceRecords
    BY <2>3 DEF Ended, VoicesOK
  <2> QED BY <2>2, <2>3, <2>4
<1> HIDE DEF most, Good
<1>4. PICK g \in [0..most -> Good] :
        g[0] = v /\ \A k \in 1..most : g[k] = EndNext(g[k - 1])
  <2>1. PICK step \in [Good -> Good] : \A w \in Good : step[w] = EndNext(w)
    <3>1. [w \in Good |-> EndNext(w)] \in [Good -> Good]
      BY <1>3
    <3> QED BY <3>1
  <2>2. PICK g \in [0..most -> Good] : g[0] = v /\ \A k \in 1..most : g[k] = step[g[k - 1]]
    BY <1>1, <1>2, RecursionExists
  <2>3. \A k \in 1..most : k - 1 \in 0..most
    BY <1>1
  <2> QED BY <2>1, <2>2, <2>3
<1>5. g = body(g)
  <2>1. \A k \in 0..most : k = 0 \/ (k \in 1..most /\ k # 0)
    BY <1>1
  <2>2. \A k \in 1..most : body(g)[k] = EndNext(g[k - 1])
    <3>1. \A k \in 1..most : k \in 0..most /\ k # 0
      BY <1>1
    <3> QED BY <3>1 DEF EndNext
  <2>3. \A k \in 0..most : g[k] = body(g)[k]
    <3>1. body(g)[0] = v
      BY <1>1
    <3> HIDE DEF body
    <3> QED BY <1>4, <2>1, <2>2, <3>1
  <2> QED BY <2>3
<1>6. released = body(released)
  BY <1>5
<1>7. /\ released[0] = v
      /\ \A k \in 1..most : released[k] = EndNext(released[k - 1])
  <2> HIDE DEF released
  <2>1. \A k \in 0..most : released[k] = body(released)[k]
    BY <1>6
  <2>2. \A k \in 1..most : k \in 0..most /\ k # 0
    BY <1>1
  <2>3. \A k \in 1..most : body(released)[k] = EndNext(released[k - 1])
    BY <2>2 DEF EndNext
  <2>4. body(released)[0] = v /\ 0 \in 0..most
    BY <1>1
  <2> HIDE DEF body
  <2> QED BY <2>1, <2>2, <2>3, <2>4
<1>8. ProcessDeferredNoteOffs(v) = released[most]
  BY DEF ProcessDeferredNoteOffs, most
<1> HIDE DEF released
<1> DEFINE Left(w) == Cardinality(Waits(w))
           Done == {k \in 0..most : /\ released[k] \in Good
                                    /\ Waits(released[k]) = {}
                                         \/ Left(released[k]) + k < most}
<1>9. \A w \in Good : /\ Waits(w) \in SUBSET Note /\ IsFiniteSet(Waits(w))
                      /\ Left(w) \in Nat /\ Left(w) < most
                      /\ Left(w) = 0 <=> Waits(w) = {}
  <2> SUFFICES ASSUME NEW w \in Good
               PROVE  /\ Waits(w) \in SUBSET Note /\ IsFiniteSet(Waits(w))
                      /\ Left(w) \in Nat /\ Left(w) < most
                      /\ Left(w) = 0 <=> Waits(w) = {}
    OBVIOUS
  <2>1. Waits(w) \in SUBSET Note
    <3>1. w \in VoiceRecords /\ DeferOK(w)
      BY DEF Good, Ended
    <3> QED BY <3>1, ElementsOfSeq DEF DeferOK, VoiceRecords
  <2>2. IsFiniteSet(Waits(w)) /\ Cardinality(Waits(w)) <= Cardinality(Note)
    BY <2>1, NotesAreValid, FS_Subset
  <2>3. Cardinality(Waits(w)) \in Nat
    BY <2>2, FS_CardinalityType
  <2>4. Cardinality(Waits(w)) = 0 <=> Waits(w) = {}
    BY <2>2, FS_EmptySet
  <2>5. Cardinality(Waits(w)) < most
    BY <2>2, <2>3, NotesAreValid DEF most
  <2> QED BY <2>1, <2>2, <2>3, <2>4, <2>5
<1>10. 0 \in Done
  <2>1. Left(v) + 0 < most
    BY <1>1, <1>2, <1>9
  <2> QED BY <1>1, <1>2, <1>7, <2>1
<1>11. ASSUME NEW k \in 1..most, k - 1 \in Done PROVE k \in Done
  <2>1. PICK w \in Good : /\ w = released[k - 1] /\ released[k] = EndNext(w)
                          /\ Waits(w) = {} \/ Left(w) + (k - 1) < most
    BY <1>7, <1>11
  <2>2. PICK x \in Good : x = EndNext(w)
    BY <1>3
  <2>3. k \in 0..most /\ k \in Nat /\ most \in Nat
    BY <1>1
  <2>4. Waits(x) = {} \/ Left(x) + k < most
    <3>1. CASE Waits(w) = {}
      BY <1>3, <2>2, <3>1
    <3>2. CASE Waits(w) # {}
      <4>1. PICK n \in Waits(w) : Waits(x) = Waits(w) \ {n}
        BY <1>3, <2>2, <3>2
      <4>2. IsFiniteSet(Waits(w)) /\ Left(w) \in Nat
        BY <1>9
      <4>3. Cardinality(Waits(w) \ {n}) = Cardinality(Waits(w)) - 1
        BY <4>2, FS_RemoveElement
      <4>4. Left(x) = Left(w) - 1
        BY <4>1, <4>3
      <4>5. Left(w) + (k - 1) < most
        BY <2>1, <3>2
      <4> HIDE DEF Left
      <4> QED BY <2>3, <4>2, <4>4, <4>5
    <3> QED BY <3>1, <3>2
  <2> HIDE DEF Left
  <2> QED BY <2>1, <2>2, <2>3, <2>4
<1>12. most \in Done
  <2> HIDE DEF Done
  <2> QED BY <1>1, <1>10, <1>11, InductionUpTo
<1>13. released[most] \in Good /\ Waits(released[most]) = {}
  <2>1. PICK w \in Good : w = released[most] /\ (Waits(w) = {} \/ Left(w) + most < most)
    BY <1>12
  <2>2. Left(w) \in Nat
    BY <1>9
  <2> HIDE DEF Left
  <2>3. ~(Left(w) + most < most)
    BY <1>1, <2>2
  <2> QED BY <2>1, <2>3
<1>14. Ended(v, released[most], Waits(v))
  <2>1. Ended(v, released[most], Waits(v) \ Waits(released[most]))
    BY <1>13 DEF Good
  <2>2. Waits(v) \ Waits(released[most]) = Waits(v)
    BY <1>13
  <2> QED BY <2>1, <2>2
<1> QED BY <1>8, <1>13, <1>14

(* A Note Off followed by a Note On of another or the same note on the     *)
(* channel of the first: retriggering and stealing.                        *)
LEMMA ReplaceOK ==
  ASSUME zone \in ZoneSettings, NEW v, VoicesOK(zone, v, {}),
         NEW old \in Note, old \in ToSet(v.stack),
         NEW n \in Note, n = old \/ n \notin ToSet(v.stack)
  PROVE  LET c == v.channel[old]
             w == PushNoteOn(PushNoteOff(v, c, old), c, n)
         IN  VoicesOK(zone, w, {}) /\ (HeardOK(v) => HeardOK(w))
<1> DEFINE c == v.channel[old]
           off == PushNoteOff(v, c, old)
           w == PushNoteOn(off, c, n)
<1>1. /\ c \in MIDI_CHANNELS /\ VoicesOK(zone, off, {c})
      /\ ToSet(off.stack) = ToSet(v.stack) \ {old}
  BY PushNoteOffOK
<1>2. HeardOK(v) => HeardOK(off)
  BY PushNoteOffHeard
<1> HIDE DEF off, c
<1>3. n \notin ToSet(off.stack)
  BY <1>1
<1>4. VoicesOK(zone, w, {})
  BY <1>1, <1>3, PushNoteOnOK
<1>5. HeardOK(off) => HeardOK(w)
  BY <1>1, <1>3, PushNoteOnHeard
<1> QED BY <1>2, <1>4, <1>5 DEF w, off, c

(* A Note On of a new note on the oldest free channel. *)
LEMMA AllocateOK ==
  ASSUME zone \in ZoneSettings, NEW v, VoicesOK(zone, v, {}),
         v.available # <<>>, NEW n \in Note, n \notin ToSet(v.stack)
  PROVE  LET w == PushNoteOn([v EXCEPT !.available = Tail(@)], Head(v.available), n)
         IN  VoicesOK(zone, w, {}) /\ (HeardOK(v) => HeardOK(w))
<1> DEFINE c == Head(v.available)
           taken == [v EXCEPT !.available = Tail(@)]
           w == PushNoteOn(taken, c, n)
<1>1. /\ c \in MIDI_CHANNELS /\ VoicesOK(zone, taken, {c})
      /\ taken.stack = v.stack /\ taken.channel = v.channel /\ taken.events = v.events
  BY TakeChannelOK
<1> HIDE DEF taken, c
<1>2. HeardOK(v) => HeardOK(taken)
  BY <1>1 DEF HeardOK, Tones
<1>3. VoicesOK(zone, w, {})
  BY <1>1, PushNoteOnOK
<1>4. HeardOK(taken) => HeardOK(w)
  BY <1>1, PushNoteOnHeard
<1> QED BY <1>2, <1>3, <1>4 DEF w, taken, c

(* The note chosen for stealing is one of the held notes. *)
LEMMA StealNoteHeld ==
  ASSUME note_stack \in Seq(Note), note_stack # <<>>,
         params.excess \in ExcessModeSet, params.excess # "ignore"
  PROVE  StealNote \in Held
<1>1. Head(note_stack) \in Held /\ Last(note_stack) \in Held /\ Held \subseteq Note
  <2>1. /\ Len(note_stack) \in Nat /\ Len(note_stack) # 0
        /\ Held = {note_stack[i] : i \in 1..Len(note_stack)}
        /\ Held \subseteq Note
    BY ElementsOfSeq DEF Held
  <2>2. 1 \in 1..Len(note_stack) /\ Len(note_stack) \in 1..Len(note_stack)
    BY <2>1
  <2> QED BY <2>1, <2>2 DEF Last
<1>2. Min(Held) \in Held /\ Max(Held) \in Held
  <2>1. Held \in SUBSET (0..127) /\ Held \in SUBSET Nat /\ Held # {}
    BY <1>1, NoteAssumption
  <2> QED BY <2>1, MinIn, MaxIn
<1> QED BY <1>1, <1>2 DEF StealNote, ExcessModeSet

(* The variables get the values of the record. *)
LEMMA BecomeVoices ==
  ASSUME NEW v \in VoiceRecords, Become(v)
  PROVE  Voices' = v
<1>1. v = [stack |-> v.stack, below |-> v.below, above |-> v.above,
           channel |-> v.channel, available |-> v.available,
           deferred |-> v.deferred, events |-> v.events]
  BY DEF VoiceRecords
<1> QED BY <1>1 DEF Voices, Become

-----------------------------------------------------------------------------
(* The invariant and its preservation. *)

(***************************************************************************)
(* The inductive invariant: types, and a note state in order with no       *)
(* channel in hand.  Between blocks that is all that the next block needs  *)
(* to know.                                                                *)
(***************************************************************************)
IInv == TypeOK /\ VoicesOK(zone, Voices, {})

(***************************************************************************)
(* What the sustain pedal adds to it: the list of deferred Note Offs is in *)
(* order and of held notes, it is empty while the pedal is up, the pedal   *)
(* is down only while it is handled, and a held note whose key is up is in *)
(* the list.                                                               *)
(***************************************************************************)
PedalInv ==
  /\ DeferOK(Voices)
  /\ is_sustain_pedal_on => params.sustain = "on"
  /\ ~is_sustain_pedal_on => Waits(Voices) = {}
  /\ ~is_suspended => Held \subseteq keys \cup Waits(Voices)

(***************************************************************************)
(* What keeps it: while the pedal is down its handling is not switched     *)
(* off, no key that is down is pressed again, and no voice is stolen.      *)
(* Unlinking a note that does not wait would damage the list.              *)
(***************************************************************************)
PlainPedalling ==
  /\ params'.sustain = "off" => ~is_sustain_pedal_on'
  /\ \A n \in Note :
       NoteOn(n) /\ is_sustain_pedal_on =>
         /\ n \notin keys
         /\ n \in Held \/ available_channels # <<>> \/ params.excess = "ignore"

(* The variables of the note state have the types of the record's fields. *)
LEMMA VoicesType ==
  Voices \in VoiceRecords <=>
    /\ note_stack \in Seq(Note)
    /\ note_stack_below \in Seq(Note) /\ note_stack_above \in Seq(Note)
    /\ channels_by_notes \in [Note -> MIDI_CHANNELS \cup {INVALID_CHANNEL}]
    /\ available_channels \in Seq(MIDI_CHANNELS)
    /\ deferred_note_offs \in List
    /\ out_events \in Seq(Events)
  BY DEF Voices, VoiceRecords

(* A handler that leaves the zone and the note state in order. *)
LEMMA BecomeOK ==
  ASSUME zone' = zone, sounding' = sounding, discarded' = discarded,
         is_suspended => is_suspended', NEW v, VoicesOK(zone, v, {}), Become(v),
         HeardOK(Voices) => HeardOK(v)
  PROVE  /\ VoicesOK(zone, Voices, {})'
         /\ HeardOK(Voices) => HeardOK(Voices)'
<1>1. Voices' = v
  BY BecomeVoices DEF VoicesOK
<1>2. VoicesOK(zone, Voices, {})'
  BY <1>1
<1>3. HeardOK(v) => HeardOK(Voices)'
  <2>1. HeardOK(v) => HeardOK(v)'
    BY HeardUnchanged
  <2> QED BY <1>1, <2>1
<1> QED BY <1>2, <1>3

(* So does a handler that does nothing. *)
LEMMA UnchangedOK ==
  ASSUME zone' = zone, sounding' = sounding, discarded' = discarded,
         is_suspended => is_suspended', UNCHANGED note_vars,
         VoicesOK(zone, Voices, {})
  PROVE  /\ VoicesOK(zone, Voices, {})'
         /\ HeardOK(Voices) => HeardOK(Voices)'
<1>1. Voices' = Voices
  BY DEF Voices, note_vars
<1>2. VoicesOK(zone, Voices, {})'
  BY <1>1
<1>3. HeardOK(Voices) => HeardOK(Voices)'
  <2>1. PICK v : v = Voices
    OBVIOUS
  <2>2. HeardOK(v) => HeardOK(v)'
    BY HeardUnchanged
  <2> QED BY <1>1, <2>1, <2>2
<1> QED BY <1>2, <1>3

(* A Note On, whichever way it goes. *)
LEMMA NoteOnStep ==
  ASSUME IInv, NEW n \in Note, NoteOn(n)
  PROVE  /\ VoicesOK(zone, Voices, {})'
         /\ HeardOK(Voices) => HeardOK(Voices)'
<1>1. /\ zone \in ZoneSettings /\ VoicesOK(zone, Voices, {})
      /\ zone' = zone /\ sounding' = sounding /\ discarded' = discarded
      /\ is_suspended' = is_suspended
      /\ note_stack \in Seq(Note) /\ params.excess \in ExcessModeSet
  BY SettingsAssumption DEF IInv, TypeOK, NoteOn, lifecycle_vars, ParamSettings
<1>2. /\ Held = ToSet(Voices.stack) /\ channels_by_notes = Voices.channel
      /\ available_channels = Voices.available
  BY DEF Voices, Held
<1>3. CASE Retrigger(n)
  BY <1>1, <1>2, <1>3, ReplaceOK, BecomeOK DEF Retrigger
<1>4. CASE Allocate(n)
  BY <1>1, <1>2, <1>4, AllocateOK, BecomeOK DEF Allocate
<1>5. CASE Steal(n)
  <2>1. StealNote \in Held /\ StealNote \in Note
    BY <1>1, <1>5, StealNoteHeld, ElementsOfSeq DEF Steal, Held
  <2> QED BY <1>1, <1>2, <1>5, <2>1, ReplaceOK, BecomeOK DEF Steal
<1>6. CASE UNCHANGED note_vars
  BY <1>1, <1>6, UnchangedOK
<1> QED BY <1>3, <1>4, <1>5, <1>6 DEF NoteOn

(* A Note Off, deferred or not. *)
LEMMA NoteOffStep ==
  ASSUME IInv, PedalInv, NEW n \in Note, NoteOff(n)
  PROVE  /\ VoicesOK(zone, Voices, {})'
         /\ HeardOK(Voices) => HeardOK(Voices)'
<1>1. /\ zone \in ZoneSettings /\ VoicesOK(zone, Voices, {}) /\ DeferOK(Voices)
      /\ zone' = zone /\ sounding' = sounding /\ discarded' = discarded
      /\ is_suspended' = is_suspended
  BY DEF IInv, PedalInv, TypeOK, NoteOff, lifecycle_vars
<1>2. CASE Release(n)
  BY <1>1, <1>2, HandleNoteOffOK, BecomeOK DEF Release, Held, Voices
<1>3. CASE Defer(n)
  <2>1. BasicPush(Voices.deferred, n) \in List
    BY <1>1, PushAdds DEF DeferOK, Pointers
  <2>2. PICK w : w = [Voices EXCEPT !.deferred = BasicPush(Voices.deferred, n)] /\ Become(w)
    BY <1>3 DEF Defer
  <2>3. VoicesOK(zone, w, {}) /\ (HeardOK(Voices) => HeardOK(w))
    BY <1>1, <2>1, <2>2, OnlyDeferral
  <2> QED BY <1>1, <2>2, <2>3, BecomeOK
<1>4. CASE UNCHANGED note_vars
  BY <1>1, <1>4, UnchangedOK
<1> QED BY <1>2, <1>3, <1>4 DEF NoteOff

(* Stopping all notes and reassigning the channels, as resets do.          *)
LEMMA ApplyZoneStep ==
  ASSUME IInv, NEW z \in ZoneSettings, ApplyZone(z)
  PROVE  /\ VoicesOK(zone, Voices, {})'
         /\ zone' \in ZoneSettings
         /\ Sounds(HearAll(Undelivered), Tones(zone, Voices)) => HeardOK(Voices)'
<1> DEFINE off == [i \in DOMAIN note_stack |->
                     NoteEvent("off", channels_by_notes[note_stack[i]], note_stack[i])]
<1>1. /\ zone \in ZoneSettings /\ note_stack \in Seq(Note)
      /\ DOMAIN note_stack = 1..Len(note_stack) /\ Len(note_stack) \in Nat
      /\ \A i \in DOMAIN note_stack : note_stack[i] \in Note
      /\ channels_by_notes \in [Note -> MIDI_CHANNELS \cup {INVALID_CHANNEL}]
  BY ElementsOfSeq DEF IInv, TypeOK
<1>2. /\ out_events' = off /\ zone' = z /\ sounding' = sounding
      /\ Voices' = [stack |-> <<>>, below |-> <<>>, above |-> <<>>,
                    channel |-> channels_by_notes, available |-> MemberChannels(z),
                    deferred |-> EmptyList, events |-> off]
  BY DEF ApplyZone, StopAllNotes, Voices
<1>3. \A i \in DOMAIN off : off[i] \in Events /\ off[i].type = "off"
  BY <1>1, EventType DEF NoteEvent
<1>4. off \in Seq(Events)
  <2>1. off \in [1..Len(note_stack) -> Events]
    BY <1>1, <1>3, Zenon
  <2> QED BY <1>1, <2>1
<1>5. VoicesOK(zone, Voices, {})'
  <2> DEFINE w == Voices'
  <2>1. w \in VoiceRecords /\ w.stack = <<>> /\ w.below = <<>> /\ w.above = <<>>
        /\ w.available = MemberChannels(z)
    BY <1>1, <1>2, <1>4, MemberChannelFacts, EmptyListType DEF VoiceRecords
  <2> HIDE DEF w
  <2>2. ToSet(w.stack) = {} /\ ToSet(w.below) = {} /\ ToSet(w.above) = {}
        /\ Unique(w.stack) /\ Unique(w.below) /\ Unique(w.above) /\ Len(w.stack) = 0
    BY <2>1 DEF ToSet, Unique
  <2>3. HalvesOK(z, w)
    BY <2>1, <2>2, BeforeElements DEF HalvesOK
  <2>4. ChannelsOK(z, w, {})
    BY <2>1, <2>2 DEF ChannelsOK
  <2>5. CountOK(z, w, {}) /\ Unique(w.available)
    BY <2>1, <2>2, MemberChannelFacts, ZoneFacts DEF CountOK
  <2>6. VoicesOK(z, w, {})
    BY <2>1, <2>2, <2>3, <2>4, <2>5 DEF VoicesOK
  <2> QED BY <1>2, <2>6 DEF w
<1>6. ASSUME Sounds(HearAll(Undelivered), Tones(zone, Voices)) PROVE HeardOK(Voices)'
  <2>1. ToSet(note_stack) = {note_stack[i] : i \in DOMAIN note_stack}
    BY DEF ToSet
  <2>2. \A i \in DOMAIN note_stack :
          Tone(off[i]) = <<channels_by_notes[note_stack[i]], Transpose(zone, note_stack[i])>>
    BY DEF Tone, NoteEvent
  <2>3. \A tone \in Tones(zone, Voices) : \E i \in DOMAIN off : Tone(off[i]) = tone
    BY <2>1, <2>2 DEF Tones, Voices
  <2>4. Tones(zone, Voices)' = {}
    BY <1>2 DEF Tones, ToSet
  <2>5. PICK es, was, held : es = off /\ was = HearAll(Undelivered) /\ held = Tones(zone, Voices)
    OBVIOUS
  <2>6. /\ es \in Seq(Events) /\ DOMAIN es = DOMAIN note_stack
        /\ \A i \in DOMAIN note_stack :
             es[i].type = "off"
               /\ Tone(es[i]) = <<channels_by_notes[note_stack[i]], Transpose(zone, note_stack[i])>>
    BY <1>3, <1>4, <2>2, <2>5 DEF off
  <2>7. \A tone \in held : ~NeverHeard(es, tone)
    BY <2>3, <2>5 DEF NeverHeard
  <2> HIDE DEF off
  <2>8. /\ discarded' = discarded \cup (was \ sounding) \cup (sounding \ was)
        /\ held \subseteq was /\ was \subseteq held \cup discarded
    BY <1>6, <2>5 DEF ApplyZone, Sounds
  <2>9. \A tone : ~LastHeardOn(es, tone)
    BY <2>6 DEF LastHeardOn
  <2>10. HearAll(es) \subseteq discarded'
    BY <2>7, <2>8, <2>9, HeardTones
  <2>11. \A k \in DOMAIN es : Tone(es[k]) \in HearAll(SubSeq(es, 1, k - 1)) \cup discarded'
    <3>1. SUFFICES ASSUME NEW k \in DOMAIN es, Tone(es[k]) \notin discarded'
                   PROVE  Tone(es[k]) \in HearAll(SubSeq(es, 1, k - 1))
      OBVIOUS
    <3> DEFINE before == SubSeq(es, 1, k - 1)
    <3>2. DOMAIN before = 1..(k - 1) /\ \A i \in 1..(k - 1) : before[i] = es[i]
      BY <1>1, <2>6
    <3>3. \A i \in 1..(k - 1) : i \in DOMAIN es /\ i # k
      BY <1>1, <2>6
    <3>4. \A i \in DOMAIN es \ {k} : channels_by_notes[note_stack[i]] # channels_by_notes[note_stack[k]]
      <4>1. \A n, m \in ToSet(note_stack) :
              channels_by_notes[n] = channels_by_notes[m] => n = m
        BY DEF IInv, VoicesOK, ChannelsOK, Voices
      <4>2. Unique(note_stack)
        BY DEF IInv, VoicesOK, Voices
      <4> QED BY <2>1, <2>6, <4>1, <4>2 DEF Unique
    <3> HIDE DEF before
    <3>5. Tone(es[k]) \in held
      BY <2>1, <2>5, <2>6 DEF Tones, Voices
    <3>6. Tone(es[k]) \in sounding
      BY <2>8, <3>1, <3>5
    <3>7. NeverHeard(before, Tone(es[k]))
      BY <2>6, <3>2, <3>3, <3>4 DEF NeverHeard
    <3> QED BY <3>6, <3>7, HeardTones DEF before
  <2>12. HearAll(es)' = HearAll(es)
    BY <1>2, HearUnchanged
  <2>13. Paired(es)'
    <3>1. \A some : HearAll(some)' = HearAll(some)
      BY <1>2 DEF HearAll, Tone
    <3>2. \A event : Tone(event)' = Tone(event)
      BY DEF Tone
    <3>3. \A k \in DOMAIN es : es[k].type = "off"
      BY <2>6
    <3> QED BY <2>11, <3>1, <3>2, <3>3 DEF Paired
  <2>14. Tells(es, {})'
    BY <2>9 DEF Tells, LastHeardOn, Tone
  <2>15. Voices'.events = es
    BY <1>2, <2>5 DEF Voices
  <2>16. Sounds(HearAll(Voices.events), Tones(zone, Voices))'
    BY <2>4, <2>10, <2>12, <2>15 DEF Sounds
  <2>17. Tells(Voices.events, Tones(zone, Voices))'
    BY <2>4, <2>14, <2>15
  <2>18. Paired(Voices.events)'
    BY <2>13, <2>15
  <2> QED BY <2>16, <2>17, <2>18 DEF HeardOK
<1> QED BY <1>2, <1>5, <1>6

(* The pedal goes down, or goes up and ends the waiting notes.             *)
LEMMA SustainPedalStep ==
  ASSUME IInv, PedalInv, NEW d \in BOOLEAN, NEW t \in TimeOffsets, SustainPedal(d, t)
  PROVE  /\ VoicesOK(zone, Voices, {})'
         /\ HeardOK(Voices) => HeardOK(Voices)'
<1>1. /\ zone \in ZoneSettings /\ VoicesOK(zone, Voices, {}) /\ DeferOK(Voices)
      /\ zone' = zone /\ sounding' = sounding /\ discarded' = discarded
      /\ is_suspended' = is_suspended
  BY DEF IInv, PedalInv, TypeOK, SustainPedal, lifecycle_vars
<1>2. CASE UNCHANGED note_vars
  BY <1>1, <1>2, UnchangedOK
<1>3. CASE Become(ProcessDeferredNoteOffs(Voices))
  <2>1. PICK w : w = ProcessDeferredNoteOffs(Voices)
    OBVIOUS
  <2>2. VoicesOK(zone, w, {}) /\ (HeardOK(Voices) => HeardOK(w))
    BY <1>1, <2>1, ProcessDeferredEnds DEF Ended
  <2> QED BY <1>1, <1>3, <2>1, <2>2, BecomeOK
<1> QED BY <1>2, <1>3 DEF SustainPedal

(* Starting a block applies new zone settings, if any.                     *)
LEMMA BeginProcessingStep ==
  ASSUME IInv, NEW p \in ParamSettings, BeginProcessing(p)
  PROVE  VoicesOK(zone, Voices, {})' /\ zone' \in ZoneSettings
<1>1. /\ zone \in ZoneSettings /\ VoicesOK(zone, Voices, {}) /\ p.zone \in ZoneSettings
  BY DEF IInv, TypeOK, ParamSettings
<1>2. CASE ApplyZone(p.zone)
  BY <1>1, <1>2, ApplyZoneStep
<1>3. CASE UNCHANGED <<note_vars, zone, sounding, discarded, is_suspended>>
  BY <1>1, <1>3, UnchangedOK
<1>4. CASE /\ UNCHANGED <<note_stack, note_stack_below, note_stack_above,
                           channels_by_notes, available_channels, deferred_note_offs,
                           zone>>
           /\ out_events' = IF had_reset THEN out_events ELSE <<>>
  <2> DEFINE v == Voices
             w == Voices'
  <2>1. v \in VoiceRecords
    BY <1>1 DEF VoicesOK
  <2>2. /\ w.stack = v.stack /\ w.below = v.below /\ w.above = v.above
        /\ w.channel = v.channel /\ w.available = v.available
    BY <1>4 DEF Voices
  <2>3. w \in VoiceRecords
    <3>1. out_events' \in Seq(Events)
      BY <1>4 DEF IInv, TypeOK
    <3> QED BY <1>4, <3>1 DEF IInv, TypeOK, Voices, VoiceRecords
  <2>4. VoicesOK(zone, v, {})
    BY <1>1
  <2> HIDE DEF v, w
  <2>5. HalvesOK(zone, w) /\ Unique(w.stack) /\ Unique(w.available)
    BY <2>2, <2>4 DEF VoicesOK, HalvesOK
  <2>6. ChannelsOK(zone, w, {})
    BY <2>2, <2>4 DEF VoicesOK, ChannelsOK
  <2>7. CountOK(zone, w, {})
    BY <2>2, <2>4 DEF VoicesOK, CountOK
  <2>8. VoicesOK(zone, w, {})
    BY <2>3, <2>5, <2>6, <2>7 DEF VoicesOK
  <2> QED BY <1>1, <1>4, <2>8 DEF w
<1> QED BY <1>2, <1>3, <1>4 DEF BeginProcessing, note_vars

(* What the receiver hears are channels and pitches.                       *)
LEMMA HearType ==
  ASSUME TypeOK
  PROVE  HearAll(out_events) \subseteq ToneSet /\ HearAll(Undelivered) \subseteq ToneSet
<1>1. \A i \in DOMAIN out_events : out_events[i] \in Events
  BY ElementsOfSeq DEF TypeOK
<1>2. \A i \in DOMAIN out_events :
        Tone(out_events[i]) \in ToneSet
  BY <1>1 DEF Events, Tone, ToneSet
<1>3. HearAll(out_events) \subseteq ToneSet
  BY <1>2 DEF HearAll, TypeOK
<1>4. HearAll(<<>>) \subseteq ToneSet
  BY DEF HearAll, TypeOK
<1> QED BY <1>3, <1>4 DEF Undelivered

(* The initial states satisfy the invariant.                               *)
LEMMA InitIInv == Init => IInv
<1> SUFFICES ASSUME Init PROVE IInv
  OBVIOUS
<1>1. params \in ParamSettings /\ zone = params.zone /\ zone \in ZoneSettings
  BY DEF Init, ParamSettings
<1> DEFINE w == Voices
<1>2. /\ w.stack = <<>> /\ w.below = <<>> /\ w.above = <<>>
      /\ w.available = MemberChannels(zone)
  BY DEF Init, Voices
<1>3. w \in VoiceRecords
  <2>1. channels_by_notes \in [Note -> MIDI_CHANNELS \cup {INVALID_CHANNEL}]
    BY DEF Init
  <2> QED BY <1>1, <2>1, MemberChannelFacts, EmptyListType DEF Init, Voices, VoiceRecords
<1>4. TypeOK
  BY <1>1, <1>3, VoicesType DEF Init, TypeOK
<1> HIDE DEF w
<1>5. ToSet(w.stack) = {} /\ ToSet(w.below) = {} /\ ToSet(w.above) = {}
      /\ Unique(w.stack) /\ Unique(w.below) /\ Unique(w.above) /\ Len(w.stack) = 0
  BY <1>2 DEF ToSet, Unique
<1>6. HalvesOK(zone, w)
  BY <1>2, <1>5, BeforeElements DEF HalvesOK
<1>7. ChannelsOK(zone, w, {})
  BY <1>2, <1>5 DEF ChannelsOK
<1>8. CountOK(zone, w, {}) /\ Unique(w.available)
  BY <1>1, <1>2, <1>5, MemberChannelFacts, ZoneFacts DEF CountOK
<1>9. VoicesOK(zone, w, {})
  BY <1>3, <1>5, <1>6, <1>7, <1>8 DEF VoicesOK
<1> QED BY <1>4, <1>9 DEF IInv, w

(* The types of the variables that are not part of the note state. *)
OthersTypeOK ==
  /\ params \in ParamSettings /\ zone \in ZoneSettings
  /\ is_sustain_pedal_on \in BOOLEAN
  /\ previous_pedal_message \in {<<>>} \cup (TimeOffsets \X BOOLEAN)
  /\ is_suspended \in BOOLEAN /\ had_reset \in BOOLEAN /\ in_block \in BOOLEAN
  /\ sounding \subseteq ToneSet /\ discarded \subseteq ToneSet
  /\ keys \subseteq Note

(* The invariant consists of the two parts.                                *)
LEMMA InvariantParts == IInv <=> OthersTypeOK /\ VoicesOK(zone, Voices, {})
<1>1. TypeOK <=> OthersTypeOK /\ Voices \in VoiceRecords
  BY VoicesType DEF TypeOK, OthersTypeOK
<1>2. VoicesOK(zone, Voices, {}) => Voices \in VoiceRecords
  BY DEF VoicesOK
<1> QED BY <1>1, <1>2 DEF IInv

(* Every step preserves the invariant.                                     *)
LEMMA NextIInv ==
  IInv /\ PedalInv /\ [Next]_vars => IInv'
<1> SUFFICES ASSUME IInv, PedalInv, [Next]_vars PROVE OthersTypeOK' /\ VoicesOK(zone, Voices, {})'
  BY InvariantParts, PTL
<1> DEFINE Goal == OthersTypeOK' /\ VoicesOK(zone, Voices, {})'
<1>1. OthersTypeOK /\ VoicesOK(zone, Voices, {})
  BY InvariantParts
<1>2. ASSUME NEW n \in Note, NoteOn(n) PROVE Goal
  <2>1. VoicesOK(zone, Voices, {})'
    BY <1>2, NoteOnStep
  <2>2. OthersTypeOK'
    BY <1>1, <1>2 DEF NoteOn, OthersTypeOK, lifecycle_vars
  <2> QED BY <2>1, <2>2
<1>3. ASSUME NEW n \in Note, NoteOff(n) PROVE Goal
  <2>1. VoicesOK(zone, Voices, {})'
    BY <1>3, NoteOffStep
  <2>2. OthersTypeOK'
    BY <1>1, <1>3 DEF NoteOff, OthersTypeOK, lifecycle_vars
  <2> QED BY <2>1, <2>2
<1>4. ASSUME NEW d \in BOOLEAN, NEW t \in TimeOffsets, SustainPedal(d, t) PROVE Goal
  <2>1. VoicesOK(zone, Voices, {})'
    BY <1>4, SustainPedalStep
  <2>2. OthersTypeOK'
    BY <1>1, <1>4 DEF SustainPedal, OthersTypeOK, lifecycle_vars
  <2> QED BY <2>1, <2>2
<1>5. ASSUME NEW p \in ParamSettings, ProcessMessages(p) PROVE Goal
  <2>1. VoicesOK(zone, Voices, {})'
    BY <1>1, <1>5, UnchangedOK DEF ProcessMessages, lifecycle_vars
  <2>2. OthersTypeOK'
    BY <1>1, <1>5 DEF ProcessMessages, OthersTypeOK, lifecycle_vars
  <2> QED BY <2>1, <2>2
<1>6. ASSUME NEW p \in ParamSettings, BeginProcessing(p) PROVE Goal
  <2>1. VoicesOK(zone, Voices, {})' /\ zone' \in ZoneSettings
    BY <1>6, BeginProcessingStep
  <2>2. OthersTypeOK'
    BY <1>1, <1>6, <2>1, HearType
       DEF BeginProcessing, ApplyZone, StopAllNotes, OthersTypeOK, IInv
  <2> QED BY <2>1, <2>2
<1>7. CASE Suspend
  <2>1. VoicesOK(zone, Voices, {})'
    BY <1>1, <1>7, UnchangedOK DEF Suspend
  <2>2. OthersTypeOK'
    BY <1>1, <1>7 DEF Suspend, OthersTypeOK
  <2> QED BY <2>1, <2>2
<1>8. CASE Resume
  <2>1. params.zone \in ZoneSettings /\ ApplyZone(params.zone)
    BY <1>1, <1>8 DEF Resume, OthersTypeOK, ParamSettings
  <2>2. VoicesOK(zone, Voices, {})' /\ zone' \in ZoneSettings
    BY <2>1, ApplyZoneStep
  <2>3. OthersTypeOK'
    BY <1>1, <1>8, <2>2, HearType DEF Resume, ApplyZone, StopAllNotes, OthersTypeOK, IInv
  <2> QED BY <2>2, <2>3
<1>9. CASE Deliver
  <2>1. VoicesOK(zone, Voices, {})'
    <3>1. Voices' = Voices /\ zone' = zone
      BY <1>9 DEF Deliver, Voices, note_vars
    <3> QED BY <1>1, <3>1
  <2>2. HearAll(out_events) \subseteq ToneSet
    BY HearType DEF IInv
  <2>3. OthersTypeOK'
    BY <1>1, <1>9, <2>2 DEF Deliver, OthersTypeOK
  <2> QED BY <2>1, <2>3
<1>10. CASE UNCHANGED vars
  <2>1. VoicesOK(zone, Voices, {})'
    BY <1>1, <1>10, UnchangedOK DEF vars, lifecycle_vars
  <2>2. OthersTypeOK'
    BY <1>1, <1>10 DEF vars, lifecycle_vars, OthersTypeOK
  <2> QED BY <2>1, <2>2
<1> QED BY <1>2, <1>3, <1>4, <1>5, <1>6, <1>7, <1>8, <1>9, <1>10 DEF Next

-----------------------------------------------------------------------------
(* The pedal's part of the invariant. *)

LEMMA InitPedalInv == Init => PedalInv
<1> SUFFICES ASSUME Init PROVE PedalInv
  OBVIOUS
<1>1. /\ Voices.deferred = EmptyList /\ Voices.stack = <<>> /\ ~is_sustain_pedal_on
      /\ note_stack = <<>>
  BY DEF Init, Voices
<1>2. ToSet(<<>>) = {}
  BY DEF ToSet
<1>3. DeferOK(Voices) /\ Waits(Voices) = {}
  BY <1>1, <1>2, EmptyPointers, DeferralsAre
<1> QED BY <1>1, <1>2, <1>3 DEF PedalInv, Held

(* The list and the held notes depend on two variables only. *)
LEMMA DeferralsKept ==
  ASSUME DeferOK(Voices), UNCHANGED <<note_stack, deferred_note_offs>>
  PROVE  DeferOK(Voices)' /\ Waits(Voices)' = Waits(Voices) /\ Held' = Held
<1>1. Voices'.deferred = Voices.deferred /\ Voices'.stack = Voices.stack /\ Held' = Held
  BY DEF Voices, Held
<1>2. PICK v : v = Voices
  OBVIOUS
<1>3. PICK w : w = Voices'
  OBVIOUS
<1>4. DeferOK(w) /\ Waits(w) = Waits(v)
  BY <1>1, <1>2, <1>3 DEF DeferOK, Waits
<1> QED BY <1>1, <1>2, <1>3, <1>4

(* The list and the held notes after a handler are those of its record. *)
LEMMA DeferralsBecome ==
  ASSUME NEW w \in VoiceRecords, DeferOK(w), Become(w)
  PROVE  DeferOK(Voices)' /\ Waits(Voices)' = Waits(w) /\ Held' = ToSet(w.stack)
<1>1. Voices' = w
  BY BecomeVoices
<1>2. Held' = ToSet(w.stack)
  BY DEF Held, Become
<1> QED BY <1>1, <1>2

(* Stopping all notes forgets the deferrals and lets go of the pedal. *)
LEMMA ApplyZonePedal ==
  ASSUME NEW z, ApplyZone(z)
  PROVE  DeferOK(Voices)' /\ Waits(Voices)' = {} /\ Held' = {} /\ ~is_sustain_pedal_on'
<1>1. /\ Voices'.deferred = EmptyList /\ Voices'.stack = <<>> /\ ~is_sustain_pedal_on'
      /\ note_stack' = <<>>
  BY DEF ApplyZone, StopAllNotes, Voices
<1>2. ToSet(<<>>) = {}
  BY DEF ToSet
<1>3. PICK w : w = Voices'
  OBVIOUS
<1>4. DeferOK(w) /\ Waits(w) = {}
  BY <1>1, <1>2, <1>3, EmptyPointers, DeferralsAre
<1> QED BY <1>1, <1>2, <1>3, <1>4 DEF Held

(* What a Note On does to the waiting and the held notes.                  *)
LEMMA NoteOnPedal ==
  ASSUME IInv, PedalInv, NEW n \in Note, NoteOn(n), PlainPedalling
  PROVE  /\ DeferOK(Voices)'
         /\ \/ Waits(Voices)' = Waits(Voices) /\ n \notin Waits(Voices)
            \/ Waits(Voices)' = Waits(Voices) /\ (is_suspended \/ NoteOnRefused(n))
            \/ Waits(Voices)' = Waits(Voices) \ {n} /\ n \in Held
         /\ Held' \subseteq Held \cup {n}
<1> DEFINE v == Voices
<1>1. /\ zone \in ZoneSettings /\ VoicesOK(zone, v, {}) /\ DeferOK(v) /\ v \in VoiceRecords
      /\ note_stack \in Seq(Note) /\ params.excess \in ExcessModeSet
      /\ Unique(v.stack)
  BY SettingsAssumption DEF IInv, PedalInv, TypeOK, VoicesOK, ParamSettings
<1>2. /\ Held = ToSet(v.stack) /\ channels_by_notes = v.channel
      /\ available_channels = v.available /\ Held \subseteq Note /\ Waits(v) \subseteq Held
  BY <1>1, ElementsOfSeq DEF Voices, Held, DeferOK
<1>3. CASE (is_suspended \/ NoteOnRefused(n)) /\ UNCHANGED note_vars
  BY <1>1, <1>3, DeferralsKept DEF note_vars
<1>4. ASSUME ~is_suspended, Retrigger(n)
      PROVE  /\ DeferOK(Voices)' /\ Waits(Voices)' = Waits(v) \ {n} /\ n \in Held
             /\ Held' \subseteq Held \cup {n}
  <2>1. n \in Held /\ (Waits(v) = {} \/ n \in Waits(v))
    <3>1. is_sustain_pedal_on => n \notin keys
      BY DEF PlainPedalling
    <3> QED BY <1>4, <3>1 DEF PedalInv, Retrigger
  <2> DEFINE c == v.channel[n]
             off == PushNoteOff(v, c, n)
             w == PushNoteOn(off, c, n)
  <2>2. /\ DeferOK(off) /\ Waits(off) = Waits(v) \ {n} /\ off \in VoiceRecords
        /\ ToSet(off.stack) = Held \ {n} /\ c \in MIDI_CHANNELS
    <3>1. c \in MIDI_CHANNELS /\ VoicesOK(zone, off, {c}) /\ ToSet(off.stack) = Held \ {n}
      BY <1>1, <1>2, <2>1, PushNoteOffOK
    <3>2. DeferOK(off) /\ Waits(off) = Waits(v) \ {n}
      BY <1>1, <1>2, <2>1, PushNoteOffWaits
    <3> QED BY <3>1, <3>2 DEF VoicesOK
  <2> HIDE DEF off
  <2>3. DeferOK(w) /\ Waits(w) = Waits(off) /\ ToSet(w.stack) = ToSet(off.stack) \cup {n}
    BY <2>2, PushNoteOnWaits
  <2>4. Become(w) /\ w \in VoiceRecords
    <3>1. Become(w)
      BY <1>2, <1>4 DEF Retrigger, off
    <3>2. VoicesOK(zone, w, {})
      BY <1>1, <1>2, <2>1, ReplaceOK DEF off
    <3> QED BY <3>1, <3>2 DEF VoicesOK
  <2> HIDE DEF w
  <2> QED BY <2>1, <2>2, <2>3, <2>4, DeferralsBecome
<1>5. ASSUME Allocate(n)
      PROVE  /\ DeferOK(Voices)' /\ Waits(Voices)' = Waits(v) /\ n \notin Waits(v)
             /\ Held' \subseteq Held \cup {n}
  <2> DEFINE taken == [v EXCEPT !.available = Tail(@)]
             c == Head(v.available)
             w == PushNoteOn(taken, c, n)
  <2>1. n \notin Held /\ Become(w) /\ v.available # <<>>
    BY <1>2, <1>5 DEF Allocate
  <2>2. taken \in VoiceRecords /\ taken.stack = v.stack /\ taken.deferred = v.deferred
    <3>1. VoicesOK(zone, taken, {c}) /\ taken.stack = v.stack
      BY <1>1, <2>1, TakeChannelOK
    <3>2. taken.deferred = v.deferred
      BY <1>1 DEF VoiceRecords
    <3> QED BY <3>1, <3>2 DEF VoicesOK
  <2>3. w \in VoiceRecords
    BY <1>1, <1>2, <2>1, AllocateOK DEF VoicesOK
  <2> HIDE DEF taken, c
  <2>4. DeferOK(taken) /\ Waits(taken) = Waits(v)
    BY <1>1, <2>2 DEF DeferOK, Waits
  <2>5. DeferOK(w) /\ Waits(w) = Waits(v) /\ ToSet(w.stack) = Held \cup {n}
    BY <1>2, <2>2, <2>4, PushNoteOnWaits
  <2> HIDE DEF w
  <2> QED BY <1>2, <2>1, <2>3, <2>5, DeferralsBecome
<1>6. ASSUME Steal(n)
      PROVE  /\ DeferOK(Voices)' /\ Waits(Voices)' = Waits(v) /\ n \notin Waits(v)
             /\ Held' \subseteq Held \cup {n}
  <2>1. PICK old \in Note : old = StealNote /\ old \in Held
    BY <1>1, <1>2, <1>6, StealNoteHeld DEF Steal
  <2>2. n \notin Held /\ Waits(v) = {}
    <3>1. ~is_sustain_pedal_on
      BY <1>6 DEF PlainPedalling, Steal
    <3> QED BY <1>6, <3>1 DEF PedalInv, Steal
  <2> DEFINE c == v.channel[old]
             off == PushNoteOff(v, c, old)
             w == PushNoteOn(off, c, n)
  <2>3. /\ DeferOK(off) /\ Waits(off) = {} /\ off \in VoiceRecords
        /\ ToSet(off.stack) = Held \ {old}
    <3>1. c \in MIDI_CHANNELS /\ VoicesOK(zone, off, {c}) /\ ToSet(off.stack) = Held \ {old}
      BY <1>1, <1>2, <2>1, PushNoteOffOK
    <3>2. DeferOK(off) /\ Waits(off) = Waits(v) \ {old}
      BY <1>1, <1>2, <2>1, <2>2, PushNoteOffWaits
    <3> QED BY <2>2, <3>1, <3>2 DEF VoicesOK
  <2>4. Become(w) /\ w \in VoiceRecords
    <3>1. Become(w)
      BY <1>2, <1>6, <2>1 DEF Steal
    <3>2. VoicesOK(zone, w, {})
      BY <1>1, <1>2, <2>1, <2>2, ReplaceOK
    <3> QED BY <3>1, <3>2 DEF VoicesOK
  <2> HIDE DEF off, c
  <2>5. DeferOK(w) /\ Waits(w) = {} /\ ToSet(w.stack) = (Held \ {old}) \cup {n}
    BY <2>3, PushNoteOnWaits
  <2> HIDE DEF w
  <2> QED BY <2>2, <2>4, <2>5, DeferralsBecome
<1> QED BY <1>3, <1>4, <1>5, <1>6 DEF NoteOn

(* What a Note Off does to them.                                           *)
LEMMA NoteOffPedal ==
  ASSUME IInv, PedalInv, NEW n \in Note, NoteOff(n)
  PROVE  /\ DeferOK(Voices)'
         /\ \/ Waits(Voices)' = Waits(Voices) /\ Held' = Held
                 /\ (is_suspended \/ n \notin Held)
            \/ /\ Waits(Voices)' = Waits(Voices) \cup {n} /\ Held' = Held
               /\ is_sustain_pedal_on
            \/ Waits(Voices)' = {} /\ Waits(Voices) = {} /\ Held' = Held \ {n}
<1> DEFINE v == Voices
<1>1. /\ zone \in ZoneSettings /\ VoicesOK(zone, v, {}) /\ DeferOK(v) /\ v \in VoiceRecords
      /\ Unique(v.stack) /\ Held = ToSet(v.stack)
  BY DEF IInv, PedalInv, TypeOK, VoicesOK, Voices, Held
<1>2. CASE (is_suspended \/ n \notin Held) /\ UNCHANGED note_vars
  BY <1>1, <1>2, DeferralsKept DEF note_vars
<1>3. CASE Defer(n)
  <2>1. PICK t : Pointers(BasicPush(v.deferred, n), t) /\ ToSet(t) = Waits(v) \cup {n}
    BY <1>1, PushAdds DEF DeferOK, Waits
  <2>2. BasicPush(v.deferred, n) \in List
    BY <2>1 DEF Pointers
  <2>3. PICK w : w = [v EXCEPT !.deferred = BasicPush(v.deferred, n)] /\ Become(w)
    BY <1>3 DEF Defer
  <2>4. VoicesOK(zone, w, {}) /\ w.deferred = BasicPush(v.deferred, n) /\ w.stack = v.stack
    BY <1>1, <2>2, <2>3, OnlyDeferral
  <2>5. ToSet(t) \subseteq ToSet(w.stack)
    BY <1>1, <1>3, <2>1, <2>4 DEF DeferOK, Defer
  <2>6. DeferOK(w) /\ Waits(w) = Waits(v) \cup {n}
    BY <2>1, <2>4, <2>5, DeferralsAre
  <2>7. w \in VoiceRecords
    BY <2>4 DEF VoicesOK
  <2>8. DeferOK(Voices)' /\ Waits(Voices)' = Waits(w) /\ Held' = ToSet(w.stack)
    BY <2>3, <2>6, <2>7, DeferralsBecome
  <2> QED BY <1>1, <1>3, <2>4, <2>6, <2>8 DEF Defer, DefersNoteOffs
<1>4. CASE Release(n)
  <2>1. n \in Held /\ Waits(v) = {}
    <3>1. params.sustain = "on" => ~is_sustain_pedal_on
      BY <1>4 DEF Release, DefersNoteOffs
    <3> QED BY <1>4, <3>1 DEF PedalInv, Release
  <2>2. PICK w : w = HandleNoteOff(v, n) /\ Become(w)
    BY <1>4 DEF Release
  <2>3. VoicesOK(zone, w, {}) /\ ToSet(w.stack) = Held \ {n}
    BY <1>1, <2>1, <2>2, HandleNoteOffOK, ReleaseVoice
  <2>4. DeferOK(w) /\ Waits(w) = Waits(v) \ {n}
    BY <1>1, <2>1, <2>2, HandleNoteOffWaits
  <2>5. w \in VoiceRecords
    BY <2>3 DEF VoicesOK
  <2>6. DeferOK(Voices)' /\ Waits(Voices)' = Waits(w) /\ Held' = ToSet(w.stack)
    BY <2>2, <2>4, <2>5, DeferralsBecome
  <2> QED BY <2>1, <2>3, <2>4, <2>6
<1> QED BY <1>2, <1>3, <1>4 DEF NoteOff

(* What the pedal does to them.                                            *)
LEMMA SustainPedalPedal ==
  ASSUME IInv, PedalInv, NEW d \in BOOLEAN, NEW t \in TimeOffsets, SustainPedal(d, t)
  PROVE  /\ DeferOK(Voices)'
         /\ \/ /\ Waits(Voices)' = Waits(Voices) /\ Held' = Held
               /\ \/ params.sustain = "on" /\ d /\ is_sustain_pedal_on'
                  \/ params.sustain = "off" /\ is_sustain_pedal_on' = is_sustain_pedal_on
            \/ /\ Waits(Voices)' = {} /\ Held' = Held \ Waits(Voices)
               /\ params.sustain = "on" /\ ~d /\ ~is_sustain_pedal_on'
<1> DEFINE v == Voices
<1>1. /\ zone \in ZoneSettings /\ VoicesOK(zone, v, {}) /\ DeferOK(v) /\ Held = ToSet(v.stack)
  BY DEF IInv, PedalInv, TypeOK, VoicesOK, Voices, Held
<1>2. CASE /\ UNCHANGED note_vars
           /\ \/ params.sustain = "on" /\ d /\ is_sustain_pedal_on'
              \/ params.sustain = "off" /\ is_sustain_pedal_on' = is_sustain_pedal_on
  BY <1>1, <1>2, DeferralsKept DEF note_vars
<1>3. CASE /\ params.sustain = "on" /\ ~d /\ ~is_sustain_pedal_on'
           /\ Become(ProcessDeferredNoteOffs(v))
  <2>1. PICK w : w = ProcessDeferredNoteOffs(v)
    OBVIOUS
  <2>2. Waits(w) = {} /\ DeferOK(w) /\ w \in VoiceRecords /\ ToSet(w.stack) = Held \ Waits(v)
    BY <1>1, <2>1, ProcessDeferredEnds DEF Ended, VoicesOK
  <2>3. DeferOK(Voices)' /\ Waits(Voices)' = Waits(w) /\ Held' = ToSet(w.stack)
    BY <1>3, <2>1, <2>2, DeferralsBecome
  <2> QED BY <1>3, <2>2, <2>3
<1> QED BY <1>2, <1>3 DEF SustainPedal

(* Every step of a plain use of the pedal preserves it.                    *)
LEMMA NextPedalInv ==
  IInv /\ PedalInv /\ [Next]_vars /\ [PlainPedalling]_vars => PedalInv'
<1> SUFFICES ASSUME IInv, PedalInv, [Next]_vars, [PlainPedalling]_vars PROVE PedalInv'
  OBVIOUS
<1>1. /\ DeferOK(Voices) /\ Waits(Voices) \subseteq Held
      /\ is_sustain_pedal_on \in BOOLEAN
  <2>1. Held = ToSet(Voices.stack)
    BY DEF Held, Voices
  <2> QED BY <2>1 DEF PedalInv, DeferOK, IInv, TypeOK
<1>2. CASE UNCHANGED vars
  <2>1. DeferOK(Voices)' /\ Waits(Voices)' = Waits(Voices) /\ Held' = Held
    BY <1>1, <1>2, DeferralsKept DEF vars, note_vars
  <2> QED BY <1>2, <2>1 DEF PedalInv, vars, lifecycle_vars
<1>3. SUFFICES ASSUME Next, PlainPedalling, params' \in ParamSettings PROVE PedalInv'
  <2>1. Next => params' \in ParamSettings
    BY DEF IInv, TypeOK, Next, NoteOn, NoteOff, SustainPedal, ProcessMessages, BeginProcessing,
           Suspend, Resume, Deliver
  <2> QED BY <1>2, <2>1
<1>4. ~is_sustain_pedal_on' \/ params'.sustain = "on"
  BY <1>3, SettingsAssumption DEF PlainPedalling, ParamSettings
<1>5. ASSUME NEW n \in Note, NoteOn(n) PROVE PedalInv'
  <2>1. /\ is_sustain_pedal_on' = is_sustain_pedal_on /\ is_suspended' = is_suspended
        /\ keys' = keys \cup {n}
    BY <1>5 DEF NoteOn, lifecycle_vars
  <2>2. /\ DeferOK(Voices)'
        /\ Waits(Voices)' = Waits(Voices) \/ Waits(Voices)' = Waits(Voices) \ {n}
        /\ Held' \subseteq Held \cup {n}
    BY <1>3, <1>5, NoteOnPedal
  <2> QED BY <1>4, <2>1, <2>2 DEF PedalInv
<1>6. ASSUME NEW n \in Note, NoteOff(n) PROVE PedalInv'
  <2>1. /\ is_sustain_pedal_on' = is_sustain_pedal_on /\ is_suspended' = is_suspended
        /\ keys' = keys \ {n}
    BY <1>6 DEF NoteOff, lifecycle_vars
  <2> QED BY <1>4, <1>6, <2>1, NoteOffPedal DEF PedalInv
<1>7. ASSUME NEW d \in BOOLEAN, NEW t \in TimeOffsets, SustainPedal(d, t) PROVE PedalInv'
  <2>1. is_suspended' = is_suspended /\ keys' = keys
    BY <1>7 DEF SustainPedal, lifecycle_vars
  <2> QED BY <1>4, <1>7, <2>1, SustainPedalPedal DEF PedalInv
<1>8. ASSUME UNCHANGED <<note_stack, deferred_note_offs, is_sustain_pedal_on, keys>>,
             (is_suspended' = is_suspended) \/ is_suspended'
      PROVE  PedalInv'
  <2>1. DeferOK(Voices)' /\ Waits(Voices)' = Waits(Voices) /\ Held' = Held
    BY <1>1, <1>8, DeferralsKept
  <2> QED BY <1>4, <1>8, <2>1 DEF PedalInv
<1>9. ASSUME NEW z, ApplyZone(z) PROVE PedalInv'
  BY <1>9, ApplyZonePedal DEF PedalInv
<1>10. ASSUME NEW p \in ParamSettings, ProcessMessages(p) PROVE PedalInv'
  BY <1>8, <1>10 DEF ProcessMessages, note_vars, lifecycle_vars
<1>11. ASSUME NEW p \in ParamSettings, BeginProcessing(p) PROVE PedalInv'
  BY <1>8, <1>9, <1>11 DEF BeginProcessing, note_vars
<1>12. CASE Suspend
  BY <1>8, <1>12 DEF Suspend, note_vars
<1>13. CASE Resume
  BY <1>9, <1>13 DEF Resume
<1>14. CASE Deliver
  BY <1>8, <1>14 DEF Deliver, note_vars
<1> QED BY <1>3, <1>5, <1>6, <1>7, <1>10, <1>11, <1>12, <1>13, <1>14 DEF Next

(* With sustain pedal handling off there is no other use of the pedal.     *)
LEMMA OffIsPlain ==
  ASSUME SustainSettings = {"off"}
  PROVE  IInv /\ PedalInv /\ [Next]_vars => [PlainPedalling]_vars
<1> SUFFICES ASSUME IInv, PedalInv, Next PROVE PlainPedalling
  OBVIOUS
<1>1. params.sustain = "off" /\ ~is_sustain_pedal_on
  BY DEF IInv, PedalInv, TypeOK, ParamSettings
<1>2. \A z : ApplyZone(z) => ~is_sustain_pedal_on'
  BY DEF ApplyZone, StopAllNotes
<1>3. ~is_sustain_pedal_on'
  BY <1>1, <1>2 DEF Next, NoteOn, NoteOff, SustainPedal, ProcessMessages, BeginProcessing,
                    Suspend, Resume, Deliver
<1> QED BY <1>1, <1>3 DEF PlainPedalling

-----------------------------------------------------------------------------
(* What the invariant says of the voices and of the waiting Note Offs. *)

LEMMA VoicesAreInOrder ==
  IInv => ChannelPartition /\ HalvesFollowTheAnchor /\ StealingHasAVictim
<1> SUFFICES ASSUME IInv PROVE ChannelPartition /\ HalvesFollowTheAnchor /\ StealingHasAVictim
  OBVIOUS
<1>1. /\ HalvesOK(zone, Voices) /\ ChannelsOK(zone, Voices, {}) /\ CountOK(zone, Voices, {})
      /\ zone \in ZoneSettings
  BY DEF IInv, TypeOK, VoicesOK
<1>2. Len(note_stack) + Len(available_channels) = zone.channel_count
  <2>1. Len(note_stack) \in Nat /\ Len(available_channels) \in Nat
    BY DEF IInv, TypeOK
  <2> QED BY <1>1, <2>1 DEF CountOK, Voices
<1>3. ChannelPartition
  BY <1>1, <1>2 DEF ChannelsOK, ChannelPartition, Voices, Held
<1>4. HalvesFollowTheAnchor
  <2>1. /\ Voices.stack = note_stack /\ Voices.above = note_stack_above
        /\ Voices.below = note_stack_below
    BY DEF Voices
  <2>2. \A s : Unique(s) => IsInjective(s)
    BY DEF Unique, IsInjective
  <2> QED BY <1>1, <2>1, <2>2 DEF HalvesOK, HalvesFollowTheAnchor, IsHalf, Held
<1>5. StealingHasAVictim
  <2> SUFFICES ASSUME available_channels = <<>>, note_stack = <<>> PROVE FALSE
    BY DEF StealingHasAVictim
  <2>1. Len(Voices.stack) = 0 /\ Len(Voices.available) = 0
    BY DEF Voices
  <2> QED BY <1>1, <2>1, ZoneFacts DEF CountOK
<1> QED BY <1>3, <1>4, <1>5

LEMMA DeferralsAreInOrder == PedalInv => NoHungNotes /\ DeferralsAreWarranted
<1> SUFFICES ASSUME PedalInv PROVE NoHungNotes /\ DeferralsAreWarranted
  OBVIOUS
<1>1. PICK s : s = DeferredChain /\ Pointers(deferred_note_offs, s) /\ Waits(Voices) = ToSet(s)
  BY DEF PedalInv, DeferOK, Waits, Voices, DeferredChain
<1>2. ToSet(s) \subseteq Held
  BY <1>1 DEF PedalInv, DeferOK, Voices, Held
<1>3. ~is_sustain_pedal_on => s = <<>>
  <2>1. PICK v : v = Voices /\ DeferOK(v) /\ Chain(v.deferred) = s
    BY <1>1 DEF PedalInv, Voices, DeferredChain
  <2> QED BY <1>1, <2>1, NobodyWaits DEF PedalInv
<1>4. Cardinality(ToSet(s)) = Len(s)
  <2>1. s \in Seq(Note) /\ Unique(s)
    BY <1>1 DEF Pointers
  <2> QED BY <2>1, UniqueIsCounted
<1> QED BY <1>1, <1>2, <1>3, <1>4 DEF NoHungNotes, DeferralsAreWarranted, PedalInv

-----------------------------------------------------------------------------
(***************************************************************************)
(* Plain pedalling is no restriction at all while sustain pedal handling   *)
(* is off, which is its default: so the theorems about it have             *)
(* counterparts without it.                                                *)
(***************************************************************************)
THEOREM PlainWhenOff ==
  ASSUME SustainSettings = {"off"}
  PROVE  Spec => [][PlainPedalling]_vars
<1> QED BY InitIInv, InitPedalInv, NextIInv, NextPedalInv, OffIsPlain, PTL DEF Spec

(* The invariants hold throughout every plain use of the pedal. *)
LEMMA PlainInvariant == Spec /\ [][PlainPedalling]_vars => [](IInv /\ PedalInv)
<1> QED BY InitIInv, InitPedalInv, NextIInv, NextPedalInv, PTL DEF Spec

(***************************************************************************)
(* No note is left on that neither a Note Off nor the pedal will end, for  *)
(* any notes, zones and excess note handling, however often the pedal is   *)
(* pressed, and through resets and runs while suspended, as long as no     *)
(* voice is stolen and no key pressed twice while the pedal is down.       *)
(***************************************************************************)
THEOREM NothingHangs == Spec /\ [][PlainPedalling]_vars => []NoHungNotes
<1> QED BY PlainInvariant, DeferralsAreInOrder, PTL

(***************************************************************************)
(* The waiting Note Offs are of held notes, each once, and none waits      *)
(* while the pedal is up: what the loop of process_deferred_note_offs and  *)
(* the removals of push_note_off take for granted.                         *)
(***************************************************************************)
THEOREM WaitingIsWarranted == Spec /\ [][PlainPedalling]_vars => []DeferralsAreWarranted
<1> QED BY PlainInvariant, DeferralsAreInOrder, PTL

(***************************************************************************)
(* A processed pedal-up message ends every deferral: the loop of           *)
(* process_deferred_note_offs comes to the end of the list.                *)
(***************************************************************************)
THEOREM PedalUpEndsEveryDeferral ==
  Spec /\ [][PlainPedalling]_vars => PedalUpEndsDeferral
<1>1. IInv /\ PedalInv /\ PedalInv' /\ [Next]_vars
        => [\A t \in TimeOffsets : SustainPedal(FALSE, t) => (DeferredChain = <<>>)']_vars
  <2> SUFFICES ASSUME IInv, PedalInv, PedalInv', NEW t \in TimeOffsets, SustainPedal(FALSE, t)
               PROVE  DeferredChain' = <<>>
    OBVIOUS
  <2>1. ~is_sustain_pedal_on'
    BY SettingsAssumption DEF SustainPedal, PedalInv, IInv, TypeOK, ParamSettings
  <2>2. DeferOK(Voices)' /\ Waits(Voices)' = {}
    BY <2>1 DEF PedalInv
  <2>3. PICK w : w = Voices' /\ DeferOK(w) /\ Waits(w) = {}
    BY <2>2
  <2>4. Chain(w.deferred) = <<>>
    BY <2>3, NobodyWaits
  <2>5. w.deferred = deferred_note_offs'
    BY <2>3 DEF Voices
  <2> QED BY <2>4, <2>5 DEF DeferredChain
<1> QED BY <1>1, PlainInvariant, PTL DEF Spec, PedalUpEndsDeferral

(***************************************************************************)
(* test_proxy.cpp:2154: the note of a key that is pressed again does not   *)
(* wait for the pedal any more.  When excess notes are ignored the second  *)
(* press is refused and the note keeps waiting, so that mode is excluded.  *)
(***************************************************************************)
THEOREM WaitingKeysAreUp ==
  ASSUME "ignore" \notin ExcessModes
  PROVE  Spec /\ [][PlainPedalling]_vars => []DeferredKeysAreUp
<1> DEFINE KeysUp == ~is_suspended => Waits(Voices) \cap keys = {}
<1>1. KeysUp <=> DeferredKeysAreUp
  BY DEF DeferredKeysAreUp, DeferredChain, Waits, Voices
<1>2. Init => KeysUp
  BY DEF Init
<1>3. IInv /\ PedalInv /\ KeysUp /\ [Next]_vars /\ [PlainPedalling]_vars => KeysUp'
  <2> SUFFICES ASSUME IInv, PedalInv, KeysUp, [Next]_vars, [PlainPedalling]_vars
               PROVE  KeysUp'
    OBVIOUS
  <2>1. DeferOK(Voices) /\ Waits(Voices) \subseteq Held
    <3>1. Held = ToSet(Voices.stack)
      BY DEF Held, Voices
    <3> QED BY <3>1 DEF PedalInv, DeferOK
  <2>2. ASSUME UNCHANGED <<note_stack, deferred_note_offs, keys>>,
               (is_suspended' = is_suspended) \/ is_suspended'
        PROVE  KeysUp'
    <3>1. Waits(Voices)' = Waits(Voices)
      BY <2>1, <2>2, DeferralsKept
    <3> QED BY <2>2, <3>1
  <2>3. CASE UNCHANGED vars
    BY <2>2, <2>3 DEF vars, note_vars, lifecycle_vars
  <2>4. ASSUME NEW n \in Note, NoteOn(n), PlainPedalling PROVE KeysUp'
    <3>1. is_suspended' = is_suspended /\ keys' = keys \cup {n}
      BY <2>4 DEF NoteOn, lifecycle_vars
    <3>2. params.excess # "ignore"
      BY DEF IInv, TypeOK, ParamSettings
    <3>3. NoteOnRefused(n) => n \notin Waits(Voices)
      BY <2>1, <3>2 DEF NoteOnRefused
    <3> QED BY <2>4, <3>1, <3>3, NoteOnPedal
  <2>5. ASSUME NEW n \in Note, NoteOff(n) PROVE KeysUp'
    <3>1. is_suspended' = is_suspended /\ keys' = keys \ {n}
      BY <2>5 DEF NoteOff, lifecycle_vars
    <3> QED BY <2>5, <3>1, NoteOffPedal
  <2>6. ASSUME NEW d \in BOOLEAN, NEW t \in TimeOffsets, SustainPedal(d, t) PROVE KeysUp'
    <3>1. is_suspended' = is_suspended /\ keys' = keys
      BY <2>6 DEF SustainPedal, lifecycle_vars
    <3> QED BY <2>6, <3>1, SustainPedalPedal
  <2>7. ASSUME NEW z, ApplyZone(z) PROVE KeysUp'
    BY <2>7, ApplyZonePedal
  <2>8. ASSUME NEW p \in ParamSettings, ProcessMessages(p) PROVE KeysUp'
    BY <2>2, <2>8 DEF ProcessMessages, note_vars, lifecycle_vars
  <2>9. ASSUME NEW p \in ParamSettings, BeginProcessing(p) PROVE KeysUp'
    BY <2>2, <2>7, <2>9 DEF BeginProcessing, note_vars
  <2>10. CASE Suspend
    BY <2>2, <2>10 DEF Suspend, note_vars
  <2>11. CASE Resume
    BY <2>7, <2>11 DEF Resume
  <2>12. CASE Deliver
    BY <2>2, <2>12 DEF Deliver, note_vars
  <2> QED BY <2>3, <2>4, <2>5, <2>6, <2>8, <2>9, <2>10, <2>11, <2>12 DEF Next
<1> HIDE DEF KeysUp
<1> QED BY <1>1, <1>2, <1>3, PlainInvariant, PTL DEF Spec

-----------------------------------------------------------------------------
(***************************************************************************)
(* With a pedal that is used plainly the voices are as they are without    *)
(* it: no channel is lost or used twice while Note Offs wait and are ended *)
(* together, the halves stay the held notes on either side of the anchor,  *)
(* and there is a note to steal whenever one has to be stolen.             *)
(***************************************************************************)
THEOREM VoicesUnderPedal ==
  Spec /\ [][PlainPedalling]_vars
    => [](TypeOK /\ ChannelPartition /\ HalvesFollowTheAnchor /\ StealingHasAVictim)
<1>1. IInv => TypeOK
  BY DEF IInv
<1> QED BY <1>1, PlainInvariant, VoicesAreInOrder, PTL

(***************************************************************************)
(* Every variable keeps its type: with sustain pedal handling off, for any *)
(* notes, zones, excess note handling and unusual calls of the host.       *)
(***************************************************************************)
THEOREM TypeCorrect ==
  ASSUME SustainSettings = {"off"}
  PROVE  Spec => []TypeOK
<1> QED BY PlainWhenOff, VoicesUnderPedal, PTL

(***************************************************************************)
(* The member channels are always divided between the held notes and the   *)
(* queue of available channels, also while Proxy is suspended, resumed     *)
(* twice or given other zones.                                             *)
(***************************************************************************)
THEOREM ChannelsPartitioned ==
  ASSUME SustainSettings = {"off"}
  PROVE  Spec => []ChannelPartition
<1> QED BY PlainWhenOff, VoicesUnderPedal, PTL

(***************************************************************************)
(* The halves are always the held notes below and above the anchor in      *)
(* force, in the order of the whole stack.                                 *)
(***************************************************************************)
THEOREM HalvesAreSplit ==
  ASSUME SustainSettings = {"off"}
  PROVE  Spec => []HalvesFollowTheAnchor
<1> QED BY PlainWhenOff, VoicesUnderPedal, PTL

(***************************************************************************)
(* note_on never finds itself without a free channel and without a note to *)
(* steal, which its MPE_EMULATOR_ASSERT_NOT_REACHED claims.                *)
(***************************************************************************)
THEOREM AlwaysAVictim ==
  ASSUME SustainSettings = {"off"}
  PROVE  Spec => []StealingHasAVictim
<1> QED BY PlainWhenOff, VoicesUnderPedal, PTL

-----------------------------------------------------------------------------
(***************************************************************************)
(* The last event of a tone, delivered or not, says whether a held note    *)
(* sounds it; with the pending events the receiver sounds the held notes   *)
(* and hanging tones; and, unless suspended, these events are in pairs.    *)
(***************************************************************************)
HeardInv ==
  /\ in_block /\ had_reset => is_suspended
  /\ Tells(out_events, Tones(zone, Voices))
  /\ Sounds(HearAll(Undelivered), Tones(zone, Voices))
  /\ is_suspended \/ Paired(Undelivered)

(* Without events everything sounds on.                                    *)
LEMMA HearNothing == HearAll(<<>>) = sounding
  BY DEF HearAll

(* The invariant says what the property does.                              *)
LEMMA HeardInvImplies == HeardInv => HeardUnlessDiscarded /\ EventsArePaired
<1>1. Tones(zone, Voices) = HeldTones
  BY DEF Tones, Voices, Held, HeldTones
<1>2. ASSUME HeardInv PROVE HeardUnlessDiscarded
  BY <1>1, <1>2 DEF HeardInv, HeardUnlessDiscarded, Sounds
<1>3. ASSUME HeardInv PROVE EventsArePaired
  BY <1>3 DEF HeardInv, Paired, EventsArePaired
<1> QED BY <1>2, <1>3

(* Tones depend on the note state and the zone only.                       *)
LEMMA TonesKept ==
  ASSUME zone' = zone, note_stack' = note_stack, channels_by_notes' = channels_by_notes
  PROVE  Tones(zone, Voices)' = Tones(zone, Voices)
  BY DEF Tones, Voices, Transpose, IsAboveAnchor

(* While events are pending the invariant is about the note state.         *)
LEMMA HeardPending ==
  in_block \/ had_reset =>
    (HeardInv <=> (in_block /\ had_reset => is_suspended) /\ HeardOK(Voices))
  BY DEF HeardInv, HeardOK, Undelivered, Voices

(* While none are it is about what sounds already.                         *)
LEMMA HeardSettled ==
  ~in_block /\ ~had_reset =>
    (HeardInv <=> Tells(out_events, Tones(zone, Voices)) /\ Sounds(sounding, Tones(zone, Voices)))
<1>1. Paired(<<>>)
  BY DEF Paired
<1> QED BY <1>1, HearNothing DEF HeardInv, Undelivered

(* Events that were delivered may be delivered again.                      *)
LEMMA HeardAgain ==
  Tells(out_events, Tones(zone, Voices)) /\ Sounds(sounding, Tones(zone, Voices))
    => Sounds(HearAll(out_events), Tones(zone, Voices))
<1> SUFFICES ASSUME NEW es, NEW tones, Tells(es, tones), Sounds(sounding, tones)
             PROVE  Sounds(HearAll(es), tones)
  OBVIOUS
<1>1. \A tone \in tones : tone \in HearAll(es)
  BY HeardTones DEF Tells, Sounds
<1>2. \A tone \in HearAll(es) : tone \in tones \cup discarded
  BY HeardTones DEF Tells, Sounds, NeverHeard, LastHeardOn
<1> QED BY <1>1, <1>2 DEF Sounds

(* What the events tell does not change by itself.                         *)
LEMMA TellsKept ==
  ASSUME zone' = zone, UNCHANGED note_vars, Tells(out_events, Tones(zone, Voices))
  PROVE  Tells(out_events, Tones(zone, Voices))'
<1>1. Tones(zone, Voices)' = Tones(zone, Voices) /\ out_events' = out_events
  BY TonesKept DEF note_vars
<1>2. PICK es, tones : es = out_events /\ tones = Tones(zone, Voices)
  OBVIOUS
<1>3. Tells(es, tones)'
  BY <1>2 DEF Tells, NeverHeard, LastHeardOn, Tone
<1> QED BY <1>1, <1>2, <1>3

(* Every step preserves it.                                                *)
LEMMA NextHeardInv == IInv /\ PedalInv /\ HeardInv /\ [Next]_vars => HeardInv'
<1> SUFFICES ASSUME IInv, PedalInv, HeardInv, [Next]_vars PROVE HeardInv'
  OBVIOUS
<1>1. zone \in ZoneSettings /\ VoicesOK(zone, Voices, {})
  BY DEF IInv, TypeOK
<1>2. /\ (in_block \/ had_reset)' /\ (in_block /\ had_reset => is_suspended)' /\ HeardOK(Voices)'
        => HeardInv'
  BY HeardPending, PTL
<1>3. (~in_block /\ ~had_reset)'
        /\ (Tells(out_events, Tones(zone, Voices)) /\ Sounds(sounding, Tones(zone, Voices)))'
        => HeardInv'
  BY HeardSettled, PTL
<1>4. ASSUME UNCHANGED <<note_vars, zone, had_reset, in_block, sounding, discarded>>,
             is_suspended => is_suspended'
      PROVE  HeardInv'
  <2>1. CASE in_block \/ had_reset
    <3>1. HeardOK(Voices)'
      BY <1>1, <1>4, <2>1, HeardPending, UnchangedOK
    <3> QED BY <1>2, <1>4, <2>1, <3>1 DEF HeardInv
  <2>2. CASE ~(in_block \/ had_reset)
    <3>1. Tells(out_events, Tones(zone, Voices)) /\ Sounds(sounding, Tones(zone, Voices))
      BY <2>2, HeardSettled
    <3>2. Tones(zone, Voices)' = Tones(zone, Voices)
      BY <1>4, TonesKept DEF note_vars
    <3>3. Sounds(sounding, Tones(zone, Voices))'
      BY <1>4, <3>1, <3>2 DEF Sounds
    <3> QED BY <1>3, <1>4, <2>2, <3>1, <3>3, TellsKept
  <2> QED BY <2>1, <2>2
<1>5. ASSUME NEW n \in Note, NoteOn(n) PROVE HeardInv'
  <2>1. in_block /\ UNCHANGED lifecycle_vars
    BY <1>5 DEF NoteOn
  <2>2. HeardOK(Voices)'
    BY <1>5, <2>1, NoteOnStep, HeardPending
  <2> QED BY <1>2, <2>1, <2>2 DEF HeardInv, lifecycle_vars
<1>6. ASSUME NEW n \in Note, NoteOff(n) PROVE HeardInv'
  <2>1. in_block /\ UNCHANGED lifecycle_vars
    BY <1>6 DEF NoteOff
  <2>2. HeardOK(Voices)'
    BY <1>6, <2>1, NoteOffStep, HeardPending
  <2> QED BY <1>2, <2>1, <2>2 DEF HeardInv, lifecycle_vars
<1>7. ASSUME NEW d \in BOOLEAN, NEW t \in TimeOffsets, SustainPedal(d, t) PROVE HeardInv'
  <2>1. in_block /\ UNCHANGED lifecycle_vars
    BY <1>7 DEF SustainPedal
  <2>2. HeardOK(Voices)'
    BY <1>7, <2>1, SustainPedalStep, HeardPending
  <2> QED BY <1>2, <2>1, <2>2 DEF HeardInv, lifecycle_vars
<1>8. ASSUME NEW p \in ParamSettings, ProcessMessages(p) PROVE HeardInv'
  BY <1>4, <1>8 DEF ProcessMessages, lifecycle_vars
<1>9. ASSUME NEW z \in ZoneSettings, ApplyZone(z) PROVE HeardOK(Voices)'
  BY <1>9, ApplyZoneStep DEF HeardInv
<1>10. ASSUME NEW p \in ParamSettings, BeginProcessing(p) PROVE HeardInv'
  <2>1. ~in_block /\ in_block' /\ is_suspended' = is_suspended /\ p.zone \in ZoneSettings
    BY <1>10 DEF BeginProcessing, ParamSettings
  <2>2. CASE ~is_suspended /\ p.zone # zone
    <3>1. ApplyZone(p.zone) /\ ~had_reset'
      BY <1>10, <2>1, <2>2 DEF BeginProcessing
    <3>2. HeardOK(Voices)'
      BY <1>9, <2>1, <3>1
    <3> QED BY <1>2, <2>1, <3>1, <3>2
  <2>3. CASE ~is_suspended /\ p.zone = zone
    <3>1. /\ out_events' = IF had_reset THEN out_events ELSE <<>>
          /\ ~had_reset'
          /\ UNCHANGED <<note_stack, note_stack_below, note_stack_above,
                         channels_by_notes, available_channels, deferred_note_offs,
                         zone, sounding, discarded>>
      BY <1>10, <2>1, <2>3 DEF BeginProcessing
    <3>2. CASE had_reset
      <4>1. UNCHANGED note_vars /\ HeardOK(Voices)
        BY <3>1, <3>2, HeardPending DEF note_vars
      <4>2. HeardOK(Voices)'
        BY <1>1, <2>1, <3>1, <4>1, UnchangedOK
      <4> QED BY <1>2, <2>1, <3>1, <4>2
    <3>3. CASE ~had_reset
      <4>1. Sounds(sounding, Tones(zone, Voices)) /\ Voices'.events = <<>>
        BY <2>1, <3>1, <3>3, HeardSettled DEF Voices
      <4>2. Tones(zone, Voices)' = Tones(zone, Voices)
        BY <3>1, TonesKept
      <4>3. HearAll(<<>>)' = sounding'
        BY DEF HearAll
      <4>4. HearAll(Voices.events)' = sounding'
        BY <4>1, <4>3 DEF HearAll
      <4>5. Paired(Voices.events)'
        <5>1. Paired(<<>>)'
          BY DEF Paired
        <5> QED BY <4>1, <5>1
      <4>6. Tells(Voices.events, Tones(zone, Voices))'
        <5>1. Tells(<<>>, Tones(zone, Voices))'
          BY DEF Tells, NeverHeard
        <5> QED BY <4>1, <5>1
      <4>7. Sounds(HearAll(Voices.events), Tones(zone, Voices))'
        BY <3>1, <4>1, <4>2, <4>4 DEF Sounds
      <4>8. HeardOK(Voices)'
        BY <4>5, <4>6, <4>7 DEF HeardOK
      <4> QED BY <1>2, <2>1, <3>1, <4>8
    <3> QED BY <3>2, <3>3
  <2>4. CASE is_suspended
    <3>1. UNCHANGED <<note_vars, zone, had_reset, sounding, discarded>>
      BY <1>10, <2>1, <2>4 DEF BeginProcessing
    <3>2. HeardOK(Voices)
      <4>1. CASE had_reset
        BY <4>1, HeardPending
      <4>2. CASE ~had_reset
        <5>1. Tells(out_events, Tones(zone, Voices)) /\ Sounds(sounding, Tones(zone, Voices))
          BY <2>1, <4>2, HeardSettled
        <5>2. Voices.events = out_events
          BY DEF Voices
        <5> QED BY <2>4, <5>1, <5>2, HeardAgain DEF HeardOK
      <4> QED BY <4>1, <4>2
    <3>3. HeardOK(Voices)'
      BY <1>1, <2>1, <3>1, <3>2, UnchangedOK
    <3> QED BY <1>2, <2>1, <2>4, <3>3
  <2> QED BY <2>2, <2>3, <2>4
<1>11. CASE Suspend
  BY <1>4, <1>11 DEF Suspend
<1>12. CASE Resume
  <2>1. ~in_block' /\ had_reset' /\ params.zone \in ZoneSettings /\ ApplyZone(params.zone)
    BY <1>12 DEF Resume, IInv, TypeOK, ParamSettings
  <2>2. HeardOK(Voices)'
    BY <1>9, <2>1
  <2> QED BY <1>2, <2>1, <2>2
<1>13. CASE Deliver
  <2>1. /\ in_block /\ ~in_block' /\ UNCHANGED <<had_reset, is_suspended>>
        /\ sounding' = HearAll(out_events) /\ UNCHANGED <<note_vars, zone>>
        /\ discarded' = discarded \ {Tone(out_events[i]) : i \in DOMAIN out_events}
    BY <1>13 DEF Deliver
  <2>2. PICK es, tones : es = out_events /\ tones = Tones(zone, Voices)
    OBVIOUS
  <2>3. Tells(es, tones) /\ Sounds(HearAll(es), tones)
    BY <2>1, <2>2 DEF HeardInv, Undelivered
  <2>4. \A tone \in HearAll(es) : tone \in tones \cup discarded'
    <3>1. SUFFICES ASSUME NEW tone \in HearAll(es), tone \notin tones
                   PROVE  tone \in discarded'
      OBVIOUS
    <3>2. NeverHeard(es, tone)
      BY <2>3, <3>1, HeardTones DEF Tells
    <3>3. tone \in discarded
      BY <2>3, <3>1 DEF Sounds
    <3> QED BY <2>1, <2>2, <3>2, <3>3 DEF NeverHeard
  <2>5. Tones(zone, Voices)' = Tones(zone, Voices)
    BY <2>1, TonesKept DEF note_vars
  <2>6. Sounds(sounding, Tones(zone, Voices))'
    BY <2>1, <2>2, <2>3, <2>4, <2>5 DEF Sounds
  <2>7. Tells(out_events, Tones(zone, Voices))'
    BY <2>1, <2>2, <2>3, TellsKept
  <2>8. CASE had_reset
    <3>1. is_suspended'
      BY <2>1, <2>8 DEF HeardInv
    <3>2. Sounds(HearAll(out_events), Tones(zone, Voices))'
      BY <2>6, <2>7, HeardAgain, PTL
    <3>3. Voices'.events = out_events'
      BY DEF Voices
    <3>4. Tells(Voices.events, Tones(zone, Voices))' /\ Sounds(HearAll(Voices.events), Tones(zone, Voices))'
      BY <2>7, <3>2, <3>3
    <3>5. HeardOK(Voices)'
      BY <3>1, <3>4 DEF HeardOK
    <3> QED BY <1>2, <2>1, <2>8, <3>1, <3>5
  <2>9. CASE ~had_reset
    BY <1>3, <2>1, <2>6, <2>7, <2>9
  <2> QED BY <2>8, <2>9
<1>14. CASE UNCHANGED vars
  BY <1>4, <1>14 DEF vars, lifecycle_vars
<1> QED BY <1>5, <1>6, <1>7, <1>8, <1>10, <1>11, <1>12, <1>13, <1>14 DEF Next

LEMMA InitHeardInv == Init => HeardInv
<1> SUFFICES ASSUME Init PROVE HeardInv
  OBVIOUS
<1>1. ~in_block /\ ~had_reset /\ sounding = {} /\ note_stack = <<>> /\ out_events = <<>>
  BY DEF Init
<1>2. Tones(zone, Voices) = {}
  BY <1>1 DEF Tones, Voices, ToSet
<1>3. Tells(<<>>, {})
  BY DEF Tells, NeverHeard
<1> QED BY <1>1, <1>2, <1>3, HeardSettled DEF Sounds

(***************************************************************************)
(* The same with a pedal that is used plainly: the receiver sounds the     *)
(* held notes, those that wait for the pedal included, and gets its events *)
(* in pairs, also when the pedal ends many notes at once.                  *)
(***************************************************************************)
THEOREM ReceiverUnderPedal ==
  Spec /\ [][PlainPedalling]_vars => [](HeardUnlessDiscarded /\ EventsArePaired)
<1> QED BY InitHeardInv, NextHeardInv, PlainInvariant, HeardInvImplies, PTL DEF Spec

(***************************************************************************)
(* With the pending events the receiver always sounds the held notes, each *)
(* on its channel at its pitch, however notes are stolen and retriggered,  *)
(* zones, anchors and transpositions change, and the host suspends,        *)
(* resumes and runs blocks; and a tone hangs only if a reset or a new zone *)
(* that came before the delivery cleared its Note Off.                     *)
(***************************************************************************)
THEOREM ReceiverHearsHeld ==
  ASSUME SustainSettings = {"off"}
  PROVE  Spec => []HeardUnlessDiscarded
<1> QED BY PlainWhenOff, ReceiverUnderPedal, PTL

(***************************************************************************)
(* The receiver can bend and press every note by itself: no Note On comes  *)
(* to a channel on which a note sounds already, and every Note Off ends a  *)
(* tone that sounds, wherever in a block the events are and whatever       *)
(* changes the anchor and the transposition between a note's two events,   *)
(* but for the tones that a reset left hanging.                            *)
(***************************************************************************)
THEOREM ReceiverGetsPairs ==
  ASSUME SustainSettings = {"off"}
  PROVE  Spec => []EventsArePaired
<1> QED BY PlainWhenOff, ReceiverUnderPedal, PTL

-----------------------------------------------------------------------------
(***************************************************************************)
(* Proxy implements MpeVoices: what each handler does to the notes, their  *)
(* channels and the free channels is a step of MpeVoices or none.          *)
(***************************************************************************)

(* A new note on the oldest free channel. *)
LEMMA AllocateVoice ==
  ASSUME zone \in ZoneSettings, NEW v, VoicesOK(zone, v, {}), v.available # <<>>,
         NEW n \in Note, n \notin ToSet(v.stack)
  PROVE  LET c == Head(v.available)
             w == PushNoteOn([v EXCEPT !.available = Tail(@)], c, n)
         IN  /\ c \in ToSet(v.available) /\ ToSet(w.available) = ToSet(v.available) \ {c}
             /\ ToSet(w.stack) = ToSet(v.stack) \cup {n}
             /\ w.channel = [v.channel EXCEPT ![n] = c]
<1> DEFINE c == Head(v.available)
           w == PushNoteOn([v EXCEPT !.available = Tail(@)], c, n)
<1>1. /\ v \in VoiceRecords /\ v.stack \in Seq(Note) /\ v.available \in Seq(MIDI_CHANNELS)
      /\ Unique(v.available)
  BY DEF VoicesOK, VoiceRecords
<1>2. /\ w.stack = <<n>> \o v.stack /\ w.channel = [v.channel EXCEPT ![n] = c]
      /\ w.available = Tail(v.available)
  BY <1>1 DEF PushNoteOn, VoiceRecords
<1>3. ToSet(<<n>> \o v.stack) = ToSet(v.stack) \cup {n}
  BY <1>1, PushInFront
<1>4. c \in ToSet(v.available) /\ ToSet(Tail(v.available)) = ToSet(v.available) \ {c}
  BY <1>1, Dequeue
<1> QED BY <1>2, <1>3, <1>4

(* A note that takes over the channel of a note that ends. *)
LEMMA ReplaceVoice ==
  ASSUME zone \in ZoneSettings, NEW v, VoicesOK(zone, v, {}),
         NEW old \in Note, old \in ToSet(v.stack), NEW n \in Note
  PROVE  LET c == v.channel[old]
             w == PushNoteOn(PushNoteOff(v, c, old), c, n)
         IN  /\ w.available = v.available
             /\ ToSet(w.stack) = (ToSet(v.stack) \ {old}) \cup {n}
             /\ w.channel = [v.channel EXCEPT ![n] = c]
<1> DEFINE c == v.channel[old]
           off == PushNoteOff(v, c, old)
           w == PushNoteOn(off, c, n)
<1>1. /\ off \in VoiceRecords /\ ToSet(off.stack) = ToSet(v.stack) \ {old}
      /\ off.channel = v.channel /\ off.available = v.available
  BY PushNoteOffOK DEF VoicesOK
<1> HIDE DEF off, c
<1>2. /\ w.stack = <<n>> \o off.stack /\ w.channel = [off.channel EXCEPT ![n] = c]
      /\ w.available = off.available
  BY <1>1 DEF PushNoteOn, VoiceRecords
<1>3. ToSet(<<n>> \o off.stack) = ToSet(off.stack) \cup {n}
  BY <1>1, PushInFront DEF VoiceRecords
<1> QED BY <1>1, <1>2, <1>3 DEF w, off, c

(* Stopping all notes and applying a zone is a Reconfigure. *)
LEMMA ApplyZoneReconfigures ==
  ASSUME NEW z \in ZoneSettings, ApplyZone(z)
  PROVE  Promise!Reconfigure
<1>1. Held' = {} /\ available_channels' = MemberChannels(z)
  BY DEF ApplyZone, StopAllNotes, Held, ToSet
<1>2. [n \in Held |-> channels_by_notes[n]]' = [n \in {} |-> 0]
  BY <1>1
<1>3. ToSet(available_channels)' = ToSet(MemberChannels(z))
  BY <1>1
<1> QED BY <1>2, <1>3 DEF Promise!Reconfigure

LEMMA NoteOnImplements ==
  ASSUME IInv, NEW n \in Note, NoteOn(n)
  PROVE  [Promise!VoicesNext]_(Promise!voice_vars)
<1> DEFINE v == Voices
<1>1. /\ zone \in ZoneSettings /\ VoicesOK(zone, v, {})
      /\ note_stack \in Seq(Note) /\ params.excess \in ExcessModeSet
  BY SettingsAssumption DEF IInv, TypeOK, ParamSettings
<1>2. /\ Held = ToSet(v.stack) /\ channels_by_notes = v.channel
      /\ available_channels = v.available /\ Held \subseteq Note
  BY <1>1, ElementsOfSeq DEF Voices, Held
<1>3. CASE Retrigger(n)
  <2> DEFINE c == v.channel[n]
             w == PushNoteOn(PushNoteOff(v, c, n), c, n)
  <2>1. /\ w.available = v.available /\ ToSet(w.stack) = (ToSet(v.stack) \ {n}) \cup {n}
        /\ w.channel = [v.channel EXCEPT ![n] = c] /\ n \in ToSet(v.stack)
    <3>1. n \in ToSet(v.stack)
      BY <1>2, <1>3 DEF Retrigger
    <3>2. PICK old \in Note : old = n
      OBVIOUS
    <3>3. LET d == v.channel[old]
              u == PushNoteOn(PushNoteOff(v, d, old), d, n)
          IN  /\ u.available = v.available /\ ToSet(u.stack) = (ToSet(v.stack) \ {old}) \cup {n}
              /\ u.channel = [v.channel EXCEPT ![n] = d]
      BY <1>1, <3>1, <3>2, ReplaceVoice
    <3> HIDE DEF v
    <3> QED BY <3>1, <3>2, <3>3
  <2>2. Become(w)
    BY <1>2, <1>3 DEF Retrigger
  <2> HIDE DEF w
  <2>3. Held' = Held /\ available_channels' = available_channels
        /\ channels_by_notes' = [channels_by_notes EXCEPT ![n] = channels_by_notes[n]]
    BY <1>2, <2>1, <2>2 DEF Become, Held
  <2>4. \A m \in Held : channels_by_notes'[m] = channels_by_notes[m]
    BY <1>1, <1>2, <2>3 DEF VoicesOK, VoiceRecords
  <2> QED BY <2>3, <2>4 DEF Promise!voice_vars
<1>4. CASE Allocate(n)
  <2> DEFINE c == Head(v.available)
             w == PushNoteOn([v EXCEPT !.available = Tail(@)], c, n)
  <2>1. /\ c \in ToSet(v.available) /\ ToSet(w.available) = ToSet(v.available) \ {c}
        /\ ToSet(w.stack) = ToSet(v.stack) \cup {n} /\ w.channel = [v.channel EXCEPT ![n] = c]
        /\ n \notin Held
    BY <1>1, <1>2, <1>4, AllocateVoice DEF Allocate
  <2>2. Become(w)
    BY <1>2, <1>4 DEF Allocate
  <2> HIDE DEF w, c
  <2>3. /\ Held' = Held \cup {n}
        /\ ToSet(available_channels)' = ToSet(available_channels) \ {c}
        /\ channels_by_notes' = [channels_by_notes EXCEPT ![n] = c]
    BY <1>2, <2>1, <2>2 DEF Become, Held
  <2>4. channels_by_notes'[n] = c /\ \A m \in Held : channels_by_notes'[m] = channels_by_notes[m]
    BY <1>1, <1>2, <2>1, <2>3 DEF VoicesOK, VoiceRecords
  <2>5. Promise!Start(n)
    BY <1>2, <2>1, <2>3, <2>4 DEF Promise!Start, Promise!Sounding
  <2> QED BY <2>5 DEF Promise!VoicesNext
<1>5. CASE Steal(n)
  <2>0. PICK old : old = StealNote
    OBVIOUS
  <2> DEFINE c == v.channel[old]
             w == PushNoteOn(PushNoteOff(v, c, old), c, n)
  <2>1. old \in Held /\ old \in Note /\ n \notin Held
    BY <1>1, <1>2, <1>5, <2>0, StealNoteHeld DEF Steal
  <2>2. Become(w) /\ available_channels = <<>>
    BY <1>2, <1>5, <2>0 DEF Steal
  <2>3. /\ w.available = v.available /\ ToSet(w.stack) = (ToSet(v.stack) \ {old}) \cup {n}
        /\ w.channel = [v.channel EXCEPT ![n] = c]
    BY <1>1, <1>2, <2>1, ReplaceVoice
  <2> HIDE DEF w, c
  <2>4. /\ Held' = (Held \ {old}) \cup {n}
        /\ available_channels' = available_channels /\ ToSet(available_channels) = {}
        /\ channels_by_notes' = [channels_by_notes EXCEPT ![n] = c]
    <3>1. ToSet(available_channels) = {}
      BY <2>2 DEF ToSet
    <3> QED BY <1>2, <2>2, <2>3, <3>1 DEF Become, Held
  <2>5. channels_by_notes'[n] = c /\ \A m \in Held : channels_by_notes'[m] = channels_by_notes[m]
    BY <1>1, <1>2, <2>1, <2>4 DEF VoicesOK, VoiceRecords
  <2>6. Promise!TakeOver(n, old)
    BY <1>2, <2>1, <2>4, <2>5 DEF Promise!TakeOver, Promise!Sounding, c
  <2>7. \E victim \in Note : Promise!TakeOver(n, victim)
    BY <2>1, <2>6
  <2> QED BY <2>7 DEF Promise!VoicesNext
<1>6. CASE UNCHANGED note_vars
  BY <1>6 DEF note_vars, Held, Promise!voice_vars
<1> QED BY <1>3, <1>4, <1>5, <1>6 DEF NoteOn

LEMMA NoteOffImplements ==
  ASSUME IInv, NEW n \in Note, NoteOff(n)
  PROVE  [Promise!VoicesNext]_(Promise!voice_vars)
<1> DEFINE v == Voices
<1>1. zone \in ZoneSettings /\ VoicesOK(zone, v, {})
  BY DEF IInv, TypeOK
<1>2. /\ Held = ToSet(v.stack) /\ channels_by_notes = v.channel
      /\ available_channels = v.available
  BY DEF Voices, Held
<1>3. CASE Release(n)
  <2> DEFINE w == HandleNoteOff(v, n)
  <2>1. /\ ToSet(w.available) = ToSet(v.available) \cup {v.channel[n]}
        /\ ToSet(w.stack) = ToSet(v.stack) \ {n} /\ w.channel = v.channel /\ n \in Held
    BY <1>1, <1>2, <1>3, ReleaseVoice DEF Release
  <2>2. Become(w)
    BY <1>3 DEF Release
  <2> HIDE DEF w
  <2>3. /\ Held' = Held \ {n} /\ channels_by_notes' = channels_by_notes
        /\ ToSet(available_channels)' = ToSet(available_channels) \cup {channels_by_notes[n]}
    BY <1>2, <2>1, <2>2 DEF Become, Held
  <2>4. Promise!Channels({n}) = {channels_by_notes[n]}
    BY <2>1 DEF Promise!Channels
  <2>5. Promise!Stop({n})
    BY <2>1, <2>3, <2>4 DEF Promise!Stop, Promise!Sounding
  <2> QED BY <2>5 DEF Promise!VoicesNext
<1>4. CASE UNCHANGED <<note_stack, channels_by_notes, available_channels>>
  BY <1>4 DEF Held, Promise!voice_vars
<1>5. Defer(n) => UNCHANGED <<note_stack, channels_by_notes, available_channels>>
  <2>1. PICK w : w = [v EXCEPT !.deferred = BasicPush(@, n)]
    OBVIOUS
  <2>2. w.stack = v.stack /\ w.channel = v.channel /\ w.available = v.available
    BY <2>1 DEF Voices
  <2> QED BY <2>1, <2>2 DEF Defer, Become, Voices
<1> QED BY <1>3, <1>4, <1>5 DEF NoteOff, note_vars

(* The pedal goes up: the notes that waited stop together. *)
LEMMA SustainPedalImplements ==
  ASSUME IInv, PedalInv, NEW d \in BOOLEAN, NEW t \in TimeOffsets, SustainPedal(d, t)
  PROVE  [Promise!VoicesNext]_(Promise!voice_vars)
<1> DEFINE v == Voices
<1>1. zone \in ZoneSettings /\ VoicesOK(zone, v, {}) /\ DeferOK(v)
  BY DEF IInv, PedalInv, TypeOK
<1>2. /\ Held = ToSet(v.stack) /\ channels_by_notes = v.channel
      /\ available_channels = v.available /\ Held \subseteq Note
  <2>1. note_stack \in Seq(Note)
    BY DEF IInv, TypeOK
  <2> QED BY <2>1, ElementsOfSeq DEF Voices, Held
<1>3. CASE UNCHANGED note_vars
  BY <1>3 DEF note_vars, Held, Promise!voice_vars
<1>4. CASE Become(ProcessDeferredNoteOffs(v))
  <2>1. PICK w : w = ProcessDeferredNoteOffs(v) /\ Become(w)
    BY <1>4
  <2>2. PICK waiting : waiting = Waits(v)
    OBVIOUS
  <2>3. /\ waiting \subseteq Held /\ ToSet(w.stack) = Held \ waiting /\ w.channel = v.channel
        /\ ToSet(w.available) = ToSet(v.available) \cup {v.channel[n] : n \in waiting}
    BY <1>1, <1>2, <2>1, <2>2, ProcessDeferredEnds DEF Ended, DeferOK
  <2>4. /\ Held' = Held \ waiting /\ channels_by_notes' = channels_by_notes
        /\ ToSet(available_channels)'
             = ToSet(available_channels) \cup {channels_by_notes[n] : n \in waiting}
    BY <1>2, <2>1, <2>3 DEF Become, Held
  <2>5. CASE waiting = {}
    <3>1. Held' = Held /\ ToSet(available_channels)' = ToSet(available_channels)
      BY <2>4, <2>5
    <3> QED BY <2>4, <3>1 DEF Promise!voice_vars
  <2>6. CASE waiting # {}
    <3>1. Promise!Channels(waiting) = {channels_by_notes[n] : n \in waiting}
      BY <2>3 DEF Promise!Channels
    <3>2. Promise!Stop(waiting)
      BY <2>3, <2>4, <2>6, <3>1 DEF Promise!Stop, Promise!Sounding
    <3>3. waiting \in SUBSET Note
      BY <1>2, <2>3
    <3> QED BY <3>2, <3>3 DEF Promise!VoicesNext
  <2> QED BY <2>5, <2>6
<1> QED BY <1>3, <1>4 DEF SustainPedal

(***************************************************************************)
(* The same with a pedal that is used plainly: a pedal that goes up stops  *)
(* the notes that waited and frees their channels, and nothing else.       *)
(***************************************************************************)
THEOREM ImplementsUnderPedal ==
  Spec /\ [][PlainPedalling]_vars => ImplementsMpeVoices
<1>1. Init => Promise!VoicesInit
  <2> SUFFICES ASSUME Init PROVE Promise!VoicesInit
    OBVIOUS
  <2>1. Held = {} /\ ToSet(available_channels) = ToSet(MemberChannels(zone))
        /\ zone \in ZoneSettings
    BY DEF Init, Held, ToSet, ParamSettings
  <2> QED BY <2>1 DEF Promise!VoicesInit
<1>2. IInv /\ PedalInv /\ [Next]_vars => [Promise!VoicesNext]_(Promise!voice_vars)
  <2> SUFFICES ASSUME IInv, PedalInv, [Next]_vars PROVE [Promise!VoicesNext]_(Promise!voice_vars)
    OBVIOUS
  <2> DEFINE Goal == [Promise!VoicesNext]_(Promise!voice_vars)
  <2>1. ASSUME UNCHANGED <<note_stack, channels_by_notes, available_channels>> PROVE Goal
    BY <2>1 DEF Held, Promise!voice_vars
  <2>2. ASSUME NEW n \in Note, NoteOn(n) PROVE Goal
    BY <2>2, NoteOnImplements
  <2>3. ASSUME NEW n \in Note, NoteOff(n) PROVE Goal
    BY <2>3, NoteOffImplements
  <2>4. ASSUME NEW d \in BOOLEAN, NEW t \in TimeOffsets, SustainPedal(d, t) PROVE Goal
    BY <2>4, SustainPedalImplements
  <2>5. ASSUME NEW p \in ParamSettings, ProcessMessages(p) PROVE Goal
    BY <2>1, <2>5 DEF ProcessMessages, note_vars
  <2>6. ASSUME NEW z \in ZoneSettings, ApplyZone(z) PROVE Goal
    BY <2>6, ApplyZoneReconfigures DEF Promise!VoicesNext
  <2>7. ASSUME NEW p \in ParamSettings, BeginProcessing(p) PROVE Goal
    <3>1. p.zone \in ZoneSettings
      BY DEF ParamSettings
    <3> QED BY <2>1, <2>6, <2>7, <3>1 DEF BeginProcessing, note_vars
  <2>8. CASE Suspend
    BY <2>1, <2>8 DEF Suspend, note_vars
  <2>9. CASE Resume
    <3>1. params.zone \in ZoneSettings /\ ApplyZone(params.zone)
      BY <2>9 DEF Resume, IInv, TypeOK, ParamSettings
    <3> QED BY <2>6, <3>1
  <2>10. CASE Deliver
    BY <2>1, <2>10 DEF Deliver, note_vars
  <2>11. CASE UNCHANGED vars
    BY <2>1, <2>11 DEF vars, note_vars
  <2> QED BY <2>2, <2>3, <2>4, <2>5, <2>7, <2>8, <2>9, <2>10, <2>11 DEF Next
<1> QED BY <1>1, <1>2, PlainInvariant, PTL DEF Spec, ImplementsMpeVoices, Promise!VoicesSpec

(***************************************************************************)
(* Seen as who holds which channel, Proxy does only what MpeVoices allows: *)
(* so no two notes ever share a channel, and no channel is lost, however   *)
(* channels and stolen notes are chosen.                                   *)
(***************************************************************************)
THEOREM ProxyImplementsMpeVoices ==
  ASSUME SustainSettings = {"off"}
  PROVE  Spec => ImplementsMpeVoices
<1> QED BY PlainWhenOff, ImplementsUnderPedal, PTL

-----------------------------------------------------------------------------
(***************************************************************************)
(* MpeVoices by itself: any allocation of the member channels of Proxy's   *)
(* zones to its notes, not only the one that Proxy makes.                  *)
(***************************************************************************)
VARIABLES assigned, free

ZoneChannels == {ToSet(MemberChannels(z)) : z \in ZoneSettings}

Alloc == INSTANCE MpeVoices WITH ChannelSets <- ZoneChannels

(* Ending notes frees their channels and no others. *)
LEMMA StopKeepsApart ==
  ASSUME Alloc!OneNotePerChannel, NEW notes, Alloc!Stop(notes)
  PROVE  Alloc!OneNotePerChannel'
<1> DEFINE rest == Alloc!Sounding \ notes
<1>1. /\ notes \subseteq Alloc!Sounding
      /\ assigned' = [m \in rest |-> assigned[m]]
      /\ free' = free \cup Alloc!Channels(notes)
  BY DEF Alloc!Stop
<1>2. Alloc!Sounding' = rest /\ \A m \in rest : assigned'[m] = assigned[m]
  BY <1>1 DEF Alloc!Sounding
<1>3. Alloc!Channels(Alloc!Sounding)' = Alloc!Channels(rest)
  BY <1>2 DEF Alloc!Channels
<1>4. Alloc!Channels(Alloc!Sounding) = Alloc!Channels(rest) \cup Alloc!Channels(notes)
  BY <1>1 DEF Alloc!Channels
<1>5. Alloc!Channels(rest) \cap Alloc!Channels(notes) = {}
  BY <1>1 DEF Alloc!Channels, Alloc!OneNotePerChannel
<1> QED BY <1>1, <1>2, <1>3, <1>4, <1>5 DEF Alloc!OneNotePerChannel

(* Every step keeps voices apart. *)
LEMMA NextKeepsApart ==
  Alloc!OneNotePerChannel /\ [Alloc!VoicesNext]_(Alloc!voice_vars) => Alloc!OneNotePerChannel'
<1> SUFFICES ASSUME Alloc!OneNotePerChannel, [Alloc!VoicesNext]_(Alloc!voice_vars)
             PROVE  Alloc!OneNotePerChannel'
  OBVIOUS
<1>1. ASSUME NEW n \in Note, Alloc!Start(n) PROVE Alloc!OneNotePerChannel'
  <2>1. PICK c \in free :
          /\ n \notin Alloc!Sounding
          /\ assigned' = [m \in Alloc!Sounding \cup {n} |-> IF m = n THEN c ELSE assigned[m]]
          /\ free' = free \ {c}
    BY <1>1 DEF Alloc!Start
  <2>2. /\ Alloc!Sounding' = Alloc!Sounding \cup {n} /\ assigned'[n] = c
        /\ \A m \in Alloc!Sounding : assigned'[m] = assigned[m]
    BY <2>1 DEF Alloc!Sounding
  <2>3. Alloc!Channels(Alloc!Sounding)' = Alloc!Channels(Alloc!Sounding) \cup {c}
    BY <2>2 DEF Alloc!Channels
  <2>4. \A m \in Alloc!Sounding : assigned[m] # c
    BY <2>1 DEF Alloc!OneNotePerChannel, Alloc!Channels
  <2> QED BY <2>1, <2>2, <2>3, <2>4 DEF Alloc!OneNotePerChannel
<1>2. ASSUME NEW n \in Note, NEW victim \in Note, Alloc!TakeOver(n, victim)
      PROVE  Alloc!OneNotePerChannel'
  <2>1. /\ n \notin Alloc!Sounding /\ victim \in Alloc!Sounding /\ free = {} /\ free' = free
        /\ assigned' = [m \in (Alloc!Sounding \ {victim}) \cup {n} |->
                          IF m = n THEN assigned[victim] ELSE assigned[m]]
    BY <1>2 DEF Alloc!TakeOver
  <2>2. /\ Alloc!Sounding' = (Alloc!Sounding \ {victim}) \cup {n} /\ assigned'[n] = assigned[victim]
        /\ \A m \in Alloc!Sounding \ {victim} : assigned'[m] = assigned[m]
    BY <2>1 DEF Alloc!Sounding
  <2>3. Alloc!Channels(Alloc!Sounding)' = Alloc!Channels(Alloc!Sounding)
    BY <2>1, <2>2 DEF Alloc!Channels
  <2> QED BY <2>1, <2>2, <2>3 DEF Alloc!OneNotePerChannel
<1>3. ASSUME NEW notes \in SUBSET Note, Alloc!Stop(notes) PROVE Alloc!OneNotePerChannel'
  BY <1>3, StopKeepsApart
<1>4. CASE Alloc!Reconfigure
  <2>1. Alloc!Sounding' = {} /\ Alloc!Channels(Alloc!Sounding)' = {} 
        /\ free' \in ZoneChannels
    BY <1>4 DEF Alloc!Reconfigure, Alloc!Sounding, Alloc!Channels
  <2> QED BY <2>1 DEF Alloc!OneNotePerChannel
<1>5. CASE UNCHANGED Alloc!voice_vars
  BY <1>5 DEF Alloc!voice_vars, Alloc!OneNotePerChannel, Alloc!Sounding, Alloc!Channels
<1> QED BY <1>1, <1>2, <1>3, <1>4, <1>5 DEF Alloc!VoicesNext

(***************************************************************************)
(* Whatever is left open of the choice of channels and of stolen notes, no *)
(* two notes ever share a channel and no channel is lost.                  *)
(***************************************************************************)
THEOREM VoicesStayApart == Alloc!VoicesSpec => []Alloc!OneNotePerChannel
<1>1. Alloc!VoicesInit => Alloc!OneNotePerChannel
  BY DEF Alloc!VoicesInit, Alloc!OneNotePerChannel, Alloc!Sounding, Alloc!Channels
<1> QED BY <1>1, NextKeepsApart, PTL DEF Alloc!VoicesSpec

-----------------------------------------------------------------------------
(***************************************************************************)
(* The note stack itself: under Proxy's use of it, the linked list stands  *)
(* for the sequence of held notes that Proxy.tla keeps in its place.       *)
(***************************************************************************)

Extremes(l, s) ==
  /\ s = <<>> => l.lowest = INVALID_NOTE /\ l.highest = INVALID_NOTE
  /\ s # <<>> => l.lowest = Min(ToSet(s)) /\ l.highest = Max(ToSet(s))

\* the other half's notes were never pushed, so they have no pointers
ForeignUntouched(l, s) ==
  \A n \in OtherHalf : n \notin ToSet(s) /\ l.next[n] = INVALID_NOTE

Stands(l, s) ==
  Pointers(l, s) /\ Oldest(l, s) /\ Extremes(l, s) /\ ForeignUntouched(l, s)

ListInv == \E s \in Seq(Note) : Stands(stack, s)

-----------------------------------------------------------------------------
(* What the operations do to the cached notes. *)

(* The lowest and the highest note after n was taken out of s. *)
LEMMA ExtremesUpdated ==
  ASSUME NEW s \in Seq(Note), NEW n \in Note, n \in ToSet(s),
         NEW u, NEW t, Pointers(u, t), ToSet(t) = ToSet(s) \ {n},
         u.lowest = Min(ToSet(s)), u.highest = Max(ToSet(s))
  PROVE  LET r == UpdateExtremesAfterRemove(u, n)
         IN  /\ r \in List /\ r.next = u.next /\ r.previous = u.previous
             /\ r.head = u.head /\ r.oldest = u.oldest
             /\ Extremes(r, t)
<1> DEFINE r == UpdateExtremesAfterRemove(u, n)
           all == ToSet(s)
           rest == ToSet(t)
<1>1. /\ u \in List /\ t \in Seq(Note) /\ Len(t) \in Nat /\ (t = <<>> <=> Len(t) = 0)
      /\ rest = {t[i] : i \in 1..Len(t)} /\ all \subseteq Note /\ rest \subseteq Note
      /\ Chain(u) = t
  BY ElementsOfSeq, ChainIs DEF Pointers
<1>2. /\ u = [next |-> u.next, previous |-> u.previous, head |-> u.head,
              oldest |-> u.oldest, lowest |-> u.lowest, highest |-> u.highest]
      /\ u.next \in [Note -> OptionalNote] /\ u.previous \in [Note -> OptionalNote]
      /\ u.head \in OptionalNote /\ u.oldest \in OptionalNote
      /\ INVALID_NOTE \in OptionalNote /\ Note \subseteq OptionalNote
  BY <1>1 DEF List, OptionalNote
<1>3. u.head = INVALID_NOTE <=> t = <<>>
  <2>1. t # <<>> => 1 \in 1..Len(t)
    BY <1>1
  <2> QED BY <1>1, <2>1, NotesAreValid DEF Pointers
<1>4. t # <<>> => rest # {}
  <2>1. t # <<>> => 1 \in 1..Len(t)
    BY <1>1
  <2> QED BY <1>1, <2>1
<1>5. /\ Min(all) \in all /\ Max(all) \in all
      /\ \A m \in all : m =< Max(all)
      /\ \A m \in all : Min(all) =< m
  <2>1. /\ all \in SUBSET Nat /\ all \in SUBSET (0..127) /\ all # {}
        /\ 127 \in Nat /\ all \in SUBSET Int
    BY <1>1, NotesAreValid
  <2>2. PICK least \in all : \A m \in all : least =< m
    BY <2>1, MinExists
  <2>3. Min(all) = least
    BY <2>1, <2>2, MinIs
  <2>4. Max(all) \in all /\ \A m \in all : m =< Max(all)
    BY <2>1, MaxInRange
  <2> QED BY <2>2, <2>3, <2>4
<1>6. ASSUME rest # {} PROVE Min(rest) \in rest /\ Max(rest) \in rest
  <2>1. rest \in SUBSET Nat /\ rest \in SUBSET (0..127)
    BY <1>1, NotesAreValid
  <2> QED BY <1>6, <2>1, MinIn, MaxIn
<1> DEFINE lows == rest \cup ({u.lowest} \ {n, INVALID_NOTE})
           highs == rest \cup ({u.highest} \ {n, INVALID_NOTE})
<1>7. r = IF u.head = INVALID_NOTE
          THEN [u EXCEPT !.lowest = INVALID_NOTE, !.highest = INVALID_NOTE]
          ELSE IF n \in {u.lowest, u.highest}
               THEN [u EXCEPT !.lowest = Min(lows), !.highest = Max(highs)]
               ELSE u
  BY <1>1 DEF UpdateExtremesAfterRemove
<1>8. lows = rest /\ highs = rest
  BY <1>5
<1> HIDE DEF r, lows, highs, all, rest
<1>9. /\ r.next = u.next /\ r.previous = u.previous /\ r.head = u.head
      /\ r.oldest = u.oldest
      /\ r = [next |-> r.next, previous |-> r.previous, head |-> r.head,
              oldest |-> r.oldest, lowest |-> r.lowest, highest |-> r.highest]
  BY <1>2, <1>7
<1>10. Extremes(r, t) /\ r.lowest \in OptionalNote /\ r.highest \in OptionalNote
  <2>1. CASE t = <<>>
    BY <1>2, <1>3, <1>7, <2>1 DEF Extremes
  <2>2. CASE t # <<>> /\ n \in {u.lowest, u.highest}
    <3>1. r.lowest = Min(rest) /\ r.highest = Max(rest)
      BY <1>2, <1>3, <1>7, <1>8, <2>2
    <3> QED BY <1>1, <1>2, <1>4, <1>6, <2>2, <3>1 DEF Extremes, rest
  <2>3. CASE t # <<>> /\ n \notin {u.lowest, u.highest}
    <3>1. r = u
      BY <1>3, <1>7, <2>3
    <3>2. u.lowest \in rest /\ u.highest \in rest
      BY <1>5, <2>3 DEF all, rest
    <3>3. rest \in SUBSET Int /\ (\A m \in rest : u.lowest =< m)
          /\ (\A m \in rest : m =< u.highest)
      BY <1>1, <1>5, NotesAreValid DEF all, rest
    <3>4. Min(rest) = u.lowest /\ Max(rest) = u.highest
      BY <3>2, <3>3, MinIs, MaxIs
    <3> QED BY <1>1, <1>2, <2>3, <3>1, <3>2, <3>4 DEF Extremes, rest
  <2> QED BY <2>1, <2>2, <2>3
<1>11. r \in List
  BY <1>2, <1>9, <1>10 DEF List
<1> QED BY <1>9, <1>10, <1>11 DEF r

(* Once the extremes are right, updating them for a note not held is no step. *)
LEMMA ExtremesSettled ==
  ASSUME NEW u, NEW t, Pointers(u, t), Extremes(u, t), NEW n \in Note, n \notin ToSet(t)
  PROVE  UpdateExtremesAfterRemove(u, n) = u
<1>1. /\ u \in List /\ t \in Seq(Note) /\ Len(t) \in Nat /\ (t = <<>> <=> Len(t) = 0)
      /\ ToSet(t) = {t[i] : i \in 1..Len(t)} /\ ToSet(t) \subseteq Note
  BY ElementsOfSeq DEF Pointers
<1>2. u = [next |-> u.next, previous |-> u.previous, head |-> u.head,
           oldest |-> u.oldest, lowest |-> u.lowest, highest |-> u.highest]
  BY <1>1 DEF List
<1>3. CASE t = <<>>
  <2>1. u.head = INVALID_NOTE /\ u.lowest = INVALID_NOTE /\ u.highest = INVALID_NOTE
    BY <1>3 DEF Pointers, Extremes
  <2> QED BY <1>2, <2>1 DEF UpdateExtremesAfterRemove
<1>4. CASE t # <<>>
  <2>1. 1 \in 1..Len(t) /\ ToSet(t) # {}
    BY <1>1, <1>4
  <2>2. u.head # INVALID_NOTE
    BY <1>1, <1>4, <2>1, NotesAreValid DEF Pointers
  <2>3. Min(ToSet(t)) \in ToSet(t) /\ Max(ToSet(t)) \in ToSet(t)
    <3>1. ToSet(t) \in SUBSET Nat /\ ToSet(t) \in SUBSET (0..127)
      BY <1>1, NotesAreValid
    <3> QED BY <2>1, <3>1, MinIn, MaxIn
  <2>4. n \notin {u.lowest, u.highest}
    BY <1>4, <2>3 DEF Extremes
  <2> QED BY <2>2, <2>4 DEF UpdateExtremesAfterRemove
<1> QED BY <1>3, <1>4

-----------------------------------------------------------------------------
(* The operations, as what they make of the sequence of held notes. *)

LEMMA EmptyStands == Stands(EmptyList, <<>>)
<1>1. EmptyList \in List
  BY DEF EmptyList, List, OptionalNote
<1>2. <<>> \in Seq(Note) /\ Len(<<>>) = 0 /\ ToSet(<<>>) = {} /\ Unique(<<>>)
  BY DEF ToSet, Unique
<1>3. /\ EmptyList.head = INVALID_NOTE /\ EmptyList.oldest = INVALID_NOTE
      /\ EmptyList.lowest = INVALID_NOTE /\ EmptyList.highest = INVALID_NOTE
      /\ \A n \in Note : /\ EmptyList.next[n] = INVALID_NOTE
                         /\ EmptyList.previous[n] = INVALID_NOTE
  BY DEF EmptyList
<1> QED BY <1>1, <1>2, <1>3, OtherHalfAssumption
        DEF Stands, Pointers, Oldest, Extremes, ForeignUntouched

LEMMA PushStands ==
  ASSUME NEW l, NEW s, Stands(l, s), NEW n \in Note, n \notin ToSet(s), n \notin OtherHalf
  PROVE  Stands(PushNote(l, n), <<n>> \o s)
<1> DEFINE b == BasicPush(l, n)
           r == PushNote(l, n)
           t == <<n>> \o s
<1>1. /\ Pointers(b, t) /\ Oldest(b, t) /\ b.lowest = l.lowest /\ b.highest = l.highest
      /\ \A m \in Note \ {n} : b.next[m] = l.next[m]
  BY PushLinks DEF Stands
<1>2. /\ s \in Seq(Note) /\ Len(s) \in Nat /\ (s = <<>> <=> Len(s) = 0)
      /\ ToSet(s) = {s[i] : i \in 1..Len(s)} /\ ToSet(s) \subseteq Note
  BY ElementsOfSeq DEF Stands, Pointers
<1>3. /\ t \in Seq(Note) /\ Len(t) = Len(s) + 1 /\ ToSet(t) = ToSet(s) \cup {n}
      /\ t # <<>>
  BY <1>2, PushInFront
<1>4. r = [b EXCEPT !.lowest = IF @ = INVALID_NOTE \/ n < @ THEN n ELSE @,
                    !.highest = IF @ = INVALID_NOTE \/ n > @ THEN n ELSE @]
  BY DEF PushNote
<1> HIDE DEF b, r, t
<1>5. b \in List /\ b.lowest \in OptionalNote /\ b.highest \in OptionalNote
      /\ b = [next |-> b.next, previous |-> b.previous, head |-> b.head,
              oldest |-> b.oldest, lowest |-> b.lowest, highest |-> b.highest]
  BY <1>1 DEF Pointers, List
<1>6. /\ r.next = b.next /\ r.previous = b.previous /\ r.head = b.head
      /\ r.oldest = b.oldest
      /\ r.lowest = IF l.lowest = INVALID_NOTE \/ n < l.lowest THEN n ELSE l.lowest
      /\ r.highest = IF l.highest = INVALID_NOTE \/ n > l.highest THEN n ELSE l.highest
      /\ r \in List
  BY <1>1, <1>4, <1>5 DEF List, OptionalNote
<1>7. Pointers(r, t) /\ Oldest(r, t)
  BY <1>1, <1>6, PointersKept DEF Oldest
<1>8. Extremes(r, t)
  <2>1. CASE s = <<>>
    <3>1. r.lowest = n /\ r.highest = n /\ ToSet(t) = {n} /\ {n} \in SUBSET Int
      BY <1>2, <1>3, <1>6, <2>1, NotesAreValid DEF Stands, Extremes
    <3>2. Min({n}) = n /\ Max({n}) = n
      <4>1. n \in {n} /\ (\A m \in {n} : n =< m) /\ (\A m \in {n} : m =< n)
        BY <3>1
      <4> QED BY <3>1, <4>1, MinIs, MaxIs
    <3> QED BY <1>3, <3>1, <3>2 DEF Extremes
  <2>2. CASE s # <<>>
    <3>1. l.lowest = Min(ToSet(s)) /\ l.highest = Max(ToSet(s)) /\ ToSet(s) # {}
      <4>1. 1 \in 1..Len(s)
        BY <1>2, <2>2
      <4> QED BY <1>2, <2>2, <4>1 DEF Stands, Extremes
    <3>2. PICK least \in ToSet(s) :
            least = Min(ToSet(s)) /\ \A m \in ToSet(s) : least =< m
      <4>1. ToSet(s) \in SUBSET Nat /\ ToSet(s) \in SUBSET Int
        BY <1>2, NotesAreValid
      <4>2. PICK m \in ToSet(s) : \A o \in ToSet(s) : m =< o
        BY <3>1, <4>1, MinExists
      <4>3. Min(ToSet(s)) = m
        BY <4>1, <4>2, MinIs
      <4> QED BY <4>2, <4>3
    <3>3. PICK most \in ToSet(s) :
            most = Max(ToSet(s)) /\ \A m \in ToSet(s) : m =< most
      <4>1. 127 \in Nat /\ ToSet(s) \in SUBSET (0..127)
        BY <1>2, NotesAreValid
      <4> QED BY <3>1, <4>1, MaxInRange
    <3>4. /\ \A m \in ToSet(t) : m \in Int /\ (m = n \/ m \in ToSet(s))
          /\ n \in Int /\ least \in Int /\ most \in Int
          /\ n # INVALID_NOTE /\ least # INVALID_NOTE /\ most # INVALID_NOTE
          /\ \A m \in ToSet(s) : m \in Int /\ least =< m /\ m =< most
      BY <1>2, <1>3, <3>2, <3>3, NotesAreValid
    <3>5. r.lowest \in ToSet(t) /\ \A m \in ToSet(t) : r.lowest =< m
      <4>1. r.lowest = IF n < least THEN n ELSE least
        BY <1>6, <3>1, <3>2, <3>4
      <4> QED BY <1>3, <3>2, <3>4, <4>1
    <3>6. r.highest \in ToSet(t) /\ \A m \in ToSet(t) : m =< r.highest
      <4>1. r.highest = IF n > most THEN n ELSE most
        BY <1>6, <3>1, <3>3, <3>4
      <4> QED BY <1>3, <3>3, <3>4, <4>1
    <3>7. ToSet(t) \in SUBSET Int
      BY <3>4
    <3>8. Min(ToSet(t)) = r.lowest /\ Max(ToSet(t)) = r.highest
      BY <3>5, <3>6, <3>7, MinIs, MaxIs
    <3> QED BY <1>3, <3>8 DEF Extremes
  <2> QED BY <2>1, <2>2
<1>9. ForeignUntouched(r, t)
  BY <1>1, <1>3, <1>6, OtherHalfAssumption DEF Stands, ForeignUntouched
<1>10. Stands(r, t)
  BY <1>7, <1>8, <1>9 DEF Stands
<1> QED BY <1>10 DEF r, t

(* The other half's pointers are not joined to anything. *)
LEMMA ForeignStays ==
  ASSUME NEW l, NEW s, Stands(l, s), NEW k \in 1..Len(s), NEW n \in Note, n = s[k],
         NEW r, JoinsNeighbours(r, l, s, k)
  PROVE  ForeignUntouched(r, RemoveFirst(s, n))
<1>1. /\ s \in Seq(Note) /\ Unique(s) /\ Len(s) \in Nat
      /\ ToSet(s) = {s[i] : i \in 1..Len(s)}
  BY ElementsOfSeq DEF Stands, Pointers
<1>2. ToSet(RemoveFirst(s, n)) = ToSet(s) \ {n}
  BY <1>1, WithoutPlace
<1>3. SUFFICES ASSUME NEW m \in OtherHalf
               PROVE  m \notin ToSet(s) /\ r.next[m] = INVALID_NOTE
  BY <1>2 DEF ForeignUntouched
<1>4. m \in Note /\ m \notin ToSet(s) /\ l.next[m] = INVALID_NOTE /\ m # n
  BY <1>1, OtherHalfAssumption DEF Stands, ForeignUntouched
<1>5. m # Newer(s, k)
  <2>1. Len(s) \in Nat
    BY <1>1
  <2>2. k # 1 => k - 1 \in 1..Len(s)
    BY <2>1
  <2> QED BY <1>1, <1>4, <2>2, NotesAreValid DEF Newer
<1> QED BY <1>4, <1>5 DEF JoinsNeighbours

LEMMA RemoveStands ==
  ASSUME NEW l, NEW s, Stands(l, s), NEW n \in Note, n \in ToSet(s)
  PROVE  Stands(RemoveNote(l, n), RemoveFirst(s, n))
<1> DEFINE u == Unlink(l, n)
           r == RemoveNote(l, n)
           t == RemoveFirst(s, n)
<1>1. /\ s \in Seq(Note) /\ Unique(s) /\ Pointers(l, s) /\ Oldest(l, s)
      /\ Len(s) \in Nat /\ (s = <<>> <=> Len(s) = 0)
      /\ ToSet(s) = {s[i] : i \in 1..Len(s)}
  BY ElementsOfSeq DEF Stands, Pointers
<1>2. PICK k \in 1..Len(s) : n = s[k]
  BY <1>1
<1>3. ToSet(t) = ToSet(s) \ {n} /\ s # <<>>
  BY <1>1, <1>2, WithoutPlace
<1>4. /\ JoinsNeighbours(u, l, s, k) /\ Oldest(u, t)
      /\ u.lowest = l.lowest /\ u.highest = l.highest
  BY <1>1, <1>2, UnlinkJoins
<1>5. Pointers(u, t)
  BY <1>1, <1>2, <1>4, TakenOut
<1>6. u.lowest = Min(ToSet(s)) /\ u.highest = Max(ToSet(s))
  BY <1>3, <1>4 DEF Stands, Extremes
<1>7. r = UpdateExtremesAfterRemove(u, n)
  BY DEF RemoveNote
<1>8. ForeignUntouched(u, t)
  BY <1>1, <1>2, <1>4, ForeignStays
<1> HIDE DEF u, r, t
<1>9. /\ r \in List /\ r.next = u.next /\ r.previous = u.previous
      /\ r.head = u.head /\ r.oldest = u.oldest /\ Extremes(r, t)
  BY <1>1, <1>3, <1>5, <1>6, <1>7, ExtremesUpdated
<1>10. Pointers(r, t)
  BY <1>5, <1>9, PointersKept
<1>11. Stands(r, t)
  BY <1>4, <1>8, <1>9, <1>10 DEF Stands, Oldest, ForeignUntouched
<1> QED BY <1>11 DEF r, t

(* Removing a note of the other half changes nothing at all. *)
LEMMA RemoveForeignIsNoOp ==
  ASSUME NEW l, NEW s, Stands(l, s), NEW n \in OtherHalf
  PROVE  RemoveNote(l, n) = l
<1>1. /\ n \in Note /\ n \notin ToSet(s) /\ l.next[n] = INVALID_NOTE
      /\ l.previous[n] = INVALID_NOTE
      /\ l \in List /\ Pointers(l, s) /\ Extremes(l, s)
  BY OtherHalfAssumption DEF Stands, ForeignUntouched, Pointers
<1>2. /\ s \in Seq(Note) /\ Len(s) \in Nat /\ (s = <<>> <=> Len(s) = 0)
      /\ ToSet(s) = {s[i] : i \in 1..Len(s)}
  BY <1>1, ElementsOfSeq DEF Pointers
<1>3. l.head # n /\ l.oldest # n
  <2>1. s # <<>> => 1 \in 1..Len(s) /\ Len(s) \in 1..Len(s)
    BY <1>2
  <2> QED BY <1>1, <1>2, <2>1, NotesAreValid DEF Stands, Pointers, Oldest
<1>4. Unlink(l, n) = l
  <2>1. l = [next |-> l.next, previous |-> l.previous, head |-> l.head,
             oldest |-> l.oldest, lowest |-> l.lowest, highest |-> l.highest]
    BY <1>1 DEF List
  <2> QED BY <1>1, <1>3, <2>1, UnlinkLoose
<1> QED BY <1>1, <1>4, ExtremesSettled DEF RemoveNote

(* The popped note is removed once more, which only corrects the oldest note. *)
LEMMA PopAndRemoveStands ==
  ASSUME NEW l, NEW s, Stands(l, s), l.head # INVALID_NOTE
  PROVE  /\ l.head \in Note /\ l.head \in ToSet(s)
         /\ Stands(RemoveNote(PopNote(l), l.head), RemoveFirst(s, l.head))
<1>1. /\ l \in List /\ s \in Seq(Note) /\ Unique(s) /\ Pointers(l, s) /\ Oldest(l, s)
      /\ Len(s) \in Nat /\ (s = <<>> <=> Len(s) = 0)
      /\ ToSet(s) = {s[i] : i \in 1..Len(s)} /\ DOMAIN s = 1..Len(s)
  BY ElementsOfSeq DEF Stands, Pointers
<1>2. PICK n \in Note : n = l.head
  BY <1>1 DEF List, OptionalNote
<1> DEFINE b == BasicPop(l)
           p == UpdateExtremesAfterRemove(b, n)
           u == Unlink(p, n)
           t == RemoveFirst(s, n)
<1>3. /\ s # <<>> /\ 1 \in 1..Len(s) /\ n = s[1] /\ n \in ToSet(s)
      /\ JoinsNeighbours(b, l, s, 1) /\ Pointers(b, t) /\ b.next[n] = INVALID_NOTE
      /\ b.oldest = l.oldest /\ b.lowest = l.lowest /\ b.highest = l.highest
  BY <1>1, <1>2, PopLinks
<1>4. ToSet(t) = ToSet(s) \ {n}
  BY <1>1, <1>3, RemovePresent
<1>5. ForeignUntouched(b, t)
  BY <1>3, ForeignStays
<1>6. b.lowest = Min(ToSet(s)) /\ b.highest = Max(ToSet(s))
  BY <1>3 DEF Stands, Extremes
<1>7. b.head # n
  <2>1. t # <<>> => t[1] \in ToSet(t)
    <3>1. t \in Seq(Note)
      BY <1>3 DEF Pointers
    <3> HIDE DEF t
    <3> QED BY <3>1, ElementsOfSeq
  <2> QED BY <1>3, <1>4, <2>1, NotesAreValid DEF Pointers
<1> HIDE DEF t, p, u, b
<1>8. /\ p \in List /\ p.next = b.next /\ p.previous = b.previous
       /\ p.head = b.head /\ p.oldest = b.oldest /\ Extremes(p, t)
  <2>1. /\ s \in Seq(Note) /\ n \in ToSet(s) /\ Pointers(b, t)
        /\ ToSet(t) = ToSet(s) \ {n}
        /\ b.lowest = Min(ToSet(s)) /\ b.highest = Max(ToSet(s))
    BY <1>1, <1>3, <1>4, <1>6
  <2>2. LET r == UpdateExtremesAfterRemove(b, n)
        IN  /\ r \in List /\ r.next = b.next /\ r.previous = b.previous
            /\ r.head = b.head /\ r.oldest = b.oldest
            /\ Extremes(r, t)
    BY <2>1, ExtremesUpdated
  <2> QED BY <2>2 DEF p
<1>9. n \notin ToSet(t) /\ p.head # n /\ p.next[n] = INVALID_NOTE
       /\ p.previous[n] = INVALID_NOTE
  BY <1>3, <1>4, <1>7, <1>8 DEF Pointers
<1>10. u = [p EXCEPT !.oldest = IF @ = n THEN INVALID_NOTE ELSE @]
  BY <1>8, <1>9, UnlinkLoose DEF u
<1>11. /\ u \in List /\ u.next = b.next /\ u.previous = b.previous
       /\ u.head = b.head /\ u.lowest = p.lowest /\ u.highest = p.highest
       /\ u.oldest = IF l.oldest = n THEN INVALID_NOTE ELSE l.oldest
  BY <1>3, <1>8, <1>10 DEF List, OptionalNote
<1>12. Pointers(u, t) /\ Extremes(u, t) /\ ForeignUntouched(u, t)
  BY <1>3, <1>5, <1>8, <1>11, PointersKept DEF Extremes, ForeignUntouched
<1>13. Oldest(u, t)
  BY <1>1, <1>3, <1>11, OldestFollows DEF t, Newer
<1>14. UpdateExtremesAfterRemove(u, n) = u
  BY <1>9, <1>12, ExtremesSettled
<1>15. RemoveNote(PopNote(l), n) = u
  BY <1>2, <1>14 DEF RemoveNote, PopNote, u, p, b
<1> QED BY <1>2, <1>3, <1>12, <1>13, <1>15 DEF Stands, t

-----------------------------------------------------------------------------
(* ListInv is inductive under Proxy's use of the stack. *)

LEMMA ListInvInit == StackInit => ListInv
<1>1. <<>> \in Seq(Note)
  OBVIOUS
<1> QED BY <1>1, EmptyStands DEF StackInit, ListInv

(* What a step does to the sequence that the list stands for. *)
LEMMA StepOfTheOrder ==
  ASSUME NEW s, Stands(stack, s), [ProxyNext]_stack
  PROVE  \E t : /\ Stands(stack', t)
                /\ \/ t = s
                   \/ s # <<>> /\ t = <<>>
                   \/ \E n \in Note : n \notin ToSet(s) /\ t = <<n>> \o s
                   \/ \E n \in Note : n \in ToSet(s) /\ t = RemoveFirst(s, n)
<1>1. \A n \in Note : Find(stack, n) <=> n \in ToSet(s)
  BY FindIsMembership DEF Stands
<1>2. ASSUME NEW n \in Note, PushNew(n)
      PROVE  n \notin ToSet(s) /\ Stands(stack', <<n>> \o s)
  BY <1>1, <1>2, PushStands DEF PushNew, Push
<1>3. ASSUME NEW n \in Note, RemoveHeld(n)
      PROVE  n \in ToSet(s) /\ Stands(stack', RemoveFirst(s, n))
  BY <1>1, <1>3, RemoveStands DEF RemoveHeld, RemoveAny
<1>4. ASSUME NEW n \in Note, RemoveForeign(n) PROVE stack' = stack
  BY <1>4, RemoveForeignIsNoOp DEF RemoveForeign, RemoveAny
<1>5. ASSUME PopAndRemove
      PROVE  /\ stack.head \in Note /\ stack.head \in ToSet(s)
             /\ Stands(stack', RemoveFirst(s, stack.head))
  BY <1>5, PopAndRemoveStands DEF PopAndRemove
<1>6. ASSUME Clear PROVE Stands(stack', <<>>)
  BY <1>6, EmptyStands DEF Clear
<1>7. CASE \E n \in Note : PushNew(n)
  BY <1>2, <1>7
<1>8. CASE \E n \in Note : RemoveHeld(n)
  BY <1>3, <1>8
<1>9. CASE stack' = stack
  BY <1>9
<1>10. CASE PopAndRemove
  BY <1>5, <1>10
<1>11. CASE Clear
  BY <1>6, <1>11
<1> QED BY <1>4, <1>7, <1>8, <1>9, <1>10, <1>11 DEF ProxyNext

LEMMA ListInvStep == ListInv /\ [ProxyNext]_stack => ListInv'
<1> SUFFICES ASSUME ListInv, [ProxyNext]_stack PROVE ListInv'
  OBVIOUS
<1>1. PICK s \in Seq(Note) : Stands(stack, s)
  BY DEF ListInv
<1>2. PICK t : Stands(stack', t)
  BY <1>1, StepOfTheOrder
<1>3. t \in Seq(Note)
  BY <1>2 DEF Stands, Pointers
<1>4. \E seq \in Seq(Note) : Stands(stack', seq)
  BY <1>2, <1>3
<1> QED BY <1>4 DEF ListInv

THEOREM ListInvHolds == ProxySpec => []ListInv
<1> QED BY ListInvInit, ListInvStep, PTL DEF ProxySpec

(***************************************************************************)
(* The pointers and cached notes have their types.                         *)
(***************************************************************************)
THEOREM ListTypeCorrect == ProxySpec => []StackTypeOK
<1>1. ListInv => StackTypeOK
  BY DEF ListInv, Stands, Pointers, StackTypeOK
<1> QED BY <1>1, ListInvHolds, PTL

(***************************************************************************)
(* find(), oldest, lowest and highest answer without a walk what the walk  *)
(* would find, for any set of notes and any sequence of Proxy's calls.     *)
(***************************************************************************)
THEOREM AnswersAreCurrent == ProxySpec => []AnswersAreThoseOfTheWalk
<1>1. ListInv => AnswersAreThoseOfTheWalk
  <2> SUFFICES ASSUME ListInv PROVE AnswersAreThoseOfTheWalk
    OBVIOUS
  <2>1. PICK s \in Seq(Note) : Stands(stack, s)
    BY DEF ListInv
  <2>2. Chain(stack) = s
    BY <2>1, ChainIs DEF Stands
  <2>3. \A n \in Note : Find(stack, n) <=> n \in ToSet(s)
    BY <2>1, FindIsMembership DEF Stands
  <2>4. s = <<>> => {stack.oldest, stack.lowest, stack.highest} = {INVALID_NOTE}
    BY <2>1 DEF Stands, Oldest, Extremes
  <2>5. s # <<>> => /\ stack.oldest = Last(s)
                    /\ stack.lowest = Min(ToSet(s)) /\ stack.highest = Max(ToSet(s))
    BY <2>1 DEF Stands, Oldest, Extremes, Last
  <2> QED BY <2>2, <2>3, <2>4, <2>5 DEF AnswersAreThoseOfTheWalk
<1> QED BY <1>1, ListInvHolds, PTL

(* NoteOrder's own copies of the operators on sequences are the same ones. *)
LEMMA SameOperators ==
  ASSUME NEW s, NEW e
  PROVE  Order!ToSet(s) = ToSet(s) /\ Order!RemoveFirst(s, e) = RemoveFirst(s, e)
<1>1. Order!ToSet(s) = ToSet(s)
  BY DEF Order!ToSet, ToSet
<1>2. Order!SelectInSeq(s, LAMBDA v : v = e) = SelectInSeq(s, LAMBDA v : v = e)
  BY DEF Order!SelectInSeq, SelectInSeq, Order!Min, Min
<1>3. \A i : Order!RemoveAt(s, i) = RemoveAt(s, i)
  BY DEF Order!RemoveAt, RemoveAt
<1> QED BY <1>1, <1>2, <1>3 DEF Order!RemoveFirst, RemoveFirst

(***************************************************************************)
(* Proxy's use of the list implements the unique LIFO of NoteOrder: a push *)
(* is Add, a removal of a held note is Drop, also the double removal of    *)
(* stop_all_notes, clear is Forget, and a removal of a note of the other   *)
(* half is no step.                                                        *)
(***************************************************************************)
THEOREM ProxyImplementsNoteOrder == ProxySpec => ImplementsNoteOrder
<1>1. StackInit => Order!OrderInit
  <2>1. Chain(EmptyList) = <<>>
    BY EmptyStands, ChainIs DEF Stands
  <2> QED BY <2>1 DEF StackInit, Order!OrderInit
<1>2. ListInv /\ [ProxyNext]_stack => [Order!OrderNext]_(Chain(stack))
  <2> SUFFICES ASSUME ListInv, [ProxyNext]_stack
               PROVE  [Order!OrderNext]_(Chain(stack))
    OBVIOUS
  <2>1. PICK s \in Seq(Note) : Stands(stack, s)
    BY DEF ListInv
  <2>2. PICK t : /\ Stands(stack', t)
                 /\ \/ t = s
                    \/ s # <<>> /\ t = <<>>
                    \/ \E n \in Note : n \notin ToSet(s) /\ t = <<n>> \o s
                    \/ \E n \in Note : n \in ToSet(s) /\ t = RemoveFirst(s, n)
    BY <2>1, StepOfTheOrder
  <2>3. Chain(stack) = s /\ Chain(stack') = t
    BY <2>1, <2>2, ChainIs DEF Stands
  <2>4. Chain(stack)' = t
    BY <2>3
  <2>5. CASE t = s
    BY <2>3, <2>4, <2>5
  <2>6. CASE s # <<>> /\ t = <<>>
    <3>1. Order!Forget
      BY <2>3, <2>4, <2>6 DEF Order!Forget
    <3> QED BY <3>1 DEF Order!OrderNext
  <2>7. ASSUME NEW n \in Note, n \notin ToSet(s), t = <<n>> \o s
        PROVE  Order!OrderNext
    <3>1. Order!Add(n)
      BY <2>3, <2>4, <2>7, SameOperators DEF Order!Add
    <3> QED BY <3>1 DEF Order!OrderNext
  <2>8. ASSUME NEW n \in Note, n \in ToSet(s), t = RemoveFirst(s, n)
        PROVE  Order!OrderNext
    <3>1. Order!Drop(n)
      BY <2>3, <2>4, <2>8, SameOperators DEF Order!Drop
    <3> QED BY <3>1 DEF Order!OrderNext
  <2> QED BY <2>2, <2>5, <2>6, <2>7, <2>8
<1> QED BY <1>1, <1>2, ListInvHolds, PTL DEF ProxySpec, ImplementsNoteOrder, Order!OrderSpec
=============================================================================
