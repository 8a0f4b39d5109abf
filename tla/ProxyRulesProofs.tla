-------------------------- MODULE ProxyRulesProofs --------------------------
(***************************************************************************)
(* Proofs of ProxyRules' properties, for every set of zones, rules, edits  *)
(* and controller messages.  The handlers work on a record of what the     *)
(* starting and the ending of notes change, so most lemmas are about such  *)
(* a record v, with the rules and the zone of the current state.           *)
(***************************************************************************)
EXTENDS ProxyRules, StackLemmas

Members == ToSet(zone.member_channels)

Channel == ChannelsInUse \cup {INVALID_CHANNEL}

Controls == [ChannelsInUse -> [ControllerId -> Level \cup {Unset}]]

VoiceRecords ==
  [stack : Seq(Note), channel : UNION {[N -> ChannelsInUse] : N \in SUBSET Note},
   stats : [Sides -> [Picks -> Channel]], controls : Controls]

(***************************************************************************)
(* The held notes have distinct member channels, and the cached statistics *)
(* are theirs.                                                             *)
(***************************************************************************)
Consistent(v) ==
  /\ v \in VoiceRecords
  /\ Unique(v.stack)
  /\ v.channel \in [ToSet(v.stack) -> Members]
  /\ \A n, m \in ToSet(v.stack) : v.channel[n] = v.channel[m] => n = m
  /\ v.stats = AllStats(v.stack, v.channel)

\* the rules, the zone and the last inputs have their types
SettingsOK == /\ rules \in Seq(RuleSetting) /\ zone \in Zones
              /\ last_input_value \in [DOMAIN rules -> Level]

ChannelsOf(v) == {v.channel[n] : n \in ToSet(v.stack)}

TargetIn(v, i) == v.stats[rules[i].target.side][rules[i].target.pick]

Told(v, i, c) == v.controls[c][rules[i].out_cc]

InitialLevel(i) == Distort(rules[i], rules[i].init_value)

LastLevel(i) == Distort(rules[i], last_input_value[i])

(***************************************************************************)
(* What the rules have to do with the controllers: the parts of the        *)
(* inductive invariant.  Messages about a controller that no rule takes go *)
(* to the manager channel; while a rule with MIDI Learn takes any, there   *)
(* are no such messages.                                                   *)
(***************************************************************************)
CoveredOrLearning(i) == Covered(i) \/ \E j \in DOMAIN rules : rules[j].in_cc = "learn"

LastKept(v) ==
  \A i \in SingleRules("last") :
    TargetIn(v, i) # INVALID_CHANNEL => Told(v, i, TargetIn(v, i)) = LastLevel(i)

InitialKept(v) ==
  \A i \in SingleRules("init") :
    /\ \A c \in ChannelsOf(v) \ {TargetIn(v, i)} : Told(v, i, c) = InitialLevel(i)
    /\ TargetIn(v, i) # INVALID_CHANNEL =>
         Told(v, i, TargetIn(v, i)) \in {InitialLevel(i), LastLevel(i)}
    /\ rules[i].fallback /\ CoveredOrLearning(i) /\ v.stack # <<>> =>
         Told(v, i, zone.manager_channel) = InitialLevel(i)

HalfKept(v) ==
  \A i \in DOMAIN rules :
    Alone(i) /\ rules[i].target.pick = "all" /\ rules[i].reset # "off" =>
      \A n \in HalfNotes(v.stack, rules[i].target.side) :
        Told(v, i, v.channel[n]) = LastLevel(i)

GlobalKept(v) ==
  \A i \in DOMAIN rules :
    Alone(i) /\ CoveredOrLearning(i) /\ rules[i].target.pick = "global"
      /\ rules[i].reset # "off" =>
        Told(v, i, zone.manager_channel) = LastLevel(i)

\* unused member channels are queued once, and no note has them
FreeChannelsAreFree(v) ==
  /\ available_channels \in Seq(Members) /\ Unique(available_channels)
  /\ ToSet(available_channels) \cap ChannelsOf(v) = {}

Kept(v) ==
  /\ "notes" \notin unsettled => LastKept(v) /\ InitialKept(v) /\ HalfKept(v)
  /\ "global" \notin unsettled => GlobalKept(v)

MessagesOK ==
  /\ previous_controller_message \in [ControllerId -> {<<>>} \cup (TimeOffsets \X Level)]
  /\ unsettled \subseteq {"notes", "global"}

(***************************************************************************)
(* The inductive invariant.                                                *)
(***************************************************************************)
IInv == /\ SettingsOK /\ MessagesOK
        /\ Consistent(Voices) /\ FreeChannelsAreFree(Voices) /\ Kept(Voices)

-----------------------------------------------------------------------------
(* What pushing and removing a note does to a half and to its picks.       *)

(* Each note is on one side of the anchor. *)
LEMMA SideOfNote ==
  ASSUME NEW n
  PROVE  Side(n) \in {"above", "below"}
  BY DEF Side

LEMMA HalfPositions ==
  ASSUME NEW s \in Seq(Note), NEW side \in Sides
  PROVE  /\ Half(s, side) \in SUBSET (1..Len(s))
         /\ HalfNotes(s, side) = {n \in ToSet(s) : side \in {"any", Side(n)}}
         /\ HalfNotes(s, side) \in SUBSET Note
         /\ Half(s, side) = {} <=> HalfNotes(s, side) = {}
<1>1. ToSet(s) = {s[i] : i \in 1..Len(s)} /\ ToSet(s) \subseteq Note /\ DOMAIN s = 1..Len(s)
  BY ElementsOfSeq
<1>2. Half(s, side) = {i \in 1..Len(s) : side \in {"any", Side(s[i])}}
  BY <1>1 DEF Half
<1>3. HalfNotes(s, side) = {s[i] : i \in Half(s, side)}
  BY DEF HalfNotes
<1>4. HalfNotes(s, side) = {n \in ToSet(s) : side \in {"any", Side(n)}}
  BY <1>1, <1>2, <1>3
<1>5. Half(s, side) = {} <=> HalfNotes(s, side) = {}
  BY <1>3
<1> QED BY <1>1, <1>2, <1>4, <1>5

(* The picks of a half, by the least and greatest notes and positions. *)
LEMMA PicksOfHalf ==
  ASSUME NEW s \in Seq(Note), NEW side \in Sides, Half(s, side) # {}
  PROVE  LET picked == PickedNote(s, side)
             half == Half(s, side)
             notes == HalfNotes(s, side)
         IN  /\ picked["lowest"] = Min(notes) /\ picked["highest"] = Max(notes)
             /\ picked["oldest"] = s[Max(half)] /\ picked["newest"] = s[Min(half)]
             /\ Min(notes) \in notes /\ \A n \in notes : Min(notes) =< n
             /\ Max(notes) \in notes /\ \A n \in notes : n =< Max(notes)
             /\ Min(half) \in half /\ \A i \in half : Min(half) =< i
             /\ Max(half) \in half /\ \A i \in half : i =< Max(half)
<1> DEFINE half == Half(s, side)
           notes == HalfNotes(s, side)
<1>1. half \in SUBSET (1..Len(s)) /\ Len(s) \in Nat /\ notes \in SUBSET (0..127) /\ notes # {}
  <2>1. half \in SUBSET (1..Len(s)) /\ notes \in SUBSET Note /\ notes # {}
    BY HalfPositions
  <2>2. Len(s) \in Nat /\ Note \in SUBSET (0..127)
    BY NoteAssumption
  <2> QED BY <2>1, <2>2
<1>2. /\ PickedNote(s, side)["lowest"] = Min(notes) /\ PickedNote(s, side)["highest"] = Max(notes)
      /\ PickedNote(s, side)["oldest"] = s[Max(half)] /\ PickedNote(s, side)["newest"] = s[Min(half)]
  BY DEF PickedNote
<1>3. half # {}
  OBVIOUS
<1> HIDE DEF half, notes
<1>4. half \in SUBSET (0..Len(s)) /\ half \in SUBSET Nat /\ notes \in SUBSET Nat
  BY <1>1
<1>5. /\ Max(notes) \in notes /\ \A n \in notes : n =< Max(notes)
      /\ Max(half) \in half /\ \A i \in half : i =< Max(half)
  BY <1>1, <1>3, <1>4, MaxInRange, 127 \in Nat
<1>6. /\ Min(notes) \in notes /\ \A n \in notes : Min(notes) =< n
      /\ Min(half) \in half /\ \A i \in half : Min(half) =< i
  <2>1. /\ \E x \in notes : \A y \in notes : x =< y
        /\ \E x \in half : \A y \in half : x =< y
    BY <1>1, <1>3, <1>4, MinExists
  <2> QED BY <2>1 DEF Min
<1> QED BY <1>2, <1>5, <1>6 DEF half, notes

(* A pick is a note of its half. *)
LEMMA PickIsInHalf ==
  ASSUME NEW s \in Seq(Note), NEW side \in Sides, NEW pick \in Picks, Half(s, side) # {}
  PROVE  PickedNote(s, side)[pick] \in HalfNotes(s, side)
<1>1. \A i \in Half(s, side) : s[i] \in HalfNotes(s, side)
  BY DEF HalfNotes
<1> QED BY <1>1, PicksOfHalf DEF Picks

(***************************************************************************)
(* A note pushed in front joins its own half and the whole keyboard: there *)
(* it becomes the pick or leaves the pick alone.  The other half keeps its *)
(* picks.                                                                  *)
(***************************************************************************)
LEMMA PushPicks ==
  ASSUME NEW s \in Seq(Note), NEW n \in Note, NEW side \in Sides, NEW pick \in Picks
  PROVE  LET t == <<n>> \o s
         IN  /\ side \in {"any", Side(n)} =>
                  /\ HalfNotes(t, side) = HalfNotes(s, side) \cup {n}
                  /\ PickedNote(t, side)[pick] # n =>
                       /\ Half(s, side) # {}
                       /\ PickedNote(t, side)[pick] = PickedNote(s, side)[pick]
             /\ side \notin {"any", Side(n)} =>
                  /\ HalfNotes(t, side) = HalfNotes(s, side)
                  /\ Half(s, side) # {} =>
                       PickedNote(t, side)[pick] = PickedNote(s, side)[pick]
<1> DEFINE t == <<n>> \o s
           old == Half(s, side)
           new == Half(t, side)
           joins == side \in {"any", Side(n)}
<1>1. /\ t \in Seq(Note) /\ Len(t) = Len(s) + 1 /\ Len(s) \in Nat /\ ToSet(t) = ToSet(s) \cup {n}
      /\ t[1] = n /\ \A i \in 1..Len(s) : t[i + 1] = s[i]
  BY PushInFront
<1> HIDE DEF t
<1>2. /\ HalfNotes(t, side) = HalfNotes(s, side) \cup (IF joins THEN {n} ELSE {})
      /\ HalfNotes(s, side) \in SUBSET Note /\ HalfNotes(t, side) \in SUBSET Note
      /\ old = {} <=> HalfNotes(s, side) = {}
      /\ new = {} <=> HalfNotes(t, side) = {}
  <2>1. /\ HalfNotes(t, side) = {m \in ToSet(t) : side \in {"any", Side(m)}}
        /\ HalfNotes(s, side) = {m \in ToSet(s) : side \in {"any", Side(m)}}
        /\ HalfNotes(s, side) \in SUBSET Note /\ HalfNotes(t, side) \in SUBSET Note
        /\ old = {} <=> HalfNotes(s, side) = {}
        /\ new = {} <=> HalfNotes(t, side) = {}
    BY <1>1, HalfPositions
  <2> QED BY <1>1, <2>1
<1>3. /\ old \in SUBSET (1..Len(s)) /\ new \in SUBSET (1..Len(t))
      /\ 1 \in new <=> joins
      /\ \A i \in 1..Len(s) : i + 1 \in new <=> i \in old
  <2>1. old \in SUBSET (1..Len(s)) /\ new \in SUBSET (1..Len(t))
    BY <1>1, HalfPositions
  <2>2. DOMAIN t = 1..Len(t) /\ DOMAIN s = 1..Len(s)
    BY <1>1
  <2> QED BY <1>1, <2>1, <2>2 DEF Half
<1>4. \A j \in new : j = 1 \/ (j - 1 \in old /\ t[j] = s[j - 1])
  <2>1. TAKE j \in new
  <2>2. CASE j # 1
    <3>1. j - 1 \in 1..Len(s) /\ (j - 1) + 1 = j
      BY <1>1, <1>3, <2>2
    <3> QED BY <1>1, <1>3, <3>1
  <2> QED BY <2>2
<1>5. ASSUME old # {}, new # {}, PickedNote(t, side)[pick] # n
      PROVE  PickedNote(t, side)[pick] = PickedNote(s, side)[pick]
  <2> DEFINE p == PickedNote(s, side)
             q == PickedNote(t, side)
             N == HalfNotes(s, side)
             M == HalfNotes(t, side)
  <2>1. /\ p["lowest"] = Min(N) /\ p["highest"] = Max(N)
        /\ p["oldest"] = s[Max(old)] /\ p["newest"] = s[Min(old)]
        /\ Min(N) \in N /\ \A m \in N : Min(N) =< m
        /\ Max(N) \in N /\ \A m \in N : m =< Max(N)
        /\ Min(old) \in old /\ \A i \in old : Min(old) =< i
        /\ Max(old) \in old /\ \A i \in old : i =< Max(old)
    BY <1>5, PicksOfHalf
  <2>2. /\ q["lowest"] = Min(M) /\ q["highest"] = Max(M)
        /\ q["oldest"] = t[Max(new)] /\ q["newest"] = t[Min(new)]
        /\ Min(M) \in M /\ \A m \in M : Min(M) =< m
        /\ Max(M) \in M /\ \A m \in M : m =< Max(M)
        /\ Min(new) \in new /\ \A i \in new : Min(new) =< i
        /\ Max(new) \in new /\ \A i \in new : i =< Max(new)
    BY <1>1, <1>5, PicksOfHalf
  <2>3. M \in SUBSET Int /\ N \in SUBSET Int /\ N \subseteq M /\ M \subseteq N \cup {n}
    <3>1. Note \in SUBSET Int
      BY NoteAssumption
    <3> QED BY <1>2, <3>1
  <2>9. old \in SUBSET Int /\ new \in SUBSET Int /\ \A i \in old : i + 1 \in new
    BY <1>1, <1>3
  <2> HIDE DEF p, q, N, M, old, new
  <2>4. CASE pick = "lowest"
    <3>1. Min(M) \in N /\ \A m \in N : Min(M) =< m
      BY <1>5, <2>2, <2>3, <2>4 DEF q
    <3> QED BY <3>1, <2>1, <2>2, <2>3, <2>4, MinIs DEF p, q
  <2>5. CASE pick = "highest"
    <3>1. Max(M) \in N /\ \A m \in N : m =< Max(M)
      BY <1>5, <2>2, <2>3, <2>5 DEF q
    <3> QED BY <3>1, <2>1, <2>2, <2>3, <2>5, MaxIs DEF p, q
  <2>6. CASE pick = "oldest"
    <3>1. Max(new) # 1
      BY <1>1, <1>5, <2>2, <2>6 DEF q
    <3>2. Max(new) - 1 \in old /\ t[Max(new)] = s[Max(new) - 1]
      BY <1>4, <2>2, <3>1
    <3>3. \A i \in old : i =< Max(new) - 1
      <4>1. TAKE i \in old
      <4>2. i + 1 =< Max(new)
        BY <2>2, <2>9
      <4>3. i \in Int /\ Max(new) \in Int
        BY <2>2, <2>9
      <4> HIDE DEF Max
      <4> QED BY <4>2, <4>3
    <3>4. Max(old) = Max(new) - 1
      BY <3>2, <3>3, <2>9, MaxIs
    <3> QED BY <3>2, <3>4, <2>1, <2>2, <2>6 DEF p, q
  <2>7. CASE pick = "newest"
    <3>1. Min(new) # 1
      BY <1>1, <1>5, <2>2, <2>7 DEF q
    <3>2. Min(new) - 1 \in old /\ t[Min(new)] = s[Min(new) - 1]
      BY <1>4, <2>2, <3>1
    <3>3. \A i \in old : Min(new) - 1 =< i
      <4>1. TAKE i \in old
      <4>2. Min(new) =< i + 1
        BY <2>2, <2>9
      <4>3. i \in Int /\ Min(new) \in Int
        BY <2>2, <2>9
      <4> HIDE DEF Min
      <4> QED BY <4>2, <4>3
    <3>4. Min(old) = Min(new) - 1
      BY <3>2, <3>3, <2>9, MinIs
    <3> QED BY <3>2, <3>4, <2>1, <2>2, <2>7 DEF p, q
  <2> QED BY <2>4, <2>5, <2>6, <2>7 DEF Picks
<1>6. new # {} => PickedNote(t, side)[pick] \in HalfNotes(t, side)
  BY <1>1, PickIsInHalf
<1>7. CASE joins
  <2>1. ASSUME PickedNote(t, side)[pick] # n PROVE old # {}
    BY <1>2, <1>6, <1>7, <2>1
  <2> QED BY <1>2, <1>3, <1>5, <1>7, <2>1 DEF t
<1>8. CASE ~joins
  <2>1. ASSUME old # {} PROVE PickedNote(t, side)[pick] # n /\ new # {}
    <3>1. new # {} /\ HalfNotes(t, side) = {m \in ToSet(t) : side \in {"any", Side(m)}}
      BY <1>1, <1>2, <1>8, <2>1, HalfPositions
    <3>2. n \notin HalfNotes(t, side)
      BY <3>1, <1>8
    <3> QED BY <3>1, <3>2, <1>6
  <2> QED BY <1>2, <1>5, <1>8, <2>1 DEF t
<1> QED BY <1>7, <1>8

(***************************************************************************)
(* A removed note leaves its halves; a pick that was another note stays.   *)
(***************************************************************************)
LEMMA RemovePicks ==
  ASSUME NEW s \in Seq(Note), Unique(s), NEW n \in ToSet(s),
         NEW side \in Sides, NEW pick \in Picks
  PROVE  LET t == RemoveFirst(s, n)
         IN  /\ HalfNotes(t, side) = HalfNotes(s, side) \ {n}
             /\ Half(t, side) # {} => Half(s, side) # {}
             /\ Half(s, side) # {} /\ PickedNote(s, side)[pick] # n =>
                  /\ Half(t, side) # {}
                  /\ PickedNote(t, side)[pick] = PickedNote(s, side)[pick]
<1> DEFINE t == RemoveFirst(s, n)
           old == Half(s, side)
           new == Half(t, side)
           N == HalfNotes(s, side)
           M == HalfNotes(t, side)
           p == PickedNote(s, side)
           q == PickedNote(t, side)
<1>1. t \in Seq(Note) /\ Len(t) = Len(s) - 1 /\ Len(s) \in Nat /\ ToSet(t) = ToSet(s) \ {n}
  BY RemovedPosition, RemovePresent
<1>2. PICK k \in 1..Len(s) :
        /\ s[k] = n /\ \A i \in 1..Len(s) : i # k => s[i] # n
        /\ \A i \in 1..(k - 1) : t[i] = s[i]
        /\ \A i \in k..(Len(s) - 1) : t[i] = s[i + 1]
  BY RemovedPosition
<1> HIDE DEF t
<1>3. /\ M = N \ {n} /\ N \in SUBSET Note /\ M \in SUBSET Note
      /\ old = {} <=> N = {}
      /\ new = {} <=> M = {}
  <2>1. /\ M = {m \in ToSet(t) : side \in {"any", Side(m)}}
        /\ N = {m \in ToSet(s) : side \in {"any", Side(m)}}
        /\ N \in SUBSET Note /\ M \in SUBSET Note
        /\ old = {} <=> N = {}
        /\ new = {} <=> M = {}
    BY <1>1, HalfPositions
  <2> QED BY <1>1, <2>1
<1>4. old \in SUBSET (1..Len(s)) /\ new \in SUBSET (1..Len(t))
  BY <1>1, HalfPositions
<1>5. /\ \A j \in new : j < k => j \in old
      /\ \A j \in new : j >= k => j + 1 \in old
      /\ \A i \in old : i < k => i \in new /\ t[i] = s[i]
      /\ \A i \in old : i > k => i - 1 \in new /\ t[i - 1] = s[i]
  <2>1. DOMAIN t = 1..Len(t) /\ DOMAIN s = 1..Len(s)
    BY <1>1
  <2>2. /\ \A j \in 1..Len(t) : j \in new <=> side \in {"any", Side(t[j])}
        /\ \A i \in 1..Len(s) : i \in old <=> side \in {"any", Side(s[i])}
    BY <2>1 DEF Half
  <2>3. ASSUME NEW j \in new, j < k PROVE j \in old
    <3>1. j \in 1..(k - 1) /\ j \in 1..Len(s) /\ j \in 1..Len(t)
      BY <1>4, <1>1, <2>3
    <3> QED BY <3>1, <1>2, <2>2
  <2>4. ASSUME NEW j \in new, j >= k PROVE j + 1 \in old
    <3>1. j \in k..(Len(s) - 1) /\ j + 1 \in 1..Len(s) /\ j \in 1..Len(t)
      BY <1>4, <1>1, <2>4
    <3> QED BY <3>1, <1>2, <2>2
  <2>5. ASSUME NEW i \in old, i < k PROVE i \in new /\ t[i] = s[i]
    <3>1. i \in 1..(k - 1) /\ i \in 1..Len(s) /\ i \in 1..Len(t)
      BY <1>4, <1>1, <2>5
    <3> QED BY <3>1, <1>2, <2>2
  <2>6. ASSUME NEW i \in old, i > k PROVE i - 1 \in new /\ t[i - 1] = s[i]
    <3>1. i - 1 \in k..(Len(s) - 1) /\ i \in 1..Len(s) /\ i - 1 \in 1..Len(t) /\ (i - 1) + 1 = i
      BY <1>4, <1>1, <2>6
    <3> QED BY <3>1, <1>2, <2>2
  <2> QED BY <2>3, <2>4, <2>5, <2>6
<1>6. old # {} => p[pick] \in N
  BY PickIsInHalf
<1>7. ASSUME old # {}, p[pick] # n PROVE new # {} /\ q[pick] = p[pick]
  <2>1. new # {}
    BY <1>3, <1>6, <1>7
  <2>2. /\ p["lowest"] = Min(N) /\ p["highest"] = Max(N)
        /\ p["oldest"] = s[Max(old)] /\ p["newest"] = s[Min(old)]
        /\ Min(N) \in N /\ \A m \in N : Min(N) =< m
        /\ Max(N) \in N /\ \A m \in N : m =< Max(N)
        /\ Min(old) \in old /\ \A i \in old : Min(old) =< i
        /\ Max(old) \in old /\ \A i \in old : i =< Max(old)
    BY <1>7, PicksOfHalf
  <2>3. /\ q["lowest"] = Min(M) /\ q["highest"] = Max(M)
        /\ q["oldest"] = t[Max(new)] /\ q["newest"] = t[Min(new)]
    BY <1>1, <2>1, PicksOfHalf
  <2>4. M \in SUBSET Int /\ N \in SUBSET Int
    <3>1. Note \in SUBSET Int
      BY NoteAssumption
    <3> QED BY <1>3, <3>1
  <2>5. old \in SUBSET Int /\ new \in SUBSET Int /\ k \in Int
    BY <1>1, <1>4
  <2> HIDE DEF p, q, N, M, old, new
  <2>6. CASE pick = "lowest"
    <3>1. Min(N) \in M /\ \A m \in M : Min(N) =< m
      BY <1>3, <1>7, <2>2, <2>6 DEF p
    <3>2. Min(M) = Min(N)
      BY <3>1, <2>4, MinIs
    <3> QED BY <3>2, <2>1, <2>2, <2>3, <2>6 DEF p, q
  <2>7. CASE pick = "highest"
    <3>1. Max(N) \in M /\ \A m \in M : m =< Max(N)
      BY <1>3, <1>7, <2>2, <2>7 DEF p
    <3>2. Max(M) = Max(N)
      BY <3>1, <2>4, MaxIs
    <3> QED BY <3>2, <2>1, <2>2, <2>3, <2>7 DEF p, q
  <2>8. CASE pick = "oldest"
    <3> DEFINE i == Max(old)
               j == IF i < k THEN i ELSE i - 1
    <3>1. i \in old /\ i \in Int /\ i # k /\ \A l \in old : l =< i
      BY <1>2, <1>7, <2>2, <2>5, <2>8 DEF p
    <3> HIDE DEF i
    <3>2. j \in new /\ t[j] = s[i] /\ j \in Int
      BY <1>5, <2>5, <3>1
    <3>3. ASSUME NEW m \in new PROVE m =< j
      <4>1. m \in Int /\ (m < k => m =< i) /\ (m >= k => m + 1 =< i)
        BY <1>5, <2>5, <3>1
      <4> QED BY <4>1, <3>1, <2>5
    <3> HIDE DEF j
    <3>4. Max(new) = j
      BY <2>5, <3>2, <3>3, MaxIs
    <3> QED BY <2>2, <2>3, <2>8, <3>2, <3>4, <2>1 DEF p, q, i
  <2>9. CASE pick = "newest"
    <3> DEFINE i == Min(old)
               j == IF i < k THEN i ELSE i - 1
    <3>1. i \in old /\ i \in Int /\ i # k /\ \A l \in old : i =< l
      BY <1>2, <1>7, <2>2, <2>5, <2>9 DEF p
    <3> HIDE DEF i
    <3>2. j \in new /\ t[j] = s[i] /\ j \in Int
      BY <1>5, <2>5, <3>1
    <3>3. ASSUME NEW m \in new PROVE j =< m
      <4>1. m \in Int /\ (m < k => i =< m) /\ (m >= k => i =< m + 1)
        BY <1>5, <2>5, <3>1
      <4> QED BY <4>1, <3>1, <2>5
    <3> HIDE DEF j
    <3>4. Min(new) = j
      BY <2>5, <3>2, <3>3, MinIs
    <3> QED BY <2>2, <2>3, <2>9, <3>2, <3>4, <2>1 DEF p, q, i
  <2> QED BY <2>1, <2>6, <2>7, <2>8, <2>9 DEF Picks
<1> QED BY <1>3, <1>7 DEF t

-----------------------------------------------------------------------------
(* Channels and statistics. *)

(* The manager channel is not a member channel, and INVALID_CHANNEL is none. *)
LEMMA ChannelsOfZone ==
  ASSUME zone \in Zones
  PROVE  /\ Members \subseteq ChannelsInUse /\ zone.manager_channel \in ChannelsInUse
         /\ zone.manager_channel \notin Members
         /\ INVALID_CHANNEL \notin ChannelsInUse
         /\ zone.member_channels \in Seq(Members) /\ Unique(zone.member_channels)
<1>1. \A z \in Zones : /\ z.manager_channel \in {0, 15} /\ z.member_channels \in Seq(1..14)
                       /\ ToSet(z.member_channels) \subseteq 1..14
                       /\ IsInjective(z.member_channels)
  <2>1. \A z \in Zones : z \in Zone /\ IsInjective(z.member_channels)
    BY ZoneAssumption
  <2>2. \A z \in Zone : z.manager_channel \in {0, 15} /\ z.member_channels \in Seq(1..14)
    BY DEF Zone
  <2> QED BY <2>1, <2>2, ElementsOfSeq
<1>2. ChannelsInUse \subseteq 0..15
  <2>1. \A z \in Zones : {z.manager_channel} \cup ToSet(z.member_channels) \subseteq 0..15
    <3>1. TAKE z \in Zones
    <3>2. z.manager_channel \in {0, 15} /\ ToSet(z.member_channels) \subseteq 1..14
      BY <1>1
    <3>3. {0, 15} \subseteq 0..15 /\ 1..14 \subseteq 0..15
      OBVIOUS
    <3> QED BY <3>2, <3>3
  <2> QED BY <2>1 DEF ChannelsInUse
<1>3. Members \subseteq ChannelsInUse /\ zone.manager_channel \in ChannelsInUse
  BY DEF ChannelsInUse, Members
<1>4. zone.manager_channel \notin Members
  <2>1. zone.manager_channel \in {0, 15} /\ Members \subseteq 1..14
    BY <1>1 DEF Members
  <2> QED BY <2>1
<1>5. zone.member_channels \in Seq(Members)
  <2>1. zone.member_channels \in Seq(1..14)
    BY <1>1
  <2>2. \A i \in 1..Len(zone.member_channels) : zone.member_channels[i] \in Members
    BY <2>1 DEF Members, ToSet
  <2> QED BY <2>1, <2>2
<1>6. Unique(zone.member_channels)
  BY <1>1 DEF IsInjective, Unique
<1> QED BY <1>2, <1>3, <1>4, <1>5, <1>6 DEF INVALID_CHANNEL

(* A statistic is the channel of the pick, if the half has notes. *)
LEMMA StatIs ==
  ASSUME NEW s, NEW channel, NEW side \in Sides, NEW pick \in Picks
  PROVE  AllStats(s, channel)[side][pick]
           = IF Half(s, side) = {} THEN INVALID_CHANNEL
             ELSE channel[PickedNote(s, side)[pick]]
  BY DEF AllStats, MakeStats, NoStats

(* Statistics are equal when they are equal for each side and pick. *)
LEMMA StatsEqual ==
  ASSUME NEW s, NEW channel, NEW t, NEW other,
         \A side \in Sides, pick \in Picks :
           AllStats(s, channel)[side][pick] = AllStats(t, other)[side][pick]
  PROVE  AllStats(s, channel) = AllStats(t, other)
<1>1. \A side \in Sides : AllStats(s, channel)[side] = AllStats(t, other)[side]
  <2>1. TAKE side \in Sides
  <2>2. /\ AllStats(s, channel)[side] = [pick \in Picks |-> AllStats(s, channel)[side][pick]]
        /\ AllStats(t, other)[side] = [pick \in Picks |-> AllStats(t, other)[side][pick]]
    BY DEF AllStats, MakeStats, NoStats
  <2> HIDE DEF AllStats
  <2> QED BY <2>2
<1> QED BY <1>1 DEF AllStats

(* Statistics are channels of held notes. *)
LEMMA StatsAreChannels ==
  ASSUME NEW s \in Seq(Note), NEW channel \in [ToSet(s) -> Members]
  PROVE  /\ \A side \in Sides, pick \in Picks :
              AllStats(s, channel)[side][pick]
                \in {channel[n] : n \in ToSet(s)} \cup {INVALID_CHANNEL}
         /\ AllStats(s, channel) \in [Sides -> [Picks -> Members \cup {INVALID_CHANNEL}]]
<1>1. \A sd \in Sides, pk \in Picks :
        Half(s, sd) # {} => PickedNote(s, sd)[pk] \in ToSet(s)
  <2>1. \A sd \in Sides : HalfNotes(s, sd) \subseteq ToSet(s)
    BY HalfPositions
  <2> QED BY <2>1, PickIsInHalf
<1>2. \A sd \in Sides, pk \in Picks : AllStats(s, channel)[sd][pk] \in Members \cup {INVALID_CHANNEL}
  BY <1>1, StatIs
<1>3. AllStats(s, channel) \in [Sides -> [Picks -> Members \cup {INVALID_CHANNEL}]]
  <2>1. ASSUME NEW sd \in Sides
        PROVE  AllStats(s, channel)[sd] \in [Picks -> Members \cup {INVALID_CHANNEL}]
    <3>1. AllStats(s, channel)[sd] = [pk \in Picks |-> AllStats(s, channel)[sd][pk]]
      BY DEF AllStats, MakeStats, NoStats
    <3> QED BY <1>2, <3>1
  <2>2. AllStats(s, channel) = [sd \in Sides |-> AllStats(s, channel)[sd]]
    BY DEF AllStats
  <2> HIDE DEF AllStats
  <2> QED BY <2>1, <2>2
<1> QED BY <1>1, <1>3, StatIs

\* w is v with note n in front, on channel c
Begun(v, c, n, w) ==
  /\ w \in VoiceRecords
  /\ w.stack = <<n>> \o v.stack /\ w.controls = v.controls /\ w.stats = v.stats
  /\ ToSet(w.stack) = ToSet(v.stack) \cup {n} /\ Unique(w.stack)
  /\ w.channel \in [ToSet(w.stack) -> Members]
  /\ w.channel[n] = c /\ \A m \in ToSet(v.stack) : w.channel[m] = v.channel[m]
  /\ \A m, l \in ToSet(w.stack) : w.channel[m] = w.channel[l] => m = l

(***************************************************************************)
(* A note that begins on a free channel keeps the channels distinct.       *)
(***************************************************************************)
LEMMA BeginRecord ==
  ASSUME NEW v, Consistent(v), zone \in Zones,
         NEW c \in Members \ ChannelsOf(v), NEW n \in Note \ ToSet(v.stack)
  PROVE  Begun(v, c, n, Begin(v, c, n))
<1> DEFINE w == Begin(v, c, n)
           ch == [m \in ToSet(v.stack) \cup {n} |-> IF m = n THEN c ELSE v.channel[m]]
           t == <<n>> \o v.stack
<1>1. /\ v.stack \in Seq(Note) /\ Unique(v.stack) /\ v.channel \in [ToSet(v.stack) -> Members]
      /\ v.stats = AllStats(v.stack, v.channel)
      /\ \A m, l \in ToSet(v.stack) : v.channel[m] = v.channel[l] => m = l
      /\ \A m \in ToSet(v.stack) : v.channel[m] # c
  BY DEF Consistent, VoiceRecords, ChannelsOf
<1>2. w = [v EXCEPT !.stack = t, !.channel = ch]
  BY <1>1 DEF Begin
<1>3. w.stack = t /\ w.channel = ch /\ w.controls = v.controls /\ w.stats = v.stats
  BY <1>2 DEF Consistent, VoiceRecords
<1>4. t \in Seq(Note) /\ ToSet(t) = ToSet(v.stack) \cup {n} /\ Unique(t)
  BY <1>1, PushInFront
<1>5. /\ ch \in [ToSet(t) -> Members] /\ ch[n] = c
      /\ \A m \in ToSet(v.stack) : ch[m] = v.channel[m]
      /\ \A m, l \in ToSet(t) : ch[m] = ch[l] => m = l
  BY <1>1, <1>4
<1>6. w \in VoiceRecords
  <2>1. ch \in UNION {[N -> ChannelsInUse] : N \in SUBSET Note}
    <3>1. ToSet(t) \in SUBSET Note
      BY <1>4, ElementsOfSeq
    <3>2. ch \in [ToSet(t) -> ChannelsInUse]
      BY <1>5, ChannelsOfZone
    <3> QED BY <3>1, <3>2
  <2> QED BY <1>2, <1>4, <2>1 DEF Consistent, VoiceRecords
<1> HIDE DEF w, ch, t
<1> QED BY <1>3, <1>4, <1>5, <1>6 DEF Begun, w, t

(***************************************************************************)
(* Remaking the statistics of the new note's half makes all of them right; *)
(* each of them becomes the new note's channel or stays as it was.         *)
(***************************************************************************)
LEMMA BeginStats ==
  ASSUME NEW v, Consistent(v), zone \in Zones,
         NEW c \in Members \ ChannelsOf(v), NEW n \in Note \ ToSet(v.stack),
         NEW w, Begun(v, c, n, w)
  PROVE  /\ StatsOfHalf(w, n) = AllStats(w.stack, w.channel)
         /\ \A side \in Sides, pick \in Picks :
              AllStats(w.stack, w.channel)[side][pick] \in {c, v.stats[side][pick]}
<1> DEFINE ch == w.channel
           t == w.stack
<1>1. /\ v.stack \in Seq(Note) /\ v.channel \in [ToSet(v.stack) -> Members]
      /\ v.stats = AllStats(v.stack, v.channel)
  BY DEF Consistent, VoiceRecords
<1>2. t = <<n>> \o v.stack /\ w.stats = v.stats
  BY DEF Begun
<1>3. t \in Seq(Note) /\ ToSet(t) = ToSet(v.stack) \cup {n}
  BY <1>1, <1>2, PushInFront
<1>4. ch[n] = c /\ \A m \in ToSet(v.stack) : ch[m] = v.channel[m]
  BY DEF Begun
<1> HIDE DEF ch, t
<1>7. ASSUME NEW side \in Sides, NEW pick \in Picks
      PROVE  /\ AllStats(t, ch)[side][pick] \in {c, v.stats[side][pick]}
             /\ side \notin {"any", Side(n)} =>
                  AllStats(t, ch)[side][pick] = v.stats[side][pick]
  <2>1. v.stats[side][pick] = IF Half(v.stack, side) = {} THEN INVALID_CHANNEL
                              ELSE v.channel[PickedNote(v.stack, side)[pick]]
    BY <1>1, StatIs
  <2>2. AllStats(t, ch)[side][pick] = IF Half(t, side) = {} THEN INVALID_CHANNEL
                                      ELSE ch[PickedNote(t, side)[pick]]
    BY StatIs
  <2>3. /\ Half(t, side) = {} <=> HalfNotes(t, side) = {}
        /\ Half(v.stack, side) = {} <=> HalfNotes(v.stack, side) = {}
        /\ HalfNotes(v.stack, side) \subseteq ToSet(v.stack)
    BY <1>1, <1>3, HalfPositions
  <2>4. Half(v.stack, side) # {} => PickedNote(v.stack, side)[pick] \in ToSet(v.stack)
    BY <1>1, <2>3, PickIsInHalf
  <2>5. CASE side \in {"any", Side(n)}
    <3>1. /\ HalfNotes(t, side) = HalfNotes(v.stack, side) \cup {n}
          /\ PickedNote(t, side)[pick] # n =>
               /\ Half(v.stack, side) # {}
               /\ PickedNote(t, side)[pick] = PickedNote(v.stack, side)[pick]
      BY <1>1, <1>2, <2>5, PushPicks
    <3> QED BY <2>1, <2>2, <2>3, <2>4, <2>5, <3>1, <1>4
  <2>6. CASE side \notin {"any", Side(n)}
    <3>1. /\ HalfNotes(t, side) = HalfNotes(v.stack, side)
          /\ Half(v.stack, side) # {} =>
               PickedNote(t, side)[pick] = PickedNote(v.stack, side)[pick]
      BY <1>1, <1>2, <2>6, PushPicks
    <3> QED BY <2>1, <2>2, <2>3, <2>4, <3>1, <1>4
  <2> QED BY <2>5, <2>6
<1>8. StatsOfHalf(w, n) = AllStats(t, ch)
  <2>1. ASSUME NEW side \in Sides, side \notin {"any", Side(n)}
        PROVE  v.stats[side] = MakeStats(t, ch, side)
    <3>1. AllStats(t, ch)[side] = MakeStats(t, ch, side)
      BY DEF AllStats
    <3>2. /\ v.stats[side] = [pick \in Picks |-> v.stats[side][pick]]
          /\ AllStats(t, ch)[side] = [pick \in Picks |-> AllStats(t, ch)[side][pick]]
      BY <1>1 DEF AllStats, MakeStats, NoStats
    <3>3. \A pick \in Picks : v.stats[side][pick] = AllStats(t, ch)[side][pick]
      BY <1>7, <2>1
    <3> HIDE DEF AllStats
    <3> QED BY <3>1, <3>2, <3>3
  <2>2. StatsOfHalf(w, n) = [side \in Sides |-> IF side \in {"any", Side(n)}
                                                THEN MakeStats(t, ch, side) ELSE v.stats[side]]
    BY <1>2 DEF StatsOfHalf, t, ch
  <2> QED BY <2>1, <2>2 DEF AllStats
<1> QED BY <1>7, <1>8 DEF t, ch

(* Statistics look at the channels of held notes only. *)
LEMMA RestrictStats ==
  ASSUME NEW t \in Seq(Note), NEW channel
  PROVE  AllStats(t, channel) = AllStats(t, Restrict(channel, ToSet(t)))
<1> DEFINE ch == Restrict(channel, ToSet(t))
<1>1. \A m \in ToSet(t) : ch[m] = channel[m]
  BY DEF Restrict
<1> HIDE DEF ch
<1>2. ASSUME NEW side \in Sides, NEW pick \in Picks
      PROVE  AllStats(t, channel)[side][pick] = AllStats(t, ch)[side][pick]
  <2>1. Half(t, side) # {} => PickedNote(t, side)[pick] \in ToSet(t)
    BY HalfPositions, PickIsInHalf
  <2> QED BY <1>1, <2>1, StatIs
<1> QED BY <1>2, StatsEqual DEF ch

(***************************************************************************)
(* A statistic changes only when the note that ends was the pick.          *)
(***************************************************************************)
LEMMA EndStats ==
  ASSUME NEW s \in Seq(Note), Unique(s), NEW channel \in [ToSet(s) -> Members],
         NEW n \in ToSet(s)
  PROVE  LET t == RemoveFirst(s, n)
             ch == Restrict(channel, ToSet(t))
         IN  /\ t \in Seq(Note) /\ Unique(t) /\ ToSet(t) = ToSet(s) \ {n}
             /\ ch \in [ToSet(t) -> Members]
             /\ \A m \in ToSet(t) : ch[m] = channel[m]
             /\ AllStats(t, channel) = AllStats(t, ch)
             /\ \A side \in Sides, pick \in Picks :
                  AllStats(s, channel)[side][pick] \notin {INVALID_CHANNEL, channel[n]} =>
                    AllStats(t, ch)[side][pick] = AllStats(s, channel)[side][pick]
<1> DEFINE t == RemoveFirst(s, n)
           ch == Restrict(channel, ToSet(t))
<1>1. t \in Seq(Note) /\ Unique(t) /\ ToSet(t) = ToSet(s) \ {n}
  BY RemovePresent
<1>2. ch = [m \in ToSet(t) |-> channel[m]]
  BY DEF Restrict
<1>3. ch \in [ToSet(t) -> Members] /\ \A m \in ToSet(t) : ch[m] = channel[m]
  BY <1>1, <1>2
<1> HIDE DEF ch
<1>5. AllStats(t, channel) = AllStats(t, ch)
  BY <1>1, RestrictStats DEF ch
<1>6. ASSUME NEW side \in Sides, NEW pick \in Picks,
             AllStats(s, channel)[side][pick] \notin {INVALID_CHANNEL, channel[n]}
      PROVE  AllStats(t, ch)[side][pick] = AllStats(s, channel)[side][pick]
  <2>1. /\ Half(s, side) # {}
        /\ AllStats(s, channel)[side][pick] = channel[PickedNote(s, side)[pick]]
    BY <1>6, StatIs
  <2>2. PickedNote(s, side)[pick] # n
    BY <1>6, <2>1
  <2>3. Half(t, side) # {} /\ PickedNote(t, side)[pick] = PickedNote(s, side)[pick]
    BY <2>1, <2>2, RemovePicks
  <2>4. AllStats(t, channel)[side][pick] = channel[PickedNote(t, side)[pick]]
    <3> HIDE DEF t
    <3> QED BY <2>3, StatIs
  <2> QED BY <1>5, <2>1, <2>3, <2>4
<1> QED BY <1>1, <1>3, <1>5, <1>6 DEF ch

-----------------------------------------------------------------------------
(* What the rules send. *)

(* The parts of a rule. *)
LEMMA RuleParts ==
  ASSUME SettingsOK, NEW i \in DOMAIN rules
  PROVE  /\ rules[i] \in RuleSetting /\ rules[i].target \in Target
         /\ rules[i].init_value \in Level /\ rules[i].invert \in BOOLEAN
         /\ rules[i].target.side \in Sides
         /\ rules[i].target.pick \in Picks \cup {"all", "global"}
         /\ last_input_value[i] \in Level
<1>1. rules[i] \in RuleSetting /\ last_input_value[i] \in Level
  BY DEF SettingsOK
<1>2. rules[i].target \in Target /\ rules[i].init_value \in Level /\ rules[i].invert \in BOOLEAN
  BY <1>1 DEF RuleSetting
<1>3. ASSUME NEW t \in Target
      PROVE  t.side \in Sides /\ t.pick \in Picks \cup {"all", "global"}
  <2>1. \/ t \in [pick : Picks, side : Sides] \/ t \in [pick : {"all"}, side : {"below", "above"}]
        \/ t \in [pick : {"global"}, side : {"any"}]
    BY DEF Target
  <2> QED BY <2>1 DEF Sides
<1> QED BY <1>1, <1>2, <1>3

(* Distorted levels and reset values are levels. *)
LEMMA DistortLevel ==
  ASSUME NEW rule \in RuleSetting, NEW level \in Level
  PROVE  Distort(rule, level) \in Level
  BY DEF Distort, Level, RuleSetting

LEMMA ResetLevels ==
  ASSUME SettingsOK
  PROVE  /\ ResetValues(last_input_value) \in [DOMAIN rules -> Level]
         /\ \A i \in DOMAIN rules : InitialLevel(i) \in Level /\ LastLevel(i) \in Level
         /\ \A i \in DOMAIN rules :
              ResetValues(last_input_value)[i]
                = IF rules[i].reset = "last" \/ rules[i].target.pick = "all"
                  THEN LastLevel(i) ELSE InitialLevel(i)
<1>1. ASSUME NEW i \in DOMAIN rules
      PROVE  InitialLevel(i) \in Level /\ LastLevel(i) \in Level
  BY RuleParts, DistortLevel DEF InitialLevel, LastLevel
<1>2. \A i \in DOMAIN rules :
        ResetValues(last_input_value)[i]
          = IF rules[i].reset = "last" \/ rules[i].target.pick = "all"
            THEN LastLevel(i) ELSE InitialLevel(i)
  BY DEF ResetValues, ResetValue, InitialLevel, LastLevel
<1>3. ResetValues(last_input_value)
        = [i \in DOMAIN rules |-> ResetValues(last_input_value)[i]]
  BY DEF ResetValues
<1> HIDE DEF ResetValues
<1> QED BY <1>1, <1>2, <1>3

(***************************************************************************)
(* A sequence of sends: the receiver stays well-formed, and a rule that is *)
(* alone decides what its controller is on the channels it sends to.       *)
(***************************************************************************)
LEMMA Sent ==
  ASSUME SettingsOK, NEW told \in Controls, NEW to, NEW level \in [DOMAIN rules -> Level]
  PROVE  /\ SendByRules(told, to, level) \in Controls
         /\ \A i \in DOMAIN rules, c \in ChannelsInUse :
              Alone(i) =>
                SendByRules(told, to, level)[c][rules[i].out_cc]
                  = IF c \in to[i] THEN level[i] ELSE told[c][rules[i].out_cc]
<1> DEFINE senders(c, cc) == {i \in DOMAIN rules : rules[i].out_cc = cc /\ c \in to[i]}
           result == SendByRules(told, to, level)
<1>1. DOMAIN told = ChannelsInUse
      /\ \A c \in ChannelsInUse, cc \in ControllerId : told[c][cc] \in Level \cup {Unset}
  BY DEF Controls
<1>2. result = [c \in ChannelsInUse |-> [cc \in ControllerId |->
                 IF senders(c, cc) = {} THEN told[c][cc] ELSE level[Max(senders(c, cc))]]]
  BY <1>1 DEF SendByRules
<1>3. ASSUME NEW c, NEW cc, senders(c, cc) # {}
      PROVE  Max(senders(c, cc)) \in senders(c, cc)
  <2>1. Len(rules) \in Nat /\ DOMAIN rules = 1..Len(rules)
    BY DEF SettingsOK
  <2>2. senders(c, cc) \in SUBSET (0..Len(rules))
    BY <2>1
  <2> HIDE DEF senders
  <2> QED BY <1>3, <2>1, <2>2, MaxInRange
<1>4. ASSUME NEW c \in ChannelsInUse, NEW cc \in ControllerId
      PROVE  (IF senders(c, cc) = {} THEN told[c][cc] ELSE level[Max(senders(c, cc))])
               \in Level \cup {Unset}
  <2>1. CASE senders(c, cc) = {}
    BY <1>1, <2>1
  <2>2. CASE senders(c, cc) # {}
    <3>1. Max(senders(c, cc)) \in DOMAIN rules
      BY <1>3, <2>2
    <3>2. level[Max(senders(c, cc))] \in Level
      BY <3>1
    <3> HIDE DEF senders
    <3> QED BY <2>2, <3>2
  <2> QED BY <2>1, <2>2
<1>5. result \in Controls
  <2> HIDE DEF senders, result
  <2> QED BY <1>2, <1>4 DEF Controls
<1>6. ASSUME NEW i \in DOMAIN rules, NEW c \in ChannelsInUse, Alone(i)
      PROVE  result[c][rules[i].out_cc]
               = IF c \in to[i] THEN level[i] ELSE told[c][rules[i].out_cc]
  <2> DEFINE cc == rules[i].out_cc
  <2>1. cc \in ControllerId /\ \A j \in DOMAIN rules : rules[j].out_cc = cc => j = i
    BY <1>6 DEF Alone
  <2>2. senders(c, cc) = IF c \in to[i] THEN {i} ELSE {}
    BY <2>1
  <2>3. result[c][cc] = IF senders(c, cc) = {} THEN told[c][cc] ELSE level[Max(senders(c, cc))]
    BY <1>2, <2>1
  <2>4. senders(c, cc) # {} => Max(senders(c, cc)) \in senders(c, cc)
    BY <1>3
  <2> HIDE DEF senders, cc, result
  <2> QED BY <2>2, <2>3, <2>4 DEF cc
<1> QED BY <1>5, <1>6

(***************************************************************************)
(* Sending the same levels again changes nothing where the same rules send *)
(* to a channel as before, or none does.                                   *)
(***************************************************************************)
LEMMA SentAgain ==
  ASSUME SettingsOK, NEW told \in Controls, NEW to, NEW again,
         NEW level \in [DOMAIN rules -> Level],
         \A c \in ChannelsInUse : \/ \A i \in DOMAIN rules : c \notin again[i]
                                  \/ \A i \in DOMAIN rules : c \in again[i] <=> c \in to[i]
  PROVE  SendByRules(SendByRules(told, to, level), again, level) = SendByRules(told, to, level)
<1> DEFINE senders(where, c, cc) == {i \in DOMAIN rules : rules[i].out_cc = cc /\ c \in where[i]}
           once == SendByRules(told, to, level)
           twice == SendByRules(once, again, level)
<1>1. DOMAIN told = ChannelsInUse
  BY DEF Controls
<1>2. once = [c \in ChannelsInUse |-> [cc \in ControllerId |->
               IF senders(to, c, cc) = {} THEN told[c][cc] ELSE level[Max(senders(to, c, cc))]]]
  BY <1>1 DEF SendByRules
<1>3. DOMAIN once = ChannelsInUse
  BY <1>2
<1> HIDE DEF once
<1>4. twice = [c \in ChannelsInUse |-> [cc \in ControllerId |->
                IF senders(again, c, cc) = {} THEN once[c][cc]
                ELSE level[Max(senders(again, c, cc))]]]
  BY <1>3 DEF SendByRules
<1>5. ASSUME NEW c \in ChannelsInUse, NEW cc \in ControllerId
      PROVE  (IF senders(again, c, cc) = {} THEN once[c][cc]
              ELSE level[Max(senders(again, c, cc))]) = once[c][cc]
  <2>1. CASE \A i \in DOMAIN rules : c \notin again[i]
    <3>1. senders(again, c, cc) = {}
      BY <2>1
    <3> HIDE DEF senders
    <3> QED BY <3>1
  <2>2. CASE \A i \in DOMAIN rules : c \in again[i] <=> c \in to[i]
    <3>1. senders(again, c, cc) = senders(to, c, cc)
      BY <2>2
    <3> HIDE DEF senders
    <3>2. once[c][cc] = IF senders(to, c, cc) = {} THEN told[c][cc]
                        ELSE level[Max(senders(to, c, cc))]
      BY <1>2
    <3> QED BY <3>1, <3>2
  <2> QED BY <2>1, <2>2
<1>6. once = [c \in ChannelsInUse |-> [cc \in ControllerId |-> once[c][cc]]]
  <2> HIDE DEF senders
  <2> QED BY <1>2
<1>7. twice = once
  <2> HIDE DEF senders, twice
  <2> QED BY <1>4, <1>5, <1>6
<1> QED BY <1>7 DEF once

(* Outdated targets are channels of notes. *)
LEMMA OutdatedIsTaken ==
  ASSUME SettingsOK, NEW v, Consistent(v), NEW b, NEW i \in DOMAIN rules
  PROVE  OutdatedTarget(i, v.stats, b) \subseteq ChannelsOf(v)
<1>1. v.stack \in Seq(Note) /\ v.channel \in [ToSet(v.stack) -> Members]
      /\ v.stats = AllStats(v.stack, v.channel)
  BY DEF Consistent, VoiceRecords
<1>2. \A side \in Sides, pick \in Picks :
        v.stats[side][pick] \in ChannelsOf(v) \cup {INVALID_CHANNEL}
  BY <1>1, StatsAreChannels DEF ChannelsOf
<1> QED BY <1>2, RuleParts DEF OutdatedTarget

(***************************************************************************)
(* What BeforeNoteOn and PushNoteOn make of a consistent record, when note *)
(* n begins on a free channel: the second sequence of set-ups is idle.     *)
(***************************************************************************)
LEMMA SetUpOnce ==
  ASSUME SettingsOK, NEW v, Consistent(v),
         NEW c \in Members \ ChannelsOf(v), NEW n \in Note \ ToSet(v.stack)
  PROVE  LET w == Begin(v, c, n)
             stats == AllStats(w.stack, w.channel)
             outdated == [i \in DOMAIN rules |-> OutdatedTarget(i, v.stats, stats) \ {c}]
             p == PushNoteOn(v, c, n)
         IN  /\ p \in VoiceRecords
             /\ p.stack = w.stack /\ p.channel = w.channel /\ p.stats = stats
             /\ p.controls = SetUpNote(v.controls, c, n, v.stack = <<>>, outdated)
             /\ p.controls = BeforeNoteOn(v, c, n).controls
<1> DEFINE w == Begin(v, c, n)
           stats == AllStats(w.stack, w.channel)
           outdated == [i \in DOMAIN rules |-> OutdatedTarget(i, v.stats, stats) \ {c}]
           none == [i \in DOMAIN rules |-> {}]
           first == v.stack = <<>>
           b == BeforeNoteOn(v, c, n)
           p == PushNoteOn(v, c, n)
           to(out) == [i \in DOMAIN rules |->
                         IF NeedsReset(rules[i], Side(n))
                         THEN {c} \cup out[i]
                                \cup (IF first /\ rules[i].fallback
                                      THEN {zone.manager_channel} ELSE {})
                         ELSE {}]
           level == ResetValues(last_input_value)
           once == SendByRules(v.controls, to(outdated), level)
<1>1. zone \in Zones
  BY DEF SettingsOK
<1>2. /\ w \in VoiceRecords /\ w.controls = v.controls
      /\ StatsOfHalf(w, n) = stats
      /\ w.stack \in Seq(Note) /\ w.channel \in [ToSet(w.stack) -> Members]
  <2>1. Begun(v, c, n, w)
    BY <1>1, BeginRecord
  <2>2. StatsOfHalf(w, n) = AllStats(w.stack, w.channel)
    BY <1>1, <2>1, BeginStats
  <2> HIDE DEF w
  <2> QED BY <2>1, <2>2 DEF Begun, VoiceRecords
<1>3. stats \in [Sides -> [Picks -> Channel]]
  <2>1. stats \in [Sides -> [Picks -> Members \cup {INVALID_CHANNEL}]]
    <3> HIDE DEF w
    <3> QED BY <1>2, StatsAreChannels
  <2>2. Members \cup {INVALID_CHANNEL} \subseteq Channel
    BY <1>1, ChannelsOfZone DEF Channel
  <2> HIDE DEF stats
  <2> QED BY <2>1, <2>2
<1>4. v.controls \in Controls /\ level \in [DOMAIN rules -> Level]
  BY ResetLevels DEF Consistent, VoiceRecords
<1>5. b = [w EXCEPT !.stats = stats, !.controls = once]
  <2>1. b = [w EXCEPT !.stats = StatsOfHalf(w, n),
                      !.controls = SetUpNote(@, c, n, first,
                        [i \in DOMAIN rules |->
                           OutdatedTarget(i, v.stats, StatsOfHalf(w, n)) \ {c}])]
    BY DEF BeforeNoteOn
  <2>2. SetUpNote(v.controls, c, n, first, outdated) = once
    BY DEF SetUpNote
  <2> HIDE DEF w, once
  <2> QED BY <1>2, <2>1, <2>2
<1>6. once \in Controls
  <2> HIDE DEF to, level
  <2> QED BY <1>4, Sent
<1>7. /\ b \in VoiceRecords /\ b.stack = w.stack /\ b.channel = w.channel
      /\ b.stats = stats /\ b.controls = once
  <2> HIDE DEF b, w, stats, once
  <2> QED BY <1>2, <1>3, <1>5, <1>6 DEF VoiceRecords
<1>8. p = [b EXCEPT !.controls = SendByRules(@, to(none), level)]
  BY DEF PushNoteOn, SetUpNote
<1>9. SendByRules(once, to(none), level) = once
  <2>1. \A i \in DOMAIN rules : outdated[i] \subseteq Members
    <3>1. ChannelsOf(v) \subseteq Members
      BY DEF Consistent, ChannelsOf
    <3> QED BY <3>1, OutdatedIsTaken
  <2>2. zone.manager_channel \notin Members
    BY <1>1, ChannelsOfZone
  <2> HIDE DEF outdated
  <2>3. ASSUME NEW d \in ChannelsInUse
        PROVE  \/ \A i \in DOMAIN rules : d \notin to(none)[i]
               \/ \A i \in DOMAIN rules : d \in to(none)[i] <=> d \in to(outdated)[i]
    <3>1. CASE d \notin {c, zone.manager_channel}
      BY <3>1
    <3>2. CASE d = c
      BY <3>2
    <3>3. CASE d = zone.manager_channel
      BY <2>1, <2>2, <3>3
    <3> QED BY <3>1, <3>2, <3>3
  <2> HIDE DEF to, level
  <2> QED BY <1>4, <2>3, SentAgain
<1>10. /\ p \in VoiceRecords /\ p.stack = b.stack /\ p.channel = b.channel
       /\ p.stats = b.stats /\ p.controls = once
  <2> HIDE DEF p, b, w, stats, once, to, level
  <2>1. p = [b EXCEPT !.controls = once]
    BY <1>7, <1>8, <1>9
  <2> QED BY <1>6, <1>7, <2>1 DEF VoiceRecords
<1>11. SetUpNote(v.controls, c, n, first, outdated) = once
  BY DEF SetUpNote
<1> QED BY <1>7, <1>10, <1>11

-----------------------------------------------------------------------------
(* What the start and the end of a note do, as far as the rules tell apart. *)

\* p is v after note n began on the free channel c
Started(v, c, n, p) ==
  /\ Consistent(p)
  /\ p.stack = <<n>> \o v.stack /\ ToSet(p.stack) = ToSet(v.stack) \cup {n}
  /\ p.channel[n] = c /\ \A m \in ToSet(v.stack) : p.channel[m] = v.channel[m]
  /\ \A side \in Sides, pick \in Picks : p.stats[side][pick] \in {c, v.stats[side][pick]}
  /\ \A i \in DOMAIN rules, d \in ChannelsInUse :
       Alone(i) =>
         Told(p, i, d)
           = IF /\ NeedsReset(rules[i], Side(n))
                /\ \/ d = c \/ d \in OutdatedTarget(i, v.stats, p.stats)
                   \/ v.stack = <<>> /\ rules[i].fallback /\ d = zone.manager_channel
             THEN ResetValues(last_input_value)[i] ELSE Told(v, i, d)

\* p is v after note n ended
Ended(v, n, p) ==
  /\ Consistent(p)
  /\ ToSet(p.stack) = ToSet(v.stack) \ {n} /\ p.stack = RemoveFirst(v.stack, n)
  /\ \A m \in ToSet(p.stack) : p.channel[m] = v.channel[m]
  /\ \A side \in Sides, pick \in Picks :
       v.stats[side][pick] \notin {INVALID_CHANNEL, v.channel[n]} =>
         p.stats[side][pick] = v.stats[side][pick]
  /\ \A i \in DOMAIN rules, d \in ChannelsInUse :
       Alone(i) =>
         Told(p, i, d)
           = IF NeedsReset(rules[i], Side(n)) /\ d \in OutdatedTarget(i, p.stats, v.stats)
             THEN ResetValues(last_input_value)[i] ELSE Told(v, i, d)

LEMMA PushNoteOnStarts ==
  ASSUME SettingsOK, NEW v, Consistent(v),
         NEW c \in Members \ ChannelsOf(v), NEW n \in Note \ ToSet(v.stack)
  PROVE  Started(v, c, n, PushNoteOn(v, c, n))
<1> DEFINE w == Begin(v, c, n)
           stats == AllStats(w.stack, w.channel)
           outdated == [i \in DOMAIN rules |-> OutdatedTarget(i, v.stats, stats) \ {c}]
           p == PushNoteOn(v, c, n)
           to == [i \in DOMAIN rules |->
                    IF NeedsReset(rules[i], Side(n))
                    THEN {c} \cup outdated[i]
                           \cup (IF v.stack = <<>> /\ rules[i].fallback
                                 THEN {zone.manager_channel} ELSE {})
                    ELSE {}]
           level == ResetValues(last_input_value)
<1>1. zone \in Zones
  BY DEF SettingsOK
<1>2. Begun(v, c, n, w)
  BY <1>1, BeginRecord
<1>3. \A side \in Sides, pick \in Picks : stats[side][pick] \in {c, v.stats[side][pick]}
  BY <1>1, <1>2, BeginStats
<1>4. /\ p \in VoiceRecords
      /\ p.stack = w.stack /\ p.channel = w.channel /\ p.stats = stats
      /\ p.controls = SetUpNote(v.controls, c, n, v.stack = <<>>, outdated)
  BY SetUpOnce
<1> HIDE DEF w, p
<1>5. Consistent(p)
  BY <1>2, <1>4 DEF Begun, Consistent
<1>6. p.controls = SendByRules(v.controls, to, level)
  BY <1>4 DEF SetUpNote
<1>7. v.controls \in Controls /\ level \in [DOMAIN rules -> Level]
  BY ResetLevels DEF Consistent, VoiceRecords
<1>8. ASSUME NEW i \in DOMAIN rules, NEW d \in ChannelsInUse, Alone(i)
      PROVE  Told(p, i, d)
               = IF /\ NeedsReset(rules[i], Side(n))
                    /\ \/ d = c \/ d \in OutdatedTarget(i, v.stats, p.stats)
                       \/ v.stack = <<>> /\ rules[i].fallback /\ d = zone.manager_channel
                 THEN level[i] ELSE Told(v, i, d)
  <2>1. d \in to[i] <=> /\ NeedsReset(rules[i], Side(n))
                        /\ \/ d = c \/ d \in OutdatedTarget(i, v.stats, p.stats)
                           \/ v.stack = <<>> /\ rules[i].fallback /\ d = zone.manager_channel
    <3> HIDE DEF stats
    <3> QED BY <1>4
  <2> HIDE DEF to, level
  <2>2. SendByRules(v.controls, to, level)[d][rules[i].out_cc]
          = IF d \in to[i] THEN level[i] ELSE v.controls[d][rules[i].out_cc]
    BY <1>7, <1>8, Sent
  <2> QED BY <1>6, <2>1, <2>2 DEF Told
<1>9. /\ p.stack = <<n>> \o v.stack /\ ToSet(p.stack) = ToSet(v.stack) \cup {n}
      /\ p.channel[n] = c /\ \A m \in ToSet(v.stack) : p.channel[m] = v.channel[m]
  BY <1>2, <1>4 DEF Begun
<1>10. \A side \in Sides, pick \in Picks : p.stats[side][pick] \in {c, v.stats[side][pick]}
  BY <1>3, <1>4
<1> QED BY <1>5, <1>8, <1>9, <1>10 DEF Started, p

LEMMA PushNoteOffEnds ==
  ASSUME SettingsOK, NEW v, Consistent(v), NEW n \in ToSet(v.stack)
  PROVE  Ended(v, n, PushNoteOff(v, n))
<1> DEFINE t == RemoveFirst(v.stack, n)
           ch == Restrict(v.channel, ToSet(t))
           stats == AllStats(t, v.channel)
           to == [i \in DOMAIN rules |-> IF NeedsReset(rules[i], Side(n))
                                         THEN OutdatedTarget(i, stats, v.stats) ELSE {}]
           level == ResetValues(last_input_value)
           told == SendByRules(v.controls, to, level)
           p == PushNoteOff(v, n)
<1>1. /\ v \in VoiceRecords /\ v.stack \in Seq(Note) /\ Unique(v.stack)
      /\ v.channel \in [ToSet(v.stack) -> Members] /\ v.stats = AllStats(v.stack, v.channel)
      /\ \A m, l \in ToSet(v.stack) : v.channel[m] = v.channel[l] => m = l
      /\ v.controls \in Controls
  BY DEF Consistent, VoiceRecords
<1>2. p = [v EXCEPT !.stack = t, !.stats = stats, !.channel = ch, !.controls = told]
  BY <1>1 DEF PushNoteOff
<1>3. /\ t \in Seq(Note) /\ Unique(t) /\ ToSet(t) = ToSet(v.stack) \ {n}
      /\ ch \in [ToSet(t) -> Members]
      /\ \A m \in ToSet(t) : ch[m] = v.channel[m]
  BY <1>1, EndStats
<1>4. stats = AllStats(t, ch)
  BY <1>1, EndStats
<1>5. \A side \in Sides, pick \in Picks :
        v.stats[side][pick] \notin {INVALID_CHANNEL, v.channel[n]} =>
          stats[side][pick] = v.stats[side][pick]
  <2>1. \A side \in Sides, pick \in Picks :
          AllStats(v.stack, v.channel)[side][pick] \notin {INVALID_CHANNEL, v.channel[n]} =>
            AllStats(t, ch)[side][pick] = AllStats(v.stack, v.channel)[side][pick]
    BY <1>1, EndStats
  <2> QED BY <1>1, <1>4, <2>1
<1>6. stats \in [Sides -> [Picks -> Channel]] /\ ch \in UNION {[N -> ChannelsInUse] : N \in SUBSET Note}
  <2>1. Members \subseteq ChannelsInUse
    BY ChannelsOfZone DEF SettingsOK
  <2>2. AllStats(t, ch) \in [Sides -> [Picks -> Members \cup {INVALID_CHANNEL}]]
    <3> HIDE DEF t, ch
    <3> QED BY <1>3, StatsAreChannels
  <2>3. stats \in [Sides -> [Picks -> Channel]]
    <3> HIDE DEF t, ch, stats
    <3> QED BY <1>4, <2>1, <2>2 DEF Channel
  <2>4. ToSet(t) \in SUBSET Note
    BY <1>3, ElementsOfSeq
  <2>5. ch \in [ToSet(t) -> ChannelsInUse]
    <3> HIDE DEF t, ch
    <3> QED BY <1>3, <2>1
  <2> QED BY <2>3, <2>4, <2>5
<1>7. level \in [DOMAIN rules -> Level]
  BY ResetLevels
<1>8. told \in Controls
  <2> HIDE DEF to, level
  <2> QED BY <1>1, <1>7, Sent
<1> HIDE DEF p, t, ch, stats, told
<1>9. /\ p \in VoiceRecords /\ p.stack = t /\ p.channel = ch /\ p.stats = stats
      /\ p.controls = told
  BY <1>1, <1>2, <1>3, <1>6, <1>8 DEF VoiceRecords
<1>10. Consistent(p)
  BY <1>1, <1>3, <1>4, <1>9 DEF Consistent
<1>11. ASSUME NEW i \in DOMAIN rules, NEW d \in ChannelsInUse, Alone(i)
       PROVE  Told(p, i, d)
                = IF NeedsReset(rules[i], Side(n)) /\ d \in OutdatedTarget(i, p.stats, v.stats)
                  THEN level[i] ELSE Told(v, i, d)
  <2>1. d \in to[i] <=> /\ NeedsReset(rules[i], Side(n))
                        /\ d \in OutdatedTarget(i, p.stats, v.stats)
    BY <1>9
  <2> HIDE DEF to, level
  <2>2. told[d][rules[i].out_cc]
          = IF d \in to[i] THEN level[i] ELSE v.controls[d][rules[i].out_cc]
    BY <1>1, <1>7, <1>11, Sent DEF told
  <2> QED BY <1>9, <2>1, <2>2 DEF Told
<1>12. /\ ToSet(p.stack) = ToSet(v.stack) \ {n} /\ p.stack = RemoveFirst(v.stack, n)
       /\ \A m \in ToSet(p.stack) : p.channel[m] = v.channel[m]
  BY <1>3, <1>9 DEF t
<1>13. \A side \in Sides, pick \in Picks :
         v.stats[side][pick] \notin {INVALID_CHANNEL, v.channel[n]} =>
           p.stats[side][pick] = v.stats[side][pick]
  BY <1>5, <1>9
<1> QED BY <1>10, <1>11, <1>12, <1>13 DEF Ended, p

(* The target of a rule for single notes is the channel of a note, or none. *)
LEMMA TargetIsTaken ==
  ASSUME SettingsOK, NEW v, Consistent(v)
  PROVE  /\ ChannelsOf(v) \subseteq Members /\ Members \subseteq ChannelsInUse
         /\ zone.manager_channel \notin Members /\ INVALID_CHANNEL \notin ChannelsInUse
         /\ zone.manager_channel \in ChannelsInUse
         /\ \A i \in DOMAIN rules :
              rules[i].target.pick \in Picks =>
                TargetIn(v, i) \in ChannelsOf(v) \cup {INVALID_CHANNEL}
<1>1. ChannelsOf(v) \subseteq Members
  BY DEF Consistent, ChannelsOf
<1>2. ASSUME NEW i \in DOMAIN rules, rules[i].target.pick \in Picks
      PROVE  TargetIn(v, i) \in ChannelsOf(v) \cup {INVALID_CHANNEL}
  <2>1. /\ v.stack \in Seq(Note) /\ v.channel \in [ToSet(v.stack) -> Members]
        /\ v.stats = AllStats(v.stack, v.channel)
    BY DEF Consistent, VoiceRecords
  <2>2. \A side \in Sides, pick \in Picks :
          v.stats[side][pick] \in {v.channel[n] : n \in ToSet(v.stack)} \cup {INVALID_CHANNEL}
    BY <2>1, StatsAreChannels
  <2> QED BY <1>2, <2>2, RuleParts DEF TargetIn, ChannelsOf
<1> QED BY <1>1, <1>2, ChannelsOfZone DEF SettingsOK

(* Targets that are no more, and which events reset a rule. *)
LEMMA ResetsOfRule ==
  ASSUME SettingsOK, NEW i \in DOMAIN rules, rules[i].reset # "off", NEW n
  PROVE  /\ rules[i].target.pick \in Picks =>
              /\ NeedsReset(rules[i], Side(n))
              /\ \A a, b : OutdatedTarget(i, a.stats, b.stats)
                             = {TargetIn(a, i)} \ {TargetIn(b, i), INVALID_CHANNEL}
         /\ rules[i].target.pick = "all" =>
              /\ NeedsReset(rules[i], Side(n)) <=> rules[i].target.side = Side(n)
              /\ \A a, b : OutdatedTarget(i, a, b) = {}
         /\ rules[i].target.pick = "global" => ~NeedsReset(rules[i], Side(n))
  BY DEF NeedsReset, OutdatedTarget, TargetIn, Picks

LEMMA ChannelsWhenStarted ==
  ASSUME NEW v, NEW c, NEW n, NEW p, Started(v, c, n, p)
  PROVE  ChannelsOf(p) = ChannelsOf(v) \cup {c}
  BY DEF Started, ChannelsOf

LEMMA ChannelsWhenEnded ==
  ASSUME NEW v, Consistent(v), NEW n \in ToSet(v.stack), NEW p, Ended(v, n, p)
  PROVE  ChannelsOf(p) = ChannelsOf(v) \ {v.channel[n]}
<1>1. \A m, l \in ToSet(v.stack) : v.channel[m] = v.channel[l] => m = l
  BY DEF Consistent
<1>2. /\ ToSet(p.stack) = ToSet(v.stack) \ {n}
      /\ \A m \in ToSet(p.stack) : p.channel[m] = v.channel[m]
  BY DEF Ended
<1> QED BY <1>1, <1>2 DEF ChannelsOf

(* Rules that send the last value. *)
LEMMA LastKeptByStart ==
  ASSUME SettingsOK, NEW v, Consistent(v), LastKept(v),
         NEW c \in Members \ ChannelsOf(v), NEW n \in Note, NEW p, Started(v, c, n, p)
  PROVE  LastKept(p)
<1> SUFFICES ASSUME NEW i \in SingleRules("last"), TargetIn(p, i) # INVALID_CHANNEL
             PROVE  Told(p, i, TargetIn(p, i)) = LastLevel(i)
  BY DEF LastKept
<1> DEFINE d == TargetIn(p, i)
<1>1. /\ i \in DOMAIN rules /\ Alone(i) /\ rules[i].target.pick \in Picks
      /\ rules[i].reset = "last" /\ rules[i].reset # "off"
  BY DEF SingleRules
<1>2. NeedsReset(rules[i], Side(n)) /\ ResetValues(last_input_value)[i] = LastLevel(i)
  BY <1>1, ResetsOfRule, ResetLevels
<1>3. Consistent(p)
  BY DEF Started
<1>4. d \in ChannelsInUse
  BY <1>1, <1>3, TargetIsTaken
<1>5. d \in {c, TargetIn(v, i)}
  BY <1>1, RuleParts DEF Started, TargetIn
<1>6. /\ d = c => Told(p, i, d) = LastLevel(i)
      /\ Told(p, i, d) \in {LastLevel(i), Told(v, i, d)}
  BY <1>1, <1>2, <1>4 DEF Started
<1>7. d # c => Told(v, i, d) = LastLevel(i)
  BY <1>5 DEF LastKept
<1> QED BY <1>6, <1>7

LEMMA LastKeptByEnd ==
  ASSUME SettingsOK, NEW v, Consistent(v), LastKept(v),
         NEW n \in ToSet(v.stack), NEW p, Ended(v, n, p)
  PROVE  LastKept(p)
<1> SUFFICES ASSUME NEW i \in SingleRules("last"), TargetIn(p, i) # INVALID_CHANNEL
             PROVE  Told(p, i, TargetIn(p, i)) = LastLevel(i)
  BY DEF LastKept
<1> DEFINE d == TargetIn(p, i)
<1>1. /\ i \in DOMAIN rules /\ Alone(i) /\ rules[i].target.pick \in Picks
      /\ rules[i].reset = "last" /\ rules[i].reset # "off"
  BY DEF SingleRules
<1>2. /\ NeedsReset(rules[i], Side(n)) /\ ResetValues(last_input_value)[i] = LastLevel(i)
      /\ OutdatedTarget(i, p.stats, v.stats) = {d} \ {TargetIn(v, i), INVALID_CHANNEL}
  BY <1>1, ResetsOfRule, ResetLevels
<1>3. Consistent(p)
  BY DEF Ended
<1>4. d \in ChannelsInUse
  BY <1>1, <1>3, TargetIsTaken
<1>5. Told(p, i, d) = IF d # TargetIn(v, i) THEN LastLevel(i) ELSE Told(v, i, d)
  BY <1>1, <1>2, <1>4 DEF Ended
<1>6. d = TargetIn(v, i) => Told(v, i, d) = LastLevel(i)
  BY DEF LastKept
<1> QED BY <1>5, <1>6

(* Rules that send the initial value. *)
LEMMA InitialKeptByStart ==
  ASSUME SettingsOK, NEW v, Consistent(v), InitialKept(v),
         NEW c \in Members \ ChannelsOf(v), NEW n \in Note, NEW p, Started(v, c, n, p)
  PROVE  InitialKept(p)
<1> SUFFICES ASSUME NEW i \in SingleRules("init")
             PROVE  /\ \A d \in ChannelsOf(p) \ {TargetIn(p, i)} : Told(p, i, d) = InitialLevel(i)
                    /\ TargetIn(p, i) # INVALID_CHANNEL =>
                         Told(p, i, TargetIn(p, i)) \in {InitialLevel(i), LastLevel(i)}
                    /\ rules[i].fallback /\ CoveredOrLearning(i) /\ p.stack # <<>> =>
                         Told(p, i, zone.manager_channel) = InitialLevel(i)
  BY DEF InitialKept
<1> DEFINE a == TargetIn(p, i)
           b == TargetIn(v, i)
<1>1. /\ i \in DOMAIN rules /\ Alone(i) /\ rules[i].target.pick \in Picks
      /\ rules[i].reset = "init" /\ rules[i].reset # "off" /\ rules[i].target.pick # "all"
  BY DEF SingleRules, Picks
<1>2. /\ NeedsReset(rules[i], Side(n)) /\ ResetValues(last_input_value)[i] = InitialLevel(i)
      /\ OutdatedTarget(i, v.stats, p.stats) = {b} \ {a, INVALID_CHANNEL}
  BY <1>1, ResetsOfRule, ResetLevels
<1>3. Consistent(p) /\ a \in {c, b}
  BY <1>1, RuleParts DEF Started, TargetIn
<1>4. /\ ChannelsOf(p) \subseteq ChannelsInUse /\ zone.manager_channel \in ChannelsInUse
      /\ a \in ChannelsInUse \cup {INVALID_CHANNEL} /\ INVALID_CHANNEL \notin ChannelsInUse
  BY <1>1, <1>3, TargetIsTaken
<1>5. \A d \in ChannelsInUse :
        Told(p, i, d) = IF \/ d = c \/ (d = b /\ d # a /\ d # INVALID_CHANNEL)
                           \/ v.stack = <<>> /\ rules[i].fallback /\ d = zone.manager_channel
                        THEN InitialLevel(i) ELSE Told(v, i, d)
  BY <1>1, <1>2 DEF Started
<1>6. /\ \A d \in ChannelsOf(v) \ {b} : Told(v, i, d) = InitialLevel(i)
      /\ b # INVALID_CHANNEL => Told(v, i, b) \in {InitialLevel(i), LastLevel(i)}
      /\ rules[i].fallback /\ CoveredOrLearning(i) /\ v.stack # <<>> =>
           Told(v, i, zone.manager_channel) = InitialLevel(i)
  BY DEF InitialKept
<1>7. ChannelsOf(p) = ChannelsOf(v) \cup {c}
  BY ChannelsWhenStarted
<1> HIDE DEF a, b
<1>8. ASSUME NEW d \in ChannelsOf(p) \ {a} PROVE Told(p, i, d) = InitialLevel(i)
  BY <1>4, <1>5, <1>6, <1>7
<1>9. a # INVALID_CHANNEL => Told(p, i, a) \in {InitialLevel(i), LastLevel(i)}
  BY <1>3, <1>4, <1>5, <1>6
<1>10. rules[i].fallback /\ CoveredOrLearning(i) =>
         Told(p, i, zone.manager_channel) = InitialLevel(i)
  BY <1>4, <1>5, <1>6
<1> QED BY <1>8, <1>9, <1>10 DEF a

LEMMA InitialKeptByEnd ==
  ASSUME SettingsOK, NEW v, Consistent(v), InitialKept(v),
         NEW n \in ToSet(v.stack), NEW p, Ended(v, n, p)
  PROVE  InitialKept(p)
<1> SUFFICES ASSUME NEW i \in SingleRules("init")
             PROVE  /\ \A d \in ChannelsOf(p) \ {TargetIn(p, i)} : Told(p, i, d) = InitialLevel(i)
                    /\ TargetIn(p, i) # INVALID_CHANNEL =>
                         Told(p, i, TargetIn(p, i)) \in {InitialLevel(i), LastLevel(i)}
                    /\ rules[i].fallback /\ CoveredOrLearning(i) /\ p.stack # <<>> =>
                         Told(p, i, zone.manager_channel) = InitialLevel(i)
  BY DEF InitialKept
<1> DEFINE a == TargetIn(p, i)
           b == TargetIn(v, i)
<1>1. /\ i \in DOMAIN rules /\ Alone(i) /\ rules[i].target.pick \in Picks
      /\ rules[i].reset = "init" /\ rules[i].reset # "off" /\ rules[i].target.pick # "all"
  BY DEF SingleRules, Picks
<1>2. /\ NeedsReset(rules[i], Side(n)) /\ ResetValues(last_input_value)[i] = InitialLevel(i)
      /\ OutdatedTarget(i, p.stats, v.stats) = {a} \ {b, INVALID_CHANNEL}
  BY <1>1, ResetsOfRule, ResetLevels
<1>3. Consistent(p) /\ (b \notin {INVALID_CHANNEL, v.channel[n]} => a = b)
  BY <1>1, RuleParts DEF Ended, TargetIn
<1>4. /\ ChannelsOf(p) \subseteq Members /\ Members \subseteq ChannelsInUse
      /\ zone.manager_channel \in ChannelsInUse /\ zone.manager_channel \notin Members
      /\ a \in ChannelsOf(p) \cup {INVALID_CHANNEL} /\ INVALID_CHANNEL \notin ChannelsInUse
  BY <1>1, <1>3, TargetIsTaken
<1>5. \A d \in ChannelsInUse :
        Told(p, i, d) = IF d = a /\ d # b THEN InitialLevel(i) ELSE Told(v, i, d)
  BY <1>1, <1>2, <1>4 DEF Ended
<1>6. /\ \A d \in ChannelsOf(v) \ {b} : Told(v, i, d) = InitialLevel(i)
      /\ b # INVALID_CHANNEL => Told(v, i, b) \in {InitialLevel(i), LastLevel(i)}
      /\ rules[i].fallback /\ CoveredOrLearning(i) /\ v.stack # <<>> =>
           Told(v, i, zone.manager_channel) = InitialLevel(i)
  BY DEF InitialKept
<1>7. ChannelsOf(p) = ChannelsOf(v) \ {v.channel[n]}
  BY ChannelsWhenEnded
<1>8. v.stack # <<>>
  BY DEF ToSet
<1> HIDE DEF a, b
<1>9. ASSUME NEW d \in ChannelsOf(p) \ {a} PROVE Told(p, i, d) = InitialLevel(i)
  BY <1>3, <1>4, <1>5, <1>6, <1>7
<1>10. a # INVALID_CHANNEL => Told(p, i, a) \in {InitialLevel(i), LastLevel(i)}
  BY <1>4, <1>5, <1>6
<1>11. rules[i].fallback /\ CoveredOrLearning(i) =>
         Told(p, i, zone.manager_channel) = InitialLevel(i)
  BY <1>4, <1>5, <1>6, <1>8
<1> QED BY <1>9, <1>10, <1>11 DEF a

(* Rules for all notes of a half. *)
LEMMA HalfKeptByStart ==
  ASSUME SettingsOK, NEW v, Consistent(v), HalfKept(v),
         NEW c \in Members \ ChannelsOf(v), NEW n \in Note, NEW p, Started(v, c, n, p)
  PROVE  HalfKept(p)
<1> SUFFICES ASSUME NEW i \in DOMAIN rules, Alone(i), rules[i].target.pick = "all",
                    rules[i].reset # "off",
                    NEW m \in HalfNotes(p.stack, rules[i].target.side)
             PROVE  Told(p, i, p.channel[m]) = LastLevel(i)
  BY DEF HalfKept
<1> DEFINE side == rules[i].target.side
<1>1. /\ p.stack \in Seq(Note) /\ v.stack \in Seq(Note) /\ side \in Sides
      /\ p.channel \in [ToSet(p.stack) -> Members]
  BY RuleParts DEF Started, Consistent, VoiceRecords
<1>2. /\ HalfNotes(p.stack, side) = {l \in ToSet(p.stack) : side \in {"any", Side(l)}}
      /\ HalfNotes(v.stack, side) = {l \in ToSet(v.stack) : side \in {"any", Side(l)}}
  BY <1>1, HalfPositions
<1>3. /\ ToSet(p.stack) = ToSet(v.stack) \cup {n}
      /\ p.channel[n] = c /\ \A l \in ToSet(v.stack) : p.channel[l] = v.channel[l]
  BY DEF Started
<1>4. ResetValues(last_input_value)[i] = LastLevel(i) /\ side # "any"
      /\ (NeedsReset(rules[i], Side(n)) <=> side = Side(n))
  <2>1. side # "any"
    BY RuleParts DEF Target, Picks
  <2> QED BY <2>1, ResetLevels, ResetsOfRule
<1>5. p.channel[m] \in ChannelsInUse
  BY <1>1, <1>2, TargetIsTaken
<1>6. \A d \in ChannelsInUse :
        /\ Told(p, i, d) \in {LastLevel(i), Told(v, i, d)}
        /\ d = c /\ side = Side(n) => Told(p, i, d) = LastLevel(i)
  BY <1>4 DEF Started
<1>7. \A l \in HalfNotes(v.stack, side) : Told(v, i, v.channel[l]) = LastLevel(i)
  BY DEF HalfKept
<1> HIDE DEF side
<1> QED BY <1>2, <1>3, <1>4, <1>5, <1>6, <1>7 DEF side

LEMMA HalfKeptByEnd ==
  ASSUME SettingsOK, NEW v, Consistent(v), HalfKept(v),
         NEW n \in ToSet(v.stack), NEW p, Ended(v, n, p)
  PROVE  HalfKept(p)
<1> SUFFICES ASSUME NEW i \in DOMAIN rules, Alone(i), rules[i].target.pick = "all",
                    rules[i].reset # "off",
                    NEW m \in HalfNotes(p.stack, rules[i].target.side)
             PROVE  Told(p, i, p.channel[m]) = LastLevel(i)
  BY DEF HalfKept
<1> DEFINE side == rules[i].target.side
<1>1. /\ p.stack \in Seq(Note) /\ v.stack \in Seq(Note) /\ side \in Sides
      /\ p.channel \in [ToSet(p.stack) -> Members]
  BY RuleParts DEF Ended, Consistent, VoiceRecords
<1>2. /\ HalfNotes(p.stack, side) = {l \in ToSet(p.stack) : side \in {"any", Side(l)}}
      /\ HalfNotes(v.stack, side) = {l \in ToSet(v.stack) : side \in {"any", Side(l)}}
  BY <1>1, HalfPositions
<1>3. /\ ToSet(p.stack) = ToSet(v.stack) \ {n}
      /\ \A l \in ToSet(p.stack) : p.channel[l] = v.channel[l]
  BY DEF Ended
<1>4. OutdatedTarget(i, p.stats, v.stats) = {}
  BY ResetsOfRule
<1>5. p.channel[m] \in ChannelsInUse
  BY <1>1, <1>2, TargetIsTaken
<1>6. \A d \in ChannelsInUse : Told(p, i, d) = Told(v, i, d)
  BY <1>4 DEF Ended
<1>7. \A l \in HalfNotes(v.stack, side) : Told(v, i, v.channel[l]) = LastLevel(i)
  BY DEF HalfKept
<1> HIDE DEF side
<1> QED BY <1>2, <1>3, <1>5, <1>6, <1>7 DEF side

(* Global rules. *)
LEMMA GlobalKeptByStart ==
  ASSUME SettingsOK, NEW v, Consistent(v), GlobalKept(v),
         NEW c, NEW n \in Note, NEW p, Started(v, c, n, p)
  PROVE  GlobalKept(p)
<1>1. ASSUME NEW i \in DOMAIN rules, Alone(i), rules[i].target.pick = "global",
             rules[i].reset # "off"
      PROVE  Told(p, i, zone.manager_channel) = Told(v, i, zone.manager_channel)
  BY <1>1, ResetsOfRule, TargetIsTaken DEF Started
<1> QED BY <1>1 DEF GlobalKept

LEMMA GlobalKeptByEnd ==
  ASSUME SettingsOK, NEW v, Consistent(v), GlobalKept(v),
         NEW n \in ToSet(v.stack), NEW p, Ended(v, n, p)
  PROVE  GlobalKept(p)
<1>1. ASSUME NEW i \in DOMAIN rules, Alone(i), rules[i].target.pick = "global",
             rules[i].reset # "off"
      PROVE  Told(p, i, zone.manager_channel) = Told(v, i, zone.manager_channel)
  BY <1>1, ResetsOfRule, TargetIsTaken DEF Ended
<1> QED BY <1>1 DEF GlobalKept

-----------------------------------------------------------------------------
(* What is true of a record stays true while its context does.             *)

LEMMA AnchorUnchanged ==
  ASSUME zone' = zone, NEW s, NEW channel
  PROVE  /\ \A side \in Sides : /\ Half(s, side)' = Half(s, side)
                                /\ HalfNotes(s, side)' = HalfNotes(s, side)
         /\ AllStats(s, channel)' = AllStats(s, channel)
<1>1. ASSUME NEW side \in Sides PROVE Half(s, side)' = Half(s, side)
  BY DEF Half, Side
<1>2. ASSUME NEW side \in Sides PROVE HalfNotes(s, side)' = HalfNotes(s, side)
  BY <1>1 DEF HalfNotes
<1>3. ASSUME NEW side \in Sides PROVE PickedNote(s, side)' = PickedNote(s, side)
  BY <1>1, <1>2 DEF PickedNote
<1>4. ASSUME NEW side \in Sides PROVE MakeStats(s, channel, side)' = MakeStats(s, channel, side)
  BY <1>1, <1>3 DEF MakeStats, NoStats
<1>5. AllStats(s, channel)' = AllStats(s, channel)
  BY <1>4 DEF AllStats
<1> QED BY <1>1, <1>2, <1>5

LEMMA ConsistentUnchanged ==
  ASSUME zone' = zone, NEW v, Consistent(v)
  PROVE  Consistent(v)'
<1>1. AllStats(v.stack, v.channel)' = AllStats(v.stack, v.channel)
  BY AnchorUnchanged
<1> QED BY <1>1 DEF Consistent, Members

LEMMA KeptUnchanged ==
  ASSUME UNCHANGED <<rules, zone, last_input_value>>, NEW v
  PROVE  /\ LastKept(v) => LastKept(v)'
         /\ InitialKept(v) => InitialKept(v)'
         /\ HalfKept(v) => HalfKept(v)'
         /\ GlobalKept(v) => GlobalKept(v)'
<1>1. /\ \A i : LastLevel(i)' = LastLevel(i) /\ InitialLevel(i)' = InitialLevel(i)
      /\ \A i : (Alone(i) <=> Alone(i)') /\ (CoveredOrLearning(i) <=> CoveredOrLearning(i)')
      /\ \A i : TargetIn(v, i)' = TargetIn(v, i)
      /\ \A i, c : Told(v, i, c)' = Told(v, i, c)
  BY DEF LastLevel, InitialLevel, Distort, Alone, CoveredOrLearning, Covered, TargetIn, Told
<1>3. rules' = rules /\ zone' = zone
  OBVIOUS
<1>4. LastKept(v) => LastKept(v)'
  BY <1>1, <1>3 DEF LastKept, SingleRules
<1>5. InitialKept(v) => InitialKept(v)'
  BY <1>1, <1>3 DEF InitialKept, SingleRules, ChannelsOf
<1>6. HalfKept(v) => HalfKept(v)'
  <2> SUFFICES ASSUME HalfKept(v), NEW i \in DOMAIN rules, Alone(i),
                      rules[i].target.pick = "all", rules[i].reset # "off",
                      NEW n \in HalfNotes(v.stack, rules[i].target.side)'
               PROVE  Told(v, i, v.channel[n])' = LastLevel(i)'
    BY <1>1, <1>3 DEF HalfKept
  <2>1. n \in HalfNotes(v.stack, rules[i].target.side)
    BY <1>3 DEF HalfNotes, Half, Side
  <2> QED BY <1>1, <2>1 DEF HalfKept
<1>7. GlobalKept(v) => GlobalKept(v)'
  BY <1>1, <1>3 DEF GlobalKept
<1> QED BY <1>4, <1>5, <1>6, <1>7

-----------------------------------------------------------------------------
(* The notes' actions. *)

LEMMA VoicesFields ==
  /\ Voices.stack = note_stack /\ Voices.channel = channels_by_notes
  /\ Voices.stats = channel_stats /\ Voices.controls = controls
  BY DEF Voices

LEMMA Becoming ==
  ASSUME NEW p \in VoiceRecords, Become(p)
  PROVE  Voices' = p
  BY DEF Become, Voices, VoiceRecords

(* Without notes there is nothing to keep but the global rules. *)
LEMMA EmptyKept ==
  ASSUME SettingsOK, NEW v, Consistent(v), v.stack = <<>>
  PROVE  LastKept(v) /\ InitialKept(v) /\ HalfKept(v)
<1>1. /\ v.stack \in Seq(Note) /\ v.channel \in [ToSet(v.stack) -> Members]
      /\ ToSet(v.stack) = {}
  BY DEF Consistent, VoiceRecords, ToSet
<1>2. \A i \in DOMAIN rules :
        rules[i].target.pick \in Picks => TargetIn(v, i) = INVALID_CHANNEL
  <2>1. ChannelsOf(v) = {}
    BY <1>1 DEF ChannelsOf
  <2> QED BY <2>1, TargetIsTaken
<1>3. LastKept(v)
  BY <1>2 DEF LastKept, SingleRules
<1>4. InitialKept(v)
  BY <1>1, <1>2 DEF InitialKept, SingleRules, ChannelsOf
<1>5. HalfKept(v)
  <2>1. \A side \in Sides : HalfNotes(v.stack, side) = {}
    BY <1>1, HalfPositions
  <2> QED BY <2>1, RuleParts DEF HalfKept
<1> QED BY <1>3, <1>4, <1>5

(***************************************************************************)
(* A step of the notes' actions: the record p that they arrive at is what  *)
(* the invariant asks for, and nothing else that it reads has changed.     *)
(***************************************************************************)
LEMMA NotesStep ==
  ASSUME SettingsOK, MessagesOK, NEW p, Consistent(p), Become(p), SetUpUnchanged, Settle,
         Kept(p), FreeChannelsAreFree(p)'
  PROVE  IInv'
<1>1. UNCHANGED <<rules, zone, last_input_value, previous_controller_message>>
  BY DEF SetUpUnchanged
<1>2. p \in VoiceRecords /\ Voices' = p
  BY Becoming DEF Consistent
<1>3. SettingsOK' /\ MessagesOK'
  BY <1>1 DEF SettingsOK, MessagesOK, Settle
<1>4. Consistent(p)'
  BY <1>1, ConsistentUnchanged
<1>5. Kept(p)'
  <2>1. /\ LastKept(p) => LastKept(p)'
        /\ InitialKept(p) => InitialKept(p)'
        /\ HalfKept(p) => HalfKept(p)'
        /\ GlobalKept(p) => GlobalKept(p)'
    BY <1>1, KeptUnchanged
  <2>2. CASE unsettled' = unsettled
    BY <2>1, <2>2 DEF Kept
  <2>3. CASE note_stack' = <<>>
    <3>1. LastKept(p) /\ InitialKept(p) /\ HalfKept(p)
      BY <2>3, EmptyKept DEF Become
    <3>2. "global" \notin unsettled' => "global" \notin unsettled
      BY DEF Settle
    <3> QED BY <2>1, <3>1, <3>2 DEF Kept
  <2> QED BY <2>2, <2>3 DEF Settle
<1> QED BY <1>2, <1>3, <1>4, <1>5 DEF IInv

(* What a start and an end keep, as one predicate. *)
LEMMA KeptByStart ==
  ASSUME SettingsOK, NEW v, Consistent(v), Kept(v),
         NEW c \in Members \ ChannelsOf(v), NEW n \in Note, NEW p, Started(v, c, n, p)
  PROVE  Consistent(p) /\ Kept(p)
<1>1. Consistent(p)
  BY DEF Started
<1>2. /\ LastKept(v) => LastKept(p)
      /\ InitialKept(v) => InitialKept(p)
      /\ HalfKept(v) => HalfKept(p)
      /\ GlobalKept(v) => GlobalKept(p)
  BY LastKeptByStart, InitialKeptByStart, HalfKeptByStart, GlobalKeptByStart
<1> QED BY <1>1, <1>2 DEF Kept

LEMMA KeptByEnd ==
  ASSUME SettingsOK, NEW v, Consistent(v), Kept(v), NEW n \in ToSet(v.stack),
         NEW p, Ended(v, n, p)
  PROVE  Consistent(p) /\ Kept(p)
<1>1. Consistent(p)
  BY DEF Ended
<1>2. /\ LastKept(v) => LastKept(p)
      /\ InitialKept(v) => InitialKept(p)
      /\ HalfKept(v) => HalfKept(p)
      /\ GlobalKept(v) => GlobalKept(p)
  BY LastKeptByEnd, InitialKeptByEnd, HalfKeptByEnd, GlobalKeptByEnd
<1> QED BY <1>1, <1>2 DEF Kept

LEMMA AllocateKeeps ==
  ASSUME IInv, NEW n \in Note, Allocate(n)
  PROVE  IInv'
<1> DEFINE c == Head(available_channels)
<1>1. PICK p : p = PushNoteOn(Voices, c, n)
  OBVIOUS
<1>2. /\ available_channels \in Seq(Members) /\ available_channels # <<>>
      /\ Unique(available_channels) /\ ToSet(available_channels) \cap ChannelsOf(Voices) = {}
      /\ SettingsOK /\ MessagesOK /\ Consistent(Voices) /\ Kept(Voices)
      /\ n \notin ToSet(Voices.stack)
  BY VoicesFields DEF IInv, FreeChannelsAreFree, Allocate, Held
<1>3. /\ c \in ToSet(available_channels) /\ c \in Members
      /\ available_channels' \in Seq(Members) /\ Unique(available_channels')
      /\ ToSet(available_channels') = ToSet(available_channels) \ {c}
  BY <1>2, Dequeue DEF Allocate
<1>4. c \in Members \ ChannelsOf(Voices)
  BY <1>2, <1>3
<1> HIDE DEF c
<1>5. Started(Voices, c, n, p)
  BY <1>1, <1>2, <1>4, PushNoteOnStarts
<1>6. Consistent(p) /\ Kept(p)
  BY <1>2, <1>4, <1>5, KeptByStart
<1>7. ChannelsOf(p) = ChannelsOf(Voices) \cup {c}
  BY <1>5, ChannelsWhenStarted
<1>8. zone' = zone /\ Become(p) /\ SetUpUnchanged /\ Settle
  BY <1>1 DEF Allocate, SetUpUnchanged, c
<1>9. FreeChannelsAreFree(p)'
  <2>1. Members' = Members /\ ChannelsOf(p)' = ChannelsOf(p)
    BY <1>8 DEF Members, ChannelsOf
  <2> QED BY <1>2, <1>3, <1>7, <2>1 DEF FreeChannelsAreFree
<1> QED BY <1>2, <1>6, <1>8, <1>9, NotesStep

LEMMA ReleaseKeeps ==
  ASSUME IInv, NEW n \in Note, Release(n)
  PROVE  IInv'
<1> DEFINE c == channels_by_notes[n]
<1>1. PICK p : p = PushNoteOff(Voices, n)
  OBVIOUS
<1>2. /\ available_channels \in Seq(Members)
      /\ Unique(available_channels) /\ ToSet(available_channels) \cap ChannelsOf(Voices) = {}
      /\ SettingsOK /\ MessagesOK /\ Consistent(Voices) /\ Kept(Voices)
      /\ n \in ToSet(Voices.stack)
  BY VoicesFields DEF IInv, FreeChannelsAreFree, Release, Held
<1>3. c = Voices.channel[n] /\ c \in ChannelsOf(Voices) /\ c \in Members
  BY <1>2, VoicesFields DEF Consistent, ChannelsOf
<1>4. /\ available_channels' \in Seq(Members) /\ Unique(available_channels')
      /\ ToSet(available_channels') = ToSet(available_channels) \cup {c}
  BY <1>2, <1>3, AppendNew DEF Release
<1>5. Ended(Voices, n, p)
  BY <1>1, <1>2, PushNoteOffEnds
<1>6. Consistent(p) /\ Kept(p)
  BY <1>2, <1>5, KeptByEnd
<1>7. ChannelsOf(p) = ChannelsOf(Voices) \ {c}
  BY <1>2, <1>3, <1>5, ChannelsWhenEnded
<1>8. zone' = zone /\ Become(p) /\ SetUpUnchanged /\ Settle
  BY <1>1 DEF Release, SetUpUnchanged
<1>9. FreeChannelsAreFree(p)'
  <2>1. Members' = Members /\ ChannelsOf(p)' = ChannelsOf(p)
    BY <1>8 DEF Members, ChannelsOf
  <2> QED BY <1>2, <1>4, <1>7, <2>1 DEF FreeChannelsAreFree
<1> QED BY <1>2, <1>6, <1>8, <1>9, NotesStep

LEMMA TakeOverKeeps ==
  ASSUME IInv, NEW n \in Note, NEW m \in Note, TakeOver(n, m)
  PROVE  IInv'
<1> DEFINE c == channels_by_notes[m]
<1>1. PICK q : q = PushNoteOff(Voices, m)
  OBVIOUS
<1>2. PICK p : p = PushNoteOn(q, c, n)
  OBVIOUS
<1>3. /\ available_channels \in Seq(Members)
      /\ Unique(available_channels) /\ ToSet(available_channels) \cap ChannelsOf(Voices) = {}
      /\ SettingsOK /\ MessagesOK /\ Consistent(Voices) /\ Kept(Voices)
      /\ m \in ToSet(Voices.stack) /\ (n = m \/ n \notin ToSet(Voices.stack))
  BY VoicesFields DEF IInv, FreeChannelsAreFree, TakeOver, Held
<1>4. c = Voices.channel[m] /\ c \in ChannelsOf(Voices) /\ c \in Members
  BY <1>3, VoicesFields DEF Consistent, ChannelsOf
<1> HIDE DEF c
<1>5. Ended(Voices, m, q)
  BY <1>1, <1>3, PushNoteOffEnds
<1>6. Consistent(q) /\ Kept(q)
  BY <1>3, <1>5, KeptByEnd
<1>7. ChannelsOf(q) = ChannelsOf(Voices) \ {c}
  BY <1>3, <1>4, <1>5, ChannelsWhenEnded
<1>8. c \in Members \ ChannelsOf(q) /\ n \in Note \ ToSet(q.stack)
  BY <1>3, <1>4, <1>5, <1>7 DEF Ended
<1>9. Started(q, c, n, p)
  BY <1>2, <1>3, <1>6, <1>8, PushNoteOnStarts
<1>10. Consistent(p) /\ Kept(p)
  BY <1>3, <1>6, <1>8, <1>9, KeptByStart
<1>11. ChannelsOf(p) = ChannelsOf(Voices)
  BY <1>4, <1>7, <1>9, ChannelsWhenStarted
<1>12. /\ zone' = zone /\ available_channels' = available_channels
       /\ Become(p) /\ SetUpUnchanged /\ Settle
  BY <1>1, <1>2 DEF TakeOver, SetUpUnchanged, c
<1>13. FreeChannelsAreFree(p)'
  <2>1. Members' = Members /\ ChannelsOf(p)' = ChannelsOf(p)
    BY <1>12 DEF Members, ChannelsOf
  <2> QED BY <1>3, <1>11, <1>12, <2>1 DEF FreeChannelsAreFree
<1> QED BY <1>3, <1>10, <1>12, <1>13, NotesStep

-----------------------------------------------------------------------------
(* Controller messages. *)

(* The channels that a rule sends to, by the cached statistics. *)
LEMMA TargetsOfRule ==
  ASSUME IInv, NEW i \in DOMAIN rules
  PROVE  TargetsOf(rules[i])
           = IF (rules[i].fallback /\ note_stack = <<>>) \/ rules[i].target.pick = "global"
             THEN {zone.manager_channel}
             ELSE IF rules[i].target.pick = "all"
                  THEN {Voices.channel[n] : n \in HalfNotes(Voices.stack, rules[i].target.side)}
                  ELSE {TargetIn(Voices, i)} \ {INVALID_CHANNEL}
<1>1. rules[i].target.side \in Sides
  BY RuleParts DEF IInv
<1>2. channel_stats = AllStats(note_stack, channels_by_notes)
  BY VoicesFields DEF IInv, Consistent
<1>3. MakeStats(note_stack, channels_by_notes, rules[i].target.side)
        = channel_stats[rules[i].target.side]
  BY <1>1, <1>2 DEF AllStats
<1> QED BY <1>3, VoicesFields DEF TargetsOf, TargetIn

(***************************************************************************)
(* A message changes the input controllers of rules that learn, and no     *)
(* more of the rules.                                                      *)
(***************************************************************************)
LEMMA RulesAfterMessage ==
  ASSUME IInv, NEW cc \in ControllerId, NEW level \in Level, ProcessControllerEvent(cc, level)
  PROVE  /\ rules' \in Seq(RuleSetting) /\ DOMAIN rules' = DOMAIN rules
         /\ last_input_value' \in [DOMAIN rules' -> Level]
         /\ \A i \in DOMAIN rules :
              /\ rules'[i].target = rules[i].target /\ rules'[i].reset = rules[i].reset
              /\ rules'[i].out_cc = rules[i].out_cc /\ rules'[i].fallback = rules[i].fallback
              /\ InitialLevel(i)' = InitialLevel(i)
              /\ LastLevel(i)' = IF Matches(rules[i], cc) THEN Distort(rules[i], level)
                                 ELSE LastLevel(i)
              /\ Alone(i)' <=> Alone(i)
              /\ CoveredOrLearning(i)' =>
                   /\ CoveredOrLearning(i)
                   /\ rules[i].out_cc = cc => \E j \in DOMAIN rules : Matches(rules[j], cc)
<1>1. rules \in Seq(RuleSetting) /\ last_input_value \in [DOMAIN rules -> Level]
  BY DEF IInv, SettingsOK
<1>2. /\ rules' = [i \in DOMAIN rules |-> IF Matches(rules[i], cc)
                                          THEN [rules[i] EXCEPT !.in_cc = cc] ELSE rules[i]]
      /\ last_input_value' = [i \in DOMAIN rules |-> IF Matches(rules[i], cc) THEN level
                                                     ELSE last_input_value[i]]
  BY DEF ProcessControllerEvent
<1>3. \A i \in DOMAIN rules : rules[i] \in RuleSetting
  BY <1>1
<1>4. \A i \in DOMAIN rules :
        /\ rules'[i] \in RuleSetting
        /\ rules'[i].target = rules[i].target /\ rules'[i].reset = rules[i].reset
        /\ rules'[i].out_cc = rules[i].out_cc /\ rules'[i].fallback = rules[i].fallback
        /\ rules'[i].init_value = rules[i].init_value /\ rules'[i].invert = rules[i].invert
        /\ rules'[i].in_cc = IF Matches(rules[i], cc) THEN cc ELSE rules[i].in_cc
  BY <1>2, <1>3 DEF RuleSetting
<1>5. DOMAIN rules' = DOMAIN rules
  BY <1>2
<1>6. rules' \in Seq(RuleSetting)
  <2>1. DOMAIN rules = 1..Len(rules) /\ Len(rules) \in Nat
    BY <1>1
  <2>2. rules' \in [1..Len(rules) -> RuleSetting]
    BY <1>2, <1>4, <2>1
  <2> QED BY <2>1, <2>2, SeqDef
<1>7. last_input_value' \in [DOMAIN rules' -> Level]
  BY <1>1, <1>2, <1>5
<1>8. ASSUME NEW i \in DOMAIN rules
      PROVE  /\ InitialLevel(i)' = InitialLevel(i)
             /\ LastLevel(i)' = IF Matches(rules[i], cc) THEN Distort(rules[i], level)
                                ELSE LastLevel(i)
  BY <1>2, <1>4 DEF InitialLevel, LastLevel, Distort
<1>9. ASSUME NEW i \in DOMAIN rules PROVE Alone(i)' <=> Alone(i)
  BY <1>4, <1>5 DEF Alone
<1>10. ASSUME NEW i \in DOMAIN rules, CoveredOrLearning(i)'
       PROVE  /\ CoveredOrLearning(i)
              /\ rules[i].out_cc = cc => \E j \in DOMAIN rules : Matches(rules[j], cc)
  <2>1. PICK j \in DOMAIN rules : rules'[j].in_cc \in {rules[i].out_cc, "learn"}
    BY <1>4, <1>5, <1>10 DEF CoveredOrLearning, Covered
  <2>2. cc # "learn"
    BY ControllerAssumption
  <2> QED BY <1>4, <2>1, <2>2 DEF CoveredOrLearning, Covered, Matches
<1> QED BY <1>4, <1>5, <1>6, <1>7, <1>8, <1>9, <1>10

(* What the receiver is told by a message. *)
LEMMA ToldByMessage ==
  ASSUME IInv, NEW cc \in ControllerId, NEW level \in Level, ProcessControllerEvent(cc, level)
  PROVE  /\ controls' \in Controls
         /\ \A i \in DOMAIN rules, d \in ChannelsInUse :
              Alone(i) =>
                controls'[d][rules[i].out_cc]
                  = IF Matches(rules[i], cc) /\ d \in TargetsOf(rules[i])
                    THEN Distort(rules[i], level)
                    ELSE IF /\ d = zone.manager_channel /\ rules[i].out_cc = cc
                            /\ \A j \in DOMAIN rules : ~Matches(rules[j], cc)
                         THEN level ELSE Told(Voices, i, d)
<1> DEFINE matched == {i \in DOMAIN rules : Matches(rules[i], cc)}
           to == [i \in DOMAIN rules |-> IF i \in matched THEN TargetsOf(rules[i]) ELSE {}]
           levels == [i \in DOMAIN rules |-> Distort(rules[i], level)]
<1>1. SettingsOK /\ controls \in Controls /\ zone.manager_channel \in ChannelsInUse
      /\ \A i, d : Told(Voices, i, d) = controls[d][rules[i].out_cc]
  <2>1. controls \in Controls
    BY VoicesFields DEF IInv, Consistent, VoiceRecords
  <2> QED BY <2>1, VoicesFields, TargetIsTaken DEF IInv, Told
<1>2. levels \in [DOMAIN rules -> Level]
  BY <1>1, RuleParts, DistortLevel
<1>3. CASE matched = {}
  <2>1. controls' = [controls EXCEPT ![zone.manager_channel][cc] = level]
    BY <1>3 DEF ProcessControllerEvent, SendTo
  <2>2. controls' \in Controls
    BY <1>1, <2>1 DEF Controls
  <2>3. ASSUME NEW i \in DOMAIN rules, NEW d \in ChannelsInUse, Alone(i)
        PROVE  controls'[d][rules[i].out_cc]
                 = IF d = zone.manager_channel /\ rules[i].out_cc = cc
                   THEN level ELSE controls[d][rules[i].out_cc]
    <3>1. rules[i].out_cc \in ControllerId
      BY <2>3 DEF Alone
    <3> QED BY <1>1, <2>1, <3>1 DEF Controls
  <2> QED BY <1>1, <1>3, <2>2, <2>3
<1>4. CASE matched # {}
  <2>1. controls' = SendByRules(controls, to, levels)
    BY <1>4 DEF ProcessControllerEvent
  <2>2. \A i \in DOMAIN rules, d \in ChannelsInUse :
          d \in to[i] <=> Matches(rules[i], cc) /\ d \in TargetsOf(rules[i])
    OBVIOUS
  <2>3. \A i \in DOMAIN rules : levels[i] = Distort(rules[i], level)
    OBVIOUS
  <2>4. \E j \in DOMAIN rules : Matches(rules[j], cc)
    BY <1>4
  <2> HIDE DEF to, levels, matched
  <2>5. /\ controls' \in Controls
        /\ \A i \in DOMAIN rules, d \in ChannelsInUse :
             Alone(i) => controls'[d][rules[i].out_cc]
                           = IF d \in to[i] THEN levels[i] ELSE controls[d][rules[i].out_cc]
    BY <1>1, <1>2, <2>1, Sent
  <2> QED BY <1>1, <2>2, <2>3, <2>4, <2>5
<1> QED BY <1>3, <1>4

LEMMA ControlChangeKeeps ==
  ASSUME IInv, NEW cc \in ControllerId, NEW level \in Level, NEW time_offset \in TimeOffsets,
         ControlChange(cc, level, time_offset)
  PROVE  IInv'
<1> DEFINE v == Voices
           manager == zone.manager_channel
           unclaimed(i) == /\ rules[i].out_cc = cc
                           /\ \A j \in DOMAIN rules : ~Matches(rules[j], cc)
<1>1. /\ ProcessControllerEvent(cc, level)
      /\ UNCHANGED <<zone, note_stack, channels_by_notes, available_channels,
                     channel_stats, unsettled>>
  BY DEF ControlChange
<1>2. SettingsOK /\ MessagesOK /\ Consistent(v) /\ FreeChannelsAreFree(v) /\ Kept(v)
  BY DEF IInv
<1>3. /\ rules' \in Seq(RuleSetting) /\ DOMAIN rules' = DOMAIN rules
      /\ last_input_value' \in [DOMAIN rules' -> Level]
      /\ \A i \in DOMAIN rules :
           /\ rules'[i].target = rules[i].target /\ rules'[i].reset = rules[i].reset
           /\ rules'[i].out_cc = rules[i].out_cc /\ rules'[i].fallback = rules[i].fallback
           /\ InitialLevel(i)' = InitialLevel(i)
           /\ LastLevel(i)' = IF Matches(rules[i], cc) THEN Distort(rules[i], level)
                              ELSE LastLevel(i)
           /\ Alone(i)' <=> Alone(i)
           /\ CoveredOrLearning(i)' => CoveredOrLearning(i) /\ ~unclaimed(i)
  BY <1>1, RulesAfterMessage
<1>4. /\ v'.stack = v.stack /\ v'.channel = v.channel /\ v'.stats = v.stats
      /\ v'.controls = controls' /\ v'.stack = note_stack
      /\ v' = [v EXCEPT !.controls = controls']
  BY <1>1 DEF Voices
<1>5. /\ controls' \in Controls
      /\ \A i \in DOMAIN rules, d \in ChannelsInUse :
           Alone(i) =>
             controls'[d][rules[i].out_cc]
               = IF Matches(rules[i], cc) /\ d \in TargetsOf(rules[i])
                 THEN Distort(rules[i], level)
                 ELSE IF d = manager /\ unclaimed(i) THEN level ELSE Told(v, i, d)
  BY <1>1, ToldByMessage
<1>6. /\ \A i \in DOMAIN rules : TargetIn(v, i)' = TargetIn(v, i)
      /\ \A i \in DOMAIN rules : \A d : Told(v, i, d)' = controls'[d][rules[i].out_cc]
      /\ ChannelsOf(v)' = ChannelsOf(v)
  BY <1>3, <1>4 DEF TargetIn, Told, ChannelsOf
<1>7. /\ ChannelsOf(v) \subseteq Members /\ Members \subseteq ChannelsInUse
      /\ manager \notin Members /\ manager \in ChannelsInUse
      /\ INVALID_CHANNEL \notin ChannelsInUse
      /\ \A i \in DOMAIN rules : rules[i].target.pick \in Picks =>
           TargetIn(v, i) \in ChannelsOf(v) \cup {INVALID_CHANNEL}
  BY <1>2, TargetIsTaken
<1>8. v.stack = <<>> => ChannelsOf(v) = {}
  BY DEF ChannelsOf, ToSet
<1>9. SettingsOK' /\ MessagesOK'
  <2>1. previous_controller_message'
          = [previous_controller_message EXCEPT ![cc] = <<time_offset, level>>]
    BY DEF ControlChange
  <2>2. MessagesOK'
    BY <1>1, <1>2, <2>1 DEF MessagesOK
  <2> QED BY <1>1, <1>2, <1>3, <2>2 DEF SettingsOK
<1>10. Consistent(v)'
  <2>1. v' \in VoiceRecords
    BY <1>2, <1>4, <1>5 DEF Consistent, VoiceRecords
  <2>2. Consistent(v')
    BY <1>2, <1>4, <2>1 DEF Consistent
  <2>3. PICK w : w = v'
    OBVIOUS
  <2>4. Consistent(w)'
    BY <1>1, <2>2, <2>3, ConsistentUnchanged
  <2> QED BY <2>3, <2>4
<1>11. FreeChannelsAreFree(v)'
  BY <1>1, <1>2, <1>6 DEF FreeChannelsAreFree, Members
<1> HIDE DEF v, manager, unclaimed
<1>12. ASSUME LastKept(v) PROVE LastKept(v)'
  <2>1. SingleRules("last")' = SingleRules("last")
    BY <1>3 DEF SingleRules
  <2>2. ASSUME NEW i \in SingleRules("last"), TargetIn(v, i) # INVALID_CHANNEL
        PROVE  controls'[TargetIn(v, i)][rules[i].out_cc] = LastLevel(i)'
    <3>1. i \in DOMAIN rules /\ Alone(i) /\ rules[i].target.pick \in Picks
      BY DEF SingleRules
    <3>2. /\ TargetIn(v, i) \in ChannelsOf(v) /\ TargetIn(v, i) \in ChannelsInUse
          /\ TargetIn(v, i) # manager /\ v.stack # <<>>
      BY <1>7, <1>8, <2>2, <3>1
    <3>3. TargetIn(v, i) \in TargetsOf(rules[i])
      BY <3>1, <3>2, <2>2, TargetsOfRule, VoicesFields DEF v, Picks
    <3>4. Told(v, i, TargetIn(v, i)) = LastLevel(i)
      BY <1>12, <2>2 DEF LastKept
    <3> QED BY <1>3, <1>5, <3>1, <3>2, <3>3, <3>4
  <2>3. \A i \in SingleRules("last") : i \in DOMAIN rules
    BY DEF SingleRules
  <2> QED BY <1>6, <2>1, <2>2, <2>3 DEF LastKept
<1>13. ASSUME InitialKept(v) PROVE InitialKept(v)'
  <2>1. SingleRules("init")' = SingleRules("init")
    BY <1>3 DEF SingleRules
  <2>2. ASSUME NEW i \in SingleRules("init")
        PROVE  LET told(d) == controls'[d][rules[i].out_cc]
                   a == TargetIn(v, i)
               IN  /\ \A d \in ChannelsOf(v) \ {a} : told(d) = InitialLevel(i)
                   /\ a # INVALID_CHANNEL => told(a) \in {InitialLevel(i), LastLevel(i)'}
                   /\ rules[i].fallback /\ CoveredOrLearning(i)' /\ v.stack # <<>> =>
                        told(manager) = InitialLevel(i)
    <3> DEFINE a == TargetIn(v, i)
    <3>1. i \in DOMAIN rules /\ Alone(i) /\ rules[i].target.pick \in Picks
      BY DEF SingleRules
    <3>2. a \in ChannelsOf(v) \cup {INVALID_CHANNEL}
      BY <1>7, <3>1
    <3>3. v.stack # <<>> => TargetsOf(rules[i]) = {a} \ {INVALID_CHANNEL}
      BY <3>1, TargetsOfRule, VoicesFields DEF v, Picks
    <3>4. /\ \A d \in ChannelsOf(v) \ {a} : Told(v, i, d) = InitialLevel(i)
          /\ a # INVALID_CHANNEL => Told(v, i, a) \in {InitialLevel(i), LastLevel(i)}
          /\ rules[i].fallback /\ CoveredOrLearning(i) /\ v.stack # <<>> =>
               Told(v, i, zone.manager_channel) = InitialLevel(i)
      BY <1>13 DEF InitialKept
    <3> HIDE DEF a
    <3>5. ASSUME NEW d \in ChannelsOf(v) \ {a}
          PROVE  controls'[d][rules[i].out_cc] = InitialLevel(i)
      <4>1. d \in ChannelsInUse /\ d # manager /\ d \notin TargetsOf(rules[i])
        BY <1>7, <1>8, <3>3
      <4> QED BY <1>5, <3>1, <3>4, <4>1
    <3>6. ASSUME a # INVALID_CHANNEL
          PROVE  controls'[a][rules[i].out_cc] \in {InitialLevel(i), LastLevel(i)'}
      <4>1. a \in ChannelsInUse /\ a # manager /\ a \in TargetsOf(rules[i])
        BY <1>7, <1>8, <3>2, <3>3, <3>6
      <4> QED BY <1>3, <1>5, <3>1, <3>4, <3>6, <4>1
    <3>7. ASSUME rules[i].fallback, CoveredOrLearning(i)', v.stack # <<>>
          PROVE  controls'[manager][rules[i].out_cc] = InitialLevel(i)
      <4>1. manager \notin TargetsOf(rules[i])
        BY <1>7, <3>2, <3>3, <3>7
      <4> QED BY <1>3, <1>5, <1>7, <3>1, <3>4, <3>7, <4>1 DEF manager
    <3> QED BY <3>5, <3>6, <3>7 DEF a
  <2>3. \A i \in SingleRules("init") : i \in DOMAIN rules
    BY DEF SingleRules
  <2>4. manager' = manager
    BY <1>1 DEF manager
  <2>5. ASSUME NEW i \in SingleRules("init")'
        PROVE  /\ \A d \in ChannelsOf(v)' \ {TargetIn(v, i)'} :
                    Told(v, i, d)' = InitialLevel(i)'
               /\ TargetIn(v, i)' # INVALID_CHANNEL =>
                    controls'[TargetIn(v, i)'][rules[i].out_cc]
                      \in {InitialLevel(i)', LastLevel(i)'}
               /\ rules'[i].fallback /\ CoveredOrLearning(i)' /\ v'.stack # <<>> =>
                    Told(v, i, manager)' = InitialLevel(i)'
    <3>1. i \in SingleRules("init") /\ i \in DOMAIN rules
      BY <2>1, <2>3
    <3>2. /\ InitialLevel(i)' = InitialLevel(i) /\ TargetIn(v, i)' = TargetIn(v, i)
          /\ rules'[i].fallback = rules[i].fallback /\ v'.stack = v.stack
          /\ ChannelsOf(v)' = ChannelsOf(v)
          /\ \A d : Told(v, i, d)' = controls'[d][rules[i].out_cc]
          /\ Told(v, i, manager)' = controls'[manager'][rules'[i].out_cc]
          /\ rules'[i].out_cc = rules[i].out_cc
      BY <1>3, <1>4, <1>6, <3>1 DEF Told
    <3> QED BY <2>2, <2>4, <3>1, <3>2
  <2>6. \A i \in SingleRules("init")' :
          Told(v, i, TargetIn(v, i))' = controls'[TargetIn(v, i)'][rules[i].out_cc]
    <3>1. \A i \in SingleRules("init")' : i \in DOMAIN rules
      BY <2>1, <2>3
    <3> QED BY <1>3, <1>4, <3>1 DEF Told
  <2> QED BY <2>5, <2>6 DEF InitialKept, manager
<1>14. ASSUME HalfKept(v) PROVE HalfKept(v)'
  <2>1. ASSUME NEW i \in DOMAIN rules, Alone(i), rules[i].target.pick = "all",
               rules[i].reset # "off", NEW n \in HalfNotes(v.stack, rules[i].target.side)
        PROVE  controls'[v.channel[n]][rules[i].out_cc] = LastLevel(i)'
    <3>1. v.stack \in Seq(Note) /\ n \in ToSet(v.stack)
      BY <1>2, HalfPositions, RuleParts DEF Consistent, VoiceRecords
    <3>2. /\ v.channel[n] \in ChannelsOf(v) /\ v.channel[n] \in ChannelsInUse
          /\ v.channel[n] # manager /\ v.stack # <<>>
      BY <1>7, <1>8, <3>1 DEF ChannelsOf
    <3>3. v.channel[n] \in TargetsOf(rules[i])
      BY <2>1, <3>2, TargetsOfRule, VoicesFields DEF v
    <3>4. Told(v, i, v.channel[n]) = LastLevel(i)
      BY <1>14, <2>1 DEF HalfKept
    <3> QED BY <1>3, <1>5, <2>1, <3>2, <3>3, <3>4
  <2>2. ASSUME NEW i \in DOMAIN rules, NEW n \in HalfNotes(v.stack, rules[i].target.side)'
        PROVE  n \in HalfNotes(v.stack, rules[i].target.side)
    BY <1>1, <1>3, <1>4 DEF HalfNotes, Half, Side
  <2>3. ASSUME NEW i \in DOMAIN rules, NEW n
        PROVE  Told(v, i, v.channel[n])' = controls'[v.channel[n]][rules[i].out_cc]
    BY <1>3, <1>4 DEF Told
  <2>4. ASSUME NEW i \in DOMAIN rules', Alone(i)', rules'[i].target.pick = "all",
               rules'[i].reset # "off", NEW n \in HalfNotes(v.stack, rules[i].target.side)'
        PROVE  Told(v, i, v.channel[n])' = LastLevel(i)'
    <3>1. i \in DOMAIN rules
      BY <1>3
    <3>2. Alone(i) /\ rules[i].target.pick = "all" /\ rules[i].reset # "off"
      BY <1>3, <2>4, <3>1
    <3> QED BY <2>1, <2>2, <2>3, <2>4, <3>1, <3>2
  <2> QED BY <2>4 DEF HalfKept
<1>15. ASSUME GlobalKept(v) PROVE GlobalKept(v)'
  <2>1. ASSUME NEW i \in DOMAIN rules, Alone(i), CoveredOrLearning(i)',
               rules[i].target.pick = "global", rules[i].reset # "off"
        PROVE  controls'[manager][rules[i].out_cc] = LastLevel(i)'
    <3>1. TargetsOf(rules[i]) = {manager}
      BY <2>1, TargetsOfRule DEF manager
    <3>2. Told(v, i, manager) = LastLevel(i)
      BY <1>3, <1>15, <2>1 DEF GlobalKept, manager
    <3> QED BY <1>3, <1>5, <1>7, <2>1, <3>1, <3>2
  <2>2. manager' = manager
    BY <1>1 DEF manager
  <2> QED BY <1>3, <1>6, <2>1, <2>2 DEF GlobalKept, manager
<1>16. Kept(v)'
  BY <1>1, <1>2, <1>12, <1>13, <1>14, <1>15 DEF Kept
<1> QED BY <1>9, <1>10, <1>11, <1>16 DEF IInv, v

-----------------------------------------------------------------------------
(* Stopping all notes and starting afresh in another zone. *)

(* Records that stop_all_notes goes through: between a pop and the removal *)
(* the statistics lag behind the stack.                                    *)
Stopping == {v \in VoiceRecords : Unique(v.stack) /\ v.channel \in [ToSet(v.stack) -> Members]}

LEMMA EndNewestStops ==
  ASSUME SettingsOK, NEW v \in Stopping, v.stack # <<>>
  PROVE  LET w == EndNewest(v)
         IN  /\ w \in Stopping
             /\ w.stack = Tail(v.stack)
             /\ w.stats = AllStats(w.stack, w.channel)
<1> DEFINE n == Head(v.stack)
           t == Tail(v.stack)
           ch == Restrict(v.channel, ToSet(t))
           lifted == SendTo(v.controls, v.channel[n], SUSTAIN_PEDAL, 0)
           u == [v EXCEPT !.stack = t, !.controls = lifted]
           stats == AllStats(t, v.channel)
           to == [i \in DOMAIN rules |-> IF NeedsReset(rules[i], Side(n))
                                         THEN OutdatedTarget(i, stats, v.stats) ELSE {}]
           told == SendByRules(lifted, to, ResetValues(last_input_value))
           w == EndNewest(v)
<1>1. /\ v \in VoiceRecords /\ v.stack \in Seq(Note) /\ v.controls \in Controls
      /\ Unique(v.stack) /\ v.channel \in [ToSet(v.stack) -> Members]
  BY DEF Stopping, VoiceRecords
<1>2. /\ n \in ToSet(v.stack) /\ t \in Seq(Note) /\ Unique(t)
      /\ ToSet(t) = ToSet(v.stack) \ {n}
  BY <1>1, Dequeue
<1>3. Members \subseteq ChannelsInUse
  BY ChannelsOfZone DEF SettingsOK
<1>4. lifted \in Controls
  <2>1. SUSTAIN_PEDAL \in ControllerId /\ 0 \in Level
    BY ControllerAssumption DEF Level
  <2> QED BY <1>1, <2>1 DEF SendTo, Controls
<1>5. told \in Controls
  <2>1. ResetValues(last_input_value) \in [DOMAIN rules -> Level]
    BY ResetLevels
  <2> HIDE DEF to, lifted
  <2> QED BY <1>4, <2>1, Sent
<1>6. RemoveFirst(t, n) = t
  BY <1>2, RemoveAbsent
<1>7. /\ u \in VoiceRecords
      /\ u.stack = t /\ u.channel = v.channel /\ u.stats = v.stats /\ u.controls = lifted
  <2> HIDE DEF t, lifted
  <2> QED BY <1>1, <1>2, <1>4 DEF VoiceRecords
<1> HIDE DEF t, lifted, u, told
<1>8. w = [u EXCEPT !.stack = t, !.stats = stats, !.channel = ch, !.controls = told]
  <2>1. w = PushNoteOff(u, n)
    BY DEF EndNewest, u, t, lifted
  <2> QED BY <1>6, <1>7, <2>1 DEF PushNoteOff, told
<1>9. stats = AllStats(t, ch)
  BY <1>2, RestrictStats
<1>10. ch \in [ToSet(t) -> Members]
  BY <1>1, <1>2 DEF Restrict
<1>11. ch \in UNION {[N -> ChannelsInUse] : N \in SUBSET Note}
  <2>1. ToSet(t) \in SUBSET Note
    BY <1>2, ElementsOfSeq
  <2>2. ch \in [ToSet(t) -> ChannelsInUse]
    <3> HIDE DEF ch
    <3> QED BY <1>3, <1>10
  <2> QED BY <2>1, <2>2
<1>12. stats \in [Sides -> [Picks -> Channel]]
  <2>1. AllStats(t, ch) \in [Sides -> [Picks -> Members \cup {INVALID_CHANNEL}]]
    <3> HIDE DEF ch
    <3> QED BY <1>2, <1>10, StatsAreChannels
  <2> HIDE DEF stats, ch
  <2> QED BY <1>3, <1>9, <2>1 DEF Channel
<1>13. /\ w \in VoiceRecords /\ w.stack = t /\ w.channel = ch /\ w.stats = stats
  <2> HIDE DEF w, stats, ch
  <2> QED BY <1>2, <1>5, <1>7, <1>8, <1>11, <1>12 DEF VoiceRecords
<1> HIDE DEF w, stats, ch
<1>14. w \in Stopping
  BY <1>2, <1>10, <1>13 DEF Stopping
<1> QED BY <1>9, <1>13, <1>14 DEF w, t

\* s is what is left when all notes of v have stopped
Stopped(s) ==
  /\ s \in VoiceRecords
  /\ s.stack = <<>> /\ s.channel \in [{} -> Members]
  /\ s.stats = AllStats(<<>>, s.channel)

LEMMA AllNotesStop ==
  ASSUME SettingsOK, NEW v, Consistent(v)
  PROVE  Stopped(StopAllNotes(v))
<1> DEFINE N == Len(v.stack)
           base == [v EXCEPT !.controls = SendTo(@, zone.manager_channel, SUSTAIN_PEDAL, 0)]
           step == [w \in Stopping |-> IF w.stack = <<>> THEN w ELSE EndNewest(w)]
           body(f) == [k \in 0..N |-> IF k = 0 THEN base ELSE EndNewest(f[k - 1])]
           stopped == CHOOSE f : f = body(f)
<1>1. /\ v \in VoiceRecords /\ v.stack \in Seq(Note) /\ v.controls \in Controls
      /\ Unique(v.stack) /\ v.channel \in [ToSet(v.stack) -> Members]
      /\ v.stats = AllStats(v.stack, v.channel) /\ N \in Nat
  BY DEF Consistent, VoiceRecords
<1>2. CASE v.stack = <<>>
  <2>1. ToSet(v.stack) = {}
    BY <1>2 DEF ToSet
  <2>2. StopAllNotes(v) = v
    BY <1>2 DEF StopAllNotes
  <2> QED BY <1>1, <1>2, <2>1, <2>2 DEF Stopped
<1>3. CASE v.stack # <<>>
  <2>1. base \in Stopping /\ base.stack = v.stack
    <3>1. SUSTAIN_PEDAL \in ControllerId /\ 0 \in Level
      BY ControllerAssumption DEF Level
    <3>2. SendTo(v.controls, zone.manager_channel, SUSTAIN_PEDAL, 0) \in Controls
      BY <1>1, <3>1 DEF SendTo, Controls
    <3> QED BY <1>1, <3>2 DEF Stopping, VoiceRecords
  <2>2. step \in [Stopping -> Stopping]
    BY EndNewestStops
  <2> HIDE DEF base
  <2>3. PICK g \in [0..N -> Stopping] :
          g[0] = base /\ \A k \in 1..N : g[k] = step[g[k - 1]]
    <3>1. N \in Nat /\ base \in Stopping
      BY <1>1, <2>1
    <3> HIDE DEF step, N
    <3> QED BY <3>1, <2>2, RecursionExists
  <2> DEFINE W == {k \in 0..N : Len(g[k].stack) = N - k /\ g[k].stack \in Seq(Note)}
  <2>4. ASSUME NEW k \in 1..N, k - 1 \in W
        PROVE  /\ k \in W /\ g[k] = EndNewest(g[k - 1])
               /\ g[k].stats = AllStats(g[k].stack, g[k].channel)
    <3>1. /\ k - 1 \in 0..N /\ g[k - 1] \in Stopping /\ g[k - 1].stack \in Seq(Note)
          /\ Len(g[k - 1].stack) = N - (k - 1)
      BY <2>3, <2>4
    <3>2. g[k - 1].stack # <<>>
      BY <1>1, <3>1
    <3>3. g[k] = EndNewest(g[k - 1])
      BY <2>3, <3>1, <3>2
    <3>4. /\ g[k].stack = Tail(g[k - 1].stack)
          /\ g[k].stats = AllStats(g[k].stack, g[k].channel)
      BY <3>1, <3>2, <3>3, EndNewestStops
    <3>5. g[k].stack \in Seq(Note) /\ Len(g[k].stack) = Len(g[k - 1].stack) - 1
      BY <3>1, <3>2, <3>4, Dequeue
    <3>6. k \in 0..N /\ (N - (k - 1)) - 1 = N - k
      BY <1>1
    <3> QED BY <3>1, <3>3, <3>4, <3>5, <3>6
  <2>5. \A k \in 0..N : k \in W
    <3>1. 0 \in W
      BY <1>1, <2>1, <2>3
    <3>2. \A k \in 1..N : k - 1 \in W => k \in W
      BY <2>4
    <3> HIDE DEF W, N
    <3> QED BY <1>1, <3>1, <3>2, InductionUpTo
  <2>6. g = body(g)
    <3>1. \A k \in 1..N : k - 1 \in 0..N
      BY <1>1
    <3>2. \A k \in 1..N : g[k] = EndNewest(g[k - 1])
      BY <2>4, <2>5, <3>1
    <3>3. \A k \in 0..N : g[k] = IF k = 0 THEN base ELSE EndNewest(g[k - 1])
      BY <1>1, <2>3, <3>2
    <3> HIDE DEF N, W
    <3> QED BY <2>3, <3>3
  <2>7. stopped = body(stopped)
    <3> HIDE DEF N, W
    <3> QED BY <2>6
  <2>8. \A k \in 0..N : stopped[k] = g[k]
    <3> DEFINE E == {k \in 0..N : stopped[k] = g[k]}
    <3>1. /\ stopped[0] = base
          /\ \A k \in 1..N : stopped[k] = EndNewest(stopped[k - 1])
      <4> HIDE DEF stopped
      <4>1. \A k \in 0..N : stopped[k] = IF k = 0 THEN base ELSE EndNewest(stopped[k - 1])
        BY <2>7
      <4> QED BY <1>1, <4>1
    <3>2. /\ g[0] = base
          /\ \A k \in 1..N : g[k] = EndNewest(g[k - 1])
      <4>1. \A k \in 0..N : g[k] = IF k = 0 THEN base ELSE EndNewest(g[k - 1])
        BY <2>6
      <4> QED BY <1>1, <4>1
    <3> HIDE DEF stopped, W
    <3>3. 0 \in E
      BY <1>1, <3>1, <3>2
    <3>4. \A k \in 1..N : k - 1 \in E => k \in E
      BY <1>1, <3>1, <3>2
    <3>5. \A k \in 0..N : k \in E
      <4> HIDE DEF E, N
      <4> QED BY <1>1, <3>3, <3>4, InductionUpTo
    <3> QED BY <3>5
  <2>9. N \in 1..N /\ N \in 0..N /\ N - 1 \in 0..N
    BY <1>1, <1>3
  <2>10. StopAllNotes(v) = stopped[N]
    BY <1>3 DEF StopAllNotes, base
  <2>11. StopAllNotes(v) = g[N]
    <3> HIDE DEF stopped
    <3> QED BY <2>8, <2>9, <2>10
  <2>12. /\ g[N] \in Stopping /\ g[N].stack = <<>>
         /\ g[N].stats = AllStats(g[N].stack, g[N].channel)
    <3>1. g[N] \in Stopping /\ N \in W /\ N - 1 \in W
      BY <2>3, <2>5, <2>9
    <3>2. g[N].stack \in Seq(Note) /\ Len(g[N].stack) = N - N
      BY <3>1
    <3>3. g[N].stack = <<>>
      BY <1>1, <3>2
    <3> QED BY <2>4, <2>9, <3>1, <3>3
  <2>13. ToSet(g[N].stack) = {}
    BY <2>12 DEF ToSet
  <2> QED BY <2>11, <2>12, <2>13 DEF Stopped, Stopping
<1> QED BY <1>2, <1>3

(* Global rules start from their initial values in zone z. *)
LEMMA GlobalsReset ==
  ASSUME SettingsOK, NEW told \in Controls, NEW z \in Zones
  PROVE  /\ ResetGlobalControllers(told, z) \in Controls
         /\ \A i \in DOMAIN rules :
              Alone(i) /\ rules[i].reset # "off" /\ rules[i].target.pick = "global" =>
                ResetGlobalControllers(told, z)[z.manager_channel][rules[i].out_cc]
                  = InitialLevel(i)
<1> DEFINE to == [i \in DOMAIN rules |->
                    IF rules[i].reset # "off" /\ rules[i].target.pick = "global"
                    THEN {z.manager_channel} ELSE {}]
           level == [i \in DOMAIN rules |-> Distort(rules[i], rules[i].init_value)]
<1>1. level \in [DOMAIN rules -> Level] /\ \A i \in DOMAIN rules : level[i] = InitialLevel(i)
  <2>1. \A i \in DOMAIN rules : rules[i] \in RuleSetting /\ rules[i].init_value \in Level
    BY RuleParts
  <2> QED BY <2>1, DistortLevel DEF InitialLevel
<1>2. z.manager_channel \in ChannelsInUse
  BY DEF ChannelsInUse
<1>3. ResetGlobalControllers(told, z) = SendByRules(told, to, level)
  BY DEF ResetGlobalControllers
<1>4. \A i \in DOMAIN rules :
        rules[i].reset # "off" /\ rules[i].target.pick = "global" => z.manager_channel \in to[i]
  OBVIOUS
<1> HIDE DEF to, level
<1>5. /\ SendByRules(told, to, level) \in Controls
      /\ \A i \in DOMAIN rules, c \in ChannelsInUse :
           Alone(i) =>
             SendByRules(told, to, level)[c][rules[i].out_cc]
               = IF c \in to[i] THEN level[i] ELSE told[c][rules[i].out_cc]
  BY <1>1, Sent
<1> QED BY <1>1, <1>2, <1>3, <1>4, <1>5

(***************************************************************************)
(* Without notes and without unsettled edits, the invariant is about the   *)
(* global rules only.                                                      *)
(***************************************************************************)
LEMMA FreshIsKept ==
  /\ SettingsOK /\ MessagesOK
  /\ Stopped(Voices) /\ available_channels = zone.member_channels
  /\ last_input_value = InitialValues
  /\ \A i \in DOMAIN rules :
       Alone(i) /\ rules[i].reset # "off" /\ rules[i].target.pick = "global" =>
         Told(Voices, i, zone.manager_channel) = InitialLevel(i)
  => IInv
<1> SUFFICES ASSUME SettingsOK, MessagesOK, Stopped(Voices),
                    available_channels = zone.member_channels,
                    last_input_value = InitialValues,
                    \A i \in DOMAIN rules :
                      Alone(i) /\ rules[i].reset # "off" /\ rules[i].target.pick = "global" =>
                        Told(Voices, i, zone.manager_channel) = InitialLevel(i)
             PROVE  IInv
  OBVIOUS
<1>1. ToSet(Voices.stack) = {} /\ Voices.stack = <<>>
  BY DEF Stopped, ToSet
<1>2. Consistent(Voices)
  <2>1. Unique(Voices.stack)
    BY <1>1 DEF Unique
  <2>2. /\ Voices \in VoiceRecords /\ Voices.channel \in [ToSet(Voices.stack) -> Members]
        /\ Voices.stats = AllStats(Voices.stack, Voices.channel)
    BY <1>1 DEF Stopped
  <2> QED BY <1>1, <2>1, <2>2 DEF Consistent
<1>3. ChannelsOf(Voices) = {}
  BY <1>1 DEF ChannelsOf
<1>4. FreeChannelsAreFree(Voices)
  BY <1>3, ChannelsOfZone DEF FreeChannelsAreFree, SettingsOK
<1>5. \A i \in DOMAIN rules : LastLevel(i) = InitialLevel(i)
  BY DEF LastLevel, InitialLevel, InitialValues
<1>6. GlobalKept(Voices)
  BY <1>5 DEF GlobalKept
<1>7. LastKept(Voices) /\ InitialKept(Voices) /\ HalfKept(Voices)
  BY <1>1, <1>2, EmptyKept
<1> QED BY <1>2, <1>4, <1>6, <1>7 DEF IInv, Kept

LEMMA InitIInv == Init => IInv
<1> SUFFICES ASSUME Init PROVE IInv
  OBVIOUS
<1>1. /\ rules \in Seq(RuleSetting) /\ zone \in Zones /\ unsettled = {}
      /\ note_stack = <<>> /\ channels_by_notes = <<>>
      /\ available_channels = zone.member_channels
      /\ channel_stats = [side \in Sides |-> NoStats]
      /\ last_input_value = InitialValues
      /\ previous_controller_message = [cc \in ControllerId |-> <<>>]
      /\ controls = ResetGlobalControllers(ToldNothing, zone)
  BY RuleAssumption DEF Init
<1>2. SettingsOK /\ MessagesOK
  <2>1. \A i \in DOMAIN rules : rules[i].init_value \in Level
    <3>1. \A i \in DOMAIN rules : rules[i] \in RuleSetting
      BY <1>1
    <3> QED BY <3>1 DEF RuleSetting
  <2> QED BY <1>1, <2>1 DEF SettingsOK, MessagesOK, InitialValues
<1>3. ToldNothing \in Controls
  BY DEF ToldNothing, Controls, Level, Unset
<1>4. /\ controls \in Controls
      /\ \A i \in DOMAIN rules :
           Alone(i) /\ rules[i].reset # "off" /\ rules[i].target.pick = "global" =>
             controls[zone.manager_channel][rules[i].out_cc] = InitialLevel(i)
  BY <1>1, <1>2, <1>3, GlobalsReset
<1>5. channels_by_notes \in [{} -> Members]
  BY <1>1
<1>6. ToSet(note_stack) = {}
  BY <1>1 DEF ToSet
<1>7. channel_stats = AllStats(<<>>, channels_by_notes)
  <2>1. \A side \in Sides : Half(<<>>, side) = {}
    BY DEF Half
  <2> QED BY <1>1, <2>1 DEF AllStats, MakeStats
<1>8. channel_stats \in [Sides -> [Picks -> Channel]]
  BY <1>1 DEF NoStats, Channel
<1>9. Stopped(Voices)
  <2>1. channels_by_notes \in UNION {[N -> ChannelsInUse] : N \in SUBSET Note}
    <3>1. channels_by_notes \in [{} -> ChannelsInUse] /\ {} \in SUBSET Note
      BY <1>1
    <3> QED BY <3>1
  <2>2. Voices \in VoiceRecords
    <3>1. note_stack \in Seq(Note)
      BY <1>1
    <3>2. channel_stats \in [Sides -> [Picks -> Channel]] /\ controls \in Controls
      BY <1>4, <1>8
    <3> QED BY <2>1, <3>1, <3>2 DEF Voices, VoiceRecords
  <2> QED BY <1>1, <1>5, <1>7, <2>2, VoicesFields DEF Stopped
<1>10. \A i \in DOMAIN rules :
         Alone(i) /\ rules[i].reset # "off" /\ rules[i].target.pick = "global" =>
           Told(Voices, i, zone.manager_channel) = InitialLevel(i)
  BY <1>4, VoicesFields DEF Told
<1> QED BY <1>1, <1>2, <1>9, <1>10, FreshIsKept

LEMMA ResetKeeps ==
  ASSUME IInv, NEW z \in Zones, Reset(z)
  PROVE  IInv'
<1>1. PICK s : s = StopAllNotes(Voices)
  OBVIOUS
<1>2. PICK p : p = [s EXCEPT !.controls = ResetGlobalControllers(s.controls, z)]
  OBVIOUS
<1>3. /\ Become(p) /\ zone' = z /\ available_channels' = z.member_channels
      /\ last_input_value' = InitialValues /\ unsettled' = {}
      /\ UNCHANGED <<rules, previous_controller_message>>
  BY <1>1, <1>2 DEF Reset
<1>4. SettingsOK /\ MessagesOK /\ Consistent(Voices)
  BY DEF IInv
<1>5. Stopped(s)
  BY <1>1, <1>4, AllNotesStop
<1>6. /\ ResetGlobalControllers(s.controls, z) \in Controls
      /\ \A i \in DOMAIN rules :
           Alone(i) /\ rules[i].reset # "off" /\ rules[i].target.pick = "global" =>
             ResetGlobalControllers(s.controls, z)[z.manager_channel][rules[i].out_cc]
               = InitialLevel(i)
  BY <1>4, <1>5, GlobalsReset DEF Stopped, VoiceRecords
<1>7. /\ p \in VoiceRecords /\ p.stack = <<>> /\ p.channel = s.channel /\ p.stats = s.stats
      /\ p.controls = ResetGlobalControllers(s.controls, z)
  BY <1>2, <1>5, <1>6 DEF Stopped, VoiceRecords
<1>8. Voices' = p
  BY <1>3, <1>7, Becoming
<1>9. SettingsOK' /\ MessagesOK'
  <2>1. \A i \in DOMAIN rules : rules[i].init_value \in Level
    BY <1>4, RuleParts
  <2>2. last_input_value' \in [DOMAIN rules -> Level]
    BY <1>3, <2>1 DEF InitialValues
  <2> QED BY <1>3, <1>4, <2>2 DEF SettingsOK, MessagesOK
<1>10. Stopped(p)'
  <2>1. p.channel \in [{} -> Members']
    BY <1>5, <1>7 DEF Stopped
  <2>2. AllStats(<<>>, p.channel)' = AllStats(<<>>, p.channel)
    <3>1. \A side \in Sides : Half(<<>>, side) = {} /\ Half(<<>>, side)' = {}
      BY DEF Half
    <3> QED BY <3>1 DEF AllStats, MakeStats, NoStats
  <2> QED BY <1>5, <1>7, <2>1, <2>2 DEF Stopped
<1>11. \A i \in DOMAIN rules' :
         (Alone(i) /\ rules[i].reset # "off" /\ rules[i].target.pick = "global")' =>
           Told(p, i, zone.manager_channel)' = InitialLevel(i)'
  <2>1. \A i \in DOMAIN rules : Alone(i)' = Alone(i) /\ InitialLevel(i)' = InitialLevel(i)
    BY <1>3 DEF Alone, InitialLevel, Distort
  <2> QED BY <1>3, <1>6, <1>7, <2>1 DEF Told
<1>12. last_input_value' = InitialValues'
  BY <1>3 DEF InitialValues
<1>13. (/\ SettingsOK /\ MessagesOK
        /\ Stopped(Voices) /\ available_channels = zone.member_channels
        /\ last_input_value = InitialValues
        /\ \A i \in DOMAIN rules :
             Alone(i) /\ rules[i].reset # "off" /\ rules[i].target.pick = "global" =>
               Told(Voices, i, zone.manager_channel) = InitialLevel(i))'
  BY <1>3, <1>8, <1>9, <1>10, <1>11, <1>12
<1> QED BY <1>13, FreshIsKept, PTL

(* Without notes, an edit has only the global rules to reach. *)
LEMMA NothingIsUnsettled ==
  SettingsOK /\ Consistent(Voices) /\ note_stack = <<>>
    => LastKept(Voices) /\ InitialKept(Voices) /\ HalfKept(Voices)
  BY EmptyKept, VoicesFields

LEMMA EditRuleKeeps ==
  ASSUME IInv, NEW edit \in Edits, EditRule(edit)
  PROVE  IInv'
<1>1. /\ rules # <<>> /\ rules' = [rules EXCEPT ![1] = edit[2]]
      /\ unsettled' = IF note_stack = <<>> THEN {"global"} ELSE {"global", "notes"}
      /\ UNCHANGED <<zone, note_stack, channels_by_notes, available_channels, channel_stats,
                     last_input_value, previous_controller_message, controls>>
  BY DEF EditRule
<1>2. SettingsOK /\ MessagesOK /\ Consistent(Voices) /\ FreeChannelsAreFree(Voices)
  BY DEF IInv
<1>3. SettingsOK' /\ MessagesOK'
  <2>1. edit[2] \in RuleSetting
    BY RuleAssumption
  <2>2. rules' \in Seq(RuleSetting) /\ DOMAIN rules' = DOMAIN rules
    BY <1>1, <1>2, <2>1 DEF SettingsOK
  <2> QED BY <1>1, <1>2, <2>2 DEF SettingsOK, MessagesOK
<1>4. PICK w : w = Voices
  OBVIOUS
<1>5. Voices' = w
  BY <1>1, <1>4 DEF Voices
<1>6. Consistent(Voices)'
  <2>1. Consistent(w)'
    BY <1>1, <1>2, <1>4, ConsistentUnchanged
  <2> QED BY <1>5, <2>1
<1>7. FreeChannelsAreFree(Voices)'
  <2>1. FreeChannelsAreFree(w)'
    BY <1>1, <1>2, <1>4 DEF FreeChannelsAreFree, Members, ChannelsOf
  <2> QED BY <1>5, <2>1
<1>8. note_stack' = <<>> => (LastKept(Voices) /\ InitialKept(Voices) /\ HalfKept(Voices))'
  <2>1. (SettingsOK /\ Consistent(Voices) /\ note_stack = <<>>
           => LastKept(Voices) /\ InitialKept(Voices) /\ HalfKept(Voices))'
    BY NothingIsUnsettled, PTL
  <2> QED BY <1>3, <1>6, <2>1
<1>9. Kept(Voices)'
  BY <1>1, <1>8 DEF Kept
<1> QED BY <1>3, <1>6, <1>7, <1>9 DEF IInv

-----------------------------------------------------------------------------
(* The theorems. *)

LEMMA NextIInv == IInv /\ [Next]_vars => IInv'
<1> SUFFICES ASSUME IInv, [Next]_vars PROVE IInv'
  OBVIOUS
<1>1. ASSUME NEW n \in Note, Allocate(n) PROVE IInv'
  BY <1>1, AllocateKeeps
<1>2. ASSUME NEW n \in Note, Release(n) PROVE IInv'
  BY <1>2, ReleaseKeeps
<1>3. ASSUME NEW n \in Note, NEW m \in Note, TakeOver(n, m) PROVE IInv'
  BY <1>3, TakeOverKeeps
<1>4. ASSUME NEW input \in Inputs, NEW t \in TimeOffsets, ControlChange(input[1], input[2], t)
      PROVE  IInv'
  <2>1. input[1] \in ControllerId /\ input[2] \in Level
    BY InputAssumption
  <2> QED BY <1>4, <2>1, ControlChangeKeeps
<1>5. ASSUME NEW edit \in Edits, EditRule(edit) PROVE IInv'
  BY <1>5, EditRuleKeeps
<1>6. ASSUME NEW z \in Zones, Reset(z) PROVE IInv'
  BY <1>6, ResetKeeps
<1>7. ASSUME UNCHANGED vars PROVE IInv'
  <2>1. UNCHANGED <<rules, zone, note_stack, channels_by_notes, available_channels, channel_stats,
                    last_input_value, previous_controller_message, controls, unsettled>>
    BY <1>7 DEF vars
  <2>2. SettingsOK' /\ MessagesOK'
    BY <2>1 DEF IInv, SettingsOK, MessagesOK
  <2>3. PICK w : w = Voices
    OBVIOUS
  <2>4. Voices' = w
    BY <2>1, <2>3 DEF Voices
  <2>5. Consistent(w)' /\ FreeChannelsAreFree(w)' /\ Kept(w)'
    <3>1. Consistent(w) /\ FreeChannelsAreFree(w) /\ Kept(w)
      BY <2>3 DEF IInv
    <3>2. Consistent(w)'
      BY <2>1, <2>3, <3>1, ConsistentUnchanged
    <3>3. FreeChannelsAreFree(w)'
      BY <2>1, <3>1 DEF FreeChannelsAreFree, Members, ChannelsOf
    <3>4. Kept(w)'
      BY <2>1, <3>1, KeptUnchanged DEF Kept
    <3> QED BY <3>2, <3>3, <3>4
  <2> QED BY <2>2, <2>4, <2>5 DEF IInv
<1> QED BY <1>1, <1>2, <1>3, <1>4, <1>5, <1>6, <1>7 DEF Next

LEMMA Invariance == Spec => []IInv
  BY InitIInv, NextIInv, PTL DEF Spec

(* What the properties say of the variables, in terms of the record Voices. *)
LEMMA VoicesRead ==
  ASSUME IInv
  PROVE  /\ channel_stats = AllStats(note_stack, channels_by_notes)
         /\ Sounding = ChannelsOf(Voices)
         /\ INVALID_CHANNEL \notin Sounding
         /\ \A i \in DOMAIN rules :
              /\ rules[i].target.pick \in Picks => TargetChannel(i) = TargetIn(Voices, i)
              /\ \A c : Told(Voices, i, c) = controls[c][rules[i].out_cc]
<1>1. SettingsOK /\ Consistent(Voices)
  BY DEF IInv
<1>2. channel_stats = AllStats(note_stack, channels_by_notes)
  BY <1>1, VoicesFields DEF Consistent
<1>3. Sounding = ChannelsOf(Voices)
  BY VoicesFields DEF Sounding, ChannelsOf, Held
<1>4. INVALID_CHANNEL \notin Sounding
  <2>1. Sounding \in SUBSET Members
    BY <1>1, <1>3 DEF Consistent, ChannelsOf
  <2> QED BY <1>1, <2>1, ChannelsOfZone DEF SettingsOK
<1>5. ASSUME NEW i \in DOMAIN rules
      PROVE  TargetChannel(i) = TargetIn(Voices, i)
  <2>1. rules[i].target.side \in Sides
    BY <1>1, RuleParts
  <2>2. channel_stats[rules[i].target.side]
          = MakeStats(note_stack, channels_by_notes, rules[i].target.side)
    BY <1>2, <2>1 DEF AllStats
  <2> QED BY <2>2, VoicesFields DEF TargetChannel, TargetIn
<1>6. \A i \in DOMAIN rules : \A c : Told(Voices, i, c) = controls[c][rules[i].out_cc]
  BY VoicesFields DEF Told
<1> QED BY <1>2, <1>3, <1>4, <1>5, <1>6

(* Every variable keeps its type, for all zones, rules and messages. *)
THEOREM TypeCorrect == Spec => []TypeOK
<1>1. IInv => TypeOK
  <2> SUFFICES ASSUME IInv PROVE TypeOK
    OBVIOUS
  <2>1. SettingsOK /\ MessagesOK /\ Consistent(Voices) /\ FreeChannelsAreFree(Voices)
    BY DEF IInv
  <2>2. note_stack \in Seq(Note) /\ channel_stats \in [Sides -> [Picks -> Channel]]
        /\ controls \in Controls /\ channels_by_notes \in [Held -> Members]
    BY <2>1, VoicesFields DEF Consistent, VoiceRecords, Held
  <2>3. Members \subseteq ChannelsInUse
    BY <2>1, ChannelsOfZone DEF SettingsOK
  <2>4. available_channels \in Seq(ChannelsInUse) /\ channels_by_notes \in [Held -> ChannelsInUse]
    BY <2>1, <2>2, <2>3 DEF FreeChannelsAreFree
  <2> QED BY <2>1, <2>2, <2>4 DEF TypeOK, SettingsOK, MessagesOK, Controls, Channel
<1> QED BY <1>1, Invariance, PTL

(***************************************************************************)
(* The cached statistics are those of the held notes, though a Note On     *)
(* remakes those of one half only.                                         *)
(***************************************************************************)
THEOREM StatisticsAreCurrent == Spec => []StatsAreCurrent
<1>1. IInv => StatsAreCurrent
  BY VoicesRead DEF StatsAreCurrent
<1> QED BY <1>1, Invariance, PTL

(***************************************************************************)
(* The note that is the target of a rule that resets to the last value is  *)
(* where the rule's last input put it, whatever notes came and went.       *)
(***************************************************************************)
THEOREM TheTargetHasTheLastValue == Spec => []LastValueFollowsTheTarget
<1>1. IInv => LastValueFollowsTheTarget
  <2> SUFFICES ASSUME IInv, "notes" \notin unsettled, NEW i \in SingleRules("last"),
                      TargetChannel(i) \in Sounding
               PROVE  controls[TargetChannel(i)][rules[i].out_cc]
                        = Distort(rules[i], last_input_value[i])
    BY DEF LastValueFollowsTheTarget
  <2>1. LastKept(Voices)
    BY DEF IInv, Kept
  <2>2. i \in DOMAIN rules /\ rules[i].target.pick \in Picks
    BY DEF SingleRules
  <2>3. TargetChannel(i) = TargetIn(Voices, i) /\ TargetIn(Voices, i) # INVALID_CHANNEL
    BY <2>2, VoicesRead
  <2>4. Told(Voices, i, TargetIn(Voices, i)) = LastLevel(i)
    BY <2>1, <2>3 DEF LastKept
  <2> QED BY <2>2, <2>3, <2>4, VoicesRead DEF LastLevel
<1> QED BY <1>1, Invariance, PTL

(***************************************************************************)
(* All notes but the target of a rule that resets to the initial value are *)
(* at that value, and so is the manager channel of a global fallback.      *)
(***************************************************************************)
THEOREM OthersHaveTheInitialValue == Spec => []OthersAreAtInitialValue
<1>1. IInv => OthersAreAtInitialValue
  <2> SUFFICES ASSUME IInv, "notes" \notin unsettled, NEW i \in SingleRules("init")
               PROVE  LET initial == Distort(rules[i], rules[i].init_value)
                          cc == rules[i].out_cc
                      IN  /\ \A c \in Sounding \ {TargetChannel(i)} : controls[c][cc] = initial
                          /\ TargetChannel(i) \in Sounding =>
                               controls[TargetChannel(i)][cc]
                                 \in {initial, Distort(rules[i], last_input_value[i])}
                          /\ rules[i].fallback /\ Covered(i) /\ Held # {} =>
                               controls[zone.manager_channel][cc] = initial
    BY DEF OthersAreAtInitialValue
  <2>1. InitialKept(Voices)
    BY DEF IInv, Kept
  <2>2. i \in DOMAIN rules /\ rules[i].target.pick \in Picks
    BY DEF SingleRules
  <2>3. TargetChannel(i) = TargetIn(Voices, i) /\ Sounding = ChannelsOf(Voices)
        /\ INVALID_CHANNEL \notin Sounding
        /\ \A c : Told(Voices, i, c) = controls[c][rules[i].out_cc]
    BY <2>2, VoicesRead
  <2>4. /\ \A c \in ChannelsOf(Voices) \ {TargetIn(Voices, i)} : Told(Voices, i, c) = InitialLevel(i)
        /\ TargetIn(Voices, i) # INVALID_CHANNEL =>
             Told(Voices, i, TargetIn(Voices, i)) \in {InitialLevel(i), LastLevel(i)}
        /\ rules[i].fallback /\ CoveredOrLearning(i) /\ Voices.stack # <<>> =>
             Told(Voices, i, zone.manager_channel) = InitialLevel(i)
    BY <2>1 DEF InitialKept
  <2>5. Held # {} => Voices.stack # <<>>
    BY VoicesFields DEF Held, ToSet
  <2>6. Covered(i) => CoveredOrLearning(i)
    BY DEF CoveredOrLearning
  <2> QED BY <2>3, <2>4, <2>5, <2>6 DEF InitialLevel, LastLevel
<1> QED BY <1>1, Invariance, PTL

(***************************************************************************)
(* All notes of a half that a rule goes to are where its last input put    *)
(* them, those that began after it as well.                                *)
(***************************************************************************)
THEOREM AllNotesOfAHalfMove == Spec => []HalfMovesTogether
<1>1. IInv => HalfMovesTogether
  <2> SUFFICES ASSUME IInv, "notes" \notin unsettled, NEW i \in DOMAIN rules, Alone(i),
                      rules[i].target.pick = "all", rules[i].reset # "off",
                      NEW n \in HalfNotes(note_stack, rules[i].target.side)
               PROVE  controls[channels_by_notes[n]][rules[i].out_cc]
                        = Distort(rules[i], last_input_value[i])
    BY DEF HalfMovesTogether
  <2>1. HalfKept(Voices)
    BY DEF IInv, Kept
  <2>2. Told(Voices, i, Voices.channel[n]) = LastLevel(i)
    BY <2>1, VoicesFields DEF HalfKept
  <2> QED BY <2>2, VoicesFields DEF Told, LastLevel
<1> QED BY <1>1, Invariance, PTL

(***************************************************************************)
(* A global rule's controller on the manager channel is where the input    *)
(* since the last reset, or the initial value, puts it.                    *)
(***************************************************************************)
THEOREM TheGlobalValueIsCurrent == Spec => []GlobalValueIsCurrent
<1>1. IInv => GlobalValueIsCurrent
  <2> SUFFICES ASSUME IInv, "global" \notin unsettled, NEW i \in DOMAIN rules, Alone(i), Covered(i),
                      rules[i].target.pick = "global", rules[i].reset # "off"
               PROVE  controls[zone.manager_channel][rules[i].out_cc]
                        = Distort(rules[i], last_input_value[i])
    BY DEF GlobalValueIsCurrent
  <2>1. GlobalKept(Voices)
    BY DEF IInv, Kept
  <2>2. Told(Voices, i, zone.manager_channel) = LastLevel(i)
    BY <2>1 DEF GlobalKept, CoveredOrLearning
  <2> QED BY <2>2, VoicesFields DEF Told, LastLevel
<1> QED BY <1>1, Invariance, PTL

(***************************************************************************)
(* A note on a free channel has its controllers in place at its Note On:   *)
(* the second setup sequence changes nothing.                              *)
(***************************************************************************)
THEOREM SetUpBeforeNoteOn == Spec => []NotesStartWithTheirSetUp
<1>1. IInv => NotesStartWithTheirSetUp
  <2> SUFFICES ASSUME IInv, NEW n \in Note \ Held, available_channels # <<>>
               PROVE  PushNoteOn(Voices, Head(available_channels), n).controls
                        = BeforeNoteOn(Voices, Head(available_channels), n).controls
    BY DEF NotesStartWithTheirSetUp
  <2>1. SettingsOK /\ Consistent(Voices) /\ FreeChannelsAreFree(Voices)
    BY DEF IInv
  <2>2. Head(available_channels) \in Members \ ChannelsOf(Voices)
    BY <2>1, Dequeue DEF FreeChannelsAreFree
  <2>3. n \in Note \ ToSet(Voices.stack)
    BY VoicesFields DEF Held
  <2> QED BY <2>1, <2>2, <2>3, SetUpOnce
<1> QED BY <1>1, Invariance, PTL
=============================================================================
