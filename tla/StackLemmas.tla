---------------------------- MODULE StackLemmas -----------------------------
(***************************************************************************)
(* Facts about sequences without repetitions, as note stacks and channel   *)
(* queues are: what a push in front, a removal by value, a dequeue and an  *)
(* enqueue do to the set of elements; and about least and greatest notes.  *)
(***************************************************************************)
EXTENDS Integers, Sequences, SequencesExt, SequenceTheorems, WellFoundedInduction,
        TLAPS

Unique(s) == \A i, j \in DOMAIN s : s[i] = s[j] => i = j

(* The elements of a sequence are its values at 1..Len, and are in S. *)
LEMMA ElementsOfSeq ==
  ASSUME NEW S, NEW s \in Seq(S)
  PROVE  /\ ToSet(s) = {s[i] : i \in 1..Len(s)}
         /\ ToSet(s) \subseteq S
         /\ DOMAIN s = 1..Len(s)
         /\ Len(s) \in Nat
         /\ s = <<>> <=> Len(s) = 0
  BY DEF ToSet

(* Pushing a new note in front. *)
LEMMA PushInFront ==
  ASSUME NEW S, NEW s \in Seq(S), NEW e \in S
  PROVE  /\ <<e>> \o s \in Seq(S)
         /\ Len(<<e>> \o s) = Len(s) + 1 /\ Len(s) \in Nat
         /\ (<<e>> \o s)[1] = e /\ \A i \in 1..Len(s) : (<<e>> \o s)[i + 1] = s[i]
         /\ ToSet(<<e>> \o s) = ToSet(s) \cup {e}
         /\ Unique(s) /\ e \notin ToSet(s) => Unique(<<e>> \o s)
<1> DEFINE t == <<e>> \o s
<1>1. /\ t \in Seq(S) /\ Len(t) = Len(s) + 1 /\ Len(s) \in Nat
      /\ t[1] = e /\ \A i \in 1..Len(s) : t[i + 1] = s[i]
  OBVIOUS
<1> HIDE DEF t
<1>2. \A i \in 2..Len(t) : i - 1 \in 1..Len(s) /\ t[i] = s[i - 1]
  BY <1>1
<1>3. ToSet(t) = ToSet(s) \cup {e}
  <2>1. ToSet(t) = {t[i] : i \in 1..Len(t)} /\ ToSet(s) = {s[i] : i \in 1..Len(s)}
    BY <1>1, ElementsOfSeq
  <2>2. \A i \in 1..Len(t) : t[i] \in ToSet(s) \cup {e}
    <3>1. \A i \in 2..Len(t) : t[i] \in ToSet(s)
      BY <1>2, <2>1
    <3>2. \A i \in 1..Len(t) : i = 1 \/ i \in 2..Len(t)
      BY <1>1
    <3> QED BY <1>1, <3>1, <3>2
  <2>3. \A i \in 1..Len(s) : s[i] \in ToSet(t)
    BY <1>1, <2>1
  <2>4. e \in ToSet(t)
    BY <1>1, <2>1
  <2> QED BY <2>1, <2>2, <2>3, <2>4
<1>4. ASSUME Unique(s), e \notin ToSet(s) PROVE Unique(t)
  <2>1. DOMAIN t = 1..Len(t) /\ DOMAIN s = 1..Len(s)
    BY <1>1
  <2>2. \A i \in 1..Len(s) : s[i] # e
    BY <1>4, ElementsOfSeq
  <2>3. SUFFICES ASSUME NEW i \in 1..Len(t), NEW j \in 1..Len(t), t[i] = t[j]
                 PROVE  i = j
    BY <2>1 DEF Unique
  <2>4. \A m \in 1..Len(t) : m = 1 \/ m \in 2..Len(t)
    BY <1>1
  <2>5. CASE i = 1 \/ j = 1
    BY <1>1, <1>2, <2>2, <2>3, <2>4, <2>5
  <2>6. CASE i \in 2..Len(t) /\ j \in 2..Len(t)
    <3>1. i - 1 = j - 1
      BY <1>2, <1>4, <2>1, <2>3, <2>6 DEF Unique
    <3> QED BY <3>1
  <2> QED BY <2>4, <2>5, <2>6
<1> QED BY <1>1, <1>3, <1>4 DEF t

(* Removing a note that is not there changes nothing. *)
LEMMA RemoveAbsent ==
  ASSUME NEW S, NEW s \in Seq(S), NEW e, e \notin ToSet(s)
  PROVE  RemoveFirst(s, e) = s
  BY ElementsOfSeq DEF RemoveFirst

(* The elements of a concatenation, by index. *)
LEMMA ConcatElements ==
  ASSUME NEW S, NEW a \in Seq(S), NEW b \in Seq(S)
  PROVE  /\ a \o b \in Seq(S) /\ Len(a \o b) = Len(a) + Len(b)
         /\ \A i \in 1..Len(a) : (a \o b)[i] = a[i]
         /\ \A i \in (Len(a) + 1)..Len(a \o b) : (a \o b)[i] = b[i - Len(a)]
<1>1. a \o b \in Seq(S) /\ Len(a \o b) = Len(a) + Len(b)
  OBVIOUS
<1>2. ASSUME NEW i \in 1..Len(a) PROVE (a \o b)[i] = a[i]
  OBVIOUS
<1>3. ASSUME NEW i \in 1..Len(b) PROVE (a \o b)[Len(a) + i] = b[i]
  OBVIOUS
<1>4. ASSUME NEW i \in (Len(a) + 1)..Len(a \o b) PROVE (a \o b)[i] = b[i - Len(a)]
  <2>1. i - Len(a) \in 1..Len(b) /\ Len(a) + (i - Len(a)) = i
    BY <1>1
  <2> QED BY <1>3, <2>1
<1> QED BY <1>1, <1>2, <1>4

(* Removing a note that is there once moves those behind it up by one place. *)
LEMMA RemovedPosition ==
  ASSUME NEW S, NEW s \in Seq(S), NEW e, e \in ToSet(s), Unique(s)
  PROVE  /\ RemoveFirst(s, e) \in Seq(S)
         /\ Len(RemoveFirst(s, e)) = Len(s) - 1 /\ Len(s) \in Nat
         /\ \E k \in 1..Len(s) :
              /\ s[k] = e /\ \A i \in 1..Len(s) : i # k => s[i] # e
              /\ \A i \in 1..(k - 1) : RemoveFirst(s, e)[i] = s[i]
              /\ \A i \in k..(Len(s) - 1) : RemoveFirst(s, e)[i] = s[i + 1]
<1>1. PICK k \in 1..Len(s) : s[k] = e
  BY ElementsOfSeq
<1>2. {i \in 1..Len(s) : s[i] = e} = {k}
  BY <1>1, ElementsOfSeq DEF Unique
<1>3. SelectInSeq(s, LAMBDA v : v = e) = k
  BY <1>1, <1>2 DEF SelectInSeq, Min
<1> DEFINE t == SubSeq(s, 1, k - 1) \o SubSeq(s, k + 1, Len(s))
<1>4. RemoveFirst(s, e) = t
  BY <1>1, <1>3 DEF RemoveFirst, RemoveAt
<1>5. /\ t \in Seq(S) /\ Len(t) = Len(s) - 1 /\ Len(s) \in Nat
      /\ \A i \in 1..(k - 1) : t[i] = s[i]
      /\ \A i \in k..Len(t) : t[i] = s[i + 1]
  <2> DEFINE before == SubSeq(s, 1, k - 1)
             after == SubSeq(s, k + 1, Len(s))
  <2>1. /\ before \in Seq(S) /\ Len(before) = k - 1 /\ Len(s) \in Nat
        /\ \A i \in 1..(k - 1) : before[i] = s[i]
    BY <1>1
  <2>2. /\ after \in Seq(S) /\ Len(after) = Len(s) - k
        /\ \A i \in 1..(Len(s) - k) : after[i] = s[k + i]
    BY <1>1
  <2>3. t = before \o after
    OBVIOUS
  <2> HIDE DEF before, after, t
  <2>4. /\ t \in Seq(S) /\ Len(t) = Len(s) - 1
        /\ \A i \in 1..(k - 1) : t[i] = before[i]
        /\ \A i \in k..Len(t) : t[i] = after[i - (k - 1)]
    <3>1. /\ t \in Seq(S) /\ Len(t) = Len(before) + Len(after)
          /\ \A i \in 1..Len(before) : t[i] = before[i]
          /\ \A i \in (Len(before) + 1)..Len(t) : t[i] = after[i - Len(before)]
      BY <2>1, <2>2, <2>3, ConcatElements
    <3>2. (Len(before) + 1) = k /\ Len(before) + Len(after) = Len(s) - 1
      BY <1>1, <2>1, <2>2
    <3> QED BY <3>1, <3>2, <2>1, <1>1
  <2>5. ASSUME NEW i \in k..Len(t) PROVE t[i] = s[i + 1]
    <3>1. i - (k - 1) \in 1..(Len(s) - k) /\ k + (i - (k - 1)) = i + 1
      BY <1>1, <2>1, <2>4
    <3> QED BY <2>2, <2>4, <3>1
  <2> QED BY <2>1, <2>4, <2>5
<1> HIDE DEF t
<1>6. \A i \in 1..Len(s) : i # k => s[i] # e
  BY <1>2
<1> QED BY <1>1, <1>4, <1>5, <1>6

(* Removing a note that is there once. *)
LEMMA RemovePresent ==
  ASSUME NEW S, NEW s \in Seq(S), NEW e, e \in ToSet(s), Unique(s)
  PROVE  /\ RemoveFirst(s, e) \in Seq(S)
         /\ Len(RemoveFirst(s, e)) = Len(s) - 1
         /\ ToSet(RemoveFirst(s, e)) = ToSet(s) \ {e}
         /\ Unique(RemoveFirst(s, e))
<1> DEFINE t == RemoveFirst(s, e)
<1>1. PICK k \in 1..Len(s) :
        /\ s[k] = e /\ \A i \in 1..Len(s) : i # k => s[i] # e
        /\ \A i \in 1..(k - 1) : t[i] = s[i]
        /\ \A i \in k..(Len(s) - 1) : t[i] = s[i + 1]
  BY RemovedPosition
<1>5. /\ t \in Seq(S) /\ Len(t) = Len(s) - 1 /\ Len(s) \in Nat
      /\ \A i \in 1..(k - 1) : t[i] = s[i]
      /\ \A i \in k..Len(t) : t[i] = s[i + 1]
  BY <1>1, RemovedPosition
<1> HIDE DEF t
<1>6. DOMAIN t = 1..Len(t) /\ DOMAIN s = 1..Len(s)
  BY <1>5
<1>7. s[k] = e /\ \A i \in 1..Len(s) : i # k => s[i] # e
  BY <1>1
<1>8. ToSet(t) = ToSet(s) \ {e}
  <2>1. ToSet(t) = {t[i] : i \in 1..Len(t)} /\ ToSet(s) = {s[i] : i \in 1..Len(s)}
    BY <1>5, ElementsOfSeq
  <2>2. \A i \in 1..Len(t) : t[i] \in ToSet(s) \ {e}
    <3>1. TAKE i \in 1..Len(t)
    <3>2. CASE i < k
      BY <1>1, <1>5, <1>7, <2>1, <3>2
    <3>3. CASE i >= k
      <4>1. i + 1 \in 1..Len(s) /\ i + 1 # k /\ t[i] = s[i + 1]
        BY <1>1, <1>5, <3>3
      <4> QED BY <4>1, <1>7, <2>1
    <3> QED BY <1>1, <3>2, <3>3
  <2>3. ASSUME NEW i \in 1..Len(s), i # k PROVE s[i] \in ToSet(t)
    <3>1. CASE i < k
      <4>1. i \in 1..Len(t) /\ t[i] = s[i]
        BY <1>1, <1>5, <3>1
      <4> QED BY <4>1, <2>1
    <3>2. CASE i > k
      <4>1. i - 1 \in 1..Len(t) /\ i - 1 \in k..Len(t) /\ t[i - 1] = s[i]
        BY <1>1, <1>5, <3>2
      <4> QED BY <4>1, <2>1
    <3> QED BY <1>1, <2>3, <3>1, <3>2
  <2> QED BY <1>7, <2>1, <2>2, <2>3
<1>9. Unique(t)
  <2>1. SUFFICES ASSUME NEW i \in 1..Len(t), NEW j \in 1..Len(t), t[i] = t[j]
                 PROVE  i = j
    BY <1>6 DEF Unique
  <2> DEFINE at(m) == IF m < k THEN m ELSE m + 1
  <2>2. at(i) \in 1..Len(s) /\ t[i] = s[at(i)]
    BY <1>1, <1>5
  <2>3. at(j) \in 1..Len(s) /\ t[j] = s[at(j)]
    BY <1>1, <1>5
  <2>4. at(i) = at(j)
    BY <1>6, <2>1, <2>2, <2>3 DEF Unique
  <2> QED BY <1>1, <2>4
<1> QED BY <1>5, <1>8, <1>9 DEF t

(* Taking the oldest free channel. *)
LEMMA Dequeue ==
  ASSUME NEW S, NEW s \in Seq(S), s # <<>>
  PROVE  /\ Head(s) \in ToSet(s) /\ Head(s) \in S
         /\ Tail(s) \in Seq(S) /\ Len(Tail(s)) = Len(s) - 1
         /\ Unique(s) => Unique(Tail(s)) /\ ToSet(Tail(s)) = ToSet(s) \ {Head(s)}
<1> DEFINE t == Tail(s)
<1>1. /\ t \in Seq(S) /\ Len(t) = Len(s) - 1 /\ Len(s) \in Nat \ {0}
      /\ Head(s) = s[1] /\ \A i \in 1..Len(t) : t[i] = s[i + 1]
  OBVIOUS
<1> HIDE DEF t
<1>2. DOMAIN t = 1..Len(t) /\ DOMAIN s = 1..Len(s)
  BY <1>1
<1>3. ToSet(t) = {t[i] : i \in 1..Len(t)} /\ ToSet(s) = {s[i] : i \in 1..Len(s)}
  BY <1>1, ElementsOfSeq
<1>4. Head(s) \in ToSet(s) /\ Head(s) \in S
  BY <1>1, <1>3
<1>5. ASSUME Unique(s) PROVE Unique(t) /\ ToSet(t) = ToSet(s) \ {Head(s)}
  <2>1. Unique(t)
    <3>1. SUFFICES ASSUME NEW i \in 1..Len(t), NEW j \in 1..Len(t), t[i] = t[j]
                   PROVE  i = j
      BY <1>2 DEF Unique
    <3>2. /\ i + 1 \in 1..Len(s) /\ j + 1 \in 1..Len(s)
          /\ s[i + 1] = s[j + 1]
      BY <1>1, <3>1
    <3>3. i + 1 = j + 1
      BY <1>2, <1>5, <3>2 DEF Unique
    <3> QED BY <3>3
  <2>2. \A i \in 1..Len(t) : t[i] \in ToSet(s) \ {Head(s)}
    BY <1>1, <1>2, <1>3, <1>5 DEF Unique
  <2>3. ASSUME NEW i \in 1..Len(s), i # 1 PROVE s[i] \in ToSet(t)
    <3>1. i - 1 \in 1..Len(t) /\ t[i - 1] = s[i]
      BY <1>1, <2>3
    <3> QED BY <3>1, <1>3
  <2>4. \A i \in 1..Len(s) : s[i] \in ToSet(t) \cup {Head(s)}
    BY <1>1, <2>3
  <2> QED BY <1>3, <2>1, <2>2, <2>4
<1> QED BY <1>1, <1>4, <1>5 DEF t

(* Queueing a channel that is not yet queued. *)
LEMMA AppendNew ==
  ASSUME NEW S, NEW s \in Seq(S), NEW e \in S
  PROVE  /\ Append(s, e) \in Seq(S) /\ Len(Append(s, e)) = Len(s) + 1
         /\ ToSet(Append(s, e)) = ToSet(s) \cup {e}
         /\ Unique(s) /\ e \notin ToSet(s) => Unique(Append(s, e))
<1> DEFINE t == Append(s, e)
<1>1. /\ t \in Seq(S) /\ Len(t) = Len(s) + 1 /\ Len(s) \in Nat
      /\ t[Len(s) + 1] = e /\ \A i \in 1..Len(s) : t[i] = s[i]
  OBVIOUS
<1> HIDE DEF t
<1>2. DOMAIN t = 1..Len(t) /\ DOMAIN s = 1..Len(s)
  BY <1>1
<1>3. ToSet(t) = {t[i] : i \in 1..Len(t)} /\ ToSet(s) = {s[i] : i \in 1..Len(s)}
  BY <1>1, ElementsOfSeq
<1>4. ToSet(t) = ToSet(s) \cup {e}
  BY <1>1, <1>3
<1>5. ASSUME Unique(s), e \notin ToSet(s) PROVE Unique(t)
  BY <1>1, <1>2, <1>3, <1>5 DEF Unique
<1> QED BY <1>1, <1>4, <1>5 DEF t

(* A set of natural numbers has a least element, by WFMin. *)
LEMMA MinExists ==
  ASSUME NEW T \in SUBSET Nat, T # {}
  PROVE  \E x \in T : \A y \in T : x =< y
<1> DEFINE R == OpToRel(<, Nat)
<1>1. \A x, y \in Nat : x < y => <<x, y>> \in R
  BY DEF OpToRel
<1>2. IsWellFoundedOn(R, Nat)
  BY NatLessThanWellFounded
<1> HIDE DEF R
<1>3. PICK x \in T : \A y \in T : ~ (<<y, x>> \in R)
  BY <1>2, WFMin
<1>4. \A y \in T : x \in Nat /\ y \in Nat /\ ~(y < x)
  BY <1>1, <1>3
<1>5. \A y \in T : x =< y
  BY <1>4
<1> QED BY <1>5

(* Min picks an element of the set. *)
LEMMA MinIn ==
  ASSUME NEW T \in SUBSET Nat, T # {}
  PROVE  Min(T) \in T
  BY MinExists DEF Min

(* Max, likewise: the greatest number up to N is the least one mirrored. *)
LEMMA MaxInRange ==
  ASSUME NEW N \in Nat, NEW T \in SUBSET (0..N), T # {}
  PROVE  /\ Max(T) \in T
         /\ \A x \in T : x =< Max(T)
<1> DEFINE mirrored == {y \in 0..N : N - y \in T}
<1>1. mirrored \in SUBSET Nat /\ \A x \in T : N - x \in mirrored
  OBVIOUS
<1>2. PICK y \in mirrored : \A z \in mirrored : y =< z
  BY <1>1, MinExists
<1>3. N - y \in T /\ \A x \in T : y =< N - x
  BY <1>1, <1>2
<1>4. \A x \in T : N - y >= x
  BY <1>2, <1>3
<1>5. Max(T) \in T /\ \A x \in T : Max(T) >= x
  BY <1>3, <1>4 DEF Max
<1> QED BY <1>5

(* The greatest MIDI note. *)
LEMMA MaxIn ==
  ASSUME NEW T \in SUBSET (0..127), T # {}
  PROVE  Max(T) \in T
  BY MaxInRange, 127 \in Nat

(* Min and Max are the elements below and above all others. *)
LEMMA MinIs ==
  ASSUME NEW T \in SUBSET Int, NEW x \in T, \A y \in T : x =< y
  PROVE  Min(T) = x
<1>1. Min(T) \in T /\ \A y \in T : Min(T) =< y
  BY DEF Min
<1>2. x \in Int /\ Min(T) \in Int /\ x =< Min(T) /\ Min(T) =< x
  BY <1>1
<1> HIDE DEF Min
<1> QED BY <1>2

LEMMA MaxIs ==
  ASSUME NEW T \in SUBSET Int, NEW x \in T, \A y \in T : y =< x
  PROVE  Max(T) = x
<1>1. Max(T) \in T /\ \A y \in T : Max(T) >= y
  BY DEF Max
<1>2. x \in Int /\ Max(T) \in Int /\ x =< Max(T) /\ Max(T) =< x
  BY <1>1
<1> HIDE DEF Max
<1> QED BY <1>2

(***************************************************************************)
(* Induction up to N, stated with a set instead of a predicate: what does  *)
(* not belong to W would have a least element.                             *)
(***************************************************************************)
LEMMA InductionUpTo ==
  ASSUME NEW N \in Nat, NEW W, 0 \in W, \A k \in 1..N : k - 1 \in W => k \in W
  PROVE  \A k \in 0..N : k \in W
<1> DEFINE missing == (0..N) \ W
<1>1. SUFFICES ASSUME missing # {} PROVE FALSE
  OBVIOUS
<1>2. PICK k \in missing : \A m \in missing : k =< m
  <2>1. missing \in SUBSET Nat
    OBVIOUS
  <2> HIDE DEF missing
  <2> QED BY <1>1, <2>1, MinExists
<1>3. k \in 1..N /\ k - 1 \in 0..N
  BY <1>2
<1>4. k - 1 \notin missing
  BY <1>2, <1>3
<1> QED BY <1>2, <1>3, <1>4

(***************************************************************************)
(* A function may be defined by recursion over 0..N, with a step for each  *)
(* of 1..N: the set W of lengths up to which there is one has every        *)
(* length.                                                                 *)
(***************************************************************************)
Follows(g, N, base, step) == g[0] = base /\ \A k \in 1..N : g[k] = step[k][g[k - 1]]

LEMMA StepwiseRecursion ==
  ASSUME NEW N \in Nat, NEW S, NEW base \in S, NEW step \in [1..N -> [S -> S]]
  PROVE  \E g \in [0..N -> S] : Follows(g, N, base, step)
<1> DEFINE W == {m \in 0..N : \E g \in [0..m -> S] :
                    g[0] = base /\ \A k \in 1..m : g[k] = step[k][g[k - 1]]}
<1>1. 0 \in W
  <2> DEFINE g == [k \in 0..0 |-> base]
  <2>1. g \in [0..0 -> S] /\ g[0] = base /\ \A k \in 1..0 : g[k] = step[k][g[k - 1]]
    OBVIOUS
  <2> HIDE DEF g
  <2> QED BY <2>1
<1>2. ASSUME NEW m \in 1..N, m - 1 \in W PROVE m \in W
  <2>1. PICK f \in [0..(m - 1) -> S] :
          f[0] = base /\ \A k \in 1..(m - 1) : f[k] = step[k][f[k - 1]]
    BY <1>2
  <2> DEFINE g == [k \in 0..m |-> IF k = m THEN step[m][f[m - 1]] ELSE f[k]]
  <2>2. /\ m - 1 \in 0..(m - 1) /\ f[m - 1] \in S /\ step[m] \in [S -> S]
        /\ \A k \in 0..m : k = m \/ k \in 0..(m - 1)
    OBVIOUS
  <2>3. g \in [0..m -> S]
    BY <2>2
  <2>4. g[0] = base
    BY <2>1
  <2>5. ASSUME NEW k \in 1..m PROVE g[k] = step[k][g[k - 1]]
    <3>1. k - 1 \in 0..(m - 1) /\ k - 1 # m /\ k - 1 \in 0..m
      OBVIOUS
    <3>2. g[k - 1] = f[k - 1]
      BY <3>1
    <3>3. CASE k = m
      BY <3>2, <3>3
    <3>4. CASE k # m
      <4>1. k \in 1..(m - 1) /\ k \in 0..m
        BY <3>4
      <4> QED BY <4>1, <2>1, <3>2, <3>4
    <3> QED BY <3>3, <3>4
  <2> HIDE DEF g
  <2> QED BY <2>3, <2>4, <2>5
<1>3. N \in W
  <2> HIDE DEF W
  <2>1. \A k \in 0..N : k \in W
    BY <1>1, <1>2, InductionUpTo
  <2> QED BY <2>1
<1> QED BY <1>3 DEF Follows

(* With the same step everywhere. *)
LEMMA RecursionExists ==
  ASSUME NEW N \in Nat, NEW S, NEW base \in S, NEW step \in [S -> S]
  PROVE  \E g \in [0..N -> S] :
           g[0] = base /\ \A k \in 1..N : g[k] = step[g[k - 1]]
<1>1. PICK steps \in [1..N -> [S -> S]] : \A k \in 1..N : steps[k] = step
  <2>1. [k \in 1..N |-> step] \in [1..N -> [S -> S]]
    OBVIOUS
  <2> QED BY <2>1
<1>2. PICK g \in [0..N -> S] : Follows(g, N, base, steps)
  BY StepwiseRecursion
<1>3. g[0] = base /\ \A k \in 1..N : g[k] = steps[k][g[k - 1]]
  BY <1>2 DEF Follows
<1>4. \A k \in 1..N : g[k] = step[g[k - 1]]
  BY <1>1, <1>3
<1> QED BY <1>3, <1>4
=============================================================================
