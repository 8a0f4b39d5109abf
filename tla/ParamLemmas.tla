---------------------------- MODULE ParamLemmas -----------------------------
(***************************************************************************)
(* What messages do to Proxy's parameters: lemmas about the operators of   *)
(* ProxyParams, by induction over the place of a message in a sequence.    *)
(***************************************************************************)
EXTENDS ProxyParams, StackLemmas

(* A message leaves a parameter state. *)
LEMMA ProcessMessageType ==
  ASSUME NEW p \in ParamStates, NEW m \in Messages
  PROVE  ProcessMessage(p, m) \in ParamStates
<1>1. Defaults \in Settings
  BY DefaultValueAssumption DEF Defaults, Settings
<1>2. CASE \E id \in ParamId, value \in Values : m = SetParam(id, value)
  <2>1. PICK id \in ParamId, value \in Values : m = SetParam(id, value)
    BY <1>2
  <2>2. ProcessMessage(p, m) = HandleSetParam(p, id, value)
    BY <2>1 DEF ProcessMessage, SetParam
  <2>3. HandleSetParam(p, id, value) \in ParamStates
    BY DEF HandleSetParam, HandleRefreshParam, ParamStates, Settings
  <2> QED BY <2>2, <2>3
<1>3. CASE \E id \in ParamId : m = RefreshParam(id)
  <2>1. PICK id \in ParamId : m = RefreshParam(id)
    BY <1>3
  <2>2. ProcessMessage(p, m) = HandleRefreshParam(p, id)
    BY <2>1 DEF ProcessMessage, RefreshParam
  <2>3. HandleRefreshParam(p, id) \in ParamStates
    BY DEF HandleRefreshParam, ParamStates, Settings
  <2> QED BY <2>2, <2>3
<1>4. CASE m = ClearMessage
  <2>1. ProcessMessage(p, m) = HandleClear(p)
    BY <1>4 DEF ProcessMessage, ClearMessage
  <2> QED BY <2>1, <1>1 DEF HandleClear, ParamStates
<1>5. CASE m = ClearDirtyFlag
  <2>1. ProcessMessage(p, m) = [p EXCEPT !.is_dirty = FALSE]
    BY <1>5 DEF ProcessMessage, ClearDirtyFlag
  <2> QED BY <2>1 DEF ParamStates
<1> QED BY <1>2, <1>3, <1>4, <1>5 DEF Messages

(***************************************************************************)
(* After(p, ms) is the function that its recursion describes: there is one *)
(* (StepwiseRecursion), and one only.                                      *)
(***************************************************************************)
Unfolds(a, p, ms) ==
  /\ a \in [0..Len(ms) -> ParamStates]
  /\ a[0] = p
  /\ \A k \in 1..Len(ms) : a[k] = ProcessMessage(a[k - 1], ms[k])

LEMMA AfterUnfolds ==
  ASSUME NEW p \in ParamStates, NEW ms \in Seq(Messages)
  PROVE  Unfolds(After(p, ms), p, ms)
<1> DEFINE N == Len(ms)
           body(f) == [k \in 0..N |-> IF k = 0 THEN p ELSE ProcessMessage(f[k - 1], ms[k])]
           after == CHOOSE f : f = body(f)
<1>1. N \in Nat /\ \A k \in 1..N : ms[k] \in Messages
  OBVIOUS
<1>2. PICK steps \in [1..N -> [ParamStates -> ParamStates]] :
        \A k \in 1..N, q \in ParamStates : steps[k][q] = ProcessMessage(q, ms[k])
  <2> DEFINE st == [k \in 1..N |-> [q \in ParamStates |-> ProcessMessage(q, ms[k])]]
  <2>1. \A k \in 1..N : [q \in ParamStates |-> ProcessMessage(q, ms[k])]
                          \in [ParamStates -> ParamStates]
    BY <1>1, ProcessMessageType
  <2>2. st \in [1..N -> [ParamStates -> ParamStates]]
    <3> HIDE DEF N
    <3> QED BY <2>1
  <2>3. \A k \in 1..N, q \in ParamStates : st[k][q] = ProcessMessage(q, ms[k])
    OBVIOUS
  <2> HIDE DEF st
  <2> QED BY <2>2, <2>3
<1>3. PICK g \in [0..N -> ParamStates] : Follows(g, N, p, steps)
  <2> HIDE DEF N
  <2> QED BY <1>1, StepwiseRecursion
<1>4. /\ g[0] = p
      /\ \A k \in 1..N : k - 1 \in 0..N /\ g[k] = ProcessMessage(g[k - 1], ms[k])
  <2>1. g[0] = p /\ \A k \in 1..N : g[k] = steps[k][g[k - 1]]
    BY <1>3 DEF Follows
  <2>2. ASSUME NEW k \in 1..N PROVE k - 1 \in 0..N /\ g[k - 1] \in ParamStates
    BY <1>1
  <2> HIDE DEF N
  <2> QED BY <1>2, <2>1, <2>2
<1>5. g = body(g)
  <2>1. \A k \in 0..N : g[k] = IF k = 0 THEN p ELSE ProcessMessage(g[k - 1], ms[k])
    BY <1>1, <1>4
  <2> HIDE DEF N
  <2> QED BY <2>1
<1>6. after = body(after)
  <2> HIDE DEF N
  <2> QED BY <1>5
<1>7. /\ after[0] = p
      /\ \A k \in 1..N : after[k] = ProcessMessage(after[k - 1], ms[k])
  <2> HIDE DEF after
  <2>1. \A k \in 0..N : after[k] = IF k = 0 THEN p ELSE ProcessMessage(after[k - 1], ms[k])
    BY <1>6
  <2> QED BY <1>1, <2>1
<1>8. \A k \in 0..N : after[k] = g[k]
  <2> DEFINE E == {k \in 0..N : after[k] = g[k]}
  <2> HIDE DEF after
  <2>1. 0 \in E
    BY <1>1, <1>4, <1>7
  <2>2. \A k \in 1..N : k - 1 \in E => k \in E
    BY <1>1, <1>4, <1>7
  <2>3. \A k \in 0..N : k \in E
    <3> HIDE DEF E, N
    <3> QED BY <1>1, <2>1, <2>2, InductionUpTo
  <2> QED BY <2>3
<1>9. after = g
  <2>1. after = [k \in 0..N |-> after[k]]
    <3> HIDE DEF N
    <3> QED BY <1>6
  <2> HIDE DEF after, N
  <2> QED BY <1>8, <2>1
<1>10. After(p, ms) = after
  BY DEF After
<1> HIDE DEF after
<1> QED BY <1>3, <1>4, <1>9, <1>10 DEF Unfolds

LEMMA UnfoldsOnce ==
  ASSUME NEW p, NEW ms \in Seq(Messages), NEW a, NEW b,
         Unfolds(a, p, ms), Unfolds(b, p, ms)
  PROVE  a = b
<1> DEFINE E == {k \in 0..Len(ms) : a[k] = b[k]}
<1>1. 0 \in E /\ \A k \in 1..Len(ms) : k - 1 \in E => k \in E
  BY DEF Unfolds
<1>2. \A k \in 0..Len(ms) : k \in E
  <2>1. Len(ms) \in Nat
    OBVIOUS
  <2> HIDE DEF E
  <2> QED BY <1>1, <2>1, InductionUpTo
<1>3. \A k \in 0..Len(ms) : a[k] = b[k]
  BY <1>2
<1> QED BY <1>3 DEF Unfolds

(* The parameters after any of the messages, and after all of them. *)
LEMMA ProcessMessagesType ==
  ASSUME NEW p \in ParamStates, NEW ms \in Seq(Messages)
  PROVE  /\ ProcessMessages(p, ms) \in ParamStates
         /\ \A k \in 0..Len(ms) : After(p, ms)[k] \in ParamStates
<1>1. After(p, ms) \in [0..Len(ms) -> ParamStates]
  BY AfterUnfolds DEF Unfolds
<1>2. Len(ms) \in 0..Len(ms)
  OBVIOUS
<1> QED BY <1>1, <1>2 DEF ProcessMessages

LEMMA AfterNothing ==
  ASSUME NEW p \in ParamStates
  PROVE  ProcessMessages(p, <<>>) = p
<1>1. <<>> \in Seq(Messages) /\ Len(<<>>) = 0
  OBVIOUS
<1>2. After(p, <<>>)[0] = p
  BY <1>1, AfterUnfolds DEF Unfolds
<1> QED BY <1>1, <1>2 DEF ProcessMessages

(* Once the first message is processed the rest leave what they did. *)
LEMMA AfterHead ==
  ASSUME NEW p \in ParamStates, NEW ms \in Seq(Messages), ms # <<>>
  PROVE  /\ ProcessMessage(p, Head(ms)) \in ParamStates
         /\ \A k \in 0..Len(Tail(ms)) :
              After(ProcessMessage(p, Head(ms)), Tail(ms))[k] = After(p, ms)[k + 1]
<1> DEFINE a == After(p, ms)
           b == [k \in 0..Len(Tail(ms)) |-> a[k + 1]]
<1>1. /\ Len(ms) \in Nat \ {0} /\ Tail(ms) \in Seq(Messages)
      /\ Len(Tail(ms)) = Len(ms) - 1 /\ Head(ms) = ms[1] /\ Head(ms) \in Messages
      /\ \A k \in 1..Len(Tail(ms)) : Tail(ms)[k] = ms[k + 1]
  OBVIOUS
<1>2. PICK q \in ParamStates : q = ProcessMessage(p, Head(ms))
  BY <1>1, ProcessMessageType
<1>3. Unfolds(a, p, ms)
  BY AfterUnfolds
<1> HIDE DEF a
<1>4. Unfolds(b, q, Tail(ms))
  <2>1. b \in [0..Len(Tail(ms)) -> ParamStates]
    BY <1>1, <1>3 DEF Unfolds
  <2>2. b[0] = q
    BY <1>1, <1>2, <1>3 DEF Unfolds
  <2>3. ASSUME NEW k \in 1..Len(Tail(ms)) PROVE b[k] = ProcessMessage(b[k - 1], Tail(ms)[k])
    <3>1. k + 1 \in 1..Len(ms) /\ (k + 1) - 1 = k /\ k - 1 \in 0..Len(Tail(ms)) /\ (k - 1) + 1 = k
      BY <1>1
    <3>2. b[k] = a[k + 1] /\ b[k - 1] = a[k]
      BY <1>1, <3>1
    <3> QED BY <1>1, <1>3, <3>1, <3>2 DEF Unfolds
  <2> HIDE DEF b
  <2> QED BY <2>1, <2>2, <2>3 DEF Unfolds
<1>5. After(q, Tail(ms)) = b
  <2>1. Unfolds(After(q, Tail(ms)), q, Tail(ms))
    BY <1>1, AfterUnfolds
  <2> HIDE DEF b
  <2> QED BY <1>1, <1>4, <2>1, UnfoldsOnce
<1> QED BY <1>2, <1>5 DEF a

(* More messages change nothing before them, and start where those end. *)
LEMMA AfterConcat ==
  ASSUME NEW p \in ParamStates, NEW ms \in Seq(Messages), NEW more \in Seq(Messages)
  PROVE  /\ \A k \in 0..Len(ms) : After(p, ms \o more)[k] = After(p, ms)[k]
         /\ \A k \in 0..Len(more) : After(p, ms \o more)[Len(ms) + k]
                                      = After(ProcessMessages(p, ms), more)[k]
<1> DEFINE a == After(p, ms)
           N == Len(ms)
           M == Len(more)
           c == ms \o more
<1>1. /\ N \in Nat /\ M \in Nat /\ c \in Seq(Messages) /\ Len(c) = N + M
      /\ \A k \in 1..N : c[k] = ms[k]
      /\ \A k \in 1..M : c[N + k] = more[k]
  OBVIOUS
<1>2. PICK q \in ParamStates : q = ProcessMessages(p, ms)
  BY ProcessMessagesType
<1> DEFINE b == After(q, more)
           d == [k \in 0..(N + M) |-> IF k <= N THEN a[k] ELSE b[k - N]]
<1>3. Unfolds(a, p, ms) /\ Unfolds(b, q, more) /\ a[N] = q
  BY <1>2, AfterUnfolds DEF ProcessMessages
<1>4. /\ a \in [0..N -> ParamStates] /\ a[0] = p
      /\ b \in [0..M -> ParamStates] /\ b[0] = q
      /\ \A k \in 1..N : a[k] = ProcessMessage(a[k - 1], ms[k])
      /\ \A k \in 1..M : b[k] = ProcessMessage(b[k - 1], more[k])
  BY <1>3 DEF Unfolds
<1> HIDE DEF a, b, c, N, M
<1>5. Unfolds(d, p, c)
  <2>1. d \in [0..(N + M) -> ParamStates] /\ d[0] = p
    BY <1>1, <1>4
  <2>2. ASSUME NEW k \in 1..(N + M) PROVE d[k] = ProcessMessage(d[k - 1], c[k])
    <3>1. k \in 0..(N + M) /\ k - 1 \in 0..(N + M)
      BY <1>1
    <3>2. CASE k <= N
      <4>1. k \in 1..N /\ k - 1 <= N
        BY <1>1, <3>2
      <4>2. d[k] = a[k] /\ d[k - 1] = a[k - 1]
        BY <3>1, <3>2, <4>1
      <4> QED BY <1>1, <1>4, <4>1, <4>2
    <3>3. CASE k = N + 1
      <4>1. 1 \in 1..M /\ ~(k <= N) /\ k - N = 1 /\ k - 1 = N /\ N <= N
        BY <1>1, <3>3
      <4>2. d[k] = b[1] /\ d[k - 1] = a[N]
        BY <3>1, <4>1
      <4>3. c[k] = more[1] /\ b[1] = ProcessMessage(b[0], more[1])
        BY <1>1, <1>4, <3>3, <4>1
      <4> QED BY <1>3, <1>4, <4>2, <4>3
    <3>4. CASE k > N + 1
      <4>1. /\ k - N \in 1..M /\ ~(k <= N) /\ ~(k - 1 <= N) /\ (k - 1) - N = (k - N) - 1
            /\ N + (k - N) = k
        BY <1>1, <3>4
      <4>2. d[k] = b[k - N] /\ d[k - 1] = b[(k - N) - 1]
        BY <3>1, <4>1
      <4>3. c[k] = more[k - N] /\ b[k - N] = ProcessMessage(b[(k - N) - 1], more[k - N])
        BY <1>1, <1>4, <4>1
      <4> QED BY <4>2, <4>3
    <3> QED BY <1>1, <3>2, <3>3, <3>4
  <2> HIDE DEF d
  <2> QED BY <1>1, <2>1, <2>2 DEF Unfolds
<1>6. After(p, c) = d
  <2>1. Unfolds(After(p, c), p, c)
    BY <1>1, AfterUnfolds
  <2> HIDE DEF d
  <2> QED BY <1>1, <1>5, <2>1, UnfoldsOnce
<1>7. ASSUME NEW k \in 0..N PROVE After(p, c)[k] = a[k]
  BY <1>1, <1>6
<1>8. ASSUME NEW k \in 0..M PROVE After(p, c)[N + k] = b[k]
  <2>1. CASE k = 0
    BY <1>1, <1>3, <1>4, <1>7, <2>1
  <2>2. CASE k # 0
    <3>1. N + k \in 0..(N + M) /\ ~(N + k <= N) /\ (N + k) - N = k
      BY <1>1, <2>2
    <3> QED BY <1>6, <3>1
  <2> QED BY <2>1, <2>2
<1>9. \A k \in 0..Len(ms) : After(p, ms \o more)[k] = After(p, ms)[k]
  BY <1>7 DEF a, c, N
<1>10. \A k \in 0..Len(more) : After(p, ms \o more)[Len(ms) + k] = After(q, more)[k]
  BY <1>8 DEF b, c, N, M
<1> QED BY <1>2, <1>9, <1>10

(* The same for what all messages lead to. *)
LEMMA ProcessHead ==
  ASSUME NEW p \in ParamStates, NEW ms \in Seq(Messages), ms # <<>>
  PROVE  ProcessMessages(ProcessMessage(p, Head(ms)), Tail(ms)) = ProcessMessages(p, ms)
<1>1. Len(Tail(ms)) \in 0..Len(Tail(ms)) /\ Len(Tail(ms)) + 1 = Len(ms)
  OBVIOUS
<1> QED BY <1>1, AfterHead DEF ProcessMessages

LEMMA ProcessConcat ==
  ASSUME NEW p \in ParamStates, NEW ms \in Seq(Messages), NEW more \in Seq(Messages)
  PROVE  ProcessMessages(p, ms \o more) = ProcessMessages(ProcessMessages(p, ms), more)
<1>1. Len(more) \in 0..Len(more) /\ Len(ms \o more) = Len(ms) + Len(more)
  OBVIOUS
<1>2. After(p, ms \o more)[Len(ms) + Len(more)] = After(ProcessMessages(p, ms), more)[Len(more)]
  BY <1>1, AfterConcat
<1> QED BY <1>1, <1>2 DEF ProcessMessages

LEMMA ProcessAppend ==
  ASSUME NEW p \in ParamStates, NEW ms \in Seq(Messages), NEW m \in Messages
  PROVE  ProcessMessages(p, Append(ms, m)) = ProcessMessage(ProcessMessages(p, ms), m)
<1>1. /\ <<m>> \in Seq(Messages) /\ Len(<<m>>) = 1 /\ <<m>>[1] = m
      /\ Append(ms, m) = ms \o <<m>>
  OBVIOUS
<1>2. PICK q \in ParamStates : q = ProcessMessages(p, ms)
  BY ProcessMessagesType
<1>3. After(q, <<m>>)[0] = q /\ After(q, <<m>>)[1] = ProcessMessage(After(q, <<m>>)[0], m)
  BY <1>1, AfterUnfolds DEF Unfolds
<1>4. ProcessMessages(q, <<m>>) = ProcessMessage(q, m)
  BY <1>1, <1>3 DEF ProcessMessages
<1>5. ProcessMessages(p, ms \o <<m>>) = ProcessMessages(q, <<m>>)
  BY <1>1, <1>2, ProcessConcat
<1> QED BY <1>1, <1>2, <1>4, <1>5

(* What a message does to the parameters does not depend on the dirty flag. *)
LEMMA MessageIgnoresDirtyFlag ==
  ASSUME NEW p \in ParamStates, NEW q \in ParamStates, NEW m \in Messages,
         p.params = q.params, p.ratios = q.ratios
  PROVE  /\ ProcessMessage(p, m).params = ProcessMessage(q, m).params
         /\ ProcessMessage(p, m).ratios = ProcessMessage(q, m).ratios
<1>1. CASE \E id \in ParamId, value \in Values : m = SetParam(id, value)
  <2>1. PICK id \in ParamId, value \in Values : m = SetParam(id, value)
    BY <1>1
  <2>2. /\ ProcessMessage(p, m) = HandleSetParam(p, id, value)
        /\ ProcessMessage(q, m) = HandleSetParam(q, id, value)
    BY <2>1 DEF ProcessMessage, SetParam
  <2> QED BY <2>2 DEF HandleSetParam, HandleRefreshParam, ParamStates
<1>2. CASE \E id \in ParamId : m = RefreshParam(id)
  <2>1. PICK id \in ParamId : m = RefreshParam(id)
    BY <1>2
  <2>2. /\ ProcessMessage(p, m) = HandleRefreshParam(p, id)
        /\ ProcessMessage(q, m) = HandleRefreshParam(q, id)
    BY <2>1 DEF ProcessMessage, RefreshParam
  <2> QED BY <2>2 DEF HandleRefreshParam, ParamStates
<1>3. CASE m = ClearMessage
  BY <1>3 DEF ProcessMessage, ClearMessage, HandleClear
<1>4. CASE m = ClearDirtyFlag
  <2>1. /\ ProcessMessage(p, m) = [p EXCEPT !.is_dirty = FALSE]
        /\ ProcessMessage(q, m) = [q EXCEPT !.is_dirty = FALSE]
    BY <1>4 DEF ProcessMessage, ClearDirtyFlag
  <2> QED BY <2>1 DEF ParamStates
<1> QED BY <1>1, <1>2, <1>3, <1>4 DEF Messages

(* What a message does to the settings depends on the settings alone. *)
LEMMA ParamsIgnoreTheRest ==
  ASSUME NEW p \in ParamStates, NEW q \in ParamStates, NEW ms \in Seq(Messages),
         p.params = q.params
  PROVE  \A k \in 0..Len(ms) : After(p, ms)[k].params = After(q, ms)[k].params
<1> DEFINE a == After(p, ms)
           b == After(q, ms)
           E == {k \in 0..Len(ms) : a[k].params = b[k].params}
<1>1. Unfolds(a, p, ms) /\ Unfolds(b, q, ms)
  BY AfterUnfolds
<1> HIDE DEF a, b
<1>2. 0 \in E
  BY <1>1 DEF Unfolds
<1>3. ASSUME NEW k \in 1..Len(ms), k - 1 \in E PROVE k \in E
  <2>1. PICK s \in ParamStates, t \in ParamStates, m \in Messages :
          /\ s = a[k - 1] /\ t = b[k - 1] /\ s.params = t.params
          /\ a[k] = ProcessMessage(s, m) /\ b[k] = ProcessMessage(t, m)
    BY <1>1, <1>3 DEF Unfolds
  <2>2. ProcessMessage(s, m).params = ProcessMessage(t, m).params
    <3>1. CASE \E id \in ParamId, value \in Values : m = SetParam(id, value)
      <4>1. PICK id \in ParamId, value \in Values : m = SetParam(id, value)
        BY <3>1
      <4>2. /\ ProcessMessage(s, m) = HandleSetParam(s, id, value)
            /\ ProcessMessage(t, m) = HandleSetParam(t, id, value)
        BY <4>1 DEF ProcessMessage, SetParam
      <4> QED BY <2>1, <4>2 DEF HandleSetParam, HandleRefreshParam, ParamStates
    <3>2. CASE \E id \in ParamId : m = RefreshParam(id)
      <4>1. PICK id \in ParamId : m = RefreshParam(id)
        BY <3>2
      <4>2. /\ ProcessMessage(s, m) = HandleRefreshParam(s, id)
            /\ ProcessMessage(t, m) = HandleRefreshParam(t, id)
        BY <4>1 DEF ProcessMessage, RefreshParam
      <4> QED BY <2>1, <4>2 DEF HandleRefreshParam, ParamStates
    <3>3. CASE m = ClearMessage
      BY <3>3 DEF ProcessMessage, ClearMessage, HandleClear
    <3>4. CASE m = ClearDirtyFlag
      <4>1. /\ ProcessMessage(s, m) = [s EXCEPT !.is_dirty = FALSE]
            /\ ProcessMessage(t, m) = [t EXCEPT !.is_dirty = FALSE]
        BY <3>4 DEF ProcessMessage, ClearDirtyFlag
      <4> QED BY <2>1, <4>1 DEF ParamStates
    <3> QED BY <3>1, <3>2, <3>3, <3>4 DEF Messages
  <2> QED BY <1>1, <1>3, <2>1, <2>2
<1>4. \A k \in 0..Len(ms) : k \in E
  <2>1. Len(ms) \in Nat
    OBVIOUS
  <2> HIDE DEF E
  <2> QED BY <1>2, <1>3, <2>1, InductionUpTo
<1>5. \A k \in 0..Len(ms) : a[k].params = b[k].params
  BY <1>4
<1> QED BY <1>5 DEF a, b

LEMMA DirtyFlagChangesNothing ==
  ASSUME NEW p \in ParamStates, NEW q \in ParamStates, NEW ms \in Seq(Messages),
         p.params = q.params, p.ratios = q.ratios
  PROVE  /\ ProcessMessages(p, ms).params = ProcessMessages(q, ms).params
         /\ ProcessMessages(p, ms).ratios = ProcessMessages(q, ms).ratios
<1> DEFINE a == After(p, ms)
           b == After(q, ms)
           E == {k \in 0..Len(ms) : a[k].params = b[k].params /\ a[k].ratios = b[k].ratios}
<1>1. Unfolds(a, p, ms) /\ Unfolds(b, q, ms)
  BY AfterUnfolds
<1> HIDE DEF a, b
<1>2. 0 \in E
  BY <1>1 DEF Unfolds
<1>3. ASSUME NEW k \in 1..Len(ms), k - 1 \in E PROVE k \in E
  <2>1. /\ ms[k] \in Messages /\ a[k - 1] \in ParamStates /\ b[k - 1] \in ParamStates
        /\ a[k] = ProcessMessage(a[k - 1], ms[k]) /\ b[k] = ProcessMessage(b[k - 1], ms[k])
    BY <1>1, <1>3 DEF Unfolds
  <2>2. a[k - 1].params = b[k - 1].params /\ a[k - 1].ratios = b[k - 1].ratios
    BY <1>3
  <2> QED BY <2>1, <2>2, MessageIgnoresDirtyFlag
<1>4. \A k \in 0..Len(ms) : k \in E
  <2>1. Len(ms) \in Nat
    OBVIOUS
  <2> HIDE DEF E
  <2> QED BY <1>2, <1>3, <2>1, InductionUpTo
<1>5. Len(ms) \in E
  BY <1>4
<1> QED BY <1>5 DEF ProcessMessages, a, b

(***************************************************************************)
(* A serialized state lists the parameters in their order: l[k] is what it *)
(* lists of the first k.                                                   *)
(***************************************************************************)
Lists(l, settings) ==
  /\ l \in [0..ParamCount -> Seq(Messages)]
  /\ l[0] = <<>>
  /\ \A k \in ParamId :
       l[k] = IF settings[k] = DefaultValue THEN l[k - 1]
                                            ELSE Append(l[k - 1], SetParam(k, settings[k]))

LEMMA SettingsAreListed ==
  ASSUME NEW settings \in Settings
  PROVE  \E l : Lists(l, settings) /\ NonDefaultSettings(settings) = l[ParamCount]
<1> DEFINE next(k, l) == IF settings[k] = DefaultValue THEN l
                                                      ELSE Append(l, SetParam(k, settings[k]))
           body(f) == [k \in 0..ParamCount |-> IF k = 0 THEN <<>> ELSE
                         IF settings[k] = DefaultValue THEN f[k - 1]
                         ELSE Append(f[k - 1], SetParam(k, settings[k]))]
           listed == CHOOSE f : f = body(f)
           List == Seq(Messages)
<1>1. /\ ParamCount \in Nat \ {0} /\ ParamId = 1..ParamCount /\ <<>> \in List
      /\ \A k \in ParamId : settings[k] \in Values /\ SetParam(k, settings[k]) \in Messages
  BY ParamCountAssumption DEF ParamId, Settings, Messages
<1>2. PICK steps \in [1..ParamCount -> [List -> List]] :
        \A k \in 1..ParamCount, l \in List : steps[k][l] = next(k, l)
  <2> DEFINE st == [k \in 1..ParamCount |-> [l \in List |-> next(k, l)]]
  <2>1. \A k \in 1..ParamCount : [l \in List |-> next(k, l)] \in [List -> List]
    <3> SUFFICES ASSUME NEW k \in 1..ParamCount, NEW l \in List PROVE next(k, l) \in List
      OBVIOUS
    <3>1. SetParam(k, settings[k]) \in Messages
      BY <1>1
    <3> QED BY <3>1
  <2>2. st \in [1..ParamCount -> [List -> List]]
    <3> HIDE DEF List, next
    <3> QED BY <2>1
  <2>3. \A k \in 1..ParamCount, l \in List : st[k][l] = next(k, l)
    <3> HIDE DEF List, next
    <3> QED OBVIOUS
  <2> HIDE DEF st, next, List
  <2> QED BY <2>2, <2>3
<1>3. PICK g \in [0..ParamCount -> List] : Follows(g, ParamCount, <<>>, steps)
  <2> HIDE DEF List
  <2> QED BY <1>1, StepwiseRecursion
<1>4. /\ g[0] = <<>>
      /\ \A k \in 1..ParamCount : k - 1 \in 0..ParamCount /\ g[k] = next(k, g[k - 1])
  <2> HIDE DEF List, next
  <2>1. g[0] = <<>> /\ \A k \in 1..ParamCount : g[k] = steps[k][g[k - 1]]
    BY <1>3 DEF Follows
  <2>2. ASSUME NEW k \in 1..ParamCount PROVE k - 1 \in 0..ParamCount /\ g[k - 1] \in List
    BY <1>1
  <2> QED BY <1>2, <2>1, <2>2
<1>5. g = body(g)
  <2> HIDE DEF List
  <2>1. \A k \in 0..ParamCount : k = 0 \/ k \in 1..ParamCount
    BY <1>1
  <2>2. \A k \in 0..ParamCount : g[k] = body(g)[k]
    BY <1>4, <2>1
  <2> QED BY <2>2
<1>6. listed = body(listed)
  BY <1>5
<1>7. /\ listed[0] = <<>>
      /\ \A k \in 1..ParamCount : listed[k] = next(k, listed[k - 1])
  <2> HIDE DEF listed
  <2>1. \A k \in 0..ParamCount : listed[k] = body(listed)[k]
    BY <1>6
  <2> QED BY <1>1, <2>1
<1>8. \A k \in 0..ParamCount : listed[k] = g[k]
  <2> DEFINE E == {k \in 0..ParamCount : listed[k] = g[k]}
  <2> HIDE DEF listed, next
  <2>1. 0 \in E
    BY <1>1, <1>4, <1>7
  <2>2. ASSUME NEW k \in 1..ParamCount, k - 1 \in E PROVE k \in E
    <3>1. listed[k - 1] = g[k - 1] /\ k \in 0..ParamCount
      BY <2>2
    <3>2. listed[k] = next(k, listed[k - 1]) /\ g[k] = next(k, g[k - 1])
      BY <1>4, <1>7
    <3>3. listed[k] = g[k]
      <4> USE DEF next
      <4> QED BY <3>1, <3>2
    <3> QED BY <3>1, <3>3
  <2>3. \A k \in 0..ParamCount : k \in E
    <3> HIDE DEF E
    <3> QED BY <1>1, <2>1, <2>2, InductionUpTo
  <2> QED BY <2>3
<1>9. NonDefaultSettings(settings) = listed[ParamCount]
  BY DEF NonDefaultSettings
<1>10. NonDefaultSettings(settings) = g[ParamCount]
  <2> HIDE DEF listed
  <2> QED BY <1>1, <1>8, <1>9
<1>11. Lists(g, settings)
  BY <1>1, <1>3, <1>4 DEF Lists
<1> QED BY <1>10, <1>11

(* The parameters that are listed differ from the defaults, the others not. *)
LEMMA ListedSettingsAreSet ==
  ASSUME NEW settings \in Settings, NEW p \in ParamStates,
         p.params = Defaults, p.ratios = Defaults
  PROVE  /\ NonDefaultSettings(settings) \in Seq(Messages)
         /\ ProcessMessages(p, NonDefaultSettings(settings)).params = settings
         /\ ProcessMessages(p, NonDefaultSettings(settings)).ratios = settings
<1> DEFINE upTo(k) == [id \in ParamId |-> IF id <= k THEN settings[id] ELSE DefaultValue]
<1>1. PICK l : Lists(l, settings) /\ NonDefaultSettings(settings) = l[ParamCount]
  BY SettingsAreListed
<1>2. /\ ParamCount \in Nat \ {0} /\ ParamId = 1..ParamCount
      /\ \A k \in 0..ParamCount : l[k] \in Seq(Messages)
  BY <1>1, ParamCountAssumption DEF ParamId, Lists
<1> DEFINE W == {k \in 0..ParamCount : /\ ProcessMessages(p, l[k]).params = upTo(k)
                                       /\ ProcessMessages(p, l[k]).ratios = upTo(k)}
<1>3. 0 \in W
  <2>1. ProcessMessages(p, l[0]) = p
    BY <1>1, AfterNothing DEF Lists
  <2>2. upTo(0) = Defaults
    BY <1>2 DEF Defaults
  <2> QED BY <1>2, <2>1, <2>2
<1>4. ASSUME NEW k \in 1..ParamCount, k - 1 \in W PROVE k \in W
  <2>1. PICK q \in ParamStates : q = ProcessMessages(p, l[k - 1])
    BY <1>2, ProcessMessagesType
  <2>2. q.params = upTo(k - 1) /\ q.ratios = upTo(k - 1) /\ k \in ParamId
    BY <1>2, <1>4, <2>1
  <2>3. CASE settings[k] = DefaultValue
    <3>1. l[k] = l[k - 1]
      BY <1>1, <2>2, <2>3 DEF Lists
    <3>2. upTo(k) = upTo(k - 1)
      <4>1. \A id \in ParamId : id <= k <=> id <= k - 1 \/ id = k
        BY <1>2
      <4> QED BY <2>3, <4>1
    <3>3. k \in 0..ParamCount /\ q.params = upTo(k) /\ q.ratios = upTo(k)
      BY <1>2, <2>2, <3>2
    <3> QED BY <2>1, <3>1, <3>3
  <2>4. CASE settings[k] # DefaultValue
    <3>1. l[k] = Append(l[k - 1], SetParam(k, settings[k]))
      BY <1>1, <2>2, <2>4 DEF Lists
    <3>2. settings[k] \in Values /\ SetParam(k, settings[k]) \in Messages
      BY <2>2 DEF Settings, Messages
    <3>3. ProcessMessages(p, l[k]) = ProcessMessage(q, SetParam(k, settings[k]))
      BY <1>2, <2>1, <3>1, <3>2, ProcessAppend
    <3>4. ProcessMessage(q, SetParam(k, settings[k])) = HandleSetParam(q, k, settings[k])
      BY DEF ProcessMessage, SetParam
    <3>5. /\ HandleSetParam(q, k, settings[k]).params = [q.params EXCEPT ![k] = settings[k]]
          /\ HandleSetParam(q, k, settings[k]).ratios = [q.ratios EXCEPT ![k] = settings[k]]
      BY <2>2 DEF HandleSetParam, HandleRefreshParam, ParamStates, Settings
    <3>6. upTo(k) = [upTo(k - 1) EXCEPT ![k] = settings[k]]
      <4>1. \A id \in ParamId : id <= k <=> id <= k - 1 \/ id = k
        BY <1>2
      <4> QED BY <4>1
    <3> QED BY <2>2, <3>3, <3>4, <3>5, <3>6
  <2> QED BY <2>3, <2>4
<1>5. ParamCount \in W
  <2>1. \A k \in 0..ParamCount : k \in W
    <3> HIDE DEF W
    <3> QED BY <1>2, <1>3, <1>4, InductionUpTo
  <2>2. ParamCount \in 0..ParamCount
    BY <1>2
  <2> HIDE DEF W
  <2> QED BY <2>1, <2>2
<1>6. upTo(ParamCount) = settings
  BY <1>2 DEF Settings
<1> QED BY <1>1, <1>2, <1>5, <1>6

(* Importing a serialized state restores it, whatever was set before. *)
LEMMA ImportRestores ==
  ASSUME NEW p \in ParamStates, NEW settings \in Settings
  PROVE  /\ ImportMessages(settings) \in Seq(Messages) /\ ImportMessages(settings) # <<>>
         /\ ImportSettings(p, settings) \in ParamStates
         /\ ImportSettings(p, settings).params = settings
         /\ ImportSettings(p, settings).ratios = settings
<1>1. /\ ClearMessage \in Messages /\ <<ClearMessage>> \in Seq(Messages)
      /\ <<ClearMessage>> = Append(<<>>, ClearMessage) /\ <<>> \in Seq(Messages)
  BY DEF Messages
<1>2. PICK q \in ParamStates : q = ProcessMessages(p, <<ClearMessage>>)
  BY <1>1, ProcessMessagesType
<1>3. q = HandleClear(p)
  <2>1. q = ProcessMessage(p, ClearMessage)
    BY <1>1, <1>2, AfterNothing, ProcessAppend
  <2> QED BY <2>1 DEF ProcessMessage, ClearMessage
<1>4. q.params = Defaults /\ q.ratios = Defaults
  BY <1>3 DEF HandleClear
<1>5. PICK ms \in Seq(Messages) : ms = NonDefaultSettings(settings)
  BY <1>2, <1>4, ListedSettingsAreSet
<1>6. ImportMessages(settings) = <<ClearMessage>> \o ms
  BY <1>5 DEF ImportMessages
<1>7. ImportSettings(p, settings) = ProcessMessages(q, ms)
  <2>1. PICK clear \in Seq(Messages) : clear = <<ClearMessage>>
    BY <1>1
  <2>2. ProcessMessages(p, clear \o ms) = ProcessMessages(ProcessMessages(p, clear), ms)
    BY ProcessConcat
  <2> QED BY <1>2, <1>6, <2>1, <2>2 DEF ImportSettings
<1>8. ImportMessages(settings) \in Seq(Messages) /\ ImportMessages(settings) # <<>>
  BY <1>1, <1>6
<1> QED BY <1>2, <1>4, <1>5, <1>7, <1>8, ListedSettingsAreSet, ProcessMessagesType

(* Without rules that learn, the copies that others read are current. *)
LEMMA CopiesStayCurrent ==
  ASSUME NEW p \in ParamStates, NEW ms \in Seq(Messages), p.ratios = p.params
  PROVE  ProcessMessages(p, ms).ratios = ProcessMessages(p, ms).params
<1> DEFINE a == After(p, ms)
           E == {k \in 0..Len(ms) : a[k].ratios = a[k].params}
<1>1. Unfolds(a, p, ms)
  BY AfterUnfolds
<1> HIDE DEF a
<1>2. 0 \in E
  BY <1>1 DEF Unfolds
<1>3. ASSUME NEW k \in 1..Len(ms), k - 1 \in E PROVE k \in E
  <2>1. PICK q \in ParamStates, m \in Messages :
          q = a[k - 1] /\ q.ratios = q.params /\ a[k] = ProcessMessage(q, m)
    BY <1>1, <1>3 DEF Unfolds
  <2>2. CASE \E id \in ParamId, value \in Values : m = SetParam(id, value)
    <3>1. PICK id \in ParamId, value \in Values : m = SetParam(id, value)
      BY <2>2
    <3>2. ProcessMessage(q, m) = HandleSetParam(q, id, value)
      BY <3>1 DEF ProcessMessage, SetParam
    <3>3. /\ HandleSetParam(q, id, value).params = [q.params EXCEPT ![id] = value]
          /\ HandleSetParam(q, id, value).ratios = [q.ratios EXCEPT ![id] = value]
      BY DEF HandleSetParam, HandleRefreshParam, ParamStates, Settings
    <3> QED BY <2>1, <3>2, <3>3
  <2>3. CASE \E id \in ParamId : m = RefreshParam(id)
    <3>1. PICK id \in ParamId : m = RefreshParam(id)
      BY <2>3
    <3>2. ProcessMessage(q, m) = HandleRefreshParam(q, id)
      BY <3>1 DEF ProcessMessage, RefreshParam
    <3> QED BY <2>1, <3>2 DEF HandleRefreshParam, ParamStates, Settings
  <2>4. CASE m = ClearMessage
    BY <2>1, <2>4 DEF ProcessMessage, ClearMessage, HandleClear
  <2>5. CASE m = ClearDirtyFlag
    <3>1. ProcessMessage(q, m) = [q EXCEPT !.is_dirty = FALSE]
      BY <2>5 DEF ProcessMessage, ClearDirtyFlag
    <3> QED BY <2>1, <3>1 DEF ParamStates
  <2> QED BY <2>2, <2>3, <2>4, <2>5 DEF Messages
<1>4. \A k \in 0..Len(ms) : k \in E
  <2>1. Len(ms) \in Nat
    OBVIOUS
  <2> HIDE DEF E
  <2> QED BY <1>2, <1>3, <2>1, InductionUpTo
<1>5. Len(ms) \in E
  BY <1>4
<1> QED BY <1>5 DEF ProcessMessages, a
=============================================================================
