----------------------------- MODULE MqttTaskProofs -----------------------------
(***************************************************************************)
(* What the parser of the MQTT task computes, for every sequence of tokens,*)
(* and the types it keeps.                                                 *)
(*                                                                         *)
(* The parser is a fold.  Its values on longer and longer prefixes of the  *)
(* tokens form a trace, which FoldExists and SettingsTrace show to exist;  *)
(* everything else is an induction along that trace.                       *)
(***************************************************************************)
EXTENDS MqttTask, WellFoundedInduction, TLAPS

-----------------------------------------------------------------------------
(* Induction on the natural numbers, for a set of them *)

LEMMA LessThan == OpToRel(<, Nat) = {ss \in Nat \X Nat : ss[1] < ss[2]}
BY Zenon DEF OpToRel

\* A set of natural numbers that is not empty has a least member.
LEMMA LeastMember ==
    ASSUME NEW T \in SUBSET Nat, T # {}
    PROVE  \E x \in T : \A y \in T : x <= y
<1>1. PICK x \in T : \A y \in T : ~(<<y, x>> \in OpToRel(<, Nat))
  BY WFMin, NatLessThanWellFounded
<1>2. \A y \in T : ~(<<y, x>> \in {ss \in Nat \X Nat : ss[1] < ss[2]})
  BY <1>1, LessThan
<1>3. ASSUME NEW y \in T
      PROVE  x <= y
  <2>1. ~(y < x)
    BY <1>2
  <2> QED
    BY <2>1
<1> QED
  BY <1>3

\* A set that has 0, and with each member its successor, has every natural number.
LEMMA Induction ==
    ASSUME NEW S \in SUBSET Nat, 0 \in S, \A n \in S : n + 1 \in S
    PROVE  S = Nat
<1> SUFFICES ASSUME Nat \ S # {}
             PROVE  FALSE
  OBVIOUS
<1>1. PICK x \in Nat \ S : \A y \in Nat \ S : x <= y
  BY LeastMember
<1>2. x # 0 /\ x - 1 \in Nat
  BY <1>1
<1>3. x - 1 \in S
  BY <1>1, <1>2
<1> QED
  BY <1>1, <1>3

\* Induction along a trace of n steps.
LEMMA TraceInduction ==
    ASSUME NEW n \in Nat, NEW P \in SUBSET (0 .. n), 0 \in P,
           \A k \in 1 .. n : k - 1 \in P => k \in P
    PROVE  P = 0 .. n
<1> DEFINE S == {k \in Nat : k <= n => k \in P}
<1>1. 0 \in S
  OBVIOUS
<1>2. ASSUME NEW k \in S
      PROVE  k + 1 \in S
  <2> SUFFICES ASSUME k + 1 <= n
               PROVE  k + 1 \in P
    OBVIOUS
  <2>1. k \in P /\ k + 1 \in 1 .. n /\ (k + 1) - 1 = k
    BY <1>2
  <2> QED
    BY <2>1
<1>3. S = Nat
  <2>1. S \in SUBSET Nat
    OBVIOUS
  <2> HIDE DEF S
  <2> QED
    BY <1>1, <1>2, <2>1, Induction
<1>4. ASSUME NEW k \in 0 .. n
      PROVE  k \in P
  <2>1. k \in Nat
    OBVIOUS
  <2>2. k \in S
    BY <1>3, <2>1
  <2> QED
    BY <2>2
<1> QED
  BY <1>4

-----------------------------------------------------------------------------
(* Folds *)

LEMMA MaxIs ==
    ASSUME NEW S \in SUBSET Int, NEW m \in S, \A y \in S : m >= y
    PROVE  Max(S) = m
<1>1. \A x \in S : (\A y \in S : x >= y) => x = m
  OBVIOUS
<1>2. Max(S) \in S /\ \A y \in S : Max(S) >= y
  BY Zenon DEF Max
<1> QED
  BY <1>1, <1>2

\* g is the recursive function a fold by Max stands for, on the subsets of 1 .. n;
\* step[k] is what index k does to a value of S.
IsFoldOn(g, S, base, n, step) ==
    /\ g \in [SUBSET (1 .. n) -> S]
    /\ g[{}] = base
    /\ \A s \in SUBSET (1 .. n) :
           s # {} => Max(s) \in s /\ g[s] = step[Max(s)][g[s \ {Max(s)}]]

\* There is such a function: from one on the subsets of 1 .. k comes one on those
\* of 1 .. k + 1, because Max finds k + 1 in each of the new ones.
LEMMA FoldExists ==
    ASSUME NEW S, NEW base \in S, NEW n \in Nat, NEW step \in [1 .. n -> [S -> S]]
    PROVE  \E g : IsFoldOn(g, S, base, n, step)
<1> DEFINE Folds(g, k) == IsFoldOn(g, S, base, k, step)
           T == {k \in Nat : k <= n => \E g : Folds(g, k)}
<1> HIDE DEF Folds, IsFoldOn
<1>1. \E g : Folds(g, 0)
  <2>1. 1 .. 0 = {}
    OBVIOUS
  <2>2. Folds([s \in SUBSET (1 .. 0) |-> base], 0)
    BY <2>1 DEF Folds, IsFoldOn
  <2> QED
    BY <2>2
<1>2. ASSUME NEW k \in Nat, k + 1 <= n, NEW g, Folds(g, k)
      PROVE  \E h : Folds(h, k + 1)
  <2>1. k + 1 \in 1 .. n
    BY <1>2
  <2>2. /\ g \in [SUBSET (1 .. k) -> S]
        /\ g[{}] = base
        /\ \A s \in SUBSET (1 .. k) :
               s # {} => Max(s) \in s /\ g[s] = step[Max(s)][g[s \ {Max(s)}]]
    BY <1>2 DEF Folds, IsFoldOn
  <2> DEFINE h == [s \in SUBSET (1 .. (k + 1)) |->
                      IF k + 1 \in s THEN step[k + 1][g[s \ {k + 1}]] ELSE g[s]]
  <2>3. ASSUME NEW s \in SUBSET (1 .. (k + 1)), k + 1 \notin s
        PROVE  s \in SUBSET (1 .. k)
    BY <2>1, <2>3
  <2>4. ASSUME NEW s \in SUBSET (1 .. (k + 1))
        PROVE  s \ {k + 1} \in SUBSET (1 .. k)
    BY <2>1
  <2>5. h \in [SUBSET (1 .. (k + 1)) -> S]
    <3> SUFFICES ASSUME NEW s \in SUBSET (1 .. (k + 1))
                 PROVE  (IF k + 1 \in s THEN step[k + 1][g[s \ {k + 1}]] ELSE g[s]) \in S
      OBVIOUS
    <3>1. step[k + 1] \in [S -> S]
      BY <2>1
    <3>2. g[s \ {k + 1}] \in S
      BY <2>2, <2>4
    <3>3. step[k + 1][g[s \ {k + 1}]] \in S
      BY <3>1, <3>2
    <3> QED
      BY <2>2, <2>3, <3>3
  <2>6. h[{}] = base
    BY <2>1, <2>2
  <2>7. ASSUME NEW s \in SUBSET (1 .. (k + 1)), s # {}
        PROVE  Max(s) \in s /\ h[s] = step[Max(s)][h[s \ {Max(s)}]]
    <3>1. CASE k + 1 \in s
      <4>1. Max(s) = k + 1
        <5>1. s \in SUBSET Int /\ \A y \in s : k + 1 >= y
          BY <2>1
        <5> QED
          BY <3>1, <5>1, MaxIs
      <4>2. h[s \ {k + 1}] = g[s \ {k + 1}]
        BY <2>4
      <4>3. h[s] = step[k + 1][g[s \ {k + 1}]]
        BY <3>1
      <4> QED
        BY <3>1, <4>1, <4>2, <4>3
    <3>2. CASE k + 1 \notin s
      <4>1. s \in SUBSET (1 .. k) /\ h[s] = g[s]
        BY <2>3, <3>2
      <4>2. Max(s) \in s /\ g[s] = step[Max(s)][g[s \ {Max(s)}]]
        BY <2>2, <2>7, <4>1
      <4>3. h[s \ {Max(s)}] = g[s \ {Max(s)}]
        BY <3>2
      <4> QED
        BY <4>1, <4>2, <4>3
    <3> QED
      BY <3>1, <3>2
  <2>8. Folds(h, k + 1)
    BY <2>5, <2>6, <2>7 DEF Folds, IsFoldOn
  <2> QED
    BY <2>8
<1>3. \E g : Folds(g, n)
  <2>1. 0 \in T
    BY <1>1
  <2>2. ASSUME NEW k \in T
        PROVE  k + 1 \in T
    BY <1>2
  <2>3. T \in SUBSET Nat
    OBVIOUS
  <2> HIDE DEF T
  <2>4. T = Nat
    BY <2>1, <2>2, <2>3, Induction
  <2>5. n \in T
    BY <2>4
  <2> QED
    BY <2>5 DEF T
<1> QED
  BY <1>3 DEF Folds

\* What a fold by Max takes off a prefix is its last index.
LEMMA PrefixMax ==
    ASSUME NEW k \in Nat \ {0}
    PROVE  1 .. k # {} /\ Max(1 .. k) = k /\ (1 .. k) \ {k} = 1 .. (k - 1)
<1>1. 1 .. k \in SUBSET Int /\ k \in 1 .. k /\ \A y \in 1 .. k : k >= y
  OBVIOUS
<1>2. (1 .. k) \ {k} = 1 .. (k - 1)
  OBVIOUS
<1> QED
  BY <1>1, <1>2, MaxIs

-----------------------------------------------------------------------------
(* The traces of the two parsers *)

\* What InboxAssumption says of the tokens of a message.
WellFormed(tokens) ==
    /\ Len(tokens) \in Nat /\ DOMAIN tokens = 1 .. Len(tokens)
    /\ \A k \in DOMAIN tokens :
           tokens[k].key \in {"relay", "threshold", "price", "hour0"} => tokens[k].value \in Int

\* The settings before the first token.
Unmentioned == [relayNumber |-> -1, state |-> "noStateChange", mode |-> "noModeChange",
                threshold |-> NoThreshold, price |-> NoPrice]

LEMMA UnmentionedType == Unmentioned \in RelaySettings
BY DEF Unmentioned, RelaySettings, RelayState, RelayMode, Modes, NoThreshold, NoPrice

LEMMA ApplyTokenType ==
    ASSUME NEW s \in RelaySettings, NEW t,
           t.key \in {"relay", "threshold", "price", "hour0"} => t.value \in Int
    PROVE  ApplyToken(s, t) \in RelaySettings
<1>1. ASSUME NEW x \in Int
      PROVE  /\ [s EXCEPT !.relayNumber = x] \in RelaySettings
             /\ [s EXCEPT !.threshold = x] \in RelaySettings
             /\ [s EXCEPT !.price = x] \in RelaySettings
  BY DEF RelaySettings
<1>2. ASSUME NEW x \in RelayMode
      PROVE  [s EXCEPT !.mode = x] \in RelaySettings
  BY DEF RelaySettings
<1>3. ASSUME NEW x \in RelayState
      PROVE  [s EXCEPT !.state = x] \in RelaySettings
  BY DEF RelaySettings
<1>4. {"automatic", "manual"} \subseteq RelayMode /\ {"on", "off"} \subseteq RelayState
  BY DEF RelayMode, Modes, RelayState
<1> HIDE DEF RelaySettings
<1> QED
  BY <1>1, <1>2, <1>3, <1>4 DEF ApplyToken

\* The settings after each prefix of the tokens, the last of them what the parser
\* returns.
LEMMA SettingsTrace ==
    ASSUME NEW tokens, WellFormed(tokens)
    PROVE  \E a \in [0 .. Len(tokens) -> RelaySettings] :
               /\ a[0] = Unmentioned
               /\ \A k \in 1 .. Len(tokens) : a[k] = ApplyToken(a[k - 1], tokens[k])
               /\ ParseRelaySettings(tokens) = a[Len(tokens)]
<1> DEFINE n == Len(tokens)
           IsFold(it) == it = [s \in SUBSET DOMAIN tokens |->
                                  IF s = {} THEN Unmentioned
                                  ELSE ApplyToken(it[s \ {Max(s)}], tokens[Max(s)])]
           iter == CHOOSE it : IsFold(it)
           step == [k \in 1 .. n |-> [x \in RelaySettings |-> ApplyToken(x, tokens[k])]]
           a == [k \in 0 .. n |-> iter[1 .. k]]
<1>1. ParseRelaySettings(tokens) = iter[DOMAIN tokens]
  BY DEF ParseRelaySettings, FoldLeft, MapThenFoldSet, Unmentioned
<1>2. n \in Nat /\ DOMAIN tokens = 1 .. n
  BY DEF WellFormed
<1>3. ASSUME NEW k \in 1 .. n, NEW x \in RelaySettings
      PROVE  ApplyToken(x, tokens[k]) \in RelaySettings
  BY <1>2, ApplyTokenType DEF WellFormed
<1>4. step \in [1 .. n -> [RelaySettings -> RelaySettings]]
  BY <1>3
<1>5. IsFold(iter)
  <2> HIDE DEF n, step
  <2>0. PICK g : IsFoldOn(g, RelaySettings, Unmentioned, n, step)
    BY <1>2, <1>4, UnmentionedType, FoldExists
  <2>1. /\ g \in [SUBSET (1 .. n) -> RelaySettings]
        /\ g[{}] = Unmentioned
        /\ \A s \in SUBSET (1 .. n) :
               s # {} => Max(s) \in s /\ g[s] = step[Max(s)][g[s \ {Max(s)}]]
    BY <2>0 DEF IsFoldOn
  <2>2. ASSUME NEW s \in SUBSET (1 .. n), s # {}
        PROVE  g[s] = ApplyToken(g[s \ {Max(s)}], tokens[Max(s)])
    <3>1. Max(s) \in 1 .. n /\ g[s] = step[Max(s)][g[s \ {Max(s)}]]
      BY <2>1, <2>2
    <3>2. g[s \ {Max(s)}] \in RelaySettings
      BY <2>1
    <3> QED
      BY <3>1, <3>2 DEF step
  <2>3. g = [s \in SUBSET (1 .. n) |->
                IF s = {} THEN Unmentioned ELSE ApplyToken(g[s \ {Max(s)}], tokens[Max(s)])]
    BY <2>1, <2>2
  <2>4. IsFold(g)
    BY <1>2, <2>3
  <2> QED
    BY Zenon, <2>4
<1>6. a[0] = Unmentioned
  <2>1. 1 .. 0 = {} /\ {} \in SUBSET DOMAIN tokens /\ 0 \in 0 .. n
    BY <1>2
  <2> HIDE DEF iter
  <2>2. iter[{}] = Unmentioned
    BY <1>5, <2>1
  <2> QED
    BY <2>1, <2>2
<1>7. ASSUME NEW k \in 1 .. n
      PROVE  a[k] = ApplyToken(a[k - 1], tokens[k])
  <2>1. /\ 1 .. k \in SUBSET DOMAIN tokens /\ 1 .. k # {}
        /\ Max(1 .. k) = k /\ (1 .. k) \ {k} = 1 .. (k - 1)
        /\ k \in 0 .. n /\ k - 1 \in 0 .. n
    BY <1>2, PrefixMax
  <2> HIDE DEF iter
  <2>2. iter[1 .. k] = ApplyToken(iter[(1 .. k) \ {Max(1 .. k)}], tokens[Max(1 .. k)])
    BY <1>5, <2>1
  <2> QED
    BY <2>1, <2>2
<1> HIDE DEF a
<1>8. a \in [0 .. n -> RelaySettings]
  <2> DEFINE P == {k \in 0 .. n : a[k] \in RelaySettings}
  <2>1. 0 \in P
    BY <1>2, <1>6, UnmentionedType
  <2>2. ASSUME NEW k \in 1 .. n, k - 1 \in P
        PROVE  k \in P
    BY <1>2, <1>3, <1>7, <2>2
  <2>3. P = 0 .. n
    <3>1. P \in SUBSET (0 .. n)
      OBVIOUS
    <3> HIDE DEF P
    <3> QED
      BY <1>2, <2>1, <2>2, <3>1, TraceInduction
  <2>4. a = [k \in 0 .. n |-> a[k]]
    BY DEF a
  <2> QED
    BY <2>3, <2>4
<1>9. ParseRelaySettings(tokens) = a[n]
  BY <1>1, <1>2 DEF a
<1> QED
  BY <1>6, <1>7, <1>8, <1>9

\* A price is a number: the fold of the parser of prices has a trace as well.
LEMMA PriceTrace ==
    ASSUME NEW tokens, WellFormed(tokens)
    PROVE  ParsePrice(tokens) \in Int
<1> DEFINE n == Len(tokens)
           Next1(x, t) == IF t.key = "hour0" THEN t.value ELSE x
           IsFold(it) == it = [s \in SUBSET DOMAIN tokens |->
                                  IF s = {} THEN 0 ELSE Next1(it[s \ {Max(s)}], tokens[Max(s)])]
           iter == CHOOSE it : IsFold(it)
           step == [k \in 1 .. n |-> [x \in Int |-> Next1(x, tokens[k])]]
<1>1. ParsePrice(tokens) = iter[DOMAIN tokens]
  BY DEF ParsePrice, FoldLeft, MapThenFoldSet
<1>2. n \in Nat /\ DOMAIN tokens = 1 .. n
  BY DEF WellFormed
<1>3. ASSUME NEW k \in 1 .. n, NEW x \in Int
      PROVE  Next1(x, tokens[k]) \in Int
  BY <1>2 DEF WellFormed
<1> HIDE DEF Next1
<1>4. step \in [1 .. n -> [Int -> Int]]
  BY <1>3
<1>5. IsFold(iter)
  <2> HIDE DEF n, step
  <2>0. PICK g : IsFoldOn(g, Int, 0, n, step)
    <3>1. 0 \in Int
      OBVIOUS
    <3> QED
      BY <1>2, <1>4, <3>1, FoldExists
  <2>1. /\ g \in [SUBSET (1 .. n) -> Int]
        /\ g[{}] = 0
        /\ \A s \in SUBSET (1 .. n) :
               s # {} => Max(s) \in s /\ g[s] = step[Max(s)][g[s \ {Max(s)}]]
    BY <2>0 DEF IsFoldOn
  <2>2. ASSUME NEW s \in SUBSET (1 .. n), s # {}
        PROVE  g[s] = Next1(g[s \ {Max(s)}], tokens[Max(s)])
    <3>1. Max(s) \in 1 .. n /\ g[s] = step[Max(s)][g[s \ {Max(s)}]]
      BY <2>1, <2>2
    <3>2. g[s \ {Max(s)}] \in Int
      BY <2>1
    <3> QED
      BY <3>1, <3>2 DEF step
  <2>3. g = [s \in SUBSET (1 .. n) |->
                IF s = {} THEN 0 ELSE Next1(g[s \ {Max(s)}], tokens[Max(s)])]
    BY <2>1, <2>2
  <2>4. IsFold(g)
    BY <1>2, <2>3
  <2> QED
    BY Zenon, <2>4
<1> DEFINE P == {k \in 0 .. n : iter[1 .. k] \in Int}
<1> HIDE DEF iter
<1>6. 0 \in P
  <2>1. 1 .. 0 = {} /\ {} \in SUBSET DOMAIN tokens /\ 0 \in 0 .. n
    BY <1>2
  <2>2. iter[{}] = 0
    BY <1>5, <2>1
  <2> QED
    BY <2>1, <2>2
<1>7. ASSUME NEW k \in 1 .. n, k - 1 \in P
      PROVE  k \in P
  <2>1. /\ 1 .. k \in SUBSET DOMAIN tokens /\ 1 .. k # {}
        /\ Max(1 .. k) = k /\ (1 .. k) \ {k} = 1 .. (k - 1)
        /\ k \in 0 .. n
    BY <1>2, PrefixMax
  <2>2. iter[1 .. k] = Next1(iter[(1 .. k) \ {Max(1 .. k)}], tokens[Max(1 .. k)])
    BY <1>5, <2>1
  <2>3. iter[1 .. (k - 1)] \in Int
    BY <1>7
  <2> QED
    BY <1>3, <2>1, <2>2, <2>3
<1>8. P = 0 .. n
  <2>1. P \in SUBSET (0 .. n)
    OBVIOUS
  <2> HIDE DEF P
  <2> QED
    BY <1>2, <1>6, <1>7, <2>1, TraceInduction
<1>9. iter[1 .. n] \in Int
  <2>1. n \in P
    BY <1>2, <1>8
  <2> QED
    BY <2>1
<1> QED
  BY <1>1, <1>2, <1>9

-----------------------------------------------------------------------------
(* Type correctness *)

LEMMA InboxWellFormed ==
    ASSUME NEW m \in Inbox
    PROVE  WellFormed(m.tokens)
BY InboxAssumption DEF WellFormed

LEMMA ParseTypes ==
    ASSUME NEW m \in Inbox
    PROVE  ParseRelaySettings(m.tokens) \in RelaySettings /\ ParsePrice(m.tokens) \in Int
<1>1. WellFormed(m.tokens)
  BY InboxWellFormed
<1>2. PICK a \in [0 .. Len(m.tokens) -> RelaySettings] : ParseRelaySettings(m.tokens) = a[Len(m.tokens)]
  BY <1>1, SettingsTrace
<1>3. Len(m.tokens) \in 0 .. Len(m.tokens)
  BY <1>1 DEF WellFormed
<1> QED
  BY <1>1, <1>2, <1>3, PriceTrace
\* What a send with a timeout does to a queue, and what taking its first entry
\* does, keeps the queue's type and its bound.
LEMMA QueueTypes ==
    ASSUME NEW S, NEW q \in Seq(S), NEW n \in Nat, Len(q) <= n
    PROVE  /\ \A x \in S : HasRoom(q, n) => Append(q, x) \in Seq(S) /\ Len(Append(q, x)) <= n
           /\ q # <<>> => Head(q) \in S /\ Tail(q) \in Seq(S) /\ Len(Tail(q)) <= n
BY DEF HasRoom

LEMMA MqttInitType == MqttSpecInit => MqttTypeOK
<1>1. ReceiveQueueLen \in Nat /\ RelayQueueLen \in Nat /\ PriceQueueLen \in Nat
  BY ReceiveAssumption
<1> SUFFICES ASSUME MqttSpecInit
             PROVE  MqttTypeOK
  OBVIOUS
<1>2. mqttReceiveQueue \in Seq(Inbox) /\ Len(mqttReceiveQueue) <= ReceiveQueueLen
  BY <1>1 DEF MqttSpecInit, MqttInit
<1>3. relayQueue \in Seq(RelaySettings) /\ Len(relayQueue) <= RelayQueueLen
  BY <1>1 DEF MqttSpecInit
<1>4. priceQueue \in Seq(Int) /\ Len(priceQueue) <= PriceQueueLen
  BY <1>1 DEF MqttSpecInit
<1>5. /\ newMessage \in BOOLEAN /\ sendRelayStatusSemaphore \in BOOLEAN
      /\ mqttPc = "take" /\ mqtt = NoMessage
  BY DEF MqttSpecInit, MqttInit
<1> QED
  BY <1>2, <1>3, <1>4, <1>5 DEF MqttTypeOK

LEMMA MqttStepType == MqttTypeOK /\ [MqttNext]_taskVars => MqttTypeOK'
<1> SUFFICES ASSUME MqttTypeOK, [MqttNext]_taskVars
             PROVE  MqttTypeOK'
  OBVIOUS
<1> USE DEF relayInputs
<1>n. ReceiveQueueLen \in Nat /\ RelayQueueLen \in Nat /\ PriceQueueLen \in Nat
  BY ReceiveAssumption
<1>1. CASE TakeMessage
  <2>1. /\ Head(mqttReceiveQueue) \in Inbox
        /\ Tail(mqttReceiveQueue) \in Seq(Inbox) /\ Len(Tail(mqttReceiveQueue)) <= ReceiveQueueLen
    BY <1>1, <1>n, QueueTypes DEF TakeMessage, MqttTypeOK
  <2> QED
    BY <1>1, <2>1 DEF TakeMessage, MqttTypeOK
<1>2. CASE AnswerPing
  BY <1>2 DEF AnswerPing, Done, MqttTypeOK
<1>3. CASE RefuseCommand \/ IgnoreMessage
  BY <1>3 DEF RefuseCommand, IgnoreMessage, Done, MqttTypeOK
<1>4. CASE ForwardCommand
  <2> DEFINE c == ParseRelaySettings(mqtt.tokens)
  <2>1. c \in RelaySettings
    BY <1>4, ParseTypes DEF ForwardCommand, Done, MqttTypeOK
  <2>2. relayQueue' = IF HasRoom(relayQueue, RelayQueueLen) THEN Append(relayQueue, c) ELSE relayQueue
    BY <1>4 DEF ForwardCommand
  <2> HIDE DEF c
  <2>3. relayQueue' \in Seq(RelaySettings) /\ Len(relayQueue') <= RelayQueueLen
    BY <1>n, <2>1, <2>2, QueueTypes DEF MqttTypeOK
  <2> QED
    BY <1>4, <2>3 DEF ForwardCommand, Done, MqttTypeOK
<1>5. CASE ForwardPrice
  <2> DEFINE p == ParsePrice(mqtt.tokens)
  <2>1. p \in Int
    BY <1>5, ParseTypes DEF ForwardPrice, Done, MqttTypeOK
  <2>2. priceQueue' = IF HasRoom(priceQueue, PriceQueueLen) THEN Append(priceQueue, p) ELSE priceQueue
    BY <1>5 DEF ForwardPrice
  <2> HIDE DEF p
  <2>3. priceQueue' \in Seq(Int) /\ Len(priceQueue') <= PriceQueueLen
    BY <1>n, <2>1, <2>2, QueueTypes DEF MqttTypeOK
  <2> QED
    BY <1>5, <2>3 DEF ForwardPrice, Done, MqttTypeOK
<1>6. CASE RelayTaskTakes
  <2>1. relayQueue # <<>> =>
            Tail(relayQueue) \in Seq(RelaySettings) /\ Len(Tail(relayQueue)) <= RelayQueueLen
    BY <1>n, QueueTypes DEF MqttTypeOK
  <2>2. priceQueue # <<>> => Tail(priceQueue) \in Seq(Int) /\ Len(Tail(priceQueue)) <= PriceQueueLen
    BY <1>n, QueueTypes DEF MqttTypeOK
  <2> QED
    BY <1>6, <2>1, <2>2 DEF RelayTaskTakes, mqttVars, MqttTypeOK
<1>7. CASE ClearNewMessage
  BY <1>7 DEF ClearNewMessage, MqttTypeOK
<1>8. ASSUME NEW m \in Inbox, Deliver(m)
      PROVE  MqttTypeOK'
  <2>1. mqttReceiveQueue' \in Seq(Inbox) /\ Len(mqttReceiveQueue') <= ReceiveQueueLen
    BY <1>8, <1>n, QueueTypes DEF Deliver, MqttTypeOK
  <2> QED
    BY <1>8, <2>1 DEF Deliver, MqttTypeOK
<1>9. CASE UNCHANGED taskVars
  BY <1>9 DEF taskVars, mqttVars, MqttTypeOK
<1> QED
  BY <1>1, <1>2, <1>3, <1>4, <1>5, <1>6, <1>7, <1>8, <1>9 DEF MqttNext, MqttStep

\* The queues of the MQTT task keep their types and lengths, and what the task sends
\* on is a command or a price, whatever the broker delivers (mqttTask.cpp:16-49).
THEOREM MqttTypeCorrect == MqttSpec => []MqttTypeOK
BY MqttInitType, MqttStepType, PTL DEF MqttSpec

-----------------------------------------------------------------------------
(* The last mention of each setting *)

\* The tokens among the first k that mention key with an acceptable value.
Mentions(tokens, k, key, acceptable) ==
    {j \in 1 .. k : tokens[j].key = key /\ tokens[j].value \in acceptable}

\* LastValue of the first k tokens.
LastOf(tokens, k, key, acceptable, default) ==
    IF Mentions(tokens, k, key, acceptable) = {} THEN default
    ELSE tokens[Max(Mentions(tokens, k, key, acceptable))].value

\* One more token either is the last mention or does not count.
LEMMA LastOfNext ==
    ASSUME NEW tokens, NEW k \in Nat \ {0}, NEW key, NEW acceptable, NEW default
    PROVE  LastOf(tokens, k, key, acceptable, default) =
               IF tokens[k].key = key /\ tokens[k].value \in acceptable THEN tokens[k].value
               ELSE LastOf(tokens, k - 1, key, acceptable, default)
<1> DEFINE J == Mentions(tokens, k, key, acceptable)
<1>1. J \in SUBSET Int /\ \A j \in J : k >= j
  BY DEF Mentions
<1>2. CASE tokens[k].key = key /\ tokens[k].value \in acceptable
  <2>1. k \in J
    BY <1>2 DEF Mentions
  <2>2. Max(J) = k
    BY <1>1, <2>1, MaxIs
  <2> QED
    BY <1>2, <2>1, <2>2 DEF LastOf
<1>3. CASE ~(tokens[k].key = key /\ tokens[k].value \in acceptable)
  <2>1. J = Mentions(tokens, k - 1, key, acceptable)
    BY <1>3 DEF Mentions
  <2> QED
    BY <1>3, <2>1 DEF LastOf
<1> QED
  BY <1>2, <1>3

LEMMA LastOfNone ==
    ASSUME NEW tokens, NEW key, NEW acceptable, NEW default
    PROVE  LastOf(tokens, 0, key, acceptable, default) = default
<1>1. Mentions(tokens, 0, key, acceptable) = {}
  BY DEF Mentions
<1> QED
  BY <1>1 DEF LastOf

LEMMA LastOfAll ==
    ASSUME NEW tokens, WellFormed(tokens), NEW key, NEW acceptable, NEW default
    PROVE  LastValue(tokens, key, acceptable, default)
               = LastOf(tokens, Len(tokens), key, acceptable, default)
BY DEF LastValue, LastOf, Mentions, WellFormed

\* The settings s are what the first k tokens say last.
SaidLast(s, tokens, k) ==
    LET mode == LastOf(tokens, k, "mode", {"auto", "manual"}, "none")
    IN  /\ s.relayNumber = LastOf(tokens, k, "relay", Int, -1)
        /\ s.state = LastOf(tokens, k, "state", {"on", "off"}, "noStateChange")
        /\ s.mode = CASE mode = "auto" -> "automatic"
                      [] mode = "manual" -> "manual"
                      [] mode = "none" -> "noModeChange"
        /\ s.threshold = LastOf(tokens, k, "threshold", Int, NoThreshold)
        /\ s.price = LastOf(tokens, k, "price", Int, NoPrice)

\* Each of the settings after one more token.
LEMMA ApplyTokenFields ==
    ASSUME NEW s \in RelaySettings, NEW t,
           t.key \in {"relay", "threshold", "price", "hour0"} => t.value \in Int
    PROVE  LET u == ApplyToken(s, t)
           IN  /\ u.relayNumber = IF t.key = "relay" /\ t.value \in Int THEN t.value ELSE s.relayNumber
               /\ u.state = IF t.key = "state" /\ t.value \in {"on", "off"} THEN t.value ELSE s.state
               /\ u.mode = IF t.key = "mode" /\ t.value \in {"auto", "manual"}
                           THEN IF t.value = "auto" THEN "automatic" ELSE "manual" ELSE s.mode
               /\ u.threshold = IF t.key = "threshold" /\ t.value \in Int THEN t.value ELSE s.threshold
               /\ u.price = IF t.key = "price" /\ t.value \in Int THEN t.value ELSE s.price
<1>1. CASE t.key = "relay"
  BY <1>1 DEF ApplyToken, RelaySettings
<1>2. CASE t.key = "mode"
  BY <1>2 DEF ApplyToken, RelaySettings
<1>3. CASE t.key = "state"
  BY <1>3 DEF ApplyToken, RelaySettings
<1>4. CASE t.key = "threshold"
  BY <1>4 DEF ApplyToken, RelaySettings
<1>5. CASE t.key = "price"
  BY <1>5 DEF ApplyToken, RelaySettings
<1>6. CASE t.key \notin {"relay", "mode", "state", "threshold", "price"}
  <2>1. ApplyToken(s, t) = s
    BY <1>6 DEF ApplyToken
  <2> QED
    BY <1>6, <2>1
<1> QED
  BY <1>1, <1>2, <1>3, <1>4, <1>5, <1>6

LEMMA SaidLastStart ==
    ASSUME NEW tokens
    PROVE  SaidLast(Unmentioned, tokens, 0)
BY LastOfNone DEF SaidLast, Unmentioned

LEMMA SaidLastNext ==
    ASSUME NEW tokens, WellFormed(tokens), NEW k \in 1 .. Len(tokens),
           NEW s \in RelaySettings, SaidLast(s, tokens, k - 1)
    PROVE  SaidLast(ApplyToken(s, tokens[k]), tokens, k)
<1> DEFINE t == tokens[k]
           u == ApplyToken(s, t)
           mode0 == LastOf(tokens, k - 1, "mode", {"auto", "manual"}, "none")
           mode1 == LastOf(tokens, k, "mode", {"auto", "manual"}, "none")
<1>0. k \in Nat \ {0}
  BY DEF WellFormed
<1>1. t.key \in {"relay", "threshold", "price", "hour0"} => t.value \in Int
  BY DEF WellFormed
<1>2. /\ u.relayNumber = IF t.key = "relay" /\ t.value \in Int THEN t.value ELSE s.relayNumber
      /\ u.state = IF t.key = "state" /\ t.value \in {"on", "off"} THEN t.value ELSE s.state
      /\ u.mode = IF t.key = "mode" /\ t.value \in {"auto", "manual"}
                  THEN IF t.value = "auto" THEN "automatic" ELSE "manual" ELSE s.mode
      /\ u.threshold = IF t.key = "threshold" /\ t.value \in Int THEN t.value ELSE s.threshold
      /\ u.price = IF t.key = "price" /\ t.value \in Int THEN t.value ELSE s.price
  BY <1>1, ApplyTokenFields
<1> HIDE DEF u
<1>3. u.relayNumber = LastOf(tokens, k, "relay", Int, -1)
  BY <1>0, <1>2, LastOfNext DEF SaidLast
<1>4. u.state = LastOf(tokens, k, "state", {"on", "off"}, "noStateChange")
  BY <1>0, <1>2, LastOfNext DEF SaidLast
<1>5. u.threshold = LastOf(tokens, k, "threshold", Int, NoThreshold)
  BY <1>0, <1>2, LastOfNext DEF SaidLast
<1>6. u.price = LastOf(tokens, k, "price", Int, NoPrice)
  BY <1>0, <1>2, LastOfNext DEF SaidLast
<1>7. u.mode = CASE mode1 = "auto" -> "automatic"
                 [] mode1 = "manual" -> "manual"
                 [] mode1 = "none" -> "noModeChange"
  <2>1. mode1 = IF t.key = "mode" /\ t.value \in {"auto", "manual"} THEN t.value ELSE mode0
    BY <1>0, LastOfNext
  <2>2. s.mode = CASE mode0 = "auto" -> "automatic"
                   [] mode0 = "manual" -> "manual"
                   [] mode0 = "none" -> "noModeChange"
    BY DEF SaidLast
  <2> HIDE DEF mode0, mode1
  <2>3. CASE t.key = "mode" /\ t.value \in {"auto", "manual"}
    BY <1>2, <2>1, <2>3
  <2>4. CASE ~(t.key = "mode" /\ t.value \in {"auto", "manual"})
    BY <1>2, <2>1, <2>2, <2>4
  <2> QED
    BY <2>3, <2>4
<1> QED
  BY <1>3, <1>4, <1>5, <1>6, <1>7 DEF SaidLast, u

\* What the parser makes of any tokens is what they say last.
LEMMA ParserKeepsLast ==
    ASSUME NEW tokens, WellFormed(tokens)
    PROVE  SaidLast(ParseRelaySettings(tokens), tokens, Len(tokens))
<1> DEFINE n == Len(tokens)
<1>1. PICK a \in [0 .. n -> RelaySettings] :
          /\ a[0] = Unmentioned
          /\ \A k \in 1 .. n : a[k] = ApplyToken(a[k - 1], tokens[k])
          /\ ParseRelaySettings(tokens) = a[n]
  BY SettingsTrace
<1>2. n \in Nat
  BY DEF WellFormed
<1> DEFINE P == {k \in 0 .. n : SaidLast(a[k], tokens, k)}
<1>3. 0 \in P
  BY <1>1, <1>2, SaidLastStart
<1>4. ASSUME NEW k \in 1 .. n, k - 1 \in P
      PROVE  k \in P
  <2>1. k - 1 \in 0 .. n /\ k \in 0 .. n /\ a[k - 1] \in RelaySettings
    BY <1>2
  <2>2. SaidLast(a[k - 1], tokens, k - 1)
    BY <1>4
  <2>3. SaidLast(ApplyToken(a[k - 1], tokens[k]), tokens, k)
    BY <2>1, <2>2, SaidLastNext
  <2> QED
    BY <1>1, <2>1, <2>3
<1>5. P = 0 .. n
  <2>1. P \in SUBSET (0 .. n)
    OBVIOUS
  <2> HIDE DEF P
  <2> QED
    BY <1>2, <1>3, <1>4, <2>1, TraceInduction
<1>6. n \in P
  BY <1>2, <1>5
<1> QED
  BY <1>1, <1>6

LEMMA TypesMeanLastMention == MqttTypeOK => LastMentionCounts
<1> SUFFICES ASSUME MqttTypeOK, mqttPc = "act"
             PROVE  LastMentionCounts
  BY DEF LastMentionCounts
<1>1. WellFormed(mqtt.tokens)
  BY InboxWellFormed DEF MqttTypeOK
<1>2. SaidLast(ParseRelaySettings(mqtt.tokens), mqtt.tokens, Len(mqtt.tokens))
  BY <1>1, ParserKeepsLast
<1> DEFINE tokens == mqtt.tokens
           s == ParseRelaySettings(tokens)
<1> HIDE DEF tokens, s
<1>3. \A key, acceptable, default :
          LastOf(tokens, Len(tokens), key, acceptable, default)
              = LastValue(tokens, key, acceptable, default)
  BY <1>1, LastOfAll DEF tokens
<1>4. SaidLast(s, tokens, Len(tokens))
  BY <1>2 DEF s, tokens
<1>5. /\ s.relayNumber = LastValue(tokens, "relay", Int, -1)
      /\ s.state = LastValue(tokens, "state", {"on", "off"}, "noStateChange")
      /\ s.threshold = LastValue(tokens, "threshold", Int, NoThreshold)
      /\ s.price = LastValue(tokens, "price", Int, NoPrice)
  BY <1>3, <1>4 DEF SaidLast
<1>6. LET mode == LastValue(tokens, "mode", {"auto", "manual"}, "none")
      IN  s.mode = CASE mode = "auto" -> "automatic"
                     [] mode = "manual" -> "manual"
                     [] mode = "none" -> "noModeChange"
  BY <1>3, <1>4 DEF SaidLast
<1> QED
  BY <1>5, <1>6 DEF LastMentionCounts, s, tokens

\* For every message the broker may deliver, however long, and in whatever order it
\* says things: the command the MQTT task has in hand means what its last acceptable
\* mention of each setting says (mqttTask.cpp:98-150).
THEOREM CommandsMeanLastMention == MqttSpec => []LastMentionCounts
BY TypesMeanLastMention, MqttTypeCorrect, PTL
=============================================================================
