-------------------------- MODULE SupervisorProofs --------------------------
(***************************************************************************)
(* Proofs about Supervisor, for any number of children and processes, any  *)
(* strategies and restart types, and any restart intensity.                *)
(***************************************************************************)
EXTENDS Supervisor, SequenceTheorems, WellFoundedInduction, TLAPS

-----------------------------------------------------------------------------
(***************************************************************************)
(* What there is to do: the plans of a start, a stop and a restart.        *)
(***************************************************************************)
LEMMA StepTyping ==
    ASSUME NEW op \in {"start", "terminate"}, NEW id \in Id
    PROVE  Step(op, id) \in Steps /\ Step(op, id).op = op /\ Step(op, id).id = id
  BY DEF Step, Steps

LEMMA StartFromShape ==
    ASSUME NEW f \in 1 .. NumChildren + 1
    PROVE  /\ StartFrom(f) \in Seq(Steps)
           /\ Len(StartFrom(f)) = NumChildren - f + 1
           /\ \A i \in 1 .. NumChildren - f + 1 :
                 StartFrom(f)[i].op = "start" /\ StartFrom(f)[i].id = f + i - 1
  <1> DEFINE n == NumChildren - f + 1
  <1>1. n \in Nat
    BY NumChildrenAssumption
  <1>2. \A i \in 1 .. n : f + i - 1 \in Id
    BY NumChildrenAssumption DEF Id
  <1>3. \A i \in 1 .. n : Step("start", f + i - 1) \in Steps
    BY <1>2, StepTyping
  <1>4. StartFrom(f) = [i \in 1 .. n |-> Step("start", f + i - 1)]
    BY DEF StartFrom
  <1>5. StartFrom(f) \in Seq(Steps) /\ Len(StartFrom(f)) = n
    BY <1>1, <1>3, <1>4
  <1>6. \A i \in 1 .. n : StartFrom(f)[i] = Step("start", f + i - 1)
    BY <1>4
  <1>7. \A i \in 1 .. n : /\ Step("start", f + i - 1).op = "start"
                        /\ Step("start", f + i - 1).id = f + i - 1
    BY <1>2, StepTyping
  <1>8. QED
    BY <1>5, <1>6, <1>7

LEMMA TerminateFromShape ==
    ASSUME NEW f \in 1 .. NumChildren + 1
    PROVE  /\ TerminateFrom(f) \in Seq(Steps)
           /\ Len(TerminateFrom(f)) = NumChildren - f + 1
           /\ \A i \in 1 .. NumChildren - f + 1 :
                 /\ TerminateFrom(f)[i].op = "terminate"
                 /\ TerminateFrom(f)[i].id = NumChildren - i + 1
  <1> DEFINE n == NumChildren - f + 1
  <1>1. n \in Nat
    BY NumChildrenAssumption
  <1>2. \A i \in 1 .. n : NumChildren - i + 1 \in Id
    BY NumChildrenAssumption DEF Id
  <1>3. \A i \in 1 .. n : Step("terminate", NumChildren - i + 1) \in Steps
    BY <1>2, StepTyping
  <1>4. TerminateFrom(f) = [i \in 1 .. n |-> Step("terminate", NumChildren - i + 1)]
    BY DEF TerminateFrom
  <1>5. TerminateFrom(f) \in Seq(Steps) /\ Len(TerminateFrom(f)) = n
    BY <1>1, <1>3, <1>4
  <1>6. \A i \in 1 .. n : TerminateFrom(f)[i] = Step("terminate", NumChildren - i + 1)
    BY <1>4
  <1>7. \A i \in 1 .. n : /\ Step("terminate", NumChildren - i + 1).op = "terminate"
                        /\ Step("terminate", NumChildren - i + 1).id = NumChildren - i + 1
    BY <1>2, StepTyping
  <1>8. QED
    BY <1>5, <1>6, <1>7

\* A sequence of steps t fits the children c: what is to be started is down by
\* then, no child is started twice, and all starts come last.
Fits(t, c) ==
    /\ \A i \in 1 .. Len(t) : t[i].op = "start" =>
          \/ c[t[i].id] = None
          \/ \E j \in 1 .. i - 1 : t[j].op = "terminate" /\ t[j].id = t[i].id
    /\ \A i, j \in 1 .. Len(t) : i < j /\ t[i].op = "start" =>
          t[j].op = "start" /\ t[i].id # t[j].id

LEMMA StartFits == ASSUME NEW c, \A id \in Id : c[id] = None PROVE Fits(StartFrom(1), c)
  <1>1. 1 \in 1 .. NumChildren + 1
    BY NumChildrenAssumption
  <1>2. Len(StartFrom(1)) = NumChildren
    BY <1>1, StartFromShape, NumChildrenAssumption
  <1>3. \A i \in 1 .. NumChildren : StartFrom(1)[i].op = "start" /\ StartFrom(1)[i].id = i
    <2>1. NumChildren - 1 + 1 = NumChildren /\ \A i \in Int : 1 + i - 1 = i
      BY NumChildrenAssumption
    <2>2. \A i \in 1 .. NumChildren :
              StartFrom(1)[i].op = "start" /\ StartFrom(1)[i].id = 1 + i - 1
      BY <1>1, <2>1, StartFromShape
    <2>3. QED
      BY <2>1, <2>2
  <1>4. QED
    BY <1>2, <1>3, NumChildrenAssumption DEF Fits, Id

LEMMA TerminateFits == ASSUME NEW c PROVE Fits(TerminateFrom(1), c)
  <1>1. 1 \in 1 .. NumChildren + 1
    BY NumChildrenAssumption
  <1>2. Len(TerminateFrom(1)) = NumChildren
    BY <1>1, TerminateFromShape, NumChildrenAssumption
  <1>3. \A i \in 1 .. NumChildren : TerminateFrom(1)[i].op = "terminate"
    BY <1>1, TerminateFromShape, NumChildrenAssumption
  <1>4. QED
    BY <1>2, <1>3 DEF Fits

LEMMA ConcatSteps ==
    ASSUME NEW n \in Nat, NEW a \in Seq(Steps), NEW b \in Seq(Steps), Len(a) = n, Len(b) = n
    PROVE  /\ a \o b \in Seq(Steps)
           /\ Len(a \o b) = n + n
           /\ \A i \in 1 .. n + n : (a \o b)[i] = IF i <= n THEN a[i] ELSE b[i - n]
  <1>1. /\ a \o b \in Seq(Steps)
        /\ Len(a \o b) = Len(a) + Len(b)
        /\ \A i \in 1 .. Len(a) + Len(b) :
              (a \o b)[i] = IF i <= Len(a) THEN a[i] ELSE b[i - Len(a)]
    BY ConcatProperties, Zenon
  <1>2. QED
    BY <1>1

LEMMA RestartShape ==
    ASSUME NEW f \in Id
    PROVE  LET t == TerminateFrom(f) \o StartFrom(f)
               n == NumChildren - f + 1
           IN /\ t \in Seq(Steps)
              /\ n \in Nat /\ Len(t) = n + n
              /\ \A i \in 1 .. n : t[i].op = "terminate" /\ t[i].id = NumChildren - i + 1
              /\ \A i \in n + 1 .. n + n : t[i].op = "start" /\ t[i].id = f + i - n - 1
  <1> DEFINE t == TerminateFrom(f) \o StartFrom(f)
             n == NumChildren - f + 1
  <1>1. f \in 1 .. NumChildren + 1 /\ n \in Nat
    BY NumChildrenAssumption DEF Id
  <1>2. /\ t \in Seq(Steps)
        /\ Len(t) = n + n
        /\ \A i \in 1 .. n + n :
              t[i] = IF i <= n THEN TerminateFrom(f)[i] ELSE StartFrom(f)[i - n]
    <2>1. /\ TerminateFrom(f) \in Seq(Steps) /\ Len(TerminateFrom(f)) = n
          /\ StartFrom(f) \in Seq(Steps) /\ Len(StartFrom(f)) = n
      BY <1>1, StartFromShape, TerminateFromShape
    <2>2. QED
      BY <1>1, <2>1, ConcatSteps
  <1>3. ASSUME NEW i \in 1 .. n PROVE t[i] = TerminateFrom(f)[i]
    BY <1>1, <1>2
  <1>4. ASSUME NEW i \in n + 1 .. n + n
        PROVE  i - n \in 1 .. n /\ t[i] = StartFrom(f)[i - n]
    BY <1>1, <1>2
  <1>5. \A i \in 1 .. n : t[i].op = "terminate" /\ t[i].id = NumChildren - i + 1
    BY <1>1, <1>3, TerminateFromShape
  <1>6. ASSUME NEW i \in n + 1 .. n + n PROVE t[i].op = "start" /\ t[i].id = f + i - n - 1
    <2>1. i - n \in 1 .. n /\ t[i] = StartFrom(f)[i - n]
      BY <1>4
    <2>2. t[i].op = "start" /\ t[i].id = f + (i - n) - 1
      BY <1>1, <2>1, StartFromShape
    <2>3. f + (i - n) - 1 = f + i - n - 1
      BY <1>1, <2>1 DEF Id
    <2>4. QED
      BY <2>2, <2>3
  <1>7. QED
    BY <1>1, <1>2, <1>5, <1>6

LEMMA RestartFits ==
    ASSUME NEW f \in Id, NEW c PROVE Fits(TerminateFrom(f) \o StartFrom(f), c)
  <1> DEFINE t == TerminateFrom(f) \o StartFrom(f)
             n == NumChildren - f + 1
  <1>1. /\ n \in Nat /\ Len(t) = n + n
        /\ \A i \in 1 .. n : t[i].op = "terminate" /\ t[i].id = NumChildren - i + 1
        /\ \A i \in n + 1 .. n + n : t[i].op = "start" /\ t[i].id = f + i - n - 1
    BY RestartShape
  <1> HIDE DEF t
  <1>2. f \in Int /\ NumChildren \in Int
    BY NumChildrenAssumption DEF Id
  <1>3. ASSUME NEW i \in 1 .. Len(t), t[i].op = "start"
        PROVE  i \in n + 1 .. n + n
    BY <1>1, <1>3
  <1>4. ASSUME NEW i \in 1 .. Len(t), t[i].op = "start"
        PROVE  \E j \in 1 .. i - 1 : t[j].op = "terminate" /\ t[j].id = t[i].id
    <2>1. i \in n + 1 .. n + n
      BY <1>3, <1>4
    <2> DEFINE j == NumChildren - (f + i - n - 1) + 1
    <2>2. j \in 1 .. n /\ j \in 1 .. i - 1 /\ NumChildren - j + 1 = f + i - n - 1
      BY <1>1, <1>2, <2>1
    <2>3. t[j].op = "terminate" /\ t[j].id = t[i].id
      BY <1>1, <2>1, <2>2
    <2>4. QED
      BY <2>2, <2>3
  <1>5. ASSUME NEW i \in 1 .. Len(t), NEW j \in 1 .. Len(t), i < j, t[i].op = "start"
        PROVE  t[j].op = "start" /\ t[i].id # t[j].id
    <2>1. i \in n + 1 .. n + n /\ j \in n + 1 .. n + n
      BY <1>1, <1>3, <1>5
    <2>2. QED
      BY <1>1, <1>2, <1>5, <2>1
  <1>6. Fits(t, c)
    BY <1>4, <1>5 DEF Fits
  <1>7. QED
    BY <1>6 DEF t

LEMMA OneFits ==
    ASSUME NEW id \in Id, NEW c, c[id] = None PROVE Fits(<<Step("start", id)>>, c)
  BY DEF Fits, Step

LEMMA FirstTyping == ASSUME NEW id \in Id PROVE First(id) \in Id /\ First(id) <= id
  BY NumChildrenAssumption DEF First, Id

LEMMA PlanFits ==
    ASSUME NEW id \in Id, NEW c, c[id] = None
    PROVE  RestartPlan(id) \in Seq(Steps) /\ Fits(RestartPlan(id), c)
  <1>1. <<Step("start", id)>> \in Seq(Steps)
    BY StepTyping
  <1>2. QED
    BY <1>1, OneFits, RestartFits, RestartShape, FirstTyping DEF RestartPlan

\* The first step is done.
LEMMA TailFits ==
    ASSUME NEW t \in Seq(Steps), t # <<>>, NEW c, NEW d, Fits(t, c),
           \/ Head(t).op = "start"
           \/ Head(t).op = "terminate" /\ d[Head(t).id] = None,
           \A id \in Id : id # Head(t).id => d[id] = c[id]
    PROVE  Tail(t) \in Seq(Steps) /\ Fits(Tail(t), d)
  <1> DEFINE s == Tail(t)
  <1>1. /\ s \in Seq(Steps) /\ Len(s) = Len(t) - 1 /\ Len(t) \in Nat
        /\ \A i \in 1 .. Len(s) : s[i] = t[i + 1] /\ i + 1 \in 1 .. Len(t)
        /\ Head(t) = t[1] /\ 1 \in 1 .. Len(t)
    BY HeadTailProperties, LenProperties
  <1>2. \A i \in 1 .. Len(s) : s[i].id \in Id /\ s[i].op \in {"start", "terminate"}
    <2>1. \A i \in 1 .. Len(s) : s[i] \in Steps
      BY <1>1
    <2>2. QED
      BY <2>1 DEF Steps
  <1> HIDE DEF s
  <1>3. ASSUME NEW i \in 1 .. Len(s), s[i].op = "start"
        PROVE  \/ d[s[i].id] = None
               \/ \E j \in 1 .. i - 1 : s[j].op = "terminate" /\ s[j].id = s[i].id
    <2>1. CASE t[1].op = "start"
      <3>1. \A j \in 2 .. Len(t) : t[j].op = "start" /\ t[1].id # t[j].id
        BY <1>1, <2>1 DEF Fits
      <3>2. c[t[i + 1].id] = None
        BY <1>1, <1>3, <2>1, <3>1 DEF Fits
      <3>3. QED
        BY <1>1, <1>2, <3>1, <3>2
    <2>2. CASE t[1].op = "terminate" /\ d[t[1].id] = None
      <3>1. CASE c[t[i + 1].id] = None
        BY <1>1, <1>2, <2>2, <3>1
      <3>2. ASSUME NEW j \in 1 .. i, t[j].op = "terminate", t[j].id = t[i + 1].id
            PROVE  \/ d[s[i].id] = None
                   \/ \E k \in 1 .. i - 1 : s[k].op = "terminate" /\ s[k].id = s[i].id
        <4>1. CASE j = 1
          BY <1>1, <2>2, <3>2, <4>1
        <4>2. CASE j # 1
          <5>1. j - 1 \in 1 .. i - 1 /\ s[j - 1] = t[j]
            BY <1>1, <4>2
          <5>2. QED
            BY <1>1, <3>2, <5>1
        <4>3. QED
          BY <4>1, <4>2
      <3>3. QED
        BY <1>1, <1>3, <3>1, <3>2 DEF Fits
    <2>3. QED
      BY <1>1, <2>1, <2>2
  <1>4. ASSUME NEW i \in 1 .. Len(s), NEW j \in 1 .. Len(s), i < j, s[i].op = "start"
        PROVE  s[j].op = "start" /\ s[i].id # s[j].id
    <2>1. /\ i + 1 \in 1 .. Len(t) /\ j + 1 \in 1 .. Len(t) /\ i + 1 < j + 1
          /\ s[i] = t[i + 1] /\ s[j] = t[j + 1]
      BY <1>1, <1>4
    <2>2. \A k, l \in 1 .. Len(t) :
            k < l /\ t[k].op = "start" => t[l].op = "start" /\ t[k].id # t[l].id
      BY DEF Fits
    <2>3. QED
      BY <1>4, <2>1, <2>2
  <1>5. QED
    BY <1>1, <1>3, <1>4 DEF Fits, s

-----------------------------------------------------------------------------
(***************************************************************************)
(* Types.                                                                  *)
(***************************************************************************)
LEMMA ProcessNumbers == None \notin Pid /\ None \notin Id
  BY DEF None, Pid, Id

\* restart_times stays in the order of the clock: what is too old comes first.
InOrder(s) == \A i, j \in 1 .. Len(s) : i <= j => s[i] <= s[j]

IsExpired(n) ==
    /\ n \in 0 .. Len(restartTimes)
    /\ \A i \in 1 .. Len(restartTimes) : restartTimes[i] > now - MaxSeconds <=> i > n

LEMMA LeastNumber ==
    ASSUME NEW S, S \subseteq Nat, S # {}
    PROVE  \E m \in S : \A k \in S : m <= k
  <1>1. PICK m \in S : \A k \in S : ~(<<k, m>> \in OpToRel(<, Nat))
    BY WFMin, NatLessThanWellFounded
  <1>2. \A k \in S : ~(k < m)
    BY <1>1 DEF OpToRel
  <1>3. QED
    BY <1>2

LEMMA EndShape ==
    ASSUME NEW S, NEW s \in Seq(S), NEW n \in 0 .. Len(s)
    PROVE  /\ SubSeq(s, n + 1, Len(s)) \in Seq(S)
           /\ Len(SubSeq(s, n + 1, Len(s))) = Len(s) - n
           /\ \A i \in 1 .. Len(s) - n : SubSeq(s, n + 1, Len(s))[i] = s[n + i]
  <1>1. /\ n + 1 \in Int /\ Len(s) \in Int /\ n \in Int /\ n <= Len(s)
        /\ \A i \in n + 1 .. Len(s) : s[i] \in S
    OBVIOUS
  <1>2. ASSUME NEW a \in Int, a = n + 1
        PROVE  /\ SubSeq(s, a, Len(s)) \in Seq(S)
               /\ Len(SubSeq(s, a, Len(s))) = IF a <= Len(s) THEN Len(s) - a + 1 ELSE 0
               /\ \A i \in 1 .. Len(s) - a + 1 : SubSeq(s, a, Len(s))[i] = s[a + i - 1]
    BY <1>1, <1>2, SubSeqProperties
  <1>3. ASSUME NEW a \in Int, a = n + 1
        PROVE  /\ SubSeq(s, a, Len(s)) \in Seq(S)
               /\ Len(SubSeq(s, a, Len(s))) = Len(s) - n
               /\ \A i \in 1 .. Len(s) - n : SubSeq(s, a, Len(s))[i] = s[n + i]
    <2>1. /\ Len(s) - a + 1 = Len(s) - n
          /\ a <= Len(s) \/ Len(s) - n = 0
          /\ \A i \in Int : a + i - 1 = n + i
      BY <1>1, <1>3
    <2>2. Len(SubSeq(s, a, Len(s))) = Len(s) - n
      BY <1>1, <1>2, <1>3, <2>1
    <2>3. ASSUME NEW i \in 1 .. Len(s) - n PROVE SubSeq(s, a, Len(s))[i] = s[n + i]
      <3>1. i \in 1 .. Len(s) - a + 1 /\ a + i - 1 = n + i
        BY <2>1
      <3>2. SubSeq(s, a, Len(s))[i] = s[a + i - 1]
        BY <1>2, <1>3, <3>1
      <3>3. QED
        BY <3>1, <3>2
    <2>4. QED
      BY <1>2, <1>3, <2>2, <2>3
  <1>4. QED
    BY <1>1, <1>3

\* What retain leaves is an end of restart_times, and what it drops is old.
LEMMA RecentShape ==
    ASSUME TypeOK, InOrder(restartTimes)
    PROVE  /\ IsExpired(Expired)
           /\ Recent \in Seq(0 .. MaxTime)
           /\ Len(Recent) = Len(restartTimes) - Expired
           /\ \A i \in 1 .. Len(Recent) : Recent[i] = restartTimes[Expired + i]
  <1> DEFINE n == Len(restartTimes)
             After == {m \in 1 .. n + 1 : \A i \in m .. n : restartTimes[i] > now - MaxSeconds}
  <1>1. /\ n \in Nat /\ now \in Int /\ MaxSeconds \in Int
        /\ \A i \in 1 .. n : restartTimes[i] \in 0 .. MaxTime
    BY TimeAssumption DEF TypeOK
  <1>1a. \A i \in 1 .. n : restartTimes[i] \in Int
    BY <1>1
  <1>2. n + 1 \in After /\ After \subseteq Nat
    BY <1>1
  <1>3. PICK m \in After : \A k \in After : m <= k
    BY <1>2, LeastNumber
  <1>4. ASSUME NEW i \in 1 .. m - 1 PROVE ~(restartTimes[i] > now - MaxSeconds)
    <2> SUFFICES ASSUME restartTimes[i] > now - MaxSeconds PROVE FALSE
      OBVIOUS
    <2>1. i \in 1 .. n + 1 /\ i < m /\ i \in 1 .. n
      BY <1>1, <1>3
    <2>2. \A j \in i .. n : restartTimes[j] > now - MaxSeconds
      BY <1>1, <1>1a, <2>1 DEF InOrder
    <2>3. i \in After
      BY <2>1, <2>2
    <2>4. QED
      BY <1>3, <2>1, <2>3
  <1>5. IsExpired(m - 1)
    <2>1. m - 1 \in 0 .. n
      BY <1>1, <1>3
    <2>2. \A i \in 1 .. n : restartTimes[i] > now - MaxSeconds <=> i > m - 1
      BY <1>1, <1>3, <1>4
    <2>3. QED
      BY <2>1, <2>2 DEF IsExpired
  <1>6. IsExpired(Expired)
    BY <1>5 DEF Expired, IsExpired
  <1>7. Expired \in 0 .. n
    BY <1>6 DEF IsExpired
  <1>8. /\ SubSeq(restartTimes, Expired + 1, n) \in Seq(0 .. MaxTime)
        /\ Len(SubSeq(restartTimes, Expired + 1, n)) = n - Expired
        /\ \A i \in 1 .. n - Expired :
              SubSeq(restartTimes, Expired + 1, n)[i] = restartTimes[Expired + i]
    <2>1. restartTimes \in Seq(0 .. MaxTime)
      BY DEF TypeOK
    <2>2. QED
      BY <1>7, <2>1, EndShape
  <1>9. QED
    BY <1>6, <1>8 DEF Recent

\* The children are started one at a time, and what is started is new.
Starting ==
    fresh # None =>
        /\ todo # <<>>
        /\ Head(todo).op = "start"
        /\ startedAs[fresh] = Head(todo).id
        /\ life[fresh] # "unborn"
        /\ fresh \notin signalled
        /\ pidToId[fresh] = None

\* DOWN is about a process that has left the registry.
DownsAreTrue ==
    /\ \A i \in 1 .. Len(mailbox) :
          mailbox[i].kind = "down" => mailbox[i].pid \in Pid /\ life[mailbox[i].pid] = "gone"
    /\ \A d \in due : life[d.pid] = "ending"

LEMMA TypeInit == Init => TypeOK
  <1> SUFFICES ASSUME Init PROVE TypeOK
    OBVIOUS
  <1>1. 1 \in 1 .. NumChildren + 1 /\ 1 \in 1 .. MaxPid + 1
    BY NumChildrenAssumption
  <1>2. todo \in Seq(Steps)
    BY <1>1, StartFromShape DEF Init
  <1>3. now \in 0 .. MaxTime /\ Len(restartTimes) <= MaxRestarts
    BY TimeAssumption DEF Init
  <1>4. QED
    BY <1>1, <1>2, <1>3 DEF Init, TypeOK

LEMMA TypeNext ==
    ASSUME TypeOK, InOrder(restartTimes), Starting, DownsAreTrue, [Next]_vars
    PROVE  TypeOK'
  <1> USE DEF flags, supVars, procVars
  <1>a. 1 \in 1 .. NumChildren + 1
    BY NumChildrenAssumption
  <1>b. TerminateFrom(1) \in Seq(Steps)
    BY <1>a, TerminateFromShape
  <1>c. todo # <<>> =>
            Tail(todo) \in Seq(Steps) /\ Head(todo).id \in Id
    <2>1. todo # <<>> => Tail(todo) \in Seq(Steps) /\ Head(todo) \in Steps
      BY DEF TypeOK
    <2>2. QED
      BY <2>1 DEF Steps
  <1>d. mailbox # <<>> => Tail(mailbox) \in Seq(Message) /\ Head(mailbox) \in Message
    BY DEF TypeOK
  <1>1. CASE StartChild
    <2>1. nextPid + 1 \in 1 .. MaxPid + 1
      BY <1>1, NumChildrenAssumption DEF StartChild, Pid
    <2>2. Head(todo).id \in Id
      BY <1>1, <1>c DEF StartChild, Doing
    <2>3. QED
      BY <1>1, <2>1, <2>2 DEF StartChild, TypeOK
  <1>2. CASE StartFails
    <2>1. phase' \in {"stopping", "ended"} /\ todo' \in Seq(Steps)
      <3>1. <<>> \in Seq(Steps)
        OBVIOUS
      <3>2. QED
        BY <1>2, <1>b, <3>1 DEF StartFails
    <2>2. QED
      BY <1>2, <2>1 DEF StartFails, TypeOK
  <1>3. CASE MonitorChild
    <2>1. todo # <<>> /\ fresh \in Pid /\ None \in Pid \cup {None}
      BY <1>3 DEF MonitorChild, Starting, TypeOK
    <2>2. mailbox' \in Seq(Message) /\ watched' \subseteq Pid
      <3>1. Append(mailbox, Down(fresh, TRUE)) \in Seq(Message)
        <4>1. Down(fresh, TRUE) \in Message
          BY <2>1 DEF Down, Message
        <4>2. mailbox \in Seq(Message)
          BY DEF TypeOK
        <4>3. \A m \in Message : Append(mailbox, m) \in Seq(Message)
          BY <4>2
        <4>4. QED
          BY <4>1, <4>3, Zenon
      <3>2. QED
        BY <1>3, <2>1, <3>1 DEF MonitorChild, TypeOK
    <2>3. child' \in [Id -> Pid \cup {None}] /\ pidToId' \in [Pid -> Id \cup {None}]
      BY <1>3, <1>c, <2>1 DEF MonitorChild, TypeOK
    <2>4. QED
      BY <1>3, <1>c, <2>1, <2>2, <2>3 DEF MonitorChild, TypeOK
  <1>4. CASE TerminateChild
    <2>1. todo # <<>>
      BY <1>4 DEF TerminateChild, Doing
    <2>2. child' \in [Id -> Pid \cup {None}] /\ pidToId' \in [Pid -> Id \cup {None}]
      BY <1>4 DEF TerminateChild, PidRemoved, TypeOK
    <2>3. signalled' \subseteq Pid /\ watched' \subseteq Pid
      <3>1. child[Head(todo).id] \in Pid \cup {None}
        BY <1>c, <2>1 DEF TypeOK
      <3>2. QED
        BY <1>4, <3>1 DEF TerminateChild, TypeOK
    <2>4. QED
      BY <1>4, <1>c, <2>1, <2>2, <2>3 DEF TerminateChild, TypeOK
  <1>5. CASE Done
    BY <1>5 DEF Done, TypeOK
  <1>6. CASE IgnoreDown
    BY <1>6, <1>d DEF IgnoreDown, ReadDown, TypeOK
  <1>7. CASE HandleDown
    <2> DEFINE id == pidToId[Head(mailbox).pid]
    <2>1. mailbox' \in Seq(Message) /\ Head(mailbox).pid \in Pid
      BY <1>7, <1>d DEF HandleDown, ReadDown, DownsAreTrue, TypeOK
    <2>2. id \in Id
      BY <1>7, <2>1 DEF HandleDown, TypeOK
    <2>3. child' \in [Id -> Pid \cup {None}] /\ pidToId' \in [Pid -> Id \cup {None}]
      BY <1>7 DEF HandleDown, TypeOK
    <2>4. RestartPlan(id) \in Seq(Steps)
      <3>1. [x \in Id |-> None][id] = None
        BY <2>2
      <3>2. QED
        BY <2>2, <3>1, PlanFits
    <2>5. phase' \in {"loop", "restart", "stopping"} /\ todo' \in Seq(Steps)
      BY <1>7, <1>b, <2>4 DEF HandleDown, ReadDown, TypeOK
    <2>6. /\ Recent \in Seq(0 .. MaxTime) /\ Len(Recent) \in Nat
          /\ Len(Recent) <= Len(restartTimes)
      BY RecentShape DEF TypeOK, IsExpired
    <2>7. /\ Append(Recent, now) \in Seq(0 .. MaxTime)
          /\ ~TooMany => Len(Append(Recent, now)) <= MaxRestarts
      BY <2>6, TimeAssumption DEF TooMany, TypeOK
    <2>8. Len(Recent) <= MaxRestarts
      BY <2>6, TimeAssumption DEF TypeOK
    <2>9. /\ restartTimes' \in Seq(0 .. MaxTime) /\ restarts' \in Seq(0 .. MaxTime)
          /\ Len(restartTimes') <= MaxRestarts
      <3>1. \/ restartTimes' = restartTimes
            \/ restartTimes' = Recent
            \/ ~TooMany /\ restartTimes' = Append(Recent, now)
        BY <1>7 DEF HandleDown
      <3>2. restarts' = restarts \/ restarts' = Append(restarts, now)
        BY <1>7 DEF HandleDown
      <3>3. restarts' \in Seq(0 .. MaxTime)
        <4>1. restarts \in Seq(0 .. MaxTime) /\ now \in 0 .. MaxTime
          BY DEF TypeOK
        <4>2. Append(restarts, now) \in Seq(0 .. MaxTime)
          BY <4>1
        <4>3. QED
          BY <3>2, <4>1, <4>2
      <3>4. QED
        BY <2>6, <2>7, <2>8, <3>1, <3>3 DEF TypeOK
    <2>10. QED
      BY <1>7, <2>1, <2>3, <2>5, <2>9 DEF HandleDown, ReadDown, TypeOK
  <1>8. CASE HandleExit
    BY <1>8, <1>b, <1>d DEF HandleExit, TypeOK
  <1>9. ASSUME NEW p \in Pid, NEW b \in BOOLEAN, ChildEnds(p, b) PROVE TypeOK'
    <2>1. due' \subseteq [kind : {"down"}, pid : Pid, abnormal : BOOLEAN]
      BY <1>9 DEF ChildEnds, TypeOK, Down
    <2>2. QED
      BY <1>9, <2>1 DEF ChildEnds, TypeOK
  <1>10. ASSUME NEW p \in Pid, ChildEnded(p) PROVE TypeOK'
    <2>1. due \subseteq Message
      BY DEF TypeOK, Message
    <2>2. ASSUME NEW d \in due PROVE Append(mailbox, d) \in Seq(Message)
      BY <2>1 DEF TypeOK
    <2>3. mailbox' \in Seq(Message)
      BY <1>10, <2>2 DEF ChildEnded, TypeOK
    <2>4. QED
      BY <1>10, <2>3 DEF ChildEnded, TypeOK
  <1>11. CASE ExitSignal
    <2>1. ExitMsg \in Message
      BY DEF ExitMsg, Message
    <2>2. QED
      BY <1>11, <2>1 DEF ExitSignal, TypeOK
  <1>12. CASE Tick
    BY <1>12, TimeAssumption DEF Tick, TypeOK
  <1>13. CASE UNCHANGED vars
    BY <1>13 DEF vars, TypeOK
  <1>14. QED
    BY <1>1, <1>2, <1>3, <1>4, <1>5, <1>6, <1>7, <1>8, <1>9, <1>10, <1>11, <1>12, <1>13
       DEF Next, SupervisorStep

-----------------------------------------------------------------------------
(***************************************************************************)
(* RestartIntensity.  What retain dropped is older than max_seconds, what  *)
(* it kept is restart_times: so restart_times is the end of the history,   *)
(* and all that comes before is old.                                       *)
(***************************************************************************)
TimesInv ==
    /\ Len(restartTimes) <= Len(restarts)
    /\ \A i \in 1 .. Len(restartTimes) :
          restartTimes[i] = restarts[Len(restarts) - Len(restartTimes) + i]
    /\ \A i \in 1 .. Len(restarts) - Len(restartTimes) : restarts[i] <= now - MaxSeconds
    /\ \A i \in 1 .. Len(restarts) : restarts[i] <= now
    /\ InOrder(restarts) /\ InOrder(restartTimes)

LEMMA TimesInit == Init => TimesInv /\ RestartIntensity
  BY TimeAssumption DEF Init, TimesInv, InOrder, RestartIntensity

\* The history after the old entries are dropped.
LEMMA DropOld ==
    ASSUME TypeOK, TimesInv
    PROVE  /\ Len(Recent) \in Nat /\ Len(Recent) <= Len(restarts)
           /\ \A i \in 1 .. Len(Recent) :
                 Recent[i] = restarts[Len(restarts) - Len(Recent) + i]
           /\ \A i \in 1 .. Len(restarts) - Len(Recent) : restarts[i] <= now - MaxSeconds
           /\ InOrder(Recent)
  <1> DEFINE n == Len(restarts)
             m == Len(restartTimes)
             e == Expired
  <1>1. /\ n \in Nat /\ m \in Nat /\ m <= n
        /\ e \in 0 .. m
        /\ Len(Recent) = m - e
        /\ \A i \in 1 .. Len(Recent) : Recent[i] = restartTimes[e + i]
        /\ \A i \in 1 .. m : restartTimes[i] > now - MaxSeconds <=> i > e
    BY RecentShape DEF TypeOK, TimesInv, IsExpired
  <1>2. /\ now \in Int /\ MaxSeconds \in Int
        /\ \A i \in 1 .. n : restarts[i] \in Int
    BY TimeAssumption DEF TypeOK
  <1> HIDE DEF n, m, e
  <1>3. ASSUME NEW i \in 1 .. Len(Recent)
        PROVE  Recent[i] = restarts[n - Len(Recent) + i] /\ n - Len(Recent) + i \in 1 .. n
    <2>1. e + i \in 1 .. m /\ n - m + (e + i) = n - Len(Recent) + i
      BY <1>1
    <2>2. restartTimes[e + i] = restarts[n - m + (e + i)]
      BY <2>1 DEF TimesInv, n, m
    <2>3. QED
      BY <1>1, <2>1, <2>2
  <1>4. ASSUME NEW i \in 1 .. n - Len(Recent) PROVE restarts[i] <= now - MaxSeconds
    <2>1. CASE i <= n - m
      BY <1>1, <2>1 DEF TimesInv, n, m
    <2>2. CASE i > n - m
      <3>1. i - (n - m) \in 1 .. m /\ ~(i - (n - m) > e) /\ n - m + (i - (n - m)) = i
        BY <1>1, <2>2
      <3>2. restartTimes[i - (n - m)] = restarts[i]
        BY <3>1 DEF TimesInv, n, m
      <3>3. ~(restarts[i] > now - MaxSeconds)
        BY <1>1, <3>1, <3>2
      <3>4. i \in 1 .. n
        BY <1>1
      <3>5. QED
        BY <1>2, <3>3, <3>4
    <2>3. QED
      BY <1>1, <2>1, <2>2
  <1>5. ASSUME NEW i \in 1 .. Len(Recent), NEW j \in 1 .. Len(Recent), i <= j
        PROVE  Recent[i] <= Recent[j]
    <2>1. e + i \in 1 .. m /\ e + j \in 1 .. m /\ e + i <= e + j
      BY <1>1, <1>5
    <2>2. QED
      BY <1>1, <2>1 DEF TimesInv, InOrder, m
  <1>6. QED
    BY <1>1, <1>3, <1>4, <1>5 DEF InOrder, n

\* The supervisor decides on another restart.
LEMMA AnotherRestart ==
    ASSUME TypeOK, TimesInv, RestartIntensity, ~TooMany,
           restartTimes' = Append(Recent, now), restarts' = Append(restarts, now),
           now' = now
    PROVE  TimesInv' /\ RestartIntensity'
  <1> DEFINE n == Len(restarts)
             m == Len(Recent)
  <1>1. /\ n \in Nat /\ m \in Nat /\ m <= n
        /\ \A i \in 1 .. m : Recent[i] = restarts[n - m + i]
        /\ \A i \in 1 .. n - m : restarts[i] <= now - MaxSeconds
        /\ InOrder(Recent) /\ Recent \in Seq(0 .. MaxTime)
    BY DropOld, RecentShape DEF TypeOK, TimesInv
  <1>2. /\ now \in 0 .. MaxTime /\ now \in Int /\ MaxSeconds \in Nat /\ MaxRestarts \in Nat
        /\ restarts \in Seq(0 .. MaxTime)
        /\ \A i \in 1 .. n : restarts[i] \in Int /\ restarts[i] <= now
    BY TimeAssumption DEF TypeOK, TimesInv
  <1>3. /\ Len(restarts') = n + 1 /\ restarts'[n + 1] = now
        /\ \A i \in 1 .. n : restarts'[i] = restarts[i]
    BY <1>2
  <1>4. /\ Len(restartTimes') = m + 1 /\ restartTimes'[m + 1] = now
        /\ \A i \in 1 .. m : restartTimes'[i] = Recent[i]
    BY <1>1, <1>2
  <1>5. m < MaxRestarts
    BY <1>1, <1>2 DEF TooMany
  <1> HIDE DEF n, m
  <1>6. ASSUME NEW i \in 1 .. m + 1
        PROVE  restartTimes'[i] = restarts'[(n + 1) - (m + 1) + i]
    <2>1. CASE i = m + 1
      BY <1>1, <1>3, <1>4, <2>1
    <2>2. CASE i # m + 1
      <3>1. i \in 1 .. m /\ n - m + i \in 1 .. n /\ (n + 1) - (m + 1) + i = n - m + i
        BY <1>1, <2>2
      <3>2. QED
        BY <1>1, <1>3, <1>4, <3>1
    <2>3. QED
      BY <2>1, <2>2
  <1>7. \A i \in 1 .. (n + 1) - (m + 1) : restarts'[i] <= now - MaxSeconds
    BY <1>1, <1>3
  <1>8. \A i \in 1 .. n + 1 : restarts'[i] <= now
    BY <1>1, <1>2, <1>3
  <1>9. ASSUME NEW i \in 1 .. n + 1, NEW j \in 1 .. n + 1, i <= j
        PROVE  restarts'[i] <= restarts'[j]
    <2>1. CASE j = n + 1
      BY <1>3, <1>8, <2>1
    <2>2. CASE j # n + 1
      <3>1. i \in 1 .. n /\ j \in 1 .. n
        BY <1>1, <1>9, <2>2
      <3>2. QED
        BY <1>3, <1>9, <3>1 DEF TimesInv, InOrder, n
    <2>3. QED
      BY <2>1, <2>2
  <1>10. ASSUME NEW i \in 1 .. m + 1, NEW j \in 1 .. m + 1, i <= j
         PROVE  restartTimes'[i] <= restartTimes'[j]
    <2> DEFINE d == (n + 1) - (m + 1)
    <2>1. d + i \in 1 .. n + 1 /\ d + j \in 1 .. n + 1 /\ d + i <= d + j
      BY <1>1, <1>10
    <2>2. restartTimes'[i] = restarts'[d + i] /\ restartTimes'[j] = restarts'[d + j]
      BY <1>6
    <2>3. QED
      BY <1>9, <2>1, <2>2
  <1>11. TimesInv'
    <2>1. m + 1 <= n + 1
      BY <1>1
    <2>2. QED
      BY <1>3, <1>4, <1>6, <1>7, <1>8, <1>9, <1>10, <2>1 DEF TimesInv, InOrder
  <1>12. ASSUME NEW i \in 1 .. (n + 1) - MaxRestarts
         PROVE  restarts'[i + MaxRestarts] - restarts'[i] >= MaxSeconds
    <2>1. CASE i + MaxRestarts = n + 1
      <3>1. i \in 1 .. n - m /\ i \in 1 .. n
        BY <1>1, <1>2, <1>5, <2>1
      <3>2. restarts'[i] = restarts[i] /\ restarts[i] <= now - MaxSeconds /\ restarts[i] \in Int
        BY <1>1, <1>2, <1>3, <3>1 DEF n
      <3>3. QED
        BY <1>2, <1>3, <2>1, <3>2
    <2>2. CASE i + MaxRestarts # n + 1
      <3>1. i \in 1 .. n - MaxRestarts /\ i \in 1 .. n /\ i + MaxRestarts \in 1 .. n
        BY <1>1, <1>2, <2>2
      <3>2. QED
        BY <1>3, <3>1 DEF RestartIntensity, n
    <2>3. QED
      BY <2>1, <2>2
  <1>13. QED
    BY <1>3, <1>11, <1>12 DEF RestartIntensity

LEMMA TimesNext ==
    ASSUME TypeOK, TimesInv, RestartIntensity, [Next]_vars
    PROVE  TimesInv' /\ RestartIntensity'
  <1> USE DEF flags, supVars, procVars
  <1>1. CASE UNCHANGED <<restartTimes, restarts, now>>
    BY <1>1 DEF TimesInv, InOrder, RestartIntensity
  <1>2. CASE restartTimes' = Recent /\ UNCHANGED <<restarts, now>>
    BY <1>2, DropOld DEF TimesInv, RestartIntensity
  <1>3. CASE HandleDown
    BY <1>1, <1>2, <1>3, AnotherRestart DEF HandleDown, ReadDown
  <1>4. CASE Tick
    <2>1. /\ now' = now + 1 /\ restartTimes' = restartTimes /\ restarts' = restarts
          /\ now \in Int /\ MaxSeconds \in Int /\ Len(restarts) \in Nat
          /\ Len(restartTimes) \in Nat
          /\ \A i \in 1 .. Len(restarts) : restarts[i] \in Int
      BY <1>4, TimeAssumption DEF Tick, TypeOK
    <2>2. RestartIntensity'
      BY <2>1 DEF RestartIntensity
    <2>3. \A i \in 1 .. Len(restarts) :
              /\ restarts[i] <= now - MaxSeconds => restarts[i] <= now' - MaxSeconds
              /\ restarts[i] <= now => restarts[i] <= now'
      BY <2>1
    <2>4. \A i \in 1 .. Len(restarts) - Len(restartTimes) : i \in 1 .. Len(restarts)
      BY <2>1
    <2>5. \A i \in 1 .. Len(restarts) - Len(restartTimes) : restarts[i] <= now' - MaxSeconds
      BY <2>3, <2>4 DEF TimesInv
    <2>6. \A i \in 1 .. Len(restarts) : restarts[i] <= now'
      BY <2>3 DEF TimesInv
    <2>7. QED
      BY <2>1, <2>2, <2>5, <2>6 DEF TimesInv, InOrder
  <1>5. ASSUME NEW p \in Pid, (\E b \in BOOLEAN : ChildEnds(p, b)) \/ ChildEnded(p)
        PROVE  UNCHANGED <<restartTimes, restarts, now>>
    BY <1>5 DEF ChildEnds, ChildEnded
  <1>6. CASE \/ StartChild \/ StartFails \/ MonitorChild \/ TerminateChild \/ Done
             \/ IgnoreDown \/ HandleExit \/ ExitSignal
    BY <1>1, <1>6 DEF StartChild, StartFails, MonitorChild, TerminateChild, Done,
                      IgnoreDown, ReadDown, HandleExit, ExitSignal
  <1>7. QED
    BY <1>1, <1>3, <1>4, <1>5, <1>6 DEF Next, SupervisorStep, vars

-----------------------------------------------------------------------------
(***************************************************************************)
(* NoLiveChildIsLost.  A start never replaces a child that is up, because  *)
(* of the order of the steps of a plan; and a child is let go only with    *)
(* its entry in pid_to_id, either told to shut down or gone.               *)
(***************************************************************************)
TodoInv ==
    /\ Fits(todo, child)
    /\ phase \in {"loop", "ended"} => todo = <<>>

ProcessOK(p) ==
    /\ life[p] = "unborn" <=> p >= nextPid
    /\ life[p] # "unborn" => startedAs[p] # None
    /\ p \in signalled => life[p] # "unborn"
    /\ pidToId[p] # None => life[p] # "unborn" /\ p \notin signalled

ProcessInv == \A p \in Pid : ProcessOK(p)

ChildInv ==
    /\ TodoInv /\ Starting /\ DownsAreTrue /\ ProcessInv /\ NoLiveChildIsLost

LEMMA ChildInit == Init => ChildInv
  <1> SUFFICES ASSUME Init PROVE ChildInv
    OBVIOUS
  <1>1. TodoInv
    BY StartFits DEF Init, TodoInv
  <1>2. Starting /\ DownsAreTrue
    BY DEF Init, Starting, DownsAreTrue
  <1>3. ProcessInv
    BY NumChildrenAssumption DEF Init, ProcessInv, ProcessOK, Pid
  <1>4. NoLiveChildIsLost
    BY ProcessNumbers DEF Init, NoLiveChildIsLost
  <1>5. QED
    BY <1>1, <1>2, <1>3, <1>4 DEF ChildInv

\* The first thing to do.
LEMMA FirstToDo ==
    ASSUME TypeOK, todo # <<>>
    PROVE  /\ todo \in Seq(Steps) /\ Head(todo) = todo[1] /\ 1 \in 1 .. Len(todo)
           /\ Head(todo).id \in Id /\ Head(todo).op \in {"start", "terminate"}
  <1>1. /\ todo \in Seq(Steps) /\ Head(todo) = todo[1] /\ 1 \in 1 .. Len(todo)
        /\ Head(todo) \in Steps
    BY DEF TypeOK
  <1>2. QED
    BY <1>1 DEF Steps

LEMMA ReadTyping ==
    ASSUME TypeOK, DownsAreTrue, ReadDown
    PROVE  /\ Head(mailbox).pid \in Pid /\ life[Head(mailbox).pid] = "gone"
           /\ Head(mailbox) = mailbox[1] /\ 1 \in 1 .. Len(mailbox)
           /\ pidToId[Head(mailbox).pid] \in Id \cup {None}
  <1>1. mailbox \in Seq(Message) /\ mailbox # <<>> /\ Head(mailbox).kind = "down"
    BY DEF TypeOK, ReadDown
  <1>2. Head(mailbox) = mailbox[1] /\ 1 \in 1 .. Len(mailbox)
    BY <1>1
  <1>3. QED
    BY <1>1, <1>2 DEF DownsAreTrue, TypeOK

\* Every step but these leaves the plan and the children alone.
PlanIsKept == UNCHANGED <<strategy, phase, todo, fresh, child, pidToId, signalled>>

LEMMA PlanSteps ==
    ASSUME [Next]_vars
    PROVE  \/ PlanIsKept
           \/ StartChild \/ StartFails \/ MonitorChild \/ TerminateChild \/ Done
           \/ HandleDown \/ HandleExit
  <1> USE DEF flags, supVars, procVars, PlanIsKept
  <1>1. ASSUME NEW p \in Pid, (\E b \in BOOLEAN : ChildEnds(p, b)) \/ ChildEnded(p)
        PROVE  PlanIsKept
    BY <1>1 DEF ChildEnds, ChildEnded
  <1>2. CASE IgnoreDown \/ ExitSignal \/ Tick
    BY <1>2 DEF IgnoreDown, ReadDown, ExitSignal, Tick
  <1>3. QED
    BY <1>1, <1>2 DEF Next, SupervisorStep, vars

LEMMA TodoNext ==
    ASSUME TypeOK, TypeOK', ChildInv, [Next]_vars
    PROVE  TodoInv'
  <1> USE DEF flags, supVars, procVars, ChildInv, TodoInv
  <1>a. Fits(<<>>, child')
    BY DEF Fits
  <1>1. CASE PlanIsKept \/ StartChild \/ Done
    <2>1. todo' = todo /\ child' = child
      BY <1>1 DEF PlanIsKept, StartChild, Done
    <2>2. phase' \in {"loop", "ended"} => todo = <<>>
      BY <1>1 DEF PlanIsKept, StartChild, Done, Doing
    <2>3. QED
      BY <2>1, <2>2 DEF Fits
  <1>2. CASE StartFails
    BY <1>2, <1>a, TerminateFits DEF StartFails
  <1>3. CASE MonitorChild
    <2>1. /\ todo # <<>> /\ Head(todo).op = "start"
          /\ todo' = Tail(todo) /\ phase' = phase
          /\ \A id \in Id : id # Head(todo).id => child'[id] = child[id]
      BY <1>3 DEF MonitorChild, Starting, TypeOK
    <2>2. Fits(Tail(todo), child')
      BY <2>1, FirstToDo, TailFits
    <2>3. QED
      BY <2>1, <2>2
  <1>4. CASE TerminateChild
    <2>1. /\ todo # <<>> /\ Head(todo).op = "terminate"
          /\ todo' = Tail(todo) /\ phase' = phase
      BY <1>4 DEF TerminateChild, Doing
    <2>2. /\ child'[Head(todo).id] = None
          /\ \A id \in Id : id # Head(todo).id => child'[id] = child[id]
      BY <1>4, <2>1, FirstToDo DEF TerminateChild, TypeOK
    <2>3. Fits(Tail(todo), child')
      BY <2>1, <2>2, FirstToDo, TailFits
    <2>4. QED
      BY <2>1, <2>3
  <1>5. CASE HandleDown
    <2> DEFINE id == pidToId[Head(mailbox).pid]
    <2>1. id \in Id /\ child'[id] = None
      BY <1>5, ReadTyping DEF HandleDown, TypeOK
    <2>2. Fits(RestartPlan(id), child')
      BY <2>1, PlanFits
    <2>3. todo = <<>>
      BY <1>5 DEF HandleDown, ReadDown
    <2>4. \/ todo' = todo
          \/ todo' = TerminateFrom(1) /\ phase' = "stopping"
          \/ todo' = RestartPlan(id) /\ phase' = "restart"
      BY <1>5 DEF HandleDown
    <2>5. QED
      BY <1>a, <2>2, <2>3, <2>4, TerminateFits
  <1>6. CASE HandleExit
    BY <1>6, TerminateFits DEF HandleExit
  <1>7. QED
    BY <1>1, <1>2, <1>3, <1>4, <1>5, <1>6, PlanSteps

LEMMA StartingNext ==
    ASSUME TypeOK, TypeOK', ChildInv, [Next]_vars
    PROVE  Starting'
  <1> USE DEF flags, supVars, procVars, ChildInv, Starting
  <1>1. CASE StartChild
    <2>1. nextPid \in Pid /\ ProcessOK(nextPid) /\ life[nextPid] = "unborn"
      BY <1>1 DEF StartChild, ProcessInv, ProcessOK, Pid
    <2>2. QED
      BY <1>1, <2>1 DEF StartChild, Doing, ProcessOK, TypeOK
  <1>2. CASE fresh' = None
    BY <1>2
  <1>3. CASE StartFails \/ MonitorChild \/ TerminateChild \/ Done \/ HandleDown \/ HandleExit
    <2>1. fresh = None \/ fresh' = None
      BY <1>3 DEF StartFails, MonitorChild, TerminateChild, Done, HandleDown, ReadDown,
                  HandleExit, Doing, TodoInv
    <2>2. fresh' = fresh \/ fresh' = None
      BY <1>3 DEF StartFails, MonitorChild, TerminateChild, Done, HandleDown, HandleExit
    <2>3. QED
      BY <1>2, <2>1, <2>2
  <1>4. CASE PlanIsKept /\ UNCHANGED <<life, startedAs>>
    BY <1>4 DEF PlanIsKept
  <1>5. ASSUME NEW p \in Pid, (\E b \in BOOLEAN : ChildEnds(p, b)) \/ ChildEnded(p)
        PROVE  Starting'
    BY <1>5 DEF ChildEnds, ChildEnded, TypeOK
  <1>6. CASE IgnoreDown \/ ExitSignal \/ Tick \/ UNCHANGED vars
    BY <1>6 DEF IgnoreDown, ReadDown, ExitSignal, Tick, vars
  <1>7. QED
    BY <1>1, <1>3, <1>5, <1>6 DEF Next, SupervisorStep

LEMMA ProcessNext ==
    ASSUME TypeOK, TypeOK', ChildInv, [Next]_vars, NEW p \in Pid
    PROVE  ProcessOK(p)'
  <1> USE DEF flags, supVars, procVars, ProcessOK
  <1>a. ProcessOK(p) /\ p \in Int /\ nextPid \in Int
    BY DEF ChildInv, ProcessInv, Pid, TypeOK
  <1>1. CASE StartChild
    <2>1. ~(p >= nextPid + 1) <=> ~(p >= nextPid) \/ p = nextPid
      BY <1>a
    <2>2. p = nextPid => startedAs'[p] # None
      BY <1>1, FirstToDo, ProcessNumbers DEF StartChild, Doing, TypeOK
    <2>3. QED
      BY <1>1, <1>a, <2>1, <2>2 DEF StartChild, TypeOK
  <1>2. CASE MonitorChild
    BY <1>2, <1>a DEF MonitorChild, ChildInv, Starting, TypeOK
  <1>3. CASE TerminateChild
    <2> DEFINE q == child[Head(todo).id]
    <2>1. q = p => pidToId[p] = Head(todo).id /\ Head(todo).id # None
      BY <1>3, FirstToDo, ProcessNumbers DEF TerminateChild, Doing, ChildInv, NoLiveChildIsLost
    <2>2. p \in signalled' => p \in signalled \/ p = q
      BY <1>3 DEF TerminateChild
    <2>3. pidToId'[p] = IF p = q THEN None ELSE pidToId[p]
      BY <1>3, ProcessNumbers DEF TerminateChild, PidRemoved, TypeOK
    <2>4. UNCHANGED <<life, startedAs, nextPid>>
      BY <1>3 DEF TerminateChild
    <2>5. QED
      BY <1>a, <2>1, <2>2, <2>3, <2>4
  <1>4. CASE HandleDown
    <2>1. pidToId'[p] \in {pidToId[p], None}
      BY <1>4 DEF HandleDown, TypeOK
    <2>2. UNCHANGED <<life, startedAs, nextPid, signalled>>
      BY <1>4 DEF HandleDown, ReadDown
    <2>3. QED
      BY <1>a, <2>1, <2>2
  <1>5. ASSUME NEW q \in Pid, (\E b \in BOOLEAN : ChildEnds(q, b)) \/ ChildEnded(q)
        PROVE  ProcessOK(p)'
    BY <1>5, <1>a DEF ChildEnds, ChildEnded, TypeOK
  <1>6. CASE \/ StartFails \/ Done \/ IgnoreDown \/ HandleExit \/ ExitSignal \/ Tick
             \/ UNCHANGED vars
    BY <1>6, <1>a DEF StartFails, Done, IgnoreDown, ReadDown, HandleExit, ExitSignal,
                      Tick, vars
  <1>7. QED
    BY <1>1, <1>2, <1>3, <1>4, <1>5, <1>6 DEF Next, SupervisorStep

LEMMA DownsNext ==
    ASSUME TypeOK, TypeOK', ChildInv, [Next]_vars
    PROVE  DownsAreTrue'
  <1> USE DEF flags, supVars, procVars, ChildInv
  <1> DEFINE MailOK(box) == \A i \in 1 .. Len(box) :
                                box[i].kind = "down" =>
                                    box[i].pid \in Pid /\ life'[box[i].pid] = "gone"
             Later == \A p \in Pid : /\ life[p] = "gone" => life'[p] = "gone"
  <1>a. /\ mailbox \in Seq(Message)
        /\ \A i \in 1 .. Len(mailbox) : mailbox[i].kind = "down" =>
              mailbox[i].pid \in Pid /\ life[mailbox[i].pid] = "gone"
        /\ \A d \in due : d.pid \in Pid /\ life[d.pid] = "ending"
    BY DEF TypeOK, DownsAreTrue
  <1>1. ASSUME Later PROVE MailOK(mailbox) /\ (mailbox # <<>> => MailOK(Tail(mailbox)))
    BY <1>1, <1>a
  <1>2. ASSUME Later, NEW msg, msg.kind = "down" => msg.pid \in Pid /\ life'[msg.pid] = "gone"
        PROVE  MailOK(Append(mailbox, msg))
    BY <1>1, <1>2, <1>a
  <1>3. CASE UNCHANGED <<life, due>>
    <2>1. Later
      BY <1>3
    <2>2. CASE mailbox' = mailbox \/ (mailbox # <<>> /\ mailbox' = Tail(mailbox))
      BY <1>1, <1>3, <1>a, <2>1, <2>2 DEF DownsAreTrue
    <2>3. CASE MonitorChild
      <3>1. \/ mailbox' = mailbox
            \/ life[fresh] = "gone" /\ mailbox' = Append(mailbox, Down(fresh, TRUE))
        BY <2>3 DEF MonitorChild
      <3>2. fresh \in Pid
        BY <2>3 DEF MonitorChild, TypeOK
      <3>3. CASE life[fresh] = "gone" /\ mailbox' = Append(mailbox, Down(fresh, TRUE))
        <4>1. Down(fresh, TRUE).pid = fresh
          BY DEF Down
        <4>2. MailOK(Append(mailbox, Down(fresh, TRUE)))
          BY <1>2, <1>3, <2>1, <3>2, <3>3, <4>1, Zenon
        <4>3. QED
          BY <1>3, <1>a, <3>3, <4>2 DEF DownsAreTrue
      <3>4. QED
        BY <2>2, <3>1, <3>3
    <2>4. CASE ExitSignal
      <3>1. mailbox' = Append(mailbox, ExitMsg) /\ ExitMsg.kind # "down"
        BY <2>4 DEF ExitSignal, ExitMsg
      <3>2. MailOK(Append(mailbox, ExitMsg))
        BY <1>2, <2>1, <3>1
      <3>3. QED
        BY <1>3, <1>a, <3>1, <3>2 DEF DownsAreTrue
    <2>5. CASE \/ StartFails \/ TerminateChild \/ Done \/ Tick \/ UNCHANGED vars
               \/ IgnoreDown \/ HandleDown \/ HandleExit
      <3>1. mailbox' = mailbox \/ (mailbox # <<>> /\ mailbox' = Tail(mailbox))
        BY <2>5 DEF StartFails, TerminateChild, Done, Tick, vars, IgnoreDown, HandleDown,
                    ReadDown, HandleExit
      <3>2. QED
        BY <2>2, <3>1
    <2>6. ~StartChild
      BY <1>3, <1>a DEF StartChild, ProcessInv, ProcessOK, TypeOK, Pid
    <2>7. ASSUME NEW p \in Pid, (\E b \in BOOLEAN : ChildEnds(p, b)) \/ ChildEnded(p)
          PROVE  FALSE
      BY <1>3, <2>7 DEF ChildEnds, ChildEnded, TypeOK
    <2>8. QED
      BY <2>3, <2>4, <2>5, <2>6, <2>7 DEF Next, SupervisorStep
  <1>4. CASE StartChild
    <2>1. nextPid \in Pid /\ life[nextPid] = "unborn"
      BY <1>4 DEF StartChild, ProcessInv, ProcessOK, Pid
    <2>2. Later
      BY <1>4, <2>1 DEF StartChild, TypeOK
    <2>3. mailbox' = mailbox /\ due' = due
      BY <1>4 DEF StartChild
    <2>4. \A d \in due : life'[d.pid] = "ending"
      BY <1>4, <1>a, <2>1 DEF StartChild, TypeOK
    <2>5. QED
      BY <1>1, <2>2, <2>3, <2>4 DEF DownsAreTrue
  <1>5. ASSUME NEW p \in Pid, NEW b \in BOOLEAN, ChildEnds(p, b) PROVE DownsAreTrue'
    <2>1. Later
      BY <1>5 DEF ChildEnds, TypeOK
    <2>2. mailbox' = mailbox
      BY <1>5 DEF ChildEnds
    <2>3. \A d \in due' : d \in due \/ d.pid = p
      BY <1>5 DEF ChildEnds, Down
    <2>4. \A d \in due' : life'[d.pid] = "ending"
      BY <1>5, <1>a, <2>3 DEF ChildEnds, TypeOK
    <2>5. QED
      BY <1>1, <2>1, <2>2, <2>4 DEF DownsAreTrue
  <1>6. ASSUME NEW p \in Pid, ChildEnded(p) PROVE DownsAreTrue'
    <2>1. Later /\ life'[p] = "gone"
      BY <1>6 DEF ChildEnded, TypeOK
    <2>2. \/ mailbox' = mailbox
          \/ \E d \in due : d.pid = p /\ mailbox' = Append(mailbox, d)
      BY <1>6 DEF ChildEnded
    <2>3. ASSUME NEW d \in due, d.pid = p PROVE MailOK(Append(mailbox, d))
      BY <1>2, <2>1, <2>3
    <2>4. \A d \in due' : life'[d.pid] = "ending"
      BY <1>6, <1>a DEF ChildEnded, TypeOK
    <2>5. QED
      BY <1>1, <2>1, <2>2, <2>3, <2>4 DEF DownsAreTrue
  <1>7. UNCHANGED <<life, due>> \/ StartChild
            \/ \E p \in Pid : (\E b \in BOOLEAN : ChildEnds(p, b)) \/ ChildEnded(p)
    BY DEF Next, SupervisorStep, StartFails, TerminateChild, Done, Tick, vars, IgnoreDown,
           HandleDown, ReadDown, HandleExit, MonitorChild, ExitSignal
  <1>8. QED
    BY <1>3, <1>4, <1>5, <1>6, <1>7

\* The child let go and the one kept: q loses its child and its entry.
LEMMA LetGo ==
    ASSUME TypeOK, NoLiveChildIsLost, NEW id \in Id, NEW q \in Pid, child[id] = q,
           child' = [child EXCEPT ![id] = None],
           pidToId' = [pidToId EXCEPT ![q] = None]
    PROVE  \A p \in Pid, x \in Id : child'[x] = p <=> pidToId'[p] = x
  <1> SUFFICES ASSUME NEW p \in Pid, NEW x \in Id
               PROVE  child'[x] = p <=> pidToId'[p] = x
    OBVIOUS
  <1>1. /\ child'[x] = IF x = id THEN None ELSE child[x]
        /\ pidToId'[p] = IF p = q THEN None ELSE pidToId[p]
    BY DEF TypeOK
  <1>2. /\ child[x] = p <=> pidToId[p] = x
        /\ pidToId[q] = id
        /\ child[id] = p <=> pidToId[p] = id
    BY DEF NoLiveChildIsLost
  <1>3. QED
    BY <1>1, <1>2, ProcessNumbers

LEMMA LostNext ==
    ASSUME TypeOK, TypeOK', ChildInv, [Next]_vars
    PROVE  NoLiveChildIsLost'
  <1> USE DEF flags, supVars, procVars, ChildInv
  <1> DEFINE Kept(p) == life[p] = "alive" /\ p \notin signalled =>
                            p = fresh \/ child[startedAs[p]] = p
             Paired(p) == \A id \in Id : child[id] = p <=> pidToId[p] = id
  <1>a. \A p \in Pid : Kept(p) /\ Paired(p)
    BY DEF NoLiveChildIsLost
  <1> SUFFICES ASSUME NEW p \in Pid PROVE Kept(p)' /\ Paired(p)'
    BY DEF NoLiveChildIsLost
  <1>b. life[p] = "alive" => startedAs[p] \in Id
    BY DEF ProcessInv, ProcessOK, TypeOK
  <1>1. CASE StartChild
    <2>1. Paired(p)'
      BY <1>1, <1>a DEF StartChild
    <2>2. CASE p = nextPid
      BY <1>1, <2>1, <2>2 DEF StartChild
    <2>3. CASE p # nextPid
      <3>1. life'[p] = life[p] /\ startedAs'[p] = startedAs[p]
        BY <1>1, <2>3 DEF StartChild, TypeOK
      <3>2. p # fresh
        BY <1>1, ProcessNumbers DEF StartChild, Doing
      <3>3. QED
        BY <1>1, <1>a, <2>1, <3>1, <3>2 DEF StartChild
    <2>4. QED
      BY <2>2, <2>3
  <1>2. CASE MonitorChild
    <2> DEFINE id == Head(todo).id
    <2>1. todo # <<>> /\ Head(todo).op = "start" /\ startedAs[fresh] = id /\ fresh \in Pid
      BY <1>2 DEF MonitorChild, Starting, TypeOK
    <2>2. id \in Id /\ child[id] = None
      BY <2>1, FirstToDo DEF TodoInv, Fits
    <2>3. /\ \A x \in Id : child'[x] = IF x = id THEN fresh ELSE child[x]
          /\ pidToId'[p] = IF p = fresh THEN id ELSE pidToId[p]
          /\ pidToId[fresh] = None
      BY <1>2, <2>1 DEF MonitorChild, Starting, TypeOK
    <2>4. UNCHANGED <<life, startedAs, signalled>> /\ fresh' = None
      BY <1>2 DEF MonitorChild
    <2>5. Paired(p)'
      BY <1>a, <2>1, <2>2, <2>3, ProcessNumbers
    <2>6. Kept(p)'
      BY <1>a, <1>b, <2>1, <2>2, <2>3, <2>4, ProcessNumbers
    <2>7. QED
      BY <2>5, <2>6
  <1>3. CASE TerminateChild
    <2> DEFINE id == Head(todo).id
               q == child[id]
    <2>1. id \in Id /\ fresh = None /\ q \in Pid \cup {None}
      BY <1>3, FirstToDo DEF TerminateChild, Doing, TypeOK
    <2>2. child' = [child EXCEPT ![id] = None] /\ UNCHANGED <<life, startedAs, fresh>>
      BY <1>3 DEF TerminateChild
    <2>3. CASE q = None
      <3>1. child' = child /\ pidToId' = pidToId /\ signalled' = signalled
        BY <1>3, <2>1, <2>2, <2>3 DEF TerminateChild, TypeOK
      <3>2. QED
        BY <1>a, <2>2, <3>1
    <2>4. CASE q \in Pid
      <3>1. /\ pidToId' = [pidToId EXCEPT ![q] = None]
            /\ signalled' = signalled \cup {q}
        BY <1>3, <2>4, ProcessNumbers DEF TerminateChild, PidRemoved
      <3>2. Paired(p)'
        BY <2>1, <2>2, <2>4, <3>1, LetGo
      <3>3. CASE p = q
        BY <3>1, <3>2, <3>3
      <3>4. CASE p # q
        <4>1. \A x \in Id : child[x] = p => child'[x] = p
          BY <2>1, <2>2, <3>4 DEF TypeOK
        <4>2. QED
          BY <1>a, <1>b, <2>2, <3>1, <3>2, <3>4, <4>1
      <3>5. QED
        BY <3>3, <3>4
    <2>5. QED
      BY <2>1, <2>3, <2>4
  <1>4. CASE HandleDown
    <2> DEFINE q == Head(mailbox).pid
               id == pidToId[q]
    <2>1. q \in Pid /\ life[q] = "gone" /\ id \in Id /\ child[id] = q
      <3>1. q \in Pid /\ life[q] = "gone" /\ id \in Id
        BY <1>4, ReadTyping DEF HandleDown
      <3>2. QED
        BY <1>a, <3>1
    <2>2. /\ child' = [child EXCEPT ![id] = None]
          /\ pidToId' = [pidToId EXCEPT ![q] = None]
          /\ UNCHANGED <<life, startedAs, fresh, signalled>>
      BY <1>4 DEF HandleDown, ReadDown
    <2>3. Paired(p)'
      BY <2>1, <2>2, LetGo
    <2>4. \A x \in Id : child[x] = p /\ p # q => child'[x] = p
      BY <2>1, <2>2 DEF TypeOK
    <2>5. QED
      BY <1>a, <1>b, <2>1, <2>2, <2>3, <2>4
  <1>5. CASE UNCHANGED <<child, pidToId, fresh, signalled, startedAs, life>>
    BY <1>5, <1>a
  <1>6. ASSUME NEW q \in Pid, (\E b \in BOOLEAN : ChildEnds(q, b)) \/ ChildEnded(q)
        PROVE  Kept(p)' /\ Paired(p)'
    <2>1. UNCHANGED <<child, pidToId, fresh, signalled, startedAs>>
      BY <1>6 DEF ChildEnds, ChildEnded
    <2>2. life'[p] = "alive" => life[p] = "alive"
      BY <1>6 DEF ChildEnds, ChildEnded, TypeOK
    <2>3. QED
      BY <1>a, <2>1, <2>2
  <1>7. CASE \/ StartFails \/ Done \/ IgnoreDown \/ HandleExit \/ ExitSignal \/ Tick
             \/ UNCHANGED vars
    BY <1>5, <1>7 DEF StartFails, Done, IgnoreDown, ReadDown, HandleExit, ExitSignal,
                      Tick, vars
  <1>8. QED
    BY <1>1, <1>2, <1>3, <1>4, <1>6, <1>7 DEF Next, SupervisorStep

(***************************************************************************)
(* The inductive invariant, and what follows from it.                      *)
(***************************************************************************)
IInv == TypeOK /\ TimesInv /\ RestartIntensity /\ ChildInv

LEMMA InitInvariant == Init => IInv
  BY TypeInit, TimesInit, ChildInit DEF IInv

LEMMA NextInvariant == IInv /\ [Next]_vars => IInv'
  <1> SUFFICES ASSUME IInv, [Next]_vars PROVE IInv'
    OBVIOUS
  <1>1. TypeOK /\ TimesInv /\ RestartIntensity /\ ChildInv
    BY DEF IInv
  <1>2. TypeOK'
    BY <1>1, TypeNext DEF ChildInv, TimesInv
  <1>3. TimesInv' /\ RestartIntensity'
    BY <1>1, TimesNext
  <1>4. TodoInv' /\ Starting' /\ DownsAreTrue' /\ NoLiveChildIsLost'
    BY <1>1, <1>2, TodoNext, StartingNext, DownsNext, LostNext
  <1>5. ProcessInv'
    BY <1>1, <1>2, ProcessNext DEF ProcessInv
  <1>6. QED
    BY <1>2, <1>3, <1>4, <1>5 DEF IInv, ChildInv

LEMMA Invariant == Spec => []IInv
  BY InitInvariant, NextInvariant, PTL DEF Spec

(***************************************************************************)
(* Every variable keeps its type; restart_times never holds more than      *)
(* max_restarts entries.                                                   *)
(***************************************************************************)
THEOREM TypeCorrect == Spec => []TypeOK
  <1>1. IInv => TypeOK
    BY DEF IInv
  <1>2. QED
    BY <1>1, Invariant, PTL

(***************************************************************************)
(* Any max_restarts + 1 restarts take at least max_seconds, although       *)
(* restart_times forgets the old ones (handle_child_exit).                 *)
(***************************************************************************)
THEOREM RestartsAreLimited == Spec => []RestartIntensity
  <1>1. IInv => RestartIntensity
    BY DEF IInv
  <1>2. QED
    BY <1>1, Invariant, PTL

(***************************************************************************)
(* A running process that was not told to shut down is the child of its    *)
(* specification, and children and pid_to_id agree, for every strategy and *)
(* whatever DOWNs are on their way.                                        *)
(***************************************************************************)
THEOREM NoChildIsLost == Spec => []NoLiveChildIsLost
  <1>1. IInv => NoLiveChildIsLost
    BY DEF IInv, ChildInv
  <1>2. QED
    BY <1>1, Invariant, PTL

-----------------------------------------------------------------------------
(***************************************************************************)
(* TakenDownByStrategy.  The terminations of a restart come before its     *)
(* starts, so the child whose DOWN is handled is down during all of them.  *)
(***************************************************************************)
Terminates(id) == \E i \in 1 .. Len(todo) : todo[i].op = "terminate" /\ todo[i].id = id

PlanInv ==
    \A id \in Id : Terminates(id) =>
        \/ phase = "stopping"
        \/ strategy = "OneForAll"
        \/ strategy = "RestForOne" /\ \E f \in Id : f <= id /\ child[f] = None

\* A child is told to shut down only when it is let go.
UpIsUntold == \A id \in Id : child[id] # None => child[id] \notin signalled

LEMMA PlanInit == Init => PlanInv
  <1> SUFFICES ASSUME Init PROVE PlanInv
    OBVIOUS
  <1>1. 1 \in 1 .. NumChildren + 1 /\ todo = StartFrom(1)
    BY NumChildrenAssumption DEF Init
  <1>2. \A i \in 1 .. Len(todo) : todo[i].op = "start"
    BY <1>1, StartFromShape
  <1>3. QED
    BY <1>2 DEF PlanInv, Terminates

LEMMA PlanNext ==
    ASSUME IInv, PlanInv, [Next]_vars
    PROVE  PlanInv'
  <1> USE DEF flags, supVars, procVars
  <1>a. TypeOK /\ ChildInv
    BY DEF IInv
  <1> SUFFICES ASSUME NEW id \in Id, Terminates(id)'
               PROVE  \/ phase' = "stopping"
                      \/ strategy' = "OneForAll"
                      \/ /\ strategy' = "RestForOne"
                         /\ \E f \in Id : f <= id /\ child'[f] = None
    BY DEF PlanInv
  <1> DEFINE Goal == \/ phase' = "stopping"
                     \/ strategy' = "OneForAll"
                     \/ /\ strategy' = "RestForOne"
                        /\ \E f \in Id : f <= id /\ child'[f] = None
  <1>1. CASE UNCHANGED <<strategy, phase, todo, child>>
    BY <1>1 DEF PlanInv, Terminates
  <1>b. ASSUME todo # <<>>, todo' = Tail(todo) PROVE Terminates(id)
    <2>1. \A i \in 1 .. Len(Tail(todo)) :
              Tail(todo)[i] = todo[i + 1] /\ i + 1 \in 1 .. Len(todo)
      BY <1>a, <1>b DEF TypeOK
    <2>2. QED
      BY <1>b, <2>1 DEF Terminates
  <1>2. CASE MonitorChild
    <2>1. todo # <<>> /\ Head(todo).op = "start" /\ todo' = Tail(todo)
      BY <1>2, <1>a DEF MonitorChild, ChildInv, Starting
    <2>2. PICK i \in 1 .. Len(Tail(todo)) : Tail(todo)[i].op = "terminate"
      BY <2>1 DEF Terminates
    <2>3. i + 1 \in 1 .. Len(todo) /\ 1 < i + 1 /\ todo[i + 1].op = "terminate"
      BY <1>a, <2>1, <2>2 DEF TypeOK
    <2>4. todo[1].op = "start" /\ 1 \in 1 .. Len(todo)
      BY <1>a, <2>1, FirstToDo
    <2>5. FALSE
      BY <1>a, <2>3, <2>4 DEF ChildInv, TodoInv, Fits
    <2>6. QED
      BY <2>5
  <1>3. CASE TerminateChild
    <2>1. todo # <<>> /\ todo' = Tail(todo) /\ phase' = phase /\ strategy' = strategy
      BY <1>3 DEF TerminateChild, Doing
    <2>2. \A f \in Id : child[f] = None => child'[f] = None
      BY <1>3, <1>a DEF TerminateChild, TypeOK
    <2>3. QED
      BY <1>b, <2>1, <2>2 DEF PlanInv
  <1>4. CASE StartFails
    <2>1. phase' = "stopping" \/ todo' = <<>>
      BY <1>4 DEF StartFails
    <2>2. QED
      BY <2>1 DEF Terminates
  <1>5. CASE HandleExit
    BY <1>5 DEF HandleExit
  <1>6. CASE Done
    BY <1>6 DEF Done, Terminates
  <1>7. CASE HandleDown
    <2> DEFINE f == pidToId[Head(mailbox).pid]
    <2>1. f \in Id /\ child'[f] = None /\ strategy' = strategy
      BY <1>7, <1>a, ReadTyping DEF HandleDown, ReadDown, ChildInv, TypeOK
    <2>2. todo = <<>>
      BY <1>7, <1>a DEF HandleDown, ReadDown, ChildInv, TodoInv
    <2>3. todo' = RestartPlan(f) \/ phase' = "stopping" \/ todo' = todo
      BY <1>7 DEF HandleDown
    <2>4. CASE todo' = RestartPlan(f) /\ strategy = "OneForOne"
      <3>1. todo' = <<Step("start", f)>>
        BY <2>4 DEF RestartPlan
      <3>2. QED
        BY <3>1 DEF Terminates, Step
    <2>5. CASE todo' = RestartPlan(f) /\ strategy = "RestForOne"
      <3>1. todo' = TerminateFrom(f) \o StartFrom(f)
        BY <2>5 DEF RestartPlan, First
      <3> DEFINE t == TerminateFrom(f) \o StartFrom(f)
                 n == NumChildren - f + 1
      <3>2. /\ n \in Nat /\ Len(t) = n + n
            /\ \A i \in 1 .. n : t[i].op = "terminate" /\ t[i].id = NumChildren - i + 1
            /\ \A i \in n + 1 .. n + n : t[i].op = "start" /\ t[i].id = f + i - n - 1
        BY <2>1, RestartShape
      <3> HIDE DEF t
      <3>3. PICK i \in 1 .. Len(t) : t[i].op = "terminate" /\ t[i].id = id
        BY <3>1 DEF Terminates, t
      <3>4. i \in 1 .. n /\ id = NumChildren - i + 1
        BY <3>2, <3>3
      <3>5. f <= id
        BY <2>1, <3>2, <3>4, NumChildrenAssumption DEF Id
      <3>6. QED
        BY <2>1, <2>5, <3>5
    <2>6. strategy \in {"OneForOne", "OneForAll", "RestForOne"}
      BY <1>a, StrategyAssumption DEF TypeOK
    <2>7. CASE todo' = todo
      BY <2>2, <2>7 DEF Terminates
    <2>8. QED
      BY <2>1, <2>3, <2>4, <2>5, <2>6, <2>7
  <1>8. CASE PlanIsKept \/ StartChild
    BY <1>1, <1>8 DEF PlanIsKept, StartChild
  <1>9. QED
    BY <1>2, <1>3, <1>4, <1>5, <1>6, <1>7, <1>8, PlanSteps

LEMMA UpIsUntoldHolds == TypeOK /\ ChildInv => UpIsUntold
  BY ProcessNumbers DEF TypeOK, ChildInv, NoLiveChildIsLost, ProcessInv, ProcessOK, UpIsUntold

(***************************************************************************)
(* A child is taken down for another one only as the strategy says, by     *)
(* every step of the supervisor in every interleaving with its children.   *)
(***************************************************************************)
THEOREM TakenDownAsPlanned == Spec => TakenDownByStrategy
  <1> DEFINE Planned ==
          \A id \in Id : child[id] # child'[id] /\ child[id] \in signalled' =>
              \/ phase = "stopping"
              \/ strategy = "OneForAll"
              \/ strategy = "RestForOne" /\ \E j \in 1 .. id - 1 : child[j] = None
  <1>1. IInv /\ PlanInv /\ [Next]_vars => Planned
    <2> SUFFICES ASSUME IInv, PlanInv, [Next]_vars, NEW id \in Id,
                        child[id] # child'[id], child[id] \in signalled'
                 PROVE  \/ phase = "stopping"
                        \/ strategy = "OneForAll"
                        \/ strategy = "RestForOne" /\ \E j \in 1 .. id - 1 : child[j] = None
      OBVIOUS
    <2>a. TypeOK /\ ChildInv /\ UpIsUntold
      BY UpIsUntoldHolds DEF IInv
    <2>b. child[id] # None => child[id] \notin signalled
      BY <2>a DEF UpIsUntold
    <2>c. None \notin signalled
      BY <2>a, ProcessNumbers DEF TypeOK
    <2>1. CASE TerminateChild
      <3>1. todo # <<>> /\ Head(todo).op = "terminate"
        BY <2>1 DEF TerminateChild, Doing
      <3>2. Head(todo).id = id
        BY <2>1, <2>a DEF TerminateChild, TypeOK
      <3>3. Terminates(id)
        BY <2>a, <3>1, <3>2, FirstToDo DEF Terminates
      <3>4. child[id] # None
        BY <2>1, <2>c DEF TerminateChild
      <3>5. ASSUME NEW f \in Id, f <= id, child[f] = None PROVE f \in 1 .. id - 1
        BY <3>4, <3>5, NumChildrenAssumption DEF Id
      <3>6. QED
        BY <3>3, <3>5 DEF PlanInv
    <2>2. CASE UNCHANGED signalled
      BY <2>2, <2>b, <2>c
    <2>3. CASE PlanIsKept \/ StartChild \/ StartFails \/ MonitorChild \/ Done
               \/ HandleDown \/ HandleExit
      BY <2>2, <2>3 DEF PlanIsKept, StartChild, StartFails, MonitorChild, Done, HandleDown,
                        ReadDown, HandleExit
    <2>4. QED
      BY <2>1, <2>3, PlanSteps
  <1>2. IInv /\ PlanInv /\ [Next]_vars => PlanInv'
    BY PlanNext
  <1>3. QED
    BY <1>1, <1>2, PlanInit, Invariant, PTL DEF Spec, TakenDownByStrategy
=============================================================================
