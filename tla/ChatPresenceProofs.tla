-------------------------- MODULE ChatPresenceProofs --------------------------
(***************************************************************************)
(* Proofs about ChatPresence, for any sessions, any finite set of rooms    *)
(* and any bounds: when everything is handled, the rooms agree.  The       *)
(* inductive invariant ChatInv says what has to hold on the way there: of  *)
(* the place of each session (AllOK), of its calls (CallsOK) and of what   *)
(* its client is told (ClientsOK).                                         *)
(***************************************************************************)
EXTENDS ChatPresence, FiniteSetTheorems, TLAPS

ChatSpec == ChatInit /\ [][ChatNext]_chatVars

-----------------------------------------------------------------------------
(***************************************************************************)
(* Queues and mailboxes: what is in them, what a queue will make of        *)
(* something that is so now, and what a mailbox will make of what a client *)
(* lists.                                                                  *)
(***************************************************************************)
Within(q) == {q[i] : i \in DOMAIN q}

\* What a queue of requests will have made of something that is so now.
Is(q, kind, u, r) == q.kind = kind /\ q.user = u /\ q.room = r

WillBe(queue, on, off, u, r, now) ==
    \/ \E i \in DOMAIN queue :
          Is(queue[i], on, u, r) /\ \A j \in DOMAIN queue : j > i => ~Is(queue[j], off, u, r)
    \/ now /\ \A j \in DOMAIN queue : ~Is(queue[j], off, u, r)

LEMMA SeqAppend ==
    ASSUME NEW S, NEW q \in Seq(S), NEW e \in S
    PROVE  /\ Append(q, e) \in Seq(S)
           /\ DOMAIN Append(q, e) = 1 .. Len(q) + 1 /\ DOMAIN q = 1 .. Len(q) /\ Len(q) \in Nat
           /\ \A i \in 1 .. Len(q) : Append(q, e)[i] = q[i]
           /\ Append(q, e)[Len(q) + 1] = e
OBVIOUS

LEMMA SeqTail ==
    ASSUME NEW S, NEW q \in Seq(S), q # <<>>
    PROVE  /\ Tail(q) \in Seq(S) /\ Head(q) \in S /\ Head(q) = q[1]
           /\ Len(q) \in Nat /\ Len(q) >= 1
           /\ DOMAIN Tail(q) = 1 .. Len(q) - 1 /\ DOMAIN q = 1 .. Len(q)
           /\ \A i \in 1 .. Len(q) - 1 : Tail(q)[i] = q[i + 1]
OBVIOUS

LEMMA WillBeAppended ==
    ASSUME NEW S, NEW q \in Seq(S), NEW e \in S, NEW on, NEW off, on # off, NEW u, NEW r, NEW now
    PROVE  /\ Is(e, on, u, r) => WillBe(Append(q, e), on, off, u, r, now)
           /\ Is(e, off, u, r) => ~WillBe(Append(q, e), on, off, u, r, now)
           /\ ~Is(e, on, u, r) /\ ~Is(e, off, u, r) =>
                 (WillBe(Append(q, e), on, off, u, r, now) <=> WillBe(q, on, off, u, r, now))
<1> DEFINE a == Append(q, e)
<1>1. /\ DOMAIN a = 1 .. Len(q) + 1 /\ DOMAIN q = 1 .. Len(q) /\ Len(q) \in Nat
      /\ \A i \in 1 .. Len(q) : a[i] = q[i]
      /\ a[Len(q) + 1] = e
  BY SeqAppend
<1> HIDE DEF a
<1>2. Is(e, on, u, r) => WillBe(a, on, off, u, r, now)
  <2> SUFFICES ASSUME Is(e, on, u, r) PROVE WillBe(a, on, off, u, r, now)
    OBVIOUS
  <2>1. Len(q) + 1 \in DOMAIN a /\ Is(a[Len(q) + 1], on, u, r)
    BY <1>1
  <2>2. \A j \in DOMAIN a : ~(j > Len(q) + 1)
    BY <1>1
  <2> QED BY <2>1, <2>2 DEF WillBe
<1>3. Is(e, off, u, r) => ~WillBe(a, on, off, u, r, now)
  <2> SUFFICES ASSUME Is(e, off, u, r) PROVE ~WillBe(a, on, off, u, r, now)
    OBVIOUS
  <2>1. Len(q) + 1 \in DOMAIN a /\ Is(a[Len(q) + 1], off, u, r) /\ ~Is(a[Len(q) + 1], on, u, r)
    BY <1>1 DEF Is
  <2>2. \A i \in DOMAIN a : i = Len(q) + 1 \/ Len(q) + 1 > i
    BY <1>1
  <2> QED BY <2>1, <2>2 DEF WillBe
<1>4. ~Is(e, on, u, r) /\ ~Is(e, off, u, r) =>
         (WillBe(a, on, off, u, r, now) <=> WillBe(q, on, off, u, r, now))
  <2> SUFFICES ASSUME ~Is(e, on, u, r), ~Is(e, off, u, r)
               PROVE  WillBe(a, on, off, u, r, now) <=> WillBe(q, on, off, u, r, now)
    OBVIOUS
  <2>1. \A i \in DOMAIN q : i \in DOMAIN a /\ a[i] = q[i]
    BY <1>1
  <2>2. \A i \in DOMAIN a : i \in DOMAIN q \/ (~Is(a[i], on, u, r) /\ ~Is(a[i], off, u, r))
    BY <1>1
  <2> QED BY <2>1, <2>2 DEF WillBe
<1> QED BY <1>2, <1>3, <1>4 DEF a

LEMMA WillBeTaken ==
    ASSUME NEW S, NEW q \in Seq(S), q # <<>>, NEW on, NEW off, on # off, NEW u, NEW r,
           NEW now, NEW then,
           Is(Head(q), on, u, r) => then,
           Is(Head(q), off, u, r) => ~then,
           ~Is(Head(q), on, u, r) /\ ~Is(Head(q), off, u, r) => (then <=> now)
    PROVE  WillBe(Tail(q), on, off, u, r, then) <=> WillBe(q, on, off, u, r, now)
<1>1. /\ Head(q) = q[1] /\ Len(q) \in Nat /\ Len(q) >= 1
      /\ DOMAIN Tail(q) = 1 .. Len(q) - 1 /\ DOMAIN q = 1 .. Len(q)
      /\ \A i \in 1 .. Len(q) - 1 : Tail(q)[i] = q[i + 1]
  BY SeqTail
<1>a. \A i \in DOMAIN Tail(q) : i + 1 \in DOMAIN q /\ Tail(q)[i] = q[i + 1] /\ i + 1 > 1
  BY <1>1
<1>b. \A i \in DOMAIN q : i = 1 \/ (i - 1 \in DOMAIN Tail(q) /\ Tail(q)[i - 1] = q[i])
  BY <1>1
<1>c. 1 \in DOMAIN q
  BY <1>1
<1>d. \A i \in DOMAIN Tail(q) : \A j \in DOMAIN q : j > i + 1 =>
         j - 1 \in DOMAIN Tail(q) /\ Tail(q)[j - 1] = q[j] /\ j - 1 > i
  BY <1>1
<1>e. \A i \in DOMAIN q : \A j \in DOMAIN Tail(q) : j > i - 1 => j + 1 > i
  BY <1>1
<1>f. ~(Is(q[1], on, u, r) /\ Is(q[1], off, u, r))
  BY DEF Is
<1>g. \A j \in DOMAIN q : j = 1 \/ j > 1
  BY <1>1
<1>2. ASSUME WillBe(Tail(q), on, off, u, r, then) PROVE WillBe(q, on, off, u, r, now)
  <2>1. CASE \E i \in DOMAIN Tail(q) : Is(Tail(q)[i], on, u, r)
                /\ \A j \in DOMAIN Tail(q) : j > i => ~Is(Tail(q)[j], off, u, r)
    <3>1. PICK i \in DOMAIN Tail(q) : Is(Tail(q)[i], on, u, r)
                /\ \A j \in DOMAIN Tail(q) : j > i => ~Is(Tail(q)[j], off, u, r)
      BY <2>1
    <3>2. i + 1 \in DOMAIN q /\ Is(q[i + 1], on, u, r)
      BY <3>1, <1>a
    <3>3. \A j \in DOMAIN q : j > i + 1 => ~Is(q[j], off, u, r)
      BY <3>1, <1>d
    <3> QED BY <3>2, <3>3 DEF WillBe
  <2>2. CASE then /\ \A j \in DOMAIN Tail(q) : ~Is(Tail(q)[j], off, u, r)
    <3>1. \A j \in DOMAIN q : j > 1 => ~Is(q[j], off, u, r)
      BY <2>2, <1>b, <1>1
    <3>2. CASE Is(q[1], on, u, r)
      BY <3>1, <3>2, <1>c DEF WillBe
    <3>3. CASE ~Is(q[1], on, u, r)
      <4>1. ~Is(q[1], off, u, r) /\ now
        BY <2>2, <3>3, <1>1
      <4>2. \A j \in DOMAIN q : ~Is(q[j], off, u, r)
        BY <3>1, <4>1, <1>g
      <4> QED BY <4>1, <4>2 DEF WillBe
    <3> QED BY <3>2, <3>3
  <2> QED BY <1>2, <2>1, <2>2 DEF WillBe
<1>3. ASSUME WillBe(q, on, off, u, r, now) PROVE WillBe(Tail(q), on, off, u, r, then)
  <2>1. CASE \E i \in DOMAIN q : Is(q[i], on, u, r)
                /\ \A j \in DOMAIN q : j > i => ~Is(q[j], off, u, r)
    <3>1. PICK i \in DOMAIN q : Is(q[i], on, u, r)
                /\ \A j \in DOMAIN q : j > i => ~Is(q[j], off, u, r)
      BY <2>1
    <3>2. CASE i = 1
      <4>1. then
        BY <3>1, <3>2, <1>1
      <4>2. \A j \in DOMAIN Tail(q) : ~Is(Tail(q)[j], off, u, r)
        BY <3>1, <3>2, <1>a
      <4> QED BY <4>1, <4>2 DEF WillBe
    <3>3. CASE i # 1
      <4>1. i - 1 \in DOMAIN Tail(q) /\ Is(Tail(q)[i - 1], on, u, r)
        BY <3>1, <3>3, <1>b
      <4>2. \A j \in DOMAIN Tail(q) : j > i - 1 => ~Is(Tail(q)[j], off, u, r)
        BY <3>1, <1>a, <1>e
      <4> QED BY <4>1, <4>2 DEF WillBe
    <3> QED BY <3>2, <3>3
  <2>2. CASE now /\ \A j \in DOMAIN q : ~Is(q[j], off, u, r)
    <3>1. ~Is(q[1], off, u, r) /\ then
      BY <2>2, <1>c, <1>1
    <3>2. \A j \in DOMAIN Tail(q) : ~Is(Tail(q)[j], off, u, r)
      BY <2>2, <1>a
    <3> QED BY <3>1, <3>2 DEF WillBe
  <2> QED BY <1>3, <2>1, <2>2 DEF WillBe
<1> QED BY <1>2, <1>3

LEMMA SetToSeqTyped ==
    ASSUME NEW S, IsFiniteSet(S)
    PROVE  Seqs!SetToSeq(S) \in Seq(S)
<1>1. Cardinality(S) \in Nat /\ ExistsBijection(1 .. Cardinality(S), S)
  BY FS_CardinalityType
<1>2. PICK f : f \in [1 .. Cardinality(S) -> S] /\ \A a, b \in 1 .. Cardinality(S) : f[a] = f[b] => a = b
  BY <1>1 DEF ExistsBijection, Bijection, Injection, IsInjective
<1>3. Seqs!IsInjective(f)
  BY <1>2 DEF Seqs!IsInjective
<1>4. Seqs!Cardinality(S) = Cardinality(S)
  BY DEF Seqs!Cardinality, Cardinality
<1>5. Seqs!SetToSeq(S) \in [1 .. Cardinality(S) -> S]
  BY <1>2, <1>3, <1>4 DEF Seqs!SetToSeq
<1> QED BY <1>1, <1>5

\* A reply is the only one, and the states pushed are before it.
Ordered(box) ==
    \A i, j \in DOMAIN box : box[i].kind = "reply" =>
        (box[j].kind = "reply" => i = j) /\ (box[j].kind = "state" => j < i)
NoReplyIn(box) == \A l \in Within(box) : l.kind # "reply"

\* Letters about v in r, and those that are right when v is there iff s.
About(l, r, v) == l.room = r /\ (l.kind = "state" \/ (l.kind \in {"user joined", "user left"} /\ v \in l.who))
Right(l, s, v) == (l.kind # "user left" /\ v \in l.who) <=> s
Fixes(l, s, r, v) == l.kind = "state" /\ l.room = r /\ Right(l, s, v)

Cleaned(box, known, s, r, v) ==
    /\ \A i \in DOMAIN box : About(box[i], r, v) /\ ~Right(box[i], s, v) =>
          \E j \in DOMAIN box : j > i /\ Fixes(box[j], s, r, v)
    /\ (v \in known <=> s) \/ \E j \in DOMAIN box : Fixes(box[j], s, r, v)

LEMMA WithinAppended ==
    ASSUME NEW S, NEW q \in Seq(S), NEW e \in S
    PROVE  Within(Append(q, e)) = Within(q) \cup {e}
<1> DEFINE a == Append(q, e)
<1>1. /\ DOMAIN a = 1 .. Len(q) + 1 /\ DOMAIN q = 1 .. Len(q) /\ Len(q) \in Nat
      /\ \A i \in 1 .. Len(q) : a[i] = q[i]
      /\ a[Len(q) + 1] = e
  BY SeqAppend
<1> HIDE DEF a
<1>2. \A i \in DOMAIN a : i = Len(q) + 1 \/ i \in DOMAIN q
  BY <1>1
<1>3. \A i \in DOMAIN q : i \in DOMAIN a /\ a[i] = q[i]
  BY <1>1
<1>4. Len(q) + 1 \in DOMAIN a
  BY <1>1
<1> QED BY <1>1, <1>2, <1>3, <1>4 DEF Within, a

LEMMA WithinTaken ==
    ASSUME NEW S, NEW q \in Seq(S), q # <<>>
    PROVE  Within(q) = Within(Tail(q)) \cup {Head(q)}
<1>1. /\ Head(q) = q[1] /\ Len(q) \in Nat /\ Len(q) >= 1
      /\ DOMAIN Tail(q) = 1 .. Len(q) - 1 /\ DOMAIN q = 1 .. Len(q)
      /\ \A i \in 1 .. Len(q) - 1 : Tail(q)[i] = q[i + 1]
  BY SeqTail
<1>2. \A i \in DOMAIN Tail(q) : i + 1 \in DOMAIN q /\ Tail(q)[i] = q[i + 1]
  BY <1>1
<1>3. \A i \in DOMAIN q : i = 1 \/ (i - 1 \in DOMAIN Tail(q) /\ Tail(q)[i - 1] = q[i])
  BY <1>1
<1>4. 1 \in DOMAIN q
  BY <1>1
<1>5. ASSUME NEW x \in Within(q) PROVE x \in Within(Tail(q)) \cup {Head(q)}
  <2>1. PICK i \in DOMAIN q : x = q[i]
    BY DEF Within
  <2>2. CASE i = 1
    BY <2>1, <2>2, <1>1
  <2>3. CASE i # 1
    <3>1. i - 1 \in DOMAIN Tail(q) /\ Tail(q)[i - 1] = x
      BY <2>1, <2>3, <1>3
    <3> QED BY ONLY <3>1 DEF Within
  <2> QED BY <2>2, <2>3
<1>6. \A x \in Within(Tail(q)) : x \in Within(q)
  BY <1>2 DEF Within
<1>7. Head(q) \in Within(q)
  BY <1>1, <1>4 DEF Within
<1> QED BY <1>5, <1>6, <1>7

LEMMA WithinEmpty == Within(<<>>) = {}
<1>1. DOMAIN << >> = {}
  OBVIOUS
<1> QED BY <1>1 DEF Within

LEMMA SeqConcat ==
    ASSUME NEW S, NEW p \in Seq(S), NEW q \in Seq(S)
    PROVE  /\ p \o q \in Seq(S)
           /\ Len(p) \in Nat /\ Len(q) \in Nat
           /\ DOMAIN p = 1 .. Len(p) /\ DOMAIN q = 1 .. Len(q)
           /\ DOMAIN (p \o q) = 1 .. Len(p) + Len(q)
           /\ \A i \in 1 .. Len(p) : (p \o q)[i] = p[i]
           /\ \A i \in 1 .. Len(q) : (p \o q)[Len(p) + i] = q[i]
OBVIOUS

LEMMA WithinConcat ==
    ASSUME NEW S, NEW p \in Seq(S), NEW q \in Seq(S)
    PROVE  Within(p \o q) = Within(p) \cup Within(q)
<1> DEFINE a == p \o q
<1>1. /\ Len(p) \in Nat /\ Len(q) \in Nat
      /\ DOMAIN p = 1 .. Len(p) /\ DOMAIN q = 1 .. Len(q)
      /\ DOMAIN a = 1 .. Len(p) + Len(q)
      /\ \A i \in 1 .. Len(p) : a[i] = p[i]
      /\ \A i \in 1 .. Len(q) : a[Len(p) + i] = q[i]
  BY SeqConcat
<1> HIDE DEF a
<1>2. \A i \in DOMAIN a : i \in DOMAIN p \/ (i - Len(p) \in DOMAIN q /\ a[i] = q[i - Len(p)])
  <2> TAKE i \in DOMAIN a
  <2>1. i \in DOMAIN p \/ (i - Len(p) \in 1 .. Len(q) /\ Len(p) + (i - Len(p)) = i)
    BY <1>1
  <2> QED BY <2>1, <1>1
<1>3. \A i \in DOMAIN p : i \in DOMAIN a /\ a[i] = p[i]
  BY <1>1
<1>4. \A i \in DOMAIN q : Len(p) + i \in DOMAIN a /\ a[Len(p) + i] = q[i]
  BY <1>1
<1>5. \A x \in Within(a) : x \in Within(p) \cup Within(q)
  BY <1>2, <1>3 DEF Within
<1>6. \A x \in Within(p) \cup Within(q) : x \in Within(a)
  BY <1>3, <1>4 DEF Within
<1> QED BY <1>5, <1>6 DEF a

LEMMA ResentIs ==
    ASSUME NEW S, NEW box \in Seq(S), NEW i \in DOMAIN box
    PROVE  /\ Resent(box, i) \in Seq(S)
           /\ Len(box) \in Nat /\ i \in Nat /\ i >= 1 /\ i <= Len(box) /\ DOMAIN box = 1 .. Len(box)
           /\ DOMAIN Resent(box, i) = 1 .. Len(box) - 1
           /\ \A k \in 1 .. Len(box) - i : Resent(box, i)[k] = box[i + k]
           /\ \A k \in 1 .. i - 1 : Resent(box, i)[Len(box) - i + k] = box[k]
<1>1. Len(box) \in Nat /\ DOMAIN box = 1 .. Len(box) /\ i \in Nat /\ i >= 1 /\ i <= Len(box)
  OBVIOUS
<1> DEFINE p == SubSeq(box, i + 1, Len(box))
           q == SubSeq(box, 1, i - 1)
<1>2. p \in Seq(S) /\ Len(p) = Len(box) - i /\ \A k \in 1 .. Len(box) - i : p[k] = box[i + k]
  BY <1>1
<1>3. q \in Seq(S) /\ Len(q) = i - 1 /\ \A k \in 1 .. i - 1 : q[k] = box[k]
  BY <1>1
<1> HIDE DEF p, q
<1>4. /\ p \o q \in Seq(S)
      /\ DOMAIN (p \o q) = 1 .. Len(p) + Len(q)
      /\ \A k \in 1 .. Len(p) : (p \o q)[k] = p[k]
      /\ \A k \in 1 .. Len(q) : (p \o q)[Len(p) + k] = q[k]
  <2>1. p \in Seq(S) /\ q \in Seq(S)
    BY <1>2, <1>3
  <2> QED BY ONLY <2>1, SeqConcat
<1>5. Resent(box, i) = p \o q
  BY DEF Resent, p, q
<1>6. Len(p) + Len(q) = Len(box) - 1
  BY <1>1, <1>2, <1>3
<1> QED BY <1>1, <1>2, <1>3, <1>4, <1>5, <1>6

LEMMA ResentFrom ==
    ASSUME NEW S, NEW box \in Seq(S), NEW i \in DOMAIN box
    PROVE  /\ \A k \in DOMAIN Resent(box, i) : \E j \in DOMAIN box :
                 j # i /\ Resent(box, i)[k] = box[j]
                 /\ \/ j > i /\ k = j - i
                    \/ j < i /\ k = Len(box) - i + j
           /\ \A j \in DOMAIN box : j > i => j - i \in DOMAIN Resent(box, i) /\ Resent(box, i)[j - i] = box[j]
           /\ \A j \in DOMAIN box : j < i => Len(box) - i + j \in DOMAIN Resent(box, i)
                                             /\ Resent(box, i)[Len(box) - i + j] = box[j]
<1> DEFINE b == Resent(box, i)
           n == Len(box)
<1>1. /\ n \in Nat /\ i \in Nat /\ i >= 1 /\ i <= n /\ DOMAIN box = 1 .. n
      /\ DOMAIN b = 1 .. n - 1
      /\ \A k \in 1 .. n - i : b[k] = box[i + k]
      /\ \A k \in 1 .. i - 1 : b[n - i + k] = box[k]
  BY ResentIs
<1> HIDE DEF b, n
<1>2. ASSUME NEW k \in DOMAIN b
      PROVE  \E j \in DOMAIN box : j # i /\ b[k] = box[j]
                 /\ \/ j > i /\ k = j - i
                    \/ j < i /\ k = n - i + j
  <2>1. CASE k <= n - i
    <3>1. k \in 1 .. n - i /\ i + k \in DOMAIN box /\ i + k > i /\ k = (i + k) - i /\ i + k # i
      BY <1>1, <2>1
    <3> QED BY <3>1, <1>1
  <2>2. CASE k > n - i
    <3> DEFINE j == k - (n - i)
    <3>1. j \in 1 .. i - 1 /\ j \in DOMAIN box /\ j < i /\ k = n - i + j /\ j # i
      BY <1>1, <2>2
    <3> HIDE DEF j
    <3> QED BY <3>1, <1>1
  <2>3. k \in Int /\ n - i \in Int
    BY <1>1
  <2> QED BY <2>1, <2>2, <2>3
<1>3. \A j \in DOMAIN box : j > i => j - i \in DOMAIN b /\ b[j - i] = box[j]
  <2> SUFFICES ASSUME NEW j \in DOMAIN box, j > i PROVE j - i \in DOMAIN b /\ b[j - i] = box[j]
    OBVIOUS
  <2>1. j - i \in 1 .. n - i /\ j - i \in DOMAIN b /\ i + (j - i) = j
    BY <1>1
  <2> QED BY <2>1, <1>1
<1>4. \A j \in DOMAIN box : j < i => n - i + j \in DOMAIN b /\ b[n - i + j] = box[j]
  <2> SUFFICES ASSUME NEW j \in DOMAIN box, j < i PROVE n - i + j \in DOMAIN b /\ b[n - i + j] = box[j]
    OBVIOUS
  <2>1. j \in 1 .. i - 1 /\ n - i + j \in DOMAIN b
    BY <1>1
  <2> QED BY <2>1, <1>1
<1> QED BY <1>2, <1>3, <1>4 DEF b, n

LEMMA WithinResent ==
    ASSUME NEW S, NEW box \in Seq(S), NEW i \in DOMAIN box
    PROVE  /\ Resent(box, i) \in Seq(S)
           /\ Within(Resent(box, i)) \subseteq Within(box)
           /\ Within(box) \subseteq Within(Resent(box, i)) \cup {box[i]}
<1>1. Resent(box, i) \in Seq(S) /\ DOMAIN box = 1 .. Len(box) /\ Len(box) \in Nat /\ i \in Nat
  BY ResentIs
<1>2. Within(Resent(box, i)) \subseteq Within(box)
  BY ResentFrom DEF Within
<1>3. ASSUME NEW j \in DOMAIN box PROVE box[j] \in Within(Resent(box, i)) \cup {box[i]}
  <2>1. j > i \/ j < i \/ j = i
    BY <1>1
  <2> QED BY <2>1, ResentFrom DEF Within
<1> QED BY <1>1, <1>2, <1>3 DEF Within

LEMMA NoReplyOrdered ==
    ASSUME NEW box, NoReplyIn(box)
    PROVE  Ordered(box)
BY DEF NoReplyIn, Ordered, Within

LEMMA OrderedAppended ==
    ASSUME NEW S, NEW box \in Seq(S), NEW e \in S, Ordered(box),
           NoReplyIn(box) \/ e.kind \notin {"reply", "state"}
    PROVE  Ordered(Append(box, e))
<1> DEFINE a == Append(box, e)
<1>1. /\ DOMAIN a = 1 .. Len(box) + 1 /\ DOMAIN box = 1 .. Len(box) /\ Len(box) \in Nat
      /\ \A i \in 1 .. Len(box) : a[i] = box[i]
      /\ a[Len(box) + 1] = e
  BY SeqAppend
<1> HIDE DEF a
<1>2. \A i \in DOMAIN a : (i = Len(box) + 1 /\ a[i] = e) \/ (i \in DOMAIN box /\ i < Len(box) + 1 /\ a[i] = box[i])
  BY <1>1
<1>3. NoReplyIn(box) => \A i \in DOMAIN box : box[i].kind # "reply"
  BY DEF NoReplyIn, Within
<1> SUFFICES ASSUME NEW i \in DOMAIN a, NEW j \in DOMAIN a, a[i].kind = "reply"
             PROVE  (a[j].kind = "reply" => i = j) /\ (a[j].kind = "state" => j < i)
  BY DEF Ordered, a
<1>4. CASE NoReplyIn(box)
  <2>1. i = Len(box) + 1 /\ a[i] = e
    BY <1>2, <1>3, <1>4
  <2>2. CASE j = i
    BY <2>1, <2>2
  <2>3. CASE j # i
    <3>1. j \in DOMAIN box /\ j < Len(box) + 1 /\ a[j] = box[j]
      BY <1>2, <2>1, <2>3
    <3> QED BY <3>1, <2>1, <1>3, <1>4
  <2> QED BY <2>2, <2>3
<1>5. CASE e.kind \notin {"reply", "state"}
  BY <1>2, <1>5 DEF Ordered
<1> QED BY <1>4, <1>5

LEMMA OrderedTaken ==
    ASSUME NEW S, NEW box \in Seq(S), box # <<>>, Ordered(box)
    PROVE  Ordered(Tail(box))
<1>1. /\ Len(box) \in Nat /\ Len(box) >= 1
      /\ DOMAIN Tail(box) = 1 .. Len(box) - 1 /\ DOMAIN box = 1 .. Len(box)
      /\ \A i \in 1 .. Len(box) - 1 : Tail(box)[i] = box[i + 1]
  BY SeqTail
<1>2. \A i \in DOMAIN Tail(box) : i + 1 \in DOMAIN box /\ Tail(box)[i] = box[i + 1]
  BY <1>1
<1>3. \A i, j \in DOMAIN Tail(box) : (i + 1 = j + 1 => i = j) /\ (j + 1 < i + 1 => j < i)
  BY <1>1
<1> QED BY <1>2, <1>3 DEF Ordered

LEMMA OrderedConcat ==
    ASSUME NEW S, NEW p \in Seq(S), NEW q \in Seq(S), Ordered(p),
           \A l \in Within(q) : l.kind \notin {"reply", "state"}
    PROVE  Ordered(p \o q)
<1> DEFINE a == p \o q
<1>1. /\ Len(p) \in Nat /\ Len(q) \in Nat
      /\ DOMAIN p = 1 .. Len(p) /\ DOMAIN q = 1 .. Len(q)
      /\ DOMAIN a = 1 .. Len(p) + Len(q)
      /\ \A i \in 1 .. Len(p) : a[i] = p[i]
      /\ \A i \in 1 .. Len(q) : a[Len(p) + i] = q[i]
  BY SeqConcat
<1> HIDE DEF a
<1>2. \A i \in DOMAIN a : (i \in DOMAIN p /\ a[i] = p[i]) \/ a[i] \in Within(q)
  <2> TAKE i \in DOMAIN a
  <2>1. i \in DOMAIN p \/ (i - Len(p) \in 1 .. Len(q) /\ Len(p) + (i - Len(p)) = i)
    BY <1>1
  <2> QED BY <2>1, <1>1 DEF Within
<1> QED BY <1>2 DEF Ordered, a

LEMMA ReplyTaken ==
    ASSUME NEW S, NEW box \in Seq(S), Ordered(box), NEW i \in DOMAIN box, box[i].kind = "reply"
    PROVE  NoReplyIn(Resent(box, i))
<1>1. \A j \in DOMAIN box : j # i => box[j].kind # "reply"
  BY DEF Ordered
<1> QED BY <1>1, ResentFrom DEF NoReplyIn, Within

LEMMA CleanedAppended ==
    ASSUME NEW S, NEW box \in Seq(S), NEW e \in S, NEW known, NEW s, NEW r, NEW v,
           Cleaned(box, known, s, r, v), About(e, r, v) => Right(e, s, v)
    PROVE  Cleaned(Append(box, e), known, s, r, v)
<1> DEFINE a == Append(box, e)
<1>1. /\ DOMAIN a = 1 .. Len(box) + 1 /\ DOMAIN box = 1 .. Len(box) /\ Len(box) \in Nat
      /\ \A i \in 1 .. Len(box) : a[i] = box[i]
      /\ a[Len(box) + 1] = e
  BY SeqAppend
<1> HIDE DEF a
<1>2. \A i \in DOMAIN a : (i = Len(box) + 1 /\ a[i] = e) \/ (i \in DOMAIN box /\ a[i] = box[i])
  BY <1>1
<1>3. \A i \in DOMAIN box : i \in DOMAIN a /\ a[i] = box[i]
  BY <1>1
<1>4. ASSUME NEW i \in DOMAIN a, About(a[i], r, v), ~Right(a[i], s, v)
      PROVE  \E j \in DOMAIN a : j > i /\ Fixes(a[j], s, r, v)
  <2>1. i \in DOMAIN box /\ a[i] = box[i]
    BY <1>2, <1>4
  <2>2. PICK j \in DOMAIN box : j > i /\ Fixes(box[j], s, r, v)
    BY <2>1, <1>4 DEF Cleaned
  <2> QED BY <2>2, <1>3
<1>5. (v \in known <=> s) \/ \E j \in DOMAIN a : Fixes(a[j], s, r, v)
  BY <1>3 DEF Cleaned
<1> QED BY <1>4, <1>5 DEF Cleaned, a

LEMMA CleanedByState ==
    ASSUME NEW S, NEW box \in Seq(S), NEW e \in S, NEW known, NEW s, NEW r, NEW v,
           Fixes(e, s, r, v)
    PROVE  Cleaned(Append(box, e), known, s, r, v)
<1> DEFINE a == Append(box, e)
<1>1. /\ DOMAIN a = 1 .. Len(box) + 1 /\ DOMAIN box = 1 .. Len(box) /\ Len(box) \in Nat
      /\ a[Len(box) + 1] = e
  BY SeqAppend
<1> HIDE DEF a
<1>2. Len(box) + 1 \in DOMAIN a /\ Fixes(a[Len(box) + 1], s, r, v)
  BY <1>1
<1>3. \A i \in DOMAIN a : i = Len(box) + 1 \/ Len(box) + 1 > i
  BY <1>1
<1>4. Right(a[Len(box) + 1], s, v)
  BY <1>2 DEF Fixes
<1> QED BY <1>2, <1>3, <1>4 DEF Cleaned, a

LEMMA TailFrom ==
    ASSUME NEW S, NEW box \in Seq(S), box # <<>>
    PROVE  /\ Head(box) = box[1] /\ 1 \in DOMAIN box
           /\ \A j \in DOMAIN box : j = 1 \/ j > 1
           /\ \A i \in DOMAIN Tail(box) : i + 1 \in DOMAIN box /\ Tail(box)[i] = box[i + 1]
           /\ \A j \in DOMAIN box : j > 1 => j - 1 \in DOMAIN Tail(box) /\ Tail(box)[j - 1] = box[j]
           /\ \A i \in DOMAIN Tail(box) : \A j \in DOMAIN box : j > i + 1 => j > 1 /\ j - 1 > i
<1>1. /\ Len(box) \in Nat /\ Len(box) >= 1 /\ Head(box) = box[1]
      /\ DOMAIN Tail(box) = 1 .. Len(box) - 1 /\ DOMAIN box = 1 .. Len(box)
      /\ \A i \in 1 .. Len(box) - 1 : Tail(box)[i] = box[i + 1]
  BY SeqTail
<1>2. 1 \in DOMAIN box /\ \A j \in DOMAIN box : j = 1 \/ j > 1
  BY <1>1
<1>3. \A i \in DOMAIN Tail(box) : i + 1 \in DOMAIN box /\ Tail(box)[i] = box[i + 1]
  BY <1>1
<1>4. \A j \in DOMAIN box : j > 1 => j - 1 \in DOMAIN Tail(box) /\ Tail(box)[j - 1] = box[j]
  BY <1>1
<1>5. \A i \in DOMAIN Tail(box) : \A j \in DOMAIN box : j > i + 1 => j > 1 /\ j - 1 > i
  BY <1>1
<1> QED BY <1>1, <1>2, <1>3, <1>4, <1>5

LEMMA CleanedTaken ==
    ASSUME NEW S, NEW box \in Seq(S), box # <<>>, NEW known, NEW after, NEW s, NEW r, NEW v,
           Cleaned(box, known, s, r, v),
           About(Head(box), r, v) => (v \in after <=> Head(box).kind # "user left" /\ v \in Head(box).who),
           ~About(Head(box), r, v) => (v \in after <=> v \in known)
    PROVE  Cleaned(Tail(box), after, s, r, v)
<1>1. /\ Head(box) = box[1] /\ 1 \in DOMAIN box
      /\ \A j \in DOMAIN box : j = 1 \/ j > 1
      /\ \A i \in DOMAIN Tail(box) : i + 1 \in DOMAIN box /\ Tail(box)[i] = box[i + 1]
      /\ \A j \in DOMAIN box : j > 1 => j - 1 \in DOMAIN Tail(box) /\ Tail(box)[j - 1] = box[j]
      /\ \A i \in DOMAIN Tail(box) : \A j \in DOMAIN box : j > i + 1 => j > 1 /\ j - 1 > i
  <2>1. box \in Seq(S) /\ box # <<>>
    OBVIOUS
  <2> QED BY ONLY <2>1, TailFrom
<1>2. \A i \in DOMAIN Tail(box) : i + 1 \in DOMAIN box /\ Tail(box)[i] = box[i + 1]
  BY <1>1
<1>3. \A j \in DOMAIN box : j > 1 => j - 1 \in DOMAIN Tail(box) /\ Tail(box)[j - 1] = box[j]
  BY <1>1
<1>4. \A i \in DOMAIN Tail(box) : \A j \in DOMAIN box : j > i + 1 => j > 1 /\ j - 1 > i
  BY <1>1
<1>5. 1 \in DOMAIN box /\ \A j \in DOMAIN box : j = 1 \/ j > 1
  BY <1>1
<1>6. ASSUME NEW i \in DOMAIN Tail(box), About(Tail(box)[i], r, v), ~Right(Tail(box)[i], s, v)
      PROVE  \E j \in DOMAIN Tail(box) : j > i /\ Fixes(Tail(box)[j], s, r, v)
  <2>1. PICK j \in DOMAIN box : j > i + 1 /\ Fixes(box[j], s, r, v)
    BY <1>6, <1>2 DEF Cleaned
  <2> QED BY <2>1, <1>3, <1>4
<1>7. ASSUME NEW j \in DOMAIN box, j > 1, Fixes(box[j], s, r, v)
      PROVE  \E k \in DOMAIN Tail(box) : Fixes(Tail(box)[k], s, r, v)
  BY <1>7, <1>3
<1>8. CASE About(box[1], r, v) /\ ~Right(box[1], s, v)
  <2>1. PICK j \in DOMAIN box : j > 1 /\ Fixes(box[j], s, r, v)
    BY <1>8, <1>5 DEF Cleaned
  <2>2. \E k \in DOMAIN Tail(box) : Fixes(Tail(box)[k], s, r, v)
    BY <2>1, <1>7
  <2> QED BY <2>2, <1>6 DEF Cleaned
<1>9. CASE About(box[1], r, v) /\ Right(box[1], s, v)
  <2>1. v \in after <=> s
    BY <1>9, <1>1 DEF Right
  <2> QED BY <2>1, <1>6 DEF Cleaned
<1>10. CASE ~About(box[1], r, v)
  <2>1. ~Fixes(box[1], s, r, v)
    BY <1>10 DEF Fixes, About
  <2>2. (v \in known <=> s) \/ \E j \in DOMAIN box : j > 1 /\ Fixes(box[j], s, r, v)
    BY <2>1, <1>5 DEF Cleaned
  <2>3. CASE v \in known <=> s
    <3>1. v \in after <=> s
      BY <2>3, <1>10, <1>1
    <3> QED BY <3>1, <1>6 DEF Cleaned
  <2>4. CASE \E j \in DOMAIN box : j > 1 /\ Fixes(box[j], s, r, v)
    <3>1. \E k \in DOMAIN Tail(box) : Fixes(Tail(box)[k], s, r, v)
      BY <2>4, <1>7
    <3> QED BY <3>1, <1>6 DEF Cleaned
  <2> QED BY <2>2, <2>3, <2>4
<1> QED BY <1>8, <1>9, <1>10

LEMMA CleanedConcat ==
    ASSUME NEW S, NEW p \in Seq(S), NEW q \in Seq(S), NEW known, NEW s, NEW r, NEW v,
           Cleaned(p, known, s, r, v), \A l \in Within(q) : About(l, r, v) => Right(l, s, v)
    PROVE  Cleaned(p \o q, known, s, r, v)
<1> DEFINE a == p \o q
<1>1. /\ Len(p) \in Nat /\ Len(q) \in Nat
      /\ DOMAIN p = 1 .. Len(p) /\ DOMAIN q = 1 .. Len(q)
      /\ DOMAIN a = 1 .. Len(p) + Len(q)
      /\ \A i \in 1 .. Len(p) : a[i] = p[i]
      /\ \A i \in 1 .. Len(q) : a[Len(p) + i] = q[i]
  BY SeqConcat
<1> HIDE DEF a
<1>2. \A i \in DOMAIN a : (i \in DOMAIN p /\ a[i] = p[i]) \/ a[i] \in Within(q)
  <2> TAKE i \in DOMAIN a
  <2>1. i \in DOMAIN p \/ (i - Len(p) \in 1 .. Len(q) /\ Len(p) + (i - Len(p)) = i)
    BY <1>1
  <2> QED BY <2>1, <1>1 DEF Within
<1>3. \A i \in DOMAIN p : i \in DOMAIN a /\ a[i] = p[i]
  BY <1>1
<1>4. ASSUME NEW i \in DOMAIN a, About(a[i], r, v), ~Right(a[i], s, v)
      PROVE  \E j \in DOMAIN a : j > i /\ Fixes(a[j], s, r, v)
  <2>1. i \in DOMAIN p /\ a[i] = p[i]
    BY <1>2, <1>4
  <2>2. PICK j \in DOMAIN p : j > i /\ Fixes(p[j], s, r, v)
    BY <2>1, <1>4 DEF Cleaned
  <2> QED BY <2>2, <1>3
<1>5. (v \in known <=> s) \/ \E j \in DOMAIN a : Fixes(a[j], s, r, v)
  BY <1>3 DEF Cleaned
<1> QED BY <1>4, <1>5 DEF Cleaned, a

LEMMA CleanedResent ==
    ASSUME NEW S, NEW box \in Seq(S), NEW i \in DOMAIN box, NEW known, NEW s, NEW r, NEW v,
           box[i].kind = "reply", Ordered(box), Cleaned(box, known, s, r, v)
    PROVE  Cleaned(Resent(box, i), known, s, r, v)
<1>a. box \in Seq(S) /\ i \in DOMAIN box
  OBVIOUS
<1>b. /\ \A k \in DOMAIN Resent(box, i) : \E j \in DOMAIN box :
            j # i /\ Resent(box, i)[k] = box[j]
            /\ \/ j > i /\ k = j - i
               \/ j < i /\ k = Len(box) - i + j
      /\ \A j \in DOMAIN box : j > i => j - i \in DOMAIN Resent(box, i) /\ Resent(box, i)[j - i] = box[j]
      /\ \A j \in DOMAIN box : j < i => Len(box) - i + j \in DOMAIN Resent(box, i)
                                        /\ Resent(box, i)[Len(box) - i + j] = box[j]
  BY ONLY <1>a, ResentFrom
<1>1. Len(box) \in Nat /\ i \in Nat /\ i >= 1 /\ i <= Len(box) /\ DOMAIN box = 1 .. Len(box)
  BY ResentIs
<1>3. \A j \in DOMAIN box : Fixes(box[j], s, r, v) => j < i
  BY DEF Ordered, Fixes
<1>4. ASSUME NEW k \in DOMAIN Resent(box, i), About(Resent(box, i)[k], r, v), ~Right(Resent(box, i)[k], s, v)
      PROVE  \E m \in DOMAIN Resent(box, i) : m > k /\ Fixes(Resent(box, i)[m], s, r, v)
  <2>1. PICK j \in DOMAIN box : /\ j # i /\ Resent(box, i)[k] = box[j]
                                /\ (j > i /\ k = j - i) \/ (j < i /\ k = Len(box) - i + j)
    BY <1>b
  <2>2. PICK m \in DOMAIN box : m > j /\ Fixes(box[m], s, r, v)
    BY <2>1, <1>4 DEF Cleaned
  <2>3. m < i
    BY <2>2, <1>3
  <2>4. Len(box) - i + m > k
    BY <2>1, <2>2, <2>3, <1>1
  <2>5. Len(box) - i + m \in DOMAIN Resent(box, i) /\ Resent(box, i)[Len(box) - i + m] = box[m]
    BY <2>3, <1>b
  <2> QED BY <2>2, <2>4, <2>5
<1>5. (v \in known <=> s) \/ \E m \in DOMAIN Resent(box, i) : Fixes(Resent(box, i)[m], s, r, v)
  BY <1>b, <1>3 DEF Cleaned
<1> QED BY <1>4, <1>5 DEF Cleaned

LEMMA CleanedOtherwise ==
    ASSUME NEW box, NEW known, NEW after, NEW s, NEW r, NEW v,
           Cleaned(box, known, s, r, v), v \in after <=> s
    PROVE  Cleaned(box, after, s, r, v)
BY DEF Cleaned

-----------------------------------------------------------------------------
(***************************************************************************)
(* Types.  A call is made by CallFrom and ends by what Returns gives.      *)
(***************************************************************************)
ChatDoing == [op : Op, room : Room \cup {Nowhere}, step : Step, call : Nat, todo : SUBSET Room]
Doings(what) == what \in ChatDoing /\ (what.step # "none" => what.room \in Room)
QueuesTyped == presenceQueue \in Seq(PresenceRequest) /\ pubsubQueue \in Seq(PubSubRequest)
DoingTyped == doing \in [Session -> ChatDoing] /\ \A u \in Session : Doings(doing[u])

LEMMA DoingIsTyped == ChatTypeOK => DoingTyped /\ QueuesTyped
BY DEF ChatTypeOK, DoingTyped, Doings, ChatDoing, QueuesTyped

LEMMA AtRestTyped ==
    /\ Doings(AtRest)
    /\ \A op \in Op : Doings([AtRest EXCEPT !.op = op])
    /\ \A op \in Op, rooms \in SUBSET Room : Doings([AtRest EXCEPT !.op = op, !.todo = rooms])
BY DEF Doings, ChatDoing, AtRest, Op, Step

LEMMA DoesTyped ==
    ASSUME DoingTyped, NEW u \in Session, NEW what, Doings(what), Does(u, what)
    PROVE  DoingTyped'
<1>1. what \in ChatDoing
  BY DEF Doings
<1>2. doing' \in [Session -> ChatDoing]
  BY <1>1 DEF Does, DoingTyped
<1>3. ASSUME NEW v \in Session PROVE Doings(doing'[v])
  BY DEF Does, DoingTyped
<1> QED BY <1>2, <1>3 DEF DoingTyped, Doings, ChatDoing

LEMMA CallTyped ==
    ASSUME DoingTyped, QueuesTyped, NEW u \in Session, NEW was \in ChatDoing,
           NEW step \in Step \ {"none"},
           NEW r \in Room, NEW ref \in Nat, CallFrom(u, was, step, r, ref)
    PROVE  DoingTyped' /\ QueuesTyped'
<1> DEFINE what == [was EXCEPT !.step = step, !.call = ref, !.room = r]
           request == [kind |-> step, room |-> r, user |-> u, call |-> ref]
<1>1. what \in ChatDoing
  BY DEF ChatDoing
<1>2. what.room = r
  BY DEF ChatDoing
<1>3. Doings(what)
  BY <1>1, <1>2 DEF Doings
<1>4. Does(u, what)
  BY DEF CallFrom
<1>5. DoingTyped'
  BY ONLY <1>3, <1>4, DoesTyped, DoingTyped, u \in Session
<1>6. CASE step \in {"subscribe", "unsubscribe"}
  <2>1. request \in PubSubRequest
    BY <1>6 DEF PubSubRequest
  <2>2. pubsubQueue' = Append(pubsubQueue, request) /\ presenceQueue' = presenceQueue
    BY <1>6 DEF CallFrom
  <2> HIDE DEF request
  <2>3. Append(pubsubQueue, request) \in Seq(PubSubRequest)
    BY <2>1 DEF QueuesTyped
  <2> QED BY <2>2, <2>3, <1>5 DEF QueuesTyped, PubSubRequest, PresenceRequest
<1>7. CASE step \notin {"subscribe", "unsubscribe"}
  <2>1. request \in PresenceRequest
    BY <1>7 DEF PresenceRequest, Step
  <2>2. presenceQueue' = Append(presenceQueue, request) /\ pubsubQueue' = pubsubQueue
    BY <1>7 DEF CallFrom
  <2> HIDE DEF request
  <2>3. Append(presenceQueue, request) \in Seq(PresenceRequest)
    BY <2>1 DEF QueuesTyped
  <2> QED BY <2>2, <2>3, <1>5 DEF QueuesTyped, PubSubRequest, PresenceRequest
<1> QED BY <1>6, <1>7

LEMMA ReturnTyped ==
    ASSUME ChatTypeOK, NEW u \in Session, NEW step, NEW back \in Returns(u, step)
    PROVE  /\ doing[u].step = step
           /\ back.rest \in Seq(ChatLetter) /\ back.listed \subseteq Session /\ back.late \in Nat
<1>1. doing[u].step = step /\ back \in Answers(u) \cup NoAnswer(u)
  BY DEF Returns
<1>2. CASE back \in Answers(u)
  <2>1. PICK i \in DOMAIN letters[u] : back = [rest |-> Resent(letters[u], i), listed |-> letters[u][i].who, late |-> 0]
    BY <1>2 DEF Answers
  <2>2. letters[u] \in Seq(ChatLetter)
    BY DEF ChatTypeOK
  <2>3. Resent(letters[u], i) \in Seq(ChatLetter)
    BY <2>2, ResentIs
  <2>4. letters[u][i].who \subseteq Session
    <3>1. letters[u][i] \in ChatLetter
      BY <2>2
    <3> QED BY ONLY <3>1 DEF ChatLetter
  <2> QED BY <2>1, <2>3, <2>4, <1>1
<1>3. CASE back \in NoAnswer(u)
  <2>1. back = [rest |-> letters[u], listed |-> {}, late |-> 1]
    BY <1>3 DEF NoAnswer
  <2> QED BY <2>1, <1>1 DEF ChatTypeOK
<1> QED BY <1>1, <1>2, <1>3

LEMMA LetterTyped ==
    ASSUME NEW kind \in {"after join", "delta", "user joined", "user left", "state"},
           NEW r \in Room \cup {Nowhere}, NEW who \in SUBSET Session
    PROVE  Letter(kind, r, who) \in ChatLetter
BY DEF Letter, ChatLetter

LEMMA OneLetter == ASSUME NEW S, NEW e \in S PROVE <<e>> \in Seq(S)
OBVIOUS

LEMMA PostTyped ==
    ASSUME letters \in [Session -> Seq(ChatLetter)], NEW to, NEW l \in ChatLetter, PostTo(to, l)
    PROVE  letters' \in [Session -> Seq(ChatLetter)]
BY DEF PostTo

LEMMA ResumesTyped ==
    ASSUME letters \in [Session -> Seq(ChatLetter)], timeouts \in Nat, NEW u \in Session, NEW back,
           NEW more \in Seq(ChatLetter),
           back.rest \in Seq(ChatLetter), back.late \in Nat, Resumes(u, back, more)
    PROVE  letters' \in [Session -> Seq(ChatLetter)] /\ timeouts' \in Nat
<1>1. back.rest \o more \in Seq(ChatLetter)
  OBVIOUS
<1> QED BY <1>1 DEF Resumes

LEMMA AnswerTyped ==
    ASSUME letters \in [Session -> Seq(ChatLetter)], NEW request, request.room \in Room,
           request.user \in Session,
           request.call \in Nat, NEW who \in SUBSET Session, Answer(request, who)
    PROVE  letters' \in [Session -> Seq(ChatLetter)]
<1> DEFINE l == [kind |-> "reply", room |-> request.room, who |-> who, call |-> request.call]
<1>1. l \in ChatLetter
  BY DEF ChatLetter
<1>2. letters' = letters \/ letters' = [letters EXCEPT ![request.user] = Append(@, l)]
  BY DEF Answer
<1> HIDE DEF l
<1>3. Append(letters[request.user], l) \in Seq(ChatLetter)
  BY <1>1
<1> QED BY <1>2, <1>3

\* What ChatTypeOK says beyond DoingTyped and QueuesTyped.
RestTyped ==
    /\ watched \subseteq Session /\ online \subseteq Session
    /\ channels \in [Session -> SUBSET Room] /\ asking \in [Session -> SUBSET Room]
    /\ group \in [Room -> SUBSET Session]
    /\ letters \in [Session -> Seq(ChatLetter)]
    /\ timers \in [Session -> Nat]
    /\ tracked \in [Room -> SUBSET Session] /\ subscribed \in [Room -> SUBSET Session]
    /\ users \in [Session -> [Room -> SUBSET Session]]
    /\ joins \in Nat /\ leaves \in Nat /\ timeouts \in Nat

LEMMA TypesAre == ChatTypeOK <=> DoingTyped /\ QueuesTyped /\ RestTyped
BY DEF ChatTypeOK, DoingTyped, Doings, ChatDoing, QueuesTyped, RestTyped

LEMMA TypesAfter == ChatTypeOK' <=> DoingTyped' /\ QueuesTyped' /\ RestTyped'
BY DEF ChatTypeOK, DoingTyped, Doings, ChatDoing, QueuesTyped, RestTyped, PresenceRequest, PubSubRequest,
       ChatLetter

LEMMA OwnRoom ==
    ASSUME ChatTypeOK, NEW u \in Session, doing[u].step # "none"
    PROVE  doing[u].room \in Room /\ doing[u] \in ChatDoing
BY DEF ChatTypeOK, ChatDoing

LEMMA TerminatingTyped ==
    ASSUME ChatTypeOK, NEW u \in Session, NEW r \in Room, NEW op \in Op, Terminating(u, op, r)
    PROVE  ChatTypeOK'
<1>1. DoingTyped /\ QueuesTyped /\ RestTyped
  BY TypesAre
<1>2. [AtRest EXCEPT !.op = op] \in ChatDoing
  BY AtRestTyped DEF Doings
<1>3. CallFrom(u, [AtRest EXCEPT !.op = op], "untrack", r, timeouts) /\ timeouts \in Nat
  BY <1>1 DEF Terminating, RestTyped
<1>4. DoingTyped' /\ QueuesTyped'
  <2>1. "untrack" \in Step \ {"none"}
    BY DEF Step
  <2> QED BY ONLY <1>1, <1>2, <1>3, <2>1, CallTyped, u \in Session, r \in Room
<1>5. letters' \in [Session -> Seq(ChatLetter)]
  <2>1. Letter("user left", r, {u}) \in ChatLetter
    BY LetterTyped
  <2>2. PostTo((group[r] \ {u}) \cap watched, Letter("user left", r, {u}))
    BY DEF Terminating
  <2>3. letters \in [Session -> Seq(ChatLetter)]
    BY <1>1 DEF RestTyped
  <2> QED BY ONLY <2>1, <2>2, <2>3, PostTyped
<1>6. channels' \in [Session -> SUBSET Room] /\ leaves' \in Nat
  <2>1. leaves' = leaves + 1 /\ channels' = [channels EXCEPT ![u] = channels[u] \ {r}]
    BY DEF Terminating
  <2>2. leaves \in Nat /\ channels \in [Session -> SUBSET Room]
    BY <1>1 DEF RestTyped
  <2>3. channels[u] \ {r} \in SUBSET Room
    BY <2>2
  <2> QED BY ONLY <2>1, <2>2, <2>3
<1>7. RestTyped'
  BY <1>1, <1>5, <1>6 DEF RestTyped, Terminating
<1> QED BY <1>4, <1>7, TypesAfter

LEMMA RoomStepTyped ==
    ASSUME ChatTypeOK, NEW u \in Session, NEW r \in Room,
           \/ EnterRoom(u, r) \/ QuitRoom(u, r) \/ TerminateChannel(u, r)
           \/ PushPresenceState(u, r) \/ ListUsers(u, r)
    PROVE  ChatTypeOK'
<1>1. DoingTyped /\ QueuesTyped /\ RestTyped
  BY TypesAre
<1>2. timeouts \in Nat /\ doing[u] \in ChatDoing
  BY <1>1 DEF RestTyped, DoingTyped
<1>3. CASE EnterRoom(u, r)
  <2>1. [AtRest EXCEPT !.op = "join"] \in ChatDoing
    BY AtRestTyped DEF Doings, Op
  <2>2. DoingTyped' /\ QueuesTyped'
    BY <1>1, <1>2, <1>3, <2>1, CallTyped DEF EnterRoom, Step
  <2>3. RestTyped'
    BY <1>1, <1>3 DEF RestTyped, EnterRoom
  <2> QED BY <2>2, <2>3, TypesAfter
<1>4. CASE QuitRoom(u, r) \/ TerminateChannel(u, r)
  BY <1>4, TerminatingTyped DEF QuitRoom, TerminateChannel, Op
<1>5. CASE PushPresenceState(u, r)
  <2>2. DoingTyped' /\ QueuesTyped'
    BY <1>1, <1>2, <1>5, CallTyped DEF PushPresenceState, Step
  <2>3. RestTyped'
    BY <1>1, <1>5 DEF RestTyped, PushPresenceState
  <2> QED BY <2>2, <2>3, TypesAfter
<1>6. CASE ListUsers(u, r)
  <2>1. [AtRest EXCEPT !.op = "list users"] \in ChatDoing
    BY AtRestTyped DEF Doings, Op
  <2>2. DoingTyped' /\ QueuesTyped'
    BY <1>1, <1>2, <1>6, <2>1, CallTyped DEF ListUsers, Step
  <2>3. RestTyped'
    BY <1>1, <1>6 DEF RestTyped, ListUsers
  <2> QED BY <2>2, <2>3, TypesAfter
<1> QED BY <1>3, <1>4, <1>5, <1>6

LEMMA NothingAskedTyped ==
    ASSUME QueuesTyped, NothingAsked
    PROVE  QueuesTyped'
BY DEF QueuesTyped, NothingAsked, PresenceRequest, PubSubRequest

LEMMA ReturnStepTyped ==
    ASSUME ChatTypeOK, NEW u \in Session,
           \/ SubscribePresence(u) \/ Joined(u) \/ UnsubscribePresence(u) \/ LeftGroup(u)
           \/ StatePushed(u) \/ UsersListed(u)
    PROVE  ChatTypeOK'
<1>1. DoingTyped /\ QueuesTyped /\ RestTyped
  BY TypesAre
<1>2. timeouts \in Nat /\ letters \in [Session -> Seq(ChatLetter)] /\ doing[u] \in ChatDoing
  BY <1>1 DEF RestTyped, DoingTyped
<1>3. ASSUME NEW step, NEW back \in Returns(u, step)
      PROVE  /\ doing[u].step = step
             /\ back.rest \in Seq(ChatLetter) /\ back.listed \subseteq Session /\ back.late \in Nat
  BY ReturnTyped
<1>4. <<>> \in Seq(ChatLetter)
  OBVIOUS
<1>5. CASE SubscribePresence(u)
  <2>1. PICK back \in Returns(u, "track") :
           /\ Resumes(u, back, <<>>)
           /\ CallFrom(u, doing[u], "subscribe", doing[u].room, timeouts + back.late)
           /\ UNCHANGED <<watched, online, channels, group, timers, tracked, subscribed, users, asking,
                          joins, leaves>>
    BY <1>5 DEF SubscribePresence
  <2>2. /\ doing[u].step = "track" /\ back.rest \in Seq(ChatLetter) /\ back.late \in Nat
    BY <1>3
  <2>3. letters' \in [Session -> Seq(ChatLetter)] /\ timeouts' \in Nat
    BY <1>2, <1>4, <2>1, <2>2, ResumesTyped
  <2>4. doing[u].room \in Room /\ timeouts + back.late \in Nat
    BY <1>2, <2>2, OwnRoom
  <2>5. DoingTyped' /\ QueuesTyped'
    BY <1>1, <1>2, <2>1, <2>4, CallTyped DEF Step
  <2>6. RestTyped'
    BY <1>1, <2>1, <2>3 DEF RestTyped
  <2> QED BY <2>5, <2>6, TypesAfter
<1>6. CASE UnsubscribePresence(u)
  <2>1. PICK back \in Returns(u, "untrack") :
           /\ Resumes(u, back, <<>>)
           /\ CallFrom(u, doing[u], "unsubscribe", doing[u].room, timeouts + back.late)
           /\ UNCHANGED <<watched, online, channels, group, timers, tracked, subscribed, users, asking,
                          joins, leaves>>
    BY <1>6 DEF UnsubscribePresence, ThenUnsubscribe
  <2>2. /\ doing[u].step = "untrack" /\ back.rest \in Seq(ChatLetter) /\ back.late \in Nat
    BY <1>3
  <2>3. letters' \in [Session -> Seq(ChatLetter)] /\ timeouts' \in Nat
    BY <1>2, <1>4, <2>1, <2>2, ResumesTyped
  <2>4. doing[u].room \in Room /\ timeouts + back.late \in Nat
    BY <1>2, <2>2, OwnRoom
  <2>5. DoingTyped' /\ QueuesTyped'
    BY <1>1, <1>2, <2>1, <2>4, CallTyped DEF Step
  <2>6. RestTyped'
    BY <1>1, <2>1, <2>3 DEF RestTyped
  <2> QED BY <2>5, <2>6, TypesAfter
<1>7. CASE Joined(u)
  <2>1. PICK back \in Returns(u, "subscribe") :
          /\ Resumes(u, back, <<Letter("after join", Nowhere, {})>>)
          /\ group' = [group EXCEPT ![doing[u].room] = @ \cup {u}]
          /\ channels' = [channels EXCEPT ![u] = @ \cup {doing[u].room}]
          /\ asking' = AsksForUsers(u, doing[u].room)
          /\ Does(u, AtRest)
          /\ NothingAsked
          /\ UNCHANGED <<watched, online, timers, tracked, subscribed, users, joins, leaves>>
    BY <1>7 DEF Joined
  <2>2. /\ doing[u].step = "subscribe" /\ back.rest \in Seq(ChatLetter) /\ back.late \in Nat
    BY <1>3
  <2>3. <<Letter("after join", Nowhere, {})>> \in Seq(ChatLetter)
    <3>1. Letter("after join", Nowhere, {}) \in ChatLetter
      BY DEF Letter, ChatLetter
    <3> QED BY <3>1, OneLetter
  <2>4. letters' \in [Session -> Seq(ChatLetter)] /\ timeouts' \in Nat
    BY <1>2, <2>1, <2>2, <2>3, ResumesTyped
  <2>5. doing[u].room \in Room
    BY <2>2, OwnRoom
  <2>6. DoingTyped' /\ QueuesTyped'
    BY <1>1, <2>1, DoesTyped, AtRestTyped, NothingAskedTyped
  <2>7. asking' \in [Session -> SUBSET Room]
    BY <1>1, <2>1, <2>5 DEF AsksForUsers, RestTyped
  <2>8. group' \in [Room -> SUBSET Session] /\ channels' \in [Session -> SUBSET Room]
    BY <1>1, <2>1, <2>5 DEF RestTyped
  <2>9. RestTyped'
    BY <1>1, <2>1, <2>4, <2>7, <2>8 DEF RestTyped
  <2> QED BY <2>6, <2>9, TypesAfter
<1>8. CASE LeftGroup(u)
  <2>1. PICK back \in Returns(u, "unsubscribe") :
        /\ Resumes(u, back, <<>>)
        /\ group' = [group EXCEPT ![doing[u].room] = @ \ {u}]
        /\ Does(u, IF doing[u].op = "end" THEN [AtRest EXCEPT !.op = "end"] ELSE AtRest)
        /\ NothingAsked
        /\ UNCHANGED <<watched, online, channels, timers, tracked, subscribed, users, asking, joins,
                       leaves>>
    BY <1>8 DEF LeftGroup
  <2>2. /\ doing[u].step = "unsubscribe" /\ back.rest \in Seq(ChatLetter) /\ back.late \in Nat
    BY <1>3
  <2>3. letters' \in [Session -> Seq(ChatLetter)] /\ timeouts' \in Nat
    BY <1>2, <1>4, <2>1, <2>2, ResumesTyped
  <2>4. Doings(IF doing[u].op = "end" THEN [AtRest EXCEPT !.op = "end"] ELSE AtRest)
    BY AtRestTyped DEF Op
  <2>5. DoingTyped' /\ QueuesTyped'
    BY <1>1, <2>1, <2>4, DoesTyped, NothingAskedTyped
  <2>6. group' \in [Room -> SUBSET Session]
    BY <1>1, <2>1 DEF RestTyped
  <2>7. RestTyped'
    BY <1>1, <2>1, <2>3, <2>6 DEF RestTyped
  <2> QED BY <2>5, <2>7, TypesAfter
<1>9. CASE StatePushed(u)
  <2>1. PICK back \in Returns(u, "list") :
           Resumes(u, back, <<Letter("state", doing[u].room, back.listed \cup {u})>>)
    BY <1>9 DEF StatePushed
  <2>2. /\ doing[u].step = "list" /\ back.rest \in Seq(ChatLetter) /\ back.late \in Nat
        /\ back.listed \subseteq Session
    BY <1>3
  <2>3. doing[u].room \in Room
    BY <2>2, OwnRoom
  <2>4. Letter("state", doing[u].room, back.listed \cup {u}) \in ChatLetter
    BY <2>2, <2>3, LetterTyped
  <2>5. letters' \in [Session -> Seq(ChatLetter)] /\ timeouts' \in Nat
    <3>1. <<Letter("state", doing[u].room, back.listed \cup {u})>> \in Seq(ChatLetter)
      BY <2>4
    <3> QED BY <1>2, <2>1, <2>2, <3>1, ResumesTyped
  <2>6. Doings(NextChannel(u, doing[u].room))
    BY <1>2, AtRestTyped DEF NextChannel, Doings, ChatDoing, Step
  <2>7. DoingTyped' /\ QueuesTyped'
    BY <1>1, <1>9, <2>6, DoesTyped, NothingAskedTyped DEF StatePushed
  <2>8. RestTyped'
    BY <1>1, <1>9, <2>5 DEF RestTyped, StatePushed
  <2> QED BY <2>7, <2>8, TypesAfter
<1>10. CASE UsersListed(u)
  <2>1. PICK back \in Returns(u, "list") :
             /\ Resumes(u, back, <<>>)
             /\ users' = [users EXCEPT ![u][doing[u].room] = back.listed]
    BY <1>10 DEF UsersListed
  <2>2. /\ doing[u].step = "list" /\ back.rest \in Seq(ChatLetter) /\ back.late \in Nat
        /\ back.listed \subseteq Session
    BY <1>3
  <2>3. letters' \in [Session -> Seq(ChatLetter)] /\ timeouts' \in Nat
    BY <1>2, <1>4, <2>1, <2>2, ResumesTyped
  <2>4. users' \in [Session -> [Room -> SUBSET Session]]
    BY <1>1, <2>1, <2>2 DEF RestTyped
  <2>5. DoingTyped' /\ QueuesTyped'
    BY <1>1, <1>10, AtRestTyped, DoesTyped, NothingAskedTyped DEF UsersListed
  <2>6. RestTyped'
    BY <1>1, <1>10, <2>3, <2>4 DEF RestTyped, UsersListed
  <2> QED BY <2>5, <2>6, TypesAfter
<1> QED BY <1>5, <1>6, <1>7, <1>8, <1>9, <1>10

LEMMA JoinedLetters ==
    ASSUME ChatTypeOK, NEW u \in Session, NEW v \in Session
    PROVE  /\ Seqs!SetToSeq({Letter("user joined", r, {u}) : r \in {x \in channels[u] : v \in group[x]}})
                 \in Seq({Letter("user joined", r, {u}) : r \in {x \in channels[u] : v \in group[x]}})
           /\ Seqs!SetToSeq({Letter("user joined", r, {u}) : r \in {x \in channels[u] : v \in group[x]}})
                 \in Seq(ChatLetter)
<1> DEFINE rooms == {x \in channels[u] : v \in group[x]}
           new == {Letter("user joined", r, {u}) : r \in rooms}
<1>1. rooms \subseteq Room
  BY DEF ChatTypeOK
<1>2. IsFiniteSet(rooms)
  <2>1. IsFiniteSet(Room) /\ rooms \in SUBSET Room
    BY <1>1, RoomAssumption
  <2> HIDE DEF rooms
  <2> QED BY ONLY <2>1, FS_Subset
<1>3. IsFiniteSet(new)
  <2> DEFINE f == [r \in rooms |-> Letter("user joined", r, {u})]
  <2>1. f \in [rooms -> new] /\ \A t \in new : \E s \in rooms : f[s] = t
    OBVIOUS
  <2>2. f \in Surjection(rooms, new)
    BY <2>1 DEF Surjection
  <2> HIDE DEF rooms, new, f
  <2> QED BY ONLY <1>2, <2>2, FS_Surjection
<1>4. new \subseteq ChatLetter
  <2>1. \A r \in Room : Letter("user joined", r, {u}) \in ChatLetter
    BY DEF Letter, ChatLetter
  <2> HIDE DEF rooms
  <2> QED BY <1>1, <2>1
<1> HIDE DEF new, rooms
<1>5. Seqs!SetToSeq(new) \in Seq(new)
  BY <1>3, SetToSeqTyped
<1>6. Seqs!SetToSeq(new) \in Seq(ChatLetter)
  BY <1>4, <1>5
<1> QED BY <1>5, <1>6 DEF new, rooms

LEMMA OwnStepTyped ==
    ASSUME ChatTypeOK, NEW u \in Session,
           Ended(u) \/ HandleAfterJoin(u) \/ HandlePushState(u) \/ TellClient(u)
    PROVE  ChatTypeOK'
<1>1. DoingTyped /\ QueuesTyped /\ RestTyped
  BY TypesAre
<1>2. letters \in [Session -> Seq(ChatLetter)] /\ channels[u] \in SUBSET Room
  BY <1>1 DEF RestTyped
<1>3. CASE Ended(u)
  <2>1. DoingTyped' /\ QueuesTyped'
    BY <1>1, <1>3, AtRestTyped, DoesTyped, NothingAskedTyped DEF Ended
  <2>2. letters' \in [Session -> Seq(ChatLetter)] /\ timers' \in [Session -> Nat]
    BY <1>1, <1>3 DEF RestTyped, Ended
  <2>3. RestTyped'
    BY <1>1, <1>3, <2>2 DEF RestTyped, Ended
  <2> QED BY <2>1, <2>3, TypesAfter
<1>4. CASE HandleAfterJoin(u)
  <2>1. QueuesTyped' /\ DoingTyped'
    BY <1>1, <1>4, NothingAskedTyped DEF HandleAfterJoin, DoingTyped, Doings, ChatDoing
  <2>2. Cardinality(channels[u]) \in Nat
    <3>1. IsFiniteSet(Room) /\ channels[u] \in SUBSET Room
      BY <1>2, RoomAssumption
    <3>2. IsFiniteSet(channels[u])
      BY ONLY <3>1, FS_Subset
    <3> QED BY <3>2, FS_CardinalityType
  <2>3. timers' \in [Session -> Nat]
    <3>1. timers' = [timers EXCEPT ![u] = IF u \in watched THEN timers[u] + Cardinality(channels[u]) ELSE timers[u]]
      BY <1>4 DEF HandleAfterJoin
    <3>2. timers \in [Session -> Nat] /\ timers[u] \in Nat
      BY <1>1 DEF RestTyped
    <3>3. (IF u \in watched THEN timers[u] + Cardinality(channels[u]) ELSE timers[u]) \in Nat
      BY <2>2, <3>2
    <3> QED BY ONLY <3>1, <3>2, <3>3
  <2>4. ASSUME NEW v \in Session PROVE letters'[v] \in Seq(ChatLetter)
    <3>1. letters[v] \in Seq(ChatLetter) /\ letters[u] \in Seq(ChatLetter) /\ letters[u] # <<>>
      BY <1>2, <1>4 DEF HandleAfterJoin, TakeLetter
    <3>2. Tail(letters[u]) \in Seq(ChatLetter)
      BY <3>1
    <3> DEFINE new == Seqs!SetToSeq({Letter("user joined", r, {u}) : r \in {x \in channels[u] : v \in group[x]}})
    <3>3. letters'[v] \in {Tail(letters[u]), letters[v] \o new, letters[v]}
      BY <1>4 DEF HandleAfterJoin
    <3>4. new \in Seq(ChatLetter)
      BY JoinedLetters
    <3> HIDE DEF new
    <3>5. letters[v] \o new \in Seq(ChatLetter)
      BY <3>1, <3>4
    <3> QED BY <3>1, <3>2, <3>3, <3>5
  <2>5. \E f : letters' = [v \in Session |-> f[v]]
    <3>1. letters' = [v \in Session |-> letters'[v]]
      BY <1>4 DEF HandleAfterJoin
    <3> QED BY <3>1
  <2>6. letters' \in [Session -> Seq(ChatLetter)]
    BY <2>4, <2>5
  <2>7. RestTyped'
    BY <1>1, <1>4, <2>3, <2>6 DEF RestTyped, HandleAfterJoin
  <2> QED BY <2>1, <2>7, TypesAfter
<1>5. CASE HandlePushState(u)
  <2>1. Doings([AtRest EXCEPT !.op = "push state", !.todo = channels[u]])
    BY <1>2, AtRestTyped DEF Op
  <2>2. DoingTyped' /\ QueuesTyped'
    <3>1. Doings(IF channels[u] = {} THEN AtRest ELSE [AtRest EXCEPT !.op = "push state", !.todo = channels[u]])
      BY <2>1, AtRestTyped
    <3> QED BY <1>1, <1>5, <3>1, DoesTyped, NothingAskedTyped DEF HandlePushState
  <2>3. timers' \in [Session -> Nat]
    BY <1>1, <1>5 DEF RestTyped, HandlePushState
  <2>4. RestTyped'
    BY <1>1, <1>5, <2>3 DEF RestTyped, HandlePushState
  <2> QED BY <2>2, <2>4, TypesAfter
<1>6. CASE TellClient(u)
  <2>1. letters[u] \in Seq(ChatLetter) /\ letters[u] # <<>>
    BY <1>2, <1>6 DEF TellClient, TakeLetter
  <2>2. Tail(letters[u]) \in Seq(ChatLetter) /\ Head(letters[u]) \in ChatLetter
    BY <2>1
  <2>3. letters' \in [Session -> Seq(ChatLetter)]
    BY <1>2, <1>6, <2>2 DEF TellClient
  <2>4. Head(letters[u]).who \subseteq Session
    BY <2>2 DEF ChatLetter
  <2>5. users' \in [Session -> [Room -> SUBSET Session]]
    <3> DEFINE known(r) == ClientKeeps(users[u][r], Head(letters[u]))
    <3>1. ASSUME NEW r \in Room PROVE known(r) \subseteq Session
      <4>1. users[u][r] \subseteq Session
        BY <1>1 DEF RestTyped
      <4>2. known(r) \in {users[u][r] \cup Head(letters[u]).who, users[u][r] \ Head(letters[u]).who,
                         Head(letters[u]).who, users[u][r]}
        BY DEF ClientKeeps
      <4> QED BY <2>4, <4>1, <4>2
    <3>2. users' = [users EXCEPT ![u][Head(letters[u]).room] = ClientKeeps(@, Head(letters[u]))]
      BY <1>6 DEF TellClient
    <3>3. users \in [Session -> [Room -> SUBSET Session]]
      BY <1>1 DEF RestTyped
    <3>4. [users[u] EXCEPT ![Head(letters[u]).room] = known(Head(letters[u]).room)] \in [Room -> SUBSET Session]
      <4> HIDE DEF known
      <4> QED BY <3>1, <3>3
    <3>5. users' = [users EXCEPT ![u] = [users[u] EXCEPT ![Head(letters[u]).room] = known(Head(letters[u]).room)]]
      BY <3>2, <3>3
    <3> HIDE DEF known
    <3> QED BY <3>3, <3>4, <3>5
  <2>6. DoingTyped' /\ QueuesTyped'
    BY <1>1, <1>6, NothingAskedTyped DEF TellClient, DoingTyped, Doings, ChatDoing
  <2>7. RestTyped'
    BY <1>1, <1>6, <2>3, <2>5 DEF RestTyped, TellClient
  <2> QED BY <2>6, <2>7, TypesAfter
<1> QED BY <1>3, <1>4, <1>5, <1>6

LEMMA ServersTyped ==
    ASSUME ChatTypeOK, PresenceServes \/ PubSubServes
    PROVE  ChatTypeOK'
<1>1. DoingTyped /\ QueuesTyped /\ RestTyped
  BY TypesAre
<1>2. letters \in [Session -> Seq(ChatLetter)]
  BY <1>1 DEF RestTyped
<1>3. CASE PresenceServes
  <2>1. presenceQueue \in Seq(PresenceRequest) /\ presenceQueue # <<>> /\ pubsubQueue \in Seq(PubSubRequest)
    BY <1>1, <1>3 DEF QueuesTyped, PresenceServes
  <2>2. Tail(presenceQueue) \in Seq(PresenceRequest) /\ Head(presenceQueue) \in PresenceRequest
    BY <2>1
  <2>3. PICK q \in PresenceRequest : q = Head(presenceQueue)
    BY <2>2
  <2>4. q.room \in Room /\ q.user \in Session /\ q.call \in Nat
    BY DEF PresenceRequest
  <2>5. Delta(q.room) \in PubSubRequest
    <3>1. (CHOOSE u \in Session : TRUE) \in Session
      BY <2>4
    <3> QED BY <3>1, <2>4 DEF Delta, PubSubRequest
  <2>6. pubsubQueue' \in {Append(pubsubQueue, Delta(q.room)), pubsubQueue}
    BY <1>3, <2>3 DEF PresenceServes
  <2>7. Append(pubsubQueue, Delta(q.room)) \in Seq(PubSubRequest)
    BY <2>1, <2>5
  <2>8. presenceQueue' \in Seq(PresenceRequest) /\ pubsubQueue' \in Seq(PubSubRequest)
    BY <1>3, <2>1, <2>2, <2>6, <2>7 DEF PresenceServes
  <2>9. \E who \in SUBSET Session : Answer(q, who)
    <3>1. Answer(q, IF q.kind = "list" THEN tracked[q.room] ELSE {})
      BY <1>3, <2>3 DEF PresenceServes
    <3>2. (IF q.kind = "list" THEN tracked[q.room] ELSE {}) \in SUBSET Session
      BY <1>1, <2>4 DEF RestTyped
    <3> QED BY <3>1, <3>2
  <2>10. letters' \in [Session -> Seq(ChatLetter)]
    BY <1>2, <2>4, <2>9, AnswerTyped
  <2>11. tracked' \in [Room -> SUBSET Session]
    BY <1>1, <1>3, <2>3, <2>4 DEF RestTyped, PresenceServes
  <2>12. RestTyped'
    BY <1>1, <1>3, <2>10, <2>11 DEF RestTyped, PresenceServes
  <2>13. DoingTyped' /\ QueuesTyped'
    BY <1>1, <1>3, <2>8 DEF PresenceServes, DoingTyped, Doings, ChatDoing, QueuesTyped, PresenceRequest,
       PubSubRequest
  <2> QED BY <2>12, <2>13, TypesAfter
<1>4. CASE PubSubServes
  <2>1. pubsubQueue \in Seq(PubSubRequest) /\ pubsubQueue # <<>>
    BY <1>1, <1>4 DEF QueuesTyped, PubSubServes
  <2>2. Tail(pubsubQueue) \in Seq(PubSubRequest) /\ Head(pubsubQueue) \in PubSubRequest
    BY <2>1
  <2>3. PICK q \in PubSubRequest : q = Head(pubsubQueue)
    BY <2>2
  <2>4. q.room \in Room /\ q.user \in Session /\ q.call \in Nat
    BY DEF PubSubRequest
  <2>5. letters' \in [Session -> Seq(ChatLetter)]
    <3>1. CASE q.kind = "broadcast"
      <4>1. PostTo(subscribed[q.room], Letter("delta", q.room, {}))
        BY <1>4, <2>3, <3>1 DEF PubSubServes
      <4>2. Letter("delta", q.room, {}) \in ChatLetter
        BY <2>4 DEF Letter, ChatLetter
      <4> QED BY ONLY <1>2, <4>1, <4>2, PostTyped
    <3>2. CASE q.kind # "broadcast"
      <4>1. Answer(q, {}) /\ {} \in SUBSET Session
        BY <1>4, <2>3, <3>2 DEF PubSubServes
      <4> QED BY <1>2, <2>4, <4>1, AnswerTyped
    <3> QED BY <3>1, <3>2
  <2>6. subscribed' \in [Room -> SUBSET Session]
    BY <1>1, <1>4, <2>3, <2>4 DEF RestTyped, PubSubServes
  <2>7. RestTyped'
    BY <1>1, <1>4, <2>5, <2>6 DEF RestTyped, PubSubServes
  <2>8. DoingTyped' /\ QueuesTyped'
    BY <1>1, <1>4, <2>2 DEF PubSubServes, DoingTyped, Doings, ChatDoing, QueuesTyped, PresenceRequest,
       PubSubRequest
  <2> QED BY <2>7, <2>8, TypesAfter
<1> QED BY <1>3, <1>4

LEMMA ChatTyped == ChatTypeOK /\ [ChatNext]_chatVars => ChatTypeOK'
<1> SUFFICES ASSUME ChatTypeOK, [ChatNext]_chatVars PROVE ChatTypeOK'
  OBVIOUS
<1>1. CASE ChatNext
  BY <1>1, RoomStepTyped, ReturnStepTyped, OwnStepTyped, ServersTyped DEF ChatNext
<1>2. CASE UNCHANGED chatVars
  BY <1>2 DEF chatVars, ChatTypeOK, ChatLetter, PresenceRequest, PubSubRequest
<1> QED BY <1>1, <1>2

LEMMA ChatStartsTyped == ASSUME ChatInit PROVE ChatTypeOK
<1>1. AtRest \in [op : Op, room : Room \cup {Nowhere}, step : Step, call : Nat, todo : SUBSET Room]
  BY DEF AtRest, Op, Step
<1>2. AtRest.step = "none"
  BY DEF AtRest
<1> QED BY <1>1, <1>2, WatchAssumption DEF ChatInit, ChatTypeOK

-----------------------------------------------------------------------------
(***************************************************************************)
(* Where a session is, as the servers will have it once their queues are   *)
(* empty: tracked in a room from the track of a join on, subscribed from   *)
(* the subscribe on, until the untrack and the unsubscribe of a leave, and *)
(* in the group from the end of the join to the end of the leave.  This    *)
(* holds with calls that time out, too: the request stays in the queue, and*)
(* the queues are in order.                                                *)
(***************************************************************************)
Entering(u, r) == doing[u].op = "join" /\ doing[u].room = r
Leaving(u, r) == doing[u].op \in {"leave", "end"} /\ doing[u].step # "none" /\ doing[u].room = r

\* The steps of each operation.
StepsOf(op) ==
    CASE op = "join" -> {"track", "subscribe"}
      [] op = "leave" -> {"untrack", "unsubscribe"}
      [] op = "end" -> {"none", "untrack", "unsubscribe"}
      [] op = "push state" -> {"none", "list"}
      [] op = "list users" -> {"list"}
      [] OTHER -> {"none"}

DoingOK(u) ==
    /\ doing[u].step \in StepsOf(doing[u].op)
    /\ doing[u].op = "none" => doing[u] = AtRest
    /\ doing[u].op = "end" /\ doing[u].step = "none" => doing[u] = [AtRest EXCEPT !.op = "end"]
    /\ u \notin online => doing[u] = AtRest /\ channels[u] = {}

ToBeTracked(u, r) == WillBe(presenceQueue, "track", "untrack", u, r, u \in tracked[r])
ToBeSubscribed(u, r) == WillBe(pubsubQueue, "subscribe", "unsubscribe", u, r, u \in subscribed[r])

PlaceOK(u, r) ==
    /\ Entering(u, r) \/ Leaving(u, r) => r \notin channels[u]
    /\ ToBeTracked(u, r) <=> r \in channels[u] \/ Entering(u, r)
    /\ ToBeSubscribed(u, r) <=> \/ r \in channels[u]
                                \/ Entering(u, r) /\ doing[u].step = "subscribe"
                                \/ Leaving(u, r) /\ doing[u].step = "untrack"
    /\ u \in group[r] <=> r \in channels[u] \/ Leaving(u, r)

SessionOK(u) == DoingOK(u) /\ \A r \in Room : PlaceOK(u, r)

-----------------------------------------------------------------------------
SameTracking(v, q) ==
    /\ ToBeTracked(v, q)' <=> ToBeTracked(v, q)
    /\ ToBeSubscribed(v, q)' <=> ToBeSubscribed(v, q)

Aside(v) ==
    /\ doing'[v] = doing[v] /\ channels'[v] = channels[v] /\ (v \in online' <=> v \in online)
    /\ \A q \in Room : SameTracking(v, q) /\ (v \in group'[q] <=> v \in group[q])

LEMMA AsideOK ==
    ASSUME NEW v \in Session, SessionOK(v), Aside(v)
    PROVE  SessionOK(v)'
<1>1. DoingOK(v)'
  BY DEF SessionOK, Aside, DoingOK, StepsOf, AtRest
<1>2. ASSUME NEW q \in Room PROVE PlaceOK(v, q)'
  BY DEF SessionOK, Aside, PlaceOK, SameTracking, Entering, Leaving
<1> QED BY <1>1, <1>2 DEF SessionOK

LEMMA CallDoing ==
    ASSUME DoingTyped, NEW u \in Session, NEW was \in ChatDoing, NEW step, NEW r, NEW ref,
           CallFrom(u, was, step, r, ref)
    PROVE  /\ doing'[u].op = was.op /\ doing'[u].step = step /\ doing'[u].room = r
           /\ doing'[u].todo = was.todo
           /\ \A v \in Session \ {u} : doing'[v] = doing[v]
<1>1. doing' = [doing EXCEPT ![u] = [was EXCEPT !.step = step, !.call = ref, !.room = r]]
  BY DEF CallFrom, Does
<1> QED BY <1>1 DEF DoingTyped, ChatDoing

LEMMA DoesDoing ==
    ASSUME DoingTyped, NEW u \in Session, NEW what, Does(u, what)
    PROVE  doing'[u] = what /\ \A v \in Session \ {u} : doing'[v] = doing[v]
BY DEF DoingTyped, Does

LEMMA NothingAskedEffect ==
    ASSUME NothingAsked, UNCHANGED <<tracked, subscribed>>
    PROVE  \A v \in Session, q \in Room : SameTracking(v, q)
BY DEF NothingAsked, SameTracking, ToBeTracked, ToBeSubscribed

\* What a call changes is about its session and its room.
CallChanges(u, step, r, v, q) ==
    /\ step = "track" /\ v = u /\ q = r => ToBeTracked(v, q)'
    /\ step = "untrack" /\ v = u /\ q = r => ~ToBeTracked(v, q)'
    /\ step \notin {"track", "untrack"} \/ v # u \/ q # r => (ToBeTracked(v, q)' <=> ToBeTracked(v, q))
    /\ step = "subscribe" /\ v = u /\ q = r => ToBeSubscribed(v, q)'
    /\ step = "unsubscribe" /\ v = u /\ q = r => ~ToBeSubscribed(v, q)'
    /\ step \notin {"subscribe", "unsubscribe"} \/ v # u \/ q # r =>
          (ToBeSubscribed(v, q)' <=> ToBeSubscribed(v, q))

LEMMA CallChangesIt ==
    ASSUME QueuesTyped, NEW u \in Session, NEW was, NEW step \in Step \ {"none"}, NEW r \in Room,
           NEW ref \in Nat,
           CallFrom(u, was, step, r, ref), UNCHANGED <<tracked, subscribed>>,
           NEW v \in Session, NEW q \in Room
    PROVE  CallChanges(u, step, r, v, q)
<1> DEFINE request == [kind |-> step, room |-> r, user |-> u, call |-> ref]
<1>1. /\ Is(request, "track", v, q) <=> step = "track" /\ v = u /\ q = r
      /\ Is(request, "untrack", v, q) <=> step = "untrack" /\ v = u /\ q = r
      /\ Is(request, "subscribe", v, q) <=> step = "subscribe" /\ v = u /\ q = r
      /\ Is(request, "unsubscribe", v, q) <=> step = "unsubscribe" /\ v = u /\ q = r
  BY DEF Is
<1>2. request \in PresenceRequest \/ step \in {"subscribe", "unsubscribe"}
  BY DEF PresenceRequest, Step
<1>3. request \in PubSubRequest \/ step \notin {"subscribe", "unsubscribe"}
  BY DEF PubSubRequest
<1>4. IF step \in {"subscribe", "unsubscribe"}
      THEN pubsubQueue' = Append(pubsubQueue, request) /\ presenceQueue' = presenceQueue
      ELSE presenceQueue' = Append(presenceQueue, request) /\ pubsubQueue' = pubsubQueue
  BY DEF CallFrom
<1> HIDE DEF request
<1>5. tracked' = tracked /\ subscribed' = subscribed
  OBVIOUS
<1>6. CASE step \in {"subscribe", "unsubscribe"}
  <2>1. request \in PubSubRequest /\ pubsubQueue \in Seq(PubSubRequest)
    BY <1>3, <1>6 DEF QueuesTyped
  <2>2. /\ Is(request, "subscribe", v, q) =>
              WillBe(Append(pubsubQueue, request), "subscribe", "unsubscribe", v, q, v \in subscribed[q])
        /\ Is(request, "unsubscribe", v, q) =>
              ~WillBe(Append(pubsubQueue, request), "subscribe", "unsubscribe", v, q, v \in subscribed[q])
        /\ ~Is(request, "subscribe", v, q) /\ ~Is(request, "unsubscribe", v, q) =>
              (WillBe(Append(pubsubQueue, request), "subscribe", "unsubscribe", v, q, v \in subscribed[q])
                 <=> WillBe(pubsubQueue, "subscribe", "unsubscribe", v, q, v \in subscribed[q]))
    BY <2>1, WillBeAppended
  <2>3. ToBeTracked(v, q)' <=> ToBeTracked(v, q)
    BY <1>4, <1>5, <1>6 DEF ToBeTracked
  <2>4. ToBeSubscribed(v, q)' <=>
           WillBe(Append(pubsubQueue, request), "subscribe", "unsubscribe", v, q, v \in subscribed[q])
    BY <1>4, <1>5, <1>6 DEF ToBeSubscribed
  <2> QED BY <2>2, <2>3, <2>4, <1>1, <1>6 DEF CallChanges, ToBeSubscribed
<1>7. CASE step \notin {"subscribe", "unsubscribe"}
  <2>1. request \in PresenceRequest /\ presenceQueue \in Seq(PresenceRequest)
    BY <1>2, <1>7 DEF QueuesTyped
  <2>2. /\ Is(request, "track", v, q) =>
              WillBe(Append(presenceQueue, request), "track", "untrack", v, q, v \in tracked[q])
        /\ Is(request, "untrack", v, q) =>
              ~WillBe(Append(presenceQueue, request), "track", "untrack", v, q, v \in tracked[q])
        /\ ~Is(request, "track", v, q) /\ ~Is(request, "untrack", v, q) =>
              (WillBe(Append(presenceQueue, request), "track", "untrack", v, q, v \in tracked[q])
                 <=> WillBe(presenceQueue, "track", "untrack", v, q, v \in tracked[q]))
    BY <2>1, WillBeAppended
  <2>3. ToBeSubscribed(v, q)' <=> ToBeSubscribed(v, q)
    BY <1>4, <1>5, <1>7 DEF ToBeSubscribed
  <2>4. ToBeTracked(v, q)' <=>
           WillBe(Append(presenceQueue, request), "track", "untrack", v, q, v \in tracked[q])
    BY <1>4, <1>5, <1>7 DEF ToBeTracked
  <2> QED BY <2>2, <2>3, <2>4, <1>1, <1>7 DEF CallChanges, ToBeTracked
<1> QED BY <1>6, <1>7

LEMMA ServingChangesNothing ==
    ASSUME ChatTypeOK, PresenceServes \/ PubSubServes, NEW v \in Session, NEW q \in Room
    PROVE  SameTracking(v, q)
<1>1. presenceQueue \in Seq(PresenceRequest) /\ pubsubQueue \in Seq(PubSubRequest)
  BY DEF ChatTypeOK
<1>a. tracked \in [Room -> SUBSET Session] /\ subscribed \in [Room -> SUBSET Session]
  BY DEF ChatTypeOK
<1>2. CASE PresenceServes
  <2>1. presenceQueue # <<>> /\ presenceQueue' = Tail(presenceQueue) /\ subscribed' = subscribed
    BY <1>2 DEF PresenceServes
  <2>2. Head(presenceQueue) \in PresenceRequest
    BY <1>1, <2>1
  <2>3. PICK h \in PresenceRequest : h = Head(presenceQueue)
    BY <2>2
  <2>4. h.room \in Room /\ h.user \in Session
    BY DEF PresenceRequest
  <2>5. tracked' = [tracked EXCEPT ![h.room] = IF h.kind = "track" THEN @ \cup {h.user}
                                            ELSE IF h.kind = "untrack" THEN @ \ {h.user} ELSE @]
    BY <1>2, <2>3 DEF PresenceServes
  <2>6. /\ Is(h, "track", v, q) => v \in tracked'[q]
        /\ Is(h, "untrack", v, q) => ~(v \in tracked'[q])
        /\ ~Is(h, "track", v, q) /\ ~Is(h, "untrack", v, q) => (v \in tracked'[q] <=> v \in tracked[q])
    BY <1>a, <2>4, <2>5 DEF Is
  <2>7. WillBe(Tail(presenceQueue), "track", "untrack", v, q, v \in tracked'[q])
          <=> WillBe(presenceQueue, "track", "untrack", v, q, v \in tracked[q])
    BY <1>1, <2>1, <2>3, <2>6, WillBeTaken
  <2>8. ToBeTracked(v, q)' <=> ToBeTracked(v, q)
    BY <2>1, <2>7 DEF ToBeTracked
  <2>9. pubsubQueue' \in {pubsubQueue, Append(pubsubQueue, Delta(h.room))}
    BY <1>2, <2>3 DEF PresenceServes
  <2>10. Delta(h.room) \in PubSubRequest
    <3>1. (CHOOSE u \in Session : TRUE) \in Session
      BY <2>4
    <3> QED BY <3>1, <2>4 DEF Delta, PubSubRequest
  <2>11. ~Is(Delta(h.room), "subscribe", v, q) /\ ~Is(Delta(h.room), "unsubscribe", v, q)
    BY DEF Delta, Is
  <2>12. WillBe(Append(pubsubQueue, Delta(h.room)), "subscribe", "unsubscribe", v, q, v \in subscribed[q])
          <=> WillBe(pubsubQueue, "subscribe", "unsubscribe", v, q, v \in subscribed[q])
    BY <1>1, <2>10, <2>11, WillBeAppended
  <2>13. ToBeSubscribed(v, q)' <=> ToBeSubscribed(v, q)
    BY <2>1, <2>9, <2>12 DEF ToBeSubscribed
  <2> QED BY <2>8, <2>13 DEF SameTracking
<1>3. CASE PubSubServes
  <2>1. /\ pubsubQueue # <<>> /\ pubsubQueue' = Tail(pubsubQueue)
        /\ tracked' = tracked /\ presenceQueue' = presenceQueue
    BY <1>3 DEF PubSubServes
  <2>2. Head(pubsubQueue) \in PubSubRequest
    BY <1>1, <2>1
  <2>3. PICK h \in PubSubRequest : h = Head(pubsubQueue)
    BY <2>2
  <2>4. h.room \in Room /\ h.user \in Session
    BY DEF PubSubRequest
  <2>5. subscribed' = [subscribed EXCEPT ![h.room] = IF h.kind = "subscribe" THEN @ \cup {h.user}
                                            ELSE IF h.kind = "unsubscribe" THEN @ \ {h.user} ELSE @]
    BY <1>3, <2>3 DEF PubSubServes
  <2>6. /\ Is(h, "subscribe", v, q) => v \in subscribed'[q]
        /\ Is(h, "unsubscribe", v, q) => ~(v \in subscribed'[q])
        /\ ~Is(h, "subscribe", v, q) /\ ~Is(h, "unsubscribe", v, q) =>
              (v \in subscribed'[q] <=> v \in subscribed[q])
    BY <1>a, <2>4, <2>5 DEF Is
  <2>7. WillBe(Tail(pubsubQueue), "subscribe", "unsubscribe", v, q, v \in subscribed'[q])
          <=> WillBe(pubsubQueue, "subscribe", "unsubscribe", v, q, v \in subscribed[q])
    BY <1>1, <2>1, <2>3, <2>6, WillBeTaken
  <2>8. ToBeSubscribed(v, q)' <=> ToBeSubscribed(v, q)
    BY <2>1, <2>7 DEF ToBeSubscribed
  <2>9. ToBeTracked(v, q)' <=> ToBeTracked(v, q)
    BY <2>1 DEF ToBeTracked
  <2> QED BY <2>8, <2>9 DEF SameTracking
<1> QED BY <1>2, <1>3

AllOK == \A v \in Session : SessionOK(v)

LEMMA RestIsRest ==
    ASSUME NEW u \in Session, DoingOK(u), IsAtRest(u) \/ Quits(u)
    PROVE  /\ doing[u].op \in {"none", "end"} /\ doing[u].step = "none"
           /\ IsAtRest(u) => doing[u].op = "none"
           /\ u \in online
           /\ \A r \in Room : ~Entering(u, r) /\ ~Leaving(u, r)
BY DEF IsAtRest, Quits, AtRest, DoingOK, Entering, Leaving

LEMMA OnlyOneMoved ==
    ASSUME NEW u \in Session, AllOK, SessionOK(u)', \A v \in Session \ {u} : Aside(v)
    PROVE  AllOK'
BY AsideOK DEF AllOK

LEMMA CalledOK ==
    ASSUME ChatTypeOK, AllOK, NEW u \in Session, NEW was \in ChatDoing, NEW step \in Step \ {"none"},
           NEW r \in Room, NEW ref \in Nat, CallFrom(u, was, step, r, ref),
           UNCHANGED <<online, group, tracked, subscribed>>,
           \A v \in Session \ {u} : channels'[v] = channels[v],
           step \in StepsOf(was.op), u \in online,
           \A q \in Room : CallChanges(u, step, r, u, q) => PlaceOK(u, q)'
    PROVE  AllOK'
<1>1. DoingTyped /\ QueuesTyped
  BY TypesAre
<1>2. /\ doing'[u].op = was.op /\ doing'[u].step = step /\ doing'[u].room = r
      /\ \A v \in Session \ {u} : doing'[v] = doing[v]
  BY <1>1, CallDoing
<1>3. \A v \in Session, q \in Room : CallChanges(u, step, r, v, q)
  BY <1>1, CallChangesIt
<1>4. ASSUME NEW v \in Session \ {u} PROVE Aside(v)
  <2>1. \A q \in Room : SameTracking(v, q)
    BY <1>3 DEF CallChanges, SameTracking
  <2> QED BY <1>2, <2>1 DEF Aside
<1>5. DoingOK(u)'
  BY <1>2 DEF DoingOK, StepsOf
<1>6. SessionOK(u)'
  BY <1>3, <1>5 DEF SessionOK
<1> QED BY <1>4, <1>6, OnlyOneMoved

LEMMA EnterRoomOK ==
    ASSUME ChatTypeOK, AllOK, NEW u \in Session, NEW r \in Room, EnterRoom(u, r)
    PROVE  AllOK'
<1>1. DoingTyped /\ timeouts \in Nat
  BY TypesAre DEF RestTyped
<1>2. DoingOK(u) /\ \A q \in Room : PlaceOK(u, q)
  BY DEF AllOK, SessionOK
<1> DEFINE was == [AtRest EXCEPT !.op = "join"]
<1>3. was \in ChatDoing /\ was.op = "join"
  BY AtRestTyped DEF Doings, Op, AtRest
<1> HIDE DEF was
<1>4. CallFrom(u, was, "track", r, timeouts)
  BY DEF EnterRoom, was
<1>5. "track" \in Step \ {"none"} /\ "track" \in StepsOf(was.op)
  BY <1>3 DEF Step, StepsOf
<1>6. UNCHANGED <<online, group, tracked, subscribed, channels>> /\ r \notin channels[u] /\ IsAtRest(u)
  BY DEF EnterRoom
<1>7. u \in online /\ \A q \in Room : ~Entering(u, q) /\ ~Leaving(u, q)
  BY <1>2, <1>6, RestIsRest
<1>8. doing'[u].op = "join" /\ doing'[u].step = "track" /\ doing'[u].room = r
  BY <1>1, <1>3, <1>4, CallDoing
<1>9. ASSUME NEW q \in Room, CallChanges(u, "track", r, u, q) PROVE PlaceOK(u, q)'
  <2>1. /\ PlaceOK(u, q) /\ ~Entering(u, q) /\ ~Leaving(u, q)
        /\ Entering(u, q)' <=> q = r
        /\ ~Leaving(u, q)'
    BY <1>2, <1>7, <1>8 DEF Entering, Leaving
  <2> QED BY <1>6, <1>8, <1>9, <2>1 DEF PlaceOK, CallChanges
<1>10. \A v \in Session \ {u} : channels'[v] = channels[v]
  BY <1>6
<1> QED BY <1>1, <1>3, <1>4, <1>5, <1>6, <1>7, <1>9, <1>10, CalledOK

LEMMA PushOK ==
    ASSUME ChatTypeOK, AllOK, NEW u \in Session, NEW r \in Room,
           PushPresenceState(u, r) \/ ListUsers(u, r)
    PROVE  AllOK'
<1>1. DoingTyped /\ timeouts \in Nat /\ doing[u] \in ChatDoing
  BY TypesAre DEF RestTyped, DoingTyped
<1>2. DoingOK(u) /\ \A q \in Room : PlaceOK(u, q)
  BY DEF AllOK, SessionOK
<1>3. PICK was \in ChatDoing : /\ was.op \in {"push state", "list users"}
                               /\ CallFrom(u, was, "list", r, timeouts)
  <2>1. CASE PushPresenceState(u, r)
    BY <1>1, <2>1 DEF PushPresenceState
  <2>2. CASE ListUsers(u, r)
    <3>1. [AtRest EXCEPT !.op = "list users"] \in ChatDoing
      BY AtRestTyped DEF Doings, Op
    <3>2. [AtRest EXCEPT !.op = "list users"].op = "list users"
      BY DEF AtRest
    <3> QED BY <2>2, <3>1, <3>2 DEF ListUsers
  <2> QED BY <2>1, <2>2
<1>5. "list" \in Step \ {"none"} /\ "list" \in StepsOf(was.op)
  BY <1>3 DEF Step, StepsOf
<1>6. UNCHANGED <<online, group, tracked, subscribed, channels>>
  BY DEF PushPresenceState, ListUsers
<1>7. u \in online /\ \A q \in Room : ~Entering(u, q) /\ ~Leaving(u, q)
  <2>1. CASE PushPresenceState(u, r)
    <3>1. doing[u].op = "push state"
      BY <2>1 DEF PushPresenceState
    <3>a. AtRest.op = "none"
      BY DEF AtRest
    <3>2. doing[u] # AtRest
      BY ONLY <3>1, <3>a
    <3> QED BY <1>2, <3>1, <3>2 DEF DoingOK, Entering, Leaving
  <2>2. CASE ListUsers(u, r)
    BY <1>2, <2>2, RestIsRest DEF ListUsers
  <2> QED BY <2>1, <2>2
<1>8. doing'[u].op \in {"push state", "list users"}
  BY <1>1, <1>3, CallDoing
<1>9. ASSUME NEW q \in Room, CallChanges(u, "list", r, u, q) PROVE PlaceOK(u, q)'
  <2>1. /\ PlaceOK(u, q) /\ ~Entering(u, q) /\ ~Leaving(u, q)
        /\ ~Entering(u, q)'
        /\ ~Leaving(u, q)'
    BY <1>2, <1>7, <1>8 DEF Entering, Leaving
  <2> QED BY <1>6, <1>9, <2>1 DEF PlaceOK, CallChanges
<1>10. \A v \in Session \ {u} : channels'[v] = channels[v]
  BY <1>6
<1> QED BY <1>1, <1>3, <1>5, <1>6, <1>7, <1>9, <1>10, CalledOK

LEMMA TerminatingOK ==
    ASSUME ChatTypeOK, AllOK, NEW u \in Session, NEW r \in Room, NEW op \in {"leave", "end"},
           Terminating(u, op, r), r \in channels[u], IsAtRest(u) \/ Quits(u)
    PROVE  AllOK'
<1>1. DoingTyped /\ timeouts \in Nat /\ channels \in [Session -> SUBSET Room]
  BY TypesAre DEF RestTyped
<1>2. DoingOK(u) /\ \A q \in Room : PlaceOK(u, q)
  BY DEF AllOK, SessionOK
<1> DEFINE was == [AtRest EXCEPT !.op = op]
<1>3. was \in ChatDoing /\ was.op = op
  BY AtRestTyped DEF Doings, Op, AtRest
<1> HIDE DEF was
<1>4. CallFrom(u, was, "untrack", r, timeouts)
  BY DEF Terminating, was
<1>5. "untrack" \in Step \ {"none"} /\ "untrack" \in StepsOf(was.op)
  BY <1>3 DEF Step, StepsOf
<1>6. UNCHANGED <<online, group, tracked, subscribed>> /\ channels' = [channels EXCEPT ![u] = channels[u] \ {r}]
  BY DEF Terminating
<1>a. /\ channels'[u] = channels[u] \ {r}
      /\ \A v \in Session \ {u} : channels'[v] = channels[v]
  BY <1>1, <1>6
<1>7. u \in online /\ \A q \in Room : ~Entering(u, q) /\ ~Leaving(u, q)
  BY <1>2, RestIsRest
<1>8. doing'[u].op = op /\ doing'[u].step = "untrack" /\ doing'[u].room = r
  BY <1>1, <1>3, <1>4, CallDoing
<1>9. ASSUME NEW q \in Room, CallChanges(u, "untrack", r, u, q) PROVE PlaceOK(u, q)'
  <2>1. /\ PlaceOK(u, q) /\ ~Entering(u, q) /\ ~Leaving(u, q)
        /\ ~Entering(u, q)'
        /\ Leaving(u, q)' <=> q = r
    BY <1>2, <1>7, <1>8 DEF Entering, Leaving
  <2> QED BY <1>6, <1>a, <1>8, <1>9, <2>1 DEF PlaceOK, CallChanges
<1> QED BY <1>1, <1>3, <1>4, <1>5, <1>6, <1>a, <1>7, <1>9, CalledOK

\* What a session is in the middle of when a call returns.
LEMMA ReturnsTo ==
    ASSUME ChatTypeOK, AllOK, NEW u \in Session, doing[u].step # "none"
    PROVE  /\ u \in online
           /\ doing[u].step \in {"track", "subscribe"} => doing[u].op = "join"
           /\ doing[u].step \in {"untrack", "unsubscribe"} => doing[u].op \in {"leave", "end"}
           /\ doing[u].step = "list" => doing[u].op \in {"push state", "list users"}
           /\ doing[u].op # "none"
<1>1. DoingOK(u) /\ doing[u].op \in Op
  BY DEF AllOK, SessionOK, ChatTypeOK
<1>2. doing[u].step \in StepsOf(doing[u].op) /\ doing[u] # AtRest
  BY <1>1 DEF DoingOK, AtRest
<1>3. u \in online /\ doing[u].op # "none"
  BY <1>1, <1>2 DEF DoingOK
<1>4. CASE doing[u].op = "join"
  BY <1>2, <1>3, <1>4 DEF StepsOf
<1>5. CASE doing[u].op \in {"leave", "end"}
  BY <1>2, <1>3, <1>5 DEF StepsOf
<1>6. CASE doing[u].op \in {"push state", "list users"}
  BY <1>2, <1>3, <1>6 DEF StepsOf
<1> QED BY <1>1, <1>3, <1>4, <1>5, <1>6 DEF Op

LEMMA SubscribeOK ==
    ASSUME ChatTypeOK, AllOK, NEW u \in Session, SubscribePresence(u) \/ UnsubscribePresence(u)
    PROVE  AllOK'
<1>1. DoingTyped /\ timeouts \in Nat /\ doing[u] \in ChatDoing
  BY TypesAre DEF RestTyped, DoingTyped
<1>2. DoingOK(u) /\ \A q \in Room : PlaceOK(u, q)
  BY DEF AllOK, SessionOK
<1>3. PICK step, back : /\ step \in {"subscribe", "unsubscribe"}
                        /\ back \in Returns(u, IF step = "subscribe" THEN "track" ELSE "untrack")
                        /\ CallFrom(u, doing[u], step, doing[u].room, timeouts + back.late)
                        /\ UNCHANGED <<online, group, tracked, subscribed, channels>>
  <2>1. CASE SubscribePresence(u)
    <3>1. \E back \in Returns(u, "track") :
             /\ CallFrom(u, doing[u], "subscribe", doing[u].room, timeouts + back.late)
             /\ UNCHANGED <<online, group, tracked, subscribed, channels>>
      BY <2>1 DEF SubscribePresence
    <3>2. (IF "subscribe" = "subscribe" THEN "track" ELSE "untrack") = "track"
      OBVIOUS
    <3> QED BY <3>1, <3>2
  <2>2. CASE UnsubscribePresence(u)
    <3>1. \E back \in Returns(u, "untrack") :
             /\ CallFrom(u, doing[u], "unsubscribe", doing[u].room, timeouts + back.late)
             /\ UNCHANGED <<online, group, tracked, subscribed, channels>>
      BY <2>2 DEF UnsubscribePresence, ThenUnsubscribe
    <3>2. (IF "unsubscribe" = "subscribe" THEN "track" ELSE "untrack") = "untrack"
      OBVIOUS
    <3> QED BY <3>1, <3>2
  <2> QED BY <2>1, <2>2
<1>4. doing[u].step = (IF step = "subscribe" THEN "track" ELSE "untrack") /\ back.late \in Nat
  BY <1>3, ReturnTyped
<1>5. /\ u \in online
      /\ step = "subscribe" => doing[u].op = "join"
      /\ step = "unsubscribe" => doing[u].op \in {"leave", "end"}
  BY <1>3, <1>4, ReturnsTo
<1>6. step \in Step \ {"none"} /\ step \in StepsOf(doing[u].op)
  BY <1>3, <1>5 DEF Step, StepsOf
<1>7. doing[u].room \in Room /\ timeouts + back.late \in Nat
  BY <1>1, <1>3, <1>4, OwnRoom
<1>8. doing'[u].op = doing[u].op /\ doing'[u].step = step /\ doing'[u].room = doing[u].room
  BY <1>1, <1>3, CallDoing
<1>9. ASSUME NEW q \in Room, CallChanges(u, step, doing[u].room, u, q) PROVE PlaceOK(u, q)'
  <2>1. /\ PlaceOK(u, q)
        /\ Entering(u, q)' <=> Entering(u, q)
        /\ Leaving(u, q)' <=> Leaving(u, q)
        /\ Entering(u, q) <=> step = "subscribe" /\ q = doing[u].room
        /\ Leaving(u, q) <=> step = "unsubscribe" /\ q = doing[u].room
    BY <1>2, <1>3, <1>4, <1>5, <1>8 DEF Entering, Leaving
  <2> QED BY <1>3, <1>4, <1>8, <1>9, <2>1 DEF PlaceOK, CallChanges
<1>10. \A v \in Session \ {u} : channels'[v] = channels[v]
  BY <1>3
<1> QED BY <1>1, <1>3, <1>5, <1>6, <1>7, <1>9, <1>10, CalledOK

\* The step ends what the session was doing, or goes on with something that is not about its place.
LEMMA DoneOK ==
    ASSUME ChatTypeOK, AllOK, NEW u \in Session, NEW what, Does(u, what), NothingAsked,
           UNCHANGED <<online, tracked, subscribed>>,
           \A v \in Session \ {u} : channels'[v] = channels[v],
           \A v \in Session \ {u}, q \in Room : v \in group'[q] <=> v \in group[q],
           what.step \in StepsOf(what.op), what.op = "none" => what = AtRest,
           what.op = "end" => what = [AtRest EXCEPT !.op = "end"], what.op \notin {"join", "leave"},
           u \in online,
           \A q \in Room : SameTracking(u, q) =>
               \/ /\ q \in channels'[u] <=> q \in channels[u]
                  /\ u \in group'[q] <=> u \in group[q]
                  /\ ~Entering(u, q) /\ ~Leaving(u, q)
               \/ /\ Entering(u, q) /\ doing[u].step = "subscribe"
                  /\ q \in channels'[u] /\ u \in group'[q]
               \/ /\ Leaving(u, q) /\ doing[u].step = "unsubscribe"
                  /\ q \notin channels'[u] /\ u \notin group'[q]
    PROVE  AllOK'
<1>1. DoingTyped
  BY TypesAre
<1>2. doing'[u] = what /\ \A v \in Session \ {u} : doing'[v] = doing[v]
  BY <1>1, DoesDoing
<1>3. \A v \in Session, q \in Room : SameTracking(v, q)
  BY NothingAskedEffect
<1>4. ASSUME NEW v \in Session \ {u} PROVE Aside(v)
  BY <1>2, <1>3 DEF Aside
<1>5. DoingOK(u)'
  BY <1>2 DEF DoingOK, StepsOf, AtRest
<1>6. ASSUME NEW q \in Room PROVE PlaceOK(u, q)'
  <2>1. SameTracking(u, q) /\ PlaceOK(u, q)
    BY <1>3 DEF AllOK, SessionOK
  <2>2. what.op = "end" => what.step = "none"
    BY DEF AtRest
  <2>3. ~Entering(u, q)' /\ ~Leaving(u, q)'
    BY <1>2, <2>2 DEF Entering, Leaving
  <2>4. Entering(u, q) => ~Leaving(u, q)
    BY DEF Entering, Leaving
  <2> QED BY <2>1, <2>3, <2>4 DEF PlaceOK, SameTracking
<1>7. SessionOK(u)'
  BY <1>5, <1>6 DEF SessionOK
<1> QED BY <1>4, <1>7, OnlyOneMoved

LEMMA RestFits ==
    /\ AtRest.step \in StepsOf(AtRest.op) /\ AtRest.op = "none"
    /\ [AtRest EXCEPT !.op = "end"].step \in StepsOf([AtRest EXCEPT !.op = "end"].op)
    /\ [AtRest EXCEPT !.op = "end"].op = "end"
BY DEF AtRest, StepsOf

LEMMA JoinedOK ==
    ASSUME ChatTypeOK, AllOK, NEW u \in Session, Joined(u)
    PROVE  AllOK'
<1>1. channels \in [Session -> SUBSET Room] /\ group \in [Room -> SUBSET Session]
  BY DEF ChatTypeOK
<1>2. \A q \in Room : PlaceOK(u, q)
  BY DEF AllOK, SessionOK
<1>3. PICK back \in Returns(u, "subscribe") :
          /\ group' = [group EXCEPT ![doing[u].room] = @ \cup {u}]
          /\ channels' = [channels EXCEPT ![u] = @ \cup {doing[u].room}]
          /\ Does(u, AtRest)
          /\ NothingAsked
          /\ UNCHANGED <<online, tracked, subscribed>>
  BY DEF Joined
<1>4. doing[u].step = "subscribe"
  BY ReturnTyped
<1>5. doing[u].op = "join" /\ u \in online /\ doing[u].room \in Room
  BY <1>4, ReturnsTo, OwnRoom
<1>6. /\ channels'[u] = channels[u] \cup {doing[u].room}
      /\ \A v \in Session \ {u} : channels'[v] = channels[v]
  BY <1>1, <1>3
<1>7. \A v \in Session, q \in Room : v \in group'[q] <=> v \in group[q] \/ (v = u /\ q = doing[u].room)
  BY <1>1, <1>3, <1>5
<1>8. ASSUME NEW q \in Room
      PROVE  \/ /\ q \in channels'[u] <=> q \in channels[u]
                /\ u \in group'[q] <=> u \in group[q]
                /\ ~Entering(u, q) /\ ~Leaving(u, q)
             \/ /\ Entering(u, q) /\ doing[u].step = "subscribe"
                /\ q \in channels'[u] /\ u \in group'[q]
  BY <1>4, <1>5, <1>6, <1>7 DEF Entering, Leaving
<1> QED BY <1>3, <1>5, <1>6, <1>7, <1>8, DoneOK, RestFits

LEMMA LeftGroupOK ==
    ASSUME ChatTypeOK, AllOK, NEW u \in Session, LeftGroup(u)
    PROVE  AllOK'
<1>1. channels \in [Session -> SUBSET Room] /\ group \in [Room -> SUBSET Session]
  BY DEF ChatTypeOK
<1>2. \A q \in Room : PlaceOK(u, q)
  BY DEF AllOK, SessionOK
<1> DEFINE what == IF doing[u].op = "end" THEN [AtRest EXCEPT !.op = "end"] ELSE AtRest
<1>3. PICK back \in Returns(u, "unsubscribe") :
          /\ group' = [group EXCEPT ![doing[u].room] = @ \ {u}]
          /\ Does(u, what)
          /\ NothingAsked
          /\ UNCHANGED <<online, tracked, subscribed, channels>>
  BY DEF LeftGroup
<1>4. doing[u].step = "unsubscribe"
  BY ReturnTyped
<1>5. doing[u].op \in {"leave", "end"} /\ u \in online /\ doing[u].room \in Room
  BY <1>4, ReturnsTo, OwnRoom
<1>6. /\ what.step \in StepsOf(what.op) /\ what.op \in {"none", "end"}
      /\ what.op = "none" => what = AtRest
      /\ what.op = "end" => what = [AtRest EXCEPT !.op = "end"]
  BY RestFits
<1> HIDE DEF what
<1>7. \A v \in Session, q \in Room : v \in group'[q] <=> v \in group[q] /\ ~(v = u /\ q = doing[u].room)
  BY <1>1, <1>3, <1>5
<1>8. ASSUME NEW q \in Room
      PROVE  \/ /\ q \in channels'[u] <=> q \in channels[u]
                /\ u \in group'[q] <=> u \in group[q]
                /\ ~Entering(u, q) /\ ~Leaving(u, q)
             \/ /\ Leaving(u, q) /\ doing[u].step = "unsubscribe"
                /\ q \notin channels'[u] /\ u \notin group'[q]
  BY <1>2, <1>3, <1>4, <1>5, <1>7 DEF Entering, Leaving, PlaceOK
<1>9. \A v \in Session \ {u} : channels'[v] = channels[v]
  BY <1>3
<1> QED BY <1>3, <1>5, <1>6, <1>7, <1>8, <1>9, DoneOK

\* A step that leaves the session where it is.
LEMMA StaysOK ==
    ASSUME ChatTypeOK, AllOK, NEW u \in Session, NEW what, Does(u, what), NothingAsked,
           UNCHANGED <<online, tracked, subscribed, channels, group>>,
           what.step \in StepsOf(what.op), what.op = "none" => what = AtRest,
           what.op \in {"none", "push state"}, u \in online,
           \A q \in Room : ~Entering(u, q) /\ ~Leaving(u, q)
    PROVE  AllOK'
<1>1. \A v \in Session \ {u} : channels'[v] = channels[v]
  OBVIOUS
<1> QED BY <1>1, DoneOK

LEMMA HandlePushStateOK ==
    ASSUME ChatTypeOK, AllOK, NEW u \in Session, HandlePushState(u)
    PROVE  AllOK'
<1> DEFINE what == IF channels[u] = {} THEN AtRest
                   ELSE [AtRest EXCEPT !.op = "push state", !.todo = channels[u]]
<1>1. /\ what.step \in StepsOf(what.op) /\ what.op \in {"none", "push state"}
      /\ what.op = "none" => what = AtRest
  BY DEF AtRest, StepsOf
<1>2. Does(u, what) /\ NothingAsked /\ UNCHANGED <<online, tracked, subscribed, channels, group>>
  BY DEF HandlePushState
<1> HIDE DEF what
<1>3. DoingOK(u)
  BY DEF AllOK, SessionOK
<1>4. u \in online /\ \A q \in Room : ~Entering(u, q) /\ ~Leaving(u, q)
  BY <1>3, RestIsRest DEF HandlePushState
<1> QED BY <1>1, <1>2, <1>4, StaysOK

LEMMA StatePushedOK ==
    ASSUME ChatTypeOK, AllOK, NEW u \in Session, StatePushed(u)
    PROVE  AllOK'
<1> DEFINE what == NextChannel(u, doing[u].room)
<1>1. Does(u, what) /\ NothingAsked /\ UNCHANGED <<online, tracked, subscribed, channels, group>>
      /\ doing[u].op = "push state"
  BY DEF StatePushed
<1>2. \E back : back \in Returns(u, "list")
  BY DEF StatePushed
<1>3. doing[u].step = "list" /\ doing[u] \in ChatDoing
  BY <1>2, ReturnTyped, TypesAre DEF DoingTyped
<1>4. u \in online
  BY <1>3, ReturnsTo
<1>5. \A q \in Room : ~Entering(u, q) /\ ~Leaving(u, q)
  BY <1>1 DEF Entering, Leaving
<1>6. /\ what.step \in StepsOf(what.op) /\ what.op \in {"none", "push state"}
      /\ what.op = "none" => what = AtRest
  <2>1. CASE doing[u].todo = {doing[u].room}
    BY <2>1, RestFits DEF NextChannel
  <2>2. CASE doing[u].todo # {doing[u].room}
    <3>1. what.op = "push state" /\ what.step = "none"
      BY <1>1, <1>3, <2>2 DEF NextChannel, ChatDoing
    <3> HIDE DEF what
    <3> QED BY <3>1 DEF StepsOf
  <2> QED BY <2>1, <2>2
<1> HIDE DEF what
<1> QED BY <1>1, <1>4, <1>5, <1>6, StaysOK

LEMMA UsersListedOK ==
    ASSUME ChatTypeOK, AllOK, NEW u \in Session, UsersListed(u)
    PROVE  AllOK'
<1>1. Does(u, AtRest) /\ NothingAsked /\ UNCHANGED <<online, tracked, subscribed, channels, group>>
      /\ doing[u].op = "list users"
  BY DEF UsersListed
<1>2. \E back : back \in Returns(u, "list")
  BY DEF UsersListed
<1>3. doing[u].step = "list"
  BY <1>2, ReturnTyped
<1>4. u \in online
  BY <1>3, ReturnsTo
<1>5. \A q \in Room : ~Entering(u, q) /\ ~Leaving(u, q)
  BY <1>1 DEF Entering, Leaving
<1> QED BY <1>1, <1>4, <1>5, RestFits, StaysOK

LEMMA EndedOK ==
    ASSUME ChatTypeOK, AllOK, NEW u \in Session, Ended(u)
    PROVE  AllOK'
<1>1. DoingTyped
  BY TypesAre
<1>2. /\ Does(u, AtRest) /\ NothingAsked /\ online' = online \ {u} /\ channels[u] = {}
      /\ UNCHANGED <<tracked, subscribed, channels, group>> /\ Quits(u)
  BY DEF Ended
<1>3. doing'[u] = AtRest /\ \A v \in Session \ {u} : doing'[v] = doing[v]
  BY <1>1, <1>2, DoesDoing
<1>4. \A v \in Session, q \in Room : SameTracking(v, q)
  BY <1>2, NothingAskedEffect
<1>5. ASSUME NEW v \in Session \ {u} PROVE Aside(v)
  BY <1>2, <1>3, <1>4 DEF Aside
<1>6. DoingOK(u) /\ \A q \in Room : PlaceOK(u, q)
  BY DEF AllOK, SessionOK
<1>7. \A q \in Room : ~Entering(u, q) /\ ~Leaving(u, q)
  BY <1>2, <1>6, RestIsRest
<1>8. DoingOK(u)'
  BY <1>2, <1>3, RestFits DEF DoingOK
<1>9. ASSUME NEW q \in Room PROVE PlaceOK(u, q)'
  <2>1. SameTracking(u, q) /\ PlaceOK(u, q) /\ ~Entering(u, q) /\ ~Leaving(u, q)
    BY <1>4, <1>6, <1>7
  <2>2. ~Entering(u, q)' /\ ~Leaving(u, q)'
    BY <1>3, RestFits DEF Entering, Leaving
  <2> QED BY <1>2, <2>1, <2>2 DEF PlaceOK, SameTracking
<1>10. SessionOK(u)'
  BY <1>8, <1>9 DEF SessionOK
<1> QED BY <1>5, <1>10, OnlyOneMoved

LEMMA OthersOK ==
    ASSUME ChatTypeOK, AllOK, UNCHANGED <<doing, channels, online, group>>,
           \A v \in Session, q \in Room : SameTracking(v, q)
    PROVE  AllOK'
<1>1. ASSUME NEW v \in Session PROVE Aside(v)
  BY DEF Aside
<1> QED BY <1>1, AsideOK DEF AllOK

LEMMA PlacesStayOK == ChatTypeOK /\ AllOK /\ [ChatNext]_chatVars => AllOK'
<1> SUFFICES ASSUME ChatTypeOK, AllOK, [ChatNext]_chatVars PROVE AllOK'
  OBVIOUS
<1>1. ASSUME NEW u \in Session, NEW r \in Room,
             \/ EnterRoom(u, r) \/ QuitRoom(u, r) \/ TerminateChannel(u, r)
             \/ PushPresenceState(u, r) \/ ListUsers(u, r)
      PROVE  AllOK'
  <2>1. CASE QuitRoom(u, r)
    BY <2>1, TerminatingOK DEF QuitRoom
  <2>2. CASE TerminateChannel(u, r)
    BY <2>2, TerminatingOK DEF TerminateChannel
  <2> QED BY <1>1, <2>1, <2>2, EnterRoomOK, PushOK
<1>2. ASSUME NEW u \in Session,
             \/ SubscribePresence(u) \/ Joined(u) \/ UnsubscribePresence(u) \/ LeftGroup(u) \/ Ended(u)
             \/ HandlePushState(u) \/ StatePushed(u) \/ UsersListed(u)
      PROVE  AllOK'
  BY <1>2, SubscribeOK, JoinedOK, LeftGroupOK, EndedOK, HandlePushStateOK, StatePushedOK, UsersListedOK
<1>3. ASSUME NEW u \in Session, HandleAfterJoin(u) \/ TellClient(u)
      PROVE  AllOK'
  <2>1. UNCHANGED <<doing, channels, online, group, tracked, subscribed>> /\ NothingAsked
    BY <1>3 DEF HandleAfterJoin, TellClient
  <2> QED BY <2>1, NothingAskedEffect, OthersOK
<1>4. ASSUME PresenceServes \/ PubSubServes PROVE AllOK'
  <2>1. UNCHANGED <<doing, channels, online, group>>
    BY <1>4 DEF PresenceServes, PubSubServes
  <2> QED BY <1>4, <2>1, ServingChangesNothing, OthersOK
<1>5. CASE UNCHANGED chatVars
  <2>1. UNCHANGED <<doing, channels, online, group, tracked, subscribed>> /\ NothingAsked
    BY <1>5 DEF chatVars, NothingAsked
  <2> QED BY <2>1, NothingAskedEffect, OthersOK
<1> QED BY <1>1, <1>2, <1>3, <1>4, <1>5 DEF ChatNext

LEMMA PlacesStartOK == ASSUME ChatInit PROVE AllOK
<1>1. ASSUME NEW u \in Session PROVE DoingOK(u)
  BY RestFits DEF ChatInit, DoingOK
<1>2. ASSUME NEW u \in Session, NEW r \in Room PROVE PlaceOK(u, r)
  <2>1. ~ToBeTracked(u, r) /\ ~ToBeSubscribed(u, r)
    <3>1. /\ presenceQueue = <<>> /\ pubsubQueue = <<>>
          /\ u \notin tracked[r] /\ u \notin subscribed[r]
      BY DEF ChatInit
    <3>2. DOMAIN presenceQueue = {} /\ DOMAIN pubsubQueue = {}
      BY <3>1
    <3> QED BY <3>1, <3>2 DEF ToBeTracked, ToBeSubscribed, WillBe
  <2>2. ~Entering(u, r) /\ ~Leaving(u, r)
    BY RestFits DEF ChatInit, Entering, Leaving
  <2> QED BY <2>1, <2>2 DEF ChatInit, PlaceOK
<1> QED BY <1>1, <1>2 DEF AllOK, SessionOK

-----------------------------------------------------------------------------
(***************************************************************************)
(* Calls, when none times out: a session has one request in the queues, or *)
(* its reply in its mailbox, or neither.  So a reply is never taken for    *)
(* another one, nor handled as a message.                                  *)
(***************************************************************************)
Asks(q, u) == q.kind # "broadcast" /\ q.user = u
Once(queue, u) == \A i, j \in DOMAIN queue : Asks(queue[i], u) /\ Asks(queue[j], u) => i = j
Quiet(queue, u) == \A q \in Within(queue) : ~Asks(q, u)

QueueOK(queue, u) ==
    /\ Once(queue, u)
    /\ \A q \in Within(queue) : Asks(q, u) =>
          doing[u].step = q.kind /\ doing[u].room = q.room /\ NoReplyIn(letters[u])

CallOK(u) ==
    /\ QueueOK(presenceQueue, u) /\ QueueOK(pubsubQueue, u)
    /\ doing[u].step = "none" => NoReplyIn(letters[u])
    /\ Ordered(letters[u])
    /\ \A q \in Within(presenceQueue) : q.kind = "untrack" /\ q.user = u => u \in tracked[q.room]

CallsOK == \A u \in Session : CallOK(u)

LEMMA OnceAppended ==
    ASSUME NEW S, NEW q \in Seq(S), NEW e \in S, NEW u, Once(q, u), Quiet(q, u) \/ ~Asks(e, u)
    PROVE  Once(Append(q, e), u)
<1> DEFINE a == Append(q, e)
<1>1. /\ DOMAIN a = 1 .. Len(q) + 1 /\ DOMAIN q = 1 .. Len(q) /\ Len(q) \in Nat
      /\ \A i \in 1 .. Len(q) : a[i] = q[i]
      /\ a[Len(q) + 1] = e
  BY SeqAppend
<1> HIDE DEF a
<1>2. \A i \in DOMAIN a : (i = Len(q) + 1 /\ a[i] = e) \/ (i \in DOMAIN q /\ a[i] = q[i])
  BY <1>1
<1>3. Quiet(q, u) => \A i \in DOMAIN q : ~Asks(q[i], u)
  BY DEF Quiet, Within
<1> QED BY <1>2, <1>3 DEF Once, a

LEMMA OnceTaken ==
    ASSUME NEW S, NEW q \in Seq(S), q # <<>>, NEW u, Once(q, u)
    PROVE  Once(Tail(q), u) /\ (Asks(Head(q), u) => Quiet(Tail(q), u))
<1>a. q \in Seq(S) /\ q # <<>>
  OBVIOUS
<1>1. /\ Head(q) = q[1] /\ 1 \in DOMAIN q
      /\ \A i \in DOMAIN Tail(q) : i + 1 \in DOMAIN q /\ Tail(q)[i] = q[i + 1]
  BY ONLY <1>a, TailFrom
<1>2. Len(q) \in Nat /\ DOMAIN Tail(q) = 1 .. Len(q) - 1
  BY ONLY <1>a, SeqTail
<1>3. \A i \in DOMAIN Tail(q) : i + 1 # 1 /\ \A j \in DOMAIN Tail(q) : i + 1 = j + 1 => i = j
  BY <1>2
<1> QED BY <1>1, <1>3 DEF Once, Quiet, Within

LEMMA QuietAppended ==
    ASSUME NEW S, NEW q \in Seq(S), NEW e \in S, NEW u, Quiet(q, u), ~Asks(e, u)
    PROVE  Quiet(Append(q, e), u)
BY WithinAppended DEF Quiet

LEMMA QuietOnce == ASSUME NEW q, NEW u, Quiet(q, u) PROVE Once(q, u) /\ QueueOK(q, u)
BY DEF Quiet, Once, QueueOK, Within

\* Who has no call, or has its reply, has no request in a queue.
LEMMA NothingAskedFor ==
    ASSUME ChatTypeOK, NEW u \in Session, CallOK(u), doing[u].step = "none" \/ ~NoReplyIn(letters[u])
    PROVE  Quiet(presenceQueue, u) /\ Quiet(pubsubQueue, u)
<1>1. presenceQueue \in Seq(PresenceRequest) /\ pubsubQueue \in Seq(PubSubRequest)
  BY DEF ChatTypeOK
<1>2. \A q \in Within(presenceQueue) : q.kind # "none"
  <2>1. \A i \in DOMAIN presenceQueue : presenceQueue[i] \in PresenceRequest
    BY <1>1
  <2>2. \A q \in PresenceRequest : q.kind # "none"
    BY DEF PresenceRequest
  <2> QED BY <2>1, <2>2 DEF Within
<1>3. \A q \in Within(pubsubQueue) : q.kind # "none"
  <2>1. \A i \in DOMAIN pubsubQueue : pubsubQueue[i] \in PubSubRequest
    BY <1>1
  <2>2. \A q \in PubSubRequest : q.kind # "none"
    BY DEF PubSubRequest
  <2> QED BY <2>1, <2>2 DEF Within
<1> QED BY <1>2, <1>3 DEF CallOK, QueueOK, Quiet

\* Without time-outs, a call returns with the reply.
LEMMA ReturnIs ==
    ASSUME ChatTypeOK, watched # {}, NEW u \in Session, CallOK(u), NEW step, NEW back \in Returns(u, step)
    PROVE  /\ doing[u].step = step /\ back.late = 0
           /\ \E i \in DOMAIN letters[u] : /\ letters[u][i].kind = "reply"
                                           /\ back.rest = Resent(letters[u], i)
                                           /\ back.listed = letters[u][i].who
           /\ NoReplyIn(back.rest) /\ back.rest \in Seq(ChatLetter)
           /\ Quiet(presenceQueue, u) /\ Quiet(pubsubQueue, u)
<1>1. doing[u].step = step /\ back \in Answers(u)
  BY DEF Returns, NoAnswer
<1>2. PICK i \in DOMAIN letters[u] :
         /\ letters[u][i].kind = "reply"
         /\ back = [rest |-> Resent(letters[u], i), listed |-> letters[u][i].who, late |-> 0]
  BY <1>1 DEF Answers
<1>3. letters[u] \in Seq(ChatLetter) /\ Ordered(letters[u])
  BY DEF ChatTypeOK, CallOK
<1>4. NoReplyIn(Resent(letters[u], i)) /\ Resent(letters[u], i) \in Seq(ChatLetter)
  BY <1>2, <1>3, ReplyTaken, ResentIs
<1>5. ~NoReplyIn(letters[u])
  BY <1>2 DEF NoReplyIn, Within
<1>6. back.rest = Resent(letters[u], i) /\ back.listed = letters[u][i].who /\ back.late = 0
  BY <1>2
<1> QED BY <1>1, <1>2, <1>4, <1>5, <1>6, NothingAskedFor

\* What is appended to a queue does not ask for v.
AddsNoneOf(v) ==
    /\ presenceQueue' = presenceQueue
         \/ \E e \in PresenceRequest : presenceQueue' = Append(presenceQueue, e) /\ ~Asks(e, v)
    /\ pubsubQueue' = pubsubQueue
         \/ \E e \in PubSubRequest : pubsubQueue' = Append(pubsubQueue, e) /\ ~Asks(e, v)

BoxStays(v) == (NoReplyIn(letters[v]) => NoReplyIn(letters'[v])) /\ Ordered(letters'[v])

LEMMA QueueKept ==
    ASSUME NEW S, NEW q \in Seq(S), NEW e \in S, NEW u, ~Asks(e, u), QueueOK(q, u)
    PROVE  QueueOK(Append(q, e), u)
BY OnceAppended, WithinAppended DEF QueueOK

LEMMA CallKept ==
    ASSUME ChatTypeOK, NEW v \in Session, CallOK(v), doing'[v] = doing[v], AddsNoneOf(v), BoxStays(v),
           tracked' = tracked
    PROVE  CallOK(v)'
<1>1. presenceQueue \in Seq(PresenceRequest) /\ pubsubQueue \in Seq(PubSubRequest)
  BY DEF ChatTypeOK
<1>2. QueueOK(presenceQueue', v) /\ QueueOK(pubsubQueue', v)
  BY <1>1, QueueKept DEF AddsNoneOf, CallOK
<1>3. QueueOK(presenceQueue, v)' /\ QueueOK(pubsubQueue, v)'
  BY <1>2 DEF QueueOK, BoxStays
<1>4. \A q \in Within(presenceQueue') : q.kind = "untrack" /\ q.user = v => v \in tracked'[q.room]
  <2>1. CASE presenceQueue' = presenceQueue
    BY <2>1 DEF CallOK
  <2>2. CASE \E e \in PresenceRequest : presenceQueue' = Append(presenceQueue, e) /\ ~Asks(e, v)
    <3>1. PICK e \in PresenceRequest : presenceQueue' = Append(presenceQueue, e) /\ ~Asks(e, v)
      BY <2>2
    <3>2. Within(presenceQueue') = Within(presenceQueue) \cup {e}
      BY <1>1, <3>1, WithinAppended
    <3>3. ~(e.kind = "untrack" /\ e.user = v)
      BY <3>1 DEF Asks
    <3> QED BY <3>2, <3>3 DEF CallOK
  <2> QED BY <2>1, <2>2 DEF AddsNoneOf
<1> QED BY <1>3, <1>4 DEF CallOK, BoxStays

\* The session that asks has asked for nothing else.
LEMMA CallStartsOK ==
    ASSUME ChatTypeOK, NEW u \in Session, NEW was \in ChatDoing, NEW step \in Step \ {"none"},
           NEW r \in Room, NEW ref \in Nat,
           CallFrom(u, was, step, r, ref), tracked' = tracked,
           Quiet(presenceQueue, u), Quiet(pubsubQueue, u), NoReplyIn(letters'[u]),
           step = "untrack" => u \in tracked[r]
    PROVE  CallOK(u)' /\ \A v \in Session \ {u} : AddsNoneOf(v) /\ doing'[v] = doing[v]
<1>1. presenceQueue \in Seq(PresenceRequest) /\ pubsubQueue \in Seq(PubSubRequest) /\ DoingTyped
  BY TypesAre DEF QueuesTyped
<1> DEFINE request == [kind |-> step, room |-> r, user |-> u, call |-> ref]
<1>2. request.kind = step /\ request.room = r /\ request.user = u
  OBVIOUS
<1>3. request \in PresenceRequest \/ step \in {"subscribe", "unsubscribe"}
  BY DEF PresenceRequest, Step
<1>4. request \in PubSubRequest \/ step \notin {"subscribe", "unsubscribe"}
  BY DEF PubSubRequest
<1>5. IF step \in {"subscribe", "unsubscribe"}
      THEN pubsubQueue' = Append(pubsubQueue, request) /\ presenceQueue' = presenceQueue
      ELSE presenceQueue' = Append(presenceQueue, request) /\ pubsubQueue' = pubsubQueue
  BY DEF CallFrom
<1> HIDE DEF request
<1>6. /\ doing'[u].step = step /\ doing'[u].room = r
      /\ \A v \in Session \ {u} : doing'[v] = doing[v]
  BY <1>1, CallDoing
<1>7. \A v \in Session \ {u} : ~Asks(request, v)
  BY <1>2 DEF Asks
<1>8. ASSUME NEW S, NEW q \in Seq(S), Quiet(q, u), request \in S
      PROVE  QueueOK(Append(q, request), u)'
  <2>1. Once(q, u)
    BY <1>8, QuietOnce
  <2>2. Once(Append(q, request), u)
    BY <1>8, <2>1, OnceAppended
  <2>3. Within(Append(q, request)) = Within(q) \cup {request}
    BY <1>8, WithinAppended
  <2>4. \A e \in Within(Append(q, request)) : Asks(e, u) => e = request
    BY <1>8, <2>3 DEF Quiet
  <2> QED BY <1>2, <1>6, <2>2, <2>4 DEF QueueOK
<1>9. step # "none" /\ Ordered(letters'[u])
  BY NoReplyOrdered
<1>10. CASE step \in {"subscribe", "unsubscribe"}
  <2>1. QueueOK(pubsubQueue, u)'
    BY <1>1, <1>4, <1>5, <1>8, <1>10
  <2>2. presenceQueue' = presenceQueue
    BY <1>5, <1>10
  <2>3. QueueOK(presenceQueue, u)'
    BY <2>2, QuietOnce DEF QueueOK, Quiet
  <2>4. \A q \in Within(presenceQueue') : ~(q.kind = "untrack" /\ q.user = u)
    BY <2>2 DEF Quiet, Asks
  <2>5. CallOK(u)'
    BY <1>6, <1>9, <2>1, <2>3, <2>4 DEF CallOK
  <2> QED BY <2>5, <1>4, <1>5, <1>6, <1>7, <1>10 DEF AddsNoneOf
<1>11. CASE step \notin {"subscribe", "unsubscribe"}
  <2>1. QueueOK(presenceQueue, u)'
    BY <1>1, <1>3, <1>5, <1>8, <1>11
  <2>2. pubsubQueue' = pubsubQueue
    BY <1>5, <1>11
  <2>3. QueueOK(pubsubQueue, u)'
    BY <2>2, QuietOnce DEF QueueOK, Quiet
  <2>4. Within(presenceQueue') = Within(presenceQueue) \cup {request}
    BY <1>1, <1>3, <1>5, <1>11, WithinAppended
  <2>5. \A q \in Within(presenceQueue') : q.kind = "untrack" /\ q.user = u => u \in tracked'[q.room]
    BY <2>4, <1>2 DEF Quiet, Asks
  <2>6. CallOK(u)'
    BY <1>6, <1>9, <2>1, <2>3, <2>5 DEF CallOK
  <2> QED BY <2>6, <1>3, <1>5, <1>6, <1>7, <1>11 DEF AddsNoneOf
<1> QED BY <1>10, <1>11

\* The session that asks for nothing now has none in the queues.
LEMMA CallEndsOK ==
    ASSUME ChatTypeOK, NEW u \in Session, NothingAsked,
           Quiet(presenceQueue, u), Quiet(pubsubQueue, u), NoReplyIn(letters'[u])
    PROVE  CallOK(u)'
<1>1. presenceQueue' = presenceQueue /\ pubsubQueue' = pubsubQueue
  BY DEF NothingAsked
<1>2. QueueOK(presenceQueue, u)' /\ QueueOK(pubsubQueue, u)'
  BY <1>1, QuietOnce DEF QueueOK, Quiet
<1>3. \A q \in Within(presenceQueue') : ~(q.kind = "untrack" /\ q.user = u)
  BY <1>1 DEF Quiet, Asks
<1> QED BY <1>2, <1>3, NoReplyOrdered DEF CallOK

LEMMA BoxSame ==
    ASSUME NEW v \in Session, CallOK(v), letters'[v] = letters[v]
    PROVE  BoxStays(v)
BY DEF BoxStays, CallOK

LEMMA BoxGets ==
    ASSUME ChatTypeOK, NEW v \in Session, CallOK(v), NEW l \in ChatLetter,
           l.kind \notin {"reply", "state"},
           letters'[v] = Append(letters[v], l)
    PROVE  BoxStays(v)
<1>1. letters[v] \in Seq(ChatLetter) /\ Ordered(letters[v])
  BY DEF ChatTypeOK, CallOK
<1>2. Ordered(Append(letters[v], l)) /\ Within(Append(letters[v], l)) = Within(letters[v]) \cup {l}
  BY <1>1, OrderedAppended, WithinAppended
<1> QED BY <1>2 DEF BoxStays, NoReplyIn

LEMMA PostBox ==
    ASSUME ChatTypeOK, NEW v \in Session, CallOK(v), NEW to, NEW l \in ChatLetter,
           l.kind \notin {"reply", "state"}, PostTo(to, l)
    PROVE  BoxStays(v)
<1>1. letters'[v] \in {letters[v], Append(letters[v], l)}
  BY DEF PostTo
<1> QED BY <1>1, BoxSame, BoxGets

LEMMA StartKeepsCalls ==
    ASSUME ChatTypeOK, CallsOK, NEW u \in Session, NEW was \in ChatDoing, NEW step \in Step \ {"none"},
           NEW r \in Room,
           NEW ref \in Nat, CallFrom(u, was, step, r, ref), tracked' = tracked,
           Quiet(presenceQueue, u), Quiet(pubsubQueue, u), NoReplyIn(letters'[u]),
           step = "untrack" => u \in tracked[r], \A v \in Session \ {u} : BoxStays(v)
    PROVE  CallsOK'
<1>1. CallOK(u)' /\ \A v \in Session \ {u} : AddsNoneOf(v) /\ doing'[v] = doing[v]
  BY CallStartsOK
<1>2. \A v \in Session \ {u} : CallOK(v)'
  BY <1>1, CallKept DEF CallsOK
<1> QED BY <1>1, <1>2 DEF CallsOK

LEMMA EndKeepsCalls ==
    ASSUME ChatTypeOK, CallsOK, NEW u \in Session, NothingAsked, tracked' = tracked,
           Quiet(presenceQueue, u), Quiet(pubsubQueue, u), NoReplyIn(letters'[u]),
           \A v \in Session \ {u} : BoxStays(v) /\ doing'[v] = doing[v]
    PROVE  CallsOK'
<1>1. CallOK(u)'
  BY CallEndsOK
<1>2. \A v \in Session \ {u} : AddsNoneOf(v)
  BY DEF NothingAsked, AddsNoneOf
<1>3. \A v \in Session \ {u} : CallOK(v)'
  BY <1>2, CallKept DEF CallsOK
<1> QED BY <1>1, <1>3 DEF CallsOK

LEMMA TrackedNow ==
    ASSUME NEW u \in Session, NEW r \in Room, ToBeTracked(u, r),
           \A q \in Within(presenceQueue) : ~Is(q, "track", u, r)
    PROVE  u \in tracked[r]
BY DEF ToBeTracked, WillBe, Within

LEMMA RoomStepCalls ==
    ASSUME ChatTypeOK, AllOK, CallsOK, NEW u \in Session, NEW r \in Room,
           \/ EnterRoom(u, r) \/ QuitRoom(u, r) \/ TerminateChannel(u, r)
           \/ PushPresenceState(u, r) \/ ListUsers(u, r)
    PROVE  CallsOK'
<1>1. timeouts \in Nat /\ doing[u] \in ChatDoing
  BY TypesAre DEF RestTyped, DoingTyped
<1>2. DoingOK(u) /\ PlaceOK(u, r) /\ CallOK(u)
  BY DEF AllOK, SessionOK, CallsOK
<1>3. doing[u].step = "none"
  BY <1>2, RestIsRest DEF EnterRoom, QuitRoom, TerminateChannel, PushPresenceState, ListUsers
<1>4. Quiet(presenceQueue, u) /\ Quiet(pubsubQueue, u) /\ NoReplyIn(letters[u])
  BY <1>2, <1>3, NothingAskedFor DEF CallOK
<1>5. CASE EnterRoom(u, r) \/ PushPresenceState(u, r) \/ ListUsers(u, r)
  <2>1. \E was \in ChatDoing, step \in {"track", "list"} : CallFrom(u, was, step, r, timeouts)
    <3>1. CASE EnterRoom(u, r)
      <4>1. [AtRest EXCEPT !.op = "join"] \in ChatDoing
        BY AtRestTyped DEF Doings, Op
      <4> QED BY <3>1, <4>1 DEF EnterRoom
    <3>2. CASE PushPresenceState(u, r)
      BY <1>1, <3>2 DEF PushPresenceState
    <3>3. CASE ListUsers(u, r)
      <4>1. [AtRest EXCEPT !.op = "list users"] \in ChatDoing
        BY AtRestTyped DEF Doings, Op
      <4> QED BY <3>3, <4>1 DEF ListUsers
    <3> QED BY <1>5, <3>1, <3>2, <3>3
  <2>2. letters' = letters /\ tracked' = tracked
    BY <1>5 DEF EnterRoom, PushPresenceState, ListUsers
  <2>3. PICK was \in ChatDoing, step \in {"track", "list"} : CallFrom(u, was, step, r, timeouts)
    BY <2>1
  <2>4. step \in Step \ {"none"} /\ step # "untrack"
    BY DEF Step
  <2>5. \A v \in Session \ {u} : BoxStays(v)
    BY <2>2, BoxSame DEF CallsOK
  <2> QED BY <1>1, <1>4, <2>2, <2>3, <2>4, <2>5, StartKeepsCalls
<1>6. CASE QuitRoom(u, r) \/ TerminateChannel(u, r)
  <2>1. PICK op \in {"leave", "end"} : Terminating(u, op, r)
    BY <1>6 DEF QuitRoom, TerminateChannel
  <2>2. [AtRest EXCEPT !.op = op] \in ChatDoing
    BY AtRestTyped DEF Doings, Op
  <2>3. CallFrom(u, [AtRest EXCEPT !.op = op], "untrack", r, timeouts) /\ tracked' = tracked
    BY <2>1 DEF Terminating
  <2>4. r \in channels[u]
    BY <1>6 DEF QuitRoom, TerminateChannel
  <2>5. u \in tracked[r]
    BY <1>2, <1>4, <2>4, TrackedNow DEF PlaceOK, Quiet, Asks, Is
  <2>6. letters'[u] = letters[u]
    BY <2>1 DEF Terminating, PostTo
  <2>7. Letter("user left", r, {u}) \in ChatLetter /\ Letter("user left", r, {u}).kind \notin {"reply", "state"}
    BY DEF Letter, ChatLetter
  <2>8. PostTo((group[r] \ {u}) \cap watched, Letter("user left", r, {u}))
    BY <2>1 DEF Terminating
  <2>9. \A v \in Session \ {u} : BoxStays(v)
    BY <2>7, <2>8, PostBox DEF CallsOK
  <2>10. "untrack" \in Step \ {"none"}
    BY DEF Step
  <2> QED BY <1>1, <1>4, <2>2, <2>3, <2>5, <2>6, <2>9, <2>10, StartKeepsCalls
<1> QED BY <1>5, <1>6

LEMMA ResumedLetters ==
    ASSUME ChatTypeOK, CallsOK, NEW u \in Session, NEW back, NEW more \in Seq(ChatLetter),
           back.rest \in Seq(ChatLetter),
           NoReplyIn(back.rest), Resumes(u, back, more), \A l \in Within(more) : l.kind # "reply"
    PROVE  /\ NoReplyIn(letters'[u]) /\ letters'[u] = back.rest \o more
           /\ \A v \in Session \ {u} : BoxStays(v) /\ letters'[v] = letters[v]
<1>1. /\ letters'[u] = back.rest \o more
      /\ \A v \in Session \ {u} : letters'[v] = letters[v]
  BY DEF Resumes, ChatTypeOK
<1>2. NoReplyIn(letters'[u])
  BY <1>1, WithinConcat DEF NoReplyIn
<1> QED BY <1>1, <1>2, BoxSame DEF CallsOK

LEMMA NoMore == <<>> \in Seq(ChatLetter) /\ \A l \in Within(<<>>) : l.kind # "reply"
BY WithinEmpty

LEMMA OneMoreLetter ==
    ASSUME NEW l \in ChatLetter, l.kind # "reply"
    PROVE  <<l>> \in Seq(ChatLetter) /\ \A e \in Within(<<l>>) : e.kind # "reply"
BY DEF Within

LEMMA ReturnStepCalls ==
    ASSUME ChatTypeOK, AllOK, CallsOK, watched # {}, NEW u \in Session,
           \/ SubscribePresence(u) \/ Joined(u) \/ UnsubscribePresence(u) \/ LeftGroup(u)
           \/ StatePushed(u) \/ UsersListed(u)
    PROVE  CallsOK'
<1>1. timeouts \in Nat /\ doing[u] \in ChatDoing /\ DoingTyped
  BY TypesAre DEF RestTyped, DoingTyped
<1>2. CallOK(u)
  BY DEF CallsOK
<1>3. ASSUME NEW step, NEW back \in Returns(u, step), NEW more \in Seq(ChatLetter),
             \A l \in Within(more) : l.kind # "reply", Resumes(u, back, more)
      PROVE  /\ doing[u].step = step /\ back.late = 0
             /\ Quiet(presenceQueue, u) /\ Quiet(pubsubQueue, u) /\ NoReplyIn(letters'[u])
             /\ \A v \in Session \ {u} : BoxStays(v)
  <2>1. /\ doing[u].step = step /\ back.late = 0
        /\ NoReplyIn(back.rest) /\ back.rest \in Seq(ChatLetter)
        /\ Quiet(presenceQueue, u) /\ Quiet(pubsubQueue, u)
    BY <1>2, <1>3, ReturnIs
  <2> QED BY <2>1, <1>3, ResumedLetters
<1>4. CASE SubscribePresence(u) \/ UnsubscribePresence(u)
  <2>1. PICK step, before, back : /\ step \in {"subscribe", "unsubscribe"} /\ before \in {"track", "untrack"}
                          /\ back \in Returns(u, before)
                          /\ Resumes(u, back, <<>>)
                          /\ CallFrom(u, doing[u], step, doing[u].room, timeouts + back.late)
                          /\ tracked' = tracked
    <3>1. CASE SubscribePresence(u)
      BY <3>1 DEF SubscribePresence
    <3>2. CASE UnsubscribePresence(u)
      BY <3>2 DEF UnsubscribePresence, ThenUnsubscribe
    <3> QED BY <1>4, <3>1, <3>2
  <2>2. /\ doing[u].step = before /\ back.late = 0
        /\ Quiet(presenceQueue, u) /\ Quiet(pubsubQueue, u) /\ NoReplyIn(letters'[u])
        /\ \A v \in Session \ {u} : BoxStays(v)
    BY <1>3, <2>1, NoMore
  <2>3. doing[u].room \in Room /\ timeouts + back.late \in Nat
    BY <1>1, <2>1, <2>2, OwnRoom
  <2>4. step \in Step \ {"none"} /\ step # "untrack"
    BY <2>1 DEF Step
  <2> QED BY <1>1, <2>1, <2>2, <2>3, <2>4, StartKeepsCalls
<1>5. CASE Joined(u) \/ LeftGroup(u) \/ StatePushed(u) \/ UsersListed(u)
  <2>1. PICK step, back, more : /\ back \in Returns(u, step) /\ Resumes(u, back, more)
                                /\ more \in Seq(ChatLetter) /\ \A l \in Within(more) : l.kind # "reply"
    <3>1. CASE Joined(u)
      <4>1. \E back \in Returns(u, "subscribe") : Resumes(u, back, <<Letter("after join", Nowhere, {})>>)
        BY <3>1 DEF Joined
      <4>2. Letter("after join", Nowhere, {}) \in ChatLetter /\ Letter("after join", Nowhere, {}).kind # "reply"
        BY DEF Letter, ChatLetter
      <4>3. /\ <<Letter("after join", Nowhere, {})>> \in Seq(ChatLetter)
            /\ \A l \in Within(<<Letter("after join", Nowhere, {})>>) : l.kind # "reply"
        BY <4>2, OneMoreLetter
      <4> QED BY <4>1, <4>3
    <3>2. CASE LeftGroup(u) \/ UsersListed(u)
      BY <3>2, NoMore DEF LeftGroup, UsersListed
    <3>3. CASE StatePushed(u)
      <4>1. PICK back \in Returns(u, "list") :
               Resumes(u, back, <<Letter("state", doing[u].room, back.listed \cup {u})>>)
        BY <3>3 DEF StatePushed
      <4>2. back.listed \subseteq Session /\ doing[u].step = "list"
        BY ReturnTyped
      <4>3. PICK l : l = Letter("state", doing[u].room, back.listed \cup {u})
        OBVIOUS
      <4>4. doing[u].room \in Room
        BY <4>2, OwnRoom
      <4>5. l \in ChatLetter /\ l.kind # "reply"
        BY <4>2, <4>3, <4>4 DEF Letter, ChatLetter
      <4>6. <<l>> \in Seq(ChatLetter) /\ \A e \in Within(<<l>>) : e.kind # "reply"
        BY <4>5, OneMoreLetter
      <4> QED BY <4>1, <4>3, <4>6
    <3> QED BY <1>5, <3>1, <3>2, <3>3
  <2>2. /\ Quiet(presenceQueue, u) /\ Quiet(pubsubQueue, u) /\ NoReplyIn(letters'[u])
        /\ \A v \in Session \ {u} : BoxStays(v)
    BY <1>3, <2>1
  <2>3. /\ NothingAsked /\ tracked' = tracked
        /\ \E what : Does(u, what)
    BY <1>5 DEF Joined, LeftGroup, StatePushed, UsersListed
  <2>4. \A v \in Session \ {u} : doing'[v] = doing[v]
    BY <1>1, <2>3, DoesDoing
  <2> QED BY <2>2, <2>3, <2>4, EndKeepsCalls
<1> QED BY <1>4, <1>5

\* What those in the rooms of u are told when it has joined.
JoinedIn(u, v) == Seqs!SetToSeq({Letter("user joined", r, {u}) : r \in {x \in channels[u] : v \in group[x]}})

LEMMA AfterJoinOwn ==
    ASSUME ChatTypeOK, NEW u \in Session, HandleAfterJoin(u)
    PROVE  letters'[u] = Tail(letters[u]) /\ letters[u] \in Seq(ChatLetter) /\ letters[u] # <<>>
BY DEF HandleAfterJoin, TakeLetter, ChatTypeOK

LEMMA AfterJoinLetters ==
    ASSUME ChatTypeOK, NEW u \in Session, HandleAfterJoin(u), NEW v \in Session, v # u
    PROVE  /\ letters'[v] \in {letters[v], letters[v] \o JoinedIn(u, v)}
           /\ letters[v] \in Seq(ChatLetter) /\ JoinedIn(u, v) \in Seq(ChatLetter)
           /\ \A l \in Within(JoinedIn(u, v)) :
                 l.kind = "user joined" /\ l.who = {u} /\ l.room \in channels[u]
<1>2. letters'[v] \in {letters[v], letters[v] \o JoinedIn(u, v)} /\ letters[v] \in Seq(ChatLetter)
  BY DEF HandleAfterJoin, JoinedIn, ChatTypeOK
<1>3. /\ JoinedIn(u, v) \in Seq(ChatLetter)
      /\ \A l \in Within(JoinedIn(u, v)) : l.kind = "user joined" /\ l.who = {u} /\ l.room \in channels[u]
  <2> DEFINE new == {Letter("user joined", r, {u}) : r \in {x \in channels[u] : v \in group[x]}}
  <2>1. JoinedIn(u, v) \in Seq(new) /\ JoinedIn(u, v) \in Seq(ChatLetter)
    BY JoinedLetters DEF JoinedIn
  <2>2. ASSUME NEW l \in new PROVE l.kind = "user joined" /\ l.who = {u} /\ l.room \in channels[u]
    <3>1. PICK r \in channels[u] : l = Letter("user joined", r, {u})
      OBVIOUS
    <3> QED BY <3>1 DEF Letter
  <2> HIDE DEF new
  <2>3. \A l \in Within(JoinedIn(u, v)) : l \in new
    BY <2>1 DEF Within
  <2> QED BY <2>1, <2>2, <2>3
<1> QED BY <1>2, <1>3

LEMMA TakenBox ==
    ASSUME ChatTypeOK, NEW v \in Session, CallOK(v), letters[v] # <<>>, letters'[v] = Tail(letters[v])
    PROVE  BoxStays(v)
<1>1. letters[v] \in Seq(ChatLetter) /\ Ordered(letters[v])
  BY DEF ChatTypeOK, CallOK
<1>2. Ordered(Tail(letters[v])) /\ Within(Tail(letters[v])) \subseteq Within(letters[v])
  BY <1>1, OrderedTaken, WithinTaken
<1> QED BY <1>2 DEF BoxStays, NoReplyIn

LEMMA OwnStepCalls ==
    ASSUME ChatTypeOK, AllOK, CallsOK, NEW u \in Session,
           Ended(u) \/ HandleAfterJoin(u) \/ HandlePushState(u) \/ TellClient(u)
    PROVE  CallsOK'
<1>1. DoingTyped
  BY TypesAre
<1>2. DoingOK(u) /\ CallOK(u)
  BY DEF AllOK, SessionOK, CallsOK
<1>3. doing[u].step = "none"
  BY <1>2, RestIsRest DEF Ended, HandleAfterJoin, HandlePushState, TellClient, TakeLetter
<1>4. Quiet(presenceQueue, u) /\ Quiet(pubsubQueue, u) /\ NoReplyIn(letters[u])
  BY <1>2, <1>3, NothingAskedFor DEF CallOK
<1>5. NothingAsked /\ tracked' = tracked
  BY DEF Ended, HandleAfterJoin, HandlePushState, TellClient
<1>6. \A v \in Session \ {u} : doing'[v] = doing[v]
  BY <1>1, DoesDoing DEF Ended, HandleAfterJoin, HandlePushState, TellClient
<1>7. CASE Ended(u) \/ HandlePushState(u)
  <2>1. /\ letters'[u] \in {letters[u], <<>>}
        /\ \A v \in Session \ {u} : letters'[v] = letters[v]
    BY <1>7 DEF Ended, HandlePushState, ChatTypeOK
  <2>2. NoReplyIn(letters'[u])
    BY <1>4, <2>1, WithinEmpty DEF NoReplyIn
  <2>3. \A v \in Session \ {u} : BoxStays(v)
    BY <2>1, BoxSame DEF CallsOK
  <2> QED BY <1>4, <1>5, <1>6, <2>2, <2>3, EndKeepsCalls
<1>8. CASE TellClient(u)
  <2>1. /\ letters'[u] = Tail(letters[u]) /\ letters[u] # <<>>
        /\ \A v \in Session \ {u} : letters'[v] = letters[v]
    BY <1>8 DEF TellClient, TakeLetter, ChatTypeOK
  <2>2. NoReplyIn(letters'[u])
    BY <1>2, <1>4, <2>1, TakenBox DEF BoxStays
  <2>3. \A v \in Session \ {u} : BoxStays(v)
    BY <2>1, BoxSame DEF CallsOK
  <2> QED BY <1>4, <1>5, <1>6, <2>2, <2>3, EndKeepsCalls
<1>9. CASE HandleAfterJoin(u)
  <2>1. NoReplyIn(letters'[u])
    BY <1>2, <1>4, <1>9, AfterJoinOwn, TakenBox DEF BoxStays
  <2>2. ASSUME NEW v \in Session \ {u} PROVE BoxStays(v)
    <3>1. /\ letters'[v] \in {letters[v], letters[v] \o JoinedIn(u, v)}
          /\ letters[v] \in Seq(ChatLetter) /\ JoinedIn(u, v) \in Seq(ChatLetter)
          /\ \A l \in Within(JoinedIn(u, v)) :
                l.kind = "user joined" /\ l.who = {u} /\ l.room \in channels[u]
      BY <1>9, AfterJoinLetters
    <3>2. CallOK(v) /\ Ordered(letters[v])
      BY DEF CallsOK, CallOK
    <3>3. \A l \in Within(JoinedIn(u, v)) : l.kind \notin {"reply", "state"}
      BY <3>1
    <3>4. Ordered(letters[v] \o JoinedIn(u, v))
      BY <3>1, <3>2, <3>3, OrderedConcat
    <3>7. Within(letters[v] \o JoinedIn(u, v)) = Within(letters[v]) \cup Within(JoinedIn(u, v))
      <4>1. letters[v] \in Seq(ChatLetter) /\ JoinedIn(u, v) \in Seq(ChatLetter)
        BY <3>1
      <4> QED BY ONLY <4>1, WithinConcat
    <3>5. CASE letters'[v] = letters[v]
      BY <3>2, <3>5, BoxSame
    <3>6. CASE letters'[v] = letters[v] \o JoinedIn(u, v)
      BY <3>3, <3>4, <3>6, <3>7 DEF BoxStays, NoReplyIn
    <3> QED BY <3>1, <3>5, <3>6
  <2> QED BY <1>4, <1>5, <1>6, <2>1, <2>2, EndKeepsCalls
<1> QED BY <1>7, <1>8, <1>9

-----------------------------------------------------------------------------
LEMMA QueueTaken ==
    ASSUME NEW S, NEW q \in Seq(S), q # <<>>, NEW u, QueueOK(q, u)
    PROVE  QueueOK(Tail(q), u) /\ Within(Tail(q)) \subseteq Within(q)
BY OnceTaken, WithinTaken DEF QueueOK

LEMMA DeltaTyped ==
    ASSUME NEW r \in Room, NEW u \in Session
    PROVE  Delta(r) \in PubSubRequest /\ Delta(r).kind = "broadcast" /\ Delta(r).room = r
<1>1. (CHOOSE v \in Session : TRUE) \in Session
  OBVIOUS
<1> QED BY <1>1 DEF Delta, PubSubRequest

\* What the Presence server does to the queues.
PresenceTakes(h) ==
    /\ h \in PresenceRequest /\ presenceQueue # <<>> /\ h = Head(presenceQueue)
    /\ presenceQueue' = Tail(presenceQueue)
    /\ pubsubQueue' = pubsubQueue \/ pubsubQueue' = Append(pubsubQueue, Delta(h.room))
    /\ Answer(h, IF h.kind = "list" THEN tracked[h.room] ELSE {})
    /\ tracked' = [tracked EXCEPT ![h.room] = IF h.kind = "track" THEN @ \cup {h.user}
                                            ELSE IF h.kind = "untrack" THEN @ \ {h.user} ELSE @]
    /\ h.kind = "track" \/ (h.kind = "untrack" /\ h.user \in tracked[h.room]) =>
          pubsubQueue' = Append(pubsubQueue, Delta(h.room))

LEMMA PresenceTakesOne ==
    ASSUME ChatTypeOK, PresenceServes
    PROVE  /\ \E h : PresenceTakes(h)
           /\ UNCHANGED <<watched, online, doing, channels, group, timers, subscribed, users, asking, joins,
                          leaves, timeouts>>
<1>1. presenceQueue \in Seq(PresenceRequest) /\ presenceQueue # <<>>
  BY DEF ChatTypeOK, PresenceServes
<1>2. Head(presenceQueue) \in PresenceRequest
  BY <1>1
<1> QED BY <1>1, <1>2 DEF PresenceServes, PresenceTakes

ReplyTo(h, who) == [kind |-> "reply", room |-> h.room, who |-> who, call |-> h.call]

LEMMA Answered ==
    ASSUME ChatTypeOK, NEW h, h.room \in Room, h.user \in Session, h.call \in Nat,
           NEW who \in SUBSET Session,
           Answer(h, who)
    PROVE  /\ \A v \in Session \ {h.user} : letters'[v] = letters[v]
           /\ letters'[h.user] \in {letters[h.user], Append(letters[h.user], ReplyTo(h, who))}
           /\ h.user \in online => letters'[h.user] = Append(letters[h.user], ReplyTo(h, who))
           /\ ReplyTo(h, who) \in ChatLetter /\ letters[h.user] \in Seq(ChatLetter)
BY DEF Answer, ChatTypeOK, ReplyTo, ChatLetter

\* Who had its request served has a reply, at most, and no request.
LEMMA ServedOK ==
    ASSUME ChatTypeOK, NEW u \in Session, doing'[u] = doing[u], doing[u].step # "none",
           NoReplyIn(letters[u]),
           NEW l \in ChatLetter, letters'[u] \in {letters[u], Append(letters[u], l)},
           Quiet(presenceQueue', u), Quiet(pubsubQueue', u)
    PROVE  CallOK(u)'
<1>1. letters[u] \in Seq(ChatLetter)
  BY DEF ChatTypeOK
<1>2. Ordered(letters[u]) /\ Ordered(Append(letters[u], l))
  BY <1>1, NoReplyOrdered, OrderedAppended
<1>3. QueueOK(presenceQueue, u)' /\ QueueOK(pubsubQueue, u)'
  BY QuietOnce DEF QueueOK, Quiet
<1>4. \A q \in Within(presenceQueue') : ~(q.kind = "untrack" /\ q.user = u)
  BY DEF Quiet, Asks
<1> QED BY <1>2, <1>3, <1>4 DEF CallOK

LEMMA KindsOf ==
    ASSUME ChatTypeOK
    PROVE  /\ \A q \in Within(presenceQueue) : q \in PresenceRequest /\ q.kind \in {"track", "untrack", "list"}
           /\ \A q \in Within(pubsubQueue) : q \in PubSubRequest /\ q.kind \in {"subscribe", "unsubscribe", "broadcast"}
<1>1. \A q \in Within(presenceQueue) : q \in PresenceRequest
  BY DEF ChatTypeOK, Within
<1>2. \A q \in Within(pubsubQueue) : q \in PubSubRequest
  BY DEF ChatTypeOK, Within
<1> QED BY <1>1, <1>2 DEF PresenceRequest, PubSubRequest

LEMMA PresenceCalls ==
    ASSUME ChatTypeOK, CallsOK, PresenceServes
    PROVE  CallsOK'
<1>1. PICK h : PresenceTakes(h)
  BY PresenceTakesOne
<1>2. doing' = doing
  BY PresenceTakesOne
<1>3. presenceQueue \in Seq(PresenceRequest) /\ pubsubQueue \in Seq(PubSubRequest) /\ presenceQueue # <<>>
      /\ tracked \in [Room -> SUBSET Session]
  BY <1>1 DEF ChatTypeOK, PresenceTakes
<1>4. h.room \in Room /\ h.user \in Session /\ h.call \in Nat /\ h.kind \in {"track", "untrack", "list"}
  BY <1>1 DEF PresenceTakes, PresenceRequest
<1>5. Delta(h.room) \in PubSubRequest /\ \A v \in Session : ~Asks(Delta(h.room), v)
  BY <1>4, DeltaTyped DEF Asks
<1>6. Within(presenceQueue) = Within(Tail(presenceQueue)) \cup {h}
  BY <1>1, <1>3, WithinTaken DEF PresenceTakes
<1>7. PICK who \in SUBSET Session : Answer(h, who)
  BY <1>1, <1>3, <1>4 DEF PresenceTakes
<1>8. /\ \A v \in Session \ {h.user} : letters'[v] = letters[v]
      /\ letters'[h.user] \in {letters[h.user], Append(letters[h.user], ReplyTo(h, who))}
      /\ ReplyTo(h, who) \in ChatLetter
  BY <1>4, <1>7, Answered
<1>9. ASSUME NEW v \in Session \ {h.user} PROVE CallOK(v)'
  <2>1. CallOK(v) /\ letters'[v] = letters[v] /\ doing'[v] = doing[v]
    BY <1>2, <1>8 DEF CallsOK
  <2>2. QueueOK(presenceQueue', v)
    BY <1>1, <1>3, <2>1, QueueTaken DEF CallOK, PresenceTakes
  <2>3. QueueOK(pubsubQueue', v)
    BY <1>1, <1>3, <1>5, <2>1, QueueKept DEF CallOK, PresenceTakes
  <2>4. QueueOK(presenceQueue, v)' /\ QueueOK(pubsubQueue, v)'
    BY <2>1, <2>2, <2>3 DEF QueueOK
  <2>5. \A q \in Within(presenceQueue') : q.kind = "untrack" /\ q.user = v => v \in tracked'[q.room]
    <3>1. \A q \in Within(presenceQueue') : q \in Within(presenceQueue) /\ q.room \in Room
      BY <1>1, <1>6, KindsOf DEF PresenceTakes, PresenceRequest
    <3>2. \A r \in Room : v \in tracked[r] => v \in tracked'[r]
      BY <1>1, <1>3, <1>4 DEF PresenceTakes
    <3> QED BY <2>1, <3>1, <3>2 DEF CallOK
  <2> QED BY <2>1, <2>4, <2>5 DEF CallOK
<1>10. CallOK(h.user)'
  <2>1. CallOK(h.user) /\ Asks(h, h.user) /\ h \in Within(presenceQueue)
    BY <1>4, <1>6 DEF CallsOK, Asks
  <2>2. doing[h.user].step = h.kind /\ NoReplyIn(letters[h.user])
    BY <2>1 DEF CallOK, QueueOK
  <2>3. Quiet(presenceQueue', h.user)
    BY <1>1, <1>3, <2>1, OnceTaken DEF CallOK, QueueOK, PresenceTakes
  <2>4. Quiet(pubsubQueue, h.user)
    BY <1>4, <2>1, <2>2, KindsOf DEF Quiet, CallOK, QueueOK, Asks
  <2>5. Quiet(pubsubQueue', h.user)
    BY <1>1, <1>3, <1>4, <1>5, <2>4, QuietAppended DEF PresenceTakes
  <2> QED BY <1>2, <1>4, <1>8, <2>2, <2>3, <2>5, ServedOK
<1> QED BY <1>9, <1>10 DEF CallsOK

PubSubTakes(h) ==
    /\ h \in PubSubRequest /\ pubsubQueue # <<>> /\ h = Head(pubsubQueue)
    /\ pubsubQueue' = Tail(pubsubQueue)
    /\ IF h.kind = "broadcast"
       THEN PostTo(subscribed[h.room], Letter("delta", h.room, {})) ELSE Answer(h, {})

LEMMA PubSubTakesOne ==
    ASSUME ChatTypeOK, PubSubServes
    PROVE  /\ \E h : PubSubTakes(h)
           /\ UNCHANGED <<watched, online, doing, channels, group, timers, presenceQueue, tracked, users,
                          asking, joins, leaves, timeouts>>
<1>1. pubsubQueue \in Seq(PubSubRequest) /\ pubsubQueue # <<>>
  BY DEF ChatTypeOK, PubSubServes
<1>2. Head(pubsubQueue) \in PubSubRequest
  BY <1>1
<1> QED BY <1>1, <1>2 DEF PubSubServes, PubSubTakes

LEMMA PubSubCalls ==
    ASSUME ChatTypeOK, CallsOK, PubSubServes
    PROVE  CallsOK'
<1>1. PICK h : PubSubTakes(h)
  BY PubSubTakesOne
<1>2. doing' = doing /\ tracked' = tracked /\ presenceQueue' = presenceQueue
  BY PubSubTakesOne
<1>3. pubsubQueue \in Seq(PubSubRequest) /\ pubsubQueue # <<>>
  BY <1>1 DEF ChatTypeOK, PubSubTakes
<1>4. h.room \in Room /\ h.user \in Session /\ h.call \in Nat
      /\ h.kind \in {"subscribe", "unsubscribe", "broadcast"}
  BY <1>1 DEF PubSubTakes, PubSubRequest
<1>6. Within(pubsubQueue) = Within(Tail(pubsubQueue)) \cup {h}
  BY <1>1, <1>3, WithinTaken DEF PubSubTakes
<1>9. ASSUME NEW v \in Session, BoxStays(v) PROVE CallOK(v)'
  <2>1. CallOK(v) /\ doing'[v] = doing[v]
    BY <1>2 DEF CallsOK
  <2>2. QueueOK(pubsubQueue', v)
    BY <1>1, <1>3, <2>1, QueueTaken DEF CallOK, PubSubTakes
  <2>3. QueueOK(presenceQueue', v)
    BY <1>2, <2>1 DEF CallOK
  <2>4. QueueOK(presenceQueue, v)' /\ QueueOK(pubsubQueue, v)'
    BY <1>9, <2>1, <2>2, <2>3 DEF QueueOK, BoxStays
  <2>5. \A q \in Within(presenceQueue') : q.kind = "untrack" /\ q.user = v => v \in tracked'[q.room]
    BY <1>2, <2>1 DEF CallOK
  <2> QED BY <1>9, <2>1, <2>4, <2>5 DEF CallOK, BoxStays
<1>10. CASE h.kind = "broadcast"
  <2>1. PostTo(subscribed[h.room], Letter("delta", h.room, {}))
    BY <1>1, <1>10 DEF PubSubTakes
  <2>2. Letter("delta", h.room, {}) \in ChatLetter /\ Letter("delta", h.room, {}).kind \notin {"reply", "state"}
    BY <1>4 DEF Letter, ChatLetter
  <2>3. \A v \in Session : BoxStays(v)
    BY <2>1, <2>2, PostBox DEF CallsOK
  <2> QED BY <1>9, <2>3 DEF CallsOK
<1>11. CASE h.kind # "broadcast"
  <2>1. Answer(h, {}) /\ {} \in SUBSET Session
    BY <1>1, <1>11 DEF PubSubTakes
  <2>2. /\ \A v \in Session \ {h.user} : letters'[v] = letters[v]
        /\ letters'[h.user] \in {letters[h.user], Append(letters[h.user], ReplyTo(h, {}))}
        /\ ReplyTo(h, {}) \in ChatLetter
    BY <1>4, <2>1, Answered
  <2>3. \A v \in Session \ {h.user} : BoxStays(v)
    BY <2>2, BoxSame DEF CallsOK
  <2>4. CallOK(h.user) /\ Asks(h, h.user) /\ h \in Within(pubsubQueue)
    BY <1>4, <1>6, <1>11 DEF CallsOK, Asks
  <2>5. doing[h.user].step = h.kind /\ NoReplyIn(letters[h.user])
    BY <2>4 DEF CallOK, QueueOK
  <2>6. Quiet(pubsubQueue', h.user)
    BY <1>1, <1>3, <2>4, OnceTaken DEF CallOK, QueueOK, PubSubTakes
  <2>7. Quiet(presenceQueue', h.user)
    BY <1>2, <1>4, <2>4, <2>5, KindsOf DEF Quiet, CallOK, QueueOK, Asks
  <2>8. CallOK(h.user)'
    BY <1>2, <1>4, <2>2, <2>5, <2>6, <2>7, ServedOK
  <2> QED BY <1>9, <2>3, <2>8 DEF CallsOK
<1> QED BY <1>10, <1>11

LEMMA CallsStayOK == ChatTypeOK /\ AllOK /\ watched # {} /\ CallsOK /\ [ChatNext]_chatVars => CallsOK'
<1> SUFFICES ASSUME ChatTypeOK, AllOK, watched # {}, CallsOK, [ChatNext]_chatVars PROVE CallsOK'
  OBVIOUS
<1>1. CASE ChatNext
  BY <1>1, RoomStepCalls, ReturnStepCalls, OwnStepCalls, PresenceCalls, PubSubCalls DEF ChatNext
<1>2. CASE UNCHANGED chatVars
  <2>1. UNCHANGED <<doing, letters, presenceQueue, pubsubQueue, tracked>>
    BY <1>2 DEF chatVars
  <2> QED BY <2>1 DEF CallsOK, CallOK, QueueOK
<1> QED BY <1>1, <1>2

LEMMA CallsStartOK == ASSUME ChatInit PROVE CallsOK
<1>1. presenceQueue = <<>> /\ pubsubQueue = <<>> /\ \A u \in Session : letters[u] = <<>>
  BY DEF ChatInit
<1>2. \A u \in Session : NoReplyIn(letters[u]) /\ Ordered(letters[u])
  BY <1>1, WithinEmpty, NoReplyOrdered DEF NoReplyIn
<1>3. \A u \in Session : QueueOK(presenceQueue, u) /\ QueueOK(pubsubQueue, u)
  BY <1>1, WithinEmpty, QuietOnce DEF Quiet
<1> QED BY <1>1, <1>2, <1>3, WithinEmpty DEF CallsOK, CallOK

-----------------------------------------------------------------------------
(***************************************************************************)
(* What a client that is followed lists.  Of a room it is in and of a user:*)
(* either something will make its session list the room again (a change    *)
(* of that user not yet handled, a broadcast, a delta, a timer, a push to  *)
(* come), or what it lists, with what it will still be told, is right.     *)
(***************************************************************************)
Status(v, r) == r \in channels[v] \/ Entering(v, r)

Lists(u, r) == doing[u].step = "list" /\ doing[u].room = r
Pushes(u, r) == doing[u].op = "push state" /\ Lists(u, r)

\* What will make u list the room again, and so what v has become.
Changing(v, r) == \E q \in Within(presenceQueue) : q.kind \in {"track", "untrack"} /\ q.user = v /\ q.room = r
Broadcasts(r) == \E q \in Within(pubsubQueue) : q.kind = "broadcast" /\ q.room = r
Prompted(u) == \E l \in Within(letters[u]) : l.kind \in {"after join", "delta"}
ToPush(u, r) == doing[u].op = "push state" /\ r \in doing[u].todo /\ ~Lists(u, r)
Listing(u, r) == \E q \in Within(presenceQueue) : q.kind = "list" /\ q.user = u /\ q.room = r

Coming(u, r, v) ==
    \/ Changing(v, r) \/ Broadcasts(r) \/ Prompted(u) \/ timers[u] > 0
    \/ ToPush(u, r) \/ (Pushes(u, r) /\ Listing(u, r))

Sound(u, r, v) ==
    /\ Lists(u, r) => \A l \in Within(letters[u]) : l.kind = "reply" => (v \in l.who <=> Status(v, r))
    /\ Pushes(u, r) \/ Cleaned(letters[u], users[u][r], Status(v, r), r, v)

Informed(u, r, v) == Coming(u, r, v) \/ Sound(u, r, v)
ClientsOK == \A u \in watched : \A r \in channels[u] : \A v \in Session : Informed(u, r, v)

-----------------------------------------------------------------------------
SessionStep(w) ==
    \/ \E q \in Room : \/ EnterRoom(w, q) \/ QuitRoom(w, q) \/ TerminateChannel(w, q)
                       \/ PushPresenceState(w, q) \/ ListUsers(w, q)
    \/ SubscribePresence(w) \/ Joined(w) \/ UnsubscribePresence(w) \/ LeftGroup(w)
    \/ Ended(w)
    \/ HandleAfterJoin(w) \/ HandlePushState(w) \/ StatePushed(w) \/ TellClient(w) \/ UsersListed(w)

QueuesGrow ==
    /\ Within(presenceQueue) \subseteq Within(presenceQueue')
    /\ Within(pubsubQueue) \subseteq Within(pubsubQueue')

BoxFollows(u, r, v) ==
    /\ Prompted(u) => Prompted(u)'
    /\ Cleaned(letters[u], users[u][r], Status(v, r), r, v) =>
          Cleaned(letters'[u], users'[u][r], Status(v, r), r, v)
    /\ \A l \in Within(letters'[u]) : l.kind = "reply" => l \in Within(letters[u])

LEMMA BoxIdle ==
    ASSUME NEW u, NEW r, NEW v, letters'[u] = letters[u], users'[u] = users[u]
    PROVE  BoxFollows(u, r, v)
BY DEF BoxFollows, Prompted

LEMMA ComingGrows ==
    ASSUME QueuesGrow, NEW u, NEW r, NEW v
    PROVE  /\ Changing(v, r) => Changing(v, r)'
           /\ Broadcasts(r) => Broadcasts(r)'
           /\ Listing(u, r) => Listing(u, r)'
BY DEF QueuesGrow, Changing, Broadcasts, Listing

LEMMA InformedStays ==
    ASSUME NEW u \in Session, NEW r \in Room, NEW v \in Session, Informed(u, r, v), QueuesGrow,
           doing'[u] = doing[u], timers'[u] = timers[u], Status(v, r)' <=> Status(v, r),
           BoxFollows(u, r, v)
    PROVE  Informed(u, r, v)'
<1>1. /\ Lists(u, r)' <=> Lists(u, r)
      /\ Pushes(u, r)' <=> Pushes(u, r)
      /\ ToPush(u, r)' <=> ToPush(u, r)
  BY DEF Lists, Pushes, ToPush
<1>2. CASE Coming(u, r, v)
  <2>1. Coming(u, r, v)'
    BY <1>1, <1>2, ComingGrows DEF Coming, BoxFollows
  <2> QED BY <2>1 DEF Informed
<1>3. CASE Sound(u, r, v)
  <2>1. Lists(u, r)' =>
           \A l \in Within(letters'[u]) : l.kind = "reply" => (v \in l.who <=> Status(v, r)')
    BY <1>1, <1>3 DEF Sound, BoxFollows
  <2>2. Pushes(u, r)' \/ Cleaned(letters'[u], users'[u][r], Status(v, r), r, v)
    BY <1>1, <1>3 DEF Sound, BoxFollows
  <2>3. Pushes(u, r)' \/ Cleaned(letters'[u], users'[u][r], Status(v, r)', r, v)
    BY <2>2 DEF Cleaned, Right, Fixes
  <2>4. Sound(u, r, v)'
    BY <2>1, <2>3 DEF Sound
  <2> QED BY <2>4 DEF Informed
<1> QED BY <1>2, <1>3 DEF Informed

LEMMA InformedMoves ==
    ASSUME NEW u \in Session, NEW r \in Room, NEW v \in Session, Informed(u, r, v), QueuesGrow,
           timers'[u] = timers[u], Status(v, r)' <=> Status(v, r), BoxFollows(u, r, v),
           ~Pushes(u, r), ToPush(u, r) => ToPush(u, r)', Lists(u, r)' => NoReplyIn(letters'[u])
    PROVE  Informed(u, r, v)'
<1>1. CASE Coming(u, r, v)
  <2>1. Coming(u, r, v)'
    BY <1>1, ComingGrows DEF Coming, BoxFollows
  <2> QED BY <2>1 DEF Informed
<1>2. CASE Sound(u, r, v)
  <2>1. Cleaned(letters'[u], users'[u][r], Status(v, r), r, v)
    BY <1>2 DEF Sound, BoxFollows
  <2>2. Cleaned(letters'[u], users'[u][r], Status(v, r)', r, v)
    BY <2>1 DEF Cleaned, Right, Fixes
  <2>3. Sound(u, r, v)'
    BY <2>2 DEF Sound, NoReplyIn
  <2> QED BY <2>3 DEF Informed
<1> QED BY <1>1, <1>2 DEF Informed

LEMMA CallGrows ==
    ASSUME QueuesTyped, NEW u \in Session, NEW was, NEW step \in Step \ {"none"}, NEW r \in Room,
           NEW ref \in Nat,
           CallFrom(u, was, step, r, ref)
    PROVE  /\ QueuesGrow
           /\ step \in {"track", "untrack"} => Changing(u, r)'
           /\ step = "list" => Listing(u, r)'
<1> DEFINE request == [kind |-> step, room |-> r, user |-> u, call |-> ref]
<1>1. request.kind = step /\ request.room = r /\ request.user = u
  OBVIOUS
<1>2. request \in PresenceRequest \/ step \in {"subscribe", "unsubscribe"}
  BY DEF PresenceRequest, Step
<1>3. request \in PubSubRequest \/ step \notin {"subscribe", "unsubscribe"}
  BY DEF PubSubRequest
<1>4. IF step \in {"subscribe", "unsubscribe"}
      THEN pubsubQueue' = Append(pubsubQueue, request) /\ presenceQueue' = presenceQueue
      ELSE presenceQueue' = Append(presenceQueue, request) /\ pubsubQueue' = pubsubQueue
  BY DEF CallFrom
<1> HIDE DEF request
<1>5. presenceQueue \in Seq(PresenceRequest) /\ pubsubQueue \in Seq(PubSubRequest)
  BY DEF QueuesTyped
<1>6. CASE step \in {"subscribe", "unsubscribe"}
  <2>1. Within(pubsubQueue') = Within(pubsubQueue) \cup {request}
    BY <1>3, <1>4, <1>5, <1>6, WithinAppended
  <2> QED BY <2>1, <1>4, <1>6 DEF QueuesGrow
<1>7. CASE step \notin {"subscribe", "unsubscribe"}
  <2>1. Within(presenceQueue') = Within(presenceQueue) \cup {request}
    BY <1>2, <1>4, <1>5, <1>7, WithinAppended
  <2>2. request \in Within(presenceQueue')
    BY <2>1
  <2>3. QueuesGrow
    BY <2>1, <1>4, <1>7 DEF QueuesGrow
  <2> QED BY <2>2, <2>3, <1>1 DEF Changing, Listing
<1> QED BY <1>6, <1>7

LEMMA NothingGrows == NothingAsked => QueuesGrow
BY DEF NothingAsked, QueuesGrow

\* What a step of w does that is not about its place: its call, if it makes one.
Calls(w) ==
    \E was \in ChatDoing, step \in Step \ {"none"}, q \in Room, ref \in Nat : CallFrom(w, was, step, q, ref)

LEMMA StepCalls ==
    ASSUME ChatTypeOK, NEW w \in Session, SessionStep(w)
    PROVE  /\ NothingAsked \/ Calls(w)
           /\ UNCHANGED <<watched, tracked, subscribed>>
<1>1. timeouts \in Nat /\ doing[w] \in ChatDoing
  BY TypesAre DEF RestTyped, DoingTyped
<1>2. ASSUME NEW op \in Op PROVE [AtRest EXCEPT !.op = op] \in ChatDoing
  BY AtRestTyped DEF Doings
<1>3. {"track", "subscribe", "untrack", "unsubscribe", "list"} \subseteq Step \ {"none"}
  BY DEF Step
<1>4. ASSUME NEW q \in Room, EnterRoom(w, q) PROVE Calls(w)
  BY <1>1, <1>2, <1>3, <1>4 DEF Calls, EnterRoom, Op
<1>5. ASSUME NEW q \in Room, QuitRoom(w, q) \/ TerminateChannel(w, q) PROVE Calls(w)
  BY <1>1, <1>2, <1>3, <1>5 DEF Calls, QuitRoom, TerminateChannel, Terminating, Op
<1>6. ASSUME NEW q \in Room, PushPresenceState(w, q) PROVE Calls(w)
  BY <1>1, <1>3, <1>6 DEF Calls, PushPresenceState
<1>7. ASSUME NEW q \in Room, ListUsers(w, q) PROVE Calls(w)
  BY <1>1, <1>2, <1>3, <1>7 DEF Calls, ListUsers, Op
<1>8. ASSUME SubscribePresence(w) PROVE Calls(w)
  <2>1. PICK back \in Returns(w, "track") :
           CallFrom(w, doing[w], "subscribe", doing[w].room, timeouts + back.late)
    BY <1>8 DEF SubscribePresence
  <2>2. doing[w].step = "track" /\ timeouts + back.late \in Nat
    BY <1>1, ReturnTyped
  <2>3. doing[w].room \in Room
    BY <2>2, OwnRoom
  <2> QED BY <1>1, <1>3, <2>1, <2>2, <2>3 DEF Calls
<1>9. ASSUME UnsubscribePresence(w) PROVE Calls(w)
  <2>1. PICK back \in Returns(w, "untrack") :
           CallFrom(w, doing[w], "unsubscribe", doing[w].room, timeouts + back.late)
    BY <1>9 DEF UnsubscribePresence, ThenUnsubscribe
  <2>2. doing[w].step = "untrack" /\ timeouts + back.late \in Nat
    BY <1>1, ReturnTyped
  <2>3. doing[w].room \in Room
    BY <2>2, OwnRoom
  <2> QED BY <1>1, <1>3, <2>1, <2>2, <2>3 DEF Calls
<1>10. ASSUME \/ Joined(w) \/ LeftGroup(w) \/ Ended(w) \/ HandleAfterJoin(w) \/ HandlePushState(w)
             \/ StatePushed(w) \/ TellClient(w) \/ UsersListed(w)
       PROVE NothingAsked
  BY <1>10 DEF Joined, LeftGroup, Ended, HandleAfterJoin, HandlePushState, StatePushed, TellClient,
         UsersListed
<1>11. UNCHANGED <<watched, tracked, subscribed>>
  BY DEF SessionStep, EnterRoom, QuitRoom, TerminateChannel, Terminating, PushPresenceState, ListUsers,
         SubscribePresence,
         UnsubscribePresence, Joined, LeftGroup, Ended, HandleAfterJoin, HandlePushState, StatePushed,
         TellClient, UsersListed
<1> QED BY <1>4, <1>5, <1>6, <1>7, <1>8, <1>9, <1>10, <1>11 DEF SessionStep

LEMMA StepGrows ==
    ASSUME ChatTypeOK, NEW w \in Session, SessionStep(w)
    PROVE  QueuesGrow
<1>1. NothingAsked \/ Calls(w)
  BY StepCalls
<1>2. QueuesTyped
  BY TypesAre
<1> QED BY <1>1, <1>2, NothingGrows, CallGrows DEF Calls

\* Nothing of another session changes, but its letters.
LEMMA OthersStand ==
    ASSUME ChatTypeOK, NEW w \in Session, SessionStep(w), NEW v \in Session, v # w
    PROVE  /\ doing'[v] = doing[v] /\ channels'[v] = channels[v] /\ timers'[v] = timers[v]
           /\ users'[v] = users[v]
<1>1. DoingTyped /\ timers \in [Session -> Nat] /\ channels \in [Session -> SUBSET Room]
      /\ users \in [Session -> [Room -> SUBSET Session]]
  BY TypesAre DEF RestTyped
<1>2. \E what : Does(w, what) \/ doing' = doing
  BY DEF SessionStep, EnterRoom, QuitRoom, TerminateChannel, Terminating, PushPresenceState, ListUsers,
         SubscribePresence,
         UnsubscribePresence, ThenUnsubscribe, Joined, LeftGroup, Ended, HandleAfterJoin,
         HandlePushState, StatePushed,
         TellClient, UsersListed, CallFrom
<1>3. doing'[v] = doing[v]
  BY <1>1, <1>2, DoesDoing
<1>4. channels'[v] = channels[v]
  BY <1>1 DEF SessionStep, EnterRoom, QuitRoom, TerminateChannel, Terminating, PushPresenceState,
         ListUsers, SubscribePresence,
         UnsubscribePresence, Joined, LeftGroup, Ended, HandleAfterJoin, HandlePushState, StatePushed,
         TellClient, UsersListed
<1>5. timers'[v] = timers[v]
  BY <1>1 DEF SessionStep, EnterRoom, QuitRoom, TerminateChannel, Terminating, PushPresenceState,
         ListUsers, SubscribePresence,
         UnsubscribePresence, Joined, LeftGroup, Ended, HandleAfterJoin, HandlePushState, StatePushed,
         TellClient, UsersListed
<1>6. users'[v] = users[v]
  BY <1>1 DEF SessionStep, EnterRoom, QuitRoom, TerminateChannel, Terminating, PushPresenceState,
         ListUsers, SubscribePresence,
         UnsubscribePresence, Joined, LeftGroup, Ended, HandleAfterJoin, HandlePushState, StatePushed,
         TellClient, UsersListed
<1> QED BY <1>3, <1>4, <1>5, <1>6

-----------------------------------------------------------------------------
(***************************************************************************)
(* A step of a session changes its own status in a room only with the call *)
(* that tells Presence of it.                                              *)
(***************************************************************************)
LEMMA OwnStatus ==
    ASSUME ChatTypeOK, AllOK, NEW w \in Session, SessionStep(w), NEW r \in Room
    PROVE  (Status(w, r)' <=> Status(w, r)) \/ Changing(w, r)'
<1>1. /\ timeouts \in Nat /\ doing[w] \in ChatDoing /\ DoingTyped /\ QueuesTyped
      /\ channels \in [Session -> SUBSET Room]
  BY TypesAre DEF RestTyped, DoingTyped
<1>2. DoingOK(w)
  BY DEF AllOK, SessionOK
<1>3. {"track", "subscribe", "untrack", "unsubscribe", "list"} \subseteq Step \ {"none"}
  BY DEF Step
<1>4. ASSUME NEW q \in Room, EnterRoom(w, q)
      PROVE  (Status(w, r)' <=> Status(w, r)) \/ Changing(w, r)'
  <2>1. [AtRest EXCEPT !.op = "join"] \in ChatDoing
    BY AtRestTyped DEF Doings, Op
  <2>2. CallFrom(w, [AtRest EXCEPT !.op = "join"], "track", q, timeouts) /\ channels' = channels /\ IsAtRest(w)
    BY <1>4 DEF EnterRoom
  <2>3. Changing(w, q)' /\ doing'[w].room = q
    BY <1>1, <1>3, <2>1, <2>2, CallGrows, CallDoing
  <2>4. ~Entering(w, r)
    BY <1>2, <2>2, RestIsRest
  <2> QED BY <2>2, <2>3, <2>4 DEF Status, Entering
<1>5. ASSUME NEW q \in Room, QuitRoom(w, q) \/ TerminateChannel(w, q)
      PROVE  (Status(w, r)' <=> Status(w, r)) \/ Changing(w, r)'
  <2>1. PICK op \in {"leave", "end"} : Terminating(w, op, q)
    BY <1>5 DEF QuitRoom, TerminateChannel
  <2>2. [AtRest EXCEPT !.op = op] \in ChatDoing
    BY AtRestTyped DEF Doings, Op
  <2>3. [AtRest EXCEPT !.op = op].op = op
    BY DEF AtRest
  <2>4. /\ CallFrom(w, [AtRest EXCEPT !.op = op], "untrack", q, timeouts)
        /\ channels' = [channels EXCEPT ![w] = channels[w] \ {q}]
    BY <2>1 DEF Terminating
  <2>5. Changing(w, q)' /\ doing'[w].op = op
    BY <1>1, <1>3, <2>2, <2>3, <2>4, CallGrows, CallDoing
  <2>6. ~Entering(w, r)
    BY <1>2, <1>5, RestIsRest DEF QuitRoom, TerminateChannel
  <2>7. channels'[w] = channels[w] \ {q}
    BY <1>1, <2>4
  <2> QED BY <2>5, <2>6, <2>7 DEF Status, Entering
<1>6. ASSUME NEW q \in Room, PushPresenceState(w, q) \/ ListUsers(w, q)
      PROVE  Status(w, r)' <=> Status(w, r)
  <2>1. PICK was \in ChatDoing : was.op \in {"push state", "list users"} /\ CallFrom(w, was, "list", q, timeouts)
    <3>1. CASE PushPresenceState(w, q)
      BY <1>1, <3>1 DEF PushPresenceState
    <3>2. CASE ListUsers(w, q)
      <4>1. [AtRest EXCEPT !.op = "list users"] \in ChatDoing
        BY AtRestTyped DEF Doings, Op
      <4>2. [AtRest EXCEPT !.op = "list users"].op = "list users"
        BY DEF AtRest
      <4> QED BY <3>2, <4>1, <4>2 DEF ListUsers
    <3> QED BY <1>6, <3>1, <3>2
  <2>2. channels' = channels
    BY <1>6 DEF PushPresenceState, ListUsers
  <2>3. ~Entering(w, r)
    BY <1>2, <1>6, RestIsRest DEF PushPresenceState, ListUsers, Entering
  <2>4. doing'[w].op \in {"push state", "list users"}
    BY <1>1, <2>1, CallDoing
  <2> QED BY <2>2, <2>3, <2>4 DEF Status, Entering
<1>7. ASSUME SubscribePresence(w) \/ UnsubscribePresence(w)
      PROVE  Status(w, r)' <=> Status(w, r)
  <2>1. \E step, ref : CallFrom(w, doing[w], step, doing[w].room, ref)
    <3>1. CASE SubscribePresence(w)
      BY <3>1 DEF SubscribePresence
    <3>2. CASE UnsubscribePresence(w)
      BY <3>2 DEF UnsubscribePresence, ThenUnsubscribe
    <3> QED BY <1>7, <3>1, <3>2
  <2>2. doing'[w].op = doing[w].op /\ doing'[w].room = doing[w].room
    BY <1>1, <2>1, CallDoing
  <2>3. channels' = channels
    BY <1>7 DEF SubscribePresence, UnsubscribePresence
  <2> QED BY <2>2, <2>3 DEF Status, Entering
<1>8. ASSUME Joined(w)
      PROVE  Status(w, r)' <=> Status(w, r)
  <2>1. PICK back \in Returns(w, "subscribe") :
           channels' = [channels EXCEPT ![w] = @ \cup {doing[w].room}] /\ Does(w, AtRest)
    BY <1>8 DEF Joined
  <2>2. doing[w].step = "subscribe"
    BY ReturnTyped
  <2>3. doing[w].op = "join"
    BY <2>2, ReturnsTo
  <2>4. doing'[w] = AtRest /\ channels'[w] = channels[w] \cup {doing[w].room}
    BY <1>1, <2>1, DoesDoing
  <2> QED BY <2>3, <2>4, RestFits DEF Status, Entering
<1>9. ASSUME LeftGroup(w)
      PROVE  Status(w, r)' <=> Status(w, r)
  <2>1. PICK back \in Returns(w, "unsubscribe") :
           /\ channels' = channels
           /\ Does(w, IF doing[w].op = "end" THEN [AtRest EXCEPT !.op = "end"] ELSE AtRest)
    BY <1>9 DEF LeftGroup
  <2>2. doing[w].step = "unsubscribe"
    BY ReturnTyped
  <2>3. doing[w].op # "join"
    BY <2>2, ReturnsTo
  <2>4. doing'[w] \in {AtRest, [AtRest EXCEPT !.op = "end"]}
    BY <1>1, <2>1, DoesDoing
  <2>5. doing'[w].op # "join"
    BY <2>4, RestFits
  <2> QED BY <2>1, <2>3, <2>5 DEF Status, Entering
<1>10. ASSUME HandleAfterJoin(w) \/ TellClient(w)
       PROVE  Status(w, r)' <=> Status(w, r)
  BY <1>10 DEF HandleAfterJoin, TellClient, Status, Entering
<1>11. ASSUME Ended(w) \/ HandlePushState(w) \/ StatePushed(w) \/ UsersListed(w)
       PROVE  Status(w, r)' <=> Status(w, r)
  <2>1. channels' = channels
    BY <1>11 DEF Ended, HandlePushState, StatePushed, UsersListed
  <2>2. doing[w].op # "join"
    BY <1>2, <1>11, RestIsRest DEF Ended, HandlePushState, StatePushed, UsersListed
  <2>3. doing'[w].op # "join"
    <3>1. CASE Ended(w) \/ UsersListed(w)
      <4>1. Does(w, AtRest)
        BY <3>1 DEF Ended, UsersListed
      <4> QED BY <1>1, <4>1, DoesDoing, RestFits
    <3>2. CASE HandlePushState(w)
      <4>1. Does(w, IF channels[w] = {} THEN AtRest
                    ELSE [AtRest EXCEPT !.op = "push state", !.todo = channels[w]])
        BY <3>2 DEF HandlePushState
      <4>2. doing'[w] \in {AtRest, [AtRest EXCEPT !.op = "push state", !.todo = channels[w]]}
        BY <1>1, <4>1, DoesDoing
      <4>3. AtRest.op # "join" /\ [AtRest EXCEPT !.op = "push state", !.todo = channels[w]].op # "join"
        BY DEF AtRest
      <4> QED BY <4>2, <4>3
    <3>3. CASE StatePushed(w)
      <4>1. Does(w, NextChannel(w, doing[w].room)) /\ doing[w].op = "push state"
        BY <3>3 DEF StatePushed
      <4>2. doing'[w] = NextChannel(w, doing[w].room)
        BY <1>1, <4>1, DoesDoing
      <4> QED BY <1>1, <4>1, <4>2, RestFits DEF NextChannel, ChatDoing
    <3> QED BY <1>11, <3>1, <3>2, <3>3
  <2> QED BY <2>1, <2>2, <2>3 DEF Status, Entering
<1> QED BY <1>4, <1>5, <1>6, <1>7, <1>8, <1>9, <1>10, <1>11 DEF SessionStep

LEMMA StatusStays ==
    ASSUME ChatTypeOK, AllOK, NEW w \in Session, SessionStep(w), NEW v \in Session, NEW r \in Room
    PROVE  (Status(v, r)' <=> Status(v, r)) \/ Changing(v, r)'
<1>1. CASE v = w
  BY <1>1, OwnStatus
<1>2. CASE v # w
  BY <1>2, OthersStand DEF Status, Entering
<1> QED BY <1>1, <1>2

-----------------------------------------------------------------------------
\* What another session is told is right, or followed by what will be.
LEMMA OthersTold ==
    ASSUME ChatTypeOK, AllOK, NEW w \in Session, SessionStep(w), NEW u \in Session, u # w, NEW r \in Room,
           NEW v \in Session
    PROVE  BoxFollows(u, r, v) \/ Changing(v, r)'
<1>1. users'[u] = users[u] /\ letters[u] \in Seq(ChatLetter) /\ letters \in [Session -> Seq(ChatLetter)]
  BY OthersStand DEF ChatTypeOK
<1>2. CASE letters'[u] = letters[u]
  BY <1>1, <1>2, BoxIdle
<1>3. ASSUME NEW q \in Room, QuitRoom(w, q) \/ TerminateChannel(w, q)
      PROVE  BoxFollows(u, r, v) \/ Changing(v, r)'
  <2>1. PICK op \in {"leave", "end"} : Terminating(w, op, q)
    BY <1>3 DEF QuitRoom, TerminateChannel
  <2>2. PICK l : l = Letter("user left", q, {w})
    OBVIOUS
  <2>3. l \in ChatLetter /\ l.kind = "user left" /\ l.room = q /\ l.who = {w}
    BY <2>2 DEF Letter, ChatLetter
  <2>4. letters'[u] \in {letters[u], Append(letters[u], l)}
    BY <2>1, <2>2 DEF Terminating, PostTo
  <2>5. CASE v = w /\ r = q
    <3>1. CallFrom(w, [AtRest EXCEPT !.op = op], "untrack", q, timeouts)
      BY <2>1 DEF Terminating
    <3>2. QueuesTyped /\ timeouts \in Nat /\ "untrack" \in Step \ {"none"}
      BY TypesAre DEF RestTyped, Step
    <3> QED BY <2>5, <3>1, <3>2, CallGrows
  <2>6. CASE letters'[u] = Append(letters[u], l) /\ ~(v = w /\ r = q)
    <3>1. ~About(l, r, v)
      <4>1. l.kind # "state" /\ (l.room = r => v \notin l.who)
        BY ONLY <2>3, <2>6
      <4> QED BY <4>1 DEF About
    <3>a. letters[u] \in Seq(ChatLetter) /\ l \in ChatLetter
      BY <1>1, <2>3
    <3>b. Within(Append(letters[u], l)) = Within(letters[u]) \cup {l}
      BY ONLY <3>a, WithinAppended
    <3>c. ASSUME Cleaned(letters[u], users[u][r], Status(v, r), r, v)
          PROVE  Cleaned(Append(letters[u], l), users[u][r], Status(v, r), r, v)
      BY ONLY <3>a, <3>1, <3>c, CleanedAppended
    <3> QED BY <1>1, <2>3, <2>6, <3>b, <3>c DEF BoxFollows, Prompted
  <2> QED BY <1>2, <2>4, <2>5, <2>6
<1>4. ASSUME HandleAfterJoin(w)
      PROVE  BoxFollows(u, r, v)
  <2>1. /\ letters'[u] \in {letters[u], letters[u] \o JoinedIn(w, u)}
        /\ JoinedIn(w, u) \in Seq(ChatLetter)
        /\ \A l \in Within(JoinedIn(w, u)) :
              l.kind = "user joined" /\ l.who = {w} /\ l.room \in channels[w]
    BY <1>4, AfterJoinLetters
  <2>2. CASE letters'[u] = letters[u] \o JoinedIn(w, u)
    <3>1. ASSUME NEW l \in Within(JoinedIn(w, u)), About(l, r, v)
          PROVE  Right(l, Status(v, r), v)
      <4>1. l.kind = "user joined" /\ l.who = {w} /\ l.room \in channels[w]
        BY <2>1
      <4>2. l.room = r /\ v \in l.who
        BY <3>1, <4>1 DEF About
      <4>3. v = w /\ Status(v, r)
        BY <4>1, <4>2 DEF Status
      <4> QED BY <4>1, <4>2, <4>3 DEF Right
    <3>a. letters[u] \in Seq(ChatLetter) /\ JoinedIn(w, u) \in Seq(ChatLetter)
      BY <1>1, <2>1
    <3>c. ASSUME Cleaned(letters[u], users[u][r], Status(v, r), r, v)
          PROVE  Cleaned(letters[u] \o JoinedIn(w, u), users[u][r], Status(v, r), r, v)
      BY ONLY <3>a, <3>1, <3>c, CleanedConcat
    <3>2. Cleaned(letters[u], users[u][r], Status(v, r), r, v) =>
             Cleaned(letters'[u], users'[u][r], Status(v, r), r, v)
      BY <1>1, <2>2, <3>c
    <3>b. Within(letters[u] \o JoinedIn(w, u)) = Within(letters[u]) \cup Within(JoinedIn(w, u))
      BY ONLY <3>a, WithinConcat
    <3>3. Within(letters'[u]) = Within(letters[u]) \cup Within(JoinedIn(w, u))
      BY <2>2, <3>b
    <3>4. Prompted(u) => Prompted(u)'
      BY <3>3 DEF Prompted
    <3>5. \A l \in Within(letters'[u]) : l.kind = "reply" => l \in Within(letters[u])
      BY <2>1, <3>3
    <3> QED BY <3>2, <3>4, <3>5 DEF BoxFollows
  <2> QED BY <1>1, <2>1, <2>2, BoxIdle
<1>5. ASSUME ~HandleAfterJoin(w), ~\E q \in Room : QuitRoom(w, q) \/ TerminateChannel(w, q)
      PROVE  letters'[u] = letters[u]
  BY <1>1, <1>5 DEF SessionStep, EnterRoom, PushPresenceState, ListUsers, SubscribePresence,
         UnsubscribePresence, Joined, LeftGroup, Ended, HandlePushState, StatePushed, TellClient,
         UsersListed, Resumes
<1> QED BY <1>2, <1>3, <1>4, <1>5

LEMMA OthersInformed ==
    ASSUME ChatTypeOK, AllOK, NEW w \in Session, SessionStep(w), NEW u \in Session, u # w, NEW r \in Room,
           NEW v \in Session, Informed(u, r, v)
    PROVE  Informed(u, r, v)'
<1>1. CASE Changing(v, r)'
  BY <1>1 DEF Informed, Coming
<1>2. CASE ~Changing(v, r)'
  BY <1>2, StatusStays, OthersTold, OthersStand, StepGrows, InformedStays
<1> QED BY <1>1, <1>2

-----------------------------------------------------------------------------
(***************************************************************************)
(* A step of a session keeps its own client informed.                      *)
(***************************************************************************)
LEMMA ConcatEmpty ==
    ASSUME NEW S, NEW p \in Seq(S)
    PROVE  p \o <<>> = p
OBVIOUS

LEMMA ConcatOne ==
    ASSUME NEW S, NEW p \in Seq(S), NEW e \in S
    PROVE  p \o <<e>> = Append(p, e)
OBVIOUS

\* What a session has in its mailbox when its call returns.
LEMMA ReturnedBox ==
    ASSUME ChatTypeOK, watched # {}, NEW u \in Session, CallOK(u), NEW step,
           NEW back \in Returns(u, step),
           NEW known, NEW s, NEW r, NEW v
    PROVE  /\ Prompted(u) => \E l \in Within(back.rest) : l.kind \in {"after join", "delta"}
           /\ Cleaned(letters[u], known, s, r, v) => Cleaned(back.rest, known, s, r, v)
           /\ \E l \in Within(letters[u]) : l.kind = "reply" /\ l.who = back.listed
           /\ NoReplyIn(back.rest) /\ back.rest \in Seq(ChatLetter) /\ back.late = 0
<1>1. letters[u] \in Seq(ChatLetter)
  BY DEF ChatTypeOK
<1>2. PICK i \in DOMAIN letters[u] : /\ letters[u][i].kind = "reply"
                                     /\ back.rest = Resent(letters[u], i)
                                     /\ back.listed = letters[u][i].who
  BY ReturnIs
<1>3. NoReplyIn(back.rest) /\ back.rest \in Seq(ChatLetter) /\ back.late = 0
  BY ReturnIs
<1>4. Within(letters[u]) \subseteq Within(back.rest) \cup {letters[u][i]}
  BY <1>1, <1>2, WithinResent
<1>5. Prompted(u) => \E l \in Within(back.rest) : l.kind \in {"after join", "delta"}
  BY <1>2, <1>4 DEF Prompted
<1>6. \E l \in Within(letters[u]) : l.kind = "reply" /\ l.who = back.listed
  BY <1>2 DEF Within
<1>7. ASSUME Cleaned(letters[u], known, s, r, v) PROVE Cleaned(back.rest, known, s, r, v)
  <2>1. Ordered(letters[u])
    BY DEF CallOK
  <2>2. Cleaned(Resent(letters[u], i), known, s, r, v)
    BY ONLY <1>1, <1>2, <1>7, <2>1, CleanedResent
  <2> QED BY <1>2, <2>2
<1> QED BY <1>3, <1>5, <1>6, <1>7

LEMMA ReturnFollows ==
    ASSUME ChatTypeOK, watched # {}, NEW u \in Session, CallOK(u), NEW step,
           NEW back \in Returns(u, step),
           Resumes(u, back, <<>>), users'[u] = users[u], NEW r, NEW v
    PROVE  BoxFollows(u, r, v) /\ NoReplyIn(letters'[u])
<1>1. letters \in [Session -> Seq(ChatLetter)]
  BY DEF ChatTypeOK
<1>2. back.rest \in Seq(ChatLetter) /\ NoReplyIn(back.rest)
  BY ReturnedBox
<1>3. back.rest \o <<>> = back.rest
  BY ONLY <1>2, ConcatEmpty
<1>4. letters'[u] = back.rest
  BY <1>1, <1>3 DEF Resumes
<1>5. /\ Prompted(u) => \E l \in Within(back.rest) : l.kind \in {"after join", "delta"}
      /\ Cleaned(letters[u], users[u][r], Status(v, r), r, v) =>
            Cleaned(back.rest, users[u][r], Status(v, r), r, v)
  BY ReturnedBox
<1>6. Prompted(u) => Prompted(u)'
  BY <1>4, <1>5 DEF Prompted
<1>7. Cleaned(letters[u], users[u][r], Status(v, r), r, v) =>
         Cleaned(letters'[u], users'[u][r], Status(v, r), r, v)
  BY <1>4, <1>5
<1>8. \A l \in Within(letters'[u]) : l.kind = "reply" => l \in Within(letters[u])
  BY <1>2, <1>4 DEF NoReplyIn
<1> QED BY <1>2, <1>4, <1>6, <1>7, <1>8 DEF BoxFollows

LEMMA RoomStepInformed ==
    ASSUME ChatTypeOK, AllOK, CallsOK, NEW u \in Session, NEW q \in Room,
           \/ EnterRoom(u, q) \/ QuitRoom(u, q) \/ TerminateChannel(u, q)
           \/ PushPresenceState(u, q) \/ ListUsers(u, q),
           SessionStep(u), NEW r \in Room, NEW v \in Session, Informed(u, r, v),
           Status(v, r)' <=> Status(v, r)
    PROVE  Informed(u, r, v)'
<1>1. /\ timeouts \in Nat /\ doing[u] \in ChatDoing /\ DoingTyped /\ QueuesTyped
      /\ letters \in [Session -> Seq(ChatLetter)]
  BY TypesAre DEF RestTyped, DoingTyped
<1>2. DoingOK(u) /\ CallOK(u)
  BY DEF AllOK, SessionOK, CallsOK
<1>3. {"track", "subscribe", "untrack", "unsubscribe", "list"} \subseteq Step \ {"none"}
  BY DEF Step
<1>4. letters'[u] = letters[u]
  BY <1>1 DEF EnterRoom, QuitRoom, TerminateChannel, Terminating, PostTo, PushPresenceState, ListUsers
<1>5. users' = users /\ timers' = timers
  BY DEF EnterRoom, QuitRoom, TerminateChannel, Terminating, PushPresenceState, ListUsers
<1>6. BoxFollows(u, r, v) /\ QueuesGrow
  BY <1>4, <1>5, BoxIdle, StepGrows
<1>7. doing[u].step = "none" /\ ~Pushes(u, r)
  BY <1>2, RestIsRest DEF EnterRoom, QuitRoom, TerminateChannel, PushPresenceState, ListUsers, Pushes,
         Lists
<1>8. NoReplyIn(letters'[u])
  BY <1>2, <1>4, <1>7 DEF CallOK
<1>9. CASE ToPush(u, r) => ToPush(u, r)'
  BY <1>5, <1>6, <1>7, <1>8, <1>9, InformedMoves
<1>10. CASE ToPush(u, r) /\ ~ToPush(u, r)'
  <2>1. PushPresenceState(u, q)
    BY <1>2, <1>10, RestIsRest DEF EnterRoom, QuitRoom, TerminateChannel, ListUsers, ToPush
  <2>2. CallFrom(u, doing[u], "list", q, timeouts) /\ doing[u].op = "push state"
    BY <2>1 DEF PushPresenceState
  <2>3. /\ doing'[u].op = "push state" /\ doing'[u].step = "list" /\ doing'[u].room = q
        /\ doing'[u].todo = doing[u].todo
    <3>1. PICK was \in ChatDoing : was = doing[u]
      BY <1>1
    <3>2. DoingTyped /\ u \in Session /\ CallFrom(u, was, "list", q, timeouts)
      BY <1>1, <2>2, <3>1
    <3>3. /\ doing'[u].op = was.op /\ doing'[u].step = "list" /\ doing'[u].room = q
          /\ doing'[u].todo = was.todo
      BY ONLY <3>2, CallDoing
    <3> QED BY <2>2, <3>1, <3>3
  <2>4. q = r
    BY <1>10, <2>3 DEF ToPush, Lists
  <2>5. Listing(u, r)'
    BY <1>1, <1>3, <2>2, <2>4, CallGrows
  <2>6. Pushes(u, r)'
    BY <2>3, <2>4 DEF Pushes, Lists
  <2> QED BY <2>5, <2>6 DEF Informed, Coming
<1> QED BY <1>9, <1>10

LEMMA CallReturnInformed ==
    ASSUME ChatTypeOK, AllOK, CallsOK, watched # {}, NEW u \in Session,
           SubscribePresence(u) \/ UnsubscribePresence(u) \/ LeftGroup(u),
           SessionStep(u), NEW r \in Room, NEW v \in Session, Informed(u, r, v),
           Status(v, r)' <=> Status(v, r)
    PROVE  Informed(u, r, v)'
<1>1. doing[u] \in ChatDoing /\ DoingTyped
  BY TypesAre DEF DoingTyped
<1>2. CallOK(u)
  BY DEF CallsOK
<1>3. users' = users /\ timers' = timers
  BY DEF SubscribePresence, UnsubscribePresence, LeftGroup
<1>4. PICK step \in {"track", "untrack", "unsubscribe"} : \E back \in Returns(u, step) : Resumes(u, back, <<>>)
  BY DEF SubscribePresence, UnsubscribePresence, LeftGroup
<1>5. PICK back \in Returns(u, step) : Resumes(u, back, <<>>)
  BY <1>4
<1>6. BoxFollows(u, r, v) /\ NoReplyIn(letters'[u])
  BY <1>2, <1>3, <1>5, ReturnFollows
<1>7. doing[u].step = step
  BY <1>5, ReturnTyped
<1>8. doing[u].op \in {"join", "leave", "end"}
  BY <1>4, <1>7, ReturnsTo
<1>9. ~Pushes(u, r) /\ ~ToPush(u, r)
  BY <1>8 DEF Pushes, ToPush
<1> QED BY <1>3, <1>6, <1>9, StepGrows, InformedMoves

LEMMA JoinedInformed ==
    ASSUME ChatTypeOK, NEW u \in Session, Joined(u), NEW r, NEW v
    PROVE  Informed(u, r, v)'
<1>1. letters \in [Session -> Seq(ChatLetter)]
  BY DEF ChatTypeOK
<1>2. PICK back \in Returns(u, "subscribe") : Resumes(u, back, <<Letter("after join", Nowhere, {})>>)
  BY DEF Joined
<1>3. PICK l : l = Letter("after join", Nowhere, {})
  OBVIOUS
<1>4. l \in ChatLetter
  BY <1>3, LetterTyped
<1>5. l.kind = "after join"
  BY <1>3 DEF Letter
<1>6. back.rest \in Seq(ChatLetter)
  BY ReturnTyped
<1>7. back.rest \o <<l>> = Append(back.rest, l)
  BY ONLY <1>4, <1>6, ConcatOne
<1>8. letters'[u] = Append(back.rest, l)
  BY <1>1, <1>2, <1>3, <1>7 DEF Resumes
<1>9. Within(Append(back.rest, l)) = Within(back.rest) \cup {l}
  BY ONLY <1>4, <1>6, WithinAppended
<1>10. Prompted(u)'
  BY <1>5, <1>8, <1>9 DEF Prompted
<1> QED BY <1>10 DEF Informed, Coming

LEMMA AfterJoinInformed ==
    ASSUME ChatTypeOK, NEW u \in Session, u \in watched, HandleAfterJoin(u), NEW r \in channels[u], NEW v
    PROVE  Informed(u, r, v)'
<1>1. timers \in [Session -> Nat] /\ channels[u] \subseteq Room
  BY DEF ChatTypeOK
<1>2. IsFiniteSet(channels[u])
  BY <1>1, RoomAssumption, FS_Subset
<1>3. Cardinality(channels[u]) \in Nat /\ Cardinality(channels[u]) # 0
  BY <1>2, FS_CardinalityType, FS_EmptySet
<1>4. timers'[u] = timers[u] + Cardinality(channels[u])
  BY <1>1 DEF HandleAfterJoin
<1>5. timers[u] \in Nat
  BY <1>1
<1>6. timers'[u] > 0
  BY <1>3, <1>4, <1>5
<1> QED BY <1>6 DEF Informed, Coming

LEMMA PushStateInformed ==
    ASSUME ChatTypeOK, NEW u \in Session, HandlePushState(u), NEW r \in channels[u], NEW v
    PROVE  Informed(u, r, v)'
<1>1. DoingTyped
  BY TypesAre
<1>2. Does(u, [AtRest EXCEPT !.op = "push state", !.todo = channels[u]])
  BY DEF HandlePushState
<1>3. doing'[u] = [AtRest EXCEPT !.op = "push state", !.todo = channels[u]]
  BY <1>1, <1>2, DoesDoing
<1>4. doing'[u].op = "push state" /\ doing'[u].step = "none" /\ doing'[u].todo = channels[u]
  BY <1>3 DEF AtRest
<1>5. ToPush(u, r)'
  BY <1>4 DEF ToPush, Lists
<1> QED BY <1>5 DEF Informed, Coming

LEMMA TellClientInformed ==
    ASSUME ChatTypeOK, CallsOK, NEW u \in Session, TellClient(u), SessionStep(u), NEW r \in Room,
           NEW v \in Session,
           Informed(u, r, v), Status(v, r)' <=> Status(v, r)
    PROVE  Informed(u, r, v)'
<1>1. /\ letters \in [Session -> Seq(ChatLetter)] /\ users \in [Session -> [Room -> SUBSET Session]]
      /\ letters[u] \in Seq(ChatLetter) /\ letters[u] # <<>>
  BY DEF ChatTypeOK, TellClient, TakeLetter
<1>2. letters'[u] = Tail(letters[u]) /\ doing' = doing /\ timers' = timers
  BY <1>1 DEF TellClient
<1>3. doing[u].step = "none"
  <2>1. doing[u] = AtRest
    BY DEF TellClient, TakeLetter, IsAtRest
  <2>2. AtRest.step = "none"
    BY DEF AtRest
  <2> QED BY <2>1, <2>2
<1>4. NoReplyIn(letters[u])
  BY <1>3 DEF CallsOK, CallOK
<1>5. PICK l : l = Head(letters[u])
  OBVIOUS
<1>6. Within(letters[u]) = Within(Tail(letters[u])) \cup {l}
  BY <1>1, <1>5, WithinTaken
<1>7. l.kind \in {"user joined", "user left", "state"}
  BY <1>4, <1>5, <1>6 DEF TellClient, NoReplyIn
<1>8. Prompted(u) => Prompted(u)'
  BY <1>2, <1>6, <1>7 DEF Prompted
<1>9. users'[u][r] = IF r = l.room THEN ClientKeeps(users[u][r], l) ELSE users[u][r]
  BY <1>1, <1>5 DEF TellClient
<1>10. About(l, r, v) => (v \in users'[u][r] <=> l.kind # "user left" /\ v \in l.who)
  BY <1>7, <1>9 DEF About, ClientKeeps
<1>11. ~About(l, r, v) => (v \in users'[u][r] <=> v \in users[u][r])
  BY <1>7, <1>9 DEF About, ClientKeeps
<1>12. ASSUME Cleaned(letters[u], users[u][r], Status(v, r), r, v)
       PROVE  Cleaned(letters'[u], users'[u][r], Status(v, r), r, v)
  <2>1. Cleaned(Tail(letters[u]), users'[u][r], Status(v, r), r, v)
    BY ONLY <1>1, <1>5, <1>10, <1>11, <1>12, CleanedTaken
  <2> QED BY <1>2, <2>1
<1>13. \A e \in Within(letters'[u]) : e.kind = "reply" => e \in Within(letters[u])
  BY <1>2, <1>6
<1>14. BoxFollows(u, r, v)
  BY <1>8, <1>12, <1>13 DEF BoxFollows
<1> QED BY <1>2, <1>14, StepGrows, InformedStays

LEMMA UsersListedInformed ==
    ASSUME ChatTypeOK, AllOK, CallsOK, watched # {}, NEW u \in Session, UsersListed(u), SessionStep(u),
           NEW r \in Room, NEW v \in Session, Informed(u, r, v), Status(v, r)' <=> Status(v, r)
    PROVE  Informed(u, r, v)'
<1>1. /\ letters \in [Session -> Seq(ChatLetter)] /\ users \in [Session -> [Room -> SUBSET Session]] /\ DoingTyped
      /\ CallOK(u)
  BY TypesAre DEF RestTyped, CallsOK
<1>2. PICK back \in Returns(u, "list") : /\ Resumes(u, back, <<>>)
                                        /\ users' = [users EXCEPT ![u][doing[u].room] = back.listed]
  BY DEF UsersListed
<1>3. doing[u].step = "list" /\ doing[u].op = "list users"
  BY <1>2, ReturnTyped DEF UsersListed
<1>4. doing'[u] = AtRest /\ timers' = timers
  BY <1>1, DoesDoing DEF UsersListed
<1>5. ~Pushes(u, r) /\ ~ToPush(u, r) /\ ~Lists(u, r)'
  <2>1. AtRest.step = "none"
    BY DEF AtRest
  <2>2. ~Lists(u, r)'
    BY <1>4, <2>1 DEF Lists
  <2> QED BY <1>3, <2>2 DEF Pushes, ToPush
<1>6. back.rest \in Seq(ChatLetter) /\ NoReplyIn(back.rest)
  BY <1>1, ReturnedBox
<1>7. back.rest \o <<>> = back.rest
  BY ONLY <1>6, ConcatEmpty
<1>8. letters'[u] = back.rest
  BY <1>1, <1>2, <1>7 DEF Resumes
<1>9. /\ Prompted(u) => \E l \in Within(back.rest) : l.kind \in {"after join", "delta"}
      /\ Cleaned(letters[u], users[u][r], Status(v, r), r, v) =>
            Cleaned(back.rest, users[u][r], Status(v, r), r, v)
      /\ \E l \in Within(letters[u]) : l.kind = "reply" /\ l.who = back.listed
  BY <1>1, ReturnedBox
<1>10. Prompted(u) => Prompted(u)'
  BY <1>8, <1>9 DEF Prompted
<1>11. \A l \in Within(letters'[u]) : l.kind = "reply" => l \in Within(letters[u])
  BY <1>6, <1>8 DEF NoReplyIn
<1>12. QueuesGrow
  BY StepGrows
<1>13. CASE doing[u].room # r
  <2>1. users'[u][r] = users[u][r]
    BY <1>1, <1>2, <1>13
  <2>2. BoxFollows(u, r, v)
    BY <1>8, <1>9, <1>10, <1>11, <2>1 DEF BoxFollows
  <2>3. timers'[u] = timers[u]
    BY <1>4
  <2> QED BY <1>5, <1>12, <2>2, <2>3, InformedMoves
<1>14. CASE doing[u].room = r
  <2>1. CASE Coming(u, r, v)
    <3>1. Coming(u, r, v)'
      BY <1>4, <1>5, <1>10, <1>12, <2>1, ComingGrows DEF Coming
    <3> QED BY <3>1 DEF Informed
  <2>2. CASE Sound(u, r, v)
    <3>1. Lists(u, r)
      BY <1>3, <1>14 DEF Lists
    <3>2. users'[u][r] = back.listed
      BY <1>1, <1>2, <1>14
    <3>3. v \in users'[u][r] <=> Status(v, r)
      BY <1>9, <2>2, <3>1, <3>2 DEF Sound
    <3>4. Cleaned(letters'[u], users[u][r], Status(v, r), r, v)
      BY <1>5, <1>8, <1>9, <2>2 DEF Sound
    <3>5. Cleaned(letters'[u], users'[u][r], Status(v, r), r, v)
      BY ONLY <3>3, <3>4, CleanedOtherwise
    <3>6. Cleaned(letters'[u], users'[u][r], Status(v, r)', r, v)
      BY <3>5 DEF Cleaned, Right, Fixes
    <3>7. Sound(u, r, v)'
      BY <1>5, <3>6 DEF Sound
    <3> QED BY <3>7 DEF Informed
  <2> QED BY <2>1, <2>2 DEF Informed
<1> QED BY <1>13, <1>14

LEMMA StatePushedInformed ==
    ASSUME ChatTypeOK, AllOK, CallsOK, watched # {}, NEW u \in Session, StatePushed(u), SessionStep(u),
           NEW r \in channels[u], NEW v \in Session, Informed(u, r, v), Status(v, r)' <=> Status(v, r)
    PROVE  Informed(u, r, v)'
<1>1. /\ letters \in [Session -> Seq(ChatLetter)] /\ users \in [Session -> [Room -> SUBSET Session]] /\ DoingTyped
      /\ CallOK(u) /\ r \in Room /\ doing[u] \in ChatDoing
  BY TypesAre DEF RestTyped, CallsOK, DoingTyped
<1>2. PICK back \in Returns(u, "list") :
         Resumes(u, back, <<Letter("state", doing[u].room, back.listed \cup {u})>>)
  BY DEF StatePushed
<1>3. doing[u].step = "list" /\ doing[u].op = "push state" /\ doing[u].room \in Room /\ back.listed \subseteq Session
  <2>1. doing[u].step = "list" /\ back.listed \subseteq Session
    BY ReturnTyped
  <2> QED BY <2>1, OwnRoom DEF StatePushed
<1>4. doing'[u] = NextChannel(u, doing[u].room) /\ timers' = timers /\ users' = users
  BY <1>1, DoesDoing DEF StatePushed
<1>5. doing'[u].step = "none"
  <2>1. AtRest.step = "none"
    BY DEF AtRest
  <2> QED BY <1>1, <1>4, <2>1 DEF NextChannel, ChatDoing
<1>6. ~Lists(u, r)' /\ ~Pushes(u, r)'
  BY <1>5 DEF Lists, Pushes
<1>7. ASSUME ToPush(u, r) PROVE ToPush(u, r)'
  <2>1. r # doing[u].room /\ r \in doing[u].todo
    BY <1>3, <1>7 DEF ToPush, Lists
  <2>2. doing'[u] = [doing[u] EXCEPT !.todo = @ \ {doing[u].room}, !.step = "none", !.call = 0, !.room = Nowhere]
    BY <1>4, <2>1 DEF NextChannel
  <2>3. doing'[u].op = doing[u].op /\ doing'[u].todo = doing[u].todo \ {doing[u].room}
    BY <1>1, <2>2 DEF ChatDoing
  <2> QED BY <1>3, <1>6, <2>1, <2>3 DEF ToPush
<1>8. PICK l : l = Letter("state", doing[u].room, back.listed \cup {u})
  OBVIOUS
<1>9. l \in ChatLetter
  BY <1>3, <1>8, LetterTyped
<1>10. l.kind = "state" /\ l.room = doing[u].room /\ l.who = back.listed \cup {u}
  BY <1>8 DEF Letter
<1>11. back.rest \in Seq(ChatLetter) /\ NoReplyIn(back.rest)
  BY <1>1, ReturnedBox
<1>12. back.rest \o <<l>> = Append(back.rest, l)
  BY ONLY <1>9, <1>11, ConcatOne
<1>13. letters'[u] = Append(back.rest, l)
  BY <1>1, <1>2, <1>8, <1>12 DEF Resumes
<1>14. Within(Append(back.rest, l)) = Within(back.rest) \cup {l}
  BY ONLY <1>9, <1>11, WithinAppended
<1>15. /\ Prompted(u) => \E e \in Within(back.rest) : e.kind \in {"after join", "delta"}
       /\ Cleaned(letters[u], users[u][r], Status(v, r), r, v) =>
             Cleaned(back.rest, users[u][r], Status(v, r), r, v)
       /\ \E e \in Within(letters[u]) : e.kind = "reply" /\ e.who = back.listed
  BY <1>1, ReturnedBox
<1>16. Prompted(u) => Prompted(u)'
  BY <1>13, <1>14, <1>15 DEF Prompted
<1>17. QueuesGrow
  BY StepGrows
<1>18. CASE doing[u].room # r
  <2>1. ~About(l, r, v)
    BY <1>10, <1>18 DEF About
  <2>2. ASSUME Cleaned(letters[u], users[u][r], Status(v, r), r, v)
        PROVE  Cleaned(letters'[u], users'[u][r], Status(v, r), r, v)
    <3>1. Cleaned(back.rest, users[u][r], Status(v, r), r, v)
      BY <1>15, <2>2
    <3>2. Cleaned(Append(back.rest, l), users[u][r], Status(v, r), r, v)
      BY ONLY <1>9, <1>11, <2>1, <3>1, CleanedAppended
    <3> QED BY <1>4, <1>13, <3>2
  <2>3. \A e \in Within(letters'[u]) : e.kind = "reply" => e \in Within(letters[u])
    BY <1>10, <1>11, <1>13, <1>14 DEF NoReplyIn
  <2>4. BoxFollows(u, r, v)
    BY <1>16, <2>2, <2>3 DEF BoxFollows
  <2>5. ~Pushes(u, r) /\ timers'[u] = timers[u]
    BY <1>4, <1>18 DEF Pushes, Lists
  <2> QED BY <1>1, <1>6, <1>7, <1>17, <2>4, <2>5, InformedMoves
<1>19. CASE doing[u].room = r
  <2>1. Pushes(u, r) /\ Lists(u, r)
    BY <1>3, <1>19 DEF Pushes, Lists
  <2>2. CASE Coming(u, r, v)
    <3>1. ~Listing(u, r)
      <4>1. Quiet(presenceQueue, u)
        BY <1>1, ReturnIs
      <4> QED BY <4>1 DEF Quiet, Asks, Listing
    <3>2. Coming(u, r, v)'
      BY <1>4, <1>16, <1>17, <2>1, <2>2, <3>1, ComingGrows DEF Coming, ToPush
    <3> QED BY <3>2 DEF Informed
  <2>3. CASE Sound(u, r, v)
    <3>1. v \in back.listed <=> Status(v, r)
      BY <1>15, <2>1, <2>3 DEF Sound
    <3>2. Status(u, r)
      BY DEF Status
    <3>3. v \in l.who <=> Status(v, r)
      BY <1>10, <3>1, <3>2
    <3>4. Fixes(l, Status(v, r), r, v)
      BY <1>10, <1>19, <3>3 DEF Fixes, Right
    <3>5. Cleaned(Append(back.rest, l), users[u][r], Status(v, r), r, v)
      BY ONLY <1>9, <1>11, <3>4, CleanedByState
    <3>6. Cleaned(letters'[u], users'[u][r], Status(v, r)', r, v)
      BY <1>4, <1>13, <3>5 DEF Cleaned, Right, Fixes
    <3>7. Sound(u, r, v)'
      BY <1>6, <3>6 DEF Sound
    <3> QED BY <3>7 DEF Informed
  <2> QED BY <2>2, <2>3 DEF Informed
<1> QED BY <1>18, <1>19

LEMMA OwnInformed ==
    ASSUME ChatTypeOK, AllOK, CallsOK, ClientsOK, NEW u \in watched, SessionStep(u),
           NEW r \in channels'[u],
           NEW v \in Session
    PROVE  Informed(u, r, v)'
<1>1. /\ u \in Session /\ watched # {} /\ channels \in [Session -> SUBSET Room] /\ DoingTyped
  BY TypesAre DEF RestTyped
<1>2. CASE Joined(u)
  BY <1>1, <1>2, JoinedInformed
<1>3. CASE ~Joined(u)
  <2>1. r \in channels[u]
    BY <1>1, <1>3 DEF SessionStep, EnterRoom, QuitRoom, TerminateChannel, Terminating,
           PushPresenceState, ListUsers,
           SubscribePresence, UnsubscribePresence, LeftGroup, Ended, HandleAfterJoin, HandlePushState,
           StatePushed,
           TellClient, UsersListed
  <2>2. r \in Room /\ Informed(u, r, v)
    BY <1>1, <2>1 DEF ClientsOK
  <2>3. CASE Changing(v, r)'
    BY <2>3 DEF Informed, Coming
  <2>4. CASE Status(v, r)' <=> Status(v, r)
    <3>1. ASSUME \E q \in Room : \/ EnterRoom(u, q) \/ QuitRoom(u, q) \/ TerminateChannel(u, q)
                                 \/ PushPresenceState(u, q) \/ ListUsers(u, q)
          PROVE  Informed(u, r, v)'
      BY <1>1, <2>2, <2>4, <3>1, RoomStepInformed
    <3>2. ASSUME SubscribePresence(u) \/ UnsubscribePresence(u) \/ LeftGroup(u)
          PROVE  Informed(u, r, v)'
      BY <1>1, <2>2, <2>4, <3>2, CallReturnInformed
    <3>3. ~Ended(u)
      BY <2>1 DEF Ended
    <3>4. ASSUME HandleAfterJoin(u) PROVE Informed(u, r, v)'
      BY <1>1, <2>1, <3>4, AfterJoinInformed
    <3>5. ASSUME HandlePushState(u) PROVE Informed(u, r, v)'
      BY <1>1, <2>1, <3>5, PushStateInformed
    <3>6. ASSUME StatePushed(u) PROVE Informed(u, r, v)'
      BY <1>1, <2>1, <2>2, <2>4, <3>6, StatePushedInformed
    <3>7. ASSUME TellClient(u) PROVE Informed(u, r, v)'
      BY <1>1, <2>2, <2>4, <3>7, TellClientInformed
    <3>8. ASSUME UsersListed(u) PROVE Informed(u, r, v)'
      BY <1>1, <2>2, <2>4, <3>8, UsersListedInformed
    <3> QED BY <1>3, <3>1, <3>2, <3>3, <3>4, <3>5, <3>6, <3>7, <3>8 DEF SessionStep
  <2> QED BY <1>1, <2>2, <2>3, <2>4, StatusStays
<1> QED BY <1>2, <1>3

LEMMA SessionsInform ==
    ASSUME ChatTypeOK, AllOK, CallsOK, ClientsOK, NEW w \in Session, SessionStep(w)
    PROVE  ClientsOK'
<1> SUFFICES ASSUME NEW u \in watched, NEW r \in channels'[u], NEW v \in Session
             PROVE  Informed(u, r, v)'
  <2>1. watched' = watched
    BY StepCalls
  <2> QED BY <2>1 DEF ClientsOK
<1>1. watched \subseteq Session /\ channels \in [Session -> SUBSET Room]
  BY DEF ChatTypeOK
<1>2. CASE u = w
  BY <1>2, OwnInformed
<1>3. CASE u # w
  <2>1. channels'[u] = channels[u] /\ u \in Session
    BY <1>1, <1>3, OthersStand
  <2>2. r \in Room /\ Informed(u, r, v)
    BY <1>1, <2>1 DEF ClientsOK
  <2> QED BY <1>3, <2>1, <2>2, OthersInformed
<1> QED BY <1>2, <1>3

-----------------------------------------------------------------------------
(***************************************************************************)
(* So do the servers.                                                      *)
(***************************************************************************)
LEMMA ServedStays ==
    ASSUME NEW u \in Session, NEW r \in Room, NEW v \in Session, Informed(u, r, v),
           UNCHANGED <<doing, channels, timers, users>>,
           Changing(v, r) => Changing(v, r)', Broadcasts(r) => Broadcasts(r)',
           Prompted(u) => Prompted(u)',
           Pushes(u, r) /\ Listing(u, r) => Listing(u, r)',
           Lists(u, r) => \A l \in Within(letters'[u]) : l.kind = "reply" => l \in Within(letters[u]),
           Cleaned(letters[u], users[u][r], Status(v, r), r, v) =>
               Cleaned(letters'[u], users[u][r], Status(v, r), r, v)
    PROVE  Informed(u, r, v)'
<1>1. /\ Lists(u, r)' <=> Lists(u, r)
      /\ Pushes(u, r)' <=> Pushes(u, r)
      /\ ToPush(u, r)' <=> ToPush(u, r)
      /\ Status(v, r)' <=> Status(v, r)
  BY DEF Lists, Pushes, ToPush, Status, Entering
<1>2. CASE Coming(u, r, v)
  <2>1. Coming(u, r, v)'
    BY <1>1, <1>2 DEF Coming
  <2> QED BY <2>1 DEF Informed
<1>3. CASE Sound(u, r, v)
  <2>1. Lists(u, r)' =>
           \A l \in Within(letters'[u]) : l.kind = "reply" => (v \in l.who <=> Status(v, r)')
    BY <1>1, <1>3 DEF Sound
  <2>2. Pushes(u, r)' \/ Cleaned(letters'[u], users'[u][r], Status(v, r), r, v)
    BY <1>1, <1>3 DEF Sound
  <2>3. Pushes(u, r)' \/ Cleaned(letters'[u], users'[u][r], Status(v, r)', r, v)
    BY <2>2, <1>1 DEF Cleaned, Right, Fixes
  <2>4. Sound(u, r, v)'
    BY <2>1, <2>3 DEF Sound
  <2> QED BY <2>4 DEF Informed
<1> QED BY <1>2, <1>3 DEF Informed

LEMMA TrackedThen ==
    ASSUME NEW u \in Session, NEW r \in Room,
           \A q \in Within(presenceQueue) : ~Is(q, "track", u, r) /\ ~Is(q, "untrack", u, r)
    PROVE  ToBeTracked(u, r) <=> u \in tracked[r]
<1>1. \A i \in DOMAIN presenceQueue : ~Is(presenceQueue[i], "track", u, r) /\ ~Is(presenceQueue[i], "untrack", u, r)
  BY DEF Within
<1> QED BY <1>1 DEF ToBeTracked, WillBe

LEMMA SubscribedNow ==
    ASSUME NEW u \in Session, NEW r \in Room, ToBeSubscribed(u, r),
           \A q \in Within(pubsubQueue) : ~Is(q, "subscribe", u, r)
    PROVE  u \in subscribed[r]
<1>1. \A i \in DOMAIN pubsubQueue : ~Is(pubsubQueue[i], "subscribe", u, r)
  BY DEF Within
<1> QED BY <1>1 DEF ToBeSubscribed, WillBe

\* A reply about no user is added to what a session has.
LEMMA ReplyFollows ==
    ASSUME NEW box \in Seq(ChatLetter), NEW l \in ChatLetter, l.kind = "reply", NEW known, NEW s, NEW r,
           NEW v,
           Cleaned(box, known, s, r, v)
    PROVE  Cleaned(Append(box, l), known, s, r, v)
<1>1. ~About(l, r, v)
  BY DEF About
<1> QED BY <1>1, CleanedAppended

\* What the Presence server takes from its mailbox.
LEMMA PresenceLeaves ==
    ASSUME ChatTypeOK, NEW h, PresenceTakes(h)
    PROVE  /\ Within(presenceQueue) = Within(presenceQueue') \cup {h}
           /\ Within(pubsubQueue) \subseteq Within(pubsubQueue')
           /\ h.kind = "track" \/ (h.kind = "untrack" /\ h.user \in tracked[h.room]) => Broadcasts(h.room)'
<1>1. presenceQueue \in Seq(PresenceRequest) /\ pubsubQueue \in Seq(PubSubRequest)
  BY DEF ChatTypeOK
<1>2. presenceQueue # <<>> /\ h = Head(presenceQueue) /\ presenceQueue' = Tail(presenceQueue)
  BY DEF PresenceTakes
<1>3. Within(presenceQueue) = Within(presenceQueue') \cup {h}
  BY <1>1, <1>2, WithinTaken
<1>4. h.room \in Room /\ h.user \in Session
  BY DEF PresenceTakes, PresenceRequest
<1>5. PICK d : d = Delta(h.room)
  OBVIOUS
<1>6. d \in PubSubRequest /\ d.kind = "broadcast" /\ d.room = h.room
  BY <1>4, <1>5, DeltaTyped
<1>7. Within(Append(pubsubQueue, d)) = Within(pubsubQueue) \cup {d}
  BY ONLY <1>1, <1>6, WithinAppended
<1>8. pubsubQueue' = pubsubQueue \/ pubsubQueue' = Append(pubsubQueue, d)
  BY <1>5 DEF PresenceTakes
<1>9. h.kind = "track" \/ (h.kind = "untrack" /\ h.user \in tracked[h.room]) => pubsubQueue' = Append(pubsubQueue, d)
  BY <1>5 DEF PresenceTakes
<1> QED BY <1>3, <1>6, <1>7, <1>8, <1>9 DEF Broadcasts

LEMMA PresenceInformed ==
    ASSUME ChatTypeOK, AllOK, CallsOK, PresenceServes, NEW u \in Session, NEW r \in channels[u],
           NEW v \in Session,
           Informed(u, r, v)
    PROVE  Informed(u, r, v)'
<1>1. PICK h : PresenceTakes(h)
  BY PresenceTakesOne
<1>2. UNCHANGED <<online, doing, channels, timers, users>>
  BY PresenceTakesOne
<1>3. /\ letters \in [Session -> Seq(ChatLetter)] /\ channels[u] \subseteq Room /\ tracked \in [Room -> SUBSET Session]
      /\ letters[u] \in Seq(ChatLetter) /\ presenceQueue \in Seq(PresenceRequest)
  BY DEF ChatTypeOK
<1>4. h \in PresenceRequest /\ h.kind \in {"track", "untrack", "list"} /\ h.room \in Room /\ h.user \in Session /\ h.call \in Nat
  BY <1>1 DEF PresenceTakes, PresenceRequest
<1>5. /\ Within(presenceQueue) = Within(presenceQueue') \cup {h}
      /\ Within(pubsubQueue) \subseteq Within(pubsubQueue')
      /\ h.kind = "track" \/ (h.kind = "untrack" /\ h.user \in tracked[h.room]) => Broadcasts(h.room)'
  BY <1>1, PresenceLeaves
<1>6. CASE h.kind \in {"track", "untrack"} /\ h.user = v /\ h.room = r
  <2>1. h \in Within(presenceQueue)
    BY <1>5
  <2>2. h.kind = "untrack" => v \in tracked[r]
    BY <1>6, <2>1 DEF CallsOK, CallOK
  <2>3. Broadcasts(r)'
    BY <1>5, <1>6, <2>2
  <2> QED BY <2>3 DEF Informed, Coming
<1>7. CASE ~(h.kind \in {"track", "untrack"} /\ h.user = v /\ h.room = r)
  <2>1. (Changing(v, r) => Changing(v, r)') /\ (Broadcasts(r) => Broadcasts(r)')
    BY <1>5, <1>7 DEF Changing, Broadcasts
  <2>2. PICK who \in SUBSET Session : Answer(h, who) /\ (h.kind = "list" => who = tracked[h.room])
    <3>1. CASE h.kind = "list"
      BY <1>1, <1>3, <1>4, <3>1 DEF PresenceTakes
    <3>2. CASE h.kind # "list"
      BY <1>1, <3>2 DEF PresenceTakes
    <3> QED BY <3>1, <3>2
  <2>3. CASE u # h.user
    <3>1. letters'[u] = letters[u]
      BY <1>4, <2>2, <2>3, Answered
    <3>2. Prompted(u) => Prompted(u)'
      BY <3>1 DEF Prompted
    <3>3. Listing(u, r) => Listing(u, r)'
      BY <1>5, <2>3 DEF Listing
    <3> QED BY <1>2, <1>3, <2>1, <3>1, <3>2, <3>3, ServedStays
  <2>4. CASE u = h.user
    <3>1. u \in online
      BY DEF AllOK, SessionOK, DoingOK
    <3>2. PICK l : l = ReplyTo(h, who)
      OBVIOUS
    <3>3. letters'[u] = Append(letters[u], l) /\ l \in ChatLetter
      BY <1>4, <2>2, <2>4, <3>1, <3>2, Answered
    <3>4. l.kind = "reply" /\ l.who = who
      BY <3>2 DEF ReplyTo
    <3>5. Within(Append(letters[u], l)) = Within(letters[u]) \cup {l}
      BY ONLY <1>3, <3>3, WithinAppended
    <3>6. Prompted(u) => Prompted(u)'
      BY <3>3, <3>5 DEF Prompted
    <3>7. ASSUME Cleaned(letters[u], users[u][r], Status(v, r), r, v)
          PROVE  Cleaned(letters'[u], users[u][r], Status(v, r), r, v)
      <4>1. Cleaned(Append(letters[u], l), users[u][r], Status(v, r), r, v)
        BY ONLY <1>3, <3>3, <3>4, <3>7, ReplyFollows
      <4> QED BY <3>3, <4>1
    <3>8. h \in Within(presenceQueue) /\ Asks(h, u)
      BY <1>4, <1>5, <2>4 DEF Asks
    <3>9. doing[u].step = h.kind /\ doing[u].room = h.room /\ NoReplyIn(letters[u])
      BY <3>8 DEF CallsOK, CallOK, QueueOK
    <3>10. CASE ~(h.kind = "list" /\ h.room = r)
      <4>1. ~Lists(u, r) /\ ~Pushes(u, r)
        BY <3>9, <3>10 DEF Lists, Pushes
      <4> QED BY <1>2, <1>3, <2>1, <3>6, <3>7, <4>1, ServedStays
    <3>11. CASE h.kind = "list" /\ h.room = r
      <4>1. CASE Changing(v, r)'
        BY <4>1 DEF Informed, Coming
      <4>2. CASE ~Changing(v, r)'
        <5>1. ASSUME NEW q \in Within(presenceQueue)
              PROVE  ~Is(q, "track", v, r) /\ ~Is(q, "untrack", v, r)
          BY <1>5, <3>11, <4>2 DEF Changing, Is
        <5>2. ToBeTracked(v, r) <=> v \in tracked[r]
          BY <1>3, <5>1, TrackedThen
        <5>3. ToBeTracked(v, r) <=> Status(v, r)
          BY <1>3 DEF AllOK, SessionOK, PlaceOK, Status
        <5>4. v \in l.who <=> Status(v, r)
          BY <2>2, <3>4, <3>11, <5>2, <5>3
        <5>5. (Status(v, r)' <=> Status(v, r)) /\ (Pushes(u, r)' <=> Pushes(u, r))
          BY <1>2 DEF Status, Entering, Pushes, Lists
        <5>6. \A e \in Within(letters'[u]) : e.kind = "reply" => (v \in e.who <=> Status(v, r)')
          BY <3>3, <3>5, <3>9, <5>4, <5>5 DEF NoReplyIn
        <5>7. CASE Pushes(u, r)
          <6>1. Sound(u, r, v)'
            BY <5>5, <5>6, <5>7 DEF Sound
          <6> QED BY <6>1 DEF Informed
        <5>8. CASE ~Pushes(u, r) /\ Coming(u, r, v)
          <6>1. ToPush(u, r)' <=> ToPush(u, r)
            BY <1>2 DEF ToPush, Lists
          <6>2. Coming(u, r, v)'
            BY <1>2, <2>1, <3>6, <5>8, <6>1 DEF Coming
          <6> QED BY <6>2 DEF Informed
        <5>9. CASE ~Pushes(u, r) /\ Sound(u, r, v)
          <6>1. Cleaned(letters'[u], users'[u][r], Status(v, r), r, v)
            BY <1>2, <3>7, <5>9 DEF Sound
          <6>2. Cleaned(letters'[u], users'[u][r], Status(v, r)', r, v)
            BY <5>5, <6>1 DEF Cleaned, Right, Fixes
          <6>3. Sound(u, r, v)'
            BY <5>6, <6>2 DEF Sound
          <6> QED BY <6>3 DEF Informed
        <5> QED BY <5>7, <5>8, <5>9 DEF Informed
      <4> QED BY <4>1, <4>2
    <3> QED BY <3>10, <3>11
  <2> QED BY <2>3, <2>4
<1> QED BY <1>6, <1>7

LEMMA PubSubInformed ==
    ASSUME ChatTypeOK, AllOK, CallsOK, PubSubServes, NEW u \in Session, NEW r \in channels[u],
           NEW v \in Session,
           Informed(u, r, v)
    PROVE  Informed(u, r, v)'
<1>1. PICK h : PubSubTakes(h)
  BY PubSubTakesOne
<1>2. UNCHANGED <<online, doing, channels, timers, users, presenceQueue, tracked>>
  BY PubSubTakesOne
<1>3. /\ letters \in [Session -> Seq(ChatLetter)] /\ channels[u] \subseteq Room
      /\ letters[u] \in Seq(ChatLetter) /\ pubsubQueue \in Seq(PubSubRequest)
  BY DEF ChatTypeOK
<1>4. /\ h \in PubSubRequest /\ h.kind \in {"subscribe", "unsubscribe", "broadcast"} /\ h.room \in Room
      /\ h.user \in Session /\ h.call \in Nat
  BY <1>1 DEF PubSubTakes, PubSubRequest
<1>5. Within(pubsubQueue) = Within(pubsubQueue') \cup {h}
  BY <1>1, <1>3, WithinTaken DEF PubSubTakes
<1>6. (Changing(v, r) => Changing(v, r)') /\ (Listing(u, r) => Listing(u, r)')
  BY <1>2 DEF Changing, Listing
<1>7. u \in online
  BY DEF AllOK, SessionOK, DoingOK
<1>8. CASE h.kind = "broadcast"
  <2>1. PICK l : l = Letter("delta", h.room, {})
    OBVIOUS
  <2>2. l \in ChatLetter
    BY <1>4, <2>1, LetterTyped
  <2>3. l.kind = "delta"
    BY <2>1 DEF Letter
  <2>4. letters'[u] = IF u \in subscribed[h.room] THEN Append(letters[u], l) ELSE letters[u]
    BY <1>1, <1>3, <1>7, <1>8, <2>1 DEF PubSubTakes, PostTo
  <2>5. CASE u \in subscribed[h.room]
    <3>1. Within(Append(letters[u], l)) = Within(letters[u]) \cup {l}
      BY ONLY <1>3, <2>2, WithinAppended
    <3>2. Prompted(u)'
      BY <2>3, <2>4, <2>5, <3>1 DEF Prompted
    <3> QED BY <3>2 DEF Informed, Coming
  <2>6. CASE u \notin subscribed[h.room]
    <3>1. h.room # r
      <4>1. SUFFICES ASSUME h.room = r PROVE FALSE
        OBVIOUS
      <4>2. PlaceOK(u, r) /\ CallOK(u)
        BY <1>3 DEF AllOK, SessionOK, CallsOK
      <4>3. ToBeSubscribed(u, r) /\ ~Entering(u, r)
        BY <4>2 DEF PlaceOK
      <4>4. ASSUME NEW q \in Within(pubsubQueue) PROVE ~Is(q, "subscribe", u, r)
        <5>1. SUFFICES ASSUME q.kind = "subscribe", q.user = u, q.room = r PROVE FALSE
          BY DEF Is
        <5>2. doing[u].step = "subscribe" /\ doing[u].room = r
          BY <4>2, <5>1 DEF CallOK, QueueOK, Asks
        <5>3. doing[u].op = "join"
          BY <5>2, ReturnsTo
        <5> QED BY <4>3, <5>2, <5>3 DEF Entering
      <4>5. u \in subscribed[r]
        BY <1>3, <4>3, <4>4, SubscribedNow
      <4> QED BY <2>6, <4>1, <4>5
    <3>2. letters'[u] = letters[u]
      BY <2>4, <2>6
    <3>3. Broadcasts(r) => Broadcasts(r)'
      BY <1>5, <3>1 DEF Broadcasts
    <3>4. Prompted(u) => Prompted(u)'
      BY <3>2 DEF Prompted
    <3> QED BY <1>2, <1>3, <1>6, <3>2, <3>3, <3>4, ServedStays
  <2> QED BY <2>5, <2>6
<1>9. CASE h.kind # "broadcast"
  <2>1. Answer(h, {})
    BY <1>1, <1>9 DEF PubSubTakes
  <2>2. Broadcasts(r) => Broadcasts(r)'
    BY <1>5, <1>9 DEF Broadcasts
  <2>3. CASE u # h.user
    <3>1. letters'[u] = letters[u]
      BY <1>4, <2>1, <2>3, Answered
    <3>2. Prompted(u) => Prompted(u)'
      BY <3>1 DEF Prompted
    <3> QED BY <1>2, <1>3, <1>6, <2>2, <3>1, <3>2, ServedStays
  <2>4. CASE u = h.user
    <3>1. PICK l : l = ReplyTo(h, {})
      OBVIOUS
    <3>2. letters'[u] = Append(letters[u], l) /\ l \in ChatLetter
      BY <1>4, <1>7, <2>1, <2>4, <3>1, Answered
    <3>3. l.kind = "reply"
      BY <3>1 DEF ReplyTo
    <3>4. Within(Append(letters[u], l)) = Within(letters[u]) \cup {l}
      BY ONLY <1>3, <3>2, WithinAppended
    <3>5. Prompted(u) => Prompted(u)'
      BY <3>2, <3>4 DEF Prompted
    <3>6. ASSUME Cleaned(letters[u], users[u][r], Status(v, r), r, v)
          PROVE  Cleaned(letters'[u], users[u][r], Status(v, r), r, v)
      <4>1. Cleaned(Append(letters[u], l), users[u][r], Status(v, r), r, v)
        BY ONLY <1>3, <3>2, <3>3, <3>6, ReplyFollows
      <4> QED BY <3>2, <4>1
    <3>7. h \in Within(pubsubQueue) /\ Asks(h, u)
      BY <1>5, <1>9, <2>4 DEF Asks
    <3>8. doing[u].step = h.kind
      BY <3>7 DEF CallsOK, CallOK, QueueOK
    <3>9. ~Lists(u, r) /\ ~Pushes(u, r)
      BY <1>4, <3>8 DEF Lists, Pushes
    <3> QED BY <1>2, <1>3, <1>6, <2>2, <3>5, <3>6, <3>9, ServedStays
  <2> QED BY <2>3, <2>4
<1> QED BY <1>8, <1>9

LEMMA NothingInforms ==
    ASSUME UNCHANGED chatVars, ClientsOK
    PROVE  ClientsOK'
<1>1. UNCHANGED <<watched, doing, channels, letters, timers, presenceQueue, pubsubQueue, users>>
  BY DEF chatVars
<1>2. ASSUME NEW u, NEW r, NEW v
      PROVE  /\ Changing(v, r)' <=> Changing(v, r)
             /\ Broadcasts(r)' <=> Broadcasts(r)
             /\ Prompted(u)' <=> Prompted(u)
             /\ ToPush(u, r)' <=> ToPush(u, r)
             /\ Listing(u, r)' <=> Listing(u, r)
             /\ Lists(u, r)' <=> Lists(u, r)
             /\ Pushes(u, r)' <=> Pushes(u, r)
             /\ Status(v, r)' <=> Status(v, r)
  BY <1>1 DEF Changing, Broadcasts, Prompted, ToPush, Listing, Lists, Pushes, Status, Entering
<1>3. ASSUME NEW u, NEW r, NEW v, Informed(u, r, v)
      PROVE  Informed(u, r, v)'
  <2>1. Coming(u, r, v) => Coming(u, r, v)'
    BY <1>1, <1>2 DEF Coming
  <2>2. Cleaned(letters[u], users[u][r], Status(v, r), r, v) =>
           Cleaned(letters'[u], users'[u][r], Status(v, r)', r, v)
    BY <1>1, <1>2 DEF Cleaned, Right, Fixes
  <2>3. Sound(u, r, v) => Sound(u, r, v)'
    BY <1>1, <1>2, <2>2 DEF Sound
  <2> QED BY <1>3, <2>1, <2>3 DEF Informed
<1> QED BY <1>1, <1>3 DEF ClientsOK

LEMMA ClientsStayOK == ChatTypeOK /\ AllOK /\ CallsOK /\ ClientsOK /\ [ChatNext]_chatVars => ClientsOK'
<1> SUFFICES ASSUME ChatTypeOK, AllOK, CallsOK, ClientsOK, [ChatNext]_chatVars
             PROVE  ClientsOK'
  OBVIOUS
<1>1. ASSUME NEW w \in Session, SessionStep(w) PROVE ClientsOK'
  BY <1>1, SessionsInform
<1>2. watched \subseteq Session /\ channels \in [Session -> SUBSET Room]
  BY DEF ChatTypeOK
<1>3. ASSUME PresenceServes PROVE ClientsOK'
  <2>1. watched' = watched /\ channels' = channels
    BY <1>3, PresenceTakesOne
  <2>2. ASSUME NEW u \in watched, NEW r \in channels[u], NEW v \in Session PROVE Informed(u, r, v)'
    BY <1>2, <1>3, PresenceInformed DEF ClientsOK
  <2> QED BY <2>1, <2>2 DEF ClientsOK
<1>4. ASSUME PubSubServes PROVE ClientsOK'
  <2>1. watched' = watched /\ channels' = channels
    BY <1>4, PubSubTakesOne
  <2>2. ASSUME NEW u \in watched, NEW r \in channels[u], NEW v \in Session PROVE Informed(u, r, v)'
    BY <1>2, <1>4, PubSubInformed DEF ClientsOK
  <2> QED BY <2>1, <2>2 DEF ClientsOK
<1> QED BY <1>1, <1>3, <1>4, NothingInforms DEF ChatNext, SessionStep

LEMMA ClientsStartOK == ASSUME ChatInit PROVE ClientsOK
<1>1. watched \subseteq Session /\ channels = [u \in Session |-> {}]
  BY WatchAssumption DEF ChatInit
<1> QED BY <1>1 DEF ClientsOK

-----------------------------------------------------------------------------
ChatInv == ChatTypeOK /\ AllOK /\ (watched # {} => CallsOK /\ ClientsOK)

LEMMA WatchedStays == ChatTypeOK /\ [ChatNext]_chatVars => watched' = watched
<1>1. ASSUME ChatTypeOK, NEW w \in Session, SessionStep(w) PROVE watched' = watched
  BY <1>1, StepCalls
<1>2. ASSUME ChatTypeOK, PresenceServes PROVE watched' = watched
  BY <1>2, PresenceTakesOne
<1>3. ASSUME ChatTypeOK, PubSubServes PROVE watched' = watched
  BY <1>3, PubSubTakesOne
<1> QED BY <1>1, <1>2, <1>3 DEF ChatNext, SessionStep, chatVars

LEMMA SettledAgree == ChatInv => RoomsAgree
<1> SUFFICES ASSUME ChatInv, Settled, NEW r \in Room
             PROVE  LET present == {u \in online : r \in channels[u]}
                    IN /\ group[r] = present /\ tracked[r] = present /\ subscribed[r] = present
                       /\ \A u \in present \cap watched : users[u][r] = present
  BY DEF RoomsAgree
<1> DEFINE present == {u \in online : r \in channels[u]}
<1>1. /\ ChatTypeOK /\ AllOK /\ presenceQueue = <<>> /\ pubsubQueue = <<>>
      /\ group[r] \subseteq Session /\ tracked[r] \subseteq Session /\ subscribed[r] \subseteq Session
      /\ online \subseteq Session /\ watched \subseteq Session
      /\ users \in [Session -> [Room -> SUBSET Session]]
  BY DEF ChatInv, Settled, ChatTypeOK
<1>2. ASSUME NEW u \in Session
      PROVE  /\ doing[u] = AtRest /\ ~Entering(u, r) /\ ~Leaving(u, r)
             /\ u \notin online => channels[u] = {}
  <2>1. doing[u] = AtRest /\ (u \notin online => channels[u] = {})
    BY <1>1 DEF AllOK, SessionOK, DoingOK, Settled
  <2>2. AtRest.op = "none"
    BY DEF AtRest
  <2> QED BY <2>1, <2>2 DEF Entering, Leaving
<1>3. ASSUME NEW u \in Session
      PROVE  /\ u \in present <=> r \in channels[u]
             /\ u \in group[r] <=> r \in channels[u]
             /\ u \in tracked[r] <=> r \in channels[u]
             /\ u \in subscribed[r] <=> r \in channels[u]
             /\ Status(u, r) <=> r \in channels[u]
  <2>1. PlaceOK(u, r)
    BY <1>1 DEF AllOK, SessionOK
  <2>2. (ToBeTracked(u, r) <=> u \in tracked[r]) /\ (ToBeSubscribed(u, r) <=> u \in subscribed[r])
    <3>1. presenceQueue = <<>> /\ pubsubQueue = <<>>
      BY <1>1
    <3>2. DOMAIN presenceQueue = {} /\ DOMAIN pubsubQueue = {}
      BY <3>1
    <3> QED BY <3>2 DEF ToBeTracked, ToBeSubscribed, WillBe
  <2>3. u \in present <=> r \in channels[u]
    BY <1>2
  <2> HIDE DEF present
  <2> QED BY <1>2, <2>1, <2>2, <2>3 DEF PlaceOK, Status
<1>4. ASSUME NEW u \in present \cap watched
      PROVE  users[u][r] = present
  <2>1. u \in Session /\ u \in online /\ r \in channels[u] /\ ClientsOK
    BY <1>1 DEF ChatInv
  <2>2. letters[u] = <<>> /\ timers[u] = 0
    BY <2>1 DEF Settled
  <2>3. ASSUME NEW v \in Session PROVE v \in users[u][r] <=> Status(v, r)
    <3>1. Informed(u, r, v)
      BY <1>1, <2>1 DEF ClientsOK
    <3>2. AtRest.step = "none" /\ AtRest.op = "none"
      BY DEF AtRest
    <3>3. ~ToPush(u, r) /\ ~Pushes(u, r)
      BY <1>2, <2>1, <3>2 DEF ToPush, Pushes, Lists
    <3>4. ~Changing(v, r) /\ ~Broadcasts(r) /\ ~Prompted(u)
      BY <1>1, <2>2, WithinEmpty DEF Changing, Broadcasts, Prompted
    <3>5. Sound(u, r, v)
      BY <2>2, <3>1, <3>3, <3>4 DEF Informed, Coming
    <3>6. Cleaned(<<>>, users[u][r], Status(v, r), r, v)
      BY <2>2, <3>3, <3>5 DEF Sound
    <3> QED BY <3>6 DEF Cleaned
  <2>4. users[u][r] \subseteq Session
    BY <1>1, <2>1
  <2>5. present \subseteq Session
    BY <1>1
  <2> HIDE DEF present
  <2> QED BY <1>3, <2>3, <2>4, <2>5
<1>5. present \subseteq Session
  BY <1>1
<1> HIDE DEF present
<1>6. group[r] = present /\ tracked[r] = present /\ subscribed[r] = present
  BY <1>1, <1>3, <1>5
<1> QED BY <1>4, <1>6 DEF present

LEMMA ChatInvStarts == ASSUME ChatInit PROVE ChatInv
BY ChatStartsTyped, PlacesStartOK, CallsStartOK, ClientsStartOK DEF ChatInv

LEMMA ChatInvStays == ChatInv /\ [ChatNext]_chatVars => ChatInv'
BY ChatTyped, PlacesStayOK, CallsStayOK, ClientsStayOK, WatchedStays DEF ChatInv

LEMMA ChatHolds == ChatSpec => []ChatInv
<1>1. ChatInit => ChatInv
  BY ChatInvStarts
<1> QED BY <1>1, ChatInvStays, PTL DEF ChatSpec

(***************************************************************************)
(* Whatever joins, leaves, quits, lists and pushes met, and however many   *)
(* calls timed out: once the servers and the sessions have handled         *)
(* everything, the group, the presences and the subscribers of a room are  *)
(* the sessions in it, and the clients that are followed list those.       *)
(***************************************************************************)
THEOREM RoomsComeToAgree == ChatSpec => []RoomsAgree
BY ChatHolds, SettledAgree, PTL
=============================================================================
