-------------------------- MODULE GenServerProofs --------------------------
(***************************************************************************)
(* Proofs about GenServer, for any set of processes, any bounds, any       *)
(* operations and any encoding of the reasons of exits.                    *)
(***************************************************************************)
EXTENDS GenServer, FiniteSetTheorems, TLAPS

Boxes(S) == [Proc -> Seq(S)]

-----------------------------------------------------------------------------
(***************************************************************************)
(* What the mailboxes hold.  The same lemma serves the types and the       *)
(* invariant about replies: S is any set of messages that is closed under  *)
(* what the processes send.                                                *)
(***************************************************************************)
LEMMA PutTyping ==
    ASSUME NEW S, NEW boxes \in Boxes(S), NEW msg \in S, NEW p
    PROVE  Put(boxes, p, msg) \in Boxes(S)
  BY DEF Put, Boxes

LEMMA TailTyping ==
    ASSUME NEW S, NEW boxes \in Boxes(S), NEW p \in Proc, boxes[p] # <<>>
    PROVE  /\ Head(boxes[p]) \in S
           /\ [boxes EXCEPT ![p] = Tail(@)] \in Boxes(S)
  <1>1. boxes[p] \in Seq(S)
    BY DEF Boxes
  <1>2. Head(boxes[p]) \in S /\ Tail(boxes[p]) \in Seq(S)
    BY <1>1
  <1>3. QED
    BY <1>2 DEF Boxes

LEMMA EmptyTyping ==
    ASSUME NEW S, NEW boxes \in Boxes(S), NEW p
    PROVE  [boxes EXCEPT ![p] = <<>>] \in Boxes(S)
  <1>1. <<>> \in Seq(S)
    OBVIOUS
  <1>2. QED
    BY <1>1 DEF Boxes

LEMMA StashTyping ==
    ASSUME NEW S, NEW boxes \in Boxes(S), NEW msg \in S, NEW p \in Proc
    PROVE  [boxes EXCEPT ![p] = Append(@, msg)] \in Boxes(S)
  <1>1. Append(boxes[p], msg) \in Seq(S)
    BY DEF Boxes
  <1>2. QED
    BY <1>1 DEF Boxes

\* S has what can be sent in this step.
Closed(S) ==
    /\ \A m \in S : m.kind = "stop" => Msg("reply", m.ref, None) \in S
    /\ \A p \in Proc : cur[p].kind = "call" => Msg("reply", cur[p].ref, None) \in S
    /\ \A from \in deferred : Msg("reply", from.ref, None) \in S
    /\ \A p \in Proc : (\E q \in Proc : Call(p, q)) => Msg("call", nextRef, p) \in S
    /\ \A p \in Proc : (\E q \in Proc : Stop(p, q)) => Msg("stop", nextRef, p) \in S
    /\ \A ref \in ReasonRef, pid \in Proc : Msg("exit", ref, pid) \in S
    /\ \A kind \in {"cast", "timeout", "continue", "down"}, ref \in Nat,
          pid \in Proc \cup {None} : Msg(kind, ref, pid) \in S

LEMMA BoxesNext ==
    ASSUME NEW S, Closed(S), mailbox \in Boxes(S), stash \in Boxes(S), [Next]_vars
    PROVE  mailbox' \in Boxes(S) /\ stash' \in Boxes(S)
  <1> USE DecodeAssumption DEF Closed
  <1> DEFINE Kept == mailbox' \in Boxes(S) /\ stash' \in Boxes(S)
  <1>1. ASSUME NEW p \in Proc, LoopStep(p) PROVE Kept
    <2>1. CASE HandleStop(p)
      BY <2>1, TailTyping, PutTyping DEF HandleStop
    <2>2. CASE Terminated(p)
      BY <2>2, EmptyTyping DEF Terminated
    <2>3. CASE RunCallback(p) \/ Ignore(p) \/ HandleExit(p)
      <3>1. /\ mailbox[p] # <<>>
            /\ mailbox' = [mailbox EXCEPT ![p] = Tail(@)]
            /\ stash' = stash
        BY <2>3 DEF RunCallback, Ignore, HandleExit
      <3>2. QED
        BY <3>1, TailTyping
    <2>4. QED
      BY <1>1, <2>1, <2>2, <2>3 DEF LoopStep
  <1>2. ASSUME NEW p \in Proc, CallbackReturns(p) PROVE Kept
    <2>1. Msg("continue", 0, None) \in S
      OBVIOUS
    <2>2. ASSUME NEW next \in Next3, NEW boxes \in Boxes(S), Proceed(p, next, boxes)
          PROVE  mailbox' \in Boxes(S)
      BY <2>1, <2>2, PutTyping DEF Proceed
    <2>3. cur[p].kind = "call" => ReplyNow(p) \in Boxes(S)
      BY PutTyping DEF ReplyNow
    <2>4. CASE ReturnStop(p)
      <3>1. /\ \/ mailbox' = [mailbox EXCEPT ![p] = <<>>]
               \/ mailbox' = mailbox
               \/ cur[p].kind = "call" /\ mailbox' = ReplyNow(p)
            /\ stash' = stash
        BY <2>4 DEF ReturnStop
      <3>2. [mailbox EXCEPT ![p] = <<>>] \in Boxes(S)
        BY EmptyTyping
      <3>3. QED
        BY <2>3, <3>1, <3>2
    <2>5. ASSUME NEW next \in Next3, ReturnNoReply(p, next) PROVE Kept
      BY <2>2, <2>5 DEF ReturnNoReply
    <2>6. ASSUME NEW next \in Next3, ReturnReply(p, next) PROVE Kept
      BY <2>2, <2>3, <2>6 DEF ReturnReply
    <2>7. QED
      BY <1>2, <2>4, <2>5, <2>6 DEF CallbackReturns
  <1>3. ASSUME NEW p \in Proc, CallStep(p) PROVE Kept
    <2>1. CASE CallReceive(p)
      <3>1. /\ mailbox[p] # <<>>
            /\ mailbox' = [mailbox EXCEPT ![p] = Tail(@)]
            /\ \/ stash' = stash
               \/ stash' = [stash EXCEPT ![p] = Append(@, Head(mailbox[p]))]
        BY <2>1 DEF CallReceive
      <3>2. Head(mailbox[p]) \in S /\ mailbox' \in Boxes(S)
        BY <3>1, TailTyping
      <3>3. [stash EXCEPT ![p] = Append(@, Head(mailbox[p]))] \in Boxes(S)
        BY <3>2, StashTyping
      <3>4. QED
        BY <3>1, <3>2, <3>3
    <2>2. CASE CallTimeout(p) \/ CallReturn(p) \/ StopTimeout(p)
      BY <2>2 DEF CallTimeout, CallReturn, StopTimeout, StopReturn, StashAtTimeout
    <2>3. CASE ResendOne(p)
      BY <2>3, TailTyping, PutTyping DEF ResendOne, Resent
    <2>4. CASE StopReceive(p)
      BY <2>4, TailTyping DEF StopReceive, StopReturn
    <2>5. QED
      BY <1>3, <2>1, <2>2, <2>3, <2>4 DEF CallStep
  <1>4. ASSUME NEW p \in Proc, TimerFires(p) PROVE Kept
    <2>1. Msg("timeout", 0, None) \in S
      OBVIOUS
    <2>2. QED
      BY <1>4, <2>1, PutTyping DEF TimerFires
  <1>5. ASSUME NEW p \in Proc, NEW q \in Proc, Call(p, q) \/ Stop(p, q) PROVE Kept
    BY <1>5, PutTyping DEF Call, Stop, Ask
  <1>6. ASSUME NEW p \in Proc, Environment(p) PROVE Kept
    <2>1. ASSUME NEW kind, NEW ref, NEW pid, Msg(kind, ref, pid) \in S,
                 Incoming(p, kind, ref, pid)
          PROVE  Kept
      BY <2>1, PutTyping DEF Incoming
    <2>2. ASSUME Cast(p) PROVE Kept
      <3>1. Msg("cast", 0, None) \in S
        OBVIOUS
      <3>2. QED
        BY <2>1, <2>2, <3>1 DEF Cast
    <2>3. ASSUME NEW q \in Proc, NEW ref \in ReasonRef, ExitSignal(p, q, ref)
          PROVE  Kept
      <3>1. Msg("exit", ref, q) \in S
        OBVIOUS
      <3>2. QED
        BY <2>1, <2>3, <3>1 DEF ExitSignal
    <2>4. ASSUME NEW q \in Proc, NEW ref \in Ref, Down(p, q, ref) PROVE Kept
      <3>1. Msg("down", ref, q) \in S
        BY DEF Ref
      <3>2. QED
        BY <2>1, <2>4, <3>1 DEF Down
    <2>5. QED
      BY <1>6, <2>2, <2>3, <2>4 DEF Environment
  <1>7. ASSUME NEW from \in deferred, Reply(from) PROVE Kept
    BY <1>7, PutTyping DEF Reply
  <1>8. CASE UNCHANGED vars
    BY <1>8 DEF vars
  <1>9. QED
    BY <1>1, <1>2, <1>3, <1>4, <1>5, <1>6, <1>7, <1>8 DEF Next

-----------------------------------------------------------------------------
LEMMA MessageTyping ==
    ASSUME NEW kind \in Kind, NEW ref \in Nat, NEW pid \in Proc \cup {None}
    PROVE  Msg(kind, ref, pid) \in Message
  BY DEF Msg, Message

LEMMA DecodeTyping ==
    ASSUME NEW msg \in Message
    PROVE  /\ Decode(msg) \in Message
           /\ Decode(msg).ref = msg.ref
           /\ Decode(msg).pid = msg.pid
           /\ Decode(msg).kind # msg.kind =>
                 \/ msg.kind = "exit" /\ msg.ref # 0 /\ Decode(msg).kind = "call"
                 \/ msg.kind = "down" /\ Decode(msg).kind = "cast"
  BY DEF Decode, Message, Kind

LEMMA MessagesClosed == TypeOK => Closed(Message)
  <1> SUFFICES ASSUME TypeOK PROVE Closed(Message)
    OBVIOUS
  <1> USE DEF Kind
  <1>1. \A m \in Message : Msg("reply", m.ref, None) \in Message
    BY MessageTyping DEF Message
  <1>2. \A p \in Proc : Msg("reply", cur[p].ref, None) \in Message
    BY MessageTyping DEF Message, TypeOK
  <1>3. \A from \in deferred : Msg("reply", from.ref, None) \in Message
    BY MessageTyping DEF TypeOK
  <1>4. \A p \in Proc : /\ Msg("call", nextRef, p) \in Message
                        /\ Msg("stop", nextRef, p) \in Message
    <2>1. nextRef \in Nat
      BY BoundAssumption DEF TypeOK
    <2>2. QED
      BY <2>1, MessageTyping
  <1>5. QED
    BY <1>1, <1>2, <1>3, <1>4, MessageTyping, DecodeAssumption DEF Closed

LEMMA BoxesTyping ==
    TypeOK /\ [Next]_vars => mailbox' \in Boxes(Message) /\ stash' \in Boxes(Message)
  BY MessagesClosed, BoxesNext DEF TypeOK, Boxes

\* The places of the code and the locals that go with them.
PlaceOK(p) ==
    /\ pc[p] \in {"calling", "resend", "stopping"} <=> callRef[p] # 0
    /\ pc[p] \in {"loop", "terminate", "ended"} <=> cur[p] = NoMsg
    /\ stash[p] # <<>> => pc[p] \in {"calling", "resend"}

LocalTypes ==
    /\ pc \in [Proc -> PC]
    /\ cur \in [Proc -> Message]
    /\ callRef \in [Proc -> 0 .. MaxRef]
    /\ timers \in [Proc -> 0 .. MaxTimer]
    /\ deferred \subseteq [ref : Nat, pid : Proc \cup {None}]
    /\ nextRef \in 1 .. MaxRef + 1
    /\ served \in [Ref -> Nat]
    /\ outcome \in [Ref -> Outcome]

LEMMA LocalsNext == TypeOK /\ [Next]_vars => LocalTypes'
  <1> SUFFICES ASSUME TypeOK, [Next]_vars PROVE LocalTypes'
    OBVIOUS
  <1> USE BoundAssumption DEF LocalTypes
  <1>a. InitMsg \in Message /\ NoMsg \in Message
    BY MessageTyping DEF InitMsg, NoMsg, Kind
  <1>1. ASSUME NEW p \in Proc, LoopStep(p) PROVE LocalTypes'
    <2>1. CASE RunCallback(p)
      <3>1. Head(mailbox[p]) \in Message
        BY <2>1, TailTyping DEF RunCallback, TypeOK, Boxes
      <3>2. Decode(Head(mailbox[p])) \in Message
        BY <3>1, DecodeTyping
      <3>3. served' \in [Ref -> Nat]
        <4>1. \/ served' = served
              \/ \E r \in Nat : served' = [served EXCEPT ![r] = @ + 1]
          BY <2>1, <3>2 DEF RunCallback, Message
        <4>2. ASSUME NEW r \in Nat, served' = [served EXCEPT ![r] = @ + 1]
              PROVE  served' \in [Ref -> Nat]
          <5>1. \A x \in Ref : [served EXCEPT ![r] = @ + 1][x] \in Nat
            BY DEF TypeOK
          <5>2. QED
            BY <4>2, <5>1 DEF TypeOK
        <4>3. QED
          BY <4>1, <4>2 DEF TypeOK
      <3>4. cur' \in [Proc -> Message] /\ pc' \in [Proc -> PC]
        BY <2>1, <3>2 DEF RunCallback, TypeOK, PC
      <3>5. QED
        BY <2>1, <3>3, <3>4 DEF RunCallback, TypeOK
    <2>2. CASE HandleStop(p) \/ Terminated(p) \/ Ignore(p) \/ HandleExit(p)
      BY <2>2 DEF HandleStop, Terminated, Ignore, HandleExit, TypeOK, PC
    <2>3. QED
      BY <1>1, <2>1, <2>2 DEF LoopStep
  <1>2. ASSUME NEW p \in Proc, CallbackReturns(p) PROVE LocalTypes'
    <2>1. ASSUME NEW next \in Next3, NEW boxes, Proceed(p, next, boxes)
          PROVE  timers' \in [Proc -> 0 .. MaxTimer]
      BY <2>1 DEF Proceed, TypeOK
    <2>2. CASE ReturnStop(p)
      BY <1>a, <2>2 DEF ReturnStop, TypeOK, PC
    <2>3. ASSUME NEW next \in Next3, ReturnNoReply(p, next) PROVE LocalTypes'
      <3>1. deferred' \subseteq [ref : Nat, pid : Proc \cup {None}]
        BY <2>3 DEF ReturnNoReply, TypeOK, Message
      <3>2. QED
        BY <1>a, <2>1, <2>3, <3>1 DEF ReturnNoReply, TypeOK, PC
    <2>4. ASSUME NEW next \in Next3, ReturnReply(p, next) PROVE LocalTypes'
      BY <1>a, <2>1, <2>4 DEF ReturnReply, TypeOK, PC
    <2>5. QED
      BY <1>2, <2>2, <2>3, <2>4 DEF CallbackReturns
  <1>3. ASSUME NEW p \in Proc, CallStep(p) PROVE LocalTypes'
    <2>1. CASE CallReceive(p)
      BY <2>1 DEF CallReceive, TypeOK, PC, Outcome
    <2>2. CASE CallTimeout(p)
      BY <2>2 DEF CallTimeout, TypeOK, PC, Outcome
    <2>3. CASE ResendOne(p)
      BY <2>3 DEF ResendOne, TypeOK
    <2>4. CASE CallReturn(p)
      BY <2>4 DEF CallReturn, TypeOK, PC
    <2>5. ASSUME NEW boxes, NEW result \in {"ok", "timeout"},
                 StopReturn(p, boxes, result)
          PROVE  LocalTypes'
      <3>1. pc' \in [Proc -> PC]
        BY <2>5 DEF StopReturn, TypeOK, PC
      <3>2. 0 \in 0 .. MaxRef
        OBVIOUS
      <3>3. callRef' \in [Proc -> 0 .. MaxRef]
        BY <2>5, <3>2 DEF StopReturn, TypeOK
      <3>4. result \in Outcome
        BY DEF Outcome
      <3>5. outcome' \in [Ref -> Outcome]
        BY <2>5, <3>4 DEF StopReturn, TypeOK
      <3>6. QED
        BY <2>5, <3>1, <3>3, <3>5 DEF StopReturn, TypeOK
    <2>6. QED
      BY <1>3, <2>1, <2>2, <2>3, <2>4, <2>5 DEF CallStep, StopReceive, StopTimeout
  <1>4. ASSUME NEW p \in Proc, TimerFires(p) PROVE LocalTypes'
    BY <1>4 DEF TimerFires, TypeOK
  <1>5. ASSUME NEW p \in Proc, NEW q \in Proc, NEW kind \in Kind,
               NEW step \in {"calling", "stopping"}, Ask(p, q, kind, step)
        PROVE  LocalTypes'
    <2>1. nextRef \in 1 .. MaxRef /\ nextRef' = nextRef + 1
      BY <1>5 DEF Ask, Ref
    <2>2. pc' \in [Proc -> PC]
      BY <1>5 DEF Ask, TypeOK, PC
    <2>5. callRef' \in [Proc -> 0 .. MaxRef]
      <3>1. nextRef \in 0 .. MaxRef
        BY <2>1
      <3>2. QED
        BY <1>5, <3>1 DEF Ask, TypeOK
    <2>3. outcome' \in [Ref -> Outcome]
      BY <1>5 DEF Ask, TypeOK, Outcome
    <2>4. QED
      BY <1>5, <2>1, <2>2, <2>3, <2>5 DEF Ask, TypeOK
  <1>6. ASSUME NEW p \in Proc, Environment(p) PROVE LocalTypes'
    BY <1>6 DEF Environment, Cast, ExitSignal, Down, Incoming, TypeOK
  <1>7. ASSUME NEW from \in deferred, Reply(from) PROVE LocalTypes'
    BY <1>7 DEF Reply, TypeOK
  <1>8. CASE UNCHANGED vars
    BY <1>8 DEF vars, TypeOK
  <1>9. ASSUME NEW p \in Proc, NEW q \in Proc, Call(p, q) \/ Stop(p, q)
        PROVE  LocalTypes'
    BY <1>5, <1>9 DEF Call, Stop, Kind
  <1>10. QED
    BY <1>1, <1>2, <1>3, <1>4, <1>6, <1>7, <1>8, <1>9 DEF Next

LEMMA PlaceNext == TypeOK /\ [Next]_vars => \A p \in Proc : PlaceOK(p)'
  <1> SUFFICES ASSUME TypeOK, [Next]_vars, NEW a \in Proc PROVE PlaceOK(a)'
    OBVIOUS
  <1>a. PlaceOK(a) /\ stash[a] \in Seq(Message)
    BY DEF TypeOK, PlaceOK
  <1> USE DEF PlaceOK
  <1>b. InitMsg # NoMsg /\ NoMsg.kind = "none"
    BY DEF InitMsg, NoMsg, Msg
  <1>1. ASSUME NEW p \in Proc, LoopStep(p) PROVE PlaceOK(a)'
    <2>1. CASE RunCallback(p)
      <3>1. Decode(Head(mailbox[p])) # NoMsg
        BY <1>b, <2>1 DEF RunCallback, HasCallback
      <3>2. QED
        BY <1>a, <2>1, <3>1 DEF RunCallback, TypeOK
    <2>2. CASE HandleStop(p) \/ Terminated(p) \/ Ignore(p) \/ HandleExit(p)
      BY <1>a, <2>2 DEF HandleStop, Terminated, Ignore, HandleExit, TypeOK
    <2>3. QED
      BY <1>1, <2>1, <2>2 DEF LoopStep
  <1>2. ASSUME NEW p \in Proc, CallbackReturns(p) PROVE PlaceOK(a)'
    BY <1>a, <1>2 DEF CallbackReturns, ReturnStop, ReturnNoReply, ReturnReply, TypeOK
  <1>3. ASSUME NEW p \in Proc, CallStep(p) PROVE PlaceOK(a)'
    <2>1. CASE CallReceive(p)
      BY <1>a, <2>1 DEF CallReceive, TypeOK
    <2>2. CASE CallTimeout(p)
      BY <1>a, <2>2 DEF CallTimeout, StashAtTimeout, TypeOK
    <2>3. CASE ResendOne(p)
      BY <1>a, <2>3 DEF ResendOne, TypeOK
    <2>4. CASE CallReturn(p)
      BY <1>a, <2>4 DEF CallReturn, AllResent, TypeOK
    <2>5. CASE StopReceive(p) \/ StopTimeout(p)
      BY <1>a, <2>5 DEF StopReceive, StopTimeout, StopReturn, TypeOK
    <2>6. QED
      BY <1>3, <2>1, <2>2, <2>3, <2>4, <2>5 DEF CallStep
  <1>4. ASSUME NEW p \in Proc, NEW q \in Proc, Call(p, q) \/ Stop(p, q)
        PROVE  PlaceOK(a)'
    <2>1. nextRef \in Ref => nextRef # 0
      BY DEF Ref
    <2>2. QED
      BY <1>a, <1>4, <2>1 DEF Call, Stop, Ask, TypeOK
  <1>5. CASE UNCHANGED <<pc, cur, callRef, stash>>
    BY <1>a, <1>5
  <1>6. ASSUME NEW p \in Proc, TimerFires(p) \/ Environment(p)
        PROVE  UNCHANGED <<pc, cur, callRef, stash>>
    BY <1>6 DEF TimerFires, Environment, Cast, ExitSignal, Down, Incoming
  <1>7. ASSUME NEW from \in deferred, Reply(from)
        PROVE  UNCHANGED <<pc, cur, callRef, stash>>
    BY <1>7 DEF Reply
  <1>8. QED
    BY <1>1, <1>2, <1>3, <1>4, <1>5, <1>6, <1>7 DEF Next, vars

LEMMA TypeInit == Init => TypeOK
  <1>1. InitMsg \in Message /\ NoMsg \in Message /\ InitMsg # NoMsg
    BY MessageTyping DEF InitMsg, NoMsg, Kind, Msg
  <1>2. QED
    BY <1>1, BoundAssumption DEF Init, TypeOK, PC, Outcome

(***************************************************************************)
(* Every variable keeps its type, and a process is in call or stop exactly *)
(* when it has a reference to wait for, and in a callback exactly when it  *)
(* has a message.                                                          *)
(***************************************************************************)
THEOREM TypeCorrect == Spec => []TypeOK
  <1>1. TypeOK /\ [Next]_vars => TypeOK'
    BY BoxesTyping, LocalsNext, PlaceNext DEF TypeOK, LocalTypes, PlaceOK, Boxes
  <1>2. QED
    BY TypeInit, <1>1, PTL DEF Spec

-----------------------------------------------------------------------------
(***************************************************************************)
(* AnswerIsOwn.  A reference is settled when its request was handled, or   *)
(* when no call waits for it: it was never a call's, or the call has       *)
(* returned.  Every reply on its way has a settled reference, and so has   *)
(* every reply that is still to be sent, with one exception that the       *)
(* statement makes explicit: an exit message that decodes as a call is     *)
(* answered with the reference its reason happens to spell.                *)
(***************************************************************************)
InCall(p) == pc[p] \in {"calling", "resend"}

NotCalled(r) == r < nextRef /\ \A p \in Proc : InCall(p) => callRef[p] # r

Settled(r) ==
    \/ r \in ReasonRef
    \/ r \in Ref /\ served[r] > 0
    \/ NotCalled(r)

\* The messages that may be on their way.
Sound ==
    {m \in Message :
        /\ m.kind = "call" => m.ref \in Ref
        /\ m.kind = "stop" => NotCalled(m.ref)
        /\ m.kind = "exit" => m.ref \in ReasonRef
        /\ m.kind = "reply" => Settled(m.ref)}

\* No two processes wait for the same reference.
RefIsOwn(p) ==
    /\ callRef[p] < nextRef
    /\ \A q \in Proc : q # p /\ callRef[p] # 0 => callRef[q] # callRef[p]

CurIsSettled(p) == cur[p].kind = "call" => Settled(cur[p].ref)

AnswerIsDue(p) ==
    pc[p] = "resend" /\ outcome[callRef[p]] = "ok" =>
        callRef[p] \in ReasonRef \/ served[callRef[p]] > 0

ReplyInv ==
    /\ mailbox \in Boxes(Sound) /\ stash \in Boxes(Sound)
    /\ \A p \in Proc : RefIsOwn(p) /\ CurIsSettled(p) /\ AnswerIsDue(p)
    /\ \A from \in deferred : Settled(from.ref)

LEMMA ReplyInit == Init => ReplyInv
  <1> SUFFICES ASSUME Init PROVE ReplyInv
    OBVIOUS
  <1>1. mailbox \in Boxes(Sound) /\ stash \in Boxes(Sound)
    BY DEF Init, Boxes
  <1>2. \A p \in Proc : RefIsOwn(p) /\ CurIsSettled(p) /\ AnswerIsDue(p)
    <2> SUFFICES ASSUME NEW p \in Proc PROVE RefIsOwn(p) /\ CurIsSettled(p) /\ AnswerIsDue(p)
      OBVIOUS
    <2>1. callRef[p] = 0 /\ nextRef = 1 /\ pc[p] = "callback" /\ cur[p].kind = "init"
      BY DEF Init, InitMsg, Msg
    <2>2. QED
      BY <2>1 DEF RefIsOwn, CurIsSettled, AnswerIsDue
  <1>3. QED
    BY <1>1, <1>2 DEF ReplyInv, Init

\* A process begins to wait only for a new reference, and counters grow.
LEMMA WaitsNext ==
    ASSUME TypeOK, [Next]_vars
    PROVE  /\ nextRef' \in Nat /\ nextRef \in Nat /\ nextRef <= nextRef'
           /\ \A r \in Ref : served[r] > 0 => served'[r] > 0
           /\ \A a \in Proc :
                 \/ callRef'[a] = callRef[a] /\ (InCall(a)' => InCall(a))
                 \/ callRef'[a] = 0 /\ ~InCall(a)'
                 \/ callRef'[a] = nextRef /\ nextRef \in Ref /\ nextRef' = nextRef + 1
  <1> DEFINE Waits(a) == \/ callRef'[a] = callRef[a] /\ (InCall(a)' => InCall(a))
                         \/ callRef'[a] = 0 /\ ~InCall(a)'
                         \/ callRef'[a] = nextRef /\ nextRef \in Ref /\ nextRef' = nextRef + 1
             Counts == \A r \in Ref : served[r] > 0 => served'[r] > 0
  <1> USE DEF InCall
  <1>0. nextRef \in Nat /\ nextRef + 1 \in Nat /\ nextRef <= nextRef + 1 /\ nextRef <= nextRef
    BY BoundAssumption DEF TypeOK
  <1>1. ASSUME NEW a \in Proc, NEW p \in Proc, RunCallback(p)
        PROVE  Waits(a) /\ nextRef' = nextRef
    BY <1>1 DEF RunCallback, TypeOK
  <1>2. ASSUME NEW p \in Proc, RunCallback(p) PROVE Counts
    BY <1>2 DEF RunCallback, TypeOK
  <1>3. ASSUME NEW a \in Proc, NEW p \in Proc,
               HandleStop(p) \/ Terminated(p) \/ Ignore(p) \/ HandleExit(p)
        PROVE  Waits(a) /\ nextRef' = nextRef /\ served' = served
    BY <1>3 DEF HandleStop, Terminated, Ignore, HandleExit, TypeOK
  <1>4. ASSUME NEW a \in Proc, NEW p \in Proc, CallbackReturns(p)
        PROVE  Waits(a) /\ nextRef' = nextRef /\ served' = served
    BY <1>4 DEF CallbackReturns, ReturnStop, ReturnNoReply, ReturnReply, TypeOK
  <1>5. ASSUME NEW a \in Proc, NEW p \in Proc, CallStep(p)
        PROVE  Waits(a) /\ nextRef' = nextRef /\ served' = served
    <2>1. CASE CallReceive(p)
      BY <2>1 DEF CallReceive, TypeOK
    <2>2. CASE CallTimeout(p)
      BY <2>2 DEF CallTimeout, TypeOK
    <2>3. CASE ResendOne(p)
      BY <2>3 DEF ResendOne, TypeOK
    <2>4. CASE CallReturn(p)
      BY <2>4 DEF CallReturn, TypeOK
    <2>5. CASE StopReceive(p) \/ StopTimeout(p)
      BY <2>5 DEF StopReceive, StopTimeout, StopReturn, TypeOK
    <2>6. QED
      BY <1>5, <2>1, <2>2, <2>3, <2>4, <2>5 DEF CallStep
  <1>6. ASSUME NEW a \in Proc, NEW p \in Proc, NEW q \in Proc, Call(p, q) \/ Stop(p, q)
        PROVE  Waits(a) /\ nextRef' = nextRef + 1 /\ served' = served
    BY <1>6 DEF Call, Stop, Ask, TypeOK
  <1>7. ASSUME NEW p \in Proc, TimerFires(p) \/ Environment(p)
        PROVE  UNCHANGED <<pc, callRef, nextRef, served>>
    BY <1>7 DEF TimerFires, Environment, Cast, ExitSignal, Down, Incoming
  <1>8. ASSUME NEW from \in deferred, Reply(from)
        PROVE  UNCHANGED <<pc, callRef, nextRef, served>>
    BY <1>8 DEF Reply
  <1>9. ASSUME NEW a \in Proc PROVE Waits(a)
    BY <1>1, <1>3, <1>4, <1>5, <1>6, <1>7, <1>8, <1>9 DEF Next, LoopStep, vars
  <1>10. Counts
    BY <1>2, <1>3, <1>4, <1>5, <1>6, <1>7, <1>8 DEF Next, LoopStep, vars
  <1>11. nextRef' = nextRef \/ nextRef' = nextRef + 1
    BY <1>1, <1>3, <1>4, <1>5, <1>6, <1>7, <1>8 DEF Next, LoopStep, vars
  <1>12. QED
    BY <1>0, <1>9, <1>10, <1>11

LEMMA SettledStays ==
    ASSUME TypeOK, [Next]_vars, NEW r \in Nat
    PROVE  /\ NotCalled(r) => NotCalled(r)'
           /\ Settled(r) => Settled(r)'
  <1>1. NotCalled(r) => NotCalled(r)'
    BY WaitsNext DEF NotCalled
  <1>2. QED
    BY <1>1, WaitsNext DEF Settled

LEMMA SoundStays == TypeOK /\ [Next]_vars => Sound \subseteq Sound'
  BY SettledStays DEF Sound, Message

\* What is sent next is sound.
LEMMA SoundClosed == TypeOK /\ ReplyInv /\ [Next]_vars => Closed(Sound')
  <1> SUFFICES ASSUME TypeOK, ReplyInv, [Next]_vars PROVE Closed(Sound')
    OBVIOUS
  <1> USE DEF Kind
  <1>1. ASSUME NEW r \in Nat, Settled(r)' PROVE Msg("reply", r, None) \in Sound'
    BY <1>1, MessageTyping DEF Sound, Msg
  <1>2. ASSUME NEW m \in Sound', m.kind = "stop" PROVE Msg("reply", m.ref, None) \in Sound'
    BY <1>1, <1>2 DEF Sound, Settled, Message
  <1>3. ASSUME NEW p \in Proc, cur[p].kind = "call"
        PROVE  Msg("reply", cur[p].ref, None) \in Sound'
    BY <1>1, <1>3, SettledStays DEF ReplyInv, CurIsSettled, TypeOK, Message
  <1>4. ASSUME NEW from \in deferred PROVE Msg("reply", from.ref, None) \in Sound'
    <2>1. from.ref \in Nat
      BY DEF TypeOK
    <2>2. QED
      BY <1>1, <2>1, SettledStays DEF ReplyInv
  <1>5. ASSUME NEW p \in Proc, NEW q \in Proc, Call(p, q)
        PROVE  Msg("call", nextRef, p) \in Sound'
    <2>1. nextRef \in Ref /\ nextRef \in Nat
      BY <1>5 DEF Call, Ask, Ref
    <2>2. QED
      BY <2>1, MessageTyping DEF Sound, Msg
  <1>6. ASSUME NEW p \in Proc, NEW q \in Proc, Stop(p, q)
        PROVE  Msg("stop", nextRef, p) \in Sound'
    <2>1. nextRef \in Ref /\ nextRef \in Nat /\ nextRef' = nextRef + 1
      BY <1>6 DEF Stop, Ask, Ref
    <2>2. ASSUME NEW a \in Proc, InCall(a)' PROVE callRef'[a] # nextRef
      <3>1. callRef[a] # nextRef
        BY <2>1 DEF ReplyInv, RefIsOwn, TypeOK
      <3>2. a # p
        BY <1>6, <2>2 DEF Stop, Ask, InCall, TypeOK
      <3>3. QED
        BY <1>6, <3>1, <3>2 DEF Stop, Ask, TypeOK
    <2>3. ASSUME NEW r \in Nat, r = nextRef PROVE Msg("stop", r, p) \in Sound'
      <3>1. NotCalled(r)'
        BY <2>1, <2>2, <2>3 DEF NotCalled
      <3>2. QED
        BY <3>1, MessageTyping DEF Sound, Msg
    <2>4. QED
      BY <2>1, <2>3
  <1>7. ASSUME NEW ref \in ReasonRef, NEW pid \in Proc
        PROVE  Msg("exit", ref, pid) \in Sound'
    <2>1. ref \in Nat
      BY DecodeAssumption
    <2>2. QED
      BY <2>1, MessageTyping DEF Sound, Msg
  <1>8. ASSUME NEW kind \in {"cast", "timeout", "continue", "down"}, NEW ref \in Nat,
               NEW pid \in Proc \cup {None}
        PROVE  Msg(kind, ref, pid) \in Sound'
    BY MessageTyping DEF Sound, Msg
  <1>9. QED
    BY <1>2, <1>3, <1>4, <1>5, <1>6, <1>7, <1>8 DEF Closed

\* Who begins to wait, which message a callback gets, which answers come, and
\* which replies are put off.
LEMMA AskNew ==
    ASSUME TypeOK, [Next]_vars, NEW c \in Proc, callRef'[c] # callRef[c], callRef'[c] # 0
    PROVE  \E d \in Proc : Call(c, d) \/ Stop(c, d)
  <1>1. ASSUME NEW p \in Proc, LoopStep(p) PROVE callRef' = callRef
    BY <1>1 DEF LoopStep, RunCallback, HandleStop, Terminated, Ignore, HandleExit
  <1>2. ASSUME NEW p \in Proc, CallbackReturns(p) PROVE callRef' = callRef
    BY <1>2 DEF CallbackReturns, ReturnStop, ReturnNoReply, ReturnReply
  <1>3. ASSUME NEW p \in Proc, CallStep(p) PROVE callRef'[c] \in {callRef[c], 0}
    BY <1>3 DEF CallStep, CallReceive, CallTimeout, ResendOne, CallReturn, StopReceive,
                StopTimeout, StopReturn, TypeOK
  <1>4. ASSUME NEW p \in Proc, TimerFires(p) \/ Environment(p) PROVE callRef' = callRef
    BY <1>4 DEF TimerFires, Environment, Cast, ExitSignal, Down, Incoming
  <1>5. ASSUME NEW from \in deferred, Reply(from) PROVE callRef' = callRef
    BY <1>5 DEF Reply
  <1>6. ASSUME NEW p \in Proc, NEW q \in Proc, Call(p, q) \/ Stop(p, q)
        PROVE  p = c
    BY <1>6 DEF Call, Stop, Ask, TypeOK
  <1>7. QED
    BY <1>1, <1>2, <1>3, <1>4, <1>5, <1>6 DEF Next, vars

LEMMA CurEffect ==
    ASSUME TypeOK, [Next]_vars, NEW a \in Proc
    PROVE  cur'[a] = cur[a] \/ cur'[a] = NoMsg \/ RunCallback(a)
  <1> DEFINE Same == cur'[a] = cur[a] \/ cur'[a] = NoMsg
  <1>1. ASSUME NEW p \in Proc, LoopStep(p) PROVE Same \/ RunCallback(a)
    <2>1. ASSUME RunCallback(p), p # a PROVE Same
      BY <2>1 DEF RunCallback, TypeOK
    <2>2. CASE HandleStop(p) \/ Terminated(p) \/ Ignore(p) \/ HandleExit(p)
      BY <2>2 DEF HandleStop, Terminated, Ignore, HandleExit
    <2>3. QED
      BY <1>1, <2>1, <2>2 DEF LoopStep
  <1>2. ASSUME NEW p \in Proc, CallbackReturns(p) PROVE Same
    BY <1>2 DEF CallbackReturns, ReturnStop, ReturnNoReply, ReturnReply, TypeOK
  <1>3. ASSUME NEW p \in Proc, CallStep(p) PROVE Same
    BY <1>3 DEF CallStep, CallReceive, CallTimeout, ResendOne, CallReturn, StopReceive,
                StopTimeout, StopReturn
  <1>4. ASSUME NEW p \in Proc, TimerFires(p) \/ Environment(p) PROVE Same
    BY <1>4 DEF TimerFires, Environment, Cast, ExitSignal, Down, Incoming
  <1>5. ASSUME NEW from \in deferred, Reply(from) PROVE Same
    BY <1>5 DEF Reply
  <1>6. ASSUME NEW p \in Proc, NEW q \in Proc, Call(p, q) \/ Stop(p, q) PROVE Same
    BY <1>6 DEF Call, Stop, Ask
  <1>7. QED
    BY <1>1, <1>2, <1>3, <1>4, <1>5, <1>6 DEF Next, vars

LEMMA ResendEffect ==
    ASSUME TypeOK, ReplyInv, [Next]_vars, NEW a \in Proc,
           pc'[a] = "resend", outcome'[callRef'[a]] = "ok"
    PROVE  \/ CallReceive(a) /\ IsReply(a, Head(mailbox[a]))
           \/ /\ pc[a] = "resend" /\ callRef'[a] = callRef[a]
              /\ outcome'[callRef[a]] = outcome[callRef[a]]
  <1> DEFINE Stays == /\ pc[a] = "resend" /\ callRef'[a] = callRef[a]
                      /\ outcome'[callRef[a]] = outcome[callRef[a]]
  <1>a. /\ \A b \in Proc : callRef[b] \in Nat /\ callRef[b] < nextRef
        /\ \A b, c \in Proc : c # b /\ callRef[b] # 0 => callRef[c] # callRef[b]
        /\ nextRef \in Nat
    BY BoundAssumption DEF ReplyInv, RefIsOwn, TypeOK
  <1>b. pc[a] = "resend" => callRef[a] \in Ref
    BY BoundAssumption DEF TypeOK, Ref
  <1>1. ASSUME NEW p \in Proc, LoopStep(p) PROVE Stays
    BY <1>1 DEF LoopStep, RunCallback, HandleStop, Terminated, Ignore, HandleExit, TypeOK
  <1>2. ASSUME NEW p \in Proc, CallbackReturns(p) PROVE Stays
    BY <1>2 DEF CallbackReturns, ReturnStop, ReturnNoReply, ReturnReply, TypeOK
  <1>3. ASSUME NEW p \in Proc, CallReceive(p)
        PROVE  Stays \/ (CallReceive(a) /\ IsReply(a, Head(mailbox[a])))
    <2>1. CASE p = a
      BY <1>3, <2>1 DEF CallReceive, TypeOK
    <2>2. CASE p # a
      <3>1. pc[a] = "resend" /\ callRef' = callRef
        BY <1>3, <2>2 DEF CallReceive, TypeOK
      <3>2. callRef[p] # callRef[a]
        BY <1>3, <1>a, <2>2 DEF CallReceive, TypeOK
      <3>3. QED
        BY <1>3, <1>b, <3>1, <3>2 DEF CallReceive, TypeOK
    <2>3. QED
      BY <2>1, <2>2
  <1>4. ASSUME NEW p \in Proc, CallTimeout(p) PROVE Stays
    <2>1. callRef[p] \in Ref /\ callRef' = callRef
      BY <1>4, BoundAssumption DEF CallTimeout, TypeOK, Ref
    <2>2. p # a
      BY <1>4, <2>1 DEF CallTimeout, TypeOK
    <2>3. pc[a] = "resend"
      BY <1>4, <2>2 DEF CallTimeout, TypeOK
    <2>4. callRef[p] # callRef[a]
      BY <1>a, <2>1, <2>2, <2>3 DEF TypeOK
    <2>5. QED
      BY <1>4, <1>b, <2>1, <2>3, <2>4 DEF CallTimeout, TypeOK
  <1>5. ASSUME NEW p \in Proc, ResendOne(p) PROVE Stays
    BY <1>5 DEF ResendOne
  <1>6. ASSUME NEW p \in Proc, CallReturn(p) PROVE Stays
    BY <1>6 DEF CallReturn, TypeOK
  <1>7. ASSUME NEW p \in Proc, StopReceive(p) \/ StopTimeout(p) PROVE Stays
    <2>1. p # a /\ pc[a] = "resend" /\ callRef'[a] = callRef[a]
      BY <1>7 DEF StopReceive, StopTimeout, StopReturn, TypeOK
    <2>2. callRef[p] # callRef[a]
      BY <1>7, <1>a, <2>1 DEF StopReceive, StopTimeout, StopReturn, TypeOK
    <2>3. QED
      BY <1>7, <1>b, <2>1, <2>2 DEF StopReceive, StopTimeout, StopReturn, TypeOK
  <1>8. ASSUME NEW p \in Proc, TimerFires(p) \/ Environment(p) PROVE Stays
    BY <1>8 DEF TimerFires, Environment, Cast, ExitSignal, Down, Incoming
  <1>9. ASSUME NEW from \in deferred, Reply(from) PROVE Stays
    BY <1>9 DEF Reply
  <1>10. ASSUME NEW p \in Proc, NEW q \in Proc, NEW kind, NEW step \in {"calling", "stopping"},
                Ask(p, q, kind, step)
         PROVE  Stays
    <2>1. p # a /\ pc[a] = "resend" /\ callRef'[a] = callRef[a]
      BY <1>10 DEF Ask, TypeOK
    <2>2. nextRef # callRef[a]
      BY <1>a
    <2>3. QED
      BY <1>10, <1>b, <2>1, <2>2 DEF Ask, TypeOK
  <1>11. QED
    BY <1>1, <1>2, <1>3, <1>4, <1>5, <1>6, <1>7, <1>8, <1>9, <1>10
       DEF Next, vars, CallStep, Call, Stop

LEMMA DeferredNext ==
    ASSUME TypeOK, ReplyInv, [Next]_vars
    PROVE  \A from \in deferred' : Settled(from.ref)'
  <1> SUFFICES ASSUME NEW from \in deferred' PROVE Settled(from.ref)'
    OBVIOUS
  <1>1. CASE from \in deferred
    BY <1>1, SettledStays DEF ReplyInv, TypeOK
  <1>2. ASSUME NEW p \in Proc, cur[p].kind = "call", from.ref = cur[p].ref
        PROVE  Settled(from.ref)'
    BY <1>2, SettledStays DEF ReplyInv, CurIsSettled, TypeOK, Message
  <1>3. ASSUME NEW p \in Proc, NEW next \in Next3, ReturnNoReply(p, next)
        PROVE  Settled(from.ref)'
    BY <1>1, <1>2, <1>3 DEF ReturnNoReply
  <1>4. CASE deferred' \subseteq deferred
    BY <1>1, <1>4
  <1>5. ASSUME NEW p \in Proc,
               LoopStep(p) \/ CallStep(p) \/ TimerFires(p) \/ Environment(p)
                   \/ \E q \in Proc : Call(p, q) \/ Stop(p, q)
        PROVE  deferred' = deferred
    BY <1>5 DEF LoopStep, RunCallback, HandleStop, Terminated, Ignore, HandleExit,
                CallStep, CallReceive, CallTimeout, ResendOne, CallReturn, StopReceive,
                StopTimeout, StopReturn, TimerFires, Environment, Cast, ExitSignal,
                Down, Incoming, Call, Stop, Ask
  <1>6. ASSUME NEW p \in Proc, NEW next \in Next3, ReturnReply(p, next)
        PROVE  deferred' = deferred
    BY <1>6 DEF ReturnReply
  <1>7. ASSUME NEW p \in Proc, ReturnStop(p) PROVE deferred' = deferred
    BY <1>7 DEF ReturnStop
  <1>8. ASSUME NEW f \in deferred, Reply(f) PROVE deferred' \subseteq deferred
    BY <1>8 DEF Reply
  <1>9. QED
    BY <1>3, <1>4, <1>5, <1>6, <1>7, <1>8 DEF Next, vars, CallbackReturns

LEMMA RefIsOwnNext ==
    ASSUME TypeOK, ReplyInv, [Next]_vars, NEW p \in Proc
    PROVE  RefIsOwn(p)'
  <1>1. /\ \A a \in Proc : callRef[a] \in Nat /\ callRef[a] < nextRef
        /\ \A a, b \in Proc : a # b /\ callRef[a] # 0 => callRef[b] # callRef[a]
    BY DEF ReplyInv, RefIsOwn, TypeOK
  <1>2. nextRef # 0 /\ nextRef \in Nat
    BY BoundAssumption DEF TypeOK
  <1>3. callRef'[p] < nextRef'
    BY <1>1, <1>2, WaitsNext
  <1>4. ASSUME NEW q \in Proc, q # p, callRef'[p] # 0, callRef'[q] = callRef'[p] PROVE FALSE
    <2>1. ASSUME NEW a \in Proc, NEW b \in Proc, a # b, callRef'[a] = nextRef,
                 nextRef' = nextRef + 1, callRef'[b] = nextRef
          PROVE  FALSE
      <3>1. ASSUME NEW c \in Proc, callRef'[c] # callRef[c], callRef'[c] # 0
            PROVE  \E d \in Proc : Call(c, d) \/ Stop(c, d)
        BY <3>1, AskNew
      <3>2. callRef'[a] # callRef[a] /\ callRef'[b] # callRef[b]
        BY <1>1, <1>2, <2>1
      <3>3. (\E d \in Proc : Call(a, d) \/ Stop(a, d)) => callRef'[b] = callRef[b]
        BY <2>1 DEF Call, Stop, Ask, TypeOK
      <3>4. QED
        BY <1>2, <2>1, <3>1, <3>2, <3>3
    <2>2. QED
      BY <1>1, <1>2, <1>4, <2>1, WaitsNext
  <1>5. QED
    BY <1>3, <1>4 DEF RefIsOwn

LEMMA CurIsSettledNext ==
    ASSUME TypeOK, ReplyInv, [Next]_vars, NEW a \in Proc
    PROVE  CurIsSettled(a)'
  <1>1. CASE cur'[a] = cur[a]
    <2>1. cur[a].ref \in Nat
      BY DEF TypeOK, Message
    <2>2. QED
      BY <1>1, <2>1, SettledStays DEF ReplyInv, CurIsSettled
  <1>2. CASE cur'[a] = NoMsg
    BY <1>2 DEF NoMsg, Msg, CurIsSettled
  <1>3. CASE RunCallback(a)
    <2> DEFINE head == Head(mailbox[a])
    <2>1. head \in Sound
      BY <1>3, TailTyping DEF RunCallback, ReplyInv
    <2>2. cur'[a] = Decode(head)
      BY <1>3 DEF RunCallback, TypeOK
    <2>3. CASE head.kind = "call"
      <3>1. head.ref \in Ref /\ Decode(head).ref = head.ref
        BY <2>1, <2>3, DecodeTyping DEF Sound
      <3>2. served'[head.ref] > 0
        BY <1>3, <2>3, <3>1 DEF RunCallback, TypeOK
      <3>3. QED
        BY <2>2, <3>1, <3>2 DEF CurIsSettled, Settled
    <2>4. CASE head.kind # "call"
      BY <2>1, <2>2, <2>4, DecodeTyping DEF Sound, CurIsSettled, Settled
    <2>5. QED
      BY <2>3, <2>4
  <1>4. cur'[a] = cur[a] \/ cur'[a] = NoMsg \/ RunCallback(a)
    BY CurEffect
  <1>5. QED
    BY <1>1, <1>2, <1>3, <1>4

LEMMA AnswerIsDueNext ==
    ASSUME TypeOK, ReplyInv, [Next]_vars, NEW a \in Proc
    PROVE  AnswerIsDue(a)'
  <1> SUFFICES ASSUME pc'[a] = "resend", outcome'[callRef'[a]] = "ok"
               PROVE  callRef'[a] \in ReasonRef \/ served'[callRef'[a]] > 0
    BY DEF AnswerIsDue
  <1>1. CASE CallReceive(a) /\ IsReply(a, Head(mailbox[a]))
    <2>1. Head(mailbox[a]) \in Sound
      BY <1>1, TailTyping DEF CallReceive, ReplyInv
    <2>2. Settled(callRef[a])
      BY <1>1, <2>1 DEF IsReply, Sound
    <2>3. ~NotCalled(callRef[a])
      BY <1>1 DEF CallReceive, NotCalled, InCall
    <2>4. callRef' = callRef /\ served' = served
      BY <1>1 DEF CallReceive
    <2>5. QED
      BY <2>2, <2>3, <2>4 DEF Settled
  <1>2. CASE /\ pc[a] = "resend" /\ callRef'[a] = callRef[a]
             /\ outcome'[callRef[a]] = outcome[callRef[a]]
    <2>1. callRef[a] \in Ref
      BY <1>2, BoundAssumption DEF TypeOK, Ref
    <2>2. QED
      BY <1>2, <2>1, WaitsNext DEF ReplyInv, AnswerIsDue
  <1>3. \/ CallReceive(a) /\ IsReply(a, Head(mailbox[a]))
        \/ /\ pc[a] = "resend" /\ callRef'[a] = callRef[a]
           /\ outcome'[callRef[a]] = outcome[callRef[a]]
    BY ResendEffect
  <1>4. QED
    BY <1>1, <1>2, <1>3

LEMMA ReplyNext == TypeOK /\ TypeOK' /\ ReplyInv /\ [Next]_vars => ReplyInv'
  <1> SUFFICES ASSUME TypeOK, ReplyInv, [Next]_vars PROVE ReplyInv'
    OBVIOUS
  <1>1. mailbox \in Boxes(Sound') /\ stash \in Boxes(Sound')
    <2>1. ASSUME NEW S, NEW T, S \subseteq T PROVE Boxes(S) \subseteq Boxes(T)
      <3>1. Seq(S) \subseteq Seq(T)
        BY <2>1
      <3>2. QED
        BY <3>1 DEF Boxes
    <2>2. QED
      BY <2>1, SoundStays DEF ReplyInv
  <1>2. mailbox' \in Boxes(Sound') /\ stash' \in Boxes(Sound')
    BY <1>1, SoundClosed, BoxesNext
  <1>3. \A from \in deferred' : Settled(from.ref)'
    BY DeferredNext
  <1>4. QED
    BY <1>2, <1>3, RefIsOwnNext, CurIsSettledNext, AnswerIsDueNext DEF ReplyInv, Boxes

(***************************************************************************)
(* A call that returns a reply was handled by the server, in any           *)
(* interleaving with time-outs, deferred replies, stops and nested calls,  *)
(* unless its reference is what the reason of an exit message spells.      *)
(***************************************************************************)
THEOREM AnswersAreDue == Spec => [](\A p \in Proc : AnswerIsDue(p))
  <1>1. ReplyInv => \A p \in Proc : AnswerIsDue(p)
    BY DEF ReplyInv
  <1>2. QED
    BY <1>1, TypeCorrect, ReplyInit, ReplyNext, PTL DEF Spec

(***************************************************************************)
(* Hence every answer is its call's own, as long as no reference that is   *)
(* handed out is one that a reason spells.                                 *)
(***************************************************************************)
THEOREM AnswersAreOwn ==
    ASSUME ReasonRef \cap Ref = {}
    PROVE  Spec => []AnswerIsOwn
  <1>1. TypeOK /\ (\A p \in Proc : AnswerIsDue(p)) => AnswerIsOwn
    <2> SUFFICES ASSUME TypeOK, NEW p \in Proc, AnswerIsDue(p),
                        pc[p] = "resend", outcome[callRef[p]] = "ok"
                 PROVE  served[callRef[p]] > 0
      BY DEF AnswerIsOwn
    <2>1. callRef[p] \in Ref
      BY BoundAssumption DEF TypeOK, Ref
    <2>2. QED
      BY <2>1 DEF AnswerIsDue
  <1>2. QED
    BY <1>1, TypeCorrect, AnswersAreDue, PTL

-----------------------------------------------------------------------------
(***************************************************************************)
(* ReceivesSelectively.  A bag counts how often a message is in it; what   *)
(* is held is compared by these counts.                                    *)
(***************************************************************************)
Places(s, x) == {i \in DOMAIN s : s[i] = x}

Times(s, x) == Cardinality(Places(s, x))

LEMMA TimesNat ==
    ASSUME NEW S, NEW s \in Seq(S), NEW x
    PROVE  /\ IsFiniteSet(Places(s, x))
           /\ Times(s, x) \in Nat
           /\ Times(s, x) # 0 <=> x \in Range(s)
  <1>1. DOMAIN s = 1 .. Len(s) /\ Len(s) \in Nat
    OBVIOUS
  <1>2. IsFiniteSet(1 .. Len(s))
    BY <1>1, FS_Interval
  <1>3. Places(s, x) \in SUBSET (1 .. Len(s))
    BY <1>1 DEF Places
  <1>4. IsFiniteSet(Places(s, x))
    BY <1>2, <1>3, FS_Subset
  <1>5. Places(s, x) # {} <=> x \in Range(s)
    BY DEF Places, Range
  <1>6. QED
    BY <1>4, <1>5, FS_CardinalityType, FS_EmptySet DEF Times

LEMMA TimesAppend ==
    ASSUME NEW S, NEW s \in Seq(S), NEW e \in S, NEW x
    PROVE  Times(Append(s, e), x) = IF x = e THEN Times(s, x) + 1 ELSE Times(s, x)
  <1>1. Len(s) \in Nat /\ DOMAIN s = 1 .. Len(s) /\ DOMAIN Append(s, e) = 1 .. Len(s) + 1
    OBVIOUS
  <1>2. \A i \in 1 .. Len(s) + 1 : Append(s, e)[i] = IF i = Len(s) + 1 THEN e ELSE s[i]
    OBVIOUS
  <1>3. 1 .. Len(s) + 1 = (1 .. Len(s)) \cup {Len(s) + 1} /\ Len(s) + 1 \notin 1 .. Len(s)
    BY <1>1
  <1>4. Places(Append(s, e), x)
            = IF x = e THEN Places(s, x) \cup {Len(s) + 1} ELSE Places(s, x)
    BY <1>1, <1>2, <1>3 DEF Places
  <1>5. Len(s) + 1 \notin Places(s, x)
    BY <1>1, <1>3 DEF Places
  <1>6. QED
    BY <1>4, <1>5, TimesNat, FS_AddElement DEF Times

LEMMA TimesConcat ==
    ASSUME NEW S, NEW s \in Seq(S), NEW t \in Seq(S), NEW x
    PROVE  Times(s \o t, x) = Times(s, x) + Times(t, x)
  <1> DEFINE n == Len(s)
             A == Places(s, x)
             B == {i \in (n + 1) .. (n + Len(t)) : t[i - n] = x}
             f == [i \in Places(t, x) |-> i + n]
  <1>1. n \in Nat /\ Len(t) \in Nat /\ DOMAIN s = 1 .. n /\ DOMAIN t = 1 .. Len(t)
    OBVIOUS
  <1>2. s \o t \in Seq(S) /\ Len(s \o t) = n + Len(t)
    OBVIOUS
  <1>3. \A i \in 1 .. n + Len(t) : (s \o t)[i] = IF i <= n THEN s[i] ELSE t[i - n]
    OBVIOUS
  <1>4. Places(s \o t, x) = A \cup B
    BY <1>1, <1>2, <1>3 DEF Places
  <1>5. A \cap B = {}
    BY <1>1 DEF Places
  <1>6. f \in Bijection(Places(t, x), B)
    <2>1. f \in [Places(t, x) -> B]
      BY <1>1 DEF Places
    <2>2. \A i, j \in Places(t, x) : f[i] = f[j] => i = j
      BY <1>1 DEF Places
    <2>3. \A k \in B : k - n \in Places(t, x) /\ f[k - n] = k
      BY <1>1 DEF Places
    <2>4. \A k \in B : \E i \in Places(t, x) : f[i] = k
      BY <2>3
    <2>5. QED
      BY <2>1, <2>2, <2>4 DEF Bijection, Injection, Surjection, IsInjective
  <1>7. IsFiniteSet(A) /\ Times(s, x) \in Nat /\ IsFiniteSet(Places(t, x)) /\ Times(t, x) \in Nat
    BY TimesNat
  <1>8. ExistsBijection(Places(t, x), B)
    BY <1>6 DEF ExistsBijection
  <1>9. IsFiniteSet(B) /\ Cardinality(B) = Times(t, x)
    BY <1>7, <1>8, FS_Bijection DEF Times
  <1>10. Cardinality(A \cup B) = Cardinality(A) + Cardinality(B) - Cardinality(A \cap B)
    BY <1>7, <1>9, FS_Union
  <1>11. Cardinality(A \cap B) = 0
    BY <1>5, FS_EmptySet
  <1>12. QED
    BY <1>4, <1>7, <1>9, <1>10, <1>11 DEF Times

LEMMA TimesTail ==
    ASSUME NEW S, NEW s \in Seq(S), s # <<>>, NEW x
    PROVE  Times(s, x) = IF x = Head(s) THEN Times(Tail(s), x) + 1 ELSE Times(Tail(s), x)
  <1>1. Head(s) \in S /\ Tail(s) \in Seq(S)
    OBVIOUS
  <1>2. PICK nil \in Seq(S) : nil = <<>>
    <2>1. <<>> \in Seq(S)
      OBVIOUS
    <2>2. QED
      BY <2>1
  <1>3. Times(nil, x) = 0
    <2>1. Places(nil, x) = {}
      BY <1>2 DEF Places
    <2>2. QED
      BY <2>1, FS_EmptySet DEF Times
  <1>4. PICK one \in Seq(S) : one = Append(nil, Head(s))
    <2>1. Append(nil, Head(s)) \in Seq(S)
      BY <1>1
    <2>2. QED
      BY <2>1
  <1>5. Times(one, x) = IF x = Head(s) THEN 0 + 1 ELSE 0
    BY <1>1, <1>3, <1>4, TimesAppend
  <1>6. s = one \o Tail(s)
    BY <1>1, <1>2, <1>4
  <1>7. Times(s, x) = Times(one, x) + Times(Tail(s), x)
    BY <1>1, <1>6, TimesConcat
  <1>8. Times(Tail(s), x) \in Nat
    BY <1>1, TimesNat
  <1>9. QED
    BY <1>5, <1>7, <1>8

\* The bags of two sequences, compared by their counts.
LEMMA BagGrows ==
    ASSUME NEW S, NEW s \in Seq(S), NEW t \in Seq(S), \A x : Times(s, x) <= Times(t, x)
    PROVE  /\ DOMAIN ToBag(s) \subseteq DOMAIN ToBag(t)
           /\ \A x \in DOMAIN ToBag(s) : ToBag(s)[x] <= ToBag(t)[x]
  <1>1. \A x : /\ Times(s, x) \in Nat /\ (Times(s, x) # 0 <=> x \in Range(s))
              /\ Times(t, x) \in Nat /\ (Times(t, x) # 0 <=> x \in Range(t))
    BY TimesNat
  <1>2. Range(s) \subseteq Range(t)
    BY <1>1
  <1>3. /\ ToBag(s) = [x \in Range(s) |-> Times(s, x)]
        /\ ToBag(t) = [x \in Range(t) |-> Times(t, x)]
    BY DEF ToBag, Times, Places
  <1>4. QED
    BY <1>2, <1>3

LEMMA BagSame ==
    ASSUME NEW S, NEW s \in Seq(S), NEW t \in Seq(S), \A x : Times(s, x) = Times(t, x)
    PROVE  ToBag(s) = ToBag(t)
  <1>1. \A x : /\ Times(s, x) \in Nat /\ (Times(s, x) # 0 <=> x \in Range(s))
              /\ Times(t, x) \in Nat /\ (Times(t, x) # 0 <=> x \in Range(t))
    BY TimesNat
  <1>2. Range(s) = Range(t)
    BY <1>1
  <1>3. /\ ToBag(s) = [x \in Range(s) |-> Times(s, x)]
        /\ ToBag(t) = [x \in Range(t) |-> Times(t, x)]
    BY DEF ToBag, Times, Places
  <1>4. QED
    BY <1>2, <1>3

\* t has one m less than s: it is what is left when m is taken.
One(x, m) == IF x = m THEN 1 ELSE 0

LEMMA BagTakes ==
    ASSUME NEW S, NEW s \in Seq(S), NEW t \in Seq(S), NEW m,
           \A x : Times(s, x) = Times(t, x) + One(x, m)
    PROVE  /\ m \in DOMAIN ToBag(s)
           /\ ToBag(s) (-) SetToBag({m}) = ToBag(t)
  <1>1. \A x : /\ Times(s, x) \in Nat /\ (Times(s, x) # 0 <=> x \in Range(s))
              /\ Times(t, x) \in Nat /\ (Times(t, x) # 0 <=> x \in Range(t))
    BY TimesNat
  <1>2. /\ ToBag(s) = [x \in Range(s) |-> Times(s, x)]
        /\ ToBag(t) = [x \in Range(t) |-> Times(t, x)]
    BY DEF ToBag, Times, Places
  <1>3. m \in Range(s)
    BY <1>1 DEF One
  <1> DEFINE left == [x \in Range(s) |-> IF x \in {m} THEN Times(s, x) - 1 ELSE Times(s, x)]
  <1>4. SetToBag({m}) = [x \in {m} |-> 1]
    BY DEF SetToBag
  <1>5. ToBag(s) (-) SetToBag({m}) = [x \in {d \in DOMAIN left : left[d] > 0} |-> left[x]]
    <2> DEFINE less == [x \in DOMAIN ToBag(s) |->
                           IF x \in DOMAIN SetToBag({m}) THEN ToBag(s)[x] - SetToBag({m})[x]
                                                         ELSE ToBag(s)[x]]
    <2>1. less = left
      BY <1>2, <1>4
    <2>2. ToBag(s) (-) SetToBag({m}) = [x \in {d \in DOMAIN less : less[d] > 0} |-> less[x]]
      BY DEF (-)
    <2>3. QED
      BY <2>1, <2>2
  <1>6. \A x \in Range(s) : left[x] = Times(t, x)
    BY <1>1 DEF One
  <1>7. {d \in DOMAIN left : left[d] > 0} = Range(t)
    BY <1>1, <1>6 DEF One
  <1>8. Range(t) \subseteq Range(s)
    BY <1>7
  <1>9. QED
    BY <1>2, <1>3, <1>5, <1>6, <1>7, <1>8

\* How often x is held at p, by mailboxes boxes and stashes kept.
Count(boxes, kept, p, x) == Times(boxes[p], x) + Times(kept[p], x)

Bag(boxes, kept, p) == ToBag(boxes[p] \o kept[p])

LEMMA HeldCount ==
    ASSUME NEW boxes \in Boxes(Message), NEW kept \in Boxes(Message), NEW p \in Proc
    PROVE  /\ boxes[p] \o kept[p] \in Seq(Message)
           /\ \A x : Times(boxes[p] \o kept[p], x) = Count(boxes, kept, p, x)
  <1>1. boxes[p] \in Seq(Message) /\ kept[p] \in Seq(Message)
    BY DEF Boxes
  <1>2. QED
    BY <1>1, TimesConcat DEF Count

LEMMA PutCount ==
    ASSUME NEW boxes \in Boxes(Message), NEW msg \in Message, NEW p, NEW q \in Proc, NEW x
    PROVE  Times(Put(boxes, p, msg)[q], x)
               = IF p = q /\ Open(p) /\ x = msg THEN Times(boxes[q], x) + 1
                                              ELSE Times(boxes[q], x)
  <1>1. boxes[q] \in Seq(Message)
    BY DEF Boxes
  <1>2. CASE p = q /\ Open(p)
    <2>1. Put(boxes, p, msg)[q] = Append(boxes[q], msg)
      BY <1>2 DEF Put, Boxes
    <2>2. QED
      BY <1>1, <1>2, <2>1, TimesAppend
  <1>3. CASE ~(p = q /\ Open(p))
    BY <1>3 DEF Put, Boxes
  <1>4. QED
    BY <1>2, <1>3

LEMMA TailCount ==
    ASSUME NEW boxes \in Boxes(Message), NEW p \in Proc, boxes[p] # <<>>, NEW x,
           NEW left, left = [boxes EXCEPT ![p] = Tail(@)]
    PROVE  Times(boxes[p], x) = Times(left[p], x) + One(x, Head(boxes[p]))
  <1>1. boxes[p] \in Seq(Message) /\ Tail(boxes[p]) \in Seq(Message)
    BY DEF Boxes
  <1>2. Times(Tail(boxes[p]), x) \in Nat
    BY <1>1, TimesNat
  <1>3. left[p] = Tail(boxes[p])
    BY DEF Boxes
  <1>4. QED
    BY <1>1, <1>2, <1>3, TimesTail DEF One

\* No process has fewer of any message.
More(boxes, more) == \A q \in Proc : \A x : Times(boxes[q], x) <= Times(more[q], x)

LEMMA MoreSame ==
    ASSUME NEW boxes \in Boxes(Message)
    PROVE  More(boxes, boxes)
  <1>1. \A q \in Proc : \A x : Times(boxes[q], x) \in Nat
    BY TimesNat DEF Boxes
  <1>2. QED
    BY <1>1 DEF More

LEMMA MorePut ==
    ASSUME NEW boxes \in Boxes(Message), NEW msg \in Message, NEW p
    PROVE  More(boxes, Put(boxes, p, msg))
  <1>1. \A q \in Proc : \A x : Times(boxes[q], x) \in Nat
    BY TimesNat DEF Boxes
  <1>2. ASSUME NEW q \in Proc, NEW x PROVE Times(boxes[q], x) <= Times(Put(boxes, p, msg)[q], x)
    <2>1. Times(Put(boxes, p, msg)[q], x) \in {Times(boxes[q], x), Times(boxes[q], x) + 1}
      BY PutCount
    <2>2. QED
      BY <1>1, <2>1
  <1>3. QED
    BY <1>2 DEF More

LEMMA MoreTwice ==
    ASSUME NEW a \in Boxes(Message), NEW b \in Boxes(Message), NEW c \in Boxes(Message),
           More(a, b), More(b, c)
    PROVE  More(a, c)
  <1>1. \A q \in Proc : \A x : /\ Times(a[q], x) \in Nat /\ Times(b[q], x) \in Nat
                              /\ Times(c[q], x) \in Nat
    BY TimesNat DEF Boxes
  <1>2. QED
    BY <1>1 DEF More

LEMMA MoreGrows ==
    ASSUME NEW boxes \in Boxes(Message), NEW more \in Boxes(Message),
           NEW kept \in Boxes(Message), More(boxes, more), NEW p \in Proc
    PROVE  /\ DOMAIN Bag(boxes, kept, p) \subseteq DOMAIN Bag(more, kept, p)
           /\ \A x \in DOMAIN Bag(boxes, kept, p) :
                 Bag(boxes, kept, p)[x] <= Bag(more, kept, p)[x]
  <1>1. \A x : /\ Times(boxes[p], x) \in Nat /\ Times(more[p], x) \in Nat
              /\ Times(kept[p], x) \in Nat
    BY TimesNat DEF Boxes
  <1>2. ASSUME NEW x PROVE Times(boxes[p] \o kept[p], x) <= Times(more[p] \o kept[p], x)
    <2>1. ASSUME NEW b \in Boxes(Message)
          PROVE  Times(b[p] \o kept[p], x) = Times(b[p], x) + Times(kept[p], x)
      <3>1. Times(b[p] \o kept[p], x) = Count(b, kept, p, x)
        BY HeldCount
      <3>2. QED
        BY <3>1 DEF Count
    <2>2. Times(boxes[p], x) <= Times(more[p], x)
      BY DEF More
    <2>3. QED
      BY <1>1, <2>1, <2>2
  <1>3. QED
    BY <1>2, HeldCount, BagGrows DEF Bag

-----------------------------------------------------------------------------
(***************************************************************************)
(* The steps of SelectiveReceive, each from what a step of the server does *)
(* to the mailboxes, the stashes and the places of the processes.          *)
(***************************************************************************)
Types == TypeOK /\ TypeOK'

\* Nobody begins or ends a call, and nobody ends.
SameCalls == UNCHANGED <<Waiting, Alive>>

LEMMA HeldIs ==
    ASSUME NEW p \in Proc
    PROVE  /\ Held[p] = Bag(mailbox, stash, p)
           /\ Held'[p] = Bag(mailbox', stash', p)
  BY DEF Held, Bag

LEMMA BoxesAre ==
    Types => /\ mailbox \in Boxes(Message) /\ stash \in Boxes(Message)
             /\ mailbox' \in Boxes(Message) /\ stash' \in Boxes(Message)
  BY DEF Types, TypeOK, Boxes

LEMMA GrowsAll ==
    ASSUME Types, stash' = stash, More(mailbox, mailbox')
    PROVE  \A p \in Proc : Abstract!Grows(p)
  <1> SUFFICES ASSUME NEW p \in Proc PROVE Abstract!Grows(p)
    OBVIOUS
  <1>1. /\ DOMAIN Bag(mailbox, stash, p) \subseteq DOMAIN Bag(mailbox', stash, p)
        /\ \A x \in DOMAIN Bag(mailbox, stash, p) :
              Bag(mailbox, stash, p)[x] <= Bag(mailbox', stash, p)[x]
    BY BoxesAre, MoreGrows
  <1>2. Held[p] = Bag(mailbox, stash, p) /\ Held'[p] = Bag(mailbox', stash, p)
    BY HeldIs
  <1>3. QED
    BY <1>1, <1>2 DEF Abstract!Grows, Abstract!\sqsubseteq

LEMMA Arrives ==
    ASSUME Types, stash' = stash, More(mailbox, mailbox'), SameCalls
    PROVE  Abstract!Next
  BY GrowsAll DEF Abstract!Next, Abstract!Arrive, SameCalls

LEMMA Begins ==
    ASSUME Types, stash' = stash, More(mailbox, mailbox'), Alive' = Alive, NEW p \in Proc,
           Waiting[p] = 0, Waiting'[p] # 0, \A q \in Proc \ {p} : Waiting'[q] = Waiting[q]
    PROVE  Abstract!Next
  BY GrowsAll DEF Abstract!Next, Abstract!Begin

\* The head of p's mailbox is taken; others may get messages in the same step.
LEMMA Takes ==
    ASSUME Types, stash' = stash, SameCalls, NEW p \in Proc, Waiting[p] = 0,
           mailbox[p] # <<>>, More([mailbox EXCEPT ![p] = Tail(@)], mailbox')
    PROVE  Abstract!Next
  <1> DEFINE m == Head(mailbox[p])
  <1>1. PICK left \in Boxes(Message) : left = [mailbox EXCEPT ![p] = Tail(@)]
    BY BoxesAre, TailTyping
  <1>2. mailbox \in Boxes(Message) /\ stash \in Boxes(Message) /\ mailbox' \in Boxes(Message)
    BY BoxesAre
  <1>3. More(left, mailbox')
    BY <1>1
  <1>4. \A q \in Proc : /\ DOMAIN Bag(left, stash, q) \subseteq DOMAIN Bag(mailbox', stash, q)
                        /\ \A x \in DOMAIN Bag(left, stash, q) :
                              Bag(left, stash, q)[x] <= Bag(mailbox', stash, q)[x]
    BY <1>2, <1>3, MoreGrows
  <1>5. m \in DOMAIN Held[p] /\ Held[p] (-) SetToBag({m}) = Bag(left, stash, p)
    <2>1. ASSUME NEW x
          PROVE  Times(mailbox[p] \o stash[p], x) = Times(left[p] \o stash[p], x) + One(x, m)
      <3>1. Times(mailbox[p], x) = Times(left[p], x) + One(x, m)
        BY <1>1, <1>2, TailCount
      <3>2. ASSUME NEW b \in Boxes(Message)
            PROVE  Times(b[p] \o stash[p], x) = Times(b[p], x) + Times(stash[p], x)
        <4>1. Times(b[p] \o stash[p], x) = Count(b, stash, p, x)
          BY <1>2, HeldCount
        <4>2. QED
          BY <4>1 DEF Count
      <3>3. Times(left[p], x) \in Nat /\ Times(stash[p], x) \in Nat /\ One(x, m) \in Nat
        BY <1>2, TimesNat DEF Boxes, One
      <3>4. /\ Times(mailbox[p] \o stash[p], x) = Times(mailbox[p], x) + Times(stash[p], x)
            /\ Times(left[p] \o stash[p], x) = Times(left[p], x) + Times(stash[p], x)
        BY <1>1, <1>2, <3>2
      <3>5. QED
        BY <3>1, <3>3, <3>4
    <2>2. mailbox[p] \o stash[p] \in Seq(Message) /\ left[p] \o stash[p] \in Seq(Message)
      BY <1>2, HeldCount
    <2>3. /\ m \in DOMAIN ToBag(mailbox[p] \o stash[p])
          /\ ToBag(mailbox[p] \o stash[p]) (-) SetToBag({m}) = ToBag(left[p] \o stash[p])
      BY <2>1, <2>2, BagTakes
    <2>4. QED
      BY <2>3, HeldIs DEF Bag
  <1>6. Held[p] (-) SetToBag({m}) = Abstract!(-)(Held[p], Abstract!SetToBag({m}))
    BY DEF (-), SetToBag, Abstract!(-), Abstract!SetToBag
  <1>7. \A q \in Proc \ {p} : Bag(left, stash, q) = Held[q]
    BY <1>1, <1>2, HeldIs DEF Bag, Boxes
  <1>8. \A q \in Proc : Held'[q] = Bag(mailbox', stash, q)
    BY HeldIs
  <1>9. \A q \in Proc \ {p} : Abstract!Grows(q)
    BY <1>4, <1>7, <1>8 DEF Abstract!Grows, Abstract!\sqsubseteq
  <1>10. Abstract!\sqsubseteq(Abstract!(-)(Held[p], Abstract!SetToBag({m})), Held'[p])
    BY <1>4, <1>5, <1>6, <1>8 DEF Abstract!\sqsubseteq
  <1>11. Abstract!Take(p)
    BY <1>5, <1>9, <1>10 DEF Abstract!Take, Abstract!BagToSet, SameCalls
  <1>12. QED
    BY <1>11 DEF Abstract!Next

\* The reply that ends a call is taken.
LEMMA Answers ==
    ASSUME Types, stash' = stash, Alive' = Alive, NEW p \in Proc, mailbox[p] # <<>>,
           mailbox' = [mailbox EXCEPT ![p] = Tail(@)], Head(mailbox[p]).kind = "reply",
           Head(mailbox[p]).ref = Waiting[p], Waiting' = [Waiting EXCEPT ![p] = 0]
    PROVE  Abstract!Next
  <1> DEFINE m == Head(mailbox[p])
  <1>1. mailbox \in Boxes(Message) /\ stash \in Boxes(Message) /\ mailbox' \in Boxes(Message)
    BY BoxesAre
  <1>2. ASSUME NEW x
        PROVE  Times(mailbox[p] \o stash[p], x) = Times(mailbox'[p] \o stash[p], x) + One(x, m)
    <2>1. Times(mailbox[p], x) = Times(mailbox'[p], x) + One(x, m)
      BY <1>1, TailCount
    <2>2. ASSUME NEW b \in Boxes(Message)
          PROVE  Times(b[p] \o stash[p], x) = Times(b[p], x) + Times(stash[p], x)
      <3>1. Times(b[p] \o stash[p], x) = Count(b, stash, p, x)
        BY <1>1, HeldCount
      <3>2. QED
        BY <3>1 DEF Count
    <2>3. Times(mailbox'[p], x) \in Nat /\ Times(stash[p], x) \in Nat /\ One(x, m) \in Nat
      BY <1>1, TimesNat DEF Boxes, One
    <2>4. /\ Times(mailbox[p] \o stash[p], x) = Times(mailbox[p], x) + Times(stash[p], x)
          /\ Times(mailbox'[p] \o stash[p], x) = Times(mailbox'[p], x) + Times(stash[p], x)
      BY <1>1, <2>2
    <2>5. QED
      BY <2>1, <2>3, <2>4
  <1>3. mailbox[p] \o stash[p] \in Seq(Message) /\ mailbox'[p] \o stash[p] \in Seq(Message)
    BY <1>1, HeldCount
  <1>4. /\ m \in DOMAIN ToBag(mailbox[p] \o stash[p])
        /\ ToBag(mailbox[p] \o stash[p]) (-) SetToBag({m}) = ToBag(mailbox'[p] \o stash[p])
    BY <1>2, <1>3, BagTakes
  <1>5. m \in DOMAIN Held[p] /\ Held[p] (-) SetToBag({m}) = Held'[p]
    BY <1>4, HeldIs DEF Bag
  <1>6. Held[p] (-) SetToBag({m}) = Abstract!(-)(Held[p], Abstract!SetToBag({m}))
    BY DEF (-), SetToBag, Abstract!(-), Abstract!SetToBag
  <1>7. \A q \in Proc \ {p} : Held'[q] = Held[q]
    BY <1>1, HeldIs DEF Bag, Boxes
  <1>8. Held' = [Held EXCEPT ![p] = Abstract!(-)(@, Abstract!SetToBag({m}))]
    BY <1>5, <1>6, <1>7 DEF Held
  <1>9. Abstract!Answer(p)
    BY <1>5, <1>8 DEF Abstract!Answer, Abstract!BagToSet
  <1>10. QED
    BY <1>9 DEF Abstract!Next

LEMMA GivesUp ==
    ASSUME UNCHANGED <<mailbox, stash, Alive>>, NEW p \in Proc, Waiting[p] # 0,
           Waiting' = [Waiting EXCEPT ![p] = 0]
    PROVE  Abstract!Next
  BY DEF Abstract!Next, Abstract!GiveUp, Held

\* The mailbox of a process that ends is dropped.
LEMMA Ends ==
    ASSUME Types, stash' = stash, Waiting' = Waiting, NEW p \in Proc, Waiting[p] = 0,
           stash[p] = <<>>, mailbox' = [mailbox EXCEPT ![p] = <<>>], Alive' = Alive \ {p}
    PROVE  Abstract!Next
  <1>1. mailbox'[p] = <<>> /\ \A q \in Proc \ {p} : mailbox'[q] = mailbox[q]
    BY BoxesAre DEF Boxes
  <1>2. Held'[p] = Abstract!EmptyBag
    <2>1. Held'[p] = ToBag(<<>>)
      <3>1. mailbox'[p] \o stash'[p] = <<>>
        BY <1>1
      <3>2. QED
        BY <3>1 DEF Held
    <2>2. Range(<<>>) = {}
      BY DEF Range
    <2>3. QED
      BY <2>1, <2>2 DEF ToBag, Abstract!EmptyBag, Abstract!SetToBag
  <1>3. ASSUME NEW q \in Proc \ {p} PROVE Abstract!Grows(q)
    <2>1. Held'[q] = Held[q] /\ Held[q] = ToBag(mailbox[q] \o stash[q])
      BY <1>1 DEF Held
    <2>2. mailbox[q] \o stash[q] \in Seq(Message)
      BY BoxesAre, HeldCount
    <2>3. ASSUME NEW x
          PROVE  Times(mailbox[q] \o stash[q], x) <= Times(mailbox[q] \o stash[q], x)
      <3>1. Times(mailbox[q] \o stash[q], x) \in Nat
        BY <2>2, TimesNat
      <3>2. QED
        BY <3>1
    <2>4. QED
      BY <2>1, <2>2, <2>3, BagGrows DEF Abstract!Grows, Abstract!\sqsubseteq
  <1>4. Abstract!End(p)
    BY <1>2, <1>3 DEF Abstract!End
  <1>5. QED
    BY <1>4 DEF Abstract!Next

\* What moves between the mailbox and the stash of a process stays held.
LEMMA HeldStays ==
    ASSUME Types, SameCalls, NEW p \in Proc,
           \A q \in Proc \ {p} : mailbox'[q] = mailbox[q] /\ stash'[q] = stash[q],
           \A x : Count(mailbox', stash', p, x) = Count(mailbox, stash, p, x)
    PROVE  UNCHANGED <<Held, Waiting, Alive>>
  <1>1. \A x : /\ Times(mailbox[p] \o stash[p], x) = Count(mailbox, stash, p, x)
              /\ Times(mailbox'[p] \o stash'[p], x) = Count(mailbox', stash', p, x)
    BY BoxesAre, HeldCount
  <1>2. mailbox[p] \o stash[p] \in Seq(Message) /\ mailbox'[p] \o stash'[p] \in Seq(Message)
    BY BoxesAre, HeldCount
  <1>3. ToBag(mailbox[p] \o stash[p]) = ToBag(mailbox'[p] \o stash'[p])
    <2>1. \A x : Times(mailbox[p] \o stash[p], x) = Times(mailbox'[p] \o stash'[p], x)
      BY <1>1
    <2>2. QED
      BY <1>2, <2>1, BagSame
  <1>4. \A q \in Proc : Held'[q] = Held[q]
    BY <1>3 DEF Held
  <1>5. QED
    BY <1>4 DEF Held, SameCalls

\* The calls a process makes, and whether it lives, depend on these alone.
SameCall(p) ==
    /\ pc'[p] = "calling" <=> pc[p] = "calling"
    /\ pc[p] = "calling" => callRef'[p] = callRef[p]

SameLife(p) == pc'[p] = "ended" <=> pc[p] = "ended"

LEMMA CallsFrom ==
    /\ (\A p \in Proc : SameCall(p)) => Waiting' = Waiting
    /\ (\A p \in Proc : SameLife(p)) => Alive' = Alive
  BY DEF SameCall, SameLife, Waiting, Alive, Open

LEMMA SamePlaces == UNCHANGED <<pc, callRef>> => SameCalls
  BY CallsFrom DEF SameCall, SameLife, SameCalls

\* What is put into a mailbox on the way.
LEMMA ReplyMore ==
    ASSUME Types, NEW boxes \in Boxes(Message), NEW p, NEW ref \in Nat
    PROVE  /\ Put(boxes, p, Msg("reply", ref, None)) \in Boxes(Message)
           /\ More(boxes, Put(boxes, p, Msg("reply", ref, None)))
  <1>1. Msg("reply", ref, None) \in Message
    BY MessageTyping DEF Kind
  <1>2. QED
    BY <1>1, MorePut, PutTyping

LEMMA LoopImplements ==
    ASSUME Types, NEW p \in Proc, LoopStep(p) PROVE Abstract!Next
  <1>1. CASE Terminated(p)
    <2>1. \A q \in Proc : SameCall(q)
      BY <1>1 DEF Terminated, SameCall, Types, TypeOK
    <2>2. Waiting[p] = 0 /\ stash[p] = <<>>
      BY <1>1 DEF Terminated, Waiting, Types, TypeOK
    <2>3. Alive' = Alive \ {p}
      BY <1>1 DEF Terminated, Alive, Open, Types, TypeOK
    <2>4. QED
      BY <1>1, <2>1, <2>2, <2>3, CallsFrom, Ends DEF Terminated
  <1>2. ASSUME pc[p] = "loop", mailbox[p] # <<>>, UNCHANGED <<callRef, stash>>,
               \E place \in {"loop", "callback", "terminate"} : pc' = [pc EXCEPT ![p] = place],
               More([mailbox EXCEPT ![p] = Tail(@)], mailbox')
        PROVE  Abstract!Next
    <2>1. \A q \in Proc : SameCall(q) /\ SameLife(q)
      BY <1>2 DEF SameCall, SameLife, Types, TypeOK
    <2>2. SameCalls
      BY <2>1, CallsFrom DEF SameCalls
    <2>3. Waiting[p] = 0
      BY <1>2 DEF Waiting
    <2>4. QED
      BY <1>2, <2>2, <2>3, Takes
  <1>3. ASSUME mailbox[p] # <<>>
        PROVE  /\ [mailbox EXCEPT ![p] = Tail(@)] \in Boxes(Message)
               /\ Head(mailbox[p]) \in Message
               /\ More([mailbox EXCEPT ![p] = Tail(@)], [mailbox EXCEPT ![p] = Tail(@)])
    <2>1. /\ [mailbox EXCEPT ![p] = Tail(@)] \in Boxes(Message)
          /\ Head(mailbox[p]) \in Message
      BY <1>3, BoxesAre, TailTyping
    <2>2. QED
      BY <2>1, MoreSame
  <1>4. CASE RunCallback(p) \/ Ignore(p) \/ HandleExit(p)
    <2>1. /\ pc[p] = "loop" /\ mailbox[p] # <<>> /\ UNCHANGED <<callRef, stash>>
          /\ mailbox' = [mailbox EXCEPT ![p] = Tail(@)]
      BY <1>4 DEF RunCallback, Ignore, HandleExit
    <2>2. \E place \in {"loop", "callback", "terminate"} : pc' = [pc EXCEPT ![p] = place]
      BY <1>4 DEF RunCallback, Ignore, HandleExit, Types, TypeOK
    <2>3. QED
      BY <1>2, <1>3, <2>1, <2>2
  <1>5. CASE HandleStop(p)
    <2>1. /\ pc[p] = "loop" /\ mailbox[p] # <<>> /\ UNCHANGED <<callRef, stash>>
          /\ pc' = [pc EXCEPT ![p] = "terminate"]
          /\ mailbox' = Put([mailbox EXCEPT ![p] = Tail(@)], Head(mailbox[p]).pid,
                            Msg("reply", Head(mailbox[p]).ref, None))
      BY <1>5 DEF HandleStop
    <2>2. Head(mailbox[p]).ref \in Nat
      BY <1>3, <2>1 DEF Message
    <2>3. More([mailbox EXCEPT ![p] = Tail(@)], mailbox')
      BY <1>3, <2>1, <2>2, ReplyMore
    <2>4. QED
      BY <1>2, <2>1, <2>3
  <1>6. QED
    BY <1>1, <1>4, <1>5 DEF LoopStep

LEMMA ReturnImplements ==
    ASSUME Types, NEW p \in Proc, CallbackReturns(p) PROVE Abstract!Next
  <1>1. mailbox \in Boxes(Message) /\ mailbox' \in Boxes(Message)
    BY BoxesAre
  <1>2. cur[p].kind = "call" => /\ ReplyNow(p) \in Boxes(Message)
                                /\ More(mailbox, ReplyNow(p))
    <2>1. cur[p].ref \in Nat
      BY DEF Types, TypeOK, Message
    <2>2. QED
      BY <1>1, <2>1, ReplyMore DEF ReplyNow
  <1>3. More(mailbox, mailbox)
    BY <1>1, MoreSame
  <1>4. ASSUME pc[p] = "callback", UNCHANGED <<callRef, stash>>,
               \E place \in {"loop", "terminate"} : pc' = [pc EXCEPT ![p] = place],
               More(mailbox, mailbox')
        PROVE  Abstract!Next
    <2>1. \A q \in Proc : SameCall(q) /\ SameLife(q)
      BY <1>4 DEF SameCall, SameLife, Types, TypeOK
    <2>2. SameCalls
      BY <2>1, CallsFrom DEF SameCalls
    <2>3. QED
      BY <1>4, <2>2, Arrives
  <1>5. ASSUME NEW next \in Next3, NEW boxes \in Boxes(Message), More(mailbox, boxes),
               Proceed(p, next, boxes)
        PROVE  More(mailbox, mailbox')
    <2>1. Msg("continue", 0, None) \in Message
      BY MessageTyping DEF Kind
    <2>2. More(boxes, Put(boxes, p, Msg("continue", 0, None)))
      BY <2>1, MorePut
    <2>3. Put(boxes, p, Msg("continue", 0, None)) \in Boxes(Message)
      BY <2>1, PutTyping
    <2>4. QED
      BY <1>1, <1>5, <2>2, <2>3, MoreTwice DEF Proceed
  <1>6. ASSUME NEW next \in Next3, ReturnNoReply(p, next) PROVE Abstract!Next
    <2>1. More(mailbox, mailbox')
      BY <1>1, <1>3, <1>5, <1>6 DEF ReturnNoReply
    <2>2. QED
      BY <1>4, <1>6, <2>1 DEF ReturnNoReply
  <1>7. ASSUME NEW next \in Next3, ReturnReply(p, next) PROVE Abstract!Next
    <2>1. More(mailbox, mailbox')
      BY <1>2, <1>5, <1>7 DEF ReturnReply
    <2>2. QED
      BY <1>4, <1>7, <2>1 DEF ReturnReply
  <1>8. CASE ReturnStop(p) /\ cur[p].kind # "init"
    BY <1>2, <1>3, <1>4, <1>8 DEF ReturnStop
  <1>9. CASE ReturnStop(p) /\ cur[p].kind = "init"
    <2>1. \A q \in Proc : SameCall(q)
      BY <1>9 DEF ReturnStop, SameCall, Types, TypeOK
    <2>2. Waiting[p] = 0 /\ stash[p] = <<>>
      BY <1>9 DEF ReturnStop, Waiting, Types, TypeOK
    <2>3. Alive' = Alive \ {p}
      BY <1>9 DEF ReturnStop, Alive, Open, Types, TypeOK
    <2>4. QED
      BY <1>9, <2>1, <2>2, <2>3, CallsFrom, Ends DEF ReturnStop
  <1>10. QED
    BY <1>6, <1>7, <1>8, <1>9 DEF CallbackReturns

LEMMA CallImplements ==
    ASSUME Types, NEW p \in Proc, CallStep(p)
    PROVE  [Abstract!Next]_(Abstract!vars)
  <1>1. /\ mailbox \in Boxes(Message) /\ mailbox' \in Boxes(Message)
        /\ stash \in Boxes(Message) /\ stash' \in Boxes(Message)
    BY BoxesAre
  <1>2. CASE CallReceive(p) /\ IsReply(p, Head(mailbox[p]))
    <2>1. \A q \in Proc : SameLife(q)
      BY <1>2 DEF CallReceive, SameLife, Types, TypeOK
    <2>2. Waiting' = [Waiting EXCEPT ![p] = 0] /\ Waiting[p] = callRef[p]
      BY <1>2 DEF CallReceive, Waiting, Types, TypeOK
    <2>3. QED
      BY <1>2, <2>1, <2>2, CallsFrom, Answers DEF CallReceive, IsReply
  <1>3. CASE CallReceive(p) /\ ~IsReply(p, Head(mailbox[p]))
    <2>1. SameCalls
      BY <1>3, SamePlaces DEF CallReceive
    <2>2. Head(mailbox[p]) \in Message /\ mailbox[p] # <<>> /\ mailbox' = [mailbox EXCEPT ![p] = Tail(@)]
      BY <1>1, <1>3, TailTyping DEF CallReceive
    <2>3. /\ stash' = [stash EXCEPT ![p] = Append(@, Head(mailbox[p]))]
          /\ stash'[p] = Append(stash[p], Head(mailbox[p]))
      BY <1>1, <1>3 DEF CallReceive, Boxes
    <2>4. ASSUME NEW x PROVE Count(mailbox', stash', p, x) = Count(mailbox, stash, p, x)
      <3>1. Times(mailbox[p], x) = Times(mailbox'[p], x) + One(x, Head(mailbox[p]))
        BY <1>1, <2>2, TailCount
      <3>2. stash[p] \in Seq(Message) /\ mailbox'[p] \in Seq(Message)
        BY <1>1 DEF Boxes
      <3>3. Times(stash'[p], x) = Times(stash[p], x) + One(x, Head(mailbox[p]))
        BY <2>2, <2>3, <3>2, TimesAppend, TimesNat DEF One
      <3>4. /\ Times(mailbox'[p], x) \in Nat /\ Times(stash[p], x) \in Nat
            /\ One(x, Head(mailbox[p])) \in Nat
        BY <3>2, TimesNat DEF One
      <3>5. QED
        BY <3>1, <3>3, <3>4 DEF Count
    <2>5. \A q \in Proc \ {p} : mailbox'[q] = mailbox[q] /\ stash'[q] = stash[q]
      BY <1>1, <2>2, <2>3 DEF Boxes
    <2>6. QED
      BY <2>1, <2>4, <2>5, HeldStays DEF Abstract!vars
  <1>4. CASE CallTimeout(p)
    <2>1. \A q \in Proc : SameLife(q)
      BY <1>4 DEF CallTimeout, SameLife, Types, TypeOK
    <2>2. Waiting' = [Waiting EXCEPT ![p] = 0] /\ Waiting[p] # 0
      BY <1>4 DEF CallTimeout, Waiting, Types, TypeOK
    <2>3. QED
      BY <1>4, <2>1, <2>2, CallsFrom, GivesUp DEF CallTimeout, StashAtTimeout
  <1>5. CASE ResendOne(p)
    <2>1. SameCalls
      BY <1>5, SamePlaces DEF ResendOne
    <2>2. /\ Head(stash[p]) \in Message /\ stash[p] # <<>> /\ Open(p)
          /\ stash' = [stash EXCEPT ![p] = Tail(@)]
          /\ mailbox' = Put(mailbox, p, Head(stash[p]))
      BY <1>1, <1>5, TailTyping DEF ResendOne, Resent, Open
    <2>3. ASSUME NEW x PROVE Count(mailbox', stash', p, x) = Count(mailbox, stash, p, x)
      <3>1. Times(stash[p], x) = Times(stash'[p], x) + One(x, Head(stash[p]))
        BY <1>1, <2>2, TailCount
      <3>2. mailbox[p] \in Seq(Message) /\ stash'[p] \in Seq(Message)
        BY <1>1 DEF Boxes
      <3>3. Times(mailbox[p], x) \in Nat /\ Times(stash'[p], x) \in Nat
        BY <3>2, TimesNat
      <3>4. Times(mailbox'[p], x) = Times(mailbox[p], x) + One(x, Head(stash[p]))
        <4>1. Times(mailbox'[p], x) = IF x = Head(stash[p]) THEN Times(mailbox[p], x) + 1
                                                           ELSE Times(mailbox[p], x)
          <5>1. ASSUME NEW m \in Message
                PROVE  Times(Put(mailbox, p, m)[p], x)
                           = IF p = p /\ Open(p) /\ x = m THEN Times(mailbox[p], x) + 1
                                                       ELSE Times(mailbox[p], x)
            BY <1>1, PutCount
          <5>2. QED
            BY <2>2, <5>1
        <4>2. QED
          BY <3>3, <4>1 DEF One
      <3>5. One(x, Head(stash[p])) \in Nat
        BY DEF One
      <3>6. QED
        BY <3>1, <3>3, <3>4, <3>5 DEF Count
    <2>4. \A q \in Proc \ {p} : mailbox'[q] = mailbox[q] /\ stash'[q] = stash[q]
      BY <1>1, <2>2 DEF Boxes, Put
    <2>5. QED
      BY <2>1, <2>3, <2>4, HeldStays DEF Abstract!vars
  <1>6. ASSUME pc[p] \in {"resend", "stopping"}, UNCHANGED <<mailbox, stash>>,
               pc' = [pc EXCEPT ![p] = "callback"], callRef' = [callRef EXCEPT ![p] = 0]
        PROVE  UNCHANGED Abstract!vars
    <2>1. \A q \in Proc : SameCall(q) /\ SameLife(q)
      BY <1>6 DEF SameCall, SameLife, Types, TypeOK
    <2>2. QED
      BY <1>6, <2>1, CallsFrom DEF Abstract!vars, Held
  <1>7. CASE CallReturn(p) \/ StopTimeout(p)
    BY <1>6, <1>7 DEF CallReturn, StopTimeout, StopReturn
  <1>8. CASE StopReceive(p)
    <2>1. \A q \in Proc : SameCall(q) /\ SameLife(q)
      BY <1>8 DEF StopReceive, StopReturn, SameCall, SameLife, Types, TypeOK
    <2>2. SameCalls /\ Waiting[p] = 0
      BY <1>8, <2>1, CallsFrom DEF SameCalls, StopReceive, StopReturn, Waiting
    <2>3. /\ mailbox[p] # <<>> /\ stash' = stash
          /\ More([mailbox EXCEPT ![p] = Tail(@)], mailbox')
      BY <1>1, <1>8, MoreSame DEF StopReceive, StopReturn
    <2>4. QED
      BY <2>2, <2>3, Takes
  <1>9. QED
    BY <1>2, <1>3, <1>4, <1>5, <1>7, <1>8 DEF CallStep

LEMMA AskImplements ==
    ASSUME Types, NEW p \in Proc, NEW q \in Proc, Call(p, q) \/ Stop(p, q)
    PROVE  [Abstract!Next]_(Abstract!vars)
  <1>1. mailbox \in Boxes(Message) /\ nextRef \in Nat
    <2>1. nextRef \in Nat
      BY BoundAssumption DEF Types, TypeOK
    <2>2. QED
      BY <2>1, BoxesAre
  <1>2. \A kind \in {"call", "stop"} : Msg(kind, nextRef, p) \in Message
    BY <1>1, MessageTyping DEF Kind
  <1>3. /\ pc[p] = "callback" /\ nextRef \in Ref /\ stash' = stash
        /\ More(mailbox, mailbox')
    BY <1>1, <1>2, MorePut, MoreSame DEF Call, Stop, Ask
  <1>4. \A r \in Proc : SameLife(r)
    BY DEF Call, Stop, Ask, SameLife, Types, TypeOK
  <1>5. CASE Call(p, q) /\ Open(q)
    <2>1. \A r \in Proc \ {p} : Waiting'[r] = Waiting[r]
      BY <1>5 DEF Call, Ask, Waiting, Types, TypeOK
    <2>2. Waiting[p] = 0 /\ Waiting'[p] = nextRef /\ nextRef # 0
      BY <1>3, <1>5 DEF Call, Ask, Waiting, Types, TypeOK, Ref
    <2>3. QED
      BY <1>3, <1>4, <2>1, <2>2, CallsFrom, Begins
  <1>6. CASE ~Open(q) \/ Stop(p, q)
    <2>1. \A r \in Proc : SameCall(r)
      BY <1>6 DEF Call, Stop, Ask, SameCall, Types, TypeOK
    <2>2. QED
      BY <1>3, <1>4, <2>1, CallsFrom, Arrives DEF SameCalls
  <1>7. QED
    BY <1>5, <1>6

LEMMA InitImplements == Init => Abstract!Init
  <1> SUFFICES ASSUME Init PROVE Abstract!Init
    OBVIOUS
  <1>1. ASSUME NEW p \in Proc PROVE Held[p] = Abstract!EmptyBag
    <2>1. mailbox[p] \o stash[p] = <<>>
      BY DEF Init
    <2>2. Range(<<>>) = {}
      BY DEF Range
    <2>3. QED
      BY <2>1, <2>2 DEF Held, ToBag, Abstract!EmptyBag, Abstract!SetToBag
  <1>2. Held = [p \in Proc |-> Abstract!EmptyBag]
    BY <1>1 DEF Held
  <1>3. Waiting = [p \in Proc |-> 0] /\ Alive = Proc
    BY DEF Init, Waiting, Alive, Open
  <1>4. QED
    BY <1>2, <1>3 DEF Abstract!Init

LEMMA NextImplements ==
    Types /\ [Next]_vars => [Abstract!Next]_(Abstract!vars)
  <1> SUFFICES ASSUME Types, [Next]_vars PROVE [Abstract!Next]_(Abstract!vars)
    OBVIOUS
  <1>1. ASSUME NEW p \in Proc, NEW msg \in Message, mailbox' = Put(mailbox, p, msg),
               UNCHANGED <<pc, callRef, stash>>
        PROVE  Abstract!Next
    <2>1. More(mailbox, mailbox')
      BY <1>1, BoxesAre, MorePut
    <2>2. QED
      BY <1>1, <2>1, SamePlaces, Arrives
  <1>2. ASSUME NEW p \in Proc, TimerFires(p) PROVE Abstract!Next
    <2>1. Msg("timeout", 0, None) \in Message
      BY MessageTyping DEF Kind
    <2>2. QED
      BY <1>1, <1>2, <2>1 DEF TimerFires
  <1>3. ASSUME NEW p \in Proc, Environment(p) PROVE Abstract!Next
    <2>1. ASSUME NEW kind \in Kind, NEW ref \in Nat, NEW pid \in Proc \cup {None},
                 Incoming(p, kind, ref, pid)
          PROVE  Abstract!Next
      BY <1>1, <2>1, MessageTyping DEF Incoming
    <2>2. CASE Cast(p)
      BY <2>1, <2>2 DEF Cast, Kind
    <2>3. ASSUME NEW q \in Proc, NEW ref \in ReasonRef, ExitSignal(p, q, ref)
          PROVE  Abstract!Next
      BY <2>1, <2>3, DecodeAssumption DEF ExitSignal, Kind
    <2>4. ASSUME NEW q \in Proc, NEW ref \in Ref, Down(p, q, ref) PROVE Abstract!Next
      BY <2>1, <2>4 DEF Down, Kind, Ref
    <2>5. QED
      BY <1>3, <2>2, <2>3, <2>4 DEF Environment
  <1>4. ASSUME NEW from \in deferred, Reply(from) PROVE Abstract!Next
    <2>1. from.ref \in Nat /\ mailbox \in Boxes(Message)
      BY BoxesAre DEF Types, TypeOK
    <2>2. More(mailbox, mailbox')
      BY <1>4, <2>1, ReplyMore DEF Reply
    <2>3. QED
      BY <1>4, <2>2, SamePlaces, Arrives DEF Reply
  <1>5. CASE UNCHANGED vars
    BY <1>5 DEF vars, Abstract!vars, Held, Waiting, Alive, Open
  <1>6. QED
    BY <1>2, <1>3, <1>4, <1>5, LoopImplements, ReturnImplements, CallImplements, AskImplements
       DEF Next

(***************************************************************************)
(* GenServer implements SelectiveReceive, for any number of servers that   *)
(* call, cast to and stop each other: no step loses a message that a       *)
(* process has accepted, and while a call waits nothing but its own reply  *)
(* is taken.                                                               *)
(***************************************************************************)
THEOREM CallsReceiveSelectively == Spec => ReceivesSelectively
  <1>1. TypeOK /\ TypeOK' /\ [Next]_vars => [Abstract!Next]_(Abstract!vars)
    BY NextImplements DEF Types
  <1>2. QED
    BY <1>1, InitImplements, TypeCorrect, PTL DEF Spec, ReceivesSelectively, Abstract!Spec
=============================================================================
