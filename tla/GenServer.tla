----------------------------- MODULE GenServer ------------------------------
(***************************************************************************)
(* Generic servers: gen_server/server.rs with its messages                 *)
(* (gen_server/protocol.rs) and the mailbox (runtime/mailbox.rs).          *)
(*                                                                         *)
(* Every process here runs gen_server_loop.  A callback may itself call,   *)
(* cast to or stop another server, which is when the selective receive of  *)
(* `call` competes with the loop for the one mailbox of the process.       *)
(* Time is abstract: a timeout may come at any moment.                     *)
(***************************************************************************)
EXTENDS Naturals, Sequences, SequencesExt

CONSTANTS
    Proc,       \* the processes
    None,       \* "no process"
    MaxRef,     \* bound: how many references are created by call and stop
    MaxMail,    \* bound: casts, exits and downs come to mailboxes shorter than this
    MaxTimer,   \* bound: pending timers per process
    ReasonRef,  \* what the reasons of exit messages decode as (see Decode)
    ShortRef,   \* the largest reference of a DOWN that decodes as a length
    Ops         \* the operations the callbacks and the environment use

ASSUME NoneAssumption == None \notin Proc
ASSUME BoundAssumption == MaxRef \in Nat /\ MaxMail \in Nat /\ MaxTimer \in Nat
ASSUME DecodeAssumption == ReasonRef \subseteq Nat /\ ShortRef \in Nat

Ref == 1 .. MaxRef

Kind == {"none", "init", "call", "cast", "reply", "stop", "timeout", "continue",
         "exit", "down"}

(***************************************************************************)
(* A message.  ref is the reference of a call, reply, stop or DOWN, and    *)
(* the encoded reason of an exit; pid is the sender the message names.     *)
(***************************************************************************)
Message == [kind : Kind, ref : Nat, pid : Proc \cup {None}]

Msg(kind, ref, pid) == [kind |-> kind, ref |-> ref, pid |-> pid]

InitMsg == Msg("init", 0, None)     \* stands for the init callback
NoMsg == Msg("none", 0, None)       \* no callback runs

VARIABLES
    mailbox,    \* the mailbox of each process
    pc,         \* where the process is: in the loop, in a callback, in call, ...
    cur,        \* the message whose callback runs
    callRef,    \* the reference call or stop waits for
    stash,      \* stashed_messages of the running call
    timers,     \* how many schedule_timeout tasks sleep
    deferred,   \* the From of calls whose callback answered NoReply
    nextRef,    \* the counter behind Ref::new
    served,     \* how often the callback ran for the call (history)
    outcome     \* what the call or stop returned (history)

vars == <<mailbox, pc, cur, callRef, stash, timers, deferred, nextRef, served,
          outcome>>

PC == {"loop", "callback", "calling", "resend", "stopping", "terminate", "ended"}
Outcome == {"none", "ok", "timeout", "notalive"}

\* The last conjuncts: what the place in the code implies about the locals.
TypeOK ==
    /\ mailbox \in [Proc -> Seq(Message)]
    /\ pc \in [Proc -> PC]
    /\ cur \in [Proc -> Message]
    /\ callRef \in [Proc -> 0 .. MaxRef]
    /\ stash \in [Proc -> Seq(Message)]
    /\ timers \in [Proc -> 0 .. MaxTimer]
    /\ deferred \subseteq [ref : Nat, pid : Proc \cup {None}]
    /\ nextRef \in 1 .. MaxRef + 1
    /\ served \in [Ref -> Nat]
    /\ outcome \in [Ref -> Outcome]
    /\ \A p \in Proc :
          /\ pc[p] \in {"calling", "resend", "stopping"} <=> callRef[p] # 0
          /\ pc[p] \in {"loop", "terminate", "ended"} <=> cur[p] = NoMsg
          /\ stash[p] # <<>> => pc[p] \in {"calling", "resend"}

\* Every process starts in its init callback.
Init ==
    /\ mailbox = [p \in Proc |-> <<>>]
    /\ pc = [p \in Proc |-> "callback"]
    /\ cur = [p \in Proc |-> InitMsg]
    /\ callRef = [p \in Proc |-> 0]
    /\ stash = [p \in Proc |-> <<>>]
    /\ timers = [p \in Proc |-> 0]
    /\ deferred = {}
    /\ nextRef = 1
    /\ served = [r \in Ref |-> 0]
    /\ outcome = [r \in Ref |-> "none"]

-----------------------------------------------------------------------------
\* The receiving end of a mailbox is dropped with the task.
Open(p) == pc[p] # "ended"

\* send_raw, dropped when the mailbox is closed.
Put(boxes, p, msg) ==
    IF p \in Proc /\ Open(p) THEN [boxes EXCEPT ![p] = Append(@, msg)] ELSE boxes

(***************************************************************************)
(* protocol::decode.  The encoding has no names: a GenServerMessage and a  *)
(* SystemMessage are told apart only by whether the bytes fit.  An exit    *)
(* whose reason carries a string fits Call (its tag and string read as a   *)
(* reference and a payload; ref 0 here is a reason without a string), and  *)
(* a DOWN fits Cast when its reference is a length the rest can fill.      *)
(***************************************************************************)
Decode(msg) ==
    IF msg.kind = "exit" /\ msg.ref # 0 THEN [msg EXCEPT !.kind = "call"]
    ELSE IF msg.kind = "down" /\ msg.ref <= ShortRef
         THEN [msg EXCEPT !.kind = "cast"]
    ELSE msg

-----------------------------------------------------------------------------
(***************************************************************************)
(* The loop.                                                               *)
(***************************************************************************)
\* A message with a callback.  One served call is counted per call message.
HasCallback(msg) == msg.kind \in {"call", "cast", "timeout", "continue", "down"}

RunCallback(p) ==
    LET msg == Decode(Head(mailbox[p]))
    IN /\ pc[p] = "loop"
       /\ mailbox[p] # <<>>
       /\ HasCallback(msg)
       /\ mailbox' = [mailbox EXCEPT ![p] = Tail(@)]
       /\ pc' = [pc EXCEPT ![p] = "callback"]
       /\ cur' = [cur EXCEPT ![p] = msg]
       /\ served' = IF Head(mailbox[p]).kind = "call"
                    THEN [served EXCEPT ![msg.ref] = @ + 1] ELSE served
       /\ UNCHANGED <<callRef, stash, timers, deferred, nextRef, outcome>>

\* Replies are for call; a payload that does not decode is ignored.
Ignore(p) ==
    LET msg == Head(mailbox[p])
    IN /\ pc[p] = "loop"
       /\ mailbox[p] # <<>>
       /\ msg.kind = "reply" \/ Decode(msg) # msg
       /\ mailbox' = [mailbox EXCEPT ![p] = Tail(@)]
       /\ UNCHANGED <<pc, cur, callRef, stash, timers, deferred, nextRef, served,
                      outcome>>

\* A stop request is answered before terminate runs.
HandleStop(p) ==
    LET msg == Head(mailbox[p])
    IN /\ pc[p] = "loop"
       /\ mailbox[p] # <<>>
       /\ msg.kind = "stop"
       /\ mailbox' = Put([mailbox EXCEPT ![p] = Tail(@)], msg.pid,
                         Msg("reply", msg.ref, None))
       /\ pc' = [pc EXCEPT ![p] = "terminate"]
       /\ UNCHANGED <<cur, callRef, stash, timers, deferred, nextRef, served,
                      outcome>>

HandleExit(p) ==
    /\ pc[p] = "loop"
    /\ mailbox[p] # <<>>
    /\ Decode(Head(mailbox[p])).kind = "exit"
    /\ mailbox' = [mailbox EXCEPT ![p] = Tail(@)]
    /\ pc' = [pc EXCEPT ![p] = "terminate"]
    /\ UNCHANGED <<cur, callRef, stash, timers, deferred, nextRef, served, outcome>>

\* terminate returns and the task is over.
Terminated(p) ==
    /\ pc[p] = "terminate"
    /\ pc' = [pc EXCEPT ![p] = "ended"]
    /\ mailbox' = [mailbox EXCEPT ![p] = <<>>]
    /\ UNCHANGED <<cur, callRef, stash, timers, deferred, nextRef, served, outcome>>

-----------------------------------------------------------------------------
(***************************************************************************)
(* What a callback returns: InitResult, CallResult, CastResult.            *)
(***************************************************************************)
\* The reply of a call callback, if it gives one now.
ReplyNow(p) == Put(mailbox, cur[p].pid, Msg("reply", cur[p].ref, None))

\* Loop on, with boxes as the mailboxes after the reply.
Proceed(p, next, boxes) ==
    \/ /\ next = "loop"
       /\ mailbox' = boxes
       /\ UNCHANGED timers
    \/ /\ next = "timeout"      \* schedule_timeout
       /\ timers[p] < MaxTimer
       /\ timers' = [timers EXCEPT ![p] = @ + 1]
       /\ mailbox' = boxes
    \/ /\ next = "continue"     \* schedule_continue
       /\ mailbox' = Put(boxes, p, Msg("continue", 0, None))
       /\ UNCHANGED timers

Next3 == {"loop", "timeout", "continue"} \cap Ops

ReturnNoReply(p, next) ==
    /\ pc[p] = "callback"
    /\ Proceed(p, next, mailbox)
    /\ deferred' = IF cur[p].kind = "call"
                   THEN deferred \cup {[ref |-> cur[p].ref, pid |-> cur[p].pid]}
                   ELSE deferred
    /\ pc' = [pc EXCEPT ![p] = "loop"]
    /\ cur' = [cur EXCEPT ![p] = NoMsg]
    /\ UNCHANGED <<callRef, stash, nextRef, served, outcome>>

ReturnReply(p, next) ==
    /\ pc[p] = "callback"
    /\ cur[p].kind = "call"
    /\ Proceed(p, next, ReplyNow(p))
    /\ pc' = [pc EXCEPT ![p] = "loop"]
    /\ cur' = [cur EXCEPT ![p] = NoMsg]
    /\ UNCHANGED <<callRef, stash, deferred, nextRef, served, outcome>>

\* Stop from init (or Ignore) ends the task without terminate; the mailbox
\* is dropped with the task.
ReturnStop(p) ==
    /\ pc[p] = "callback"
    /\ "return_stop" \in Ops
    /\ IF cur[p].kind = "init"
       THEN /\ mailbox' = [mailbox EXCEPT ![p] = <<>>]
            /\ pc' = [pc EXCEPT ![p] = "ended"]
       ELSE /\ \/ mailbox' = mailbox
               \/ cur[p].kind = "call" /\ mailbox' = ReplyNow(p)
            /\ pc' = [pc EXCEPT ![p] = "terminate"]
    /\ cur' = [cur EXCEPT ![p] = NoMsg]
    /\ UNCHANGED <<callRef, stash, timers, deferred, nextRef, served, outcome>>

\* gen_server::reply for a deferred From, from any process.
Reply(from) ==
    /\ from \in deferred
    /\ deferred' = deferred \ {from}
    /\ mailbox' = Put(mailbox, from.pid, Msg("reply", from.ref, None))
    /\ UNCHANGED <<pc, cur, callRef, stash, timers, nextRef, served, outcome>>

\* The task of schedule_timeout; nothing ever cancels it.
TimerFires(p) ==
    /\ timers[p] > 0
    /\ timers' = [timers EXCEPT ![p] = @ - 1]
    /\ mailbox' = Put(mailbox, p, Msg("timeout", 0, None))
    /\ UNCHANGED <<pc, cur, callRef, stash, deferred, nextRef, served, outcome>>

-----------------------------------------------------------------------------
(***************************************************************************)
(* call, made by a callback of p.                                          *)
(***************************************************************************)
\* Ask q with a new reference, and wait in step; or find it dead.
Ask(p, q, kind, step) ==
    /\ pc[p] = "callback"
    /\ nextRef \in Ref
    /\ nextRef' = nextRef + 1
    /\ IF Open(q)
       THEN /\ mailbox' = Put(mailbox, q, Msg(kind, nextRef, p))
            /\ pc' = [pc EXCEPT ![p] = step]
            /\ callRef' = [callRef EXCEPT ![p] = nextRef]
            /\ UNCHANGED outcome
       ELSE /\ outcome' = [outcome EXCEPT ![nextRef] = "notalive"]
            /\ UNCHANGED <<mailbox, pc, callRef>>
    /\ UNCHANGED <<cur, stash, timers, deferred, served>>

Call(p, q) == "call" \in Ops /\ Ask(p, q, "call", "calling")

\* The reply the call waits for.  Variant: any reply will do.
AnyReply(p, msg) == msg.kind = "reply"
IsReply(p, msg) == msg.kind = "reply" /\ msg.ref = callRef[p]

CallReceive(p) ==
    LET msg == Head(mailbox[p])
    IN /\ pc[p] = "calling"
       /\ mailbox[p] # <<>>
       /\ mailbox' = [mailbox EXCEPT ![p] = Tail(@)]
       /\ IF IsReply(p, msg)
          THEN /\ outcome' = [outcome EXCEPT ![callRef[p]] = "ok"]
               /\ pc' = [pc EXCEPT ![p] = "resend"]
               /\ UNCHANGED stash
          ELSE /\ stash' = [stash EXCEPT ![p] = Append(@, msg)]
               /\ UNCHANGED <<pc, outcome>>
       /\ UNCHANGED <<cur, callRef, timers, deferred, nextRef, served>>

\* No time remains.  Variant: only noticed when nothing has been stashed.
ExpireUnlessBusy(p) == stash[p] = <<>>
Expire(p) == TRUE

\* The messages stashed so far.  Variant: dropped with the call.
StashDropped(p) == [stash EXCEPT ![p] = <<>>]
StashAtTimeout(p) == stash

CallTimeout(p) ==
    /\ pc[p] = "calling"
    /\ Expire(p)
    /\ outcome' = [outcome EXCEPT ![callRef[p]] = "timeout"]
    /\ pc' = [pc EXCEPT ![p] = "resend"]
    /\ stash' = StashAtTimeout(p)
    /\ UNCHANGED <<mailbox, cur, callRef, timers, deferred, nextRef, served>>

\* One iteration of resend_stashed: others may send in between.
Resent(p) == Put(mailbox, p, Head(stash[p]))

ResendOne(p) ==
    /\ pc[p] = "resend"
    /\ stash[p] # <<>>
    /\ mailbox' = Resent(p)
    /\ stash' = [stash EXCEPT ![p] = Tail(@)]
    /\ UNCHANGED <<pc, cur, callRef, timers, deferred, nextRef, served, outcome>>

\* resend_stashed has sent everything back.
AllResent(p) == stash[p] = <<>>

CallReturn(p) ==
    /\ pc[p] = "resend"
    /\ AllResent(p)
    /\ pc' = [pc EXCEPT ![p] = "callback"]
    /\ callRef' = [callRef EXCEPT ![p] = 0]
    /\ UNCHANGED <<mailbox, cur, stash, timers, deferred, nextRef, served, outcome>>

-----------------------------------------------------------------------------
(***************************************************************************)
(* stop: whatever message comes first is taken for the acknowledgment.     *)
(***************************************************************************)
Stop(p, q) == "stop" \in Ops /\ Ask(p, q, "stop", "stopping")

StopReturn(p, boxes, result) ==
    /\ pc[p] = "stopping"
    /\ mailbox' = boxes
    /\ outcome' = [outcome EXCEPT ![callRef[p]] = result]
    /\ pc' = [pc EXCEPT ![p] = "callback"]
    /\ callRef' = [callRef EXCEPT ![p] = 0]
    /\ UNCHANGED <<cur, stash, timers, deferred, nextRef, served>>

StopReceive(p) ==
    /\ mailbox[p] # <<>>
    /\ StopReturn(p, [mailbox EXCEPT ![p] = Tail(@)], "ok")

StopTimeout(p) == StopReturn(p, mailbox, "timeout")

-----------------------------------------------------------------------------
(***************************************************************************)
(* Messages from elsewhere: casts, exits of linked processes (a server     *)
(* whose init traps exits gets them) and DOWNs of monitored ones.          *)
(***************************************************************************)
Incoming(q, kind, ref, pid) ==
    /\ kind \in Ops
    /\ Open(q)
    /\ Len(mailbox[q]) + Len(stash[q]) < MaxMail
    /\ mailbox' = Put(mailbox, q, Msg(kind, ref, pid))
    /\ UNCHANGED <<pc, cur, callRef, stash, timers, deferred, nextRef, served,
                   outcome>>

Cast(q) == Incoming(q, "cast", 0, None)
ExitSignal(q, p, ref) == Incoming(q, "exit", ref, p)
Down(q, p, ref) == Incoming(q, "down", ref, p)

-----------------------------------------------------------------------------
LoopStep(p) ==
    \/ RunCallback(p)
    \/ Ignore(p)
    \/ HandleStop(p)
    \/ HandleExit(p)
    \/ Terminated(p)

CallbackReturns(p) ==
    \/ \E next \in Next3 : ReturnNoReply(p, next) \/ ReturnReply(p, next)
    \/ ReturnStop(p)

CallStep(p) ==
    \/ CallReceive(p)
    \/ CallTimeout(p)
    \/ ResendOne(p)
    \/ CallReturn(p)
    \/ StopReceive(p)
    \/ StopTimeout(p)

Environment(p) ==
    \/ Cast(p)
    \/ \E q \in Proc \ {p} : \/ \E ref \in ReasonRef : ExitSignal(p, q, ref)
                             \/ \E ref \in Ref : Down(p, q, ref)

Next ==
    \/ \E p \in Proc :
          \/ LoopStep(p)
          \/ CallbackReturns(p)
          \/ CallStep(p)
          \/ TimerFires(p)
          \/ \E q \in Proc : Call(p, q) \/ Stop(p, q)
          \/ Environment(p)
    \/ \E from \in deferred : Reply(from)

Spec == Init /\ [][Next]_vars

(***************************************************************************)
(* tokio runs a task that can go on, and the timers of recv_timeout fire.  *)
(* That callbacks return is an assumption about the user's code.  At every *)
(* place in the code at most one of these is enabled.                      *)
(***************************************************************************)
GoesOn(p) ==
    \/ LoopStep(p)
    \/ CallbackReturns(p)
    \/ CallTimeout(p)
    \/ ResendOne(p)
    \/ CallReturn(p)
    \/ StopTimeout(p)

FairSpec == Spec /\ \A p \in Proc : WF_vars(GoesOn(p))
-----------------------------------------------------------------------------
(***************************************************************************)
(* Properties.                                                             *)
(***************************************************************************)

(***************************************************************************)
(* call returns a reply only after its own request was handled: neither    *)
(* the late reply of an earlier call that timed out, nor a deferred reply, *)
(* nor the acknowledgment of a stop answers another call.                  *)
(***************************************************************************)
AnswerIsOwn ==
    \A p \in Proc : pc[p] = "resend" /\ outcome[callRef[p]] = "ok" =>
        served[callRef[p]] > 0

\* How often a request waits at a server.
Copies(p, r) ==
    Len(SelectSeq(mailbox[p] \o stash[p], LAMBDA m : m.kind = "call" /\ m.ref = r))

(***************************************************************************)
(* A call always returns, also when a server calls itself, or two call     *)
(* each other and each waits for the other.                                *)
(***************************************************************************)
CallReturns == \A p \in Proc : pc[p] = "calling" ~> pc[p] = "callback"

(***************************************************************************)
(* A request that a server has accepted is handled eventually, unless the  *)
(* server terminates: it survives every selective receive on the way.      *)
(***************************************************************************)
AcceptedIsServed ==
    \A p \in Proc, r \in Ref :
        Copies(p, r) > 0 ~> served[r] > 0 \/ pc[p] \in {"terminate", "ended"}

(***************************************************************************)
(* "They are distinct from user-defined messages and are handled specially *)
(* by abstractions like GenServer" (SystemMessage): a server that takes an *)
(* exit message off its mailbox in the loop terminates.  (Not what the     *)
(* code does, see the README: TLC refutes it within seconds.)              *)
(***************************************************************************)
TakesExit(p) ==
    /\ pc[p] = "loop"
    /\ mailbox[p] # <<>>
    /\ Head(mailbox[p]).kind = "exit"
    /\ Len(mailbox'[p]) < Len(mailbox[p])

ExitEndsServer == [][\A p \in Proc : TakesExit(p) => pc'[p] = "terminate"]_vars
-----------------------------------------------------------------------------
(***************************************************************************)
(* What GenServer implements: its state as that of SelectiveReceive.       *)
(***************************************************************************)
\* What is accepted and not taken: the mailbox and what the call stashed.
Held == [p \in Proc |-> ToBag(mailbox[p] \o stash[p])]

Waiting == [p \in Proc |-> IF pc[p] = "calling" THEN callRef[p] ELSE 0]

Alive == {p \in Proc : Open(p)}

Abstract == INSTANCE SelectiveReceive
                WITH pool <- Held, pending <- Waiting, open <- Alive

(***************************************************************************)
(* GenServer implements SelectiveReceive: the stash of call, the resending *)
(* of what it holds and the messages that arrive meanwhile neither lose a  *)
(* message nor let a pending call take one that is not its reply.          *)
(***************************************************************************)
ReceivesSelectively == Abstract!Spec
=============================================================================
