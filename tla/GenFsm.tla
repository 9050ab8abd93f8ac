------------------------------- MODULE GenFsm -------------------------------
(***************************************************************************)
(* A state machine process: gen_fsm/server.rs.  The loop takes a postponed *)
(* message, or a timeout from its channel, or a message from its mailbox,  *)
(* and does what the result of the callback says.  Callbacks are whatever  *)
(* the user writes: every result is possible.  A visit is the time between *)
(* two transitions, also when the state is the same again.                 *)
(***************************************************************************)
EXTENDS Integers, Sequences, FiniteSets

CONSTANTS
    GenericName,    \* the names of generic timeouts
    MaxEvents,      \* bound: events sent
    MaxCalls,       \* bound: calls made
    MaxTimers,      \* bound: timeouts set
    MaxVisits,      \* bound: transitions
    MaxPostponed    \* bound: how often an event is postponed

\* A machine can be started with a timeout.
ASSUME TimersAssumption == MaxTimers \in Nat \ {0}

State == "state"                        \* the name of the state timeout
Slot == GenericName \cup {State}
TimerId == 1 .. MaxTimers
Nil == 0                                \* no timer, no call

VARIABLES
    fsm,            \* "none", "running", or "over" when the loop has returned
    visit,          \* counts the transitions
    fsmMailbox, postponed, timeoutChannel,
    timeouts,       \* TimeoutManager: the timer of each slot, and the timer tasks
    eventsSent, nextCall,
    asked,          \* the call the caller waits for
    callerMailbox,  \* the replies it has not read
    unanswered,     \* the calls whose From the callbacks still hold
    answerOf,       \* the call whose reply the last call returned (history)
    timedOut,       \* whether a call of the caller has timed out (history)
    terminated,     \* how often terminate was called (history)
    retriedInVisit  \* an event was handled again in the visit that postponed it (history)

fsmVars == <<fsm, visit, fsmMailbox, postponed, timeoutChannel, timeouts, eventsSent, nextCall,
             asked, callerMailbox, unanswered, answerOf, timedOut, terminated, retriedInVisit>>

\* tries: how often it was postponed; in: the visit in which that was last.
Event(id) == [kind |-> "event", id |-> id, tries |-> 0, in |-> Nil]
CallMsg(ref) == [kind |-> "call", id |-> ref, tries |-> 0, in |-> Nil]

FsmTypeOK ==
    /\ fsm \in {"none", "running", "over"}
    /\ visit \in 0 .. MaxVisits
    /\ \A n \in Slot : timeouts.timer[n] \in TimerId \cup {Nil}
    /\ \A t \in TimerId : timeouts.task[t].at \in {"free", "armed", "cancelled", "elapsed", "sent"}
    /\ \A i \in DOMAIN postponed : postponed[i].kind = "event"
    /\ asked \in 0 .. MaxCalls /\ unanswered \subseteq 1 .. MaxCalls

FsmInit ==
    /\ fsm = "none" /\ visit = 0
    /\ fsmMailbox = <<>> /\ postponed = <<>> /\ timeoutChannel = <<>>
    /\ timeouts = [timer |-> [n \in Slot |-> Nil],
                   task |-> [t \in TimerId |-> [at |-> "free", name |-> State, visit |-> 0]]]
    /\ eventsSent = 0 /\ nextCall = 1
    /\ asked = Nil /\ callerMailbox = <<>> /\ unanswered = {}
    /\ answerOf = Nil /\ timedOut = FALSE
    /\ terminated = 0 /\ retriedInVisit = FALSE

\* The signal reaches a task whose time has not come.
CancelTask(task, t) == IF task.at = "armed" THEN [task EXCEPT !.at = "cancelled"] ELSE task

CancelTimeout(ts, n) ==
    IF ts.timer[n] = Nil THEN ts
    ELSE [timer |-> [ts.timer EXCEPT ![n] = Nil],
          task |-> [ts.task EXCEPT ![ts.timer[n]] = CancelTask(@, n)]]

Free(ts) == {t \in TimerId : ts.task[t].at = "free"}

SetTimeout(ts, n, v) ==
    LET cleared == CancelTimeout(ts, n)
        t == CHOOSE i \in Free(ts) : \A j \in Free(ts) : i <= j
    IN  [timer |-> [cleared.timer EXCEPT ![n] = t],
         task |-> [cleared.task EXCEPT ![t] = [at |-> "armed", name |-> n, visit |-> v]]]

\* Variant: the generic timeouts are forgotten without a signal.
CancelState(ts) == [CancelTimeout(ts, State) EXCEPT !.timer = [n \in Slot |-> Nil]]
CancelAll(ts) ==
    [timer |-> [n \in Slot |-> Nil],
     task |-> [t \in TimerId |-> IF t \in {ts.timer[n] : n \in Slot}
                                 THEN CancelTask(ts.task[t], State) ELSE ts.task[t]]]

\* What a callback's result asks for.  state: a transition or not; timeout: of the state, which
\* every result but some of handle_call cancels; generic: an action; reply: the call to answer.
Result(state, timeout, generic, postpone, reply, stop) ==
    [state |-> state, timeout |-> timeout, generic |-> generic, postpone |-> postpone,
     reply |-> reply, stop |-> stop]

NoGeneric == <<"none", State>>
Generics == {NoGeneric} \cup ({"set", "cancel"} \X GenericName)

EventResults ==
    {Result(s, t, g, p, r, FALSE) :
        s \in {"next", "keep"}, t \in {"set", "cancel"}, g \in Generics, p \in BOOLEAN,
        r \in unanswered \cup {Nil}}
    \cup {Result("keep", "leave", NoGeneric, FALSE, r, TRUE) : r \in unanswered \cup {Nil}}

CallResults(ref) ==
    {Result("next", t, NoGeneric, FALSE, r, FALSE) : t \in {"set", "cancel"}, r \in {ref, Nil}}
    \cup {Result("keep", "leave", NoGeneric, FALSE, r, stop) : r \in {ref, Nil}, stop \in BOOLEAN}

NewVisit(r) == IF r.state = "next" THEN visit + 1 ELSE visit

Timeouts(r) ==
    LET moved == IF r.state = "next" THEN CancelAll(timeouts)
                 ELSE IF r.timeout = "leave" THEN timeouts
                 ELSE CancelTimeout(timeouts, State)
        armed == IF r.timeout = "set" THEN SetTimeout(moved, State, NewVisit(r)) ELSE moved
    IN  CASE r.generic[1] = "set" -> SetTimeout(armed, r.generic[2], NewVisit(r))
          [] r.generic[1] = "cancel" -> CancelTimeout(armed, r.generic[2])
          [] OTHER -> armed

TimersNeeded(r) ==
    Cardinality({x \in {"timeout", "generic"} :
        \/ x = "timeout" /\ r.timeout = "set"
        \/ x = "generic" /\ r.generic[1] = "set"})

\* The transition, the timeouts and the reply of a result; the reply goes to the caller's mailbox.
ApplyResult(r, held) ==
    /\ NewVisit(r) <= MaxVisits
    /\ TimersNeeded(r) <= Cardinality(Free(timeouts))
    /\ visit' = NewVisit(r)
    /\ timeouts' = Timeouts(r)
    /\ unanswered' = held \ {r.reply}
    /\ callerMailbox' = IF r.reply = Nil THEN callerMailbox ELSE Append(callerMailbox, r.reply)

InitFsm ==
    /\ fsm = "none"
    /\ \/ /\ fsm' = "running"       \* Ok, OkTimeout
          /\ timeouts' \in {timeouts, SetTimeout(timeouts, State, 0)}
       \/ /\ fsm' = "over"          \* Ignore, Stop
          /\ UNCHANGED timeouts
    /\ UNCHANGED <<visit, fsmMailbox, postponed, timeoutChannel, eventsSent, nextCall, asked,
                   callerMailbox, unanswered, answerOf, timedOut, terminated, retriedInVisit>>

SendEvent ==
    /\ fsm = "running" /\ eventsSent < MaxEvents
    /\ eventsSent' = eventsSent + 1
    /\ fsmMailbox' = Append(fsmMailbox, Event(eventsSent + 1))
    /\ UNCHANGED <<fsm, visit, postponed, timeoutChannel, timeouts, nextCall, asked,
                   callerMailbox, unanswered, answerOf, timedOut, terminated, retriedInVisit>>

Call ==
    /\ fsm = "running" /\ asked = Nil /\ nextCall <= MaxCalls
    /\ asked' = nextCall /\ nextCall' = nextCall + 1
    /\ fsmMailbox' = Append(fsmMailbox, CallMsg(nextCall))
    /\ UNCHANGED <<fsm, visit, postponed, timeoutChannel, timeouts, eventsSent,
                   callerMailbox, unanswered, answerOf, timedOut, terminated, retriedInVisit>>

\* The first reply in the mailbox is taken; its reference is not looked at.
CallReturns ==
    /\ asked # Nil
    /\ \/ /\ callerMailbox # <<>>
          /\ answerOf' = IF Head(callerMailbox) = asked THEN answerOf ELSE Head(callerMailbox)
          /\ callerMailbox' = Tail(callerMailbox)
          /\ UNCHANGED timedOut
       \/ /\ timedOut' = TRUE
          /\ UNCHANGED <<callerMailbox, answerOf>>
    /\ asked' = Nil
    /\ UNCHANGED <<fsm, visit, fsmMailbox, postponed, timeoutChannel, timeouts, eventsSent,
                   nextCall, unanswered, terminated, retriedInVisit>>

\* A timer task whose time has come is past its select, and sends.
TaskStep(t, from, to) ==
    /\ timeouts.task[t].at = from
    /\ timeouts' = [timeouts EXCEPT !.task[t].at = to]
    /\ UNCHANGED <<fsm, visit, fsmMailbox, postponed, eventsSent, nextCall, asked, callerMailbox,
                   unanswered, answerOf, timedOut, terminated, retriedInVisit>>

TimerElapses(t) == TaskStep(t, "armed", "elapsed") /\ UNCHANGED timeoutChannel
TimerSends(t) ==
    TaskStep(t, "elapsed", "sent")
        /\ timeoutChannel' = Append(timeoutChannel, timeouts.task[t].name)

\* The event goes to the back of the queue the loop serves first.
HandleEvent(e, rest) ==
    \E r \in EventResults :
        /\ r.postpone => e.tries < MaxPostponed
        /\ ApplyResult(r, unanswered)
        /\ postponed' = IF r.postpone
                        THEN Append(rest, [e EXCEPT !.tries = @ + 1, !.in = visit]) ELSE rest
        /\ retriedInVisit' = (retriedInVisit \/ (e.tries > 0 /\ e.in = visit))
        /\ terminated' = terminated + (IF r.stop THEN 1 ELSE 0)
        /\ fsm' = fsm                   \* also after Stop

TakePostponed ==
    /\ fsm = "running" /\ postponed # <<>>
    /\ HandleEvent(Head(postponed), Tail(postponed))
    /\ UNCHANGED <<fsmMailbox, timeoutChannel, eventsSent, nextCall, asked, answerOf, timedOut>>

\* A timeout becomes an event the machine sends to itself; it may not decode as one.
TakeTimeout ==
    /\ fsm = "running" /\ postponed = <<>> /\ timeoutChannel # <<>>
    /\ timeoutChannel' = Tail(timeoutChannel)
    /\ fsmMailbox' = Append(fsmMailbox, Event(Nil))
    /\ UNCHANGED <<fsm, visit, postponed, timeouts, eventsSent, nextCall, asked, callerMailbox,
                   unanswered, answerOf, timedOut, terminated, retriedInVisit>>

TakeMessage ==
    /\ fsm = "running" /\ postponed = <<>> /\ timeoutChannel = <<>> /\ fsmMailbox # <<>>
    /\ fsmMailbox' = Tail(fsmMailbox)
    /\ LET m == Head(fsmMailbox) IN
       \/ m.kind = "event" /\ HandleEvent(m, postponed)
       \/ /\ m.kind = "call"
          /\ \E r \in CallResults(m.id) :
                /\ ApplyResult(r, unanswered \cup {m.id})
                /\ fsm' = IF r.stop THEN "over" ELSE fsm
                /\ terminated' = terminated + (IF r.stop THEN 2 ELSE 0)
          /\ UNCHANGED <<postponed, retriedInVisit>>
       \/ /\ m = Event(Nil)            \* skipped
          /\ UNCHANGED <<fsm, visit, timeouts, postponed, callerMailbox, unanswered, terminated,
                         retriedInVisit>>
    /\ UNCHANGED <<timeoutChannel, eventsSent, nextCall, asked, answerOf, timedOut>>

FsmNext ==
    \/ InitFsm \/ SendEvent \/ Call \/ CallReturns
    \/ \E t \in TimerId : TimerElapses(t) \/ TimerSends(t)
    \/ TakePostponed \/ TakeTimeout \/ TakeMessage
-----------------------------------------------------------------------------
(***************************************************************************)
(* A timeout belongs to the visit that set it: while a timer task waits,   *)
(* the manager still holds its handle and there was no transition since.   *)
(***************************************************************************)
TimeoutIsOfVisit ==
    \A t \in TimerId : timeouts.task[t].at = "armed" =>
        /\ timeouts.timer[timeouts.task[t].name] = t
        /\ timeouts.task[t].visit = visit

(***************************************************************************)
(* call takes the first message for its answer, whatever its reference; it *)
(* is its own as long as no call has timed out, for a late reply stays.    *)
(***************************************************************************)
AnswerIsOwn == answerOf # Nil => timedOut

(***************************************************************************)
(* A postponed event waits for the next state: gen_fsm/types.rs:36 says    *)
(* "Postpone the current event to be retried in the next state."           *)
(***************************************************************************)
PostponedWaits == ~retriedInVisit
=============================================================================
