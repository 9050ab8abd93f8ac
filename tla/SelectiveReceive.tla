-------------------------- MODULE SelectiveReceive --------------------------
(***************************************************************************)
(* What gen_server::call promises about the mailbox of its caller.  The    *)
(* messages a process has accepted and not yet taken are a bag.  While a   *)
(* call is pending, the only message that leaves the bag is the reply with *)
(* the reference of the call, and it ends the call; a call that gives up   *)
(* takes nothing.  Between calls the process takes one message at a time.  *)
(***************************************************************************)
EXTENDS Naturals, Bags

CONSTANTS Proc

VARIABLES
    pool,       \* the messages each process has accepted and not taken
    pending,    \* the reference of its pending call, 0 without one
    open        \* the processes that have not ended

vars == <<pool, pending, open>>

Init ==
    /\ pool = [p \in Proc |-> EmptyBag]
    /\ pending = [p \in Proc |-> 0]
    /\ open = Proc

Grows(p) == pool[p] \sqsubseteq pool'[p]

\* Messages arrive, at any number of processes.
Arrive ==
    /\ \A p \in Proc : Grows(p)
    /\ UNCHANGED <<pending, open>>

Begin(p) ==
    /\ pending[p] = 0
    /\ pending'[p] # 0
    /\ \A q \in Proc \ {p} : pending'[q] = pending[q]
    /\ \A q \in Proc : Grows(q)
    /\ UNCHANGED open

Answer(p) ==
    \E msg \in BagToSet(pool[p]) :
        /\ msg.kind = "reply"
        /\ msg.ref = pending[p]
        /\ pool' = [pool EXCEPT ![p] = @ (-) SetToBag({msg})]
        /\ pending' = [pending EXCEPT ![p] = 0]
        /\ UNCHANGED open

GiveUp(p) ==
    /\ pending[p] # 0
    /\ pending' = [pending EXCEPT ![p] = 0]
    /\ UNCHANGED <<pool, open>>

\* What is taken may be answered in the same step, also to the process itself
\* (a stop request is).
Take(p) ==
    \E msg \in BagToSet(pool[p]) :
        /\ pending[p] = 0
        /\ pool[p] (-) SetToBag({msg}) \sqsubseteq pool'[p]
        /\ \A q \in Proc \ {p} : Grows(q)
        /\ UNCHANGED <<pending, open>>

End(p) ==
    /\ pending[p] = 0
    /\ open' = open \ {p}
    /\ pool'[p] = EmptyBag
    /\ \A q \in Proc \ {p} : Grows(q)
    /\ UNCHANGED pending

Next ==
    \/ Arrive
    \/ \E p \in Proc : \/ Begin(p)
                       \/ Answer(p)
                       \/ GiveUp(p)
                       \/ Take(p)
                       \/ End(p)

Spec == Init /\ [][Next]_vars
=============================================================================
