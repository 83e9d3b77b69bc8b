---------------------------- MODULE SingleServer ----------------------------
(***************************************************************************)
(* What the task runner promises of the order in which it does jobs: one    *)
(* server takes them one at a time, in the order they were accepted, from a *)
(* bounded number of waiting ones any of which may be withdrawn before its  *)
(* turn.  A job that is over stays over.                                    *)
(***************************************************************************)
EXTENDS Naturals, FiniteSets

CONSTANTS Tasks, QueueMax
VARIABLES waiting, sooner,   \* who waits, and the pairs of them of which one came first
          serving, over

vars == <<waiting, sooner, serving, over>>

Init == waiting = {} /\ sooner = {} /\ serving = {} /\ over = {}

Leaves(t) == /\ waiting' = waiting \ {t}
             /\ sooner' = {p \in sooner : p[1] # t /\ p[2] # t}

Arrive(t) ==
    /\ t \notin waiting \cup serving \cup over /\ Cardinality(waiting) < QueueMax
    /\ waiting' = waiting \cup {t} /\ sooner' = sooner \cup (waiting \X {t})
    /\ UNCHANGED <<serving, over>>

Withdraw(t) ==
    /\ t \in waiting /\ Leaves(t)
    /\ over' = over \cup {t}
    /\ UNCHANGED serving

Serve(t) ==
    /\ serving = {} /\ t \in waiting /\ \A u \in waiting : <<u, t>> \notin sooner
    /\ serving' = {t} /\ Leaves(t)
    /\ UNCHANGED over

Finish(t) ==
    /\ t \in serving
    /\ serving' = {} /\ over' = over \cup {t}
    /\ UNCHANGED <<waiting, sooner>>

Next == \E t \in Tasks : Serve(t) \/ Arrive(t) \/ Withdraw(t) \/ Finish(t)

Spec == Init /\ [][Next]_vars
=============================================================================
