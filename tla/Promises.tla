------------------------------ MODULE Promises ------------------------------
(***************************************************************************)
(* What a deferred object promises those who attach callbacks to it: it    *)
(* takes one outcome, once; the callbacks for this outcome are told of it, *)
(* each once, in the order in which they were attached, whether they came  *)
(* before the outcome or after it; the others are never told.              *)
(***************************************************************************)
EXTENDS Naturals, Sequences

CONSTANTS Promise,    \* the objects
          Outcomes,   \* what may become of them
          Listeners,  \* the callbacks
          Pending     \* no outcome yet

VARIABLES outcome,    \* of each object
          asked,      \* the callbacks attached to it, by outcome
          told        \* the callbacks it has told

promises == <<outcome, asked, told>>

PromiseInit == /\ outcome = [p \in Promise |-> Pending]
               /\ asked = [p \in Promise |-> [o \in Outcomes |-> << >>]]
               /\ told = [p \in Promise |-> << >>]

Settle(p, o) == /\ outcome[p] = Pending
                /\ outcome' = [outcome EXCEPT ![p] = o]
                /\ UNCHANGED <<asked, told>>

Ask(p, o, f) == /\ asked' = [asked EXCEPT ![p][o] = Append(@, f)]
                /\ UNCHANGED <<outcome, told>>

Tell(p) == LET all == asked[p][outcome[p]] IN
           /\ outcome[p] \in Outcomes
           /\ Len(told[p]) < Len(all)
           /\ told' = [told EXCEPT ![p] = Append(@, all[Len(@) + 1])]
           /\ UNCHANGED <<outcome, asked>>

PromiseNext == \E p \in Promise : \/ Tell(p)
                                  \/ \E o \in Outcomes : \/ Settle(p, o)
                                                         \/ \E f \in Listeners : Ask(p, o, f)

PromiseSpec == PromiseInit /\ [][PromiseNext]_promises
=============================================================================
