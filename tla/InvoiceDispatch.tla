---------------------------- MODULE InvoiceDispatch ----------------------------
(***************************************************************************)
(* What the send protocol of OutgoingInvoice promises for one invoice: it  *)
(* is dispatched at most once, submitted to the provider at most once, and *)
(* from there its outcome is either open, in doubt, or final.              *)
(***************************************************************************)
EXTENDS Naturals

CONSTANT Invoice

VARIABLES
  phase,       \* where the dispatch of each invoice stands
  submitted    \* how many times the provider was asked to take it

ledger == <<phase, submitted>>

Undecided == {"dispatching", "unresolved"}

Init ==
  /\ phase = [i \in Invoice |-> "open"]
  /\ submitted = [i \in Invoice |-> 0]

Move(i, to) ==
  /\ phase' = [phase EXCEPT ![i] = to]
  /\ UNCHANGED submitted

Begin(i) == phase[i] = "open" /\ Move(i, "dispatching")

Submit(i) ==
  /\ phase[i] \in Undecided
  /\ submitted[i] = 0
  /\ submitted' = [submitted EXCEPT ![i] = 1]
  /\ UNCHANGED phase

Doubt(i) == phase[i] = "dispatching" /\ Move(i, "unresolved")

Confirm(i) == phase[i] \in Undecided /\ submitted[i] = 1 /\ Move(i, "sent")

Fail(i) == phase[i] \in Undecided /\ Move(i, "failed")

Next ==
  \E i \in Invoice : Begin(i) \/ Submit(i) \/ Doubt(i) \/ Confirm(i) \/ Fail(i)

Spec == Init /\ [][Next]_ledger
=============================================================================
