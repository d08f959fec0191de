--------------------------- MODULE MCOutgoingInvoice ---------------------------
(* Instances of OutgoingInvoice for TLC. *)
EXTENDS OutgoingInvoice, TLC

\* A number for each invoice
OwnNumber == CHOOSE f \in [Invoice -> Number] : \A i, j \in Invoice : f[i] = f[j] => i = j

\* Keys, senders and reconcilers are interchangeable: of each, the first that is used has
\* the first name.  (A symmetry that liveness can be checked under: no fairness obliges a
\* call to start.)
FirstKey        == CHOOSE k \in Key : TRUE
FirstSender     == CHOOSE s \in Sender : TRUE
FirstReconciler == CHOOSE r \in Reconciler : TRUE

InOrder ==
  /\ (\E k \in Key : sendKey[k] # None) => sendKey[FirstKey] # None
  /\ (\E s \in Sender : ~At(s, "idle")) => ~At(FirstSender, "idle")
  /\ (\E r \in Reconciler : ~At(r, "idle")) => ~At(FirstReconciler, "idle")

StartsInOrder == InOrder'
=============================================================================
