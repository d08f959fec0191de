----------------------------- MODULE FencedTurns -----------------------------
(***************************************************************************)
(* What the processing queue promises for an item of work: it is worked on *)
(* in turns; only the holder of the newest turn delivers an output or ends *)
(* the turn; a resubmission or a takeover ends the older turn for good;    *)
(* and an item is done only with the output of its last turn.              *)
(***************************************************************************)
EXTENDS Naturals

CONSTANT Item

VARIABLES
  stage,    \* "absent", "waiting", "working", "done" or "attention"
  turn,     \* turns taken so far
  holder,   \* the turn that may deliver and end, or 0
  output    \* the turn whose output is kept, or 0

vars == <<stage, turn, holder, output>>

Init ==
  /\ stage = [i \in Item |-> "absent"]
  /\ turn = [i \in Item |-> 0]
  /\ holder = [i \in Item |-> 0]
  /\ output = [i \in Item |-> 0]

Enter(i, to) == stage' = [stage EXCEPT ![i] = to]

Submit(i) ==
  /\ stage[i] = "absent"
  /\ Enter(i, "waiting")
  /\ UNCHANGED <<turn, holder, output>>

Resubmit(i) ==
  /\ stage[i] # "absent"
  /\ Enter(i, "waiting")
  /\ holder' = [holder EXCEPT ![i] = 0]
  /\ UNCHANGED <<turn, output>>

Take(i) ==
  /\ stage[i] \in {"waiting", "working"}
  /\ Enter(i, "working")
  /\ turn' = [turn EXCEPT ![i] = @ + 1]
  /\ holder' = [holder EXCEPT ![i] = turn[i] + 1]
  /\ UNCHANGED output

Deliver(i) ==
  /\ stage[i] = "working"
  /\ output' = [output EXCEPT ![i] = holder[i]]
  /\ UNCHANGED <<stage, turn, holder>>

End(i) ==
  /\ stage[i] = "working"
  /\ \/ Enter(i, "waiting")
     \/ Enter(i, "attention")
     \/ output[i] = holder[i] /\ Enter(i, "done")
  /\ UNCHANGED <<turn, holder, output>>

\* The holder meets an error after it ended its turn
Reopen(i) ==
  /\ stage[i] \in {"waiting", "attention", "done"}
  /\ holder[i] # 0
  /\ Enter(i, "waiting") \/ Enter(i, "attention")
  /\ UNCHANGED <<turn, holder, output>>

Next ==
  \E i \in Item :
    Submit(i) \/ Resubmit(i) \/ Take(i) \/ Deliver(i) \/ End(i) \/ Reopen(i)

Spec == Init /\ [][Next]_vars
=============================================================================
