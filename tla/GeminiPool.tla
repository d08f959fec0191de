----------------------------- MODULE GeminiPool -----------------------------
(***************************************************************************)
(* The pool of Gemini projects that one process shares between its threads *)
(* (backend/app/domain/gemini_project_pool.py).                            *)
(*                                                                         *)
(* A call leases the idlest slot that does not cool down, calls the        *)
(* provider without the lock, cools the slot when the answer says so and   *)
(* gives it back; a structured call then goes over to another slot.  Each  *)
(* of these is a critical section of its own.                              *)
(*                                                                         *)
(* The fields that report the last call are left out.                      *)
(***************************************************************************)
EXTENDS Naturals, FiniteSets

CONSTANTS
  Thread,
  SlotCount,     \* configured projects
  Cooldown,      \* cooldown_seconds
  LastTime,      \* bound: the clock
  MaxDispatches  \* bound: calls

ASSUME PoolAssumption ==
  /\ IsFiniteSet(Thread)
  /\ {SlotCount, Cooldown} \subseteq Nat \ {0}
  /\ {LastTime, MaxDispatches} \subseteq Nat

VARIABLES
  clock,
  cooling,        \* _cooling_until
  inFlight,       \* _in_flight
  lastSelection,  \* _last_selection
  selections,     \* _selection_sequence
  dispatch,       \* the local state of the call of every thread
  dispatches      \* calls so far

poolVars == <<clock, cooling, inFlight, lastSelection, selections, dispatch, dispatches>>

Slot == 1 .. SlotCount

Forever == LastTime + Cooldown + 1     \* float("inf"): after every other time

\* 401 and 403; 429; 408 and 5xx; no status, or an answer that could not be read;
\* any other error
ProviderError == {"auth", "limited", "busy", "transport", "other"}

DispatchRecord ==
  [pc       : {"idle", "lease", "provider", "leave"},
   kind     : {"single", "structured"},   \* _call or _call_kwargs
   slot     : 0 .. SlotCount,
   attempts : 0 .. SlotCount,
   tried    : SUBSET Slot,                \* attempted_slots
   again    : BOOLEAN,                    \* goes on with another slot
   alone    : BOOLEAN]                    \* ghost: no other call has been under way

NoDispatch ==
  [pc |-> "idle", kind |-> "single", slot |-> 0, attempts |-> 0, tried |-> {},
   again |-> FALSE, alone |-> FALSE]

PoolTypeOK ==
  /\ clock \in 0 .. LastTime
  /\ cooling \in [Slot -> 0 .. Forever]
  /\ inFlight \in [Slot -> Nat]
  /\ lastSelection \in [Slot -> 0 .. selections]
  /\ selections \in Nat
  /\ dispatch \in [Thread -> DispatchRecord]
  /\ dispatches \in 0 .. MaxDispatches

PoolInit ==
  /\ clock = 0
  /\ cooling = [s \in Slot |-> 0]
  /\ inFlight = [s \in Slot |-> 0]
  /\ lastSelection = [s \in Slot |-> 0]
  /\ selections = 0
  /\ dispatch = [t \in Thread |-> NoDispatch]
  /\ dispatches = 0

TimePasses ==
  /\ clock < LastTime
  /\ clock' = clock + 1
  /\ UNCHANGED <<cooling, inFlight, lastSelection, selections, dispatch, dispatches>>

Begin(t, kind) ==
  /\ dispatch[t].pc = "idle"
  /\ dispatches < MaxDispatches
  /\ dispatches' = dispatches + 1
  /\ dispatch' =
       [u \in Thread |->
          IF u = t
          THEN [NoDispatch EXCEPT !.pc = "lease", !.kind = kind,
                                  !.alone = \A v \in Thread : dispatch[v].pc = "idle"]
          ELSE [dispatch[u] EXCEPT !.alone = FALSE]]
  /\ UNCHANGED <<clock, cooling, inFlight, lastSelection, selections>>

-----------------------------------------------------------------------------
(* _lease_slot.                                                            *)

Ready == {s \in Slot : cooling[s] <= clock}

\* When all cool down, those that come out of it first
Available ==
  IF Ready # {} THEN Ready
  ELSE {s \in Slot : \A u \in Slot : cooling[s] <= cooling[u]}

\* The order of the selection: fewest calls in flight, selected longest ago, listed first
Precedes(s, u) ==
  \/ inFlight[s] < inFlight[u]
  \/ /\ inFlight[s] = inFlight[u]
     /\ \/ lastSelection[s] < lastSelection[u]
        \/ lastSelection[s] = lastSelection[u] /\ s < u

Selected == CHOOSE s \in Available : \A u \in Available \ {s} : Precedes(s, u)

Leased(t) ==
  [dispatch EXCEPT ![t].pc = "provider", ![t].slot = Selected,
                   ![t].attempts = @ + 1, ![t].tried = @ \cup {Selected}]

LeaseUnrecorded(t) ==                                 \* mutant: _last_selection not set
  /\ dispatch[t].pc = "lease"
  /\ inFlight' = [inFlight EXCEPT ![Selected] = @ + 1]
  /\ selections' = selections + 1
  /\ dispatch' = Leased(t)
  /\ UNCHANGED <<clock, cooling, lastSelection, dispatches>>

Lease(t) ==
  /\ dispatch[t].pc = "lease"
  /\ inFlight' = [inFlight EXCEPT ![Selected] = @ + 1]
  /\ selections' = selections + 1
  /\ lastSelection' = [lastSelection EXCEPT ![Selected] = selections + 1]
  /\ dispatch' = Leased(t)
  /\ UNCHANGED <<clock, cooling, dispatches>>

-----------------------------------------------------------------------------
Succeed(t) ==
  /\ dispatch[t].pc = "provider"
  /\ dispatch' = [dispatch EXCEPT ![t].pc = "leave", ![t].again = FALSE]
  /\ UNCHANGED <<clock, cooling, inFlight, lastSelection, selections, dispatches>>

\* A single call cools its slot for a 429 only
CoolingAfter(kind, error, until) ==
  CASE error = "limited" \/ (error = "busy" /\ kind = "structured") -> clock + Cooldown
    [] error = "auth" /\ kind = "structured" -> Forever
    [] OTHER -> until

\* A structured call goes on after any error but the other ones, as often as there are slots
Fail(t, error) ==
  /\ dispatch[t].pc = "provider"
  /\ cooling' = [cooling EXCEPT ![dispatch[t].slot] = CoolingAfter(dispatch[t].kind, error, @)]
  /\ dispatch' = [dispatch EXCEPT
                    ![t].pc = "leave",
                    ![t].again = /\ dispatch[t].kind = "structured"
                                 /\ error # "other"
                                 /\ dispatch[t].attempts < SlotCount]
  /\ UNCHANGED <<clock, inFlight, lastSelection, selections, dispatches>>

LeaveAtEnd(t) ==                                      \* mutant: continue skips the release
  /\ dispatch[t].pc = "leave"
  /\ inFlight' = IF dispatch[t].again THEN inFlight ELSE [inFlight EXCEPT ![dispatch[t].slot] = @ - 1]
  /\ dispatch' = [dispatch EXCEPT ![t] = IF @.again THEN [@ EXCEPT !.pc = "lease"] ELSE NoDispatch]
  /\ UNCHANGED <<clock, cooling, lastSelection, selections, dispatches>>

\* finally
Leave(t) ==
  /\ dispatch[t].pc = "leave"
  /\ inFlight' = [inFlight EXCEPT ![dispatch[t].slot] = @ - 1]
  /\ dispatch' = [dispatch EXCEPT ![t] = IF @.again THEN [@ EXCEPT !.pc = "lease"] ELSE NoDispatch]
  /\ UNCHANGED <<clock, cooling, lastSelection, selections, dispatches>>

PoolStep(t) ==
  \/ \E kind \in {"single", "structured"} : Begin(t, kind)
  \/ Lease(t) \/ Succeed(t) \/ Leave(t)
  \/ \E error \in ProviderError : Fail(t, error)

PoolNext == TimePasses \/ \E t \in Thread : PoolStep(t)

PoolSpec == PoolInit /\ [][PoolNext]_poolVars

-----------------------------------------------------------------------------
(* Properties.                                                             *)

AtProvider(s) == {t \in Thread : dispatch[t].pc \in {"provider", "leave"} /\ dispatch[t].slot = s}

\* The load that steers the selection is the number of calls at the provider of the slot:
\* each gives back the slot it took, once, whatever the answer was and however often it
\* went over to another slot before (_call, _call_kwargs and _lease_slot, 184-289)
CallsAreCounted == \A s \in Slot : inFlight[s] = Cardinality(AtProvider(s))

\* A structured call that has the pool to itself comes back to a slot it has tried only
\* while every slot it has not tried cools down, whatever earlier calls, that may have
\* overlapped, left behind: so it gives up on no project that could have answered
\* (_call_kwargs and _lease_slot, 201-242 and 262-291)
FailsOverToUntried ==
  [][\A t \in Thread :
       (/\ dispatch[t].alone
        /\ dispatch[t].pc = "lease"
        /\ dispatch'[t].pc = "provider"
        /\ dispatch'[t].slot \in dispatch[t].tried)
       => dispatch[t].tried \cup {s \in Slot : cooling[s] > clock} = Slot]_poolVars
=============================================================================
