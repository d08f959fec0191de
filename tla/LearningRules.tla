---------------------------- MODULE LearningRules ----------------------------
(***************************************************************************)
(* The versions of one learning rule                                       *)
(* (backend/app/persistence/learning_rule_repository.py over PostgreSQL,   *)
(* and save_confirmed_review_rule of                                       *)
(* backend/app/services/learning_rule_service.py).                         *)
(*                                                                         *)
(* A transition is one transaction of at most two statements: an           *)
(* activation first pauses the other active versions, then the version     *)
(* itself is written unless it is archived.  Under READ COMMITTED a        *)
(* statement finds its rows in what is committed when it starts, waits for *)
(* those another transaction has locked, and looks at them once more.  The *)
(* row locks are held to the commit.  Saving a confirmed rule reads the    *)
(* versions, creates a draft and activates it in three transactions.       *)
(***************************************************************************)
EXTENDS Naturals

CONSTANTS
  Actor,       \* concurrent calls
  Nobody,      \* no lock holder
  LastVersion  \* bound: versions

ASSUME RulesAssumption ==
  /\ Nobody \notin Actor
  /\ LastVersion \in Nat

VARIABLES
  status,      \* learning_rules.status of every version, as committed
  rowLock,     \* the transaction that has locked the row
  call,        \* the local state of every call
  rivals       \* ghost: <<v, w>> when activations of v and w have been under way at once

rulesVars == <<status, rowLock, call, rivals>>

Version == 1 .. LastVersion
Target  == {"active", "paused", "archived"}

CallRecord ==
  [pc      : {"idle", "create", "ready", "pausing", "setting"},
   version : 0 .. LastVersion,
   target  : Target,
   todo    : SUBSET Version,    \* rows of the first statement still to be visited
   paused  : SUBSET Version]    \* rows it has written, uncommitted

NoCall == [pc |-> "idle", version |-> 0, target |-> "active", todo |-> {}, paused |-> {}]

RulesTypeOK ==
  /\ status \in [Version -> {"none", "draft"} \cup Target]
  /\ rowLock \in [Version -> Actor \cup {Nobody}]
  /\ call \in [Actor -> CallRecord]
  /\ rivals \subseteq Version \X Version

RulesInit ==
  /\ status = [v \in Version |-> "none"]
  /\ rowLock = [v \in Version |-> Nobody]
  /\ call = [a \in Actor |-> NoCall]
  /\ rivals = {}

Existing == {v \in Version : status[v] # "none"}
Active   == {v \in Version : status[v] = "active"}

\* The version that list_versions and the locking read of create_version end with
Newest(v) == IF Existing = {} THEN v = 0 ELSE v \in Existing /\ \A w \in Existing : w <= v

SetCall(a, new) == call' = [call EXCEPT ![a] = new]

Released(a) == [v \in Version |-> IF rowLock[v] = a THEN Nobody ELSE rowLock[v]]

OlderActive(v) == {w \in Active : w < v}               \* mutant: newer versions taken for drafts

\* The rows of "status = 'active' and version <> %s"
OtherActive(v) == {w \in Active : w # v}

\* The first statement of an activation of v has started
Activation(v) ==
  [NoCall EXCEPT !.pc = "pausing", !.version = v, !.todo = OtherActive(v)]

\* An activation of v by call a begins while those of other calls are under way
Meeting(a, v) ==
  LET others == {call[b].version : b \in {c \in Actor \ {a} : call[c].pc = "pausing"}}
  IN rivals \cup ({v} \X others) \cup (others \X {v})

-----------------------------------------------------------------------------
(* Calls.                                                                  *)

\* activate, pause and archive take the version that the page showed
BeginTransition(a, v, target) ==
  /\ call[a].pc = "idle"
  /\ v \in Existing
  /\ IF target = "active"
     THEN /\ SetCall(a, Activation(v))
          /\ rivals' = Meeting(a, v)
     ELSE /\ SetCall(a, [NoCall EXCEPT !.pc = "setting", !.version = v, !.target = target])
          /\ UNCHANGED rivals
  /\ UNCHANGED <<status, rowLock>>

\* save_confirmed_review_rule: a newest version with the same authority is left as it
\* is when it is active and activated when it is a draft; otherwise a new one follows it
BeginSave(a, v) ==
  /\ call[a].pc = "idle"
  /\ Newest(v)
  /\ \/ SetCall(a, [NoCall EXCEPT !.pc = "create", !.version = v])
     \/ /\ v # 0 /\ status[v] = "draft"
        /\ SetCall(a, [NoCall EXCEPT !.pc = "ready", !.version = v])
  /\ UNCHANGED <<status, rowLock, rivals>>

\* create_version, which waits for the newest row; the API's own call ends here
CreateVersion(a) ==
  /\ call[a].pc = "create"
  /\ \E v \in 0 .. LastVersion :
       /\ Newest(v)
       /\ v # 0 => rowLock[v] = Nobody
       /\ IF v = call[a].version /\ v < LastVersion
          THEN /\ status' = [status EXCEPT ![v + 1] = "draft"]
               /\ SetCall(a, [NoCall EXCEPT !.pc = "ready", !.version = v + 1])
          ELSE SetCall(a, NoCall) /\ UNCHANGED status
  /\ UNCHANGED <<rowLock, rivals>>

StartActivation(a) ==
  /\ call[a].pc = "ready"
  /\ SetCall(a, Activation(call[a].version))
  /\ rivals' = Meeting(a, call[a].version)
  /\ UNCHANGED <<status, rowLock>>

\* The first statement reaches a row: one that is no longer active is passed over
PauseRow(a, w) ==
  /\ call[a].pc = "pausing"
  /\ w \in call[a].todo
  /\ rowLock[w] = Nobody
  /\ IF status[w] = "active"
     THEN /\ rowLock' = [rowLock EXCEPT ![w] = a]
          /\ SetCall(a, [call[a] EXCEPT !.todo = @ \ {w}, !.paused = @ \cup {w}])
     ELSE /\ SetCall(a, [call[a] EXCEPT !.todo = @ \ {w}])
          /\ UNCHANGED rowLock
  /\ UNCHANGED <<status, rivals>>

\* The second statement and the commit
AtSecond(a) ==
  /\ call[a].pc = "setting" \/ (call[a].pc = "pausing" /\ call[a].todo = {})
  /\ rowLock[call[a].version] = Nobody

CommitAlways(a) ==                                     \* mutant: an archived version commits the pauses
  /\ AtSecond(a)
  /\ status' = [v \in Version |->
                  IF v = call[a].version /\ status[v] # "archived" THEN call[a].target
                  ELSE IF v \in call[a].paused THEN "paused" ELSE status[v]]
  /\ rowLock' = Released(a)
  /\ SetCall(a, NoCall)
  /\ UNCHANGED rivals

\* A version archived in the meantime is a conflict, and nothing of the call stays
Commit(a) ==
  /\ AtSecond(a)
  /\ status[call[a].version] # "archived"
  /\ status' = [v \in Version |->
                  IF v = call[a].version THEN call[a].target
                  ELSE IF v \in call[a].paused THEN "paused" ELSE status[v]]
  /\ rowLock' = Released(a)
  /\ SetCall(a, NoCall)
  /\ UNCHANGED rivals

\* That conflict, a deadlock (two versions active, each activated by a call), a lost
\* connection or a dead process: the transaction is rolled back, a draft stays
RollBack(a) ==
  /\ call[a].pc # "idle"
  /\ rowLock' = Released(a)
  /\ SetCall(a, NoCall)
  /\ UNCHANGED <<status, rivals>>

-----------------------------------------------------------------------------
RulesStep(a) ==
  \/ \E v \in Version, target \in Target : BeginTransition(a, v, target)
  \/ \E v \in 0 .. LastVersion : BeginSave(a, v)
  \/ CreateVersion(a) \/ StartActivation(a)
  \/ \E w \in Version : PauseRow(a, w)
  \/ Commit(a) \/ RollBack(a)

RulesNext == \E a \in Actor : RulesStep(a)

RulesSpec == RulesInit /\ [][RulesNext]_rulesVars

-----------------------------------------------------------------------------
(* Properties.                                                             *)

\* Two versions of a rule are active together only when activations of these two were
\* under way at once: nothing else that is created, saved, paused, archived, rolled back
\* or repeated in between leaves a second one.  (learning_rule_repository.py 2 promises
\* one active version; 148-156 pause only what is committed when the statement starts)
OnlyRivalsBothActive ==
  \A v, w \in Active : v = w \/ <<v, w>> \in rivals

\* Automation never falls silent by accident: when the last active version goes, a call
\* that pauses or archives it has committed.  An activation that ends in a conflict has
\* paused nothing (learning_rule_repository.py 146-173)
NeverSilencedByActivation ==
  [][Active # {} /\ Active' = {} =>
       \E a \in Actor : call[a].target # "active" /\ call'[a] = NoCall]_rulesVars
=============================================================================
