------------------------- MODULE LearningRules_proofs -------------------------
(***************************************************************************)
(* Proofs about LearningRules for any set of calls and any number of       *)
(* versions.                                                               *)
(***************************************************************************)
EXTENDS LearningRules, TLAPS

Pausing(a) == call[a].pc = "pausing"

\* An activation has w in its first statement, is of w, or has met an activation of w.
Known(c, w) == w \in {c.version} \cup c.todo \cup c.paused \/ <<c.version, w>> \in rivals

\* What a call is about, at the points where it writes.
CallInv ==
  \A a \in Actor :
    /\ call[a].pc \in {"ready", "pausing", "setting"} => call[a].version \in Version
    /\ Pausing(a) => call[a].target = "active"
    /\ call[a].pc = "setting" => call[a].target # "active"

\* An activation knows every active version, by its first statement or as a rival: who
\* activates one after that statement has started is a rival, now and for good.
SeenInv ==
  /\ \A v, w \in Version : <<v, w>> \in rivals => <<w, v>> \in rivals
  /\ \A a, b \in Actor :
       Pausing(a) /\ Pausing(b) /\ a # b => <<call[a].version, call[b].version>> \in rivals
  /\ \A a \in Actor : Pausing(a) =>
       \A w \in Active : Known(call[a], w)

RInv == RulesTypeOK /\ CallInv /\ SeenInv /\ OnlyRivalsBothActive

-----------------------------------------------------------------------------
LEMMA NoCallTyped == NoCall \in CallRecord /\ NoCall.pc = "idle"
<1>1. 0 \in 0 .. LastVersion
  BY RulesAssumption
<1> QED
  BY <1>1 DEF NoCall, CallRecord, Target

LEMMA InitSafe == RulesInit => RInv
<1> SUFFICES ASSUME RulesInit PROVE RInv
  OBVIOUS
<1>1. RulesTypeOK
  BY NoCallTyped DEF RulesInit, RulesTypeOK
<1>2. CallInv /\ SeenInv /\ OnlyRivalsBothActive
  BY DEF RulesInit, CallInv, SeenInv, OnlyRivalsBothActive, Pausing, Active, NoCall
<1> QED
  BY <1>1, <1>2 DEF RInv

\* A call that moves without writing a version: if it is in an activation, it has met
\* the others and knows the active versions.
LEMMA CallMoves ==
  ASSUME RInv, NEW a \in Actor, NEW to \in CallRecord, SetCall(a, to),
         rowLock' \in [Version -> Actor \cup {Nobody}], UNCHANGED status,
         rivals' \subseteq Version \X Version, rivals \subseteq rivals',
         \A v, w \in Version : <<v, w>> \in rivals' => <<w, v>> \in rivals',
         to.pc \in {"ready", "pausing", "setting"} => to.version \in Version,
         to.pc = "pausing" => to.target = "active",
         to.pc = "setting" => to.target # "active",
         to.pc = "pausing" => \A b \in Actor \ {a} :
           Pausing(b) => <<to.version, call[b].version>> \in rivals',
         to.pc = "pausing" => \A w \in Active :
           w \in {to.version} \cup to.todo \cup to.paused \/ <<to.version, w>> \in rivals'
  PROVE  RInv'
<1>1. call' = [call EXCEPT ![a] = to] /\ call'[a] = to /\ (\A b \in Actor \ {a} : call'[b] = call[b])
  BY DEF RInv, RulesTypeOK, SetCall
<1>2. RulesTypeOK'
  BY <1>1 DEF RInv, RulesTypeOK
<1>3. CallInv'
  BY <1>1 DEF RInv, CallInv, Pausing
<1>4. Active' = Active
  BY DEF Active
<1>5. ASSUME NEW b \in Actor, NEW c \in Actor, Pausing(b)', Pausing(c)', b # c
      PROVE  <<call'[b].version, call'[c].version>> \in rivals'
  <2>1. call'[b].version \in Version /\ call'[c].version \in Version
    BY <1>3, <1>5 DEF CallInv, Pausing
  <2>2. CASE b # a /\ c # a
    BY <1>1, <1>5, <2>2 DEF RInv, SeenInv, Pausing
  <2>3. CASE b = a
    BY <1>1, <1>5, <2>3 DEF Pausing
  <2>4. CASE c = a
    BY <1>1, <1>5, <2>1, <2>4 DEF Pausing
  <2> QED
    BY <2>2, <2>3, <2>4
<1>6. ASSUME NEW b \in Actor, Pausing(b)', NEW w \in Active
      PROVE  Known(call[b], w)'
  <2>1. CASE b = a
    BY <1>1, <1>6, <2>1 DEF Pausing, Known
  <2>2. CASE b # a
    BY <1>1, <1>6, <2>2 DEF RInv, SeenInv, Pausing, Known
  <2> QED
    BY <2>1, <2>2
<1>7. SeenInv'
  BY <1>4, <1>5, <1>6 DEF SeenInv
<1>8. OnlyRivalsBothActive'
  BY <1>4 DEF RInv, OnlyRivalsBothActive
<1> QED
  BY <1>2, <1>3, <1>7, <1>8 DEF RInv

\* The same where no activation begins.
LEMMA CallGoesOn ==
  ASSUME RInv, NEW a \in Actor, NEW to \in CallRecord, SetCall(a, to),
         rowLock' \in [Version -> Actor \cup {Nobody}], UNCHANGED <<status, rivals>>,
         to.pc \in {"ready", "pausing", "setting"} => to.version \in Version,
         to.pc = "pausing" => to.target = "active",
         to.pc = "setting" => to.target # "active",
         to.pc = "pausing" => Pausing(a) /\ to.version = call[a].version,
         to.pc = "pausing" => \A w \in Active : Known(to, w)
  PROVE  RInv'
<1>1. /\ rivals' \subseteq Version \X Version /\ rivals \subseteq rivals'
      /\ \A v, w \in Version : <<v, w>> \in rivals' => <<w, v>> \in rivals'
  BY DEF RInv, RulesTypeOK, SeenInv
<1>2. to.pc = "pausing" => \A b \in Actor \ {a} :
        Pausing(b) => <<to.version, call[b].version>> \in rivals'
  BY DEF RInv, SeenInv
<1>3. to.pc = "pausing" => \A w \in Active :
        w \in {to.version} \cup to.todo \cup to.paused \/ <<to.version, w>> \in rivals'
  BY DEF Known
<1> QED
  BY <1>1, <1>2, <1>3, CallMoves

LEMMA ReleasedTyped ==
  ASSUME RulesTypeOK, NEW a \in Actor
  PROVE  Released(a) \in [Version -> Actor \cup {Nobody}]
BY DEF RulesTypeOK, Released

LEMMA ActivationTyped ==
  ASSUME RulesTypeOK, NEW v \in Version
  PROVE  /\ Activation(v) \in CallRecord
         /\ Activation(v).pc = "pausing" /\ Activation(v).target = "active"
         /\ Activation(v).version = v
         /\ Active \subseteq {v} \cup Activation(v).todo
<1>1. v \in 0 .. LastVersion /\ OtherActive(v) \subseteq Version
  BY RulesAssumption DEF Version, OtherActive, Active
<1>2. Active \subseteq {v} \cup OtherActive(v)
  BY DEF OtherActive
<1> QED
  BY <1>1, <1>2 DEF Activation, NoCall, CallRecord, Target

LEMMA Met ==
  ASSUME RInv, NEW a \in Actor, NEW v \in Version, rivals' = Meeting(a, v)
  PROVE  /\ rivals' \subseteq Version \X Version /\ rivals \subseteq rivals'
         /\ \A u, w \in Version : <<u, w>> \in rivals' => <<w, u>> \in rivals'
         /\ \A b \in Actor \ {a} : Pausing(b) => <<v, call[b].version>> \in rivals'
<1> DEFINE others == {call[b].version : b \in {c \in Actor \ {a} : call[c].pc = "pausing"}}
<1>1. others \subseteq Version
  BY DEF RInv, CallInv
<1>2. rivals' = rivals \cup ({v} \X others) \cup (others \X {v})
  BY DEF Meeting
<1>3. \A b \in Actor \ {a} : Pausing(b) => call[b].version \in others
  BY DEF Pausing
<1> HIDE DEF others
<1> QED
  BY <1>1, <1>2, <1>3 DEF RInv, RulesTypeOK, SeenInv

LEMMA ActivationSafe ==
  ASSUME RInv, NEW a \in Actor, NEW v \in Version, SetCall(a, Activation(v)),
         rivals' = Meeting(a, v), UNCHANGED <<status, rowLock>>
  PROVE  RInv'
<1>1. RulesTypeOK
  BY DEF RInv
<1>2. /\ rivals' \subseteq Version \X Version /\ rivals \subseteq rivals'
      /\ \A u, w \in Version : <<u, w>> \in rivals' => <<w, u>> \in rivals'
      /\ \A b \in Actor \ {a} : Pausing(b) => <<v, call[b].version>> \in rivals'
  BY Met
<1>3. /\ Activation(v) \in CallRecord
      /\ Activation(v).pc = "pausing" /\ Activation(v).target = "active"
      /\ Activation(v).version = v
      /\ Active \subseteq {v} \cup Activation(v).todo
  BY <1>1, ActivationTyped
<1>4. rowLock' \in [Version -> Actor \cup {Nobody}]
  BY <1>1 DEF RulesTypeOK
<1> QED
  BY <1>2, <1>3, <1>4, CallMoves

LEMMA BeginTransitionSafe ==
  ASSUME RInv, NEW a \in Actor, NEW v \in Version, NEW target \in Target, BeginTransition(a, v, target)
  PROVE  RInv'
<1> USE DEF BeginTransition
<1>1. CASE target = "active"
  <2>1. SetCall(a, Activation(v)) /\ rivals' = Meeting(a, v) /\ UNCHANGED <<status, rowLock>>
    BY <1>1
  <2> QED
    BY <2>1, ActivationSafe
<1>2. CASE target # "active"
  <2> DEFINE to == [NoCall EXCEPT !.pc = "setting", !.version = v, !.target = target]
  <2>1. to \in CallRecord /\ to.pc = "setting" /\ to.version = v /\ to.target = target
    <3>1. v \in 0 .. LastVersion
      BY RulesAssumption DEF Version
    <3> QED
      BY <3>1 DEF NoCall, CallRecord
  <2>2. SetCall(a, to) /\ UNCHANGED <<status, rowLock, rivals>>
    BY <1>2
  <2> QED
    BY <1>2, <2>1, <2>2, CallGoesOn DEF RInv, RulesTypeOK
<1> QED
  BY <1>1, <1>2

LEMMA BeginSaveSafe ==
  ASSUME RInv, NEW a \in Actor, NEW v \in 0 .. LastVersion, BeginSave(a, v)
  PROVE  RInv'
<1> DEFINE make == [NoCall EXCEPT !.pc = "create", !.version = v]
           take == [NoCall EXCEPT !.pc = "ready", !.version = v]
<1>1. /\ make \in CallRecord /\ make.pc = "create"
      /\ take \in CallRecord /\ take.pc = "ready" /\ take.version = v
  BY DEF NoCall, CallRecord, Target
<1>2. UNCHANGED <<status, rowLock, rivals>>
  BY DEF BeginSave
<1>3. CASE SetCall(a, make)
  BY <1>1, <1>2, <1>3, CallGoesOn DEF RInv, RulesTypeOK
<1>4. CASE v # 0 /\ SetCall(a, take)
  <2>1. v \in Version
    BY <1>4, RulesAssumption DEF Version
  <2> QED
    BY <1>1, <1>2, <1>4, <2>1, CallGoesOn DEF RInv, RulesTypeOK
<1> QED
  BY <1>3, <1>4 DEF BeginSave

\* A step after which no version is active that was not, and which starts no activation.
LEMMA Quieter ==
  ASSUME RInv, NEW a \in Actor, NEW to \in CallRecord, SetCall(a, to),
         status' \in [Version -> {"none", "draft"} \cup Target],
         rowLock' \in [Version -> Actor \cup {Nobody}], UNCHANGED rivals,
         to.pc # "pausing" /\ to.pc # "setting",
         to.pc = "ready" => to.version \in Version,
         Active' \subseteq Active
  PROVE  RInv'
<1>1. call' = [call EXCEPT ![a] = to] /\ call'[a] = to /\ (\A b \in Actor \ {a} : call'[b] = call[b])
  BY DEF RInv, RulesTypeOK, SetCall
<1>2. RulesTypeOK'
  BY <1>1 DEF RInv, RulesTypeOK
<1>3. CallInv'
  BY <1>1 DEF RInv, CallInv, Pausing
<1>4. SeenInv'
  <2>1. ASSUME NEW b \in Actor, Pausing(b)'
        PROVE  Pausing(b) /\ call'[b] = call[b]
    BY <1>1, <2>1 DEF Pausing
  <2>2. ASSUME NEW b \in Actor, Pausing(b)', NEW w \in Active'
        PROVE  Known(call[b], w)'
    <3>1. Pausing(b) /\ call'[b] = call[b] /\ w \in Active
      BY <2>1, <2>2
    <3> QED
      BY <3>1 DEF RInv, SeenInv, Known
  <2> QED
    BY <2>1, <2>2 DEF RInv, SeenInv
<1>5. OnlyRivalsBothActive'
  BY DEF RInv, OnlyRivalsBothActive
<1> QED
  BY <1>2, <1>3, <1>4, <1>5 DEF RInv

LEMMA CreateVersionWrites ==
  ASSUME RInv, NEW a \in Actor, CreateVersion(a)
  PROVE  RInv' /\ Active' = Active
<1>1. PICK v \in 0 .. LastVersion :
        /\ Newest(v)
        /\ IF v = call[a].version /\ v < LastVersion
           THEN /\ status' = [status EXCEPT ![v + 1] = "draft"]
                /\ SetCall(a, [NoCall EXCEPT !.pc = "ready", !.version = v + 1])
           ELSE SetCall(a, NoCall) /\ UNCHANGED status
  BY DEF CreateVersion
<1>2. UNCHANGED <<rowLock, rivals>>
  BY DEF CreateVersion
<1>3. CASE v = call[a].version /\ v < LastVersion
  <2> DEFINE to == [NoCall EXCEPT !.pc = "ready", !.version = v + 1]
  <2>1. v + 1 \in Version
    BY <1>3, RulesAssumption DEF Version
  <2>2. to \in CallRecord /\ to.pc = "ready" /\ to.version = v + 1
    <3>1. v + 1 \in 0 .. LastVersion
      BY <2>1, RulesAssumption DEF Version
    <3> QED
      BY <3>1 DEF NoCall, CallRecord, Target
  <2>3. status' = [status EXCEPT ![v + 1] = "draft"] /\ SetCall(a, to)
    BY <1>1, <1>3
  <2>4. v + 1 \notin Existing
    BY <1>1, <2>1, RulesAssumption DEF Newest, Existing, Version
  <2>5. status' \in [Version -> {"none", "draft"} \cup Target]
    BY <2>3 DEF RInv, RulesTypeOK
  <2>6. status[v + 1] = "none"
    BY <2>1, <2>4 DEF Existing
  <2>7. Active' = Active
    BY <2>1, <2>3, <2>6 DEF Active, RInv, RulesTypeOK
  <2> QED
    BY <1>2, <2>1, <2>2, <2>3, <2>5, <2>7, Quieter DEF RInv, RulesTypeOK
<1>4. CASE ~(v = call[a].version /\ v < LastVersion)
  <2>1. SetCall(a, NoCall) /\ UNCHANGED status /\ Active' = Active
    BY <1>1, <1>4 DEF Active
  <2> QED
    BY <1>2, <2>1, NoCallTyped, Quieter DEF RInv, RulesTypeOK
<1> QED
  BY <1>3, <1>4

LEMMA StartActivationSafe ==
  ASSUME RInv, NEW a \in Actor, StartActivation(a)
  PROVE  RInv'
<1>1. call[a].version \in Version
  BY DEF StartActivation, RInv, CallInv
<1> QED
  BY <1>1, ActivationSafe DEF StartActivation

LEMMA PauseRowSafe ==
  ASSUME RInv, NEW a \in Actor, NEW w \in Version, PauseRow(a, w)
  PROVE  RInv'
<1> DEFINE skip == [call[a] EXCEPT !.todo = @ \ {w}]
           take == [call[a] EXCEPT !.todo = @ \ {w}, !.paused = @ \cup {w}]
<1>1. call[a] \in CallRecord /\ call[a].pc = "pausing" /\ call[a].target = "active"
      /\ call[a].version \in Version
  BY DEF PauseRow, RInv, RulesTypeOK, CallInv, Pausing
<1>2. /\ skip \in CallRecord /\ take \in CallRecord
      /\ \A c \in {skip, take} : c.pc = "pausing" /\ c.target = "active" /\ c.version = call[a].version
      /\ skip.todo = call[a].todo \ {w} /\ skip.paused = call[a].paused
      /\ take.todo = call[a].todo \ {w} /\ take.paused = call[a].paused \cup {w}
  BY <1>1 DEF CallRecord
<1>3. UNCHANGED <<status, rivals>>
  BY DEF PauseRow
<1>4. Pausing(a) /\ \A v \in Active : Known(call[a], v)
  BY <1>1 DEF RInv, SeenInv, Pausing
<1>5. CASE status[w] = "active"
  <2>1. SetCall(a, take) /\ rowLock' = [rowLock EXCEPT ![w] = a]
    BY <1>5 DEF PauseRow
  <2>2. \A v \in Active : Known(take, v)
    BY <1>2, <1>4 DEF Known
  <2> HIDE DEF take
  <2> QED
    BY <1>1, <1>2, <1>3, <1>4, <2>1, <2>2, CallGoesOn DEF RInv, RulesTypeOK
<1>6. CASE status[w] # "active"
  <2>1. SetCall(a, skip) /\ UNCHANGED rowLock
    BY <1>6 DEF PauseRow
  <2>2. \A v \in Active : Known(skip, v)
    BY <1>2, <1>4, <1>6 DEF Active, Known
  <2> HIDE DEF skip
  <2> QED
    BY <1>1, <1>2, <1>3, <1>4, <2>1, <2>2, CallGoesOn DEF RInv, RulesTypeOK
<1> QED
  BY <1>5, <1>6

\* What a commit leaves active: nothing that was not, or else the version activated, and
\* of the others only its rivals.
LEMMA Committed ==
  ASSUME RInv, NEW a \in Actor, Commit(a)
  PROVE  /\ status' \in [Version -> {"none", "draft"} \cup Target]
         /\ call[a].target = "active" => Active' # {}
         /\ call[a].target # "active" => Active' \subseteq Active
         /\ call[a].target = "active" => Pausing(a)
         /\ call[a].target = "active" =>
              \A w \in Active' : w = call[a].version \/ (w \in Active /\ <<call[a].version, w>> \in rivals)
<1>1. /\ call[a] \in CallRecord
      /\ call[a].pc \in {"pausing", "setting"}
      /\ call[a].version \in Version
  BY DEF Commit, AtSecond, RInv, RulesTypeOK, CallInv
<1>2. status' = [v \in Version |->
                   IF v = call[a].version THEN call[a].target
                   ELSE IF v \in call[a].paused THEN "paused" ELSE status[v]]
  BY DEF Commit
<1>3. status' \in [Version -> {"none", "draft"} \cup Target]
  BY <1>1, <1>2 DEF CallRecord, Target, RInv, RulesTypeOK
<1>4. call[a].target = "active" => Active' # {}
  BY <1>1, <1>2 DEF Active
<1>5. call[a].target # "active" => Active' \subseteq Active
  BY <1>1, <1>2 DEF Active
<1>6. call[a].target = "active" => Pausing(a)
  BY <1>1 DEF RInv, CallInv, Pausing
<1>7. ASSUME call[a].target = "active", NEW w \in Active', w # call[a].version
      PROVE  w \in Active /\ <<call[a].version, w>> \in rivals
  <2>1. call[a].todo = {}
    BY <1>6, <1>7 DEF Commit, AtSecond, Pausing
  <2>2. w \in Active /\ w \notin call[a].paused
    BY <1>2, <1>7 DEF Active
  <2> QED
    BY <1>6, <1>7, <2>1, <2>2 DEF RInv, SeenInv, Known
<1> QED
  BY <1>3, <1>4, <1>5, <1>6, <1>7

LEMMA CommitSafe ==
  ASSUME RInv, NEW a \in Actor, Commit(a)
  PROVE  RInv'
<1>1. SetCall(a, NoCall) /\ UNCHANGED rivals /\ rowLock' = Released(a)
  BY DEF Commit
<1>2. CASE call[a].target # "active"
  BY <1>1, <1>2, Committed, NoCallTyped, ReleasedTyped, Quieter DEF RInv
<1>3. CASE call[a].target = "active"
  <2>1. call' = [call EXCEPT ![a] = NoCall] /\ call'[a] = NoCall
        /\ (\A b \in Actor \ {a} : call'[b] = call[b])
    BY <1>1 DEF RInv, RulesTypeOK, SetCall
  <2>2. RulesTypeOK'
    BY <1>1, <2>1, Committed, NoCallTyped, ReleasedTyped DEF RInv, RulesTypeOK
  <2>3. CallInv'
    BY <2>1, NoCallTyped DEF RInv, CallInv, Pausing
  <2>4. /\ Pausing(a) /\ rivals' = rivals
        /\ \A w \in Active' :
             w = call[a].version \/ (w \in Active /\ <<call[a].version, w>> \in rivals)
    BY <1>1, <1>3, Committed
  <2>5. call[a].version \in Version /\ Active' \subseteq Version
    BY <2>4 DEF RInv, CallInv, Pausing, Active
  <2>6. ASSUME NEW b \in Actor, Pausing(b)'
        PROVE  b # a /\ Pausing(b) /\ call'[b] = call[b]
    BY <2>1, <2>6, NoCallTyped DEF Pausing
  <2>7. ASSUME NEW b \in Actor, Pausing(b)', NEW w \in Active'
        PROVE  Known(call[b], w)'
    <3>1. b # a /\ Pausing(b) /\ call'[b] = call[b]
      BY <2>6, <2>7
    <3>2. CASE w = call[a].version
      BY <2>4, <3>1, <3>2 DEF RInv, SeenInv, Known
    <3>3. CASE w \in Active
      BY <2>4, <3>1, <3>3 DEF RInv, SeenInv, Known
    <3> QED
      BY <2>4, <2>7, <3>2, <3>3
  <2>8. SeenInv'
    BY <2>4, <2>6, <2>7 DEF RInv, SeenInv
  <2>9. OnlyRivalsBothActive'
    BY <2>4, <2>5 DEF RInv, SeenInv, OnlyRivalsBothActive
  <2> QED
    BY <2>2, <2>3, <2>8, <2>9 DEF RInv
<1> QED
  BY <1>2, <1>3

LEMMA RollBackSafe ==
  ASSUME RInv, NEW a \in Actor, RollBack(a)
  PROVE  RInv'
<1>1. Active' = Active
  BY DEF RollBack, Active
<1> QED
  BY <1>1, NoCallTyped, ReleasedTyped, Quieter DEF RollBack, RInv, RulesTypeOK

-----------------------------------------------------------------------------
LEMMA StutterSafe ==
  ASSUME RInv, UNCHANGED rulesVars
  PROVE  RInv'
BY DEF RInv, rulesVars, RulesTypeOK, CallInv, SeenInv, OnlyRivalsBothActive, Pausing, Known, Active

LEMMA NextSafe ==
  ASSUME RInv, [RulesNext]_rulesVars
  PROVE  RInv'
<1>1. CASE UNCHANGED rulesVars
  BY <1>1, StutterSafe
<1>2. ASSUME NEW a \in Actor, RulesStep(a) PROVE RInv'
  <2>1. CASE \E v \in Version, target \in Target : BeginTransition(a, v, target)
    BY <2>1, BeginTransitionSafe
  <2>2. CASE \E v \in 0 .. LastVersion : BeginSave(a, v)
    BY <2>2, BeginSaveSafe
  <2>3. CASE CreateVersion(a)
    BY <2>3, CreateVersionWrites
  <2>4. CASE StartActivation(a)
    BY <2>4, StartActivationSafe
  <2>5. CASE \E w \in Version : PauseRow(a, w)
    BY <2>5, PauseRowSafe
  <2>6. CASE Commit(a)
    BY <2>6, CommitSafe
  <2>7. CASE RollBack(a)
    BY <2>7, RollBackSafe
  <2> QED
    BY <1>2, <2>1, <2>2, <2>3, <2>4, <2>5, <2>6, <2>7 DEF RulesStep
<1> QED
  BY <1>1, <1>2 DEF RulesNext

\* The invariant that the theorems below rest on.
THEOREM RulesInvariant == RulesSpec => []RInv
<1>1. RInv /\ [RulesNext]_rulesVars => RInv'
  BY NextSafe
<1> QED
  BY InitSafe, <1>1, PTL DEF RulesSpec

\* The tables and calls of LearningRules keep their types for any set of calls and any
\* bound on the versions (learning_rule_repository.py 126-173).
THEOREM RulesTypeCorrect == RulesSpec => []RulesTypeOK
<1>1. RInv => RulesTypeOK
  BY DEF RInv
<1> QED
  BY RulesInvariant, <1>1, PTL

\* Two versions of a rule are active together only after activations of these two were
\* under way at once, for any number of calls and versions
\* (learning_rule_repository.py 2 and 146-173).
THEOREM OnlyRivalsActive == RulesSpec => []OnlyRivalsBothActive
<1>1. RInv => OnlyRivalsBothActive
  BY DEF RInv
<1> QED
  BY RulesInvariant, <1>1, PTL

\* The last active version goes only with a call that pauses or archives it, for any
\* number of calls and versions (learning_rule_repository.py 146-173).
THEOREM NeverSilenced == RulesSpec => NeverSilencedByActivation
<1> DEFINE Silences == Active # {} /\ Active' = {}
           Asked == \E a \in Actor : call[a].target # "active" /\ call'[a] = NoCall
<1>1. ASSUME RInv, [RulesNext]_rulesVars, Silences PROVE Asked
  <2>1. CASE UNCHANGED rulesVars
    BY <1>1, <2>1 DEF rulesVars, Active
  <2>2. ASSUME NEW a \in Actor, RulesStep(a) PROVE Asked
    <3>1. CASE Commit(a)
      <4>1. call[a].target # "active"
        BY <1>1, <3>1, Committed
      <4>2. call'[a] = NoCall
        BY <1>1, <3>1 DEF Commit, SetCall, RInv, RulesTypeOK
      <4> QED
        BY <4>1, <4>2
    <3>2. CASE CreateVersion(a)
      BY <1>1, <3>2, CreateVersionWrites
    <3>3. CASE UNCHANGED status
      BY <1>1, <3>3 DEF Active
    <3> QED
      BY <2>2, <3>1, <3>2, <3>3
         DEF RulesStep, BeginTransition, BeginSave, StartActivation, PauseRow, RollBack
  <2> QED
    BY <1>1, <2>1, <2>2 DEF RulesNext
<1>2. RInv /\ [RulesNext]_rulesVars => [Silences => Asked]_rulesVars
  BY <1>1
<1> QED
  BY RulesInvariant, <1>2, PTL DEF RulesSpec, NeverSilencedByActivation
=============================================================================
