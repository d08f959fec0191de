------------------------ MODULE PeriodRetention_proofs ------------------------
(***************************************************************************)
(* Proofs about PeriodRetention for any sets of ticks and sources and any  *)
(* bounds on the periods and crashes.                                      *)
(***************************************************************************)
EXTENDS PeriodRetention, WellFoundedInduction, TLAPS

\* A source is only ever put into the batch of its own period.
MemberInv == \A p \in Period : \A s \in member[p] : periodOf[s] = p

\* What a tick has claimed is due, and what it unlinks belongs to it.
TickInv ==
  \A t \in Ticker :
    /\ tick[t].day <= today
    /\ \A p \in tick[t].claims : DeleteOn(p) <= tick[t].day
    /\ \A p \in Period : \A s \in tick[t].sources[p] : periodOf[s] = p
    /\ tick[t].pc = "delete" => /\ tick[t].claims # {}
                                /\ tick[t].left \subseteq tick[t].sources[First(tick[t].claims)]

RInv == RetentionTypeOK /\ MemberInv /\ TickInv /\ FilesGoOnSchedule

-----------------------------------------------------------------------------
LEMMA FirstIsOne ==
  ASSUME NEW claims \in SUBSET Period, claims # {}
  PROVE  First(claims) \in claims
<1>1. claims \subseteq Nat
  BY RetentionAssumption DEF Period
<1>2. PICK p \in claims : \A q \in claims : ~(<<q, p>> \in OpToRel(<, Nat))
  BY <1>1, WFMin, NatLessThanWellFounded
<1>3. \A q \in claims : ~(q < p)
  BY <1>1, <1>2 DEF OpToRel
<1>4. \A q \in claims : p <= q
  BY <1>1, <1>3
<1> QED
  BY <1>4 DEF First

LEMMA LastDayIsNat ==
  /\ LastDay \in Nat /\ 7 <= LastDay
  /\ \A p \in Period : DeleteOn(p) \in 0 .. LastDay
BY RetentionAssumption DEF LastDay, DeleteOn, Period

LEMMA NoTickTyped ==
  NoTick \in TickRecord /\ NoTick.pc = "idle" /\ NoTick.day = 0 /\ NoTick.claims = {}
  /\ \A p \in Period : NoTick.sources[p] = {}
BY LastDayIsNat DEF NoTick, TickRecord

LEMMA InitSafe == RetentionInit => RInv
<1> SUFFICES ASSUME RetentionInit PROVE RInv
  OBVIOUS
<1>1. today = 6 /\ today \in 0 .. LastDay
  BY LastDayIsNat DEF RetentionInit, PreparationOn
<1>2. crashes \in 0 .. MaxCrashes
  BY RetentionAssumption DEF RetentionInit
<1>3. RetentionTypeOK
  BY <1>1, <1>2, NoTickTyped DEF RetentionInit, RetentionTypeOK
<1>4. TickInv
  <2>1. \A t \in Ticker : tick[t] = NoTick
    BY DEF RetentionInit
  <2>2. NoTick.day <= today /\ NoTick.pc # "delete"
    BY <1>1, NoTickTyped
  <2> QED
    BY <2>1, <2>2, NoTickTyped DEF TickInv
<1>5. MemberInv /\ FilesGoOnSchedule
  BY DEF RetentionInit, MemberInv, FilesGoOnSchedule
<1> QED
  BY <1>3, <1>4, <1>5 DEF RInv

-----------------------------------------------------------------------------
\* A step of a tick that leaves the files and rows alone.
LEMMA TickMoves ==
  ASSUME RInv, NEW t \in Ticker, NEW to \in TickRecord, SetTick(t, to),
         UNCHANGED <<today, onDisk, row>>,
         batch' \in [Period -> {"none", "scheduled", "warning_open", "deleting", "resolved"}],
         member' \in [Period -> SUBSET Source], MemberInv',
         tickDue' \in BOOLEAN, crashes' \in 0 .. MaxCrashes,
         to.day <= today,
         \A p \in to.claims : DeleteOn(p) <= to.day,
         \A p \in Period : \A s \in to.sources[p] : periodOf[s] = p,
         to.pc = "delete" => to.claims # {} /\ to.left \subseteq to.sources[First(to.claims)]
  PROVE  RInv'
<1>1. tick' = [tick EXCEPT ![t] = to] /\ tick'[t] = to /\ (\A u \in Ticker \ {t} : tick'[u] = tick[u])
  BY DEF RInv, RetentionTypeOK, SetTick
<1>2. RetentionTypeOK'
  BY <1>1 DEF RInv, RetentionTypeOK
<1>3. TickInv'
  BY <1>1 DEF RInv, TickInv
<1>4. FilesGoOnSchedule'
  BY DEF RInv, FilesGoOnSchedule
<1> QED
  BY <1>2, <1>3, <1>4 DEF RInv

\* The record of a tick that goes on to its next batch.
LEMMA TurnSafe ==
  ASSUME NEW tk \in TickRecord, NEW claims \in SUBSET Period, tk.day <= today, today \in Nat,
         \A p \in claims : DeleteOn(p) <= tk.day,
         \A p \in Period : \A s \in tk.sources[p] : periodOf[s] = p
  PROVE  LET to == Turn(tk, claims)
         IN /\ to \in TickRecord
            /\ to.day <= today
            /\ \A p \in to.claims : DeleteOn(p) <= to.day
            /\ \A p \in Period : \A s \in to.sources[p] : periodOf[s] = p
            /\ to.pc = "delete" => to.claims # {} /\ to.left \subseteq to.sources[First(to.claims)]
<1>1. CASE claims = {}
  BY <1>1, NoTickTyped DEF Turn
<1>2. CASE claims # {}
  <2> DEFINE to == [tk EXCEPT !.pc = "delete", !.claims = claims, !.left = tk.sources[First(claims)]]
  <2>1. First(claims) \in Period
    BY <1>2, FirstIsOne
  <2>2. /\ to \in TickRecord /\ to.day = tk.day /\ to.claims = claims
        /\ to.sources = tk.sources /\ to.left = tk.sources[First(claims)]
    BY <2>1 DEF TickRecord
  <2>3. Turn(tk, claims) = to
    BY <1>2 DEF Turn
  <2> HIDE DEF to
  <2> QED
    BY <1>2, <2>2, <2>3
<1> QED
  BY <1>1, <1>2

LEMMA NextDaySafe == RInv /\ NextDay => RInv'
<1> SUFFICES ASSUME RInv, NextDay PROVE RInv'
  OBVIOUS
<1>1. today \in 0 .. LastDay /\ today' = today + 1 /\ today' \in 0 .. LastDay
  BY LastDayIsNat DEF NextDay, RInv, RetentionTypeOK
<1>2. RetentionTypeOK' /\ MemberInv'
  BY <1>1 DEF NextDay, RInv, RetentionTypeOK, MemberInv
<1>3. \A t \in Ticker : tick[t].day \in Nat
  BY LastDayIsNat DEF RInv, RetentionTypeOK, TickRecord
<1>4. TickInv'
  BY <1>1, <1>3 DEF NextDay, RInv, TickInv
<1>5. FilesGoOnSchedule'
  <2>1. \A s \in Source : DeleteOn(periodOf[s]) \in Int
    BY RetentionAssumption, LastDayIsNat
  <2> QED
    BY <1>1, <2>1 DEF NextDay, RInv, FilesGoOnSchedule
<1> QED
  BY <1>2, <1>4, <1>5 DEF RInv

LEMMA TickComesDueSafe == RInv /\ TickComesDue => RInv'
BY DEF TickComesDue, RInv, RetentionTypeOK, MemberInv, TickInv, FilesGoOnSchedule

LEMMA UploadSourceSafe ==
  ASSUME RInv, NEW s \in Source, UploadSource(s)
  PROVE  RInv'
<1>1. RetentionTypeOK'
  BY DEF UploadSource, RInv, RetentionTypeOK
<1>2. MemberInv' /\ TickInv'
  BY DEF UploadSource, RInv, MemberInv, TickInv
<1>3. FilesGoOnSchedule'
  BY DEF UploadSource, RInv, RetentionTypeOK, FilesGoOnSchedule
<1> QED
  BY <1>1, <1>2, <1>3 DEF RInv

LEMMA ClaimTickSafe ==
  ASSUME RInv, NEW t \in Ticker, ClaimTick(t)
  PROVE  RInv'
<1> DEFINE to == [NoTick EXCEPT !.pc = "prepare", !.day = today]
<1>1. /\ to \in TickRecord /\ to.pc = "prepare" /\ to.day = today /\ to.claims = {}
      /\ \A p \in Period : to.sources[p] = {}
  BY NoTickTyped DEF TickRecord, RInv, RetentionTypeOK
<1>2. SetTick(t, to) /\ UNCHANGED <<today, onDisk, row, batch, member, crashes>> /\ tickDue' = FALSE
  BY DEF ClaimTick
<1>3. MemberInv'
  BY <1>2 DEF RInv, MemberInv
<1>4. today <= today
  BY DEF RInv, RetentionTypeOK
<1> HIDE DEF to
<1> QED
  BY <1>1, <1>2, <1>3, <1>4, TickMoves DEF RInv, RetentionTypeOK

\* A tick before its deletions moves to another point.
LEMMA PointMoves ==
  ASSUME RInv, NEW t \in Ticker, NEW pc \in {"warn", "claim"}
  PROVE  LET to == [tick[t] EXCEPT !.pc = pc]
         IN /\ to \in TickRecord /\ to.pc # "delete"
            /\ to.day <= today
            /\ \A p \in to.claims : DeleteOn(p) <= to.day
            /\ \A p \in Period : \A s \in to.sources[p] : periodOf[s] = p
<1>1. tick[t] \in TickRecord
  BY DEF RInv, RetentionTypeOK
<1> DEFINE to == [tick[t] EXCEPT !.pc = pc]
<1>2. to \in TickRecord /\ to.pc = pc /\ to.day = tick[t].day /\ to.claims = tick[t].claims
      /\ to.sources = tick[t].sources
  BY <1>1 DEF TickRecord
<1> HIDE DEF to
<1> QED
  BY <1>2 DEF RInv, TickInv, to

LEMMA PrepareBatchesSafe ==
  ASSUME RInv, NEW t \in Ticker, PrepareBatches(t)
  PROVE  RInv'
<1>1. SetTick(t, [tick[t] EXCEPT !.pc = "warn"]) /\ UNCHANGED <<today, onDisk, row, tickDue, crashes>>
  BY DEF PrepareBatches
<1>2. batch' \in [Period -> {"none", "scheduled", "warning_open", "deleting", "resolved"}]
  BY DEF PrepareBatches, RInv, RetentionTypeOK
<1>3. \A p \in Period : Joins(t, p) \subseteq {s \in Source : periodOf[s] = p}
  BY DEF Joins, Prepared
<1>4. member' \in [Period -> SUBSET Source] /\ MemberInv'
  BY <1>3 DEF PrepareBatches, RInv, RetentionTypeOK, MemberInv
<1> DEFINE to == [tick[t] EXCEPT !.pc = "warn"]
<1>5. /\ to \in TickRecord /\ to.pc # "delete"
      /\ to.day <= today
      /\ \A p \in to.claims : DeleteOn(p) <= to.day
      /\ \A p \in Period : \A s \in to.sources[p] : periodOf[s] = p
  BY PointMoves
<1>6. SetTick(t, to)
  BY <1>1
<1> HIDE DEF to
<1> QED
  BY <1>1, <1>2, <1>4, <1>5, <1>6, TickMoves DEF RInv, RetentionTypeOK

LEMMA OpenWarningsSafe ==
  ASSUME RInv, NEW t \in Ticker, OpenWarnings(t)
  PROVE  RInv'
<1>1. SetTick(t, [tick[t] EXCEPT !.pc = "claim"])
      /\ UNCHANGED <<today, onDisk, row, member, tickDue, crashes>>
  BY DEF OpenWarnings
<1>2. batch' \in [Period -> {"none", "scheduled", "warning_open", "deleting", "resolved"}]
  BY DEF OpenWarnings, RInv, RetentionTypeOK
<1>3. MemberInv'
  BY <1>1 DEF RInv, MemberInv
<1> DEFINE to == [tick[t] EXCEPT !.pc = "claim"]
<1>4. /\ to \in TickRecord /\ to.pc # "delete"
      /\ to.day <= today
      /\ \A p \in to.claims : DeleteOn(p) <= to.day
      /\ \A p \in Period : \A s \in to.sources[p] : periodOf[s] = p
  BY PointMoves
<1>5. SetTick(t, to)
  BY <1>1
<1> HIDE DEF to
<1> QED
  BY <1>1, <1>2, <1>3, <1>4, <1>5, TickMoves DEF RInv, RetentionTypeOK

LEMMA ClaimDeletionsSafe ==
  ASSUME RInv, NEW t \in Ticker, ClaimDeletions(t)
  PROVE  RInv'
<1>1. PICK claims \in SUBSET Due(t) :
        /\ batch' = [p \in Period |-> IF p \in claims THEN "deleting" ELSE batch[p]]
        /\ SetTick(t, Turn([tick[t] EXCEPT !.sources = [p \in Period |->
                                                          IF p \in claims THEN member[p] ELSE {}]],
                           claims))
  <2>1. PICK skipped \in IF OthersRun(t) THEN SUBSET Due(t) ELSE {{}} :
          /\ batch' = [p \in Period |-> IF p \in Due(t) \ skipped THEN "deleting" ELSE batch[p]]
          /\ SetTick(t, Turn([tick[t] EXCEPT !.sources = [p \in Period |->
                                                            IF p \in Due(t) \ skipped THEN member[p] ELSE {}]],
                             Due(t) \ skipped))
    BY DEF ClaimDeletions
  <2> QED
    BY <2>1
<1>2. UNCHANGED <<today, onDisk, row, member, tickDue, crashes>>
  BY DEF ClaimDeletions
<1> DEFINE tk == [tick[t] EXCEPT !.sources = [p \in Period |-> IF p \in claims THEN member[p] ELSE {}]]
<1>3. /\ tick[t] \in TickRecord /\ member \in [Period -> SUBSET Source]
      /\ today \in Nat
  BY LastDayIsNat DEF RInv, RetentionTypeOK
<1>4. /\ tk \in TickRecord /\ tk.day = tick[t].day
      /\ \A p \in Period : tk.sources[p] = IF p \in claims THEN member[p] ELSE {}
  BY <1>3 DEF TickRecord
<1>5. claims \in SUBSET Period /\ \A p \in claims : DeleteOn(p) <= tick[t].day
  BY DEF Due
<1>6. \A p \in Period : \A s \in tk.sources[p] : periodOf[s] = p
  BY <1>4 DEF RInv, MemberInv
<1>7. tk.day <= today
  BY <1>4 DEF RInv, TickInv
<1>8. batch' \in [Period -> {"none", "scheduled", "warning_open", "deleting", "resolved"}]
  BY <1>1 DEF RInv, RetentionTypeOK
<1>9. SetTick(t, Turn(tk, claims)) /\ MemberInv'
  BY <1>1, <1>2 DEF RInv, MemberInv
<1> HIDE DEF tk
<1> QED
  BY <1>2, <1>3, <1>4, <1>5, <1>6, <1>7, <1>8, <1>9, TurnSafe, TickMoves DEF RInv, RetentionTypeOK

LEMMA UnlinkSourceSafe ==
  ASSUME RInv, NEW t \in Ticker, NEW s \in Source, UnlinkSource(t, s)
  PROVE  RInv'
<1> DEFINE to == [tick[t] EXCEPT !.left = @ \ {s}]
<1>1. tick[t] \in TickRecord /\ tick[t].pc = "delete" /\ s \in tick[t].left
  BY DEF UnlinkSource, RInv, RetentionTypeOK
<1>2. /\ to \in TickRecord /\ to.pc = "delete" /\ to.day = tick[t].day /\ to.claims = tick[t].claims
      /\ to.sources = tick[t].sources /\ to.left = tick[t].left \ {s}
  BY <1>1 DEF TickRecord
<1>3. SetTick(t, to) /\ UNCHANGED <<today, row, batch, member, tickDue, crashes>>
      /\ onDisk' \in {onDisk, onDisk \ {s}}
  BY DEF UnlinkSource
<1> HIDE DEF to
<1>4. tick' = [tick EXCEPT ![t] = to] /\ tick'[t] = to /\ (\A u \in Ticker \ {t} : tick'[u] = tick[u])
  BY <1>3 DEF RInv, RetentionTypeOK, SetTick
<1>5. RetentionTypeOK'
  BY <1>2, <1>3, <1>4 DEF RInv, RetentionTypeOK
<1>6. MemberInv'
  BY <1>3 DEF RInv, MemberInv
<1>7. TickInv'
  <2>1. /\ to.day <= today
        /\ \A p \in to.claims : DeleteOn(p) <= to.day
        /\ \A p \in Period : \A r \in to.sources[p] : periodOf[r] = p
        /\ to.claims # {} /\ to.left \subseteq to.sources[First(to.claims)]
    BY <1>1, <1>2 DEF RInv, TickInv
  <2> QED
    BY <1>3, <1>4, <2>1 DEF RInv, TickInv
<1>8. DeleteOn(periodOf[s]) <= today
  <2>1. First(tick[t].claims) \in tick[t].claims /\ tick[t].claims \subseteq Period
    BY <1>1, FirstIsOne DEF RInv, TickInv, TickRecord
  <2>2. periodOf[s] = First(tick[t].claims)
    BY <1>1, <2>1 DEF RInv, TickInv
  <2>3. DeleteOn(periodOf[s]) <= tick[t].day /\ tick[t].day <= today
    BY <2>1, <2>2 DEF RInv, TickInv
  <2>4. DeleteOn(periodOf[s]) \in Int /\ tick[t].day \in Int /\ today \in Int
    BY <1>1, RetentionAssumption, LastDayIsNat DEF TickRecord, RInv, RetentionTypeOK
  <2> QED
    BY <2>3, <2>4
<1>9. FilesGoOnSchedule'
  BY <1>3, <1>8 DEF RInv, FilesGoOnSchedule
<1> QED
  BY <1>5, <1>6, <1>7, <1>9 DEF RInv

LEMMA ResolveBatchSafe ==
  ASSUME RInv, NEW t \in Ticker, ResolveBatch(t)
  PROVE  RInv'
<1> DEFINE p == First(tick[t].claims)
           to == Turn(tick[t], tick[t].claims \ {p})
<1>1. tick[t] \in TickRecord /\ tick[t].pc = "delete" /\ today \in Nat
  BY LastDayIsNat DEF ResolveBatch, RInv, RetentionTypeOK
<1>2. p \in tick[t].claims /\ tick[t].claims \subseteq Period
  BY <1>1, FirstIsOne DEF RInv, TickInv, TickRecord
<1>3. /\ row' = [s \in Source |-> IF s \in tick[t].sources[p] THEN "deleted" ELSE row[s]]
      /\ batch' = [batch EXCEPT ![p] = "resolved"]
      /\ SetTick(t, to)
      /\ UNCHANGED <<today, onDisk, member, tickDue, crashes>>
  BY DEF ResolveBatch
<1>4. /\ to \in TickRecord
      /\ to.day <= today
      /\ \A q \in to.claims : DeleteOn(q) <= to.day
      /\ \A q \in Period : \A s \in to.sources[q] : periodOf[s] = q
      /\ to.pc = "delete" => to.claims # {} /\ to.left \subseteq to.sources[First(to.claims)]
  <2>1. /\ tick[t].claims \ {p} \in SUBSET Period /\ tick[t].day <= today
        /\ \A q \in tick[t].claims \ {p} : DeleteOn(q) <= tick[t].day
        /\ \A q \in Period : \A s \in tick[t].sources[q] : periodOf[s] = q
    BY <1>2 DEF RInv, TickInv
  <2> HIDE DEF p
  <2> QED
    BY <1>1, <2>1, TurnSafe
<1>5. \A s \in tick[t].sources[p] : DeleteOn(periodOf[s]) <= today
  <2>1. DeleteOn(p) <= tick[t].day /\ tick[t].day <= today
    BY <1>2 DEF RInv, TickInv
  <2>2. DeleteOn(p) \in Int /\ tick[t].day \in Int
    BY <1>1, <1>2, LastDayIsNat DEF TickRecord
  <2> QED
    BY <1>1, <1>2, <2>1, <2>2 DEF RInv, TickInv
<1> HIDE DEF to, p
<1>6. tick' = [tick EXCEPT ![t] = to] /\ tick'[t] = to /\ (\A u \in Ticker \ {t} : tick'[u] = tick[u])
  BY <1>3 DEF RInv, RetentionTypeOK, SetTick
<1>7. RetentionTypeOK'
  BY <1>2, <1>3, <1>4, <1>6 DEF RInv, RetentionTypeOK
<1>8. MemberInv'
  BY <1>3 DEF RInv, MemberInv
<1>9. TickInv'
  BY <1>3, <1>4, <1>6 DEF RInv, TickInv
<1>10. FilesGoOnSchedule'
  BY <1>3, <1>5 DEF RInv, FilesGoOnSchedule
<1> QED
  BY <1>7, <1>8, <1>9, <1>10 DEF RInv

LEMMA LoseTickSafe ==
  ASSUME RInv, NEW t \in Ticker, LoseTick(t)
  PROVE  RInv'
<1>1. crashes' \in 0 .. MaxCrashes
  BY RetentionAssumption DEF LoseTick, RInv, RetentionTypeOK
<1>2. 0 <= today
  BY LastDayIsNat DEF RInv, RetentionTypeOK
<1>3. MemberInv'
  BY DEF LoseTick, RInv, MemberInv
<1> QED
  BY <1>1, <1>2, <1>3, NoTickTyped, TickMoves DEF LoseTick, RInv, RetentionTypeOK

-----------------------------------------------------------------------------
LEMMA NextSafe ==
  ASSUME RInv, [RetentionNext]_retentionVars
  PROVE  RInv'
<1>1. CASE UNCHANGED retentionVars
  BY <1>1 DEF RInv, retentionVars, RetentionTypeOK, MemberInv, TickInv, FilesGoOnSchedule
<1>2. CASE NextDay
  BY <1>2, NextDaySafe
<1>3. CASE TickComesDue
  BY <1>3, TickComesDueSafe
<1>4. CASE \E s \in Source : UploadSource(s)
  BY <1>4, UploadSourceSafe
<1>5. ASSUME NEW t \in Ticker, TickStep(t) PROVE RInv'
  <2>1. CASE \E s \in Source : UnlinkSource(t, s)
    BY <2>1, UnlinkSourceSafe
  <2> QED
    BY <1>5, <2>1, ClaimTickSafe, PrepareBatchesSafe, OpenWarningsSafe, ClaimDeletionsSafe,
       ResolveBatchSafe DEF TickStep
<1>6. ASSUME NEW t \in Ticker, LoseTick(t) PROVE RInv'
  BY <1>6, LoseTickSafe
<1> QED
  BY <1>1, <1>2, <1>3, <1>4, <1>5, <1>6 DEF RetentionNext

\* The invariant that the theorems below rest on.
THEOREM RetentionInvariant == RetentionSpec => []RInv
<1>1. RInv /\ [RetentionNext]_retentionVars => RInv'
  BY NextSafe
<1> QED
  BY InitSafe, <1>1, PTL DEF RetentionSpec

\* The tables and ticks of PeriodRetention keep their types for any sets of ticks and
\* sources and any number of periods (operational_control_repository.py 27-304).
THEOREM RetentionTypeCorrect == RetentionSpec => []RetentionTypeOK
<1>1. RInv => RetentionTypeOK
  BY DEF RInv
<1> QED
  BY RetentionInvariant, <1>1, PTL

\* No file and no row goes before the deletion day of its period, for any number of
\* overlapping, late and dying ticks (retention_service.py 45-80).
THEOREM OnSchedule == RetentionSpec => []FilesGoOnSchedule
<1>1. RInv => FilesGoOnSchedule
  BY DEF RInv
<1> QED
  BY RetentionInvariant, <1>1, PTL
=============================================================================
