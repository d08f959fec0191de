-------------------------- MODULE Preparation_proofs --------------------------
(***************************************************************************)
(* Proofs about the preparation of a journal: the arithmetic of VatSplits, *)
(* for amounts of any size; the report of AccountingStages, for any        *)
(* answers; the exclusion of EditLeases, for any editors and calls; the    *)
(* selection of GeminiPool, for any threads and any number of slots; and   *)
(* the balance of InvoiceDraft, for any lines, rates and components.       *)
(***************************************************************************)
EXTENDS VatSplits, InvoiceDraft, AccountingStages, EditLeases, GeminiPool,
        FiniteSetTheorems, WellFoundedInduction, TLAPS

-----------------------------------------------------------------------------
(* VatSplits.                                                              *)

\* h is n / d within half a unit.
Near(h, n, d) == h \in Int /\ -d <= 2 * (d * h - n) /\ 2 * (d * h - n) <= d

LEMMA HalfUpIsNear ==
  ASSUME NEW n \in Int, NEW d \in {100, 101, 108, 110, 118, 120}
  PROVE  Near(HalfUp(n, d), n, d)
<1>1. CASE d = 100
  BY <1>1, SMT DEF HalfUp, Near
<1>2. CASE d = 101
  BY <1>2, SMT DEF HalfUp, Near
<1>3. CASE d = 108
  BY <1>3, SMT DEF HalfUp, Near
<1>4. CASE d = 110
  BY <1>4, SMT DEF HalfUp, Near
<1>5. CASE d = 118
  BY <1>5, SMT DEF HalfUp, Near
<1>6. CASE d = 120
  BY <1>6, SMT DEF HalfUp, Near
<1> QED
  BY <1>1, <1>2, <1>3, <1>4, <1>5, <1>6

\* The rates that RateAssumption allows.
Rates6 == {0, 1, 8, 10, 18, 20}

\* The net amount of a gross total and its tax are a pair that _values_validate takes:
\* the tax is within a cent of the rate, for any total, negative ones included, and the
\* two add up to the total (journal_entries.py 51-55, vat_splits.py 224-235).
THEOREM SplitVatValidates ==
  ASSUME NEW total \in Int, NEW rate \in Rates6
  PROVE  LET split == SplitVat(total, rate)
         IN /\ split.net + split.vat = total
            /\ WithinCent(ExpectedTax(rate, split.net), split.vat)
<1> DEFINE net == Net(total, rate)
           tax == ExpectedTax(rate, net)
<1>1. net \in Int /\ -(100 + rate) <= 2 * ((100 + rate) * net - 100 * total)
      /\ 2 * ((100 + rate) * net - 100 * total) <= 100 + rate
  <2> DEFINE d == 100 + rate
             n == total * 100
  <2>1. d \in {100, 101, 108, 110, 118, 120} /\ n \in Int /\ n = 100 * total
    BY DEF Rates6
  <2>2. net = HalfUp(n, d)
    BY DEF Net
  <2> HIDE DEF d, n, net
  <2>3. Near(net, n, d)
    BY <2>1, <2>2, HalfUpIsNear
  <2> QED
    BY <2>1, <2>3 DEF d, Near
<1>2. tax \in Int /\ -100 <= 2 * (100 * tax - net * rate) /\ 2 * (100 * tax - net * rate) <= 100
  <2>1. net * rate \in Int
    BY <1>1 DEF Rates6
  <2>2. Near(tax, net * rate, 100)
    BY <2>1, HalfUpIsNear DEF ExpectedTax
  <2> QED
    BY <2>1, <2>2 DEF Near
<1> HIDE DEF net, tax
<1>3. tax - (total - net) \in -1 .. 1
  <2>1. CASE rate = 0
    BY <1>1, <1>2, <2>1
  <2>2. CASE rate = 1
    BY <1>1, <1>2, <2>2
  <2>3. CASE rate = 8
    BY <1>1, <1>2, <2>3
  <2>4. CASE rate = 10
    BY <1>1, <1>2, <2>4
  <2>5. CASE rate = 18
    BY <1>1, <1>2, <2>5
  <2>6. CASE rate = 20
    BY <1>1, <1>2, <2>6
  <2> QED
    BY <2>1, <2>2, <2>3, <2>4, <2>5, <2>6 DEF Rates6
<1>4. net + (total - net) = total
  BY <1>1
<1> QED
  BY <1>3, <1>4 DEF SplitVat, WithinCent, net, tax

\* The amounts of a rate, and those of every rate.
Values == [taxable : Cents, tax : Cents]

Table == [Rate -> Values]

LEMMA EvidenceTypes ==
  ASSUME NEW e \in Evidence
  PROVE  /\ e.lines \in Table /\ e.summary \in Table
         /\ Gross(e) \in Cents /\ Goods(e) \in Cents /\ e.totals.exempt \in Cents
BY EvidenceAssumption DEF Table, Values, Gross, Goods, Or

LEMMA MinusTypes ==
  ASSUME NEW a \in Cents, NEW b \in Cents
  PROVE  Minus(a, b) \in Cents
<1> SUFFICES ASSUME NEW z \in Minus(a, b) PROVE z \in Int
  BY DEF Cents
<1>1. PICK x \in a, y \in b : z = x - y
  BY DEF Minus
<1> QED
  BY <1>1 DEF Cents

LEMMA DefaultTypes ==
  ASSUME NEW v \in Values, NEW a \in Cents
  PROVE  Default(v, "taxable", a) \in Values /\ Default(v, "tax", a) \in Values
BY DEF Default, Values

LEMMA AmountTypes ==
  ASSUME NEW a \in Cents, a # {}
  PROVE  Amount(a) \in a /\ Amount(a) \in Int
BY DEF Amount, Cents

\* The sum of what is stated is a whole number, whatever is stated.
LEMMA SumTypes ==
  ASSUME NEW c \in Table
  PROVE  SumOf(c, "taxable") \in Int /\ SumOf(c, "tax") \in Int
<1>1. \A r \in Rate : c[r].taxable # {} => Amount(c[r].taxable) \in Int
  BY AmountTypes DEF Table, Values
<1>2. \A r \in Rate : c[r].tax # {} => Amount(c[r].tax) \in Int
  BY AmountTypes DEF Table, Values
<1> QED
  BY <1>1, <1>2 DEF SumOf, OverRates

LEMMA WithExemptTypes ==
  ASSUME NEW e \in Evidence
  PROVE  WithExempt(e) \in Table
<1> USE EvidenceTypes
<1>1. Minus(Goods(e), e.totals.exempt) \in Cents
  BY MinusTypes
<1>2. [taxable |-> e.totals.exempt, tax |-> {0}] \in Values
  BY DEF Values, Cents
<1>3. \A r \in Rate : [e.summary[r] EXCEPT !.taxable = Minus(Goods(e), e.totals.exempt)] \in Values
  BY <1>1 DEF Table, Values
<1> QED
  BY <1>2, <1>3 DEF WithExempt, Table

LEMMA WithGoodsTypes ==
  ASSUME NEW e \in Evidence, NEW c \in Table
  PROVE  WithGoods(e, c) \in Table
<1>1. \A r \in Rate : Default(c[r], "taxable", Goods(e)) \in Values
  BY EvidenceTypes, DefaultTypes DEF Table
<1> QED
  BY <1>1 DEF WithGoods, Table

LEMMA WithOneRateTypes ==
  ASSUME NEW e \in Evidence, NEW c \in Table
  PROVE  WithOneRate(e, c) \in Table
<1> SUFFICES ASSUME NEW r \in Rate
             PROVE  (IF Rates(e) # {r}
                     THEN c[r]
                     ELSE LET line == e.lines[r]
                              v1 == IF Validates(r, line)
                                    THEN Default(c[r], "taxable", line.taxable) ELSE c[r]
                              v2 == Default(v1, "taxable", Goods(e))
                              v3 == Default(v2, "tax", line.tax)
                              v4 == Default(v3, "taxable", Minus(Gross(e), v3.tax))
                          IN Default(v4, "tax", Minus(Gross(e), v4.taxable))) \in Values
  BY DEF WithOneRate, Table
<1> DEFINE line == e.lines[r]
           v1   == IF Validates(r, line) THEN Default(c[r], "taxable", line.taxable) ELSE c[r]
           v2   == Default(v1, "taxable", Goods(e))
           v3   == Default(v2, "tax", line.tax)
           v4   == Default(v3, "taxable", Minus(Gross(e), v3.tax))
<1>1. c[r] \in Values /\ line \in Values
  BY EvidenceTypes DEF Table
<1>2. line.taxable \in Cents /\ line.tax \in Cents /\ Goods(e) \in Cents /\ Gross(e) \in Cents
  BY <1>1, EvidenceTypes DEF Values
<1> HIDE DEF line
<1>3. v1 \in Values
  BY <1>1, <1>2, DefaultTypes
<1> HIDE DEF v1
<1>4. v2 \in Values
  BY <1>2, <1>3, DefaultTypes
<1> HIDE DEF v2
<1>5. v3 \in Values
  BY <1>2, <1>4, DefaultTypes
<1> HIDE DEF v3
<1>6. Minus(Gross(e), v3.tax) \in Cents
  BY <1>2, <1>5, MinusTypes DEF Values
<1>7. v4 \in Values
  BY <1>5, <1>6, DefaultTypes
<1> HIDE DEF v4
<1>8. Minus(Gross(e), v4.taxable) \in Cents
  BY <1>2, <1>7, MinusTypes DEF Values
<1>9. Default(v4, "tax", Minus(Gross(e), v4.taxable)) \in Values
  BY <1>7, <1>8, DefaultTypes
<1> QED
  BY <1>1, <1>9 DEF v4, v3, v2, v1, line

LEMMA WithLinesTypes ==
  ASSUME NEW e \in Evidence, NEW c \in Table
  PROVE  WithLines(e, c) \in Table
<1> SUFFICES ASSUME NEW r \in Rate
             PROVE  WithLines(e, c)[r] \in Values
  BY DEF WithLines, Table
<1> DEFINE line == e.lines[r]
           v    == IF ~Whole(c[r]) /\ Validates(r, line)
                   THEN Default(Default(c[r], "taxable", line.taxable), "tax", line.tax)
                   ELSE c[r]
<1>1. c[r] \in Values /\ line \in Values
  BY EvidenceTypes DEF Table
<1>2. line.taxable \in Cents /\ line.tax \in Cents /\ {0} \in Cents
  BY <1>1 DEF Values, Cents
<1>3. Default(c[r], "taxable", line.taxable) \in Values
  BY <1>1, <1>2, DefaultTypes
<1>4. v \in Values
  BY <1>1, <1>2, <1>3, DefaultTypes
<1>5. Default(v, "tax", {0}) \in Values
  BY <1>2, <1>4, DefaultTypes
<1> QED
  BY <1>4, <1>5 DEF WithLines

LEMMA WithGrossTypes ==
  ASSUME NEW e \in Evidence, NEW c \in Table
  PROVE  WithGross(e, c) \in Table
<1> DEFINE rest == {g - SumOf(c, "taxable") - SumOf(c, "tax") : g \in Gross(e)}
<1>1. rest \in Cents
  BY EvidenceTypes, SumTypes DEF Cents
<1>2. \A r \in Rate : Default(c[r], "tax", rest) \in Values
  BY <1>1, DefaultTypes DEF Table
<1> QED
  BY <1>2 DEF WithGross, Table

LEMMA CompletedTypes ==
  ASSUME NEW e \in Evidence
  PROVE  Completed(e) \in Table
<1>1. WithExempt(e) \in Table
  BY WithExemptTypes
<1>2. WithGoods(e, WithExempt(e)) \in Table
  BY <1>1, WithGoodsTypes
<1>3. WithOneRate(e, WithGoods(e, WithExempt(e))) \in Table
  BY <1>2, WithOneRateTypes
<1>4. WithLines(e, WithOneRate(e, WithGoods(e, WithExempt(e)))) \in Table
  BY <1>3, WithLinesTypes
<1>5. WithGross(e, WithLines(e, WithOneRate(e, WithGoods(e, WithExempt(e))))) \in Table
  BY <1>4, WithGrossTypes
<1> QED
  BY <1>5, EvidenceTypes DEF Completed

\* A tax within a cent of the rounded one is within 1.5 cents of the exact one.
LEMMA ValidIsNear ==
  ASSUME NEW r \in Rate, NEW x \in Int, NEW y \in Int, WithinCent(ExpectedTax(r, x), y)
  PROVE  100 * y - r * x \in -150 .. 150
<1> DEFINE n == x * r
           h == HalfUp(n, 100)
<1>1. r \in Int /\ n \in Int /\ r * x = n
  BY RateAssumption
<1>2. Near(h, n, 100)
  BY <1>1, HalfUpIsNear
<1>3. h - y \in -1 .. 1
  BY DEF WithinCent, ExpectedTax
<1> HIDE DEF n, h
<1> QED
  BY <1>1, <1>2, <1>3 DEF Near

LEMMA ExactIsWhole ==
  ASSUME NEW e \in Evidence, BuildResult(e).status = "exact"
  PROVE  /\ DOMAIN BuildResult(e).lines = Rates(e)
         /\ \A r \in Rates(e) :
              \E x \in BuildResult(e).lines[r].taxable, y \in BuildResult(e).lines[r].tax :
                100 * y - r * x \in -150 .. 150
         /\ \A g \in Gross(e) : g - BuildResult(e).total \in -1 .. 1
<1> DEFINE c     == Completed(e)
           lines == [r \in Lined(e, c) |-> Chosen(e, c, r)]
           total == OverRates(DOMAIN lines,
                              LAMBDA r : Amount(lines[r].taxable) + Amount(lines[r].tax))
<1>1. /\ BuildResult(e).lines = lines
      /\ BuildResult(e).total = total
      /\ AllRatesAgree(e, c)
      /\ GrossAgrees(e, total)
  BY DEF BuildResult
<1>2. c \in Table
  BY CompletedTypes
<1> HIDE DEF c
<1>3. \A r \in Rate : Chosen(e, c, r) \in Values
  BY <1>2, EvidenceTypes DEF Chosen, Table, Values
<1>4. Rates(e) \subseteq Rate
  BY DEF Rates
<1>5. Lined(e, c) = Rates(e)
  BY <1>1 DEF Lined, AllRatesAgree
<1>6. ASSUME NEW r \in Rates(e)
      PROVE  \E x \in lines[r].taxable, y \in lines[r].tax : 100 * y - r * x \in -150 .. 150
  <2>1. lines[r] = Chosen(e, c, r) /\ lines[r] \in Values
    BY <1>3, <1>4, <1>5
  <2>2. Validates(r, lines[r])
    BY <1>1, <2>1 DEF AllRatesAgree
  <2>3. PICK x \in lines[r].taxable, y \in lines[r].tax : WithinCent(ExpectedTax(r, x), y)
    BY <2>2 DEF Validates
  <2>4. x \in Int /\ y \in Int
    BY <2>1 DEF Values, Cents
  <2> QED
    BY <1>4, <2>3, <2>4, ValidIsNear
<1>7. \A r \in DOMAIN lines : Amount(lines[r].taxable) + Amount(lines[r].tax) \in Int
  <2> TAKE r \in DOMAIN lines
  <2>1. lines[r] \in Values /\ Whole(lines[r])
    BY <1>3, <1>4, <1>5 DEF Lined, HasLine
  <2> QED
    BY <2>1, AmountTypes DEF Values, Whole
<1> HIDE DEF lines
<1>8. total \in Int
  BY <1>7 DEF OverRates
<1>9. ASSUME NEW g \in Gross(e) PROVE g - total \in -1 .. 1
  <2>1. g \in Int
    BY EvidenceTypes DEF Cents
  <2>2. total - g \in -1 .. 1
    BY <1>1 DEF GrossAgrees, WithinCent
  <2> HIDE DEF total
  <2> QED
    BY <1>8, <2>1, <2>2
<1>10. DOMAIN lines = Rates(e)
  BY <1>5 DEF lines
<1> QED
  BY <1>1, <1>6, <1>9, <1>10

\* The invoice that is reconciled, and the outcome: none yet, or the result for it.
VatInv ==
  /\ evidence \in Evidence
  /\ outcome = NoOutcome \/ outcome = BuildResult(evidence)

\* A split is exact only when it accounts for the whole invoice, whatever its lines, its
\* summary and its totals state, for amounts of any size and any of the supported rates.
THEOREM ExactIsTheWhole == VatSpec => []ExactSplitIsWhole
<1>1. VatInit => VatInv
  BY DEF VatInit, VatInv
<1>2. VatInv /\ [Reconcile]_vatVars => VatInv'
  BY DEF VatInv, Reconcile, vatVars
<1>3. VatInv => ExactSplitIsWhole
  <2>1. NoOutcome.status # "exact"
    BY DEF NoOutcome
  <2> QED
    BY <2>1, ExactIsWhole DEF VatInv, ExactSplitIsWhole
<1> QED
  BY <1>1, <1>2, <1>3, PTL DEF VatSpec

-----------------------------------------------------------------------------
(* AccountingStages.                                                       *)

LEMMA ComposedTypes ==
  ASSUME NEW o, invoice \in [party : Party, zero : BOOLEAN]
  PROVE  Composed(o) \in SUBSET Warning
BY DEF Composed, When, Warning

LEMMA StagesInitTypes == StagesInit => StagesTypeOK
BY DEF StagesInit, StagesTypeOK, Party, RepairStatus, NoReport

LEMMA StagesStepTypes == StagesTypeOK /\ [StagesNext]_stagesVars => StagesTypeOK'
<1> SUFFICES ASSUME StagesTypeOK, [StagesNext]_stagesVars PROVE StagesTypeOK'
  OBVIOUS
<1>u. CASE UNCHANGED stagesVars
  BY <1>u DEF StagesTypeOK, stagesVars
<1>1. CASE ReadSource \/ FailToPlan \/ TryAgain \/ NoFirstDraft
  BY <1>1 DEF StagesTypeOK, ReadSource, FailToPlan, TryAgain, NoFirstDraft
<1>2. ASSUME NEW party \in Party, PlanParty(party) PROVE StagesTypeOK'
  BY <1>2 DEF StagesTypeOK, PlanParty
<1>3. ASSUME NEW o \in Output, FirstDraft(o) PROVE StagesTypeOK'
  BY <1>3, ComposedTypes DEF StagesTypeOK, FirstDraft, Adopt, AfterFirst
<1>4. ASSUME NEW o \in Output, RepairAccounts(o) PROVE StagesTypeOK'
  <2>1. CASE Invalid(Composed(o)) # {} /\ KeepAccounts("invalid_account_code")
    BY <1>4, <2>1 DEF StagesTypeOK, RepairAccounts, KeepAccounts, AfterAccounts, Warning, RepairStatus
  <2>2. CASE KeepAccounts("account_code_not_exact")
    BY <1>4, <2>2 DEF StagesTypeOK, RepairAccounts, KeepAccounts, AfterAccounts, Warning, RepairStatus
  <2>3. CASE Adopt(o) /\ repairs' = [repairs EXCEPT !.accounts = "successful"] /\ stage' = AfterAccounts(o)
    BY <1>4, <2>3, ComposedTypes DEF StagesTypeOK, RepairAccounts, Adopt, AfterAccounts, RepairStatus
  <2> QED
    BY <1>4, <2>1, <2>2, <2>3 DEF RepairAccounts
<1>5. CASE FailAccounts
  BY <1>5 DEF StagesTypeOK, FailAccounts, KeepAccounts, AfterAccounts, Warning, RepairStatus
<1>6. ASSUME NEW o \in Output, RepairBalance(o) PROVE StagesTypeOK'
  <2>1. CASE KeepBalance("invalid_account_code", Invalid(Composed(o)))
    BY <1>6, <2>1, ComposedTypes
       DEF StagesTypeOK, RepairBalance, KeepBalance, Invalid, Warning, RepairStatus
  <2>2. CASE Adopt(o) /\ repairs' = [repairs EXCEPT !.balance = "successful"]
    BY <1>6, <2>2, ComposedTypes DEF StagesTypeOK, RepairBalance, Adopt, RepairStatus
  <2>3. CASE KeepBalance("unbalanced", {})
    BY <1>6, <2>3 DEF StagesTypeOK, RepairBalance, KeepBalance, Warning, RepairStatus
  <2> QED
    BY <1>6, <2>1, <2>2, <2>3 DEF RepairBalance
<1>7. CASE FailBalance
  BY <1>7 DEF StagesTypeOK, FailBalance, KeepBalance, Warning, RepairStatus
<1>8. CASE Report
  <2>1. answer # NoDraft => Reasons(answer) \in SUBSET Warning
    BY DEF StagesTypeOK, Reasons, When, Warning
  <2> QED
    BY <1>8, <2>1 DEF StagesTypeOK, Report, Reported, Warning
<1> QED
  BY <1>u, <1>1, <1>2, <1>3, <1>4, <1>5, <1>6, <1>7, <1>8 DEF StagesNext

\* The variables of a run of the stages have their types, for any answers.
THEOREM StagesTypeCorrect == StagesSpec => []StagesTypeOK
BY StagesInitTypes, StagesStepTypes, PTL DEF StagesSpec

\* What ReportIsTrue rests on before the report is made: the answer that is kept is one
\* that its accepted repairs speak of, and the warnings of its composition are on record
\* with it, whichever repairs failed since.
AnswerIsRecorded ==
  /\ stage \in {"reader", "planner", "first"} =>
       answer = NoDraft /\ repairs.accounts # "successful" /\ repairs.balance # "successful"
  /\ stage \in {"accounts", "balance"} => answer # NoDraft /\ repairs.balance # "successful"
  /\ answer # NoDraft => Composed(answer) \subseteq warnings
  /\ repairs.accounts = "successful" => Exact(answer)
  /\ repairs.balance = "successful" => Balanced(answer) /\ Exact(answer)
  /\ stage = "done" /\ answer # NoDraft => report = Reported(answer)

StagesInv == StagesTypeOK /\ AnswerIsRecorded

LEMMA StagesInitInv == StagesInit => StagesInv
BY StagesInitTypes, StagesAssumption DEF StagesInv, AnswerIsRecorded, StagesInit

LEMMA StagesStepInv == StagesInv /\ [StagesNext]_stagesVars => StagesInv'
<1> SUFFICES ASSUME StagesInv, [StagesNext]_stagesVars PROVE AnswerIsRecorded'
  BY StagesStepTypes DEF StagesInv
<1> USE DEF StagesInv
<1>a. \A o \in Output : o # NoDraft
  BY StagesAssumption
<1>b. ASSUME NEW o, UNCHANGED invoice PROVE Composed(o)' = Composed(o')
  BY <1>b DEF Composed
<1>u. CASE UNCHANGED stagesVars
  BY <1>u DEF AnswerIsRecorded, stagesVars, Composed, Reported, Reasons, NothingToPost,
              AccountMissing, Exact, Balanced
<1>1. CASE ReadSource \/ FailToPlan \/ TryAgain \/ NoFirstDraft
  BY <1>1 DEF AnswerIsRecorded, ReadSource, FailToPlan, TryAgain, NoFirstDraft, Composed,
              Exact, Balanced
<1>2. ASSUME NEW party \in Party, PlanParty(party) PROVE AnswerIsRecorded'
  BY <1>2 DEF AnswerIsRecorded, PlanParty
<1>3. ASSUME NEW o \in Output, FirstDraft(o) PROVE AnswerIsRecorded'
  BY <1>3, <1>a DEF AnswerIsRecorded, FirstDraft, Adopt, AfterFirst, Composed
<1>4. ASSUME NEW o \in Output, RepairAccounts(o) PROVE AnswerIsRecorded'
  <2>1. ASSUME NEW status \in {"invalid_account_code", "account_code_not_exact"},
               KeepAccounts(status)
        PROVE  AnswerIsRecorded'
    BY <1>4, <2>1 DEF AnswerIsRecorded, StagesTypeOK, RepairAccounts, KeepAccounts,
                      AfterAccounts, Composed, Exact
  <2>2. CASE /\ Exact(o) /\ Adopt(o)
             /\ repairs' = [repairs EXCEPT !.accounts = "successful"]
             /\ stage' = AfterAccounts(o)
    BY <1>4, <2>2, <1>a DEF AnswerIsRecorded, StagesTypeOK, RepairAccounts, Adopt,
                            AfterAccounts, Composed, Exact
  <2> QED
    BY <1>4, <2>1, <2>2 DEF RepairAccounts
<1>5. CASE FailAccounts
  BY <1>5 DEF AnswerIsRecorded, StagesTypeOK, FailAccounts, KeepAccounts, AfterAccounts,
              Composed, Exact
<1>6. ASSUME NEW o \in Output, RepairBalance(o) PROVE AnswerIsRecorded'
  <2>1. ASSUME NEW status \in {"invalid_account_code", "unbalanced"}, NEW found,
               KeepBalance(status, found)
        PROVE  AnswerIsRecorded'
    BY <1>6, <2>1 DEF AnswerIsRecorded, StagesTypeOK, RepairBalance, KeepBalance, Composed,
                      Exact
  <2>2. CASE /\ Exact(o) /\ Balanced(o) /\ Adopt(o)
             /\ repairs' = [repairs EXCEPT !.balance = "successful"]
    BY <1>6, <2>2, <1>a DEF AnswerIsRecorded, StagesTypeOK, RepairBalance, Adopt, Composed,
                            Exact, Balanced
  <2> QED
    BY <1>6, <2>1, <2>2 DEF RepairBalance
<1>7. CASE FailBalance
  BY <1>7 DEF AnswerIsRecorded, StagesTypeOK, FailBalance, KeepBalance, Composed, Exact
<1>8. CASE Report
  BY <1>8 DEF AnswerIsRecorded, Report, Composed, Exact, Balanced, Reported, Reasons,
              NothingToPost, AccountMissing
<1> QED
  BY <1>u, <1>1, <1>2, <1>3, <1>4, <1>5, <1>6, <1>7, <1>8 DEF StagesNext

LEMMA RecordedIsTrue == StagesInv => ReportIsTrue
<1> SUFFICES ASSUME StagesInv, stage = "done", answer # NoDraft
             PROVE  /\ report.status = "complete" =>
                         /\ answer.debit = answer.credit
                         /\ answer.lines \subseteq {"exact", "padded"}
                         /\ answer.rows \subseteq {"exact", "padded", "none"}
                         /\ invoice.party = "in_chart"
                    /\ report.status = "no_posting_required" =>
                         /\ answer.debit + answer.credit = 0
                         /\ "outside" \notin answer.lines \cup answer.rows
  BY DEF StagesInv, AnswerIsRecorded, ReportIsTrue
<1>t. /\ answer.lines \subseteq {"exact", "padded", "outside", "party", "none", "blank"}
      /\ answer.rows \subseteq {"exact", "padded", "outside", "none"}
  BY StagesAssumption DEF StagesInv, StagesTypeOK
<1>r. report = Reported(answer) /\ Composed(answer) \subseteq Reasons(answer)
  BY DEF StagesInv, AnswerIsRecorded, Reasons
<1>o. "outside" \in answer.lines \cup answer.rows => Invalid(Reasons(answer)) # {}
  BY <1>r DEF Composed, When, Invalid
<1>1. ASSUME report.status = "complete" PROVE Reasons(answer) = {}
  BY <1>1, <1>r DEF Reported
<1>2. ASSUME Reasons(answer) = {}
      PROVE  Balanced(answer) /\ ~AccountMissing(answer)
  BY <1>2 DEF Reasons, When
<1>3. ASSUME report.status = "no_posting_required" PROVE NothingToPost(answer)
  BY <1>3, <1>r DEF Reported
<1>4. ASSUME Balanced(answer), ~AccountMissing(answer), Invalid(Reasons(answer)) = {}
      PROVE  /\ answer.debit = answer.credit
             /\ answer.lines \subseteq {"exact", "padded"}
             /\ answer.rows \subseteq {"exact", "padded", "none"}
             /\ invoice.party = "in_chart"
  BY <1>4, <1>o, <1>t DEF Balanced, AccountMissing
<1>5. ASSUME NothingToPost(answer)
      PROVE  answer.debit + answer.credit = 0 /\ "outside" \notin answer.lines \cup answer.rows
  BY <1>5, <1>o DEF NothingToPost
<1>6. Reasons(answer) = {} => Invalid(Reasons(answer)) = {}
  BY DEF Invalid
<1> QED
  BY <1>1, <1>2, <1>3, <1>4, <1>5, <1>6

\* What a finished run reports is true of the draft it reports, for any answers.
THEOREM ReportTrue == StagesSpec => []ReportIsTrue
BY StagesInitInv, StagesStepInv, RecordedIsTrue, PTL DEF StagesSpec

-----------------------------------------------------------------------------
(* EditLeases.                                                             *)

LEMMA EditTimes == \A x \in 0 .. LastMinute, y \in 0 .. LastRevision : x \in Nat /\ y \in Nat
BY EditAssumption

LEMMA NoEditType == NoEdit \in EditRecord
BY DEF NoEdit, EditRecord, Operation

\* What a call knows about the lease it has read: that it was its own, or has expired.
Own(r)  == r.seen \in LeaseRecord /\ r.seen.owner = r.editor
Over(r) == r.seen \in LeaseRecord /\ r.seen.expires <= minute

\* What the exclusion rests on: a call that is about to write has read that nothing, or
\* nobody but the clock, stands in its way.
CallOK(r) ==
  /\ r.pc # "idle" => r.editor \in Editor
  /\ r.at <= minute
  /\ r.pc = "expired" => Over(r)
  /\ r.pc = "revision" /\ r.op = "draft" => Own(r)
  /\ r.pc \in {"write", "delete", "commit"} /\ r.op # "takeover" =>
       r.seen = Unleased \/ Over(r) \/ Own(r)

EditInv == EditTypeOK /\ \A c \in Edit : CallOK(edit[c])

LEMMA NoEditOK == EditTypeOK => CallOK(NoEdit)
BY EditTimes DEF EditTypeOK, CallOK, NoEdit

LEMMA EditInitInv == EditInit => EditInv
BY NoEditType, EditAssumption DEF EditInit, EditInv, EditTypeOK, CallOK, NoEdit

\* A step of a call leaves the clock alone and changes no other call.
OneCallChanges(c) ==
  /\ EditTypeOK'
  /\ minute' = minute
  /\ \E r \in EditRecord : edit' = [edit EXCEPT ![c] = r] /\ CallOK(r)

LEMMA EditStepOK ==
  ASSUME EditInv, NEW c \in Edit, EditStep(c)
  PROVE  OneCallChanges(c)
<1> USE DEF EditInv, EditTypeOK, OneCallChanges, SetEdit, Answer, GoTo
<1>e. /\ edit[c] \in EditRecord /\ CallOK(edit[c])
      /\ NoEdit \in EditRecord /\ CallOK(NoEdit)
  BY NoEditType, NoEditOK
<1>u. Unleased \notin LeaseRecord /\ Duration \in Nat
  BY EditAssumption
<1>1. ASSUME NEW a \in Editor, NEW op \in Operation,
             NEW activity \in 0 .. LastMinute, NEW expected \in 0 .. LastRevision,
             Submit(c, a, op, activity, expected)
      PROVE  OneCallChanges(c)
  <2>1. minute \in Nat /\ activity \in Nat /\ expected \in Nat
    BY EditTimes
  <2>2. PICK r : /\ edit' = [edit EXCEPT ![c] = r]
                 /\ r = [NoEdit EXCEPT
                          !.pc = IF op \in {"acquire", "review", "takeover"}
                                 THEN "revision" ELSE "lease",
                          !.editor = a, !.op = op, !.at = minute,
                          !.activity = activity, !.expected = expected]
    BY <1>1 DEF Submit
  <2>3. r \in EditRecord
    BY <1>e, <2>1, <2>2 DEF EditRecord
  <2>4. CallOK(r)
    BY <1>e, <2>1, <2>2 DEF EditRecord, CallOK
  <2> QED
    BY <1>1, <2>2, <2>3, <2>4 DEF Submit
<1>2. CASE ReadRevision(c)
  BY <1>2, <1>e DEF ReadRevision, EditRecord, CallOK, Over, Own
<1>3. CASE ReadLease(c)
  <2>1. CASE Expired(c)
    <3>1. /\ editLease \in LeaseRecord
          /\ edit[c].at \in Nat /\ edit[c].at <= minute /\ editLease.expires <= edit[c].at
      BY <1>e, <2>1 DEF Expired, EditRecord, CallOK
    <3>2. editLease.expires <= minute
      BY <3>1, EditTimes DEF LeaseRecord
    <3>3. PICK r : /\ edit' = [edit EXCEPT ![c] = r]
                   /\ r = [edit[c] EXCEPT !.pc = "expired", !.seen = editLease]
      BY <1>3, <2>1 DEF ReadLease
    <3>4. r \in EditRecord /\ r.pc = "expired" /\ r.seen = editLease
          /\ r.editor = edit[c].editor /\ r.at = edit[c].at
      BY <1>e, <3>1, <3>3 DEF EditRecord
    <3>5. CallOK(r)
      BY <1>e, <1>3, <3>1, <3>2, <3>4 DEF CallOK, Over, ReadLease
    <3> QED
      BY <1>3, <3>3, <3>4, <3>5 DEF ReadLease
  <2>2. CASE ~Expired(c) /\ LeaseAllows(c)
    <3>1. editLease = Unleased \/ (editLease \in LeaseRecord /\ editLease.owner = edit[c].editor)
      BY <2>2 DEF LeaseAllows, Unheld, Mine
    <3>2. AfterLease(c) = "revision" => editLease \in LeaseRecord /\ editLease.owner = edit[c].editor
      BY <2>2 DEF AfterLease, LeaseAllows, Mine
    <3>3. AfterLease(c) \in {"delete", "revision", "commit", "write"}
      BY DEF AfterLease
    <3>4. PICK r : /\ edit' = [edit EXCEPT ![c] = r]
                   /\ r = [edit[c] EXCEPT !.pc = AfterLease(c), !.seen = editLease]
      BY <1>3, <2>2 DEF ReadLease
    <3>5. r \in EditRecord /\ r.pc = AfterLease(c) /\ r.seen = editLease
          /\ r.editor = edit[c].editor /\ r.at = edit[c].at /\ r.op = edit[c].op
      BY <1>e, <3>3, <3>4 DEF EditRecord
    <3>6. CallOK(r)
      BY <1>e, <1>3, <3>1, <3>2, <3>3, <3>5 DEF CallOK, Own, ReadLease
    <3> QED
      BY <1>3, <3>4, <3>5, <3>6 DEF ReadLease
  <2>3. CASE ~Expired(c) /\ ~LeaseAllows(c)
    BY <1>3, <1>e, <2>3 DEF ReadLease
  <2> QED
    BY <2>1, <2>2, <2>3
<1>4. CASE DeleteExpired(c)
  BY <1>4, <1>e DEF DeleteExpired, EditRecord, CallOK, Over
<1>5. CASE DeleteLease(c)
  BY <1>5, <1>e DEF DeleteLease
<1>6. CASE WriteLease(c)
  <2>1. editLease' \in LeaseRecord
    BY <1>6, <1>e, <1>u DEF WriteLease, EditRecord, LeaseRecord, CallOK
  <2>2. CASE edit[c].op = "review"
    <3>1. PICK r : edit' = [edit EXCEPT ![c] = r] /\ r = [edit[c] EXCEPT !.pc = "commit"]
      BY <1>6, <2>2 DEF WriteLease
    <3>2. r \in EditRecord /\ r.pc = "commit" /\ r.seen = edit[c].seen /\ r.op = edit[c].op
          /\ r.editor = edit[c].editor /\ r.at = edit[c].at
      BY <1>e, <3>1 DEF EditRecord
    <3>3. CallOK(r)
      BY <1>6, <1>e, <2>2, <3>2 DEF WriteLease, CallOK, Over, Own
    <3> QED
      BY <1>6, <2>1, <3>1, <3>2, <3>3 DEF WriteLease
  <2> QED
    BY <1>6, <1>e, <2>1, <2>2 DEF WriteLease
<1>7. CASE SaveDraft(c)
  <2>1. edit[c].editor \in Editor /\ edit[c].expected \in Nat
    BY <1>7, <1>e DEF SaveDraft, EditRecord, CallOK
  <2>2. draft' \in SUBSET [by : Editor, base : Nat]
    BY <1>7, <2>1 DEF SaveDraft
  <2> QED
    BY <1>7, <1>e, <2>2 DEF SaveDraft
<1>8. CASE Review(c)
  <2>1. revision' \in Nat
    BY <1>8 DEF Review
  <2> QED
    BY <1>8, <1>e, <2>1 DEF Review
<1>9. CASE Lose(c)
  BY <1>9, <1>e DEF Lose
<1> QED
  BY <1>1, <1>2, <1>3, <1>4, <1>5, <1>6, <1>7, <1>8, <1>9 DEF EditStep

LEMMA EditStepInv == EditInv /\ [EditNext]_editVars => EditInv'
<1> SUFFICES ASSUME EditInv, [EditNext]_editVars PROVE EditInv'
  OBVIOUS
<1>1. ASSUME NEW c \in Edit, EditStep(c) PROVE EditInv'
  <2>1. PICK r \in EditRecord : edit' = [edit EXCEPT ![c] = r] /\ CallOK(r)
    BY <1>1, EditStepOK DEF OneCallChanges
  <2>2. EditTypeOK' /\ minute' = minute
    BY <1>1, EditStepOK DEF OneCallChanges
  <2>3. \A d \in Edit : CallOK(edit'[d])
    BY <2>1 DEF EditInv, EditTypeOK
  <2> QED
    BY <2>2, <2>3 DEF EditInv, CallOK, Over, Own
<1>2. CASE MinutePasses
  <2>1. EditTypeOK'
    BY <1>2, EditAssumption DEF EditInv, EditTypeOK, MinutePasses
  <2>2. ASSUME NEW c \in Edit PROVE CallOK(edit[c])'
    <3>1. edit[c] \in EditRecord /\ CallOK(edit[c]) /\ edit' = edit
      BY <1>2 DEF EditInv, EditTypeOK, MinutePasses
    <3>2. minute \in Nat /\ minute' = minute + 1
      BY <1>2, EditTimes DEF EditInv, EditTypeOK, MinutePasses
    <3>3. Over(edit[c]) => Over(edit[c])'
      BY <3>1, <3>2 DEF Over, LeaseRecord
    <3>4. edit[c].at <= minute'
      BY <3>1, <3>2 DEF EditRecord, CallOK
    <3> QED
      BY <3>1, <3>3, <3>4 DEF CallOK, Own
  <2> QED
    BY <2>1, <2>2 DEF EditInv
<1>3. CASE Revise
  BY <1>3 DEF EditInv, EditTypeOK, Revise, CallOK, Over, Own
<1>4. CASE UNCHANGED editVars
  BY <1>4 DEF EditInv, EditTypeOK, editVars, CallOK, Over, Own
<1> QED
  BY <1>1, <1>2, <1>3, <1>4 DEF EditNext

\* Leases, drafts and calls keep their types, for any editors, calls and durations.
THEOREM EditTypeCorrect == EditSpec => []EditTypeOK
<1>1. EditInv => EditTypeOK
  BY DEF EditInv
<1> QED
  BY <1>1, EditInitInv, EditStepInv, PTL DEF EditSpec

\* A call that changes something under a running lease of somebody else, and is not a
\* takeover, has read another lease than this.
LEMMA OnlyStaleWrites ==
  ASSUME EditInv, NEW c \in Edit, EditStep(c),
         editLease # Unleased, minute < editLease.expires,
         <<revision, editLease, draft>>' # <<revision, editLease, draft>>
  PROVE  \/ edit[c].editor = editLease.owner
         \/ edit[c].op = "takeover"
         \/ edit[c].seen \notin {editLease, Unread}
<1>1. edit[c].pc = "expired" \/ edit[c].pc \in {"write", "delete", "commit"}
  BY DEF EditStep, Submit, ReadRevision, ReadLease, DeleteExpired, DeleteLease, WriteLease,
         SaveDraft, Review, Lose
<1>2. editLease \in LeaseRecord /\ edit[c] \in EditRecord /\ CallOK(edit[c]) /\ minute \in Nat
  BY EditTimes DEF EditInv, EditTypeOK
<1>3. Unread \notin LeaseRecord /\ Unread # Unleased
  BY EditAssumption
<1>4. Over(edit[c]) => edit[c].seen # editLease
  BY <1>2 DEF Over, LeaseRecord
<1>5. Over(edit[c]) \/ Own(edit[c]) => edit[c].seen # Unread
  BY <1>3 DEF Over, Own
<1>6. Own(edit[c]) /\ edit[c].seen = editLease => edit[c].editor = editLease.owner
  BY DEF Own
<1> QED
  BY <1>1, <1>2, <1>3, <1>4, <1>5, <1>6 DEF CallOK

\* While a lease runs, only its owner, a takeover and calls that have read an earlier
\* lease change it, the draft or the journal, for any editors, calls and durations.
THEOREM OnlyStaleIntrude == EditSpec => OnlyStaleCallsIntrude
<1>1. EditInv /\ [EditNext]_editVars =>
      [\A c \in Edit :
         (/\ editLease # Unleased
          /\ minute < editLease.expires
          /\ edit'[c] # edit[c]
          /\ <<revision, editLease, draft>>' # <<revision, editLease, draft>>)
         => \/ edit[c].editor = editLease.owner
            \/ edit[c].op = "takeover"
            \/ edit[c].seen \notin {editLease, Unread}]_editVars
  <2> SUFFICES ASSUME EditInv, EditNext, NEW c \in Edit,
                      editLease # Unleased, minute < editLease.expires,
                      edit'[c] # edit[c],
                      <<revision, editLease, draft>>' # <<revision, editLease, draft>>
               PROVE  \/ edit[c].editor = editLease.owner
                      \/ edit[c].op = "takeover"
                      \/ edit[c].seen \notin {editLease, Unread}
    OBVIOUS
  <2>1. PICK d \in Edit : EditStep(d)
    BY DEF EditNext, Revise, MinutePasses
  <2>2. d = c
    BY <2>1, EditStepOK DEF OneCallChanges, EditInv, EditTypeOK
  <2> QED
    BY <2>1, <2>2, OnlyStaleWrites
<1> QED
  BY <1>1, EditInitInv, EditStepInv, PTL DEF EditSpec, OnlyStaleCallsIntrude

-----------------------------------------------------------------------------
(* GeminiPool.                                                             *)

\* A call at the provider has a slot, and one that goes on has a slot left to try.
DispatchOK ==
  \A t \in Thread :
    /\ dispatch[t].pc \in {"provider", "leave"} => dispatch[t].slot \in Slot
    /\ dispatch[t].pc = "lease" => dispatch[t].attempts < SlotCount
    /\ dispatch[t].pc = "leave" /\ dispatch[t].again => dispatch[t].attempts < SlotCount

\* Of the slots, those that a call alone in the pool has tried were selected last.
AloneInv ==
  \A t \in Thread : dispatch[t].alone =>
    /\ \A u \in Thread \ {t} : dispatch[u].pc = "idle"
    /\ \A s \in dispatch[t].tried, u \in Slot \ dispatch[t].tried :
         lastSelection[u] < lastSelection[s]

PoolInv == PoolTypeOK /\ DispatchOK /\ CallsAreCounted /\ AloneInv

LEMMA LeastOne ==
  ASSUME NEW S \in SUBSET Nat, S # {}
  PROVE  \E m \in S : \A n \in S : m <= n
<1>1. PICK m \in S : \A n \in S : ~(<<n, m>> \in OpToRel(<, Nat))
  BY WFMin, NatLessThanWellFounded
<1>2. \A n \in S : ~(n < m)
  BY <1>1 DEF OpToRel
<1> QED
  BY <1>2

LEMMA SlotNumbers ==
  /\ SlotCount \in Nat /\ SlotCount >= 1 /\ Cooldown \in Nat
  /\ LastTime \in Nat /\ MaxDispatches \in Nat
  /\ Slot \subseteq Nat /\ Slot # {}
  /\ Forever \in Nat
<1>1. SlotCount \in Nat \ {0} /\ Cooldown \in Nat \ {0} /\ LastTime \in Nat /\ MaxDispatches \in Nat
  BY PoolAssumption
<1>2. 1 \in Slot
  BY <1>1 DEF Slot
<1> QED
  BY <1>1, <1>2 DEF Slot, Forever

\* There is always a slot to lease.
LEMMA SomeAvailable ==
  ASSUME PoolTypeOK
  PROVE  Available # {} /\ Available \subseteq Slot
<1>1. CASE Ready # {}
  BY <1>1 DEF Available, Ready
<1>2. CASE Ready = {}
  <2> DEFINE C == {cooling[s] : s \in Slot}
  <2>1. C \in SUBSET Nat /\ C # {}
    BY SlotNumbers DEF PoolTypeOK
  <2>2. PICK m \in C : \A n \in C : m <= n
    BY <2>1, LeastOne
  <2>3. PICK s \in Slot : m = cooling[s]
    BY <2>2
  <2>4. \A u \in Slot : cooling[s] <= cooling[u]
    BY <2>2, <2>3
  <2> QED
    BY <1>2, <2>3, <2>4 DEF Available
<1> QED
  BY <1>1, <1>2

\* The order of the selection has a first slot: fewest calls, then selected longest ago,
\* then listed first.
LEMMA SelectedIsFirst ==
  ASSUME PoolTypeOK
  PROVE  /\ Selected \in Available /\ Selected \in Slot
         /\ \A u \in Available \ {Selected} : Precedes(Selected, u)
<1>1. Available # {} /\ Available \subseteq Slot
  BY SomeAvailable
<1>2. /\ \A s \in Slot : inFlight[s] \in Nat /\ lastSelection[s] \in Nat /\ s \in Nat
  BY SlotNumbers DEF PoolTypeOK
<1> DEFINE F == {inFlight[s] : s \in Available}
<1>3. PICK f \in F : \A n \in F : f <= n
  <2>1. F \in SUBSET Nat /\ F # {}
    BY <1>1, <1>2
  <2> HIDE DEF F
  <2> QED
    BY <2>1, LeastOne
<1> DEFINE A == {s \in Available : inFlight[s] = f}
           L == {lastSelection[s] : s \in A}
<1>4. PICK l \in L : \A n \in L : l <= n
  <2>1. L \in SUBSET Nat /\ L # {}
    BY <1>1, <1>2, <1>3
  <2> HIDE DEF L
  <2> QED
    BY <2>1, LeastOne
<1> DEFINE B == {s \in A : lastSelection[s] = l}
<1>5. PICK s \in B : \A n \in B : s <= n
  <2>1. B \in SUBSET Nat /\ B # {}
    BY <1>1, <1>2, <1>4
  <2> HIDE DEF B
  <2> QED
    BY <2>1, LeastOne
<1>6. s \in Available /\ inFlight[s] = f /\ lastSelection[s] = l
  BY <1>5
<1>7. ASSUME NEW u \in Available \ {s} PROVE Precedes(s, u)
  <2>1. inFlight[u] \in F /\ inFlight[u] \in Nat /\ f \in Nat /\ f <= inFlight[u]
    BY <1>1, <1>2, <1>3, <1>6
  <2>2. CASE inFlight[u] # f
    BY <1>6, <2>1, <2>2 DEF Precedes
  <2>3. CASE inFlight[u] = f
    <3>1. u \in A /\ lastSelection[u] \in Nat /\ l \in Nat
      BY <1>1, <1>2, <1>6, <2>3
    <3>2. lastSelection[u] \in L
      BY <3>1
    <3>3. l <= lastSelection[u]
      BY <1>4, <3>2
    <3>4. CASE lastSelection[u] # l
      BY <1>6, <2>3, <3>1, <3>3, <3>4 DEF Precedes
    <3>5. CASE lastSelection[u] = l
      <4>1. u \in B
        BY <3>1, <3>5
      <4>2. s <= u /\ s # u /\ s \in Nat /\ u \in Nat
        BY <1>1, <1>2, <1>5, <1>6, <4>1
      <4> QED
        BY <1>6, <2>3, <3>5, <4>2 DEF Precedes
    <3> QED
      BY <3>4, <3>5
  <2> QED
    BY <2>2, <2>3
<1> HIDE DEF A, B, F, L
<1>8. \E x \in Available : \A u \in Available \ {x} : Precedes(x, u)
  BY <1>6, <1>7
<1>9. Selected \in Available /\ \A u \in Available \ {Selected} : Precedes(Selected, u)
  BY <1>8 DEF Selected
<1> QED
  BY <1>1, <1>9

LEMMA CountedNat ==
  ASSUME NEW s \in Slot, CallsAreCounted
  PROVE  IsFiniteSet(AtProvider(s)) /\ inFlight[s] = Cardinality(AtProvider(s))
<1>1. AtProvider(s) \in SUBSET Thread
  BY DEF AtProvider
<1>2. IsFiniteSet(AtProvider(s))
  BY <1>1, PoolAssumption, FS_Subset
<1> QED
  BY <1>2 DEF CallsAreCounted

\* The local states that a call goes through are records of its kind.
LEMMA BegunRecord ==
  ASSUME NEW kind \in {"single", "structured"}, NEW a \in BOOLEAN
  PROVE  [NoDispatch EXCEPT !.pc = "lease", !.kind = kind, !.alone = a] \in DispatchRecord
<1>1. 0 \in 0 .. SlotCount /\ {} \in SUBSET Slot
  BY SlotNumbers
<1> QED
  BY <1>1 DEF NoDispatch, DispatchRecord

LEMMA AccompaniedRecord ==
  ASSUME NEW d \in DispatchRecord
  PROVE  [d EXCEPT !.alone = FALSE] \in DispatchRecord
BY DEF DispatchRecord

LEMMA LeasedRecord ==
  ASSUME NEW d \in DispatchRecord, d.attempts < SlotCount, NEW m \in Slot
  PROVE  [d EXCEPT !.pc = "provider", !.slot = m, !.attempts = @ + 1, !.tried = @ \cup {m}]
           \in DispatchRecord
<1>1. d.attempts + 1 \in 0 .. SlotCount /\ m \in 0 .. SlotCount /\ d.tried \cup {m} \in SUBSET Slot
  BY SlotNumbers DEF DispatchRecord, Slot
<1> QED
  BY <1>1 DEF DispatchRecord

LEMMA AnsweredRecord ==
  ASSUME NEW d \in DispatchRecord, NEW a \in BOOLEAN
  PROVE  LET n == [d EXCEPT !.pc = "leave", !.again = a]
         IN /\ n \in DispatchRecord
            /\ n.pc = "leave" /\ n.again = a
            /\ n.slot = d.slot /\ n.tried = d.tried
            /\ n.attempts = d.attempts /\ n.alone = d.alone
BY DEF DispatchRecord

LEMMA PoolInitInv == PoolInit => PoolInv
<1> SUFFICES ASSUME PoolInit PROVE PoolInv
  OBVIOUS
<1> USE SlotNumbers DEF PoolInit
<1>1. NoDispatch \in DispatchRecord
  BY DEF NoDispatch, DispatchRecord
<1>2. PoolTypeOK
  BY <1>1 DEF PoolTypeOK
<1>3. DispatchOK /\ AloneInv
  BY DEF DispatchOK, AloneInv, NoDispatch
<1>4. ASSUME NEW s \in Slot PROVE inFlight[s] = Cardinality(AtProvider(s))
  <2>1. AtProvider(s) = {}
    BY DEF AtProvider, NoDispatch
  <2> QED
    BY <2>1, FS_EmptySet
<1> QED
  BY <1>2, <1>3, <1>4 DEF PoolInv, CallsAreCounted

LEMMA TimePassesInv == PoolInv /\ TimePasses => PoolInv'
<1> SUFFICES ASSUME PoolInv, TimePasses PROVE PoolInv'
  OBVIOUS
<1> USE SlotNumbers DEF PoolInv, TimePasses
<1>1. PoolTypeOK'
  BY DEF PoolTypeOK, DispatchRecord
<1>2. DispatchOK' /\ AloneInv'
  BY DEF DispatchOK, AloneInv
<1>3. CallsAreCounted'
  BY DEF CallsAreCounted, AtProvider
<1> QED
  BY <1>1, <1>2, <1>3

LEMMA BeginInv ==
  ASSUME PoolInv, NEW t \in Thread, NEW kind \in {"single", "structured"}, Begin(t, kind)
  PROVE  PoolInv'
<1> USE SlotNumbers DEF PoolInv
<1>1. /\ dispatch'[t] = [NoDispatch EXCEPT !.pc = "lease", !.kind = kind,
                           !.alone = \A v \in Thread : dispatch[v].pc = "idle"]
      /\ \A u \in Thread \ {t} : dispatch'[u] = [dispatch[u] EXCEPT !.alone = FALSE]
      /\ DOMAIN dispatch' = Thread
  BY DEF Begin
<1>2. \A u \in Thread : dispatch[u] \in DispatchRecord
  BY DEF PoolTypeOK
<1>3. dispatch'[t] \in DispatchRecord
  <2> DEFINE a == \A v \in Thread : dispatch[v].pc = "idle"
  <2>1. a \in BOOLEAN
    OBVIOUS
  <2>2. dispatch'[t] = [NoDispatch EXCEPT !.pc = "lease", !.kind = kind, !.alone = a]
    BY <1>1
  <2> HIDE DEF a
  <2> QED
    BY <2>1, <2>2, BegunRecord
<1>4. \A u \in Thread \ {t} : dispatch'[u] \in DispatchRecord
  BY <1>1, <1>2, AccompaniedRecord
<1>5. dispatch' \in [Thread -> DispatchRecord]
  <2>1. dispatch' = [u \in Thread |-> dispatch'[u]]
    BY DEF Begin
  <2> QED
    BY <1>3, <1>4, <2>1
<1>6. PoolTypeOK'
  <2>1. dispatches < MaxDispatches /\ dispatches' = dispatches + 1
    BY Zenon DEF Begin
  <2>2. UNCHANGED <<clock, cooling, inFlight, lastSelection, selections>>
    BY Zenon DEF Begin
  <2> QED
    BY <1>5, <2>1, <2>2 DEF PoolTypeOK
<1>7. /\ dispatch'[t].pc = "lease" /\ dispatch'[t].slot = 0 /\ dispatch'[t].attempts = 0
      /\ dispatch'[t].tried = {}
      /\ dispatch'[t].alone => \A v \in Thread : dispatch[v].pc = "idle"
  BY <1>1 DEF NoDispatch
<1>8. \A u \in Thread \ {t} :
        /\ dispatch'[u].pc = dispatch[u].pc /\ dispatch'[u].slot = dispatch[u].slot
        /\ dispatch'[u].attempts = dispatch[u].attempts /\ dispatch'[u].again = dispatch[u].again
        /\ dispatch'[u].alone = FALSE
  BY <1>1, <1>2 DEF DispatchRecord
<1>9. dispatch[t].pc = "idle" /\ inFlight' = inFlight
  BY DEF Begin
<1>10. DispatchOK'
  BY <1>7, <1>8 DEF DispatchOK
<1>11. AloneInv'
  BY <1>7, <1>8 DEF AloneInv
<1>12. \A s \in Slot : AtProvider(s)' = AtProvider(s)
  BY <1>7, <1>8, <1>9 DEF AtProvider
<1>13. CallsAreCounted'
  BY <1>9, <1>12 DEF CallsAreCounted
<1> QED
  BY <1>6, <1>10, <1>11, <1>13

LEMMA LeaseInv ==
  ASSUME PoolInv, NEW t \in Thread, Lease(t)
  PROVE  PoolInv'
<1> USE SlotNumbers DEF PoolInv
<1> DEFINE m == Selected
<1>1. m \in Slot
  BY SelectedIsFirst
<1>2. dispatch[t] \in DispatchRecord /\ dispatch[t].pc = "lease" /\ dispatch[t].attempts < SlotCount
  BY DEF PoolTypeOK, DispatchOK, Lease
<1> HIDE DEF m
<1>3. dispatch' = [dispatch EXCEPT ![t] = [dispatch[t] EXCEPT
                     !.pc = "provider", !.slot = m, !.attempts = @ + 1, !.tried = @ \cup {m}]]
  BY DEF Lease, Leased, PoolTypeOK, DispatchRecord, m
<1>4. /\ dispatch'[t] = [dispatch[t] EXCEPT !.pc = "provider", !.slot = m, !.attempts = @ + 1,
                                            !.tried = @ \cup {m}]
      /\ \A u \in Thread \ {t} : dispatch'[u] = dispatch[u]
  BY <1>3 DEF PoolTypeOK
<1>5. /\ dispatch'[t].pc = "provider" /\ dispatch'[t].slot = m
      /\ dispatch'[t].tried = dispatch[t].tried \cup {m}
      /\ dispatch'[t].alone = dispatch[t].alone
      /\ dispatch'[t] \in DispatchRecord
  <2>1. dispatch'[t] \in DispatchRecord
    <3>1. [dispatch[t] EXCEPT !.pc = "provider", !.slot = m, !.attempts = @ + 1,
                             !.tried = @ \cup {m}] \in DispatchRecord
      BY <1>1, <1>2, LeasedRecord
    <3> QED
      BY <1>4, <3>1, Zenon
  <2> QED
    BY <1>2, <1>4, <2>1 DEF DispatchRecord
<1>6. dispatch' \in [Thread -> DispatchRecord]
  BY <1>3, <1>4, <1>5 DEF PoolTypeOK
<1>7. /\ inFlight' = [inFlight EXCEPT ![m] = @ + 1]
      /\ selections' = selections + 1
      /\ lastSelection' = [lastSelection EXCEPT ![m] = selections + 1]
      /\ UNCHANGED <<clock, cooling, dispatches>>
  BY DEF Lease, m
<1>8. PoolTypeOK'
  BY <1>1, <1>6, <1>7 DEF PoolTypeOK
<1>9. DispatchOK'
  BY <1>1, <1>4, <1>5 DEF DispatchOK
<1>10. CallsAreCounted'
  <2> SUFFICES ASSUME NEW s \in Slot PROVE inFlight'[s] = Cardinality(AtProvider(s)')
    BY DEF CallsAreCounted
  <2>1. IsFiniteSet(AtProvider(s)) /\ inFlight[s] = Cardinality(AtProvider(s))
    BY CountedNat
  <2>2. CASE s = m
    <3>1. AtProvider(s)' = AtProvider(s) \cup {t} /\ t \notin AtProvider(s)
      <4>1. \A u \in Thread \ {t} : u \in AtProvider(s)' <=> u \in AtProvider(s)
        BY <1>4 DEF AtProvider
      <4>2. t \in AtProvider(s)' /\ t \notin AtProvider(s)
        BY <1>2, <1>5, <2>2 DEF AtProvider
      <4>3. AtProvider(s) \subseteq Thread /\ AtProvider(s)' \subseteq Thread
        BY DEF AtProvider
      <4> QED
        BY <4>1, <4>2, <4>3
    <3>2. inFlight'[s] = inFlight[s] + 1
      BY <1>7, <2>2 DEF PoolTypeOK
    <3> QED
      BY <2>1, <3>1, <3>2, FS_AddElement
  <2>3. CASE s # m
    <3>1. AtProvider(s)' = AtProvider(s)
      <4>1. \A u \in Thread \ {t} : u \in AtProvider(s)' <=> u \in AtProvider(s)
        BY <1>4 DEF AtProvider
      <4>2. t \notin AtProvider(s)' /\ t \notin AtProvider(s)
        BY <1>2, <1>5, <2>3 DEF AtProvider
      <4>3. AtProvider(s) \subseteq Thread /\ AtProvider(s)' \subseteq Thread
        BY DEF AtProvider
      <4> QED
        BY <4>1, <4>2, <4>3
    <3>2. inFlight'[s] = inFlight[s]
      BY <1>7, <2>3 DEF PoolTypeOK
    <3> QED
      BY <2>1, <3>1, <3>2
  <2> QED
    BY <2>2, <2>3
<1>11. AloneInv'
  <2> SUFFICES ASSUME NEW v \in Thread, dispatch'[v].alone
               PROVE  /\ \A u \in Thread \ {v} : dispatch'[u].pc = "idle"
                      /\ \A s \in dispatch'[v].tried, u \in Slot \ dispatch'[v].tried :
                           lastSelection'[u] < lastSelection'[s]
    BY DEF AloneInv
  <2>1. v = t
    BY <1>2, <1>4 DEF AloneInv
  <2>a. dispatch[t].alone
    BY <1>5, <2>1, Zenon
  <2>2. \A u \in Thread \ {v} : dispatch'[u].pc = "idle"
    BY <1>4, <2>1, <2>a DEF AloneInv
  <2>3. ASSUME NEW s \in dispatch'[v].tried, NEW u \in Slot \ dispatch'[v].tried
        PROVE  lastSelection'[u] < lastSelection'[s]
    <3>1. u # m /\ u \in Slot \ dispatch[t].tried /\ s \in Slot
      BY <1>5, <2>1 DEF DispatchRecord
    <3>2. lastSelection'[u] = lastSelection[u] /\ lastSelection[u] \in 0 .. selections
      BY <1>7, <3>1 DEF PoolTypeOK
    <3>3. selections \in Nat
      BY DEF PoolTypeOK
    <3>4. CASE s = m
      <4>1. lastSelection'[s] = selections + 1
        BY <1>1, <1>7, <3>4 DEF PoolTypeOK
      <4> QED
        BY <3>2, <3>3, <4>1
    <3>5. CASE s # m
      <4>1. s \in dispatch[t].tried /\ lastSelection'[s] = lastSelection[s]
        BY <1>5, <1>7, <2>1, <3>1, <3>5 DEF PoolTypeOK
      <4> QED
        BY <1>5, <2>1, <3>1, <3>2, <4>1 DEF AloneInv
    <3> QED
      BY <3>4, <3>5
  <2> QED
    BY <2>2, <2>3
<1> QED
  BY <1>8, <1>9, <1>10, <1>11

\* An answer leaves the slot, the tries and the company of a call as they are.
LEMMA AnswerInv ==
  ASSUME PoolInv, NEW t \in Thread, dispatch[t].pc = "provider",
         NEW again \in BOOLEAN, again => dispatch[t].attempts < SlotCount,
         dispatch' = [dispatch EXCEPT ![t].pc = "leave", ![t].again = again],
         cooling' \in [Slot -> 0 .. Forever],
         UNCHANGED <<clock, inFlight, lastSelection, selections, dispatches>>
  PROVE  PoolInv'
<1> USE DEF PoolInv
<1>1. dispatch \in [Thread -> DispatchRecord]
  BY DEF PoolTypeOK
<1>2. /\ dispatch'[t] = [dispatch[t] EXCEPT !.pc = "leave", !.again = again]
      /\ \A u \in Thread \ {t} : dispatch'[u] = dispatch[u]
  BY <1>1
<1>3. /\ dispatch'[t].pc = "leave" /\ dispatch'[t].again = again
      /\ dispatch'[t].slot = dispatch[t].slot /\ dispatch'[t].tried = dispatch[t].tried
      /\ dispatch'[t].attempts = dispatch[t].attempts /\ dispatch'[t].alone = dispatch[t].alone
      /\ dispatch'[t] \in DispatchRecord
  <2>1. dispatch[t] \in DispatchRecord
    BY <1>1
  <2> DEFINE n == [dispatch[t] EXCEPT !.pc = "leave", !.again = again]
  <2>2. /\ n \in DispatchRecord
        /\ n.pc = "leave" /\ n.again = again
        /\ n.slot = dispatch[t].slot /\ n.tried = dispatch[t].tried
        /\ n.attempts = dispatch[t].attempts /\ n.alone = dispatch[t].alone
    BY <2>1, AnsweredRecord, Zenon
  <2>3. dispatch'[t] = n
    BY <1>2, Zenon
  <2> HIDE DEF n
  <2> QED
    BY <2>2, <2>3, Zenon
<1>4. dispatch' \in [Thread -> DispatchRecord]
  BY <1>1, <1>3
<1>5. PoolTypeOK'
  BY <1>4 DEF PoolTypeOK
<1>6. DispatchOK'
  BY <1>2, <1>3 DEF DispatchOK
<1>7. \A s \in Slot : AtProvider(s)' = AtProvider(s)
  <2>1. \A u \in Thread : /\ dispatch'[u].slot = dispatch[u].slot
                          /\ dispatch'[u].pc \in {"provider", "leave"}
                               <=> dispatch[u].pc \in {"provider", "leave"}
    BY <1>2, <1>3
  <2> QED
    BY <2>1 DEF AtProvider
<1>8. CallsAreCounted'
  BY <1>7 DEF CallsAreCounted
<1>9. AloneInv'
  <2> SUFFICES ASSUME NEW v \in Thread, dispatch'[v].alone
               PROVE  /\ \A u \in Thread \ {v} : dispatch'[u].pc = "idle"
                      /\ \A s \in dispatch'[v].tried, u \in Slot \ dispatch'[v].tried :
                           lastSelection'[u] < lastSelection'[s]
    BY DEF AloneInv
  <2>1. dispatch[v].alone
    BY <1>2, <1>3, Zenon
  <2>2. v = t
    BY <2>1 DEF AloneInv
  <2>3. dispatch'[v].tried = dispatch[v].tried
    BY <1>3, <2>2
  <2> QED
    BY <1>2, <2>1, <2>2, <2>3 DEF AloneInv
<1> QED
  BY <1>5, <1>6, <1>8, <1>9

LEMMA SucceedInv ==
  ASSUME PoolInv, NEW t \in Thread, Succeed(t)
  PROVE  PoolInv'
<1>1. cooling' \in [Slot -> 0 .. Forever]
  BY DEF Succeed, PoolInv, PoolTypeOK
<1> QED
  BY <1>1, AnswerInv DEF Succeed

LEMMA FailInv ==
  ASSUME PoolInv, NEW t \in Thread, NEW error \in ProviderError, Fail(t, error)
  PROVE  PoolInv'
<1> DEFINE again == /\ dispatch[t].kind = "structured"
                    /\ error # "other"
                    /\ dispatch[t].attempts < SlotCount
<1>1. clock \in 0 .. LastTime /\ cooling \in [Slot -> 0 .. Forever]
  BY DEF PoolInv, PoolTypeOK
<1>2. clock + Cooldown \in 0 .. Forever /\ Forever \in 0 .. Forever
  BY <1>1, SlotNumbers DEF Forever
<1>3. ASSUME NEW kind, NEW until \in 0 .. Forever
      PROVE  CoolingAfter(kind, error, until) \in 0 .. Forever
  <2> HIDE DEF Forever
  <2> QED
    BY <1>2 DEF CoolingAfter
<1>4. cooling' = [cooling EXCEPT ![dispatch[t].slot] = CoolingAfter(dispatch[t].kind, error, @)]
  BY DEF Fail
<1>5. cooling' \in [Slot -> 0 .. Forever]
  BY <1>1, <1>3, <1>4
<1>6. again \in BOOLEAN /\ (again => dispatch[t].attempts < SlotCount)
  OBVIOUS
<1>7. /\ dispatch[t].pc = "provider"
      /\ dispatch' = [dispatch EXCEPT ![t].pc = "leave", ![t].again = again]
      /\ UNCHANGED <<clock, inFlight, lastSelection, selections, dispatches>>
  BY DEF Fail
<1> HIDE DEF again
<1> QED
  BY <1>5, <1>6, <1>7, AnswerInv

LEMMA LeaveInv ==
  ASSUME PoolInv, NEW t \in Thread, Leave(t)
  PROVE  PoolInv'
<1> USE DEF PoolInv
<1> DEFINE m == dispatch[t].slot
           next == IF dispatch[t].again THEN [dispatch[t] EXCEPT !.pc = "lease"] ELSE NoDispatch
<1>1. dispatch \in [Thread -> DispatchRecord] /\ dispatch[t] \in DispatchRecord
  BY DEF PoolTypeOK
<1>2. dispatch[t].pc = "leave" /\ m \in Slot
  BY DEF DispatchOK, Leave
<1>3. NoDispatch \in DispatchRecord
  BY SlotNumbers DEF NoDispatch, DispatchRecord
<1>4. /\ next \in DispatchRecord
      /\ next.pc \in {"idle", "lease"}
      /\ next.pc = "lease" => dispatch[t].again /\ next.attempts = dispatch[t].attempts
      /\ next.alone => dispatch[t].alone /\ next.tried = dispatch[t].tried
  <2>1. CASE dispatch[t].again
    BY <1>1, <2>1 DEF DispatchRecord
  <2>2. CASE ~dispatch[t].again
    BY <1>3, <2>2 DEF NoDispatch
  <2> QED
    BY <2>1, <2>2
<1>5. /\ dispatch' = [dispatch EXCEPT ![t] = next]
      /\ inFlight' = [inFlight EXCEPT ![m] = @ - 1]
      /\ UNCHANGED <<clock, cooling, lastSelection, selections, dispatches>>
  BY DEF Leave
<1>6. /\ dispatch'[t] = next
      /\ \A u \in Thread \ {t} : dispatch'[u] = dispatch[u]
      /\ dispatch' \in [Thread -> DispatchRecord]
  BY <1>1, <1>4, <1>5
<1> HIDE DEF next
<1>7. ASSUME NEW s \in Slot
      PROVE  inFlight'[s] = Cardinality(AtProvider(s)') /\ inFlight'[s] \in Nat
  <2>1. IsFiniteSet(AtProvider(s)) /\ inFlight[s] = Cardinality(AtProvider(s)) /\ inFlight[s] \in Nat
    BY CountedNat DEF PoolTypeOK
  <2>2. AtProvider(s)' = AtProvider(s) \ {t}
    <3>1. \A u \in Thread \ {t} : u \in AtProvider(s)' <=> u \in AtProvider(s)
      BY <1>6 DEF AtProvider
    <3>2. t \notin AtProvider(s)'
      BY <1>4, <1>6 DEF AtProvider
    <3>3. AtProvider(s) \subseteq Thread /\ AtProvider(s)' \subseteq Thread
      BY DEF AtProvider
    <3> QED
      BY <3>1, <3>2, <3>3
  <2>3. /\ Cardinality(AtProvider(s)') =
             IF t \in AtProvider(s) THEN Cardinality(AtProvider(s)) - 1 ELSE Cardinality(AtProvider(s))
        /\ IsFiniteSet(AtProvider(s)')
    BY <2>1, <2>2, FS_RemoveElement
  <2>4. Cardinality(AtProvider(s)') \in Nat
    BY <2>3, FS_CardinalityType
  <2>5. t \in AtProvider(s) <=> s = m
    BY <1>2 DEF AtProvider
  <2>6. inFlight'[s] = IF s = m THEN inFlight[s] - 1 ELSE inFlight[s]
    BY <1>5 DEF PoolTypeOK
  <2> HIDE DEF m
  <2> QED
    BY <2>1, <2>3, <2>4, <2>5, <2>6
<1>8. CallsAreCounted'
  BY <1>7 DEF CallsAreCounted
<1>9. PoolTypeOK'
  <2>1. inFlight' \in [Slot -> Nat]
    BY <1>5, <1>7 DEF PoolTypeOK
  <2> QED
    BY <1>5, <1>6, <2>1 DEF PoolTypeOK
<1>10. DispatchOK'
  BY <1>2, <1>4, <1>6 DEF DispatchOK
<1>11. AloneInv'
  <2> SUFFICES ASSUME NEW v \in Thread, dispatch'[v].alone
               PROVE  /\ \A u \in Thread \ {v} : dispatch'[u].pc = "idle"
                      /\ \A s \in dispatch'[v].tried, u \in Slot \ dispatch'[v].tried :
                           lastSelection'[u] < lastSelection'[s]
    BY DEF AloneInv
  <2>1. dispatch[v].alone
    BY <1>4, <1>6, Zenon
  <2>2. v = t
    BY <1>2, <2>1 DEF AloneInv
  <2>3. dispatch'[v].tried = dispatch[v].tried
    BY <1>4, <1>6, <2>2, Zenon
  <2> QED
    BY <1>5, <1>6, <2>1, <2>2, <2>3 DEF AloneInv
<1> QED
  BY <1>8, <1>9, <1>10, <1>11

LEMMA PoolStepInv == PoolInv /\ [PoolNext]_poolVars => PoolInv'
<1> SUFFICES ASSUME PoolInv, [PoolNext]_poolVars PROVE PoolInv'
  OBVIOUS
<1>1. CASE UNCHANGED poolVars
  BY <1>1 DEF poolVars, PoolInv, PoolTypeOK, DispatchOK, CallsAreCounted, AtProvider, AloneInv
<1>2. CASE TimePasses
  BY <1>2, TimePassesInv
<1>3. ASSUME NEW t \in Thread, PoolStep(t) PROVE PoolInv'
  <2>1. CASE \E kind \in {"single", "structured"} : Begin(t, kind)
    BY <2>1, BeginInv
  <2>2. CASE Lease(t)
    BY <2>2, LeaseInv
  <2>3. CASE Succeed(t)
    BY <2>3, SucceedInv
  <2>4. CASE Leave(t)
    BY <2>4, LeaveInv
  <2>5. CASE \E error \in ProviderError : Fail(t, error)
    BY <2>5, FailInv
  <2> QED
    BY <1>3, <2>1, <2>2, <2>3, <2>4, <2>5 DEF PoolStep
<1> QED
  BY <1>1, <1>2, <1>3 DEF PoolNext

\* The variables of the pool have their types, for any threads and any number of slots:
\* no slot is given back more often than it was taken.
THEOREM PoolTypeCorrect == PoolSpec => []PoolTypeOK
<1>1. PoolInv => PoolTypeOK
  BY DEF PoolInv
<1> QED
  BY <1>1, PoolInitInv, PoolStepInv, PTL DEF PoolSpec

\* The load of a slot is the number of calls at its provider, for any number of threads
\* that lease, fail, go over and leave in any order.
THEOREM CallsCounted == PoolSpec => []CallsAreCounted
<1>1. PoolInv => CallsAreCounted
  BY DEF PoolInv
<1> QED
  BY <1>1, PoolInitInv, PoolStepInv, PTL DEF PoolSpec

\* Alone in the pool a call finds every slot unloaded, and those it has not tried were
\* selected before those it has: so it tries an untried one while any is ready.
LEMMA AloneFailsOver ==
  ASSUME PoolInv, NEW t \in Thread, dispatch[t].alone, dispatch[t].pc = "lease",
         Selected \in dispatch[t].tried
  PROVE  dispatch[t].tried \cup {s \in Slot : cooling[s] > clock} = Slot
<1> USE DEF PoolInv
<1>1. Selected \in Available /\ Selected \in Slot
  BY SelectedIsFirst
<1>2. dispatch[t].tried \subseteq Slot
  BY DEF PoolTypeOK, DispatchRecord
<1>3. clock \in Nat /\ \A s \in Slot : cooling[s] \in Nat
  BY SlotNumbers DEF PoolTypeOK
<1>4. \A s \in Slot : inFlight[s] = 0
  <2> SUFFICES ASSUME NEW s \in Slot PROVE inFlight[s] = 0
    OBVIOUS
  <2>1. \A u \in Thread : dispatch[u].pc \in {"idle", "lease"}
    BY DEF AloneInv
  <2>2. AtProvider(s) = {}
    BY <2>1 DEF AtProvider
  <2> QED
    BY <2>2, FS_EmptySet DEF CallsAreCounted
<1>5. ASSUME NEW u \in Slot \ dispatch[t].tried PROVE cooling[u] > clock
  <2> SUFFICES ASSUME ~(cooling[u] > clock) PROVE FALSE
    OBVIOUS
  <2>1. u \in Ready
    BY <1>3 DEF Ready
  <2>2. u \in Available /\ u # Selected
    BY <2>1 DEF Available
  <2>3. Precedes(Selected, u)
    BY <2>2, SelectedIsFirst
  <2>4. lastSelection[u] < lastSelection[Selected]
    BY DEF AloneInv
  <2>5. lastSelection[u] \in Nat /\ lastSelection[Selected] \in Nat
    BY <1>1 DEF PoolTypeOK
  <2>6. inFlight[u] = 0 /\ inFlight[Selected] = 0
    BY <1>1, <1>4
  <2> QED
    BY <2>3, <2>4, <2>5, <2>6 DEF Precedes
<1> QED
  BY <1>2, <1>5

\* A structured call alone in the pool gives up on no slot that could have answered, for
\* any number of slots and whatever earlier calls left behind.
THEOREM FailsOver == PoolSpec => FailsOverToUntried
<1> DEFINE GoesOver(t) ==
      (/\ dispatch[t].alone
       /\ dispatch[t].pc = "lease"
       /\ dispatch'[t].pc = "provider"
       /\ dispatch'[t].slot \in dispatch[t].tried)
      => dispatch[t].tried \cup {s \in Slot : cooling[s] > clock} = Slot
<1>1. PoolInv /\ [PoolNext]_poolVars => [\A t \in Thread : GoesOver(t)]_poolVars
  <2> SUFFICES ASSUME PoolInv, PoolNext, NEW t \in Thread,
                      dispatch[t].alone,
                      dispatch[t].pc = "lease",
                      dispatch'[t].pc = "provider",
                      dispatch'[t].slot \in dispatch[t].tried
               PROVE  dispatch[t].tried \cup {s \in Slot : cooling[s] > clock} = Slot
    OBVIOUS
  <2>1. dispatch \in [Thread -> DispatchRecord]
    BY DEF PoolInv, PoolTypeOK
  <2>2. Lease(t)
    <3>1. ~TimePasses
      BY DEF TimePasses
    <3>2. PICK u \in Thread : PoolStep(u)
      BY <3>1 DEF PoolNext
    <3>3. ~ \E kind \in {"single", "structured"} : Begin(u, kind)
      <4> SUFFICES ASSUME NEW kind \in {"single", "structured"}, Begin(u, kind) PROVE FALSE
        OBVIOUS
      <4>1. u # t
        BY DEF Begin
      <4>2. dispatch'[t] = [dispatch[t] EXCEPT !.alone = FALSE]
        BY <4>1 DEF Begin
      <4> QED
        BY <2>1, <4>2 DEF DispatchRecord
    <3>4. ~Succeed(u)
      BY <2>1 DEF Succeed
    <3>5. ~Leave(u)
      BY <2>1 DEF Leave
    <3>6. ~ \E error \in ProviderError : Fail(u, error)
      BY <2>1 DEF Fail
    <3>7. Lease(u)
      BY <3>2, <3>3, <3>4, <3>5, <3>6 DEF PoolStep
    <3>8. u = t
      BY <2>1, <3>7 DEF Lease, Leased
    <3> QED
      BY <3>7, <3>8
  <2>3. dispatch'[t].slot = Selected
    BY <2>1, <2>2 DEF Lease, Leased, DispatchRecord
  <2> QED
    BY <2>3, AloneFailsOver
<1> QED
  BY <1>1, PoolInitInv, PoolStepInv, PTL DEF PoolSpec, FailsOverToUntried

-----------------------------------------------------------------------------
(* InvoiceDraft: sums.                                                     *)

\* The element that a sum takes next.
NextIndex(T) == CHOOSE x \in T : TRUE

\* q sums f over every set of its indices.
IsSums(q, f) ==
  q = [T \in SUBSET DOMAIN f |-> IF T = {} THEN 0 ELSE f[NextIndex(T)] + q[T \ {NextIndex(T)}]]

LEMMA SumIsSums ==
  ASSUME NEW f, NEW q, IsSums(q, f)
  PROVE  \E sums : IsSums(sums, f) /\ SumFunction(f) = sums[DOMAIN f]
<1> DEFINE sums == CHOOSE s : s = [T \in SUBSET DOMAIN f |->
                                    IF T = {} THEN 0
                                    ELSE f[CHOOSE x \in T : TRUE] + s[T \ {CHOOSE x \in T : TRUE}]]
<1>1. SumFunction(f) = sums[DOMAIN f]
  BY Zenon DEF SumFunction, SumFunctionOnSet, FoldFunctionOnSet, MapThenFoldSet
<1>2. IsSums(sums, f)
  BY Zenon DEF IsSums, NextIndex
<1> QED
  BY <1>1, <1>2, Zenon

LEMMA NextOneIsIn ==
  ASSUME NEW T, T # {}
  PROVE  NextIndex(T) \in T
BY DEF NextIndex

\* What holds of no indices, and of more whenever it holds without the next one, holds of
\* all of them.
LEMMA ByRemoval ==
  ASSUME NEW D, IsFiniteSet(D), NEW G, {} \in G,
         \A T \in SUBSET D : T # {} /\ T \ {NextIndex(T)} \in G => T \in G
  PROVE  \A T \in SUBSET D : T \in G
<1> DEFINE bad == {n \in Nat : \E T \in SUBSET D : T \notin G /\ Cardinality(T) = n}
<1>1. SUFFICES ASSUME NEW B \in SUBSET D, B \notin G PROVE FALSE
  OBVIOUS
<1>2. \A T \in SUBSET D : IsFiniteSet(T) /\ Cardinality(T) \in Nat
  BY FS_Subset, FS_CardinalityType
<1>3. Cardinality(B) \in bad
  BY <1>1, <1>2
<1>4. PICK m \in bad : \A n \in bad : m <= n
  BY <1>3, LeastOne
<1>5. PICK T \in SUBSET D : T \notin G /\ Cardinality(T) = m
  BY <1>4
<1>6. T # {} /\ NextIndex(T) \in T
  BY <1>5, NextOneIsIn
<1>7. Cardinality(T \ {NextIndex(T)}) = m - 1
  BY <1>2, <1>5, <1>6, FS_RemoveElement
<1>8. T \ {NextIndex(T)} \in G
  <2>1. m - 1 \in Nat /\ ~(m <= m - 1)
    BY <1>2, <1>4, <1>5, <1>6, <1>7
  <2> QED
    BY <1>4, <1>7, <2>1
<1> QED
  BY <1>5, <1>6, <1>8

\* g sums f over the sets of at most n indices.
SumsUpTo(g, f, n) ==
  /\ g \in [SUBSET DOMAIN f -> Int]
  /\ g[{}] = 0
  /\ \A T \in SUBSET DOMAIN f :
       T # {} /\ Cardinality(T) <= n => g[T] = f[NextIndex(T)] + g[T \ {NextIndex(T)}]

LEMMA SumsExist ==
  ASSUME NEW D, IsFiniteSet(D), NEW f \in [D -> Int]
  PROVE  \E q : IsSums(q, f)
<1> DEFINE bad == {n \in Nat : \A g \in [SUBSET D -> Int] : ~SumsUpTo(g, f, n)}
<1>1. \A T \in SUBSET D : IsFiniteSet(T) /\ Cardinality(T) \in Nat
  BY FS_Subset, FS_CardinalityType
<1>2. \A T \in SUBSET D : T # {} => /\ NextIndex(T) \in T
                                    /\ T \ {NextIndex(T)} \in SUBSET D
                                    /\ Cardinality(T \ {NextIndex(T)}) = Cardinality(T) - 1
                                    /\ f[NextIndex(T)] \in Int
  BY <1>1, NextOneIsIn, FS_RemoveElement
<1>3. bad = {}
  <2>1. SUFFICES ASSUME bad # {} PROVE FALSE
    OBVIOUS
  <2>2. PICK m \in bad : \A n \in bad : m <= n
    BY <2>1, LeastOne
  <2>3. m # 0
    <3> DEFINE g == [T \in SUBSET D |-> 0]
    <3>1. \A T \in SUBSET D : T # {} => ~(Cardinality(T) <= 0)
      BY <1>1, FS_EmptySet
    <3>2. g \in [SUBSET D -> Int] /\ SumsUpTo(g, f, 0)
      BY <3>1 DEF SumsUpTo
    <3> QED
      BY <2>2, <3>2
  <2>4. PICK h \in [SUBSET D -> Int] : SumsUpTo(h, f, m - 1)
    <3>1. m - 1 \in Nat /\ ~(m <= m - 1)
      BY <2>2, <2>3
    <3> QED
      BY <2>2, <3>1
  <2> DEFINE g == [T \in SUBSET D |-> IF Cardinality(T) = m THEN f[NextIndex(T)] + h[T \ {NextIndex(T)}]
                                                            ELSE h[T]]
  <2>5. g[{}] = 0
    BY <2>3, <2>4, FS_EmptySet DEF SumsUpTo
  <2>6. g \in [SUBSET D -> Int]
    <3>1. ASSUME NEW T \in SUBSET D PROVE g[T] \in Int
      <4>1. CASE Cardinality(T) = m
        <5>1. T # {}
          BY <2>3, <4>1, FS_EmptySet
        <5> QED
          BY <1>2, <4>1, <5>1
      <4>2. CASE Cardinality(T) # m
        BY <4>2
      <4> QED
        BY <4>1, <4>2
    <3> QED
      BY <3>1
  <2>7. ASSUME NEW T \in SUBSET D, T # {}, Cardinality(T) <= m
        PROVE  g[T] = f[NextIndex(T)] + g[T \ {NextIndex(T)}]
    <3>1. Cardinality(T \ {NextIndex(T)}) # m /\ T \ {NextIndex(T)} \in SUBSET D
      BY <1>1, <1>2, <2>2, <2>7
    <3>2. g[T \ {NextIndex(T)}] = h[T \ {NextIndex(T)}]
      BY <3>1
    <3>3. CASE Cardinality(T) = m
      BY <3>2, <3>3
    <3>4. CASE Cardinality(T) # m
      <4>1. Cardinality(T) <= m - 1
        BY <1>1, <2>2, <2>7, <3>4
      <4> QED
        BY <2>4, <2>7, <3>2, <3>4, <4>1 DEF SumsUpTo
    <3> QED
      BY <3>3, <3>4
  <2>8. SumsUpTo(g, f, m)
    <3> HIDE DEF g
    <3> QED
      BY <2>5, <2>6, <2>7 DEF SumsUpTo
  <2> QED
    BY <2>2, <2>6, <2>8
<1>4. PICK g \in [SUBSET D -> Int] : SumsUpTo(g, f, Cardinality(D))
  BY <1>1, <1>3
<1>5. \A T \in SUBSET D : g[T] = IF T = {} THEN 0 ELSE f[NextIndex(T)] + g[T \ {NextIndex(T)}]
  BY <1>4, FS_Subset DEF SumsUpTo
<1>6. IsSums(g, f)
  <2>1. g = [T \in SUBSET D |-> g[T]]
    OBVIOUS
  <2> QED
    BY <1>5, <2>1 DEF IsSums
<1> QED
  BY <1>6

\* q are the sums of f on the way to that over D.
Subtotals(q, f, D) ==
  /\ q \in [SUBSET D -> Int]
  /\ SumFunction(f) = q[D]
  /\ q[{}] = 0
  /\ \A T \in SUBSET D : T # {} => q[T] = f[NextIndex(T)] + q[T \ {NextIndex(T)}]

\* A sum over a finite set takes one index at a time.
LEMMA SumUnfolds ==
  ASSUME NEW D, IsFiniteSet(D), NEW f \in [D -> Int]
  PROVE  \E q : Subtotals(q, f, D)
<1>1. PICK q : IsSums(q, f) /\ SumFunction(f) = q[DOMAIN f]
  BY SumsExist, SumIsSums
<1>2. DOMAIN q = SUBSET D /\ q = [T \in SUBSET D |-> q[T]]
  BY <1>1 DEF IsSums
<1>3. \A T \in SUBSET D : q[T] = IF T = {} THEN 0 ELSE f[NextIndex(T)] + q[T \ {NextIndex(T)}]
  BY <1>1 DEF IsSums
<1>4. \A T \in SUBSET D : T \in {U \in SUBSET D : q[U] \in Int}
  <2> DEFINE G == {U \in SUBSET D : q[U] \in Int}
  <2>1. {} \in G
    BY <1>3
  <2>2. ASSUME NEW T \in SUBSET D, T # {} /\ T \ {NextIndex(T)} \in G PROVE T \in G
    BY <1>3, <2>2, NextOneIsIn
  <2> HIDE DEF G
  <2>3. \A T \in SUBSET D : T \in G
    BY <2>1, <2>2, ByRemoval
  <2> QED
    BY <2>3 DEF G
<1>5. q \in [SUBSET D -> Int]
  BY <1>2, <1>4
<1>6. {} \in SUBSET D /\ q[{}] = 0
  BY <1>3
<1> QED
  BY <1>1, <1>3, <1>5, <1>6 DEF Subtotals

LEMMA SumIsInt ==
  ASSUME NEW D, IsFiniteSet(D), NEW f \in [D -> Int]
  PROVE  SumFunction(f) \in Int
<1>1. PICK q : Subtotals(q, f, D)
  BY SumUnfolds
<1> QED
  BY <1>1 DEF Subtotals

\* h is f and g added index by index.
Adds(h, f, g, D) ==
  /\ h \in [D -> Int] /\ f \in [D -> Int] /\ g \in [D -> Int]
  /\ \A x \in D : h[x] = f[x] + g[x]

LEMMA SumAdds ==
  ASSUME NEW D, NEW f, NEW g, NEW h, IsFiniteSet(D), Adds(h, f, g, D)
  PROVE  SumFunction(h) = SumFunction(f) + SumFunction(g)
<1>0. /\ h \in [D -> Int] /\ f \in [D -> Int] /\ g \in [D -> Int]
      /\ \A x \in D : h[x] = f[x] + g[x]
  BY DEF Adds
<1>1. PICK q : Subtotals(q, f, D)
  BY <1>0, SumUnfolds
<1>2. PICK r : Subtotals(r, g, D)
  BY <1>0, SumUnfolds
<1>3. PICK s : Subtotals(s, h, D)
  BY <1>0, SumUnfolds
<1> DEFINE G == {T \in SUBSET D : s[T] = q[T] + r[T]}
<1>4. {} \in G
  BY <1>1, <1>2, <1>3 DEF Subtotals
<1>5. ASSUME NEW T \in SUBSET D, T # {} /\ T \ {NextIndex(T)} \in G PROVE T \in G
  <2>1. NextIndex(T) \in D /\ T \ {NextIndex(T)} \in SUBSET D
    BY <1>5, NextOneIsIn
  <2>2. s[T \ {NextIndex(T)}] = q[T \ {NextIndex(T)}] + r[T \ {NextIndex(T)}]
    BY <1>5
  <2> HIDE DEF G
  <2>3. /\ f[NextIndex(T)] \in Int /\ g[NextIndex(T)] \in Int
        /\ q[T \ {NextIndex(T)}] \in Int /\ r[T \ {NextIndex(T)}] \in Int
    BY <1>0, <1>1, <1>2, <2>1 DEF Subtotals
  <2>4. /\ q[T] = f[NextIndex(T)] + q[T \ {NextIndex(T)}]
        /\ r[T] = g[NextIndex(T)] + r[T \ {NextIndex(T)}]
        /\ s[T] = h[NextIndex(T)] + s[T \ {NextIndex(T)}]
    BY <1>1, <1>2, <1>3, <1>5 DEF Subtotals
  <2>5. h[NextIndex(T)] = f[NextIndex(T)] + g[NextIndex(T)]
    BY <1>0, <2>1
  <2>6. s[T] = q[T] + r[T]
    BY <2>2, <2>3, <2>4, <2>5
  <2> QED
    BY <2>6 DEF G
<1> HIDE DEF G
<1>6. D \in G
  BY <1>4, <1>5, ByRemoval
<1> QED
  BY <1>1, <1>2, <1>3, <1>6 DEF G, Subtotals

\* The sum of a function that is v at one index and nothing elsewhere.
LEMMA SumOfOne ==
  ASSUME NEW D, IsFiniteSet(D), NEW a \in D, NEW v \in Int, NEW f \in [D -> Int],
         \A x \in D : f[x] = IF x = a THEN v ELSE 0
  PROVE  SumFunction(f) = v
<1>1. PICK q : Subtotals(q, f, D)
  BY SumUnfolds
<1> DEFINE G == {T \in SUBSET D : q[T] = IF a \in T THEN v ELSE 0}
<1>2. {} \in G
  BY <1>1 DEF Subtotals
<1>3. ASSUME NEW T \in SUBSET D, T # {} /\ T \ {NextIndex(T)} \in G PROVE T \in G
  <2>1. NextIndex(T) \in T /\ T \ {NextIndex(T)} \in SUBSET D
    BY <1>3, NextOneIsIn
  <2>2. q[T \ {NextIndex(T)}] = IF a \in T \ {NextIndex(T)} THEN v ELSE 0
    BY <1>3
  <2>3. q[T] = f[NextIndex(T)] + q[T \ {NextIndex(T)}]
    BY <1>1, <1>3 DEF Subtotals
  <2>4. f[NextIndex(T)] = IF NextIndex(T) = a THEN v ELSE 0
    BY <2>1
  <2>5. q[T] = IF a \in T THEN v ELSE 0
    BY <2>1, <2>2, <2>3, <2>4
  <2> QED
    BY <2>5
<1> HIDE DEF G
<1>4. D \in G
  BY <1>2, <1>3, ByRemoval
<1> QED
  BY <1>1, <1>4 DEF G, Subtotals

LEMMA SumOfNothing ==
  ASSUME NEW D, IsFiniteSet(D), NEW f \in [D -> Int], \A x \in D : f[x] = 0
  PROVE  SumFunction(f) = 0
<1>1. CASE D = {}
  <2>1. PICK q : Subtotals(q, f, D)
    BY SumUnfolds
  <2> QED
    BY <1>1, <2>1 DEF Subtotals
<1>2. CASE D # {}
  <2>1. PICK a \in D : TRUE
    BY <1>2
  <2>2. \A x \in D : f[x] = IF x = a THEN 0 ELSE 0
    OBVIOUS
  <2> QED
    BY <2>1, <2>2, SumOfOne
<1> QED
  BY <1>1, <1>2

-----------------------------------------------------------------------------
(* InvoiceDraft: the draft.                                                *)

LEMMA FigureTypes ==
  ASSUME NEW a \in Figure
  PROVE  /\ OrNothing(a) \in Int
         /\ a # {} => Stated(a) \in Int /\ Stated(a) \in a /\ a = {Stated(a)} /\ OrNothing(a) = Stated(a)
<1>1. a \subseteq Int /\ \A x, y \in a : x = y
  BY DEF Figure
<1>2. CASE a = {}
  BY <1>2 DEF OrNothing
<1>3. CASE a # {}
  <2>1. Stated(a) \in a
    BY <1>3 DEF Stated
  <2> QED
    BY <1>1, <1>3, <2>1 DEF OrNothing
<1> QED
  BY <1>2, <1>3

LEMMA ElementIn ==
  ASSUME NEW S, NEW s \in Seq(S), NEW i \in DOMAIN s
  PROVE  s[i] \in S
OBVIOUS

\* The sequences of an invoice, and the amounts in them.
LEMMA InvoiceTypes ==
  ASSUME NEW p \in Draftable
  PROVE  /\ DOMAIN p.lines = 1 .. Len(p.lines) /\ Len(p.lines) \in Nat /\ IsFiniteSet(DOMAIN p.lines)
         /\ IsFiniteSet(DOMAIN p.vat)
         /\ p.lines = <<>> <=> Len(p.lines) = 0
         /\ \A i \in DOMAIN p.lines : p.lines[i].taxable \in Figure /\ p.lines[i].gross \in Figure
         /\ \A i \in DOMAIN p.vat : p.vat[i].base \in Figure /\ p.vat[i].tax \in Figure
         /\ p.payable \in Figure /\ p.goods \in Figure /\ p.allowance \in Figure
<1>1. /\ p.lines \in Seq([taxable : Figure, gross : Figure])
      /\ p.vat \in Seq([base : Figure, tax : Figure])
      /\ {p.payable, p.goods, p.allowance} \subseteq Figure
  BY DraftAssumption, Zenon
<1>2. /\ DOMAIN p.lines = 1 .. Len(p.lines) /\ Len(p.lines) \in Nat
      /\ DOMAIN p.vat = 1 .. Len(p.vat) /\ Len(p.vat) \in Nat
  BY <1>1
<1>3. p.lines = <<>> <=> Len(p.lines) = 0
  BY <1>1
<1>4. /\ \A i \in DOMAIN p.lines : p.lines[i] \in [taxable : Figure, gross : Figure]
      /\ \A i \in DOMAIN p.vat : p.vat[i] \in [base : Figure, tax : Figure]
  BY <1>1, <1>2, ElementIn
<1>5. IsFiniteSet(DOMAIN p.lines) /\ IsFiniteSet(DOMAIN p.vat)
  BY <1>2, FS_Interval
<1> QED
  BY <1>1, <1>2, <1>3, <1>4, <1>5

\* The components of an invoice are finitely many, and each one has an effect or none known.
LEMMA PartTypes ==
  ASSUME NEW p \in Draftable
  PROVE  /\ IsFiniteSet(DOMAIN Parts(p))
         /\ \A i \in DOMAIN Parts(p) : /\ Parts(p)[i].amount \in Figure
                                       /\ Effect(Parts(p)[i]) \in {"increase", "reduce", "unknown"}
<1> DEFINE ok(c) == c.amount \in Figure /\ c.effect \in {"increase", "reduce", "unknown"}
           C == [section : {"tax", "monetary"}, kind : Kind, amount : Figure,
                 effect : {"increase", "reduce", "unknown"},
                 inPayable : {"yes", "no", "unknown"}, inLines : {"yes", "no", "unknown"},
                 apart : BOOLEAN, represented : BOOLEAN]
           allowed == [section |-> "monetary", kind |-> "discount", amount |-> p.allowance,
                       effect |-> "reduce", inPayable |-> "unknown", inLines |-> "unknown",
                       apart |-> FALSE, represented |-> FALSE]
<1>1. /\ p.parts \in Seq(C)
      /\ p.allowance \in Figure
  BY DraftAssumption, Zenon
<1>2. \A c \in C : ok(c)
  BY Zenon
<1>3. allowed \in C
  BY <1>1, Zenon DEF Kind
<1>4. Parts(p) \in Seq(C)
  <2>1. Parts(p) = p.parts \/ Parts(p) = Append(p.parts, allowed)
    BY Zenon DEF Parts
  <2> HIDE DEF C, allowed
  <2> QED
    BY <1>1, <1>3, <2>1
<1> HIDE DEF C
<1>5. DOMAIN Parts(p) = 1 .. Len(Parts(p)) /\ Len(Parts(p)) \in Nat
  BY <1>4
<1>6. IsFiniteSet(DOMAIN Parts(p))
  BY <1>5, FS_Interval
<1>7. ASSUME NEW i \in DOMAIN Parts(p)
      PROVE  Parts(p)[i].amount \in Figure /\ Effect(Parts(p)[i]) \in {"increase", "reduce", "unknown"}
  <2>1. ok(Parts(p)[i])
    BY <1>2, <1>4, <1>5
  <2> QED
    BY <2>1, Zenon DEF Effect
<1> QED
  BY <1>6, <1>7

\* The sums of the lines and of the bases, and the baseline that is made of them.
LEMMA BaselineIsInt ==
  ASSUME NEW p \in Draftable
  PROVE  /\ SumStated(p.lines, Taxable) \in Int /\ SumStated(p.vat, Base) \in Int
         /\ SumStated(p.lines, Visible) \in Int
         /\ Baseline(p).total \in Int
         /\ Tolerance(p) \in Nat
<1>1. SumStated(p.lines, Taxable) \in Int
  <2>1. [i \in DOMAIN p.lines |-> OrNothing(Taxable(p.lines[i]))] \in [DOMAIN p.lines -> Int]
    BY InvoiceTypes, FigureTypes DEF Taxable
  <2> QED
    BY <2>1, InvoiceTypes, SumIsInt DEF SumStated
<1>2. SumStated(p.vat, Base) \in Int
  <2>1. [i \in DOMAIN p.vat |-> OrNothing(Base(p.vat[i]))] \in [DOMAIN p.vat -> Int]
    BY InvoiceTypes, FigureTypes DEF Base
  <2> QED
    BY <2>1, InvoiceTypes, SumIsInt DEF SumStated
<1>3. SumStated(p.lines, Visible) \in Int
  <2>1. \A i \in DOMAIN p.lines : Visible(p.lines[i]) \in Figure
    BY InvoiceTypes DEF Visible
  <2>2. [i \in DOMAIN p.lines |-> OrNothing(Visible(p.lines[i]))] \in [DOMAIN p.lines -> Int]
    BY <2>1, FigureTypes
  <2> QED
    BY <2>2, InvoiceTypes, SumIsInt DEF SumStated
<1>4. p.goods # {} => Stated(p.goods) \in Int
  BY InvoiceTypes, FigureTypes
<1> DEFINE lines == SumStated(p.lines, Taxable)
           bases == SumStated(p.vat, Base)
<1>5. Baseline(p).total \in {lines, bases} \/ (p.goods # {} /\ Baseline(p).total = Stated(p.goods))
  BY Zenon DEF Baseline
<1>6. Tolerance(p) \in Nat
  BY InvoiceTypes DEF Tolerance
<1> QED
  BY <1>1, <1>2, <1>3, <1>4, <1>5, <1>6

\* When every line states its amount, the lines are allocated: what the baseline adds to
\* them is within the tolerance.
LEMMA StatedIsAllocated ==
  ASSUME NEW p \in Draftable, AllStated(p.lines, Taxable)
  PROVE  Allocated(p)
<1> DEFINE lines == SumStated(p.lines, Taxable)
           bases == SumStated(p.vat, Base)
           based == p.vat # <<>> /\ AllStated(p.vat, Base)
<1>1. Baseline(p) = [total    |-> IF based /\ Magnitude(lines - bases) <= Tolerance(p)
                                  THEN bases ELSE lines,
                     complete |-> TRUE]
  BY Zenon DEF Baseline
<1>2. lines \in Int /\ bases \in Int /\ Tolerance(p) \in Nat
  BY BaselineIsInt
<1>3. AllStated(p.lines, Visible) /\ SumStated(p.lines, Visible) = lines
  <2>1. \A i \in DOMAIN p.lines : Visible(p.lines[i]) = Taxable(p.lines[i])
    BY DEF AllStated, Taxable, Visible
  <2>2. [i \in DOMAIN p.lines |-> OrNothing(Taxable(p.lines[i]))]
        = [i \in DOMAIN p.lines |-> OrNothing(Visible(p.lines[i]))]
    BY <2>1
  <2>3. AllStated(p.lines, Visible)
    BY <2>1, Zenon DEF AllStated
  <2> QED
    BY <2>2, <2>3, Zenon DEF SumStated
<1> HIDE DEF lines, bases, based
<1>4. Baseline(p).complete
  BY <1>1
<1>5. \/ Baseline(p).total = lines
      \/ Baseline(p).total = bases /\ Magnitude(lines - bases) <= Tolerance(p)
  BY <1>1
<1>6. Magnitude(Baseline(p).total - lines) <= Tolerance(p)
  BY <1>2, <1>5 DEF Magnitude
<1> QED
  BY <1>3, <1>4, <1>6 DEF Allocated, Rest

\* Allocated lines are posted with an amount each, and together they are the baseline: the
\* rest goes to the last one.
LEMMA PostingIsBaseline ==
  ASSUME NEW p \in Draftable, Allocated(p),
         p.lines = <<>> => Baseline(p).total = 0
  PROVE  /\ \A i \in DOMAIN p.lines : Posting(p)[i] \in Figure /\ Posting(p)[i] # {}
         /\ SumFunction([i \in DOMAIN p.lines |-> OrNothing(Posting(p)[i])]) = Baseline(p).total
<1> DEFINE D == DOMAIN p.lines
           last == Len(p.lines)
           taken == [i \in D |-> OrNothing(Visible(p.lines[i]))]
           rest == Rest(p)
           point == [i \in D |-> IF i = last THEN rest ELSE 0]
           posted == [i \in D |-> OrNothing(Posting(p)[i])]
<1>1. \A i \in D : Visible(p.lines[i]) \in Figure /\ Visible(p.lines[i]) # {}
  <2>1. \A i \in D : Visible(p.lines[i]) \in Figure
    BY InvoiceTypes DEF Visible
  <2>2. \A i \in D : Visible(p.lines[i]) # {}
    BY DEF Allocated, AllStated
  <2> QED
    BY <2>1, <2>2
<1>2. rest \in Int /\ rest = Baseline(p).total - SumFunction(taken)
  <2>1. SumStated(p.lines, Visible) = SumFunction(taken)
    BY Zenon DEF SumStated
  <2> HIDE DEF taken
  <2> QED
    BY <2>1, BaselineIsInt DEF Rest
<1>3. SumFunction(taken) \in Int
  <2>1. SumStated(p.lines, Visible) = SumFunction(taken)
    BY Zenon DEF SumStated
  <2> HIDE DEF taken
  <2> QED
    BY <2>1, BaselineIsInt
<1>5. Posting(p) = [i \in D |-> {x + (IF i = last THEN rest ELSE 0) : x \in Visible(p.lines[i])}]
  BY Zenon DEF Posting
<1> HIDE DEF rest
<1>6. ASSUME NEW i \in D
      PROVE  /\ Posting(p)[i] \in Figure /\ Posting(p)[i] # {}
             /\ posted[i] = taken[i] + point[i]
             /\ posted[i] \in Int /\ taken[i] \in Int /\ point[i] \in Int
  <2> DEFINE v == Stated(Visible(p.lines[i]))
             w == IF i = last THEN rest ELSE 0
  <2>1. v \in Int /\ w \in Int /\ Visible(p.lines[i]) = {v} /\ taken[i] = v /\ point[i] = w
    BY <1>1, <1>2, FigureTypes
  <2>2. Posting(p)[i] = {v + w}
    <3>1. Posting(p)[i] = {x + w : x \in {v}}
      BY <1>5, <2>1
    <3> QED
      BY <3>1
  <2> HIDE DEF v, w
  <2>3. Posting(p)[i] \in Figure /\ Posting(p)[i] # {}
    BY <2>1, <2>2 DEF Figure
  <2>4. OrNothing(Posting(p)[i]) = v + w
    BY <2>1, <2>2, <2>3, FigureTypes
  <2> QED
    BY <2>1, <2>3, <2>4
<1>7. taken \in [D -> Int] /\ point \in [D -> Int] /\ posted \in [D -> Int]
  BY <1>6
<1>8. Adds(posted, taken, point, D)
  <2>1. \A i \in D : posted[i] = taken[i] + point[i]
    BY <1>6
  <2> HIDE DEF taken, point, posted
  <2> QED
    BY <1>7, <2>1 DEF Adds
<1>9. SumFunction(posted) = SumFunction(taken) + SumFunction(point)
  <2>1. IsFiniteSet(D)
    BY InvoiceTypes
  <2> HIDE DEF D, taken, point, posted
  <2> QED
    BY <1>8, <2>1, SumAdds
<1>10. SumFunction(posted) = Baseline(p).total
  <2>1. CASE p.lines = <<>>
    <3>1. D = {} /\ Baseline(p).total = 0
      BY <2>1, InvoiceTypes
    <3>2. \A i \in D : posted[i] = 0
      BY <3>1
    <3> HIDE DEF posted
    <3> QED
      BY <1>7, <3>1, <3>2, InvoiceTypes, SumOfNothing
  <2>2. CASE p.lines # <<>>
    <3>1. last \in D
      BY <2>2, InvoiceTypes
    <3>2. \A i \in D : point[i] = IF i = last THEN rest ELSE 0
      OBVIOUS
    <3>3. SumFunction(point) = rest
      <4>1. rest \in Int /\ point \in [D -> Int] /\ IsFiniteSet(D)
        BY <1>2, <1>7, InvoiceTypes
      <4> HIDE DEF point, last, D
      <4> QED
        BY <3>1, <3>2, <4>1, SumOfOne
    <3> HIDE DEF taken, point, posted
    <3> QED
      BY <1>2, <1>3, <1>9, <3>3, BaselineIsInt
  <2> QED
    BY <2>1, <2>2
<1> QED
  BY <1>6, <1>10

LEMMA LineIsPosted ==
  ASSUME NEW p, NEW t, NEW i, NEW decision \in {"post", "increase", "untreated"},
         Legible(p, <<"line", i>>),
         t.posting[i] \in Figure, t.posting[i] # {}, \A x \in t.posting[i] : x >= 0
  PROVE  /\ PostedAmount(p, t, <<"line", i>>, decision, "increase") = OrNothing(t.posting[i])
         /\ PostedAmount(p, t, <<"line", i>>, decision, "reduce") = 0
<1> DEFINE f == <<"line", i>>
<1>1. f[1] = "line" /\ f[2] = i /\ Legible(p, f)
  OBVIOUS
<1> HIDE DEF f
<1>2. FactAmount(p, t, f) = t.posting[i] /\ FactEffect(p, f) = "increase"
  BY <1>1 DEF FactAmount, FactEffect
<1>3. PostedEffect(p, t, f, decision) = "increase"
  BY <1>1, <1>2 DEF PostedEffect
<1>4. Stated(t.posting[i]) \in t.posting[i] /\ Stated(t.posting[i]) \in Int
      /\ OrNothing(t.posting[i]) = Stated(t.posting[i])
  BY FigureTypes
<1>5. Magnitude(Stated(t.posting[i])) = OrNothing(t.posting[i])
  BY <1>4 DEF Magnitude
<1>6. /\ PostedAmount(p, t, f, decision, "increase") = OrNothing(t.posting[i])
      /\ PostedAmount(p, t, f, decision, "reduce") = 0
  BY <1>2, <1>3, <1>5 DEF PostedAmount
<1> QED
  BY <1>6 DEF f

LEMMA RateIsPosted ==
  ASSUME NEW p, NEW t, NEW i, NEW decision \in {"post", "increase", "untreated"},
         Legible(p, <<"vat", i>>),
         p.vat[i].tax \in Figure, p.vat[i].tax # {}, \A x \in p.vat[i].tax : x >= 0
  PROVE  /\ PostedAmount(p, t, <<"vat", i>>, decision, "increase") = OrNothing(p.vat[i].tax)
         /\ PostedAmount(p, t, <<"vat", i>>, decision, "reduce") = 0
<1> DEFINE f == <<"vat", i>>
           a == p.vat[i].tax
<1>1. f[1] = "vat" /\ f[2] = i /\ Legible(p, f)
  OBVIOUS
<1> HIDE DEF f
<1>2. FactAmount(p, t, f) = a /\ FactEffect(p, f) = "increase"
  BY <1>1 DEF FactAmount, FactEffect
<1>3. a # {}
  OBVIOUS
<1>4. Magnitude(Stated(a)) = OrNothing(a)
  <2>1. Stated(a) \in a /\ Stated(a) \in Int /\ OrNothing(a) = Stated(a)
    BY FigureTypes
  <2> QED
    BY <2>1 DEF Magnitude
<1> HIDE DEF a
<1>5. PostedEffect(p, t, f, decision) = "increase"
  BY <1>1, <1>2, <1>3 DEF PostedEffect
<1>6. /\ PostedAmount(p, t, f, decision, "increase") = OrNothing(a)
      /\ PostedAmount(p, t, f, decision, "reduce") = 0
  BY <1>2, <1>4, <1>5 DEF PostedAmount
<1> QED
  BY <1>6 DEF f, a

\* What a component adds to the payable.
PartSelected(p, modes, i) ==
  IF i \in Candidates(p) /\ modes[i] = "separate" THEN Signed(Parts(p)[i]) ELSE 0

LEMMA PartIsPosted ==
  ASSUME NEW p \in Draftable, NEW t, NEW i \in DOMAIN Parts(p),
         NEW decision \in {"post", Effect(Parts(p)[i])},
         Legible(p, <<"part", i>>) \/ Parts(p)[i].amount = {},
         \A x \in Parts(p)[i].amount : x >= 0
  PROVE  LET with == PostedAmount(p, t, <<"part", i>>, decision, "increase")
             against == PostedAmount(p, t, <<"part", i>>, decision, "reduce")
         IN /\ with \in Int /\ against \in Int /\ PartSelected(p, t.modes, i) \in Int
            /\ with = PartSelected(p, t.modes, i) + against
<1> DEFINE f == <<"part", i>>
           c == Parts(p)[i]
           m == Stated(c.amount)
<1>1. f[1] = "part" /\ f[2] = i /\ (Legible(p, f) \/ c.amount = {})
  OBVIOUS
<1> HIDE DEF f
<1>2. FactAmount(p, t, f) = c.amount /\ FactEffect(p, f) = Effect(c)
  BY <1>1 DEF FactAmount, FactEffect
<1>3. c.amount \in Figure /\ Effect(c) \in {"increase", "reduce", "unknown"}
  BY PartTypes
<1>4. c.amount # {} => m \in Int /\ Magnitude(m) = m
  <2>1. c.amount # {} => m \in c.amount /\ m \in Int
    BY <1>3, FigureTypes
  <2> QED
    BY <2>1 DEF Magnitude
<1>5. i \in Candidates(p) => c.amount # {} /\ Effect(c) # "unknown"
  BY DEF Candidates
<1>6. Signed(c) = IF Effect(c) = "reduce" THEN -Magnitude(m) ELSE Magnitude(m)
  BY DEF Signed
<1>7. decision = "post" \/ decision = Effect(c)
  OBVIOUS
<1>8. PartSelected(p, t.modes, i) = IF i \in Candidates(p) /\ t.modes[i] = "separate" THEN Signed(c) ELSE 0
  BY DEF PartSelected
<1> HIDE DEF c, m
<1>9. CASE i \in Candidates(p) /\ t.modes[i] = "separate"
  <2>1. PostedEffect(p, t, f, decision) = Effect(c)
    <3>1. decision \notin {"untreated", "represented"}
      BY <1>3, <1>7
    <3>2. decision \in {"increase", "reduce"} => decision = Effect(c)
      BY <1>7
    <3> QED
      BY <1>1, <1>2, <1>5, <1>9, <3>1, <3>2 DEF PostedEffect
  <2>2. PostedAmount(p, t, f, decision, "increase") = IF Effect(c) = "increase" THEN m ELSE 0
    BY <1>2, <1>4, <1>5, <1>9, <2>1 DEF PostedAmount, m
  <2>3. PostedAmount(p, t, f, decision, "reduce") = IF Effect(c) = "reduce" THEN m ELSE 0
    BY <1>2, <1>4, <1>5, <1>9, <2>1 DEF PostedAmount, m
  <2>4. PartSelected(p, t.modes, i) = IF Effect(c) = "reduce" THEN -m ELSE m
    BY <1>4, <1>5, <1>6, <1>8, <1>9
  <2> QED
    BY <1>3, <1>4, <1>5, <1>9, <2>2, <2>3, <2>4 DEF f
<1>10. CASE ~(i \in Candidates(p) /\ t.modes[i] = "separate")
  <2>1. PostedEffect(p, t, f, decision) = "none"
    BY <1>1, <1>10 DEF PostedEffect
  <2>2. PostedAmount(p, t, f, decision, "increase") = 0 /\ PostedAmount(p, t, f, decision, "reduce") = 0
    BY <2>1 DEF PostedAmount
  <2>3. PartSelected(p, t.modes, i) = 0
    BY <1>8, <1>10
  <2> QED
    BY <2>2, <2>3 DEF f
<1> QED
  BY <1>9, <1>10

\* The conditions under which an exactly reconciled invoice is drafted to the cent.
Drafted(p, t, d) ==
  /\ p \in Draftable
  /\ t = Reconciled(p) /\ t.status = "exact"
  /\ p.lines = <<>> => Baseline(p).total = 0
  /\ \A f \in AmountInvalid(p, t) : UnreadPart(p, f)
  /\ \A f \in Facts(p) : \A x \in FactAmount(p, t, f) : x >= 0
  /\ \A x \in p.payable : x >= 0
  /\ \A f \in Facts(p) :
       d[f] \in {"post", FactEffect(p, f)} \cup (IF f[1] = "part" THEN {} ELSE {"untreated"})

\* Exact is that the payable total is the baseline, the taxes and what is selected.
LEMMA ExactMeans ==
  ASSUME NEW p, NEW t, NEW d, Drafted(p, t, d)
  PROVE  /\ p.payable # {} /\ t.posting = Posting(p)
         /\ Stated(p.payable) - (Baseline(p).total + SumStated(p.vat, Tax)) - SelectedEffect(p, t.modes) = 0
         /\ Baseline(p).complete /\ AllStated(p.vat, Tax)
<1> DEFINE modes == IF p.payable = {} THEN Preferred(p)
                    ELSE Solved(p, Stated(p.payable) - Mandatory(p))
           status == IF p.payable = {} THEN "not_testable"
                     ELSE IF Fits(p, modes) THEN "exact" ELSE "partial"
<1>1. t = [modes |-> modes, status |-> status, posting |-> Posting(p)]
  BY Zenon DEF Drafted, Reconciled
<1> HIDE DEF modes
<1>2. t.modes = modes /\ t.posting = Posting(p) /\ status = "exact"
  <2>1. t.status = "exact"
    BY DEF Drafted
  <2> HIDE DEF status
  <2> QED
    BY <1>1, <2>1
<1>3. p.payable # {} /\ Fits(p, modes)
  BY <1>2
<1> QED
  BY <1>2, <1>3 DEF Fits, Residual, Mandatory

\* The draft reads the payable total, every line and rate, and every component that the
\* reconciliation could read; and the lines have been allocated.
LEMMA DraftedIsRead ==
  ASSUME NEW p, NEW t, NEW d, Drafted(p, t, d)
  PROVE  /\ PayableAmount(p) = p.payable
         /\ \A i \in DOMAIN p.lines : Legible(p, <<"line", i>>)
         /\ \A i \in DOMAIN p.vat : Legible(p, <<"vat", i>>)
         /\ \A i \in DOMAIN Parts(p) : Legible(p, <<"part", i>>) \/ Parts(p)[i].amount = {}
         /\ Allocated(p)
<1>1. \A f \in AmountInvalid(p, t) : f[1] = "part" /\ Parts(p)[f[2]].amount = {}
  BY DEF Drafted, UnreadPart
<1>2. ASSUME NEW f \in Facts(p), f[1] # "part" \/ Parts(p)[f[2]].amount # {}
      PROVE  Legible(p, f) /\ FactAmount(p, t, f) # {}
  <2>1. f \notin AmountInvalid(p, t)
    BY <1>1, <1>2
  <2>2. FactAmount(p, t, f) # {}
    BY <2>1 DEF AmountInvalid
  <2> QED
    BY <2>2 DEF FactAmount
<1>3. PayableAmount(p) # {}
  <2>1. Counterparty[1] # "part"
    BY DEF Counterparty
  <2>2. Counterparty \notin AmountInvalid(p, t)
    BY <1>1, <2>1
  <2> QED
    BY <2>2 DEF AmountInvalid
<1>4. PayableAmount(p) = p.payable
  BY <1>3 DEF PayableAmount
<1>5. ASSUME NEW i \in DOMAIN p.lines PROVE Legible(p, <<"line", i>>) /\ t.posting[i] # {}
  <2> DEFINE f == <<"line", i>>
  <2>1. f \in Facts(p) /\ f[1] = "line" /\ f[2] = i
    BY DEF Facts
  <2> HIDE DEF f
  <2>2. Legible(p, f) /\ FactAmount(p, t, f) # {}
    BY <1>2, <2>1
  <2>3. FactAmount(p, t, f) = t.posting[i]
    BY <2>1, <2>2 DEF FactAmount
  <2> QED
    BY <2>2, <2>3 DEF f
<1>6. ASSUME NEW i \in DOMAIN p.vat PROVE Legible(p, <<"vat", i>>)
  <2> DEFINE f == <<"vat", i>>
  <2>1. f \in Facts(p) /\ f[1] = "vat"
    BY DEF Facts
  <2> HIDE DEF f
  <2>2. Legible(p, f)
    BY <1>2, <2>1
  <2> QED
    BY <2>2 DEF f
<1>7. ASSUME NEW i \in DOMAIN Parts(p), Parts(p)[i].amount # {} PROVE Legible(p, <<"part", i>>)
  <2> DEFINE f == <<"part", i>>
  <2>1. f \in Facts(p) /\ f[2] = i
    BY DEF Facts
  <2> HIDE DEF f
  <2>2. Legible(p, f)
    BY <1>2, <1>7, <2>1
  <2> QED
    BY <2>2 DEF f
<1>8. Allocated(p)
  <2>1. SUFFICES ASSUME ~Allocated(p) PROVE FALSE
    OBVIOUS
  <2>2. Posting(p) = [i \in DOMAIN p.lines |-> Taxable(p.lines[i])]
    BY <2>1, Zenon DEF Posting
  <2>3. \A i \in DOMAIN p.lines : Taxable(p.lines[i]) # {}
    BY <1>5, <2>2, ExactMeans
  <2>4. AllStated(p.lines, Taxable)
    BY <2>3 DEF AllStated
  <2>5. p \in Draftable
    BY DEF Drafted
  <2> QED
    BY <2>1, <2>4, <2>5, StatedIsAllocated
<1> QED
  BY <1>4, <1>5, <1>6, <1>7, <1>8

\* The lines of the draft are the baseline, and all of them increase the payable.
LEMMA LinesArePosted ==
  ASSUME NEW p, NEW t, NEW d, Drafted(p, t, d)
  PROVE  LET of(effect) == SumFunction([i \in DOMAIN p.lines |->
                             PostedAmount(p, t, <<"line", i>>, d[<<"line", i>>], effect)])
         IN of("increase") = Baseline(p).total /\ of("reduce") = 0
<1> DEFINE D == DOMAIN p.lines
           with == [i \in D |-> PostedAmount(p, t, <<"line", i>>, d[<<"line", i>>], "increase")]
           against == [i \in D |-> PostedAmount(p, t, <<"line", i>>, d[<<"line", i>>], "reduce")]
<1>1. /\ p \in Draftable /\ Allocated(p)
      /\ p.lines = <<>> => Baseline(p).total = 0
  BY DraftedIsRead DEF Drafted
<1>2. /\ \A i \in D : t.posting[i] \in Figure /\ t.posting[i] # {}
      /\ SumFunction([i \in D |-> OrNothing(t.posting[i])]) = Baseline(p).total
  BY <1>1, ExactMeans, PostingIsBaseline, Zenon
<1>3. ASSUME NEW i \in D
      PROVE  with[i] = OrNothing(t.posting[i]) /\ against[i] = 0
  <2> DEFINE f == <<"line", i>>
  <2>1. f \in Facts(p) /\ f[1] = "line" /\ f[2] = i /\ Legible(p, f)
    BY DraftedIsRead DEF Facts
  <2> HIDE DEF f
  <2>2. FactAmount(p, t, f) = t.posting[i] /\ FactEffect(p, f) = "increase"
    BY <2>1 DEF FactAmount, FactEffect
  <2>3. d[f] \in {"post", "increase", "untreated"} /\ \A x \in t.posting[i] : x >= 0
    BY <2>1, <2>2 DEF Drafted
  <2> QED
    BY <1>2, <2>1, <2>3, LineIsPosted DEF f
<1>4. with = [i \in D |-> OrNothing(t.posting[i])]
  BY <1>3
<1>5. SumFunction(against) = 0
  <2>1. \A i \in D : against[i] = 0
    BY <1>3, Zenon
  <2>2. against = [i \in D |-> 0]
    BY <2>1, Zenon
  <2>3. IsFiniteSet(D)
    BY <1>1, InvoiceTypes
  <2> HIDE DEF against, D
  <2>4. against \in [D -> Int]
    BY <2>2
  <2> QED
    BY <2>1, <2>3, <2>4, SumOfNothing
<1> QED
  BY <1>2, <1>4, <1>5

LEMMA RatesArePosted ==
  ASSUME NEW p, NEW t, NEW d, Drafted(p, t, d)
  PROVE  LET of(effect) == SumFunction([i \in DOMAIN p.vat |->
                             PostedAmount(p, t, <<"vat", i>>, d[<<"vat", i>>], effect)])
         IN of("increase") = SumStated(p.vat, Tax) /\ of("reduce") = 0
<1> DEFINE D == DOMAIN p.vat
           with == [i \in D |-> PostedAmount(p, t, <<"vat", i>>, d[<<"vat", i>>], "increase")]
           against == [i \in D |-> PostedAmount(p, t, <<"vat", i>>, d[<<"vat", i>>], "reduce")]
<1>1. p \in Draftable /\ AllStated(p.vat, Tax)
  BY ExactMeans DEF Drafted
<1>2. \A i \in D : p.vat[i].tax \in Figure /\ p.vat[i].tax # {}
  BY <1>1, InvoiceTypes DEF AllStated, Tax
<1>3. ASSUME NEW i \in D
      PROVE  with[i] = OrNothing(p.vat[i].tax) /\ against[i] = 0
  <2> DEFINE f == <<"vat", i>>
  <2>1. f \in Facts(p) /\ f[1] = "vat" /\ f[2] = i /\ Legible(p, f)
    BY DraftedIsRead DEF Facts
  <2> HIDE DEF f
  <2>2. FactAmount(p, t, f) = p.vat[i].tax /\ FactEffect(p, f) = "increase"
    BY <2>1 DEF FactAmount, FactEffect
  <2>3. d[f] \in {"post", "increase", "untreated"} /\ \A x \in p.vat[i].tax : x >= 0
    BY <2>1, <2>2 DEF Drafted
  <2> QED
    BY <1>2, <2>1, <2>3, RateIsPosted DEF f
<1>4. with = [i \in D |-> OrNothing(Tax(p.vat[i]))]
  BY <1>3 DEF Tax
<1>5. SumFunction(with) = SumStated(p.vat, Tax)
  BY <1>4, Zenon DEF SumStated
<1>6. SumFunction(against) = 0
  <2>1. \A i \in D : against[i] = 0
    BY <1>3, Zenon
  <2>2. against = [i \in D |-> 0]
    BY <2>1, Zenon
  <2>3. IsFiniteSet(D)
    BY <1>1, InvoiceTypes
  <2> HIDE DEF against, D
  <2>4. against \in [D -> Int]
    BY <2>2
  <2> QED
    BY <2>1, <2>3, <2>4, SumOfNothing
<1> QED
  BY <1>5, <1>6

\* The components that increase the payable are posted with what is selected and with what
\* the components that reduce it are posted with.
LEMMA PartsArePosted ==
  ASSUME NEW p, NEW t, NEW d, Drafted(p, t, d)
  PROVE  LET of(effect) == SumFunction([i \in DOMAIN Parts(p) |->
                             PostedAmount(p, t, <<"part", i>>, d[<<"part", i>>], effect)])
         IN /\ of("increase") = SelectedEffect(p, t.modes) + of("reduce")
            /\ SelectedEffect(p, t.modes) \in Int /\ of("reduce") \in Int
<1> DEFINE D == DOMAIN Parts(p)
           with == [i \in D |-> PostedAmount(p, t, <<"part", i>>, d[<<"part", i>>], "increase")]
           against == [i \in D |-> PostedAmount(p, t, <<"part", i>>, d[<<"part", i>>], "reduce")]
           chosen == [i \in D |-> PartSelected(p, t.modes, i)]
<1>1. p \in Draftable /\ IsFiniteSet(D)
  BY PartTypes DEF Drafted
<1>2. ASSUME NEW i \in D
      PROVE  /\ with[i] \in Int /\ against[i] \in Int /\ chosen[i] \in Int
             /\ with[i] = chosen[i] + against[i]
  <2> DEFINE f == <<"part", i>>
  <2>1. /\ f \in Facts(p) /\ f[1] = "part" /\ f[2] = i
        /\ Legible(p, f) \/ Parts(p)[i].amount = {}
    BY DraftedIsRead DEF Facts
  <2> HIDE DEF f
  <2>2. FactAmount(p, t, f) = Parts(p)[i].amount /\ FactEffect(p, f) = Effect(Parts(p)[i])
    BY <2>1 DEF FactAmount, FactEffect
  <2>3. d[f] \in {"post", Effect(Parts(p)[i])} /\ \A x \in Parts(p)[i].amount : x >= 0
    BY <2>1, <2>2 DEF Drafted
  <2> QED
    BY <1>1, <2>1, <2>3, PartIsPosted DEF f
<1>3. Adds(with, chosen, against, D) /\ chosen \in [D -> Int] /\ against \in [D -> Int]
  <2>1. \A i \in D : /\ with[i] \in Int /\ against[i] \in Int /\ chosen[i] \in Int
                     /\ with[i] = chosen[i] + against[i]
    BY <1>2
  <2>2. with \in [D -> Int] /\ against \in [D -> Int] /\ chosen \in [D -> Int]
    BY <2>1
  <2> HIDE DEF with, against, chosen
  <2> QED
    BY <2>1, <2>2 DEF Adds
<1>4. SelectedEffect(p, t.modes) = SumFunction(chosen)
  BY Zenon DEF SelectedEffect, PartSelected
<1>5. SumFunction(with) = SumFunction(chosen) + SumFunction(against)
  <2> HIDE DEF with, against, chosen, D
  <2> QED
    BY <1>1, <1>3, SumAdds
<1>6. SumFunction(chosen) \in Int /\ SumFunction(against) \in Int
  <2> HIDE DEF with, against, chosen, D
  <2> QED
    BY <1>1, <1>3, SumIsInt
<1> QED
  BY <1>4, <1>5, <1>6

LEMMA DraftIsBalanced ==
  ASSUME NEW p, NEW t, NEW d, Drafted(p, t, d)
  PROVE  Posted(p, t, d, "increase") = Posted(p, t, d, "reduce") + Payable(p)
<1> DEFINE of(kind, s, effect) ==
             SumFunction([i \in DOMAIN s |-> PostedAmount(p, t, <<kind, i>>, d[<<kind, i>>], effect)])
<1>1. \A effect \in {"increase", "reduce"} :
        Posted(p, t, d, effect) = of("line", p.lines, effect) + of("vat", p.vat, effect)
                                  + of("part", Parts(p), effect)
  BY Zenon DEF Posted
<1>2. /\ of("line", p.lines, "increase") = Baseline(p).total
      /\ of("line", p.lines, "reduce") = 0
  BY LinesArePosted
<1>3. /\ of("vat", p.vat, "increase") = SumStated(p.vat, Tax)
      /\ of("vat", p.vat, "reduce") = 0
  BY RatesArePosted
<1>4. /\ of("part", Parts(p), "increase") = SelectedEffect(p, t.modes) + of("part", Parts(p), "reduce")
      /\ SelectedEffect(p, t.modes) \in Int /\ of("part", Parts(p), "reduce") \in Int
  BY PartsArePosted
<1> HIDE DEF of
<1>5. p.payable # {} /\ p.payable \in Figure /\ p \in Draftable
  BY ExactMeans, InvoiceTypes DEF Drafted
<1>6. Payable(p) = Stated(p.payable) /\ Stated(p.payable) \in Int
  <2>1. Stated(p.payable) \in p.payable /\ Stated(p.payable) \in Int
    BY <1>5, FigureTypes
  <2>2. PayableAmount(p) = p.payable
    BY DraftedIsRead
  <2> QED
    BY <1>5, <2>1, <2>2 DEF Payable, Magnitude, Drafted
<1>7. Baseline(p).total \in Int
  BY <1>5, BaselineIsInt
<1>8. SumStated(p.vat, Tax) \in Int
  <2>1. [i \in DOMAIN p.vat |-> OrNothing(Tax(p.vat[i]))] \in [DOMAIN p.vat -> Int]
    BY <1>5, InvoiceTypes, FigureTypes DEF Tax
  <2> QED
    BY <1>5, <2>1, InvoiceTypes, SumIsInt DEF SumStated
<1>9. Stated(p.payable) - (Baseline(p).total + SumStated(p.vat, Tax)) - SelectedEffect(p, t.modes) = 0
  BY ExactMeans
<1> QED
  BY <1>1, <1>2, <1>3, <1>4, <1>6, <1>7, <1>8, <1>9

-----------------------------------------------------------------------------
\* The topology is that of the invoice, and the draft is built from it under decisions
\* about every fact.
DraftInv ==
  /\ projection \in Draftable
  /\ topology \subseteq {Reconciled(projection)}
  /\ \A j \in journalDraft : \E d \in Proposals(Facts(projection)) :
       j = Built(projection, Reconciled(projection), d)

\* A draft is that of the invoice's own reconciliation, under decisions about every one of
\* its facts.
LEMMA DraftIsBuilt == DraftSpec => []DraftInv
<1>1. DraftInit => DraftInv
  BY DEF DraftInit, DraftInv
<1>2. DraftInv /\ [DraftNext]_draftVars => DraftInv'
  <2>1. SUFFICES ASSUME DraftInv, [DraftNext]_draftVars PROVE DraftInv'
    OBVIOUS
  <2>2. CASE ReconcileAmounts
    BY <2>1, <2>2 DEF ReconcileAmounts, DraftInv
  <2>3. ASSUME NEW d \in Proposals(Facts(projection)), BuildDraft(d) PROVE DraftInv'
    BY <2>1, <2>3 DEF BuildDraft, DraftInv
  <2>4. CASE UNCHANGED draftVars
    BY <2>1, <2>4 DEF draftVars, DraftInv
  <2> QED
    BY <2>1, <2>2, <2>3, <2>4 DEF DraftNext
<1> QED
  BY <1>1, <1>2, PTL DEF DraftSpec

LEMMA BuiltIsBalanced ==
  ASSUME DraftInv
  PROVE  ExactDraftBalances
<1>1. SUFFICES ASSUME NEW t \in topology, NEW j \in journalDraft,
                      t.status = "exact",
                      projection.lines = <<>> => Baseline(projection).total = 0,
                      \A f \in j.invalid : UnreadPart(projection, f),
                      \A f \in Facts(projection) : \A x \in FactAmount(projection, t, f) : x >= 0,
                      \A x \in projection.payable : x >= 0,
                      \A f \in DOMAIN j.decided : GoesAlong(f, j.decided[f])
               PROVE  j.debit = j.credit
  BY DEF ExactDraftBalances
<1>2. t = Reconciled(projection) /\ projection \in Draftable
  BY DEF DraftInv
<1>3. PICK d \in Proposals(Facts(projection)) : j = Built(projection, t, d)
  BY <1>2 DEF DraftInv
<1> DEFINE with == Posted(projection, t, d, "increase")
           against == Posted(projection, t, d, "reduce") + Payable(projection)
<1>4. /\ j.decided = d /\ j.invalid = AmountInvalid(projection, t)
      /\ j.debit = CASE projection.direction = "purchase" -> with
                     [] projection.direction = "sales" -> against [] OTHER -> 0
      /\ j.credit = CASE projection.direction = "purchase" -> against
                      [] projection.direction = "sales" -> with [] OTHER -> 0
  BY <1>3 DEF Built
<1>5. DOMAIN d = Facts(projection)
  BY <1>2, DraftAssumption
<1>6. Drafted(projection, t, d)
  BY <1>1, <1>2, <1>4, <1>5 DEF Drafted, GoesAlong
<1>7. with = against
  BY <1>6, DraftIsBalanced
<1> HIDE DEF with, against
<1> QED
  BY <1>4, <1>7

\* The draft of an exactly reconciled invoice balances, or warns of an amount that only the
\* reconciliation could read: for any lines, rates and components, of any amounts that are
\* not negative, and whatever the solver chooses
\* (monetary_reconciliation.py 52-300 and 568-584, journal_draft_builder.py 60-230 and 310-332).
THEOREM ExactBalances == DraftSpec => []ExactDraftBalances
BY DraftIsBuilt, BuiltIsBalanced, PTL
=============================================================================
