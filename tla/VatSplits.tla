------------------------------ MODULE VatSplits ------------------------------
(***************************************************************************)
(* The VAT of an invoice by rate, reconciled from its line table, its      *)
(* summary and its totals (_complete_summary_splits and _build_result of   *)
(* backend/app/domain/vat_splits.py), and the split of a gross amount      *)
(* (split_vat of backend/app/domain/journal_entries.py).                   *)
(*                                                                         *)
(* Amounts are whole cents.  A value that may be missing is the set of it, *)
(* empty when it is missing, so that a sum or difference with a missing    *)
(* operand is missing.  A rate is a whole percentage.                      *)
(***************************************************************************)
EXTENDS Integers

CONSTANTS
  Rate,        \* the rates that occur, among 0, 1, 8, 10, 18 and 20
  Evidence     \* the invoices to reconcile: records of lines, summary and totals

Cents == SUBSET Int    \* an amount, or none

ASSUME RateAssumption == Rate \subseteq {0, 1, 8, 10, 18, 20}

ASSUME EvidenceAssumption ==
  \A e \in Evidence :
    /\ {e.lines, e.summary} \subseteq [Rate -> [taxable : Cents, tax : Cents]]
    /\ e.totals \in [payable : Cents, inclusive : Cents, taxable : Cents,
                    goods : Cents, exempt : Cents]

VARIABLES evidence, outcome

vatVars == <<evidence, outcome>>

-----------------------------------------------------------------------------
(* Rounding and missing values.                                            *)

\* n / d in whole units, halves away from zero (ROUND_HALF_UP)
HalfUp(n, d) == IF n < 0 THEN -((d - 2 * n) \div (2 * d)) ELSE (2 * n + d) \div (2 * d)

ExpectedTax(rate, taxable) == HalfUp(taxable * rate, 100)

WithinCent(a, b) == a - b \in -1 .. 1

Net(total, rate) == HalfUp(total * 100, 100 + rate)

\* split_vat
SplitVat(total, rate) == [net |-> Net(total, rate), vat |-> total - Net(total, rate)]

Minus(a, b) == {x - y : x \in a, y \in b}

\* Python's "a or b": a missing amount, or an amount of zero, gives way
Or(a, b) == IF a \subseteq {0} THEN b ELSE a

Default(v, field, amount) == IF v[field] = {} THEN [v EXCEPT ![field] = amount] ELSE v

Blank == [taxable |-> {}, tax |-> {}]

Amount(a) == CHOOSE x \in a : TRUE

\* The sum over a set of rates
OverRates(S, amount(_)) ==
  LET Part(r) == IF r \in S THEN amount(r) ELSE 0
  IN Part(0) + Part(1) + Part(8) + Part(10) + Part(18) + Part(20)

Whole(v) == v.taxable # {} /\ v.tax # {}

\* _values_validate
Validates(rate, v) == \E x \in v.taxable, y \in v.tax : WithinCent(ExpectedTax(rate, x), y)

-----------------------------------------------------------------------------
(* _complete_summary_splits: the summary of every rate, filled from what   *)
(* the lines and the totals say.                                           *)

Rates(e) == {r \in Rate : e.lines[r] # Blank \/ e.summary[r] # Blank}

Gross(e) == Or(e.totals.payable, e.totals.inclusive)
Goods(e) == Or(e.totals.taxable, e.totals.goods)

\* An exempt total is the taxable amount of rate 0, and leaves the rest to the only other
\* rate
WithExempt(e) ==
  LET exempt == e.totals.exempt
      Alone(r) == Rates(e) = {0, r}
  IN IF exempt = {} \/ 0 \notin Rates(e)
     THEN e.summary
     ELSE [r \in Rate |->
             IF r = 0 THEN [taxable |-> exempt, tax |-> {0}]
             ELSE IF Alone(r) /\ Goods(e) # {}
             THEN [e.summary[r] EXCEPT !.taxable = Minus(Goods(e), exempt)]
             ELSE e.summary[r]]

\* Goods are taxed at the only rate the summary states a tax for
WithGoods(e, c) ==
  [r \in Rate |->
     IF \A q \in Rate : c[q].tax # {} <=> q = r
     THEN Default(c[r], "taxable", Goods(e)) ELSE c[r]]

\* One rate takes whatever amount is left, in the order of the code
WithOneRate(e, c) ==
  [r \in Rate |->
     IF Rates(e) # {r}
     THEN c[r]
     ELSE LET line == e.lines[r]
              v1 == IF Validates(r, line) THEN Default(c[r], "taxable", line.taxable) ELSE c[r]
              v2 == Default(v1, "taxable", Goods(e))
              v3 == Default(v2, "tax", line.tax)
              v4 == Default(v3, "taxable", Minus(Gross(e), v3.tax))
          IN Default(v4, "tax", Minus(Gross(e), v4.taxable))]

\* The lines of a rate, when they agree with it; rate 0 has no tax
WithLines(e, c) ==
  [r \in Rate |->
     LET line   == e.lines[r]
         v      == IF ~Whole(c[r]) /\ Validates(r, line)
                   THEN Default(Default(c[r], "taxable", line.taxable), "tax", line.tax)
                   ELSE c[r]
     IN IF r = 0 /\ v.taxable # {} THEN Default(v, "tax", {0}) ELSE v]

SumOf(c, field) ==
  OverRates({r \in Rate : c[r][field] # {}}, LAMBDA r : Amount(c[r][field]))

\* The tax of the only rate that lacks it is what the gross total leaves
WithGross(e, c) ==
  LET lacking == {r \in Rate \ {0} : c[r].taxable # {} /\ c[r].tax = {}}
      rest    == {g - SumOf(c, "taxable") - SumOf(c, "tax") : g \in Gross(e)}
  IN [r \in Rate |->
        IF lacking = {r} /\ SumOf(c, "taxable") # 0 /\ \A x \in rest : x >= 0
        THEN Default(c[r], "tax", rest) ELSE c[r]]

Completed(e) ==
  IF Rates(e) = {} THEN e.summary
  ELSE WithGross(e, WithLines(e, WithOneRate(e, WithGoods(e, WithExempt(e)))))

-----------------------------------------------------------------------------
(* _build_result.                                                          *)

\* A stated amount of the summary, or the one of the lines
Chosen(e, c, r) ==
  [taxable |-> IF c[r].taxable # {} THEN c[r].taxable ELSE e.lines[r].taxable,
   tax     |-> IF c[r].tax # {} THEN c[r].tax ELSE e.lines[r].tax]

\* Rates with a missing amount have no line; nor does one whose lines do not agree with
\* it while the summary speaks only of others
HasLine(e, c, r) ==
  /\ Whole(Chosen(e, c, r))
  /\ Validates(r, Chosen(e, c, r)) \/ c[r] # Blank \/ \A q \in Rate : c[q] = Blank

Lined(e, c) == {r \in Rates(e) : HasLine(e, c, r)}

\* Every amount is compared within a cent with the sum of the lines
GrossAgrees(e, total) == \A g \in Gross(e) : WithinCent(total, g)

AllLinesAgree(e, c) ==                                 \* mutant: a rate that was skipped still counts as validated
  \A r \in Lined(e, c) : Validates(r, Chosen(e, c, r))

\* validated, before the gross total
AllRatesAgree(e, c) ==
  Rates(e) # {} /\ \A r \in Rates(e) : HasLine(e, c, r) /\ Validates(r, Chosen(e, c, r))

BuildResult(e) ==
  LET c     == Completed(e)
      lines == [r \in Lined(e, c) |-> Chosen(e, c, r)]
      total == OverRates(DOMAIN lines, LAMBDA r : Amount(lines[r].taxable) + Amount(lines[r].tax))
  IN [lines  |-> lines,
      total  |-> total,
      status |-> IF DOMAIN lines = {} THEN "needs_review"
                 ELSE IF AllRatesAgree(e, c) /\ GrossAgrees(e, total) THEN "exact"
                 ELSE IF \A r \in DOMAIN lines : Validates(r, lines[r]) THEN "derived"
                 ELSE "needs_review"]

-----------------------------------------------------------------------------
NoOutcome == [lines |-> <<>>, total |-> 0, status |-> ""]

VatInit ==
  /\ evidence \in Evidence
  /\ outcome = NoOutcome

Reconcile ==
  /\ outcome = NoOutcome
  /\ outcome' = BuildResult(evidence)
  /\ UNCHANGED evidence

VatSpec == VatInit /\ [][Reconcile]_vatVars

-----------------------------------------------------------------------------
(* Properties.                                                             *)

\* An exact split accounts for the whole invoice: every rate that the lines or the
\* summary mention has both amounts, each tax is within a cent of its rate, and the gross
\* total (a payable total, or without one, or with one of 0, the total with taxes) is
\* reached within a cent -- whatever was completed from the lines, the totals or by
\* difference on the way (vat_splits.py 224-388)
ExactSplitIsWhole ==
  outcome.status = "exact" =>
    /\ DOMAIN outcome.lines = Rates(evidence)
    /\ \A r \in Rates(evidence) :
         \E x \in outcome.lines[r].taxable, y \in outcome.lines[r].tax :
           100 * y - r * x \in -150 .. 150
    /\ \A g \in Gross(evidence) : g - outcome.total \in -1 .. 1
=============================================================================
