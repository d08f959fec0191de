----------------------------- MODULE InvoiceDraft -----------------------------
(***************************************************************************)
(* From the amounts of an invoice to the journal draft: which components   *)
(* of the invoice are part of its payable total                            *)
(* (backend/app/domain/monetary_reconciliation.py), and the lines that are *)
(* posted for it under the accounting decisions                            *)
(* (backend/app/domain/journal_draft_builder.py).                          *)
(*                                                                         *)
(* Amounts are whole cents; one that is missing or cannot be read is {}.   *)
(* The two files read a text differently: marked are the amounts written   *)
(* with a currency other than the header's code, a percent sign or the     *)
(* like, which the reconciliation strips and the draft does not.           *)
(* Facts have distinct references.  The named totals that are taken as     *)
(* further components are among the parts already, and the memberships in  *)
(* totals other than the payable one, which nothing posts, are left out.   *)
(* There are fewer subtotals than max_states.                              *)
(***************************************************************************)
EXTENDS Integers, Sequences, FiniteSets, FiniteSetsExt

CONSTANTS
  Draftable,      \* the invoices to draft
  Proposals(_)    \* the decisions that may be made for a set of facts

VARIABLES
  projection,    \* the invoice
  topology,      \* what the reconciliation makes of it: none yet, or one
  journalDraft   \* the draft: none yet, or one

draftVars == <<projection, topology, journalDraft>>

Figure == {a \in SUBSET Int : \A x, y \in a : x = y}    \* an amount, or none

Stated(a) == CHOOSE x \in a : TRUE

OrNothing(a) == IF a = {} THEN 0 ELSE Stated(a)

Magnitude(x) == IF x < 0 THEN -x ELSE x

\* _sum_money: of the amounts that are stated
SumStated(s, amount(_)) == SumFunction([i \in DOMAIN s |-> OrNothing(amount(s[i]))])

AllStated(s, amount(_)) == \A i \in DOMAIN s : amount(s[i]) # {}

-----------------------------------------------------------------------------
(* The lines and their total.                                              *)

Taxable(line) == line.taxable
Base(rate)    == rate.base
Tax(rate)     == rate.tax

\* A cent for every line
Tolerance(p) == IF p.lines = <<>> THEN 1 ELSE Len(p.lines)

\* line_total and line_complete: the lines, or the taxable bases of the VAT summary when
\* they are within the tolerance; the stated total of the goods, or else the bases, when a
\* line lacks its amount
Baseline(p) ==
  LET lines == SumStated(p.lines, Taxable)
      bases == SumStated(p.vat, Base)
      based == p.vat # <<>> /\ AllStated(p.vat, Base)
      whole == AllStated(p.lines, Taxable)
  IN CASE whole -> [total    |-> IF based /\ Magnitude(lines - bases) <= Tolerance(p)
                                 THEN bases ELSE lines,
                    complete |-> TRUE]
       [] ~whole /\ p.goods # {} -> [total |-> Stated(p.goods), complete |-> TRUE]
       [] ~whole /\ p.goods = {} /\ based -> [total |-> bases, complete |-> TRUE]
       [] OTHER -> [total |-> lines, complete |-> FALSE]

Visible(line) == IF line.taxable # {} THEN line.taxable ELSE line.gross

\* What the baseline has more or less than the lines
Rest(p) == Baseline(p).total - SumStated(p.lines, Visible)

Allocated(p) ==
  /\ Baseline(p).complete
  /\ AllStated(p.lines, Visible)
  /\ Magnitude(Rest(p)) <= Tolerance(p)

\* _allocate_visible_line_amounts: the rest goes to the last line
Posting(p) ==
  IF Allocated(p)
  THEN [i \in DOMAIN p.lines |->
          {x + (IF i = Len(p.lines) THEN Rest(p) ELSE 0) : x \in Visible(p.lines[i])}]
  ELSE [i \in DOMAIN p.lines |-> Taxable(p.lines[i])]

Mandatory(p) == Baseline(p).total + SumStated(p.vat, Tax)

-----------------------------------------------------------------------------
(* The components.                                                         *)

\* An allowance among the totals is a component, unless one of that amount is there
Parts(p) ==
  IF p.allowance \subseteq {0} \/ \E i \in DOMAIN p.parts :
       p.parts[i].kind = "discount" /\ p.parts[i].amount = p.allowance
  THEN p.parts
  ELSE Append(p.parts, [section |-> "monetary", kind |-> "discount", amount |-> p.allowance,
                        effect |-> "reduce", inPayable |-> "unknown", inLines |-> "unknown",
                        apart |-> FALSE, represented |-> FALSE])

\* _reconciled_effect
Effect(c) ==
  CASE c.section = "monetary" /\ c.kind = "discount" -> "reduce"
    [] c.section = "monetary" /\ c.kind = "prior"    -> "increase"
    [] c.section = "monetary" /\ c.kind = "next"     -> "reduce"
    [] OTHER                                         -> c.effect

Kind == {"discount", "prior", "next", "other"}

Shown(c) == c.section = "tax" /\ c.represented

Candidates(p) ==
  {i \in DOMAIN Parts(p) : LET c == Parts(p)[i]
                           IN ~Shown(c) /\ c.amount # {} /\ Effect(c) # "unknown"}

Modes(c) ==
  {"separate", "excluded"} \cup (IF c.section = "monetary" THEN {"represented"} ELSE {})

\* Informational, or of another period
Apart(c) == c.apart /\ ~(c.section = "monetary" /\ c.kind \in {"prior", "next"})

\* _mode_penalty
Penalty(c, mode) ==
  (CASE mode = "separate" -> 0 [] mode = "represented" -> 1 [] mode = "excluded" -> 2)
  + (IF Apart(c) /\ mode # "excluded" THEN 4 ELSE 0)
  + (CASE c.inLines = "yes" /\ mode = "separate"    -> 2
       [] c.inLines = "yes" /\ mode = "excluded"    -> 1
       [] c.inLines = "no"  /\ mode = "represented" -> 2
       [] OTHER                                     -> 0)
  + (CASE c.inPayable = "yes" /\ mode = "excluded"  -> 2
       [] c.inPayable = "no"  /\ mode # "excluded"  -> 1
       [] OTHER                                     -> 0)

Signed(c) == IF Effect(c) = "reduce" THEN -Magnitude(Stated(c.amount)) ELSE Magnitude(Stated(c.amount))

\* _selected_effect
SelectedEffect(p, modes) ==
  SumFunction([i \in DOMAIN Parts(p) |->
                 IF i \in Candidates(p) /\ modes[i] = "separate" THEN Signed(Parts(p)[i]) ELSE 0])

Rank(mode) == CASE mode = "excluded" -> 0 [] mode = "represented" -> 1 [] mode = "separate" -> 2

\* The order of the solver: distance from the target, penalty, subtotal, names of the modes
Key(p, target, modes) ==
  <<Magnitude(target - SelectedEffect(p, modes)),
    SumFunction([i \in DOMAIN modes |-> Penalty(Parts(p)[i], modes[i])]),
    SelectedEffect(p, modes)>>
  \o [i \in DOMAIN Parts(p) |-> IF i \in DOMAIN modes THEN Rank(modes[i]) ELSE 0]

Before(a, b) ==
  \E k \in DOMAIN a : a[k] < b[k] /\ \A j \in 1 .. k - 1 : a[j] = b[j]

Topologies(p) ==
  {m \in [Candidates(p) -> {"separate", "represented", "excluded"}] :
     \A i \in Candidates(p) : m[i] \in Modes(Parts(p)[i])}

\* _solve_component_modes, which keeps the best choice for every subtotal
Solved(p, target) ==
  CHOOSE m \in Topologies(p) :
    \A n \in Topologies(p) \ {m} : Before(Key(p, target, m), Key(p, target, n))

\* _preferred_mode, when there is no payable total to fit
Preferred(p) ==
  [i \in Candidates(p) |->
     CHOOSE m \in Modes(Parts(p)[i]) :
       \A n \in Modes(Parts(p)[i]) \ {m} :
         Before(<<Penalty(Parts(p)[i], m), Rank(m)>>, <<Penalty(Parts(p)[i], n), Rank(n)>>)]

Residual(p, modes) == Stated(p.payable) - Mandatory(p) - SelectedEffect(p, modes)

FitsNearly(p, modes) ==                                \* mutant: a residual of a cent is exact
  /\ Magnitude(Residual(p, modes)) <= 1
  /\ Baseline(p).complete /\ AllStated(p.vat, Tax)

Fits(p, modes) ==
  /\ Residual(p, modes) = 0
  /\ Baseline(p).complete /\ AllStated(p.vat, Tax)

\* reconcile_monetary_projection
Reconciled(p) ==
  LET modes == IF p.payable = {} THEN Preferred(p)
               ELSE Solved(p, Stated(p.payable) - Mandatory(p))
  IN [modes   |-> modes,
      status  |-> IF p.payable = {} THEN "not_testable"
                  ELSE IF Fits(p, modes) THEN "exact" ELSE "partial",
      posting |-> Posting(p)]

-----------------------------------------------------------------------------
(* The draft.                                                              *)

\* What the accountant decides for a fact: to post it, with the effect it has or with a
\* treatment that increases or reduces the payable; to select an account without saying
\* the treatment; or that it has no posting of its own
Decision == {"post", "increase", "reduce", "untreated", "represented"}

\* The facts of an invoice: its lines, the rates of its VAT and its components
Facts(p) ==
  ({"line"} \X DOMAIN p.lines) \cup ({"vat"} \X DOMAIN p.vat) \cup ({"part"} \X DOMAIN Parts(p))

Counterparty == <<"counterparty", 1>>

\* The facts whose amount is a text of the invoice, and not written by the reconciliation
Written(p) ==
  ({"line"} \X DOMAIN p.lines) \cup ({"vat"} \X DOMAIN p.vat) \cup ({"part"} \X DOMAIN p.parts)
    \cup {Counterparty}

\* _money of the draft, which takes off the header's currency code only.  What a line is
\* posted with after an allocation is written without a mark
Legible(p, f) == f \notin p.marked \/ (f[1] = "line" /\ Allocated(p))

\* What the draft reads: {} is an amount_invalid
FactAmount(p, t, f) ==
  IF ~Legible(p, f) THEN {}
  ELSE CASE f[1] = "line" -> t.posting[f[2]]
         [] f[1] = "vat"  -> p.vat[f[2]].tax
         [] f[1] = "part" -> Parts(p)[f[2]].amount

PayableAmount(p) == IF Legible(p, Counterparty) THEN p.payable ELSE {}

\* Its own effect; lines and VAT increase the payable
FactEffect(p, f) == IF f[1] = "part" THEN Effect(Parts(p)[f[2]]) ELSE "increase"

\* add_fact: the effect with which a fact is posted, or "none".  The account of a component
\* is not posted without a treatment
PostedEffect(p, t, f, decision) ==
  LET part == f[1] = "part"
      unposted == \/ FactAmount(p, t, f) = {}
                  \/ part /\ decision = "untreated" /\ FactAmount(p, t, f) # {0}
                  \/ decision = "represented"
                  \/ part /\ ~(f[2] \in Candidates(p) /\ t.modes[f[2]] = "separate")
  IN IF unposted THEN "none"
     ELSE IF decision \in {"increase", "reduce"} THEN decision
     ELSE FactEffect(p, f)

\* _posting_line: the draft has no sign
PostedAmount(p, t, f, decision, effect) ==
  IF PostedEffect(p, t, f, decision) = effect THEN Magnitude(Stated(FactAmount(p, t, f))) ELSE 0

\* The lines, the rates and the components that are posted with an effect
Posted(p, t, d, effect) ==
  LET of(kind, s) ==
        SumFunction([i \in DOMAIN s |-> PostedAmount(p, t, <<kind, i>>, d[<<kind, i>>], effect)])
  IN of("line", p.lines) + of("vat", p.vat) + of("part", Parts(p))

Payable(p) == IF PayableAmount(p) = {} THEN 0 ELSE Magnitude(Stated(PayableAmount(p)))

InvalidFacts(p, t) == {f \in Facts(p) : FactAmount(p, t, f) = {}}   \* mutant: no warning for the payable

\* The lines of the draft that warn of an amount_invalid
AmountInvalid(p, t) ==
  {f \in Facts(p) : FactAmount(p, t, f) = {}}
    \cup {f \in {Counterparty} : PayableAmount(p) = {}}

\* build_journal_draft: a purchase debits what increases the payable, which it credits; a
\* sale the other way round, and a document of neither has no sides
Built(p, t, d) ==
  LET with    == Posted(p, t, d, "increase")
      against == Posted(p, t, d, "reduce") + Payable(p)
  IN [debit  |-> CASE p.direction = "purchase" -> with [] p.direction = "sales" -> against [] OTHER -> 0,
      credit |-> CASE p.direction = "purchase" -> against [] p.direction = "sales" -> with [] OTHER -> 0,
      decided |-> d,
      invalid |-> AmountInvalid(p, t)]

-----------------------------------------------------------------------------
ASSUME DraftAssumption ==
  \A p \in Draftable :
    /\ p.lines \in Seq([taxable : Figure, gross : Figure])
    /\ p.vat \in Seq([base : Figure, tax : Figure])
    /\ p.parts \in Seq([section : {"tax", "monetary"}, kind : Kind, amount : Figure,
                        effect : {"increase", "reduce", "unknown"},
                        inPayable : {"yes", "no", "unknown"}, inLines : {"yes", "no", "unknown"},
                        apart : BOOLEAN, represented : BOOLEAN])
    /\ {p.payable, p.goods, p.allowance} \subseteq Figure
    /\ p.marked \subseteq Written(p)
    /\ Proposals(Facts(p)) \subseteq [Facts(p) -> Decision]

DraftInit ==
  /\ projection \in Draftable
  /\ topology = {}
  /\ journalDraft = {}

ReconcileAmounts ==
  /\ topology = {}
  /\ topology' = {Reconciled(projection)}
  /\ UNCHANGED <<projection, journalDraft>>

BuildDraft(d) ==
  /\ journalDraft = {}
  /\ \E t \in topology : journalDraft' = {Built(projection, t, d)}
  /\ UNCHANGED <<projection, topology>>

DraftNext ==
  \/ ReconcileAmounts
  \/ \E d \in Proposals(Facts(projection)) : BuildDraft(d)

DraftSpec == DraftInit /\ [][DraftNext]_draftVars

-----------------------------------------------------------------------------
(* Properties.                                                             *)

\* A decision changes neither whether nor how a fact is posted
GoesAlong(f, decision) ==
  decision \in {"post", FactEffect(projection, f)} \cup (IF f[1] = "part" THEN {} ELSE {"untreated"})

\* Neither file could read it, so that nothing counts on it
UnreadPart(p, f) == f[1] = "part" /\ Parts(p)[f[2]].amount = {}

\* The draft of an exactly reconciled invoice balances to the cent, on either side of the
\* trade, or it warns of an amount that the reconciliation counted and the draft cannot
\* read: cents moved between lines, bases and totals that stand in for lines, and components
\* that were excluded or are in the lines already leave no difference, as long as no amount
\* is negative and the decisions go along.  An invoice without lines has nothing that a base
\* of a cent, which still is within the tolerance, would be posted for
\* (monetary_reconciliation.py 52-300 and 568-584, journal_draft_builder.py 60-230 and 310-332)
ExactDraftBalances ==
  \A t \in topology, j \in journalDraft :
    (/\ t.status = "exact"
     /\ projection.lines = <<>> => Baseline(projection).total = 0
     /\ \A f \in Facts(projection) : \A x \in FactAmount(projection, t, f) : x >= 0
     /\ \A x \in projection.payable : x >= 0
     /\ \A f \in DOMAIN j.decided : GoesAlong(f, j.decided[f]))
    => \/ j.debit = j.credit
       \/ \E f \in j.invalid : ~UnreadPart(projection, f)
=============================================================================
