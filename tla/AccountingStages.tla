--------------------------- MODULE AccountingStages ---------------------------
(***************************************************************************)
(* One run of the staged invoice pipeline                                  *)
(* (backend/app/workflows/three_stage_accounting_pipeline.py): a reader,   *)
(* a planner and an accountant, whose draft is repaired once for account   *)
(* codes outside the chart and once for its balance.                       *)
(*                                                                         *)
(* What the accountant answers is chosen from a set.  Its account codes    *)
(* are classes: "exact", a member of the chart; "padded", one only after   *)
(* normalize_account_code; "outside", none; "party", a member of one of    *)
(* the counterparty families (_CURRENT_ACCOUNT_PREFIXES: 120, 220, 320,    *)
(* 329, 420); "none", no code; "blank", no code and no amount.  The        *)
(* invoice has table rows.                                                 *)
(***************************************************************************)
EXTENDS Naturals

CONSTANTS
  Output,   \* what the accountant may answer
  NoDraft   \* no answer

ASSUME StagesAssumption ==
  /\ Output \subseteq
       [lines  : SUBSET {"exact", "padded", "outside", "party", "none", "blank"},
        rows   : SUBSET {"exact", "padded", "outside", "none"},   \* row_decisions
        cover  : {"exact", "reordered", "incomplete"},            \* of the table rows
        debit  : Nat,
        credit : Nat,
        zero   : BOOLEAN,     \* posting_basis_amount is an explicit zero
        warns  : BOOLEAN]
  /\ NoDraft \notin Output

VARIABLES
  stage,
  calls,     \* calls of the accountant in this stage: run_final_accountant_stage
  invoice,   \* what the reader and the planner found
  answer,    \* final_output
  warnings,  \* composition_warnings
  repairs,   \* _account_repair_status and _repair_status
  report     \* _compatibility_result

stagesVars == <<stage, calls, invoice, answer, warnings, repairs, report>>

Party == {"in_chart", "not_in_chart", "new"}     \* the planner's counterparty

RepairStatus ==
  {"none", "failed", "invalid_account_code", "account_code_not_exact", "unbalanced", "successful"}

Warning ==
  {"row_decision_account_not_in_chart", "account_not_in_chart",
   "operating_line_used_counterparty_family", "planner_counterparty_not_in_chart",
   "new_counterparty_required", "invalid_account_self_repair", "unbalanced_self_repair",
   "final_accountant_unavailable", "row_coverage_incomplete", "draft_unbalanced",
   "draft_account_missing", "warned"}

NoReport == [status |-> "none", reasons |-> {}, retry |-> FALSE]

StagesTypeOK ==
  /\ stage \in {"reader", "planner", "first", "accounts", "balance", "report", "done", "raised"}
  /\ calls \in 0 .. 1
  /\ invoice \in [party : Party, zero : BOOLEAN]
  /\ answer \in Output \cup {NoDraft}
  /\ warnings \in SUBSET Warning
  /\ repairs \in [accounts : RepairStatus, balance : RepairStatus]
  /\ report \in [status  : {"none", "complete", "partial", "no_posting_required"},
                 reasons : SUBSET Warning,
                 retry   : BOOLEAN]

\* run_prepared_source_accounting_pipeline begins with the planner
StagesInit ==
  /\ stage \in {"reader", "planner"}
  /\ calls = 0
  /\ invoice \in [party : {"new"}, zero : BOOLEAN]
  /\ answer = NoDraft
  /\ warnings = {}
  /\ repairs = [accounts |-> "none", balance |-> "none"]
  /\ report = NoReport

-----------------------------------------------------------------------------
(* The reader and the planner, whose errors end the run.                   *)

ReadSource ==
  /\ stage = "reader"
  /\ stage' \in {"planner", "raised"}
  /\ UNCHANGED <<calls, invoice, answer, warnings, repairs, report>>

PlanParty(party) ==
  /\ stage = "planner"
  /\ stage' = "first"
  /\ invoice' = [invoice EXCEPT !.party = party]
  /\ UNCHANGED <<calls, answer, warnings, repairs, report>>

FailToPlan ==
  /\ stage = "planner"
  /\ stage' = "raised"
  /\ UNCHANGED <<calls, invoice, answer, warnings, repairs, report>>

-----------------------------------------------------------------------------
(* The accountant.                                                         *)

When(condition, warning) == IF condition THEN {warning} ELSE {}

\* _compose_journal: codes outside the chart and of a counterparty are emptied, and the
\* counterparty is the planner's
Composed(o) ==
  When("outside" \in o.rows, "row_decision_account_not_in_chart")
    \cup When("outside" \in o.lines, "account_not_in_chart")
    \cup When("party" \in o.lines, "operating_line_used_counterparty_family")
    \cup When(invoice.party = "not_in_chart", "planner_counterparty_not_in_chart")
    \cup When(invoice.party # "in_chart", "new_counterparty_required")

\* _invalid_account_warnings
Invalid(w) == w \cap {"row_decision_account_not_in_chart", "account_not_in_chart"}

\* _repaired_output_uses_exact_chart_codes
Exact(o) ==
  /\ o.lines \cap {"padded", "outside", "none"} = {}
  /\ o.rows \cap {"padded", "outside"} = {}

Balanced(o) == o.debit = o.credit

\* One more try after a timeout or an error that may pass
TryAgain ==
  /\ stage \in {"first", "accounts", "balance"}
  /\ calls = 0
  /\ calls' = 1
  /\ UNCHANGED <<stage, invoice, answer, warnings, repairs, report>>

Adopt(o) == answer' = o /\ warnings' = Composed(o)

\* The accounts are repaired before the balance
AfterFirst(o) ==
  CASE Invalid(Composed(o)) # {} -> "accounts"
    [] Invalid(Composed(o)) = {} /\ ~Balanced(o) -> "balance"
    [] OTHER -> "report"

FirstDraft(o) ==
  /\ stage = "first"
  /\ Adopt(o)
  /\ stage' = AfterFirst(o)
  /\ calls' = 0
  /\ UNCHANGED <<invoice, repairs, report>>

NoFirstDraft ==
  /\ stage = "first"
  /\ stage' = "report"
  /\ calls' = 0
  /\ UNCHANGED <<invoice, answer, warnings, repairs, report>>

AfterAccounts(o) == IF Balanced(o) THEN "report" ELSE "balance"

\* _repair_invalid_account_codes
KeepAccounts(status) ==
  /\ repairs' = [repairs EXCEPT !.accounts = status]
  /\ warnings' = warnings \cup {"invalid_account_self_repair"}
  /\ stage' = AfterAccounts(answer)
  /\ UNCHANGED answer

RepairAccounts(o) ==
  /\ stage = "accounts"
  /\ \/ /\ Invalid(Composed(o)) # {}
        /\ KeepAccounts("invalid_account_code")
     \/ /\ Invalid(Composed(o)) = {} /\ ~Exact(o)
        /\ KeepAccounts("account_code_not_exact")
     \/ /\ Invalid(Composed(o)) = {} /\ Exact(o)
        /\ Adopt(o)
        /\ repairs' = [repairs EXCEPT !.accounts = "successful"]
        /\ stage' = AfterAccounts(o)
  /\ calls' = 0
  /\ UNCHANGED <<invoice, report>>

FailAccounts ==
  /\ stage = "accounts"
  /\ KeepAccounts("failed")
  /\ calls' = 0
  /\ UNCHANGED <<invoice, report>>

KeepBalance(status, found) ==
  /\ repairs' = [repairs EXCEPT !.balance = status]
  /\ warnings' = warnings \cup found \cup {"unbalanced_self_repair"}
  /\ UNCHANGED answer

RepairBalanceUnchecked(o) ==                           \* mutant: accounts not checked again
  /\ stage = "balance"
  /\ \/ /\ Balanced(o)
        /\ Adopt(o)
        /\ repairs' = [repairs EXCEPT !.balance = "successful"]
     \/ /\ ~Balanced(o)
        /\ KeepBalance("unbalanced", {})
  /\ stage' = "report"
  /\ calls' = 0
  /\ UNCHANGED <<invoice, report>>

RepairBalance(o) ==
  /\ stage = "balance"
  /\ \/ /\ Invalid(Composed(o)) # {} \/ ~Exact(o)
        /\ KeepBalance("invalid_account_code", Invalid(Composed(o)))
     \/ /\ Invalid(Composed(o)) = {} /\ Exact(o) /\ Balanced(o)
        /\ Adopt(o)
        /\ repairs' = [repairs EXCEPT !.balance = "successful"]
     \/ /\ Invalid(Composed(o)) = {} /\ Exact(o) /\ ~Balanced(o)
        /\ KeepBalance("unbalanced", {})
  /\ stage' = "report"
  /\ calls' = 0
  /\ UNCHANGED <<invoice, report>>

FailBalance ==
  /\ stage = "balance"
  /\ KeepBalance("failed", {})
  /\ stage' = "report"
  /\ calls' = 0
  /\ UNCHANGED <<invoice, report>>

-----------------------------------------------------------------------------
(* _compatibility_result.                                                  *)

\* A line of the draft, the counterparty's included, has no account
AccountMissing(o) ==
  o.lines \cap {"outside", "party", "none", "blank"} # {} \/ invoice.party # "in_chart"

Reasons(o) ==
  warnings
    \cup When(o.warns, "warned")
    \cup When(o.cover # "exact", "row_coverage_incomplete")
    \cup When(~Balanced(o), "draft_unbalanced")
    \cup When(AccountMissing(o), "draft_account_missing")

NothingToPost(o) ==
  /\ o.zero /\ invoice.zero
  /\ o.debit = 0 /\ o.credit = 0
  /\ o.cover # "incomplete"
  /\ Invalid(Reasons(o)) = {}

Reported(o) ==
  CASE NothingToPost(o) -> [status |-> "no_posting_required", reasons |-> {}, retry |-> FALSE]
    [] ~NothingToPost(o) /\ Reasons(o) = {} -> [status |-> "complete", reasons |-> {}, retry |-> FALSE]
    [] OTHER -> [status |-> "partial", reasons |-> Reasons(o), retry |-> FALSE]

Report ==
  /\ stage = "report"
  /\ stage' = "done"
  /\ report' = IF answer = NoDraft
               THEN [status  |-> "partial",
                     reasons |-> {"final_accountant_unavailable", "row_coverage_incomplete"},
                     retry   |-> TRUE]
               ELSE Reported(answer)
  /\ UNCHANGED <<calls, invoice, answer, warnings, repairs>>

-----------------------------------------------------------------------------
StagesNext ==
  \/ ReadSource \/ FailToPlan \/ TryAgain
  \/ NoFirstDraft \/ FailAccounts \/ FailBalance \/ Report
  \/ \E party \in Party : PlanParty(party)
  \/ \E o \in Output : FirstDraft(o) \/ RepairAccounts(o) \/ RepairBalance(o)

StagesSpec == StagesInit /\ [][StagesNext]_stagesVars

-----------------------------------------------------------------------------
(* Properties.                                                             *)

\* What a finished run reports is true of the draft it reports, whichever answers were
\* kept or replaced on the way: accepted account codes are still exact after the balance
\* was repaired, a repaired balance holds, a complete draft balances on accounts of the
\* chart, and an invoice with nothing to post has no amount and no code outside the chart
\* (three_stage_accounting_pipeline.py 836-905, 960-1036 and 589-646)
ReportIsTrue ==
  (stage = "done" /\ answer # NoDraft) =>
    /\ repairs.accounts = "successful" => Exact(answer)
    /\ repairs.balance = "successful" => Balanced(answer) /\ Exact(answer)
    /\ report.status = "complete" =>
         /\ answer.debit = answer.credit
         /\ answer.lines \subseteq {"exact", "padded"}
         /\ answer.rows \subseteq {"exact", "padded", "none"}
         /\ invoice.party = "in_chart"
    /\ report.status = "no_posting_required" =>
         /\ answer.debit + answer.credit = 0
         /\ "outside" \notin answer.lines \cup answer.rows
=============================================================================
