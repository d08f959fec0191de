----------------------------- MODULE MCProcessing -----------------------------
(***************************************************************************)
(* The processing of an invoice: the queue with its attempts, and what an  *)
(* attempt computes - the VAT of the invoice, its draft, the stages of the *)
(* accountant - which shares no state with it.  focus chooses the part     *)
(* that a behaviour explores.                                              *)
(***************************************************************************)
EXTENDS MCProcessingQueue, VatSplits, InvoiceDraft, AccountingStages

VARIABLE focus

processingVars == <<vars, vatVars, draftVars, stagesVars, focus>>

-----------------------------------------------------------------------------
(* Two rates; lines that agree, are off by a kurus or are wrong; a summary *)
(* that states any part; totals that fit some of them.                     *)

Line(x, y) == [taxable |-> x, tax |-> y]

Invoices ==
  LET lines   == {Line({}, {}), Line({100}, {20}), Line({100}, {21}), Line({100}, {30})}
      summary == {Line(x, y) : x \in {{}, {100}, {105}}, y \in {{}, {20}, {0}}}
      totals  == [payable : {{}, {0}, {120}, {220}}, inclusive : {{}, {121}},
                  taxable : {{}}, goods : {{}, {200}}, exempt : {{}, {100}}]
  IN [lines   : {(0 :> a) @@ (20 :> b) : a \in {Line({}, {}), Line({100}, {0})}, b \in lines},
      summary : {(0 :> a) @@ (20 :> b) : a \in {Line({}, {}), Line({100}, {})}, b \in summary},
      totals  : totals]

-----------------------------------------------------------------------------
(* Lines and a VAT base that agree, differ by two kurus or lack an amount, *)
(* or no lines and a base of a kurus; at most one component; payable       *)
(* totals with and without it; at most one decision that is not plainly    *)
(* to post; and amounts marked with another currency.                      *)

Priced(x) == [taxable |-> x, gross |-> {}]
Taxed(x, y) == [base |-> x, tax |-> y]
Component(section, kind, amount, effect, pay, ln) ==
  [section |-> section, kind |-> kind, amount |-> amount, effect |-> effect,
   inPayable |-> pay, inLines |-> ln, apart |-> FALSE, represented |-> FALSE]

Components ==
  {Component("tax", "other", {5}, "increase", "unknown", "unknown"),
   Component("tax", "other", {5}, "unknown", "unknown", "unknown"),
   Component("monetary", "other", {10}, "increase", "yes", "no"),
   Component("monetary", "other", {10}, "reduce", "unknown", "yes"),
   Component("monetary", "next", {}, "unknown", "unknown", "unknown")}

Drafts ==
  [lines     : {<<Priced({100}), Priced({50})>>, <<Priced({100}), Priced({0})>>,
                <<Priced({}), Priced({50})>>, <<>>},
   vat       : {<<Taxed({150}, {30})>>, <<Taxed({148}, {30})>>, <<Taxed({98}, {20})>>,
                <<Taxed({}, {30})>>, <<Taxed({1}, {117})>>},
   parts     : {<<>>} \cup {<<c>> : c \in Components},
   payable   : {{}, {118}, {170}, {178}, {180}, {181}, {190}},
   goods     : {{}, {150}},
   allowance : {{}, {10}},
   marked    : {{}},
   direction : {"purchase", "sales"}]
  \cup
  [lines     : {<<Priced({100}), Priced({50})>>, <<Priced({}), Priced({50})>>,
                <<[taxable |-> {}, gross |-> {100}], Priced({50})>>},
   vat       : {<<Taxed({150}, {30})>>},
   parts     : {<<c>> : c \in Components},
   payable   : {{180}, {190}},
   goods     : {{}, {149}},
   allowance : {{}},
   marked    : {{}} \cup {{<<kind, 1>>} : kind \in {"line", "vat", "part", "counterparty"}},
   direction : {"purchase", "sales"}]

OneDiffers(F) == {[f \in F |-> IF f = g THEN d ELSE "post"] : g \in F, d \in Decision}

-----------------------------------------------------------------------------
(* Answers with one kind of account code each, for the lines and the rows, *)
(* balanced or not, with the rows covered or not; and one without amounts. *)

Answers ==
  [lines : {{"exact"}, {"padded"}, {"exact", "outside"}, {"party"}, {"none"}, {"blank"}},
   rows  : {{"exact"}, {"padded", "none"}, {"outside"}},
   cover : {"exact", "incomplete"}, debit : {1}, credit : {1, 2}, zero : {FALSE}, warns : {FALSE}]
  \cup
  [lines : {{"exact"}, {"outside"}, {"blank"}}, rows : {{"exact"}},
   cover : {"reordered"}, debit : {0}, credit : {0}, zero : BOOLEAN, warns : BOOLEAN]

-----------------------------------------------------------------------------
SomeEvidence == CHOOSE e \in Evidence : TRUE
SomeDraftable == CHOOSE d \in Draftable : TRUE

ProcessingInit ==
  /\ focus \in {"queue", "vat", "draft", "stages"}
  /\ evidence \in IF focus = "vat" THEN Evidence ELSE {SomeEvidence}
  /\ projection \in IF focus = "draft" THEN Draftable ELSE {SomeDraftable}
  /\ stage \in IF focus = "stages" THEN {"reader", "planner"} ELSE {"reader"}
  /\ invoice \in [party : {"new"}, zero : IF focus = "stages" THEN BOOLEAN ELSE {FALSE}]
  /\ Init /\ VatInit /\ DraftInit /\ StagesInit

ProcessingNext ==
  /\ UNCHANGED focus
  /\ \/ focus = "queue" /\ Next /\ UNCHANGED <<vatVars, draftVars, stagesVars>>
     \/ focus = "vat" /\ Reconcile /\ UNCHANGED <<vars, draftVars, stagesVars>>
     \/ focus = "draft" /\ DraftNext /\ UNCHANGED <<vars, vatVars, stagesVars>>
     \/ focus = "stages" /\ StagesNext /\ UNCHANGED <<vars, vatVars, draftVars>>

ProcessingSpec == ProcessingInit /\ [][ProcessingNext]_processingVars
=============================================================================
