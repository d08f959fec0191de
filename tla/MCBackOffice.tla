---------------------------- MODULE MCBackOffice ----------------------------
(***************************************************************************)
(* The work of the background: the one synchronisation of production, the  *)
(* retention of files, and the versions of a rule.  They share no state:   *)
(* focus chooses one when a behaviour begins.                              *)
(***************************************************************************)
EXTENDS QnbSync, PeriodRetention, LearningRules, TLC

CONSTANTS s1, s2

VARIABLE focus

deskVars == <<syncVars, retentionVars, rulesVars, focus>>

-----------------------------------------------------------------------------
\* Sources of two successive periods: the first is deleted on the day the second is
\* prepared
PeriodOfSource == s1 :> 1 @@ s2 :> 2

-----------------------------------------------------------------------------
\* A synchronisation nobody looks at is switched off
DeskInit ==
  /\ focus \in {"synchronisation", "retention", "rules"}
  /\ SyncInit /\ RetentionInit /\ RulesInit
  /\ focus # "synchronisation" => poison = {} /\ ~policy.enabled

DeskNext ==
  /\ UNCHANGED focus
  /\ \/ focus = "synchronisation" /\ SyncNext /\ UNCHANGED <<retentionVars, rulesVars>>
     \/ focus = "retention" /\ RetentionNext /\ UNCHANGED <<syncVars, rulesVars>>
     \/ focus = "rules" /\ RulesNext /\ UNCHANGED <<syncVars, retentionVars>>

\* The fairness of the synchronisation, and of the ticks: the workers of the queue run
\* one every hour, and time passes
DeskSpec ==
  /\ DeskInit /\ [][DeskNext]_deskVars
  /\ SyncFairness
  /\ \A t \in Ticker : WF_retentionVars(focus = "retention" /\ TickStep(t))
  /\ WF_retentionVars(focus = "retention" /\ NextDay)
  /\ WF_retentionVars(focus = "retention" /\ TickComesDue)
=============================================================================
