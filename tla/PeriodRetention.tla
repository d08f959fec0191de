--------------------------- MODULE PeriodRetention ---------------------------
(***************************************************************************)
(* Retention of the raw source files of one client by accounting period    *)
(* (RetentionService.run_due of backend/app/services/retention_service.py, *)
(* backend/app/persistence/operational_control_repository.py and           *)
(* backend/app/domain/period_retention.py).                                *)
(*                                                                         *)
(* A tick is run by a worker process or an API call, under an hourly       *)
(* schedule whose claim lapses after five minutes and is never given back. *)
(* It groups the sources of every period that has reached its preparation  *)
(* day into a batch, opens the warnings, claims the batches to delete,     *)
(* unlinks their files one by one and resolves each batch.  Every one of   *)
(* these is a transaction of its own, and the tick works with the time at  *)
(* which it began.                                                         *)
(*                                                                         *)
(* Periods are months 1, 2, ...; a day is the first (2m) or the last       *)
(* (2m + 1) of month m.                                                    *)
(***************************************************************************)
EXTENDS Naturals

CONSTANTS
  Ticker,      \* processes that run ticks
  Source,      \* source files
  periodOf,    \* the accounting period assigned to each source
  LastPeriod,  \* bound: periods
  MaxCrashes   \* bound: ticks that die or raise

Period == 1 .. LastPeriod

ASSUME RetentionAssumption ==
  /\ LastPeriod \in Nat
  /\ periodOf \in [Source -> Period]
  /\ MaxCrashes \in Nat

VARIABLES
  today,
  onDisk,      \* sources whose file exists
  row,         \* source_files.status of every source
  batch,       \* retention_batches.status of every period
  member,      \* retention_batch_sources of every period
  tickDue,     \* claim_retention_tick would succeed
  tick,        \* the local state of every ticker
  crashes

retentionVars == <<today, onDisk, row, batch, member, tickDue, tick, crashes>>

\* period_retention_schedule
PreparationOn(p) == 2 * (p + 2) + 1
WarningOn(p)     == 2 * (p + 3)
DeleteOn(p)      == 2 * (p + 3) + 1

LastDay == DeleteOn(LastPeriod)

TickRecord ==
  [pc      : {"idle", "prepare", "warn", "claim", "delete"},
   day     : 0 .. LastDay,             \* now, read once
   claims  : SUBSET Period,            \* the batches still to delete
   sources : [Period -> SUBSET Source],\* listed with each at its claim
   left    : SUBSET Source]            \* of the first of them, still to unlink

NoTick == [pc |-> "idle", day |-> 0, claims |-> {}, sources |-> [p \in Period |-> {}], left |-> {}]

RetentionTypeOK ==
  /\ today \in 0 .. LastDay
  /\ onDisk \subseteq Source
  /\ row \in [Source -> {"none", "stored", "deleted"}]
  /\ batch \in [Period -> {"none", "scheduled", "warning_open", "deleting", "resolved"}]
  /\ member \in [Period -> SUBSET Source]
  /\ tickDue \in BOOLEAN
  /\ tick \in [Ticker -> TickRecord]
  /\ crashes \in 0 .. MaxCrashes

RetentionInit ==
  /\ today = PreparationOn(1) - 1   \* nothing happens before
  /\ onDisk = {}
  /\ row = [s \in Source |-> "none"]
  /\ batch = [p \in Period |-> "none"]
  /\ member = [p \in Period |-> {}]
  /\ tickDue = TRUE
  /\ tick = [t \in Ticker |-> NoTick]
  /\ crashes = 0

-----------------------------------------------------------------------------
(* The calendar, the schedule and the uploads.                             *)

NextDay ==
  /\ today < LastDay
  /\ today' = today + 1
  /\ UNCHANGED <<onDisk, row, batch, member, tickDue, tick, crashes>>

\* The hour has passed, or the five minutes of the last claim
TickComesDue ==
  /\ ~tickDue
  /\ tickDue' = TRUE
  /\ UNCHANGED <<today, onDisk, row, batch, member, tick, crashes>>

\* Any day, the period of the document being any month the uploader names
UploadSource(s) ==
  /\ row[s] = "none"
  /\ onDisk' = onDisk \cup {s}
  /\ row' = [row EXCEPT ![s] = "stored"]
  /\ UNCHANGED <<today, batch, member, tickDue, tick, crashes>>

-----------------------------------------------------------------------------
(* A tick.                                                                 *)

SetTick(t, new) == tick' = [tick EXCEPT ![t] = new]

ClaimTick(t) ==
  /\ tick[t].pc = "idle"
  /\ tickDue
  /\ tickDue' = FALSE
  /\ SetTick(t, [NoTick EXCEPT !.pc = "prepare", !.day = today])
  /\ UNCHANGED <<today, onDisk, row, batch, member, crashes>>

\* The sources that have a batch to join
Prepared(t) == {s \in Source : row[s] = "stored" /\ PreparationOn(periodOf[s]) <= tick[t].day}

JoinsAny(t, p) ==                                      \* mutant: of the client, whatever the period
  {s \in Source : row[s] = "stored" /\ \E q \in Prepared(t) : periodOf[q] = p}

\* Those that join the batch of period p
Joins(t, p) == {s \in Prepared(t) : periodOf[s] = p}

\* prepare_retention_batches: a source joins its batch even when that is resolved
PrepareBatches(t) ==
  /\ tick[t].pc = "prepare"
  /\ batch' = [p \in Period |-> IF batch[p] = "none" /\ Joins(t, p) # {} THEN "scheduled" ELSE batch[p]]
  /\ member' = [p \in Period |-> member[p] \cup Joins(t, p)]
  /\ SetTick(t, [tick[t] EXCEPT !.pc = "warn"])
  /\ UNCHANGED <<today, onDisk, row, tickDue, crashes>>

OpenWarnings(t) ==
  /\ tick[t].pc = "warn"
  /\ batch' = [p \in Period |->
                 IF batch[p] = "scheduled" /\ WarningOn(p) <= tick[t].day THEN "warning_open" ELSE batch[p]]
  /\ SetTick(t, [tick[t] EXCEPT !.pc = "claim"])
  /\ UNCHANGED <<today, onDisk, row, member, tickDue, crashes>>

DueOpen(t) ==                                          \* mutant: a batch claimed once is never claimed again
  {p \in Period : batch[p] = "warning_open" /\ DeleteOn(p) <= tick[t].day}

\* A batch that another tick claimed is claimed again, finished or not
Due(t) == {p \in Period : batch[p] \in {"warning_open", "deleting"} /\ DeleteOn(p) <= tick[t].day}

First(claims) == CHOOSE p \in claims : \A q \in claims : p <= q

\* The next batch, or the end of the tick
Turn(tk, claims) ==
  IF claims = {}
  THEN NoTick
  ELSE [tk EXCEPT !.pc = "delete", !.claims = claims, !.left = tk.sources[First(claims)]]

OthersRun(t) == \E u \in Ticker \ {t} : tick[u].pc # "idle"

\* claim_due_retention_deletions skips the rows that another tick has locked
ClaimDeletions(t) ==
  /\ tick[t].pc = "claim"
  /\ \E skipped \in IF OthersRun(t) THEN SUBSET Due(t) ELSE {{}} :
       LET claims == Due(t) \ skipped
       IN /\ batch' = [p \in Period |-> IF p \in claims THEN "deleting" ELSE batch[p]]
          /\ SetTick(t, Turn([tick[t] EXCEPT !.sources = [p \in Period |->
                                                           IF p \in claims THEN member[p] ELSE {}]],
                             claims))
  /\ UNCHANGED <<today, onDisk, row, member, tickDue, crashes>>

\* A file that is missing, or that cannot be unlinked, only leaves a warning
UnlinkSource(t, s) ==
  /\ tick[t].pc = "delete"
  /\ s \in tick[t].left
  /\ onDisk' \in {onDisk, onDisk \ {s}}
  /\ SetTick(t, [tick[t] EXCEPT !.left = @ \ {s}])
  /\ UNCHANGED <<today, row, batch, member, tickDue, crashes>>

\* resolve_retention_batch marks the sources listed at the claim, whatever the batch
\* has been joined by since
ResolveBatch(t) ==
  /\ tick[t].pc = "delete"
  /\ tick[t].left = {}
  /\ LET p == First(tick[t].claims)
     IN /\ row' = [s \in Source |-> IF s \in tick[t].sources[p] THEN "deleted" ELSE row[s]]
        /\ batch' = [batch EXCEPT ![p] = "resolved"]
        /\ SetTick(t, Turn(tick[t], tick[t].claims \ {p}))
  /\ UNCHANGED <<today, onDisk, member, tickDue, crashes>>

\* The process dies or the store raises: nothing of the tick is taken back
LoseTick(t) ==
  /\ tick[t].pc # "idle"
  /\ crashes < MaxCrashes
  /\ crashes' = crashes + 1
  /\ SetTick(t, NoTick)
  /\ UNCHANGED <<today, onDisk, row, batch, member, tickDue>>

-----------------------------------------------------------------------------
TickStep(t) ==
  \/ ClaimTick(t) \/ PrepareBatches(t) \/ OpenWarnings(t) \/ ClaimDeletions(t)
  \/ \E s \in Source : UnlinkSource(t, s)
  \/ ResolveBatch(t)

RetentionNext ==
  \/ NextDay \/ TickComesDue
  \/ \E s \in Source : UploadSource(s)
  \/ \E t \in Ticker : TickStep(t) \/ LoseTick(t)

RetentionSpec == RetentionInit /\ [][RetentionNext]_retentionVars

-----------------------------------------------------------------------------
(* Properties.                                                             *)

\* No raw file leaves the disk, and no source is marked deleted, before the deletion day
\* of the period it is assigned to, whatever ticks overlap, die or run late and whatever
\* other periods of the client are being deleted (operational_control_repository.py
\* 81-175 puts sources and batches together, 195-210 deletes what they list)
FilesGoOnSchedule ==
  \A s \in Source : row[s] = "deleted" \/ (row[s] = "stored" /\ s \notin onDisk)
                      => DeleteOn(periodOf[s]) <= today

Overlap == \E t, u \in Ticker : t # u /\ tick[t].pc # "idle" /\ tick[u].pc # "idle"

\* As long as ticks do not overlap, every source that joined its batch before the batch
\* was resolved is marked deleted in the end: a tick that dies between the claim and the
\* resolution leaves the batch to the next one
DeletionCompletes ==
  []~Overlap =>
    \A s \in Source :
      (s \in member[periodOf[s]] /\ batch[periodOf[s]] # "resolved") ~> (row[s] = "deleted")
=============================================================================
