----------------------------- MODULE Scheduler -----------------------------
(***************************************************************************)
(* The scheduled scans of the daemon: scheduler/runner.py, scheduler/db.py,*)
(* _scheduler_loop of daemon.py and the schedule commands of cli/app.py.   *)
(*                                                                         *)
(* A pass lists the registered projects and scans, one after the other,    *)
(* those that are due; the loop then sleeps for an hour from the END of    *)
(* the pass.  Time is counted in ticks from the first midnight of a week.  *)
(* The scan itself, of any length up to Longest, finds what it finds.      *)
(***************************************************************************)
EXTENDS Integers, Sequences, FiniteSets, SequencesExt

CONSTANTS
  Projects,     \* (path, scan type) pairs
  Hour,         \* ticks of an hour, which is what the loop sleeps
  Day, Week,    \* hours of a day, days of a week
  DailyHour, WeeklyDay, WeeklyHour, MaxScanHistory,   \* SchedulerConfig
  PluginStores, \* whether a plugin keeps the scans (has_scan_store)
  Longest,      \* ticks a pass may last
  Outage,       \* ticks the daemon may be down
  Horizon, Commands, Cuts, Fails  \* bounds: ticks, commands, crashes, scans and
                                  \* passes that an error ends

ASSUME SchedulerAssumption ==
  /\ IsFiniteSet(Projects)
  /\ Hour \in Nat \ {0} /\ Day \in Nat \ {0} /\ Week \in Nat \ {0}
  /\ DailyHour \in 0 .. Day - 1 /\ WeeklyHour \in 0 .. Day - 1 /\ WeeklyDay \in 0 .. Week - 1
  /\ MaxScanHistory \in Nat \ {0} /\ PluginStores \in BOOLEAN
  /\ {Longest, Outage, Horizon, Commands, Cuts, Fails} \subseteq Nat

Never == -1
Absent == [schedule |-> "none", last |-> Never, set |-> 0]

VARIABLES
  now,
  projects,  \* scheduled_projects; "set" is when a command last wrote the row
  history,   \* scan_results: the times of a project's records, oldest first
  told,      \* told[p]: the last scan of p the plugins were given
  doing,        \* what the loop is at
  queue,     \* the rows of the pass that have not been looked at
  scanned,   \* the time of the scan in hand
  began,     \* when the pass, the sleep or the outage began
  since,     \* when the daemon started
  used,      \* commands, crashes and failures so far
  hindered   \* a record of when an error last kept the loop from a project

schedulerVars == <<now, projects, history, told, doing, queue, scanned, began, since, used, hindered>>

DayTicks == Day * Hour
Times == -1 .. Horizon

SchedulerTypeOK ==
  /\ now \in 0 .. Horizon
  /\ projects \in [Projects -> [schedule : {"none", "daily", "weekly"}, last : Times, set : Times]]
  /\ history \in [Projects -> Seq(Times)]
  /\ told \in [Projects -> Times]
  /\ doing \in {"down", "asleep", "next", "scanning", "scanned", "saved", "fired", "marked"}
  /\ queue \in Seq([project : Projects, schedule : {"daily", "weekly"}, last : Times])
  /\ scanned \in Times /\ began \in Times /\ since \in Times
  /\ used \in [{"commands", "cuts", "fails"} -> Nat]
  /\ hindered \in [Projects -> Times]

Registered == {p \in Projects : projects[p].schedule # "none"}

SchedulerInit ==
  /\ now = 0
  /\ projects = [p \in Projects |-> Absent]
  /\ history = [p \in Projects |-> <<>>] /\ told = [p \in Projects |-> Never]
  /\ doing = "down" /\ queue = <<>>
  /\ scanned = Never /\ began = 0 /\ since = 0
  /\ used = [commands |-> 0, cuts |-> 0, fails |-> 0]
  /\ hindered = [p \in Projects |-> Never]

-----------------------------------------------------------------------------
(* What is due.                                                            *)

Midnight(t) == (t \div DayTicks) * DayTicks

DailySlot(t) == Midnight(t) + DailyHour * Hour

\* The last weekly slot that is not after t.
WeeklySlot(t) ==
  LET back == (t \div DayTicks - WeeklyDay) % Week
      candidate == Midnight(t) - back * DayTicks + WeeklyHour * Hour
  IN  IF candidate > t THEN candidate - Week * DayTicks ELSE candidate

Slot(schedule, t) == IF schedule = "daily" THEN DailySlot(t) ELSE WeeklySlot(t)

\* Mutant: a scan is due from its hour on, done or not.
IsDueAgain(row, t) == row.last = Never \/ t >= Slot(row.schedule, t)

IsDue(row, t) ==
  \/ row.last = Never
  \/ LET slot == Slot(row.schedule, t) IN t >= slot /\ row.last < slot

-----------------------------------------------------------------------------
(* The commands, given at any time by another process.                     *)

Use(what, bound) == used[what] < bound /\ used' = [used EXCEPT ![what] = @ + 1]

\* INSERT, or UPDATE of the schedule alone.
AddProject(p, schedule) ==
  /\ Use("commands", Commands)
  /\ projects' = [projects EXCEPT ![p].schedule = schedule, ![p].set = now]
  /\ UNCHANGED <<now, history, told, doing, queue, scanned, began, since, hindered>>

RemoveProject(p) ==
  /\ Use("commands", Commands) /\ p \in Registered
  /\ projects' = [projects EXCEPT ![p] = Absent]
  /\ UNCHANGED <<now, history, told, doing, queue, scanned, began, since, hindered>>

-----------------------------------------------------------------------------
(* The loop.                                                               *)

Row(p) == [project |-> p, schedule |-> projects[p].schedule, last |-> projects[p].last]

\* list_projects
List(first) ==
  /\ doing' = "next" /\ began' = now
  /\ queue' = SetToSeq({Row(p) : p \in Registered})
  /\ since' = IF first THEN now ELSE since
  /\ UNCHANGED <<now, projects, history, told, scanned, used, hindered>>

StartLoop == doing = "down" /\ List(TRUE)

WakeUp == doing = "asleep" /\ now = began + Hour /\ List(FALSE)

Stay == UNCHANGED <<now, projects, history, told, began, since>>

Skip ==
  /\ doing = "next" /\ queue # <<>> /\ ~IsDue(Head(queue), now)
  /\ queue' = Tail(queue)
  /\ Stay /\ UNCHANGED <<doing, scanned, used, hindered>>

BeginScan ==
  /\ doing = "next" /\ queue # <<>> /\ IsDue(Head(queue), now)
  /\ doing' = "scanning"
  /\ Stay /\ UNCHANGED <<queue, scanned, used, hindered>>

InHand == Head(queue).project

\* The directory is gone, or the scan raises: the pass goes on with the next row.
Fail ==
  /\ doing = "scanning" /\ Use("fails", Fails)
  /\ doing' = "next" /\ queue' = Tail(queue)
  /\ hindered' = [hindered EXCEPT ![InHand] = now]
  /\ Stay /\ UNCHANGED scanned

Scanned ==
  /\ doing = "scanning"
  /\ doing' = "scanned" /\ scanned' = now
  /\ Stay /\ UNCHANGED <<queue, used, hindered>>

\* save_scan_result, unless a plugin keeps the scans.
Save ==
  /\ doing = "scanned" /\ doing' = "saved"
  /\ history' = IF PluginStores THEN history ELSE [history EXCEPT ![InHand] = Append(@, now)]
  /\ UNCHANGED <<now, projects, told, queue, scanned, began, since, used, hindered>>

\* fire_on_scan_complete
Fire ==
  /\ doing = "saved" /\ doing' = "fired"
  /\ told' = [told EXCEPT ![InHand] = scanned]
  /\ UNCHANGED <<now, projects, history, queue, scanned, began, since, used, hindered>>

\* update_last_scanned: of a row that has been removed, nothing.
Marked(p) == IF p \in Registered THEN [projects EXCEPT ![p].last = scanned] ELSE projects

Mark ==
  /\ doing = "fired" /\ doing' = "marked" /\ projects' = Marked(InHand)
  /\ UNCHANGED <<now, history, told, queue, scanned, began, since, used, hindered>>

KeptRecords(h) == SubSeq(h, Len(h) - MaxScanHistory + 1, Len(h))

\* prune_scan_results
Prune ==
  /\ doing = "marked" /\ doing' = "next" /\ queue' = Tail(queue)
  /\ history' = IF PluginStores \/ Len(history[InHand]) <= MaxScanHistory THEN history
                ELSE [history EXCEPT ![InHand] = KeptRecords(@)]
  /\ scanned' = Never
  /\ UNCHANGED <<now, projects, told, began, since, used, hindered>>

InQueue(p) == \E i \in DOMAIN queue : queue[i].project = p

\* Anything but the scan raises, be it list_projects, is_dir, a write to the
\* database before or after it took effect: the error leaves run_due_scans, the
\* loop logs it and sleeps, and the rest of the pass is not looked at.
Abandon ==
  /\ doing \in {"next", "scanned", "saved", "fired", "marked"} /\ queue # <<>>
  /\ Use("fails", Fails)
  /\ doing' = "asleep" /\ began' = now /\ queue' = <<>> /\ scanned' = Never
  /\ hindered' = [p \in Projects |-> IF InQueue(p) THEN now ELSE hindered[p]]
  /\ UNCHANGED <<now, projects, history, told, since>>

Sleep ==
  /\ doing = "next" /\ queue = <<>>
  /\ doing' = "asleep" /\ began' = now
  /\ UNCHANGED <<now, projects, history, told, queue, scanned, since, used, hindered>>

\* A crash, or a stop, at any step.
Crash ==
  /\ doing # "down" /\ Use("cuts", Cuts)
  /\ doing' = "down" /\ queue' = <<>> /\ scanned' = Never /\ began' = now /\ since' = 0
  /\ UNCHANGED <<now, projects, history, told, hindered>>

\* A sleep ends when it is due; a pass lasts Longest, and an outage Outage, at most.
Allowance == IF doing = "asleep" THEN Hour ELSE IF doing = "down" THEN Outage ELSE Longest

Tick ==
  /\ now < Horizon
  /\ now < began + Allowance
  /\ now' = now + 1
  /\ UNCHANGED <<projects, history, told, doing, queue, scanned, began, since, used, hindered>>

SchedulerNext ==
  \/ \E p \in Projects : RemoveProject(p) \/ \E s \in {"daily", "weekly"} : AddProject(p, s)
  \/ StartLoop \/ WakeUp \/ Skip \/ BeginScan \/ Fail \/ Scanned \/ Save \/ Fire \/ Mark \/ Prune
  \/ Abandon \/ Sleep \/ Crash \/ Tick

SchedulerSpec == SchedulerInit /\ [][SchedulerNext]_schedulerVars

-----------------------------------------------------------------------------
(* Properties.                                                             *)

LaterOf(a, b) == IF a > b THEN a ELSE b
Newest(p) == IF history[p] = <<>> THEN Never ELSE Last(history[p])

\* A scan that counts is on record and has been handed to the plugins, whatever crash
\* cut its pass short: a project is not passed over for a scan nobody can look up.
\* (ScheduledScanner.run_due_scans: save and fire, then update_last_scanned)
CountedIsOnRecord == \A p \in Registered :
  projects[p].last <= told[p] /\ (~PluginStores => projects[p].last <= Newest(p))

\* The plugins are given a second scan of a project for one slot only when the first
\* was never counted: a crash or an error fell between, or the project was removed.
\* (_is_due, ScheduledScanner.run_due_scans)
RepeatIsAfterCut ==
  doing = "saved" /\ doing' = "fired" /\ told[InHand] # Never
    => \/ told[InHand] < Slot(Head(queue).schedule, scanned)
       \/ Head(queue).last < told[InHand]

\* A daily project that was registered, with the daemon up, at yesterday's hour has
\* been scanned since then, unless since then its own scan failed or an error ended
\* a pass before it was reached.  (An error that comes back in each pass, at a row
\* listed before it, may keep it from being scanned for good.)
\* (_is_due, run_due_scans, _scheduler_loop)
NoDayIsSkipped == \A p \in Registered :
  LET yesterday == DailySlot(now) - DayTicks
  IN  (/\ doing # "down" /\ hindered[p] < yesterday
       /\ projects[p].schedule = "daily" /\ LaterOf(since, projects[p].set) < yesterday)
      => projects[p].last >= yesterday

\* Two passes, with the sleep between them, fit between the daily hour and midnight:
\* otherwise the one may begin before the hour and the other after midnight.
PassesFit == 2 * Longest + Hour <= (Day - DailyHour) * Hour

\* A scan counted for its window is on record, no day passes without a scan of a daily
\* project while the daemon is up and no error keeps it from that project, and a slot
\* is scanned twice only after a crash or an error.
\* (ScheduledScanner.run_due_scans, _is_due, _scheduler_loop)
EveryDayIsOnRecord ==
  [](CountedIsOnRecord /\ NoDayIsSkipped) /\ [][RepeatIsAfterCut]_schedulerVars
=============================================================================
