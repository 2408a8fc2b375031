-------------------------- MODULE DaemonLifecycle --------------------------
(***************************************************************************)
(* The start and the stop of the daemon: daemon_pid.py, daemon.py          *)
(* (Daemon.run, Daemon._run), the daemon command of cli/app.py, and the    *)
(* alert tasks of plugins/registry.py.                                     *)
(*                                                                         *)
(* A start reads the PID file, and only later writes its own number there. *)
(* A stop cancels the consumers, lets the alert tasks end, stops the       *)
(* plugins, closes the database and removes the file.  A process may be    *)
(* killed at any step, and its number given to another program.            *)
(*                                                                         *)
(* The names of the specification are its own, so that the module can be   *)
(* extended together with another.                                         *)
(***************************************************************************)
EXTENDS Integers, FiniteSets

CONSTANTS
  Pids,     \* process numbers
  Overlap,  \* whether a start may begin while another is between its two steps
  Spaces    \* alert tasks that may be under way at once

PidsAssumption == Pids \subseteq Nat \ {0} /\ Overlap \in BOOLEAN /\ Spaces \in Nat

NoPid == 0

VARIABLES
  pidfile,     \* the number in daemon.pid, or NoPid
  stage,       \* stage[p]: what process p is doing
  eval,        \* eval[p]: the evaluation a consumer of p has in hand
  alertTasks,  \* alertTasks[p]: alert tasks that have not ended
  plugin       \* plugin[p]: whether p's plugins are up

lifecycleVars == <<pidfile, stage, eval, alertTasks, plugin>>

\* "other" is a program that is no daemon.
States == {"free", "other", "checked", "starting", "running", "stopping", "drained",
           "stopped", "closed"}
\* From the writing of the file to its removal.
Daemons == {p \in Pids : stage[p] \in {"starting", "running", "stopping", "drained",
                                       "stopped", "closed"}}

LifecycleTypeOK ==
  /\ pidfile \in Pids \cup {NoPid}
  /\ stage \in [Pids -> States]
  /\ eval \in [Pids -> {"none", "looking up", "stored", "cut"}]
  /\ alertTasks \in [Pids -> 0 .. Spaces]
  /\ plugin \in [Pids -> BOOLEAN]

LifecycleInit ==
  /\ pidfile \in Pids \cup {NoPid}
  /\ stage \in [Pids -> {"free", "other"}]
  /\ eval = [p \in Pids |-> "none"]
  /\ alertTasks = [p \in Pids |-> 0]
  /\ plugin = [p \in Pids |-> FALSE]

-----------------------------------------------------------------------------
(* Starting.                                                               *)

\* Mutant: the file is not looked at.
RunningNever == FALSE

\* check_already_running: signal 0 finds any process of that number (of the same user).
AlreadyRunning == pidfile # NoPid /\ stage[pidfile] # "free"

Begin(p) ==
  /\ stage[p] = "free" /\ ~AlreadyRunning
  /\ Overlap \/ \A q \in Pids : stage[q] # "checked"
  /\ stage' = [stage EXCEPT ![p] = "checked"]
  /\ UNCHANGED <<pidfile, eval, alertTasks, plugin>>

\* Daemon.run writes the file.
Claim(p) ==
  /\ stage[p] = "checked"
  /\ stage' = [stage EXCEPT ![p] = "starting"] /\ pidfile' = p
  /\ UNCHANGED <<eval, alertTasks, plugin>>

\* Daemon._run up to fire_on_daemon_start; signals are handled from here on.
Up(p) ==
  /\ stage[p] = "starting"
  /\ stage' = [stage EXCEPT ![p] = "running"] /\ plugin' = [plugin EXCEPT ![p] = TRUE]
  /\ UNCHANGED <<pidfile, eval, alertTasks>>

-----------------------------------------------------------------------------
(* A consumer's evaluations, one at a time.                                *)

LookUp(p) ==
  /\ stage[p] = "running" /\ eval[p] = "none"
  /\ eval' = [eval EXCEPT ![p] = "looking up"]
  /\ UNCHANGED <<pidfile, stage, alertTasks, plugin>>

\* Nothing to alert of.
Clean(p) ==
  /\ stage[p] = "running" /\ eval[p] = "looking up"
  /\ eval' = [eval EXCEPT ![p] = "none"]
  /\ UNCHANGED <<pidfile, stage, alertTasks, plugin>>

AlertStored(p) ==
  /\ stage[p] = "running" /\ eval[p] = "looking up"
  /\ eval' = [eval EXCEPT ![p] = "stored"]
  /\ UNCHANGED <<pidfile, stage, alertTasks, plugin>>

\* schedule_alert
ScheduleAlert(p) ==
  /\ stage[p] = "running" /\ eval[p] = "stored" /\ alertTasks[p] < Spaces
  /\ eval' = [eval EXCEPT ![p] = "none"] /\ alertTasks' = [alertTasks EXCEPT ![p] = @ + 1]
  /\ UNCHANGED <<pidfile, stage, plugin>>

\* fire_on_alert ends, delivered or not.
AlertEnds(p) ==
  /\ alertTasks[p] > 0
  /\ alertTasks' = [alertTasks EXCEPT ![p] = @ - 1]
  /\ UNCHANGED <<pidfile, stage, eval, plugin>>

-----------------------------------------------------------------------------
(* Stopping.                                                               *)

\* What the cancellation of its consumer leaves of an evaluation.
Cancelled(e) == IF e = "none" THEN "none" ELSE "cut"

\* The signal: every task is cancelled and awaited.
Signal(p) ==
  /\ stage[p] = "running"
  /\ stage' = [stage EXCEPT ![p] = "stopping"] /\ eval' = [eval EXCEPT ![p] = Cancelled(@)]
  /\ UNCHANGED <<pidfile, alertTasks, plugin>>

\* drain_alert_tasks: all have ended, if need be by their cancellation after 5 s.
Drained(p) == alertTasks[p] = 0

Drain(p) ==
  /\ stage[p] = "stopping" /\ Drained(p)
  /\ stage' = [stage EXCEPT ![p] = "drained"]
  /\ UNCHANGED <<pidfile, eval, alertTasks, plugin>>

\* fire_on_daemon_stop
StopPlugins(p) ==
  /\ stage[p] = "drained"
  /\ stage' = [stage EXCEPT ![p] = "stopped"] /\ plugin' = [plugin EXCEPT ![p] = FALSE]
  /\ UNCHANGED <<pidfile, eval, alertTasks>>

CloseDb(p) ==
  /\ stage[p] = "stopped"
  /\ stage' = [stage EXCEPT ![p] = "closed"]
  /\ UNCHANGED <<pidfile, eval, alertTasks, plugin>>

Left(p) ==
  /\ stage' = [stage EXCEPT ![p] = "free"] /\ eval' = [eval EXCEPT ![p] = "none"]
  /\ alertTasks' = [alertTasks EXCEPT ![p] = 0] /\ plugin' = [plugin EXCEPT ![p] = FALSE]

\* run's finally removes the file, whatever number it holds.
Unlink(p) == stage[p] = "closed" /\ pidfile' = NoPid /\ Left(p)

-----------------------------------------------------------------------------
\* SIGKILL, or a signal that arrives before its handler.
Killed(p) == stage[p] # "free" /\ Left(p) /\ UNCHANGED pidfile

\* The number goes to another program.
Reused(p) ==
  /\ stage[p] = "free"
  /\ stage' = [stage EXCEPT ![p] = "other"]
  /\ UNCHANGED <<pidfile, eval, alertTasks, plugin>>

LifecycleNext == \E p \in Pids :
  \/ Begin(p) \/ Claim(p) \/ Up(p)
  \/ LookUp(p) \/ Clean(p) \/ AlertStored(p) \/ ScheduleAlert(p) \/ AlertEnds(p)
  \/ Signal(p) \/ Drain(p) \/ StopPlugins(p) \/ CloseDb(p) \/ Unlink(p)
  \/ Killed(p) \/ Reused(p)

LifecycleSpec == LifecycleInit /\ [][LifecycleNext]_lifecycleVars

-----------------------------------------------------------------------------
(* Properties.                                                             *)

\* Only one daemon runs, from its start until the last thing its stop does.
\* (check_already_running, Daemon.run)
OneDaemon == Cardinality(Daemons) <= 1

\* A daemon that runs is named in the file until it is gone, so that a start or a
\* restart finds it.  (check_already_running, Daemon.run)
FileNamesTheDaemon == \A p \in Daemons : pidfile = p

\* No alert task and no consumer outlives the plugins it calls.
\* (drain_alert_tasks, Daemon._run)
NoAlertAfterStop == \A p \in Pids :
  stage[p] \in {"stopped", "closed"} => alertTasks[p] = 0 /\ eval[p] \in {"none", "cut"}

\* The three together, of daemons whose starts do not overlap.
OneDaemonAtATime == OneDaemon /\ FileNamesTheDaemon /\ NoAlertAfterStop
=============================================================================
