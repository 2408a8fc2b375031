---------------------------- MODULE CapturedRun ----------------------------
(***************************************************************************)
(* SandboxRunner.run_captured: the trials of `pa fix` run a command in the *)
(* sandbox and read its output (sandbox/runner.py, sandbox/isolation.py).  *)
(*                                                                         *)
(* Under container isolation the command is run by a worker thread, in a   *)
(* session of its own: neither Ctrl-C nor cancelling the call reaches it,  *)
(* so the thread is told through an event it looks at now and then, and    *)
(* the call waits for it, but not forever.  The command may leave children *)
(* behind: in its process group (kid), or in a session of their own        *)
(* (stray), holding its pipes or not.                                      *)
(***************************************************************************)
EXTENDS Naturals, FiniteSets

CONSTANTS
    Capabilities,   \* what a language's sandbox flags may grant
    MaxCalls        \* bound: calls made on one runner

Namespaces == {"primary", "other"}     \* of the sandbox flags
FlagSets == [Namespaces -> SUBSET Capabilities]

\* A call: who approves its command, whether it is a trial in a scratch copy
\* that really is one, whether the command writes files in place outside it,
\* and whether what the plug-ins make writable fits (overlaps nothing, is
\* allowed by sandbox.editable_roots).
Calls == [approved : {"readonly", "scratch", "nobody"}, scratch : BOOLEAN, inside : BOOLEAN,
          inPlace : BOOLEAN, fits : BOOLEAN, isolation : {"bwrap", "container"},
          flags : FlagSets]

VARIABLES
    call, made,   \* the current call; calls made so far
    caller,       \* the coroutine: "idle", "asking", "assembling", "waiting", "grace", "leaving"
    callOutcome,  \* of the call
    authorized,   \* the runner's memory of the pre-run checks: key -> answer
    agreed,       \* history: the flag sets no check blocked
    binds,        \* the credential snapshots of this call exist
    worker,       \* the thread: "none", "queued", "prepared", "starting", "polling", "ending", "done"
    answer,       \* what the thread returns or raises
    cancel,       \* the event
    leader,       \* the command: "none", "running", "exited", "killed"
    kid, stray,   \* "none", "quiet", "holding"
    killed,       \* the thread has ended the group once, on finding the command exited
    late,         \* the timeout has passed
    home,         \* the fresh home: "none", "made", "removed", "left"
    planted,      \* a repository planted in a writable source and not moved aside
    abandoned     \* the call gave up on the thread

callVars == <<call, made, caller, callOutcome, authorized, agreed, binds, worker, answer, cancel, leader,
          kid, stray, killed, late, home, planted, abandoned>>

caller_vars == <<call, made, caller, callOutcome, authorized, agreed, binds, abandoned>>
command_vars == <<leader, kid, stray, planted>>
worker_vars == <<worker, answer, killed, home>>
-----------------------------------------------------------------------------
\* Before the command.

\* authorize_captured's key: a namespace without capabilities asks nothing.
AuthKey(flags) == {<<ns, flags[ns]>> : ns \in {n \in Namespaces : flags[n] # {}}}

\* _approved_by_owner: a read-only command may run in a copy too; a scratch
\* command only there.
Approved(c) == c.approved = "readonly" \/ (c.scratch /\ c.approved = "scratch")

\* The refusals that need no question: an unapproved command, a scratch
\* directory that is not strictly inside the scratch root, a command that
\* writes in place where nothing can be kept read-only.
Acceptable(c) ==
    /\ Approved(c)
    /\ c.scratch => c.inside
    /\ ~(c.inPlace /\ c.scratch /\ c.isolation = "container")

BeginCall ==
    /\ caller = "idle" /\ worker \in {"none", "done"}
    /\ made < MaxCalls
    /\ made' = made + 1
    /\ \E c \in Calls :
         /\ call' = c
         /\ IF Acceptable(c) THEN caller' = "asking" /\ callOutcome' = "none"
                             ELSE caller' = "idle" /\ callOutcome' = "refused"
    /\ worker' = "none" /\ answer' = "none" /\ cancel' = FALSE
    /\ leader' = "none" /\ kid' = "none" /\ stray' = "none" /\ killed' = FALSE /\ late' = FALSE
    /\ home' = "none" /\ planted' = FALSE /\ abandoned' = FALSE
    /\ UNCHANGED <<authorized, agreed, binds>>

\* _pre_run_checks: the primary language's check, then that of every other
\* namespace with a capability.  A check that raises allows; the first that
\* blocks ends it.
Checks(flags) == {"primary"} \cup {ns \in Namespaces : flags[ns] # {}}
Allowed(answers) == \A ns \in DOMAIN answers : answers[ns] # "blocks"

Authorize ==
    /\ caller = "asking"
    /\ LET key == AuthKey(call.flags) IN
       \/ /\ key \in DOMAIN authorized
          /\ UNCHANGED <<authorized, agreed>>
          /\ IF authorized[key] THEN caller' = "assembling" /\ UNCHANGED callOutcome
                                ELSE caller' = "idle" /\ callOutcome' = "refused"
       \/ /\ key \notin DOMAIN authorized
          /\ \E answers \in [Checks(call.flags) -> {"allows", "blocks", "raises"}] :
               /\ authorized' = [k \in DOMAIN authorized \cup {key} |->
                                   IF k = key THEN Allowed(answers) ELSE authorized[k]]
               /\ agreed' = IF Allowed(answers) THEN agreed \cup {call.flags} ELSE agreed
               /\ IF Allowed(answers) THEN caller' = "assembling" /\ UNCHANGED callOutcome
                                      ELSE caller' = "idle" /\ callOutcome' = "refused"
    /\ UNCHANGED <<call, made, binds, abandoned, cancel, late, command_vars, worker_vars>>

\* _assemble_sandbox makes the snapshots; from here on every way out removes
\* them.  A writable path that overlaps the copy, or that sandbox.editable_roots
\* refuses, is found only now.
AssembleCall ==
    /\ caller = "assembling"
    /\ binds' = TRUE
    /\ IF call.fits
       THEN /\ caller' = "waiting" /\ worker' = "queued"
            /\ UNCHANGED callOutcome
       ELSE /\ caller' = "leaving" /\ callOutcome' = "refused"
            /\ UNCHANGED worker
    /\ UNCHANGED <<call, made, authorized, agreed, abandoned, cancel, late, command_vars,
                   answer, killed, home>>
-----------------------------------------------------------------------------
\* The worker thread of a container run.

Container == call.isolation = "container"

WorkerEnds(result, fresh) ==
    /\ worker' = IF fresh = "none" THEN "done" ELSE "ending"
    /\ answer' = result
    /\ home' = fresh

\* run_container: what a container cannot honour (root, credentials in $HOME,
\* no network, hidden paths) is refused, and a call cancelled by now copies
\* nothing.
Prepare ==
    /\ Container /\ worker = "queued"
    /\ \/ WorkerEnds("refused", "none")
       \/ cancel /\ WorkerEnds("cancelled", "none")
       \/ ~cancel /\ worker' = "prepared" /\ home' = "made" /\ UNCHANGED answer
    /\ UNCHANGED <<caller_vars, command_vars, cancel, killed, late>>

\* hidden_home_paths and populate_home: a plug-in that cannot name what to
\* hide, or an entry that cannot be copied, refuses the run.
Populate ==
    /\ worker = "prepared"
    /\ \/ WorkerEnds("refused", home)
       \/ worker' = "starting" /\ UNCHANGED <<answer, home>>
    /\ UNCHANGED <<caller_vars, command_vars, cancel, killed, late>>

\* _execute: cancelled while the home was prepared, it starts nothing.
LastLook ==
    /\ worker = "starting"
    /\ IF cancel THEN WorkerEnds("cancelled", home)
                 ELSE worker' = "launching" /\ UNCHANGED <<answer, home>>
    /\ UNCHANGED <<caller_vars, command_vars, cancel, killed, late>>

Launch ==
    /\ worker = "launching"
    /\ \/ WorkerEnds("refused", home) /\ UNCHANGED leader
       \/ worker' = "polling" /\ leader' = "running" /\ UNCHANGED <<answer, home>>
    /\ UNCHANGED <<caller_vars, cancel, killed, late, kid, stray, planted>>

PipesOpen == leader = "running" \/ kid = "holding" \/ stray = "holding"

\* _kill_group: SIGKILL to the command and what is left of its group.
KillGroup ==
    /\ leader' = IF leader = "running" THEN "killed" ELSE leader
    /\ kid' = "none"

\* Mutant: a command that ended by itself left nothing behind.
FinishedByItself ==
    /\ worker = "polling" /\ ~PipesOpen
    /\ WorkerEnds("result", home)
    /\ UNCHANGED <<caller_vars, cancel, killed, late, command_vars>>

\* communicate returned: the command has exited and its pipes are closed.
FinishedCall ==
    /\ worker = "polling" /\ ~PipesOpen
    /\ KillGroup
    /\ WorkerEnds("result", home)
    /\ UNCHANGED <<caller_vars, cancel, killed, late, stray, planted>>

\* Each time communicate times out, in this order: the event; a command that
\* has exited with something left holding its pipes; the deadline.
PollCancelled ==
    /\ worker = "polling" /\ PipesOpen /\ cancel
    /\ KillGroup
    /\ WorkerEnds("cancelled", home)
    /\ UNCHANGED <<caller_vars, cancel, killed, late, stray, planted>>

PollExited ==
    /\ worker = "polling" /\ PipesOpen /\ ~cancel
    /\ ~killed /\ leader = "exited"
    /\ KillGroup
    /\ killed' = TRUE
    /\ UNCHANGED <<caller_vars, cancel, late, stray, planted, worker, answer, home>>

PollLate ==
    /\ worker = "polling" /\ PipesOpen /\ ~cancel
    /\ killed \/ leader # "exited"
    /\ late
    /\ KillGroup
    /\ WorkerEnds("timedout", home)
    /\ UNCHANGED <<caller_vars, cancel, killed, late, stray, planted>>

\* run_container's finally; a tree that cannot be removed is named in the log.
RemoveHome ==
    /\ worker = "ending"
    /\ worker' = "done"
    /\ home' \in {"removed", "left"}
    /\ UNCHANGED <<caller_vars, command_vars, answer, cancel, killed, late>>
-----------------------------------------------------------------------------
\* bwrap: the thread waits in subprocess.run, which kills bwrap, and with it
\* all it holds, when the time is up.

BwrapStarts ==
    /\ ~Container /\ worker = "queued"
    /\ \/ worker' = "polling" /\ leader' = "running" /\ UNCHANGED answer
       \/ worker' = "done" /\ answer' = "refused" /\ UNCHANGED leader
    /\ UNCHANGED <<caller_vars, cancel, killed, late, home, kid, stray, planted>>

BwrapEnds ==
    /\ ~Container /\ worker = "polling"
    /\ \/ leader = "exited" /\ answer' = "result" /\ UNCHANGED leader
       \/ late /\ leader = "running" /\ answer' = "timedout" /\ leader' = "killed"
    /\ worker' = "done"
    /\ UNCHANGED <<caller_vars, cancel, killed, late, home, kid, stray, planted>>
-----------------------------------------------------------------------------
\* The command, and time.

WhileRunning(step) == leader = "running" /\ step /\ UNCHANGED <<caller_vars, worker_vars, cancel, late>>

Plant == WhileRunning(~Container /\ planted' = TRUE /\ UNCHANGED <<leader, kid, stray>>)
LeaveKid == WhileRunning(Container /\ kid = "none" /\ kid' \in {"quiet", "holding"} /\ UNCHANGED <<leader, stray, planted>>)
LeaveStray == WhileRunning(Container /\ stray = "none" /\ stray' \in {"quiet", "holding"} /\ UNCHANGED <<leader, kid, planted>>)
Exits == WhileRunning(leader' = "exited" /\ UNCHANGED <<kid, stray, planted>>)

ChildExits ==
    /\ \/ kid # "none" /\ kid' = "none" /\ UNCHANGED stray
       \/ stray # "none" /\ stray' = "none" /\ UNCHANGED kid
    /\ UNCHANGED <<caller_vars, worker_vars, cancel, late, leader, planted>>

TimePasses ==
    /\ worker = "polling" /\ ~late
    /\ late' = TRUE
    /\ UNCHANGED <<caller_vars, worker_vars, command_vars, cancel>>
-----------------------------------------------------------------------------
\* The call.

\* Ctrl-C, or the task is cancelled.  Awaiting bwrap's thread raises at once;
\* a container's thread is told and waited for.
InterruptCall ==
    /\ caller = "waiting"
    /\ IF Container
       THEN caller' = "grace" /\ cancel' = TRUE /\ UNCHANGED <<callOutcome, abandoned>>
       ELSE caller' = "leaving" /\ callOutcome' = "cancelled" /\ abandoned' = TRUE /\ UNCHANGED cancel
    /\ UNCHANGED <<call, made, authorized, agreed, binds, late, command_vars, worker_vars>>

\* The thread is done in time, _CANCEL_GRACE is over, or a second interrupt.
GraceEnds ==
    /\ caller = "grace"
    /\ \/ worker = "done" /\ UNCHANGED abandoned
       \/ worker # "done" /\ abandoned' = TRUE
    /\ caller' = "leaving" /\ callOutcome' = "cancelled"
    /\ UNCHANGED <<call, made, authorized, agreed, binds, cancel, late, command_vars, worker_vars>>

\* repository_changes, of a run that started, one that timed out included.
FoundPlanted == planted /\ answer # "refused"

\* quarantine_repositories: what was planted is renamed, or named to the user
\* when it cannot be.
Quarantine == planted' \in BOOLEAN

\* The answer.  A repository planted or changed in a writable source fails the
\* run.
CollectAnswer ==
    /\ caller = "waiting" /\ worker = "done"
    /\ IF FoundPlanted
       THEN Quarantine /\ callOutcome' = "refused"
       ELSE callOutcome' = answer /\ UNCHANGED planted
    /\ caller' = "leaving"
    /\ UNCHANGED <<call, made, authorized, agreed, binds, abandoned, cancel, late, leader, kid, stray,
                   worker_vars>>

\* The finally: the snapshots go.
LeaveCall ==
    /\ caller = "leaving"
    /\ binds' = FALSE
    /\ caller' = "idle"
    /\ UNCHANGED <<call, made, callOutcome, authorized, agreed, abandoned, cancel, late, command_vars,
                   worker_vars>>

NoCall == caller = "idle" /\ UNCHANGED callVars
-----------------------------------------------------------------------------
CallInit ==
    /\ call \in {c \in Calls : c.approved = "nobody" /\ ~c.scratch /\ ~c.inside /\ ~c.inPlace /\ ~c.fits
                               /\ c.isolation = "bwrap" /\ \A ns \in Namespaces : c.flags[ns] = {}}
    /\ made = 0 /\ caller = "idle" /\ callOutcome = "none"
    /\ authorized = [k \in {} |-> FALSE] /\ agreed = {}
    /\ binds = FALSE /\ worker = "none" /\ answer = "none" /\ cancel = FALSE
    /\ leader = "none" /\ kid = "none" /\ stray = "none" /\ killed = FALSE /\ late = FALSE
    /\ home = "none" /\ planted = FALSE /\ abandoned = FALSE

CallNext ==
    \/ BeginCall \/ Authorize \/ AssembleCall
    \/ Prepare \/ Populate \/ LastLook \/ Launch
    \/ FinishedCall \/ PollCancelled \/ PollExited \/ PollLate \/ RemoveHome
    \/ BwrapStarts \/ BwrapEnds
    \/ Plant \/ LeaveKid \/ LeaveStray \/ Exits \/ ChildExits \/ TimePasses
    \/ InterruptCall \/ GraceEnds \/ CollectAnswer \/ LeaveCall \/ NoCall

CallSpec == CallInit /\ [][CallNext]_callVars
-----------------------------------------------------------------------------
\* Properties.

\* When the thread is done, nothing of the command's process group is left
\* and its fresh home (which holds copies of the user's configuration) is gone
\* or was named; when the call is over and has not given the thread up, the
\* thread is done and the credential snapshots are gone.
ProcessesEndWithTheCall ==
    /\ (worker = "done" /\ Container) => leader # "running" /\ kid = "none" /\ home # "made"
    /\ (caller = "idle" /\ ~abandoned) => worker \in {"none", "done"} /\ ~binds
    /\ (caller = "idle" /\ callOutcome = "cancelled" /\ ~abandoned) => leader # "running" /\ kid = "none"

\* No command runs with capabilities the pre-run checks did not let pass, asked
\* for exactly these: an answer is remembered for the run of trials, and not
\* stretched to other flags.
NothingRunsUnasked ==
    leader # "none" =>
        /\ \E flags \in agreed : \A ns \in Namespaces : flags[ns] = call.flags[ns]
        /\ Acceptable(call)

\* A trial that returns an answer (its exit status, or that it timed out)
\* leaves no repository where the command planted it.
PlantedIsMovedAside ==
    (caller = "idle" /\ callOutcome \in {"result", "timedout"}) => ~planted

\* No process of a captured run outlives the call, nothing runs with a
\* capability the user did not agree to, and what was planted is moved aside.
NothingOutlivesTheCall == ProcessesEndWithTheCall /\ NothingRunsUnasked /\ PlantedIsMovedAside
=============================================================================
