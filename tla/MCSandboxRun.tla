---------------------------- MODULE MCSandboxRun ----------------------------
(* The instance of SandboxRun for TLC: a target that is scanned and backed up, and an
   environment that only the run makes.  A rebuild may be interrupted at any step. *)
EXTENDS SandboxRun

Versions == {"evil", "young"}
OwnPath == [p \in Versions |-> p]

Parsed(pkgs) == [kind |-> "parsed", pkgs |-> pkgs]
NoLock(kind) == [kind |-> kind, pkgs |-> {}]
Dir(pkgs, large) == [kind |-> "dir", pkgs |-> pkgs, large |-> large]
Impostor == [kind |-> "impostor", pkgs |-> {}, large |-> "none"]

SomeLocks == {NoLock("gone"), NoLock("garbled"), Parsed({"evil"}), Parsed({"young"})}
SomeTrees == {Gone, Impostor, Dir({"evil"}, "old"), Dir({"young"}, "new")}
SomeDisks ==
  {[lock |-> l, root |-> [r \in Roots |-> IF r \in Scanned THEN t ELSE Gone]] :
     l \in {NoLock("gone"), NoLock("unreadable"), Parsed({"young"})},
     t \in {Gone, Dir({"young"}, "old")}}
Command(kind, nochange, named, fromlock, external, stale) ==
  [kind |-> kind, nochange |-> nochange, named |-> named, fromlock |-> fromlock, external |-> external,
   stale |-> stale]
SomeCommands ==
  {Command(k, d, {}, k = "command", FALSE, s) : k \in {"command", "shell"}, d \in BOOLEAN, s \in {{}, {"evil"}}}
  \cup {Command("command", FALSE, n, FALSE, FALSE, {}) : n \in {{}, Versions}}
  \cup {Command(k, FALSE, Versions, TRUE, e, {}) : k \in {"unknown", "global", "shell"}, e \in BOOLEAN}

Rebuild == cmd.kind = "command" /\ cmd.named = {} /\ cmd.stale = {} /\ ~cmd.fromlock
Within == cancelled \/ phase \in {"raised", "killed"} => Rebuild
MCSpec == Init /\ [][Next /\ Within']_vars
=============================================================================
