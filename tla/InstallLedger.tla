--------------------------- MODULE InstallLedger ---------------------------
(***************************************************************************)
(* What the daemon's claims and completion tables promise, whoever uses    *)
(* them: an install is evaluated by one evaluator at a time, an evaluation *)
(* that completed is remembered, and the install is not evaluated again    *)
(* before its window is over.  An evaluator takes a whole batch of         *)
(* installs in one step, or none of it.                                    *)
(***************************************************************************)
EXTENDS Integers

CONSTANTS
  Installs,   \* what is evaluated
  Window,     \* Window[k]: how long a completed evaluation of k counts
  Never       \* the time of an evaluation that is not remembered

VARIABLES
  busy,       \* the installs under evaluation
  memory,     \* memory[k]: when the evaluation of k completed
  now

ledger == <<busy, memory, now>>

Remembered(k) == memory[k] # Never /\ now - memory[k] < Window[k]

Forgetting(F) == memory' = [k \in Installs |-> IF k \in F THEN Never ELSE memory[k]]

Init == busy = {} /\ memory = [k \in Installs |-> Never] /\ now = 0

\* An evaluator takes the batch S.
Begin(S) ==
  /\ S \cap busy = {}
  /\ \A k \in S : ~Remembered(k)
  /\ busy' = busy \cup S
  /\ \E F \in SUBSET {k \in Installs : ~Remembered(k)} : Forgetting(F)
  /\ UNCHANGED now

\* Entries that no longer count are forgotten.
Forget ==
  /\ \E F \in SUBSET {k \in Installs : ~Remembered(k)} : Forgetting(F)
  /\ UNCHANGED <<busy, now>>

\* The evaluation of k ends, and is remembered when it completed.
End(k) ==
  /\ k \in busy
  /\ busy' = busy \ {k}
  /\ UNCHANGED memory \/ memory' = [memory EXCEPT ![k] = now]
  /\ UNCHANGED now

Tick == now' = now + 1 /\ UNCHANGED <<busy, memory>>

Next ==
  \/ \E S \in SUBSET Installs : Begin(S)
  \/ \E k \in Installs : End(k)
  \/ Forget \/ Tick

Spec == Init /\ [][Next]_ledger
=============================================================================
