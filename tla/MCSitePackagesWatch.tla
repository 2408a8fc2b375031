------------------------ MODULE MCSitePackagesWatch ------------------------
(* The instance of SitePackagesWatch for TLC: one path, configured or not, has
   directories, and there is a second process, a second directory or a refusal. *)
EXTENDS SitePackagesWatch

CONSTANTS venv, lib

Complications ==
  (dirs - 1) + refused + Cardinality({n \in Procs \ {1} : procs[n].state # "unborn"})
OnePath == \A p \in Paths : dir[p] # Gone => p = procs[1].path
Within ==
  /\ Complications <= 1 /\ OnePath
  /\ Cardinality(calls) <= 1 /\ Cardinality(kernel) + Cardinality(posts) <= 1
MCInit == Init /\ OnePath /\ \E p \in Paths : dir[p].ino = 1
MCSpec == MCInit /\ [][Next /\ Within']_vars /\ Fairness
=============================================================================
