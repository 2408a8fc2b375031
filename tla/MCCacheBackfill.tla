-------------------------- MODULE MCCacheBackfill --------------------------
(* The instance of CacheBackfill for TLC: two plugins share a root.  Two artifacts are
   made and everything may fail, or three are and registrations are refused. *)
EXTENDS CacheBackfill, TLC

CONSTANTS p1, p2, uv, pip

OneEach == p1 :> uv @@ p2 :> pip

Within ==
  root > 1 \/ raised > 0 => made <= 2 /\ (refused + raised <= 1 \/ refused = 0)
MCSpec == Init /\ [][Next /\ Within']_vars
  /\ WF_vars(\E e \in kernel : Dispatch(e)) /\ WF_vars(Maintain) /\ WF_vars(Walk)
=============================================================================
