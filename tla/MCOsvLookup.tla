---------------------------- MODULE MCOsvLookup ----------------------------
(* The instance of OsvLookup for TLC: one package gets two malicious advisories,
   the other stays clean, and both are always looked up together. *)
EXTENDS OsvLookup, TLC

CONSTANTS good, bad, byId, byAlias

MCListed == [p \in Packages |-> IF p = bad THEN Advisories ELSE {}]
MCBatches == {<<good, bad>>}
MCSymmetry == Permutations(Lookups)

\* The advisory that is malicious by its alias is listed with the other one.
Within == published[bad][byAlias] \in {Unlisted, published[bad][byId]}
MCSpec == Init /\ [][Next /\ Within']_vars
=============================================================================
