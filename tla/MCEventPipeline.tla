-------------------------- MODULE MCEventPipeline --------------------------
(* Instances of EventPipeline for TLC. *)
EXTENDS EventPipeline, TLC

CONSTANTS c1, c2, p1, p2, d1, s1, s2

Process(p, s, pub) ==
  [pkg |-> p, dir |-> d1, proc |-> s, src |-> "process", public |-> pub]
Cache(p) ==
  [pkg |-> p, dir |-> NoDir, proc |-> NoProc, src |-> "cache", public |-> TRUE]

\* The daemon as it is deployed: a process monitor and a cache monitor.
MonitorSources == c1 :> {"process"} @@ c2 :> {"cache"}
MonitorEvents == {Process(p1, s1, TRUE), Process(p1, s1, FALSE), Process(p1, NoProc, TRUE),
                  Cache(p1)}

\* Two tasks that observe the same two installs, a public and a private one, or
\* two private ones, which need no query: what is left is the claiming.
SharedSources == c1 :> {"process"} @@ c2 :> {"process"}
QueriedEvents == {Process(p1, s1, TRUE), Process(p1, s2, FALSE)}
CrossedEvents == {Process(p1, s1, FALSE), Process(p1, s2, FALSE)}
SharedEvents == QueriedEvents \cup CrossedEvents

\* The bound of the shared run: three observations, or four of the private ones,
\* which two tasks may hold in opposite orders, before any window passes.
Seen == {event[i] : i \in 1 .. arrived}
Within ==
  \/ arrived <= 3 /\ Seen \subseteq QueriedEvents
  \/ now = 0 /\ Seen \subseteq CrossedEvents
SharedNext ==
  \/ \E c \in Consumers : Step(c) \/ PrefetchFail(c) \/ Fail(c)
  \/ /\ (\E c \in Consumers : \E e \in Events : Arrive(c, e))
        \/ (\E p \in Packages : ExpireRow(p)) \/ Tick \/ Prune
     /\ Within'
SharedSpec == Init /\ [][SharedNext]_vars /\ Fairness
=============================================================================
