---- MODULE SnapshotBinds ----
(* The throwaway snapshots behind writable binds: runner.py's                *)
(* _collect_writable_binds asks each language plugin for (source,            *)
(* destination) pairs, validates them one by one, removes the snapshots it   *)
(* rejects and hands the rest to the run, whose end removes those.  An       *)
(* interruption may fall between any two steps.                              *)
EXTENDS Naturals, Sequences, SequencesExt, FiniteSets

CONSTANTS
  Directories,  \* the directories a plugin can name, as paths
  Throwaway,    \* those under the temporary directory whose name starts with pa-
  Links,        \* links under the temporary directory, with the directory each leads to
  Dests,        \* destinations a bind may have
  Languages,    \* how many language plugins there are
  MaxPairs      \* bound on the entries one plugin returns

Srcs == Directories \union DOMAIN Links
Unsafe == "unsafe"   \* a destination _is_safe_writable_bind_dest() refuses
Resolve(p) == IF p \in DOMAIN Links THEN Links[p] ELSE p
Within(p, r) == IsPrefix(r, p)
Overlap(p, q) == Within(p, q) \/ Within(q, p)

(* What a plugin may return: pairs, a malformed entry that starts with a     *)
(* path, or a tuple or set of them where a list is expected.                 *)
Entries == [src : Srcs, dst : Dests \union {Unsafe}, wellFormed : {TRUE}]
           \union [src : Srcs, dst : {Unsafe}, wellFormed : {FALSE}]
Lists == UNION {[1..n -> Entries] : n \in 0..MaxPairs}

VARIABLES
  disk,      \* what exists of Srcs
  asked,     \* how many plugins have been asked
  left,      \* entries of the current plugin not yet validated
  valid,     \* valid_pairs: entries of the current plugin accepted so far
  pending,   \* every entry of the current plugin, until each is in result or rejected
  result, rejected, deferred,
  phase,     \* "ask", "entry", "print", "run", "done"
  returned   \* every source a plugin has returned
vars == <<disk, asked, left, valid, pending, result, rejected, deferred, phase, returned>>

Own == Directories \ Throwaway   \* the user's

IsDir(on, p) == Resolve(p) \in on /\ p \in on
IsSafeAnywhere(on, p) == IsDir(on, p)
IsSafeSrc(on, p) == IsDir(on, p) /\ Resolve(p) \in Throwaway

UnsharedRejected(on, entries, accepted) ==
  SelectSeq(entries, LAMBDA e : /\ IsSafeSrc(on, e.src)
                                /\ ~\E a \in ToSet(accepted) : Overlap(Resolve(a.src), Resolve(e.src)))

(* _cleanup_writable_binds(): resolve first, remove the directory, then the link. *)
RemoveOne(on, e) ==
  IF e.src \notin on THEN on
  ELSE IF Resolve(e.src) \notin on THEN on \ {e.src}
  ELSE IF IsSafeSrc(on, e.src)
  THEN {p \in on : ~Within(p, Resolve(e.src))} \ {e.src}
  ELSE on
Cleanup(on, entries) == FoldLeft(LAMBDA d, e : RemoveOne(d, e), on, entries)

Init ==
  /\ disk = Own
  /\ asked = 0 /\ phase = "ask"
  /\ left = <<>> /\ valid = <<>> /\ pending = <<>>
  /\ result = <<>> /\ rejected = <<>> /\ deferred = <<>>
  /\ returned = {}

(* configure_sandbox_writable() makes its snapshots and returns them. *)
Made(list) ==
  LET srcs == {list[k].src : k \in DOMAIN list}
      real == {Resolve(s) : s \in srcs}
  IN  srcs \union real \union {p \in Throwaway : \E r \in real : Within(r, p)}

Call ==
  /\ phase = "ask" /\ asked < Languages
  /\ \E list \in Lists :
       /\ disk' = disk \union Made(list)
       /\ returned' = returned \union {list[k].src : k \in DOMAIN list}
       /\ asked' = asked + 1
       /\ \/ /\ left' = list /\ pending' = list /\ phase' = "entry"
             /\ UNCHANGED rejected
          \/ \* a tuple or a set: its snapshots are only noted
             /\ rejected' = rejected \o list
             /\ UNCHANGED <<left, pending, phase>>
  /\ UNCHANGED <<valid, result, deferred>>

Duplicate(e) ==
  \E a \in ToSet(result \o valid) : Resolve(a.src) = Resolve(e.src) /\ a.dst = e.dst

Validate ==
  /\ phase = "entry" /\ left # <<>>
  /\ LET e == Head(left)
         accepted == e.wellFormed /\ IsSafeSrc(disk, e.src) /\ e.dst # Unsafe /\ ~Duplicate(e)
     IN  /\ valid' = IF accepted THEN Append(valid, e) ELSE valid
         /\ rejected' = IF accepted THEN rejected ELSE Append(rejected, e)
  /\ left' = Tail(left)
  /\ UNCHANGED <<disk, asked, pending, result, deferred, phase, returned>>

Accept ==
  /\ phase = "entry" /\ left = <<>>
  /\ result' = result \o valid
  /\ valid' = <<>> /\ pending' = <<>> /\ phase' = "ask"
  /\ UNCHANGED <<disk, asked, left, rejected, deferred, returned>>

(* All asked: what overlaps no accepted source goes now, the rest later. *)
Settle ==
  /\ phase = "ask" /\ asked = Languages
  /\ LET now == UnsharedRejected(disk, rejected, result)
         after == Cleanup(disk, now)
     IN  /\ disk' = after
         /\ deferred' = SelectSeq(UnsharedRejected(after, rejected, <<>>),
                                  LAMBDA e : e \notin ToSet(now))
  /\ phase' = "print"
  /\ UNCHANGED <<asked, left, valid, pending, result, rejected, returned>>

(* The warnings are printed, the rest of the sandbox assembled, and it runs. *)
Start ==
  /\ phase = "print" /\ phase' = "run"
  /\ UNCHANGED <<disk, asked, left, valid, pending, result, rejected, deferred, returned>>

End(on) ==
  /\ disk' = on /\ phase' = "done"
  /\ UNCHANGED <<asked, left, valid, pending, result, rejected, deferred, returned>>

(* An exception or Ctrl-C while the plugins are asked ... *)
OnInterrupt(on) == Cleanup(on, result \o UnsharedRejected(on, rejected \o pending, <<>>))
InterruptCollect == phase \in {"ask", "entry"} /\ End(OnInterrupt(disk))
(* ... and afterwards: the caller's cleanup takes the deferred ones along. *)
Finish == phase \in {"print", "run"} /\ End(Cleanup(disk, result \o deferred))

Done == phase = "done" /\ UNCHANGED vars
Next == Call \/ Validate \/ Accept \/ Settle \/ Start \/ InterruptCollect \/ Finish \/ Done
Spec == Init /\ [][Next]_vars

TypeOK ==
  /\ disk \subseteq Srcs /\ asked \in 0..Languages /\ returned \subseteq Srcs
  /\ phase \in {"ask", "entry", "print", "run", "done"}
  /\ \A s \in {left, valid, pending, result, rejected, deferred} : \A k \in DOMAIN s : s[k] \in Entries

(* A snapshot accepted for the run is on disk until the run has ended: no    *)
(* removal of a rejected one takes it along, wherever the two lie.           *)
AcceptedIsThere == phase = "run" => \A e \in ToSet(result) : IsDir(disk, e.src)

(* However the run ends, interrupted or not, no snapshot a plugin returned   *)
(* is left (it holds credentials), and no link to one.                       *)
NoSnapshotIsLeft ==
  phase = "done" => \A s \in returned : Resolve(s) \in Throwaway => {s, Resolve(s)} \intersect disk = {}

(* Nothing but snapshots is ever removed, whatever a plugin returns.         *)
OthersAreKept == Own \subseteq disk
====
