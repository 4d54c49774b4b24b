---------------------------- MODULE AppendOnlyLog ----------------------------
(***************************************************************************)
(* What the transparency log promises whoever reads it: one sequence of    *)
(* links that only grows at its end, in which a link whose key is among    *)
(* the last Window ones is never repeated.  A restore of the store from a  *)
(* backup may cut the sequence, and is the only step that may.             *)
(***************************************************************************)
EXTENDS Integers, Sequences

CONSTANTS
  Window,  \* how many keys back a repetition is noticed
  Link     \* the links that may be logged

VARIABLE log

KeyOf(l) == <<l.inc, l.status>>

\* The keys among the last n links of s.
LastKeys(s, n) == {KeyOf(s[k]) : k \in {j \in 1..Len(s) : j > Len(s) - n}}

Init == log = <<>>

Extend(l) ==
  /\ KeyOf(l) \notin LastKeys(log, Window)
  /\ log' = Append(log, l)

Cut(k) == log' = SubSeq(log, 1, k)

Grow   == Len(log') > Len(log) /\ \E l \in Link : Extend(l)
Shrink == Len(log') < Len(log) /\ \E k \in 0..Len(log) : Cut(k)

Spec == Init /\ [][Grow]_log

\* The same log in a store that may be restored from a backup.
RestorableSpec == Init /\ [][Grow \/ Shrink]_log
==============================================================================
