---------------------------- MODULE ReplayedView -----------------------------
(***************************************************************************)
(* What a view fed from a log promises: it is built by delivering the log  *)
(* in order, from a cursor that may be set back (an at-least-once reader), *)
(* and entries of it may be removed at any time (a cache that is swept).   *)
(* An entry is removed by its closing record and replaced by any other.    *)
(***************************************************************************)
EXTENDS Integers, Sequences

CONSTANTS
    Keys,       \* what a record is about
    Entries,    \* records: a train of Keys and a closing flag, arrived
    None        \* no entry in the view

VARIABLES
    log,        \* the records, in order
    cursor,     \* how many of them the reader has behind it
    view        \* the entry of each key

vars == <<log, cursor, view>>

Init ==
    /\ log = <<>>
    /\ cursor = 0
    /\ view = [k \in Keys |-> None]

Grow ==
    /\ \E e \in Entries : log' = Append(log, e)
    /\ UNCHANGED <<cursor, view>>

Deliver ==
    /\ cursor < Len(log)
    /\ cursor' = cursor + 1
    /\ LET e == log[cursor + 1]
       IN  view' = [view EXCEPT ![e.train] = IF e.arrived THEN None ELSE e]
    /\ UNCHANGED log

\* The entry of the key disappears; the log still has its records.
Hide(k) ==
    /\ view' = [view EXCEPT ![k] = None]
    /\ UNCHANGED <<log, cursor>>

Rewind ==
    /\ cursor' \in 0 .. cursor
    /\ UNCHANGED <<log, view>>

Next == Grow \/ Deliver \/ (\E k \in Keys : Hide(k)) \/ Rewind

Spec == Init /\ [][Next]_vars
=============================================================================
