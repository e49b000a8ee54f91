----------------------------- MODULE DurableLog -----------------------------
(***************************************************************************)
(* What the durability layer promises (docs/durability.md 5 and 6, wal.go's *)
(* born-sealed contract): the database is a log of records.  A restart may *)
(* lose a suffix of it, never a record that was declared safe, and never a *)
(* record from the middle unless its bytes rotted on disk.                 *)
(***************************************************************************)
EXTENDS Integers

VARIABLES
    log,    \* the records the database stands for
    safe,   \* those it must not lose any more
    holes   \* those whose bytes were destroyed in place

Init == log = {} /\ safe = {} /\ holes = {}

\* A write joins the log after everything in it.
Write ==
    /\ \E l \in log' : (\A m \in log : m < l) /\ log' = log \cup {l}
    /\ UNCHANGED <<safe, holes>>

\* A seal makes records of the log safe.
Harden ==
    /\ safe \subseteq safe' /\ safe' \subseteq log
    /\ UNCHANGED <<log, holes>>

\* Storage outside the program's control is damaged.
Damage ==
    /\ safe' \subseteq safe
    /\ holes \subseteq holes'
    /\ UNCHANGED log

\* A restart keeps a prefix of the log that covers every safe record.
Restart ==
    /\ log' \subseteq log
    /\ safe \subseteq log'
    /\ \A l \in log', m \in log : m < l => m \in log' \cup holes
    /\ UNCHANGED <<safe, holes>>

Next == Write \/ Harden \/ Damage \/ Restart

Spec == Init /\ [][Next]_<<log, safe, holes>>

=============================================================================
