----------------------------- MODULE MCMessages -----------------------------
(* An instance of Messages for TLC. *)
EXTENDS Messages

CONSTANTS t1, t2, event, timer1, n1, n2, n3

MCTasks == {t1, t2}
MCEvents == {event}
MCTimers == {timer1}
MCInvokers == {n1, n2, n3}

Symmetry == Permutations(MCTasks) \cup Permutations(MCInvokers)
==============================================================================
