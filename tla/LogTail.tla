------------------------------ MODULE LogTail ------------------------------
(***************************************************************************)
(* What the log shipper promises, without offsets, open files, sinks that  *)
(* answer or a place in the loop: the bytes of a log are taken in the      *)
(* order they were written, none twice and none left out but those         *)
(* rotation took away; what is in hand goes to the sink, goes where the    *)
(* sink diverts it, or is counted as a failure.                            *)
(***************************************************************************)
EXTENDS Integers

VARIABLES
    written,    \* the last byte written
    base,       \* the last byte written before the file that is there now
    mark,       \* the last byte taken since the sidecar started
    hand,       \* the bytes in hand
    sunk,       \* the bytes the sink has
    diverted,   \* the bytes it has diverted since the sidecar started
    failures    \* the failures counted since the sidecar started

vars == <<written, base, mark, hand, sunk, diverted, failures>>

Init ==
    /\ written = 0
    /\ base = 0
    /\ mark = 0
    /\ hand = {}
    /\ sunk = {}
    /\ diverted = {}
    /\ failures = 0

Write ==
    /\ written' = written + 1
    /\ UNCHANGED <<base, mark, hand, sunk, diverted, failures>>

Rotate ==
    /\ base' = written
    /\ UNCHANGED <<written, mark, hand, sunk, diverted, failures>>

\* The next bytes: what is skipped is no longer in the file.
Take ==
    /\ hand = {}
    /\ \E from \in (mark + 1) .. written :
          /\ from - 1 = mark \/ from - 1 <= base
          /\ mark' \in from .. written
          /\ hand' = from .. mark'
    /\ UNCHANGED <<written, base, sunk, diverted, failures>>

\* The sink has what is in hand, which may be let go of then.
Deliver ==
    /\ hand # {}
    /\ sunk' = sunk \union hand
    /\ hand' \in {hand, {}}
    /\ UNCHANGED <<written, base, mark, diverted, failures>>

\* The sink has sent what is in hand elsewhere; nobody knows of a loss.
Divert ==
    /\ hand # {}
    /\ diverted' = diverted \union hand
    /\ hand' = {}
    /\ UNCHANGED <<written, base, mark, sunk, failures>>

GiveUp ==
    /\ hand # {}
    /\ hand' = {}
    /\ failures' = failures + 1
    /\ UNCHANGED <<written, base, mark, sunk, diverted>>

\* A restart knows nothing of the bytes taken before.
Restart ==
    /\ mark' = 0
    /\ hand' = {}
    /\ diverted' = {}
    /\ failures' = 0
    /\ UNCHANGED <<written, base, sunk>>

Next == Write \/ Rotate \/ Take \/ Deliver \/ Divert \/ GiveUp \/ Restart

Spec == Init /\ [][Next]_vars

\* While no failure is counted, what was taken of the file that is there now
\* has arrived, was diverted or is in hand.
NothingLost ==
    failures = 0 => (base + 1) .. mark \subseteq sunk \union diverted \union hand
=============================================================================
