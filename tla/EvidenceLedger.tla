---------------------------- MODULE EvidenceLedger ----------------------------
(***************************************************************************)
(* What the evidence service promises its clients: rows only ever join the *)
(* durable evidence, an episode has one row, and an answer to a client     *)
(* names a row that is durable already.                                    *)
(***************************************************************************)
EXTENDS Sequences, Naturals

CONSTANTS
  Rows,       \* observed evidence
  Key(_),     \* the evidence id of a row
  Unique      \* the ids that identify one observation

VARIABLES
  durable,    \* the rows a restart finds
  answered    \* rows whose client has its answer

RowsOf(s) == {s[i] : i \in 1..Len(s)}

KeysUnique(s) ==
  \A i, j \in 1..Len(s) :
    i # j /\ Key(s[i]) \in Unique => Key(s[i]) # Key(s[j])

Init == durable = <<>> /\ answered = {}

\* A save makes every row observed so far durable, at once.
Commit ==
  /\ durable' # durable
  /\ durable' \in Seq(Rows)
  /\ Len(durable') >= Len(durable)
  /\ SubSeq(durable', 1, Len(durable)) = durable
  /\ KeysUnique(durable')
  /\ UNCHANGED answered

Answer ==
  /\ \E row \in RowsOf(durable) : answered' = answered \cup {row}
  /\ UNCHANGED durable

Next == Commit \/ Answer

Spec == Init /\ [][Next]_<<durable, answered>>
=============================================================================
