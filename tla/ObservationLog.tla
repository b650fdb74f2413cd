--------------------------- MODULE ObservationLog ---------------------------
(***************************************************************************)
(* What the structural memory promises to a caller that posts              *)
(* observations, whatever crashes in between: an append-only log holding   *)
(* one envelope per event, acknowledgements and refusals that agree with   *)
(* it for ever, and a derived view that covers a prefix of the log and     *)
(* never goes backwards.                                                   *)
(***************************************************************************)
EXTENDS Naturals, Sequences

CONSTANT Envelopes   \* records with a field "event", the identity

VARIABLES
  log,       \* envelopes in the order they became durable
  acked,     \* envelopes some caller was told are stored
  refused,   \* envelopes some caller was told conflict with a stored one
  covered    \* how many entries of log the durable derived view covers

logVars == <<log, acked, refused, covered>>

Logged == {log[i] : i \in 1..Len(log)}
LoggedEvents == {e.event : e \in Logged}

Init ==
  /\ log = <<>>
  /\ acked = {}
  /\ refused = {}
  /\ covered = 0

\* An event seen for the first time becomes durable, with its
\* acknowledgement or, when a crash intervenes, before any answer.
Store(e) ==
  /\ e.event \notin LoggedEvents
  /\ log' = Append(log, e)
  /\ acked' \in {acked, acked \cup {e}}
  /\ UNCHANGED <<refused, covered>>

\* The same envelope again is acknowledged and changes nothing else.
Confirm(e) ==
  /\ e \in Logged
  /\ acked' = acked \cup {e}
  /\ UNCHANGED <<log, refused, covered>>

\* The same event with another provenance is refused.
Refuse(e) ==
  /\ e.event \in LoggedEvents
  /\ e \notin Logged
  /\ refused' = refused \cup {e}
  /\ UNCHANGED <<log, acked, covered>>

\* The derived view catches up with a longer prefix.
Cover(n) ==
  /\ n \in covered..Len(log)
  /\ covered' = n
  /\ UNCHANGED <<log, acked, refused>>

Next ==
  \/ \E e \in Envelopes : Store(e) \/ Confirm(e) \/ Refuse(e)
  \/ \E n \in 0..Len(log) : Cover(n)

Spec == Init /\ [][Next]_logVars
=============================================================================
