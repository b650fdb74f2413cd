-------------------------- MODULE RevisionHistory --------------------------
(***************************************************************************)
(* What an address journal promises, whatever crashes in between: for each *)
(* stable address one history of revisions that only grows, with strictly  *)
(* increasing sequence numbers, and answers that agree with it for ever.   *)
(***************************************************************************)
EXTENDS Naturals, Sequences

CONSTANTS Keys, Entries   \* an entry is a record with a field "seq"

VARIABLES
  history,   \* for each key, the durable entries
  acked,     \* <<key, entry>> some caller was told is in the history
  refused    \* <<key, entry>> some caller was told can no longer enter it

historyVars == <<history, acked, refused>>

Newest(k) == history[k][Len(history[k])]

Init ==
  /\ history = [k \in Keys |-> <<>>]
  /\ acked = {}
  /\ refused = {}

\* A later entry becomes durable, answered or, over a crash, not.
Revise(k, e) ==
  /\ history[k] # <<>> => e.seq > Newest(k).seq
  /\ history' = [history EXCEPT ![k] = Append(@, e)]
  /\ acked' \in {acked, acked \cup {<<k, e>>}}
  /\ UNCHANGED refused

Confirm(k, e) ==
  /\ history[k] # <<>> /\ e = Newest(k)
  /\ acked' = acked \cup {<<k, e>>}
  /\ UNCHANGED <<history, refused>>

\* Older than the newest revision, or another content for its sequence.
Refuse(k, e) ==
  /\ history[k] # <<>> /\ e # Newest(k)
  /\ e.seq <= Newest(k).seq
  /\ refused' = refused \cup {<<k, e>>}
  /\ UNCHANGED <<history, acked>>

Next ==
  \E k \in Keys, e \in Entries : Revise(k, e) \/ Confirm(k, e) \/ Refuse(k, e)

Spec == Init /\ [][Next]_historyVars
=============================================================================
