---------------------------- MODULE VersionedMemory ----------------------------
(***************************************************************************)
(* What a restart of the product may find, as an abstract specification:   *)
(* logical memories whose versions are only appended to and whose          *)
(* revocation is final.                                                    *)
(***************************************************************************)
EXTENDS Sequences, Naturals

CONSTANTS Keys, Payloads

VARIABLES
  versions,   \* the payload of every version of a logical memory
  revoked     \* the logical memories that are hidden

Init == versions = [k \in Keys |-> <<>>] /\ revoked = {}

Extends(longer, shorter) ==
  /\ Len(longer) >= Len(shorter)
  /\ SubSeq(longer, 1, Len(shorter)) = shorter

\* One save makes every change since the last one durable.
Commit ==
  /\ versions' \in [Keys -> Seq(Payloads)]
  /\ \A k \in Keys : Extends(versions'[k], versions[k])
  /\ revoked \subseteq revoked' /\ revoked' \subseteq Keys
  /\ \A k \in revoked : versions'[k] = versions[k]

Spec == Init /\ [][Commit]_<<versions, revoked>>
=============================================================================
