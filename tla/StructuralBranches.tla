-------------------------- MODULE StructuralBranches --------------------------
(***************************************************************************)
(* DynamicStructuralBranchResolverV2: what a rollout found is narrowed by  *)
(* the addresses observed next, and recovered from memory once nothing is  *)
(* left.  A caller keeps one branch state; other callers go on ingesting.  *)
(***************************************************************************)
EXTENDS StructuralRollout

CONSTANTS
    StepLimits,                     \* max_steps callers pass
    CandidateLimit, BranchLimit,
    MaxSeed, MaxObserved            \* bounds: length of a seed, of an observation

\* max_steps must be >= 1.
ASSUME BranchParameters ==
    /\ StepLimits \subseteq Nat \ {0}
    /\ MaxSeed \in Nat /\ MaxObserved \in Nat

VARIABLES
    state,
    started        \* history: the state, and how far its steps went, as it began

branchVars == <<state, started>>

ActiveBranch(witnesses, remaining) ==
    [witnesses |-> witnesses, remaining |-> remaining, consumed |-> 0]

\* The fields every way to begin shares.
BranchState(seed, active, terminals, bounded, reason) ==
    [seed |-> seed, observed |-> <<>>, active |-> active, terminals |-> terminals,
     eliminated |-> {}, exhausted |-> active = {},
     ambiguous |-> Outcomes(active, terminals) > 1,
     terminal |-> terminals # {} /\ active = {}, bounded |-> bounded, reason |-> reason]

Begun(index, raw, steps) ==
    LET r == ResolveRollout(index, raw, steps, CandidateLimit, BranchLimit)
    IN  BranchState(Collapsed(raw), {ActiveBranch(b.witnesses, b.continuation) : b \in r.branches},
                    r.terminals, r.bounded, r.reason)

Supporters(branches) == UNION {{w[1] : w \in b.witnesses} : b \in branches}

\* Mutant: an observation leaves the occurrences that had ended alone.
TerminalsStay(s, a) ==
    LET next == {b \in s.active : b.remaining # <<>> /\ Head(b.remaining) = a}
        active == {[b EXCEPT !.remaining = Tail(@), !.consumed = @ + 1] : b \in next}
    IN  IF s.exhausted THEN s
        ELSE [s EXCEPT !.observed = Append(@, a), !.active = active,
                       !.eliminated = @ \cup Supporters(s.active \ next),
                       !.exhausted = active = {}]
\* Mutant: a repeated observation is taken for the next step.
EveryRepeatCounts(s, a) ==
    LET next == {b \in s.active : b.remaining # <<>> /\ Head(b.remaining) = a}
        active == {[b EXCEPT !.remaining = Tail(@), !.consumed = @ + 1] : b \in next}
    IN  IF s.exhausted THEN s
        ELSE [s EXCEPT !.observed = Append(@, a), !.active = active, !.terminals = {},
                       !.eliminated = @ \cup s.terminals \cup Supporters(s.active \ next),
                       !.exhausted = active = {}, !.ambiguous = Cardinality(active) > 1,
                       !.terminal = active # {} /\ \A b \in active : b.remaining = <<>>,
                       !.bounded = FALSE]
ObservedAddress(s, a) ==
    LET next == {b \in s.active : b.remaining # <<>> /\ Head(b.remaining) = a}
        active == {[b EXCEPT !.remaining = Tail(@), !.consumed = @ + 1] : b \in next}
    IN  IF s.exhausted \/ (s.observed # <<>> /\ Last(s.observed) = a) THEN s
        ELSE [s EXCEPT !.observed = Append(@, a), !.active = active, !.terminals = {},
                       !.eliminated = @ \cup s.terminals \cup Supporters(s.active \ next),
                       !.exhausted = active = {}, !.ambiguous = Cardinality(active) > 1,
                       !.terminal = active # {} /\ \A b \in active : b.remaining = <<>>,
                       !.bounded = FALSE,
                       !.reason = CASE active = {} -> "observation-exhausted-branches"
                                    [] Cardinality(active) = 1 -> "single-active-branch"
                                    [] OTHER -> "competing-active-branches"]

\* The loop stops when the state is exhausted, where a step changes nothing.
ObservedAddresses(s, raw) ==
    LET trail == Collapsed(raw)
        after[n \in 0..Len(trail)] == IF n = 0 THEN s ELSE ObservedAddress(after[n - 1], trail[n])
    IN  after[Len(trail)]

-----------------------------------------------------------------------------
\* Mutant: the first exact occurrence stands for the trajectory.
FirstOccurrences(index, suffix) ==
    {<<i, Min(Starts(suffix, index[i].addresses)) + Len(suffix) - 1>> :
        i \in {j \in DOMAIN index : Starts(suffix, index[j].addresses) # {}}}
\* One witness a trajectory: its last exact occurrence of the suffix.
ExactWitnesses(index, suffix) ==
    {<<i, Max(Starts(suffix, index[i].addresses)) + Len(suffix) - 1>> :
        i \in {j \in DOMAIN index : Starts(suffix, index[j].addresses) # {}}}

LongestKnownSuffix(index, observation) ==
    LET known == {n \in 1..Len(observation) :
                    ExactWitnesses(index, SubSeq(observation, n, Len(observation))) # {}}
    IN  IF known = {} THEN <<>> ELSE SubSeq(observation, Min(known), Len(observation))

Recovered(index, observation, steps) ==
    LET suffix == LongestKnownSuffix(index, observation)
        witnesses == ExactWitnesses(index, suffix)
        after(w) == Continuation(index[w[1]].addresses, w[2], steps)
        terminals == {w[1] : w \in {v \in witnesses : after(v) = <<>>}}
        active == {ActiveBranch({w \in witnesses : after(w) = c}, c) :
                      c \in {after(w) : w \in witnesses} \ {<<>>}}
    IN  IF suffix = <<>> THEN BranchState(observation, {}, {}, FALSE, "recovery-no-occurrence")
        ELSE IF Cardinality(witnesses) > CandidateLimit \/ Outcomes(active, terminals) > BranchLimit
        THEN BranchState(suffix, {}, {}, TRUE, "recovery-limit-exceeded")
        ELSE BranchState(suffix, active, terminals, FALSE,
                         CASE active = {} -> "recovery-matched-terminal"
                           [] Outcomes(active, terminals) > 1 -> "recovered-competing-outcomes"
                           [] OTHER -> "recovered-single-branch")

-----------------------------------------------------------------------------
NoState == BranchState(<<>>, {}, {}, FALSE, "none")

BranchesInit == state = NoState /\ started = [from |-> NoState, steps |-> 0, heard |-> <<>>]

StartFrom(s, steps) == state' = s /\ started' = [from |-> s, steps |-> steps, heard |-> <<>>]

\* A caller that begins again starts a behaviour of its own.
Begin(raw, steps) ==
    /\ state = NoState
    /\ StartFrom(Begun(trajectories, raw, steps), steps)
    /\ UNCHANGED trajectories

Observe(raw) ==
    /\ state # NoState
    /\ state' = ObservedAddresses(state, raw)
    /\ started' = [started EXCEPT !.heard = Onto(@, Collapsed(raw))]
    /\ UNCHANGED trajectories

\* recover_addresses refuses a state that is not exhausted.  A caller keeps to
\* the steps it began with.
Recover(raw) ==
    /\ state # NoState /\ state.exhausted
    /\ StartFrom(Recovered(trajectories, Collapsed(raw), started.steps), started.steps)
    /\ UNCHANGED trajectories

BranchesNext(sources, many, raws) ==
    \/ TrajectoriesNext(sources, many, raws) /\ UNCHANGED branchVars
    \/ \E raw \in Trails(MaxSeed), n \in StepLimits : Begin(raw, n)
    \/ /\ Len(started.heard) < MaxObserved      \* bound; one more on a dead state
       /\ state.exhausted => started.heard = <<>>
       /\ \E raw \in Trails(2) : Observe(raw)
    \/ \E raw \in Trails(MaxObserved) : Recover(raw)

-----------------------------------------------------------------------------
\* What the caller should see: each occurrence the state began with, followed
\* from its anchor for the steps asked for, and no other, kept as long as what
\* was heard since is what it goes through.
Hypotheses == UNION {b.witnesses : b \in started.from.active}
Expected(w) == Continuation(trajectories[w[1]].addresses, w[2], started.steps)

NarrowingIsExact ==
    LET kept == {w \in Hypotheses : IsPrefix(started.heard, Expected(w))}
    IN started.from.active # {} =>
           /\ UNION {b.witnesses : b \in state.active} = kept
           /\ \A b \in state.active : \A w \in b.witnesses :
                  started.heard \o b.remaining = Expected(w)
           /\ state.terminals = IF started.heard = <<>> THEN started.from.terminals ELSE {}
           /\ state.eliminated
                = (Supporters(started.from.active) \cup started.from.terminals)
                    \ (Supporters(state.active) \cup state.terminals)

\* A recovered state is about the longest end of the observation that memory
\* holds in one piece, in every trajectory that holds it: no branch joins two
\* occurrences, and an occurrence that ends there is not passed over.
RecoveryDoesNotStitch ==
    /\ \A w \in Hypotheses :
           started.from.reason \in {"recovered-single-branch", "recovered-competing-outcomes"} =>
               LET t == trajectories[w[1]].addresses
                   n == Len(started.from.seed)
               IN /\ SubSeq(t, w[2] - n + 1, w[2]) = started.from.seed
                  /\ \A s \in Starts(started.from.seed, t) : s + n - 1 <= w[2]
    /\ started.from.reason = "recovery-matched-terminal" =>
           \A i \in started.from.terminals : IsSuffix(started.from.seed, trajectories[i].addresses)

\* temporal_possibilities_from_branch_state: the futures a branch state exposes.
TemporalPossibilities(s) ==
    LET open == {b \in s.active : b.remaining # <<>>}
        ended == s.terminals \cup Supporters(s.active \ open)
        next == {[address |-> a, support |-> Supporters({b \in open : Head(b.remaining) = a})] :
                    a \in {Head(b.remaining) : b \in open}}
    IN  IF s.bounded THEN [next |-> {}, ended |-> {}, resolved |-> FALSE]
        ELSE [next |-> next, ended |-> ended, resolved |-> Outcomes(next, ended) = 1]

\* A possible future is one some occurrence of the state has at this point: the
\* next address it exposes is the next one stored, and an end it exposes is an
\* end, unless all the steps asked for were heard.
FuturesAreStored ==
    LET p == TemporalPossibilities(state)
    IN /\ \A f \in p.next, i \in Supporters(state.active) : i \in f.support =>
              \E w \in Hypotheses : w[1] = i /\
                  trajectories[i].addresses[w[2] + Len(started.heard) + 1] = f.address
       /\ \A i \in p.ended : i \in started.from.terminals \/
              \E w \in Hypotheses :
                  /\ w[1] = i
                  /\ \/ Len(started.heard) = started.steps
                     \/ w[2] + Len(started.heard) = Len(trajectories[i].addresses)

BranchesFollowMemory == NarrowingIsExact /\ RecoveryDoesNotStitch /\ FuturesAreStored
=============================================================================
