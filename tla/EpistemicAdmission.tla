------------------------- MODULE EpistemicAdmission -------------------------
(***************************************************************************)
(* From a claim to trajectory evidence (epistemic_response_v2.py,          *)
(* learning_admission_v2.py, structural_trajectory_v2.py).                 *)
(*                                                                         *)
(* A claim is validated against a compiled context; a decision about it is *)
(* appended to decisions.jsonl; an accepted decision with evidence may be  *)
(* admitted, which appends to admissions.jsonl and then ingests the claim's*)
(* trajectory.  Both journals append, fsync and then remember under a lock;*)
(* the trajectory index tests and appends without one.  An identity is the *)
(* digest of the content, so equal records are the same record.            *)
(***************************************************************************)
EXTENDS Naturals, Sequences, FiniteSets

CONSTANTS
    Claims,         \* claim candidates
    Asserted,       \* claim -> the set of addresses it asserts
    Contexts,       \* compiled contexts a claim may be validated against
    Callers,        \* threads that call the services
    ErrorLeaves,    \* what a write that raises may leave: "nothing", "line"
    MaxSequence,    \* the largest sequence a caller passes
    MaxLines,       \* lines per journal explored
    MaxRestarts

VARIABLES
    file,       \* journal -> lines on disk
    rows,       \* journal -> _rows of the open process
    trajectories,  \* the structural trajectory index
    work,       \* caller -> admissions still to apply, and the test's answer
    opened,     \* "open" or "refused"
    replayed,   \* history: has this process begun a replay, or needed none?
    tainted,    \* history: journals in which a raising write left its line
    granted,    \* history: journal -> records returned to callers
    restarts    \* history: restarts so far

admissionVars == <<file, rows, trajectories, work, opened, replayed, tainted,
                   granted, restarts>>

ASSUME AdmissionAssumptions == IsFiniteSet(Callers) /\ MaxSequence \in Nat

Journals == {"decisions", "admissions"}
Members(s) == {s[i] : i \in 1..Len(s)}
Done == [todo |-> <<>>, tested |-> FALSE]

AdmissionInit ==
    /\ file = [j \in Journals |-> <<>>]
    /\ rows = file
    /\ trajectories = <<>>
    /\ work = [c \in Callers |-> Done]
    /\ opened = "open" /\ replayed = TRUE
    /\ tainted = {} /\ granted = [j \in Journals |-> {}] /\ restarts = 0

-----------------------------------------------------------------------------
\* validate(): consistency with the compiled state, never truth.
Validate(claim, context) ==
    IF context.status = "resolved" /\ Asserted[claim] # {}
         /\ Asserted[claim] \subseteq context.resolved THEN "consistent"
    ELSE IF Asserted[claim] \cap context.competing # {} THEN "competing"
    ELSE IF context.status \in {"unresolved", "terminal"} THEN "unresolved"
    ELSE "unsupported"

Decision(claim, context, sequence, action, evidence) ==
    [claim |-> claim, status |-> Validate(claim, context),
     sequence |-> sequence, action |-> action, evidence |-> evidence]

Admission(decision, sequence) == [decision |-> decision, sequence |-> sequence]

-----------------------------------------------------------------------------
(* The append of both journals, one critical section.                      *)

Backward(s, sequence) == s # <<>> /\ sequence < s[Len(s)].sequence

Grant(j, item) == granted' = [granted EXCEPT ![j] = @ \cup {item}]

\* A record already there is returned as it is.
Remembered(j, item) ==
    /\ item \in Members(rows[j])
    /\ Grant(j, item)
    /\ UNCHANGED <<file, rows, tainted>>

Appended(j, item) ==
    /\ item \notin Members(rows[j])
    /\ ~Backward(rows[j], item.sequence)
    /\ Len(file[j]) < MaxLines
    /\ file' = [file EXCEPT ![j] = Append(@, item)]
    /\ rows' = [rows EXCEPT ![j] = Append(@, item)]
    /\ Grant(j, item)
    /\ UNCHANGED tainted

\* The write or its fsync raises: nothing is remembered.
AppendRaises(j, item) ==
    /\ item \notin Members(rows[j])
    /\ ~Backward(rows[j], item.sequence)
    /\ \E left \in ErrorLeaves :
         IF left = "line"
           THEN /\ Len(file[j]) < MaxLines
                /\ file' = [file EXCEPT ![j] = Append(@, item)]
                /\ tainted' = tainted \cup {j}
           ELSE UNCHANGED <<file, tainted>>
    /\ UNCHANGED <<rows, granted>>

\* "defer" is recorded and admitted like "reject".
Actions == {"accept", "reject"}

MayCall(c) == opened = "open" /\ work[c] = Done

\* record()
Record(c) ==
    /\ MayCall(c)
    /\ \E claim \in Claims, context \in Contexts, sequence \in 0..MaxSequence,
          action \in Actions, evidence \in BOOLEAN :
         LET item == Decision(claim, context, sequence, action, evidence) IN
         Remembered("decisions", item) \/ Appended("decisions", item)
           \/ AppendRaises("decisions", item)
    /\ UNCHANGED <<trajectories, work, opened, replayed, restarts>>

\* admit(): the caller holds the decision that record() returned.
\* Mutant: evidence is not asked for.
AdmissibleUnproved(decision) == decision.action = "accept"
Admissible(decision) == decision.action = "accept" /\ decision.evidence

Admit(c) ==
    /\ MayCall(c)
    /\ \E decision \in granted["decisions"], sequence \in 0..MaxSequence :
         LET item == Admission(decision, sequence) IN
         /\ Admissible(decision)
         /\ \/ /\ Remembered("admissions", item) \/ Appended("admissions", item)
               /\ work' = [work EXCEPT ![c].todo = <<item>>]
            \/ AppendRaises("admissions", item) /\ UNCHANGED work
    /\ UNCHANGED <<trajectories, opened, replayed, restarts>>

\* replay(): every admission of the journal, in its order.
Replay(c) ==
    /\ MayCall(c)
    /\ rows["admissions"] # <<>>
    /\ work' = [work EXCEPT ![c].todo = rows["admissions"]]
    /\ replayed' = TRUE
    /\ UNCHANGED <<file, rows, trajectories, opened, tainted, granted, restarts>>

\* apply() is ingest_addresses(): the test, then the append.
Known(item) == item \in Members(trajectories)

ApplyTest(c) ==
    /\ work[c].todo # <<>> /\ ~work[c].tested
    /\ work' = IF Known(Head(work[c].todo)) THEN [work EXCEPT ![c].todo = Tail(@)]
                                             ELSE [work EXCEPT ![c].tested = TRUE]
    /\ UNCHANGED <<file, rows, trajectories, opened, replayed, tainted, granted,
                   restarts>>

ApplyAppend(c) ==
    /\ work[c].tested
    /\ trajectories' = Append(trajectories, Head(work[c].todo))
    /\ work' = [work EXCEPT ![c] = [todo |-> Tail(@.todo), tested |-> FALSE]]
    /\ UNCHANGED <<file, rows, opened, replayed, tainted, granted, restarts>>

-----------------------------------------------------------------------------
\* _load(): the lines in order; a sequence that moves backward refuses.
Loads(lines) == \A i \in 2..Len(lines) : lines[i].sequence >= lines[i - 1].sequence

Restart ==
    /\ restarts < MaxRestarts
    /\ restarts' = restarts + 1
    /\ opened' = IF \A j \in Journals : Loads(file[j]) THEN "open" ELSE "refused"
    /\ rows' = IF opened' = "open" THEN file ELSE [j \in Journals |-> <<>>]
    /\ trajectories' = <<>>
    /\ replayed' = (rows'["admissions"] = <<>>)
    /\ work' = [c \in Callers |-> Done]
    /\ UNCHANGED <<file, tainted, granted>>

AdmissionNext ==
    \/ \E c \in Callers : Record(c) \/ Admit(c) \/ Replay(c)
                            \/ ApplyTest(c) \/ ApplyAppend(c)
    \/ Restart

AdmissionSpec == AdmissionInit /\ [][AdmissionNext]_admissionVars

-----------------------------------------------------------------------------
\* What was learned is justified: a trajectory in the index has a durable
\* admission, whose decision is durable, accepted the claim and has evidence;
\* and no record that a caller was given is ever lost from its file.
LearningJustified ==
    /\ \A item \in Members(trajectories) :
         /\ item \in Members(file["admissions"])
         /\ item.decision \in Members(file["decisions"])
         /\ item.decision.action = "accept" /\ item.decision.evidence
    /\ \A j \in Journals : granted[j] \subseteq Members(file[j])

\* A journal that no raising write left a line in loads again, has each
\* record once, and a sequence that never moves backward.
JournalsReload ==
    /\ \A j \in Journals \ tainted :
         /\ Loads(file[j])
         /\ Cardinality(Members(file[j])) = Len(file[j])
    /\ opened = "refused" => tainted # {}

\* Once a process has replayed, every admission of its journal is in the index
\* or about to be, whatever callers overlap; callers that race between the test
\* and the append put it there once each, so one caller puts it there once.
ReplayComplete ==
    /\ replayed => Members(rows["admissions"]) \subseteq
         Members(trajectories) \cup UNION {Members(work[c].todo) : c \in Callers}
    /\ \A item \in Members(trajectories) :
         Cardinality({i \in 1..Len(trajectories) : trajectories[i] = item})
           <= Cardinality(Callers)

\* What was learned is justified by durable records, journals load again and a
\* replay is complete: see each part.
AdmissionsJustified == LearningJustified /\ JournalsReload /\ ReplayComplete
=============================================================================
