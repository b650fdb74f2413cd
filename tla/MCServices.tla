------------------------------ MODULE MCServices ------------------------------
(***************************************************************************)
(* The services beside the pipeline, checked in one run.  They share no    *)
(* state, so their product would only multiply interleavings: focus picks  *)
(* the one that moves in a behaviour, and the run covers the sum.          *)
(***************************************************************************)
EXTENDS NativeLeases, EpisodeMirror, EpistemicAdmission, BackupRestore, AdminFiles,
        EvidenceCore, TLC

CONSTANTS
    Foci    \* the parts this run is about

VARIABLES
    focus

\* A legacy snapshot is empty, agrees with what clients repeat, or holds a row
\* that is no external episode.
Row(k, c) == [key |-> k, content |-> c]
SomeLegacyStores ==
    LET k == CHOOSE k \in EpisodeKeys : TRUE
        c == CHOOSE c \in Contents : TRUE
    IN {<<>>, <<Row(k, c)>>, <<Row(k, c), Foreign>>}

\* One address per claim, in a context that competes for it: the status that
\* is recorded leaves the decision to the caller.
OwnAddress == [c \in Claims |-> {c}]
AmbiguousContext == {[status |-> "ambiguous", resolved |-> {}, competing |-> Claims]}

\* Claims about three entities: three edges, one that leads back, and one with
\* a predicate of many values; o2 is surer than o1, and speaks elsewhere too.
Claim(ends, predicate, space, origin, confidence) ==
    [subject |-> ends[1], object |-> ends[2], predicate |-> predicate, space |-> space,
     origin |-> origin, confidence |-> confidence]
SomeClaims ==
    {Claim(says[1], says[2], "n", by[1], by[2]) :
        says \in {<<1, 2>>, <<2, 3>>, <<1, 3>>, <<2, 1>>} \X {1} \cup {<<1, 3>>} \X {2},
        by \in {<<"o1", 1>>, <<"o2", 2>>}}
    \cup {Claim(<<1, 2>>, 1, "m", "o2", 2)}
\* Paths asked for from 1 to 3: few or many, short or long, sure or supported.
SomeQuestions ==
    LET asking(hops, paths, confidence, origins, reliability) ==
            [source |-> 1, target |-> 3, space |-> "n", epoch |-> {}, maxHops |-> hops,
             maxPaths |-> paths, confidence |-> confidence, origins |-> origins,
             reliability |-> reliability]
    IN  {asking(limit[1], limit[2], least[1], least[2], least[3]) :
            limit \in {<<1, 1>>, <<2, 1>>, <<3, 2>>},
            least \in {<<0, 1, {}>>, <<2, 1, {}>>, <<0, 2, {}>>, <<0, 1, {<<1, 2>>}>>}}

ASSUME BackupsFit == BackupParameters

\* The ids of adjudications are interchangeable.
Symmetry == Permutations(Resolutions)

Init ==
    /\ focus \in Foci
    /\ LeaseInit
    /\ MirrorInit
    /\ focus = "episodes" \/ (backend = "sqlite" /\ legacy = <<>>)
    /\ AdmissionInit
    /\ BackupInit
    /\ AdminInit
    /\ EvidenceInit

serviceVars ==
    <<leaseVars, episodeVars, mirrorVars, admissionVars, backupVars, adminVars,
      evidenceVars>>

\* Every part but the one in focus stays as it is.
Others ==
    /\ UNCHANGED focus
    /\ IF focus = "leases" THEN TRUE ELSE UNCHANGED leaseVars
    /\ IF focus = "episodes" THEN TRUE ELSE UNCHANGED <<episodeVars, mirrorVars>>
    /\ IF focus = "admissions" THEN TRUE ELSE UNCHANGED admissionVars
    /\ IF focus = "backups" THEN TRUE ELSE UNCHANGED backupVars
    /\ IF focus = "admin" THEN TRUE ELSE UNCHANGED adminVars
    /\ IF focus = "evidence" THEN TRUE ELSE UNCHANGED evidenceVars

LeasesMove == focus = "leases" /\ LeaseNext /\ Others
EpisodesMove == focus = "episodes" /\ MirrorNext /\ Others
AdmissionsMove == focus = "admissions" /\ AdmissionNext /\ Others
BackupsMove == focus = "backups" /\ BackupNext /\ Others
AdminMoves == focus = "admin" /\ AdminNext /\ Others
\* Three adjudications, or one before two claims it weighs, or four claims; the
\* fourth only doubles an edge.
EvidenceMoves ==
    /\ focus = "evidence"
    /\ \/ /\ adjudications = <<>> \/ (Len(adjudications) = 1 /\ Len(edges) < 2)
          /\ ClaimsNext(IF Len(edges) < 3 THEN SomeClaims
                                 ELSE {Claim(<<2, 3>>, 2, "n", "o2", 2)},
                                 IF Len(edges) < 3 THEN {{}, {0}} ELSE {{}})
       \/ /\ edges = <<>> /\ Len(adjudications) < 3
          /\ AdjudicationsNext({0, 1})
    /\ Others

Next ==
    \/ LeasesMove \/ EpisodesMove \/ AdmissionsMove \/ BackupsMove \/ AdminMoves
    \/ EvidenceMoves

Spec == Init /\ [][Next]_<<focus, serviceVars>>

=============================================================================
