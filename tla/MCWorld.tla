------------------------------ MODULE MCWorld ------------------------------
(* All operations over a few actors and artifacts, for TLC.                 *)
EXTENDS WorldOperations, TLC

CONSTANTS a1, a2, t1, t2

TwoActors == {a1, a2}
OneActor == {a1}
TwoArtifacts == {t1, t2}

Actors == Actor \cup {None}
Artifacts == Artifact \cup {None}

Intents(kinds, to, participant, task, capability, session) ==
    [kind : kinds, from : Actor, to : to, participant : participant,
     task : task, capability : capability, session : session]

\* Every kind with every combination of the roles its handler looks at.
AllOps ==
    Intents({"introduce_artifact", "fork_branch"}, {None}, {None}, Artifacts, Artifacts, {0})
      \cup Intents({"fork_branch", "create_session", "register_participant",
                    "activate_participant", "retire_participant"},
                   {None}, Actors, {None}, {None}, {0})
      \cup Intents({"publish_artifact"}, {None}, {None}, Artifacts, Artifacts, {0})
      \cup Intents({"delegate"}, Actors, Actors, Artifacts, Artifacts, {0})
      \cup Intents({"transfer_session"}, Actors, {None}, {None}, {None}, 0..2)
      \cup Intents({"signal_done", "emit_heartbeat", "commit_transcript"},
                   {None}, {None}, {None}, {None}, {0})

\* The founder and the actor who has yet to register are not interchangeable.
ArtifactSymmetry == Permutations(TwoArtifacts)
=============================================================================
