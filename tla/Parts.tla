-------------------------------- MODULE Parts --------------------------------
(***************************************************************************)
(* Parts that share no state: of the API the progress of lessons, the      *)
(* roles of an account and the seed of its database; of the apps the       *)
(* metronome, the tuner and the lesson player.  A behaviour follows one of *)
(* them, so that a run checks their sum and not their product.             *)
(***************************************************************************)
EXTENDS LessonProgress, LessonPlayer, Metronome, Tuner, UserRoles, Seed

VARIABLE part   \* the part that is followed

tools  == <<lessonPlayer, metronome, tuner>>
server == <<vars, userRoles, seed>>
parts  == <<part, tools, server>>

PartsInit ==
  /\ part \in {"progress", "player", "metronome", "tuner", "roles", "seed"}
  /\ Init /\ UserRolesInit /\ SeedInit
  /\ LessonPlayerInit /\ MetronomeInit /\ TunerInit
  \* what a part that is not followed starts with makes no difference
  /\ panel => part = "tuner"
  /\ part = "progress" \/ \A l \in Lesson : \A d \in Durations : duration[l] <= d

PartsNext ==
  \/ /\ UNCHANGED <<part, tools>>
     /\ \/ part = "progress" /\ Next /\ UNCHANGED <<userRoles, seed>>
        \/ part = "roles" /\ UserRolesNext /\ UNCHANGED <<vars, seed>>
        \/ part = "seed" /\ SeedNext /\ UNCHANGED <<vars, userRoles>>
  \/ /\ UNCHANGED <<part, server>>
     /\ \/ part = "player" /\ LessonPlayerNext /\ UNCHANGED <<metronome, tuner>>
        \/ part = "metronome" /\ MetronomeNext /\ UNCHANGED <<lessonPlayer, tuner>>
        \/ part = "tuner" /\ TunerNext /\ UNCHANGED <<lessonPlayer, metronome>>

PartsSpec == PartsInit /\ [][PartsNext]_parts

-----------------------------------------------------------------------------
\* The variables of every part have their types.
PartsTypeOK ==
  /\ TypeOK /\ UserRolesTypeOK /\ SeedTypeOK
  /\ LessonPlayerTypeOK /\ MetronomeTypeOK /\ TunerTypeOK
=============================================================================
