------------------------------ MODULE Profiles ------------------------------
(***************************************************************************)
(* A profile from its making to its use: `logsieve learn` (module Learn)    *)
(* mines a file of lines and writes the profile into the local directory of *)
(* a server, whose manager (module ProfileManager) loads and serves it.     *)
(* They are processes that share only the file: what learn does before it   *)
(* creates the file commutes with what the server does.  So it takes turns  *)
(* with the server here, and runs while the server is up only from a file   *)
(* without lines.                                                           *)
(***************************************************************************)
EXTENDS Learn, ProfileManager

profilesVars == <<learnVars, managerVars>>

ProfilesInit == LearnInit /\ ManagerInit

Mining == lines # NoLines

Mine ==
  /\ local = "absent" /\ server = "down"
  /\ \E m \in Messages : ReadLine(m)
  /\ UNCHANGED managerVars

CreateProfile == LearnEnds /\ CreateLocal

WriteProfile == WriteLocal /\ UNCHANGED learnVars

Serve == ~Mining /\ ManagerNext /\ UNCHANGED learnVars

ProfilesNext == Mine \/ CreateProfile \/ WriteProfile \/ Serve

ProfilesSpec == ProfilesInit /\ [][ProfilesNext]_profilesVars /\ ManagerFairness
=============================================================================
