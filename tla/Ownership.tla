----------------------------- MODULE Ownership -----------------------------
(***************************************************************************)
(* The parts of the library that keep what others made: the registries and *)
(* the handles of the operating system.  They share nothing: a step is one *)
(* of any of them.                                                         *)
(***************************************************************************)
EXTENDS Registry, Handles

ownershipVars == <<registryVars, versionVars, fileVars, socketVars>>

OwnershipInit == RegistryInit /\ VersionsInit /\ FilesInit /\ SocketInit

RegistryStep == RegistryNext /\ UNCHANGED <<versionVars, fileVars, socketVars>>
VersionsStep == VersionsNext /\ UNCHANGED <<registryVars, fileVars, socketVars>>
FilesStep == FilesNext /\ UNCHANGED <<registryVars, versionVars, socketVars>>
SocketStep == SocketNext /\ UNCHANGED <<registryVars, versionVars, fileVars>>

OwnershipNext == RegistryStep \/ VersionsStep \/ FilesStep \/ SocketStep

OwnershipSpec == OwnershipInit /\ [][OwnershipNext]_ownershipVars

-----------------------------------------------------------------------------
(* Properties.                                                             *)

\* The order in which the linker lets factories register does not matter
\* (ObjectRegistry::Register()) unless two have name and priority in common,
\* and a library keeps the version it registered first
\* (LoadedVersions::Register()).
RegistrationIsOrderFree == HighestPriorityWins /\ FirstVersionStays

\* What is made is owned once or given back once: the objects of the factories
\* (SelfRegisteringParametricObjectContainer::Create()), the streams of
\* EnhancedFile, copied ones too, and the descriptors of UDPSocket, unless
\* bind() or connect() overwrites one.
EverythingHasOneOwner ==
  ObjectsHaveOneOwner /\ FilesHaveOneOwner /\ CopiesAreApart /\ SocketHasOneOwner

=============================================================================
