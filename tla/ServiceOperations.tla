------------------------- MODULE ServiceOperations -------------------------
(***************************************************************************)
(* What every operation of the five services says to the database: its     *)
(* SELECTs "r", its INSERTs, UPDATEs and DELETEs "w" and its commits "c",  *)
(* in the order of the code, where no statement is left out by an early    *)
(* return.  A search for cycles is cut to one step.                        *)
(***************************************************************************)
EXTENDS Sequences

Read   == <<"r">>
Write  == <<"w">>
Commit == <<"c">>

\* auth-service
UserByEmail == Read
UserById    == Read
AllUsers    == Read
CreateUser  == Write \o Commit
Register    == UserByEmail \o CreateUser

\* projects-service
CreateProject == Write \o Commit
AllProjects   == Read
ProjectById   == Read
UpdateProject == Write \o Commit
DeleteProject == Write \o Commit

\* deliverables-service
DependenciesMap   == Read
CreateDeliverable == Write \o Commit
AllDeliverables   == Read \o DependenciesMap
DeliverableById   == Read \o DependenciesMap
UpdateDeliverable == Write \o Commit \o DependenciesMap
DeleteDeliverable == Write \o Write \o Commit
WouldCreateCycle  == Read
AddDependency     == Read \o Read \o WouldCreateCycle \o Write \o Commit
RemoveDependency  == Write \o Commit

\* resources-service
CreateResource   == Write \o Commit
AllResources     == Read
ResourceById     == Read \o Read
UpdateResource   == Write \o Commit
DeleteResource   == Write \o Commit
CreateAllocation == Write \o Commit
AllAllocations   == Read
DeleteAllocation == Write \o Commit

\* budget-service
CreateEntry == Write \o Commit
AllEntries  == Read
EntryById   == Read
Summary     == Read
UpdateEntry == Write \o Commit
DeleteEntry == Write \o Commit

Operations ==
  {UserByEmail, UserById, AllUsers, Register,
   CreateProject, AllProjects, ProjectById, UpdateProject, DeleteProject,
   CreateDeliverable, AllDeliverables, DeliverableById, UpdateDeliverable,
   DeleteDeliverable, AddDependency, RemoveDependency,
   CreateResource, AllResources, ResourceById, UpdateResource, DeleteResource,
   CreateAllocation, AllAllocations, DeleteAllocation,
   CreateEntry, AllEntries, EntryById, Summary, UpdateEntry, DeleteEntry}
=============================================================================
