---------------------------- MODULE ConfigAdmin ----------------------------
(***************************************************************************)
(* ConfigCenterAdminStore of roze-config: the versions of a configuration, *)
(* published at once or staged, promoted, rejected and rolled back, and    *)
(* the snapshot file that they are saved to and restored from.  Operations *)
(* that the store refuses change nothing but its audit log, left out here. *)
(***************************************************************************)
EXTENDS Naturals, Sequences

CONSTANTS
    NoFile, TornFile,  \* no snapshot yet; one whose write was cut short
    VersionBound       \* bound: versions of the store

VARIABLES
    versions,  \* ConfigCenterAdminStore::versions; a version is its index
    file       \* the snapshot: NoFile, TornFile or the versions saved

adminVars == <<versions, file>>

FirstVersion == [active |-> TRUE, state |-> "active"]

AdminInit == versions = <<FirstVersion>> /\ file = NoFile

\* The loop of publish over the versions before it adds its own.
Retired(record) ==
    [active |-> FALSE, state |-> IF record.state = "active" THEN "retired" ELSE record.state]

\* Mutant: the version before stays active.
PublishActive ==
    /\ versions' = Append(versions, FirstVersion)
    /\ UNCHANGED file

\* publish with a rollout of 100 percent.
Publish ==
    /\ versions' = Append([i \in DOMAIN versions |-> Retired(versions[i])], FirstVersion)
    /\ UNCHANGED file

\* publish with less: the version waits for its promotion.
Stage ==
    /\ versions' = Append(versions, [active |-> FALSE, state |-> "staged"])
    /\ UNCHANGED file

Promote(version) ==
    /\ versions[version].state = "staged"
    /\ versions' = [i \in DOMAIN versions |->
                      IF i = version THEN FirstVersion ELSE Retired(versions[i])]
    /\ UNCHANGED file

RejectStaged(version) ==
    /\ versions[version].state = "staged"
    /\ versions' = [versions EXCEPT ![version] = [active |-> FALSE, state |-> "rolled_back"]]
    /\ UNCHANGED file

\* Any version may be the target, staged and rejected ones included.
RollbackTo(version) ==
    /\ versions' = [i \in DOMAIN versions |->
                      [active |-> i = version,
                       state |-> IF i = version THEN "active"
                                 ELSE IF versions[i].active THEN "retired"
                                 ELSE versions[i].state]]
    /\ UNCHANGED file

-----------------------------------------------------------------------------
(* save_to_path writes the file in place; load_from_path refuses one that    *)
(* does not parse or has not exactly one active version.                     *)

Save == file' = versions /\ UNCHANGED versions

\* The write fails, or the process dies in it.
SaveFails == file' = TornFile /\ UNCHANGED versions

ExactlyOneActive(records) ==
    \E i \in DOMAIN records : \A j \in DOMAIN records : records[j].active <=> i = j

\* A restart: what was not saved is lost, and without a snapshot that loads the
\* store starts anew.
Restore ==
    /\ \/ /\ file \in {NoFile, TornFile}
          /\ versions' = <<FirstVersion>>
       \/ /\ file \notin {NoFile, TornFile} /\ ExactlyOneActive(file)
          /\ versions' = file
    /\ UNCHANGED file

AdminNext ==
    \/ Len(versions) < VersionBound /\ (Publish \/ Stage)
    \/ \E version \in DOMAIN versions :
          Promote(version) \/ RejectStaged(version) \/ RollbackTo(version)
    \/ Save \/ SaveFails \/ Restore

AdminSpec == AdminInit /\ [][AdminNext]_adminVars

-----------------------------------------------------------------------------
\* Whatever is published, staged, promoted, rejected, rolled back or restored, in
\* any order, exactly one version is active, and it is the one that is recorded
\* as such: active and rollout_state never disagree (rollback looks at the one,
\* publish and promote at the other).
OneActive ==
    /\ ExactlyOneActive(versions)
    /\ \A i \in DOMAIN versions : versions[i].active <=> versions[i].state = "active"

=============================================================================
