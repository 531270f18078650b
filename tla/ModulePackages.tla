---------------------------- MODULE ModulePackages ----------------------------
(***************************************************************************)
(* Module packages on connected storage: the owner signs a trust registry  *)
(* kept in direct memory, the library resolves a package against it before *)
(* it touches storage, and the manager verifies, loads, starts, quiesces,  *)
(* snapshots, stops and unloads the package.  What storage holds may be    *)
(* replaced between any two reads of it; the reads of one verification are *)
(* one look.  The manager and the library have no lock and one caller; the *)
(* owner's tool is another process.  An image is the content of a package  *)
(* directory, known by its manifest; hashes, versions and paths are data.  *)
(***************************************************************************)
EXTENDS Integers, FiniteSets

CONSTANTS
    MpPackages,  \* package ids
    MpImages,    \* contents a package directory may have
    MpManifest,  \* image -> its manifest and whether its files agree with it
    MpServices,  \* local services of the manager
    MpBudget,    \* the manager's budget (memory, processor and storage alike)
    MpWork,      \* bound: what an instance may have computed
    MpWrites,    \* bound: generations of the registry
    MpLoads,     \* bound: loads of a package
    MpChanges    \* bound: changes of storage or of the registry file

MpAbsent == "absent"

ASSUME MpAssumption ==
    /\ MpAbsent \notin MpImages
    /\ {MpBudget, MpWork, MpWrites, MpLoads} \subseteq Nat
    /\ \A i \in MpImages :
          /\ MpManifest[i].package_id \in MpPackages
          /\ MpManifest[i].dependencies \subseteq MpPackages
          /\ MpManifest[i].conflicts \subseteq MpPackages
          /\ MpManifest[i].budget \in Nat

VARIABLES
    mpStore,     \* per package: the image at its path on storage
    mpFile,      \* the registry on disk: generation, entries, whether its HMAC verifies
    mpRegistry,  \* the library's copy, generation 0 while it has none
    mpPending,   \* the load in progress: package, resolved entry, the image it verified
                 \* (absent before) and, history, whether storage was written since
    mpRec,       \* per package: the manager's record
    mpSnapshots, \* per package: the last snapshot, 0 before the first
    mpLive,      \* per package: the instance and what it computed, -1 for none
    mpSigned,    \* history: the entries the owner ever signed
    mpLoads,     \* history: loads of each package
    mpChanges    \* history: changes from outside

mpVars == <<mpStore, mpFile, mpRegistry, mpPending, mpRec, mpSnapshots,
            mpLive, mpSigned, mpLoads, mpChanges>>

MpAdmitted == {"LOADED", "ACTIVE", "QUIESCED", "STOPPED"}
MpStates == MpAdmitted \cup {"UNKNOWN", "UNLOADED", "FAILED"}
MpNoEntry == [image |-> MpAbsent, enabled |-> FALSE]
MpNoRecord == [state |-> "UNKNOWN", image |-> MpAbsent, code |-> MpAbsent, swapped |-> FALSE,
               snapshot |-> 0, returned |-> FALSE]
MpNoRegistry == [generation |-> 0, entries |-> [p \in MpPackages |-> MpNoEntry]]

MpTypeOK ==
    /\ mpStore \in [MpPackages -> MpImages \cup {MpAbsent}]
    /\ mpFile.generation \in 0 .. MpWrites /\ mpFile.verifies \in BOOLEAN
    /\ mpRegistry.generation \in 0 .. MpWrites
    /\ \A p \in MpPackages : /\ mpRec[p].state \in MpStates
                             /\ mpRec[p].snapshot \in 0 .. MpWork
                             /\ mpSnapshots[p] \in 0 .. MpWork
                             /\ mpLive[p] \in -1 .. MpWork
                             /\ mpLoads[p] \in 0 .. MpLoads

-----------------------------------------------------------------------------
(* Verification and admission.                                             *)

(* What _parse_manifest demands of the fields other than their formats.    *)
MpParses(i) ==
    LET m == MpManifest[i]
    IN  /\ m.authority = "none"
        /\ m.package_id \notin m.dependencies \cup m.conflicts
        /\ m.dependencies \cap m.conflicts = {}
        /\ m.budget >= 1

(* The files on storage are exactly the listed ones, with their hashes.    *)
MpIntact(i) == MpManifest[i].files = "listed"

(* The entrypoint imports and calls nothing that is forbidden.             *)
MpEntrypoint(i) == MpManifest[i].entrypoint = "plain"

MpVerify(i) == i # MpAbsent /\ MpParses(i) /\ MpIntact(i) /\ MpEntrypoint(i)

(* What some packages take of the budget, unit by unit; their number is    *)
(* the sum of the budgets.                                                 *)
MpUnits(S) == UNION {{p} \X (1 .. MpManifest[mpRec[p].image].budget) : p \in S}

MpUsage == Cardinality(MpUnits({p \in MpPackages : mpRec[p].state \in MpAdmitted}))

MpAdmits(i) ==
    LET m == MpManifest[i]
    IN  /\ \A d \in m.dependencies : mpRec[d].state = "ACTIVE"
        /\ \A c \in m.conflicts : mpRec[c].state \notin MpAdmitted
        /\ m.services \subseteq MpServices
        /\ MpUsage + m.budget <= MpBudget

(* A manager without records, a library that has read no registry.         *)
MpInit ==
    /\ mpStore \in {f \in [MpPackages -> MpImages] :
                       \A p \in MpPackages : MpManifest[f[p]].package_id = p /\ MpVerify(f[p])}
    /\ mpFile = [generation |-> 0, entries |-> MpNoRegistry.entries, verifies |-> FALSE]
    /\ mpRegistry = MpNoRegistry /\ mpPending = <<>>
    /\ mpRec = [p \in MpPackages |-> MpNoRecord]
    /\ mpSnapshots = [p \in MpPackages |-> 0]
    /\ mpLive = [p \in MpPackages |-> -1]
    /\ mpSigned = {} /\ mpLoads = [p \in MpPackages |-> 0] /\ mpChanges = 0

-----------------------------------------------------------------------------
(* The owner's registry, and storage.                                      *)

(* owner_trust_module: verify the package, replace its entry, sign, and    *)
(* put the new file in the place of the old one in one rename.             *)
MpApprove(p, enabled) ==
    LET i == mpStore[p]
    IN  /\ mpFile.generation < MpWrites
        /\ mpFile.generation = 0 \/ mpFile.verifies
        /\ MpVerify(i) /\ MpManifest[i].package_id = p
        /\ LET entry == [image |-> i, enabled |-> enabled]
           IN  /\ mpFile' = [generation |-> mpFile.generation + 1,
                             entries |-> [mpFile.entries EXCEPT ![p] = entry],
                             verifies |-> TRUE]
               /\ mpSigned' = mpSigned \cup {<<p, i>>}
        /\ UNCHANGED <<mpStore, mpRegistry, mpPending, mpRec, mpSnapshots, mpLive,
                       mpLoads, mpChanges>>

(* The file on disk is altered: an entry names another image, and the HMAC *)
(* no longer verifies.                                                     *)
MpFileDamaged(p, i) ==
    /\ mpFile.generation > 0 /\ mpFile.verifies
    /\ mpFile' = [mpFile EXCEPT !.verifies = FALSE,
                                !.entries[p] = [image |-> i, enabled |-> TRUE]]
    /\ mpChanges < MpChanges /\ mpChanges' = mpChanges + 1
    /\ UNCHANGED <<mpStore, mpRegistry, mpPending, mpRec, mpSnapshots, mpLive,
                   mpSigned, mpLoads>>

(* Storage is attached, detached or written at any moment.                 *)
MpStorageChange(p, i) ==
    /\ i # mpStore[p]
    /\ mpStore' = [mpStore EXCEPT ![p] = i]
    /\ mpPending' = IF mpPending # <<>> /\ mpPending[1].package = p
                    THEN <<[mpPending[1] EXCEPT !.swapped = TRUE]>> ELSE mpPending
    /\ mpChanges < MpChanges /\ mpChanges' = mpChanges + 1
    /\ UNCHANGED <<mpFile, mpRegistry, mpRec, mpSnapshots, mpLive, mpSigned, mpLoads>>

MpReadable == mpFile.generation > 0 /\ mpFile.verifies

(* The registry is read once and kept until reload_registry.               *)
MpRead == IF mpRegistry.generation = 0 /\ MpReadable
          THEN [generation |-> mpFile.generation, entries |-> mpFile.entries]
          ELSE mpRegistry

MpReloadRegistry ==
    /\ mpPending = <<>>
    /\ mpRegistry' = IF MpReadable THEN [generation |-> mpFile.generation,
                                         entries |-> mpFile.entries]
                     ELSE MpNoRegistry
    /\ mpRegistry' # mpRegistry
    /\ UNCHANGED <<mpStore, mpFile, mpPending, mpRec, mpSnapshots, mpLive,
                   mpSigned, mpLoads, mpChanges>>

-----------------------------------------------------------------------------
(* The trusted library.                                                    *)

(* The image at a path is the one the entry names.                         *)
MpMatches(p, entry, i) == MpManifest[i].package_id = p /\ i = entry.image

(* The comparison that load repeats on the record it got.                  *)
MpAgrees(p, entry, i) == MpMatches(p, entry, i)

(* resolve: the registry first, storage only for an enabled entry.         *)
MpResolve(p) ==
    LET entry == MpRead.entries[p]
    IN  /\ mpPending = <<>>
        /\ mpRegistry' = MpRead
        /\ mpPending' = IF /\ entry.enabled
                           /\ MpVerify(mpStore[p]) /\ MpMatches(p, entry, mpStore[p])
                        THEN <<[package |-> p, entry |-> entry, image |-> MpAbsent,
                                swapped |-> FALSE]>>
                        ELSE <<>>
        /\ <<mpPending', mpRegistry'>> # <<mpPending, mpRegistry>>
        /\ UNCHANGED <<mpStore, mpFile, mpRec, mpSnapshots, mpLive, mpSigned, mpLoads, mpChanges>>

(* The manager's load up to the import: it verifies whatever is now at the *)
(* resolved path and admits it.                                            *)
MpLoad ==
    /\ mpPending # <<>> /\ mpPending[1].image = MpAbsent
    /\ LET i == mpStore[mpPending[1].package]
           q == MpManifest[i].package_id
       IN  mpPending' =
             IF MpVerify(i) /\ mpRec[q].state \in {"UNKNOWN", "UNLOADED"} /\ MpAdmits(i)
             THEN <<[mpPending[1] EXCEPT !.image = i, !.swapped = FALSE]>> ELSE <<>>
    /\ UNCHANGED <<mpStore, mpFile, mpRegistry, mpRec, mpSnapshots, mpLive, mpSigned,
                   mpLoads, mpChanges>>

(* A loaded package starts without the snapshot of its last run.           *)
MutMpNewRecord(l, code) ==
    [state |-> "LOADED", image |-> l.image, code |-> code, swapped |-> l.swapped,
     snapshot |-> 0, returned |-> MpAgrees(l.package, l.entry, l.image)]

(* The record of a load: the manifest it verified, the code it executed,   *)
(* the last snapshot.  The library compares the manifest with the entry: a *)
(* record that differs stays admitted but is not returned.                 *)
MpNewRecord(l, code) ==
    [state |-> "LOADED", image |-> l.image, code |-> code, swapped |-> l.swapped,
     snapshot |-> mpSnapshots[MpManifest[l.image].package_id],
     returned |-> MpAgrees(l.package, l.entry, l.image)]

(* The entrypoint is read again, compiled and executed; the import or the  *)
(* factory may raise, as it does here at the bound on loads.               *)
MpImport(imports) ==
    /\ mpPending # <<>> /\ mpPending[1].image # MpAbsent
    /\ LET l == mpPending[1]
           code == mpStore[l.package]
           q == MpManifest[l.image].package_id
       IN  IF imports /\ code # MpAbsent /\ mpLoads[q] < MpLoads
           THEN /\ mpRec' = [mpRec EXCEPT ![q] = MpNewRecord(l, code)]
                /\ mpLive' = [mpLive EXCEPT ![q] = 0]
                /\ mpLoads' = [mpLoads EXCEPT ![q] = @ + 1]
           ELSE UNCHANGED <<mpRec, mpLive, mpLoads>>
    /\ mpPending' = <<>>
    /\ UNCHANGED <<mpStore, mpFile, mpRegistry, mpSnapshots, mpSigned, mpChanges>>

-----------------------------------------------------------------------------
(* The lifecycle.  An instance's method either returns or raises; a raise  *)
(* leaves the record FAILED, with its instance.                            *)

(* _require_record; the caller is not in the middle of a load.             *)
MpRequire(p, states) == mpPending = <<>> /\ mpRec[p].state \in states

MpSet(p, state) == mpRec' = [mpRec EXCEPT ![p].state = state]

MpStart(p) ==
    /\ MpRequire(p, {"LOADED"})
    /\ \/ /\ MpSet(p, "ACTIVE")
          /\ mpLive' = [mpLive EXCEPT ![p] = mpRec[p].snapshot]
       \/ MpSet(p, "FAILED") /\ UNCHANGED mpLive
    /\ UNCHANGED <<mpStore, mpFile, mpRegistry, mpPending, mpSnapshots, mpSigned, mpLoads, mpChanges>>

(* An active instance computes and publishes a sensor or health record.    *)
MpPublish(p) ==
    /\ mpRec[p].state = "ACTIVE"
    /\ mpLive[p] < MpWork
    /\ mpLive' = [mpLive EXCEPT ![p] = @ + 1]
    /\ UNCHANGED <<mpStore, mpFile, mpRegistry, mpPending, mpRec, mpSnapshots,
                   mpSigned, mpLoads, mpChanges>>

MpQuiesce(p) ==
    /\ MpRequire(p, {"ACTIVE"})
    /\ MpSet(p, "QUIESCED") \/ MpSet(p, "FAILED")
    /\ UNCHANGED <<mpStore, mpFile, mpRegistry, mpPending, mpSnapshots, mpLive,
                   mpSigned, mpLoads, mpChanges>>

(* A snapshot must carry the manifest's schema, keep its bound and claim   *)
(* no authority.                                                           *)
MpSnapshotFits(kind) == kind = "fit"

(* snapshot_state returns a snapshot, fit or not, or raises.               *)
MpSnapshot(p) ==
    /\ MpRequire(p, {"QUIESCED"})
    /\ \E kind \in {"fit", "other schema", "too large", "claims authority", "raised"} :
          IF MpSnapshotFits(kind)
          THEN /\ mpRec' = [mpRec EXCEPT ![p].snapshot = mpLive[p]]
               /\ mpSnapshots' = [mpSnapshots EXCEPT ![p] = mpLive[p]]
          ELSE MpSet(p, "FAILED") /\ UNCHANGED mpSnapshots
    /\ UNCHANGED <<mpStore, mpFile, mpRegistry, mpPending, mpLive, mpSigned, mpLoads, mpChanges>>

MpStop(p) ==
    /\ MpRequire(p, {"QUIESCED"})
    /\ MpSet(p, "STOPPED") \/ MpSet(p, "FAILED")
    /\ UNCHANGED <<mpStore, mpFile, mpRegistry, mpPending, mpSnapshots, mpLive,
                   mpSigned, mpLoads, mpChanges>>

MpUnload(p) ==
    /\ MpRequire(p, {"STOPPED"})
    /\ MpSet(p, "UNLOADED")
    /\ mpLive' = [mpLive EXCEPT ![p] = -1]
    /\ UNCHANGED <<mpStore, mpFile, mpRegistry, mpPending, mpSnapshots, mpSigned, mpLoads, mpChanges>>

MpNext ==
    \/ MpReloadRegistry
    \/ MpLoad \/ \E imports \in BOOLEAN : MpImport(imports)
    \/ \E p \in MpPackages :
          \/ \E enabled \in BOOLEAN : MpApprove(p, enabled)
          \/ \E i \in MpImages : MpFileDamaged(p, i)
          \/ \E i \in MpImages \cup {MpAbsent} : MpStorageChange(p, i)
          \/ MpResolve(p)
          \/ MpStart(p) \/ MpPublish(p) \/ MpQuiesce(p)
          \/ MpSnapshot(p) \/ MpStop(p) \/ MpUnload(p)

-----------------------------------------------------------------------------
(* The budgets of the packages that have an instance and did not fail stay *)
(* together within the manager's budget, through every order of loads,     *)
(* failures and unloads.  usage() counts no failed package, although its   *)
(* instance is kept: the budget of one that failed is given to others.     *)
MpWithinBudget ==
    Cardinality(MpUnits({p \in MpPackages : mpLive[p] >= 0 /\ mpRec[p].state # "FAILED"}))
        <= MpBudget

(* What a package computed up to its last snapshot is not lost by an       *)
(* unload and a later load: an active instance holds at least the last     *)
(* snapshot ever taken of its package.                                     *)
MpStateCarried ==
    \A p \in MpPackages : mpRec[p].state = "ACTIVE" => mpLive[p] >= mpSnapshots[p]

(* A package the library returned as loaded was verified with the content  *)
(* of an entry the owner signed, although storage and the registry file    *)
(* may change between the reads; and the code it executed is that content, *)
(* unless storage was written after the verification and before the        *)
(* entrypoint was read again.                                              *)
MpReturnedTrusted ==
    \A p \in MpPackages :
        mpRec[p].returned =>
            /\ <<p, mpRec[p].image>> \in mpSigned
            /\ mpRec[p].code = mpRec[p].image \/ mpRec[p].swapped

(* What the package manager promises over every order of signing, storage  *)
(* changes, loads, failures and unloads.                                   *)
MpSound == MpWithinBudget /\ MpStateCarried /\ MpReturnedTrusted

MpSpec == MpInit /\ [][MpNext]_mpVars
=============================================================================
