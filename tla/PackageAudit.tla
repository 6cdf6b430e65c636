---------------------------- MODULE PackageAudit ----------------------------
(***************************************************************************)
(* The packages that a DSH worker loads: the runtime that the action's     *)
(* own lock pins, and the extensions of the plan beside it.                *)
(*                                                                         *)
(* npm installs both; what it leaves of an extension is not known before.  *)
(* The Controller records the runtime (dsh/install.ts) and its lock        *)
(* (extensions/runtime-lock.ts) before the extensions are installed, and   *)
(* compares both afterwards; a later turn compares the lock alone.         *)
(***************************************************************************)
EXTENDS FiniteSets, Functions

CONSTANTS
    RuntimePackages,    \* the names that package-lock.json of the action pins
    Bundles, Plugins,   \* the packages of plan.bundles and plan.plugins
    ByCommit            \* those of them that name a git commit

Dependencies == Bundles \cup Plugins        \* plan.packageDependencies

(* What package.json of the Profile asks npm for. *)
Manifest == RuntimePackages \cup Dependencies

ASSUME PackageAssumption == ByCommit \subseteq Dependencies

VARIABLES
    modules,        \* node_modules: what lies under each name
    lock,           \* package-lock.json
    baseline,       \* installedPackageInventory and ...LockBaseline, if captured
    auditedLock,    \* installedExtensionRuntimeLock, if there is one
    specifiers      \* verifiedPluginModuleSpecifiers are known

packageVars == <<modules, lock, baseline, auditedLock, specifiers>>

(* exact: the version, or the commit, that the lock or the plan names.     *)
(* within: its entry, or its patch, lies within the package.               *)
Installed == [name : Manifest, exact : BOOLEAN, within : BOOLEAN]
(* fixed: a resolution that cannot change. *)
Entry == [exact : BOOLEAN, fixed : BOOLEAN]

Proper(n)   == [name |-> n, exact |-> TRUE, within |-> TRUE]
ProperEntry == [exact |-> TRUE, fixed |-> TRUE]

Nothing     == [n \in {} |-> ProperEntry]
NoLock      == [dependencies |-> {}, packages |-> Nothing]

PackageTypeOK ==
    /\ DOMAIN modules \subseteq Manifest
    /\ \A n \in DOMAIN modules : modules[n] \in Installed
    /\ lock.dependencies \subseteq Manifest
    /\ \A n \in DOMAIN lock.packages : lock.packages[n] \in Entry
    /\ Cardinality(baseline) <= 1 /\ Cardinality(auditedLock) <= 1
    /\ specifiers \in BOOLEAN

PackageInit ==
    /\ modules = Nothing
    /\ lock = NoLock
    /\ baseline = {} /\ auditedLock = {}
    /\ specifiers = FALSE

-----------------------------------------------------------------------------
(* npm. *)

(* npm ci does what the lock says, or fails. *)
InstallsRuntime ==
    /\ modules' = [n \in RuntimePackages |-> Proper(n)]
    /\ lock' = [dependencies |-> RuntimePackages,
                packages |-> [n \in RuntimePackages |-> ProperEntry]]

Without(n, f) == Restrict(f, DOMAIN f \ {n})

(* npm install: every name as it should be, but for one at most. *)
ModulesLeft ==
    LET right == [n \in Manifest |-> Proper(n)]
    IN  {right} \cup {Without(n, right) : n \in Manifest}
                \cup {[right EXCEPT ![n] = p] : n \in Manifest, p \in Installed}

(* The same of the lock. *)
LocksLeft ==
    LET right == [n \in Manifest |-> ProperEntry]
    IN  {[dependencies |-> d, packages |-> right] : d \in SUBSET Manifest}
        \cup {[dependencies |-> Manifest, packages |-> p] :
                p \in {Without(n, right) : n \in Manifest}
                      \cup {[right EXCEPT ![n] = e] : n \in Manifest, e \in Entry}}

InstallsExtensions == modules' \in ModulesLeft /\ lock' \in LocksLeft

-----------------------------------------------------------------------------
(* The inventory of what is installed. *)

(* No two directories may hold the same package. *)
Unambiguous(m) == \A n, o \in DOMAIN m : m[n].name = m[o].name => n = o

Inventory(m) == {[name |-> m[n].name, exact |-> m[n].exact] : n \in DOMAIN m}

InventoryUnchanged(before, m) == Unambiguous(m) /\ before \subseteq Inventory(m)

Shadows(inventory) == \E p \in inventory : p.name \in Dependencies

(* A version is compared here; a commit only if npm recorded it, so that   *)
(* the lock has to tell.                                                   *)
Verified(m) ==
    \A d \in Dependencies :
        /\ d \in DOMAIN m
        /\ m[d].name = d
        /\ d \notin ByCommit => m[d].exact
        /\ d \in Bundles => m[d].within

(* installedPluginEntry *)
PluginsWithin(m) == \A p \in Plugins : p \in DOMAIN m /\ m[p].name = p /\ m[p].within

-----------------------------------------------------------------------------
(* The lock. *)

(* validateResolvedPackage, of every entry. *)
Immutable(l) == \A n \in DOMAIN l.packages : l.packages[n].fixed

(* snapshotRuntimeLock *)
Snapshot(l) == [dependencies |-> l.dependencies, packages |-> l.packages]

AbsentFrom(b) == Dependencies \cap DOMAIN b.packages = {}

EntriesUnchanged(l, b) ==
    \A n \in DOMAIN b.packages : n \in DOMAIN l.packages /\ l.packages[n] = b.packages[n]

DirectLocks(l, b) ==
    /\ AbsentFrom(b)
    /\ l.dependencies = b.dependencies \cup Dependencies
    /\ \A d \in Dependencies : d \in DOMAIN l.packages /\ l.packages[d].exact

LockHolds(l, b) == Immutable(l) /\ EntriesUnchanged(l, b) /\ DirectLocks(l, b)

-----------------------------------------------------------------------------
(* The audit. *)

(* A mutant: the baseline is not what was installed by the lock. *)
CaptureBaselineNot ==
    /\ Unambiguous(modules) /\ Immutable(lock)
    /\ baseline' = {[inventory |-> {}, lock |-> NoLock]}
    /\ UNCHANGED <<modules, lock, auditedLock, specifiers>>

(* captureExtensionInstallBaseline *)
CaptureBaseline ==
    /\ Unambiguous(modules) /\ Immutable(lock)
    /\ baseline' = IF Dependencies = {} THEN {}
                   ELSE {[inventory |-> Inventory(modules), lock |-> Snapshot(lock)]}
    /\ UNCHANGED <<modules, lock, auditedLock, specifiers>>

(* assertExtensionInstallBaseline *)
MayExtend == \E b \in baseline : ~Shadows(b.inventory) /\ AbsentFrom(b.lock)

(* auditFreshExtensionInstallation *)
FreshHolds ==
    \E b \in baseline :
        /\ InventoryUnchanged(b.inventory, modules)
        /\ Verified(modules)
        /\ LockHolds(lock, b.lock)

(* auditReusedExtensionInstallation *)
ReusedHolds ==
    /\ \E b \in baseline : LockHolds(lock, b.lock)
    /\ auditedLock = {lock}

=============================================================================
