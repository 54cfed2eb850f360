----------------------------- MODULE RootRotation -----------------------------
(***************************************************************************)
(* The local certificate authority: localca.Reconcile as run by a starting *)
(* gateway, by its daily maintenance and by `drg tls reconcile', the root  *)
(* rotation of `drg tls rotate-root', certmanager's reload of the served   *)
(* pair, and the Docker trust that trust.Install writes.  The gateway and  *)
(* one command work on the same directory at once.  Files are replaced by  *)
(* rename, one at a time, so a crash leaves any prefix of the writes.      *)
(***************************************************************************)
EXTENDS Naturals, Sequences, FiniteSets

CONSTANTS MaxRoots,   \* bound on the roots created
          MaxLeaves,  \* bound on the server certificates issued
          MaxFaults,  \* bound on the kinds of change that are interrupted half way
          Manual      \* the operator also uses --skip-trust-install and --activate

ASSUME RotationAssumption ==
    /\ MaxRoots \in Nat \ {0} /\ MaxLeaves \in Nat \ {0} /\ MaxFaults \in Nat
    /\ Manual \in BOOLEAN

VARIABLES
    disk,       \* the files of DataDir/pki: which root or leaf each holds, 0 if absent
    roots,      \* number of roots created so far
    signer,     \* the root that signed each leaf issued so far
    due,        \* the leaf on disk is in its renewal window, or for a former endpoint
    pc, job,    \* where each actor is, and in which of its jobs
    read,       \* what each actor has read or created and not yet used
    presented,  \* the leaf the running gateway presents, 0 if it does not run
    slots,      \* trust is a file per name (Linux), else a growing store
    trust,      \* Docker's files of the names current, next and previous
    store,      \* roots in the platform's store, or installed by hand
    uninstalled,\* roots in use whose last installation was skipped, refused or interrupted
    broken      \* what went wrong: where actors were interrupted, and which races happened

files == <<disk, roots, signer, due>>
docker == <<slots, trust, store, uninstalled>>
rotationVars == <<files, pc, job, read, presented, docker, broken>>

Actors == {"gateway", "cli"}
Roots  == 0..MaxRoots
Leaves == 0..MaxLeaves
Nothing == [root |-> 0, key |-> 0, leaf |-> 0]
Other(a) == IF a = "gateway" THEN "cli" ELSE "gateway"

\* Docker's trust: what was installed by hand or in a store, and the slots.
Trusted == store \cup {trust[s] : s \in DOMAIN trust}

\* The root and the server certificate that are created next.
NewRoot == roots + 1
NewLeaf == Len(signer) + 1

RotationInit ==
    /\ disk = [ca |-> 0, caKey |-> 0, identity |-> 0, previous |-> 0,
               next |-> 0, nextKey |-> 0, leaf |-> 0, leafKey |-> 0]
    /\ roots = 0 /\ signer = <<>> /\ due = FALSE
    /\ pc = [a \in Actors |-> "idle"] /\ job = [a \in Actors |-> "none"]
    /\ read = [a \in Actors |-> Nothing]
    /\ presented = 0
    /\ slots \in BOOLEAN
    /\ trust = [s \in {"current", "next", "previous"} |-> 0]
    /\ store = {} /\ uninstalled = {}
    /\ broken = {}

ActorAt(a, l) == pc[a] = l
Goto(a, l) == pc' = [pc EXCEPT ![a] = l]

\* Where an actor is once its job has ended: a gateway that maintains its
\* certificate goes on serving.
Rest(a) == IF job[a] = "maintain" THEN "serving" ELSE "idle"

\* The job ends, for a return of an error or as it should.
End(a) ==
    /\ Goto(a, Rest(a))
    /\ job' = [job EXCEPT ![a] = "none"]
    /\ read' = [read EXCEPT ![a] = Nothing]

Fail(a) == End(a) /\ UNCHANGED <<files, presented, docker, broken>>

-----------------------------------------------------------------------------
(* What begins.                                                            *)

Begin(a, j, l) ==
    /\ job' = [job EXCEPT ![a] = j]
    /\ Goto(a, l)
    /\ UNCHANGED <<files, read, presented, docker, broken>>

Serve ==
    /\ ActorAt("gateway", "idle")
    /\ Begin("gateway", "start", "root")

Maintain == ActorAt("gateway", "serving") /\ Begin("gateway", "maintain", "root")

\* One operator, who gives tls commands once the gateway has its identity, and
\* --activate once Docker trusts the pending root.
runTLS ==
    /\ ActorAt("cli", "idle") /\ disk.identity # 0
    /\ \/ \E j \in {"reconcile", "rotate"} : Begin("cli", j, "root")
       \/ Manual /\ Begin("cli", "prepare", "root")
       \/ Manual /\ disk.next \in store /\ Begin("cli", "activate", "root")

ClearPreviousRoot ==
    /\ ActorAt("cli", "idle") /\ disk.previous # 0
    /\ disk' = [disk EXCEPT !.previous = 0]
    /\ UNCHANGED <<roots, signer, due, pc, job, read, presented, docker, broken>>

OperatorTrusts ==
    /\ Manual /\ disk.next # 0 /\ disk.next \notin store
    /\ store' = store \cup {disk.next}
    /\ UNCHANGED <<files, pc, job, read, presented, slots, trust, uninstalled, broken>>

\* The leaf on disk enters its renewal window, or the endpoint is changed.
LeafAges ==
    /\ disk.leaf # 0 /\ ~due
    /\ due' = TRUE
    /\ UNCHANGED <<disk, roots, signer, pc, job, read, presented, docker, broken>>

-----------------------------------------------------------------------------
(* Reconcile: loadOrCreateRoot, then loadLeaf or issueLeaf.                *)

\* The existence checks and the certificate; with neither file nor identity a
\* root is created and its certificate written.
LoadRoot(a) ==
    /\ ActorAt(a, "root")
    /\ \/ /\ disk.ca # 0 /\ disk.caKey # 0
          /\ read' = [read EXCEPT ![a].root = disk.ca]
          /\ Goto(a, "key")
          /\ UNCHANGED <<disk, roots>>
       \/ /\ disk.ca = 0 /\ disk.caKey = 0 /\ disk.identity = 0 /\ roots < MaxRoots
          /\ roots' = NewRoot
          /\ disk' = [disk EXCEPT !.ca = NewRoot]
          /\ read' = [read EXCEPT ![a].root = NewRoot, ![a].key = NewRoot]
          /\ Goto(a, "createKey")
    /\ UNCHANGED <<signer, due, job, presented, docker, broken>>

RootRefused(a) ==
    /\ ActorAt(a, "root")
    /\ \/ (disk.ca = 0 <=> disk.caKey # 0)
       \/ disk.ca = 0 /\ disk.identity # 0
    /\ Fail(a)

Write(a, from, file, value, to) ==
    /\ ActorAt(a, from)
    /\ disk' = [disk EXCEPT ![file] = value]
    /\ Goto(a, to)
    /\ UNCHANGED <<roots, signer, due, presented, docker>>

CreateKey(a) ==
    Write(a, "createKey", "caKey", read[a].key, "createIdentity") /\ UNCHANGED <<job, read, broken>>
CreateIdentity(a) ==
    Write(a, "createIdentity", "identity", read[a].root, "leaf") /\ UNCHANGED <<job, read, broken>>

\* The key is read and the identity compared: a rotation that comes in between
\* only makes the comparison fail.
verifyIdentity(a) ==
    /\ ActorAt(a, "key")
    /\ IF disk.identity # read[a].root THEN Fail(a)
       ELSE /\ read' = [read EXCEPT ![a].key = disk.caKey]
            /\ Goto(a, "leaf")
            /\ UNCHANGED <<files, job, presented, docker, broken>>

\* loadLeaf does not compare the pair, leafNeedsRenewal looks at the certificate.
leafNeedsRenewal(a) ==
    \/ disk.leafKey = 0
    \/ disk.leaf \notin {l \in 1..Len(signer) : signer[l] = read[a].root}
    \/ due

LeafCurrent(a) ==
    /\ ActorAt(a, "leaf") /\ ~leafNeedsRenewal(a)
    /\ read' = [read EXCEPT ![a] = [Nothing EXCEPT !.root = read[a].root]]
    /\ Goto(a, "reconciled")
    /\ UNCHANGED <<files, job, presented, docker, broken>>

\* CreateCertificate refuses a key that is not the root's; then the certificate
\* is written, and the key in a step of its own.
issueLeaf(a, from, to) ==
    /\ ActorAt(a, from)
    /\ IF read[a].key # read[a].root THEN Fail(a)
       ELSE /\ Len(signer) < MaxLeaves
            /\ signer' = Append(signer, read[a].root)
            /\ disk' = [disk EXCEPT !.leaf = NewLeaf]
            /\ read' = [read EXCEPT ![a].leaf = NewLeaf]
            /\ broken' = IF pc[Other(a)] \in {"leafKey", "promoteLeafKey"}
                         THEN broken \cup {"race"} ELSE broken
            /\ Goto(a, to)
            /\ due' = FALSE
            /\ UNCHANGED <<roots, job, presented, docker>>

RenewLeaf(a) == leafNeedsRenewal(a) /\ issueLeaf(a, "leaf", "leafKey")
RenewLeafKey(a) ==
    /\ Write(a, "leafKey", "leafKey", read[a].leaf, "reconciled")
    /\ read' = [read EXCEPT ![a].key = 0]
    /\ UNCHANGED <<job, broken>>

Reconcile(a) ==
    \/ LoadRoot(a) \/ RootRefused(a) \/ CreateKey(a) \/ CreateIdentity(a)
    \/ verifyIdentity(a) \/ LeafCurrent(a) \/ RenewLeaf(a) \/ RenewLeafKey(a)

-----------------------------------------------------------------------------
(* reconcileTLS and the gateway's certmanager.                             *)

\* trust.Install: a file of that name, or one more root in the store.
Install(a, from, slot, root) ==
    /\ ActorAt(a, from)
    /\ IF slots THEN trust' = [trust EXCEPT ![slot] = root] /\ UNCHANGED store
       ELSE store' = store \cup {root} /\ UNCHANGED trust
    /\ uninstalled' = IF slot = "next" THEN uninstalled ELSE uninstalled \ {root}
    /\ UNCHANGED slots

\* It installs nothing and returns no error: in a container, on an unknown platform,
\* where the platform refuses, and with install_trust: false it is not called.  On
\* Linux the write has then perhaps begun, and the file of that name is empty.
NotInstalled(slot, root) ==
    /\ \/ UNCHANGED trust
       \/ slots /\ trust' = [trust EXCEPT ![slot] = 0]
    /\ uninstalled' = uninstalled \cup ({root} \cap {disk.ca})
    /\ UNCHANGED <<slots, store>>

\* The maintenance goes on only with a leaf it has issued.
Reconciled(a) ==
    /\ ActorAt(a, "reconciled")
    /\ \/ job[a] = "maintain" /\ read[a].leaf = 0 /\ Fail(a)
       \/ /\ \/ job[a] \in {"start", "reconcile"} /\ Goto(a, "installCurrent")
             \/ job[a] = "maintain" /\ read[a].leaf # 0 /\ Goto(a, "load")
             \/ job[a] \in {"rotate", "prepare"} /\ Goto(a, "prepare")
             \/ job[a] \in {"activate", "promote"} /\ Goto(a, "preserve")
          /\ UNCHANGED <<files, job, read, presented, docker, broken>>

\* The root may be replaced between its reading and its writing.  Nothing asks
\* whether it was installed.
InstallCurrent(a) ==
    /\ \/ \E root \in {read[a].root, disk.ca} : Install(a, "installCurrent", "current", root)
       \/ ActorAt(a, "installCurrent") /\ NotInstalled("current", disk.ca)
    /\ broken' = IF disk.ca # read[a].root THEN broken \cup {"replaced"} ELSE broken
    /\ IF a = "cli" THEN End(a) ELSE Goto(a, "load") /\ UNCHANGED <<job, read>>
    /\ UNCHANGED <<files, presented>>

\* tls.LoadX509KeyPair reads the certificate, then the key, and compares them.
LoadCertificate ==
    /\ ActorAt("gateway", "load")
    /\ read' = [read EXCEPT !["gateway"].leaf = disk.leaf]
    /\ Goto("gateway", "loadKey")
    /\ UNCHANGED <<files, job, presented, docker, broken>>

ManagerReload ==
    /\ ActorAt("gateway", "loadKey")
    /\ IF disk.leafKey # read["gateway"].leaf THEN Fail("gateway")
       ELSE /\ presented' = read["gateway"].leaf
            /\ Goto("gateway", "serving")
            /\ job' = [job EXCEPT !["gateway"] = "none"]
            /\ read' = [read EXCEPT !["gateway"] = Nothing]
            /\ UNCHANGED <<files, docker, broken>>

StopServing ==
    /\ ActorAt("gateway", "serving")
    /\ presented' = 0
    /\ Goto("gateway", "idle")
    /\ UNCHANGED <<files, job, read, docker, broken>>

Gateway == Reconciled("gateway") \/ InstallCurrent("gateway") \/ LoadCertificate \/ ManagerReload

-----------------------------------------------------------------------------
(* The rotation: PrepareRootRotation, then ActivateRootRotation.           *)

PrepareRefused ==
    /\ ActorAt("cli", "prepare")
    /\ disk.previous # 0 \/ (disk.next = 0 <=> disk.nextKey # 0)
    /\ Fail("cli")

\* With --skip-trust-install the command ends here.
Prepared ==
    IF job["cli"] = "prepare" THEN End("cli")
    ELSE Goto("cli", "installNext") /\ UNCHANGED <<job, read>>

\* A pending root is taken as it is; otherwise one is created.
PrepareRootRotation ==
    /\ ActorAt("cli", "prepare") /\ disk.previous = 0
    /\ \/ /\ disk.next # 0 /\ disk.nextKey # 0
          /\ Prepared
          /\ UNCHANGED <<disk, roots>>
       \/ /\ disk.next = 0 /\ disk.nextKey = 0 /\ roots < MaxRoots
          /\ roots' = NewRoot
          /\ disk' = [disk EXCEPT !.next = NewRoot]
          /\ read' = [read EXCEPT !["cli"].key = NewRoot]
          /\ Goto("cli", "prepareKey")
          /\ UNCHANGED job
    /\ UNCHANGED <<signer, due, presented, docker, broken>>

PrepareKey ==
    /\ ActorAt("cli", "prepareKey")
    /\ disk' = [disk EXCEPT !.nextKey = read["cli"].key]
    /\ Prepared
    /\ UNCHANGED <<roots, signer, due, presented, docker, broken>>

\* Only a root that was installed is promoted.
InstallNext ==
    /\ Install("cli", "installNext", "next", disk.next)
    /\ UNCHANGED <<files, presented, broken>>
    /\ Goto("cli", "root")
    /\ job' = [job EXCEPT !["cli"] = "promote"]
    /\ read' = [read EXCEPT !["cli"] = Nothing]

\* A plausible slip: the promotion goes ahead whatever the installation did.
InstallNextFailsOn ==
    /\ ActorAt("cli", "installNext")
    /\ Goto("cli", "root")
    /\ job' = [job EXCEPT !["cli"] = "promote"]
    /\ UNCHANGED <<files, read, presented, docker, broken>>

InstallNextFails ==
    /\ ActorAt("cli", "installNext")
    /\ NotInstalled("next", disk.next)
    /\ End("cli")
    /\ UNCHANGED <<files, presented, broken>>

ActivateRefused ==
    /\ ActorAt("cli", "preserve")
    /\ disk.previous # 0 \/ disk.next = 0 \/ disk.nextKey = 0
    /\ Fail("cli")

\* The pending and the current root are read; the current one is kept.
PreserveRoot ==
    /\ disk.previous = 0 /\ disk.next # 0 /\ disk.nextKey # 0
    /\ Write("cli", "preserve", "previous", disk.ca, "promoteRoot")
    /\ read' = [read EXCEPT !["cli"] = [Nothing EXCEPT !.root = disk.next, !.key = disk.nextKey]]
    /\ UNCHANGED <<job, broken>>

PromoteRoot ==
    /\ Write("cli", "promoteRoot", "ca", read["cli"].root, "promoteKey")
    /\ UNCHANGED <<job, read, broken>>
PromoteKey ==
    /\ Write("cli", "promoteKey", "caKey", read["cli"].key, "promoteIdentity")
    /\ UNCHANGED <<job, read, broken>>
PromoteIdentity ==
    /\ Write("cli", "promoteIdentity", "identity", read["cli"].root, "promoteLeaf")
    /\ UNCHANGED <<job, read, broken>>
PromoteLeaf == issueLeaf("cli", "promoteLeaf", "promoteLeafKey")
PromoteLeafKey ==
    /\ Write("cli", "promoteLeafKey", "leafKey", read["cli"].leaf, "removeNext")
    /\ UNCHANGED <<job, read, broken>>
RemoveNext ==
    /\ Write("cli", "removeNext", "next", 0, "removeNextKey")
    /\ UNCHANGED <<job, read, broken>>
RemoveNextKey ==
    /\ ActorAt("cli", "removeNextKey")
    /\ disk' = [disk EXCEPT !.nextKey = 0]
    /\ IF job["cli"] = "activate" THEN End("cli")
       ELSE Goto("cli", "installPrevious") /\ UNCHANGED <<job, read>>
    /\ UNCHANGED <<roots, signer, due, presented, docker, broken>>

\* The roots get lasting names; a failure is reported, and taken for harmless
\* because the new root is still trusted under the name next.
InstallPrevious ==
    /\ \/ Install("cli", "installPrevious", "previous", disk.previous)
       \/ ActorAt("cli", "installPrevious") /\ NotInstalled("previous", disk.previous)
    /\ Goto("cli", "installPromoted")
    /\ UNCHANGED <<files, job, read, presented, broken>>

InstallPromoted ==
    /\ \/ Install("cli", "installPromoted", "current", disk.ca)
       \/ ActorAt("cli", "installPromoted") /\ NotInstalled("current", disk.ca)
    /\ End("cli")
    /\ UNCHANGED <<files, presented, broken>>

Rotation ==
    \/ PrepareRefused \/ PrepareRootRotation \/ PrepareKey \/ InstallNext \/ InstallNextFails
    \/ ActivateRefused \/ PreserveRoot \/ PromoteRoot \/ PromoteKey \/ PromoteIdentity
    \/ PromoteLeaf \/ PromoteLeafKey \/ RemoveNext \/ RemoveNextKey
    \/ Reconciled("cli") \/ InstallPrevious \/ InstallPromoted \/ InstallCurrent("cli")

-----------------------------------------------------------------------------
(* Faults.                                                                 *)

Writing == {"createKey", "createIdentity", "leaf", "leafKey", "prepareKey", "preserve",
            "promoteRoot", "promoteKey", "promoteIdentity", "promoteLeaf",
            "promoteLeafKey", "removeNext", "removeNextKey"}

\* Where an actor installs, the name it writes.
Naming == [installCurrent |-> "current", installNext |-> "next",
           installPrevious |-> "previous", installPromoted |-> "current"]

\* Before these writes the files are in the middle of a change to several.
Windows == {"createKey", "createIdentity", "leafKey", "prepareKey", "promoteKey",
            "promoteIdentity", "promoteLeafKey", "removeNextKey"}

Interrupted(a) ==
    /\ broken' = broken \cup ({pc[a]} \cap Windows)
    /\ Cardinality(broken' \ {"race", "replaced"}) <= MaxFaults

\* What an actor was about to install, or to give its lasting name, is not.
Lapses(a) ==
    IF pc[a] \in DOMAIN Naming
    THEN NotInstalled(Naming[pc[a]], IF pc[a] = "installNext" THEN disk.next ELSE disk.ca)
    ELSE UNCHANGED docker

\* The process ends; what it has written stays.
Killed(a) ==
    /\ MaxFaults > 0 /\ pc[a] # "idle"
    /\ Interrupted(a)
    /\ presented' = IF a = "gateway" THEN 0 ELSE presented
    /\ Goto(a, "idle")
    /\ job' = [job EXCEPT ![a] = "none"]
    /\ read' = [read EXCEPT ![a] = Nothing]
    /\ Lapses(a)
    /\ UNCHANGED files

\* A write fails and the error is returned.
AtomicWriteFails(a) ==
    /\ pc[a] \in Writing \ {"prepareKey"}
    /\ Interrupted(a)
    /\ End(a)
    /\ UNCHANGED <<files, presented, docker>>

\* A plausible slip: the certificate without its key stays.
PrepareKeyFailsDirty ==
    /\ MaxFaults > 0 /\ ActorAt("cli", "prepareKey")
    /\ End("cli")
    /\ UNCHANGED <<files, presented, docker, broken>>

\* PrepareRootRotation then removes the certificate it has written.
PrepareKeyFails ==
    /\ MaxFaults > 0 /\ ActorAt("cli", "prepareKey")
    /\ disk' = [disk EXCEPT !.next = 0]
    /\ End("cli")
    /\ UNCHANGED <<roots, signer, due, presented, docker, broken>>

RotationNext ==
    \/ \E a \in Actors : Reconcile(a) \/ Killed(a) \/ AtomicWriteFails(a)
    \/ Serve \/ Maintain \/ Gateway \/ StopServing
    \/ runTLS \/ Rotation \/ ClearPreviousRoot \/ PrepareKeyFails
    \/ OperatorTrusts \/ LeafAges

RotationSpec == RotationInit /\ [][RotationNext]_rotationVars

-----------------------------------------------------------------------------
\* The range of every variable; what the trust and the files hold are roots that exist.
RotationTypeOK ==
    /\ disk \in [ca : Roots, caKey : Roots, identity : Roots, previous : Roots,
                 next : Roots, nextKey : Roots, leaf : Leaves, leafKey : Leaves]
    /\ roots \in Roots /\ signer \in Seq(1..MaxRoots) /\ due \in BOOLEAN
    /\ job \in [Actors -> {"none", "start", "maintain", "reconcile", "rotate", "prepare",
                           "activate", "promote"}]
    /\ pc \in [Actors -> Writing \cup {"idle", "serving", "root", "key", "reconciled",
                 "installCurrent", "load", "loadKey", "prepare", "installNext",
                 "installPrevious", "installPromoted"}]
    /\ read \in [Actors -> [root : Roots, key : Roots, leaf : Leaves]]
    /\ presented \in 0..Len(signer)
    /\ slots \in BOOLEAN
    /\ trust \in [{"current", "next", "previous"} -> Roots] /\ store \subseteq 1..MaxRoots
    /\ uninstalled \subseteq 1..MaxRoots

\* No actor is at work on the files.
Quiet == ActorAt("cli", "idle") /\ pc["gateway"] \in {"idle", "serving"}
Agree == disk.ca = disk.identity /\ disk.caKey = disk.identity

\* CONTEXT.md on the rotation with two roots: no certificate is served before
\* Docker trusts its root, and none whose root Docker no longer trusts.  The code
\* keeps that of every root whose last installation under a lasting name was done
\* (it serves with the others as well, and leaves them to the operator), unless the
\* root was replaced between the Reconcile of a start and its installation.  On
\* Linux a file name is overwritten, so there it keeps it of the root of the
\* certificate on disk: a gateway that still serves the root before it may find
\* that one gone.
ServedTrusted ==
    presented # 0 /\ "replaced" \notin broken =>
        \/ signer[presented] \in Trusted \cup uninstalled
        \/ slots /\ signer[presented] # disk.ca

\* The root's three files disagree, which locks the gateway out, only after an
\* interruption between the first and the last of their writes; a pending root
\* is half there only after one between its two; and the served pair is torn
\* only after one between its two writes, or when two actors issued at once.
OnlyWindowsBreak ==
    Quiet =>
      /\ ~Agree => broken \cap {"createKey", "createIdentity",
                                "promoteKey", "promoteIdentity"} # {}
      /\ (disk.next = 0 <=> disk.nextKey # 0) =>
            broken \cap {"prepareKey", "removeNextKey"} # {}
      /\ disk.leaf # disk.leafKey =>
            broken \cap {"leafKey", "promoteLeafKey", "race"} # {}

\* Files, trust and actors are well typed and the files torn only in the named
\* windows (reconcile.go:70-248).
RotationInv == RotationTypeOK /\ OnlyWindowsBreak
=============================================================================
