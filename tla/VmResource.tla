----------------------------- MODULE VmResource -----------------------------
(***************************************************************************)
(* Four kinds of virtual machines are deployed by the command line outside *)
(* of Batch: storage clusters (remotefs.py), the resource monitor, the     *)
(* federation proxy and Slurm clusters.  Their create, resize, expand and  *)
(* delete commands are sequences of Azure calls that keep no record: what  *)
(* exists is found out by name, or by following a VM to its resources.  A  *)
(* command that fails half way leaves what it made, and the next one must  *)
(* cope with that.                                                         *)
(***************************************************************************)
EXTENDS Naturals, FiniteSets

CONSTANTS
  MaxVm,      \* bound: VMs of a deployment
  MaxFaults   \* bound: Azure calls and scripts that fail, interrupted commands

ASSUME VmResourceAssumption == MaxVm \in Nat \ {0} /\ MaxFaults \in Nat

VARIABLES
  \* configuration
  kind, vmCount, existingOk,
  conf,     \* VMs for which a further data disk is configured
  \* Azure
  vms, nics, pips, exts,
  bricks,   \* VMs whose bricks are in the file system's volume
  shared,   \* storage containers, network security group and its temporary rule for
            \* port 80, network, availability set
  parts,    \* Batch pools that have an entity and a queue, each in a partition of its own
  joined,   \* Batch pools whose start task joins the Slurm cluster
  stopped,  \* deallocated VMs
  att,      \* VMs that the further disk is attached to
  grown,    \* VMs whose file system was expanded onto it
  \* the command that runs
  pc, cmd, last,
  clean,    \* the last command was a full delete by prefix, or none was
  faults

config == <<kind, vmCount, existingOk, conf>>
machines == <<vms, exts, bricks, stopped>>
disks == <<att, grown>>
pools == <<parts, joined>>
azure == <<machines, nics, pips, shared, pools, disks>>
vars == <<config, azure, pc, cmd, last, clean, faults>>

Offset == 0..(MaxVm - 1)
Vms == 0..(vmCount - 1)
Pools == 1..2
NoCommand == [op |-> "none", new |-> {}, found |-> {}, keys |-> {},
              prefix |-> FALSE, added |-> TRUE, wait |-> FALSE, vnet |-> FALSE, base |-> FALSE]

----------------------------------------------------------------------------
(* The order in which each kind makes and deletes its resources: for each call the *)
(* one that comes after it *)

\* The scripts are uploaded, then the resources common to all VMs are made, then their
\* machines, then what runs on the machines is set up.
ClusterCreates == [store |-> "nsg", nsg |-> "vnet", vnet |-> "pips", pips |-> "nics",
                   nics |-> "avset", avset |-> "vms", vms |-> "exts", exts |-> "idle"]
ClusterResizes == [store |-> "pips", pips |-> "nics", nics |-> "avset", avset |-> "vms",
                   vms |-> "bricks", bricks |-> "exts", exts |-> "idle"]
MonitorCreates == [store |-> "files", files |-> "nsg", nsg |-> "vnet", vnet |-> "pips",
                   pips |-> "nics", nics |-> "vms", vms |-> "roles", roles |-> "open",
                   open |-> "exts", exts |-> "close", close |-> "idle"]
ProxyCreates == [store |-> "nsg", nsg |-> "vnet", vnet |-> "pips", pips |-> "nics",
                 nics |-> "vms", vms |-> "roles", roles |-> "exts", exts |-> "idle"]
SlurmCreates == [store |-> "parts", parts |-> "files", files |-> "pools", pools |-> "nsg",
                 nsg |-> "vnet", vnet |-> "pips", pips |-> "avset", avset |-> "nics",
                 nics |-> "vms", vms |-> "roles", roles |-> "exts", exts |-> "idle"]

ClusterDeletes == [delStore |-> "delVms", delVms |-> "delNics", delNics |-> "delNsg",
                   delNsg |-> "delPips", delPips |-> "delVnet", delVnet |-> "delAvset",
                   delAvset |-> "await", await |-> "idle"]
MonitorDeletes == [delStore |-> "delVms", delVms |-> "delNics", delNics |-> "delNsg",
                   delNsg |-> "delPips", delPips |-> "delVnet", delVnet |-> "await",
                   await |-> "idle"]
ProxyDeletes == [delStore |-> "delVms", delVms |-> "delNics", delNics |-> "delNsg",
                 delNsg |-> "delPips", delPips |-> "delVnet", delVnet |-> "await",
                 await |-> "idle"]
SlurmDeletes == [delVms |-> "delNics", delNics |-> "delNsg", delNsg |-> "delPips",
                 delPips |-> "delVnet", delVnet |-> "delAvset", delAvset |-> "delStore",
                 delStore |-> "await", await |-> "idle"]

Creates == [remotefs |-> ClusterCreates, monitor |-> MonitorCreates,
            federation |-> ProxyCreates, slurm |-> SlurmCreates]
Deletes == [remotefs |-> ClusterDeletes, monitor |-> MonitorDeletes,
            federation |-> ProxyDeletes, slurm |-> SlurmDeletes]
FirstDelete == IF kind = "slurm" THEN "delVms" ELSE "delStore"

Steps == CASE cmd.op = "resize" -> ClusterResizes
           [] cmd.op = "delete" -> Deletes[kind]
           [] OTHER -> Creates[kind]

\* The step after the one that ends.
After == Steps[pc]

Command == [op : {"none", "create", "resize", "expand", "suspend", "start", "delete"},
            new : SUBSET Offset, found : SUBSET Offset, keys : SUBSET Offset,
            prefix : BOOLEAN, added : BOOLEAN, wait : BOOLEAN, vnet : BOOLEAN,
            base : BOOLEAN]

TypeOK ==
  /\ kind \in {"remotefs", "monitor", "federation", "slurm"}
  /\ vmCount \in 1..MaxVm /\ existingOk \in BOOLEAN /\ conf \subseteq Offset
  /\ vms \subseteq nics /\ nics \subseteq Offset
  /\ pips \subseteq Offset /\ exts \subseteq vms
  /\ bricks \subseteq vms /\ stopped \subseteq vms
  /\ shared \subseteq {"store", "nsg", "port80", "vnet", "avset"}
  /\ parts \subseteq Pools /\ joined \subseteq Pools
  /\ grown \subseteq att /\ att \subseteq vms
  /\ pc \in {"idle"} \cup DOMAIN Steps /\ cmd \in Command
  /\ last \in {"none", "done", "raised", "failed", "expanded"}
  /\ clean \in BOOLEAN /\ faults \in 0..MaxFaults

Init ==
  /\ \/ kind = "remotefs" /\ vmCount \in 1..MaxVm
     \/ kind \in {"monitor", "federation"} /\ vmCount = 1
     \/ kind = "slurm" /\ vmCount \in 2..MaxVm
  /\ existingOk \in BOOLEAN /\ conf = {}
  /\ vms = {} /\ nics = {} /\ pips = {} /\ exts = {} /\ bricks = {} /\ shared = {}
  /\ parts = {} /\ joined = {} /\ stopped = {} /\ att = {} /\ grown = {}
  /\ pc = "idle" /\ cmd = NoCommand /\ last = "none" /\ clean = TRUE
  /\ faults = 0

----------------------------------------------------------------------------
(* Calls that end well, raise because of what they find, or fail *)

Begin(c, next) ==
  /\ pc' = next /\ cmd' = c /\ last' = "none" /\ clean' = FALSE
  /\ UNCHANGED faults

\* The command returned or raised at once.
Returns(c, result) ==
  /\ pc' = "idle" /\ cmd' = c /\ last' = result /\ clean' = FALSE
  /\ UNCHANGED faults

Go(end) ==
  /\ \/ /\ end = "ok" /\ pc' = After /\ UNCHANGED faults
        /\ last' = IF After # "idle" THEN last ELSE IF cmd.added THEN "done" ELSE "failed"
     \/ end = "raise" /\ pc' = "idle" /\ last' = "raised" /\ UNCHANGED faults
     \/ /\ end = "fail" /\ pc' = "idle" /\ last' = "failed"
        /\ faults < MaxFaults /\ faults' = faults + 1
  /\ UNCHANGED <<cmd, clean>>

Outcome(S, end) == [to |-> S, end |-> end]

\* AsyncOperation for each of new in turn, where one that exists raises: those
\* before it were started.  Of those that were started any may fail.
Made(new, S) ==
  LET started == {i \in new : \A j \in new \cap S : i < j} IN
  {Outcome(S \cup started, IF new \cap S = {} THEN "ok" ELSE "raise")}
    \cup {Outcome(S \cup T, "fail") : T \in SUBSET started}

\* Deletes are started for all and then waited for.
Removed(gone, S) ==
  {Outcome(S \ gone, "ok")} \cup {Outcome(S \ T, "fail") : T \in SUBSET gone}

\* The VMs of the deployment that exist; each is followed to its interface, public
\* address, security group and network.
Found == vms \cap Vms

----------------------------------------------------------------------------
(* create and resize *)

\* A create goes on if none of the VMs it looks for exists.
Creation(existing) ==
  /\ pc = "idle"
  /\ LET c == [NoCommand EXCEPT !.op = "create", !.new = Vms, !.base = clean] IN
     IF existing # {} THEN Returns(c, "raised") ELSE Begin(c, "store")
  /\ UNCHANGED <<config, azure>>

ClusterCreate == kind = "remotefs" /\ Creation(Found)
MonitorCreate == kind = "monitor" /\ Creation(Found)
ProxyCreate == kind = "federation" /\ Creation(Found)

\* Of a Slurm cluster only the first controller is looked for.
SlurmCreate == kind = "slurm" /\ Creation(Found \cap {0})

Create == ClusterCreate \/ MonitorCreate \/ ProxyCreate \/ SlurmCreate

\* The containers of the scripts, created anew until they exist; for the federation
\* with the blob of the global lock.
CreateStore ==
  /\ pc = "store"
  /\ \/ Go("ok") /\ shared' = shared \cup {"store"}
     \/ Go("fail") /\ UNCHANGED shared
  /\ UNCHANGED <<config, machines, nics, pips, pools, disks>>

\* The partitions of a Slurm cluster: each pool is looked up and gets an entity and a
\* queue, both named by the partition.  It raises for a volume that is not on a storage cluster, for a pool that
\* does not exist, and for an entity that is there and is not to be overwritten.
CreatePartitions ==
  /\ pc = "parts"
  /\ \E end \in {"ok", "raise", "fail"} : \E n \in 0..2 :
       /\ end = "ok" <=> n = 2
       /\ parts' = parts \cup 1..n
       /\ Go(end)
  /\ UNCHANGED <<config, machines, nics, pips, shared, joined, disks>>

\* The configuration of the services on the monitor is written and uploaded.
MonitorFiles ==
  /\ pc = "files" /\ kind = "monitor"
  /\ \E end \in {"ok", "fail"} : Go(end)
  /\ UNCHANGED <<config, azure>>

\* That of the Slurm services: it raises for a preparation script or a key of the login
\* nodes that does not exist, with the entities made already.
SlurmFiles ==
  /\ pc = "files" /\ kind = "slurm"
  /\ \E end \in {"ok", "raise", "fail"} : Go(end)
  /\ UNCHANGED <<config, azure>>

\* Mutant: the function returns at a pool that is part of the cluster already.
ApplyUntilJoined ==
  /\ pc = "pools"
  /\ \E end \in {"ok", "raise", "fail"} : \E n \in 0..2 :
       /\ end = "ok" => n = 2
       /\ joined' = IF joined = {} THEN 1..n ELSE joined
       /\ Go(end)
  /\ UNCHANGED <<config, machines, nics, pips, shared, parts, disks>>

\* The start tasks of the pools are patched one pool after the other.  A pool that
\* joined this cluster before is passed over; one that cannot join, because it has
\* nodes or an unsuitable image or network, raises, with those before it patched.
\* delete does not undo it.
ApplyToPools ==
  /\ pc = "pools"
  /\ \E end \in {"ok", "raise", "fail"} : \E n \in 0..2 :
       /\ end = "ok" <=> n = 2
       /\ joined' = joined \cup 1..n
       /\ Go(end)
  /\ UNCHANGED <<config, machines, nics, pips, shared, parts, disks>>

CreateNsg ==
  /\ pc = "nsg"
  /\ \/ "nsg" \in shared /\ Go("raise") /\ UNCHANGED shared
     \/ "nsg" \notin shared /\ Go("ok") /\ shared' = shared \cup {"nsg"}
     \/ Go("fail") /\ shared' \in {shared, shared \cup {"nsg"}}
  /\ UNCHANGED <<config, machines, nics, pips, pools, disks>>

CreateVnet ==
  /\ pc = "vnet"
  /\ \/ /\ "vnet" \in shared /\ ~existingOk
        /\ Go("raise") /\ UNCHANGED shared
     \/ /\ "vnet" \notin shared \/ existingOk
        /\ Go("ok") /\ shared' = shared \cup {"vnet"}
     \/ Go("fail") /\ UNCHANGED shared
  /\ UNCHANGED <<config, machines, nics, pips, pools, disks>>

CreatePips ==
  /\ pc = "pips"
  /\ \E o \in Made(cmd.new, pips) :
       pips' = o.to /\ Go(o.end)
  /\ UNCHANGED <<config, machines, nics, shared, pools, disks>>

CreateNics ==
  /\ pc = "nics"
  /\ \E o \in Made(cmd.new, nics) :
       nics' = o.to /\ Go(o.end)
  /\ UNCHANGED <<config, machines, pips, shared, pools, disks>>

\* create makes the set for more than one VM and raises if it exists; resize
\* takes the existing one.
AvailabilitySet ==
  /\ pc = "avset"
  /\ LET makes == cmd.op = "create" /\ vmCount > IF kind = "slurm" THEN 2 ELSE 1
         end == IF \/ makes /\ "avset" \in shared
                   \/ cmd.op = "resize" /\ "avset" \notin shared
                THEN "raise" ELSE "ok" IN
     \/ /\ Go(end)
        /\ shared' = IF makes THEN shared \cup {"avset"} ELSE shared
     \/ Go("fail") /\ UNCHANGED shared
  /\ UNCHANGED <<config, machines, nics, pips, pools, disks>>

\* create_virtual_machine creates or updates, it does not look.  A new VM has all its
\* configured disks.
CreateVms ==
  /\ pc = "vms"
  /\ \E o \in Made(cmd.new \ vms, vms) :
       /\ vms' = o.to /\ att' = att \cup (conf \cap (o.to \ vms))
       /\ Go(o.end)
  /\ UNCHANGED <<config, exts, bricks, stopped, nics, pips, shared, pools, grown>>

\* The identities of the VMs get their roles; the service may not know a new identity
\* for a while, which is retried.
AssignRoles ==
  /\ pc = "roles" /\ \E end \in {"ok", "fail"} : Go(end)
  /\ UNCHANGED <<config, azure>>

\* The volume is extended by a script on a VM that was there before.  If it fails
\* that is only logged at the end, and the next resize finds no new VM.
AddBricks ==
  /\ pc = "bricks"
  /\ \/ Go("ok") /\ bricks' = bricks \cup cmd.new
     \/ /\ faults < MaxFaults /\ faults' = faults + 1
        /\ pc' = After /\ cmd' = [cmd EXCEPT !.added = FALSE]
        /\ UNCHANGED <<last, clean, bricks>>
  /\ UNCHANGED <<config, vms, exts, stopped, nics, pips, shared, pools, disks>>

\* The bootstrap scripts run as VM extensions.
InstallExts == \E o \in Made(cmd.new \ exts, exts) : exts' = o.to \cap vms /\ Go(o.end)

\* That of a storage cluster makes the file system of the disks of its VM, in a new
\* cluster the volume of them all as well.
ClusterExts ==
  /\ pc = "exts" /\ kind = "remotefs" /\ InstallExts
  /\ LET ready == exts' \cap cmd.new IN
     /\ grown' = grown \cup (att \cap ready)
     /\ bricks' = IF cmd.op = "create" /\ cmd.new \subseteq ready THEN bricks \cup cmd.new
                                                                ELSE bricks
  /\ UNCHANGED <<config, vms, stopped, att, nics, pips, shared, pools>>

MonitorExts ==
  /\ pc = "exts" /\ kind = "monitor" /\ InstallExts
  /\ UNCHANGED <<config, vms, bricks, stopped, nics, pips, shared, pools, disks>>

\* create_federation_proxy reads the extensions before it installs one: a KeyError.
ProxyExts ==
  /\ pc = "exts" /\ kind = "federation" /\ Go("raise")
  /\ UNCHANGED <<config, azure>>

SlurmExts ==
  /\ pc = "exts" /\ kind = "slurm" /\ InstallExts
  /\ UNCHANGED <<config, vms, bricks, stopped, nics, pips, shared, pools, disks>>

\* While the script of the monitor requests a certificate, port 80 is open.  The check
\* for a rule that exists compares another name, so one that is left is replaced.
OpenPort ==
  /\ pc = "open"
  /\ \/ Go("ok") /\ shared' = shared \cup {"port80"}
     \/ Go("fail") /\ shared' \in {shared, shared \cup {"port80"}}
  /\ UNCHANGED <<config, machines, nics, pips, pools, disks>>

ClosePort ==
  /\ pc = "close"
  /\ \/ Go("ok") /\ shared' = shared \ {"port80"}
     \/ Go("fail") /\ UNCHANGED shared
  /\ UNCHANGED <<config, machines, nics, pips, pools, disks>>

\* VMs beyond those that exist are added to a storage cluster.
Resize ==
  /\ pc = "idle" /\ kind = "remotefs"
  /\ LET c == [NoCommand EXCEPT !.op = "resize", !.new = Vms \ vms] IN
     \/ c.new = {} /\ Returns(c, "done")
     \/ c.new # {} /\ vms = {} /\ Returns(c, "raised")
     \/ c.new # {} /\ vms # {} /\ Begin(c, "store")
  /\ UNCHANGED <<config, azure>>

----------------------------------------------------------------------------
(* expand, suspend, start *)

\* New disks are attached to the VMs, then a script on each VM with new disks
\* expands the file system.  The report reads the exit code of every VM: one
\* without new disks has none, a KeyError.
Expand ==
  /\ pc = "idle" /\ kind = "remotefs"
  /\ LET new == (conf \ att) \cap Vms
         c == [NoCommand EXCEPT !.op = "expand", !.new = new]
         result == IF new = Vms THEN "expanded" ELSE "raised" IN
     \/ /\ ~(Vms \subseteq vms) /\ Returns(c, "raised")
        /\ UNCHANGED <<att, grown>>
     \/ /\ Vms \subseteq vms /\ new = {} /\ Returns(c, "done")
        /\ UNCHANGED <<att, grown>>
     \/ /\ Vms \subseteq vms /\ new # {} /\ Returns(c, result)
        /\ att' = att \cup new /\ grown' = grown \cup new
     \/ /\ Vms \subseteq vms /\ new # {} /\ faults < MaxFaults
        /\ \E T \in SUBSET new : \E G \in SUBSET T :
             G # new /\ att' = att \cup T /\ grown' = grown \cup G
        /\ faults' = faults + 1 /\ pc' = "idle" /\ cmd' = c /\ clean' = FALSE
        /\ last' = "failed"
  /\ UNCHANGED <<config, machines, nics, pips, shared, pools>>

\* suspend and start act on the VMs of a storage cluster that exist, of a Slurm
\* cluster on the controller, the login nodes or both.
Targets == IF kind = "slurm" THEN {{0}, Vms \ {0}, Vms} ELSE {Vms}

\* A storage cluster's failed deallocation is seen if the command waits.
Suspend ==
  /\ pc = "idle" /\ kind = "remotefs" /\ Found # {}
  /\ \E o \in Removed(Found, vms \ stopped), wait \in BOOLEAN :
       /\ stopped' = vms \ o.to
       /\ pc' = "idle" /\ cmd' = [NoCommand EXCEPT !.op = "suspend"] /\ clean' = FALSE
       /\ last' = IF wait /\ o.end = "fail" THEN "failed" ELSE "done"
       /\ IF o.end = "fail" THEN faults < MaxFaults /\ faults' = faults + 1
                           ELSE UNCHANGED faults
  /\ UNCHANGED <<config, vms, exts, bricks, nics, pips, shared, pools, disks>>

\* All VMs of a storage cluster must exist, or none is started.
Start ==
  /\ pc = "idle" /\ kind = "remotefs" /\ stopped # {}
  /\ LET c == [NoCommand EXCEPT !.op = "start"] IN
     \/ ~(Vms \subseteq vms) /\ Returns(c, "raised") /\ UNCHANGED stopped
     \/ Vms \subseteq vms /\ Returns(c, "done") /\ stopped' = stopped \ Vms
  /\ UNCHANGED <<config, vms, exts, bricks, nics, pips, shared, pools, disks>>

\* A VM of the other kinds that does not exist is only logged.
SuspendVms ==
  /\ pc = "idle" /\ kind # "remotefs"
  /\ \E T \in Targets : stopped' = stopped \cup (T \cap vms)
  /\ Returns([NoCommand EXCEPT !.op = "suspend"], "done")
  /\ UNCHANGED <<config, vms, exts, bricks, nics, pips, shared, pools, disks>>

StartVms ==
  /\ pc = "idle" /\ kind # "remotefs" /\ stopped # {}
  /\ \E T \in Targets : stopped' = stopped \ T
  /\ Returns([NoCommand EXCEPT !.op = "start"], "done")
  /\ UNCHANGED <<config, vms, exts, bricks, nics, pips, shared, pools, disks>>

----------------------------------------------------------------------------
(* delete *)

\* Mutant: --generate-from-prefix generates names only if no VM is found.
GeneratesForNone(found, prefix) == IF found = {} /\ prefix THEN Vms ELSE found

\* The offsets whose resources are deleted: those of the VMs that are found, and
\* with --generate-from-prefix of all others by their names.
Keys(found, prefix) == IF prefix THEN Vms ELSE found

\* A delete goes on if it has any names to delete by.
Deletion ==
  /\ pc = "idle"
  /\ \E prefix \in BOOLEAN, wait \in BOOLEAN, vnet \in BOOLEAN :
       /\ prefix => ~vnet
       /\ LET c == [NoCommand EXCEPT !.op = "delete", !.found = Found,
                      !.keys = Keys(Found, prefix), !.prefix = prefix,
                      !.wait = wait, !.vnet = vnet] IN
          IF c.keys = {} THEN Returns(c, "done") ELSE Begin(c, FirstDelete)
  /\ UNCHANGED <<config, azure>>

ClusterDelete == kind = "remotefs" /\ Deletion
MonitorDelete == kind = "monitor" /\ Deletion
ProxyDelete == kind = "federation" /\ Deletion
SlurmDelete == kind = "slurm" /\ Deletion

Delete == ClusterDelete \/ MonitorDelete \/ ProxyDelete \/ SlurmDelete

\* delete --delete-resource-group deletes the resource group with all that is in it, the
\* network too if that is where it is, and nothing else.  For a Slurm cluster it asks a
\* list for the name of its group: an AttributeError.
DeleteGroup ==
  /\ pc = "idle"
  /\ LET c == [NoCommand EXCEPT !.op = "delete"] IN
     IF kind = "slurm" THEN Returns(c, "raised") /\ UNCHANGED azure
     ELSE /\ Returns(c, "done")
          /\ vms' = {} /\ nics' = {} /\ pips' = {} /\ exts' = {} /\ bricks' = {}
          /\ stopped' = {} /\ att' = {} /\ grown' = {}
          /\ shared' \in {shared \cap {"store"}, shared \cap {"store", "vnet"}}
          /\ UNCHANGED pools
  /\ UNCHANGED config

\* The containers go first; those of a Slurm cluster last, with the entities and queues
\* of its partitions, and only if the first controller was found, whose tags name the
\* cluster.
DeleteStore ==
  /\ pc = "delStore"
  /\ LET named == kind # "slurm" \/ 0 \in cmd.found IN
     \/ /\ named /\ Go("ok")
        /\ shared' = shared \ {"store"} /\ parts' = {}
     \/ /\ named /\ Go("fail")
        /\ UNCHANGED shared /\ parts' \in {parts, {}}
     \/ ~named /\ Go("ok") /\ UNCHANGED <<shared, parts>>
  /\ UNCHANGED <<config, machines, nics, pips, joined, disks>>

DeleteVms ==
  /\ pc = "delVms"
  /\ \E o \in Removed(vms \cap cmd.keys, vms) :
       /\ vms' = o.to /\ Go(o.end)
       /\ exts' = exts \cap o.to /\ stopped' = stopped \cap o.to
       /\ bricks' = bricks \cap o.to
       /\ att' = att \cap o.to /\ grown' = grown \cap o.to
  /\ UNCHANGED <<config, nics, pips, shared, pools>>

\* Mutant: only the interfaces of VMs that were found are deleted.
DeleteFoundNics ==
  /\ pc = "delNics"
  /\ \E o \in Removed(nics \cap cmd.found, nics) : nics' = o.to /\ Go(o.end)
  /\ UNCHANGED <<config, machines, pips, shared, pools, disks>>

DeleteNics ==
  /\ pc = "delNics"
  /\ \E o \in Removed(nics \cap cmd.keys, nics) : nics' = o.to /\ Go(o.end)
  /\ UNCHANGED <<config, machines, pips, shared, pools, disks>>

\* Azure does not delete a security group in use: the call raises, or it is a
\* conflict, which is retried when the command waits.
DeleteNsg ==
  /\ pc = "delNsg"
  /\ \/ /\ nics = {} \/ "nsg" \notin shared
        /\ shared' = shared \ {"nsg", "port80"} /\ Go("ok")
     \/ nics # {} /\ "nsg" \in shared /\ UNCHANGED shared
        /\ \E end \in {"ok", "raise"} : Go(end)
     \/ UNCHANGED shared /\ Go("fail")
  /\ UNCHANGED <<config, machines, nics, pips, pools, disks>>

DeletePips ==
  /\ pc = "delPips"
  /\ \E o \in Removed(pips \cap cmd.keys, pips) : pips' = o.to /\ Go(o.end)
  /\ UNCHANGED <<config, machines, nics, shared, pools, disks>>

\* The network is only known from a VM.  A subnet in use is retried for ever.
DeleteVnet ==
  /\ pc = "delVnet"
  /\ \/ /\ cmd.vnet /\ cmd.found # {} /\ nics = {}
        /\ shared' = shared \ {"vnet"} /\ Go("ok")
     \/ /\ ~cmd.vnet \/ cmd.found = {}
        /\ Go("ok") /\ UNCHANGED shared
     \/ Go("fail") /\ UNCHANGED shared
  /\ UNCHANGED <<config, machines, nics, pips, pools, disks>>

\* The set is known from a VM; its name is generated for storage clusters only.
DeleteAvset ==
  /\ pc = "delAvset"
  /\ \/ /\ cmd.found # {} \/ (kind = "remotefs" /\ vmCount > 1)
        /\ shared' = shared \ {"avset"} /\ Go("ok")
     \/ /\ cmd.found = {} /\ ~(kind = "remotefs" /\ vmCount > 1)
        /\ UNCHANGED shared /\ Go("ok")
     \/ UNCHANGED shared /\ Go("fail")
  /\ UNCHANGED <<config, machines, nics, pips, pools, disks>>

\* With wait, the command ends when the security group is deleted.
Await ==
  /\ pc = "await"
  /\ cmd.wait => nics = {} \/ "nsg" \notin shared
  /\ shared' = IF cmd.wait THEN shared \ {"nsg", "port80"} ELSE shared
  /\ pc' = "idle" /\ last' = "done" /\ clean' = (cmd.prefix /\ cmd.wait)
  /\ UNCHANGED <<config, machines, nics, pips, pools, disks, cmd, faults>>

\* A command that retries for ever is interrupted.
Interrupt ==
  /\ \/ pc = "await" /\ cmd.wait /\ nics # {} /\ "nsg" \in shared
     \/ pc = "delVnet" /\ cmd.vnet /\ cmd.found # {} /\ nics # {}
  /\ pc' = "idle" /\ last' = "failed"
  /\ UNCHANGED <<config, azure, cmd, clean, faults>>

----------------------------------------------------------------------------

\* The configuration of a storage cluster grows by a VM or by disks.
Configure ==
  /\ pc = "idle" /\ kind = "remotefs"
  /\ \/ vmCount < MaxVm /\ vmCount' = vmCount + 1 /\ UNCHANGED conf
     \/ conf # Vms /\ conf' \in {conf \cup Vms, conf \cup {0}} /\ UNCHANGED vmCount
  /\ last' = "none" /\ UNCHANGED <<kind, existingOk, azure, pc, cmd, clean, faults>>

Step ==
  \/ CreateStore \/ CreatePartitions \/ MonitorFiles \/ SlurmFiles \/ ApplyToPools
  \/ AddBricks \/ AssignRoles \/ DeleteStore
  \/ CreateNsg \/ CreateVnet \/ CreatePips \/ CreateNics \/ AvailabilitySet
  \/ CreateVms \/ ClusterExts \/ MonitorExts \/ ProxyExts \/ SlurmExts
  \/ OpenPort \/ ClosePort
  \/ DeleteVms \/ DeleteNics \/ DeleteNsg \/ DeletePips \/ DeleteVnet
  \/ DeleteAvset \/ Await

Next ==
  \/ Create \/ Resize \/ Expand \/ Suspend \/ Start \/ SuspendVms \/ StartVms
  \/ Delete \/ DeleteGroup \/ Configure
  \/ Step \/ Interrupt

\* A command that was started runs on; nobody has to interrupt one.
Spec == Init /\ [][Next]_vars /\ WF_vars(Step)

----------------------------------------------------------------------------
(* Properties *)

NothingLeft ==
  /\ vms = {} /\ nics = {} /\ pips = {} /\ "nsg" \notin shared
  /\ kind # "slurm" => "store" \notin shared
  /\ kind = "remotefs" => "avset" \notin shared

\* --generate-from-prefix deletes by "all resource names using conventions used"
\* what any sequence of commands, failed at any call, left behind.  After that
\* create works: nothing that is left makes it raise.  (Not for a Slurm cluster,
\* whose availability set and containers may stay, nor for the federation proxy, whose
\* create always raises.)
PrefixCleans ==
  /\ clean => NothingLeft
  /\ cmd.op = "create" /\ cmd.base /\ existingOk /\ kind \in {"remotefs", "monitor"}
       => last # "raised"

\* What a command reports is so, whatever commands failed before it: after a create
\* or a resize that ended well every VM is there, the new ones with all that belongs
\* to them and with their bricks in the volume, every pool is in its partition and
\* joins the Slurm cluster, and port 80 is closed; an expansion is only reported when
\* every VM's file system has its new disks.
ReportsTrue ==
  /\ last = "done" /\ cmd.op \in {"create", "resize"} =>
       /\ Vms \subseteq vms \cap nics
       /\ cmd.new \subseteq exts \cap pips
       /\ kind = "remotefs" => cmd.new \subseteq bricks
  /\ last = "done" /\ cmd.op = "create" =>
       /\ {"store", "nsg", "vnet"} \subseteq shared
       /\ kind = "slurm" => parts = Pools /\ joined = Pools
       /\ "port80" \notin shared
  /\ last = "expanded" => conf \cap Vms \subseteq grown

\* Every command ends, and delete by prefix does not wait for ever on a conflict
\* with an interface of a VM that it did not find.
CommandsEnd == [](pc # "idle" /\ (cmd.prefix \/ cmd.op # "delete") => <>(pc = "idle"))

=============================================================================
